---------------------------- MODULE SessionProofs ----------------------------
(***************************************************************************)
(* The life of a session, for every number of workers, packets and deaths, *)
(* every queue size and every restart limit: nothing is written twice, no  *)
(* child is forgotten by a session that ran its shutdown or its cleanup,   *)
(* every session that is not interrupted while it replaces a worker gets a *)
(* verdict, and the verdict "complete" is true.                            *)
(***************************************************************************)
EXTENDS Session, SumTheorems, TLAPS

\* What the variables hold.
ReportType ==
    [state : {"none", "ready", "heartbeat", "stopped", "fatal"},
     packets : Nat, findings : Nat, errors : Nat, drops : BOOLEAN]

ProcessType ==
    [pid : Nat, state : {"off", "starting", "running", "flushing", "leaving", "gone", "doomed"},
     clean : BOOLEAN, hand : Nat, held : Seq(Nat), buffer : Seq(Nat),
     packets : Nat, findings : Nat, errors : Nat, drops : BOOLEAN]

WriterType ==
    [state : {"off", "starting", "running", "leaving", "gone", "doomed"}, clean : BOOLEAN,
     findingsStopped : BOOLEAN, operationsStopped : BOOLEAN]

ChildrenType ==
    /\ worker \in [Workers -> ProcessType]
    /\ sent \in [Workers -> [Pids -> ReportType]]
    /\ writer \in WriterType

QueuesType ==
    /\ inbox \in [Workers -> Seq(Nat)]
    /\ findingQ \in Seq(Nat)
    /\ operationQ \in Seq({"record", "stop"})
    /\ file \in Seq(Nat)

\* Where run() is.
Starting   == {"start", "awaitWriter", "startWorkers"}
CleaningUp == {"cleanup", "cleanupWorkers", "cleanupWriter"}
Closing    == {"stopRecord", "stopFindings", "stopOperations", "joinWriter", "verdict"}
Errors     == {"none", "startup", "error", "interrupt", "abandoned"}

ControlType ==
    /\ next \in Nat
    /\ error \in Errors
    /\ stopRequested \in BOOLEAN /\ incomplete \in BOOLEAN

Types == ControlType /\ ChildrenType /\ QueuesType /\ captured \in Nat
-----------------------------------------------------------------------------
(***************************************************************************)
(* The end of the children                                                 *)
(***************************************************************************)

AllGone == \A w \in Workers : ~Runs(worker[w])

\* What has been joined or terminated stays so; the workers are spawned in order.
Reaped ==
    /\ phase \in Starting =>
          /\ next \in Workers /\ (phase # "startWorkers" => next = 0)
          /\ \A w \in Workers : IF w < next THEN worker[w].pid = 1
                                 ELSE worker[w] = Process(0, "off")
    /\ (phase = "cleanupWorkers" /\ Listed) \/ phase = "endWorkers" =>
          \A w \in Workers : w < next => ~Runs(worker[w])
    /\ phase = "cleanupWriter" \/ (phase = "ended" /\ outcome = "startup") => AllGone \/ ~Listed
    /\ phase \in Closing => AllGone
    /\ phase = "verdict" => ~Runs(writer)
    /\ phase = "ended" /\ outcome # "abandoned" => ~Runs(writer)
    /\ phase = "ended" /\ outcome \notin {"abandoned", "startup"} => AllGone

\* A session that fails to start has dispatched nothing, and tells every worker to stop.
Told ==
    /\ phase \in Starting \cup {"awaitWorkers", "openRing", "openSource", "cleanup"} =>
          \A w \in Workers : inbox[w] = <<>>
    /\ phase \in {"cleanupWorkers", "cleanupWriter"} \/ (phase = "ended" /\ outcome = "startup") =>
          \A w \in Workers : worker[w].state \in {"starting", "running"} => inbox[w] = <<Stop>>
    /\ ~Listed => dispatched = {}

\* An interrupted session has replaced a worker.
Replaced == incomplete /\ \E w \in Workers : worker[w].pid > 1

Interrupted ==
    /\ phase \notin Starting \cup CleaningUp \cup {"ended"} => Listed
    /\ phase \in CleaningUp => error = "startup"
    /\ error = "startup" => phase \in CleaningUp \cup {"ended"}
    /\ phase = "awaitReplacement" => Replaced
    /\ error = "interrupt" => stopRequested /\ Replaced
    /\ phase = "ended" => outcome \in (Errors \ {"none"}) \cup {"complete", "incomplete"}
    /\ outcome = "interrupt" => stopRequested /\ Replaced

ControlInv == Types /\ Reaped /\ Interrupted /\ Told
-----------------------------------------------------------------------------
(***************************************************************************)
(* Where a packet is                                                       *)
(***************************************************************************)

Places == (Workers \X {"inbox", "hand", "held", "buffer"}) \cup ({0} \X {"pipe", "file"})

At(inb, wrk, pipe, log, place) ==
    LET w == place[1]
    IN  CASE place[2] = "inbox"  -> inb[w]
          [] place[2] = "hand"   -> IF wrk[w].hand = None THEN <<>> ELSE <<wrk[w].hand>>
          [] place[2] = "held"   -> wrk[w].held
          [] place[2] = "buffer" -> wrk[w].buffer
          [] place[2] = "pipe"   -> pipe
          [] place[2] = "file"   -> log

ContentsOf(inb, wrk, pipe, log) == [place \in Places |-> At(inb, wrk, pipe, log, place)]

Contents == ContentsOf(inbox, worker, findingQ, file)

\* No packet is in two places or twice in one.
Unique(c) ==
    \A a, b \in DOMAIN c : \A i \in DOMAIN c[a], j \in DOMAIN c[b] :
        c[a][i] = c[b][j] /\ c[a][i] # 0 => a = b /\ i = j

\* Packets waiting for analysis are dispatched and not analysed; the others were found.
Sorted ==
    /\ dispatched \subseteq 1 .. captured
    /\ \A w \in Workers :
          /\ ToSet(inbox[w]) \subseteq (dispatched \ analysed) \cup {Stop}
          /\ worker[w].hand \in (dispatched \ analysed) \cup {None}
          /\ ToSet(worker[w].held) \subseteq found
          /\ ToSet(worker[w].buffer) \subseteq found
    /\ ToSet(findingQ) \subseteq found \cup {Stop}
    /\ ToSet(file) \subseteq found
    /\ found \subseteq analysed /\ analysed \subseteq dispatched

PlaceInv == Types /\ Unique(Contents) /\ Sorted
-----------------------------------------------------------------------------
(***************************************************************************)
(* What a complete session has done                                        *)
(***************************************************************************)

\* A worker process that ended without its report.
Failed(w) == worker[w].state \in {"leaving", "gone", "doomed"} /\ ~worker[w].clean

Flawed == \E w \in Workers : worker[w].errors > 0 \/ Failed(w)

\* A clean exit follows the flush, the report and the feeder's last write.
CleanExit ==
    \A w \in Workers :
       /\ worker[w].state = "flushing" => worker[w].hand = None
       /\ worker[w].clean =>
            /\ worker[w].state \in {"leaving", "gone"}
            /\ worker[w].hand = None /\ worker[w].held = <<>>
            /\ worker[w].state = "gone" => worker[w].buffer = <<>>
            /\ worker[w].pid = 1 =>
                 /\ sent[w][1].state = "stopped" /\ sent[w][1].errors = worker[w].errors
                 /\ sent[w][1].drops = worker[w].drops

\* While nothing is marked, no packet and no finding is missing, unless a worker
\* has an error or a failure that will be.
Conserved ==
    /\ \A p \in dispatched :
          \/ p \in analysed \/ Flawed
          \/ \E w \in Workers : p \in ToSet(inbox[w]) \/ p = worker[w].hand
    /\ \A p \in found :
          \/ p \in ToSet(findingQ) \/ p \in ToSet(file) \/ Flawed
          \/ \E w \in Workers : p \in ToSet(worker[w].held) \/ p \in ToSet(worker[w].buffer)

\* No operational record was dropped.
Undropped ==
    /\ ~lostEvents
    /\ \A w \in Workers : worker[w].pid = 1 /\ worker[w].clean /\ ~worker[w].drops

\* What Reconcile has established.
Settled ==
    /\ Undropped
    /\ dispatched = (1 .. captured) \ ignored /\ analysed = dispatched
    /\ found \subseteq ToSet(findingQ) \cup ToSet(file)

Unmarked ==
    ~incomplete =>
        /\ \A w \in Workers : worker[w].pid <= 1
        /\ Conserved
        /\ phase = "endWorkers" => \A w \in Workers : w < next => worker[w].clean
        /\ phase \in Closing => Settled
        /\ phase \in Closing \ {"stopRecord"} => recorded \/ "record" \in ToSet(operationQ)

\* A captured packet is not both dispatched and ignored.
Counted ==
    /\ captured <= MaxPackets
    /\ dispatched \subseteq 1 .. captured /\ ignored \subseteq 1 .. captured
    /\ dispatched \cap ignored = {}

\* The marker is the last item of its queue.
OnlyLast(q, marker) == \A i \in DOMAIN q : q[i] = marker => i = Len(q)

FindingsEnd ==
    /\ writer.findingsStopped => findingQ = <<>>
    /\ OnlyLast(findingQ, Stop)
    /\ writer.findingsStopped \/ Stop \in ToSet(findingQ) =>
          /\ AllGone \/ ~Listed
          /\ phase \in {"cleanupWriter", "stopOperations", "joinWriter", "verdict", "ended"}

OperationsEnd ==
    /\ writer.operationsStopped => operationQ = <<>>
    /\ OnlyLast(operationQ, "stop")
    /\ writer.operationsStopped \/ "stop" \in ToSet(operationQ) =>
          phase \in {"cleanupWriter", "joinWriter", "verdict", "ended"}

Closed ==
    writerSent.state = "stopped" =>
        writer.findingsStopped /\ writer.operationsStopped /\ durable

EndsInv == FindingsEnd /\ OperationsEnd /\ Closed

CompleteInv ==
    /\ ControlInv /\ PlaceInv /\ Counted /\ CleanExit /\ Unmarked /\ EndsInv
    /\ outcome # "none" => phase = "ended"
    /\ CompleteIsTrue /\ CompleteDroppedNothing
-----------------------------------------------------------------------------
(***************************************************************************)
(* Types, and what each step of a worker does to its record                *)
(***************************************************************************)

\* The record of worker w after a step of w.
Becomes(w, state, clean, hand, held, buffer, errors) ==
    /\ worker' \in [Workers -> ProcessType]
    /\ \A v \in Workers : v # w => worker'[v] = worker[v]
    /\ worker'[w].pid = worker[w].pid
    /\ worker'[w].state = state /\ worker'[w].clean = clean
    /\ worker'[w].hand = hand /\ worker'[w].held = held /\ worker'[w].buffer = buffer
    /\ worker'[w].errors = errors

\* A worker that is replaced by a record of its process.
LEMMA BecomesRecord ==
    ASSUME ChildrenType, NEW w \in Workers, NEW r \in ProcessType,
           worker' = [worker EXCEPT ![w] = r], r.pid = worker[w].pid
    PROVE  Becomes(w, r.state, r.clean, r.hand, r.held, r.buffer, r.errors)
  BY DEF Becomes, ChildrenType

\* Two records of one process that differ in what is emitted only.
SameBut(q, r) ==
    /\ q \in ProcessType
    /\ q.pid = r.pid /\ q.state = r.state /\ q.clean = r.clean /\ q.hand = r.hand
    /\ q.held = r.held /\ q.buffer = r.buffer /\ q.packets = r.packets
    /\ q.findings = r.findings /\ q.errors = r.errors

\* A record that is emitted or dropped changes nothing but the count of drops.
LEMMA EmittedSame ==
    ASSUME NEW w, NEW r \in ProcessType, NEW q \in Emitted(w, r)
    PROVE  SameBut(q, r)
  <1>1. PICK full \in {FALSE, (w \in Droppers)} : q = [r EXCEPT !.drops = @ \/ full] BY DEF Emitted
  <1>2. (r.drops \/ full) \in BOOLEAN OBVIOUS
  <1> QED BY <1>1, <1>2 DEF ProcessType, SameBut

\* What WorkerReady leaves of the worker.
LEMMA ReadyShape ==
    ASSUME Types, NEW w \in Workers, WorkerReady(w)
    PROVE  Becomes(w, "running", worker[w].clean, worker[w].hand, worker[w].held,
                   worker[w].buffer, worker[w].errors)
  <1>1. worker[w] \in ProcessType BY DEF Types, ChildrenType
  <1>2. PICK q \in Emitted(w, worker[w]) :
          worker' = [worker EXCEPT ![w] = [q EXCEPT !.state = "running"]]
    BY DEF WorkerReady
  <1>3. SameBut(q, worker[w]) BY <1>1, EmittedSame
  <1> DEFINE r == [q EXCEPT !.state = "running"]
  <1>4. /\ r \in ProcessType /\ r.pid = worker[w].pid /\ r.state = "running"
        /\ r.clean = worker[w].clean /\ r.hand = worker[w].hand /\ r.held = worker[w].held
        /\ r.buffer = worker[w].buffer /\ r.errors = worker[w].errors
    BY <1>3 DEF ProcessType, SameBut
  <1>5. worker' = [worker EXCEPT ![w] = r] BY <1>2
  <1> HIDE DEF r
  <1> QED BY <1>4, <1>5, BecomesRecord DEF Types

\* What WorkerHeartbeat leaves of it.
LEMMA HeartbeatShape ==
    ASSUME Types, NEW w \in Workers, WorkerHeartbeat(w)
    PROVE  Becomes(w, "running", worker[w].clean, worker[w].hand, worker[w].held,
                   worker[w].buffer, worker[w].errors)
  <1>1. worker[w] \in ProcessType /\ worker[w].state = "running"
    BY DEF Types, ChildrenType, WorkerHeartbeat
  <1>2. PICK q \in Emitted(w, worker[w]) : worker' = [worker EXCEPT ![w] = q]
    BY DEF WorkerHeartbeat
  <1>3. SameBut(q, worker[w]) BY <1>1, EmittedSame
  <1> QED BY <1>1, <1>2, <1>3, BecomesRecord DEF Types, SameBut

\* What TakePacket leaves of it.
LEMMA TakePacketShape ==
    ASSUME Types, NEW w \in Workers, TakePacket(w)
    PROVE  Becomes(w, "running", worker[w].clean, Head(inbox[w]), worker[w].held,
                   worker[w].buffer, worker[w].errors)
  <1>1. inbox[w] \in Seq(Nat) /\ inbox[w] # <<>> BY DEF Types, QueuesType, TakePacket
  <1>2. Head(inbox[w]) \in Nat BY <1>1
  <1> QED BY <1>2 DEF Types, ChildrenType, ProcessType, TakePacket, Becomes

\* What a finding that is put on the queue leaves of it.
LEMMA PutFindingShape ==
    ASSUME Types, NEW w \in Workers, NEW p \in Nat, NEW r \in ProcessType,
           r.pid = worker[w].pid, PutFinding(w, p, r)
    PROVE  Becomes(w, r.state, r.clean, r.hand, r.held, Append(r.buffer, p), r.errors)
  <1> DEFINE q == [r EXCEPT !.buffer = Append(@, p), !.findings = @ + 1]
  <1>1. worker' = [worker EXCEPT ![w] = q] BY DEF PutFinding
  <1>2. r.buffer \in Seq(Nat) /\ r.findings \in Nat BY DEF ProcessType
  <1>3. Append(r.buffer, p) \in Seq(Nat) /\ r.findings + 1 \in Nat BY <1>2
  <1>4. q \in ProcessType BY <1>3 DEF ProcessType
  <1>5. /\ q.pid = r.pid /\ q.state = r.state /\ q.clean = r.clean /\ q.hand = r.hand
        /\ q.held = r.held /\ q.buffer = Append(r.buffer, p) /\ q.errors = r.errors
    BY DEF ProcessType
  <1> HIDE DEF q
  <1>6. Becomes(w, q.state, q.clean, q.hand, q.held, q.buffer, q.errors)
    BY <1>1, <1>4, <1>5, BecomesRecord DEF Types
  <1> QED BY <1>5, <1>6

\* What AnalysePacket leaves of it, with or without a finding.
LEMMA AnalyseShape ==
    ASSUME Types, NEW w \in Workers, AnalysePacket(w)
    PROVE  \/ /\ Becomes(w, "running", worker[w].clean, None, worker[w].held,
                         worker[w].buffer, worker[w].errors)
              /\ analysed' = analysed \cup {worker[w].hand} /\ UNCHANGED found
           \/ /\ Becomes(w, "running", worker[w].clean, None, worker[w].held,
                         Append(worker[w].buffer, worker[w].hand), worker[w].errors)
              /\ analysed' = analysed \cup {worker[w].hand}
              /\ found' = found \cup {worker[w].hand}
           \/ /\ Becomes(w, "running", worker[w].clean, None,
                         Append(worker[w].held, worker[w].hand), worker[w].buffer, worker[w].errors)
              /\ analysed' = analysed \cup {worker[w].hand}
              /\ found' = found \cup {worker[w].hand}
           \/ /\ Becomes(w, "running", worker[w].clean, None, worker[w].held,
                         worker[w].buffer, worker[w].errors + 1)
              /\ UNCHANGED ghosts
  <1> DEFINE p == worker[w].hand
             done == [worker[w] EXCEPT !.hand = None, !.packets = @ + 1]
  <1>1. worker[w] \in ProcessType /\ worker[w].state = "running" /\ p \in Nat
    BY DEF Types, ChildrenType, ProcessType, AnalysePacket
  <1>2. done \in ProcessType
    <2>1. worker[w].packets \in Nat BY <1>1 DEF ProcessType
    <2>2. worker[w].packets + 1 \in Nat /\ None \in Nat BY <2>1 DEF None
    <2> QED BY <1>1, <2>2 DEF ProcessType
  <1>3. /\ done.pid = worker[w].pid /\ done.state = "running"
        /\ done.clean = worker[w].clean /\ done.hand = None /\ done.held = worker[w].held
        /\ done.buffer = worker[w].buffer /\ done.errors = worker[w].errors
    BY <1>1 DEF ProcessType
  <1>4. \/ /\ worker' = [worker EXCEPT ![w] = done]
           /\ analysed' = analysed \cup {p} /\ UNCHANGED found
        \/ /\ PutFinding(w, p, done)
           /\ analysed' = analysed \cup {p} /\ found' = found \cup {p}
        \/ /\ worker' = [worker EXCEPT ![w] = [done EXCEPT !.held = Append(@, p)]]
           /\ analysed' = analysed \cup {p} /\ found' = found \cup {p}
        \/ /\ \E process \in Emitted(w, done) :
                 worker' = [worker EXCEPT ![w] = [process EXCEPT !.errors = @ + 1]]
           /\ UNCHANGED ghosts
    BY DEF AnalysePacket
  <1> HIDE DEF done
  <1>5. ASSUME worker' = [worker EXCEPT ![w] = done]
        PROVE  Becomes(w, "running", worker[w].clean, None, worker[w].held,
                       worker[w].buffer, worker[w].errors)
    BY <1>2, <1>3, <1>5, BecomesRecord DEF Types
  <1>6. ASSUME PutFinding(w, p, done)
        PROVE  Becomes(w, "running", worker[w].clean, None, worker[w].held,
                       Append(worker[w].buffer, p), worker[w].errors)
    BY <1>1, <1>2, <1>3, <1>6, PutFindingShape
  <1>7. ASSUME worker' = [worker EXCEPT ![w] = [done EXCEPT !.held = Append(@, p)]]
        PROVE  Becomes(w, "running", worker[w].clean, None,
                       Append(worker[w].held, p), worker[w].buffer, worker[w].errors)
    <2> DEFINE q == [done EXCEPT !.held = Append(@, p)]
    <2>1. done.held \in Seq(Nat) BY <1>2 DEF ProcessType
    <2>2. Append(done.held, p) \in Seq(Nat) BY <1>1, <2>1
    <2>3. q \in ProcessType BY <1>2, <2>2 DEF ProcessType
    <2>4. /\ q.pid = done.pid /\ q.state = done.state /\ q.clean = done.clean
          /\ q.hand = done.hand /\ q.held = Append(done.held, p)
          /\ q.buffer = done.buffer /\ q.errors = done.errors
      BY <1>2 DEF ProcessType
    <2>5. worker' = [worker EXCEPT ![w] = q] BY <1>7
    <2> HIDE DEF q
    <2> QED BY <1>3, <2>3, <2>4, <2>5, BecomesRecord DEF Types
  <1>8. ASSUME NEW r \in Emitted(w, done),
               worker' = [worker EXCEPT ![w] = [r EXCEPT !.errors = @ + 1]]
        PROVE  Becomes(w, "running", worker[w].clean, None, worker[w].held,
                       worker[w].buffer, worker[w].errors + 1)
    <2> DEFINE q == [r EXCEPT !.errors = @ + 1]
    <2>1. SameBut(r, done) BY <1>2, EmittedSame
    <2>2. r \in ProcessType /\ r.errors + 1 \in Nat BY <2>1 DEF ProcessType, SameBut
    <2>3. q \in ProcessType BY <2>2 DEF ProcessType
    <2>4. /\ q.pid = done.pid /\ q.state = done.state /\ q.clean = done.clean
          /\ q.hand = done.hand /\ q.held = done.held
          /\ q.buffer = done.buffer /\ q.errors = done.errors + 1
      BY <2>1, <2>2 DEF ProcessType, SameBut
    <2>5. worker' = [worker EXCEPT ![w] = q] BY <1>8
    <2> HIDE DEF q
    <2> QED BY <1>3, <2>3, <2>4, <2>5, BecomesRecord DEF Types
  <1> QED BY <1>4, <1>5, <1>6, <1>7, <1>8

\* What TakeStop leaves of it.
LEMMA TakeStopShape ==
    ASSUME Types, NEW w \in Workers, TakeStop(w)
    PROVE  Becomes(w, "flushing", worker[w].clean, worker[w].hand, worker[w].held,
                   worker[w].buffer, worker[w].errors)
  BY DEF Types, ChildrenType, ProcessType, TakeStop, Becomes

\* What EmitHeld leaves of it.
LEMMA EmitShape ==
    ASSUME Types, NEW w \in Workers, EmitHeld(w)
    PROVE  Becomes(w, worker[w].state, worker[w].clean, worker[w].hand, Tail(worker[w].held),
                   Append(worker[w].buffer, Head(worker[w].held)), worker[w].errors)
  <1> DEFINE r == [worker[w] EXCEPT !.held = Tail(@)]
             p == Head(worker[w].held)
  <1>1. worker[w] \in ProcessType /\ worker[w].held \in Seq(Nat) /\ worker[w].held # <<>>
    BY DEF Types, ChildrenType, ProcessType, EmitHeld
  <1>2. p \in Nat /\ Tail(worker[w].held) \in Seq(Nat) BY <1>1
  <1>3. r \in ProcessType BY <1>1, <1>2 DEF ProcessType
  <1>4. /\ r.pid = worker[w].pid /\ r.state = worker[w].state /\ r.clean = worker[w].clean
        /\ r.hand = worker[w].hand /\ r.held = Tail(worker[w].held)
        /\ r.buffer = worker[w].buffer /\ r.errors = worker[w].errors
    BY <1>1 DEF ProcessType
  <1>5. PutFinding(w, p, r) BY DEF EmitHeld
  <1> HIDE DEF r, p
  <1>6. Becomes(w, r.state, r.clean, r.hand, r.held, Append(r.buffer, p), r.errors)
    BY <1>2, <1>3, <1>4, <1>5, PutFindingShape
  <1> QED BY <1>4, <1>6 DEF p

\* What WorkerStops leaves of it.
LEMMA StopsShape ==
    ASSUME Types, NEW w \in Workers, WorkerStops(w)
    PROVE  Becomes(w, "leaving", TRUE, worker[w].hand, worker[w].held,
                   worker[w].buffer, worker[w].errors)
  <1>1. worker[w] \in ProcessType BY DEF Types, ChildrenType
  <1>2. PICK q \in Emitted(w, worker[w]) :
          worker' = [worker EXCEPT ![w] = [q EXCEPT !.state = "leaving", !.clean = TRUE]]
    BY DEF WorkerStops
  <1>3. SameBut(q, worker[w]) BY <1>1, EmittedSame
  <1> DEFINE r == [q EXCEPT !.state = "leaving", !.clean = TRUE]
  <1>4. /\ r \in ProcessType /\ r.pid = worker[w].pid /\ r.state = "leaving" /\ r.clean = TRUE
        /\ r.hand = worker[w].hand /\ r.held = worker[w].held
        /\ r.buffer = worker[w].buffer /\ r.errors = worker[w].errors
    BY <1>3 DEF ProcessType, SameBut
  <1>5. worker' = [worker EXCEPT ![w] = r] BY <1>2
  <1> HIDE DEF r
  <1> QED BY <1>4, <1>5, BecomesRecord DEF Types

\* What the feeder thread leaves of it.
LEMMA FeedShape ==
    ASSUME Types, NEW w \in Workers, Feed(w)
    PROVE  /\ Becomes(w, worker[w].state, worker[w].clean, worker[w].hand, worker[w].held,
                      Tail(worker[w].buffer), worker[w].errors)
           /\ worker'[w].drops = worker[w].drops
  <1>1. worker[w].buffer \in Seq(Nat) /\ worker[w].buffer # <<>>
    BY DEF Types, ChildrenType, ProcessType, Feed
  <1>2. Tail(worker[w].buffer) \in Seq(Nat) BY <1>1
  <1> QED BY <1>2 DEF Types, ChildrenType, ProcessType, Feed, Becomes

\* What WorkerExits leaves of it, or the signal that takes effect.
LEMMA ExitsShape ==
    ASSUME Types, NEW w \in Workers, WorkerExits(w) \/ WorkerDies(w)
    PROVE  /\ Becomes(w, "gone", worker[w].clean, worker[w].hand, worker[w].held,
                      worker[w].buffer, worker[w].errors)
           /\ worker'[w].drops = worker[w].drops
  <1>1. worker' = [worker EXCEPT ![w].state = "gone"] BY DEF WorkerExits, WorkerDies
  <1> QED BY <1>1 DEF Types, ChildrenType, ProcessType, Becomes

\* What WorkerFails leaves of it.
LEMMA FailsShape ==
    ASSUME Types, NEW w \in Workers, WorkerFails(w)
    PROVE  Becomes(w, "leaving", worker[w].clean, None, worker[w].held,
                   worker[w].buffer, worker[w].errors)
  <1> DEFINE n == IF worker[w].hand = None THEN 0 ELSE 1
             r == [worker[w] EXCEPT !.state = "leaving", !.hand = None, !.packets = @ + n]
  <1>1. worker[w] \in ProcessType /\ n \in Nat BY DEF Types, ChildrenType
  <1>2. worker[w].packets \in Nat BY <1>1 DEF ProcessType
  <1>3. worker[w].packets + n \in Nat /\ None \in Nat BY <1>1, <1>2 DEF None
  <1>4. r \in ProcessType BY <1>1, <1>3 DEF ProcessType
  <1>5. /\ r.pid = worker[w].pid /\ r.state = "leaving" /\ r.clean = worker[w].clean
        /\ r.hand = None /\ r.held = worker[w].held
        /\ r.buffer = worker[w].buffer /\ r.errors = worker[w].errors
    BY <1>1 DEF ProcessType
  <1>6. worker' = [worker EXCEPT ![w] = r]
    BY DEF WorkerFails, Types, ChildrenType
  <1> HIDE DEF r, n
  <1>7. Becomes(w, r.state, r.clean, r.hand, r.held, r.buffer, r.errors)
    BY <1>4, <1>5, <1>6, BecomesRecord DEF Types
  <1> QED BY <1>5, <1>7

\* What terminate() leaves, or a kill.
LEMMA TerminatedShape ==
    ASSUME Types, NEW w \in Workers, NEW r \in Terminated(worker[w]),
           worker' = [worker EXCEPT ![w] = r]
    PROVE  /\ r.state \in {"gone", "doomed"}
           /\ Becomes(w, r.state, FALSE, worker[w].hand, worker[w].held,
                      worker[w].buffer, worker[w].errors)
  <1>1. worker[w] \in ProcessType BY DEF Types, ChildrenType
  <1>2. PICK st \in {"gone", "doomed"} : r = [worker[w] EXCEPT !.state = st, !.clean = FALSE]
    BY DEF Terminated, Killed
  <1>3. /\ r \in ProcessType /\ r.pid = worker[w].pid /\ r.state = st /\ r.clean = FALSE
        /\ r.hand = worker[w].hand /\ r.held = worker[w].held
        /\ r.buffer = worker[w].buffer /\ r.errors = worker[w].errors
    BY <1>1, <1>2 DEF ProcessType
  <1> QED BY <1>3, BecomesRecord DEF Types

\* What a kill from outside leaves of it.
LEMMA KilledShape ==
    ASSUME Types, NEW w \in Workers, WorkerKilled(w)
    PROVE  Becomes(w, "gone", FALSE, worker[w].hand, worker[w].held,
                   worker[w].buffer, worker[w].errors)
  <1> DEFINE r == Killed(worker[w])
  <1>1. worker' = [worker EXCEPT ![w] = r] BY DEF WorkerKilled
  <1>2. r \in Terminated(worker[w]) BY DEF Terminated
  <1>3. worker[w] \in ProcessType BY DEF Types, ChildrenType
  <1>4. r.state = "gone" BY <1>3 DEF Killed, ProcessType
  <1> HIDE DEF r
  <1> QED BY <1>1, <1>2, <1>4, TerminatedShape

\* A step of a worker is that of a process that runs, or its death after SIGTERM;
\* it keeps the pid and touches no other worker.
LEMMA WorkerStepFrame ==
    ASSUME Types, NEW w \in Workers, WorkerStep(w)
    PROVE  /\ \/ Runs(worker[w])
              \/ WorkerDies(w) /\ worker[w].state = "doomed" /\ worker'[w].state = "gone"
           /\ worker' \in [Workers -> ProcessType]
           /\ worker'[w].pid = worker[w].pid
           /\ \A v \in Workers : v # w => worker'[v] = worker[v]
           /\ UNCHANGED <<control, counters, operationQ, lostEvents, writer, writerSent, files,
                          stopRequested, incomplete, restarts, ring>>
  <1>1. UNCHANGED <<control, counters, operationQ, lostEvents, writer, writerSent, files,
                    stopRequested, incomplete, restarts, ring>>
    BY DEF WorkerStep
  <1> SUFFICES /\ \/ Runs(worker[w])
                  \/ WorkerDies(w) /\ worker[w].state = "doomed" /\ worker'[w].state = "gone"
               /\ worker' \in [Workers -> ProcessType]
               /\ worker'[w].pid = worker[w].pid
               /\ \A v \in Workers : v # w => worker'[v] = worker[v]
    BY <1>1
  <1>2. CASE WorkerReady(w) BY <1>2, ReadyShape DEF Becomes, WorkerReady, Runs
  <1>3. CASE WorkerHeartbeat(w)
    <2>1. worker[w].state = "running" BY <1>3 DEF WorkerHeartbeat
    <2> QED BY <1>3, <2>1, HeartbeatShape DEF Becomes, Runs
  <1>4. CASE TakePacket(w) BY <1>4, TakePacketShape DEF Becomes, TakePacket, Runs
  <1>5. CASE AnalysePacket(w)
    <2>1. worker[w].state = "running" BY <1>5 DEF AnalysePacket
    <2> QED BY <1>5, <2>1, AnalyseShape DEF Becomes, Runs
  <1>6. CASE TakeStop(w) BY <1>6, TakeStopShape DEF Becomes, TakeStop, Runs
  <1>7. CASE EmitHeld(w)
    <2>1. worker[w].state \in {"running", "flushing"} BY <1>7 DEF EmitHeld
    <2> QED BY <1>7, <2>1, EmitShape DEF Becomes, Runs
  <1>8. CASE WorkerStops(w)
    <2>1. worker[w].state = "flushing" BY <1>8 DEF WorkerStops
    <2> QED BY <1>8, <2>1, StopsShape DEF Becomes, Runs
  <1>9. CASE Feed(w)
    <2>1. Runs(worker[w]) BY <1>9 DEF Feed
    <2> QED BY <1>9, <2>1, FeedShape DEF Becomes
  <1>10. CASE WorkerExits(w) BY <1>10, ExitsShape DEF Becomes, WorkerExits, Runs
  <1>11. CASE WorkerDies(w) BY <1>11, ExitsShape DEF Becomes, WorkerDies
  <1>12. CASE WorkerFails(w)
    <2>1. worker[w].state \in {"running", "flushing"} BY <1>12 DEF WorkerFails
    <2> QED BY <1>12, <2>1, FailsShape DEF Becomes, Runs
  <1>13. CASE WorkerKilled(w)
    <2>1. Runs(worker[w]) BY <1>13 DEF WorkerKilled
    <2> QED BY <1>13, <2>1, KilledShape DEF Becomes
  <1> QED BY <1>2, <1>3, <1>4, <1>5, <1>6, <1>7, <1>8, <1>9, <1>10, <1>11, <1>12, <1>13
          DEF WorkerStep

\* A process that does not run never runs again by itself.
LEMMA RestsStay ==
    ASSUME Types, NEW w \in Workers, WorkerStep(w)
    PROVE  \A v \in Workers : ~Runs(worker[v]) => ~Runs(worker'[v])
  BY WorkerStepFrame DEF Runs

\* A report has the type of reports.
LEMMA ReportTyped ==
    ASSUME Types, NEW w \in Workers, worker' \in [Workers -> ProcessType],
           NEW st \in {"ready", "heartbeat", "stopped", "fatal"}, sent' = Report(w, st)
    PROVE  sent' \in [Workers -> [Pids -> ReportType]]
  <1> DEFINE r == [state |-> st, packets |-> worker'[w].packets,
                   findings |-> worker'[w].findings, errors |-> worker'[w].errors,
                   drops |-> st \in {"heartbeat", "stopped"} /\ worker'[w].drops]
  <1>1. r \in ReportType
    <2>1. (st \in {"heartbeat", "stopped"} /\ worker'[w].drops) \in BOOLEAN OBVIOUS
    <2> QED BY <2>1 DEF ReportType, ProcessType
  <1>2. sent' = [sent EXCEPT ![w][worker[w].pid] = r] BY DEF Report
  <1> HIDE DEF r
  <1>3. sent \in [Workers -> [Pids -> ReportType]] /\ sent[w] \in [Pids -> ReportType]
    BY DEF Types, ChildrenType
  <1>4. [sent[w] EXCEPT ![worker[w].pid] = r] \in [Pids -> ReportType] BY <1>1, <1>3
  <1> QED BY <1>2, <1>3, <1>4

\* What a step of a worker does to the queues it shares.
LEMMA WorkerTypes ==
    ASSUME Types, NEW w \in Workers, WorkerStep(w) PROVE Types'
  <1>1. /\ worker' \in [Workers -> ProcessType]
        /\ UNCHANGED <<control, counters, operationQ, writer, files, stopRequested, incomplete>>
    BY WorkerStepFrame
  <1>2. sent' \in [Workers -> [Pids -> ReportType]]
    <2>1. CASE UNCHANGED sent BY <2>1 DEF Types, ChildrenType
    <2>2. CASE WorkerReady(w) BY <1>1, <2>2, ReportTyped DEF WorkerReady
    <2>3. CASE WorkerHeartbeat(w) BY <1>1, <2>3, ReportTyped DEF WorkerHeartbeat
    <2>4. CASE WorkerStops(w) BY <1>1, <2>4, ReportTyped DEF WorkerStops
    <2>5. CASE WorkerFails(w) BY <1>1, <2>5, ReportTyped DEF WorkerFails
    <2>6. CASE TakePacket(w) \/ AnalysePacket(w) \/ TakeStop(w) \/ EmitHeld(w)
      BY <2>1, <2>6 DEF TakePacket, AnalysePacket, TakeStop, EmitHeld
    <2>7. CASE Feed(w) \/ WorkerExits(w) \/ WorkerDies(w) \/ WorkerKilled(w)
      BY <2>1, <2>7 DEF Feed, WorkerExits, WorkerDies, WorkerKilled
    <2> QED BY <2>2, <2>3, <2>4, <2>5, <2>6, <2>7 DEF WorkerStep
  <1>3. inbox' \in [Workers -> Seq(Nat)] /\ findingQ' \in Seq(Nat)
    <2>1. /\ inbox \in [Workers -> Seq(Nat)] /\ findingQ \in Seq(Nat)
          /\ inbox[w] \in Seq(Nat) /\ worker[w].buffer \in Seq(Nat)
      BY DEF Types, ChildrenType, QueuesType, ProcessType
    <2>2. CASE TakePacket(w) \/ TakeStop(w)
      <3>1. /\ inbox[w] # <<>> /\ inbox' = [inbox EXCEPT ![w] = Tail(@)]
            /\ UNCHANGED findingQ
        BY <2>2 DEF TakePacket, TakeStop
      <3>2. Tail(inbox[w]) \in Seq(Nat) BY <2>1, <3>1
      <3> QED BY <2>1, <3>1, <3>2
    <2>3. CASE Feed(w)
      <3>1. /\ worker[w].buffer # <<>> /\ findingQ' = Append(findingQ, Head(worker[w].buffer))
            /\ UNCHANGED inbox
        BY <2>3 DEF Feed
      <3>2. Head(worker[w].buffer) \in Nat BY <2>1, <3>1
      <3> QED BY <2>1, <3>1, <3>2
    <2>4. CASE UNCHANGED <<inbox, findingQ>> BY <2>1, <2>4
    <2>5. CASE WorkerReady(w) \/ WorkerHeartbeat(w) \/ AnalysePacket(w)
      BY <2>4, <2>5 DEF WorkerReady, WorkerHeartbeat, AnalysePacket
    <2>6. CASE EmitHeld(w) \/ WorkerStops(w) \/ WorkerExits(w) \/ WorkerDies(w)
      BY <2>4, <2>6 DEF EmitHeld, WorkerStops, WorkerExits, WorkerDies
    <2>7. CASE WorkerFails(w) \/ WorkerKilled(w)
      BY <2>4, <2>7 DEF WorkerFails, WorkerKilled
    <2> QED BY <2>2, <2>3, <2>5, <2>6, <2>7 DEF WorkerStep
  <1> QED
    BY <1>1, <1>2, <1>3
    DEF Types, ControlType, ChildrenType, QueuesType, control, counters, files

\* The writer keeps the types.
LEMMA WriterTypes == ASSUME Types, WriterStep PROVE Types'
  <1>1. UNCHANGED <<control, counters, inbox, worker, sent, stopRequested, incomplete>>
    BY DEF WriterStep
  <1>2. writer \in WriterType /\ findingQ \in Seq(Nat) /\ file \in Seq(Nat)
        /\ operationQ \in Seq({"record", "stop"})
    BY DEF Types, ChildrenType, QueuesType
  <1> SUFFICES /\ writer' \in WriterType /\ findingQ' \in Seq(Nat) /\ file' \in Seq(Nat)
               /\ operationQ' \in Seq({"record", "stop"})
    BY <1>1 DEF Types, ControlType, ChildrenType, QueuesType, control, counters
  <1>3. CASE WriterReady BY <1>2, <1>3 DEF WriterReady, WriterType, files
  <1>4. CASE WriterHeartbeat BY <1>2, <1>4 DEF WriterHeartbeat, files
  <1>5. CASE WriteFinding
    <2>1. findingQ # <<>> /\ findingQ' = Tail(findingQ) /\ UNCHANGED operationQ
      BY <1>5 DEF WriteFinding
    <2>2. Head(findingQ) \in Nat /\ Tail(findingQ) \in Seq(Nat) BY <1>2, <2>1
    <2>3. \/ writer' = [writer EXCEPT !.findingsStopped = TRUE] /\ UNCHANGED file
          \/ file' = Append(file, Head(findingQ)) /\ UNCHANGED writer
      BY <1>5 DEF WriteFinding
    <2>4. writer' \in WriterType BY <1>2, <2>3 DEF WriterType
    <2>5. file' \in Seq(Nat)
      <3>1. Append(file, Head(findingQ)) \in Seq(Nat) BY <1>2, <2>2
      <3> QED BY <1>2, <2>3, <3>1
    <2> QED BY <1>2, <2>1, <2>2, <2>4, <2>5
  <1>6. CASE WriteOperation
    <2>1. /\ operationQ # <<>> /\ operationQ' = Tail(operationQ)
          /\ writer' = [writer EXCEPT !.operationsStopped = Head(operationQ) = "stop"]
          /\ UNCHANGED <<findingQ, file>>
      BY <1>6 DEF WriteOperation
    <2>2. Tail(operationQ) \in Seq({"record", "stop"}) BY <1>2, <2>1
    <2>3. (Head(operationQ) = "stop") \in BOOLEAN OBVIOUS
    <2>4. writer' \in WriterType BY <1>2, <2>1, <2>3 DEF WriterType
    <2> QED BY <1>2, <2>1, <2>2, <2>4
  <1>7. CASE CloseFiles
    <2>1. /\ writer' = [writer EXCEPT !.state = "leaving", !.clean = TRUE]
          /\ UNCHANGED <<findingQ, operationQ, file>>
      BY <1>7 DEF CloseFiles
    <2> QED BY <1>2, <2>1 DEF WriterType
  <1>8. CASE WriterExits \/ WriterDies
    BY <1>2, <1>8 DEF WriterExits, WriterDies, WriterType, files
  <1>9. CASE WriterFails BY <1>2, <1>9 DEF WriterFails, Killed, WriterType, files
  <1> QED BY <1>3, <1>4, <1>5, <1>6, <1>7, <1>8, <1>9 DEF WriterStep

\* The types hold initially.
LEMMA InitTypes == Init => Types
  <1> SUFFICES ASSUME Init PROVE Types OBVIOUS
  <1>1. Process(0, "off") \in ProcessType /\ NoReport \in ReportType
    BY DEF Process, ProcessType, NoReport, ReportType, None
  <1>2. ChildrenType BY <1>1 DEF Init, ChildrenType, WriterType
  <1>3. QueuesType BY DEF Init, QueuesType
  <1> QED BY <1>2, <1>3 DEF Types, Init, ControlType, Errors

\* Steps of run() that leave the children and the queues as they are.
LEMMA QuietTypes ==
    ASSUME Types, UNCHANGED <<worker, sent, inbox, findingQ, operationQ, file>>,
           writer' \in WriterType, captured' \in Nat, ControlType'
    PROVE  Types'
  BY DEF Types, ChildrenType, QueuesType

\* terminate() leaves a record of the writer that does not run.
LEMMA WriterTerminated ==
    ASSUME Types, NEW r \in Terminated(writer)
    PROVE  r \in WriterType /\ ~Runs(r) /\ r.clean = FALSE
           /\ r.findingsStopped = writer.findingsStopped
           /\ r.operationsStopped = writer.operationsStopped
  <1>1. PICK st \in {"gone", "doomed"} : r = [writer EXCEPT !.state = st, !.clean = FALSE]
    BY DEF Terminated, Killed
  <1> QED BY <1>1 DEF Types, ChildrenType, WriterType, Runs

\* A new process has the type of processes.
LEMMA SpawnedTyped ==
    ASSUME Types, NEW w \in Workers
    PROVE  Process(worker[w].pid + 1, "starting") \in ProcessType
  <1>1. worker[w].pid \in Nat BY DEF Types, ChildrenType, ProcessType
  <1> QED BY <1>1 DEF Process, ProcessType, None

\* Marking the session incomplete keeps its type.
LEMMA MarkTyped == \A reason : Mark(reason) => incomplete' \in BOOLEAN
  BY DEF Mark

\* A mark stays.
LEMMA MarkStays == \A reason : Mark(reason) => (incomplete => incomplete')
  BY DEF Mark

\* The supervisor keeps the types.
LEMMA SuperviseTypes == ASSUME Types, Supervise PROVE Types'
  <1>1. /\ writer \in WriterType /\ captured \in Nat /\ next \in Nat /\ error \in Errors
        /\ stopRequested \in BOOLEAN /\ incomplete \in BOOLEAN
        /\ worker \in [Workers -> ProcessType] /\ findingQ \in Seq(Nat)
        /\ operationQ \in Seq({"record", "stop"}) /\ inbox \in [Workers -> Seq(Nat)]
    BY DEF Types, ChildrenType, ControlType, QueuesType
  <1> USE DEF Goto, Mark, Raise, Errors, ControlType, counters, queues, children, files
  <1>2. CASE StartWriter BY <1>1, <1>2, QuietTypes DEF StartWriter, WriterType
  <1>3. CASE WriterAcknowledged BY <1>1, <1>3, QuietTypes DEF WriterAcknowledged
  <1>4. CASE SpawnWorker
    <2>1. worker' \in [Workers -> ProcessType]
      <3>1. CASE next \in Workers
        <4>1. Process(worker[next].pid + 1, "starting") \in ProcessType BY <3>1, SpawnedTyped
        <4> QED BY <1>1, <1>4, <4>1 DEF SpawnWorker, Spawned
      <3>2. CASE next \notin Workers BY <1>1, <1>4, <3>2 DEF SpawnWorker, Spawned
      <3> QED BY <3>1, <3>2
    <2>2. ControlType' BY <1>1, <1>4 DEF SpawnWorker
    <2>3. UNCHANGED <<captured, sent, writer, inbox, findingQ, operationQ, file>>
      BY <1>4 DEF SpawnWorker
    <2> QED BY <1>1, <2>1, <2>2, <2>3 DEF Types, ChildrenType, QueuesType
  <1>5. CASE CleanUpRaises BY <1>1, <1>5, QuietTypes DEF CleanUpRaises
  <1>6. ASSUME NEW w \in Workers, SeeReady(w) PROVE Types'
    <2>1. next' \in Nat
      <3>1. w \in Nat BY DEF Workers
      <3> QED BY <1>1, <1>6, <3>1 DEF SeeReady
    <2>2. UNCHANGED <<error, stopRequested, incomplete, captured, writer, worker, sent, inbox,
                      findingQ, operationQ, file>>
      BY <1>6 DEF SeeReady
    <2> QED BY <1>1, <2>1, <2>2, QuietTypes
  <1>7. CASE OpenRing BY <1>1, <1>7, QuietTypes DEF OpenRing
  <1>8. CASE OpenSource BY <1>1, <1>8, QuietTypes DEF OpenSource
  <1>9. CASE StartupFails BY <1>1, <1>9, QuietTypes DEF StartupFails
  <1>10. CASE CleanUp
    <2>1. \A w \in Workers : inbox'[w] \in Seq(Nat) /\ DOMAIN inbox' = Workers
      <3> SUFFICES ASSUME NEW w \in Workers PROVE inbox'[w] \in Seq(Nat) BY <1>10 DEF CleanUp
      <3>1. inbox[w] \in Seq(Nat) BY <1>1
      <3>2. Append(inbox[w], Stop) \in Seq(Nat) BY <3>1 DEF Stop
      <3>3. inbox'[w] = IF Len(inbox[w]) < QueueSize THEN Append(inbox[w], Stop) ELSE inbox[w]
        BY <1>10 DEF CleanUp
      <3> QED BY <3>1, <3>2, <3>3
    <2>2. inbox' \in [Workers -> Seq(Nat)] BY <1>10, <2>1 DEF CleanUp
    <2> QED BY <1>1, <1>10, <2>2 DEF CleanUp, Types, ChildrenType, QueuesType
  <1>11. CASE CleanUpWorker
    <2>1. worker' \in [Workers -> ProcessType]
      <3>1. CASE worker' = worker BY <1>1, <3>1
      <3>2. ASSUME NEW r \in Terminated(worker[next]), worker' = [worker EXCEPT ![next] = r]
            PROVE  worker' \in [Workers -> ProcessType]
        <4>1. next \in Workers BY <1>1, <1>11, SessionAssumption DEF CleanUpWorker, Workers
        <4> QED BY <3>2, <4>1, TerminatedShape DEF Becomes
      <3> QED BY <1>11, <3>1, <3>2 DEF CleanUpWorker
    <2> QED BY <1>1, <1>11, <2>1 DEF CleanUpWorker, Types, ChildrenType, QueuesType
  <1>12. CASE CleanUpQueues
    <2>1. findingQ' \in Seq(Nat) BY <1>1, <1>12 DEF CleanUpQueues, Stop
    <2>2. operationQ' \in Seq({"record", "stop"})
      <3>1. Append(operationQ, "stop") \in Seq({"record", "stop"}) BY <1>1
      <3> QED BY <1>1, <1>12, <3>1 DEF CleanUpQueues
    <2> QED BY <1>1, <1>12, <2>1, <2>2 DEF CleanUpQueues, Types, ChildrenType, QueuesType
  <1>13. CASE CleanUpWriter
    BY <1>1, <1>13, QuietTypes, WriterTerminated DEF CleanUpWriter
  <1>14. CASE Read
    <2>1. captured' \in Nat /\ inbox' \in [Workers -> Seq(Nat)]
      <3>1. CASE UNCHANGED <<counters, inbox>> BY <1>1, <3>1
      <3>2. CASE captured' = captured + 1 /\ UNCHANGED inbox BY <1>1, <3>2
      <3>3. ASSUME captured' = captured + 1, NEW w \in Workers,
                   inbox' = [inbox EXCEPT ![w] = Append(@, captured')]
            PROVE  captured' \in Nat /\ inbox' \in [Workers -> Seq(Nat)]
        <4>1. inbox[w] \in Seq(Nat) /\ captured' \in Nat BY <1>1, <3>3
        <4>2. Append(inbox[w], captured') \in Seq(Nat) BY <4>1
        <4> QED BY <1>1, <3>3, <4>1, <4>2
      <3> QED BY <1>14, <3>1, <3>2, <3>3 DEF Read
    <2> QED BY <1>1, <1>14, <2>1 DEF Read, Types, ChildrenType, QueuesType
  <1>15. CASE ReadFails BY <1>1, <1>15, QuietTypes DEF ReadFails
  <1>16. CASE LeaveLoop BY <1>1, <1>16, QuietTypes DEF LeaveLoop
  <1>17. CASE CheckChildren
    <2>1. UNCHANGED <<captured, sent, writer, inbox, findingQ, operationQ, file, stopRequested>>
      BY <1>17 DEF CheckChildren
    <2>2. CASE CheckWriter /\ UNCHANGED <<incomplete, restarts, worker>>
      BY <1>1, <2>1, <2>2, QuietTypes DEF CheckWriter
    <2>3. CASE CheckWorker BY <1>1, <2>1, <2>3, QuietTypes DEF CheckWorker
    <2>4. CASE ReplaceWorker
      <3>1. next \in Workers BY <1>1, <2>4, SessionAssumption DEF ReplaceWorker, Workers
      <3>2. Process(worker[next].pid + 1, "starting") \in ProcessType BY <3>1, SpawnedTyped
      <3>3. worker' \in [Workers -> ProcessType]
        BY <1>1, <2>4, <3>2 DEF ReplaceWorker, Spawned
      <3>4. ControlType' BY <1>1, <2>1, <2>4 DEF ReplaceWorker
      <3> QED BY <2>1, <3>3, <3>4 DEF Types, ChildrenType, QueuesType
    <2>5. CASE ReplacementFails BY <1>1, <2>1, <2>5, QuietTypes DEF ReplacementFails
    <2>6. CASE CheckPasses BY <1>1, <2>1, <2>6, QuietTypes DEF CheckPasses
    <2>7. CASE CheckFails BY <1>1, <2>1, <2>7, QuietTypes DEF CheckFails
    <2> QED BY <1>17, <2>2, <2>3, <2>4, <2>5, <2>6, <2>7 DEF CheckChildren
  <1>18. CASE StopRing BY <1>1, <1>18, QuietTypes DEF StopRing
  <1>19. CASE ShutdownRaises BY <1>1, <1>19, QuietTypes DEF ShutdownRaises
  <1>20. CASE StopWorkers
    <2>1. UNCHANGED <<error, captured, findingQ, operationQ, sent, writer, file, stopRequested>>
      BY <1>20 DEF StopWorkers
    <2>2. CASE StopWorker /\ UNCHANGED <<phase, late, worker, lostEvents>>
      <3>1. next' \in Nat BY <1>1, <2>2 DEF StopWorker
      <3>2. incomplete' \in BOOLEAN BY <1>1, <2>2, MarkTyped DEF StopWorker
      <3>3. inbox' \in [Workers -> Seq(Nat)]
        <4>1. next \in Workers BY <1>1, <2>2, SessionAssumption DEF StopWorker, Workers
        <4>2. Append(inbox[next], Stop) \in Seq(Nat) BY <1>1, <4>1 DEF Stop
        <4> QED BY <1>1, <2>2, <4>1, <4>2 DEF StopWorker
      <3> QED BY <1>1, <2>1, <2>2, <3>1, <3>3, <3>2 DEF Types, ChildrenType, QueuesType
    <2>3. CASE DrainWorkers /\ UNCHANGED <<worker, lostEvents>>
      <3>1. next' \in Nat BY <1>1, <2>3 DEF DrainWorkers
      <3>2. incomplete' \in BOOLEAN BY <1>1, <2>3, MarkTyped DEF DrainWorkers
      <3>3. UNCHANGED inbox BY <2>3 DEF DrainWorkers
      <3> QED BY <1>1, <2>1, <2>3, <3>1, <3>2, <3>3, QuietTypes
    <2>4. CASE EndWorker /\ UNCHANGED <<phase, late, inbox>>
      <3>1. next' \in Nat BY <1>1, <2>4 DEF EndWorker
      <3>2. incomplete' \in BOOLEAN BY <2>4, MarkTyped DEF EndWorker
      <3>3. worker' \in [Workers -> ProcessType]
        <4>1. CASE worker' = worker BY <1>1, <4>1
        <4>2. ASSUME NEW r \in Terminated(worker[next]), worker' = [worker EXCEPT ![next] = r]
              PROVE  worker' \in [Workers -> ProcessType]
          <5>1. next \in Workers BY <1>1, <2>4, SessionAssumption DEF EndWorker, Workers
          <5> QED BY <4>2, <5>1, TerminatedShape DEF Becomes
        <4> QED BY <2>4, <4>1, <4>2 DEF EndWorker
      <3> QED BY <1>1, <2>1, <2>4, <3>1, <3>3, <3>2 DEF Types, ChildrenType, QueuesType
    <2>5. CASE Reconcile /\ UNCHANGED <<inbox, worker, lostEvents>>
      BY <1>1, <2>1, <2>5, QuietTypes DEF Reconcile
    <2> QED BY <1>20, <2>2, <2>3, <2>4, <2>5 DEF StopWorkers
  <1>21. CASE StopWriter
    <2>1. /\ UNCHANGED <<next, error, captured, inbox, worker, sent, writer, file, stopRequested>>
          /\ \/ Accepted(PutOperation("record")) \/ Accepted(PutFindingStop)
             \/ Accepted(PutOperation("stop"))
      BY <1>21 DEF StopWriter
    <2>2. incomplete' \in BOOLEAN BY <1>1, <2>1 DEF Accepted
    <2>3. findingQ' \in Seq(Nat)
      <3>1. Append(findingQ, Stop) \in Seq(Nat) BY <1>1 DEF Stop
      <3>2. findingQ' = findingQ \/ findingQ' = Append(findingQ, Stop)
        BY <2>1 DEF Accepted, PutOperation, PutFindingStop
      <3> QED BY <1>1, <3>1, <3>2
    <2>4. operationQ' \in Seq({"record", "stop"})
      <3>1. \A item \in {"record", "stop"} : Append(operationQ, item) \in Seq({"record", "stop"})
        BY <1>1
      <3>2. operationQ' = operationQ \/ \E item \in {"record", "stop"} : operationQ' = Append(operationQ, item)
        BY <2>1 DEF Accepted, PutOperation, PutFindingStop
      <3> QED BY <1>1, <3>1, <3>2
    <2> QED BY <1>1, <2>1, <2>2, <2>3, <2>4 DEF Types, ChildrenType, QueuesType
  <1>22. CASE JoinWriter
    BY <1>1, <1>22, QuietTypes, WriterTerminated DEF JoinWriter
  <1>23. CASE Conclude BY <1>1, <1>23, QuietTypes DEF Conclude
  <1>24. CASE DeadlinePasses BY <1>1, <1>24, QuietTypes DEF DeadlinePasses
  <1> QED
    BY <1>2, <1>3, <1>6, <1>7, <1>8, <1>9, <1>10, <1>11, <1>12, <1>13, <1>14, <1>15, <1>16,
       <1>17, <1>18, <1>19, <1>20, <1>21, <1>22, <1>23, <1>24, <1>4, <1>5
    DEF Supervise

\* Every step keeps the types.
LEMMA StepTypes == Types /\ [Next]_vars => Types'
  <1> SUFFICES ASSUME Types, [Next]_vars PROVE Types' OBVIOUS
  <1>1. CASE UNCHANGED vars
    BY <1>1 DEF vars, control, counters, queues, children, files, Types, ControlType,
                ChildrenType, QueuesType
  <1>2. CASE RequestStop \/ RingStops
    BY <1>2 DEF RequestStop, RingStops, control, counters, queues, children, files, Types,
                ControlType, ChildrenType, QueuesType
  <1> QED BY <1>1, <1>2, SuperviseTypes, WorkerTypes, WriterTypes DEF Next
-----------------------------------------------------------------------------
(***************************************************************************)
(* No child is forgotten, and who is told no verdict                       *)
(***************************************************************************)

\* The control invariant holds initially.
LEMMA InitControl == Init => ControlInv
  <1> SUFFICES ASSUME Init PROVE Reaped /\ Interrupted /\ Told BY InitTypes DEF ControlInv
  <1>1. Reaped
    <2>1. 0 \in Workers /\ \A w \in Workers : ~(w < 0) BY SessionAssumption DEF Workers
    <2>2. \A w \in Workers : worker[w] = Process(0, "off") BY DEF Init
    <2> QED BY <2>1, <2>2 DEF Init, Reaped, Starting, Closing
  <1>2. Interrupted BY DEF Init, Interrupted, Starting, CleaningUp
  <1>3. Told BY DEF Init, Told, Starting
  <1> QED BY <1>1, <1>2, <1>3

\* A worker keeps where run() is and whom it waits for.
LEMMA WorkerControl ==
    ASSUME ControlInv, NEW w \in Workers, WorkerStep(w) PROVE Reaped' /\ Interrupted'
  <1>1. /\ Runs(worker[w]) \/ worker[w].state = "doomed"
        /\ worker'[w].pid = worker[w].pid
        /\ \A v \in Workers : v # w => worker'[v] = worker[v]
        /\ UNCHANGED <<phase, next, error, outcome, writer, stopRequested, incomplete>>
    BY WorkerStepFrame DEF ControlInv, control
  <1>2. \A v \in Workers : worker'[v].pid = worker[v].pid BY <1>1
  <1>3. \A v \in Workers : ~Runs(worker[v]) => ~Runs(worker'[v]) BY RestsStay DEF ControlInv
  <1>4. \A v \in Workers : worker[v] = Process(0, "off") => worker'[v] = worker[v]
    BY <1>1 DEF Runs, Process
  <1>5. Listed' <=> Listed BY <1>2 DEF Listed
  <1>6. Reaped' BY <1>1, <1>2, <1>3, <1>4, <1>5 DEF ControlInv, Reaped, AllGone
  <1>7. Interrupted' BY <1>1, <1>2, <1>5 DEF ControlInv, Interrupted, Replaced
  <1> QED BY <1>6, <1>7

\* Only a worker that takes from its inbox changes one.
LEMMA WorkerInbox ==
    ASSUME Types, NEW w \in Workers, WorkerStep(w)
    PROVE  \/ TakePacket(w) \/ TakeStop(w)
           \/ /\ UNCHANGED inbox
              /\ worker'[w].state \in {"starting", "running"} =>
                    worker[w].state \in {"starting", "running"}
  <1>1. CASE WorkerReady(w)
    BY <1>1 DEF WorkerReady
  <1>2. CASE WorkerHeartbeat(w) \/ AnalysePacket(w)
    BY <1>2 DEF WorkerHeartbeat, AnalysePacket
  <1>3. CASE EmitHeld(w) BY <1>3, EmitShape DEF EmitHeld, Becomes
  <1>4. CASE WorkerStops(w) BY <1>4, StopsShape DEF WorkerStops, Becomes
  <1>5. CASE Feed(w) BY <1>5, FeedShape DEF Feed, Becomes
  <1>6. CASE WorkerExits(w) \/ WorkerDies(w)
    BY <1>6, ExitsShape DEF WorkerExits, WorkerDies, Becomes
  <1>7. CASE WorkerFails(w) BY <1>7, FailsShape DEF WorkerFails, Becomes
  <1>8. CASE WorkerKilled(w) BY <1>8, KilledShape DEF WorkerKilled, Becomes
  <1> QED BY <1>1, <1>2, <1>3, <1>4, <1>5, <1>6, <1>7, <1>8 DEF WorkerStep

\* A worker that finds the marker does not look further.
LEMMA WorkerTold ==
    ASSUME ControlInv, NEW w \in Workers, WorkerStep(w) PROVE Told'
  <1>1. /\ worker'[w].pid = worker[w].pid
        /\ \A v \in Workers : v # w => worker'[v] = worker[v]
        /\ UNCHANGED <<phase, outcome, dispatched>>
    BY WorkerStepFrame DEF ControlInv, control, counters
  <1>2. Listed' <=> Listed BY <1>1 DEF Listed
  <1>3. CASE UNCHANGED inbox /\ (worker'[w].state \in {"starting", "running"} =>
                                   worker[w].state \in {"starting", "running"})
    BY <1>1, <1>2, <1>3 DEF ControlInv, Told
  <1>4. CASE TakePacket(w) \/ TakeStop(w)
    <2>1. inbox[w] # <<>> /\ worker[w].state = "running"
      BY <1>4 DEF TakePacket, TakeStop
    <2>2. /\ inbox'[w] = Tail(inbox[w])
          /\ \A v \in Workers : v # w => inbox'[v] = inbox[v]
      BY <1>4 DEF TakePacket, TakeStop, ControlInv, Types, QueuesType
    <2>3. Head(<<Stop>>) = Stop OBVIOUS
    <2>4. TakeStop(w) => worker'[w].state = "flushing"
      BY TakeStopShape DEF Becomes, ControlInv
    <2>5. inbox[w] = <<Stop>> => TakeStop(w) BY <1>4, <2>3 DEF TakePacket
    <2> QED BY <1>1, <1>2, <2>1, <2>2, <2>4, <2>5 DEF ControlInv, Told
  <1> QED BY <1>3, <1>4, WorkerInbox DEF ControlInv

\* A writer that takes a step runs, or dies after SIGTERM.
LEMMA WriterLives ==
    ASSUME Types, WriterStep
    PROVE  Runs(writer) \/ (WriterDies /\ writer.state = "doomed" /\ writer'.state = "gone")
  <1>1. CASE WriterDies BY <1>1 DEF WriterDies, Types, ChildrenType, WriterType
  <1>2. CASE ~WriterDies
    BY <1>2 DEF WriterStep, WriterReady, WriterHeartbeat, WriteFinding, WriteOperation, CloseFiles,
         WriterExits, WriterFails, Runs
  <1> QED BY <1>1, <1>2

\* The writer keeps the control invariant.
LEMMA WriterControl == ASSUME ControlInv, WriterStep PROVE Reaped' /\ Interrupted' /\ Told'
  <1>1. /\ ~Runs(writer) => ~Runs(writer')
        /\ UNCHANGED <<phase, next, error, outcome, worker, stopRequested, incomplete, inbox,
                       dispatched>>
    BY WriterLives DEF WriterStep, control, counters, ControlInv, Runs
  <1>2. Reaped' BY <1>1 DEF ControlInv, Reaped, AllGone, Listed
  <1>3. Interrupted' BY <1>1 DEF ControlInv, Interrupted, Replaced, Listed
  <1>4. Told' BY <1>1 DEF ControlInv, Told, Listed
  <1> QED BY <1>2, <1>3, <1>4

\* What is not alive does not run.
LEMMA RunsLive == \A p : ~Alive(p) => ~Runs(p)
  BY DEF Alive, Runs

\* So does the supervisor.
LEMMA SuperviseControl == ASSUME ControlInv, Supervise PROVE Reaped' /\ Interrupted'
  <1> USE DEF Goto, Mark, Raise, Errors, Starting, CleaningUp, Closing, children, Listed
  <1>1. /\ next \in Nat /\ error \in Errors /\ worker \in [Workers -> ProcessType]
        /\ Reaped /\ Interrupted
    BY DEF ControlInv, Types, ControlType, ChildrenType
  <1>2. CASE StartWriter
    BY <1>1, <1>2 DEF StartWriter, Reaped, Interrupted, Replaced
  <1>3. CASE WriterAcknowledged
    BY <1>1, <1>3 DEF WriterAcknowledged, Reaped, Interrupted, Replaced
  <1>4. CASE SpawnWorker
    <2>1. /\ phase = "startWorkers" /\ next \in Workers
          /\ \A w \in Workers : w < next => worker[w].pid = 1
          /\ \A w \in Workers : ~(w < next) => worker[w] = Process(0, "off")
      BY <1>1, <1>4 DEF SpawnWorker, Reaped
    <2>2. worker[next].pid = 0 BY <1>1, <2>1 DEF Process
    <2>3. worker' = [worker EXCEPT ![next] = Process(1, "starting")]
      BY <1>4, <2>2 DEF SpawnWorker, Spawned
    <2>4. worker'[next].pid = 1 /\ \A v \in Workers : v # next => worker'[v] = worker[v]
      BY <1>1, <2>1, <2>3 DEF Process
    <2>5. \A v \in Workers : v < next + 1 => worker'[v].pid = 1
      BY <1>1, <2>1, <2>4 DEF Workers
    <2>6. \A v \in Workers : ~(v < next + 1) => worker'[v] = Process(0, "off")
      BY <1>1, <2>1, <2>4 DEF Workers
    <2>7. UNCHANGED <<error, outcome, incomplete, stopRequested, writer>> BY <1>4 DEF SpawnWorker
    <2>8. error \notin {"startup", "interrupt"} /\ outcome # "interrupt"
          /\ ~Replaced
      <3>1. \A v \in Workers : ~(worker[v].pid > 1) BY <2>1 DEF Process
      <3> QED BY <1>1, <2>1, <3>1 DEF Interrupted, Replaced
    <2>9. CASE next + 1 < NumWorkers /\ next' = next + 1 /\ UNCHANGED phase
      <3>1. next' \in Workers BY <1>1, <2>9, SessionAssumption DEF Workers
      <3> QED BY <2>1, <2>5, <2>6, <2>7, <2>8, <2>9, <3>1 DEF Reaped, Interrupted
    <2>10. CASE next + 1 = NumWorkers /\ phase' = "awaitWorkers"
      <3>1. \A v \in Workers : v < next + 1 BY <2>10, SessionAssumption DEF Workers
      <3>2. \A v \in Workers : worker'[v].pid > 0 BY <2>5, <3>1
      <3> QED BY <2>7, <2>8, <2>10, <3>2 DEF Reaped, Interrupted
    <2> QED BY <1>4, <2>9, <2>10 DEF SpawnWorker
  <1>5. CASE CleanUpRaises
    BY <1>1, <1>5 DEF CleanUpRaises, Reaped, Interrupted, Replaced
  <1>6. ASSUME NEW w \in Workers, SeeReady(w) PROVE Reaped' /\ Interrupted'
    BY <1>1, <1>6 DEF SeeReady, Reaped, Interrupted, Replaced
  <1>7. CASE OpenRing BY <1>1, <1>7 DEF OpenRing, Reaped, Interrupted, Replaced
  <1>8. CASE OpenSource BY <1>1, <1>8 DEF OpenSource, Reaped, Interrupted, Replaced
  <1>9. CASE StartupFails BY <1>1, <1>9 DEF StartupFails, Reaped, Interrupted, Replaced
  <1>10. CASE CleanUp BY <1>1, <1>10 DEF CleanUp, Reaped, Interrupted, Replaced, Workers
  <1>11. CASE CleanUpWorker
    <2>1. next \in Workers BY <1>1, <1>11, SessionAssumption DEF CleanUpWorker, Workers
    <2>2. /\ \A v \in Workers : v # next => worker'[v] = worker[v]
          /\ ~Runs(worker'[next])
          /\ \A v \in Workers : worker'[v].pid = worker[v].pid
      <3>1. CASE Alive(worker[next])
        <4>1. PICK r \in Terminated(worker[next]) : worker' = [worker EXCEPT ![next] = r]
          BY <1>11, <3>1 DEF CleanUpWorker
        <4> QED BY <2>1, <4>1, TerminatedShape DEF Becomes, Runs, ControlInv
      <3>2. CASE ~Alive(worker[next]) BY <1>11, <3>2, RunsLive DEF CleanUpWorker
      <3> QED BY <3>1, <3>2
    <2>3. phase = "cleanupWorkers" /\ Listed /\ next' = next + 1
          /\ UNCHANGED <<phase, error, outcome, stopRequested, incomplete>>
      BY <1>11 DEF CleanUpWorker
    <2>4. ASSUME NEW v \in Workers, v < next' PROVE ~Runs(worker'[v])
      <3>1. v < next \/ v = next BY <1>1, <2>3, <2>4 DEF Workers
      <3> QED BY <1>1, <2>2, <2>3, <3>1 DEF Reaped
    <2> QED BY <1>1, <2>2, <2>3, <2>4 DEF Reaped, Interrupted, Replaced
  <1>12. CASE CleanUpQueues
    <2>1. phase = "cleanupWorkers" /\ (Listed => next = NumWorkers) /\ phase' = "cleanupWriter"
          /\ UNCHANGED <<worker, error, outcome, stopRequested, incomplete>>
      BY <1>12 DEF CleanUpQueues
    <2>2. \A w \in Workers : w < NumWorkers BY SessionAssumption DEF Workers
    <2> QED BY <1>1, <2>1, <2>2 DEF Reaped, Interrupted, Replaced, AllGone
  <1>13. CASE CleanUpWriter
    <2>1. ~Runs(writer') BY <1>13, RunsLive, WriterTerminated DEF CleanUpWriter, ControlInv
    <2>2. /\ phase = "cleanupWriter" /\ phase' = "ended" /\ outcome' = error
          /\ UNCHANGED <<error, worker, stopRequested, incomplete>>
      BY <1>13 DEF CleanUpWriter
    <2>3. error # "none" BY <1>1, <2>2 DEF Interrupted
    <2> QED BY <1>1, <2>1, <2>2, <2>3 DEF Reaped, Interrupted, Replaced, AllGone
  <1>14. CASE Read BY <1>1, <1>14 DEF Read, Reaped, Interrupted, Replaced
  <1>15. CASE ReadFails BY <1>1, <1>15 DEF ReadFails, Reaped, Interrupted, Replaced
  <1>16. CASE LeaveLoop BY <1>1, <1>16 DEF LeaveLoop, Reaped, Interrupted, Replaced
  <1>17. CASE CheckChildren
    <2>1. UNCHANGED <<stopRequested, writer>> BY <1>17 DEF CheckChildren
    <2>2. CASE CheckWriter /\ UNCHANGED <<incomplete, restarts, worker>>
      BY <1>1, <2>1, <2>2 DEF CheckWriter, Reaped, Interrupted, Replaced
    <2>3. CASE CheckWorker
      BY <1>1, <2>1, <2>3 DEF CheckWorker, Reaped, Interrupted, Replaced
    <2>4. CASE ReplaceWorker
      <3>1. next \in Workers BY <1>1, <2>4, SessionAssumption DEF ReplaceWorker, Workers
      <3>2. /\ phase = "checkWorkers" /\ incomplete' = TRUE
            /\ \/ phase' = "stopRing" /\ error' = "error" /\ worker' = worker
               \/ /\ phase' = "awaitReplacement" /\ error' = error
                  /\ worker' = [worker EXCEPT ![next] = Process(worker[next].pid + 1, "starting")]
            /\ outcome' = outcome
        BY <2>4 DEF ReplaceWorker, Spawned
      <3>3. \A v \in Workers : worker[v].pid \in Nat /\ worker[v].pid > 0
        BY <1>1, <3>2 DEF Interrupted, ProcessType
      <3>4. \A v \in Workers : worker'[v].pid \in Nat /\ worker'[v].pid >= worker[v].pid
        BY <1>1, <3>1, <3>2, <3>3 DEF Process
      <3>5. phase' = "awaitReplacement" => worker'[next].pid > 1
        BY <1>1, <3>1, <3>2, <3>3 DEF Process
      <3>6. \A v \in Workers : worker[v].pid > 1 => worker'[v].pid > 1
        BY <3>3, <3>4
      <3>7. \A v \in Workers : worker'[v].pid > 0 BY <3>3, <3>4
      <3> QED BY <1>1, <2>1, <3>1, <3>2, <3>5, <3>6, <3>7 DEF Reaped, Interrupted, Replaced
    <2>5. CASE ReplacementFails
      BY <1>1, <2>1, <2>5 DEF ReplacementFails, Reaped, Interrupted, Replaced
    <2>6. CASE CheckPasses
      BY <1>1, <2>1, <2>6 DEF CheckPasses, Reaped, Interrupted, Replaced
    <2>7. CASE CheckFails
      BY <1>1, <2>1, <2>7 DEF CheckFails, Reaped, Interrupted, Replaced
    <2> QED BY <1>17, <2>2, <2>3, <2>4, <2>5, <2>6, <2>7 DEF CheckChildren
  <1>18. CASE StopRing BY <1>1, <1>18 DEF StopRing, Reaped, Interrupted, Replaced
  <1>19. CASE ShutdownRaises BY <1>1, <1>19 DEF ShutdownRaises, Reaped, Interrupted, Replaced
  <1>20. CASE StopWorkers
    <2>1. UNCHANGED <<stopRequested, writer, error, outcome>> BY <1>20 DEF StopWorkers
    <2>2. CASE StopWorker /\ UNCHANGED <<phase, late, worker, lostEvents>>
      <3>1. /\ phase = "stopWorkers" /\ UNCHANGED <<phase, worker>>
            /\ incomplete => incomplete'
        BY <2>2, MarkStays DEF StopWorker
      <3> QED BY <1>1, <2>1, <3>1 DEF Reaped, Interrupted, Replaced
    <2>3. CASE DrainWorkers /\ UNCHANGED <<worker, lostEvents>>
      <3>1. /\ phase \in {"stopWorkers", "drain"} /\ UNCHANGED worker
            /\ phase' = "drain" \/ (phase' = "endWorkers" /\ next' = 0)
        BY <2>3 DEF DrainWorkers
      <3>2. incomplete => incomplete' BY <2>3, MarkStays DEF DrainWorkers
      <3>3. \A w \in Workers : ~(w < 0) BY DEF Workers
      <3> QED BY <1>1, <2>1, <3>1, <3>3, <3>2 DEF Reaped, Interrupted, Replaced
    <2>4. CASE EndWorker /\ UNCHANGED <<phase, late, inbox>>
      <3>1. next \in Workers BY <1>1, <2>4, SessionAssumption DEF EndWorker, Workers
      <3>2. /\ \A v \in Workers : v # next => worker'[v] = worker[v]
            /\ ~Runs(worker'[next])
            /\ \A v \in Workers : worker'[v].pid = worker[v].pid
        <4>1. CASE \E r \in Terminated(worker[next]) : worker' = [worker EXCEPT ![next] = r]
          <5>1. PICK r \in Terminated(worker[next]) : worker' = [worker EXCEPT ![next] = r]
            BY <4>1
          <5> QED BY <3>1, <5>1, TerminatedShape DEF Becomes, Runs, ControlInv
        <4>2. CASE ~Alive(worker[next]) /\ worker' = worker BY <4>2, RunsLive
        <4> QED BY <2>4, <4>1, <4>2 DEF EndWorker
      <3>3. /\ phase = "endWorkers" /\ next' = next + 1 /\ UNCHANGED phase
            /\ incomplete => incomplete'
        BY <2>4 DEF EndWorker
      <3>4. ASSUME NEW v \in Workers, v < next' PROVE ~Runs(worker'[v])
        <4>1. v < next \/ v = next BY <1>1, <3>3, <3>4 DEF Workers
        <4> QED BY <1>1, <3>2, <3>3, <4>1 DEF Reaped
      <3> QED BY <1>1, <2>1, <3>2, <3>3, <3>4 DEF Reaped, Interrupted, Replaced
    <2>5. CASE Reconcile /\ UNCHANGED <<inbox, worker, lostEvents>>
      <3>1. /\ phase = "endWorkers" /\ next = NumWorkers /\ phase' = "stopRecord"
            /\ UNCHANGED worker /\ (incomplete => incomplete')
        BY <2>5, MarkStays DEF Reconcile
      <3>2. \A w \in Workers : w < NumWorkers BY SessionAssumption DEF Workers
      <3> QED BY <1>1, <2>1, <3>1, <3>2 DEF Reaped, Interrupted, Replaced, AllGone
    <2> QED BY <1>20, <2>2, <2>3, <2>4, <2>5 DEF StopWorkers
  <1>21. CASE StopWriter
    <2>1. /\ phase \in Closing \ {"verdict"} /\ phase' \in Closing \ {"verdict"}
          /\ UNCHANGED <<worker, writer, error, outcome, stopRequested>>
          /\ incomplete => incomplete'
      BY <1>21, MarkStays DEF StopWriter, Accepted
    <2> QED BY <1>1, <2>1 DEF Reaped, Interrupted, Replaced, AllGone
  <1>22. CASE JoinWriter
    <2>1. ~Runs(writer') BY <1>22, RunsLive, WriterTerminated DEF JoinWriter, ControlInv
    <2>2. /\ phase = "joinWriter" /\ phase' = "verdict"
          /\ UNCHANGED <<worker, error, outcome, stopRequested>>
          /\ incomplete => incomplete'
      BY <1>22 DEF JoinWriter
    <2> QED BY <1>1, <2>1, <2>2 DEF Reaped, Interrupted, Replaced, AllGone
  <1>23. CASE Conclude
    <2>1. /\ phase = "verdict" /\ phase' = "ended"
          /\ UNCHANGED <<worker, writer, error, stopRequested>>
          /\ incomplete => incomplete'
      BY <1>23 DEF Conclude
    <2>2. /\ error # "none" => outcome' = error
          /\ error = "none" => outcome' \in {"complete", "incomplete"}
      BY <1>23 DEF Conclude
    <2> QED BY <1>1, <2>1, <2>2 DEF Reaped, Interrupted, Replaced, AllGone
  <1>24. CASE DeadlinePasses
    BY <1>1, <1>24 DEF DeadlinePasses, Reaped, Interrupted, Replaced, AllGone
  <1> QED
    BY <1>2, <1>3, <1>6, <1>7, <1>8, <1>9, <1>10, <1>11, <1>12, <1>13, <1>14, <1>15, <1>16,
       <1>17, <1>18, <1>19, <1>20, <1>21, <1>22, <1>23, <1>24, <1>4, <1>5
    DEF Supervise

\* The markers go out before the workers are joined, and nothing is dispatched before
\* all workers are listed.
LEMMA SuperviseTold == ASSUME ControlInv, Supervise PROVE Told'
  <1>1. /\ Told /\ Interrupted /\ worker \in [Workers -> ProcessType] /\ next \in Nat
        /\ error \in Errors
    BY DEF ControlInv, Types, ChildrenType, ControlType
  <1> USE DEF Goto, Raise, children, counters, queues
  <1> DEFINE Early == Starting \cup {"awaitWorkers", "openRing", "openSource", "cleanup"}
             Late == phase \in {"cleanupWorkers", "cleanupWriter"}
                     \/ (phase = "ended" /\ outcome = "startup")
             Kept == /\ UNCHANGED <<inbox, dispatched>>
                     /\ phase' \in Early => phase \in Early
                     /\ Late' => Late
  <1>2. ASSUME Kept, UNCHANGED worker PROVE Told' BY <1>1, <1>2 DEF Told, Listed
  <1>3. CASE StartWriter \/ WriterAcknowledged \/ (\E w \in Workers : SeeReady(w))
    BY <1>2, <1>3 DEF StartWriter, WriterAcknowledged, SeeReady, Starting
  <1>4. CASE OpenRing \/ OpenSource \/ StartupFails
    BY <1>2, <1>4 DEF OpenRing, OpenSource, StartupFails, Starting
  <1>5. CASE SpawnWorker
    <2>1. UNCHANGED <<inbox, dispatched>> /\ phase = "startWorkers" /\ next \in Workers
          /\ phase' \in {"startWorkers", "awaitWorkers"}
      BY <1>5 DEF SpawnWorker, ControlInv, Reaped, Starting
    <2>2. \A v \in Workers : v # next => worker'[v] = worker[v]
      BY <1>5 DEF SpawnWorker, Spawned
    <2>3. ~Listed
      BY <1>1, <1>5, <2>1 DEF Listed, SpawnWorker, ControlInv, Reaped, Starting, Process
    <2> QED BY <1>1, <2>1, <2>3 DEF Told, Starting
  <1>6. CASE CleanUp
    <2>1. phase = "cleanup" /\ phase' = "cleanupWorkers" /\ UNCHANGED <<worker, dispatched>>
      BY <1>6 DEF CleanUp
    <2>2. ASSUME NEW w \in Workers PROVE inbox'[w] = <<Stop>>
      <3>1. inbox[w] = <<>> BY <1>1, <2>1 DEF Told
      <3>2. Len(inbox[w]) < QueueSize BY <3>1, SessionAssumption
      <3>3. inbox'[w] = Append(inbox[w], Stop) BY <1>6, <3>2 DEF CleanUp
      <3> QED BY <3>1, <3>3
    <2> QED BY <1>1, <2>1, <2>2 DEF Told, Listed, Starting
  <1>7. CASE CleanUpRaises BY <1>2, <1>7 DEF CleanUpRaises, Starting
  <1>8. CASE CleanUpWorker
    <2>1. /\ next \in Workers /\ phase = "cleanupWorkers" /\ Listed
          /\ UNCHANGED <<phase, outcome, inbox, dispatched>>
      BY <1>1, <1>8, SessionAssumption DEF CleanUpWorker, Workers
    <2>2. CASE UNCHANGED worker BY <1>2, <2>1, <2>2
    <2>3. ASSUME NEW r \in Terminated(worker[next]), worker' = [worker EXCEPT ![next] = r]
          PROVE  Told'
      <3>1. /\ r.state \in {"gone", "doomed"}
            /\ Becomes(next, r.state, FALSE, worker[next].hand, worker[next].held,
                       worker[next].buffer, worker[next].errors)
        BY <2>1, <2>3, TerminatedShape DEF ControlInv
      <3>2. Listed' BY <2>1, <3>1 DEF Listed, Becomes
      <3>3. worker'[next].state \notin {"starting", "running"} BY <3>1 DEF Becomes
      <3>4. \A v \in Workers : v # next => worker'[v] = worker[v] BY <3>1 DEF Becomes
      <3> QED BY <1>1, <2>1, <3>2, <3>3, <3>4 DEF Told, Starting
    <2> QED BY <1>8, <2>2, <2>3 DEF CleanUpWorker
  <1>9. CASE CleanUpQueues \/ CleanUpWriter
    BY <1>2, <1>9 DEF CleanUpQueues, CleanUpWriter, Starting
  <1>10. CASE Read
    <2>1. phase = "read" /\ phase' = "check" /\ UNCHANGED worker BY <1>10 DEF Read
    <2>2. Listed' BY <1>1, <2>1 DEF Interrupted, Listed, Starting, CleaningUp
    <2> QED BY <2>1, <2>2 DEF Told, Starting
  <1>11. CASE ReadFails \/ LeaveLoop
    BY <1>2, <1>11 DEF ReadFails, LeaveLoop, Starting
  <1>12. CASE CheckChildren
    <2>1. UNCHANGED <<inbox, dispatched>> BY <1>12 DEF CheckChildren
    <2>2. CASE CheckWriter /\ UNCHANGED <<incomplete, restarts, worker>>
      BY <1>2, <2>1, <2>2 DEF CheckWriter, Starting
    <2>3. CASE CheckWorker \/ ReplacementFails \/ CheckPasses \/ CheckFails
      BY <1>2, <2>1, <2>3 DEF CheckWorker, ReplacementFails, CheckPasses, CheckFails, Starting
    <2>4. CASE ReplaceWorker
      <3>1. phase' \in {"stopRing", "awaitReplacement"} /\ phase = "checkWorkers"
            /\ (worker' = worker \/ worker' = Spawned(next))
        BY <2>4 DEF ReplaceWorker
      <3>2. Listed BY <1>1, <3>1 DEF Interrupted, Starting, CleaningUp
      <3>3. Listed'
        <4>1. \A v \in Workers : worker[v].pid \in Nat /\ worker[v].pid > 0
          BY <1>1, <3>2 DEF Listed, ProcessType
        <4>2. \A v \in Workers : worker'[v].pid = worker[v].pid \/ worker'[v].pid = worker[v].pid + 1
          BY <1>1, <3>1 DEF Spawned, Process
        <4> QED BY <4>1, <4>2 DEF Listed
      <3> QED BY <3>1, <3>3 DEF Told, Starting
    <2> QED BY <1>12, <2>2, <2>3, <2>4 DEF CheckChildren
  <1>13. CASE StopRing \/ ShutdownRaises
    BY <1>2, <1>13 DEF StopRing, ShutdownRaises, Starting
  <1>14. CASE StopWorkers
    <2>1. phase \in {"stopWorkers", "drain", "endWorkers"} /\ UNCHANGED dispatched
          /\ phase' \in {"stopWorkers", "drain", "endWorkers", "stopRecord"}
      BY <1>14 DEF StopWorkers, StopWorker, DrainWorkers, EndWorker, Reconcile
    <2>2. Listed BY <1>1, <2>1 DEF Interrupted, Starting, CleaningUp
    <2>3. Listed'
      <3>1. CASE UNCHANGED worker BY <2>2, <3>1 DEF Listed
      <3>2. CASE EndWorker
        <4>1. next \in Workers BY <1>1, <3>2, SessionAssumption DEF EndWorker, Workers
        <4>2. ASSUME NEW r \in Terminated(worker[next]), worker' = [worker EXCEPT ![next] = r]
              PROVE  Listed'
          BY <2>2, <4>1, <4>2, TerminatedShape DEF Listed, Becomes, ControlInv
        <4> QED BY <3>1, <3>2, <4>2 DEF EndWorker
      <3> QED BY <1>14, <3>1, <3>2 DEF StopWorkers
    <2> QED BY <2>1, <2>3 DEF Told, Starting
  <1>15. CASE StopWriter \/ JoinWriter \/ DeadlinePasses
    <2>1. CASE StopWriter
      BY <1>2, <2>1 DEF StopWriter, Starting
    <2>2. CASE JoinWriter \/ DeadlinePasses
      BY <1>2, <2>2 DEF JoinWriter, DeadlinePasses, Starting
    <2> QED BY <1>15, <2>1, <2>2
  <1>16. CASE Conclude
    <2>1. /\ UNCHANGED <<inbox, dispatched, worker>> /\ phase = "verdict" /\ phase' = "ended"
          /\ error = "none" => outcome' \in {"complete", "incomplete"}
          /\ error # "none" => outcome' = error
      BY <1>16 DEF Conclude
    <2>2. error # "startup" BY <1>1, <2>1 DEF Interrupted, CleaningUp
    <2> QED BY <1>2, <2>1, <2>2 DEF Starting
  <1> QED
    BY <1>3, <1>4, <1>5, <1>6, <1>7, <1>8, <1>9, <1>10, <1>11, <1>12, <1>13, <1>14, <1>15, <1>16
    DEF Supervise

\* So does every step.
LEMMA StepControl == ControlInv /\ [Next]_vars => ControlInv'
  <1> SUFFICES ASSUME ControlInv, [Next]_vars PROVE Reaped' /\ Interrupted' /\ Told'
    BY StepTypes DEF ControlInv
  <1>1. CASE UNCHANGED vars
    BY <1>1 DEF vars, control, children, counters, queues, ControlInv, Reaped, AllGone,
                Interrupted, Replaced, Told, Listed
  <1>2. CASE RequestStop \/ RingStops
    BY <1>2 DEF RequestStop, RingStops, control, children, counters, queues, ControlInv, Reaped,
                AllGone, Interrupted, Replaced, Told, Listed
  <1> QED BY <1>1, <1>2, SuperviseControl, SuperviseTold, WorkerControl, WorkerTold,
             WriterControl DEF Next

\* The processes, the queues and what they hold are what the code passes around.
THEOREM SessionTypeCorrect == Spec => []Types
  BY InitTypes, StepTypes, PTL DEF Spec

\* Once run() has returned or raised, every child has ended or got SIGTERM, for any
\* number of workers: unless an exception cut the shutdown or the cleanup short, and
\* except the workers of a spawn that failed half way, which have the stop marker in
\* their inbox or have taken it.
THEOREM SessionForgetsNoChild == Spec => []NoChildForgotten
  <1>1. ControlInv => NoChildForgotten
    <2> SUFFICES ASSUME ControlInv, phase = "ended", outcome # "abandoned", NEW w \in Workers,
                        Runs(worker[w])
                 PROVE  /\ outcome = "startup" /\ ~Listed
                        /\ Stop \in ToSet(inbox[w]) \/ worker[w].state \in {"flushing", "leaving"}
      BY DEF ControlInv, Reaped, NoChildForgotten
    <2>1. outcome = "startup" /\ ~Listed BY DEF ControlInv, Reaped, AllGone
    <2>2. CASE worker[w].state \in {"starting", "running"}
      <3>1. inbox[w] = <<Stop>> BY <2>1, <2>2 DEF ControlInv, Told
      <3>2. Stop \in ToSet(inbox[w]) BY <3>1 DEF ToSet
      <3> QED BY <2>1, <3>2
    <2>3. worker[w].state \in {"starting", "running", "flushing", "leaving"}
      BY DEF ControlInv, Types, ChildrenType, ProcessType, Runs
    <2> QED BY <2>1, <2>2, <2>3
  <1> QED BY <1>1, InitControl, StepControl, PTL DEF Spec

\* Every session ends with a verdict or a reported failure; the one that does not
\* was stopped while it replaced a dead worker, and is marked incomplete.
THEOREM SessionVerdict == Spec => []VerdictUnlessInterrupted
  <1>1. ControlInv => VerdictUnlessInterrupted
    BY DEF ControlInv, Interrupted, Replaced, Errors, VerdictUnlessInterrupted
  <1> QED BY <1>1, InitControl, StepControl, PTL DEF Spec
-----------------------------------------------------------------------------
(***************************************************************************)
(* Sequences and the places of packets                                     *)
(***************************************************************************)

\* The elements of a longer sequence.
LEMMA AppendSet ==
    ASSUME NEW S, NEW s \in Seq(S), NEW x
    PROVE  ToSet(Append(s, x)) = ToSet(s) \cup {x}
  <1>1. /\ DOMAIN Append(s, x) = 1 .. Len(s) + 1 /\ DOMAIN s = 1 .. Len(s)
        /\ Len(s) \in Nat
        /\ Append(s, x)[Len(s) + 1] = x
        /\ \A i \in 1 .. Len(s) : Append(s, x)[i] = s[i]
    OBVIOUS
  <1>2. 1 .. Len(s) + 1 = (1 .. Len(s)) \cup {Len(s) + 1} BY <1>1
  <1> QED BY <1>1, <1>2 DEF ToSet

\* The elements of a shorter one.
LEMMA TailSet ==
    ASSUME NEW S, NEW s \in Seq(S), s # <<>>
    PROVE  Head(s) \in S /\ Tail(s) \in Seq(S) /\ ToSet(s) = {Head(s)} \cup ToSet(Tail(s))
  <1>1. /\ Len(s) \in Nat \ {0} /\ DOMAIN s = 1 .. Len(s) /\ DOMAIN Tail(s) = 1 .. Len(s) - 1
        /\ Head(s) = s[1] /\ \A i \in 1 .. Len(s) - 1 : Tail(s)[i] = s[i + 1]
        /\ Head(s) \in S /\ Tail(s) \in Seq(S)
    OBVIOUS
  <1>2. ASSUME NEW i \in 1 .. Len(s) PROVE s[i] \in {Head(s)} \cup ToSet(Tail(s))
    <2>1. CASE i = 1 BY <1>1, <2>1
    <2>2. CASE i # 1
      <3>1. i - 1 \in 1 .. Len(s) - 1 /\ (i - 1) + 1 = i BY <1>1, <2>2
      <3>2. Tail(s)[i - 1] = s[i] BY <1>1, <3>1
      <3> QED BY <1>1, <3>1, <3>2 DEF ToSet
    <2> QED BY <2>1, <2>2
  <1>3. \A i \in 1 .. Len(s) - 1 : i + 1 \in 1 .. Len(s) BY <1>1
  <1>4. 1 \in 1 .. Len(s) BY <1>1
  <1> QED BY <1>1, <1>2, <1>3, <1>4 DEF ToSet

\* The empty sequence has none.
LEMMA EmptyToSet == ToSet(<<>>) = {}
  BY DEF ToSet

\* The places of a sequence are positive numbers.
LEMMA IndexNat ==
    ASSUME NEW s \in Seq(Nat)
    PROVE  Len(s) \in Nat /\ \A i \in DOMAIN s : i \in Nat \ {0}
  OBVIOUS

\* The first packet of one place becomes the last of another.
Moved(P, c, d, a, b) ==
    /\ c \in [P -> Seq(Nat)] /\ d \in [P -> Seq(Nat)]
    /\ a \in P /\ b \in P /\ a # b /\ c[a] # <<>>
    /\ d[a] = Tail(c[a]) /\ d[b] = Append(c[b], Head(c[a]))
    /\ \A x \in P : x # a /\ x # b => d[x] = c[x]

\* What moves from the head of one place to the end of another is still in one place.
LEMMA MoveUnique ==
    ASSUME NEW P, NEW c, NEW d, NEW a, NEW b, Moved(P, c, d, a, b), Unique(c)
    PROVE  Unique(d)
  <1> USE DEF Moved
  <1> DEFINE From(x, i, y, j) ==
               /\ y \in P /\ j \in DOMAIN c[y] /\ d[x][i] = c[y][j]
               /\ \/ x = a /\ y = a /\ j = i + 1
                  \/ x = b /\ i = Len(c[b]) + 1 /\ y = a /\ j = 1
                  \/ x # a /\ y = x /\ j = i /\ (x = b => i <= Len(c[b]))
  <1>1. ASSUME NEW x \in P, NEW i \in DOMAIN d[x] PROVE \E y, j : From(x, i, y, j)
    <2>1. c[a] \in Seq(Nat) /\ c[b] \in Seq(Nat) OBVIOUS
    <2>2. CASE x = a
      <3>1. i \in 1 .. Len(c[a]) - 1 /\ Tail(c[a])[i] = c[a][i + 1] BY <1>1, <2>1, <2>2
      <3>2. i + 1 \in DOMAIN c[a] BY <2>1, <3>1
      <3> QED BY <2>2, <3>1, <3>2
    <2>3. CASE x = b
      <3>1. i \in 1 .. Len(c[b]) + 1 /\ Len(c[b]) \in Nat BY <1>1, <2>1, <2>3
      <3>2. CASE i = Len(c[b]) + 1
        <4>1. d[b][i] = Head(c[a]) BY <2>1, <2>3, <3>2
        <4>2. Head(c[a]) = c[a][1] /\ 1 \in DOMAIN c[a] BY <2>1
        <4>3. From(x, i, a, 1) BY <2>3, <3>2, <4>1, <4>2
        <4> QED BY <4>3
      <3>3. CASE i # Len(c[b]) + 1
        <4>1. i \in 1 .. Len(c[b]) BY <3>1, <3>3
        <4>2. d[b][i] = c[b][i] /\ i \in DOMAIN c[b] BY <2>1, <4>1
        <4>3. From(x, i, b, i) BY <2>3, <4>1, <4>2
        <4> QED BY <4>3
      <3> QED BY <3>2, <3>3
    <2>4. CASE x # a /\ x # b
      <3>1. From(x, i, x, i) BY <1>1, <2>4
      <3> QED BY <3>1
    <2> QED BY <2>2, <2>3, <2>4
  <1>2. ASSUME NEW x \in P, NEW y \in P, NEW i \in DOMAIN d[x], NEW j \in DOMAIN d[y],
               d[x][i] = d[y][j], d[x][i] # 0
        PROVE  x = y /\ i = j
    <2>1. i \in Nat \ {0} /\ j \in Nat \ {0} /\ Len(c[b]) \in Nat
      <3>1. d[x] \in Seq(Nat) /\ d[y] \in Seq(Nat) /\ c[b] \in Seq(Nat) OBVIOUS
      <3> QED BY <3>1, IndexNat
    <2>2. PICK x0, i0 : From(x, i, x0, i0) BY <1>1
    <2>3. PICK y0, j0 : From(y, j, y0, j0) BY <1>1
    <2>4. x0 = y0 /\ i0 = j0
      <3>1. /\ x0 \in DOMAIN c /\ y0 \in DOMAIN c /\ i0 \in DOMAIN c[x0] /\ j0 \in DOMAIN c[y0]
            /\ c[x0][i0] = c[y0][j0] /\ c[x0][i0] # 0
        BY <1>2, <2>2, <2>3
      <3> HIDE DEF From
      <3> QED BY <3>1 DEF Unique
    <2>5. i + 1 = j + 1 => i = j BY <2>1
    <2>6. i + 1 # 1 /\ j + 1 # 1 BY <2>1
    <2>7. ~(Len(c[b]) + 1 <= Len(c[b])) BY <2>1
    <2> QED BY <2>2, <2>3, <2>4, <2>5, <2>6, <2>7
  <1> QED BY <1>2 DEF Unique

\* The first packet of one place is gone.
Dropped(P, c, d, a) ==
    /\ c \in [P -> Seq(Nat)] /\ d \in [P -> Seq(Nat)]
    /\ a \in P /\ c[a] # <<>> /\ d[a] = Tail(c[a])
    /\ \A x \in P : x # a => d[x] = c[x]

\* What leaves the head of a place leaves the rest in one place each.
LEMMA DropUnique ==
    ASSUME NEW P, NEW c, NEW d, NEW a, Dropped(P, c, d, a), Unique(c)
    PROVE  Unique(d)
  <1> USE DEF Dropped
  <1>1. c[a] \in Seq(Nat) OBVIOUS
  <1>2. \A i \in DOMAIN d[a] : i \in Nat /\ i + 1 \in DOMAIN c[a] /\ d[a][i] = c[a][i + 1]
    BY <1>1
  <1>3. ASSUME NEW x \in P, NEW y \in P, NEW i \in DOMAIN d[x], NEW j \in DOMAIN d[y],
               d[x][i] = d[y][j], d[x][i] # 0
        PROVE  x = y /\ i = j
    <2>1. CASE x = a /\ y = a
      <3>1. i + 1 = j + 1 BY <1>2, <1>3, <2>1 DEF Unique
      <3> QED BY <1>2, <2>1, <3>1
    <2>2. CASE x = a /\ y # a BY <1>2, <1>3, <2>2 DEF Unique
    <2>3. CASE x # a /\ y = a BY <1>2, <1>3, <2>3 DEF Unique
    <2>4. CASE x # a /\ y # a BY <1>3, <2>4 DEF Unique
    <2> QED BY <2>1, <2>2, <2>3, <2>4
  <1> QED BY <1>3 DEF Unique

\* Markers are no packets.
Marked(P, c, d) ==
    /\ c \in [P -> Seq(Nat)] /\ d \in [P -> Seq(Nat)]
    /\ \A x \in P : d[x] = c[x] \/ d[x] = Append(c[x], 0)

\* A stop mark changes nothing of the packets.
LEMMA MarkerUnique ==
    ASSUME NEW P, NEW c, NEW d, Marked(P, c, d), Unique(c)
    PROVE  Unique(d)
  <1> USE DEF Marked
  <1>1. ASSUME NEW x \in P, NEW i \in DOMAIN d[x], d[x][i] # 0
        PROVE  i \in DOMAIN c[x] /\ c[x][i] = d[x][i]
    <2>1. c[x] \in Seq(Nat) OBVIOUS
    <2>2. CASE d[x] = c[x] BY <2>2
    <2>3. CASE d[x] = Append(c[x], 0)
      <3>1. i \in 1 .. Len(c[x]) + 1 /\ Len(c[x]) \in Nat BY <2>1, <2>3
      <3>2. i # Len(c[x]) + 1 BY <1>1, <2>1, <2>3
      <3>3. i \in 1 .. Len(c[x]) BY <3>1, <3>2
      <3> QED BY <2>1, <2>3, <3>3
    <2> QED BY <2>2, <2>3
  <1> QED BY <1>1 DEF Unique

\* A packet that is nowhere yet is put somewhere.
Arrived(P, c, d, b, z) ==
    /\ c \in [P -> Seq(Nat)] /\ d \in [P -> Seq(Nat)]
    /\ b \in P /\ z \in Nat /\ d[b] = Append(c[b], z)
    /\ \A x \in P : x # b => d[x] = c[x]
    /\ \A x \in P : z \notin ToSet(c[x])

\* A packet that was nowhere is in one place after it arrives.
LEMMA FreshUnique ==
    ASSUME NEW P, NEW c, NEW d, NEW b, NEW z, Arrived(P, c, d, b, z), Unique(c)
    PROVE  Unique(d)
  <1> USE DEF Arrived
  <1>1. c[b] \in Seq(Nat) /\ Len(c[b]) \in Nat OBVIOUS
  <1>2. ASSUME NEW x \in P, NEW i \in DOMAIN d[x]
        PROVE  \/ x = b /\ i = Len(c[b]) + 1 /\ d[x][i] = z
               \/ i \in DOMAIN c[x] /\ c[x][i] = d[x][i] /\ d[x][i] # z
    <2>1. CASE x = b
      <3>1. i \in 1 .. Len(c[b]) + 1 BY <1>1, <2>1
      <3>2. CASE i = Len(c[b]) + 1 BY <1>1, <2>1, <3>2
      <3>3. CASE i # Len(c[b]) + 1
        <4>1. i \in 1 .. Len(c[b]) BY <1>1, <3>1, <3>3
        <4> QED BY <1>1, <2>1, <4>1 DEF ToSet
      <3> QED BY <3>2, <3>3
    <2>2. CASE x # b BY <2>2 DEF ToSet
    <2> QED BY <2>1, <2>2
  <1>3. ASSUME NEW x \in P, NEW y \in P, NEW i \in DOMAIN d[x], NEW j \in DOMAIN d[y],
               d[x][i] = d[y][j], d[x][i] # 0
        PROVE  x = y /\ i = j
    <2>1. CASE d[x][i] = z
      <3>1. x = b /\ i = Len(c[b]) + 1 BY <1>2, <2>1
      <3>2. y = b /\ j = Len(c[b]) + 1 BY <1>2, <1>3, <2>1
      <3> QED BY <3>1, <3>2
    <2>2. CASE d[x][i] # z
      <3>1. /\ i \in DOMAIN c[x] /\ c[x][i] = d[x][i] /\ j \in DOMAIN c[y] /\ c[y][j] = d[y][j]
        BY <1>2, <1>3, <2>2
      <3> QED BY <1>3, <3>1 DEF Unique
    <2> QED BY <2>1, <2>2
  <1> QED BY <1>3 DEF Unique

\* Places are emptied.
Cleared(P, c, d) ==
    /\ DOMAIN c = P /\ DOMAIN d = P
    /\ \A x \in P : d[x] = c[x] \/ d[x] = <<>>

\* Emptied places leave the rest in one place each.
LEMMA ClearUnique ==
    ASSUME NEW P, NEW c, NEW d, Cleared(P, c, d), Unique(c)
    PROVE  Unique(d)
  BY DEF Unique, Cleared

\* What is where.
Where(inb, wrk, pipe, log, c) ==
    /\ c \in [Places -> Seq(Nat)]
    /\ \A w \in Workers :
          /\ c[<<w, "inbox">>] = inb[w]
          /\ c[<<w, "hand">>] = IF wrk[w].hand = None THEN <<>> ELSE <<wrk[w].hand>>
          /\ c[<<w, "held">>] = wrk[w].held
          /\ c[<<w, "buffer">>] = wrk[w].buffer
    /\ c[<<0, "pipe">>] = pipe
    /\ c[<<0, "file">>] = log

\* What each place holds, read off the state.
LEMMA ContentsAt ==
    ASSUME NEW inb \in [Workers -> Seq(Nat)], NEW wrk \in [Workers -> ProcessType],
           NEW pipe \in Seq(Nat), NEW log \in Seq(Nat)
    PROVE  Where(inb, wrk, pipe, log, ContentsOf(inb, wrk, pipe, log))
  <1> DEFINE c == ContentsOf(inb, wrk, pipe, log)
  <1>1. /\ \A w \in Workers : /\ <<w, "inbox">> \in Places /\ <<w, "hand">> \in Places
                              /\ <<w, "held">> \in Places /\ <<w, "buffer">> \in Places
        /\ <<0, "pipe">> \in Places /\ <<0, "file">> \in Places
    BY DEF Places
  <1>2. /\ \A w \in Workers :
              /\ c[<<w, "inbox">>] = inb[w]
              /\ c[<<w, "hand">>] = IF wrk[w].hand = None THEN <<>> ELSE <<wrk[w].hand>>
              /\ c[<<w, "held">>] = wrk[w].held
              /\ c[<<w, "buffer">>] = wrk[w].buffer
        /\ c[<<0, "pipe">>] = pipe
        /\ c[<<0, "file">>] = log
    BY <1>1 DEF ContentsOf, At
  <1>3. \A w \in Workers : /\ inb[w] \in Seq(Nat) /\ wrk[w].held \in Seq(Nat)
                           /\ wrk[w].buffer \in Seq(Nat) /\ wrk[w].hand \in Nat
    BY DEF ProcessType
  <1>4. \A n \in Nat : <<n>> \in Seq(Nat) OBVIOUS
  <1>5. ASSUME NEW x \in Places PROVE c[x] \in Seq(Nat)
    <2> HIDE DEF c
    <2>1. CASE \E w \in Workers : x \in {<<w, "inbox">>, <<w, "hand">>, <<w, "held">>, <<w, "buffer">>}
      <3>1. PICK w \in Workers : x \in {<<w, "inbox">>, <<w, "hand">>, <<w, "held">>, <<w, "buffer">>}
        BY <2>1
      <3>2. c[<<w, "hand">>] \in Seq(Nat)
        <4>1. <<>> \in Seq(Nat) OBVIOUS
        <4> QED BY <1>2, <1>3, <1>4, <4>1
      <3> QED BY <1>2, <1>3, <3>1, <3>2
    <2>2. CASE x \in {<<0, "pipe">>, <<0, "file">>} BY <1>2, <2>2
    <2> QED BY <2>1, <2>2 DEF Places
  <1>6. c \in [Places -> Seq(Nat)]
    <2>1. c = [x \in Places |-> c[x]] BY DEF ContentsOf
    <2> QED BY <1>5, <2>1
  <1> HIDE DEF c
  <1>7. Where(inb, wrk, pipe, log, c) BY <1>2, <1>6 DEF Where
  <1> QED BY <1>7 DEF c
-----------------------------------------------------------------------------
(***************************************************************************)
(* No packet is written twice                                              *)
(***************************************************************************)

\* The places of worker w and the two that all share, before and after a step.
PlacesOf(w, c, d) ==
    /\ c \in [Places -> Seq(Nat)] /\ d \in [Places -> Seq(Nat)]
    /\ <<w, "inbox">> \in Places /\ c[<<w, "inbox">>] = inbox[w]
    /\ d[<<w, "inbox">>] = inbox'[w]
    /\ <<w, "hand">> \in Places
    /\ c[<<w, "hand">>] = IF worker[w].hand = None THEN <<>> ELSE <<worker[w].hand>>
    /\ d[<<w, "hand">>] = IF worker'[w].hand = None THEN <<>> ELSE <<worker'[w].hand>>
    /\ <<w, "held">> \in Places /\ c[<<w, "held">>] = worker[w].held
    /\ d[<<w, "held">>] = worker'[w].held
    /\ <<w, "buffer">> \in Places /\ c[<<w, "buffer">>] = worker[w].buffer
    /\ d[<<w, "buffer">>] = worker'[w].buffer
    /\ <<0, "pipe">> \in Places /\ c[<<0, "pipe">>] = findingQ /\ d[<<0, "pipe">>] = findingQ'
    /\ <<0, "file">> \in Places /\ c[<<0, "file">>] = file /\ d[<<0, "file">>] = file'

Near(w) == {<<w, "inbox">>, <<w, "hand">>, <<w, "held">>, <<w, "buffer">>,
            <<0, "pipe">>, <<0, "file">>}

\* Only places of worker w, the pipe and the file differ.
Local(w, c, d) ==
    \A x \in Places :
        d[x] = c[x] \/ x \in Near(w)

\* What the places of one worker hold before and after a step.
LEMMA PlacesFacts ==
    ASSUME Types, Types', NEW w \in Workers
    PROVE  PlacesOf(w, Contents, Contents')
  <1>1. /\ inbox \in [Workers -> Seq(Nat)] /\ worker \in [Workers -> ProcessType]
        /\ findingQ \in Seq(Nat) /\ file \in Seq(Nat)
        /\ inbox' \in [Workers -> Seq(Nat)] /\ worker' \in [Workers -> ProcessType]
        /\ findingQ' \in Seq(Nat) /\ file' \in Seq(Nat)
    BY DEF Types, ChildrenType, QueuesType
  <1> DEFINE c == Contents
             d == Contents'
  <1>2. c = ContentsOf(inbox, worker, findingQ, file) BY DEF Contents
  <1>3. d = ContentsOf(inbox', worker', findingQ', file') BY DEF Contents
  <1> HIDE DEF c, d
  <1>4. Where(inbox, worker, findingQ, file, c) BY <1>1, <1>2, ContentsAt
  <1>5. Where(inbox', worker', findingQ', file', d) BY <1>1, <1>3, ContentsAt
  <1>6. /\ c \in [Places -> Seq(Nat)]
        /\ c[<<w, "inbox">>] = inbox[w]
        /\ c[<<w, "hand">>] = IF worker[w].hand = None THEN <<>> ELSE <<worker[w].hand>>
        /\ c[<<w, "held">>] = worker[w].held
        /\ c[<<w, "buffer">>] = worker[w].buffer
        /\ c[<<0, "pipe">>] = findingQ
        /\ c[<<0, "file">>] = file
    BY <1>4 DEF Where
  <1>7. /\ d \in [Places -> Seq(Nat)]
        /\ d[<<w, "inbox">>] = inbox'[w]
        /\ d[<<w, "hand">>] = IF worker'[w].hand = None THEN <<>> ELSE <<worker'[w].hand>>
        /\ d[<<w, "held">>] = worker'[w].held
        /\ d[<<w, "buffer">>] = worker'[w].buffer
        /\ d[<<0, "pipe">>] = findingQ'
        /\ d[<<0, "file">>] = file'
    BY <1>5 DEF Where
  <1>8. /\ <<w, "inbox">> \in Places /\ <<w, "hand">> \in Places
        /\ <<w, "held">> \in Places /\ <<w, "buffer">> \in Places
        /\ <<0, "pipe">> \in Places /\ <<0, "file">> \in Places
    BY DEF Places
  <1> QED BY <1>6, <1>7, <1>8 DEF PlacesOf, c, d

\* A step of one worker leaves the places of the others alone.
LEMMA PlacesLocal ==
    ASSUME Types, Types', NEW w \in Workers,
           \A v \in Workers : v # w => worker'[v] = worker[v] /\ inbox'[v] = inbox[v]
    PROVE  Local(w, Contents, Contents')
  <1> DEFINE c == Contents
             d == Contents'
  <1>1. ASSUME NEW x \in Places,
               x \notin Near(w)
        PROVE  d[x] = c[x]
    <2>1. PICK v \in Workers : x \in {<<v, "inbox">>, <<v, "hand">>, <<v, "held">>, <<v, "buffer">>}
      BY <1>1 DEF Places, Near
    <2>2. v # w BY <1>1, <2>1 DEF Near
    <2>3. PlacesOf(v, c, d) BY PlacesFacts
    <2> HIDE DEF c, d
    <2>4. worker'[v] = worker[v] /\ inbox'[v] = inbox[v] BY <2>2
    <2> QED BY <2>1, <2>3, <2>4 DEF PlacesOf
  <1> QED BY <1>1 DEF Local

\* The first packet of a near place moves to another, or goes away.
NearMove(w, c, d, a, b) ==
    /\ a \in Near(w) /\ b \in Near(w) /\ a # b /\ c[a] # <<>>
    /\ d[a] = Tail(c[a]) /\ d[b] = Append(c[b], Head(c[a]))
    /\ \A x \in Near(w) : x # a /\ x # b => d[x] = c[x]

NearDrop(w, c, d, a) ==
    /\ a \in Near(w) /\ c[a] # <<>> /\ d[a] = Tail(c[a])
    /\ \A x \in Near(w) : x # a => d[x] = c[x]

\* A move between places that a worker touches keeps packets in one place.
LEMMA LocalMove ==
    ASSUME NEW w, NEW c, NEW d, NEW a, NEW b, PlacesOf(w, c, d), Local(w, c, d), Unique(c),
           NearMove(w, c, d, a, b)
    PROVE  Unique(d)
  <1>1. a \in Places /\ b \in Places BY DEF PlacesOf, Near, NearMove
  <1>2. \A x \in Places : x # a /\ x # b => d[x] = c[x] BY DEF Local, NearMove
  <1>3. c \in [Places -> Seq(Nat)] /\ d \in [Places -> Seq(Nat)] BY DEF PlacesOf
  <1>4. Moved(Places, c, d, a, b) BY <1>1, <1>2, <1>3 DEF Moved, NearMove
  <1> QED BY <1>4, MoveUnique

\* So does a drop from one of them.
LEMMA LocalDrop ==
    ASSUME NEW w, NEW c, NEW d, NEW a, PlacesOf(w, c, d), Local(w, c, d), Unique(c),
           NearDrop(w, c, d, a)
    PROVE  Unique(d)
  <1>1. a \in Places BY DEF PlacesOf, Near, NearDrop
  <1>2. \A x \in Places : x # a => d[x] = c[x] BY DEF Local, NearDrop
  <1>3. c \in [Places -> Seq(Nat)] /\ d \in [Places -> Seq(Nat)] BY DEF PlacesOf
  <1>4. Dropped(Places, c, d, a) BY <1>1, <1>2, <1>3 DEF Dropped, NearDrop
  <1> QED BY <1>4, DropUnique

\* A worker that takes from its inbox leaves the others' inboxes alone.
LEMMA InboxTail ==
    ASSUME Types, NEW w \in Workers, inbox' = [inbox EXCEPT ![w] = Tail(@)]
    PROVE  inbox'[w] = Tail(inbox[w]) /\ \A v \in Workers : v # w => inbox'[v] = inbox[v]
  BY DEF Types, QueuesType

\* TakePacket keeps every packet in one place.
LEMMA TakePacketUnique ==
    ASSUME Types, Types', Unique(Contents), NEW w \in Workers, TakePacket(w), UNCHANGED file
    PROVE  Unique(Contents')
  <1> DEFINE c == Contents
             d == Contents'
  <1>1. Becomes(w, "running", worker[w].clean, Head(inbox[w]), worker[w].held,
                worker[w].buffer, worker[w].errors)
    BY TakePacketShape
  <1>2. /\ inbox[w] # <<>> /\ Head(inbox[w]) # None /\ worker[w].hand = None
        /\ UNCHANGED findingQ
    BY DEF TakePacket, None, Stop
  <1>3. inbox'[w] = Tail(inbox[w]) /\ \A v \in Workers : v # w => inbox'[v] = inbox[v]
    BY InboxTail DEF TakePacket
  <1>4. PlacesOf(w, c, d) /\ Unique(c) BY PlacesFacts
  <1>5. Local(w, c, d) BY <1>1, <1>3, PlacesLocal DEF Becomes
  <1> HIDE DEF c, d
  <1>6. c[<<w, "hand">>] = <<>> /\ d[<<w, "hand">>] = <<Head(inbox[w])>>
    BY <1>1, <1>2, <1>4 DEF PlacesOf, Becomes
  <1>7. d[<<w, "hand">>] = Append(c[<<w, "hand">>], Head(inbox[w])) BY <1>6
  <1>8. NearMove(w, c, d, <<w, "inbox">>, <<w, "hand">>)
    BY <1>1, <1>2, <1>3, <1>4, <1>7 DEF PlacesOf, Becomes, Near, NearMove
  <1>9. Unique(d) BY <1>4, <1>5, <1>8, LocalMove
  <1> QED BY <1>9 DEF d

\* A hand that is emptied gives up the one packet it held.
LEMMA HandTail ==
    ASSUME NEW w, NEW c, NEW d, PlacesOf(w, c, d), worker[w].hand # None, worker'[w].hand = None
    PROVE  /\ c[<<w, "hand">>] # <<>> /\ d[<<w, "hand">>] = Tail(c[<<w, "hand">>])
           /\ Head(c[<<w, "hand">>]) = worker[w].hand
  <1>1. c[<<w, "hand">>] = <<worker[w].hand>> /\ d[<<w, "hand">>] = <<>> BY DEF PlacesOf
  <1> QED BY <1>1

\* AnalysePacket keeps every packet in one place.
LEMMA AnalyseUnique ==
    ASSUME Types, Types', Unique(Contents), NEW w \in Workers, AnalysePacket(w), UNCHANGED file
    PROVE  Unique(Contents')
  <1> DEFINE c == Contents
             d == Contents'
             p == worker[w].hand
  <1>1. p # None /\ UNCHANGED <<inbox, findingQ>> BY DEF AnalysePacket
  <1>2. /\ \A v \in Workers : v # w => worker'[v] = worker[v]
        /\ worker'[w].hand = None
        /\ \/ worker'[w].held = worker[w].held /\ worker'[w].buffer = worker[w].buffer
           \/ worker'[w].held = worker[w].held /\ worker'[w].buffer = Append(worker[w].buffer, p)
           \/ worker'[w].held = Append(worker[w].held, p) /\ worker'[w].buffer = worker[w].buffer
    BY AnalyseShape DEF Becomes
  <1>3. PlacesOf(w, c, d) /\ Unique(c) BY PlacesFacts
  <1>4. Local(w, c, d) BY <1>1, <1>2, PlacesLocal
  <1> HIDE DEF c, d, p
  <1>5. /\ c[<<w, "hand">>] # <<>> /\ d[<<w, "hand">>] = Tail(c[<<w, "hand">>])
        /\ Head(c[<<w, "hand">>]) = p
    BY <1>1, <1>2, <1>3, HandTail DEF p
  <1>6. CASE worker'[w].held = worker[w].held /\ worker'[w].buffer = worker[w].buffer
    <2>1. NearDrop(w, c, d, <<w, "hand">>)
      BY <1>1, <1>3, <1>5, <1>6 DEF PlacesOf, Near, NearDrop
    <2>2. Unique(d) BY <1>3, <1>4, <2>1, LocalDrop
    <2> QED BY <2>2 DEF d
  <1>7. CASE worker'[w].held = worker[w].held /\ worker'[w].buffer = Append(worker[w].buffer, p)
    <2>1. NearMove(w, c, d, <<w, "hand">>, <<w, "buffer">>)
      BY <1>1, <1>3, <1>5, <1>7 DEF PlacesOf, Near, NearMove
    <2>2. Unique(d) BY <1>3, <1>4, <2>1, LocalMove
    <2> QED BY <2>2 DEF d
  <1>8. CASE worker'[w].held = Append(worker[w].held, p) /\ worker'[w].buffer = worker[w].buffer
    <2>1. NearMove(w, c, d, <<w, "hand">>, <<w, "held">>)
      BY <1>1, <1>3, <1>5, <1>8 DEF PlacesOf, Near, NearMove
    <2>2. Unique(d) BY <1>3, <1>4, <2>1, LocalMove
    <2> QED BY <2>2 DEF d
  <1> QED BY <1>2, <1>6, <1>7, <1>8

\* TakeStop keeps every packet in one place.
LEMMA TakeStopUnique ==
    ASSUME Types, Types', Unique(Contents), NEW w \in Workers, TakeStop(w), UNCHANGED file
    PROVE  Unique(Contents')
  <1> DEFINE c == Contents
             d == Contents'
  <1>1. Becomes(w, "flushing", worker[w].clean, worker[w].hand, worker[w].held,
                worker[w].buffer, worker[w].errors)
    BY TakeStopShape
  <1>2. inbox[w] # <<>> /\ UNCHANGED findingQ BY DEF TakeStop
  <1>3. inbox'[w] = Tail(inbox[w]) /\ \A v \in Workers : v # w => inbox'[v] = inbox[v]
    BY InboxTail DEF TakeStop
  <1>4. PlacesOf(w, c, d) /\ Unique(c) BY PlacesFacts
  <1>5. Local(w, c, d) BY <1>1, <1>3, PlacesLocal DEF Becomes
  <1> HIDE DEF c, d
  <1>6. NearDrop(w, c, d, <<w, "inbox">>)
    BY <1>1, <1>2, <1>3, <1>4 DEF PlacesOf, Becomes, Near, NearDrop
  <1>7. Unique(d) BY <1>4, <1>5, <1>6, LocalDrop
  <1> QED BY <1>7 DEF d

\* EmitHeld keeps every packet in one place.
LEMMA EmitUnique ==
    ASSUME Types, Types', Unique(Contents), NEW w \in Workers, EmitHeld(w), UNCHANGED file
    PROVE  Unique(Contents')
  <1> DEFINE c == Contents
             d == Contents'
  <1>1. Becomes(w, worker[w].state, worker[w].clean, worker[w].hand, Tail(worker[w].held),
                Append(worker[w].buffer, Head(worker[w].held)), worker[w].errors)
    BY EmitShape
  <1>2. worker[w].held # <<>> /\ UNCHANGED <<inbox, findingQ>> BY DEF EmitHeld
  <1>3. PlacesOf(w, c, d) /\ Unique(c) BY PlacesFacts
  <1>4. Local(w, c, d) BY <1>1, <1>2, PlacesLocal DEF Becomes
  <1> HIDE DEF c, d
  <1>5. NearMove(w, c, d, <<w, "held">>, <<w, "buffer">>)
    BY <1>1, <1>2, <1>3 DEF PlacesOf, Becomes, Near, NearMove
  <1>6. Unique(d) BY <1>3, <1>4, <1>5, LocalMove
  <1> QED BY <1>6 DEF d

\* The feeder thread keeps every packet in one place.
LEMMA FeedUnique ==
    ASSUME Types, Types', Unique(Contents), NEW w \in Workers, Feed(w), UNCHANGED file
    PROVE  Unique(Contents')
  <1> DEFINE c == Contents
             d == Contents'
  <1>1. Becomes(w, worker[w].state, worker[w].clean, worker[w].hand, worker[w].held,
                Tail(worker[w].buffer), worker[w].errors)
    BY FeedShape
  <1>2. /\ worker[w].buffer # <<>> /\ findingQ' = Append(findingQ, Head(worker[w].buffer))
        /\ UNCHANGED inbox
    BY DEF Feed
  <1>3. PlacesOf(w, c, d) /\ Unique(c) BY PlacesFacts
  <1>4. Local(w, c, d) BY <1>1, <1>2, PlacesLocal DEF Becomes
  <1> HIDE DEF c, d
  <1>5. NearMove(w, c, d, <<w, "buffer">>, <<0, "pipe">>)
    BY <1>1, <1>2, <1>3 DEF PlacesOf, Becomes, Near, NearMove
  <1>6. Unique(d) BY <1>3, <1>4, <1>5, LocalMove
  <1> QED BY <1>6 DEF d

\* WorkerFails keeps every packet in one place.
LEMMA FailsUnique ==
    ASSUME Types, Types', Unique(Contents), NEW w \in Workers, WorkerFails(w), UNCHANGED file
    PROVE  Unique(Contents')
  <1> DEFINE c == Contents
             d == Contents'
  <1>1. Becomes(w, "leaving", worker[w].clean, None, worker[w].held,
                worker[w].buffer, worker[w].errors)
    BY FailsShape
  <1>2. UNCHANGED <<inbox, findingQ>> BY DEF WorkerFails
  <1>3. PlacesOf(w, c, d) /\ Unique(c) BY PlacesFacts
  <1>4. Local(w, c, d) BY <1>1, <1>2, PlacesLocal DEF Becomes
  <1> HIDE DEF c, d
  <1>5. CASE worker[w].hand # None
    <2>1. /\ c[<<w, "hand">>] # <<>> /\ d[<<w, "hand">>] = Tail(c[<<w, "hand">>])
      BY <1>1, <1>3, <1>5, HandTail DEF Becomes
    <2>2. NearDrop(w, c, d, <<w, "hand">>)
      BY <1>1, <1>2, <1>3, <2>1 DEF PlacesOf, Becomes, Near, NearDrop
    <2>3. Unique(d) BY <1>3, <1>4, <2>2, LocalDrop
    <2> QED BY <2>3 DEF d
  <1>6. CASE worker[w].hand = None
    <2>1. d[<<w, "hand">>] = c[<<w, "hand">>] BY <1>1, <1>3, <1>6 DEF PlacesOf, Becomes
    <2>2. \A x \in Places : d[x] = c[x]
      BY <1>1, <1>2, <1>3, <1>4, <2>1 DEF PlacesOf, Local, Near, Becomes
    <2>3. Cleared(Places, c, d) BY <1>3, <2>2 DEF Cleared, PlacesOf
    <2>4. Unique(d) BY <1>3, <2>3, ClearUnique
    <2> QED BY <2>4 DEF d
  <1> QED BY <1>5, <1>6

\* A worker whose packets stay where they are.
LEMMA SameUnique ==
    ASSUME Types, Types', Unique(Contents), NEW w \in Workers,
           UNCHANGED <<inbox, findingQ, file>>,
           \A v \in Workers : v # w => worker'[v] = worker[v],
           worker'[w].hand = worker[w].hand, worker'[w].held = worker[w].held,
           worker'[w].buffer = worker[w].buffer
    PROVE  Unique(Contents')
  <1> DEFINE c == Contents
             d == Contents'
  <1>1. PlacesOf(w, c, d) /\ Unique(c) BY PlacesFacts
  <1>2. Local(w, c, d) BY PlacesLocal
  <1> HIDE DEF c, d
  <1>3. \A x \in Places : d[x] = c[x] BY <1>1, <1>2 DEF PlacesOf, Local, Near
  <1>4. Cleared(Places, c, d) BY <1>1, <1>3 DEF Cleared, PlacesOf
  <1>5. Unique(d) BY <1>1, <1>4, ClearUnique
  <1> QED BY <1>5 DEF d

\* The packet in hand is in no inbox and in no other hand.
LEMMA HandAlone ==
    ASSUME PlaceInv, NEW w \in Workers, worker[w].hand # None, NEW v \in Workers
    PROVE  worker[w].hand \notin ToSet(inbox[v]) /\ (v # w => worker[v].hand # worker[w].hand)
  <1> DEFINE c == Contents
             p == worker[w].hand
  <1>1. /\ inbox \in [Workers -> Seq(Nat)] /\ worker \in [Workers -> ProcessType]
        /\ findingQ \in Seq(Nat) /\ file \in Seq(Nat) /\ Unique(c)
    BY DEF PlaceInv, Types, ChildrenType, QueuesType
  <1>2. Where(inbox, worker, findingQ, file, c)
    <2>1. c = ContentsOf(inbox, worker, findingQ, file) BY DEF Contents
    <2> HIDE DEF c
    <2> QED BY <1>1, <2>1, ContentsAt
  <1>3. /\ <<w, "hand">> \in Places /\ <<v, "hand">> \in Places /\ <<v, "inbox">> \in Places
    BY DEF Places
  <1> HIDE DEF c
  <1>4. c[<<w, "hand">>] = <<p>> /\ c[<<v, "inbox">>] = inbox[v] /\ DOMAIN c = Places
    BY <1>2 DEF Where
  <1>5. 1 \in DOMAIN c[<<w, "hand">>] /\ c[<<w, "hand">>][1] = p BY <1>4
  <1>6. p # 0 BY DEF None
  <1>7. ASSUME NEW i \in DOMAIN inbox[v], inbox[v][i] = p PROVE FALSE
    <2>1. i \in DOMAIN c[<<v, "inbox">>] /\ c[<<v, "inbox">>][i] = c[<<w, "hand">>][1]
      BY <1>4, <1>5, <1>7
    <2> HIDE DEF p
    <2>2. <<w, "hand">> = <<v, "inbox">>
      BY <1>1, <1>3, <1>4, <1>5, <1>6, <2>1 DEF Unique
    <2> QED BY <2>2
  <1>8. ASSUME v # w, worker[v].hand = p PROVE FALSE
    <2>1. c[<<v, "hand">>] = <<p>> BY <1>2, <1>8 DEF Where
    <2>2. 1 \in DOMAIN c[<<v, "hand">>] /\ c[<<v, "hand">>][1] = p BY <2>1
    <2>3. <<w, "hand">> = <<v, "hand">>
      BY <1>1, <1>3, <1>4, <1>5, <1>6, <2>2 DEF Unique
    <2> QED BY <1>8, <2>3
  <1> QED BY <1>7, <1>8 DEF ToSet

\* What Sorted says of one worker.
SortedAt(inb, r) ==
    /\ ToSet(inb) \subseteq (dispatched \ analysed) \cup {Stop}
    /\ r.hand \in (dispatched \ analysed) \cup {None}
    /\ ToSet(r.held) \subseteq found /\ ToSet(r.buffer) \subseteq found

\* A worker keeps what waits for analysis apart from what was found.
LEMMA WorkerSorted ==
    ASSUME PlaceInv, NEW w \in Workers, WorkerStep(w)
    PROVE  Sorted'
  <1>1. /\ \A v \in Workers : SortedAt(inbox[v], worker[v])
        /\ dispatched \subseteq 1 .. captured
        /\ ToSet(findingQ) \subseteq found \cup {Stop} /\ ToSet(file) \subseteq found
        /\ found \subseteq analysed /\ analysed \subseteq dispatched
    BY DEF PlaceInv, Sorted, SortedAt
  <1>2. UNCHANGED <<captured, dispatched, file>>
    BY DEF WorkerStep, counters, files
  <1>3. /\ inbox \in [Workers -> Seq(Nat)] /\ inbox[w] \in Seq(Nat) /\ findingQ \in Seq(Nat)
        /\ worker[w].held \in Seq(Nat) /\ worker[w].buffer \in Seq(Nat) /\ worker[w].hand \in Nat
    BY DEF PlaceInv, Types, ChildrenType, QueuesType, ProcessType
  <1>4. CASE UNCHANGED ghosts
    <2>1. SUFFICES /\ \A v \in Workers : v # w => worker'[v] = worker[v] /\ inbox'[v] = inbox[v]
                   /\ SortedAt(inbox'[w], worker'[w]) /\ ToSet(findingQ') \subseteq found \cup {Stop}
      <3>1. \A v \in Workers : SortedAt(inbox'[v], worker'[v]) BY <1>1, <2>1
      <3> QED BY <1>1, <1>2, <1>4, <2>1, <3>1 DEF Sorted, SortedAt, ghosts
    <2>2. \A v \in Workers : v # w => worker'[v] = worker[v] BY WorkerStepFrame DEF PlaceInv
    <2>3. CASE UNCHANGED <<inbox, findingQ>> /\ worker'[w].hand \in {worker[w].hand, None}
               /\ UNCHANGED <<worker[w].held, worker[w].buffer>>
      BY <1>1, <2>2, <2>3 DEF SortedAt
    <2>4. CASE WorkerReady(w)
      BY <2>3, <2>4, ReadyShape DEF PlaceInv, WorkerReady, Becomes
    <2>5. CASE WorkerHeartbeat(w)
      BY <2>3, <2>5, HeartbeatShape DEF PlaceInv, WorkerHeartbeat, Becomes
    <2>6. CASE TakePacket(w)
      <3>1. /\ inbox[w] # <<>> /\ Head(inbox[w]) # Stop /\ UNCHANGED findingQ
            /\ inbox' = [inbox EXCEPT ![w] = Tail(@)]
        BY <2>6 DEF TakePacket
      <3>2. inbox'[w] = Tail(inbox[w]) /\ \A v \in Workers : v # w => inbox'[v] = inbox[v]
        BY <3>1, InboxTail DEF PlaceInv
      <3>3. ToSet(inbox[w]) = {Head(inbox[w])} \cup ToSet(Tail(inbox[w]))
        BY <1>3, <3>1, TailSet
      <3>4. /\ worker'[w].hand = Head(inbox[w])
            /\ worker'[w].held = worker[w].held /\ worker'[w].buffer = worker[w].buffer
        BY <2>6, TakePacketShape DEF PlaceInv, Becomes
      <3> QED BY <1>1, <2>2, <3>1, <3>2, <3>3, <3>4 DEF SortedAt
    <2>7. CASE AnalysePacket(w)
      <3>1. UNCHANGED <<inbox, findingQ>> /\ worker[w].hand # None BY <2>7 DEF AnalysePacket
      <3>2. \/ worker[w].hand \in analysed'
            \/ /\ worker'[w].hand = None
               /\ worker'[w].held = worker[w].held /\ worker'[w].buffer = worker[w].buffer
        BY <2>7, AnalyseShape DEF PlaceInv, Becomes
      <3>3. worker[w].hand \notin analysed' BY <1>1, <1>4, <3>1 DEF SortedAt, ghosts
      <3> QED BY <2>3, <3>1, <3>2, <3>3
    <2>8. CASE TakeStop(w)
      <3>1. /\ inbox[w] # <<>> /\ UNCHANGED findingQ /\ inbox' = [inbox EXCEPT ![w] = Tail(@)]
        BY <2>8 DEF TakeStop
      <3>2. inbox'[w] = Tail(inbox[w]) /\ \A v \in Workers : v # w => inbox'[v] = inbox[v]
        BY <3>1, InboxTail DEF PlaceInv
      <3>3. ToSet(inbox[w]) = {Head(inbox[w])} \cup ToSet(Tail(inbox[w]))
        BY <1>3, <3>1, TailSet
      <3>4. /\ worker'[w].hand = worker[w].hand
            /\ worker'[w].held = worker[w].held /\ worker'[w].buffer = worker[w].buffer
        BY <2>8, TakeStopShape DEF PlaceInv, Becomes
      <3> QED BY <1>1, <2>2, <3>1, <3>2, <3>3, <3>4 DEF SortedAt
    <2>9. CASE EmitHeld(w)
      <3>1. worker[w].held # <<>> /\ UNCHANGED <<inbox, findingQ>> BY <2>9 DEF EmitHeld
      <3>2. /\ worker'[w].hand = worker[w].hand /\ worker'[w].held = Tail(worker[w].held)
            /\ worker'[w].buffer = Append(worker[w].buffer, Head(worker[w].held))
        BY <2>9, EmitShape DEF PlaceInv, Becomes
      <3>3. /\ ToSet(worker[w].held) = {Head(worker[w].held)} \cup ToSet(worker'[w].held)
            /\ ToSet(worker'[w].buffer) = ToSet(worker[w].buffer) \cup {Head(worker[w].held)}
        BY <1>3, <3>1, <3>2, TailSet, AppendSet
      <3> QED BY <1>1, <2>2, <3>1, <3>2, <3>3 DEF SortedAt
    <2>10. CASE WorkerStops(w)
      BY <2>3, <2>10, StopsShape DEF PlaceInv, WorkerStops, Becomes
    <2>11. CASE Feed(w)
      <3>1. /\ worker[w].buffer # <<>> /\ UNCHANGED inbox
            /\ findingQ' = Append(findingQ, Head(worker[w].buffer))
        BY <2>11 DEF Feed
      <3>2. /\ worker'[w].hand = worker[w].hand /\ worker'[w].held = worker[w].held
            /\ worker'[w].buffer = Tail(worker[w].buffer)
        BY <2>11, FeedShape DEF PlaceInv, Becomes
      <3>3. /\ ToSet(worker[w].buffer) = {Head(worker[w].buffer)} \cup ToSet(worker'[w].buffer)
            /\ ToSet(findingQ') = ToSet(findingQ) \cup {Head(worker[w].buffer)}
        BY <1>3, <3>1, <3>2, TailSet, AppendSet
      <3> QED BY <1>1, <2>2, <3>1, <3>2, <3>3 DEF SortedAt
    <2>12. CASE WorkerExits(w) \/ WorkerDies(w)
      BY <2>3, <2>12, ExitsShape DEF PlaceInv, WorkerExits, WorkerDies, Becomes
    <2>13. CASE WorkerFails(w)
      BY <2>3, <2>13, FailsShape DEF PlaceInv, WorkerFails, Becomes
    <2>14. CASE WorkerKilled(w)
      BY <2>3, <2>14, KilledShape DEF PlaceInv, WorkerKilled, Becomes
    <2> QED BY <2>4, <2>5, <2>6, <2>7, <2>8, <2>9, <2>10, <2>11, <2>12, <2>13, <2>14
            DEF WorkerStep
  <1>5. CASE ~UNCHANGED ghosts
    <2>1. AnalysePacket(w)
      BY <1>5 DEF WorkerStep, WorkerReady, WorkerHeartbeat, TakePacket, TakeStop, EmitHeld,
                  WorkerStops, Feed, WorkerExits, WorkerDies, WorkerFails, WorkerKilled
    <2> DEFINE p == worker[w].hand
    <2>2. p # None /\ UNCHANGED <<inbox, findingQ>> BY <2>1 DEF AnalysePacket
    <2>3. /\ \A v \in Workers : v # w => worker'[v] = worker[v]
          /\ worker'[w].hand = None /\ analysed' = analysed \cup {p}
          /\ \/ /\ UNCHANGED found
                /\ worker'[w].held = worker[w].held /\ worker'[w].buffer = worker[w].buffer
             \/ /\ found' = found \cup {p}
                /\ worker'[w].held \in {worker[w].held, Append(worker[w].held, p)}
                /\ worker'[w].buffer \in {worker[w].buffer, Append(worker[w].buffer, p)}
      BY <1>5, <2>1, AnalyseShape DEF PlaceInv, Becomes
    <2>4. /\ ToSet(Append(worker[w].held, p)) = ToSet(worker[w].held) \cup {p}
          /\ ToSet(Append(worker[w].buffer, p)) = ToSet(worker[w].buffer) \cup {p}
      BY <1>3, AppendSet
    <2>5. \A v \in Workers : p \notin ToSet(inbox[v]) /\ (v # w => worker[v].hand # p)
      BY <2>2, HandAlone
    <2>6. p \in dispatched BY <1>1, <2>2 DEF SortedAt
    <2> HIDE DEF p
    <2>7. found \subseteq found' /\ found' \subseteq analysed' /\ analysed' \subseteq dispatched
      BY <1>1, <2>3, <2>6
    <2>8. ToSet(worker'[w].held) \subseteq found' /\ ToSet(worker'[w].buffer) \subseteq found'
      BY <1>1, <2>3, <2>4 DEF SortedAt
    <2>9. ASSUME NEW v \in Workers
          PROVE  /\ ToSet(inbox'[v]) \subseteq (dispatched' \ analysed') \cup {Stop}
                 /\ worker'[v].hand \in (dispatched' \ analysed') \cup {None}
                 /\ ToSet(worker'[v].held) \subseteq found'
                 /\ ToSet(worker'[v].buffer) \subseteq found'
      <3>1. ToSet(inbox'[v]) \subseteq (dispatched' \ analysed') \cup {Stop}
        BY <1>1, <1>2, <2>2, <2>3, <2>5 DEF SortedAt
      <3>2. CASE v = w BY <2>3, <2>8, <3>1, <3>2
      <3>3. CASE v # w
        <4>1. worker'[v].hand \in (dispatched' \ analysed') \cup {None}
          BY <1>1, <1>2, <2>3, <2>5, <3>3 DEF SortedAt
        <4> QED BY <1>1, <2>3, <2>7, <3>1, <3>3, <4>1 DEF SortedAt
      <3> QED BY <3>2, <3>3
    <2> QED BY <1>1, <1>2, <2>2, <2>7, <2>9 DEF Sorted
  <1> QED BY <1>4, <1>5

\* A worker keeps every packet in one place.
LEMMA WorkerUnique ==
    ASSUME PlaceInv, NEW w \in Workers, WorkerStep(w)
    PROVE  Unique(Contents')
  <1>1. Types /\ Types' /\ Unique(Contents) BY WorkerTypes DEF PlaceInv
  <1>2. UNCHANGED file BY DEF WorkerStep, files
  <1>3. \A v \in Workers : v # w => worker'[v] = worker[v] BY <1>1, WorkerStepFrame
  <1>4. CASE /\ UNCHANGED <<inbox, findingQ>>
             /\ UNCHANGED <<worker[w].hand, worker[w].held, worker[w].buffer>>
    BY <1>1, <1>2, <1>3, <1>4, SameUnique
  <1>5. CASE WorkerReady(w) BY <1>1, <1>4, <1>5, ReadyShape DEF WorkerReady, Becomes
  <1>6. CASE WorkerHeartbeat(w)
    BY <1>1, <1>4, <1>6, HeartbeatShape DEF WorkerHeartbeat, Becomes
  <1>7. CASE WorkerStops(w) BY <1>1, <1>4, <1>7, StopsShape DEF WorkerStops, Becomes
  <1>8. CASE WorkerExits(w) \/ WorkerDies(w)
    BY <1>1, <1>4, <1>8, ExitsShape DEF WorkerExits, WorkerDies, Becomes
  <1>9. CASE WorkerKilled(w) BY <1>1, <1>4, <1>9, KilledShape DEF WorkerKilled, Becomes
  <1> QED
    BY <1>1, <1>2, <1>5, <1>6, <1>7, <1>8, <1>9, TakePacketUnique, AnalyseUnique,
       TakeStopUnique, EmitUnique, FeedUnique, FailsUnique
    DEF WorkerStep

\* What each place holds before and after a step.
LEMMA WhereBoth ==
    ASSUME Types, Types'
    PROVE  /\ Where(inbox, worker, findingQ, file, Contents)
           /\ Where(inbox', worker', findingQ', file', Contents')
  <1>1. /\ inbox \in [Workers -> Seq(Nat)] /\ worker \in [Workers -> ProcessType]
        /\ findingQ \in Seq(Nat) /\ file \in Seq(Nat)
        /\ inbox' \in [Workers -> Seq(Nat)] /\ worker' \in [Workers -> ProcessType]
        /\ findingQ' \in Seq(Nat) /\ file' \in Seq(Nat)
    BY DEF Types, ChildrenType, QueuesType
  <1> QED BY <1>1, ContentsAt DEF Contents

\* A place is a worker's or one of the two that all share.
LEMMA PlaceCases ==
    ASSUME NEW x \in Places
    PROVE  \/ \E v \in Workers : x \in {<<v, "inbox">>, <<v, "hand">>, <<v, "held">>, <<v, "buffer">>}
           \/ x \in {<<0, "pipe">>, <<0, "file">>}
  BY DEF Places

\* Markers join the inboxes or the pipe; the packets of a worker stay or are dropped.
Marking ==
    /\ \A v \in Workers : /\ inbox'[v] = inbox[v] \/ inbox'[v] = Append(inbox[v], Stop)
                          /\ UNCHANGED <<worker[v].hand, worker[v].held, worker[v].buffer>>
    /\ findingQ' = findingQ \/ findingQ' = Append(findingQ, Stop)
    /\ UNCHANGED <<file, captured, dispatched, ghosts>>

Restarting ==
    /\ \A v \in Workers :
          /\ inbox'[v] = inbox[v]
          /\ \/ UNCHANGED <<worker[v].hand, worker[v].held, worker[v].buffer>>
             \/ worker'[v].hand = None /\ worker'[v].held = <<>> /\ worker'[v].buffer = <<>>
    /\ UNCHANGED <<findingQ, file, captured, dispatched, ghosts>>

\* The stop marks keep the places.
LEMMA MarkingPlaces ==
    ASSUME PlaceInv, Types', Marking PROVE Unique(Contents') /\ Sorted'
  <1> DEFINE c == Contents
             d == Contents'
  <1>1. /\ Where(inbox, worker, findingQ, file, c) /\ Unique(c)
        /\ Where(inbox', worker', findingQ', file', d)
    BY WhereBoth DEF PlaceInv
  <1> HIDE DEF c, d
  <1>2. ASSUME NEW x \in Places PROVE d[x] = c[x] \/ d[x] = Append(c[x], 0)
    <2>1. CASE x \in {<<0, "pipe">>, <<0, "file">>}
      BY <1>1, <2>1 DEF Where, Marking, Stop
    <2>2. ASSUME NEW v \in Workers,
                 x \in {<<v, "inbox">>, <<v, "hand">>, <<v, "held">>, <<v, "buffer">>}
          PROVE  d[x] = c[x] \/ d[x] = Append(c[x], 0)
      <3>1. /\ c[<<v, "inbox">>] = inbox[v] /\ d[<<v, "inbox">>] = inbox'[v]
            /\ c[<<v, "hand">>] = IF worker[v].hand = None THEN <<>> ELSE <<worker[v].hand>>
            /\ d[<<v, "hand">>] = IF worker'[v].hand = None THEN <<>> ELSE <<worker'[v].hand>>
            /\ c[<<v, "held">>] = worker[v].held /\ d[<<v, "held">>] = worker'[v].held
            /\ c[<<v, "buffer">>] = worker[v].buffer /\ d[<<v, "buffer">>] = worker'[v].buffer
        BY <1>1 DEF Where
      <3>2. /\ inbox'[v] = inbox[v] \/ inbox'[v] = Append(inbox[v], 0)
            /\ worker'[v].hand = worker[v].hand /\ worker'[v].held = worker[v].held
            /\ worker'[v].buffer = worker[v].buffer
        BY DEF Marking, Stop
      <3> QED BY <2>2, <3>1, <3>2
    <2> QED BY <2>1, <2>2, PlaceCases
  <1>3. Marked(Places, c, d) BY <1>1, <1>2 DEF Marked, Where
  <1>4. Unique(d) BY <1>1, <1>3, MarkerUnique
  <1>5. Sorted'
    <2>1. \A v \in Workers : inbox[v] \in Seq(Nat) BY DEF PlaceInv, Types, QueuesType
    <2>2. \A v \in Workers : ToSet(inbox'[v]) \subseteq ToSet(inbox[v]) \cup {Stop}
      <3> TAKE v \in Workers
      <3>1. ToSet(Append(inbox[v], Stop)) = ToSet(inbox[v]) \cup {Stop} BY <2>1, AppendSet
      <3> QED BY <3>1 DEF Marking
    <2>3. ToSet(findingQ') \subseteq ToSet(findingQ) \cup {Stop}
      <3>1. findingQ \in Seq(Nat) BY DEF PlaceInv, Types, QueuesType
      <3>2. ToSet(Append(findingQ, Stop)) = ToSet(findingQ) \cup {Stop} BY <3>1, AppendSet
      <3> QED BY <3>2 DEF Marking
    <2> QED BY <2>2, <2>3 DEF PlaceInv, Sorted, Marking, ghosts
  <1> QED BY <1>4, <1>5 DEF d

\* A restart of a worker keeps the places.
LEMMA RestartingPlaces ==
    ASSUME PlaceInv, Types', Restarting PROVE Unique(Contents') /\ Sorted'
  <1> DEFINE c == Contents
             d == Contents'
  <1>1. /\ Where(inbox, worker, findingQ, file, c) /\ Unique(c)
        /\ Where(inbox', worker', findingQ', file', d)
    BY WhereBoth DEF PlaceInv
  <1> HIDE DEF c, d
  <1>2. ASSUME NEW x \in Places PROVE d[x] = c[x] \/ d[x] = <<>>
    <2>1. CASE x \in {<<0, "pipe">>, <<0, "file">>}
      BY <1>1, <2>1 DEF Where, Restarting
    <2>2. ASSUME NEW v \in Workers,
                 x \in {<<v, "inbox">>, <<v, "hand">>, <<v, "held">>, <<v, "buffer">>}
          PROVE  d[x] = c[x] \/ d[x] = <<>>
      <3>1. /\ c[<<v, "inbox">>] = inbox[v] /\ d[<<v, "inbox">>] = inbox'[v]
            /\ c[<<v, "hand">>] = IF worker[v].hand = None THEN <<>> ELSE <<worker[v].hand>>
            /\ d[<<v, "hand">>] = IF worker'[v].hand = None THEN <<>> ELSE <<worker'[v].hand>>
            /\ c[<<v, "held">>] = worker[v].held /\ d[<<v, "held">>] = worker'[v].held
            /\ c[<<v, "buffer">>] = worker[v].buffer /\ d[<<v, "buffer">>] = worker'[v].buffer
        BY <1>1 DEF Where
      <3>2. /\ inbox'[v] = inbox[v]
            /\ \/ /\ worker'[v].hand = worker[v].hand /\ worker'[v].held = worker[v].held
                  /\ worker'[v].buffer = worker[v].buffer
               \/ worker'[v].hand = None /\ worker'[v].held = <<>> /\ worker'[v].buffer = <<>>
        BY DEF Restarting
      <3> QED BY <2>2, <3>1, <3>2
    <2> QED BY <2>1, <2>2, PlaceCases
  <1>3. Cleared(Places, c, d) BY <1>1, <1>2 DEF Cleared, Where
  <1>4. Unique(d) BY <1>1, <1>3, ClearUnique
  <1>5. Sorted' BY EmptyToSet DEF PlaceInv, Sorted, Restarting, ghosts
  <1> QED BY <1>4, <1>5 DEF d

\* A packet arrives in an inbox, or nowhere.
LEMMA ArrivalPlaces ==
    ASSUME PlaceInv, Types', NEW w \in Workers, captured' = captured + 1,
           inbox' = [inbox EXCEPT ![w] = Append(@, captured')],
           dispatched' = dispatched \cup {captured'}, UNCHANGED <<worker, findingQ, file, ghosts>>
    PROVE  Unique(Contents') /\ Sorted'
  <1> DEFINE c == Contents
             d == Contents'
             z == captured'
  <1>1. /\ captured \in Nat /\ z \in Nat /\ z = captured + 1
        /\ inbox \in [Workers -> Seq(Nat)] /\ inbox[w] \in Seq(Nat)
    BY DEF PlaceInv, Types, QueuesType
  <1>2. z \notin dispatched /\ z # 0 BY <1>1 DEF PlaceInv, Sorted
  <1>3. PlacesOf(w, c, d) /\ Unique(c) BY PlacesFacts DEF PlaceInv
  <1>4. inbox'[w] = Append(inbox[w], z) /\ \A v \in Workers : v # w => inbox'[v] = inbox[v]
    BY <1>1
  <1>5. Local(w, c, d) BY <1>4, PlacesLocal DEF PlaceInv
  <1>6. Where(inbox, worker, findingQ, file, c) BY WhereBoth DEF PlaceInv
  <1>7. PlaceInv OBVIOUS
  <1> HIDE DEF c, d, z
  <1>8. ASSUME NEW x \in Places PROVE z \notin ToSet(c[x])
    <2>1. CASE x \in {<<0, "pipe">>, <<0, "file">>}
      <3>1. c[x] = findingQ \/ c[x] = file BY <1>6, <2>1 DEF Where
      <3>2. ToSet(findingQ) \subseteq dispatched \cup {0} /\ ToSet(file) \subseteq dispatched
        BY <1>7 DEF PlaceInv, Sorted, Stop
      <3> QED BY <1>2, <3>1, <3>2
    <2>2. ASSUME NEW v \in Workers,
                 x \in {<<v, "inbox">>, <<v, "held">>, <<v, "buffer">>}
          PROVE  z \notin ToSet(c[x])
      <3>1. c[x] = inbox[v] \/ c[x] = worker[v].held \/ c[x] = worker[v].buffer
        BY <1>6, <2>2 DEF Where
      <3>2. /\ ToSet(inbox[v]) \subseteq dispatched \cup {0}
            /\ ToSet(worker[v].held) \subseteq dispatched /\ ToSet(worker[v].buffer) \subseteq dispatched
        BY <1>7 DEF PlaceInv, Sorted, Stop
      <3> QED BY <1>2, <3>1, <3>2
    <2>3. ASSUME NEW v \in Workers, x = <<v, "hand">> PROVE z \notin ToSet(c[x])
      <3>1. worker[v].hand # z BY <1>2, <1>7 DEF PlaceInv, Sorted, None
      <3>2. c[x] = <<>> \/ c[x] = <<worker[v].hand>> BY <1>6, <2>3 DEF Where
      <3> QED BY <3>1, <3>2 DEF ToSet
    <2> QED BY <2>1, <2>2, <2>3, PlaceCases
  <1>9. Arrived(Places, c, d, <<w, "inbox">>, z)
    BY <1>1, <1>3, <1>4, <1>5, <1>8 DEF Arrived, PlacesOf, Local, Near
  <1>10. Unique(d) BY <1>3, <1>9, FreshUnique
  <1>11. Sorted'
    <2>1. ToSet(inbox'[w]) = ToSet(inbox[w]) \cup {z} BY <1>1, <1>4, AppendSet
    <2>2. dispatched' \subseteq 1 .. captured'
      <3>1. dispatched \subseteq 1 .. captured BY DEF PlaceInv, Sorted
      <3> QED BY <1>1, <3>1 DEF z
    <2>3. z \notin analysed BY <1>2 DEF PlaceInv, Sorted
    <2>4. \A v \in Workers : ToSet(inbox'[v]) \subseteq (dispatched' \ analysed) \cup {Stop}
      BY <1>4, <2>1, <2>3 DEF PlaceInv, Sorted, z
    <2> QED BY <2>2, <2>4 DEF PlaceInv, Sorted, ghosts
  <1> QED BY <1>10, <1>11 DEF d

\* A packet that is captured and not yet dispatched is in no place.
LEMMA CountPlaces ==
    ASSUME PlaceInv, Types', captured' = captured + 1,
           UNCHANGED <<inbox, dispatched, worker, findingQ, file, ghosts>>
    PROVE  Unique(Contents') /\ Sorted'
  <1>1. Contents' = Contents BY DEF Contents
  <1>2. dispatched \subseteq 1 .. captured' BY DEF PlaceInv, Sorted, Types
  <1> QED BY <1>1, <1>2 DEF PlaceInv, Sorted, ghosts

\* The writer keeps the places.
LEMMA WriterPlaces ==
    ASSUME PlaceInv, Types', WriterStep PROVE Unique(Contents') /\ Sorted'
  <1>1. UNCHANGED <<captured, dispatched, inbox, worker, ghosts>> BY DEF WriterStep, counters
  <1>2. CASE UNCHANGED <<findingQ, file>>
    <2>1. Contents' = Contents BY <1>1, <1>2 DEF Contents
    <2> QED BY <1>1, <1>2, <2>1 DEF PlaceInv, Sorted, ghosts
  <1>3. CASE WriteFinding
    <2> DEFINE c == Contents
               d == Contents'
    <2>1. findingQ # <<>> /\ findingQ' = Tail(findingQ) /\ findingQ \in Seq(Nat) /\ file \in Seq(Nat)
      BY <1>3 DEF WriteFinding, PlaceInv, Types, QueuesType
    <2>2. ToSet(findingQ) = {Head(findingQ)} \cup ToSet(findingQ') BY <2>1, TailSet
    <2>3. 0 \in Workers BY SessionAssumption DEF Workers
    <2>4. PlacesOf(0, c, d) /\ Unique(c) BY <2>3, PlacesFacts DEF PlaceInv
    <2>5. Local(0, c, d) BY <1>1, <2>3, PlacesLocal DEF PlaceInv
    <2> HIDE DEF c, d
    <2>6. CASE Head(findingQ) = Stop
      <3>1. UNCHANGED file BY <1>3, <2>6 DEF WriteFinding
      <3>2. NearDrop(0, c, d, <<0, "pipe">>)
        BY <1>1, <2>1, <2>4, <3>1 DEF PlacesOf, Near, NearDrop
      <3>3. Unique(d) BY <2>4, <2>5, <3>2, LocalDrop
      <3>4. Sorted' BY <1>1, <2>2, <3>1 DEF PlaceInv, Sorted, ghosts
      <3> QED BY <3>3, <3>4 DEF d
    <2>7. CASE Head(findingQ) # Stop
      <3>1. file' = Append(file, Head(findingQ)) BY <1>3, <2>7 DEF WriteFinding
      <3>2. NearMove(0, c, d, <<0, "pipe">>, <<0, "file">>)
        BY <1>1, <2>1, <2>4, <3>1 DEF PlacesOf, Near, NearMove
      <3>3. Unique(d) BY <2>4, <2>5, <3>2, LocalMove
      <3>4. ToSet(file') = ToSet(file) \cup {Head(findingQ)} BY <2>1, <3>1, AppendSet
      <3>5. Sorted' BY <1>1, <2>2, <2>7, <3>4 DEF PlaceInv, Sorted, ghosts
      <3> QED BY <3>3, <3>5 DEF d
    <2> QED BY <2>6, <2>7
  <1>4. CASE ~WriteFinding
    BY <1>2, <1>4 DEF WriterStep, WriterReady, WriterHeartbeat, WriteOperation, CloseFiles,
                      WriterExits, WriterDies, WriterFails, files
  <1> QED BY <1>3, <1>4

\* The supervisor keeps the places.
LEMMA SupervisePlaces ==
    ASSUME PlaceInv, Types', Supervise PROVE Unique(Contents') /\ Sorted'
  <1> USE DEF counters, queues, children, files
  <1>1. /\ worker \in [Workers -> ProcessType] /\ inbox \in [Workers -> Seq(Nat)]
        /\ Types /\ next \in Nat
    BY DEF PlaceInv, Types, ChildrenType, ControlType, QueuesType
  <1>2. CASE UNCHANGED <<worker, inbox, findingQ, file, captured, dispatched, ghosts>>
    BY <1>2, MarkingPlaces DEF Marking
  <1>3. CASE StartWriter \/ WriterAcknowledged \/ OpenRing \/ OpenSource \/ StartupFails
             \/ CleanUpRaises \/ CleanUpWriter \/ LeaveLoop \/ StopRing \/ ShutdownRaises \/ JoinWriter \/ Conclude
             \/ DeadlinePasses \/ \E w \in Workers : SeeReady(w)
    BY <1>2, <1>3 DEF StartWriter, WriterAcknowledged, OpenRing, OpenSource, StartupFails,
                      CleanUpRaises, CleanUpWriter, LeaveLoop, StopRing, ShutdownRaises, JoinWriter, Conclude, DeadlinePasses, SeeReady
  <1>4. CASE SpawnWorker
    <2>1. Restarting BY <1>1, <1>4 DEF SpawnWorker, Spawned, Restarting, Process
    <2> QED BY <2>1, RestartingPlaces
  <1>5. CASE CleanUp
    <2>1. Marking BY <1>5 DEF CleanUp, Marking
    <2> QED BY <2>1, MarkingPlaces
  <1>6. ASSUME next < NumWorkers, UNCHANGED <<inbox, findingQ, file, captured, dispatched, ghosts>>,
               \/ worker' = worker
               \/ \E r \in Terminated(worker[next]) : worker' = [worker EXCEPT ![next] = r]
        PROVE  Unique(Contents') /\ Sorted'
    <2>1. next \in Workers BY <1>1, <1>6, SessionAssumption DEF Workers
    <2>2. Marking
      <3>1. CASE worker' = worker BY <1>6, <3>1 DEF Marking
      <3>2. ASSUME NEW r \in Terminated(worker[next]), worker' = [worker EXCEPT ![next] = r]
            PROVE  Marking
        <4>1. \A v \in Workers : UNCHANGED <<worker[v].hand, worker[v].held, worker[v].buffer>>
          BY <1>1, <2>1, <3>2, TerminatedShape DEF Becomes
        <4> QED BY <1>6, <4>1 DEF Marking
      <3> QED BY <1>6, <3>1, <3>2
    <2> QED BY <2>2, MarkingPlaces
  <1>7. CASE CleanUpWorker BY <1>6, <1>7 DEF CleanUpWorker
  <1>8. CASE CleanUpQueues
    <2>1. Marking BY <1>8 DEF CleanUpQueues, Marking
    <2> QED BY <2>1, MarkingPlaces
  <1>9. CASE Read
    <2>1. UNCHANGED <<worker, findingQ, file, ghosts>> BY <1>9 DEF Read
    <2>2. CASE UNCHANGED <<counters, inbox>> BY <1>2, <2>1, <2>2
    <2>3. ASSUME captured' = captured + 1, UNCHANGED <<inbox, dispatched>>
          PROVE  Unique(Contents') /\ Sorted'
      BY <2>1, <2>3, CountPlaces
    <2>4. ASSUME captured' = captured + 1, NEW w \in Workers,
                 inbox' = [inbox EXCEPT ![w] = Append(@, captured')],
                 dispatched' = dispatched \cup {captured'}
          PROVE  Unique(Contents') /\ Sorted'
      BY <2>1, <2>4, ArrivalPlaces
    <2> QED BY <1>9, <2>2, <2>3, <2>4 DEF Read
  <1>10. CASE ReadFails
    <2>1. UNCHANGED <<dispatched, inbox, worker, findingQ, file, ghosts>> BY <1>10 DEF ReadFails
    <2>2. CASE UNCHANGED captured BY <1>2, <2>1, <2>2
    <2>3. CASE captured' = captured + 1 BY <2>1, <2>3, CountPlaces
    <2> QED BY <1>10, <2>2, <2>3 DEF ReadFails
  <1>11. CASE CheckChildren
    <2>1. UNCHANGED <<inbox, findingQ, file, captured, dispatched, ghosts>>
      BY <1>11 DEF CheckChildren
    <2>2. CASE UNCHANGED worker BY <1>2, <2>1, <2>2
    <2>3. CASE ReplaceWorker /\ ~UNCHANGED worker
      <3>1. worker' = [worker EXCEPT ![next] = Process(worker[next].pid + 1, "starting")]
        BY <2>3 DEF ReplaceWorker, Spawned
      <3>2. Restarting BY <1>1, <2>1, <3>1 DEF Restarting, Process
      <3> QED BY <3>2, RestartingPlaces
    <2> QED
      BY <1>11, <2>2, <2>3 DEF CheckChildren, CheckWorker, ReplacementFails, CheckPasses, CheckFails
  <1>12. CASE StopWorkers
    <2>1. UNCHANGED <<findingQ, file, captured, dispatched, ghosts>> BY <1>12 DEF StopWorkers
    <2>2. CASE StopWorker /\ UNCHANGED <<phase, late, worker, lostEvents>>
      <3>1. inbox' = inbox \/ inbox' = [inbox EXCEPT ![next] = Append(@, Stop)]
        BY <2>2 DEF StopWorker
      <3>2. Marking BY <1>1, <2>1, <2>2, <3>1 DEF Marking
      <3> QED BY <3>2, MarkingPlaces
    <2>3. CASE DrainWorkers /\ UNCHANGED <<worker, lostEvents>>
      BY <1>2, <2>1, <2>3 DEF DrainWorkers
    <2>4. CASE EndWorker /\ UNCHANGED <<phase, late, inbox>>
      BY <1>6, <2>1, <2>4 DEF EndWorker
    <2>5. CASE Reconcile /\ UNCHANGED <<inbox, worker, lostEvents>>
      BY <1>2, <2>1, <2>5
    <2> QED BY <1>12, <2>2, <2>3, <2>4, <2>5 DEF StopWorkers
  <1>13. CASE StopWriter
    <2>1. /\ UNCHANGED <<inbox, worker, file, captured, dispatched, ghosts>>
          /\ findingQ' = findingQ \/ findingQ' = Append(findingQ, Stop)
      BY <1>13 DEF StopWriter, Accepted, PutOperation, PutFindingStop
    <2>2. Marking BY <2>1 DEF Marking
    <2> QED BY <2>2, MarkingPlaces
  <1> QED
    BY <1>3, <1>4, <1>5, <1>7, <1>8, <1>9, <1>10, <1>11, <1>12, <1>13 DEF Supervise

\* All places are empty initially.
LEMMA InitPlaces == Init => PlaceInv
  <1> SUFFICES ASSUME Init PROVE Unique(Contents) /\ Sorted BY InitTypes DEF PlaceInv
  <1>1. Sorted BY EmptyToSet DEF Init, Sorted, Process, None
  <1>2. ASSUME NEW x \in Places PROVE Contents[x] = <<>>
    <2>1. Where(inbox, worker, findingQ, file, Contents)
      <3>1. Types BY InitTypes
      <3> QED BY <3>1, ContentsAt DEF Types, ChildrenType, QueuesType, Contents
    <2>2. CASE x \in {<<0, "pipe">>, <<0, "file">>} BY <2>1, <2>2 DEF Where, Init
    <2>3. ASSUME NEW v \in Workers,
                 x \in {<<v, "inbox">>, <<v, "hand">>, <<v, "held">>, <<v, "buffer">>}
          PROVE  Contents[x] = <<>>
      <3>1. worker[v] = Process(0, "off") /\ inbox[v] = <<>> BY DEF Init
      <3>2. worker[v].hand = None /\ worker[v].held = <<>> /\ worker[v].buffer = <<>>
        BY <3>1 DEF Process
      <3>3. \/ Contents[x] = inbox[v] \/ Contents[x] = worker[v].held
            \/ Contents[x] = worker[v].buffer \/ Contents[x] = <<>>
        BY <2>1, <2>3, <3>2 DEF Where
      <3> QED BY <3>1, <3>2, <3>3
    <2> QED BY <2>2, <2>3, PlaceCases
  <1>3. DOMAIN Contents = Places BY DEF Contents, ContentsOf
  <1>4. Unique(Contents)
    <2> DEFINE c == Contents
    <2>1. DOMAIN c = Places /\ \A x \in Places : c[x] = <<>> BY <1>2, <1>3
    <2> HIDE DEF c
    <2>2. Unique(c) BY <2>1 DEF Unique
    <2> QED BY <2>2 DEF c
  <1> QED BY <1>1, <1>4

\* Every step keeps the places.
LEMMA StepPlaces == PlaceInv /\ [Next]_vars => PlaceInv'
  <1> SUFFICES ASSUME PlaceInv, [Next]_vars PROVE PlaceInv' OBVIOUS
  <1>1. Types' BY StepTypes DEF PlaceInv
  <1> SUFFICES Unique(Contents') /\ Sorted' BY <1>1 DEF PlaceInv
  <1>2. CASE UNCHANGED <<worker, inbox, findingQ, file, captured, dispatched, ghosts>>
    BY <1>1, <1>2, MarkingPlaces DEF Marking
  <1>3. CASE UNCHANGED vars
    BY <1>2, <1>3 DEF vars, counters, queues, children, files
  <1>4. CASE RequestStop \/ RingStops
    BY <1>2, <1>4 DEF RequestStop, RingStops, counters, queues, children, files
  <1> QED BY <1>1, <1>3, <1>4, SupervisePlaces, WriterPlaces, WorkerUnique, WorkerSorted DEF Next

\* One place per packet: the file repeats nothing.
LEMMA OncePlaced == ASSUME PlaceInv PROVE WrittenOnce
  <1> DEFINE c == Contents
  <1>1. Where(inbox, worker, findingQ, file, c)
    BY ContentsAt DEF PlaceInv, Types, ChildrenType, QueuesType, Contents
  <1>2. /\ Unique(c) /\ ToSet(file) \subseteq found /\ found \subseteq dispatched
        /\ dispatched \subseteq 1 .. captured
    BY DEF PlaceInv, Sorted
  <1>3. <<0, "file">> \in Places BY DEF Places
  <1> HIDE DEF c
  <1>4. c[<<0, "file">>] = file /\ DOMAIN c = Places BY <1>1 DEF Where
  <1>5. ASSUME NEW i \in DOMAIN file, NEW j \in DOMAIN file, file[i] = file[j] PROVE i = j
    <2>1. file[i] \in ToSet(file) BY DEF ToSet
    <2>2. file[i] # 0
      <3>1. file[i] \in 1 .. captured BY <1>2, <2>1
      <3> QED BY <3>1
    <2> QED BY <1>2, <1>3, <1>4, <1>5, <2>2 DEF Unique
  <1>6. IsInjective(file) BY <1>5 DEF IsInjective
  <1> QED BY <1>2, <1>6 DEF WrittenOnce

\* The evidence file holds no finding twice and none that was not detected, however
\* many workers die, are replaced or hang.
THEOREM SessionWritesOnce == Spec => []WrittenOnce
  BY OncePlaced, InitPlaces, StepPlaces, PTL DEF Spec
-----------------------------------------------------------------------------
(***************************************************************************)
(* What a clean exit and the two markers mean                              *)
(***************************************************************************)

\* A report of the first process of a worker is read back as it was sent.
LEMMA ReportAt ==
    ASSUME Types, NEW w \in Workers, NEW st, sent' = Report(w, st)
    PROVE  /\ \A v \in Workers : v # w => sent'[v] = sent[v]
           /\ worker[w].pid = 1 =>
                 /\ sent'[w][1].state = st /\ sent'[w][1].errors = worker'[w].errors
                 /\ sent'[w][1].drops = (st \in {"heartbeat", "stopped"} /\ worker'[w].drops)
  <1> DEFINE r == [state |-> st, packets |-> worker'[w].packets,
                   findings |-> worker'[w].findings, errors |-> worker'[w].errors,
                   drops |-> st \in {"heartbeat", "stopped"} /\ worker'[w].drops]
  <1>1. sent' = [sent EXCEPT ![w][worker[w].pid] = r] BY DEF Report
  <1>2. /\ r.state = st /\ r.errors = worker'[w].errors
        /\ r.drops = (st \in {"heartbeat", "stopped"} /\ worker'[w].drops)
    OBVIOUS
  <1> HIDE DEF r
  <1>3. sent \in [Workers -> [Pids -> ReportType]] BY DEF Types, ChildrenType
  <1>4. 1 \in Pids BY SessionAssumption DEF Pids
  <1>5. worker[w].pid = 1 => sent'[w][1] = r BY <1>1, <1>3, <1>4
  <1> QED BY <1>1, <1>2, <1>3, <1>5

\* What CleanExit says of one worker.
CleanAt(r, report) ==
    /\ r.state = "flushing" => r.hand = None
    /\ r.clean =>
         /\ r.state \in {"leaving", "gone"} /\ r.hand = None /\ r.held = <<>>
         /\ r.state = "gone" => r.buffer = <<>>
         /\ r.pid = 1 => /\ report.state = "stopped" /\ report.errors = r.errors
                         /\ report.drops = r.drops

\* A clean exit is one of each worker.
LEMMA CleanEach == CleanExit <=> \A w \in Workers : CleanAt(worker[w], sent[w][1])
  BY DEF CleanExit, CleanAt

\* A worker takes no step that would make its clean exit a lie.
LEMMA WorkerClean ==
    ASSUME Types, CleanExit, NEW w \in Workers, WorkerStep(w) PROVE CleanExit'
  <1>1. \A v \in Workers : v # w => worker'[v] = worker[v] BY WorkerStepFrame
  <1>2. CleanAt(worker[w], sent[w][1]) BY CleanEach
  <1> SUFFICES /\ \A v \in Workers : v # w => sent'[v] = sent[v]
               /\ CleanAt(worker'[w], sent'[w][1])
    <2>1. \A v \in Workers : CleanAt(worker'[v], sent'[v][1]) BY <1>1, CleanEach
    <2> QED BY <2>1 DEF CleanExit, CleanAt
  <1>3. CASE WorkerReady(w)
    <2>1. worker[w].state = "starting" /\ sent' = Report(w, "ready") BY <1>3 DEF WorkerReady
    <2>2. ~worker[w].clean BY <1>2, <2>1 DEF CleanAt
    <2> QED BY <1>3, <2>1, <2>2, ReadyShape, ReportAt DEF Becomes, CleanAt
  <1>4. CASE WorkerHeartbeat(w)
    <2>1. worker[w].state = "running" /\ sent' = Report(w, "heartbeat")
      BY <1>4 DEF WorkerHeartbeat
    <2>2. ~worker[w].clean BY <1>2, <2>1 DEF CleanAt
    <2> QED BY <1>4, <2>1, <2>2, HeartbeatShape, ReportAt DEF Becomes, CleanAt
  <1>5. CASE TakePacket(w)
    <2>1. worker[w].state = "running" /\ sent' = sent BY <1>5 DEF TakePacket
    <2>2. ~worker[w].clean BY <1>2, <2>1 DEF CleanAt
    <2> QED BY <1>5, <2>1, <2>2, TakePacketShape DEF Becomes, CleanAt
  <1>6. CASE AnalysePacket(w)
    <2>1. worker[w].state = "running" /\ sent' = sent BY <1>6 DEF AnalysePacket
    <2>2. ~worker[w].clean BY <1>2, <2>1 DEF CleanAt
    <2>3. worker'[w].state = "running" /\ worker'[w].clean = worker[w].clean
      BY <1>6, AnalyseShape DEF Becomes
    <2> QED BY <2>1, <2>2, <2>3 DEF CleanAt
  <1>7. CASE TakeStop(w)
    <2>1. worker[w].state = "running" /\ worker[w].hand = None /\ sent' = sent
      BY <1>7 DEF TakeStop
    <2>2. ~worker[w].clean BY <1>2, <2>1 DEF CleanAt
    <2> QED BY <1>7, <2>1, <2>2, TakeStopShape DEF Becomes, CleanAt
  <1>8. CASE EmitHeld(w)
    <2>1. worker[w].state \in {"running", "flushing"} /\ worker[w].hand = None /\ sent' = sent
      BY <1>8 DEF EmitHeld
    <2>2. ~worker[w].clean BY <1>2, <2>1 DEF CleanAt
    <2> QED BY <1>8, <2>1, <2>2, EmitShape DEF Becomes, CleanAt
  <1>9. CASE WorkerStops(w)
    <2>1. /\ worker[w].state = "flushing" /\ worker[w].held = <<>>
          /\ sent' = Report(w, "stopped")
      BY <1>9 DEF WorkerStops
    <2>2. worker[w].hand = None BY <1>2, <2>1 DEF CleanAt
    <2>3. Becomes(w, "leaving", TRUE, worker[w].hand, worker[w].held, worker[w].buffer,
                  worker[w].errors)
      BY <1>9, StopsShape
    <2>4. worker'[w].drops \in BOOLEAN BY <2>3 DEF Becomes, ProcessType
    <2>5. worker[w].pid = 1 => sent'[w][1].state = "stopped"
                               /\ sent'[w][1].errors = worker'[w].errors
                               /\ sent'[w][1].drops = worker'[w].drops
      BY <2>1, <2>4, ReportAt
    <2> QED BY <2>1, <2>2, <2>3, <2>5, ReportAt DEF Becomes, CleanAt
  <1>10. CASE Feed(w)
    <2>1. Runs(worker[w]) /\ sent' = sent BY <1>10 DEF Feed
    <2> QED BY <1>2, <1>10, <2>1, FeedShape DEF Becomes, CleanAt, Runs
  <1>11. CASE WorkerExits(w)
    <2>1. worker[w].state = "leaving" /\ worker[w].buffer = <<>> /\ sent' = sent
      BY <1>11 DEF WorkerExits
    <2> QED BY <1>2, <1>11, <2>1, ExitsShape DEF Becomes, CleanAt
  <1>12. CASE WorkerDies(w)
    <2>1. worker[w].state = "doomed" /\ sent' = sent BY <1>12 DEF WorkerDies
    <2>2. ~worker[w].clean BY <1>2, <2>1 DEF CleanAt
    <2> QED BY <1>12, <2>1, <2>2, ExitsShape DEF Becomes, CleanAt
  <1>13. CASE WorkerFails(w)
    <2>1. worker[w].state \in {"running", "flushing"} /\ sent' = Report(w, "fatal")
      BY <1>13 DEF WorkerFails
    <2>2. ~worker[w].clean BY <1>2, <2>1 DEF CleanAt
    <2> QED BY <1>13, <2>1, <2>2, FailsShape, ReportAt DEF Becomes, CleanAt
  <1>14. CASE WorkerKilled(w)
    <2>1. sent' = sent BY <1>14 DEF WorkerKilled
    <2> QED BY <1>14, <2>1, KilledShape DEF Becomes, CleanAt
  <1> QED BY <1>3, <1>4, <1>5, <1>6, <1>7, <1>8, <1>9, <1>10, <1>11, <1>13, <1>14, <1>12
          DEF WorkerStep

\* What run() does to the worker processes.
LEMMA SuperviseWorkers ==
    ASSUME Types, Supervise
    PROVE  /\ UNCHANGED sent
           /\ \/ UNCHANGED worker
              \/ /\ next \in Workers /\ Alive(worker[next])
                 /\ \E r \in Terminated(worker[next]) : worker' = [worker EXCEPT ![next] = r]
                 /\ CleanUpWorker \/ (StopWorkers /\ EndWorker)
              \/ /\ next \in Workers
                 /\ SpawnWorker \/ ReplaceWorker
                 /\ worker' = [worker EXCEPT ![next] = Process(worker[next].pid + 1, "starting")]
  <1> USE DEF children
  <1>1. next \in Nat BY DEF Types, ControlType
  <1>2. CASE SpawnWorker
    <2>1. UNCHANGED sent /\ worker' = Spawned(next) BY <1>2 DEF SpawnWorker
    <2>2. next \notin Workers => UNCHANGED worker BY <2>1 DEF Spawned, Types, ChildrenType
    <2> QED BY <1>2, <2>1, <2>2 DEF Spawned
  <1>3. CASE CleanUpWorker
    <2>1. next \in Workers BY <1>1, <1>3, SessionAssumption DEF CleanUpWorker, Workers
    <2> QED BY <1>3, <2>1 DEF CleanUpWorker
  <1>4. CASE CheckChildren
    <2>1. CASE ReplaceWorker
      <3>1. next \in Workers BY <1>1, <2>1, SessionAssumption DEF ReplaceWorker, Workers
      <3> QED BY <1>4, <2>1, <3>1 DEF CheckChildren, ReplaceWorker, Spawned
    <2>2. CASE ~ReplaceWorker
      BY <1>4, <2>2 DEF CheckChildren, CheckWorker, ReplacementFails, CheckPasses, CheckFails
    <2> QED BY <2>1, <2>2
  <1>5. CASE StopWorkers
    <2>1. CASE EndWorker
      <3>1. next \in Workers BY <1>1, <2>1, SessionAssumption DEF EndWorker, Workers
      <3> QED BY <1>5, <2>1, <3>1 DEF StopWorkers, EndWorker
    <2>2. CASE ~EndWorker BY <1>5, <2>2 DEF StopWorkers
    <2> QED BY <2>1, <2>2
  <1>6. CASE StartWriter \/ WriterAcknowledged \/ OpenRing \/ OpenSource \/ StartupFails
             \/ CleanUp \/ CleanUpRaises \/ CleanUpQueues \/ CleanUpWriter
             \/ Read \/ ReadFails \/ LeaveLoop \/ StopRing
    BY <1>6 DEF StartWriter, WriterAcknowledged, OpenRing, OpenSource, StartupFails, CleanUp,
                CleanUpRaises, CleanUpQueues, CleanUpWriter, Read, ReadFails, LeaveLoop, StopRing
  <1>7. CASE ShutdownRaises \/ StopWriter \/ JoinWriter \/ Conclude \/ DeadlinePasses
             \/ \E w \in Workers : SeeReady(w)
    BY <1>7 DEF ShutdownRaises, StopWriter, JoinWriter, Conclude, DeadlinePasses, SeeReady
  <1> QED BY <1>2, <1>3, <1>4, <1>5, <1>6, <1>7 DEF Supervise

\* The supervisor keeps what a clean exit says.
LEMMA SuperviseClean == ASSUME Types, CleanExit, Supervise PROVE CleanExit'
  <1>1. worker \in [Workers -> ProcessType] /\ UNCHANGED sent
    BY SuperviseWorkers DEF Types, ChildrenType
  <1>2. CASE UNCHANGED worker BY <1>1, <1>2 DEF CleanExit
  <1>3. ASSUME \A v \in Workers : v # next => worker'[v] = worker[v],
               CleanAt(worker'[next], sent'[next][1])
        PROVE  CleanExit'
    <2>1. \A v \in Workers : CleanAt(worker'[v], sent'[v][1]) BY <1>1, <1>3, CleanEach
    <2> QED BY <2>1 DEF CleanExit, CleanAt
  <1>4. ASSUME next \in Workers, NEW r \in Terminated(worker[next]),
               worker' = [worker EXCEPT ![next] = r]
        PROVE  CleanExit'
    <2>1. /\ r.state \in {"gone", "doomed"} /\ worker'[next].state = r.state
          /\ worker'[next].clean = FALSE
          /\ \A v \in Workers : v # next => worker'[v] = worker[v]
      BY <1>4, TerminatedShape DEF Becomes
    <2>2. CleanAt(worker'[next], sent'[next][1]) BY <2>1 DEF CleanAt
    <2> QED BY <1>3, <2>1, <2>2
  <1>5. ASSUME next \in Workers,
               worker' = [worker EXCEPT ![next] = Process(worker[next].pid + 1, "starting")]
        PROVE  CleanExit'
    <2>1. /\ worker'[next] = Process(worker[next].pid + 1, "starting")
          /\ \A v \in Workers : v # next => worker'[v] = worker[v]
      BY <1>1, <1>5
    <2>2. CleanAt(worker'[next], sent'[next][1]) BY <2>1 DEF CleanAt, Process
    <2> QED BY <1>3, <2>1, <2>2
  <1>6. CASE /\ next \in Workers
             /\ \E r \in Terminated(worker[next]) : worker' = [worker EXCEPT ![next] = r]
    <2>1. PICK r \in Terminated(worker[next]) : worker' = [worker EXCEPT ![next] = r] BY <1>6
    <2> QED BY <1>4, <1>6, <2>1
  <1>7. \/ UNCHANGED worker
        \/ /\ next \in Workers
           /\ \E r \in Terminated(worker[next]) : worker' = [worker EXCEPT ![next] = r]
        \/ /\ next \in Workers
           /\ worker' = [worker EXCEPT ![next] = Process(worker[next].pid + 1, "starting")]
    BY SuperviseWorkers
  <1> QED BY <1>2, <1>5, <1>6, <1>7

\* An item joins a queue without marker, or is the marker itself.
LEMMA AppendLast ==
    ASSUME NEW S, NEW s \in Seq(S), NEW marker, marker \notin ToSet(s), NEW x
    PROVE  OnlyLast(Append(s, x), marker)
  <1>1. /\ Len(s) \in Nat /\ DOMAIN s = 1 .. Len(s) /\ DOMAIN Append(s, x) = 1 .. Len(s) + 1
        /\ Len(Append(s, x)) = Len(s) + 1
        /\ \A i \in 1 .. Len(s) : Append(s, x)[i] = s[i]
    OBVIOUS
  <1>2. \A i \in 1 .. Len(s) : s[i] # marker BY <1>1 DEF ToSet
  <1>3. \A i \in 1 .. Len(s) + 1 : i \in 1 .. Len(s) \/ i = Len(s) + 1 BY <1>1
  <1> QED BY <1>1, <1>2, <1>3 DEF OnlyLast

\* Taking the first item leaves the marker last; taking the marker leaves nothing.
LEMMA TailLast ==
    ASSUME NEW S, NEW s \in Seq(S), s # <<>>, NEW marker, OnlyLast(s, marker)
    PROVE  OnlyLast(Tail(s), marker) /\ (Head(s) = marker => Tail(s) = <<>>)
  <1> DEFINE n == Len(s)
             t == Tail(s)
  <1>1. /\ n \in Nat \ {0} /\ DOMAIN s = 1 .. n /\ DOMAIN t = 1 .. n - 1
        /\ Len(t) = n - 1 /\ Head(s) = s[1]
        /\ \A i \in 1 .. n - 1 : t[i] = s[i + 1]
        /\ t \in Seq(S)
    OBVIOUS
  <1>2. \A i \in 1 .. n : s[i] = marker => i = n BY <1>1 DEF OnlyLast
  <1> HIDE DEF n, t
  <1>3. Len(t) = 0 => t = <<>>
    <2>1. \A q \in Seq(S) : Len(q) = 0 => q = <<>> OBVIOUS
    <2> QED BY <1>1, <2>1
  <1>4. ASSUME NEW i \in 1 .. n - 1, t[i] = marker PROVE i = n - 1
    <2>1. i \in Nat /\ i + 1 \in 1 .. n BY <1>1
    <2>2. i + 1 = n BY <1>1, <1>2, <1>4, <2>1
    <2> QED BY <1>1, <2>1, <2>2
  <1>5. OnlyLast(t, marker) BY <1>1, <1>4 DEF OnlyLast
  <1>6. ASSUME Head(s) = marker PROVE t = <<>>
    <2>1. 1 \in 1 .. n BY <1>1
    <2>2. 1 = n BY <1>1, <1>2, <1>6, <2>1
    <2> QED BY <1>1, <1>3, <2>2
  <1> QED BY <1>5, <1>6 DEF t

\* A worker feeds no finding behind the marker: it is put when no worker runs, or
\* when nothing was dispatched.
LEMMA WorkerEnds ==
    ASSUME ControlInv, PlaceInv, EndsInv, NEW w \in Workers, WorkerStep(w) PROVE EndsInv'
  <1>1. /\ UNCHANGED <<phase, operationQ, writer, writerSent, durable>>
        /\ \A v \in Workers : worker'[v].pid = worker[v].pid
    BY WorkerStepFrame DEF PlaceInv, control, files
  <1>2. Feed(w) \/ UNCHANGED findingQ
    BY DEF WorkerStep, WorkerReady, WorkerHeartbeat, TakePacket, AnalysePacket, TakeStop,
           EmitHeld, WorkerStops, WorkerExits, WorkerDies, WorkerFails, WorkerKilled
  <1>3. (AllGone => AllGone') /\ (Listed' <=> Listed)
    BY <1>1, RestsStay DEF AllGone, Listed, PlaceInv
  <1>4. CASE UNCHANGED findingQ
    BY <1>1, <1>3, <1>4 DEF EndsInv, FindingsEnd, OperationsEnd, Closed
  <1>5. CASE Feed(w)
    <2>1. /\ worker[w].buffer # <<>> /\ findingQ' = Append(findingQ, Head(worker[w].buffer))
          /\ worker[w].buffer \in Seq(Nat) /\ findingQ \in Seq(Nat)
      BY <1>5 DEF Feed, PlaceInv, Types, ChildrenType, QueuesType, ProcessType
    <2>2. Head(worker[w].buffer) \in ToSet(worker[w].buffer) BY <2>1, TailSet
    <2>3. Head(worker[w].buffer) \in dispatched /\ Head(worker[w].buffer) \in 1 .. captured
      BY <2>2 DEF PlaceInv, Sorted
    <2>4. ~AllGone /\ Listed BY <1>5, <2>3 DEF AllGone, Feed, ControlInv, Told
    <2>5. ~writer.findingsStopped /\ Stop \notin ToSet(findingQ)
      BY <2>4 DEF EndsInv, FindingsEnd
    <2>6. Head(worker[w].buffer) # Stop BY <2>3 DEF Stop
    <2>7. ToSet(findingQ') = ToSet(findingQ) \cup {Head(worker[w].buffer)} BY <2>1, AppendSet
    <2>8. Stop \notin ToSet(findingQ') /\ OnlyLast(findingQ', Stop)
      BY <2>1, <2>5, <2>6, <2>7, AppendLast
    <2> QED BY <1>1, <2>5, <2>8 DEF EndsInv, FindingsEnd, OperationsEnd, Closed
  <1> QED BY <1>2, <1>4, <1>5

\* The writer stops reading a queue at its marker, when nothing is left in it.
LEMMA WriterEnds ==
    ASSUME Types, EndsInv, WriterStep PROVE EndsInv'
  <1>1. /\ writer \in WriterType /\ findingQ \in Seq(Nat) /\ operationQ \in Seq({"record", "stop"})
        /\ UNCHANGED <<phase, worker>>
    BY DEF Types, ChildrenType, QueuesType, WriterStep, control
  <1>2. CASE WriterReady
    BY <1>1, <1>2 DEF WriterReady, files, WriterType, EndsInv, FindingsEnd, OperationsEnd, Closed,
                      AllGone, Listed
  <1>3. CASE WriterHeartbeat
    BY <1>1, <1>3 DEF WriterHeartbeat, files, EndsInv, FindingsEnd, OperationsEnd, Closed, AllGone, Listed
  <1>4. CASE WriteFinding
    <2>1. /\ ~writer.findingsStopped /\ findingQ # <<>> /\ findingQ' = Tail(findingQ)
          /\ UNCHANGED <<writerSent, operationQ, durable>>
          /\ \/ /\ Head(findingQ) = Stop
                /\ writer' = [writer EXCEPT !.findingsStopped = TRUE]
             \/ writer' = writer
      BY <1>4 DEF WriteFinding
    <2>2. OnlyLast(findingQ', Stop) /\ (Head(findingQ) = Stop => findingQ' = <<>>)
      BY <1>1, <2>1, TailLast DEF EndsInv, FindingsEnd
    <2>3. ToSet(findingQ) = {Head(findingQ)} \cup ToSet(findingQ') BY <1>1, <2>1, TailSet
    <2>4. /\ writer'.operationsStopped = writer.operationsStopped
          /\ writer'.findingsStopped => Head(findingQ) = Stop
      BY <1>1, <2>1 DEF WriterType
    <2>5. FindingsEnd' BY <1>1, <2>2, <2>3, <2>4 DEF EndsInv, FindingsEnd, AllGone, Listed
    <2>6. OperationsEnd' BY <1>1, <2>1, <2>4 DEF EndsInv, OperationsEnd
    <2>7. Closed' BY <2>1 DEF EndsInv, Closed
    <2> QED BY <2>5, <2>6, <2>7 DEF EndsInv
  <1>5. CASE WriteOperation
    <2>1. /\ ~writer.operationsStopped /\ operationQ # <<>> /\ operationQ' = Tail(operationQ)
          /\ UNCHANGED <<writerSent, findingQ, durable>>
          /\ writer' = [writer EXCEPT !.operationsStopped = Head(operationQ) = "stop"]
      BY <1>5 DEF WriteOperation
    <2>2. OnlyLast(operationQ', "stop") /\ (Head(operationQ) = "stop" => operationQ' = <<>>)
      BY <1>1, <2>1, TailLast DEF EndsInv, OperationsEnd
    <2>3. ToSet(operationQ) = {Head(operationQ)} \cup ToSet(operationQ') BY <1>1, <2>1, TailSet
    <2>4. /\ writer'.findingsStopped = writer.findingsStopped
          /\ writer'.operationsStopped <=> Head(operationQ) = "stop"
      BY <1>1, <2>1 DEF WriterType
    <2>5. OperationsEnd' BY <1>1, <2>2, <2>3, <2>4 DEF EndsInv, OperationsEnd
    <2>6. FindingsEnd' BY <1>1, <2>1, <2>4 DEF EndsInv, FindingsEnd, AllGone, Listed
    <2>7. Closed' BY <2>1 DEF EndsInv, Closed
    <2> QED BY <2>5, <2>6, <2>7 DEF EndsInv
  <1>6. CASE CloseFiles
    <2>1. /\ writer.findingsStopped /\ writer.operationsStopped /\ durable' = TRUE
          /\ writer' = [writer EXCEPT !.state = "leaving", !.clean = TRUE]
          /\ UNCHANGED <<findingQ, operationQ>>
      BY <1>6 DEF CloseFiles
    <2>2. /\ writer'.findingsStopped = writer.findingsStopped
          /\ writer'.operationsStopped = writer.operationsStopped
      BY <1>1, <2>1 DEF WriterType
    <2> QED BY <1>1, <2>1, <2>2 DEF EndsInv, FindingsEnd, OperationsEnd, Closed, AllGone, Listed
  <1>7. CASE WriterExits \/ WriterDies
    BY <1>1, <1>7 DEF WriterExits, WriterDies, files, WriterType, EndsInv, FindingsEnd, OperationsEnd, Closed,
                      AllGone, Listed
  <1>8. CASE WriterFails
    BY <1>1, <1>8 DEF WriterFails, Killed, files, WriterType, EndsInv, FindingsEnd, OperationsEnd,
                      Closed, AllGone, Listed
  <1> QED BY <1>2, <1>3, <1>4, <1>5, <1>6, <1>7, <1>8 DEF WriterStep

\* run() puts each marker once, behind everything else in its queue.
LEMMA SuperviseEnds ==
    ASSUME ControlInv, EndsInv, Supervise PROVE EndsInv'
  <1> USE DEF Goto, queues, children, files
  <1>1. /\ writer \in WriterType /\ findingQ \in Seq(Nat) /\ operationQ \in Seq({"record", "stop"})
        /\ OnlyLast(findingQ, Stop) /\ OnlyLast(operationQ, "stop")
        /\ FindingsEnd /\ OperationsEnd /\ Closed
    BY DEF ControlInv, Types, ChildrenType, QueuesType, EndsInv, FindingsEnd, OperationsEnd
  <1>2. ASSUME phase \notin {"cleanupWriter", "stopOperations", "joinWriter", "verdict", "ended"},
               UNCHANGED <<findingQ, operationQ, writerSent, durable>>,
               UNCHANGED <<writer.findingsStopped, writer.operationsStopped>>
        PROVE  EndsInv'
    BY <1>1, <1>2 DEF EndsInv, FindingsEnd, OperationsEnd, Closed
  <1>3. CASE StartWriter BY <1>1, <1>2, <1>3 DEF StartWriter, WriterType
  <1>4. CASE WriterAcknowledged \/ SpawnWorker \/ CleanUpRaises
    BY <1>2, <1>4 DEF WriterAcknowledged, SpawnWorker, CleanUpRaises
  <1>5. ASSUME NEW w \in Workers, SeeReady(w) PROVE EndsInv' BY <1>2, <1>5 DEF SeeReady
  <1>6. CASE OpenRing \/ OpenSource \/ StartupFails
    <2>1. phase \in {"start", "startWorkers", "openRing", "openSource", "awaitWriter",
                    "awaitWorkers"}
      BY <1>6 DEF OpenRing, OpenSource, StartupFails
    <2> QED BY <1>2, <1>6, <2>1 DEF OpenRing, OpenSource, StartupFails
  <1>7. CASE CleanUp \/ CleanUpWorker BY <1>2, <1>7 DEF CleanUp, CleanUpWorker
  <1>8. CASE CleanUpQueues
    <2>1. /\ phase = "cleanupWorkers" /\ phase' = "cleanupWriter"
          /\ Listed => next = NumWorkers
          /\ findingQ' = Append(findingQ, Stop) /\ operationQ' \in {operationQ, Append(operationQ, "stop")}
          /\ UNCHANGED <<worker, writer, writerSent, durable>>
      BY <1>8 DEF CleanUpQueues
    <2>2. (AllGone \/ ~Listed)'
      <3>1. \A w \in Workers : w < NumWorkers BY SessionAssumption DEF Workers
      <3>2. Listed => AllGone BY <2>1, <3>1 DEF ControlInv, Reaped, AllGone
      <3> QED BY <2>1, <3>2 DEF AllGone, Listed
    <2>3. /\ Stop \notin ToSet(findingQ) /\ ~writer.findingsStopped
          /\ "stop" \notin ToSet(operationQ) /\ ~writer.operationsStopped
      BY <1>1, <2>1 DEF FindingsEnd, OperationsEnd
    <2>4. OnlyLast(findingQ', Stop) BY <1>1, <2>1, <2>3, AppendLast
    <2>5. OnlyLast(operationQ', "stop")
      <3>1. OnlyLast(Append(operationQ, "stop"), "stop") BY <1>1, <2>3, AppendLast
      <3> QED BY <1>1, <2>1, <3>1
    <2> QED BY <1>1, <2>1, <2>2, <2>3, <2>4, <2>5 DEF EndsInv, FindingsEnd, OperationsEnd, Closed
  <1>9. ASSUME phase' \in {"joinWriter", "verdict", "ended"},
               phase' = "joinWriter" => phase = "joinWriter",
               UNCHANGED <<worker, findingQ, operationQ, writerSent, durable>>,
               UNCHANGED <<writer.findingsStopped, writer.operationsStopped>>
        PROVE  EndsInv'
    BY <1>1, <1>9 DEF EndsInv, FindingsEnd, OperationsEnd, Closed, AllGone, Listed
  <1>10. CASE CleanUpWriter
    <2>1. UNCHANGED <<writer.findingsStopped, writer.operationsStopped>>
      BY <1>10, WriterTerminated DEF CleanUpWriter, ControlInv
    <2> QED BY <1>9, <1>10, <2>1 DEF CleanUpWriter
  <1>11. CASE Read \/ ReadFails \/ LeaveLoop
    BY <1>2, <1>11 DEF Read, ReadFails, Raise, LeaveLoop
  <1>12. CASE CheckChildren
    <2>1. phase \in {"check", "checkWorkers", "awaitReplacement"}
      BY <1>12 DEF CheckChildren, CheckWriter, CheckWorker, ReplaceWorker, ReplacementFails,
                   CheckPasses, CheckFails
    <2> QED BY <1>2, <1>12, <2>1 DEF CheckChildren
  <1>13. CASE StopRing \/ ShutdownRaises BY <1>2, <1>13 DEF StopRing, ShutdownRaises
  <1>14. CASE StopWorkers
    <2>1. phase \in {"stopWorkers", "drain", "endWorkers"}
      BY <1>14 DEF StopWorkers, StopWorker, DrainWorkers, EndWorker, Reconcile
    <2> QED BY <1>2, <1>14, <2>1 DEF StopWorkers
  <1>15. CASE StopWriter
    <2>1. UNCHANGED <<worker, writer, writerSent, durable>> BY <1>15 DEF StopWriter
    <2>2. CASE phase = "stopRecord"
      <3>1. /\ phase' = "stopFindings" /\ UNCHANGED findingQ
            /\ operationQ' = operationQ \/ operationQ' = Append(operationQ, "record")
        BY <1>15, <2>2 DEF StopWriter, Accepted, PutOperation
      <3>2. /\ Stop \notin ToSet(findingQ) /\ ~writer.findingsStopped
            /\ "stop" \notin ToSet(operationQ) /\ ~writer.operationsStopped
        BY <1>1, <2>2 DEF FindingsEnd, OperationsEnd
      <3>3. ToSet(Append(operationQ, "record")) = ToSet(operationQ) \cup {"record"}
        BY <1>1, AppendSet
      <3>4. OnlyLast(operationQ', "stop") /\ "stop" \notin ToSet(operationQ')
        <4>1. OnlyLast(Append(operationQ, "record"), "stop") BY <1>1, <3>2, AppendLast
        <4>2. "record" # "stop" OBVIOUS
        <4>3. CASE operationQ' = operationQ BY <1>1, <3>2, <4>3
        <4>4. CASE operationQ' = Append(operationQ, "record") BY <3>2, <3>3, <4>1, <4>2, <4>4
        <4> QED BY <3>1, <4>3, <4>4
      <3> QED BY <1>1, <2>1, <3>1, <3>2, <3>4 DEF EndsInv, FindingsEnd, OperationsEnd, Closed
    <2>3. CASE phase = "stopFindings"
      <3>1. /\ phase' = "stopOperations" /\ UNCHANGED operationQ
            /\ findingQ' = findingQ \/ findingQ' = Append(findingQ, Stop)
        BY <1>15, <2>3 DEF StopWriter, Accepted, PutFindingStop
      <3>2. /\ Stop \notin ToSet(findingQ) /\ ~writer.findingsStopped
            /\ "stop" \notin ToSet(operationQ) /\ ~writer.operationsStopped
        BY <1>1, <2>3 DEF FindingsEnd, OperationsEnd
      <3>3. OnlyLast(findingQ', Stop)
        <4>1. OnlyLast(Append(findingQ, Stop), Stop) BY <1>1, <3>2, AppendLast
        <4> QED BY <1>1, <3>1, <4>1
      <3>4. AllGone' BY <2>1, <2>3 DEF ControlInv, Reaped, Closing, AllGone
      <3> QED BY <1>1, <2>1, <3>1, <3>2, <3>3, <3>4 DEF EndsInv, FindingsEnd, OperationsEnd, Closed
    <2>4. CASE phase = "stopOperations"
      <3>1. /\ phase' = "joinWriter" /\ UNCHANGED findingQ
            /\ operationQ' = operationQ \/ operationQ' = Append(operationQ, "stop")
        BY <1>15, <2>4 DEF StopWriter, Accepted, PutOperation
      <3>2. "stop" \notin ToSet(operationQ) /\ ~writer.operationsStopped
        BY <1>1, <2>4 DEF OperationsEnd
      <3>3. OnlyLast(operationQ', "stop")
        <4>1. OnlyLast(Append(operationQ, "stop"), "stop") BY <1>1, <3>2, AppendLast
        <4> QED BY <1>1, <3>1, <4>1
      <3>4. AllGone' BY <2>1, <2>4 DEF ControlInv, Reaped, Closing, AllGone
      <3> QED BY <1>1, <2>1, <3>1, <3>2, <3>3, <3>4 DEF EndsInv, FindingsEnd, OperationsEnd, Closed
    <2> QED BY <1>15, <2>2, <2>3, <2>4 DEF StopWriter
  <1>16. CASE JoinWriter
    <2>1. UNCHANGED <<writer.findingsStopped, writer.operationsStopped>>
      BY <1>16, WriterTerminated DEF JoinWriter, ControlInv
    <2> QED BY <1>9, <1>16, <2>1 DEF JoinWriter
  <1>17. CASE Conclude
    <2>1. /\ phase' = "ended" /\ UNCHANGED <<worker, findingQ, operationQ, writerSent, durable, writer>>
      BY <1>17 DEF Conclude
    <2> QED BY <1>9, <2>1
  <1>18. CASE DeadlinePasses
    <2>1. UNCHANGED <<phase, worker, findingQ, operationQ, writerSent, durable, writer>>
      BY <1>18 DEF DeadlinePasses
    <2> QED BY <1>1, <2>1 DEF EndsInv, FindingsEnd, OperationsEnd, Closed, AllGone, Listed
  <1> QED
    BY <1>3, <1>4, <1>5, <1>6, <1>7, <1>8, <1>10, <1>11, <1>12, <1>13, <1>14, <1>15, <1>16, <1>17, <1>18
    DEF Supervise
-----------------------------------------------------------------------------
(***************************************************************************)
(* While nothing is marked, nothing is missing                             *)
(***************************************************************************)

\* An error counted or an exit without report is not undone by a worker.
LEMMA FlawStays ==
    ASSUME Types, NEW w \in Workers, WorkerStep(w), Flawed PROVE Flawed'
  <1>1. /\ worker[w] \in ProcessType
        /\ \A v \in Workers : v # w => worker'[v] = worker[v]
    BY WorkerStepFrame DEF Types, ChildrenType
  <1>2. worker[w].errors \in Nat BY <1>1 DEF ProcessType
  <1> SUFFICES /\ worker[w].errors > 0 => worker'[w].errors > 0
               /\ Failed(w) => Failed(w)'
    <2>1. PICK v \in Workers : worker[v].errors > 0 \/ Failed(v) BY DEF Flawed
    <2>2. worker'[v].errors > 0 \/ Failed(v)' BY <1>1, <2>1 DEF Failed
    <2> QED BY <2>2 DEF Flawed
  <1>3. CASE WorkerReady(w) BY <1>1, <1>3, ReadyShape DEF WorkerReady, Becomes, Failed
  <1>4. CASE WorkerHeartbeat(w)
    <2>1. worker[w].state = "running" BY <1>4 DEF WorkerHeartbeat
    <2> QED BY <1>4, <2>1, HeartbeatShape DEF Becomes, Failed
  <1>5. CASE TakePacket(w) BY <1>5, TakePacketShape DEF TakePacket, Becomes, Failed
  <1>6. CASE AnalysePacket(w)
    <2>1. worker[w].state = "running" BY <1>6 DEF AnalysePacket
    <2>2. worker'[w].errors \in {worker[w].errors, worker[w].errors + 1}
      BY <1>6, AnalyseShape DEF Becomes
    <2> QED BY <1>2, <2>1, <2>2 DEF Failed
  <1>7. CASE TakeStop(w) BY <1>7, TakeStopShape DEF TakeStop, Becomes, Failed
  <1>8. CASE EmitHeld(w)
    <2>1. worker[w].state \in {"running", "flushing"} BY <1>8 DEF EmitHeld
    <2> QED BY <1>8, <2>1, EmitShape DEF Becomes, Failed
  <1>9. CASE WorkerStops(w) BY <1>9, StopsShape DEF WorkerStops, Becomes, Failed
  <1>10. CASE Feed(w) BY <1>10, FeedShape DEF Becomes, Failed
  <1>11. CASE WorkerExits(w) \/ WorkerDies(w) BY <1>11, ExitsShape DEF Becomes, Failed
  <1>12. CASE WorkerFails(w) BY <1>12, FailsShape DEF WorkerFails, Becomes, Failed
  <1>13. CASE WorkerKilled(w) BY <1>13, KilledShape DEF Becomes, Failed
  <1> QED BY <1>3, <1>4, <1>5, <1>6, <1>7, <1>8, <1>9, <1>10, <1>11, <1>12, <1>13
          DEF WorkerStep

\* A packet that leaves the inbox or the hand of a worker is analysed, or the worker
\* is flawed; a finding that leaves it is in the pipe.
LEMMA WorkerConserved ==
    ASSUME PlaceInv, CleanExit, Conserved, NEW w \in Workers, WorkerStep(w)
    PROVE  Conserved'
  <1>1. /\ \A v \in Workers : v # w => worker'[v] = worker[v]
        /\ UNCHANGED <<dispatched, file>> /\ Types
    BY WorkerStepFrame DEF PlaceInv, counters, files
  <1>2. /\ inbox \in [Workers -> Seq(Nat)] /\ inbox[w] \in Seq(Nat) /\ findingQ \in Seq(Nat)
        /\ worker[w].held \in Seq(Nat) /\ worker[w].buffer \in Seq(Nat) /\ worker[w].hand \in Nat
        /\ worker[w].errors \in Nat
    BY DEF PlaceInv, Types, ChildrenType, QueuesType, ProcessType
  <1>3. CASE Flawed' BY <1>3 DEF Conserved
  <1>4. CASE ~Flawed'
    <2>1. /\ ~Flawed /\ \A p \in dispatched : p # 0
      BY <1>1, <1>4, FlawStays DEF PlaceInv, Sorted
    <2>2. CleanAt(worker[w], sent[w][1]) BY CleanEach
    <2>3. worker'[w].errors = 0 \/ ~(worker'[w].errors > 0) BY <1>4 DEF Flawed
    <2>4. ~Failed(w)' BY <1>4 DEF Flawed
    <2>5. SUFFICES
            /\ \A v \in Workers : v # w => inbox'[v] = inbox[v]
            /\ analysed \subseteq analysed'
            /\ \A p \in dispatched : p \in ToSet(inbox[w]) \/ p = worker[w].hand =>
                  p \in analysed' \/ p \in ToSet(inbox'[w]) \/ p = worker'[w].hand
            /\ \A p \in found' : p \notin found => p \in ToSet(worker'[w].held) \cup ToSet(worker'[w].buffer)
            /\ ToSet(worker[w].held) \cup ToSet(worker[w].buffer) \cup ToSet(findingQ)
                  \subseteq ToSet(worker'[w].held) \cup ToSet(worker'[w].buffer) \cup ToSet(findingQ')
      <3>1. ASSUME NEW p \in dispatched
            PROVE  p \in analysed' \/ \E v \in Workers : p \in ToSet(inbox'[v]) \/ p = worker'[v].hand
        <4>1. CASE p \in analysed BY <2>5, <4>1
        <4>2. CASE p \notin analysed
          <5>1. PICK v \in Workers : p \in ToSet(inbox[v]) \/ p = worker[v].hand
            BY <2>1, <4>2 DEF Conserved
          <5>2. CASE v = w BY <2>5, <5>1, <5>2
          <5>3. CASE v # w BY <1>1, <2>5, <5>1, <5>3
          <5> QED BY <5>2, <5>3
        <4> QED BY <4>1, <4>2
      <3>2. ASSUME NEW p \in found'
            PROVE  \/ p \in ToSet(findingQ') \/ p \in ToSet(file')
                   \/ \E v \in Workers : p \in ToSet(worker'[v].held) \/ p \in ToSet(worker'[v].buffer)
        <4>1. CASE p \notin found BY <2>5, <4>1
        <4>2. CASE p \in found
          <5>1. \/ p \in ToSet(findingQ) \/ p \in ToSet(file)
                \/ \E v \in Workers : p \in ToSet(worker[v].held) \/ p \in ToSet(worker[v].buffer)
            BY <2>1, <4>2 DEF Conserved
          <5>2. CASE p \in ToSet(findingQ) BY <2>5, <5>2
          <5>3. CASE p \in ToSet(file) BY <1>1, <5>3
          <5>4. ASSUME NEW v \in Workers, p \in ToSet(worker[v].held) \/ p \in ToSet(worker[v].buffer)
                PROVE  \/ p \in ToSet(findingQ')
                       \/ \E u \in Workers : p \in ToSet(worker'[u].held) \/ p \in ToSet(worker'[u].buffer)
            <6>1. CASE v = w BY <2>5, <5>4, <6>1
            <6>2. CASE v # w BY <1>1, <5>4, <6>2
            <6> QED BY <6>1, <6>2
          <5> QED BY <5>1, <5>2, <5>3, <5>4
        <4> QED BY <4>1, <4>2
      <3> QED BY <1>1, <3>1, <3>2 DEF Conserved
    <2>6. CASE WorkerReady(w)
      BY <1>1, <2>6, ReadyShape DEF WorkerReady, Becomes, ghosts
    <2>7. CASE WorkerHeartbeat(w)
      <3>1. UNCHANGED <<inbox, findingQ, analysed, found>> BY <2>7 DEF WorkerHeartbeat, ghosts
      <3> QED BY <1>1, <2>7, <3>1, HeartbeatShape DEF Becomes
    <2>8. CASE TakePacket(w)
      <3>1. /\ inbox[w] # <<>> /\ worker[w].hand = None
            /\ inbox' = [inbox EXCEPT ![w] = Tail(@)] /\ UNCHANGED <<findingQ, analysed, found>>
        BY <2>8 DEF TakePacket, ghosts
      <3>2. ToSet(inbox[w]) = {Head(inbox[w])} \cup ToSet(Tail(inbox[w])) BY <1>2, <3>1, TailSet
      <3>3. inbox'[w] = Tail(inbox[w]) /\ \A v \in Workers : v # w => inbox'[v] = inbox[v]
        BY <1>2, <3>1
      <3>4. /\ worker'[w].hand = Head(inbox[w]) /\ worker'[w].held = worker[w].held
            /\ worker'[w].buffer = worker[w].buffer
        BY <1>1, <2>8, TakePacketShape DEF Becomes
      <3> QED BY <2>1, <3>1, <3>2, <3>3, <3>4 DEF None
    <2>9. CASE AnalysePacket(w)
      <3>1. UNCHANGED <<inbox, findingQ>> BY <2>9 DEF AnalysePacket
      <3> DEFINE x == worker[w].hand
      <3>2. /\ ToSet(Append(worker[w].held, x)) = ToSet(worker[w].held) \cup {x}
            /\ ToSet(Append(worker[w].buffer, x)) = ToSet(worker[w].buffer) \cup {x}
        BY <1>2, AppendSet
      <3>3. ~(worker[w].errors + 1 = worker'[w].errors) BY <1>2, <2>3
      <3>4. /\ analysed' = analysed \cup {x}
            /\ \/ found' = found /\ UNCHANGED <<worker[w].held, worker[w].buffer>>
               \/ /\ found' = found \cup {x} /\ worker'[w].held = worker[w].held
                  /\ worker'[w].buffer = Append(worker[w].buffer, x)
               \/ /\ found' = found \cup {x} /\ worker'[w].buffer = worker[w].buffer
                  /\ worker'[w].held = Append(worker[w].held, x)
        BY <1>1, <2>9, <3>3, AnalyseShape DEF Becomes
      <3> HIDE DEF x
      <3>5. ToSet(worker[w].held) \subseteq ToSet(worker'[w].held) /\ ToSet(worker[w].buffer) \subseteq ToSet(worker'[w].buffer)
        BY <3>2, <3>4
      <3>6. \A p \in found' : p \notin found => p \in ToSet(worker'[w].held) \cup ToSet(worker'[w].buffer)
        BY <3>2, <3>4
      <3> QED BY <3>1, <3>4, <3>5, <3>6 DEF x
    <2>10. CASE TakeStop(w)
      <3>1. /\ inbox[w] # <<>> /\ Head(inbox[w]) = Stop
            /\ inbox' = [inbox EXCEPT ![w] = Tail(@)] /\ UNCHANGED <<findingQ, analysed, found>>
        BY <2>10 DEF TakeStop, ghosts
      <3>2. ToSet(inbox[w]) = {Head(inbox[w])} \cup ToSet(Tail(inbox[w])) BY <1>2, <3>1, TailSet
      <3>3. inbox'[w] = Tail(inbox[w]) /\ \A v \in Workers : v # w => inbox'[v] = inbox[v]
        BY <1>2, <3>1
      <3>4. /\ worker'[w].hand = worker[w].hand /\ worker'[w].held = worker[w].held
            /\ worker'[w].buffer = worker[w].buffer
        BY <1>1, <2>10, TakeStopShape DEF Becomes
      <3> QED BY <2>1, <3>1, <3>2, <3>3, <3>4 DEF Stop
    <2>11. CASE EmitHeld(w)
      <3>1. worker[w].held # <<>> /\ UNCHANGED <<inbox, findingQ, analysed, found>>
        BY <2>11 DEF EmitHeld, ghosts
      <3>2. ToSet(worker[w].held) = {Head(worker[w].held)} \cup ToSet(Tail(worker[w].held))
        BY <1>2, <3>1, TailSet
      <3>3. ToSet(Append(worker[w].buffer, Head(worker[w].held)))
              = ToSet(worker[w].buffer) \cup {Head(worker[w].held)}
        BY <1>2, AppendSet
      <3>4. /\ worker'[w].hand = worker[w].hand /\ worker'[w].held = Tail(worker[w].held)
            /\ worker'[w].buffer = Append(worker[w].buffer, Head(worker[w].held))
        BY <1>1, <2>11, EmitShape DEF Becomes
      <3> QED BY <3>1, <3>2, <3>3, <3>4
    <2>12. CASE WorkerStops(w)
      BY <1>1, <2>12, StopsShape DEF WorkerStops, Becomes, ghosts
    <2>13. CASE Feed(w)
      <3>1. /\ worker[w].buffer # <<>> /\ UNCHANGED <<inbox, analysed, found>>
            /\ findingQ' = Append(findingQ, Head(worker[w].buffer))
        BY <2>13 DEF Feed, ghosts
      <3>2. ToSet(worker[w].buffer) = {Head(worker[w].buffer)} \cup ToSet(Tail(worker[w].buffer))
        BY <1>2, <3>1, TailSet
      <3>3. ToSet(findingQ') = ToSet(findingQ) \cup {Head(worker[w].buffer)}
        BY <1>2, <3>1, AppendSet
      <3>4. /\ worker'[w].hand = worker[w].hand /\ worker'[w].held = worker[w].held
            /\ worker'[w].buffer = Tail(worker[w].buffer)
        BY <1>1, <2>13, FeedShape DEF Becomes
      <3> QED BY <3>1, <3>2, <3>3, <3>4
    <2>14. CASE WorkerExits(w) \/ WorkerDies(w)
      <3>1. UNCHANGED <<inbox, findingQ, analysed, found>>
        BY <2>14 DEF WorkerExits, WorkerDies, ghosts
      <3> QED BY <1>1, <2>14, <3>1, ExitsShape DEF Becomes
    <2>15. CASE WorkerFails(w)
      <3>1. worker[w].state \in {"running", "flushing"} BY <2>15 DEF WorkerFails
      <3>2. ~worker[w].clean BY <2>2, <3>1 DEF CleanAt
      <3> QED BY <1>1, <2>4, <2>15, <3>2, FailsShape DEF Becomes, Failed
    <2>16. CASE WorkerKilled(w)
      BY <1>1, <2>4, <2>16, KilledShape DEF Becomes, Failed
    <2> QED BY <2>6, <2>7, <2>8, <2>9, <2>10, <2>11, <2>12, <2>13, <2>14, <2>15, <2>16
            DEF WorkerStep
  <1> QED BY <1>3, <1>4

\* A worker that exited cleanly takes no step.
LEMMA GoneRests ==
    ASSUME Types, CleanExit, NEW w \in Workers, worker[w].clean, ~Runs(worker[w])
    PROVE  ~WorkerStep(w)
  <1>1. worker[w].state \in {"leaving", "gone"} BY DEF CleanExit
  <1>2. worker[w].state = "gone" BY <1>1 DEF Runs
  <1> QED BY <1>2, WorkerStepFrame

\* What a worker does while nothing is marked.
LEMMA WorkerUnmarked ==
    ASSUME ControlInv, PlaceInv, CleanExit, Unmarked, NEW w \in Workers, WorkerStep(w)
    PROVE  Unmarked'
  <1>1. /\ worker'[w].pid = worker[w].pid
        /\ \A v \in Workers : v # w => worker'[v] = worker[v]
        /\ UNCHANGED <<phase, next, incomplete>>
    BY WorkerStepFrame DEF PlaceInv, control
  <1> SUFFICES ASSUME ~incomplete
               PROVE  /\ \A v \in Workers : worker'[v].pid <= 1
                      /\ Conserved'
                      /\ phase = "endWorkers" => \A v \in Workers : v < next => worker'[v].clean
                      /\ phase \notin Closing
    BY <1>1 DEF Unmarked
  <1>2. ~worker[w].clean \/ Runs(worker[w]) BY GoneRests DEF PlaceInv
  <1>3. phase \notin Closing
    BY <1>2 DEF ControlInv, Reaped, AllGone, Unmarked, Settled, Undropped
  <1>4. Conserved' BY WorkerConserved DEF Unmarked
  <1>5. \A v \in Workers : worker'[v].pid <= 1 BY <1>1 DEF Unmarked
  <1>6. ASSUME phase = "endWorkers", NEW v \in Workers, v < next PROVE worker'[v].clean
    <2>1. worker[v].clean /\ ~Runs(worker[v]) BY <1>6 DEF ControlInv, Reaped, Unmarked
    <2> QED BY <1>1, <1>2, <2>1
  <1> QED BY <1>3, <1>4, <1>5, <1>6

\* The writer moves findings to the file and the stop record to its own.
LEMMA WriterUnmarked ==
    ASSUME PlaceInv, Unmarked, WriterStep PROVE Unmarked'
  <1>1. UNCHANGED <<phase, next, incomplete, captured, dispatched, ignored, analysed, found, inbox, worker,
                    lostEvents>>
    BY DEF WriterStep, control, counters, ghosts
  <1>2. /\ findingQ \in Seq(Nat) /\ file \in Seq(Nat) /\ operationQ \in Seq({"record", "stop"})
    BY DEF PlaceInv, Types, QueuesType
  <1>3. \A p \in found : p # Stop BY DEF PlaceInv, Sorted, Stop
  <1>4. \A p \in found : p \in ToSet(findingQ) \cup ToSet(file) => p \in ToSet(findingQ') \cup ToSet(file')
    <2>1. CASE WriteFinding
      <3>1. findingQ # <<>> /\ findingQ' = Tail(findingQ)
            /\ \/ Head(findingQ) = Stop /\ UNCHANGED file
               \/ file' = Append(file, Head(findingQ))
        BY <2>1 DEF WriteFinding
      <3>2. ToSet(findingQ) = {Head(findingQ)} \cup ToSet(findingQ') BY <1>2, <3>1, TailSet
      <3>3. ToSet(Append(file, Head(findingQ))) = ToSet(file) \cup {Head(findingQ)} BY <1>2, AppendSet
      <3>4. CASE file' = Append(file, Head(findingQ)) BY <3>2, <3>3, <3>4
      <3>5. CASE Head(findingQ) = Stop /\ file' = file BY <1>3, <3>2, <3>5
      <3> QED BY <3>1, <3>4, <3>5
    <2>2. CASE ~WriteFinding
      BY <2>2 DEF WriterStep, WriterReady, WriterHeartbeat, WriteOperation, CloseFiles, WriterExits,
                  WriterDies, WriterFails, files
    <2> QED BY <2>1, <2>2
  <1>5. recorded \/ "record" \in ToSet(operationQ) => recorded' \/ "record" \in ToSet(operationQ')
    <2>1. CASE WriteOperation
      <3>1. /\ operationQ # <<>> /\ operationQ' = Tail(operationQ)
            /\ recorded' = (recorded \/ Head(operationQ) = "record")
        BY <2>1 DEF WriteOperation
      <3>2. ToSet(operationQ) = {Head(operationQ)} \cup ToSet(operationQ') BY <1>2, <3>1, TailSet
      <3> QED BY <3>1, <3>2
    <2>2. CASE ~WriteOperation
      BY <2>2 DEF WriterStep, WriterReady, WriterHeartbeat, WriteFinding, CloseFiles, WriterExits,
                  WriterDies, WriterFails, files
    <2> QED BY <2>1, <2>2
  <1>6. Conserved => Conserved' BY <1>1, <1>4 DEF Conserved, Flawed, Failed
  <1>7. Settled => Settled' BY <1>1, <1>4 DEF Settled, Undropped
  <1> QED BY <1>1, <1>5, <1>6, <1>7 DEF Unmarked

\* run() counts a packet before it decides where it goes.
LEMMA SuperviseCounted ==
    ASSUME Types, Counted, Supervise PROVE Counted'
  <1> USE DEF counters
  <1>1. captured \in Nat /\ MaxPackets \in Nat BY SessionAssumption DEF Types
  <1>2. CASE UNCHANGED <<captured, dispatched, ignored>> BY <1>2 DEF Counted
  <1>3. ASSUME captured < MaxPackets, captured' = captured + 1,
               \/ UNCHANGED <<dispatched, ignored>>
               \/ dispatched' = dispatched \cup {captured'} /\ UNCHANGED ignored
               \/ ignored' = ignored \cup {captured'} /\ UNCHANGED dispatched
        PROVE  Counted'
    <2>1. captured' \in Nat /\ captured' <= MaxPackets /\ captured' \notin 1 .. captured
          /\ 1 .. captured' = (1 .. captured) \cup {captured'}
      BY <1>1, <1>3
    <2> QED BY <1>3, <2>1 DEF Counted
  <1>4. CASE Read
    <2>1. CASE UNCHANGED counters BY <1>2, <2>1
    <2>2. CASE ~UNCHANGED counters BY <1>3, <1>4, <2>2 DEF Read
    <2> QED BY <2>1, <2>2
  <1>5. CASE ReadFails BY <1>2, <1>3, <1>5 DEF ReadFails
  <1>6. CASE StartWriter \/ WriterAcknowledged \/ SpawnWorker \/ OpenRing \/ OpenSource
             \/ StartupFails \/ CleanUp \/ CleanUpRaises \/ CleanUpWorker \/ CleanUpQueues
             \/ CleanUpWriter \/ LeaveLoop \/ CheckChildren
    BY <1>2, <1>6 DEF StartWriter, WriterAcknowledged, SpawnWorker, OpenRing, OpenSource,
                      StartupFails, CleanUp, CleanUpRaises, CleanUpWorker, CleanUpQueues,
                      CleanUpWriter, LeaveLoop, CheckChildren
  <1>7. CASE StopRing \/ ShutdownRaises \/ StopWorkers \/ StopWriter \/ JoinWriter \/ Conclude
             \/ DeadlinePasses \/ \E w \in Workers : SeeReady(w)
    BY <1>2, <1>7 DEF StopRing, ShutdownRaises, StopWorkers, StopWriter, JoinWriter, Conclude,
                      DeadlinePasses, SeeReady
  <1> QED BY <1>4, <1>5, <1>6, <1>7 DEF Supervise

\* A total of zero leaves no worker with an error.
LEMMA NoErrors ==
    ASSUME Types, Total("errors") = 0, NEW w \in Workers PROVE sent[w][1].errors = 0
  <1> DEFINE S == Workers \X Pids
             f == [wp \in S |-> sent[wp[1]][wp[2]].errors]
  <1>1. sent \in [Workers -> [Pids -> ReportType]] BY DEF Types, ChildrenType
  <1>2. IsFiniteSet(Workers) /\ IsFiniteSet(Pids)
    <2>1. {0, 1, NumWorkers - 1, MaxDeaths + 1} \subseteq Int BY SessionAssumption
    <2>2. IsFiniteSet(0 .. NumWorkers - 1) /\ IsFiniteSet(1 .. MaxDeaths + 1)
      BY <2>1, FS_Interval
    <2> QED BY <2>2 DEF Workers, Pids
  <1>3. IsFiniteSet(S) BY <1>2, FS_Product
  <1>4. \A wp \in S : f[wp] \in Nat
    <2> SUFFICES ASSUME NEW wp \in S PROVE f[wp] \in Nat OBVIOUS
    <2>1. wp[1] \in Workers /\ wp[2] \in Pids OBVIOUS
    <2>2. sent[wp[1]][wp[2]] \in ReportType BY <1>1, <2>1
    <2> QED BY <2>2 DEF ReportType
  <1>5. 1 \in Pids BY SessionAssumption DEF Pids
  <1>6. <<w, 1>> \in S /\ f[<<w, 1>>] = sent[w][1].errors BY <1>5
  <1>7. Total("errors") = SumFunctionOnSet(f, S)
    <2>1. DOMAIN f = S OBVIOUS
    <2>2. Total("errors") = SumFunction(f) BY DEF Total
    <2> HIDE DEF f, S
    <2> QED BY <2>1, <2>2 DEF SumFunction, SumFunctionOnSet, FoldFunction
  <1> HIDE DEF f, S
  <1>8. Natural(f, S) BY <1>3, <1>4 DEF Natural
  <1>9. f[<<w, 1>>] <= SumFunctionOnSet(f, S) BY <1>6, <1>8, SumMember
  <1>10. f[<<w, 1>>] \in Nat BY <1>4, <1>6
  <1> QED BY <1>6, <1>7, <1>9, <1>10

\* Counts that add up leave no captured packet out.
LEMMA CountsCover ==
    ASSUME Types, Counted, lost = {},
           Cardinality(dispatched) + Cardinality(lost) + Cardinality(ignored) = captured
    PROVE  dispatched = (1 .. captured) \ ignored
  <1> DEFINE C == 1 .. captured
             D == dispatched
             I == ignored
  <1>1. captured \in Nat BY DEF Types
  <1>2. IsFiniteSet(C) /\ Cardinality(C) = captured BY <1>1, FS_Interval
  <1>3. D \subseteq C /\ I \subseteq C /\ D \cap I = {} BY DEF Counted
  <1>4. Cardinality(D) + Cardinality({}) + Cardinality(I) = captured OBVIOUS
  <1> HIDE DEF C, D, I
  <1>5. IsFiniteSet(D) /\ IsFiniteSet(I) BY <1>2, <1>3, FS_Subset
  <1>6. Cardinality(D) \in Nat /\ Cardinality(I) \in Nat BY <1>5, FS_CardinalityType
  <1>7. Cardinality({}) = 0 BY FS_EmptySet
  <1>8. Cardinality(D \cup I) = Cardinality(D) + Cardinality(I)
    <2>1. Cardinality(D \cup I) = Cardinality(D) + Cardinality(I) - Cardinality(D \cap I)
      BY <1>5, FS_Union
    <2>2. Cardinality(D \cap I) = 0 BY <1>3, <1>7
    <2> QED BY <1>6, <2>1, <2>2
  <1>9. Cardinality(D \cup I) = Cardinality(C) BY <1>2, <1>4, <1>6, <1>7, <1>8
  <1>10. D \cup I \in SUBSET C BY <1>3
  <1>11. C = D \cup I BY <1>2, <1>9, <1>10, FS_Subset
  <1>12. D = C \ I BY <1>3, <1>11
  <1> QED BY <1>12 DEF C, D, I

\* When every worker exited cleanly and the reports reconcile, every packet is
\* analysed and every finding has reached the pipe.
LEMMA ReconcileSettles ==
    ASSUME ControlInv, PlaceInv, Counted, CleanExit, Unmarked, ~incomplete,
           phase = "endWorkers", next = NumWorkers, Reconciles
    PROVE  Settled
  <1>1. ASSUME NEW w \in Workers
        PROVE  /\ ~Runs(worker[w]) /\ worker[w].clean /\ worker[w].pid = 1
               /\ worker[w].errors = 0 /\ ~worker[w].drops
    <2>1. w < NumWorkers BY SessionAssumption DEF Workers
    <2>2. ~Runs(worker[w]) /\ worker[w].clean BY <2>1 DEF ControlInv, Reaped, Unmarked
    <2>3. worker[w].pid \in Nat BY DEF PlaceInv, Types, ChildrenType, ProcessType
    <2>4. worker[w].pid > 0 /\ worker[w].pid <= 1
      BY DEF ControlInv, Interrupted, Starting, CleaningUp, Listed, Unmarked
    <2>5. worker[w].pid = 1 BY <2>3, <2>4
    <2>6. sent[w][1].errors = 0 BY NoErrors DEF PlaceInv, Reconciles
    <2>7. sent[w][1].errors = worker[w].errors /\ sent[w][1].drops = worker[w].drops
      BY <2>2, <2>5 DEF CleanExit
    <2>8. 1 \in Pids BY SessionAssumption DEF Pids
    <2>9. ~sent[w][1].drops BY <2>8 DEF Reconciles
    <2> QED BY <2>2, <2>5, <2>6, <2>7, <2>9
  <1>2. ASSUME NEW w \in Workers
        PROVE  /\ worker[w].hand = None /\ worker[w].held = <<>> /\ worker[w].buffer = <<>>
               /\ ~(worker[w].errors > 0) /\ ~Failed(w)
    <2>1. worker[w].state = "gone" BY <1>1 DEF CleanExit, Runs
    <2> QED BY <1>1, <2>1 DEF CleanExit, Failed
  <1>3. ~Flawed BY <1>2 DEF Flawed
  <1>4. dispatched = (1 .. captured) \ ignored BY CountsCover DEF PlaceInv, Reconciles
  <1>5. ASSUME NEW p \in dispatched PROVE p \in analysed
    <2>1. p \in Packets /\ p # None
      <3>1. p \in 1 .. captured /\ captured \in Nat /\ captured <= MaxPackets /\ MaxPackets \in Nat
        BY SessionAssumption DEF Counted, PlaceInv, Types
      <3> QED BY <3>1 DEF Packets, None
    <2>2. \A w \in Workers : p \notin ToSet(inbox[w]) BY <2>1 DEF Reconciles
    <2>3. \A w \in Workers : p # worker[w].hand BY <1>2, <2>1
    <2> QED BY <1>3, <2>2, <2>3 DEF Unmarked, Conserved
  <1>6. analysed = dispatched BY <1>5 DEF PlaceInv, Sorted
  <1>7. ASSUME NEW p \in found PROVE p \in ToSet(findingQ) \cup ToSet(file)
    <2>1. \A w \in Workers : p \notin ToSet(worker[w].held) /\ p \notin ToSet(worker[w].buffer)
      BY <1>2, EmptyToSet
    <2> QED BY <1>3, <2>1 DEF Unmarked, Conserved
  <1>8. Undropped BY <1>1 DEF Undropped, Reconciles
  <1> QED BY <1>4, <1>6, <1>7, <1>8 DEF Settled

\* A file that repeats nothing is as long as the set it holds.
LEMMA FileCount ==
    ASSUME NEW s \in Seq(Nat), IsInjective(s) PROVE Len(s) = Cardinality(ToSet(s))
  <1> DEFINE n == Len(s)
             T == ToSet(s)
  <1>1. n \in Nat /\ DOMAIN s = 1 .. n OBVIOUS
  <1>2. s \in [1 .. n -> T] /\ \A t \in T : \E i \in 1 .. n : s[i] = t
    BY <1>1 DEF ToSet
  <1>3. \A i, j \in 1 .. n : s[i] = s[j] => i = j BY <1>1 DEF IsInjective
  <1> HIDE DEF n, T
  <1>4. s \in Bijection(1 .. n, T)
    BY <1>2, <1>3 DEF Bijection, Injection, Surjection
  <1>5. ExistsBijection(1 .. n, T) BY <1>4 DEF ExistsBijection
  <1>6. IsFiniteSet(1 .. n) /\ Cardinality(1 .. n) = n BY <1>1, FS_Interval
  <1>7. Cardinality(T) = n BY <1>5, <1>6, FS_Bijection
  <1> QED BY <1>7 DEF n, T

\* No step of run() forgets a reason.
LEMMA MarksStay == ASSUME Supervise, incomplete PROVE incomplete'
  <1>1. CASE UNCHANGED incomplete BY <1>1
  <1>2. CASE StartWriter \/ WriterAcknowledged \/ SpawnWorker \/ OpenSource \/ StartupFails
             \/ CleanUp \/ CleanUpRaises \/ CleanUpWorker \/ CleanUpQueues \/ CleanUpWriter \/ Read \/ ReadFails \/ LeaveLoop \/ ShutdownRaises
             \/ DeadlinePasses \/ \E w \in Workers : SeeReady(w)
    BY <1>1, <1>2 DEF StartWriter, WriterAcknowledged, SpawnWorker, OpenSource, StartupFails,
                      CleanUp, CleanUpRaises, CleanUpWorker, CleanUpQueues, CleanUpWriter, Read, ReadFails, LeaveLoop, ShutdownRaises,
                      DeadlinePasses, SeeReady
  <1>3. CASE OpenRing BY <1>3, MarkStays DEF OpenRing
  <1>4. CASE CheckChildren
    <2>1. CASE ReplaceWorker BY <2>1, MarkStays DEF ReplaceWorker
    <2>2. CASE CheckPasses BY <2>2, MarkStays DEF CheckPasses
    <2> QED BY <1>1, <1>4, <2>1, <2>2 DEF CheckChildren, CheckWorker, ReplacementFails, CheckFails
  <1>5. CASE StopRing BY <1>5, MarkStays DEF StopRing
  <1>6. CASE StopWorkers
    <2>1. CASE StopWorker BY <2>1, MarkStays DEF StopWorker
    <2>2. CASE DrainWorkers BY <2>2, MarkStays DEF DrainWorkers
    <2>3. CASE EndWorker BY <2>3, MarkStays DEF EndWorker
    <2>4. CASE Reconcile BY <2>4, MarkStays DEF Reconcile
    <2> QED BY <1>6, <2>1, <2>2, <2>3, <2>4 DEF StopWorkers
  <1>7. CASE StopWriter BY <1>7, MarkStays DEF StopWriter, Accepted
  <1>8. CASE JoinWriter BY <1>8, MarkStays DEF JoinWriter
  <1>9. CASE Conclude BY <1>9, MarkStays DEF Conclude
  <1> QED BY <1>2, <1>3, <1>4, <1>5, <1>6, <1>7, <1>8, <1>9 DEF Supervise

\* Queues that only grow keep what they hold.
LEMMA GrowConserved ==
    ASSUME Conserved, \A v \in Workers : ToSet(inbox[v]) \subseteq ToSet(inbox'[v]),
           ToSet(findingQ) \subseteq ToSet(findingQ'),
           UNCHANGED <<worker, file, dispatched, ghosts>>
    PROVE  Conserved'
  <1>1. Flawed => Flawed' BY DEF Flawed, Failed
  <1>2. ASSUME NEW p \in dispatched
        PROVE  \/ p \in analysed' \/ Flawed'
               \/ \E w \in Workers : p \in ToSet(inbox'[w]) \/ p = worker'[w].hand
    BY <1>1 DEF Conserved, ghosts
  <1>3. ASSUME NEW p \in found
        PROVE  \/ p \in ToSet(findingQ') \/ p \in ToSet(file') \/ Flawed'
               \/ \E w \in Workers : p \in ToSet(worker'[w].held) \/ p \in ToSet(worker'[w].buffer)
    BY <1>1 DEF Conserved, ghosts
  <1> QED BY <1>2, <1>3 DEF Conserved, ghosts

\* The steps of run() before it ends the workers.
LEMMA CaptureUnmarked ==
    ASSUME ControlInv, PlaceInv, Unmarked, ~incomplete, ~incomplete', Supervise,
           phase' \notin Closing \cup {"endWorkers"}
    PROVE  Unmarked'
  <1> USE DEF counters, queues, children, files
  <1>1. /\ worker \in [Workers -> ProcessType] /\ inbox \in [Workers -> Seq(Nat)] /\ findingQ \in Seq(Nat)
        /\ next \in Nat /\ Types /\ Conserved /\ \A w \in Workers : worker[w].pid <= 1
        /\ \A p \in dispatched : p # 0
    BY DEF PlaceInv, Types, ChildrenType, QueuesType, ControlType, Sorted, Unmarked
  <1> SUFFICES (\A w \in Workers : worker'[w].pid <= 1) /\ Conserved'
    BY DEF Unmarked
  <1>2. ASSUME UNCHANGED <<worker, file, dispatched, ghosts>>,
               \A v \in Workers : inbox'[v] = inbox[v] \/ \E x : inbox'[v] = Append(inbox[v], x),
               findingQ' = findingQ \/ \E x : findingQ' = Append(findingQ, x)
        PROVE  (\A w \in Workers : worker'[w].pid <= 1) /\ Conserved'
    <2>1. \A v \in Workers : ToSet(inbox[v]) \subseteq ToSet(inbox'[v])
      <3> TAKE v \in Workers
      <3>1. inbox[v] \in Seq(Nat) BY <1>1
      <3>2. \A x : ToSet(Append(inbox[v], x)) = ToSet(inbox[v]) \cup {x} BY <3>1, AppendSet
      <3> QED BY <1>2, <3>2
    <2>2. ToSet(findingQ) \subseteq ToSet(findingQ')
      <3>1. \A x : ToSet(Append(findingQ, x)) = ToSet(findingQ) \cup {x} BY <1>1, AppendSet
      <3> QED BY <1>2, <3>1
    <2> QED BY <1>1, <1>2, <2>1, <2>2, GrowConserved
  <1>3. CASE UNCHANGED <<worker, file, dispatched, ghosts, inbox, findingQ>> BY <1>2, <1>3
  <1>4. CASE StartWriter \/ WriterAcknowledged \/ OpenRing \/ OpenSource \/ StartupFails
             \/ CleanUpRaises \/ CleanUpWriter \/ ReadFails \/ LeaveLoop \/ StopRing
             \/ ShutdownRaises \/ JoinWriter \/ Conclude \/ DeadlinePasses
             \/ \E w \in Workers : SeeReady(w)
    BY <1>3, <1>4 DEF StartWriter, WriterAcknowledged, OpenRing, OpenSource, StartupFails,
                      CleanUpRaises, CleanUpWriter, ReadFails, LeaveLoop, StopRing, ShutdownRaises,
                      JoinWriter, Conclude, DeadlinePasses, SeeReady
  <1>5. CASE SpawnWorker
    <2>1. /\ next \in Workers /\ worker[next] = Process(0, "off")
          /\ worker' = [worker EXCEPT ![next] = Process(1, "starting")]
          /\ UNCHANGED <<inbox, findingQ, file, dispatched, ghosts>>
      <3>1. phase = "startWorkers" /\ worker' = Spawned(next)
            /\ UNCHANGED <<inbox, findingQ, file, dispatched, ghosts>>
        BY <1>5 DEF SpawnWorker
      <3>2. next \in Workers /\ worker[next] = Process(0, "off")
        BY <1>1, <3>1 DEF ControlInv, Reaped, Starting
      <3>3. worker[next].pid + 1 = 1 BY <3>2 DEF Process
      <3> QED BY <3>1, <3>2, <3>3 DEF Spawned
    <2>2. \A v \in Workers : v # next => worker'[v] = worker[v] BY <1>1, <2>1
    <2>3. /\ worker'[next].pid = 1 /\ worker'[next].hand = worker[next].hand
          /\ worker'[next].held = worker[next].held /\ worker'[next].buffer = worker[next].buffer
          /\ ~(worker[next].errors > 0) /\ ~Failed(next)
      BY <1>1, <2>1 DEF Process, Failed
    <2>4. \A w \in Workers : worker'[w].pid <= 1
      <3>1. \A w \in Workers : w # next => worker'[w].pid <= 1 BY <1>1, <2>2
      <3>2. worker'[next].pid <= 1 BY <2>3
      <3> QED BY <3>1, <3>2
    <2>5. Flawed => Flawed' BY <2>2, <2>3 DEF Flawed, Failed
    <2>6. \A w \in Workers : /\ worker'[w].hand = worker[w].hand
                             /\ worker'[w].held = worker[w].held
                             /\ worker'[w].buffer = worker[w].buffer
      BY <2>2, <2>3
    <2>7. Conserved' BY <1>1, <2>1, <2>5, <2>6 DEF Conserved, ghosts
    <2> QED BY <2>4, <2>7
  <1>6. CASE CleanUp BY <1>2, <1>6 DEF CleanUp
  <1>7. CASE CleanUpWorker
    <2>1. CASE UNCHANGED worker BY <1>3, <1>7, <2>1 DEF CleanUpWorker
    <2>2. CASE ~UNCHANGED worker
      <3>1. next \in Workers BY <1>1, <1>7, SessionAssumption DEF CleanUpWorker, Workers
      <3>2. PICK r \in Terminated(worker[next]) : worker' = [worker EXCEPT ![next] = r]
        BY <1>7, <2>2 DEF CleanUpWorker
      <3>3. /\ worker'[next].state \in {"gone", "doomed"} /\ worker'[next].clean = FALSE
            /\ \A v \in Workers : worker'[v].pid = worker[v].pid
        BY <1>1, <3>2, <3>1, TerminatedShape DEF Becomes
      <3>4. Flawed' BY <3>1, <3>3 DEF Flawed, Failed
      <3> QED BY <1>1, <3>3, <3>4 DEF Conserved
    <2> QED BY <2>1, <2>2
  <1>8. CASE CleanUpQueues BY <1>2, <1>8 DEF CleanUpQueues
  <1>9. CASE Read
    <2>1. UNCHANGED <<worker, findingQ, file, ghosts>> BY <1>9 DEF Read
    <2>2. CASE UNCHANGED <<dispatched, inbox>> BY <1>3, <2>1, <2>2
    <2>3. ASSUME NEW w \in Workers, inbox' = [inbox EXCEPT ![w] = Append(@, captured')],
                 dispatched' = dispatched \cup {captured'}
          PROVE  Conserved'
      <3>1. inbox[w] \in Seq(Nat) /\ inbox'[w] = Append(inbox[w], captured')
            /\ \A v \in Workers : v # w => inbox'[v] = inbox[v]
        BY <1>1, <2>3
      <3>2. ToSet(inbox'[w]) = ToSet(inbox[w]) \cup {captured'} BY <3>1, AppendSet
      <3>3. Flawed => Flawed' BY <2>1 DEF Flawed, Failed
      <3>4. \A v \in Workers : ToSet(inbox[v]) \subseteq ToSet(inbox'[v]) BY <3>1, <3>2
      <3>5. ASSUME NEW p \in dispatched'
            PROVE  \/ p \in analysed' \/ Flawed'
                   \/ \E v \in Workers : p \in ToSet(inbox'[v]) \/ p = worker'[v].hand
        <4>1. CASE p = captured' BY <3>2, <4>1
        <4>2. CASE p \in dispatched BY <1>1, <2>1, <3>3, <3>4, <4>2 DEF Conserved, ghosts
        <4> QED BY <2>3, <4>1, <4>2
      <3> QED BY <1>1, <2>1, <3>3, <3>5 DEF Conserved, ghosts
    <2> QED BY <1>1, <1>9, <2>1, <2>2, <2>3 DEF Read
  <1>10. CASE CheckChildren
    <2>1. CASE UNCHANGED worker BY <1>3, <1>10, <2>1 DEF CheckChildren
    <2>2. ~ReplaceWorker BY DEF ReplaceWorker, Mark
    <2> QED BY <1>10, <2>1, <2>2 DEF CheckChildren, CheckWorker, ReplacementFails, CheckPasses, CheckFails
  <1>11. CASE StopWorkers
    <2>1. UNCHANGED <<findingQ, file, dispatched, ghosts>> BY <1>11 DEF StopWorkers
    <2>2. CASE StopWorker /\ UNCHANGED <<phase, late, worker, lostEvents>>
      <3>1. inbox' = inbox \/ inbox' = [inbox EXCEPT ![next] = Append(@, Stop)]
        BY <2>2 DEF StopWorker
      <3>2. \A v \in Workers : inbox'[v] = inbox[v] \/ inbox'[v] = Append(inbox[v], Stop)
        BY <1>1, <3>1
      <3> QED BY <1>2, <2>1, <2>2, <3>2
    <2>3. CASE DrainWorkers /\ UNCHANGED <<worker, lostEvents>>
      BY <1>3, <2>1, <2>3 DEF DrainWorkers
    <2>4. ~(EndWorker /\ UNCHANGED phase) /\ ~Reconcile
      BY DEF EndWorker, Reconcile, Goto, Closing
    <2> QED BY <1>11, <2>2, <2>3, <2>4 DEF StopWorkers
  <1>12. ~StopWriter BY DEF StopWriter, Closing
  <1> QED
    BY <1>4, <1>5, <1>6, <1>7, <1>8, <1>9, <1>10, <1>11, <1>12 DEF Supervise

\* The steps of run() that end the workers, compare the reports and stop the writer.
LEMMA ClosingSteps ==
    ASSUME Supervise, phase' \in Closing \cup {"endWorkers"}
    PROVE  \/ StopWorkers /\ (DrainWorkers \/ EndWorker \/ Reconcile)
           \/ StopWriter \/ JoinWriter
           \/ DeadlinePasses /\ phase \in Closing
  <1> USE DEF Goto, Raise, Closing
  <1>1. ~(StartWriter \/ WriterAcknowledged \/ SpawnWorker \/ OpenRing \/ OpenSource \/ StartupFails)
    BY DEF StartWriter, WriterAcknowledged, SpawnWorker, OpenRing, OpenSource, StartupFails
  <1>2. ~(CleanUp \/ CleanUpRaises \/ CleanUpWorker \/ CleanUpQueues \/ CleanUpWriter)
    BY DEF CleanUp, CleanUpRaises, CleanUpWorker, CleanUpQueues, CleanUpWriter
  <1>3. ~(Read \/ ReadFails \/ LeaveLoop \/ StopRing \/ ShutdownRaises \/ Conclude)
    BY DEF Read, ReadFails, LeaveLoop, StopRing, ShutdownRaises, Conclude
  <1>4. ~CheckChildren
    BY DEF CheckChildren, CheckWriter, CheckWorker, ReplaceWorker, ReplacementFails, CheckPasses,
           CheckFails
  <1>5. \A w \in Workers : ~SeeReady(w) BY DEF SeeReady
  <1>6. CASE StopWorkers BY <1>6 DEF StopWorkers, StopWorker
  <1>7. CASE DeadlinePasses BY <1>7 DEF DeadlinePasses
  <1> QED BY <1>1, <1>2, <1>3, <1>4, <1>5, <1>6, <1>7 DEF Supervise

\* A shutdown that marks nothing had nothing to mark.
LEMMA ShutdownUnmarked ==
    ASSUME ControlInv, PlaceInv, Counted, CleanExit, Unmarked, ~incomplete, ~incomplete', Supervise,
           phase' \in Closing \cup {"endWorkers"}
    PROVE  Unmarked'
  <1> USE DEF counters, queues, children, files, Goto
  <1>1. /\ worker \in [Workers -> ProcessType] /\ findingQ \in Seq(Nat) /\ next \in Nat
        /\ operationQ \in Seq({"record", "stop"})
        /\ Types /\ Conserved /\ \A w \in Workers : worker[w].pid <= 1
    BY DEF PlaceInv, Types, ChildrenType, QueuesType, ControlType, Unmarked
  <1>2. CASE DrainWorkers /\ StopWorkers
    <2>1. /\ phase \in {"stopWorkers", "drain"} /\ phase' \in {"drain", "endWorkers"}
          /\ phase' = "endWorkers" => next' = 0
          /\ UNCHANGED <<worker, inbox, findingQ, file, dispatched, ghosts>>
      BY <1>2 DEF DrainWorkers, StopWorkers, EndWorker, Reconcile, StopWorker
    <2>2. Conserved' BY <1>1, <2>1, GrowConserved
    <2>3. \A w \in Workers : ~(w < 0) BY DEF Workers
    <2> QED BY <1>1, <2>1, <2>2, <2>3 DEF Unmarked, Closing
  <1>3. CASE EndWorker /\ StopWorkers
    <2>1. /\ phase = "endWorkers" /\ next' = next + 1 /\ worker[next].clean
          /\ UNCHANGED <<worker, inbox, findingQ, file, dispatched, ghosts, phase>>
      <3>1. next # NumWorkers /\ phase = "endWorkers" /\ next' = next + 1
        BY <1>1, <1>3, SessionAssumption DEF EndWorker
      <3>2. UNCHANGED <<phase, inbox, findingQ, file, dispatched, ghosts>>
        BY <1>3, <3>1 DEF StopWorkers, StopWorker, DrainWorkers, Reconcile
      <3>3. \A reason : Mark(reason) => ~reason BY DEF Mark
      <3>4. worker' = worker /\ worker[next].clean BY <1>3, <3>3 DEF EndWorker
      <3> QED BY <3>1, <3>2, <3>4
    <2>2. Conserved' BY <1>1, <2>1, GrowConserved
    <2>3. ASSUME NEW w \in Workers, w < next' PROVE worker'[w].clean
      <3>1. w < next \/ w = next BY <1>1, <2>1, <2>3 DEF Workers
      <3> QED BY <2>1, <3>1 DEF Unmarked
    <2> QED BY <1>1, <2>1, <2>2, <2>3 DEF Unmarked, Closing
  <1>4. CASE Reconcile /\ StopWorkers
    <2>1. /\ phase = "endWorkers" /\ next = NumWorkers /\ phase' = "stopRecord" /\ Reconciles
          /\ UNCHANGED <<worker, inbox, findingQ, file, captured, dispatched, ignored, ghosts,
                         lostEvents>>
      BY <1>4 DEF EndWorker, StopWorkers, Mark, DrainWorkers, Reconcile, StopWorker
    <2>2. Conserved' BY <1>1, <2>1, GrowConserved
    <2>3. Settled BY <2>1, ReconcileSettles
    <2>4. Settled' BY <2>1, <2>3 DEF Settled, Undropped, ghosts
    <2> QED BY <1>1, <2>1, <2>2, <2>4 DEF Unmarked
  <1>5. ASSUME phase \in Closing, phase' # "endWorkers",
               UNCHANGED <<worker, inbox, file, captured, dispatched, ignored, ghosts, lostEvents>>,
               ToSet(findingQ) \subseteq ToSet(findingQ'),
               phase' \in Closing \ {"stopRecord"} => recorded' \/ "record" \in ToSet(operationQ')
        PROVE  Unmarked'
    <2>1. Conserved' BY <1>1, <1>5, GrowConserved
    <2>2. Settled BY <1>5 DEF Unmarked
    <2>3. Settled' BY <1>5, <2>2 DEF Settled, Undropped, ghosts
    <2> QED BY <1>1, <1>5, <2>1, <2>3 DEF Unmarked
  <1>6. CASE StopWriter
    <2>1. UNCHANGED <<worker, inbox, file, captured, dispatched, ignored, ghosts, recorded,
                      lostEvents>>
      BY <1>6 DEF StopWriter
    <2>2. CASE phase = "stopRecord"
      <3>1. phase' = "stopFindings" /\ operationQ' = Append(operationQ, "record") /\ UNCHANGED findingQ
        BY <1>6, <2>2 DEF StopWriter, Accepted, PutOperation, Mark
      <3>2. ToSet(operationQ') = ToSet(operationQ) \cup {"record"} BY <1>1, <3>1, AppendSet
      <3> QED BY <1>5, <2>1, <2>2, <3>1, <3>2 DEF Closing
    <2>3. CASE phase = "stopFindings"
      <3>1. phase' = "stopOperations" /\ findingQ' = Append(findingQ, Stop) /\ UNCHANGED operationQ
        BY <1>6, <2>3 DEF StopWriter, Accepted, PutFindingStop, Mark
      <3>2. ToSet(findingQ') = ToSet(findingQ) \cup {Stop} BY <1>1, <3>1, AppendSet
      <3>3. recorded \/ "record" \in ToSet(operationQ) BY <2>3 DEF Unmarked, Closing
      <3> QED BY <1>5, <2>1, <2>3, <3>1, <3>2, <3>3 DEF Closing
    <2>4. CASE phase = "stopOperations"
      <3>1. phase' = "joinWriter" /\ operationQ' = Append(operationQ, "stop") /\ UNCHANGED findingQ
        BY <1>6, <2>4 DEF StopWriter, Accepted, PutOperation, Mark
      <3>2. ToSet(operationQ') = ToSet(operationQ) \cup {"stop"} BY <1>1, <3>1, AppendSet
      <3>3. recorded \/ "record" \in ToSet(operationQ) BY <2>4 DEF Unmarked, Closing
      <3> QED BY <1>5, <2>1, <2>4, <3>1, <3>2, <3>3 DEF Closing
    <2> QED BY <1>6, <2>2, <2>3, <2>4 DEF StopWriter
  <1>7. CASE JoinWriter
    <2>1. /\ phase = "joinWriter" /\ phase' = "verdict"
          /\ UNCHANGED <<worker, inbox, file, captured, dispatched, ignored, ghosts, findingQ, operationQ,
                         recorded, lostEvents>>
      BY <1>7 DEF JoinWriter
    <2>2. recorded \/ "record" \in ToSet(operationQ) BY <2>1 DEF Unmarked, Closing
    <2> QED BY <1>5, <2>1, <2>2 DEF Closing
  <1>8. CASE DeadlinePasses /\ phase \in Closing
    <2>1. UNCHANGED <<phase, worker, inbox, file, captured, dispatched, ignored, ghosts, findingQ,
                      operationQ, recorded, lostEvents>>
      BY <1>8 DEF DeadlinePasses
    <2>2. phase \in Closing \ {"stopRecord"} => recorded \/ "record" \in ToSet(operationQ)
      BY DEF Unmarked
    <2>3. phase # "endWorkers" BY <1>8 DEF Closing
    <2> QED BY <1>5, <1>8, <2>1, <2>2, <2>3
  <1> QED BY <1>2, <1>3, <1>4, <1>6, <1>7, <1>8, ClosingSteps

\* A session that the supervisor leaves unmarked had nothing to mark.
LEMMA SuperviseUnmarked ==
    ASSUME ControlInv, PlaceInv, Counted, CleanExit, Unmarked, Supervise PROVE Unmarked'
  <1>1. CASE incomplete' BY <1>1 DEF Unmarked
  <1>2. CASE ~incomplete'
    <2>1. ~incomplete BY <1>2, MarksStay
    <2> QED BY <1>2, <2>1, CaptureUnmarked, ShutdownUnmarked
  <1> QED BY <1>1, <1>2
-----------------------------------------------------------------------------
(***************************************************************************)
(* The verdict "complete"                                                  *)
(***************************************************************************)

\* run() concludes once, at its end.
LEMMA ConcludesLast ==
    ASSUME Supervise, outcome # "none" => phase = "ended"
    PROVE  /\ phase # "ended"
           /\ outcome' # "none" => phase' = "ended"
           /\ outcome' = "complete" => Conclude \/ (CleanUpWriter /\ error = "complete")
  <1> USE DEF Goto, Raise
  <1>1. CASE StartWriter \/ WriterAcknowledged \/ SpawnWorker \/ OpenRing \/ OpenSource
    BY <1>1 DEF StartWriter, WriterAcknowledged, SpawnWorker, OpenRing, OpenSource
  <1>2. CASE StartupFails BY <1>2 DEF StartupFails
  <1>3. CASE CleanUp \/ CleanUpRaises \/ CleanUpWorker \/ CleanUpQueues \/ CleanUpWriter
    BY <1>3 DEF CleanUp, CleanUpRaises, CleanUpWorker, CleanUpQueues, CleanUpWriter
  <1>4. CASE Read \/ ReadFails \/ LeaveLoop \/ StopRing \/ ShutdownRaises
    BY <1>4 DEF Read, ReadFails, LeaveLoop, StopRing, ShutdownRaises
  <1>5. CASE CheckChildren
    BY <1>5 DEF CheckChildren, CheckWriter, CheckWorker, ReplaceWorker, ReplacementFails, CheckPasses,
                CheckFails
  <1>6. CASE \E w \in Workers : SeeReady(w) BY <1>6 DEF SeeReady
  <1>7. CASE StopWorkers
    <2>1. UNCHANGED outcome /\ phase \in {"stopWorkers", "drain", "endWorkers"}
      BY <1>7 DEF StopWorkers, StopWorker, DrainWorkers, EndWorker, Reconcile
    <2> QED BY <2>1
  <1>8. CASE StopWriter BY <1>8 DEF StopWriter
  <1>9. CASE JoinWriter BY <1>9 DEF JoinWriter
  <1>10. CASE DeadlinePasses BY <1>10 DEF DeadlinePasses
  <1>11. CASE Conclude
    <2>1. phase = "verdict" /\ phase' = "ended" BY <1>11 DEF Conclude
    <2> QED BY <1>11, <2>1
  <1> QED BY <1>1, <1>2, <1>3, <1>4, <1>5, <1>6, <1>7, <1>8, <1>9, <1>10, <1>11 DEF Supervise

\* The verdict is given when both queues are read to their markers.
LEMMA ConcludeComplete ==
    ASSUME ControlInv, PlaceInv, Unmarked, EndsInv, Conclude, outcome' = "complete"
    PROVE  CompleteIsTrue' /\ CompleteDroppedNothing'
  <1>1. /\ phase = "verdict"
        /\ UNCHANGED <<captured, dispatched, ignored, analysed, found, file, recorded, durable,
                       lostEvents, worker>>
    BY DEF Conclude, counters, children, ghosts, files
  <1>2. error # "complete" BY DEF ControlInv, Types, ControlType, Errors
  <1>3. ~incomplete' BY <1>2 DEF Conclude
  <1>4. ~incomplete /\ writerSent.state = "stopped" BY <1>3 DEF Conclude, Mark
  <1>5. Settled /\ (recorded \/ "record" \in ToSet(operationQ))
    BY <1>1, <1>4 DEF Unmarked, Closing
  <1>6. findingQ = <<>> /\ operationQ = <<>> /\ durable
    BY <1>4 DEF EndsInv, FindingsEnd, OperationsEnd, Closed
  <1>7. recorded /\ ToSet(file) = found
    BY <1>5, <1>6, EmptyToSet DEF Settled, PlaceInv, Sorted
  <1>8. Len(file) = Cardinality(ToSet(file))
    BY OncePlaced, FileCount DEF WrittenOnce, PlaceInv, Types, QueuesType
  <1>9. CompleteIsTrue' BY <1>1, <1>5, <1>6, <1>7, <1>8 DEF CompleteIsTrue, Settled
  <1>10. CompleteDroppedNothing' BY <1>1, <1>5 DEF CompleteDroppedNothing, Settled, Undropped
  <1> QED BY <1>9, <1>10

\* The invariant of an unmarked session holds initially.
LEMMA InitComplete == Init => CompleteInv
  <1> SUFFICES ASSUME Init PROVE CompleteInv OBVIOUS
  <1>1. ControlInv /\ PlaceInv BY InitControl, InitPlaces
  <1>2. Counted BY SessionAssumption DEF Init, Counted
  <1>3. CleanExit BY DEF Init, CleanExit, Process
  <1>4. Unmarked
    <2>1. \A w \in Workers : worker[w].pid <= 1 BY DEF Init, Process
    <2> QED BY <2>1 DEF Init, Unmarked, Conserved, Closing
  <1>5. EndsInv
    <2>1. OnlyLast(<<>>, Stop) /\ OnlyLast(<<>>, "stop") BY DEF OnlyLast
    <2> QED BY <2>1, EmptyToSet DEF Init, EndsInv, FindingsEnd, OperationsEnd, Closed
  <1> QED BY <1>1, <1>2, <1>3, <1>4, <1>5
          DEF CompleteInv, CompleteIsTrue, CompleteDroppedNothing, Init

\* Once the verdict is given nothing that it speaks of moves.
LEMMA StepComplete == CompleteInv /\ [Next]_vars => CompleteInv'
  <1> SUFFICES ASSUME CompleteInv, [Next]_vars PROVE CompleteInv' OBVIOUS
  <1>1. /\ ControlInv /\ PlaceInv /\ Counted /\ CleanExit /\ Unmarked /\ EndsInv
        /\ outcome # "none" => phase = "ended"
        /\ CompleteIsTrue /\ CompleteDroppedNothing /\ Types
    BY DEF CompleteInv, PlaceInv
  <1>2. ControlInv' /\ PlaceInv' BY <1>1, StepControl, StepPlaces
  <1> SUFFICES /\ Counted' /\ CleanExit' /\ Unmarked' /\ EndsInv'
               /\ outcome' # "none" => phase' = "ended"
               /\ CompleteIsTrue' /\ CompleteDroppedNothing'
    BY <1>2 DEF CompleteInv
  <1>3. CASE UNCHANGED <<phase, next, incomplete, outcome, captured, dispatched, ignored, inbox,
                         findingQ, operationQ, worker, sent, writer, writerSent, file, recorded,
                         durable, analysed, found, lostEvents>>
    <2>1. Counted' BY <1>1, <1>3 DEF Counted
    <2>2. CleanExit' BY <1>1, <1>3 DEF CleanExit
    <2>3. Conserved => Conserved' BY <1>3 DEF Conserved, Flawed, Failed
    <2>4. Unmarked' BY <1>1, <1>3, <2>3 DEF Unmarked, Settled, Undropped
    <2>5. EndsInv' BY <1>1, <1>3 DEF EndsInv, FindingsEnd, OperationsEnd, Closed, AllGone, Listed
    <2>6. CompleteIsTrue' /\ CompleteDroppedNothing'
      BY <1>1, <1>3 DEF CompleteIsTrue, CompleteDroppedNothing
    <2> QED BY <1>1, <1>3, <2>1, <2>2, <2>4, <2>5, <2>6
  <1>4. CASE UNCHANGED vars
    BY <1>3, <1>4 DEF vars, control, counters, queues, children, files, ghosts
  <1>5. CASE RequestStop \/ RingStops
    BY <1>3, <1>5 DEF RequestStop, RingStops, control, counters, queues, children, files, ghosts
  <1>6. CASE Supervise
    <2>1. Counted' /\ CleanExit' /\ Unmarked' /\ EndsInv'
      BY <1>1, <1>6, SuperviseCounted, SuperviseClean, SuperviseUnmarked, SuperviseEnds
    <2>2. /\ outcome' # "none" => phase' = "ended"
          /\ outcome' = "complete" => Conclude \/ (CleanUpWriter /\ error = "complete")
      BY <1>1, <1>6, ConcludesLast
    <2>3. error # "complete" BY <1>1 DEF ControlInv, Types, ControlType, Errors
    <2>4. CompleteIsTrue' /\ CompleteDroppedNothing'
      <3>1. CASE outcome' = "complete" BY <1>1, <2>2, <2>3, <3>1, ConcludeComplete
      <3>2. CASE outcome' # "complete" BY <3>2 DEF CompleteIsTrue, CompleteDroppedNothing
      <3> QED BY <3>1, <3>2
    <2> QED BY <2>1, <2>2, <2>4
  <1>7. ASSUME NEW w \in Workers, WorkerStep(w)
        PROVE  /\ Counted' /\ CleanExit' /\ Unmarked' /\ EndsInv'
               /\ outcome' # "none" => phase' = "ended"
               /\ CompleteIsTrue' /\ CompleteDroppedNothing'
    <2>1. CleanExit' /\ Unmarked' /\ EndsInv'
      BY <1>1, <1>7, WorkerClean, WorkerUnmarked, WorkerEnds
    <2>2. UNCHANGED <<phase, outcome, captured, dispatched, ignored>>
      BY <1>1, <1>7, WorkerStepFrame DEF control, counters
    <2>3. Counted' BY <1>1, <2>2 DEF Counted
    <2>4. outcome # "complete"
      <3>1. ~worker[w].clean \/ Runs(worker[w]) BY <1>1, <1>7, GoneRests
      <3> QED BY <1>1, <3>1 DEF ControlInv, Reaped, AllGone, CompleteDroppedNothing
    <2> QED BY <1>1, <2>1, <2>2, <2>3, <2>4 DEF CompleteIsTrue, CompleteDroppedNothing
  <1>8. CASE WriterStep
    <2>1. Unmarked' /\ EndsInv' BY <1>1, <1>8, WriterUnmarked, WriterEnds
    <2>2. UNCHANGED <<phase, outcome, captured, dispatched, ignored, worker, sent, analysed, found,
                      lostEvents>>
      BY <1>8 DEF WriterStep, control, counters, ghosts
    <2>3. Counted' /\ CleanExit' BY <1>1, <2>2 DEF Counted, CleanExit
    <2>4. outcome = "complete" => UNCHANGED <<file, recorded, durable>>
      <3>1. outcome = "complete" => ~Runs(writer) BY <1>1 DEF ControlInv, Reaped
      <3> QED BY <1>1, <1>8, <3>1, WriterLives DEF WriterDies, files
    <2>5. CompleteIsTrue' /\ CompleteDroppedNothing'
      BY <1>1, <2>2, <2>4 DEF CompleteIsTrue, CompleteDroppedNothing
    <2> QED BY <1>1, <2>1, <2>2, <2>3, <2>5
  <1> QED BY <1>3, <1>4, <1>5, <1>6, <1>7, <1>8 DEF Next

\* The verdict "complete" is true: every captured IP packet was dispatched and
\* analysed, the evidence file holds every finding exactly once, and both files were
\* closed durably behind the stop record, for any number of workers and packets.
THEOREM SessionCompleteIsTrue == Spec => []CompleteIsTrue
  <1>1. CompleteInv => CompleteIsTrue BY DEF CompleteInv
  <1> QED BY <1>1, InitComplete, StepComplete, PTL DEF Spec

\* Nor did a complete session drop an operational record unseen, whether run() or a
\* worker lost it, and every worker is the first of its shard and exited by itself.
THEOREM SessionCompleteDroppedNothing == Spec => []CompleteDroppedNothing
  <1>1. CompleteInv => CompleteDroppedNothing BY DEF CompleteInv
  <1> QED BY <1>1, InitComplete, StepComplete, PTL DEF Spec
==============================================================================
