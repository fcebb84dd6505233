------------------------------- MODULE Session -------------------------------
(***************************************************************************)
(* The life of one live session: AuditSupervisor.run of supervisor.py, the *)
(* worker processes of worker.py and the writer process of writer.py.      *)
(*                                                                         *)
(* The supervisor starts the writer and the workers, captures, checks its  *)
(* children after every read, and shuts everything down in order; what it  *)
(* returns is a verdict on the session.  Deadlines of time.monotonic() are *)
(* the flag late, which may be raised at any moment of a wait.  Whenever   *)
(* run() looks at a report it has just drained control_queue, so that it   *)
(* knows the last report of every process, and only that one.              *)
(*                                                                         *)
(* A batch is one packet, a packet has at most one finding, and how the    *)
(* reader accounts for queue bytes is the subject of WorkerQueues.  A      *)
(* multiprocessing queue is a pipe that holds what the feeder threads of   *)
(* its producers have written, and a semaphore of free slots that a        *)
(* producer takes before its feeder has written anything.                  *)
(***************************************************************************)
EXTENDS Naturals, Sequences, FiniteSets, SequencesExt

CONSTANTS
    NumWorkers,      \* config.workers
    QueueSize,       \* config.queue_size, batches per worker
    FindingSlots,    \* slots of finding_queue
    RestartLimit,    \* recent deaths of one worker that end the session, 3 in the code
    RawEnabled,      \* raw_capture_enabled
    RawRequired,     \* stop_on_raw_capture_failure
    RunDrops,        \* bound: whether run() may find operational_queue full
    Droppers,        \* bound: the workers that may
    MaxPackets,      \* bound: packets captured
    MaxDeaths        \* bound: children killed or failing

ASSUME SessionAssumption ==
    /\ {NumWorkers, QueueSize, FindingSlots, RestartLimit} \subseteq Nat \ {0}
    /\ {RawEnabled, RawRequired, RunDrops} \subseteq BOOLEAN /\ Droppers \subseteq Nat
    /\ {MaxPackets, MaxDeaths} \subseteq Nat

Workers == 0 .. NumWorkers - 1
Packets == 1 .. MaxPackets
Pids    == 1 .. MaxDeaths + 1
Stop    == 0   \* STOP_SENTINEL in the queues of packets and findings
None    == 0

VARIABLES
    phase,          \* where run() is
    next,           \* the worker a loop over the workers has come to
    awaited,        \* workers whose ready report run() waits for
    late,           \* the deadline of the current wait has passed
    stopRequested,  \* stop_requested
    incomplete,     \* incomplete_reasons is not empty
    error,          \* the exception on its way out of run()
    outcome,        \* how run() ended
    captured,       \* captured_packets
    dispatched,     \* the packets of dispatched_packets
    lost,           \* the packets of userspace_queue_drops and capture_parse_errors
    ignored,        \* the packets of capture_ignored_packets
    lostEvents,     \* operational_queue_drops of run() is not 0
    restarts,       \* the length of worker_restart_history
    ring,           \* the dumpcap process
    inbox,          \* worker_queues
    findingQ,       \* the pipe of finding_queue
    slots,          \* the free slots of finding_queue
    operationQ,     \* the stop record and marker in operational_queue
    worker,         \* the worker processes
    sent,           \* worker_reports: the last report of every worker process
    writer,         \* the writer process
    writerSent,     \* writer_report
    file,           \* the findings JSONL of this session
    recorded,       \* the operations JSONL has the session_stopped record
    durable,        \* both files are flushed and synced
    analysed,       \* history: packets analysed to the end
    found,          \* history: packets in which a worker detected something
    deaths          \* bound

control  == <<phase, next, awaited, late, error, outcome>>
counters == <<captured, dispatched, lost, ignored>>
queues   == <<inbox, findingQ, slots, operationQ>>
children == <<worker, sent, writer, writerSent>>
files    == <<file, recorded, durable>>
ghosts   == <<analysed, found>>
vars == <<control, counters, queues, children, files, ghosts,
          lostEvents, stopRequested, incomplete, restarts, ring, deaths>>

NoReport ==
    [state |-> "none", packets |-> 0, findings |-> 0, errors |-> 0, drops |-> FALSE]

Process(pid, state) ==
    [pid |-> pid, state |-> state, clean |-> FALSE, hand |-> None, held |-> <<>>,
     buffer |-> <<>>, packets |-> 0, findings |-> 0, errors |-> 0, drops |-> FALSE]

Init ==
    /\ phase = "start" /\ next = 0 /\ awaited = {} /\ late = FALSE
    /\ stopRequested = FALSE
    /\ incomplete = FALSE
    /\ error = "none" /\ outcome = "none"
    /\ captured = 0 /\ dispatched = {} /\ lost = {}
    /\ ignored = {} /\ lostEvents = FALSE
    /\ restarts = [w \in Workers |-> 0]
    /\ ring = "off"
    /\ inbox = [w \in Workers |-> <<>>]
    /\ findingQ = <<>> /\ slots = FindingSlots /\ operationQ = <<>>
    /\ worker = [w \in Workers |-> Process(0, "off")]
    /\ sent = [w \in Workers |-> [p \in Pids |-> NoReport]]
    /\ writer = [state |-> "off", clean |-> FALSE, findingsStopped |-> FALSE,
                 operationsStopped |-> FALSE]
    /\ writerSent = [state |-> "none", written |-> 0]
    /\ file = <<>> /\ recorded = FALSE /\ durable = FALSE
    /\ analysed = {} /\ found = {}
    /\ deaths = 0

\* is_alive().  A process that got SIGTERM and is still there when the join times
\* out is doomed: it is alive, but the next thing it does is to die.
Alive(process) == process.state \notin {"off", "gone"}
Runs(process)  == process.state \notin {"off", "gone", "doomed"}

\* self.workers: a list comprehension, so it is empty until every spawn succeeded.
Listed == \A w \in Workers : worker[w].pid > 0

Spawned(w) == [worker EXCEPT ![w] = Process(worker[w].pid + 1, "starting")]

\* The process dies: what it had not handed to a pipe is lost.
Killed(process) == [process EXCEPT !.state = "gone", !.clean = FALSE]

\* terminate() and join(timeout=2), which returns whether or not the process died.
Terminated(process) == {Killed(process), [process EXCEPT !.state = "doomed", !.clean = FALSE]}

\* _mark_incomplete
Mark(reason) == incomplete' = (incomplete \/ reason)

Goto(p) == phase' = p /\ next' = 0 /\ late' = FALSE

\* _operation: telemetry never waits for a slot.  Whether operational_queue has
\* room for a record is left open.
Operation == \E full \in {FALSE, RunDrops} : lostEvents' = (lostEvents \/ full)

\* An exception leaves the capture loop: the finally clause begins.
Raise(e) ==
    /\ error' = e
    /\ Goto("stopRing")
    /\ UNCHANGED <<awaited, outcome>>
-----------------------------------------------------------------------------
(***************************************************************************)
(* Startup                                                                 *)
(***************************************************************************)

StartWriter ==
    /\ phase = "start"
    /\ writer' = [writer EXCEPT !.state = "starting"]
    /\ Goto("awaitWriter")
    /\ UNCHANGED <<awaited, error, outcome, counters, queues, lostEvents, worker,
                   sent, writerSent, files, ghosts, stopRequested, incomplete,
                   restarts, ring, deaths>>

\* _await_writer_ready succeeds.
WriterAcknowledged ==
    /\ phase = "awaitWriter" /\ ~late /\ ~stopRequested
    /\ writerSent.state = "ready" /\ Alive(writer)
    /\ Goto("startWorkers")
    /\ UNCHANGED <<awaited, error, outcome, counters, queues, lostEvents, children, files,
                   ghosts, stopRequested, incomplete, restarts, ring, deaths>>

\* _start_workers spawns the workers one after the other.
SpawnWorker ==
    /\ phase = "startWorkers"
    /\ worker' = Spawned(next)
    /\ \/ /\ next + 1 < NumWorkers
          /\ next' = next + 1
          /\ UNCHANGED <<phase, late, awaited>>
       \/ /\ next + 1 = NumWorkers
          /\ Goto("awaitWorkers") /\ awaited' = Workers
    /\ UNCHANGED <<error, outcome, counters, queues, lostEvents, sent, writer,
                   writerSent, files, ghosts, stopRequested, incomplete, restarts,
                   ring, deaths>>

\* _await_workers_ready, at startup or for the replacement of one worker.
SeeReady(w) ==
    /\ phase \in {"awaitWorkers", "awaitReplacement"} /\ ~late /\ ~stopRequested
    /\ w \in awaited
    /\ sent[w][worker[w].pid].state = "ready" /\ Alive(worker[w])
    /\ awaited' = awaited \ {w}
    /\ \/ awaited' # {} /\ UNCHANGED <<phase, next, late, lostEvents>>
       \/ /\ awaited' = {} /\ phase = "awaitWorkers"
          /\ Goto("openRing")
          /\ UNCHANGED lostEvents
       \/ /\ awaited' = {} /\ phase = "awaitReplacement"
          /\ phase' = "checkWorkers" /\ next' = w + 1 /\ late' = FALSE
          /\ Operation   \* worker_restarted
    /\ UNCHANGED <<error, outcome, counters, queues, children, files, ghosts,
                   stopRequested, incomplete, restarts, ring, deaths>>

\* The raw ring starts, or is missing and not required.
OpenRing ==
    /\ phase = "openRing"
    /\ \/ ~RawEnabled /\ UNCHANGED <<ring, incomplete, lostEvents>>
       \/ /\ RawEnabled /\ ~stopRequested
          /\ Operation
          /\ \/ ring' = "running" /\ UNCHANGED incomplete
             \/ ~RawRequired /\ Mark(TRUE) /\ UNCHANGED ring
    /\ Goto("openSource")
    /\ UNCHANGED <<awaited, error, outcome, counters, queues, children, files, ghosts,
                   stopRequested, restarts, deaths>>

OpenSource ==
    /\ phase = "openSource" /\ ~stopRequested
    /\ Operation   \* session_started
    /\ Goto("read")
    /\ UNCHANGED <<awaited, error, outcome, counters, queues, children, files, ghosts,
                   stopRequested, incomplete, restarts, ring, deaths>>

\* A startup step raises: the watchdog's socket, a process that does not start, a
\* child that is gone or late, a stop request, the ring, the source or the service
\* manager.
StartupFails ==
    /\ CASE phase \in {"start", "startWorkers", "openSource"} -> TRUE
         [] phase = "awaitWriter"  -> stopRequested \/ late \/ ~Alive(writer)
         [] phase = "awaitWorkers" ->
              stopRequested \/ late \/ \E w \in awaited : ~Alive(worker[w])
         [] phase = "openRing"     -> RawEnabled
         [] OTHER                  -> FALSE
    /\ \E failedPreflight \in BOOLEAN :
          IF failedPreflight /\ phase = "openRing" /\ RawRequired
            THEN Operation ELSE UNCHANGED lostEvents
    /\ error' = "startup"
    /\ Goto("cleanup")
    /\ UNCHANGED <<awaited, outcome, counters, queues, children, files, ghosts,
                   stopRequested, incomplete, restarts, ring, deaths>>

\* _startup_failure_cleanup: the ring stops, and the markers go where there is room.
CleanUp ==
    /\ phase = "cleanup"
    /\ ring' = "off"
    /\ inbox' = [w \in Workers |->
                   IF Len(inbox[w]) < QueueSize THEN Append(inbox[w], Stop) ELSE inbox[w]]
    /\ Goto("cleanupWorkers")
    /\ UNCHANGED <<awaited, error, outcome, counters, findingQ, slots, operationQ,
                   lostEvents, children, files, ghosts, stopRequested, incomplete,
                   restarts, deaths>>

\* raw_ring.stop() raises when dumpcap outlives SIGKILL: the children stay.
CleanUpRaises ==
    /\ phase = "cleanup" /\ ring = "running"
    /\ error' = "abandoned" /\ outcome' = "abandoned"
    /\ Goto("ended")
    /\ UNCHANGED <<awaited, counters, queues, lostEvents, children, files, ghosts,
                   stopRequested, incomplete, restarts, ring, deaths>>

\* join(timeout=3), then terminate, for the workers in self.workers.
CleanUpWorker ==
    /\ phase = "cleanupWorkers" /\ Listed /\ next < NumWorkers
    /\ \/ ~Alive(worker[next]) /\ UNCHANGED worker
       \/ /\ Alive(worker[next])
          /\ \E ended \in Terminated(worker[next]) : worker' = [worker EXCEPT ![next] = ended]
    /\ next' = next + 1
    /\ UNCHANGED <<phase, awaited, late, error, outcome, counters, queues, lostEvents,
                   sent, writer, writerSent, files, ghosts, stopRequested, incomplete,
                   restarts, ring, deaths>>

CleanUpQueues ==
    /\ phase = "cleanupWorkers" /\ (Listed => next = NumWorkers)
    /\ slots > 0   \* nothing was captured yet: finding_queue is empty
    /\ findingQ' = Append(findingQ, Stop) /\ slots' = slots - 1
    /\ operationQ' \in {operationQ, Append(operationQ, "stop")}
    /\ Goto("cleanupWriter")
    /\ UNCHANGED <<awaited, error, outcome, counters, inbox, lostEvents, children,
                   files, ghosts, stopRequested, incomplete, restarts, ring, deaths>>

CleanUpWriter ==
    /\ phase = "cleanupWriter"
    /\ \/ ~Alive(writer) /\ UNCHANGED writer
       \/ Alive(writer) /\ writer' \in Terminated(writer)
    /\ outcome' = error
    /\ Goto("ended")
    /\ UNCHANGED <<awaited, error, counters, queues, lostEvents, worker, sent,
                   writerSent, files, ghosts, stopRequested, incomplete, restarts,
                   ring, deaths>>
-----------------------------------------------------------------------------
(***************************************************************************)
(* The capture loop                                                        *)
(***************************************************************************)

\* A signal handler only sets the flag.
RequestStop ==
    /\ ~stopRequested /\ phase # "ended"
    /\ stopRequested' = TRUE
    /\ UNCHANGED <<control, counters, queues, lostEvents, children, files, ghosts,
                   incomplete, restarts, ring, deaths>>

\* A read that returns nothing, or one packet: dispatched, not IP, or lost, because
\* the parser rejects it or the queue of its worker has no room (for bytes, perhaps:
\* see WorkerQueues).
Read ==
    /\ phase = "read" /\ ~stopRequested
    /\ \/ UNCHANGED <<counters, inbox, lostEvents>>
       \/ /\ captured < MaxPackets
          /\ captured' = captured + 1
          /\ \/ /\ \E w \in Workers :
                      /\ Len(inbox[w]) < QueueSize
                      /\ inbox' = [inbox EXCEPT ![w] = Append(@, captured')]
                /\ dispatched' = dispatched \cup {captured'}
                /\ UNCHANGED <<lost, ignored, lostEvents>>
             \/ /\ ignored' = ignored \cup {captured'}
                /\ UNCHANGED <<inbox, dispatched, lost, lostEvents>>
             \/ /\ lost' = lost \cup {captured'}
                /\ Operation
                /\ UNCHANGED <<inbox, dispatched, ignored>>
    /\ Goto("check")
    /\ UNCHANGED <<awaited, error, outcome, findingQ, slots, operationQ, children,
                   files, ghosts, stopRequested, incomplete, restarts, ring, deaths>>

\* The source raises CaptureError, or the parser something else than
\* PacketDecodeError, when the packet was already counted.
ReadFails ==
    /\ phase = "read" /\ ~stopRequested
    /\ \/ UNCHANGED captured
       \/ captured < MaxPackets /\ captured' = captured + 1
    /\ Operation
    /\ Raise("error")
    /\ UNCHANGED <<dispatched, lost, ignored, queues, children, files, ghosts,
                   stopRequested, incomplete, restarts, ring, deaths>>

\* Mutant: the stop request is raised instead of ending the loop.
LeaveLoopInterrupted ==
    /\ phase = "read" /\ stopRequested
    /\ Raise("interrupt")
    /\ UNCHANGED <<counters, queues, lostEvents, children, files, ghosts, stopRequested,
                   incomplete, restarts, ring, deaths>>

LeaveLoop ==
    /\ phase = "read" /\ stopRequested
    /\ Goto("stopRing")
    /\ UNCHANGED <<awaited, error, outcome, counters, queues, lostEvents, children,
                   files, ghosts, stopRequested, incomplete, restarts, ring, deaths>>
-----------------------------------------------------------------------------
(***************************************************************************)
(* _check_children                                                         *)
(***************************************************************************)

\* Mutant: the writer is not looked at.
CheckWriterAnyway ==
    /\ phase = "check"
    /\ Goto("checkWorkers")
    /\ UNCHANGED <<awaited, error, outcome, lostEvents>>

CheckWriter ==
    /\ phase = "check"
    /\ \/ /\ Alive(writer)
          /\ Goto("checkWorkers")
          /\ UNCHANGED <<awaited, error, outcome, lostEvents>>
       \/ ~Alive(writer) /\ Raise("error") /\ Operation

CheckWorker ==
    /\ phase = "checkWorkers" /\ next < NumWorkers
    /\ Alive(worker[next])
    /\ next' = next + 1
    /\ UNCHANGED <<phase, awaited, late, error, outcome, incomplete, restarts, worker,
                   lostEvents>>

\* A dead worker is replaced, unless it died too often in the last 60 seconds or
\* its replacement does not start.
ReplaceWorker ==
    /\ phase = "checkWorkers" /\ next < NumWorkers
    /\ ~Alive(worker[next])
    /\ Mark(TRUE)
    /\ \E recent \in 0 .. restarts[next] :
          restarts' = [restarts EXCEPT ![next] = recent + 1]
    /\ \/ /\ Raise("error") /\ Operation
          /\ UNCHANGED worker
       \/ /\ restarts'[next] < RestartLimit
          /\ worker' = Spawned(next)
          /\ Goto("awaitReplacement") /\ awaited' = {next}
          /\ UNCHANGED <<error, outcome, lostEvents>>

\* _await_workers_ready raises for the replacement.  KeyboardInterrupt is not an
\* Exception: it leaves no session_error record.
ReplacementFails ==
    /\ phase = "awaitReplacement"
    /\ \/ stopRequested /\ Raise("interrupt") /\ UNCHANGED lostEvents
       \/ /\ late \/ \E w \in awaited : ~Alive(worker[w])
          /\ Raise("error") /\ Operation
    /\ UNCHANGED <<incomplete, restarts, worker>>

RingLost == RawEnabled /\ ring # "running"

\* The heartbeats are recent and the ring, if it matters, is running; the
\* supervisor's own heartbeat may be due.
CheckPasses ==
    /\ phase = "checkWorkers" /\ next = NumWorkers
    /\ RingLost => ~RawRequired
    /\ Mark(RingLost)
    /\ Operation
    /\ Goto("read")
    /\ UNCHANGED <<awaited, error, outcome, restarts, worker>>

\* A heartbeat is stale, the statistics or the watchdog socket fail; or a
\* required ring stopped.
CheckFails ==
    /\ phase = "checkWorkers" /\ next = NumWorkers
    /\ Operation
    /\ Raise("error")
    /\ UNCHANGED <<incomplete, restarts, worker>>

CheckChildren ==
    /\ \/ CheckWriter /\ UNCHANGED <<incomplete, restarts, worker>>
       \/ CheckWorker \/ ReplaceWorker \/ ReplacementFails \/ CheckPasses \/ CheckFails
    /\ UNCHANGED <<counters, queues, sent, writer, writerSent, files, ghosts,
                   stopRequested, ring, deaths>>
-----------------------------------------------------------------------------
(***************************************************************************)
(* Shutdown: the finally clause of run()                                   *)
(***************************************************************************)

\* The service manager is told, or cannot be; the final statistics may be missing
\* or disagree; the ring stops.
StopRing ==
    /\ phase = "stopRing"
    /\ \E disagree, unnotified \in BOOLEAN :
          /\ Mark(disagree \/ unnotified \/ RingLost)
          /\ IF RawEnabled \/ unnotified THEN Operation ELSE UNCHANGED lostEvents
    /\ ring' = "off"
    /\ Goto("stopWorkers")
    /\ UNCHANGED <<awaited, error, outcome, counters, queues, children, files, ghosts,
                   stopRequested, restarts, deaths>>

\* source.close() or raw_ring.stop() raises: the rest of the clause is skipped.
ShutdownRaises ==
    /\ phase = "stopRing"
    /\ error' = "abandoned" /\ outcome' = "abandoned"
    /\ Goto("ended")
    /\ UNCHANGED <<awaited, counters, queues, lostEvents, children, files, ghosts,
                   stopRequested, incomplete, restarts, ring, deaths>>

\* Mutant: the marker is put without a deadline.
StopWorkerWaits ==
    /\ phase = "stopWorkers" /\ next < NumWorkers
    /\ Len(inbox[next]) < QueueSize
    /\ inbox' = [inbox EXCEPT ![next] = Append(@, Stop)]
    /\ next' = next + 1
    /\ UNCHANGED <<incomplete>>

\* _put_until(worker_queue, STOP_SENTINEL, worker_deadline)
StopWorker ==
    /\ phase = "stopWorkers" /\ next < NumWorkers
    /\ \/ /\ ~late /\ Len(inbox[next]) < QueueSize
          /\ inbox' = [inbox EXCEPT ![next] = Append(@, Stop)]
          /\ UNCHANGED <<incomplete>>
       \/ /\ late
          /\ Mark(TRUE)
          /\ UNCHANGED inbox
    /\ next' = next + 1

\* The workers drain their queues until the deadline, or until the writer dies.
DrainWorkers ==
    /\ \/ phase = "stopWorkers" /\ next = NumWorkers
          /\ phase' = "drain" /\ UNCHANGED <<next, late, incomplete>>
       \/ /\ phase = "drain"
          /\ \/ (late \/ \A w \in Workers : ~Alive(worker[w])) /\ UNCHANGED incomplete
             \/ ~Alive(writer) /\ Mark(TRUE)
          /\ Goto("endWorkers")
    /\ UNCHANGED inbox

\* Mutant: a worker that is still alive is only recorded.
EndWorkerUnforced ==
    /\ phase = "endWorkers" /\ next < NumWorkers
    /\ Mark(Alive(worker[next]))
    /\ next' = next + 1
    /\ UNCHANGED <<worker, lostEvents>>

\* Terminate what is still alive; look at the exit code of the others.
EndWorker ==
    /\ phase = "endWorkers" /\ next < NumWorkers
    /\ \/ /\ Alive(worker[next])
          /\ \E ended \in Terminated(worker[next]) : worker' = [worker EXCEPT ![next] = ended]
          /\ Mark(TRUE) /\ Operation
       \/ /\ ~Alive(worker[next])
          /\ Mark(~worker[next].clean)
          /\ UNCHANGED <<worker, lostEvents>>
    /\ next' = next + 1

\* A counter summed over the last reports of all worker processes.
Total(field) ==
    SumFunction([wp \in Workers \X Pids |-> sent[wp[1]][wp[2]][field]])

\* Acknowledgements and counters that must agree before the writer stops.
Reconciles ==
    /\ \A w \in Workers : sent[w][worker[w].pid].state = "stopped"
    /\ Total("packets") = Cardinality(dispatched)
    /\ Total("errors") = 0
    /\ \A w \in Workers, p \in Pids : ~sent[w][p].drops
    /\ ~lostEvents /\ lost = {}
    /\ Cardinality(dispatched) + Cardinality(lost) + Cardinality(ignored) = captured
    /\ \A w \in Workers : ToSet(inbox[w]) \cap Packets = {}

Reconcile ==
    /\ phase = "endWorkers" /\ next = NumWorkers
    /\ Mark(~Reconciles)
    /\ Goto("stopRecord")

StopWorkers ==
    /\ \/ StopWorker /\ UNCHANGED <<phase, late, worker, lostEvents>>
       \/ DrainWorkers /\ UNCHANGED <<worker, lostEvents>>
       \/ EndWorker /\ UNCHANGED <<phase, late, inbox>>
       \/ Reconcile /\ UNCHANGED <<inbox, worker, lostEvents>>
    /\ UNCHANGED <<awaited, error, outcome, counters, findingQ, slots, operationQ,
                   sent, writer, writerSent, files, ghosts, stopRequested, restarts,
                   ring, deaths>>

\* _put_until under the writer's deadline, three times.
Accepted(there) ==
    \/ ~late /\ there /\ UNCHANGED incomplete
    \/ late /\ Mark(TRUE) /\ UNCHANGED <<findingQ, slots, operationQ>>

PutOperation(item) ==
    /\ operationQ' = Append(operationQ, item)
    /\ UNCHANGED <<findingQ, slots>>

PutFindingStop ==
    /\ slots > 0
    /\ findingQ' = Append(findingQ, Stop) /\ slots' = slots - 1
    /\ UNCHANGED operationQ

StopWriter ==
    /\ \/ /\ phase = "stopRecord" /\ phase' = "stopFindings"
          /\ Accepted(PutOperation("record"))
       \/ /\ phase = "stopFindings" /\ phase' = "stopOperations"
          /\ Accepted(PutFindingStop)
       \/ /\ phase = "stopOperations" /\ phase' = "joinWriter"
          /\ Accepted(PutOperation("stop"))
    /\ UNCHANGED <<next, awaited, late, error, outcome, counters, inbox, lostEvents,
                   children, files, ghosts, stopRequested, restarts, ring, deaths>>

JoinWriter ==
    /\ phase = "joinWriter"
    /\ \/ /\ ~Alive(writer)
          /\ Mark(~writer.clean)
          /\ UNCHANGED writer
       \/ /\ Alive(writer) /\ late
          /\ Mark(TRUE)
          /\ writer' \in Terminated(writer)
    /\ Goto("verdict")
    /\ UNCHANGED <<awaited, error, outcome, counters, queues, lostEvents, worker,
                   sent, writerSent, files, ghosts, stopRequested, restarts, ring,
                   deaths>>

\* The writer's report is compared with the workers', and run() returns or raises.
Conclude ==
    /\ phase = "verdict"
    /\ LET closed == writerSent.state = "stopped"
           written == IF closed THEN writerSent.written ELSE 0
       IN  Mark(~closed \/ written # Total("findings"))
    /\ outcome' = CASE error # "none"                -> error
                    [] error = "none" /\ ~incomplete' -> "complete"
                    [] error = "none" /\ incomplete'  -> "incomplete"
    /\ Goto("ended")
    /\ UNCHANGED <<awaited, error, counters, queues, lostEvents, children, files,
                   ghosts, stopRequested, restarts, ring, deaths>>

\* A deadline of time.monotonic() passes while run() waits.
DeadlinePasses ==
    /\ phase \in {"awaitWriter", "awaitWorkers", "awaitReplacement", "stopWorkers", "drain",
                  "stopRecord", "stopFindings", "stopOperations", "joinWriter"}
    /\ ~late
    /\ late' = TRUE
    /\ UNCHANGED <<phase, next, awaited, error, outcome, counters, queues, lostEvents,
                   children, files, ghosts, stopRequested, incomplete, restarts, ring,
                   deaths>>
-----------------------------------------------------------------------------
(***************************************************************************)
(* worker_process                                                          *)
(***************************************************************************)

Report(w, state) ==
    [sent EXCEPT ![w][worker[w].pid] =
        [state |-> state, packets |-> worker'[w].packets, findings |-> worker'[w].findings,
         errors |-> worker'[w].errors,
         drops |-> state \in {"heartbeat", "stopped"} /\ worker'[w].drops]]

\* _emit_operation: a dropped record counts in operational_drops, here not 0.
Emitted(w, process) == {[process EXCEPT !.drops = @ \/ full] : full \in {FALSE, (w \in Droppers)}}

\* The report goes before the worker_started record.
WorkerReady(w) ==
    /\ worker[w].state = "starting"
    /\ \E process \in Emitted(w, worker[w]) :
          worker' = [worker EXCEPT ![w] = [process EXCEPT !.state = "running"]]
    /\ sent' = Report(w, "ready")
    /\ UNCHANGED <<inbox, slots, findingQ, ghosts>>

\* A heartbeat replaces the earlier reports of the process, "ready" included.
\* Later heartbeats repeat it: they are left out.
WorkerHeartbeat(w) ==
    /\ worker[w].state = "running" /\ worker[w].hand = None
    /\ sent[w][worker[w].pid].state = "ready"
    /\ \E process \in Emitted(w, worker[w]) : worker' = [worker EXCEPT ![w] = process]
    /\ sent' = Report(w, "heartbeat")
    /\ UNCHANGED <<inbox, slots, findingQ, ghosts>>

TakePacket(w) ==
    /\ worker[w].state = "running" /\ worker[w].hand = None
    /\ inbox[w] # <<>> /\ Head(inbox[w]) # Stop
    /\ inbox' = [inbox EXCEPT ![w] = Tail(@)]
    /\ worker' = [worker EXCEPT ![w].hand = Head(inbox[w])]
    /\ UNCHANGED <<sent, slots, findingQ, ghosts>>

\* finding_queue.put: takes a slot, waiting for one, and leaves the item to the
\* feeder thread.
PutFinding(w, p, process) ==
    /\ slots > 0 /\ slots' = slots - 1
    /\ worker' = [worker EXCEPT ![w] =
                    [process EXCEPT !.buffer = Append(@, p), !.findings = @ + 1]]

\* The packet in hand: nothing found, a finding, bytes that wait in the
\* reassembly for a later flush, or a packet that does not decode.
AnalysePacket(w) ==
    LET p == worker[w].hand
        done == [worker[w] EXCEPT !.hand = None, !.packets = @ + 1]
    IN  /\ worker[w].state = "running" /\ p # None
        /\ \/ /\ worker' = [worker EXCEPT ![w] = done]
              /\ analysed' = analysed \cup {p}
              /\ UNCHANGED <<slots, found>>
           \/ /\ PutFinding(w, p, done)
              /\ analysed' = analysed \cup {p} /\ found' = found \cup {p}
           \/ /\ worker' = [worker EXCEPT ![w] = [done EXCEPT !.held = Append(@, p)]]
              /\ analysed' = analysed \cup {p} /\ found' = found \cup {p}
              /\ UNCHANGED slots
           \/ /\ \E process \in Emitted(w, done) :
                    worker' = [worker EXCEPT ![w] = [process EXCEPT !.errors = @ + 1]]
              /\ UNCHANGED <<slots, ghosts>>
        /\ UNCHANGED <<inbox, sent, findingQ>>

TakeStop(w) ==
    /\ worker[w].state = "running" /\ worker[w].hand = None
    /\ inbox[w] # <<>> /\ Head(inbox[w]) = Stop
    /\ inbox' = [inbox EXCEPT ![w] = Tail(@)]
    /\ worker' = [worker EXCEPT ![w].state = "flushing"]
    /\ UNCHANGED <<sent, slots, findingQ, ghosts>>

\* Idle flows expire while the worker runs; flush_all empties the rest at the end.
EmitHeld(w) ==
    /\ worker[w].state \in {"running", "flushing"} /\ worker[w].hand = None
    /\ worker[w].held # <<>>
    /\ PutFinding(w, Head(worker[w].held), [worker[w] EXCEPT !.held = Tail(@)])
    /\ UNCHANGED <<inbox, sent, findingQ, ghosts>>

\* Mutant: the worker reports without flush_all.
WorkerStopsUnflushed(w) ==
    /\ worker[w].state = "flushing"
    /\ \E process \in Emitted(w, worker[w]) :
          worker' = [worker EXCEPT ![w] = [process EXCEPT !.state = "leaving", !.clean = TRUE]]
    /\ sent' = Report(w, "stopped")
    /\ UNCHANGED <<inbox, slots, findingQ, ghosts>>

\* Mutant: the report goes before the worker_stopped record.
WorkerStopsReportedFirst(w) ==
    /\ worker[w].state = "flushing" /\ worker[w].held = <<>>
    /\ \E process \in Emitted(w, worker[w]) :
          worker' = [worker EXCEPT ![w] = [process EXCEPT !.state = "leaving", !.clean = TRUE]]
    /\ sent' = [Report(w, "stopped") EXCEPT ![w][worker[w].pid].drops = worker[w].drops]
    /\ UNCHANGED <<inbox, slots, findingQ, ghosts>>

WorkerStops(w) ==
    /\ worker[w].state = "flushing" /\ worker[w].held = <<>>
    /\ \E process \in Emitted(w, worker[w]) :
          worker' = [worker EXCEPT ![w] = [process EXCEPT !.state = "leaving", !.clean = TRUE]]
    /\ sent' = Report(w, "stopped")
    /\ UNCHANGED <<inbox, slots, findingQ, ghosts>>

\* The feeder thread of finding_queue writes to the pipe.
Feed(w) ==
    /\ Runs(worker[w]) /\ worker[w].buffer # <<>>
    /\ findingQ' = Append(findingQ, Head(worker[w].buffer))
    /\ worker' = [worker EXCEPT ![w].buffer = Tail(@)]
    /\ UNCHANGED <<inbox, sent, slots, ghosts>>

\* A process that ends by itself joins its feeder threads.
WorkerExits(w) ==
    /\ worker[w].state = "leaving" /\ worker[w].buffer = <<>>
    /\ worker' = [worker EXCEPT ![w].state = "gone"]
    /\ UNCHANGED <<inbox, sent, slots, findingQ, ghosts>>

\* SIGTERM takes effect after all.
WorkerDies(w) ==
    /\ worker[w].state = "doomed"
    /\ worker' = [worker EXCEPT ![w].state = "gone"]
    /\ UNCHANGED <<inbox, sent, slots, findingQ, ghosts>>

\* An exception: a record that may be dropped uncounted, a fatal report without
\* operational_queue_drops, and a nonzero exit code.
WorkerFails(w) ==
    /\ worker[w].state \in {"running", "flushing"}
    /\ worker' = [worker EXCEPT ![w].state = "leaving", ![w].hand = None,
                                ![w].packets = @ + (IF worker[w].hand = None THEN 0 ELSE 1)]
    /\ sent' = Report(w, "fatal")
    /\ UNCHANGED <<inbox, slots, findingQ, ghosts>>

\* Killed from outside, or failing before it can report.
WorkerKilled(w) ==
    /\ Runs(worker[w])
    /\ worker' = [worker EXCEPT ![w] = Killed(@)]
    /\ UNCHANGED <<inbox, sent, slots, findingQ, ghosts>>

WorkerStep(w) ==
    /\ \/ /\ \/ WorkerReady(w) \/ WorkerHeartbeat(w) \/ TakePacket(w) \/ AnalysePacket(w)
             \/ TakeStop(w) \/ EmitHeld(w) \/ WorkerStops(w) \/ Feed(w)
             \/ WorkerExits(w) \/ WorkerDies(w)
          /\ UNCHANGED deaths
       \/ /\ WorkerFails(w) \/ WorkerKilled(w)
          /\ deaths < MaxDeaths /\ deaths' = deaths + 1
    /\ UNCHANGED <<control, counters, operationQ, lostEvents, writer, writerSent, files,
                   stopRequested, incomplete, restarts, ring>>
-----------------------------------------------------------------------------
(***************************************************************************)
(* writer_process                                                          *)
(***************************************************************************)

\* Both files are open and distinct.
WriterReady ==
    /\ writer.state = "starting"
    /\ writer' = [writer EXCEPT !.state = "running"]
    /\ writerSent' = [state |-> "ready", written |-> 0]
    /\ UNCHANGED <<findingQ, slots, operationQ, files>>

\* It matters only while "ready" is awaited: run() reads nothing else of it.
WriterHeartbeat ==
    /\ writer.state = "running" /\ writerSent.state = "ready" /\ phase = "awaitWriter"
    /\ writerSent' = [state |-> "heartbeat", written |-> Len(file)]
    /\ UNCHANGED <<writer, findingQ, slots, operationQ, files>>

\* Mutant: a finding is written before it is taken from the queue.
WriteFindingTwice ==
    /\ writer.state = "running" /\ ~writer.findingsStopped /\ findingQ # <<>>
    /\ IF Head(findingQ) = Stop
         THEN writer' = [writer EXCEPT !.findingsStopped = TRUE] /\ UNCHANGED file
         ELSE file' = Append(file, Head(findingQ)) /\ UNCHANGED writer
    /\ \/ findingQ' = Tail(findingQ) /\ slots' = slots + 1
       \/ UNCHANGED <<findingQ, slots>>
    /\ UNCHANGED <<writerSent, operationQ, recorded, durable>>

WriteFinding ==
    /\ writer.state = "running" /\ ~writer.findingsStopped /\ findingQ # <<>>
    /\ findingQ' = Tail(findingQ) /\ slots' = slots + 1
    /\ IF Head(findingQ) = Stop
         THEN writer' = [writer EXCEPT !.findingsStopped = TRUE] /\ UNCHANGED file
         ELSE file' = Append(file, Head(findingQ)) /\ UNCHANGED writer
    /\ UNCHANGED <<writerSent, operationQ, recorded, durable>>

WriteOperation ==
    /\ writer.state = "running" /\ ~writer.operationsStopped /\ operationQ # <<>>
    /\ operationQ' = Tail(operationQ)
    /\ writer' = [writer EXCEPT !.operationsStopped = Head(operationQ) = "stop"]
    /\ recorded' = (recorded \/ Head(operationQ) = "record")
    /\ UNCHANGED <<writerSent, findingQ, slots, file, durable>>

\* writer_stopped, flush and fsync; then the report.
CloseFiles ==
    /\ writer.state = "running" /\ writer.findingsStopped /\ writer.operationsStopped
    /\ durable' = TRUE
    /\ writer' = [writer EXCEPT !.state = "leaving", !.clean = TRUE]
    /\ writerSent' = [state |-> "stopped", written |-> Len(file)]
    /\ UNCHANGED <<findingQ, slots, operationQ, file, recorded>>

WriterExits ==
    /\ writer.state = "leaving"
    /\ writer' = [writer EXCEPT !.state = "gone"]
    /\ UNCHANGED <<writerSent, findingQ, slots, operationQ, files>>

\* SIGTERM takes effect after all.
WriterDies ==
    /\ writer.state = "doomed"
    /\ writer' = [writer EXCEPT !.state = "gone"]
    /\ UNCHANGED <<writerSent, findingQ, slots, operationQ, files>>

\* An unsafe destination, a full disk or a kill.
WriterFails ==
    /\ Runs(writer)
    /\ writer' = Killed(writer)
    /\ UNCHANGED <<writerSent, findingQ, slots, operationQ, files>>

WriterStep ==
    /\ \/ /\ \/ WriterReady \/ WriterHeartbeat \/ WriteFinding \/ WriteOperation
             \/ CloseFiles \/ WriterExits \/ WriterDies
          /\ UNCHANGED deaths
       \/ WriterFails /\ deaths < MaxDeaths /\ deaths' = deaths + 1
    /\ UNCHANGED <<control, counters, inbox, lostEvents, worker, sent, ghosts,
                   stopRequested, incomplete, restarts, ring>>

\* dumpcap exits by itself.
RingStops ==
    /\ ring = "running" /\ phase # "ended"
    /\ ring' = "stopped"
    /\ UNCHANGED <<control, counters, queues, lostEvents, children, files, ghosts,
                   stopRequested, incomplete, restarts, deaths>>
-----------------------------------------------------------------------------
Supervise ==
    \/ StartWriter \/ WriterAcknowledged \/ SpawnWorker \/ (\E w \in Workers : SeeReady(w))
    \/ OpenRing \/ OpenSource \/ StartupFails
    \/ CleanUp \/ CleanUpRaises \/ CleanUpWorker \/ CleanUpQueues \/ CleanUpWriter
    \/ Read \/ ReadFails \/ LeaveLoop \/ CheckChildren
    \/ StopRing \/ ShutdownRaises \/ StopWorkers \/ StopWriter \/ JoinWriter \/ Conclude
    \/ DeadlinePasses

Next ==
    \/ Supervise
    \/ RequestStop \/ RingStops
    \/ \E w \in Workers : WorkerStep(w)
    \/ WriterStep
    \/ phase = "ended" /\ UNCHANGED vars

Spec == Init /\ [][Next]_vars

\* Only the supervisor is fair: a child may stop making progress at any time, and
\* nothing below relies on one.
FairSpec == Spec /\ WF_vars(Supervise)
-----------------------------------------------------------------------------
(***************************************************************************)
(* Properties                                                              *)
(***************************************************************************)

\* A verdict "complete" means what README.md says: every captured IP packet was
\* dispatched and analysed, everything detected is in the evidence file, and
\* the file was closed durably after the stop record was written.
CompleteIsTrue ==
    outcome = "complete" =>
        /\ dispatched = (1 .. captured) \ ignored /\ analysed = dispatched
        /\ ToSet(file) = found /\ Len(file) = Cardinality(found)
        /\ recorded /\ durable

\* Nor was an operational record dropped in a complete session: not by run(), and
\* not by a worker, each of them the process started first, which ended by itself.
CompleteDroppedNothing ==
    outcome = "complete" =>
        /\ ~lostEvents
        /\ \A w \in Workers : worker[w].pid = 1 /\ worker[w].clean /\ ~worker[w].drops

\* The writer appends no finding twice and none that was not detected,
\* whatever dies or is restarted.
WrittenOnce == ToSet(file) \subseteq found /\ IsInjective(file)

\* When run() has returned or raised, every child has ended or got SIGTERM, unless
\* an exception cut the shutdown or the cleanup short.  A worker that was spawned
\* before the spawn of a later one failed has at least been sent the stop marker.
NoChildForgotten ==
    phase = "ended" /\ outcome # "abandoned" =>
        /\ ~Runs(writer)
        /\ \A w \in Workers :
              \/ ~Runs(worker[w])
              \/ /\ outcome = "startup" /\ ~Listed
                 /\ Stop \in ToSet(inbox[w]) \/ worker[w].state \in {"flushing", "leaving"}

\* README.md: at shutdown the CLI reports complete, or incomplete with the reasons.
\* A session that neither failed to start nor met an error ends with a verdict,
\* except that a stop request which meets the replacement of a dead worker ends
\* it with KeyboardInterrupt: never one that would have been complete.
VerdictUnlessInterrupted ==
    phase = "ended" =>
        \/ outcome \in {"complete", "incomplete", "startup", "error", "abandoned"}
        \/ stopRequested /\ incomplete /\ \E w \in Workers : worker[w].pid > 1

\* A requested stop ends the session, whatever the children do.
SessionEnds == stopRequested ~> phase = "ended"

\* "capture halted to prevent silent evidence loss": the session does not
\* survive its writer.
WriterFailureHalts == (writer.state = "gone") ~> phase = "ended"

==============================================================================
