---------------------------- MODULE TcpReassembly ----------------------------
(***************************************************************************)
(* TCPReassembler of reassembly.py: a table of flows in the order of their *)
(* last activity, bounded in flows, in queued bytes and in queued          *)
(* segments, that turns TCP packets into chunks of contiguous bytes.       *)
(*                                                                         *)
(* process is one long handler; here it is the composition of its stages,  *)
(* each an operator from one table to the next, so that a Receive step is  *)
(* the whole handler.  time.monotonic_ns() is a clock that advances with   *)
(* every call.                                                             *)
(***************************************************************************)
EXTENDS TcpStream

CONSTANTS
    Packets,       \* [flow, dir, syn, ack, fin, rst, seq, ackno, len, val] records
    MaxFlows,      \* max_flows_per_worker
    MaxPending,    \* bytes queued per direction
    MaxSegments,   \* segments queued per direction
    MaxBuffered,   \* bytes queued by all flows
    MaxBufferedSegments,
    Idle,          \* flow_idle_seconds
    MaxTime        \* bound: clock values in a behaviour

ASSUME TcpReassemblyAssumption ==
    /\ {MaxFlows, MaxPending, MaxSegments, MaxBuffered, MaxBufferedSegments} \subseteq Nat \ {0}
    /\ Idle \in Nat /\ MaxTime \in Nat
    /\ \A p \in Packets : /\ p.dir \in {0, 1} /\ p.seq \in 0 .. SeqModulus - 1
                          /\ p.ackno \in 0 .. SeqModulus - 1 /\ p.len \in Nat

VARIABLES
    flows,     \* _flows: active flow -> connection epoch, directions, last activity
    order,     \* the keys of _flows, as the OrderedDict keeps them
    nextEpoch, \* _next_connection_epoch
    buffered,  \* _buffered_bytes
    segments,  \* _buffered_segments
    stats,     \* the diagnostic counters
    out,       \* the chunks handed to the detectors, in order
    clock,
    stopped,   \* flush_all has run
    received,  \* history: payload bytes accepted by process
    first      \* history: the first value seen for a sequence number of a direction

vars == <<flows, order, nextEpoch, buffered, segments, stats, out, clock, stopped,
          received, first>>

NoStats == [retransmitted |-> 0, keepalive |-> 0, conflicts |-> 0, gapBytes |-> 0,
            evicted |-> 0, budgetEvicted |-> 0, expired |-> 0]

Init ==
    /\ flows = <<>>
    /\ order = <<>>
    /\ nextEpoch = 1
    /\ buffered = 0
    /\ segments = 0
    /\ stats = NoStats
    /\ out = <<>>
    /\ clock = 0
    /\ stopped = FALSE
    /\ received = 0
    /\ first = {}

Table == [flows |-> flows, order |-> order, nextEpoch |-> nextEpoch,
          buffered |-> buffered, segments |-> segments, stats |-> stats, out |-> out]

Commit(t) ==
    /\ flows' = t.flows
    /\ order' = t.order
    /\ nextEpoch' = t.nextEpoch
    /\ buffered' = t.buffered
    /\ segments' = t.segments
    /\ stats' = t.stats
    /\ out' = t.out
-----------------------------------------------------------------------------
(***************************************************************************)
(* Emptying directions and removing flows                                  *)
(***************************************************************************)

\* Hand out the queued bytes of one direction up to stop.
Emit(t, k, dir, stop) ==
    LET d == t.flows[k].dirs[dir]
        gone == Gone(d, stop)
        fresh == Cardinality(Fresh(d, stop))
        labelled(c) == [flow |-> k, epoch |-> t.flows[k].epoch, dir |-> dir,
                        offset |-> c.offset, start |-> c.start, data |-> c.data,
                        completeness |-> c.completeness]
    IN  [t EXCEPT !.flows[k].dirs[dir] = Advance(d, stop),
                  !.buffered = @ - Bytes(gone),
                  !.segments = @ - Cardinality(gone),
                  !.stats.retransmitted = @ + Bytes(gone) - fresh,
                  !.stats.gapBytes = @ + (stop - d.next) - fresh,
                  !.out = @ \o [i \in DOMAIN Chunks(d, stop) |-> labelled(Chunks(d, stop)[i])]]

\* _flush_direction
Flush(t, k, dir) ==
    LET d == t.flows[k].dirs[dir]
    IN  IF d.pending = {} THEN t ELSE Emit(t, k, dir, LastStop(d))

FlushFlow(t, k) == Flush(Flush(t, k, 0), k, 1)

\* _remove_flow
RemoveFlow(t, k) ==
    LET dirs == t.flows[k].dirs
    IN  [t EXCEPT !.flows = [j \in DOMAIN t.flows \ {k} |-> t.flows[j]],
                  !.order = RemoveFirst(@, k),
                  !.buffered = @ - dirs[0].pendingBytes - dirs[1].pendingBytes,
                  !.segments = @ - Cardinality(dirs[0].pending) - Cardinality(dirs[1].pending)]

\* Flush both directions, then drop the flow.
Retire(t, k) == RemoveFlow(FlushFlow(t, k), k)

RetireFirst(t, n) == FoldLeft(Retire, t, SubSeq(t.order, 1, n))

\* _evict_oldest, n times
Evict(t, n) == [RetireFirst(t, n) EXCEPT !.stats.evicted = @ + n]

WithinBudget(t) == t.buffered <= MaxBuffered /\ t.segments <= MaxBufferedSegments

\* The oldest flows go until the budgets hold.
EvictOverBudget(t) ==
    LET n == Min({k \in 0 .. Len(t.order) : WithinBudget(RetireFirst(t, k)) \/ k = Len(t.order)})
    IN  [Evict(t, n) EXCEPT !.stats.budgetEvicted = @ + n]
-----------------------------------------------------------------------------
(***************************************************************************)
(* The stages of process                                                   *)
(***************************************************************************)

\* A SYN that does not repeat the one of the open connection starts a new one.
NewConnection(t, p) ==
    IF /\ p.syn /\ ~p.ack
       /\ p.flow \in DOMAIN t.flows
       /\ \/ t.flows[p.flow].dirs[p.dir].syn # p.seq
          \/ t.flows[p.flow].dirs[p.dir].closed
      THEN Retire(t, p.flow)
      ELSE t

\* Mutant: a known flow keeps its place in the order.
TouchInPlace(t, p) ==
    IF p.flow \in DOMAIN t.flows
      THEN [t EXCEPT !.flows[p.flow].activity = clock]
      ELSE [t EXCEPT !.flows = [k \in DOMAIN t.flows \cup {p.flow} |->
                                  IF k = p.flow
                                    THEN [epoch |-> t.nextEpoch, activity |-> clock,
                                          dirs |-> [d \in {0, 1} |-> NewDirection]]
                                    ELSE t.flows[k]],
                     !.order = Append(@, p.flow),
                     !.nextEpoch = @ + 1]

\* while len(self._flows) >= self.max_flows: evict
RoomForFlow(t) == Evict(t, Max({0, Len(t.order) - MaxFlows + 1}))

\* The flow becomes the most recent one; a new one needs room in the table.
Touch(t, p) ==
    IF p.flow \in DOMAIN t.flows
      THEN [t EXCEPT !.flows[p.flow].activity = clock,
                     !.order = Append(RemoveFirst(@, p.flow), p.flow)]
      ELSE LET r == RoomForFlow(t)
           IN  [r EXCEPT !.flows = [k \in DOMAIN r.flows \cup {p.flow} |->
                                      IF k = p.flow
                                        THEN [epoch |-> r.nextEpoch, activity |-> clock,
                                              dirs |-> [d \in {0, 1} |-> NewDirection]]
                                        ELSE r.flows[k]],
                         !.order = Append(@, p.flow),
                         !.nextEpoch = @ + 1]

\* What the peer has acknowledged, needed to recognise a keepalive.
TrackAck(t, p) ==
    LET peer == t.flows[p.flow].dirs[1 - p.dir]
        acked == Unwrap(p.ackno, peer.next)
    IN  IF p.ack /\ peer.next # NoSeq /\ (peer.acked = NoSeq \/ acked > peer.acked)
          THEN [t EXCEPT !.flows[p.flow].dirs[1 - p.dir].acked = acked]
          ELSE t

PayloadSequence(p) == (p.seq + (IF p.syn THEN 1 ELSE 0)) % SeqModulus

\* The first SYN or payload of a direction fixes where its stream begins.
Anchor(t, p) ==
    LET d == t.flows[p.flow].dirs[p.dir]
        anchored == IF d.next = NoSeq /\ (p.syn \/ p.len > 0)
                      THEN [d EXCEPT !.next = PayloadSequence(p), !.midstream = ~p.syn]
                      ELSE d
    IN  [t EXCEPT !.flows[p.flow].dirs[p.dir] =
            IF p.syn /\ d.syn = NoSeq THEN [anchored EXCEPT !.syn = p.seq] ELSE anchored]

SegmentOf(d, p) ==
    LET start == Unwrap(PayloadSequence(p), d.next)
    IN  [start |-> start, end |-> start + p.len, val |-> p.val]

\* RFC 9293 keepalive: one octet below the next position, already acknowledged.
IsKeepalive(d, p) ==
    /\ p.len = 1
    /\ p.ack /\ ~p.syn /\ ~p.fin /\ ~p.rst
    /\ SegmentOf(d, p).start = d.next - 1
    /\ d.acked # NoSeq /\ d.acked >= d.next

\* The stop that brings the direction within its limits: the contiguous bytes
\* always go, and then as many runs as it takes.
StopWithinLimits(d) ==
    Min({stop \in Stops(d) :
            /\ stop >= RunEnd(d.pending, d.next)
            /\ LET rest == d.pending \ Gone(d, stop)
               IN  Bytes(rest) <= MaxPending /\ Cardinality(rest) <= MaxSegments})

\* The payload: bytes below the next position are retransmissions, the part no
\* queued segment covers is queued, and what became contiguous is handed out.
AcceptPayload(t, p) ==
    LET d == t.flows[p.flow].dirs[p.dir]
        segment == SegmentOf(d, p)
        new == [segment EXCEPT !.start = Max({@, d.next})]
        additions == Uncovered(new, d.pending)
        queued == [d EXCEPT !.pending = @ \cup additions,
                            !.pendingBytes = @ + Bytes(additions)]
        stale == [t EXCEPT !.stats.conflicts = @ + ConsumedConflict(d, segment),
                           !.stats.retransmitted = @ + p.len]
        grown == [t EXCEPT !.flows[p.flow].dirs[p.dir] = queued,
                           !.buffered = @ + Bytes(additions),
                           !.segments = @ + Cardinality(additions),
                           !.stats.retransmitted = @ + p.len - Bytes(additions),
                           !.stats.conflicts = @ + ConsumedConflict(d, segment)
                                                 + PendingConflicts(d, new)]
    IN  IF segment.end <= d.next
          THEN stale
          ELSE EvictOverBudget(Emit(grown, p.flow, p.dir, StopWithinLimits(queued)))

\* Mutant: the end of a flow drops what the other direction still queues.
CloseOneSided(t, p) ==
    LET ended == [Flush(t, p.flow, p.dir) EXCEPT !.flows[p.flow].dirs[p.dir].closed = TRUE]
        now == IF p.fin \/ p.rst THEN ended ELSE t
        over == p.rst \/ \A d \in {0, 1} : now.flows[p.flow].dirs[d].closed
    IN  IF over THEN RemoveFlow(now, p.flow) ELSE now

\* FIN and RST end a direction; RST, or the second FIN, ends the flow.
Close(t, p) ==
    LET ended == [Flush(t, p.flow, p.dir) EXCEPT !.flows[p.flow].dirs[p.dir].closed = TRUE]
        now == IF p.fin \/ p.rst THEN ended ELSE t
        over == p.rst \/ \A d \in {0, 1} : now.flows[p.flow].dirs[d].closed
    IN  IF over THEN RemoveFlow(Flush(now, p.flow, 1 - p.dir), p.flow) ELSE now

\* The budgets may have evicted the packet's own flow: then process returns.
Finish(t, p) == IF p.flow \in DOMAIN t.flows THEN Close(t, p) ELSE t

Process(t, p) ==
    LET open == Anchor(TrackAck(Touch(NewConnection(t, p), p), p), p)
    IN  IF p.len = 0 THEN Close(open, p)
        ELSE IF IsKeepalive(open.flows[p.flow].dirs[p.dir], p)
          THEN [open EXCEPT !.stats.keepalive = @ + 1]
          ELSE Finish(AcceptPayload(open, p), p)
-----------------------------------------------------------------------------
\* What the packet is the first to say, by connection epoch, direction and
\* sequence number on the wire.
FirstSeen(p) ==
    LET open == Anchor(TrackAck(Touch(NewConnection(Table, p), p), p), p)
        f == open.flows[p.flow]
    IN  IF p.len = 0 \/ IsKeepalive(f.dirs[p.dir], p) THEN {}
        ELSE {r \in [epoch : {f.epoch}, dir : {p.dir},
                     seq : {(PayloadSequence(p) + j) % SeqModulus : j \in 0 .. p.len - 1},
                     val : {p.val}] :
                ~\E q \in first : q.epoch = r.epoch /\ q.dir = r.dir /\ q.seq = r.seq}

Receive(p) ==
    /\ ~stopped
    /\ clock < MaxTime
    /\ Commit(Process(Table, p))
    /\ clock' = clock + 1
    /\ received' = received + p.len
    /\ first' = first \cup FirstSeen(p)
    /\ UNCHANGED stopped

\* Nothing arrives for a while.
Pause ==
    /\ clock < MaxTime
    /\ clock' = clock + Idle
    /\ UNCHANGED <<flows, order, nextEpoch, buffered, segments, stats, out, stopped,
                   received, first>>

IsIdle(k) == clock - flows[k].activity >= Idle

\* expire(): the scan stops at the first flow that is not idle.
Stale ==
    Max({n \in 0 .. Len(order) : \A i \in 1 .. n : IsIdle(order[i])})

Expire ==
    /\ ~stopped
    /\ Stale > 0
    /\ Commit([RetireFirst(Table, Stale) EXCEPT !.stats.expired = @ + Stale])
    /\ UNCHANGED <<clock, stopped, received, first>>

\* flush_all(completeness="gapped") at the end of the session.
FlushAll ==
    /\ ~stopped
    /\ stopped' = TRUE
    /\ LET t == RetireFirst(Table, Len(order))
       IN  Commit([t EXCEPT !.out = [i \in DOMAIN t.out |->
              IF i > Len(out) THEN [t.out[i] EXCEPT !.completeness = "gapped"] ELSE t.out[i]]])
    /\ UNCHANGED <<clock, received, first>>

Next ==
    \/ \E p \in Packets : Receive(p)
    \/ Pause
    \/ Expire
    \/ FlushAll
    \/ stopped /\ UNCHANGED vars

Spec == Init /\ [][Next]_vars
-----------------------------------------------------------------------------
(***************************************************************************)
(* Properties                                                              *)
(***************************************************************************)

Directions == {<<k, d>> : k \in DOMAIN flows, d \in {0, 1}}

Dir(kd) == flows[kd[1]].dirs[kd[2]]

SameStream(i, j) == out[i].epoch = out[j].epoch /\ out[i].dir = out[j].dir

ChunkEnd(i) == out[i].offset + Len(out[i].data)

\* "Each byte is emitted at most once" and in order: the chunks of a direction of
\* a connection never overlap, whatever is retransmitted, and an epoch belongs
\* to one flow.
EmittedOnce ==
    \A i, j \in DOMAIN out :
        i < j /\ SameStream(i, j) => ChunkEnd(i) <= out[j].offset /\ out[i].flow = out[j].flow

\* "preserve first-seen bytes": an emitted byte is the one the first packet that
\* carried its sequence number had, across overlaps, trims and wrap-around (for
\* streams shorter than the sequence space).
FirstBytesWin ==
    \A i \in DOMAIN out : \A j \in DOMAIN out[i].data :
        [epoch |-> out[i].epoch, dir |-> out[i].dir,
         seq |-> (out[i].start + j - 1) % SeqModulus, val |-> out[i].data[j]] \in first

\* A direction that saw its SYN and skipped nothing has handed out all it could:
\* it waits for the first sequence number after the SYN that no packet carried.
\* Bytes that arrived in any order are neither held back nor taken for old ones.
PromptDelivery ==
    \A kd \in Directions :
        LET d == Dir(kd)
            number(i) == (d.syn + 1 + i) % SeqModulus
            arrived(i) == \E r \in first : /\ r.epoch = flows[kd[1]].epoch
                                          /\ r.dir = kd[2] /\ r.seq = number(i)
        IN  d.next # NoSeq /\ ~d.midstream /\ ~d.gap =>
                d.next % SeqModulus =
                    number(Min({i \in 0 .. SeqModulus - 1 : ~arrived(i)}))

\* "Sequence discontinuities advance the stream offset": offset and sequence
\* position of a direction move in step.
OffsetsFollowSequence ==
    \A i, j \in DOMAIN out :
        SameStream(i, j) => out[j].start - out[i].start = out[j].offset - out[i].offset

\* A chunk that is not marked gapped has everything before it: detectors may
\* join it to the bytes they have.
NoHiddenGap ==
    \A j \in DOMAIN out :
        out[j].completeness # "gapped" =>
            out[j].offset = SumFunction([i \in {i \in DOMAIN out : i < j /\ SameStream(i, j)} |->
                                            Len(out[i].data)])

\* Whenever process has returned, the table and its order have the same flows,
\* the counters the budgets look at are the queued bytes and segments, and all
\* limits hold.
BudgetsReconcile ==
    /\ ToSet(order) = DOMAIN flows /\ Len(order) = Cardinality(DOMAIN flows)
    /\ buffered = SumFunction([kd \in Directions |-> Bytes(Dir(kd).pending)])
    /\ segments = SumFunction([kd \in Directions |-> Cardinality(Dir(kd).pending)])
    /\ \A kd \in Directions :
          /\ Dir(kd).pendingBytes = Bytes(Dir(kd).pending)
          /\ Dir(kd).pendingBytes <= MaxPending /\ Cardinality(Dir(kd).pending) <= MaxSegments
    /\ Cardinality(DOMAIN flows) <= MaxFlows
    /\ buffered <= MaxBuffered /\ segments <= MaxBufferedSegments

\* Every payload byte is emitted, queued, or counted as a retransmission.
PayloadConserved ==
    received = SumFunction([i \in DOMAIN out |-> Len(out[i].data)])
               + buffered + stats.retransmitted + stats.keepalive

\* Queued segments are disjoint, wait behind a gap, and know what they wait for:
\* a flush always terminates.
PendingWaits ==
    \A kd \in Directions :
        LET d == Dir(kd)
        IN  /\ \A s \in d.pending : d.next # NoSeq /\ d.next < s.start /\ s.start < s.end
            /\ \A s, t \in d.pending : s # t => ~Overlap(s, t)

\* The scan of expire may stop at the first flow that is not idle.
ExpiryFindsAllIdle == \A i, j \in DOMAIN order : i < j /\ IsIdle(order[j]) => IsIdle(order[i])

==============================================================================
