---------------------------- MODULE WorkerQueues ----------------------------
(***************************************************************************)
(* The bounded queues between the capture process and the analysis         *)
(* workers (packet_audit/supervisor.py and packet_audit/worker.py).        *)
(*                                                                         *)
(* The capture loop reads a batch of frames, routes them to shards and     *)
(* calls _dispatch_batch once per shard.  A dispatch reserves the bytes of *)
(* the batch in a counter shared with the worker, counts the batch in a    *)
(* second shared counter, and only then puts the batch in the queue.  A    *)
(* worker takes a batch, analyses its packets and releases both            *)
(* reservations in a finally block.  Each shared counter has its own lock, *)
(* so the two processes interleave between any two of these steps, and a   *)
(* worker can die between them: by an exception (its finally block runs)   *)
(* or killed by the operating system (it does not run).                    *)
(*                                                                         *)
(* Packets are counted, not represented.  The session's packet counters   *)
(* are split by shard (the code keeps their sums), and frames rejected     *)
(* before routing do not appear: they are counted where they are read and  *)
(* never reach a queue.  The peak values of the health record are left     *)
(* out.  The forwarded-copy suppressor is off, as it is by default.        *)
(***************************************************************************)
EXTENDS Integers, Sequences, Functions

CONSTANTS
    NumWorkers,   \* config.workers
    QueueSize,    \* config.queue_size, batches a worker queue can buffer
    MaxBytes,     \* config.max_worker_queue_bytes
    Batches,      \* the batches a capture read can route to one shard
    MaxReads,     \* bound: capture reads in a behaviour
    MaxDeaths     \* bound: worker deaths in a behaviour

ASSUME WorkerQueuesAssumption ==
    /\ NumWorkers \in Nat \ {0}
    /\ QueueSize \in Nat \ {0}
    /\ MaxBytes \in Nat
    /\ Batches \subseteq [n : Nat \ {0}, bytes : Nat]
    /\ MaxReads \in Nat
    /\ MaxDeaths \in Nat

Workers == 0 .. NumWorkers - 1

\* _dispatch_batch returns at once for a shard that received no packet.
NoBatch == [n |-> 0, bytes |-> 0]

Batch == Batches \cup {NoBatch}

VARIABLES
    offline,        \* a replay, which waits for room instead of dropping; never changes
    pc,             \* where the capture process is in its loop
    shard,          \* the shard whose batch is being dispatched
    pending,        \* the batches of the current read, by shard
    aborting,       \* the admission in progress ends in an exception
    stopRequested,  \* request_stop has run
    queue,          \* worker_queues
    byteCounter,    \* worker_queue_byte_counters
    batchCounter,   \* worker_queue_batch_counters
    captured,       \* captured_packets routed to each shard
    dispatched,     \* dispatched_packets
    slotDrops,      \* worker_queue_slot_dropped_packets
    budgetDrops,    \* worker_queue_byte_budget_dropped_packets
    history,        \* worker_restart_history, the deaths seen in the last 60 s
    wpc,            \* where each worker is in its loop
    hand,           \* the batch each worker has taken
    left,           \* packets of that batch not yet analysed
    dying,          \* the worker is leaving its loop by an exception
    processed,      \* packets analysed by all incarnations of the worker
    leakedBatches,  \* history: batches taken by a killed worker, never released
    leakedBytes,    \* history: their bytes
    reads,          \* bound: capture reads so far
    deaths          \* bound: worker deaths so far

captureVars == <<offline, pc, shard, pending, aborting, stopRequested, captured,
                 dispatched, slotDrops, budgetDrops, history, reads>>
sharedVars  == <<queue, byteCounter, batchCounter>>
workerVars  == <<wpc, hand, left, dying, processed, leakedBatches,
                 leakedBytes, deaths>>
vars == <<captureVars, sharedVars, workerVars>>

Init ==
    /\ offline \in BOOLEAN
    /\ pc = "read"
    /\ shard = 0
    /\ pending = [w \in Workers |-> NoBatch]
    /\ aborting = FALSE
    /\ stopRequested = FALSE
    /\ queue = [w \in Workers |-> <<>>]
    /\ byteCounter = [w \in Workers |-> 0]
    /\ batchCounter = [w \in Workers |-> 0]
    /\ captured = [w \in Workers |-> 0]
    /\ dispatched = [w \in Workers |-> 0]
    /\ slotDrops = [w \in Workers |-> 0]
    /\ budgetDrops = [w \in Workers |-> 0]
    /\ history = [w \in Workers |-> 0]
    /\ wpc = [w \in Workers |-> "idle"]
    /\ hand = [w \in Workers |-> NoBatch]
    /\ left = [w \in Workers |-> 0]
    /\ dying = [w \in Workers |-> FALSE]
    /\ processed = [w \in Workers |-> 0]
    /\ leakedBatches = [w \in Workers |-> 0]
    /\ leakedBytes = [w \in Workers |-> 0]
    /\ reads = 0
    /\ deaths = 0
-----------------------------------------------------------------------------
(***************************************************************************)
(* The capture process                                                     *)
(***************************************************************************)
\* The shard's batch has been accounted for: go on with the next shard, and
\* with the health check once every shard has been served.
NextShard ==
    /\ pending' = [pending EXCEPT ![shard] = NoBatch]
    /\ IF shard + 1 < NumWorkers
         THEN pc' = "dispatch" /\ shard' = shard + 1
         ELSE pc' = "check" /\ shard' = 0

\* counter.value = max(0, counter.value - units), under the counter's lock.
Released(value, units) == IF units <= value THEN value - units ELSE 0

\* A signal handler only sets the flag the loops look at.
RequestStop ==
    /\ ~stopRequested
    /\ pc \notin {"stopped", "raised"}
    /\ stopRequested' = TRUE
    /\ UNCHANGED <<offline, pc, shard, pending, aborting, captured, dispatched,
                   slotDrops, budgetDrops, history, reads, sharedVars, workerVars>>

\* One read of the source: its packets are routed to the shards.  A live read
\* can be empty.
Route ==
    /\ pc = "read"
    /\ ~stopRequested
    /\ reads < MaxReads
    /\ \E routed \in [Workers -> Batch] :
          /\ pending' = routed
          /\ captured' = [w \in Workers |-> captured[w] + routed[w].n]
    /\ reads' = reads + 1
    /\ shard' = 0
    /\ UNCHANGED <<offline, aborting, stopRequested, dispatched, slotDrops, budgetDrops,
                   history, sharedVars, workerVars>>

ReadBatch == Route /\ pc' = "dispatch"

\* The source or the parser raises in the middle of a read: what the read has
\* routed so far is counted as captured and never dispatched.
ReadFails == Route /\ pc' = "raised"

\* The loop ends on a stop request, or when a replay reaches the end of file.
LeaveLoop ==
    /\ pc = "read"
    /\ stopRequested \/ offline
    /\ pc' = "stopped"
    /\ UNCHANGED <<offline, shard, pending, aborting, stopRequested, captured,
                   dispatched, slotDrops, budgetDrops, history, reads,
                   sharedVars, workerVars>>

\* A shard without packets: _dispatch_batch returns at once.
SkipShard ==
    /\ pc = "dispatch"
    /\ pending[shard] = NoBatch
    /\ NextShard
    /\ UNCHANGED <<offline, aborting, stopRequested, captured, dispatched,
                   slotDrops, budgetDrops, history, reads, sharedVars, workerVars>>
FitsBudget(w) == byteCounter[w] + pending[w].bytes <= MaxBytes

\* Test and reservation are one critical section of the counter's lock.
ReserveBytes ==
    /\ pc = "dispatch"
    /\ pending[shard] # NoBatch
    /\ FitsBudget(shard)
    /\ byteCounter' = [byteCounter EXCEPT ![shard] = @ + pending[shard].bytes]
    /\ pc' = "count"
    /\ UNCHANGED <<offline, shard, pending, aborting, stopRequested, captured,
                   dispatched, slotDrops, budgetDrops, history, reads, queue,
                   batchCounter, workerVars>>
\* Mutant: a replay gives up on a batch like a live session.
DropOverBudgetAlways ==
    /\ pc = "dispatch"
    /\ pending[shard] # NoBatch
    /\ ~FitsBudget(shard)
    /\ budgetDrops' = [budgetDrops EXCEPT ![shard] = @ + pending[shard].n]
    /\ NextShard
    /\ UNCHANGED <<offline, aborting, stopRequested, captured, dispatched,
                   slotDrops, history, reads, sharedVars, workerVars>>

\* No room for the bytes: a live session drops the batch, and so does a replay
\* whose batch can never fit.  Otherwise a replay keeps waiting (no step).
DropOverBudget ==
    /\ pc = "dispatch"
    /\ pending[shard] # NoBatch
    /\ ~FitsBudget(shard)
    /\ ~offline \/ pending[shard].bytes > MaxBytes
    /\ budgetDrops' = [budgetDrops EXCEPT ![shard] = @ + pending[shard].n]
    /\ NextShard
    /\ UNCHANGED <<offline, aborting, stopRequested, captured, dispatched,
                   slotDrops, history, reads, sharedVars, workerVars>>

CountBatch ==
    /\ pc = "count"
    /\ batchCounter' = [batchCounter EXCEPT ![shard] = @ + 1]
    /\ pc' = "put"
    /\ UNCHANGED <<offline, shard, pending, aborting, stopRequested, captured,
                   dispatched, slotDrops, budgetDrops, history, reads, queue,
                   byteCounter, workerVars>>
\* Mutant: one slot too many.
HasSlotOffByOne(w) == Len(queue[w]) <= QueueSize

HasSlot(w) == Len(queue[w]) < QueueSize

PutBatch ==
    /\ pc = "put"
    /\ HasSlot(shard)
    /\ queue' = [queue EXCEPT ![shard] = Append(@, pending[shard])]
    /\ dispatched' = [dispatched EXCEPT ![shard] = @ + pending[shard].n]
    /\ NextShard
    /\ UNCHANGED <<offline, aborting, stopRequested, captured, slotDrops,
                   budgetDrops, history, reads, byteCounter, batchCounter, workerVars>>

\* queue.Full in a live session: both reservations are taken back.
QueueFull ==
    /\ pc = "put"
    /\ ~HasSlot(shard)
    /\ ~offline
    /\ pc' = "undoBytes"
    /\ UNCHANGED <<offline, shard, pending, aborting, stopRequested, captured,
                   dispatched, slotDrops, budgetDrops, history, reads,
                   sharedVars, workerVars>>
\* Mutant: the rollback forgets the byte reservation.
UndoBytesForgotten ==
    /\ pc = "undoBytes"
    /\ pc' = "undoBatch"
    /\ UNCHANGED <<offline, shard, pending, aborting, stopRequested, captured,
                   dispatched, slotDrops, budgetDrops, history, reads, queue,
                   byteCounter, batchCounter, workerVars>>

UndoBytes ==
    /\ pc = "undoBytes"
    /\ byteCounter' = [byteCounter EXCEPT ![shard] = Released(@, pending[shard].bytes)]
    /\ pc' = "undoBatch"
    /\ UNCHANGED <<offline, shard, pending, aborting, stopRequested, captured,
                   dispatched, slotDrops, budgetDrops, history, reads, queue,
                   batchCounter, workerVars>>
\* Mutant: the rollback forgets the batch reservation.
UndoBatchForgotten ==
    /\ pc = "undoBatch"
    /\ \/ /\ ~aborting
          /\ slotDrops' = [slotDrops EXCEPT ![shard] = @ + pending[shard].n]
          /\ NextShard
       \/ /\ aborting
          /\ pc' = "raised"
          /\ UNCHANGED <<slotDrops, shard, pending>>
    /\ UNCHANGED <<offline, aborting, stopRequested, captured, dispatched,
                   budgetDrops, history, reads, queue, byteCounter,
                   batchCounter, workerVars>>

\* Mutant: a batch refused by a full queue is not counted as dropped.
UndoBatchUncounted ==
    /\ pc = "undoBatch"
    /\ batchCounter' = [batchCounter EXCEPT ![shard] = Released(@, 1)]
    /\ \/ ~aborting /\ NextShard
       \/ aborting /\ pc' = "raised" /\ UNCHANGED <<shard, pending>>
    /\ UNCHANGED <<offline, aborting, stopRequested, captured, dispatched,
                   slotDrops, budgetDrops, history, reads, queue, byteCounter,
                   workerVars>>

\* The batch is counted as dropped, unless an exception is being re-raised.
UndoBatch ==
    /\ pc = "undoBatch"
    /\ batchCounter' = [batchCounter EXCEPT ![shard] = Released(@, 1)]
    /\ \/ /\ ~aborting
          /\ slotDrops' = [slotDrops EXCEPT ![shard] = @ + pending[shard].n]
          /\ NextShard
       \/ /\ aborting
          /\ pc' = "raised"
          /\ UNCHANGED <<slotDrops, shard, pending>>
    /\ UNCHANGED <<offline, aborting, stopRequested, captured, dispatched,
                   budgetDrops, history, reads, queue, byteCounter, workerVars>>

\* A replay polls for room; its two polling loops look at the children and at
\* the stop flag between two attempts.
WaitingForBytes ==
    /\ offline
    /\ pc = "dispatch"
    /\ pending[shard] # NoBatch
    /\ ~FitsBudget(shard)
    /\ pending[shard].bytes <= MaxBytes

WaitingForSlot ==
    /\ offline
    /\ pc = "put"
    /\ ~HasSlot(shard)

\* The exception leaves _dispatch_batch: with nothing reserved yet it goes
\* straight to the caller, after a reservation through the rollback.
RaiseFromDispatch ==
    IF pc = "put"
      THEN pc' = "undoBytes" /\ aborting' = TRUE
      ELSE pc' = "raised" /\ UNCHANGED aborting

StopWhileWaiting ==
    /\ WaitingForBytes \/ WaitingForSlot
    /\ stopRequested
    /\ RaiseFromDispatch
    /\ UNCHANGED <<offline, shard, pending, stopRequested, captured, dispatched,
                   slotDrops, budgetDrops, history, reads, sharedVars, workerVars>>

\* _check_children on a worker that has exited: deaths older than a minute are
\* forgotten, the third recent one is fatal, and so is a replacement that does
\* not start or does not report ready in time: in that case it may still run.
\* It reads the same queue and shares the same two counters.
Replace(w) ==
    /\ wpc' = [wpc EXCEPT ![w] = "idle"]
    /\ hand' = [hand EXCEPT ![w] = NoBatch]
    /\ left' = [left EXCEPT ![w] = 0]
    /\ dying' = [dying EXCEPT ![w] = FALSE]
    /\ UNCHANGED <<processed, leakedBatches, leakedBytes, deaths>>

RecordDeath(w) ==
    \E recent \in 0 .. history[w] : history' = [history EXCEPT ![w] = recent + 1]

ReplaceWhileWaiting(w) ==
    /\ WaitingForBytes \/ WaitingForSlot
    /\ wpc[w] = "dead"
    /\ RecordDeath(w)
    /\ \/ /\ history'[w] < 3
          /\ Replace(w)
          /\ UNCHANGED <<pc, aborting>>
       \/ /\ RaiseFromDispatch
          /\ (history'[w] < 3 /\ Replace(w)) \/ UNCHANGED workerVars
    /\ UNCHANGED <<offline, shard, pending, stopRequested, captured, dispatched,
                   slotDrops, budgetDrops, reads, sharedVars>>

NextCheck ==
    IF shard + 1 < NumWorkers
      THEN shard' = shard + 1 /\ UNCHANGED pc
      ELSE shard' = 0 /\ pc' = "read"

CheckLiveWorker ==
    /\ pc = "check"
    /\ wpc[shard] # "dead"
    /\ NextCheck
    /\ UNCHANGED <<offline, pending, aborting, stopRequested, captured,
                   dispatched, slotDrops, budgetDrops, history, reads,
                   sharedVars, workerVars>>

CheckDeadWorker ==
    /\ pc = "check"
    /\ wpc[shard] = "dead"
    /\ RecordDeath(shard)
    /\ \/ /\ history'[shard] < 3
          /\ Replace(shard)
          /\ NextCheck
       \/ /\ pc' = "raised"
          /\ (history'[shard] < 3 /\ Replace(shard)) \/ UNCHANGED workerVars
          /\ UNCHANGED shard
    /\ UNCHANGED <<offline, pending, aborting, stopRequested, captured,
                   dispatched, slotDrops, budgetDrops, reads, sharedVars>>

\* _check_children raises for another child: the writer has died, a heartbeat is
\* stale, or the raw ring that a live session requires has stopped.
CheckRaises ==
    /\ pc = "check" \/ WaitingForBytes \/ WaitingForSlot
    /\ RaiseFromDispatch
    /\ UNCHANGED <<offline, shard, pending, stopRequested, captured, dispatched,
                   slotDrops, budgetDrops, history, reads, sharedVars, workerVars>>
-----------------------------------------------------------------------------
(***************************************************************************)
(* The workers                                                             *)
(***************************************************************************)

GetBatch(w) ==
    /\ wpc[w] = "idle"
    /\ queue[w] # <<>>
    /\ hand' = [hand EXCEPT ![w] = Head(queue[w])]
    /\ left' = [left EXCEPT ![w] = Head(queue[w]).n]
    /\ queue' = [queue EXCEPT ![w] = Tail(@)]
    /\ wpc' = [wpc EXCEPT ![w] = "work"]
    /\ UNCHANGED <<captureVars, byteCounter, batchCounter,
                   dying, processed, leakedBatches, leakedBytes, deaths>>
\* Mutant: the loop stops before the last packet of the batch.
AnalysePacketShort(w) ==
    /\ wpc[w] = "work"
    /\ processed' = [processed EXCEPT ![w] = @ + 1]
    /\ left' = [left EXCEPT ![w] = @ - 1]
    /\ wpc' = [wpc EXCEPT ![w] = IF left[w] <= 2 THEN "releaseBytes" ELSE "work"]
    /\ UNCHANGED <<captureVars, sharedVars, hand, dying, leakedBatches,
                   leakedBytes, deaths>>

\* A packet is counted before it is analysed; a malformed one is counted too.
\* The last packet of the batch leads to the finally block.
AnalysePacket(w) ==
    /\ wpc[w] = "work"
    /\ processed' = [processed EXCEPT ![w] = @ + 1]
    /\ left' = [left EXCEPT ![w] = @ - 1]
    /\ wpc' = [wpc EXCEPT ![w] = IF left[w] = 1 THEN "releaseBytes" ELSE "work"]
    /\ UNCHANGED <<captureVars, sharedVars, hand, dying, leakedBatches,
                   leakedBytes, deaths>>

\* An unexpected exception on a packet: the worker reports it, runs the finally
\* block and exits with a nonzero code.
FailOnPacket(w) ==
    /\ wpc[w] = "work"
    /\ deaths < MaxDeaths
    /\ deaths' = deaths + 1
    /\ processed' = [processed EXCEPT ![w] = @ + 1]
    /\ dying' = [dying EXCEPT ![w] = TRUE]
    /\ wpc' = [wpc EXCEPT ![w] = "releaseBytes"]
    /\ UNCHANGED <<captureVars, sharedVars, hand, left, leakedBatches, leakedBytes>>
\* Mutant: the finally block releases the batch but not its bytes.
ReleaseBytesForgotten(w) ==
    /\ wpc[w] = "releaseBytes"
    /\ wpc' = [wpc EXCEPT ![w] = "releaseBatch"]
    /\ UNCHANGED <<captureVars, sharedVars, hand, left, dying, processed,
                   leakedBatches, leakedBytes, deaths>>

ReleaseBytes(w) ==
    /\ wpc[w] = "releaseBytes"
    /\ byteCounter' = [byteCounter EXCEPT ![w] = Released(@, hand[w].bytes)]
    /\ wpc' = [wpc EXCEPT ![w] = "releaseBatch"]
    /\ UNCHANGED <<captureVars, queue, batchCounter, hand,
                   left, dying, processed, leakedBatches, leakedBytes, deaths>>

ReleaseBatch(w) ==
    /\ wpc[w] = "releaseBatch"
    /\ batchCounter' = [batchCounter EXCEPT ![w] = Released(@, 1)]
    /\ wpc' = [wpc EXCEPT ![w] = IF dying[w] THEN "dead" ELSE "idle"]
    /\ hand' = [hand EXCEPT ![w] = NoBatch]
    /\ left' = [left EXCEPT ![w] = 0]
    /\ UNCHANGED <<captureVars, queue, byteCounter, dying,
                   processed, leakedBatches, leakedBytes, deaths>>

HoldsBytes(w) == wpc[w] \in {"work", "releaseBytes"}

HoldsBatch(w) == wpc[w] \in {"work", "releaseBytes", "releaseBatch"}

\* The process is killed (out of memory, for one): no finally block runs, and
\* what it had taken stays reserved.
Kill(w) ==
    /\ wpc[w] # "dead"
    /\ deaths < MaxDeaths
    /\ deaths' = deaths + 1
    /\ wpc' = [wpc EXCEPT ![w] = "dead"]
    /\ leakedBytes' = [leakedBytes EXCEPT ![w] = @ + IF HoldsBytes(w) THEN hand[w].bytes ELSE 0]
    /\ leakedBatches' = [leakedBatches EXCEPT ![w] = @ + IF HoldsBatch(w) THEN 1 ELSE 0]
    /\ hand' = [hand EXCEPT ![w] = NoBatch]
    /\ left' = [left EXCEPT ![w] = 0]
    /\ UNCHANGED <<captureVars, sharedVars, dying, processed>>
-----------------------------------------------------------------------------
SessionOver == pc \in {"stopped", "raised"}

WorkerAtRest(w) == wpc[w] = "dead" \/ (wpc[w] = "idle" /\ queue[w] = <<>>)

\* Nothing is left to do; the shutdown protocol is module Session.
Finished ==
    /\ SessionOver
    /\ \A w \in Workers : WorkerAtRest(w)
    /\ UNCHANGED vars

Capture ==
    \/ RequestStop
    \/ ReadBatch
    \/ ReadFails
    \/ LeaveLoop
    \/ SkipShard
    \/ ReserveBytes
    \/ DropOverBudget
    \/ CountBatch
    \/ PutBatch
    \/ QueueFull
    \/ UndoBytes
    \/ UndoBatch
    \/ StopWhileWaiting
    \/ \E w \in Workers : ReplaceWhileWaiting(w)
    \/ CheckLiveWorker
    \/ CheckDeadWorker
    \/ CheckRaises

WorkerStep(w) ==
    \/ GetBatch(w)
    \/ AnalysePacket(w)
    \/ ReleaseBytes(w)
    \/ ReleaseBatch(w)

WorkerDeath(w) == FailOnPacket(w) \/ Kill(w)

Next ==
    \/ Capture
    \/ \E w \in Workers : WorkerStep(w) \/ WorkerDeath(w)
    \/ Finished

Spec == Init /\ [][Next]_vars

\* A live worker keeps running, and so does the capture loop; nothing forces a
\* stop request, the next read, a death or a failed check.
Progress ==
    \/ SkipShard \/ ReserveBytes \/ DropOverBudget \/ CountBatch \/ PutBatch
    \/ QueueFull \/ UndoBytes \/ UndoBatch \/ StopWhileWaiting
    \/ \E w \in Workers : ReplaceWhileWaiting(w)
    \/ CheckLiveWorker \/ CheckDeadWorker

FairSpec ==
    /\ Spec
    /\ WF_vars(Progress)
    /\ \A w \in Workers : WF_vars(WorkerStep(w))
-----------------------------------------------------------------------------
(***************************************************************************)
(* Properties                                                              *)
(***************************************************************************)

WorkerStates == {"idle", "work", "releaseBytes", "releaseBatch", "dead"}

\* Every variable has its type.
TypeOK ==
    /\ offline \in BOOLEAN
    /\ pc \in {"read", "dispatch", "count", "put", "undoBytes", "undoBatch",
               "check", "stopped", "raised"}
    /\ shard \in Workers
    /\ pending \in [Workers -> Batch]
    /\ aborting \in BOOLEAN
    /\ stopRequested \in BOOLEAN
    /\ queue \in [Workers -> Seq(Batches)]
    /\ byteCounter \in [Workers -> Nat]
    /\ batchCounter \in [Workers -> Nat]
    /\ captured \in [Workers -> Nat]
    /\ dispatched \in [Workers -> Nat]
    /\ slotDrops \in [Workers -> Nat]
    /\ budgetDrops \in [Workers -> Nat]
    /\ history \in [Workers -> Nat]
    /\ wpc \in [Workers -> WorkerStates]
    /\ hand \in [Workers -> Batch]
    /\ left \in [Workers -> Nat]
    /\ dying \in [Workers -> BOOLEAN]
    /\ processed \in [Workers -> Nat]
    /\ leakedBatches \in [Workers -> Nat]
    /\ leakedBytes \in [Workers -> Nat]
    /\ reads \in 0 .. MaxReads
    /\ deaths \in 0 .. MaxDeaths

\* What the dispatcher has reserved for a batch that is not in the queue yet.
ProducerBytes(w) ==
    IF shard = w /\ pc \in {"count", "put", "undoBytes"} THEN pending[w].bytes ELSE 0

ProducerBatches(w) ==
    IF shard = w /\ pc \in {"put", "undoBytes", "undoBatch"} THEN 1 ELSE 0

BytesIn(q) == SumFunction([i \in DOMAIN q |-> q[i].bytes])

QueuedBytes(w) == BytesIn(queue[w])

HeldBytes(w) == IF HoldsBytes(w) THEN hand[w].bytes ELSE 0

HeldBatches(w) == IF HoldsBatch(w) THEN 1 ELSE 0

\* The shared batch counter is exactly the batches buffered, the one in the
\* worker's hands, the one the dispatcher is putting, and those a killed worker
\* took with it: no interleaving of reservation, rollback and release loses or
\* doubles a unit, and the clamp at zero in both release paths never acts.
BatchesReconcile ==
    \A w \in Workers :
        batchCounter[w] = Len(queue[w]) + HeldBatches(w) + ProducerBatches(w)
                          + leakedBatches[w]

\* The same for the byte reservations, and with them the captured bytes really
\* in memory for a worker stay within its budget.
BytesReconcile ==
    \A w \in Workers :
        /\ byteCounter[w] = QueuedBytes(w) + HeldBytes(w) + ProducerBytes(w)
                            + leakedBytes[w]
        /\ QueuedBytes(w) + HeldBytes(w) <= MaxBytes

\* Every packet routed to a shard is in exactly one of the counters of the
\* final accounting check, or still waiting in the current read.
PacketsReconcile ==
    \A w \in Workers :
        captured[w] = dispatched[w] + slotDrops[w] + budgetDrops[w] + pending[w].n

\* A replay loses nothing: with batches that fit the budget and workers that
\* stay alive, a replay that read its file to the end and came to rest has
\* analysed every packet it routed.
ReplayLosesNothing ==
    (/\ offline
     /\ pc = "stopped"
     /\ deaths = 0
     /\ \A b \in Batches : b.bytes <= MaxBytes
     /\ \A w \in Workers : WorkerAtRest(w))
        => captured = processed

\* While no worker was killed with a batch in hand, the outstanding batches stay
\* within the limit the health record reports next to them
\* ("max_outstanding_batches_per_worker": queue_size + 2).
OutstandingWithoutKill ==
    \A w \in Workers : leakedBatches[w] = 0 => batchCounter[w] <= QueueSize + 2

\* Packets the workers never analysed are exactly those lost with a worker that
\* died: once the workers are at rest, processed = dispatched unless one died.
LossNeedsDeath ==
    \A w \in Workers :
        /\ processed[w] <= dispatched[w]
        /\ (deaths = 0 /\ WorkerAtRest(w)) => processed[w] = dispatched[w]

\* Whatever was admitted for a live worker is eventually analysed and released.
EventuallyReleased ==
    \A w \in Workers :
        <>[](\/ wpc[w] = "dead"
             \/ /\ queue[w] = <<>>
                /\ byteCounter[w] = leakedBytes[w] + ProducerBytes(w)
                /\ batchCounter[w] = leakedBatches[w] + ProducerBatches(w))

ReplayWaits == WaitingForBytes \/ WaitingForSlot

\* "checking child health so a failed worker cannot leave replay stuck forever"
\* (supervisor.py, above the byte-budget wait): a replay that waits for room
\* gets it, or gives up.
ReplayNeverStuck == ReplayWaits ~> ~ReplayWaits

\* That holds as long as no worker is killed while it holds a batch.
ReplayProgressWithoutLeak ==
    [](\A w \in Workers : leakedBytes[w] = 0) => (ReplayWaits ~> ~ReplayWaits)
=============================================================================
