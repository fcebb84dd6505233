------------------------- MODULE WorkerQueuesProofs -------------------------
(***************************************************************************)
(* Theorems about the worker queues, for every number of workers, queue    *)
(* size, byte budget and set of batches: type correctness, the exact       *)
(* accounting of the batch reservations, of the reserved bytes and of the  *)
(* captured packets, the bound on outstanding batches while no worker is   *)
(* killed, that a packet is lost after its dispatch only with a worker     *)
(* that died, and that a replay loses none before it.                      *)
(***************************************************************************)
EXTENDS WorkerQueues, SumTheorems, TLAPS

\* Between the reservation and the put, and during a rollback, the dispatcher
\* has a batch in its hands.
DispatcherHoldsBatch ==
    pc \in {"count", "put", "undoBytes", "undoBatch"} => pending[shard] \in Batches

\* A worker inside its loop has a packet to analyse.
WorkerHasPacket == \A w \in Workers : wpc[w] = "work" => left[w] > 0

\* put_nowait and put never exceed the size the queue was made with.
QueueWithinSize == \A w \in Workers : Len(queue[w]) <= QueueSize

\* Types, and the two facts they depend on.
TypeInv == TypeOK /\ DispatcherHoldsBatch /\ WorkerHasPacket

USE WorkerQueuesAssumption

-----------------------------------------------------------------------------
(***************************************************************************)
(* Constants                                                               *)
(***************************************************************************)

\* What a batch is.
LEMMA BatchFacts ==
    /\ NoBatch \in Batch
    /\ Batches \subseteq Batch
    /\ \A b \in Batch : b.n \in Nat /\ b.bytes \in Nat
    /\ \A b \in Batches : b.n \in Nat \ {0}
    /\ NoBatch.n = 0 /\ NoBatch.bytes = 0
    /\ \A b \in Batch : b # NoBatch => b \in Batches
  BY DEF Batch, NoBatch

\* The workers are numbered from zero.
LEMMA WorkersFacts ==
    /\ 0 \in Workers
    /\ \A w \in Workers : w \in Int /\ (w + 1 < NumWorkers => w + 1 \in Workers)
  BY DEF Workers

\* Taking back what was added never meets the clamp.
LEMMA ReleasedIsNat ==
    \A value, units \in Nat :
        /\ Released(value, units) \in Nat
        /\ units <= value => Released(value, units) = value - units
  BY DEF Released

-----------------------------------------------------------------------------
(***************************************************************************)
(* Type correctness                                                        *)
(***************************************************************************)

\* The types hold initially.
LEMMA InitType == Init => TypeInv
  <1> SUFFICES ASSUME Init PROVE TypeInv OBVIOUS
  <1>1. TypeOK
    <2>1. /\ reads \in 0 .. MaxReads
          /\ deaths \in 0 .. MaxDeaths
          /\ shard \in Workers
      BY WorkersFacts DEF Init
    <2>2. /\ pending \in [Workers -> Batch]
          /\ hand \in [Workers -> Batch]
      BY BatchFacts DEF Init
    <2>3. queue \in [Workers -> Seq(Batches)] BY DEF Init
    <2>4. \A f \in {byteCounter, batchCounter, captured, dispatched, slotDrops,
                    budgetDrops, history, left, processed, leakedBatches, leakedBytes} :
            f \in [Workers -> Nat]
      BY DEF Init
    <2>5. /\ dying \in [Workers -> BOOLEAN]
          /\ wpc \in [Workers -> WorkerStates]
          /\ pc = "read" /\ aborting \in BOOLEAN /\ stopRequested \in BOOLEAN
          /\ offline \in BOOLEAN
      BY DEF Init, WorkerStates
    <2> QED BY <2>1, <2>2, <2>3, <2>4, <2>5 DEF TypeOK
  <1>2. DispatcherHoldsBatch BY DEF Init, DispatcherHoldsBatch
  <1>3. WorkerHasPacket BY DEF Init, WorkerHasPacket
  <1> QED BY <1>1, <1>2, <1>3 DEF TypeInv

\* Types of the step to the next shard.
LEMMA NextShardType ==
    ASSUME TypeOK, NextShard
    PROVE  /\ shard' \in Workers
           /\ pending' \in [Workers -> Batch]
           /\ pc' \in {"dispatch", "check"}
  BY BatchFacts, WorkersFacts DEF TypeOK, NextShard

\* Types of the step to the next health check.
LEMMA NextCheckType ==
    ASSUME TypeOK, NextCheck, pc = "check"
    PROVE  shard' \in Workers /\ pc' \in {"check", "read"}
  BY WorkersFacts DEF TypeOK, NextCheck

\* Types of an exception out of dispatch.
LEMMA RaiseType ==
    ASSUME TypeOK, RaiseFromDispatch
    PROVE  /\ aborting' \in BOOLEAN
           /\ pc' \in {"undoBytes", "raised"}
           /\ pc' = "undoBytes" => pc = "put"
  BY DEF TypeOK, RaiseFromDispatch

\* Types of a death that is recorded.
LEMMA RecordDeathType ==
    ASSUME TypeOK, NEW w \in Workers, RecordDeath(w)
    PROVE  history' \in [Workers -> Nat]
  BY DEF TypeOK, RecordDeath

\* Types of a worker that is replaced.
LEMMA ReplaceType ==
    ASSUME TypeInv, NEW w \in Workers, Replace(w)
    PROVE  /\ wpc' \in [Workers -> WorkerStates]
           /\ hand' \in [Workers -> Batch]
           /\ left' \in [Workers -> Nat]
           /\ dying' \in [Workers -> BOOLEAN]
           /\ processed' \in [Workers -> Nat]
           /\ leakedBatches' \in [Workers -> Nat]
           /\ leakedBytes' \in [Workers -> Nat]
           /\ deaths' \in 0 .. MaxDeaths
           /\ WorkerHasPacket'
  BY BatchFacts DEF TypeInv, TypeOK, Replace, WorkerHasPacket, WorkerStates

\* Routing a packet keeps the types.
LEMMA RouteType ==
    ASSUME TypeInv, Route, pc' \in {"dispatch", "raised"}
    PROVE  TypeInv'
  <1> USE DEF Route, sharedVars, workerVars
  <1>1. PICK routed \in [Workers -> Batch] :
          /\ pending' = routed
          /\ captured' = [w \in Workers |-> captured[w] + routed[w].n]
    OBVIOUS
  <1>2. captured' \in [Workers -> Nat]
    <2>1. ASSUME NEW w \in Workers PROVE captured[w] + routed[w].n \in Nat
      <3>1. captured[w] \in Nat BY DEF TypeInv, TypeOK
      <3>2. routed[w].n \in Nat BY BatchFacts
      <3> QED BY <3>1, <3>2
    <2> QED BY <1>1, <2>1
  <1>3. reads' \in 0 .. MaxReads BY DEF TypeInv, TypeOK
  <1>4. TypeOK' BY <1>1, <1>2, <1>3, WorkersFacts DEF TypeInv, TypeOK
  <1>5. DispatcherHoldsBatch' BY DEF DispatcherHoldsBatch
  <1>6. WorkerHasPacket' BY DEF TypeInv, WorkerHasPacket
  <1> QED BY <1>4, <1>5, <1>6 DEF TypeInv

\* Every step of the capture process keeps the types.
LEMMA CaptureType == ASSUME TypeInv, Capture PROVE TypeInv'
  <1> USE DEF TypeInv, sharedVars, workerVars
  <1>1. CASE RequestStop
    BY <1>1 DEF RequestStop, TypeOK, DispatcherHoldsBatch, WorkerHasPacket
  <1>2. CASE ReadBatch BY <1>2, RouteType DEF ReadBatch
  <1>3. CASE ReadFails BY <1>3, RouteType DEF ReadFails
  <1>4. CASE LeaveLoop
    BY <1>4 DEF LeaveLoop, TypeOK, DispatcherHoldsBatch, WorkerHasPacket
  <1>5. CASE SkipShard
    BY <1>5, NextShardType DEF SkipShard, TypeOK, DispatcherHoldsBatch, WorkerHasPacket
  <1>6. CASE ReserveBytes
    <2>1. pending[shard] \in Batches /\ pending[shard].bytes \in Nat
      BY <1>6, BatchFacts DEF ReserveBytes, TypeOK
    <2>2. byteCounter' \in [Workers -> Nat] BY <1>6, <2>1 DEF ReserveBytes, TypeOK
    <2> QED BY <1>6, <2>1, <2>2 DEF ReserveBytes, TypeOK, DispatcherHoldsBatch, WorkerHasPacket
  <1>7. CASE DropOverBudget
    <2>1. pending[shard].n \in Nat BY BatchFacts DEF TypeOK
    <2>2. budgetDrops' \in [Workers -> Nat] BY <1>7, <2>1 DEF DropOverBudget, TypeOK
    <2> QED BY <1>7, <2>2, NextShardType
          DEF DropOverBudget, TypeOK, DispatcherHoldsBatch, WorkerHasPacket
  <1>8. CASE CountBatch
    <2>1. batchCounter' \in [Workers -> Nat] BY <1>8 DEF CountBatch, TypeOK
    <2> QED BY <1>8, <2>1 DEF CountBatch, TypeOK, DispatcherHoldsBatch, WorkerHasPacket
  <1>9. CASE PutBatch
    <2>1. pending[shard].n \in Nat BY BatchFacts DEF TypeOK
    <2>2. pending[shard] \in Batches BY <1>9 DEF PutBatch, DispatcherHoldsBatch
    <2>3. queue' \in [Workers -> Seq(Batches)] BY <1>9, <2>2 DEF PutBatch, TypeOK
    <2>4. dispatched' \in [Workers -> Nat] BY <1>9, <2>1 DEF PutBatch, TypeOK
    <2> QED BY <1>9, <2>3, <2>4, NextShardType
          DEF PutBatch, TypeOK, DispatcherHoldsBatch, WorkerHasPacket
  <1>10. CASE QueueFull
    BY <1>10 DEF QueueFull, TypeOK, DispatcherHoldsBatch, WorkerHasPacket
  <1>11. CASE UndoBytes
    <2>1. Released(byteCounter[shard], pending[shard].bytes) \in Nat
      BY BatchFacts, ReleasedIsNat DEF TypeOK
    <2> QED BY <1>11, <2>1 DEF UndoBytes, TypeOK, DispatcherHoldsBatch, WorkerHasPacket
  <1>12. CASE UndoBatch
    <2>1. Released(batchCounter[shard], 1) \in Nat /\ pending[shard].n \in Nat
      BY BatchFacts, ReleasedIsNat DEF TypeOK
    <2>2. batchCounter' \in [Workers -> Nat] BY <1>12, <2>1 DEF UndoBatch, TypeOK
    <2>3. CASE ~aborting
      <3>1. slotDrops \in [Workers -> Nat] /\ shard \in Workers BY DEF TypeOK
      <3>2. slotDrops' \in [Workers -> Nat] BY <1>12, <2>1, <2>3, <3>1 DEF UndoBatch
      <3> QED BY <1>12, <2>2, <2>3, <3>2, NextShardType
            DEF UndoBatch, TypeOK, DispatcherHoldsBatch, WorkerHasPacket
    <2>4. CASE aborting
      BY <1>12, <2>2, <2>4 DEF UndoBatch, TypeOK, DispatcherHoldsBatch, WorkerHasPacket
    <2> QED BY <2>3, <2>4
  <1>13. CASE StopWhileWaiting \/ CheckRaises
    BY <1>13, RaiseType
      DEF StopWhileWaiting, CheckRaises, TypeOK, DispatcherHoldsBatch, WorkerHasPacket
  <1>14. ASSUME NEW w \in Workers, ReplaceWhileWaiting(w) PROVE TypeInv'
    <2>1. history' \in [Workers -> Nat]
      BY <1>14, RecordDeathType DEF ReplaceWhileWaiting
    <2>2. CASE Replace(w) /\ UNCHANGED <<pc, aborting>>
      BY <1>14, <2>1, <2>2, ReplaceType
        DEF ReplaceWhileWaiting, TypeOK, DispatcherHoldsBatch
    <2>3. CASE RaiseFromDispatch /\ UNCHANGED workerVars
      BY <1>14, <2>1, <2>3, RaiseType
        DEF ReplaceWhileWaiting, TypeOK, DispatcherHoldsBatch, WorkerHasPacket
    <2>4. CASE RaiseFromDispatch /\ Replace(w)
      BY <1>14, <2>1, <2>4, RaiseType, ReplaceType
        DEF ReplaceWhileWaiting, TypeOK, DispatcherHoldsBatch
    <2> QED BY <1>14, <2>2, <2>3, <2>4 DEF ReplaceWhileWaiting
  <1>15. CASE CheckLiveWorker
    BY <1>15, NextCheckType
      DEF CheckLiveWorker, TypeOK, DispatcherHoldsBatch, WorkerHasPacket
  <1>16. CASE CheckDeadWorker
    <2>1. shard \in Workers BY DEF TypeOK
    <2>2. history' \in [Workers -> Nat]
      BY <1>16, <2>1, RecordDeathType DEF CheckDeadWorker
    <2>3. CASE Replace(shard) /\ NextCheck
      BY <1>16, <2>1, <2>2, <2>3, ReplaceType, NextCheckType
        DEF CheckDeadWorker, TypeOK, DispatcherHoldsBatch
    <2>4. CASE pc' = "raised" /\ UNCHANGED <<shard, workerVars>>
      BY <1>16, <2>2, <2>4
        DEF CheckDeadWorker, TypeOK, DispatcherHoldsBatch, WorkerHasPacket
    <2>5. CASE pc' = "raised" /\ Replace(shard) /\ UNCHANGED shard
      BY <1>16, <2>1, <2>2, <2>5, ReplaceType
        DEF CheckDeadWorker, TypeOK, DispatcherHoldsBatch
    <2> QED BY <1>16, <2>3, <2>4, <2>5 DEF CheckDeadWorker
  <1> QED
    BY <1>1, <1>2, <1>3, <1>4, <1>5, <1>6, <1>7, <1>8, <1>9, <1>10, <1>11,
       <1>12, <1>13, <1>14, <1>15, <1>16 DEF Capture

\* So does every step or death of a worker.
LEMMA WorkerType ==
    ASSUME TypeInv, NEW w \in Workers, WorkerStep(w) \/ WorkerDeath(w)
    PROVE  TypeInv'
  <1> USE DEF TypeInv, sharedVars, captureVars
  <1>1. CASE GetBatch(w)
    <2>1. /\ Head(queue[w]) \in Batches
          /\ Tail(queue[w]) \in Seq(Batches)
      <3>1. queue[w] \in Seq(Batches) /\ queue[w] # <<>> BY <1>1 DEF GetBatch, TypeOK
      <3> QED BY <3>1
    <2>2. Head(queue[w]) \in Batch /\ Head(queue[w]).n \in Nat \ {0}
      BY <2>1, BatchFacts
    <2>3. queue' \in [Workers -> Seq(Batches)] BY <1>1, <2>1 DEF GetBatch, TypeOK
    <2>4. /\ hand' \in [Workers -> Batch]
          /\ left' \in [Workers -> Nat]
          /\ wpc' \in [Workers -> WorkerStates]
      BY <1>1, <2>2 DEF GetBatch, TypeOK, WorkerStates
    <2>5. TypeOK' BY <1>1, <2>3, <2>4 DEF GetBatch, TypeOK
    <2>6. WorkerHasPacket'
      <3>1. left \in [Workers -> Nat] /\ wpc \in [Workers -> WorkerStates] BY DEF TypeOK
      <3> QED BY <1>1, <2>2, <3>1 DEF GetBatch, WorkerHasPacket
    <2> QED BY <1>1, <2>5, <2>6 DEF GetBatch, DispatcherHoldsBatch
  <1>2. CASE AnalysePacket(w)
    <2>1. left[w] \in Nat /\ left[w] > 0 BY <1>2 DEF AnalysePacket, TypeOK, WorkerHasPacket
    <2>2. /\ processed' \in [Workers -> Nat]
          /\ left' \in [Workers -> Nat]
          /\ wpc' \in [Workers -> WorkerStates]
      <3>1. /\ processed \in [Workers -> Nat]
            /\ left \in [Workers -> Nat]
            /\ wpc \in [Workers -> WorkerStates]
        BY DEF TypeOK
      <3>2. left[w] - 1 \in Nat /\ processed[w] + 1 \in Nat BY <2>1, <3>1
      <3> QED BY <1>2, <3>1, <3>2 DEF AnalysePacket, WorkerStates
    <2>3. TypeOK' BY <1>2, <2>2 DEF AnalysePacket, TypeOK
    <2>4. WorkerHasPacket'
      <3>1. left \in [Workers -> Nat] /\ wpc \in [Workers -> WorkerStates] BY DEF TypeOK
      <3> QED BY <1>2, <2>1, <3>1 DEF AnalysePacket, WorkerHasPacket
    <2> QED BY <1>2, <2>3, <2>4 DEF AnalysePacket, DispatcherHoldsBatch
  <1>3. CASE ReleaseBytes(w)
    <2>1. Released(byteCounter[w], hand[w].bytes) \in Nat
      BY BatchFacts, ReleasedIsNat DEF TypeOK
    <2> QED BY <1>3, <2>1 DEF ReleaseBytes, TypeOK, WorkerStates, DispatcherHoldsBatch, WorkerHasPacket
  <1>4. CASE ReleaseBatch(w)
    <2>1. Released(batchCounter[w], 1) \in Nat BY ReleasedIsNat DEF TypeOK
    <2> QED BY <1>4, <2>1, BatchFacts
          DEF ReleaseBatch, TypeOK, WorkerStates, DispatcherHoldsBatch, WorkerHasPacket
  <1>5. CASE FailOnPacket(w)
    <2>1. deaths \in 0 .. MaxDeaths /\ processed \in [Workers -> Nat] BY DEF TypeOK
    <2>2. deaths' \in 0 .. MaxDeaths /\ processed' \in [Workers -> Nat]
      BY <1>5, <2>1 DEF FailOnPacket
    <2> QED BY <1>5, <2>2 DEF FailOnPacket, TypeOK, WorkerStates, DispatcherHoldsBatch, WorkerHasPacket
  <1>6. CASE Kill(w)
    <2>1. hand[w].bytes \in Nat BY BatchFacts DEF TypeOK
    <2>2. deaths' \in 0 .. MaxDeaths BY <1>6 DEF Kill, TypeOK
    <2>3. /\ leakedBytes' \in [Workers -> Nat]
          /\ leakedBatches' \in [Workers -> Nat]
      <3>1. leakedBytes \in [Workers -> Nat] /\ leakedBatches \in [Workers -> Nat]
        BY DEF TypeOK
      <3> QED BY <1>6, <2>1, <3>1 DEF Kill
    <2> QED BY <1>6, <2>2, <2>3, BatchFacts
          DEF Kill, TypeOK, WorkerStates, DispatcherHoldsBatch, WorkerHasPacket
  <1> QED BY <1>1, <1>2, <1>3, <1>4, <1>5, <1>6 DEF WorkerStep, WorkerDeath

\* Every step keeps the types.
LEMMA StepType == TypeInv /\ [Next]_vars => TypeInv'
  <1> SUFFICES ASSUME TypeInv, [Next]_vars PROVE TypeInv' OBVIOUS
  <1>1. CASE Capture BY <1>1, CaptureType
  <1>2. ASSUME NEW w \in Workers, WorkerStep(w) \/ WorkerDeath(w) PROVE TypeInv'
    BY <1>2, WorkerType
  <1>3. CASE UNCHANGED vars
    BY <1>3 DEF TypeInv, TypeOK, DispatcherHoldsBatch, WorkerHasPacket, vars,
                captureVars, sharedVars, workerVars
  <1> QED BY <1>1, <1>2, <1>3 DEF Next, Finished

\* Every variable of the queue model keeps its type: in particular the shared
\* counters never go below zero, whatever the dispatcher and the workers do.
THEOREM TypeCorrect == Spec => []TypeOK
  <1>1. TypeInv => TypeOK BY DEF TypeInv
  <1> QED BY <1>1, InitType, StepType, PTL DEF Spec
-----------------------------------------------------------------------------
(***************************************************************************)
(* Batch reservations                                                      *)
(***************************************************************************)

BatchInv == TypeInv /\ QueueWithinSize /\ BatchesReconcile

\* The batch invariant holds initially.
LEMMA InitBatch == Init => BatchInv
  <1> SUFFICES ASSUME Init PROVE BatchInv OBVIOUS
  <1>1. QueueWithinSize BY DEF Init, QueueWithinSize
  <1>2. BatchesReconcile
    BY DEF Init, BatchesReconcile, HeldBatches, HoldsBatch, ProducerBatches
  <1> QED BY <1>1, <1>2, InitType DEF BatchInv

\* One worker's balance, with the types of its terms.
LEMMA Balance ==
    ASSUME BatchInv, NEW v \in Workers
    PROVE  /\ batchCounter[v] \in Nat
           /\ Len(queue[v]) \in Nat
           /\ Len(queue[v]) <= QueueSize
           /\ HeldBatches(v) \in {0, 1}
           /\ ProducerBatches(v) \in {0, 1}
           /\ leakedBatches[v] \in Nat
           /\ batchCounter[v] = Len(queue[v]) + HeldBatches(v) + ProducerBatches(v)
                                + leakedBatches[v]
  <1>1. batchCounter[v] \in Nat /\ leakedBatches[v] \in Nat
    BY DEF BatchInv, TypeInv, TypeOK
  <1>2. Len(queue[v]) \in Nat
    <2>1. queue[v] \in Seq(Batches) BY DEF BatchInv, TypeInv, TypeOK
    <2> QED BY <2>1
  <1>3. HeldBatches(v) \in {0, 1} /\ ProducerBatches(v) \in {0, 1}
    BY DEF HeldBatches, ProducerBatches
  <1> QED BY <1>1, <1>2, <1>3 DEF BatchInv, BatchesReconcile, QueueWithinSize

\* The dispatcher moves on without touching a queue or a batch counter.
LEMMA DispatcherAside ==
    ASSUME BatchInv, UNCHANGED <<queue, batchCounter, wpc, leakedBatches>>,
           \A w \in Workers : ProducerBatches(w)' = ProducerBatches(w)
    PROVE  QueueWithinSize' /\ BatchesReconcile'
  BY DEF BatchInv, QueueWithinSize, BatchesReconcile, HeldBatches, HoldsBatch

\* A replaced worker holds nothing, and neither did the dead one.
LEMMA ReplacementHoldsNothing ==
    ASSUME TypeInv, NEW w \in Workers, wpc[w] = "dead", Replace(w)
    PROVE  /\ \A v \in Workers : HeldBatches(v)' = HeldBatches(v)
           /\ UNCHANGED leakedBatches
  <1>1. wpc \in [Workers -> WorkerStates] BY DEF TypeInv, TypeOK
  <1> QED BY <1>1 DEF Replace, HeldBatches, HoldsBatch

\* The capture process keeps the batches reconciled.
LEMMA CaptureBatch ==
    ASSUME BatchInv, Capture
    PROVE  QueueWithinSize' /\ BatchesReconcile'
  <1> DEFINE Goal == QueueWithinSize' /\ BatchesReconcile'
  <1>1. /\ shard \in Workers
        /\ queue \in [Workers -> Seq(Batches)]
        /\ batchCounter \in [Workers -> Nat]
        /\ leakedBatches \in [Workers -> Nat]
    BY DEF BatchInv, TypeInv, TypeOK
  <1> USE DEF sharedVars, workerVars
  <1>2. CASE RequestStop
    BY <1>2, DispatcherAside DEF RequestStop, ProducerBatches
  <1>3. CASE ReadBatch
    BY <1>3, DispatcherAside DEF ReadBatch, Route, ProducerBatches
  <1>4. CASE ReadFails
    BY <1>4, DispatcherAside DEF ReadFails, Route, ProducerBatches
  <1>5. CASE LeaveLoop
    BY <1>5, DispatcherAside DEF LeaveLoop, ProducerBatches
  <1>6. CASE SkipShard
    BY <1>6, DispatcherAside DEF SkipShard, NextShard, ProducerBatches
  <1>7. CASE ReserveBytes
    BY <1>7, DispatcherAside DEF ReserveBytes, ProducerBatches
  <1>8. CASE DropOverBudget
    BY <1>8, DispatcherAside DEF DropOverBudget, NextShard, ProducerBatches
  <1>9. CASE CountBatch
    <2>1. QueueWithinSize' BY <1>9 DEF CountBatch, BatchInv, QueueWithinSize
    <2>2. ASSUME NEW v \in Workers
          PROVE  /\ HeldBatches(v)' = HeldBatches(v)
                 /\ v = shard => batchCounter'[v] = batchCounter[v] + 1
                 /\ v # shard => batchCounter'[v] = batchCounter[v]
                 /\ ProducerBatches(v) = 0
                 /\ v = shard => ProducerBatches(v)' = 1
                 /\ v # shard => ProducerBatches(v)' = 0
      BY <1>9, <1>1 DEF CountBatch, HeldBatches, HoldsBatch, ProducerBatches
    <2>3. BatchesReconcile'
      <3> SUFFICES ASSUME NEW v \in Workers
                   PROVE  (batchCounter[v] = Len(queue[v]) + HeldBatches(v)
                             + ProducerBatches(v) + leakedBatches[v])'
        BY DEF BatchesReconcile
      <3>1. /\ batchCounter[v] = Len(queue[v]) + HeldBatches(v) + ProducerBatches(v)
                                 + leakedBatches[v]
            /\ batchCounter[v] \in Nat /\ Len(queue[v]) \in Nat /\ leakedBatches[v] \in Nat
            /\ HeldBatches(v) \in {0, 1} /\ ProducerBatches(v) \in {0, 1}
        BY Balance
      <3>2. CASE v = shard BY <3>1, <3>2, <1>9, <1>1, <2>2 DEF CountBatch
      <3>3. CASE v # shard BY <3>1, <3>3, <1>9, <1>1, <2>2 DEF CountBatch
      <3> QED BY <3>2, <3>3
    <2> QED BY <2>1, <2>3
  <1>10. CASE PutBatch
    <2>1. pending[shard] \in Batches
      BY <1>10 DEF PutBatch, BatchInv, TypeInv, DispatcherHoldsBatch
    <2>2. ASSUME NEW v \in Workers
          PROVE  /\ v = shard => Len(queue'[v]) = Len(queue[v]) + 1
                 /\ v # shard => Len(queue'[v]) = Len(queue[v])
                 /\ v = shard => Len(queue[v]) < QueueSize
      <3>1. queue' = [queue EXCEPT ![shard] = Append(@, pending[shard])]
            /\ Len(queue[shard]) < QueueSize
        BY <1>10 DEF PutBatch, HasSlot
      <3>2. Len(Append(queue[shard], pending[shard])) = Len(queue[shard]) + 1
        BY <1>1, <2>1
      <3>3. Len(queue[v]) \in Nat BY Balance
      <3>4. CASE v = shard BY <1>1, <3>1, <3>2, <3>3, <3>4
      <3>5. CASE v # shard BY <1>1, <3>1, <3>3, <3>5
      <3> QED BY <3>4, <3>5
    <2>3. QueueWithinSize'
      <3> SUFFICES ASSUME NEW v \in Workers PROVE Len(queue'[v]) <= QueueSize
        BY DEF QueueWithinSize
      <3>1. CASE v = shard BY <3>1, <2>2, Balance
      <3>2. CASE v # shard BY <3>2, <2>2, Balance
      <3> QED BY <3>1, <3>2
    <2>4. ASSUME NEW v \in Workers
          PROVE  /\ HeldBatches(v)' = HeldBatches(v)
                 /\ ProducerBatches(v)' = 0
                 /\ v = shard => ProducerBatches(v) = 1
                 /\ v # shard => ProducerBatches(v) = 0
      BY <1>10 DEF PutBatch, NextShard, HeldBatches, HoldsBatch, ProducerBatches
    <2>5. UNCHANGED <<batchCounter, leakedBatches>> BY <1>10 DEF PutBatch
    <2>6. BatchesReconcile'
      <3> SUFFICES ASSUME NEW v \in Workers
                   PROVE  (batchCounter[v] = Len(queue[v]) + HeldBatches(v)
                             + ProducerBatches(v) + leakedBatches[v])'
        BY DEF BatchesReconcile
      <3>1. /\ batchCounter[v] = Len(queue[v]) + HeldBatches(v) + ProducerBatches(v)
                                 + leakedBatches[v]
            /\ batchCounter[v] \in Nat /\ Len(queue[v]) \in Nat /\ leakedBatches[v] \in Nat
            /\ HeldBatches(v) \in {0, 1} /\ ProducerBatches(v) \in {0, 1}
        BY Balance
      <3>2. CASE v = shard BY <3>1, <3>2, <1>1, <2>2, <2>4, <2>5
      <3>3. CASE v # shard BY <3>1, <3>3, <1>1, <2>2, <2>4, <2>5
      <3> QED BY <3>2, <3>3
    <2> QED BY <2>3, <2>6
  <1>11. CASE QueueFull
    BY <1>11, DispatcherAside DEF QueueFull, ProducerBatches
  <1>12. CASE UndoBytes
    BY <1>12, DispatcherAside DEF UndoBytes, ProducerBatches
  <1>13. CASE UndoBatch
    <2>1. QueueWithinSize' BY <1>13 DEF UndoBatch, BatchInv, QueueWithinSize
    <2>2. ASSUME NEW v \in Workers
          PROVE  /\ HeldBatches(v)' = HeldBatches(v)
                 /\ ProducerBatches(v)' = 0
                 /\ v = shard => ProducerBatches(v) = 1
                 /\ v # shard => ProducerBatches(v) = 0
      BY <1>13 DEF UndoBatch, NextShard, HeldBatches, HoldsBatch, ProducerBatches
    <2>3. batchCounter[shard] >= 1
      <3>1. ProducerBatches(shard) = 1 BY <1>1, <2>2
      <3>2. /\ batchCounter[shard] = Len(queue[shard]) + HeldBatches(shard)
                                     + ProducerBatches(shard) + leakedBatches[shard]
            /\ Len(queue[shard]) \in Nat /\ leakedBatches[shard] \in Nat
            /\ HeldBatches(shard) \in {0, 1}
        BY <1>1, Balance
      <3> QED BY <3>1, <3>2
    <2>4. Released(batchCounter[shard], 1) = batchCounter[shard] - 1
      BY <1>1, <2>3, ReleasedIsNat
    <2>5. ASSUME NEW v \in Workers
          PROVE  /\ v = shard => batchCounter'[v] = batchCounter[v] - 1
                 /\ v # shard => batchCounter'[v] = batchCounter[v]
      BY <1>1, <1>13, <2>4 DEF UndoBatch
    <2>6. UNCHANGED <<queue, leakedBatches>> BY <1>13 DEF UndoBatch
    <2>7. BatchesReconcile'
      <3> SUFFICES ASSUME NEW v \in Workers
                   PROVE  (batchCounter[v] = Len(queue[v]) + HeldBatches(v)
                             + ProducerBatches(v) + leakedBatches[v])'
        BY DEF BatchesReconcile
      <3>1. /\ batchCounter[v] = Len(queue[v]) + HeldBatches(v) + ProducerBatches(v)
                                 + leakedBatches[v]
            /\ batchCounter[v] \in Nat /\ Len(queue[v]) \in Nat /\ leakedBatches[v] \in Nat
            /\ HeldBatches(v) \in {0, 1} /\ ProducerBatches(v) \in {0, 1}
        BY Balance
      <3>2. CASE v = shard BY <3>1, <3>2, <2>2, <2>5, <2>6
      <3>3. CASE v # shard BY <3>1, <3>3, <2>2, <2>5, <2>6
      <3> QED BY <3>2, <3>3
    <2> QED BY <2>1, <2>7
  <1>14. CASE StopWhileWaiting \/ CheckRaises
    BY <1>14, DispatcherAside
      DEF StopWhileWaiting, CheckRaises, RaiseFromDispatch, WaitingForBytes, WaitingForSlot, ProducerBatches
  <1>15. ASSUME NEW w \in Workers, ReplaceWhileWaiting(w) PROVE Goal
    <2>1. UNCHANGED <<queue, batchCounter, shard>> BY <1>15 DEF ReplaceWhileWaiting
    <2>2. CASE Replace(w) /\ UNCHANGED <<pc, aborting>>
      <3>1. \A v \in Workers : HeldBatches(v)' = HeldBatches(v)
        BY <1>15, <2>2, ReplacementHoldsNothing DEF ReplaceWhileWaiting, BatchInv
      <3>2. UNCHANGED leakedBatches BY <2>2 DEF Replace
      <3>3. \A v \in Workers : ProducerBatches(v)' = ProducerBatches(v)
        BY <2>1, <2>2 DEF ProducerBatches
      <3> QED BY <2>1, <3>1, <3>2, <3>3 DEF BatchInv, BatchesReconcile, QueueWithinSize
    <2>3. CASE RaiseFromDispatch /\ UNCHANGED workerVars
      BY <1>15, <2>1, <2>3, DispatcherAside
        DEF ReplaceWhileWaiting, RaiseFromDispatch, WaitingForBytes, WaitingForSlot,
            ProducerBatches
    <2>4. CASE RaiseFromDispatch /\ Replace(w)
      <3>1. \A v \in Workers : HeldBatches(v)' = HeldBatches(v)
        BY <1>15, <2>4, ReplacementHoldsNothing DEF ReplaceWhileWaiting, BatchInv
      <3>2. UNCHANGED leakedBatches BY <2>4 DEF Replace
      <3>3. \A v \in Workers : ProducerBatches(v)' = ProducerBatches(v)
        BY <1>15, <2>1, <2>4 DEF ReplaceWhileWaiting, RaiseFromDispatch, WaitingForBytes,
                                 WaitingForSlot, ProducerBatches
      <3> QED BY <2>1, <3>1, <3>2, <3>3 DEF BatchInv, BatchesReconcile, QueueWithinSize
    <2> QED BY <1>15, <2>2, <2>3, <2>4 DEF ReplaceWhileWaiting
  <1>16. CASE CheckLiveWorker
    BY <1>16, DispatcherAside DEF CheckLiveWorker, NextCheck, ProducerBatches
  <1>17. CASE CheckDeadWorker
    <2>1. UNCHANGED <<queue, batchCounter>> BY <1>17 DEF CheckDeadWorker
    <2>2. CASE Replace(shard) /\ NextCheck
      <3>1. \A v \in Workers : HeldBatches(v)' = HeldBatches(v)
        BY <1>1, <1>17, <2>2, ReplacementHoldsNothing DEF CheckDeadWorker, BatchInv
      <3>2. UNCHANGED leakedBatches BY <2>2 DEF Replace
      <3>3. \A v \in Workers : ProducerBatches(v)' = ProducerBatches(v)
        BY <1>17, <2>2 DEF CheckDeadWorker, NextCheck, ProducerBatches
      <3> QED BY <2>1, <3>1, <3>2, <3>3 DEF BatchInv, BatchesReconcile, QueueWithinSize
    <2>3. CASE pc' = "raised" /\ UNCHANGED <<shard, workerVars>>
      BY <1>17, <2>1, <2>3, DispatcherAside DEF CheckDeadWorker, ProducerBatches
    <2>4. CASE pc' = "raised" /\ Replace(shard) /\ UNCHANGED shard
      <3>1. \A v \in Workers : HeldBatches(v)' = HeldBatches(v)
        BY <1>1, <1>17, <2>4, ReplacementHoldsNothing DEF CheckDeadWorker, BatchInv
      <3>2. UNCHANGED leakedBatches BY <2>4 DEF Replace
      <3>3. \A v \in Workers : ProducerBatches(v)' = ProducerBatches(v)
        BY <1>17, <2>4 DEF CheckDeadWorker, ProducerBatches
      <3> QED BY <2>1, <3>1, <3>2, <3>3 DEF BatchInv, BatchesReconcile, QueueWithinSize
    <2> QED BY <1>17, <2>2, <2>3, <2>4 DEF CheckDeadWorker
  <1> QED
    BY <1>2, <1>3, <1>4, <1>5, <1>6, <1>7, <1>8, <1>9, <1>10, <1>11, <1>12,
       <1>13, <1>14, <1>15, <1>16, <1>17 DEF Capture

\* So do the workers.
LEMMA WorkerBatch ==
    ASSUME BatchInv, NEW w \in Workers, WorkerStep(w) \/ WorkerDeath(w)
    PROVE  QueueWithinSize' /\ BatchesReconcile'
  <1>1. /\ queue \in [Workers -> Seq(Batches)]
        /\ batchCounter \in [Workers -> Nat]
        /\ leakedBatches \in [Workers -> Nat]
        /\ wpc \in [Workers -> WorkerStates]
    BY DEF BatchInv, TypeInv, TypeOK
  <1> USE DEF sharedVars, captureVars
  <1>2. \A v \in Workers : ProducerBatches(v)' = ProducerBatches(v)
    BY DEF WorkerStep, WorkerDeath, GetBatch, AnalysePacket, ReleaseBytes,
           ReleaseBatch, FailOnPacket, Kill, ProducerBatches
  <1>3. CASE GetBatch(w)
    <2>1. /\ Len(queue'[w]) = Len(queue[w]) - 1
          /\ \A v \in Workers : v # w => Len(queue'[v]) = Len(queue[v])
      <3>1. queue[w] \in Seq(Batches) /\ queue[w] # <<>> BY <1>1, <1>3 DEF GetBatch
      <3>2. Len(Tail(queue[w])) = Len(queue[w]) - 1 BY <3>1
      <3>3. queue' = [queue EXCEPT ![w] = Tail(@)] BY <1>3 DEF GetBatch
      <3> QED BY <1>1, <3>2, <3>3
    <2>2. \A v \in Workers :
              /\ v = w => HeldBatches(v) = 0 /\ HeldBatches(v)' = 1
              /\ v # w => HeldBatches(v)' = HeldBatches(v)
      BY <1>1, <1>3 DEF GetBatch, HeldBatches, HoldsBatch
    <2>3. UNCHANGED <<batchCounter, leakedBatches>> BY <1>3 DEF GetBatch
    <2>4. QueueWithinSize'
      <3> SUFFICES ASSUME NEW v \in Workers PROVE Len(queue'[v]) <= QueueSize
        BY DEF QueueWithinSize
      <3>1. CASE v = w BY <3>1, <2>1, Balance
      <3>2. CASE v # w BY <3>2, <2>1, Balance
      <3> QED BY <3>1, <3>2
    <2>5. BatchesReconcile'
      <3> SUFFICES ASSUME NEW v \in Workers
                   PROVE  (batchCounter[v] = Len(queue[v]) + HeldBatches(v)
                             + ProducerBatches(v) + leakedBatches[v])'
        BY DEF BatchesReconcile
      <3>1. /\ batchCounter[v] = Len(queue[v]) + HeldBatches(v) + ProducerBatches(v)
                                 + leakedBatches[v]
            /\ batchCounter[v] \in Nat /\ Len(queue[v]) \in Nat /\ leakedBatches[v] \in Nat
            /\ HeldBatches(v) \in {0, 1} /\ ProducerBatches(v) \in {0, 1}
        BY Balance
      <3>2. CASE v = w BY <3>1, <3>2, <1>2, <2>1, <2>2, <2>3
      <3>3. CASE v # w BY <3>1, <3>3, <1>2, <2>1, <2>2, <2>3
      <3> QED BY <3>2, <3>3
    <2> QED BY <2>4, <2>5
  <1>4. CASE AnalysePacket(w) \/ FailOnPacket(w) \/ ReleaseBytes(w)
    <2>1. UNCHANGED <<queue, batchCounter, leakedBatches>>
      BY <1>4 DEF AnalysePacket, FailOnPacket, ReleaseBytes
    <2>2. \A v \in Workers : HeldBatches(v)' = HeldBatches(v)
      BY <1>1, <1>4 DEF AnalysePacket, FailOnPacket, ReleaseBytes, HeldBatches, HoldsBatch
    <2> QED BY <1>2, <2>1, <2>2 DEF BatchInv, BatchesReconcile, QueueWithinSize
  <1>5. CASE ReleaseBatch(w)
    <2>1. \A v \in Workers :
              /\ v = w => HeldBatches(v) = 1 /\ HeldBatches(v)' = 0
              /\ v # w => HeldBatches(v)' = HeldBatches(v)
      BY <1>1, <1>5 DEF ReleaseBatch, HeldBatches, HoldsBatch
    <2>2. batchCounter[w] >= 1 BY <2>1, Balance
    <2>3. Released(batchCounter[w], 1) = batchCounter[w] - 1
      BY <1>1, <2>2, ReleasedIsNat
    <2>4. /\ batchCounter'[w] = batchCounter[w] - 1
          /\ \A v \in Workers : v # w => batchCounter'[v] = batchCounter[v]
      BY <1>1, <1>5, <2>3 DEF ReleaseBatch
    <2>5. UNCHANGED <<queue, leakedBatches>> BY <1>5 DEF ReleaseBatch
    <2>6. BatchesReconcile'
      <3> SUFFICES ASSUME NEW v \in Workers
                   PROVE  (batchCounter[v] = Len(queue[v]) + HeldBatches(v)
                             + ProducerBatches(v) + leakedBatches[v])'
        BY DEF BatchesReconcile
      <3>1. /\ batchCounter[v] = Len(queue[v]) + HeldBatches(v) + ProducerBatches(v)
                                 + leakedBatches[v]
            /\ batchCounter[v] \in Nat /\ Len(queue[v]) \in Nat /\ leakedBatches[v] \in Nat
            /\ HeldBatches(v) \in {0, 1} /\ ProducerBatches(v) \in {0, 1}
        BY Balance
      <3>2. CASE v = w BY <3>1, <3>2, <1>2, <2>1, <2>4, <2>5
      <3>3. CASE v # w BY <3>1, <3>3, <1>2, <2>1, <2>4, <2>5
      <3> QED BY <3>2, <3>3
    <2> QED BY <2>5, <2>6 DEF BatchInv, QueueWithinSize
  <1>6. CASE Kill(w)
    <2>1. /\ leakedBatches'[w] = leakedBatches[w] + HeldBatches(w)
          /\ \A v \in Workers : v # w => leakedBatches'[v] = leakedBatches[v]
      BY <1>1, <1>6 DEF Kill, HeldBatches
    <2>2. \A v \in Workers :
              /\ v = w => HeldBatches(v)' = 0
              /\ v # w => HeldBatches(v)' = HeldBatches(v)
      BY <1>1, <1>6 DEF Kill, HeldBatches, HoldsBatch
    <2>3. UNCHANGED <<queue, batchCounter>> BY <1>6 DEF Kill
    <2>4. BatchesReconcile'
      <3> SUFFICES ASSUME NEW v \in Workers
                   PROVE  (batchCounter[v] = Len(queue[v]) + HeldBatches(v)
                             + ProducerBatches(v) + leakedBatches[v])'
        BY DEF BatchesReconcile
      <3>1. /\ batchCounter[v] = Len(queue[v]) + HeldBatches(v) + ProducerBatches(v)
                                 + leakedBatches[v]
            /\ batchCounter[v] \in Nat /\ Len(queue[v]) \in Nat /\ leakedBatches[v] \in Nat
            /\ HeldBatches(v) \in {0, 1} /\ ProducerBatches(v) \in {0, 1}
        BY Balance
      <3>2. /\ batchCounter'[v] = batchCounter[v] /\ queue'[v] = queue[v]
            /\ ProducerBatches(v)' = ProducerBatches(v)
        BY <1>2, <2>3
      <3>3. HeldBatches(v)' + leakedBatches'[v] = HeldBatches(v) + leakedBatches[v]
        <4>1. CASE v = w BY <3>1, <4>1, <2>1, <2>2
        <4>2. CASE v # w BY <3>1, <4>2, <2>1, <2>2
        <4> QED BY <4>1, <4>2
      <3>4. HeldBatches(v)' \in Nat /\ leakedBatches'[v] \in Nat
        <4>1. CASE v = w BY <3>1, <4>1, <2>1, <2>2
        <4>2. CASE v # w BY <3>1, <4>2, <2>1, <2>2
        <4> QED BY <4>1, <4>2
      <3>5. HeldBatches(v) \in Nat /\ ProducerBatches(v) \in Nat BY <3>1
      <3>6. batchCounter[v] = Len(queue[v]) + HeldBatches(v)' + ProducerBatches(v)
                              + leakedBatches'[v]
        <4> DEFINE h == HeldBatches(v)
                   h2 == HeldBatches(v)'
                   l == leakedBatches[v]
                   l2 == leakedBatches'[v]
                   p == ProducerBatches(v)
                   q == Len(queue[v])
                   b == batchCounter[v]
        <4>1. /\ b = q + h + p + l /\ h2 + l2 = h + l
              /\ b \in Nat /\ q \in Nat /\ h \in Nat /\ p \in Nat /\ l \in Nat
              /\ h2 \in Nat /\ l2 \in Nat
          BY <3>1, <3>3, <3>4, <3>5
        <4> HIDE DEF b, q, h, p, l, h2, l2
        <4>2. b = q + h2 + p + l2 BY <4>1
        <4> QED BY <4>2 DEF b, q, h2, p, l2
      <3> QED BY <3>2, <3>6
    <2> QED BY <2>3, <2>4 DEF BatchInv, QueueWithinSize
  <1> QED BY <1>3, <1>4, <1>5, <1>6 DEF WorkerStep, WorkerDeath

\* Every step keeps the batch invariant.
LEMMA StepBatch == BatchInv /\ [Next]_vars => BatchInv'
  <1> SUFFICES ASSUME BatchInv, [Next]_vars PROVE BatchInv' OBVIOUS
  <1>1. TypeInv' BY StepType DEF BatchInv
  <1>2. CASE Capture BY <1>1, <1>2, CaptureBatch DEF BatchInv
  <1>3. ASSUME NEW w \in Workers, WorkerStep(w) \/ WorkerDeath(w) PROVE BatchInv'
    BY <1>1, <1>3, WorkerBatch DEF BatchInv
  <1>4. CASE UNCHANGED vars
    <2>1. /\ UNCHANGED <<queue, batchCounter, wpc, leakedBatches>>
          /\ \A w \in Workers : ProducerBatches(w)' = ProducerBatches(w)
      BY <1>4 DEF vars, captureVars, sharedVars, workerVars, ProducerBatches
    <2> QED BY <1>1, <2>1, DispatcherAside DEF BatchInv
  <1> QED BY <1>2, <1>3, <1>4 DEF Next, Finished

\* The shared batch counter of every worker is exactly the batches buffered,
\* held by the worker, being put, or lost with a killed worker.
THEOREM BatchesAlwaysReconcile == Spec => []BatchesReconcile
  <1>1. BatchInv => BatchesReconcile BY DEF BatchInv
  <1> QED BY <1>1, InitBatch, StepBatch, PTL DEF Spec

\* The limit reported in the health record, queue_size + 2, holds for a worker
\* that was never killed with a batch in its hands.
THEOREM OutstandingBounded == Spec => []OutstandingWithoutKill
  <1>1. BatchInv => OutstandingWithoutKill
    <2> SUFFICES ASSUME BatchInv, NEW w \in Workers, leakedBatches[w] = 0
                 PROVE  batchCounter[w] <= QueueSize + 2
      BY DEF OutstandingWithoutKill
    <2> QED BY Balance
  <1> QED BY <1>1, InitBatch, StepBatch, PTL DEF Spec
-----------------------------------------------------------------------------
(***************************************************************************)
(* Packet accounting                                                       *)
(***************************************************************************)

Dispatching == pc \in {"dispatch", "count", "put", "undoBytes", "undoBatch"}

\* A shard that has been served has no batch left, so a new read never
\* overwrites packets that are not accounted for.
ServedShards ==
    /\ Dispatching => \A w \in Workers : w < shard => pending[w] = NoBatch
    /\ pc \in {"read", "check", "stopped"} => \A w \in Workers : pending[w] = NoBatch

PacketInv == TypeInv /\ ServedShards /\ PacketsReconcile

packetVars == <<captured, dispatched, slotDrops, budgetDrops, pending>>

\* The packet invariant holds initially.
LEMMA InitPacket == Init => PacketInv
  <1> SUFFICES ASSUME Init PROVE PacketInv OBVIOUS
  <1>1. PacketsReconcile BY BatchFacts DEF Init, PacketsReconcile
  <1>2. ServedShards BY DEF Init, ServedShards, Dispatching
  <1> QED BY <1>1, <1>2, InitType DEF PacketInv

\* One shard's account, with the types of its terms.
LEMMA Account ==
    ASSUME PacketInv, NEW v \in Workers
    PROVE  /\ captured[v] = dispatched[v] + slotDrops[v] + budgetDrops[v] + pending[v].n
           /\ captured[v] \in Nat /\ dispatched[v] \in Nat
           /\ slotDrops[v] \in Nat /\ budgetDrops[v] \in Nat
           /\ pending[v].n \in Nat
  <1>1. pending[v].n \in Nat BY BatchFacts DEF PacketInv, TypeInv, TypeOK
  <1>2. /\ captured[v] \in Nat /\ dispatched[v] \in Nat
        /\ slotDrops[v] \in Nat /\ budgetDrops[v] \in Nat
    BY DEF PacketInv, TypeInv, TypeOK
  <1> QED BY <1>1, <1>2 DEF PacketInv, PacketsReconcile

\* The counter of the current shard grows by the batch that leaves the read.
LEMMA ShardDone ==
    ASSUME PacketInv, NextShard, UNCHANGED captured,
           NEW d, NEW s, NEW b,
           \/ (d = pending[shard].n /\ s = 0 /\ b = 0)
           \/ (d = 0 /\ s = pending[shard].n /\ b = 0)
           \/ (d = 0 /\ s = 0 /\ b = pending[shard].n),
           dispatched' = [dispatched EXCEPT ![shard] = @ + d],
           slotDrops' = [slotDrops EXCEPT ![shard] = @ + s],
           budgetDrops' = [budgetDrops EXCEPT ![shard] = @ + b]
    PROVE  PacketsReconcile'
  <1> SUFFICES ASSUME NEW v \in Workers
               PROVE  captured'[v] = dispatched'[v] + slotDrops'[v] + budgetDrops'[v]
                                       + pending'[v].n
    BY DEF PacketsReconcile
  <1>1. /\ pending \in [Workers -> Batch]
        /\ dispatched \in [Workers -> Nat]
        /\ slotDrops \in [Workers -> Nat]
        /\ budgetDrops \in [Workers -> Nat]
    BY DEF PacketInv, TypeInv, TypeOK
  <1>2. /\ captured[v] = dispatched[v] + slotDrops[v] + budgetDrops[v] + pending[v].n
        /\ captured[v] \in Nat /\ dispatched[v] \in Nat
        /\ slotDrops[v] \in Nat /\ budgetDrops[v] \in Nat
        /\ pending[v].n \in Nat
    BY Account
  <1>3. pending' = [pending EXCEPT ![shard] = NoBatch] BY DEF NextShard
  <1>4. CASE v = shard
    <2>1. pending'[v].n = 0 BY <1>1, <1>3, <1>4, BatchFacts
    <2>2. /\ dispatched'[v] = dispatched[v] + d
          /\ slotDrops'[v] = slotDrops[v] + s
          /\ budgetDrops'[v] = budgetDrops[v] + b
      BY <1>1, <1>4
    <2> QED BY <1>2, <1>4, <2>1, <2>2
  <1>5. CASE v # shard BY <1>1, <1>2, <1>3, <1>5
  <1> QED BY <1>4, <1>5

\* A shard that dispatch leaves behind has nothing pending.
LEMMA NextShardServed ==
    ASSUME PacketInv, NextShard, Dispatching
    PROVE  ServedShards'
  <1>1. shard \in Workers /\ pending \in [Workers -> Batch]
    BY DEF PacketInv, TypeInv, TypeOK
  <1>2. ASSUME NEW w \in Workers, w <= shard PROVE pending'[w] = NoBatch
    BY <1>1, <1>2 DEF NextShard, PacketInv, ServedShards, Workers
  <1>3. CASE shard + 1 < NumWorkers
    <2>1. pc' = "dispatch" /\ shard' = shard + 1 BY <1>3 DEF NextShard
    <2>2. \A w \in Workers : w < shard + 1 => w <= shard BY <1>1 DEF Workers
    <2> QED BY <1>2, <2>1, <2>2 DEF ServedShards
  <1>4. CASE ~(shard + 1 < NumWorkers)
    <2>1. pc' = "check" BY <1>4 DEF NextShard
    <2>2. \A w \in Workers : w <= shard BY <1>1, <1>4 DEF Workers
    <2> QED BY <1>2, <2>1, <2>2 DEF ServedShards, Dispatching
  <1> QED BY <1>3, <1>4

\* Routing a packet keeps the packets reconciled.
LEMMA RoutePacket ==
    ASSUME PacketInv, Route, pc' \in {"dispatch", "raised"}
    PROVE  ServedShards' /\ PacketsReconcile'
  <1>1. PICK routed \in [Workers -> Batch] :
          /\ pending' = routed
          /\ captured' = [w \in Workers |-> captured[w] + routed[w].n]
    BY DEF Route
  <1>2. UNCHANGED <<dispatched, slotDrops, budgetDrops>> BY DEF Route
  <1>3. PacketsReconcile'
    <2> SUFFICES ASSUME NEW v \in Workers
                 PROVE  captured'[v] = dispatched'[v] + slotDrops'[v] + budgetDrops'[v]
                                         + pending'[v].n
      BY DEF PacketsReconcile
    <2>1. pending[v].n = 0 BY BatchFacts DEF Route, PacketInv, ServedShards
    <2>2. routed[v].n \in Nat BY BatchFacts
    <2>3. /\ captured[v] = dispatched[v] + slotDrops[v] + budgetDrops[v] + pending[v].n
          /\ captured[v] \in Nat /\ dispatched[v] \in Nat
          /\ slotDrops[v] \in Nat /\ budgetDrops[v] \in Nat
      BY Account
    <2>4. captured'[v] = captured[v] + routed[v].n BY <1>1
    <2> QED BY <1>1, <1>2, <2>1, <2>2, <2>3, <2>4
  <1>4. ServedShards'
    <2>1. \A w \in Workers : ~(w < 0) BY DEF Workers
    <2> QED BY <2>1 DEF Route, ServedShards, Dispatching
  <1> QED BY <1>3, <1>4

\* Steps that leave the packets and the position among the shards alone.
LEMMA PacketsAside ==
    ASSUME PacketInv, UNCHANGED packetVars,
           \/ UNCHANGED <<pc, shard>>
           \/ Dispatching /\ Dispatching' /\ UNCHANGED shard
           \/ pc' = "raised"
           \/ pc \in {"read", "check"} /\ pc' \in {"read", "check", "stopped"}
    PROVE  ServedShards' /\ PacketsReconcile'
  BY DEF PacketInv, PacketsReconcile, ServedShards, Dispatching, packetVars

\* So does every step of the capture process.
LEMMA CapturePacket ==
    ASSUME PacketInv, Capture
    PROVE  ServedShards' /\ PacketsReconcile'
  <1> DEFINE Goal == ServedShards' /\ PacketsReconcile'
  <1>1. /\ shard \in Workers
        /\ dispatched \in [Workers -> Nat]
        /\ slotDrops \in [Workers -> Nat]
        /\ budgetDrops \in [Workers -> Nat]
        /\ pending[shard].n \in Nat
    BY BatchFacts DEF PacketInv, TypeInv, TypeOK
  <1>2. /\ dispatched = [dispatched EXCEPT ![shard] = @ + 0]
        /\ slotDrops = [slotDrops EXCEPT ![shard] = @ + 0]
        /\ budgetDrops = [budgetDrops EXCEPT ![shard] = @ + 0]
    BY <1>1
  <1>3. CASE RequestStop BY <1>3, PacketsAside DEF RequestStop, packetVars
  <1>4. CASE ReadBatch BY <1>4, RoutePacket DEF ReadBatch
  <1>5. CASE ReadFails BY <1>5, RoutePacket DEF ReadFails
  <1>6. CASE LeaveLoop BY <1>6, PacketsAside DEF LeaveLoop, packetVars
  <1>7. CASE SkipShard
    <2>1. pending[shard].n = 0 BY <1>7, BatchFacts DEF SkipShard
    <2>2. PacketsReconcile' BY <1>7, <1>2, <2>1, ShardDone DEF SkipShard
    <2> QED BY <1>7, <2>2, NextShardServed DEF SkipShard, Dispatching
  <1>8. CASE ReserveBytes
    BY <1>8, PacketsAside DEF ReserveBytes, Dispatching, packetVars
  <1>9. CASE DropOverBudget
    <2>1. /\ budgetDrops' = [budgetDrops EXCEPT ![shard] = @ + pending[shard].n]
          /\ UNCHANGED <<captured, dispatched, slotDrops>> /\ NextShard
      BY <1>9 DEF DropOverBudget
    <2>2. PacketsReconcile'
      <3>1. /\ dispatched' = [dispatched EXCEPT ![shard] = @ + 0]
            /\ slotDrops' = [slotDrops EXCEPT ![shard] = @ + 0]
        BY <1>2, <2>1
      <3> QED BY <2>1, <3>1, ShardDone
    <2> QED BY <1>9, <2>2, NextShardServed DEF DropOverBudget, Dispatching
  <1>10. CASE CountBatch
    BY <1>10, PacketsAside DEF CountBatch, Dispatching, packetVars
  <1>11. CASE PutBatch
    <2>1. /\ dispatched' = [dispatched EXCEPT ![shard] = @ + pending[shard].n]
          /\ UNCHANGED <<captured, slotDrops, budgetDrops>> /\ NextShard
      BY <1>11 DEF PutBatch
    <2>2. PacketsReconcile'
      <3>1. /\ slotDrops' = [slotDrops EXCEPT ![shard] = @ + 0]
            /\ budgetDrops' = [budgetDrops EXCEPT ![shard] = @ + 0]
        BY <1>2, <2>1
      <3> QED BY <2>1, <3>1, ShardDone
    <2> QED BY <1>11, <2>2, NextShardServed DEF PutBatch, Dispatching
  <1>12. CASE QueueFull
    BY <1>12, PacketsAside DEF QueueFull, Dispatching, packetVars
  <1>13. CASE UndoBytes
    BY <1>13, PacketsAside DEF UndoBytes, Dispatching, packetVars
  <1>14. CASE UndoBatch
    <2>1. CASE ~aborting
      <3>1. PacketsReconcile' BY <1>14, <1>2, <2>1, ShardDone DEF UndoBatch
      <3> QED BY <1>14, <2>1, <3>1, NextShardServed DEF UndoBatch, Dispatching
    <2>2. CASE aborting BY <1>14, <2>2, PacketsAside DEF UndoBatch, packetVars
    <2> QED BY <2>1, <2>2
  <1>15. CASE StopWhileWaiting \/ CheckRaises
    BY <1>15, PacketsAside
      DEF StopWhileWaiting, CheckRaises, RaiseFromDispatch, Dispatching, packetVars
  <1>16. ASSUME NEW w \in Workers, ReplaceWhileWaiting(w) PROVE Goal
    BY <1>16, PacketsAside
      DEF ReplaceWhileWaiting, RaiseFromDispatch, Dispatching, packetVars
  <1>17. CASE CheckLiveWorker
    BY <1>17, PacketsAside DEF CheckLiveWorker, NextCheck, packetVars
  <1>18. CASE CheckDeadWorker
    BY <1>18, PacketsAside DEF CheckDeadWorker, NextCheck, packetVars
  <1> QED
    BY <1>3, <1>4, <1>5, <1>6, <1>7, <1>8, <1>9, <1>10, <1>11, <1>12, <1>13,
       <1>14, <1>15, <1>16, <1>17, <1>18 DEF Capture

\* Every step keeps the packet invariant.
LEMMA StepPacket == PacketInv /\ [Next]_vars => PacketInv'
  <1> SUFFICES ASSUME PacketInv, [Next]_vars PROVE ServedShards' /\ PacketsReconcile'
    BY StepType DEF PacketInv
  <1>1. CASE Capture BY <1>1, CapturePacket
  <1>2. ASSUME NEW w \in Workers, WorkerStep(w) \/ WorkerDeath(w)
        PROVE  ServedShards' /\ PacketsReconcile'
    <2>1. UNCHANGED captureVars
      BY <1>2 DEF WorkerStep, WorkerDeath, GetBatch, AnalysePacket, ReleaseBytes,
                  ReleaseBatch, FailOnPacket, Kill
    <2> QED BY <2>1, PacketsAside DEF captureVars, packetVars
  <1>3. CASE UNCHANGED vars
    BY <1>3, PacketsAside DEF vars, captureVars, packetVars
  <1> QED BY <1>1, <1>2, <1>3 DEF Next, Finished

\* Every packet routed to a shard is dispatched, dropped and counted, or still
\* in the current read: the final accounting check of the session can only
\* fail for a read that an exception interrupted.
THEOREM PacketsAlwaysReconcile == Spec => []PacketsReconcile
  <1>1. PacketInv => PacketsReconcile BY DEF PacketInv
  <1> QED BY <1>1, InitPacket, StepPacket, PTL DEF Spec
-----------------------------------------------------------------------------
(***************************************************************************)
(* Byte reservations                                                       *)
(***************************************************************************)

\* A field of the batches of a queue, summed.
SumIn(q, field) == SumFunction([i \in DOMAIN q |-> q[i][field]])

\* What goes in at the end of a queue comes out at its head with the same number.
LEMMA QueueSum ==
    ASSUME NEW field \in {"n", "bytes"}, NEW q \in Seq(Batches)
    PROVE  /\ SumIn(q, field) \in Nat
           /\ \A b \in Batches : SumIn(Append(q, b), field) = SumIn(q, field) + b[field]
           /\ q # <<>> => SumIn(q, field) = Head(q)[field] + SumIn(Tail(q), field)
           /\ q = <<>> => SumIn(q, field) = 0
  <1> DEFINE Field(r) == [i \in DOMAIN r |-> r[i][field]]
  <1>1. \A b \in Batches : b[field] \in Nat
    <2>1. CASE field = "n" BY <2>1
    <2>2. CASE field = "bytes" BY <2>2
    <2> QED BY <2>1, <2>2
  <1>2. Field(q) \in Seq(Nat)
    <2>1. Field(q) \in [1 .. Len(q) -> Nat] BY <1>1
    <2>2. Len(q) \in Nat OBVIOUS
    <2> QED BY <2>1, <2>2
  <1>3. \A r : SumIn(r, field) = SumFunction(Field(r)) BY DEF SumIn
  <1>4. ASSUME NEW b \in Batches PROVE SumIn(Append(q, b), field) = SumIn(q, field) + b[field]
    <2>1. b[field] \in Nat BY <1>1
    <2>2. Field(Append(q, b)) = Append(Field(q), b[field]) BY <1>2, <2>1
    <2> HIDE DEF Field
    <2>3. SumFunction(Append(Field(q), b[field])) = SumFunction(Field(q)) + b[field]
      BY <1>2, <2>1, SumList
    <2> QED BY <1>3, <2>2, <2>3
  <1>5. ASSUME q # <<>> PROVE SumIn(q, field) = Head(q)[field] + SumIn(Tail(q), field)
    <2>1. Len(q) \in Nat \ {0} /\ DOMAIN q = 1 .. Len(q) /\ Head(q) = q[1] BY <1>5
    <2>2. Len(Field(q)) = Len(q) BY <1>2, <2>1
    <2>3. Field(q) # <<>> /\ Head(Field(q)) = Head(q)[field] BY <1>2, <2>1, <2>2
    <2>4. Field(Tail(q)) = Tail(Field(q))
      <3>1. /\ DOMAIN Tail(q) = 1 .. Len(q) - 1
            /\ \A i \in 1 .. Len(q) - 1 : Tail(q)[i] = q[i + 1] /\ i + 1 \in DOMAIN q
        BY <1>5, <2>1
      <3>2. Field(Tail(q)) = [i \in 1 .. Len(q) - 1 |-> q[i + 1][field]] BY <3>1
      <3>3. Tail(Field(q)) = [i \in 1 .. Len(q) - 1 |-> Field(q)[i + 1]]
        BY <1>2, <2>2, <2>3
      <3>4. \A i \in 1 .. Len(q) - 1 : Field(q)[i + 1] = q[i + 1][field] BY <3>1
      <3> HIDE DEF Field
      <3> QED BY <3>2, <3>3, <3>4
    <2> HIDE DEF Field
    <2>5. SumFunction(Field(q)) = Head(Field(q)) + SumFunction(Tail(Field(q)))
      BY <1>2, <2>3, SumList
    <2> QED BY <1>3, <2>3, <2>4, <2>5
  <1>6. ASSUME q = <<>> PROVE SumIn(q, field) = 0
    <2>1. Field(q) = <<>> BY <1>6
    <2> HIDE DEF Field
    <2> QED BY <1>2, <1>3, <2>1, SumList
  <1>7. SumIn(q, field) \in Nat
    <2> HIDE DEF Field
    <2> QED BY <1>2, <1>3, SumList
  <1> QED BY <1>4, <1>5, <1>6, <1>7

\* The bytes of a queue as it grows and shrinks.
LEMMA QueueBytes ==
    ASSUME NEW q \in Seq(Batches)
    PROVE  /\ BytesIn(q) \in Nat
           /\ \A b \in Batches : BytesIn(Append(q, b)) = BytesIn(q) + b.bytes
           /\ q # <<>> => BytesIn(q) = Head(q).bytes + BytesIn(Tail(q))
           /\ q = <<>> => BytesIn(q) = 0
  <1>1. \A r : BytesIn(r) = SumIn(r, "bytes") BY DEF BytesIn, SumIn
  <1> QED BY <1>1, QueueSum

ByteBalance(v) ==
    /\ byteCounter[v] = QueuedBytes(v) + HeldBytes(v) + ProducerBytes(v) + leakedBytes[v]
    /\ byteCounter[v] <= MaxBytes

BytesInv == TypeInv /\ \A v \in Workers : ByteBalance(v)

\* All terms of the balance of bytes are numbers.
LEMMA ByteTypes ==
    ASSUME TypeInv, NEW v \in Workers
    PROVE  /\ byteCounter[v] \in Nat /\ QueuedBytes(v) \in Nat /\ HeldBytes(v) \in Nat
           /\ ProducerBytes(v) \in Nat /\ leakedBytes[v] \in Nat
           /\ queue[v] \in Seq(Batches)
           /\ pending[v].bytes \in Nat /\ hand[v].bytes \in Nat
  <1>1. byteCounter[v] \in Nat /\ leakedBytes[v] \in Nat /\ queue[v] \in Seq(Batches)
    BY DEF TypeInv, TypeOK
  <1>2. pending[v].bytes \in Nat /\ hand[v].bytes \in Nat
    BY BatchFacts DEF TypeInv, TypeOK
  <1>3. HeldBytes(v) \in Nat /\ ProducerBytes(v) \in Nat
    BY <1>2 DEF HeldBytes, ProducerBytes
  <1>4. QueuedBytes(v) \in Nat BY <1>1, QueueBytes DEF QueuedBytes
  <1> QED BY <1>1, <1>2, <1>3, <1>4

\* The bytes balance initially.
LEMMA InitBytes == Init => BytesInv
  <1> SUFFICES ASSUME Init, NEW v \in Workers PROVE ByteBalance(v)
    BY InitType DEF BytesInv
  <1>1. queue[v] = <<>> /\ queue[v] \in Seq(Batches) BY DEF Init
  <1>2. QueuedBytes(v) = 0 BY <1>1, QueueBytes DEF QueuedBytes
  <1> QED BY <1>2 DEF Init, ByteBalance, HeldBytes, HoldsBytes, ProducerBytes

\* A step that leaves the terms of one worker alone.
LEMMA BytesAside ==
    ASSUME BytesInv, NEW v \in Workers, byteCounter'[v] = byteCounter[v],
           queue'[v] = queue[v], leakedBytes'[v] = leakedBytes[v],
           HeldBytes(v)' = HeldBytes(v), ProducerBytes(v)' = ProducerBytes(v)
    PROVE  ByteBalance(v)'
  BY DEF BytesInv, ByteBalance, QueuedBytes

\* Capture steps that leave the counters, the queues and the reservation alone.
LEMMA CaptureBytesAside ==
    ASSUME BytesInv, UNCHANGED <<byteCounter, queue, leakedBytes>>,
           \A v \in Workers : HeldBytes(v)' = HeldBytes(v),
           \A v \in Workers : ProducerBytes(v)' = ProducerBytes(v)
    PROVE  \A v \in Workers : ByteBalance(v)'
  BY BytesAside

\* A replacement starts with nothing in its hands.
LEMMA ReplacementHoldsNoBytes ==
    ASSUME TypeInv, NEW w \in Workers, wpc[w] = "dead", Replace(w)
    PROVE  UNCHANGED leakedBytes /\ \A v \in Workers : HeldBytes(v)' = HeldBytes(v)
  <1>1. wpc \in [Workers -> WorkerStates] /\ hand \in [Workers -> Batch]
    BY DEF TypeInv, TypeOK
  <1> QED BY <1>1 DEF Replace, HeldBytes, HoldsBytes

\* The capture process keeps the bytes balanced.
LEMMA CaptureBytes ==
    ASSUME BytesInv, Capture
    PROVE  \A v \in Workers : ByteBalance(v)'
  <1> DEFINE Goal == \A v \in Workers : ByteBalance(v)'
  <1>1. /\ shard \in Workers /\ TypeInv
        /\ queue \in [Workers -> Seq(Batches)]
        /\ byteCounter \in [Workers -> Nat]
        /\ pending \in [Workers -> Batch]
    BY DEF BytesInv, TypeInv, TypeOK
  <1> USE DEF sharedVars, workerVars
  <1>2. UNCHANGED workerVars =>
          UNCHANGED leakedBytes /\ \A v \in Workers : HeldBytes(v)' = HeldBytes(v)
    BY DEF HeldBytes, HoldsBytes
  <1>3. CASE RequestStop \/ LeaveLoop \/ QueueFull \/ CountBatch \/ CheckLiveWorker
             \/ StopWhileWaiting \/ CheckRaises \/ SkipShard \/ DropOverBudget \/ UndoBatch
    <2>1. UNCHANGED <<byteCounter, queue, workerVars>>
      BY <1>3 DEF RequestStop, LeaveLoop, QueueFull, CountBatch, CheckLiveWorker,
                  StopWhileWaiting, CheckRaises, SkipShard, DropOverBudget, UndoBatch
    <2>2. \A v \in Workers : ProducerBytes(v)' = ProducerBytes(v)
      <3>1. CASE RequestStop \/ LeaveLoop \/ QueueFull \/ CountBatch
        BY <3>1 DEF RequestStop, LeaveLoop, QueueFull, CountBatch, ProducerBytes
      <3>2. CASE CheckLiveWorker
        BY <3>2 DEF CheckLiveWorker, NextCheck, ProducerBytes
      <3>3. CASE StopWhileWaiting \/ CheckRaises
        BY <3>3 DEF StopWhileWaiting, CheckRaises, RaiseFromDispatch, WaitingForBytes, WaitingForSlot,
                    ProducerBytes
      <3>4. CASE SkipShard \/ DropOverBudget \/ UndoBatch
        BY <3>4 DEF SkipShard, DropOverBudget, UndoBatch, NextShard, ProducerBytes
      <3> QED BY <1>3, <3>1, <3>2, <3>3, <3>4
    <2> QED BY <1>2, <2>1, <2>2, CaptureBytesAside
  <1>4. CASE ReadBatch \/ ReadFails
    <2>1. UNCHANGED <<byteCounter, queue, workerVars>>
      BY <1>4 DEF ReadBatch, ReadFails, Route
    <2>2. \A v \in Workers : ProducerBytes(v)' = ProducerBytes(v)
      BY <1>4 DEF ReadBatch, ReadFails, Route, ProducerBytes
    <2> QED BY <1>2, <2>1, <2>2, CaptureBytesAside
  <1>5. CASE ReserveBytes
    <2>1. /\ byteCounter' = [byteCounter EXCEPT ![shard] = @ + pending[shard].bytes]
          /\ UNCHANGED <<queue, workerVars, shard, pending>>
          /\ pc = "dispatch" /\ pc' = "count" /\ FitsBudget(shard)
      BY <1>5 DEF ReserveBytes
    <2> SUFFICES ASSUME NEW v \in Workers PROVE ByteBalance(v)' OBVIOUS
    <2>2. CASE v # shard
      <3>1. ProducerBytes(v)' = ProducerBytes(v) BY <2>1, <2>2 DEF ProducerBytes
      <3> QED BY <1>1, <1>2, <2>1, <2>2, <3>1, BytesAside
    <2>3. CASE v = shard
      <3>1. ProducerBytes(v) = 0 /\ ProducerBytes(v)' = pending[v].bytes
        BY <2>1, <2>3 DEF ProducerBytes
      <3>2. /\ byteCounter'[v] = byteCounter[v] + pending[v].bytes
            /\ byteCounter[v] + pending[v].bytes <= MaxBytes
        BY <1>1, <2>1, <2>3 DEF FitsBudget
      <3>3. /\ QueuedBytes(v)' = QueuedBytes(v) /\ HeldBytes(v)' = HeldBytes(v)
            /\ leakedBytes'[v] = leakedBytes[v]
        BY <1>2, <2>1 DEF QueuedBytes
      <3>4. byteCounter[v] = QueuedBytes(v) + HeldBytes(v) + ProducerBytes(v) + leakedBytes[v]
        BY DEF BytesInv, ByteBalance
      <3>5. /\ byteCounter[v] \in Nat /\ QueuedBytes(v) \in Nat /\ HeldBytes(v) \in Nat
            /\ ProducerBytes(v) \in Nat /\ leakedBytes[v] \in Nat
            /\ pending[v].bytes \in Nat /\ hand[v].bytes \in Nat
        BY <1>1, ByteTypes
      <3> QED BY <3>1, <3>2, <3>3, <3>4, <3>5 DEF ByteBalance
    <2> QED BY <2>2, <2>3
  <1>6. CASE PutBatch
    <2>1. /\ queue' = [queue EXCEPT ![shard] = Append(@, pending[shard])]
          /\ UNCHANGED <<byteCounter, workerVars>>
          /\ pc = "put" /\ pc' \in {"dispatch", "check"}
      BY <1>6 DEF PutBatch, NextShard
    <2> SUFFICES ASSUME NEW v \in Workers PROVE ByteBalance(v)' OBVIOUS
    <2>2. ProducerBytes(v)' = 0 BY <2>1 DEF ProducerBytes
    <2>3. CASE v # shard
      <3>1. ProducerBytes(v) = 0 BY <2>1, <2>3 DEF ProducerBytes
      <3> QED BY <1>1, <1>2, <2>2, <2>1, <2>3, <3>1, BytesAside
    <2>4. CASE v = shard
      <3>1. ProducerBytes(v) = pending[v].bytes BY <2>1, <2>4 DEF ProducerBytes
      <3>2. pending[v] \in Batches
        BY <1>1, <2>1, <2>4 DEF TypeInv, DispatcherHoldsBatch
      <3>3. queue'[v] = Append(queue[v], pending[v]) BY <1>1, <2>1, <2>4
      <3>4. QueuedBytes(v)' = QueuedBytes(v) + pending[v].bytes
        BY <1>1, <3>2, <3>3, QueueBytes DEF QueuedBytes
      <3>5. /\ HeldBytes(v)' = HeldBytes(v) /\ leakedBytes'[v] = leakedBytes[v]
            /\ byteCounter'[v] = byteCounter[v]
        BY <1>2, <2>1
      <3>6. ByteBalance(v) BY DEF BytesInv
      <3> QED BY <1>1, <2>2, <3>1, <3>4, <3>5, <3>6, ByteTypes DEF ByteBalance
    <2> QED BY <2>3, <2>4
  <1>7. CASE UndoBytes
    <2>1. /\ byteCounter' = [byteCounter EXCEPT ![shard] = Released(@, pending[shard].bytes)]
          /\ UNCHANGED <<queue, workerVars>>
          /\ pc = "undoBytes" /\ pc' = "undoBatch"
      BY <1>7 DEF UndoBytes
    <2> SUFFICES ASSUME NEW v \in Workers PROVE ByteBalance(v)' OBVIOUS
    <2>2. ProducerBytes(v)' = 0 BY <2>1 DEF ProducerBytes
    <2>3. CASE v # shard
      <3>1. ProducerBytes(v) = 0 BY <2>1, <2>3 DEF ProducerBytes
      <3> QED BY <1>1, <1>2, <2>2, <2>1, <2>3, <3>1, BytesAside
    <2>4. CASE v = shard
      <3>1. ProducerBytes(v) = pending[v].bytes BY <2>1, <2>4 DEF ProducerBytes
      <3>2. ByteBalance(v) BY DEF BytesInv
      <3>3. pending[v].bytes <= byteCounter[v]
        BY <1>1, <3>1, <3>2, ByteTypes DEF ByteBalance
      <3>4. byteCounter'[v] = byteCounter[v] - pending[v].bytes
        BY <1>1, <2>1, <2>4, <3>3, ByteTypes, ReleasedIsNat
      <3>5. /\ HeldBytes(v)' = HeldBytes(v) /\ leakedBytes'[v] = leakedBytes[v]
            /\ QueuedBytes(v)' = QueuedBytes(v)
        BY <1>2, <2>1 DEF QueuedBytes
      <3>6. /\ byteCounter[v] \in Nat /\ QueuedBytes(v) \in Nat /\ HeldBytes(v) \in Nat
            /\ ProducerBytes(v) \in Nat /\ leakedBytes[v] \in Nat
            /\ pending[v].bytes \in Nat /\ hand[v].bytes \in Nat
        BY <1>1, ByteTypes
      <3> QED BY <2>2, <3>1, <3>2, <3>3, <3>4, <3>5, <3>6 DEF ByteBalance
    <2> QED BY <2>3, <2>4
  <1>8. ASSUME NEW w \in Workers, ReplaceWhileWaiting(w) PROVE Goal
    <2>1. UNCHANGED <<byteCounter, queue>> BY <1>8 DEF ReplaceWhileWaiting
    <2>2. \A v \in Workers : ProducerBytes(v)' = ProducerBytes(v)
      BY <1>8 DEF ReplaceWhileWaiting, RaiseFromDispatch, WaitingForBytes, WaitingForSlot,
                  ProducerBytes
    <2>3. UNCHANGED leakedBytes /\ \A v \in Workers : HeldBytes(v)' = HeldBytes(v)
      BY <1>1, <1>8, <1>2, ReplacementHoldsNoBytes DEF ReplaceWhileWaiting
    <2> QED BY <2>1, <2>2, <2>3, CaptureBytesAside
  <1>9. CASE CheckDeadWorker
    <2>1. UNCHANGED <<byteCounter, queue>> BY <1>9 DEF CheckDeadWorker
    <2>2. \A v \in Workers : ProducerBytes(v)' = ProducerBytes(v)
      BY <1>9 DEF CheckDeadWorker, NextCheck, ProducerBytes
    <2>3. UNCHANGED leakedBytes /\ \A v \in Workers : HeldBytes(v)' = HeldBytes(v)
      BY <1>1, <1>9, <1>2, ReplacementHoldsNoBytes DEF CheckDeadWorker
    <2> QED BY <2>1, <2>2, <2>3, CaptureBytesAside
  <1> QED BY <1>3, <1>4, <1>5, <1>6, <1>7, <1>8, <1>9 DEF Capture

\* So do the workers.
LEMMA WorkerBytes ==
    ASSUME BytesInv, NEW w \in Workers, WorkerStep(w) \/ WorkerDeath(w)
    PROVE  \A v \in Workers : ByteBalance(v)'
  <1>1. /\ TypeInv
        /\ queue \in [Workers -> Seq(Batches)]
        /\ byteCounter \in [Workers -> Nat]
        /\ leakedBytes \in [Workers -> Nat]
        /\ hand \in [Workers -> Batch]
        /\ wpc \in [Workers -> WorkerStates]
    BY DEF BytesInv, TypeInv, TypeOK
  <1> USE DEF sharedVars, captureVars
  <1> SUFFICES ASSUME NEW v \in Workers PROVE ByteBalance(v)' OBVIOUS
  <1>2. ProducerBytes(v)' = ProducerBytes(v)
    BY DEF WorkerStep, WorkerDeath, GetBatch, AnalysePacket, ReleaseBytes,
           ReleaseBatch, FailOnPacket, Kill, ProducerBytes
  <1>3. ByteBalance(v) BY DEF BytesInv
  <1>4. CASE v # w
    <2>1. /\ byteCounter'[v] = byteCounter[v] /\ queue'[v] = queue[v]
          /\ leakedBytes'[v] = leakedBytes[v] /\ wpc'[v] = wpc[v] /\ hand'[v] = hand[v]
      BY <1>1, <1>4 DEF WorkerStep, WorkerDeath, GetBatch, AnalysePacket, ReleaseBytes,
           ReleaseBatch, FailOnPacket, Kill
    <2>2. HeldBytes(v)' = HeldBytes(v) BY <2>1 DEF HeldBytes, HoldsBytes
    <2> QED BY <1>2, <2>1, <2>2, BytesAside
  <1>5. CASE v = w
    <2>1. CASE GetBatch(w)
      <3>1. queue[v] \in Seq(Batches) /\ queue[v] # <<>> BY <1>1, <1>5, <2>1 DEF GetBatch
      <3>2. queue'[v] = Tail(queue[v]) /\ hand'[v] = Head(queue[v])
            /\ wpc[v] = "idle" /\ wpc'[v] = "work"
            /\ UNCHANGED <<byteCounter, leakedBytes>>
        BY <1>1, <1>5, <2>1 DEF GetBatch
      <3>3. HeldBytes(v) = 0 /\ HeldBytes(v)' = Head(queue[v]).bytes
        BY <3>2 DEF HeldBytes, HoldsBytes
      <3>4. QueuedBytes(v) = Head(queue[v]).bytes + QueuedBytes(v)'
        BY <3>1, <3>2, QueueBytes DEF QueuedBytes
      <3>5. QueuedBytes(v)' \in Nat
        <4>1. Tail(queue[v]) \in Seq(Batches) BY <3>1
        <4> QED BY <4>1, <3>2, QueueBytes DEF QueuedBytes
      <3>6. Head(queue[v]).bytes \in Nat
        <4>1. Head(queue[v]) \in Batches BY <3>1
        <4> QED BY <4>1, BatchFacts
      <3> DEFINE hb == Head(queue[v]).bytes
      <3> HIDE DEF hb
      <3>7. /\ byteCounter[v] = QueuedBytes(v) + 0 + ProducerBytes(v) + leakedBytes[v]
            /\ QueuedBytes(v) = hb + QueuedBytes(v)' /\ hb \in Nat
            /\ byteCounter[v] <= MaxBytes
            /\ byteCounter'[v] = byteCounter[v] /\ leakedBytes'[v] = leakedBytes[v]
            /\ HeldBytes(v)' = hb
        BY <1>3, <3>2, <3>3, <3>4, <3>6 DEF ByteBalance, hb
      <3> QED BY <1>1, <1>2, <3>5, <3>7, ByteTypes DEF ByteBalance
    <2>2. CASE AnalysePacket(w) \/ FailOnPacket(w) \/ ReleaseBatch(w)
      <3>1. UNCHANGED <<byteCounter, queue, leakedBytes>>
        BY <2>2 DEF AnalysePacket, FailOnPacket, ReleaseBatch
      <3>2. HeldBytes(v)' = HeldBytes(v)
        BY <1>1, <1>5, <2>2 DEF AnalysePacket, FailOnPacket, ReleaseBatch, HeldBytes, HoldsBytes
      <3> QED BY <1>2, <3>1, <3>2, BytesAside
    <2>3. CASE ReleaseBytes(w)
      <3>1. /\ byteCounter'[v] = Released(byteCounter[v], hand[v].bytes)
            /\ UNCHANGED <<queue, leakedBytes>>
            /\ wpc[v] = "releaseBytes" /\ wpc'[v] = "releaseBatch"
        BY <1>1, <1>5, <2>3 DEF ReleaseBytes
      <3>2. HeldBytes(v) = hand[v].bytes /\ HeldBytes(v)' = 0
        BY <3>1 DEF HeldBytes, HoldsBytes
      <3>3. hand[v].bytes <= byteCounter[v]
        BY <1>1, <1>3, <3>2, ByteTypes DEF ByteBalance
      <3>4. byteCounter'[v] = byteCounter[v] - hand[v].bytes
        BY <1>1, <3>1, <3>3, ByteTypes, ReleasedIsNat
      <3>5. QueuedBytes(v)' = QueuedBytes(v) /\ leakedBytes'[v] = leakedBytes[v]
        BY <3>1 DEF QueuedBytes
      <3>6. /\ byteCounter[v] \in Nat /\ QueuedBytes(v) \in Nat /\ HeldBytes(v) \in Nat
            /\ ProducerBytes(v) \in Nat /\ leakedBytes[v] \in Nat
            /\ pending[v].bytes \in Nat /\ hand[v].bytes \in Nat
        BY <1>1, ByteTypes
      <3> QED BY <1>2, <1>3, <3>2, <3>3, <3>4, <3>5, <3>6 DEF ByteBalance
    <2>4. CASE Kill(w)
      <3>1. leakedBytes'[v] = leakedBytes[v] + HeldBytes(v)
        BY <1>1, <1>5, <2>4 DEF Kill, HeldBytes
      <3>2. HeldBytes(v)' = 0
        BY <1>1, <1>5, <2>4 DEF Kill, HeldBytes, HoldsBytes
      <3>3. QueuedBytes(v)' = QueuedBytes(v) /\ byteCounter'[v] = byteCounter[v]
        BY <2>4 DEF Kill, QueuedBytes
      <3> QED BY <1>1, <1>2, <1>3, <3>1, <3>2, <3>3, ByteTypes DEF ByteBalance
    <2> QED BY <2>1, <2>2, <2>3, <2>4, <1>5 DEF WorkerStep, WorkerDeath
  <1> QED BY <1>4, <1>5

\* Every step keeps the bytes balanced.
LEMMA StepBytes == BytesInv /\ [Next]_vars => BytesInv'
  <1> SUFFICES ASSUME BytesInv, [Next]_vars PROVE \A v \in Workers : ByteBalance(v)'
    BY StepType DEF BytesInv
  <1>1. CASE Capture BY <1>1, CaptureBytes
  <1>2. ASSUME NEW w \in Workers, WorkerStep(w) \/ WorkerDeath(w)
        PROVE  \A v \in Workers : ByteBalance(v)'
    BY <1>2, WorkerBytes
  <1>3. CASE UNCHANGED vars
    <2>1. /\ UNCHANGED <<byteCounter, queue, leakedBytes>>
          /\ \A v \in Workers : HeldBytes(v)' = HeldBytes(v)
          /\ \A v \in Workers : ProducerBytes(v)' = ProducerBytes(v)
      BY <1>3 DEF vars, captureVars, sharedVars, workerVars, HeldBytes, HoldsBytes, ProducerBytes
    <2> QED BY <2>1, CaptureBytesAside
  <1> QED BY <1>1, <1>2, <1>3 DEF Next, Finished

\* The shared byte counter of every worker is exactly the bytes buffered, held by
\* the worker, being put, or lost with a killed worker, and what is in memory for
\* a worker stays within max_worker_queue_bytes.
THEOREM BytesAlwaysReconcile == Spec => []BytesReconcile
  <1>1. BytesInv => BytesReconcile
    <2> SUFFICES ASSUME BytesInv, NEW w \in Workers
                 PROVE  /\ byteCounter[w] = QueuedBytes(w) + HeldBytes(w) + ProducerBytes(w)
                                            + leakedBytes[w]
                        /\ QueuedBytes(w) + HeldBytes(w) <= MaxBytes
      BY DEF BytesReconcile
    <2>1. ByteBalance(w) BY DEF BytesInv
    <2> QED BY <2>1, ByteTypes DEF ByteBalance, BytesInv
  <1> QED BY <1>1, InitBytes, StepBytes, PTL DEF Spec
-----------------------------------------------------------------------------
(***************************************************************************)
(* Loss of packets after the dispatch                                      *)
(***************************************************************************)

\* Packets in the queue and in the loop of a worker.
QueuedPackets(v) == SumIn(queue[v], "n")
LoopPackets(v) == IF wpc[v] = "work" THEN left[v] ELSE 0

\* What was dispatched to a worker is analysed, waiting or lost; without a death
\* none is lost.
Followed(v) ==
    /\ processed[v] + QueuedPackets(v) + LoopPackets(v) <= dispatched[v]
    /\ deaths = 0 =>
         /\ processed[v] + QueuedPackets(v) + LoopPackets(v) = dispatched[v]
         /\ wpc[v] # "dead" /\ ~dying[v]

LossInv == TypeInv /\ \A v \in Workers : Followed(v)

\* All terms of the balance of packets are numbers.
LEMMA LossTypes ==
    ASSUME TypeInv, NEW v \in Workers
    PROVE  /\ processed[v] \in Nat /\ dispatched[v] \in Nat /\ left[v] \in Nat
           /\ QueuedPackets(v) \in Nat /\ LoopPackets(v) \in Nat
           /\ queue[v] \in Seq(Batches) /\ deaths \in Nat
  <1>1. /\ processed[v] \in Nat /\ dispatched[v] \in Nat /\ left[v] \in Nat
        /\ queue[v] \in Seq(Batches) /\ deaths \in Nat
    BY DEF TypeInv, TypeOK
  <1>2. QueuedPackets(v) \in Nat BY <1>1, QueueSum DEF QueuedPackets
  <1> QED BY <1>1, <1>2 DEF LoopPackets

\* Nothing is lost initially.
LEMMA InitLoss == Init => LossInv
  <1> SUFFICES ASSUME Init, NEW v \in Workers PROVE Followed(v) BY InitType DEF LossInv
  <1>1. queue[v] = <<>> /\ queue[v] \in Seq(Batches) BY DEF Init
  <1>2. QueuedPackets(v) = 0 BY <1>1, QueueSum DEF QueuedPackets
  <1> QED BY <1>2 DEF Init, Followed, LoopPackets

\* A step that leaves what was dispatched to one worker where it is.
LEMMA LossAside ==
    ASSUME LossInv, NEW v \in Workers, processed'[v] = processed[v], queue'[v] = queue[v],
           wpc'[v] = wpc[v], left'[v] = left[v], dying'[v] = dying[v],
           dispatched'[v] = dispatched[v], deaths' = 0 => deaths = 0
    PROVE  Followed(v)'
  <1>1. QueuedPackets(v)' = QueuedPackets(v) /\ LoopPackets(v)' = LoopPackets(v)
    BY DEF QueuedPackets, LoopPackets
  <1> QED BY <1>1 DEF LossInv, Followed

\* The capture process loses no packet.
LEMMA CaptureLoss ==
    ASSUME LossInv, Capture
    PROVE  \A v \in Workers : Followed(v)'
  <1> DEFINE Goal == \A v \in Workers : Followed(v)'
  <1>1. /\ shard \in Workers /\ TypeInv
        /\ queue \in [Workers -> Seq(Batches)]
        /\ dispatched \in [Workers -> Nat]
        /\ wpc \in [Workers -> WorkerStates] /\ left \in [Workers -> Nat]
        /\ dying \in [Workers -> BOOLEAN]
    BY DEF LossInv, TypeInv, TypeOK
  <1> USE DEF sharedVars, workerVars
  <1>2. ASSUME NEW w \in Workers, wpc[w] = "dead", UNCHANGED <<queue, dispatched>>,
               Replace(w) \/ UNCHANGED workerVars
        PROVE  Goal
    <2>1. CASE UNCHANGED workerVars BY <1>2, <2>1, LossAside
    <2>2. CASE Replace(w)
      <3> SUFFICES ASSUME NEW v \in Workers PROVE Followed(v)' OBVIOUS
      <3>1. UNCHANGED <<processed, deaths>> BY <2>2 DEF Replace
      <3>2. CASE v # w BY <1>1, <1>2, <2>2, <3>1, <3>2, LossAside DEF Replace
      <3>3. CASE v = w
        <4>1. LoopPackets(v) = 0 /\ LoopPackets(v)' = 0 /\ QueuedPackets(v)' = QueuedPackets(v)
          BY <1>1, <1>2, <2>2, <3>3 DEF Replace, LoopPackets, QueuedPackets
        <4>2. deaths # 0 BY <1>2, <3>3 DEF LossInv, Followed
        <4> QED BY <1>2, <3>1, <4>1, <4>2 DEF LossInv, Followed
      <3> QED BY <3>2, <3>3
    <2> QED BY <1>2, <2>1, <2>2
  <1>3. CASE PutBatch
    <2>1. /\ queue' = [queue EXCEPT ![shard] = Append(@, pending[shard])]
          /\ dispatched' = [dispatched EXCEPT ![shard] = @ + pending[shard].n]
          /\ UNCHANGED workerVars /\ pc = "put"
      BY <1>3 DEF PutBatch
    <2> SUFFICES ASSUME NEW v \in Workers PROVE Followed(v)' OBVIOUS
    <2>2. CASE v # shard BY <1>1, <2>1, <2>2, LossAside
    <2>3. CASE v = shard
      <3>1. pending[v] \in Batches
        BY <1>1, <2>1, <2>3 DEF TypeInv, DispatcherHoldsBatch
      <3>2. queue'[v] = Append(queue[v], pending[v]) BY <1>1, <2>1, <2>3
      <3>3. QueuedPackets(v)' = QueuedPackets(v) + pending[v].n
        BY <1>1, <3>1, <3>2, QueueSum DEF QueuedPackets
      <3>4. /\ dispatched'[v] = dispatched[v] + pending[v].n
            /\ LoopPackets(v)' = LoopPackets(v) /\ processed'[v] = processed[v]
            /\ deaths' = deaths /\ wpc'[v] = wpc[v] /\ dying'[v] = dying[v]
        BY <1>1, <2>1, <2>3 DEF LoopPackets
      <3>5. pending[v].n \in Nat BY <3>1, BatchFacts
      <3>6. /\ processed[v] \in Nat /\ dispatched[v] \in Nat
            /\ QueuedPackets(v) \in Nat /\ LoopPackets(v) \in Nat
        BY <1>1, LossTypes
      <3>7. Followed(v) BY DEF LossInv
      <3> QED BY <3>3, <3>4, <3>5, <3>6, <3>7 DEF Followed
    <2> QED BY <2>2, <2>3
  <1>4. ASSUME NEW w \in Workers, ReplaceWhileWaiting(w) PROVE Goal
    BY <1>4, <1>2 DEF ReplaceWhileWaiting
  <1>5. CASE CheckDeadWorker BY <1>1, <1>5, <1>2 DEF CheckDeadWorker
  <1>6. CASE UNCHANGED <<queue, dispatched, workerVars>> BY <1>6, LossAside
  <1>7. CASE RequestStop \/ LeaveLoop \/ QueueFull \/ CountBatch \/ CheckLiveWorker
             \/ StopWhileWaiting \/ CheckRaises \/ SkipShard \/ DropOverBudget \/ UndoBatch
             \/ ReadBatch \/ ReadFails \/ ReserveBytes \/ UndoBytes
    BY <1>6, <1>7 DEF RequestStop, LeaveLoop, QueueFull, CountBatch, CheckLiveWorker,
              StopWhileWaiting, CheckRaises, SkipShard, DropOverBudget, UndoBatch,
              ReadBatch, ReadFails, Route, ReserveBytes, UndoBytes
  <1> QED BY <1>3, <1>4, <1>5, <1>7 DEF Capture

\* A worker loses one only by dying.
LEMMA WorkerLoss ==
    ASSUME LossInv, NEW w \in Workers, WorkerStep(w) \/ WorkerDeath(w)
    PROVE  \A v \in Workers : Followed(v)'
  <1>1. /\ TypeInv
        /\ queue \in [Workers -> Seq(Batches)]
        /\ wpc \in [Workers -> WorkerStates] /\ left \in [Workers -> Nat]
        /\ dying \in [Workers -> BOOLEAN] /\ processed \in [Workers -> Nat]
        /\ deaths \in Nat
    <2>1. TypeOK /\ TypeInv BY DEF LossInv, TypeInv
    <2>2. deaths \in Nat BY <2>1 DEF TypeOK
    <2> QED BY <2>1, <2>2 DEF TypeOK
  <1> USE DEF sharedVars, captureVars
  <1> SUFFICES ASSUME NEW v \in Workers PROVE Followed(v)' OBVIOUS
  <1>2. dispatched' = dispatched
    BY DEF WorkerStep, WorkerDeath, GetBatch, AnalysePacket, ReleaseBytes,
           ReleaseBatch, FailOnPacket, Kill
  <1>3. Followed(v) BY DEF LossInv
  <1>4. CASE v # w
    <2>1. /\ processed'[v] = processed[v] /\ queue'[v] = queue[v] /\ wpc'[v] = wpc[v]
          /\ left'[v] = left[v] /\ dying'[v] = dying[v]
      BY <1>1, <1>4 DEF WorkerStep, WorkerDeath, GetBatch, AnalysePacket, ReleaseBytes,
           ReleaseBatch, FailOnPacket, Kill
    <2>2. deaths' = 0 => deaths = 0
      BY <1>1 DEF WorkerStep, WorkerDeath, GetBatch, AnalysePacket, ReleaseBytes,
           ReleaseBatch, FailOnPacket, Kill
    <2> QED BY <1>2, <2>1, <2>2, LossAside
  <1>5. CASE v = w
    <2>1. /\ processed[v] \in Nat /\ dispatched[v] \in Nat /\ left[v] \in Nat
          /\ QueuedPackets(v) \in Nat /\ LoopPackets(v) \in Nat
      BY <1>1, LossTypes
    <2>2. CASE GetBatch(w)
      <3>1. queue[v] \in Seq(Batches) /\ queue[v] # <<>> BY <1>1, <1>5, <2>2 DEF GetBatch
      <3>2. /\ queue'[v] = Tail(queue[v]) /\ left'[v] = Head(queue[v]).n
            /\ wpc[v] = "idle" /\ wpc'[v] = "work"
            /\ UNCHANGED <<processed, dying, deaths>>
        BY <1>1, <1>5, <2>2 DEF GetBatch
      <3>3. LoopPackets(v) = 0 /\ LoopPackets(v)' = Head(queue[v]).n
        BY <3>2 DEF LoopPackets
      <3>4. QueuedPackets(v) = Head(queue[v]).n + QueuedPackets(v)'
        BY <3>1, <3>2, QueueSum DEF QueuedPackets
      <3>5. QueuedPackets(v)' \in Nat
        <4>1. Tail(queue[v]) \in Seq(Batches) BY <3>1
        <4> QED BY <4>1, <3>2, QueueSum DEF QueuedPackets
      <3>6. Head(queue[v]).n \in Nat
        <4>1. Head(queue[v]) \in Batches BY <3>1
        <4> QED BY <4>1, BatchFacts
      <3>7. QueuedPackets(v)' + LoopPackets(v)' = QueuedPackets(v) + LoopPackets(v)
            /\ LoopPackets(v)' \in Nat
        BY <3>3, <3>4, <3>5, <3>6
      <3> QED BY <1>2, <1>3, <2>1, <3>2, <3>5, <3>7 DEF Followed
    <2>3. CASE AnalysePacket(w)
      <3>1. /\ processed'[v] = processed[v] + 1 /\ left'[v] = left[v] - 1
            /\ wpc[v] = "work" /\ wpc'[v] = IF left[v] = 1 THEN "releaseBytes" ELSE "work"
            /\ UNCHANGED <<queue, dying, deaths>>
        BY <1>1, <1>5, <2>3 DEF AnalysePacket
      <3>2. left[v] > 0 BY <1>1, <3>1 DEF TypeInv, WorkerHasPacket
      <3>3. LoopPackets(v) = left[v] /\ LoopPackets(v)' = left[v] - 1
        BY <2>1, <3>1, <3>2 DEF LoopPackets
      <3>4. QueuedPackets(v)' = QueuedPackets(v) BY <3>1 DEF QueuedPackets
      <3>5. wpc'[v] # "dead" BY <3>1
      <3> QED BY <1>2, <1>3, <2>1, <3>1, <3>3, <3>4, <3>5 DEF Followed
    <2>4. CASE FailOnPacket(w)
      <3>1. /\ processed'[v] = processed[v] + 1 /\ wpc[v] = "work"
            /\ wpc'[v] = "releaseBytes" /\ deaths' = deaths + 1 /\ UNCHANGED queue
        BY <1>1, <1>5, <2>4 DEF FailOnPacket
      <3>2. LoopPackets(v) > 0 /\ LoopPackets(v)' = 0
        BY <1>1, <3>1 DEF TypeInv, WorkerHasPacket, LoopPackets
      <3>3. QueuedPackets(v)' = QueuedPackets(v) BY <3>1 DEF QueuedPackets
      <3>4. deaths' # 0 BY <1>1, <3>1
      <3> QED BY <1>2, <1>3, <2>1, <3>1, <3>2, <3>3, <3>4 DEF Followed
    <2>5. CASE ReleaseBytes(w) \/ ReleaseBatch(w)
      <3>1. UNCHANGED <<processed, queue, dying, deaths>>
        BY <2>5 DEF ReleaseBytes, ReleaseBatch
      <3>2. LoopPackets(v) = 0 /\ LoopPackets(v)' = 0
        BY <1>1, <1>5, <2>5 DEF ReleaseBytes, ReleaseBatch, LoopPackets
      <3>3. ~dying[v] => wpc'[v] # "dead"
        BY <1>1, <1>5, <2>5 DEF ReleaseBytes, ReleaseBatch
      <3>4. QueuedPackets(v)' = QueuedPackets(v) BY <3>1 DEF QueuedPackets
      <3> QED BY <1>2, <1>3, <3>1, <3>2, <3>3, <3>4 DEF Followed
    <2>6. CASE Kill(w)
      <3>1. UNCHANGED <<processed, queue>> /\ deaths' # 0 BY <1>1, <2>6 DEF Kill
      <3>2. LoopPackets(v)' = 0 BY <1>1, <1>5, <2>6 DEF Kill, LoopPackets
      <3>3. QueuedPackets(v)' = QueuedPackets(v) BY <3>1 DEF QueuedPackets
      <3> QED BY <1>2, <1>3, <2>1, <3>1, <3>2, <3>3 DEF Followed
    <2> QED BY <2>2, <2>3, <2>4, <2>5, <2>6, <1>5 DEF WorkerStep, WorkerDeath
  <1> QED BY <1>4, <1>5

\* Every step keeps the account of losses.
LEMMA StepLoss == LossInv /\ [Next]_vars => LossInv'
  <1> SUFFICES ASSUME LossInv, [Next]_vars PROVE \A v \in Workers : Followed(v)'
    BY StepType DEF LossInv
  <1>1. CASE Capture BY <1>1, CaptureLoss
  <1>2. ASSUME NEW w \in Workers, WorkerStep(w) \/ WorkerDeath(w)
        PROVE  \A v \in Workers : Followed(v)'
    BY <1>2, WorkerLoss
  <1>3. CASE UNCHANGED vars
    BY <1>3, LossAside DEF vars, captureVars, sharedVars, workerVars
  <1> QED BY <1>1, <1>2, <1>3 DEF Next, Finished

\* A worker at rest without a death has analysed what was dispatched to it.
LEMMA RestAnalysed ==
    ASSUME LossInv, NEW v \in Workers, deaths = 0, WorkerAtRest(v)
    PROVE  processed[v] = dispatched[v]
  <1>1. Followed(v) /\ TypeInv BY DEF LossInv
  <1>2. wpc[v] = "idle" /\ queue[v] = <<>> BY <1>1 DEF Followed, WorkerAtRest
  <1>3. QueuedPackets(v) = 0 BY <1>1, <1>2, LossTypes, QueueSum DEF QueuedPackets
  <1>4. LoopPackets(v) = 0 BY <1>2 DEF LoopPackets
  <1>5. processed[v] \in Nat /\ dispatched[v] \in Nat BY <1>1, LossTypes
  <1> QED BY <1>1, <1>3, <1>4, <1>5 DEF Followed

\* Packets that were dispatched and never analysed are those lost with a worker
\* that died.
THEOREM LossAlwaysNeedsDeath == Spec => []LossNeedsDeath
  <1>1. LossInv => LossNeedsDeath
    <2> SUFFICES ASSUME LossInv, NEW v \in Workers
                 PROVE  /\ processed[v] <= dispatched[v]
                        /\ (deaths = 0 /\ WorkerAtRest(v)) => processed[v] = dispatched[v]
      BY DEF LossNeedsDeath
    <2>1. /\ processed[v] \in Nat /\ dispatched[v] \in Nat
          /\ QueuedPackets(v) \in Nat /\ LoopPackets(v) \in Nat
      BY LossTypes DEF LossInv
    <2>2. processed[v] <= dispatched[v] BY <2>1 DEF LossInv, Followed
    <2> QED BY <2>2, RestAnalysed
  <1> QED BY <1>1, InitLoss, StepLoss, PTL DEF Spec
-----------------------------------------------------------------------------
(***************************************************************************)
(* A replay                                                                *)
(***************************************************************************)

AllFit == \A b \in Batches : b.bytes <= MaxBytes

\* A replay rolls an admission back only to raise, and drops only what can never fit.
ReplayWaitsForRoom ==
    offline =>
        /\ pc \in {"undoBytes", "undoBatch"} => aborting
        /\ \A v \in Workers : slotDrops[v] = 0
        /\ AllFit => \A v \in Workers : budgetDrops[v] = 0

ReplayInv == TypeInv /\ ReplayWaitsForRoom

\* Every step of a replay keeps it without a loss.
LEMMA StepReplay == ReplayInv /\ [Next]_vars => ReplayInv'
  <1> SUFFICES ASSUME ReplayInv, [Next]_vars PROVE ReplayWaitsForRoom'
    BY StepType DEF ReplayInv
  <1>1. /\ TypeInv /\ shard \in Workers /\ pending \in [Workers -> Batch]
        /\ slotDrops \in [Workers -> Nat] /\ budgetDrops \in [Workers -> Nat]
    BY DEF ReplayInv, TypeInv, TypeOK
  <1> USE DEF ReplayInv, ReplayWaitsForRoom, sharedVars, workerVars
  <1>2. CASE RequestStop \/ LeaveLoop \/ CountBatch
    BY <1>2 DEF RequestStop, LeaveLoop, CountBatch
  <1>3. CASE ReadBatch \/ ReadFails BY <1>3 DEF ReadBatch, ReadFails, Route
  <1>4. CASE SkipShard BY <1>4 DEF SkipShard, NextShard
  <1>5. CASE ReserveBytes BY <1>5 DEF ReserveBytes
  <1>6. CASE DropOverBudget
    <2>1. offline => pending[shard] \in Batches /\ pending[shard].bytes > MaxBytes
      BY <1>1, <1>6, BatchFacts DEF DropOverBudget
    <2>2. /\ pc' \in {"dispatch", "check"} /\ UNCHANGED <<offline, aborting, slotDrops>>
      BY <1>6 DEF DropOverBudget, NextShard
    <2>3. AllFit => ~offline
      <3>1. \A b \in Batches : b.bytes \in Nat BY BatchFacts
      <3> QED BY <2>1, <3>1 DEF AllFit
    <2> QED BY <2>2, <2>3
  <1>7. CASE PutBatch BY <1>7 DEF PutBatch, NextShard
  <1>8. CASE QueueFull BY <1>8 DEF QueueFull
  <1>9. CASE UndoBytes BY <1>9 DEF UndoBytes
  <1>10. CASE UndoBatch BY <1>10 DEF UndoBatch, NextShard
  <1>11. CASE StopWhileWaiting \/ CheckRaises BY <1>11 DEF StopWhileWaiting, CheckRaises, RaiseFromDispatch
  <1>12. ASSUME NEW w \in Workers, ReplaceWhileWaiting(w) PROVE ReplayWaitsForRoom'
    BY <1>12 DEF ReplaceWhileWaiting, RaiseFromDispatch
  <1>13. CASE CheckLiveWorker BY <1>13 DEF CheckLiveWorker, NextCheck
  <1>14. CASE CheckDeadWorker BY <1>14 DEF CheckDeadWorker, NextCheck
  <1>15. ASSUME NEW w \in Workers, WorkerStep(w) \/ WorkerDeath(w) PROVE ReplayWaitsForRoom'
    <2>1. UNCHANGED captureVars
      BY <1>15 DEF WorkerStep, WorkerDeath, GetBatch, AnalysePacket, ReleaseBytes,
                   ReleaseBatch, FailOnPacket, Kill
    <2> QED BY <2>1 DEF captureVars
  <1>16. CASE UNCHANGED vars BY <1>16 DEF vars, captureVars
  <1> QED
    BY <1>2, <1>3, <1>4, <1>5, <1>6, <1>7, <1>8, <1>9, <1>10, <1>11, <1>12, <1>13,
       <1>14, <1>15, <1>16 DEF Next, Capture, Finished

\* A replay whose batches fit the budget and whose workers stay alive has analysed
\* every packet it routed when it comes to rest at the end of its file.
THEOREM ReplayNeverLoses == Spec => []ReplayLosesNothing
  <1>1. Init => ReplayInv
    <2> SUFFICES ASSUME Init PROVE ReplayWaitsForRoom BY InitType DEF ReplayInv
    <2> QED BY DEF Init, ReplayWaitsForRoom
  <1>2. LossInv /\ PacketInv /\ ReplayInv => ReplayLosesNothing
    <2> SUFFICES ASSUME LossInv, PacketInv, ReplayInv, offline, pc = "stopped", deaths = 0,
                        AllFit, \A w \in Workers : WorkerAtRest(w)
                 PROVE  captured = processed
      BY DEF ReplayLosesNothing, AllFit
    <2>1. ASSUME NEW v \in Workers PROVE captured[v] = processed[v]
      <3>1. processed[v] = dispatched[v] BY RestAnalysed
      <3>2. slotDrops[v] = 0 /\ budgetDrops[v] = 0 BY DEF ReplayInv, ReplayWaitsForRoom
      <3>3. pending[v].n = 0 BY BatchFacts DEF PacketInv, ServedShards
      <3>4. /\ captured[v] = dispatched[v] + slotDrops[v] + budgetDrops[v] + pending[v].n
            /\ dispatched[v] \in Nat
        BY Account
      <3> QED BY <3>1, <3>2, <3>3, <3>4
    <2>2. captured \in [Workers -> Nat] /\ processed \in [Workers -> Nat]
      BY DEF PacketInv, TypeInv, TypeOK
    <2> QED BY <2>1, <2>2
  <1> QED BY <1>1, <1>2, InitLoss, StepLoss, InitPacket, StepPacket, StepReplay, PTL DEF Spec
=============================================================================
