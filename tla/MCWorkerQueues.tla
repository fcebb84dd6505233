--------------------------- MODULE MCWorkerQueues ---------------------------
(* Batches for small instances of WorkerQueues.                             *)
EXTENDS WorkerQueues

\* Batches of different lengths; two large ones do not fit a budget of 5.
SmallAndLarge == {[n |-> 1, bytes |-> 1], [n |-> 2, bytes |-> 3]}
=============================================================================
