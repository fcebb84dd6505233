\* One worker queue, live or replay: full slots, an exhausted byte budget,
\* rollbacks, waits, and up to two worker deaths.
SPECIFICATION FairSpec
CONSTANTS
    NumWorkers = 1
    QueueSize = 1
    MaxBytes = 5
    Batches <- SmallAndLarge
    MaxReads = 4
    MaxDeaths = 2
INVARIANTS
    BatchesReconcile
    BytesReconcile
    PacketsReconcile
    OutstandingWithoutKill
    LossNeedsDeath
    ReplayLosesNothing
PROPERTIES
    EventuallyReleased
    ReplayProgressWithoutLeak
