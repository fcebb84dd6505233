\* Two workers, no traffic, a required ring, an operational queue that may be full for
\* run() and the second worker: what became of the children and of their records.
SPECIFICATION Spec
CONSTANTS
    NumWorkers = 2
    QueueSize = 1
    FindingSlots = 1
    RestartLimit = 2
    RawEnabled = TRUE
    RawRequired = TRUE
    RunDrops = TRUE
    Droppers = {1}
    MaxPackets = 0
    MaxDeaths = 1
INVARIANTS
    NoChildForgotten
    CompleteDroppedNothing
