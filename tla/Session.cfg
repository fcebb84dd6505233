\* One worker, one packet, the raw ring, one death anywhere and the replacement of a
\* worker: what a verdict says, and that there is one in the end.
SPECIFICATION FairSpec
CONSTANTS
    NumWorkers = 1
    QueueSize = 1
    FindingSlots = 1
    RestartLimit = 2
    RawEnabled = TRUE
    RawRequired = FALSE
    RunDrops = FALSE
    Droppers = {}
    MaxPackets = 1
    MaxDeaths = 1
INVARIANTS
    CompleteIsTrue
    WrittenOnce
    VerdictUnlessInterrupted
PROPERTIES
    SessionEnds
    WriterFailureHalts
