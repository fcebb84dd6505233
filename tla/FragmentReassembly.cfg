\* Three datagrams against room for two.
SPECIFICATION Spec
CONSTANTS
    Fragments <- Mixed
    Block = 2
    MaxDatagramBytes = 9
    MaxDatagrams = 2
    MaxBytes = 6
    MaxRangesEach = 2
    MaxRanges = 2
    MaxSources = 3
    Idle = 3
    MaxTime = 6
INVARIANTS
    Unambiguous
    NothingWithheld
    MemoryBounded
    LossCounted
