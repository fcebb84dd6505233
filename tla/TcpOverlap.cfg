\* One direction across the sequence wrap.
SPECIFICATION Spec
CONSTANTS
    SeqModulus = 32
    HistoryBytes = 2
    Packets <- Overlapping
    MaxFlows = 1
    MaxPending = 4
    MaxSegments = 2
    MaxBuffered = 9
    MaxBufferedSegments = 9
    Idle = 9
    MaxTime = 4
INVARIANTS
    EmittedOnce
    FirstBytesWin
    PromptDelivery
    OffsetsFollowSequence
    NoHiddenGap
