\* A connection with handshake, keepalive, close and port reuse, among more
\* flows and queued bytes than the limits allow.
SPECIFICATION Spec
CONSTANTS
    SeqModulus = 8
    HistoryBytes = 2
    Packets <- Crowded
    MaxFlows = 2
    MaxPending = 2
    MaxSegments = 1
    MaxBuffered = 2
    MaxBufferedSegments = 2
    Idle = 2
    MaxTime = 5
INVARIANTS
    BudgetsReconcile
    ExpiryFindsAllIdle
    PayloadConserved
