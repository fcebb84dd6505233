\* The raw flow alone, far from every limit.
SPECIFICATION Spec
CONSTANTS
    Flows = {"raw"}
    Tokens <- RawTokens
    SmbFlows = {}
    TlsRecords = {}
    Chunks <- RawChunks
    Overlap = 6
    TrimSlack = 1
    MaxFlows = 2
    MaxRetained = 40
    MaxMetadata = 9
    MaxSpans = 20
    MaxNtlmBytes = 20
    MaxFlowBytes = 20
    MaxNtlmObjects = 9
    MaxFlowObjects = 9
    MarkerSize = 1
    MaxSent = 4
    MaxExpiries = 0
\* The traffic may end after any chunk.
CHECK_DEADLOCK FALSE
INVARIANT
    PairsInOrder
