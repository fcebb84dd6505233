\* Three flows in room for two, with limits that single chunks reach.
SPECIFICATION Spec
CONSTANTS
    Flows <- ThreeFlows
    Tokens <- ThreeStreams
    SmbFlows = {"smb"}
    TlsRecords <- Hello
    Chunks <- AllChunks
    Overlap = 3
    TrimSlack = 1
    MaxFlows = 2
    MaxRetained = 9
    MaxMetadata = 4
    MaxSpans = 3
    MaxNtlmBytes = 4
    MaxFlowBytes = 3
    MaxNtlmObjects = 3
    MaxFlowObjects = 2
    MarkerSize = 1
    MaxSent = 4
    MaxExpiries = 1
\* The traffic may end after any chunk.
CHECK_DEADLOCK FALSE
INVARIANTS
    RetentionReconciles
    TokenFoundOnce
    ResponseAccounted
    ProvenanceIsTrue
