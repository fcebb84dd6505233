\* Room for two entries of the IPv4 key, each with two copies, or for the IPv6 key.
SPECIFICATION Spec
CONSTANTS
    Packets <- Mixed
    Keys <- TwoKeys
    KeySize <- Sizes
    Word = 16
    Unit = 4
    MaxBytes = 4
    MaxEntries = 2
    MaxAge = 1
    ExpirePause = 1
    MaxCopies = 2
    Moments = {0, 2}
    MaxSkew = 1
    MaxPackets = 4
INVARIANTS
    CopyHasAnalysedOriginal
    CopyIsForwarded
    EveryPacketOnce
    CacheReconciles
