\* Caches of one entry, so that every second key evicts.
SPECIFICATION Spec
CONSTANTS
    f1 = f1
    f2 = f2
    k1 = k1
    k2 = k2
    Flows = {f1, f2}
    Keys = {k1, k2}
    KeysOf <- TwoKeysEach
    Shards = {0, 1}
    HashFlow <- HashTwoFlows
    HashKey <- HashTwoKeys
    MaxRoutes = 1
    FragmentIdle = 1
    FlowIdle = 2
    MaxTime = 6
INVARIANTS
    TablesBounded
    SplitIsExplained
