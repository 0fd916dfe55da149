CONSTANTS
    Data <- MCData
    MaxLen = 4
    Chunk = 2
    CtrBlock = 2
    ChaChaBlock = 3
    XtsBlock = 2
    Counters = 16
    MaxOps = 4
    MaxFaults = 1
SPECIFICATION Spec
INVARIANTS StoredUnderOwnKey
PROPERTY ActsAsPlainFile
CHECK_DEADLOCK FALSE
