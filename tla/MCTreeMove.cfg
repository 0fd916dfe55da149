SPECIFICATION WalkerSpec
CONSTANTS
    Threads = {"t1"}
    Names <- MCNames
    Paths <- MCPathsNested
    Hidden = {".h"}
    Old = {"v1", "v2"}
    Start <- MCStartNested
    Copying <- MCCopying
    Replaced <- MCReplaced
    Requests <- MCRequestsNested
    Walks <- NoWalks
    Batch = 2
    DefaultPending = 3
    MaximumPending = 4
    MaxCalls = 1
    MaxFaults = 0
    MaxCrashes = 0
INVARIANT MovesAreComplete
CHECK_DEADLOCK FALSE
