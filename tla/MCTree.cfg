SPECIFICATION WalkerSpec
CONSTANTS
    Threads = {"t1", "t2"}
    Names <- MCNames
    Paths <- MCPaths
    Hidden = {}
    Old = {"v1", "v2"}
    Start <- MCStart
    Copying <- MCCopying
    Replaced <- MCReplaced
    Requests <- MCRequests
    Walks <- MCWalks
    Batch = 2
    DefaultPending = 3
    MaximumPending = 4
    MaxCalls = 2
    MaxFaults = 1
    MaxCrashes = 1
INVARIANTS CopiesAreExact WalksAreComplete
PROPERTIES NothingUnasked NothingLost
CHECK_DEADLOCK FALSE
