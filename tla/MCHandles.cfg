CONSTANTS
    p1 = p1 p2 = p2 p3 = p3
    Procs <- MCProcs
    Roots = {r1, r2}
    Opened = {r1}
    Files = {f1, f2}
    Cursors = {c1, c2}
    Held = {f1, c1}
    OpIds = {op1, op2}
    RootOps = {"stat", "open", "rename", "openFile", "readDir", "quick"}
    NoProc = NoProc
    MaxCalls = 3
    MaxFaults = 1
SPECIFICATION FairSpec
INVARIANTS KeysLiveInSections ListedCursorsLive CancelledWereAsked
PROPERTY CallsReturn
CHECK_DEADLOCK FALSE
