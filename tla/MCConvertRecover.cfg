SPECIFICATION FairSpec
CONSTANTS
    Ops = {o1, o2}
    Files = {a}
    Skipped = {}
    Values = {v1, v2}
    Gone = Gone
    NoOp = NoOp
    NoTree = NoTree
    Limit <- LimitFaults
    RecoverFirst = TRUE
INVARIANTS WorkIsTracked AttentionOnlyForMismatch RecoveryCleansUp
PROPERTY UnfinishedIsResolved
