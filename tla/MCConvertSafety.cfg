SPECIFICATION Spec
CONSTANTS
    Ops = {o1, o2}
    Files = {a, b}
    Skipped = {b}
    Values = {v1, v2}
    Gone = Gone
    NoOp = NoOp
    NoTree = NoTree
    Limit <- LimitAll
    RecoverFirst = FALSE
SYMMETRY MCSymmetry
INVARIANTS SealInv LastWriteSurvives RootRecoverable
PROPERTIES InstallsOnlyVerified
