SPECIFICATION FairSpec
CONSTANTS
    Ops = {o1, o2}
    Payloads = {v1, v2}
    Gone = Gone
    Torn = Torn
    NoMarker = NoMarker
    Directions = {"import", "export"}
    Policies = {"cli", "app"}
    Limit <- LimitAll
INVARIANTS OldOrNew
PROPERTIES NothingClobbered ResidueIsMarked RerunsComplete
CHECK_DEADLOCK FALSE
