SPECIFICATION FairSpec
CONSTANTS
    Ops = {o1}
    Order <- MCOrder
    Values = {"v1", "v2"}
    Sources <- MCSources
    Dests <- MCDests
    NoMarker = NoMarker
    NoCall = NoCall
    Limit <- LimitAll
INVARIANT PartialIsRecorded
PROPERTIES AckIsComplete RefusedIsKept RerunsFinish
CHECK_DEADLOCK FALSE
