SPECIFICATION FairSpec
CONSTANTS
    Roots = {r1, r2}
    Windows = {w1}
    Docs = {d1}
    Texts = {t1, t2}
    None = None
    Limit <- LimitLocks
INVARIANTS FrozenWhileClosing AckedTextKept
PROPERTIES OnlyOwnSessionHidden Thaws
CHECK_DEADLOCK FALSE
