SPECIFICATION Spec
CONSTANTS
    Roots = {r1}
    Windows = {w1, w2}
    Docs = {d1}
    Texts = {t1, t2, t3}
    None = None
    Limit <- LimitSaves
INVARIANTS DrainedBeforeClose
PROPERTIES NoSilentOverwrite
SYMMETRY Symmetry
CHECK_DEADLOCK FALSE
