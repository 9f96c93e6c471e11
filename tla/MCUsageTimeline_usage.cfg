\* Two windows that record selections while entries are renamed and removed.
SPECIFICATION Spec
CONSTANTS
    None = None
    Windows = {w1, w2}
    People = {p1, p2}
    Names = {a, b, c}
    RetiredIds = {r1, r2}
    Persists = {1, 2}
    Gap = 4
    MaxTime = 9
    Ops = {"rename", "remove", "restart"}
    Reuse = FALSE
SYMMETRY Symmetry
INVARIANTS NothingLost Attributed
PROPERTY RetiredStays
CHECK_DEADLOCK FALSE
