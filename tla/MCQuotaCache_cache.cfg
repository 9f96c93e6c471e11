\* Three windows, one of which may be killed.
SPECIFICATION Spec
CONSTANTS
    t1 = t1 t2 = t2 t3 = t3 a1 = a1 a2 = a2 None = None
    Tasks = {t1, t2, t3}
    Accounts = {a1, a2}
    MaxDeaths = 1
    MaxTries = 1
SYMMETRY Symmetry
INVARIANTS TypeOK WritersExclude OneFetch
PROPERTIES NoUpdateLost
CHECK_DEADLOCK FALSE
