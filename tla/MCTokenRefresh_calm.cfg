\* Concurrent refreshes; the selection changes only between them.
SPECIFICATION Spec
CONSTANTS
    t1 = t1 t2 = t2 i1 = i1 i2 = i2 n1 = n1 n2 = n2 Live = Live Nobody = Nobody
    Tasks = {t1, t2}
    Identities = {i1, i2}
    Names = {n1, n2}
    Requests = {n1, n2, Live}
    MaxVer = 3
    Faults = {}
SYMMETRY Symmetry
INVARIANTS TokensKept SavedOnce OneRefresh SavesIntoOwnEntry
