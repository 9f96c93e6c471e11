\* Everything that may go wrong at once: switches, renames and removals in the
\* middle of refreshes, expiring locks, crashes, lost answers, failing writes.
SPECIFICATION Spec
CONSTANTS
    t1 = t1 t2 = t2 i1 = i1 i2 = i2 n1 = n1 n2 = n2 Live = Live Nobody = Nobody
    Tasks = {t1, t2}
    Identities = {i1, i2}
    Names = {n1, n2}
    Requests = {n1, Live}
    MaxVer = 2
    Faults = {"switch", "rename", "expire", "crash", "lost", "disk", "busy"}
SYMMETRY Symmetry
PROPERTIES SelectionSurvivesRefresh
