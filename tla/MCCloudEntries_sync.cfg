\* Two devices that share the synced entries, one command at a time.
SPECIFICATION Spec
CONSTANTS
    d1 = d1 d2 = d2 t1 = t1 t2 = t2 n1 = n1 n2 = n2 p1 = p1 p2 = p2 None = None
    Devices = {d1, d2}
    Tasks = {t1}
    Names = {n1, n2}
    People = {p1, p2}
    Ops = {"add", "relogin", "remove", "restore", "sync"}
    MaxClock = 3
    MaxVersion = 2
SYMMETRY Symmetry
INVARIANTS ListedUntilRemoved
PROPERTIES KeepsIdentity StaysRemoved
CHECK_DEADLOCK FALSE
