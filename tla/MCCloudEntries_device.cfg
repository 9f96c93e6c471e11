\* One device, two commands at a time, names that change.
SPECIFICATION Spec
CONSTANTS
    d1 = d1 d2 = d2 t1 = t1 t2 = t2 n1 = n1 n2 = n2 p1 = p1 p2 = p2 None = None
    Devices = {d1}
    Tasks = {t1, t2}
    Names = {n1, n2}
    People = {p1, p2}
    Ops = {"relogin", "use", "refresh", "remove", "rename", "codex"}
    MaxClock = 4
    MaxVersion = 4
SYMMETRY Symmetry
INVARIANTS TypeOK SpentNotOffered
PROPERTIES KeepsIdentity FreshnessKept
CHECK_DEADLOCK FALSE
