\* The newest tokens of an account that was logged in again while in use.
SPECIFICATION Spec
CONSTANTS
    d1 = d1 d2 = d2 t1 = t1 t2 = t2 n1 = n1 n2 = n2 p1 = p1 p2 = p2 None = None
    Devices = {d1}
    Tasks = {t1}
    Names = {n1, n2}
    People = {p1, p2}
    Ops = {"relogin", "use", "codex"}
    MaxClock = 4
    MaxVersion = 3
SYMMETRY Symmetry
PROPERTIES SwitchKeepsNewest
CHECK_DEADLOCK FALSE
