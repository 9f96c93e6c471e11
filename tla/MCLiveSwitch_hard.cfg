\* Crashes, failing rollbacks and writers that do not take the lock.
SPECIFICATION Spec
CONSTANTS
    a1 = a1 a2 = a2 q1 = q1 q2 = q2 UserUrl = UserUrl Nobody = Nobody
    Accounts = {a1, a2}
    Providers = {q1}
    MaxVer = 2
    Faults = {"crash", "restore", "delete", "migrate"}
SYMMETRY Symmetry
INVARIANTS AccountTokensKept
