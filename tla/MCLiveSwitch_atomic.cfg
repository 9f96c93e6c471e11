\* Orderly switches with failing writes and rollbacks that succeed.
SPECIFICATION Spec
CONSTANTS
    a1 = a1 a2 = a2 q1 = q1 q2 = q2 UserUrl = UserUrl Nobody = Nobody
    Accounts = {a1, a2}
    Providers = {q1, q2}
    MaxVer = 2
    Faults = {}
INVARIANTS SelectionCoherent SavedAreOwn ProviderKeysKept
PROPERTIES Atomic AccountSwitchRestoresUrl
