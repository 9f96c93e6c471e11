\* Two accounts, two loops and a command; the events are bounded.
SPECIFICATION Spec
CONSTANTS
    a1 = a1 a2 = a2 f1 = f1 f2 = f2 c1 = c1 None = None
    Accounts = {a1, a2}
    Flushers = {f1, f2}
    Commands = {c1}
    Callers = {f1, f2, c1}
    Order <- TwoAccounts
    Concurrency = 1
    MaxClock = 1
    MaxGen = 9
    MaxEvents = 2
    MaxSwitches = 1
INVARIANTS TypeOK LoadingIsPending OneRefreshRuns RotationReachesAll
PROPERTIES LateAnswerDropped ReloginMarkStays AutoSwitchLeavesExhausted OwedIsServed
CHECK_DEADLOCK FALSE
