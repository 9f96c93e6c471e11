\* Two windows on one host, one of which may be killed; holds may last five
\* minutes and the removal of the lock directory may fail.
SPECIFICATION FairSpec
CONSTANTS
    p1 = p1 p2 = p2 local = local NoProc = NoProc
    Procs = {p1, p2}
    HostOf <- OneHost
    MaxRetries = 2
    MaxDepth = 2
    Mortal = {p2}
    LongHolds = TRUE
    RemoveFaults = TRUE
INVARIANTS ExclusiveUnlessSeized
PROPERTIES AbandonedLockIsRecovered AcquireSettles
