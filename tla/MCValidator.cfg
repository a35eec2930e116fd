SPECIFICATION Spec
CONSTANTS
    t1 = t1
    t2 = t2
    t3 = t3
    t4 = t4
    o = o
    p = p
    s = s
    Tx = {t1, t2, t3, t4}
    Owned <- MCOwned
    Shared <- MCShared
    Mutable <- MCShared
    Created <- MCCreated
    Genesis <- MCGenesis
    CacheSize = 1
    Logs <- MCLogs
    InitialVersion <- MCInitialVersion
    MaxRequests = 2
    MaxCrashes = 1
INVARIANTS
    ReleasedHaveInputs
    IndexesAgree
    NoLostWakeup
    AssignedFollowsLog
    ReleasedOnce
    NothingDropped
    IdleIsDone
PROPERTY
    SequencedIsExecuted
CHECK_DEADLOCK FALSE
