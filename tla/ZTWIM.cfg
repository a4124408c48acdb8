SPECIFICATION FairSpec
CONSTANTS
    N = 2
    ReadyValues = {"False", "True"}
    MaxLag = 2
    MaxUid = 1
    MaxChanges = 1
    MaxFaults = 1
INVARIANTS TypeOK NoLostWakeup ReadyMatchesOperands
PROPERTIES RepairedByResync Stabilises
CHECK_DEADLOCK FALSE
