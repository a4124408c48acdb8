SPECIFICATION Spec
CONSTANTS
    Steps <- OIDCWorkload
    Specs <- OneSpec
    MaxLag = 1
    MaxUid = 1
    MaxChanges = 1
    MaxFaults = 0
INVARIANT UpgradeableAsDocumented
CHECK_DEADLOCK FALSE
