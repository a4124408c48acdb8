SPECIFICATION Spec
CONSTANTS
    Steps <- SCCSteps
    Specs <- OneSpec
    Tampering = {"content"}
    MaxLag = 1
    MaxUid = 1
    MaxChanges = 2
    MaxFaults = 0
PROPERTY UpdatesNotReconciled
CHECK_DEADLOCK FALSE
