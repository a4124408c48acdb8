SPECIFICATION Spec
CONSTANTS
    Steps <- CSIWorkload
    Specs <- OneSpec
    MaxLag = 1
    MaxUid = 1
    MaxChanges = 1
    MaxFaults = 0
INVARIANTS EndToEnd
PROPERTIES OperatorRests
CHECK_DEADLOCK FALSE
