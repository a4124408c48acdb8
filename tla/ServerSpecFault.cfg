SPECIFICATION Spec
CONSTANTS
    Steps <- StatefulSetSteps
    Specs <- TwoSpecs
    Tampering = {}
    MaxLag = 2
    MaxUid = 2
    MaxChanges = 1
    MaxFaults = 1
PROPERTY ControllerKeepsSpec
CHECK_DEADLOCK FALSE
