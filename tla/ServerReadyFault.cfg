SPECIFICATION Spec
CONSTANTS
    Steps <- SilentSteps
    Specs <- TwoSpecs
    Tampering = {}
    MaxLag = 1
    MaxUid = 2
    MaxChanges = 1
    MaxFaults = 1
PROPERTY ReadyAfterAllSteps
CHECK_DEADLOCK FALSE
