SPECIFICATION BetweenResyncs
CONSTANTS
    Steps <- DaemonSetSteps
    Specs <- GoodAndBadSpec
    Tampering = {"content", "managedBy"}
    MaxLag = 2
    MaxUid = 2
    MaxChanges = 2
    MaxFaults = 0
INVARIANTS TypeOK QuietIsRight
PROPERTIES CreateOnlyKeepsObjects ReadyAfterAllSteps ControllerKeepsSpec ImplementsOperandCR ComesToRest
CHECK_DEADLOCK FALSE
