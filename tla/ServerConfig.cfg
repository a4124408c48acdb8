SPECIFICATION FairSpec
CONSTANTS
    Steps <- ConfigSteps
    Specs <- RouteOnAndOff
    Tampering = {"content", "component"}
    MaxLag = 1
    MaxUid = 2
    MaxChanges = 1
    MaxFaults = 1
INVARIANTS QuietIsRight ReadyHasNoFailure
PROPERTIES Repaired
CHECK_DEADLOCK FALSE
