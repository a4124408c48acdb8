SPECIFICATION Spec
CONSTANTS
    Kinds = {"Deployment"}
    MaxReplicas = 1
    MaxSurge = 1
    MaxGeneration = 2
INVARIANT HealthyIsRolledOut
CHECK_DEADLOCK FALSE
