SPECIFICATION Spec
CONSTANTS
    Kinds = {"StatefulSet", "DaemonSet"}
    MaxReplicas = 3
    MaxSurge = 0
    MaxGeneration = 3
INVARIANT HealthyIsRolledOut
CHECK_DEADLOCK FALSE
