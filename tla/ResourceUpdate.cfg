SPECIFICATION Spec
CONSTANTS
    Kinds <- ObjectKinds
    Processes <- FiveProcesses
    MaxLag = 1
    MaxChanges = 2
INVARIANTS TypeOK RestIsAsGenerated ProxyReachesPods
PROPERTIES KeepsForeignFields Settles
CHECK_DEADLOCK FALSE
