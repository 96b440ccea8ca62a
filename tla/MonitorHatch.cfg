CONSTANTS
    None = None
    Foreign = Foreign
    Specs <- HatchedSpecs
    UserMonitorSpecs <- MCUserMonitorSpecs
    MaxDisturbances = 0
SPECIFICATION Spec
INVARIANTS HatchesReachMonitors
CHECK_DEADLOCK FALSE
