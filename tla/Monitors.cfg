CONSTANTS
    None = None
    Foreign = Foreign
    Specs <- MCSpecs
    UserMonitorSpecs <- MCUserMonitorSpecs
    MaxDisturbances = 3
SPECIFICATION Spec
INVARIANTS TypeOK NoMonitorForgotten
PROPERTIES MonitorsConverge
CHECK_DEADLOCK FALSE
