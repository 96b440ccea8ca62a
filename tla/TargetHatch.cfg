CONSTANTS
    None = None
    Controllers = {"compute-deployment"}
    Objects <- TargetObjects
    UserSpecs <- HatchUserSpecs
    Specs <- HatchSpecs
    Immutable <- MCImmutable
    SchedulingFields <- MCSchedulingFields
    MaxDisturbances = 1
    MaxVersion = 3
SPECIFICATION Spec
INVARIANTS HatchReachesTarget
CHECK_DEADLOCK FALSE
