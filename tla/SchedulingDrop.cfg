CONSTANTS
    None = None
    Controllers = {"compute-deployment"}
    Objects <- TargetObjects
    UserSpecs <- DropUserSpecs
    Specs <- DropSpecs
    Immutable <- MCImmutable
    SchedulingFields <- MCSchedulingFields
    MaxDisturbances = 1
    MaxVersion = 3
SPECIFICATION Spec
INVARIANTS SchedulingFollowsSpec
CHECK_DEADLOCK FALSE
