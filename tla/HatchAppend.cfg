CONSTANTS
    None = None
    Controllers = {"compute-deployment"}
    Objects <- TargetObjects
    UserSpecs <- AppendUserSpecs
    Specs <- AppendSpecs
    Immutable <- MCImmutable
    SchedulingFields <- MCSchedulingFields
    MaxDisturbances = 1
    MaxVersion = 3
SPECIFICATION Spec
INVARIANTS HatchAppliedOnce
CHECK_DEADLOCK FALSE
