CONSTANTS
    None = None
    Controllers = {"compute-deployment", "storage-deployment"}
    Objects <- PatchObjects
    UserSpecs <- PatchUserSpecs
    Specs <- PatchSpecs
    Immutable <- MCImmutable
    SchedulingFields <- MCSchedulingFields
    MaxDisturbances = 2
    MaxVersion = 3
SPECIFICATION Spec
INVARIANTS TypeOK NoPatchLost DeploymentAsAsked NoPatchStorm
PROPERTIES PatchersApart PatchesConverge
CHECK_DEADLOCK FALSE
