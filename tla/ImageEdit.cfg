CONSTANTS
    None = None
    Controllers = {"storage-deployment"}
    Objects <- EditObjects
    UserSpecs <- EditUserSpecs
    Specs <- EditSpecs
    Immutable <- MCImmutable
    SchedulingFields <- MCSchedulingFields
    MaxDisturbances = 1
    MaxVersion = 3
SPECIFICATION Spec
PROPERTIES ImageKept
CHECK_DEADLOCK FALSE
