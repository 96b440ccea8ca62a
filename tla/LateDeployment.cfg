CONSTANTS
    None = None
    Controllers = {"compute-pdb"}
    Objects <- BudgetObjects
    UserSpecs <- LateUserSpecs
    Specs <- LateSpecs
    Immutable <- MCImmutable
    SchedulingFields <- MCSchedulingFields
    MaxDisturbances = 1
    MaxVersion = 3
SPECIFICATION Spec
PROPERTIES BudgetSelectsTarget
CHECK_DEADLOCK FALSE
