CONSTANTS
    None = None
    Controllers = {"compute-pdb"}
    Objects <- BudgetObjects
    UserSpecs <- ZeroUserSpecs
    Specs <- ZeroSpecs
    Immutable <- MCImmutable
    SchedulingFields <- MCSchedulingFields
    MaxDisturbances = 1
    MaxVersion = 3
SPECIFICATION Spec
PROPERTIES ZeroIsABound
CHECK_DEADLOCK FALSE
