CONSTANTS
    None = None
    Controllers = {"compute-pdb"}
    Objects <- BudgetObjects
    UserSpecs <- BudgetUserSpecs
    Specs <- BudgetSpecs
    Immutable <- MCImmutable
    SchedulingFields <- MCSchedulingFields
    MaxDisturbances = 2
    MaxVersion = 3
SPECIFICATION Spec
INVARIANTS NoBudgetForgotten
PROPERTIES BudgetFollows
CHECK_DEADLOCK FALSE
