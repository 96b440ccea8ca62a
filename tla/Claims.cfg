CONSTANTS
    None = None
    Objects <- MCObjects
    UserSpecs <- MCUserSpecs
    Specs <- MCSpecs
    Immutable <- ClaimImmutable
    ParseQuantity <- MCParseQuantity
    DefaultClass = ""
    MaxDisturbances = 2
    MaxVersion = 3
SPECIFICATION Spec
INVARIANTS TypeOK NoClaimForgotten
PROPERTIES ClaimsProvided ClaimsKept
CHECK_DEADLOCK FALSE
