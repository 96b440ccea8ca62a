CONSTANTS
    None = None
    Objects <- PlainObjects
    UserSpecs <- PlainUserSpecs
    Specs <- PlainSpecs
    Immutable <- ClaimImmutable
    ParseQuantity <- MCParseQuantity
    DefaultClass = "standard"
    MaxDisturbances = 1
    MaxVersion = 3
SPECIFICATION Spec
PROPERTIES ClassOptional
CHECK_DEADLOCK FALSE
