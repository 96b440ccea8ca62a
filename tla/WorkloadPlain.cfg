CONSTANTS
    None = None
    Controllers = {"workload-compute"}
    Objects <- PlainObjects
    UserSpecs <- PlainUserSpecs
    Specs <- PlainSpecs
    For <- KFor
    Owns <- KOwns
    Skip <- KSkip
    Wanted <- KWanted
    Child <- KChild
    Render <- KRender
    MutateFails <- KMutateFails
    Admit <- KAdmit
    Refused <- KRefused
    Immutable <- KImmutable
    MaxDisturbances = 0
    MaxVersion = 3
SPECIFICATION Spec
PROPERTIES AutoscalingOptional
CHECK_DEADLOCK FALSE
