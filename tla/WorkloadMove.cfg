CONSTANTS
    None = None
    Controllers = {"workload-compute"}
    Objects <- MoveObjects
    UserSpecs <- MoveUserSpecs
    Specs <- MoveSpecs
    For <- KFor
    Owns <- KOwns
    Skip <- KSkip
    Wanted <- KWanted
    Child <- KChild
    Render <- KRender
    MutateFails <- KMutateFails
    Admit <- KAdmit
    Refused <- KRefused
    Immutable <- KImmutable
    MaxDisturbances = 1
    MaxVersion = 3
SPECIFICATION Spec
INVARIANTS CapabilitiesFollowTarget
CHECK_DEADLOCK FALSE
