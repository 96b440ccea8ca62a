CONSTANTS
    None = None
    Controllers = {"networking-service"}
    Objects <- ContendObjects
    UserSpecs <- ContendUserSpecs
    Specs <- StoredSpecs
    For <- KFor
    Owns <- KOwns
    Skip <- KSkip
    Wanted <- KWanted
    Child <- KChild
    Render <- KRender
    MutateFails <- KMutateFails
    Admit <- KAdmit
    Refused <- KRefused
    Immutable <- KImmutable
    MaxDisturbances = 1
    MaxVersion = 3
SPECIFICATION Spec
PROPERTIES ForeignServiceKept
CHECK_DEADLOCK FALSE
