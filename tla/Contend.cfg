CONSTANTS
    None = None
    Controllers = {"networking-service"}
    Objects <- ContendObjects
    UserSpecs <- ContendUserSpecs
    Specs <- StoredSpecs
    For <- KFor
    Owns <- KOwns
    Skip <- KSkip
    Wanted <- KWanted
    Child <- KChild
    Render <- KRender
    MutateFails <- KMutateFails
    Admit <- KAdmit
    Refused <- KRefused
    Immutable <- KImmutable
    MaxDisturbances = 2
    MaxVersion = 3
SPECIFICATION RSpec
INVARIANTS IInv
PROPERTIES ControllerKept KeepsPromise Convergence
CHECK_DEADLOCK FALSE
