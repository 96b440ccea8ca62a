CONSTANTS
    None = None
    Controllers = {"networking-service", "networking-ingress"}
    Objects <- ExposeObjects
    UserSpecs <- ExposeUserSpecs
    Specs <- StoredSpecs
    For <- KFor
    Owns <- KOwns
    Skip <- KSkip
    Wanted <- KWanted
    Child <- KChild
    Render <- KRender
    MutateFails <- KMutateFails
    Admit <- KAdmit
    Refused <- KRefused
    Immutable <- KImmutable
    MaxDisturbances = 2
    MaxVersion = 3
SPECIFICATION HSpec
INVARIANTS NoLostWakeup BackendsAtRest
PROPERTIES BackendsResolve Convergence
CHECK_DEADLOCK FALSE
