CONSTANTS
    None = None
    Controllers = {"networking-service", "networking-ingress"}
    Objects <- ExposeObjects
    UserSpecs <- TlsOnlyUserSpecs
    Specs <- TlsOnlySpecs
    For <- KFor
    Owns <- KOwns
    Skip <- KSkip
    Wanted <- KWanted
    Child <- KChild
    Render <- KRender
    MutateFails <- KMutateFails
    Admit <- KAdmit
    Refused <- KRefused
    Immutable <- KImmutable
    MaxDisturbances = 1
    MaxVersion = 3
SPECIFICATION Spec
INVARIANTS DefaultBackendResolves
CHECK_DEADLOCK FALSE
