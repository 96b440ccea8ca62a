CONSTANTS
    None = None
    Controllers = {"workload-observability", "workload-security", "workload-storage"}
    Objects <- TrioObjects
    UserSpecs <- TrioUserSpecs
    Specs <- TrioSpecs
    For <- KFor
    Owns <- KOwns
    Skip <- KSkip
    Wanted <- KWanted
    Child <- KChild
    Render <- KRender
    MutateFails <- KMutateFails
    Admit <- KAdmit
    Refused <- KRefused
    Immutable <- KImmutable
    MaxDisturbances = 1
    MaxVersion = 1
SPECIFICATION Spec
INVARIANTS NoLostWakeup
PROPERTIES NothingAbandoned
CHECK_DEADLOCK FALSE
