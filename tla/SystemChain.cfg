CONSTANTS
    None = None
    Controllers = {"workload-compute", "compute-hpa"}
    Objects <- MCObjects
    UserSpecs <- MCUserSpecs
    Specs <- MCSpecs
    For <- KFor
    Owns <- KOwns
    Skip <- KSkip
    Wanted <- KWanted
    Child <- KChild
    Render <- KRender
    MutateFails <- KMutateFails
    Admit <- KAdmit
    Refused <- KRefused
    Immutable <- KImmutable
    MaxDisturbances = 2
    MaxVersion = 1
SPECIFICATION Spec
INVARIANTS NoLostWakeup ChainAtRest
PROPERTIES EndToEnd NothingAbandoned
CHECK_DEADLOCK FALSE
