CONSTANTS
    None = None
    Controllers = {"workload-compute", "workload-networking"}
    Objects <- PairObjects
    UserSpecs <- PairUserSpecs
    Specs <- PairSpecs
    For <- KFor
    Owns <- KOwns
    Skip <- KSkip
    Wanted <- KWanted
    Child <- KChild
    Render <- KRender
    MutateFails <- KMutateFails
    Admit <- KAdmit
    Refused <- KRefused
    Immutable <- KImmutable
    MaxDisturbances = 2
    MaxVersion = 3
SPECIFICATION Spec
INVARIANTS TypeOK NoLostWakeup
PROPERTIES Convergence
CHECK_DEADLOCK FALSE
