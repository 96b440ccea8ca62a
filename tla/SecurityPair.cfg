CONSTANTS
    None = None
    Controllers = {"security-role", "security-rolebinding"}
    Objects <- MCObjects
    UserSpecs <- MCUserSpecs
    Specs <- MCSpecs
    For <- KFor
    Owns <- KOwns
    Skip <- KSkip
    Wanted <- KWanted
    Child <- KChild
    Render <- KRender
    MutateFails <- KMutateFails
    Admit <- KAdmit
    Refused <- KRefused
    Immutable <- KImmutable
    MaxDisturbances = 2
    MaxVersion = 3
SPECIFICATION Spec
INVARIANTS NoLostWakeup BindingsAtRest
PROPERTIES BindingsResolve
CHECK_DEADLOCK FALSE
