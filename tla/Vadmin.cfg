SPECIFICATION Spec
CONSTANTS
    Fds = {1, 2, 3, 4}
    HasS = FALSE
    HasT = FALSE
    Unprivileged = FALSE
    SecretRight = {TRUE, FALSE}
    Hangs = TRUE
    MaxRestarts = 2
    MaxRefused = 2
    MaxFails = 1
INVARIANTS
    TypeOK
    ConnectedMeansOwned
    NoAbort
    LeaksAreRefusals
PROPERTIES
    MisuseOnlyInAuth
CHECK_DEADLOCK FALSE
