SPECIFICATION Spec
CONSTANTS
    Fds = {1, 2, 3, 4, 5, 6}
    HasS = TRUE
    HasT = FALSE
    Unprivileged = FALSE
    SecretRight = {TRUE}
    Hangs = FALSE
    MaxRestarts = 2
    MaxRefused = 6
    MaxFails = 4
INVARIANTS
    SurvivesDisconnect
CHECK_DEADLOCK FALSE
