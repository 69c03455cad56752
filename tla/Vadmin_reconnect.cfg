SPECIFICATION FairSpec
CONSTANTS
    Fds = {1, 2, 3, 4, 5, 6, 7, 8}
    HasS = FALSE
    HasT = FALSE
    Unprivileged = FALSE
    SecretRight = {TRUE}
    Hangs = FALSE
    MaxRestarts = 2
    MaxRefused = 6
    MaxFails = 4
INVARIANTS
    RecoversInThree
PROPERTIES
    Reconnects
CHECK_DEADLOCK FALSE
