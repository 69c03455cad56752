SPECIFICATION Spec
CONSTANTS
    Urls = {"good", "self"}
    VacUrls = {"good"}
    W = 2
    MaxPosts = 1
INVARIANT RegisterKeepsAgentUp
CHECK_DEADLOCK FALSE
