SPECIFICATION FairSpec
CONSTANTS
    Urls = {"self", "dead"}
    VacUrls = {"null", "good"}
    W = 2
    MaxPosts = 1
INVARIANTS TypeOK UrlHeld PushesAnswered MhdReturns AbortsByVacOnly
PROPERTY RequestsReturn
CHECK_DEADLOCK FALSE
