SPECIFICATION TSpec
CONSTANTS
    Handles <- MCHandles
    User <- MCUser
    Provider <- MCProvider
    Index <- MCIndex
    Slow = {}
    Sizes = {0, 2}
    ReqCap = 2
    RepCap = 1
    MaxCalls = 4
INVARIANTS
    TypeOK
    ServedInTurn
PROPERTIES
    EveryCallReturns
CHECK_DEADLOCK FALSE
