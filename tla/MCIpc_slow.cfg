SPECIFICATION FairSpec
CONSTANTS
    Handles <- OneHandle
    User <- OneUser
    Provider <- OneProvider
    Index <- OneIndex
    Slow <- OneHandle
    Sizes = {0, 1, 4}
    ReqCap = 3
    RepCap = 2
    MaxCalls = 6
INVARIANTS
    StreamsInOrder
    AnswerLag
    ReplyNeverBlocks
PROPERTIES
    CallReturnsUnlessBacklogged
    ImplementsChannel
CHECK_DEADLOCK FALSE
