SPECIFICATION Spec
CONSTANTS
    Conns = {c1}
    Requests <- SomeRequests
    CLI = {200, 400}
    VclLists <- MCVclLists
    BackendLists <- MCBackendLists
    ParamLists <- MCParamLists
    Logs <- MCLogs
    Decoded <- MCDecoded
    MaxLag = 2
    DescSize = 3
    LineSize = 5
    Quotes <- MCQuotes
    Parens <- MCParens
    Brackets <- MCBrackets
    Junk <- MCJunk
    Garbled = Garbled
INVARIANT GetsNeverModify
