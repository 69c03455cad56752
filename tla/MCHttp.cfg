SPECIFICATION Spec
SYMMETRY Symmetry
CONSTANTS
    Conns = {c1, c2}
    Requests <- MCRequests
    CLI = {106, 200, 300, 400}
    VclLists <- MCVclLists
    BackendLists <- MCBackendLists
    ParamLists <- MCParamLists
    Logs <- MCLogs
    Decoded <- MCDecoded
    MaxLag = 1
    DescSize = 3
    LineSize = 5
    Quotes <- MCQuotes
    Parens <- MCParens
    Brackets <- MCBrackets
    Junk <- MCJunk
    Garbled = Garbled
INVARIANTS TypeOK ServedAsSent GetsModifyByLineFeedOnly  ListingsTrue
 
