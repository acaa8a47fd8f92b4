CONSTANTS
    h1 = h1 h2 = h2 h3 = h3
    devotee = devotee seva = seva admin = admin
    Handlers = {h1, h2, h3}
    People <- MCPeople
    Requests <- FormRequests
    OnFile <- MCOnFile
    Balances <- MCBalances
    Overlap = "request"
    MayFail = FALSE
    None = None
SPECIFICATION Spec
INVARIANTS TypeOK MovesMatch SplitSums
PROPERTIES DecidedIsFinal DecidedAtOnce
