CONSTANTS
    h1 = h1 h2 = h2 h3 = h3
    devotee = devotee seva = seva admin = admin
    Handlers = {h1, h2, h3}
    People <- MCPeople
    Requests <- FormRequests
    OnFile <- MCOnFile
    Balances <- MCBalances
    Overlap = "requester"
    MayFail = TRUE
    None = None
SPECIFICATION Spec
INVARIANTS NeverOverdrawn PaidPerAttempt
PROPERTIES StampTrue
