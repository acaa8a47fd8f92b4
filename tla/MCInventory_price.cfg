CONSTANTS
    t1 = t1 t2 = t2 t3 = t3
    b1 = b1 b2 = b2 unknown = unknown
    rupees = rupees paise = paise debt = debt
    Tx = {t1}
    Books <- MCBooks
    Titles <- MCTitles
    Costs <- MCCosts
    Negative = {debt}
    Fractional = {paise}
    Calls <- OddCalls
    OnFile <- MCOnFile
    InStock <- MCInStock
    FirstId = 1
    Ids <- MCIds
    NoTx = NoTx NoRow = NoRow NoCost = NoCost NoPurchase = NoPurchase
    NoCall = NoCall Keep = Keep
SPECIFICATION Spec
INVARIANTS AnyPrice
