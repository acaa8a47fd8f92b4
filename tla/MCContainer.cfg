CONSTANTS
    t1 = t1 t2 = t2 t3 = t3
    db = db books = books sales = sales
    Threads = {t1, t2, t3}
    Contracts = {db, books, sales}
    Request = Request
    Needs <- MCNeeds
    Layer <- MCLayer
    Calls <- MCCalls
SPECIFICATION Spec
CHECK_DEADLOCK FALSE
INVARIANTS OneInstance RaisedOnlyIfDisturbed ClientKept
PROPERTIES Answered
