CONSTANTS
    r1 = r1 r2 = r2 r3 = r3
    gita = gita gitaSpaced = gitaSpaced spaces = spaces temple = temple
    Requests = {r1, r2, r3}
    Tables <- MCTables
    Raw <- MCRaw
    Names <- MCNames
    Strip <- MCStrip
    Blank = Blank
    Thresholds = {5}
    Ids <- MCIds
    OnFile <- MCOnFile
    Traffic <- MCTraffic
    TTL = 1
    RoundTrip = 1
    End = 3
    NoRow = NoRow Broken = Broken NoEntry = NoEntry NoCall = NoCall
SPECIFICATION Spec
INVARIANTS FreshEnough UniqueUnlessRaced
