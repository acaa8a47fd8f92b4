SPECIFICATION Spec
CONSTANTS
  r1 = r1
  r2 = r2
  r3 = r3
  r4 = r4
  anna = anna
  ben = ben
  fair = fair
  Off = Off
  hall = hall
  tent = tent
  gone = gone
  blank = blank
  anybody = anybody
  garbled = garbled
  nocall = nocall
  norow = norow
  noreport = noreport
  Requests <- MCRequests
  Books <- MCBooks
  Opening <- MCOpening
  RowId <- MCRowId
  Bought <- MCBought
  Sold <- MCSold
  Traffic <- MCTraffic
  NoRow = norow
  NoCall = nocall
  NoReport = noreport
  Events = {fair, Off}
  Places = {1, 2}
  OnMap <- MCOnMap
  Anybody = anybody
  Blank = blank
  Garbled = garbled
  FirstId = 4
  FeedLimit = 2
  LeaderboardLimit = 2
  TopBooksLimit = 3
  Gone = gone
INVARIANTS NeverNegative LedgerMatches SectionsAgree OverviewAddsUp SellersKnown
PROPERTY InventoryAddsUp
CHECK_DEADLOCK FALSE
