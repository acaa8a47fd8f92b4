------------------------------ MODULE MCReports ------------------------------
(* A dashboard or a page, a ledger that moves, and rows corrected and locations *)
(* renamed by hand.                                                             *)
EXTENDS Reports, TLC

CONSTANTS r1, r2, r3, r4, anna, ben, fair, blank, anybody, garbled, gone, nocall, norow, noreport,
          hall, tent, Off

MCRequests == {r1, r2, r3, r4}
MCBooks == {1, 2}
MCOnMap == 1 :> hall @@ 2 :> tent
MCOpening == 1 :> 1 @@ 2 :> 3
MCRowId == 1 :> 1 @@ 2 :> 2

Bought_(id, b, q, d) == [id |-> id, book |-> b, qty |-> q, cost |-> 1, day |-> d, by |-> anna]
Sale(id, b, q, who, p, d, e) ==
    [id |-> id, book |-> b, qty |-> q, price |-> 2, cost |-> 1, seller |-> who,
     event |-> e, place |-> p, day |-> d]
MCBought == {Bought_(1, 1, 2, 1)}
MCSold == {Sale(2, 1, 1, anna, 1, 1, fair), Sale(3, 2, 2, anna, 2, 2, Off)}

F(from, to, seller, event) == [from |-> from, to |-> to, seller |-> seller, event |-> event]
Where(place, f) ==
    [from |-> f.from, to |-> f.to, seller |-> f.seller, event |-> f.event, place |-> place]
Inward(from, to, by, book) == [from |-> from, to |-> to, by |-> by, book |-> book]
None == F(blank, blank, blank, blank)
Params(page, dist, books, inv) ==
    [s \in {"page", "dist", "books", "inv"} |->
       CASE s = "page" -> page [] s = "dist" -> dist [] s = "books" -> books [] OTHER -> inv]
Plain == Params(None, None, None, None)

Report(op, who, admin, params) == [op |-> op, viewer |-> who, admin |-> admin, params |-> params]
Page(op, filter) == [op |-> op, viewer |-> anna, filter |-> filter]
All == F(blank, blank, anybody, anybody)
View(place, filter) == [op |-> "overview", place |-> place, filter |-> filter]

MCTraffic ==
    r1 :> {Report("dashboard", anna, TRUE, Plain),
           Report("dashboard", anna, TRUE, Params(F(blank, 1, anna, fair), None, None, None)),
           Report("dashboard", ben, FALSE, Params(F(blank, blank, anna, blank), None,
                                                  F(1, blank, anna, blank), F(garbled, blank, blank, blank))),
           Report("leaderboard", anna, TRUE, Params(F(2, blank, blank, blank), None, None, None)),
           Report("top books", ben, FALSE, Params(None, None, F(1, 2, anna, blank), None)),
           Report("inventory", anna, TRUE, Plain),
           Page("sell page", Where(anybody, All)), Page("sell page", Where(anybody, F(blank, blank, anna, hall))),
           Page("sell export", All), Page("inward page", Inward(1, 1, anna, anybody)),
           Page("inward page", Inward(garbled, blank, anybody, anybody)),
           Page("inward page", Inward(blank, blank, anybody, garbled)),
           Page("inward export", Inward(blank, blank, anybody, 2)),
           Page("sell page", Where(2, All)), Page("sell page", Where(hall, All)),
           View(anybody, All), View(hall, F(1, 2, anybody, anybody)),
           View(anybody, F(blank, 2, anybody, Off)), View(gone, All),
           View(anybody, F(blank, garbled, anybody, anybody)),
           View(anybody, F(1, blank, anybody, hall))}
    @@ r2 :> {[op |-> "receive", row |-> Bought_(0, 1, 1, 2)],
              [op |-> "sell", row |-> Sale(0, 1, 2, ben, 1, 2, fair)],
              [op |-> "erase", id |-> 1],
              [op |-> "edit", id |-> 1, fields |-> [qty |-> 1, cost |-> 2]],
              [op |-> "edit", id |-> 1, fields |-> [book |-> 2, day |-> 2]],
              [op |-> "create", book |-> 2, qty |-> 1],
              [op |-> "create", book |-> 2, qty |-> -1],
              [op |-> "delete", id |-> 2],
              [op |-> "relocate", place |-> 1, name |-> tent]}
    @@ r3 :> {[op |-> "adjust", book |-> 1, delta |-> -2], [op |-> "adjust", book |-> 2, delta |-> 1],
              [op |-> "cost", book |-> 1, cost |-> 2], [op |-> "cost", book |-> 2, cost |-> -1],
              [op |-> "batch", items |-> <<[book |-> 1, qty |-> 1], [book |-> 2, qty |-> -1],
                                           [book |-> 1, qty |-> 1]>>],
              [op |-> "batch", items |-> <<[book |-> 1, qty |-> 0]>>],
              [op |-> "create", book |-> 2, qty |-> 2],
              [op |-> "relocate", place |-> 2, name |-> gone]}
    @@ r4 :> {[op |-> "sell", row |-> Sale(0, 2, 1, ben, 2, 1, Off)],
              [op |-> "receive", row |-> Bought_(0, 2, 1, 1)],
              [op |-> "edit", id |-> 1, fields |-> [qty |-> 3]],
              [op |-> "edit", id |-> 1, fields |-> [cost |-> 2]],
              [op |-> "adjust", book |-> 1, delta |-> 1]}
=============================================================================
