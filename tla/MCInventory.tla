---------------------------- MODULE MCInventory ----------------------------
(* Small instances of Inventory. *)
EXTENDS InventoryLedger, TLC

CONSTANTS t1, t2, t3, b1, b2, unknown, paise, rupees, debt

MCBooks    == {b1, b2}
MCTitles   == {b1, b2, unknown}
MCCosts    == {rupees, paise, debt}
MCOnFile   == {[id |-> 0, book |-> b1, qty |-> 2, cost |-> rupees]}
MCIds      == 0 .. 9
MCInStock  == (b1 :> [qty |-> 2, cost |-> rupees]) @@ (b2 :> NoRow)

Line(b, q, c) == [book |-> b, qty |-> q, cost |-> c]
Inward(ls)    == [op |-> "inward", items |-> ls]
Sell(ls)      == [op |-> "sale", items |-> ls]
Update(b, q, c) == [op |-> "update", id |-> 0, book |-> b, qty |-> q, cost |-> c]
Delete        == [op |-> "delete", id |-> 0]

\* Batches that lock the two books in opposite orders, sales that compete for
\* the same copies, and edits of the one purchase on file.
MixedCalls ==
    {Inward(<<Line(b1, 1, rupees), Line(b2, 2, rupees)>>),
     Inward(<<Line(b2, 1, rupees), Line(b1, 1, rupees)>>),
     Sell(<<Line(b1, 2, NoCost), Line(unknown, 0, NoCost)>>),
     Sell(<<Line(b2, 1, NoCost), Line(b1, 1, NoCost)>>),
     Update(Keep, 1, Keep),
     Update(Keep, 0, Keep),
     Update(b2, 3, rupees),
     Update(Keep, Keep, rupees),
     Delete}
\* Every way a request can end: refused, with lines dropped, with a price that
\* is no bigint, naming an unknown book or purchase, with no price at all.
OddCalls ==
    MixedCalls \cup
    {[op |-> "purchase", items |-> <<Line(b2, 1, rupees)>>],
     [op |-> "batch", items |-> <<Line(b2, 0, rupees), Line(b2, 2, rupees)>>],
     [op |-> "batch", items |-> <<Line(b1, 1, NoCost)>>],
     Inward(<<Line(b2, 1, rupees), Line(b1, 1, paise)>>),
     Inward(<<Line(b2, 1, NoCost)>>),
     Inward(<<Line(b2, 1, debt)>>),
     Inward(<<Line(b1, 1, rupees), Line(unknown, 1, rupees)>>),
     Sell(<<Line(unknown, 1, NoCost)>>),
     Sell(<<Line(b1, 1, NoCost), Line(b1, 2, NoCost)>>),
     Update(b2, Keep, paise),
     Update(unknown, Keep, Keep),
     Update(Keep, 4, NoCost),
     [op |-> "update", id |-> 7, book |-> Keep, qty |-> 1, cost |-> Keep],
     [op |-> "delete", id |-> 7]}
=============================================================================
