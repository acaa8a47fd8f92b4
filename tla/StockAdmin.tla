----------------------------- MODULE StockAdmin -----------------------------
(***************************************************************************)
(* The stock rows next to the purchases and the sales: the transactions    *)
(* that move them together, each one step here (StockLedger states what    *)
(* they promise, Inventory shows that they keep it), and StockDomain,      *)
(* which changes stock rows alone.  StockDomain reads a row in one round   *)
(* trip and writes what it computed from it in another; only its batches   *)
(* are one stored procedure.                                               *)
(***************************************************************************)
EXTENDS Integers, Sequences, FiniteSets, FiniteSetsExt, Sums

CONSTANTS
    Requests,
    Books,
    Opening,      \* the units of each book on hand before any record
    RowId,        \* the id of its stock row
    Bought, Sold, \* purchases and sales recorded before the model starts
    FirstId,      \* the next id then
    Traffic,      \* the calls each request may be
    NoRow, NoCall

VARIABLES
    stock,        \* the stock row of each book
    purchases, sales,
    nextId,       \* ids for all of them
    pc, call, reply,
    hand,         \* the stock row a request has read
    base,         \* units of a book no record accounts for
    overrun,      \* books whose row was written from a stale reading, or clipped
    noneOnMiss    \* does the client installed answer None when no row matches

tables == <<stock, purchases, sales, nextId, base, overrun>>

Qty(row) == IF row = NoRow THEN 0 ELSE row.qty
Units(rows, b) == SumOver({r \in rows : r.book = b}, [r \in rows |-> r.qty])

\* Records, as far as their books and their money go, and the rows of the stock.
IsRecord(row) ==
    /\ {"id", "book", "qty", "cost"} \subseteq DOMAIN row
    /\ row.book \in Books /\ row.qty \in Nat \ {0} /\ row.cost \in Int
IsSale(row) == IsRecord(row) /\ "price" \in DOMAIN row /\ row.price \in Int
StockRow == [id : Nat, qty : Int, cost : Int]

\* What an edit may name of a purchase.
IsFields(f) ==
    /\ DOMAIN f \subseteq {"book", "qty", "cost", "day", "by"}
    /\ "book" \in DOMAIN f => f.book \in Books
    /\ "qty" \in DOMAIN f => f.qty \in Nat \ {0}
    /\ "cost" \in DOMAIN f => f.cost \in Int

\* The calls that change the stock, as their models validate them.
IsStockCall(c) ==
    \/ c.op = "receive" /\ IsRecord(c.row)
    \/ c.op = "sell" /\ IsSale(c.row)
    \/ c.op = "edit" /\ c.id \in Nat /\ IsFields(c.fields)
    \/ c.op = "erase" /\ c.id \in Nat
    \/ c.op = "adjust" /\ c.book \in Books /\ c.delta \in Int
    \/ c.op = "cost" /\ c.book \in Books /\ c.cost \in Int
    \/ c.op = "create" /\ c.book \in Books /\ c.qty \in Int
    \/ c.op = "delete" /\ c.id \in Nat
    \/ c.op = "batch" /\ c.items \in Seq([book : Books, qty : Int])

\* The records and the stock rows on file fit together.
ASSUME LedgerAssumption ==
    /\ IsFiniteSet(Bought) /\ IsFiniteSet(Sold) /\ Opening \in [Books -> Int]
    /\ \A row \in Bought : IsRecord(row)
    /\ \A row \in Sold : IsSale(row)
    /\ FirstId \in Nat /\ \A row \in Bought \cup Sold : row.id \in Nat /\ row.id < FirstId
    /\ \A p, q \in Bought : p.id = q.id => p = q
    /\ RowId \in [Books -> Nat]
    /\ \A b \in Books : Opening[b] + Units(Bought, b) >= Units(Sold, b)
    /\ NoRow \notin StockRow

StockInit ==
    /\ stock = [b \in Books |->
                  [id |-> RowId[b], cost |-> 1,
                   qty |-> Opening[b] + Units(Bought, b) - Units(Sold, b)]]
    /\ purchases = Bought /\ sales = Sold
    /\ nextId = FirstId
    /\ pc = [r \in Requests |-> "idle"]
    /\ call = [r \in Requests |-> NoCall]
    /\ reply = [r \in Requests |-> "none"]
    /\ hand = [r \in Requests |-> NoRow]
    /\ base = Opening
    /\ overrun = {}
    /\ noneOnMiss \in BOOLEAN

At(r, step) == pc[r] = step
Goto(r, step) == pc' = [pc EXCEPT ![r] = step] /\ UNCHANGED reply
Finish(r, how) ==
    /\ pc' = [pc EXCEPT ![r] = "done"]
    /\ reply' = [reply EXCEPT ![r] = how]

-----------------------------------------------------------------------------
(* Transactions of the inventory *)

\* The row of a book, given a purchase of it.
Stocked(row, p) ==
    IF row = NoRow THEN [id |-> nextId, qty |-> p.qty, cost |-> p.cost]
    ELSE [row EXCEPT !.qty = @ + p.qty, !.cost = p.cost]

Receive(r) ==
    LET p == [call[r].row EXCEPT !.id = nextId]
    IN  /\ At(r, "receive")
        /\ purchases' = purchases \cup {p}
        /\ stock' = [stock EXCEPT ![p.book] = Stocked(@, p)]
        /\ nextId' = nextId + 1
        /\ Finish(r, "ok")
        /\ UNCHANGED <<sales, call, hand, base, overrun>>

Sell(r) ==
    /\ At(r, "sell")
    /\ LET s == [call[r].row EXCEPT !.id = nextId]
       IN  IF Qty(stock[s.book]) >= s.qty
           THEN /\ stock' = [stock EXCEPT ![s.book].qty = @ - s.qty]
                /\ sales' = sales \cup {s}
                /\ Finish(r, "ok")
           ELSE Finish(r, "raised") /\ UNCHANGED <<stock, sales>>
    /\ nextId' = nextId + 1
    /\ UNCHANGED <<purchases, call, hand, base, overrun>>

\* A purchase with the fields an edit names, and the copies that takes from its book.
Edited(p, fields) == [f \in DOMAIN p |-> IF f \in DOMAIN fields THEN fields[f] ELSE p[f]]
Takes(p, new) == IF new.book = p.book THEN p.qty - new.qty ELSE p.qty

\* The guard of both halves of an edit: a change of the copies needs a row that
\* stays above zero.
Allowed(p, new) ==
    Takes(p, new) # 0 => stock[p.book] # NoRow /\ stock[p.book].qty >= Takes(p, new)

\* The rows an edit leaves: those of two books, or one with its price, or as it was.
Less(row, q) == [row EXCEPT !.qty = @ - q]
Restocked(p, new) ==
    IF new.book # p.book
    THEN [stock EXCEPT ![p.book] = Less(@, p.qty), ![new.book] = Stocked(@, new)]
    ELSE IF new.qty # p.qty
    THEN [stock EXCEPT ![p.book] = [Less(@, Takes(p, new)) EXCEPT !.cost = new.cost]]
    ELSE stock

Edit(r) ==
    LET named == {p \in purchases : p.id = call[r].id}
    IN  /\ At(r, "edit")
        /\ \/ \E p \in named :
                 LET new == Edited(p, call[r].fields)
                 IN  /\ Allowed(p, new)
                     /\ stock' = Restocked(p, new)
                     /\ purchases' = (purchases \ {p}) \cup {new}
                     /\ Finish(r, "ok")
           \/ /\ \A p \in named : ~Allowed(p, Edited(p, call[r].fields))
              /\ Finish(r, "raised")
              /\ UNCHANGED <<stock, purchases>>
        /\ nextId' = nextId + 1
        /\ UNCHANGED <<sales, call, hand, base, overrun>>

Erase(r) ==
    LET named == {p \in purchases : p.id = call[r].id}
    IN  /\ At(r, "erase")
        /\ \/ \E p \in named :
                 /\ Qty(stock[p.book]) >= p.qty
                 /\ stock' = [stock EXCEPT ![p.book].qty = @ - p.qty]
                 /\ purchases' = purchases \ {p}
                 /\ Finish(r, "ok")
           \/ /\ \A p \in named : Qty(stock[p.book]) < p.qty
              /\ Finish(r, IF named = {} THEN "absent" ELSE "raised")
              /\ UNCHANGED <<stock, purchases>>
        /\ UNCHANGED <<sales, nextId, call, hand, base, overrun>>

-----------------------------------------------------------------------------
(* StockDomain *)

\* get_by_book_id of a book without a row: some versions of the client answer
\* None, and the repository stumbles over it.
Miss(r) == Finish(r, IF noneOnMiss THEN "AttributeError" ELSE "ValueError")

\* adjust_stock: a book without a row and a result below zero are refused (mutant:
\* the result is not looked at).
TooFewAnyway(row, delta) == FALSE
TooFew(row, delta) == row.qty + delta < 0

AdjustStock(r) ==
    /\ At(r, "adjust")
    /\ LET row == stock[call[r].book]
       IN  /\ hand' = [hand EXCEPT ![r] = row]
           /\ \/ row = NoRow /\ Miss(r)
              \/ row # NoRow /\ TooFew(row, call[r].delta) /\ Finish(r, "ValueError")
              \/ row # NoRow /\ ~TooFew(row, call[r].delta) /\ Goto(r, "write")
    /\ UNCHANGED <<tables, call>>

\* The row that was read is written back, and its answer read, if it is there still.
Replaced(r, b) == stock[b] # NoRow => stock[b].id # hand[r].id
Wrote(r, b) == Finish(r, IF Replaced(r, b) /\ noneOnMiss THEN "AttributeError" ELSE "ok")

\* The sum was computed here, and the row that was read is overwritten with it.
Write(r) ==
    LET b == call[r].book
    IN  /\ At(r, "write")
        /\ \/ /\ ~Replaced(r, b)
              /\ stock' = [stock EXCEPT ![b].qty = hand[r].qty + call[r].delta]
              /\ base' = [base EXCEPT ![b] = @ + call[r].delta]
              /\ overrun' = IF stock[b].qty = hand[r].qty THEN overrun ELSE overrun \cup {b}
           \/ Replaced(r, b) /\ UNCHANGED <<stock, base, overrun>>
        /\ Wrote(r, b)
        /\ UNCHANGED <<purchases, sales, nextId, call, hand>>

UpdateCost(r) ==
    /\ At(r, "cost")
    /\ LET row == stock[call[r].book]
       IN  /\ hand' = [hand EXCEPT ![r] = row]
           /\ \/ call[r].cost < 0 /\ Finish(r, "ValueError")
              \/ call[r].cost >= 0 /\ row = NoRow /\ Miss(r)
              \/ call[r].cost >= 0 /\ row # NoRow /\ Goto(r, "price")
    /\ UNCHANGED <<tables, call>>

Price(r) ==
    LET b == call[r].book
    IN  /\ At(r, "price")
        /\ stock' = IF Replaced(r, b) THEN stock ELSE [stock EXCEPT ![b].cost = call[r].cost]
        /\ Wrote(r, b)
        /\ UNCHANGED <<purchases, sales, nextId, base, overrun, call, hand>>

CreateStock(r) ==
    /\ At(r, "create")
    /\ LET row == stock[call[r].book]
       IN  \/ (call[r].qty < 0 \/ row # NoRow) /\ Finish(r, "ValueError")
           \/ call[r].qty >= 0 /\ row = NoRow /\ noneOnMiss /\ Finish(r, "AttributeError")
           \/ call[r].qty >= 0 /\ row = NoRow /\ ~noneOnMiss /\ Goto(r, "add")
    /\ UNCHANGED <<tables, call, hand>>

\* book_id is unique: the slower of two creators is refused by the database.
Add(r) ==
    LET b == call[r].book
    IN  /\ At(r, "add")
        /\ IF stock[b] = NoRow
           THEN /\ stock' = [stock EXCEPT ![b] = [id |-> nextId, qty |-> call[r].qty, cost |-> 0]]
                /\ base' = [base EXCEPT ![b] = @ + call[r].qty]
                /\ Finish(r, "ok")
           ELSE UNCHANGED <<stock, base>> /\ Finish(r, "APIError")
        /\ nextId' = nextId + 1
        /\ UNCHANGED <<purchases, sales, overrun, call, hand>>

\* The row of an id, if it is there still, whatever it holds by now.
DeleteStock(r) ==
    LET found == {b \in Books : stock[b] # NoRow /\ stock[b].id = call[r].id}
    IN  /\ At(r, "delete")
        /\ stock' = [b \in Books |-> IF b \in found THEN NoRow ELSE stock[b]]
        /\ base' = [b \in Books |-> IF b \in found THEN base[b] - Qty(stock[b]) ELSE base[b]]
        /\ Finish(r, IF found = {} THEN "absent" ELSE "ok")
        /\ UNCHANGED <<purchases, sales, nextId, overrun, call, hand>>

\* The items of a batch are summed per book (mutant: the last one counts).
LinesOf(items, b) == {i \in DOMAIN items : items[i].book = b}
DeltaLast(items, b) == items[Max(LinesOf(items, b))].qty
Quantities(items) == [i \in DOMAIN items |-> items[i].qty]
Delta(items, b) == SumOver(LinesOf(items, b), Quantities(items))

\* adjust_stock_batch: a book without a row gets one, with no less than nothing.
Adjusted(items, b) ==
    IF stock[b] = NoRow
    THEN [id |-> nextId, qty |-> Max({Delta(items, b), 0}), cost |-> 0]
    ELSE [stock[b] EXCEPT !.qty = @ + Delta(items, b)]

AdjustBatch(r) ==
    LET items == call[r].items
        named == {b \in Books : LinesOf(items, b) # {}}
    IN  /\ At(r, "batch")
        /\ IF \E i \in DOMAIN items : items[i].qty = 0
           THEN Finish(r, "ValueError") /\ UNCHANGED <<stock, base, overrun>>
           ELSE IF \E b \in named : stock[b] # NoRow /\ Adjusted(items, b).qty < 0
           THEN Finish(r, "raised") /\ UNCHANGED <<stock, base, overrun>>
           ELSE /\ stock' = [b \in Books |-> IF b \in named THEN Adjusted(items, b) ELSE stock[b]]
                /\ base' = [b \in Books |-> base[b] +
                              SumOver(LinesOf(items, b), Quantities(items))]
                /\ overrun' = overrun \cup
                     {b \in named : stock[b] = NoRow /\ Delta(items, b) < 0}
                /\ Finish(r, "ok")
        /\ nextId' = nextId + 1
        /\ UNCHANGED <<purchases, sales, call, hand>>

StockDomain(r) ==
    \/ AdjustStock(r) \/ Write(r) \/ UpdateCost(r) \/ Price(r) \/ CreateStock(r) \/ Add(r)
    \/ DeleteStock(r) \/ AdjustBatch(r)
Transaction(r) == Receive(r) \/ Sell(r) \/ Edit(r) \/ Erase(r)

-----------------------------------------------------------------------------

\* No order of adjustments, batches and transactions takes a quantity below zero,
\* not even an adjustment computed from a row that has changed since.
NeverNegative == \A b \in Books : Qty(stock[b]) >= 0

\* What is on hand is what the records and the adjustments add up to, unless an
\* adjustment was written over something that came between its two round trips, or
\* a batch took copies of a book that had no row.
LedgerMatches ==
    \A b \in Books \ overrun :
        Qty(stock[b]) = base[b] + Units(purchases, b) - Units(sales, b)
=============================================================================
