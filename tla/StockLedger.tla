---------------------------- MODULE StockLedger ----------------------------
(***************************************************************************)
(* What the inventory promises its callers, with no transactions in sight: *)
(* a purchase batch, a sale batch, a correction or a deletion happens all  *)
(* at once or not at all, on the stock as it is at that instant, and a     *)
(* sale, a correction or a deletion only when the copies are on hand.      *)
(* (The contract: src/app/contracts/inventory_repository.py.)              *)
(***************************************************************************)
EXTENDS Integers, FiniteSets, FiniteSetsExt, Sums

CONSTANTS
    Books,
    Arrivals,   \* purchase batches: functions from line numbers to lines
    Baskets,    \* sale batches, likewise
    Edits,      \* corrections: id and the fields to change
    Erasures,   \* ids a request may delete
    Ids,        \* ids the identity columns may hand out
    OnFile, InStock, NoRow, Keep

VARIABLES stock, purchases, sales

ledger == <<stock, purchases, sales>>

OnHand(b) == IF stock[b] = NoRow THEN 0 ELSE stock[b].qty
Used      == {r.id : r \in purchases \cup sales}

LinesOf(lines, b) == {i \in DOMAIN lines : lines[i].book = b}
Total(lines, b)   == SumOver(LinesOf(lines, b), [i \in DOMAIN lines |-> lines[i].qty])

\* Fresh ids for the lines of a batch, in the order of its lines.
Numberings(lines) ==
    {f \in [DOMAIN lines -> Ids \ Used] :
        \A i, j \in DOMAIN lines : i < j => f[i] < f[j]}

Open == /\ stock = InStock
        /\ purchases = OnFile
        /\ sales = {}

\* Every line becomes a purchase; a book's unit cost becomes that of its last line.
Receive(lines) ==
    /\ \E id \in Numberings(lines) :
          purchases' = purchases \cup
              {[id |-> id[i], book |-> lines[i].book, qty |-> lines[i].qty,
                cost |-> lines[i].cost] : i \in DOMAIN lines}
    /\ stock' = [b \in Books |->
          IF LinesOf(lines, b) = {} THEN stock[b]
          ELSE [qty  |-> OnHand(b) + Total(lines, b),
                cost |-> lines[Max(LinesOf(lines, b))].cost]]
    /\ UNCHANGED sales

\* Every line becomes a sale, if the shelf holds the whole basket.
Sell(lines) ==
    /\ \A b \in Books : Total(lines, b) <= OnHand(b)
    /\ \E id \in Numberings(lines) :
          sales' = sales \cup
              {[id |-> id[i], book |-> lines[i].book, qty |-> lines[i].qty] :
                  i \in DOMAIN lines}
    /\ stock' = [b \in Books |->
          IF LinesOf(lines, b) = {} THEN stock[b]
          ELSE [stock[b] EXCEPT !.qty = @ - Total(lines, b)]]
    /\ UNCHANGED purchases

Fields(p, e) == [id   |-> p.id,
                 book |-> IF e.book = Keep THEN p.book ELSE e.book,
                 qty  |-> IF e.qty  = Keep THEN p.qty  ELSE e.qty,
                 cost |-> IF e.cost = Keep THEN p.cost ELSE e.cost]

\* The copies of the old row leave the shelf and those of the new row join it;
\* the copies of the old row that stay must be there.
Correct(e) ==
    \E p \in {q \in purchases : q.id = e.id} :
        LET new == Fields(p, e)
            less(b) == IF b = p.book THEN p.qty ELSE 0
            more(b) == IF b = new.book THEN new.qty ELSE 0
        IN  /\ purchases' = (purchases \ {p}) \cup {new}
            /\ \A b \in Books : OnHand(b) - less(b) + more(b) >= 0
            /\ stock' = [b \in Books |->
                  IF less(b) = more(b) THEN stock[b]
                  ELSE [qty  |-> OnHand(b) - less(b) + more(b),
                        cost |-> IF b = new.book THEN new.cost ELSE stock[b].cost]]
            /\ UNCHANGED sales

Erase(i) ==
    \E p \in {q \in purchases : q.id = i} :
        /\ p.qty <= OnHand(p.book)
        /\ purchases' = purchases \ {p}
        /\ stock' = [stock EXCEPT ![p.book].qty = @ - p.qty]
        /\ UNCHANGED sales

Move == \/ \E lines \in Arrivals : Receive(lines)
        \/ \E lines \in Baskets : Sell(lines)
        \/ \E e \in Edits : Correct(e)
        \/ \E i \in Erasures : Erase(i)

Ledger == Open /\ [][Move]_ledger
=============================================================================
