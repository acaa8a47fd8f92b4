--------------------------- MODULE ReportsProofs ---------------------------
(* Proofs about StockAdmin and Reports, for any books, records and calls. *)
EXTENDS Reports, SumsProofs, SequenceTheorems

-----------------------------------------------------------------------------
(* The shape of the state *)

StockSteps == {"receive", "sell", "edit", "erase", "adjust", "write", "cost", "price", "create", "add",
               "delete", "batch"}
Entrances == {"receive", "sell", "edit", "erase", "adjust", "cost", "create", "delete", "batch"}
OverviewSteps == {"locate", "tally", "names"}
Replies == {"none", "ok", "absent", "raised", "error", "ValueError", "AttributeError", "APIError"}
Calls == UNION {Traffic[r] : r \in Requests}

TypeOK ==
    /\ stock \in [Books -> StockRow \cup {NoRow}]
    /\ base \in [Books -> Int] /\ nextId \in Nat
    /\ pc \in [Requests -> StockSteps \cup OverviewSteps \cup {"idle", "report", "relocate", "done"}]
    /\ call \in [Requests -> Calls \cup {NoCall}]
    /\ reply \in [Requests -> Replies]
    /\ hand \in [Requests -> StockRow \cup {NoRow}]

\* The records are finitely many, and all ids are used up.
Records ==
    /\ IsFiniteSet(purchases) /\ IsFiniteSet(sales)
    /\ \A row \in purchases : IsRecord(row)
    /\ \A row \in sales : IsSale(row)
    /\ \A row \in purchases \cup sales : row.id \in Nat /\ row.id < nextId
    /\ \A p, q \in purchases : p.id = q.id => p = q

\* Where a request stands tells what it was asked, and what it has read before.
Placed(r) ==
    LET c == call[r]
    IN  /\ pc[r] # "idle" => c \in Traffic[r]
        /\ pc[r] # "done" => reply[r] = "none"
        /\ pc[r] \in Entrances => c.op = pc[r]
        /\ pc[r] = "write" => c.op = "adjust" /\ hand[r] \in StockRow /\ hand[r].qty + c.delta >= 0
        /\ pc[r] = "price" => c.op = "cost" /\ hand[r] \in StockRow
        /\ pc[r] = "add" => c.op = "create" /\ c.qty >= 0
        /\ pc[r] = "report" => c.op \in ReportOps
        /\ pc[r] \in OverviewSteps => c.op = "overview"
        /\ pc[r] = "relocate" => c.op = "relocate"

Shape == TypeOK /\ Records /\ \A r \in Requests : Placed(r)

\* A request at a step of the stock was asked for one.
LEMMA Asked ==
    ASSUME Shape, NEW r \in Requests, pc[r] \in StockSteps
    PROVE  IsStockCall(call[r])
<1> DEFINE c == call[r]
<1>1. c \in Traffic[r] /\ c.op \in Entrances
  BY DEF Shape, Placed, StockSteps, Entrances
<1>2. IsStockCall(c) \/ IsReportCall(c)
  BY <1>1, TrafficAssumption
<1>3. ~IsReportCall(c)
  BY <1>1 DEF IsReportCall, Entrances, ReportOps, DashboardOps, InwardOps
<1>4. QED BY <1>2, <1>3

\* The other requests stay where they are.
Elsewhere(r) ==
    \A q \in Requests \ {r} :
        pc'[q] = pc[q] /\ call'[q] = call[q] /\ reply'[q] = reply[q] /\ hand'[q] = hand[q]

\* A step of one request leaves the others in place.
LEMMA PlacedOthers ==
    ASSUME Shape, NEW r \in Requests, Elsewhere(r), Placed(r)'
    PROVE  \A q \in Requests : Placed(q)'
<1> SUFFICES ASSUME NEW q \in Requests \ {r} PROVE Placed(q)'
  OBVIOUS
<1>1. Placed(q)
  BY DEF Shape
<1>2. QED BY <1>1 DEF Elsewhere, Placed

\* A request that is answered is done, and nobody else moves.
LEMMA ShapeFinished ==
    ASSUME Shape, NEW r \in Requests, pc[r] # "idle", NEW how \in Replies, Finish(r, how),
           UNCHANGED call, \A q \in Requests \ {r} : hand'[q] = hand[q],
           hand' \in [Requests -> StockRow \cup {NoRow}],
           stock' \in [Books -> StockRow \cup {NoRow}], base' \in [Books -> Int],
           nextId' \in Nat, Records'
    PROVE  Shape'
<1>1. TypeOK'
  BY DEF Shape, TypeOK, Finish
<1>2. Elsewhere(r)
  BY DEF Shape, TypeOK, Finish, Elsewhere
<1>3. Placed(r)'
  BY DEF Shape, TypeOK, Finish, Placed, Entrances, OverviewSteps
<1>4. QED BY <1>1, <1>2, <1>3, PlacedOthers DEF Shape

\* A request that goes on is where it is by right, and nobody else moves.
LEMMA ShapeGoes ==
    ASSUME Shape, NEW r \in Requests, NEW step \in StockSteps \cup OverviewSteps, Goto(r, step),
           UNCHANGED call, \A q \in Requests \ {r} : hand'[q] = hand[q],
           hand' \in [Requests -> StockRow \cup {NoRow}],
           stock' \in [Books -> StockRow \cup {NoRow}], base' \in [Books -> Int],
           nextId' \in Nat, Records', Placed(r)'
    PROVE  Shape'
<1>1. TypeOK'
  BY DEF Shape, TypeOK, Goto
<1>2. Elsewhere(r)
  BY DEF Shape, TypeOK, Goto, Elsewhere
<1>3. QED BY <1>1, <1>2, PlacedOthers DEF Shape

\* What the stock holds of a book is a whole number.
LEMMA QtyType ==
    ASSUME TypeOK, NEW b \in Books
    PROVE  Qty(stock[b]) \in Int /\ (stock[b] # NoRow => stock[b] \in StockRow)
BY DEF TypeOK, Qty, StockRow

\* The row of a new record.
LEMMA NewRecord ==
    ASSUME NEW row, IsRecord(row), NEW n \in Nat
    PROVE  LET p == [row EXCEPT !.id = n]
           IN  /\ IsRecord(p) /\ p.id = n /\ p.book = row.book /\ p.qty = row.qty
               /\ p.cost = row.cost
               /\ IsSale(row) => IsSale(p)
BY DEF IsRecord, IsSale

\* A new record has an id of its own.
LEMMA RecordsGrow ==
    ASSUME Records, nextId \in Nat, NEW p, p.id = nextId, nextId' = nextId + 1
    PROVE  /\ p \notin purchases /\ p \notin sales
           /\ IsRecord(p) /\ purchases' = purchases \cup {p} /\ sales' = sales => Records'
           /\ IsSale(p) /\ sales' = sales \cup {p} /\ purchases' = purchases => Records'
<1>1. p \notin purchases /\ p \notin sales
  BY DEF Records
<1>2. IsFiniteSet(purchases \cup {p}) /\ IsFiniteSet(sales \cup {p})
  BY FS_AddElement DEF Records
<1>3. ASSUME IsRecord(p), purchases' = purchases \cup {p}, sales' = sales PROVE Records'
  BY <1>2, <1>3 DEF Records
<1>4. ASSUME IsSale(p), sales' = sales \cup {p}, purchases' = purchases PROVE Records'
  BY <1>2, <1>4 DEF Records
<1>5. QED BY <1>1, <1>3, <1>4

\* A stock row with a purchase on it.
LEMMA StockedRow ==
    ASSUME NEW row \in StockRow \cup {NoRow}, NEW p, IsRecord(p), nextId \in Nat
    PROVE  /\ Stocked(row, p) \in StockRow
           /\ Qty(Stocked(row, p)) = Qty(row) + p.qty
<1>1. p.qty \in Int /\ p.cost \in Int /\ NoRow \notin StockRow
  BY LedgerAssumption DEF IsRecord
<1>2. CASE row = NoRow
  BY <1>1, <1>2 DEF Stocked, StockRow, Qty
<1>3. CASE row \in StockRow
  <2>1. row # NoRow /\ row.qty + p.qty \in Int
    BY <1>1, <1>3 DEF StockRow
  <2> PICK q \in Int, k \in Int : q = row.qty + p.qty /\ k = p.cost
    BY <1>1, <2>1
  <2>2. Stocked(row, p) = [row EXCEPT !.qty = q, !.cost = k]
    BY <2>1 DEF Stocked
  <2>3. Stocked(row, p) \in StockRow /\ Stocked(row, p).qty = row.qty + p.qty
    BY <1>3, <2>2 DEF StockRow
  <2>4. QED BY <1>1, <2>1, <2>3 DEF Qty
<1>4. QED BY <1>2, <1>3

\* Steps of the stock keep the shape: the transactions first.
LEMMA ShapeReceive ==
    ASSUME Shape, NEW r \in Requests, Receive(r) PROVE Shape'
<1> DEFINE c == call[r]
           p == [c.row EXCEPT !.id = nextId]
<1>1. pc[r] = "receive" /\ c.op = "receive" /\ IsRecord(c.row)
  BY Asked DEF Receive, At, Shape, Placed, Entrances, StockSteps, IsStockCall
<1>2. nextId \in Nat
  BY DEF Shape, TypeOK
<1>3. IsRecord(p) /\ p.id = nextId
  BY <1>1, <1>2, NewRecord
<1>4. /\ purchases' = purchases \cup {p} /\ sales' = sales /\ nextId' = nextId + 1
      /\ stock' = [stock EXCEPT ![p.book] = Stocked(@, p)]
      /\ Finish(r, "ok") /\ UNCHANGED <<call, hand, base, overrun>>
  BY DEF Receive
<1> HIDE DEF p
<1>5. stock' \in [Books -> StockRow \cup {NoRow}]
  <2>1. p.book \in Books
    BY <1>3 DEF IsRecord
  <2>2. Stocked(stock[p.book], p) \in StockRow
    BY <1>2, <1>3, <2>1, StockedRow DEF Shape, TypeOK
  <2>3. QED BY <1>4, <2>1, <2>2 DEF Shape, TypeOK
<1>6. Records'
  BY <1>2, <1>3, <1>4, RecordsGrow DEF Shape
<1>7. QED BY <1>1, <1>2, <1>4, <1>5, <1>6, ShapeFinished DEF Shape, TypeOK, Replies

\* A quantity written over that of a row.
LEMMA Requantified ==
    ASSUME TypeOK, NEW b \in Books, stock[b] # NoRow, NEW q \in Int,
           stock' = [stock EXCEPT ![b].qty = q]
    PROVE  /\ stock' \in [Books -> StockRow \cup {NoRow}]
           /\ Qty(stock'[b]) = q
           /\ \A a \in Books \ {b} : stock'[a] = stock[a]
<1> PICK row \in StockRow : row = stock[b]
  BY DEF TypeOK
<1>1. [row EXCEPT !.qty = q] \in StockRow /\ [row EXCEPT !.qty = q].qty = q
  BY DEF StockRow
<1>2. stock' = [stock EXCEPT ![b] = [row EXCEPT !.qty = q]]
  OBVIOUS
<1>3. NoRow \notin StockRow
  BY LedgerAssumption
<1>4. QED BY <1>1, <1>2, <1>3 DEF TypeOK, Qty

\* Selling books.
LEMMA ShapeSell ==
    ASSUME Shape, NEW r \in Requests, Sell(r) PROVE Shape'
<1> DEFINE c == call[r]
           s == [c.row EXCEPT !.id = nextId]
<1>1. pc[r] = "sell" /\ c.op = "sell" /\ IsSale(c.row) /\ IsRecord(c.row)
  BY Asked DEF Sell, At, Shape, Placed, Entrances, StockSteps, IsStockCall, IsSale
<1>2. nextId \in Nat /\ nextId' = nextId + 1 /\ UNCHANGED <<purchases, call, hand, base>>
  BY DEF Shape, TypeOK, Sell
<1>3. IsSale(s) /\ s.id = nextId /\ s.book \in Books /\ s.qty \in Nat \ {0}
  BY <1>1, <1>2, NewRecord DEF IsRecord
<1> HIDE DEF s
<1>4. CASE Qty(stock[s.book]) >= s.qty
  <2>1. /\ stock' = [stock EXCEPT ![s.book].qty = @ - s.qty] /\ sales' = sales \cup {s}
        /\ Finish(r, "ok")
    BY <1>4 DEF Sell, s
  <2>2. stock[s.book] # NoRow /\ Qty(stock[s.book]) = stock[s.book].qty
    BY <1>3, <1>4 DEF Qty
  <2>3. stock[s.book].qty - s.qty \in Int
    BY <1>3, <2>2, QtyType DEF Shape
  <2>4. stock' \in [Books -> StockRow \cup {NoRow}]
    BY <1>3, <2>1, <2>2, <2>3, Requantified DEF Shape
  <2>5. Records'
    BY <1>2, <1>3, <2>1, RecordsGrow DEF Shape
  <2>6. QED BY <1>1, <1>2, <2>1, <2>4, <2>5, ShapeFinished DEF Shape, TypeOK, Replies
<1>5. CASE ~(Qty(stock[s.book]) >= s.qty)
  <2>1. Finish(r, "raised") /\ UNCHANGED <<stock, sales>>
    BY <1>5 DEF Sell, s
  <2>2. Records'
    BY <1>2, <2>1 DEF Shape, Records
  <2>3. QED BY <1>1, <1>2, <2>1, <2>2, ShapeFinished DEF Shape, TypeOK, Replies
<1>6. QED BY <1>4, <1>5

\* An edited purchase is a record under the id it had.
LEMMA EditedRecord ==
    ASSUME NEW p, IsRecord(p), NEW fields, IsFields(fields)
    PROVE  IsRecord(Edited(p, fields)) /\ Edited(p, fields).id = p.id
<1> DEFINE new == Edited(p, fields)
<1>1. /\ DOMAIN new = DOMAIN p /\ {"id", "book", "qty", "cost"} \subseteq DOMAIN new
      /\ \A f \in DOMAIN p : new[f] = IF f \in DOMAIN fields THEN fields[f] ELSE p[f]
  BY DEF Edited, IsRecord
<1>2. new.id = p.id
  BY <1>1 DEF IsFields
<1>3. new.book \in Books
  BY <1>1 DEF IsFields, IsRecord
<1>4. new.qty \in Nat \ {0}
  BY <1>1 DEF IsFields, IsRecord
<1>5. new.cost \in Int
  BY <1>1 DEF IsFields, IsRecord
<1> HIDE DEF new
<1>6. QED BY <1>1, <1>2, <1>3, <1>4, <1>5 DEF IsRecord, new

\* A row with copies taken away.
LEMMA LessRow ==
    ASSUME NEW row \in StockRow, NEW q \in Int
    PROVE  Less(row, q) \in StockRow /\ Less(row, q).qty = row.qty - q
<1> PICK n \in Int : n = row.qty - q
  BY DEF StockRow
<1>1. [row EXCEPT !.qty = n] \in StockRow /\ [row EXCEPT !.qty = n].qty = n
  BY DEF StockRow
<1>2. QED BY <1>1 DEF Less

\* What an edit leaves of the stock: the copies of the purchase that was, less, and
\* those of the purchase that is, more, and no row below nothing.
LEMMA Restocking ==
    ASSUME TypeOK, NEW p, IsRecord(p), NEW new, IsRecord(new), Allowed(p, new)
    PROVE  /\ Restocked(p, new) \in [Books -> StockRow \cup {NoRow}]
           /\ \A b \in Books :
                 /\ Qty(Restocked(p, new)[b]) =
                       Qty(stock[b]) - (IF p.book = b THEN p.qty ELSE 0)
                                     + (IF new.book = b THEN new.qty ELSE 0)
                 /\ Qty(stock[b]) >= 0 => Qty(Restocked(p, new)[b]) >= 0
<1>1. /\ p.book \in Books /\ p.qty \in Nat \ {0} /\ new.book \in Books
      /\ new.qty \in Nat \ {0} /\ new.cost \in Int /\ nextId \in Nat
      /\ NoRow \notin StockRow
  BY LedgerAssumption DEF IsRecord, TypeOK
<1>2. CASE new.book # p.book
  <2>1. stock[p.book] \in StockRow /\ stock[p.book].qty >= p.qty
    BY <1>1, <1>2, QtyType DEF Allowed, Takes
  <2> PICK less : less = Less(stock[p.book], p.qty)
    OBVIOUS
  <2> PICK more : more = Stocked(stock[new.book], new)
    OBVIOUS
  <2>2. less \in StockRow /\ less.qty = stock[p.book].qty - p.qty
    <3>1. p.qty \in Int
      BY <1>1
    <3>2. QED BY <2>1, <3>1, LessRow
  <2>3. more \in StockRow /\ Qty(more) = Qty(stock[new.book]) + new.qty
    BY <1>1, StockedRow DEF TypeOK
  <2>4. Restocked(p, new) = [stock EXCEPT ![p.book] = less, ![new.book] = more]
    BY <1>2 DEF Restocked
  <2>5. /\ Restocked(p, new) \in [Books -> StockRow \cup {NoRow}]
        /\ Restocked(p, new)[p.book] = less /\ Restocked(p, new)[new.book] = more
        /\ \A b \in Books \ {p.book, new.book} : Restocked(p, new)[b] = stock[b]
    BY <1>1, <1>2, <2>2, <2>3, <2>4 DEF TypeOK
  <2>6. Qty(less) = less.qty /\ Qty(stock[p.book]) = stock[p.book].qty
    BY <1>1, <2>1, <2>2 DEF Qty
  <2>7. ASSUME NEW b \in Books
        PROVE  /\ Qty(Restocked(p, new)[b]) =
                     Qty(stock[b]) - (IF p.book = b THEN p.qty ELSE 0)
                                   + (IF new.book = b THEN new.qty ELSE 0)
               /\ Qty(stock[b]) >= 0 => Qty(Restocked(p, new)[b]) >= 0
    <3>1. Qty(stock[b]) \in Int
      BY QtyType
    <3>2. CASE b = p.book
      BY <1>1, <1>2, <2>1, <2>2, <2>5, <2>6, <3>1, <3>2
    <3>3. CASE b = new.book
      BY <1>1, <1>2, <2>3, <2>5, <3>1, <3>3
    <3>4. CASE b \notin {p.book, new.book}
      BY <2>5, <3>1, <3>4
    <3>5. QED BY <3>2, <3>3, <3>4
  <2>8. QED BY <2>5, <2>7
<1>3. CASE new.book = p.book /\ new.qty # p.qty
  <2> PICK q \in Int : q = p.qty - new.qty
    BY <1>1
  <2>1. Takes(p, new) = q /\ q # 0
    BY <1>1, <1>3 DEF Takes
  <2>2. stock[p.book] \in StockRow /\ stock[p.book].qty >= q
    BY <1>1, <2>1, QtyType DEF Allowed
  <2> PICK less : less = Less(stock[p.book], q)
    OBVIOUS
  <2>3. less \in StockRow /\ less.qty = stock[p.book].qty - q
    BY <2>2, LessRow
  <2> PICK row : row = [less EXCEPT !.cost = new.cost]
    OBVIOUS
  <2>4. row \in StockRow /\ row.qty = less.qty
    BY <1>1, <2>3 DEF StockRow
  <2>5. Restocked(p, new) = [stock EXCEPT ![p.book] = row]
    BY <1>3, <2>1 DEF Restocked
  <2>6. /\ Restocked(p, new) \in [Books -> StockRow \cup {NoRow}]
        /\ Restocked(p, new)[p.book] = row
        /\ \A b \in Books \ {p.book} : Restocked(p, new)[b] = stock[b]
    BY <1>1, <2>4, <2>5 DEF TypeOK
  <2>7. Qty(row) = row.qty /\ Qty(stock[p.book]) = stock[p.book].qty
    BY <1>1, <2>2, <2>4 DEF Qty
  <2>8. ASSUME NEW b \in Books
        PROVE  /\ Qty(Restocked(p, new)[b]) =
                     Qty(stock[b]) - (IF p.book = b THEN p.qty ELSE 0)
                                   + (IF new.book = b THEN new.qty ELSE 0)
               /\ Qty(stock[b]) >= 0 => Qty(Restocked(p, new)[b]) >= 0
    <3>1. Qty(stock[b]) \in Int
      BY QtyType
    <3>2. CASE b = p.book
      BY <1>1, <1>3, <2>2, <2>3, <2>4, <2>6, <2>7, <3>1, <3>2
    <3>3. CASE b # p.book
      BY <1>3, <2>6, <3>1, <3>3
    <3>4. QED BY <3>2, <3>3
  <2>9. QED BY <2>6, <2>8
<1>4. CASE new.book = p.book /\ new.qty = p.qty
  <2>1. Restocked(p, new) = stock
    BY <1>4 DEF Restocked
  <2>2. \A b \in Books : Qty(stock[b]) \in Int
    BY QtyType
  <2>3. QED BY <1>1, <1>4, <2>1, <2>2 DEF TypeOK
<1>5. QED BY <1>2, <1>3, <1>4

\* An edited purchase takes the place of the one it was.
LEMMA Refiled ==
    ASSUME Records, NEW p \in purchases, NEW new, IsRecord(new), new.id = p.id,
           purchases' = (purchases \ {p}) \cup {new}, sales' = sales,
           nextId \in Nat, nextId' = nextId + 1
    PROVE  Records' /\ new \notin purchases \ {p} /\ IsFiniteSet(purchases \ {p})
<1>1. IsFiniteSet(purchases \ {p}) /\ IsFiniteSet(purchases')
  <2>1. IsFiniteSet(purchases \ {p})
    BY FS_RemoveElement DEF Records
  <2>2. QED BY <2>1, FS_AddElement
<1>2. QED BY <1>1 DEF Records

\* The two ends of an edit.
LEMMA Edits ==
    ASSUME Shape, NEW r \in Requests, Edit(r)
    PROVE  /\ pc[r] = "edit" /\ nextId \in Nat /\ nextId' = nextId + 1
           /\ UNCHANGED <<sales, call, hand, base, overrun>>
           /\ \/ \E p \in purchases : \E new :
                    /\ IsRecord(p) /\ IsRecord(new) /\ new.id = p.id /\ Allowed(p, new)
                    /\ stock' = Restocked(p, new)
                    /\ purchases' = (purchases \ {p}) \cup {new}
                    /\ Finish(r, "ok")
              \/ Finish(r, "raised") /\ UNCHANGED <<stock, purchases>>
<1>1. pc[r] = "edit" /\ IsFields(call[r].fields)
  BY Asked DEF Edit, At, Shape, Placed, Entrances, StockSteps, IsStockCall
<1>2. nextId \in Nat /\ nextId' = nextId + 1 /\ UNCHANGED <<sales, call, hand, base, overrun>>
  BY DEF Edit, Shape, TypeOK
<1>3. ASSUME NEW p \in purchases, Allowed(p, Edited(p, call[r].fields)),
             stock' = Restocked(p, Edited(p, call[r].fields)),
             purchases' = (purchases \ {p}) \cup {Edited(p, call[r].fields)}, Finish(r, "ok")
      PROVE  \E q \in purchases : \E new :
                /\ IsRecord(q) /\ IsRecord(new) /\ new.id = q.id /\ Allowed(q, new)
                /\ stock' = Restocked(q, new)
                /\ purchases' = (purchases \ {q}) \cup {new}
                /\ Finish(r, "ok")
  <2> PICK new : new = Edited(p, call[r].fields)
    OBVIOUS
  <2>1. IsRecord(p)
    BY DEF Shape, Records
  <2>2. IsRecord(new) /\ new.id = p.id
    BY <1>1, <2>1, EditedRecord
  <2>3. QED BY <1>3, <2>1, <2>2
<1>4. QED BY <1>1, <1>2, <1>3 DEF Edit

\* Editing a purchase.
LEMMA ShapeEdit ==
    ASSUME Shape, NEW r \in Requests, Edit(r) PROVE Shape'
<1>1. /\ pc[r] = "edit" /\ nextId \in Nat /\ nextId' = nextId + 1
      /\ UNCHANGED <<sales, call, hand, base, overrun>>
  BY Edits
<1>2. ASSUME NEW p \in purchases, NEW new, IsRecord(p), IsRecord(new), new.id = p.id,
             Allowed(p, new), stock' = Restocked(p, new),
             purchases' = (purchases \ {p}) \cup {new}, Finish(r, "ok")
      PROVE  Shape'
  <2>1. stock' \in [Books -> StockRow \cup {NoRow}]
    BY <1>2, Restocking DEF Shape
  <2>2. Records'
    BY <1>1, <1>2, Refiled DEF Shape
  <2>3. QED BY <1>1, <1>2, <2>1, <2>2, ShapeFinished DEF Shape, TypeOK, Replies
<1>3. ASSUME Finish(r, "raised"), UNCHANGED <<stock, purchases>> PROVE Shape'
  <2>1. Records'
    BY <1>1, <1>3 DEF Shape, Records
  <2>2. QED BY <1>1, <1>3, <2>1, ShapeFinished DEF Shape, TypeOK, Replies
<1>4. QED BY <1>2, <1>3, Edits

\* Taking a purchase back.
LEMMA ShapeErase ==
    ASSUME Shape, NEW r \in Requests, Erase(r) PROVE Shape'
<1>1. pc[r] = "erase" /\ UNCHANGED <<sales, nextId, call, hand, base>>
  BY DEF Erase, At
<1>2. ASSUME NEW p \in purchases, Qty(stock[p.book]) >= p.qty,
             stock' = [stock EXCEPT ![p.book].qty = @ - p.qty],
             purchases' = purchases \ {p}, Finish(r, "ok")
      PROVE  Shape'
  <2>1. p.book \in Books /\ p.qty \in Nat \ {0}
    BY DEF Shape, Records, IsRecord
  <2>2. stock[p.book] # NoRow /\ Qty(stock[p.book]) = stock[p.book].qty
    BY <1>2, <2>1 DEF Qty
  <2>3. stock[p.book].qty - p.qty \in Int
    BY <2>1, <2>2, QtyType DEF Shape
  <2>4. stock' \in [Books -> StockRow \cup {NoRow}]
    BY <1>2, <2>1, <2>2, <2>3, Requantified DEF Shape
  <2>5. IsFiniteSet(purchases \ {p})
    BY FS_RemoveElement DEF Shape, Records
  <2>6. Records'
    BY <1>1, <1>2, <2>5 DEF Shape, Records
  <2>7. QED BY <1>1, <1>2, <2>4, <2>6, ShapeFinished DEF Shape, TypeOK, Replies
<1>3. ASSUME NEW how \in {"absent", "raised"}, Finish(r, how), UNCHANGED <<stock, purchases>>
      PROVE  Shape'
  <2>1. Records'
    BY <1>1, <1>3 DEF Shape, Records
  <2>2. QED BY <1>1, <1>3, <2>1, ShapeFinished DEF Shape, TypeOK, Replies
<1>4. QED BY <1>2, <1>3 DEF Erase

\* A request that only asks leaves the tables.
LEMMA ShapeAsks ==
    ASSUME Shape, NEW r \in Requests, AdjustStock(r) \/ UpdateCost(r) \/ CreateStock(r)
    PROVE  Shape'
<1> DEFINE c == call[r]
<1>1. /\ pc[r] \in {"adjust", "cost", "create"} /\ c.op = pc[r] /\ c.book \in Books
      /\ c.op = "adjust" => c.delta \in Int
      /\ c.op = "cost" => c.cost \in Int
      /\ c.op = "create" => c.qty \in Int
  <2>1. pc[r] \in {"adjust", "cost", "create"} /\ c.op = pc[r]
    BY DEF AdjustStock, UpdateCost, CreateStock, At, Shape, Placed, Entrances
  <2>2. IsStockCall(c)
    BY <2>1, Asked DEF StockSteps
  <2>3. QED BY <2>1, <2>2 DEF IsStockCall
<1>2. call[r] \in Traffic[r] /\ reply[r] = "none"
  BY <1>1 DEF Shape, Placed
<1>3. UNCHANGED <<tables, call>> /\ Records'
  BY DEF AdjustStock, UpdateCost, CreateStock, tables, Shape, Records
<1>4. stock[c.book] \in StockRow \cup {NoRow}
  BY <1>1 DEF Shape, TypeOK
<1>5. hand' \in [Requests -> StockRow \cup {NoRow}] /\ \A q \in Requests \ {r} : hand'[q] = hand[q]
  BY <1>4 DEF AdjustStock, UpdateCost, CreateStock, Shape, TypeOK
<1>6. ASSUME NEW how \in Replies, Finish(r, how) PROVE Shape'
  BY <1>1, <1>3, <1>5, <1>6, ShapeFinished DEF Shape, TypeOK, tables
<1>7. ASSUME NEW step \in StockSteps, Goto(r, step), Placed(r)' PROVE Shape'
  BY <1>3, <1>5, <1>7, ShapeGoes DEF Shape, TypeOK, tables
<1>8. CASE AdjustStock(r)
  <2>1. CASE Goto(r, "write")
    <3>1. pc'[r] = "write" /\ call' = call /\ reply' = reply /\ hand'[r] = stock[c.book]
      BY <1>8, <2>1 DEF AdjustStock, Goto, Shape, TypeOK
    <3>2. stock[c.book] \in StockRow /\ stock[c.book].qty + c.delta >= 0 /\ c.op = "adjust"
      BY <1>1, <1>4, <1>8, <2>1 DEF AdjustStock, TooFew, StockRow, Goto, Finish, Miss, At, Shape, TypeOK
    <3>3. Placed(r)'
      BY <1>2, <3>1, <3>2 DEF Placed, Entrances, OverviewSteps
    <3>4. QED BY <1>7, <2>1, <3>3 DEF StockSteps
  <2>2. QED BY <1>6, <1>8, <2>1 DEF AdjustStock, Miss, Replies
<1>9. CASE UpdateCost(r)
  <2>1. CASE Goto(r, "price") /\ stock[c.book] # NoRow
    <3>1. pc'[r] = "price" /\ call' = call /\ reply' = reply /\ hand'[r] = stock[c.book]
          /\ c.op = "cost"
      BY <1>1, <1>9, <2>1 DEF UpdateCost, Goto, At, Shape, TypeOK
    <3>2. Placed(r)'
      BY <1>2, <1>4, <2>1, <3>1 DEF Placed, Entrances, OverviewSteps
    <3>3. QED BY <1>7, <2>1, <3>2 DEF StockSteps
  <2>2. QED BY <1>6, <1>9, <2>1 DEF UpdateCost, Miss, Replies
<1>10. CASE CreateStock(r)
  <2>1. CASE Goto(r, "add") /\ c.qty >= 0
    <3>1. pc'[r] = "add" /\ call' = call /\ reply' = reply /\ c.op = "create"
      BY <1>1, <1>10, <2>1 DEF CreateStock, Goto, At, Shape, TypeOK
    <3>2. Placed(r)'
      BY <1>2, <2>1, <3>1 DEF Placed, Entrances, OverviewSteps
    <3>3. QED BY <1>7, <2>1, <3>2 DEF StockSteps
  <2>2. QED BY <1>6, <1>10, <2>1 DEF CreateStock, Replies
<1>11. QED BY <1>8, <1>9, <1>10

\* Whoever wrote a row is answered.
LEMMA WroteReply ==
    ASSUME NEW r, NEW b, Wrote(r, b)
    PROVE  \E how \in Replies : Finish(r, how)
BY DEF Wrote, Replies

\* Writing a sum back.
LEMMA ShapeWrite ==
    ASSUME Shape, NEW r \in Requests, Write(r) PROVE Shape'
<1> DEFINE c == call[r]
<1>1. /\ pc[r] = "write" /\ c.op = "adjust" /\ c.book \in Books /\ c.delta \in Int
      /\ hand[r] \in StockRow
  BY Asked DEF Write, At, Shape, Placed, StockSteps, IsStockCall
<1>2. UNCHANGED <<purchases, sales, nextId, call, hand>> /\ Records'
  BY DEF Write, Shape, Records
<1>3. PICK how \in Replies : Finish(r, how)
  BY WroteReply DEF Write
<1>4. stock' \in [Books -> StockRow \cup {NoRow}] /\ base' \in [Books -> Int]
  <2>1. CASE Replaced(r, c.book) /\ UNCHANGED <<stock, base>>
    BY <2>1 DEF Shape, TypeOK
  <2>2. CASE /\ ~Replaced(r, c.book)
             /\ stock' = [stock EXCEPT ![c.book].qty = hand[r].qty + c.delta]
             /\ base' = [base EXCEPT ![c.book] = @ + c.delta]
    <3>1. stock[c.book] # NoRow /\ hand[r].qty + c.delta \in Int
      BY <1>1, <2>2 DEF Replaced, StockRow
    <3>2. stock' \in [Books -> StockRow \cup {NoRow}]
      BY <1>1, <2>2, <3>1, Requantified DEF Shape
    <3>3. base' \in [Books -> Int]
      BY <1>1, <2>2 DEF Shape, TypeOK
    <3>4. QED BY <3>2, <3>3
  <2>3. QED BY <2>1, <2>2 DEF Write
<1>5. QED BY <1>1, <1>2, <1>3, <1>4, ShapeFinished DEF Shape, TypeOK

\* Writing a price back.
LEMMA ShapePrice ==
    ASSUME Shape, NEW r \in Requests, Price(r) PROVE Shape'
<1> DEFINE c == call[r]
           b == c.book
<1>1. pc[r] = "price" /\ c.op = "cost" /\ b \in Books /\ c.cost \in Int
  BY Asked DEF Price, At, Shape, Placed, StockSteps, IsStockCall
<1>2. UNCHANGED <<purchases, sales, nextId, base, call, hand>> /\ Records'
  BY DEF Price, Shape, Records
<1>3. PICK how \in Replies : Finish(r, how)
  BY WroteReply DEF Price
<1>4. stock' \in [Books -> StockRow \cup {NoRow}]
  <2>1. CASE Replaced(r, b)
    BY <2>1 DEF Price, Shape, TypeOK
  <2>2. CASE ~Replaced(r, b)
    <3> PICK row \in StockRow : row = stock[b]
      BY <1>1, <2>2 DEF Replaced, Shape, TypeOK
    <3>1. [row EXCEPT !.cost = c.cost] \in StockRow
      BY <1>1 DEF StockRow
    <3>2. stock' = [stock EXCEPT ![b] = [row EXCEPT !.cost = c.cost]]
      BY <2>2 DEF Price
    <3>3. QED BY <1>1, <3>1, <3>2 DEF Shape, TypeOK
  <2>3. QED BY <2>1, <2>2
<1>5. QED BY <1>1, <1>2, <1>3, <1>4, ShapeFinished DEF Shape, TypeOK

\* A row for a book that had none.
LEMMA ShapeAdd ==
    ASSUME Shape, NEW r \in Requests, Add(r) PROVE Shape'
<1> DEFINE c == call[r]
           b == c.book
<1>1. pc[r] = "add" /\ b \in Books /\ c.qty \in Int
  BY Asked DEF Add, At, Shape, Placed, StockSteps, IsStockCall
<1>2. nextId \in Nat /\ nextId' = nextId + 1 /\ UNCHANGED <<purchases, sales, call, hand>>
  BY DEF Add, Shape, TypeOK
<1>3. Records'
  BY <1>2 DEF Shape, Records
<1>4. CASE stock[b] = NoRow
  <2>1. /\ stock' = [stock EXCEPT ![b] = [id |-> nextId, qty |-> c.qty, cost |-> 0]]
        /\ base' = [base EXCEPT ![b] = @ + c.qty] /\ Finish(r, "ok")
    BY <1>4 DEF Add
  <2>2. [id |-> nextId, qty |-> c.qty, cost |-> 0] \in StockRow
    BY <1>1, <1>2 DEF StockRow
  <2>3. stock' \in [Books -> StockRow \cup {NoRow}] /\ base' \in [Books -> Int]
    BY <1>1, <2>1, <2>2 DEF Shape, TypeOK
  <2>4. QED BY <1>1, <1>2, <1>3, <2>1, <2>3, ShapeFinished DEF Shape, TypeOK, Replies
<1>5. CASE stock[b] # NoRow
  <2>1. UNCHANGED <<stock, base>> /\ Finish(r, "APIError")
    BY <1>5 DEF Add
  <2>2. QED BY <1>1, <1>2, <1>3, <2>1, ShapeFinished DEF Shape, TypeOK, Replies
<1>6. QED BY <1>4, <1>5

\* Deleting a row.
LEMMA ShapeDelete ==
    ASSUME Shape, NEW r \in Requests, DeleteStock(r) PROVE Shape'
<1> DEFINE gone == {b \in Books : stock[b] # NoRow /\ stock[b].id = call[r].id}
<1>1. pc[r] = "delete"
  BY DEF DeleteStock, At
<1>2. /\ stock' = [b \in Books |-> IF b \in gone THEN NoRow ELSE stock[b]]
      /\ base' = [b \in Books |-> IF b \in gone THEN base[b] - Qty(stock[b]) ELSE base[b]]
      /\ Finish(r, IF gone = {} THEN "absent" ELSE "ok")
      /\ UNCHANGED <<purchases, sales, nextId, call, hand>> /\ Records'
  BY DEF DeleteStock, Shape, Records
<1> HIDE DEF gone
<1>3. \A b \in Books : base[b] - Qty(stock[b]) \in Int
  BY QtyType DEF Shape, TypeOK
<1>4. stock' \in [Books -> StockRow \cup {NoRow}] /\ base' \in [Books -> Int]
  BY <1>2, <1>3 DEF Shape, TypeOK
<1>5. QED BY <1>1, <1>2, <1>4, ShapeFinished DEF Shape, TypeOK, Replies

\* What the items of a batch add up to for a book.
LEMMA DeltaType ==
    ASSUME NEW items \in Seq([book : Books, qty : Int]), NEW b
    PROVE  /\ Delta(items, b) \in Int
           /\ LinesOf(items, b) = {} => Delta(items, b) = 0
<1>1. DOMAIN items = 1 .. Len(items) /\ Len(items) \in Nat
  OBVIOUS
<1>2. IsFiniteSet(1 .. Len(items))
  BY <1>1, FS_Interval
<1>3. LinesOf(items, b) \subseteq 1 .. Len(items)
  BY <1>1 DEF LinesOf
<1>4. IsFiniteSet(LinesOf(items, b))
  BY <1>2, <1>3, FS_Subset
<1>5. ASSUME NEW i \in LinesOf(items, b) PROVE Quantities(items)[i] \in Int
  <2>1. i \in 1 .. Len(items) /\ i \in DOMAIN items
    BY <1>1, <1>3
  <2>2. items[i] \in [book : Books, qty : Int]
    BY <2>1, ElementOfSeq
  <2>3. QED BY <2>1, <2>2 DEF Quantities
<1>6. Delta(items, b) \in Int
  BY <1>4, <1>5, SumType DEF Delta
<1>7. QED BY <1>6, SumEmpty DEF Delta

\* The greater of a number and nothing.
LEMMA MaxZero ==
    ASSUME NEW d \in Int
    PROVE  Max({d, 0}) = IF d >= 0 THEN d ELSE 0
<1> DEFINE m == IF d >= 0 THEN d ELSE 0
<1>1. m \in {d, 0} /\ \A y \in {d, 0} : m >= y
  OBVIOUS
<1>2. \A x \in {d, 0} : (\A y \in {d, 0} : x >= y) => x = m
  OBVIOUS
<1>3. QED BY <1>1, <1>2 DEF Max

\* The row of a book after a batch.
LEMMA AdjustedRow ==
    ASSUME TypeOK, NEW items \in Seq([book : Books, qty : Int]), NEW b \in Books
    PROVE  /\ Adjusted(items, b) \in StockRow
           /\ stock[b] # NoRow => Adjusted(items, b).qty = Qty(stock[b]) + Delta(items, b)
           /\ stock[b] = NoRow =>
                 Adjusted(items, b).qty = IF Delta(items, b) >= 0 THEN Delta(items, b) ELSE 0
<1> PICK d \in Int : d = Delta(items, b)
  BY DeltaType
<1>1. CASE stock[b] = NoRow
  <2>1. Max({d, 0}) = (IF d >= 0 THEN d ELSE 0)
    BY MaxZero
  <2>2. Adjusted(items, b) = [id |-> nextId, qty |-> IF d >= 0 THEN d ELSE 0, cost |-> 0]
    BY <1>1, <2>1 DEF Adjusted
  <2>3. QED BY <1>1, <2>2 DEF StockRow, TypeOK
<1>2. CASE stock[b] # NoRow
  <2> PICK row \in StockRow : row = stock[b]
    BY <1>2 DEF TypeOK
  <2> PICK q \in Int : q = row.qty + d
    BY DEF StockRow
  <2>1. Adjusted(items, b) = [row EXCEPT !.qty = q]
    BY <1>2 DEF Adjusted
  <2>2. [row EXCEPT !.qty = q] \in StockRow /\ [row EXCEPT !.qty = q].qty = q
    BY DEF StockRow
  <2>3. QED BY <1>2, <2>1, <2>2 DEF Qty
<1>3. QED BY <1>1, <1>2

\* A batch of adjustments.
LEMMA ShapeBatch ==
    ASSUME Shape, NEW r \in Requests, AdjustBatch(r) PROVE Shape'
<1> PICK items \in Seq([book : Books, qty : Int]) : items = call[r].items
  BY Asked DEF AdjustBatch, At, Shape, Placed, StockSteps, Entrances, IsStockCall
<1> DEFINE named == {b \in Books : LinesOf(items, b) # {}}
<1>1. pc[r] = "batch" /\ nextId \in Nat /\ nextId' = nextId + 1
      /\ UNCHANGED <<purchases, sales, call, hand>>
  BY DEF AdjustBatch, At, Shape, TypeOK
<1>2. Records'
  BY <1>1 DEF Shape, Records
<1>3. ASSUME NEW how \in {"ValueError", "raised"}, Finish(r, how), UNCHANGED <<stock, base>>
      PROVE  Shape'
  BY <1>1, <1>2, <1>3, ShapeFinished DEF Shape, TypeOK, Replies
<1>4. ASSUME stock' = [b \in Books |-> IF b \in named THEN Adjusted(items, b) ELSE stock[b]],
             base' = [b \in Books |-> base[b] + Delta(items, b)], Finish(r, "ok")
      PROVE  Shape'
  <2>1. stock' \in [Books -> StockRow \cup {NoRow}]
    BY <1>4, AdjustedRow DEF Shape, TypeOK
  <2>2. ASSUME NEW b \in Books PROVE base[b] + Delta(items, b) \in Int
    <3>1. Delta(items, b) \in Int /\ base[b] \in Int
      BY DeltaType DEF Shape, TypeOK
    <3>2. QED BY <3>1
  <2>3. base' \in [Books -> Int]
    BY <1>4, <2>2
  <2>4. Finish(r, "ok") /\ nextId' \in Nat /\ hand' \in [Requests -> StockRow \cup {NoRow}]
    BY <1>1, <1>4 DEF Shape, TypeOK
  <2>5. QED BY <1>1, <1>2, <2>1, <2>3, <2>4, ShapeFinished DEF Replies
<1>5. QED BY <1>3, <1>4 DEF AdjustBatch, Delta

\* Every step of the stock.
LEMMA ShapeLedger ==
    ASSUME Shape, NEW r \in Requests, Transaction(r) \/ StockDomain(r) PROVE Shape'
BY ShapeReceive, ShapeSell, ShapeEdit, ShapeErase, ShapeAsks, ShapeWrite, ShapePrice, ShapeAdd, ShapeDelete,
   ShapeBatch DEF Transaction, StockDomain

\* A request that arrives is where its call sends it.
LEMMA ShapeArrive ==
    ASSUME Shape, NEW r \in Requests, Arrive(r) PROVE Shape'
<1> PICK c \in Traffic[r] :
      /\ call' = [call EXCEPT ![r] = c] /\ pc' = [pc EXCEPT ![r] = Start(c)]
      /\ reply' = [reply EXCEPT ![r] = IF BadRequest(c) THEN "error" ELSE @]
  BY DEF Arrive
<1>1. pc[r] = "idle" /\ UNCHANGED <<tables, hand>>
  BY DEF Arrive, At
<1>2. IsStockCall(c) \/ IsReportCall(c)
  BY TrafficAssumption
<1>3. /\ Start(c) \in Entrances => c.op = Start(c)
      /\ Start(c) \notin {"write", "price", "add", "idle"}
      /\ Start(c) = "report" => c.op \in ReportOps
      /\ Start(c) \in OverviewSteps => c.op = "overview"
      /\ Start(c) = "relocate" => c.op = "relocate"
      /\ Start(c) \in StockSteps \cup OverviewSteps \cup {"report", "relocate", "done"}
  <2>1. CASE BadRequest(c)
    BY <2>1 DEF Start, Entrances, OverviewSteps
  <2>2. CASE ~BadRequest(c) /\ c.op \in ReportOps
    BY <2>2 DEF Start, Entrances, OverviewSteps
  <2>3. CASE ~BadRequest(c) /\ c.op = "overview"
    <3>1. Start(c) \in {"tally", "locate"}
      BY <2>3 DEF Start, ReportOps, DashboardOps, InwardOps
    <3>2. QED BY <2>3, <3>1 DEF Entrances, OverviewSteps
  <2>4. CASE ~BadRequest(c) /\ c.op \notin ReportOps \cup {"overview"}
    <3>1. Start(c) = c.op
      BY <2>4 DEF Start
    <3>2. c.op \in Entrances \cup {"relocate"}
      BY <1>2, <2>4 DEF IsStockCall, IsReportCall, Entrances, ReportOps, BadRequest, OneShort
    <3>3. QED BY <3>1, <3>2 DEF Entrances, OverviewSteps, StockSteps
  <2>5. QED BY <2>1, <2>2, <2>3, <2>4
<1>4. TypeOK' /\ Records'
  <2>1. c \in Calls
    BY DEF Calls
  <2>2. QED BY <1>1, <1>3, <2>1 DEF Shape, TypeOK, Records, Replies, tables
<1>5. Elsewhere(r)
  BY <1>1 DEF Shape, TypeOK, Elsewhere
<1>6. Placed(r)'
  <2>1. pc'[r] = Start(c) /\ call'[r] = c
    BY DEF Shape, TypeOK
  <2>2. Start(c) # "done" => reply'[r] = "none"
    <3>1. reply[r] = "none"
      BY <1>1 DEF Shape, Placed
    <3>2. BadRequest(c) => Start(c) = "done"
      BY DEF Start
    <3>3. QED BY <3>1, <3>2 DEF Shape, TypeOK
  <2>3. QED BY <1>3, <2>1, <2>2 DEF Placed, StockSteps
<1>7. QED BY <1>4, <1>5, <1>6, PlacedOthers DEF Shape

\* A step of a report leaves the ledger alone.
LEMMA ShapeReads ==
    ASSUME Shape, NEW r \in Requests, Ask(r) \/ Answer(r) \/ Overview(r) \/ Relocate(r)
    PROVE  Shape'
<1>1. UNCHANGED <<tables, call, hand>> /\ Records'
  BY DEF Ask, Answer, Overview, Locate, Tally, Name, Total, Relocate, tables, Shape, Records
<1>2. /\ pc[r] \in OverviewSteps \cup {"report", "relocate"}
      /\ Overview(r) => pc[r] \in OverviewSteps
  BY DEF Ask, Answer, Overview, Locate, Tally, Name, Total, Relocate, At, OverviewSteps
<1>3. ASSUME NEW how \in Replies, Finish(r, how) PROVE Shape'
  BY <1>1, <1>2, <1>3, ShapeFinished DEF OverviewSteps, Shape, TypeOK, tables
<1>4. ASSUME UNCHANGED <<pc, reply>> PROVE Shape'
  BY <1>1, <1>4 DEF Shape, TypeOK, Placed, tables
<1>5. ASSUME NEW step \in OverviewSteps, Goto(r, step), Overview(r) PROVE Shape'
  <2>1. call[r] \in Traffic[r] /\ call[r].op = "overview" /\ reply[r] = "none"
    BY <1>2, <1>5 DEF Shape, Placed, OverviewSteps
  <2>2. pc'[r] = step /\ call'[r] = call[r] /\ reply' = reply
    BY <1>1, <1>5 DEF Shape, TypeOK, Goto
  <2>3. Placed(r)'
    BY <2>1, <2>2 DEF Placed, OverviewSteps, Entrances
  <2>4. QED BY <1>1, <1>5, <2>3, ShapeGoes DEF Shape, TypeOK, tables
<1>6. CASE Ask(r)
  BY <1>3, <1>4, <1>6 DEF Ask, Replies
<1>7. CASE Answer(r) \/ Relocate(r)
  BY <1>3, <1>7 DEF Answer, Relocate, Replies
<1>8. CASE Overview(r)
  BY <1>3, <1>4, <1>5, <1>8 DEF Overview, Locate, Tally, Name, Total, Replies, OverviewSteps
<1>9. QED BY <1>6, <1>7, <1>8

\* No step of a report changes the shape of the ledger.
LEMMA ShapeStep ==
    ASSUME Shape, [Next]_vars PROVE Shape'
<1>1. CASE UNCHANGED vars
  BY <1>1 DEF vars, Shape, TypeOK, Records, Placed
<1>2. CASE Next
  BY <1>2, ShapeLedger, ShapeArrive, ShapeReads DEF Next, Ledger
<1>3. QED BY <1>1, <1>2

-----------------------------------------------------------------------------
(* Units *)

\* Copies of a book among records are a number, and one record changes it by its own.
LEMMA UnitsStep ==
    ASSUME NEW rows, IsFiniteSet(rows), \A row \in rows : IsRecord(row), NEW b
    PROVE  /\ Units(rows, b) \in Nat
           /\ \A p : IsRecord(p) /\ p \notin rows =>
                 Units(rows \cup {p}, b) = Units(rows, b) + IF p.book = b THEN p.qty ELSE 0
           /\ \A p \in rows :
                 Units(rows \ {p}, b) = Units(rows, b) - IF p.book = b THEN p.qty ELSE 0
<1> DEFINE own(all) == {row \in all : row.book = b}
           qty(all) == [row \in all |-> row.qty]
<1>1. IsFiniteSet(own(rows)) /\ own(rows) \subseteq rows
  BY FS_Subset
<1>2. \A row \in own(rows) : qty(rows)[row] \in Nat
  BY DEF IsRecord
<1>3. Units(rows, b) = SumOver(own(rows), qty(rows)) /\ Units(rows, b) \in Nat
  BY <1>1, <1>2, SumNat DEF Units
<1>4. ASSUME NEW p, IsRecord(p), p \notin rows
      PROVE  Units(rows \cup {p}, b) = Units(rows, b) + IF p.book = b THEN p.qty ELSE 0
  <2> DEFINE all == rows \cup {p}
  <2>1. SumOver(own(rows), qty(all)) = SumOver(own(rows), qty(rows))
    BY <1>1, SumSame
  <2>2. CASE p.book = b
    <3>1. own(all) = own(rows) \cup {p} /\ p \notin own(rows)
      BY <1>4, <2>2
    <3>2. \A row \in own(rows) \cup {p} : qty(all)[row] \in Int
      BY <1>4 DEF IsRecord
    <3>3. qty(all)[p] = p.qty
      OBVIOUS
    <3> DEFINE S == own(rows)
               f == qty(all)
    <3>4. IsFiniteSet(S) /\ p \notin S /\ \A row \in S \cup {p} : f[row] \in Int
      BY <1>1, <3>1, <3>2
    <3> HIDE DEF S, f
    <3>5. SumOver(S \cup {p}, f) = SumOver(S, f) + f[p]
      BY <3>4, SumAdd
    <3>6. SumOver(own(all), qty(all)) = SumOver(own(rows), qty(rows)) + p.qty
      BY <2>1, <3>1, <3>3, <3>5 DEF S, f
    <3>7. QED BY <1>3, <2>2, <3>6 DEF Units
  <2>3. CASE p.book # b
    <3>1. own(all) = own(rows)
      BY <2>3
    <3>2. Units(rows \cup {p}, b) = SumOver(own(rows), qty(all))
      BY <3>1 DEF Units
    <3>3. QED BY <1>3, <2>1, <2>3, <3>2
  <2>4. QED BY <2>2, <2>3
<1>5. ASSUME NEW p \in rows
      PROVE  Units(rows \ {p}, b) = Units(rows, b) - IF p.book = b THEN p.qty ELSE 0
  <2> DEFINE rest == rows \ {p}
  <2>1. /\ IsFiniteSet(rest) /\ \A row \in rest : row \in rows
        /\ rows = rest \cup {p} /\ p \notin rest
    BY FS_RemoveElement
  <2>2. QED
    <3> DEFINE rowsOwn == own(rows)
               f == qty(rows)
    <3>1. SumOver(own(rest), qty(rest)) = SumOver(own(rest), qty(rows))
      BY <2>1, SumSame
    <3>2. CASE p.book = b
      <4>1. own(rest) = rowsOwn \ {p} /\ p \in rowsOwn /\ f[p] = p.qty
        BY <3>2
      <4>2. IsFiniteSet(rowsOwn) /\ \A row \in rowsOwn : f[row] \in Int
        BY <1>1, <1>2
      <4> HIDE DEF rowsOwn, f
      <4>3. SumOver(rowsOwn \ {p}, f) = SumOver(rowsOwn, f) - f[p]
        BY <4>1, <4>2, SumDrop
      <4>4. SumOver(own(rest), qty(rest)) = SumOver(own(rows), qty(rows)) - p.qty
        BY <3>1, <4>1, <4>3 DEF rowsOwn, f
      <4>5. QED BY <1>3, <3>2, <4>4 DEF Units
    <3>3. CASE p.book # b
      <4>1. own(rest) = own(rows)
        BY <3>3
      <4>2. Units(rows \ {p}, b) = SumOver(own(rows), qty(rest))
        BY <4>1 DEF Units
      <4>3. SumOver(own(rows), qty(rest)) = SumOver(own(rows), qty(rows))
        BY <3>1, <4>1
      <4>4. QED BY <1>3, <3>3, <4>2, <4>3
    <3>4. QED BY <3>2, <3>3
<1>6. QED BY <1>3, <1>4, <1>5

\* The records on file.
LEMMA ShapeInit ==
    ASSUME ReportInit PROVE Shape /\ NeverNegative /\ LedgerMatches
<1>1. /\ stock = [b \in Books |-> [id |-> RowId[b], cost |-> 1,
                                   qty |-> Opening[b] + Units(Bought, b) - Units(Sold, b)]]
      /\ purchases = Bought /\ sales = Sold /\ base = Opening
      /\ nextId = FirstId
  BY DEF ReportInit, StockInit
<1>2. \A b \in Books : /\ Units(Bought, b) \in Nat /\ Units(Sold, b) \in Nat
                       /\ Opening[b] \in Int /\ Opening[b] + Units(Bought, b) >= Units(Sold, b)
  BY LedgerAssumption, UnitsStep DEF IsSale
<1>3. Records /\ nextId \in Nat
  BY <1>1, LedgerAssumption DEF Records
<1>4. ASSUME NEW b \in Books
      PROVE  /\ stock[b] \in StockRow
             /\ Qty(stock[b]) = base[b] + Units(purchases, b) - Units(sales, b)
             /\ Qty(stock[b]) >= 0
  <2>1. stock[b] \in StockRow
           /\ stock[b].qty = base[b] + Units(purchases, b) - Units(sales, b) /\ stock[b].qty >= 0
    BY <1>1, <1>2, LedgerAssumption DEF StockRow
  <2>2. QED BY <2>1, LedgerAssumption DEF Qty
<1>5. TypeOK
  BY <1>1, <1>3, <1>4, LedgerAssumption DEF ReportInit, StockInit, TypeOK, Replies
<1>6. \A r \in Requests : Placed(r)
  BY DEF ReportInit, StockInit, Placed, Entrances, OverviewSteps
<1>7. QED BY <1>3, <1>4, <1>5, <1>6 DEF Shape, NeverNegative, LedgerMatches

-----------------------------------------------------------------------------
(* The ledger *)

Kept == NeverNegative /\ LedgerMatches

\* Of the adjustments, the purchases and the sales of a book, one moves at most.
OneMoves(b) ==
    \/ base'[b] = base[b] /\ Units(purchases', b) = Units(purchases, b)
    \/ base'[b] = base[b] /\ Units(sales', b) = Units(sales, b)
    \/ Units(purchases', b) = Units(purchases, b) /\ Units(sales', b) = Units(sales, b)

\* What a step does to a book: what is on hand stays above nothing, and moves as the
\* adjustments and the records do.
Moves(b) ==
    /\ OneMoves(b)
    /\ Qty(stock'[b]) = Qty(stock[b]) => Units(sales', b) = Units(sales, b)
    /\ Qty(stock'[b]) >= 0
    /\ b \notin overrun' =>
          /\ b \notin overrun
          /\ Qty(stock'[b]) - Qty(stock[b]) =
                (base'[b] - base[b]) + (Units(purchases', b) - Units(purchases, b))
                   - (Units(sales', b) - Units(sales, b))

\* All that is on hand or on record are whole numbers.
LEMMA Numbers ==
    ASSUME Shape, NEW b \in Books
    PROVE  /\ Qty(stock[b]) \in Int /\ base[b] \in Int
           /\ Units(purchases, b) \in Nat /\ Units(sales, b) \in Nat
<1>1. Units(purchases, b) \in Nat /\ Units(sales, b) \in Nat
  BY UnitsStep DEF Shape, Records, IsSale
<1>2. Qty(stock[b]) \in Int /\ base[b] \in Int
  BY QtyType DEF Shape, TypeOK
<1>3. QED BY <1>1, <1>2

\* The same after a step.
LEMMA NumbersNext ==
    ASSUME Shape', NEW b \in Books
    PROVE  /\ Qty(stock'[b]) \in Int /\ base'[b] \in Int
           /\ Units(purchases', b) \in Nat /\ Units(sales', b) \in Nat
<1>1. Units(purchases', b) \in Nat /\ Units(sales', b) \in Nat
  BY UnitsStep DEF Shape, Records, IsSale
<1>2. Qty(stock'[b]) \in Int /\ base'[b] \in Int
  <2>1. stock'[b] \in StockRow \cup {NoRow} /\ base'[b] \in Int
    BY DEF Shape, TypeOK
  <2>2. QED BY <2>1 DEF Qty, StockRow
<1>3. QED BY <1>1, <1>2

\* Books that move as their records do stay as the records tell.
LEMMA KeptByMoves ==
    ASSUME Shape, Shape', Kept, \A b \in Books : Moves(b)
    PROVE  Kept'
<1>1. ASSUME NEW b \in Books
      PROVE  /\ Qty(stock'[b]) >= 0
             /\ b \notin overrun' =>
                   Qty(stock'[b]) = base'[b] + Units(purchases', b) - Units(sales', b)
  <2>1. /\ Qty(stock'[b]) >= 0
        /\ b \notin overrun' =>
              /\ b \notin overrun
              /\ Qty(stock'[b]) - Qty(stock[b]) =
                    (base'[b] - base[b]) + (Units(purchases', b) - Units(purchases, b))
                       - (Units(sales', b) - Units(sales, b))
    BY DEF Moves
  <2>2. b \notin overrun => Qty(stock[b]) = base[b] + Units(purchases, b) - Units(sales, b)
    BY DEF Kept, LedgerMatches
  <2>3. /\ Qty(stock[b]) \in Int /\ base[b] \in Int
        /\ Units(purchases, b) \in Nat /\ Units(sales, b) \in Nat
    BY Numbers
  <2>4. /\ Qty(stock'[b]) \in Int /\ base'[b] \in Int
        /\ Units(purchases', b) \in Nat /\ Units(sales', b) \in Nat
    BY NumbersNext
  <2>5. ASSUME b \notin overrun'
        PROVE  Qty(stock'[b]) = base'[b] + Units(purchases', b) - Units(sales', b)
    <3>1. Qty(stock[b]) = base[b] + Units(purchases, b) - Units(sales, b)
      BY <2>1, <2>2, <2>5
    <3>2. Qty(stock'[b]) - Qty(stock[b]) =
             (base'[b] - base[b]) + (Units(purchases', b) - Units(purchases, b))
                - (Units(sales', b) - Units(sales, b))
      BY <2>1, <2>5
    <3>3. QED BY ONLY <2>3, <2>4, <3>1, <3>2
  <2>6. QED BY <2>1, <2>5
<1>2. QED BY <1>1 DEF Kept, NeverNegative, LedgerMatches

\* A book no step touches does not move.
LEMMA StaysPut ==
    ASSUME Shape, Kept, NEW b \in Books, stock'[b] = stock[b], base'[b] = base[b],
           b \notin overrun' => b \notin overrun,
           Units(purchases', b) = Units(purchases, b), Units(sales', b) = Units(sales, b)
    PROVE  Moves(b)
<1>1. Qty(stock[b]) >= 0
  BY DEF Kept, NeverNegative
<1>2. QED BY <1>1, Numbers DEF Moves, OneMoves

\* Receiving a purchase adds its copies.
LEMMA MovesReceive ==
    ASSUME Shape, Kept, NEW r \in Requests, Receive(r), NEW b \in Books PROVE Moves(b)
<1> DEFINE c == call[r]
           p == [c.row EXCEPT !.id = nextId]
<1>1. IsRecord(c.row) /\ nextId \in Nat
  BY Asked DEF Receive, At, Shape, TypeOK, Placed, Entrances, StockSteps, IsStockCall
<1>2. IsRecord(p) /\ p.id = nextId
  BY <1>1, NewRecord
<1>3. /\ purchases' = purchases \cup {p} /\ UNCHANGED <<sales, base, overrun>>
      /\ stock' = [stock EXCEPT ![p.book] = Stocked(@, p)] /\ nextId' = nextId + 1
  BY DEF Receive
<1> HIDE DEF p
<1>4. p \notin purchases
  BY <1>1, <1>2, <1>3, RecordsGrow DEF Shape
<1>5. Units(purchases', b) = Units(purchases, b) + IF p.book = b THEN p.qty ELSE 0
  BY <1>2, <1>3, <1>4, UnitsStep DEF Shape, Records
<1>6. p.book \in Books /\ p.qty \in Nat
  BY <1>2 DEF IsRecord
<1>7. Qty(stock'[p.book]) = Qty(stock[p.book]) + p.qty /\ \A a \in Books \ {p.book} : stock'[a] = stock[a]
  BY <1>1, <1>2, <1>3, <1>6, StockedRow DEF Shape, TypeOK
<1>8. CASE b = p.book
  <2>1. Qty(stock[b]) >= 0
    BY DEF Kept, NeverNegative
  <2>2. QED BY <1>3, <1>5, <1>6, <1>7, <1>8, <2>1, Numbers DEF Moves, OneMoves
<1>9. CASE b # p.book
  <2>1. Units(purchases', b) = Units(purchases, b)
    BY <1>5, <1>9, Numbers
  <2>2. QED BY <1>3, <1>7, <1>9, <2>1, StaysPut
<1>10. QED BY <1>8, <1>9

\* Selling takes the copies that are there.
LEMMA MovesSell ==
    ASSUME Shape, Kept, NEW r \in Requests, Sell(r), NEW b \in Books PROVE Moves(b)
<1> DEFINE c == call[r]
           s == [c.row EXCEPT !.id = nextId]
<1>1. IsSale(c.row) /\ IsRecord(c.row) /\ nextId \in Nat
  BY Asked DEF Sell, At, Shape, TypeOK, Placed, Entrances, StockSteps, IsStockCall, IsSale
<1>2. IsRecord(s) /\ s.id = nextId /\ s.book \in Books /\ s.qty \in Nat \ {0}
  BY <1>1, NewRecord DEF IsRecord
<1>3. UNCHANGED <<purchases, base, overrun>> /\ nextId' = nextId + 1
  BY DEF Sell
<1> HIDE DEF s
<1>4. s \notin sales
  BY <1>1, <1>2, <1>3, RecordsGrow DEF Shape
<1>5. CASE Qty(stock[s.book]) >= s.qty
  <2>1. stock' = [stock EXCEPT ![s.book].qty = @ - s.qty] /\ sales' = sales \cup {s}
    BY <1>5 DEF Sell, s
  <2>2. stock[s.book] # NoRow /\ Qty(stock[s.book]) = stock[s.book].qty
    BY <1>2, <1>5 DEF Qty
  <2>3. stock[s.book].qty - s.qty \in Int
    BY <1>2, <2>2, QtyType DEF Shape
  <2>4. /\ Qty(stock'[s.book]) = stock[s.book].qty - s.qty
        /\ \A a \in Books \ {s.book} : stock'[a] = stock[a]
    BY <1>2, <2>1, <2>2, <2>3, Requantified DEF Shape
  <2>5. Units(sales', b) = Units(sales, b) + IF s.book = b THEN s.qty ELSE 0
    BY <1>2, <1>4, <2>1, UnitsStep DEF Shape, Records, IsSale
  <2>6. CASE b = s.book
    BY <1>2, <1>3, <1>5, <2>2, <2>4, <2>5, <2>6, Numbers DEF Moves, OneMoves
  <2>7. CASE b # s.book
    <3>1. Units(sales', b) = Units(sales, b)
      BY <2>5, <2>7, Numbers
    <3>2. QED BY <1>3, <2>4, <2>7, <3>1, StaysPut
  <2>8. QED BY <2>6, <2>7
<1>6. CASE ~(Qty(stock[s.book]) >= s.qty)
  <2>1. UNCHANGED <<stock, sales>>
    BY <1>6 DEF Sell, s
  <2>2. QED BY <1>3, <2>1, StaysPut
<1>7. QED BY <1>5, <1>6

\* Editing a purchase moves what it was off the stock and what it is onto it.
LEMMA MovesEdit ==
    ASSUME Shape, Kept, NEW r \in Requests, Edit(r), NEW b \in Books PROVE Moves(b)
<1>1. UNCHANGED <<sales, base, overrun>> /\ nextId \in Nat /\ nextId' = nextId + 1
  BY Edits
<1>2. ASSUME NEW p \in purchases, NEW new, IsRecord(p), IsRecord(new), new.id = p.id,
             Allowed(p, new), stock' = Restocked(p, new),
             purchases' = (purchases \ {p}) \cup {new}
      PROVE  Moves(b)
  <2> DEFINE less == IF p.book = b THEN p.qty ELSE 0
             more == IF new.book = b THEN new.qty ELSE 0
             rest == purchases \ {p}
  <2>1. /\ Qty(stock'[b]) = Qty(stock[b]) - less + more
        /\ Qty(stock[b]) >= 0 => Qty(stock'[b]) >= 0
    BY <1>2, Restocking DEF Shape
  <2>2. new \notin rest /\ IsFiniteSet(rest) /\ \A row \in rest : IsRecord(row)
    BY <1>1, <1>2, Refiled DEF Shape, Records
  <2>3. Units(rest, b) = Units(purchases, b) - less
    BY UnitsStep DEF Shape, Records
  <2>4. Units(rest \cup {new}, b) = Units(rest, b) + more
    BY <1>2, <2>2, UnitsStep
  <2>5. less \in Nat /\ more \in Nat
    BY <1>2 DEF IsRecord
  <2> HIDE DEF less, more
  <2>6. Units(purchases', b) = Units(purchases, b) - less + more
    BY <1>2, <2>3, <2>4 DEF rest
  <2>7. Qty(stock[b]) >= 0
    BY DEF Kept, NeverNegative
  <2>8. QED BY <1>1, <2>1, <2>5, <2>6, <2>7, Numbers DEF Moves, OneMoves
<1>3. ASSUME UNCHANGED <<stock, purchases>> PROVE Moves(b)
  BY <1>1, <1>3, StaysPut
<1>4. QED BY <1>2, <1>3, Edits

\* Taking a purchase back takes the copies that are there.
LEMMA MovesErase ==
    ASSUME Shape, Kept, NEW r \in Requests, Erase(r), NEW b \in Books PROVE Moves(b)
<1>1. UNCHANGED <<sales, base, overrun>>
  BY DEF Erase
<1>2. ASSUME NEW p \in purchases, Qty(stock[p.book]) >= p.qty,
             stock' = [stock EXCEPT ![p.book].qty = @ - p.qty],
             purchases' = purchases \ {p}
      PROVE  Moves(b)
  <2>1. p.book \in Books /\ p.qty \in Nat \ {0}
    BY DEF Shape, Records, IsRecord
  <2>2. stock[p.book] # NoRow /\ Qty(stock[p.book]) = stock[p.book].qty
    BY <1>2, <2>1 DEF Qty
  <2>3. stock[p.book].qty - p.qty \in Int
    BY <2>1, <2>2, QtyType DEF Shape
  <2>4. /\ Qty(stock'[p.book]) = stock[p.book].qty - p.qty
        /\ \A a \in Books \ {p.book} : stock'[a] = stock[a]
    BY <1>2, <2>1, <2>2, <2>3, Requantified DEF Shape
  <2>5. Units(purchases', b) = Units(purchases, b) - IF p.book = b THEN p.qty ELSE 0
    BY <1>2, UnitsStep DEF Shape, Records
  <2>6. CASE b = p.book
    BY <1>1, <1>2, <2>1, <2>2, <2>4, <2>5, <2>6, Numbers DEF Moves, OneMoves
  <2>7. CASE b # p.book
    <3>1. Units(purchases', b) = Units(purchases, b)
      BY <2>5, <2>7, Numbers
    <3>2. QED BY <1>1, <2>4, <2>7, <3>1, StaysPut
  <2>8. QED BY <2>6, <2>7
<1>3. ASSUME UNCHANGED <<stock, purchases>> PROVE Moves(b)
  BY <1>1, <1>3, StaysPut
<1>4. QED BY <1>2, <1>3 DEF Erase

\* A row written back holds no less than nothing, and what came in between is told of.
LEMMA MovesWrite ==
    ASSUME Shape, Kept, NEW r \in Requests, Write(r), NEW b \in Books PROVE Moves(b)
<1> DEFINE c == call[r]
           a == c.book
<1>1. /\ c.book \in Books /\ c.delta \in Int /\ hand[r] \in StockRow
      /\ hand[r].qty + c.delta >= 0
  BY Asked DEF Write, At, Shape, Placed, StockSteps, IsStockCall
<1>2. UNCHANGED <<purchases, sales>>
  BY DEF Write
<1>3. CASE UNCHANGED <<stock, base, overrun>>
  BY <1>2, <1>3, StaysPut
<1>4. CASE /\ ~Replaced(r, a)
           /\ stock' = [stock EXCEPT ![a].qty = hand[r].qty + c.delta]
           /\ base' = [base EXCEPT ![a] = @ + c.delta]
           /\ overrun' = IF stock[a].qty = hand[r].qty THEN overrun ELSE overrun \cup {a}
  <2>1. stock[a] # NoRow /\ hand[r].qty + c.delta \in Int /\ hand[r].qty \in Int
    BY <1>1, <1>4 DEF Replaced, StockRow
  <2>2. Qty(stock'[a]) = hand[r].qty + c.delta /\ \A d \in Books \ {a} : stock'[d] = stock[d]
    BY <1>1, <1>4, <2>1, Requantified DEF Shape
  <2>3. base'[a] = base[a] + c.delta /\ \A d \in Books \ {a} : base'[d] = base[d]
    BY <1>1, <1>4 DEF Shape, TypeOK
  <2>4. b \notin overrun' => b \notin overrun
    BY <1>4
  <2>5. CASE b = a
    <3>1. a \notin overrun' => Qty(stock[a]) = hand[r].qty
      BY <1>4, <2>1 DEF Qty
    <3>2. QED BY <1>1, <1>2, <2>1, <2>2, <2>3, <2>4, <2>5, <3>1, Numbers DEF Moves, OneMoves
  <2>6. CASE b # a
    BY <1>2, <2>2, <2>3, <2>4, <2>6, StaysPut
  <2>7. QED BY <2>5, <2>6
<1>5. QED BY <1>3, <1>4 DEF Write

\* A new price moves nothing.
LEMMA MovesPrice ==
    ASSUME Shape, Kept, NEW r \in Requests, Price(r), NEW b \in Books PROVE Moves(b)
<1> DEFINE a == call[r].book
<1>1. UNCHANGED <<purchases, sales, base, overrun>>
  BY DEF Price
<1>2. CASE Replaced(r, a)
  BY <1>1, <1>2, StaysPut DEF Price
<1>3. CASE ~Replaced(r, a)
  <2>1. a \in Books /\ call[r].cost \in Int
    BY Asked DEF Price, At, Shape, Placed, StockSteps, IsStockCall
  <2> PICK row \in StockRow : row = stock[a]
    BY <1>3, <2>1 DEF Replaced, Shape, TypeOK
  <2> DEFINE new == [row EXCEPT !.cost = call[r].cost]
  <2>2. new.qty = row.qty /\ new \in StockRow /\ NoRow \notin StockRow
    BY <2>1, LedgerAssumption DEF StockRow
  <2>3. stock' = [stock EXCEPT ![a] = new]
    BY <1>3 DEF Price
  <2> HIDE DEF new
  <2>4. Qty(stock'[b]) = Qty(stock[b])
    BY <2>1, <2>2, <2>3 DEF Qty, Shape, TypeOK
  <2>5. Qty(stock[b]) >= 0
    BY DEF Kept, NeverNegative
  <2>6. QED BY <1>1, <2>4, <2>5, Numbers DEF Moves, OneMoves
<1>4. QED BY <1>2, <1>3

\* A new row is an adjustment.
LEMMA MovesAdd ==
    ASSUME Shape, Kept, NEW r \in Requests, Add(r), NEW b \in Books PROVE Moves(b)
<1> DEFINE c == call[r]
           a == c.book
           new == [id |-> nextId, qty |-> c.qty, cost |-> 0]
<1>1. a \in Books /\ c.qty \in Int /\ c.qty >= 0
  BY Asked DEF Add, At, Shape, Placed, StockSteps, IsStockCall
<1>2. UNCHANGED <<purchases, sales, overrun>>
  BY DEF Add
<1>3. CASE stock[a] # NoRow
  BY <1>2, <1>3, StaysPut DEF Add
<1>4. CASE stock[a] = NoRow
  <2>1. stock' = [stock EXCEPT ![a] = new] /\ base' = [base EXCEPT ![a] = @ + c.qty]
    BY <1>4 DEF Add
  <2>2. new \in StockRow /\ new.qty = c.qty /\ NoRow \notin StockRow
    BY <1>1, LedgerAssumption DEF StockRow, Shape, TypeOK
  <2> HIDE DEF new
  <2>3. /\ Qty(stock'[a]) = c.qty /\ \A d \in Books \ {a} : stock'[d] = stock[d]
        /\ base'[a] = base[a] + c.qty /\ \A d \in Books \ {a} : base'[d] = base[d]
    BY <1>1, <2>1, <2>2 DEF Qty, Shape, TypeOK
  <2>4. CASE b = a
    <3>1. Qty(stock[a]) = 0
      BY <1>4 DEF Qty
    <3>2. QED BY <1>1, <1>2, <2>3, <2>4, <3>1, Numbers DEF Moves, OneMoves
  <2>5. CASE b # a
    BY <1>2, <2>3, <2>5, StaysPut
  <2>6. QED BY <2>4, <2>5
<1>5. QED BY <1>3, <1>4

\* A deleted row takes its copies off the books.
LEMMA MovesDelete ==
    ASSUME Shape, Kept, NEW r \in Requests, DeleteStock(r), NEW b \in Books PROVE Moves(b)
<1> DEFINE gone == {a \in Books : stock[a] # NoRow /\ stock[a].id = call[r].id}
<1>1. /\ stock' = [a \in Books |-> IF a \in gone THEN NoRow ELSE stock[a]]
      /\ base' = [a \in Books |-> IF a \in gone THEN base[a] - Qty(stock[a]) ELSE base[a]]
      /\ UNCHANGED <<purchases, sales, overrun>>
  BY DEF DeleteStock
<1> HIDE DEF gone
<1>2. CASE b \in gone
  <2>1. Qty(stock'[b]) = 0 /\ base'[b] = base[b] - Qty(stock[b])
    BY <1>1, <1>2 DEF Qty
  <2>2. QED BY <1>1, <2>1, Numbers DEF Moves, OneMoves
<1>3. CASE b \notin gone
  BY <1>1, <1>3, StaysPut
<1>4. QED BY <1>2, <1>3

\* A batch moves every book by what its items add up to.
LEMMA MovesBatch ==
    ASSUME Shape, Kept, NEW r \in Requests, AdjustBatch(r), NEW b \in Books PROVE Moves(b)
<1> PICK items \in Seq([book : Books, qty : Int]) : items = call[r].items
  BY Asked DEF AdjustBatch, At, Shape, Placed, StockSteps, Entrances, IsStockCall
<1> DEFINE named == {a \in Books : LinesOf(items, a) # {}}
<1>1. UNCHANGED <<purchases, sales>>
  BY DEF AdjustBatch
<1>2. ASSUME UNCHANGED <<stock, base, overrun>> PROVE Moves(b)
  BY <1>1, <1>2, StaysPut
<1>3. ASSUME stock' = [a \in Books |-> IF a \in named THEN Adjusted(items, a) ELSE stock[a]],
             base' = [a \in Books |-> base[a] + Delta(items, a)],
             overrun' = overrun \cup {a \in named : stock[a] = NoRow /\ Delta(items, a) < 0},
             \A a \in named : ~(stock[a] # NoRow /\ Adjusted(items, a).qty < 0)
      PROVE  Moves(b)
  <2> PICK d \in Int : d = Delta(items, b)
    BY DeltaType
  <2>1. base'[b] = base[b] + d
    BY <1>3
  <2>2. b \notin overrun' => b \notin overrun
    BY <1>3
  <2>3. CASE b \in named
    <3>1. stock'[b] = Adjusted(items, b)
      BY <1>3, <2>3
    <3> PICK row \in StockRow : row = stock'[b]
      BY <3>1, AdjustedRow DEF Shape
    <3>2. Qty(stock'[b]) = row.qty /\ row.qty \in Int
      BY LedgerAssumption DEF Qty, StockRow
    <3>3. CASE stock[b] = NoRow
      <4>1. Qty(stock[b]) = 0 /\ row.qty = IF d >= 0 THEN d ELSE 0
        BY <3>1, <3>3, AdjustedRow DEF Shape, Qty
      <4>2. b \notin overrun' => d >= 0
        BY <1>3, <2>3, <3>3
      <4>3. QED BY <1>1, <2>1, <2>2, <3>2, <4>1, <4>2, Numbers DEF Moves, OneMoves
    <3>4. CASE stock[b] # NoRow
      <4>1. ~(Adjusted(items, b).qty < 0)
        BY <1>3, <2>3, <3>4
      <4>2. row.qty = Qty(stock[b]) + d
        BY <3>1, <3>4, AdjustedRow DEF Shape
      <4>3. row.qty >= 0
        BY <3>1, <3>2, <4>1
      <4>4. QED BY <1>1, <2>1, <2>2, <3>2, <4>2, <4>3, Numbers DEF Moves, OneMoves
    <3>5. QED BY <3>3, <3>4
  <2>4. CASE b \notin named
    <3>1. d = 0
      BY <2>4, DeltaType
    <3>2. stock'[b] = stock[b]
      BY <1>3, <2>4
    <3>3. base'[b] = base[b]
      BY <2>1, <3>1, Numbers
    <3>4. QED BY <1>1, <2>2, <3>2, <3>3, StaysPut
  <2>5. QED BY <2>3, <2>4
<1>4. QED BY <1>2, <1>3 DEF AdjustBatch, Delta

\* Every step of the stock moves a book as the adjustments and the records move.
LEMMA LedgerMoves ==
    ASSUME Shape, Kept, NEW r \in Requests, Transaction(r) \/ StockDomain(r), NEW b \in Books
    PROVE  Moves(b)
<1>1. CASE AdjustStock(r) \/ UpdateCost(r) \/ CreateStock(r)
  <2>1. UNCHANGED tables
    BY <1>1 DEF AdjustStock, UpdateCost, CreateStock
  <2>2. QED BY <2>1, StaysPut DEF tables
<1>2. CASE ~(AdjustStock(r) \/ UpdateCost(r) \/ CreateStock(r))
  BY <1>2, MovesReceive, MovesSell, MovesEdit, MovesErase, MovesWrite, MovesPrice, MovesAdd,
     MovesDelete, MovesBatch DEF Transaction, StockDomain
<1>3. QED BY <1>1, <1>2

\* A step of the stock keeps the ledger.
LEMMA KeptLedger ==
    ASSUME Shape, Shape', Kept, NEW r \in Requests, Transaction(r) \/ StockDomain(r)
    PROVE  Kept'
BY LedgerMoves, KeptByMoves

\* Every step keeps the ledger.
LEMMA KeptStep ==
    ASSUME Shape, Kept, [Next]_vars PROVE Kept'
<1>1. CASE UNCHANGED tables
  BY <1>1 DEF tables, Kept, NeverNegative, LedgerMatches
<1>2. ASSUME NEW r \in Requests, Ledger(r) PROVE Kept'
  BY <1>2, KeptLedger, ShapeStep DEF Ledger
<1>3. QED
  BY <1>1, <1>2 DEF Next, vars, tables, Arrive, Ask, Answer, Overview, Locate, Tally, Name, Total,
     Relocate

\* The ledger is kept from the start.
LEMMA LedgerKept == Spec => []Kept
<1>1. ReportInit => Shape /\ Kept
  BY ShapeInit DEF Kept
<1>2. Shape /\ Kept /\ [Next]_vars => (Shape /\ Kept)'
  BY ShapeStep, KeptStep
<1>3. QED BY <1>1, <1>2, PTL DEF Spec

\* Whatever is sold, received, taken back, adjusted and batched, and however the two
\* round trips of an adjustment lie among the others, no book is ever below zero.
THEOREM NeverBelowZero == Spec => []NeverNegative
<1>1. Kept => NeverNegative
  BY DEF Kept
<1>2. QED BY <1>1, LedgerKept, PTL

\* What is on hand of a book is what the records and the adjustments add up to, as
\* long as no adjustment was written over something that came between.
THEOREM LedgerHolds == Spec => []LedgerMatches
<1>1. Kept => LedgerMatches
  BY DEF Kept
<1>2. QED BY <1>1, LedgerKept, PTL

-----------------------------------------------------------------------------
(* Plans *)

\* What a label is the answer of.
Labelled(q) ==
    /\ q.of \in {"sales", "purchases", "stock", "sellers"}
    /\ q.label \in {"kpi", "sold", "dist", "top", "feed"} => q.of = "sales"
    /\ q.label = "sellers" <=> q.of = "sellers"
    /\ q.label = "stock" => q.of = "stock"
    /\ q.label = "purchases" => q.of = "purchases"

\* No plan uses a label twice, and the sellers come after the sales they are read with.
InOrder(p) ==
    /\ \E S : p \in Seq(S)
    /\ \A i \in 1 .. Len(p) : Labelled(p[i])
    /\ \A i, j \in 1 .. Len(p) :
          /\ p[i].label = p[j].label => i = j
          /\ p[j].label = "sellers" /\ p[i].label \in {"feed", "dist"} => i < j

\* Two sequences, one after the other.
LEMMA Joined ==
    ASSUME NEW S, NEW s \in Seq(S), NEW t \in Seq(S), NEW u \in Seq(S),
           Len(u) = Len(s) + Len(t), \A i \in 1 .. Len(s) : u[i] = s[i],
           \A i \in 1 .. Len(t) : u[Len(s) + i] = t[i]
    PROVE  s \o t = u
<1> DEFINE j == s \o t
<1>1. j \in Seq(S) /\ Len(j) = Len(u)
      /\ \A i \in 1 .. Len(s) + Len(t) : j[i] = IF i <= Len(s) THEN s[i] ELSE t[i - Len(s)]
  BY ConcatProperties
<1>2. Len(s) \in Nat /\ Len(t) \in Nat /\ Len(u) \in Nat
  OBVIOUS
<1> HIDE DEF j
<1>3. ASSUME NEW i \in 1 .. Len(u) PROVE j[i] = u[i]
  <2>1. CASE i <= Len(s)
    BY <1>1, <1>2, <2>1
  <2>2. CASE ~(i <= Len(s))
    <3>1. i - Len(s) \in 1 .. Len(t) /\ Len(s) + (i - Len(s)) = i
      BY <1>2, <2>2
    <3>2. u[i] = t[i - Len(s)]
      BY <3>1
    <3>3. QED BY <1>1, <1>2, <2>2, <3>2
  <2>3. QED BY <2>1, <2>2
<1>4. j = u
  BY <1>1, <1>2, <1>3, SeqEqual
<1>5. QED BY <1>4 DEF j

\* The parts of a dashboard's plan, one after the other.
LEMMA Parts ==
    /\ \A a, b, c, d : <<a>> \o <<b, c, d>> = <<a, b, c, d>>
    /\ \A a, b, c, d, e : <<a, b, c, d>> \o <<e>> = <<a, b, c, d, e>>
    /\ \A a, b, c, d, e, f, g : <<a, b, c, d, e>> \o <<f, g>> = <<a, b, c, d, e, f, g>>
    /\ \A a, b, c, d, f, g : <<a, b, c, d>> \o <<f, g>> = <<a, b, c, d, f, g>>
    /\ \A a, b, c, d : <<a, b, c, d>> \o <<>> = <<a, b, c, d>>
<1>1. ASSUME NEW a, NEW b, NEW c, NEW d
      PROVE  <<a>> \o <<b, c, d>> = <<a, b, c, d>>
  <2> DEFINE S == {a, b, c, d}
             s == <<a>>
             t == <<b, c, d>>
             u == <<a, b, c, d>>
  <2>1. s \in Seq(S) /\ t \in Seq(S) /\ u \in Seq(S)
    OBVIOUS
  <2>2. /\ Len(u) = Len(s) + Len(t) /\ \A i \in 1 .. Len(s) : u[i] = s[i]
        /\ \A i \in 1 .. Len(t) : u[Len(s) + i] = t[i]
    OBVIOUS
  <2> HIDE DEF S, s, t, u
  <2>3. s \o t = u
    BY <2>1, <2>2, Joined
  <2>4. QED BY <2>3 DEF s, t, u
<1>2. ASSUME NEW a, NEW b, NEW c, NEW d, NEW e
      PROVE  <<a, b, c, d>> \o <<e>> = <<a, b, c, d, e>>
  <2> DEFINE S == {a, b, c, d, e}
             s == <<a, b, c, d>>
             t == <<e>>
             u == <<a, b, c, d, e>>
  <2>1. s \in Seq(S) /\ t \in Seq(S) /\ u \in Seq(S)
    OBVIOUS
  <2>2. /\ Len(u) = Len(s) + Len(t) /\ \A i \in 1 .. Len(s) : u[i] = s[i]
        /\ \A i \in 1 .. Len(t) : u[Len(s) + i] = t[i]
    OBVIOUS
  <2> HIDE DEF S, s, t, u
  <2>3. s \o t = u
    BY <2>1, <2>2, Joined
  <2>4. QED BY <2>3 DEF s, t, u
<1>3. ASSUME NEW a, NEW b, NEW c, NEW d, NEW e, NEW f, NEW g
      PROVE  <<a, b, c, d, e>> \o <<f, g>> = <<a, b, c, d, e, f, g>>
  <2> DEFINE S == {a, b, c, d, e, f, g}
             s == <<a, b, c, d, e>>
             t == <<f, g>>
             u == <<a, b, c, d, e, f, g>>
  <2>1. s \in Seq(S) /\ t \in Seq(S) /\ u \in Seq(S)
    OBVIOUS
  <2>2. /\ Len(u) = Len(s) + Len(t) /\ \A i \in 1 .. Len(s) : u[i] = s[i]
        /\ \A i \in 1 .. Len(t) : u[Len(s) + i] = t[i]
    OBVIOUS
  <2> HIDE DEF S, s, t, u
  <2>3. s \o t = u
    BY <2>1, <2>2, Joined
  <2>4. QED BY <2>3 DEF s, t, u
<1>4. ASSUME NEW a, NEW b, NEW c, NEW d, NEW f, NEW g
      PROVE  <<a, b, c, d>> \o <<f, g>> = <<a, b, c, d, f, g>>
  <2> DEFINE S == {a, b, c, d, f, g}
             s == <<a, b, c, d>>
             t == <<f, g>>
             u == <<a, b, c, d, f, g>>
  <2>1. s \in Seq(S) /\ t \in Seq(S) /\ u \in Seq(S)
    OBVIOUS
  <2>2. /\ Len(u) = Len(s) + Len(t) /\ \A i \in 1 .. Len(s) : u[i] = s[i]
        /\ \A i \in 1 .. Len(t) : u[Len(s) + i] = t[i]
    OBVIOUS
  <2> HIDE DEF S, s, t, u
  <2>3. s \o t = u
    BY <2>1, <2>2, Joined
  <2>4. QED BY <2>3 DEF s, t, u
<1>5. ASSUME NEW a, NEW b, NEW c, NEW d
      PROVE  <<a, b, c, d>> \o <<>> = <<a, b, c, d>>
  <2>1. <<a, b, c, d>> \in Seq({a, b, c, d})
    OBVIOUS
  <2>2. QED BY <2>1, ConcatEmptySeq
<1>6. QED BY <1>1, <1>2, <1>3, <1>4, <1>5

\* The queries of a dashboard: each of its sections, and the sellers.
TopFilter(c) == Pinned(ReadFilters(c.params, "books"), c)
KpiFilter(c) == Pinned(ReadFilters(c.params, "page"), c)
InventoryFilter(c) == ReadFilters(c.params, "inv")
Received(f) ==
    Purchases([from |-> f.from, to |-> f.to, by |-> Anybody, book |-> Anybody], NoLimit)
SoldTo(f) == SalesRows("sold", [f EXCEPT !.seller = Anybody])
Kpi(c) == SalesRows("kpi", KpiFilter(c))
Dist(c) == SalesRows("dist", ReadFilters(c.params, "dist"))
Top(c) == SalesRows("top", TopFilter(c))
Feed(c) == Query("feed", "sales", c.filter, FeedLimit)

\* The plan of each report.
LEMMA PlanIs ==
    ASSUME NEW c
    PROVE  /\ c.op = "dashboard" /\ c.admin =>
                Plan(c) = <<Kpi(c), Stock, Received(InventoryFilter(c)),
                            SoldTo(InventoryFilter(c)), Dist(c), Top(c), Sellers>>
           /\ c.op = "dashboard" /\ ~c.admin =>
                Plan(c) = <<Kpi(c), Stock, Received(InventoryFilter(c)),
                            SoldTo(InventoryFilter(c)), Top(c), Sellers>>
           /\ c.op = "leaderboard" => Plan(c) = <<Dist(c)>>
           /\ c.op = "top books" => Plan(c) = <<Top(c)>>
           /\ c.op = "inventory" =>
                Plan(c) = <<Stock, Received(InventoryFilter(c)), SoldTo(InventoryFilter(c))>>
           /\ c.op = "sell page" => Plan(c) = <<Feed(c), Sellers, Stock>>
           /\ c.op = "inward page" => Plan(c) = <<Purchases(c.filter, FeedLimit)>>
           /\ c.op = "inward export" => Plan(c) = <<Purchases(c.filter, NoLimit)>>
           /\ c.op \notin ReportOps => Plan(c) = <<>>
<1>1. InventoryPlan(InventoryFilter(c)) =
         <<Stock, Received(InventoryFilter(c)), SoldTo(InventoryFilter(c))>>
  BY DEF InventoryPlan, Received, SoldTo
<1>2. CASE c.op = "dashboard"
  <2> PICK kpi, stk, bought, sold, dist, top, sellers :
        /\ kpi = Kpi(c) /\ stk = Stock /\ bought = Received(InventoryFilter(c))
        /\ sold = SoldTo(InventoryFilter(c)) /\ dist = Dist(c) /\ top = Top(c) /\ sellers = Sellers
    OBVIOUS
  <2>1. Plan(c) = <<kpi>> \o <<stk, bought, sold>> \o (IF c.admin THEN <<dist>> ELSE <<>>)
                     \o <<top, sellers>>
    BY <1>1, <1>2 DEF Plan, DashboardPlan, Kpi, Dist, Top, KpiFilter, TopFilter, InventoryFilter
  <2>2. /\ <<kpi>> \o <<stk, bought, sold>> \o <<dist>> \o <<top, sellers>>
              = <<kpi, stk, bought, sold, dist, top, sellers>>
        /\ <<kpi>> \o <<stk, bought, sold>> \o <<>> \o <<top, sellers>>
              = <<kpi, stk, bought, sold, top, sellers>>
    <3>1. <<kpi>> \o <<stk, bought, sold>> = <<kpi, stk, bought, sold>>
      BY ONLY Parts
    <3>2. <<kpi, stk, bought, sold>> \o <<dist>> = <<kpi, stk, bought, sold, dist>>
      BY ONLY Parts
    <3>3. <<kpi, stk, bought, sold, dist>> \o <<top, sellers>>
            = <<kpi, stk, bought, sold, dist, top, sellers>>
      BY ONLY Parts
    <3>4. <<kpi, stk, bought, sold>> \o <<>> = <<kpi, stk, bought, sold>>
      BY ONLY Parts
    <3>5. <<kpi, stk, bought, sold>> \o <<top, sellers>>
            = <<kpi, stk, bought, sold, top, sellers>>
      BY ONLY Parts
    <3>6. QED BY ONLY <3>1, <3>2, <3>3, <3>4, <3>5
  <2>3. /\ c.admin => Plan(c) = <<kpi, stk, bought, sold, dist, top, sellers>>
        /\ ~c.admin => Plan(c) = <<kpi, stk, bought, sold, top, sellers>>
    BY <2>1, <2>2
  <2>4. QED BY <1>2, <2>3 DEF ReportOps, DashboardOps
<1>3. CASE c.op \in ReportOps \ {"dashboard"}
  BY <1>1, <1>3 DEF Plan, LeaderboardExport, TopBooksExport, InventoryExport, SellPage, InwardPage,
     InwardExport, ReportOps, DashboardOps, InwardOps, Dist, Top, TopFilter, InventoryFilter, Feed
<1>4. CASE c.op \notin ReportOps
  BY <1>4 DEF Plan, ReportOps, DashboardOps, InwardOps
<1>5. QED BY <1>2, <1>3, <1>4

\* What a query asks, by its label.
LEMMA QueryLabels ==
    /\ \A c : /\ Kpi(c).label = "kpi" /\ Kpi(c).of = "sales" /\ Kpi(c).limit = NoLimit
              /\ Kpi(c).filter = KpiFilter(c)
    /\ \A c : /\ Dist(c).label = "dist" /\ Dist(c).of = "sales" /\ Dist(c).limit = NoLimit
              /\ Dist(c).filter = ReadFilters(c.params, "dist")
    /\ \A c : /\ Top(c).label = "top" /\ Top(c).of = "sales" /\ Top(c).limit = NoLimit
              /\ Top(c).filter = TopFilter(c)
    /\ \A f : /\ SoldTo(f).label = "sold" /\ SoldTo(f).of = "sales" /\ SoldTo(f).limit = NoLimit
              /\ SoldTo(f).filter = [f EXCEPT !.seller = Anybody]
    /\ \A c : Feed(c).label = "feed" /\ Feed(c).of = "sales"
    /\ \A f : /\ Received(f).label = "purchases" /\ Received(f).of = "purchases"
              /\ Received(f).limit = NoLimit
    /\ Stock.label = "stock" /\ Stock.of = "stock"
    /\ Sellers.label = "sellers" /\ Sellers.of = "sellers"
BY DEF Kpi, Dist, Top, SoldTo, Feed, Purchases, Received, Stock, Sellers, SalesRows, Query

\* Every plan is in order.
LEMMA Plans == ASSUME NEW c PROVE InOrder(Plan(c))
<1>1. ASSUME NEW kpi, NEW stk, NEW bought, NEW sold, NEW dist, NEW top, NEW sellers,
             kpi.label = "kpi", kpi.of = "sales", stk.label = "stock", stk.of = "stock",
             bought.label = "purchases", bought.of = "purchases",
             sold.label = "sold", sold.of = "sales", dist.label = "dist", dist.of = "sales",
             top.label = "top", top.of = "sales", sellers.label = "sellers", sellers.of = "sellers"
      PROVE  /\ InOrder(<<kpi, stk, bought, sold, dist, top, sellers>>)
             /\ InOrder(<<kpi, stk, bought, sold, top, sellers>>)
             /\ InOrder(<<stk, bought, sold>>)
             /\ InOrder(<<dist>>) /\ InOrder(<<top>>) /\ InOrder(<<bought>>) /\ InOrder(<<>>)
  <2> DEFINE S == {kpi, stk, bought, sold, dist, top, sellers}
  <2>1. InOrder(<<kpi, stk, bought, sold, dist, top, sellers>>)
    <3> DEFINE p == <<kpi, stk, bought, sold, dist, top, sellers>>
    <3>1. p \in Seq(S) /\ Len(p) = 7
      OBVIOUS
    <3>2. p[1] = kpi /\ p[2] = stk /\ p[3] = bought /\ p[4] = sold /\ p[5] = dist /\ p[6] = top
          /\ p[7] = sellers
      OBVIOUS
    <3> HIDE DEF p, S
    <3>3. \A i \in 1 .. 7 : Labelled(p[i])
      BY <1>1, <3>2 DEF Labelled
    <3>4. \A i, j \in 1 .. 7 : p[i].label = p[j].label => i = j
      BY <1>1, <3>2
    <3>5. \A i, j \in 1 .. 7 : p[j].label = "sellers" /\ p[i].label \in {"feed", "dist"} => i < j
      BY <1>1, <3>2
    <3>6. InOrder(p)
      BY <3>1, <3>3, <3>4, <3>5 DEF InOrder
    <3>7. QED BY <3>6 DEF p
  <2>2. InOrder(<<kpi, stk, bought, sold, top, sellers>>)
    <3> DEFINE p == <<kpi, stk, bought, sold, top, sellers>>
    <3>1. p \in Seq(S) /\ Len(p) = 6
      OBVIOUS
    <3>2. p[1] = kpi /\ p[2] = stk /\ p[3] = bought /\ p[4] = sold /\ p[5] = top /\ p[6] = sellers
      OBVIOUS
    <3> HIDE DEF p, S
    <3>3. \A i \in 1 .. 6 : Labelled(p[i])
      BY <1>1, <3>2 DEF Labelled
    <3>4. \A i, j \in 1 .. 6 : p[i].label = p[j].label => i = j
      BY <1>1, <3>2
    <3>5. \A i, j \in 1 .. 6 : p[j].label = "sellers" /\ p[i].label \in {"feed", "dist"} => i < j
      BY <1>1, <3>2
    <3>6. InOrder(p)
      BY <3>1, <3>3, <3>4, <3>5 DEF InOrder
    <3>7. QED BY <3>6 DEF p
  <2>3. InOrder(<<stk, bought, sold>>)
    <3> DEFINE p == <<stk, bought, sold>>
    <3>1. p \in Seq(S) /\ Len(p) = 3 /\ p[1] = stk /\ p[2] = bought /\ p[3] = sold
      OBVIOUS
    <3> HIDE DEF p, S
    <3>2. InOrder(p)
      BY <1>1, <3>1 DEF InOrder, Labelled
    <3>3. QED BY <3>2 DEF p
  <2>4. ASSUME NEW q \in {dist, top, bought} PROVE InOrder(<<q>>)
    <3> DEFINE p == <<q>>
    <3>1. p \in Seq(S) /\ Len(p) = 1 /\ p[1] = q
      OBVIOUS
    <3>2. Labelled(q) /\ (q.label = "sellers" => q.label \notin {"feed", "dist"})
      BY <1>1 DEF Labelled
    <3> HIDE DEF p, S
    <3>3. InOrder(p)
      BY <3>1, <3>2 DEF InOrder
    <3>4. QED BY <3>3 DEF p
  <2>5. InOrder(<<>>)
    <3>1. <<>> \in Seq(S) /\ Len(<<>>) = 0
      OBVIOUS
    <3>2. QED BY <3>1 DEF InOrder
  <2>6. QED BY <2>1, <2>2, <2>3, <2>4, <2>5
<1>2. ASSUME NEW feed, NEW sellers, NEW stk,
             feed.label = "feed", feed.of = "sales", sellers.label = "sellers",
             sellers.of = "sellers", stk.label = "stock", stk.of = "stock"
      PROVE  InOrder(<<feed, sellers, stk>>)
  <2> DEFINE S == {feed, sellers, stk}
             p == <<feed, sellers, stk>>
  <2>1. p \in Seq(S) /\ Len(p) = 3 /\ p[1] = feed /\ p[2] = sellers /\ p[3] = stk
    OBVIOUS
  <2> HIDE DEF p, S
  <2>2. InOrder(p)
    BY <1>2, <2>1 DEF InOrder, Labelled
  <2>3. QED BY <2>2 DEF p
<1> PICK kpi, stk, bought, sold, dist, top, sellers, feed :
      /\ kpi = Kpi(c) /\ stk = Stock /\ bought = Received(InventoryFilter(c))
      /\ sold = SoldTo(InventoryFilter(c)) /\ dist = Dist(c) /\ top = Top(c) /\ sellers = Sellers
      /\ feed = Feed(c)
  OBVIOUS
<1>3. /\ kpi.label = "kpi" /\ kpi.of = "sales" /\ stk.label = "stock" /\ stk.of = "stock"
      /\ bought.label = "purchases" /\ bought.of = "purchases"
      /\ sold.label = "sold" /\ sold.of = "sales" /\ dist.label = "dist" /\ dist.of = "sales"
      /\ top.label = "top" /\ top.of = "sales" /\ sellers.label = "sellers"
      /\ sellers.of = "sellers" /\ feed.label = "feed" /\ feed.of = "sales"
  BY QueryLabels
<1>4. /\ InOrder(<<kpi, stk, bought, sold, dist, top, sellers>>)
      /\ InOrder(<<kpi, stk, bought, sold, top, sellers>>)
      /\ InOrder(<<stk, bought, sold>>) /\ InOrder(<<dist>>) /\ InOrder(<<top>>) /\ InOrder(<<>>)
  BY <1>1, <1>3
<1>5. InOrder(<<feed, sellers, stk>>)
  BY <1>2, <1>3
<1>6. InOrder(<<Purchases(c.filter, FeedLimit)>>) /\ InOrder(<<Purchases(c.filter, NoLimit)>>)
  <2>1. ASSUME NEW n PROVE InOrder(<<Purchases(c.filter, n)>>)
    <3> PICK q : q = Purchases(c.filter, n)
      OBVIOUS
    <3>1. q.label = "purchases" /\ q.of = "purchases"
      BY DEF Purchases, Query
    <3>2. InOrder(<<q>>)
      BY <1>1, <1>3, <3>1
    <3>3. QED BY <3>2
  <2>2. QED BY <2>1
<1>7. CASE c.op = "dashboard"
  <2>1. Plan(c) = IF c.admin THEN <<kpi, stk, bought, sold, dist, top, sellers>>
                  ELSE <<kpi, stk, bought, sold, top, sellers>>
    BY <1>7, PlanIs
  <2>2. QED BY <1>4, <2>1
<1>8. CASE c.op \in {"leaderboard", "top books", "inventory"}
  <2>1. Plan(c) = <<dist>> \/ Plan(c) = <<top>> \/ Plan(c) = <<stk, bought, sold>>
    BY <1>8, PlanIs
  <2>2. QED BY <1>4, <2>1
<1>9. CASE c.op \in InwardOps
  BY <1>6, <1>9, PlanIs DEF InwardOps
<1>10. CASE c.op = "sell page"
  BY <1>5, <1>10, PlanIs
<1>11. CASE c.op \notin ReportOps
  BY <1>4, <1>11, PlanIs
<1>12. QED BY <1>7, <1>8, <1>9, <1>10, <1>11 DEF ReportOps, DashboardOps

-----------------------------------------------------------------------------
(* Reading while the ledger moves *)

\* The rows of a book, and the rows a query is after.
Part(rows, b) == {s \in rows : s.book = b}
Found(q) == {s \in sales : Matches(s, q.filter) /\ During(s.day, q.filter)}

\* What an answer that was read tells of the sales as they are by now: its rows are
\* still there, and of a book that did not move since they are all of them.
Fits(r, q, a) ==
    q.of = "sales" =>
        /\ a \subseteq sales /\ \A s \in a : Matches(s, q.filter)
        /\ q.limit = NoLimit =>
              \A b \in Books : drift[r][b] = 0 => Part(a, b) = Part(Found(q), b)

\* The sellers were read after the sales that name them.
SellersCover(answers) ==
    \A label \in {"feed", "dist"} \cap DOMAIN answers :
        "sellers" \in DOMAIN answers =>
            {s.seller : s \in answers[label]} \subseteq answers["sellers"]

\* How far a report has come in its plan.
Read(r, n) ==
    LET p == Plan(call[r])
    IN  /\ todo[r] = SubSeq(p, n + 1, Len(p))
        /\ DOMAIN seen[r] = {p[i].label : i \in 1 .. n}
        /\ \A i \in 1 .. n : Fits(r, p[i], seen[r][p[i].label])
        /\ SellersCover(seen[r])

Functions ==
    DOMAIN todo = Requests /\ DOMAIN seen = Requests /\ DOMAIN report = Requests
    /\ drift \in [Requests -> [Books -> Nat]]

Reading ==
    /\ Functions
    /\ \A r \in Requests :
          /\ pc[r] = "idle" => seen[r] = <<>> /\ drift[r] = [b \in Books |-> 0]
          /\ pc[r] = "report" => \E n \in 0 .. Len(Plan(call[r])) : Read(r, n)

\* A step of the stock adds a sale or leaves the sales alone.
LEMMA OneSale ==
    ASSUME Shape, NEW r \in Requests, Transaction(r) \/ StockDomain(r)
    PROVE  \/ sales' = sales
           \/ \E s : IsRecord(s) /\ s \notin sales /\ sales' = sales \cup {s}
<1>1. CASE Sell(r)
  <2> DEFINE c == call[r]
             s == [c.row EXCEPT !.id = nextId]
  <2>1. IsRecord(c.row) /\ nextId \in Nat
    BY <1>1, Asked DEF Sell, At, Shape, TypeOK, Placed, Entrances, StockSteps, IsStockCall, IsSale
  <2>2. IsRecord(s) /\ s.id = nextId
    BY <2>1, NewRecord
  <2>3. sales' = sales \cup {s} \/ sales' = sales
    BY <1>1 DEF Sell
  <2> HIDE DEF s
  <2>4. s \notin sales
    BY <2>2 DEF Shape, Records
  <2>5. QED BY <2>2, <2>3, <2>4
<1>2. CASE Receive(r) \/ Edit(r) \/ Erase(r)
  BY <1>2 DEF Receive, Edit, Erase
<1>3. CASE StockDomain(r)
  BY <1>3 DEF StockDomain, AdjustStock, Write, UpdateCost, Price, CreateStock, Add, DeleteStock,
     AdjustBatch, tables
<1>4. QED BY <1>1, <1>2, <1>3 DEF Transaction

\* A book of which as much is on hand as before has the sales it had.
LEMMA Unsold ==
    ASSUME Shape, Kept, NEW r \in Requests, Transaction(r) \/ StockDomain(r),
           NEW b \in Books, Qty(stock'[b]) = Qty(stock[b])
    PROVE  Part(sales', b) = Part(sales, b)
<1>1. Units(sales', b) = Units(sales, b)
  BY LedgerMoves DEF Moves
<1>2. IsFiniteSet(sales) /\ \A row \in sales : IsRecord(row)
  BY DEF Shape, Records, IsSale
<1>3. CASE sales' = sales
  BY <1>3
<1>4. ASSUME NEW s, IsRecord(s), s \notin sales, sales' = sales \cup {s}
      PROVE  Part(sales', b) = Part(sales, b)
  <2>1. Units(sales', b) = Units(sales, b) + IF s.book = b THEN s.qty ELSE 0
    BY <1>2, <1>4, UnitsStep
  <2>2. Units(sales, b) \in Nat
    BY <1>2, UnitsStep
  <2>3. s.book # b
    BY <1>1, <1>4, <2>1, <2>2 DEF IsRecord
  <2>4. QED BY <1>4, <2>3 DEF Part
<1>5. QED BY <1>3, <1>4, OneSale

\* A distance is a number, and zero is that of what is equal.
LEMMA DistanceType ==
    ASSUME NEW m \in Int, NEW n \in Int
    PROVE  Distance(m, n) \in Nat /\ (Distance(m, n) = 0 => m = n)
BY DEF Distance

\* By how much a step moves a book for the reports under way.
Drifts(r) ==
    \A b \in Books :
        /\ Distance(Qty(stock[b]), Qty(stock'[b])) \in Nat
        /\ drift'[r][b] = drift[r][b] + Distance(Qty(stock[b]), Qty(stock'[b]))

LEMMA Drifting ==
    ASSUME Shape, Shape', Functions, NEW q \in Requests, Ledger(q)
    PROVE  /\ drift' \in [Requests -> [Books -> Nat]]
           /\ \A r \in Requests : pc[r] = "report" => Drifts(r)
           /\ \A r \in Requests : pc[r] # "report" => drift'[r] = drift[r]
<1>1. \A b \in Books : Distance(Qty(stock[b]), Qty(stock'[b])) \in Nat
  BY Numbers, NumbersNext, DistanceType
<1>2. drift' = [r \in Requests |->
                  IF pc[r] = "report"
                  THEN [b \in Books |-> drift[r][b] + Distance(Qty(stock[b]), Qty(stock'[b]))]
                  ELSE drift[r]]
  BY DEF Ledger
<1>3. \A r \in Requests : drift[r] \in [Books -> Nat]
  BY DEF Functions
<1>4. ASSUME NEW r \in Requests, pc[r] = "report"
      PROVE  Drifts(r) /\ drift'[r] \in [Books -> Nat]
  <2>1. drift'[r] = [b \in Books |-> drift[r][b] + Distance(Qty(stock[b]), Qty(stock'[b]))]
    BY <1>2, <1>4
  <2>2. \A b \in Books : drift[r][b] + Distance(Qty(stock[b]), Qty(stock'[b])) \in Nat
    BY <1>1, <1>3
  <2>3. QED BY <1>1, <2>1, <2>2 DEF Drifts
<1>5. ASSUME NEW r \in Requests, pc[r] # "report" PROVE drift'[r] = drift[r]
  BY <1>2, <1>5
<1>6. drift' \in [Requests -> [Books -> Nat]]
  BY <1>2, <1>3, <1>4, <1>5
<1>7. QED BY <1>4, <1>5, <1>6

\* What an answer tells stays true while the ledger moves.
LEMMA FitsOn ==
    ASSUME Shape, Shape', Kept, NEW q \in Requests, Transaction(q) \/ StockDomain(q),
           NEW r, drift[r] \in [Books -> Nat], Drifts(r), NEW query, NEW a, Fits(r, query, a)
    PROVE  Fits(r, query, a)'
<1>1. sales \subseteq sales'
  BY OneSale
<1>2. ASSUME NEW b \in Books, drift'[r][b] = 0
      PROVE  drift[r][b] = 0 /\ Part(Found(query)', b) = Part(Found(query), b)
  <2>1. drift[r][b] = 0 /\ Distance(Qty(stock[b]), Qty(stock'[b])) = 0
    BY <1>2 DEF Drifts
  <2>2. Qty(stock'[b]) = Qty(stock[b])
    BY <2>1, Numbers, NumbersNext, DistanceType
  <2>3. Part(sales', b) = Part(sales, b)
    BY <2>2, Unsold
  <2>4. QED BY <2>1, <2>3 DEF Part, Found
<1>3. QED BY <1>1, <1>2 DEF Fits

\* An answer fits when it is read.
LEMMA FitsNow ==
    ASSUME NEW r, NEW q, NEW a \in Results(q), Labelled(q)
    PROVE  Fits(r, q, a) /\ (q.of = "sellers" => a = DistinctSellers)
<1>1. ASSUME NEW rows, NEW limit, NEW found \in Latest(rows, limit)
      PROVE  found \subseteq rows /\ (limit = NoLimit => found = rows)
  BY DEF Latest, TopOf
<1>2. CASE q.of = "sales"
  <2>1. a \in Latest(Found(q), q.limit)
    BY <1>2 DEF Results, QuerySales, Found
  <2>2. a \subseteq Found(q) /\ (q.limit = NoLimit => a = Found(q))
    BY <1>1, <2>1
  <2>3. QED BY <1>2, <2>2 DEF Fits, Found
<1>3. CASE q.of = "purchases"
  BY <1>3 DEF Fits
<1>4. CASE q.of = "stock"
  BY <1>4 DEF Results, Fits
<1>5. CASE q.of = "sellers"
  BY <1>5 DEF Results, Fits
<1>6. QED BY <1>2, <1>3, <1>4, <1>5 DEF Labelled

\* The query a report makes next is one it has not made.
LEMMA NextQuery ==
    ASSUME NEW r \in Requests, Ask(r), NEW n \in 0 .. Len(Plan(call[r])), Read(r, n)
    PROVE  LET p == Plan(call[r])
           IN  /\ n + 1 \in 1 .. Len(p)
               /\ Head(todo[r]) = p[n + 1] /\ Tail(todo[r]) = SubSeq(p, n + 2, Len(p))
               /\ Labelled(p[n + 1])
               /\ \A i \in 1 .. n : p[i].label # p[n + 1].label /\ Labelled(p[i])
<1> PICK p : p = Plan(call[r])
  OBVIOUS
<1>1. InOrder(p) /\ n \in 0 .. Len(p)
  BY Plans
<1> PICK S : p \in Seq(S)
  BY <1>1 DEF InOrder
<1>2. todo[r] = SubSeq(p, n + 1, Len(p))
  BY DEF Read
<1>3. todo[r] # <<>> /\ Len(p) \in Nat
  BY DEF Ask
<1>4. n + 1 \in 1 .. Len(p)
  <2>1. SUFFICES ASSUME n = Len(p) PROVE FALSE
    BY <1>1, <1>3
  <2>2. n + 1 \in Int /\ Len(p) \in Int /\ Len(p) < n + 1
    BY <1>3, <2>1
  <2>3. SubSeq(p, n + 1, Len(p)) = <<>>
    BY <2>2, SubSeqEmpty
  <2>4. QED BY <1>2, <1>3, <2>3
<1>5. Head(todo[r]) = p[n + 1] /\ Tail(todo[r]) = SubSeq(p, n + 2, Len(p))
  <2>1. Len(p) \in n + 1 .. Len(p)
    BY <1>3, <1>4
  <2>2. /\ Head(SubSeq(p, n + 1, Len(p))) = p[n + 1]
        /\ Tail(SubSeq(p, n + 1, Len(p))) = SubSeq(p, (n + 1) + 1, Len(p))
    BY <1>4, <2>1, HeadTailOfSubSeq
  <2>3. (n + 1) + 1 = n + 2
    BY <1>1
  <2>4. QED BY <1>2, <2>2, <2>3
<1>6. Labelled(p[n + 1]) /\ \A i \in 1 .. n : p[i].label # p[n + 1].label /\ Labelled(p[i])
  <2>1. \A i \in 1 .. n : i \in 1 .. Len(p) /\ i # n + 1
    BY <1>1, <1>3
  <2>2. QED BY <1>1, <1>4, <2>1 DEF InOrder
<1>7. QED BY <1>4, <1>5, <1>6

\* One query more, and one answer.
LEMMA ReadOn ==
    ASSUME Shape, Functions, NEW r \in Requests, Ask(r), ~Fails(Head(todo[r])),
           NEW n \in 0 .. Len(Plan(call[r])), Read(r, n)
    PROVE  n + 1 \in 0 .. Len(Plan(call[r])) /\ Read(r, n + 1)'
<1> PICK c : c = call[r]
  OBVIOUS
<1> PICK p : p = Plan(c)
  OBVIOUS
<1>1. InOrder(p) /\ n \in 0 .. Len(p) /\ Len(p) \in Nat
  BY Plans DEF InOrder
<1>2. /\ todo[r] = SubSeq(p, n + 1, Len(p)) /\ DOMAIN seen[r] = {p[i].label : i \in 1 .. n}
      /\ \A i \in 1 .. n : Fits(r, p[i], seen[r][p[i].label])
      /\ SellersCover(seen[r])
  BY DEF Read
<1> PICK q : q = p[n + 1]
  OBVIOUS
<1>3. n + 1 \in 1 .. Len(p)
  BY NextQuery
<1>4. Head(todo[r]) = q /\ Tail(todo[r]) = SubSeq(p, n + 2, Len(p))
  BY NextQuery
<1> PICK a \in Results(q) : seen' = [seen EXCEPT ![r] = With(@, q.label, a)]
  BY <1>4 DEF Ask
<1>5. /\ seen'[r] = With(seen[r], q.label, a) /\ todo'[r] = SubSeq(p, n + 2, Len(p))
      /\ UNCHANGED <<tables, drift, call>>
  BY <1>4 DEF Ask, Functions
<1>6. Labelled(q) /\ \A i \in 1 .. n : p[i].label # q.label /\ Labelled(p[i])
  BY NextQuery
<1>7. Fits(r, q, a) /\ (q.of = "sellers" => a = DistinctSellers)
  BY <1>6, FitsNow
<1> PICK old, new : old = seen[r] /\ new = seen'[r]
  OBVIOUS
<1>8. /\ DOMAIN new = DOMAIN old \cup {q.label} /\ new[q.label] = a
      /\ \A label \in DOMAIN old : label # q.label => new[label] = old[label]
  BY <1>5 DEF With
<1>9. DOMAIN new = {p[i].label : i \in 1 .. n + 1}
  <2>1. 1 .. n + 1 = (1 .. n) \cup {n + 1}
    BY <1>1
  <2>2. QED BY <1>2, <1>8, <2>1
<1>10. ASSUME NEW i \in 1 .. n + 1 PROVE Fits(r, p[i], new[p[i].label])'
  <2>1. Fits(r, p[i], new[p[i].label])
    <3>1. CASE i = n + 1
      BY <1>7, <1>8, <3>1
    <3>2. CASE i # n + 1
      <4>1. i \in 1 .. n
        BY <1>1, <3>2
      <4>2. p[i].label \in DOMAIN old /\ p[i].label # q.label
        BY <1>2, <1>6, <4>1
      <4>3. QED BY <1>2, <1>8, <4>1, <4>2
    <3>3. QED BY <3>1, <3>2
  <2>2. QED BY <1>5, <2>1 DEF Fits, Found, tables
<1>11. SellersCover(new)
  <2>1. SUFFICES ASSUME NEW label \in {"feed", "dist"} \cap DOMAIN new, "sellers" \in DOMAIN new
                 PROVE  {s.seller : s \in new[label]} \subseteq new["sellers"]
    BY DEF SellersCover
  <2>2. CASE q.label = "sellers"
    <3>1. label \in DOMAIN old /\ label # q.label
      BY <1>8, <2>2
    <3> PICK i \in 1 .. n : p[i].label = label
      BY <1>2, <3>1
    <3>2. new[label] \subseteq sales
      BY <1>2, <1>6, <1>8, <3>1 DEF Fits, Labelled
    <3>3. new["sellers"] = {s.seller : s \in sales}
      BY <1>6, <1>7, <1>8, <2>2 DEF Labelled, DistinctSellers
    <3>4. QED BY <3>2, <3>3
  <2>3. CASE q.label \in {"feed", "dist"}
    <3>1. "sellers" \in DOMAIN old
      BY <1>8, <2>1, <2>3
    <3> PICK j \in 1 .. n : p[j].label = "sellers"
      BY <1>2, <3>1
    <3>2. j \in 1 .. Len(p) /\ ~(n + 1 < j)
      BY <1>1
    <3>3. QED BY <1>1, <1>3, <2>3, <3>2 DEF InOrder
  <2>4. CASE q.label \notin {"feed", "dist", "sellers"}
    <3>1. label \in DOMAIN old /\ "sellers" \in DOMAIN old
          /\ new[label] = old[label] /\ new["sellers"] = old["sellers"]
      BY <1>8, <2>1, <2>4
    <3>2. QED BY <1>2, <3>1 DEF SellersCover
  <2>5. QED BY <2>2, <2>3, <2>4
<1>12. (n + 1) + 1 = n + 2 /\ n + 1 \in 0 .. Len(p)
  BY <1>1, <1>3
<1>13. call'[r] = c
  BY <1>5
<1>14. QED BY <1>5, <1>9, <1>10, <1>11, <1>12, <1>13 DEF Read

\* A report that only waits has read what it had.
LEMMA ReadWaits ==
    ASSUME Shape, Shape', Kept, Reading, NEW q \in Requests, Elsewhere(q), Functions',
           \A r \in Requests \ {q} : UNCHANGED <<todo[r], seen[r]>>,
           UNCHANGED <<sales, drift>> \/ Ledger(q)
    PROVE  \A r \in Requests \ {q} :
               /\ pc'[r] = "idle" => seen'[r] = <<>> /\ drift'[r] = [b \in Books |-> 0]
               /\ pc'[r] = "report" => \E n \in 0 .. Len(Plan(call'[r])) : Read(r, n)'
<1> SUFFICES ASSUME NEW r \in Requests \ {q}
             PROVE  /\ pc'[r] = "idle" => seen'[r] = <<>> /\ drift'[r] = [b \in Books |-> 0]
                    /\ pc'[r] = "report" => \E n \in 0 .. Len(Plan(call'[r])) : Read(r, n)'
  OBVIOUS
<1>1. pc'[r] = pc[r] /\ call'[r] = call[r] /\ todo'[r] = todo[r] /\ seen'[r] = seen[r]
  BY DEF Elsewhere
<1>2. pc'[r] = "idle" => seen'[r] = <<>> /\ drift'[r] = [b \in Books |-> 0]
  BY <1>1, Drifting DEF Reading
<1>3. ASSUME pc'[r] = "report" PROVE \E n \in 0 .. Len(Plan(call'[r])) : Read(r, n)'
  <2> PICK n \in 0 .. Len(Plan(call[r])) : Read(r, n)
    BY <1>1, <1>3 DEF Reading
  <2>1. ASSUME NEW query, NEW a, Fits(r, query, a) PROVE Fits(r, query, a)'
    <3>1. CASE UNCHANGED <<sales, drift>>
      BY <2>1, <3>1 DEF Fits, Found
    <3>2. CASE Ledger(q)
      <4>1. drift[r] \in [Books -> Nat] /\ Drifts(r)
        BY <1>1, <1>3, <3>2, Drifting DEF Reading, Functions
      <4>2. QED BY <2>1, <3>2, <4>1, FitsOn DEF Ledger
    <3>3. QED BY <1>1, <1>3, <3>1, <3>2
  <2>2. Read(r, n)'
    BY <1>1, <2>1 DEF Read
  <2>3. QED BY <1>1, <2>2
<1>4. QED BY <1>2, <1>3

\* Reports read on, whatever the others do.
LEMMA ReadingStep ==
    ASSUME Shape, Kept, Reading, [Next]_vars PROVE Reading'
<1>1. Shape'
  BY ShapeStep
<1>2. CASE UNCHANGED vars
  <2>1. ASSUME NEW r, NEW n, Read(r, n) PROVE Read(r, n)'
    <3>1. ASSUME NEW q, NEW a, Fits(r, q, a) PROVE Fits(r, q, a)'
      BY <1>2, <3>1 DEF vars, Fits, Found
    <3>2. QED BY <1>2, <2>1, <3>1 DEF vars, Read
  <2>2. QED BY <1>2, <2>1 DEF vars, Reading, Functions
<1>3. ASSUME NEW r \in Requests, Arrive(r) PROVE Reading'
  <2> PICK c \in Traffic[r] :
        call' = [call EXCEPT ![r] = c] /\ pc' = [pc EXCEPT ![r] = Start(c)]
        /\ todo' = [todo EXCEPT ![r] = Plan(c)]
    BY <1>3 DEF Arrive
  <2>1. /\ UNCHANGED <<sales, drift, seen>> /\ Functions' /\ Elsewhere(r)
        /\ \A q \in Requests \ {r} : UNCHANGED <<todo[q], seen[q]>>
        /\ pc[r] = "idle" /\ call'[r] = c /\ todo'[r] = Plan(c) /\ pc'[r] = Start(c)
    BY <1>3 DEF Arrive, At, tables, Reading, Functions, Elsewhere, Shape, TypeOK
  <2>2. seen'[r] = <<>>
    BY <2>1 DEF Reading
  <2>3. Read(r, 0)' /\ 0 \in 0 .. Len(Plan(c))
    <3> PICK p : p = Plan(c)
      OBVIOUS
    <3> PICK S : p \in Seq(S)
      BY Plans DEF InOrder
    <3>1. SubSeq(p, 1, Len(p)) = p /\ Len(p) \in Nat /\ 0 + 1 = 1
      BY SubSeqFull
    <3>2. 1 .. 0 = {} /\ DOMAIN seen'[r] = {}
      BY <2>2
    <3>3. SellersCover(seen'[r])
      BY <3>2 DEF SellersCover
    <3>4. QED BY <2>1, <3>1, <3>2, <3>3 DEF Read
  <2>4. Start(c) # "idle"
    <3>1. IsStockCall(c) \/ IsReportCall(c)
      BY TrafficAssumption
    <3>2. QED BY <3>1 DEF IsStockCall, IsReportCall, Start, ReportOps, DashboardOps, InwardOps
  <2>5. \A q \in Requests \ {r} :
             /\ pc'[q] = "idle" => seen'[q] = <<>> /\ drift'[q] = [b \in Books |-> 0]
             /\ pc'[q] = "report" => \E n \in 0 .. Len(Plan(call'[q])) : Read(q, n)'
    BY <1>1, <2>1, ReadWaits
  <2>6. QED BY <2>1, <2>3, <2>4, <2>5 DEF Reading
<1>4. ASSUME NEW r \in Requests, Ledger(r) PROVE Reading'
  <2>1. /\ Transaction(r) \/ StockDomain(r)
        /\ UNCHANGED <<todo, seen, report>>
    BY <1>4 DEF Ledger
  <2>2. /\ pc[r] \in StockSteps /\ pc'[r] \notin {"idle", "report"}
        /\ Elsewhere(r)
    BY <2>1 DEF Transaction, StockDomain, Receive, Sell, Edit, Erase, AdjustStock, Write, UpdateCost, Price,
       CreateStock, Add, DeleteStock, AdjustBatch, At, Goto, Finish, Miss, Wrote, Shape, TypeOK,
       Elsewhere, StockSteps
  <2>3. Functions'
    BY <1>1, <1>4, <2>1, Drifting DEF Reading, Functions
  <2>4. \A q \in Requests \ {r} :
             /\ pc'[q] = "idle" => seen'[q] = <<>> /\ drift'[q] = [b \in Books |-> 0]
             /\ pc'[q] = "report" => \E n \in 0 .. Len(Plan(call'[q])) : Read(q, n)'
    BY <1>1, <1>4, <2>1, <2>2, <2>3, ReadWaits
  <2>5. QED BY <2>2, <2>3, <2>4 DEF Reading
<1>5. ASSUME NEW r \in Requests, Ask(r) \/ Answer(r) \/ Overview(r) \/ Relocate(r) PROVE Reading'
  <2>1. /\ UNCHANGED <<sales, drift>> /\ Functions' /\ Elsewhere(r)
        /\ \A q \in Requests \ {r} : UNCHANGED <<todo[q], seen[q]>>
    BY <1>5 DEF Ask, Answer, Overview, Locate, Tally, Name, Total, Relocate, tables, Reading, Functions,
       Elsewhere, Goto, Finish, Shape, TypeOK
  <2>2. \A q \in Requests \ {r} :
             /\ pc'[q] = "idle" => seen'[q] = <<>> /\ drift'[q] = [b \in Books |-> 0]
             /\ pc'[q] = "report" => \E n \in 0 .. Len(Plan(call'[q])) : Read(q, n)'
    BY <1>1, <2>1, ReadWaits
  <2>3. pc'[r] # "idle"
    BY <1>5 DEF Ask, Answer, Overview, Locate, Tally, Name, Total, Relocate, At, Goto, Finish, Shape,
       TypeOK
  <2>4. ASSUME pc'[r] = "report" PROVE \E n \in 0 .. Len(Plan(call'[r])) : Read(r, n)'
    <3>1. Ask(r) /\ ~Fails(Head(todo[r])) /\ UNCHANGED call
      BY <1>5, <2>4 DEF Ask, Answer, Overview, Locate, Tally, Name, Total, Relocate, At, Goto, Finish,
         Shape, TypeOK
    <3> PICK n \in 0 .. Len(Plan(call[r])) : Read(r, n)
      BY <3>1 DEF Ask, At, Reading
    <3>2. n + 1 \in 0 .. Len(Plan(call[r])) /\ Read(r, n + 1)'
      BY <3>1, ReadOn DEF Reading
    <3>3. QED BY <3>1, <3>2
  <2>5. QED BY <2>1, <2>2, <2>3, <2>4 DEF Reading
<1>6. QED BY <1>2, <1>3, <1>4, <1>5 DEF Next

\* Nobody has read anything at the start.
LEMMA ReadingInit == ReportInit => Reading
BY DEF ReportInit, StockInit, Reading, Functions

-----------------------------------------------------------------------------
(* What a report has when it answers *)

\* A report that answers has the answer of every query of its plan.
LEMMA HasRead ==
    ASSUME Shape, Reading, NEW r \in Requests, Answer(r)
    PROVE  LET p == Plan(call[r])
           IN  /\ DOMAIN seen[r] = {p[i].label : i \in 1 .. Len(p)}
               /\ \A i \in 1 .. Len(p) : Fits(r, p[i], seen[r][p[i].label])
               /\ SellersCover(seen[r])
<1> PICK p : p = Plan(call[r])
  OBVIOUS
<1> PICK n \in 0 .. Len(p) : Read(r, n)
  BY DEF Reading, Answer, At
<1> PICK S : p \in Seq(S)
  BY Plans DEF InOrder
<1>1. n = Len(p)
  <2>1. SUFFICES ASSUME n # Len(p) PROVE FALSE
    OBVIOUS
  <2>2. Len(p) \in Nat /\ n + 1 \in 1 .. Len(p) /\ Len(p) \in n + 1 .. Len(p)
    BY <2>1
  <2>3. Len(SubSeq(p, n + 1, Len(p))) = Len(p) - n
    <3>1. \A j \in n + 1 .. Len(p) : p[j] \in S
      BY <2>2
    <3>2. Len(SubSeq(p, n + 1, Len(p))) = Len(p) - (n + 1) + 1
      BY <2>2, <3>1, SubSeqProperties
    <3>3. QED BY <2>2, <3>2
  <2>4. SubSeq(p, n + 1, Len(p)) = <<>>
    BY DEF Answer, Read
  <2>5. Len(<<>>) = 0
    OBVIOUS
  <2>6. 0 = Len(p) - n
    BY ONLY <2>3, <2>4, <2>5
  <2>7. QED BY <2>1, <2>2, <2>6
<1>2. QED BY <1>1 DEF Read

\* The sections of each report, when it answers.
LEMMA Sections ==
    ASSUME Shape, Reading, NEW r \in Requests, Answer(r)
    PROVE  LET c == call[r]
               has(q) == q.label \in DOMAIN seen[r] /\ Fits(r, q, seen[r][q.label])
           IN  /\ c.op = "dashboard" =>
                     /\ has(Kpi(c)) /\ has(Stock) /\ has(Received(InventoryFilter(c)))
                     /\ has(SoldTo(InventoryFilter(c))) /\ has(Top(c)) /\ has(Sellers)
                     /\ c.admin => has(Dist(c))
               /\ c.op = "leaderboard" => has(Dist(c))
               /\ c.op = "top books" => has(Top(c)) /\ DOMAIN seen[r] = {"top"}
               /\ c.op = "inventory" =>
                     /\ has(Stock) /\ has(Received(InventoryFilter(c)))
                     /\ has(SoldTo(InventoryFilter(c)))
               /\ c.op = "sell page" => has(Feed(c)) /\ has(Sellers) /\ has(Stock)
               /\ c.op \in ReportOps
<1> DEFINE c == call[r]
           p == Plan(c)
           has(q) == q.label \in DOMAIN seen[r] /\ Fits(r, q, seen[r][q.label])
<1>1. \A i \in 1 .. Len(p) : has(p[i])
  BY HasRead
<1>2. c.op \in ReportOps
  BY DEF Answer, At, Shape, Placed
<1>3. DOMAIN seen[r] = {p[j].label : j \in 1 .. Len(p)}
  BY HasRead
<1> HIDE DEF has, p
<1>4. ASSUME NEW q1, NEW q2, NEW q3, p = <<q1, q2, q3>> PROVE has(q1) /\ has(q2) /\ has(q3)
  <2>1. Len(p) = 3 /\ p[1] = q1 /\ p[2] = q2 /\ p[3] = q3
    BY <1>4
  <2>2. has(p[1]) /\ has(p[2]) /\ has(p[3])
    BY <1>1, <2>1
  <2>3. QED BY <2>1, <2>2
<1>5. ASSUME NEW q, p = <<q>> PROVE has(q) /\ DOMAIN seen[r] = {q.label}
  <2>1. Len(p) = 1 /\ p[1] = q
    BY <1>5
  <2>2. has(p[1])
    BY <1>1, <2>1
  <2>3. DOMAIN seen[r] = {q.label}
    BY <1>3, <2>1
  <2>4. QED BY <2>1, <2>2, <2>3
<1>6. ASSUME NEW q1, NEW q2, NEW q3, NEW q4, NEW q5, NEW q6, p = <<q1, q2, q3, q4, q5, q6>>
      PROVE  has(q1) /\ has(q2) /\ has(q3) /\ has(q4) /\ has(q5) /\ has(q6)
  <2>1. Len(p) = 6 /\ p[1] = q1 /\ p[2] = q2 /\ p[3] = q3 /\ p[4] = q4 /\ p[5] = q5 /\ p[6] = q6
    BY <1>6
  <2>2. has(p[1]) /\ has(p[2]) /\ has(p[3]) /\ has(p[4]) /\ has(p[5]) /\ has(p[6])
    BY <1>1, <2>1
  <2>3. QED BY <2>1, <2>2
<1>7. ASSUME NEW q1, NEW q2, NEW q3, NEW q4, NEW q5, NEW q6, NEW q7,
             p = <<q1, q2, q3, q4, q5, q6, q7>>
      PROVE  has(q1) /\ has(q2) /\ has(q3) /\ has(q4) /\ has(q5) /\ has(q6) /\ has(q7)
  <2>1. Len(p) = 7 /\ p[1] = q1 /\ p[2] = q2 /\ p[3] = q3 /\ p[4] = q4 /\ p[5] = q5 /\ p[6] = q6
        /\ p[7] = q7
    BY <1>7
  <2>2. has(p[1]) /\ has(p[2]) /\ has(p[3]) /\ has(p[4]) /\ has(p[5]) /\ has(p[6]) /\ has(p[7])
    BY <1>1, <2>1
  <2>3. QED BY <2>1, <2>2
<1>8. CASE c.op = "dashboard" /\ c.admin
  <2>1. p = <<Kpi(c), Stock, Received(InventoryFilter(c)), SoldTo(InventoryFilter(c)), Dist(c),
              Top(c), Sellers>>
    BY <1>8, PlanIs DEF p
  <2>2. QED BY <1>2, <1>7, <1>8, <2>1 DEF has
<1>9. CASE c.op = "dashboard" /\ ~c.admin
  <2>1. p = <<Kpi(c), Stock, Received(InventoryFilter(c)), SoldTo(InventoryFilter(c)), Top(c),
              Sellers>>
    BY <1>9, PlanIs DEF p
  <2>2. QED BY <1>2, <1>6, <1>9, <2>1 DEF has
<1>10. CASE c.op = "inventory"
  <2>1. p = <<Stock, Received(InventoryFilter(c)), SoldTo(InventoryFilter(c))>>
    BY <1>10, PlanIs DEF p
  <2>2. QED BY <1>2, <1>4, <1>10, <2>1 DEF has
<1>11. CASE c.op = "sell page"
  <2>1. p = <<Feed(c), Sellers, Stock>>
    BY <1>11, PlanIs DEF p
  <2>2. QED BY <1>2, <1>4, <1>11, <2>1 DEF has
<1>12. CASE c.op = "leaderboard"
  <2>1. p = <<Dist(c)>>
    BY <1>12, PlanIs DEF p
  <2>2. QED BY <1>2, <1>5, <1>12, <2>1 DEF has
<1>13. CASE c.op = "top books"
  <2>1. p = <<Top(c)>>
    BY <1>13, PlanIs DEF p
  <2>2. has(Top(c)) /\ DOMAIN seen[r] = {Top(c).label}
    BY <1>5, <2>1
  <2>3. Top(c).label = "top"
    BY QueryLabels
  <2>4. DOMAIN seen[r] = {"top"}
    BY <2>2, <2>3
  <2>5. QED BY <1>2, <1>13, <2>2, <2>4 DEF has
<1>14. CASE c.op \in InwardOps
  BY <1>2, <1>14 DEF InwardOps
<1>15. QED BY <1>2, <1>8, <1>9, <1>10, <1>11, <1>12, <1>13, <1>14 DEF ReportOps, DashboardOps

\* A report that is told was told by its answer, and stays as it is.
LEMMA Outcome ==
    ASSUME Shape, Reading, [Next]_vars, NEW r \in Requests,
           reply'[r] = "ok", call'[r].op \in ReportOps
    PROVE  \/ Answer(r)
           \/ /\ reply[r] = "ok"
              /\ UNCHANGED <<reply[r], call[r], report[r], seen[r], drift[r]>>
<1> SUFFICES ASSUME ~Answer(r)
             PROVE  reply[r] = "ok" /\ UNCHANGED <<reply[r], call[r], report[r], seen[r], drift[r]>>
  OBVIOUS
<1>1. CASE UNCHANGED vars
  BY <1>1 DEF vars
<1>2. ASSUME NEW q \in Requests, Arrive(q)
      PROVE  reply[r] = "ok" /\ UNCHANGED <<reply[r], call[r], report[r], seen[r], drift[r]>>
  <2> PICK c \in Traffic[q] :
        /\ call' = [call EXCEPT ![q] = c]
        /\ reply' = [reply EXCEPT ![q] = IF BadRequest(c) THEN "error" ELSE @]
    BY <1>2 DEF Arrive
  <2>1. pc[q] = "idle" /\ reply[q] = "none"
    BY <1>2 DEF Arrive, At, Shape, Placed
  <2>2. q # r
    BY <2>1 DEF Shape, TypeOK
  <2>3. QED BY <1>2, <2>2 DEF Arrive, Shape, TypeOK
<1>3. ASSUME NEW q \in Requests, Ledger(q)
      PROVE  reply[r] = "ok" /\ UNCHANGED <<reply[r], call[r], report[r], seen[r], drift[r]>>
  <2>1. pc[q] \in StockSteps /\ call' = call
    BY <1>3 DEF Ledger, Transaction, StockDomain, Receive, Sell, Edit, Erase, AdjustStock, Write, UpdateCost,
       Price, CreateStock, Add, DeleteStock, AdjustBatch, At, StockSteps
  <2>2. call[q].op \notin ReportOps
    BY <2>1 DEF Shape, Placed, StockSteps, Entrances, ReportOps, DashboardOps, InwardOps
  <2>3. q # r
    BY <2>1, <2>2
  <2>4. UNCHANGED <<reply[r], call[r], report[r], seen[r]>>
    BY <1>3, <2>1, <2>3 DEF Ledger, Transaction, StockDomain, Receive, Sell, Edit, Erase, AdjustStock, Write,
       UpdateCost, Price, CreateStock, Add, DeleteStock, AdjustBatch, Goto, Finish, Miss, Wrote, Shape,
       TypeOK
  <2>5. pc[r] # "report"
    BY <2>4 DEF Shape, Placed
  <2>6. drift'[r] = drift[r]
    BY <1>3, <2>5 DEF Ledger
  <2>7. QED BY <2>4, <2>6
<1>4. ASSUME NEW q \in Requests, Ask(q) \/ Answer(q) \/ Overview(q) \/ Relocate(q)
      PROVE  reply[r] = "ok" /\ UNCHANGED <<reply[r], call[r], report[r], seen[r], drift[r]>>
  <2>1. q # r
    <3>1. SUFFICES ASSUME q = r PROVE FALSE
      OBVIOUS
    <3>2. CASE Ask(r)
      BY <3>2 DEF Ask, At, Finish, Shape, Placed, TypeOK
    <3>3. CASE Overview(r) \/ Relocate(r)
      <4>1. call[r].op \in {"overview", "relocate"} /\ call' = call
        BY <3>3 DEF Overview, Locate, Tally, Name, Total, Relocate, At, Shape, Placed, OverviewSteps
      <4>2. QED BY <4>1 DEF ReportOps, DashboardOps, InwardOps
    <3>4. QED BY <1>4, <3>1, <3>2, <3>3
  <2>2. UNCHANGED <<reply[r], call[r], report[r], seen[r], drift[r]>>
    BY <1>4, <2>1 DEF Ask, Answer, Overview, Locate, Tally, Name, Total, Relocate, Reading, Functions,
       Goto, Finish, Shape, TypeOK
  <2>3. QED BY <2>2
<1>5. QED BY <1>1, <1>2, <1>3, <1>4 DEF Next

\* What an answer leaves as it was, and what it says.
LEMMA Answered ==
    ASSUME Shape, Reading, NEW r \in Requests, Answer(r)
    PROVE  /\ UNCHANGED <<call[r], seen[r], drift[r]>>
           /\ report'[r] \in Composed(call[r], seen[r])
BY DEF Answer, Finish, Reading, Functions

\* What is composed for each report.
LEMMA Figures ==
    ASSUME NEW c, c.op \in ReportOps, NEW s, NEW out \in Composed(c, s)
    PROVE  /\ "books" \in DOMAIN out => c.op \in {"dashboard", "top books"}
           /\ "sellers" \in DOMAIN out => c.op \in {"dashboard", "sell page"}
           /\ "kpi" \in DOMAIN out => c.op = "dashboard"
           /\ c.op = "dashboard" =>
                 /\ out.kpi = Kpis(s.kpi) /\ out.inventory = Inventory(s)
                 /\ out.leaderboard \in IF c.admin THEN Leaderboards(s.dist) ELSE {{}}
                 /\ out.books \in TopBooks(s.top) /\ out.sellers = s.sellers
                 /\ "feed" \notin DOMAIN out
           /\ c.op = "inventory" => out.inventory = Inventory(s)
           /\ c.op = "sell page" =>
                 /\ "feed" \in DOMAIN out /\ out.feed = s.feed
                 /\ out.sellers = s.sellers \cup {c.viewer}
<1>1. CASE c.op = "dashboard"
  <2> PICK K, I, L, B, S : /\ K = {Kpis(s.kpi)} /\ I = {Inventory(s)} /\ B = TopBooks(s.top)
                           /\ L = IF c.admin THEN Leaderboards(s.dist) ELSE {{}}
                           /\ S = {s.sellers}
    OBVIOUS
  <2>1. out \in [kpi : K, inventory : I, leaderboard : L, books : B, sellers : S]
    BY <1>1 DEF Composed
  <2>2. out.kpi \in K /\ out.inventory \in I /\ out.leaderboard \in L /\ out.books \in B
        /\ out.sellers \in S /\ "feed" \notin DOMAIN out
    BY <2>1
  <2>3. QED BY <1>1, <2>2
<1>2. CASE c.op = "leaderboard"
  <2> PICK L : L = Leaderboards(s.dist)
    OBVIOUS
  <2>1. out \in [leaderboard : L]
    BY <1>2 DEF Composed
  <2>2. DOMAIN out = {"leaderboard"}
    BY <2>1
  <2>3. QED BY <1>2, <2>2
<1>3. CASE c.op = "top books"
  <2> PICK B : B = TopBooks(s.top)
    OBVIOUS
  <2>1. out \in [books : B]
    BY <1>3 DEF Composed
  <2>2. DOMAIN out = {"books"}
    BY <2>1
  <2>3. QED BY <1>3, <2>2
<1>4. CASE c.op = "inventory"
  <2> PICK I : I = {Inventory(s)}
    OBVIOUS
  <2>1. out \in [inventory : I]
    BY <1>4 DEF Composed
  <2>2. DOMAIN out = {"inventory"} /\ out.inventory \in I
    BY <2>1
  <2>3. QED BY <1>4, <2>2
<1>5. CASE c.op = "sell page"
  <2> PICK F, S, B : F = {s.feed} /\ S = {s.sellers \cup {c.viewer}} /\ B = {BookStock(s)}
    OBVIOUS
  <2>1. out \in [feed : F, sellers : S, stock : B]
    BY <1>5 DEF Composed, SellPageData
  <2>2. DOMAIN out = {"feed", "sellers", "stock"} /\ out.feed \in F /\ out.sellers \in S
    BY <2>1
  <2>3. QED BY <1>5, <2>2
<1>6. CASE c.op \in InwardOps
  <2> PICK P : P = {s.purchases}
    OBVIOUS
  <2>1. out \in [purchases : P]
    BY <1>6 DEF Composed, InwardOps
  <2>2. DOMAIN out = {"purchases"}
    BY <2>1
  <2>3. QED BY <1>6, <2>2 DEF InwardOps
<1>7. QED BY <1>1, <1>2, <1>3, <1>4, <1>5, <1>6 DEF ReportOps, DashboardOps

\* Whoever has a rank sold something.
LEMMA StatSellers ==
    ASSUME NEW rows PROVE \A e \in SellerStats(rows) : e.seller \in {s.seller : s \in rows}
<1> DEFINE stat(name) == LET own == {s \in rows : s.seller = name}
                         IN  [seller |-> name, revenue |-> Revenue(own), qty |-> Copies(own),
                              profit |-> Revenue(own) - Cost(own)]
<1>1. \A name : stat(name).seller = name
  OBVIOUS
<1>2. SellerStats(rows) = {stat(name) : name \in {s.seller : s \in rows}}
  BY DEF SellerStats
<1> HIDE DEF stat
<1>3. QED BY <1>1, <1>2

\* The sellers an answer shows are among those to filter by.
LEMMA SellersAnswer ==
    ASSUME Shape, Reading, NEW r \in Requests, Answer(r), "sellers" \in DOMAIN report'[r]
    PROVE  LET shown == IF "feed" \in DOMAIN report'[r] THEN report'[r].feed
                        ELSE report'[r].leaderboard
           IN  {s.seller : s \in shown} \subseteq report'[r].sellers
<1> DEFINE c == call[r]
<1>1. c.op \in ReportOps /\ report'[r] \in Composed(c, seen[r])
  BY Answered, Sections
<1>2. c.op \in {"dashboard", "sell page"}
  BY <1>1, Figures
<1>3. SellersCover(seen[r]) /\ "sellers" \in DOMAIN seen[r]
  <2>1. "sellers" \in DOMAIN seen[r]
    BY <1>2, Sections, QueryLabels
  <2>2. QED BY <2>1, HasRead
<1>4. CASE c.op = "sell page"
  <2>1. report'[r].feed = seen[r].feed /\ "feed" \in DOMAIN report'[r]
        /\ report'[r].sellers = seen[r].sellers \cup {c.viewer}
    BY <1>1, <1>4, Figures
  <2>2. "feed" \in DOMAIN seen[r]
    BY <1>4, Sections, QueryLabels
  <2>3. {s.seller : s \in seen[r]["feed"]} \subseteq seen[r]["sellers"]
    BY <1>3, <2>2 DEF SellersCover
  <2>4. QED BY <2>1, <2>3
<1>5. CASE c.op = "dashboard"
  <2>1. /\ "feed" \notin DOMAIN report'[r] /\ report'[r].sellers = seen[r].sellers
        /\ report'[r].leaderboard \in IF c.admin THEN Leaderboards(seen[r].dist) ELSE {{}}
    <3> PICK d, s, out : d = call[r] /\ s = seen[r] /\ out = report'[r]
      OBVIOUS
    <3>1. d.op \in ReportOps /\ d.op = "dashboard" /\ out \in Composed(d, s)
      BY <1>1, <1>5
    <3>2. /\ out.leaderboard \in IF d.admin THEN Leaderboards(s.dist) ELSE {{}}
          /\ out.sellers = s.sellers /\ "feed" \notin DOMAIN out
      BY ONLY <3>1, Figures
    <3>3. QED BY <3>2
  <2>2. CASE ~c.admin
    BY <2>1, <2>2
  <2>3. CASE c.admin
    <3>1. report'[r].leaderboard \subseteq SellerStats(seen[r].dist)
      BY <2>1, <2>3 DEF Leaderboards, TopOf
    <3>2. \A e \in SellerStats(seen[r].dist) : e.seller \in {s.seller : s \in seen[r].dist}
      BY StatSellers
    <3>3. "dist" \in DOMAIN seen[r]
      BY <1>5, <2>3, Sections, QueryLabels
    <3>4. {s.seller : s \in seen[r]["dist"]} \subseteq seen[r]["sellers"]
      BY <1>3, <3>3 DEF SellersCover
    <3>5. QED BY <2>1, <3>1, <3>2, <3>4
  <2>4. QED BY <2>2, <2>3
<1>6. QED BY <1>2, <1>4, <1>5

\* The sellers of what is shown stay among those to filter by.
LEMMA SellersStep ==
    ASSUME Shape, Reading, SellersKnown, [Next]_vars PROVE SellersKnown'
<1> SUFFICES ASSUME NEW r \in Requests, reply'[r] = "ok", call'[r].op \in ReportOps,
                    "sellers" \in DOMAIN report'[r]
             PROVE  LET shown == IF "feed" \in DOMAIN report'[r] THEN report'[r].feed
                                 ELSE report'[r].leaderboard
                    IN  {s.seller : s \in shown} \subseteq report'[r].sellers
  BY DEF SellersKnown, Reads
<1>1. CASE Answer(r)
  BY <1>1, SellersAnswer
<1>2. CASE reply[r] = "ok" /\ UNCHANGED <<reply[r], call[r], report[r], seen[r], drift[r]>>
  BY <1>2 DEF SellersKnown, Reads
<1>3. QED BY <1>1, <1>2, Outcome

\* Every seller a page shows a sale of, or a dashboard a rank, is among the sellers
\* to filter by: they are read last, and sales are never taken back.
THEOREM SellersToFilterBy == Spec => []SellersKnown
<1>1. ReportInit => Shape /\ Kept /\ Reading /\ SellersKnown
  <2>1. ReportInit => \A r \in Requests : reply[r] = "none"
    BY DEF ReportInit, StockInit
  <2>2. QED BY <2>1, ShapeInit, ReadingInit DEF Kept, SellersKnown, Reads
<1>2. Shape /\ Kept /\ Reading /\ SellersKnown /\ [Next]_vars
        => (Shape /\ Kept /\ Reading /\ SellersKnown)'
  BY ShapeStep, KeptStep, ReadingStep, SellersStep
<1>3. QED BY <1>1, <1>2, PTL DEF Spec

-----------------------------------------------------------------------------
(* The inventory *)

\* An inventory of all time, and the three figures of a book it works with: what it
\* has read, and what there is of what it has yet to read.
ReadsAll(c) == c.op \in {"dashboard", "inventory"} /\ AllTime(c)
OnHand(r, b) == Qty((IF "stock" \in DOMAIN seen[r] THEN seen[r].stock ELSE stock)[b])
BoughtOf(r, b) == Units(IF "purchases" \in DOMAIN seen[r] THEN seen[r].purchases ELSE purchases, b)
SoldOf(r, b) == Units(IF "sold" \in DOMAIN seen[r] THEN seen[r].sold ELSE sales, b)

\* What the figures open with is off by no more than what moved.
Near(r) ==
    \A b \in Books :
        /\ OnHand(r, b) \in Int /\ BoughtOf(r, b) \in Int /\ SoldOf(r, b) \in Int
        /\ b \notin overrun =>
              Distance(Initial(OnHand(r, b), BoughtOf(r, b), SoldOf(r, b)), base[b]) <= drift[r][b]
Nearing == \A r \in Requests : pc[r] = "report" /\ ReadsAll(call[r]) => Near(r)

\* One move adds to the error no more than itself, whichever figures were read
\* before it.
LEMMA NearMoves ==
    ASSUME Shape, Shape', Kept, Functions, NEW q \in Requests, Ledger(q),
           NEW r \in Requests, pc[r] = "report", seen'[r] = seen[r], Near(r)
    PROVE  Near(r)'
<1> SUFFICES ASSUME NEW b \in Books
             PROVE  /\ OnHand(r, b)' \in Int /\ BoughtOf(r, b)' \in Int /\ SoldOf(r, b)' \in Int
                    /\ b \notin overrun' =>
                          Distance(Initial(OnHand(r, b)', BoughtOf(r, b)', SoldOf(r, b)'), base'[b])
                             <= drift'[r][b]
  BY DEF Near
<1>1. /\ Qty(stock[b]) \in Int /\ base[b] \in Int
      /\ Units(purchases, b) \in Int /\ Units(sales, b) \in Int
  BY Numbers
<1>2. /\ Qty(stock'[b]) \in Int /\ base'[b] \in Int
      /\ Units(purchases', b) \in Int /\ Units(sales', b) \in Int
  BY NumbersNext
<1>3. /\ drift[r][b] \in Int
      /\ drift'[r][b] = drift[r][b] + Distance(Qty(stock[b]), Qty(stock'[b]))
      /\ drift'[r][b] \in Int
  BY Drifting DEF Drifts, Functions
<1>4. OnHand(r, b) \in Int /\ BoughtOf(r, b) \in Int /\ SoldOf(r, b) \in Int
  BY DEF Near
<1>5. /\ OnHand(r, b)' = OnHand(r, b)
            \/ (OnHand(r, b) = Qty(stock[b]) /\ OnHand(r, b)' = Qty(stock'[b]))
      /\ BoughtOf(r, b)' = BoughtOf(r, b)
            \/ (BoughtOf(r, b) = Units(purchases, b) /\ BoughtOf(r, b)' = Units(purchases', b))
      /\ SoldOf(r, b)' = SoldOf(r, b)
            \/ (SoldOf(r, b) = Units(sales, b) /\ SoldOf(r, b)' = Units(sales', b))
  BY DEF OnHand, BoughtOf, SoldOf
<1>6. OnHand(r, b)' \in Int /\ BoughtOf(r, b)' \in Int /\ SoldOf(r, b)' \in Int
  BY <1>1, <1>2, <1>4, <1>5
<1>7. ASSUME b \notin overrun'
      PROVE  Distance(Initial(OnHand(r, b)', BoughtOf(r, b)', SoldOf(r, b)'), base'[b]) <= drift'[r][b]
  <2>1. Moves(b)
    BY LedgerMoves DEF Ledger
  <2>2. /\ Qty(stock'[b]) - Qty(stock[b]) =
                (base'[b] - base[b]) + (Units(purchases', b) - Units(purchases, b))
                   - (Units(sales', b) - Units(sales, b))
        /\ \/ base'[b] = base[b] /\ Units(purchases', b) = Units(purchases, b)
           \/ base'[b] = base[b] /\ Units(sales', b) = Units(sales, b)
           \/ Units(purchases', b) = Units(purchases, b) /\ Units(sales', b) = Units(sales, b)
    BY <1>7, <2>1 DEF Moves, OneMoves
  <2>3. Distance(Initial(OnHand(r, b), BoughtOf(r, b), SoldOf(r, b)), base[b]) <= drift[r][b]
    BY <1>7, <2>1 DEF Moves, Near
  <2> PICK o, p, s, d, v, q1, x, y :
        /\ o = OnHand(r, b) /\ p = BoughtOf(r, b) /\ s = SoldOf(r, b) /\ d = base[b]
        /\ v = drift[r][b] /\ q1 = Qty(stock[b]) /\ x = Units(purchases, b) /\ y = Units(sales, b)
    OBVIOUS
  <2> PICK oo, pp, ss, dd, vv, qq, xx, yy :
        /\ oo = OnHand(r, b)' /\ pp = BoughtOf(r, b)' /\ ss = SoldOf(r, b)' /\ dd = base'[b]
        /\ vv = drift'[r][b] /\ qq = Qty(stock'[b]) /\ xx = Units(purchases', b)
        /\ yy = Units(sales', b)
    OBVIOUS
  <2>4. /\ o \in Int /\ p \in Int /\ s \in Int /\ d \in Int /\ v \in Int /\ q1 \in Int /\ x \in Int
        /\ y \in Int /\ oo \in Int /\ pp \in Int /\ ss \in Int /\ dd \in Int /\ vv \in Int
        /\ qq \in Int /\ xx \in Int /\ yy \in Int
    BY <1>1, <1>2, <1>3, <1>4, <1>6
  <2>5. /\ Distance(Initial(o, p, s), d) <= v /\ vv = v + Distance(q1, qq)
        /\ oo = o \/ (o = q1 /\ oo = qq)
        /\ pp = p \/ (p = x /\ pp = xx)
        /\ ss = s \/ (s = y /\ ss = yy)
        /\ qq - q1 = (dd - d) + (xx - x) - (yy - y)
        /\ \/ dd = d /\ xx = x
           \/ dd = d /\ yy = y
           \/ xx = x /\ yy = y
    BY <1>3, <1>5, <2>2, <2>3
  <2>6. Distance(Initial(oo, pp, ss), dd) <= vv
    <3>1. o - p + s - d <= v /\ d - (o - p + s) <= v
      BY ONLY <2>4, <2>5 DEF Distance, Initial
    <3>2. v + (qq - q1) <= vv /\ v + (q1 - qq) <= vv /\ v <= vv
      BY ONLY <2>4, <2>5 DEF Distance
    <3>3. (oo - pp + ss) - dd <= vv /\ dd - (oo - pp + ss) <= vv
      <4>1. CASE dd = d /\ xx = x
        BY ONLY <2>4, <2>5, <3>1, <3>2, <4>1
      <4>2. CASE dd = d /\ yy = y
        BY ONLY <2>4, <2>5, <3>1, <3>2, <4>2
      <4>3. CASE xx = x /\ yy = y
        BY ONLY <2>4, <2>5, <3>1, <3>2, <4>3
      <4>4. QED BY <2>5, <4>1, <4>2, <4>3
    <3>4. QED BY ONLY <2>4, <3>3 DEF Distance, Initial
  <2>7. QED BY <2>6
<1>8. QED BY <1>6, <1>7

\* A report that arrives has read nothing, and the ledger holds.
LEMMA NearFirst ==
    ASSUME Shape, Kept, Reading, NEW r \in Requests, Arrive(r)
    PROVE  Near(r)'
<1>1. /\ UNCHANGED <<stock, purchases, sales, base, overrun>> /\ seen'[r] = <<>>
      /\ drift'[r] = [b \in Books |-> 0]
  BY DEF Arrive, At, tables, Reading
<1>2. ASSUME NEW b \in Books
      PROVE  /\ OnHand(r, b)' = Qty(stock[b]) /\ BoughtOf(r, b)' = Units(purchases, b)
             /\ SoldOf(r, b)' = Units(sales, b) /\ drift'[r][b] = 0
  BY <1>1 DEF OnHand, BoughtOf, SoldOf
<1>3. ASSUME NEW b \in Books, b \notin overrun
      PROVE  Distance(Initial(Qty(stock[b]), Units(purchases, b), Units(sales, b)), base[b]) <= 0
  <2>1. Qty(stock[b]) = base[b] + Units(purchases, b) - Units(sales, b)
    BY <1>3 DEF Kept, LedgerMatches
  <2>2. Initial(Qty(stock[b]), Units(purchases, b), Units(sales, b)) = base[b]
    BY <2>1, Numbers DEF Initial
  <2>3. QED BY <2>2, Numbers DEF Distance
<1>4. QED BY <1>1, <1>2, <1>3, Numbers DEF Near

\* The queries of an inventory, by their labels.
LEMMA InventoryQueries ==
    ASSUME NEW c, c.op \in {"dashboard", "inventory"}, NEW i \in 1 .. Len(Plan(c))
    PROVE  LET q == Plan(c)[i]
           IN  /\ q.label = "stock" => q = Stock
               /\ q.label = "purchases" => q = Received(InventoryFilter(c))
               /\ q.label = "sold" => q = SoldTo(InventoryFilter(c))
<1> PICK p, kpi, stk, bought, sold, dist, top, sellers :
      /\ p = Plan(c) /\ kpi = Kpi(c) /\ stk = Stock /\ bought = Received(InventoryFilter(c))
      /\ sold = SoldTo(InventoryFilter(c)) /\ dist = Dist(c) /\ top = Top(c) /\ sellers = Sellers
  OBVIOUS
<1>1. /\ kpi.label = "kpi" /\ stk.label = "stock" /\ bought.label = "purchases"
      /\ sold.label = "sold" /\ dist.label = "dist" /\ top.label = "top"
      /\ sellers.label = "sellers"
  BY QueryLabels
<1>2. \/ p = <<kpi, stk, bought, sold, dist, top, sellers>>
      \/ p = <<kpi, stk, bought, sold, top, sellers>> \/ p = <<stk, bought, sold>>
  BY PlanIs
<1>3. i \in 1 .. Len(p)
  OBVIOUS
<1>4. p[i] \in {kpi, stk, bought, sold, dist, top, sellers}
  <2>1. CASE p = <<kpi, stk, bought, sold, dist, top, sellers>>
    BY ONLY <1>3, <2>1
  <2>2. CASE p = <<kpi, stk, bought, sold, top, sellers>>
    BY ONLY <1>3, <2>2
  <2>3. CASE p = <<stk, bought, sold>>
    BY ONLY <1>3, <2>3
  <2>4. QED BY <1>2, <2>1, <2>2, <2>3
<1>5. QED BY <1>1, <1>4

\* Unfiltered and unlimited, they answer with all there is.
LEMMA AllThereIs ==
    ASSUME NEW c, ReadsAll(c), NEW a
    PROVE  /\ a \in Results(Stock) => a = stock
           /\ a \in Results(Received(InventoryFilter(c))) => a = purchases
           /\ a \in Results(SoldTo(InventoryFilter(c))) => a = sales
<1> PICK f : f = InventoryFilter(c)
  OBVIOUS
<1>1. f.from = Blank /\ f.to = Blank /\ f.event = Anybody /\ f.place = Anybody
      /\ "seller" \in DOMAIN f
  BY DEF ReadsAll, AllTime, InventoryFilter, ReadFilters
<1>2. a \in Results(Stock) => a = stock
  BY QueryLabels DEF Results
<1>3. a \in Results(Received(f)) => a = purchases
  <2> PICK q : q = Received(f)
    OBVIOUS
  <2>1. /\ q.of = "purchases" /\ q.limit = NoLimit
        /\ q.filter = [from |-> Blank, to |-> Blank, by |-> Anybody, book |-> Anybody]
    BY <1>1 DEF Received, Purchases, Query, Known
  <2>2. \A p \in purchases : /\ During(p.day, q.filter)
                             /\ q.filter.by \in {Anybody, p.by}
                             /\ q.filter.book \in {Anybody, p.book}
    BY <2>1 DEF During
  <2>3. Results(q) = {purchases}
    BY <2>1, <2>2 DEF Results, ListFiltered, Latest
  <2>4. QED BY <2>3
<1>4. a \in Results(SoldTo(f)) => a = sales
  <2> PICK q, g : q = SoldTo(f) /\ g = [f EXCEPT !.seller = Anybody]
    OBVIOUS
  <2>1. q.of = "sales" /\ q.limit = NoLimit /\ q.filter = g
    BY QueryLabels
  <2>2. g.from = Blank /\ g.to = Blank /\ g.event = Anybody /\ g.place = Anybody
        /\ g.seller = Anybody
    BY <1>1
  <2>3. \A s \in sales : Matches(s, q.filter) /\ During(s.day, q.filter)
    BY <2>1, <2>2 DEF Matches, During
  <2>4. Results(q) = {sales}
    BY <2>1, <2>3 DEF Results, QuerySales, Latest
  <2>5. QED BY <2>4
<1>5. QED BY <1>2, <1>3, <1>4

\* An answer is what the figure was until then.
LEMMA NearReads ==
    ASSUME Shape, Reading, NEW r \in Requests, Ask(r), ~Fails(Head(todo[r])), ReadsAll(call[r]),
           Near(r)
    PROVE  Near(r)'
<1> PICK c, p : c = call[r] /\ p = Plan(c)
  OBVIOUS
<1> PICK n \in 0 .. Len(p) : Read(r, n)
  BY DEF Ask, At, Reading
<1> PICK q : q = p[n + 1]
  OBVIOUS
<1>1. /\ n + 1 \in 1 .. Len(p) /\ Head(todo[r]) = q
      /\ \A i \in 1 .. n : p[i].label # q.label
  BY NextQuery
<1> PICK a \in Results(q) : seen' = [seen EXCEPT ![r] = With(@, q.label, a)]
  BY <1>1 DEF Ask
<1>2. seen'[r] = With(seen[r], q.label, a) /\ UNCHANGED <<tables, drift>>
  BY DEF Ask, Reading, Functions
<1>3. q.label \notin DOMAIN seen[r]
  BY <1>1 DEF Read
<1>4. /\ q.label = "stock" => a = stock
      /\ q.label = "purchases" => a = purchases
      /\ q.label = "sold" => a = sales
  <2>1. c.op \in {"dashboard", "inventory"} /\ ReadsAll(c)
    BY DEF ReadsAll
  <2>2. /\ q.label = "stock" => q = Stock
        /\ q.label = "purchases" => q = Received(InventoryFilter(c))
        /\ q.label = "sold" => q = SoldTo(InventoryFilter(c))
    BY <1>1, <2>1, InventoryQueries
  <2>3. QED BY <2>1, <2>2, AllThereIs
<1> PICK old, new : old = seen[r] /\ new = seen'[r]
  OBVIOUS
<1>5. /\ DOMAIN new = DOMAIN old \cup {q.label} /\ new[q.label] = a
      /\ \A label \in DOMAIN old : label # q.label => new[label] = old[label]
  BY <1>2 DEF With
<1>6. ASSUME NEW b \in Books
      PROVE  /\ OnHand(r, b)' = OnHand(r, b) /\ BoughtOf(r, b)' = BoughtOf(r, b)
             /\ SoldOf(r, b)' = SoldOf(r, b)
  <2>1. OnHand(r, b)' = OnHand(r, b)
    BY <1>2, <1>3, <1>4, <1>5 DEF OnHand, tables
  <2>2. BoughtOf(r, b)' = BoughtOf(r, b)
    BY <1>2, <1>3, <1>4, <1>5 DEF BoughtOf, tables
  <2>3. SoldOf(r, b)' = SoldOf(r, b)
    BY <1>2, <1>3, <1>4, <1>5 DEF SoldOf, tables
  <2>4. QED BY <2>1, <2>2, <2>3
<1>7. QED BY <1>2, <1>6 DEF Near, tables

\* A report is as near as it was when nothing moves and it reads nothing.
LEMMA NearStays ==
    ASSUME NEW r, UNCHANGED <<stock, purchases, sales, base, overrun, seen[r], drift[r]>>, Near(r)
    PROVE  Near(r)'
BY DEF Near, OnHand, BoughtOf, SoldOf

\* Reports stay near, whatever the others do.
LEMMA NearingStep ==
    ASSUME Shape, Kept, Reading, Nearing, [Next]_vars PROVE Nearing'
<1> SUFFICES ASSUME NEW r \in Requests, pc'[r] = "report", ReadsAll(call'[r]) PROVE Near(r)'
  BY DEF Nearing
<1>1. CASE UNCHANGED vars
  BY <1>1, NearStays DEF vars, Nearing
<1>2. ASSUME NEW q \in Requests, Arrive(q) PROVE Near(r)'
  <2>1. CASE q = r
    BY <1>2, <2>1, NearFirst
  <2>2. CASE q # r
    <3>1. pc[r] = pc'[r] /\ call[r] = call'[r]
          /\ UNCHANGED <<stock, purchases, sales, base, overrun, seen[r], drift[r]>>
      BY <1>2, <2>2 DEF Arrive, tables, Shape, TypeOK
    <3>2. QED BY <3>1, NearStays DEF Nearing
  <2>3. QED BY <2>1, <2>2
<1>3. ASSUME NEW q \in Requests, Ledger(q) PROVE Near(r)'
  <2>1. pc'[q] # "report" /\ \A x \in Requests \ {q} : pc'[x] = pc[x] /\ call'[x] = call[x]
    BY <1>3 DEF Ledger, Transaction, StockDomain, Receive, Sell, Edit, Erase, AdjustStock, Write,
       UpdateCost, Price, CreateStock, Add, DeleteStock, AdjustBatch, At, Goto, Finish, Miss, Wrote,
       Shape, TypeOK
  <2>2. pc[r] = "report" /\ call[r] = call'[r] /\ seen'[r] = seen[r]
    BY <1>3, <2>1 DEF Ledger
  <2>3. Shape' /\ Near(r)
    BY <2>2, ShapeStep DEF Nearing
  <2>4. QED BY <1>3, <2>2, <2>3, NearMoves DEF Reading
<1>4. ASSUME NEW q \in Requests, Ask(q) \/ Answer(q) \/ Overview(q) \/ Relocate(q) PROVE Near(r)'
  <2>1. CASE q = r
    <3>1. Ask(r) /\ ~Fails(Head(todo[r])) /\ pc[r] = "report" /\ call'[r] = call[r]
      BY <1>4, <2>1 DEF Ask, Answer, Overview, Locate, Tally, Name, Total, Relocate, At, Goto, Finish,
         Shape, TypeOK
    <3>2. QED BY <3>1, NearReads DEF Nearing
  <2>2. CASE q # r
    <3>1. pc[r] = pc'[r] /\ call[r] = call'[r]
          /\ UNCHANGED <<stock, purchases, sales, base, overrun, seen[r], drift[r]>>
      BY <1>4, <2>2 DEF Ask, Answer, Overview, Locate, Tally, Name, Total, Relocate, tables, Reading,
         Functions, Goto, Finish, Shape, TypeOK
    <3>2. QED BY <3>1, NearStays DEF Nearing
  <2>3. QED BY <2>1, <2>2
<1>5. QED BY <1>1, <1>2, <1>3, <1>4 DEF Next

\* The copies of the rows of a book are its units.
LEMMA CopiesOfBook ==
    ASSUME NEW rows, NEW b PROVE Copies(Part(rows, b)) = Units(rows, b)
<1> DEFINE part == Part(rows, b)
           f == [s \in part |-> s.qty]
           g == [s \in rows |-> s.qty]
<1>1. \A s \in part : f[s] = g[s]
  BY DEF Part
<1>2. Copies(part) = SumOver(part, f) /\ Units(rows, b) = SumOver(part, g)
  BY DEF Copies, Units, Part
<1> HIDE DEF part, f, g
<1>3. SumOver(part, f) = SumOver(part, g)
  BY <1>1, SumSame
<1>4. QED BY <1>2, <1>3 DEF part

\* The line of a book in an inventory.
LEMMA LineOfBook ==
    ASSUME NEW s, NEW b \in Books
    PROVE  /\ Inventory(s)[b].initial =
                 Initial(Qty(s.stock[b]), Copies(Part(s.purchases, b)), Copies(Part(s.sold, b)))
           /\ Inventory(s)[b].sold = Copies(Part(s.sold, b))
BY DEF Inventory, InventoryRow, Part

\* An answer of all time opens near what the book had beside its records.
LEMMA OpeningFigure ==
    ASSUME Shape, Reading, Nearing, NEW r \in Requests, Answer(r), ReadsAll(call[r]),
           NEW b \in Books \ overrun
    PROVE  Distance(report'[r].inventory[b].initial, base[b]) <= drift[r][b]
<1> PICK c, s, out : c = call[r] /\ s = seen[r] /\ out = report'[r]
  OBVIOUS
<1>1. c.op \in ReportOps /\ out \in Composed(c, s) /\ c.op \in {"dashboard", "inventory"}
  BY Answered, Sections DEF ReadsAll
<1>2. out.inventory = Inventory(s)
  BY ONLY <1>1, Figures
<1>3. {"stock", "purchases", "sold"} \subseteq DOMAIN s
  <2> PICK f : f = InventoryFilter(c)
    OBVIOUS
  <2>1. /\ Stock.label \in DOMAIN s /\ Received(f).label \in DOMAIN s
        /\ SoldTo(f).label \in DOMAIN s
    BY <1>1, Sections
  <2>2. Stock.label = "stock" /\ Received(f).label = "purchases" /\ SoldTo(f).label = "sold"
    BY ONLY QueryLabels
  <2>3. QED BY <2>1, <2>2
<1>4. Inventory(s)[b].initial = Initial(OnHand(r, b), BoughtOf(r, b), SoldOf(r, b))
  BY <1>3, LineOfBook, CopiesOfBook DEF OnHand, BoughtOf, SoldOf
<1>5. Near(r)
  BY DEF Answer, At, Nearing
<1>6. QED BY <1>2, <1>4, <1>5 DEF Near

\* Only its answer changes the figures of a report.
LEMMA OnlyAnswer ==
    ASSUME Shape, Reading, [Next]_vars, NEW r \in Requests,
           call[r].op \in ReportOps, report'[r] # report[r]
    PROVE  Answer(r)
<1>1. ~UNCHANGED vars
  BY DEF vars
<1>2. \A q \in Requests : ~Arrive(q) /\ ~Ledger(q) /\ ~Ask(q) /\ ~Relocate(q)
  BY DEF Arrive, Ledger, Ask, Relocate
<1>3. ASSUME NEW q \in Requests, Overview(q) PROVE FALSE
  <2>1. call[q].op = "overview"
    BY <1>3 DEF Overview, Locate, Tally, Name, Total, At, Shape, Placed, OverviewSteps
  <2>2. q # r
    BY <2>1 DEF ReportOps, DashboardOps, InwardOps
  <2>3. report'[r] = report[r]
    BY <1>3, <2>2 DEF Overview, Locate, Tally, Name, Total, Reading, Functions
  <2>4. QED BY <2>3
<1>4. PICK q \in Requests : Answer(q)
  BY <1>1, <1>2, <1>3 DEF Next
<1>5. q = r
  BY <1>4 DEF Answer, Reading, Functions
<1>6. QED BY <1>4, <1>5

\* The opening figure of an inventory of all time is off from what the book had beside
\* its records by no more than the copies of it that moved while the three tables were
\* read, whatever the order, unless a write of its row was lost.
THEOREM OpeningFigures == Spec => InventoryAddsUp
<1>1. ReportInit => Shape /\ Reading /\ Kept /\ Nearing
  <2>1. ReportInit => \A r \in Requests : pc[r] = "idle"
    BY DEF ReportInit, StockInit
  <2>2. QED BY <2>1, ShapeInit, ReadingInit DEF Kept, Nearing
<1>2. Shape /\ Reading /\ Kept /\ Nearing /\ [Next]_vars => (Shape /\ Reading /\ Kept /\ Nearing)'
  BY ShapeStep, ReadingStep, KeptStep, NearingStep
<1>3. Shape /\ Reading /\ Nearing /\ [Next]_vars =>
      [\A r \in Requests :
         /\ call[r] # NoCall /\ call[r].op \in {"dashboard", "inventory"}
         /\ AllTime(call[r]) /\ report'[r] # report[r]
         => \A b \in Books \ overrun :
                Distance(report'[r].inventory[b].initial, base[b]) <= drift[r][b]]_vars
  <2> SUFFICES ASSUME Shape, Reading, Nearing, [Next]_vars, NEW r \in Requests,
                      call[r].op \in {"dashboard", "inventory"}, AllTime(call[r]),
                      report'[r] # report[r], NEW b \in Books \ overrun
               PROVE  Distance(report'[r].inventory[b].initial, base[b]) <= drift[r][b]
    OBVIOUS
  <2>1. Answer(r)
    BY OnlyAnswer DEF ReportOps, DashboardOps
  <2>2. QED BY <2>1, OpeningFigure DEF ReadsAll
<1>4. QED BY <1>1, <1>2, <1>3, PTL DEF Spec, InventoryAddsUp

-----------------------------------------------------------------------------
(* The sections of a dashboard *)

\* When nothing moved, an answer is what it was asked for, whole.
LEMMA Whole ==
    ASSUME Shape, NEW r, \A b \in Books : drift[r][b] = 0, NEW q, q.of = "sales", q.limit = NoLimit,
           NEW a, Fits(r, q, a)
    PROVE  a = Found(q)
<1>1. a \subseteq sales /\ Found(q) \subseteq sales
  BY DEF Fits, Found
<1>2. \A s \in sales : s.book \in Books
  BY DEF Shape, Records, IsSale, IsRecord
<1>3. \A b \in Books : Part(a, b) = Part(Found(q), b)
  BY DEF Fits
<1>4. ASSUME NEW s \in sales PROVE s \in a <=> s \in Found(q)
  <2>1. Part(a, s.book) = Part(Found(q), s.book)
    BY <1>2, <1>3
  <2>2. (s \in a <=> s \in Part(a, s.book)) /\ (s \in Found(q) <=> s \in Part(Found(q), s.book))
    BY DEF Part
  <2>3. QED BY <2>1, <2>2
<1>5. QED BY <1>1, <1>4

\* The sections without filters of their own have the filters of the page.
LEMMA SameFilters ==
    ASSUME NEW c, \A section \in {"dist", "books", "inv"} : c.params[section] = NoFilter
    PROVE  /\ TopFilter(c) = KpiFilter(c)
           /\ c.admin => ReadFilters(c.params, "dist") = KpiFilter(c)
           /\ c.admin /\ c.params["page"].seller = Blank =>
                 [InventoryFilter(c) EXCEPT !.seller = Anybody] = KpiFilter(c)
<1>1. \A section \in {"dist", "books", "inv"} : /\ c.params[section].from = Blank
                                                /\ c.params[section].to = Blank
                                                /\ c.params[section].seller = Blank
                                                /\ c.params[section].event = Blank
  BY DEF NoFilter
<1>2. \A section \in {"dist", "books", "inv"} :
          ReadFilters(c.params, section) = ReadFilters(c.params, "page")
  BY <1>1 DEF ReadFilters, Pick
<1> PICK f : f = ReadFilters(c.params, "page")
  OBVIOUS
<1>3. c.admin => Pinned(f, c) = f
  <2>1. f = [f EXCEPT !.seller = f.seller]
    BY DEF ReadFilters
  <2>2. QED BY <2>1 DEF Pinned
<1>4. c.params["page"].seller = Blank => [f EXCEPT !.seller = Anybody] = f
  BY DEF ReadFilters, Pick
<1>5. QED BY <1>2, <1>3, <1>4 DEF TopFilter, KpiFilter, InventoryFilter

\* The figures of some of the rows are sums over them.
LEMMA FiguresOfPart ==
    ASSUME NEW rows, NEW own \in SUBSET rows
    PROVE  /\ Copies(own) = SumOver(own, [s \in rows |-> s.qty])
           /\ Revenue(own) = SumOver(own, [s \in rows |-> s.qty * s.price])
<1>1. \A s \in own : /\ [t \in own |-> t.qty][s] = [t \in rows |-> t.qty][s]
                     /\ [t \in own |-> t.qty * t.price][s] = [t \in rows |-> t.qty * t.price][s]
  OBVIOUS
<1>2. /\ SumOver(own, [t \in own |-> t.qty]) = SumOver(own, [t \in rows |-> t.qty])
      /\ SumOver(own, [t \in own |-> t.qty * t.price])
            = SumOver(own, [t \in rows |-> t.qty * t.price])
  BY <1>1, SumSame
<1>3. QED BY <1>2 DEF Copies, Revenue

\* The copies of the books' entries are the copies of the rows.
LEMMA BooksAddUp ==
    ASSUME NEW rows, IsFiniteSet(rows), \A row \in rows : IsSale(row),
           NEW T, T = TopBookEntries(rows)
    PROVE  IsFiniteSet(T) /\ SumOver(T, [e \in T |-> e.qty]) = Copies(rows)
<1> DEFINE entry(b) == LET own == {s \in rows : s.book = b}
                       IN  [book |-> b, qty |-> Copies(own), profit |-> Revenue(own) - Cost(own)]
<1> PICK f, key, K, E, h : /\ f = [s \in rows |-> s.qty] /\ key = [s \in rows |-> s.book]
                           /\ K = {s.book : s \in rows}
                           /\ E = [b \in K |-> entry(b)]
                           /\ h = [e \in T |-> e.qty]
  OBVIOUS
<1>1. IsFiniteSet(rows) /\ \A s \in rows : f[s] \in Int
  BY DEF IsSale, IsRecord
<1>2. K = {key[s] : s \in rows}
  OBVIOUS
<1>3. IsFiniteSet(K)
  BY <1>2, ImageFinite
<1>4. \A s \in rows : key[s] \in K
  OBVIOUS
<1>5. T = {E[b] : b \in K}
  BY DEF TopBookEntries
<1>6. \A b \in K : /\ E[b].book = b /\ E[b].qty = Copies({s \in rows : s.book = b})
                   /\ E[b] \in T
  BY <1>5
<1> HIDE DEF entry
<1>7. \A k, l \in K : E[k] = E[l] => k = l
  BY <1>6
<1>8. ASSUME NEW k \in K PROVE h[E[k]] = SumOver({s \in rows : key[s] = k}, f)
  <2>1. {s \in rows : key[s] = k} = {s \in rows : s.book = k}
    OBVIOUS
  <2>2. Copies({s \in rows : s.book = k}) = SumOver({s \in rows : s.book = k}, f)
    BY FiguresOfPart
  <2>3. QED BY <1>6, <2>1, <2>2
<1>9. /\ IsFiniteSet({E[k] : k \in K})
      /\ SumOver({E[k] : k \in K}, h) = SumOver(rows, f)
  BY ONLY <1>1, <1>3, <1>4, <1>7, <1>8, SumEntries
<1>10. QED BY <1>5, <1>9 DEF Copies

\* The money of the sellers' entries is the money of the rows.
LEMMA StatsAddUp ==
    ASSUME NEW rows, IsFiniteSet(rows), \A row \in rows : IsSale(row),
           NEW T, T = SellerStats(rows)
    PROVE  IsFiniteSet(T) /\ SumOver(T, [e \in T |-> e.revenue]) = Revenue(rows)
<1> DEFINE stat(name) == LET own == {s \in rows : s.seller = name}
                         IN  [seller |-> name, revenue |-> Revenue(own), qty |-> Copies(own),
                              profit |-> Revenue(own) - Cost(own)]
<1> PICK f, key, K, E, h : /\ f = [s \in rows |-> s.qty * s.price]
                           /\ key = [s \in rows |-> s.seller]
                           /\ K = {s.seller : s \in rows}
                           /\ E = [name \in K |-> stat(name)]
                           /\ h = [e \in T |-> e.revenue]
  OBVIOUS
<1>1. IsFiniteSet(rows) /\ \A s \in rows : f[s] \in Int
  BY DEF IsSale, IsRecord
<1>2. K = {key[s] : s \in rows}
  OBVIOUS
<1>3. IsFiniteSet(K)
  BY <1>2, ImageFinite
<1>4. \A s \in rows : key[s] \in K
  OBVIOUS
<1>5. T = {E[name] : name \in K}
  BY DEF SellerStats
<1>6. \A name \in K : /\ E[name].seller = name
                      /\ E[name].revenue = Revenue({s \in rows : s.seller = name})
                      /\ E[name] \in T
  BY <1>5
<1> HIDE DEF stat
<1>7. \A k, l \in K : E[k] = E[l] => k = l
  BY <1>6
<1>8. ASSUME NEW k \in K PROVE h[E[k]] = SumOver({s \in rows : key[s] = k}, f)
  <2>1. {s \in rows : key[s] = k} = {s \in rows : s.seller = k}
    OBVIOUS
  <2>2. Revenue({s \in rows : s.seller = k}) = SumOver({s \in rows : s.seller = k}, f)
    BY FiguresOfPart
  <2>3. QED BY <1>6, <2>1, <2>2
<1>9. /\ IsFiniteSet({E[k] : k \in K})
      /\ SumOver({E[k] : k \in K}, h) = SumOver(rows, f)
  BY ONLY <1>1, <1>3, <1>4, <1>7, <1>8, SumEntries
<1>10. QED BY <1>5, <1>9 DEF Revenue

\* The copies of all books are the copies of the rows, the books without rows having
\* none.
LEMMA PartsAddUp ==
    ASSUME NEW rows, IsFiniteSet(rows), \A row \in rows : IsSale(row)
    PROVE  SumOver(Books, [b \in Books |-> Copies(Part(rows, b))]) = Copies(rows)
<1> PICK f, key, K, g : /\ f = [s \in rows |-> s.qty] /\ key = [s \in rows |-> s.book]
                        /\ K = {s.book : s \in rows}
                        /\ g = [b \in Books |-> Copies(Part(rows, b))]
  OBVIOUS
<1>1. IsFiniteSet(rows) /\ \A s \in rows : f[s] \in Int
  BY DEF IsSale, IsRecord
<1>2. K = {key[s] : s \in rows} /\ K \subseteq Books
  BY DEF IsSale, IsRecord
<1>3. IsFiniteSet(K)
  BY <1>2, ImageFinite
<1>4. \A s \in rows : key[s] \in K
  OBVIOUS
<1>5. ASSUME NEW b \in Books PROVE g[b] = SumOver({s \in rows : key[s] = b}, f)
  <2>1. {s \in rows : key[s] = b} = Part(rows, b)
    BY DEF Part
  <2>2. Copies(Part(rows, b)) = SumOver(Part(rows, b), f)
    BY FiguresOfPart DEF Part
  <2>3. QED BY <2>1, <2>2
<1>6. \A k \in K : g[k] = SumOver({s \in rows : key[s] = k}, f)
  BY <1>2, <1>5
<1>7. SumOver(rows, f) = SumOver(K, g)
  BY ONLY <1>3, <1>4, <1>6, <1>1, SumParts
<1>8. \A b \in Books \ K : g[b] = 0
  <2> TAKE b \in Books \ K
  <2>1. {s \in rows : key[s] = b} = {}
    BY <1>4
  <2>2. QED BY <1>5, <2>1, SumEmpty
<1>9. SumOver(Books, g) = SumOver(K, g)
  BY <1>2, <1>8, SumSupport
<1>10. QED BY <1>7, <1>9 DEF Copies

\* A list that is not cut off has everything on it.
LEMMA NotCutOff ==
    ASSUME NEW S, IsFiniteSet(S), NEW key, NEW limit \in Nat, NEW T \in TopOf(S, key, limit),
           Cardinality(T) < limit
    PROVE  T = S
<1>1. T \subseteq S /\ Cardinality(T) = Min({limit, Cardinality(S)})
  BY DEF TopOf
<1>2. Cardinality(S) \in Nat
  BY FS_CardinalityType
<1>3. Min({limit, Cardinality(S)}) \in {limit, Cardinality(S)}
  <2>1. \E m \in {limit, Cardinality(S)} : \A n \in {limit, Cardinality(S)} : m =< n
    BY <1>2
  <2>2. QED BY <2>1 DEF Min
<1>4. Cardinality(T) = Cardinality(S)
  BY <1>1, <1>2, <1>3
<1>5. QED BY <1>1, <1>4, FS_Subset

\* A dashboard that answers after nothing moved has sections that agree.
LEMMA AgreeAnswer ==
    ASSUME Shape, Reading, NEW r \in Requests, Answer(r), "kpi" \in DOMAIN report'[r],
           \A b \in Books : drift[r][b] = 0,
           \A section \in {"dist", "books", "inv"} : call[r].params[section] = NoFilter
    PROVE  LET out == report'[r]
               c == call[r]
           IN  /\ Cardinality(out.books) < TopBooksLimit =>
                     SumOver(out.books, [e \in out.books |-> e.qty]) = out.kpi.qty
               /\ c.admin /\ Cardinality(out.leaderboard) < LeaderboardLimit =>
                     SumOver(out.leaderboard, [e \in out.leaderboard |-> e.revenue])
                        = out.kpi.revenue
               /\ c.admin /\ c.params["page"].seller = Blank =>
                     SumOver(Books, [b \in Books |-> out.inventory[b].sold]) = out.kpi.qty
<1> PICK c, s, out : c = call[r] /\ s = seen[r] /\ out = report'[r]
  OBVIOUS
<1>1. c.op \in ReportOps /\ out \in Composed(c, s)
  BY Answered, Sections
<1>2. c.op = "dashboard"
  BY <1>1, Figures
<1>3. /\ out.kpi = Kpis(s.kpi) /\ out.inventory = Inventory(s)
      /\ out.leaderboard \in IF c.admin THEN Leaderboards(s.dist) ELSE {{}}
      /\ out.books \in TopBooks(s.top)
  BY ONLY <1>1, <1>2, Figures
<1> PICK rows : rows = Found(Kpi(c))
  OBVIOUS
<1>4. ASSUME NEW q, NEW a, Fits(r, q, a), q.of = "sales", q.limit = NoLimit
       PROVE  a = Found(q)
  BY <1>4, Whole
<1>5. s.kpi = rows
  <2>1. Fits(r, Kpi(c), s.kpi)
    BY <1>2, Sections, QueryLabels
  <2> PICK q, a : q = Kpi(c) /\ a = s.kpi
    OBVIOUS
  <2>2. q.of = "sales" /\ q.limit = NoLimit /\ Fits(r, q, a)
    BY <2>1, QueryLabels
  <2>3. a = Found(q)
    BY <1>4, <2>2
  <2>4. QED BY <2>3
<1>6. s.top = rows
  <2>1. Fits(r, Top(c), s.top)
    BY <1>2, Sections, QueryLabels
  <2>2. s.top = Found(Top(c))
    <3> PICK q, a : q = Top(c) /\ a = s.top
      OBVIOUS
    <3>1. q.of = "sales" /\ q.limit = NoLimit /\ Fits(r, q, a)
      BY <2>1, QueryLabels
    <3>2. a = Found(q)
      BY <1>4, <3>1
    <3>3. QED BY <3>2
  <2>3. QED BY <2>2, SameFilters, QueryLabels DEF Found
<1>7. c.admin => s.dist = rows
  <2> SUFFICES ASSUME c.admin PROVE s.dist = rows
    OBVIOUS
  <2>1. Fits(r, Dist(c), s.dist)
    BY <1>2, Sections, QueryLabels
  <2>2. s.dist = Found(Dist(c))
    <3> PICK q, a : q = Dist(c) /\ a = s.dist
      OBVIOUS
    <3>1. q.of = "sales" /\ q.limit = NoLimit /\ Fits(r, q, a)
      BY <2>1, QueryLabels
    <3>2. a = Found(q)
      BY <1>4, <3>1
    <3>3. QED BY <3>2
  <2>3. QED BY <2>2, SameFilters, QueryLabels DEF Found
<1>8. c.admin /\ c.params["page"].seller = Blank => s.sold = rows
  <2> SUFFICES ASSUME c.admin, c.params["page"].seller = Blank PROVE s.sold = rows
    OBVIOUS
  <2> PICK f : f = InventoryFilter(c)
    OBVIOUS
  <2>1. Fits(r, SoldTo(f), s.sold)
    BY <1>2, Sections, QueryLabels
  <2>2. s.sold = Found(SoldTo(f))
    <3> PICK q, a : q = SoldTo(f) /\ a = s.sold
      OBVIOUS
    <3>1. q.of = "sales" /\ q.limit = NoLimit /\ Fits(r, q, a)
      BY <2>1, QueryLabels
    <3>2. a = Found(q)
      BY <1>4, <3>1
    <3>3. QED BY <3>2
  <2>3. SoldTo(f).filter = Kpi(c).filter
    BY SameFilters, QueryLabels
  <2>4. QED BY <2>2, <2>3 DEF Found
<1>9. IsFiniteSet(rows) /\ \A row \in rows : IsSale(row)
  <2>1. rows \subseteq sales
    BY DEF Found
  <2>2. QED BY <2>1, FS_Subset DEF Shape, Records
<1>10. Cardinality(out.books) < TopBooksLimit =>
          SumOver(out.books, [e \in out.books |-> e.qty]) = out.kpi.qty
  <2> SUFFICES ASSUME Cardinality(out.books) < TopBooksLimit
               PROVE  SumOver(out.books, [e \in out.books |-> e.qty]) = out.kpi.qty
    OBVIOUS
  <2> PICK T : T = TopBookEntries(rows)
    OBVIOUS
  <2>1. IsFiniteSet(T) /\ SumOver(T, [e \in T |-> e.qty]) = Copies(rows)
    BY <1>9, BooksAddUp
  <2>2. out.books \in TopOf(T, "qty", TopBooksLimit)
    BY <1>3, <1>6 DEF TopBooks
  <2>3. out.books = T
    BY <2>1, <2>2, NotCutOff, CutOffAssumption
  <2>4. out.kpi.qty = Copies(rows)
    BY <1>3, <1>5 DEF Kpis
  <2>5. QED BY <2>1, <2>3, <2>4
<1>11. c.admin /\ Cardinality(out.leaderboard) < LeaderboardLimit =>
          SumOver(out.leaderboard, [e \in out.leaderboard |-> e.revenue]) = out.kpi.revenue
  <2> SUFFICES ASSUME c.admin, Cardinality(out.leaderboard) < LeaderboardLimit
               PROVE  SumOver(out.leaderboard, [e \in out.leaderboard |-> e.revenue])
                         = out.kpi.revenue
    OBVIOUS
  <2> PICK T : T = SellerStats(rows)
    OBVIOUS
  <2>1. IsFiniteSet(T) /\ SumOver(T, [e \in T |-> e.revenue]) = Revenue(rows)
    BY <1>9, StatsAddUp
  <2>2. out.leaderboard \in TopOf(T, "revenue", LeaderboardLimit)
    BY <1>3, <1>7 DEF Leaderboards
  <2>3. out.leaderboard = T
    BY <2>1, <2>2, NotCutOff, CutOffAssumption
  <2>4. out.kpi.revenue = Revenue(rows)
    BY <1>3, <1>5 DEF Kpis
  <2>5. QED BY <2>1, <2>3, <2>4
<1>12. c.admin /\ c.params["page"].seller = Blank =>
          SumOver(Books, [b \in Books |-> out.inventory[b].sold]) = out.kpi.qty
  <2> SUFFICES ASSUME c.admin, c.params["page"].seller = Blank
               PROVE  SumOver(Books, [b \in Books |-> out.inventory[b].sold]) = out.kpi.qty
    OBVIOUS
  <2>1. \A b \in Books : out.inventory[b].sold = Copies(Part(rows, b))
    BY <1>3, <1>8, LineOfBook
  <2>2. [b \in Books |-> out.inventory[b].sold] = [b \in Books |-> Copies(Part(rows, b))]
    BY <2>1
  <2>3. SumOver(Books, [b \in Books |-> Copies(Part(rows, b))]) = Copies(rows)
    BY <1>9, PartsAddUp
  <2>4. out.kpi.qty = Copies(rows)
    BY <1>3, <1>5 DEF Kpis
  <2>5. QED BY <2>2, <2>3, <2>4
<1>13. QED BY <1>10, <1>11, <1>12

\* Sections that agree stay as they are.
LEMMA AgreeStep ==
    ASSUME Shape, Reading, SectionsAgree, [Next]_vars PROVE SectionsAgree'
<1> SUFFICES ASSUME NEW r \in Requests, reply'[r] = "ok", call'[r].op \in ReportOps,
                    "kpi" \in DOMAIN report'[r],
                    \A b \in Books : drift'[r][b] = 0,
                    \A section \in {"dist", "books", "inv"} :
                        call'[r].params[section] = NoFilter
             PROVE  LET out == report'[r]
                        c == call'[r]
                    IN  /\ Cardinality(out.books) < TopBooksLimit =>
                              SumOver(out.books, [e \in out.books |-> e.qty]) = out.kpi.qty
                        /\ c.admin /\ Cardinality(out.leaderboard) < LeaderboardLimit =>
                              SumOver(out.leaderboard, [e \in out.leaderboard |-> e.revenue])
                                 = out.kpi.revenue
                        /\ c.admin /\ c.params["page"].seller = Blank =>
                              SumOver(Books, [b \in Books |-> out.inventory[b].sold])
                                 = out.kpi.qty
  BY DEF SectionsAgree, Reads, NoFilter
<1>1. CASE Answer(r)
  <2>1. call'[r] = call[r] /\ drift'[r] = drift[r]
    BY <1>1, Answered
  <2>2. (\A b \in Books : drift[r][b] = 0) /\ \A section \in {"dist", "books", "inv"} :
                               call[r].params[section] = NoFilter
    BY <2>1
  <2>3. QED BY <1>1, <2>1, <2>2, AgreeAnswer
<1>2. CASE reply[r] = "ok" /\ UNCHANGED <<reply[r], call[r], report[r], seen[r], drift[r]>>
  BY <1>2 DEF SectionsAgree, Reads
<1>3. QED BY <1>1, <1>2, Outcome

\* The sections of a dashboard that all have the page's filters agree, when nothing
\* moved while it was read: the sums of the books and of the sellers, each list as far
\* as it is not cut off, and of the inventory are the totals.
THEOREM SectionsAddUp == Spec => []SectionsAgree
<1>1. ReportInit => Shape /\ Kept /\ Reading /\ SectionsAgree
  <2>1. ReportInit => \A r \in Requests : reply[r] = "none"
    BY DEF ReportInit, StockInit
  <2>2. QED BY <2>1, ShapeInit, ReadingInit DEF Kept, SectionsAgree, Reads
<1>2. Shape /\ Kept /\ Reading /\ SectionsAgree /\ [Next]_vars
        => (Shape /\ Kept /\ Reading /\ SectionsAgree)'
  BY ShapeStep, KeptStep, ReadingStep, AgreeStep
<1>3. QED BY <1>1, <1>2, PTL DEF Spec

-----------------------------------------------------------------------------
(* The sales overview *)

\* Whole numbers on finitely many lines, and the lines of one name.
Amounts(f) == IsFiniteSet(DOMAIN f) /\ \A k \in DOMAIN f : f[k] \in Int
LinesOfName(f, name) == {k \in DOMAIN f : k[1] = name}

\* The totals of an overview while it looks names up: those by location are the money
\* of the rows whose location has its name, those by volunteer split them up.
Tallied(o, a) ==
    /\ DOMAIN o = {"byPlace", "byVolunteer", "total"} /\ DOMAIN a = {"rows", "left"}
    /\ IsFiniteSet(a.rows) /\ \A s \in a.rows : IsSale(s)
    /\ o.total = Revenue(a.rows)
    /\ Amounts(o.byPlace) /\ Amounts(o.byVolunteer)
    /\ \A k \in DOMAIN o.byVolunteer : k[1] \in DOMAIN o.byPlace
    /\ SumOver(DOMAIN o.byPlace, o.byPlace) = Revenue({s \in a.rows : s.place \notin a.left})
    /\ \A n \in DOMAIN o.byPlace :
          SumOver(LinesOfName(o.byVolunteer, n), o.byVolunteer) = o.byPlace[n]

\* Totals with amounts merged into them add up to both, on any of the lines.
LEMMA MergedSums ==
    ASSUME NEW totals, Amounts(totals), NEW amounts, Amounts(amounts)
    PROVE  LET merged == Merged(totals, amounts)
           IN  /\ Amounts(merged) /\ DOMAIN merged = DOMAIN totals \cup DOMAIN amounts
               /\ \A P : SumOver(P \cap DOMAIN merged, merged)
                           = SumOver(P \cap DOMAIN totals, totals)
                             + SumOver(P \cap DOMAIN amounts, amounts)
<1> PICK merged : merged = Merged(totals, amounts)
  OBVIOUS
<1> PICK D : D = DOMAIN totals \cup DOMAIN amounts
  OBVIOUS
<1> PICK f, g : f = [k \in D |-> Line(totals, k)] /\ g = [k \in D |-> Line(amounts, k)]
  OBVIOUS
<1>1. IsFiniteSet(D)
  BY FS_Union DEF Amounts
<1>2. \A k \in D : f[k] \in Int /\ g[k] \in Int /\ merged[k] = f[k] + g[k]
  BY DEF Amounts, Line, Merged
<1>3. DOMAIN merged = D
  BY DEF Merged
<1>4. Amounts(merged)
  <2>1. \A k \in D : merged[k] \in Int
    BY ONLY <1>2
  <2>2. QED BY ONLY <1>1, <1>3, <2>1 DEF Amounts
<1> SUFFICES ASSUME NEW P
             PROVE  SumOver(P \cap DOMAIN merged, merged)
                       = SumOver(P \cap DOMAIN totals, totals)
                         + SumOver(P \cap DOMAIN amounts, amounts)
  BY <1>3, <1>4
<1> PICK S : S = P \cap D
  OBVIOUS
<1>5. IsFiniteSet(S) /\ \A k \in S : f[k] \in Int /\ g[k] \in Int /\ merged[k] = f[k] + g[k]
  BY <1>1, <1>2, FS_Subset
<1>6. SumOver(S, merged) = SumOver(S, f) + SumOver(S, g)
  BY ONLY <1>5, SumPlus
<1>7. SumOver(S, f) = SumOver(P \cap DOMAIN totals, totals)
  <2>1. \A k \in S \ (P \cap DOMAIN totals) : f[k] = 0
    BY DEF Line
  <2>2. SumOver(S, f) = SumOver(P \cap DOMAIN totals, f)
    BY <2>1, SumSupport
  <2>3. \A k \in P \cap DOMAIN totals : f[k] = totals[k]
    BY DEF Line
  <2>4. SumOver(P \cap DOMAIN totals, f) = SumOver(P \cap DOMAIN totals, totals)
    BY <2>3, SumSame
  <2>5. QED BY <2>2, <2>4
<1>8. SumOver(S, g) = SumOver(P \cap DOMAIN amounts, amounts)
  <2>1. \A k \in S \ (P \cap DOMAIN amounts) : g[k] = 0
    BY DEF Line
  <2>2. SumOver(S, g) = SumOver(P \cap DOMAIN amounts, g)
    BY <2>1, SumSupport
  <2>3. \A k \in P \cap DOMAIN amounts : g[k] = amounts[k]
    BY DEF Line
  <2>4. SumOver(P \cap DOMAIN amounts, g) = SumOver(P \cap DOMAIN amounts, amounts)
    BY <2>3, SumSame
  <2>5. QED BY <2>2, <2>4
<1>9. QED BY <1>3, <1>6, <1>7, <1>8

\* The money of rows is a whole number, and that of two sets of them the sum of theirs.
LEMMA RevenueOfBoth ==
    ASSUME NEW rows, IsFiniteSet(rows), \A s \in rows : IsSale(s),
           NEW A \in SUBSET rows, NEW B \in SUBSET rows, A \cap B = {}
    PROVE  /\ Revenue(A) \in Int /\ Revenue(B) \in Int
           /\ Revenue(A \cup B) = Revenue(A) + Revenue(B)
<1> PICK f : f = [s \in rows |-> s.qty * s.price]
  OBVIOUS
<1>1. \A s \in rows : f[s] \in Int
  BY DEF IsSale, IsRecord
<1>2. IsFiniteSet(A) /\ IsFiniteSet(B) /\ \A s \in A \cup B : f[s] \in Int
  BY <1>1, FS_Subset
<1>3. /\ Revenue(A) = SumOver(A, f) /\ Revenue(B) = SumOver(B, f)
      /\ Revenue(A \cup B) = SumOver(A \cup B, f)
  BY FiguresOfPart
<1>4. SumOver(A, f) \in Int /\ SumOver(B, f) \in Int
  BY <1>2, SumType
<1>5. SumOver(A \cup B, f) = SumOver(A, f) + SumOver(B, f)
  BY <1>2, SumUnion
<1>6. QED BY <1>3, <1>4, <1>5

\* One line adds up to its amount.
LEMMA OneLine ==
    ASSUME NEW name, NEW n \in Int, NEW f, f = [k \in {name} |-> n]
    PROVE  Amounts(f) /\ SumOver({name}, f) = n
<1>1. IsFiniteSet({}) /\ IsFiniteSet({name})
  BY FS_EmptySet, FS_Singleton
<1>2. SumOver({} \cup {name}, f) = SumOver({}, f) + f[name]
  BY <1>1, SumAdd
<1>3. SumOver({}, f) = 0 /\ {} \cup {name} = {name}
  BY SumEmpty
<1>4. QED BY <1>1, <1>2, <1>3 DEF Amounts

\* The rows of a location, its line, and a line for each of its volunteers.
OfPlace(rows, p) == {s \in rows : s.place = p}
OfName(rows, name) == [n \in {name} |-> Revenue(rows)]
OfVolunteers(rows, name) ==
    [k \in {name} \X {s.seller : s \in rows} |-> Revenue({s \in rows : s.seller = k[2]})]

\* The lines of a location's volunteers add up to the money of its rows.
LEMMA VolunteersLines ==
    ASSUME NEW rows, IsFiniteSet(rows), \A s \in rows : IsSale(s), NEW name
    PROVE  LET h == OfVolunteers(rows, name)
           IN  Amounts(h) /\ SumOver(DOMAIN h, h) = Revenue(rows)
<1> PICK K, h : K = {s.seller : s \in rows} /\ h = OfVolunteers(rows, name)
  OBVIOUS
<1>1. h = [k \in {name} \X K |-> Revenue({s \in rows : s.seller = k[2]})]
  BY DEF OfVolunteers
<1> PICK f, key, E : /\ f = [s \in rows |-> s.qty * s.price]
                     /\ key = [s \in rows |-> s.seller]
                     /\ E = [m \in K |-> <<name, m>>]
  OBVIOUS
<1>2. IsFiniteSet(rows) /\ \A s \in rows : f[s] \in Int
  BY DEF IsSale, IsRecord
<1>3. K = {key[s] : s \in rows}
  OBVIOUS
<1>4. IsFiniteSet(K)
  BY <1>3, ImageFinite
<1>5. \A s \in rows : key[s] \in K
  OBVIOUS
<1>6. {E[m] : m \in K} = {name} \X K
  <2>1. \A m \in K : E[m] \in {name} \X K
    OBVIOUS
  <2>2. ASSUME NEW k \in {name} \X K PROVE k[2] \in K /\ k = E[k[2]]
    BY <2>2
  <2>3. QED BY ONLY <2>1, <2>2
<1>7. \A k, l \in K : E[k] = E[l] => k = l
  OBVIOUS
<1>8. ASSUME NEW k \in K PROVE h[E[k]] = SumOver({s \in rows : key[s] = k}, f)
  <2>1. E[k] \in {name} \X K /\ E[k][2] = k
    OBVIOUS
  <2>2. h[E[k]] = Revenue({s \in rows : s.seller = k})
    BY <1>1, <2>1
  <2>3. {s \in rows : key[s] = k} = {s \in rows : s.seller = k}
    OBVIOUS
  <2>4. Revenue({s \in rows : s.seller = k}) = SumOver({s \in rows : s.seller = k}, f)
    BY FiguresOfPart
  <2>5. QED BY <2>2, <2>3, <2>4
<1>9. /\ IsFiniteSet({E[k] : k \in K})
      /\ SumOver({E[k] : k \in K}, h) = SumOver(rows, f)
  BY ONLY <1>2, <1>4, <1>5, <1>7, <1>8, SumEntries
<1>10. DOMAIN h = {name} \X K /\ \A k \in {name} \X K : h[k] \in Int
  <2> SUFFICES ASSUME NEW k \in {name} \X K PROVE h[k] \in Int
    BY <1>1
  <2>1. h[k] = Revenue({s \in rows : s.seller = k[2]})
    BY <1>1
  <2>2. {s \in rows : s.seller = k[2]} \in SUBSET rows /\ {} \in SUBSET rows
    OBVIOUS
  <2>3. Revenue({s \in rows : s.seller = k[2]}) \in Int
    BY <2>2, RevenueOfBoth
  <2>4. QED BY <2>1, <2>3
<1>11. QED BY <1>6, <1>9, <1>10 DEF Amounts, Revenue

\* Looking up the name of one location more.
LEMMA NamedOne ==
    ASSUME NEW o, NEW a, Tallied(o, a), NEW p \in a.left, NEW name,
           NEW o2, DOMAIN o2 = DOMAIN o, o2.total = o.total,
           o2.byPlace = Merged(o.byPlace, OfName(OfPlace(a.rows, p), name)),
           o2.byVolunteer = Merged(o.byVolunteer, OfVolunteers(OfPlace(a.rows, p), name)),
           NEW a2, DOMAIN a2 = DOMAIN a, a2.rows = a.rows, a2.left = a.left \ {p}
    PROVE  Tallied(o2, a2)
<1> PICK rows : rows = OfPlace(a.rows, p)
  OBVIOUS
<1> PICK places_, volunteers : places_ = OfName(rows, name) /\ volunteers = OfVolunteers(rows, name)
  OBVIOUS
<1> PICK byPlace, byVolunteer : byPlace = o.byPlace /\ byVolunteer = o.byVolunteer
  OBVIOUS
<1> PICK byPlace2, byVolunteer2 : byPlace2 = o2.byPlace /\ byVolunteer2 = o2.byVolunteer
  OBVIOUS
<1>1. rows = {s \in a.rows : s.place = p} /\ places_ = [n \in {name} |-> Revenue(rows)]
  BY DEF OfPlace, OfName
<1>2. /\ IsFiniteSet(a.rows) /\ \A s \in a.rows : IsSale(s)
      /\ Amounts(byPlace) /\ Amounts(byVolunteer)
      /\ \A k \in DOMAIN byVolunteer : k[1] \in DOMAIN byPlace
      /\ SumOver(DOMAIN byPlace, byPlace) = Revenue({s \in a.rows : s.place \notin a.left})
      /\ \A n \in DOMAIN byPlace :
            SumOver(LinesOfName(byVolunteer, n), byVolunteer) = byPlace[n]
  BY DEF Tallied
<1> PICK done : done = {s \in a.rows : s.place \notin a.left}
  OBVIOUS
<1>3. /\ Revenue(done) \in Int /\ Revenue(rows) \in Int
      /\ Revenue(done \cup rows) = Revenue(done) + Revenue(rows)
  <2>1. done \in SUBSET a.rows /\ rows \in SUBSET a.rows /\ done \cap rows = {}
    BY <1>1
  <2>2. QED BY ONLY <1>2, <2>1, RevenueOfBoth
<1>4. Amounts(places_) /\ SumOver({name}, places_) = Revenue(rows)
  BY <1>3, <1>1, OneLine
<1> PICK sellers : sellers = {s.seller : s \in rows}
  OBVIOUS
<1>5. DOMAIN places_ = {name} /\ DOMAIN volunteers = {name} \X sellers
  BY <1>1 DEF OfVolunteers
<1>6. Amounts(volunteers) /\ SumOver({name} \X sellers, volunteers) = Revenue(rows)
  <2>1. IsFiniteSet(rows) /\ \A s \in rows : IsSale(s)
    BY <1>2, <1>1, FS_Subset
  <2>2. QED BY <1>5, <2>1, VolunteersLines
<1>7. Amounts(byPlace) /\ Amounts(byVolunteer) /\ Amounts(places_) /\ Amounts(volunteers)
  BY <1>2, <1>4, <1>6
<1>8. byPlace2 = Merged(byPlace, places_) /\ byVolunteer2 = Merged(byVolunteer, volunteers)
  OBVIOUS
<1>9. Amounts(byPlace2) /\ DOMAIN byPlace2 = DOMAIN byPlace \cup {name}
  BY ONLY <1>5, <1>8, <1>7, MergedSums
<1>10. Amounts(byVolunteer2) /\ DOMAIN byVolunteer2 = DOMAIN byVolunteer \cup ({name} \X sellers)
  BY ONLY <1>5, <1>8, <1>7, MergedSums
<1>11. SumOver(DOMAIN byPlace2, byPlace2) = Revenue({s \in a2.rows : s.place \notin a2.left})
  <2> PICK D : D = DOMAIN byPlace2
    OBVIOUS
  <2>1. SumOver(D \cap DOMAIN byPlace2, byPlace2)
           = SumOver(D \cap DOMAIN byPlace, byPlace) + SumOver(D \cap DOMAIN places_, places_)
    BY ONLY <1>8, <1>7, MergedSums
  <2>2. D \cap DOMAIN byPlace2 = DOMAIN byPlace2 /\ D \cap DOMAIN byPlace = DOMAIN byPlace
        /\ D \cap DOMAIN places_ = {name}
    BY <1>5, <1>9
  <2>3. SumOver(DOMAIN byPlace2, byPlace2) = Revenue(done \cup rows)
    BY <1>2, <1>3, <1>4, <2>1, <2>2
  <2>4. done \cup rows = {s \in a2.rows : s.place \notin a2.left}
    BY <1>1
  <2>5. QED BY <2>3, <2>4
<1>12. \A k \in DOMAIN byVolunteer2 : k[1] \in DOMAIN byPlace2
  <2>1. \A k \in {name} \X sellers : k[1] = name
    OBVIOUS
  <2>2. QED BY <1>2, <1>9, <1>10, <2>1
<1>13. ASSUME NEW n \in DOMAIN byPlace2
       PROVE  SumOver(LinesOfName(byVolunteer2, n), byVolunteer2) = byPlace2[n]
  <2> PICK P : P = LinesOfName(byVolunteer2, n)
    OBVIOUS
  <2>1. SumOver(P \cap DOMAIN byVolunteer2, byVolunteer2)
           = SumOver(P \cap DOMAIN byVolunteer, byVolunteer)
             + SumOver(P \cap DOMAIN volunteers, volunteers)
    BY ONLY <1>8, <1>7, MergedSums
  <2>2. P \cap DOMAIN byVolunteer2 = P
        /\ P \cap DOMAIN byVolunteer = LinesOfName(byVolunteer, n)
    BY <1>10 DEF LinesOfName
  <2>3. SumOver(LinesOfName(byVolunteer, n), byVolunteer) = Line(byPlace, n)
    <3>1. CASE n \in DOMAIN byPlace
      BY <1>2, <3>1 DEF Line
    <3>2. CASE n \notin DOMAIN byPlace
      <4>1. LinesOfName(byVolunteer, n) = {}
        BY <1>2, <3>2 DEF LinesOfName
      <4>2. QED BY <3>2, <4>1, SumEmpty DEF Line
    <3>3. QED BY <3>1, <3>2
  <2>4. SumOver(P \cap DOMAIN volunteers, volunteers) = Line(places_, n)
    <3>1. CASE n = name
      <4>1. \A k \in {name} \X sellers : k[1] = name
        OBVIOUS
      <4>2. P \cap DOMAIN volunteers = {name} \X sellers
        BY <1>5, <1>10, <3>1, <4>1 DEF LinesOfName
      <4>3. Line(places_, n) = Revenue(rows)
        BY <1>1, <3>1 DEF Line
      <4>4. QED BY <1>6, <4>2, <4>3
    <3>2. CASE n # name
      <4>1. \A k \in {name} \X sellers : k[1] = name
        OBVIOUS
      <4>2. P \cap DOMAIN volunteers = {}
        BY <1>5, <3>2, <4>1 DEF LinesOfName
      <4>3. Line(places_, n) = 0
        BY <1>5, <3>2 DEF Line
      <4>4. QED BY <4>2, <4>3, SumEmpty
    <3>3. QED BY <3>1, <3>2
  <2>5. byPlace2[n] = Line(byPlace, n) + Line(places_, n)
    BY <1>5, <1>9 DEF Merged
  <2>6. QED BY <2>1, <2>2, <2>3, <2>4, <2>5
<1>14. DOMAIN o2 = {"byPlace", "byVolunteer", "total"} /\ DOMAIN a2 = {"rows", "left"}
       /\ o2.total = Revenue(a2.rows)
  BY DEF Tallied
<1>15. IsFiniteSet(a2.rows) /\ \A s \in a2.rows : IsSale(s)
  BY <1>2
<1>16. QED BY <1>9, <1>10, <1>11, <1>12, <1>13, <1>14, <1>15 DEF Tallied

\* While it looks names up an overview adds up, as it does when it is told.
Overviews ==
    \A r \in Requests : pc[r] = "names" => Tallied(report[r], seen[r])

\* What a step is to an overview: one of its own, or none of its business.
LEMMA OverviewsTurn ==
    ASSUME Shape, Reading, [Next]_vars, NEW r \in Requests
    PROVE  \/ Locate(r) \/ Tally(r) \/ Name(r) \/ Total(r)
           \/ UNCHANGED <<pc[r], call[r], reply[r], seen[r], report[r]>>
           \/ pc'[r] # "names" /\ (call'[r].op = "overview" => reply'[r] # "ok")
<1> DEFINE same == UNCHANGED <<pc[r], call[r], reply[r], seen[r], report[r]>>
           past == pc'[r] # "names" /\ (call'[r].op = "overview" => reply'[r] # "ok")
<1> SUFFICES ASSUME ~(Locate(r) \/ Tally(r) \/ Name(r) \/ Total(r)) PROVE same \/ past
  OBVIOUS
<1>1. CASE UNCHANGED vars
  BY <1>1 DEF vars
<1>2. ASSUME NEW q \in Requests, Arrive(q) PROVE same \/ past
  <2> PICK c \in Traffic[q] :
        /\ call' = [call EXCEPT ![q] = c] /\ pc' = [pc EXCEPT ![q] = Start(c)]
        /\ reply' = [reply EXCEPT ![q] = IF BadRequest(c) THEN "error" ELSE @]
    BY <1>2 DEF Arrive
  <2>1. UNCHANGED <<seen, report>> /\ pc[q] = "idle"
    BY <1>2 DEF Arrive, At
  <2>2. CASE q # r
    BY <2>1, <2>2 DEF Shape, TypeOK
  <2>3. CASE q = r
    <3>1. reply'[r] # "ok"
      BY <2>1, <2>3 DEF Shape, TypeOK, Placed
    <3>2. pc'[r] = Start(c)
      BY <2>3 DEF Shape, TypeOK
    <3>3. IsStockCall(c) \/ IsReportCall(c)
      BY TrafficAssumption
    <3>4. c.op # "names"
      BY <3>3 DEF IsStockCall, IsReportCall, ReportOps, DashboardOps, InwardOps
    <3>5. Start(c) # "names"
      BY <3>4 DEF Start
    <3>6. QED BY <3>1, <3>2, <3>5
  <2>4. QED BY <2>2, <2>3
<1>3. ASSUME NEW q \in Requests, Ledger(q) PROVE same \/ past
  <2>1. pc[q] \in StockSteps /\ UNCHANGED <<call, seen, report>>
    BY <1>3 DEF Ledger, Transaction, StockDomain, Receive, Sell, Edit, Erase, AdjustStock, Write, UpdateCost,
       Price, CreateStock, Add, DeleteStock, AdjustBatch, At, StockSteps
  <2>2. \E to \in StockSteps \cup {"done"} : pc' = [pc EXCEPT ![q] = to]
    BY <1>3 DEF Ledger, Transaction, StockDomain, Receive, Sell, Edit, Erase, AdjustStock, Write, UpdateCost,
       Price, CreateStock, Add, DeleteStock, AdjustBatch, Goto, Finish, Miss, Wrote, StockSteps
  <2>3. CASE q = r
    <3>1. pc'[r] # "names"
      BY <2>2, <2>3 DEF Shape, TypeOK, StockSteps
    <3>2. call'[r].op # "overview"
      BY <2>1, <2>3 DEF Shape, Placed, StockSteps, Entrances
    <3>3. QED BY <3>1, <3>2
  <2>4. CASE q # r
    <3>1. reply'[r] = reply[r]
      BY <1>3, <2>4 DEF Ledger, Transaction, StockDomain, Receive, Sell, Edit, Erase, AdjustStock, Write,
         UpdateCost, Price, CreateStock, Add, DeleteStock, AdjustBatch, Goto, Finish, Miss, Wrote,
         Shape, TypeOK
    <3>2. pc'[r] = pc[r]
      BY <2>2, <2>4 DEF Shape, TypeOK
    <3>3. QED BY <2>1, <3>1, <3>2
  <2>5. QED BY <2>3, <2>4
<1>4. ASSUME NEW q \in Requests, Ask(q) \/ Answer(q) \/ Relocate(q) PROVE same \/ past
  <2>1. call' = call
    BY <1>4 DEF Ask, Answer, Relocate
  <2>2. CASE q = r
    <3>1. pc'[r] # "names"
      BY <1>4, <2>2 DEF Ask, Answer, Relocate, At, Finish, Shape, TypeOK
    <3>2. call[r].op # "overview"
      BY <1>4, <2>2 DEF Ask, Answer, Relocate, At, Shape, Placed, ReportOps, DashboardOps, InwardOps
    <3>3. QED BY <2>1, <3>1, <3>2
  <2>3. CASE q # r
    BY <1>4, <2>1, <2>3 DEF Ask, Answer, Relocate, Finish, Shape, TypeOK, Reading, Functions
  <2>4. QED BY <2>2, <2>3
<1>5. ASSUME NEW q \in Requests, Overview(q) PROVE same \/ past
  <2>1. q # r
    BY <1>5 DEF Overview
  <2>2. QED BY <1>5, <2>1 DEF Overview, Locate, Tally, Name, Total, Goto, Finish, Shape, TypeOK,
     Reading, Functions
<1>6. QED BY <1>1, <1>2, <1>3, <1>4, <1>5 DEF Next

\* What an overview is told, and what it says of nothing.
AddsUp(o) ==
    /\ SumOver(DOMAIN o.byPlace, o.byPlace) = o.total
    /\ \A n \in DOMAIN o.byPlace :
          SumOver(LinesOfName(o.byVolunteer, n), o.byVolunteer) = o.byPlace[n]

\* An overview of nothing adds up to nothing.
LEMMA NothingAddsUp == AddsUp(Nothing)
<1>1. DOMAIN <<>> = {}
  OBVIOUS
<1>2. DOMAIN Nothing.byPlace = {} /\ Nothing.total = 0
  BY <1>1 DEF Nothing
<1>3. QED BY <1>2, SumEmpty DEF AddsUp

\* The rows of an overview are tallied before any name is known.
LEMMA TalliedFirst ==
    ASSUME Shape, Reading, NEW r \in Requests, Tally(r), pc'[r] = "names"
    PROVE  Tallied(report'[r], seen'[r])
<1> PICK rows : /\ rows \subseteq sales
                /\ seen' = [seen EXCEPT ![r] = [rows |-> rows, left |-> {s.place : s \in rows}]]
                /\ report' = [report EXCEPT ![r] = [Nothing EXCEPT !.total = Revenue(rows)]]
  BY DEF Tally, Finish, Shape, TypeOK
<1> PICK o, a : o = report'[r] /\ a = seen'[r]
  OBVIOUS
<1>1. /\ o = [byPlace |-> <<>>, byVolunteer |-> <<>>, total |-> Revenue(rows)]
      /\ a = [rows |-> rows, left |-> {s.place : s \in rows}]
  BY DEF Reading, Functions, Nothing
<1>2. IsFiniteSet(rows) /\ \A s \in rows : IsSale(s)
  BY FS_Subset DEF Shape, Records
<1> PICK empty : empty = <<>>
  OBVIOUS
<1>3. DOMAIN empty = {}
  OBVIOUS
<1>4. Amounts(empty) /\ SumOver(DOMAIN empty, empty) = 0
  BY <1>3, FS_EmptySet, SumEmpty DEF Amounts
<1>5. Revenue({s \in rows : s.place \notin a.left}) = 0
  <2>1. {s \in rows : s.place \notin a.left} = {}
    BY <1>1
  <2>2. QED BY <2>1, SumEmpty DEF Revenue
<1>6. o.byPlace = empty /\ o.byVolunteer = empty /\ o.total = Revenue(rows) /\ a.rows = rows
      /\ DOMAIN o = {"byPlace", "byVolunteer", "total"} /\ DOMAIN a = {"rows", "left"}
  BY <1>1
<1>7. Tallied(o, a)
  BY <1>2, <1>3, <1>4, <1>5, <1>6 DEF Tallied
<1>8. QED BY <1>7

\* The name of one location more.
LEMMA TalliedNext ==
    ASSUME Shape, Reading, NEW r \in Requests, Name(r), Tallied(report[r], seen[r])
    PROVE  Tallied(report'[r], seen'[r])
<1> PICK o, a, o2, a2 : o = report[r] /\ a = seen[r] /\ o2 = report'[r] /\ a2 = seen'[r]
  OBVIOUS
<1> PICK p \in a.left :
      LET rows == {s \in seen[r].rows : s.place = p}
          name == NameOf(p)
          sellers == {s.seller : s \in rows}
      IN  /\ seen' = [seen EXCEPT ![r].left = @ \ {p}]
          /\ report' = [report EXCEPT
               ![r].byPlace = Merged(@, [n \in {name} |-> Revenue(rows)]),
               ![r].byVolunteer = Merged(@, [k \in {name} \X sellers |->
                                               Revenue({s \in rows : s.seller = k[2]})])]
  BY DEF Name
<1> PICK name, rows : name = NameOf(p) /\ rows = OfPlace(a.rows, p)
  OBVIOUS
<1> PICK places_, volunteers : /\ places_ = OfName(rows, name)
                               /\ volunteers = OfVolunteers(rows, name)
  OBVIOUS
<1>1. /\ seen' = [seen EXCEPT ![r].left = @ \ {p}]
      /\ report' = [report EXCEPT ![r].byPlace = Merged(@, places_),
                                  ![r].byVolunteer = Merged(@, volunteers)]
  BY DEF OfPlace, OfName, OfVolunteers
<1>2. Tallied(o, a) /\ DOMAIN o = {"byPlace", "byVolunteer", "total"}
      /\ DOMAIN a = {"rows", "left"}
  BY DEF Tallied
<1>3. DOMAIN a2 = DOMAIN a /\ a2.rows = a.rows /\ a2.left = a.left \ {p}
  BY <1>1, <1>2 DEF Reading, Functions
<1>4. /\ DOMAIN o2 = DOMAIN o /\ o2.total = o.total
      /\ o2.byPlace = Merged(o.byPlace, places_)
      /\ o2.byVolunteer = Merged(o.byVolunteer, volunteers)
  BY <1>1, <1>2 DEF Reading, Functions
<1>5. Tallied(o2, a2)
  <2>1. p \in a.left /\ o2.byPlace = Merged(o.byPlace, OfName(OfPlace(a.rows, p), name))
        /\ o2.byVolunteer = Merged(o.byVolunteer, OfVolunteers(OfPlace(a.rows, p), name))
    BY <1>4
  <2>2. QED BY ONLY <1>2, <1>3, <1>4, <2>1, NamedOne
<1>6. QED BY <1>5

\* Overviews stay tallied.
LEMMA OverviewsStep ==
    ASSUME Shape, Reading, Overviews, [Next]_vars PROVE Overviews'
<1> SUFFICES ASSUME NEW r \in Requests, pc'[r] = "names" PROVE Tallied(report'[r], seen'[r])
  BY DEF Overviews
<1>1. CASE Locate(r) \/ Total(r)
  BY <1>1 DEF Locate, Total, Goto, Finish, Shape, TypeOK
<1>2. CASE Name(r)
  BY <1>2, TalliedNext DEF Name, At, Overviews
<1>3. CASE UNCHANGED <<pc[r], call[r], reply[r], seen[r], report[r]>>
  BY <1>3 DEF Overviews
<1>4. QED BY <1>1, <1>2, <1>3, TalliedFirst, OverviewsTurn

\* What an overview is told adds up.
LEMMA ToldAddsUp ==
    ASSUME Shape, Reading, Overviews, OverviewAddsUp, [Next]_vars PROVE OverviewAddsUp'
<1> SUFFICES ASSUME NEW r \in Requests, reply'[r] = "ok", call'[r].op = "overview"
             PROVE  AddsUp(report'[r])
  BY DEF OverviewAddsUp, AddsUp, LinesOfName
<1>1. CASE Locate(r) \/ Tally(r)
  <2>1. reply[r] = "none"
    BY <1>1 DEF Locate, Tally, At, Shape, Placed
  <2>2. report'[r] = Nothing
    BY <1>1, <2>1 DEF Locate, Tally, Goto, Finish, Shape, TypeOK, Reading, Functions
  <2>3. QED BY <2>2, NothingAddsUp
<1>2. CASE Name(r)
  BY <1>2 DEF Name, At, Shape, Placed
<1>3. CASE Total(r)
  <2> PICK o, a : o = report[r] /\ a = seen[r]
    OBVIOUS
  <2>1. report'[r] = o /\ a.left = {} /\ Tallied(o, a)
    BY <1>3 DEF Total, At, Overviews
  <2>2. {s \in a.rows : s.place \notin a.left} = a.rows
    BY <2>1
  <2>3. QED BY <2>1, <2>2 DEF Tallied, AddsUp
<1>4. CASE UNCHANGED <<pc[r], call[r], reply[r], seen[r], report[r]>>
  BY <1>4 DEF OverviewAddsUp, AddsUp, LinesOfName
<1>5. QED BY <1>1, <1>2, <1>3, <1>4, OverviewsTurn

\* The totals of an overview by location, and by location and volunteer, add up to its
\* total, whatever locations share a name, and whichever are renamed or deleted
\* between the rows and the lookups of their names.
THEOREM OverviewsAddUp == Spec => []OverviewAddsUp
<1>1. ReportInit => Shape /\ Kept /\ Reading /\ Overviews /\ OverviewAddsUp
  <2>1. ReportInit => \A r \in Requests : reply[r] = "none" /\ pc[r] = "idle"
    BY DEF ReportInit, StockInit
  <2>2. QED BY <2>1, ShapeInit, ReadingInit DEF Kept, Overviews, OverviewAddsUp
<1>2. Shape /\ Kept /\ Reading /\ Overviews /\ OverviewAddsUp /\ [Next]_vars
        => (Shape /\ Kept /\ Reading /\ Overviews /\ OverviewAddsUp)'
  BY ShapeStep, KeptStep, ReadingStep, OverviewsStep, ToldAddsUp
<1>3. QED BY <1>1, <1>2, PTL DEF Spec
=============================================================================
