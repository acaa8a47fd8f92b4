-------------------------- MODULE InventoryProofs --------------------------
(* Proofs about Inventory, for any set of requests, books and calls, and that it
   implements StockLedger. *)
EXTENDS InventoryLedger, SumsProofs

-----------------------------------------------------------------------------
(* Counting copies. *)

\* A set of rows, purchases or sales.
IsRows(R) == \A r \in R : r.id \in Nat /\ r.qty \in Nat \ {0}

\* The copies of a union are the union of the copies.
LEMMA UnitsUnion ==
    ASSUME NEW A, NEW B, NEW b
    PROVE  Units(A \cup B, b) = Units(A, b) \cup Units(B, b)
  BY DEF Units

\* No rows, no copies.
LEMMA UnitsEmpty == ASSUME NEW b PROVE Units({}, b) = {}
  BY DEF Units

\* The copies of one row.
LEMMA UnitsOne ==
    ASSUME NEW r, NEW b
    PROVE  Units({r}, b) = IF r.book = b THEN {r.id} \X (1 .. r.qty) ELSE {}
  BY DEF Units

\* Rows with distinct ids share no copies.
LEMMA UnitsMinus ==
    ASSUME NEW A, NEW R, NEW b,
           \A p \in A, q \in R : p.id = q.id => p = q
    PROVE  Units(A \ R, b) = Units(A, b) \ Units(R, b)
<1>1. Units(A \ R, b) \subseteq Units(A, b) \ Units(R, b)
  BY DEF Units
<1>2. Units(A, b) \ Units(R, b) \subseteq Units(A \ R, b)
  BY DEF Units
<1>3. QED BY <1>1, <1>2

\* The copies numbered 1 to q are q copies.
LEMMA Numbered ==
    ASSUME NEW q \in Nat
    PROVE  IsFiniteSet(1 .. q) /\ Cardinality(1 .. q) = q
<1>1. 1 \in Int /\ q \in Int
  OBVIOUS
<1>2. /\ IsFiniteSet(1 .. q)
      /\ Cardinality(1 .. q) = IF 1 > q THEN 0 ELSE q - 1 + 1
  BY <1>1, FS_Interval, Zenon
<1>3. QED BY <1>2

\* A new row adds its quantity to the count of its book.
LEMMA AddRow ==
    ASSUME NEW R, NEW r, NEW b, IsFiniteSet(Units(R, b)),
           r.id \in Nat, r.qty \in Nat, \A s \in R : s.id # r.id
    PROVE  /\ IsFiniteSet(Units(R \cup {r}, b))
           /\ Cardinality(Units(R \cup {r}, b))
                = Cardinality(Units(R, b)) + (IF r.book = b THEN r.qty ELSE 0)
<1>1. Units(R \cup {r}, b) = Units(R, b) \cup Units({r}, b)
  BY UnitsUnion
<1>2. CASE r.book # b
  <2>1. Units({r}, b) = {}
    BY <1>2, UnitsOne
  <2>2. Units(R \cup {r}, b) = Units(R, b)
    BY <1>1, <2>1
  <2>3. Cardinality(Units(R, b)) \in Nat
    BY FS_CardinalityType
  <2>4. QED BY <1>2, <2>2, <2>3
<1>3. CASE r.book = b
  <2> DEFINE new == {r.id} \X (1 .. r.qty)
  <2>1. Units({r}, b) = new
    BY <1>3, UnitsOne
  <2>2. Units(R, b) \cap new = {}
    BY DEF Units
  <2>3. IsFiniteSet({r.id}) /\ Cardinality({r.id}) = 1
    BY FS_Singleton
  <2>4. IsFiniteSet(1 .. r.qty) /\ Cardinality(1 .. r.qty) = r.qty
    BY Numbered
  <2>5. /\ IsFiniteSet(new)
        /\ Cardinality(new) = Cardinality({r.id}) * Cardinality(1 .. r.qty)
    BY <2>3, <2>4, FS_Product
  <2>6. Cardinality(new) = r.qty
    BY <2>3, <2>4, <2>5
  <2> HIDE DEF new
  <2>7. /\ IsFiniteSet(Units(R, b) \cup new)
        /\ Cardinality(Units(R, b) \cup new)
             = Cardinality(Units(R, b)) + Cardinality(new) - Cardinality(Units(R, b) \cap new)
    BY <2>5, FS_Union
  <2>8. Cardinality(Units(R, b)) \in Nat /\ Cardinality({}) = 0
    BY FS_CardinalityType, FS_EmptySet
  <2> DEFINE both == Units(R, b) \cap new
  <2>9. IsFiniteSet(both) /\ both = {}
    BY <2>2, FS_Intersection
  <2> HIDE DEF both
  <2>10. Cardinality(both) = 0
    BY <2>9, FS_EmptySet
  <2>11. Cardinality(Units(R, b) \cup new) = Cardinality(Units(R, b)) + r.qty
    BY <2>10, <2>6, <2>7, <2>8 DEF both
  <2>12. QED BY <1>1, <1>3, <2>1, <2>7, <2>11
<1>4. QED BY <1>2, <1>3

\* Taking a row away takes its quantity off the count of its book.
LEMMA DropRow ==
    ASSUME NEW R, NEW r \in R, NEW b, IsFiniteSet(Units(R, b)),
           r.id \in Nat, r.qty \in Nat, \A s \in R : s.id = r.id => s = r
    PROVE  /\ IsFiniteSet(Units(R \ {r}, b))
           /\ Cardinality(Units(R \ {r}, b))
                = Cardinality(Units(R, b)) - (IF r.book = b THEN r.qty ELSE 0)
<1>1. Units(R \ {r}, b) \subseteq Units(R, b)
  BY DEF Units
<1>2. IsFiniteSet(Units(R \ {r}, b))
  BY <1>1, FS_Subset
<1>3. R = (R \ {r}) \cup {r}
  OBVIOUS
<1>4. \A x \in R \ {r} : x.id # r.id
  OBVIOUS
<1>5. Cardinality(Units((R \ {r}) \cup {r}, b))
        = Cardinality(Units(R \ {r}, b)) + (IF r.book = b THEN r.qty ELSE 0)
  BY <1>2, <1>4, AddRow
<1>6. Cardinality(Units(R \ {r}, b)) \in Nat
  BY <1>2, FS_CardinalityType
<1>7. QED BY <1>2, <1>3, <1>5, <1>6

\* Finitely many rows hold finitely many copies.
LEMMA UnitsFinite ==
    ASSUME NEW R, IsRows(R), IsFiniteSet(R), NEW b
    PROVE  IsFiniteSet(Units(R, b))
<1> DEFINE S == {s \in R : s.book = b}
           f == [r \in S |-> {r.id} \X (1 .. r.qty)]
           T == {{r.id} \X (1 .. r.qty) : r \in S}
<1>1. IsFiniteSet(S)
  BY FS_Subset
<1>2. f \in Surjection(S, T)
  BY DEF Surjection
<1>3. IsFiniteSet(T)
  BY <1>1, <1>2, FS_Surjection
<1>4. \A r \in R : IsFiniteSet({r.id} \X (1 .. r.qty))
  <2> TAKE r \in R
  <2>1. IsFiniteSet({r.id})
    BY FS_Singleton
  <2>2. IsFiniteSet(1 .. r.qty)
    BY Numbered DEF IsRows
  <2>3. QED BY <2>1, <2>2, FS_Product
<1>5. \A X \in T : IsFiniteSet(X)
  BY <1>4
<1>6. IsFiniteSet(UNION T)
  BY <1>3, <1>5, FS_UNION
<1>7. UNION T = Units(R, b)
  BY DEF Units
<1>8. QED BY <1>6, <1>7

-----------------------------------------------------------------------------
(* What a procedure is given. *)

\* A procedure only ever works on input that passed validation, and the row an
\* edit moves to another book is a purchase the table can hold.
Vetted ==
    \A t \in Tx :
        /\ pc[t] = "items" => IsBatch(call[t])
        /\ pc[t] = "lock" => call[t].op \in {"update", "delete"}
        /\ pc[t] \in {"edit", "apply"} => call[t].op = "update"
        /\ pc[t] \in {"items", "lock", "edit", "apply"} =>
              call[t] # NoCall /\ ~Refused(call[t])
        /\ pc[t] = "apply" => Edited(t) \in Purchase /\ Edited(t).book # old[t].book

\* The tables, and what a transaction has written, are finite.
Finite ==
    /\ IsFiniteSet(purchases) /\ IsFiniteSet(sales)
    /\ \A t \in Tx : IsFiniteSet(added[t]) /\ IsFiniteSet(sold[t])

\* Who holds what, without the counts.
Shape == TypeOK /\ RowsHeld /\ IdsUnique /\ Vetted /\ Finite

\* The inductive invariant.
IInv == Shape /\ Conserved /\ DraftConserved /\ NeverNegative

\* A batch names its lines by position.
LEMMA BatchCall ==
    ASSUME TypeOK, Vetted, NEW t \in Tx, pc[t] = "items"
    PROVE  call[t] \in Batch /\ ~Refused(call[t])
<1>1. call[t] \in Batch \cup Edit \cup Erase
  BY InputAssumption DEF TypeOK, Vetted
<1>2. call[t] \in Batch
  BY <1>1 DEF Vetted, IsBatch, Edit, Erase
<1>3. QED BY <1>2 DEF Vetted

\* A line that reaches the procedure has a positive quantity, and a sale line a
\* known book.
LEMMA ItemFits ==
    ASSUME TypeOK, Vetted, NEW t \in Tx, HasItem(t), ~Dropped(call[t], This(t))
    PROVE  /\ This(t) \in Item
           /\ This(t).qty \in Nat \ {0}
           /\ call[t].op = "sale" => This(t).book \in Books
<1> DEFINE c == call[t]
<1>1. c \in Batch /\ ~Refused(c)
  BY BatchCall DEF HasItem
<1>2. at[t] \in DOMAIN c.items /\ c.items \in Seq(Item)
  BY <1>1 DEF HasItem, Batch
<1>3. This(t) \in Item
  BY <1>2 DEF This
<1>4. This(t).qty \in Int
  BY <1>3 DEF Item
<1>5. c.op \in {"purchase", "batch", "inward", "sale"}
  BY <1>1 DEF Batch
<1>6. CASE c.op = "inward"
  BY <1>1, <1>2, <1>3, <1>4, <1>6 DEF Refused, BadInward, BadPurchase, BadSale, This
<1>7. CASE c.op = "purchase"
  BY <1>1, <1>2, <1>3, <1>4, <1>7 DEF Refused, BadInward, BadPurchase, BadSale, This
<1>8. CASE c.op = "batch"
  BY <1>3, <1>4, <1>8 DEF Dropped
<1>9. CASE c.op = "sale"
  <2>1. This(t).qty # 0
    BY <1>9 DEF Dropped
  <2>2. ~(This(t).qty < 0) /\ ~(This(t).qty > 0 /\ This(t).book \notin Books)
    BY <1>1, <1>2, <1>9 DEF Refused, BadInward, BadPurchase, BadSale, This
  <2>3. QED BY <1>3, <1>4, <2>1, <2>2
<1>10. QED BY <1>5, <1>6, <1>7, <1>8, <1>9

\* The row an edit writes keeps the id and is a purchase the table can hold.
LEMMA EditFits ==
    ASSUME TypeOK, RowsHeld, Vetted, NEW t \in Tx, pc[t] = "edit", ~BadInput(t)
    PROVE  /\ old[t] \in Purchase /\ old[t] \in purchases
           /\ Edited(t) \in Purchase
           /\ Edited(t).id = old[t].id
<1>1. old[t] \in purchases /\ old[t] \in Purchase
  BY DEF RowsHeld, TypeOK
<1>2. call[t] \in Edit /\ ~Refused(call[t]) /\ call[t].op = "update"
  BY InputAssumption DEF TypeOK, Vetted, Batch, Erase
<1>3. call[t].qty \in Int \cup {Keep} /\ (call[t].qty # Keep => ~(call[t].qty <= 0))
  BY <1>2 DEF Refused, BadEdit, Edit
<1>4. Edited(t).book \in Books
  BY DEF BadInput
<1>5. Edited(t).qty \in Nat \ {0}
  BY <1>1, <1>3 DEF Edited, Purchase
<1>6. Edited(t).cost \in CostOrNull
  BY <1>1, <1>2 DEF Edited, Edit, Purchase
<1>7. Edited(t).id = old[t].id /\ old[t].id \in Nat
  BY <1>1 DEF Edited, Purchase
<1>8. Edited(t) = [id |-> old[t].id, book |-> Edited(t).book,
                   qty |-> Edited(t).qty, cost |-> Edited(t).cost]
  BY DEF Edited
<1>9. QED BY <1>1, <1>4, <1>5, <1>6, <1>7, <1>8 DEF Purchase

-----------------------------------------------------------------------------
(* Shape is inductive: one lemma per action. *)

\* The tables as they are when the model starts have the shape.
LEMMA ShapeInit == Init => Shape
<1> SUFFICES ASSUME Init PROVE Shape
  OBVIOUS
<1> USE SentinelAssumption, HistoryAssumption DEF Init
<1>1. TypeOK
  BY DEF TypeOK
<1>2. RowsHeld
  BY DEF RowsHeld, Untouched, Replies
<1>3. IdsUnique
  BY DEF IdsUnique
<1>4. Vetted
  BY DEF Vetted
<1>5. Finite
  BY FS_EmptySet DEF Finite
<1>6. QED BY <1>1, <1>2, <1>3, <1>4, <1>5 DEF Shape

\* A request that arrives has written nothing and was validated.
LEMMA ShapeBegin ==
    ASSUME Shape, NEW t \in Tx, NEW c \in Calls, Begin(t, c)
    PROVE  Shape'
<1> USE DEF Begin, db, mine, Shape
<1>1. TypeOK'
  BY DEF TypeOK, Working, Replies
<1>2. RowsHeld'
  BY DEF RowsHeld, Untouched, Replies, TypeOK
<1>3. IdsUnique'
  BY DEF IdsUnique
<1>4. Vetted'
  <2>1. c \in Batch \cup Edit \cup Erase /\ c # NoCall
    BY InputAssumption, SentinelAssumption
  <2>2. ~IsBatch(c) => c.op \in {"update", "delete"}
    BY <2>1 DEF IsBatch, Batch, Edit, Erase
  <2>3. QED BY <2>1, <2>2 DEF Vetted, TypeOK, Edited
<1>5. Finite'
  BY DEF Finite
<1>6. QED BY <1>1, <1>2, <1>3, <1>4, <1>5

\* Passing over a dropped line.
LEMMA ShapeSkip ==
    ASSUME Shape, NEW t \in Tx, Skip(t)
    PROVE  Shape'
<1> USE DEF Skip, db, mine, Shape
<1>1. TypeOK'
  BY DEF TypeOK
<1>2. RowsHeld'
  BY DEF RowsHeld, Untouched, TypeOK
<1>3. IdsUnique'
  BY DEF IdsUnique
<1>4. Vetted'
  BY DEF Vetted, Edited
<1>5. Finite'
  BY DEF Finite
<1>6. QED BY <1>1, <1>2, <1>3, <1>4, <1>5

\* Starting to wait for a row lock.
LEMMA ShapeBlock ==
    ASSUME Shape, NEW t \in Tx, Block(t)
    PROVE  Shape'
<1> USE DEF Block, db, mine, Shape
<1>1. TypeOK'
  BY DEF TypeOK
<1>2. RowsHeld' /\ IdsUnique' /\ Vetted' /\ Finite'
  BY DEF RowsHeld, Untouched, IdsUnique, Vetted, Edited, Finite
<1>3. QED BY <1>1, <1>2

\* Taking the purchase row: nobody else holds it, and it is the committed one.
LEMMA ShapeLockRow ==
    ASSUME Shape, NEW t \in Tx, LockRow(t)
    PROVE  Shape'
<1> USE DEF LockRow, db, mine, Unblock, Shape
<1> PICK p \in purchases : p.id = call[t].id /\ old' = [old EXCEPT ![t] = p]
  OBVIOUS
<1>1. p \in Purchase /\ p # NoPurchase
  BY SentinelAssumption DEF TypeOK
<1>2. \A u \in Tx \ {t} : old[u] # NoPurchase => old[u].id # p.id
  BY DEF RowHolders
<1>3. old[t] = NoPurchase /\ Untouched(t) /\ removed[t] = {}
  BY DEF RowsHeld, Untouched
<1>4. TypeOK'
  BY <1>1 DEF TypeOK, Working
<1>5. RowsHeld'
  BY <1>1, <1>2, <1>3 DEF RowsHeld, Untouched, TypeOK, Replies
<1>6. IdsUnique'
  BY <1>3 DEF IdsUnique, Untouched, TypeOK
<1>7. Vetted'
  BY DEF Vetted, TypeOK, Edited
<1>8. Finite'
  BY DEF Finite
<1>9. QED BY <1>4, <1>5, <1>6, <1>7, <1>8

\* No such purchase: nothing was written.
LEMMA ShapeNotFound ==
    ASSUME Shape, NEW t \in Tx, NotFound(t)
    PROVE  Shape'
<1> USE DEF NotFound, db, mine, Unblock, Shape
<1>1. TypeOK'
  BY DEF TypeOK, Working, Replies
<1>2. RowsHeld'
  BY DEF RowsHeld, Untouched, TypeOK, Replies
<1>3. IdsUnique'
  BY DEF IdsUnique
<1>4. Vetted'
  BY DEF Vetted, Edited, TypeOK
<1>5. Finite'
  BY DEF Finite
<1>6. QED BY <1>1, <1>2, <1>3, <1>4, <1>5

\* The stock row an upsert or a guarded update writes.
LEMMA VersionType ==
    ASSUME TypeOK, NEW t, NEW b \in Books
    PROVE  /\ Version(t, b) \in StockRow \cup {NoRow}
           /\ Qty(Version(t, b)) \in Int
  BY DEF TypeOK, Version, Qty, StockRow

\* Receiving a line: the new row has an id nobody has seen.
LEMMA ShapeReceiveItem ==
    ASSUME Shape, NEW t \in Tx, ReceiveItem(t)
    PROVE  Shape'
<1> DEFINE b == This(t).book
           r == [id |-> nextId, book |-> b, qty |-> This(t).qty, cost |-> This(t).cost]
<1> USE DEF ReceiveItem, db, Unblock, Shape
<1>1. This(t) \in Item /\ This(t).qty \in Nat \ {0} /\ b \in Books /\ pc[t] = "items"
  BY ItemFits DEF BadInput, HasItem
<1>2. r \in Purchase /\ nextId \in Nat
  BY <1>1 DEF Purchase, Item, TypeOK
<1>3. /\ lock' = [lock EXCEPT ![b] = t]
      /\ draft' = [draft EXCEPT ![b] = [qty |-> Qty(Version(t, b)) + This(t).qty,
                                        cost |-> This(t).cost]]
      /\ added' = [added EXCEPT ![t] = @ \cup {r}]
  BY DEF Upsert, Write
<1>4. [qty |-> Qty(Version(t, b)) + This(t).qty, cost |-> This(t).cost] \in StockRow
  BY <1>1, VersionType DEF StockRow, Item
<1>5. TypeOK'
  BY <1>1, <1>2, <1>3, <1>4 DEF TypeOK
<1>6. RowsHeld'
  BY <1>1, <1>3 DEF RowsHeld, Untouched, TypeOK, Replies
<1>7. IdsUnique'
  <2>1. \A p \in purchases \cup sales : p.id < nextId /\ p.id < nextId' /\ p.id \in Nat
    BY <1>2 DEF IdsUnique, TypeOK, Purchase, Sale
  <2>2. \A u \in Tx : \A p \in added[u] \cup sold[u] :
           p.id < nextId /\ p.id < nextId' /\ p.id \in Nat
    BY <1>2 DEF IdsUnique, TypeOK, Purchase, Sale
  <2>3. r.id = nextId /\ nextId < nextId'
    BY <1>2
  <2>4. \A u \in Tx : added'[u] = IF u = t THEN added[t] \cup {r} ELSE added[u]
    BY <1>3 DEF TypeOK
  <2>5. \A u \in Tx : \A p \in added'[u] : \A q \in purchases :
           p.id = q.id => q = old[u] /\ q \in removed[u]
    BY <2>1, <2>3, <2>4 DEF IdsUnique
  <2>6. \A u, v \in Tx : \A p \in added'[u], q \in added'[v] :
           p.id = q.id => p = q /\ u = v
    BY <2>2, <2>3, <2>4 DEF IdsUnique
  <2>7. QED BY <2>1, <2>2, <2>3, <2>4, <2>5, <2>6 DEF IdsUnique
<1>8. Vetted'
  BY DEF Vetted, Edited
<1>9. Finite'
  <2>1. IsFiniteSet(added[t] \cup {r})
    BY FS_AddElement DEF Finite
  <2>2. QED BY <1>3, <2>1 DEF Finite, TypeOK
<1>10. QED BY <1>5, <1>6, <1>7, <1>8, <1>9

\* A guarded update writes a well typed stock row.
LEMMA TakeType ==
    ASSUME TypeOK, NEW t \in Tx, NEW b \in Books, NEW q \in Int, Take(t, b, q)
    PROVE  /\ lock' = [lock EXCEPT ![b] = t]
           /\ draft' = [draft EXCEPT ![b] = [Version(t, b) EXCEPT !.qty = @ - q]]
           /\ Version(t, b) \in StockRow
           /\ [Version(t, b) EXCEPT !.qty = @ - q] \in StockRow
           /\ Version(t, b).qty - q >= 0
           /\ lock' \in [Books -> Tx \cup {NoTx}]
           /\ draft' \in [Books -> StockRow \cup {NoRow}]
<1>1. Version(t, b) \in StockRow
  BY VersionType DEF Take, Covers
<1>2. [Version(t, b) EXCEPT !.qty = @ - q] \in StockRow
  BY <1>1 DEF StockRow
<1>3. QED BY <1>1, <1>2 DEF Take, Covers, Write, TypeOK

\* Selling a line: likewise.
LEMMA ShapeSellItem ==
    ASSUME Shape, NEW t \in Tx, SellItem(t)
    PROVE  Shape'
<1> DEFINE b == This(t).book
           r == [id |-> nextId, book |-> b, qty |-> This(t).qty]
<1> USE DEF SellItem, db, Unblock, Shape
<1>1. This(t).qty \in Nat \ {0} /\ b \in Books /\ pc[t] = "items"
  BY ItemFits DEF HasItem
<1>2. r \in Sale /\ nextId \in Nat
  BY <1>1 DEF Sale, TypeOK
<1>3. /\ lock' = [lock EXCEPT ![b] = t]
      /\ lock' \in [Books -> Tx \cup {NoTx}]
      /\ draft' \in [Books -> StockRow \cup {NoRow}]
      /\ sold' = [sold EXCEPT ![t] = @ \cup {r}]
  <2>1. This(t).qty \in Int /\ Take(t, b, This(t).qty)
    BY <1>1
  <2> HIDE DEF SellItem
  <2>2. /\ lock' = [lock EXCEPT ![b] = t]
        /\ lock' \in [Books -> Tx \cup {NoTx}]
        /\ draft' \in [Books -> StockRow \cup {NoRow}]
    BY <1>1, <2>1, TakeType
  <2>3. sold' = [sold EXCEPT ![t] = @ \cup {r}]
    BY DEF SellItem
  <2>4. QED BY <2>2, <2>3
<1>4. TypeOK'
  BY <1>2, <1>3 DEF TypeOK
<1>5. RowsHeld'
  BY <1>1, <1>3 DEF RowsHeld, Untouched, TypeOK, Replies
<1>6. IdsUnique'
  <2>1. \A p \in purchases \cup sales : p.id < nextId /\ p.id < nextId' /\ p.id \in Nat
    BY <1>2 DEF IdsUnique, TypeOK, Purchase, Sale
  <2>2. \A u \in Tx : \A p \in added[u] \cup sold[u] :
           p.id < nextId /\ p.id < nextId' /\ p.id \in Nat
    BY <1>2 DEF IdsUnique, TypeOK, Purchase, Sale
  <2>3. r.id = nextId /\ nextId < nextId'
    BY <1>2
  <2>4. \A u \in Tx : sold'[u] = IF u = t THEN sold[t] \cup {r} ELSE sold[u]
    BY <1>3 DEF TypeOK
  <2>5. QED BY <2>1, <2>2, <2>3, <2>4 DEF IdsUnique
<1>7. Vetted'
  BY DEF Vetted, Edited
<1>8. Finite'
  <2>1. IsFiniteSet(sold[t] \cup {r})
    BY FS_AddElement DEF Finite
  <2>2. QED BY <1>3, <2>1 DEF Finite, TypeOK
<1>9. QED BY <1>4, <1>5, <1>6, <1>7, <1>8

\* What every edit of a row in place does to the shape.
LEMMA ShapeEdit ==
    ASSUME Shape, NEW t \in Tx, pc[t] = "edit", ~BadInput(t),
           removed' = [removed EXCEPT ![t] = {old[t]}],
           added' = [added EXCEPT ![t] = {Edited(t)}],
           pc' = [pc EXCEPT ![t] = "commit"],
           UNCHANGED <<db, nextId, call, at, old, sold>>,
           blocked' \subseteq Tx,
           lock' \in [Books -> Tx \cup {NoTx}],
           draft' \in [Books -> StockRow \cup {NoRow}],
           \A b \in Books : lock'[b] = lock[b] \/ lock'[b] = t
    PROVE  Shape'
<1> USE DEF Shape, db
<1>1. /\ old[t] \in Purchase /\ old[t] \in purchases
      /\ Edited(t) \in Purchase /\ Edited(t).id = old[t].id
  BY EditFits
<1>2. added[t] = {} /\ removed[t] = {} /\ sold[t] = {} /\ old[t] # NoPurchase
  BY DEF RowsHeld, Untouched
<1>3. TypeOK'
  BY <1>1 DEF TypeOK, Working
<1>4. RowsHeld'
  BY <1>1, <1>2 DEF RowsHeld, Untouched, TypeOK, Replies
<1>5. IdsUnique'
  <2>1. \A p \in purchases \cup sales : p.id < nextId
    BY DEF IdsUnique
  <2>2. \A q \in purchases : Edited(t).id = q.id => q = old[t]
    BY <1>1 DEF IdsUnique
  <2>3. \A u \in Tx \ {t} : \A q \in added[u] : q.id # Edited(t).id
    <3> SUFFICES ASSUME NEW u \in Tx \ {t}, NEW q \in added[u], q.id = old[t].id
                 PROVE  FALSE
      BY <1>1
    <3>1. old[t] = old[u] /\ old[t] \in removed[u]
      BY <1>1 DEF IdsUnique
    <3>2. QED BY <1>1, <1>2, <3>1 DEF RowsHeld
  <2>4. \A u \in Tx : added'[u] = IF u = t THEN {Edited(t)} ELSE added[u]
    BY DEF TypeOK
  <2>5. \A u \in Tx : removed'[u] = IF u = t THEN {old[t]} ELSE removed[u]
    BY DEF TypeOK
  <2>6. QED BY <1>1, <2>1, <2>2, <2>3, <2>4, <2>5 DEF IdsUnique
<1>6. Vetted'
  BY DEF Vetted, TypeOK, Edited
<1>7. Finite'
  <2>1. IsFiniteSet({Edited(t)})
    BY FS_Singleton
  <2>2. QED BY <2>1 DEF Finite, TypeOK
<1>8. QED BY <1>3, <1>4, <1>5, <1>6, <1>7

\* An edit that moves no copies.
LEMMA ShapeEditRow ==
    ASSUME Shape, NEW t \in Tx, EditRow(t)
    PROVE  Shape'
<1>1. /\ blocked' \subseteq Tx
      /\ lock' \in [Books -> Tx \cup {NoTx}]
      /\ draft' \in [Books -> StockRow \cup {NoRow}]
      /\ \A b \in Books : lock'[b] = lock[b]
  BY DEF EditRow, Shape, TypeOK
<1>2. QED BY <1>1, ShapeEdit DEF EditRow

\* An edit of the quantity.
LEMMA ShapeEditQty ==
    ASSUME Shape, NEW t \in Tx, EditQty(t)
    PROVE  Shape'
<1> DEFINE b == old[t].book
           row == Version(t, b)
           new == [qty |-> row.qty - Takes(t), cost |-> Edited(t).cost]
<1> USE DEF Shape
<1>1. pc[t] = "edit" /\ ~BadInput(t) /\ Edited(t).book = old[t].book
  BY DEF EditQty
<1>2. old[t] \in Purchase /\ Edited(t) \in Purchase /\ b \in Books
  BY <1>1, EditFits DEF Purchase
<1>3. Takes(t) = old[t].qty - Edited(t).qty
  BY <1>1 DEF Takes
<1>4. Takes(t) \in Int /\ Edited(t).cost \in CostOrNull
  BY <1>2, <1>3 DEF Purchase
<1>5. row \in StockRow
  BY <1>2, VersionType DEF EditQty, Covers
<1>6. new \in StockRow
  BY <1>4, <1>5 DEF StockRow
<1>7. lock' = [lock EXCEPT ![b] = t] /\ draft' = [draft EXCEPT ![b] = new]
  BY DEF EditQty, Write
<1>8. /\ blocked' \subseteq Tx
      /\ lock' \in [Books -> Tx \cup {NoTx}]
      /\ draft' \in [Books -> StockRow \cup {NoRow}]
      /\ \A x \in Books : lock'[x] = lock[x] \/ lock'[x] = t
  BY <1>6, <1>7 DEF TypeOK, EditQty, Unblock
<1>9. QED BY <1>8, ShapeEdit DEF EditQty

\* An edit of the book, first half: the transaction keeps the row it removed.
LEMMA ShapeMoveOut ==
    ASSUME Shape, NEW t \in Tx, MoveOut(t)
    PROVE  Shape'
<1> USE DEF Shape
<1>1. pc[t] = "edit" /\ ~BadInput(t) /\ Edited(t).book # old[t].book
  BY DEF MoveOut
<1>2. /\ old[t] \in Purchase /\ old[t] \in purchases
      /\ Edited(t) \in Purchase /\ Edited(t).id = old[t].id
      /\ old[t].book \in Books /\ old[t].qty \in Int
  BY <1>1, EditFits DEF Purchase
<1>3. added[t] = {} /\ removed[t] = {} /\ sold[t] = {} /\ old[t] # NoPurchase
  BY <1>1 DEF RowsHeld, Untouched
<1>4. /\ lock' = [lock EXCEPT ![old[t].book] = t]
      /\ lock' \in [Books -> Tx \cup {NoTx}]
      /\ draft' \in [Books -> StockRow \cup {NoRow}]
  BY <1>2, TakeType DEF MoveOut
<1> USE DEF MoveOut, db, Unblock
<1>5. TypeOK'
  BY <1>2, <1>4 DEF TypeOK, Working
<1>6. RowsHeld'
  BY <1>2, <1>3, <1>4 DEF RowsHeld, Untouched, TypeOK, Replies
<1>7. IdsUnique'
  BY <1>3 DEF IdsUnique, TypeOK
<1>8. Vetted'
  BY <1>1, <1>2 DEF Vetted, TypeOK, Edited
<1>9. Finite'
  BY DEF Finite
<1>10. QED BY <1>5, <1>6, <1>7, <1>8, <1>9

\* An edit of the book, second half: the row comes back under the same id.
LEMMA ShapeMoveIn ==
    ASSUME Shape, NEW t \in Tx, MoveIn(t)
    PROVE  Shape'
<1> DEFINE b == Edited(t).book
           new == [qty |-> Qty(Version(t, b)) + Edited(t).qty, cost |-> Edited(t).cost]
<1> USE DEF Shape
<1>1. pc[t] = "apply"
  BY DEF MoveIn
<1>2. /\ Edited(t) \in Purchase /\ b \in Books /\ Edited(t).id = old[t].id
      /\ old[t] # NoPurchase /\ old[t] \in purchases /\ old[t] \in Purchase
      /\ removed[t] = {old[t]} /\ added[t] = {}
  BY <1>1 DEF Vetted, RowsHeld, TypeOK, Purchase, Edited
<1>3. new \in StockRow
  BY <1>2, VersionType DEF StockRow, Purchase
<1>4. lock' = [lock EXCEPT ![b] = t] /\ draft' = [draft EXCEPT ![b] = new]
  BY DEF MoveIn, Upsert, Write
<1> USE DEF MoveIn, db, Unblock
<1>5. TypeOK'
  BY <1>2, <1>3, <1>4 DEF TypeOK, Working
<1>6. RowsHeld'
  BY <1>1, <1>2, <1>4 DEF RowsHeld, Untouched, TypeOK, Replies
<1>7. IdsUnique'
  <2>1. \A p \in purchases \cup sales : p.id < nextId
    BY DEF IdsUnique
  <2>2. \A q \in purchases : Edited(t).id = q.id => q = old[t]
    BY <1>2 DEF IdsUnique
  <2>3. \A u \in Tx \ {t} : \A q \in added[u] : q.id # Edited(t).id
    <3> SUFFICES ASSUME NEW u \in Tx \ {t}, NEW q \in added[u], q.id = old[t].id
                 PROVE  FALSE
      BY <1>2
    <3>1. old[t] = old[u] /\ old[t] \in removed[u]
      BY <1>2 DEF IdsUnique
    <3>2. QED BY <1>2, <3>1 DEF RowsHeld
  <2>4. \A u \in Tx : added'[u] = IF u = t THEN {Edited(t)} ELSE added[u]
    BY DEF TypeOK
  <2>5. QED BY <1>2, <2>1, <2>2, <2>3, <2>4 DEF IdsUnique
<1>8. Vetted'
  BY DEF Vetted, TypeOK, Edited
<1>9. Finite'
  <2>1. IsFiniteSet({Edited(t)})
    BY FS_Singleton
  <2>2. QED BY <2>1 DEF Finite, TypeOK
<1>10. QED BY <1>5, <1>6, <1>7, <1>8, <1>9

\* A deletion.
LEMMA ShapeEraseRow ==
    ASSUME Shape, NEW t \in Tx, EraseRow(t)
    PROVE  Shape'
<1> USE DEF Shape
<1>1. pc[t] = "erase"
  BY DEF EraseRow
<1>2. /\ old[t] # NoPurchase /\ old[t] \in Purchase /\ old[t] \in purchases
      /\ old[t].book \in Books /\ old[t].qty \in Int
      /\ added[t] = {} /\ removed[t] = {} /\ sold[t] = {}
  BY <1>1 DEF RowsHeld, Untouched, TypeOK, Purchase
<1>3. /\ lock' = [lock EXCEPT ![old[t].book] = t]
      /\ lock' \in [Books -> Tx \cup {NoTx}]
      /\ draft' \in [Books -> StockRow \cup {NoRow}]
  BY <1>2, TakeType DEF EraseRow
<1> USE DEF EraseRow, db, Unblock
<1>4. TypeOK'
  BY <1>2, <1>3 DEF TypeOK, Working
<1>5. RowsHeld'
  BY <1>2, <1>3 DEF RowsHeld, Untouched, TypeOK, Replies
<1>6. IdsUnique'
  BY <1>2 DEF IdsUnique, TypeOK
<1>7. Vetted'
  BY DEF Vetted, TypeOK, Edited
<1>8. Finite'
  BY DEF Finite
<1>9. QED BY <1>4, <1>5, <1>6, <1>7, <1>8

\* What the end of a transaction leaves to the others.
LEMMA ReleaseType ==
    ASSUME TypeOK, NEW t \in Tx, Release(t)
    PROVE  /\ lock' \in [Books -> Tx \cup {NoTx}]
           /\ draft' = draft /\ nextId' = nextId /\ call' = call /\ at' = at
           /\ blocked' \subseteq Tx
           /\ old' \in [Tx -> Purchase \cup {NoPurchase}]
           /\ added' \in [Tx -> SUBSET Purchase]
           /\ removed' \in [Tx -> SUBSET Purchase]
           /\ sold' \in [Tx -> SUBSET Sale]
           /\ old'[t] = NoPurchase /\ added'[t] = {} /\ removed'[t] = {} /\ sold'[t] = {}
           /\ \A u \in Tx \ {t} : /\ old'[u] = old[u] /\ added'[u] = added[u]
                                 /\ removed'[u] = removed[u] /\ sold'[u] = sold[u]
           /\ \A b \in Books : lock'[b] = IF lock[b] = t THEN NoTx ELSE lock[b]
  BY DEF Release, Unblock, TypeOK

\* A rollback lets go of everything the transaction held.
LEMMA ShapeRollback ==
    ASSUME Shape, NEW t \in Tx, Rollback(t)
    PROVE  Shape'
<1> USE DEF Rollback, db, Shape
<1>1. Release(t)
  OBVIOUS
<1>2. TypeOK'
  BY <1>1, ReleaseType DEF TypeOK, Replies
<1>3. pc' \in [Tx -> Working \cup Replies \cup {"idle"}] /\ pc'[t] = "raised"
      /\ \A u \in Tx \ {t} : pc'[u] = pc[u]
  BY DEF TypeOK, Replies
<1>4. RowsHeld'
  BY <1>1, <1>3, ReleaseType, SentinelAssumption DEF RowsHeld, Untouched, Replies
<1>5. IdsUnique'
  BY <1>1, ReleaseType DEF IdsUnique
<1>6. Vetted'
  BY <1>1, <1>3, ReleaseType DEF Vetted, Edited
<1>7. Finite'
  BY <1>1, ReleaseType, FS_EmptySet DEF Finite
<1>8. QED BY <1>2, <1>4, <1>5, <1>6, <1>7

\* A commit replaces its own row and no other transaction's.
LEMMA ShapeCommit ==
    ASSUME Shape, NEW t \in Tx, Commit(t)
    PROVE  Shape'
<1> USE DEF Commit, Shape
<1>1. Release(t)
  OBVIOUS
<1>2. /\ purchases' = (purchases \ removed[t]) \cup added[t]
      /\ sales' = sales \cup sold[t]
      /\ removed[t] \subseteq {old[t]} \cap purchases
  BY DEF RowsHeld
<1>3. PICK reply \in {"ok", "raised"} : pc' = [pc EXCEPT ![t] = reply]
  BY DEF Told
<1>4. pc' \in [Tx -> Working \cup Replies \cup {"idle"}] /\ pc'[t] \in {"ok", "raised"}
      /\ \A u \in Tx \ {t} : pc'[u] = pc[u]
  BY <1>3 DEF TypeOK, Replies
<1>5. TypeOK'
  BY <1>1, <1>4, ReleaseType DEF TypeOK
<1>6. RowsHeld'
  <2>1. ASSUME NEW u \in Tx \ {t}, old[u] # NoPurchase
        PROVE  old[u] \in purchases'
    <3>1. old[u] \in purchases
      BY <2>1 DEF RowsHeld
    <3>2. CASE old[u] \in removed[t]
      <4>1. old[t] = old[u]
        BY <1>2, <3>2
      <4>2. QED BY <2>1, <4>1 DEF RowsHeld
    <3>3. QED BY <1>2, <3>1, <3>2
  <2>2. \A u \in Tx \ {t} : removed[u] \subseteq {old[u]} \cap purchases'
    <3> SUFFICES ASSUME NEW u \in Tx \ {t}, NEW p \in removed[u]
                 PROVE  p = old[u] /\ p \in purchases'
      OBVIOUS
    <3>1. p = old[u] /\ p \in purchases
      BY DEF RowsHeld
    <3>2. old[u] # NoPurchase
      BY <3>1, SentinelAssumption DEF TypeOK
    <3>3. QED BY <2>1, <3>1, <3>2
  <2>3. \A u \in Tx \ {t} :
           /\ pc[u] \notin {"items", "apply", "commit"} => Untouched(u)'
           /\ old'[u] # NoPurchase => old[u] \in purchases'
    BY <1>1, <2>1, ReleaseType, SentinelAssumption DEF RowsHeld, Untouched
  <2>4. QED BY <1>1, <1>4, <2>2, <2>3, ReleaseType, SentinelAssumption
            DEF RowsHeld, Untouched, Replies
<1>7. IdsUnique'
  <2>1. \A p, q \in purchases' : p.id = q.id => p = q
    BY <1>2 DEF IdsUnique
  <2>2. \A u \in Tx : \A p \in added'[u] :
           /\ \A q \in purchases' : p.id = q.id => q = old'[u] /\ q \in removed'[u]
           /\ \A v \in Tx : \A q \in added'[v] : p.id = q.id => p = q /\ u = v
    BY <1>1, <1>2, ReleaseType DEF IdsUnique
  <2>3. \A p \in purchases' \cup sales' : p.id < nextId'
    BY <1>1, <1>2, ReleaseType DEF IdsUnique
  <2>4. \A u \in Tx : \A p \in added'[u] \cup sold'[u] : p.id < nextId'
    BY <1>1, ReleaseType DEF IdsUnique
  <2>5. QED BY <2>1, <2>2, <2>3, <2>4 DEF IdsUnique
<1>8. Vetted'
  BY <1>1, <1>4, ReleaseType DEF Vetted, Edited
<1>9. Finite'
  <2>1. IsFiniteSet(purchases \ removed[t])
    BY FS_Subset DEF Finite
  <2>2. IsFiniteSet(added[t]) /\ IsFiniteSet(sold[t]) /\ IsFiniteSet(sales)
    BY DEF Finite
  <2> HIDE DEF Commit, Shape
  <2>3. IsFiniteSet(purchases') /\ IsFiniteSet(sales')
    BY <1>2, <2>1, <2>2, FS_Union
  <2> USE DEF Shape
  <2>4. QED BY <1>1, <2>3, ReleaseType, FS_EmptySet DEF Finite
<1>10. QED BY <1>6, <1>7, <1>8, <1>9, <1>5

\* Every step keeps the shape.
LEMMA ShapeNext == Shape /\ [Next]_vars => Shape'
<1> SUFFICES ASSUME Shape, [Next]_vars PROVE Shape'
  OBVIOUS
<1>1. CASE UNCHANGED vars
  BY <1>1 DEF vars, Shape, TypeOK, RowsHeld, Untouched, IdsUnique, Vetted, Edited, Finite
<1>2. CASE Next
  <2>1. ASSUME NEW t \in Tx, Step(t) PROVE Shape'
    <3>1. CASE Skip(t) BY <3>1, ShapeSkip
    <3>2. CASE ReceiveItem(t) BY <3>2, ShapeReceiveItem
    <3>3. CASE SellItem(t) BY <3>3, ShapeSellItem
    <3>4. CASE LockRow(t) BY <3>4, ShapeLockRow
    <3>5. CASE NotFound(t) BY <3>5, ShapeNotFound
    <3>6. CASE EditRow(t) BY <3>6, ShapeEditRow
    <3>7. CASE EditQty(t) BY <3>7, ShapeEditQty
    <3>8. CASE MoveOut(t) BY <3>8, ShapeMoveOut
    <3>9. CASE MoveIn(t) BY <3>9, ShapeMoveIn
    <3>10. CASE EraseRow(t) BY <3>10, ShapeEraseRow
    <3>11. CASE Block(t) BY <3>11, ShapeBlock
    <3>12. CASE Commit(t) BY <3>12, ShapeCommit
    <3>13. CASE Raise(t) \/ Victim(t) BY <3>13, ShapeRollback DEF Raise, Victim
    <3>14. QED BY <2>1, <3>1, <3>2, <3>3, <3>4, <3>5, <3>6, <3>7, <3>8, <3>9,
                  <3>10, <3>11, <3>12, <3>13 DEF Step
  <2>2. ASSUME NEW t \in Tx, Cancel(t) PROVE Shape'
    BY <2>2, ShapeRollback DEF Cancel
  <2>3. ASSUME NEW t \in Tx, NEW c \in Calls, Begin(t, c) PROVE Shape'
    BY <2>3, ShapeBegin
  <2>4. CASE Rest
    BY <1>1, <2>4 DEF Rest
  <2>5. QED BY <1>2, <2>1, <2>2, <2>3, <2>4 DEF Next
<1>3. QED BY <1>1, <1>2

\* The shape holds in every reachable state.
THEOREM ShapeHolds == Spec => []Shape
<1>1. QED BY ShapeInit, ShapeNext, PTL DEF Spec

\* Every reachable state is well typed, whatever requests arrive.
THEOREM TypeCorrect == Spec => []TypeOK
<1>1. Shape => TypeOK
  BY DEF Shape
<1>2. QED BY ShapeHolds, <1>1, PTL

\* A row is edited or erased by one transaction at a time, from its committed
\* version.
THEOREM RowsStayHeld == Spec => []RowsHeld
<1>1. Shape => RowsHeld
  BY DEF Shape
<1>2. QED BY ShapeHolds, <1>1, PTL

\* No two purchases share an id, and none is handed out twice.
THEOREM IdsStayUnique == Spec => []IdsUnique
<1>1. Shape => IdsUnique
  BY DEF Shape
<1>2. QED BY ShapeHolds, <1>1, PTL
-----------------------------------------------------------------------------
(* The counts: stock, purchases and sales stay in step. *)

\* Rows R are rows of table P, and an id names one row of P.
Keyed(P, R) == R \subseteq P /\ \A p, q \in P : p.id = q.id => p = q

\* Taking rows R out of a table and putting rows A in, copy by copy.
LEMMA UnitsReplace ==
    ASSUME NEW P, NEW R, NEW A, NEW b, Keyed(P, R)
    PROVE  Units((P \ R) \cup A, b) = (Units(P, b) \ Units(R, b)) \cup Units(A, b)
<1>1. Units(P \ R, b) = Units(P, b) \ Units(R, b)
  BY UnitsMinus DEF Keyed
<1>2. QED BY <1>1, UnitsUnion

\* Replacing rows by rows for the same copies changes no count.
LEMMA UnitsSame ==
    ASSUME NEW P, NEW R, NEW A, NEW b, Keyed(P, R), Units(A, b) = Units(R, b)
    PROVE  Units((P \ R) \cup A, b) = Units(P, b)
<1>1. Units(R, b) \subseteq Units(P, b)
  BY DEF Units, Keyed
<1>2. Units((P \ R) \cup A, b) = (Units(P, b) \ Units(R, b)) \cup Units(A, b)
  BY UnitsReplace
<1>3. QED BY <1>1, <1>2

\* Replacements that agree copy by copy, in tables that do, agree.
LEMMA UnitsAlike ==
    ASSUME NEW P, NEW R, NEW A, NEW Q, NEW S, NEW B, NEW b, Keyed(P, R), Keyed(Q, S)
    PROVE  /\ Units(P, b) = Units(Q, b) /\ Units(R, b) = Units(S, b)
           /\ Units(A, b) = Units(B, b)
           => Units((P \ R) \cup A, b) = Units((Q \ S) \cup B, b)
<1>1. Units((P \ R) \cup A, b) = (Units(P, b) \ Units(R, b)) \cup Units(A, b)
  BY UnitsReplace
<1>2. Units((Q \ S) \cup B, b) = (Units(Q, b) \ Units(S, b)) \cup Units(B, b)
  BY UnitsReplace
<1>3. QED BY <1>1, <1>2

\* A finite table has a natural number of copies of each book.
LEMMA CountType ==
    ASSUME NEW R, IsRows(R), IsFiniteSet(R), NEW b
    PROVE  IsFiniteSet(Units(R, b)) /\ Cardinality(Units(R, b)) \in Nat
<1>1. IsFiniteSet(Units(R, b))
  BY UnitsFinite
<1>2. QED BY <1>1, FS_CardinalityType

\* The opening count is an integer, negative when purchases on file were sold.
LEMMA OpeningType == ASSUME NEW b \in Books PROVE Opening(b) \in Int
<1>1. IsRows(OnFile) /\ IsFiniteSet(OnFile)
  BY HistoryAssumption DEF IsRows, Purchase
<1>2. Cardinality(Units(OnFile, b)) \in Nat
  BY <1>1, CountType
<1>3. Qty(InStock[b]) \in Int
  BY HistoryAssumption DEF Qty, StockRow
<1>4. QED BY <1>2, <1>3 DEF Opening

\* The counts a transaction works with are numbers.
LEMMA Counted ==
    ASSUME Shape, NEW t \in Tx, NEW b \in Books
    PROVE  /\ IsFiniteSet(Units(After(t), b))
           /\ Cardinality(Units(After(t), b)) \in Nat
           /\ IsFiniteSet(Units(sales \cup sold[t], b))
           /\ Cardinality(Units(sales \cup sold[t], b)) \in Nat
<1> USE DEF Shape
<1>1. IsRows(After(t)) /\ IsRows(sales \cup sold[t])
  <2>1. After(t) \subseteq Purchase /\ sales \cup sold[t] \subseteq Sale
    BY DEF TypeOK, After
  <2>2. QED BY <2>1 DEF IsRows, Purchase, Sale
<1>2. IsFiniteSet(purchases \ removed[t])
  BY FS_Subset DEF Finite
<1>3. IsFiniteSet(After(t)) /\ IsFiniteSet(sales \cup sold[t])
  BY <1>2, FS_Union DEF Finite, After
<1>4. QED BY <1>1, <1>3, CountType

\* The row a statement of t reads agrees with the ledger t would leave.
LEMMA VersionConserved ==
    ASSUME IInv, NEW t \in Tx, NEW b \in Books
    PROVE  Qty(Version(t, b)) = Opening(b) + Cardinality(Units(After(t), b))
                                  - Cardinality(Units(sales \cup sold[t], b))
<1> USE DEF IInv, Shape
<1>1. CASE lock[b] = t
  BY <1>1 DEF DraftConserved, Version
<1>2. CASE lock[b] # t
  <2>1. Units(added[t], b) = Units(removed[t], b) /\ Units(sold[t], b) = {}
    BY <1>2 DEF DraftConserved
  <2>2. Keyed(purchases, removed[t])
    BY DEF RowsHeld, IdsUnique, Keyed
  <2>3. Units(After(t), b) = Units(purchases, b)
    BY <2>1, <2>2, UnitsSame DEF After
  <2>4. Units(sales \cup sold[t], b) = Units(sales, b) \cup Units(sold[t], b)
    BY UnitsUnion
  <2>5. Units(sales \cup sold[t], b) = Units(sales, b)
    BY <2>1, <2>4
  <2>6. QED BY <1>2, <2>3, <2>5 DEF Conserved, Version
<1>3. QED BY <1>1, <1>2

\* The visible quantity is never negative.
LEMMA VersionFits ==
    ASSUME IInv, NEW t \in Tx, NEW b \in Books
    PROVE  Qty(Version(t, b)) \in Nat
<1>1. Qty(Version(t, b)) \in Int
  BY VersionType DEF IInv, Shape
<1>2. Qty(Version(t, b)) >= 0
  BY SentinelAssumption DEF IInv, NeverNegative, Version
<1>3. QED BY <1>1, <1>2

\* The counts, without the shape they rest on.
Balanced == Conserved /\ DraftConserved /\ NeverNegative

\* What a step of t leaves to the others: their uncommitted rows and the stock
\* rows they hold.
Others(t) ==
    /\ UNCHANGED db
    /\ \A u \in Tx \ {t} : /\ added'[u] = added[u] /\ removed'[u] = removed[u]
                           /\ sold'[u] = sold[u]
    /\ \A b \in Books, u \in Tx \ {t} :
          /\ lock'[b] = u <=> lock[b] = u
          /\ lock'[b] = u => draft'[b] = draft[b]

\* A step of t keeps the counts of the others, so only its own remain to check.
LEMMA CountsKept ==
    ASSUME IInv, NEW t \in Tx, Others(t),
           \A b \in Books :
              IF lock'[b] = t
              THEN Qty(draft'[b]) = Opening(b) + Cardinality(Units(After(t)', b))
                                     - Cardinality(Units(sales \cup sold'[t], b))
              ELSE /\ Units(added'[t], b) = Units(removed'[t], b)
                   /\ Units(sold'[t], b) = {}
    PROVE  Conserved' /\ DraftConserved'
<1>1. Conserved'
  BY DEF IInv, Conserved, Others, db
<1>2. \A u \in Tx \ {t} : After(u)' = After(u)
  BY DEF After, Others, db
<1>3. DraftConserved'
  <2> SUFFICES ASSUME NEW u \in Tx, NEW b \in Books
               PROVE  IF lock'[b] = u
                      THEN Qty(draft'[b]) = Opening(b) + Cardinality(Units(After(u)', b))
                                             - Cardinality(Units(sales' \cup sold'[u], b))
                      ELSE /\ Units(added'[u], b) = Units(removed'[u], b)
                           /\ Units(sold'[u], b) = {}
    BY DEF DraftConserved
  <2>1. CASE u = t
    BY <2>1 DEF Others, db
  <2>2. CASE u # t
    <3>1. IF lock[b] = u
          THEN Qty(draft[b]) = Opening(b) + Cardinality(Units(After(u), b))
                                - Cardinality(Units(sales \cup sold[u], b))
          ELSE /\ Units(added[u], b) = Units(removed[u], b)
               /\ Units(sold[u], b) = {}
      BY DEF IInv, DraftConserved
    <3>2. QED BY <1>2, <2>2, <3>1 DEF Others, db
  <2>3. QED BY <2>1, <2>2
<1>4. QED BY <1>1, <1>3

\* A statement of t that writes the stock row of one book keeps the counts when
\* it changes the rows of that book by as much, and of no other book.
LEMMA CountsWrite ==
    ASSUME IInv, Shape', NEW t \in Tx, NEW B \in Books, NEW row, Free(t, B),
           Write(t, B, row), UNCHANGED db,
           \A u \in Tx \ {t} : /\ added'[u] = added[u] /\ removed'[u] = removed[u]
                               /\ sold'[u] = sold[u],
           \A b \in Books \ {B} : /\ Units(added'[t], b) = Units(added[t], b)
                                  /\ Units(removed'[t], b) = Units(removed[t], b)
                                  /\ Units(sold'[t], b) = Units(sold[t], b),
           Qty(row) >= 0,
           Qty(row) = Opening(B) + Cardinality(Units(After(t)', B))
                        - Cardinality(Units(sales \cup sold'[t], B))
    PROVE  Balanced'
<1>1. \A b \in Books : /\ lock'[b] = (IF b = B THEN t ELSE lock[b])
                       /\ draft'[b] = (IF b = B THEN row ELSE draft[b])
  BY DEF IInv, Shape, TypeOK, Write
<1>2. Others(t)
  BY <1>1, SentinelAssumption DEF Others, Free
<1>3. ASSUME NEW b \in Books \ {B}, lock[b] = t
      PROVE  Qty(draft'[b]) = Opening(b) + Cardinality(Units(After(t)', b))
                                - Cardinality(Units(sales \cup sold'[t], b))
  <2>1. Keyed(purchases, removed[t]) /\ Keyed(purchases, removed'[t])
    BY DEF IInv, Shape, RowsHeld, IdsUnique, Keyed, db
  <2>2. /\ Units(added'[t], b) = Units(added[t], b)
        /\ Units(removed'[t], b) = Units(removed[t], b)
    OBVIOUS
  <2>3. Units((purchases \ removed'[t]) \cup added'[t], b)
          = Units((purchases \ removed[t]) \cup added[t], b)
    BY <2>1, <2>2, UnitsAlike
  <2>4. Units(After(t)', b) = Units(After(t), b)
    BY <2>3 DEF After, db
  <2>5. Units(sales \cup sold'[t], b) = Units(sales \cup sold[t], b)
    <3>1. /\ Units(sales \cup sold'[t], b) = Units(sales, b) \cup Units(sold'[t], b)
          /\ Units(sales \cup sold[t], b) = Units(sales, b) \cup Units(sold[t], b)
      BY UnitsUnion
    <3>2. QED BY <3>1
  <2>6. Qty(draft[b]) = Opening(b) + Cardinality(Units(After(t), b))
                          - Cardinality(Units(sales \cup sold[t], b))
    BY <1>3 DEF IInv, DraftConserved
  <2>7. QED BY <1>1, <2>4, <2>5, <2>6
<1>4. ASSUME NEW b \in Books, lock'[b] # t
      PROVE  Units(added'[t], b) = Units(removed'[t], b) /\ Units(sold'[t], b) = {}
  <2>1. b # B /\ lock[b] # t
    BY <1>1, <1>4
  <2>2. Units(added[t], b) = Units(removed[t], b) /\ Units(sold[t], b) = {}
    BY <2>1 DEF IInv, DraftConserved
  <2>3. QED BY <2>1, <2>2
<1>5. \A b \in Books :
         IF lock'[b] = t
         THEN Qty(draft'[b]) = Opening(b) + Cardinality(Units(After(t)', b))
                                - Cardinality(Units(sales \cup sold'[t], b))
         ELSE /\ Units(added'[t], b) = Units(removed'[t], b)
              /\ Units(sold'[t], b) = {}
  BY <1>1, <1>3, <1>4
<1>6. Conserved' /\ DraftConserved'
  BY <1>2, <1>5, CountsKept
<1>7. NeverNegative'
  BY <1>1 DEF IInv, NeverNegative, db
<1>8. QED BY <1>6, <1>7 DEF Balanced

\* No count moves in a step that writes no row.
LEMMA CountsSame ==
    ASSUME IInv, UNCHANGED <<db, mine, lock, draft>>
    PROVE  Balanced'
<1>1. Conserved'
  BY DEF IInv, Conserved, db
<1>2. DraftConserved'
  BY DEF IInv, DraftConserved, After, db, mine
<1>3. NeverNegative'
  BY DEF IInv, NeverNegative, db
<1>4. QED BY <1>1, <1>2, <1>3 DEF Balanced

\* Receiving a line adds as many copies to the stock row as to the purchases.
LEMMA CountsReceiveItem ==
    ASSUME IInv, Shape', NEW t \in Tx, ReceiveItem(t)
    PROVE  Balanced'
<1> DEFINE B == This(t).book
           q == This(t).qty
           r == [id |-> nextId, book |-> B, qty |-> q, cost |-> This(t).cost]
           row == [qty |-> Qty(Version(t, B)) + q, cost |-> This(t).cost]
<1>1. Shape
  BY DEF IInv
<1>2. q \in Nat \ {0} /\ B \in Books
  BY <1>1, ItemFits DEF ReceiveItem, BadInput, Shape
<1>3. Free(t, B) /\ Write(t, B, row)
  BY DEF ReceiveItem, Upsert
<1>4. /\ UNCHANGED db /\ removed' = removed /\ sold' = sold
      /\ added' = [added EXCEPT ![t] = @ \cup {r}]
  BY DEF ReceiveItem
<1>5. /\ \A u \in Tx \ {t} : added'[u] = added[u]
      /\ added'[t] = added[t] \cup {r}
  BY <1>1, <1>4 DEF Shape, TypeOK
<1>6. ASSUME NEW b \in Books \ {B} PROVE Units(added'[t], b) = Units(added[t], b)
  <2>1. Units({r}, b) = {}
    BY UnitsOne
  <2>2. Units(added[t] \cup {r}, b) = Units(added[t], b) \cup Units({r}, b)
    BY UnitsUnion
  <2>3. QED BY <1>5, <2>1, <2>2
<1>7. After(t)' = After(t) \cup {r}
  BY <1>4, <1>5 DEF After, db
<1>8. \A p \in After(t) : p.id # r.id
  <2>1. \A p \in After(t) : p.id < nextId /\ p.id \in Nat
    BY <1>1 DEF Shape, IdsUnique, TypeOK, After, Purchase
  <2>2. nextId \in Nat
    BY <1>1 DEF Shape, TypeOK
  <2>3. QED BY <2>1, <2>2
<1>9. r.id \in Nat /\ r.qty \in Nat /\ r.book = B
  BY <1>1, <1>2 DEF Shape, TypeOK
<1>10. /\ IsFiniteSet(Units(After(t), B)) /\ Cardinality(Units(After(t), B)) \in Nat
      /\ Cardinality(Units(sales \cup sold[t], B)) \in Nat
  BY <1>1, <1>2, Counted
<1>11. Cardinality(Units(After(t) \cup {r}, B)) = Cardinality(Units(After(t), B)) + q
  <2> HIDE DEF r
  <2>1. Cardinality(Units(After(t) \cup {r}, B))
          = Cardinality(Units(After(t), B)) + (IF r.book = B THEN r.qty ELSE 0)
    BY <1>8, <1>9, <1>10, AddRow
  <2>2. r.qty = q
    BY DEF r
  <2>3. QED BY <1>9, <2>1, <2>2
<1>12. Qty(Version(t, B)) = Opening(B) + Cardinality(Units(After(t), B))
                              - Cardinality(Units(sales \cup sold[t], B))
  BY <1>2, VersionConserved
<1>13. Qty(Version(t, B)) \in Nat /\ Opening(B) \in Int
  BY <1>2, VersionFits, OpeningType
<1>14. row \in StockRow /\ Qty(row) = Qty(Version(t, B)) + q
  <2>1. row \in StockRow
    BY <1>1, <1>2, <1>13, ItemFits DEF ReceiveItem, Shape, StockRow, Item
  <2>2. QED BY <2>1, SentinelAssumption DEF Qty
<1>15. /\ Qty(row) >= 0
       /\ Qty(row) = Opening(B) + Cardinality(Units(After(t)', B))
                       - Cardinality(Units(sales \cup sold'[t], B))
  BY <1>2, <1>4, <1>7, <1>10, <1>11, <1>12, <1>13, <1>14
<1> HIDE DEF row, B
<1>16. QED BY <1>2, <1>3, <1>4, <1>5, <1>6, <1>15, CountsWrite

\* A guarded update leaves what the visible row held less what it takes.
LEMMA TakeCounts ==
    ASSUME IInv, NEW t \in Tx, NEW B \in Books, NEW q \in Int, Take(t, B, q),
           NEW row, row = [Version(t, B) EXCEPT !.qty = @ - q]
    PROVE  /\ Free(t, B) /\ Write(t, B, row)
           /\ Qty(row) = Qty(Version(t, B)) - q /\ Qty(row) >= 0
<1>1. /\ Version(t, B) \in StockRow /\ row \in StockRow
      /\ Version(t, B).qty - q >= 0
  BY TakeType DEF IInv, Shape
<1>2. Qty(row) = row.qty /\ Qty(Version(t, B)) = Version(t, B).qty
  BY <1>1, SentinelAssumption DEF Qty
<1>3. row.qty = Version(t, B).qty - q
  BY <1>1 DEF StockRow
<1>4. QED BY <1>1, <1>2, <1>3 DEF Take

\* Selling a line takes as many copies off the stock row as it adds to the sales.
LEMMA CountsSellItem ==
    ASSUME IInv, Shape', NEW t \in Tx, SellItem(t)
    PROVE  Balanced'
<1> DEFINE B == This(t).book
           q == This(t).qty
           r == [id |-> nextId, book |-> B, qty |-> q]
           row == [Version(t, B) EXCEPT !.qty = @ - q]
<1>1. Shape
  BY DEF IInv
<1>2. q \in Nat \ {0} /\ B \in Books
  BY <1>1, ItemFits DEF SellItem, Shape
<1>3. /\ Free(t, B) /\ Write(t, B, row)
      /\ Qty(row) = Qty(Version(t, B)) - q /\ Qty(row) >= 0
  <2>1. Take(t, B, q) /\ q \in Int
    BY <1>2 DEF SellItem
  <2> HIDE DEF B, q
  <2>2. QED BY <1>2, <2>1, TakeCounts
<1>4. /\ UNCHANGED db /\ removed' = removed /\ added' = added
      /\ sold' = [sold EXCEPT ![t] = @ \cup {r}]
  BY DEF SellItem
<1>5. /\ \A u \in Tx \ {t} : sold'[u] = sold[u]
      /\ sold'[t] = sold[t] \cup {r}
  BY <1>1, <1>4 DEF Shape, TypeOK
<1>6. ASSUME NEW b \in Books \ {B} PROVE Units(sold'[t], b) = Units(sold[t], b)
  <2>1. Units({r}, b) = {}
    BY UnitsOne
  <2>2. Units(sold[t] \cup {r}, b) = Units(sold[t], b) \cup Units({r}, b)
    BY UnitsUnion
  <2>3. QED BY <1>5, <2>1, <2>2
<1>7. /\ After(t)' = After(t)
      /\ sales \cup sold'[t] = (sales \cup sold[t]) \cup {r}
  BY <1>4, <1>5 DEF After, db
<1>8. \A s \in sales \cup sold[t] : s.id # r.id
  <2>1. \A s \in sales \cup sold[t] : s.id < nextId /\ s.id \in Nat
    BY <1>1 DEF Shape, IdsUnique, TypeOK, Sale
  <2>2. nextId \in Nat
    BY <1>1 DEF Shape, TypeOK
  <2>3. QED BY <2>1, <2>2
<1>9. r.id \in Nat /\ r.qty \in Nat /\ r.book = B
  BY <1>1, <1>2 DEF Shape, TypeOK
<1>10. /\ IsFiniteSet(Units(sales \cup sold[t], B))
      /\ Cardinality(Units(sales \cup sold[t], B)) \in Nat
      /\ Cardinality(Units(After(t), B)) \in Nat
  BY <1>1, <1>2, Counted
<1>11. Cardinality(Units((sales \cup sold[t]) \cup {r}, B))
         = Cardinality(Units(sales \cup sold[t], B)) + q
  <2> HIDE DEF r
  <2>1. Cardinality(Units((sales \cup sold[t]) \cup {r}, B))
          = Cardinality(Units(sales \cup sold[t], B)) + (IF r.book = B THEN r.qty ELSE 0)
    BY <1>8, <1>9, <1>10, AddRow
  <2>2. r.qty = q
    BY DEF r
  <2>3. QED BY <1>9, <2>1, <2>2
<1>12. Qty(Version(t, B)) = Opening(B) + Cardinality(Units(After(t), B))
                              - Cardinality(Units(sales \cup sold[t], B))
  BY <1>2, VersionConserved
<1>13. Qty(Version(t, B)) \in Nat /\ Opening(B) \in Int
  BY <1>2, VersionFits, OpeningType
<1>14. Qty(row) = Opening(B) + Cardinality(Units(After(t)', B))
                    - Cardinality(Units(sales \cup sold'[t], B))
  <2> HIDE DEF row, r, B, q
  <2>1. /\ Cardinality(Units(After(t)', B)) = Cardinality(Units(After(t), B))
        /\ Cardinality(Units(sales \cup sold'[t], B))
             = Cardinality(Units(sales \cup sold[t], B)) + q
    BY <1>7, <1>11
  <2>2. q \in Nat
    BY <1>2
  <2>3. QED BY <1>3, <1>10, <1>12, <1>13, <2>1, <2>2
<1> HIDE DEF row, B
<1>15. QED BY <1>2, <1>3, <1>4, <1>5, <1>6, <1>14, CountsWrite

\* The ledger before and after an edit or a deletion has taken the old row away.
LEMMA WithoutOld ==
    ASSUME IInv, NEW t \in Tx, pc[t] \in {"edit", "erase"}
    PROVE  /\ old[t] \in purchases /\ old[t].id \in Nat /\ old[t].qty \in Nat
           /\ old[t].book \in Books
           /\ added[t] = {} /\ removed[t] = {} /\ sold[t] = {}
           /\ After(t) = purchases
           /\ \A b \in Books :
                 /\ IsFiniteSet(Units(purchases \ {old[t]}, b))
                 /\ Cardinality(Units(purchases \ {old[t]}, b)) \in Nat
                 /\ Cardinality(Units(purchases \ {old[t]}, b))
                      = Cardinality(Units(purchases, b))
                          - (IF old[t].book = b THEN old[t].qty ELSE 0)
           /\ \A p \in purchases \ {old[t]} : p.id # old[t].id
<1> USE DEF IInv, Shape
<1>1. /\ old[t] \in purchases /\ old[t] \in Purchase
      /\ added[t] = {} /\ removed[t] = {} /\ sold[t] = {}
  BY DEF RowsHeld, Untouched, TypeOK
<1>2. old[t].id \in Nat /\ old[t].qty \in Nat /\ old[t].book \in Books
  BY <1>1 DEF Purchase
<1>3. \A p \in purchases : p.id = old[t].id => p = old[t]
  BY <1>1 DEF IdsUnique
<1>4. After(t) = purchases
  BY <1>1 DEF After
<1>5. ASSUME NEW b \in Books
      PROVE  /\ IsFiniteSet(Units(purchases \ {old[t]}, b))
             /\ Cardinality(Units(purchases \ {old[t]}, b)) \in Nat
             /\ Cardinality(Units(purchases \ {old[t]}, b))
                  = Cardinality(Units(purchases, b))
                      - (IF old[t].book = b THEN old[t].qty ELSE 0)
  <2>1. IsFiniteSet(Units(purchases, b))
    BY <1>4, Counted
  <2>2. /\ IsFiniteSet(Units(purchases \ {old[t]}, b))
        /\ Cardinality(Units(purchases \ {old[t]}, b))
             = Cardinality(Units(purchases, b))
                 - (IF old[t].book = b THEN old[t].qty ELSE 0)
    BY <1>1, <1>2, <1>3, <2>1, DropRow
  <2>3. QED BY <2>2, FS_CardinalityType
<1>6. QED BY <1>1, <1>2, <1>3, <1>4, <1>5

\* A deletion takes its copies off the stock row and its row out of the ledger;
\* so does the first half of an edit of the book.
LEMMA CountsRemove ==
    ASSUME IInv, Shape', NEW t \in Tx, pc[t] \in {"edit", "erase"},
           Take(t, old[t].book, old[t].qty),
           removed' = [removed EXCEPT ![t] = {old[t]}],
           UNCHANGED <<db, added, sold>>
    PROVE  Balanced'
<1> DEFINE B == old[t].book
           q == old[t].qty
           row == [Version(t, B) EXCEPT !.qty = @ - q]
           P == purchases \ {old[t]}
<1>1. Shape
  BY DEF IInv
<1>2. /\ B \in Books /\ q \in Nat /\ sold[t] = {} /\ added[t] = {} /\ removed[t] = {}
      /\ After(t) = purchases
      /\ Cardinality(Units(P, B)) = Cardinality(Units(purchases, B)) - q
  BY WithoutOld
<1>3. /\ Free(t, B) /\ Write(t, B, row)
      /\ Qty(row) = Qty(Version(t, B)) - q /\ Qty(row) >= 0
  <2>1. Take(t, B, q) /\ q \in Int
    BY <1>2
  <2> HIDE DEF B, q
  <2>2. QED BY <1>2, <2>1, TakeCounts
<1>4. /\ \A u \in Tx \ {t} : removed'[u] = removed[u]
      /\ removed'[t] = {old[t]}
  BY <1>1 DEF Shape, TypeOK
<1>5. ASSUME NEW b \in Books \ {B} PROVE Units(removed'[t], b) = Units(removed[t], b)
  <2>1. Units({old[t]}, b) = {} /\ Units({}, b) = {}
    BY UnitsOne, UnitsEmpty
  <2>2. QED BY <1>2, <1>4, <2>1
<1>6. After(t)' = P /\ sales \cup sold'[t] = sales \cup sold[t]
  BY <1>2, <1>4 DEF After, db
<1>7. /\ Cardinality(Units(After(t), B)) \in Nat
      /\ Cardinality(Units(sales \cup sold[t], B)) \in Nat
      /\ Qty(Version(t, B)) = Opening(B) + Cardinality(Units(After(t), B))
                                - Cardinality(Units(sales \cup sold[t], B))
      /\ Qty(Version(t, B)) \in Nat /\ Opening(B) \in Int
  BY <1>1, <1>2, Counted, VersionConserved, VersionFits, OpeningType
<1>8. Qty(row) = Opening(B) + Cardinality(Units(After(t)', B))
                   - Cardinality(Units(sales \cup sold'[t], B))
  <2> HIDE DEF row, B, q, P
  <2>1. /\ Cardinality(Units(After(t)', B)) = Cardinality(Units(After(t), B)) - q
        /\ Cardinality(Units(sales \cup sold'[t], B)) = Cardinality(Units(sales \cup sold[t], B))
    BY <1>2, <1>6
  <2>2. QED BY <1>2, <1>3, <1>7, <2>1
<1> HIDE DEF row, B
<1>9. QED BY <1>2, <1>3, <1>4, <1>5, <1>8, CountsWrite

\* The second half of an edit of the book adds its copies to the new book's
\* stock row and its row to the ledger.
LEMMA CountsMoveIn ==
    ASSUME IInv, Shape', NEW t \in Tx, MoveIn(t)
    PROVE  Balanced'
<1> DEFINE r == Edited(t)
           B == r.book
           row == [qty |-> Qty(Version(t, B)) + r.qty, cost |-> r.cost]
<1>1. Shape
  BY DEF IInv
<1>2. /\ r \in Purchase /\ r.id = old[t].id
      /\ old[t] \in purchases /\ removed[t] = {old[t]} /\ added[t] = {}
  BY <1>1, SentinelAssumption
     DEF MoveIn, Shape, Vetted, RowsHeld, TypeOK, Edited
<1>3. B \in Books /\ r.qty \in Nat /\ r.id \in Nat /\ r.cost \in CostOrNull
  BY <1>2 DEF Purchase
<1>4. Free(t, B) /\ Write(t, B, row)
  BY DEF MoveIn, Upsert
<1>5. /\ \A u \in Tx \ {t} : added'[u] = added[u]
      /\ added'[t] = {r} /\ removed' = removed /\ sold' = sold /\ UNCHANGED db
  BY <1>1 DEF MoveIn, Shape, TypeOK
<1>6. ASSUME NEW b \in Books \ {B} PROVE Units(added'[t], b) = Units(added[t], b)
  <2>1. Units({r}, b) = {} /\ Units({}, b) = {}
    BY UnitsOne, UnitsEmpty
  <2>2. QED BY <1>2, <1>5, <2>1
<1>7. /\ After(t) = purchases \ {old[t]}
      /\ After(t)' = After(t) \cup {r}
      /\ sales \cup sold'[t] = sales \cup sold[t]
  BY <1>2, <1>5 DEF After, db
<1>8. \A p \in After(t) : p.id # r.id
  BY <1>1, <1>2, <1>7 DEF Shape, IdsUnique
<1>9. /\ IsFiniteSet(Units(After(t), B)) /\ Cardinality(Units(After(t), B)) \in Nat
      /\ Cardinality(Units(sales \cup sold[t], B)) \in Nat
      /\ Qty(Version(t, B)) = Opening(B) + Cardinality(Units(After(t), B))
                                - Cardinality(Units(sales \cup sold[t], B))
      /\ Qty(Version(t, B)) \in Nat /\ Opening(B) \in Int
  BY <1>1, <1>3, Counted, VersionConserved, VersionFits, OpeningType
<1>10. Cardinality(Units(After(t) \cup {r}, B)) = Cardinality(Units(After(t), B)) + r.qty
  <2> HIDE DEF r
  <2>1. Cardinality(Units(After(t) \cup {r}, B))
          = Cardinality(Units(After(t), B)) + (IF r.book = B THEN r.qty ELSE 0)
    BY <1>3, <1>8, <1>9, AddRow
  <2>2. QED BY <2>1
<1>11. row \in StockRow /\ Qty(row) = Qty(Version(t, B)) + r.qty
  <2>1. row \in StockRow
    BY <1>3, <1>9 DEF StockRow
  <2>2. QED BY <2>1, SentinelAssumption DEF Qty
<1>12. /\ Qty(row) >= 0
       /\ Qty(row) = Opening(B) + Cardinality(Units(After(t)', B))
                       - Cardinality(Units(sales \cup sold'[t], B))
  <2> HIDE DEF row, B, r
  <2>1. /\ Cardinality(Units(After(t)', B)) = Cardinality(Units(After(t), B)) + r.qty
        /\ Cardinality(Units(sales \cup sold'[t], B)) = Cardinality(Units(sales \cup sold[t], B))
    BY <1>7, <1>10
  <2>2. QED BY <1>3, <1>9, <1>11, <2>1
<1> HIDE DEF row, B
<1>13. QED BY <1>3, <1>4, <1>5, <1>6, <1>12, CountsWrite

\* An edit of the quantity moves the difference to or from the stock row.
LEMMA CountsEditQty ==
    ASSUME IInv, Shape', NEW t \in Tx, EditQty(t)
    PROVE  Balanced'
<1> DEFINE r == Edited(t)
           B == old[t].book
           P == purchases \ {old[t]}
           row == [qty |-> Version(t, B).qty - Takes(t), cost |-> r.cost]
<1>1. Shape
  BY DEF IInv
<1>2. /\ pc[t] = "edit" /\ ~BadInput(t) /\ r.book = B /\ Free(t, B) /\ Write(t, B, row)
      /\ Version(t, B) # NoRow /\ Version(t, B).qty - Takes(t) >= 0
  BY DEF EditQty, Covers
<1>3. /\ B \in Books /\ old[t].qty \in Nat /\ old[t].id \in Nat
      /\ added[t] = {} /\ removed[t] = {} /\ sold[t] = {} /\ After(t) = purchases
      /\ IsFiniteSet(Units(P, B)) /\ Cardinality(Units(P, B)) \in Nat
      /\ Cardinality(Units(P, B)) = Cardinality(Units(purchases, B)) - old[t].qty
      /\ \A p \in P : p.id # old[t].id
  BY <1>2, WithoutOld
<1>4. r \in Purchase /\ r.id = old[t].id /\ r.qty \in Nat /\ r.cost \in CostOrNull
  <2>1. r \in Purchase /\ r.id = old[t].id
    BY <1>1, <1>2, EditFits DEF Shape
  <2>2. QED BY <2>1 DEF Purchase
<1>5. Takes(t) = old[t].qty - r.qty
  BY <1>2 DEF Takes
<1>6. /\ \A u \in Tx \ {t} : added'[u] = added[u] /\ removed'[u] = removed[u]
      /\ added'[t] = {r} /\ removed'[t] = {old[t]} /\ sold' = sold /\ UNCHANGED db
  BY <1>1 DEF EditQty, Shape, TypeOK
<1>7. ASSUME NEW b \in Books \ {B}
      PROVE  /\ Units(added'[t], b) = Units(added[t], b)
             /\ Units(removed'[t], b) = Units(removed[t], b)
  <2>1. Units({r}, b) = {} /\ Units({old[t]}, b) = {} /\ Units({}, b) = {}
    BY <1>2, UnitsOne, UnitsEmpty
  <2>2. QED BY <1>3, <1>6, <2>1
<1>8. After(t)' = P \cup {r} /\ sales \cup sold'[t] = sales \cup sold[t]
  BY <1>6 DEF After, db
<1>9. Cardinality(Units(P \cup {r}, B)) = Cardinality(Units(P, B)) + r.qty
  <2> HIDE DEF r, P
  <2>1. (\A s \in P : s.id # r.id) /\ r.id \in Nat /\ r.qty \in Nat
    BY <1>3, <1>4
  <2>2. IsFiniteSet(Units(P, B))
    BY <1>3
  <2>3. Cardinality(Units(P \cup {r}, B))
          = Cardinality(Units(P, B)) + (IF r.book = B THEN r.qty ELSE 0)
    BY <2>1, <2>2, AddRow
  <2>4. QED BY <1>2, <2>3
<1>10. /\ Cardinality(Units(After(t), B)) \in Nat
      /\ Cardinality(Units(sales \cup sold[t], B)) \in Nat
      /\ Qty(Version(t, B)) = Opening(B) + Cardinality(Units(After(t), B))
                                - Cardinality(Units(sales \cup sold[t], B))
      /\ Qty(Version(t, B)) \in Nat /\ Opening(B) \in Int
  BY <1>1, <1>3, Counted, VersionConserved, VersionFits, OpeningType
<1>11. Qty(Version(t, B)) = Version(t, B).qty
  BY <1>2 DEF Qty
<1>12. row \in StockRow /\ Qty(row) = Qty(Version(t, B)) - Takes(t)
  <2>1. row \in StockRow
    BY <1>3, <1>4, <1>5, <1>10, <1>11 DEF StockRow
  <2>2. QED BY <1>11, <2>1, SentinelAssumption DEF Qty
<1>13. /\ Qty(row) >= 0
       /\ Qty(row) = Opening(B) + Cardinality(Units(After(t)', B))
                       - Cardinality(Units(sales \cup sold'[t], B))
  <2> HIDE DEF row, B, r, P
  <2>1. /\ Cardinality(Units(After(t)', B))
             = Cardinality(Units(After(t), B)) - old[t].qty + r.qty
        /\ Cardinality(Units(sales \cup sold'[t], B)) = Cardinality(Units(sales \cup sold[t], B))
    BY <1>3, <1>8, <1>9
  <2>2. QED BY <1>2, <1>3, <1>4, <1>5, <1>10, <1>11, <1>12, <2>1
<1> HIDE DEF row, B
<1>14. QED BY <1>2, <1>3, <1>6, <1>7, <1>13, CountsWrite

\* An edit that moves no copies replaces the row by one for the same copies.
LEMMA CountsEditRow ==
    ASSUME IInv, Shape', NEW t \in Tx, EditRow(t)
    PROVE  Balanced'
<1> DEFINE r == Edited(t)
<1>1. Shape
  BY DEF IInv
<1>2. /\ pc[t] = "edit" /\ r.book = old[t].book /\ r.qty = old[t].qty /\ r.id = old[t].id
  BY DEF EditRow, Touches, Edited
<1>3. /\ added[t] = {} /\ removed[t] = {} /\ sold[t] = {} /\ \A b \in Books : lock[b] # t
  BY <1>1, <1>2 DEF Shape, RowsHeld, Untouched
<1>4. /\ \A u \in Tx \ {t} : added'[u] = added[u] /\ removed'[u] = removed[u]
      /\ added'[t] = {r} /\ removed'[t] = {old[t]}
      /\ sold' = sold /\ lock' = lock /\ draft' = draft /\ UNCHANGED db
  BY <1>1 DEF EditRow, Shape, TypeOK
<1>5. ASSUME NEW b \in Books
      PROVE  Units(added'[t], b) = Units(removed'[t], b) /\ Units(sold'[t], b) = {}
  <2>1. /\ Units({r}, b) = IF r.book = b THEN {r.id} \X (1 .. r.qty) ELSE {}
        /\ Units({old[t]}, b)
             = IF old[t].book = b THEN {old[t].id} \X (1 .. old[t].qty) ELSE {}
        /\ Units({}, b) = {}
    BY UnitsOne, UnitsEmpty
  <2>2. QED BY <1>2, <1>3, <1>4, <2>1
<1>6. Others(t)
  BY <1>4 DEF Others
<1>7. Conserved' /\ DraftConserved'
  <2> HIDE DEF r
  <2>1. \A b \in Books :
           /\ lock'[b] # t
           /\ Units(added'[t], b) = Units(removed'[t], b) /\ Units(sold'[t], b) = {}
    BY <1>3, <1>4, <1>5
  <2>2. QED BY <1>6, <2>1, CountsKept
<1>8. NeverNegative'
  BY <1>4 DEF IInv, NeverNegative, db
<1>9. QED BY <1>7, <1>8 DEF Balanced

\* A rollback leaves the committed counts and takes its own with it.
LEMMA CountsRollback ==
    ASSUME IInv, NEW t \in Tx, Rollback(t)
    PROVE  Balanced'
<1>1. TypeOK /\ Release(t) /\ UNCHANGED db
  BY DEF Rollback, IInv, Shape
<1>2. /\ added'[t] = {} /\ removed'[t] = {} /\ sold'[t] = {} /\ draft' = draft
      /\ \A u \in Tx \ {t} : /\ added'[u] = added[u] /\ removed'[u] = removed[u]
                             /\ sold'[u] = sold[u]
      /\ \A b \in Books : lock'[b] = IF lock[b] = t THEN NoTx ELSE lock[b]
  BY <1>1, ReleaseType
<1>3. Others(t)
  BY <1>1, <1>2, SentinelAssumption DEF Others
<1>4. \A b \in Books :
         /\ lock'[b] # t
         /\ Units(added'[t], b) = Units(removed'[t], b) /\ Units(sold'[t], b) = {}
  BY <1>2, UnitsEmpty, SentinelAssumption
<1>5. Conserved' /\ DraftConserved'
  BY <1>3, <1>4, CountsKept
<1>6. NeverNegative'
  BY <1>1, <1>2 DEF IInv, NeverNegative, db
<1>7. QED BY <1>5, <1>6 DEF Balanced

\* A commit publishes a version that agrees with the ledger it publishes.
LEMMA CountsCommit ==
    ASSUME IInv, Shape', NEW t \in Tx, Commit(t)
    PROVE  Balanced'
<1>1. TypeOK /\ RowsHeld /\ IdsUnique /\ Release(t)
  BY DEF Commit, IInv, Shape
<1>2. /\ purchases' = After(t) /\ sales' = sales \cup sold[t]
      /\ \A b \in Books : stock'[b] = Version(t, b)
  BY DEF Commit, After, Version
<1>3. /\ added'[t] = {} /\ removed'[t] = {} /\ sold'[t] = {} /\ draft' = draft
      /\ \A u \in Tx \ {t} : /\ added'[u] = added[u] /\ removed'[u] = removed[u]
                             /\ sold'[u] = sold[u]
      /\ \A b \in Books : lock'[b] = IF lock[b] = t THEN NoTx ELSE lock[b]
  BY <1>1, ReleaseType
<1>4. Conserved'
  <2>1. ASSUME NEW b \in Books
        PROVE  Qty(stock'[b]) = Opening(b) + Cardinality(Units(purchases', b))
                                  - Cardinality(Units(sales', b))
    BY <1>2, VersionConserved
  <2>2. QED BY <2>1 DEF Conserved
<1>5. ASSUME NEW b \in Books, lock[b] # t
      PROVE  /\ Units(purchases', b) = Units(purchases, b)
             /\ \A u \in Tx : Units(sales' \cup sold[u], b) = Units(sales \cup sold[u], b)
  <2>1. Units(added[t], b) = Units(removed[t], b) /\ Units(sold[t], b) = {}
    BY <1>5 DEF IInv, DraftConserved
  <2>2. Keyed(purchases, removed[t])
    BY <1>1 DEF RowsHeld, IdsUnique, Keyed
  <2>3. Units((purchases \ removed[t]) \cup added[t], b) = Units(purchases, b)
    BY <2>1, <2>2, UnitsSame
  <2>4. ASSUME NEW u \in Tx
        PROVE  Units(sales' \cup sold[u], b) = Units(sales \cup sold[u], b)
    <3>1. /\ Units(sales' \cup sold[u], b) = Units(sales', b) \cup Units(sold[u], b)
          /\ Units(sales \cup sold[t], b) = Units(sales, b) \cup Units(sold[t], b)
          /\ Units(sales \cup sold[u], b) = Units(sales, b) \cup Units(sold[u], b)
      BY UnitsUnion
    <3>2. QED BY <1>2, <2>1, <3>1
  <2>5. QED BY <1>2, <2>3, <2>4 DEF After
<1>6. ASSUME NEW u \in Tx \ {t}, NEW b \in Books, lock[b] = u
      PROVE  /\ Units(After(u)', b) = Units(After(u), b)
             /\ Units(sales' \cup sold'[u], b) = Units(sales \cup sold[u], b)
  <2>1. Keyed(purchases, removed[u]) /\ Keyed(purchases', removed[u])
    BY <1>1, <1>3 DEF RowsHeld, IdsUnique, Keyed, Shape
  <2>2. /\ Units(purchases', b) = Units(purchases, b)
        /\ Units(sales' \cup sold[u], b) = Units(sales \cup sold[u], b)
    BY <1>5, <1>6
  <2>3. Units((purchases' \ removed[u]) \cup added[u], b)
          = Units((purchases \ removed[u]) \cup added[u], b)
    <3>1. Keyed(purchases, removed[u])
      BY <2>1
    <3>2. Units((purchases \ removed[u]) \cup added[u], b)
            = (Units(purchases, b) \ Units(removed[u], b)) \cup Units(added[u], b)
      BY <3>1, UnitsReplace
    <3>3. Units((purchases' \ removed[u]) \cup added[u], b)
            = (Units(purchases', b) \ Units(removed[u], b)) \cup Units(added[u], b)
      BY <2>1, UnitsReplace
    <3>4. QED BY <2>2, <3>2, <3>3
  <2>4. After(u)' = (purchases' \ removed[u]) \cup added[u]
    BY <1>3 DEF After
  <2>5. QED BY <1>3, <2>2, <2>3, <2>4 DEF After
<1>7. DraftConserved'
  <2> SUFFICES ASSUME NEW u \in Tx, NEW b \in Books
               PROVE  IF lock'[b] = u
                      THEN Qty(draft'[b]) = Opening(b) + Cardinality(Units(After(u)', b))
                                             - Cardinality(Units(sales' \cup sold'[u], b))
                      ELSE /\ Units(added'[u], b) = Units(removed'[u], b)
                           /\ Units(sold'[u], b) = {}
    BY DEF DraftConserved
  <2>1. CASE u = t
    BY <1>3, <2>1, UnitsEmpty, SentinelAssumption
  <2>2. CASE u # t /\ lock[b] = u
    <3>1. Qty(draft[b]) = Opening(b) + Cardinality(Units(After(u), b))
                            - Cardinality(Units(sales \cup sold[u], b))
      BY <2>2 DEF IInv, DraftConserved
    <3>2. QED BY <1>3, <1>6, <2>2, <3>1
  <2>3. CASE u # t /\ lock[b] # u
    <3>1. lock'[b] # u
      BY <1>3, <2>3, SentinelAssumption
    <3>2. Units(added[u], b) = Units(removed[u], b) /\ Units(sold[u], b) = {}
      BY <2>3 DEF IInv, DraftConserved
    <3>3. QED BY <1>3, <2>3, <3>1, <3>2
  <2>4. QED BY <2>1, <2>2, <2>3
<1>8. NeverNegative'
  BY <1>2, <1>3, SentinelAssumption DEF IInv, NeverNegative, Version
<1>9. QED BY <1>4, <1>7, <1>8 DEF Balanced

-----------------------------------------------------------------------------
(* The invariant, and what follows from it. *)

\* The counts agree when the model starts: that is what the opening count is.
LEMMA InvInit == Init => IInv
<1> SUFFICES ASSUME Init PROVE IInv
  OBVIOUS
<1>1. Shape
  BY ShapeInit
<1>2. ASSUME NEW b \in Books
      PROVE  Qty(stock[b]) = Opening(b) + Cardinality(Units(purchases, b))
                               - Cardinality(Units(sales, b))
  <2>1. Opening(b) \in Int /\ Qty(InStock[b]) \in Int
    BY OpeningType, HistoryAssumption DEF Qty, StockRow
  <2>2. IsRows(OnFile) /\ IsFiniteSet(OnFile)
    BY HistoryAssumption DEF IsRows, Purchase
  <2>3. Cardinality(Units(OnFile, b)) \in Nat
    BY <2>2, CountType
  <2>4. Cardinality(Units(sales, b)) = 0
    BY UnitsEmpty, FS_EmptySet DEF Init
  <2>5. QED BY <2>1, <2>3, <2>4 DEF Init, Opening
<1>3. Conserved
  BY <1>2 DEF Conserved
<1>4. DraftConserved
  BY UnitsEmpty, SentinelAssumption DEF Init, DraftConserved
<1>5. NeverNegative
  BY HistoryAssumption DEF Init, NeverNegative
<1>6. QED BY <1>1, <1>3, <1>4, <1>5 DEF IInv

\* Every step keeps the invariant.
LEMMA InvNext == IInv /\ [Next]_vars => IInv'
<1> SUFFICES ASSUME IInv, [Next]_vars PROVE IInv'
  OBVIOUS
<1>1. Shape'
  BY ShapeNext DEF IInv
<1>2. Balanced'
  <2>1. CASE UNCHANGED vars
    BY <2>1, CountsSame DEF vars, db, mine
  <2>2. ASSUME NEW t \in Tx, Step(t) PROVE Balanced'
    <3>1. CASE Skip(t) \/ LockRow(t) \/ NotFound(t) \/ Block(t)
      BY <3>1, CountsSame DEF Skip, LockRow, NotFound, Block
    <3>2. CASE ReceiveItem(t) BY <1>1, <3>2, CountsReceiveItem
    <3>3. CASE SellItem(t) BY <1>1, <3>3, CountsSellItem
    <3>4. CASE EditRow(t) BY <1>1, <3>4, CountsEditRow
    <3>5. CASE EditQty(t) BY <1>1, <3>5, CountsEditQty
    <3>6. CASE MoveOut(t) BY <1>1, <3>6, CountsRemove DEF MoveOut
    <3>7. CASE MoveIn(t) BY <1>1, <3>7, CountsMoveIn
    <3>8. CASE EraseRow(t) BY <1>1, <3>8, CountsRemove DEF EraseRow
    <3>9. CASE Commit(t) BY <1>1, <3>9, CountsCommit
    <3>10. CASE Raise(t) \/ Victim(t) BY <3>10, CountsRollback DEF Raise, Victim
    <3>11. QED BY <2>2, <3>1, <3>2, <3>3, <3>4, <3>5, <3>6, <3>7, <3>8, <3>9, <3>10
               DEF Step
  <2>3. ASSUME NEW t \in Tx, Cancel(t) PROVE Balanced'
    BY <2>3, CountsRollback DEF Cancel
  <2>4. ASSUME NEW t \in Tx, NEW c \in Calls, Begin(t, c) PROVE Balanced'
    BY <2>4, CountsSame DEF Begin
  <2>5. CASE Rest
    BY <2>1, <2>5 DEF Rest
  <2>6. QED BY <2>1, <2>2, <2>3, <2>4, <2>5 DEF Next
<1>3. QED BY <1>1, <1>2 DEF IInv, Balanced

\* The inductive invariant holds in every reachable state.
THEOREM Invariance == Spec => []IInv
<1>1. QED BY InvInit, InvNext, PTL DEF Spec

\* However batches, sales, edits and deletions interleave, block, deadlock, roll
\* back or fail, the committed stock of every book is its opening count plus the
\* copies purchased less the copies sold.
THEOREM StockConserved == Spec => []Conserved
<1>1. IInv => Conserved
  BY DEF IInv
<1>2. QED BY Invariance, <1>1, PTL

\* What a transaction has done to a stock row it has done to its own rows too.
THEOREM DraftsConserved == Spec => []DraftConserved
<1>1. IInv => DraftConserved
  BY DEF IInv
<1>2. QED BY Invariance, <1>1, PTL

\* No stock row, committed or being written, is ever negative.
THEOREM NeverOversold == Spec => []NeverNegative
<1>1. IInv => NeverNegative
  BY DEF IInv
<1>2. QED BY Invariance, <1>1, PTL

-----------------------------------------------------------------------------
(* Deadlock. *)

\* What a request has locked so far: a batch holds rows of lines it has passed, a
\* move between its halves holds the row of the old book.
Turn(t) ==
    \A b \in Books : lock[b] = t =>
        /\ pc[t] = "items" =>
              \E i \in DOMAIN call[t].items :
                  /\ i < at[t] /\ ~Dropped(call[t], call[t].items[i])
                  /\ call[t].items[i].book = b
        /\ pc[t] = "apply" => b = old[t].book

\* Every request takes its locks in turn.
InTurn == \A t \in Tx : Turn(t)

\* A step of one request leaves the turns of the others alone.
LEMMA TurnKept ==
    ASSUME InTurn, NEW t \in Tx,
           \A u \in Tx \ {t} : /\ pc'[u] = pc[u] /\ call'[u] = call[u]
                               /\ at'[u] = at[u] /\ old'[u] = old[u],
           \A b \in Books : lock'[b] \in {lock[b], t, NoTx},
           Turn(t)'
    PROVE  InTurn'
<1>1. ASSUME NEW u \in Tx \ {t} PROVE Turn(u)'
  <2>1. Turn(u)
    BY DEF InTurn
  <2>2. \A b \in Books : lock'[b] = u => lock[b] = u
    BY SentinelAssumption
  <2>3. pc'[u] = pc[u] /\ call'[u] = call[u] /\ at'[u] = at[u] /\ old'[u] = old[u]
    OBVIOUS
  <2>4. QED BY ONLY <2>1, <2>2, <2>3 DEF Turn, Dropped
<1>2. QED BY <1>1 DEF InTurn

\* In the beginning nobody holds anything.
LEMMA InTurnInit == Init => InTurn
  BY SentinelAssumption DEF Init, InTurn, Turn

\* Arriving, passing a line over, waiting and finding a row lock nothing.
LEMMA InTurnQuiet ==
    ASSUME Shape, InTurn, NEW t \in Tx,
           Skip(t) \/ Block(t) \/ LockRow(t) \/ NotFound(t) \/ \E c \in Calls : Begin(t, c)
    PROVE  InTurn'
<1>1. /\ lock' = lock
      /\ \A u \in Tx \ {t} : /\ pc'[u] = pc[u] /\ call'[u] = call[u]
                             /\ at'[u] = at[u] /\ old'[u] = old[u]
  BY DEF Skip, Block, LockRow, NotFound, Begin, db, mine, Shape, TypeOK
<1>2. Turn(t)'
  <2>1. CASE Skip(t)
    <3>1. /\ at[t] \in Nat /\ at'[t] = at[t] + 1
          /\ pc' = pc /\ call' = call /\ old' = old
      BY <2>1 DEF Skip, Shape, TypeOK
    <3>2. Turn(t)
      BY DEF InTurn
    <3>3. \A i \in DOMAIN call[t].items : i < at[t] => i < at[t] + 1
      <4>1. pc[t] = "items"
        BY <2>1 DEF Skip, HasItem
      <4>2. DOMAIN call[t].items \subseteq Int
        BY <4>1, BatchCall DEF Shape, Batch
      <4>3. QED BY <3>1, <4>2
    <3>4. QED BY ONLY <1>1, <2>1, <3>1, <3>2, <3>3 DEF Turn, Dropped, Skip, HasItem
  <2>2. CASE Block(t)
    <3>1. Turn(t) /\ at' = at /\ pc' = pc /\ call' = call /\ old' = old
      BY <2>2 DEF InTurn, Block
    <3>2. QED BY ONLY <1>1, <3>1 DEF Turn, Dropped
  <2>3. CASE LockRow(t) \/ NotFound(t) \/ \E c \in Calls : Begin(t, c)
    <3>1. pc[t] \in {"idle", "lock"}
      BY <2>3 DEF LockRow, NotFound, Begin
    <3>2. Untouched(t)
      BY <3>1 DEF Shape, RowsHeld
    <3>3. QED BY <1>1, <3>2 DEF Turn, Untouched
  <2>4. QED BY <2>1, <2>2, <2>3
<1>3. QED BY <1>1, <1>2, TurnKept

\* A line of a batch locks the row it names.
LEMMA InTurnItem ==
    ASSUME Shape, InTurn, NEW t \in Tx, ReceiveItem(t) \/ SellItem(t)
    PROVE  InTurn'
<1> DEFINE b == This(t).book
<1>1. /\ HasItem(t) /\ ~Dropped(call[t], This(t)) /\ pc[t] = "items"
      /\ pc' = pc /\ call' = call /\ old' = old
      /\ at[t] \in Nat /\ at' = [at EXCEPT ![t] = at[t] + 1]
  BY DEF ReceiveItem, SellItem, HasItem, Shape, TypeOK
<1>2. lock' = [lock EXCEPT ![b] = t]
  BY DEF ReceiveItem, SellItem, Upsert, Take, Write
<1>3. call[t] \in Batch
  BY <1>1, BatchCall DEF Shape
<1>4. Turn(t)'
  <2>1. at[t] \in DOMAIN call[t].items /\ call[t].items[at[t]] = This(t)
    BY <1>1 DEF HasItem, This
  <2>2. ASSUME NEW a \in Books, lock'[a] = t
        PROVE  \E i \in DOMAIN call[t].items :
                  /\ i < at'[t] /\ ~Dropped(call[t], call[t].items[i])
                  /\ call[t].items[i].book = a
    <3>1. at'[t] = at[t] + 1
      BY <1>1 DEF Shape, TypeOK
    <3>2. CASE a = b
      BY <1>1, <2>1, <3>1, <3>2
    <3>3. CASE a # b
      <4>1. lock[a] = t
        BY <1>2, <2>2, <3>3 DEF Shape, TypeOK
      <4>2. PICK i \in DOMAIN call[t].items :
               /\ i < at[t] /\ ~Dropped(call[t], call[t].items[i])
               /\ call[t].items[i].book = a
        BY <1>1, <4>1 DEF InTurn, Turn
      <4>3. i \in Int
        BY <1>3, <4>2 DEF Batch
      <4>4. QED BY <1>1, <3>1, <4>2, <4>3
    <3>4. QED BY <3>2, <3>3
  <2>3. QED BY <1>1, <2>2 DEF Turn, Dropped
<1>5. \A a \in Books : lock'[a] \in {lock[a], t, NoTx}
  BY <1>2 DEF Shape, TypeOK
<1>6. QED BY <1>1, <1>4, <1>5, TurnKept DEF Shape, TypeOK

\* The statements of an edit and of a deletion.
LEMMA InTurnEdit ==
    ASSUME Shape, InTurn, NEW t \in Tx,
           EditRow(t) \/ EditQty(t) \/ MoveOut(t) \/ MoveIn(t) \/ EraseRow(t)
    PROVE  InTurn'
<1>1. /\ old' = old /\ call' = call /\ at' = at
      /\ \A u \in Tx \ {t} : pc'[u] = pc[u]
  BY DEF EditRow, EditQty, MoveOut, MoveIn, EraseRow, Shape, TypeOK
<1>2. \A a \in Books : lock'[a] \in {lock[a], t, NoTx}
  BY DEF EditRow, EditQty, MoveOut, MoveIn, EraseRow, Upsert, Take, Write, Shape, TypeOK
<1>3. Turn(t)'
  <2>1. CASE MoveOut(t)
    <3>1. pc'[t] = "apply" /\ Untouched(t)
      BY <2>1 DEF MoveOut, Shape, TypeOK, RowsHeld
    <3>2. lock' = [lock EXCEPT ![old[t].book] = t]
      BY <2>1 DEF MoveOut, Take, Write
    <3>3. \A a \in Books : lock'[a] = t => a = old[t].book
      BY <3>1, <3>2 DEF Untouched, Shape, TypeOK
    <3>4. QED BY <1>1, <3>1, <3>3 DEF Turn
  <2>2. CASE EditRow(t) \/ EditQty(t) \/ MoveIn(t) \/ EraseRow(t)
    <3>1. pc'[t] = "commit"
      BY <2>2 DEF EditRow, EditQty, MoveIn, EraseRow, Shape, TypeOK
    <3>2. QED BY <3>1 DEF Turn
  <2>3. QED BY <2>1, <2>2
<1>4. QED BY <1>1, <1>2, <1>3, TurnKept

\* The end of a transaction gives everything back.
LEMMA InTurnEnd ==
    ASSUME Shape, InTurn, NEW t \in Tx, Commit(t) \/ Rollback(t)
    PROVE  InTurn'
<1>1. /\ Release(t)
      /\ \A u \in Tx \ {t} : pc'[u] = pc[u]
  BY DEF Commit, Rollback, Shape, TypeOK
<1>2. /\ call' = call /\ at' = at
      /\ \A u \in Tx \ {t} : old'[u] = old[u]
      /\ \A a \in Books : lock'[a] \in {lock[a], t, NoTx} /\ lock'[a] # t
  BY <1>1, SentinelAssumption DEF Release, Shape, TypeOK
<1>3. Turn(t)'
  BY <1>2 DEF Turn
<1>4. QED BY <1>1, <1>2, <1>3, TurnKept

\* Every step keeps the turns.
LEMMA InTurnNext == Shape /\ InTurn /\ [Next]_vars => InTurn'
<1> SUFFICES ASSUME Shape, InTurn, [Next]_vars PROVE InTurn'
  OBVIOUS
<1>1. CASE UNCHANGED vars
  BY <1>1 DEF vars, InTurn, Turn, Dropped
<1>2. ASSUME NEW t \in Tx, Step(t) PROVE InTurn'
  <2>1. CASE Skip(t) \/ Block(t) \/ LockRow(t) \/ NotFound(t)
    BY <2>1, InTurnQuiet
  <2>2. CASE ReceiveItem(t) \/ SellItem(t)
    BY <2>2, InTurnItem
  <2>3. CASE EditRow(t) \/ EditQty(t) \/ MoveOut(t) \/ MoveIn(t) \/ EraseRow(t)
    BY <2>3, InTurnEdit
  <2>4. CASE Commit(t) \/ Raise(t) \/ Victim(t)
    BY <2>4, InTurnEnd DEF Raise, Victim
  <2>5. QED BY <1>2, <2>1, <2>2, <2>3, <2>4 DEF Step
<1>3. ASSUME NEW t \in Tx, Cancel(t) PROVE InTurn'
  BY <1>3, InTurnEnd DEF Cancel
<1>4. ASSUME NEW t \in Tx, NEW c \in Calls, Begin(t, c) PROVE InTurn'
  BY <1>4, InTurnQuiet
<1>5. QED BY <1>1, <1>2, <1>3, <1>4 DEF Next, Rest

\* What a request that ascends still wants ranks no lower than what it holds.
LEMMA Upward ==
    ASSUME NEW rank, NEW t \in Tx, Ascends(t, rank), Shape, InTurn,
           Touches(t), Target(t) \in Books, NEW b \in Books, lock[b] = t
    PROVE  rank[b] <= rank[Target(t)]
<1>1. ~Untouched(t)
  BY DEF Untouched
<1>2. CASE pc[t] = "items"
  <2>1. /\ at[t] \in DOMAIN call[t].items /\ ~Dropped(call[t], call[t].items[at[t]])
        /\ Target(t) = call[t].items[at[t]].book
    BY <1>2 DEF Touches, HasItem, This, Target
  <2>2. IsBatch(call[t])
    BY <1>2 DEF Shape, Vetted
  <2>3. PICK i \in DOMAIN call[t].items :
           /\ i < at[t] /\ ~Dropped(call[t], call[t].items[i])
           /\ call[t].items[i].book = b
    BY <1>2 DEF InTurn, Turn
  <2>4. QED BY <2>1, <2>2, <2>3 DEF Ascends
<1>3. CASE pc[t] = "apply"
  BY <1>3 DEF InTurn, Turn, Target, Ascends
<1>4. CASE pc[t] \in {"edit", "erase"}
  BY <1>1, <1>4 DEF Shape, RowsHeld
<1>5. QED BY <1>2, <1>3, <1>4 DEF Touches, HasItem

\* A cycle of waits would have a request whose next row ranks below all the
\* others', and somebody in the cycle waits for it, whose next row ranks lower.
LEMMA NoCycle ==
    ASSUME Shape, InTurn
    PROVE  NoDeadlock
<1> SUFFICES ASSUME NEW S \in SUBSET blocked, S # {}, UNION {WaitsFor(u) : u \in S} = S,
                    NEW rank \in Orders, \A u \in S : Ascends(u, rank)
             PROVE  FALSE
  BY DEF NoDeadlock
<1> DEFINE Wants(u) == /\ u \in S /\ pc[u] # "lock" /\ Touches(u) /\ Target(u) \in Books
                       /\ lock[Target(u)] \in S /\ lock[Target(u)] # u
           R == {rank[Target(u)] : u \in {v \in S : Wants(v)}}
<1>1. S \subseteq Tx
  BY DEF Shape, TypeOK
<1>2. \A s \in S : \E u \in S : s \in WaitsFor(u)
  OBVIOUS
<1>3. \A s \in S : pc[s] # "lock"
  <2> TAKE s \in S
  <2>1. PICK u \in S : s \in WaitsFor(u)
    BY <1>2
  <2>2. CASE s \in RowHolders(u)
    BY <1>1, <2>2 DEF RowHolders, Shape, RowsHeld
  <2>3. CASE Target(u) \in Books /\ lock[Target(u)] = s
    BY <1>1, <2>3 DEF Shape, RowsHeld, Untouched
  <2>4. QED BY <2>1, <2>2, <2>3 DEF WaitsFor
<1>4. \A s \in S : \E u \in S : Wants(u) /\ lock[Target(u)] = s
  <2> TAKE s \in S
  <2>1. PICK u \in S : s \in WaitsFor(u)
    BY <1>2
  <2>2. WaitsFor(u) = IF Touches(u) /\ Target(u) \in Books
                      THEN {lock[Target(u)]} \ {NoTx, u} ELSE {}
    BY <1>3 DEF WaitsFor
  <2>3. QED BY <1>3, <2>1, <2>2
<1>5. R \subseteq Nat /\ R # {}
  BY <1>4 DEF Orders
<1>6. PICK n \in R : \A m \in R : ~(<<m, n>> \in OpToRel(<, Nat))
  <2> HIDE DEF R
  <2>1. QED BY <1>5, NatLessThanWellFounded, WFMin
<1>7. PICK u \in S : Wants(u) /\ rank[Target(u)] = n
  BY <1>6
<1>8. PICK v \in S : Wants(v) /\ lock[Target(v)] = u
  BY <1>4
<1>9. rank[Target(v)] <= rank[Target(u)]
  BY <1>1, <1>7, <1>8, Upward
<1>10. Target(v) # Target(u)
  BY <1>7, <1>8
<1>11. rank[Target(v)] # rank[Target(u)]
  BY <1>7, <1>8, <1>10 DEF Orders
<1>12. rank[Target(v)] \in Nat /\ n \in Nat /\ rank[Target(v)] \in R
  BY <1>5, <1>8
<1>13. rank[Target(v)] < n
  BY <1>7, <1>9, <1>11, <1>12
<1>14. <<rank[Target(v)], n>> \in OpToRel(<, Nat)
  BY <1>12, <1>13 DEF OpToRel
<1>15. QED BY <1>6, <1>12, <1>14

\* Requests that wait for each other in a cycle never agree on an order of the books,
\* batches by the order of their lines and moves upwards: of those that do, nobody is
\* ever ended as a deadlock's victim, however many other transactions overlap them.
THEOREM NeverDeadlocked == Spec => []NoDeadlock
<1>1. Init => Shape /\ InTurn
  BY ShapeInit, InTurnInit
<1>2. Shape /\ InTurn /\ [Next]_vars => (Shape /\ InTurn)'
  BY ShapeNext, InTurnNext
<1>3. Shape /\ InTurn => NoDeadlock
  BY NoCycle
<1>4. QED BY <1>1, <1>2, <1>3, PTL DEF Spec

-----------------------------------------------------------------------------
(* What a transaction has done so far, line by line. *)

\* The lines of its batch a request has been through, without those it dropped.
Done(t) ==
    {i \in DOMAIN call[t].items : i < at[t] /\ ~Dropped(call[t], call[t].items[i])}

\* Those of them that name a book.
DoneOf(t, b) == {i \in Done(t) : call[t].items[i].book = b}

\* The quantities of all its lines.
Copies(t) == [i \in DOMAIN call[t].items |-> call[t].items[i].qty]

\* The rows of the lines it has been through, numbered upwards.
Rows(t, f) ==
    IF call[t].op = "sale"
    THEN /\ added[t] = {}
         /\ sold[t] = {[id |-> f[i], book |-> call[t].items[i].book,
                        qty |-> call[t].items[i].qty] : i \in Done(t)}
    ELSE /\ sold[t] = {}
         /\ added[t] = {[id |-> f[i], book |-> call[t].items[i].book,
                         qty |-> call[t].items[i].qty,
                         cost |-> call[t].items[i].cost] : i \in Done(t)}

\* Those rows have ids of the sequence, in the order of the lines.
Filed(t) ==
    \E f \in [Done(t) -> Nat] :
        /\ \A i \in Done(t) : f[i] < nextId
        /\ \A i, j \in Done(t) : i < j => f[i] < f[j]
        /\ Rows(t, f)

\* The stock row a batch leaves of a book: every line of the book added or taken,
\* the cost that of the last line.
RowLeft(t, b) ==
    IF call[t].op = "sale"
    THEN [stock[b] EXCEPT !.qty = @ - SumOver(DoneOf(t, b), Copies(t))]
    ELSE [qty  |-> Qty(stock[b]) + SumOver(DoneOf(t, b), Copies(t)),
          cost |-> call[t].items[Promise!Max(DoneOf(t, b))].cost]

\* A batch holds the stock rows of the books it has been through, so changed.
Drawn(t) ==
    \A b \in Books :
        IF lock[b] = t
        THEN /\ DoneOf(t, b) # {} /\ draft[b] # NoRow
             /\ call[t].op = "sale" => stock[b] # NoRow
             /\ draft[b] = RowLeft(t, b)
        ELSE DoneOf(t, b) = {}

\* Between its halves a move has taken the copies of the old row, and no more.
Halfway(t) ==
    /\ sold[t] = {}
    /\ \A b \in Books : lock[b] = t <=> b = old[t].book
    /\ Covers(stock[old[t].book], old[t].qty)
    /\ draft[old[t].book] = [stock[old[t].book] EXCEPT !.qty = @ - old[t].qty]

\* What the row an edit or a deletion replaces counted for a book.
Less(t, b) == IF b = old[t].book THEN old[t].qty ELSE 0

\* What the row it leaves counts for a book.
More(t, b) == IF call[t].op = "update" /\ b = Edited(t).book THEN Edited(t).qty ELSE 0

\* The unit cost it leaves.
CostLeft(t, b) ==
    IF call[t].op = "update" /\ b = Edited(t).book THEN Edited(t).cost ELSE stock[b].cost

\* An edit or a deletion that is about to commit has replaced its row and changed
\* the stock rows of the books whose copies it moved.
Replaced(t) ==
    /\ old[t] # NoPurchase
    /\ removed[t] = {old[t]} /\ sold[t] = {}
    /\ added[t] = IF call[t].op = "update" THEN {Edited(t)} ELSE {}
    /\ call[t].op = "update" => Edited(t) \in Purchase
    /\ \A b \in Books :
          IF Less(t, b) = More(t, b) THEN lock[b] # t
          ELSE /\ lock[b] = t
               /\ call[t].op = "delete" => stock[b] # NoRow
               /\ Qty(stock[b]) - Less(t, b) + More(t, b) >= 0
               /\ draft[b] = [qty  |-> Qty(stock[b]) - Less(t, b) + More(t, b),
                              cost |-> CostLeft(t, b)]

\* What a transaction has done is what its request asks for so far.
OnTrack(t) ==
    /\ pc[t] = "idle" => at[t] = 1
    /\ pc[t] = "items" => Filed(t) /\ Drawn(t)
    /\ pc[t] = "erase" => call[t].op = "delete"
    /\ pc[t] \in {"edit", "apply", "erase", "commit"} =>
          call[t] # NoCall /\ call[t].op \in {"update", "delete"} /\ old[t].id = call[t].id
    /\ pc[t] = "apply" => Halfway(t)
    /\ pc[t] = "commit" => Replaced(t)

\* The identity columns number purchases and sales from one sequence.
Apart ==
    /\ \A s \in sales, p \in purchases : s.id # p.id
    /\ \A t \in Tx : \A s \in sold[t] :
          /\ \A r \in sales \cup purchases : s.id # r.id
          /\ \A u \in Tx : \A r \in added[u] : s.id # r.id
          /\ \A u \in Tx \ {t} : \A r \in sold[u] : s.id # r.id
    /\ \A t \in Tx : \A p \in added[t], s \in sales : p.id # s.id


\* So it is for every transaction.
AllOnTrack == \A t \in Tx : OnTrack(t)

\* The books and lines of another request are not what a step of t changes.
LEMMA TrackKept ==
    ASSUME Shape, NEW u \in Tx, OnTrack(u), nextId' \in Nat, nextId <= nextId',
           pc'[u] = pc[u], call'[u] = call[u], at'[u] = at[u], old'[u] = old[u],
           added'[u] = added[u], removed'[u] = removed[u], sold'[u] = sold[u],
           \A b \in Books :
              /\ lock'[b] = u <=> lock[b] = u
              /\ lock[b] = u => draft'[b] = draft[b] /\ stock'[b] = stock[b]
    PROVE  OnTrack(u)'
<1>1. /\ Done(u)' = Done(u) /\ Copies(u)' = Copies(u) /\ Edited(u)' = Edited(u)
      /\ \A b : DoneOf(u, b)' = DoneOf(u, b)
  BY DEF Done, Copies, DoneOf, Edited, Dropped
<1>2. \A b : Less(u, b)' = Less(u, b) /\ More(u, b)' = More(u, b)
  BY <1>1 DEF Less, More
<1>3. pc[u] = "items" => Filed(u)'
  <2> SUFFICES ASSUME pc[u] = "items" PROVE Filed(u)'
    OBVIOUS
  <2>1. PICK f \in [Done(u) -> Nat] :
           /\ \A i \in Done(u) : f[i] < nextId
           /\ \A i, j \in Done(u) : i < j => f[i] < f[j]
           /\ Rows(u, f)
    BY DEF OnTrack, Filed
  <2>2. \A i \in Done(u) : f[i] < nextId'
    BY <2>1 DEF Shape, TypeOK
  <2>3. Rows(u, f)'
    BY <1>1, <2>1 DEF Rows
  <2>4. QED BY <1>1, <2>1, <2>2, <2>3 DEF Filed
<1>4. pc[u] = "items" => Drawn(u)'
  <2> SUFFICES ASSUME pc[u] = "items", NEW b \in Books
               PROVE  IF lock'[b] = u
                      THEN /\ DoneOf(u, b)' # {} /\ draft'[b] # NoRow
                           /\ call'[u].op = "sale" => stock'[b] # NoRow
                           /\ draft'[b] = RowLeft(u, b)'
                      ELSE DoneOf(u, b)' = {}
    BY DEF Drawn
  <2>1. IF lock[b] = u
        THEN /\ DoneOf(u, b) # {} /\ draft[b] # NoRow
             /\ call[u].op = "sale" => stock[b] # NoRow
             /\ draft[b] = RowLeft(u, b)
        ELSE DoneOf(u, b) = {}
    BY DEF OnTrack, Drawn
  <2>2. CASE lock[b] # u
    BY <1>1, <2>1, <2>2
  <2>3. CASE lock[b] = u
    <3>1. stock'[b] = stock[b] /\ draft'[b] = draft[b]
      BY <2>3
    <3>2. RowLeft(u, b)' = RowLeft(u, b)
      BY <1>1, <3>1 DEF RowLeft
    <3>3. QED BY <1>1, <2>1, <2>3, <3>1, <3>2
  <2>4. QED BY <2>2, <2>3
<1>5. pc[u] = "apply" => Halfway(u)'
  <2> SUFFICES ASSUME pc[u] = "apply" PROVE Halfway(u)'
    OBVIOUS
  <2>1. Halfway(u) /\ old[u].book \in Books
    BY DEF OnTrack, Shape, RowsHeld, TypeOK, Purchase
  <2>2. lock[old[u].book] = u
    BY <2>1 DEF Halfway
  <2>3. /\ stock'[old[u].book] = stock[old[u].book]
        /\ draft'[old[u].book] = draft[old[u].book]
    BY <2>1, <2>2
  <2>4. QED BY <2>1, <2>3 DEF Halfway, Covers
<1>6. pc[u] = "commit" => Replaced(u)'
  <2> SUFFICES ASSUME pc[u] = "commit" PROVE Replaced(u)'
    OBVIOUS
  <2>1. Replaced(u)
    BY DEF OnTrack
  <2>2. \A b \in Books : lock[b] = u =>
           stock'[b] = stock[b] /\ draft'[b] = draft[b] /\ CostLeft(u, b)' = CostLeft(u, b)
    BY <1>1 DEF CostLeft
  <2>3. ASSUME NEW b \in Books
        PROVE  IF Less(u, b)' = More(u, b)' THEN lock'[b] # u
               ELSE /\ lock'[b] = u
                    /\ call'[u].op = "delete" => stock'[b] # NoRow
                    /\ Qty(stock'[b]) - Less(u, b)' + More(u, b)' >= 0
                    /\ draft'[b] = [qty  |-> Qty(stock'[b]) - Less(u, b)' + More(u, b)',
                                    cost |-> CostLeft(u, b)']
    <3>1. CASE Less(u, b) = More(u, b)
      <4>1. lock[b] # u
        BY <2>1, <3>1 DEF Replaced
      <4>2. lock'[b] # u /\ Less(u, b)' = Less(u, b) /\ More(u, b)' = More(u, b)
        BY <1>2, <4>1
      <4>3. QED BY ONLY <3>1, <4>2
    <3>2. CASE Less(u, b) # More(u, b)
      <4>1. /\ lock[b] = u
            /\ call[u].op = "delete" => stock[b] # NoRow
            /\ Qty(stock[b]) - Less(u, b) + More(u, b) >= 0
            /\ draft[b] = [qty  |-> Qty(stock[b]) - Less(u, b) + More(u, b),
                           cost |-> CostLeft(u, b)]
        BY <2>1, <3>2 DEF Replaced
      <4>2. /\ stock'[b] = stock[b] /\ draft'[b] = draft[b] /\ lock'[b] = u
            /\ CostLeft(u, b)' = CostLeft(u, b)
            /\ Less(u, b)' = Less(u, b) /\ More(u, b)' = More(u, b) /\ call'[u] = call[u]
        BY <1>2, <2>2, <4>1
      <4>3. QED BY ONLY <3>2, <4>1, <4>2
    <3>3. QED BY <3>1, <3>2
  <2>4. /\ old'[u] # NoPurchase /\ removed'[u] = {old'[u]} /\ sold'[u] = {}
        /\ added'[u] = IF call'[u].op = "update" THEN {Edited(u)'} ELSE {}
        /\ call'[u].op = "update" => Edited(u)' \in Purchase
    BY <1>1, <2>1 DEF Replaced
  <2>5. Replaced(u)' = (/\ old'[u] # NoPurchase
                        /\ removed'[u] = {old'[u]} /\ sold'[u] = {}
                        /\ added'[u] = IF call'[u].op = "update" THEN {Edited(u)'} ELSE {}
                        /\ call'[u].op = "update" => Edited(u)' \in Purchase
                        /\ \A b \in Books :
                              IF Less(u, b)' = More(u, b)' THEN lock'[b] # u
                              ELSE /\ lock'[b] = u
                                   /\ call'[u].op = "delete" => stock'[b] # NoRow
                                   /\ Qty(stock'[b]) - Less(u, b)' + More(u, b)' >= 0
                                   /\ draft'[b] = [qty  |-> Qty(stock'[b]) - Less(u, b)' + More(u, b)',
                                                   cost |-> CostLeft(u, b)'])
    BY DEF Replaced
  <2>6. QED BY ONLY <2>3, <2>4, <2>5
<1>7. QED BY <1>3, <1>4, <1>5, <1>6 DEF OnTrack

\* A line that is not dropped is the last of those done once it is done.
LEMMA LineDone ==
    ASSUME Shape, NEW t \in Tx, HasItem(t), ~Dropped(call[t], This(t)),
           call' = call, at' = [at EXCEPT ![t] = at[t] + 1]
    PROVE  /\ at[t] \in Nat /\ at[t] \notin Done(t) /\ at[t] \in Done(t)'
           /\ Done(t)' = Done(t) \cup {at[t]}
           /\ \A i \in Done(t) : i \in Nat /\ i < at[t]
           /\ \A b : DoneOf(t, b)' = IF b = This(t).book THEN DoneOf(t, b) \cup {at[t]}
                                     ELSE DoneOf(t, b)
<1>1. call[t].items \in Seq(Item) /\ at[t] \in DOMAIN call[t].items /\ at[t] \in Nat
  BY BatchCall DEF HasItem, Shape, Batch, TypeOK
<1>2. DOMAIN call[t].items \subseteq Nat
  BY <1>1
<1>3. at'[t] = at[t] + 1
  BY DEF Shape, TypeOK
<1>4. Done(t)' = {i \in DOMAIN call[t].items :
                    i < at[t] + 1 /\ ~Dropped(call[t], call[t].items[i])}
  BY <1>3 DEF Done, Dropped
<1>5. ~Dropped(call[t], call[t].items[at[t]])
  BY DEF This
<1>6. \A i \in DOMAIN call[t].items : i < at[t] + 1 <=> i < at[t] \/ i = at[t]
  BY <1>1, <1>2
<1>7. Done(t)' = Done(t) \cup {at[t]}
  BY <1>1, <1>4, <1>5, <1>6 DEF Done
<1>8. /\ at[t] \notin Done(t)
      /\ \A i \in Done(t) : i \in Nat /\ i < at[t]
  BY <1>1, <1>2 DEF Done
<1>9. \A b : DoneOf(t, b)' = {i \in Done(t)' : call[t].items[i].book = b}
  BY DEF DoneOf
<1>10. \A b : DoneOf(t, b)' = IF b = This(t).book THEN DoneOf(t, b) \cup {at[t]}
                              ELSE DoneOf(t, b)
  BY <1>7, <1>9 DEF DoneOf, This
<1>11. QED BY <1>1, <1>7, <1>8, <1>10

\* The lines done are finitely many, and their copies are counted in whole numbers.
LEMMA DoneFinite ==
    ASSUME Shape, NEW t \in Tx, pc[t] = "items"
    PROVE  /\ IsFiniteSet(Done(t)) /\ \A b : IsFiniteSet(DoneOf(t, b))
           /\ \A i \in DOMAIN call[t].items : Copies(t)[i] \in Int
<1>1. call[t].items \in Seq(Item)
  BY BatchCall DEF Shape, Batch
<1>2. PICK n \in Nat : DOMAIN call[t].items = 1 .. n
  BY <1>1
<1>3. IsFiniteSet(1 .. n)
  BY Numbered
<1>4. Done(t) \subseteq 1 .. n /\ \A b : DoneOf(t, b) \subseteq 1 .. n
  BY <1>2 DEF Done, DoneOf
<1>5. \A i \in DOMAIN call[t].items : call[t].items[i] \in Item
  BY <1>1
<1>6. \A i \in DOMAIN call[t].items : Copies(t)[i] \in Int
  BY <1>5 DEF Copies, Item
<1>7. QED BY <1>3, <1>4, <1>6, FS_Subset

\* The row of a line gets the next number.
LEMMA FiledNext ==
    ASSUME Shape, NEW t \in Tx, OnTrack(t), HasItem(t), ~Dropped(call[t], This(t)),
           call' = call, at' = [at EXCEPT ![t] = at[t] + 1], nextId' = nextId + 1,
           IF call[t].op = "sale"
           THEN /\ added'[t] = added[t]
                /\ sold'[t] = sold[t] \cup {[id |-> nextId, book |-> This(t).book,
                                             qty |-> This(t).qty]}
           ELSE /\ sold'[t] = sold[t]
                /\ added'[t] = added[t] \cup {[id |-> nextId, book |-> This(t).book,
                                               qty |-> This(t).qty, cost |-> This(t).cost]}
    PROVE  Filed(t)'
<1>1. PICK f \in [Done(t) -> Nat] :
         /\ \A i \in Done(t) : f[i] < nextId
         /\ \A i, j \in Done(t) : i < j => f[i] < f[j]
         /\ Rows(t, f)
  BY DEF OnTrack, Filed, HasItem
<1> DEFINE n == at[t]
           D == Done(t)
<1> PICK g : g = [i \in D \cup {n} |-> IF i = n THEN nextId ELSE f[i]]
  OBVIOUS
<1>2. /\ n \in Nat /\ n \notin D /\ Done(t)' = D \cup {n}
      /\ \A i \in D : i \in Nat /\ i < n
  BY LineDone
<1>3. nextId \in Nat
  BY DEF Shape, TypeOK
<1>4. g \in [Done(t)' -> Nat]
  BY <1>1, <1>2, <1>3
<1>5. \A i \in Done(t)' : g[i] < nextId'
  BY <1>1, <1>2, <1>3
<1>6. \A i, j \in Done(t)' : i < j => g[i] < g[j]
  <2> SUFFICES ASSUME NEW i \in D \cup {n}, NEW j \in D \cup {n}, i < j PROVE g[i] < g[j]
    BY <1>2
  <2>1. i # n
    BY <1>2
  <2>2. CASE j = n
    BY <1>1, <2>1, <2>2
  <2>3. CASE j # n
    BY <1>1, <2>1, <2>3
  <2>4. QED BY <2>2, <2>3
<1>7. /\ g[n] = nextId /\ \A i \in D : g[i] = f[i]
      /\ This(t) = call[t].items[n] /\ Done(t)' = D \cup {n}
  BY <1>2 DEF This
<1>8. CASE call[t].op = "sale"
  <2>1. /\ added'[t] = {}
        /\ sold[t] = {[id |-> f[i], book |-> call[t].items[i].book,
                       qty |-> call[t].items[i].qty] : i \in D}
    BY <1>1, <1>8 DEF Rows
  <2>2. {[id |-> g[i], book |-> call[t].items[i].book,
          qty |-> call[t].items[i].qty] : i \in D \cup {n}}
          = sold[t] \cup {[id |-> nextId, book |-> This(t).book, qty |-> This(t).qty]}
    BY ONLY <1>7, <2>1
  <2>3. call'[t] = call[t] /\ sold'[t] = {[id |-> g[i], book |-> call[t].items[i].book,
                                          qty |-> call[t].items[i].qty] : i \in Done(t)'}
    BY <1>7, <1>8, <2>2
  <2>4. Rows(t, g)'
    BY ONLY <1>8, <2>1, <2>3 DEF Rows
  <2>5. QED BY <1>4, <1>5, <1>6, <2>4 DEF Filed
<1>9. CASE call[t].op # "sale"
  <2>1. /\ sold'[t] = {}
        /\ added[t] = {[id |-> f[i], book |-> call[t].items[i].book,
                        qty |-> call[t].items[i].qty,
                        cost |-> call[t].items[i].cost] : i \in D}
    BY <1>1, <1>9 DEF Rows
  <2>2. {[id |-> g[i], book |-> call[t].items[i].book,
          qty |-> call[t].items[i].qty, cost |-> call[t].items[i].cost] : i \in D \cup {n}}
          = added[t] \cup {[id |-> nextId, book |-> This(t).book,
                            qty |-> This(t).qty, cost |-> This(t).cost]}
    BY ONLY <1>7, <2>1
  <2>3. call'[t] = call[t] /\ added'[t] = {[id |-> g[i], book |-> call[t].items[i].book,
                                           qty |-> call[t].items[i].qty,
                                           cost |-> call[t].items[i].cost] : i \in Done(t)'}
    BY <1>7, <1>9, <2>2
  <2>4. Rows(t, g)'
    BY ONLY <1>9, <2>1, <2>3 DEF Rows
  <2>5. QED BY <1>4, <1>5, <1>6, <2>4 DEF Filed
<1>10. QED BY <1>8, <1>9

\* The greatest of some numbers is the one that no other exceeds.
LEMMA MaxIs ==
    ASSUME NEW S, S \subseteq Nat, NEW n \in S, \A i \in S : i <= n
    PROVE  Promise!Max(S) = n
<1>1. \A j \in S : n >= j
  OBVIOUS
<1>2. \A x \in S : (\A j \in S : x >= j) => x = n
  <2> SUFFICES ASSUME NEW x \in S, \A j \in S : x >= j PROVE x = n
    OBVIOUS
  <2>1. x >= n /\ x <= n /\ x \in Nat /\ n \in Nat
    OBVIOUS
  <2>2. QED BY ONLY <2>1
<1>3. QED BY ONLY n \in S, <1>1, <1>2 DEF Promise!Max

\* The stock rows of the other books are left as they are.
LEMMA DrawnElsewhere ==
    ASSUME Shape, NEW t \in Tx, OnTrack(t), HasItem(t), ~Dropped(call[t], This(t)),
           call' = call, at' = [at EXCEPT ![t] = at[t] + 1], stock' = stock,
           NEW b \in Books, b # This(t).book, lock'[b] = lock[b], draft'[b] = draft[b]
    PROVE  IF lock'[b] = t
           THEN /\ DoneOf(t, b)' # {} /\ draft'[b] # NoRow
                /\ call'[t].op = "sale" => stock'[b] # NoRow
                /\ draft'[b] = RowLeft(t, b)'
           ELSE DoneOf(t, b)' = {}
<1>1. DoneOf(t, b)' = DoneOf(t, b)
  BY LineDone
<1>2. Copies(t)' = Copies(t) /\ call'[t] = call[t]
  BY DEF Copies
<1>3. RowLeft(t, b)' = RowLeft(t, b)
  BY <1>1, <1>2 DEF RowLeft
<1>4. IF lock[b] = t
      THEN /\ DoneOf(t, b) # {} /\ draft[b] # NoRow
           /\ call[t].op = "sale" => stock[b] # NoRow
           /\ draft[b] = RowLeft(t, b)
      ELSE DoneOf(t, b) = {}
  BY DEF OnTrack, Drawn, HasItem
<1>5. QED BY <1>1, <1>2, <1>3, <1>4

\* One more line of a book, one more quantity.
LEMMA CopiesNext ==
    ASSUME Shape, NEW t \in Tx, HasItem(t), ~Dropped(call[t], This(t)),
           call' = call, at' = [at EXCEPT ![t] = at[t] + 1],
           NEW b, b = This(t).book
    PROVE  LET before == SumOver(DoneOf(t, b), Copies(t))
           IN  /\ before \in Int
               /\ SumOver(DoneOf(t, b)', Copies(t)') = before + This(t).qty
               /\ DoneOf(t, b)' # {}
               /\ Promise!Max(DoneOf(t, b)') = at[t]
<1> DEFINE n == at[t]
           D == DoneOf(t, b)
<1>1. /\ n \in Nat /\ DoneOf(t, b)' = D \cup {n} /\ n \notin D
      /\ \A i \in D : i \in Nat /\ i < n
  BY LineDone DEF DoneOf
<1>2. Copies(t)' = Copies(t)
  BY DEF Copies
<1>3. IsFiniteSet(D) /\ \A i \in D \cup {n} : Copies(t)[i] \in Int
  BY DoneFinite DEF HasItem, Done, DoneOf
<1>4. Copies(t)[n] = This(t).qty
  BY DEF Copies, This, HasItem
<1>5. SumOver(D, Copies(t)) \in Int
  BY <1>3, SumType
<1>6. SumOver(D \cup {n}, Copies(t)) = SumOver(D, Copies(t)) + Copies(t)[n]
  BY <1>1, <1>3, SumAdd
<1>7. Promise!Max(D \cup {n}) = n
  <2>1. D \cup {n} \subseteq Nat /\ n \in D \cup {n} /\ \A i \in D \cup {n} : i <= n
    BY <1>1
  <2>2. QED BY ONLY <2>1, MaxIs
<1>8. QED BY <1>1, <1>2, <1>4, <1>5, <1>6, <1>7

\* A line received is added to what the batch leaves of its book.
LEMMA DrawnReceive ==
    ASSUME Shape, NEW t \in Tx, OnTrack(t), ReceiveItem(t)
    PROVE  Drawn(t)'
<1> PICK b : b = This(t).book
  OBVIOUS
<1> DEFINE before == SumOver(DoneOf(t, b), Copies(t))
<1>1. /\ HasItem(t) /\ ~Dropped(call[t], This(t)) /\ call' = call /\ stock' = stock
      /\ call[t].op # "sale" /\ at' = [at EXCEPT ![t] = at[t] + 1]
  BY DEF ReceiveItem, db
<1>2. This(t) \in Item /\ b \in Books /\ This(t).qty \in Int /\ This(t).cost \in CostOrNull
  BY ItemFits DEF ReceiveItem, BadInput, Item, Shape, HasItem
<1>3. /\ Free(t, b) /\ lock' = [lock EXCEPT ![b] = t]
      /\ draft' = [draft EXCEPT ![b] = [qty |-> Qty(Version(t, b)) + This(t).qty,
                                        cost |-> This(t).cost]]
  BY DEF ReceiveItem, Upsert, Write
<1>4. /\ before \in Int
      /\ SumOver(DoneOf(t, b)', Copies(t)') = before + This(t).qty
      /\ DoneOf(t, b)' # {}
      /\ Promise!Max(DoneOf(t, b)') = at[t]
  BY <1>1, CopiesNext
<1>5. Qty(Version(t, b)) = Qty(stock[b]) + before /\ Qty(stock[b]) \in Int
  <2>1. stock[b] \in StockRow \cup {NoRow} /\ draft[b] \in StockRow \cup {NoRow}
    BY <1>2 DEF Shape, TypeOK
  <2>2. Qty(stock[b]) \in Int
    BY <2>1 DEF Qty, StockRow
  <2>3. IF lock[b] = t
        THEN draft[b] # NoRow /\ draft[b] = RowLeft(t, b)
        ELSE DoneOf(t, b) = {}
    BY <1>1, <1>2 DEF OnTrack, Drawn, HasItem
  <2>4. CASE lock[b] = t
    <3>1. draft[b].qty = Qty(stock[b]) + before
      BY <1>1, <2>3, <2>4 DEF RowLeft
    <3>2. QED BY <2>2, <2>3, <2>4, <3>1 DEF Version, Qty
  <2>5. CASE lock[b] # t
    <3>1. before = 0
      BY <2>3, <2>5, SumEmpty
    <3>2. QED BY <2>2, <2>5, <3>1 DEF Version
  <2>6. QED BY <2>4, <2>5
<1>6. draft'[b] = [qty |-> Qty(stock[b]) + before + This(t).qty, cost |-> This(t).cost]
  BY <1>2, <1>3, <1>5 DEF Shape, TypeOK
<1>7. draft'[b] # NoRow
  BY <1>2, <1>4, <1>5, <1>6, SentinelAssumption DEF StockRow
<1>8. RowLeft(t, b)' = [qty  |-> Qty(stock[b]) + before + This(t).qty, cost |-> This(t).cost]
  <2>1. RowLeft(t, b)' = [qty  |-> Qty(stock[b]) + SumOver(DoneOf(t, b)', Copies(t)'),
                          cost |-> call[t].items[Promise!Max(DoneOf(t, b)')].cost]
    BY <1>1 DEF RowLeft
  <2>2. QED BY <1>2, <1>4, <1>5, <2>1 DEF This
<1>9. ASSUME NEW a \in Books
      PROVE  IF lock'[a] = t
             THEN /\ DoneOf(t, a)' # {} /\ draft'[a] # NoRow
                  /\ call'[t].op = "sale" => stock'[a] # NoRow
                  /\ draft'[a] = RowLeft(t, a)'
             ELSE DoneOf(t, a)' = {}
  <2>1. CASE a = b
    <3>1. lock'[b] = t /\ call'[t].op # "sale"
      BY <1>1, <1>2, <1>3 DEF Shape, TypeOK
    <3>2. QED BY <1>4, <1>6, <1>7, <1>8, <2>1, <3>1
  <2>2. CASE a # b
    <3>1. lock'[a] = lock[a] /\ draft'[a] = draft[a]
      BY <1>3, <2>2 DEF Shape, TypeOK
    <3>2. QED BY <1>1, <2>2, <3>1, DrawnElsewhere
  <2>3. QED BY <2>1, <2>2
<1>10. QED BY <1>9 DEF Drawn

\* Copies taken twice are taken together.
LEMMA TakeTwice ==
    ASSUME NEW row \in StockRow, NEW x \in Int, NEW y \in Int
    PROVE  [[row EXCEPT !.qty = @ - x] EXCEPT !.qty = @ - y]
             = [row EXCEPT !.qty = @ - (x + y)]
<1>1. row.qty \in Int /\ row.qty - x - y = row.qty - (x + y)
  BY DEF StockRow
<1>2. QED BY <1>1 DEF StockRow

\* A line sold is taken off what the sale leaves of its book.
LEMMA DrawnSell ==
    ASSUME Shape, NEW t \in Tx, OnTrack(t), SellItem(t)
    PROVE  Drawn(t)'
<1> PICK b : b = This(t).book
  OBVIOUS
<1> DEFINE before == SumOver(DoneOf(t, b), Copies(t))
<1>1. /\ HasItem(t) /\ ~Dropped(call[t], This(t)) /\ call' = call /\ stock' = stock
      /\ call[t].op = "sale" /\ at' = [at EXCEPT ![t] = at[t] + 1]
  BY DEF SellItem, db
<1>2. b \in Books /\ This(t).qty \in Int
  BY <1>1, ItemFits DEF Shape
<1>3. /\ Free(t, b) /\ lock' = [lock EXCEPT ![b] = t] /\ Version(t, b) \in StockRow
      /\ draft' = [draft EXCEPT ![b] = [Version(t, b) EXCEPT !.qty = @ - This(t).qty]]
      /\ [Version(t, b) EXCEPT !.qty = @ - This(t).qty] \in StockRow
  BY <1>2, TakeType DEF SellItem, Take, Shape
<1>4. /\ before \in Int
      /\ SumOver(DoneOf(t, b)', Copies(t)') = before + This(t).qty
      /\ DoneOf(t, b)' # {}
  BY <1>1, CopiesNext
<1>5. /\ stock[b] \in StockRow /\ stock[b] # NoRow
      /\ Version(t, b) = [stock[b] EXCEPT !.qty = @ - before]
  <2>1. stock[b] \in StockRow \cup {NoRow}
    BY <1>2 DEF Shape, TypeOK
  <2>2. IF lock[b] = t
        THEN stock[b] # NoRow /\ draft[b] = RowLeft(t, b)
        ELSE DoneOf(t, b) = {}
    BY <1>1, <1>2 DEF OnTrack, Drawn, HasItem
  <2>3. CASE lock[b] = t
    BY <1>1, <2>1, <2>2, <2>3 DEF Version, RowLeft
  <2>4. CASE lock[b] # t
    <3>1. before = 0
      BY <2>2, <2>4, SumEmpty
    <3>2. Version(t, b) = stock[b]
      BY <2>4 DEF Version
    <3>3. QED BY <1>3, <3>1, <3>2, SentinelAssumption DEF StockRow
  <2>5. QED BY <2>3, <2>4
<1>6. draft'[b] = [stock[b] EXCEPT !.qty = @ - (before + This(t).qty)]
  <2>1. draft'[b] = [Version(t, b) EXCEPT !.qty = @ - This(t).qty]
    BY <1>2, <1>3 DEF Shape, TypeOK
  <2>2. /\ stock[b] \in StockRow /\ before \in Int /\ This(t).qty \in Int
        /\ Version(t, b) = [stock[b] EXCEPT !.qty = @ - before]
    BY <1>2, <1>4, <1>5
  <2>3. [[stock[b] EXCEPT !.qty = @ - before] EXCEPT !.qty = @ - This(t).qty]
          = [stock[b] EXCEPT !.qty = @ - (before + This(t).qty)]
    <3>1. PICK row, x, y : row = stock[b] /\ x = before /\ y = This(t).qty
      OBVIOUS
    <3> HIDE DEF before
    <3>2. row \in StockRow /\ x \in Int /\ y \in Int
      BY ONLY <2>2, <3>1
    <3>3. [[row EXCEPT !.qty = @ - x] EXCEPT !.qty = @ - y] = [row EXCEPT !.qty = @ - (x + y)]
      BY ONLY <3>2, TakeTwice
    <3>4. QED BY ONLY <3>1, <3>3
  <2>4. QED BY ONLY <2>1, <2>2, <2>3
<1>7. draft'[b] # NoRow
  BY <1>2, <1>3, SentinelAssumption DEF Shape, TypeOK
<1>8. RowLeft(t, b)' = [stock[b] EXCEPT !.qty = @ - (before + This(t).qty)]
  <2>1. RowLeft(t, b)' = [stock[b] EXCEPT !.qty = @ - SumOver(DoneOf(t, b)', Copies(t)')]
    BY <1>1 DEF RowLeft
  <2>2. QED BY <1>4, <2>1
<1>9. ASSUME NEW a \in Books
      PROVE  IF lock'[a] = t
             THEN /\ DoneOf(t, a)' # {} /\ draft'[a] # NoRow
                  /\ call'[t].op = "sale" => stock'[a] # NoRow
                  /\ draft'[a] = RowLeft(t, a)'
             ELSE DoneOf(t, a)' = {}
  <2>1. CASE a = b
    <3>1. lock'[b] = t /\ stock'[b] # NoRow
      BY <1>1, <1>2, <1>3, <1>5 DEF Shape, TypeOK
    <3>2. QED BY <1>4, <1>6, <1>7, <1>8, <2>1, <3>1
  <2>2. CASE a # b
    <3>1. lock'[a] = lock[a] /\ draft'[a] = draft[a]
      BY <1>3, <2>2 DEF Shape, TypeOK
    <3>2. QED BY <1>1, <2>2, <3>1, DrawnElsewhere
  <2>3. QED BY <2>1, <2>2
<1>10. QED BY <1>9 DEF Drawn

\* A request that has just been made has done nothing, and one whose line was
\* dropped no more than before.
LEMMA TrackBegin ==
    ASSUME Shape, NEW t \in Tx, OnTrack(t), NEW c \in Calls, Begin(t, c)
    PROVE  OnTrack(t)'
<1>1. /\ pc[t] = "idle" /\ at'[t] = 1 /\ call'[t] = c
      /\ added' = added /\ sold' = sold /\ lock' = lock
      /\ pc'[t] = IF Refused(c) THEN "refused" ELSE IF IsBatch(c) THEN "items" ELSE "lock"
  BY DEF Begin, OnTrack, Shape, TypeOK, mine
<1>2. added[t] = {} /\ sold[t] = {} /\ \A b \in Books : lock[b] # t
  BY <1>1 DEF Shape, RowsHeld, Untouched
<1>3. ASSUME IsBatch(c) PROVE Filed(t)' /\ Drawn(t)'
  <2>1. c \in Batch
    BY <1>3, InputAssumption DEF IsBatch, Batch, Edit, Erase
  <2>2. c.items \in Seq(Item)
    BY <2>1 DEF Batch
  <2>3. \A i \in DOMAIN c.items : ~(i < 1)
    BY <2>2
  <2>4. Done(t)' = {}
    BY <1>1, <2>3 DEF Done
  <2>5. \A b : DoneOf(t, b)' = {}
    BY <2>4 DEF DoneOf
  <2>6. Drawn(t)'
    BY <1>1, <1>2, <2>5 DEF Drawn
  <2>7. PICK f : f = [i \in {} |-> 0]
    OBVIOUS
  <2>8. f \in [{} -> Nat]
    BY <2>7
  <2>9. Rows(t, f)'
    BY <1>1, <1>2, <2>4 DEF Rows
  <2>10. Filed(t)'
    BY <2>4, <2>8, <2>9 DEF Filed
  <2>11. QED BY <2>6, <2>10
<1>4. QED BY <1>1, <1>3 DEF OnTrack

\* A dropped line is none of those done.
LEMMA TrackSkip ==
    ASSUME Shape, NEW t \in Tx, OnTrack(t), Skip(t)
    PROVE  OnTrack(t)'
<1>1. /\ pc[t] = "items" /\ pc' = pc /\ call' = call /\ at'[t] = at[t] + 1
      /\ at[t] \in DOMAIN call[t].items /\ Dropped(call[t], call[t].items[at[t]])
      /\ added' = added /\ sold' = sold /\ nextId' = nextId
      /\ lock' = lock /\ draft' = draft /\ stock' = stock
  BY DEF Skip, HasItem, This, Shape, TypeOK, mine, db
<1>2. DOMAIN call[t].items \subseteq Nat /\ at[t] \in Nat
  BY <1>1, BatchCall DEF Shape, Batch, TypeOK
<1>3. Done(t)' = Done(t)
  <2>1. \A i \in DOMAIN call[t].items : i < at[t] + 1 <=> i < at[t] \/ i = at[t]
    BY <1>2
  <2>2. Done(t)' = {i \in DOMAIN call[t].items :
                      i < at[t] + 1 /\ ~Dropped(call[t], call[t].items[i])}
    BY <1>1 DEF Done, Dropped
  <2>3. QED BY <1>1, <2>1, <2>2 DEF Done
<1>4. Copies(t)' = Copies(t) /\ \A b : DoneOf(t, b)' = DoneOf(t, b)
  BY <1>1, <1>3 DEF Copies, DoneOf
<1>5. Filed(t) /\ Drawn(t)
  BY <1>1 DEF OnTrack
<1>6. Filed(t)'
  <2>1. \A f : Rows(t, f) => Rows(t, f)'
    BY <1>1, <1>3 DEF Rows
  <2>2. QED BY <1>1, <1>3, <1>5, <2>1 DEF Filed
<1>7. Drawn(t)'
  <2>1. \A b : RowLeft(t, b)' = RowLeft(t, b)
    BY <1>1, <1>4 DEF RowLeft
  <2>2. QED BY <1>1, <1>4, <1>5, <2>1 DEF Drawn
<1>8. QED BY <1>1, <1>6, <1>7 DEF OnTrack

\* A line received or sold.
LEMMA TrackItem ==
    ASSUME Shape, NEW t \in Tx, OnTrack(t), ReceiveItem(t) \/ SellItem(t)
    PROVE  OnTrack(t)'
<1>1. /\ HasItem(t) /\ pc[t] = "items" /\ pc' = pc /\ call' = call /\ nextId' = nextId + 1
      /\ ~Dropped(call[t], This(t)) /\ at' = [at EXCEPT ![t] = at[t] + 1]
  BY DEF ReceiveItem, SellItem, HasItem
<1>2. Drawn(t)'
  BY DrawnReceive, DrawnSell
<1>3. IF call[t].op = "sale"
      THEN /\ added'[t] = added[t]
           /\ sold'[t] = sold[t] \cup {[id |-> nextId, book |-> This(t).book,
                                        qty |-> This(t).qty]}
      ELSE /\ sold'[t] = sold[t]
           /\ added'[t] = added[t] \cup {[id |-> nextId, book |-> This(t).book,
                                          qty |-> This(t).qty, cost |-> This(t).cost]}
  BY DEF ReceiveItem, SellItem, Shape, TypeOK
<1>4. Filed(t)'
  BY <1>1, <1>3, FiledNext
<1>5. QED BY <1>1, <1>2, <1>4 DEF OnTrack

\* Finding the purchase row, or none.
LEMMA TrackLookup ==
    ASSUME Shape, NEW t \in Tx, OnTrack(t), LockRow(t) \/ NotFound(t)
    PROVE  OnTrack(t)'
<1>1. /\ pc[t] = "lock" /\ call' = call /\ call[t] # NoCall
      /\ call[t].op \in {"update", "delete"}
  BY DEF LockRow, NotFound, Shape, Vetted
<1>2. CASE LockRow(t)
  <2>1. /\ pc'[t] = IF call[t].op = "update" THEN "edit" ELSE "erase"
        /\ old'[t].id = call[t].id
    BY <1>2 DEF LockRow, Shape, TypeOK
  <2>2. QED BY <1>1, <2>1 DEF OnTrack
<1>3. CASE NotFound(t)
  <2>1. pc'[t] \in {"raised", "absent"}
    BY <1>3 DEF NotFound, Shape, TypeOK
  <2>2. QED BY <2>1 DEF OnTrack
<1>4. QED BY <1>2, <1>3

\* What it takes to have replaced a row by another.
LEMMA ReplacedBy ==
    ASSUME NEW t \in Tx, NEW o, NEW e, old'[t] = o, o # NoPurchase,
           call'[t].op = "update", Edited(t)' = e, e \in Purchase,
           removed'[t] = {o}, sold'[t] = {}, added'[t] = {e},
           \A b \in Books :
              LET less == IF b = o.book THEN o.qty ELSE 0
                  more == IF b = e.book THEN e.qty ELSE 0
              IN  IF less = more THEN lock'[b] # t
                  ELSE /\ lock'[b] = t
                       /\ Qty(stock'[b]) - less + more >= 0
                       /\ draft'[b] = [qty  |-> Qty(stock'[b]) - less + more,
                                       cost |-> IF b = e.book THEN e.cost
                                                ELSE stock'[b].cost]
    PROVE  Replaced(t)'
<1>1. \A b : /\ Less(t, b)' = IF b = o.book THEN o.qty ELSE 0
             /\ More(t, b)' = IF b = e.book THEN e.qty ELSE 0
             /\ CostLeft(t, b)' = IF b = e.book THEN e.cost ELSE stock'[b].cost
  BY DEF Less, More, CostLeft
<1>2. ASSUME NEW b \in Books
      PROVE  IF Less(t, b)' = More(t, b)' THEN lock'[b] # t
             ELSE /\ lock'[b] = t
                  /\ call'[t].op = "delete" => stock'[b] # NoRow
                  /\ Qty(stock'[b]) - Less(t, b)' + More(t, b)' >= 0
                  /\ draft'[b] = [qty  |-> Qty(stock'[b]) - Less(t, b)' + More(t, b)',
                                  cost |-> CostLeft(t, b)']
  BY <1>1
<1>3. /\ old'[t] # NoPurchase /\ removed'[t] = {old'[t]} /\ sold'[t] = {}
      /\ added'[t] = IF call'[t].op = "update" THEN {Edited(t)'} ELSE {}
      /\ call'[t].op = "update" => Edited(t)' \in Purchase
  OBVIOUS
<1>4. Replaced(t)' = (/\ old'[t] # NoPurchase
                      /\ removed'[t] = {old'[t]} /\ sold'[t] = {}
                      /\ added'[t] = IF call'[t].op = "update" THEN {Edited(t)'} ELSE {}
                      /\ call'[t].op = "update" => Edited(t)' \in Purchase
                      /\ \A b \in Books :
                            IF Less(t, b)' = More(t, b)' THEN lock'[b] # t
                            ELSE /\ lock'[b] = t
                                 /\ call'[t].op = "delete" => stock'[b] # NoRow
                                 /\ Qty(stock'[b]) - Less(t, b)' + More(t, b)' >= 0
                                 /\ draft'[b] = [qty  |-> Qty(stock'[b]) - Less(t, b)' + More(t, b)',
                                                 cost |-> CostLeft(t, b)'])
  BY DEF Replaced
<1>5. QED BY ONLY <1>2, <1>3, <1>4

\* An edit, a move and a deletion begin on a row that is on file, with nothing done.
LEMMA EditBegins ==
    ASSUME Shape, NEW t \in Tx, pc[t] \in {"edit", "erase"}
    PROVE  /\ old[t] \in Purchase /\ old[t] # NoPurchase /\ old[t] \in purchases
           /\ added[t] = {} /\ sold[t] = {} /\ \A b \in Books : lock[b] # t
           /\ \A b \in Books : Version(t, b) = stock[b]
<1>1. old[t] # NoPurchase /\ old[t] \in purchases /\ Untouched(t)
  BY DEF Shape, RowsHeld
<1>2. QED BY <1>1 DEF Untouched, Version, Shape, TypeOK

\* An edit that moves no copies has left every stock row alone.
LEMMA TrackEditRow ==
    ASSUME Shape, NEW t \in Tx, EditRow(t)
    PROVE  Replaced(t)'
<1> PICK o, e : o = old[t] /\ e = Edited(t)
  OBVIOUS
<1>1. /\ pc[t] = "edit" /\ o \in Purchase /\ o # NoPurchase /\ sold[t] = {}
      /\ \A b \in Books : lock[b] # t
  BY EditBegins DEF EditRow
<1>2. e \in Purchase /\ call[t].op = "update"
  BY <1>1, EditFits DEF EditRow, Shape, Vetted
<1>3. e.book = o.book /\ e.qty = o.qty
  BY <1>1 DEF EditRow, Touches
<1>4. /\ removed'[t] = {o} /\ added'[t] = {e} /\ lock' = lock /\ old'[t] = o
      /\ call' = call /\ sold' = sold /\ old' = old
  BY DEF EditRow, Shape, TypeOK
<1>5. Edited(t)' = e
  BY <1>4 DEF Edited
<1>6. ASSUME NEW b \in Books
      PROVE  LET less == IF b = o.book THEN o.qty ELSE 0
                 more == IF b = e.book THEN e.qty ELSE 0
             IN  IF less = more THEN lock'[b] # t
                 ELSE /\ lock'[b] = t
                      /\ Qty(stock'[b]) - less + more >= 0
                      /\ draft'[b] = [qty  |-> Qty(stock'[b]) - less + more,
                                      cost |-> IF b = e.book THEN e.cost
                                               ELSE stock'[b].cost]
  BY <1>1, <1>3, <1>4
<1>7. QED BY <1>1, <1>2, <1>4, <1>5, <1>6, ReplacedBy

\* An edit of the quantity has changed one stock row by the difference.
LEMMA TrackEditQty ==
    ASSUME Shape, NEW t \in Tx, EditQty(t)
    PROVE  Replaced(t)'
<1> PICK o, e : o = old[t] /\ e = Edited(t)
  OBVIOUS
<1>1. /\ pc[t] = "edit" /\ o \in Purchase /\ o # NoPurchase /\ sold[t] = {}
      /\ \A b \in Books : lock[b] # t /\ Version(t, b) = stock[b]
  BY EditBegins DEF EditQty
<1>2. e \in Purchase /\ call[t].op = "update"
  BY <1>1, EditFits DEF EditQty, Shape, Vetted
<1>3. e.book = o.book /\ e.qty # o.qty /\ o.book \in Books /\ o.qty \in Nat /\ e.qty \in Nat
  BY <1>1, <1>2 DEF EditQty, Touches, HasItem, Purchase
<1>4. Takes(t) = o.qty - e.qty
  BY <1>1, <1>3 DEF Takes
<1>5. /\ Covers(stock[o.book], o.qty - e.qty)
      /\ lock' = [lock EXCEPT ![o.book] = t]
      /\ draft' = [draft EXCEPT ![o.book] =
                     [qty |-> stock[o.book].qty - (o.qty - e.qty), cost |-> e.cost]]
  BY <1>1, <1>3, <1>4 DEF EditQty, Write
<1>6. /\ removed'[t] = {o} /\ added'[t] = {e} /\ old'[t] = o
      /\ call' = call /\ sold' = sold /\ old' = old /\ stock' = stock
  BY DEF EditQty, Shape, TypeOK, db
<1>7. Edited(t)' = e
  BY <1>6 DEF Edited
<1>8. /\ stock[o.book] # NoRow /\ stock[o.book].qty \in Int
      /\ stock[o.book].qty - (o.qty - e.qty) >= 0
  BY <1>3, <1>5 DEF Covers, Shape, TypeOK, StockRow
<1>9. ASSUME NEW b \in Books
      PROVE  LET less == IF b = o.book THEN o.qty ELSE 0
                 more == IF b = e.book THEN e.qty ELSE 0
             IN  IF less = more THEN lock'[b] # t
                 ELSE /\ lock'[b] = t
                      /\ Qty(stock'[b]) - less + more >= 0
                      /\ draft'[b] = [qty  |-> Qty(stock'[b]) - less + more,
                                      cost |-> IF b = e.book THEN e.cost
                                               ELSE stock'[b].cost]
  <2>1. CASE b = o.book
    <3>1. lock'[b] = t
      BY <1>5, <2>1 DEF Shape, TypeOK
    <3>2. draft'[b] = [qty |-> stock[b].qty - (o.qty - e.qty), cost |-> e.cost]
      BY <1>5, <2>1 DEF Shape, TypeOK
    <3>3. Qty(stock'[b]) = stock[b].qty
      BY <1>6, <1>8, <2>1 DEF Qty
    <3>4. stock[b].qty - (o.qty - e.qty) = stock[b].qty - o.qty + e.qty
      BY <1>3, <1>8, <2>1
    <3>5. QED BY <1>3, <1>8, <2>1, <3>1, <3>2, <3>3, <3>4
  <2>2. CASE b # o.book
    <3>1. lock'[b] # t
      BY <1>1, <1>5, <2>2 DEF Shape, TypeOK
    <3>2. QED BY <1>3, <2>2, <3>1
  <2>3. QED BY <2>1, <2>2
<1>10. QED BY <1>1, <1>2, <1>6, <1>7, <1>9, ReplacedBy

\* The first half of a move has taken the copies of the old row.
LEMMA TrackMoveOut ==
    ASSUME Shape, NEW t \in Tx, MoveOut(t)
    PROVE  Halfway(t)'
<1> PICK o : o = old[t]
  OBVIOUS
<1>1. /\ pc[t] = "edit" /\ o \in Purchase /\ sold[t] = {}
      /\ \A b \in Books : lock[b] # t /\ Version(t, b) = stock[b]
  BY EditBegins DEF MoveOut
<1>2. o.book \in Books
  BY <1>1 DEF Purchase
<1>3. /\ Covers(stock[o.book], o.qty)
      /\ lock' = [lock EXCEPT ![o.book] = t]
      /\ draft' = [draft EXCEPT ![o.book] = [stock[o.book] EXCEPT !.qty = @ - o.qty]]
  BY <1>1, <1>2 DEF MoveOut, Take, Write
<1>4. old'[t] = o /\ sold'[t] = {} /\ stock' = stock
  BY <1>1 DEF MoveOut, db
<1>5. \A b \in Books : lock'[b] = t <=> b = o.book
  BY <1>1, <1>2, <1>3 DEF Shape, TypeOK
<1>6. draft'[o.book] = [stock[o.book] EXCEPT !.qty = @ - o.qty]
  BY <1>2, <1>3 DEF Shape, TypeOK
<1>7. QED BY <1>3, <1>4, <1>5, <1>6 DEF Halfway, Covers

\* The second half has added those of the new row to another book.
LEMMA TrackMoveIn ==
    ASSUME Shape, NEW t \in Tx, OnTrack(t), NeverNegative, MoveIn(t)
    PROVE  Replaced(t)'
<1> PICK o, e : o = old[t] /\ e = Edited(t)
  OBVIOUS
<1>1. /\ pc[t] = "apply" /\ o \in Purchase /\ o # NoPurchase /\ removed[t] = {o}
      /\ e \in Purchase /\ e.book # o.book /\ call[t].op = "update" /\ Halfway(t)
  BY DEF MoveIn, Shape, RowsHeld, TypeOK, Vetted, OnTrack
<1>2. /\ o.book \in Books /\ e.book \in Books /\ o.qty \in Nat \ {0} /\ e.qty \in Nat \ {0}
  BY <1>1 DEF Purchase
<1>3. /\ sold[t] = {} /\ \A b \in Books : lock[b] = t <=> b = o.book
      /\ Covers(stock[o.book], o.qty)
      /\ draft[o.book] = [stock[o.book] EXCEPT !.qty = @ - o.qty]
  BY <1>1 DEF Halfway
<1>4. Version(t, e.book) = stock[e.book]
  BY <1>1, <1>2, <1>3 DEF Version
<1>5. /\ lock' = [lock EXCEPT ![e.book] = t]
      /\ draft' = [draft EXCEPT ![e.book] = [qty |-> Qty(stock[e.book]) + e.qty,
                                             cost |-> e.cost]]
  BY <1>4 DEF MoveIn, Upsert, Write
<1>6. /\ removed'[t] = {o} /\ added'[t] = {e} /\ old'[t] = o /\ sold'[t] = {}
      /\ call' = call /\ old' = old /\ stock' = stock
  BY <1>1, <1>3 DEF MoveIn, Shape, TypeOK, db
<1>7. Edited(t)' = e
  BY <1>6 DEF Edited
<1>8. ASSUME NEW b \in Books
      PROVE  LET less == IF b = o.book THEN o.qty ELSE 0
                 more == IF b = e.book THEN e.qty ELSE 0
             IN  IF less = more THEN lock'[b] # t
                 ELSE /\ lock'[b] = t
                      /\ Qty(stock'[b]) - less + more >= 0
                      /\ draft'[b] = [qty  |-> Qty(stock'[b]) - less + more,
                                      cost |-> IF b = e.book THEN e.cost
                                               ELSE stock'[b].cost]
  <2>1. CASE b = o.book
    <3>1. lock'[b] = t /\ draft'[b] = draft[b]
      BY <1>1, <1>3, <1>5, <2>1 DEF Shape, TypeOK
    <3>2. /\ stock[b] # NoRow /\ stock[b] \in StockRow /\ stock[b].qty - o.qty >= 0
          /\ draft[b] = [stock[b] EXCEPT !.qty = @ - o.qty]
      BY <1>3, <2>1 DEF Covers, Shape, TypeOK
    <3>3. draft[b] = [qty |-> stock[b].qty - o.qty, cost |-> stock[b].cost]
      BY <3>2 DEF StockRow
    <3>4. Qty(stock'[b]) = stock[b].qty /\ stock[b].qty \in Int /\ stock'[b] = stock[b]
      BY <1>6, <3>2 DEF Qty, StockRow
    <3>5. stock[b].qty - o.qty + 0 = stock[b].qty - o.qty
      BY <1>2, <3>4
    <3>6. b # e.book
      BY <1>1, <2>1
    <3>7. QED BY <1>2, <2>1, <3>1, <3>2, <3>3, <3>4, <3>5, <3>6
  <2>2. CASE b = e.book
    <3>1. /\ lock'[b] = t
          /\ draft'[b] = [qty |-> Qty(stock[b]) + e.qty, cost |-> e.cost]
      BY <1>5, <2>2 DEF Shape, TypeOK
    <3>2. Qty(stock[b]) \in Int /\ Qty(stock[b]) >= 0 /\ stock'[b] = stock[b]
      BY <1>6 DEF NeverNegative, Qty, Shape, TypeOK, StockRow
    <3>3. Qty(stock[b]) - 0 + e.qty = Qty(stock[b]) + e.qty
      BY <1>2, <3>2
    <3>4. QED BY <1>1, <1>2, <2>2, <3>1, <3>2, <3>3
  <2>3. CASE b # o.book /\ b # e.book
    <3>1. lock'[b] # t
      BY <1>3, <1>5, <2>3 DEF Shape, TypeOK
    <3>2. QED BY <2>3, <3>1
  <2>4. QED BY <2>1, <2>2, <2>3
<1>9. QED BY <1>1, <1>6, <1>7, <1>8, ReplacedBy

\* A deletion has taken the copies of its row.
LEMMA TrackErase ==
    ASSUME Shape, NEW t \in Tx, OnTrack(t), EraseRow(t)
    PROVE  Replaced(t)'
<1> PICK o : o = old[t]
  OBVIOUS
<1>1. /\ pc[t] = "erase" /\ o \in Purchase /\ o # NoPurchase /\ sold[t] = {} /\ added[t] = {}
      /\ \A b \in Books : lock[b] # t /\ Version(t, b) = stock[b]
  BY EditBegins DEF EraseRow
<1>2. o.book \in Books /\ o.qty \in Nat \ {0} /\ call[t].op = "delete"
  BY <1>1 DEF Purchase, OnTrack
<1>3. /\ Covers(stock[o.book], o.qty)
      /\ lock' = [lock EXCEPT ![o.book] = t]
      /\ draft' = [draft EXCEPT ![o.book] = [stock[o.book] EXCEPT !.qty = @ - o.qty]]
  BY <1>1, <1>2 DEF EraseRow, Take, Write
<1>4. /\ old'[t] = o /\ sold'[t] = {} /\ added'[t] = {} /\ removed'[t] = {o}
      /\ stock' = stock /\ call' = call
  BY <1>1 DEF EraseRow, db, Shape, TypeOK
<1>5. \A b : /\ Less(t, b)' = IF b = o.book THEN o.qty ELSE 0
             /\ More(t, b)' = 0 /\ CostLeft(t, b)' = stock[b].cost
  BY <1>2, <1>4 DEF Less, More, CostLeft
<1>6. ASSUME NEW b \in Books
      PROVE  IF Less(t, b)' = More(t, b)' THEN lock'[b] # t
             ELSE /\ lock'[b] = t
                  /\ call'[t].op = "delete" => stock'[b] # NoRow
                  /\ Qty(stock'[b]) - Less(t, b)' + More(t, b)' >= 0
                  /\ draft'[b] = [qty  |-> Qty(stock'[b]) - Less(t, b)' + More(t, b)',
                                  cost |-> CostLeft(t, b)']
  <2>1. CASE b = o.book
    <3>1. /\ lock'[b] = t
          /\ draft'[b] = [stock[b] EXCEPT !.qty = @ - o.qty]
      BY <1>3, <2>1 DEF Shape, TypeOK
    <3>2. stock[b] # NoRow /\ stock[b] \in StockRow /\ stock[b].qty - o.qty >= 0
      BY <1>3, <2>1 DEF Covers, Shape, TypeOK
    <3>3. draft'[b] = [qty |-> stock[b].qty - o.qty, cost |-> stock[b].cost]
      BY <3>1, <3>2 DEF StockRow
    <3>4. Qty(stock'[b]) = stock[b].qty /\ stock[b].qty \in Int /\ stock'[b] = stock[b]
      BY <1>4, <3>2 DEF Qty, StockRow
    <3>5. stock[b].qty - o.qty + 0 = stock[b].qty - o.qty
      BY <1>2, <3>4
    <3>6. QED BY <1>2, <1>5, <2>1, <3>1, <3>2, <3>3, <3>4, <3>5
  <2>2. CASE b # o.book
    <3>1. lock'[b] # t
      BY <1>1, <1>3, <2>2 DEF Shape, TypeOK
    <3>2. QED BY <1>5, <2>2, <3>1
  <2>3. QED BY <2>1, <2>2
<1>7. /\ old'[t] # NoPurchase /\ removed'[t] = {old'[t]} /\ sold'[t] = {}
      /\ call'[t].op = "delete" /\ added'[t] = {}
  BY <1>1, <1>2, <1>4
<1>8. QED BY <1>6, <1>7 DEF Replaced

\* The statements of an edit and of a deletion.
LEMMA TrackEdit ==
    ASSUME Shape, NeverNegative, NEW t \in Tx, OnTrack(t),
           EditRow(t) \/ EditQty(t) \/ MoveOut(t) \/ MoveIn(t) \/ EraseRow(t)
    PROVE  OnTrack(t)'
<1>1. /\ pc[t] \in {"edit", "apply", "erase"} /\ call' = call /\ old' = old
  BY DEF EditRow, EditQty, MoveOut, MoveIn, EraseRow
<1>2. call[t] # NoCall /\ call[t].op \in {"update", "delete"} /\ old[t].id = call[t].id
  BY <1>1 DEF OnTrack
<1>3. CASE MoveOut(t)
  <2>1. pc'[t] = "apply"
    BY <1>3 DEF MoveOut, Shape, TypeOK
  <2>2. QED BY <1>1, <1>2, <1>3, <2>1, TrackMoveOut DEF OnTrack
<1>4. CASE EditRow(t) \/ EditQty(t) \/ MoveIn(t) \/ EraseRow(t)
  <2>1. pc'[t] = "commit"
    BY <1>4 DEF EditRow, EditQty, MoveIn, EraseRow, Shape, TypeOK
  <2>2. Replaced(t)'
    BY <1>4, TrackEditRow, TrackEditQty, TrackMoveIn, TrackErase
  <2>3. QED BY <1>1, <1>2, <2>1, <2>2 DEF OnTrack
<1>5. QED BY <1>3, <1>4

\* What a step of t leaves to the others.
Aside(t) ==
    /\ nextId' \in Nat /\ nextId <= nextId'
    /\ \A u \in Tx \ {t} :
          /\ pc'[u] = pc[u] /\ call'[u] = call[u] /\ at'[u] = at[u] /\ old'[u] = old[u]
          /\ added'[u] = added[u] /\ removed'[u] = removed[u] /\ sold'[u] = sold[u]
          /\ \A b \in Books :
                /\ lock'[b] = u <=> lock[b] = u
                /\ lock[b] = u => draft'[b] = draft[b] /\ stock'[b] = stock[b]

\* Whoever writes a stock row takes it from nobody.
LEMMA WriteAside ==
    ASSUME Shape, NEW t \in Tx, NEW b, Free(t, b), NEW row, Write(t, b, row), NEW u \in Tx \ {t}
    PROVE  \A a \in Books : /\ lock'[a] = u <=> lock[a] = u
                            /\ lock[a] = u => draft'[a] = draft[a]
  BY SentinelAssumption DEF Free, Write, Shape, TypeOK

\* The statements that write a stock row.
LEMMA StatementAside ==
    ASSUME Shape, NEW t \in Tx,
           ReceiveItem(t) \/ SellItem(t) \/ EditQty(t) \/ MoveOut(t) \/ MoveIn(t) \/ EraseRow(t)
    PROVE  Aside(t)
<1>1. \E b, row : Free(t, b) /\ Write(t, b, row)
  BY DEF ReceiveItem, SellItem, EditQty, MoveOut, MoveIn, EraseRow, Upsert, Take
<1>2. \A u \in Tx \ {t} : \A a \in Books : /\ lock'[a] = u <=> lock[a] = u
                                           /\ lock[a] = u => draft'[a] = draft[a]
  BY <1>1, WriteAside
<1>3. nextId' \in Nat /\ nextId <= nextId' /\ stock' = stock /\ call' = call
  BY DEF ReceiveItem, SellItem, EditQty, MoveOut, MoveIn, EraseRow, db, Shape, TypeOK
<1>4. ASSUME NEW u \in Tx \ {t}
      PROVE  /\ pc'[u] = pc[u] /\ at'[u] = at[u] /\ old'[u] = old[u]
             /\ added'[u] = added[u] /\ removed'[u] = removed[u] /\ sold'[u] = sold[u]
  <2>1. CASE ReceiveItem(t) \/ SellItem(t)
    BY <2>1 DEF ReceiveItem, SellItem, Shape, TypeOK
  <2>2. CASE EditQty(t) \/ MoveOut(t) \/ MoveIn(t) \/ EraseRow(t)
    BY <2>2 DEF EditQty, MoveOut, MoveIn, EraseRow, Shape, TypeOK
  <2>3. QED BY <2>1, <2>2
<1>5. QED BY <1>2, <1>3, <1>4 DEF Aside

\* Those that write none.
LEMMA QuietAside ==
    ASSUME Shape, NEW t \in Tx,
           \/ Skip(t) \/ LockRow(t) \/ NotFound(t) \/ EditRow(t) \/ Block(t)
           \/ \E c \in Calls : Begin(t, c)
    PROVE  Aside(t)
<1>1. nextId' = nextId /\ nextId \in Nat /\ lock' = lock /\ draft' = draft /\ stock' = stock
  BY DEF Skip, LockRow, NotFound, EditRow, Block, Begin, db, Shape, TypeOK
<1>2. \A u \in Tx \ {t} :
         /\ pc'[u] = pc[u] /\ call'[u] = call[u] /\ at'[u] = at[u] /\ old'[u] = old[u]
         /\ added'[u] = added[u] /\ removed'[u] = removed[u] /\ sold'[u] = sold[u]
  BY DEF Skip, LockRow, NotFound, EditRow, Block, Begin, mine, Shape, TypeOK
<1>3. QED BY <1>1, <1>2 DEF Aside

\* The end of a transaction releases its own locks only.
LEMMA EndAside ==
    ASSUME Shape, NEW t \in Tx, Commit(t) \/ Rollback(t)
    PROVE  Aside(t)
<1>1. Release(t) /\ \A u \in Tx \ {t} : pc'[u] = pc[u]
  BY DEF Commit, Rollback, Shape, TypeOK
<1>2. \A b \in Books : lock[b] # t => stock'[b] = stock[b]
  BY DEF Commit, Rollback, db
<1>3. nextId' = nextId /\ nextId \in Nat /\ draft' = draft /\ call' = call /\ at' = at
  BY <1>1 DEF Release, Shape, TypeOK
<1>4. \A b \in Books : lock'[b] = IF lock[b] = t THEN NoTx ELSE lock[b]
  BY <1>1 DEF Release
<1>5. \A u \in Tx \ {t} : /\ old'[u] = old[u] /\ added'[u] = added[u]
                          /\ removed'[u] = removed[u] /\ sold'[u] = sold[u]
  BY <1>1 DEF Release, Shape, TypeOK
<1>6. \A u \in Tx \ {t} : \A b \in Books :
         /\ lock'[b] = u <=> lock[b] = u
         /\ lock[b] = u => draft'[b] = draft[b] /\ stock'[b] = stock[b]
  BY <1>2, <1>3, <1>4, SentinelAssumption
<1>7. QED BY <1>1, <1>3, <1>5, <1>6 DEF Aside

\* When a step of t keeps t on track, everybody is.
LEMMA AllKept ==
    ASSUME Shape, AllOnTrack, NEW t \in Tx, Aside(t), OnTrack(t)'
    PROVE  AllOnTrack'
<1>1. ASSUME NEW u \in Tx \ {t} PROVE OnTrack(u)'
  <2>1. OnTrack(u)
    BY DEF AllOnTrack
  <2>2. /\ nextId' \in Nat /\ nextId <= nextId'
        /\ pc'[u] = pc[u] /\ call'[u] = call[u] /\ at'[u] = at[u] /\ old'[u] = old[u]
        /\ added'[u] = added[u] /\ removed'[u] = removed[u] /\ sold'[u] = sold[u]
        /\ \A b \in Books :
              /\ lock'[b] = u <=> lock[b] = u
              /\ lock[b] = u => draft'[b] = draft[b] /\ stock'[b] = stock[b]
    BY DEF Aside
  <2>3. QED BY <2>1, <2>2, TrackKept
<1>2. QED BY <1>1 DEF AllOnTrack

\* Nobody has begun.
LEMMA TrackInit == Init => AllOnTrack
<1> SUFFICES ASSUME Init, NEW t \in Tx PROVE OnTrack(t)
  BY DEF AllOnTrack
<1>1. pc[t] = "idle" /\ at[t] = 1
  BY DEF Init
<1>2. QED BY <1>1 DEF OnTrack

\* Every step keeps every transaction on track.
LEMMA TrackNext == IInv /\ AllOnTrack /\ [Next]_vars => AllOnTrack'
<1> SUFFICES ASSUME IInv, AllOnTrack, [Next]_vars PROVE AllOnTrack'
  OBVIOUS
<1>1. Shape /\ NeverNegative /\ \A t \in Tx : OnTrack(t)
  BY DEF IInv, AllOnTrack
<1>2. CASE UNCHANGED vars
  <2> SUFFICES ASSUME NEW t \in Tx PROVE OnTrack(t)'
    BY DEF AllOnTrack
  <2>1. /\ nextId' \in Nat /\ nextId <= nextId'
        /\ pc' = pc /\ call' = call /\ at' = at /\ old' = old /\ added' = added
        /\ removed' = removed /\ sold' = sold /\ lock' = lock /\ draft' = draft /\ stock' = stock
    BY <1>1, <1>2 DEF vars, Shape, TypeOK
  <2>2. QED BY <1>1, <2>1, TrackKept
<1>3. ASSUME NEW t \in Tx, Step(t) PROVE AllOnTrack'
  <2>1. CASE Skip(t)
    BY <1>1, <2>1, TrackSkip, QuietAside, AllKept
  <2>2. CASE ReceiveItem(t) \/ SellItem(t)
    BY <1>1, <2>2, TrackItem, StatementAside, AllKept
  <2>3. CASE LockRow(t) \/ NotFound(t)
    BY <1>1, <2>3, TrackLookup, QuietAside, AllKept
  <2>4. CASE EditRow(t)
    BY <1>1, <2>4, TrackEdit, QuietAside, AllKept
  <2>5. CASE EditQty(t) \/ MoveOut(t) \/ MoveIn(t) \/ EraseRow(t)
    BY <1>1, <2>5, TrackEdit, StatementAside, AllKept
  <2>6. CASE Block(t)
    <3>1. /\ nextId' \in Nat /\ nextId <= nextId'
          /\ pc' = pc /\ call' = call /\ at' = at /\ old' = old /\ added' = added
          /\ removed' = removed /\ sold' = sold /\ lock' = lock /\ draft' = draft
          /\ stock' = stock
      BY <1>1, <2>6 DEF Block, db, mine, Shape, TypeOK
    <3>2. OnTrack(t)'
      BY <1>1, <3>1, TrackKept
    <3>3. QED BY <1>1, <2>6, <3>2, QuietAside, AllKept
  <2>7. CASE Commit(t) \/ Rollback(t)
    <3>1. pc'[t] \in {"ok", "raised"}
      BY <1>1, <2>7 DEF Commit, Told, Rollback, Shape, TypeOK
    <3>2. OnTrack(t)'
      BY <3>1 DEF OnTrack
    <3>3. QED BY <1>1, <2>7, <3>2, EndAside, AllKept
  <2>8. QED BY <1>3, <2>1, <2>2, <2>3, <2>4, <2>5, <2>6, <2>7 DEF Step, Raise, Victim
<1>4. ASSUME NEW t \in Tx, Cancel(t) PROVE AllOnTrack'
  <2>1. Rollback(t)
    BY <1>4 DEF Cancel
  <2>2. pc'[t] = "raised"
    BY <1>1, <2>1 DEF Rollback, Shape, TypeOK
  <2>3. OnTrack(t)'
    BY <2>2 DEF OnTrack
  <2>4. QED BY <1>1, <2>1, <2>3, EndAside, AllKept
<1>5. ASSUME NEW t \in Tx, NEW c \in Calls, Begin(t, c) PROVE AllOnTrack'
  BY <1>1, <1>5, TrackBegin, QuietAside, AllKept
<1>6. QED BY <1>2, <1>3, <1>4, <1>5 DEF Next, Rest

-----------------------------------------------------------------------------
(* Purchases and sales are numbered from one sequence. *)

\* A row with the next number is apart from all others, and taking rows away or
\* writing one under the id of a purchase on file changes nothing.
LEMMA ApartKept ==
    ASSUME Shape, Shape', Apart, NEW t \in Tx,
           sales' = sales, purchases' = purchases,
           \A u \in Tx \ {t} : added'[u] = added[u] /\ sold'[u] = sold[u],
           \A s \in sold'[t] \ sold[t] : s.id = nextId /\ added'[t] = added[t],
           \A p \in added'[t] \ added[t] :
              \/ p.id = nextId /\ sold'[t] = sold[t]
              \/ \E q \in purchases : p.id = q.id
    PROVE  Apart'
<1>1. /\ \A r \in sales \cup purchases : r.id < nextId /\ r.id # nextId
      /\ \A u \in Tx : \A r \in added[u] \cup sold[u] : r.id < nextId /\ r.id # nextId
  <2>1. /\ \A r \in sales \cup purchases : r.id < nextId /\ r.id \in Nat
        /\ \A u \in Tx : \A r \in added[u] \cup sold[u] : r.id < nextId /\ r.id \in Nat
    BY DEF Shape, IdsUnique, TypeOK, Sale, Purchase
  <2>2. nextId \in Nat
    BY DEF Shape, TypeOK
  <2>3. QED BY <2>1, <2>2
<1>2. \A s \in sales, p \in purchases : s.id # p.id
  BY DEF Apart
<1>3. ASSUME NEW u \in Tx, NEW s \in sold'[u]
      PROVE  /\ \A r \in sales \cup purchases : s.id # r.id
             /\ \A v \in Tx : \A r \in added'[v] : s.id # r.id
             /\ \A v \in Tx \ {u} : \A r \in sold'[v] : s.id # r.id
  <2>1. CASE s \in sold[u]
    <3>1. /\ \A r \in sales \cup purchases : s.id # r.id
          /\ \A v \in Tx : \A r \in added[v] : s.id # r.id
          /\ \A v \in Tx \ {u} : \A r \in sold[v] : s.id # r.id
          /\ s.id # nextId
      BY <1>1, <2>1 DEF Apart
    <3>2. QED BY <3>1
  <2>2. CASE s \notin sold[u]
    <3>1. u = t /\ s.id = nextId /\ added'[t] = added[t]
      BY <2>2
    <3>2. QED BY <1>1, <3>1
  <2>3. QED BY <2>1, <2>2
<1>4. ASSUME NEW u \in Tx, NEW p \in added'[u], NEW s \in sales PROVE p.id # s.id
  BY <1>1, <1>2 DEF Apart
<1>5. QED BY <1>2, <1>3, <1>4 DEF Apart

\* Numbers given to rows that are now on file stay apart.
LEMMA ApartCommit ==
    ASSUME Shape, Apart, NEW t \in Tx, Commit(t)
    PROVE  Apart'
<1>1. /\ purchases' = (purchases \ removed[t]) \cup added[t] /\ sales' = sales \cup sold[t]
      /\ added'[t] = {} /\ sold'[t] = {}
      /\ \A u \in Tx \ {t} : added'[u] = added[u] /\ sold'[u] = sold[u]
  BY DEF Commit, Release, Shape, TypeOK
<1>2. \A s \in sales', p \in purchases' : s.id # p.id
  BY <1>1 DEF Apart
<1>3. ASSUME NEW u \in Tx, NEW s \in sold'[u]
      PROVE  /\ \A r \in sales' \cup purchases' : s.id # r.id
             /\ \A v \in Tx : \A r \in added'[v] : s.id # r.id
             /\ \A v \in Tx \ {u} : \A r \in sold'[v] : s.id # r.id
  <2>1. u # t /\ s \in sold[u]
    BY <1>1
  <2>2. /\ \A r \in sales \cup purchases : s.id # r.id
        /\ \A v \in Tx : \A r \in added[v] : s.id # r.id
        /\ \A v \in Tx \ {u} : \A r \in sold[v] : s.id # r.id
    BY <2>1 DEF Apart
  <2>3. QED BY <1>1, <2>1, <2>2
<1>4. ASSUME NEW u \in Tx, NEW p \in added'[u], NEW s \in sales' PROVE p.id # s.id
  BY <1>1 DEF Apart
<1>5. QED BY <1>2, <1>3, <1>4 DEF Apart

\* Every step keeps the numbers apart.
LEMMA ApartNext == Shape /\ Apart /\ [Next]_vars => Apart'
<1> SUFFICES ASSUME Shape, Apart, [Next]_vars PROVE Apart'
  OBVIOUS
<1>1. Shape'
  BY ShapeNext
<1>2. CASE UNCHANGED vars
  BY <1>2 DEF vars, Apart
<1>3. ASSUME NEW t \in Tx,
             Skip(t) \/ LockRow(t) \/ NotFound(t) \/ Block(t) \/ \E c \in Calls : Begin(t, c)
      PROVE  Apart'
  BY <1>3 DEF Skip, LockRow, NotFound, Block, Begin, db, mine, Apart
<1>4. ASSUME NEW t \in Tx, ReceiveItem(t) \/ SellItem(t) PROVE Apart'
  <2>1. /\ sales' = sales /\ purchases' = purchases
        /\ \A u \in Tx \ {t} : added'[u] = added[u] /\ sold'[u] = sold[u]
    BY <1>4 DEF ReceiveItem, SellItem, db, Shape, TypeOK
  <2>2. CASE ReceiveItem(t)
    <3>1. sold'[t] = sold[t] /\ \A p \in added'[t] \ added[t] : p.id = nextId
      BY <2>2 DEF ReceiveItem, Shape, TypeOK
    <3>2. QED BY <1>1, <2>1, <3>1, ApartKept
  <2>3. CASE SellItem(t)
    <3>1. added'[t] = added[t] /\ \A s \in sold'[t] \ sold[t] : s.id = nextId
      BY <2>3 DEF SellItem, Shape, TypeOK
    <3>2. QED BY <1>1, <2>1, <3>1, ApartKept
  <2>4. QED BY <1>4, <2>2, <2>3
<1>5. ASSUME NEW t \in Tx,
             EditRow(t) \/ EditQty(t) \/ MoveOut(t) \/ MoveIn(t) \/ EraseRow(t)
      PROVE  Apart'
  <2>1. /\ sales' = sales /\ purchases' = purchases /\ sold' = sold
        /\ \A u \in Tx \ {t} : added'[u] = added[u]
        /\ added'[t] \subseteq added[t] \cup {Edited(t)}
        /\ old[t] \in purchases
    BY <1>5 DEF EditRow, EditQty, MoveOut, MoveIn, EraseRow, db, Shape, TypeOK, RowsHeld
  <2>2. \A p \in added'[t] \ added[t] : \E q \in purchases : p.id = q.id
    BY <2>1 DEF Edited
  <2>3. QED BY <1>1, <2>1, <2>2, ApartKept
<1>6. ASSUME NEW t \in Tx, Commit(t) PROVE Apart'
  BY <1>6, ApartCommit
<1>7. ASSUME NEW t \in Tx, Rollback(t) PROVE Apart'
  <2>1. /\ sales' = sales /\ purchases' = purchases /\ added'[t] = {} /\ sold'[t] = {}
        /\ \A u \in Tx \ {t} : added'[u] = added[u] /\ sold'[u] = sold[u]
    BY <1>7 DEF Rollback, Release, db, Shape, TypeOK
  <2>2. QED BY <1>1, <2>1, ApartKept
<1>8. ASSUME NEW t \in Tx, Step(t) PROVE Apart'
  BY <1>3, <1>4, <1>5, <1>6, <1>7, <1>8 DEF Step, Raise, Victim
<1>9. QED BY <1>2, <1>3, <1>7, <1>8 DEF Next, Cancel, Rest

-----------------------------------------------------------------------------
(* Inventory implements StockLedger: a request takes effect at its commit. *)

\* The ledger adds up as the transactions do.
LEMMA LedgerSum == ASSUME NEW S, NEW f PROVE Promise!SumOver(S, f) = SumOver(S, f)
<1>1. \A T : Promise!Cardinality(T) = Cardinality(T)
  BY DEF Promise!Cardinality, Cardinality
<1>2. QED BY <1>1 DEF Promise!SumOver, Promise!Above, Promise!Below, SumOver, Above, Below

\* The lines a batch has been through when it is done are those it sent.
LEMMA SentIsDone ==
    ASSUME Shape, NEW t \in Tx, pc[t] = "items", at[t] > Len(call[t].items)
    PROVE  /\ DOMAIN Sent(call[t]) = Done(t)
           /\ \A i \in Done(t) : Sent(call[t])[i] = call[t].items[i]
           /\ \A b : Promise!LinesOf(Sent(call[t]), b) = DoneOf(t, b)
           /\ \A b : Promise!Total(Sent(call[t]), b) = SumOver(DoneOf(t, b), Copies(t))
<1>1. call[t].items \in Seq(Item) /\ at[t] \in Nat
  BY BatchCall DEF Shape, Batch, TypeOK
<1>2. \A i \in DOMAIN call[t].items : i < at[t]
  BY <1>1
<1>3. Done(t) = {i \in DOMAIN call[t].items : ~Dropped(call[t], call[t].items[i])}
  BY <1>2 DEF Done
<1>4. /\ DOMAIN Sent(call[t]) = Done(t)
      /\ \A i \in Done(t) : Sent(call[t])[i] = call[t].items[i]
  BY <1>3 DEF Sent
<1>5. \A b : Promise!LinesOf(Sent(call[t]), b) = DoneOf(t, b)
  BY <1>4 DEF Promise!LinesOf, DoneOf
<1>6. ASSUME NEW b
      PROVE  Promise!Total(Sent(call[t]), b) = SumOver(DoneOf(t, b), Copies(t))
  <2> DEFINE f == [i \in DOMAIN Sent(call[t]) |-> Sent(call[t])[i].qty]
  <2>1. Promise!Total(Sent(call[t]), b) = SumOver(DoneOf(t, b), f)
    BY <1>5, LedgerSum DEF Promise!Total
  <2>2. \A i \in DoneOf(t, b) : f[i] = Copies(t)[i]
    BY <1>4 DEF DoneOf, Done, Copies
  <2>3. SumOver(DoneOf(t, b), f) = SumOver(DoneOf(t, b), Copies(t))
    <3> HIDE DEF f
    <3>1. QED BY <2>2, SumSame
  <2>4. QED BY <2>1, <2>3
<1>7. QED BY <1>4, <1>5, <1>6

\* The rows of a batch have numbers that nobody on file has.
LEMMA FreshNumbers ==
    ASSUME Shape, Apart, NEW t \in Tx, pc[t] = "items", Nat \subseteq Ids,
           at[t] > Len(call[t].items),
           NEW f \in [Done(t) -> Nat], \A i, j \in Done(t) : i < j => f[i] < f[j],
           Rows(t, f)
    PROVE  f \in Promise!Numberings(Sent(call[t]))
<1>1. DOMAIN Sent(call[t]) = Done(t)
  BY SentIsDone
<1>2. removed[t] = {}
  BY SentinelAssumption DEF Shape, RowsHeld, TypeOK
<1>3. ASSUME NEW i \in Done(t) PROVE f[i] \notin {r.id : r \in purchases \cup sales}
  <2>1. CASE call[t].op = "sale"
    <3>1. [id |-> f[i], book |-> call[t].items[i].book,
           qty |-> call[t].items[i].qty] \in sold[t]
      BY <2>1 DEF Rows
    <3>2. PICK s \in sold[t] : s.id = f[i]
      BY <3>1
    <3>3. QED BY <3>2 DEF Apart
  <2>2. CASE call[t].op # "sale"
    <3>1. [id |-> f[i], book |-> call[t].items[i].book, qty |-> call[t].items[i].qty,
           cost |-> call[t].items[i].cost] \in added[t]
      BY <2>2 DEF Rows
    <3>2. PICK p \in added[t] : p.id = f[i]
      BY <3>1
    <3>3. \A q \in purchases : p.id # q.id
      BY <1>2 DEF Shape, IdsUnique
    <3>4. \A s \in sales : p.id # s.id
      BY DEF Apart
    <3>5. QED BY <3>2, <3>3, <3>4
  <2>3. QED BY <2>1, <2>2
<1>4. f \in [Done(t) -> Ids \ {r.id : r \in purchases \cup sales}]
  BY <1>3
<1>5. QED BY <1>1, <1>4 DEF Promise!Numberings, Promise!Used

\* What a batch commits, and what the ledger makes of it.
LEMMA BatchCommits ==
    ASSUME Shape, AllOnTrack, Apart, NEW t \in Tx, Commit(t), pc[t] = "items",
           Nat \subseteq Ids
    PROVE  /\ at[t] > Len(call[t].items) /\ removed[t] = {} /\ Drawn(t)
           /\ \E f \in Promise!Numberings(Sent(call[t])) : Rows(t, f)
           /\ call[t] \in Calls
<1>1. at[t] > Len(call[t].items)
  BY DEF Commit, Finished
<1>2. removed[t] = {}
  BY SentinelAssumption DEF Shape, RowsHeld, TypeOK
<1>3. Drawn(t) /\ Filed(t)
  BY DEF AllOnTrack, OnTrack
<1>4. PICK f \in [Done(t) -> Nat] :
         /\ \A i \in Done(t) : f[i] < nextId
         /\ \A i, j \in Done(t) : i < j => f[i] < f[j]
         /\ Rows(t, f)
  BY <1>3 DEF Filed
<1>5. f \in Promise!Numberings(Sent(call[t]))
  BY <1>1, <1>4, FreshNumbers
<1>6. call[t] \in Calls
  BY DEF Shape, Vetted, TypeOK
<1>7. QED BY <1>1, <1>2, <1>3, <1>4, <1>5, <1>6

\* Among some lines of a batch there is a last one.
LEMMA LastLine ==
    ASSUME Shape, NEW t \in Tx, pc[t] = "items", NEW b, DoneOf(t, b) # {}
    PROVE  Promise!Max(DoneOf(t, b)) \in DoneOf(t, b)
<1>1. call[t].items \in Seq(Item)
  BY BatchCall DEF Shape, Batch
<1>2. PICK n \in Nat : DOMAIN call[t].items = 1 .. n
  BY <1>1
<1> DEFINE D == DoneOf(t, b)
           Left == {n - i : i \in D}
<1>3. D \subseteq 1 .. n
  BY <1>2 DEF DoneOf, Done
<1> HIDE DEF D
<1>4. Left \subseteq Nat /\ Left # {}
  BY <1>3 DEF D
<1>5. PICK m \in Left : \A k \in Left : ~(<<k, m>> \in OpToRel(<, Nat))
  <2> HIDE DEF Left
  <2>1. QED BY <1>4, NatLessThanWellFounded, WFMin
<1>6. PICK i \in D : m = n - i
  OBVIOUS
<1>7. ASSUME NEW j \in D PROVE i >= j
  <2>1. n - j \in Left
    OBVIOUS
  <2> HIDE DEF Left
  <2>2. m \in Nat
    BY <1>4, <1>5
  <2>3. i \in Nat /\ j \in Nat /\ n \in Nat
    BY <1>2, <1>3, <1>6
  <2>4. ~(n - j < m)
    BY <1>4, <1>5, <2>1, <2>2 DEF OpToRel
  <2>5. QED BY <1>6, <2>2, <2>3, <2>4
<1>8. \E x \in D : \A j \in D : x >= j
  BY <1>7
<1>9. QED BY <1>8 DEF Promise!Max, D

\* A purchase batch that commits is received by the ledger.
LEMMA ReceiveStep ==
    ASSUME Shape, AllOnTrack, Apart, NEW t \in Tx, Commit(t), pc[t] = "items",
           call[t].op # "sale", Nat \subseteq Ids
    PROVE  Promise!Move
<1> DEFINE lines == Sent(call[t])
<1>1. /\ at[t] > Len(call[t].items) /\ removed[t] = {} /\ Drawn(t) /\ call[t] \in Calls
  BY BatchCommits
<1>2. PICK f \in Promise!Numberings(lines) : Rows(t, f)
  BY BatchCommits
<1>3. /\ DOMAIN lines = Done(t)
      /\ \A i \in Done(t) : lines[i] = call[t].items[i]
      /\ \A b : Promise!LinesOf(lines, b) = DoneOf(t, b)
      /\ \A b : Promise!Total(lines, b) = SumOver(DoneOf(t, b), Copies(t))
  BY <1>1, SentIsDone
<1>4. lines \in {Sent(c) : c \in Of({"purchase", "batch", "inward"})}
  <2>1. call[t].op \in {"purchase", "batch", "inward"}
    BY BatchCall DEF Shape, Batch
  <2>2. QED BY <1>1, <2>1 DEF Of
<1>5. /\ sold[t] = {}
      /\ added[t] = {[id |-> f[i], book |-> call[t].items[i].book,
                      qty |-> call[t].items[i].qty,
                      cost |-> call[t].items[i].cost] : i \in Done(t)}
  BY <1>2 DEF Rows
<1> HIDE DEF lines
<1>6. {[id |-> f[i], book |-> lines[i].book, qty |-> lines[i].qty,
        cost |-> lines[i].cost] : i \in DOMAIN lines} = added[t]
  BY ONLY <1>3, <1>5
<1>7. purchases' = purchases \cup added[t] /\ sales' = sales
  BY <1>1, <1>5 DEF Commit
<1>8. stock' = [b \in Books |->
          IF Promise!LinesOf(lines, b) = {} THEN stock[b]
          ELSE [qty  |-> Promise!OnHand(b) + Promise!Total(lines, b),
                cost |-> lines[Promise!Max(Promise!LinesOf(lines, b))].cost]]
  <2>1. stock' = [b \in Books |-> IF lock[b] = t THEN draft[b] ELSE stock[b]]
    BY DEF Commit
  <2>2. ASSUME NEW b \in Books
        PROVE  (IF lock[b] = t THEN draft[b] ELSE stock[b])
                 = IF Promise!LinesOf(lines, b) = {} THEN stock[b]
                   ELSE [qty  |-> Promise!OnHand(b) + Promise!Total(lines, b),
                         cost |-> lines[Promise!Max(Promise!LinesOf(lines, b))].cost]
    <3>1. CASE lock[b] # t
      BY <1>1, <1>3, <3>1 DEF Drawn
    <3>2. CASE lock[b] = t
      <4>1. /\ DoneOf(t, b) # {}
            /\ draft[b] = [qty  |-> Qty(stock[b]) + SumOver(DoneOf(t, b), Copies(t)),
                           cost |-> call[t].items[Promise!Max(DoneOf(t, b))].cost]
        BY <1>1, <3>2 DEF Drawn, RowLeft
      <4>2. Promise!OnHand(b) = Qty(stock[b])
        BY DEF Promise!OnHand, Qty
      <4>3. Promise!Max(DoneOf(t, b)) \in Done(t)
        <5>1. DoneOf(t, b) \subseteq Done(t)
          BY DEF DoneOf
        <5>2. Promise!Max(DoneOf(t, b)) \in DoneOf(t, b)
          BY <4>1, LastLine
        <5>3. QED BY <5>1, <5>2
      <4>4. lines[Promise!Max(DoneOf(t, b))] = call[t].items[Promise!Max(DoneOf(t, b))]
        BY <1>3, <4>3
      <4>5. QED BY <1>3, <3>2, <4>1, <4>2, <4>4
    <3>3. QED BY <3>1, <3>2
  <2>3. QED BY <2>1, <2>2
<1>9. Promise!Receive(lines)
  BY <1>2, <1>6, <1>7, <1>8 DEF Promise!Receive
<1>10. QED BY <1>4, <1>9 DEF Promise!Move

\* A sale that commits is sold by the ledger.
LEMMA SellStep ==
    ASSUME Shape, NeverNegative, AllOnTrack, Apart, NEW t \in Tx, Commit(t), pc[t] = "items",
           call[t].op = "sale", Nat \subseteq Ids
    PROVE  Promise!Move
<1> DEFINE lines == Sent(call[t])
<1>1. /\ at[t] > Len(call[t].items) /\ removed[t] = {} /\ Drawn(t) /\ call[t] \in Calls
  BY BatchCommits
<1>2. PICK f \in Promise!Numberings(lines) : Rows(t, f)
  BY BatchCommits
<1>3. /\ DOMAIN lines = Done(t)
      /\ \A i \in Done(t) : lines[i] = call[t].items[i]
      /\ \A b : Promise!LinesOf(lines, b) = DoneOf(t, b)
      /\ \A b : Promise!Total(lines, b) = SumOver(DoneOf(t, b), Copies(t))
  BY <1>1, SentIsDone
<1>4. lines \in {Sent(c) : c \in Of({"sale"})}
  BY <1>1 DEF Of
<1>5. /\ added[t] = {}
      /\ sold[t] = {[id |-> f[i], book |-> call[t].items[i].book,
                     qty |-> call[t].items[i].qty] : i \in Done(t)}
  BY <1>2 DEF Rows
<1> HIDE DEF lines
<1>6. {[id |-> f[i], book |-> lines[i].book, qty |-> lines[i].qty] : i \in DOMAIN lines}
        = sold[t]
  BY ONLY <1>3, <1>5
<1>7. sales' = sales \cup sold[t] /\ purchases' = purchases
  BY <1>1, <1>5 DEF Commit
<1>8. ASSUME NEW b \in Books
      PROVE  /\ (IF lock[b] = t THEN draft[b] ELSE stock[b])
                  = IF Promise!LinesOf(lines, b) = {} THEN stock[b]
                    ELSE [stock[b] EXCEPT !.qty = @ - Promise!Total(lines, b)]
             /\ Promise!Total(lines, b) <= Promise!OnHand(b)
  <2>1. Promise!OnHand(b) = Qty(stock[b]) /\ Qty(stock[b]) >= 0
    BY DEF Promise!OnHand, Qty, NeverNegative
  <2>2. CASE lock[b] # t
    <3>1. DoneOf(t, b) = {}
      BY <1>1, <2>2 DEF Drawn
    <3>2. Promise!Total(lines, b) = 0
      BY <1>3, <3>1, SumEmpty
    <3>3. QED BY <1>3, <2>1, <2>2, <3>1, <3>2
  <2>3. CASE lock[b] = t
    <3>1. /\ DoneOf(t, b) # {} /\ stock[b] # NoRow /\ draft[b] # NoRow
          /\ draft[b] = [stock[b] EXCEPT !.qty = @ - SumOver(DoneOf(t, b), Copies(t))]
      BY <1>1, <2>3 DEF Drawn, RowLeft
    <3>2. Qty(draft[b]) >= 0
      BY <2>3, SentinelAssumption DEF NeverNegative
    <3>3. stock[b] \in StockRow
      BY <3>1 DEF Shape, TypeOK
    <3>4. IsFiniteSet(DoneOf(t, b)) /\ \A i \in DoneOf(t, b) : Copies(t)[i] \in Int
      BY DoneFinite DEF DoneOf, Done
    <3>5. SumOver(DoneOf(t, b), Copies(t)) \in Int
      BY <3>4, SumType
    <3>6. PICK x : x = SumOver(DoneOf(t, b), Copies(t))
      OBVIOUS
    <3>7. draft[b].qty = stock[b].qty - x /\ stock[b].qty \in Int
      BY <3>1, <3>3, <3>6 DEF StockRow
    <3>8. x <= stock[b].qty
      BY <3>1, <3>2, <3>5, <3>6, <3>7 DEF Qty
    <3>9. QED BY <1>3, <2>1, <2>3, <3>1, <3>6, <3>8 DEF Qty
  <2>4. QED BY <2>2, <2>3
<1>9. stock' = [b \in Books |->
          IF Promise!LinesOf(lines, b) = {} THEN stock[b]
          ELSE [stock[b] EXCEPT !.qty = @ - Promise!Total(lines, b)]]
  <2>1. stock' = [b \in Books |-> IF lock[b] = t THEN draft[b] ELSE stock[b]]
    BY DEF Commit
  <2>2. QED BY <1>8, <2>1
<1>10. Promise!Sell(lines)
  BY <1>2, <1>6, <1>7, <1>8, <1>9 DEF Promise!Sell
<1>11. QED BY <1>4, <1>10 DEF Promise!Move

\* What an edit or a deletion commits.
LEMMA EditCommits ==
    ASSUME Shape, AllOnTrack, NEW t \in Tx, Commit(t), pc[t] = "commit"
    PROVE  /\ Replaced(t) /\ call[t] \in Calls /\ call[t].op \in {"update", "delete"}
           /\ old[t] \in purchases /\ old[t] \in Purchase /\ old[t].id = call[t].id
           /\ purchases' = (purchases \ {old[t]}) \cup added[t] /\ sales' = sales
           /\ stock' = [b \in Books |-> IF lock[b] = t THEN draft[b] ELSE stock[b]]
<1>1. Replaced(t) /\ call[t] # NoCall /\ call[t].op \in {"update", "delete"}
      /\ old[t].id = call[t].id
  BY DEF AllOnTrack, OnTrack
<1>2. old[t] # NoPurchase /\ removed[t] = {old[t]} /\ sold[t] = {}
  BY <1>1 DEF Replaced
<1>3. old[t] \in purchases /\ old[t] \in Purchase /\ call[t] \in Calls
  BY <1>1, <1>2 DEF Shape, RowsHeld, TypeOK
<1>4. QED BY <1>1, <1>2, <1>3 DEF Commit

\* An edit that commits is a correction of the ledger.
LEMMA CorrectStep ==
    ASSUME Shape, NeverNegative, AllOnTrack, NEW t \in Tx, Commit(t), pc[t] = "commit",
           call[t].op = "update"
    PROVE  Promise!Move
<1> DEFINE o == old[t]
           e == Edited(t)
           less(b) == IF b = o.book THEN o.qty ELSE 0
           more(b) == IF b = e.book THEN e.qty ELSE 0
<1>1. /\ Replaced(t) /\ call[t] \in Calls /\ o \in purchases /\ o \in Purchase
      /\ o.id = call[t].id
      /\ purchases' = (purchases \ {o}) \cup added[t] /\ sales' = sales
      /\ stock' = [b \in Books |-> IF lock[b] = t THEN draft[b] ELSE stock[b]]
  BY EditCommits
<1>2. added[t] = {e} /\ e \in Purchase
  BY <1>1 DEF Replaced
<1>3. Promise!Fields(o, call[t]) = e
  BY DEF Promise!Fields, Edited
<1>4. \A b : Less(t, b) = less(b) /\ More(t, b) = more(b)
  BY DEF Less, More
<1>5. ASSUME NEW b \in Books
      PROVE  /\ Promise!OnHand(b) - less(b) + more(b) >= 0
             /\ (IF lock[b] = t THEN draft[b] ELSE stock[b])
                  = IF less(b) = more(b) THEN stock[b]
                    ELSE [qty  |-> Promise!OnHand(b) - less(b) + more(b),
                          cost |-> IF b = e.book THEN e.cost ELSE stock[b].cost]
  <2>1. /\ Promise!OnHand(b) = Qty(stock[b]) /\ Qty(stock[b]) >= 0 /\ Qty(stock[b]) \in Int
        /\ less(b) \in Int /\ more(b) \in Int
    BY <1>1, <1>2 DEF Promise!OnHand, Qty, NeverNegative, Shape, TypeOK, StockRow, Purchase
  <2>2. IF Less(t, b) = More(t, b) THEN lock[b] # t
        ELSE /\ lock[b] = t
             /\ Qty(stock[b]) - Less(t, b) + More(t, b) >= 0
             /\ draft[b] = [qty  |-> Qty(stock[b]) - Less(t, b) + More(t, b),
                            cost |-> CostLeft(t, b)]
    BY <1>1 DEF Replaced
  <2>3. CostLeft(t, b) = IF b = e.book THEN e.cost ELSE stock[b].cost
    BY DEF CostLeft
  <2> HIDE DEF less, more, e
  <2>4. CASE less(b) = more(b)
    BY <1>4, <2>1, <2>2, <2>4
  <2>5. CASE less(b) # more(b)
    BY <1>4, <2>1, <2>2, <2>3, <2>5
  <2>6. QED BY <2>4, <2>5
<1>6. Promise!Correct(call[t])
  <2>1. o \in {q \in purchases : q.id = call[t].id}
    BY <1>1
  <2>2. purchases' = (purchases \ {o}) \cup {Promise!Fields(o, call[t])}
    BY <1>1, <1>2, <1>3
  <2>3. stock' = [b \in Books |->
                    IF less(b) = more(b) THEN stock[b]
                    ELSE [qty  |-> Promise!OnHand(b) - less(b) + more(b),
                          cost |-> IF b = e.book THEN e.cost ELSE stock[b].cost]]
    <3> HIDE DEF less, more, e
    <3>1. QED BY <1>1, <1>5
  <2>4. PICK new : new = Promise!Fields(o, call[t])
    OBVIOUS
  <2>5. stock' = [b \in Books |->
          IF (IF b = o.book THEN o.qty ELSE 0) = (IF b = new.book THEN new.qty ELSE 0)
          THEN stock[b]
          ELSE [qty  |-> Promise!OnHand(b) - (IF b = o.book THEN o.qty ELSE 0)
                                           + (IF b = new.book THEN new.qty ELSE 0),
                cost |-> IF b = new.book THEN new.cost ELSE stock[b].cost]]
    BY ONLY <1>3, <2>3, <2>4
  <2>6. \A b \in Books : Promise!OnHand(b) - (IF b = o.book THEN o.qty ELSE 0)
                                           + (IF b = new.book THEN new.qty ELSE 0) >= 0
    BY <1>3, <1>5, <2>4
  <2>7. purchases' = (purchases \ {o}) \cup {new} /\ UNCHANGED sales
    BY <1>1, <2>2, <2>4
  <2>8. QED BY ONLY <2>1, <2>4, <2>5, <2>6, <2>7 DEF Promise!Correct
<1>7. call[t] \in Of({"update"})
  BY <1>1 DEF Of
<1>8. QED BY <1>6, <1>7 DEF Promise!Move

\* A deletion that commits is one of the ledger.
LEMMA EraseStep ==
    ASSUME Shape, AllOnTrack, NEW t \in Tx, Commit(t), pc[t] = "commit",
           call[t].op = "delete"
    PROVE  Promise!Move
<1> DEFINE o == old[t]
<1>1. /\ Replaced(t) /\ call[t] \in Calls /\ o \in purchases /\ o \in Purchase
      /\ o.id = call[t].id
      /\ purchases' = (purchases \ {o}) \cup added[t] /\ sales' = sales
      /\ stock' = [b \in Books |-> IF lock[b] = t THEN draft[b] ELSE stock[b]]
  BY EditCommits
<1>2. added[t] = {} /\ o.book \in Books /\ o.qty \in Nat \ {0}
  BY <1>1 DEF Replaced, Purchase
<1>3. \A b : /\ Less(t, b) = IF b = o.book THEN o.qty ELSE 0
             /\ More(t, b) = 0 /\ CostLeft(t, b) = stock[b].cost
  BY DEF Less, More, CostLeft
<1>4. \A b \in Books :
         IF Less(t, b) = More(t, b) THEN lock[b] # t
         ELSE /\ lock[b] = t
              /\ stock[b] # NoRow
              /\ Qty(stock[b]) - Less(t, b) + More(t, b) >= 0
              /\ draft[b] = [qty  |-> Qty(stock[b]) - Less(t, b) + More(t, b),
                             cost |-> CostLeft(t, b)]
  BY <1>1 DEF Replaced
<1>5. \A b \in Books : b # o.book => lock[b] # t
  BY <1>3, <1>4
<1>6. Less(t, o.book) = o.qty /\ More(t, o.book) = 0 /\ CostLeft(t, o.book) = stock[o.book].cost
  BY <1>3
<1>7. /\ lock[o.book] = t /\ stock[o.book] # NoRow
      /\ Qty(stock[o.book]) - o.qty + 0 >= 0
      /\ draft[o.book] = [qty  |-> Qty(stock[o.book]) - o.qty + 0,
                          cost |-> stock[o.book].cost]
  <2>1. Less(t, o.book) # More(t, o.book)
    BY <1>2, <1>6
  <2>2. /\ lock[o.book] = t /\ stock[o.book] # NoRow
        /\ Qty(stock[o.book]) - Less(t, o.book) + More(t, o.book) >= 0
        /\ draft[o.book] = [qty  |-> Qty(stock[o.book]) - Less(t, o.book) + More(t, o.book),
                            cost |-> CostLeft(t, o.book)]
    BY <1>2, <1>4, <2>1
  <2>3. QED BY ONLY <1>6, <2>2
<1>8. stock[o.book] \in StockRow /\ Qty(stock[o.book]) = stock[o.book].qty
  BY <1>2, <1>7 DEF Shape, TypeOK, Qty
<1>9. draft[o.book] = [stock[o.book] EXCEPT !.qty = @ - o.qty]
  <2>1. Qty(stock[o.book]) - o.qty + 0 = stock[o.book].qty - o.qty
    BY <1>2, <1>8 DEF StockRow
  <2>2. QED BY <1>7, <1>8, <2>1 DEF StockRow
<1>10. stock' = [stock EXCEPT ![o.book].qty = @ - o.qty]
  BY <1>1, <1>2, <1>5, <1>7, <1>9 DEF Shape, TypeOK
<1>11. o.qty <= Promise!OnHand(o.book)
  BY <1>2, <1>7, <1>8 DEF Promise!OnHand, StockRow
<1>12. Promise!Erase(call[t].id)
  BY <1>1, <1>2, <1>10, <1>11 DEF Promise!Erase
<1>13. call[t] \in Of({"delete"})
  BY <1>1 DEF Of
<1>14. QED BY <1>12, <1>13 DEF Promise!Move

\* Only a commit changes what is on file, and it makes a move of the ledger.
LEMMA LedgerNext ==
    Nat \subseteq Ids /\ IInv /\ AllOnTrack /\ Apart /\ [Next]_vars
        => [Promise!Move]_(Promise!ledger)
<1> SUFFICES ASSUME Nat \subseteq Ids, IInv, AllOnTrack, Apart, [Next]_vars
             PROVE  Promise!Move \/ UNCHANGED <<stock, purchases, sales>>
  BY DEF Promise!ledger
<1>1. Shape /\ NeverNegative
  BY DEF IInv
<1>2. ASSUME NEW t \in Tx, Commit(t) PROVE Promise!Move
  <2>1. CASE pc[t] = "items"
    BY <1>1, <1>2, <2>1, ReceiveStep, SellStep
  <2>2. CASE pc[t] = "commit"
    <3>1. call[t].op \in {"update", "delete"}
      BY <1>1, <1>2, <2>2, EditCommits
    <3>2. QED BY <1>1, <1>2, <2>2, <3>1, CorrectStep, EraseStep
  <2>3. QED BY <1>2, <2>1, <2>2 DEF Commit, Finished
<1>3. CASE UNCHANGED vars \/ Rest
  BY <1>3 DEF Rest, vars
<1>4. ASSUME NEW t \in Tx, Step(t) PROVE Promise!Move \/ UNCHANGED <<stock, purchases, sales>>
  <2>1. CASE Commit(t)
    BY <1>2, <2>1
  <2>2. CASE ~Commit(t)
    BY <1>4, <2>2 DEF Step, Skip, ReceiveItem, SellItem, LockRow, NotFound, EditRow,
         EditQty, MoveOut, MoveIn, EraseRow, Block, Raise, Victim, Rollback, db
  <2>3. QED BY <2>1, <2>2
<1>5. ASSUME NEW t \in Tx, Cancel(t) \/ \E c \in Calls : Begin(t, c)
      PROVE  UNCHANGED <<stock, purchases, sales>>
  BY <1>5 DEF Cancel, Rollback, Begin, db
<1>6. QED BY <1>3, <1>4, <1>5 DEF Next

\* Whatever the transactions do between their statements, the committed tables
\* only ever change as if each request had been carried out whole, one after the
\* other.  The ledger has to have a number for every row, so Ids has every number.
THEOREM Serialised == Nat \subseteq Ids => (Spec => AllOrNothing)
<1> SUFFICES ASSUME Nat \subseteq Ids PROVE Spec => AllOrNothing
  OBVIOUS
<1>1. Init => Promise!Open
  BY DEF Init, Promise!Open
<1>2. Init => AllOnTrack /\ Apart
  BY TrackInit DEF Init, Apart
<1>3. IInv /\ AllOnTrack /\ Apart /\ [Next]_vars => (AllOnTrack /\ Apart)'
  BY TrackNext, ApartNext DEF IInv
<1>4. IInv /\ AllOnTrack /\ Apart /\ [Next]_vars => [Promise!Move]_(Promise!ledger)
  BY LedgerNext
<1>5. QED BY <1>1, <1>2, <1>3, <1>4, Invariance, PTL DEF Spec, AllOrNothing, Promise!Ledger
=============================================================================
