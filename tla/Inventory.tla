------------------------------ MODULE Inventory ------------------------------
(***************************************************************************)
(* The inventory of the books backend: the purchases, the sales and the    *)
(* stock on hand, and the stored procedures that change them together.     *)
(*                                                                         *)
(* A request is one element of Tx.  It validates its input in Python       *)
(* (PurchasesDomain, SellDomain, SupabaseSellEntryRepository), then makes  *)
(* one RPC, and the RPC runs as one Postgres transaction at READ COMMITTED *)
(* (src/app/sql/Inventory_atomic_ops.sql).  Transactions interleave        *)
(* statement by statement: one action is one iteration of a batch loop or  *)
(* one statement of an edit, with the row it writes to purchases or sales  *)
(* and the stock row it changes.                                           *)
(*                                                                         *)
(* What a transaction wrote is private until it commits: added, removed    *)
(* and sold hold its row changes, and draft[b] is the version of the stock *)
(* row of b written by the transaction that holds lock[b].                 *)
(***************************************************************************)
EXTENDS Integers, Sequences, FiniteSets

CONSTANTS
    Tx,           \* requests, one RPC each
    Books,        \* ids in the catalog
    Titles,       \* book ids a request may name, in the catalog or not
    Costs,        \* values of cost_price
    Negative,     \* the ones below zero
    Fractional,   \* the ones whose JSON text Postgres cannot cast to bigint
    Calls,        \* the requests that may arrive
    OnFile,       \* purchases recorded before the model starts
    InStock,      \* stock rows before the model starts
    FirstId,      \* next value of the identity sequences then
    NoTx, NoRow, NoCost, NoPurchase, NoCall, Keep

CostOrNull == Costs \cup {NoCost}

StockRow == [qty : Int, cost : CostOrNull]
Purchase == [id : Nat, book : Books, qty : Nat \ {0}, cost : CostOrNull]
Sale     == [id : Nat, book : Books, qty : Nat \ {0}]

Item == [book : Titles, qty : Int, cost : CostOrNull]

Batch == [op : {"purchase", "batch", "inward", "sale"}, items : Seq(Item)]
Edit  == [op : {"update"}, id : Nat, book : Titles \cup {Keep},
          qty : Int \cup {Keep}, cost : CostOrNull \cup {Keep}]
Erase == [op : {"delete"}, id : Nat]

\* The units a set of purchase (or sale) rows stands for, one pair per copy.
Units(rows, b) ==
    UNION {{r.id} \X (1 .. r.qty) : r \in {s \in rows : s.book = b}}

\* What a stock row says is on hand.
Qty(row) == IF row = NoRow THEN 0 ELSE row.qty

ASSUME SentinelAssumption ==
    /\ NoTx \notin Tx
    /\ NoRow \notin StockRow
    /\ NoCost \notin Costs
    /\ NoPurchase \notin Purchase
    /\ NoCall \notin Batch \cup Edit \cup Erase
    /\ Keep \notin Titles \cup Int \cup CostOrNull
ASSUME InputAssumption ==
    /\ Books \subseteq Titles
    /\ Negative \subseteq Costs
    /\ Fractional \subseteq Costs
    /\ Calls \subseteq Batch \cup Edit \cup Erase
\* The identity column hands out one id per purchase, and the stock table
\* holds no negative quantity before the model starts.
ASSUME HistoryAssumption ==
    /\ OnFile \subseteq Purchase
    /\ IsFiniteSet(OnFile)
    /\ FirstId \in Nat
    /\ \A p \in OnFile : p.id < FirstId
    /\ \A p, q \in OnFile : p.id = q.id => p = q
    /\ InStock \in [Books -> StockRow \cup {NoRow}]
    /\ \A b \in Books : Qty(InStock[b]) >= 0

VARIABLES
    stock,      \* committed stock row of each book
    purchases,  \* committed purchases
    sales,      \* committed sales
    nextId,     \* identity sequence (one for both tables): a rollback leaves a gap
    lock,       \* which transaction has changed the stock row of a book
    draft,      \* the uncommitted version of that row
    pc, call, at,  \* where each request stands, its input, its loop index
    blocked,    \* transactions waiting for a row lock
    old,        \* the purchase row a transaction holds FOR UPDATE
    added, removed, sold   \* its uncommitted row changes

db   == <<stock, purchases, sales>>
mine == <<added, removed, sold>>
vars == <<stock, purchases, sales, nextId, lock, draft, pc, call, at,
          blocked, old, added, removed, sold>>

Init ==
    /\ stock = InStock
    /\ purchases = OnFile
    /\ sales = {}
    /\ nextId = FirstId
    /\ lock = [b \in Books |-> NoTx]
    /\ draft = [b \in Books |-> NoRow]
    /\ pc = [t \in Tx |-> "idle"]
    /\ call = [t \in Tx |-> NoCall]
    /\ at = [t \in Tx |-> 1]
    /\ blocked = {}
    /\ old = [t \in Tx |-> NoPurchase]
    /\ added = [t \in Tx |-> {}]
    /\ removed = [t \in Tx |-> {}]
    /\ sold = [t \in Tx |-> {}]

-----------------------------------------------------------------------------
(* What the request is and where its transaction stands. *)

Working == {"items", "lock", "edit", "apply", "erase", "commit"}
Replies == {"ok", "absent", "refused", "raised"}

\* Python turns the request away before any RPC: an empty or half filled inward
\* form, a purchase without a price ...
BadInward(c) ==
    /\ c.op = "inward"
    /\ \/ c.items = <<>>
       \/ \E i \in DOMAIN c.items : \/ c.items[i].qty <= 0
                                    \/ c.items[i].cost \in Negative

BadPurchase(c) ==
    /\ c.op = "purchase"
    /\ \E i \in DOMAIN c.items : \/ c.items[i].qty <= 0
                                 \/ c.items[i].cost \in Negative \cup {NoCost}

\* ... a sale of nothing, or of a book it does not know ...
BadSale(c) ==
    /\ c.op = "sale"
    /\ \/ \A i \in DOMAIN c.items : c.items[i].qty = 0
       \/ \E i \in DOMAIN c.items :
             \/ c.items[i].qty < 0
             \/ c.items[i].qty > 0 /\ c.items[i].book \notin Books

\* ... an edit to no copies.
BadEdit(c) ==
    c.op = "update" /\ ((c.qty # Keep /\ c.qty <= 0) \/ c.cost \in Negative)

Refused(c) == BadInward(c) \/ BadPurchase(c) \/ BadSale(c) \/ BadEdit(c)

\* Rows the caller drops from the batch: blank lines of the sell form, and
\* the rows record_batch finds invalid.
Dropped(c, i) ==
    \/ c.op = "sale" /\ i.qty = 0
    \/ c.op = "batch" /\ (i.qty <= 0 \/ i.cost \in Negative \cup {NoCost})

IsBatch(c) == c.op \in {"purchase", "batch", "inward", "sale"}
HasItem(t) == pc[t] = "items" /\ at[t] \in DOMAIN call[t].items
\* Mutant: a sale works through its lines from the last to the first.
ThisReversed(t) ==
    LET lines == call[t].items
    IN  lines[IF call[t].op = "sale" THEN Len(lines) + 1 - at[t] ELSE at[t]]
This(t) == call[t].items[at[t]]

\* The purchase row an update leaves: a field that is absent, or a book or
\* quantity that is null, keeps its old value.
Edited(t) ==
    LET Pick(new, kept) == IF new = Keep THEN kept ELSE new
    IN  [id   |-> old[t].id,
         book |-> Pick(call[t].book, old[t].book),
         qty  |-> Pick(call[t].qty, old[t].qty),
         cost |-> Pick(call[t].cost, old[t].cost)]

\* The procedure raises whatever the stock is: a price that is no bigint, no
\* copies (which it checks again), or a book the foreign key does not know.
BadInput(t) ==
    \/ /\ HasItem(t)
       /\ ~Dropped(call[t], This(t))
       /\ \/ This(t).book \notin Books
          \/ This(t).qty <= 0
          \/ call[t].op # "sale" /\ This(t).cost \in Fractional
    \/ /\ pc[t] = "edit"
       /\ \/ Edited(t).book \notin Books
          \/ Edited(t).qty <= 0
          \/ call[t].cost \in Fractional

\* The stock row the next statement writes, and how many copies it takes away.
Touches(t) ==
    \/ HasItem(t) /\ ~Dropped(call[t], This(t))
    \/ pc[t] = "edit" /\ (Edited(t).book # old[t].book \/ Edited(t).qty # old[t].qty)
    \/ pc[t] \in {"apply", "erase"}

Target(t) == CASE pc[t] = "items" -> This(t).book
               [] pc[t] = "apply" -> Edited(t).book
               [] OTHER -> old[t].book

Guarded(t) == Touches(t) /\ pc[t] # "apply" /\ (pc[t] = "items" => call[t].op = "sale")

\* Mutant: the difference of an edit, the wrong way round.
TakesSwapped(t) == CASE pc[t] = "items" -> This(t).qty
                     [] pc[t] = "edit" /\ Edited(t).book = old[t].book ->
                           Edited(t).qty - old[t].qty
                     [] OTHER -> old[t].qty
Takes(t) == CASE pc[t] = "items" -> This(t).qty
              [] pc[t] = "edit" /\ Edited(t).book = old[t].book ->
                    old[t].qty - Edited(t).qty
              [] OTHER -> old[t].qty

(***************************************************************************)
(* Row locks.  A statement of t reads the version t wrote, else the        *)
(* committed one, and writing makes it the holder until its transaction    *)
(* ends.  An UPDATE whose WHERE clause the visible version fails finds no  *)
(* row and raises without waiting; one that has waited looks again.  An    *)
(* upsert always waits.                                                    *)
(***************************************************************************)
Version(t, b) == IF lock[b] = t THEN draft[b] ELSE stock[b]

Free(t, b) == lock[b] \in {NoTx, t}

Write(t, b, row) ==
    /\ lock' = [lock EXCEPT ![b] = t]
    /\ draft' = [draft EXCEPT ![b] = row]

\* insert ... on conflict (book_id) do update (mutant: set stock = excluded.stock).
UpsertExcluded(t, b, q, c) ==
    /\ Free(t, b)
    /\ Write(t, b, [qty |-> q, cost |-> c])
Upsert(t, b, q, c) ==
    /\ Free(t, b)
    /\ Write(t, b, [qty |-> Qty(Version(t, b)) + q, cost |-> c])

\* where stock - q >= 0 (mutant: the row only has to be there).
CoversAny(row, q) == row # NoRow
Covers(row, q) == row # NoRow /\ row.qty - q >= 0

\* update ... set stock = stock - q where stock - q >= 0
Take(t, b, q) ==
    /\ Free(t, b)
    /\ Covers(Version(t, b), q)
    /\ Write(t, b, [Version(t, b) EXCEPT !.qty = @ - q])

Short(t) == Guarded(t) /\ ~Covers(Version(t, Target(t)), Takes(t))

\* Who holds the purchase row that t selects FOR UPDATE (mutant: a plain select).
RowHoldersNone(t) == {}
RowHolders(t) ==
    {u \in Tx \ {t} : old[u] # NoPurchase /\ pc[t] = "lock" /\ old[u].id = call[t].id}

\* Who t waits for.
WaitsFor(t) ==
    IF pc[t] = "lock" THEN RowHolders(t)
    ELSE IF Touches(t) /\ Target(t) \in Books THEN {lock[Target(t)]} \ {NoTx, t}
    ELSE {}

-----------------------------------------------------------------------------
(* The requests. *)

Unblock(t) == blocked' = blocked \ {t}

\* The request arrives and is validated.
Begin(t, c) ==
    /\ pc[t] = "idle"
    /\ call' = [call EXCEPT ![t] = c]
    /\ pc' = [pc EXCEPT ![t] = IF Refused(c) THEN "refused"
                               ELSE IF IsBatch(c) THEN "items" ELSE "lock"]
    /\ UNCHANGED <<db, mine, nextId, lock, draft, at, blocked, old>>

\* Lines the caller drops (mutant: the loop looks at the same line again).
SkipStays(t) == HasItem(t) /\ Dropped(call[t], This(t)) /\ UNCHANGED vars
Skip(t) ==
    /\ HasItem(t)
    /\ Dropped(call[t], This(t))
    /\ at' = [at EXCEPT ![t] = @ + 1]
    /\ UNCHANGED <<db, mine, nextId, lock, draft, pc, call, blocked, old>>

\* One iteration of record_inward_stock_batch.
ReceiveItem(t) ==
    /\ HasItem(t) /\ call[t].op # "sale"
    /\ ~Dropped(call[t], This(t)) /\ ~BadInput(t)
    /\ Upsert(t, This(t).book, This(t).qty, This(t).cost)
    /\ added' = [added EXCEPT ![t] = @ \cup {[id |-> nextId, book |-> This(t).book,
                                              qty |-> This(t).qty, cost |-> This(t).cost]}]
    /\ nextId' = nextId + 1
    /\ at' = [at EXCEPT ![t] = @ + 1]
    /\ Unblock(t)
    /\ UNCHANGED <<db, pc, call, old, removed, sold>>

\* One iteration of record_sale_batch (mutant: a line that is short is passed
\* over instead of ending the sale).
SellItemSkips(t) ==
    /\ HasItem(t) /\ call[t].op = "sale" /\ ~Dropped(call[t], This(t))
    /\ IF Short(t)
       THEN UNCHANGED <<lock, draft, sold, nextId>>
       ELSE /\ Take(t, This(t).book, This(t).qty)
            /\ sold' = [sold EXCEPT ![t] = @ \cup {[id |-> nextId, book |-> This(t).book,
                                                    qty |-> This(t).qty]}]
            /\ nextId' = nextId + 1
    /\ at' = [at EXCEPT ![t] = @ + 1]
    /\ Unblock(t)
    /\ UNCHANGED <<db, pc, call, old, added, removed>>
SellItem(t) ==
    /\ HasItem(t) /\ call[t].op = "sale" /\ ~Dropped(call[t], This(t))
    /\ Take(t, This(t).book, This(t).qty)
    /\ sold' = [sold EXCEPT ![t] = @ \cup {[id |-> nextId, book |-> This(t).book,
                                            qty |-> This(t).qty]}]
    /\ nextId' = nextId + 1
    /\ at' = [at EXCEPT ![t] = @ + 1]
    /\ Unblock(t)
    /\ UNCHANGED <<db, pc, call, old, added, removed>>

\* select * into old_row from purchases where id = p_purchase_id for update
LockRow(t) ==
    /\ pc[t] = "lock"
    /\ RowHolders(t) = {}
    /\ \E p \in purchases :
          /\ p.id = call[t].id
          /\ old' = [old EXCEPT ![t] = p]
    /\ pc' = [pc EXCEPT ![t] = IF call[t].op = "update" THEN "edit" ELSE "erase"]
    /\ Unblock(t)
    /\ UNCHANGED <<db, mine, nextId, lock, draft, call, at>>

NotFound(t) ==
    /\ pc[t] = "lock"
    /\ ~\E p \in purchases : p.id = call[t].id
    /\ pc' = [pc EXCEPT ![t] = IF call[t].op = "update" THEN "raised" ELSE "absent"]
    /\ Unblock(t)
    /\ UNCHANGED <<db, mine, nextId, lock, draft, call, at, old>>

\* An edit that moves no copies: the stock row, its cost too, is left alone.
EditRow(t) ==
    /\ pc[t] = "edit" /\ ~BadInput(t) /\ ~Touches(t)
    /\ removed' = [removed EXCEPT ![t] = {old[t]}]
    /\ added' = [added EXCEPT ![t] = {Edited(t)}]
    /\ pc' = [pc EXCEPT ![t] = "commit"]
    /\ UNCHANGED <<db, nextId, lock, draft, call, at, blocked, old, sold>>

\* An edit of the quantity: the difference is applied to the stock row (mutants:
\* its cost is left alone; its cost is what the call names, whether it names one).
EditQtyOnly(t) ==
    /\ pc[t] = "edit" /\ ~BadInput(t) /\ Touches(t)
    /\ Edited(t).book = old[t].book
    /\ Take(t, old[t].book, Takes(t))
    /\ removed' = [removed EXCEPT ![t] = {old[t]}]
    /\ added' = [added EXCEPT ![t] = {Edited(t)}]
    /\ pc' = [pc EXCEPT ![t] = "commit"]
    /\ Unblock(t)
    /\ UNCHANGED <<db, nextId, call, at, old, sold>>
EditQtyAsNamed(t) ==
    /\ pc[t] = "edit" /\ ~BadInput(t) /\ Touches(t)
    /\ Edited(t).book = old[t].book
    /\ Free(t, old[t].book)
    /\ LET row == Version(t, old[t].book)
       IN  /\ Covers(row, Takes(t))
           /\ Write(t, old[t].book, [qty |-> row.qty - Takes(t), cost |-> call[t].cost])
    /\ removed' = [removed EXCEPT ![t] = {old[t]}]
    /\ added' = [added EXCEPT ![t] = {Edited(t)}]
    /\ pc' = [pc EXCEPT ![t] = "commit"]
    /\ Unblock(t)
    /\ UNCHANGED <<db, nextId, call, at, old, sold>>
EditQty(t) ==
    /\ pc[t] = "edit" /\ ~BadInput(t) /\ Touches(t)
    /\ Edited(t).book = old[t].book
    /\ Free(t, old[t].book)
    /\ LET row == Version(t, old[t].book)
       IN  /\ Covers(row, Takes(t))
           /\ Write(t, old[t].book, [qty |-> row.qty - Takes(t), cost |-> Edited(t).cost])
    /\ removed' = [removed EXCEPT ![t] = {old[t]}]
    /\ added' = [added EXCEPT ![t] = {Edited(t)}]
    /\ pc' = [pc EXCEPT ![t] = "commit"]
    /\ Unblock(t)
    /\ UNCHANGED <<db, nextId, call, at, old, sold>>

\* An edit of the book, first half: the old book gives its copies back ...
MoveOut(t) ==
    /\ pc[t] = "edit" /\ ~BadInput(t)
    /\ Edited(t).book # old[t].book
    /\ Take(t, old[t].book, old[t].qty)
    /\ removed' = [removed EXCEPT ![t] = {old[t]}]
    /\ pc' = [pc EXCEPT ![t] = "apply"]
    /\ Unblock(t)
    /\ UNCHANGED <<db, nextId, call, at, old, added, sold>>

\* ... second half: the new book receives them.
MoveIn(t) ==
    /\ pc[t] = "apply"
    /\ Upsert(t, Edited(t).book, Edited(t).qty, Edited(t).cost)
    /\ added' = [added EXCEPT ![t] = {Edited(t)}]
    /\ pc' = [pc EXCEPT ![t] = "commit"]
    /\ Unblock(t)
    /\ UNCHANGED <<db, nextId, call, at, old, removed, sold>>

\* delete_purchase_atomic once it holds the row.
EraseRow(t) ==
    /\ pc[t] = "erase"
    /\ Take(t, old[t].book, old[t].qty)
    /\ removed' = [removed EXCEPT ![t] = {old[t]}]
    /\ pc' = [pc EXCEPT ![t] = "commit"]
    /\ Unblock(t)
    /\ UNCHANGED <<db, nextId, call, at, old, added, sold>>

\* The next row is locked by another transaction.
Block(t) ==
    /\ t \notin blocked
    /\ WaitsFor(t) # {} /\ ~BadInput(t) /\ ~Short(t)
    /\ blocked' = blocked \cup {t}
    /\ UNCHANGED <<db, mine, nextId, lock, draft, pc, call, at, old>>

(***************************************************************************)
(* The end of a transaction: everything it wrote becomes visible at once,  *)
(* or none of it does, and its locks are released either way.              *)
(***************************************************************************)
Release(t) ==
    /\ lock' = [b \in Books |-> IF lock[b] = t THEN NoTx ELSE lock[b]]
    /\ old' = [old EXCEPT ![t] = NoPurchase]
    /\ added' = [added EXCEPT ![t] = {}]
    /\ removed' = [removed EXCEPT ![t] = {}]
    /\ sold' = [sold EXCEPT ![t] = {}]
    /\ Unblock(t)
    /\ UNCHANGED <<nextId, draft, call, at>>

Finished(t) == pc[t] = "commit" \/ (pc[t] = "items" /\ at[t] > Len(call[t].items))

\* What the caller is told of a transaction that has committed.  The Purchase model
\* of the reply requires a cost_price, and a sale looks up the names of the locations
\* first: without the one, or when the other round trip fails, it is an exception.
Told(t) ==
    IF \E p \in added[t] : p.cost = NoCost THEN {"raised"}
    ELSE IF call[t].op = "sale" THEN {"ok", "raised"}
    ELSE {"ok"}

\* Mutant: an edited row is filed next to the one it replaces.
CommitAppends(t) ==
    /\ Finished(t)
    /\ stock' = [b \in Books |-> IF lock[b] = t THEN draft[b] ELSE stock[b]]
    /\ purchases' = purchases \cup added[t]
    /\ sales' = sales \cup sold[t]
    /\ \E reply \in Told(t) : pc' = [pc EXCEPT ![t] = reply]
    /\ Release(t)
Commit(t) ==
    /\ Finished(t)
    /\ stock' = [b \in Books |-> IF lock[b] = t THEN draft[b] ELSE stock[b]]
    /\ purchases' = (purchases \ removed[t]) \cup added[t]
    /\ sales' = sales \cup sold[t]
    /\ \E reply \in Told(t) : pc' = [pc EXCEPT ![t] = reply]
    /\ Release(t)

Rollback(t) ==
    /\ pc' = [pc EXCEPT ![t] = "raised"]
    /\ UNCHANGED db
    /\ Release(t)

\* The statement raises: bad input, or a WHERE clause that finds no row.
Raise(t) ==
    /\ \/ BadInput(t)
       \/ Short(t) /\ (t \notin blocked \/ Free(t, Target(t)))
    /\ Rollback(t)

\* Postgres ends a cycle of waits by aborting one of its members.
Deadlocked(t) ==
    \E S \in SUBSET blocked : t \in S /\ UNION {WaitsFor(u) : u \in S} = S

Victim(t) == Deadlocked(t) /\ Rollback(t)

\* A statement timeout or a lost connection ends the transaction.
Cancel(t) == pc[t] \in Working /\ Rollback(t)

Step(t) ==
    \/ Skip(t) \/ ReceiveItem(t) \/ SellItem(t)
    \/ LockRow(t) \/ NotFound(t)
    \/ EditRow(t) \/ EditQty(t) \/ MoveOut(t) \/ MoveIn(t) \/ EraseRow(t)
    \/ Block(t) \/ Commit(t) \/ Raise(t) \/ Victim(t)

\* Every request has been answered, or has not been made.
Rest == /\ \A t \in Tx : pc[t] \in Replies \cup {"idle"}
        /\ UNCHANGED vars

Next == \/ \E t \in Tx : Step(t) \/ Cancel(t) \/ \E c \in Calls : Begin(t, c)
        \/ Rest

\* The database keeps executing a transaction it has begun.
Spec == Init /\ [][Next]_vars /\ \A t \in Tx : WF_vars(Step(t))

-----------------------------------------------------------------------------
(* Properties. *)

\* The shape of the state.
TypeOK ==
    /\ stock \in [Books -> StockRow \cup {NoRow}]
    /\ purchases \subseteq Purchase
    /\ sales \subseteq Sale
    /\ nextId \in Nat
    /\ lock \in [Books -> Tx \cup {NoTx}]
    /\ draft \in [Books -> StockRow \cup {NoRow}]
    /\ pc \in [Tx -> Working \cup Replies \cup {"idle"}]
    /\ call \in [Tx -> Calls \cup {NoCall}]
    /\ at \in [Tx -> Nat \ {0}]
    /\ blocked \subseteq Tx
    /\ old \in [Tx -> Purchase \cup {NoPurchase}]
    /\ added \in [Tx -> SUBSET Purchase]
    /\ removed \in [Tx -> SUBSET Purchase]
    /\ sold \in [Tx -> SUBSET Sale]

\* Copies of b that no purchase on file accounts for when the model starts.
Opening(b) == Qty(InStock[b]) - Cardinality(Units(OnFile, b))

\* What the committed database promises a reader at any moment: the stock row
\* of a book is its opening count, plus every copy purchased, less every copy
\* sold -- whatever batches, edits and deletions overlap, abort or deadlock.
Conserved ==
    \A b \in Books :
        Qty(stock[b]) = Opening(b) + Cardinality(Units(purchases, b))
                                   - Cardinality(Units(sales, b))

\* No interleaving of the guarded updates oversells a book: neither a
\* committed stock row nor one in the making is negative.
NeverNegative ==
    \A b \in Books : /\ Qty(stock[b]) >= 0
                     /\ lock[b] # NoTx => Qty(draft[b]) >= 0

\* The ledger as transaction t will leave it.
After(t) == (purchases \ removed[t]) \cup added[t]

\* The transaction that has changed a stock row has changed its purchase and
\* sale rows to match, and one that has not has moved no copies of that book.
DraftConserved ==
    \A t \in Tx, b \in Books :
        IF lock[b] = t
        THEN Qty(draft[b]) = Opening(b) + Cardinality(Units(After(t), b))
                                        - Cardinality(Units(sales \cup sold[t], b))
        ELSE /\ Units(added[t], b) = Units(removed[t], b)
             /\ Units(sold[t], b) = {}

\* An id names one purchase, also across transactions under way: an edit keeps
\* its row's id while it holds the row, and the identity column hands out the
\* rest once.
IdsUnique ==
    /\ \A p, q \in purchases : p.id = q.id => p = q
    /\ \A t \in Tx : \A p \in added[t] :
          /\ \A q \in purchases : p.id = q.id => q = old[t] /\ q \in removed[t]
          /\ \A u \in Tx : \A q \in added[u] : p.id = q.id => p = q /\ t = u
    /\ \A p \in purchases \cup sales : p.id < nextId
    /\ \A t \in Tx : \A p \in added[t] \cup sold[t] : p.id < nextId

Untouched(t) ==
    added[t] = {} /\ removed[t] = {} /\ sold[t] = {} /\ \A b \in Books : lock[b] # t

\* At most one transaction at a time holds a purchase row and works from the
\* committed version of it, a transaction that is still looking for its row
\* has changed nothing, and an answered request holds nothing.
RowsHeld ==
    \A t \in Tx :
        /\ old[t] # NoPurchase =>
              /\ old[t] \in purchases
              /\ \A u \in Tx \ {t} : old[u] # NoPurchase => old[u].id # old[t].id
        /\ removed[t] \subseteq {old[t]} \cap purchases
        /\ pc[t] \in {"edit", "apply", "erase"} => old[t] # NoPurchase
        /\ pc[t] \in {"idle", "items", "lock"} \cup Replies => old[t] = NoPurchase
        /\ pc[t] \notin {"items", "apply", "commit"} => Untouched(t)
        /\ pc[t] = "apply" => added[t] = {} /\ removed[t] = {old[t]}

\* Every request that began is answered: overlapping batches may lock the same
\* books in opposite orders, but a deadlock only costs one of them its reply.
Answered == \A t \in Tx : (pc[t] # "idle") ~> (pc[t] \in Replies)

\* Request t takes the books in the order of rank: the lines of its batch name
\* them upwards, and an edit between its halves moves copies up.
Ascends(t, rank) ==
    /\ IsBatch(call[t]) =>
          \A i, j \in {n \in DOMAIN call[t].items : /\ ~Dropped(call[t], call[t].items[n])
                                                   /\ call[t].items[n].book \in Books} :
              i < j => rank[call[t].items[i].book] <= rank[call[t].items[j].book]
    /\ pc[t] = "apply" => rank[old[t].book] <= rank[Edited(t).book]

\* The ways to put the books in a row.
Orders == {rank \in [Books -> 1 .. Cardinality(Books)] :
              \A a, b \in Books : rank[a] = rank[b] => a = b}

\* Requests that wait for each other in a cycle disagree on the order of the
\* books: whatever others are under way, those that name their books in one order,
\* batches by their lines and edits upwards, never end each other.
NoDeadlock ==
    \A S \in SUBSET blocked :
        S # {} /\ UNION {WaitsFor(u) : u \in S} = S =>
            ~\E rank \in Orders : \A t \in S : Ascends(t, rank)

\* The price of a line that passed validation never makes the RPC raise: the
\* request model declares cost_price a non-negative float.
AnyPrice == \A t \in Tx : HasItem(t) /\ This(t).book \in Books => ~BadInput(t)
=============================================================================
