# A formal model of the books backend

The repository is a FastAPI service for a book distribution centre: it records
books received and sold, keeps the stock on hand, runs two small funds per
person ("Nidhi"), takes book requests and serves reference data and a
dashboard. All durable state is in Supabase (Postgres reached over HTTP). Every
endpoint is a plain `def`, so the server runs each request in a thread of its
own: requests interleave at every round trip to the database, and inside the
database the stored procedures interleave statement by statement. There are no
tests in the repository.

The modules here model that concurrency. `tlc -config X.cfg M` checks a run
on a small instance; `tlapm M.tla` checks the proofs of a module for every value
of its constants. Eight modules hold proofs: `SumsProofs`, `InventoryProofs`,
`NidhiProofs`, `NidhiPromiseProofs`, `ContainerProofs`, `ReferenceDataProofs`,
`ReportsProofs` and `BookRequestsProofs` (a few minutes each at most).

## Inventory of the system

Paths are relative to `src/app/`.

| Component | State | Operations | What is hard | What makes it correct |
|---|---|---|---|---|
| **Inventory transactions** `sql/Inventory_atomic_ops.sql`, `repositories/supabase_inventory_repository.py`, `domain/purchases_domain.py`, `supabase_sell_entry_repository.add_sale` | `stock`, `purchases`, `sales` | record a purchase, a batch, an inward form, a sale; edit and delete a purchase | overlapping transactions at READ COMMITTED, row locks in the order of the batch, deadlock, a line that raises in the middle, a lost connection | stock = opening + purchased - sold; never negative; all or nothing; every request ends |
| **Nidhi funds** `domain/nidhi_domain.py`, `repositories/supabase_nidhi_repository.py` | `nidhi_balances`, `nidhi_transactions` | contribute, redeem, approve and reject each | check, money and status are separate round trips; edits before a check that may fail; failures between round trips | money moves once, as the row says, on approval only, to or from whom it should; a repeated decision costs nobody; no fund below zero; decisions final |
| **Stock administration** `domain/stock_domain.py`, `repositories/supabase_stock_repository.py`, `adjust_stock_batch` | `stock` | create, adjust, adjust a batch, change the cost, delete | read-modify-write over two round trips, against each other and against the inventory | stock = base + purchased - sold, unless an adjustment was written from a stale row; never negative |
| **Dependency injection and client** `injector.py`, `integrations/supabase_client.py` | factories, singletons, lock; the client | register, resolve, reset; connect, disconnect | double-checked locking with nested construction; an unsynchronised `connect` | one instance per registration; nobody stumbles over what another constructs; `resolve` never deadlocks; a client is handed out |
| **Reference data** `controllers/master_data.py`, `domain/{books,categories,...}_domain.py` and their repositories | catalog and lookup tables | create, rename, delete, list | check-then-insert in two round trips | one row per name, unless two requests overtook each other |
| **Reference cache** `core/ttl_cache.py` | entries with a deadline | `get_or_set` | fill outside the lock, no invalidation | an answer is at most the ttl and one round trip old |
| **Book requests** `controllers/book_requests_controller.py`, `sql/Book_requests.sql` | `book_requests` | create, approve, list mine, list all | who is asked for; stamps made before the insert; limits | approved by admins only; a list of mine is mine and complete |
| **Dashboard** `domain/dashboard_domain.py` | none | `get_dashboard_data`, exports | queries that other requests come between; filters that fall back on the page's | the sections agree; `initial_stock` is off by no more than what moved meanwhile |
| **Sales overview, entry pages, purchase reads** `repositories/supabase_sales_repository.py`, `supabase_sell_entry_repository.py`, `supabase_purchase_repository.py` | none | filtered reads and sums | a location renamed between the rows and its name | totals by place and by volunteer add up; every seller shown can be filtered by |
| **Authentication** `core/auth.py` | none (environment) | `get_current_user`, `require_permission` | the order of three identity sources | a bad token never falls through |
| **Error mapping** `core/errors.py` | none | exception to status code | two classes named ValidationError | - |
| **Input and output** spreadsheets, blobs, start-up, `backup.py`, `inward_stock_controller.py` | none | - | - | not modelled |

How they interact: routers build a controller per request, the controllers get
domains and repositories from the container, repositories share one client.
Inventory, stock administration and dashboard share `stock`, `purchases` and
`sales`; everything that names a book, a place or an event reads the reference
tables, partly through the cache. There are no messages between processes and
no background work: the shared state is the database, the container and the
caches of one process.

## The modules

| Module | What it is |
|---|---|
| `Inventory.tla` | the inventory transactions, statement by statement |
| `StockLedger.tla` | what the inventory promises: each request is one step |
| `InventoryLedger.tla` | the mapping from `Inventory` to `StockLedger` |
| `Sums.tla` | sums over a finite set, as a difference of two cardinalities |
| `SumsProofs.tla` | what the proofs use of them |
| `InventoryProofs.tla` | the inductive invariants of `Inventory`, the theorems, and the refinement of `StockLedger` |
| `MCInventory.tla`, `MCInventory_*.cfg` | instances of `Inventory` for TLC |
| `Nidhi.tla` | the funds, one action per round trip |
| `NidhiBook.tla` | what the funds promise: each decision is one step |
| `NidhiPromise.tla` | the mapping from `Nidhi` to `NidhiBook` |
| `NidhiProofs.tla` | the inductive invariants of `Nidhi` and the theorems |
| `NidhiPromiseProofs.tla` | the refinement of `NidhiBook`, step by step |
| `MCNidhi.tla`, `MCNidhi_*.cfg` | instances of `Nidhi` for TLC |
| `Container.tla` | the dependency container and the shared database client |
| `ContainerProofs.tla` | its inductive invariants and the theorems |
| `ReferenceData.tla` | lookup tables, their endpoints and the caches before them |
| `ReferenceDataProofs.tla` | their inductive invariants and the theorems |
| `StockAdmin.tla` | the stock domain beside the inventory's transactions |
| `Reports.tla` | extends `StockAdmin`: dashboard, entry pages, overview, over the moving ledger |
| `ReportsProofs.tla` | the inductive invariants of both, and the theorems |
| `Access.tla` | identity, permissions and status codes, as operators |
| `BookRequests.tla` | extends `Access`: the requests for books |
| `BookRequestsProofs.tla` | its inductive invariants and the theorems |
| `MCContainer`, `MCReferenceData`, `MCReports`, `MCBookRequests` (`.tla`, `.cfg`) | their instances for TLC |

### Inventory

A member of `Tx` is one request. `Begin` is its validation in Python
(`BadInward`, `BadPurchase`, `BadSale`, `BadEdit` are the conditions of the
four validators); after it the request is one RPC, which is one Postgres
transaction.

* `stock`, `purchases`, `sales` are the committed tables. `added`, `removed`,
  `sold` hold the row changes a transaction has made and nobody else sees;
  `lock[b]` is the transaction that has written the stock row of `b` and
  `draft[b]` its version of it. `nextId` is the identity sequence, which a
  rollback does not give back.
* `ReceiveItem` and `SellItem` are one iteration of the loops of
  `record_inward_stock_batch` and `record_sale_batch`: the inserted row and the
  change of the stock row. `LockRow`, `EditRow`, `EditQty`, `MoveOut`, `MoveIn`
  are `update_purchase_atomic`; `LockRow`, `EraseRow` are
  `delete_purchase_atomic`; `NotFound` is their "not found" branch.
* `Upsert` and `Take` are the two ways a statement changes a stock row:
  `insert ... on conflict do update`, and `update ... where stock - q >= 0`.
* READ COMMITTED: a statement reads its transaction's own version or else the
  committed one. A row locked by another transaction makes it wait (`Block`).
  A guarded update whose WHERE clause fails on the version it sees raises
  without waiting; one that has waited looks at the new version (`Raise`).
  Postgres aborts some member of a cycle of waits (`Victim`). A statement
  timeout or a lost connection ends a transaction anywhere (`Cancel`).
* `BadInput` is what the procedures raise on their own account: a book the
  foreign key does not know, no copies (which they check again behind the
  validators), a price that is no `bigint`.
* `Commit` makes everything visible at once. What the caller is told (`Told`)
  comes after it. The reply is parsed by the `Purchase` model, which wants a
  price, and a sale first looks up the names of its locations in another round
  trip: without the price, or when that round trip fails, the request answers
  with an exception although its effect is on file.

Left out: dates, sources, sellers, places and sell prices, which the code
carries along without deciding anything. Prices are a set of values in which
`Negative` and `Fractional` (text that Postgres does not cast to `bigint`) are
marked; which prices are fractional is left open. A Python float always
serialises with a decimal point, so on the wired path (the inward form) every
price is, and only integers or null of an update's dictionary are not.

`StockLedger` has one action per request: `Receive`, `Sell`, `Correct`,
`Erase`, each on the shelf as it is at that instant, each only if the copies
are there. It knows nothing of transactions.

### Nidhi

A member of `Handlers` is one run of an endpoint; `pc` says which round trip
is next, and `txn`, `patch`, `due`, `stamp` are its local variables. `Arrive`
is the request with the checks that need no database. `Afford` is the balance
check of `request_redeem`, `Today` and `Insert` are the two round trips of
`add_transaction`. `CheckContribution`, `CheckRejection`, `CheckReview` are
`_require_pending` and what each decision checks with the row it got.
`Derive`, `Edit` are `update_transaction` called with edits; `CheckFunds` is the
balance check; `MoveMoney` is one call of `adjust_balance`; `Reload`, `Stamp`,
`WriteDecision` are `update_transaction` called with a status. `Fail` ends a
handler between any two round trips.

`moved` is a history variable: what each row has moved so far, per fund.
`adjust_nidhi_balance` is a stored procedure that is not in the repository; it
is an atomic addition, as `contracts/nidhi_repository.py` describes it. Notes
and dates are left out. Fractional amounts, which the code refuses, are left
out of the inputs; `amount`, `fund_type` and `user_id` of a review are kept,
because the domain accepts them, although the endpoint passes only the split.

`Overlap` says which decisions may run at the same time: `"any"`, at most one
per row (`"request"`), or at most one per requester (`"requester"`). The code
enforces none of these; the constant separates what holds under each, so that
a reader sees which serialisation would repair what.

`PaidPerAttempt` is what is left of "once" when handlers fail. `Meant` is what an
approval set out to move and `Attempts` the approvals of a row that are under way or
failed half way: the property bounds what a row has moved by what it was
approved for and one portion for each failed attempt, so that nothing but those
failures costs anybody anything. It does not say that a failed attempt is made
good, because the code has nothing that does.

`NidhiBook` has one step per request raised, corrected, approved or rejected. Who
may decide, what may be corrected and whose balance moves are as the code has
it: the balance of whoever entered the request. Line 2 of `nidhi_domain.py`, and a comment
of the repository, have it otherwise. The book does not take their side, so that
`DecidedAtOnce` is about the one-step character of decisions and about no more;
`UsersBalance` of `Nidhi` is the docstring's claim, and `MCNidhi_whose` refutes it.
The mapping books the money of a request when its status is written: what has
moved for a pending row is taken off the balances (`Settled`). That the funds
cover an approved redemption is no part of the book, because one decision per
row does not secure it (`MCNidhi_overdrawn`).

### Container

A thread makes one call. `stack[t]` holds the calls of `resolve` and the
constructors it has under way, innermost last, over a frame for the request's
own controller (`Request`). Python runs `resolve` step by step: `Peek` and
`Registered` are the reads without the lock, `Acquire` takes the `RLock`,
`Check` looks again, `Inject` is the constructor of an `@injector` class asking
for its next parameter, `Store` and `Read` end it. `held[t]` counts how often
the thread holds the lock. `Raise` unwinds the whole stack, and with it every
`with` block. `Register` (with an instance or with a factory) and `Reset` wait
for the lock; `RegisterNothing` is the `ValueError` of a registration with
neither. `GetClient`, `Connect`, `Create`, `Hand`, `Disconnect` are
`SupabaseDB`, whose `connect` looks at the client and replaces it without a
lock; `configured` says whether address and key are in the environment.

`built` counts the instances of a contract since it was last registered;
`disturbed` and `cut` are the threads whose call overlapped a registration, or
a disconnect: history that the properties refer to. The service itself
registers at import and resets never; the model lets both happen at any time,
because the container offers them. `Layer` says that constructors ask for
contracts deeper than their own, so that the graph of the code has no cycle.

### ReferenceData

A request is one endpoint; `Arrive` is what happens before its first round
trip. `SingleRowRepository` and `FirstRowRepository` are the two ways the
repositories look a name up: `maybe_single`, which errs on two rows (and
`name_available` counts an error as free), and `limit(1)`. The repository pins
no version of the Supabase client, and versions differ in what `maybe_single`
answers for no row, a response without data or `None`, over which the
repositories stumble (`AttributeError`); `MaybeSingle` therefore is a set of
answers. That a query builder still offers `select` after an insert is taken
for granted.

The look at a cache, the fetch and the store are three actions, because
`get_or_set` fetches outside its lock; `clock` ticks between any two of them,
but the HTTP client gives up after `RoundTrip`, so that a fill cannot be older.
`past` and `asked` are history: what a table held until when. `overtaken` and
`raced` record who inserted a name after another had taken it.

### StockAdmin and Reports

`StockAdmin` has the inventory's transactions as single steps (`Receive`,
`Sell`, `Edit`, `Erase`), which is what `AllOrNothing` shows of `Inventory`, beside the
round trips of `StockDomain`: `AdjustStock` reads the row, `Write` writes the
sum that was computed from it, and so for `UpdateCost`, `CreateStock`.
`DeleteStock` deletes the row of a stock id, whatever book it holds by then;
a row that was deleted and created again has another id (`Replaced`).
`AdjustBatch` is the stored procedure. `base` is what no record accounts for
(opening stock and adjustments), `overrun` the books whose row was once written
from a stale reading, or clipped at zero by a batch.

A report of `Reports` is a list of queries, each one round trip (`Ask`), and an
`Answer` that composes what was `seen`. Filters are the code's: a section's own
parameter or else the page's (`ReadFilters`), the viewer's own sales unless he
is an admin (`Pinned`; a viewer named `all` is not pinned, as in
`list_sales_rows`), a lone last day read as that day by the overview
(`OverviewDay`). `Locate`, `Tally`, `Name`, `Total` are the overview, which looks
the names of locations up one by one while they may be renamed (`Relocate`).
Money is counted in whole units. Titles, event names and percentages label
figures and are left out; the code merges top books by title, the model by
book, which is the same as long as titles are unique. All dashboard routes ask
for `dashboard_view`, which admins alone have, so that pinning to the viewer is in
the model and in no property.

`drift` is a history variable: how many copies of each book others have moved
since a report began. `InventoryAddsUp` bounds the error of `initial_stock` by
it: the three queries behind a figure may be torn apart by sales and purchases,
but each copy that moved in between makes it wrong by one at most.

### Access and BookRequests

`Access` has `ROUTE_PERMISSIONS`, `get_current_user` (`Current`) and the status
codes as operators. A token is signed or not, may expire, and names a user and
a role or leaves them out; which secrets a process was started with is open.
`BookRequests` identifies the caller, then looks at the body (`wellFormed`: the
order in which FastAPI reports several defects of one body is left out), then
makes its round trips. A row is stamped by the server (`Create`) before the
database has it (`Insert`), so rows may arrive out of the order of their stamps.
`Approve` writes the status whatever it was; the row it writes has no other
status than pending or fulfilled, because nothing in the service sets one.

## The runs

| Run | Result | Shows |
|---|---|---|
| `MCInventory_mixed` | passes, 168,061 states | three overlapping requests over two books: `Conserved`, `NeverNegative`, `DraftConserved`, `IdsUnique`, `RowsHeld`, `NoDeadlock` (a cycle of waits is always among requests that disagree on the order of the books), and `AllOrNothing`: the committed tables are a behaviour of `StockLedger` |
| `MCInventory_odd` | passes, 12,079 states | two overlapping requests, every way a request can end; `AllOrNothing` again, and `Answered`: every request that began is answered |
| `MCInventory_price` | violated | `AnyPrice`: a validated price makes the RPC raise |
| `MCNidhi_form` | passes, 290,010 states | at most one decision per row: `MovesMatch` (the split columns tell exactly what moved), `SplitSums`, `DecidedIsFinal`, and `DecidedAtOnce`: the handlers implement `NidhiBook` |
| `MCNidhi_requester` | passes, 1,308,771 states | at most one decision per requester, with failures: `NeverOverdrawn`, `StampTrue`, and `PaidPerAttempt`: a row moves more than it was approved for only by what failed attempts had set out to move |
| `MCNidhi_twice` | violated | `MovedOnce`: two overlapping approvals both move the money |
| `MCNidhi_overdrawn` | violated | `NeverOverdrawn`: two redemptions pass the same balance check |
| `MCNidhi_whose` | violated | `UsersBalance`: the money of a request that one person entered for another is taken from, or given to, the one who entered it |
| `MCContainer` | passes, 164,192 states | three threads, a constructor inside a constructor inside a controller: `OneInstance`, `RaisedOnlyIfDisturbed`, `ClientKept`, and `Answered`: no thread waits for ever |
| `MCReferenceData` | passes, 5,303,189 states | every endpoint against a writer and a reader: `FreshEnough` (age of a cached answer), `UniqueUnlessRaced` (how two rows get one name) |
| `MCReports` | passes, 3,138,807 states | reports while the ledger moves: `LedgerMatches` and `NeverNegative` of stock administration; `InventoryAddsUp`, `SectionsAgree`, `OverviewAddsUp`, `SellersKnown` |
| `MCBookRequests` | passes, 727,073 states | `TokenDecides` (a bad token never falls through to plain headers), `FulfilledByAdmin`, `MineComplete` |

**Bounds.** Two books are the least that lock orders and moves between books
need; three transactions are the least for a wait behind a wait and for a
victim whose abort lets one of two others proceed. One purchase on file with
two copies makes every sale, edit and deletion compete for them. Each request
runs once, so the ids it hands out are among `Ids = 0 .. 9`, which bounds only
the mapping to `StockLedger`. The requests of `MCInventory_mixed` include batches
and sales that name the two books in opposite orders and edits both ways, so
that cycles of waits do arise in the run in which `NoDeadlock` says which cannot. For
the funds, three people separate user, requester and
approver; three rows on file, two of them redemptions whose requester can pay
for one at a time from a fund, are the least for a lost check; three handlers
allow a raise and two decisions.

For the container, three contracts in three layers are the least in which a
nested construction needs something another thread is just constructing, and
three threads let one register or reset between two that resolve. For the
reference data, `TTL = RoundTrip = 1` and `End = 3` are the least in which a
stale fill overwrites a younger one and then expires; three requests (anything,
a writer, a third that reads or renames) over four ids make two inserts of one
name race before a third looks. Two locations and two languages share a name from
the start, and the writer may delete one of the languages: that a name held twice
is free again where the lookup wants a single row, so that deleting one of the
rows leaves a pair nobody raced for, is a case of `UniqueUnlessRaced`, which
its inductive invariant asked for. For the reports, one report and three movements
of two books and two locations; the limits of the code's lists (50, 20, 10 and the
like) are `FeedLimit = LeaderboardLimit = 2`, `TopBooksLimit = 3`, so that lists
are cut off in some behaviours and whole in others. Four HTTP requests (two that
create, one that lists, one that approves) with `MineLimit = HistoryLimit = 2`
fill a list and let stamps and rows disagree.

**What the hypotheses of the runs exclude.** A passing run says nothing of what
its constants or its property rule out. In each case another run or a finding
shows what happens there:

| Excluded | By | Where it is shown |
|---|---|---|
| two decisions on one row at a time | `Overlap # "any"` in `MCNidhi_form`, `MCNidhi_requester` | violated in `MCNidhi_twice` |
| a balance that another decision changed between its check and the debit, or between its reading and the stamp | `Overlap = "requester"` in `MCNidhi_requester` | the check: violated in `MCNidhi_overdrawn`; the stamp: not checked without the hypothesis |
| an approval that fails between its money and its status | `MayFail = FALSE` in `MCNidhi_form` | `PaidPerAttempt` in `MCNidhi_requester` bounds it |
| an approval and a rejection of one row at a time (a rejected row whose money moved) | `Overlap # "any"` | no run of its own; the status update is as unconditional as in `MCNidhi_twice` |
| a review without a split after a refused one with a split | one manner for each row in `FormRequests` | "Seen while modelling" below |
| an adjustment written from a stale row; a batch that takes copies of a book without a row | `overrun` in `LedgerMatches` and `InventoryAddsUp` | "Seen while modelling" below; `NeverNegative` holds all the same |
| reports torn by sales between their queries | `drift = 0` in `SectionsAgree` | sections do disagree then; `InventoryAddsUp` bounds the one figure the code computes across queries |
| two inserts of one name that overtake each other | `raced` in `UniqueUnlessRaced` | the property says that nothing else makes duplicates |

**Fairness.** `Inventory` and `Nidhi`: weak fairness of `Step(t)`. The database
goes on executing a transaction it has begun, the server a handler it has
started, and a deadlock detector is part of Postgres. `Container`: weak fairness
of `Resolve(t)` and of `Database(t)`. The interpreter schedules every runnable
thread, and whoever holds the lock is one; waiting for the lock is not assumed
to be fair, but every thread makes one call and then ends, so that the lock does
become free for good. Nothing is assumed of the arrival of requests, of
cancellation or of failures. The liveness properties are `Answered` of
`Inventory` and `Answered` of `Container`; `ReferenceData`, `Reports` and
`BookRequests` state no fairness and no liveness, since a round trip that never
returns is the HTTP client's to give up.

**Deadlock** is checked in the runs of `Inventory`, `Nidhi` and
`ReferenceData`: a state in which every request has been answered stutters
(`Rest`), any other state without a step would be reported. In `Container`,
`Reports` and `BookRequests` the check is off because there each thread or
request makes one call and then ends, so the model stops; that no thread of the
container waits for ever is `Answered`, which does not depend on it.

## Findings

1. `record_inward_stock_batch` casts the text of a price to `bigint`, the
   request model declares it a float (`AnyPrice`).
2. Nidhi decisions are a check, a movement and a status in separate round
   trips, with an unconditional status update: two overlapping approvals move
   the money twice (`MovedOnce`); two redemptions overdraw a fund
   (`NeverOverdrawn`).
3. The docstring of `nidhi_domain.py` (line 2) says that `user_id` is always whose
   balance is affected, and the comment at `supabase_nidhi_repository.py:189`
   has the balance moved "against the possibly-corrected user_id"; the code adjusts the balance of whoever entered the request
   (`UsersBalance`).

Seen while modelling, without a run of their own:

* An approval that failed between its round trips moves the money again when it
  is repeated: nothing records that the first half was done. `PaidPerAttempt` says
  by how much at most.
* `approve_redemption` writes its edits before it checks the funds, so the split
  of a refused review stays on the row. `MCNidhi_form` reviews each row in one
  manner, always with a split or never; where a review without a split follows a
  refused one with a split, other columns are debited than the row tells, and
  `MovesMatch` does not hold.
* The `ValidationError` and `ValueError` of the Nidhi domain have no handler
  (`errors.py` registers those of `core` only), so they answer 500 where
  comments of `api/routers/nidhi.py` say 400.
* The export of sell entries hands on four of the five filters its repository
  wants, which is a `TypeError` on every call; `Reports` answers it so.
* `add_book` of a title on file ends in an `AttributeError` (`ReferenceData`
  answers it so).
* A second adjustment of one book that was read before the first was written
  overwrites it (`overrun` in `LedgerMatches`), and a batch that takes copies
  from a book without a stock row creates one with none.

## The proofs

Every safety property that a passing run checks, but `PaidPerAttempt`, is a theorem of the
specification, for every value of the constants that satisfies the assumptions
named in the modules; where a theorem has a hypothesis of its own the table
gives it. An assumption says what the code secures before the model starts:
sentinels are no data, ids on file are unique and below the sequence, no stock
is negative, rows on file add up (`FileAssumption`), requests have the shape the
validators let through.

**Sums.** `SumOver(S, f)` counts the points above zero less those below, so
that no recursive definition is needed and TLC evaluates the very operator the
proofs are about. `SumsProofs` has what they use: a sum over two disjoint sets, over the
images of a set, over its parts, of two functions, and after a change of one
value. Induction over finite sets is taken in set form (`OneByOne`: a family of
subsets that contains the empty set and grows element by element contains the
whole), because the library's induction theorems take an operator.

### Inventory

For every number of requests, books and prices, every set of calls and every
history:

| Theorem | Statement |
|---|---|
| `TypeCorrect` | `Spec => []TypeOK` |
| `RowsStayHeld` | `Spec => []RowsHeld` |
| `IdsStayUnique` | `Spec => []IdsUnique` |
| `StockConserved` | `Spec => []Conserved` |
| `DraftsConserved` | `Spec => []DraftConserved` |
| `NeverOversold` | `Spec => []NeverNegative` |
| `NeverDeadlocked` | `Spec => []NoDeadlock` |
| `Serialised` | `Spec => AllOrNothing`, if `Nat \subseteq Ids` |

The argument for the first six has two layers. `Shape` is inductive alone:
types, `RowsHeld`, `IdsUnique`, finiteness of the row sets, and `Vetted` (what
is left of a request after validation: the call of a working transaction is not
`Refused`). `RowsHeld` is what lets an edit remove the row it holds and know
that it is still the committed one; `IdsUnique` is what makes the copies of two
rows disjoint. `IInv` adds `Conserved`, `DraftConserved` and `NeverNegative`.
`Conserved` is not inductive by itself: a commit replaces many stock rows at
once, and that this keeps the balance is exactly what `DraftConserved` says of
the transaction that commits; `DraftConserved` in turn needs `Conserved` for
the version a transaction starts from. Copies are counted as the cardinality of
`Units`, a set of pairs of row id and number: adding a row adds `qty` fresh
pairs, removing it takes them away, and rows with different ids have none in
common.

*No deadlock.* `Ascends(t, rank)` says that the lines of a batch name their books
upwards, and that a move of copies goes up from the book the purchase had when it was
locked. `NoDeadlock` says that the requests of a cycle of waits do not ascend in any
common order, whatever other requests are under way, so that of those that do
none is ever ended as a victim. The invariant `InTurn` says that the stock rows
a request holds are of lines it has passed, or of the book it moves copies from. In a cycle
everybody is waited for, so nobody is still at the lock of a purchase row, where
a request holds nothing. Take the request of the cycle whose next stock row ranks
lowest: somebody waits for it, and so wants a row it holds, which ranks lower
still (`NoCycle`).

*Refinement.* `StockLedger` sees the committed tables, which only `Commit`
changes. `OnTrack` says what each transaction has done by then: a batch has
filed its lines so far under ascending ids (`Filed`) and left each stock row as
those lines say (`Drawn`); an edit or a deletion has taken the copies of its old
row (`Halfway`) or replaced it entirely (`Replaced`). `Apart` says that purchases and
sales share no id, which the ledger wants of fresh ones. `ReceiveStep`,
`SellStep`, `CorrectStep` and `EraseStep` show that the commit of each kind of
request is the ledger's action, any other step is a stutter. `Ids` is the set
from which the ledger draws; for TLC it is finite, the theorem wants all of `Nat`.

### Nidhi

For any people, amounts, rows on file and handlers. The hypotheses are those
under which the runs check the properties; without them `MCNidhi_twice` and
`MCNidhi_overdrawn` refute two of them.

| Theorem | Statement | Hypothesis |
|---|---|---|
| `TypeCorrect` | `Spec => []TypeOK` | |
| `SplitsAddUp` | `Spec => []SplitSums` | one decision at a time on a row |
| `DecisionsStand` | `Spec => DecidedIsFinal` | one decision at a time on a row |
| `SplitsTellMoves` | `Spec => []MovesMatch` | and no failures, `OneManner` |
| `MovesOnce` | `Spec => []MovedOnce` | and no failures, `OneManner` |
| `DecisionsAtOnce` | `Spec => DecidedAtOnce` (`NidhiBook`) | and no failures, `OneManner` |
| `FundsLast` | `Spec => []NeverOverdrawn` | one decision at a time for a requester; failures allowed |
| `StampsTell` | `Spec => StampTrue` | one decision at a time for a requester; failures allowed |

"One decision at a time on a row" is `Overlap # "any"`, "for a requester" is
`Overlap = "requester"`. `OneManner` says that a row is always reviewed with a
split or always without one, and that a row on file which is reviewed without
one is on its own fund: what the finding about refused reviews shows to be needed.

`Shape` is types and what each place of a handler entails. `Serial` adds that no
two handlers decide one row (`Alone`), that what a handler has checked and
copied still holds (`Current`), and that the edits it is about to write add up
with what they leave (`Patched`); `SplitSums` is not inductive without `Patched`.
`Unsplit` says that a row nobody splits is on one fund. `Journal` balances a row
under way: what it has moved and what its handler still has to move is what the
row says (`Accounted`), and a row that nobody is approving has moved all or
nothing (`Closed`). Rows approved on file count as having moved what they say,
in `Init`. `Funded` is the same for a requester: no two decisions about his
money (`Sole`), what is still to be taken is there (`Covered`), what was read of
his balance is his balance (`Stamped`). For the refinement, `NidhiPromiseProofs`
shows that each round trip leaves the settled balances alone except
`WriteDecision`, which turns what had moved for a pending row into what an
approved one says; the difference of the two sums is one row's (`SumChange`).

### Container

For every number of threads, every graph of contracts without a cycle
(`LayerAssumption`) and every set of calls (`CallsAssumption`):

| Theorem | Statement |
|---|---|
| `BuiltOnce` | `Spec => []OneInstance` |
| `NobodyStumbles` | `Spec => []RaisedOnlyIfDisturbed` |
| `ClientHandedOut` | `Spec => []ClientKept` |

`Shape` is inductive alone. It says that a stack is well formed (`WellStacked`:
the request at the bottom, below the top only constructors that wait for a
parameter, layers that decrease upwards) and that the thread holds the lock as
often as its stack says (`held[t] = Depth(stack[t])`). Three invariants rest on
it, each inductive relative to `Shape`. `Once` says that one thread at a time
holds the lock (`Alone`), that what is under construction has no instance yet
(`Fresh`), and that what has an instance was built once (`Counted`). The step
that matters is `Store`: the lock excludes constructions of other threads, and
the decreasing layers exclude a second construction of the same contract
further down the same stack, without which re-entrancy would break the claim.
`Known` says that an undisturbed thread finds every contract in one of the two
dictionaries and that what each of its frames has found there stays, which is
why `Store` must leave the factory in place. `ClientHeld` says that a thread at
`hand` has a client unless it was cut off.

### Reference data and the cache

For any names, ids, rows on file (`TablesAssumption`), requests
(`TrafficAssumption`) and times:

| Theorem | Statement |
|---|---|
| `NamesExplained` | `Spec => []UniqueUnlessRaced` |
| `ReadsAreFresh` | `Spec => []FreshEnough` |

`InPlace` says which call a request has at each step, `Orderly` that ids are
counted up and name one row, in what a table holds and has held. For the names,
`FoundFree` says that a request about to insert, and not overtaken, found its
name free and that it still is, unless the table has held it twice. This last
case was not in the property at first, and the proof failed for a good reason:
where the lookup wants a single row, a name held twice is free again for
everybody, so a third row may be inserted without a race, and once one of the
first two is deleted it stands beside the other with nobody having raced for
either. The property now says so, and the run has a table with two rows of one name and a
writer that deletes one. For the cache, everything is "what the key stood for at
some time not before t" (`HeldSince`): `Filling` says it of what a reader has
fetched (since the fetch), `Stored` of an entry (since a round trip before it was
stored), `Served` of an answer (since the ttl and a round trip before it was
asked for).

### Stock administration and reports

For any books, records (`LedgerAssumption`), requests (`TrafficAssumption`) and
limits above zero (`CutOffAssumption`):

| Theorem | Statement |
|---|---|
| `NeverBelowZero` | `Spec => []NeverNegative` |
| `LedgerHolds` | `Spec => []LedgerMatches` |
| `SellersToFilterBy` | `Spec => []SellersKnown` |
| `OpeningFigures` | `Spec => InventoryAddsUp` |
| `SectionsAddUp` | `Spec => []SectionsAgree` |
| `OverviewsAddUp` | `Spec => []OverviewAddsUp` |

`Shape` holds types, the places and what each entails, and that ids name one
record. `Kept` is the first two properties, and with `Shape` inductive: each step
moves a stock row as it moves the base and the records (`Moves`). `Reading` says
how far a report is in its plan (`Read(r, n)`: the first n queries are answered)
and what each answer still tells of the ledger, which is all of it as long as no
book has moved since the report began, and otherwise only that it fitted the
filter and the limit when it was given; `SellersCover` keeps that the sellers
known cover the rows read before them. `SectionsAgree` and `InventoryAddsUp`
follow from it where a report is answered.

`OpeningFigures` is the quantitative one. An opening figure is what is on hand, less
what was bought, and with what was sold, each read by a query of its own. `Near`
says for a report under way that each of the three is either read or still to be read,
and that the figure they will give as things stand (what was read, and for the rest what
is there now) differs from `base` by no more than `drift`. Each step of others moves
the copies of a book in the stock by as much as in the base, the purchases or the
sales, and so moves the figure by no more than it adds to the drift (`NearMoves`, `Nearing`); a query
that reads what is there now leaves it where it is (`NearReads`). `Tallied` is the invariant of an
overview between its lookups: the money of the locations already named is what
the lines by place add up to, and each such line what its volunteers' lines do,
whatever two locations are called by then.

### Book requests

For any calls, users, books, secrets and tokens:

| Theorem | Statement |
|---|---|
| `TokensDecide` | `Spec => []TokenDecides` |
| `AdminsFulfil` | `Spec => []FulfilledByAdmin` |
| `MineIsComplete` | `Spec => []MineComplete` |

`Admitted` (a handler runs only for whom its route admits) makes the first two
inductive. `MineComplete` needs that every row on file when the call came is
there still (`Listing`) and that stamps are numbers (`Dates`), and one fact about
lists cut off at a limit: if a row is missing from the newest n of a finite
set, then the list has n rows at least, and all are as new (`NewestFull`,
`NewestOrder`; of the rows left out one is the latest, since the numbers of rows
later than each have a least).

### Only model-checked

The two properties `Answered` (of `Inventory` and of `Container`): liveness
under fairness is out of the prover's reach. `PaidPerAttempt` of `Nidhi`, for the three
handlers of its run: an invariant would have to follow each failed attempt
separately, and the money of one row through several of them. A violation is
TLC's to show as well. Every other property of a passing run has its theorem.

## Not modelled, and the plan

Left out for good:

* spreadsheets, blob storage, the backup endpoint and start-up: input and
  output without state; modules that nothing imports;
* the decoding of tokens, which a library does; the check of the internal token
  of the pod endpoints, one comparison; the client of the user service, which
  forwards calls;
* `add`, `update` and `delete` of the purchase repository, which nothing calls:
  purchases are written by the stored procedures;
* the lists of Nidhi transactions, which read one table in one round trip;
* the repetition of a POST whose reply was lost, which the code records again at
  once (no request carries an id).

What the plan has left:

1. `StockAdmin` takes the inventory's transactions as single steps. That this is what
   `AllOrNothing` shows rests on reading the two modules side by side; a
   mapping of its ledger to `StockLedger` would state it.
2. `Nidhi` with failures: a proof of `PaidPerAttempt`, and what of `MovesMatch`
   remains for the rows no failed handler has touched.
3. `Access`: that `Current` depends on nothing but the first identity a request
   carries, as a lemma about the operators.
