------------------------------ MODULE Reports ------------------------------
(***************************************************************************)
(* What is read off the ledger: the dashboard and its exports, the sell    *)
(* entry page, the inward stock page and the sales overview.  A report is  *)
(* several round trips, and the ledger moves between them.                 *)
(*                                                                         *)
(* A report is a plan, the queries it makes in order, and what it composes *)
(* of their answers.  Titles and the names of events label its rows and    *)
(* change none of its figures: their lookups are left out, but for the     *)
(* names of the locations, by which the overview merges its totals.        *)
(***************************************************************************)
EXTENDS StockAdmin

CONSTANTS
    Events,       \* names of events on file
    Places,       \* ids of locations
    OnMap,        \* the name of each location at the start
    Anybody,      \* no such filter
    Blank,        \* an empty parameter
    Garbled,      \* a date, or a number, that cannot be parsed
    FeedLimit, LeaderboardLimit, TopBooksLimit,
    Gone,         \* the name of a location that was deleted
    NoReport

\* The lists of a dashboard are cut off somewhere.
ASSUME CutOffAssumption == LeaderboardLimit \in Nat \ {0} /\ TopBooksLimit \in Nat \ {0}

VARIABLES
    places,   \* the name of each location
    todo,     \* the queries a report has yet to make
    seen,     \* the answers it has, by their labels
    report,   \* what it composed
    drift     \* the copies of each book that moved while a report was reading

reading == <<todo, seen, report>>
vars == <<stock, purchases, sales, nextId, pc, call, reply, hand, base, overrun,
          noneOnMiss, places, todo, seen, report, drift>>

\* The routes that read in several queries.
DashboardOps == {"dashboard", "leaderboard", "top books", "inventory"}
InwardOps == {"inward page", "inward export"}
ReportOps == DashboardOps \cup InwardOps \cup {"sell page"}

\* The calls that read, and the correction of a location.
IsReportCall(c) ==
    \/ c.op \in DashboardOps /\ c.admin \in BOOLEAN
    \/ c.op \in (ReportOps \ DashboardOps) \cup {"sell export", "overview"}
    \/ c.op = "relocate" /\ c.place \in Places
ASSUME TrafficAssumption ==
    \A r \in Requests : \A c \in Traffic[r] : IsStockCall(c) \/ IsReportCall(c)

-----------------------------------------------------------------------------
(* Filters *)

\* Each section has parameters of its own and falls back on the page's (mutant: it
\* does not).
PickOwn(own, page) == own
Pick(own, page) == IF own # Blank THEN own ELSE page
ReadFilters(params, section) ==
    [from   |-> Pick(params[section].from, params["page"].from),
     to     |-> Pick(params[section].to, params["page"].to),
     seller |-> LET s == Pick(params[section].seller, params["page"].seller)
                IN  IF s = Blank THEN Anybody ELSE s,
     event  |-> LET e == Pick(params[section].event, params["page"].event)
                IN  IF e = Blank THEN Anybody ELSE e,
     place  |-> Anybody]

\* The totals and the top books of whoever is no admin are of his own sales.
Pinned(f, c) == [f EXCEPT !.seller = IF c.admin THEN @ ELSE c.viewer]

During(day, f) ==
    /\ f.from = Blank \/ f.from <= day
    /\ f.to = Blank \/ day <= f.to
\* The overview reads a lone last day as that day only.
OverviewDay(day, f) ==
    CASE f.from # Blank -> During(day, f)
      [] f.from = Blank /\ f.to # Blank -> day = f.to
      [] OTHER -> TRUE

Matches(row, f) ==
    /\ f.seller \in {Anybody, row.seller}
    /\ f.event \in {Anybody, row.event}
    /\ f.place \in {Anybody, row.place}

-----------------------------------------------------------------------------
(* Queries: a label for the answer, and what is asked. *)

Query(label, of, filter, limit) == [label |-> label, of |-> of, filter |-> filter, limit |-> limit]
NoLimit == 0
Everything == [from |-> Blank, to |-> Blank, seller |-> Anybody, event |-> Anybody, place |-> Anybody]

SalesRows(label, f) == Query(label, "sales", f, NoLimit)
Stock == Query("stock", "stock", Everything, NoLimit)
Sellers == Query("sellers", "sellers", Everything, NoLimit)
\* A date that is none counts as not given here.
Known(day) == IF day = Garbled THEN Blank ELSE day
Purchases(f, limit) ==
    Query("purchases", "purchases",
          [from |-> Known(f.from), to |-> Known(f.to), by |-> f.by, book |-> f.book], limit)

\* The rows with the greatest keys, as far as the limit goes; among equals the
\* database, or the order of the rows, decides.
TopOf(S, key, limit) ==
    {T \in SUBSET S : /\ Cardinality(T) = Min({limit, Cardinality(S)})
                      /\ \A x \in T, y \in S \ T : x[key] >= y[key]}
Latest(rows, limit) == IF limit = NoLimit THEN {rows} ELSE TopOf(rows, "day", limit)

QuerySales(q) ==
    Latest({s \in sales : Matches(s, q.filter) /\ During(s.day, q.filter)}, q.limit)
ListFiltered(q) ==
    Latest({p \in purchases : /\ During(p.day, q.filter)
                              /\ q.filter.by \in {Anybody, p.by}
                              /\ q.filter.book \in {Anybody, p.book}}, q.limit)
DistinctSellers == {s.seller : s \in sales}

Results(q) ==
    CASE q.of = "sales" -> QuerySales(q)
      [] q.of = "purchases" -> ListFiltered(q)
      [] q.of = "stock" -> {stock}
      [] q.of = "sellers" -> {DistinctSellers}
\* A dashboard has names of events, and one on file nowhere becomes -1, which no row
\* has, when the client lets its lookup pass; the feed takes what it is given for an
\* id, of a place too.  The database refuses a date that is none, and a name for an id.
Fails(q) ==
    /\ q.of = "sales"
    /\ \/ Garbled \in {q.filter.from, q.filter.to}
       \/ /\ noneOnMiss \/ q.label = "feed"
          /\ q.filter.event \notin Events \cup {Anybody}
       \/ q.filter.place \notin Places \cup {Anybody}

-----------------------------------------------------------------------------
(* What is composed of the answers *)

Revenue(rows) == SumOver(rows, [s \in rows |-> s.qty * s.price])
Cost(rows) == SumOver(rows, [s \in rows |-> s.qty * s.cost])
Copies(rows) == SumOver(rows, [s \in rows |-> s.qty])

Kpis(rows) == [qty |-> Copies(rows), cost |-> Cost(rows), revenue |-> Revenue(rows)]

SellerStats(rows) ==
    {LET own == {s \in rows : s.seller = name}
     IN  [seller |-> name, revenue |-> Revenue(own), qty |-> Copies(own),
          profit |-> Revenue(own) - Cost(own)] : name \in {s.seller : s \in rows}}
Leaderboards(rows) == TopOf(SellerStats(rows), "revenue", LeaderboardLimit)

TopBookEntries(rows) ==
    {LET own == {s \in rows : s.book = b}
     IN  [book |-> b, qty |-> Copies(own), profit |-> Revenue(own) - Cost(own)]
         : b \in {s.book : s \in rows}}
TopBooks(rows) == TopOf(TopBookEntries(rows), "qty", TopBooksLimit)

\* One row per book (mutant: what was sold is taken off again).
InitialTwice(available, received, sold) == available - received - sold
Initial(available, received, sold) == available - received + sold
InventoryRow(b, s) ==
    LET received == {p \in s.purchases : p.book = b}
        sold == {t \in s.sold : t.book = b}
    IN  [available |-> Qty(s.stock[b]),
         received  |-> Copies(received), sold |-> Copies(sold),
         initial   |-> Initial(Qty(s.stock[b]), Copies(received), Copies(sold)),
         spent     |-> Cost(received), profit |-> Revenue(sold) - Cost(sold)]
Inventory(s) == [b \in Books |-> InventoryRow(b, s)]

-----------------------------------------------------------------------------
(* Reports: their plans *)

\* The inventory section reads the sales of all sellers.
InventoryPlan(f) ==
    <<Stock, Purchases([from |-> f.from, to |-> f.to, by |-> Anybody, book |-> Anybody], NoLimit),
      SalesRows("sold", [f EXCEPT !.seller = Anybody])>>

DashboardPlan(c) ==
    <<SalesRows("kpi", Pinned(ReadFilters(c.params, "page"), c))>>
    \o InventoryPlan(ReadFilters(c.params, "inv"))
    \o (IF c.admin THEN <<SalesRows("dist", ReadFilters(c.params, "dist"))>> ELSE <<>>)
    \o <<SalesRows("top", Pinned(ReadFilters(c.params, "books"), c)), Sellers>>

LeaderboardExport(c) == <<SalesRows("dist", ReadFilters(c.params, "dist"))>>
TopBooksExport(c) == <<SalesRows("top", Pinned(ReadFilters(c.params, "books"), c))>>
InventoryExport(c) == InventoryPlan(ReadFilters(c.params, "inv"))

\* The entry page: the recent sales, then the sellers to filter by, then the stock
\* (mutant: the sellers first).
SellPageSellersFirst(c) == <<Sellers, Query("feed", "sales", c.filter, FeedLimit), Stock>>
SellPage(c) == <<Query("feed", "sales", c.filter, FeedLimit), Sellers, Stock>>

InwardPage(c) == <<Purchases(c.filter, FeedLimit)>>
InwardExport(c) == <<Purchases(c.filter, NoLimit)>>

Plan(c) ==
    CASE c.op = "dashboard" -> DashboardPlan(c)
      [] c.op = "leaderboard" -> LeaderboardExport(c)
      [] c.op = "top books" -> TopBooksExport(c)
      [] c.op = "inventory" -> InventoryExport(c)
      [] c.op = "sell page" -> SellPage(c)
      [] c.op = "inward page" -> InwardPage(c)
      [] c.op = "inward export" -> InwardExport(c)
      [] OTHER -> <<>>

\* A book without a stock row is shown none of.
BookStock(s) == [b \in Books |-> Qty(s.stock[b])]
\* Whoever looks is among the sellers to filter by.
SellPageData(c, s) ==
    [feed : {s.feed}, sellers : {s.sellers \cup {c.viewer}}, stock : {BookStock(s)}]

\* The figures, one way for each way the database and the sort may break ties.
Composed(c, s) ==
    CASE c.op = "dashboard" ->
           [kpi : {Kpis(s.kpi)}, inventory : {Inventory(s)},
            leaderboard : IF c.admin THEN Leaderboards(s.dist) ELSE {{}},
            books : TopBooks(s.top), sellers : {s.sellers}]
      [] c.op = "leaderboard" -> [leaderboard : Leaderboards(s.dist)]
      [] c.op = "top books"   -> [books : TopBooks(s.top)]
      [] c.op = "inventory"   -> [inventory : {Inventory(s)}]
      [] c.op = "sell page"   -> SellPageData(c, s)
      [] OTHER -> [purchases : {s.purchases}]

-----------------------------------------------------------------------------
(* Requests *)

ReportInit ==
    /\ StockInit
    /\ places = OnMap
    /\ todo = [r \in Requests |-> <<>>]
    /\ seen = [r \in Requests |-> <<>>]
    /\ report = [r \in Requests |-> NoReport]
    /\ drift = [r \in Requests |-> [b \in Books |-> 0]]

\* The inward pages parse their parameters before they ask anything; the export of
\* the sales passes its filters on one short, and never gets further.
Unparsed(f) == Garbled \in {f.from, f.to, f.book}
OneShort(c) == c.op = "sell export"
BadRequest(c) == OneShort(c) \/ (c.op \in InwardOps /\ Unparsed(c.filter))

Start(c) ==
    IF BadRequest(c) THEN "done"
    ELSE CASE c.op \in ReportOps -> "report"
           [] c.op = "overview" -> IF c.place = Anybody THEN "tally" ELSE "locate"
           [] OTHER -> c.op

Arrive(r) ==
    /\ At(r, "idle")
    /\ \E c \in Traffic[r] :
         /\ call' = [call EXCEPT ![r] = c]
         /\ pc' = [pc EXCEPT ![r] = Start(c)]
         /\ reply' = [reply EXCEPT ![r] = IF BadRequest(c) THEN "error" ELSE @]
         /\ todo' = [todo EXCEPT ![r] = Plan(c)]
    /\ UNCHANGED <<tables, hand, places, seen, report, drift>>

With(answers, label, answer) ==
    [l \in DOMAIN answers \cup {label} |-> IF l = label THEN answer ELSE answers[l]]

\* One query of a report, and its answer.
Ask(r) ==
    /\ At(r, "report") /\ todo[r] # <<>>
    /\ LET q == Head(todo[r])
       IN  IF Fails(q)
           THEN Finish(r, "error") /\ UNCHANGED <<todo, seen>>
           ELSE /\ \E answer \in Results(q) : seen' = [seen EXCEPT ![r] = With(@, q.label, answer)]
                /\ todo' = [todo EXCEPT ![r] = Tail(@)]
                /\ UNCHANGED <<pc, reply>>
    /\ UNCHANGED <<tables, call, hand, places, report, drift>>

Answer(r) ==
    /\ At(r, "report") /\ todo[r] = <<>>
    /\ \E figures \in Composed(call[r], seen[r]) : report' = [report EXCEPT ![r] = figures]
    /\ Finish(r, "ok")
    /\ UNCHANGED <<tables, call, hand, places, todo, seen, drift>>

-----------------------------------------------------------------------------
(* get_sales_overview: the name of a location, the rows, and then the name of  *)
(* every location among them, one round trip each.                             *)

Nothing == [byPlace |-> <<>>, byVolunteer |-> <<>>, total |-> 0]

\* Any location of that name will do.
Locate(r) ==
    LET found == {p \in Places : places[p] = call[r].place}
    IN  /\ At(r, "locate")
        /\ IF found = {}
           THEN /\ report' = [report EXCEPT ![r] = Nothing]
                /\ Finish(r, "ok") /\ UNCHANGED seen
           ELSE /\ \E p \in found : seen' = [seen EXCEPT ![r] = [at |-> p]]
                /\ Goto(r, "tally") /\ UNCHANGED report
        /\ UNCHANGED <<tables, call, hand, places, todo, drift>>

\* Events stay as they are here: the lookup of one is part of this step.
Tally(r) ==
    LET c == call[r]
        rows == {s \in sales : /\ OverviewDay(s.day, c.filter)
                               /\ c.filter.event \in {Anybody, s.event}
                               /\ c.place = Anybody \/ s.place = seen[r].at}
        unknown == c.filter.event \notin Events \cup {Anybody}
    IN  /\ At(r, "tally")
        /\ \/ unknown /\ noneOnMiss /\ Finish(r, "error") /\ UNCHANGED <<seen, report>>
           \/ ~unknown /\ Garbled \in {c.filter.from, c.filter.to}
              /\ Finish(r, "error") /\ UNCHANGED <<seen, report>>
           \/ /\ unknown /\ ~noneOnMiss
              /\ report' = [report EXCEPT ![r] = Nothing]
              /\ Finish(r, "ok") /\ UNCHANGED seen
           \/ /\ ~unknown /\ Garbled \notin {c.filter.from, c.filter.to}
              /\ seen' = [seen EXCEPT ![r] = [rows |-> rows, left |-> {s.place : s \in rows}]]
              /\ report' = [report EXCEPT ![r] = [Nothing EXCEPT !.total = Revenue(rows)]]
              /\ Goto(r, "names")
        /\ UNCHANGED <<tables, call, hand, places, todo, drift>>

\* Locations of one name share a line (mutant: the last one has it).
Line(totals, key) == IF key \in DOMAIN totals THEN totals[key] ELSE 0
Overwritten(totals, amounts) ==
    [k \in DOMAIN totals \cup DOMAIN amounts |->
        IF k \in DOMAIN amounts THEN amounts[k] ELSE totals[k]]
Merged(totals, amounts) ==
    [k \in DOMAIN totals \cup DOMAIN amounts |-> Line(totals, k) + Line(amounts, k)]

NameOf(p) == IF p \in Places THEN places[p] ELSE Gone

Name(r) ==
    /\ At(r, "names")
    /\ \E p \in seen[r].left :
         LET rows == {s \in seen[r].rows : s.place = p}
             name == NameOf(p)
             sellers == {s.seller : s \in rows}
         IN  /\ seen' = [seen EXCEPT ![r].left = @ \ {p}]
             /\ report' = [report EXCEPT
                  ![r].byPlace = Merged(@, [n \in {name} |-> Revenue(rows)]),
                  ![r].byVolunteer = Merged(@, [k \in {name} \X sellers |->
                                                  Revenue({s \in rows : s.seller = k[2]})])]
    /\ UNCHANGED <<tables, pc, call, reply, hand, places, todo, drift>>

Total(r) ==
    /\ At(r, "names") /\ seen[r].left = {}
    /\ Finish(r, "ok")
    /\ UNCHANGED <<tables, call, hand, places, todo, seen, report, drift>>

\* Whoever keeps the locations may rename or delete one at any time.
Relocate(r) ==
    /\ At(r, "relocate")
    /\ places' = [places EXCEPT ![call[r].place] = call[r].name]
    /\ Finish(r, "ok")
    /\ UNCHANGED <<tables, call, hand, todo, seen, report, drift>>

-----------------------------------------------------------------------------

\* By how many copies a step changes what is on hand.
Distance(m, n) == IF m <= n THEN n - m ELSE m - n

Ledger(r) ==
    /\ Transaction(r) \/ StockDomain(r)
    /\ drift' = [q \in Requests |->
                   IF pc[q] = "report"
                   THEN [b \in Books |-> drift[q][b] + Distance(Qty(stock[b]), Qty(stock'[b]))]
                   ELSE drift[q]]
    /\ UNCHANGED <<places, todo, seen, report>>

Overview(r) == Locate(r) \/ Tally(r) \/ Name(r) \/ Total(r)
Next ==
    /\ \E r \in Requests :
          Arrive(r) \/ Ledger(r) \/ Ask(r) \/ Answer(r) \/ Overview(r) \/ Relocate(r)
    /\ UNCHANGED noneOnMiss
Spec == ReportInit /\ [][Next]_vars

-----------------------------------------------------------------------------

Reads(r, part) == reply[r] = "ok" /\ call[r].op \in ReportOps /\ part \in DOMAIN report[r]
NoFilter == [p \in {"from", "to", "seller", "event"} |-> Blank]
AllTime(c) == LET f == ReadFilters(c.params, "inv")
              IN  f.from = Blank /\ f.to = Blank /\ f.event = Anybody

\* The opening figure of an inventory of all time is what the book had beside its
\* records, give or take the copies that moved between its three queries, unless a
\* write of its row was lost: nothing is off by more than what others did meanwhile.
InventoryAddsUp ==
    [][\A r \in Requests :
         /\ call[r] # NoCall /\ call[r].op \in {"dashboard", "inventory"}
         /\ AllTime(call[r]) /\ report'[r] # report[r]
         => \A b \in Books \ overrun :
                Distance(report'[r].inventory[b].initial, base[b]) <= drift[r][b]]_vars

\* The sections of a dashboard that all have the page's filters agree, when nothing
\* was sold or received while it was read: the copies sold of all books and the
\* copies of the top books are those of the totals, and the money of the leaders is
\* theirs, as long as the lists are not cut off.
SectionsAgree ==
    \A r \in Requests :
        /\ Reads(r, "kpi") /\ \A b \in Books : drift[r][b] = 0
        /\ \A section \in {"dist", "books", "inv"} : call[r].params[section] = NoFilter
        => LET out == report[r]
           IN  /\ Cardinality(out.books) < TopBooksLimit =>
                     SumOver(out.books, [e \in out.books |-> e.qty]) = out.kpi.qty
               /\ call[r].admin /\ Cardinality(out.leaderboard) < LeaderboardLimit =>
                     SumOver(out.leaderboard, [e \in out.leaderboard |-> e.revenue])
                        = out.kpi.revenue
               /\ call[r].admin /\ call[r].params["page"].seller = Blank =>
                     SumOver(Books, [b \in Books |-> out.inventory[b].sold]) = out.kpi.qty

\* The totals of an overview by location, and by location and volunteer, add up to
\* its total, though a location is renamed, or deleted, between the rows and the
\* lookups of their names.
OverviewAddsUp ==
    \A r \in Requests :
        /\ reply[r] = "ok" /\ call[r].op = "overview"
        => LET o == report[r]
               of(n) == {k \in DOMAIN o.byVolunteer : k[1] = n}
           IN  /\ SumOver(DOMAIN o.byPlace, o.byPlace) = o.total
               /\ \A n \in DOMAIN o.byPlace : SumOver(of(n), o.byVolunteer) = o.byPlace[n]

\* Every seller the page shows a sale of, or a dashboard a rank, is among the sellers
\* to filter by, whoever sold meanwhile.
SellersKnown ==
    \A r \in Requests :
        Reads(r, "sellers") =>
            LET shown == IF "feed" \in DOMAIN report[r] THEN report[r].feed
                         ELSE report[r].leaderboard
            IN  {s.seller : s \in shown} \subseteq report[r].sellers
=============================================================================
