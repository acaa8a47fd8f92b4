--------------------------- MODULE ReferenceData ---------------------------
(***************************************************************************)
(* The reference tables (books, categories, languages, locations, events,  *)
(* sources), the caches in front of them and the endpoints that read and   *)
(* extend them.                                                            *)
(*                                                                         *)
(* A request is one element of Requests; each of its actions is one round  *)
(* trip to the database, or one look at a cache.  A create asks whether    *)
(* the name is free in one round trip and inserts in another.  A cached    *)
(* read looks at the cache under its lock, fetches without it, and stores  *)
(* what it fetched under the lock again.                                   *)
(***************************************************************************)
EXTENDS Integers, FiniteSets, Sequences

CONSTANTS
    Requests,
    Tables,
    Raw, Names,   \* names as they are posted, and stripped
    Strip,        \* the one a posted name is stripped to
    Blank,        \* what a name of spaces is stripped to
    Thresholds,
    Ids,          \* ids rows may get
    OnFile,       \* the rows of each table before the model starts
    Traffic,      \* the calls each request may be
    TTL,          \* how long a cached value is served
    RoundTrip,    \* the longest a request waits for the database
    End,          \* the model's last moment
    NoRow, Broken, NoEntry, NoCall

All == 0   \* the list of a table, where an id would name one row

\* The rows of a table: books have a threshold.
Row(t) ==
    IF t = "books" THEN [id : Nat, name : Names, threshold : Thresholds \cup {0}]
    ELSE [id : Nat, name : Names]

\* An id names one row, and an identity column has counted those on file.
ASSUME TablesAssumption ==
    /\ Tables = {"books", "categories", "languages", "locations", "events", "sources"}
    /\ Strip \in [Raw -> Names \cup {Blank}] /\ Blank \notin Names
    /\ Ids \subseteq Nat \ {All}
    /\ DOMAIN OnFile = Tables
    /\ \A t \in Tables :
          /\ IsFiniteSet(OnFile[t]) /\ OnFile[t] \subseteq Row(t) /\ NoRow \notin Row(t)
          /\ \A r \in OnFile[t] : r.id \in Ids /\ r.id <= Cardinality(OnFile[t])
          /\ \A r, s \in OnFile[t] : r.id = s.id => r = s
    /\ TTL \in Nat \ {0} /\ RoundTrip \in Nat /\ End \in Nat

VARIABLES
    rows,       \* the rows of each table
    nextId,     \* its identity column
    cache,      \* the entry of each key, in the cache of the key's table
    clock,
    pc, call, reply,
    todo,       \* the keys a request has yet to read
    asked,      \* when it asked the cache, ...
    got, gotAt, \* ... what it fetched and when
    answers,    \* what it was served: key, value and when it asked
    found,      \* the book update_threshold found
    past,       \* what each table held before, and until when
    overtaken,  \* requests whose name was written after they had found it free
    raced       \* rows written by them, or renamed

db   == <<rows, nextId, past, overtaken, raced>>
mine == <<asked, got, gotAt, found>>
vars == <<rows, nextId, cache, clock, pc, call, reply, todo, asked, got, gotAt, answers,
          found, past, overtaken, raced>>

Keys == Tables \X (Ids \cup {All})

\* What a key stands for in a table.
Of(id, table) == {r \in table : id \in {All, r.id}}

-----------------------------------------------------------------------------
(* Repositories: what each call to the database answers, or leaves behind. *)

\* What a query may answer.  maybe_single: the row, or an error when there are
\* several.  When there is none some versions of the client answer None, and the
\* repositories stumble over it.
MaybeSingle(match) ==
    IF Cardinality(match) = 1 THEN match
    ELSE {Broken} \cup (IF match = {} THEN {NoRow} ELSE {})
\* limit(1)
First(match) ==
    IF match = {} THEN {NoRow} ELSE {CHOOSE r \in match : \A s \in match : r.id <= s.id}

Named(t, n) == {r \in rows[t] : r.name = n}

\* A name is free unless one row has it: an error counts as free too.
SingleFree(t, n) == Cardinality(Named(t, n)) # 1

Writes(t) ==
    [insert |-> [n \in Names |-> rows[t] \cup {[id |-> nextId[t], name |-> n]}],
     rename |-> [p \in Ids \X Names |->
                    {IF r.id = p[1] THEN [r EXCEPT !.name = p[2]] ELSE r : r \in rows[t]}],
     delete |-> [i \in Ids |-> {r \in rows[t] : r.id # i}]]

SingleRowRepository(t) ==
    [list  |-> rows[t],
     get   |-> [i \in Ids |-> MaybeSingle({r \in rows[t] : r.id = i})],
     named |-> [n \in Names \cup {Blank} |-> MaybeSingle(Named(t, n))],
     free  |-> [n \in Names |-> SingleFree(t, n)],
     write |-> Writes(t)]

SupabaseCategories == SingleRowRepository("categories")
SupabaseLanguages  == SingleRowRepository("languages")
SupabaseEvents     == SingleRowRepository("events")
SupabaseSources    == SingleRowRepository("sources")

FirstRowRepository(t) ==
    [list  |-> rows[t],
     get   |-> [i \in Ids |-> First({r \in rows[t] : r.id = i})],
     named |-> [n \in Names \cup {Blank} |-> First(Named(t, n))],
     free  |-> [n \in Names |-> Named(t, n) = {}],
     write |-> Writes(t)]

SupabaseLocations == FirstRowRepository("locations")

Threshold(i, q) ==
    {IF r.id = i THEN [r EXCEPT !.threshold = q] ELSE r : r \in rows["books"]}
SupabaseBooks ==
    [FirstRowRepository("books") EXCEPT !.write.insert =
        [n \in Names |->
            rows["books"] \cup {[id |-> nextId["books"], name |-> n, threshold |-> 0]}]]

Repo(t) ==
    [categories |-> SupabaseCategories, languages |-> SupabaseLanguages,
     events |-> SupabaseEvents, sources |-> SupabaseSources,
     locations |-> SupabaseLocations, books |-> SupabaseBooks][t]

-----------------------------------------------------------------------------
(* Endpoints: the calls they make of the domains. *)

Create(t, raw) == [op |-> "create", table |-> t, name |-> Strip[raw], fits |-> TRUE]
Lists(ts) == [op |-> "read", keys |-> [i \in DOMAIN ts |-> <<ts[i], All>>]]
Entry(t, i) == [op |-> "read", keys |-> <<<<t, i>>>>]
Current(t) == [op |-> "list", table |-> t]

\* A category or a language that is no number does not fit the book's row.
AddBook(raw, fits) == [Create("books", raw) EXCEPT !.fits = fits]
AddCategory(raw) == Create("categories", raw)
AddLanguage(raw) == Create("languages", raw)
AddLocation(raw) == Create("locations", raw)
AddEvent(raw)    == Create("events", raw)
AddSource(raw)   == Create("sources", raw)
UpdateBookThreshold(raw, q) ==
    [op |-> "threshold", table |-> "books", name |-> Strip[raw], qty |-> q]
GetMasterData == Lists(<<"books", "categories", "languages", "locations", "events">>)

PostBooks      == {AddBook(raw, fits) : raw \in Raw, fits \in BOOLEAN}
PostThreshold  == {UpdateBookThreshold(raw, q) : raw \in Raw, q \in Thresholds}
PostCategories == {AddCategory(raw) : raw \in Raw}
PostLanguages  == {AddLanguage(raw) : raw \in Raw}
PostLocations  == {AddLocation(raw) : raw \in Raw}
PostEvents     == {AddEvent(raw) : raw \in Raw}
PostSources    == {AddSource(raw) : raw \in Raw}
GetLocations   == {Current("locations")}
GetSources     == {Lists(<<"sources">>)}
InternalEvents == {Lists(<<"events">>)}
GetBooks       == {Lists(<<"books">>)}
GetBookById    == {Entry("books", i) : i \in Ids}

Endpoints ==
    PostBooks \cup PostThreshold \cup PostCategories \cup PostLanguages
    \cup PostLocations \cup PostEvents \cup PostSources \cup {GetMasterData}
    \cup GetLocations \cup GetSources \cup InternalEvents \cup GetBooks \cup GetBookById

\* What the domains offer and no route calls.
Unrouted(t) ==
    {[op |-> "rename", table |-> t, id |-> i, name |-> Strip[raw]] : i \in Ids, raw \in Raw}
    \cup {[op |-> "delete", table |-> t, id |-> i] : i \in Ids}
    \cup {[op |-> "find", table |-> t, name |-> Strip[raw]] : raw \in Raw}
    \cup {Entry(t, i) : i \in Ids}
Ensures == {[op |-> "ensure", table |-> "books", name |-> Strip[raw]] : raw \in Raw}
Maintenance == Ensures \cup UNION {Unrouted(t) : t \in Tables}

ASSUME TrafficAssumption == Traffic \in [Requests -> SUBSET (Endpoints \cup Maintenance)]

Init ==
    /\ rows = OnFile
    /\ nextId = [t \in Tables |-> 1 + Cardinality(OnFile[t])]
    /\ cache = [k \in Keys |-> NoEntry]
    /\ clock = 0
    /\ pc = [r \in Requests |-> "idle"]
    /\ call = [r \in Requests |-> NoCall]
    /\ reply = [r \in Requests |-> "none"]
    /\ todo = [r \in Requests |-> <<>>]
    /\ asked = [r \in Requests |-> 0]
    /\ got = [r \in Requests |-> {}]
    /\ gotAt = [r \in Requests |-> 0]
    /\ answers = {}
    /\ found = [r \in Requests |-> NoRow]
    /\ past = [t \in Tables |-> {}]
    /\ overtaken = {}
    /\ raced = {p \in Tables \X Ids :
                   \E r, s \in OnFile[p[1]] : r.id = p[2] /\ s.id < r.id /\ s.name = r.name}

Arrive(r) ==
    /\ pc[r] = "idle"
    /\ \E c \in Traffic[r] :
          /\ call' = [call EXCEPT ![r] = c]
          /\ pc' = [pc EXCEPT ![r] = c.op]
          /\ todo' = [todo EXCEPT ![r] = IF c.op = "read" THEN c.keys ELSE <<>>]
    /\ UNCHANGED <<db, cache, clock, reply, mine, answers>>

At(r, t, step) == pc[r] = step /\ call[r].table = t
Goto(r, step) == pc' = [pc EXCEPT ![r] = step] /\ UNCHANGED reply
Finish(r, how) ==
    /\ pc' = [pc EXCEPT ![r] = "done"]
    /\ reply' = [reply EXCEPT ![r] = how]

-----------------------------------------------------------------------------
(* Cached reads *)

Reads(r, t, step) == pc[r] = step /\ todo[r] # <<>> /\ Head(todo[r])[1] = t

\* The time is taken before the lock ...
Ask(r, t) ==
    /\ Reads(r, t, "read")
    /\ asked' = [asked EXCEPT ![r] = clock]
    /\ Goto(r, "look")
    /\ UNCHANGED <<db, cache, clock, call, todo, got, gotAt, answers, found>>

\* ... and a value answers until its time has come (mutant: it never does).
HitAlways(entry, now) == entry # NoEntry
Hit(entry, now) == entry # NoEntry /\ entry.until > now

Serve(r, value) ==
    /\ answers' = answers \cup {[key |-> Head(todo[r]), value |-> value, asked |-> asked[r]]}
    /\ todo' = [todo EXCEPT ![r] = Tail(@)]
    /\ asked' = [asked EXCEPT ![r] = 0]
    /\ got' = [got EXCEPT ![r] = {}]
    /\ gotAt' = [gotAt EXCEPT ![r] = 0]
    /\ IF Len(todo[r]) = 1 THEN Finish(r, "ok") ELSE Goto(r, "read")

Look(r, t) ==
    /\ Reads(r, t, "look")
    /\ LET entry == cache[Head(todo[r])]
       IN  IF Hit(entry, asked[r])
           THEN Serve(r, entry.value)
           ELSE Goto(r, "fetch") /\ UNCHANGED <<todo, answers, asked, got, gotAt>>
    /\ UNCHANGED <<db, cache, clock, call, found>>

\* The factory runs outside the lock; when it raises nothing is stored.
Fetch(r, t) ==
    /\ Reads(r, t, "fetch")
    /\ LET id == Head(todo[r])[2]
       IN  \E value \in IF id = All THEN {Repo(t).list} ELSE Repo(t).get[id] :
              /\ got' = [got EXCEPT ![r] = IF id = All THEN value ELSE {value} \ {NoRow}]
              /\ IF value = Broken THEN Finish(r, "error") ELSE Goto(r, "store")
    /\ gotAt' = [gotAt EXCEPT ![r] = clock]
    /\ UNCHANGED <<db, cache, clock, call, todo, asked, answers, found>>

Store(r, t) ==
    /\ Reads(r, t, "store")
    /\ cache' = [cache EXCEPT ![Head(todo[r])] = [until |-> clock + TTL, value |-> got[r]]]
    /\ Serve(r, got[r])
    /\ UNCHANGED <<db, clock, call, found>>

Cached(r, t) == Ask(r, t) \/ Look(r, t) \/ Fetch(r, t) \/ Store(r, t)

-----------------------------------------------------------------------------
(* Commands *)

Write(r, t, table) ==
    /\ rows' = [rows EXCEPT ![t] = table]
    /\ past' = [past EXCEPT ![t] = @ \cup {[was |-> rows[t], until |-> clock]}]
    /\ UNCHANGED <<cache, clock, call, todo, mine, answers>>

\* The creates that have found the name free and have yet to insert it.
Rivals(t, n) == {s \in Requests : At(s, t, "insert") /\ call[s].name = n}

\* A blank name, or one that is taken, is refused.  The books controller then
\* looks for a book with a method the domain does not have (mutant: a name that
\* is taken is no reason to refuse).
Refusal(t) == IF t = "books" THEN "AttributeError" ELSE "ValueError"
RefusedBlank(r, t) == call[r].name = Blank
Refused(r, t) == call[r].name = Blank \/ ~Repo(t).free[call[r].name]

CheckName(r, t) ==
    /\ At(r, t, "create")
    /\ IF Refused(r, t) \/ ~call[r].fits THEN Finish(r, Refusal(t)) ELSE Goto(r, "insert")
    /\ UNCHANGED <<db, cache, clock, call, todo, mine, answers>>

Insert(r, t) ==
    /\ At(r, t, "insert")
    /\ Write(r, t, Repo(t).write.insert[call[r].name])
    /\ nextId' = [nextId EXCEPT ![t] = @ + 1]
    /\ overtaken' = overtaken \cup (Rivals(t, call[r].name) \ {r})
    /\ raced' = IF r \in overtaken THEN raced \cup {<<t, nextId[t]>>} ELSE raced
    /\ Finish(r, "ok")

\* Nobody asks whether the new name is free; the row renamed is read back.
Rename(r, t) ==
    /\ At(r, t, "rename")
    /\ IF call[r].name = Blank
       THEN Finish(r, "ValueError") /\ UNCHANGED <<db, cache, clock, call, todo, mine, answers>>
       ELSE /\ Write(r, t, Repo(t).write.rename[<<call[r].id, call[r].name>>])
            /\ overtaken' = overtaken \cup Rivals(t, call[r].name)
            /\ raced' = raced \cup {<<t, call[r].id>>}
            /\ \E row \in Repo(t).get[call[r].id] :
                  Finish(r, IF row = Broken THEN "error" ELSE "ok")
            /\ UNCHANGED nextId

Delete(r, t) ==
    /\ At(r, t, "delete")
    /\ Write(r, t, Repo(t).write.delete[call[r].id])
    /\ Finish(r, "ok")
    /\ UNCHANGED <<nextId, overtaken, raced>>

Find(r, t) ==
    /\ At(r, t, "find")
    /\ \E row \in Repo(t).named[call[r].name] :
          Finish(r, IF row = Broken THEN "error" ELSE "ok")
    /\ UNCHANGED <<db, cache, clock, call, todo, mine, answers>>

\* Uncached
List(r, t) ==
    /\ At(r, t, "list")
    /\ Finish(r, "ok")
    /\ UNCHANGED <<db, cache, clock, call, todo, mine, answers>>

Domain(r, t) ==
    Cached(r, t) \/ CheckName(r, t) \/ Insert(r, t) \/ Rename(r, t) \/ Delete(r, t) \/ Find(r, t)

CategoriesDomain(r) == Domain(r, "categories")
LanguagesDomain(r)  == Domain(r, "languages")
EventsDomain(r)     == Domain(r, "events")
SourcesDomain(r)    == Domain(r, "sources")
LocationsDomain(r)  == Domain(r, "locations") \/ List(r, "locations")

\* master_data_add_book returns the book that has the title, or adds it.
EnsureBook(r) ==
    /\ At(r, "books", "ensure")
    /\ CASE call[r].name = Blank -> Finish(r, "ValueError")
         [] call[r].name # Blank /\ Repo("books").free[call[r].name] -> Goto(r, "insert")
         [] OTHER -> Finish(r, "ok")
    /\ UNCHANGED <<db, cache, clock, call, todo, mine, answers>>

\* A threshold is set by title, in two round trips.
FindBook(r) ==
    /\ At(r, "books", "threshold")
    /\ \E book \in Repo("books").named[call[r].name] :
           /\ found' = [found EXCEPT ![r] = book]
           /\ IF book = NoRow THEN Finish(r, "ValueError") ELSE Goto(r, "set")
    /\ UNCHANGED <<db, cache, clock, call, todo, asked, got, gotAt, answers>>

SetThreshold(r) ==
    /\ At(r, "books", "set")
    /\ Write(r, "books", Threshold(found[r].id, call[r].qty))
    /\ Finish(r, "ok")
    /\ UNCHANGED <<nextId, overtaken, raced>>

BooksDomain(r) == Domain(r, "books") \/ EnsureBook(r) \/ FindBook(r) \/ SetThreshold(r)

-----------------------------------------------------------------------------

\* The HTTP client gives up after RoundTrip, so what was fetched is stored by then.
Tick ==
    /\ clock < End
    /\ \A r \in Requests : pc[r] = "store" => clock < gotAt[r] + RoundTrip
    /\ clock' = clock + 1
    /\ UNCHANGED <<db, cache, pc, call, reply, todo, mine, answers>>

Rest == (\A r \in Requests : pc[r] = "done") /\ UNCHANGED vars

Next ==
    \/ \E r \in Requests :
          \/ Arrive(r)
          \/ CategoriesDomain(r) \/ LanguagesDomain(r) \/ EventsDomain(r)
          \/ SourcesDomain(r) \/ LocationsDomain(r) \/ BooksDomain(r)
    \/ Tick
    \/ Rest

Spec == Init /\ [][Next]_vars

-----------------------------------------------------------------------------

\* A request that reads through a cache is served what its table held, under the
\* key it asked for, at most TTL and one round trip before it asked: a fill that
\* is overtaken by a write, or by a younger fill, delays the new value by no more.
FreshEnough ==
    \A a \in answers :
        LET table == rows[a.key[1]]
            recent == {p \in past[a.key[1]] : p.until >= a.asked - TTL - RoundTrip}
        IN  \E held \in {table} \cup {p.was : p \in recent} : a.value = Of(a.key[2], held)

\* Of two rows with one name, one was renamed to it, or inserted by a request that
\* another overtook between asking for the name and inserting it.  But where the
\* lookup wants a single row, two rows make the name free again for everybody, and
\* what was inserted then stays beside one of them when the other is deleted.
UniqueUnlessRaced ==
    \A t \in Tables : \A r, s \in rows[t] :
        r.name = s.name /\ r.id < s.id =>
            \/ {<<t, r.id>>, <<t, s.id>>} \cap raced # {}
            \/ /\ t \notin {"locations", "books"}
               /\ \E held \in {rows[t]} \cup {p.was : p \in past[t]} :
                     \E u, v \in held : /\ u # v /\ u.name = s.name /\ v.name = s.name
                                       /\ u.id < s.id /\ v.id < s.id
=============================================================================
