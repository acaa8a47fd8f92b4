------------------------ MODULE ReferenceDataProofs ------------------------
(* Proofs about ReferenceData, for any tables, names, calls and times. *)
EXTENDS ReferenceData, FiniteSetTheorems, SequenceTheorems, TLAPS

-----------------------------------------------------------------------------
(* Calls *)

\* The steps of a read, the names a call may have, and the calls there are.
ReadSteps == {"read", "look", "fetch", "store"}
Stripped == Names \cup {Blank}
IsCall(c) ==
    \/ c.op = "read" /\ c.keys \in Seq(Keys)
    \/ c.op \in {"create", "find"} /\ c.table \in Tables /\ c.name \in Stripped
    \/ c.op = "rename" /\ c.table \in Tables /\ c.id \in Ids /\ c.name \in Stripped
    \/ c.op = "delete" /\ c.table \in Tables /\ c.id \in Ids
    \/ c.op = "ensure" /\ c.table = "books" /\ c.name \in Stripped
    \/ c.op = "threshold" /\ c.table = "books" /\ c.name \in Stripped /\ c.qty \in Thresholds
    \/ c.op = "list" /\ c.table \in Tables

\* The keys of a read are in sequence.
LEMMA ReadCalls ==
    /\ \A t \in Tables : IsCall(Lists(<<t>>))
    /\ \A t \in Tables, i \in Ids : IsCall(Entry(t, i))
    /\ IsCall(GetMasterData)
<1>1. All \in Ids \cup {All}
  OBVIOUS
<1>2. ASSUME NEW t \in Tables PROVE IsCall(Lists(<<t>>))
  <2>1. <<t, All>> \in Keys
    BY <1>1 DEF Keys
  <2>2. [i \in DOMAIN <<t>> |-> <<<<t>>[i], All>>] = <<<<t, All>>>>
    OBVIOUS
  <2>3. <<<<t, All>>>> \in Seq(Keys)
    BY <2>1
  <2>4. QED BY <2>2, <2>3 DEF IsCall, Lists
<1>3. ASSUME NEW t \in Tables, NEW i \in Ids PROVE IsCall(Entry(t, i))
  <2>1. <<t, i>> \in Keys
    BY DEF Keys
  <2>2. <<<<t, i>>>> \in Seq(Keys)
    BY <2>1
  <2>3. QED BY <2>2 DEF IsCall, Entry
<1>4. IsCall(GetMasterData)
  <2> PICK ts : ts = <<"books", "categories", "languages", "locations", "events">>
    OBVIOUS
  <2>1. DOMAIN ts = 1 .. 5 /\ \A i \in 1 .. 5 : ts[i] \in Tables
    BY TablesAssumption
  <2>2. \A i \in 1 .. 5 : <<ts[i], All>> \in Keys
    BY <1>1, <2>1 DEF Keys
  <2>3. [i \in DOMAIN ts |-> <<ts[i], All>>] \in Seq(Keys)
    BY <2>1, <2>2
  <2>4. QED BY <2>3 DEF IsCall, GetMasterData, Lists
<1>5. QED BY <1>2, <1>3, <1>4

\* Whatever is asked is one of the calls.
LEMMA TrafficCalls ==
    ASSUME NEW r \in Requests, NEW c \in Traffic[r] PROVE IsCall(c)
<1>1. c \in Endpoints \cup Maintenance
  BY TrafficAssumption
<1>2. \A raw \in Raw : Strip[raw] \in Stripped
  BY TablesAssumption DEF Stripped
<1>3. ASSUME NEW t \in Tables, NEW raw \in Raw PROVE IsCall(Create(t, raw))
  BY <1>2 DEF Create, IsCall
<1>4. ASSUME NEW raw \in Raw, NEW fits \in BOOLEAN PROVE IsCall(AddBook(raw, fits))
  <2>1. AddBook(raw, fits) = [op |-> "create", table |-> "books", name |-> Strip[raw], fits |-> fits]
    BY DEF AddBook, Create
  <2>2. QED BY <1>2, <2>1, TablesAssumption DEF IsCall
<1>5. ASSUME NEW raw \in Raw, NEW q \in Thresholds PROVE IsCall(UpdateBookThreshold(raw, q))
  BY <1>2 DEF UpdateBookThreshold, IsCall
<1>6. CASE c \in Endpoints
  <2>1. CASE c \in PostBooks
    BY <1>4, <2>1 DEF PostBooks
  <2>2. CASE c \in PostThreshold
    BY <1>5, <2>2 DEF PostThreshold
  <2>3. CASE c \in PostCategories \cup PostLanguages \cup PostLocations \cup PostEvents \cup PostSources
    BY <1>3, <2>3, TablesAssumption DEF PostCategories, PostLanguages, PostLocations, PostEvents,
       PostSources, AddCategory, AddLanguage, AddLocation, AddEvent, AddSource
  <2>4. CASE c \in {GetMasterData} \cup GetSources \cup InternalEvents \cup GetBooks \cup GetBookById
    BY <2>4, ReadCalls, TablesAssumption DEF GetSources, InternalEvents, GetBooks, GetBookById
  <2>5. CASE c \in GetLocations
    BY <2>5, TablesAssumption DEF GetLocations, Current, IsCall
  <2>6. QED BY <1>6, <2>1, <2>2, <2>3, <2>4, <2>5 DEF Endpoints
<1>7. ASSUME NEW t \in Tables, c \in Unrouted(t) PROVE IsCall(c)
  <2>1. \A i \in Ids, raw \in Raw :
           IsCall([op |-> "rename", table |-> t, id |-> i, name |-> Strip[raw]])
    BY <1>2 DEF IsCall
  <2>2. \A i \in Ids : IsCall([op |-> "delete", table |-> t, id |-> i])
    BY DEF IsCall
  <2>3. \A raw \in Raw : IsCall([op |-> "find", table |-> t, name |-> Strip[raw]])
    BY <1>2 DEF IsCall
  <2>4. \A i \in Ids : IsCall(Entry(t, i))
    BY ReadCalls
  <2>5. QED BY <1>7, <2>1, <2>2, <2>3, <2>4 DEF Unrouted
<1>8. ASSUME c \in Ensures PROVE IsCall(c)
  <2>1. \A raw \in Raw : IsCall([op |-> "ensure", table |-> "books", name |-> Strip[raw]])
    BY <1>2 DEF IsCall
  <2>2. QED BY <1>8, <2>1 DEF Ensures
<1>9. QED BY <1>1, <1>6, <1>7, <1>8 DEF Maintenance

-----------------------------------------------------------------------------
(* Repositories *)

\* The tables whose repository reads the first row of those that fit.
FirstRow == {"locations", "books"}

\* The row an insert adds.
NewRow(t, n) ==
    IF t = "books" THEN [id |-> nextId[t], name |-> n, threshold |-> 0]
    ELSE [id |-> nextId[t], name |-> n]

\* The rows an id names.
Fitting(t, i) == {r \in rows[t] : r.id = i}

\* A row, after row i was given the name n.
Renamed(r, i, n) == IF r.id = i THEN [r EXCEPT !.name = n] ELSE r

\* The repositories answer and write one way, but for the tables that read first rows.
LEMMA Repositories ==
    ASSUME NEW t \in Tables
    PROVE  /\ Repo(t).list = rows[t]
           /\ \A i \in Ids : Repo(t).get[i] \in {MaybeSingle(Fitting(t, i)), First(Fitting(t, i))}
           /\ t = "books" => \A n \in Stripped : Repo(t).named[n] = First(Named(t, n))
           /\ \A n \in Names : Repo(t).free[n] <=>
                 IF t \in FirstRow THEN Named(t, n) = {} ELSE SingleFree(t, n)
           /\ \A n \in Names : Repo(t).write.insert[n] = rows[t] \cup {NewRow(t, n)}
           /\ \A i \in Ids, n \in Names :
                 Repo(t).write.rename[<<i, n>>] = {Renamed(r, i, n) : r \in rows[t]}
           /\ \A i \in Ids : Repo(t).write.delete[i] = {r \in rows[t] : r.id # i}
<1>1. ASSUME NEW u PROVE
           /\ \A n \in Names : Writes(u).insert[n] = rows[u] \cup {[id |-> nextId[u], name |-> n]}
           /\ \A i \in Ids, n \in Names :
                 Writes(u).rename[<<i, n>>] = {Renamed(r, i, n) : r \in rows[u]}
           /\ \A i \in Ids : Writes(u).delete[i] = {r \in rows[u] : r.id # i}
  <2>1. \A i \in Ids, n \in Names : <<i, n>> \in Ids \X Names /\ <<i, n>>[1] = i /\ <<i, n>>[2] = n
    OBVIOUS
  <2>2. \A p \in Ids \X Names :
           Writes(u).rename[p]
             = {IF r.id = p[1] THEN [r EXCEPT !.name = p[2]] ELSE r : r \in rows[u]}
    BY DEF Writes
  <2>3. ASSUME NEW i \in Ids, NEW n \in Names
        PROVE  Writes(u).rename[<<i, n>>] = {Renamed(r, i, n) : r \in rows[u]}
    BY <2>1, <2>2 DEF Renamed
  <2>4. QED BY <2>3 DEF Writes
<1>2. CASE t \notin FirstRow
  <2>1. Repo(t) = SingleRowRepository(t)
    BY <1>2, TablesAssumption DEF Repo, FirstRow, SupabaseCategories, SupabaseLanguages,
       SupabaseEvents, SupabaseSources
  <2>2. QED BY <1>1, <1>2, <2>1 DEF SingleRowRepository, Fitting, NewRow, FirstRow
<1>3. ASSUME NEW u PROVE
           /\ FirstRowRepository(u).list = rows[u]
           /\ \A i \in Ids : FirstRowRepository(u).get[i] = First(Fitting(u, i))
           /\ \A n \in Stripped : FirstRowRepository(u).named[n] = First(Named(u, n))
           /\ \A n \in Names : FirstRowRepository(u).free[n] <=> Named(u, n) = {}
           /\ FirstRowRepository(u).write = Writes(u)
  <2>1. \A i \in Ids : FirstRowRepository(u).get[i] = First(Fitting(u, i))
    BY DEF FirstRowRepository, Fitting
  <2>2. \A n \in Stripped : FirstRowRepository(u).named[n] = First(Named(u, n))
    BY DEF FirstRowRepository, Stripped
  <2>3. \A n \in Names : FirstRowRepository(u).free[n] <=> Named(u, n) = {}
    BY DEF FirstRowRepository
  <2>4. FirstRowRepository(u).list = rows[u] /\ FirstRowRepository(u).write = Writes(u)
    BY DEF FirstRowRepository
  <2>5. QED BY <2>1, <2>2, <2>3, <2>4
<1>4. CASE t \in FirstRow
  <2>1. CASE t = "locations"
    <3>1. Repo(t) = FirstRowRepository(t)
      BY <2>1 DEF Repo, SupabaseLocations
    <3>2. \A n : NewRow(t, n) = [id |-> nextId[t], name |-> n]
      BY <2>1 DEF NewRow
    <3>3. \A n \in Names : Repo(t).free[n] <=>
             IF t \in FirstRow THEN Named(t, n) = {} ELSE SingleFree(t, n)
      BY ONLY <1>3, <1>4, <3>1
    <3>4. /\ Repo(t).list = rows[t]
          /\ \A i \in Ids : Repo(t).get[i] \in {MaybeSingle(Fitting(t, i)), First(Fitting(t, i))}
      BY ONLY <1>3, <3>1
    <3>5. QED BY ONLY <1>1, <1>3, <2>1, <3>1, <3>2, <3>3, <3>4
  <2>2. CASE t = "books"
    <3> PICK R : R = FirstRowRepository(t)
      OBVIOUS
    <3> PICK W : W = Writes(t)
      OBVIOUS
    <3> PICK X : X = [n \in Names |->
                        rows["books"] \cup {[id |-> nextId["books"], name |-> n, threshold |-> 0]}]
      OBVIOUS
    <3>1. Repo(t) = [R EXCEPT !.write.insert = X]
      BY <2>2 DEF Repo, SupabaseBooks
    <3>2. R = [list |-> R.list, get |-> R.get, named |-> R.named, free |-> R.free, write |-> W]
      BY DEF FirstRowRepository
    <3>3. W = [insert |-> W.insert, rename |-> W.rename, delete |-> W.delete]
      BY DEF Writes
    <3>4. /\ Repo(t).list = R.list /\ Repo(t).get = R.get /\ Repo(t).named = R.named
          /\ Repo(t).free = R.free
          /\ Repo(t).write.rename = W.rename /\ Repo(t).write.delete = W.delete
          /\ Repo(t).write.insert = X
      BY ONLY <3>1, <3>2, <3>3
    <3>5. \A n \in Names : Repo(t).write.insert[n] = rows[t] \cup {NewRow(t, n)}
      BY <2>2, <3>4 DEF NewRow
    <3>6. \A n \in Names : Repo(t).free[n] <=>
             IF t \in FirstRow THEN Named(t, n) = {} ELSE SingleFree(t, n)
      BY ONLY <1>3, <1>4, <3>4, R = FirstRowRepository(t)
    <3>7. /\ Repo(t).list = rows[t]
          /\ \A i \in Ids : Repo(t).get[i] \in {MaybeSingle(Fitting(t, i)), First(Fitting(t, i))}
          /\ \A n \in Stripped : Repo(t).named[n] = First(Named(t, n))
      BY ONLY <1>3, <3>4, R = FirstRowRepository(t)
    <3>8. QED BY ONLY <1>1, <3>4, <3>5, <3>6, <3>7, W = Writes(t)
  <2>3. QED BY <1>4, <2>1, <2>2 DEF FirstRow
<1>5. QED BY <1>2, <1>4

-----------------------------------------------------------------------------
(* Steps *)

\* The steps that write a table, those that leave all of them alone, and all there are.
Writing(r, t) == Insert(r, t) \/ Rename(r, t) \/ Delete(r, t) \/ (t = "books" /\ SetThreshold(r))
Standing(r, t) ==
    Arrive(r) \/ Cached(r, t) \/ CheckName(r, t) \/ Find(r, t) \/ List(r, t) \/ EnsureBook(r)
    \/ FindBook(r)

\* Every step is a request's, at one table, or the clock's.
LEMMA Steps ==
    ASSUME [Next]_vars
    PROVE  \/ \E r \in Requests, t \in Tables : Writing(r, t) \/ Standing(r, t)
           \/ Tick
           \/ UNCHANGED vars
<1>1. ASSUME NEW r \in Requests, NEW t \in Tables, Domain(r, t)
      PROVE  Writing(r, t) \/ Standing(r, t)
  BY <1>1 DEF Domain, Writing, Standing
<1>2. "books" \in Tables /\ "locations" \in Tables /\ "categories" \in Tables
      /\ "languages" \in Tables /\ "events" \in Tables /\ "sources" \in Tables
  BY TablesAssumption
<1>3. ASSUME NEW r \in Requests, BooksDomain(r) PROVE Writing(r, "books") \/ Standing(r, "books")
  BY <1>1, <1>2, <1>3 DEF BooksDomain, Writing, Standing
<1>4. ASSUME NEW r \in Requests, LocationsDomain(r)
      PROVE  Writing(r, "locations") \/ Standing(r, "locations")
  BY <1>1, <1>2, <1>4 DEF LocationsDomain, Writing, Standing
<1>5. ASSUME NEW r \in Requests,
             CategoriesDomain(r) \/ LanguagesDomain(r) \/ EventsDomain(r) \/ SourcesDomain(r)
      PROVE  \E t \in Tables : Writing(r, t) \/ Standing(r, t)
  BY <1>1, <1>2, <1>5 DEF CategoriesDomain, LanguagesDomain, EventsDomain, SourcesDomain
<1>6. ASSUME NEW r \in Requests, Arrive(r) PROVE Standing(r, "books")
  BY <1>6 DEF Standing
<1>7. ASSUME NEW r \in Requests,
             \/ Arrive(r)
             \/ CategoriesDomain(r) \/ LanguagesDomain(r) \/ EventsDomain(r)
             \/ SourcesDomain(r) \/ LocationsDomain(r) \/ BooksDomain(r)
      PROVE  \E t \in Tables : Writing(r, t) \/ Standing(r, t)
  BY <1>2, <1>3, <1>4, <1>5, <1>6, <1>7
<1>8. QED BY <1>7 DEF Next, Rest

-----------------------------------------------------------------------------
(* Where a request can be, and with which call *)

\* The first steps of the commands.
Entrances == {"create", "find", "rename", "delete", "ensure", "threshold", "list"}

\* The variables are functions of the tables, the keys and the requests.
Functions ==
    /\ DOMAIN rows = Tables /\ DOMAIN nextId = Tables /\ DOMAIN past = Tables
    /\ DOMAIN cache = Keys
    /\ DOMAIN pc = Requests /\ DOMAIN call = Requests /\ DOMAIN todo = Requests
    /\ DOMAIN asked = Requests /\ DOMAIN got = Requests /\ DOMAIN gotAt = Requests
    /\ DOMAIN found = Requests

\* A request takes the steps of its own call: the rest of its keys in a read, a name
\* that is no blank when it inserts, a threshold when it sets one.
Placed(r) ==
    /\ pc[r] # "idle" => IsCall(call[r])
    /\ pc[r] \in Entrances => call[r].op = pc[r]
    /\ pc[r] \in ReadSteps => todo[r] \in Seq(Keys)
    /\ pc[r] = "insert" => call[r].op \in {"create", "ensure"} /\ call[r].name \in Names
    /\ pc[r] = "set" => call[r].op = "threshold"
InPlace == Functions /\ \A r \in Requests : Placed(r)

\* A step keeps every variable a function of what it was one of.
LEMMA FunctionsStay ==
    ASSUME Functions, [Next]_vars PROVE Functions'
<1>1. ASSUME NEW r \in Requests, NEW t \in Tables, Writing(r, t) PROVE Functions'
  <2>1. CASE Insert(r, t)
    BY <2>1 DEF Functions, Insert, Write, Finish, mine
  <2>2. CASE Rename(r, t)
    BY <2>2 DEF Functions, Rename, Write, Finish, mine, db
  <2>3. CASE Delete(r, t)
    BY <2>3 DEF Functions, Delete, Write, Finish, mine
  <2>4. CASE SetThreshold(r)
    BY <2>4 DEF Functions, SetThreshold, Write, Finish, mine
  <2>5. QED BY <1>1, <2>1, <2>2, <2>3, <2>4 DEF Writing
<1>2. ASSUME NEW r \in Requests, NEW t \in Tables, Standing(r, t) PROVE Functions'
  <2>1. CASE Arrive(r)
    BY <2>1 DEF Functions, Arrive, db, mine
  <2>2. CASE Ask(r, t)
    BY <2>2 DEF Functions, Ask, Goto, db
  <2>3. CASE Look(r, t)
    BY <2>3 DEF Functions, Look, Serve, Goto, Finish, db
  <2>4. CASE Fetch(r, t)
    BY <2>4 DEF Functions, Fetch, Goto, Finish, db
  <2>5. CASE Store(r, t)
    BY <2>5 DEF Functions, Store, Serve, Goto, Finish, db
  <2>6. CASE CheckName(r, t) \/ Find(r, t) \/ List(r, t) \/ EnsureBook(r)
    BY <2>6 DEF Functions, CheckName, Find, List, EnsureBook, Goto, Finish, db, mine
  <2>7. CASE FindBook(r)
    BY <2>7 DEF Functions, FindBook, Goto, Finish, db
  <2>8. QED BY <1>2, <2>1, <2>2, <2>3, <2>4, <2>5, <2>6, <2>7 DEF Standing, Cached
<1>3. CASE Tick \/ UNCHANGED vars
  BY <1>3 DEF Functions, Tick, vars, db, mine
<1>4. QED BY <1>1, <1>2, <1>3, Steps

\* A step leaves the other requests where they are.
LEMMA OthersStay ==
    ASSUME Functions, NEW r \in Requests, NEW t \in Tables, Writing(r, t) \/ Standing(r, t),
           NEW s \in Requests, s # r
    PROVE  /\ pc'[s] = pc[s] /\ call'[s] = call[s] /\ todo'[s] = todo[s]
           /\ asked'[s] = asked[s] /\ got'[s] = got[s] /\ gotAt'[s] = gotAt[s]
<1>1. CASE Writing(r, t)
  BY <1>1 DEF Writing, Insert, Rename, Delete, SetThreshold, Write, Finish, db, mine, Functions
<1>2. CASE Arrive(r) \/ CheckName(r, t) \/ Find(r, t) \/ List(r, t) \/ EnsureBook(r) \/ FindBook(r)
  BY <1>2 DEF Arrive, CheckName, Find, List, EnsureBook, FindBook, Goto, Finish, db, mine, Functions
<1>3. CASE Ask(r, t) \/ Fetch(r, t)
  BY <1>3 DEF Ask, Fetch, Goto, Finish, Functions
<1>4. CASE Look(r, t) \/ Store(r, t)
  BY <1>4 DEF Look, Store, Serve, Goto, Finish, Functions
<1>5. QED BY <1>1, <1>2, <1>3, <1>4 DEF Standing, Cached

\* The request that takes the step is in its place too.
LEMMA StepInPlace ==
    ASSUME InPlace, NEW r \in Requests, NEW t \in Tables, Writing(r, t) \/ Standing(r, t)
    PROVE  Placed(r)'
<1> USE DEF Entrances, ReadSteps
<1>1. CASE Writing(r, t)
  <2>1. pc'[r] = "done" /\ call'[r] = call[r] /\ pc[r] # "idle"
    BY <1>1 DEF Writing, Insert, Rename, Delete, SetThreshold, Write, Finish, db, mine, At,
       InPlace, Functions
  <2>2. QED BY <2>1 DEF Placed, InPlace
<1>2. CASE Arrive(r)
  <2>1. PICK c \in Traffic[r] :
           /\ call'[r] = c /\ pc'[r] = c.op
           /\ c.op = "read" => todo'[r] = c.keys
    BY <1>2 DEF Arrive, InPlace, Functions
  <2>2. IsCall(c)
    BY TrafficCalls
  <2>3. QED BY <2>1, <2>2 DEF Placed, IsCall
<1>3. CASE Ask(r, t) \/ Fetch(r, t)
  <2>1. /\ pc[r] \in ReadSteps /\ call'[r] = call[r] /\ todo'[r] = todo[r]
        /\ pc'[r] \in {"look", "store", "done"}
    BY <1>3 DEF Ask, Fetch, Goto, Finish, Reads, InPlace, Functions
  <2>2. QED BY <2>1 DEF Placed, InPlace
<1>4. CASE Look(r, t) \/ Store(r, t)
  <2>1. /\ pc[r] \in ReadSteps /\ call'[r] = call[r] /\ todo[r] # <<>>
        /\ pc'[r] \in {"read", "fetch", "done"}
        /\ todo'[r] \in {todo[r], Tail(todo[r])}
    BY <1>4 DEF Look, Store, Serve, Goto, Finish, Reads, InPlace, Functions
  <2>2. todo'[r] \in Seq(Keys)
    BY <2>1 DEF Placed, InPlace
  <2>3. QED BY <2>1, <2>2 DEF Placed, InPlace
<1>5. CASE Find(r, t) \/ List(r, t)
  <2>1. pc'[r] = "done" /\ call'[r] = call[r] /\ pc[r] # "idle"
    BY <1>5 DEF Find, List, Finish, At, InPlace, Functions
  <2>2. QED BY <2>1 DEF Placed, InPlace
<1>6. CASE CheckName(r, t) \/ EnsureBook(r)
  <2>1. /\ call'[r] = call[r] /\ pc[r] \in {"create", "ensure"}
        /\ pc'[r] = "done" \/ (pc'[r] = "insert" /\ call[r].name # Blank)
    BY <1>6 DEF CheckName, EnsureBook, Refused, Goto, Finish, At, InPlace, Functions
  <2>2. IsCall(call[r]) /\ call[r].op = pc[r]
    BY <2>1 DEF Placed, InPlace
  <2>3. call[r].name \in Stripped
    BY <2>1, <2>2 DEF IsCall
  <2>4. QED BY <2>1, <2>2, <2>3 DEF Placed, Stripped
<1>7. CASE FindBook(r)
  <2>1. call'[r] = call[r] /\ pc[r] = "threshold" /\ pc'[r] \in {"set", "done"}
    BY <1>7 DEF FindBook, Goto, Finish, At, InPlace, Functions
  <2>2. QED BY <2>1 DEF Placed, InPlace
<1>8. QED BY <1>1, <1>2, <1>3, <1>4, <1>5, <1>6, <1>7 DEF Standing, Cached

\* Every request is in its place, always.
LEMMA StaysInPlace == Spec => []InPlace
<1>1. Init => InPlace
  BY TablesAssumption DEF Init, InPlace, Functions, Placed, Entrances, ReadSteps
<1>2. ASSUME InPlace, [Next]_vars PROVE InPlace'
  <2>1. Functions'
    BY <1>2, FunctionsStay DEF InPlace
  <2>2. ASSUME NEW s \in Requests PROVE Placed(s)'
    <3>1. ASSUME NEW r \in Requests, NEW t \in Tables, Writing(r, t) \/ Standing(r, t), s # r
          PROVE  Placed(s)'
      BY <1>2, <3>1, OthersStay DEF InPlace, Placed
    <3>2. ASSUME NEW t \in Tables, Writing(s, t) \/ Standing(s, t) PROVE Placed(s)'
      BY <1>2, <3>2, StepInPlace
    <3>3. CASE Tick \/ UNCHANGED vars
      BY <1>2, <3>3 DEF Tick, vars, db, mine, InPlace, Placed
    <3>4. QED BY <1>2, <3>1, <3>2, <3>3, Steps
  <2>3. QED BY <2>1, <2>2 DEF InPlace
<1>3. QED BY <1>1, <1>2, PTL DEF Spec

-----------------------------------------------------------------------------
(* Rows *)

\* What a table holds, or has held.
Holdings(t) == {rows[t]} \cup {p.was : p \in past[t]}

\* Ids are counted up and name one row.
Numbered(t) ==
    /\ nextId[t] \in Nat
    /\ \A held \in Holdings(t) : \A r \in held : r \in Row(t) /\ r.id < nextId[t]
    /\ \A r, s \in rows[t] : r.id = s.id => r = s
Orderly == \A t \in Tables : Numbered(t)

\* A step that writes puts what its table held with the past, and leaves the others.
LEMMA WritesOneTable ==
    ASSUME Functions, NEW r \in Requests, NEW t \in Tables, Writing(r, t)
    PROVE  /\ clock' = clock
           /\ \/ rows' = rows /\ past' = past /\ nextId' = nextId
              \/ past'[t] = past[t] \cup {[was |-> rows[t], until |-> clock]}
           /\ \A u \in Tables \ {t} :
                 rows'[u] = rows[u] /\ past'[u] = past[u] /\ nextId'[u] = nextId[u]
  BY DEF Writing, Insert, Rename, Delete, SetThreshold, Write, db, Functions

\* An insert adds one row, under the next id.
LEMMA InsertRows ==
    ASSUME InPlace, NEW r \in Requests, NEW t \in Tables, Insert(r, t)
    PROVE  /\ call[r].name \in Names /\ call[r].table = t
           /\ rows'[t] = rows[t] \cup {NewRow(t, call[r].name)}
           /\ nextId'[t] = nextId[t] + 1
<1>1. call[r].name \in Names /\ call[r].table = t
  BY DEF Insert, At, InPlace, Placed
<1>2. Repo(t).write.insert[call[r].name] = rows[t] \cup {NewRow(t, call[r].name)}
  BY <1>1, Repositories
<1>3. QED BY <1>1, <1>2 DEF Insert, Write, InPlace, Functions

\* A rename gives one row its name, and marks it if another has that name.
LEMMA RenameRows ==
    ASSUME InPlace, NEW r \in Requests, NEW t \in Tables, Rename(r, t), call[r].name # Blank
    PROVE  /\ call[r].name \in Names /\ call[r].id \in Ids
           /\ rows'[t] = {Renamed(p, call[r].id, call[r].name) : p \in rows[t]}
           /\ nextId'[t] = nextId[t]
           /\ overtaken' = overtaken \cup Rivals(t, call[r].name)
           /\ raced' = raced \cup {<<t, call[r].id>>}
<1>1. pc[r] = "rename" /\ call[r].op = "rename" /\ IsCall(call[r])
  BY DEF Rename, At, InPlace, Placed, Entrances
<1>2. call[r].name \in Names /\ call[r].id \in Ids
  BY <1>1 DEF IsCall, Stripped
<1>3. Repo(t).write.rename[<<call[r].id, call[r].name>>]
        = {Renamed(p, call[r].id, call[r].name) : p \in rows[t]}
  BY <1>2, Repositories
<1>4. QED BY <1>2, <1>3 DEF Rename, Write, InPlace, Functions

\* A delete takes rows away and adds none.
LEMMA DeleteRows ==
    ASSUME InPlace, NEW r \in Requests, NEW t \in Tables, Delete(r, t)
    PROVE  rows'[t] \subseteq rows[t] /\ nextId'[t] = nextId[t]
<1>1. pc[r] = "delete" /\ call[r].op = "delete" /\ IsCall(call[r])
  BY DEF Delete, At, InPlace, Placed, Entrances
<1>2. call[r].id \in Ids
  BY <1>1 DEF IsCall
<1>3. Repo(t).write.delete[call[r].id] = {p \in rows[t] : p.id # call[r].id}
  BY <1>2, Repositories
<1>4. QED BY <1>3 DEF Delete, Write, InPlace, Functions

\* A threshold is set on the one book that was found.
LEMMA ThresholdRows ==
    ASSUME InPlace, NEW r \in Requests, SetThreshold(r)
    PROVE  /\ call[r].qty \in Thresholds
           /\ rows'["books"] = Threshold(found[r].id, call[r].qty)
           /\ nextId'["books"] = nextId["books"]
<1>1. call[r].op = "threshold" /\ IsCall(call[r])
  BY DEF SetThreshold, At, InPlace, Placed
<1>2. call[r].qty \in Thresholds
  BY <1>1 DEF IsCall
<1>3. QED BY <1>2, TablesAssumption DEF SetThreshold, Write, InPlace, Functions

\* An id is a number.
LEMMA IdsAreNumbers ==
    ASSUME NEW t \in Tables, NEW row \in Row(t) PROVE row.id \in Nat
<1>1. CASE t = "books"
  BY <1>1 DEF Row
<1>2. CASE t # "books"
  BY <1>2 DEF Row
<1>3. QED BY <1>1, <1>2

\* A renamed row keeps its id, and is the only one to change.
LEMMA RenamedRows ==
    ASSUME NEW t \in Tables, NEW i \in Ids, NEW n \in Names, NEW row \in Row(t)
    PROVE  /\ Renamed(row, i, n) \in Row(t) /\ Renamed(row, i, n).id = row.id
           /\ row.id # i => Renamed(row, i, n) = row
<1>1. CASE t = "books"
  BY <1>1 DEF Row, Renamed
<1>2. CASE t # "books"
  BY <1>2 DEF Row, Renamed
<1>3. QED BY <1>1, <1>2

\* The new row has the next id.
LEMMA NewRowIs ==
    ASSUME NEW t \in Tables, nextId[t] \in Nat, NEW n \in Names
    PROVE  NewRow(t, n) \in Row(t) /\ NewRow(t, n).id = nextId[t] /\ NewRow(t, n).name = n
<1>1. CASE t = "books"
  BY <1>1 DEF Row, NewRow
<1>2. CASE t # "books"
  BY <1>2 DEF Row, NewRow
<1>3. QED BY <1>1, <1>2

\* What a threshold is set to leaves every row its id and its name.
LEMMA ThresholdsOnly ==
    ASSUME NEW i, NEW q \in Thresholds, rows["books"] \subseteq Row("books"),
           NEW row \in Threshold(i, q)
    PROVE  /\ row \in Row("books")
           /\ \E old \in rows["books"] : /\ row.id = old.id /\ row.name = old.name
                                         /\ row = IF old.id = i THEN [old EXCEPT !.threshold = q]
                                                  ELSE old
<1>1. PICK old \in rows["books"] : row = IF old.id = i THEN [old EXCEPT !.threshold = q] ELSE old
  BY DEF Threshold
<1>2. old \in Row("books")
  OBVIOUS
<1>3. QED BY <1>1, <1>2 DEF Row

\* What a step writes is in order when what was there is.
LEMMA WritesInOrder ==
    ASSUME InPlace, Orderly, NEW r \in Requests, NEW t \in Tables, Writing(r, t)
    PROVE  /\ nextId'[t] \in Nat /\ nextId[t] <= nextId'[t]
           /\ \A row \in rows'[t] : row \in Row(t) /\ row.id < nextId'[t]
           /\ \A p, q \in rows'[t] : p.id = q.id => p = q
<1>1. /\ nextId[t] \in Nat
      /\ \A row \in rows[t] : row \in Row(t) /\ row.id < nextId[t] /\ row.id \in Nat
      /\ \A p, q \in rows[t] : p.id = q.id => p = q
  BY IdsAreNumbers DEF Orderly, Numbered, Holdings
<1>2. CASE Insert(r, t)
  <2> PICK new : new = NewRow(t, call[r].name)
    OBVIOUS
  <2>1. new \in Row(t) /\ new.id = nextId[t]
    BY <1>1, <1>2, InsertRows, NewRowIs
  <2>2. rows'[t] = rows[t] \cup {new} /\ nextId'[t] = nextId[t] + 1
    BY <1>2, InsertRows
  <2>3. QED BY ONLY <1>1, <2>1, <2>2
<1>3. CASE Rename(r, t) /\ call[r].name # Blank
  <2> PICK i \in Ids, n \in Names :
         rows'[t] = {Renamed(row, i, n) : row \in rows[t]} /\ nextId'[t] = nextId[t]
    BY <1>3, RenameRows
  <2>1. \A row \in rows[t] : Renamed(row, i, n) \in Row(t) /\ Renamed(row, i, n).id = row.id
    <3>1. ASSUME NEW row \in rows[t]
          PROVE  Renamed(row, i, n) \in Row(t) /\ Renamed(row, i, n).id = row.id
      <4>1. row \in Row(t)
        BY <1>1
      <4>2. QED BY <4>1, RenamedRows
    <3>2. QED BY <3>1
  <2>2. \A row \in rows'[t] : \E old \in rows[t] :
           row = Renamed(old, i, n) /\ row \in Row(t) /\ row.id = old.id
    BY <2>1
  <2>3. QED BY ONLY <1>1, <2>2, nextId'[t] = nextId[t]
<1>4. CASE Rename(r, t) /\ call[r].name = Blank
  <2>1. rows' = rows /\ nextId' = nextId
    BY <1>4 DEF Rename, db
  <2>2. QED BY <1>1, <2>1
<1>5. CASE Delete(r, t)
  BY <1>1, <1>5, DeleteRows
<1>6. CASE t = "books" /\ SetThreshold(r)
  <2>1. /\ call[r].qty \in Thresholds
        /\ rows'[t] = Threshold(found[r].id, call[r].qty)
        /\ nextId'[t] = nextId[t]
    BY <1>6, ThresholdRows
  <2> PICK i : i = found[r].id
    OBVIOUS
  <2> PICK q \in Thresholds : rows'[t] = Threshold(i, q)
    BY <2>1
  <2>2. \A row \in rows'[t] : /\ row \in Row(t)
                              /\ \E old \in rows[t] : /\ row.id = old.id
                                   /\ row = IF old.id = i THEN [old EXCEPT !.threshold = q] ELSE old
    <3>1. rows["books"] \subseteq Row("books")
      BY <1>1, <1>6
    <3>2. QED BY <1>6, <3>1, ThresholdsOnly
  <2>3. QED BY ONLY <1>1, <2>1, <2>2
<1>7. QED BY <1>2, <1>3, <1>4, <1>5, <1>6 DEF Writing

\* So a table stays in order.
LEMMA StepInOrder ==
    ASSUME InPlace, Orderly, [Next]_vars PROVE Orderly'
<1>1. ASSUME UNCHANGED <<rows, nextId, past>> PROVE Orderly'
  BY <1>1 DEF Orderly, Numbered, Holdings
<1>2. ASSUME NEW r \in Requests, NEW t \in Tables, Standing(r, t)
      PROVE  UNCHANGED <<rows, nextId, past>>
  BY <1>2 DEF Standing, Cached, Arrive, Ask, Look, Fetch, Store, CheckName, Find, List,
     EnsureBook, FindBook, db
<1>3. ASSUME NEW r \in Requests, NEW t \in Tables, Writing(r, t), NEW u \in Tables
      PROVE  Numbered(u)'
  <2>1. CASE u = t
    <3>1. /\ nextId'[t] \in Nat /\ nextId[t] <= nextId'[t]
          /\ \A row \in rows'[t] : row \in Row(t) /\ row.id < nextId'[t]
          /\ \A p, q \in rows'[t] : p.id = q.id => p = q
      BY <1>3, WritesInOrder
    <3>2. Holdings(t)' \subseteq Holdings(t) \cup {rows'[t]}
      <4>1. CASE rows' = rows /\ past' = past
        BY <4>1 DEF Holdings
      <4>2. CASE past'[t] = past[t] \cup {[was |-> rows[t], until |-> clock]}
        <5>1. \A p \in past'[t] : p.was \in Holdings(t)
          BY <4>2 DEF Holdings
        <5>2. QED BY <5>1 DEF Holdings
      <4>3. QED BY <1>3, <4>1, <4>2, WritesOneTable DEF InPlace
    <3>3. \A held \in Holdings(t) : \A row \in held :
             row \in Row(t) /\ row.id \in Nat /\ row.id < nextId[t]
      BY IdsAreNumbers DEF Orderly, Numbered
    <3>4. nextId[t] \in Nat
      BY DEF Orderly, Numbered
    <3>5. \A held \in Holdings(t)' : \A row \in held : row \in Row(t) /\ row.id < nextId'[t]
      BY ONLY <3>1, <3>2, <3>3, <3>4
    <3>6. Row(t)' = Row(t)
      BY DEF Row
    <3>7. QED BY <2>1, <3>1, <3>5, <3>6 DEF Numbered
  <2>2. CASE u # t
    <3>1. rows'[u] = rows[u] /\ past'[u] = past[u] /\ nextId'[u] = nextId[u]
      BY <1>3, <2>2, WritesOneTable DEF InPlace
    <3>2. QED BY <3>1 DEF Orderly, Numbered, Holdings
  <2>3. QED BY <2>1, <2>2
<1>4. ASSUME NEW r \in Requests, NEW t \in Tables, Writing(r, t) PROVE Orderly'
  BY <1>3, <1>4 DEF Orderly
<1>5. CASE Tick \/ UNCHANGED vars
  BY <1>1, <1>5 DEF Tick, vars, db
<1>6. QED BY <1>1, <1>2, <1>4, <1>5, Steps

\* The tables are in order, always.
LEMMA StaysOrderly == Spec => []Orderly
<1>1. Init => Orderly
  <2> SUFFICES ASSUME Init, NEW t \in Tables PROVE Numbered(t)
    BY DEF Orderly
  <2>1. /\ rows[t] = OnFile[t] /\ past[t] = {} /\ nextId[t] = 1 + Cardinality(OnFile[t])
    BY DEF Init
  <2>2. Cardinality(OnFile[t]) \in Nat
    BY FS_CardinalityType, TablesAssumption
  <2>3. \A held \in Holdings(t) : held = OnFile[t]
    BY <2>1 DEF Holdings
  <2>4. /\ \A p \in OnFile[t] : p \in Row(t) /\ p.id \in Nat /\ p.id <= Cardinality(OnFile[t])
        /\ \A p, q \in OnFile[t] : p.id = q.id => p = q
    BY TablesAssumption, IdsAreNumbers
  <2>5. QED BY <2>1, <2>2, <2>3, <2>4 DEF Numbered
<1>2. Spec => []InPlace
  BY StaysInPlace
<1>3. InPlace /\ Orderly /\ [Next]_vars => Orderly'
  BY StepInOrder
<1>4. QED BY <1>1, <1>2, <1>3, PTL DEF Spec

-----------------------------------------------------------------------------
(* Names *)

\* A table of those that look a name up as a single row has held two rows with the
\* name and with ids below a bound: the name was free again for everybody.
HeldTwice(t, n, bound) ==
    /\ t \notin FirstRow
    /\ \E held \in Holdings(t) : \E u, v \in held :
          /\ u # v /\ u.name = n /\ v.name = n
          /\ u.id < bound /\ v.id < bound

\* Why the rows i and j of a table, i before j, may have the name n.
Explained(t, i, j, n) == {<<t, i>>, <<t, j>>} \cap raced # {} \/ HeldTwice(t, n, j)
AllExplained ==
    \A t \in Tables : \A p, q \in rows[t] :
        p.name = q.name /\ p.id < q.id => Explained(t, p.id, q.id, q.name)

\* A request that is to insert a name, and that no other has overtaken, found the name
\* free, and it still is, unless the table has held it twice.
FoundFree(r) ==
    pc[r] = "insert" /\ r \notin overtaken =>
        \A t \in Tables : call[r].table = t =>
            Named(t, call[r].name) = {} \/ HeldTwice(t, call[r].name, nextId[t])
Unique == AllExplained /\ \A r \in Requests : FoundFree(r)

\* The invariant says what the property does.
LEMMA ExplainedIsUnique == AllExplained <=> UniqueUnlessRaced
<1>1. ASSUME NEW t \in Tables, NEW p \in rows[t], NEW q \in rows[t]
      PROVE  Explained(t, p.id, q.id, q.name) <=>
            \/ {<<t, p.id>>, <<t, q.id>>} \cap raced # {}
            \/ /\ t \notin {"locations", "books"}
               /\ \E held \in {rows[t]} \cup {h.was : h \in past[t]} :
                     \E u, v \in held : /\ u # v /\ u.name = q.name /\ v.name = q.name
                                       /\ u.id < q.id /\ v.id < q.id
  BY Zenon DEF Explained, HeldTwice, Holdings, FirstRow
<1>2. QED BY <1>1 DEF AllExplained, UniqueUnlessRaced

\* What a table has held it has held for ever.
LEMMA HeldForEver ==
    ASSUME InPlace, [Next]_vars, NEW t \in Tables
    PROVE  Holdings(t) \subseteq Holdings(t)'
<1>1. CASE UNCHANGED <<rows, past>>
  BY <1>1 DEF Holdings
<1>2. CASE past'[t] = past[t] \cup {[was |-> rows[t], until |-> clock]}
  <2>1. [was |-> rows[t], until |-> clock].was = rows[t]
    OBVIOUS
  <2>2. rows[t] \in Holdings(t)'
    BY <1>2, <2>1 DEF Holdings
  <2>3. \A p \in past[t] : p \in past'[t]
    BY <1>2
  <2>4. QED BY <2>2, <2>3 DEF Holdings
<1>3. CASE rows'[t] = rows[t] /\ past'[t] = past[t]
  BY <1>3 DEF Holdings
<1>4. ASSUME NEW r \in Requests, NEW u \in Tables, Standing(r, u) PROVE UNCHANGED <<rows, past>>
  BY <1>4 DEF Standing, Cached, Arrive, Ask, Look, Fetch, Store, CheckName, Find, List,
     EnsureBook, FindBook, db
<1>5. ASSUME NEW r \in Requests, NEW u \in Tables, Writing(r, u)
      PROVE  \/ UNCHANGED <<rows, past>>
             \/ past'[t] = past[t] \cup {[was |-> rows[t], until |-> clock]}
             \/ rows'[t] = rows[t] /\ past'[t] = past[t]
  BY <1>5, WritesOneTable DEF InPlace
<1>6. CASE Tick \/ UNCHANGED vars
  BY <1>1, <1>6 DEF Tick, vars, db
<1>7. QED BY <1>1, <1>2, <1>3, <1>4, <1>5, <1>6, Steps

\* So what was explained stays explained.
LEMMA StaysHeldTwice ==
    ASSUME InPlace, Orderly, [Next]_vars, NEW t \in Tables, NEW n, NEW b \in Nat, NEW c \in Nat,
           b <= c, HeldTwice(t, n, b)
    PROVE  HeldTwice(t, n, c)'
<1>1. PICK held \in Holdings(t) : \E u, v \in held :
          u # v /\ u.name = n /\ v.name = n /\ u.id < b /\ v.id < b
  BY DEF HeldTwice
<1>2. \A u \in held : u.id \in Nat
  BY IdsAreNumbers DEF Orderly, Numbered
<1>3. \E u, v \in held : u # v /\ u.name = n /\ v.name = n /\ u.id < c /\ v.id < c
  BY <1>1, <1>2
<1>4. held \in Holdings(t)'
  BY HeldForEver
<1>5. t \notin FirstRow
  BY DEF HeldTwice
<1>6. QED BY <1>3, <1>4, <1>5 DEF HeldTwice, FirstRow

\* A row of the table a step writes has the id and the name of one that was there, or
\* every rival of its writer is overtaken, and it was renamed, or inserted by a request
\* that was overtaken itself, or not.
LEMMA WrittenRows ==
    ASSUME InPlace, Orderly, NEW r \in Requests, NEW t \in Tables, Writing(r, t)
    PROVE  /\ raced \subseteq raced' /\ overtaken \subseteq overtaken'
           /\ \A row \in rows'[t] :
                 \/ \E old \in rows[t] : old.id = row.id /\ old.name = row.name
                 \/ /\ Rivals(t, row.name) \ {r} \subseteq overtaken'
                    /\ \/ <<t, row.id>> \in raced'
                       \/ /\ row.id = nextId[t] /\ row.name = call[r].name
                          /\ pc[r] = "insert" /\ call[r].table = t /\ r \notin overtaken
<1>1. CASE Insert(r, t)
  <2> PICK new : new = NewRow(t, call[r].name)
    OBVIOUS
  <2>1. new.id = nextId[t] /\ new.name = call[r].name
    BY <1>1, InsertRows, NewRowIs DEF Orderly, Numbered
  <2>2. rows'[t] = rows[t] \cup {new} /\ call[r].table = t
    BY <1>1, InsertRows
  <2>3. /\ overtaken' = overtaken \cup (Rivals(t, call[r].name) \ {r})
        /\ raced' = IF r \in overtaken THEN raced \cup {<<t, nextId[t]>>} ELSE raced
        /\ pc[r] = "insert"
    BY <1>1 DEF Insert, At
  <2>4. QED BY ONLY <2>1, <2>2, <2>3
<1>2. CASE Rename(r, t) /\ call[r].name # Blank
  <2> PICK i \in Ids, n \in Names :
         /\ rows'[t] = {Renamed(row, i, n) : row \in rows[t]}
         /\ overtaken' = overtaken \cup Rivals(t, n) /\ raced' = raced \cup {<<t, i>>}
    BY <1>2, RenameRows
  <2>1. ASSUME NEW row \in rows[t]
        PROVE  IF row.id = i THEN Renamed(row, i, n).id = i /\ Renamed(row, i, n).name = n
               ELSE Renamed(row, i, n) = row
    <3>1. row \in Row(t)
      BY DEF Orderly, Numbered, Holdings
    <3>2. CASE t = "books"
      BY <3>1, <3>2 DEF Renamed, Row
    <3>3. CASE t # "books"
      BY <3>1, <3>3 DEF Renamed, Row
    <3>4. QED BY <3>2, <3>3
  <2>2. QED BY <2>1
<1>3. CASE Rename(r, t) /\ call[r].name = Blank
  BY <1>3 DEF Rename, db
<1>4. CASE Delete(r, t)
  BY <1>4, DeleteRows DEF Delete
<1>5. CASE t = "books" /\ SetThreshold(r)
  <2>1. /\ call[r].qty \in Thresholds
        /\ rows'[t] = Threshold(found[r].id, call[r].qty)
    BY <1>5, ThresholdRows
  <2>2. rows["books"] \subseteq Row("books")
    BY <1>5 DEF Orderly, Numbered, Holdings
  <2>3. \A row \in rows'[t] : \E old \in rows[t] : old.id = row.id /\ old.name = row.name
    BY <1>5, <2>1, <2>2, ThresholdsOnly
  <2>4. UNCHANGED <<overtaken, raced>>
    BY <1>5 DEF SetThreshold
  <2>5. QED BY <2>3, <2>4
<1>6. QED BY <1>1, <1>2, <1>3, <1>4, <1>5 DEF Writing

\* Two rows that share a name after a write are accounted for.
LEMMA WritesExplained ==
    ASSUME InPlace, Orderly, Unique, [Next]_vars,
           NEW r \in Requests, NEW t \in Tables, Writing(r, t)
    PROVE  AllExplained'
<1> SUFFICES ASSUME NEW u \in Tables, NEW p \in rows'[u], NEW q \in rows'[u],
                    p.name = q.name, p.id < q.id
             PROVE  Explained(u, p.id, q.id, q.name)'
  BY DEF AllExplained
<1>1. raced \subseteq raced'
  BY WrittenRows
<1>2. ASSUME NEW i \in Nat, NEW j \in Nat, NEW n, Explained(u, i, j, n)
      PROVE  Explained(u, i, j, n)'
  BY <1>1, <1>2, StaysHeldTwice DEF Explained
<1>3. ASSUME NEW a \in rows[u], NEW b \in rows[u],
             a.id = p.id, a.name = p.name, b.id = q.id, b.name = q.name
      PROVE  Explained(u, p.id, q.id, q.name)'
  <2>1. Explained(u, a.id, b.id, b.name)
    BY <1>3 DEF Unique, AllExplained
  <2>2. a.id \in Nat /\ b.id \in Nat
    BY IdsAreNumbers DEF Orderly, Numbered, Holdings
  <2>3. QED BY <1>2, <1>3, <2>1, <2>2
<1>4. CASE u # t
  <2>1. rows'[u] = rows[u]
    BY <1>4, WritesOneTable DEF InPlace
  <2>2. QED BY <1>3, <2>1
<1>5. CASE u = t
  <2> DEFINE kept(row) == \E old \in rows[t] : old.id = row.id /\ old.name = row.name
             fresh(row) == /\ row.id = nextId[t] /\ row.name = call[r].name
                           /\ pc[r] = "insert" /\ call[r].table = t /\ r \notin overtaken
  <2>1. \A row \in rows'[t] : kept(row) \/ <<t, row.id>> \in raced' \/ fresh(row)
    BY WrittenRows
  <2>2. CASE <<t, p.id>> \in raced' \/ <<t, q.id>> \in raced'
    BY <1>5, <2>2 DEF Explained
  <2>3. CASE kept(p) /\ kept(q)
    BY <1>3, <1>5, <2>3
  <2>4. CASE kept(p) /\ fresh(q)
    <3>1. PICK old \in rows[t] : old.name = p.name
      BY <2>4
    <3>2. old \in Named(t, call[r].name)
      BY <2>4, <3>1 DEF Named
    <3>3. HeldTwice(t, call[r].name, nextId[t])
      BY <2>4, <3>2 DEF Unique, FoundFree
    <3>4. nextId[t] \in Nat
      BY DEF Orderly, Numbered
    <3>5. HeldTwice(t, q.name, q.id)'
      BY <2>4, <3>3, <3>4, StaysHeldTwice
    <3>6. QED BY <1>5, <3>5 DEF Explained
  <2>5. CASE fresh(p)
    <3>1. q.id < nextId[t] \/ q.id = nextId[t] \/ <<t, q.id>> \in raced'
      BY <2>1, <1>5 DEF Orderly, Numbered, Holdings
    <3>2. nextId[t] \in Nat /\ q.id \in Nat
      BY <1>5, WritesInOrder, IdsAreNumbers DEF Orderly, Numbered
    <3>3. QED BY <2>2, <2>5, <3>1, <3>2
  <2>6. QED BY <1>5, <2>1, <2>2, <2>3, <2>4, <2>5
<1>6. QED BY <1>4, <1>5

\* A name found free is free: no row has it, or the table holds two that have it.
LEMMA FreeNames ==
    ASSUME Orderly, NEW t \in Tables, NEW n \in Names, Repo(t).free[n]
    PROVE  Named(t, n) = {} \/ HeldTwice(t, n, nextId[t])
<1>1. CASE t \in FirstRow
  BY <1>1, Repositories
<1>2. CASE t \notin FirstRow /\ Named(t, n) # {}
  <2>1. Cardinality(Named(t, n)) # 1
    BY <1>2, Repositories DEF SingleFree
  <2>2. PICK u \in Named(t, n) : TRUE
    BY <1>2
  <2>3. Named(t, n) # {u}
    BY <2>1, FS_Singleton
  <2>4. PICK v \in Named(t, n) : v # u
    BY <2>2, <2>3
  <2>5. /\ u \in rows[t] /\ v \in rows[t] /\ u.name = n /\ v.name = n
        /\ u.id < nextId[t] /\ v.id < nextId[t]
    BY <2>4 DEF Named, Orderly, Numbered, Holdings
  <2>6. QED BY <1>2, <2>4, <2>5 DEF HeldTwice, Holdings
<1>3. QED BY <1>1, <1>2

\* A request is in front of its insert with a name that is free, or overtaken.
LEMMA StepFoundFree ==
    ASSUME InPlace, Orderly, Unique, [Next]_vars, NEW s \in Requests
    PROVE  FoundFree(s)'
<1> SUFFICES ASSUME pc'[s] = "insert", s \notin overtaken', NEW u \in Tables, call'[s].table = u,
                    NEW n, n = call'[s].name, NEW b, b = nextId'[u]
             PROVE  Named(u, n)' = {} \/ HeldTwice(u, n, b)'
  BY DEF FoundFree
<1>1. nextId[u] \in Nat /\ nextId'[u] \in Nat
  BY StepInOrder DEF Orderly, Numbered
<1>2. ASSUME rows'[u] = rows[u], nextId'[u] = nextId[u],
             Named(u, n) = {} \/ HeldTwice(u, n, nextId[u])
      PROVE  Named(u, n)' = {} \/ HeldTwice(u, n, b)'
  BY <1>1, <1>2, StaysHeldTwice DEF Named
<1>3. ASSUME pc[s] = "insert", call[s] = call'[s], s \notin overtaken
      PROVE  Named(u, n) = {} \/ HeldTwice(u, n, nextId[u])
  BY <1>3 DEF Unique, FoundFree
<1>4. ASSUME NEW r \in Requests, NEW t \in Tables, Standing(r, t)
      PROVE  Named(u, n)' = {} \/ HeldTwice(u, n, b)'
  <2>1. UNCHANGED db
    BY <1>4 DEF Standing, Cached, Arrive, Ask, Look, Fetch, Store, CheckName, Find, List,
       EnsureBook, FindBook
  <2>2. CASE s # r
    <3>1. pc[s] = "insert" /\ call[s] = call'[s]
      BY <1>4, <2>2, OthersStay DEF InPlace
    <3>2. QED BY <1>2, <1>3, <2>1, <3>1 DEF db
  <2>3. CASE s = r /\ (CheckName(r, t) \/ EnsureBook(r))
    <3>1. /\ call'[s] = call[s] /\ n # Blank /\ Repo(u).free[n] /\ pc[s] \in {"create", "ensure"}
      BY <2>3 DEF CheckName, EnsureBook, At, Goto, Finish, Refused, InPlace, Functions
    <3>2. n \in Names
      BY <3>1 DEF InPlace, Placed, Entrances, IsCall, Stripped
    <3>3. QED BY <1>2, <2>1, <3>1, <3>2, FreeNames DEF db
  <2>4. CASE s = r /\ Arrive(r)
    <3>1. PICK c \in Traffic[r] : pc'[r] = c.op
      BY <2>4 DEF Arrive, InPlace, Functions
    <3>2. IsCall(c)
      BY TrafficCalls
    <3>3. QED BY <2>4, <3>1, <3>2 DEF IsCall
  <2>5. CASE s = r /\ (Cached(r, t) \/ Find(r, t) \/ List(r, t) \/ FindBook(r))
    <3>1. pc'[r] # "insert"
      BY <2>5 DEF Cached, Ask, Look, Fetch, Store, Serve, Find, List, FindBook, Goto, Finish,
         InPlace, Functions
    <3>2. QED BY <2>5, <3>1
  <2>6. QED BY <1>4, <2>2, <2>3, <2>4, <2>5 DEF Standing
<1>5. ASSUME NEW r \in Requests, NEW t \in Tables, Writing(r, t)
      PROVE  Named(u, n)' = {} \/ HeldTwice(u, n, b)'
  <2>1. pc'[r] = "done"
    BY <1>5 DEF Writing, Insert, Rename, Delete, SetThreshold, Finish, InPlace, Functions,
       Write, db, mine
  <2>2. s # r /\ pc[s] = "insert" /\ call[s] = call'[s] /\ s \notin overtaken
    BY <1>5, <2>1, OthersStay, WrittenRows DEF InPlace
  <2>3. CASE u # t
    <3>1. rows'[u] = rows[u] /\ nextId'[u] = nextId[u]
      BY <1>5, <2>3, WritesOneTable DEF InPlace
    <3>2. QED BY <1>2, <1>3, <2>2, <3>1
  <2>4. CASE u = t /\ HeldTwice(u, n, nextId[u])
    <3>1. nextId[u] <= nextId'[u]
      BY <1>5, <2>4, WritesInOrder
    <3>2. QED BY <1>1, <2>4, <3>1, StaysHeldTwice
  <2>5. CASE u = t /\ Named(u, n) = {}
    <3>1. s \in Rivals(t, n)
      BY <2>2, <2>5 DEF Rivals, At
    <3>2. ASSUME NEW row \in rows'[t], row.name = n PROVE FALSE
      <4>1. \/ \E old \in rows[t] : old.id = row.id /\ old.name = row.name
            \/ Rivals(t, row.name) \ {r} \subseteq overtaken'
        BY <1>5, WrittenRows
      <4>2. QED BY <2>2, <2>5, <3>1, <3>2, <4>1 DEF Named
    <3>3. QED BY <2>5, <3>2 DEF Named
  <2>6. QED BY <1>3, <2>2, <2>3, <2>4, <2>5
<1>6. CASE Tick \/ UNCHANGED vars
  <2>1. UNCHANGED db /\ pc' = pc /\ call' = call
    BY <1>6 DEF Tick, vars, db
  <2>2. QED BY <1>2, <1>3, <2>1 DEF db
<1>7. QED BY <1>4, <1>5, <1>6, Steps

\* Two rows of a table with one name: one of them was renamed, or inserted by a request
\* another overtook between asking for the name and inserting it, or the table, where a
\* name is looked up as a single row, has held two rows with it before.
THEOREM NamesExplained == Spec => []UniqueUnlessRaced
<1>1. Init => Unique
  <2>1. ASSUME Init, NEW t \in Tables, NEW p \in rows[t], NEW q \in rows[t],
               p.name = q.name, p.id < q.id
        PROVE  <<t, q.id>> \in raced
    <3>1. rows[t] = OnFile[t]
      BY <2>1 DEF Init
    <3>2. <<t, q.id>> \in Tables \X Ids
      BY <3>1, TablesAssumption
    <3>3. QED BY <2>1, <3>1, <3>2 DEF Init
  <2>2. Init => AllExplained
    BY <2>1 DEF AllExplained, Explained
  <2>3. Init => \A r \in Requests : FoundFree(r)
    BY DEF Init, FoundFree
  <2>4. QED BY <2>2, <2>3 DEF Unique
<1>2. Spec => [](InPlace /\ Orderly)
  BY StaysInPlace, StaysOrderly, PTL
<1>3. ASSUME InPlace /\ Orderly, Unique, [Next]_vars PROVE Unique'
  <2>1. ASSUME UNCHANGED db PROVE AllExplained'
    BY <1>3, <2>1 DEF db, Unique, AllExplained, Explained, HeldTwice, Holdings
  <2>2. ASSUME NEW r \in Requests, NEW t \in Tables, Standing(r, t) PROVE UNCHANGED db
    BY <2>2 DEF Standing, Cached, Arrive, Ask, Look, Fetch, Store, CheckName, Find, List,
       EnsureBook, FindBook
  <2>3. ASSUME NEW r \in Requests, NEW t \in Tables, Writing(r, t) PROVE AllExplained'
    BY <1>3, <2>3, WritesExplained
  <2>4. ASSUME Tick \/ UNCHANGED vars PROVE AllExplained'
    BY <2>1, <2>4 DEF Tick, vars, db
  <2>5. AllExplained'
    BY <1>3, <2>1, <2>2, <2>3, <2>4, Steps
  <2>6. \A s \in Requests : FoundFree(s)'
    BY <1>3, StepFoundFree
  <2>7. QED BY <2>5, <2>6 DEF Unique
<1>4. Unique => UniqueUnlessRaced
  BY ExplainedIsUnique DEF Unique
<1>5. QED BY <1>1, <1>2, <1>3, <1>4, PTL DEF Spec

-----------------------------------------------------------------------------
(* Freshness *)

\* A value is what a key stood for in its table at some time not before the given one.
HeldSince(key, value, since) ==
    \/ value = Of(key[2], rows[key[1]])
    \/ \E p \in past[key[1]] : p.until >= since /\ value = Of(key[2], p.was)

\* Times are numbers.
Timely ==
    /\ clock \in Nat
    /\ \A t \in Tables : \A p \in past[t] : p.until \in Nat

\* A read asked the cache before now, and what it has fetched it fetched after that, no
\* longer ago than a round trip takes.
Filling(r) ==
    /\ pc[r] \in {"look", "fetch", "store"} => asked[r] \in Nat /\ asked[r] <= clock
    /\ pc[r] = "store" =>
          /\ gotAt[r] \in Nat /\ asked[r] <= gotAt[r]
          /\ gotAt[r] <= clock /\ clock <= gotAt[r] + RoundTrip
          /\ todo[r] # <<>> /\ HeldSince(Head(todo[r]), got[r], gotAt[r])

\* An entry was fetched at most a round trip before it was stored.
Stored(key) ==
    cache[key] # NoEntry =>
        /\ cache[key].until \in Nat /\ cache[key].until - TTL <= clock
        /\ HeldSince(key, cache[key].value, cache[key].until - TTL - RoundTrip)

\* An answer was true at most the life of an entry and a round trip before it was asked for.
Served(a) ==
    /\ a.key \in Keys /\ a.asked \in Nat /\ a.asked <= clock
    /\ HeldSince(a.key, a.value, a.asked - TTL - RoundTrip)

Fresh ==
    /\ Timely
    /\ \A r \in Requests : Filling(r)
    /\ \A key \in Keys : Stored(key)
    /\ \A a \in answers : Served(a)

\* A key is a table and what it names in it.
LEMMA KeysAre ==
    ASSUME NEW key \in Keys PROVE key[1] \in Tables /\ key[2] \in Ids \cup {All}
  BY DEF Keys

\* What was held since a time was held since an earlier one.
LEMMA HeldEarlier ==
    ASSUME Timely, NEW key \in Keys, NEW value, NEW since \in Int, HeldSince(key, value, since),
           NEW before \in Int, before <= since
    PROVE  HeldSince(key, value, before)
<1>1. \A p \in past[key[1]] : p.until \in Nat
  BY KeysAre DEF Timely
<1>2. QED BY <1>1 DEF HeldSince

\* A step that writes leaves the time alone.
LEMMA OnlyTicks ==
    ASSUME NEW r \in Requests, NEW t \in Tables, Writing(r, t) \/ Standing(r, t)
    PROVE  clock' = clock
  BY DEF Writing, Insert, Rename, Delete, SetThreshold, Write, Standing, Cached, Arrive, Ask,
     Look, Fetch, Store, CheckName, Find, List, EnsureBook, FindBook

\* A step that writes a table leaves what it held until now with its past.
LEMMA PastGrows ==
    ASSUME InPlace, [Next]_vars, NEW t \in Tables
    PROVE  \/ rows'[t] = rows[t] /\ past'[t] = past[t]
           \/ past'[t] = past[t] \cup {[was |-> rows[t], until |-> clock]}
<1>1. ASSUME NEW r \in Requests, NEW u \in Tables, Standing(r, u) PROVE UNCHANGED <<rows, past>>
  BY <1>1 DEF Standing, Cached, Arrive, Ask, Look, Fetch, Store, CheckName, Find, List,
     EnsureBook, FindBook, db
<1>2. ASSUME NEW r \in Requests, NEW u \in Tables, Writing(r, u)
      PROVE  \/ rows'[t] = rows[t] /\ past'[t] = past[t]
             \/ past'[t] = past[t] \cup {[was |-> rows[t], until |-> clock]}
  BY <1>2, WritesOneTable DEF InPlace
<1>3. CASE Tick \/ UNCHANGED vars
  BY <1>3 DEF Tick, vars, db
<1>4. QED BY <1>1, <1>2, <1>3, Steps

\* So what was held since a time that has come is held since then.
LEMMA HeldOn ==
    ASSUME InPlace, Timely, [Next]_vars, NEW key \in Keys, NEW value, NEW since \in Int,
           since <= clock, HeldSince(key, value, since)
    PROVE  HeldSince(key, value, since)'
<1> PICK t \in Tables : t = key[1]
  BY KeysAre
<1> PICK i : i = key[2]
  OBVIOUS
<1>1. value = Of(i, rows[t]) \/ \E p \in past[t] : p.until >= since /\ value = Of(i, p.was)
  BY DEF HeldSince
<1>2. CASE rows'[t] = rows[t] /\ past'[t] = past[t]
  BY <1>1, <1>2 DEF HeldSince
<1>3. CASE past'[t] = past[t] \cup {[was |-> rows[t], until |-> clock]}
  <2>1. clock >= since
    BY DEF Timely
  <2>2. [was |-> rows[t], until |-> clock].was = rows[t]
        /\ [was |-> rows[t], until |-> clock].until = clock
    OBVIOUS
  <2>3. \E p \in past'[t] : p.until >= since /\ value = Of(i, p.was)
    BY <1>1, <1>3, <2>1, <2>2
  <2>4. QED BY <2>3 DEF HeldSince
<1>4. QED BY <1>2, <1>3, PastGrows

\* The time goes on.
LEMMA StaysTimely ==
    ASSUME InPlace, Timely, [Next]_vars
    PROVE  Timely' /\ clock <= clock'
<1>1. clock \in Nat /\ clock' \in Nat /\ clock <= clock'
  <2>1. CASE Tick \/ UNCHANGED vars
    BY <2>1 DEF Tick, vars, Timely
  <2>2. QED BY <2>1, OnlyTicks, Steps DEF Timely
<1>2. ASSUME NEW t \in Tables, NEW p \in past'[t] PROVE p.until \in Nat
  <2>1. p \in past[t] \/ p.until = clock
    BY PastGrows
  <2>2. QED BY <1>1, <2>1 DEF Timely
<1>3. QED BY <1>1, <1>2 DEF Timely

\* A fetch answers what the table holds now.
LEMMA FetchesWhatIs ==
    ASSUME InPlace, Orderly, NEW r \in Requests, NEW t \in Tables, Fetch(r, t), pc'[r] = "store"
    PROVE  /\ Head(todo[r]) \in Keys /\ todo[r] # <<>>
           /\ got'[r] = Of(Head(todo[r])[2], rows[Head(todo[r])[1]])
<1>1. todo[r] \in Seq(Keys) /\ todo[r] # <<>> /\ Head(todo[r])[1] = t
  BY DEF Fetch, Reads, InPlace, Placed, ReadSteps
<1>2. Head(todo[r]) \in Keys
  BY <1>1
<1> PICK i : i = Head(todo[r])[2]
  OBVIOUS
<1>3. i \in Ids \cup {All}
  BY <1>2, KeysAre
<1>4. PICK value \in IF i = All THEN {Repo(t).list} ELSE Repo(t).get[i] :
         /\ got'[r] = IF i = All THEN value ELSE {value} \ {NoRow}
         /\ value # Broken
  BY DEF Fetch, Finish, InPlace, Functions
<1>5. CASE i = All
  <2>1. got'[r] = rows[t]
    BY <1>4, <1>5, Repositories
  <2>2. Of(i, rows[t]) = rows[t]
    BY <1>5 DEF Of
  <2>3. QED BY <1>1, <1>2, <2>1, <2>2
<1>6. CASE i # All
  <2>1. i \in Ids
    BY <1>3, <1>6
  <2>2. value \in MaybeSingle(Fitting(t, i)) \cup First(Fitting(t, i))
    BY <1>4, <1>6, <2>1, Repositories
  <2>3. Of(i, rows[t]) = Fitting(t, i)
    BY <1>6 DEF Of, Fitting
  <2>4. \A p, q \in Fitting(t, i) : p = q
    BY DEF Fitting, Orderly, Numbered
  <2>5. \A p \in Fitting(t, i) : p # NoRow /\ p.id \in Nat /\ p.id = i
    <3>1. NoRow \notin Row(t)
      BY TablesAssumption
    <3>2. \A p \in rows[t] : p \in Row(t) /\ p.id \in Nat
      BY IdsAreNumbers DEF Orderly, Numbered, Holdings
    <3>3. QED BY <3>1, <3>2 DEF Fitting
  <2>6. value \in Fitting(t, i) \/ (value = NoRow /\ Fitting(t, i) = {})
    <3>1. CASE value \in MaybeSingle(Fitting(t, i))
      BY <1>4, <3>1 DEF MaybeSingle
    <3>2. CASE value \in First(Fitting(t, i)) /\ Fitting(t, i) # {}
      <4>1. \E p \in Fitting(t, i) : \A q \in Fitting(t, i) : p.id <= q.id
        BY <2>5, <3>2
      <4>2. (CHOOSE p \in Fitting(t, i) : \A q \in Fitting(t, i) : p.id <= q.id) \in Fitting(t, i)
        BY <4>1
      <4>3. QED BY <3>2, <4>2 DEF First
    <3>3. CASE value \in First(Fitting(t, i)) /\ Fitting(t, i) = {}
      BY <3>3 DEF First
    <3>4. QED BY <2>2, <3>1, <3>2, <3>3
  <2>7. got'[r] = Fitting(t, i)
    BY <1>4, <1>6, <2>4, <2>5, <2>6
  <2>8. QED BY <1>1, <1>2, <2>3, <2>7
<1>7. QED BY <1>5, <1>6

\* What a request is served was true, as long as an entry lives and a round trip before.
LEMMA ServesFresh ==
    ASSUME InPlace, Fresh, [Next]_vars, clock' = clock,
           NEW r \in Requests, NEW value, Serve(r, value),
           todo[r] \in Seq(Keys), todo[r] # <<>>, asked[r] \in Nat, asked[r] <= clock,
           HeldSince(Head(todo[r]), value, asked[r] - TTL - RoundTrip)
    PROVE  \A a \in answers' : Served(a)'
<1> PICK new : new = [key |-> Head(todo[r]), value |-> value, asked |-> asked[r]]
  OBVIOUS
<1>1. TTL \in Nat /\ RoundTrip \in Nat
  BY TablesAssumption
<1>2. Served(new)
  BY DEF Served
<1>3. \A a \in answers' : Served(a)
  BY <1>2 DEF Serve, Fresh
<1>4. ASSUME NEW a \in answers' PROVE Served(a)'
  <2> PICK since \in Int : since = a.asked - TTL - RoundTrip
    BY <1>1, <1>3 DEF Served
  <2>1. /\ a.key \in Keys /\ a.asked \in Nat /\ a.asked <= clock
        /\ HeldSince(a.key, a.value, since)
    BY <1>3 DEF Served
  <2>2. since <= clock
    BY <1>1, <2>1 DEF Fresh, Timely
  <2>3. HeldSince(a.key, a.value, since)'
    BY <2>1, <2>2, HeldOn DEF Fresh
  <2>4. QED BY <2>1, <2>3 DEF Served
<1>5. QED BY <1>4

\* An entry and a fill that a step leaves alone are as fresh as they were.
LEMMA StaysStored ==
    ASSUME InPlace, Fresh, [Next]_vars, NEW key \in Keys, cache'[key] = cache[key]
    PROVE  Stored(key)'
<1> SUFFICES ASSUME cache[key] # NoEntry PROVE Stored(key)'
  BY DEF Stored
<1>1. TTL \in Nat /\ RoundTrip \in Nat /\ clock \in Nat /\ clock' \in Nat /\ clock <= clock'
  BY TablesAssumption, StaysTimely DEF Fresh, Timely
<1> PICK entry : entry = cache[key]
  OBVIOUS
<1>2. /\ entry.until \in Nat /\ entry.until - TTL <= clock
      /\ HeldSince(key, entry.value, entry.until - TTL - RoundTrip)
  BY DEF Fresh, Stored
<1> PICK since \in Int : since = entry.until - TTL - RoundTrip
  BY <1>1, <1>2
<1>3. since <= clock
  BY <1>1, <1>2
<1>4. HeldSince(key, entry.value, since)'
  BY <1>2, <1>3, HeldOn DEF Fresh
<1>5. QED BY <1>1, <1>2, <1>4 DEF Stored

\* ... and so does what a reader is about to store, as long as its fetch is recent.
LEMMA StaysFilling ==
    ASSUME InPlace, Fresh, [Next]_vars, NEW s \in Requests,
           pc'[s] = pc[s], todo'[s] = todo[s], asked'[s] = asked[s], got'[s] = got[s],
           gotAt'[s] = gotAt[s], pc[s] = "store" => clock' <= gotAt[s] + RoundTrip
    PROVE  Filling(s)'
<1>1. clock \in Nat /\ clock' \in Nat /\ clock <= clock'
  BY StaysTimely DEF Fresh, Timely
<1>2. CASE pc[s] = "store"
  <2>1. todo[s] \in Seq(Keys) /\ todo[s] # <<>>
    BY <1>2 DEF InPlace, Placed, ReadSteps, Fresh, Filling
  <2>2. Head(todo[s]) \in Keys
    BY <2>1
  <2>3. /\ asked[s] \in Nat /\ asked[s] <= gotAt[s] /\ gotAt[s] \in Nat /\ gotAt[s] <= clock
        /\ HeldSince(Head(todo[s]), got[s], gotAt[s])
    BY <1>2 DEF Fresh, Filling
  <2> PICK key \in Keys : key = Head(todo[s])
    BY <2>2
  <2> PICK value, since : value = got[s] /\ since = gotAt[s]
    OBVIOUS
  <2>4. HeldSince(key, value, since)'
    BY <2>3, HeldOn DEF Fresh
  <2>5. QED BY <1>1, <1>2, <2>1, <2>3, <2>4 DEF Filling
<1>3. CASE pc[s] # "store"
  BY <1>1, <1>3 DEF Fresh, Filling
<1>4. QED BY <1>2, <1>3

\* The answers there are stay true.
LEMMA StaysServed ==
    ASSUME InPlace, Fresh, [Next]_vars, NEW a \in answers
    PROVE  Served(a)'
<1>1. TTL \in Nat /\ RoundTrip \in Nat /\ clock \in Nat /\ clock' \in Nat /\ clock <= clock'
  BY TablesAssumption, StaysTimely DEF Fresh, Timely
<1>2. /\ a.key \in Keys /\ a.asked \in Nat /\ a.asked <= clock
      /\ HeldSince(a.key, a.value, a.asked - TTL - RoundTrip)
  BY DEF Fresh, Served
<1> PICK since \in Int : since = a.asked - TTL - RoundTrip
  BY <1>1, <1>2
<1>3. since <= clock
  BY <1>1, <1>2
<1>4. HeldSince(a.key, a.value, since)'
  BY <1>2, <1>3, HeldOn DEF Fresh
<1>5. QED BY <1>1, <1>2, <1>4 DEF Served

\* The four steps of a cached read.
LEMMA CachedStaysFresh ==
    ASSUME InPlace, Orderly, Fresh, [Next]_vars, NEW r \in Requests, NEW t \in Tables, Cached(r, t)
    PROVE  /\ Filling(r)' /\ \A key \in Keys : Stored(key)'
           /\ \A a \in answers' : Served(a)'
<1>1. TTL \in Nat /\ RoundTrip \in Nat /\ clock \in Nat /\ clock' = clock
  BY TablesAssumption, OnlyTicks DEF Fresh, Timely, Standing
<1>2. todo[r] \in Seq(Keys) /\ todo[r] # <<>> /\ Head(todo[r]) \in Keys
  <2>1. pc[r] \in ReadSteps /\ todo[r] # <<>>
    BY DEF Cached, Ask, Look, Fetch, Store, Reads, ReadSteps
  <2>2. todo[r] \in Seq(Keys)
    BY <2>1 DEF InPlace, Placed
  <2>3. QED BY <2>1, <2>2
<1>3. ASSUME cache' = cache PROVE \A key \in Keys : Stored(key)'
  BY <1>3, StaysStored
<1>4. ASSUME answers' = answers PROVE \A a \in answers' : Served(a)'
  BY <1>4, StaysServed
<1>5. CASE Ask(r, t)
  <2>1. cache' = cache /\ answers' = answers /\ asked'[r] = clock /\ pc'[r] = "look"
    BY <1>5 DEF Ask, Goto, InPlace, Functions
  <2>2. Filling(r)'
    BY <1>1, <2>1 DEF Filling
  <2>3. QED BY <1>3, <1>4, <2>1, <2>2
<1>6. CASE Look(r, t)
  <2> PICK key \in Keys : key = Head(todo[r])
    BY <1>2
  <2> PICK entry : entry = cache[key]
    OBVIOUS
  <2>1. cache' = cache /\ pc[r] = "look" /\ asked[r] \in Nat /\ asked[r] <= clock
    BY <1>6 DEF Look, Reads, Fresh, Filling
  <2>2. CASE ~Hit(entry, asked[r])
    <3>1. answers' = answers /\ asked'[r] = asked[r] /\ pc'[r] = "fetch"
      BY <1>6, <2>2 DEF Look, Goto, InPlace, Functions
    <3>2. Filling(r)'
      BY <1>1, <2>1, <3>1 DEF Filling
    <3>3. QED BY <1>3, <1>4, <2>1, <3>1, <3>2
  <2>3. CASE Hit(entry, asked[r])
    <3>1. Serve(r, entry.value)
      BY <1>6, <2>3 DEF Look
    <3>2. pc'[r] \in {"read", "done"}
      BY <3>1 DEF Serve, Goto, Finish, InPlace, Functions
    <3>3. Filling(r)'
      BY <3>2 DEF Filling
    <3>4. /\ entry.until \in Nat /\ entry.until > asked[r]
          /\ HeldSince(key, entry.value, entry.until - TTL - RoundTrip)
      BY <2>3 DEF Hit, Fresh, Stored
    <3> PICK value : value = entry.value
      OBVIOUS
    <3> PICK since \in Int, before \in Int :
           since = entry.until - TTL - RoundTrip /\ before = asked[r] - TTL - RoundTrip
      BY <1>1, <2>1, <3>4
    <3>5. before <= since
      BY <1>1, <2>1, <3>4
    <3>6. HeldSince(key, value, before)
      BY <3>4, <3>5, HeldEarlier DEF Fresh
    <3>7. \A a \in answers' : Served(a)'
      BY <1>1, <1>2, <2>1, <3>1, <3>6, ServesFresh
    <3>8. QED BY <1>3, <2>1, <3>3, <3>7
  <2>4. QED BY <2>2, <2>3
<1>7. CASE Fetch(r, t)
  <2>1. /\ cache' = cache /\ answers' = answers /\ pc[r] = "fetch" /\ todo'[r] = todo[r]
        /\ pc'[r] \in {"store", "done"} /\ gotAt'[r] = clock /\ asked'[r] = asked[r]
        /\ rows' = rows
    BY <1>7 DEF Fetch, Reads, Goto, Finish, InPlace, Functions, db
  <2>2. asked[r] \in Nat /\ asked[r] <= clock
    BY <2>1 DEF Fresh, Filling
  <2>3. CASE pc'[r] = "store"
    <3>1. got'[r] = Of(Head(todo[r])[2], rows[Head(todo[r])[1]])
      BY <1>7, <2>3, FetchesWhatIs
    <3>2. Filling(r)'
      BY <1>1, <1>2, <2>1, <2>2, <2>3, <3>1 DEF Filling, HeldSince
    <3>3. QED BY <1>3, <1>4, <2>1, <3>2
  <2>4. CASE pc'[r] = "done"
    BY <1>3, <1>4, <2>1, <2>4 DEF Filling
  <2>5. QED BY <2>1, <2>3, <2>4
<1>8. CASE Store(r, t)
  <2> PICK key \in Keys : key = Head(todo[r])
    BY <1>2
  <2> PICK value, since : value = got[r] /\ since = gotAt[r]
    OBVIOUS
  <2>1. /\ Serve(r, value)
        /\ cache' = [cache EXCEPT ![key] = [until |-> clock + TTL, value |-> value]]
        /\ pc[r] = "store"
    BY <1>8 DEF Store, Reads
  <2>2. /\ asked[r] \in Nat /\ asked[r] <= clock /\ since \in Nat /\ asked[r] <= since
        /\ since <= clock /\ clock <= since + RoundTrip /\ HeldSince(key, value, since)
    BY <2>1 DEF Fresh, Filling
  <2>3. pc'[r] \in {"read", "done"}
    BY <2>1 DEF Serve, Goto, Finish, InPlace, Functions
  <2>4. Filling(r)'
    BY <2>3 DEF Filling
  <2>5. HeldSince(key, value, asked[r] - TTL - RoundTrip)
    <3> PICK before \in Int : before = asked[r] - TTL - RoundTrip
      BY <1>1, <2>2
    <3>1. before <= since
      BY <1>1, <2>2
    <3>2. HeldSince(key, value, before)
      BY <2>2, <3>1, HeldEarlier DEF Fresh
    <3>3. QED BY <3>2
  <2>6. \A a \in answers' : Served(a)'
    BY <1>1, <1>2, <2>1, <2>2, <2>5, ServesFresh
  <2>7. Stored(key)'
    <3> PICK before \in Int : before = clock - RoundTrip
      BY <1>1
    <3> PICK entry : entry = [until |-> clock + TTL, value |-> value]
      OBVIOUS
    <3>1. cache'[key] = entry
      BY <2>1 DEF InPlace, Functions
    <3>2. before <= since
      BY <1>1, <2>2
    <3>3. HeldSince(key, value, before)
      BY <2>2, <3>2, HeldEarlier DEF Fresh
    <3>4. HeldSince(key, value, before)'
      BY <1>1, <2>2, <3>2, <3>3, HeldOn DEF Fresh
    <3>5. /\ entry.until \in Nat /\ entry.until - TTL = clock /\ entry.value = value
          /\ entry.until - TTL - RoundTrip = before
      BY <1>1
    <3>6. QED BY <1>1, <3>1, <3>4, <3>5 DEF Stored
  <2>8. \A k \in Keys \ {key} : Stored(k)'
    BY <2>1, StaysStored
  <2>9. QED BY <2>4, <2>6, <2>7, <2>8
<1>9. QED BY <1>5, <1>6, <1>7, <1>8 DEF Cached

\* The other steps of a request leave the cache, and what is fetched for it, alone.
LEMMA OthersStayFresh ==
    ASSUME InPlace, Orderly, Fresh, [Next]_vars, NEW r \in Requests, NEW t \in Tables,
           Writing(r, t) \/ (Standing(r, t) /\ ~Cached(r, t))
    PROVE  Filling(r)' /\ cache' = cache /\ answers' = answers
<1>1. cache' = cache /\ answers' = answers
  BY DEF Writing, Insert, Rename, Delete, SetThreshold, Write, Standing, Arrive, CheckName, Find,
     List, EnsureBook, FindBook
<1>2. pc'[r] \notin {"look", "fetch", "store"}
  <2>1. CASE Writing(r, t)
    BY <2>1 DEF Writing, Insert, Rename, Delete, SetThreshold, Write, Finish, InPlace, Functions
  <2>2. CASE Arrive(r)
    <3>1. PICK c \in Traffic[r] : pc'[r] = c.op
      BY <2>2 DEF Arrive, InPlace, Functions
    <3>2. IsCall(c)
      BY TrafficCalls
    <3>3. QED BY <3>1, <3>2 DEF IsCall
  <2>3. CASE CheckName(r, t) \/ Find(r, t) \/ List(r, t) \/ EnsureBook(r) \/ FindBook(r)
    BY <2>3 DEF CheckName, Find, List, EnsureBook, FindBook, Goto, Finish, InPlace, Functions
  <2>4. QED BY <2>1, <2>2, <2>3 DEF Standing
<1>3. QED BY <1>1, <1>2 DEF Filling

\* A step keeps everything as fresh as it was.
LEMMA StepFresh ==
    ASSUME InPlace, Orderly, Fresh, [Next]_vars PROVE Fresh'
<1>1. Timely'
  BY StaysTimely DEF Fresh
<1>2. ASSUME NEW r \in Requests, NEW t \in Tables, Writing(r, t) \/ Standing(r, t),
             NEW s \in Requests, s # r
      PROVE  Filling(s)'
  <2>1. clock' = clock
    BY <1>2, OnlyTicks
  <2>2. pc[s] = "store" => clock' <= gotAt[s] + RoundTrip
    BY <2>1 DEF Fresh, Filling
  <2>3. QED BY <1>2, <2>2, OthersStay, StaysFilling DEF InPlace
<1>3. ASSUME NEW r \in Requests, NEW t \in Tables, Writing(r, t) \/ Standing(r, t)
      PROVE  Fresh'
  <2>1. CASE Cached(r, t)
    BY <1>1, <1>2, <1>3, <2>1, CachedStaysFresh DEF Fresh
  <2>2. CASE ~Cached(r, t)
    <3>1. Filling(r)' /\ cache' = cache /\ answers' = answers
      BY <1>3, <2>2, OthersStayFresh
    <3>2. \A key \in Keys : Stored(key)'
      BY <3>1, StaysStored
    <3>3. \A a \in answers' : Served(a)'
      BY <3>1, StaysServed
    <3>4. QED BY <1>1, <1>2, <1>3, <3>1, <3>2, <3>3 DEF Fresh
  <2>3. QED BY <2>1, <2>2
<1>4. CASE Tick \/ UNCHANGED vars
  <2>1. /\ cache' = cache /\ answers' = answers /\ pc' = pc /\ todo' = todo /\ asked' = asked
        /\ got' = got /\ gotAt' = gotAt
    BY <1>4 DEF Tick, vars, mine
  <2>2. \A key \in Keys : Stored(key)'
    BY <2>1, StaysStored
  <2>3. \A a \in answers' : Served(a)'
    BY <2>1, StaysServed
  <2>4. ASSUME NEW s \in Requests PROVE Filling(s)'
    <3>1. ASSUME pc[s] = "store" PROVE clock' <= gotAt[s] + RoundTrip
      <4>1. clock \in Nat /\ gotAt[s] \in Nat /\ clock <= gotAt[s] + RoundTrip /\ RoundTrip \in Nat
        BY <3>1, TablesAssumption DEF Fresh, Timely, Filling
      <4>2. QED BY <1>4, <3>1, <4>1 DEF Tick, vars
    <3>2. QED BY <2>1, <3>1, StaysFilling
  <2>5. QED BY <1>1, <2>2, <2>3, <2>4 DEF Fresh
<1>5. QED BY <1>3, <1>4, Steps

\* A read is served what its table held at most the life of an entry and a round trip
\* before it asked, whatever is written and fetched meanwhile.
THEOREM ReadsAreFresh == Spec => []FreshEnough
<1>1. Init => Fresh
  <2> SUFFICES ASSUME Init PROVE Fresh
    OBVIOUS
  <2>1. Timely
    BY DEF Init, Timely
  <2>2. \A r \in Requests : Filling(r)
    BY DEF Init, Filling
  <2>3. \A key \in Keys : Stored(key)
    BY DEF Init, Stored
  <2>4. \A a \in answers : Served(a)
    BY DEF Init
  <2>5. QED BY <2>1, <2>2, <2>3, <2>4 DEF Fresh
<1>2. Spec => [](InPlace /\ Orderly)
  BY StaysInPlace, StaysOrderly, PTL
<1>3. (InPlace /\ Orderly) /\ Fresh /\ [Next]_vars => Fresh'
  BY StepFresh
<1>4. Fresh => FreshEnough
  <2> SUFFICES ASSUME Fresh, NEW a \in answers
               PROVE  \E held \in {rows[a.key[1]]} \cup
                                    {h.was : h \in {p \in past[a.key[1]] :
                                                       p.until >= a.asked - TTL - RoundTrip}} :
                         a.value = Of(a.key[2], held)
    BY DEF FreshEnough
  <2>1. HeldSince(a.key, a.value, a.asked - TTL - RoundTrip)
    BY DEF Fresh, Served
  <2>2. QED BY <2>1 DEF HeldSince
<1>5. QED BY <1>1, <1>2, <1>3, <1>4, PTL DEF Spec
=============================================================================
