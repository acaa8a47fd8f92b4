------------------------- MODULE BookRequestsProofs -------------------------
(* Proofs about BookRequests, for any calls, traffic, users and books. *)
EXTENDS BookRequests, FiniteSetTheorems, WellFoundedInduction, TLAPS

\* Each call has a place, a request and a caller of its own.
Keyed(f) == f = [c \in Calls |-> f[c]]
Calling ==
    /\ Keyed(pc) /\ Keyed(req) /\ Keyed(who)
    /\ \A c \in Calls :
          /\ pc[c] = "idle" => who[c] = Nobody
          /\ pc[c] # "idle" => req[c].op \in Routes
          /\ pc[c] \in {"idle", "identify", "insert", "done"} \cup Routes

\* A handler runs for whom its route admits.
Admitted ==
    \A c \in Calls : pc[c] \in Routes => Allowed(who[c], Permission(pc[c]))

\* Every row is one of somebody on file, and only admins have fulfilled any.
Filed(x) ==
    /\ x = [id |-> x.id, book |-> x.book, by |-> x.by, at |-> x.at, status |-> x.status]
    /\ x.by \in Users
Files ==
    /\ \A x \in rows : Filed(x)
    /\ \A a \in actor : a.who.role = "admin"

Inv == Calling /\ TokenDecides /\ Admitted /\ Files

\* A token speaks for the one it names, once it is signed and the process can tell.
LEMMA CurrentDecides ==
    ASSUME NEW h, NEW K, NEW E, h.token # Nobody, Current(h, K, E) \notin {Nobody, Service}
    PROVE  "jwt" \in K /\ h.token.signed /\ Current(h, K, E).name = h.token.name
BY DEF Current, FromInternalSecret, FromBearer, CurrentUser

\* Before a handler is chosen its caller is known, and admitted.
LEMMA IdentifyKeeps ==
    ASSUME Inv, NEW c \in Calls, Identify(c) PROVE Inv'
<1> DEFINE user == Current(req[c].headers, keys, expired)
<1>1. /\ who' = [who EXCEPT ![c] = user]
      /\ UNCHANGED <<keys, rows, actor, req>> /\ pc[c] = "identify" /\ req[c].op \in Routes
  BY DEF Identify, table, Inv, Calling
<1>2. \/ pc' = [pc EXCEPT ![c] = "done"]
      \/ /\ pc' = [pc EXCEPT ![c] = req[c].op]
         /\ Allowed(user, Permission(req[c].op))
  BY DEF Identify, Goto, Reply
<1>3. TokenDecides'
  <2> SUFFICES ASSUME NEW d \in Calls, who'[d] \notin {Nobody, Service},
                      req'[d].headers.token # Nobody
               PROVE  LET t == req'[d].headers.token
                      IN  "jwt" \in keys' /\ t.signed /\ who'[d].name = t.name
    BY DEF TokenDecides
  <2>1. CASE d = c
    <3>1. who'[d] = user
      BY <1>1, <2>1 DEF Inv, Calling, Keyed
    <3>2. QED BY <1>1, <2>1, <3>1, CurrentDecides
  <2>2. CASE d # c
    <3>1. who'[d] = who[d]
      BY <1>1, <2>2 DEF Inv, Calling, Keyed
    <3>2. QED BY <1>1, <3>1 DEF Inv, TokenDecides
  <2>3. QED BY <2>1, <2>2
<1> HIDE DEF user
<1>4. Calling'
  BY <1>1, <1>2 DEF Inv, Calling, Keyed, Routes
<1>5. Admitted'
  BY <1>1, <1>2 DEF Inv, Admitted, Calling, Keyed, Routes
<1>6. Files'
  BY <1>1 DEF Inv, Files, Filed
<1>7. QED BY <1>3, <1>4, <1>5, <1>6 DEF Inv

\* A handler replies, or goes on to insert what it has made.
LEMMA HandlerKeeps ==
    ASSUME Inv, NEW c \in Calls, UNCHANGED <<keys, req, who>>, Files', pc[c] # "idle",
           NEW place \in {"done", "insert"}, pc' = [pc EXCEPT ![c] = place]
    PROVE  Inv'
<1>1. TokenDecides'
  BY DEF Inv, TokenDecides
<1>2. Calling'
  BY DEF Inv, Calling, Keyed, Routes
<1>3. Admitted'
  BY DEF Inv, Calling, Keyed, Admitted, Routes
<1>4. QED BY <1>1, <1>2, <1>3 DEF Inv

\* A request is made for whom it is stamped.
LEMMA CreateKeeps ==
    ASSUME Inv, NEW c \in Calls, Create(c) \/ Insert(c) PROVE Inv'
<1>1. CASE Create(c)
  <2>1. UNCHANGED <<keys, req, who, rows, actor>> /\ pc[c] # "idle"
    BY <1>1 DEF Create, table
  <2>2. Files'
    BY <2>1 DEF Inv, Files, Filed
  <2>3. \E place \in {"done", "insert"} : pc' = [pc EXCEPT ![c] = place]
    BY <1>1 DEF Create, Goto, Reply
  <2>4. QED BY <2>1, <2>2, <2>3, HandlerKeeps
<1>2. CASE Insert(c)
  <2>1. UNCHANGED <<keys, req, who, actor>> /\ pc[c] # "idle"
    BY <1>2 DEF Insert
  <2>2. \/ rows' = rows
        \/ rows' = rows \cup {NewRow(c)} /\ who[c].name \in Users
    BY <1>2 DEF Insert
  <2>3. who[c].name \in Users => Filed(NewRow(c))
    BY DEF Filed, NewRow
  <2>4. Files'
    BY <2>1, <2>2, <2>3 DEF Inv, Files, Filed
  <2>5. pc' = [pc EXCEPT ![c] = "done"]
    BY <1>2 DEF Insert, Reply
  <2>6. QED BY <2>1, <2>4, <2>5, HandlerKeeps
<1>3. QED BY <1>1, <1>2

\* Reading lists changes nothing on file.
LEMMA ListKeeps ==
    ASSUME Inv, NEW c \in Calls, ListForUser(c) \/ ListAll(c) PROVE Inv'
<1>1. UNCHANGED <<keys, req, who, rows, actor>> /\ pc[c] # "idle"
  BY DEF ListForUser, ListAll, table
<1>2. Files'
  BY <1>1 DEF Inv, Files, Filed
<1>3. pc' = [pc EXCEPT ![c] = "done"]
  BY DEF ListForUser, ListAll, Reply
<1>4. QED BY <1>1, <1>2, <1>3, HandlerKeeps

\* Whoever gets as far as fulfilling a request is an admin.
LEMMA ApproveKeeps ==
    ASSUME Inv, NEW c \in Calls, Approve(c) PROVE Inv'
<1> DEFINE hit == {x \in rows : x.id = req[c].id}
<1>1. /\ pc[c] = "approve" /\ UNCHANGED <<keys, req, who>>
      /\ rows' = (rows \ hit) \cup {[x EXCEPT !.status = "fulfilled"] : x \in hit}
      /\ actor' = actor \cup {[id |-> x.id, who |-> who[c]] : x \in hit}
      /\ pc' = [pc EXCEPT ![c] = "done"]
  BY DEF Approve, Reply
<1>2. who[c].role = "admin"
  BY <1>1 DEF Inv, Admitted, Routes, Allowed, Permission, ROUTE_PERMISSIONS
<1>3. \A x \in rows : Filed([x EXCEPT !.status = "fulfilled"])
  <2> SUFFICES ASSUME NEW x \in rows PROVE Filed([x EXCEPT !.status = "fulfilled"])
    OBVIOUS
  <2>1. Filed(x)
    BY DEF Inv, Files
  <2> DEFINE y == [id |-> x.id, book |-> x.book, by |-> x.by, at |-> x.at, status |-> x.status]
  <2>2. x = y /\ x.by \in Users
    BY <2>1 DEF Filed
  <2>3. [y EXCEPT !.status = "fulfilled"]
            = [id |-> x.id, book |-> x.book, by |-> x.by, at |-> x.at, status |-> "fulfilled"]
    OBVIOUS
  <2>4. QED BY <2>2, <2>3 DEF Filed
<1>4. Files'
  BY <1>1, <1>2, <1>3 DEF Inv, Files
<1>5. QED BY <1>1, <1>4, HandlerKeeps

\* A request that has only arrived speaks for nobody yet.
LEMMA ArriveKeeps ==
    ASSUME Inv, NEW c \in Calls, NEW q \in Traffic[c], Arrive(c, q) PROVE Inv'
<1>1. /\ pc[c] = "idle" /\ UNCHANGED <<keys, who, rows, actor>>
      /\ req' = [req EXCEPT ![c] = q] /\ pc' = [pc EXCEPT ![c] = "identify"]
      /\ q.op \in Routes
  BY TrafficAssumption DEF Arrive, Goto, table
<1>2. Calling'
  BY <1>1 DEF Inv, Calling, Keyed, Routes
<1>3. TokenDecides'
  BY <1>1 DEF Inv, Calling, Keyed, TokenDecides
<1>4. Admitted'
  BY <1>1 DEF Inv, Calling, Keyed, Admitted, Routes
<1>5. Files'
  BY <1>1 DEF Inv, Files, Filed
<1>6. QED BY <1>2, <1>3, <1>4, <1>5 DEF Inv

\* The invariant is inductive.
LEMMA InvHolds == Spec => []Inv
<1>1. Init => Inv
  BY DEF Init, Inv, Calling, Keyed, TokenDecides, Admitted, Files, Routes
<1>2. ASSUME Inv, [Next]_vars PROVE Inv'
  <2>1. ASSUME NEW c \in Calls, Handle(c) PROVE Inv'
    BY <1>2, <2>1, IdentifyKeeps, CreateKeeps, ListKeeps, ApproveKeeps DEF Handle
  <2>2. ASSUME NEW c \in Calls, NEW q \in Traffic[c], Arrive(c, q) PROVE Inv'
    BY <1>2, <2>2, ArriveKeeps
  <2>3. CASE (\E t \in Tokens : Expire(t)) \/ UNCHANGED vars
    <3>1. UNCHANGED <<keys, pc, req, who, rows, actor>>
      BY <2>3 DEF Expire, vars, table
    <3>2. QED BY <1>2, <3>1 DEF Inv, Calling, Keyed, TokenDecides, Admitted, Files, Filed
  <2>4. QED BY <1>2, <2>1, <2>2, <2>3 DEF Next
<1>3. QED BY <1>1, <1>2, PTL DEF Spec

\* Whatever else its headers say, and whenever tokens expire, a request with a
\* token is served in the name of the token, or not at all.
THEOREM TokensDecide == Spec => []TokenDecides
<1>1. Inv => TokenDecides
  BY DEF Inv
<1>2. QED BY <1>1, InvHolds, PTL

\* Only people on file have requests, and only admins fulfil them.
THEOREM AdminsFulfil == Spec => []FulfilledByAdmin
<1>1. Inv => FulfilledByAdmin
  BY DEF Inv, Files, Filed, FulfilledByAdmin
<1>2. QED BY <1>1, InvHolds, PTL

-----------------------------------------------------------------------------
(* What the lists show *)

\* A finite set of rows, dated by the server's clock.
Dated(S) == IsFiniteSet(S) /\ \A x \in S : x.at \in Nat

\* Those later than a row.
Later(S, x) == {y \in S : y.at > x.at}

\* There are finitely many of them.
LEMMA LaterType ==
    ASSUME NEW S, Dated(S), NEW x
    PROVE  IsFiniteSet(Later(S, x)) /\ Cardinality(Later(S, x)) \in Nat
BY FS_Subset, FS_CardinalityType DEF Dated, Later

\* A newer row has no more rows after it.
LEMMA LaterFewer ==
    ASSUME NEW S, Dated(S), NEW x \in S, NEW y \in S, y.at >= x.at
    PROVE  Cardinality(Later(S, y)) <= Cardinality(Later(S, x))
<1>1. Later(S, y) \in SUBSET Later(S, x)
  BY DEF Later, Dated
<1>2. QED BY <1>1, LaterType, FS_Subset

\* A row left out is no newer than one that is listed.
LEMMA NewestOrder ==
    ASSUME NEW S, Dated(S), NEW l \in Nat,
           NEW x \in S \ Newest(S, l), NEW y \in Newest(S, l)
    PROVE  y.at >= x.at
<1>1. Cardinality(Later(S, y)) < l /\ ~(Cardinality(Later(S, x)) < l) /\ y \in S
  BY DEF Newest, Later
<1>2. CASE x.at >= y.at
  BY <1>1, <1>2, LaterFewer, LaterType
<1>3. QED BY <1>1, <1>2 DEF Dated

\* Of the rows left out one is the latest.
LEMMA LatestExists ==
    ASSUME NEW S, Dated(S), NEW T \in SUBSET S, T # {}
    PROVE  \E x \in T : \A y \in T : x.at >= y.at
<1> DEFINE C == {Cardinality(Later(T, x)) : x \in T}
<1>1. Dated(T)
  BY FS_Subset DEF Dated
<1>2. C \subseteq Nat /\ C # {}
  BY <1>1, LaterType
<1>3. PICK n \in C : \A m \in C : ~(<<m, n>> \in OpToRel(<, Nat))
  BY <1>2, WFMin, NatLessThanWellFounded
<1>4. PICK x \in T : n = Cardinality(Later(T, x))
  BY <1>3
<1>5. ASSUME NEW y \in T, ~(x.at >= y.at) PROVE FALSE
  <2>1. Later(T, y) \in SUBSET (Later(T, x) \ {y}) /\ y \in Later(T, x)
    BY <1>1, <1>5 DEF Later, Dated
  <2>2. /\ Cardinality(Later(T, y)) <= Cardinality(Later(T, x) \ {y})
        /\ Cardinality(Later(T, x) \ {y}) = Cardinality(Later(T, x)) - 1
    BY <1>1, <2>1, LaterType, FS_RemoveElement, FS_Subset
  <2>3. /\ Cardinality(Later(T, y)) \in Nat /\ Cardinality(Later(T, x)) \in Nat
        /\ Cardinality(Later(T, x) \ {y}) \in Nat
    BY <1>1, LaterType, FS_RemoveElement, FS_CardinalityType
  <2>4. Cardinality(Later(T, y)) < n
    BY <1>4, <2>2, <2>3
  <2>5. <<Cardinality(Later(T, y)), n>> \in OpToRel(<, Nat)
    BY <1>4, <2>3, <2>4 DEF OpToRel
  <2>6. QED BY <1>3, <2>5
<1>6. QED BY <1>5

\* A list that leaves a row out is full.
LEMMA NewestFull ==
    ASSUME NEW S, Dated(S), NEW l \in Nat, S \ Newest(S, l) # {}
    PROVE  Cardinality(Newest(S, l)) >= l
<1>1. PICK x \in S \ Newest(S, l) : \A y \in S \ Newest(S, l) : x.at >= y.at
  BY LatestExists
<1>2. Later(S, x) \in SUBSET Newest(S, l)
  BY <1>1 DEF Later, Dated
<1>3. Newest(S, l) \in SUBSET S
  BY DEF Newest
<1>4. IsFiniteSet(Newest(S, l)) /\ Cardinality(Newest(S, l)) \in Nat
  BY <1>3, FS_Subset, FS_CardinalityType DEF Dated
<1>5. Cardinality(Later(S, x)) <= Cardinality(Newest(S, l))
  BY <1>2, <1>4, FS_Subset
<1>6. ~(Cardinality(Later(S, x)) < l)
  BY <1>1 DEF Newest, Later
<1>7. QED BY <1>4, <1>5, <1>6, LaterType

\* A list cut short twice: what it leaves out is no newer, and it is full.
LEMMA NewestTwice ==
    ASSUME NEW S, Dated(S), NEW m \in Nat, NEW l \in Nat,
           NEW x \in S \ Newest(Newest(S, m), l)
    PROVE  LET shown_ == Newest(Newest(S, m), l)
           IN  /\ shown_ \in SUBSET S
               /\ Cardinality(shown_) >= l \/ Cardinality(shown_) >= m
               /\ \A y \in shown_ : y.at >= x.at
<1> DEFINE first == Newest(S, m)
           both == Newest(first, l)
<1>1. first \in SUBSET S /\ both \in SUBSET first
  BY DEF Newest
<1>2. Dated(first)
  BY <1>1, FS_Subset DEF Dated
<1>3. CASE x \in first
  <2>1. Cardinality(both) >= l
    BY <1>2, <1>3, NewestFull
  <2>2. \A y \in both : y.at >= x.at
    BY <1>2, <1>3, NewestOrder
  <2>3. QED BY <1>1, <2>1, <2>2
<1>4. CASE x \notin first
  <2>1. Cardinality(first) >= m /\ \A y \in first : y.at >= x.at
    BY <1>4, NewestFull, NewestOrder
  <2>2. Cardinality(both) >= l \/ both = first
    BY <1>1, <1>2, NewestFull
  <2>3. QED BY <1>1, <2>1, <2>2
<1>5. QED BY <1>3, <1>4

\* Every row that was on file when a request came is there still, if with
\* another status.
SameRow(x, y) == y.id = x.id /\ y.by = x.by /\ y.at = x.at
Dates ==
    /\ Dated(rows) /\ clock \in Nat
    /\ \A c \in Calls : stamp[c] \in Nat
Listing ==
    /\ Keyed(stamp) /\ Keyed(status) /\ Keyed(shown) /\ Keyed(before)
    /\ \A c \in Calls :
          /\ pc[c] \in Routes => pc[c] = req[c].op
          /\ pc[c] # "idle" /\ req[c].op = "mine" => req[c].limit \in Nat
          /\ status[c] = 200 => pc[c] = "done"
          /\ pc[c] # "idle" => \A x \in before[c] : \E y \in rows : SameRow(x, y)

\* What MineComplete says of one call.
Complete(c) ==
    status[c] = 200 /\ req[c].op = "mine" =>
        /\ \A x \in shown[c] : x.by = who[c].name
        /\ \A x \in before[c] :
              x.by = who[c].name /\ x.id \notin {y.id : y \in shown[c]} =>
                  /\ Cardinality(shown[c]) >= req[c].limit \/ Cardinality(shown[c]) >= MineLimit
                  /\ \A y \in shown[c] : y.at >= x.at

Lists == Dates /\ Listing /\ \A c \in Calls : Complete(c)

\* A step of one call leaves the others as they are, given its own state after it.
LEMMA ListsFrame ==
    ASSUME Inv, Lists, NEW c \in Calls,
           \A d \in Calls \ {c} :
              /\ pc'[d] = pc[d] /\ req'[d] = req[d] /\ who'[d] = who[d] /\ status'[d] = status[d]
              /\ shown'[d] = shown[d] /\ before'[d] = before[d],
           Keyed(stamp)', Keyed(status)', Keyed(shown)', Keyed(before)', Dates',
           \A x \in rows : \E y \in rows' : SameRow(x, y),
           pc'[c] \in Routes => pc'[c] = req'[c].op,
           pc'[c] # "idle" /\ req'[c].op = "mine" => req'[c].limit \in Nat,
           status'[c] = 200 => pc'[c] = "done",
           pc'[c] # "idle" => \A x \in before'[c] : \E y \in rows : SameRow(x, y),
           Complete(c)'
    PROVE  Lists'
<1>1. \A x, y, z : SameRow(x, y) /\ SameRow(y, z) => SameRow(x, z)
  BY DEF SameRow
<1>2. \A d \in Calls : pc'[d] # "idle" => \A x \in before'[d] : \E y \in rows' : SameRow(x, y)
  <2> SUFFICES ASSUME NEW d \in Calls, pc'[d] # "idle", NEW x \in before'[d]
               PROVE  \E y \in rows' : SameRow(x, y)
    OBVIOUS
  <2>1. \E y \in rows : SameRow(x, y)
    BY DEF Lists, Listing
  <2>2. QED BY <1>1, <2>1
<1>3. Listing'
  BY <1>2 DEF Lists, Listing
<1>4. \A d \in Calls : Complete(d)'
  BY DEF Lists, Complete
<1>5. QED BY <1>3, <1>4 DEF Lists

\* Every call but this one is as it was.
Spared(c) ==
    \A d \in Calls \ {c} :
        /\ pc'[d] = pc[d] /\ req'[d] = req[d] /\ who'[d] = who[d] /\ status'[d] = status[d]
        /\ shown'[d] = shown[d] /\ before'[d] = before[d]

\* A reply that lists nothing of one's own.
LEMMA ReplyKeeps ==
    ASSUME Inv, Lists, NEW c \in Calls, Spared(c), pc[c] # "idle",
           UNCHANGED <<req, before>>,
           Keyed(stamp)', Keyed(status)', Keyed(shown)', Dates',
           \A x \in rows : \E y \in rows' : SameRow(x, y),
           pc'[c] \in Routes => pc'[c] = req[c].op,
           status'[c] = 200 => pc'[c] = "done" /\ req[c].op # "mine"
    PROVE  Lists'
<1>1. Complete(c)'
  BY DEF Complete
<1>2. Keyed(before)'
  BY DEF Lists, Listing, Keyed
<1>3. \A x \in before'[c] : \E y \in rows : SameRow(x, y)
  BY DEF Lists, Listing
<1>4. req'[c].op = "mine" => req'[c].limit \in Nat
  BY DEF Lists, Listing
<1>5. QED BY <1>1, <1>2, <1>3, <1>4, ListsFrame DEF Spared

\* A row is the same row as itself.
LEMMA RowsStay == \A x \in rows : SameRow(x, x)
BY DEF SameRow

\* Callers are identified, and requests made, without a list in the reply.
LEMMA MakingKeeps ==
    ASSUME Inv, Lists, NEW c \in Calls, Identify(c) \/ Create(c) PROVE Lists'
<1>1. /\ UNCHANGED <<rows, req, before, shown>> /\ pc[c] # "idle" /\ status[c] # 200
  BY DEF Identify, Create, table, Lists, Listing
<1>2. Keyed(pc) /\ Keyed(who) /\ Keyed(status) /\ Keyed(stamp) /\ Keyed(shown)
  BY DEF Inv, Calling, Lists, Listing
<1>3. /\ \/ pc' = [pc EXCEPT ![c] = req[c].op] /\ status' = status
         \/ pc' = [pc EXCEPT ![c] = "insert"] /\ status' = status
         \/ \E code \in {400, 401, 403, 422} : /\ pc' = [pc EXCEPT ![c] = "done"]
                                               /\ status' = [status EXCEPT ![c] = code]
      /\ \/ who' = who
         \/ who' = [who EXCEPT ![c] = Current(req[c].headers, keys, expired)]
      /\ \/ UNCHANGED <<stamp, clock>>
         \/ stamp' = [stamp EXCEPT ![c] = clock] /\ clock' = clock + 1
  BY DEF Identify, Create, Goto, Reply
<1>4. Spared(c) /\ Keyed(stamp)' /\ Keyed(status)' /\ Keyed(shown)'
  <2>1. \A d \in Calls \ {c} : pc'[d] = pc[d] /\ status'[d] = status[d]
    BY <1>2, <1>3 DEF Keyed
  <2>2. \A d \in Calls \ {c} : who'[d] = who[d]
    BY <1>2, <1>3 DEF Keyed
  <2>3. Keyed(stamp)' /\ Keyed(status)'
    BY <1>2, <1>3 DEF Keyed
  <2>4. QED BY <1>1, <1>2, <2>1, <2>2, <2>3 DEF Spared, Keyed
<1>5. Dates'
  BY <1>1, <1>2, <1>3 DEF Lists, Dates, Keyed
<1>6. /\ pc'[c] \in Routes => pc'[c] = req[c].op
      /\ status'[c] # 200
  BY <1>1, <1>2, <1>3 DEF Keyed, Routes
<1>7. QED BY <1>1, <1>4, <1>5, <1>6, RowsStay, ReplyKeeps

\* Inserting adds a row and drops none.
LEMMA InsertKeeps ==
    ASSUME Inv, Lists, NEW c \in Calls, Insert(c) PROVE Lists'
<1>1. /\ UNCHANGED <<req, before, shown, stamp, clock, who>> /\ pc[c] # "idle"
      /\ pc' = [pc EXCEPT ![c] = "done"]
      /\ \E code \in {201, 500} : status' = [status EXCEPT ![c] = code]
      /\ rows' = rows \/ rows' = rows \cup {NewRow(c)}
  BY DEF Insert, Reply, Status
<1>2. Keyed(pc) /\ Keyed(status) /\ Keyed(stamp) /\ Keyed(shown)
  BY DEF Inv, Calling, Lists, Listing
<1>3. NewRow(c).at = stamp[c]
  BY DEF NewRow
<1>4. Dates'
  BY <1>1, <1>3, FS_AddElement DEF Lists, Dates, Dated
<1>5. Spared(c) /\ Keyed(stamp)' /\ Keyed(status)' /\ Keyed(shown)'
  BY <1>1, <1>2 DEF Spared, Keyed
<1>6. pc'[c] \notin Routes /\ status'[c] # 200
  BY <1>1, <1>2 DEF Keyed, Routes
<1>7. \A x \in rows : \E y \in rows' : SameRow(x, y)
  BY <1>1, RowsStay
<1>8. UNCHANGED <<req, before>> /\ pc[c] # "idle"
  BY <1>1
<1>9. QED BY <1>4, <1>5, <1>6, <1>7, <1>8, ReplyKeeps

\* The history and an approval list nothing of one's own; an approval keeps every
\* row, and when it was made.
LEMMA AdminKeeps ==
    ASSUME Inv, Lists, NEW c \in Calls, ListAll(c) \/ Approve(c) PROVE Lists'
<1> DEFINE hit == {x \in rows : x.id = req[c].id}
           done(x) == [x EXCEPT !.status = "fulfilled"]
<1>1. /\ UNCHANGED <<req, before, stamp, clock, who>> /\ pc[c] \in {"history", "approve"}
      /\ pc' = [pc EXCEPT ![c] = "done"]
      /\ \E code : status' = [status EXCEPT ![c] = code]
      /\ \/ rows' = rows
         \/ rows' = (rows \ hit) \cup {done(x) : x \in hit}
      /\ \/ shown' = shown
         \/ \E list : shown' = [shown EXCEPT ![c] = list]
  BY DEF ListAll, Approve, Reply, table
<1>2. Keyed(pc) /\ Keyed(status) /\ Keyed(stamp) /\ Keyed(shown)
  BY DEF Inv, Calling, Lists, Listing
<1>3. \A x \in rows : SameRow(x, done(x))
  <2> SUFFICES ASSUME NEW x \in rows PROVE SameRow(x, done(x))
    OBVIOUS
  <2>1. Filed(x)
    BY DEF Inv, Files
  <2> DEFINE y == [id |-> x.id, book |-> x.book, by |-> x.by, at |-> x.at, status |-> x.status]
  <2>2. x = y
    BY <2>1 DEF Filed
  <2>3. LET z == [y EXCEPT !.status = "fulfilled"] IN z.id = y.id /\ z.by = y.by /\ z.at = y.at
    OBVIOUS
  <2>4. QED BY <2>2, <2>3 DEF SameRow
<1>4. Dates'
  <2>1. CASE rows' = rows
    BY <1>1, <2>1 DEF Lists, Dates
  <2>2. CASE rows' = (rows \ hit) \cup {done(x) : x \in hit}
    <3>1. IsFiniteSet(hit) /\ IsFiniteSet(rows \ hit)
      BY FS_Subset DEF Lists, Dates, Dated
    <3>2. IsFiniteSet({done(x) : x \in hit})
      <4> DEFINE f == [x \in hit |-> done(x)]
                 T == {done(x) : x \in hit}
      <4>1. f \in Surjection(hit, T)
        BY DEF Surjection
      <4> HIDE DEF f, T
      <4>2. IsFiniteSet(T)
        BY <3>1, <4>1, FS_Surjection
      <4>3. QED BY <4>2 DEF T
    <3>3. IsFiniteSet(rows')
      BY <2>2, <3>1, <3>2, FS_Union
    <3>4. \A x \in rows' : x.at \in Nat
      BY <1>3, <2>2 DEF Lists, Dates, Dated, SameRow
    <3>5. QED BY <1>1, <3>3, <3>4 DEF Lists, Dates, Dated
  <2>3. QED BY <1>1, <2>1, <2>2
<1>5. \A x \in rows : \E y \in rows' : SameRow(x, y)
  BY <1>1, <1>3, RowsStay
<1> HIDE DEF hit, done
<1>6. Spared(c) /\ Keyed(stamp)' /\ Keyed(status)' /\ Keyed(shown)'
  BY <1>1, <1>2 DEF Spared, Keyed
<1>7. pc'[c] = "done" /\ req[c].op # "mine"
  BY <1>1, <1>2 DEF Keyed, Lists, Listing, Routes
<1>8. QED BY <1>1, <1>4, <1>5, <1>6, <1>7, ReplyKeeps DEF Routes

\* A request comes with the rows on file.
LEMMA ComingKeeps ==
    ASSUME Inv, Lists, NEW c \in Calls, NEW q \in Traffic[c], Arrive(c, q) PROVE Lists'
<1>1. /\ UNCHANGED <<rows, clock, stamp, status, shown, who>> /\ pc[c] = "idle"
      /\ req' = [req EXCEPT ![c] = q] /\ before' = [before EXCEPT ![c] = rows]
      /\ pc' = [pc EXCEPT ![c] = "identify"]
  BY DEF Arrive, Goto, table
<1>2. /\ Keyed(pc) /\ Keyed(status) /\ Keyed(stamp) /\ Keyed(shown) /\ Keyed(req)
      /\ Keyed(before) /\ status[c] # 200
  BY <1>1 DEF Inv, Calling, Lists, Listing
<1>3. Spared(c) /\ Keyed(stamp)' /\ Keyed(status)' /\ Keyed(shown)' /\ Keyed(before)'
  BY <1>1, <1>2 DEF Spared, Keyed
<1>4. Dates'
  BY <1>1 DEF Lists, Dates
<1>5. /\ pc'[c] \notin Routes /\ status'[c] # 200 /\ before'[c] = rows
      /\ req'[c].op = "mine" => req'[c].limit \in Nat
  BY <1>1, <1>2, TrafficAssumption DEF Keyed, Routes
<1>6. Complete(c)'
  BY <1>5 DEF Complete
<1>7. QED BY <1>1, <1>3, <1>4, <1>5, <1>6, RowsStay, ListsFrame DEF Spared

\* My list has the newest of my rows, whatever has become of them since I asked.
LEMMA MineKeeps ==
    ASSUME Inv, Lists, NEW c \in Calls, ListForUser(c) PROVE Lists'
<1> DEFINE own == {x \in rows : x.by = who[c].name}
           list == Newest(Newest(own, MineLimit), req[c].limit)
<1>1. /\ UNCHANGED <<rows, clock, stamp, req, before, who>> /\ pc[c] = "mine"
      /\ shown' = [shown EXCEPT ![c] = list]
      /\ pc' = [pc EXCEPT ![c] = "done"] /\ status' = [status EXCEPT ![c] = 200]
  BY DEF ListForUser, Reply, table
<1>2. /\ Keyed(pc) /\ Keyed(status) /\ Keyed(stamp) /\ Keyed(shown) /\ Keyed(before)
      /\ req[c].limit \in Nat
  BY <1>1 DEF Inv, Calling, Lists, Listing, Routes
<1>3. Dated(own)
  BY FS_Subset DEF Lists, Dates, Dated
<1>4. Complete(c)'
  <2>1. shown'[c] = list
    BY <1>1, <1>2 DEF Keyed
  <2>2. list \in SUBSET own
    BY DEF Newest
  <2>3. ASSUME NEW x \in before[c], x.by = who[c].name, x.id \notin {y.id : y \in list}
        PROVE  /\ Cardinality(list) >= req[c].limit \/ Cardinality(list) >= MineLimit
               /\ \A y \in list : y.at >= x.at
    <3>1. PICK z \in rows : SameRow(x, z)
      BY <1>1 DEF Lists, Listing
    <3>2. z \in own /\ z \notin list /\ z.at = x.at
      BY <2>3, <3>1 DEF SameRow
    <3> HIDE DEF own
    <3>3. QED BY <1>2, <1>3, <3>2, NewestTwice, LimitAssumption
  <2>4. QED BY <1>1, <2>1, <2>2, <2>3 DEF Complete
<1> HIDE DEF list
<1>5. Spared(c) /\ Keyed(stamp)' /\ Keyed(status)' /\ Keyed(shown)' /\ Keyed(before)'
  BY <1>1, <1>2 DEF Spared, Keyed
<1>6. Dates'
  BY <1>1 DEF Lists, Dates
<1>7. /\ pc'[c] = "done" /\ \A x \in before'[c] : \E y \in rows : SameRow(x, y)
  BY <1>1, <1>2 DEF Keyed, Lists, Listing
<1>8. QED BY <1>1, <1>2, <1>4, <1>5, <1>6, <1>7, RowsStay, ListsFrame DEF Spared, Routes

\* My list has rows of mine alone and leaves out none that was on file when I asked,
\* unless it is full of others at least as new.
THEOREM MineIsComplete == Spec => []MineComplete
<1>1. Init => Lists
  BY FS_EmptySet
     DEF Init, Lists, Dates, Dated, Listing, Keyed, Complete, Routes
<1>2. ASSUME Inv, Lists, [Next]_vars PROVE Lists'
  <2>1. ASSUME NEW c \in Calls, Handle(c) PROVE Lists'
    BY <1>2, <2>1, MakingKeeps, InsertKeeps, AdminKeeps, MineKeeps DEF Handle
  <2>2. ASSUME NEW c \in Calls, NEW q \in Traffic[c], Arrive(c, q) PROVE Lists'
    BY <1>2, <2>2, ComingKeeps
  <2>3. CASE (\E t \in Tokens : Expire(t)) \/ UNCHANGED vars
    <3>1. UNCHANGED <<rows, clock, pc, req, who, stamp, status, shown, before>>
      BY <2>3 DEF Expire, vars, table
    <3>2. QED BY <1>2, <3>1 DEF Lists, Dates, Listing, Keyed, Complete
  <2>4. QED BY <1>2, <2>1, <2>2, <2>3 DEF Next
<1>3. Lists => MineComplete
  BY DEF Lists, Complete, MineComplete
<1>4. QED BY <1>1, <1>2, <1>3, InvHolds, PTL DEF Spec
=============================================================================
