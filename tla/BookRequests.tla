---------------------------- MODULE BookRequests ----------------------------
(***************************************************************************)
(* Requests for books, from their headers to their rows: who asks is       *)
(* settled first, then the body is looked at, and then the table is read   *)
(* or written in one round trip.  Many HTTP requests are under way at      *)
(* once, tokens expire, and a book request is stamped by the server before *)
(* the database has it.                                                    *)
(***************************************************************************)
EXTENDS Access

CONSTANTS
    Calls,       \* HTTP requests
    Traffic,     \* what each of them may ask
    Users,       \* names on file
    Books,
    Lasting,     \* tokens that outlast the run
    MineLimit, HistoryLimit   \* the most rows the repository lists

Routes == {"create", "mine", "history", "approve"}
ASSUME TrafficAssumption ==
    \A c \in Calls : \A q \in Traffic[c] :
        q.op \in Routes /\ (q.op = "mine" => q.limit \in Nat)
ASSUME LimitAssumption == MineLimit \in Nat

VARIABLES
    keys,        \* which secrets the process was started with
    expired,     \* tokens past their time
    clock,       \* of the server
    rows,        \* book_requests
    pc, req,
    who,         \* whom each request speaks for
    stamp,       \* when its handler made the row it will insert
    status,      \* the reply
    shown,       \* the rows listed in it
    before,      \* the rows on file when it came (history)
    actor        \* who fulfilled each row (history)

vars == <<keys, expired, clock, rows, pc, req, who, stamp, status, shown, before, actor>>
table == <<rows, actor>>

Init ==
    /\ keys \in SUBSET {"jwt", "internal"}
    /\ expired = {} /\ clock = 0 /\ rows = {} /\ actor = {}
    /\ pc = [c \in Calls |-> "idle"]
    /\ req = [c \in Calls |-> Nobody]
    /\ who = [c \in Calls |-> Nobody]
    /\ stamp = [c \in Calls |-> 0]
    /\ status = [c \in Calls |-> 0]
    /\ shown = [c \in Calls |-> {}]
    /\ before = [c \in Calls |-> {}]

Goto(c, step) == pc' = [pc EXCEPT ![c] = step] /\ UNCHANGED status
Reply(c, code) ==
    /\ pc' = [pc EXCEPT ![c] = "done"]
    /\ status' = [status EXCEPT ![c] = code]

Expire(t) ==
    /\ t \notin expired
    /\ expired' = expired \cup {t}
    /\ UNCHANGED <<keys, clock, table, pc, req, who, stamp, status, shown, before>>

Arrive(c, q) ==
    /\ pc[c] = "idle"
    /\ req' = [req EXCEPT ![c] = q]
    /\ before' = [before EXCEPT ![c] = rows]
    /\ Goto(c, "identify")
    /\ UNCHANGED <<keys, expired, clock, table, who, stamp, shown>>

-----------------------------------------------------------------------------
(* The dependencies run before the body is looked at. *)

\* What each route asks of its caller (mutant: whoever may ask may approve).
PermissionToAsk(op) == "book_request_create"
Permission(op) ==
    IF op \in {"create", "mine"} THEN "book_request_create" ELSE "book_request_history"

Identify(c) ==
    LET user == Current(req[c].headers, keys, expired)
    IN  /\ pc[c] = "identify"
        /\ who' = [who EXCEPT ![c] = user]
        /\ IF user = Nobody THEN Reply(c, 401)
           ELSE IF ~Allowed(user, Permission(req[c].op)) THEN Reply(c, 403)
           ELSE IF ~req[c].wellFormed THEN Reply(c, 422)
           ELSE Goto(c, req[c].op)
        /\ UNCHANGED <<keys, expired, clock, table, req, stamp, shown, before>>

-----------------------------------------------------------------------------
(* Handlers *)

\* create_book_request stamps the row ...
Create(c) ==
    /\ pc[c] = "create"
    /\ IF req[c].priority \notin {"cant_wait", "important", "immediate"}
       THEN Reply(c, 400) /\ UNCHANGED <<clock, stamp>>
       ELSE /\ clock' = clock + 1
            /\ stamp' = [stamp EXCEPT ![c] = clock]
            /\ Goto(c, "insert")
    /\ UNCHANGED <<keys, expired, table, req, who, shown, before>>

NewRow(c) ==
    [id |-> Cardinality(rows) + 1, book |-> req[c].book, by |-> who[c].name,
     at |-> stamp[c], status |-> "pending"]

\* ... and the repository inserts it: the book and the user have to be on file.
Insert(c) ==
    /\ pc[c] = "insert"
    /\ IF req[c].book \in Books /\ who[c].name \in Users
       THEN /\ rows' = rows \cup {NewRow(c)}
            /\ Reply(c, 201)
       ELSE UNCHANGED rows /\ Reply(c, Status("APIError"))
    /\ UNCHANGED <<keys, expired, clock, actor, req, who, stamp, shown, before>>

\* The newest of some rows, as many as the limit (mutant: the oldest).
Oldest(S, limit) == {x \in S : Cardinality({y \in S : y.at < x.at}) < limit}
Newest(S, limit) == {x \in S : Cardinality({y \in S : y.at > x.at}) < limit}

ListForUser(c) ==
    /\ pc[c] = "mine"
    /\ LET own == {x \in rows : x.by = who[c].name}
       IN  shown' = [shown EXCEPT ![c] = Newest(Newest(own, MineLimit), req[c].limit)]
    /\ Reply(c, 200)
    /\ UNCHANGED <<keys, expired, clock, table, req, who, stamp, before>>

ListAll(c) ==
    /\ pc[c] = "history"
    /\ shown' = [shown EXCEPT ![c] = Newest(Newest(rows, HistoryLimit), req[c].limit)]
    /\ Reply(c, 200)
    /\ UNCHANGED <<keys, expired, clock, table, req, who, stamp, before>>

\* update_status writes whatever the status was.
Approve(c) ==
    LET hit == {x \in rows : x.id = req[c].id}
    IN  /\ pc[c] = "approve"
        /\ rows' = (rows \ hit) \cup {[x EXCEPT !.status = "fulfilled"] : x \in hit}
        /\ actor' = actor \cup {[id |-> x.id, who |-> who[c]] : x \in hit}
        /\ Reply(c, IF hit = {} THEN Status("ValueError") ELSE 200)
        /\ UNCHANGED <<keys, expired, clock, req, who, stamp, shown, before>>

Tokens == {q.headers.token : q \in UNION {Traffic[c] : c \in Calls}} \ ({Nobody} \cup Lasting)

Handle(c) == Identify(c) \/ Create(c) \/ Insert(c) \/ ListForUser(c) \/ ListAll(c) \/ Approve(c)
Next ==
    \/ \E c \in Calls : Handle(c) \/ \E q \in Traffic[c] : Arrive(c, q)
    \/ \E t \in Tokens : Expire(t)

Spec == Init /\ [][Next]_vars

-----------------------------------------------------------------------------

\* A request with a token is served in the name of the token, as long as it was
\* signed and this process can tell, or not at all, whatever names its other
\* headers give; only the secret of the other pods goes before it.
TokenDecides ==
    \A c \in Calls :
        who[c] \notin {Nobody, Service} /\ req[c].headers.token # Nobody =>
            LET t == req[c].headers.token
            IN  "jwt" \in keys /\ t.signed /\ who[c].name = t.name

\* Every request on file was made by somebody on file, and whoever fulfilled it was
\* an admin, by a header that let nobody else speak for one.
FulfilledByAdmin ==
    \A x \in rows :
        /\ x.by \in Users
        /\ x.status = "fulfilled" => \A a \in actor : a.id = x.id => a.who.role = "admin"

\* My list has rows of mine alone, and every row I had on file when I asked, unless it
\* was full and all it shows is at least as new, by the time the server stamped it.
MineComplete ==
    \A c \in Calls :
        status[c] = 200 /\ req[c].op = "mine" =>
            /\ \A x \in shown[c] : x.by = who[c].name
            /\ \A x \in before[c] :
                 x.by = who[c].name /\ x.id \notin {y.id : y \in shown[c]} =>
                     /\ Cardinality(shown[c]) >= req[c].limit \/ Cardinality(shown[c]) >= MineLimit
                     /\ \A y \in shown[c] : y.at >= x.at
=============================================================================
