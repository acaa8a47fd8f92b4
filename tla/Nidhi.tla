------------------------------- MODULE Nidhi -------------------------------
(***************************************************************************)
(* The Nidhi funds: contributions and redemptions are requested, then      *)
(* decided, and a decision moves money between a person's two balances.    *)
(*                                                                         *)
(* Every endpoint is a plain function that the server runs in a thread of  *)
(* its own; each repository call is a round trip to the database, and      *)
(* nothing ties the round trips of a request together.  A handler here is  *)
(* one run of an endpoint (NidhiDomain, SupabaseNidhiRepository), one      *)
(* action per round trip; handlers interleave, and one may end in an       *)
(* exception between any two of its round trips.                           *)
(***************************************************************************)
EXTENDS Integers, Sequences, FiniteSets, Sums

CONSTANTS
    Handlers,      \* runs of an endpoint
    People,
    Requests,      \* the calls that may arrive
    OnFile,        \* transactions recorded before the model starts
    Balances,      \* balances then
    Overlap,       \* which decisions may run at the same time
    MayFail,       \* a round trip may raise
    None

Funds    == {"tirtha", "contribution"}
Types    == {"contribution", "redemption"}
Statuses == {"pending", "approved", "rejected"}

Row == [type : Types, user : People, by : People, fund : Funds, amount : Nat,
        split : [Funds -> Nat], status : Statuses, decider : People \cup {None},
        after : Int]

Raise   == [op : {"contribute", "redeem"}, user : People, by : People,
            fund : Funds, amount : Int]
Decide  == [op : {"approveContribution", "rejectContribution", "rejectRedemption"},
            id : Nat, by : People]
Review  == [op : {"approveRedemption"}, id : Nat, by : People,
            split : [Funds -> Int] \cup {None}, amount : Int \cup {None},
            fund : Funds \cup {None}, user : People \cup {None}]

\* The edits of a review, as they are written.
Patch   == [amount : Nat \cup {None}, fund : Funds \cup {None},
            user : People \cup {None}, split : [Funds -> Nat] \cup {None}]

Total(split) == split["tirtha"] + split["contribution"]

\* An amount booked whole on one fund, as add_transaction and the derived
\* split of update_transaction do.
Whole(fund, amount) == [f \in Funds |-> IF f = fund THEN amount ELSE 0]

ASSUME NidhiAssumption ==
    /\ Requests \subseteq Raise \cup Decide \cup Review
    /\ OnFile \in Seq(Row)
    /\ Balances \in [People -> [Funds -> Nat]]
    /\ Overlap \in {"any", "request", "requester"}
    /\ MayFail \in BOOLEAN
    /\ None \notin People \cup Funds \cup Int \cup [Funds -> Int] \cup Row
\* A row without a split is read as one on its own fund, so every row adds up, to
\* more than nothing, as each did when it was raised or corrected.
ASSUME FileAssumption ==
    \A i \in DOMAIN OnFile : /\ Total(OnFile[i].split) = OnFile[i].amount
                             /\ OnFile[i].amount > 0

VARIABLES
    balance,    \* nidhi_balances
    txns,       \* nidhi_transactions, by id
    moved,      \* what each transaction has moved so far, per fund (history)
    pc, req,    \* where each handler stands and what it was asked
    txn,        \* its local copy of the row
    patch,      \* the edits it is about to write
    due,        \* the balance changes it still has to make
    stamp       \* the balance it will write into balance_after

local == <<req, txn, patch, due, stamp>>
vars  == <<balance, txns, moved, pc, local>>

Ended == {"idle", "done", "refused", "failed"}

NoMove == [f \in Funds |-> 0]

\* What a row moves when it is approved as it stands.
Worth(row) == [f \in Funds |-> IF row.type = "contribution" THEN row.split[f] ELSE -row.split[f]]

Init ==
    /\ balance = Balances
    /\ txns = OnFile
    /\ moved = [i \in DOMAIN OnFile |->
                   IF OnFile[i].status = "approved" THEN Worth(OnFile[i]) ELSE NoMove]
    /\ pc = [h \in Handlers |-> "idle"]
    /\ req = [h \in Handlers |-> None]
    /\ txn = [h \in Handlers |-> None]
    /\ patch = [h \in Handlers |-> None]
    /\ due = [h \in Handlers |-> <<>>]
    /\ stamp = [h \in Handlers |-> 0]

\* Ids are generated by the database: a call names one it has been shown, or
\* one that does not exist.
NotAnId == 0

Goto(h, label) == pc' = [pc EXCEPT ![h] = label]
Id(h) == req[h].id

-----------------------------------------------------------------------------
(* The request arrives. *)

Raises(q) == q.op \in {"contribute", "redeem"}

\* Decisions under way that concern what q would decide: on the same row, or
\* on any row of the same requester.
Rivals(q) ==
    {h \in Handlers :
        /\ pc[h] \notin Ended /\ ~Raises(req[h])
        /\ \/ Id(h) = q.id
           \/ /\ Overlap = "requester"
              /\ {Id(h), q.id} \subseteq DOMAIN txns
              /\ txns[Id(h)].by = txns[q.id].by}

Arrive(h, q) ==
    /\ pc[h] = "idle"
    /\ ~Raises(q) => /\ q.id \in DOMAIN txns \cup {NotAnId}
                     /\ Overlap # "any" => Rivals(q) = {}
    /\ req' = [req EXCEPT ![h] = q]
    /\ Goto(h, IF Raises(q)
               THEN IF q.amount <= 0 THEN "refused"
                    ELSE IF q.op = "redeem" THEN "afford" ELSE "today"
               ELSE "check")
    /\ UNCHANGED <<balance, txns, moved, txn, patch, due, stamp>>

-----------------------------------------------------------------------------
(* Raising a request: contribute, request_redeem. *)

\* request_redeem reads the balance of whoever performs it.
Afford(h) ==
    /\ pc[h] = "afford"
    /\ Goto(h, IF req[h].amount > balance[req[h].by][req[h].fund]
               THEN "refused" ELSE "today")
    /\ UNCHANGED <<balance, txns, moved, local>>

\* add_transaction stamps today's balance ...
Today(h) ==
    /\ pc[h] = "today"
    /\ stamp' = [stamp EXCEPT ![h] = balance[req[h].by][req[h].fund]]
    /\ Goto(h, "insert")
    /\ UNCHANGED <<balance, txns, moved, req, txn, patch, due>>

\* ... and inserts the row.
Insert(h) ==
    /\ pc[h] = "insert"
    /\ LET q == req[h]
       IN  txns' = Append(txns,
               [type |-> IF q.op = "redeem" THEN "redemption" ELSE "contribution",
                user |-> q.user, by |-> q.by, fund |-> q.fund, amount |-> q.amount,
                split |-> Whole(q.fund, q.amount), status |-> "pending",
                decider |-> None, after |-> stamp[h]])
    /\ moved' = Append(moved, NoMove)
    /\ Goto(h, "done")
    /\ UNCHANGED <<balance, local>>

-----------------------------------------------------------------------------
(* Deciding: _require_pending and what each decision checks with it. *)

\* Mutant: only the kind of request is checked.
PendingKind(i, type) == i \in DOMAIN txns /\ txns[i].type = type
Pending(i, type) == /\ i \in DOMAIN txns
                    /\ txns[i].type = type
                    /\ txns[i].status = "pending"

\* Only its recipient decides a contribution (mutant: anybody does).
Anybody(q) == TRUE
Recipient(q) == q.by = txns[q.id].user

CheckContribution(h) ==
    /\ pc[h] = "check"
    /\ req[h].op \in {"approveContribution", "rejectContribution"}
    /\ IF Pending(Id(h), "contribution") /\ Recipient(req[h])
       THEN LET row == txns[Id(h)]
            IN  /\ txn' = [txn EXCEPT ![h] = row]
                /\ IF req[h].op = "approveContribution"
                   THEN /\ due' = [due EXCEPT ![h] = <<<<row.fund, row.amount>>>>]
                        /\ Goto(h, "move")
                   ELSE /\ UNCHANGED due
                        /\ Goto(h, "decide")
       ELSE Goto(h, "refused") /\ UNCHANGED <<txn, due>>
    /\ UNCHANGED <<balance, txns, moved, req, patch, stamp>>

CheckRejection(h) ==
    /\ pc[h] = "check" /\ req[h].op = "rejectRedemption"
    /\ Goto(h, IF Pending(Id(h), "redemption") THEN "decide" ELSE "refused")
    /\ UNCHANGED <<balance, txns, moved, local>>

\* The edits of a review.  A split fixes the amount, and the fund too when all
\* of it is on one.
Fund(q) ==
    IF q.split = None THEN q.fund
    ELSE IF q.split["contribution"] <= 0 THEN "tirtha"
    ELSE IF q.split["tirtha"] <= 0 THEN "contribution"
    ELSE q.fund
\* Mutant: a split leaves the amount as the form sent it.
AmountAsSent(q) == q.amount
Amount(q) == IF q.split = None THEN q.amount ELSE Total(q.split)

\* Mutant: a split only has to add up to something.
AcceptableTotal(q) ==
    IF q.split = None THEN q.amount = None \/ q.amount > 0 ELSE Total(q.split) > 0
Acceptable(q) ==
    IF q.split = None THEN q.amount = None \/ q.amount > 0
    ELSE (\A f \in Funds : q.split[f] >= 0) /\ Total(q.split) > 0

Edits(q)   == [amount |-> Amount(q), fund |-> Fund(q), user |-> q.user, split |-> q.split]

\* An edit without a split that changes what the split should be (mutants: only
\* the amount counts; only the fund does).
DerivesByAmount(p) == p.split = None /\ p.amount # None
DerivesByFund(p)   == p.split = None /\ p.fund # None
Derives(p) == p.split = None /\ (p.amount # None \/ p.fund # None)

CheckReview(h) ==
    /\ pc[h] = "check" /\ req[h].op = "approveRedemption"
    /\ IF Pending(Id(h), "redemption") /\ Acceptable(req[h])
       THEN LET p == Edits(req[h])
            IN  /\ txn' = [txn EXCEPT ![h] = txns[Id(h)]]
                /\ patch' = [patch EXCEPT ![h] = p]
                /\ Goto(h, IF \A k \in DOMAIN p : p[k] = None THEN "funds"
                           ELSE IF Derives(p) THEN "derive" ELSE "edit")
       ELSE Goto(h, "refused") /\ UNCHANGED <<txn, patch>>
    /\ UNCHANGED <<balance, txns, moved, req, due, stamp>>

Or(new, kept) == IF new = None THEN kept ELSE new

\* update_transaction, first: an edit without a split gets one, computed from
\* the row as it is now.
Derive(h) ==
    /\ pc[h] = "derive"
    /\ LET row == txns[Id(h)]
           p == patch[h]
       IN  patch' = [patch EXCEPT ![h].split =
                        Whole(Or(p.fund, row.fund), Or(p.amount, row.amount))]
    /\ Goto(h, "edit")
    /\ UNCHANGED <<balance, txns, moved, req, txn, due, stamp>>

Edit(h) ==
    /\ pc[h] = "edit"
    /\ LET p == patch[h]
           row == txns[Id(h)]
           new == [row EXCEPT !.amount = Or(p.amount, @), !.fund = Or(p.fund, @),
                              !.user = Or(p.user, @), !.split = Or(p.split, @)]
       IN  /\ txns' = [txns EXCEPT ![Id(h)] = new]
           /\ txn' = [txn EXCEPT ![h] = new]
    /\ Goto(h, "funds")
    /\ UNCHANGED <<balance, moved, req, patch, due, stamp>>

\* What an approved redemption takes, fund by fund (mutant: all of it from the
\* row's fund).
DebitsOneFund(h) == <<<<txn[h].fund, -txn[h].amount>>>>
Debits(h) ==
    LET debit(f) == IF req[h].split[f] = 0 THEN <<>> ELSE <<<<f, -req[h].split[f]>>>>
    IN  IF req[h].split = None THEN <<<<txn[h].fund, -txn[h].amount>>>>
        ELSE debit("tirtha") \o debit("contribution")

\* Mutant: the two funds together have to cover the redemption.
AffordableTotal(h) == txn[h].amount <= Total(balance[txn[h].by])
Affordable(h) ==
    LET funds == balance[txn[h].by]
    IN  IF req[h].split = None THEN txn[h].amount <= funds[txn[h].fund]
        ELSE \A f \in Funds : req[h].split[f] <= funds[f]

\* The requester's balances are read once and must cover the redemption.
CheckFunds(h) ==
    /\ pc[h] = "funds"
    /\ IF Affordable(h)
       THEN due' = [due EXCEPT ![h] = Debits(h)] /\ Goto(h, "move")
       ELSE UNCHANGED due /\ Goto(h, "refused")
    /\ UNCHANGED <<balance, txns, moved, req, txn, patch, stamp>>

-----------------------------------------------------------------------------
(* Moving the money and writing the decision. *)

\* One adjust_balance call.  It is always the requester's balance.
MoveMoney(h) ==
    /\ pc[h] = "move"
    /\ LET fund == Head(due[h])[1]
           sum  == Head(due[h])[2]
       IN  /\ balance' = [balance EXCEPT ![txn[h].by][fund] = @ + sum]
           /\ moved' = [moved EXCEPT ![Id(h)][fund] = @ + sum]
    /\ due' = [due EXCEPT ![h] = Tail(@)]
    /\ Goto(h, IF Len(due[h]) = 1 THEN "reload" ELSE "move")
    /\ UNCHANGED <<txns, req, txn, patch, stamp>>

\* update_transaction reads the row, then its balance, to stamp an approval.
Reload(h) ==
    /\ pc[h] = "reload"
    /\ txn' = [txn EXCEPT ![h] = txns[Id(h)]]
    /\ Goto(h, "stamp")
    /\ UNCHANGED <<balance, txns, moved, req, patch, due, stamp>>

\* Mutant: the balance of whoever decides.
StampDecider(h) ==
    /\ pc[h] = "stamp"
    /\ stamp' = [stamp EXCEPT ![h] = balance[req[h].by][txn[h].fund]]
    /\ Goto(h, "decide")
    /\ UNCHANGED <<balance, txns, moved, req, txn, patch, due>>
Stamp(h) ==
    /\ pc[h] = "stamp"
    /\ stamp' = [stamp EXCEPT ![h] = balance[txn[h].by][txn[h].fund]]
    /\ Goto(h, "decide")
    /\ UNCHANGED <<balance, txns, moved, req, txn, patch, due>>

\* The status is written whatever it is by now.
WriteDecision(h) ==
    /\ pc[h] = "decide"
    /\ LET i == Id(h)
           approves == req[h].op \in {"approveContribution", "approveRedemption"}
       IN  txns' = [txns EXCEPT
               ![i].status  = IF approves THEN "approved" ELSE "rejected",
               ![i].decider = req[h].by,
               ![i].after   = IF approves THEN stamp[h] ELSE @]
    /\ Goto(h, "done")
    /\ UNCHANGED <<balance, moved, local>>

\* A round trip raises, before or after it took effect.
Fail(h) ==
    /\ MayFail
    /\ pc[h] \notin Ended
    /\ Goto(h, "failed")
    /\ UNCHANGED <<balance, txns, moved, local>>

Step(h) ==
    \/ Afford(h) \/ Today(h) \/ Insert(h)
    \/ CheckContribution(h) \/ CheckRejection(h) \/ CheckReview(h)
    \/ Derive(h) \/ Edit(h) \/ CheckFunds(h)
    \/ MoveMoney(h) \/ Reload(h) \/ Stamp(h) \/ WriteDecision(h)

Rest == (\A h \in Handlers : pc[h] \in Ended) /\ UNCHANGED vars

Next == \/ \E h \in Handlers : Step(h) \/ Fail(h) \/ \E q \in Requests : Arrive(h, q)
        \/ Rest

Spec == Init /\ [][Next]_vars /\ \A h \in Handlers : WF_vars(Step(h))

-----------------------------------------------------------------------------
(* Properties. *)

\* The shape of the state: amounts and splits on file stay natural numbers.
TypeOK ==
    /\ balance \in [People -> [Funds -> Int]]
    /\ txns \in Seq(Row)
    /\ moved \in Seq([Funds -> Int]) /\ Len(moved) = Len(txns)
    /\ pc \in [Handlers -> Ended \cup {"afford", "today", "insert", "check", "derive",
                                       "edit", "funds", "move", "reload", "stamp", "decide"}]
    /\ req \in [Handlers -> Requests \cup {None}]
    /\ txn \in [Handlers -> Row \cup {None}]
    /\ patch \in [Handlers -> Patch \cup {None}]
    /\ due \in [Handlers -> Seq(Funds \X Int)]
    /\ stamp \in [Handlers -> Int]

\* The split columns tell what moved: an approved row has moved exactly its
\* split, a rejected one nothing, and an open one nothing unless the handler
\* that is approving it is between its first balance change and its decision.
MovesMatch ==
    \A i \in DOMAIN txns :
        CASE txns[i].status = "approved" -> moved[i] = Worth(txns[i])
          [] txns[i].status = "rejected" -> moved[i] = NoMove
          [] OTHER -> moved[i] # NoMove =>
                \E h \in Handlers : /\ pc[h] \in {"move", "reload", "stamp", "decide"}
                                    /\ Id(h) = i /\ txn[h] # None

\* A row's split always adds up to its amount, whichever edits are refused
\* half way.
SplitSums == \A i \in DOMAIN txns : Total(txns[i].split) = txns[i].amount

\* "Nidhi request has already been decided": a decision is never written over,
\* and a decided row is never edited.
DecidedIsFinal ==
    [][\A i \in DOMAIN txns : txns[i].status # "pending" => txns'[i] = txns[i]]_vars

\* A redemption never takes a fund below zero.
NeverOverdrawn == \A p \in People, f \in Funds : balance[p][f] >= 0

\* The balance_after stamped on an approval is the requester's balance of that
\* fund at the moment the approval is written.
StampTrue ==
    [][\A i \in DOMAIN txns :
          txns[i].status = "pending" /\ txns'[i].status = "approved" =>
              txns'[i].after = balance'[txns'[i].by][txns'[i].fund]]_vars

\* A row moves its money at most once: "already been decided" refuses a
\* second approval.
MovedOnce ==
    \A i \in DOMAIN txns, f \in Funds : moved[i][f] \in {0, Worth(txns[i])[f]}

\* What an approval under way, or one that failed half way, set out to move.
Meant(h, f) ==
    IF req[h].op = "approveRedemption" /\ req[h].split # None THEN req[h].split[f]
    ELSE Whole(txn[h].fund, txn[h].amount)[f]
Attempts(i) ==
    {h \in Handlers : /\ pc[h] \in {"move", "reload", "stamp", "decide", "failed"}
                     /\ req[h].op \in {"approveContribution", "approveRedemption"}
                     /\ Id(h) = i /\ txn[h] # None}

\* A row whose approval failed half way stays pending and may move its money again.
\* For each attempt that failed it moves no more than that attempt set out to, and
\* beside those no more than it was approved for: a repeated or a rejected decision
\* costs nobody anything.
PaidPerAttempt ==
    \A i \in DOMAIN txns, f \in Funds :
        LET approved == IF txns[i].status = "approved" THEN txns[i].split[f] ELSE 0
            sum == IF txns[i].type = "contribution" THEN moved[i][f] ELSE -moved[i][f]
        IN  sum <= approved + SumOver(Attempts(i), [h \in Attempts(i) |-> Meant(h, f)])

\* "user_id is always whose balance/fund is affected": the money of a request is that
\* of its user.
UsersBalance ==
    [][\A i \in DOMAIN txns : moved'[i] # moved[i] =>
          \A p \in People \ {txns[i].user} : balance'[p] = balance[p]]_vars
=============================================================================
