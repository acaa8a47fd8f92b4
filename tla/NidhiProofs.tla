---------------------------- MODULE NidhiProofs ----------------------------
(* Proofs about Nidhi, for any handlers, people, requests and rows on file. *)
EXTENDS Nidhi, SequenceTheorems, TLAPS

-----------------------------------------------------------------------------
(* The shape of the state *)

Raising  == {"afford", "today", "insert"}
Moving   == {"move", "reload", "stamp"}
Checked  == {"derive", "edit", "funds", "decide"} \cup Moving
Deciding == {"check"} \cup Checked

Approvals == {"approveContribution", "approveRedemption"}

\* What a handler knows at each of its round trips.
Handled(h) ==
    /\ pc[h] \in Raising => req[h] \in Raise /\ req[h].amount \in Nat \ {0}
    /\ pc[h] \in Deciding => /\ req[h] \in Decide \cup Review /\ req[h] \in Requests
                             /\ Id(h) \in DOMAIN txns \cup {NotAnId}
    /\ pc[h] \in Checked => Id(h) \in DOMAIN txns
    /\ pc[h] \in {"derive", "edit", "funds"} => req[h] \in Review /\ Acceptable(req[h])
    /\ pc[h] \in Moving => req[h].op \in Approvals
    /\ pc[h] \in Checked /\ req[h].op # "rejectRedemption" =>
          txn[h] \in Row /\ txn[h].by = txns[Id(h)].by
    /\ pc[h] \in {"derive", "edit"} => patch[h] \in Patch
    /\ pc[h] = "move" => due[h] # <<>>

Shape == TypeOK /\ \A h \in Handlers : Handled(h)

\* Only its own handler sees a handler's place and variables.
Elsewhere(h) ==
    \A g \in Handlers \ {h} :
        /\ pc'[g] = pc[g] /\ req'[g] = req[g] /\ txn'[g] = txn[g]
        /\ patch'[g] = patch[g] /\ due'[g] = due[g] /\ stamp'[g] = stamp[g]

\* A step of one handler that changes no row's requester leaves the others in order.
LEMMA ShapeOthers ==
    ASSUME Shape, NEW h \in Handlers, Elsewhere(h), DOMAIN txns \subseteq DOMAIN txns',
           \A i \in DOMAIN txns : txns'[i].by = txns[i].by,
           TypeOK', Handled(h)'
    PROVE  Shape'
<1> SUFFICES ASSUME NEW g \in Handlers \ {h} PROVE Handled(g)'
  BY DEF Shape
<1>1. /\ pc'[g] = pc[g] /\ req'[g] = req[g] /\ txn'[g] = txn[g]
      /\ patch'[g] = patch[g] /\ due'[g] = due[g]
  BY DEF Elsewhere
<1>2. Handled(g)
  BY DEF Shape
<1>3. pc[g] \in Checked => Id(g) \in DOMAIN txns
  BY <1>2 DEF Handled
<1>4. QED BY <1>1, <1>2, <1>3 DEF Handled, Id, Acceptable

\* A request that arrives is one of the requests.
LEMMA ShapeArrive ==
    ASSUME Shape, NEW h \in Handlers, NEW q \in Requests, Arrive(h, q) PROVE Shape'
<1>1. q \in Raise \cup Decide \cup Review
  BY NidhiAssumption
<1>2. TypeOK'
  BY DEF Shape, TypeOK, Arrive, Goto, Ended
<1>3. Elsewhere(h) /\ txns' = txns
  BY DEF Shape, TypeOK, Arrive, Goto, Elsewhere
<1>4. Handled(h)'
  BY <1>1 DEF Shape, TypeOK, Arrive, Goto, Handled, Raises, Raise, Decide, Review, Raising,
              Deciding, Checked, Moving, Id
<1>5. QED BY <1>2, <1>3, <1>4, ShapeOthers

\* Raising a request appends a pending row.
LEMMA ShapeRaise ==
    ASSUME Shape, NEW h \in Handlers, Afford(h) \/ Today(h) \/ Insert(h) PROVE Shape'
<1>1. pc[h] \in Raising /\ req[h] \in Raise /\ req[h].amount \in Nat \ {0}
  BY DEF Shape, Handled, Afford, Today, Insert, Raising
<1>2. CASE Afford(h) \/ Today(h)
  <2>1. TypeOK'
    <3>1. balance[req[h].by][req[h].fund] \in Int
      BY <1>1 DEF Shape, TypeOK, Raise
    <3>2. CASE Afford(h)
      BY <3>2 DEF Shape, TypeOK, Afford, Goto, local, Ended
    <3>3. CASE Today(h)
      BY <3>1, <3>3 DEF Shape, TypeOK, Today, Goto, local, Ended
    <3>4. QED BY <1>2, <3>2, <3>3
  <2>2. Elsewhere(h) /\ txns' = txns
    BY <1>2 DEF Shape, TypeOK, Afford, Today, Goto, local, Elsewhere
  <2>3. Handled(h)'
    BY <1>1, <1>2 DEF Shape, TypeOK, Afford, Today, Goto, local, Handled, Raising, Deciding,
                      Checked, Moving
  <2>4. QED BY <2>1, <2>2, <2>3, ShapeOthers
<1>3. CASE Insert(h)
  <2> DEFINE q == req[h]
             row == [type |-> IF q.op = "redeem" THEN "redemption" ELSE "contribution",
                     user |-> q.user, by |-> q.by, fund |-> q.fund, amount |-> q.amount,
                     split |-> Whole(q.fund, q.amount), status |-> "pending",
                     decider |-> None, after |-> stamp[h]]
  <2>1. row \in Row
    BY <1>1 DEF Shape, TypeOK, Row, Raise, Types, Statuses, Whole
  <2>2. txns' = Append(txns, row) /\ moved' = Append(moved, NoMove)
    BY <1>3 DEF Insert
  <2> HIDE DEF row, q
  <2>3. txns' \in Seq(Row) /\ moved' \in Seq([Funds -> Int]) /\ Len(moved') = Len(txns')
    BY <2>1, <2>2 DEF Shape, TypeOK, NoMove
  <2>4. TypeOK'
    BY <1>3, <2>3 DEF Shape, TypeOK, Insert, Goto, local, Ended
  <2>5. DOMAIN txns \subseteq DOMAIN txns' /\ \A i \in DOMAIN txns : txns'[i] = txns[i]
    BY <2>1, <2>2 DEF Shape, TypeOK
  <2>6. Elsewhere(h)
    BY <1>3 DEF Shape, TypeOK, Insert, Goto, local, Elsewhere
  <2>7. Handled(h)'
    BY <1>3 DEF Shape, TypeOK, Insert, Goto, Handled, Raising, Deciding, Checked, Moving
  <2>8. QED BY <2>4, <2>5, <2>6, <2>7, ShapeOthers
<1>4. QED BY <1>2, <1>3

\* A decision that is refused or goes on knows the row it is about.
LEMMA ShapeCheck ==
    ASSUME Shape, NEW h \in Handlers, CheckContribution(h) \/ CheckRejection(h) PROVE Shape'
<1>1. pc[h] \in Deciding /\ req[h] \in Decide \cup Review /\ req[h] \in Requests
  BY DEF Shape, Handled, CheckContribution, CheckRejection, Deciding
<1>2. txns \in Seq(Row)
  BY DEF Shape, TypeOK
<1>3. Pending(Id(h), "contribution") =>
          /\ Id(h) \in DOMAIN txns /\ txns[Id(h)] \in Row
          /\ <<<<txns[Id(h)].fund, txns[Id(h)].amount>>>> \in Seq(Funds \X Int)
  <2> SUFFICES ASSUME Pending(Id(h), "contribution")
               PROVE  /\ Id(h) \in DOMAIN txns /\ txns[Id(h)] \in Row
                      /\ <<<<txns[Id(h)].fund, txns[Id(h)].amount>>>> \in Seq(Funds \X Int)
    OBVIOUS
  <2>1. Id(h) \in DOMAIN txns /\ txns[Id(h)] \in Row
    BY <1>2 DEF Pending
  <2>2. <<txns[Id(h)].fund, txns[Id(h)].amount>> \in Funds \X Int
    BY <2>1 DEF Row
  <2>3. QED BY <2>1, <2>2
<1>4. Pending(Id(h), "redemption") => Id(h) \in DOMAIN txns
  BY DEF Pending
<1>5. TypeOK'
  <2>1. CASE CheckContribution(h)
    BY <1>3, <2>1 DEF Shape, TypeOK, CheckContribution, Goto, Ended
  <2>2. CASE CheckRejection(h)
    BY <2>2 DEF Shape, TypeOK, CheckRejection, Goto, local, Ended
  <2>3. QED BY <2>1, <2>2
<1>6. Elsewhere(h) /\ txns' = txns
  BY DEF Shape, TypeOK, CheckContribution, CheckRejection, Goto, local, Elsewhere
<1>7. Handled(h)'
  <2>1. Id(h)' = Id(h) /\ req'[h] = req[h] /\ txns' = txns
    BY <1>6 DEF CheckContribution, CheckRejection, local, Id
  <2>2. CASE CheckContribution(h) /\ Pending(Id(h), "contribution") /\ Recipient(req[h])
    <3> PICK d : d = <<<<txns[Id(h)].fund, txns[Id(h)].amount>>>>
      OBVIOUS
    <3>1. d # <<>>
      OBVIOUS
    <3>2. /\ txn'[h] = txns[Id(h)]
          /\ IF req[h].op = "approveContribution"
             THEN pc'[h] = "move" /\ due'[h] = d
             ELSE pc'[h] = "decide"
      BY <2>2 DEF Shape, TypeOK, CheckContribution, Goto
    <3>3. due'[h] # <<>> \/ pc'[h] = "decide"
      BY ONLY <3>1, <3>2
    <3>4. QED BY <1>1, <1>3, <2>1, <2>2, <3>2, <3>3
                 DEF Handled, Raising, Deciding, Checked, Moving, Approvals
  <2>3. CASE CheckRejection(h) /\ Pending(Id(h), "redemption")
    BY <1>1, <1>4, <2>1, <2>3
       DEF Shape, TypeOK, CheckRejection, Goto, Handled, Raising, Deciding, Checked, Moving
  <2>4. CASE pc'[h] = "refused"
    BY <2>4 DEF Handled, Raising, Deciding, Checked, Moving
  <2>5. QED BY <2>2, <2>3, <2>4 DEF Shape, TypeOK, CheckContribution, CheckRejection, Goto
<1>8. QED BY <1>5, <1>6, <1>7, ShapeOthers

\* The edits of an acceptable review are amounts and splits of natural numbers.
LEMMA EditsType ==
    ASSUME NEW q \in Review, Acceptable(q) PROVE Edits(q) \in Patch
<1>1. None \notin People \cup Funds \cup Int \cup [Funds -> Int]
  BY NidhiAssumption
<1>2. CASE q.split = None
  BY <1>1, <1>2 DEF Review, Acceptable, Edits, Patch, Amount, Fund
<1>3. CASE q.split # None
  <2>1. q.split \in [Funds -> Int]
    BY <1>3 DEF Review
  <2>2. q.split \in [Funds -> Nat]
    BY <1>3, <2>1 DEF Acceptable
  <2>3. Total(q.split) \in Nat
    BY <2>2 DEF Total, Funds
  <2>4. q.user \in People \cup {None} /\ q.fund \in Funds \cup {None}
    BY DEF Review
  <2>5. Fund(q) \in Funds \cup {None}
    BY <2>4 DEF Fund, Funds
  <2>6. QED BY <1>3, <2>2, <2>3, <2>4, <2>5 DEF Edits, Patch, Amount
<1>4. QED BY <1>2, <1>3

\* A review prepares its edits.
LEMMA ShapeCheckReview ==
    ASSUME Shape, NEW h \in Handlers, CheckReview(h) PROVE Shape'
<1>1. /\ pc[h] = "check" /\ req[h] \in Review /\ Id(h) \in DOMAIN txns \cup {NotAnId}
      /\ req[h].op = "approveRedemption"
  BY DEF Shape, Handled, CheckReview, Deciding, Decide
<1>2. txns \in Seq(Row)
  BY DEF Shape, TypeOK
<1>3. Elsewhere(h) /\ txns' = txns
  BY DEF Shape, TypeOK, CheckReview, Goto, Elsewhere
<1>4. CASE Pending(Id(h), "redemption") /\ Acceptable(req[h])
  <2>1. Id(h) \in DOMAIN txns /\ txns[Id(h)] \in Row /\ Edits(req[h]) \in Patch
    BY <1>1, <1>2, <1>4, EditsType DEF Pending
  <2>2. /\ txn' = [txn EXCEPT ![h] = txns[Id(h)]]
        /\ patch' = [patch EXCEPT ![h] = Edits(req[h])]
    BY <1>4 DEF CheckReview
  <2>3. \E label \in {"funds", "derive", "edit"} : pc' = [pc EXCEPT ![h] = label]
    BY <1>4 DEF CheckReview, Goto
  <2>4. UNCHANGED <<balance, txns, moved, req, due, stamp>>
    BY DEF CheckReview
  <2>5. TypeOK'
    BY <2>1, <2>2, <2>3, <2>4 DEF Shape, TypeOK, Ended
  <2>6. Handled(h)'
    BY <1>1, <1>4, <2>1, <2>2, <2>3, <2>4
       DEF Shape, TypeOK, Handled, Raising, Deciding, Checked, Moving, Id, Acceptable
  <2>7. QED BY <1>3, <2>5, <2>6, ShapeOthers
<1>5. CASE ~(Pending(Id(h), "redemption") /\ Acceptable(req[h]))
  <2>1. /\ pc' = [pc EXCEPT ![h] = "refused"]
        /\ UNCHANGED <<balance, txns, moved, local>>
    BY <1>5 DEF CheckReview, Goto, local
  <2>2. TypeOK'
    BY <2>1 DEF Shape, TypeOK, Ended, local
  <2>3. Handled(h)'
    BY <2>1 DEF Shape, TypeOK, Handled, Raising, Deciding, Checked, Moving
  <2>4. QED BY <1>3, <2>2, <2>3, ShapeOthers
<1>6. QED BY <1>4, <1>5


\* The split an edit gets is one of natural numbers on the funds.
LEMMA WholeType ==
    ASSUME NEW fund \in Funds, NEW amount \in Nat
    PROVE  Whole(fund, amount) \in [Funds -> Nat] /\ Total(Whole(fund, amount)) = amount
BY DEF Whole, Total, Funds

\* Deriving the split of an edit keeps it an edit.
LEMMA ShapeDerive ==
    ASSUME Shape, NEW h \in Handlers, Derive(h) PROVE Shape'
<1>1. /\ pc[h] = "derive" /\ req[h] \in Review /\ Acceptable(req[h]) /\ Id(h) \in DOMAIN txns
      /\ patch[h] \in Patch /\ (req[h].op # "rejectRedemption" => txn[h].by = txns[Id(h)].by)
      /\ (req[h].op # "rejectRedemption" => txn[h] \in Row)
  BY DEF Shape, Handled, Derive, Checked
<1> DEFINE whole == Whole(Or(patch[h].fund, txns[Id(h)].fund),
                          Or(patch[h].amount, txns[Id(h)].amount))
<1>2. txns[Id(h)] \in Row
  BY <1>1 DEF Shape, TypeOK
<1>3. whole \in [Funds -> Nat]
  <2>1. /\ Or(patch[h].fund, txns[Id(h)].fund) \in Funds
        /\ Or(patch[h].amount, txns[Id(h)].amount) \in Nat
    BY <1>1, <1>2 DEF Or, Patch, Row
  <2>2. QED BY <2>1, WholeType
<1>4. patch' = [patch EXCEPT ![h].split = whole] /\ pc' = [pc EXCEPT ![h] = "edit"]
  BY DEF Derive, Goto
<1> HIDE DEF whole
<1>5. patch'[h] \in Patch /\ patch' \in [Handlers -> Patch \cup {None}]
  BY <1>1, <1>3, <1>4 DEF Shape, TypeOK, Patch
<1>6. UNCHANGED <<balance, txns, moved, req, txn, due, stamp>>
  BY DEF Derive
<1>7. TypeOK'
  BY <1>4, <1>5, <1>6 DEF Shape, TypeOK
<1>8. Elsewhere(h)
  BY <1>4, <1>6 DEF Shape, TypeOK, Elsewhere
<1>9. Handled(h)'
  BY <1>1, <1>4, <1>5, <1>6
     DEF Shape, TypeOK, Handled, Raising, Deciding, Checked, Moving, Id
<1>10. QED BY <1>6, <1>7, <1>8, <1>9, ShapeOthers

\* An edited row is a row, of the same requester.
LEMMA EditedRow ==
    ASSUME NEW row \in Row, NEW p \in Patch
    PROVE  LET new == [row EXCEPT !.amount = Or(p.amount, @), !.fund = Or(p.fund, @),
                                  !.user = Or(p.user, @), !.split = Or(p.split, @)]
           IN  /\ new \in Row /\ new.by = row.by /\ new.type = row.type
               /\ new.status = row.status /\ new.after = row.after /\ new.decider = row.decider
               /\ new.amount = Or(p.amount, row.amount) /\ new.fund = Or(p.fund, row.fund)
               /\ new.split = Or(p.split, row.split)
BY DEF Row, Patch, Or

\* Replacing a row by a row leaves as many rows.
LEMMA ReplacedRow ==
    ASSUME NEW t \in Seq(Row), NEW i \in DOMAIN t, NEW row \in Row
    PROVE  LET u == [t EXCEPT ![i] = row]
           IN  /\ u \in Seq(Row) /\ Len(u) = Len(t) /\ DOMAIN u = DOMAIN t /\ u[i] = row
               /\ \A j \in DOMAIN t : j # i => u[j] = t[j]
BY ExceptSeq

\* The row an edit writes.
Edited(h) ==
    LET p == patch[h]
    IN  [txns[Id(h)] EXCEPT !.amount = Or(p.amount, @), !.fund = Or(p.fund, @),
                            !.user = Or(p.user, @), !.split = Or(p.split, @)]

\* An edit replaces one pending row by the same row, edited.
LEMMA EditWritten ==
    ASSUME Shape, NEW h \in Handlers, Edit(h)
    PROVE  /\ pc[h] = "edit" /\ Id(h) \in DOMAIN txns /\ patch[h] \in Patch
           /\ req[h] \in Review /\ req[h].op = "approveRedemption" /\ Acceptable(req[h])
           /\ req[h] \in Requests
           /\ txns[Id(h)] \in Row /\ Edited(h) \in Row
           /\ Edited(h).by = txns[Id(h)].by /\ Edited(h).type = txns[Id(h)].type
           /\ Edited(h).status = txns[Id(h)].status
           /\ Edited(h).amount = Or(patch[h].amount, txns[Id(h)].amount)
           /\ Edited(h).fund = Or(patch[h].fund, txns[Id(h)].fund)
           /\ Edited(h).split = Or(patch[h].split, txns[Id(h)].split)
           /\ txn' = [txn EXCEPT ![h] = Edited(h)] /\ pc' = [pc EXCEPT ![h] = "funds"]
           /\ UNCHANGED <<balance, moved, req, patch, due, stamp>>
           /\ txns' \in Seq(Row) /\ Len(txns') = Len(txns) /\ DOMAIN txns' = DOMAIN txns
           /\ txns'[Id(h)] = Edited(h)
           /\ \A j \in DOMAIN txns : j # Id(h) => txns'[j] = txns[j]
<1>1. /\ pc[h] = "edit" /\ Id(h) \in DOMAIN txns /\ patch[h] \in Patch
      /\ req[h] \in Review /\ req[h].op = "approveRedemption" /\ Acceptable(req[h])
      /\ req[h] \in Requests
  BY DEF Shape, Handled, Edit, Checked, Deciding, Review
<1>2. txns[Id(h)] \in Row
  BY <1>1 DEF Shape, TypeOK
<1>3. /\ Edited(h) \in Row
      /\ Edited(h).by = txns[Id(h)].by /\ Edited(h).type = txns[Id(h)].type
      /\ Edited(h).status = txns[Id(h)].status
      /\ Edited(h).amount = Or(patch[h].amount, txns[Id(h)].amount)
      /\ Edited(h).fund = Or(patch[h].fund, txns[Id(h)].fund)
      /\ Edited(h).split = Or(patch[h].split, txns[Id(h)].split)
  BY <1>1, <1>2, EditedRow DEF Edited
<1>4. /\ txns' = [txns EXCEPT ![Id(h)] = Edited(h)]
      /\ txn' = [txn EXCEPT ![h] = Edited(h)] /\ pc' = [pc EXCEPT ![h] = "funds"]
      /\ UNCHANGED <<balance, moved, req, patch, due, stamp>>
  BY DEF Edit, Goto, Edited
<1>5. /\ txns' \in Seq(Row) /\ Len(txns') = Len(txns) /\ DOMAIN txns' = DOMAIN txns
      /\ txns'[Id(h)] = Edited(h) /\ \A j \in DOMAIN txns : j # Id(h) => txns'[j] = txns[j]
  BY <1>1, <1>3, <1>4, ReplacedRow DEF Shape, TypeOK
<1>6. QED BY <1>1, <1>2, <1>3, <1>4, <1>5

\* An edit changes one row, and the handler's copy with it.
LEMMA ShapeEdit ==
    ASSUME Shape, NEW h \in Handlers, Edit(h) PROVE Shape'
<1>1. TypeOK'
  <2>1. /\ txn' = [txn EXCEPT ![h] = Edited(h)] /\ pc' = [pc EXCEPT ![h] = "funds"]
        /\ UNCHANGED <<balance, moved, req, patch, due, stamp>>
        /\ Edited(h) \in Row /\ txns' \in Seq(Row) /\ Len(txns') = Len(txns)
    BY EditWritten
  <2>2. QED BY <2>1 DEF Shape, TypeOK, Ended
<1>2. Elsewhere(h)
  BY EditWritten DEF Shape, TypeOK, Elsewhere
<1>3. Handled(h)'
  BY EditWritten DEF Shape, TypeOK, Handled, Raising, Deciding, Checked, Moving, Id
<1>4. \A i \in DOMAIN txns : txns'[i].by = txns[i].by
  BY EditWritten
<1>5. QED BY <1>1, <1>2, <1>3, <1>4, EditWritten, ShapeOthers

\* An acceptable review leaves something to take.
LEMMA DebitsType ==
    ASSUME NEW h \in Handlers, req[h] \in Review, Acceptable(req[h]), txn[h] \in Row
    PROVE  Debits(h) \in Seq(Funds \X Int) /\ Debits(h) # <<>>
<1> DEFINE debit(f) == IF req[h].split[f] = 0 THEN <<>> ELSE <<<<f, -req[h].split[f]>>>>
<1>1. CASE req[h].split = None
  <2>1. Debits(h) = <<<<txn[h].fund, -txn[h].amount>>>>
    BY <1>1 DEF Debits
  <2>2. <<txn[h].fund, -txn[h].amount>> \in Funds \X Int
    BY DEF Row
  <2>3. QED BY <2>1, <2>2
<1>2. CASE req[h].split # None
  <2>1. req[h].split \in [Funds -> Int]
    BY <1>2 DEF Review
  <2>2. \A f \in Funds : debit(f) \in Seq(Funds \X Int)
    <3> SUFFICES ASSUME NEW f \in Funds PROVE debit(f) \in Seq(Funds \X Int)
      OBVIOUS
    <3>1. <<f, -req[h].split[f]>> \in Funds \X Int
      BY <2>1
    <3>2. QED BY <3>1
  <2>3. debit("tirtha") # <<>> \/ debit("contribution") # <<>>
    BY <1>2, <2>1 DEF Acceptable, Total, Funds
  <2>4. Debits(h) = debit("tirtha") \o debit("contribution")
    BY <1>2 DEF Debits
  <2>5. debit("tirtha") \in Seq(Funds \X Int) /\ debit("contribution") \in Seq(Funds \X Int)
    BY <2>2 DEF Funds
  <2> HIDE DEF debit
  <2>6. QED BY <2>3, <2>4, <2>5
<1>3. QED BY <1>1, <1>2

\* Checking the funds leaves what is due.
LEMMA ShapeFunds ==
    ASSUME Shape, NEW h \in Handlers, CheckFunds(h) PROVE Shape'
<1>1. /\ pc[h] = "funds" /\ req[h] \in Review /\ Acceptable(req[h]) /\ Id(h) \in DOMAIN txns
      /\ req[h].op = "approveRedemption" /\ txn[h] \in Row /\ txn[h].by = txns[Id(h)].by
  BY DEF Shape, Handled, CheckFunds, Checked, Review
<1>2. Debits(h) \in Seq(Funds \X Int) /\ Debits(h) # <<>>
  BY <1>1, DebitsType
<1>3. /\ \/ due' = [due EXCEPT ![h] = Debits(h)] /\ pc' = [pc EXCEPT ![h] = "move"]
         \/ UNCHANGED due /\ pc' = [pc EXCEPT ![h] = "refused"]
      /\ UNCHANGED <<balance, txns, moved, req, txn, patch, stamp>>
  BY DEF CheckFunds, Goto
<1>4. TypeOK'
  BY <1>2, <1>3 DEF Shape, TypeOK, Ended
<1>5. Elsewhere(h)
  BY <1>3 DEF Shape, TypeOK, Elsewhere
<1>6. Handled(h)'
  BY <1>1, <1>2, <1>3
     DEF Shape, TypeOK, Handled, Raising, Deciding, Checked, Moving, Id, Approvals
<1>7. QED BY <1>3, <1>4, <1>5, <1>6, ShapeOthers

\* A balance change is one amount on one fund.
LEMMA ShapeMove ==
    ASSUME Shape, NEW h \in Handlers, MoveMoney(h) PROVE Shape'
<1>1. /\ pc[h] = "move" /\ req[h] \in Decide \cup Review /\ Id(h) \in DOMAIN txns
      /\ req[h].op \in Approvals /\ txn[h] \in Row /\ txn[h].by = txns[Id(h)].by
      /\ due[h] # <<>> /\ due[h] \in Seq(Funds \X Int)
  BY DEF Shape, TypeOK, Handled, MoveMoney, Checked, Moving, Deciding, Approvals
<1>2. Head(due[h]) \in Funds \X Int /\ Tail(due[h]) \in Seq(Funds \X Int)
  BY <1>1
<1>3. Head(due[h])[1] \in Funds /\ Head(due[h])[2] \in Int
  BY <1>2
<1>4. /\ balance' = [balance EXCEPT ![txn[h].by][Head(due[h])[1]] = @ + Head(due[h])[2]]
      /\ moved' = [moved EXCEPT ![Id(h)][Head(due[h])[1]] = @ + Head(due[h])[2]]
      /\ due' = [due EXCEPT ![h] = Tail(@)]
      /\ pc' = [pc EXCEPT ![h] = IF Len(due[h]) = 1 THEN "reload" ELSE "move"]
      /\ UNCHANGED <<txns, req, txn, patch, stamp>>
  BY DEF MoveMoney, Goto
<1>5. balance' \in [People -> [Funds -> Int]]
  <2>1. txn[h].by \in People
    BY <1>1 DEF Row
  <2>2. QED BY <1>3, <1>4, <2>1 DEF Shape, TypeOK
<1>6. moved' \in Seq([Funds -> Int]) /\ Len(moved') = Len(moved)
  <2>1. moved \in Seq([Funds -> Int]) /\ Id(h) \in DOMAIN moved
    BY <1>1 DEF Shape, TypeOK
  <2>2. [moved[Id(h)] EXCEPT ![Head(due[h])[1]] = @ + Head(due[h])[2]] \in [Funds -> Int]
    BY <1>3, <2>1
  <2>3. QED BY <1>4, <2>1, <2>2, ExceptSeq
<1>7. Tail(due[h]) = <<>> => Len(due[h]) = 1
  <2> DEFINE n == Len(due[h])
             m == Len(Tail(due[h]))
  <2>1. n \in Nat /\ m = n - 1
    BY <1>1
  <2>2. Tail(due[h]) = <<>> => m = 0
    BY <1>2, EmptySeq
  <2> HIDE DEF n, m
  <2>3. Tail(due[h]) = <<>> => n = 1
    BY <2>1, <2>2
  <2>4. QED BY <2>3 DEF n
<1>8. TypeOK'
  BY <1>2, <1>4, <1>5, <1>6 DEF Shape, TypeOK, Ended
<1>9. Elsewhere(h)
  BY <1>4 DEF Shape, TypeOK, Elsewhere
<1>10. Handled(h)'
  BY <1>1, <1>4, <1>7
     DEF Shape, TypeOK, Handled, Raising, Deciding, Checked, Moving, Id
<1>11. QED BY <1>4, <1>8, <1>9, <1>10, ShapeOthers

\* Reading the row again, and the balance.
LEMMA ShapeStamp ==
    ASSUME Shape, NEW h \in Handlers, Reload(h) \/ Stamp(h) PROVE Shape'
<1>1. /\ pc[h] \in Moving /\ req[h] \in Decide \cup Review /\ Id(h) \in DOMAIN txns
      /\ req[h].op \in Approvals /\ txn[h] \in Row /\ txn[h].by = txns[Id(h)].by
  BY DEF Shape, Handled, Reload, Stamp, Checked, Moving, Deciding, Approvals
<1>2. txns[Id(h)] \in Row
  BY <1>1 DEF Shape, TypeOK
<1>3. balance[txn[h].by][txn[h].fund] \in Int
  <2>1. txn[h].by \in People /\ txn[h].fund \in Funds
    BY <1>1 DEF Row
  <2>2. QED BY <2>1 DEF Shape, TypeOK
<1>4. TypeOK'
  <2>1. CASE Reload(h)
    BY <1>2, <2>1 DEF Shape, TypeOK, Reload, Goto, Ended
  <2>2. CASE Stamp(h)
    BY <1>3, <2>2 DEF Shape, TypeOK, Stamp, Goto, Ended
  <2>3. QED BY <2>1, <2>2
<1>5. Elsewhere(h) /\ txns' = txns
  BY DEF Shape, TypeOK, Reload, Stamp, Goto, Elsewhere
<1>6. Handled(h)'
  BY <1>1, <1>2 DEF Shape, TypeOK, Reload, Stamp, Goto, Handled, Raising, Deciding, Checked,
                    Moving, Id
<1>7. QED BY <1>4, <1>5, <1>6, ShapeOthers

\* The row a decision writes.
Decided(h) ==
    LET approves == req[h].op \in Approvals
        row == txns[Id(h)]
    IN  [row EXCEPT !.status  = IF approves THEN "approved" ELSE "rejected",
                    !.decider = req[h].by,
                    !.after   = IF approves THEN stamp[h] ELSE @]

\* Writing a decision replaces one row by the same row, decided.
LEMMA Written ==
    ASSUME Shape, NEW h \in Handlers, WriteDecision(h)
    PROVE  /\ pc[h] = "decide" /\ Id(h) \in DOMAIN txns /\ req[h] \in Decide \cup Review
           /\ txns[Id(h)] \in Row /\ Decided(h) \in Row
           /\ Decided(h).type = txns[Id(h)].type /\ Decided(h).by = txns[Id(h)].by
           /\ Decided(h).fund = txns[Id(h)].fund /\ Decided(h).amount = txns[Id(h)].amount
           /\ Decided(h).split = txns[Id(h)].split
           /\ Decided(h).status = IF req[h].op \in Approvals THEN "approved" ELSE "rejected"
           /\ req[h].op \in Approvals => Decided(h).after = stamp[h]
           /\ txns' \in Seq(Row) /\ Len(txns') = Len(txns) /\ DOMAIN txns' = DOMAIN txns
           /\ txns'[Id(h)] = Decided(h)
           /\ \A j \in DOMAIN txns : j # Id(h) => txns'[j] = txns[j]
<1>1. pc[h] = "decide" /\ Id(h) \in DOMAIN txns /\ req[h] \in Decide \cup Review
  BY DEF Shape, Handled, WriteDecision, Checked, Deciding
<1>2. txns[Id(h)] \in Row
  BY <1>1 DEF Shape, TypeOK
<1>3. req[h].by \in People /\ stamp[h] \in Int
  BY <1>1 DEF Shape, TypeOK, Decide, Review
<1>4. Decided(h) \in Row
  BY <1>2, <1>3 DEF Decided, Row, Statuses
<1>5. txns' = [txns EXCEPT ![Id(h)] = Decided(h)]
  BY <1>1, <1>2 DEF WriteDecision, Decided, Approvals, Shape, TypeOK, Row
<1>6. /\ txns' \in Seq(Row) /\ Len(txns') = Len(txns) /\ DOMAIN txns' = DOMAIN txns
      /\ txns'[Id(h)] = Decided(h)
      /\ \A j \in DOMAIN txns : j # Id(h) => txns'[j] = txns[j]
  BY <1>1, <1>4, <1>5, ReplacedRow DEF Shape, TypeOK
<1>7. /\ Decided(h).type = txns[Id(h)].type /\ Decided(h).by = txns[Id(h)].by
      /\ Decided(h).fund = txns[Id(h)].fund /\ Decided(h).amount = txns[Id(h)].amount
      /\ Decided(h).split = txns[Id(h)].split
      /\ Decided(h).status = IF req[h].op \in Approvals THEN "approved" ELSE "rejected"
      /\ req[h].op \in Approvals => Decided(h).after = stamp[h]
  BY <1>2 DEF Decided, Row
<1>8. QED BY <1>1, <1>2, <1>4, <1>6, <1>7

\* Writing a decision.
LEMMA ShapeWrite ==
    ASSUME Shape, NEW h \in Handlers, WriteDecision(h) PROVE Shape'
<1>1. pc' = [pc EXCEPT ![h] = "done"] /\ UNCHANGED <<balance, moved, local>>
  BY DEF WriteDecision, Goto
<1>2. TypeOK'
  BY <1>1, Written DEF Shape, TypeOK, local, Ended
<1>3. Elsewhere(h)
  BY <1>1 DEF Shape, TypeOK, Elsewhere, local
<1>4. Handled(h)'
  BY <1>1 DEF Shape, TypeOK, Handled, Raising, Deciding, Checked, Moving
<1>5. \A i \in DOMAIN txns : txns'[i].by = txns[i].by
  BY Written
<1>6. QED BY <1>2, <1>3, <1>4, <1>5, Written, ShapeOthers

\* A handler that fails, and a step of nobody.
LEMMA ShapeFail ==
    ASSUME Shape, NEW h \in Handlers, Fail(h) PROVE Shape'
<1>1. TypeOK'
  BY DEF Shape, TypeOK, Fail, Goto, local, Ended
<1>2. Elsewhere(h) /\ txns' = txns
  BY DEF Shape, TypeOK, Fail, Goto, local, Elsewhere
<1>3. Handled(h)'
  BY DEF Shape, TypeOK, Fail, Goto, local, Handled, Raising, Deciding, Checked, Moving
<1>4. QED BY <1>1, <1>2, <1>3, ShapeOthers

\* A stuttering step changes nothing.
LEMMA ShapeStutter == ASSUME Shape, UNCHANGED vars PROVE Shape'
BY DEF Shape, TypeOK, Handled, vars, local, Id, Acceptable

\* The state the model starts in.
LEMMA ShapeInit == ASSUME Init PROVE Shape
<1>1. /\ OnFile \in Seq(Row) /\ Balances \in [People -> [Funds -> Nat]]
  BY NidhiAssumption
<1>2. moved \in Seq([Funds -> Int]) /\ Len(moved) = Len(txns)
  <2>1. \A i \in 1 .. Len(OnFile) :
            (IF OnFile[i].status = "approved" THEN Worth(OnFile[i]) ELSE NoMove) \in [Funds -> Int]
    <3> SUFFICES ASSUME NEW i \in 1 .. Len(OnFile)
                 PROVE  Worth(OnFile[i]) \in [Funds -> Int] /\ NoMove \in [Funds -> Int]
      OBVIOUS
    <3>1. OnFile[i] \in Row
      BY <1>1
    <3>2. QED BY <3>1 DEF Worth, NoMove, Row
  <2>2. DOMAIN OnFile = 1 .. Len(OnFile) /\ Len(OnFile) \in Nat
    BY <1>1
  <2>3. QED BY <2>1, <2>2 DEF Init
<1>3. TypeOK
  BY <1>1, <1>2 DEF Init, TypeOK, Ended
<1>4. \A h \in Handlers : Handled(h)
  BY DEF Init, Handled, Raising, Deciding, Checked, Moving
<1>5. QED BY <1>3, <1>4 DEF Shape

\* Every step keeps the shape of the state.
LEMMA ShapeStep == ASSUME Shape, [Next]_vars PROVE Shape'
<1>1. ASSUME NEW h \in Handlers, Step(h) PROVE Shape'
  BY <1>1, ShapeRaise, ShapeCheck, ShapeCheckReview, ShapeDerive, ShapeEdit, ShapeFunds,
     ShapeMove, ShapeStamp, ShapeWrite DEF Step
<1>2. ASSUME NEW h \in Handlers, Fail(h) PROVE Shape'
  BY <1>2, ShapeFail
<1>3. ASSUME NEW h \in Handlers, NEW q \in Requests, Arrive(h, q) PROVE Shape'
  BY <1>3, ShapeArrive
<1>4. CASE UNCHANGED vars
  BY <1>4, ShapeStutter
<1>5. QED BY <1>1, <1>2, <1>3, <1>4 DEF Next, Rest

\* Amounts and splits on file stay natural numbers, whatever calls arrive and
\* however their round trips interleave or fail.
THEOREM TypeCorrect == Spec => []TypeOK
<1>1. Init => Shape
  BY ShapeInit
<1>2. Shape /\ [Next]_vars => Shape'
  BY ShapeStep
<1>3. Shape => TypeOK
  BY DEF Shape
<1>4. QED BY <1>1, <1>2, <1>3, PTL DEF Spec

-----------------------------------------------------------------------------
(* One decision at a time for each row *)

\* No two decisions of one row are under way.
Alone ==
    \A g, h \in Handlers :
        pc[g] \in Deciding /\ pc[h] \in Deciding /\ Id(g) = Id(h) => g = h

Sort(q) == IF q.op \in {"approveContribution", "rejectContribution"} THEN "contribution"
           ELSE "redemption"

\* What a handler has checked, and copied, holds until it is done.
Current(h) ==
    pc[h] \in Checked =>
        /\ txns[Id(h)].status = "pending" /\ txns[Id(h)].type = Sort(req[h])
        /\ req[h].op # "rejectRedemption" => txn[h] = txns[Id(h)]

\* What it is about to write adds up with what it leaves.
Patched(h) ==
    LET p == patch[h]
        row == txns[Id(h)]
    IN  /\ pc[h] \in {"derive", "edit"} =>
              p.amount = Amount(req[h]) /\ p.fund = Fund(req[h])
        /\ pc[h] = "derive" => req[h].split = None
        /\ pc[h] = "edit" =>
              IF req[h].split # None THEN p.split = req[h].split
              ELSE \/ p.split = None /\ p.amount = None /\ p.fund = None
                   \/ p.split = Whole(Or(p.fund, row.fund), Or(p.amount, row.amount))
        /\ pc[h] = "funds" /\ req[h].split # None => row.split = req[h].split

Serial == Alone /\ SplitSums /\ \A h \in Handlers : Current(h) /\ Patched(h)


\* A handler that edits or decides touches its row, and no other handler.
Touches(h) ==
    /\ Elsewhere(h)
    /\ \A i \in DOMAIN txns :
          /\ i \in DOMAIN txns'
          /\ \/ txns'[i] = txns[i]
             \/ i = Id(h) /\ pc[h] \in {"edit", "decide"}

\* No round trip does more, and none takes up another decision.
LEMMA StepTouches ==
    ASSUME Shape, NEW h \in Handlers, Step(h) \/ Fail(h)
    PROVE  Touches(h) /\ req' = req /\ (pc'[h] \in Deciding => pc[h] \in Deciding)
<1>1. CASE Afford(h) \/ Today(h) \/ CheckContribution(h) \/ CheckRejection(h) \/ CheckReview(h)
           \/ Derive(h) \/ CheckFunds(h) \/ Reload(h) \/ Stamp(h) \/ Fail(h)
  <2>1. txns' = txns /\ req' = req
    BY <1>1 DEF Afford, Today, CheckContribution, CheckRejection, CheckReview, Derive,
                CheckFunds, Reload, Stamp, Fail, local
  <2>2. pc'[h] \in Deciding => pc[h] \in Deciding
    BY <1>1 DEF Shape, TypeOK, Afford, Today, CheckContribution, CheckRejection, CheckReview,
                Derive, CheckFunds, Reload, Stamp, Fail, Goto, Deciding, Checked, Moving
  <2>3. Elsewhere(h)
    <3>1. CASE Afford(h) \/ Today(h) \/ CheckContribution(h) \/ CheckRejection(h)
      BY <3>1 DEF Shape, TypeOK, Afford, Today, CheckContribution, CheckRejection, Goto, local,
                  Elsewhere
    <3>2. CASE CheckReview(h) \/ Derive(h) \/ CheckFunds(h)
      BY <3>2 DEF Shape, TypeOK, CheckReview, Derive, CheckFunds, Goto, Elsewhere
    <3>3. CASE Reload(h) \/ Stamp(h) \/ Fail(h)
      BY <3>3 DEF Shape, TypeOK, Reload, Stamp, Fail, Goto, local, Elsewhere
    <3>4. QED BY <1>1, <3>1, <3>2, <3>3
  <2>4. QED BY <2>1, <2>2, <2>3 DEF Touches
<1>2. CASE MoveMoney(h)
  BY <1>2 DEF Shape, TypeOK, MoveMoney, Goto, Elsewhere, Touches, Deciding, Checked, Moving
<1>3. CASE Insert(h)
  <2>1. \E row : txns' = Append(txns, row)
    BY <1>3 DEF Insert
  <2>2. \A i \in DOMAIN txns : i \in DOMAIN txns' /\ txns'[i] = txns[i]
    BY <2>1 DEF Shape, TypeOK
  <2>3. QED BY <1>3, <2>2 DEF Shape, TypeOK, Insert, Goto, local, Elsewhere, Touches, Deciding,
                              Checked, Moving
<1>4. CASE Edit(h) \/ WriteDecision(h)
  <2>1. Id(h) \in DOMAIN txns /\ pc[h] \in {"edit", "decide"} /\ txns \in Seq(Row)
    BY <1>4 DEF Shape, TypeOK, Handled, Edit, WriteDecision, Checked
  <2>2. \E row : txns' = [txns EXCEPT ![Id(h)] = row]
    BY <1>4, <2>1 DEF Edit, WriteDecision
  <2>3. \A i \in DOMAIN txns : i \in DOMAIN txns' /\ (txns'[i] = txns[i] \/ i = Id(h))
    BY <2>1, <2>2
  <2>4. QED BY <1>4, <2>1, <2>3 DEF Shape, TypeOK, Edit, WriteDecision, Goto, local, Elsewhere,
                                    Touches, Deciding, Checked, Moving
<1>5. QED BY <1>1, <1>2, <1>3, <1>4 DEF Step

\* What one handler has checked no other disturbs.
LEMMA SerialOthers ==
    ASSUME Shape, Serial, NEW h \in Handlers, Touches(h), NEW g \in Handlers \ {h}
    PROVE  (Current(g) /\ Patched(g))'
<1>1. /\ pc'[g] = pc[g] /\ req'[g] = req[g] /\ txn'[g] = txn[g] /\ patch'[g] = patch[g]
  BY DEF Touches, Elsewhere
<1>2. Current(g) /\ Patched(g)
  BY DEF Serial
<1>3. pc[g] \in Checked => txns'[Id(g)] = txns[Id(g)]
  <2>1. pc[g] \in Checked => Id(g) \in DOMAIN txns
    BY DEF Shape, Handled
  <2>2. QED BY <2>1 DEF Touches, Serial, Alone, Deciding, Checked
<1>4. Current(g)'
  BY <1>1, <1>2, <1>3 DEF Current, Id
<1>5. Patched(g)'
  BY <1>1, <1>2, <1>3 DEF Patched, Id, Checked, Amount, Fund
<1>6. QED BY <1>4, <1>5

\* A step of one handler keeps decisions apart, given its own state after it.
LEMMA SerialFrame ==
    ASSUME Shape, Serial, NEW h \in Handlers, Step(h) \/ Fail(h),
           SplitSums', (Current(h) /\ Patched(h))'
    PROVE  Serial'
<1>1. Touches(h) /\ req' = req /\ (pc'[h] \in Deciding => pc[h] \in Deciding)
  BY StepTouches
<1>2. \A g \in Handlers : pc'[g] \in Deciding => pc[g] \in Deciding
  BY <1>1 DEF Touches, Elsewhere
<1>3. Alone'
  BY <1>1, <1>2 DEF Serial, Alone, Id
<1>4. \A g \in Handlers : (Current(g) /\ Patched(g))'
  BY <1>1, SerialOthers
<1>5. QED BY <1>3, <1>4 DEF Serial

\* An arriving decision has no rival.
LEMMA SerialArrive ==
    ASSUME Shape, Serial, Overlap # "any", NEW h \in Handlers, NEW q \in Requests, Arrive(h, q)
    PROVE  Serial'
<1>1. Elsewhere(h) /\ txns' = txns /\ req'[h] = q /\ pc'[h] \notin Checked
  BY DEF Shape, TypeOK, Arrive, Goto, Elsewhere, Checked, Moving
<1>2. \A g \in Handlers \ {h} : pc'[g] = pc[g] /\ req'[g] = req[g] /\ Id(g)' = Id(g)
  BY <1>1 DEF Elsewhere, Id
<1>3. Alone'
  <2>1. ASSUME NEW g \in Handlers \ {h}, pc[g] \in Deciding, pc'[h] \in Deciding
        PROVE  Id(g) # q.id
    <3>1. ~Raises(q)
      BY <2>1 DEF Shape, TypeOK, Arrive, Goto, Deciding, Checked, Moving
    <3>2. pc[g] \notin Ended /\ ~Raises(req[g])
      BY <2>1 DEF Shape, Handled, Deciding, Checked, Moving, Ended, Raises, Decide, Review
    <3>3. QED BY <3>1, <3>2 DEF Arrive, Rivals
  <2>2. Id(h)' = q.id
    BY <1>1 DEF Id
  <2>3. QED BY <1>2, <2>1, <2>2 DEF Serial, Alone
<1>4. \A g \in Handlers \ {h} : (Current(g) /\ Patched(g))'
  BY <1>1, SerialOthers DEF Touches
<1>5. (Current(h) /\ Patched(h))'
  BY <1>1 DEF Current, Patched, Checked
<1>6. SplitSums'
  BY <1>1 DEF Serial, SplitSums
<1>7. QED BY <1>3, <1>4, <1>5, <1>6 DEF Serial

\* Requests that are raised concern nobody's decision.
LEMMA SerialRaise ==
    ASSUME Shape, Serial, NEW h \in Handlers, Afford(h) \/ Today(h) \/ Insert(h) PROVE Serial'
<1>1. pc'[h] \notin Checked
  BY DEF Shape, TypeOK, Afford, Today, Insert, Goto, Checked, Moving
<1>2. (Current(h) /\ Patched(h))'
  BY <1>1 DEF Current, Patched, Checked
<1>3. SplitSums'
  <2>1. CASE Afford(h) \/ Today(h)
    BY <2>1 DEF Serial, SplitSums, Afford, Today
  <2>2. CASE Insert(h)
    <3> DEFINE row == txns'[Len(txns) + 1]
    <3>1. pc[h] \in Raising /\ req[h] \in Raise /\ req[h].amount \in Nat
      BY <2>2 DEF Shape, Handled, Insert, Raising
    <3>2. Total(Whole(req[h].fund, req[h].amount)) = req[h].amount
      BY <3>1, WholeType DEF Raise
    <3>3. row.split = Whole(req[h].fund, req[h].amount) /\ row.amount = req[h].amount
      BY <2>2 DEF Insert, Shape, TypeOK
    <3>4. /\ \A i \in DOMAIN txns : txns'[i] = txns[i]
          /\ \A i \in DOMAIN txns' : i \in DOMAIN txns \/ i = Len(txns) + 1
      BY <2>2 DEF Insert, Shape, TypeOK
    <3>5. QED BY <3>2, <3>3, <3>4 DEF Serial, SplitSums
  <2>3. QED BY <2>1, <2>2
<1>4. QED BY <1>2, <1>3, SerialFrame DEF Step

\* A decision starts from a pending row of its sort.
LEMMA SerialCheck ==
    ASSUME Shape, Serial, NEW h \in Handlers,
           CheckContribution(h) \/ CheckRejection(h) \/ CheckReview(h)
    PROVE  Serial'
<1>1. UNCHANGED <<txns, req>> /\ Id(h)' = Id(h)
  BY DEF CheckContribution, CheckRejection, CheckReview, local, Id
<1>2. CASE pc'[h] = "refused"
  <2>1. (Current(h) /\ Patched(h))'
    BY <1>2 DEF Current, Patched, Checked, Moving
  <2>2. QED BY <1>1, <2>1, SerialFrame DEF Step, Serial, SplitSums
<1>3. CASE CheckContribution(h) /\ Pending(Id(h), "contribution") /\ Recipient(req[h])
  <2>1. txn'[h] = txns[Id(h)] /\ pc'[h] \in {"move", "decide"}
    BY <1>3 DEF Shape, TypeOK, CheckContribution, Goto
  <2>2. (Current(h) /\ Patched(h))'
    BY <1>1, <1>3, <2>1 DEF Current, Patched, Pending, CheckContribution, Sort
  <2>3. QED BY <1>1, <2>2, SerialFrame DEF Step, Serial, SplitSums
<1>4. CASE CheckRejection(h) /\ Pending(Id(h), "redemption")
  <2>1. pc'[h] = "decide"
    BY <1>4 DEF Shape, TypeOK, CheckRejection, Goto
  <2>2. (Current(h) /\ Patched(h))'
    BY <1>1, <1>4, <2>1 DEF Current, Patched, Pending, CheckRejection, Sort
  <2>3. QED BY <1>1, <2>2, SerialFrame DEF Step, Serial, SplitSums
<1>5. CASE CheckReview(h) /\ Pending(Id(h), "redemption") /\ Acceptable(req[h])
  <2> DEFINE p == Edits(req[h])
  <2>1. /\ txn'[h] = txns[Id(h)] /\ patch'[h] = p
        /\ pc'[h] = IF \A k \in DOMAIN p : p[k] = None THEN "funds"
                    ELSE IF Derives(p) THEN "derive" ELSE "edit"
    BY <1>5 DEF Shape, TypeOK, CheckReview, Goto
  <2>2. /\ p.split = req[h].split /\ p.amount = Amount(req[h]) /\ p.fund = Fund(req[h])
        /\ DOMAIN p = {"amount", "fund", "user", "split"}
    BY DEF Edits
  <2> HIDE DEF p
  <2>3. Current(h)'
    BY <1>1, <1>5, <2>1 DEF Current, Pending, CheckReview, Sort
  <2>4. pc'[h] = "funds" => req[h].split = None
    BY <2>1, <2>2
  <2>5. Patched(h)'
    BY <1>1, <2>1, <2>2, <2>4 DEF Patched, Derives, Amount, Fund
  <2>6. QED BY <1>1, <2>3, <2>5, SerialFrame DEF Step, Serial, SplitSums
<1>6. QED
  BY <1>2, <1>3, <1>4, <1>5
     DEF Shape, TypeOK, CheckContribution, CheckRejection, CheckReview, Goto

\* An edit leaves a row that adds up.
LEMMA SerialEdit ==
    ASSUME Shape, Serial, NEW h \in Handlers, Derive(h) \/ Edit(h) PROVE Serial'
<1>1. /\ req[h] \in Review /\ Acceptable(req[h]) /\ Id(h) \in DOMAIN txns
      /\ patch[h] \in Patch /\ req[h].op = "approveRedemption" /\ pc[h] \in Checked
  BY DEF Shape, Handled, Derive, Edit, Checked, Review
<1>2. txns[Id(h)] \in Row /\ Id(h)' = Id(h) /\ req' = req
  BY <1>1 DEF Shape, TypeOK, Id, Derive, Edit
<1>3. Current(h) /\ Patched(h)
  BY DEF Serial
<1> DEFINE p == patch[h]
           row == txns[Id(h)]
<1>4. CASE Derive(h)
  <2>1. /\ txns' = txns /\ txn' = txn /\ pc'[h] = "edit"
        /\ patch'[h].split = Whole(Or(p.fund, row.fund), Or(p.amount, row.amount))
        /\ patch'[h].amount = p.amount /\ patch'[h].fund = p.fund
    BY <1>1, <1>4 DEF Shape, TypeOK, Derive, Goto, Patch
  <2>2. Current(h)'
    BY <1>1, <1>2, <1>3, <2>1 DEF Current
  <2>3. Patched(h)'
    BY <1>2, <1>3, <1>4, <2>1 DEF Patched, Derive
  <2>4. QED BY <1>4, <2>1, <2>2, <2>3, SerialFrame DEF Step, Serial, SplitSums
<1>5. CASE Edit(h)
  <2> DEFINE new == Edited(h)
  <2>1. /\ new.type = row.type /\ new.status = row.status
        /\ new.amount = Or(p.amount, row.amount) /\ new.fund = Or(p.fund, row.fund)
        /\ new.split = Or(p.split, row.split)
        /\ txn'[h] = new /\ pc'[h] = "funds" /\ DOMAIN txns' = DOMAIN txns
        /\ txns'[Id(h)] = new /\ \A j \in DOMAIN txns : j # Id(h) => txns'[j] = txns[j]
    BY <1>5, EditWritten DEF Shape, TypeOK
  <2> HIDE DEF new
  <2>2. Current(h)'
    BY <1>1, <1>2, <1>3, <2>1 DEF Current
  <2>3. None \notin Int \cup [Funds -> Int]
    BY NidhiAssumption
  <2>4. Patched(h)'
    BY <1>2, <1>3, <1>5, <2>1, <2>3 DEF Patched, Edit, Or
  <2>5. Total(new.split) = new.amount
    <3>1. CASE req[h].split # None
      <4>1. p.split = req[h].split /\ p.amount = Total(req[h].split)
        BY <1>3, <1>5, <3>1 DEF Patched, Edit, Amount
      <4>2. Total(req[h].split) \in Int
        BY <1>1, <3>1 DEF Review, Total, Funds
      <4>3. QED BY <2>1, <2>3, <3>1, <4>1, <4>2 DEF Or
    <3>2. CASE req[h].split = None /\ p.split = None /\ p.amount = None
      <4>1. Total(row.split) = row.amount
        BY <1>1 DEF Serial, SplitSums
      <4>2. QED BY <2>1, <3>2, <4>1 DEF Or
    <3>3. CASE p.split = Whole(Or(p.fund, row.fund), Or(p.amount, row.amount))
      <4>1. Or(p.fund, row.fund) \in Funds /\ Or(p.amount, row.amount) \in Nat
        BY <1>1, <1>2 DEF Or, Patch, Row
      <4>2. p.split \in [Funds -> Nat] /\ Total(p.split) = Or(p.amount, row.amount)
        BY <3>3, <4>1, WholeType
      <4>3. p.split # None
        BY <2>3, <4>2
      <4>4. QED BY <2>1, <4>2, <4>3 DEF Or
    <3>4. QED BY <1>3, <1>5, <3>1, <3>2, <3>3 DEF Patched, Edit
  <2>6. SplitSums'
    BY <2>1, <2>5 DEF Serial, SplitSums
  <2>7. QED BY <1>5, <2>2, <2>4, <2>6, SerialFrame DEF Step
<1>6. QED BY <1>4, <1>5

\* Checking the funds, moving the money and reading what it left change no row.
LEMMA SerialMove ==
    ASSUME Shape, Serial, NEW h \in Handlers,
           CheckFunds(h) \/ MoveMoney(h) \/ Reload(h) \/ Stamp(h)
    PROVE  Serial'
<1>1. UNCHANGED <<txns, req, patch>> /\ Id(h)' = Id(h) /\ pc[h] \in Checked
  BY DEF CheckFunds, MoveMoney, Reload, Stamp, Id, Checked, Moving
<1>2. Current(h)
  BY DEF Serial
<1>3. txn'[h] = txn[h] \/ txn'[h] = txns[Id(h)]
  BY DEF Shape, TypeOK, CheckFunds, MoveMoney, Reload, Stamp
<1>4. Current(h)'
  BY <1>1, <1>2, <1>3 DEF Current
<1>5. pc'[h] \in {"refused"} \cup Moving \cup {"decide"}
  BY DEF Shape, TypeOK, CheckFunds, MoveMoney, Reload, Stamp, Goto, Moving
<1>6. Patched(h)'
  BY <1>5 DEF Patched, Moving
<1>7. QED BY <1>1, <1>4, <1>6, SerialFrame DEF Step, Serial, SplitSums

\* A decision leaves the amounts of its row.
LEMMA SerialWrite ==
    ASSUME Shape, Serial, NEW h \in Handlers, WriteDecision(h) PROVE Serial'
<1>1. SplitSums'
  BY Written DEF Serial, SplitSums
<1>2. pc'[h] = "done"
  BY DEF WriteDecision, Goto, Shape, TypeOK
<1>3. (Current(h) /\ Patched(h))'
  BY <1>2 DEF Current, Patched, Checked, Moving
<1>4. QED BY <1>1, <1>3, SerialFrame DEF Step

\* A handler that fails is done.
LEMMA SerialFail ==
    ASSUME Shape, Serial, NEW h \in Handlers, Fail(h) PROVE Serial'
<1>1. pc'[h] = "failed" /\ txns' = txns
  BY DEF Fail, Goto, Shape, TypeOK
<1>2. (Current(h) /\ Patched(h))'
  BY <1>1 DEF Current, Patched, Checked, Moving
<1>3. QED BY <1>1, <1>2, SerialFrame DEF Serial, SplitSums

\* Every step keeps the decisions apart.
LEMMA SerialStep ==
    ASSUME Shape, Serial, Overlap # "any", [Next]_vars PROVE Serial'
<1>1. ASSUME NEW h \in Handlers, Step(h) PROVE Serial'
  BY <1>1, SerialRaise, SerialCheck, SerialEdit, SerialMove, SerialWrite DEF Step
<1>2. ASSUME NEW h \in Handlers, Fail(h) PROVE Serial'
  BY <1>2, SerialFail
<1>3. ASSUME NEW h \in Handlers, NEW q \in Requests, Arrive(h, q) PROVE Serial'
  BY <1>3, SerialArrive
<1>4. CASE UNCHANGED vars
  BY <1>4 DEF Serial, Alone, SplitSums, Current, Patched, Amount, Fund, Id, vars, local
<1>5. QED BY <1>1, <1>2, <1>3, <1>4 DEF Next, Rest

\* Nothing is being decided at first.
LEMMA SerialInit == ASSUME Init PROVE Serial
BY FileAssumption
   DEF Init, Serial, Alone, SplitSums, Current, Patched, Deciding, Checked, Moving

\* A decided row is neither edited nor decided again.
LEMMA DecidedStep ==
    ASSUME Shape, Serial, Next
    PROVE  \A i \in DOMAIN txns : txns[i].status # "pending" => txns'[i] = txns[i]
<1>1. ASSUME NEW h \in Handlers, Step(h) \/ Fail(h),
             NEW i \in DOMAIN txns, txns[i].status # "pending"
      PROVE  txns'[i] = txns[i]
  BY <1>1, StepTouches DEF Touches, Serial, Current, Checked
<1>2. QED BY <1>1 DEF Next, Arrive, Rest, vars

\* As long as no two decisions of one row overlap, a row's split adds up to its
\* amount, whichever edits are refused half way or fail.
THEOREM SplitsAddUp == Overlap # "any" => (Spec => []SplitSums)
<1> SUFFICES ASSUME Overlap # "any" PROVE Spec => []SplitSums
  OBVIOUS
<1>1. Init => Shape /\ Serial
  BY ShapeInit, SerialInit
<1>2. Shape /\ Serial /\ [Next]_vars => Shape' /\ Serial'
  BY ShapeStep, SerialStep
<1>3. Serial => SplitSums
  BY DEF Serial
<1>4. QED BY <1>1, <1>2, <1>3, PTL DEF Spec

\* Nor is a decision written over, or a decided row edited.
THEOREM DecisionsStand == Overlap # "any" => (Spec => DecidedIsFinal)
<1> SUFFICES ASSUME Overlap # "any" PROVE Spec => DecidedIsFinal
  OBVIOUS
<1>1. Init => Shape /\ Serial
  BY ShapeInit, SerialInit
<1>2. Shape /\ Serial /\ [Next]_vars => Shape' /\ Serial'
  BY ShapeStep, SerialStep
<1>3. Shape /\ Serial /\ [Next]_vars =>
          [\A i \in DOMAIN txns : txns[i].status # "pending" => txns'[i] = txns[i]]_vars
  BY DecidedStep
<1>4. QED BY <1>1, <1>2, <1>3, PTL DEF Spec, DecidedIsFinal

-----------------------------------------------------------------------------
(* The money of a row *)

Reviews == {q \in Requests : q.op = "approveRedemption"}
\* Whoever reviews a row enters a split, every time, or leaves it to the row.
OneManner ==
    /\ \A q, r \in Reviews : q.id = r.id => (q.split = None <=> r.split = None)
    /\ \A i \in DOMAIN OnFile :
          /\ OnFile[i].status = "pending"
          /\ \/ OnFile[i].type = "contribution"
             \/ \E q \in Reviews : q.id = i /\ q.split = None
          => OnFile[i].split = Whole(OnFile[i].fund, OnFile[i].amount)

\* A row nobody splits is on one fund.
Unsplit ==
    \A i \in DOMAIN txns :
        /\ txns[i].status = "pending"
        /\ \/ txns[i].type = "contribution"
           \/ \E q \in Reviews : q.id = i /\ q.split = None
        => txns[i].split = Whole(txns[i].fund, txns[i].amount)

\* What is left to move on a fund.
Owed(d, f) ==
    (IF Len(d) >= 1 /\ d[1][1] = f THEN d[1][2] ELSE 0)
    + (IF Len(d) >= 2 /\ d[2][1] = f THEN d[2][2] ELSE 0)

InTwo(d) == Len(d) \in {1, 2} /\ (Len(d) = 2 => d[1][1] # d[2][1])

Moves(h) == \/ pc[h] \in Moving
            \/ pc[h] = "decide" /\ req[h].op \in Approvals
\* What a row has moved and what its handler still has to move is what it says.
Accounted(h) ==
    Moves(h) =>
        IF pc[h] = "move"
        THEN /\ InTwo(due[h])
             /\ \A f \in Funds :
                   /\ moved[Id(h)][f] + Owed(due[h], f) = Worth(txns[Id(h)])[f]
                   /\ moved[Id(h)][f] = 0 \/ Owed(due[h], f) = 0
        ELSE moved[Id(h)] = Worth(txns[Id(h)])
\* A decided row has moved what it says, or nothing; an open one that has moved
\* anything is being approved.
Closed(i) ==
    CASE txns[i].status = "approved" -> moved[i] = Worth(txns[i])
      [] txns[i].status = "rejected" -> moved[i] = NoMove
      [] OTHER -> moved[i] = NoMove \/ \E h \in Handlers : Moves(h) /\ Id(h) = i

Journal == (\A h \in Handlers : Accounted(h)) /\ \A i \in DOMAIN txns : Closed(i)

\* The first change due, and the others.
LEMMA OwedTail ==
    ASSUME NEW d \in Seq(Funds \X Int), InTwo(d), NEW f \in Funds
    PROVE  /\ Head(d) \in Funds \X Int
           /\ Owed(d, f) \in Int /\ Owed(Tail(d), f) \in Int
           /\ Owed(d, f) = (IF Head(d)[1] = f THEN Head(d)[2] ELSE 0) + Owed(Tail(d), f)
           /\ Head(d)[1] = f => Owed(Tail(d), f) = 0
           /\ IF Len(d) = 1 THEN Owed(Tail(d), f) = 0 ELSE InTwo(Tail(d))
<1>1. CASE Len(d) = 1
  <2>1. /\ d[1] \in Funds \X Int /\ Head(d) = d[1] /\ Len(Tail(d)) = 0
    BY <1>1
  <2>2. d[1][1] \in Funds /\ d[1][2] \in Int
    BY <2>1
  <2>3. /\ Owed(d, f) = IF d[1][1] = f THEN d[1][2] ELSE 0
        /\ Owed(Tail(d), f) = 0
    BY <1>1, <2>1, <2>2 DEF Owed
  <2>4. QED BY <1>1, <2>1, <2>2, <2>3
<1>2. CASE Len(d) = 2
  <2>1. /\ d[1] \in Funds \X Int /\ d[2] \in Funds \X Int /\ Head(d) = d[1]
        /\ Len(Tail(d)) = 1 /\ Tail(d)[1] = d[2]
    BY <1>2
  <2>2. /\ d[1][1] \in Funds /\ d[1][2] \in Int /\ d[2][1] \in Funds /\ d[2][2] \in Int
        /\ d[1][1] # d[2][1]
    BY <1>2, <2>1 DEF InTwo
  <2>3. /\ Owed(d, f) = (IF d[1][1] = f THEN d[1][2] ELSE 0) + IF d[2][1] = f THEN d[2][2] ELSE 0
        /\ Owed(Tail(d), f) = IF d[2][1] = f THEN d[2][2] ELSE 0
    <3>1. Len(d) >= 1 /\ Len(d) >= 2 /\ Len(Tail(d)) >= 1 /\ ~(Len(Tail(d)) >= 2)
      <4>1. ASSUME NEW n, n = 2 PROVE n >= 1 /\ n >= 2
        BY <4>1
      <4>2. ASSUME NEW n, n = 1 PROVE n >= 1 /\ ~(n >= 2)
        BY <4>2
      <4>3. QED BY <1>2, <2>1, <4>1, <4>2
    <3>2. /\ Owed(d, f) = (IF d[1][1] = f THEN d[1][2] ELSE 0)
                             + (IF d[2][1] = f THEN d[2][2] ELSE 0)
          /\ Owed(Tail(d), f) = (IF d[2][1] = f THEN d[2][2] ELSE 0) + 0
      BY <2>1, <3>1 DEF Owed
    <3>3. QED BY <2>2, <3>2
  <2>4. InTwo(Tail(d))
    BY <2>1 DEF InTwo
  <2>5. QED BY <1>2, <2>1, <2>2, <2>3, <2>4
<1>3. QED BY <1>1, <1>2 DEF InTwo

\* One change alone.
LEMMA OwedOne ==
    ASSUME NEW fund \in Funds, NEW sum \in Int
    PROVE  /\ InTwo(<<<<fund, sum>>>>)
           /\ \A f \in Funds : Owed(<<<<fund, sum>>>>, f) = IF f = fund THEN sum ELSE 0
BY DEF Owed, InTwo

\* A review takes what it says from each fund, and each fund once.
LEMMA OwedDebits ==
    ASSUME NEW h \in Handlers, req[h] \in Review, Acceptable(req[h]), txn[h] \in Row
    PROVE  /\ InTwo(Debits(h))
           /\ \A f \in Funds : Owed(Debits(h), f) =
                 IF req[h].split # None THEN -req[h].split[f]
                 ELSE IF f = txn[h].fund THEN -txn[h].amount ELSE 0
<1> DEFINE sum(f) == -req[h].split[f]
           debit(f) == IF req[h].split[f] = 0 THEN <<>> ELSE <<<<f, -req[h].split[f]>>>>
<1>1. CASE req[h].split = None
  <2>1. Debits(h) = <<<<txn[h].fund, -txn[h].amount>>>>
    BY <1>1 DEF Debits
  <2>2. txn[h].fund \in Funds /\ -txn[h].amount \in Int
    BY DEF Row
  <2>3. QED BY <1>1, <2>1, <2>2, OwedOne
<1>2. CASE req[h].split # None
  <2>1. /\ req[h].split["tirtha"] \in Int /\ req[h].split["contribution"] \in Int
        /\ req[h].split["tirtha"] # 0 \/ req[h].split["contribution"] # 0
    BY <1>2 DEF Review, Acceptable, Total, Funds
  <2>2. Debits(h) = debit("tirtha") \o debit("contribution")
    BY <1>2 DEF Debits
  <2> DEFINE t == req[h].split["tirtha"]
             c == req[h].split["contribution"]
  <2>3. \A f \in Funds : req[h].split[f] = IF f = "tirtha" THEN t ELSE c
    BY DEF Funds
  <2>4. t \in Int /\ c \in Int /\ (t # 0 \/ c # 0)
    BY <2>1
  <2>5. CASE c = 0
    <3>1. Debits(h) = <<<<"tirtha", -t>>>>
      BY <2>1, <2>2, <2>5
    <3> HIDE DEF t, c
    <3>2. \A f \in Funds : Owed(Debits(h), f) = IF f = "tirtha" THEN -t ELSE 0
      BY <2>4, <3>1, OwedOne DEF Funds
    <3>3. QED BY <1>2, <2>3, <2>4, <2>5, <3>1, <3>2, OwedOne DEF Funds
  <2>6. CASE c # 0 /\ t = 0
    <3>1. Debits(h) = <<<<"contribution", -c>>>>
      BY <2>2, <2>6
    <3> HIDE DEF t, c
    <3>2. \A f \in Funds : Owed(Debits(h), f) = IF f = "contribution" THEN -c ELSE 0
      BY <2>4, <3>1, OwedOne DEF Funds
    <3>3. QED BY <1>2, <2>3, <2>4, <2>6, <3>1, <3>2, OwedOne DEF Funds
  <2>7. CASE c # 0 /\ t # 0
    <3> DEFINE x == <<<<"tirtha", -t>>>>
               y == <<<<"contribution", -c>>>>
    <3>1. Debits(h) = x \o y
      BY <2>2, <2>7
    <3>2. x \in Seq(Funds \X Int) /\ y \in Seq(Funds \X Int) /\ Len(x) = 1 /\ Len(y) = 1
      <4>1. <<"tirtha", -t>> \in Funds \X Int /\ <<"contribution", -c>> \in Funds \X Int
        BY <2>4 DEF Funds
      <4>2. QED BY <4>1
    <3>3. x[1] = <<"tirtha", -t>> /\ y[1] = <<"contribution", -c>>
      OBVIOUS
    <3> HIDE DEF t, c, x, y
    <3>4. Len(Debits(h)) = 2 /\ Debits(h)[1] = x[1] /\ Debits(h)[2] = y[1]
      <4>1. /\ Len(x \o y) = Len(x) + Len(y)
            /\ \A i \in 1 .. Len(x) + Len(y) :
                  (x \o y)[i] = IF i <= Len(x) THEN x[i] ELSE y[i - Len(x)]
        BY <3>2, ConcatProperties
      <4>2. /\ Len(x \o y) = 1 + 1
            /\ \A i \in 1 .. 1 + 1 : (x \o y)[i] = IF i <= 1 THEN x[i] ELSE y[i - 1]
        BY <3>2, <4>1
      <4>3. QED BY <3>1, <4>2
    <3>5. \A f \in Funds : Owed(Debits(h), f) = (IF f = "tirtha" THEN -t ELSE 0)
                                                + (IF f = "contribution" THEN -c ELSE 0)
      BY <2>4, <3>3, <3>4 DEF Owed
    <3>6. QED BY <1>2, <2>3, <2>4, <3>3, <3>4, <3>5 DEF InTwo, Funds
  <2>8. QED BY <2>5, <2>6, <2>7
<1>3. QED BY <1>1, <1>2

\* A pending row whose handler has not begun to move money has moved none.
LEMMA NothingMoved ==
    ASSUME Shape, Serial, Journal, NEW h \in Handlers, pc[h] \in Deciding, ~Moves(h),
           Id(h) \in DOMAIN txns, txns[Id(h)].status = "pending"
    PROVE  moved[Id(h)] = NoMove
<1>1. Closed(Id(h))
  BY DEF Journal
<1>2. \A g \in Handlers : Moves(g) /\ Id(g) = Id(h) => g = h
  BY DEF Moves, Serial, Alone, Deciding, Checked
<1>3. QED BY <1>1, <1>2 DEF Closed

\* A round trip of one handler, given its own row after it.
LEMMA JournalFrame ==
    ASSUME Shape, Serial, Journal, NEW h \in Handlers, Step(h),
           \A i \in DOMAIN txns : \/ moved'[i] = moved[i]
                                  \/ i = Id(h) /\ pc[h] \in Checked,
           Accounted(h)',
           \A i \in DOMAIN txns' :
              \/ Closed(i)'
              \/ /\ i \in DOMAIN txns /\ txns'[i] = txns[i] /\ moved'[i] = moved[i]
                 /\ Moves(h) /\ Id(h) = i => Moves(h)'
    PROVE  Journal'
<1>1. Touches(h) /\ req' = req
  BY StepTouches
<1>2. \A g \in Handlers \ {h} :
          /\ pc'[g] = pc[g] /\ due'[g] = due[g] /\ Id(g)' = Id(g) /\ Moves(g)' = Moves(g)
  BY <1>1 DEF Touches, Elsewhere, Id, Moves
<1>3. ASSUME NEW g \in Handlers \ {h} PROVE Accounted(g)'
  <2>1. Moves(g) => pc[g] \in Checked /\ Id(g) \in DOMAIN txns
    BY DEF Moves, Checked, Shape, Handled
  <2>2. pc[g] \in Checked /\ pc[h] \in Checked => Id(g) # Id(h)
    BY DEF Serial, Alone, Deciding
  <2>3. Moves(g) => txns'[Id(g)] = txns[Id(g)] /\ moved'[Id(g)] = moved[Id(g)]
    BY <1>1, <2>1, <2>2 DEF Touches, Checked
  <2>4. QED BY <1>2, <2>3 DEF Journal, Accounted
<1>4. ASSUME NEW i \in DOMAIN txns' PROVE Closed(i)'
  <2> SUFFICES ASSUME i \in DOMAIN txns, txns'[i] = txns[i], moved'[i] = moved[i],
                      Moves(h) /\ Id(h) = i => Moves(h)'
               PROVE  Closed(i)'
    OBVIOUS
  <2>1. Closed(i)
    BY DEF Journal
  <2>2. (\E g \in Handlers : Moves(g) /\ Id(g) = i)
            => \E g \in Handlers : Moves(g)' /\ Id(g)' = i
    BY <1>1, <1>2 DEF Id
  <2>3. QED BY <2>1, <2>2 DEF Closed
<1>5. QED BY <1>3, <1>4 DEF Journal

\* A row that is raised has moved nothing.
LEMMA JournalRaise ==
    ASSUME Shape, Serial, Journal, NEW h \in Handlers, Afford(h) \/ Today(h) \/ Insert(h)
    PROVE  Journal'
<1>1. ~Moves(h) /\ ~Moves(h)'
  BY DEF Shape, TypeOK, Afford, Today, Insert, Goto, Moves, Moving
<1>2. Accounted(h)'
  BY <1>1 DEF Accounted
<1>3. CASE Afford(h) \/ Today(h)
  <2>1. UNCHANGED <<txns, moved>>
    BY <1>3 DEF Afford, Today
  <2>2. QED BY <1>1, <1>2, <1>3, <2>1, JournalFrame DEF Step
<1>4. CASE Insert(h)
  <2>1. /\ \A i \in DOMAIN txns : txns'[i] = txns[i] /\ moved'[i] = moved[i]
        /\ \A i \in DOMAIN txns' \ DOMAIN txns :
              txns'[i].status = "pending" /\ moved'[i] = NoMove
    BY <1>4 DEF Insert, Shape, TypeOK
  <2>2. \A i \in DOMAIN txns' \ DOMAIN txns : Closed(i)'
    BY <2>1 DEF Closed
  <2>3. QED BY <1>1, <1>2, <1>4, <2>1, <2>2, JournalFrame DEF Step
<1>5. QED BY <1>3, <1>4

\* A decision that begins to move money owes all of it.
LEMMA JournalDue ==
    ASSUME Shape, Serial, Journal, Unsplit, NEW h \in Handlers,
           CheckContribution(h) \/ CheckFunds(h)
    PROVE  Journal'
<1>1. UNCHANGED <<txns, moved, req>> /\ Id(h)' = Id(h) /\ ~Moves(h) /\ pc[h] \in Deciding
  BY DEF CheckContribution, CheckFunds, Id, Moves, Moving, Deciding, Checked
<1>2. CASE ~Moves(h)'
  BY <1>1, <1>2, JournalFrame DEF Step, Accounted
<1>3. CASE Moves(h)'
  <2>1. /\ Id(h) \in DOMAIN txns /\ txns[Id(h)] \in Row /\ txns[Id(h)].status = "pending"
        /\ pc'[h] = "move" /\ InTwo(due'[h])
        /\ \A f \in Funds : Owed(due'[h], f) = Worth(txns[Id(h)])[f]
    <3> DEFINE row == txns[Id(h)]
    <3>1. CASE CheckContribution(h)
      <4>1. /\ Pending(Id(h), "contribution") /\ pc'[h] = "move"
            /\ due'[h] = <<<<row.fund, row.amount>>>>
        <5>1. req[h].op = "rejectContribution" => ~Moves(h)'
          BY <1>1, <3>1 DEF Shape, TypeOK, CheckContribution, Goto, Moves, Moving, Approvals
        <5>2. pc'[h] # "refused"
          BY <1>3 DEF Moves, Moving
        <5>3. QED BY <1>3, <3>1, <5>1, <5>2 DEF Shape, TypeOK, CheckContribution, Goto
      <4>2. Id(h) \in DOMAIN txns /\ row \in Row /\ row.status = "pending"
            /\ row.type = "contribution"
        BY <4>1 DEF Pending, Shape, TypeOK
      <4>3. row.split = Whole(row.fund, row.amount)
        BY <4>2 DEF Unsplit
      <4>4. row.fund \in Funds /\ row.amount \in Int
        BY <4>2 DEF Row
      <4>5. \A f \in Funds : Worth(row)[f] = IF f = row.fund THEN row.amount ELSE 0
        BY <4>2, <4>3 DEF Worth, Whole
      <4>6. QED BY <4>1, <4>2, <4>4, <4>5, OwedOne
    <3>2. CASE CheckFunds(h)
      <4>1. /\ pc[h] = "funds" /\ pc'[h] = "move" /\ due'[h] = Debits(h)
        BY <1>3, <3>2 DEF Shape, TypeOK, CheckFunds, Goto, Moves, Moving
      <4>2. /\ req[h] \in Review /\ Acceptable(req[h]) /\ Id(h) \in DOMAIN txns
            /\ txn[h] \in Row /\ req[h].op = "approveRedemption" /\ req[h] \in Requests
        BY <4>1 DEF Shape, Handled, Checked, Deciding, Review
      <4>3. txn[h] = row /\ row.status = "pending" /\ row.type = "redemption"
        BY <4>1, <4>2 DEF Serial, Current, Checked, Sort
      <4>4. \A f \in Funds : Worth(row)[f] = -row.split[f]
        BY <4>3 DEF Worth
      <4>5. CASE req[h].split # None
        <5>1. row.split = req[h].split
          BY <4>1, <4>5 DEF Serial, Patched
        <5>2. QED BY <4>1, <4>2, <4>3, <4>4, <4>5, <5>1, OwedDebits
      <4>6. CASE req[h].split = None
        <5>1. row.split = Whole(row.fund, row.amount)
          BY <4>2, <4>3, <4>6 DEF Unsplit, Reviews, Id
        <5>2. \A f \in Funds : -row.split[f] = IF f = row.fund THEN -row.amount ELSE 0
          BY <5>1 DEF Whole
        <5>3. QED BY <4>1, <4>2, <4>3, <4>4, <4>6, <5>2, OwedDebits
      <4>7. QED BY <4>5, <4>6
    <3>3. QED BY <3>1, <3>2
  <2>2. moved[Id(h)] = NoMove
    BY <1>1, <2>1, NothingMoved
  <2>3. \A f \in Funds : moved[Id(h)][f] = 0 /\ Worth(txns[Id(h)])[f] \in Int
    BY <2>1, <2>2 DEF NoMove, Worth, Row
  <2>4. Accounted(h)'
    BY <1>1, <2>1, <2>3 DEF Accounted
  <2>5. QED BY <1>1, <2>4, JournalFrame DEF Step
<1>4. QED BY <1>2, <1>3

\* Rejecting, reviewing and editing move nothing.
LEMMA JournalEdit ==
    ASSUME Shape, Serial, Journal, NEW h \in Handlers,
           CheckRejection(h) \/ CheckReview(h) \/ Derive(h) \/ Edit(h)
    PROVE  Journal'
<1>1. moved' = moved /\ ~Moves(h) /\ pc[h] \in Deciding
  BY DEF CheckRejection, CheckReview, Derive, Edit, Moves, Moving, Deciding, Checked
<1>2. ~Moves(h)'
  <2>1. req' = req
    BY DEF CheckRejection, CheckReview, Derive, Edit, local
  <2>2. pc'[h] \in {"refused", "funds", "derive", "edit"} \/ req[h].op = "rejectRedemption"
    BY DEF Shape, TypeOK, CheckRejection, CheckReview, Derive, Edit, Goto
  <2>3. pc'[h] \notin Moving
    BY DEF Shape, TypeOK, CheckRejection, CheckReview, Derive, Edit, Goto, Moving
  <2>4. QED BY <2>1, <2>2, <2>3 DEF Moves, Approvals
<1>3. Accounted(h)'
  BY <1>2 DEF Accounted
<1>4. CASE CheckRejection(h) \/ CheckReview(h) \/ Derive(h)
  <2>1. txns' = txns
    BY <1>4 DEF CheckRejection, CheckReview, Derive
  <2>2. QED BY <1>1, <1>3, <1>4, <2>1, JournalFrame DEF Step
<1>5. CASE Edit(h)
  <2>1. Id(h) \in DOMAIN txns /\ pc[h] = "edit"
    BY <1>5 DEF Edit, Shape, Handled, Checked
  <2>2. txns[Id(h)].status = "pending"
    BY <2>1 DEF Serial, Current, Checked
  <2>3. moved[Id(h)] = NoMove
    BY <1>1, <2>1, <2>2, NothingMoved
  <2>4. /\ DOMAIN txns' = DOMAIN txns /\ txns'[Id(h)].status = "pending" /\ Id(h)' = Id(h)
        /\ \A i \in DOMAIN txns : i # Id(h) => txns'[i] = txns[i]
    BY <1>5, <2>2, EditWritten DEF Id
  <2>5. Closed(Id(h))'
    BY <1>1, <2>3, <2>4 DEF Closed
  <2>6. QED BY <1>1, <1>3, <1>5, <2>4, <2>5, JournalFrame DEF Step
<1>6. QED BY <1>4, <1>5

\* What is moved is owed no longer.
LEMMA JournalMove ==
    ASSUME Shape, Serial, Journal, NEW h \in Handlers, MoveMoney(h) PROVE Journal'
<1>1. /\ pc[h] = "move" /\ Id(h) \in DOMAIN txns /\ due[h] \in Seq(Funds \X Int)
      /\ req[h].op \in Approvals
  BY DEF Shape, TypeOK, Handled, MoveMoney, Checked, Moving
<1>2. /\ moved[Id(h)] \in [Funds -> Int] /\ moved \in Seq([Funds -> Int])
      /\ Id(h) \in DOMAIN moved
  BY <1>1 DEF Shape, TypeOK
<1>3. /\ InTwo(due[h])
      /\ \A f \in Funds :
            /\ moved[Id(h)][f] + Owed(due[h], f) = Worth(txns[Id(h)])[f]
            /\ moved[Id(h)][f] = 0 \/ Owed(due[h], f) = 0
  BY <1>1 DEF Journal, Accounted, Moves, Moving
<1> DEFINE fund == Head(due[h])[1]
           sum == Head(due[h])[2]
<1>4. /\ moved' = [moved EXCEPT ![Id(h)][fund] = @ + sum]
      /\ due' = [due EXCEPT ![h] = Tail(@)]
      /\ pc'[h] = IF Len(due[h]) = 1 THEN "reload" ELSE "move"
      /\ UNCHANGED <<txns, req>>
  BY DEF MoveMoney, Goto, Shape, TypeOK
<1>5. fund \in Funds /\ sum \in Int
  <2>1. Head(due[h]) \in Funds \X Int
    BY <1>1, <1>3, OwedTail DEF Funds
  <2>2. QED BY <2>1
<1>6. /\ moved'[Id(h)] \in [Funds -> Int]
      /\ \A f \in Funds : moved'[Id(h)][f] = moved[Id(h)][f] + IF fund = f THEN sum ELSE 0
      /\ \A i \in DOMAIN txns : i # Id(h) => moved'[i] = moved[i]
  <2> HIDE DEF fund, sum
  <2>1. moved'[Id(h)] = [moved[Id(h)] EXCEPT ![fund] = @ + sum]
    BY <1>2, <1>4
  <2>2. \A i \in DOMAIN txns : i # Id(h) => moved'[i] = moved[i]
    BY <1>2, <1>4 DEF Shape, TypeOK
  <2>3. QED BY <1>2, <1>5, <2>1, <2>2
<1>7. \A f \in Funds :
          /\ moved'[Id(h)][f] + Owed(Tail(due[h]), f) = Worth(txns[Id(h)])[f]
          /\ moved'[Id(h)][f] = 0 \/ Owed(Tail(due[h]), f) = 0
          /\ Len(due[h]) = 1 => moved'[Id(h)][f] = Worth(txns[Id(h)])[f]
  <2> SUFFICES ASSUME NEW f \in Funds
               PROVE  /\ moved'[Id(h)][f] + Owed(Tail(due[h]), f) = Worth(txns[Id(h)])[f]
                      /\ moved'[Id(h)][f] = 0 \/ Owed(Tail(due[h]), f) = 0
                      /\ Len(due[h]) = 1 => moved'[Id(h)][f] = Worth(txns[Id(h)])[f]
    OBVIOUS
  <2> DEFINE m == moved[Id(h)][f]
             n == moved'[Id(h)][f]
             d == Owed(due[h], f)
             e == Owed(Tail(due[h]), f)
             w == Worth(txns[Id(h)])[f]
  <2>1. /\ d \in Int /\ e \in Int /\ d = (IF fund = f THEN sum ELSE 0) + e
        /\ fund = f => e = 0
        /\ Len(due[h]) = 1 => e = 0
    BY <1>1, <1>3, OwedTail
  <2>2. m \in Int /\ n = m + (IF fund = f THEN sum ELSE 0) /\ m + d = w
        /\ (m = 0 \/ d = 0)
    BY <1>2, <1>3, <1>6
  <2> HIDE DEF m, n, d, e, w, fund, sum
  <2>3. n + e = w /\ (n = 0 \/ e = 0) /\ (Len(due[h]) = 1 => n = w)
    BY <1>5, <2>1, <2>2
  <2>4. QED BY <2>3 DEF n, e, w
<1>8. Accounted(h)'
  <2>1. Id(h)' = Id(h) /\ due'[h] = Tail(due[h])
    BY <1>4 DEF Id, Shape, TypeOK
  <2>2. CASE Len(due[h]) = 1
    <3>1. DOMAIN Worth(txns[Id(h)]) = Funds
      BY DEF Worth
    <3>2. moved'[Id(h)] = Worth(txns[Id(h)])
      <4>1. Worth(txns[Id(h)]) = [f \in Funds |-> Worth(txns[Id(h)])[f]]
        BY DEF Worth
      <4>2. QED BY <1>6, <1>7, <2>2, <4>1
    <3>3. QED BY <1>4, <2>1, <2>2, <3>2 DEF Accounted
  <2>3. CASE Len(due[h]) # 1
    <3>1. InTwo(Tail(due[h]))
      BY <1>1, <1>3, <2>3, OwedTail DEF Funds
    <3>2. QED BY <1>4, <1>7, <2>1, <2>3, <3>1 DEF Accounted
  <2>4. QED BY <2>2, <2>3
<1>9. Closed(Id(h))'
  <2>1. txns[Id(h)].status = "pending"
    BY <1>1 DEF Serial, Current, Checked, Moving
  <2>2. Moves(h)'
    BY <1>4 DEF Moves, Moving
  <2>3. QED BY <1>4, <2>1, <2>2 DEF Closed, Id
<1>10. Id(h)' = Id(h) /\ pc[h] \in Checked
  BY <1>1, <1>4 DEF Id, Checked, Moving
<1>11. QED BY <1>4, <1>6, <1>8, <1>9, <1>10, JournalFrame DEF Step

\* Reading the row and the balance moves nothing more.
LEMMA JournalStamp ==
    ASSUME Shape, Serial, Journal, NEW h \in Handlers, Reload(h) \/ Stamp(h) PROVE Journal'
<1>1. UNCHANGED <<txns, moved, req>> /\ Id(h)' = Id(h) /\ Moves(h) /\ pc[h] # "move"
  BY DEF Reload, Stamp, Id, Moves, Moving
<1>2. req[h].op \in Approvals
  BY DEF Reload, Stamp, Shape, Handled, Moving
<1>3. pc'[h] \in {"stamp", "decide"}
  BY DEF Reload, Stamp, Goto, Shape, TypeOK
<1>4. Moves(h)' /\ Accounted(h)'
  BY <1>1, <1>2, <1>3 DEF Moves, Moving, Accounted, Journal
<1>5. QED BY <1>1, <1>4, JournalFrame DEF Step

\* A decision is written over a row that has moved what it says, or nothing.
LEMMA JournalWrite ==
    ASSUME Shape, Serial, Journal, NEW h \in Handlers, WriteDecision(h) PROVE Journal'
<1>1. /\ pc[h] = "decide" /\ Id(h) \in DOMAIN txns /\ pc'[h] = "done"
      /\ UNCHANGED <<moved, req>> /\ Id(h)' = Id(h)
  BY Written DEF WriteDecision, Goto, Shape, TypeOK, local, Id
<1>2. Accounted(h)'
  BY <1>1 DEF Accounted, Moves, Moving
<1>3. txns[Id(h)].status = "pending"
  BY <1>1 DEF Serial, Current, Checked
<1>4. /\ txns'[Id(h)].type = txns[Id(h)].type /\ txns'[Id(h)].split = txns[Id(h)].split
      /\ txns'[Id(h)].status = IF req[h].op \in Approvals THEN "approved" ELSE "rejected"
  BY Written
<1>5. Worth(txns'[Id(h)]) = Worth(txns[Id(h)])
  BY <1>4 DEF Worth
<1>6. Closed(Id(h))'
  <2>1. CASE req[h].op \in Approvals
    <3>1. moved[Id(h)] = Worth(txns[Id(h)])
      BY <1>1, <2>1 DEF Journal, Accounted, Moves
    <3>2. QED BY <1>1, <1>4, <1>5, <2>1, <3>1 DEF Closed
  <2>2. CASE req[h].op \notin Approvals
    <3>1. moved[Id(h)] = NoMove
      BY <1>1, <1>3, <2>2, NothingMoved DEF Moves, Moving, Deciding, Checked
    <3>2. QED BY <1>1, <1>4, <2>2, <3>1 DEF Closed
  <2>3. QED BY <2>1, <2>2
<1>7. QED BY <1>1, <1>2, <1>6, Written, JournalFrame DEF Step

\* No request arrives with money moved.
LEMMA JournalArrive ==
    ASSUME Shape, Journal, NEW h \in Handlers, NEW q \in Requests, Arrive(h, q) PROVE Journal'
<1>1. UNCHANGED <<txns, moved>> /\ Elsewhere(h) /\ ~Moves(h) /\ ~Moves(h)'
  BY DEF Shape, TypeOK, Arrive, Goto, Elsewhere, Moves, Moving
<1>2. \A g \in Handlers \ {h} :
          pc'[g] = pc[g] /\ due'[g] = due[g] /\ Id(g)' = Id(g) /\ Moves(g)' = Moves(g)
  BY <1>1 DEF Elsewhere, Id, Moves
<1>3. \A g \in Handlers : Accounted(g)'
  BY <1>1, <1>2 DEF Journal, Accounted
<1>4. ASSUME NEW i \in DOMAIN txns PROVE Closed(i)'
  <2>1. Closed(i)
    BY DEF Journal
  <2>2. (\E g \in Handlers : Moves(g) /\ Id(g) = i)
            => \E g \in Handlers : Moves(g)' /\ Id(g)' = i
    BY <1>1, <1>2
  <2>3. QED BY <1>1, <2>1, <2>2 DEF Closed
<1>5. QED BY <1>1, <1>3, <1>4 DEF Journal

\* A row that nobody splits stays on one fund.
LEMMA UnsplitStep ==
    ASSUME Shape, Serial, Unsplit, OneManner, [Next]_vars PROVE Unsplit'
<1>1. ASSUME NEW h \in Handlers, Insert(h) PROVE Unsplit'
  <2> DEFINE n == Len(txns) + 1
  <2>1. /\ \A i \in DOMAIN txns : txns'[i] = txns[i]
        /\ \A i \in DOMAIN txns' : i \in DOMAIN txns \/ i = n
        /\ txns'[n].split = Whole(txns'[n].fund, txns'[n].amount)
    BY <1>1 DEF Insert, Shape, TypeOK
  <2> HIDE DEF n
  <2>2. QED BY <2>1 DEF Unsplit
<1>2. ASSUME NEW h \in Handlers, Edit(h) PROVE Unsplit'
  <2> DEFINE p == patch[h]
             row == txns[Id(h)]
             new == Edited(h)
  <2>1. /\ pc[h] = "edit" /\ Id(h) \in DOMAIN txns /\ req[h] \in Requests
        /\ req[h].op = "approveRedemption"
    BY <1>2, EditWritten
  <2>2. row.type = "redemption" /\ row.status = "pending"
    BY <2>1 DEF Serial, Current, Checked, Sort
  <2>3. /\ new \in Row /\ new.type = row.type
        /\ new.amount = Or(p.amount, row.amount) /\ new.fund = Or(p.fund, row.fund)
        /\ new.split = Or(p.split, row.split)
    BY <1>2, EditWritten
  <2>4. /\ DOMAIN txns' = DOMAIN txns /\ txns'[Id(h)] = new
        /\ \A j \in DOMAIN txns : j # Id(h) => txns'[j] = txns[j]
    BY <1>2, EditWritten
  <2> HIDE DEF new
  <2>5. ASSUME NEW q \in Reviews, q.id = Id(h), q.split = None
        PROVE  new.split = Whole(new.fund, new.amount)
    <3>1. req[h] \in Reviews /\ req[h].id = q.id
      BY <2>1, <2>5 DEF Reviews, Id
    <3>2. req[h].split = None
      BY <2>5, <3>1 DEF OneManner
    <3>3. CASE p.split = None /\ p.amount = None /\ p.fund = None
      <4>1. row.split = Whole(row.fund, row.amount)
        BY <2>1, <2>2, <2>5 DEF Unsplit
      <4>2. QED BY <2>3, <3>3, <4>1 DEF Or
    <3>4. CASE p.split = Whole(new.fund, new.amount)
      <4>1. new.fund \in Funds /\ new.amount \in Nat
        BY <2>3 DEF Row
      <4>2. p.split \in [Funds -> Int]
        BY <3>4, <4>1, WholeType
      <4>3. p.split # None
        BY <4>2, NidhiAssumption
      <4>4. QED BY <2>3, <3>4, <4>3 DEF Or
    <3>5. QED BY <2>1, <2>3, <3>2, <3>3, <3>4 DEF Serial, Patched
  <2>6. QED BY <2>2, <2>3, <2>4, <2>5 DEF Unsplit
<1>3. ASSUME NEW h \in Handlers, WriteDecision(h) PROVE Unsplit'
  <2>1. txns'[Id(h)].status # "pending"
    BY <1>3, Written
  <2>2. QED BY <1>3, <2>1, Written DEF Unsplit
<1>4. CASE txns' = txns
  BY <1>4 DEF Unsplit
<1>5. ASSUME NEW h \in Handlers, Step(h) \/ Fail(h) PROVE Unsplit'
  BY <1>1, <1>2, <1>3, <1>4, <1>5
     DEF Step, Afford, Today, CheckContribution, CheckRejection, CheckReview, Derive,
         CheckFunds, MoveMoney, Reload, Stamp, Fail
<1>6. QED BY <1>4, <1>5 DEF Next, Arrive, Rest, vars

\* Every step keeps the journal, as long as no round trip fails.
LEMMA JournalStep ==
    ASSUME Shape, Serial, Unsplit, Journal, MayFail = FALSE, [Next]_vars PROVE Journal'
<1>1. ASSUME NEW h \in Handlers, Step(h) PROVE Journal'
  BY <1>1, JournalRaise, JournalDue, JournalEdit, JournalMove, JournalStamp, JournalWrite
     DEF Step
<1>2. ASSUME NEW h \in Handlers, NEW q \in Requests, Arrive(h, q) PROVE Journal'
  BY <1>2, JournalArrive
<1>3. CASE UNCHANGED vars
  BY <1>3 DEF Journal, Accounted, Closed, Moves, Id, vars, local
<1>4. QED BY <1>1, <1>2, <1>3 DEF Next, Fail, Rest

\* The rows on file have moved what they say.
LEMMA JournalInit == ASSUME Init, OneManner PROVE Unsplit /\ Journal
<1>1. Unsplit
  BY DEF Init, Unsplit, OneManner
<1>2. \A h \in Handlers : Accounted(h)
  BY DEF Init, Accounted, Moves, Moving
<1>3. \A i \in DOMAIN txns : Closed(i)
  BY DEF Init, Closed
<1>4. QED BY <1>1, <1>2, <1>3 DEF Journal

\* The inductive invariant of the money.
LEMMA JournalKept ==
    ASSUME Overlap # "any", MayFail = FALSE, OneManner
    PROVE  Spec => [](Shape /\ Journal)
<1>1. Init => Shape /\ Serial /\ Unsplit /\ Journal
  BY ShapeInit, SerialInit, JournalInit
<1>2. Shape /\ Serial /\ Unsplit /\ Journal /\ [Next]_vars
          => Shape' /\ Serial' /\ Unsplit' /\ Journal'
  BY ShapeStep, SerialStep, UnsplitStep, JournalStep
<1>3. QED BY <1>1, <1>2, PTL DEF Spec

\* As long as no two decisions of one row overlap and none fails half way, a
\* row's split says what it moved.
THEOREM SplitsTellMoves ==
    Overlap # "any" /\ MayFail = FALSE /\ OneManner => (Spec => []MovesMatch)
<1> SUFFICES ASSUME Overlap # "any", MayFail = FALSE, OneManner PROVE Spec => []MovesMatch
  OBVIOUS
<1>1. ASSUME Shape, Journal PROVE MovesMatch
  <2>1. ASSUME NEW h \in Handlers, Moves(h)
        PROVE  pc[h] \in {"move", "reload", "stamp", "decide"} /\ txn[h] # None
    <3>1. pc[h] \in Checked /\ req[h].op # "rejectRedemption"
      BY <1>1, <2>1 DEF Shape, Handled, Moves, Approvals, Checked
    <3>2. txn[h] \in Row
      BY <1>1, <3>1 DEF Shape, Handled
    <3>3. QED BY <2>1, <3>2, NidhiAssumption DEF Moves, Moving
  <2>2. QED BY <1>1, <2>1 DEF Journal, Closed, MovesMatch
<1>2. QED BY <1>1, JournalKept, PTL

\* And its money moves at most once.
THEOREM MovesOnce ==
    Overlap # "any" /\ MayFail = FALSE /\ OneManner => (Spec => []MovedOnce)
<1> SUFFICES ASSUME Overlap # "any", MayFail = FALSE, OneManner PROVE Spec => []MovedOnce
  OBVIOUS
<1>1. ASSUME Shape, Journal PROVE MovedOnce
  <2> SUFFICES ASSUME NEW i \in DOMAIN txns, NEW f \in Funds
               PROVE  moved[i][f] \in {0, Worth(txns[i])[f]}
    BY DEF MovedOnce
  <2>1. Closed(i) /\ moved[i] \in [Funds -> Int]
    BY <1>1 DEF Journal, Shape, TypeOK
  <2>2. CASE moved[i] = Worth(txns[i]) \/ moved[i] = NoMove
    BY <2>2 DEF NoMove
  <2>3. ASSUME NEW h \in Handlers, Moves(h), Id(h) = i
        PROVE  moved[i][f] \in {0, Worth(txns[i])[f]}
    <3>1. Accounted(h)
      BY <1>1 DEF Journal
    <3>2. CASE pc[h] = "move"
      <4>1. /\ moved[i][f] + Owed(due[h], f) = Worth(txns[i])[f]
            /\ moved[i][f] = 0 \/ Owed(due[h], f) = 0
        BY <2>3, <3>1, <3>2 DEF Accounted
      <4>2. QED BY <2>1, <4>1
    <3>3. QED BY <2>3, <3>1, <3>2 DEF Accounted
  <2>4. QED BY <2>1, <2>2, <2>3 DEF Closed
<1>2. QED BY <1>1, JournalKept, PTL

-----------------------------------------------------------------------------
(* One decision at a time for each requester *)

\* No two decisions about the money of one person are under way.
Sole ==
    \A g, h \in Handlers :
        /\ pc[g] \in Deciding /\ pc[h] \in Deciding
        /\ {Id(g), Id(h)} \subseteq DOMAIN txns
        /\ txns[Id(g)].by = txns[Id(h)].by
        => g = h

\* What a handler still has to take is there.
Covered(h) ==
    pc[h] = "move" =>
        /\ InTwo(due[h])
        /\ \A f \in Funds : balance[txn[h].by][f] + Owed(due[h], f) >= 0

\* The balance a handler has read is the balance.
Stamped(h) ==
    pc[h] = "decide" /\ req[h].op \in Approvals =>
        stamp[h] = balance[txn[h].by][txn[h].fund]

Funded == Sole /\ NeverOverdrawn /\ \A h \in Handlers : Covered(h) /\ Stamped(h)

\* Nobody changes a row's requester.
LEMMA RequesterStays ==
    ASSUME Shape, NEW h \in Handlers, Step(h) \/ Fail(h), NEW i \in DOMAIN txns
    PROVE  i \in DOMAIN txns' /\ txns'[i].by = txns[i].by
<1>1. CASE Edit(h)
  BY <1>1, EditWritten
<1>2. CASE WriteDecision(h)
  BY <1>2, Written
<1>3. CASE Insert(h)
  <2>1. \E row : txns' = Append(txns, row)
    BY <1>3 DEF Insert
  <2>2. QED BY <2>1 DEF Shape, TypeOK
<1>4. CASE txns' = txns
  BY <1>4
<1>5. QED
  BY <1>1, <1>2, <1>3, <1>4
     DEF Step, Afford, Today, CheckContribution, CheckRejection, CheckReview, Derive,
         CheckFunds, MoveMoney, Reload, Stamp, Fail

\* A decision is about its own requester's money only, given its own state after it.
LEMMA FundedFrame ==
    ASSUME Shape, Funded, NEW h \in Handlers, Step(h) \/ Fail(h),
           \A p \in People : balance'[p] = balance[p] \/ (pc[h] = "move" /\ p = txn[h].by),
           NeverOverdrawn', Covered(h)', Stamped(h)'
    PROVE  Funded'
<1>1. Touches(h) /\ req' = req /\ (pc'[h] \in Deciding => pc[h] \in Deciding)
  BY StepTouches
<1>2. \A g \in Handlers : /\ pc'[g] \in Deciding => pc[g] \in Deciding
                          /\ Id(g)' = Id(g)
  BY <1>1 DEF Touches, Elsewhere, Id
<1>3. Sole'
  <2>1. Shape'
    BY ShapeStep DEF Next
  <2>2. \A g \in Handlers : pc[g] \in Deciding /\ Id(g) \in DOMAIN txns' =>
            Id(g) \in DOMAIN txns /\ txns'[Id(g)].by = txns[Id(g)].by
    <3>1. 0 \notin DOMAIN txns'
      BY <2>1 DEF Shape, TypeOK
    <3>2. \A g \in Handlers : pc[g] \in Deciding => Id(g) \in DOMAIN txns \cup {0}
      BY DEF Shape, Handled, NotAnId
    <3>3. QED BY <3>1, <3>2, RequesterStays
  <2>3. SUFFICES ASSUME NEW f \in Handlers, NEW g \in Handlers,
                        pc'[f] \in Deciding, pc'[g] \in Deciding,
                        Id(f)' \in DOMAIN txns', Id(g)' \in DOMAIN txns',
                        txns'[Id(f)'].by = txns'[Id(g)'].by
                 PROVE  f = g
    BY DEF Sole
  <2>4. QED BY <1>2, <2>2, <2>3 DEF Funded, Sole
<1>4. ASSUME NEW g \in Handlers \ {h} PROVE (Covered(g) /\ Stamped(g))'
  <2>1. /\ pc'[g] = pc[g] /\ req'[g] = req[g] /\ txn'[g] = txn[g] /\ due'[g] = due[g]
        /\ stamp'[g] = stamp[g]
    BY <1>1 DEF Touches, Elsewhere
  <2>2. ASSUME pc[g] = "move" \/ (pc[g] = "decide" /\ req[g].op \in Approvals)
        PROVE  balance'[txn[g].by] = balance[txn[g].by]
    <3>1. /\ txn[g] \in Row /\ txn[g].by = txns[Id(g)].by /\ Id(g) \in DOMAIN txns
          /\ pc[g] \in Deciding
      BY <2>2 DEF Shape, Handled, Checked, Deciding, Moving, Approvals
    <3>2. ASSUME pc[h] = "move" PROVE txn[g].by # txn[h].by
      <4>1. /\ txn[h].by = txns[Id(h)].by /\ Id(h) \in DOMAIN txns /\ pc[h] \in Deciding
        BY <3>2 DEF Shape, Handled, Checked, Deciding, Moving, Approvals
      <4>2. QED BY <3>1, <4>1 DEF Funded, Sole
    <3>3. txn[g].by \in People
      BY <3>1 DEF Row
    <3>4. QED BY <3>2, <3>3
  <2>3. QED BY <2>1, <2>2 DEF Funded, Covered, Stamped
<1>5. QED BY <1>3, <1>4 DEF Funded

\* A decision that arrives has the requester's money to itself.
LEMMA FundedArrive ==
    ASSUME Shape, Funded, Overlap = "requester",
           NEW h \in Handlers, NEW q \in Requests, Arrive(h, q)
    PROVE  Funded'
<1>1. /\ UNCHANGED <<balance, txns, txn, due, stamp>> /\ Elsewhere(h) /\ req'[h] = q
      /\ pc'[h] \notin Checked
  BY DEF Shape, TypeOK, Arrive, Goto, Elsewhere, Checked, Moving
<1>2. \A g \in Handlers \ {h} : pc'[g] = pc[g] /\ req'[g] = req[g] /\ Id(g)' = Id(g)
  BY <1>1 DEF Elsewhere, Id
<1>3. Sole'
  <2>1. ASSUME NEW g \in Handlers \ {h}, pc[g] \in Deciding, pc'[h] \in Deciding,
               Id(g) \in DOMAIN txns, q.id \in DOMAIN txns
        PROVE  txns[Id(g)].by # txns[q.id].by
    <3>1. ~Raises(q)
      BY <2>1 DEF Shape, TypeOK, Arrive, Goto, Deciding, Checked, Moving
    <3>2. pc[g] \notin Ended /\ ~Raises(req[g])
      BY <2>1 DEF Shape, Handled, Deciding, Checked, Moving, Ended, Raises, Decide, Review
    <3>3. QED BY <2>1, <3>1, <3>2 DEF Arrive, Rivals
  <2>2. Id(h)' = q.id
    BY <1>1 DEF Id
  <2>3. QED BY <1>1, <1>2, <2>1, <2>2 DEF Funded, Sole
<1>4. \A g \in Handlers \ {h} : (Covered(g) /\ Stamped(g))'
  BY <1>1, <1>2 DEF Funded, Covered, Stamped
<1>5. (Covered(h) /\ Stamped(h))'
  BY <1>1 DEF Covered, Stamped, Checked, Moving
<1>6. NeverOverdrawn'
  BY <1>1 DEF Funded, NeverOverdrawn
<1>7. QED BY <1>3, <1>4, <1>5, <1>6 DEF Funded

\* What a decision is about to take is there.
LEMMA FundedDue ==
    ASSUME Shape, Funded, NEW h \in Handlers, CheckContribution(h) \/ CheckFunds(h)
    PROVE  Funded'
<1>1. balance' = balance /\ NeverOverdrawn'
  BY DEF CheckContribution, CheckFunds, Funded, NeverOverdrawn
<1>2. Stamped(h)'
  BY DEF Shape, TypeOK, CheckContribution, CheckFunds, Goto, Stamped, Approvals
<1>3. Covered(h)'
  <2>1. CASE pc'[h] # "move"
    BY <2>1 DEF Covered
  <2>2. CASE CheckContribution(h) /\ pc'[h] = "move"
    <3> DEFINE row == txns[Id(h)]
    <3>1. Id(h) \in DOMAIN txns /\ txn'[h] = row /\ due'[h] = <<<<row.fund, row.amount>>>>
      BY <2>2 DEF Shape, TypeOK, CheckContribution, Goto, Pending
    <3>2. row \in Row
      BY <3>1 DEF Shape, TypeOK
    <3>3. row.by \in People /\ row.fund \in Funds /\ row.amount \in Nat
      BY <3>2 DEF Row
    <3>4. \A f \in Funds : balance[row.by][f] \in Int /\ balance[row.by][f] >= 0
      BY <3>3 DEF Shape, TypeOK, Funded, NeverOverdrawn
    <3>5. InTwo(due'[h]) /\ \A f \in Funds :
              Owed(due'[h], f) = IF f = row.fund THEN row.amount ELSE 0
      BY <3>1, <3>3, OwedOne
    <3> HIDE DEF row
    <3>6. QED BY <1>1, <3>1, <3>3, <3>4, <3>5 DEF Covered
  <2>3. CASE CheckFunds(h) /\ pc'[h] = "move"
    <3>1. /\ pc[h] = "funds" /\ due'[h] = Debits(h) /\ txn' = txn /\ Affordable(h)
      BY <2>3 DEF Shape, TypeOK, CheckFunds, Goto
    <3>2. req[h] \in Review /\ Acceptable(req[h]) /\ txn[h] \in Row
      BY <3>1 DEF Shape, Handled, Checked, Review
    <3>3. txn[h].by \in People /\ txn[h].fund \in Funds /\ txn[h].amount \in Nat
      BY <3>2 DEF Row
    <3>4. \A f \in Funds : balance[txn[h].by][f] \in Int /\ balance[txn[h].by][f] >= 0
      BY <3>3 DEF Shape, TypeOK, Funded, NeverOverdrawn
    <3>5. InTwo(Debits(h)) /\ \A f \in Funds : balance[txn[h].by][f] + Owed(Debits(h), f) >= 0
      <4>1. CASE req[h].split = None
        BY <3>1, <3>2, <3>3, <3>4, <4>1, OwedDebits DEF Affordable
      <4>2. CASE req[h].split # None
        <5>1. \A f \in Funds : req[h].split[f] \in Int
          BY <3>2, <4>2 DEF Review
        <5>2. QED BY <3>1, <3>2, <3>4, <4>2, <5>1, OwedDebits DEF Affordable
      <4>3. QED BY <4>1, <4>2
    <3>6. QED BY <1>1, <3>1, <3>5 DEF Covered
  <2>4. QED BY <2>1, <2>2, <2>3
<1>4. QED BY <1>1, <1>2, <1>3, FundedFrame DEF Step

\* Taking it leaves the fund at zero or above.
LEMMA FundedMove ==
    ASSUME Shape, Funded, NEW h \in Handlers, MoveMoney(h) PROVE Funded'
<1>1. /\ pc[h] = "move" /\ txn[h] \in Row /\ due[h] \in Seq(Funds \X Int)
      /\ InTwo(due[h])
      /\ \A f \in Funds : balance[txn[h].by][f] + Owed(due[h], f) >= 0
  BY DEF Shape, TypeOK, Handled, MoveMoney, Checked, Moving, Approvals, Funded, Covered
<1> DEFINE fund == Head(due[h])[1]
           sum == Head(due[h])[2]
           by == txn[h].by
<1>2. /\ balance' = [balance EXCEPT ![by][fund] = @ + sum]
      /\ due'[h] = Tail(due[h]) /\ txn' = txn
      /\ pc'[h] = IF Len(due[h]) = 1 THEN "reload" ELSE "move"
  BY DEF MoveMoney, Goto, Shape, TypeOK
<1>3. fund \in Funds /\ sum \in Int /\ by \in People
  <2>1. Head(due[h]) \in Funds \X Int
    BY <1>1, OwedTail DEF Funds
  <2>2. QED BY <1>1, <2>1 DEF Row
<1>4. /\ balance \in [People -> [Funds -> Int]]
      /\ \A p \in People, f \in Funds : balance[p][f] >= 0
  BY DEF Shape, TypeOK, Funded, NeverOverdrawn
<1>5. \A f \in Funds :
          /\ Owed(due[h], f) \in Int /\ Owed(Tail(due[h]), f) \in Int
          /\ Owed(due[h], f) = (IF fund = f THEN sum ELSE 0) + Owed(Tail(due[h]), f)
          /\ fund = f => Owed(Tail(due[h]), f) = 0
  BY <1>1, OwedTail
<1>6. Len(due[h]) # 1 => InTwo(Tail(due[h]))
  BY <1>1, OwedTail DEF Funds
<1> HIDE DEF fund, sum, by
<1>7. /\ \A p \in People : p # by => balance'[p] = balance[p]
      /\ \A f \in Funds : balance'[by][f] = balance[by][f] + IF fund = f THEN sum ELSE 0
  BY <1>2, <1>3, <1>4
<1>8. \A f \in Funds : /\ balance'[by][f] >= 0
                       /\ balance'[by][f] + Owed(Tail(due[h]), f) >= 0
  <2> SUFFICES ASSUME NEW f \in Funds
               PROVE  /\ balance'[by][f] >= 0
                      /\ balance'[by][f] + Owed(Tail(due[h]), f) >= 0
    OBVIOUS
  <2> DEFINE b == balance[by][f]
             c == balance'[by][f]
             d == Owed(due[h], f)
             e == Owed(Tail(due[h]), f)
  <2>1. /\ b \in Int /\ b >= 0 /\ b + d >= 0 /\ d \in Int /\ e \in Int
        /\ c = b + (IF fund = f THEN sum ELSE 0)
        /\ d = (IF fund = f THEN sum ELSE 0) + e /\ (fund = f => e = 0)
    BY <1>1, <1>3, <1>4, <1>5, <1>7 DEF by
  <2> HIDE DEF b, c, d, e
  <2>2. c >= 0 /\ c + e >= 0
    BY <1>3, <2>1
  <2>3. QED BY <2>2 DEF c, e
<1>9. NeverOverdrawn'
  BY <1>4, <1>7, <1>8 DEF NeverOverdrawn
<1>10. (Covered(h) /\ Stamped(h))'
  BY <1>2, <1>6, <1>8 DEF Covered, Stamped, by
<1>11. QED BY <1>1, <1>7, <1>9, <1>10, FundedFrame DEF Step, by

\* No other round trip takes money, and a stamp is read just before it is written.
LEMMA FundedRest ==
    ASSUME Shape, Funded, NEW h \in Handlers, Step(h) \/ Fail(h),
           ~CheckContribution(h), ~CheckFunds(h), ~MoveMoney(h)
    PROVE  Funded'
<1>1. balance' = balance
  BY DEF Step, Afford, Today, Insert, CheckRejection, CheckReview, Derive, Edit, Reload, Stamp,
         WriteDecision, Fail
<1>2. NeverOverdrawn'
  BY <1>1 DEF Funded, NeverOverdrawn
<1>3. CASE Stamp(h)
  <2>1. stamp'[h] = balance[txn[h].by][txn[h].fund] /\ txn' = txn /\ pc'[h] = "decide"
    BY <1>3 DEF Stamp, Goto, Shape, TypeOK
  <2>2. (Covered(h) /\ Stamped(h))'
    BY <1>1, <2>1 DEF Covered, Stamped
  <2>3. QED BY <1>1, <1>2, <2>2, FundedFrame
<1>4. CASE ~Stamp(h)
  <2>1. pc'[h] # "move" /\ (pc'[h] = "decide" => req'[h].op \notin Approvals)
    BY <1>4 DEF Shape, TypeOK, Step, Afford, Today, Insert, CheckRejection, CheckReview,
                Derive, Edit, Reload, WriteDecision, Fail, Goto, local, Approvals
  <2>2. (Covered(h) /\ Stamped(h))'
    BY <2>1 DEF Covered, Stamped
  <2>3. QED BY <1>1, <1>2, <2>2, FundedFrame
<1>5. QED BY <1>3, <1>4

\* Every step keeps the funds covered.
LEMMA FundedStep ==
    ASSUME Shape, Funded, Overlap = "requester", [Next]_vars PROVE Funded'
<1>1. ASSUME NEW h \in Handlers, Step(h) \/ Fail(h) PROVE Funded'
  BY <1>1, FundedDue, FundedMove, FundedRest
<1>2. ASSUME NEW h \in Handlers, NEW q \in Requests, Arrive(h, q) PROVE Funded'
  BY <1>2, FundedArrive
<1>3. CASE UNCHANGED vars
  BY <1>3 DEF Funded, Sole, NeverOverdrawn, Covered, Stamped, Id, vars, local
<1>4. QED BY <1>1, <1>2, <1>3 DEF Next, Rest

\* The balances the model starts with cover everything.
LEMMA FundedInit == ASSUME Init PROVE Funded
<1>1. NeverOverdrawn
  BY NidhiAssumption DEF Init, NeverOverdrawn
<1>2. QED BY <1>1 DEF Init, Funded, Sole, Covered, Stamped, Deciding, Checked, Moving

\* As long as no two decisions about one person's money overlap, no fund goes
\* below zero, also when a decision fails half way.
THEOREM FundsLast == Overlap = "requester" => (Spec => []NeverOverdrawn)
<1> SUFFICES ASSUME Overlap = "requester" PROVE Spec => []NeverOverdrawn
  OBVIOUS
<1>1. Init => Shape /\ Funded
  BY ShapeInit, FundedInit
<1>2. Shape /\ Funded /\ [Next]_vars => Shape' /\ Funded'
  BY ShapeStep, FundedStep
<1>3. Funded => NeverOverdrawn
  BY DEF Funded
<1>4. QED BY <1>1, <1>2, <1>3, PTL DEF Spec

\* An approval is stamped with the balance it leaves.
LEMMA StampStep ==
    ASSUME Shape, Serial, Funded, Next
    PROVE  \A i \in DOMAIN txns :
              txns[i].status = "pending" /\ txns'[i].status = "approved" =>
                  txns'[i].after = balance'[txns'[i].by][txns'[i].fund]
<1> SUFFICES ASSUME NEW i \in DOMAIN txns, txns[i].status = "pending",
                    txns'[i].status = "approved"
             PROVE  txns'[i].after = balance'[txns'[i].by][txns'[i].fund]
  OBVIOUS
<1>1. ASSUME NEW h \in Handlers, WriteDecision(h), i = Id(h)
      PROVE  txns'[i].after = balance'[txns'[i].by][txns'[i].fund]
  <2>1. req[h].op \in Approvals /\ pc[h] = "decide" /\ txns'[i] = Decided(h)
    BY <1>1, Written
  <2>2. txn[h] = txns[i]
    BY <1>1, <2>1 DEF Serial, Current, Checked, Approvals
  <2>3. stamp[h] = balance[txn[h].by][txn[h].fund]
    BY <2>1 DEF Funded, Stamped
  <2>4. balance' = balance
    BY <1>1 DEF WriteDecision
  <2>5. QED BY <1>1, <2>1, <2>2, <2>3, <2>4, Written
<1>2. ASSUME NEW h \in Handlers, WriteDecision(h), i # Id(h) PROVE FALSE
  BY <1>2, Written
<1>3. ASSUME NEW h \in Handlers, Edit(h) PROVE FALSE
  BY <1>3, EditWritten
<1>4. ASSUME NEW h \in Handlers, Insert(h) PROVE FALSE
  <2>1. \E row : txns' = Append(txns, row)
    BY <1>4 DEF Insert
  <2>2. txns'[i] = txns[i]
    BY <2>1 DEF Shape, TypeOK
  <2>3. QED BY <2>2
<1>5. txns' # txns
  OBVIOUS
<1>6. \E h \in Handlers : Edit(h) \/ Insert(h) \/ WriteDecision(h)
  BY <1>5 DEF Next, Step, Afford, Today, CheckContribution, CheckRejection, CheckReview, Derive,
              CheckFunds, MoveMoney, Reload, Stamp, Fail, Arrive, Rest, vars
<1>7. QED BY <1>1, <1>2, <1>3, <1>4, <1>6

\* As long as no two decisions about one person's money overlap, the balance
\* stamped on an approval is the requester's at the moment it is written.
THEOREM StampsTell == Overlap = "requester" => (Spec => StampTrue)
<1> SUFFICES ASSUME Overlap = "requester" PROVE Spec => StampTrue
  OBVIOUS
<1>1. Init => Shape /\ Serial /\ Funded
  BY ShapeInit, SerialInit, FundedInit
<1>2. Shape /\ Serial /\ Funded /\ [Next]_vars => Shape' /\ Serial' /\ Funded'
  BY ShapeStep, SerialStep, FundedStep
<1>3. Shape /\ Serial /\ Funded /\ [Next]_vars =>
          [\A i \in DOMAIN txns :
              txns[i].status = "pending" /\ txns'[i].status = "approved" =>
                  txns'[i].after = balance'[txns'[i].by][txns'[i].fund]]_vars
  BY StampStep
<1>4. QED BY <1>1, <1>2, <1>3, PTL DEF Spec, StampTrue
=============================================================================
