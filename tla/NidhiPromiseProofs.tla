------------------------- MODULE NidhiPromiseProofs -------------------------
(* The handlers of Nidhi implement the decisions of NidhiBook, for any       *)
(* handlers, people, requests and rows on file: each round trip of a handler *)
(* is one entry of the book, or none.                                        *)
EXTENDS NidhiPromise, NidhiProofs, SumsProofs

-----------------------------------------------------------------------------
(* Who decides, and what for *)

\* Whoever is deciding a contribution is its recipient.
Entitled(h) ==
    pc[h] \in Checked /\ Sort(req[h]) = "contribution" => req[h].by = txns[Id(h)].user

\* No request is for nothing.
Positive == \A i \in DOMAIN txns : txns[i].amount > 0

Proper == Positive /\ \A h \in Handlers : Entitled(h)

\* An edit leaves a positive amount.
LEMMA PositiveEdit ==
    ASSUME Shape, Serial, Positive, NEW h \in Handlers, Edit(h)
    PROVE  Edited(h).amount > 0
<1> DEFINE p == patch[h]
           row == txns[Id(h)]
<1>1. /\ pc[h] = "edit" /\ Acceptable(req[h]) /\ req[h] \in Review /\ row \in Row
      /\ Edited(h).amount = Or(p.amount, row.amount) /\ Id(h) \in DOMAIN txns
  BY EditWritten
<1>2. p.amount = Amount(req[h])
  BY <1>1 DEF Serial, Patched
<1>3. row.amount > 0
  BY <1>1 DEF Positive
<1>4. p.amount = None \/ p.amount > 0
  BY <1>1, <1>2 DEF Acceptable, Amount
<1>5. QED BY <1>1, <1>3, <1>4 DEF Or

\* Amounts stay positive.
LEMMA PositiveStep ==
    ASSUME Shape, Serial, Positive, [Next]_vars PROVE Positive'
<1>1. ASSUME NEW h \in Handlers, Insert(h) PROVE Positive'
  <2> DEFINE n == Len(txns) + 1
  <2>1. req[h].amount \in Nat \ {0}
    BY <1>1 DEF Shape, Handled, Insert, Raising
  <2>2. /\ \A i \in DOMAIN txns : txns'[i] = txns[i]
        /\ \A i \in DOMAIN txns' : i \in DOMAIN txns \/ i = n
        /\ txns'[n].amount = req[h].amount
    BY <1>1 DEF Insert, Shape, TypeOK
  <2> HIDE DEF n
  <2>3. QED BY <2>1, <2>2 DEF Positive
<1>2. ASSUME NEW h \in Handlers, Edit(h) PROVE Positive'
  BY <1>2, PositiveEdit, EditWritten DEF Positive
<1>3. ASSUME NEW h \in Handlers, WriteDecision(h) PROVE Positive'
  BY <1>3, Written DEF Positive
<1>4. CASE txns' = txns
  BY <1>4 DEF Positive
<1>5. ASSUME NEW h \in Handlers, Step(h) \/ Fail(h) PROVE Positive'
  BY <1>1, <1>2, <1>3, <1>4, <1>5
     DEF Step, Afford, Today, CheckContribution, CheckRejection, CheckReview, Derive,
         CheckFunds, MoveMoney, Reload, Stamp, Fail
<1>6. QED BY <1>4, <1>5 DEF Next, Arrive, Rest, vars

\* A handler that goes on with a contribution has been found to be its recipient,
\* and keeps the row to itself.
LEMMA EntitledStep ==
    ASSUME Shape, Serial, \A h \in Handlers : Entitled(h), [Next]_vars
    PROVE  \A h \in Handlers : Entitled(h)'
<1>1. ASSUME NEW g \in Handlers, Step(g) \/ Fail(g), NEW h \in Handlers \ {g}
      PROVE  Entitled(h)'
  <2>1. Touches(g)
    BY <1>1, StepTouches
  <2>2. pc'[h] = pc[h] /\ req'[h] = req[h] /\ Id(h)' = Id(h)
    BY <2>1 DEF Touches, Elsewhere, Id
  <2>3. pc[h] \in Checked => Id(h) \in DOMAIN txns
    BY DEF Shape, Handled
  <2>4. pc[h] \in Checked => txns'[Id(h)] = txns[Id(h)]
    BY <2>1, <2>3 DEF Touches, Serial, Alone, Deciding, Checked
  <2>5. QED BY <2>2, <2>4 DEF Entitled, Sort
<1>2. ASSUME NEW h \in Handlers, Step(h) \/ Fail(h) PROVE Entitled(h)'
  <2>1. CASE Edit(h)
    <3>1. Sort(req[h]) = "redemption" /\ req' = req
      BY <2>1, EditWritten DEF Sort
    <3>2. QED BY <3>1 DEF Entitled, Sort
  <2>2. CASE WriteDecision(h) \/ Fail(h) \/ Insert(h)
    BY <2>2 DEF WriteDecision, Fail, Insert, Goto, Shape, TypeOK, Entitled, Checked, Moving
  <2>3. CASE CheckContribution(h)
    BY <2>3 DEF CheckContribution, Recipient, Goto, Shape, TypeOK, Entitled, Sort, Id, Checked,
                Moving
  <2>4. CASE CheckRejection(h) \/ CheckReview(h)
    <3>1. Sort(req[h]) = "redemption" /\ req' = req
      BY <2>4 DEF CheckRejection, CheckReview, Sort, local
    <3>2. QED BY <3>1 DEF Entitled, Sort
  <2>5. CASE Afford(h) \/ Today(h)
    BY <2>5 DEF Afford, Today, Goto, Shape, TypeOK, Entitled, Checked, Moving
  <2>6. CASE Derive(h) \/ CheckFunds(h) \/ MoveMoney(h) \/ Reload(h) \/ Stamp(h)
    <3>1. pc[h] \in Checked /\ req' = req /\ txns' = txns
      BY <2>6 DEF Derive, CheckFunds, MoveMoney, Reload, Stamp, Checked, Moving
    <3>2. QED BY <3>1 DEF Entitled, Sort, Id
  <2>7. QED BY <1>2, <2>1, <2>2, <2>3, <2>4, <2>5, <2>6 DEF Step
<1>3. ASSUME NEW g \in Handlers, NEW q \in Requests, Arrive(g, q), NEW h \in Handlers
      PROVE  Entitled(h)'
  BY <1>3 DEF Arrive, Goto, Shape, TypeOK, Entitled, Sort, Id, Checked, Moving
<1>4. CASE UNCHANGED vars
  BY <1>4 DEF Entitled, Sort, Id, vars, local
<1>5. QED BY <1>1, <1>2, <1>3, <1>4 DEF Next, Rest

\* Both hold at first.
LEMMA ProperInit == ASSUME Init PROVE Proper
BY FileAssumption DEF Init, Proper, Positive, Entitled, Checked, Moving

\* No step ends it.
LEMMA ProperStep == ASSUME Shape, Serial, Proper, [Next]_vars PROVE Proper'
BY PositiveStep, EntitledStep DEF Proper

-----------------------------------------------------------------------------
(* What is settled *)

\* The open requests of a person are finitely many rows, and what each has moved
\* on a fund is a whole number.
LEMMA RaisedRows ==
    ASSUME Shape, NEW p, NEW f \in Funds
    PROVE  /\ IsFiniteSet(Raised(p)) /\ Raised(p) \subseteq DOMAIN txns
           /\ DOMAIN moved = DOMAIN txns
           /\ \A i \in DOMAIN txns : Moved(f)[i] = moved[i][f] /\ Moved(f)[i] \in Int
<1> DEFINE n == Len(txns)
<1>1. n \in Nat /\ DOMAIN txns = 1 .. n /\ DOMAIN moved = 1 .. n
  BY DEF Shape, TypeOK
<1>2. IsFiniteSet(1 .. n)
  BY <1>1, UpTo
<1>3. Raised(p) \subseteq 1 .. n
  BY <1>1 DEF Raised
<1>4. IsFiniteSet(Raised(p))
  BY <1>2, <1>3, FS_Subset
<1>5. \A i \in DOMAIN txns : Moved(f)[i] = moved[i][f] /\ moved[i][f] \in Int
  BY DEF Shape, TypeOK, Moved
<1>6. QED BY <1>1, <1>3, <1>4, <1>5

\* Neither what is open nor what has moved changes: neither does what is settled.
LEMMA SettledSame ==
    ASSUME Shape, UNCHANGED <<balance, moved>>, DOMAIN txns' = DOMAIN txns,
           \A i \in DOMAIN txns : txns'[i].by = txns[i].by /\ txns'[i].status = txns[i].status
    PROVE  Settled' = Settled
<1>1. \A p : Raised(p)' = Raised(p)
  BY DEF Raised
<1>2. \A f : Moved(f)' = Moved(f)
  BY DEF Moved
<1>3. QED BY <1>1, <1>2 DEF Settled

\* Money that moves for an open request leaves what is settled.
LEMMA SettledMove ==
    ASSUME Shape, Serial, NEW h \in Handlers, MoveMoney(h) PROVE Settled' = Settled
<1> DEFINE i == Id(h)
           by == txns[i].by
           fund == Head(due[h])[1]
           sum == Head(due[h])[2]
<1>1. /\ pc[h] = "move" /\ i \in DOMAIN txns /\ due[h] \in Seq(Funds \X Int) /\ due[h] # <<>>
      /\ req[h].op \in Approvals
  BY DEF Shape, TypeOK, Handled, MoveMoney, Checked, Moving
<1>2. txn[h].by = by /\ txns[i].status = "pending"
  BY <1>1 DEF Serial, Current, Shape, Handled, Checked, Moving, Approvals
<1>3. Head(due[h]) \in Funds \X Int
  BY <1>1
<1>4. fund \in Funds /\ sum \in Int
  BY <1>3
<1>5. /\ balance' = [balance EXCEPT ![by][fund] = @ + sum]
      /\ moved' = [moved EXCEPT ![i][fund] = @ + sum] /\ txns' = txns
  BY <1>2 DEF MoveMoney
<1>6. by \in People
  <2>1. txns[i] \in Row
    BY <1>1 DEF Shape, TypeOK
  <2>2. QED BY <2>1 DEF Row
<1>7. Shape'
  BY ShapeStep DEF Next, Step
<1> HIDE DEF i, by, fund, sum
<1>8. ASSUME NEW p \in People, NEW f \in Funds
      PROVE  balance'[p][f] - SumOver(Raised(p)', Moved(f)')
                = balance[p][f] - SumOver(Raised(p), Moved(f))
  <2>1. Raised(p)' = Raised(p)
    BY <1>5 DEF Raised
  <2>2. /\ IsFiniteSet(Raised(p)) /\ Raised(p) \subseteq DOMAIN txns
        /\ DOMAIN moved = DOMAIN txns
        /\ \A j \in DOMAIN txns : Moved(f)[j] = moved[j][f] /\ Moved(f)[j] \in Int
    BY RaisedRows
  <2>3. \A j \in DOMAIN txns : Moved(f)'[j] = moved'[j][f]
    BY <1>5, <2>2 DEF Moved
  <2>4. balance[p][f] \in Int /\ balance \in [People -> [Funds -> Int]]
    BY DEF Shape, TypeOK
  <2>5. moved \in Seq([Funds -> Int])
    BY DEF Shape, TypeOK
  <2>6. SumOver(Raised(p), Moved(f)) \in Int
    BY <2>2, SumType
  <2>7. CASE p = by /\ f = fund
    <3>1. i \in Raised(p)
      BY <1>1, <1>2, <2>7 DEF Raised, by
    <3>2. Moved(f)'[i] = Moved(f)[i] + sum
      BY <1>1, <1>5, <2>2, <2>3, <2>5, <2>7
    <3>3. \A j \in Raised(p) \ {i} : Moved(f)'[j] = Moved(f)[j]
      BY <1>5, <2>2, <2>3, <2>5
    <3>4. SumOver(Raised(p), Moved(f)')
            = SumOver(Raised(p), Moved(f)) + Moved(f)'[i] - Moved(f)[i]
      <4>1. \A j \in Raised(p) : Moved(f)[j] \in Int
        BY <2>2
      <4>2. Moved(f)'[i] \in Int
        BY <1>1, <1>4, <2>2, <3>2
      <4>3. QED BY <2>2, <3>1, <3>3, <4>1, <4>2, SumChange
    <3>5. balance'[p][f] = balance[p][f] + sum
      BY <1>5, <2>4, <2>7
    <3>6. Moved(f)[i] \in Int
      BY <1>1, <2>2
    <3>7. QED BY <1>4, <2>1, <2>4, <2>6, <3>2, <3>4, <3>5, <3>6
  <2>8. CASE ~(p = by /\ f = fund)
    <3>1. balance'[p][f] = balance[p][f]
      BY <1>5, <2>4, <2>8
    <3>2. \A j \in Raised(p) : Moved(f)'[j] = Moved(f)[j]
      <4>1. CASE f # fund
        BY <1>5, <2>2, <2>3, <2>5, <4>1
      <4>2. CASE p # by
        <5>1. i \notin Raised(p)
          BY <4>2 DEF Raised, by
        <5>2. QED BY <1>5, <2>2, <2>3, <2>5, <5>1
      <4>3. QED BY <2>8, <4>1, <4>2
    <3>3. SumOver(Raised(p), Moved(f)') = SumOver(Raised(p), Moved(f))
      BY <3>2, SumSame
    <3>4. QED BY <2>1, <3>1, <3>3
  <2>9. QED BY <2>7, <2>8
<1>9. QED BY <1>8 DEF Settled

\* A request that is raised is open, and has moved nothing.
LEMMA SettledInsert ==
    ASSUME Shape, NEW h \in Handlers, Insert(h) PROVE Settled' = Settled
<1> DEFINE n == Len(txns) + 1
<1>1. /\ n \notin DOMAIN txns /\ DOMAIN txns' = DOMAIN txns \cup {n}
      /\ \A j \in DOMAIN txns : txns'[j] = txns[j] /\ moved'[j] = moved[j]
      /\ moved'[n] = NoMove /\ balance' = balance /\ DOMAIN moved' = DOMAIN txns'
  BY DEF Insert, Shape, TypeOK
<1> HIDE DEF n
<1>2. ASSUME NEW p \in People, NEW f \in Funds
      PROVE  SumOver(Raised(p)', Moved(f)') = SumOver(Raised(p), Moved(f))
  <2>1. /\ IsFiniteSet(Raised(p)) /\ Raised(p) \subseteq DOMAIN txns
        /\ \A j \in DOMAIN txns : Moved(f)[j] = moved[j][f] /\ Moved(f)[j] \in Int
    BY RaisedRows
  <2>2. \A j \in DOMAIN txns' : Moved(f)'[j] = moved'[j][f]
    BY <1>1 DEF Moved
  <2>3. \A j \in Raised(p) : Moved(f)'[j] = Moved(f)[j]
    BY <1>1, <2>1, <2>2
  <2>4. SumOver(Raised(p), Moved(f)') = SumOver(Raised(p), Moved(f))
    BY <2>3, SumSame
  <2>5. Moved(f)'[n] = 0
    BY <1>1, <2>2 DEF NoMove
  <2>6. CASE Raised(p)' = Raised(p)
    BY <2>4, <2>6
  <2>7. CASE Raised(p)' = Raised(p) \cup {n}
    <3>1. n \notin Raised(p)
      BY <1>1, <2>1
    <3>2. \A j \in Raised(p) \cup {n} : Moved(f)'[j] \in Int
      BY <2>1, <2>3, <2>5
    <3>3. SumOver(Raised(p) \cup {n}, Moved(f)') = SumOver(Raised(p), Moved(f)') + Moved(f)'[n]
      <4> DEFINE S == Raised(p)
                 g == Moved(f)'
      <4>1. IsFiniteSet(S) /\ n \notin S /\ \A j \in S \cup {n} : g[j] \in Int
        BY <2>1, <3>1, <3>2
      <4> HIDE DEF S, g
      <4>2. SumOver(S \cup {n}, g) = SumOver(S, g) + g[n]
        BY <4>1, SumAdd
      <4>3. QED BY <4>2 DEF S, g
    <3>4. SumOver(Raised(p), Moved(f)) \in Int
      BY <2>1, SumType
    <3>5. QED BY <2>4, <2>5, <2>7, <3>3, <3>4
  <2>8. Raised(p)' = Raised(p) \/ Raised(p)' = Raised(p) \cup {n}
    BY <1>1 DEF Raised
  <2>9. QED BY <2>6, <2>7, <2>8
<1>3. QED BY <1>1, <1>2 DEF Settled

\* A decision settles what its row has moved.
LEMMA SettledWrite ==
    ASSUME Shape, Serial, NEW h \in Handlers, WriteDecision(h)
    PROVE  Settled' = [Settled EXCEPT ![txns[Id(h)].by] =
                          [f \in Funds |-> @[f] + moved[Id(h)][f]]]
<1>1. Id(h) \in DOMAIN txns /\ txns[Id(h)].by \in People
  BY Written DEF Row
<1> PICK i \in DOMAIN txns, by \in People : i = Id(h) /\ by = txns[i].by
  BY <1>1
<1>2. /\ pc[h] = "decide" /\ i \in DOMAIN txns /\ txns[i] \in Row
      /\ txns'[i].status \in {"approved", "rejected"} /\ txns'[i].by = by
      /\ DOMAIN txns' = DOMAIN txns /\ \A j \in DOMAIN txns : j # i => txns'[j] = txns[j]
  BY Written
<1>3. txns[i].status = "pending"
  BY <1>2 DEF Serial, Current, Checked, Row
<1>4. UNCHANGED <<balance, moved>>
  BY DEF WriteDecision
<1>5. \A f : Moved(f)' = Moved(f)
  BY <1>4 DEF Moved
<1>6. ASSUME NEW p \in People, p # by PROVE Raised(p)' = Raised(p)
  BY <1>2, <1>6 DEF Raised
<1>7. Raised(by)' = Raised(by) \ {i} /\ i \in Raised(by)
  BY <1>2, <1>3 DEF Raised
<1>8. ASSUME NEW f \in Funds
      PROVE  balance[by][f] - SumOver(Raised(by) \ {i}, Moved(f))
               = balance[by][f] - SumOver(Raised(by), Moved(f)) + moved[i][f]
  <2>1. /\ IsFiniteSet(Raised(by)) /\ Raised(by) \subseteq DOMAIN txns
        /\ \A j \in DOMAIN txns : Moved(f)[j] = moved[j][f] /\ Moved(f)[j] \in Int
    BY RaisedRows
  <2>2. \A j \in Raised(by) : Moved(f)[j] \in Int
    BY <2>1
  <2>3. SumOver(Raised(by) \ {i}, Moved(f)) = SumOver(Raised(by), Moved(f)) - Moved(f)[i]
    <3> DEFINE S == Raised(by)
               g == Moved(f)
    <3>1. IsFiniteSet(S) /\ i \in S /\ \A j \in S : g[j] \in Int
      BY <1>7, <2>1, <2>2
    <3> HIDE DEF S, g
    <3>2. SumOver(S \ {i}, g) = SumOver(S, g) - g[i]
      BY <3>1, SumDrop
    <3>3. QED BY <3>2 DEF S, g
  <2>4. SumOver(Raised(by), Moved(f)) \in Int
    BY <2>1, <2>2, SumType
  <2>5. balance[by][f] \in Int
    BY <1>3 DEF Shape, TypeOK
  <2>6. Moved(f)[i] = moved[i][f] /\ moved[i][f] \in Int
    BY <1>2, <2>1
  <2>7. QED BY <2>3, <2>4, <2>5, <2>6
<1>9. Settled' = [p \in People |-> [f \in Funds |->
                    IF p = by THEN Settled[p][f] + moved[i][f] ELSE Settled[p][f]]]
  BY <1>4, <1>5, <1>6, <1>7, <1>8 DEF Settled
<1>10. QED BY <1>3, <1>9 DEF Settled

-----------------------------------------------------------------------------
(* Rows as the book knows them *)

Entries == {Entered(row) : row \in Row}

\* The book's rows are those on file, each without its stamp.
LEMMA EnteredSeq ==
    ASSUME NEW t \in Seq(Row)
    PROVE  /\ EnteredAll(t) \in Seq(Entries) /\ Len(EnteredAll(t)) = Len(t)
           /\ DOMAIN EnteredAll(t) = DOMAIN t
           /\ \A i \in DOMAIN t : EnteredAll(t)[i] = Entered(t[i])
<1> DEFINE n == Len(t)
<1>1. n \in Nat /\ DOMAIN t = 1 .. n
  OBVIOUS
<1>2. EnteredAll(t) = [i \in 1 .. n |-> Entered(t[i])]
  BY <1>1 DEF EnteredAll
<1>3. \A i \in 1 .. n : Entered(t[i]) \in Entries
  BY <1>1 DEF Entries
<1> HIDE DEF n
<1>4. EnteredAll(t) \in Seq(Entries)
  BY <1>1, <1>2, <1>3, IsASeq
<1>5. Len(EnteredAll(t)) = n
  BY <1>1, <1>2
<1>6. QED BY <1>1, <1>2, <1>4, <1>5 DEF n

\* What the book reads of a row.
LEMMA EnteredRow ==
    ASSUME NEW row \in Row
    PROVE  /\ Entered(row).type = row.type /\ Entered(row).user = row.user
           /\ Entered(row).by = row.by /\ Entered(row).fund = row.fund
           /\ Entered(row).amount = row.amount /\ Entered(row).split = row.split
           /\ Entered(row).status = row.status /\ Entered(row).decider = row.decider
BY DEF Entered

\* Nothing settled and no row changed: no entry.
LEMMA NoEntry ==
    ASSUME Settled' = Settled, txns' = txns PROVE UNCHANGED Promise!book
BY DEF Promise!book, EnteredAll

\* A row that is inserted is a request raised.
LEMMA InsertRaises ==
    ASSUME Shape, NEW h \in Handlers, Insert(h) PROVE Promise!Raise
<1> DEFINE q == req[h]
           row == [type |-> IF q.op = "redeem" THEN "redemption" ELSE "contribution",
                   user |-> q.user, by |-> q.by, fund |-> q.fund, amount |-> q.amount,
                   split |-> Whole(q.fund, q.amount), status |-> "pending",
                   decider |-> None, after |-> stamp[h]]
           old == EnteredAll(txns)
           new == EnteredAll(txns)'
           n == Len(txns)
<1>1. txns' = Append(txns, row) /\ txns \in Seq(Row) /\ txns' \in Seq(Row)
  BY ShapeStep DEF Insert, Shape, TypeOK, Next, Step
<1>2. q \in Raise /\ q.amount \in Nat \ {0}
  BY DEF Shape, Handled, Insert, Raising
<1>3. row \in Row
  BY <1>2 DEF Shape, TypeOK, Row, Raise, Types, Statuses, Whole
<1>4. /\ row.status = "pending" /\ row.decider = None /\ row.amount > 0
      /\ row.split = [f \in Funds |-> IF f = row.fund THEN row.amount ELSE 0]
  BY <1>2 DEF Whole
<1> HIDE DEF row
<1>5. /\ n \in Nat /\ Len(txns') = n + 1 /\ txns'[n + 1] = row
      /\ \A i \in 1 .. n : txns'[i] = txns[i]
  BY <1>1, <1>3
<1>6. /\ old \in Seq(Entries) /\ Len(old) = n
      /\ \A i \in 1 .. n : old[i] = Entered(txns[i])
  BY <1>1, EnteredSeq
<1>7. /\ new \in Seq(Entries) /\ Len(new) = n + 1
      /\ \A i \in 1 .. n + 1 : new[i] = Entered(txns'[i])
  <2>1. PICK u \in Seq(Row) : u = txns'
    BY <1>1
  <2>2. /\ EnteredAll(u) \in Seq(Entries) /\ Len(EnteredAll(u)) = n + 1
        /\ \A i \in 1 .. n + 1 : EnteredAll(u)[i] = Entered(u[i])
    BY <1>5, <2>1, EnteredSeq
  <2>3. new = EnteredAll(u)
    BY <2>1 DEF EnteredAll
  <2>4. QED BY <2>1, <2>2, <2>3
<1>8. new[n + 1] = Entered(row) /\ new[n + 1] \in Entries
  BY <1>5, <1>7
<1>9. \A i \in 1 .. n : new[i] = old[i]
  BY <1>5, <1>6, <1>7
<1> HIDE DEF old, new, n
<1>10. new = Append(old, new[n + 1])
  BY <1>5, <1>6, <1>7, <1>8, <1>9
<1>11. Promise!Raised(new[n + 1])
  BY <1>3, <1>4, <1>8, EnteredRow DEF Promise!Raised, Promise!Funds, Funds
<1>12. Settled' = Settled
  BY SettledInsert
<1>13. QED BY <1>6, <1>7, <1>10, <1>11, <1>12 DEF Promise!Raise, old, new

\* One row changes: so does one of the book's, if any.
LEMMA OneEntered ==
    ASSUME NEW t \in Seq(Row), NEW u \in Seq(Row), NEW i \in DOMAIN t,
           DOMAIN u = DOMAIN t, \A j \in DOMAIN t : j # i => u[j] = t[j]
    PROVE  EnteredAll(u) = [EnteredAll(t) EXCEPT ![i] = Entered(u[i])]
BY DEF EnteredAll

\* A row that is edited is a pending redemption corrected.
LEMMA EditCorrects ==
    ASSUME Shape, Serial, Positive, Serial', NEW h \in Handlers, Edit(h)
    PROVE  Promise!Correct(Id(h))
<1> PICK i \in DOMAIN txns, old \in Row, new \in Row :
        /\ i = Id(h) /\ old = txns[i] /\ new = txns'[i] /\ new = Edited(h)
  BY EditWritten
<1>1. /\ txns \in Seq(Row) /\ txns' \in Seq(Row) /\ DOMAIN txns' = DOMAIN txns
      /\ \A j \in DOMAIN txns : j # i => txns'[j] = txns[j]
      /\ UNCHANGED <<balance, moved>> /\ pc[h] = "edit" /\ req[h].op = "approveRedemption"
  BY EditWritten DEF Shape, TypeOK
<1>2. old.status = "pending" /\ old.type = "redemption"
  BY <1>1 DEF Serial, Current, Checked, Sort
<1>3. new.amount > 0
  BY PositiveEdit
<1>4. Total(new.split) = new.amount
  BY <1>1 DEF Serial, SplitSums
<1>5. /\ new.by = old.by /\ new.status = old.status /\ new.type = old.type
      /\ new.decider = old.decider
  BY EditWritten DEF Edited, Row
<1>6. Entered(new) = [Entered(old) EXCEPT !.amount = new.amount, !.split = new.split,
                                         !.fund = new.fund, !.user = new.user]
  BY <1>5 DEF Entered
<1> PICK t \in Seq(Row), u \in Seq(Row) : t = txns /\ u = txns'
  BY <1>1
<1>7. /\ EnteredAll(txns) = EnteredAll(t) /\ EnteredAll(txns)' = EnteredAll(u)
      /\ EnteredAll(u) = [EnteredAll(t) EXCEPT ![i] = Entered(new)]
  <2>1. EnteredAll(u) = [EnteredAll(t) EXCEPT ![i] = Entered(u[i])]
    BY <1>1, OneEntered
  <2>2. EnteredAll(txns) = EnteredAll(t) /\ EnteredAll(txns)' = EnteredAll(u)
    BY DEF EnteredAll
  <2>3. QED BY <2>1, <2>2
<1>8. new.split \in Promise!Splits(new.amount)
  <2>1. new.split \in [Funds -> Nat] /\ new.amount \in Nat
    BY DEF Row
  <2>2. new.split["tirtha"] \in Nat /\ new.split["contribution"] \in Nat
    BY <2>1 DEF Funds
  <2>3. /\ new.split["tirtha"] \in 0 .. new.amount
        /\ new.split["contribution"] = new.amount - new.split["tirtha"]
    BY <1>4, <2>1, <2>2 DEF Total
  <2>4. new.split = [f \in Funds |-> IF f = "tirtha" THEN new.split["tirtha"]
                                     ELSE new.amount - new.split["tirtha"]]
    BY <2>1, <2>3 DEF Funds
  <2>5. QED BY <2>3, <2>4 DEF Promise!Splits, Promise!Funds, Funds
<1>9. Settled' = Settled
  <2>1. \A j \in DOMAIN txns : txns'[j].by = txns[j].by /\ txns'[j].status = txns[j].status
    BY <1>1, <1>5
  <2>2. QED BY <1>1, <2>1, SettledSame
<1>10. EnteredAll(t)[i] = Entered(old) /\ EnteredAll(u)[i] = Entered(new)
  BY <1>1, EnteredSeq
<1>11. /\ Entered(old).status = "pending" /\ Entered(old).type = "redemption"
       /\ Entered(new).amount = new.amount /\ Entered(new).split = new.split
       /\ Entered(new).fund = new.fund /\ Entered(new).user = new.user
  BY <1>2, EnteredRow
<1> DEFINE a == EnteredAll(t)
           b == EnteredAll(u)
<1>12. b = [a EXCEPT ![i].amount = b[i].amount, ![i].split = b[i].split,
                     ![i].fund = b[i].fund, ![i].user = b[i].user]
  <2>1. DOMAIN a = DOMAIN txns /\ a \in [DOMAIN txns -> Entries]
    BY DEF EnteredAll, Entries
  <2>2. [a EXCEPT ![i].amount = b[i].amount, ![i].split = b[i].split,
                  ![i].fund = b[i].fund, ![i].user = b[i].user]
          = [a EXCEPT ![i] = [@ EXCEPT !.amount = b[i].amount, !.split = b[i].split,
                                       !.fund = b[i].fund, !.user = b[i].user]]
    <3> HIDE DEF a, b
    <3> QED BY <2>1
  <2>3. b[i] = Entered(new) /\ a[i] = Entered(old) /\ b = [a EXCEPT ![i] = Entered(new)]
    BY <1>7, <1>10
  <2> HIDE DEF a, b
  <2>4. QED BY <1>6, <1>11, <2>2, <2>3
<1> HIDE DEF a, b
<1>13. QED BY <1>3, <1>7, <1>8, <1>9, <1>10, <1>11, <1>12 DEF Promise!Correct, a, b

\* A decision that is written is one decision of the book, by whoever may take it,
\* and settles what the row says, or nothing.
LEMMA WriteDecides ==
    ASSUME Shape, Serial, Journal, Proper, NEW h \in Handlers, WriteDecision(h)
    PROVE  \E p \in People : Promise!Approve(p, Id(h)) \/ Promise!Reject(p, Id(h))
<1> PICK i \in DOMAIN txns, p \in People, old \in Row, new \in Row :
        /\ i = Id(h) /\ p = req[h].by /\ old = txns[i] /\ new = txns'[i] /\ new = Decided(h)
  <2>1. req[h].by \in People
    BY Written DEF Decide, Review
  <2>2. QED BY <2>1, Written
<1> PICK t \in Seq(Row), u \in Seq(Row) : t = txns /\ u = txns'
  BY Written DEF Shape, TypeOK
<1> DEFINE approves == req[h].op \in Approvals
           status == IF approves THEN "approved" ELSE "rejected"
<1>1. /\ pc[h] = "decide" /\ req[h] \in Decide \cup Review /\ DOMAIN u = DOMAIN t
      /\ \A j \in DOMAIN t : j # i => u[j] = t[j]
      /\ i \in DOMAIN t /\ t[i] = old /\ u[i] = new
  BY Written
<1>2. /\ old.status = "pending" /\ old.type = Sort(req[h])
      /\ old.type = "contribution" => p = old.user
  BY <1>1 DEF Serial, Current, Checked, Proper, Entitled
<1>3. Entered(new) = [Entered(old) EXCEPT !.status = status, !.decider = p]
  <2>1. /\ new.type = old.type /\ new.by = old.by /\ new.fund = old.fund
        /\ new.amount = old.amount /\ new.split = old.split /\ new.status = status
    BY Written
  <2>2. new.user = old.user /\ new.decider = p
    BY DEF Decided, Row
  <2>3. QED BY <2>1, <2>2 DEF Entered
<1>4. Promise!Decided(p, i, status)
  <2> DEFINE a == EnteredAll(t)
             b == EnteredAll(u)
  <2>1. b = [a EXCEPT ![i] = Entered(new)] /\ a[i] = Entered(old)
    BY <1>1, OneEntered, EnteredSeq
  <2>2. DOMAIN a = DOMAIN t /\ a \in [DOMAIN t -> Entries]
    BY DEF EnteredAll, Entries
  <2>3. a = EnteredAll(txns) /\ b = EnteredAll(txns)'
    BY DEF EnteredAll
  <2> HIDE DEF a, b, status
  <2>4. [a EXCEPT ![i].status = status, ![i].decider = p]
          = [a EXCEPT ![i] = [@ EXCEPT !.status = status, !.decider = p]]
    BY <1>1, <2>2
  <2>5. b = [a EXCEPT ![i].status = status, ![i].decider = p]
    BY <1>3, <2>1, <2>4
  <2>6. QED BY <2>3, <2>5 DEF Promise!Decided
<1>5. /\ EnteredAll(txns)[i].status = "pending" /\ EnteredAll(txns)[i].type = old.type
      /\ EnteredAll(txns)[i].user = old.user /\ EnteredAll(txns)[i].by = old.by
      /\ EnteredAll(txns)[i].split = old.split
  <2>1. EnteredAll(txns)[i] = Entered(old)
    BY <1>1, EnteredSeq
  <2>2. QED BY <1>2, <2>1, EnteredRow
<1>6. Promise!MayDecide(p, i)
  BY <1>2, <1>5 DEF Promise!MayDecide
<1>7. Settled' = [Settled EXCEPT ![old.by] = [f \in Funds |-> @[f] + moved[i][f]]]
  BY SettledWrite
<1>8. old.by \in People /\ old.split \in [Funds -> Nat]
  BY DEF Row
<1>9. Settled \in [People -> [Funds -> Int]]
  <2> SUFFICES ASSUME NEW q \in People, NEW f \in Funds
               PROVE  balance[q][f] - SumOver(Raised(q), Moved(f)) \in Int
    BY DEF Settled
  <2>1. /\ IsFiniteSet(Raised(q)) /\ Raised(q) \subseteq DOMAIN txns
        /\ \A j \in DOMAIN txns : Moved(f)[j] \in Int
    BY RaisedRows
  <2>2. SumOver(Raised(q), Moved(f)) \in Int
    BY <2>1, SumType
  <2>3. balance[q][f] \in Int
    BY DEF Shape, TypeOK
  <2>4. QED BY <2>2, <2>3
<1>10. CASE approves
  <2>1. moved[i] = Worth(old)
    BY <1>1, <1>10 DEF Journal, Accounted, Moves
  <2> DEFINE sign == IF old.type = "contribution" THEN 1 ELSE -1
  <2>2. \A f \in Funds : moved[i][f] = sign * old.split[f]
    BY <1>8, <2>1 DEF Worth
  <2> HIDE DEF sign
  <2>3. Settled' = [Settled EXCEPT ![old.by] = [f \in Funds |-> @[f] + sign * old.split[f]]]
    BY <1>7, <1>8, <1>9, <2>2
  <2>4. Promise!Approve(p, i)
    BY <1>4, <1>5, <1>6, <1>10, <2>3 DEF Promise!Approve, Promise!Funds, Funds, sign
  <2>5. QED BY <2>4
<1>11. CASE ~approves
  <2>1. moved[i] = NoMove
    BY <1>1, <1>2, <1>11, NothingMoved DEF Moves, Moving, Deciding, Checked
  <2>2. Settled' = Settled
    BY <1>7, <1>8, <1>9, <2>1 DEF NoMove
  <2>3. Promise!Reject(p, i)
    BY <1>4, <1>5, <1>6, <1>11, <2>2 DEF Promise!Reject
  <2>4. QED BY <2>3
<1>12. QED BY <1>10, <1>11

-----------------------------------------------------------------------------
(* Every behaviour of the handlers is one of the book *)

\* The book opens with the balances there are, as nothing has moved for an open
\* request.
LEMMA BookOpens == ASSUME Init PROVE Promise!Open
<1>1. ASSUME NEW p \in People, NEW f \in Funds
      PROVE  Balances[p][f] - SumOver(Raised(p), Moved(f)) = Balances[p][f]
  <2>1. \A i \in Raised(p) : Moved(f)[i] = 0
    BY DEF Init, Raised, Moved, NoMove
  <2>2. SumOver(Raised(p), Moved(f)) = 0
    BY <2>1, SumZeros
  <2>3. Balances[p][f] \in Nat
    BY NidhiAssumption
  <2>4. QED BY <2>2, <2>3
<1>2. Settled = Balances
  BY <1>1, NidhiAssumption DEF Settled, Init
<1>3. QED BY <1>2 DEF Promise!Open, Init

\* A step of the handlers is an entry of the book, or none.
LEMMA StepEnters ==
    ASSUME Shape, Serial, Journal, Proper, MayFail = FALSE, Serial', [Next]_vars
    PROVE  [Promise!Entry]_Promise!book
<1>1. ASSUME NEW h \in Handlers, Insert(h) PROVE Promise!Entry
  BY <1>1, InsertRaises DEF Promise!Entry
<1>2. ASSUME NEW h \in Handlers, Edit(h) PROVE Promise!Entry
  <2>1. Id(h) \in DOMAIN EnteredAll(txns)
    BY <1>2, EditWritten DEF EnteredAll
  <2>2. QED BY <1>2, <2>1, EditCorrects DEF Promise!Entry, Proper
<1>3. ASSUME NEW h \in Handlers, WriteDecision(h) PROVE Promise!Entry
  <2>1. Id(h) \in DOMAIN EnteredAll(txns)
    BY <1>3, Written DEF EnteredAll
  <2>2. QED BY <1>3, <2>1, WriteDecides DEF Promise!Entry
<1>4. ASSUME NEW h \in Handlers, MoveMoney(h) PROVE UNCHANGED Promise!book
  BY <1>4, SettledMove, NoEntry DEF MoveMoney
<1>5. CASE UNCHANGED <<balance, moved, txns>>
  <2>1. Settled' = Settled
    BY <1>5, SettledSame
  <2>2. QED BY <1>5, <2>1, NoEntry
<1>6. ASSUME NEW h \in Handlers, Step(h) PROVE [Promise!Entry]_Promise!book
  BY <1>1, <1>2, <1>3, <1>4, <1>5, <1>6
     DEF Step, Afford, Today, CheckContribution, CheckRejection, CheckReview, Derive,
         CheckFunds, Reload, Stamp
<1>7. QED BY <1>5, <1>6 DEF Next, Fail, Arrive, Rest, vars

\* As long as no two decisions of one row overlap, none fails half way and a row is
\* reviewed in one manner, each request is raised, corrected and decided in one step,
\* by whoever may, and its money is booked with its approval, exactly as its columns
\* say, on whoever entered it.
THEOREM DecisionsAtOnce ==
    Overlap # "any" /\ MayFail = FALSE /\ OneManner => (Spec => DecidedAtOnce)
<1> SUFFICES ASSUME Overlap # "any", MayFail = FALSE, OneManner PROVE Spec => DecidedAtOnce
  OBVIOUS
<1>1. Init => Promise!Open /\ Shape /\ Serial /\ Unsplit /\ Journal /\ Proper
  BY BookOpens, ShapeInit, SerialInit, JournalInit, ProperInit
<1>2. Shape /\ Serial /\ Unsplit /\ Journal /\ Proper /\ [Next]_vars
          => Shape' /\ Serial' /\ Unsplit' /\ Journal' /\ Proper'
  BY ShapeStep, SerialStep, UnsplitStep, JournalStep, ProperStep
<1>3. Shape /\ Serial /\ Journal /\ Proper /\ Serial' /\ [Next]_vars
          => [Promise!Entry]_Promise!book
  BY StepEnters
<1>4. QED BY <1>1, <1>2, <1>3, PTL DEF Spec, DecidedAtOnce, Promise!Book
=============================================================================
