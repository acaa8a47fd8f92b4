----------------------------- MODULE NidhiBook -----------------------------
(***************************************************************************)
(* The Nidhi funds with every decision in one step: a request is raised    *)
(* pending, an approval moves what the columns of the request say at that  *)
(* instant and never again.  One step is what the calls of                 *)
(* src/app/contracts/nidhi_repository.py would be to a caller nobody comes *)
(* between; who may decide, what may be corrected and whose balance moves  *)
(* are as the methods of src/app/domain/nidhi_domain.py have it.  So it is *)
(* the balance of whoever entered the request (lines 111 and 243-249), not *)
(* that of user_id, as line 2 of that file says: UsersBalance in Nidhi has *)
(* it that way, and does not hold.  That the funds cover an approved       *)
(* redemption is no part of the book: see NeverOverdrawn in Nidhi.         *)
(***************************************************************************)
EXTENDS Integers, Sequences

CONSTANTS
    People,
    Opening,   \* the balances at the start
    OnFile,    \* the requests raised before
    Nobody

VARIABLES
    balance,   \* what each person has in each fund
    rows       \* the requests, by id

book == <<balance, rows>>

Funds == {"tirtha", "contribution"}
Splits(amount) ==
    {[f \in Funds |-> IF f = "tirtha" THEN part ELSE amount - part] : part \in 0 .. amount}

Open == balance = Opening /\ rows = OnFile

\* A request is for a whole amount from one fund.
Raised(row) ==
    /\ row.status = "pending" /\ row.decider = Nobody
    /\ row.amount > 0
    /\ row.split = [f \in Funds |-> IF f = row.fund THEN row.amount ELSE 0]

Raise ==
    /\ Len(rows') = Len(rows) + 1
    /\ rows' = Append(rows, rows'[Len(rows) + 1])
    /\ Raised(rows'[Len(rows) + 1])
    /\ UNCHANGED balance

\* Only what a pending redemption is for may be corrected, not whose it is.
Correct(i) ==
    /\ rows[i].status = "pending" /\ rows[i].type = "redemption"
    /\ LET new == rows'[i]
       IN  /\ new.amount > 0 /\ new.split \in Splits(new.amount)
           /\ rows' = [rows EXCEPT ![i].amount = new.amount, ![i].split = new.split,
                                   ![i].fund = new.fund, ![i].user = new.user]
    /\ UNCHANGED balance

\* A contribution is decided by its recipient; any admin decides a redemption.
MayDecide(p, i) == rows[i].type = "contribution" => p = rows[i].user

Decided(p, i, status) == rows' = [rows EXCEPT ![i].status = status, ![i].decider = p]

\* The money is that of whoever entered the request, whoever it is for.
Approve(p, i) ==
    /\ rows[i].status = "pending" /\ MayDecide(p, i)
    /\ Decided(p, i, "approved")
    /\ LET sign == IF rows[i].type = "contribution" THEN 1 ELSE -1
       IN  balance' = [balance EXCEPT ![rows[i].by] =
                          [f \in Funds |-> @[f] + sign * rows[i].split[f]]]

Reject(p, i) ==
    /\ rows[i].status = "pending" /\ MayDecide(p, i)
    /\ Decided(p, i, "rejected")
    /\ UNCHANGED balance

Entry ==
    \/ Raise
    \/ \E i \in DOMAIN rows : Correct(i) \/ \E p \in People : Approve(p, i) \/ Reject(p, i)

Book == Open /\ [][Entry]_book
=============================================================================
