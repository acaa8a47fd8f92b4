------------------------------ MODULE MCNidhi ------------------------------
(* Small instances of Nidhi. *)
EXTENDS NidhiPromise, TLC

CONSTANTS h1, h2, h3, devotee, seva, admin

MCPeople   == {devotee, seva, admin}
MCBalances == [p \in MCPeople |-> IF p = seva THEN [f \in Funds |-> IF f = "tirtha" THEN 3 ELSE 1]
                                  ELSE NoMove]

Open(type, user, by, fund, amount) ==
    [type |-> type, user |-> user, by |-> by, fund |-> fund, amount |-> amount,
     split |-> Whole(fund, amount), status |-> "pending", decider |-> None, after |-> 0]

\* A contribution seva entered for the devotee, and two redemptions by seva
\* that its tirtha fund covers one at a time.
MCOnFile == <<Open("contribution", devotee, seva, "tirtha", 1),
              Open("redemption", devotee, seva, "tirtha", 2),
              Open("redemption", admin, seva, "contribution", 1)>>

Asked(op, user, by, fund, amount) ==
    [op |-> op, user |-> user, by |-> by, fund |-> fund, amount |-> amount]
Choice(op, id, by) == [op |-> op, id |-> id, by |-> by]
Split(t, c)  == [f \in Funds |-> IF f = "tirtha" THEN t ELSE c]
Approve(id, split, amount, fund) ==
    [op |-> "approveRedemption", id |-> id, by |-> admin, split |-> split,
     amount |-> amount, fund |-> fund, user |-> None]

Raising == {Asked("contribute", devotee, seva, "contribution", 1),
            Asked("contribute", devotee, seva, "contribution", 0),
            Asked("redeem", admin, seva, "tirtha", 2),
            Asked("redeem", admin, seva, "tirtha", 4)}
Deciding == {Choice("approveContribution", 1, devotee),
             Choice("rejectContribution", 1, devotee),
             Choice("rejectContribution", 1, admin),
             Choice("approveContribution", NotAnId, devotee),
             Choice("approveContribution", 2, devotee),
             Choice("rejectRedemption", 2, admin)}
\* Reviews that enter the split, as the review form does.
SplitReviews == {Approve(2, Split(2, 0), None, None),
                 Approve(2, Split(1, 1), None, None),
                 Approve(2, Split(1, 2), None, None),
                 Approve(2, Split(-1, 2), None, None),
                 Approve(4, Split(0, 1), None, None)}
\* Reviews that leave the split to the row.
PlainReviews == {Approve(3, None, None, None),
                 Approve(3, None, 2, None),
                 Approve(3, None, None, "tirtha"),
                 Approve(3, None, 0, None)}

\* A row is reviewed in one manner.
FormRequests == Raising \cup Deciding \cup SplitReviews \cup PlainReviews
=============================================================================
