---------------------------- MODULE NidhiPromise ----------------------------
(* The handlers of Nidhi implement the one-step decisions of NidhiBook, as   *)
(* long as no two of them decide the same request at the same time and none  *)
(* fails half way.  A decision takes effect when its status is written: what *)
(* has moved for a request that is still pending is not booked yet.          *)
EXTENDS Nidhi, Sums

Raised(p) == {i \in DOMAIN txns : txns[i].by = p /\ txns[i].status = "pending"}
Moved(f) == [i \in DOMAIN moved |-> moved[i][f]]
Settled ==
    [p \in People |-> [f \in Funds |-> balance[p][f] - SumOver(Raised(p), Moved(f))]]

\* A request as the book knows it, without the stamp of the balance.
Entered(row) ==
    [k \in {"type", "user", "by", "fund", "amount", "split", "status", "decider"} |-> row[k]]
EnteredAll(file) == [i \in DOMAIN file |-> Entered(file[i])]

Promise == INSTANCE NidhiBook WITH
    Opening <- Balances, OnFile <- EnteredAll(OnFile), Nobody <- None,
    balance <- Settled, rows <- EnteredAll(txns)

\* Whatever the round trips of the handlers come between, each request is raised,
\* corrected and decided in one step, by the one who may, and its money is booked
\* with its approval, exactly as its columns say, on whoever entered it.
DecidedAtOnce == Promise!Book
=============================================================================
