-------------------------------- MODULE Sums --------------------------------
(* Sums of whole numbers over a finite set, as counts: what one element adds *)
(* is that many points above it, what it takes off as many below.            *)
EXTENDS Integers, FiniteSets

Above(S, f) == UNION {{i} \X (1 .. f[i]) : i \in S}
Below(S, f) == UNION {{i} \X (1 .. -f[i]) : i \in S}

SumOver(S, f) == Cardinality(Above(S, f)) - Cardinality(Below(S, f))
=============================================================================
