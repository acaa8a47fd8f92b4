-------------------------- MODULE InventoryLedger --------------------------
(* The transactions of Inventory implement the one-step requests of          *)
(* StockLedger: each request takes effect at its commit.                     *)
EXTENDS Inventory

CONSTANT Ids   \* what the identity columns may hand out, for the ledger to number rows

Of(ops) == {c \in Calls : c.op \in ops}

\* The lines of a batch that reach the RPC.
Sent(c) == [i \in {j \in DOMAIN c.items : ~Dropped(c, c.items[j])} |-> c.items[i]]

Promise == INSTANCE StockLedger WITH
    Arrivals <- {Sent(c) : c \in Of({"purchase", "batch", "inward"})},
    Baskets  <- {Sent(c) : c \in Of({"sale"})},
    Edits    <- Of({"update"}),
    Erasures <- {c.id : c \in Of({"delete"})}

\* Whatever the transactions do between their statements, a reader of the
\* committed tables sees requests that happened whole, one after the other.
AllOrNothing == Promise!Ledger
=============================================================================
