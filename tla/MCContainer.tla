---------------------------- MODULE MCContainer ----------------------------
(* Small instances of Container. *)
EXTENDS Container, TLC

CONSTANTS t1, t2, t3, db, books, sales

\* The sell entry repository needs the database and the book repository, which
\* needs the database itself.
MCNeeds == (db :> <<>>) @@ (books :> <<db>>) @@ (sales :> <<db, books>>)
MCLayer == (db :> 0) @@ (books :> 1) @@ (sales :> 2)

MCCalls ==
    {[op |-> "request", wants |-> <<sales>>], [op |-> "request", wants |-> <<books, db>>],
     [op |-> "instance", contract |-> books], [op |-> "factory", contract |-> db],
     [op |-> "neither", contract |-> db], [op |-> "reset"], [op |-> "disconnect"]}
=============================================================================
