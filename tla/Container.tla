----------------------------- MODULE Container -----------------------------
(***************************************************************************)
(* The dependency container (src/app/injector.py) and the database client  *)
(* every repository shares (src/app/integrations/supabase_client.py).      *)
(*                                                                         *)
(* FastAPI runs each request in a thread of its own.  The thread builds    *)
(* its controller, which resolves a repository per domain, and the first   *)
(* to ask for a contract constructs the singleton: its constructor may     *)
(* resolve further contracts, on the same thread and under the same lock.  *)
(* Then it asks for the client.  An action is one look at, or one change   *)
(* of, the two dictionaries, the lock or the client.                       *)
(***************************************************************************)
EXTENDS Naturals, Sequences, FiniteSets

CONSTANTS
    Threads,
    Contracts,
    Needs,      \* the contracts each constructor asks for, in order
    Layer,      \* how deep below the controllers a contract lies
    Calls,      \* the calls a thread may make
    Request     \* the frame of a request itself, which is no contract

ASSUME LayerAssumption ==
    /\ Request \notin Contracts
    /\ Needs \in [Contracts -> Seq(Contracts)]
    /\ Layer \in [Contracts -> Nat]
    /\ \A c \in Contracts : \A i \in DOMAIN Needs[c] : Layer[Needs[c][i]] < Layer[c]
ASSUME CallsAssumption ==
    \A c \in Calls : \/ c.op = "request" /\ c.wants \in Seq(Contracts)
                     \/ c.op \in {"factory", "instance", "neither"} /\ c.contract \in Contracts
                     \/ c.op \in {"reset", "disconnect"}

VARIABLES
    factories,   \* contracts with a factory
    singletons,  \* contracts with an instance
    held,        \* how often each thread holds the RLock
    stack,       \* calls of resolve and constructors under way, innermost last
    pc, reply,   \* where each thread stands, how its call ended
    client,      \* does SupabaseDB hold a client
    configured,  \* are its address and key in the environment
    built,       \* instances of a contract since it was last registered
    disturbed,   \* threads whose call overlapped a registration or comes after a reset
    cut          \* threads whose call overlapped a disconnect

vars == <<factories, singletons, held, stack, pc, reply, client, configured,
          built, disturbed, cut>>

Frame(c, at, todo) == [of |-> c, at |-> at, todo |-> todo, short |-> FALSE]

\* Importing app.container registers every decorated class, before any request.
Boot == factories = Contracts /\ singletons = {}

Init ==
    /\ Boot
    /\ held = [t \in Threads |-> 0]
    /\ stack = [t \in Threads |-> <<>>]
    /\ pc = [t \in Threads |-> "idle"]
    /\ reply = [t \in Threads |-> "none"]
    /\ client = FALSE
    /\ configured \in BOOLEAN
    /\ built = [c \in Contracts |-> 0]
    /\ disturbed = {} /\ cut = {}

-----------------------------------------------------------------------------
(* The stack of a thread. *)

Top(t) == stack[t][Len(stack[t])]
Inside(t, at) == stack[t] # <<>> /\ Top(t).at = at

Replace(t, frame) == stack' = [stack EXCEPT ![t][Len(stack[t])] = frame]
Goto(t, at) == Replace(t, [Top(t) EXCEPT !.at = at])
Push(t, c)  == stack' = [stack EXCEPT ![t] = Append(@, Frame(c, "peek", <<>>))]

\* resolve returns: the constructor below goes on to its next parameter.
Return(t) ==
    LET below == SubSeq(stack[t], 1, Len(stack[t]) - 1)
    IN  stack' = [stack EXCEPT ![t] = [below EXCEPT ![Len(below)].todo = Tail(@)]]

End(t, how) ==
    /\ pc' = [pc EXCEPT ![t] = "done"]
    /\ reply' = [reply EXCEPT ![t] = how]

\* An exception unwinds every resolve of the thread, and with each its lock.
Raise(t, what) ==
    /\ End(t, what)
    /\ stack' = [stack EXCEPT ![t] = <<>>]
    /\ held' = [held EXCEPT ![t] = 0]
    /\ UNCHANGED <<factories, singletons, client, configured, built, disturbed, cut>>

\* The lock is re-entrant: its holder may take it again (mutant: a plain Lock).
FreePlain(t) == \A u \in Threads : held[u] = 0
Free(t) == \A u \in Threads \ {t} : held[u] = 0

Step(t) == UNCHANGED <<factories, singletons, held, pc, reply, client, configured, built, disturbed, cut>>

-----------------------------------------------------------------------------
(* resolve *)

\* Without the lock: is there an instance ...
Peek(t) ==
    /\ Inside(t, "peek")
    /\ Goto(t, IF Top(t).of \in singletons THEN "read" ELSE "factory")
    /\ Step(t)

\* ... or a factory?
Registered(t) ==
    /\ Inside(t, "factory")
    /\ IF Top(t).of \in factories
       THEN Goto(t, "lock") /\ Step(t)
       ELSE Raise(t, "not registered")

Acquire(t) ==
    /\ Inside(t, "lock")
    /\ Free(t)
    /\ held' = [held EXCEPT ![t] = @ + 1]
    /\ Goto(t, "check")
    /\ UNCHANGED <<factories, singletons, pc, reply, client, configured, built, disturbed, cut>>

\* The second look, under the lock (mutant: the first one is enough).
CheckOnce(t) ==
    /\ Inside(t, "check")
    /\ IF Top(t).of \in factories
       THEN Replace(t, Frame(Top(t).of, "build", Needs[Top(t).of])) /\ Step(t)
       ELSE Raise(t, "KeyError")
Check(t) ==
    /\ Inside(t, "check")
    /\ \/ /\ Top(t).of \in singletons
          /\ held' = [held EXCEPT ![t] = @ - 1]
          /\ Goto(t, "read")
          /\ UNCHANGED <<factories, singletons, pc, reply, client, configured, built, disturbed, cut>>
       \/ /\ Top(t).of \notin singletons
          /\ Top(t).of \in factories
          /\ Replace(t, Frame(Top(t).of, "build", Needs[Top(t).of]))
          /\ Step(t)
       \/ /\ Top(t).of \notin singletons \cup factories
          /\ Raise(t, "KeyError")

\* @injector's constructor: each parameter whose contract is known is resolved,
\* any other is left for the real constructor to miss.
Has(c) == c \in factories \/ c \in singletons
Inject(t) ==
    /\ Inside(t, "build")
    /\ Top(t).todo # <<>>
    /\ IF Has(Head(Top(t).todo))
       THEN Push(t, Head(Top(t).todo))
       ELSE Replace(t, [Top(t) EXCEPT !.todo = Tail(@), !.short = TRUE])
    /\ Step(t)

\* The instance is complete and is stored (mutant: its factory is dropped, as
\* register does when it is handed an instance).
StoreAndForget(t) ==
    /\ Inside(t, "build")
    /\ Top(t).todo = <<>> /\ ~Top(t).short /\ Top(t).of # Request
    /\ singletons' = singletons \cup {Top(t).of}
    /\ factories' = factories \ {Top(t).of}
    /\ built' = [built EXCEPT ![Top(t).of] = @ + 1]
    /\ held' = [held EXCEPT ![t] = @ - 1]
    /\ Goto(t, "read")
    /\ UNCHANGED <<pc, reply, client, configured, disturbed, cut>>
Store(t) ==
    /\ Inside(t, "build")
    /\ Top(t).todo = <<>> /\ ~Top(t).short /\ Top(t).of # Request
    /\ singletons' = singletons \cup {Top(t).of}
    /\ built' = [built EXCEPT ![Top(t).of] = @ + 1]
    /\ held' = [held EXCEPT ![t] = @ - 1]
    /\ Goto(t, "read")
    /\ UNCHANGED <<factories, pc, reply, client, configured, disturbed, cut>>

Incomplete(t) ==
    /\ Inside(t, "build")
    /\ Top(t).todo = <<>> /\ Top(t).short
    /\ Raise(t, "TypeError")

\* The lock is released again when the instance is read.
Read(t) ==
    /\ Inside(t, "read")
    /\ IF Top(t).of \in singletons
       THEN Return(t) /\ Step(t)
       ELSE Raise(t, "KeyError")

-----------------------------------------------------------------------------
(* Calls *)

Arrive(t) ==
    /\ pc[t] = "idle"
    /\ \E c \in Calls :
          /\ c.op = "request"
          /\ stack' = [stack EXCEPT ![t] = <<Frame(Request, "build", c.wants)>>]
    /\ pc' = [pc EXCEPT ![t] = "resolving"]
    /\ UNCHANGED <<factories, singletons, held, reply, client, configured, built, disturbed, cut>>

\* The controller is complete; its first query asks for the client.
Controller(t) ==
    /\ Inside(t, "build")
    /\ Top(t).of = Request /\ Top(t).todo = <<>> /\ ~Top(t).short
    /\ stack' = [stack EXCEPT ![t] = <<>>]
    /\ pc' = [pc EXCEPT ![t] = "client"]
    /\ UNCHANGED <<factories, singletons, held, reply, client, configured, built, disturbed, cut>>

Running == {t \in Threads : pc[t] \notin {"idle", "done"}}

Register(t) ==
    /\ pc[t] = "idle"
    /\ Free(t)
    /\ \E c \in Calls :
          \/ /\ c.op = "instance"
             /\ singletons' = singletons \cup {c.contract}
             /\ factories' = factories \ {c.contract}
             /\ built' = [built EXCEPT ![c.contract] = 1]
          \/ /\ c.op = "factory"
             /\ factories' = factories \cup {c.contract}
             /\ singletons' = singletons \ {c.contract}
             /\ built' = [built EXCEPT ![c.contract] = 0]
    /\ disturbed' = disturbed \cup Running
    /\ End(t, "ok")
    /\ UNCHANGED <<held, stack, client, configured, cut>>

RegisterNothing(t) ==
    /\ pc[t] = "idle"
    /\ \E c \in Calls : c.op = "neither"
    /\ Raise(t, "ValueError")

Reset(t) ==
    /\ pc[t] = "idle"
    /\ Free(t)
    /\ \E c \in Calls : c.op = "reset"
    /\ factories' = {} /\ singletons' = {}
    /\ built' = [c \in Contracts |-> 0]
    /\ disturbed' = Threads
    /\ End(t, "ok")
    /\ UNCHANGED <<held, stack, client, configured, cut>>

-----------------------------------------------------------------------------
(* SupabaseDB *)

At(t, from, to) ==
    /\ pc[t] = from
    /\ pc' = [pc EXCEPT ![t] = to]
    /\ UNCHANGED <<factories, singletons, held, stack, reply, configured, built, disturbed, cut>>

GetClient(t) ==
    At(t, "client", IF client THEN "hand" ELSE "connect") /\ UNCHANGED client

\* connect returns at once when there is a client (mutant: it starts over).
ConnectAnew(t) == At(t, "connect", "create") /\ client' = FALSE
Connect(t) ==
    At(t, "connect", IF client THEN "hand" ELSE "create") /\ UNCHANGED client

\* Only with both variables in the environment is there a client to create.
Create(t) == configured /\ At(t, "create", "hand") /\ client' = TRUE
Unconfigured(t) == ~configured /\ pc[t] = "create" /\ Raise(t, "RuntimeError")

Hand(t) ==
    /\ pc[t] = "hand"
    /\ End(t, IF client THEN "ok" ELSE "no client")
    /\ UNCHANGED <<factories, singletons, held, stack, client, configured, built, disturbed, cut>>

Disconnect(t) ==
    /\ pc[t] = "idle"
    /\ \E c \in Calls : c.op = "disconnect"
    /\ client' = FALSE
    /\ cut' = cut \cup Running
    /\ End(t, "ok")
    /\ UNCHANGED <<factories, singletons, held, stack, configured, built, disturbed>>

-----------------------------------------------------------------------------

Resolve(t) ==
    \/ Peek(t) \/ Registered(t) \/ Acquire(t) \/ Check(t) \/ Inject(t)
    \/ Store(t) \/ Incomplete(t) \/ Read(t) \/ Controller(t)
Database(t) == GetClient(t) \/ Connect(t) \/ Create(t) \/ Unconfigured(t) \/ Hand(t)
Call(t) == Arrive(t) \/ Register(t) \/ RegisterNothing(t) \/ Reset(t) \/ Disconnect(t)

Next == \E t \in Threads : Call(t) \/ Resolve(t) \/ Database(t)

\* A running thread goes on: the interpreter schedules it, and whoever holds the
\* lock runs too.
Fairness == \A t \in Threads : WF_vars(Resolve(t)) /\ WF_vars(Database(t))

Spec == Init /\ [][Next]_vars /\ Fairness

-----------------------------------------------------------------------------

\* However many first requests race for a contract, one instance of it is built
\* for a registration (injector.py:130).
OneInstance == \A c \in Contracts : built[c] <= 1

\* A request is told that something is not registered, or stumbles over a missing
\* entry, only if somebody registered while it ran, or reset the container before.
RaisedOnlyIfDisturbed ==
    \A t \in Threads :
        reply[t] \in {"not registered", "KeyError", "TypeError"} => t \in disturbed

\* get_client hands out a client, whoever else is connecting at the time, unless
\* somebody disconnects.
ClientKept == \A t \in Threads : reply[t] = "no client" => t \in cut

\* No thread waits for ever: neither for itself, when a constructor resolves what
\* it needs (injector.py:94), nor for another.
Answered == \A t \in Threads : pc[t] # "idle" ~> pc[t] = "done"
=============================================================================
