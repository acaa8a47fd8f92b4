-------------------------- MODULE ContainerProofs --------------------------
(* Proofs about Container, for any set of threads, contracts and calls. *)
EXTENDS Container, TLAPS

-----------------------------------------------------------------------------
(* The stack of a thread *)

Steps == {"peek", "factory", "lock", "check", "build", "read"}
Frames == [of : Contracts \cup {Request}, at : Steps, todo : Seq(Contracts), short : BOOLEAN]

\* How often a thread with this stack holds the lock: once for each contract it is
\* constructing, and once more while it looks again.
Depth(s) ==
    IF Len(s) <= 1 THEN 0
    ELSE IF s[Len(s)].at \in {"check", "build"} THEN Len(s) - 1 ELSE Len(s) - 2

\* A constructor needs what lies deeper than its contract.
Deeper(f) == f.of # Request => \A k \in DOMAIN f.todo : Layer[f.todo[k]] < Layer[f.of]

\* The request is at the bottom; every frame below the top is a constructor that
\* waits for its next parameter, which lies deeper than itself.
WellStacked(s) ==
    /\ s # <<>> => s[1].of = Request /\ s[1].at = "build"
    /\ \A i \in 2 .. Len(s) : s[i].of # Request
    /\ \A i \in 1 .. Len(s) - 1 : s[i].at = "build" /\ s[i].todo # <<>>
    /\ \A i \in 1 .. Len(s) : Deeper(s[i])
    /\ \A i, j \in 2 .. Len(s) : i < j => Layer[s[j].of] < Layer[s[i].of]

\* What a constructor needs is known, and deeper than it.
LEMMA NeedsDeeper ==
    ASSUME NEW c \in Contracts
    PROVE  Needs[c] \in Seq(Contracts)
           /\ \A k \in DOMAIN Needs[c] : Layer[Needs[c][k]] < Layer[c]
  BY LayerAssumption

\* Replacing the top of a stack leaves the rest of it.
LEMMA TopReplaced ==
    ASSUME NEW s \in Seq(Frames), s # <<>>, NEW f \in Frames
    PROVE  LET n == [s EXCEPT ![Len(s)] = f]
           IN  /\ n \in Seq(Frames) /\ n # <<>> /\ Len(n) = Len(s) /\ n[Len(s)] = f
               /\ \A i \in 1 .. Len(s) - 1 : n[i] = s[i]
  OBVIOUS

\* The top of a stack moves on.
LEMMA TopMoves ==
    ASSUME NEW s \in Seq(Frames), s # <<>>, WellStacked(s),
           NEW n \in Seq(Frames), Len(n) = Len(s),
           \A i \in 1 .. Len(s) - 1 : n[i] = s[i],
           n[Len(s)].of = s[Len(s)].of, Len(s) = 1 => n[1].at = "build", Deeper(n[Len(s)])
    PROVE  WellStacked(n)
<1>1. Len(s) \in Nat \ {0} /\ \A i \in 1 .. Len(s) : i = Len(s) \/ i \in 1 .. Len(s) - 1
  OBVIOUS
<1>2. \A i \in 1 .. Len(s) : n[i].of = s[i].of
  BY <1>1
<1>3. n[1].of = Request /\ n[1].at = "build"
  <2>1. s[1].of = Request /\ s[1].at = "build"
    BY DEF WellStacked
  <2>2. CASE Len(s) = 1
    BY <2>1, <2>2
  <2>3. CASE Len(s) # 1
    <3>1. 1 \in 1 .. Len(s) - 1
      BY <1>1, <2>3
    <3>2. QED BY <2>1, <3>1
  <2>4. QED BY <2>2, <2>3
<1>4. \A i \in 2 .. Len(n) : n[i].of # Request
  BY <1>1, <1>2 DEF WellStacked
<1>5. \A i \in 1 .. Len(n) - 1 : n[i].at = "build" /\ n[i].todo # <<>>
  BY DEF WellStacked
<1>6. \A i \in 1 .. Len(n) : Deeper(n[i])
  BY <1>1 DEF WellStacked
<1>7. \A i, j \in 2 .. Len(n) : i < j => Layer[n[j].of] < Layer[n[i].of]
  <2> SUFFICES ASSUME NEW i \in 2 .. Len(s), NEW j \in 2 .. Len(s), i < j
               PROVE  Layer[n[j].of] < Layer[n[i].of]
    OBVIOUS
  <2>1. n[i].of = s[i].of /\ n[j].of = s[j].of
    BY <1>1, <1>2
  <2>2. Layer[s[j].of] < Layer[s[i].of]
    BY DEF WellStacked
  <2>3. QED BY <2>1, <2>2
<1>8. QED BY <1>3, <1>4, <1>5, <1>6, <1>7 DEF WellStacked

\* A constructor asks for its next parameter.
LEMMA TopCalls ==
    ASSUME NEW s \in Seq(Frames), s # <<>>, WellStacked(s),
           s[Len(s)].at = "build", s[Len(s)].todo # <<>>
    PROVE  LET c == Head(s[Len(s)].todo)
               n == Append(s, Frame(c, "peek", <<>>))
           IN  /\ c \in Contracts /\ n \in Seq(Frames) /\ n # <<>> /\ Len(n) = Len(s) + 1
               /\ WellStacked(n) /\ n[Len(n)] = Frame(c, "peek", <<>>)
               /\ \A i \in 1 .. Len(s) : n[i] = s[i]
<1> DEFINE c == Head(s[Len(s)].todo)
           n == Append(s, Frame(c, "peek", <<>>))
<1>1. s[Len(s)] \in Frames
  OBVIOUS
<1>2. /\ c \in Contracts /\ 1 \in DOMAIN s[Len(s)].todo /\ c = s[Len(s)].todo[1]
  BY <1>1 DEF Frames
<1>3. Frame(c, "peek", <<>>) \in Frames
  BY <1>2 DEF Frame, Frames, Steps
<1>4. /\ n \in Seq(Frames) /\ n # <<>> /\ Len(n) = Len(s) + 1
      /\ n[Len(n)] = Frame(c, "peek", <<>>)
      /\ \A i \in 1 .. Len(s) : n[i] = s[i]
  BY <1>3
<1>5. c # Request
  BY <1>2, LayerAssumption
<1>6. /\ n[Len(s) + 1].of = c /\ Deeper(n[Len(s) + 1])
  BY <1>4 DEF Frame, Deeper
<1>7. Len(s) > 1 => Layer[c] < Layer[s[Len(s)].of]
  BY <1>2 DEF WellStacked, Deeper
<1>8. \A i \in 1 .. Len(s) : s[i].of \in Contracts \cup {Request}
  <2>1. \A i \in 1 .. Len(s) : s[i] \in Frames
    OBVIOUS
  <2>2. QED BY <2>1 DEF Frames
<1>9. \A x \in Contracts : Layer[x] \in Nat
  BY LayerAssumption
<1> HIDE DEF c, n
<1>10. \A i \in 2 .. Len(s) : Layer[c] < Layer[s[i].of]
  <2> SUFFICES ASSUME NEW i \in 2 .. Len(s) PROVE Layer[c] < Layer[s[i].of]
    OBVIOUS
  <2>1. CASE i = Len(s)
    BY <1>7, <2>1
  <2>2. CASE i < Len(s)
    <3>1. Layer[s[Len(s)].of] < Layer[s[i].of]
      BY <2>2 DEF WellStacked
    <3>2. s[i].of \in Contracts /\ s[Len(s)].of \in Contracts
      BY <1>8, <2>2 DEF WellStacked
    <3>3. QED BY <1>2, <1>7, <1>9, <2>2, <3>1, <3>2
  <2>3. QED BY <2>1, <2>2
<1>11. WellStacked(n)
  <2>1. n[1].of = Request /\ n[1].at = "build"
    BY <1>4 DEF WellStacked
  <2>2. \A i \in 2 .. Len(n) : n[i].of # Request
    BY <1>4, <1>5, <1>6 DEF WellStacked
  <2>3. \A i \in 1 .. Len(n) - 1 : n[i].at = "build" /\ n[i].todo # <<>>
    BY <1>4 DEF WellStacked
  <2>4. \A i \in 1 .. Len(n) : Deeper(n[i])
    BY <1>4, <1>6 DEF WellStacked
  <2>5. \A i, j \in 2 .. Len(n) : i < j => Layer[n[j].of] < Layer[n[i].of]
    <3> SUFFICES ASSUME NEW i \in 2 .. Len(n), NEW j \in 2 .. Len(n), i < j
                 PROVE  Layer[n[j].of] < Layer[n[i].of]
      OBVIOUS
    <3>1. CASE j = Len(s) + 1
      BY <1>4, <1>6, <1>10, <3>1
    <3>2. CASE j < Len(s) + 1
      BY <1>4, <3>2 DEF WellStacked
    <3>3. QED BY <1>4, <3>1, <3>2
  <2>6. QED BY <2>1, <2>2, <2>3, <2>4, <2>5 DEF WellStacked
<1>12. QED BY <1>2, <1>4, <1>11 DEF c, n

\* A resolve returns to the constructor below.
LEMMA TopReturns ==
    ASSUME NEW s \in Seq(Frames), Len(s) > 1, WellStacked(s)
    PROVE  LET below == SubSeq(s, 1, Len(s) - 1)
               n == [below EXCEPT ![Len(below)].todo = Tail(@)]
           IN  /\ n \in Seq(Frames) /\ n # <<>> /\ Len(n) = Len(s) - 1 /\ WellStacked(n)
               /\ n[Len(n)].at = "build"
               /\ \A i \in 1 .. Len(s) - 1 : n[i].of = s[i].of /\ n[i].short = s[i].short
<1> DEFINE below == SubSeq(s, 1, Len(s) - 1)
           f == [below[Len(below)] EXCEPT !.todo = Tail(@)]
           n == [below EXCEPT ![Len(below)].todo = Tail(@)]
<1>1. /\ below \in Seq(Frames) /\ below # <<>> /\ Len(below) = Len(s) - 1
      /\ \A i \in 1 .. Len(s) - 1 : below[i] = s[i]
  <2>1. Len(s) \in Nat /\ Len(s) - 1 \in Nat /\ Len(s) - 1 > 0
    OBVIOUS
  <2>2. Len(below) = Len(s) - 1 /\ \A i \in 1 .. Len(s) - 1 : below[i] = s[i]
    BY <2>1
  <2>3. below \in Seq(Frames)
    BY <2>1
  <2> HIDE DEF below
  <2>4. below # <<>>
    BY <2>1, <2>2
  <2>5. QED BY <2>2, <2>3, <2>4
<1>2. n = [below EXCEPT ![Len(below)] = f]
  BY <1>1
<1> HIDE DEF below
<1>3. WellStacked(below)
  BY <1>1 DEF WellStacked
<1>4. below[Len(below)] \in Frames /\ below[Len(below)].at = "build"
      /\ below[Len(below)].todo # <<>>
  BY <1>1 DEF WellStacked
<1>5. /\ f \in Frames /\ f.of = below[Len(below)].of /\ f.at = "build"
      /\ f.short = below[Len(below)].short /\ f.todo = Tail(below[Len(below)].todo)
  <2> DEFINE top == below[Len(below)]
  <2>1. top.todo \in Seq(Contracts) /\ top.todo # <<>>
    BY <1>4 DEF Frames
  <2>2. Tail(top.todo) \in Seq(Contracts)
    BY <2>1
  <2>3. QED BY <1>4, <2>2 DEF Frames
<1>6. Deeper(f)
  <2>1. below[Len(below)].todo \in Seq(Contracts)
    BY <1>4 DEF Frames
  <2>2. \A k \in DOMAIN f.todo : k + 1 \in DOMAIN below[Len(below)].todo
                                 /\ f.todo[k] = below[Len(below)].todo[k + 1]
    BY <1>4, <1>5, <2>1
  <2>3. Deeper(below[Len(below)])
    BY <1>1, <1>3 DEF WellStacked
  <2>4. QED BY <1>5, <2>2, <2>3 DEF Deeper
<1> HIDE DEF f, n
<1>7. /\ n \in Seq(Frames) /\ n # <<>> /\ Len(n) = Len(below) /\ n[Len(below)] = f
      /\ \A i \in 1 .. Len(below) - 1 : n[i] = below[i]
  BY <1>1, <1>2, <1>5, TopReplaced
<1>8. WellStacked(n)
  <2>1. n[Len(below)].of = below[Len(below)].of /\ Deeper(n[Len(below)])
    BY <1>5, <1>6, <1>7
  <2>2. Len(below) = 1 => n[1].at = "build"
    BY <1>5, <1>7
  <2>3. QED BY <1>1, <1>3, <1>7, <2>1, <2>2, TopMoves
<1>9. \A i \in 1 .. Len(s) - 1 : n[i].of = s[i].of /\ n[i].short = s[i].short
  <2>1. Len(s) \in Nat /\ \A i \in 1 .. Len(s) - 1 : i = Len(below) \/ i \in 1 .. Len(below) - 1
    BY <1>1
  <2>2. QED BY <1>1, <1>5, <1>7, <2>1
<1>10. QED BY <1>1, <1>5, <1>7, <1>8, <1>9 DEF n, below

-----------------------------------------------------------------------------
(* The shape of the state *)

Places == {"idle", "resolving", "client", "connect", "create", "hand", "done"}
Replies == {"none", "ok", "not registered", "KeyError", "TypeError", "ValueError",
            "RuntimeError", "no client"}

Types ==
    /\ held \in [Threads -> Nat]
    /\ stack \in [Threads -> Seq(Frames)]
    /\ pc \in [Threads -> Places] /\ reply \in [Threads -> Replies]
    /\ built \in [Contracts -> Nat]

\* Who resolves has a stack, and holds the lock as often as the stack says.
Stacked ==
    \A t \in Threads :
        /\ WellStacked(stack[t])
        /\ held[t] = Depth(stack[t])
        /\ stack[t] # <<>> => pc[t] = "resolving"

Shape == Types /\ Stacked

\* What is known of the top of a stack.
LEMMA TopFacts ==
    ASSUME Shape, NEW t \in Threads, stack[t] # <<>>
    PROVE  /\ stack[t] \in Seq(Frames) /\ Len(stack[t]) \in Nat \ {0}
           /\ Top(t) \in Frames /\ Deeper(Top(t))
           /\ Len(stack[t]) = 1 => Top(t).of = Request /\ Top(t).at = "build"
           /\ Len(stack[t]) # 1 => Top(t).of \in Contracts /\ Top(t).of # Request
           /\ pc[t] = "resolving"
<1>1. stack[t] \in Seq(Frames) /\ Len(stack[t]) \in Nat \ {0} /\ Top(t) \in Frames
  BY DEF Shape, Types, Top
<1>2. WellStacked(stack[t]) /\ pc[t] = "resolving"
  BY DEF Shape, Stacked
<1>3. Deeper(Top(t))
  BY <1>1, <1>2 DEF WellStacked, Top
<1>4. Len(stack[t]) = 1 => Top(t).of = Request /\ Top(t).at = "build"
  BY <1>1, <1>2 DEF WellStacked, Top
<1>5. Len(stack[t]) # 1 => Top(t).of # Request
  <2> DEFINE k == Len(stack[t])
  <2>0. k \in Nat \ {0}
    BY <1>1
  <2> HIDE DEF k
  <2>1. k # 1 => k \in 2 .. k
    BY <2>0
  <2>2. QED BY <1>2, <2>1 DEF WellStacked, Top, k
<1>6. Top(t).of \in Contracts \cup {Request}
  BY <1>1 DEF Frames
<1>7. QED BY <1>1, <1>2, <1>3, <1>4, <1>5, <1>6

\* A step that replaces the top of one stack.
LEMMA ReplaceStep ==
    ASSUME Shape, NEW t \in Threads, stack[t] # <<>>,
           NEW f \in Frames, f.of = Top(t).of, Deeper(f), Len(stack[t]) = 1 => f.at = "build",
           Replace(t, f)
    PROVE  /\ stack' \in [Threads -> Seq(Frames)]
           /\ \A u \in Threads \ {t} : stack'[u] = stack[u]
           /\ stack'[t] # <<>> /\ Len(stack'[t]) = Len(stack[t]) /\ WellStacked(stack'[t])
           /\ stack'[t][Len(stack[t])] = f
           /\ \A i \in 1 .. Len(stack[t]) - 1 : stack'[t][i] = stack[t][i]
<1> DEFINE s == stack[t]
           n == [s EXCEPT ![Len(s)] = f]
<1>1. s \in Seq(Frames) /\ s # <<>> /\ stack \in [Threads -> Seq(Frames)] /\ WellStacked(s)
  BY DEF Shape, Types, Stacked
<1>2. stack' = [stack EXCEPT ![t] = n]
  BY DEF Replace
<1>3. /\ n \in Seq(Frames) /\ n # <<>> /\ Len(n) = Len(s) /\ n[Len(s)] = f
      /\ \A i \in 1 .. Len(s) - 1 : n[i] = s[i]
  BY <1>1, TopReplaced
<1> HIDE DEF n
<1>4. stack'[t] = n /\ stack' \in [Threads -> Seq(Frames)]
      /\ \A u \in Threads \ {t} : stack'[u] = stack[u]
  BY <1>1, <1>2, <1>3
<1>5. WellStacked(n)
  <2>1. f.of = s[Len(s)].of
    BY DEF Top
  <2>2. Len(s) = 1 => n[1].at = "build"
    BY <1>3
  <2>3. QED BY <1>1, <1>3, <2>1, <2>2, TopMoves
<1>6. QED BY <1>3, <1>4, <1>5

\* A step of one thread that leaves its stack in order keeps the shape.
LEMMA ShapeStep ==
    ASSUME Shape, NEW t \in Threads,
           stack' \in [Threads -> Seq(Frames)], held' \in [Threads -> Nat],
           \A u \in Threads \ {t} : stack'[u] = stack[u] /\ held'[u] = held[u] /\ pc'[u] = pc[u],
           WellStacked(stack'[t]), held'[t] = Depth(stack'[t]),
           stack'[t] # <<>> => pc'[t] = "resolving",
           pc' \in [Threads -> Places], reply' \in [Threads -> Replies],
           built' \in [Contracts -> Nat]
    PROVE  Shape'
<1>1. Types'
  BY DEF Types
<1>2. \A u \in Threads : /\ WellStacked(stack'[u])
                         /\ held'[u] = Depth(stack'[u])
                         /\ stack'[u] # <<>> => pc'[u] = "resolving"
  BY DEF Shape, Stacked
<1>3. Stacked'
  BY <1>2 DEF Stacked, WellStacked, Depth, Deeper
<1>4. QED BY <1>1, <1>3 DEF Shape

\* An empty stack is in order, and holds nothing.
LEMMA EmptyStack == <<>> \in Seq(Frames) /\ WellStacked(<<>>) /\ Depth(<<>>) = 0
  BY DEF WellStacked, Depth

\* The thread goes to another place in the frame it is in.
LEMMA GotoStep ==
    ASSUME Shape, NEW t \in Threads, NEW a \in Steps \ {"build"}, NEW b \in Steps,
           Inside(t, a), Goto(t, b)
    PROVE  LET f == [Top(t) EXCEPT !.at = b]
           IN  /\ Len(stack[t]) # 1 /\ Top(t) \in Frames /\ f \in Frames
               /\ f.of = Top(t).of /\ f.at = b /\ f.short = Top(t).short
               /\ Deeper(f) /\ Replace(t, f)
<1>1. stack[t] # <<>> /\ Top(t).at = a
  BY DEF Inside
<1>2. Top(t) \in Frames /\ Deeper(Top(t)) /\ Len(stack[t]) # 1
  <2>1. /\ Top(t) \in Frames /\ Deeper(Top(t)) /\ Len(stack[t]) \in Nat \ {0}
        /\ Len(stack[t]) = 1 => Top(t).at = "build"
    BY <1>1, TopFacts
  <2>2. Len(stack[t]) # 1
    BY <1>1, <2>1
  <2>3. QED BY <2>1, <2>2
<1> DEFINE f == [Top(t) EXCEPT !.at = b]
<1>3. f \in Frames /\ f.of = Top(t).of /\ f.at = b /\ f.short = Top(t).short /\ f.todo = Top(t).todo
  BY <1>2 DEF Frames
<1>4. Deeper(f)
  BY <1>2, <1>3 DEF Deeper
<1>5. QED BY <1>2, <1>3, <1>4 DEF Goto

\* How a step within a frame leaves the shape, when the thread holds the lock as
\* often as its new place says.
LEMMA ShapeReplace ==
    ASSUME Shape, NEW t \in Threads, stack[t] # <<>>,
           NEW f \in Frames, f.of = Top(t).of, Deeper(f), Len(stack[t]) = 1 => f.at = "build",
           Replace(t, f),
           held' = [held EXCEPT ![t] = IF Len(stack[t]) = 1 THEN 0
                                       ELSE IF f.at \in {"check", "build"}
                                       THEN Len(stack[t]) - 1 ELSE Len(stack[t]) - 2],
           pc' = pc, reply' = reply, built' \in [Contracts -> Nat]
    PROVE  Shape'
<1>1. /\ stack' \in [Threads -> Seq(Frames)]
      /\ \A u \in Threads \ {t} : stack'[u] = stack[u]
      /\ stack'[t] # <<>> /\ Len(stack'[t]) = Len(stack[t]) /\ WellStacked(stack'[t])
      /\ stack'[t][Len(stack[t])] = f
  BY ReplaceStep
<1>2. Len(stack[t]) \in Nat \ {0} /\ pc[t] = "resolving"
  BY TopFacts
<1>3. held'[t] = Depth(stack'[t]) /\ held'[t] \in Nat
  <2> DEFINE n == stack'[t]
             k == Len(stack[t])
  <2>1. Len(n) = k /\ n[k] = f /\ k \in Nat \ {0}
    BY <1>1, <1>2
  <2>2. held'[t] = IF k = 1 THEN 0 ELSE IF f.at \in {"check", "build"} THEN k - 1 ELSE k - 2
    BY DEF Shape, Types
  <2> HIDE DEF n, k
  <2>3. Depth(n) = IF k = 1 THEN 0 ELSE IF f.at \in {"check", "build"} THEN k - 1 ELSE k - 2
    BY <2>1 DEF Depth
  <2>4. Depth(n) \in Nat
    BY <2>1, <2>3
  <2>5. QED BY <2>2, <2>3, <2>4 DEF n
<1>4. /\ held' \in [Threads -> Nat]
      /\ \A u \in Threads \ {t} : held'[u] = held[u]
  BY <1>3 DEF Shape, Types
<1>5. pc' \in [Threads -> Places] /\ reply' \in [Threads -> Replies]
  BY DEF Shape, Types
<1>6. QED BY <1>1, <1>2, <1>3, <1>4, <1>5, ShapeStep

\* What a thread inside a frame holds.
LEMMA HeldInside ==
    ASSUME Shape, NEW t \in Threads, stack[t] # <<>>
    PROVE  /\ held[t] = IF Len(stack[t]) = 1 THEN 0
                        ELSE IF Top(t).at \in {"check", "build"}
                        THEN Len(stack[t]) - 1 ELSE Len(stack[t]) - 2
           /\ held \in [Threads -> Nat]
           /\ held = [held EXCEPT ![t] = held[t]]
<1>1. held \in [Threads -> Nat] /\ held[t] = Depth(stack[t])
  BY DEF Shape, Types, Stacked
<1> DEFINE k == Len(stack[t])
<1>2. k \in Nat \ {0}
  BY TopFacts
<1>3. Depth(stack[t]) = IF k <= 1 THEN 0
                        ELSE IF Top(t).at \in {"check", "build"} THEN k - 1 ELSE k - 2
  BY DEF Depth, Top
<1>4. held = [held EXCEPT ![t] = held[t]]
  BY <1>1
<1> HIDE DEF k
<1>5. held[t] = IF k = 1 THEN 0
                ELSE IF Top(t).at \in {"check", "build"} THEN k - 1 ELSE k - 2
  BY <1>1, <1>2, <1>3
<1>6. QED BY <1>1, <1>4, <1>5 DEF k

\* An exception empties the stack and gives back the lock.
LEMMA ShapeRaise ==
    ASSUME Shape, NEW t \in Threads, NEW what \in Replies, Raise(t, what) PROVE Shape'
<1>1. stack' \in [Threads -> Seq(Frames)] /\ held' \in [Threads -> Nat]
  BY EmptyStack DEF Raise, Shape, Types
<1>2. stack'[t] = <<>> /\ held'[t] = 0
      /\ \A u \in Threads \ {t} : stack'[u] = stack[u] /\ held'[u] = held[u] /\ pc'[u] = pc[u]
  BY DEF Raise, End, Shape, Types
<1>3. pc' = [pc EXCEPT ![t] = "done"] /\ reply' = [reply EXCEPT ![t] = what] /\ built' = built
  BY DEF Raise, End
<1>4. pc \in [Threads -> Places] /\ reply \in [Threads -> Replies] /\ built \in [Contracts -> Nat]
  BY DEF Shape, Types
<1>5. pc' \in [Threads -> Places]
  BY <1>3, <1>4 DEF Places
<1>6. reply' \in [Threads -> Replies]
  BY <1>3, <1>4
<1>7. QED BY <1>1, <1>2, <1>3, <1>4, <1>5, <1>6, EmptyStack, ShapeStep

\* A step that goes on within the frame, without touching the lock.
LEMMA ShapeGoto ==
    ASSUME Shape, NEW t \in Threads, NEW a \in Steps \ {"build"}, NEW b \in Steps \ {"build"},
           a = "check" <=> b = "check", Inside(t, a), Goto(t, b), Step(t)
    PROVE  Shape'
<1> DEFINE f == [Top(t) EXCEPT !.at = b]
<1>1. stack[t] # <<>> /\ Top(t).at = a
  BY DEF Inside
<1>2. /\ Len(stack[t]) # 1 /\ f \in Frames /\ f.of = Top(t).of /\ f.at = b
      /\ Deeper(f) /\ Replace(t, f)
  BY GotoStep
<1>3. built' \in [Contracts -> Nat] /\ pc' = pc /\ reply' = reply /\ held' = held
  BY DEF Step, Shape, Types
<1> HIDE DEF f
<1>4. f.at \in {"check", "build"} <=> Top(t).at \in {"check", "build"}
  BY <1>1, <1>2
<1>5. held' = [held EXCEPT ![t] = IF Len(stack[t]) = 1 THEN 0
                                  ELSE IF f.at \in {"check", "build"}
                                  THEN Len(stack[t]) - 1 ELSE Len(stack[t]) - 2]
  BY <1>1, <1>3, <1>4, HeldInside
<1>6. Len(stack[t]) # 1
  BY <1>2, <1>1, TopFacts
<1>7. QED BY <1>1, <1>2, <1>3, <1>5, <1>6, ShapeReplace

\* Looking for an instance moves on within the frame.
LEMMA ShapePeek == ASSUME Shape, NEW t \in Threads, Peek(t) PROVE Shape'
  BY ShapeGoto DEF Peek, Steps

\* Looking for a factory moves on within the frame, or raises.
LEMMA ShapeRegistered == ASSUME Shape, NEW t \in Threads, Registered(t) PROVE Shape'
<1>1. CASE Top(t).of \in factories
  BY <1>1, ShapeGoto DEF Registered, Steps
<1>2. CASE Top(t).of \notin factories
  BY <1>2, ShapeRaise DEF Registered, Replies
<1>3. QED BY <1>1, <1>2

\* The lock is taken with the frame, and given back with it.
LEMMA ShapeAcquire == ASSUME Shape, NEW t \in Threads, Acquire(t) PROVE Shape'
<1> DEFINE f == [Top(t) EXCEPT !.at = "check"]
<1>1. stack[t] # <<>> /\ Top(t).at = "lock"
  BY DEF Acquire, Inside
<1>2. /\ Len(stack[t]) # 1 /\ f \in Frames /\ f.of = Top(t).of /\ f.at = "check"
      /\ Deeper(f) /\ Replace(t, f)
  BY GotoStep DEF Acquire, Steps
<1>3. built' \in [Contracts -> Nat] /\ pc' = pc /\ reply' = reply
  BY DEF Acquire, Shape, Types
<1> HIDE DEF f
<1>4. Len(stack[t]) \in Nat /\ Len(stack[t]) # 1
  BY <1>1, <1>2, TopFacts
<1>5. held[t] = Len(stack[t]) - 2
  BY <1>1, <1>4, HeldInside
<1>6. held[t] + 1 = Len(stack[t]) - 1
  BY <1>4, <1>5
<1>7. held' = [held EXCEPT ![t] = Len(stack[t]) - 1]
  BY <1>6 DEF Acquire
<1>8. QED BY <1>1, <1>2, <1>3, <1>4, <1>7, ShapeReplace

\* A frame that has the lock gives it back and reads.
LEMMA ShapeLeave ==
    ASSUME Shape, NEW t \in Threads, stack[t] # <<>>, Len(stack[t]) # 1,
           Top(t).at \in {"check", "build"}, Goto(t, "read"),
           held' = [held EXCEPT ![t] = @ - 1],
           pc' = pc, reply' = reply, built' \in [Contracts -> Nat]
    PROVE  Shape'
<1> DEFINE f == [Top(t) EXCEPT !.at = "read"]
<1>1. Top(t) \in Frames /\ Deeper(Top(t)) /\ Len(stack[t]) \in Nat
  BY TopFacts
<1>2. f \in Frames /\ f.of = Top(t).of /\ f.at = "read" /\ f.todo = Top(t).todo
  BY <1>1 DEF Frames, Steps
<1>3. Deeper(f) /\ Replace(t, f)
  BY <1>1, <1>2 DEF Deeper, Goto
<1> HIDE DEF f
<1>4. held[t] = Len(stack[t]) - 1
  BY HeldInside
<1>5. held[t] - 1 = Len(stack[t]) - 2
  BY <1>1, <1>4
<1>6. held' = [held EXCEPT ![t] = Len(stack[t]) - 2]
  BY <1>5
<1>7. QED BY <1>1, <1>2, <1>3, <1>6, ShapeReplace

\* The frame a construction starts with.
LEMMA BuildFrame ==
    ASSUME NEW c \in Contracts
    PROVE  LET f == Frame(c, "build", Needs[c])
           IN  f \in Frames /\ f.of = c /\ f.at = "build" /\ ~f.short /\ Deeper(f)
<1>1. Needs[c] \in Seq(Contracts) /\ \A k \in DOMAIN Needs[c] : Layer[Needs[c][k]] < Layer[c]
  BY NeedsDeeper
<1>2. QED BY <1>1 DEF Frame, Frames, Steps, Deeper

\* Under the lock: the instance is read, or its construction starts, or there is no factory.
LEMMA ShapeCheck == ASSUME Shape, NEW t \in Threads, Check(t) PROVE Shape'
<1>1. /\ stack[t] # <<>> /\ Top(t).at = "check" /\ Len(stack[t]) \in Nat \ {0}
      /\ Len(stack[t]) = 1 => Top(t).at = "build"
      /\ Len(stack[t]) # 1 => Top(t).of \in Contracts
  BY TopFacts DEF Check, Inside
<1>2. Len(stack[t]) # 1
  BY <1>1
<1>3. CASE Top(t).of \in singletons
  <2>1. /\ Goto(t, "read") /\ held' = [held EXCEPT ![t] = @ - 1] /\ pc' = pc /\ reply' = reply
        /\ built' \in [Contracts -> Nat]
    BY <1>3 DEF Check, Shape, Types
  <2>2. QED BY <1>1, <1>2, <2>1, ShapeLeave
<1>4. CASE Top(t).of \notin singletons /\ Top(t).of \in factories
  <2> DEFINE f == Frame(Top(t).of, "build", Needs[Top(t).of])
  <2>1. Replace(t, f) /\ held' = held /\ pc' = pc /\ reply' = reply /\ built' \in [Contracts -> Nat]
    BY <1>4 DEF Check, Step, Shape, Types
  <2>2. f \in Frames /\ f.of = Top(t).of /\ f.at = "build" /\ Deeper(f)
    BY <1>1, <1>2, BuildFrame
  <2> HIDE DEF f
  <2>3. held' = [held EXCEPT ![t] = Len(stack[t]) - 1]
    BY <1>1, <1>2, <2>1, HeldInside
  <2>4. QED BY <1>1, <1>2, <2>1, <2>2, <2>3, ShapeReplace
<1>5. CASE Top(t).of \notin singletons \cup factories
  BY <1>5, ShapeRaise DEF Check, Replies
<1>6. QED BY <1>3, <1>4, <1>5

\* A constructor calls for its next parameter, or passes over it.
LEMMA ShapeInject == ASSUME Shape, NEW t \in Threads, Inject(t) PROVE Shape'
<1> DEFINE s == stack[t]
           c == Head(Top(t).todo)
<1>1. /\ s # <<>> /\ Top(t).at = "build" /\ Top(t).todo # <<>> /\ Step(t)
      /\ Has(c) => Push(t, c)
      /\ ~Has(c) => Replace(t, [Top(t) EXCEPT !.todo = Tail(@), !.short = TRUE])
  BY DEF Inject, Inside
<1>2. /\ s \in Seq(Frames) /\ Len(s) \in Nat \ {0} /\ Top(t) \in Frames /\ Deeper(Top(t))
      /\ WellStacked(s) /\ pc[t] = "resolving"
  BY <1>1, TopFacts DEF Shape, Stacked
<1>3. /\ built' \in [Contracts -> Nat] /\ pc' = pc /\ reply' = reply /\ held' = held
      /\ pc' \in [Threads -> Places] /\ reply' \in [Threads -> Replies]
      /\ held \in [Threads -> Nat] /\ stack \in [Threads -> Seq(Frames)]
  BY <1>1 DEF Step, Shape, Types
<1>4. held[t] = IF Len(s) = 1 THEN 0 ELSE Len(s) - 1
  BY <1>1, HeldInside
<1>5. CASE Has(c)
  <2> DEFINE n == Append(s, Frame(c, "peek", <<>>))
  <2>1. stack' = [stack EXCEPT ![t] = n]
    BY <1>1, <1>5 DEF Push
  <2>2. /\ n \in Seq(Frames) /\ n # <<>> /\ Len(n) = Len(s) + 1 /\ WellStacked(n)
        /\ n[Len(n)] = Frame(c, "peek", <<>>)
    BY <1>1, <1>2, TopCalls DEF Top
  <2> HIDE DEF n
  <2>3. n[Len(n)].at = "peek"
    BY <2>2 DEF Frame
  <2> DEFINE k == Len(s)
  <2>4. k \in Nat \ {0} /\ Len(n) = k + 1 /\ held[t] = IF k = 1 THEN 0 ELSE k - 1
    BY <1>2, <1>4, <2>2
  <2> HIDE DEF k
  <2>5. Depth(n) = k + 1 - 2
    BY <2>3, <2>4 DEF Depth
  <2>6. held[t] = Depth(n)
    BY <2>4, <2>5
  <2>7. /\ stack'[t] = n /\ stack' \in [Threads -> Seq(Frames)]
        /\ \A u \in Threads \ {t} : stack'[u] = stack[u]
    BY <1>3, <2>1, <2>2
  <2>8. QED BY <1>2, <1>3, <2>2, <2>6, <2>7, ShapeStep
<1>6. CASE ~Has(c)
  <2> DEFINE f == [Top(t) EXCEPT !.todo = Tail(@), !.short = TRUE]
  <2>1. Replace(t, f)
    BY <1>1, <1>6
  <2>2. Top(t).todo \in Seq(Contracts) /\ Tail(Top(t).todo) \in Seq(Contracts)
    BY <1>1, <1>2 DEF Frames
  <2>3. f \in Frames /\ f.of = Top(t).of /\ f.at = "build" /\ f.todo = Tail(Top(t).todo)
    BY <1>1, <1>2, <2>2 DEF Frames
  <2>4. \A k \in DOMAIN f.todo : k + 1 \in DOMAIN Top(t).todo /\ f.todo[k] = Top(t).todo[k + 1]
    BY <1>1, <2>2, <2>3
  <2>5. Deeper(f)
    BY <1>2, <2>3, <2>4 DEF Deeper
  <2> HIDE DEF f
  <2>6. held' = [held EXCEPT ![t] = IF Len(s) = 1 THEN 0 ELSE Len(s) - 1]
    BY <1>3, <1>4
  <2>7. QED BY <1>1, <1>3, <2>1, <2>3, <2>5, <2>6, ShapeReplace
<1>7. QED BY <1>5, <1>6

\* A complete instance is stored, and the lock given back.
LEMMA ShapeStore == ASSUME Shape, NEW t \in Threads, Store(t) PROVE Shape'
<1>1. /\ stack[t] # <<>> /\ Top(t).at = "build" /\ Top(t).of # Request
      /\ Goto(t, "read") /\ held' = [held EXCEPT ![t] = @ - 1] /\ pc' = pc /\ reply' = reply
      /\ built' = [built EXCEPT ![Top(t).of] = @ + 1]
  BY DEF Store, Inside
<1>2. /\ Len(stack[t]) \in Nat \ {0}
      /\ Len(stack[t]) = 1 => Top(t).of = Request
      /\ Len(stack[t]) # 1 => Top(t).of \in Contracts
  BY <1>1, TopFacts
<1>3. Len(stack[t]) # 1
  BY <1>1, <1>2
<1>4. built' \in [Contracts -> Nat]
  BY <1>1, <1>2, <1>3 DEF Shape, Types
<1>5. QED BY <1>1, <1>3, <1>4, ShapeLeave

\* A constructor that missed a parameter raises.
LEMMA ShapeIncomplete == ASSUME Shape, NEW t \in Threads, Incomplete(t) PROVE Shape'
  BY ShapeRaise DEF Incomplete, Replies

\* A resolve that returns did not hold the lock any more.
LEMMA ShapeRead == ASSUME Shape, NEW t \in Threads, Read(t) PROVE Shape'
<1> DEFINE s == stack[t]
           below == SubSeq(s, 1, Len(s) - 1)
           n == [below EXCEPT ![Len(below)].todo = Tail(@)]
<1>1. s # <<>> /\ Top(t).at = "read"
  BY DEF Read, Inside
<1>2. /\ s \in Seq(Frames) /\ Len(s) \in Nat \ {0} /\ WellStacked(s) /\ pc[t] = "resolving"
      /\ Len(s) = 1 => Top(t).at = "build"
  BY <1>1, TopFacts DEF Shape, Stacked
<1>3. CASE Top(t).of \in singletons
  <2>1. stack' = [stack EXCEPT ![t] = n] /\ Step(t)
    BY <1>3 DEF Read, Return
  <2> DEFINE k == Len(s)
  <2>2. k \in Nat \ {0} /\ k # 1
    BY <1>1, <1>2
  <2> HIDE DEF k
  <2>3. k > 1
    BY <2>2
  <2>4. /\ n \in Seq(Frames) /\ n # <<>> /\ Len(n) = k - 1 /\ WellStacked(n)
        /\ n[Len(n)].at = "build"
    BY <1>2, <2>3, TopReturns DEF k
  <2> HIDE DEF n
  <2>5. held[t] = k - 2
    BY <1>1, <2>2, HeldInside DEF k
  <2>6. Depth(n) = k - 2
    BY <2>2, <2>3, <2>4 DEF Depth
  <2>7. /\ built' \in [Contracts -> Nat] /\ pc' = pc /\ reply' = reply /\ held' = held
        /\ pc' \in [Threads -> Places] /\ reply' \in [Threads -> Replies]
        /\ held \in [Threads -> Nat] /\ stack \in [Threads -> Seq(Frames)]
    BY <2>1 DEF Step, Shape, Types
  <2>8. /\ stack'[t] = n /\ stack' \in [Threads -> Seq(Frames)]
        /\ \A u \in Threads \ {t} : stack'[u] = stack[u]
    BY <2>1, <2>4, <2>7
  <2>9. QED BY <1>2, <2>4, <2>5, <2>6, <2>7, <2>8, ShapeStep
<1>4. CASE Top(t).of \notin singletons
  BY <1>4, ShapeRaise DEF Read, Replies
<1>5. QED BY <1>3, <1>4

\* Calls and the client leave every stack alone, or empty one.
LEMMA ShapeIdle ==
    ASSUME Shape, NEW t \in Threads, NEW n \in {<<>>, stack[t]},
           stack' = [stack EXCEPT ![t] = n], n # <<>> => pc'[t] = "resolving",
           n # stack[t] => Depth(stack[t]) = 0,
           held' = held, NEW p \in Places, pc' = [pc EXCEPT ![t] = p],
           reply' \in [Threads -> Replies], built' \in [Contracts -> Nat]
    PROVE  Shape'
<1>1. /\ WellStacked(stack[t]) /\ held[t] = Depth(stack[t]) /\ stack[t] \in Seq(Frames)
      /\ stack \in [Threads -> Seq(Frames)] /\ held \in [Threads -> Nat]
      /\ pc \in [Threads -> Places]
  BY DEF Shape, Types, Stacked
<1>2. n \in Seq(Frames) /\ WellStacked(n) /\ held[t] = Depth(n)
  BY <1>1, EmptyStack
<1>3. stack' \in [Threads -> Seq(Frames)] /\ stack'[t] = n
      /\ \A u \in Threads \ {t} : stack'[u] = stack[u]
  BY <1>1, <1>2
<1>4. pc' \in [Threads -> Places] /\ \A u \in Threads \ {t} : pc'[u] = pc[u]
  BY <1>1
<1>5. QED BY <1>1, <1>2, <1>3, <1>4, ShapeStep

\* A thread that is not resolving has an empty stack.
LEMMA NotResolving ==
    ASSUME Shape, NEW t \in Threads, pc[t] # "resolving"
    PROVE  stack[t] = <<>> /\ held[t] = 0 /\ stack = [stack EXCEPT ![t] = <<>>]
<1>1. stack[t] = <<>> /\ stack \in [Threads -> Seq(Frames)] /\ held[t] = Depth(stack[t])
  BY DEF Shape, Types, Stacked
<1>2. QED BY <1>1, EmptyStack

\* A request starts with the frame of its controller.
LEMMA ShapeArrive == ASSUME Shape, NEW t \in Threads, Arrive(t) PROVE Shape'
<1>1. PICK c \in Calls : c.op = "request"
          /\ stack' = [stack EXCEPT ![t] = <<Frame(Request, "build", c.wants)>>]
  BY DEF Arrive
<1> DEFINE f == Frame(Request, "build", c.wants)
           n == <<f>>
<1>2. c.wants \in Seq(Contracts)
  BY <1>1, CallsAssumption
<1>3. f \in Frames /\ f.of = Request /\ f.at = "build"
  BY <1>2 DEF Frame, Frames, Steps
<1> HIDE DEF f
<1>4. n \in Seq(Frames) /\ n # <<>> /\ Len(n) = 1 /\ n[1] = f
  BY <1>3
<1> HIDE DEF n
<1>5. WellStacked(n) /\ Depth(n) = 0
  BY <1>3, <1>4 DEF WellStacked, Depth, Deeper
<1>6. pc[t] = "idle" /\ held' = held /\ pc' = [pc EXCEPT ![t] = "resolving"]
      /\ reply' = reply /\ built' = built /\ stack' = [stack EXCEPT ![t] = n]
  BY <1>1 DEF Arrive, n, f
<1>7. held[t] = 0
  BY <1>6, NotResolving
<1>8. /\ stack \in [Threads -> Seq(Frames)] /\ held \in [Threads -> Nat]
      /\ pc \in [Threads -> Places] /\ reply \in [Threads -> Replies] /\ built \in [Contracts -> Nat]
  BY DEF Shape, Types
<1>9. stack' \in [Threads -> Seq(Frames)] /\ stack'[t] = n
      /\ \A u \in Threads \ {t} : stack'[u] = stack[u]
  BY <1>4, <1>6, <1>8
<1>10. pc' \in [Threads -> Places] /\ pc'[t] = "resolving"
       /\ \A u \in Threads \ {t} : pc'[u] = pc[u]
  BY <1>6, <1>8 DEF Places
<1>11. QED BY <1>5, <1>6, <1>7, <1>8, <1>9, <1>10, ShapeStep

\* The controller is complete: the stack is empty, and the lock was given back before.
LEMMA ShapeController == ASSUME Shape, NEW t \in Threads, Controller(t) PROVE Shape'
<1>1. /\ stack[t] # <<>> /\ Top(t).of = Request /\ stack' = [stack EXCEPT ![t] = <<>>]
      /\ pc' = [pc EXCEPT ![t] = "client"] /\ held' = held /\ reply' = reply /\ built' = built
  BY DEF Controller, Inside
<1>2. Len(stack[t]) = 1
  BY <1>1, TopFacts
<1>3. Depth(stack[t]) = 0
  BY <1>2 DEF Depth
<1>4. "client" \in Places /\ reply \in [Threads -> Replies] /\ built \in [Contracts -> Nat]
  BY DEF Places, Shape, Types
<1>5. QED BY <1>1, <1>3, <1>4, ShapeIdle

\* A thread that does not resolve changes its own place and nobody's stack.
LEMMA ShapeElsewhere ==
    ASSUME Shape, NEW t \in Threads, pc[t] # "resolving",
           stack' = stack, held' = held, NEW p \in Places, pc' = [pc EXCEPT ![t] = p],
           reply' \in [Threads -> Replies], built' \in [Contracts -> Nat]
    PROVE  Shape'
<1>1. stack[t] = <<>> /\ stack' = [stack EXCEPT ![t] = <<>>]
  BY NotResolving
<1>2. QED BY <1>1, ShapeIdle

\* A registration leaves stacks and lock alone.
LEMMA ShapeRegister == ASSUME Shape, NEW t \in Threads, Register(t) PROVE Shape'
<1>1. /\ pc[t] = "idle" /\ stack' = stack /\ held' = held /\ pc' = [pc EXCEPT ![t] = "done"]
      /\ reply' = [reply EXCEPT ![t] = "ok"]
  BY DEF Register, End
<1>2. "done" \in Places /\ reply' \in [Threads -> Replies]
  BY <1>1 DEF Places, Replies, Shape, Types
<1>3. built' \in [Contracts -> Nat]
  <2>1. built \in [Contracts -> Nat]
    BY DEF Shape, Types
  <2>2. PICK c \in Calls : built' = [built EXCEPT ![c.contract] = 1]
                           \/ built' = [built EXCEPT ![c.contract] = 0]
    BY DEF Register
  <2>3. QED BY <2>1, <2>2
<1>4. QED BY <1>1, <1>2, <1>3, ShapeElsewhere

\* So does a reset.
LEMMA ShapeReset == ASSUME Shape, NEW t \in Threads, Reset(t) PROVE Shape'
<1>1. /\ pc[t] = "idle" /\ stack' = stack /\ held' = held /\ pc' = [pc EXCEPT ![t] = "done"]
      /\ reply' = [reply EXCEPT ![t] = "ok"] /\ built' = [c \in Contracts |-> 0]
  BY DEF Reset, End
<1>2. "done" \in Places /\ reply' \in [Threads -> Replies] /\ built' \in [Contracts -> Nat]
  BY <1>1 DEF Places, Replies, Shape, Types
<1>3. QED BY <1>1, <1>2, ShapeElsewhere

\* So do the client's steps.
LEMMA ShapeDatabase ==
    ASSUME Shape, NEW t \in Threads, Database(t) \/ Disconnect(t) \/ RegisterNothing(t)
    PROVE  Shape'
<1>1. reply \in [Threads -> Replies] /\ built \in [Contracts -> Nat]
  BY DEF Shape, Types
<1>2. ASSUME NEW from \in Places \ {"resolving"}, NEW to \in Places, At(t, from, to)
      PROVE  Shape'
  BY <1>1, <1>2, ShapeElsewhere DEF At
<1>3. CASE GetClient(t) \/ Connect(t) \/ Create(t)
  BY <1>2, <1>3 DEF GetClient, Connect, Create, Places
<1>4. CASE Unconfigured(t) \/ RegisterNothing(t)
  BY <1>4, ShapeRaise DEF Unconfigured, RegisterNothing, Replies
<1>5. CASE Hand(t) \/ Disconnect(t)
  <2>1. PICK how \in {"ok", "no client"} : reply' = [reply EXCEPT ![t] = how]
    BY <1>5 DEF Hand, Disconnect, End
  <2>2. reply' \in [Threads -> Replies] /\ "done" \in Places
    BY <1>1, <2>1 DEF Replies, Places
  <2>3. /\ pc[t] \in {"hand", "idle"} /\ stack' = stack /\ held' = held /\ built' = built
        /\ pc' = [pc EXCEPT ![t] = "done"]
    BY <1>5 DEF Hand, Disconnect, End
  <2>4. QED BY <1>1, <2>2, <2>3, ShapeElsewhere
<1>6. QED BY <1>3, <1>4, <1>5 DEF Database

\* Nobody has called anything yet.
LEMMA ShapeInit == Init => Shape
<1> SUFFICES ASSUME Init PROVE Shape
  OBVIOUS
<1>1. Types
  BY EmptyStack DEF Init, Types, Places, Replies
<1>2. Stacked
  BY EmptyStack DEF Init, Stacked
<1>3. QED BY <1>1, <1>2 DEF Shape

\* Shape is inductive.
LEMMA ShapeNext == Shape /\ [Next]_vars => Shape'
<1> SUFFICES ASSUME Shape, [Next]_vars PROVE Shape'
  OBVIOUS
<1>1. CASE UNCHANGED vars
  BY <1>1 DEF vars, Shape, Types, Stacked, WellStacked, Depth, Deeper
<1>2. ASSUME NEW t \in Threads, Resolve(t) PROVE Shape'
  BY <1>2, ShapePeek, ShapeRegistered, ShapeAcquire, ShapeCheck, ShapeInject, ShapeStore,
     ShapeIncomplete, ShapeRead, ShapeController DEF Resolve
<1>3. ASSUME NEW t \in Threads, Call(t) PROVE Shape'
  BY <1>3, ShapeArrive, ShapeRegister, ShapeReset, ShapeDatabase DEF Call
<1>4. ASSUME NEW t \in Threads, Database(t) PROVE Shape'
  BY <1>4, ShapeDatabase
<1>5. QED BY <1>1, <1>2, <1>3, <1>4 DEF Next

-----------------------------------------------------------------------------
(* One instance of each contract *)

\* One thread at a time holds the lock.
Alone == \A t, u \in Threads : held[t] > 0 /\ held[u] > 0 => t = u

\* What is under construction is not there yet.
FreshStack(s) == \A i \in 2 .. Len(s) : s[i].at = "build" => s[i].of \notin singletons
Fresh == \A t \in Threads : FreshStack(stack[t])

\* What is there has been built once.
Counted == \A c \in Contracts : built[c] = 0 \/ (built[c] = 1 /\ c \in singletons)

Once == Alone /\ Fresh /\ Counted

\* Who constructs holds the lock.
LEMMA NotHolding ==
    ASSUME Shape, NEW t \in Threads, held[t] = 0
    PROVE  \A i \in 2 .. Len(stack[t]) : stack[t][i].at # "build"
<1> DEFINE s == stack[t]
           k == Len(s)
<1>1. s \in Seq(Frames) /\ k \in Nat /\ held[t] = Depth(s)
  BY DEF Shape, Types, Stacked
<1> SUFFICES ASSUME NEW i \in 2 .. k PROVE s[i].at # "build"
  OBVIOUS
<1>2. Depth(s) = 0 /\ Depth(s) = IF k <= 1 THEN 0
                                 ELSE IF s[k].at \in {"check", "build"} THEN k - 1 ELSE k - 2
  BY <1>1 DEF Depth
<1> HIDE DEF k
<1>3. k >= 2 /\ s[k].at # "build" /\ k = 2
  BY <1>1, <1>2
<1>4. i = k
  BY <1>3
<1>5. QED BY <1>3, <1>4

\* A step of one thread that builds nothing.
LEMMA OnceStep ==
    ASSUME Shape, Shape', Once, NEW t \in Threads,
           singletons' = singletons, built' = built,
           \A u \in Threads \ {t} : stack'[u] = stack[u] /\ held'[u] = held[u],
           held'[t] > 0 => held[t] > 0 \/ Free(t),
           FreshStack(stack'[t])
    PROVE  Once'
<1>1. \A u \in Threads : held[u] \in Nat /\ held'[u] \in Nat
  BY DEF Shape, Types
<1>2. Alone'
  <2> SUFFICES ASSUME NEW u \in Threads, NEW v \in Threads, held'[u] > 0, held'[v] > 0
               PROVE  u = v
    BY DEF Alone
  <2>1. CASE u # t /\ v # t
    BY <2>1 DEF Once, Alone
  <2>2. ASSUME NEW w \in Threads \ {t}, held'[w] > 0, held'[t] > 0 PROVE FALSE
    <3>1. held[w] > 0
      BY <2>2
    <3>2. CASE held[t] > 0
      BY <3>1, <3>2 DEF Once, Alone
    <3>3. CASE Free(t)
      BY <3>1, <3>3 DEF Free
    <3>4. QED BY <2>2, <3>2, <3>3
  <2>3. QED BY <2>1, <2>2
<1>3. \A u \in Threads : FreshStack(stack'[u])
  BY DEF Once, Fresh
<1>4. Fresh'
  BY <1>3 DEF Fresh, FreshStack
<1>5. Counted'
  BY DEF Once, Counted
<1>6. QED BY <1>2, <1>4, <1>5 DEF Once

\* The same for a step within a frame.
LEMMA OnceReplace ==
    ASSUME Shape, Shape', Once, NEW t \in Threads, stack[t] # <<>>,
           NEW f \in Frames, f.of = Top(t).of, Deeper(f), Len(stack[t]) = 1 => f.at = "build",
           Replace(t, f), singletons' = singletons, built' = built,
           f.at = "build" /\ Len(stack[t]) # 1 => f.of \notin singletons,
           \A u \in Threads \ {t} : held'[u] = held[u],
           held'[t] > 0 => held[t] > 0 \/ Free(t)
    PROVE  Once'
<1> DEFINE k == Len(stack[t])
<1>1. /\ \A u \in Threads \ {t} : stack'[u] = stack[u]
      /\ Len(stack'[t]) = k /\ stack'[t][k] = f
      /\ \A i \in 1 .. k - 1 : stack'[t][i] = stack[t][i]
  BY ReplaceStep
<1>2. FreshStack(stack[t]) /\ k \in Nat \ {0}
  BY TopFacts DEF Once, Fresh
<1>3. f.at = "build" /\ k # 1 => f.of \notin singletons
  OBVIOUS
<1>4. \A i \in 2 .. k : stack[t][i].at = "build" => stack[t][i].of \notin singletons
  BY <1>2 DEF FreshStack
<1> HIDE DEF k
<1>5. \A i \in 2 .. k : stack'[t][i].at = "build" => stack'[t][i].of \notin singletons
  <2> TAKE i \in 2 .. k
  <2>1. CASE i = k
    BY <1>1, <1>2, <1>3, <2>1
  <2>2. CASE i # k
    <3>1. i \in 1 .. k - 1
      BY <1>2, <2>2
    <3>2. QED BY <1>1, <1>4, <3>1
  <2>3. QED BY <2>1, <2>2
<1>6. FreshStack(stack'[t])
  BY <1>1, <1>5 DEF FreshStack
<1>7. QED BY <1>1, <1>6, OnceStep

\* Once survives a move within a frame.
LEMMA OnceGoto ==
    ASSUME Shape, Shape', Once, NEW t \in Threads,
           NEW a \in Steps \ {"build"}, NEW b \in Steps \ {"build"}, Inside(t, a), Goto(t, b),
           singletons' = singletons, built' = built,
           \A u \in Threads \ {t} : held'[u] = held[u],
           held'[t] > 0 => held[t] > 0 \/ Free(t)
    PROVE  Once'
<1> DEFINE f == [Top(t) EXCEPT !.at = b]
<1>1. /\ Len(stack[t]) # 1 /\ f \in Frames /\ f.of = Top(t).of /\ f.at = b
      /\ Deeper(f) /\ Replace(t, f)
  BY GotoStep
<1>2. stack[t] # <<>>
  BY DEF Inside
<1> HIDE DEF f
<1>3. f.at # "build"
  BY <1>1
<1>4. QED BY <1>1, <1>2, <1>3, OnceReplace

\* Once survives an exception: fewer constructions are under way.
LEMMA OnceRaise ==
    ASSUME Shape, Shape', Once, NEW t \in Threads, NEW what, Raise(t, what) PROVE Once'
<1>1. /\ stack'[t] = <<>> /\ held'[t] = 0 /\ singletons' = singletons /\ built' = built
      /\ \A u \in Threads \ {t} : stack'[u] = stack[u] /\ held'[u] = held[u]
  BY DEF Raise, Shape, Types
<1>2. FreshStack(stack'[t])
  BY <1>1 DEF FreshStack
<1>3. QED BY <1>1, <1>2, OnceStep

\* A construction starts only for what is not there yet.
LEMMA OnceCheck == ASSUME Shape, Shape', Once, NEW t \in Threads, Check(t) PROVE Once'
<1>1. /\ stack[t] # <<>> /\ Inside(t, "check") /\ Top(t).at = "check"
      /\ Len(stack[t]) = 1 => Top(t).at = "build"
      /\ Len(stack[t]) # 1 => Top(t).of \in Contracts
  BY TopFacts DEF Check, Inside
<1>2. Len(stack[t]) # 1
  BY <1>1
<1>3. held \in [Threads -> Nat] /\ held' \in [Threads -> Nat]
  BY DEF Shape, Types
<1>4. CASE Top(t).of \in singletons
  <2>1. /\ Goto(t, "read") /\ held' = [held EXCEPT ![t] = @ - 1]
        /\ singletons' = singletons /\ built' = built
    BY <1>4 DEF Check
  <2>2. "check" \in Steps \ {"build"} /\ "read" \in Steps \ {"build"}
    BY DEF Steps
  <2>3. (\A u \in Threads \ {t} : held'[u] = held[u]) /\ held'[t] = held[t] - 1
    BY <1>3, <2>1
  <2>4. held'[t] > 0 => held[t] > 0
    BY <1>3, <2>3
  <2>5. QED BY <1>1, <2>1, <2>2, <2>3, <2>4, OnceGoto
<1>5. CASE Top(t).of \notin singletons /\ Top(t).of \in factories
  <2> DEFINE f == Frame(Top(t).of, "build", Needs[Top(t).of])
  <2>1. Replace(t, f) /\ held' = held /\ singletons' = singletons /\ built' = built
    BY <1>5 DEF Check, Step
  <2>2. f \in Frames /\ f.of = Top(t).of /\ f.at = "build" /\ Deeper(f)
    BY <1>1, <1>2, BuildFrame
  <2> HIDE DEF f
  <2>3. f.of \notin singletons
    BY <1>5, <2>2
  <2>4. QED BY <1>1, <1>2, <2>1, <2>2, <2>3, OnceReplace
<1>6. CASE Top(t).of \notin singletons \cup factories
  BY <1>6, OnceRaise DEF Check
<1>7. QED BY <1>4, <1>5, <1>6

\* A nested resolve is about a contract nobody has under construction: deeper ones only.
LEMMA OnceInject == ASSUME Shape, Shape', Once, NEW t \in Threads, Inject(t) PROVE Once'
<1> DEFINE s == stack[t]
           c == Head(Top(t).todo)
           n == Append(s, Frame(c, "peek", <<>>))
           f == [Top(t) EXCEPT !.todo = Tail(@), !.short = TRUE]
<1>1. /\ s # <<>> /\ Top(t).at = "build" /\ Top(t).todo # <<>>
      /\ held' = held /\ singletons' = singletons /\ built' = built
      /\ Has(c) => stack' = [stack EXCEPT ![t] = n]
      /\ ~Has(c) => stack' = [stack EXCEPT ![t] = [s EXCEPT ![Len(s)] = f]]
  BY DEF Inject, Inside, Step, Push, Replace
<1>2. /\ s \in Seq(Frames) /\ Len(s) \in Nat \ {0} /\ WellStacked(s) /\ Top(t) \in Frames
      /\ stack \in [Threads -> Seq(Frames)] /\ FreshStack(s)
  BY <1>1, TopFacts DEF Shape, Types, Stacked, Once, Fresh
<1>3. CASE Has(c)
  <2>1. /\ Len(n) = Len(s) + 1 /\ n[Len(n)] = Frame(c, "peek", <<>>)
        /\ \A i \in 1 .. Len(s) : n[i] = s[i]
    BY <1>1, <1>2, TopCalls DEF Top
  <2>2. stack'[t] = n /\ \A u \in Threads \ {t} : stack'[u] = stack[u]
    BY <1>1, <1>2, <1>3
  <2> HIDE DEF n
  <2>3. n[Len(n)].at = "peek"
    BY <2>1 DEF Frame
  <2>4. FreshStack(n)
    <3> SUFFICES ASSUME NEW i \in 2 .. Len(n), n[i].at = "build"
                 PROVE  n[i].of \notin singletons
      BY DEF FreshStack
    <3>1. i # Len(n)
      BY <2>3
    <3>2. i \in 2 .. Len(s) /\ n[i] = s[i]
      BY <1>2, <2>1, <3>1
    <3>3. QED BY <1>2, <3>2 DEF FreshStack
  <2>5. QED BY <1>1, <2>2, <2>4, OnceStep
<1>4. CASE ~Has(c)
  <2> DEFINE m == [s EXCEPT ![Len(s)] = f]
  <2>1. f.of = Top(t).of /\ f.at = Top(t).at /\ f \in Frames
    <3>1. Top(t).todo \in Seq(Contracts) /\ Tail(Top(t).todo) \in Seq(Contracts)
      BY <1>1, <1>2 DEF Frames
    <3>2. QED BY <1>2, <3>1 DEF Frames
  <2>2. stack'[t] = m /\ \A u \in Threads \ {t} : stack'[u] = stack[u]
    BY <1>1, <1>2, <1>4
  <2>3. Len(m) = Len(s) /\ m[Len(s)] = f /\ \A i \in 1 .. Len(s) - 1 : m[i] = s[i]
    BY <1>1, <1>2, <2>1, TopReplaced
  <2> HIDE DEF m, f
  <2>4. \A i \in 1 .. Len(s) : m[i].of = s[i].of /\ m[i].at = s[i].at
    <3> TAKE i \in 1 .. Len(s)
    <3>1. CASE i = Len(s)
      BY <2>1, <2>3, <3>1 DEF Top
    <3>2. CASE i # Len(s)
      <4>1. i \in 1 .. Len(s) - 1
        BY <1>2, <3>2
      <4>2. QED BY <2>3, <4>1
    <3>3. QED BY <3>1, <3>2
  <2>5. FreshStack(m)
    BY <1>2, <2>3, <2>4 DEF FreshStack
  <2>6. QED BY <1>1, <2>2, <2>5, OnceStep
<1>5. QED BY <1>3, <1>4

\* What is stored was not there, and no other construction of it is under way: not by
\* another thread, which would need the lock, nor further down, where contracts lie
\* nearer to the controllers.
LEMMA OnceStore == ASSUME Shape, Shape', Once, NEW t \in Threads, Store(t) PROVE Once'
<1> DEFINE s == stack[t]
           k == Len(s)
           c == Top(t).of
           f == [Top(t) EXCEPT !.at = "read"]
<1>1. /\ s # <<>> /\ Top(t).at = "build" /\ c # Request
      /\ singletons' = singletons \cup {c} /\ built' = [built EXCEPT ![c] = @ + 1]
      /\ held' = [held EXCEPT ![t] = @ - 1] /\ Replace(t, f)
  BY DEF Store, Inside, Goto
<1>2. /\ s \in Seq(Frames) /\ k \in Nat \ {0} /\ WellStacked(s) /\ Top(t) \in Frames
      /\ Deeper(Top(t)) /\ (k = 1 => c = Request)
  BY <1>1, TopFacts DEF Shape, Stacked
<1>3. k # 1 /\ c \in Contracts
  <2>1. k # 1
    BY <1>1, <1>2
  <2>2. QED BY <1>1, <2>1, TopFacts
<1>4. f \in Frames /\ f.of = c /\ f.at = "read" /\ f.todo = Top(t).todo
  BY <1>2 DEF Frames, Steps
<1>5. /\ \A u \in Threads \ {t} : stack'[u] = stack[u]
      /\ Len(stack'[t]) = k /\ stack'[t][k] = f
      /\ \A i \in 1 .. k - 1 : stack'[t][i] = s[i]
  <2>1. Deeper(f)
    BY <1>2, <1>4 DEF Deeper
  <2> HIDE DEF f
  <2>2. QED BY <1>1, <1>3, <1>4, <2>1, ReplaceStep
<1>6. held \in [Threads -> Nat] /\ held' \in [Threads -> Nat] /\ built \in [Contracts -> Nat]
  BY DEF Shape, Types
<1> HIDE DEF f
<1>7. held[t] > 0
  <2>1. held[t] = k - 1
    BY <1>1, <1>3, HeldInside
  <2> HIDE DEF k
  <2>2. QED BY <1>2, <1>3, <2>1
<1>8. \A u \in Threads \ {t} : held[u] = 0
  BY <1>6, <1>7 DEF Once, Alone
<1>9. c \notin singletons
  <2>1. FreshStack(s) /\ s[k] = Top(t)
    BY DEF Once, Fresh, Top
  <2>2. \A i \in 2 .. k : s[i].at = "build" => s[i].of \notin singletons
    BY <2>1 DEF FreshStack
  <2> HIDE DEF k
  <2>3. k \in 2 .. k
    BY <1>2, <1>3
  <2>4. QED BY <1>1, <2>1, <2>2, <2>3
<1>10. Alone'
  BY <1>1, <1>6, <1>8 DEF Alone
<1>11. Counted'
  <2>1. built[c] = 0
    BY <1>3, <1>9 DEF Once, Counted
  <2>2. QED BY <1>1, <1>3, <1>6, <2>1 DEF Once, Counted
<1>12. \A i \in 2 .. k : stack'[t][i].at = "build" => stack'[t][i].of \notin singletons'
  <2>1. \A i \in 2 .. k : s[i].at = "build" => s[i].of \notin singletons
    BY DEF Once, Fresh, FreshStack
  <2>2. \A i \in 2 .. k : i < k => s[i].of # c
    <3>1. \A i, j \in 2 .. k : i < j => Layer[s[j].of] < Layer[s[i].of]
      BY <1>2 DEF WellStacked
    <3>2. s[k].of = c /\ Layer[c] \in Nat
      BY <1>3, LayerAssumption DEF Top
    <3> HIDE DEF k, c, s
    <3>3. k \in 2 .. k
      BY <1>2, <1>3
    <3>4. QED BY <3>1, <3>2, <3>3
  <2> HIDE DEF k, c, s
  <2>3. QED BY <1>1, <1>2, <1>4, <1>5, <2>1, <2>2
<1>13. \A u \in Threads \ {t} : \A i \in 2 .. Len(stack'[u]) : stack'[u][i].at # "build"
  BY <1>5, <1>8, NotHolding
<1>14. Fresh'
  <2> SUFFICES ASSUME NEW u \in Threads PROVE FreshStack(stack[u])'
    BY DEF Fresh
  <2>1. CASE u = t
    BY <1>5, <1>12, <2>1 DEF FreshStack
  <2>2. CASE u # t
    BY <1>13, <2>2 DEF FreshStack
  <2>3. QED BY <2>1, <2>2
<1>15. QED BY <1>10, <1>11, <1>14 DEF Once

\* Registering and resetting wait until nobody holds the lock, so nobody constructs.
LEMMA OnceRewritten ==
    ASSUME Shape, Shape', Once, NEW t \in Threads, pc[t] = "idle", Free(t),
           stack' = stack, held' = held,
           \A c \in Contracts : built'[c] = 0 \/ (built'[c] = 1 /\ c \in singletons')
    PROVE  Once'
<1>1. \A u \in Threads : held[u] = 0
  BY NotResolving DEF Free
<1>2. \A u \in Threads : \A i \in 2 .. Len(stack[u]) : stack[u][i].at # "build"
  BY <1>1, NotHolding
<1>3. Alone' /\ Fresh'
  BY <1>1, <1>2 DEF Alone, Fresh, FreshStack
<1>4. QED BY <1>3 DEF Once, Counted

\* A registered instance is the one instance of its contract; a new factory has none.
LEMMA OnceRegister == ASSUME Shape, Shape', Once, NEW t \in Threads, Register(t) PROVE Once'
<1>1. pc[t] = "idle" /\ Free(t) /\ stack' = stack /\ held' = held
  BY DEF Register
<1>2. /\ built \in [Contracts -> Nat]
      /\ \A c \in Contracts : built[c] = 0 \/ (built[c] = 1 /\ c \in singletons)
  BY DEF Shape, Types, Once, Counted
<1>3. \A c \in Contracts : built'[c] = 0 \/ (built'[c] = 1 /\ c \in singletons')
  <2>1. PICK r \in Calls :
          \/ singletons' = singletons \cup {r.contract} /\ built' = [built EXCEPT ![r.contract] = 1]
          \/ singletons' = singletons \ {r.contract} /\ built' = [built EXCEPT ![r.contract] = 0]
    BY DEF Register
  <2>2. QED BY <1>2, <2>1
<1>4. QED BY <1>1, <1>3, OnceRewritten

\* After a reset there are no instances.
LEMMA OnceReset == ASSUME Shape, Shape', Once, NEW t \in Threads, Reset(t) PROVE Once'
  BY OnceRewritten DEF Reset

\* Nothing is built yet.
LEMMA OnceInit == Init => Once
  BY DEF Init, Once, Alone, Fresh, FreshStack, Counted

\* Once is inductive, given Shape.
LEMMA OnceNext == Shape /\ Once /\ [Next]_vars => Once'
<1> SUFFICES ASSUME Shape, Once, [Next]_vars PROVE Once'
  OBVIOUS
<1>1. Shape'
  BY ShapeNext
<1>2. ASSUME singletons' = singletons, built' = built, held' = held,
             NEW t \in Threads, \A u \in Threads \ {t} : stack'[u] = stack[u],
             FreshStack(stack'[t])
      PROVE  Once'
  BY <1>1, <1>2, OnceStep
<1>3. ASSUME singletons' = singletons, built' = built, held' = held, stack' = stack
      PROVE  Once'
  BY <1>3 DEF Once, Alone, Fresh, FreshStack, Counted
<1>4. CASE UNCHANGED vars
  BY <1>3, <1>4 DEF vars
<1>5. ASSUME NEW t \in Threads, Resolve(t) PROVE Once'
  <2>1. CASE Peek(t)
    BY <1>1, <2>1, OnceGoto DEF Peek, Step, Steps
  <2>2. CASE Registered(t)
    <3>1. CASE Top(t).of \in factories
      BY <1>1, <2>2, <3>1, OnceGoto DEF Registered, Step, Steps
    <3>2. CASE Top(t).of \notin factories
      BY <1>1, <2>2, <3>2, OnceRaise DEF Registered
    <3>3. QED BY <3>1, <3>2
  <2>3. CASE Acquire(t)
    <3>1. \A u \in Threads \ {t} : held'[u] = held[u]
      BY <2>3 DEF Acquire, Shape, Types
    <3>2. QED BY <1>1, <2>3, <3>1, OnceGoto DEF Acquire, Steps
  <2>4. CASE Read(t)
    <3>1. CASE Top(t).of \notin singletons
      BY <1>1, <2>4, <3>1, OnceRaise DEF Read
    <3>2. CASE Top(t).of \in singletons
      <4> DEFINE s == stack[t]
                 below == SubSeq(s, 1, Len(s) - 1)
                 n == [below EXCEPT ![Len(below)].todo = Tail(@)]
      <4>1. stack' = [stack EXCEPT ![t] = n] /\ Step(t) /\ s # <<>> /\ Top(t).at = "read"
        BY <2>4, <3>2 DEF Read, Return, Inside
      <4>2. /\ s \in Seq(Frames) /\ Len(s) \in Nat \ {0} /\ WellStacked(s) /\ Len(s) # 1
            /\ stack \in [Threads -> Seq(Frames)] /\ FreshStack(s)
        BY <4>1, TopFacts DEF Shape, Types, Stacked, Once, Fresh
      <4> DEFINE k == Len(s)
      <4>3. /\ k > 1 /\ \A i \in 1 .. k - 1 : s[i].at = "build"
            /\ \A i \in 2 .. k : s[i].at = "build" => s[i].of \notin singletons
        <5>1. /\ \A i \in 1 .. k - 1 : s[i].at = "build"
              /\ \A i \in 2 .. k : s[i].at = "build" => s[i].of \notin singletons
          BY <4>2 DEF WellStacked, FreshStack
        <5>2. k \in Nat \ {0} /\ k # 1
          BY <4>2
        <5> HIDE DEF k
        <5>3. k > 1
          BY <5>2
        <5>4. QED BY <5>1, <5>3 DEF k
      <4>4. Len(n) = k - 1 /\ \A i \in 1 .. k - 1 : n[i].of = s[i].of
        BY <4>2, <4>3, TopReturns
      <4>5. stack'[t] = n /\ \A u \in Threads \ {t} : stack'[u] = stack[u]
        BY <4>1, <4>2
      <4>6. FreshStack(n)
        <5> HIDE DEF n, k, s
        <5>1. \A i \in 2 .. k - 1 : n[i].of \notin singletons
          BY <4>2, <4>3, <4>4 DEF k
        <5>2. QED BY <4>4, <5>1 DEF FreshStack
      <4>7. QED BY <1>2, <4>1, <4>5, <4>6 DEF Step
    <3>3. QED BY <3>1, <3>2
  <2>5. CASE Incomplete(t)
    BY <1>1, <2>5, OnceRaise DEF Incomplete
  <2>6. CASE Controller(t)
    <3>1. stack'[t] = <<>> /\ \A u \in Threads \ {t} : stack'[u] = stack[u]
      BY <2>6 DEF Controller, Shape, Types
    <3>2. FreshStack(stack'[t])
      BY <3>1 DEF FreshStack
    <3>3. QED BY <1>2, <2>6, <3>1, <3>2 DEF Controller
  <2>7. QED BY <1>1, <1>5, <2>1, <2>2, <2>3, <2>4, <2>5, <2>6, OnceCheck, OnceInject, OnceStore
            DEF Resolve
<1>6. ASSUME NEW t \in Threads, Call(t) PROVE Once'
  <2>1. CASE Arrive(t)
    <3>1. PICK f : stack' = [stack EXCEPT ![t] = <<f>>]
      BY <2>1 DEF Arrive
    <3>2. stack'[t] = <<f>> /\ \A u \in Threads \ {t} : stack'[u] = stack[u]
      BY <3>1 DEF Shape, Types
    <3>3. FreshStack(stack'[t])
      BY <3>2 DEF FreshStack
    <3>4. QED BY <1>2, <2>1, <3>2, <3>3 DEF Arrive
  <2>2. CASE Disconnect(t)
    BY <1>3, <2>2 DEF Disconnect
  <2>3. CASE RegisterNothing(t)
    BY <1>1, <2>3, OnceRaise DEF RegisterNothing
  <2>4. QED BY <1>1, <1>6, <2>1, <2>2, <2>3, OnceRegister, OnceReset DEF Call
<1>7. ASSUME NEW t \in Threads, Database(t) PROVE Once'
  <2>1. CASE Unconfigured(t)
    BY <1>1, <2>1, OnceRaise DEF Unconfigured
  <2>2. CASE GetClient(t) \/ Connect(t) \/ Create(t) \/ Hand(t)
    BY <1>3, <2>2 DEF GetClient, Connect, Create, Hand, At
  <2>3. QED BY <1>7, <2>1, <2>2 DEF Database
<1>8. QED BY <1>4, <1>5, <1>6, <1>7 DEF Next

\* However many threads resolve however many contracts, nested as deep as they may be,
\* each is constructed at most once for each time it is registered.
THEOREM BuiltOnce == Spec => []OneInstance
<1>1. Init => Shape /\ Once
  BY ShapeInit, OnceInit
<1>2. Shape /\ Once /\ [Next]_vars => (Shape /\ Once)'
  BY ShapeNext, OnceNext
<1>3. Shape /\ Once => OneInstance
  BY DEF Once, Counted, OneInstance
<1>4. QED BY <1>1, <1>2, <1>3, PTL DEF Spec

-----------------------------------------------------------------------------
(* Nobody stumbles *)

Stumbles == {"not registered", "KeyError", "TypeError"}

\* Where a frame stands says what it has found in the two dictionaries.
Placed(f, F, S) ==
    /\ ~f.short
    /\ f.at \in {"factory", "lock", "check"} => f.of \in F
    /\ f.at = "read" => f.of \in S
PlacedStack(s, F, S) == \A i \in 1 .. Len(s) : Placed(s[i], F, S)

\* Until it is disturbed a thread finds every contract in one of the dictionaries, and
\* what it has found there stays.
Known ==
    \A t \in Threads : t \notin disturbed =>
        /\ Contracts \subseteq factories \cup singletons
        /\ PlacedStack(stack[t], factories, singletons)
        /\ reply[t] \notin Stumbles

\* A step of one thread that takes nothing out of the dictionaries.
LEMMA KnownStep ==
    ASSUME Known, NEW t \in Threads,
           factories \subseteq factories', singletons \subseteq singletons',
           disturbed' = disturbed,
           \A u \in Threads \ {t} : stack'[u] = stack[u] /\ reply'[u] = reply[u],
           t \notin disturbed =>
              PlacedStack(stack'[t], factories', singletons') /\ reply'[t] \notin Stumbles
    PROVE  Known'
<1> SUFFICES ASSUME NEW u \in Threads, u \notin disturbed
             PROVE  /\ Contracts \subseteq factories' \cup singletons'
                    /\ PlacedStack(stack'[u], factories', singletons')
                    /\ reply'[u] \notin Stumbles
  BY DEF Known, Stumbles, PlacedStack, Placed
<1>1. /\ Contracts \subseteq factories \cup singletons
      /\ PlacedStack(stack[u], factories, singletons) /\ reply[u] \notin Stumbles
  BY DEF Known
<1>2. CASE u = t
  BY <1>1, <1>2
<1>3. CASE u # t
  <2>1. PlacedStack(stack[u], factories', singletons')
    BY <1>1 DEF PlacedStack, Placed
  <2>2. QED BY <1>1, <1>3, <2>1
<1>4. QED BY <1>2, <1>3

\* The same for a step within a frame.
LEMMA KnownReplace ==
    ASSUME Shape, Known, NEW t \in Threads, stack[t] # <<>>,
           NEW f \in Frames, f.of = Top(t).of, Deeper(f), Len(stack[t]) = 1 => f.at = "build",
           Replace(t, f), reply' = reply,
           factories \subseteq factories', singletons \subseteq singletons',
           disturbed' = disturbed,
           t \notin disturbed => Placed(f, factories', singletons')
    PROVE  Known'
<1> DEFINE k == Len(stack[t])
<1>1. /\ \A u \in Threads \ {t} : stack'[u] = stack[u]
      /\ Len(stack'[t]) = k /\ stack'[t][k] = f
      /\ \A i \in 1 .. k - 1 : stack'[t][i] = stack[t][i]
  BY ReplaceStep
<1>2. k \in Nat \ {0}
  BY TopFacts
<1>3. ASSUME t \notin disturbed
      PROVE  PlacedStack(stack'[t], factories', singletons') /\ reply'[t] \notin Stumbles
  <2>1. \A i \in 1 .. k : Placed(stack[t][i], factories', singletons')
    BY <1>3 DEF Known, PlacedStack, Placed
  <2>2. Placed(f, factories', singletons') /\ reply[t] \notin Stumbles
    BY <1>3 DEF Known
  <2> HIDE DEF k
  <2>3. \A i \in 1 .. k : Placed(stack'[t][i], factories', singletons')
    <3> TAKE i \in 1 .. k
    <3>1. CASE i = k
      BY <1>1, <2>2, <3>1
    <3>2. CASE i # k
      <4>1. i \in 1 .. k - 1
        BY <1>2, <3>2
      <4>2. QED BY <1>1, <2>1, <4>1
    <3>3. QED BY <3>1, <3>2
  <2>4. QED BY <1>1, <2>2, <2>3 DEF PlacedStack
<1>4. QED BY <1>1, <1>3, KnownStep

\* Known survives a move within a frame that loses nothing.
LEMMA KnownGoto ==
    ASSUME Shape, Known, NEW t \in Threads,
           NEW a \in Steps \ {"build"}, NEW b \in Steps \ {"build"}, Inside(t, a), Goto(t, b),
           reply' = reply, factories' = factories, singletons' = singletons,
           disturbed' = disturbed,
           t \notin disturbed /\ b \in {"factory", "lock", "check"} => Top(t).of \in factories,
           t \notin disturbed /\ b = "read" => Top(t).of \in singletons
    PROVE  Known'
<1> DEFINE f == [Top(t) EXCEPT !.at = b]
<1>1. /\ Len(stack[t]) # 1 /\ f \in Frames /\ f.of = Top(t).of /\ f.at = b
      /\ f.short = Top(t).short /\ Deeper(f) /\ Replace(t, f)
  BY GotoStep
<1>2. stack[t] # <<>>
  BY DEF Inside
<1> HIDE DEF f
<1>3. ASSUME t \notin disturbed PROVE Placed(f, factories', singletons')
  <2>1. PlacedStack(stack[t], factories, singletons) /\ Len(stack[t]) \in Nat \ {0}
    BY <1>2, <1>3, TopFacts DEF Known
  <2>2. ~Top(t).short
    BY <2>1 DEF PlacedStack, Placed, Top
  <2>3. QED BY <1>1, <1>3, <2>2 DEF Placed
<1>4. QED BY <1>1, <1>2, <1>3, KnownReplace

\* Known survives an exception that is not about a missing entry.
LEMMA KnownRaise ==
    ASSUME Shape, Known, NEW t \in Threads, NEW what \in Replies, Raise(t, what),
           t \notin disturbed => what \notin Stumbles
    PROVE  Known'
<1>1. /\ stack'[t] = <<>> /\ reply'[t] = what
      /\ factories' = factories /\ singletons' = singletons /\ disturbed' = disturbed
      /\ \A u \in Threads \ {t} : stack'[u] = stack[u] /\ reply'[u] = reply[u]
  BY DEF Raise, End, Shape, Types
<1>2. PlacedStack(stack'[t], factories', singletons')
  BY <1>1 DEF PlacedStack
<1>3. QED BY <1>1, <1>2, KnownStep

\* Where the top of an undisturbed stack stands.
LEMMA TopPlaced ==
    ASSUME Shape, Known, NEW t \in Threads, t \notin disturbed, stack[t] # <<>>
    PROVE  /\ Placed(Top(t), factories, singletons)
           /\ Contracts \subseteq factories \cup singletons
<1>1. PlacedStack(stack[t], factories, singletons) /\ Len(stack[t]) \in Nat \ {0}
  BY TopFacts DEF Known
<1>2. QED BY <1>1 DEF PlacedStack, Top, Known

\* A frame that is not at its constructor is a contract's.
LEMMA TopContract ==
    ASSUME Shape, NEW t \in Threads, stack[t] # <<>>, Top(t).at # "build"
    PROVE  Top(t).of \in Contracts /\ Len(stack[t]) # 1
<1>1. Len(stack[t]) # 1
  BY TopFacts
<1>2. QED BY <1>1, TopFacts

\* Reading, calling and returning find what an undisturbed thread counts on.
LEMMA KnownResolve ==
    ASSUME Shape, Known, NEW t \in Threads,
           Peek(t) \/ Registered(t) \/ Acquire(t) \/ Read(t) \/ Incomplete(t)
    PROVE  Known'
<1>1. /\ stack[t] # <<>>
      /\ t \notin disturbed => /\ Placed(Top(t), factories, singletons)
                               /\ Contracts \subseteq factories \cup singletons
  BY TopPlaced DEF Peek, Registered, Acquire, Read, Incomplete, Inside
<1>2. CASE Peek(t)
  <2>1. Top(t).of \in Contracts
    BY <1>1, <1>2, TopContract DEF Peek, Inside
  <2>2. t \notin disturbed /\ Top(t).of \notin singletons => Top(t).of \in factories
    BY <1>1, <2>1
  <2>3. CASE Top(t).of \in singletons
    <3>1. Inside(t, "peek") /\ Goto(t, "read") /\ Step(t)
      BY <1>2, <2>3 DEF Peek
    <3>2. QED BY <2>3, <3>1, KnownGoto DEF Step, Steps
  <2>4. CASE Top(t).of \notin singletons
    <3>1. Inside(t, "peek") /\ Goto(t, "factory") /\ Step(t)
      BY <1>2, <2>4 DEF Peek
    <3>2. QED BY <2>2, <2>4, <3>1, KnownGoto DEF Step, Steps
  <2>5. QED BY <2>3, <2>4
<1>3. CASE Registered(t)
  <2>1. t \notin disturbed => Top(t).of \in factories
    BY <1>1, <1>3 DEF Registered, Inside, Placed
  <2>2. CASE Top(t).of \in factories
    BY <1>3, <2>2, KnownGoto DEF Registered, Step, Steps
  <2>3. CASE Top(t).of \notin factories
    BY <1>3, <2>1, <2>3, KnownRaise DEF Registered, Replies
  <2>4. QED BY <2>2, <2>3
<1>4. CASE Acquire(t)
  <2>1. t \notin disturbed => Top(t).of \in factories
    BY <1>1, <1>4 DEF Acquire, Inside, Placed
  <2>2. QED BY <1>4, <2>1, KnownGoto DEF Acquire, Steps
<1>5. CASE Read(t)
  <2>1. t \notin disturbed => Top(t).of \in singletons
    BY <1>1, <1>5 DEF Read, Inside, Placed
  <2>2. CASE Top(t).of \notin singletons
    BY <1>5, <2>1, <2>2, KnownRaise DEF Read, Replies
  <2>3. CASE Top(t).of \in singletons
    <3> DEFINE s == stack[t]
               below == SubSeq(s, 1, Len(s) - 1)
               n == [below EXCEPT ![Len(below)].todo = Tail(@)]
    <3>1. stack' = [stack EXCEPT ![t] = n] /\ Step(t) /\ Top(t).at = "read"
      BY <1>5, <2>3 DEF Read, Return, Inside
    <3>2. /\ s \in Seq(Frames) /\ Len(s) \in Nat \ {0} /\ Len(s) # 1 /\ WellStacked(s)
          /\ stack \in [Threads -> Seq(Frames)]
      BY <1>1, <3>1, TopFacts, TopContract DEF Shape, Types, Stacked
    <3> DEFINE k == Len(s)
    <3>3. k \in Nat \ {0} /\ k # 1
      BY <3>2
    <3>4. k > 1
      <4> HIDE DEF k
      <4>1. QED BY <3>3
    <3>5. /\ n \in Seq(Frames) /\ n # <<>> /\ Len(n) = k - 1 /\ WellStacked(n)
          /\ n[Len(n)].at = "build" /\ \A i \in 1 .. k - 1 : n[i].short = s[i].short
      BY <3>2, <3>4, TopReturns
    <3>6. stack'[t] = n /\ \A u \in Threads \ {t} : stack'[u] = stack[u]
      BY <3>1, <3>2
    <3>7. t \notin disturbed => \A i \in 1 .. k : ~s[i].short
      BY DEF Known, PlacedStack, Placed
    <3> HIDE DEF n, k, s
    <3>8. \A i \in 1 .. k - 1 : n[i].at = "build"
      <4> TAKE i \in 1 .. k - 1
      <4>1. CASE i = k - 1
        BY <3>5, <4>1
      <4>2. CASE i # k - 1
        <5>1. i \in 1 .. Len(n) - 1
          BY <3>3, <3>5, <4>2
        <5>2. QED BY <3>5, <5>1 DEF WellStacked
      <4>3. QED BY <4>1, <4>2
    <3>9. t \notin disturbed => PlacedStack(n, factories, singletons)
      <4>1. t \notin disturbed => \A i \in 1 .. k - 1 : ~n[i].short
        BY <3>3, <3>5, <3>7
      <4>2. QED BY <3>5, <3>8, <4>1 DEF PlacedStack, Placed
    <3>10. t \notin disturbed => reply[t] \notin Stumbles
      BY DEF Known
    <3>11. QED BY <3>1, <3>6, <3>9, <3>10, KnownStep DEF Step
  <2>4. QED BY <2>2, <2>3
<1>6. CASE Incomplete(t)
  <2>1. t \in disturbed
    BY <1>1, <1>6 DEF Incomplete, Placed
  <2>2. QED BY <1>6, <2>1, KnownRaise DEF Incomplete, Replies
<1>7. QED BY <1>2, <1>3, <1>4, <1>5, <1>6

\* Under the lock there is an instance, or the factory seen before.
LEMMA KnownCheck == ASSUME Shape, Known, NEW t \in Threads, Check(t) PROVE Known'
<1>1. /\ stack[t] # <<>> /\ Inside(t, "check") /\ Top(t).at = "check"
      /\ t \notin disturbed => Placed(Top(t), factories, singletons)
  BY TopPlaced DEF Check, Inside
<1>2. Top(t).of \in Contracts /\ Len(stack[t]) # 1
  BY <1>1, TopContract
<1>3. CASE Top(t).of \in singletons
  BY <1>3, KnownGoto DEF Check, Steps
<1>4. CASE Top(t).of \notin singletons /\ Top(t).of \in factories
  <2> DEFINE f == Frame(Top(t).of, "build", Needs[Top(t).of])
  <2>1. Replace(t, f) /\ Step(t)
    BY <1>4 DEF Check
  <2>2. f \in Frames /\ f.of = Top(t).of /\ f.at = "build" /\ ~f.short /\ Deeper(f)
    BY <1>2, BuildFrame
  <2> HIDE DEF f
  <2>3. Placed(f, factories, singletons)
    BY <2>2 DEF Placed
  <2>4. QED BY <1>1, <1>2, <2>1, <2>2, <2>3, KnownReplace DEF Step
<1>5. CASE Top(t).of \notin singletons \cup factories
  <2>1. t \in disturbed
    BY <1>1, <1>5 DEF Placed
  <2>2. QED BY <1>5, <2>1, KnownRaise DEF Check, Replies
<1>6. QED BY <1>3, <1>4, <1>5

\* No parameter is passed over: every contract is known.
LEMMA KnownInject == ASSUME Shape, Known, NEW t \in Threads, Inject(t) PROVE Known'
<1> DEFINE s == stack[t]
           c == Head(Top(t).todo)
           n == Append(s, Frame(c, "peek", <<>>))
           f == [Top(t) EXCEPT !.todo = Tail(@), !.short = TRUE]
<1>1. /\ s # <<>> /\ Top(t).at = "build" /\ Top(t).todo # <<>> /\ Step(t)
      /\ Has(c) => stack' = [stack EXCEPT ![t] = n]
      /\ ~Has(c) => Replace(t, f)
  BY DEF Inject, Inside, Push
<1>2. /\ s \in Seq(Frames) /\ Len(s) \in Nat \ {0} /\ WellStacked(s) /\ Top(t) \in Frames
      /\ stack \in [Threads -> Seq(Frames)]
  BY <1>1, TopFacts DEF Shape, Types, Stacked
<1>3. /\ c \in Contracts /\ Len(n) = Len(s) + 1 /\ n[Len(n)] = Frame(c, "peek", <<>>)
      /\ \A i \in 1 .. Len(s) : n[i] = s[i]
  BY <1>1, <1>2, TopCalls DEF Top
<1>4. \A u \in Threads \ {t} : stack'[u] = stack[u]
  BY <1>1, <1>2 DEF Replace
<1>5. ASSUME t \notin disturbed
      PROVE  PlacedStack(stack'[t], factories, singletons) /\ reply[t] \notin Stumbles
  <2>1. /\ Contracts \subseteq factories \cup singletons
        /\ PlacedStack(s, factories, singletons) /\ reply[t] \notin Stumbles
    BY <1>5 DEF Known
  <2>2. Has(c)
    BY <1>3, <2>1 DEF Has
  <2>3. stack'[t] = n
    BY <1>1, <1>2, <2>2
  <2> HIDE DEF n
  <2>4. Placed(n[Len(n)], factories, singletons)
    BY <1>3 DEF Placed, Frame
  <2> DEFINE k == Len(s)
  <2>5. \A i \in 1 .. k : Placed(n[i], factories, singletons)
    BY <1>3, <2>1 DEF PlacedStack
  <2>6. k \in Nat /\ Len(n) = k + 1
    BY <1>2, <1>3
  <2> HIDE DEF k, s
  <2>7. PlacedStack(n, factories, singletons)
    <3> SUFFICES ASSUME NEW i \in 1 .. k + 1 PROVE Placed(n[i], factories, singletons)
      BY <2>6 DEF PlacedStack
    <3>1. CASE i = k + 1
      BY <2>4, <2>6, <3>1
    <3>2. CASE i # k + 1
      BY <2>5, <2>6, <3>2
    <3>3. QED BY <3>1, <3>2
  <2>8. QED BY <2>1, <2>3, <2>7
<1>6. QED BY <1>1, <1>4, <1>5, KnownStep DEF Step

\* A stored instance keeps its factory.
LEMMA KnownStore == ASSUME Shape, Known, NEW t \in Threads, Store(t) PROVE Known'
<1> DEFINE f == [Top(t) EXCEPT !.at = "read"]
<1>1. /\ stack[t] # <<>> /\ Top(t).of # Request /\ ~Top(t).short /\ Replace(t, f)
      /\ singletons' = singletons \cup {Top(t).of} /\ factories' = factories
      /\ disturbed' = disturbed /\ reply' = reply
  BY DEF Store, Inside, Goto
<1>2. Top(t) \in Frames /\ Deeper(Top(t)) /\ (Len(stack[t]) = 1 => Top(t).of = Request)
  BY <1>1, TopFacts
<1>3. /\ f \in Frames /\ f.of = Top(t).of /\ f.at = "read" /\ f.todo = Top(t).todo
      /\ f.short = Top(t).short
  BY <1>2 DEF Frames, Steps
<1>4. Deeper(f)
  BY <1>2, <1>3 DEF Deeper
<1>5. Placed(f, factories', singletons')
  BY <1>1, <1>3 DEF Placed
<1> HIDE DEF f
<1>6. Len(stack[t]) # 1
  BY <1>1, <1>2
<1>7. QED BY <1>1, <1>3, <1>4, <1>5, <1>6, KnownReplace

\* Whoever runs while a contract is registered is disturbed, and nobody else has looked.
LEMMA KnownRegister == ASSUME Shape, Known, NEW t \in Threads, Register(t) PROVE Known'
<1>1. /\ stack' = stack /\ reply' = [reply EXCEPT ![t] = "ok"]
      /\ disturbed' = disturbed \cup Running
  BY DEF Register, End
<1>2. factories \cup singletons \subseteq factories' \cup singletons'
  <2>1. PICK r \in Calls :
          \/ singletons' = singletons \cup {r.contract} /\ factories' = factories \ {r.contract}
          \/ singletons' = singletons \ {r.contract} /\ factories' = factories \cup {r.contract}
    BY DEF Register
  <2>2. QED BY <2>1
<1> SUFFICES ASSUME NEW u \in Threads, u \notin disturbed'
             PROVE  /\ Contracts \subseteq factories' \cup singletons'
                    /\ PlacedStack(stack'[u], factories', singletons')
                    /\ reply'[u] \notin Stumbles
  BY DEF Known, Stumbles, PlacedStack, Placed
<1>3. u \notin disturbed /\ pc[u] # "resolving"
  BY <1>1 DEF Running
<1>4. stack[u] = <<>>
  BY <1>3, NotResolving
<1>5. PlacedStack(stack'[u], factories', singletons')
  BY <1>1, <1>4 DEF PlacedStack
<1>6. reply'[u] \notin Stumbles
  BY <1>1, <1>3 DEF Known, Stumbles, Shape, Types
<1>7. Contracts \subseteq factories' \cup singletons'
  BY <1>2, <1>3 DEF Known
<1>8. QED BY <1>5, <1>6, <1>7

\* Known is inductive, given Shape.
LEMMA KnownNext == Shape /\ Known /\ [Next]_vars => Known'
<1> SUFFICES ASSUME Shape, Known, [Next]_vars PROVE Known'
  OBVIOUS
<1>1. ASSUME NEW t \in Threads, factories' = factories, singletons' = singletons,
             disturbed' = disturbed, stack' = stack,
             \A u \in Threads \ {t} : reply'[u] = reply[u],
             reply'[t] \in {reply[t], "ok", "no client"}
      PROVE  Known'
  <2>1. t \notin disturbed => PlacedStack(stack[t], factories, singletons) /\ reply[t] \notin Stumbles
    BY DEF Known
  <2>2. QED BY <1>1, <2>1, KnownStep DEF Stumbles
<1>2. CASE UNCHANGED vars
  BY <1>2 DEF vars, Known, PlacedStack, Placed, Stumbles
<1>3. ASSUME NEW t \in Threads, Resolve(t) PROVE Known'
  <2>1. CASE Controller(t)
    <3>1. /\ stack'[t] = <<>> /\ \A u \in Threads \ {t} : stack'[u] = stack[u]
          /\ factories' = factories /\ singletons' = singletons /\ disturbed' = disturbed
          /\ reply' = reply
      BY <2>1 DEF Controller, Shape, Types
    <3>2. PlacedStack(stack'[t], factories', singletons')
      BY <3>1 DEF PlacedStack
    <3>3. t \notin disturbed => reply[t] \notin Stumbles
      BY DEF Known
    <3>4. QED BY <3>1, <3>2, <3>3, KnownStep
  <2>2. QED BY <1>3, <2>1, KnownResolve, KnownCheck, KnownInject, KnownStore DEF Resolve
<1>4. ASSUME NEW t \in Threads, Call(t) PROVE Known'
  <2>1. CASE Arrive(t)
    <3>1. PICK w : stack' = [stack EXCEPT ![t] = <<Frame(Request, "build", w)>>]
      BY <2>1 DEF Arrive
    <3>2. /\ stack'[t] = <<Frame(Request, "build", w)>>
          /\ \A u \in Threads \ {t} : stack'[u] = stack[u]
          /\ factories' = factories /\ singletons' = singletons /\ disturbed' = disturbed
          /\ reply' = reply
      BY <2>1, <3>1 DEF Arrive, Shape, Types
    <3>3. PlacedStack(stack'[t], factories', singletons')
      BY <3>2 DEF PlacedStack, Placed, Frame
    <3>4. t \notin disturbed => reply[t] \notin Stumbles
      BY DEF Known
    <3>5. QED BY <3>2, <3>3, <3>4, KnownStep
  <2>2. CASE Disconnect(t)
    BY <1>1, <2>2 DEF Disconnect, End, Shape, Types
  <2>3. CASE RegisterNothing(t)
    BY <2>3, KnownRaise DEF RegisterNothing, Replies, Stumbles
  <2>4. CASE Reset(t)
    BY <2>4 DEF Reset, Known
  <2>5. QED BY <1>4, <2>1, <2>2, <2>3, <2>4, KnownRegister DEF Call
<1>5. ASSUME NEW t \in Threads, Database(t) PROVE Known'
  <2>1. CASE Unconfigured(t)
    BY <2>1, KnownRaise DEF Unconfigured, Replies, Stumbles
  <2>2. CASE GetClient(t) \/ Connect(t) \/ Create(t)
    BY <1>1, <2>2 DEF GetClient, Connect, Create, At
  <2>3. CASE Hand(t)
    BY <1>1, <2>3 DEF Hand, End, Shape, Types
  <2>4. QED BY <1>5, <2>1, <2>2, <2>3 DEF Database
<1>6. QED BY <1>2, <1>3, <1>4, <1>5 DEF Next

\* A request that overlaps no registration and comes after no reset finds every contract
\* it needs, however far others have got with constructing them.
THEOREM NobodyStumbles == Spec => []RaisedOnlyIfDisturbed
<1>1. Init => Shape /\ Known
  BY ShapeInit DEF Init, Boot, Known, PlacedStack, Stumbles
<1>2. Shape /\ Known /\ [Next]_vars => (Shape /\ Known)'
  BY ShapeNext, KnownNext
<1>3. Shape /\ Known => RaisedOnlyIfDisturbed
  BY DEF Known, Stumbles, RaisedOnlyIfDisturbed
<1>4. QED BY <1>1, <1>2, <1>3, PTL DEF Spec

-----------------------------------------------------------------------------
(* The client *)

\* Whoever is about to be handed the client has seen, or made, one since the last
\* disconnect it knows nothing of.
ClientHeld ==
    \A t \in Threads : t \notin cut =>
        /\ pc[t] = "hand" => client
        /\ reply[t] # "no client"

\* ClientHeld is inductive, given Shape.
LEMMA ClientNext == Shape /\ ClientHeld /\ [Next]_vars => ClientHeld'
<1> SUFFICES ASSUME Shape, ClientHeld, [Next]_vars PROVE ClientHeld'
  OBVIOUS
<1>1. pc \in [Threads -> Places] /\ reply \in [Threads -> Replies]
  BY DEF Shape, Types
<1>2. ASSUME client' = client, cut' = cut, NEW t \in Threads, NEW p \in Places \ {"hand"},
             NEW r \in Replies \ {"no client"},
             pc' = [pc EXCEPT ![t] = p] \/ pc' = pc,
             reply' = [reply EXCEPT ![t] = r] \/ reply' = reply
      PROVE  ClientHeld'
  BY <1>1, <1>2 DEF ClientHeld
<1>3. CASE UNCHANGED vars
  BY <1>3 DEF vars, ClientHeld
<1>4. ASSUME NEW t \in Threads, NEW what \in Replies \ {"no client"}, Raise(t, what)
      PROVE  ClientHeld'
  BY <1>2, <1>4 DEF Raise, End, Places
<1>5. ASSUME NEW t \in Threads, Resolve(t) PROVE ClientHeld'
  <2>1. ASSUME Step(t) PROVE ClientHeld'
    BY <1>3, <2>1 DEF Step, ClientHeld
  <2>2. CASE Peek(t) \/ Inject(t)
    BY <2>1, <2>2 DEF Peek, Inject
  <2>3. CASE Registered(t) \/ Check(t) \/ Incomplete(t) \/ Read(t)
    <3>1. \/ Step(t)
          \/ \E what \in {"not registered", "KeyError", "TypeError"} : Raise(t, what)
          \/ pc' = pc /\ reply' = reply /\ client' = client /\ cut' = cut
      BY <2>3 DEF Registered, Check, Incomplete, Read
    <3>2. CASE \E what \in {"not registered", "KeyError", "TypeError"} : Raise(t, what)
      BY <1>4, <3>2 DEF Replies
    <3>3. CASE pc' = pc /\ reply' = reply /\ client' = client /\ cut' = cut
      BY <3>3 DEF ClientHeld
    <3>4. QED BY <2>1, <3>1, <3>2, <3>3
  <2>4. CASE Acquire(t) \/ Store(t)
    <3>1. pc' = pc /\ reply' = reply /\ client' = client /\ cut' = cut
      BY <2>4 DEF Acquire, Store
    <3>2. QED BY <3>1 DEF ClientHeld
  <2>5. CASE Controller(t)
    BY <1>1, <2>5 DEF Controller, ClientHeld
  <2>6. QED BY <1>5, <2>2, <2>3, <2>4, <2>5 DEF Resolve
<1>6. ASSUME NEW t \in Threads, Call(t) PROVE ClientHeld'
  <2>1. CASE Arrive(t)
    BY <1>1, <2>1 DEF Arrive, ClientHeld
  <2>2. CASE Register(t) \/ Reset(t)
    <3>1. /\ pc' = [pc EXCEPT ![t] = "done"] /\ reply' = [reply EXCEPT ![t] = "ok"]
          /\ client' = client /\ cut' = cut
      BY <2>2 DEF Register, Reset, End
    <3>2. QED BY <1>2, <3>1 DEF Places, Replies
  <2>3. CASE RegisterNothing(t)
    BY <1>4, <2>3 DEF RegisterNothing, Replies
  <2>4. CASE Disconnect(t)
    BY <1>1, <2>4 DEF Disconnect, End, Running, ClientHeld
  <2>5. QED BY <1>6, <2>1, <2>2, <2>3, <2>4 DEF Call
<1>7. ASSUME NEW t \in Threads, Database(t) PROVE ClientHeld'
  <2>1. CASE GetClient(t)
    BY <1>1, <2>1 DEF GetClient, At, ClientHeld
  <2>2. CASE Connect(t)
    BY <1>1, <2>2 DEF Connect, At, ClientHeld
  <2>3. CASE Create(t)
    BY <1>1, <2>3 DEF Create, At, ClientHeld
  <2>4. CASE Unconfigured(t)
    BY <1>4, <2>4 DEF Unconfigured, Replies
  <2>5. CASE Hand(t)
    BY <1>1, <2>5 DEF Hand, End, ClientHeld
  <2>6. QED BY <1>7, <2>1, <2>2, <2>3, <2>4, <2>5 DEF Database
<1>8. QED BY <1>3, <1>5, <1>6, <1>7 DEF Next

\* Unless somebody disconnects while it runs, a request that gets past connect is handed
\* a client, whoever connects beside it.
THEOREM ClientHandedOut == Spec => []ClientKept
<1>1. Init => Shape /\ ClientHeld
  BY ShapeInit DEF Init, ClientHeld
<1>2. Shape /\ ClientHeld /\ [Next]_vars => (Shape /\ ClientHeld)'
  BY ShapeNext, ClientNext
<1>3. Shape /\ ClientHeld => ClientKept
  BY DEF ClientHeld, ClientKept
<1>4. QED BY <1>1, <1>2, <1>3, PTL DEF Spec
=============================================================================
