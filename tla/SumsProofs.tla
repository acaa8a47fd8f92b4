----------------------------- MODULE SumsProofs -----------------------------
(* What sums over a finite set do, for any set and any whole numbers. *)
EXTENDS Sums, FiniteSetTheorems, WellFoundedInduction, TLAPS

-----------------------------------------------------------------------------
(* Points *)

\* The numbers up to n are n numbers, or none.
LEMMA UpTo ==
    ASSUME NEW n \in Int
    PROVE  IsFiniteSet(1 .. n) /\ Cardinality(1 .. n) = IF n > 0 THEN n ELSE 0
<1>1. 1 \in Int
  OBVIOUS
<1>2. /\ IsFiniteSet(1 .. n)
      /\ Cardinality(1 .. n) = IF 1 > n THEN 0 ELSE n - 1 + 1
  BY <1>1, FS_Interval, Zenon
<1>3. QED BY <1>2

\* One element has as many points as its number says.
LEMMA PointsOfOne ==
    ASSUME NEW i, NEW n \in Int
    PROVE  /\ IsFiniteSet({i} \X (1 .. n))
           /\ Cardinality({i} \X (1 .. n)) = IF n > 0 THEN n ELSE 0
<1>1. IsFiniteSet({i}) /\ Cardinality({i}) = 1
  BY FS_Singleton
<1>2. IsFiniteSet(1 .. n) /\ Cardinality(1 .. n) = IF n > 0 THEN n ELSE 0
  BY UpTo
<1>3. /\ IsFiniteSet({i} \X (1 .. n))
      /\ Cardinality({i} \X (1 .. n)) = Cardinality({i}) * Cardinality(1 .. n)
  BY <1>1, <1>2, FS_Product
<1>4. QED BY <1>1, <1>2, <1>3

\* Finitely many elements have finitely many points.
LEMMA AboveFinite ==
    ASSUME NEW S, IsFiniteSet(S), NEW f, \A i \in S : f[i] \in Int
    PROVE  IsFiniteSet(Above(S, f))
<1> DEFINE g == [i \in S |-> {i} \X (1 .. f[i])]
           T == {{i} \X (1 .. f[i]) : i \in S}
<1>1. g \in Surjection(S, T)
  BY DEF Surjection
<1>2. IsFiniteSet(T)
  BY <1>1, FS_Surjection
<1>3. \A X \in T : IsFiniteSet(X)
  BY PointsOfOne
<1>4. IsFiniteSet(UNION T)
  BY <1>2, <1>3, FS_UNION
<1>5. QED BY <1>4 DEF Above

\* An element beside the others adds its own points.
LEMMA AboveOne ==
    ASSUME NEW S, IsFiniteSet(S), NEW f, NEW x, x \notin S,
           \A i \in S \cup {x} : f[i] \in Int
    PROVE  Cardinality(Above(S \cup {x}, f))
             = Cardinality(Above(S, f)) + (IF f[x] > 0 THEN f[x] ELSE 0)
<1> DEFINE old == Above(S, f)
           new == {x} \X (1 .. f[x])
           both == old \cap new
<1>1. Above(S \cup {x}, f) = old \cup new
  BY DEF Above
<1>2. IsFiniteSet(old) /\ IsFiniteSet(new)
  BY AboveFinite, PointsOfOne
<1>3. Cardinality(new) = IF f[x] > 0 THEN f[x] ELSE 0
  BY PointsOfOne
<1>4. both = {}
  BY DEF Above
<1>5. Cardinality(both) = 0
  BY <1>4, FS_EmptySet
<1>6. Cardinality(old) \in Nat /\ Cardinality(new) \in Nat
  BY <1>2, FS_CardinalityType
<1>7. Cardinality(old \cup new) = Cardinality(old) + Cardinality(new) - Cardinality(both)
  BY <1>2, FS_Union, Zenon
<1>8. f[x] \in Int
  OBVIOUS
<1> HIDE DEF old, new, both
<1>9. Cardinality(old \cup new) = Cardinality(old) + (IF f[x] > 0 THEN f[x] ELSE 0)
  BY <1>3, <1>5, <1>6, <1>7, <1>8
<1>10. QED BY <1>1, <1>9 DEF old

\* What lies below f lies above its opposite.
LEMMA BelowAbove ==
    ASSUME NEW S, NEW f
    PROVE  Below(S, f) = Above(S, [i \in S |-> -f[i]])
<1>1. \A i \in S : [j \in S |-> -f[j]][i] = -f[i]
  OBVIOUS
<1>2. QED BY <1>1 DEF Below, Above

\* Numbers that agree have the same points.
LEMMA AboveSame ==
    ASSUME NEW S, NEW f, NEW g, \A i \in S : f[i] = g[i]
    PROVE  Above(S, f) = Above(S, g) /\ Below(S, f) = Below(S, g)
  BY DEF Above, Below

-----------------------------------------------------------------------------
(* Sums *)

\* Only the numbers of the elements count.
LEMMA SumSame ==
    ASSUME NEW S, NEW f, NEW g, \A i \in S : f[i] = g[i]
    PROVE  SumOver(S, f) = SumOver(S, g)
  BY AboveSame DEF SumOver

\* The points of a finite set are finite in number, above and below.
LEMMA Counts ==
    ASSUME NEW S, IsFiniteSet(S), NEW f, \A i \in S : f[i] \in Int
    PROVE  /\ IsFiniteSet(Above(S, f)) /\ IsFiniteSet(Below(S, f))
           /\ Cardinality(Above(S, f)) \in Nat /\ Cardinality(Below(S, f)) \in Nat
<1> DEFINE g == [i \in S |-> -f[i]]
<1>1. \A i \in S : g[i] \in Int
  OBVIOUS
<1>2. Below(S, f) = Above(S, g)
  BY BelowAbove
<1> HIDE DEF g
<1>3. IsFiniteSet(Above(S, f)) /\ IsFiniteSet(Below(S, f))
  BY <1>1, <1>2, AboveFinite
<1>4. QED BY <1>3, FS_CardinalityType

\* A sum of whole numbers is one.
LEMMA SumType ==
    ASSUME NEW S, IsFiniteSet(S), NEW f, \A i \in S : f[i] \in Int
    PROVE  SumOver(S, f) \in Int
  BY Counts DEF SumOver

\* Nothing adds up to nothing.
LEMMA SumEmpty == ASSUME NEW f PROVE SumOver({}, f) = 0
<1>1. Above({}, f) = {} /\ Below({}, f) = {}
  BY DEF Above, Below
<1>2. QED BY <1>1, FS_EmptySet DEF SumOver

\* Nothing but zeros adds up to nothing.
LEMMA SumZeros ==
    ASSUME NEW S, NEW f, \A i \in S : f[i] = 0
    PROVE  SumOver(S, f) = 0
<1>1. \A i \in S : 1 .. f[i] = {} /\ 1 .. -f[i] = {}
  OBVIOUS
<1>2. Above(S, f) = {} /\ Below(S, f) = {}
  BY <1>1 DEF Above, Below
<1>3. QED BY <1>2, FS_EmptySet DEF SumOver

\* What is never negative does not add up to less than nothing.
LEMMA SumNat ==
    ASSUME NEW S, IsFiniteSet(S), NEW f, \A i \in S : f[i] \in Nat
    PROVE  SumOver(S, f) \in Nat
<1>1. \A i \in S : 1 .. -f[i] = {}
  OBVIOUS
<1>2. Below(S, f) = {}
  BY <1>1 DEF Below
<1>3. Cardinality(Below(S, f)) = 0
  BY <1>2, FS_EmptySet
<1>4. Cardinality(Above(S, f)) \in Nat
  BY Counts
<1>5. QED BY <1>3, <1>4 DEF SumOver

\* An element beside the others adds its number.
LEMMA SumAdd ==
    ASSUME NEW S, IsFiniteSet(S), NEW f, NEW x, x \notin S,
           \A i \in S \cup {x} : f[i] \in Int
    PROVE  SumOver(S \cup {x}, f) = SumOver(S, f) + f[x]
<1> DEFINE T == S \cup {x}
           g == [i \in T |-> -f[i]]
           h == [i \in S |-> -f[i]]
<1>1. Cardinality(Above(T, f)) = Cardinality(Above(S, f)) + (IF f[x] > 0 THEN f[x] ELSE 0)
  BY AboveOne
<1>2. \A i \in T : g[i] \in Int
  OBVIOUS
<1>3. \A i \in S : g[i] = h[i]
  OBVIOUS
<1>4. Below(T, f) = Above(T, g) /\ Below(S, f) = Above(S, h)
  BY BelowAbove
<1>5. g[x] = -f[x] /\ f[x] \in Int
  OBVIOUS
<1> HIDE DEF g, h
<1>6. Above(S, h) = Above(S, g)
  BY <1>3, AboveSame
<1>7. Cardinality(Above(T, g)) = Cardinality(Above(S, g)) + (IF g[x] > 0 THEN g[x] ELSE 0)
  BY <1>2, AboveOne
<1>8. /\ Cardinality(Above(S, f)) \in Nat /\ Cardinality(Below(S, f)) \in Nat
  BY Counts
<1> HIDE DEF T
<1>9. SumOver(T, f) = SumOver(S, f) + f[x]
  BY <1>1, <1>4, <1>5, <1>6, <1>7, <1>8 DEF SumOver
<1>10. QED BY <1>9 DEF T

\* An element taken out takes its number off.
LEMMA SumDrop ==
    ASSUME NEW S, IsFiniteSet(S), NEW f, NEW x \in S, \A i \in S : f[i] \in Int
    PROVE  SumOver(S \ {x}, f) = SumOver(S, f) - f[x]
<1> DEFINE R == S \ {x}
<1>1. IsFiniteSet(R) /\ x \notin R /\ S = R \cup {x} /\ R \subseteq S
  BY FS_RemoveElement
<1> HIDE DEF R
<1>2. SumOver(R \cup {x}, f) = SumOver(R, f) + f[x]
  BY <1>1, SumAdd
<1>3. SumOver(R, f) \in Int
  BY <1>1, SumType
<1>4. SumOver(R, f) = SumOver(S, f) - f[x]
  BY <1>1, <1>2, <1>3
<1>5. QED BY <1>4 DEF R

\* When one number changes, the sum changes by as much.
LEMMA SumChange ==
    ASSUME NEW S, IsFiniteSet(S), NEW f, NEW g, NEW x \in S,
           \A i \in S : f[i] \in Int, g[x] \in Int, \A i \in S \ {x} : g[i] = f[i]
    PROVE  SumOver(S, g) = SumOver(S, f) + g[x] - f[x]
<1>1. SumOver(S \ {x}, f) = SumOver(S, f) - f[x]
  BY SumDrop
<1>2. \A i \in S : g[i] \in Int
  OBVIOUS
<1>3. SumOver(S \ {x}, g) = SumOver(S, g) - g[x]
  BY <1>2, SumDrop
<1>4. SumOver(S \ {x}, f) = SumOver(S \ {x}, g)
  BY SumSame
<1>5. SumOver(S, f) \in Int /\ SumOver(S, g) \in Int
  BY <1>2, SumType
<1>6. QED BY <1>1, <1>3, <1>4, <1>5

-----------------------------------------------------------------------------
(* Sums of parts *)

\* Sets of elements of a finite set that can be built one by one are all there: the
\* smallest one missing would have one element less among the others.
LEMMA OneByOne ==
    ASSUME NEW S, IsFiniteSet(S), NEW P, {} \in P,
           \A T \in SUBSET S : \A x \in S \ T : T \in P => T \cup {x} \in P
    PROVE  S \in P
<1> DEFINE Missing == {T \in SUBSET S : T \notin P}
           Sizes == {Cardinality(T) : T \in Missing}
<1>1. SUFFICES ASSUME S \notin P PROVE FALSE
  OBVIOUS
<1>2. \A T \in SUBSET S : IsFiniteSet(T) /\ Cardinality(T) \in Nat
  BY FS_Subset, FS_CardinalityType
<1>3. Sizes \subseteq Nat /\ Sizes # {}
  BY <1>1, <1>2
<1> HIDE DEF Sizes
<1>4. PICK m \in Sizes : \A k \in Sizes : <<k, m>> \notin OpToRel(<, Nat)
  BY <1>3, NatLessThanWellFounded, WFMin
<1>5. PICK T \in Missing : m = Cardinality(T)
  BY DEF Sizes
<1>6. PICK x \in T : TRUE
  OBVIOUS
<1> DEFINE R == T \ {x}
<1>7. R \in SUBSET S /\ x \in S \ R /\ T = R \cup {x}
  BY <1>5
<1>8. Cardinality(R) = m - 1 /\ m \in Nat /\ Cardinality(R) \in Nat
  BY <1>2, <1>5, <1>6, <1>7, FS_RemoveElement
<1>9. R \in P
  <2>1. SUFFICES ASSUME R \notin P PROVE FALSE
    OBVIOUS
  <2>2. Cardinality(R) \in Sizes
    BY <1>7, <2>1 DEF Sizes
  <2>3. <<Cardinality(R), m>> \in OpToRel(<, Nat)
    BY <1>8 DEF OpToRel
  <2>4. QED BY <1>4, <2>2, <2>3
<1>10. QED BY <1>5, <1>7, <1>9

\* The sum over two sets that share nothing is the sum of theirs.
LEMMA SumUnion ==
    ASSUME NEW S, NEW T, IsFiniteSet(S), IsFiniteSet(T), S \cap T = {}, NEW f,
           \A i \in S \cup T : f[i] \in Int
    PROVE  SumOver(S \cup T, f) = SumOver(S, f) + SumOver(T, f)
<1>1. /\ Above(S \cup T, f) = Above(S, f) \cup Above(T, f)
      /\ Below(S \cup T, f) = Below(S, f) \cup Below(T, f)
  BY DEF Above, Below
<1>2. Above(S, f) \cap Above(T, f) = {} /\ Below(S, f) \cap Below(T, f) = {}
  BY DEF Above, Below
<1>3. /\ IsFiniteSet(Above(S, f)) /\ IsFiniteSet(Below(S, f))
      /\ IsFiniteSet(Above(T, f)) /\ IsFiniteSet(Below(T, f))
      /\ Cardinality(Above(S, f)) \in Nat /\ Cardinality(Below(S, f)) \in Nat
      /\ Cardinality(Above(T, f)) \in Nat /\ Cardinality(Below(T, f)) \in Nat
  BY Counts
<1>4. ASSUME NEW A, NEW B, IsFiniteSet(A), IsFiniteSet(B), A \cap B = {}
      PROVE  Cardinality(A \cup B) = Cardinality(A) + Cardinality(B)
  <2>1. Cardinality(A \cap B) = 0 /\ Cardinality(A) \in Nat /\ Cardinality(B) \in Nat
    BY <1>4, FS_EmptySet, FS_CardinalityType
  <2>2. Cardinality(A \cup B) = Cardinality(A) + Cardinality(B) - Cardinality(A \cap B)
    BY <1>4, FS_Union
  <2>3. QED BY <2>1, <2>2
<1>5. /\ Cardinality(Above(S \cup T, f)) = Cardinality(Above(S, f)) + Cardinality(Above(T, f))
      /\ Cardinality(Below(S \cup T, f)) = Cardinality(Below(S, f)) + Cardinality(Below(T, f))
  BY <1>1, <1>2, <1>3, <1>4
<1>6. QED BY <1>3, <1>5 DEF SumOver

\* Elements that add nothing may be left out, though there are infinitely many.
LEMMA SumSupport ==
    ASSUME NEW S, NEW T, S \subseteq T, NEW f, \A i \in T \ S : f[i] = 0
    PROVE  SumOver(T, f) = SumOver(S, f)
<1>1. \A i \in T \ S : 1 .. f[i] = {} /\ 1 .. -f[i] = {}
  OBVIOUS
<1>2. Above(T, f) = Above(S, f) /\ Below(T, f) = Below(S, f)
  BY <1>1 DEF Above, Below
<1>3. QED BY <1>2 DEF SumOver

\* The sum over a part, and over the part with one more element.
LEMMA SumInto ==
    ASSUME NEW S, IsFiniteSet(S), NEW f, \A i \in S : f[i] \in Int,
           NEW T \in SUBSET S, NEW x \in S \ T
    PROVE  /\ SumOver(T, f) \in Int /\ f[x] \in Int
           /\ SumOver(T \cup {x}, f) = SumOver(T, f) + f[x]
<1>1. IsFiniteSet(T) /\ x \notin T
  BY FS_Subset
<1>2. \A i \in T \cup {x} : f[i] \in Int
  OBVIOUS
<1>3. QED BY ONLY <1>1, <1>2, SumAdd, SumType

\* The sum of two amounts each is the sum of their sums.
LEMMA SumPlus ==
    ASSUME NEW S, IsFiniteSet(S), NEW f, NEW g, NEW h,
           \A i \in S : f[i] \in Int /\ g[i] \in Int /\ h[i] = f[i] + g[i]
    PROVE  SumOver(S, h) = SumOver(S, f) + SumOver(S, g)
<1> DEFINE P == {T \in SUBSET S : SumOver(T, h) = SumOver(T, f) + SumOver(T, g)}
<1>1. {} \in P
  BY SumEmpty
<1> HIDE DEF P
<1>2. ASSUME NEW T \in SUBSET S, NEW x \in S \ T, T \in P PROVE T \cup {x} \in P
  <2>0. IsFiniteSet(S) /\ T \in SUBSET S /\ x \in S \ T
    OBVIOUS
  <2>1. /\ SumOver(T \cup {x}, f) = SumOver(T, f) + f[x]
        /\ SumOver(T, f) \in Int /\ f[x] \in Int
    <3>1. \A i \in S : f[i] \in Int
      OBVIOUS
    <3>2. QED BY ONLY <2>0, <3>1, SumInto
  <2>2. /\ SumOver(T \cup {x}, g) = SumOver(T, g) + g[x]
        /\ SumOver(T, g) \in Int /\ g[x] \in Int
    <3>1. \A i \in S : g[i] \in Int
      OBVIOUS
    <3>2. QED BY ONLY <2>0, <3>1, SumInto
  <2>3. h[x] = f[x] + g[x]
    OBVIOUS
  <2>4. SumOver(T \cup {x}, h) = SumOver(T, h) + h[x]
    <3>1. \A i \in S : h[i] \in Int
      OBVIOUS
    <3>2. QED BY ONLY <2>0, <3>1, SumInto
  <2>5. SumOver(T, h) = SumOver(T, f) + SumOver(T, g)
    BY <1>2 DEF P
  <2>6. SumOver(T \cup {x}, h) = SumOver(T \cup {x}, f) + SumOver(T \cup {x}, g)
    BY ONLY <2>1, <2>2, <2>3, <2>4, <2>5
  <2>7. QED BY <2>6 DEF P
<1>3. S \in P
  BY <1>1, <1>2, OneByOne
<1>4. QED BY <1>3 DEF P

\* A sum over the images of elements that have one each is a sum over the elements.
LEMMA SumImage ==
    ASSUME NEW S, IsFiniteSet(S), NEW F, NEW f, NEW g,
           \A i, j \in S : F[i] = F[j] => i = j,
           \A i \in S : f[i] \in Int /\ g[F[i]] = f[i]
    PROVE  SumOver({F[i] : i \in S}, g) = SumOver(S, f)
<1> DEFINE image(T) == {F[i] : i \in T}
           P == {T \in SUBSET S : IsFiniteSet(image(T)) /\ SumOver(image(T), g) = SumOver(T, f)}
<1>1. {} \in P
  <2>1. image({}) = {}
    OBVIOUS
  <2>2. QED BY <2>1, SumEmpty, FS_EmptySet
<1> HIDE DEF P
<1>2. ASSUME NEW T \in SUBSET S, NEW x \in S \ T, T \in P PROVE T \cup {x} \in P
  <2> PICK I, y : I = image(T) /\ y = F[x]
    OBVIOUS
  <2>1. /\ IsFiniteSet(T) /\ x \notin T
        /\ IsFiniteSet(I) /\ SumOver(I, g) = SumOver(T, f)
    BY <1>2, FS_Subset DEF P
  <2>2. image(T \cup {x}) = I \cup {y} /\ g[y] = f[x]
    OBVIOUS
  <2>3. IsFiniteSet(I) /\ y \notin I /\ \A k \in I \cup {y} : g[k] \in Int
    BY <2>1
  <2>4. SumOver(T \cup {x}, f) = SumOver(T, f) + f[x]
    BY SumInto
  <2>5. SumOver(I \cup {y}, g) = SumOver(I, g) + g[y]
    BY ONLY <2>3, SumAdd, Zenon
  <2>6. IsFiniteSet(I \cup {y})
    BY ONLY <2>3, FS_AddElement
  <2>7. SumOver(I \cup {y}, g) = SumOver(T \cup {x}, f)
    BY ONLY <2>1, <2>2, <2>4, <2>5
  <2>8. QED BY <2>2, <2>6, <2>7 DEF P
<1>3. S \in P
  BY <1>1, <1>2, OneByOne
<1>4. QED BY <1>3 DEF P

\* A sum over elements that each have a key is the sum, over the keys, of what the
\* elements of each add up to.
LEMMA SumParts ==
    ASSUME NEW S, IsFiniteSet(S), NEW f, \A i \in S : f[i] \in Int,
           NEW key, NEW K, IsFiniteSet(K), \A i \in S : key[i] \in K,
           NEW g, \A k \in K : g[k] = SumOver({i \in S : key[i] = k}, f)
    PROVE  SumOver(S, f) = SumOver(K, g)
<1> DEFINE of(L) == {i \in S : key[i] \in L}
           P == {L \in SUBSET K : SumOver(of(L), f) = SumOver(L, g)}
<1>1. {} \in P
  <2>1. of({}) = {}
    OBVIOUS
  <2>2. QED BY <2>1, SumEmpty
<1>2. ASSUME NEW L \in SUBSET K, NEW k \in K \ L, L \in P PROVE L \cup {k} \in P
  <2> DEFINE A == of(L)
             B == {i \in S : key[i] = k}
  <2>1. A \cap B = {} /\ of(L \cup {k}) = A \cup B
    OBVIOUS
  <2>2. IsFiniteSet(L) /\ IsFiniteSet(A) /\ IsFiniteSet(B)
    BY FS_Subset
  <2>3. \A i \in A \cup B : f[i] \in Int
    OBVIOUS
  <2>4. SumOver(A, f) = SumOver(L, g) /\ g[k] = SumOver(B, f)
    BY <1>2
  <2> HIDE DEF A, B
  <2>5. SumOver(A \cup B, f) = SumOver(A, f) + SumOver(B, f)
    BY <2>1, <2>2, <2>3, SumUnion
  <2>6. \A l \in K : g[l] \in Int
    <3> TAKE l \in K
    <3> DEFINE own == {i \in S : key[i] = l}
    <3>1. IsFiniteSet(own) /\ \A i \in own : f[i] \in Int
      BY FS_Subset
    <3> HIDE DEF own
    <3>2. SumOver(own, f) \in Int
      BY <3>1, SumType
    <3>3. QED BY <3>2 DEF own
  <2>7. SumOver(L \cup {k}, g) = SumOver(L, g) + g[k]
    BY <2>2, <2>6, SumAdd
  <2>8. QED BY <2>1, <2>4, <2>5, <2>7
<1> HIDE DEF P
<1>3. K \in P
  BY <1>1, <1>2, OneByOne
<1>4. of(K) = S
  OBVIOUS
<1>5. QED BY <1>3, <1>4 DEF P
\* What finitely many elements map to is finite.
LEMMA ImageFinite ==
    ASSUME NEW S, IsFiniteSet(S), NEW F
    PROVE  IsFiniteSet({F[i] : i \in S})
<1> DEFINE T == {F[i] : i \in S}
           g == [i \in S |-> F[i]]
<1>1. g \in Surjection(S, T)
  BY DEF Surjection
<1> HIDE DEF T, g
<1>2. IsFiniteSet(T)
  BY <1>1, FS_Surjection
<1>3. QED BY <1>2 DEF T

\* The sum over entries, one for each key, that each say what the elements of their
\* key add up to, is the sum over the elements.
LEMMA SumEntries ==
    ASSUME NEW S, IsFiniteSet(S), NEW f, \A i \in S : f[i] \in Int,
           NEW key, NEW K, IsFiniteSet(K), \A i \in S : key[i] \in K, NEW E, NEW h,
           \A k, l \in K : E[k] = E[l] => k = l,
           \A k \in K : h[E[k]] = SumOver({i \in S : key[i] = k}, f)
    PROVE  /\ IsFiniteSet({E[k] : k \in K})
           /\ SumOver({E[k] : k \in K}, h) = SumOver(S, f)
<1> PICK g : g = [k \in K |-> h[E[k]]]
  OBVIOUS
<1>1. IsFiniteSet(K)
  OBVIOUS
<1>2. \A i \in S : key[i] \in K
  OBVIOUS
<1>3. \A k \in K : g[k] = SumOver({i \in S : key[i] = k}, f)
  OBVIOUS
<1>4. ASSUME NEW k \in K PROVE g[k] \in Int
  <2> DEFINE own == {i \in S : key[i] = k}
  <2>1. IsFiniteSet(own) /\ \A i \in own : f[i] \in Int
    BY FS_Subset
  <2> HIDE DEF own
  <2>2. SumOver(own, f) \in Int
    BY <2>1, SumType
  <2>3. QED BY <1>3, <2>2 DEF own
<1>5. IsFiniteSet(S) /\ \A i \in S : f[i] \in Int
  OBVIOUS
<1>6. SumOver(S, f) = SumOver(K, g)
  BY ONLY <1>1, <1>2, <1>3, <1>5, SumParts, SMTT(60)
<1>7. IsFiniteSet({E[k] : k \in K})
  BY <1>1, ImageFinite
<1>8. \A k, l \in K : E[k] = E[l] => k = l
  OBVIOUS
<1>9. \A k \in K : g[k] \in Int /\ h[E[k]] = g[k]
  BY <1>4
<1>10. SumOver({E[k] : k \in K}, h) = SumOver(K, g)
  BY ONLY <1>1, <1>8, <1>9, SumImage
<1>11. QED BY <1>6, <1>7, <1>10
=============================================================================
