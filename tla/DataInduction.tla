--------------------------- MODULE DataInduction ---------------------------
(***************************************************************************)
(* Induction and recursion for the proofs about data.  The induction       *)
(* theorems of the library take an operator, which a citation would have   *)
(* to instantiate; the ones here take sets and functions: to show a fact   *)
(* for all subsets of a finite set, consider a least one without it.       *)
(***************************************************************************)
EXTENDS Integers, Functions, FiniteSetTheorems, SequenceTheorems, TLAPS

\* Among subsets of a finite set one is least: no other is part of it.
LEMMA LeastSubset ==
  ASSUME NEW S, IsFiniteSet(S), NEW T, T \subseteq SUBSET S, T # {}
  PROVE  \E s \in T : \A t \in T : t \subseteq s => t = s
<1>1. IsWellFoundedOn(StrictSubsetOrdering(S), SUBSET S)
  BY FS_StrictSubsetOrderingWellFounded, FS_FiniteSubsetsOfFinite
<1>2. PICK s \in T : \A t \in T : ~ (<<t, s>> \in StrictSubsetOrdering(S))
  BY <1>1, WFMin
<1>3. ASSUME NEW t \in T, t \subseteq s, t # s PROVE FALSE
  BY <1>2, <1>3 DEF StrictSubsetOrdering
<1> QED
  BY <1>2, <1>3

\* Among natural numbers one is least.
LEMMA LeastNat ==
  ASSUME NEW T, T \subseteq Nat, T # {}
  PROVE  \E m \in T : \A n \in T : m <= n
<1>1. IsWellFoundedOn(OpToRel(<, Nat), Nat)
  BY NatLessThanWellFounded
<1>2. PICK m \in T : \A n \in T : ~ (<<n, m>> \in OpToRel(<, Nat))
  BY <1>1, WFMin
<1>3. \A n \in T : ~(n < m)
  BY <1>2 DEF OpToRel
<1> QED
  BY <1>3

-----------------------------------------------------------------------------
(***************************************************************************)
(* Sums, as SumFunctionOnSet has them: take an element, add its value to   *)
(* the sum of the rest.                                                    *)
(***************************************************************************)
Taken(s) == CHOOSE x \in s : TRUE
Body(f, g, s) == IF s = {} THEN 0 ELSE f[Taken(s)] + g[s \ {Taken(s)}]
IsSum(f, g, S) == g = [s \in SUBSET S |-> Body(f, g, s)]

\* Two such functions agree where both are defined.
LEMMA SumUnique ==
  ASSUME NEW S, IsFiniteSet(S), NEW f, NEW U \in SUBSET S, NEW V \in SUBSET S,
         NEW g, NEW h, IsSum(f, g, U), IsSum(f, h, V)
  PROVE  \A s : s \subseteq U /\ s \subseteq V => g[s] = h[s]
<1> DEFINE T == {s \in SUBSET S : s \subseteq U /\ s \subseteq V /\ g[s] # h[s]}
<1>1. SUFFICES ASSUME T # {} PROVE FALSE
  OBVIOUS
<1>2. PICK s \in T : \A t \in T : t \subseteq s => t = s
  <2>1. T \subseteq SUBSET S
    OBVIOUS
  <2> HIDE DEF T
  <2> QED
    BY <1>1, <2>1, LeastSubset
<1>3. g[s] = Body(f, g, s) /\ h[s] = Body(f, h, s)
  BY <1>2 DEF IsSum
<1>4. CASE s = {}
  BY <1>2, <1>3, <1>4 DEF Body
<1>5. CASE s # {}
  <2>1. Taken(s) \in s
    BY <1>5 DEF Taken
  <2> DEFINE t == s \ {Taken(s)}
  <2>2. /\ t \subseteq s /\ t # s /\ t \in SUBSET S
        /\ t \subseteq U /\ t \subseteq V
    BY <1>2, <2>1
  <2>3. g[t] = h[t]
    BY <1>2, <2>2
  <2> QED
    BY <1>2, <1>3, <1>5, <2>3 DEF Body
<1> QED
  BY <1>4, <1>5

\* There is one.
LEMMA SumExists ==
  ASSUME NEW S, IsFiniteSet(S), NEW f
  PROVE  \E g : IsSum(f, g, S)
<1> DEFINE T == {U \in SUBSET S : ~ \E g : IsSum(f, g, U)}
           Best(U) == CHOOSE g : IsSum(f, g, U)
<1>1. SUFFICES ASSUME T # {} PROVE FALSE
  OBVIOUS
<1>2. PICK U \in T : \A t \in T : t \subseteq U => t = U
  <2>1. T \subseteq SUBSET S
    OBVIOUS
  <2> HIDE DEF T
  <2> QED
    BY <1>1, <2>1, LeastSubset
<1>3. \A s \in SUBSET U : s # U => IsSum(f, Best(s), s)
  BY <1>2
<1> HIDE DEF Best
<1> DEFINE part(s) == Best(s)[s]
           G == [s \in SUBSET U |->
                   IF s = {} THEN 0
                   ELSE f[Taken(s)] + part(s \ {Taken(s)})]
<1>4. \A s \in SUBSET U : s # {} => /\ Taken(s) \in s
                                    /\ s \ {Taken(s)} \in SUBSET U
                                    /\ s \ {Taken(s)} # U
  BY DEF Taken
<1>5. \A s \in SUBSET U : s # U => part(s) = G[s]
  <2> SUFFICES ASSUME NEW s \in SUBSET U, s # U PROVE part(s) = G[s]
    OBVIOUS
  <2>1. part(s) = Body(f, Best(s), s)
    BY <1>3 DEF IsSum
  <2>2. CASE s = {}
    BY <2>1, <2>2 DEF Body
  <2>3. CASE s # {}
    <3> DEFINE t == s \ {Taken(s)}
    <3>1. t \in SUBSET U /\ t # U /\ t \subseteq s
      BY <1>4, <2>3
    <3>2. Best(s)[t] = Best(t)[t]
      BY <1>3, <3>1, SumUnique
    <3> QED
      BY <2>1, <2>3, <3>2 DEF Body
  <2> QED
    BY <2>2, <2>3
<1>6. IsSum(f, G, U)
  <2>1. ASSUME NEW s \in SUBSET U PROVE G[s] = Body(f, G, s)
    <3>1. CASE s = {}
      BY <3>1 DEF Body
    <3>2. CASE s # {}
      BY <1>4, <1>5, <3>2 DEF Body
    <3> QED
      BY <3>1, <3>2
  <2> QED
    BY <2>1 DEF IsSum
<1> QED
  BY <1>2, <1>6

\* The sum of the library is the value of this function.
LEMMA SumIs ==
  ASSUME NEW S, IsFiniteSet(S), NEW f
  PROVE  \E g : IsSum(f, g, S) /\ SumFunctionOnSet(f, S) = g[S]
<1>1. SumFunctionOnSet(f, S) = (CHOOSE g : IsSum(f, g, S))[S]
  BY DEF SumFunctionOnSet, FoldFunctionOnSet, MapThenFoldSet, IsSum, Body, Taken
<1> QED
  BY <1>1, SumExists

\* A sum of integers is an integer.
LEMMA SumType ==
  ASSUME NEW S, IsFiniteSet(S), NEW f, \A x \in S : f[x] \in Int
  PROVE  SumFunctionOnSet(f, S) \in Int
<1>1. PICK g : IsSum(f, g, S) /\ SumFunctionOnSet(f, S) = g[S]
  BY SumIs
<1> DEFINE T == {s \in SUBSET S : g[s] \notin Int}
<1>2. SUFFICES ASSUME T # {} PROVE FALSE
  BY <1>1
<1>3. PICK s \in T : \A t \in T : t \subseteq s => t = s
  <2>1. T \subseteq SUBSET S
    OBVIOUS
  <2> HIDE DEF T
  <2> QED
    BY <1>2, <2>1, LeastSubset
<1>4. g[s] = Body(f, g, s)
  BY <1>1 DEF IsSum
<1>5. s # {}
  BY <1>4 DEF Body
<1>6. Taken(s) \in s
  BY <1>5 DEF Taken
<1>7. g[s \ {Taken(s)}] \in Int
  BY <1>3, <1>6
<1> QED
  BY <1>4, <1>5, <1>6, <1>7 DEF Body

\* A sum of zeros is zero.
LEMMA SumZero ==
  ASSUME NEW S, IsFiniteSet(S), NEW f, \A x \in S : f[x] = 0
  PROVE  SumFunctionOnSet(f, S) = 0
<1>1. PICK g : IsSum(f, g, S) /\ SumFunctionOnSet(f, S) = g[S]
  BY SumIs
<1> DEFINE T == {s \in SUBSET S : g[s] # 0}
<1>2. SUFFICES ASSUME T # {} PROVE FALSE
  BY <1>1
<1>3. PICK s \in T : \A t \in T : t \subseteq s => t = s
  <2>1. T \subseteq SUBSET S
    OBVIOUS
  <2> HIDE DEF T
  <2> QED
    BY <1>2, <2>1, LeastSubset
<1>4. g[s] = Body(f, g, s)
  BY <1>1 DEF IsSum
<1>5. s # {}
  BY <1>4 DEF Body
<1>6. Taken(s) \in s
  BY <1>5 DEF Taken
<1>7. g[s \ {Taken(s)}] = 0
  BY <1>3, <1>6
<1> QED
  BY <1>4, <1>5, <1>6, <1>7 DEF Body

\* One more in one term is one more in the sum.
LEMMA SumPlusOne ==
  ASSUME NEW S, IsFiniteSet(S), NEW a \in S, NEW f, NEW h,
         \A x \in S : f[x] \in Int,
         \A x \in S : h[x] = (IF x = a THEN f[x] + 1 ELSE f[x])
  PROVE  SumFunctionOnSet(h, S) = SumFunctionOnSet(f, S) + 1
<1>1. PICK g : IsSum(f, g, S) /\ SumFunctionOnSet(f, S) = g[S]
  BY SumIs
<1>2. PICK k : IsSum(h, k, S) /\ SumFunctionOnSet(h, S) = k[S]
  BY SumIs
<1> DEFINE more(s) == IF a \in s THEN 1 ELSE 0
           T == {s \in SUBSET S : ~(g[s] \in Int /\ k[s] = g[s] + more(s))}
<1>3. SUFFICES ASSUME T # {} PROVE FALSE
  BY <1>1, <1>2
<1>4. PICK s \in T : \A t \in T : t \subseteq s => t = s
  <2>1. T \subseteq SUBSET S
    OBVIOUS
  <2> HIDE DEF T
  <2> QED
    BY <1>3, <2>1, LeastSubset
<1>5. g[s] = Body(f, g, s) /\ k[s] = Body(h, k, s)
  BY <1>1, <1>2 DEF IsSum
<1>6. s # {}
  BY <1>5 DEF Body
<1>7. Taken(s) \in s
  BY <1>6 DEF Taken
<1> DEFINE t == s \ {Taken(s)}
<1>8. g[t] \in Int /\ k[t] = g[t] + more(t)
  BY <1>4, <1>7
<1>9. /\ g[s] = f[Taken(s)] + g[t]
      /\ k[s] = h[Taken(s)] + k[t]
  BY <1>5, <1>6 DEF Body
<1>10. /\ f[Taken(s)] \in Int
       /\ h[Taken(s)] = (IF Taken(s) = a THEN f[Taken(s)] + 1 ELSE f[Taken(s)])
  BY <1>7
<1>11. more(s) = more(t) + (IF Taken(s) = a THEN 1 ELSE 0)
  BY <1>7
<1> HIDE DEF t, more
<1>12. g[s] \in Int /\ k[s] = g[s] + more(s)
  <2>1. more(t) \in Int
    BY DEF more
  <2> QED
    BY <2>1, <1>8, <1>9, <1>10, <1>11
<1> QED
  BY <1>12
-----------------------------------------------------------------------------
(* Texts and recursion along them.                                         *)

\* From the end of an interval downwards.
LEMMA Downward ==
  ASSUME NEW n \in Nat, NEW T,
         \A i \in 1..(n + 1) : (\A j \in 1..(n + 1) : j > i => j \in T) => i \in T
  PROVE  1..(n + 1) \subseteq T
<1> DEFINE B == {m \in 0..n : n + 1 - m \notin T}
<1>1. SUFFICES ASSUME B # {} PROVE FALSE
  <2>1. ASSUME NEW i \in 1..(n + 1), i \notin T PROVE n + 1 - i \in B
    <3>1. n + 1 - i \in 0..n /\ n + 1 - (n + 1 - i) = i
      OBVIOUS
    <3> QED
      BY <2>1, <3>1
  <2> HIDE DEF B
  <2> QED
    BY <2>1
<1>2. PICK m \in B : \A k \in B : m <= k
  <2>1. B \subseteq Nat
    OBVIOUS
  <2> HIDE DEF B
  <2> QED
    BY <1>1, <2>1, LeastNat
<1>3. ASSUME NEW j \in 1..(n + 1), j > n + 1 - m PROVE j \in T
  <2>1. n + 1 - j \in 0..n /\ n + 1 - (n + 1 - j) = j /\ n + 1 - j < m
    BY <1>3
  <2> QED
    BY <1>2, <2>1
<1>4. n + 1 - m \in 1..(n + 1)
  OBVIOUS
<1> QED
  BY <1>3, <1>4

\* A function may be defined by a value at the end and, before it, by its value
\* at some place further on.
Ahead(g, n) == \A i \in 1..n : g[i] \in (i + 1)..(n + 1)
Closed(F, n, V) == \A i \in 1..n : \A x \in V : F[i][x] \in V
Recursion(f, n, V, v, g, F) ==
  f \in [1..(n + 1) -> V] /\ f[n + 1] = v /\ \A i \in 1..n : f[i] = F[i][f[g[i]]]

LEMMA RecursionDown ==
  ASSUME NEW n \in Nat, NEW V, NEW v \in V, NEW g, Ahead(g, n), NEW F, Closed(F, n, V)
  PROVE  \E f : Recursion(f, n, V, v, g, F)
<1> USE DEF Ahead, Closed
<1> DEFINE Upto(f, m) == /\ f \in [1..(n + 1) -> V] /\ f[n + 1] = v
                         /\ \A i \in 1..n : i > n - m => f[i] = F[i][f[g[i]]]
           B == {m \in 0..n : ~ \E f : Upto(f, m)}
<1>1. SUFFICES ASSUME B # {} PROVE FALSE
  <2>1. PICK f : Upto(f, n)
    OBVIOUS
  <2> QED
    BY <2>1 DEF Recursion
<1>2. PICK m \in B : \A k \in B : m <= k
  <2>1. B \subseteq Nat
    OBVIOUS
  <2> HIDE DEF B
  <2> QED
    BY <1>1, <2>1, LeastNat
<1>3. m # 0
  <2>1. Upto([i \in 1..(n + 1) |-> v], 0)
    OBVIOUS
  <2> QED
    BY <2>1
<1>4. PICK f : Upto(f, m - 1)
  <2>1. m - 1 \in 0..n /\ m - 1 < m
    BY <1>3
  <2> HIDE DEF Upto
  <2> QED
    BY <1>2, <2>1
<1> DEFINE k == n + 1 - m
           h == [f EXCEPT ![k] = F[k][f[g[k]]]]
<1>5. k \in 1..n /\ k < n + 1
  BY <1>3
<1>6. g[k] \in 1..(n + 1) /\ g[k] > k
  BY <1>5
<1> HIDE DEF k
<1>7. F[k][f[g[k]]] \in V
  BY <1>4, <1>5, <1>6
<1>8. h \in [1..(n + 1) -> V] /\ h[n + 1] = v
  BY <1>4, <1>5, <1>7
<1>9. ASSUME NEW i \in 1..n, i > n - m PROVE h[i] = F[i][h[g[i]]]
  <2>0. g[i] \in 1..(n + 1) /\ g[i] > i
    OBVIOUS
  <2>1. CASE i = k
    BY <1>4, <1>5, <1>6, <2>1
  <2>2. CASE i # k
    <3>1. i > k /\ i > n - (m - 1)
      BY <1>9, <2>2 DEF k
    <3>2. h[i] = f[i] /\ h[g[i]] = f[g[i]]
      BY <1>4, <2>0, <3>1
    <3> QED
      BY <1>4, <3>1, <3>2
  <2> QED
    BY <2>1, <2>2
<1>10. Upto(h, m)
  BY <1>8, <1>9
<1> HIDE DEF Upto
<1> QED
  BY <1>2, <1>10

\* What is so of a text if it is so of all shorter ones is so of all texts.
LEMMA TextInduction ==
  ASSUME NEW C, NEW T,
         \A s \in Seq(C) : (\A t \in Seq(C) : Len(t) < Len(s) => t \in T) => s \in T
  PROVE  Seq(C) \subseteq T
<1> DEFINE B == {Len(s) : s \in Seq(C) \ T}
<1>1. ASSUME NEW s \in Seq(C), s \notin T PROVE FALSE
  <2>1. Len(s) \in B
    BY <1>1
  <2>2. B \subseteq Nat
    BY LenProperties
  <2> HIDE DEF B
  <2>3. PICK m \in B : \A k \in B : m <= k
    BY <2>1, <2>2, LeastNat
  <2>4. PICK u \in Seq(C) \ T : m = Len(u)
    BY <2>3 DEF B
  <2>5. ASSUME NEW t \in Seq(C), Len(t) < Len(u), t \notin T PROVE FALSE
    <3>1. Len(t) \in B
      BY <2>5 DEF B
    <3>2. Len(t) \in Nat /\ Len(u) \in Nat
      BY LenProperties
    <3> QED
      BY <2>3, <2>4, <2>5, <3>1, <3>2
  <2> QED
    BY <2>4, <2>5
<1> QED
  BY <1>1
=============================================================================
