------------------------- MODULE TokenTrackerProofs -------------------------
(***************************************************************************)
(* What a tracker computes of a body, however the network cuts it.         *)
(*                                                                         *)
(* The chunks are folds over atoms, the estimate of a body is a sum over   *)
(* its lines: the first two parts establish what a fold and a sum over a   *)
(* finite set compute.  The others follow a tracker through a body: after  *)
(* p atoms it has counted the lines that ended before, and at most two     *)
(* tokens more for every character cut in them (metrics.rs 141-255).       *)
(***************************************************************************)
EXTENDS TokenMetrics, FiniteSetTheorems, TLAPS

(* Induction and folds.                                                    *)

\* The numbers are well-ordered.
LEMMA LeastNumber ==
    ASSUME NEW N \in SUBSET Nat, N # {}
    PROVE  \E m \in N : \A k \in N : m <= k
<1> DEFINE R == OpToRel(<, Nat)
<1>1. \E m \in N : \A k \in N : ~(<<k, m>> \in R)
  <2>1. IsWellFoundedOn(R, Nat)
    BY NatLessThanWellFounded
  <2> HIDE DEF R
  <2> QED
    BY <2>1, WFMin, Zenon
<1>2. \E m \in N : \A k \in N : ~(k < m)
  BY <1>1 DEF OpToRel
<1> QED
  BY <1>2

\* Induction, with a set in the place of a predicate.
LEMMA NumberInduction ==
    ASSUME NEW G, 0 \in G, \A n \in Nat : n \in G => n + 1 \in G
    PROVE  Nat \subseteq G
<1> DEFINE N == Nat \ G
<1> SUFFICES ASSUME N # {} PROVE FALSE
  OBVIOUS
<1>1. PICK m \in N : \A k \in N : m <= k
  BY LeastNumber
<1>2. m # 0 /\ m - 1 \in Nat
  BY <1>1
<1>3. m - 1 \in G
  BY <1>1, <1>2
<1> QED
  BY <1>1, <1>2, <1>3

\* Whatever holds each part of T that has one element less holds T.
Grows(G, S) ==
    \A T \in SUBSET S : (\A x \in T : T \ {x} \in G) => T \in G

\* A family of sets that holds a set whenever it holds all sets of one element
\* less holds every part of a finite set.
LEMMA SetInduction ==
    ASSUME NEW S, IsFiniteSet(S), NEW G, Grows(G, S)
    PROVE  SUBSET S \subseteq G
<1> DEFINE N == {Cardinality(T) : T \in (SUBSET S) \ G}
<1>1. \A T \in SUBSET S : IsFiniteSet(T) /\ Cardinality(T) \in Nat
  BY FS_Subset, FS_CardinalityType
<1> SUFFICES ASSUME NEW U \in SUBSET S, U \notin G PROVE FALSE
  OBVIOUS
<1>0. Cardinality(U) \in N
  OBVIOUS
<1>2. N \in SUBSET Nat
  BY <1>1
<1> HIDE DEF N
<1>3. PICK m \in N : \A k \in N : m <= k
  BY <1>0, <1>2, LeastNumber
<1>4. PICK T \in (SUBSET S) \ G : m = Cardinality(T)
  BY <1>3 DEF N
<1>5. PICK x \in T : T \ {x} \notin G
  BY <1>4 DEF Grows
<1>6. Cardinality(T \ {x}) = m - 1
  BY <1>1, <1>4, <1>5, FS_RemoveElement
<1>7. m - 1 \in N
  BY <1>4, <1>5, <1>6 DEF N
<1>8. m \in Nat
  BY <1>2
<1> QED
  BY <1>3, <1>7, <1>8

\* g takes each part of S by the element chosen from it.
Takes(g, S, base, ch, step) ==
    \A T \in SUBSET S :
        g[T] = IF T = {} THEN base ELSE step[<<ch[T], g[T \ {ch[T]}]>>]

HasFold(S, Val, base, ch, step) ==
    \E g \in [SUBSET S -> Val] : Takes(g, S, base, ch, step)

\* The function by which a fold takes one element after the other exists.
LEMMA FoldExists ==
    ASSUME NEW S, IsFiniteSet(S), NEW Val, NEW base \in Val,
           NEW ch, \A T \in SUBSET S : T # {} => ch[T] \in T,
           NEW step \in [S \X Val -> Val]
    PROVE  HasFold(S, Val, base, ch, step)
<1> DEFINE Small(n) == {T \in SUBSET S : Cardinality(T) <= n}
           Good(g, n) == \A T \in Small(n) :
              g[T] = IF T = {} THEN base
                     ELSE step[<<ch[T], g[T \ {ch[T]}]>>]
           G == {n \in Nat : \E g \in [Small(n) -> Val] : Good(g, n)}
<1>1. \A T \in SUBSET S : IsFiniteSet(T) /\ Cardinality(T) \in Nat
  BY FS_Subset, FS_CardinalityType
<1>2. \A T \in SUBSET S : T # {} =>
          Cardinality(T \ {ch[T]}) = Cardinality(T) - 1
  BY <1>1, FS_RemoveElement
<1>3. 0 \in G
  <2> DEFINE g == [T \in Small(0) |-> base]
  <2>1. \A T \in Small(0) : T = {}
    BY <1>1, FS_EmptySet
  <2>2. g \in [Small(0) -> Val] /\ Good(g, 0)
    BY <2>1
  <2> QED
    BY <2>2
<1>4. ASSUME NEW n \in Nat, n \in G PROVE n + 1 \in G
  <2>1. PICK g \in [Small(n) -> Val] : Good(g, n)
    BY <1>4
  <2> DEFINE h == [T \in Small(n + 1) |->
                      IF T \in Small(n) THEN g[T]
                      ELSE step[<<ch[T], g[T \ {ch[T]}]>>]]
  <2>2. \A T \in Small(n + 1) : T # {} =>
            ch[T] \in S /\ T \ {ch[T]} \in Small(n)
    BY <1>1, <1>2
  <2>3. \A T \in Small(n) : T \in Small(n + 1)
    BY <1>1
  <2>4. {} \in Small(n)
    BY FS_EmptySet
  <2> HIDE DEF Small
  <2>5. h \in [Small(n + 1) -> Val]
    BY <2>2, <2>4
  <2>6. \A T \in Small(n + 1) : T # {} =>
            h[T \ {ch[T]}] = g[T \ {ch[T]}]
    BY <2>2, <2>3
  <2>7. ASSUME NEW T \in Small(n + 1)
        PROVE  h[T] = IF T = {} THEN base
                      ELSE step[<<ch[T], h[T \ {ch[T]}]>>]
    <3>1. CASE T \in Small(n)
      <4>1. h[T] = g[T]
        BY <3>1
      <4>2. g[T] = IF T = {} THEN base ELSE step[<<ch[T], g[T \ {ch[T]}]>>]
        BY <2>1, <3>1
      <4> QED
        BY <2>6, <4>1, <4>2
    <3>2. CASE T \notin Small(n)
      <4>1. T # {}
        BY <2>4, <3>2
      <4>2. h[T] = step[<<ch[T], g[T \ {ch[T]}]>>]
        BY <3>2
      <4> QED
        BY <2>6, <4>1, <4>2
    <3> QED
      BY <3>1, <3>2
  <2> HIDE DEF h
  <2>8. Good(h, n + 1)
    BY <2>7
  <2>9. n + 1 \in Nat
    OBVIOUS
  <2> QED
    BY <2>5, <2>8, <2>9
<1>5. Cardinality(S) \in G
  <2> HIDE DEF G
  <2>1. Nat \subseteq G
    BY <1>3, <1>4, NumberInduction
  <2> QED
    BY <1>1, <2>1
<1>6. Small(Cardinality(S)) = SUBSET S
  BY <1>1, FS_Subset
<1>7. PICK g \in [SUBSET S -> Val] : Good(g, Cardinality(S))
  <2> HIDE DEF Good
  <2> QED
    BY <1>5, <1>6
<1>8. Takes(g, S, base, ch, step)
  BY <1>6, <1>7 DEF Takes
<1> QED
  BY <1>8 DEF HasFold

\* The function an application of SumFunction defines: the sum over each part
\* of the set, by its chosen elements.
Summed(g, f, S) ==
    \A T \in SUBSET S :
        g[T] = IF T = {} THEN 0
               ELSE LET x == CHOOSE x \in T : TRUE
                    IN  f[x] + g[T \ {x}]

\* There is a function that sums the parts of a finite set.
LEMMA SumExists ==
    ASSUME NEW S, IsFiniteSet(S), NEW f \in [S -> Nat]
    PROVE  \E g \in [SUBSET S -> Nat] : Summed(g, f, S)
<1> DEFINE ch == [T \in SUBSET S |-> CHOOSE x \in T : TRUE]
           step == [p \in S \X Nat |-> f[p[1]] + p[2]]
<1>1. \A T \in SUBSET S : T # {} => ch[T] \in T
  OBVIOUS
<1>2. step \in [S \X Nat -> Nat]
  OBVIOUS
<1>3. \A x \in S, n \in Nat : step[<<x, n>>] = f[x] + n
  OBVIOUS
<1>a. \A T \in SUBSET S : ch[T] = CHOOSE x \in T : TRUE
  OBVIOUS
<1> HIDE DEF ch, step
<1>4. 0 \in Nat
  OBVIOUS
<1>5. HasFold(S, Nat, 0, ch, step)
  BY <1>1, <1>2, <1>4, FoldExists
<1>6. PICK g \in [SUBSET S -> Nat] : Takes(g, S, 0, ch, step)
  BY <1>5 DEF HasFold
<1>7. ASSUME NEW T \in SUBSET S, T # {}
      PROVE  step[<<ch[T], g[T \ {ch[T]}]>>] = f[ch[T]] + g[T \ {ch[T]}]
  <2>1. ch[T] \in S /\ T \ {ch[T]} \in SUBSET S
    BY <1>1, <1>7
  <2>2. g[T \ {ch[T]}] \in Nat
    BY <2>1
  <2> QED
    BY <1>3, <2>1, <2>2
<1>8. ASSUME NEW T \in SUBSET S
      PROVE  g[T] = IF T = {} THEN 0
                    ELSE LET x == CHOOSE x \in T : TRUE
                         IN  f[x] + g[T \ {x}]
  BY <1>6, <1>7, <1>a DEF Takes
<1> QED
  BY <1>8 DEF Summed

\* It gives what SumFunction computes: the fold is well defined.
LEMMA SumTaken ==
    ASSUME NEW S, IsFiniteSet(S), NEW f \in [S -> Nat]
    PROVE  \E g \in [SUBSET S -> Nat] : Summed(g, f, S) /\ SumFunction(f) = g[S]
<1> DEFINE Eq(g) == g = [T \in SUBSET S |->
                           IF T = {} THEN 0
                           ELSE LET x == CHOOSE x \in T : TRUE
                                IN  f[x] + g[T \ {x}]]
           iter == CHOOSE g : Eq(g)
<1>1. PICK g \in [SUBSET S -> Nat] : Summed(g, f, S)
  BY SumExists
<1>2. Eq(g)
  BY <1>1 DEF Summed
<1>3. Eq(iter)
  <2> HIDE DEF Eq
  <2> QED
    BY <1>2
<1>4. DOMAIN f = S
  OBVIOUS
<1>5. SumFunction(f) = iter[S]
  BY <1>4 DEF SumFunction, SumFunctionOnSet, FoldFunctionOnSet, MapThenFoldSet
<1>6. Summed(iter, f, S)
  <2> HIDE DEF iter
  <2> QED
    BY <1>3 DEF Summed
<1>7. iter = g
  <2> DEFINE Same == {T \in SUBSET S : iter[T] = g[T]}
  <2> HIDE DEF iter
  <2>1. ASSUME NEW T \in SUBSET S, \A x \in T : T \ {x} \in Same
        PROVE  T \in Same
    <3>1. CASE T = {}
      BY <1>1, <1>6, <3>1 DEF Summed
    <3>2. CASE T # {}
      <4>1. PICK x \in T : x = CHOOSE y \in T : TRUE
        BY <3>2
      <4>2. iter[T] = f[x] + iter[T \ {x}]
        BY <1>6, <3>2, <4>1 DEF Summed
      <4>3. g[T] = f[x] + g[T \ {x}]
        BY <1>1, <3>2, <4>1 DEF Summed
      <4> QED
        BY <2>1, <4>1, <4>2, <4>3
    <3> QED
      BY <3>1, <3>2
  <2>2. SUBSET S \subseteq Same
    <3> HIDE DEF Same
    <3>1. Grows(Same, S)
      BY <2>1 DEF Grows
    <3> QED
      BY <3>1, SetInduction
  <2>3. iter = [T \in SUBSET S |-> iter[T]]
    BY <1>3
  <2> QED
    BY <2>2, <2>3
<1> HIDE DEF iter
<1> QED
  BY <1>1, <1>5, <1>7

-----------------------------------------------------------------------------
\* A sum of zeros.
LEMMA SumZero ==
    ASSUME NEW S, IsFiniteSet(S)
    PROVE  SumFunction([x \in S |-> 0]) = 0
<1> DEFINE f == [x \in S |-> 0]
<1>1. f \in [S -> Nat]
  OBVIOUS
<1>0. \A x \in S : f[x] = 0
  OBVIOUS
<1> HIDE DEF f
<1>2. PICK g \in [SUBSET S -> Nat] : Summed(g, f, S) /\ SumFunction(f) = g[S]
  BY <1>1, SumTaken
<1> DEFINE G == {T \in SUBSET S : g[T] = 0}
<1>3. ASSUME NEW T \in SUBSET S, \A x \in T : T \ {x} \in G
      PROVE  T \in G
  <2>1. CASE T = {}
    BY <1>2, <2>1 DEF Summed
  <2>2. CASE T # {}
    <3>1. PICK x \in T : x = CHOOSE y \in T : TRUE
      BY <2>2
    <3>2. g[T] = f[x] + g[T \ {x}]
      BY <1>2, <2>2, <3>1 DEF Summed
    <3>3. g[T \ {x}] = 0 /\ f[x] = 0
      BY <1>0, <1>3, <3>1
    <3>4. g[T] = 0
      BY <3>2, <3>3
    <3> QED
      BY <3>4
  <2> QED
    BY <2>1, <2>2
<1>4. Grows(G, S)
  BY <1>3 DEF Grows
<1>5. SUBSET S \subseteq G
  <2> HIDE DEF G
  <2> QED
    BY <1>4, SetInduction
<1>6. g[S] = 0
  BY <1>5
<1> QED
  BY <1>2, <1>6 DEF f

\* The sum grows by what one summand grows.
LEMMA SumChanged ==
    ASSUME NEW S, IsFiniteSet(S), NEW f \in [S -> Nat],
           NEW s \in S, f[s] = 0, NEW n \in Nat
    PROVE  SumFunction([f EXCEPT ![s] = n]) = SumFunction(f) + n
<1> DEFINE e == [f EXCEPT ![s] = n]
<1>1. e \in [S -> Nat]
  OBVIOUS
<1>0. \A x \in S : e[x] = IF x = s THEN n ELSE f[x]
  OBVIOUS
<1> HIDE DEF e
<1>2. PICK g \in [SUBSET S -> Nat] : Summed(g, f, S) /\ SumFunction(f) = g[S]
  BY SumTaken
<1>3. PICK h \in [SUBSET S -> Nat] : Summed(h, e, S) /\ SumFunction(e) = h[S]
  BY <1>1, SumTaken
<1> DEFINE G == {T \in SUBSET S : h[T] = g[T] + (IF s \in T THEN n ELSE 0)}
<1>4. ASSUME NEW T \in SUBSET S, \A x \in T : T \ {x} \in G
      PROVE  T \in G
  <2>1. CASE T = {}
    BY <1>2, <1>3, <2>1 DEF Summed
  <2>2. CASE T # {}
    <3>1. PICK x \in T : x = CHOOSE y \in T : TRUE
      BY <2>2
    <3>2. g[T] = f[x] + g[T \ {x}] /\ h[T] = e[x] + h[T \ {x}]
      BY <1>2, <1>3, <2>2, <3>1 DEF Summed
    <3>3. h[T \ {x}] = g[T \ {x}] + (IF s \in T \ {x} THEN n ELSE 0)
      BY <1>4, <3>1
    <3>4. g[T \ {x}] \in Nat /\ f[x] \in Nat
      BY <3>1
    <3>5. h[T] = g[T] + (IF s \in T THEN n ELSE 0)
      <4>1. CASE x = s
        <5>1. e[x] = n /\ f[x] = 0 /\ s \in T /\ s \notin T \ {x}
          BY <1>0, <3>1, <4>1
        <5> QED
          BY <3>2, <3>3, <3>4, <5>1
      <4>2. CASE x # s
        BY <1>0, <3>1, <3>2, <3>3, <3>4, <4>2
      <4> QED
        BY <4>1, <4>2
    <3> QED
      BY <3>5
  <2> QED
    BY <2>1, <2>2
<1>5. Grows(G, S)
  BY <1>4 DEF Grows
<1>6. SUBSET S \subseteq G
  <2> HIDE DEF G
  <2> QED
    BY <1>5, SetInduction
<1>7. h[S] = g[S] + n
  BY <1>6
<1> QED
  BY <1>2, <1>3, <1>7 DEF e

-----------------------------------------------------------------------------
\* A part of 1..n has a largest element.
LEMMA MaxIn ==
    ASSUME NEW n \in Nat, NEW T \in SUBSET (1..n), T # {}
    PROVE  Max(T) \in T /\ \A k \in T : k <= Max(T)
<1> DEFINE N == {n - k : k \in T}
<1>0. \A k \in T : n - k \in Nat
  OBVIOUS
<1>a. N \in SUBSET Nat
  BY <1>0
<1>b. PICK i \in T : TRUE
  OBVIOUS
<1>1. N # {}
  BY <1>b
<1>2. PICK m \in N : \A k \in N : m <= k
  <2> HIDE DEF N
  <2> QED
    BY <1>1, <1>a, LeastNumber
<1>3. PICK t \in T : m = n - t
  BY <1>2
<1>4. ASSUME NEW k \in T
      PROVE  k <= t
  <2>1. m <= n - k
    BY <1>2
  <2>2. k \in 1..n /\ t \in 1..n
    OBVIOUS
  <2> HIDE DEF N
  <2> QED
    BY <1>3, <2>1, <2>2
<1>5. \E x \in T : \A y \in T : x >= y
  BY <1>4
<1> QED
  BY <1>5 DEF Max

\* The last of the first i numbers is i.
LEMMA MaxOfPrefix ==
    ASSUME NEW n \in Nat, NEW i \in 1..n
    PROVE  Max(1..i) = i /\ (1..i) \ {i} = 1..i - 1
<1>1. 1..i \in SUBSET (1..n) /\ i \in 1..i
  OBVIOUS
<1>2. Max(1..i) \in 1..i /\ \A k \in 1..i : k <= Max(1..i)
  BY <1>1, MaxIn
<1>3. Max(1..i) = i
  BY <1>2
<1>4. (1..i) \ {i} = 1..i - 1
  OBVIOUS
<1> QED
  BY <1>3, <1>4

\* iter takes each part of 1..n by its largest element, as long as what it took
\* before is in Val.
TakesLast(iter, n, Val, base, step) ==
    /\ iter[{}] = base
    /\ \A i \in 1..n : iter[1..i - 1] \in Val =>
            iter[1..i] = step[<<i, iter[1..i - 1]>>]

\* h takes 1..n from left to right.
Steps(h, n, base, step) ==
    /\ h[0] = base
    /\ \A i \in 1..n : h[i] = step[<<i, h[i - 1]>>]

HasSteps(result, n, Val, base, step) ==
    \E h \in [0..n -> Val] : Steps(h, n, base, step) /\ result = h[n]

\* The function by which a fold takes the largest element last exists ...
LEMMA LastTaken ==
    ASSUME NEW n \in Nat, NEW Val, NEW base \in Val,
           NEW step \in [(1..n) \X Val -> Val]
    PROVE  HasFold(1..n, Val, base, [T \in SUBSET (1..n) |-> Max(T)], step)
<1> DEFINE ch == [T \in SUBSET (1..n) |-> Max(T)]
<1>1. \A T \in SUBSET (1..n) : T # {} => ch[T] \in T
  BY MaxIn
<1>2. IsFiniteSet(1..n)
  BY FS_Interval
<1> HIDE DEF ch
<1>3. HasFold(1..n, Val, base, ch, step)
  BY <1>1, <1>2, FoldExists
<1> QED
  BY <1>3 DEF ch

\* ... and goes from left to right.
LEMMA LastToSteps ==
    ASSUME NEW n \in Nat, NEW Val, NEW base \in Val,
           NEW step \in [(1..n) \X Val -> Val], NEW iter,
           TakesLast(iter, n, Val, base, step)
    PROVE  HasSteps(iter[1..n], n, Val, base, step)
<1> DEFINE h == [i \in 0..n |-> iter[1..i]]
<1>1. h[0] = base
  <2>1. 1..0 = {} /\ 0 \in 0..n
    OBVIOUS
  <2> QED
    BY <2>1 DEF TakesLast
<1>2. ASSUME NEW i \in 1..n, h[i - 1] \in Val
      PROVE  h[i] = step[<<i, h[i - 1]>>]
  <2>1. h[i - 1] = iter[1..i - 1] /\ h[i] = iter[1..i]
    OBVIOUS
  <2> QED
    BY <1>2, <2>1 DEF TakesLast
<1>3. h[n] = iter[1..n] /\ h = [i \in 0..n |-> h[i]]
  OBVIOUS
<1> HIDE DEF h
<1> DEFINE G == {i \in Nat : i <= n => h[i] \in Val}
<1>4. 0 \in G
  BY <1>1
<1>5. ASSUME NEW i \in Nat, i \in G PROVE i + 1 \in G
  <2>1. CASE i + 1 <= n
    <3>1. i + 1 \in 1..n /\ i + 1 - 1 = i
      BY <2>1
    <3>2. h[i] \in Val
      BY <1>5, <2>1
    <3>3. h[i + 1] = step[<<i + 1, h[i]>>]
      BY <1>2, <3>1, <3>2
    <3>4. h[i + 1] \in Val
      BY <3>1, <3>2, <3>3
    <3> QED
      BY <3>4
  <2> QED
    BY <2>1
<1>6. Nat \subseteq G
  <2> HIDE DEF G
  <2> QED
    BY <1>4, <1>5, NumberInduction
<1>7. \A i \in 0..n : h[i] \in Val
  <2>1. \A i \in 0..n : i \in Nat /\ i <= n
    OBVIOUS
  <2> QED
    BY <1>6, <2>1
<1>8. h \in [0..n -> Val]
  BY <1>3, <1>7
<1>9. ASSUME NEW i \in 1..n PROVE h[i] = step[<<i, h[i - 1]>>]
  <2>1. i - 1 \in 0..n
    OBVIOUS
  <2> QED
    BY <1>2, <1>7, <2>1
<1>10. Steps(h, n, base, step)
  BY <1>1, <1>9 DEF Steps
<1> QED
  BY <1>3, <1>8, <1>10 DEF HasSteps

-----------------------------------------------------------------------------
(* Sums and cardinalities.                                                 *)

\* A sum may take any summand first.
SumsAny(g, f, S) ==
    \A T \in SUBSET S : \A x \in T : g[T] = f[x] + g[T \ {x}]

\* Addition commutes, so it does not matter which summand comes first.
LEMMA SumAny ==
    ASSUME NEW S, IsFiniteSet(S), NEW f \in [S -> Nat],
           NEW g \in [SUBSET S -> Nat], Summed(g, f, S)
    PROVE  SumsAny(g, f, S)
<1> DEFINE G == {U \in SUBSET S : \A y \in U : g[U] = f[y] + g[U \ {y}]}
<1>1. ASSUME NEW U \in SUBSET S, \A y \in U : U \ {y} \in G
      PROVE  U \in G
  <2> SUFFICES ASSUME NEW y \in U PROVE g[U] = f[y] + g[U \ {y}]
    OBVIOUS
  <2>1. PICK z \in U : z = CHOOSE w \in U : TRUE
    OBVIOUS
  <2>2. g[U] = f[z] + g[U \ {z}]
    BY <2>1 DEF Summed
  <2>3. CASE y = z
    BY <2>2, <2>3
  <2>4. CASE y # z
    <3>1. g[U \ {z}] = f[y] + g[(U \ {z}) \ {y}]
      BY <1>1, <2>4
    <3>2. g[U \ {y}] = f[z] + g[(U \ {y}) \ {z}]
      BY <1>1, <2>4
    <3>3. (U \ {z}) \ {y} = (U \ {y}) \ {z}
      OBVIOUS
    <3>4. PICK c \in Nat : c = g[(U \ {y}) \ {z}]
      OBVIOUS
    <3>5. f[y] \in Nat /\ f[z] \in Nat
      OBVIOUS
    <3>6. f[z] + (f[y] + c) = f[y] + (f[z] + c)
      BY <3>4, <3>5
    <3> QED
      BY <2>2, <3>1, <3>2, <3>3, <3>4, <3>6
  <2> QED
    BY <2>3, <2>4
<1>2. Grows(G, S)
  BY <1>1 DEF Grows
<1>3. SUBSET S \subseteq G
  <2> HIDE DEF G
  <2> QED
    BY <1>2, SetInduction
<1> QED
  BY <1>3 DEF SumsAny

\* One summand apart from the others.
LEMMA SumInsert ==
    ASSUME NEW S, IsFiniteSet(S), NEW f \in [S -> Nat], NEW x \in S
    PROVE  SumFunction(f) = f[x] + SumFunction([y \in S \ {x} |-> f[y]])
<1> DEFINE R == S \ {x}
           e == [y \in R |-> f[y]]
<1>1. IsFiniteSet(R) /\ e \in [R -> Nat]
  BY FS_RemoveElement
<1>0. \A y \in R : e[y] = f[y]
  OBVIOUS
<1>2. PICK g \in [SUBSET S -> Nat] : Summed(g, f, S) /\ SumFunction(f) = g[S]
  BY SumTaken
<1> HIDE DEF e
<1> HIDE DEF R
<1>3. PICK h \in [SUBSET R -> Nat] : Summed(h, e, R) /\ SumFunction(e) = h[R]
  BY <1>1, SumTaken
<1> DEFINE G == {T \in SUBSET R : h[T] = g[T]}
<1>4. ASSUME NEW T \in SUBSET R, \A y \in T : T \ {y} \in G
      PROVE  T \in G
  <2>0. T \in SUBSET S
    BY DEF R
  <2>1. CASE T = {}
    BY <1>2, <1>3, <2>0, <2>1 DEF Summed
  <2>2. CASE T # {}
    <3>1. PICK y \in T : y = CHOOSE z \in T : TRUE
      BY <2>2
    <3>2. g[T] = f[y] + g[T \ {y}] /\ h[T] = e[y] + h[T \ {y}]
      BY <1>2, <1>3, <2>0, <2>2, <3>1 DEF Summed
    <3>3. h[T \ {y}] = g[T \ {y}] /\ e[y] = f[y]
      BY <1>0, <1>4, <3>1
    <3> QED
      BY <3>2, <3>3
  <2> QED
    BY <2>1, <2>2
<1>5. Grows(G, R)
  BY <1>4 DEF Grows
<1>6. SUBSET R \subseteq G
  <2> HIDE DEF G
  <2> QED
    BY <1>1, <1>5, SetInduction
<1>7. h[R] = g[R]
  BY <1>6
<1>8. g[S] = f[x] + g[S \ {x}]
  <2>1. Summed(g, f, S)
    BY <1>2
  <2>2. SumsAny(g, f, S)
    BY <2>1, SumAny
  <2> QED
    BY <2>2 DEF SumsAny
<1> QED
  BY <1>2, <1>3, <1>7, <1>8 DEF R, e

\* Moving numbers does not change how many they are.
LEMMA ShiftCardinality ==
    ASSUME NEW S \in SUBSET Nat, IsFiniteSet(S), NEW j \in Nat
    PROVE  /\ IsFiniteSet({j + i : i \in S})
           /\ Cardinality({j + i : i \in S}) = Cardinality(S)
<1> DEFINE Sh(T) == {j + i : i \in T}
           G == {T \in SUBSET S : /\ IsFiniteSet(Sh(T))
                                  /\ Cardinality(Sh(T)) = Cardinality(T)}
<1>1. ASSUME NEW T \in SUBSET S, \A x \in T : T \ {x} \in G
      PROVE  T \in G
  <2>1. CASE T = {}
    <3>1. Sh(T) = {}
      BY <2>1
    <3> QED
      BY <2>1, <3>1, FS_EmptySet
  <2>2. CASE T # {}
    <3>1. PICK x \in T : TRUE
      BY <2>2
    <3> DEFINE U == T \ {x}
    <3>2. IsFiniteSet(Sh(U)) /\ Cardinality(Sh(U)) = Cardinality(U)
      BY <1>1, <3>1
    <3>3. Sh(T) = Sh(U) \cup {j + x}
      BY <3>1
    <3>4. j + x \notin Sh(U)
      <4>1. x \in Nat /\ \A i \in U : i \in Nat /\ i # x
        BY <3>1
      <4> QED
        BY <4>1
    <3>5. IsFiniteSet(T) /\ IsFiniteSet(U) /\ T = U \cup {x} /\ x \notin U
      BY <3>1, FS_Subset
    <3> HIDE DEF Sh, U
    <3>6. IsFiniteSet(Sh(T)) /\ Cardinality(Sh(T)) = Cardinality(Sh(U)) + 1
      BY <3>2, <3>3, <3>4, FS_AddElement
    <3>7. Cardinality(T) = Cardinality(U) + 1
      BY <3>5, FS_AddElement
    <3> QED
      BY <3>2, <3>6, <3>7
  <2> QED
    BY <2>1, <2>2
<1>2. Grows(G, S)
  BY <1>1 DEF Grows
<1>3. SUBSET S \subseteq G
  <2> HIDE DEF G
  <2> QED
    BY <1>2, SetInduction
<1> QED
  BY <1>3

\* The elements of two disjoint sets.
LEMMA DisjointCardinality ==
    ASSUME NEW S, NEW T, IsFiniteSet(S), IsFiniteSet(T), S \cap T = {}
    PROVE  /\ IsFiniteSet(S \cup T)
           /\ Cardinality(S) \in Nat /\ Cardinality(T) \in Nat
           /\ Cardinality(S \cup T) = Cardinality(S) + Cardinality(T)
<1>1. Cardinality(S) \in Nat /\ Cardinality(T) \in Nat
  BY FS_CardinalityType
<1>2. IsFiniteSet(S \cup T) /\ Cardinality(S \cup T)
         = Cardinality(S) + Cardinality(T) - Cardinality(S \cap T)
  BY FS_Union
<1>3. Cardinality(S \cap T) = 0
  BY FS_EmptySet
<1> QED
  BY <1>1, <1>2, <1>3

-----------------------------------------------------------------------------
(* The types of a tracker, and a bound on what it counts.                  *)

\* What a tracker meets: the atoms of the bodies and what the bytes of a
\* character that was cut become.
Atom == {"replaced", "merged"} \cup UNION {ToSet(b) : b \in Body}

Reportable == {UsageOf[a] : a \in DOMAIN UsageOf}

Tracker == [buf : Seq(Atom), acc : Nat, usage : SUBSET Reportable,
            started : BOOLEAN]

\* A body is a sequence of atoms.
LEMMA BodyType ==
    ASSUME NEW b \in Body
    PROVE  /\ b \in Seq(Atom)
           /\ Len(b) \in Nat /\ DOMAIN b = 1..Len(b)
           /\ \A i \in 1..Len(b) : b[i] \in Atom
<1>1. b \in Seq(ToSet(b))
  BY CountAssumption
<1>2. ToSet(b) \subseteq Atom
  BY DEF Atom
<1>3. \A i \in 1..Len(b) : b[i] \in Atom
  BY <1>1, <1>2
<1> HIDE DEF Atom
<1>4. b \in Seq(Atom)
  BY <1>1, <1>3
<1> QED
  BY <1>1, <1>3, <1>4

\* A byte of a character and a usage stand for nothing else.
LEMMA MarkFacts ==
    /\ \A a \in DOMAIN ByteOf :
          /\ a \notin {"nl", "a", "empty", "replaced", "merged"}
          /\ a \notin {"{", "}"}
          /\ a \notin DOMAIN UsageOf
    /\ \A a \in DOMAIN UsageOf : a \notin {"replaced", "merged"}
  BY ByteAssumption, UsageAssumption, Zenon DEF Marks

\* A line of n atoms is never estimated at more than n tokens, whatever of it
\* is replaced.
LEMMA EstimateBound ==
    ASSUME NEW line \in Seq(Atom)
    PROVE  Approximate(TextLen(line)) \in 0..Len(line)
<1> DEFINE A == {i \in DOMAIN line : line[i] \in Plain}
           R == {i \in DOMAIN line : line[i] = "replaced"}
<1>1. Len(line) \in Nat /\ DOMAIN line = 1..Len(line)
  OBVIOUS
<1>2. IsFiniteSet(1..Len(line)) /\ Cardinality(1..Len(line)) = Len(line)
  BY <1>1, FS_Interval
<1>3. A \in SUBSET (1..Len(line)) /\ R \in SUBSET (1..Len(line))
  BY <1>1
<1>4. A \cap R = {}
  BY MarkFacts DEF Plain
<1>5. TextLen(line) = Cardinality(A) + 3 * Cardinality(R)
  BY DEF TextLen
<1> HIDE DEF A, R
<1>6. IsFiniteSet(A) /\ IsFiniteSet(R) /\ A \cup R \in SUBSET (1..Len(line))
  BY <1>2, <1>3, FS_Subset
<1>7. /\ Cardinality(A) \in Nat /\ Cardinality(R) \in Nat
      /\ Cardinality(A \cup R) <= Len(line)
  BY <1>2, <1>6, FS_Subset, FS_CardinalityType
<1>8. Cardinality(A \cup R) = Cardinality(A) + Cardinality(R)
  <2>1. Cardinality(A \cup R)
           = Cardinality(A) + Cardinality(R) - Cardinality(A \cap R)
    BY <1>6, FS_Union
  <2>2. Cardinality(A \cap R) = 0
    BY <1>4, FS_EmptySet
  <2> QED
    BY <1>7, <2>1, <2>2
<1>9. ASSUME NEW a \in Nat, NEW r \in Nat, NEW n \in Nat, a + r <= n
      PROVE  Approximate(a + 3 * r) \in 0..n
  BY <1>9 DEF Approximate
<1> QED
  BY <1>1, <1>5, <1>7, <1>8, <1>9

\* A line leaves the tracker's buffer alone and adds at most its length.
LEMMA ObserveLineBound ==
    ASSUME NEW t \in Tracker, NEW line \in Seq(Atom)
    PROVE  /\ ObserveLine(t, line) \in Tracker
           /\ ObserveLine(t, line).buf = t.buf
           /\ ObserveLine(t, line).acc <= t.acc + Len(line)
<1>1. Usages(line) \in SUBSET Reportable
  BY DEF Usages, Reportable
<1>2. Approximate(TextLen(line)) \in Nat
      /\ Approximate(TextLen(line)) <= Len(line) /\ Len(line) \in Nat
  BY EstimateBound
<1>0. t.acc \in Nat
  BY DEF Tracker
<1>3. CASE ~IsValue(line)
  <2>1. ObserveLine(t, line) = t
    BY <1>3 DEF ObserveLine
  <2> QED
    BY <1>0, <1>2, <2>1
<1>4. CASE IsValue(line) /\ Usages(line) # {}
  <2>1. ObserveLine(t, line) = [t EXCEPT !.usage = Usages(line)]
    BY <1>4 DEF ObserveLine
  <2> QED
    BY <1>1, <1>2, <2>1 DEF Tracker
<1>5. CASE IsValue(line) /\ Usages(line) = {}
  <2>1. ObserveLine(t, line)
           = [t EXCEPT !.acc = @ + Approximate(TextLen(line)),
                       !.started = @ \/ HasText(line)]
    BY <1>5 DEF ObserveLine
  <2>2. PICK n \in Nat : n = t.acc + Approximate(TextLen(line))
    BY <1>0, <1>2
  <2>a. PICK f \in BOOLEAN : f = (t.started \/ HasText(line))
    OBVIOUS
  <2>3. ObserveLine(t, line) = [t EXCEPT !.acc = n, !.started = f]
    BY <2>1, <2>2, <2>a
  <2> DEFINE e == [t EXCEPT !.acc = n, !.started = f]
  <2>4. e \in Tracker /\ e.buf = t.buf /\ e.acc = n
    BY DEF Tracker
  <2> HIDE DEF e
  <2> QED
    BY <1>0, <1>2, <2>2, <2>3, <2>4 DEF e
<1> QED
  BY <1>3, <1>4, <1>5

\* The tokens a tracker has counted and the atoms it has yet to look at.
Held(t) == t.acc + Len(t.buf)

\* Held is a number.
LEMMA HeldType == \A t \in Tracker : Held(t) \in Nat
  BY DEF Tracker, Held

\* One more atom is at most one more to count.
LEMMA FeedBound ==
    ASSUME NEW t \in Tracker, NEW a \in Atom
    PROVE  Feed(t, a) \in Tracker /\ Held(Feed(t, a)) <= Held(t) + 1
<1>0. t.buf \in Seq(Atom) /\ Len(t.buf) \in Nat /\ t.acc \in Nat
  BY DEF Tracker
<1>1. CASE a = "nl"
  <2> DEFINE e == [t EXCEPT !.buf = <<>>]
  <2>0. <<>> \in Seq(Atom)
    OBVIOUS
  <2>1. e \in Tracker /\ e.buf = <<>> /\ e.acc = t.acc
    BY <2>0 DEF Tracker
  <2>2. Feed(t, a) = ObserveLine(e, t.buf)
    BY <1>1 DEF Feed
  <2> HIDE DEF e
  <2>3. /\ Feed(t, a) \in Tracker /\ Feed(t, a).buf = <<>>
        /\ Feed(t, a).acc <= t.acc + Len(t.buf)
    BY <1>0, <2>1, <2>2, ObserveLineBound
  <2>4. Len(Feed(t, a).buf) = 0 /\ Feed(t, a).acc \in Nat
    BY <2>3 DEF Tracker
  <2> QED
    BY <1>0, <2>3, <2>4 DEF Held
<1>2. CASE a # "nl"
  <2>1. Feed(t, a) = [t EXCEPT !.buf = Append(t.buf, a)]
    BY <1>2 DEF Feed
  <2>2. Append(t.buf, a) \in Seq(Atom) /\ Len(Append(t.buf, a)) = Len(t.buf) + 1
    BY <1>0
  <2> DEFINE q == Append(t.buf, a)
  <2>3. q \in Seq(Atom)
    BY <2>2
  <2> HIDE DEF q
  <2>4. [t EXCEPT !.buf = q] \in Tracker
    BY <2>3 DEF Tracker
  <2>5. [t EXCEPT !.buf = q].buf = q /\ [t EXCEPT !.buf = q].acc = t.acc
    BY DEF Tracker
  <2> USE DEF q
  <2> QED
    BY <1>0, <2>1, <2>2, <2>4, <2>5 DEF Held
<1> QED
  BY <1>1, <1>2

\* The tracker after each atom of a chunk.
Fed(h, t, q) == h[0] = t /\ \A i \in 1..Len(q) : h[i] = Feed(h[i - 1], q[i])

\* Folding Feed over a chunk is feeding its atoms one after the other.
LEMMA FedTaken ==
    ASSUME NEW t \in Tracker, NEW q \in Seq(Atom)
    PROVE  \E h \in [0..Len(q) -> Tracker] :
              Fed(h, t, q) /\ FoldLeft(Feed, t, q) = h[Len(q)]
<1> DEFINE D == 1..Len(q)
           step == [p \in D \X Tracker |-> Feed(p[2], q[p[1]])]
           last == [T \in SUBSET D |-> Max(T)]
           Eq(g) == g = [T \in SUBSET D |->
                           IF T = {} THEN t
                           ELSE LET x == Max(T)
                                IN  Feed(g[T \ {x}], q[x])]
           iter == CHOOSE g : Eq(g)
<1>1. Len(q) \in Nat /\ DOMAIN q = D /\ \A i \in D : q[i] \in Atom
  OBVIOUS
<1>3. step \in [D \X Tracker -> Tracker]
  BY <1>1, FeedBound
<1>4. \A i \in D, u \in Tracker : step[<<i, u>>] = Feed(u, q[i])
  OBVIOUS
<1>5. FoldLeft(Feed, t, q) = iter[D]
  BY <1>1 DEF FoldLeft, MapThenFoldSet
<1> HIDE DEF step
<1>6. PICK g \in [SUBSET D -> Tracker] : Takes(g, D, t, last, step)
  BY <1>1, <1>3, LastTaken DEF HasFold
<1>7. ASSUME NEW T \in SUBSET D
      PROVE  g[T] = IF T = {} THEN t ELSE Feed(g[T \ {Max(T)}], q[Max(T)])
  <2>1. CASE T = {}
    BY <1>6, <2>1 DEF Takes
  <2>2. CASE T # {}
    <3>1. g[T] = step[<<Max(T), g[T \ {Max(T)}]>>]
      BY <1>6, <2>2 DEF Takes
    <3>2. Max(T) \in D /\ g[T \ {Max(T)}] \in Tracker
      BY <1>1, <2>2, MaxIn
    <3> QED
      BY <1>4, <2>2, <3>1, <3>2
  <2> QED
    BY <2>1, <2>2
<1>8. Eq(iter)
  <2>1. Eq(g)
    BY <1>7
  <2> HIDE DEF Eq
  <2> QED
    BY <2>1
<1>9. \A T \in SUBSET D :
          iter[T] = IF T = {} THEN t ELSE Feed(iter[T \ {Max(T)}], q[Max(T)])
  <2> HIDE DEF iter
  <2> QED
    BY <1>8
<1> HIDE DEF iter
<1>10. ASSUME NEW i \in D, iter[1..i - 1] \in Tracker
       PROVE  iter[1..i] = step[<<i, iter[1..i - 1]>>]
  <2>1. Max(1..i) = i /\ (1..i) \ {i} = 1..i - 1
    BY <1>1, MaxOfPrefix
  <2>2. 1..i \in SUBSET D /\ i \in 1..i
    BY <1>1
  <2>3. iter[1..i] = Feed(iter[1..i - 1], q[i])
    BY <1>9, <2>1, <2>2
  <2> QED
    BY <1>4, <1>10, <2>3
<1>11. TakesLast(iter, Len(q), Tracker, t, step)
  BY <1>9, <1>10 DEF TakesLast
<1>b. HasSteps(iter[D], Len(q), Tracker, t, step)
  BY <1>1, <1>3, <1>11, LastToSteps
<1>12. PICK h \in [0..Len(q) -> Tracker] :
            Steps(h, Len(q), t, step) /\ iter[D] = h[Len(q)]
  BY <1>b DEF HasSteps
<1>13. ASSUME NEW i \in D
       PROVE  h[i] = Feed(h[i - 1], q[i])
  <2>0. i - 1 \in 0..Len(q)
    BY <1>1
  <2>1. h[i] = step[<<i, h[i - 1]>>] /\ h[i - 1] \in Tracker
    BY <1>12, <2>0 DEF Steps
  <2> QED
    BY <1>4, <2>1
<1>14. Fed(h, t, q)
  BY <1>12, <1>13 DEF Fed, Steps
<1> QED
  BY <1>5, <1>12, <1>14

\* What is replaced or merged is an atom in the place of an atom.
LEMMA LossyType ==
    ASSUME NEW q \in Seq(Atom)
    PROVE  Lossy(q) \in Seq(Atom) /\ Len(Lossy(q)) = Len(q)
<1>1. /\ \A i \in DOMAIN q : q[i] \in Atom
      /\ "replaced" \in Atom /\ "merged" \in Atom
  BY DEF Atom
<1>2. DOMAIN Lossy(q) = 1..Len(q) /\ Len(q) \in Nat
  BY DEF Lossy
<1>3. \A i \in 1..Len(q) : Lossy(q)[i] \in Atom
  BY <1>1 DEF Lossy
<1>4. Lossy(q) = [i \in 1..Len(q) |-> Lossy(q)[i]]
  BY DEF Lossy
<1> HIDE DEF Atom
<1> QED
  BY <1>2, <1>3, <1>4

\* A chunk adds at most one token for each of its atoms.
LEMMA ChunkBound ==
    ASSUME NEW t \in Tracker, NEW q \in Seq(Atom)
    PROVE  /\ ObserveChunk(t, q) \in Tracker
           /\ Held(ObserveChunk(t, q)) <= Held(t) + Len(q)
<1> DEFINE r == Lossy(q)
<1>1. r \in Seq(Atom) /\ Len(r) = Len(q)
  BY LossyType
<1>2. ObserveChunk(t, q) = FoldLeft(Feed, t, r)
  BY DEF ObserveChunk
<1> HIDE DEF r
<1>3. PICK h \in [0..Len(r) -> Tracker] :
          Fed(h, t, r) /\ FoldLeft(Feed, t, r) = h[Len(r)]
  BY <1>1, FedTaken
<1>4. Len(r) \in Nat /\ \A i \in 1..Len(r) : r[i] \in Atom
  BY <1>1
<1> DEFINE G == {n \in Nat : n <= Len(r) => Held(h[n]) <= Held(t) + n}
<1>6. 0 \in G
  BY <1>3, HeldType DEF Fed
<1>7. ASSUME NEW n \in Nat, n \in G PROVE n + 1 \in G
  <2>1. CASE n + 1 <= Len(r)
    <3>1. n + 1 \in 1..Len(r) /\ n + 1 - 1 = n /\ n \in 0..Len(r)
      BY <1>4, <2>1
    <3>2. h[n + 1] = Feed(h[n], r[n + 1]) /\ h[n] \in Tracker
      BY <1>3, <3>1 DEF Fed
    <3>3. Held(h[n + 1]) <= Held(h[n]) + 1
      BY <1>4, <3>1, <3>2, FeedBound
    <3>4. Held(h[n]) <= Held(t) + n
      BY <1>4, <1>7, <2>1
    <3>5. h[n + 1] \in Tracker
      BY <1>4, <3>1
    <3>6. Held(h[n + 1]) <= Held(t) + (n + 1)
      BY <3>2, <3>3, <3>4, <3>5, HeldType
    <3> QED
      BY <3>6
  <2> QED
    BY <2>1
<1>8. Nat \subseteq G
  <2> HIDE DEF G
  <2> QED
    BY <1>6, <1>7, NumberInduction
<1> QED
  BY <1>1, <1>2, <1>3, <1>4, <1>8

\* Looking at the last line counts at most its atoms.
LEMMA FinishBound ==
    ASSUME NEW t \in Tracker
    PROVE  /\ FinishTracker(t) \in Tracker
           /\ FinishTracker(t).buf = <<>>
           /\ FinishTracker(t).acc <= Held(t)
<1> DEFINE e == [t EXCEPT !.buf = <<>>]
<1>0. t.buf \in Seq(Atom) /\ <<>> \in Seq(Atom)
  BY DEF Tracker
<1>1. e \in Tracker /\ e.buf = <<>> /\ e.acc = t.acc
  BY <1>0 DEF Tracker
<1>2. FinishTracker(t) = ObserveLine(e, t.buf)
  BY DEF FinishTracker
<1> HIDE DEF e
<1> QED
  BY <1>0, <1>1, <1>2, ObserveLineBound DEF Held

\* What a tracker counts of a body is a count of tokens.
LEMMA TotalBound ==
    ASSUME NEW t \in Tracker, NEW b \in Body, t.acc <= Len(b)
    PROVE  TotalTokens(t) \in TokenCount
<1>1. CASE t.usage # {}
  <2>1. (CHOOSE n \in t.usage : TRUE) \in Reportable
    BY <1>1 DEF Tracker
  <2> QED
    BY <1>1, <2>1, CountAssumption DEF TotalTokens, Reportable
<1>2. CASE t.usage = {}
  <2>1. t.acc \in 0..Len(b)
    BY BodyType DEF Tracker
  <2> QED
    BY <1>2, <2>1, CountAssumption DEF TotalTokens
<1> QED
  BY <1>1, <1>2

-----------------------------------------------------------------------------
(* Lines of a body, and what arrives of them.                              *)

Byte(b) == {k \in DOMAIN b : b[k] \in DOMAIN ByteOf}
At(b, k) == ByteOf[b[k]].at
Of(b, k) == ByteOf[b[k]].of

\* Where a chunk may end and cut a character.
Inside(b) == {k \in Byte(b) : At(b, k) < Of(b, k)}

\* A chunk ended inside the character of byte k, and inside it before k.
Severs(b, C, k) == \E c \in C : Start(b, c) = Start(b, k)
SeversBefore(b, C, k) == \E c \in C : Start(b, c) = Start(b, k) /\ c < k

\* The atom a tracker gets for atom k of a body if chunks ended inside its
\* characters after the atoms of C.
Arrived(b, C, k) ==
    IF b[k] \notin DOMAIN ByteOf \/ ~Severs(b, C, k) THEN b[k]
    ELSE IF At(b, k) = 1 \/ SeversBefore(b, C, k) THEN "replaced" ELSE "merged"

\* The first bytes of the characters that were cut.
Severed(b, C) == {Start(b, c) : c \in C}

Boundary(b, j) == j = 0 \/ b[j] = "nl"

\* line is what arrived of the atoms j + 1..p of b, and no line ends there.
ArrivedLine(line, b, C, j, p) ==
    /\ j \in Nat /\ p \in j..Len(b)
    /\ line \in Seq(Atom) /\ Len(line) = p - j
    /\ \A i \in 1..p - j : line[i] = Arrived(b, C, j + i)
    /\ Boundary(b, j)
    /\ \A k \in j + 1..p : b[k] # "nl"

WholeLine(b, p) == p = Len(b) \/ b[p + 1] = "nl"

\* The bytes of a character lie next to each other.
LEMMA CharacterOf ==
    ASSUME NEW b \in Body, NEW k \in Byte(b)
    PROVE  /\ k \in 1..Len(b) /\ k \in Nat
           /\ At(b, k) \in 1..4 /\ Of(b, k) \in 2..4 /\ At(b, k) <= Of(b, k)
           /\ Start(b, k) \in Nat /\ Start(b, k) >= 1 /\ Start(b, k) <= k
           /\ k = Start(b, k) + At(b, k) - 1
           /\ \A d \in 1..Of(b, k) :
                 /\ Start(b, k) + d - 1 \in Byte(b)
                 /\ At(b, Start(b, k) + d - 1) = d
                 /\ Of(b, Start(b, k) + d - 1) = Of(b, k)
                 /\ Start(b, Start(b, k) + d - 1) = Start(b, k)
<1>1. /\ Len(b) \in Nat /\ DOMAIN b = 1..Len(b)
      /\ k \in 1..Len(b) /\ k \in Nat /\ b[k] \in DOMAIN ByteOf
  BY BodyType DEF Byte
<1>2. At(b, k) \in 1..4 /\ Of(b, k) \in 2..4 /\ At(b, k) <= Of(b, k)
  BY <1>1, ByteAssumption DEF At, Of
<1>3. Start(b, k) = k + 1 - At(b, k)
  BY DEF Start, At
<1>4. ASSUME NEW d \in 1..Of(b, k)
      PROVE  /\ Start(b, k) + d - 1 \in Byte(b)
             /\ At(b, Start(b, k) + d - 1) = d
             /\ Of(b, Start(b, k) + d - 1) = Of(b, k)
  <2> DEFINE i == Start(b, k) + d - 1
  <2>1. b[k] \in DOMAIN ByteOf =>
            \A e \in 1..ByteOf[b[k]].of :
               /\ Start(b, k) + e - 1 \in DOMAIN b
               /\ b[Start(b, k) + e - 1] \in DOMAIN ByteOf
               /\ ByteOf[b[Start(b, k) + e - 1]]
                     = [at |-> e, of |-> ByteOf[b[k]].of]
    BY <1>1, BodyAssumption
  <2>2. d \in 1..ByteOf[b[k]].of
    BY DEF Of
  <2>3. /\ i \in DOMAIN b /\ b[i] \in DOMAIN ByteOf
        /\ ByteOf[b[i]] = [at |-> d, of |-> ByteOf[b[k]].of]
    BY <1>1, <2>1, <2>2
  <2> HIDE DEF i
  <2>4. i \in Byte(b) /\ At(b, i) = d /\ Of(b, i) = Of(b, k)
    BY <2>3 DEF Byte, At, Of
  <2> QED
    BY <2>4 DEF i
<1>5. Start(b, k) \in Nat /\ Start(b, k) >= 1
  <2>1. 1 \in 1..Of(b, k)
    BY <1>2
  <2>2. Start(b, k) + 1 - 1 \in Byte(b)
    BY <1>4, <2>1
  <2>3. Start(b, k) + 1 - 1 \in 1..Len(b)
    BY <1>1, <2>2 DEF Byte
  <2> QED
    BY <1>1, <1>2, <1>3, <2>3
<1>6. ASSUME NEW d \in 1..Of(b, k)
      PROVE  Start(b, Start(b, k) + d - 1) = Start(b, k)
  <2> DEFINE i == Start(b, k) + d - 1
  <2>1. At(b, i) = d
    BY <1>4
  <2>2. Start(b, i) = i + 1 - At(b, i)
    BY DEF Start, At
  <2>3. d \in Nat
    BY <1>2
  <2> QED
    BY <1>5, <2>1, <2>2, <2>3
<1> QED
  BY <1>1, <1>2, <1>3, <1>4, <1>5, <1>6

\* The bytes of a character know each other.
LEMMA SameCharacter ==
    ASSUME NEW b \in Body, NEW k \in Byte(b), NEW c \in Byte(b),
           Start(b, c) = Start(b, k)
    PROVE  Of(b, c) = Of(b, k)
<1>1. /\ 1 \in 1..Of(b, k) /\ 1 \in 1..Of(b, c)
      /\ Start(b, k) + 1 - 1 = Start(b, k)
  BY CharacterOf
<1>2. Of(b, Start(b, k)) = Of(b, k)
  BY <1>1, CharacterOf
<1>3. Of(b, Start(b, c)) = Of(b, c)
  BY <1>1, CharacterOf
<1> QED
  BY <1>2, <1>3

\* Whatever lies between two bytes of a character is one of its bytes.
LEMMA Between ==
    ASSUME NEW b \in Body, NEW k \in Byte(b), NEW i \in Nat,
           Start(b, k) <= i, i < Start(b, k) + Of(b, k)
    PROVE  /\ i \in Byte(b) /\ Start(b, i) = Start(b, k)
           /\ Of(b, i) = Of(b, k) /\ At(b, i) = i + 1 - Start(b, k)
<1> DEFINE d == i + 1 - Start(b, k)
<1>1. d \in 1..Of(b, k) /\ Start(b, k) + d - 1 = i
  BY CharacterOf
<1> HIDE DEF d
<1>2. /\ i \in Byte(b) /\ Start(b, i) = Start(b, k)
      /\ Of(b, i) = Of(b, k) /\ At(b, i) = d
  BY <1>1, CharacterOf
<1> QED
  BY <1>2 DEF d

\* What a cut leaves and what it replaces.
LEMMA ArrivedAtom ==
    ASSUME NEW b \in Body, NEW C \in SUBSET Inside(b), NEW k \in 1..Len(b)
    PROVE  /\ Arrived(b, C, k) \in Atom
           /\ Arrived(b, C, k) \in {"replaced", "merged"} =>
                 k \in Byte(b) /\ Severs(b, C, k)
           /\ Arrived(b, C, k) \notin {"replaced", "merged"} =>
                 Arrived(b, C, k) = b[k]
<1>0. Len(b) \in Nat /\ DOMAIN b = 1..Len(b) /\ b[k] \in Atom
  BY BodyType
<1>1. b[k] \notin {"replaced", "merged"}
  BY <1>0, BodyAssumption
<1>2. "replaced" \in Atom /\ "merged" \in Atom
  BY DEF Atom
<1> HIDE DEF Atom
<1>3. CASE b[k] \notin DOMAIN ByteOf \/ ~Severs(b, C, k)
  <2>1. Arrived(b, C, k) = b[k]
    BY <1>3 DEF Arrived
  <2> QED
    BY <1>0, <1>1, <2>1
<1>4. CASE b[k] \in DOMAIN ByteOf /\ Severs(b, C, k)
  <2>1. Arrived(b, C, k) = IF At(b, k) = 1 \/ SeversBefore(b, C, k)
                           THEN "replaced" ELSE "merged"
    BY <1>4 DEF Arrived
  <2>2. k \in Byte(b)
    BY <1>0, <1>4 DEF Byte
  <2> QED
    BY <1>2, <1>4, <2>1, <2>2
<1> QED
  BY <1>3, <1>4

\* A line of the body is a JSON object if what arrived of it is.
LEMMA LineValue ==
    ASSUME NEW b \in Body, NEW C \in SUBSET Inside(b), NEW j, NEW p, NEW line,
           ArrivedLine(line, b, C, j, p), WholeLine(b, p)
    PROVE  /\ <<j + 1, p>> \in Lines(b)
           /\ IsValue(line) <=> <<j + 1, p>> \in Values(b)
<1>0. /\ Len(b) \in Nat /\ DOMAIN b = 1..Len(b) /\ b \in Seq(Atom)
      /\ j \in Nat /\ p \in Nat /\ j <= p /\ p <= Len(b)
  BY BodyType DEF ArrivedLine
<1>1. <<j + 1, p>> \in Lines(b)
  <2>1. <<j + 1, p>> \in (1..Len(b) + 1) \X (0..Len(b))
    BY <1>0
  <2>2. j + 1 = 1 \/ b[(j + 1) - 1] = "nl"
    <3>1. (j + 1) - 1 = j
      BY <1>0
    <3> QED
      BY <1>0, <3>1 DEF ArrivedLine, Boundary
  <2>3. \A k \in j + 1..p : b[k] # "nl"
    BY DEF ArrivedLine
  <2>a. j \in Nat /\ p \in Nat /\ j <= p
    BY <1>0
  <2>b. j + 1 <= p + 1
    BY <2>a
  <2>4. j + 1 <= p + 1 /\ (p = Len(b) \/ b[p + 1] = "nl")
    BY <2>b DEF WholeLine
  <2> DEFINE l == <<j + 1, p>>
  <2>5. l[1] = j + 1 /\ l[2] = p
    OBVIOUS
  <2>6. l \in (1..Len(b) + 1) \X (0..Len(b))
    BY <2>1
  <2> HIDE DEF l
  <2>7. l \in Lines(b)
    BY <2>2, <2>3, <2>4, <2>5, <2>6 DEF Lines
  <2> QED
    BY <2>7 DEF l
<1> DEFINE w == SubSeq(b, j + 1, p)
<1>2. Len(w) = p - j /\ \A i \in 1..p - j : w[i] = b[j + i]
  <2> HIDE DEF Atom
  <2>1. j + 1 \in 1..Len(b) + 1 /\ p \in j..Len(b)
    BY <1>0
  <2>2. Len(w) = p - j
    BY <1>0, <2>1
  <2>3. \A i \in 1..p - j : w[i] = b[j + 1 + i - 1]
    BY <1>0, <2>1
  <2>4. \A i \in 1..p - j : j + 1 + i - 1 = j + i
    BY <1>0
  <2> QED
    BY <2>2, <2>3, <2>4
<1>3. Len(line) = p - j /\ \A i \in 1..p - j : line[i] = Arrived(b, C, j + i)
  BY DEF ArrivedLine
<1>6. <<j + 1, p>> \in Values(b) <=> IsValue(w)
  BY <1>1 DEF Values
<1> HIDE DEF w
<1>4. ASSUME NEW i \in 1..p - j, NEW a,
             a \notin DOMAIN ByteOf, a \notin {"replaced", "merged"}
      PROVE  line[i] = a <=> w[i] = a
  <2>a. j \in Nat /\ p \in Nat /\ j <= p /\ p <= Len(b) /\ Len(b) \in Nat
    BY <1>0
  <2>1. j + i \in 1..Len(b)
    BY <2>a
  <2>2. w[i] = b[j + i] /\ line[i] = Arrived(b, C, j + i)
    BY <1>2, <1>3
  <2>3. \/ Arrived(b, C, j + i) \in {"replaced", "merged"}
        \/ Arrived(b, C, j + i) = b[j + i]
    BY <2>1, ArrivedAtom
  <2>4. Arrived(b, C, j + i) \in {"replaced", "merged"} =>
            b[j + i] \in DOMAIN ByteOf
    BY <2>1, ArrivedAtom DEF Byte
  <2> QED
    BY <1>4, <2>2, <2>3, <2>4
<1>5. IsValue(line) <=> IsValue(w)
  <2>1. CASE p - j >= 2
    <3>1. 1 \in 1..p - j /\ p - j \in 1..p - j
      BY <1>0, <2>1
    <3>2. /\ "{" \notin DOMAIN ByteOf /\ "}" \notin DOMAIN ByteOf
          /\ "{" \notin {"replaced", "merged"}
          /\ "}" \notin {"replaced", "merged"}
      BY MarkFacts
    <3>3. /\ line[1] = "{" <=> w[1] = "{"
          /\ line[p - j] = "}" <=> w[p - j] = "}"
      BY <1>4, <3>1, <3>2
    <3> QED
      BY <1>2, <1>3, <3>3 DEF IsValue
  <2>2. CASE ~(p - j >= 2)
    <3> QED
      BY <1>2, <1>3, <2>2 DEF IsValue
  <2> QED
    BY <2>1, <2>2
<1> QED
  BY <1>1, <1>5, <1>6

\* It reports what the line of the body reports.
LEMMA LineUsages ==
    ASSUME NEW b \in Body, NEW C \in SUBSET Inside(b), NEW j, NEW p, NEW line,
           ArrivedLine(line, b, C, j, p)
    PROVE  /\ \A n : n \in Usages(line) <=>
                \E k \in j + 1..p : b[k] \in DOMAIN UsageOf /\ n = UsageOf[b[k]]
<1>0. /\ Len(b) \in Nat /\ DOMAIN b = 1..Len(b)
      /\ j \in Nat /\ p \in Nat /\ j <= p /\ p <= Len(b)
      /\ DOMAIN line = 1..p - j
      /\ \A i \in 1..p - j : line[i] = Arrived(b, C, j + i)
  BY BodyType DEF ArrivedLine
<1>1. ASSUME NEW i \in 1..p - j
      PROVE  /\ j + i \in j + 1..p
             /\ line[i] \in DOMAIN UsageOf <=> b[j + i] \in DOMAIN UsageOf
             /\ line[i] \in DOMAIN UsageOf => line[i] = b[j + i]
  <2>1. j + i \in 1..Len(b) /\ j + i \in j + 1..p
    BY <1>0
  <2>2. line[i] = Arrived(b, C, j + i)
    BY <1>0
  <2>3. \/ Arrived(b, C, j + i) \in {"replaced", "merged"}
           /\ b[j + i] \in DOMAIN ByteOf
        \/ Arrived(b, C, j + i) = b[j + i]
    BY <2>1, ArrivedAtom DEF Byte
  <2> QED
    BY <2>1, <2>2, <2>3, MarkFacts
<1>2. ASSUME NEW k \in j + 1..p
      PROVE  k - j \in 1..p - j /\ j + (k - j) = k
  BY <1>0
<1> SUFFICES ASSUME NEW n
             PROVE  n \in Usages(line) <=>
                      \E k \in j + 1..p :
                         b[k] \in DOMAIN UsageOf /\ n = UsageOf[b[k]]
  OBVIOUS
<1>3. n \in Usages(line) <=>
        \E i \in 1..p - j : line[i] \in DOMAIN UsageOf /\ n = UsageOf[line[i]]
  BY <1>0 DEF Usages, ToSet
<1>4. ASSUME NEW i \in 1..p - j, line[i] \in DOMAIN UsageOf,
             n = UsageOf[line[i]]
      PROVE  \E k \in j + 1..p : b[k] \in DOMAIN UsageOf /\ n = UsageOf[b[k]]
  BY <1>1, <1>4
<1>5. ASSUME NEW k \in j + 1..p, b[k] \in DOMAIN UsageOf, n = UsageOf[b[k]]
      PROVE  \E i \in 1..p - j :
                line[i] \in DOMAIN UsageOf /\ n = UsageOf[line[i]]
  <2>1. /\ k - j \in 1..p - j
        /\ line[k - j] \in DOMAIN UsageOf /\ line[k - j] = b[k]
    BY <1>1, <1>2, <1>5
  <2> QED
    BY <1>5, <2>1
<1> QED
  BY <1>3, <1>4, <1>5

\* A character does not begin before the line it is in.
LEMMA StartInLine ==
    ASSUME NEW b \in Body, NEW C, NEW j, NEW p, NEW line,
           ArrivedLine(line, b, C, j, p),
           NEW k \in j + 1..p, k \in Byte(b)
    PROVE  Start(b, k) \in j + 1..p
<1>0. /\ Len(b) \in Nat /\ j \in Nat /\ p \in Nat /\ j <= p /\ p <= Len(b)
  BY BodyType DEF ArrivedLine
<1>1. /\ Start(b, k) \in Nat /\ Start(b, k) >= 1 /\ Start(b, k) <= k
      /\ Of(b, k) \in Nat /\ k < Start(b, k) + Of(b, k)
  BY CharacterOf
<1>2. ASSUME Start(b, k) <= j PROVE FALSE
  <2>a. j < Start(b, k) + Of(b, k)
    BY <1>0, <1>1
  <2>1. j \in Byte(b)
    BY <1>0, <1>2, <2>a, Between
  <2>2. b[j] = "nl"
    BY <1>1, <1>2 DEF ArrivedLine, Boundary
  <2> QED
    BY <2>1, <2>2, MarkFacts DEF Byte
<1> QED
  BY <1>0, <1>1, <1>2

\* The images of a finite set of numbers under two shifts.
LEMMA TwoShifts ==
    ASSUME NEW S \in SUBSET Nat, IsFiniteSet(S), NEW i \in Nat, NEW j \in Nat,
           NEW T, T \subseteq {i + x : x \in S} \cup {j + x : x \in S}
    PROVE  /\ IsFiniteSet(T) /\ Cardinality(T) \in Nat
           /\ Cardinality(S) \in Nat
           /\ Cardinality(T) <= 2 * Cardinality(S)
<1> DEFINE A == {i + x : x \in S}
           B == {j + x : x \in S}
<1>1. /\ IsFiniteSet(A) /\ Cardinality(A) = Cardinality(S)
      /\ IsFiniteSet(B) /\ Cardinality(B) = Cardinality(S)
  BY ShiftCardinality
<1>2. T \subseteq A \cup B
  OBVIOUS
<1> HIDE DEF A, B
<1>3. /\ IsFiniteSet(A \cup B) /\ Cardinality(A \cap B) \in Nat
      /\ Cardinality(A \cup B)
            = Cardinality(A) + Cardinality(B) - Cardinality(A \cap B)
  BY <1>1, FS_Union, FS_Intersection, FS_CardinalityType
<1>4. /\ IsFiniteSet(T) /\ Cardinality(T) <= Cardinality(A \cup B)
  BY <1>2, <1>3, FS_Subset
<1>5. Cardinality(S) \in Nat /\ Cardinality(T) \in Nat
  BY <1>4, FS_CardinalityType
<1> QED
  BY <1>1, <1>3, <1>4, <1>5

\* What arrives of a character that was cut: its first byte is replaced, and so
\* is the one or the other byte before each that is merged.
LEMMA MergedAfter ==
    ASSUME NEW b \in Body, NEW C \in SUBSET Inside(b), NEW k \in 1..Len(b),
           Arrived(b, C, k) = "merged"
    PROVE  /\ k \in Byte(b)
           /\ Arrived(b, C, Start(b, k)) = "replaced"
           /\ k = 1 + Start(b, k) \/ k = 2 + Start(b, k)
<1>1. k \in Byte(b) /\ Severs(b, C, k)
  BY ArrivedAtom
<1>2. /\ At(b, k) \in Nat /\ At(b, k) >= 1 /\ Of(b, k) \in 2..4
      /\ Start(b, k) \in Nat /\ k = Start(b, k) + At(b, k) - 1 /\ k \in Nat
  BY <1>1, CharacterOf
<1>3. At(b, k) # 1 /\ ~SeversBefore(b, C, k)
  <2>1. b[k] \in DOMAIN ByteOf
    BY <1>1 DEF Byte
  <2> QED
    BY <1>1, <2>1 DEF Arrived
<1>4. PICK c \in C : Start(b, c) = Start(b, k)
  BY <1>1 DEF Severs
<1>5. c \in Byte(b) /\ At(b, c) < Of(b, c)
  BY DEF Inside
<1>6. /\ c \in Nat /\ At(b, c) \in Nat
      /\ c = Start(b, k) + At(b, c) - 1 /\ Of(b, c) = Of(b, k)
  BY <1>1, <1>4, <1>5, CharacterOf, SameCharacter
<1>7. ~(c < k)
  BY <1>3, <1>4 DEF SeversBefore
<1>8. At(b, k) \in {2, 3}
  BY <1>2, <1>3, <1>5, <1>6, <1>7
<1>9. /\ Start(b, k) \in Byte(b) /\ At(b, Start(b, k)) = 1
      /\ Start(b, Start(b, k)) = Start(b, k)
  <2>1. 1 \in 1..Of(b, k) /\ Start(b, k) + 1 - 1 = Start(b, k)
    BY <1>2
  <2> QED
    BY <1>1, <2>1, CharacterOf
<1>10. Arrived(b, C, Start(b, k)) = "replaced"
  <2>1. Severs(b, C, Start(b, k)) /\ b[Start(b, k)] \in DOMAIN ByteOf
    BY <1>4, <1>9 DEF Severs, Byte
  <2> QED
    BY <1>9, <2>1 DEF Arrived
<1> QED
  BY <1>1, <1>2, <1>8, <1>10

\* A character that was cut begins with one of its bytes.
LEMMA SeveredIn ==
    ASSUME NEW b \in Body, NEW C \in SUBSET Inside(b)
    PROVE  Severed(b, C) \subseteq Byte(b)
<1> SUFFICES ASSUME NEW c \in C PROVE Start(b, c) \in Byte(b)
  BY DEF Severed
<1>1. c \in Byte(b)
  BY DEF Inside
<1>2. 1 \in 1..Of(b, c) /\ Start(b, c) + 1 - 1 = Start(b, c)
  BY <1>1, CharacterOf
<1> QED
  BY <1>1, <1>2, CharacterOf

\* What is replaced is one of the four bytes of a character that was cut.
LEMMA ReplacedIn ==
    ASSUME NEW b \in Body, NEW C \in SUBSET Inside(b), NEW k \in 1..Len(b),
           Arrived(b, C, k) = "replaced"
    PROVE  /\ k \in Byte(b)
           /\ Start(b, k) \in Severed(b, C)
           /\ \E d \in 0..3 : k = d + Start(b, k)
<1>1. k \in Byte(b) /\ Severs(b, C, k)
  BY ArrivedAtom
<1>2. Start(b, k) \in Severed(b, C)
  BY <1>1 DEF Severs, Severed
<1>3. /\ At(b, k) \in 1..4 /\ Start(b, k) \in Nat
      /\ k = Start(b, k) + At(b, k) - 1
  BY <1>1, CharacterOf
<1>4. At(b, k) - 1 \in 0..3 /\ k = (At(b, k) - 1) + Start(b, k)
  BY <1>3
<1> QED
  BY <1>1, <1>2, <1>4

\* A text of x bytes is estimated at up to 2 * c tokens more than one of n.
AddsTo(x, n, c) == \E e \in 0..2 * c : Approximate(x) = (n + 3) \div 4 + e

\* The estimate of a text of a bytes and r U+FFFD in place of one of n bytes.
LEMMA ExtraTokens ==
    ASSUME NEW a \in Nat, NEW r \in Nat, NEW m \in Nat, NEW n \in Nat,
           NEW c \in Nat, a + r + m = n, m <= 2 * r, r <= 4 * c
    PROVE  AddsTo(a + 3 * r, n, c)
<1> DEFINE x == (a + 3 * r + 3) \div 4
           y == (n + 3) \div 4
<1>1. \A u, v, w \in Nat : v <= 2 * u /\ u <= 4 * w
        => 2 * u <= 8 * w + v /\ v <= 2 * u
  OBVIOUS
<1>2. a + 3 * r + m = n + 2 * r
  OBVIOUS
<1>3. n <= a + 3 * r /\ a + 3 * r <= n + 8 * c
  BY <1>1, <1>2
<1>4. x \in Nat /\ y \in Nat /\ y <= x /\ x <= y + 2 * c
  BY <1>3
<1>5. Approximate(a + 3 * r) = x
  BY DEF Approximate
<1> HIDE DEF x, y
<1>6. x - y \in 0..2 * c /\ x = y + (x - y)
  BY <1>4
<1> QED
  BY <1>5, <1>6 DEF y, AddsTo

\* Each character of a line that was cut makes its estimate up to two tokens
\* more, and none makes it less.
LEMMA LineLength ==
    ASSUME NEW b \in Body, NEW C \in SUBSET Inside(b), NEW j, NEW p, NEW line,
           ArrivedLine(line, b, C, j, p)
    PROVE  /\ Cardinality(Severed(b, C) \cap (j + 1..p)) \in Nat
           /\ Bytes(b, <<j + 1, p>>) \in Nat
           /\ \E e \in 0..2 * Cardinality(Severed(b, C) \cap (j + 1..p)) :
                 Approximate(TextLen(line))
                    = (Bytes(b, <<j + 1, p>>) + 3) \div 4 + e
<1> DEFINE A == {i \in DOMAIN line : line[i] \in Plain}
           R == {i \in DOMAIN line : line[i] = "replaced"}
           M == {i \in DOMAIN line : line[i] = "merged"}
           B == {k \in j + 1..p : b[k] \in Plain}
           K == Severed(b, C) \cap (j + 1..p)
           Sh(X) == {j + i : i \in X}
<1>0. /\ Len(b) \in Nat /\ DOMAIN b = 1..Len(b)
      /\ j \in Nat /\ p \in Nat /\ j <= p /\ p <= Len(b)
      /\ DOMAIN line = 1..p - j
      /\ \A i \in 1..p - j : line[i] = Arrived(b, C, j + i)
  BY BodyType DEF ArrivedLine
<1>1. /\ A \in SUBSET (1..p - j) /\ R \in SUBSET (1..p - j)
      /\ M \in SUBSET (1..p - j)
  BY <1>0
<1>a. A \cap R = {} /\ (A \cup R) \cap M = {}
  <2>1. "replaced" \notin Plain /\ "merged" \notin Plain
    BY MarkFacts DEF Plain
  <2> QED
    BY <2>1
<1>2. IsFiniteSet(1..p - j) /\ IsFiniteSet(j + 1..p)
  BY <1>0, FS_Interval
<1>3. /\ IsFiniteSet(A) /\ IsFiniteSet(R) /\ IsFiniteSet(M) /\ IsFiniteSet(B)
      /\ IsFiniteSet(K)
  <2>1. B \in SUBSET (j + 1..p) /\ K \in SUBSET (j + 1..p)
    OBVIOUS
  <2> HIDE DEF A, R, M, B, K
  <2> QED
    BY <1>1, <1>2, <2>1, FS_Subset
<1>4. TextLen(line) = Cardinality(A) + 3 * Cardinality(R)
  BY DEF TextLen
<1>5. Bytes(b, <<j + 1, p>>) = Cardinality(B)
  BY DEF Bytes
<1>6. ASSUME NEW i \in 1..p - j
      PROVE  /\ j + i \in j + 1..p /\ j + i \in 1..Len(b)
             /\ line[i] = Arrived(b, C, j + i)
             /\ i \in A \cup R \cup M <=> b[j + i] \in Plain
  <2>1. j + i \in j + 1..p /\ j + i \in 1..Len(b)
    BY <1>0
  <2>2. line[i] = Arrived(b, C, j + i)
    BY <1>0
  <2>3. line[i] \in {"replaced", "merged"} => b[j + i] \in Plain
    BY <2>1, <2>2, ArrivedAtom DEF Byte, Plain
  <2>4. line[i] \notin {"replaced", "merged"} => line[i] = b[j + i]
    BY <2>1, <2>2, ArrivedAtom
  <2> HIDE DEF Plain
  <2>5. i \in A \cup R \cup M <=> b[j + i] \in Plain
    BY <1>0, <2>3, <2>4
  <2> QED
    BY <2>1, <2>2, <2>5
<1>7. ASSUME NEW k \in j + 1..p
      PROVE  k - j \in 1..p - j /\ j + (k - j) = k
  BY <1>0
<1>8. Sh(A \cup R \cup M) = B
  <2>1. ASSUME NEW k \in B PROVE k \in Sh(A \cup R \cup M)
    <3>1. k - j \in 1..p - j /\ j + (k - j) = k
      BY <1>7
    <3>2. k - j \in A \cup R \cup M
      BY <1>6, <3>1
    <3> QED
      BY <3>1, <3>2
  <2>2. ASSUME NEW i \in A \cup R \cup M PROVE j + i \in B
    <3>1. i \in 1..p - j
      BY <1>1
    <3> QED
      BY <1>6, <3>1
  <2> QED
    BY <2>1, <2>2
<1>9. ASSUME NEW i \in M
      PROVE  \E r \in R : i = 1 + r \/ i = 2 + r
  <2>1. i \in 1..p - j /\ line[i] = "merged"
    BY <1>1
  <2> DEFINE k == j + i
  <2>2. k \in 1..Len(b) /\ k \in j + 1..p /\ Arrived(b, C, k) = "merged"
    BY <1>6, <2>1
  <2> HIDE DEF k
  <2>3. /\ k \in Byte(b) /\ Arrived(b, C, Start(b, k)) = "replaced"
        /\ k = 1 + Start(b, k) \/ k = 2 + Start(b, k)
    BY <2>2, MergedAfter
  <2>4. Start(b, k) \in j + 1..p
    BY <2>2, <2>3, StartInLine
  <2> DEFINE r == Start(b, k) - j
  <2>5. r \in 1..p - j /\ j + r = Start(b, k)
    BY <1>7, <2>4
  <2>6. i = 1 + r \/ i = 2 + r
    BY <1>0, <2>1, <2>3, <2>4 DEF k
  <2> HIDE DEF r
  <2>7. r \in R
    BY <1>0, <2>3, <2>5
  <2> QED
    BY <2>6, <2>7
<1>10. ASSUME NEW i \in R
       PROVE  \E d \in 0..3, k \in K : j + i = d + k
  <2>1. i \in 1..p - j /\ line[i] = "replaced"
    BY <1>1
  <2> DEFINE k == j + i
  <2>2. k \in 1..Len(b) /\ k \in j + 1..p /\ Arrived(b, C, k) = "replaced"
    BY <1>6, <2>1
  <2> HIDE DEF k
  <2>3. /\ k \in Byte(b) /\ Start(b, k) \in Severed(b, C)
        /\ \E d \in 0..3 : k = d + Start(b, k)
    BY <2>2, ReplacedIn
  <2>4. Start(b, k) \in j + 1..p
    BY <2>2, <2>3, StartInLine
  <2> QED
    BY <2>3, <2>4 DEF k
<1>11. /\ R \in SUBSET Nat /\ A \cup R \cup M \in SUBSET Nat
       /\ K \in SUBSET Nat
  BY <1>0, <1>1
<1> DEFINE K2 == {0 + k : k \in K} \cup {1 + k : k \in K}
<1>b. /\ Sh(R) = {j + i : i \in R}
      /\ Sh(A \cup R \cup M) = {j + i : i \in A \cup R \cup M}
  OBVIOUS
<1>c. Sh(R) \subseteq {0 + k : k \in K2} \cup {2 + k : k \in K2}
  <2> SUFFICES ASSUME NEW i \in R
               PROVE  j + i \in {0 + k : k \in K2} \cup {2 + k : k \in K2}
    OBVIOUS
  <2>1. PICK d \in 0..3, k \in K : j + i = d + k
    BY <1>10
  <2> HIDE DEF K, R
  <2>2. k \in Nat /\ 0 + k \in K2 /\ 1 + k \in K2
    BY <1>11
  <2>3. \/ j + i = 0 + (0 + k) \/ j + i = 0 + (1 + k)
        \/ j + i = 2 + (0 + k) \/ j + i = 2 + (1 + k)
    BY <2>1, <2>2
  <2> HIDE DEF K2
  <2> QED
    BY <2>2, <2>3
<1>d. M \subseteq {1 + r : r \in R} \cup {2 + r : r \in R}
  BY <1>9
<1>e. K2 \in SUBSET Nat
  <2> HIDE DEF K
  <2> QED
    BY <1>11
<1>f. K2 \subseteq {0 + k : k \in K} \cup {1 + k : k \in K}
  OBVIOUS
<1> HIDE DEF A, R, M, B, K, K2, Sh
<1>12. /\ IsFiniteSet(K2) /\ Cardinality(K2) \in Nat
       /\ Cardinality(K) \in Nat /\ Cardinality(K2) <= 2 * Cardinality(K)
  <2>1. 0 \in Nat /\ 1 \in Nat
    OBVIOUS
  <2> QED
    BY <1>3, <1>11, <1>f, <2>1, TwoShifts
<1>13. Cardinality(Sh(R)) \in Nat /\ Cardinality(Sh(R)) <= 2 * Cardinality(K2)
  <2>1. 0 \in Nat /\ 2 \in Nat
    OBVIOUS
  <2> DEFINE T == Sh(R)
  <2>2. T \subseteq {0 + k : k \in K2} \cup {2 + k : k \in K2}
    BY <1>c
  <2> HIDE DEF T
  <2>3. Cardinality(T) \in Nat /\ Cardinality(T) <= 2 * Cardinality(K2)
    BY <1>12, <1>e, <2>1, <2>2, TwoShifts
  <2> QED
    BY <2>3 DEF T
<1>14. /\ Cardinality(M) \in Nat /\ Cardinality(R) \in Nat
       /\ Cardinality(M) <= 2 * Cardinality(R)
  <2>1. 1 \in Nat /\ 2 \in Nat
    OBVIOUS
  <2>2. R \in SUBSET Nat
    BY <1>11
  <2> QED
    BY <1>3, <1>d, <2>1, <2>2, TwoShifts
<1>15. Cardinality(Sh(R)) = Cardinality(R)
  BY <1>0, <1>3, <1>11, <1>b, ShiftCardinality
<1>16. /\ Cardinality(A) \in Nat /\ Cardinality(B) \in Nat
       /\ Cardinality(A) + Cardinality(R) + Cardinality(M) = Cardinality(B)
  <2>1. /\ IsFiniteSet(A \cup R) /\ Cardinality(A) \in Nat
        /\ Cardinality(A \cup R) = Cardinality(A) + Cardinality(R)
    BY <1>a, <1>3, DisjointCardinality
  <2>2. /\ IsFiniteSet(A \cup R \cup M)
        /\ Cardinality(A \cup R \cup M)
              = Cardinality(A \cup R) + Cardinality(M)
    BY <1>a, <1>3, <2>1, DisjointCardinality
  <2>3. Cardinality(Sh(A \cup R \cup M)) = Cardinality(A \cup R \cup M)
    BY <1>0, <1>11, <1>b, <2>2, ShiftCardinality
  <2>4. Cardinality(B) \in Nat
    BY <1>3, FS_CardinalityType
  <2> QED
    BY <1>8, <2>1, <2>2, <2>3, <2>4
<1>18. Cardinality(R) <= 4 * Cardinality(K)
  BY <1>12, <1>13, <1>15
<1>19. \E e \in 0..2 * Cardinality(K) :
          Approximate(Cardinality(A) + 3 * Cardinality(R))
             = (Cardinality(B) + 3) \div 4 + e
  <2> DEFINE a == Cardinality(A)
             r == Cardinality(R)
             m == Cardinality(M)
             n == Cardinality(B)
             c == Cardinality(K)
  <2>1. /\ a \in Nat /\ r \in Nat /\ m \in Nat /\ n \in Nat /\ c \in Nat
        /\ a + r + m = n /\ m <= 2 * r /\ r <= 4 * c
    BY <1>12, <1>14, <1>16, <1>18
  <2> HIDE DEF a, r, m, n, c
  <2>2. AddsTo(a + 3 * r, n, c)
    BY <2>1, ExtraTokens, Zenon
  <2> QED
    BY <2>2 DEF a, r, n, c, AddsTo
<1> QED
  BY <1>4, <1>5, <1>12, <1>16, <1>19 DEF K

-----------------------------------------------------------------------------
(* What lies before an atom of a body.                                     *)

\* What of a body lies before its atom j + 1: the reported usages, the lines
\* that are JSON objects, and of those the characters that were cut.
ReportsTo(b, j) == {k \in Reports(b) : k <= j}
ValuesTo(b, j) == {l \in Values(b) : l[2] <= j}
CutsTo(b, C, j) == {k \in Severed(b, C) : k <= j /\ InValue(b, k)}

PartSum(b, T) == SumFunction([l \in T |-> (Bytes(b, l) + 3) \div 4])

\* A tracker that looked at the lines before atom j + 1 has the last usage
\* they report, or else their estimates and at most two for each cut.
Counted(t, b, C, j) ==
    /\ ReportsTo(b, j) = {} =>
          /\ t.usage = {}
          /\ \E e \in 0..2 * Cardinality(CutsTo(b, C, j)) :
                t.acc = PartSum(b, ValuesTo(b, j)) + e
    /\ \A k \in ReportsTo(b, j) :
          (\A i \in ReportsTo(b, j) : i <= k) => t.usage = {UsageOf[b[k]]}

\* A JSON object has two atoms at least.
LEMMA ValueLength ==
    ASSUME NEW line, IsValue(line)
    PROVE  Len(line) >= 2
  BY DEF IsValue

\* Where a line begins and ends.
LEMMA LineBounds ==
    ASSUME NEW b \in Body, NEW l \in Lines(b)
    PROVE  /\ l = <<l[1], l[2]>> /\ l[1] \in 1..Len(b) + 1 /\ l[2] \in 0..Len(b)
           /\ \A k \in l[1]..l[2] : b[k] # "nl"
           /\ l[1] = 1 \/ b[l[1] - 1] = "nl"
           /\ l[2] = Len(b) \/ b[l[2] + 1] = "nl"
  BY DEF Lines

\* A body has finitely many JSON objects, and none of them is empty.
LEMMA ValueBounds ==
    ASSUME NEW b \in Body
    PROVE  /\ IsFiniteSet(Values(b))
           /\ \A l \in Values(b) :
                 /\ l \in Lines(b)
                 /\ l[1] \in 1..Len(b) /\ l[2] \in 1..Len(b) /\ l[1] <= l[2]
                 /\ IsFiniteSet(l[1]..l[2])
                 /\ Bytes(b, l) \in Nat
<1>0. Len(b) \in Nat /\ b \in Seq(Atom)
  BY BodyType
<1>1. IsFiniteSet((1..Len(b) + 1) \X (0..Len(b)))
  <2>1. IsFiniteSet(1..Len(b) + 1) /\ IsFiniteSet(0..Len(b))
    BY <1>0, FS_Interval
  <2> QED
    BY <2>1, FS_Product
<1>2. Values(b) \subseteq (1..Len(b) + 1) \X (0..Len(b))
  BY DEF Values, Lines
<1>3. IsFiniteSet(Values(b))
  BY <1>1, <1>2, FS_Subset
<1>4. ASSUME NEW l \in Values(b)
      PROVE  /\ l \in Lines(b)
             /\ l[1] \in 1..Len(b) /\ l[2] \in 1..Len(b) /\ l[1] <= l[2]
             /\ IsFiniteSet(l[1]..l[2])
             /\ Bytes(b, l) \in Nat
  <2>1. l \in Lines(b) /\ IsValue(SubSeq(b, l[1], l[2]))
    BY DEF Values
  <2>2. l[1] \in 1..Len(b) + 1 /\ l[2] \in 0..Len(b)
    BY <2>1, LineBounds
  <2>3. Len(SubSeq(b, l[1], l[2])) >= 2
    BY <2>1, ValueLength
  <2>4. l[1] <= l[2]
    <3> HIDE DEF Atom
    <3>1. CASE l[1] > l[2]
      <4>1. Len(SubSeq(b, l[1], l[2])) = 0
        BY <1>0, <2>2, <3>1
      <4> QED
        BY <2>3, <4>1
    <3> QED
      BY <2>2, <3>1
  <2>5. IsFiniteSet(l[1]..l[2])
    <3>1. l[1] \in Int /\ l[2] \in Int
      BY <1>0, <2>2
    <3> QED
      BY <3>1, FS_Interval
  <2>6. Bytes(b, l) \in Nat
    <3>1. {k \in l[1]..l[2] : b[k] \in Plain}
             \in SUBSET (l[1]..l[2])
      OBVIOUS
    <3> QED
      BY <2>5, <3>1, FS_Subset, FS_CardinalityType DEF Bytes
  <2> QED
    BY <1>0, <2>1, <2>2, <2>4, <2>5, <2>6
<1> QED
  BY <1>3, <1>4

\* An atom is in one line only.
LEMMA LineInside ==
    ASSUME NEW b \in Body, NEW l \in Lines(b), NEW m \in Lines(b),
           NEW k \in Nat, k \in l[1]..l[2], k \in m[1]..m[2]
    PROVE  l[1] <= m[1] /\ m[2] <= l[2]
<1>0. /\ l[1] \in Nat /\ l[2] \in Nat /\ m[1] \in Nat /\ m[2] \in Nat
      /\ l[1] >= 1 /\ m[1] >= 1 /\ Len(b) \in Nat /\ m[2] <= Len(b)
  BY LineBounds, BodyType
<1>1. CASE l[1] > m[1]
  <2>1. l[1] - 1 \in m[1]..m[2] /\ l[1] # 1
    BY <1>0, <1>1
  <2>2. b[l[1] - 1] # "nl" /\ b[l[1] - 1] = "nl"
    BY <2>1, LineBounds
  <2> QED
    BY <2>2
<1>2. CASE m[2] > l[2]
  <2>1. l[2] + 1 \in m[1]..m[2] /\ l[2] # Len(b)
    BY <1>0, <1>2
  <2>2. b[l[2] + 1] # "nl" /\ b[l[2] + 1] = "nl"
    BY <2>1, LineBounds
  <2> QED
    BY <2>2
<1> QED
  BY <1>0, <1>1, <1>2

\* No two lines have an atom in common.
LEMMA OneLine ==
    ASSUME NEW b \in Body, NEW l \in Lines(b), NEW m \in Lines(b),
           NEW k \in Nat, k \in l[1]..l[2], k \in m[1]..m[2]
    PROVE  l = m
<1>1. l[1] <= m[1] /\ m[2] <= l[2] /\ m[1] <= l[1] /\ l[2] <= m[2]
  BY LineInside
<1>2. l[1] \in Nat /\ l[2] \in Nat /\ m[1] \in Nat /\ m[2] \in Nat
      /\ l = <<l[1], l[2]>> /\ m = <<m[1], m[2]>>
  BY LineBounds, BodyType
<1> QED
  BY <1>1, <1>2

\* The sum over one line more.
LEMMA PartInsert ==
    ASSUME NEW b \in Body, NEW T \in SUBSET Values(b),
           NEW l \in Values(b), l \notin T
    PROVE  /\ PartSum(b, T) \in Nat
           /\ PartSum(b, T \cup {l}) = (Bytes(b, l) + 3) \div 4 + PartSum(b, T)
<1> DEFINE U == T \cup {l}
           f == [m \in U |-> (Bytes(b, m) + 3) \div 4]
           e == [m \in T |-> (Bytes(b, m) + 3) \div 4]
<1>1. IsFiniteSet(U) /\ IsFiniteSet(T)
  BY ValueBounds, FS_Subset
<1>2. \A m \in U : (Bytes(b, m) + 3) \div 4 \in Nat
  BY ValueBounds
<1>3. f \in [U -> Nat] /\ e \in [T -> Nat]
  BY <1>2
<1>4. SumFunction(f) = f[l] + SumFunction([m \in U \ {l} |-> f[m]])
  <2> HIDE DEF f, U
  <2>1. l \in U
    BY DEF U
  <2> QED
    BY <1>1, <1>3, <2>1, SumInsert
<1>5. [m \in U \ {l} |-> f[m]] = e
  <2>1. U \ {l} = T
    OBVIOUS
  <2> QED
    BY <2>1
<1>6. SumFunction(e) \in Nat
  <2> HIDE DEF e
  <2>1. PICK g \in [SUBSET T -> Nat] :
            Summed(g, e, T) /\ SumFunction(e) = g[T]
    BY <1>1, <1>3, SumTaken
  <2>2. T \in SUBSET T
    OBVIOUS
  <2> QED
    BY <2>1, <2>2
<1> QED
  BY <1>4, <1>5, <1>6 DEF PartSum

-----------------------------------------------------------------------------
(* A tracker that looks at one line more.                                  *)

\* What one more line adds to what lies before it.
LineAdded(b, C, j, p) ==
    LET l == <<j + 1, p>> IN
    /\ l \notin ValuesTo(b, j)
    /\ ValuesTo(b, p) = ValuesTo(b, j) \cup ({l} \cap Values(b))
    /\ ReportsTo(b, p) = ReportsTo(b, j) \cup
          {k \in j + 1..p : l \in Values(b) /\ b[k] \in DOMAIN UsageOf}
    /\ CutsTo(b, C, p) = CutsTo(b, C, j) \cup
          {k \in Severed(b, C) \cap (j + 1..p) : l \in Values(b)}

\* A whole line adds itself and what is in it, if it is a JSON object.
LEMMA LineAdds ==
    ASSUME NEW b \in Body, NEW C \in SUBSET Inside(b),
           NEW j \in Nat, NEW p \in j..Len(b), <<j + 1, p>> \in Lines(b)
    PROVE  LineAdded(b, C, j, p)
<1> DEFINE l == <<j + 1, p>>
<1>0. /\ Len(b) \in Nat /\ DOMAIN b = 1..Len(b)
      /\ p \in Nat /\ j <= p /\ p <= Len(b)
      /\ l[1] = j + 1 /\ l[2] = p /\ l \in Lines(b)
  BY BodyType
<1> HIDE DEF l
<1>1. ASSUME NEW m \in Values(b), NEW k \in j + 1..p, k \in m[1]..m[2]
      PROVE  m = l
  <2>1. m \in Lines(b) /\ k \in Nat /\ k \in l[1]..l[2]
    BY <1>0, ValueBounds
  <2> QED
    BY <1>0, <1>1, <2>1, OneLine
<1>2. ASSUME NEW k \in j + 1..p
      PROVE  InValue(b, k) <=> l \in Values(b)
  <2>1. k \in l[1]..l[2]
    BY <1>0
  <2> QED
    BY <1>1, <2>1 DEF InValue
<1>3. \A m \in Values(b) : /\ m[1] \in Nat /\ m[2] \in Nat
                           /\ m[1] <= m[2] /\ m[1] >= 1
  BY <1>0, ValueBounds
<1>4. l \notin ValuesTo(b, j)
  <2>1. ASSUME l \in Values(b), l[2] <= j PROVE FALSE
    BY <1>0, <1>3, <2>1
  <2> QED
    BY <2>1 DEF ValuesTo
<1>5. ValuesTo(b, p) = ValuesTo(b, j) \cup ({l} \cap Values(b))
  <2>1. ASSUME NEW m \in Values(b), m[2] <= p, ~(m[2] <= j)
        PROVE  m = l
    <3>1. m[2] \in j + 1..p /\ m[2] \in m[1]..m[2]
      BY <1>0, <1>3, <2>1
    <3> QED
      BY <1>1, <3>1
  <2>2. ASSUME NEW m \in Values(b), m[2] <= j PROVE m[2] <= p
    BY <1>0, <1>3, <2>2
  <2> QED
    BY <1>0, <2>1, <2>2 DEF ValuesTo
<1>6. \A k \in DOMAIN b : k <= p <=> k <= j \/ k \in j + 1..p
  BY <1>0
<1>7. ReportsTo(b, p) = ReportsTo(b, j) \cup
         {k \in j + 1..p : l \in Values(b) /\ b[k] \in DOMAIN UsageOf}
  <2>1. \A k \in Reports(b) : k \in DOMAIN b
    BY DEF Reports
  <2>2. \A k \in j + 1..p : k \in DOMAIN b
    BY <1>0
  <2>3. \A k \in j + 1..p : k \in Reports(b) <=>
                l \in Values(b) /\ b[k] \in DOMAIN UsageOf
    BY <1>2, <2>2 DEF Reports
  <2> QED
    BY <1>6, <2>1, <2>2, <2>3 DEF ReportsTo
<1>8. CutsTo(b, C, p) = CutsTo(b, C, j) \cup
         {k \in Severed(b, C) \cap (j + 1..p) : l \in Values(b)}
  <2>1. \A k \in Severed(b, C) : k \in DOMAIN b
    BY SeveredIn DEF Byte
  <2> QED
    BY <1>2, <1>6, <2>1 DEF CutsTo
<1> QED
  BY <1>4, <1>5, <1>7, <1>8 DEF l, LineAdded

\* A body has finitely many cuts.
LEMMA CutsFinite ==
    ASSUME NEW b \in Body, NEW C \in SUBSET Inside(b), NEW j
    PROVE  IsFiniteSet(CutsTo(b, C, j)) /\ Cardinality(CutsTo(b, C, j)) \in Nat
<1>1. IsFiniteSet(1..Len(b))
  BY BodyType, FS_Interval
<1>2. CutsTo(b, C, j) \subseteq 1..Len(b)
  BY BodyType, SeveredIn DEF CutsTo, Byte
<1> QED
  BY <1>1, <1>2, FS_Subset, FS_CardinalityType

\* Looking at one more line keeps the count.
LEMMA ObserveCounts ==
    ASSUME NEW b \in Body, NEW C \in SUBSET Inside(b), NEW j, NEW p, NEW line,
           ArrivedLine(line, b, C, j, p), WholeLine(b, p),
           NEW t \in Tracker, Counted(t, b, C, j)
    PROVE  Counted(ObserveLine(t, line), b, C, p)
<1> DEFINE l == <<j + 1, p>>
           u == ObserveLine(t, line)
           D == {k \in j + 1..p : b[k] \in DOMAIN UsageOf}
           E == Severed(b, C) \cap (j + 1..p)
<1>0. /\ Len(b) \in Nat /\ DOMAIN b = 1..Len(b)
      /\ j \in Nat /\ p \in j..Len(b) /\ p \in Nat /\ j <= p /\ p <= Len(b)
  BY BodyType DEF ArrivedLine
<1>1. l \in Lines(b) /\ (IsValue(line) <=> l \in Values(b))
  BY LineValue
<1>2. /\ l \notin ValuesTo(b, j)
      /\ ValuesTo(b, p) = ValuesTo(b, j) \cup ({l} \cap Values(b))
      /\ ReportsTo(b, p) = ReportsTo(b, j) \cup {k \in D : l \in Values(b)}
      /\ CutsTo(b, C, p) = CutsTo(b, C, j) \cup {k \in E : l \in Values(b)}
  <2>1. {k \in D : l \in Values(b)}
           = {k \in j + 1..p : l \in Values(b) /\ b[k] \in DOMAIN UsageOf}
    OBVIOUS
  <2>2. /\ l \notin ValuesTo(b, j)
        /\ ValuesTo(b, p) = ValuesTo(b, j) \cup ({l} \cap Values(b))
        /\ ReportsTo(b, p) = ReportsTo(b, j) \cup
              {k \in j + 1..p : l \in Values(b) /\ b[k] \in DOMAIN UsageOf}
        /\ CutsTo(b, C, p) = CutsTo(b, C, j) \cup {k \in E : l \in Values(b)}
    <3>1. LineAdded(b, C, j, p)
      BY <1>0, <1>1, LineAdds
    <3> QED
      BY <3>1 DEF LineAdded
  <2> HIDE DEF l, D
  <2> QED
    BY <2>1, <2>2
<1>3. \A n : n \in Usages(line) <=> \E k \in D : n = UsageOf[b[k]]
  <2>1. \A n : n \in Usages(line) <=>
               \E k \in j + 1..p :
                  b[k] \in DOMAIN UsageOf /\ n = UsageOf[b[k]]
    BY LineUsages
  <2> QED
    BY <2>1
<1>a. /\ Cardinality(E) \in Nat /\ Bytes(b, l) \in Nat
      /\ \E e \in 0..2 * Cardinality(E) :
            Approximate(TextLen(line)) = (Bytes(b, l) + 3) \div 4 + e
  <2>1. ArrivedLine(line, b, C, j, p) /\ WholeLine(b, p)
    OBVIOUS
  <2>2. Cardinality(E) \in Nat
    BY <2>1, LineLength
  <2>3. Bytes(b, l) \in Nat
    BY <2>1, LineLength
  <2>4. \E e \in 0..2 * Cardinality(E) :
            Approximate(TextLen(line)) = (Bytes(b, l) + 3) \div 4 + e
    BY <2>1, LineLength
  <2> QED BY <2>2, <2>3, <2>4
<1> HIDE DEF l, D, E
<1>4. CASE ~IsValue(line)
  <2>1. u = t
    BY <1>4 DEF ObserveLine
  <2>2. /\ ValuesTo(b, p) = ValuesTo(b, j) /\ ReportsTo(b, p) = ReportsTo(b, j)
        /\ CutsTo(b, C, p) = CutsTo(b, C, j)
    BY <1>1, <1>2, <1>4
  <2> HIDE DEF u
  <2> QED
    BY <2>1, <2>2 DEF Counted, u
<1>5. CASE IsValue(line) /\ Usages(line) # {}
  <2>1. u = [t EXCEPT !.usage = Usages(line)]
    BY <1>5 DEF ObserveLine
  <2>2. u.usage = Usages(line)
    BY <2>1 DEF Tracker
  <2>3. ReportsTo(b, p) = ReportsTo(b, j) \cup D
    BY <1>1, <1>2, <1>5
  <2>4. PICK d \in D : TRUE
    BY <1>3, <1>5
  <2>5. ASSUME NEW k \in ReportsTo(b, p), \A i \in ReportsTo(b, p) : i <= k
        PROVE  u.usage = {UsageOf[b[k]]}
    <3>1. k \in D
      <4>1. d <= k
        BY <2>3, <2>4, <2>5
      <4>2. k \in 1..Len(b) /\ d \in j + 1..p
        BY <1>0, <2>4 DEF ReportsTo, Reports, D
      <4>3. ~(k <= j)
        BY <1>0, <4>1, <4>2
      <4> QED
        BY <2>3, <4>3 DEF ReportsTo
    <3>2. ASSUME NEW i \in D PROVE i = k
      <4>1. /\ i \in j + 1..p /\ k \in j + 1..p
            /\ b[i] \in DOMAIN UsageOf /\ b[k] \in DOMAIN UsageOf
        BY <3>1 DEF D
      <4>2. i \in DOMAIN b /\ k \in DOMAIN b /\ i \in Nat /\ k \in Nat
        BY <1>0, <4>1
      <4>3. i <= k
        BY <2>3, <2>5
      <4>4. ASSUME i # k PROVE FALSE
        <5>1. k \in i + 1..Len(b)
          BY <1>0, <4>2, <4>3, <4>4
        <5>2. PICK m \in i..k : b[m] = "nl"
          BY <4>1, <4>2, <5>1, BodyAssumption
        <5>3. m \in j + 1..p
          BY <1>0, <4>1, <4>2
        <5> QED
          BY <5>2, <5>3 DEF ArrivedLine
      <4> QED
        BY <4>4
    <3>3. \A n : n \in Usages(line) <=> n = UsageOf[b[k]]
      BY <1>3, <3>1, <3>2
    <3> QED
      BY <2>2, <3>3
  <2>6. ReportsTo(b, p) # {}
    BY <2>3, <2>4
  <2> HIDE DEF u
  <2> QED
    BY <2>5, <2>6 DEF Counted, u
<1>6. CASE IsValue(line) /\ Usages(line) = {}
  <2>1. u = [t EXCEPT !.acc = @ + Approximate(TextLen(line)),
                     !.started = @ \/ HasText(line)]
    BY <1>6 DEF ObserveLine
  <2>2. u.usage = t.usage /\ u.acc = t.acc + Approximate(TextLen(line))
    BY <2>1 DEF Tracker
  <2>3. D = {}
    BY <1>3, <1>6
  <2>4. ReportsTo(b, p) = ReportsTo(b, j)
    BY <1>2, <2>3
  <2>5. /\ ValuesTo(b, p) = ValuesTo(b, j) \cup {l} /\ l \in Values(b)
        /\ CutsTo(b, C, p) = CutsTo(b, C, j) \cup E
    BY <1>1, <1>2, <1>6
  <2>6. /\ PartSum(b, ValuesTo(b, j)) \in Nat
        /\ PartSum(b, ValuesTo(b, p))
              = (Bytes(b, l) + 3) \div 4 + PartSum(b, ValuesTo(b, j))
    <3>1. ValuesTo(b, j) \in SUBSET Values(b)
      BY DEF ValuesTo
    <3> QED
      BY <1>2, <2>5, <3>1, PartInsert
  <2>7. /\ Cardinality(CutsTo(b, C, j)) \in Nat
        /\ Cardinality(CutsTo(b, C, p))
              = Cardinality(CutsTo(b, C, j)) + Cardinality(E)
    <3>1. CutsTo(b, C, j) \cap E = {}
      BY <1>0 DEF CutsTo, E
    <3>2. IsFiniteSet(CutsTo(b, C, p)) /\ E \in SUBSET CutsTo(b, C, p)
      BY <2>5, CutsFinite
    <3>3. IsFiniteSet(E)
      BY <3>2, FS_Subset
    <3> QED
      BY <2>5, <3>1, <3>3, CutsFinite, DisjointCardinality
  <2>9. ASSUME ReportsTo(b, p) = {}
        PROVE  /\ u.usage = {}
               /\ \E e \in 0..2 * Cardinality(CutsTo(b, C, p)) :
                     u.acc = PartSum(b, ValuesTo(b, p)) + e
    <3>1. /\ t.usage = {}
          /\ \E e \in 0..2 * Cardinality(CutsTo(b, C, j)) :
                t.acc = PartSum(b, ValuesTo(b, j)) + e
      BY <2>4, <2>9 DEF Counted
    <3>2. PICK e \in 0..2 * Cardinality(CutsTo(b, C, j)) :
              t.acc = PartSum(b, ValuesTo(b, j)) + e
      BY <3>1
    <3>3. PICK f \in 0..2 * Cardinality(E) :
              Approximate(TextLen(line)) = (Bytes(b, l) + 3) \div 4 + f
      BY <1>a
    <3>4. e + f \in 0..2 * Cardinality(CutsTo(b, C, p))
      BY <1>a, <2>7
    <3>5. ASSUME NEW x \in Nat, NEW y \in Nat, NEW z \in Nat, NEW v \in Nat
          PROVE  (x + y) + ((z + 3) \div 4 + v) = ((z + 3) \div 4 + x) + (y + v)
      OBVIOUS
    <3> HIDE DEF u
    <3>6. e \in Nat /\ f \in Nat
      BY <1>a, <2>7
    <3>7. u.acc = PartSum(b, ValuesTo(b, p)) + (e + f)
      BY <1>a, <2>2, <2>6, <3>2, <3>3, <3>5, <3>6
    <3> QED
      BY <2>2, <3>1, <3>4, <3>7
  <2> HIDE DEF u
  <2> QED
    BY <2>2, <2>4, <2>9 DEF Counted, u
<1> QED
  BY <1>4, <1>5, <1>6

-----------------------------------------------------------------------------
(* A tracker that is given one atom, one chunk, or the end of the body.    *)

\* The end of a line adds nothing.
LEMMA NextLine ==
    ASSUME NEW b \in Body, NEW C \in SUBSET Inside(b), NEW p \in Nat,
           p < Len(b), b[p + 1] = "nl", NEW t, Counted(t, b, C, p)
    PROVE  Counted(t, b, C, p + 1)
<1>0. Len(b) \in Nat /\ DOMAIN b = 1..Len(b)
  BY BodyType
<1>1. ValuesTo(b, p + 1) = ValuesTo(b, p)
  <2>1. ASSUME NEW l \in Values(b)
        PROVE  l[2] <= p + 1 <=> l[2] <= p
    <3>1. l[2] \in l[1]..l[2] /\ l \in Lines(b) /\ l[2] \in Nat
      BY <1>0, ValueBounds
    <3>2. b[l[2]] # "nl"
      BY <3>1, LineBounds
    <3>3. l[2] # p + 1
      BY <3>2
    <3> QED
      BY <3>1, <3>3
  <2> QED
    BY <2>1 DEF ValuesTo
<1>2. ~InValue(b, p + 1)
  <2>1. ASSUME NEW l \in Values(b), p + 1 \in l[1]..l[2] PROVE FALSE
    <3>1. l \in Lines(b)
      BY ValueBounds
    <3> QED
      BY <2>1, <3>1, LineBounds
  <2> QED
    BY <2>1 DEF InValue
<1>3. \A k \in 1..Len(b) : k <= p + 1 <=> k <= p \/ k = p + 1
  BY <1>0
<1>4. ReportsTo(b, p + 1) = ReportsTo(b, p)
  <2>1. \A k \in Reports(b) : k \in 1..Len(b) /\ InValue(b, k)
    BY <1>0 DEF Reports
  <2> QED
    BY <1>2, <1>3, <2>1 DEF ReportsTo
<1>5. CutsTo(b, C, p + 1) = CutsTo(b, C, p)
  <2>1. \A k \in Severed(b, C) : k \in 1..Len(b)
    BY <1>0, SeveredIn DEF Byte
  <2> QED
    BY <1>2, <1>3, <2>1 DEF CutsTo
<1> QED
  BY <1>1, <1>4, <1>5 DEF Counted

\* A tracker that was given the first p atoms of a body: it has looked at the
\* lines that ended among them, and the rest is in its buffer.
Tracked(t, b, C, p) ==
    \E j \in Nat : ArrivedLine(t.buf, b, C, j, p) /\ Counted(t, b, C, j)

\* A tracker with its buffer taken out has counted the same.
LEMMA BufferTaken ==
    ASSUME NEW t \in Tracker, NEW q \in Seq(Atom), NEW b, NEW C, NEW j,
           Counted(t, b, C, j)
    PROVE  /\ [t EXCEPT !.buf = q] \in Tracker
           /\ Counted([t EXCEPT !.buf = q], b, C, j)
<1> DEFINE u == [t EXCEPT !.buf = q]
<1>1. u \in Tracker /\ u.acc = t.acc /\ u.usage = t.usage
  BY DEF Tracker
<1> HIDE DEF u
<1> QED
  BY <1>1 DEF Counted, u

\* The next atom keeps that.
LEMMA FeedTracks ==
    ASSUME NEW b \in Body, NEW C \in SUBSET Inside(b), NEW p \in Nat, p < Len(b),
           NEW t \in Tracker, Tracked(t, b, C, p)
    PROVE  /\ Feed(t, Arrived(b, C, p + 1)) \in Tracker
           /\ Tracked(Feed(t, Arrived(b, C, p + 1)), b, C, p + 1)
<1> DEFINE a == Arrived(b, C, p + 1)
           u == Feed(t, a)
<1>0. /\ Len(b) \in Nat /\ DOMAIN b = 1..Len(b) /\ p + 1 \in 1..Len(b)
      /\ p + 1 \in Nat /\ t.buf \in Seq(Atom)
  BY BodyType DEF Tracker
<1>1. PICK j \in Nat : ArrivedLine(t.buf, b, C, j, p) /\ Counted(t, b, C, j)
  BY DEF Tracked
<1>2. /\ a \in Atom
      /\ a \in {"replaced", "merged"} => b[p + 1] \in DOMAIN ByteOf
      /\ a \notin {"replaced", "merged"} => a = b[p + 1]
  BY <1>0, ArrivedAtom DEF Byte
<1>3. u \in Tracker
  BY <1>2, FeedBound
<1>4. p \in j..Len(b)
  BY <1>1 DEF ArrivedLine
<1> HIDE DEF a
<1>5. CASE a = "nl"
  <2>1. b[p + 1] = "nl"
    BY <1>2, <1>5
  <2> DEFINE e == [t EXCEPT !.buf = <<>>]
  <2>2. <<>> \in Seq(Atom)
    OBVIOUS
  <2>3. e \in Tracker /\ Counted(e, b, C, j)
    BY <1>1, <2>2, BufferTaken
  <2>4. e.buf = <<>>
    BY DEF Tracker
  <2>5. u = ObserveLine(e, t.buf)
    BY <1>5 DEF Feed
  <2> HIDE DEF e, u
  <2>6. WholeLine(b, p)
    BY <2>1 DEF WholeLine
  <2>7. Counted(u, b, C, p)
    BY <1>1, <2>3, <2>5, <2>6, ObserveCounts
  <2>8. Counted(u, b, C, p + 1)
    BY <2>1, <2>7, NextLine
  <2>9. u.buf = <<>>
    BY <1>0, <2>3, <2>4, <2>5, ObserveLineBound
  <2>10. ArrivedLine(<<>>, b, C, p + 1, p + 1)
    <3>1. (p + 1) - (p + 1) = 0 /\ 1..0 = {} /\ (p + 1) + 1..p + 1 = {}
      BY <1>0
    <3>2. p + 1 \in p + 1..Len(b)
      BY <1>0
    <3>3. Len(<<>>) = 0
      OBVIOUS
    <3> QED
      BY <1>0, <2>1, <2>2, <3>1, <3>2, <3>3 DEF ArrivedLine, Boundary
  <2> QED
    <3>1. Tracked(u, b, C, p + 1)
      BY <1>0, <2>8, <2>9, <2>10 DEF Tracked
    <3> QED
      BY <1>3, <3>1 DEF u, a
<1>6. CASE a # "nl"
  <2>1. b[p + 1] # "nl"
    BY <1>2, <1>6, MarkFacts
  <2> DEFINE q == Append(t.buf, a)
  <2>2. /\ q \in Seq(Atom) /\ Len(q) = Len(t.buf) + 1
        /\ \A i \in 1..Len(t.buf) : q[i] = t.buf[i]
        /\ q[Len(t.buf) + 1] = a
    <3> HIDE DEF Atom
    <3> QED
      BY <1>0, <1>2
  <2>3. u = [t EXCEPT !.buf = q]
    BY <1>6 DEF Feed
  <2> HIDE DEF q
  <2>4. Counted(u, b, C, j)
    BY <1>1, <2>2, <2>3, BufferTaken
  <2>5. u.buf = q
    BY <2>3 DEF Tracker
  <2>6. ArrivedLine(q, b, C, j, p + 1)
    <3>1. /\ Len(t.buf) = p - j
          /\ \A i \in 1..p - j : t.buf[i] = Arrived(b, C, j + i)
          /\ Boundary(b, j)
          /\ \A k \in j + 1..p : b[k] # "nl"
      BY <1>1 DEF ArrivedLine
    <3>2. ASSUME NEW i \in 1..(p + 1) - j
          PROVE  i \in 1..p - j \/ (i = (p - j) + 1 /\ j + i = p + 1)
      BY <1>4
    <3>3. ASSUME NEW k \in j + 1..p + 1
          PROVE  k \in j + 1..p \/ k = p + 1
      BY <1>4
    <3>4. Len(q) = (p + 1) - j /\ p + 1 \in j..Len(b)
      BY <1>0, <1>4, <2>2, <3>1
    <3>5. \A i \in 1..(p + 1) - j : q[i] = Arrived(b, C, j + i)
      <4> SUFFICES ASSUME NEW i \in 1..(p + 1) - j
                   PROVE  q[i] = Arrived(b, C, j + i)
        OBVIOUS
      <4>1. CASE i \in 1..p - j
        <5>1. i \in 1..Len(t.buf)
          BY <3>1, <4>1
        <5>2. q[i] = t.buf[i]
          BY <2>2, <5>1
        <5> QED
          BY <3>1, <4>1, <5>2
      <4>2. CASE i = (p - j) + 1 /\ j + i = p + 1
        <5>1. i = Len(t.buf) + 1
          BY <3>1, <4>2
        <5>2. q[i] = a
          <6>1. q[Len(t.buf) + 1] = a
            BY <2>2
          <6> QED
            BY <5>1, <6>1
        <5> QED
          BY <4>2, <5>2 DEF a
      <4> QED
        BY <3>2, <4>1, <4>2
    <3>6. \A k \in j + 1..p + 1 : b[k] # "nl"
      BY <2>1, <3>1, <3>3
    <3> QED
      BY <2>2, <3>1, <3>4, <3>5, <3>6 DEF ArrivedLine
  <2> HIDE DEF u
  <2> QED
    BY <1>3, <2>4, <2>5, <2>6 DEF Tracked, u, a
<1> QED
  BY <1>5, <1>6

\* C is where chunks ended inside a character, up to the one that ended with
\* atom g.
CutUpTo(b, C, g) ==
    /\ C \in SUBSET Inside(b)
    /\ \A k \in C : k <= g
    /\ g \in Inside(b) => g \in C

\* And so may the chunk that ends with atom m.
CutAlso(b, C, m) == C \cup ({m} \cap Inside(b))

\* What CutAlso adds.
LEMMA CutMore ==
    ASSUME NEW b \in Body, NEW C, NEW g \in Nat, NEW m \in g + 1..Len(b),
           CutUpTo(b, C, g)
    PROVE  /\ CutUpTo(b, CutAlso(b, C, m), m)
           /\ C \subseteq CutAlso(b, C, m) /\ C \in SUBSET Inside(b)
           /\ \A c \in CutAlso(b, C, m) :
                 /\ c \in Byte(b) /\ c \in Nat /\ At(b, c) < Of(b, c)
                 /\ c \in C \/ (c = m /\ m \in Inside(b))
           /\ \A c \in C : c \in Nat /\ c <= g
           /\ g < m /\ m \in Nat /\ m \in 1..Len(b)
<1>0. /\ Len(b) \in Nat /\ DOMAIN b = 1..Len(b)
      /\ m \in 1..Len(b) /\ m \in Nat /\ g < m
  BY BodyType
<1>1. ASSUME NEW c \in CutAlso(b, C, m)
      PROVE  /\ c \in Byte(b) /\ c \in Nat /\ At(b, c) < Of(b, c)
             /\ c \in C \/ (c = m /\ m \in Inside(b))
  <2>1. c \in Inside(b) /\ (c \in C \/ (c = m /\ m \in Inside(b)))
    BY DEF CutAlso, CutUpTo
  <2>2. c \in Byte(b) /\ At(b, c) < Of(b, c)
    BY <2>1 DEF Inside
  <2> QED
    BY <2>1, <2>2, CharacterOf
<1>2. \A c \in C : c \in Nat /\ c <= g
  BY <1>1 DEF CutUpTo, CutAlso
<1>3. CutUpTo(b, CutAlso(b, C, m), m)
  BY <1>0, <1>1, <1>2 DEF CutUpTo, CutAlso
<1> QED
  BY <1>0, <1>1, <1>2, <1>3 DEF CutUpTo, CutAlso

\* A chunk that does not hold the whole of a character ends, or follows one that
\* ended, inside it.
LEMMA CutKnown ==
    ASSUME NEW b \in Body, NEW C, NEW g \in Nat, CutUpTo(b, C, g),
           NEW k \in Byte(b), k > g, Start(b, k) <= g
    PROVE  g \in C /\ Start(b, g) = Start(b, k)
<1>1. /\ k \in Nat /\ Start(b, k) \in Nat /\ Of(b, k) \in Nat
      /\ At(b, k) \in Nat /\ At(b, k) <= Of(b, k)
      /\ k = Start(b, k) + At(b, k) - 1
  BY CharacterOf
<1>2. g < Start(b, k) + Of(b, k)
  BY <1>1
<1>3. /\ g \in Byte(b) /\ Start(b, g) = Start(b, k)
      /\ Of(b, g) = Of(b, k) /\ At(b, g) = g + 1 - Start(b, k)
  BY <1>2, Between
<1>4. At(b, g) < Of(b, g)
  BY <1>1, <1>3
<1> QED
  BY <1>3, <1>4 DEF CutUpTo, Inside

\* The text of the next chunk is what the cuts leave of it.
LEMMA LossyArrived ==
    ASSUME NEW b \in Body, NEW C, NEW g \in Nat, NEW m \in g + 1..Len(b),
           CutUpTo(b, C, g), NEW i \in 1..m - g
    PROVE  Lossy(SubSeq(b, g + 1, m))[i] = Arrived(b, CutAlso(b, C, m), g + i)
<1> DEFINE q == SubSeq(b, g + 1, m)
           k == g + i
           D == CutAlso(b, C, m)
<1>0. /\ Len(b) \in Nat /\ DOMAIN b = 1..Len(b) /\ b \in Seq(Atom)
      /\ k \in g + 1..m /\ k \in 1..Len(b) /\ k \in Nat
      /\ m \in 1..Len(b) /\ m \in Nat /\ g < m /\ k > g /\ k <= m
      /\ i \in Nat /\ i = k - g
  BY BodyType
<1>1. DOMAIN q = 1..m - g /\ Len(q) = m - g
  <2> HIDE DEF Atom
  <2> QED
    BY <1>0
<1>2. q[i] = b[k]
  <2> HIDE DEF Atom
  <2>1. q[i] = b[g + 1 + i - 1] /\ g + 1 + i - 1 = g + i
    BY <1>0
  <2> QED
    BY <2>1
<1>3. Lossy(q)[i] = IF b[k] \notin DOMAIN ByteOf \/ Uncut(q, i) THEN b[k]
                    ELSE IF At(b, k) = 1 \/ i < At(b, k)
                         THEN "replaced" ELSE "merged"
  BY <1>1, <1>2 DEF Lossy, At
<1>4. Uncut(q, i) <=> At(b, k) <= i /\ i + Of(b, k) <= (m - g) + At(b, k)
  BY <1>1, <1>2 DEF Uncut, At, Of
<1> HIDE DEF q, D, k
<1>5. CASE k \notin Byte(b)
  <2>1. b[k] \notin DOMAIN ByteOf
    BY <1>0, <1>5 DEF Byte
  <2>2. Arrived(b, D, k) = b[k] /\ Lossy(q)[i] = b[k]
    BY <1>3, <2>1 DEF Arrived
  <2> QED
    BY <2>2 DEF q, D, k
<1>6. CASE k \in Byte(b)
  <2>0. b[k] \in DOMAIN ByteOf
    BY <1>6 DEF Byte
  <2>1. /\ Start(b, k) \in Nat /\ At(b, k) \in Nat /\ Of(b, k) \in Nat
        /\ At(b, k) <= Of(b, k) /\ k = Start(b, k) + At(b, k) - 1
        /\ Start(b, k) <= k
    BY <1>6, CharacterOf
  <2>2. i < At(b, k) <=> Start(b, k) <= g
    BY <1>0, <2>1
  <2>3. Uncut(q, i) <=> /\ Start(b, k) > g
                        /\ Start(b, k) + Of(b, k) <= m + 1
    BY <1>0, <1>4, <2>1
  <2>4. /\ \A c \in C : c \in D /\ c \in Nat /\ c <= g
        /\ \A c \in D : /\ c \in Byte(b) /\ c \in Nat
                        /\ At(b, c) < Of(b, c)
                        /\ c \in C \/ (c = m /\ m \in Inside(b))
    BY CutMore DEF D
  <2>5. ASSUME Start(b, k) <= g
        PROVE  Severs(b, D, k) /\ SeversBefore(b, D, k)
    <3>1. g \in C /\ Start(b, g) = Start(b, k)
      BY <1>0, <1>6, <2>5, CutKnown
    <3> QED
      BY <1>0, <2>4, <3>1 DEF Severs, SeversBefore
  <2>6. ASSUME NEW c \in D, Start(b, c) = Start(b, k)
        PROVE  /\ c \in Nat /\ Start(b, k) <= c
               /\ c + 1 < Start(b, k) + Of(b, k)
               /\ c \in C => Start(b, k) <= g
               /\ c < k => Start(b, k) <= g
    <3>1. /\ c \in Byte(b) /\ c \in Nat /\ At(b, c) < Of(b, c)
      BY <2>4
    <3>2. /\ At(b, c) \in Nat /\ At(b, c) >= 1
          /\ c = Start(b, k) + At(b, c) - 1
          /\ Of(b, c) = Of(b, k)
      BY <1>6, <2>6, <3>1, CharacterOf, SameCharacter
    <3>3. c \in C => Start(b, k) <= g
      BY <2>1, <2>4, <3>1, <3>2
    <3>4. c < k => c \in C
      BY <1>0, <2>4
    <3> QED
      BY <2>1, <3>1, <3>2, <3>3, <3>4
  <2>7. SeversBefore(b, D, k) <=> Start(b, k) <= g
    BY <2>5, <2>6 DEF SeversBefore
  <2>8. Severs(b, D, k) <=> ~Uncut(q, i)
    <3>1. ASSUME Severs(b, D, k), Uncut(q, i) PROVE FALSE
      <4>1. PICK c \in D : Start(b, c) = Start(b, k)
        BY <3>1 DEF Severs
      <4>2. c \notin C
        BY <2>1, <2>3, <2>6, <3>1, <4>1
      <4>3. c = m
        BY <2>4, <4>2
      <4> QED
        BY <1>0, <2>1, <2>3, <2>6, <3>1, <4>1, <4>3
    <3>2. ASSUME ~Uncut(q, i), ~(Start(b, k) <= g) PROVE Severs(b, D, k)
      <4>1. Start(b, k) + Of(b, k) > m + 1
        BY <1>0, <2>1, <2>3, <3>2
      <4>2. Start(b, k) <= m /\ m < Start(b, k) + Of(b, k)
        BY <1>0, <2>1, <4>1
      <4>3. /\ m \in Byte(b) /\ Start(b, m) = Start(b, k)
            /\ Of(b, m) = Of(b, k) /\ At(b, m) = m + 1 - Start(b, k)
        BY <1>0, <1>6, <4>2, Between
      <4>4. m \in Inside(b)
        BY <1>0, <2>1, <4>1, <4>3 DEF Inside
      <4>5. m \in D
        BY <4>4 DEF D, CutAlso
      <4> QED
        BY <4>3, <4>5 DEF Severs
    <3> QED
      BY <2>5, <3>1, <3>2
  <2>9. Lossy(q)[i] = Arrived(b, D, k)
    BY <1>3, <2>0, <2>2, <2>7, <2>8 DEF Arrived
  <2> QED
    BY <2>9 DEF q, D, k
<1> QED
  BY <1>5, <1>6

\* A chunk changes nothing of what arrived before it.
LEMMA ArrivedKept ==
    ASSUME NEW b \in Body, NEW C, NEW g \in Nat, NEW m \in g + 1..Len(b),
           CutUpTo(b, C, g), NEW k \in 1..Len(b), k <= g
    PROVE  Arrived(b, CutAlso(b, C, m), k) = Arrived(b, C, k)
<1> DEFINE D == CutAlso(b, C, m)
<1>1. /\ \A c \in C : c \in D
      /\ \A c \in D : /\ c \in Byte(b) /\ c \in Nat
                      /\ c \in C \/ (c = m /\ m \in Inside(b))
      /\ g < m /\ m \in Nat
  BY CutMore
<1>2. ASSUME NEW c \in D, Start(b, c) = Start(b, k), k \in Byte(b)
      PROVE  Severs(b, C, k) /\ (c < k => c \in C)
  <2>1. CASE c \in C
    BY <1>2, <2>1 DEF Severs
  <2>2. CASE c = m
    <3>1. m \in Byte(b) /\ m > g
      BY <1>1, <2>2
    <3>2. k \in Nat /\ Start(b, k) <= k /\ Start(b, k) \in Nat
      BY <1>2, CharacterOf
    <3>3. Start(b, m) <= g
      BY <1>2, <2>2, <3>2
    <3>4. g \in C /\ Start(b, g) = Start(b, m)
      BY <3>1, <3>3, CutKnown
    <3>5. ~(c < k)
      BY <1>1, <2>2, <3>2
    <3> QED
      BY <1>2, <2>2, <3>4, <3>5 DEF Severs
  <2> QED
    BY <1>1, <2>1, <2>2
<1> HIDE DEF D
<1>3. CASE k \in Byte(b)
  <2>1. Severs(b, D, k) <=> Severs(b, C, k)
    BY <1>1, <1>2, <1>3 DEF Severs
  <2>2. SeversBefore(b, D, k) <=> SeversBefore(b, C, k)
    BY <1>1, <1>2, <1>3 DEF SeversBefore
  <2>3. Arrived(b, D, k) = Arrived(b, C, k)
    BY <2>1, <2>2 DEF Arrived
  <2> QED
    BY <2>3 DEF D
<1>4. CASE k \notin Byte(b)
  <2>1. b[k] \notin DOMAIN ByteOf
    BY <1>4, BodyType DEF Byte
  <2>2. Arrived(b, D, k) = b[k] /\ Arrived(b, C, k) = b[k]
    BY <2>1 DEF Arrived
  <2> QED
    BY <2>2 DEF D
<1> QED
  BY <1>3, <1>4

\* The end of a chunk adds the character it cuts, unless it was cut before.
LEMMA SeveredMore ==
    ASSUME NEW b \in Body, NEW C, NEW g \in Nat, NEW m \in g + 1..Len(b),
           CutUpTo(b, C, g)
    PROVE  /\ \A k \in Severed(b, C) : k \in Nat /\ k <= g
           /\ Severed(b, CutAlso(b, C, m)) = Severed(b, C) \cup
                 (IF m \in Inside(b) /\ Start(b, m) > g
                  THEN {Start(b, m)} ELSE {})
<1> DEFINE D == CutAlso(b, C, m)
<1>1. /\ \A c \in C : c \in D /\ c \in Nat /\ c <= g
      /\ \A c \in D : /\ c \in Byte(b)
                      /\ c \in C \/ (c = m /\ m \in Inside(b))
      /\ g < m /\ m \in Nat
  BY CutMore
<1>2. \A c \in D : Start(b, c) \in Nat /\ Start(b, c) <= c
  BY <1>1, CharacterOf
<1>3. \A k \in Severed(b, C) : k \in Nat /\ k <= g
  BY <1>1, <1>2 DEF Severed
<1>4. m \in Inside(b) => m \in D
  BY DEF CutAlso
<1>5. ASSUME m \in Inside(b), ~(Start(b, m) > g)
      PROVE  Start(b, m) \in Severed(b, C)
  <2>1. m \in Byte(b) /\ m > g /\ Start(b, m) <= g
    BY <1>1, <1>2, <1>4, <1>5
  <2>2. g \in C /\ Start(b, g) = Start(b, m)
    BY <2>1, CutKnown
  <2> QED
    BY <2>2 DEF Severed
<1> HIDE DEF D
<1>6. Severed(b, D) = Severed(b, C) \cup
          (IF m \in Inside(b) /\ Start(b, m) > g THEN {Start(b, m)} ELSE {})
  BY <1>1, <1>4, <1>5 DEF Severed
<1> QED
  BY <1>3, <1>6 DEF D

\* A chunk is tracked atom by atom.
LEMMA ChunkTracks ==
    ASSUME NEW b \in Body, NEW C, NEW g \in Nat, NEW m \in g + 1..Len(b),
           CutUpTo(b, C, g), NEW t \in Tracker, Tracked(t, b, C, g)
    PROVE  /\ CutUpTo(b, CutAlso(b, C, m), m)
           /\ Tracked(ObserveChunk(t, SubSeq(b, g + 1, m)), b,
                      CutAlso(b, C, m), m)
<1> DEFINE D == CutAlso(b, C, m)
           r == Lossy(SubSeq(b, g + 1, m))
<1>0. /\ Len(b) \in Nat /\ DOMAIN b = 1..Len(b) /\ b \in Seq(Atom)
      /\ m \in 1..Len(b) /\ m \in Nat /\ g < m /\ m <= Len(b)
  BY BodyType
<1>1. CutUpTo(b, D, m)
  BY CutMore
<1>2. D \in SUBSET Inside(b) /\ C \in SUBSET Inside(b)
  BY <1>1 DEF CutUpTo
<1>3. \A k \in 1..Len(b) : k <= g => Arrived(b, D, k) = Arrived(b, C, k)
  BY ArrivedKept
<1>a. \A k \in Nat : k <= g => (k \in Severed(b, D) <=> k \in Severed(b, C))
  BY SeveredMore
<1>4. \A i \in 1..m - g : r[i] = Arrived(b, D, g + i)
  BY LossyArrived
<1>5. r \in Seq(Atom) /\ Len(r) = m - g
  <2>1. SubSeq(b, g + 1, m) \in Seq(Atom) /\ Len(SubSeq(b, g + 1, m)) = m - g
    <3> HIDE DEF Atom
    <3> QED
      BY <1>0
  <2> QED
    BY <2>1, LossyType
<1>6. ObserveChunk(t, SubSeq(b, g + 1, m)) = FoldLeft(Feed, t, r)
  BY DEF ObserveChunk
<1> HIDE DEF D, r
<1>7. Tracked(t, b, D, g)
  <2>1. PICK j \in Nat : ArrivedLine(t.buf, b, C, j, g) /\ Counted(t, b, C, j)
    BY DEF Tracked
  <2>2. g \in j..Len(b)
    BY <2>1 DEF ArrivedLine
  <2>3. ASSUME NEW i \in 1..g - j
        PROVE  Arrived(b, D, j + i) = Arrived(b, C, j + i)
    <3>1. j + i \in 1..Len(b) /\ j + i <= g
      BY <1>0, <2>2
    <3> QED
      BY <1>3, <3>1
  <2>4. ArrivedLine(t.buf, b, D, j, g)
    BY <2>1, <2>3 DEF ArrivedLine
  <2>5. CutsTo(b, D, j) = CutsTo(b, C, j)
    <3>1. ASSUME NEW k \in Byte(b), k <= j
          PROVE  k \in Severed(b, D) <=> k \in Severed(b, C)
      <4>1. k \in Nat /\ k <= g
        BY <1>0, <2>2, <3>1, CharacterOf
      <4> QED
        BY <1>a, <4>1
    <3>2. Severed(b, C) \subseteq Byte(b) /\ Severed(b, D) \subseteq Byte(b)
      BY <1>2, SeveredIn
    <3> QED
      BY <3>1, <3>2 DEF CutsTo
  <2> QED
    BY <2>1, <2>4, <2>5 DEF Tracked, Counted
<1>8. PICK h \in [0..Len(r) -> Tracker] :
          Fed(h, t, r) /\ FoldLeft(Feed, t, r) = h[Len(r)]
  BY <1>5, FedTaken
<1> DEFINE G == {n \in Nat : n <= m - g => Tracked(h[n], b, D, g + n)}
<1>9. 0 \in G
  <2>1. h[0] = t /\ g + 0 = g
    BY <1>8 DEF Fed
  <2> QED
    BY <1>7, <2>1
<1>10. ASSUME NEW n \in Nat, n \in G PROVE n + 1 \in G
  <2>1. CASE n + 1 <= m - g
    <3>1. /\ n + 1 \in 1..m - g /\ n + 1 - 1 = n /\ n \in 0..m - g
          /\ g + n \in Nat /\ g + n < Len(b) /\ (g + n) + 1 = g + (n + 1)
      BY <1>0, <2>1
    <3>2. h[n + 1] = Feed(h[n], r[n + 1]) /\ h[n] \in Tracker
      BY <1>5, <1>8, <3>1 DEF Fed
    <3>3. r[n + 1] = Arrived(b, D, (g + n) + 1)
      BY <1>4, <3>1
    <3>4. Tracked(h[n], b, D, g + n)
      BY <1>0, <1>10, <2>1
    <3>5. Tracked(Feed(h[n], Arrived(b, D, (g + n) + 1)), b, D, (g + n) + 1)
      BY <1>2, <3>1, <3>2, <3>4, FeedTracks
    <3> QED
      BY <3>1, <3>2, <3>3, <3>5
  <2> QED
    BY <2>1
<1>11. Nat \subseteq G
  <2> HIDE DEF G
  <2> QED
    BY <1>9, <1>10, NumberInduction
<1>12. Tracked(h[m - g], b, D, m)
  <2>1. m - g \in Nat /\ g + (m - g) = m
    BY <1>0
  <2> QED
    BY <1>11, <2>1
<1> QED
  BY <1>1, <1>5, <1>6, <1>8, <1>12 DEF D

\* The end of a body ends its last line.
LEMMA FinishCounts ==
    ASSUME NEW b \in Body, NEW C \in SUBSET Inside(b), NEW t \in Tracker,
           Tracked(t, b, C, Len(b))
    PROVE  Counted(FinishTracker(t), b, C, Len(b))
<1> DEFINE e == [t EXCEPT !.buf = <<>>]
<1>1. PICK j \in Nat :
          ArrivedLine(t.buf, b, C, j, Len(b)) /\ Counted(t, b, C, j)
  BY DEF Tracked
<1>2. <<>> \in Seq(Atom)
  OBVIOUS
<1>3. e \in Tracker /\ Counted(e, b, C, j)
  BY <1>1, <1>2, BufferTaken
<1>4. FinishTracker(t) = ObserveLine(e, t.buf)
  BY DEF FinishTracker
<1>5. WholeLine(b, Len(b))
  BY DEF WholeLine
<1> HIDE DEF e
<1> QED
  BY <1>1, <1>3, <1>4, <1>5, ObserveCounts

\* What is counted of a whole body.
LEMMA TotalCounts ==
    ASSUME NEW b \in Body, NEW C \in SUBSET Inside(b), NEW t \in Tracker,
           Counted(t, b, C, Len(b))
    PROVE  IF Reports(b) # {} THEN TotalTokens(t) = Reported(b)
           ELSE \E e \in 0..2 * Cardinality(CutsTo(b, C, Len(b))) :
                   TotalTokens(t) = Estimate(b) + e
<1>0. Len(b) \in Nat /\ DOMAIN b = 1..Len(b)
  BY BodyType
<1>1. ReportsTo(b, Len(b)) = Reports(b)
  BY <1>0 DEF ReportsTo, Reports
<1>2. ValuesTo(b, Len(b)) = Values(b)
  <2>1. \A l \in Values(b) : l[2] <= Len(b)
    BY <1>0, ValueBounds
  <2> QED
    BY <2>1 DEF ValuesTo
<1>4. CASE Reports(b) = {}
  <2>1. /\ t.usage = {}
        /\ \E e \in 0..2 * Cardinality(CutsTo(b, C, Len(b))) :
              t.acc = PartSum(b, Values(b)) + e
    BY <1>1, <1>2, <1>4 DEF Counted
  <2>2. PartSum(b, Values(b)) = Estimate(b)
    BY DEF PartSum, Estimate
  <2>3. TotalTokens(t) = t.acc
    BY <2>1 DEF TotalTokens
  <2> QED
    BY <1>4, <2>1, <2>2, <2>3
<1>5. CASE Reports(b) # {}
  <2>1. \E k \in Reports(b) : \A i \in Reports(b) : i <= k
    <3>1. Reports(b) \in SUBSET (1..Len(b))
      BY <1>0 DEF Reports
    <3>2. Max(Reports(b)) \in Reports(b)
          /\ \A i \in Reports(b) : i <= Max(Reports(b))
      BY <1>0, <1>5, <3>1, MaxIn
    <3> QED
      BY <3>2
  <2> DEFINE k == CHOOSE k \in Reports(b) : \A i \in Reports(b) : i <= k
  <2>2. k \in Reports(b) /\ \A i \in Reports(b) : i <= k
    BY <2>1
  <2>3. Reported(b) = UsageOf[b[k]]
    BY DEF Reported
  <2> HIDE DEF k
  <2>4. t.usage = {UsageOf[b[k]]}
    BY <1>1, <2>2 DEF Counted
  <2>5. TotalTokens(t) = UsageOf[b[k]]
    BY <2>4 DEF TotalTokens
  <2> QED
    BY <1>5, <2>3, <2>5
<1> QED
  BY <1>4, <1>5
=============================================================================
