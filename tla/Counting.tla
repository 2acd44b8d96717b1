------------------------------ MODULE Counting ------------------------------
(***************************************************************************)
(* What proofs of several modules need of numbers: least elements, lists   *)
(* of finite sets, induction and definition by recursion.  The last two    *)
(* are about sets and functions, so that a proof can cite them.            *)
(***************************************************************************)
EXTENDS Naturals, WellFoundedInduction, FiniteSetTheorems, TLAPS

-----------------------------------------------------------------------------
(* Sets of numbers.                                                        *)

\* A non-empty set of numbers has a smallest one.
LEMMA SmallestOf ==
    ASSUME NEW S, S \subseteq Nat, S # {}
    PROVE  \E n \in S : \A k \in S : n <= k
<1> DEFINE R == OpToRel(<, Nat)
<1>1. IsWellFoundedOn(R, Nat)
  BY NatLessThanWellFounded
<1> HIDE DEF R
<1>2. PICK n \in S : \A k \in S : ~ (<<k, n>> \in R)
  BY <1>1, WFMin
<1>3. ASSUME NEW k \in S PROVE n <= k
  <2>1. <<k, n>> \in R <=> k < n
    BY DEF R, OpToRel
  <2> QED BY <2>1, <1>2
<1> QED BY <1>3

Increasing(f) == \A j, k \in DOMAIN f : j < k => f[j] < f[k]

\* Every finite set of numbers can be listed in increasing order: a smallest
\* one that cannot would be its least element and a smaller one that can.
LEMMA Enumerated ==
    ASSUME NEW S \in SUBSET Nat, IsFiniteSet(S)
    PROVE  \E f \in [1..Cardinality(S) -> S] : Increasing(f)
<1> DEFINE Listed(T) == \E f \in [1..Cardinality(T) -> T] : Increasing(f)
           Sets == {T \in SUBSET Nat : IsFiniteSet(T) /\ ~Listed(T)}
           Sizes == {Cardinality(T) : T \in Sets}
<1> SUFFICES ASSUME Sets # {} PROVE FALSE
  OBVIOUS
<1>1. Sizes \subseteq Nat /\ Sizes # {}
  BY FS_CardinalityType
<1>2. PICK T \in Sets : \A U \in Sets : Cardinality(T) <= Cardinality(U)
  <2>1. PICK n \in Sizes : \A k \in Sizes : n <= k
    BY <1>1, SmallestOf
  <2> QED BY <2>1
<1> DEFINE n == Cardinality(T)
<1>3. T \in SUBSET Nat /\ IsFiniteSet(T) /\ n \in Nat /\ ~Listed(T)
  BY <1>2, FS_CardinalityType
<1>4. T # {}
  <2>1. SUFFICES ASSUME T = {} PROVE Listed(T)
    BY <1>3
  <2>2. Cardinality(T) = 0
    BY <2>1, FS_EmptySet
  <2>3. [j \in 1..0 |-> 0] \in [1..0 -> T] /\ Increasing([j \in 1..0 |-> 0])
    BY DEF Increasing
  <2> QED BY <2>2, <2>3
<1>5. PICK x \in T : \A y \in T : x <= y
  BY <1>3, <1>4, SmallestOf
<1> DEFINE U == T \ {x}
<1>6. IsFiniteSet(U) /\ Cardinality(U) = n - 1 /\ U \in SUBSET Nat
  BY <1>3, <1>5, FS_RemoveElement
<1>7. Listed(U)
  <2>1. ~(Cardinality(T) <= Cardinality(U))
    BY <1>3, <1>6
  <2> HIDE DEF Listed
  <2> QED BY <1>2, <1>6, <2>1
<1>8. PICK g \in [1..(n - 1) -> U] : Increasing(g)
  BY <1>6, <1>7
<1> DEFINE f == [j \in 1..n |-> IF j = 1 THEN x ELSE g[j - 1]]
<1> HIDE DEF n
<1>9. \A j \in 1..n : j # 1 => j - 1 \in 1..(n - 1)
  BY <1>3
<1>10. f \in [1..n -> T]
  BY <1>5, <1>8, <1>9
<1>11. ASSUME NEW j \in 1..n, NEW k \in 1..n, j < k
       PROVE  f[j] < f[k]
  <2>1. k # 1 /\ k - 1 \in 1..(n - 1) /\ f[k] = g[k - 1] /\ g[k - 1] \in U
    BY <1>3, <1>8, <1>9, <1>11
  <2>2. CASE j = 1
    <3>1. f[j] = x /\ x <= g[k - 1] /\ g[k - 1] # x
      BY <1>5, <2>1, <2>2
    <3>2. x \in Nat /\ g[k - 1] \in Nat
      BY <1>3, <1>5, <2>1
    <3> HIDE DEF f
    <3> QED BY <2>1, <3>1, <3>2
  <2>3. CASE j # 1
    <3>1. j - 1 \in 1..(n - 1) /\ j - 1 < k - 1 /\ f[j] = g[j - 1]
      BY <1>3, <1>9, <1>11, <2>3
    <3>2. g[j - 1] < g[k - 1]
      BY <1>8, <2>1, <3>1 DEF Increasing
    <3> QED BY <2>1, <3>1, <3>2
  <2> QED BY <2>2, <2>3
<1>12. Increasing(f)
  BY <1>11 DEF Increasing
<1> QED BY <1>3, <1>10, <1>12 DEF n

\* As many different members as a finite set has are all of them.
LEMMA InjectionLists ==
    ASSUME NEW S, IsFiniteSet(S), NEW f \in [1..Cardinality(S) -> S],
           \A j, k \in 1..Cardinality(S) : f[j] = f[k] => j = k
    PROVE  \A x \in S : \E j \in 1..Cardinality(S) : f[j] = x
<1> DEFINE n == Cardinality(S)
<1>1. n \in Nat
  BY FS_CardinalityType
<1> HIDE DEF n
<1>2. f \in Injection(1..n, S)
  BY DEF n, Injection, IsInjective
<1>3. Cardinality(1..n) = n /\ IsFiniteSet(1..n)
  BY <1>1, FS_Interval
<1>4. f \in Surjection(1..n, S)
  BY <1>2, <1>3, FS_Injection DEF n
<1> QED BY <1>4 DEF Surjection, n

\* An increasing list of as many members as a set has holds each of them once.
LEMMA IncreasingLists ==
    ASSUME NEW S \in SUBSET Nat, IsFiniteSet(S), NEW f \in [1..Cardinality(S) -> S],
           Increasing(f)
    PROVE  /\ \A j, k \in 1..Cardinality(S) : f[j] = f[k] => j = k
           /\ \A x \in S : \E j \in 1..Cardinality(S) : f[j] = x
<1> DEFINE n == Cardinality(S)
<1>1. n \in Nat
  BY FS_CardinalityType
<1>2. \A j, k \in 1..n : f[j] = f[k] => j = k
  <2> SUFFICES ASSUME NEW j \in 1..n, NEW k \in 1..n, f[j] = f[k] PROVE j = k
    OBVIOUS
  <2>1. f[j] \in Nat
    OBVIOUS
  <2>2. ~(j < k) /\ ~(k < j)
    <3>1. ~(f[j] < f[k]) /\ ~(f[k] < f[j])
      BY <2>1
    <3> QED BY <3>1 DEF Increasing
  <2> QED BY <1>1, <2>2
<1> QED BY <1>2, InjectionLists

-----------------------------------------------------------------------------
(* Induction and recursion.                                                *)

\* What holds for 0 and for k whenever it does for k - 1 holds up to n.
LEMMA CountUp ==
    ASSUME NEW n \in Nat, NEW S, 0 \in S,
           \A k \in 1..n : k - 1 \in S => k \in S
    PROVE  \A k \in 0..n : k \in S
<1> DEFINE Missing == (0..n) \ S
<1> SUFFICES ASSUME Missing # {} PROVE FALSE
  OBVIOUS
<1>1. PICK m \in Missing : \A k \in Missing : m <= k
  <2>1. Missing \subseteq Nat
    OBVIOUS
  <2> HIDE DEF Missing
  <2> QED BY <2>1, SmallestOf
<1>2. m \in 1..n /\ m - 1 \in 0..n /\ ~(m <= m - 1)
  BY <1>1
<1>3. m - 1 \in S
  BY <1>1, <1>2
<1> QED BY <1>1, <1>2, <1>3

\* f is base at 0, and at each k what step makes of its value at k - 1.
Recursive(f, n, base, step) ==
    f[0] = base /\ \A k \in 1..n : f[k] = step[<<k, f[k - 1]>>]

\* A value for 0 and a step from each value to the next define a function.
LEMMA RecursionDefines ==
    ASSUME NEW n \in Nat, NEW V, NEW base \in V, NEW step \in [(1..n) \X V -> V]
    PROVE  \E f \in [0..n -> V] : Recursive(f, n, base, step)
<1> DEFINE S == {m \in 0..n : \E f \in [0..m -> V] : Recursive(f, m, base, step)}
<1>1. 0 \in S
  <2>1. /\ [k \in 0..0 |-> base] \in [0..0 -> V]
        /\ Recursive([k \in 0..0 |-> base], 0, base, step)
    BY DEF Recursive
  <2> QED BY <2>1
<1>2. ASSUME NEW m \in 1..n, m - 1 \in S PROVE m \in S
  <2>1. PICK f \in [0..(m - 1) -> V] : Recursive(f, m - 1, base, step)
    BY <1>2
  <2> DEFINE g == [k \in 0..m |-> IF k = m THEN step[<<m, f[m - 1]>>] ELSE f[k]]
  <2>2. g \in [0..m -> V]
    BY <2>1
  <2>3. ASSUME NEW k \in 1..m PROVE g[k] = step[<<k, g[k - 1]>>]
    <3>1. k - 1 \in 0..m /\ k - 1 # m /\ g[k - 1] = f[k - 1]
      OBVIOUS
    <3>2. CASE k = m
      BY <3>1, <3>2
    <3>3. CASE k # m
      <4>1. k \in 1..(m - 1) /\ g[k] = f[k]
        BY <3>3
      <4> QED BY <2>1, <3>1, <4>1 DEF Recursive
    <3> QED BY <3>2, <3>3
  <2>4. g[0] = base
    BY <2>1 DEF Recursive
  <2> HIDE DEF g
  <2>5. Recursive(g, m, base, step)
    BY <2>3, <2>4 DEF Recursive
  <2> QED BY <2>2, <2>5
<1> HIDE DEF S
<1>3. n \in S
  BY <1>1, <1>2, CountUp
<1> QED BY <1>3 DEF S
=============================================================================
