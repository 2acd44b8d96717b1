------------------------------ MODULE TextProofs ------------------------------
(***************************************************************************)
(* What rewriting does to the links of a text, for texts of any length and *)
(* any tokens, concepts, former paths and moves.                           *)
(***************************************************************************)
EXTENDS Links, Counting, FiniteSetTheorems, SequenceTheorems

-----------------------------------------------------------------------------
(* Paths.                                                                  *)

\* A path as concepts have them.
IsPath(p) == p # << >> /\ \A i \in 1..Len(p) : p[i] \notin {"", ".", ".."}

\* A canonical target leads to its path, from wherever it is followed.
LEMMA CanonicalLeads ==
    ASSUME NEW S, NEW p \in Seq(S), IsPath(p), NEW from, NEW anchor
    PROVE  Resolve(from, CanonicalTarget(p, anchor)) = p
<1> DEFINE n == Len(p)
           Name == S \union {".."}
           V == Seq(Name)
           At == CHOOSE f : f = [k \in 0..n |->
                    IF k = 0 THEN IF "absolute" = "absolute" THEN << >> ELSE Front(from)
                    ELSE Enter("absolute", f[k - 1], p[k])]
           step == [x \in (1..n) \X V |-> Enter("absolute", x[2], p[x[1]])]
<1>1. p \in V /\ n \in Nat /\ \A k \in 1..n : p[k] \in Name
  OBVIOUS
<1>2. ASSUME NEW q \in V, NEW s \in Name PROVE Enter("absolute", q, s) \in V
  <2>1. Escape \in V /\ << >> \in V /\ Append(q, s) \in V
    BY DEF Escape
  <2>2. q # << >> => Front(q) \in V
    <3>1. q # << >> => Len(q) - 1 \in 0..Len(q)
      OBVIOUS
    <3> QED BY <3>1, SubSeqProperties DEF Front
  <2> QED BY <2>1, <2>2 DEF Enter
<1>3. step \in [(1..n) \X V -> V]
  BY <1>1, <1>2
<1>4. PICK f \in [0..n -> V] : Recursive(f, n, << >>, step)
  <2>1. << >> \in V
    OBVIOUS
  <2> HIDE DEF n, V, step
  <2> QED BY <1>1, <1>3, <2>1, RecursionDefines, Zenon
<1>5. f = [k \in 0..n |->
              IF k = 0 THEN IF "absolute" = "absolute" THEN << >> ELSE Front(from)
              ELSE Enter("absolute", f[k - 1], p[k])]
  <2>1. ASSUME NEW k \in 1..n PROVE f[k] = Enter("absolute", f[k - 1], p[k])
    <3>1. k - 1 \in 0..n
      BY <1>1
    <3> QED BY <1>4, <3>1 DEF Recursive
  <2> HIDE DEF n, step, V
  <2> QED BY <1>4, <2>1 DEF Recursive
<1>6. At = [k \in 0..n |->
               IF k = 0 THEN IF "absolute" = "absolute" THEN << >> ELSE Front(from)
               ELSE Enter("absolute", At[k - 1], p[k])]
  BY <1>5
<1>7. Resolve(from, CanonicalTarget(p, anchor)) = IF At[n] = Escape THEN NoPath ELSE At[n]
  BY DEF Resolve, CanonicalTarget, Target
<1> HIDE DEF At
<1> DEFINE Good == {k \in 0..n : At[k] = SubSeq(p, 1, k)}
<1>8. 0 \in Good
  <2>1. SubSeq(p, 1, 0) = << >>
    BY <1>1, SubSeqEmpty
  <2> QED BY <1>1, <1>6, <2>1
<1>9. ASSUME NEW k \in 1..n, k - 1 \in Good PROVE k \in Good
  <2>1. k \in 0..n /\ k - 1 \in 0..n /\ At[k] = Enter("absolute", At[k - 1], p[k])
    BY <1>1, <1>6
  <2>2. At[k - 1] = SubSeq(p, 1, k - 1)
    BY <1>9
  <2>3. SubSeq(p, 1, k) = Append(SubSeq(p, 1, k - 1), p[k])
    <3>1. SubSeq(p, 1, k) \in V /\ Len(SubSeq(p, 1, k)) = k
          /\ \A i \in 1..k : SubSeq(p, 1, k)[i] = p[i]
      BY <1>1, SubSeqProperties
    <3>2. SubSeq(p, 1, k - 1) \in V /\ Len(SubSeq(p, 1, k - 1)) = k - 1
          /\ \A i \in 1..(k - 1) : SubSeq(p, 1, k - 1)[i] = p[i]
      BY <1>1, <2>1, SubSeqProperties
    <3> QED BY <1>1, <2>1, <3>1, <3>2
  <2>4. SubSeq(p, 1, k - 1) # Escape
    <3>1. SUFFICES ASSUME SubSeq(p, 1, k - 1) = Escape PROVE FALSE
      OBVIOUS
    <3>2. Len(SubSeq(p, 1, k - 1)) = k - 1
          /\ \A i \in 1..(k - 1) : SubSeq(p, 1, k - 1)[i] = p[i]
      BY <1>1, <2>1, SubSeqProperties
    <3>3. Len(Escape) = 1 /\ Escape[1] = ".."
      BY DEF Escape
    <3>4. k - 1 = 1 /\ p[1] = ".." /\ 1 \in 1..n
      <4>1. k - 1 = 1
      BY <3>1, <3>2, <3>3
    <4>2. SubSeq(p, 1, k - 1)[1] = p[1]
      BY <3>2, <4>1
    <4> QED BY <1>1, <3>1, <3>3, <4>1, <4>2
    <3> QED BY <3>4 DEF IsPath
  <2>5. p[k] \notin {"", ".", ".."}
    BY DEF IsPath
  <2>6. Enter("absolute", At[k - 1], p[k]) = Append(At[k - 1], p[k])
    BY <2>2, <2>4, <2>5 DEF Enter
  <2> QED BY <2>1, <2>2, <2>3, <2>6
<1>10. At[n] = p
  <2>1. \A k \in 0..n : k \in Good
    <3> HIDE DEF Good, n
    <3> QED BY <1>1, <1>8, <1>9, CountUp
  <2>2. At[n] = SubSeq(p, 1, n)
    BY <1>1, <2>1
  <2> QED BY <1>1, <2>2, SubSeqFull
<1>11. p # Escape
  <2>1. Escape[1] = ".." /\ 1 \in 1..Len(Escape)
    BY DEF Escape
  <2> QED BY <2>1 DEF IsPath
<1> QED BY <1>7, <1>10, <1>11
-----------------------------------------------------------------------------
(* Code.                                                                   *)

\* Min of a set of numbers is the least of them.
LEMMA MinOf ==
    ASSUME NEW S \in SUBSET Nat, S # {}
    PROVE  Min(S) \in S /\ \A k \in S : Min(S) <= k
<1>1. \E n \in S : \A k \in S : n <= k
  BY SmallestOf
<1> QED BY <1>1 DEF Min

\* A run ends in the text.
LEMMA RunEndBounds ==
    ASSUME NEW t, Len(t) \in Nat, NEW T \in SUBSET (1..Len(t)), NEW i \in 1..Len(t)
    PROVE  RunEnd(t, T, i) \in Int /\ RunEnd(t, T, i) <= Len(t) /\ i - 1 <= RunEnd(t, T, i)
<1> DEFINE S == {j \in i..(Len(t) + 1) : j \notin T}
<1>1. S \in SUBSET Nat /\ Len(t) + 1 \in S /\ \A j \in S : i <= j
  OBVIOUS
<1>2. Min(S) \in S /\ Min(S) <= Len(t) + 1
  <2> HIDE DEF S
  <2> QED BY <1>1, MinOf
<1>3. RunEnd(t, T, i) = Min(S) - 1
  BY DEF RunEnd
<1>4. Min(S) \in Nat /\ i <= Min(S)
  BY <1>1, <1>2
<1> HIDE DEF S
<1> QED BY <1>2, <1>3, <1>4

-----------------------------------------------------------------------------
(* Texts that differ in their links only.                                  *)

\* t and u have the same tokens, except for links in the place of links.
Alike(t, u) ==
    /\ Len(t) \in Nat /\ Len(u) = Len(t)
    /\ \A i \in 1..Len(t) : t[i] = u[i] \/ (t[i].kind = "link" /\ u[i].kind = "link")

\* A link is no mark.
LEMMA LinkIsNoMark ==
    ASSUME NEW token, token.kind = "link"
    PROVE  token \notin {Newline, Tick, Ticks, Tildes}
BY DEF Newline, Tick, Ticks, Tildes, Mark

\* Runs of backticks are where they were.
LEMMA AlikeRuns ==
    ASSUME NEW t, NEW u, Alike(t, u), NEW P \in SUBSET (1..Len(t))
    PROVE  Runs(t, P) = Runs(u, P)
<1> DEFINE n == Len(t)
<1>1. n \in Nat /\ Len(u) = n
  BY DEF Alike
<1>2. ASSUME NEW i \in 1..n
      PROVE  BacktickWidth(t[i]) = BacktickWidth(u[i]) /\ (t[i] = Ticks <=> u[i] = Ticks)
  <2>1. CASE t[i] = u[i]
    BY <2>1
  <2>2. CASE t[i].kind = "link" /\ u[i].kind = "link"
    BY <2>2, LinkIsNoMark DEF BacktickWidth
  <2> QED BY <2>1, <2>2 DEF Alike
<1> DEFINE T == Ticked(t, P)
<1>3. T = Ticked(u, P) /\ T \in SUBSET (1..n)
  BY <1>2 DEF Ticked
<1>4. \A i : RunEnd(t, T, i) = RunEnd(u, T, i)
  BY <1>1 DEF RunEnd
<1>5. ASSUME NEW i \in T
      PROVE  RunWidth(t, i, RunEnd(t, T, i)) = RunWidth(u, i, RunEnd(t, T, i))
  <2>1. i \in 1..n /\ RunEnd(t, T, i) \in Int /\ RunEnd(t, T, i) <= n
    <3> HIDE DEF T
    <3> QED BY <1>1, <1>3, <1>5, RunEndBounds
  <2> DEFINE e == RunEnd(t, T, i)
  <2>2. {k \in i..e : t[k] = Ticks} = {k \in i..e : u[k] = Ticks}
    <3>1. \A k \in i..e : k \in 1..n
      BY <1>1, <2>1
    <3> QED BY <1>2, <3>1
  <2> QED BY <2>2 DEF RunWidth
<1>6. Runs(t, P) = {[first |-> i, last |-> RunEnd(t, T, i),
                     width |-> RunWidth(t, i, RunEnd(t, T, i))] :
                        i \in {j \in T : j - 1 \notin T}}
  BY DEF Runs
<1>7. Runs(u, P) = {[first |-> i, last |-> RunEnd(u, T, i),
                     width |-> RunWidth(u, i, RunEnd(u, T, i))] :
                        i \in {j \in T : j - 1 \notin T}}
  BY <1>3 DEF Runs
<1> HIDE DEF T
<1> QED BY <1>4, <1>5, <1>6, <1>7

\* So the same positions are code, and the same links are found.
LEMMA AlikeCode ==
    ASSUME NEW t, NEW u, Alike(t, u)
    PROVE  Code(t) = Code(u)
<1> DEFINE n == Len(t)
<1>1. n \in Nat /\ Len(u) = n
  BY DEF Alike
<1>2. Runs(t, 1..n) = Runs(u, 1..n)
  BY AlikeRuns
<1>3. ASSUME NEW i \in 1..n
      PROVE  (t[i] = Tildes <=> u[i] = Tildes) /\ (t[i] = Newline <=> u[i] = Newline)
  <2>1. CASE t[i] = u[i]
    BY <2>1
  <2>2. CASE t[i].kind = "link" /\ u[i].kind = "link"
    BY <2>2, LinkIsNoMark
  <2> QED BY <2>1, <2>2 DEF Alike
<1>4. \A i \in 1..n : LineStart(t, i) <=> LineStart(u, i)
  <2>1. \A i \in 1..n : i # 1 => i - 1 \in 1..n
    BY <1>1
  <2> QED BY <1>3, <2>1 DEF LineStart
<1>5. \A i \in 1..n : FenceMark(t, Runs(t, 1..n), i) = FenceMark(u, Runs(t, 1..n), i)
  BY <1>3 DEF FenceMark
<1>6. Marks(t) = Marks(u)
  BY <1>1, <1>2, <1>4, <1>5 DEF Marks
<1>7. Fenced(t) = Fenced(u)
  BY <1>1, <1>6 DEF Fenced
<1>8. Runs(t, 1..n \ Fenced(t)) = Runs(u, 1..n \ Fenced(t))
  BY AlikeRuns
<1> QED BY <1>1, <1>7, <1>8 DEF Code, Spanned

LEMMA AlikeLinks ==
    ASSUME NEW t, NEW u, Alike(t, u),
           \A i \in 1..Len(t) : IsConceptLink(t[i]) <=> IsConceptLink(u[i])
    PROVE  FindLinks(t) = FindLinks(u)
BY AlikeCode DEF FindLinks, Alike
-----------------------------------------------------------------------------
(* A text behind another one.                                              *)

\* The numbers of S, d further on.
Further(S, d) == {d + i : i \in S}

LEMMA MinFurther ==
    ASSUME NEW S \in SUBSET Nat, S # {}, NEW d \in Nat
    PROVE  Min(Further(S, d)) = d + Min(S)
<1> DEFINE F == Further(S, d)
<1>1. F \in SUBSET Nat /\ F # {}
  <2>1. \A i \in S : d + i \in Nat /\ d + i \in F
    BY DEF Further
  <2> QED BY <2>1 DEF Further
<1>2. Min(F) \in F /\ \A k \in F : Min(F) <= k
  <2> HIDE DEF F
  <2> QED BY <1>1, MinOf
<1>3. Min(S) \in S /\ \A k \in S : Min(S) <= k
  BY MinOf
<1>4. PICK m \in S : Min(F) = d + m
  BY <1>2 DEF Further
<1>5. d + Min(S) \in F
  BY <1>3 DEF Further
<1>6. Min(F) <= d + Min(S) /\ Min(S) <= m
  BY <1>2, <1>3, <1>5
<1> HIDE DEF F
<1>7. m \in Nat /\ Min(S) \in Nat
  BY <1>3
<1>8. m = Min(S)
  BY <1>4, <1>6, <1>7
<1> QED BY <1>4, <1>8 DEF F

LEMMA CardinalityFurther ==
    ASSUME NEW S \in SUBSET Nat, IsFiniteSet(S), NEW d \in Nat
    PROVE  Cardinality(Further(S, d)) = Cardinality(S)
<1> DEFINE f == [i \in S |-> d + i]
<1>1. f \in Bijection(S, Further(S, d))
  <2>1. f \in [S -> Further(S, d)] /\ \A i, j \in S : f[i] = f[j] => i = j
    BY DEF Further
  <2>2. \A k \in Further(S, d) : \E i \in S : f[i] = k
    BY DEF Further
  <2> QED BY <2>1, <2>2 DEF Bijection, Injection, Surjection, IsInjective
<1> HIDE DEF f
<1>2. Cardinality(S) = Cardinality(Further(S, d))
  <2>1. ExistsBijection(S, Further(S, d))
    BY <1>1 DEF ExistsBijection
  <2> QED BY <2>1, FS_Bijection
<1> QED BY <1>2

\* The text t ends in the text u, d positions further on.
Behind(t, u, d) ==
    /\ Len(u) \in Nat /\ d \in Nat /\ Len(t) = d + Len(u)
    /\ \A i \in 1..Len(u) : t[d + i] = u[i]

ShiftedRun(r, d) == [first |-> d + r.first, last |-> d + r.last, width |-> r.width]

\* Where only what is behind d is ticked the runs are those of the text there.
LEMMA RunsBehind ==
    ASSUME NEW t, NEW u, NEW d, Behind(t, u, d),
           NEW P \in SUBSET (1..Len(t)), NEW Q \in SUBSET (1..Len(u)),
           Ticked(t, P) = Further(Ticked(u, Q), d)
    PROVE  Runs(t, P) = {ShiftedRun(r, d) : r \in Runs(u, Q)}
<1> DEFINE n == Len(u)
           T == Ticked(t, P)
           U == Ticked(u, Q)
<1>1. n \in Nat /\ d \in Nat /\ Len(t) = d + n /\ U \subseteq 1..n /\ T \subseteq 1..(d + n)
  BY DEF Behind, Ticked
<1>2. ASSUME NEW i \in Nat PROVE d + i \in T <=> i \in U
  BY <1>1, <1>2 DEF Further
<1>3. ASSUME NEW i \in 1..n PROVE RunEnd(t, T, d + i) = d + RunEnd(u, U, i)
  <2> DEFINE S == {j \in i..(n + 1) : j \notin U}
             F == {j \in (d + i)..(d + n + 1) : j \notin T}
  <2>1. F = Further(S, d)
    <3>1. ASSUME NEW j \in F PROVE j \in Further(S, d)
      <4>1. j - d \in i..(n + 1) /\ j - d \in Nat /\ d + (j - d) = j
        BY <1>1
      <4>2. j - d \in S
        BY <1>2, <4>1
      <4> QED BY <4>1, <4>2 DEF Further
    <3>2. ASSUME NEW j \in Further(S, d) PROVE j \in F
      <4>1. PICK k \in S : j = d + k
        BY DEF Further
      <4>2. k \in Nat /\ j \in (d + i)..(d + n + 1)
        BY <1>1, <4>1
      <4> QED BY <1>2, <4>1, <4>2
    <3> QED BY <3>1, <3>2
  <2>2. S \in SUBSET Nat /\ n + 1 \in S
    BY <1>1
  <2>3. Min(F) = d + Min(S) /\ Min(S) \in Nat
    <3> HIDE DEF S, F
    <3> QED BY <1>1, <2>1, <2>2, MinFurther, MinOf
  <2>4. RunEnd(u, U, i) = Min(S) - 1 /\ RunEnd(t, T, d + i) = Min(F) - 1
    BY <1>1 DEF RunEnd
  <2> HIDE DEF S, F
  <2> QED BY <1>1, <2>3, <2>4
<1>4. ASSUME NEW i \in 1..n, NEW e \in Int, e <= n
      PROVE  RunWidth(t, d + i, d + e) = RunWidth(u, i, e)
  <2> DEFINE S == {k \in i..e : u[k] = Ticks}
             F == {k \in (d + i)..(d + e) : t[k] = Ticks}
  <2>1. (d + i)..(d + e) = Further(i..e, d)
    <3>1. ASSUME NEW j \in (d + i)..(d + e) PROVE j \in Further(i..e, d)
      <4>1. j - d \in i..e /\ d + (j - d) = j
        BY <1>1, <1>4
      <4> QED BY <4>1 DEF Further
    <3> QED BY <1>1, <1>4, <3>1 DEF Further
  <2>2. F = Further(S, d)
    <3>1. \A k \in i..e : t[d + k] = u[k]
      BY <1>1, <1>4 DEF Behind
    <3> QED BY <2>1, <3>1 DEF Further
  <2>3. i..e \in SUBSET Nat /\ IsFiniteSet(i..e) /\ S \subseteq i..e
    BY <1>4, FS_Interval
  <2>4. IsFiniteSet(S) /\ S \in SUBSET Nat
    <3> HIDE DEF S
    <3> QED BY <2>3, FS_Subset
  <2>5. /\ Cardinality((d + i)..(d + e)) = Cardinality(i..e)
        /\ Cardinality(F) = Cardinality(S)
    <3> HIDE DEF S, F
    <3> QED BY <1>1, <2>1, <2>2, <2>3, <2>4, CardinalityFurther
  <2> QED BY <2>5 DEF RunWidth
<1> DEFINE RunOf(x, X, i) == [first |-> i, last |-> RunEnd(x, X, i),
                              width |-> RunWidth(x, i, RunEnd(x, X, i))]
<1>5. ASSUME NEW i \in U PROVE RunOf(t, T, d + i) = ShiftedRun(RunOf(u, U, i), d)
  <2>1. i \in 1..n /\ RunEnd(t, T, d + i) = d + RunEnd(u, U, i)
    BY <1>1, <1>3, <1>5
  <2>2. RunEnd(u, U, i) \in Int /\ RunEnd(u, U, i) <= n
    <3> HIDE DEF U
    <3> QED BY <1>1, <2>1, RunEndBounds
  <2>3. RunWidth(t, d + i, d + RunEnd(u, U, i)) = RunWidth(u, i, RunEnd(u, U, i))
    BY <1>4, <2>1, <2>2
  <2> QED BY <2>1, <2>3 DEF ShiftedRun
<1>6. {j \in T : j - 1 \notin T} = Further({i \in U : i - 1 \notin U}, d)
  <2>1. ASSUME NEW i \in U PROVE d + i \in T /\ (d + i - 1 \in T <=> i - 1 \in U)
    <3>1. i \in Nat /\ i - 1 \in Nat /\ d + i - 1 = d + (i - 1)
      BY <1>1
    <3> QED BY <1>2, <3>1
  <2>2. ASSUME NEW j \in T PROVE \E i \in U : j = d + i
    BY DEF Further
  <2> HIDE DEF T, U
  <2>3. ASSUME NEW j \in T, j - 1 \notin T
        PROVE  j \in Further({i \in U : i - 1 \notin U}, d)
    <3>1. PICK i \in U : j = d + i
      BY <2>2
    <3>2. d + i - 1 \notin T
      <4>1. j - 1 = d + i - 1
        BY <1>1, <3>1
      <4> QED BY <2>3, <4>1
    <3>3. i - 1 \notin U
      BY <2>1, <3>2
    <3> QED BY <3>1, <3>3 DEF Further
  <2>4. ASSUME NEW j \in Further({i \in U : i - 1 \notin U}, d)
        PROVE  j \in T /\ j - 1 \notin T
    <3>1. PICK i \in U : j = d + i /\ i - 1 \notin U
      BY DEF Further
    <3>2. d + i \in T /\ d + i - 1 \notin T
      BY <2>1, <3>1
    <3>3. j - 1 = d + i - 1
      BY <1>1, <3>1
    <3> QED BY <3>1, <3>2, <3>3
  <2> QED BY <2>3, <2>4
<1>7. Runs(t, P) = {RunOf(t, T, j) : j \in {j \in T : j - 1 \notin T}}
      /\ Runs(u, Q) = {RunOf(u, U, i) : i \in {i \in U : i - 1 \notin U}}
  BY DEF Runs
<1> HIDE DEF RunOf, T
<1>8. \A i \in {i \in U : i - 1 \notin U} : RunOf(t, T, d + i) = ShiftedRun(RunOf(u, U, i), d)
  BY <1>5
<1> DEFINE B == {i \in U : i - 1 \notin U}
<1> HIDE DEF U
<1>9. Runs(t, P) = {RunOf(t, T, d + i) : i \in B}
  BY <1>6, <1>7 DEF Further
<1> HIDE DEF B
<1>10. Runs(u, Q) = {RunOf(u, U, i) : i \in B}
  BY <1>7 DEF B
<1> QED BY <1>8, <1>9, <1>10 DEF B

\* Blocks is what a function makes of the marks that starts outside of code.
MarkKinds == {"none", "inside", "ticks", "tildes"}
BlockStates == [open : MarkKinds, fenced : BOOLEAN]

LEMMA BlocksCounted ==
    ASSUME NEW n \in Nat, NEW m \in [1..n -> MarkKinds]
    PROVE  \E f \in [0..n -> BlockStates] :
              /\ f[0] = [open |-> "none", fenced |-> FALSE]
              /\ \A k \in 1..n : f[k] = NextBlock(f[k - 1], m[k])
              /\ Blocks(n, m) = {i \in 1..n : f[i].fenced}
<1> DEFINE V == BlockStates
           base == [open |-> "none", fenced |-> FALSE]
           At == CHOOSE f : f = [i \in 0..n |->
                    IF i = 0 THEN [open |-> "none", fenced |-> FALSE]
                    ELSE NextBlock(f[i - 1], m[i])]
           step == [x \in (1..n) \X V |-> NextBlock(x[2], m[x[1]])]
<1>1. ASSUME NEW b \in V, NEW k \in MarkKinds PROVE NextBlock(b, k) \in V
  <2>1. b.open \in MarkKinds /\ b = [open |-> b.open, fenced |-> b.fenced]
    BY DEF BlockStates
  <2>2. "none" \in MarkKinds
    BY DEF MarkKinds
  <2> QED BY <2>1, <2>2 DEF NextBlock, BlockStates
<1>2. step \in [(1..n) \X V -> V] /\ base \in V
  BY <1>1 DEF BlockStates, MarkKinds
<1>3. PICK f \in [0..n -> V] : Recursive(f, n, base, step)
  <2> HIDE DEF V, base, step
  <2> QED BY <1>2, RecursionDefines, Zenon
<1>4. ASSUME NEW k \in 1..n PROVE f[k] = NextBlock(f[k - 1], m[k])
  <2>1. k - 1 \in 0..n /\ f[k - 1] \in V
    BY <1>3
  <2>2. f[k] = step[<<k, f[k - 1]>>]
    BY <1>3 DEF Recursive
  <2> QED BY <2>1, <2>2
<1>5. f[0] = base
  BY <1>3 DEF Recursive
<1>6. f = [i \in 0..n |-> IF i = 0 THEN [open |-> "none", fenced |-> FALSE]
                          ELSE NextBlock(f[i - 1], m[i])]
  BY <1>3, <1>4, <1>5
<1>7. At = [i \in 0..n |-> IF i = 0 THEN [open |-> "none", fenced |-> FALSE]
                           ELSE NextBlock(At[i - 1], m[i])]
  BY <1>6
<1>8. Blocks(n, m) = {i \in 1..n : At[i].fenced}
  BY DEF Blocks
<1> HIDE DEF At
<1> DEFINE Same == {k \in 0..n : At[k] = f[k]}
<1>9. At = f
  <2>1. 0 \in Same
    BY <1>5, <1>7
  <2>2. ASSUME NEW k \in 1..n, k - 1 \in Same PROVE k \in Same
    <3>1. k \in 0..n /\ k # 0
      OBVIOUS
    <3>2. At[k] = NextBlock(At[k - 1], m[k])
      BY <1>7, <3>1, Zenon
    <3> QED BY <1>4, <2>2, <3>1, <3>2
  <2>3. \A k \in 0..n : k \in Same
    <3> HIDE DEF Same
    <3> QED BY <2>1, <2>2, CountUp
  <2> QED BY <1>3, <1>7, <2>3
<1> QED BY <1>3, <1>4, <1>5, <1>8, <1>9

\* A text whose first d positions have no mark opens no block there.
LEMMA BlocksBehind ==
    ASSUME NEW n \in Nat, NEW d \in Nat,
           NEW m \in [1..(d + n) -> MarkKinds], NEW k \in [1..n -> MarkKinds],
           \A i \in 1..d : m[i] \in {"none", "inside"},
           \A i \in 1..n : m[d + i] = k[i] \/ (i = 1 /\ m[d + i] = "inside" /\ k[i] = "none")
    PROVE  Blocks(d + n, m) = Further(Blocks(n, k), d)
<1> DEFINE base == [open |-> "none", fenced |-> FALSE]
<1>1. PICK f \in [0..(d + n) -> BlockStates] :
          /\ f[0] = base
          /\ \A i \in 1..(d + n) : f[i] = NextBlock(f[i - 1], m[i])
          /\ Blocks(d + n, m) = {i \in 1..(d + n) : f[i].fenced}
  <2>1. d + n \in Nat
    OBVIOUS
  <2> QED BY <2>1, BlocksCounted
<1>2. PICK g \in [0..n -> BlockStates] :
          /\ g[0] = base
          /\ \A i \in 1..n : g[i] = NextBlock(g[i - 1], k[i])
          /\ Blocks(n, k) = {i \in 1..n : g[i].fenced}
  BY BlocksCounted
<1>3. NextBlock(base, "none") = base /\ NextBlock(base, "inside") = base
  BY DEF NextBlock
<1>4. \A i \in 0..d : f[i] = base
  <2> DEFINE S == {i \in 0..d : f[i] = base}
  <2>1. 0 \in S
    BY <1>1
  <2>2. ASSUME NEW i \in 1..d, i - 1 \in S PROVE i \in S
    <3>1. i \in 1..(d + n) /\ i \in 0..d
      OBVIOUS
    <3>2. f[i] = NextBlock(base, m[i])
      BY <1>1, <2>2, <3>1
    <3> QED BY <1>3, <3>1, <3>2
  <2>3. \A i \in 0..d : i \in S
    <3> HIDE DEF S
    <3> QED BY <2>1, <2>2, CountUp
  <2> QED BY <2>3
<1>5. \A i \in 0..n : f[d + i] = g[i]
  <2> DEFINE S == {i \in 0..n : f[d + i] = g[i]}
  <2>1. 0 \in S
    <3>1. f[d] = base /\ d + 0 = d /\ 0 \in 0..n
      BY <1>4
    <3>2. f[d + 0] = g[0]
      BY <1>2, <3>1, Zenon
    <3> QED BY <3>1, <3>2
  <2>2. ASSUME NEW i \in 1..n, i - 1 \in S PROVE i \in S
    <3>1. d + i \in 1..(d + n) /\ d + i - 1 = d + (i - 1) /\ i \in 0..n
      OBVIOUS
    <3>2. f[d + i] = NextBlock(f[d + (i - 1)], m[d + i])
      BY <1>1, <3>1
    <3>3. f[d + (i - 1)] = g[i - 1] /\ g[i] = NextBlock(g[i - 1], k[i])
      BY <1>2, <2>2, <3>1
    <3>4. CASE m[d + i] = k[i]
      BY <3>1, <3>2, <3>3, <3>4
    <3>5. CASE i = 1 /\ m[d + i] = "inside" /\ k[i] = "none"
      <4>1. g[i - 1] = base
        BY <1>2, <3>5
      <4>2. f[d + i] = base /\ g[i] = base
        BY <1>3, <3>2, <3>3, <3>5, <4>1
      <4> QED BY <3>1, <4>2
    <3> QED BY <3>4, <3>5
  <2>3. \A i \in 0..n : i \in S
    <3> HIDE DEF S
    <3> QED BY <2>1, <2>2, CountUp
  <2> QED BY <2>3
<1>6. ASSUME NEW i \in 1..(d + n), f[i].fenced PROVE i \in Further(Blocks(n, k), d)
  <2>1. ~(i \in 0..d)
    BY <1>4, <1>6
  <2>2. i - d \in 1..n /\ i - d \in 0..n /\ d + (i - d) = i
    BY <2>1
  <2>3. i - d \in Blocks(n, k)
    BY <1>2, <1>5, <1>6, <2>2
  <2> QED BY <2>2, <2>3 DEF Further
<1>7. ASSUME NEW i \in 1..n, g[i].fenced PROVE d + i \in 1..(d + n) /\ f[d + i].fenced
  BY <1>5, <1>7
<1>8. ASSUME NEW j \in Further(Blocks(n, k), d) PROVE j \in 1..(d + n) /\ f[j].fenced
  <2>1. PICK i \in Blocks(n, k) : j = d + i
    BY DEF Further
  <2> QED BY <1>2, <1>7, <2>1
<1> QED BY <1>1, <1>6, <1>8

\* Spans is what a function makes of the runs that counts up the ends of spans.
IsRuns(R, n) ==
    \A r \in R : /\ r.first \in 1..n
                 /\ r.last \in Int /\ r.first <= r.last + 1

LEMMA EndsBounds ==
    ASSUME NEW n \in Nat, NEW R, IsRuns(R, n), NEW i \in 1..n
    PROVE  Ends(R, i) \in SUBSET (Nat \ {0})
<1>1. ASSUME NEW c \in R, c.first > i PROVE c.last \in Nat \ {0}
  BY <1>1 DEF IsRuns
<1> QED BY <1>1 DEF Ends

LEMMA SpansCounted ==
    ASSUME NEW n \in Nat, NEW R, IsRuns(R, n)
    PROVE  \E f \in [0..n -> Nat] :
              /\ f[0] = 0
              /\ \A i \in 1..n : f[i] = NextEnd(f[i - 1], R, i)
              /\ Spans(n, R) = {i \in 1..n : f[i] >= i}
<1> DEFINE Until == CHOOSE f : f = [i \in 0..n |->
                       IF i = 0 THEN 0 ELSE NextEnd(f[i - 1], R, i)]
           step == [x \in (1..n) \X Nat |-> NextEnd(x[2], R, x[1])]
<1>1. ASSUME NEW k \in Nat, NEW i \in 1..n PROVE NextEnd(k, R, i) \in Nat
  <2>1. Ends(R, i) \in SUBSET Nat
    BY EndsBounds
  <2>2. Ends(R, i) # {} => Min(Ends(R, i)) \in Nat
    BY <2>1, MinOf
  <2> QED BY <2>2 DEF NextEnd
<1>2. step \in [(1..n) \X Nat -> Nat] /\ 0 \in Nat
  BY <1>1
<1>3. PICK f \in [0..n -> Nat] : Recursive(f, n, 0, step)
  <2> HIDE DEF step
  <2> QED BY <1>2, RecursionDefines, Zenon
<1>4. ASSUME NEW i \in 1..n PROVE f[i] = NextEnd(f[i - 1], R, i)
  <2>1. i - 1 \in 0..n /\ f[i - 1] \in Nat
    BY <1>3
  <2>2. f[i] = step[<<i, f[i - 1]>>]
    BY <1>3 DEF Recursive
  <2> QED BY <2>1, <2>2
<1>5. f[0] = 0
  BY <1>3 DEF Recursive
<1>6. f = [i \in 0..n |-> IF i = 0 THEN 0 ELSE NextEnd(f[i - 1], R, i)]
  BY <1>3, <1>4, <1>5
<1>7. Until = [i \in 0..n |-> IF i = 0 THEN 0 ELSE NextEnd(Until[i - 1], R, i)]
  BY <1>6
<1>8. Spans(n, R) = {i \in 1..n : Until[i] >= i}
  BY DEF Spans
<1> HIDE DEF Until
<1> DEFINE Same == {i \in 0..n : Until[i] = f[i]}
<1>9. Until = f
  <2>1. 0 \in Same
    BY <1>5, <1>7
  <2>2. ASSUME NEW i \in 1..n, i - 1 \in Same PROVE i \in Same
    <3>1. i \in 0..n /\ i # 0
      OBVIOUS
    <3>2. Until[i] = NextEnd(Until[i - 1], R, i)
      BY <1>7, <3>1, Zenon
    <3> QED BY <1>4, <2>2, <3>1, <3>2
  <2>3. \A i \in 0..n : i \in Same
    <3> HIDE DEF Same
    <3> QED BY <2>1, <2>2, CountUp
  <2> QED BY <1>3, <1>7, <2>3
<1> QED BY <1>3, <1>4, <1>5, <1>8, <1>9

\* Runs that are all behind d open spans where they do without what is before.
LEMMA SpansBehind ==
    ASSUME NEW n \in Nat, NEW d \in Nat, NEW R, IsRuns(R, n)
    PROVE  Spans(d + n, {ShiftedRun(r, d) : r \in R}) = Further(Spans(n, R), d)
<1> DEFINE X == {ShiftedRun(r, d) : r \in R}
<1>1. IsRuns(X, d + n)
  <2>1. ASSUME NEW r \in R
        PROVE  /\ d + r.first \in 1..(d + n) /\ d + r.last \in Int
               /\ d + r.first <= d + r.last + 1
    BY DEF IsRuns
  <2> QED BY <2>1 DEF IsRuns, ShiftedRun
<1>2. PICK f \in [0..(d + n) -> Nat] :
          /\ f[0] = 0
          /\ \A i \in 1..(d + n) : f[i] = NextEnd(f[i - 1], X, i)
          /\ Spans(d + n, X) = {i \in 1..(d + n) : f[i] >= i}
  <2>1. d + n \in Nat
    OBVIOUS
  <2> HIDE DEF X
  <2> QED BY <1>1, <2>1, SpansCounted
<1>3. PICK g \in [0..n -> Nat] :
          /\ g[0] = 0
          /\ \A i \in 1..n : g[i] = NextEnd(g[i - 1], R, i)
          /\ Spans(n, R) = {i \in 1..n : g[i] >= i}
  BY SpansCounted
<1>4. ASSUME NEW i \in 1..d PROVE Ends(X, i) = {}
  <2>1. ASSUME NEW r \in R PROVE d + r.first # i
    BY DEF IsRuns
  <2> QED BY <2>1 DEF Ends, ShiftedRun
<1>5. ASSUME NEW i \in 1..n PROVE Ends(X, d + i) = Further(Ends(R, i), d)
  <2>1. ASSUME NEW r \in R
        PROVE  (d + r.first > d + i <=> r.first > i) /\ (d + r.first = d + i <=> r.first = i)
    BY DEF IsRuns
  <2>2. ASSUME NEW r \in R
        PROVE  /\ ShiftedRun(r, d).first = d + r.first
               /\ ShiftedRun(r, d).last = d + r.last
               /\ ShiftedRun(r, d).width = r.width
    BY DEF ShiftedRun
  <2>3. \A r \in R : (\E q \in X : q.first = d + i /\ q.width = ShiftedRun(r, d).width)
                     <=> (\E q \in R : q.first = i /\ q.width = r.width)
    BY <2>1, <2>2
  <2>4. ASSUME NEW x \in Ends(X, d + i) PROVE x \in Further(Ends(R, i), d)
    <3>1. PICK r \in R : /\ x = ShiftedRun(r, d).last /\ ShiftedRun(r, d).first > d + i
                         /\ \E q \in X : q.first = d + i /\ q.width = ShiftedRun(r, d).width
      BY DEF Ends
    <3>2. r.last \in Ends(R, i) /\ x = d + r.last
      <4> HIDE DEF X
      <4> QED BY <2>1, <2>2, <2>3, <3>1 DEF Ends
    <3> QED BY <3>2 DEF Further
  <2>5. ASSUME NEW x \in Further(Ends(R, i), d) PROVE x \in Ends(X, d + i)
    <3>1. PICK r \in R : /\ x = d + r.last /\ r.first > i
                         /\ \E q \in R : q.first = i /\ q.width = r.width
      BY DEF Ends, Further
    <3>2. ShiftedRun(r, d) \in X /\ ShiftedRun(r, d).first > d + i
          /\ \E q \in X : q.first = d + i /\ q.width = ShiftedRun(r, d).width
      BY <2>1, <2>2, <2>3, <3>1
    <3>3. x = ShiftedRun(r, d).last
      BY <2>2, <3>1
    <3> HIDE DEF X
    <3> QED BY <3>2, <3>3 DEF Ends
  <2> QED BY <2>4, <2>5
<1> HIDE DEF X
<1>6. \A i \in 0..d : f[i] = 0
  <2> DEFINE S == {i \in 0..d : f[i] = 0}
  <2>1. 0 \in S
    BY <1>2
  <2>2. ASSUME NEW i \in 1..d, i - 1 \in S PROVE i \in S
    <3>1. i \in 1..(d + n) /\ i \in 0..d
      OBVIOUS
    <3>2. f[i] = NextEnd(0, X, i)
      BY <1>2, <2>2, <3>1
    <3> QED BY <1>4, <3>1, <3>2 DEF NextEnd
  <2>3. \A i \in 0..d : i \in S
    <3> HIDE DEF S
    <3> QED BY <2>1, <2>2, CountUp
  <2> QED BY <2>3
<1>7. \A i \in 0..n : f[d + i] = IF g[i] = 0 THEN 0 ELSE d + g[i]
  <2> DEFINE S == {i \in 0..n : f[d + i] = IF g[i] = 0 THEN 0 ELSE d + g[i]}
  <2>1. 0 \in S
    <3>1. f[d] = 0 /\ d + 0 = d /\ 0 \in 0..n
      BY <1>6
    <3>2. f[d + 0] = 0
      BY <3>1, Zenon
    <3> QED BY <1>3, <3>1, <3>2
  <2>2. ASSUME NEW i \in 1..n, i - 1 \in S PROVE i \in S
    <3>1. d + i \in 1..(d + n) /\ d + i - 1 = d + (i - 1) /\ i \in 0..n /\ i - 1 \in 0..n
      OBVIOUS
    <3> DEFINE x == f[d + (i - 1)]
               y == g[i - 1]
    <3>2. f[d + i] = NextEnd(x, X, d + i) /\ g[i] = NextEnd(y, R, i)
      <4>1. f[d + i] = NextEnd(f[d + i - 1], X, d + i)
        BY <1>2, <3>1
      <4> QED BY <1>3, <3>1, <4>1
    <3>3. y \in Nat /\ x = IF y = 0 THEN 0 ELSE d + y
      BY <1>3, <2>2, <3>1
    <3> HIDE DEF x, y
    <3>4. x >= d + i <=> y >= i
      BY <3>3
    <3>5. Ends(R, i) \in SUBSET (Nat \ {0}) /\ Ends(R, i) \in SUBSET Nat
      BY EndsBounds
    <3>6. Ends(X, d + i) = {} <=> Ends(R, i) = {}
      <4>1. \A E : Further(E, d) = {} <=> E = {}
        BY DEF Further
      <4> QED BY <1>5, <4>1, Zenon
    <3>7. CASE y >= i \/ Ends(R, i) = {}
      <4>1. f[d + i] = x /\ g[i] = y
        BY <3>2, <3>4, <3>6, <3>7 DEF NextEnd
      <4> QED BY <3>1, <3>3, <4>1
    <3>8. CASE ~(y >= i) /\ Ends(R, i) # {}
      <4>1. f[d + i] = Min(Ends(X, d + i)) /\ g[i] = Min(Ends(R, i))
        BY <3>2, <3>4, <3>6, <3>8 DEF NextEnd
      <4>2. Min(Ends(X, d + i)) = d + Min(Ends(R, i)) /\ Min(Ends(R, i)) \in Ends(R, i)
        BY <1>5, <3>5, <3>8, MinFurther, MinOf
      <4>3. g[i] # 0 /\ f[d + i] = d + g[i]
        BY <3>5, <4>1, <4>2
      <4> QED BY <3>1, <4>3
    <3> QED BY <3>7, <3>8
  <2>3. \A i \in 0..n : i \in S
    <3> HIDE DEF S
    <3> QED BY <2>1, <2>2, CountUp
  <2> QED BY <2>3
<1>8. ASSUME NEW i \in 1..n PROVE f[d + i] >= d + i <=> g[i] >= i
  <2>1. i \in 0..n /\ g[i] \in Nat
    BY <1>3
  <2>2. f[d + i] = IF g[i] = 0 THEN 0 ELSE d + g[i]
    BY <1>7, <2>1
  <2> QED BY <2>1, <2>2
<1>9. ASSUME NEW i \in 1..(d + n), f[i] >= i PROVE i \in Further(Spans(n, R), d)
  <2>1. ~(i \in 0..d)
    BY <1>6, <1>9
  <2>2. i - d \in 1..n /\ d + (i - d) = i
    BY <2>1
  <2>3. i - d \in Spans(n, R)
    BY <1>3, <1>8, <1>9, <2>2
  <2> QED BY <2>2, <2>3 DEF Further
<1>10. ASSUME NEW j \in Further(Spans(n, R), d) PROVE j \in 1..(d + n) /\ f[j] >= j
  <2>1. PICK i \in Spans(n, R) : j = d + i
    BY DEF Further
  <2>2. i \in 1..n /\ g[i] >= i
    BY <1>3
  <2>3. f[d + i] >= d + i /\ d + i \in 1..(d + n)
    BY <1>8, <2>2
  <2> QED BY <2>1, <2>3, Zenon
<1> QED BY <1>2, <1>9, <1>10 DEF X

\* No token up to d is one that code begins with.
Silent(t, d) == \A i \in 1..d : t[i] \notin {Tick, Ticks, Tildes}

\* A run is where a ticked position is.
LEMMA RunsPlaced ==
    ASSUME NEW t, Len(t) \in Nat, NEW P \in SUBSET (1..Len(t))
    PROVE  /\ IsRuns(Runs(t, P), Len(t))
           /\ \A r \in Runs(t, P) : r.first \in Ticked(t, P)
<1> DEFINE T == Ticked(t, P)
<1>1. T \in SUBSET (1..Len(t))
  BY DEF Ticked
<1>2. Runs(t, P) = {[first |-> i, last |-> RunEnd(t, T, i),
                     width |-> RunWidth(t, i, RunEnd(t, T, i))] :
                        i \in {j \in T : j - 1 \notin T}}
  BY DEF Runs
<1> HIDE DEF T
<1>3. ASSUME NEW i \in T
      PROVE  i \in 1..Len(t) /\ RunEnd(t, T, i) \in Int /\ i <= RunEnd(t, T, i) + 1
  <2>1. i \in 1..Len(t)
    BY <1>1
  <2>2. RunEnd(t, T, i) \in Int /\ i - 1 <= RunEnd(t, T, i)
    BY <1>1, <2>1, RunEndBounds
  <2> QED BY <2>1, <2>2
<1>4. ASSUME NEW r \in Runs(t, P)
      PROVE  \E i \in T : r.first = i /\ r.last = RunEnd(t, T, i)
  BY <1>2
<1>5. ASSUME NEW r \in Runs(t, P)
      PROVE  r.first \in T /\ r.first \in 1..Len(t) /\ r.last \in Int /\ r.first <= r.last + 1
  <2>1. PICK i \in T : r.first = i /\ r.last = RunEnd(t, T, i)
    BY <1>4
  <2> QED BY <1>3, <2>1
<1> QED BY <1>5 DEF IsRuns, T

LEMMA MarksType ==
    ASSUME NEW t, Len(t) \in Nat
    PROVE  Marks(t) \in [1..Len(t) -> MarkKinds]
BY DEF Marks, FenceMark, MarkKinds

\* What is code behind silent text is code without it, unless a fence at the
\* beginning is one only there.
LEMMA CodeBehind ==
    ASSUME NEW t, NEW u, NEW d, Behind(t, u, d), Silent(t, d),
           d = 0 \/ Len(u) = 0 \/ t[d] = Newline \/ Marks(u)[1] = "none"
    PROVE  Code(t) = Further(Code(u), d)
<1> DEFINE n == Len(u)
<1>1. n \in Nat /\ d \in Nat /\ Len(t) = d + n /\ \A i \in 1..n : t[d + i] = u[i]
  BY DEF Behind
<1>2. ASSUME NEW P \in SUBSET (1..(d + n)), NEW Q \in SUBSET (1..n),
             \A i \in 1..n : d + i \in P <=> i \in Q
      PROVE  Runs(t, P) = {ShiftedRun(r, d) : r \in Runs(u, Q)}
  <2>1. ASSUME NEW j \in Ticked(t, P) PROVE j \in Further(Ticked(u, Q), d)
    <3>1. j \in 1..(d + n) /\ j \in P /\ BacktickWidth(t[j]) > 0
      BY DEF Ticked
    <3>2. t[j] \in {Tick, Ticks}
      BY <3>1 DEF BacktickWidth
    <3>3. j - d \in 1..n /\ d + (j - d) = j
      BY <1>1, <3>1, <3>2 DEF Silent
    <3>4. j - d \in Q /\ t[j] = u[j - d]
      BY <1>1, <1>2, <3>1, <3>3
    <3>5. j - d \in Ticked(u, Q)
      BY <3>1, <3>4 DEF Ticked
    <3> QED BY <3>3, <3>5 DEF Further
  <2>2. ASSUME NEW j \in Further(Ticked(u, Q), d) PROVE j \in Ticked(t, P)
    <3>1. PICK i \in Ticked(u, Q) : j = d + i
      BY DEF Further
    <3>2. i \in Q /\ i \in 1..n /\ BacktickWidth(u[i]) > 0
      BY DEF Ticked
    <3>3. d + i \in P /\ t[d + i] = u[i]
      BY <1>1, <1>2, <3>2
    <3> QED BY <3>1, <3>2, <3>3 DEF Ticked
  <2>3. Ticked(t, P) = Further(Ticked(u, Q), d)
    BY <2>1, <2>2
  <2> QED BY <1>1, <2>3, RunsBehind
<1> DEFINE Rt == Runs(t, 1..(d + n))
           Ru == Runs(u, 1..n)
<1>3. Rt = {ShiftedRun(r, d) : r \in Ru}
  <2>1. \A i \in 1..n : d + i \in 1..(d + n) <=> i \in 1..n
    BY <1>1
  <2> QED BY <1>2, <2>1
<1>4. \A r \in Ru : r.first \in 1..n
  BY <1>1, RunsPlaced DEF IsRuns
<1> HIDE DEF Rt, Ru
<1>5. ASSUME NEW i \in 1..n PROVE FenceMark(t, Rt, d + i) = FenceMark(u, Ru, i)
  <2>1. ASSUME NEW r \in Ru PROVE d + r.first = d + i <=> r.first = i
    BY <1>1, <1>4
  <2>2. (\E r \in Rt : r.first = d + i /\ r.width >= 3)
        <=> (\E r \in Ru : r.first = i /\ r.width >= 3)
    <3>1. \A r : ShiftedRun(r, d).first = d + r.first /\ ShiftedRun(r, d).width = r.width
      BY DEF ShiftedRun
    <3>2. (\E r \in Rt : r.first = d + i /\ r.width >= 3)
          <=> (\E r \in Ru : d + r.first = d + i /\ r.width >= 3)
      BY <1>3, <3>1
    <3> QED BY <2>1, <3>2
  <2>3. t[d + i] = u[i]
    BY <1>1
  <2> QED BY <2>2, <2>3 DEF FenceMark
<1>6. ASSUME NEW i \in 1..d PROVE FenceMark(t, Rt, i) = "none"
  <2>1. ASSUME NEW r \in Ru PROVE d + r.first # i
    BY <1>1, <1>4
  <2>2. ~ \E r \in Rt : r.first = i /\ r.width >= 3
    BY <1>3, <2>1 DEF ShiftedRun
  <2>3. t[i] # Tildes
    BY DEF Silent
  <2> QED BY <2>2, <2>3 DEF FenceMark
<1>7. ASSUME NEW i \in 1..n
      PROVE  \/ LineStart(t, d + i) <=> LineStart(u, i)
             \/ i = 1 /\ ~LineStart(t, d + i) /\ Marks(u)[1] = "none"
  <2>1. CASE i = 1
    <3>1. d = 0 \/ t[d] = Newline \/ Marks(u)[1] = "none"
      BY <1>1, <1>7
    <3>2. (d + i) - 1 = d /\ (d = 0 => d + i = 1)
      BY <1>1, <2>1
    <3>3. t[(d + i) - 1] = t[d]
      BY <3>2, Zenon
    <3> QED BY <2>1, <3>1, <3>2, <3>3, Zenon DEF LineStart
  <2>2. CASE i # 1
    <3>1. i - 1 \in 1..n /\ (d + i) - 1 = d + (i - 1) /\ d + i # 1
      BY <1>1, <2>2
    <3>2. t[d + (i - 1)] = u[i - 1]
      BY <1>1, <3>1
    <3>3. t[(d + i) - 1] = u[i - 1]
      BY <3>1, <3>2, Zenon
    <3> QED BY <2>2, <3>1, <3>3, Zenon DEF LineStart
  <2> QED BY <2>1, <2>2
<1>8. /\ \A i \in 1..d : Marks(t)[i] \in {"none", "inside"}
      /\ \A i \in 1..n :
            \/ Marks(t)[d + i] = Marks(u)[i]
            \/ i = 1 /\ Marks(t)[d + i] = "inside" /\ Marks(u)[i] = "none"
  <2>1. /\ Marks(t) = [i \in 1..(d + n) |->
                          IF LineStart(t, i) THEN FenceMark(t, Rt, i) ELSE "inside"]
        /\ Marks(u) = [i \in 1..n |->
                          IF LineStart(u, i) THEN FenceMark(u, Ru, i) ELSE "inside"]
    BY <1>1 DEF Marks, Rt, Ru
  <2>2. \A i \in 1..d : i \in 1..(d + n)
    BY <1>1
  <2>3. \A i \in 1..n : d + i \in 1..(d + n)
    BY <1>1
  <2>4. \A i \in 1..d : Marks(t)[i] \in {"none", "inside"}
    BY <1>6, <2>1, <2>2
  <2>5. ASSUME NEW i \in 1..n
        PROVE  \/ Marks(t)[d + i] = Marks(u)[i]
               \/ i = 1 /\ Marks(t)[d + i] = "inside" /\ Marks(u)[i] = "none"
    <3>1. /\ Marks(t)[d + i] = IF LineStart(t, d + i) THEN FenceMark(t, Rt, d + i) ELSE "inside"
          /\ Marks(u)[i] = IF LineStart(u, i) THEN FenceMark(u, Ru, i) ELSE "inside"
      BY <2>1, <2>3
    <3> QED BY <1>5, <1>7, <3>1, Zenon
  <2> QED BY <2>4, <2>5
<1>9. Fenced(t) = Further(Fenced(u), d)
  <2>1. Marks(t) \in [1..(d + n) -> MarkKinds] /\ Marks(u) \in [1..n -> MarkKinds]
    <3>1. d + n \in Nat
      BY <1>1
    <3> QED BY <1>1, <3>1, MarksType
  <2>2. PICK m : m = Marks(t)
    OBVIOUS
  <2>3. PICK k : k = Marks(u)
    OBVIOUS
  <2>4. /\ m \in [1..(d + n) -> MarkKinds] /\ k \in [1..n -> MarkKinds]
        /\ \A i \in 1..d : m[i] \in {"none", "inside"}
        /\ \A i \in 1..n : m[d + i] = k[i] \/ (i = 1 /\ m[d + i] = "inside" /\ k[i] = "none")
    BY <1>8, <2>1, <2>2, <2>3
  <2>5. Blocks(d + n, m) = Further(Blocks(n, k), d)
    BY <1>1, <2>4, BlocksBehind
  <2> QED BY <1>1, <2>2, <2>3, <2>5 DEF Fenced
<1>10. Fenced(u) \subseteq 1..n
  BY DEF Fenced, Blocks
<1>11. Runs(t, 1..(d + n) \ Fenced(t)) = {ShiftedRun(r, d) : r \in Runs(u, 1..n \ Fenced(u))}
  <2>1. ASSUME NEW i \in 1..n
        PROVE  d + i \in 1..(d + n) \ Fenced(t) <=> i \in 1..n \ Fenced(u)
    BY <1>1, <1>9, <1>10 DEF Further
  <2> QED BY <1>2, <2>1
<1>12. Spanned(t) = Further(Spanned(u), d)
  <2>1. IsRuns(Runs(u, 1..n \ Fenced(u)), n)
    BY <1>1, RunsPlaced
  <2>2. Spans(d + n, {ShiftedRun(r, d) : r \in Runs(u, 1..n \ Fenced(u))})
        = Further(Spans(n, Runs(u, 1..n \ Fenced(u))), d)
    BY <1>1, <2>1, SpansBehind
  <2> QED BY <1>1, <1>11, <2>2 DEF Spanned
<1> QED BY <1>9, <1>12 DEF Code, Further

-----------------------------------------------------------------------------
(* Rewriting.                                                              *)

\* A concept's canonical link leads to it from everywhere.
LEMMA ConceptLeads ==
    ASSUME NEW p \in Concepts \union {Moves[q] : q \in DOMAIN Moves}, NEW from, NEW anchor
    PROVE  Resolve(from, CanonicalTarget(p, anchor)) = p
<1>1. PICK S : p \in Seq(S)
  BY PathsAssumption, Zenon
<1>2. IsPath(p)
  <2>1. DOMAIN p = 1..Len(p)
    BY <1>1, LenProperties
  <2> QED BY <2>1, PathsAssumption, Zenon DEF IsPath
<1> QED BY <1>1, <1>2, CanonicalLeads

\* after is text with the links that lead to a path in DOMAIN to made canonical.
Rewritten(text, from, to, after) ==
    /\ Len(text) \in Nat /\ Len(after) = Len(text)
    /\ \A i \in 1..Len(text) :
          LET p == Resolve(from, text[i].target)
          IN  IF i \in FindLinks(text) /\ p \in DOMAIN to
              THEN after[i] = Link(CanonicalTarget(to[p], text[i].target.anchor))
              ELSE after[i] = text[i]

LEMMA RewriteLinksType ==
    ASSUME NEW text, Len(text) \in Nat, NEW from, NEW to
    PROVE  /\ Rewritten(text, from, to, RewriteLinks(text, from, to))
           /\ \E S : RewriteLinks(text, from, to) \in Seq(S)
<1> DEFINE n == Len(text)
           after == RewriteLinks(text, from, to)
           S == {after[i] : i \in 1..n}
<1>1. after = [i \in 1..n |->
                 LET p == Resolve(from, text[i].target)
                 IN  IF i \in FindLinks(text) /\ p \in DOMAIN to
                     THEN Link(CanonicalTarget(to[p], text[i].target.anchor))
                     ELSE text[i]]
  BY DEF RewriteLinks
<1>2. \A i \in 1..n :
          LET p == Resolve(from, text[i].target)
          IN  IF i \in FindLinks(text) /\ p \in DOMAIN to
              THEN after[i] = Link(CanonicalTarget(to[p], text[i].target.anchor))
              ELSE after[i] = text[i]
  BY <1>1
<1>3. DOMAIN after = 1..n
  BY <1>1
<1>4. after = [i \in 1..n |-> after[i]]
  BY <1>1
<1> HIDE DEF after
<1>5. after \in [1..n -> S]
  BY <1>4
<1>6. after \in Seq(S)
  <2> HIDE DEF S
  <2> QED BY <1>5
<1>7. Len(after) = n
  <2> HIDE DEF S
  <2> QED BY <1>3, <1>6
<1> QED BY <1>2, <1>6, <1>7 DEF Rewritten, after

\* Links stay links, so the same ones are found afterwards.
LEMMA RewrittenLinks ==
    ASSUME NEW text, NEW from, NEW to, NEW after, Rewritten(text, from, to, after)
    PROVE  FindLinks(after) = FindLinks(text)
<1>1. ASSUME NEW i \in 1..Len(text)
      PROVE  /\ text[i] = after[i] \/ (text[i].kind = "link" /\ after[i].kind = "link")
             /\ IsConceptLink(text[i]) <=> IsConceptLink(after[i])
  <2>1. CASE i \in FindLinks(text) /\ Resolve(from, text[i].target) \in DOMAIN to
    <3>1. PICK q, anchor : after[i] = Link(CanonicalTarget(q, anchor))
      BY <2>1 DEF Rewritten
    <3>2. IsConceptLink(after[i])
      BY <3>1 DEF IsConceptLink, Link, CanonicalTarget, Target
    <3>3. IsConceptLink(text[i])
      BY <2>1 DEF FindLinks
    <3> QED BY <3>2, <3>3 DEF IsConceptLink
  <2>2. CASE ~(i \in FindLinks(text) /\ Resolve(from, text[i].target) \in DOMAIN to)
    <3>1. after[i] = text[i]
      BY <2>2 DEF Rewritten
    <3> QED BY <3>1
  <2> QED BY <2>1, <2>2
<1>2. Alike(text, after)
  BY <1>1 DEF Alike, Rewritten
<1> QED BY <1>1, <1>2, AlikeLinks

\* Links that are rewritten to where a batch puts their concepts follow them.
LEMMA RewrittenFollows ==
    ASSUME NEW text, NEW from, NEW to, NEW after, NEW dest,
           Rewritten(text, from, to, after),
           DOMAIN to \subseteq Concepts,
           \A p \in DOMAIN to : to[p] = Follow(p),
           \A p \in Concepts \ DOMAIN to : dest = from /\ Follow(p) = p
    PROVE  Follows(text, from, after, dest)
<1> SUFFICES ASSUME NEW i \in 1..Len(text)
             PROVE  IF i \in FindLinks(text) /\ Resolve(from, text[i].target) \in Concepts
                    THEN /\ IsConceptLink(after[i])
                         /\ Resolve(dest, after[i].target)
                              = Follow(Resolve(from, text[i].target))
                         /\ after[i].target.anchor = text[i].target.anchor
                    ELSE after[i] = text[i]
  BY DEF Follows
<1> DEFINE p == Resolve(from, text[i].target)
<1>1. CASE i \in FindLinks(text) /\ p \in DOMAIN to
  <2>1. after[i] = Link(CanonicalTarget(Follow(p), text[i].target.anchor))
    BY <1>1 DEF Rewritten
  <2>2. Follow(p) \in Concepts \union {Moves[q] : q \in DOMAIN Moves}
    BY <1>1 DEF Follow
  <2>3. after[i].target = CanonicalTarget(Follow(p), text[i].target.anchor)
        /\ after[i].kind = "link"
    BY <2>1 DEF Link
  <2>4. Resolve(dest, after[i].target) = Follow(p)
    <3> DEFINE q == Follow(p)
               anchor == text[i].target.anchor
    <3>1. Resolve(dest, CanonicalTarget(q, anchor)) = q
      <4> HIDE DEF q, anchor
      <4> QED BY <2>2, ConceptLeads DEF q
    <3> QED BY <2>3, <3>1, Zenon
  <2> QED BY <1>1, <2>3, <2>4 DEF IsConceptLink, CanonicalTarget, Target
<1>2. CASE i \in FindLinks(text) /\ p \in Concepts \ DOMAIN to
  <2>1. after[i] = text[i]
    BY <1>2 DEF Rewritten
  <2> QED BY <1>2, <2>1 DEF FindLinks
<1>3. CASE ~(i \in FindLinks(text) /\ p \in Concepts)
  BY <1>3 DEF Rewritten
<1> QED BY <1>1, <1>2, <1>3

\* Where rewriting leaves an old path it is reported, what is reported was left.
LEMMA RewrittenReported ==
    ASSUME NEW text, NEW from, NEW to, NEW after,
           Rewritten(text, from, to, after),
           DOMAIN Moves \subseteq DOMAIN to,
           \A q \in DOMAIN Moves : to[q] = Moves[q],
           NEW p \in DOMAIN Moves
    PROVE  Reported(text, from, after, p)
<1>1. FindLinks(after) = FindLinks(text) /\ Len(after) = Len(text)
  BY RewrittenLinks DEF Rewritten
<1>2. ASSUME NEW i \in 1..Len(after), Names(after, i, p), i \notin FindMentions(after, p)
      PROVE  i \in FindLinks(text) /\ Resolve(from, text[i].target) # p
  <2>1. i \in FindLinks(text)
    BY <1>1, <1>2 DEF FindMentions
  <2>2. ASSUME Resolve(from, text[i].target) = p PROVE FALSE
    <3>1. after[i] = Link(CanonicalTarget(Moves[p], text[i].target.anchor))
      BY <1>1, <2>1, <2>2 DEF Rewritten
    <3>2. after[i].kind = "link" /\ after[i].target.segments = Moves[p]
      BY <3>1 DEF Link, CanonicalTarget, Target
    <3>3. after[i] # Bare(p)
      BY <3>2 DEF Bare
    <3>4. Moves[p] = p
      BY <1>2, <3>2, <3>3 DEF Names
    <3> QED BY <3>4, MovesAssumption
  <2> QED BY <2>1, <2>2
<1>3. ASSUME NEW i \in FindMentions(after, p)
      PROVE  after[i] = text[i] /\ i \notin FindLinks(text)
  <2>1. i \in 1..Len(text) /\ i \notin FindLinks(text)
    BY <1>1 DEF FindMentions
  <2> QED BY <2>1 DEF Rewritten
<1> QED BY <1>2, <1>3 DEF Reported

-----------------------------------------------------------------------------
(* The texts authors write.                                                *)

\* The fields have their tokens, and the body begins with none of the blanks
\* it was sent with.
TextType ==
    /\ source \in Concepts
    /\ lead \in Seq(Blank)
    /\ DOMAIN fields = Fields /\ \A f \in Fields : fields[f] \in Seq(Tokens[f])
    /\ fields.body # << >> => fields.body[1] \notin Blank

\* Whatever an author writes are tokens, and the concept stays where it is.
THEOREM TextTypeInvariant == Spec => []TextType
<1>1. Init => TextType
  <2> SUFFICES ASSUME Init PROVE TextType
    OBVIOUS
  <2>1. DOMAIN fields = Fields /\ \A f \in Fields : fields[f] = << >>
    BY DEF Init
  <2>2. "body" \in Fields
    BY DEF Fields
  <2>3. fields.body = << >>
    BY <2>1, <2>2
  <2> QED BY <2>1, <2>3 DEF Init, TextType
<1>2. ASSUME TextType, NEW f \in Fields, NEW token \in Tokens[f], Write(f, token)
      PROVE  /\ DOMAIN fields' = Fields /\ \A g \in Fields : fields'[g] \in Seq(Tokens[g])
             /\ \A g \in Fields \ {f} : fields'[g] = fields[g]
             /\ fields'[f] = Append(fields[f], token)
  <2>1. Append(fields[f], token) \in Seq(Tokens[f])
    BY <1>2, AppendProperties DEF TextType
  <2> QED BY <1>2, <2>1 DEF TextType, Write
<1>3. ASSUME TextType, [Next]_vars PROVE TextType'
  <2>1. CASE WriteFront
    <3>1. PICK f \in FrontFields : \E token \in Tokens[f] : Write(f, token)
      BY <2>1 DEF WriteFront
    <3>2. f \in Fields /\ "body" \in Fields \ {f}
      BY DEF FrontFields, Fields
    <3> QED BY <1>2, <1>3, <2>1, <3>1, <3>2 DEF TextType, WriteFront
  <2>2. CASE WriteBody
    <3>1. PICK token \in Tokens["body"] :
              IF fields.body = << >> /\ token \in Blank
              THEN lead' = Append(lead, token) /\ UNCHANGED fields
              ELSE Write("body", token) /\ UNCHANGED lead
      BY <2>2 DEF WriteBody
    <3>2. source' = source /\ "body" \in Fields
      BY <2>2 DEF WriteBody, Fields
    <3>3. CASE fields.body = << >> /\ token \in Blank
      <4>1. lead' \in Seq(Blank)
        BY <1>3, <3>1, <3>3, AppendProperties DEF TextType
      <4> QED BY <1>3, <3>1, <3>2, <3>3, <4>1 DEF TextType
    <3>4. CASE ~(fields.body = << >> /\ token \in Blank)
      <4>1. fields'["body"] = Append(fields["body"], token)
        BY <1>2, <1>3, <3>1, <3>2, <3>4
      <4>2. fields'["body"][1] \notin Blank
        <5>1. fields["body"] \in Seq(Tokens["body"])
          BY <1>3, <3>2 DEF TextType
        <5>2. CASE fields["body"] = << >>
          <6>1. Append(fields["body"], token)[1] = token
            BY <5>2
          <6> QED BY <3>4, <4>1, <5>2, <6>1
        <5>3. CASE fields["body"] # << >>
          <6>1. 1 \in 1..Len(fields["body"])
            BY <5>1, <5>3
          <6>2. Append(fields["body"], token)[1] = fields["body"][1]
            BY <3>1, <5>1, <6>1, AppendProperties
          <6> QED BY <1>3, <4>1, <5>3, <6>2 DEF TextType
        <5> QED BY <5>2, <5>3
      <4> QED BY <1>2, <1>3, <3>1, <3>2, <3>4, <4>2 DEF TextType
    <3> QED BY <3>3, <3>4
  <2>3. CASE UNCHANGED vars
    BY <1>3, <2>3 DEF TextType, vars
  <2> QED BY <1>3, <2>1, <2>2, <2>3 DEF Next
<1> QED BY <1>1, <1>3, PTL DEF Spec

LEMMA FieldLengths ==
    ASSUME TextType, NEW f \in Fields
    PROVE  Len(fields[f]) \in Nat
  BY DEF TextType

\* The links of a concept that is moved lead from its new path where they led
\* from the old one, whatever tokens its fields have.
THEOREM MovedFollow == Spec => []MovedLinksFollow
<1>1. ASSUME TextType PROVE MovedLinksFollow
  <2> SUFFICES ASSUME NEW f \in MarkdownFields, source \in DOMAIN Moves
               PROVE  Follows(fields[f], source, PinLinks(fields[f], source), Moves[source])
    BY DEF MovedLinksFollow
  <2> DEFINE to == [p \in Concepts |-> IF p \in DOMAIN Moves THEN Moves[p] ELSE p]
  <2>1. Len(fields[f]) \in Nat
    BY <1>1, FieldLengths DEF MarkdownFields, FrontFields, Fields
  <2>2. Rewritten(fields[f], source, to, PinLinks(fields[f], source))
    BY <2>1, RewriteLinksType DEF PinLinks
  <2>3. DOMAIN to = Concepts /\ \A p \in Concepts : to[p] = Follow(p)
    BY DEF Follow
  <2> HIDE DEF to
  <2> QED BY <2>2, <2>3, RewrittenFollows
<1> QED BY <1>1, TextTypeInvariant, PTL

\* A part of a text that has its links without the rest is rewritten alike.
LEMMA PartRewritten ==
    ASSUME NEW t, NEW u, NEW d \in Nat, NEW from, NEW to, NEW S, NEW after \in Seq(S),
           Rewritten(t, from, to, after),
           Len(u) \in Nat, d + Len(u) <= Len(t),
           \A i \in 1..Len(u) : t[d + i] = u[i],
           \A i \in 1..Len(u) : d + i \in FindLinks(t) <=> i \in FindLinks(u)
    PROVE  /\ Rewritten(u, from, to, SubSeq(after, d + 1, d + Len(u)))
           /\ SubSeq(after, d + 1, d + Len(u)) \in Seq(S)
<1> DEFINE n == Len(u)
           part == SubSeq(after, d + 1, d + n)
<1>1. n \in Nat /\ Len(after) = Len(t) /\ Len(t) \in Nat /\ \A i \in 1..n : d + i \in 1..Len(t)
  BY DEF Rewritten
<1>2. part \in Seq(S) /\ Len(part) = n /\ \A i \in 1..n : part[i] = after[d + i]
  <2>1. \A i \in (d + 1)..(d + n) : after[i] \in S
    BY <1>1
  <2>2. /\ part \in Seq(S)
        /\ Len(part) = IF d + 1 <= d + n THEN (d + n) - (d + 1) + 1 ELSE 0
        /\ \A i \in 1..((d + n) - (d + 1) + 1) : part[i] = after[(d + 1) + i - 1]
    BY <1>1, <2>1, SubSeqProperties
  <2>3. (d + n) - (d + 1) + 1 = n /\ \A i \in 1..n : (d + 1) + i - 1 = d + i
    BY <1>1
  <2> HIDE DEF part
  <2>4. Len(part) = n
    BY <1>1, <2>2
  <2>5. \A i \in 1..n : part[i] = after[d + i]
    BY <2>2, <2>3, Zenon
  <2> QED BY <2>2, <2>4, <2>5
<1>3. ASSUME NEW i \in 1..n
      PROVE  LET p == Resolve(from, u[i].target)
             IN  IF i \in FindLinks(u) /\ p \in DOMAIN to
                 THEN part[i] = Link(CanonicalTarget(to[p], u[i].target.anchor))
                 ELSE part[i] = u[i]
  <2>1. LET p == Resolve(from, t[d + i].target)
        IN  IF d + i \in FindLinks(t) /\ p \in DOMAIN to
            THEN after[d + i] = Link(CanonicalTarget(to[p], t[d + i].target.anchor))
            ELSE after[d + i] = t[d + i]
    BY <1>1 DEF Rewritten
  <2>2. t[d + i] = u[i] /\ part[i] = after[d + i]
        /\ (d + i \in FindLinks(t) <=> i \in FindLinks(u))
    BY <1>2
  <2> HIDE DEF part
  <2> QED BY <2>1, <2>2
<1> QED BY <1>1, <1>2, <1>3 DEF Rewritten

\* A body has the links it shows behind any silent text, too, that ends as what
\* is before it in the file does.
LEMMA BodyLinks ==
    ASSUME TextType, ~FenceUncovered, NEW t, NEW d, Behind(t, fields.body, d), Silent(t, d),
           d = 0 \/ t[d] = Newline \/ (lead # << >> /\ t[d] = Last(lead))
    PROVE  /\ \A i \in Code(t) : i > d
           /\ \A i \in 1..Len(fields.body) :
                  d + i \in FindLinks(t) <=> i \in FindLinks(fields.body)
<1>1. PICK u : u = fields.body
  OBVIOUS
<1> DEFINE n == Len(u)
<1>2. /\ d \in Nat /\ n \in Nat /\ Len(t) = d + n
      /\ \A i \in 1..n : t[d + i] = u[i]
  BY <1>1 DEF Behind
<1>3. d = 0 \/ n = 0 \/ t[d] = Newline \/ Marks(u)[1] = "none"
  <2> SUFFICES ASSUME d # 0, n # 0, t[d] # Newline PROVE Marks(u)[1] = "none"
    OBVIOUS
  <2>1. lead # << >> /\ t[d] = Last(lead) /\ u # << >>
    BY <1>2
  <2>2. Last(lead) \in Blank
    <3>1. Len(lead) \in 1..Len(lead)
      BY <2>1 DEF TextType
    <3> QED BY <3>1 DEF TextType, Last
  <2>3. Last(lead) = Indent
    BY <2>1, <2>2 DEF Blank
  <2> QED BY <1>1, <2>1, <2>3 DEF FenceUncovered
<1>4. Behind(t, u, d)
  BY <1>1
<1>5. Code(t) = Further(Code(u), d)
  BY <1>3, <1>4, CodeBehind
<1>6. \A j \in Code(u) : j \in 1..n
  BY DEF Code, Fenced, Blocks, Spanned, Spans
<1>7. ASSUME NEW i \in Code(t) PROVE i > d
  <2>1. PICK j \in Code(u) : i = d + j
    BY <1>5 DEF Further
  <2>2. j \in 1..n
    BY <1>6
  <2> QED BY <1>2, <2>1, <2>2
<1>8. ASSUME NEW i \in 1..n PROVE d + i \in FindLinks(t) <=> i \in FindLinks(u)
  <2>1. d + i \in 1..Len(t) /\ t[d + i] = u[i]
    BY <1>2
  <2>2. i \in Code(u) => d + i \in Code(t)
    BY <1>5 DEF Further
  <2>3. ASSUME d + i \in Code(t) PROVE i \in Code(u)
    <3>1. PICK j \in Code(u) : d + i = d + j
      BY <1>5, <2>3 DEF Further
    <3>2. j \in 1..n
      BY <1>6
    <3> QED BY <1>2, <3>1, <3>2
  <2> QED BY <2>1, <2>2, <2>3 DEF FindLinks
<1> QED BY <1>1, <1>7, <1>8

\* What a write stores of a field is what it was sent, made canonical.
LEMMA WrittenFields ==
    ASSUME TextType, ~FenceUncovered, NEW f \in Fields
    PROVE  /\ Rewritten(fields[f], source,
                  [p \in (Concepts \union {source}) \union DOMAIN Former |->
                      IF p \in Concepts \union {source} THEN p ELSE Former[p]], Written(f))
           /\ \E S : Written(f) \in Seq(S)
<1> DEFINE to == [p \in (Concepts \union {source}) \union DOMAIN Former |->
                      IF p \in Concepts \union {source} THEN p ELSE Former[p]]
           t == Sent(f)
           u == fields[f]
           text == RewriteLinks(t, source, to)
<1>1. Written(f) = SubSeq(text, Len(text) - Len(u) + 1, Len(text))
  BY DEF Written, Normalize
<1>2. Len(u) \in Nat
  BY FieldLengths
<1>3. PICK d \in Nat : /\ Len(t) = d + Len(u)
                       /\ \A i \in 1..Len(u) : t[d + i] = u[i]
                       /\ \A i \in 1..Len(u) : d + i \in FindLinks(t) <=> i \in FindLinks(u)
  <2>1. CASE f # "body"
    <3>1. t = u
      BY <2>1 DEF Sent
    <3>2. \A i \in 1..Len(u) : 0 + i = i
      BY <1>2
    <3> HIDE DEF t, u
    <3>3. /\ 0 \in Nat /\ Len(t) = 0 + Len(u)
          /\ \A i \in 1..Len(u) : t[0 + i] = u[i]
          /\ \A i \in 1..Len(u) : 0 + i \in FindLinks(t) <=> i \in FindLinks(u)
      BY <1>2, <3>1, <3>2
    <3> QED BY <3>3
  <2>2. CASE f = "body"
    <3> DEFINE S == Blank \union Tokens["body"]
    <3>1. lead \in Seq(S) /\ lead \in Seq(Blank) /\ fields["body"] \in Seq(S)
      BY <2>2 DEF TextType
    <3>2. PICK d \in Nat : d = Len(lead)
      BY <3>1
    <3>3. t = lead \o fields["body"] /\ u = fields["body"]
      BY <2>2 DEF Sent
    <3> HIDE DEF S, t
    <3>4. /\ Len(t) = d + Len(u)
          /\ \A i \in 1..(d + Len(u)) : t[i] = IF i <= d THEN lead[i] ELSE u[i - d]
      BY <3>1, <3>2, <3>3, ConcatProperties
    <3> HIDE DEF u
    <3>5. \A i \in 1..Len(u) : t[d + i] = u[i]
      <4>1. \A i \in 1..Len(u) : d + i \in 1..(d + Len(u)) /\ ~(d + i <= d) /\ (d + i) - d = i
        BY <1>2
      <4>2. \A i \in 1..Len(u) : t[d + i] = u[(d + i) - d]
        BY <3>4, <4>1
      <4> QED BY <4>1, <4>2, Zenon
    <3>6. \A i \in 1..d : t[i] = lead[i] /\ lead[i] \in Blank
      BY <1>2, <3>1, <3>2, <3>4
    <3>7. Silent(t, d)
      <4>1. Blank \intersect {Tick, Ticks, Tildes} = {}
        BY DEF Blank, Newline, Indent, Tick, Ticks, Tildes, Mark
      <4> QED BY <3>6, <4>1 DEF Silent
    <3>8. d = 0 \/ (lead # << >> /\ t[d] = Last(lead))
      BY <3>2, <3>6 DEF Last
    <3>9. Behind(t, fields.body, d)
      BY <1>2, <3>3, <3>4, <3>5 DEF Behind
    <3>10. \A i \in 1..Len(u) : d + i \in FindLinks(t) <=> i \in FindLinks(u)
      BY <3>3, <3>7, <3>8, <3>9, BodyLinks
    <3> QED BY <3>4, <3>5, <3>10
  <2> QED BY <2>1, <2>2
<1> HIDE DEF t, u, to
<1>4. Rewritten(t, source, to, text) /\ \E S : text \in Seq(S)
  <2>1. Len(t) \in Nat
    BY <1>2, <1>3
  <2> QED BY <2>1, RewriteLinksType
<1>5. PICK S : text \in Seq(S)
  BY <1>4
<1>6. PICK after \in Seq(S) : after = text
  BY <1>5
<1> HIDE DEF text
<1>7. /\ Rewritten(u, source, to, SubSeq(after, d + 1, d + Len(u)))
      /\ SubSeq(after, d + 1, d + Len(u)) \in Seq(S)
  <2>1. Rewritten(t, source, to, after) /\ d + Len(u) <= Len(t)
    BY <1>2, <1>3, <1>4, <1>6
  <2> QED BY <1>2, <1>3, <2>1, PartRewritten
<1>8. Written(f) = SubSeq(after, d + 1, d + Len(u))
  <2>1. Len(text) = d + Len(u)
    BY <1>3, <1>4 DEF Rewritten
  <2>2. Len(text) - Len(u) + 1 = d + 1
    BY <1>2, <2>1
  <2> QED BY <1>1, <1>6, <2>1, <2>2
<1> QED BY <1>7, <1>8 DEF to, u

\* Links that a write made canonical lead to the same concept from everywhere,
\* former paths to the concept that has them, and writing again changes
\* nothing, however the body was indented unless that hid a fence.
THEOREM NormalizedStays == Spec => []NormalizedForGood
<1>1. ASSUME TextType PROVE NormalizedForGood
  <2> SUFFICES ASSUME ~FenceUncovered, NEW f \in MarkdownFields
               PROVE  /\ \A i \in FindLinks(fields[f]) :
                            IF LeadsTo(Resolve(source, fields[f][i].target)) \in Concepts
                            THEN \A from \in Concepts :
                                    Resolve(from, Written(f)[i].target)
                                      = LeadsTo(Resolve(source, fields[f][i].target))
                            ELSE Written(f)[i] = fields[f][i]
                      /\ Normalize(Written(f), source) = Written(f)
    BY DEF NormalizedForGood
  <2> DEFINE valid == Concepts \union {source}
             to == [p \in valid \union DOMAIN Former |-> IF p \in valid THEN p ELSE Former[p]]
             body == fields[f]
             text == Written(f)
             again == Normalize(text, source)
             Leads(i) == Resolve(source, body[i].target)
  <2>1. DOMAIN to = Concepts \union DOMAIN Former
        /\ (\A p \in DOMAIN to : to[p] = LeadsTo(p) /\ to[p] \in Concepts)
        /\ (\A p \in Concepts : p \in DOMAIN to /\ to[p] = p)
        /\ (\A p : LeadsTo(p) \in Concepts => p \in DOMAIN to)
    BY <1>1, FormerAssumption DEF TextType, LeadsTo
  <2>2. f \in Fields
    BY DEF MarkdownFields, FrontFields, Fields
  <2>3. Rewritten(body, source, to, text) /\ \E S : text \in Seq(S)
    BY <1>1, <2>2, WrittenFields
  <2>4. again = RewriteLinks(text, source, to)
    BY DEF Normalize
  <2> HIDE DEF to, text, again, body
  <2>5. Len(text) \in Nat /\ Len(text) = Len(body)
    BY <2>3 DEF Rewritten
  <2>6. Rewritten(text, source, to, again) /\ \E S : again \in Seq(S)
    BY <2>4, <2>5, RewriteLinksType, Zenon
  <2>7. FindLinks(text) = FindLinks(body) /\ FindLinks(body) \subseteq 1..Len(body)
    BY <2>3, RewrittenLinks DEF FindLinks
  <2>8. ASSUME NEW i \in FindLinks(body), Leads(i) \in DOMAIN to
        PROVE  /\ text[i] = Link(CanonicalTarget(to[Leads(i)], body[i].target.anchor))
               /\ \A from : Resolve(from, text[i].target) = to[Leads(i)]
    <3>1. text[i] = Link(CanonicalTarget(to[Leads(i)], body[i].target.anchor))
      BY <2>3, <2>7, <2>8 DEF Rewritten
    <3> DEFINE q == to[Leads(i)]
               anchor == body[i].target.anchor
    <3>2. q \in Concepts
      BY <2>1, <2>8
    <3>3. text[i].target = CanonicalTarget(q, anchor)
      BY <3>1 DEF Link
    <3> HIDE DEF q, anchor
    <3>4. \A from : Resolve(from, CanonicalTarget(q, anchor)) = q
      BY <3>2, ConceptLeads
    <3> QED BY <3>1, <3>3, <3>4, Zenon DEF q, anchor
  <2>9. ASSUME NEW i \in FindLinks(body), Leads(i) \notin DOMAIN to
        PROVE  text[i] = body[i]
    BY <2>3, <2>7, <2>9 DEF Rewritten
  <2>10. ASSUME NEW i \in FindLinks(body)
         PROVE  IF LeadsTo(Leads(i)) \in Concepts
                THEN \A from \in Concepts : Resolve(from, text[i].target) = LeadsTo(Leads(i))
                ELSE text[i] = body[i]
    <3>1. CASE Leads(i) \in DOMAIN to
      BY <2>1, <2>8, <3>1
    <3>2. CASE Leads(i) \notin DOMAIN to
      BY <2>1, <2>9, <3>2
    <3> QED BY <3>1, <3>2
  <2>11. again = text
    <3>1. ASSUME NEW i \in 1..Len(text) PROVE again[i] = text[i]
      <4>1. CASE i \in FindLinks(body) /\ Leads(i) \in DOMAIN to
        <5> DEFINE q == to[Leads(i)]
        <5>1. q \in Concepts /\ to[q] = q /\ q \in DOMAIN to
          BY <2>1, <4>1
        <5>2. Resolve(source, text[i].target) = q
          BY <2>8, <4>1
        <5>3. text[i] = Link(CanonicalTarget(q, body[i].target.anchor))
          BY <2>8, <4>1
        <5> HIDE DEF q
        <5>4. text[i].target.anchor = body[i].target.anchor
          BY <5>3 DEF Link, CanonicalTarget, Target
        <5>5. again[i] = Link(CanonicalTarget(q, text[i].target.anchor))
          BY <2>6, <2>7, <4>1, <5>1, <5>2 DEF Rewritten
        <5> QED BY <5>3, <5>4, <5>5
      <4>2. CASE i \in FindLinks(body) /\ Leads(i) \notin DOMAIN to
        <5>1. Resolve(source, text[i].target) \notin DOMAIN to
          BY <2>9, <4>2
        <5> QED BY <2>6, <5>1 DEF Rewritten
      <4>3. CASE i \notin FindLinks(body)
        BY <2>6, <2>7, <4>3 DEF Rewritten
      <4> QED BY <4>1, <4>2, <4>3
    <3>2. Len(again) = Len(text)
      BY <2>6 DEF Rewritten
    <3>3. PICK S : text \in Seq(S)
      BY <2>3
    <3>4. PICK T : again \in Seq(T)
      BY <2>6
    <3> QED BY <3>1, <3>2, <3>3, <3>4
  <2> QED BY <2>10, <2>11 DEF text, again, body
<1> QED BY <1>1, TextTypeInvariant, PTL

\* Code does not begin in the frontmatter that authors write.
PlainFront == \A f \in FrontFields : Tokens[f] \intersect {Tick, Ticks, Tildes} = {}

\* The text x stands in the text c behind the text a.
Holds(c, a, x) ==
    /\ Len(a) \in Nat /\ Len(x) \in Nat /\ Len(c) \in Nat /\ Len(a) + Len(x) <= Len(c)
    /\ \A i \in 1..Len(x) : c[Len(a) + i] = x[i]

LEMMA HoldsHere ==
    ASSUME NEW S, NEW a \in Seq(S), NEW x \in Seq(S)
    PROVE  a \o x \in Seq(S) /\ Holds(a \o x, a, x)
<1>1. /\ a \o x \in Seq(S) /\ Len(a \o x) = Len(a) + Len(x)
      /\ \A i \in 1..(Len(a) + Len(x)) :
            (a \o x)[i] = IF i <= Len(a) THEN a[i] ELSE x[i - Len(a)]
  BY ConcatProperties
<1>2. Len(a) \in Nat /\ Len(x) \in Nat
  OBVIOUS
<1>3. PICK c : c = a \o x
  OBVIOUS
<1>4. ASSUME NEW i \in 1..Len(x) PROVE c[Len(a) + i] = x[i]
  <2>1. Len(a) + i \in 1..(Len(a) + Len(x)) /\ ~(Len(a) + i <= Len(a))
        /\ (Len(a) + i) - Len(a) = i
    BY <1>2
  <2>2. c[Len(a) + i] = x[(Len(a) + i) - Len(a)]
    BY <1>1, <1>3, <2>1
  <2> QED BY <2>1, <2>2, Zenon
<1> QED BY <1>1, <1>2, <1>3, <1>4 DEF Holds

LEMMA HoldsLonger ==
    ASSUME NEW S, NEW c \in Seq(S), NEW y \in Seq(S), NEW a, NEW x, Holds(c, a, x)
    PROVE  c \o y \in Seq(S) /\ Holds(c \o y, a, x)
<1>1. /\ c \o y \in Seq(S) /\ Len(c \o y) = Len(c) + Len(y)
      /\ \A i \in 1..(Len(c) + Len(y)) :
            (c \o y)[i] = IF i <= Len(c) THEN c[i] ELSE y[i - Len(c)]
  BY ConcatProperties
<1>2. Len(c) \in Nat /\ Len(y) \in Nat
  OBVIOUS
<1>3. PICK e : e = c \o y
  OBVIOUS
<1>4. ASSUME NEW i \in 1..Len(x) PROVE e[Len(a) + i] = x[i]
  <2>1. Len(a) + i \in 1..(Len(c) + Len(y)) /\ Len(a) + i <= Len(c)
    BY <1>2 DEF Holds
  <2>2. e[Len(a) + i] = c[Len(a) + i]
    BY <1>1, <1>3, <2>1
  <2> QED BY <2>2 DEF Holds
<1> QED BY <1>1, <1>2, <1>3, <1>4 DEF Holds

\* Where the file has its fields: behind silent text, the body behind a line
\* or the last of the blanks it was sent with.
FrontTexts == (UNION {Tokens[f] : f \in FrontFields}) \union Blank \union {Plain}

LEMMA FilePlaces ==
    ASSUME TextType
    PROVE  /\ Before.body \in Seq(FrontTexts) /\ Before.body # << >>
           /\ IF lead = << >> THEN Last(Before.body) = Newline
              ELSE Last(Before.body) = Last(lead)
           /\ \A f \in FrontFields : Holds(Before.body, Before[f], fields[f])
<1> DEFINE S == FrontTexts
           mid == <<Newline, Plain>>
           end == <<Newline, Plain, Newline, Newline>>
<1>1. /\ <<Plain>> \in Seq(S) /\ mid \in Seq(S) /\ end \in Seq(S) /\ lead \in Seq(S)
      /\ fields.title \in Seq(S) /\ fields.description \in Seq(S)
      /\ fields.resource \in Seq(S) /\ fields.tags \in Seq(S)
  <2>1. Plain \in S /\ Newline \in S
    BY DEF FrontTexts, Blank
  <2>2. lead \in Seq(S)
    BY DEF TextType, FrontTexts
  <2>3. \A f \in FrontFields : fields[f] \in Seq(S)
    <3>1. ASSUME NEW f \in FrontFields PROVE fields[f] \in Seq(S)
      <4>1. fields[f] \in Seq(Tokens[f])
        BY DEF TextType, Fields
      <4>2. Tokens[f] \subseteq S
        BY DEF FrontTexts
      <4> QED BY <4>1, <4>2
    <3> QED BY <3>1
  <2> HIDE DEF S
  <2> QED BY <2>1, <2>2, <2>3 DEF FrontFields
<1> HIDE DEF S, mid, end
<1>2. PICK title : title = <<Plain>>
  OBVIOUS
<1>3. PICK description : description = title \o fields.title \o mid
  OBVIOUS
<1>4. PICK resource : resource = description \o fields.description \o mid
  OBVIOUS
<1>5. PICK tags : tags = resource \o fields.resource \o mid
  OBVIOUS
<1>6. PICK front : front = tags \o fields.tags \o end
  OBVIOUS
<1>7. PICK body : body = front \o lead
  OBVIOUS
<1>8. Before = [title |-> title, description |-> description, resource |-> resource,
                tags |-> tags, body |-> body]
  BY <1>2, <1>3, <1>4, <1>5, <1>6, <1>7 DEF Before, mid, end
<1>9. ASSUME NEW a \in Seq(S), NEW x \in Seq(S), NEW y \in Seq(S)
      PROVE  a \o x \o y \in Seq(S) /\ Holds(a \o x \o y, a, x)
  <2>1. a \o x \in Seq(S) /\ Holds(a \o x, a, x)
    BY HoldsHere
  <2>2. PICK c \in Seq(S) : c = a \o x
    BY <2>1
  <2>3. c \o y \in Seq(S) /\ Holds(c \o y, a, x)
    BY <2>1, <2>2, HoldsLonger
  <2> QED BY <2>2, <2>3
<1>10. ASSUME NEW c \in Seq(S), NEW x \in Seq(S), NEW y \in Seq(S), NEW a, NEW z, Holds(c, a, z)
       PROVE  Holds(c \o x \o y, a, z)
  <2>1. c \o x \in Seq(S) /\ Holds(c \o x, a, z)
    BY <1>10, HoldsLonger
  <2>2. PICK e \in Seq(S) : e = c \o x
    BY <2>1
  <2>3. e \o y \in Seq(S) /\ Holds(e \o y, a, z)
    BY <2>1, <2>2, HoldsLonger
  <2> QED BY <2>2, <2>3
<1>11. title \in Seq(S) /\ description \in Seq(S) /\ Holds(description, title, fields.title)
  BY <1>1, <1>2, <1>3, <1>9
<1>12. resource \in Seq(S) /\ Holds(resource, description, fields.description)
  BY <1>1, <1>4, <1>9, <1>11
<1>13. tags \in Seq(S) /\ Holds(tags, resource, fields.resource)
  BY <1>1, <1>5, <1>9, <1>12
<1>14. front \in Seq(S) /\ Holds(front, tags, fields.tags)
  BY <1>1, <1>6, <1>9, <1>13
<1>15. /\ Holds(front, title, fields.title)
       /\ Holds(front, description, fields.description)
       /\ Holds(front, resource, fields.resource)
  <2>1. Holds(resource, title, fields.title)
    BY <1>1, <1>4, <1>10, <1>11
  <2>2. Holds(tags, title, fields.title) /\ Holds(tags, description, fields.description)
    BY <1>1, <1>5, <1>10, <1>12, <2>1
  <2> QED BY <1>1, <1>6, <1>10, <1>13, <2>2
<1>16. body \in Seq(S) /\ \A a, x : Holds(front, a, x) => Holds(body, a, x)
  <2>1. front \o lead \in Seq(S)
    BY <1>1, <1>14, HoldsHere
  <2>2. ASSUME NEW a, NEW x, Holds(front, a, x) PROVE Holds(front \o lead, a, x)
    BY <1>1, <1>14, <2>2, HoldsLonger
  <2> QED BY <1>7, <2>1, <2>2
<1>17. front # << >> /\ Last(front) = Newline
  <2>1. tags \o fields.tags \in Seq(S)
    BY <1>1, <1>13, HoldsHere
  <2>2. PICK c \in Seq(S) : c = tags \o fields.tags
    BY <2>1
  <2>3. front = c \o end
    BY <1>6, <2>2
  <2>4. Len(end) = 4 /\ end[4] = Newline
    BY DEF end
  <2>5. Len(front) = Len(c) + 4
        /\ front[Len(c) + 4] = Newline
    <3>1. Holds(c \o end, c, end) /\ Len(c \o end) = Len(c) + Len(end)
      BY <1>1, HoldsHere, ConcatProperties
    <3>2. 4 \in 1..Len(end)
      BY <2>4
    <3> QED BY <2>3, <2>4, <3>1, <3>2 DEF Holds
  <2>6. Len(c) \in Nat
    OBVIOUS
  <2> QED BY <2>5, <2>6 DEF Last
<1>18. body # << >> /\ Last(body) = IF lead = << >> THEN Newline ELSE Last(lead)
  <2>1. /\ Len(body) = Len(front) + Len(lead)
        /\ \A i \in 1..(Len(front) + Len(lead)) :
              body[i] = IF i <= Len(front) THEN front[i] ELSE lead[i - Len(front)]
    BY <1>1, <1>7, <1>14, ConcatProperties
  <2>2. Len(front) \in Nat \ {0} /\ Len(lead) \in Nat
    BY <1>1, <1>14, <1>17
  <2>3. CASE lead = << >>
    <3>1. Len(body) = Len(front) /\ body[Len(front)] = front[Len(front)]
      BY <2>1, <2>2, <2>3
    <3> QED BY <1>17, <2>2, <2>3, <3>1 DEF Last
  <2>4. CASE lead # << >>
    <3>1. Len(lead) # 0
      BY <1>1, <2>4
    <3>2. PICK k : k = Len(front) + Len(lead)
      OBVIOUS
    <3>3. k \in 1..(Len(front) + Len(lead)) /\ ~(k <= Len(front)) /\ k - Len(front) = Len(lead)
      BY <2>2, <3>1, <3>2
    <3>4. body[k] = lead[k - Len(front)]
      BY <2>1, <3>3
    <3>5. body[k] = lead[Len(lead)]
      BY <3>3, <3>4, Zenon
    <3> QED BY <2>1, <2>2, <2>4, <3>1, <3>2, <3>5 DEF Last
  <2> QED BY <2>3, <2>4
<1>19. \A f \in FrontFields : Holds(body, Before[f], fields[f])
  <2>1. /\ Holds(body, title, fields.title) /\ Holds(body, description, fields.description)
        /\ Holds(body, resource, fields.resource) /\ Holds(body, tags, fields.tags)
    BY <1>14, <1>15, <1>16
  <2> QED BY <1>8, <2>1 DEF FrontFields
<1> QED BY <1>8, <1>16, <1>18, <1>19 DEF S

\* With a plain frontmatter the links of the file are those of its fields.
LEMMA RawLinks ==
    ASSUME TextType, PlainFront, ~FenceUncovered, NEW f \in Fields
    PROVE  /\ Holds(Raw, Before[f], fields[f])
           /\ \A i \in 1..Len(fields[f]) :
                  Len(Before[f]) + i \in FindLinks(Raw) <=> i \in FindLinks(fields[f])
<1>1. PICK a : a = Before.body
  OBVIOUS
<1>2. PICK d : d = Len(a)
  OBVIOUS
<1> DEFINE S == FrontTexts \union Tokens["body"]
<1>3. /\ a \in Seq(S) /\ a \in Seq(FrontTexts) /\ fields["body"] \in Seq(S)
      /\ a # << >> /\ d \in Nat \ {0}
  <2>1. a \in Seq(FrontTexts) /\ a # << >>
    BY <1>1, FilePlaces
  <2>2. fields["body"] \in Seq(Tokens["body"])
    BY DEF TextType, Fields
  <2> QED BY <1>2, <2>1, <2>2
<1> HIDE DEF S
<1>4. Raw \in Seq(S) /\ Holds(Raw, a, fields.body) /\ Raw = a \o fields.body
  <2>1. Raw = a \o fields["body"]
    BY <1>1 DEF Raw
  <2> QED BY <1>3, <2>1, HoldsHere
<1>5. Len(Raw) = d + Len(fields.body) /\ \A i \in 1..d : Raw[i] = a[i]
  BY <1>2, <1>3, <1>4, ConcatProperties
<1>6. Silent(Raw, d)
  <2>1. FrontTexts \intersect {Tick, Ticks, Tildes} = {}
    <3>1. (Blank \union {Plain}) \intersect {Tick, Ticks, Tildes} = {}
      BY DEF Blank, Plain, Newline, Indent, Tick, Ticks, Tildes, Mark
    <3> QED BY <3>1 DEF FrontTexts, PlainFront
  <2>2. \A i \in 1..d : a[i] \in FrontTexts
    BY <1>2, <1>3
  <2> QED BY <1>5, <2>1, <2>2 DEF Silent
<1>7. Behind(Raw, fields.body, d)
  BY <1>2, <1>3, <1>4, <1>5 DEF Behind, Holds
<1>8. Raw[d] = Newline \/ (lead # << >> /\ Raw[d] = Last(lead))
  <2>1. Raw[d] = Last(a)
    BY <1>2, <1>3, <1>5 DEF Last
  <2> QED BY <1>1, <2>1, FilePlaces
<1>9. /\ \A i \in Code(Raw) : i > d
      /\ \A i \in 1..Len(fields.body) :
              d + i \in FindLinks(Raw) <=> i \in FindLinks(fields.body)
  <2>1. PICK t : t = Raw
    OBVIOUS
  <2>2. Behind(t, fields.body, d) /\ Silent(t, d)
        /\ (d = 0 \/ t[d] = Newline \/ (lead # << >> /\ t[d] = Last(lead)))
    BY <1>6, <1>7, <1>8, <2>1
  <2>3. /\ \A i \in Code(t) : i > d
        /\ \A i \in 1..Len(fields.body) :
              d + i \in FindLinks(t) <=> i \in FindLinks(fields.body)
    BY <2>2, BodyLinks
  <2> QED BY <2>1, <2>3
<1>10. CASE f = "body"
  BY <1>1, <1>2, <1>4, <1>9, <1>10
<1>11. CASE f \in FrontFields
  <2>1. PICK x : x = fields[f]
    OBVIOUS
  <2>2. PICK b : b = Before[f]
    OBVIOUS
  <2>3. Holds(a, b, x) /\ x \in Seq(Tokens[f])
    BY <1>1, <1>11, <2>1, <2>2, FilePlaces DEF TextType, Fields
  <2>4. Holds(Raw, b, x)
    BY <1>3, <1>4, <2>3, HoldsLonger
  <2>5. Code(x) = {}
    <3>1. Code(<< >>) = {}
      BY DEF Code, Fenced, Blocks, Spanned, Spans
    <3>2. PICK n \in Nat : n = Len(x)
      BY <2>3
    <3>3. Silent(x, n) /\ Behind(x, << >>, n) /\ Len(<< >>) = 0
      <4>1. \A i \in 1..n : x[i] \in Tokens[f]
        BY <2>3, <3>2
      <4> QED BY <1>11, <3>2, <4>1 DEF Silent, PlainFront, Behind
    <3>4. Code(x) = Further(Code(<< >>), n)
      BY <3>3, CodeBehind
    <3> QED BY <3>1, <3>4 DEF Further
  <2>6. ASSUME NEW i \in 1..Len(x)
        PROVE  Len(b) + i \in FindLinks(Raw) <=> i \in FindLinks(x)
    <3>1. Len(b) + i \in 1..Len(Raw) /\ Raw[Len(b) + i] = x[i]
      BY <2>4 DEF Holds
    <3>2. Len(b) + i <= d
      BY <1>2, <2>3 DEF Holds
    <3>3. Len(b) + i \notin Code(Raw)
      BY <1>3, <1>9, <2>3, <3>2 DEF Holds
    <3> QED BY <2>5, <3>1, <3>3 DEF FindLinks
  <2> QED BY <2>1, <2>2, <2>4, <2>6
<1> QED BY <1>10, <1>11 DEF Fields

\* So rewriting the file rewrites its fields.
LEMMA RelinkedFields ==
    ASSUME TextType, PlainFront, ~FenceUncovered, NEW f \in Fields
    PROVE  Rewritten(fields[f], source, Moves, FieldOf(Relinked, f))
<1>1. PICK t : t = Raw
  OBVIOUS
<1>2. PICK u : u = fields[f]
  OBVIOUS
<1>3. PICK d : d = Len(Before[f])
  OBVIOUS
<1>4. /\ d \in Nat /\ Len(u) \in Nat /\ Len(t) \in Nat /\ d + Len(u) <= Len(t)
      /\ \A i \in 1..Len(u) : t[d + i] = u[i]
      /\ \A i \in 1..Len(u) : d + i \in FindLinks(t) <=> i \in FindLinks(u)
  BY <1>1, <1>2, <1>3, RawLinks DEF Holds
<1>5. Rewritten(t, source, Moves, Relinked) /\ \E S : Relinked \in Seq(S)
  BY <1>1, <1>4, RewriteLinksType DEF Relinked
<1>6. PICK S : Relinked \in Seq(S)
  BY <1>5
<1>7. PICK after \in Seq(S) : after = Relinked
  BY <1>6
<1>8. Rewritten(u, source, Moves, SubSeq(after, d + 1, d + Len(u)))
  <2>1. Rewritten(t, source, Moves, after)
    BY <1>5, <1>7
  <2> QED BY <1>4, <2>1, PartRewritten
<1> QED BY <1>2, <1>3, <1>7, <1>8 DEF FieldOf

\* The links of a concept that stays follow the moved ones, in the title, the
\* description and the body of its file and nowhere else, if no code begins in
\* its frontmatter: in links_over_fields it does.
THEOREM RelinkedFollow ==
    ASSUME PlainFront
    PROVE  Spec => []RelinkedLinksFollow
<1>1. ASSUME TextType PROVE RelinkedLinksFollow
  <2> SUFFICES ASSUME source \notin DOMAIN Moves, ~FenceUncovered, NEW f \in MarkdownFields
               PROVE  Follows(fields[f], source, FieldOf(Relinked, f), source)
    BY DEF RelinkedLinksFollow
  <2>1. /\ DOMAIN Moves \subseteq Concepts
        /\ \A p \in DOMAIN Moves : Moves[p] = Follow(p)
        /\ \A p \in Concepts \ DOMAIN Moves : Follow(p) = p
    BY MovesAssumption DEF Follow
  <2>2. Rewritten(fields[f], source, Moves, FieldOf(Relinked, f))
    BY <1>1, RelinkedFields DEF MarkdownFields, FrontFields, Fields
  <2> QED BY <2>1, <2>2, RewrittenFollows
<1> QED BY <1>1, TextTypeInvariant, PTL

\* Every old path that a field still has after a move is reported, and what is
\* reported was left alone, if no code begins in the frontmatter.
THEOREM OldPathsAreReported ==
    ASSUME PlainFront
    PROVE  Spec => []OldPathsReported
<1>1. ASSUME TextType PROVE OldPathsReported
  <2> SUFFICES ASSUME ~FenceUncovered, NEW p \in DOMAIN Moves, NEW f \in MentionFields,
                      f = "resource" => FindLinks(fields[f]) = {}
               PROVE  Reported(fields[f], source, Moved[f], p)
    BY DEF OldPathsReported
  <2>1. f \in Fields
    BY DEF MentionFields, MarkdownFields, FrontFields, Fields
  <2>2. Len(fields[f]) \in Nat
    BY <1>1, <2>1, FieldLengths
  <2>3. CASE source \notin DOMAIN Moves
    <3>1. Rewritten(fields[f], source, Moves, FieldOf(Relinked, f))
      BY <1>1, <2>1, RelinkedFields
    <3>2. Moved[f] = FieldOf(Relinked, f)
      BY <2>1, <2>3 DEF Moved
    <3> QED BY <3>1, <3>2, RewrittenReported
  <2>4. CASE source \in DOMAIN Moves /\ f \in MarkdownFields
    <3> DEFINE to == [q \in Concepts |-> IF q \in DOMAIN Moves THEN Moves[q] ELSE q]
    <3>1. Rewritten(fields[f], source, to, PinLinks(fields[f], source))
      BY <2>2, RewriteLinksType DEF PinLinks
    <3>2. DOMAIN Moves \subseteq DOMAIN to /\ \A q \in DOMAIN Moves : to[q] = Moves[q]
      BY MovesAssumption
    <3>3. Moved[f] = PinLinks(fields[f], source)
      BY <2>1, <2>4 DEF Moved
    <3> HIDE DEF to
    <3> QED BY <3>1, <3>2, <3>3, RewrittenReported
  <2>5. CASE source \in DOMAIN Moves /\ f \notin MarkdownFields
    <3>1. f = "resource" /\ Moved[f] = fields[f]
      BY <2>1, <2>5 DEF Moved, MentionFields
    <3>2. Rewritten(fields[f], source, Moves, Moved[f])
      BY <2>2, <3>1 DEF Rewritten
    <3> QED BY <3>2, RewrittenReported
  <2> QED BY <2>3, <2>4, <2>5
<1> QED BY <1>1, TextTypeInvariant, PTL
=============================================================================
