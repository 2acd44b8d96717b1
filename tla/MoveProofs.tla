----------------------------- MODULE MoveProofs -----------------------------
(***************************************************************************)
(* That the file operations of a move, each of which may fail, amount to   *)
(* the atomic move of Bundle or to nothing, and that no content is lost    *)
(* on the way.                                                             *)
(***************************************************************************)
EXTENDS MoveApply, BundleProofs, FiniteSetTheorems, SequenceTheorems

-----------------------------------------------------------------------------
(* Lists of operations.                                                    *)

Members(s) == {s[k] : k \in 1..Len(s)}

\* No operation occurs twice, and none before one that R puts before it.
Sorted(s, R) ==
    \A j, k \in 1..Len(s) : j < k => s[j] # s[k] /\ <<s[k], s[j]>> \notin R

\* What is in t may follow what is in s.
MayFollow(S, T, R) == \A a \in S, b \in T : a # b /\ <<b, a>> \notin R

LEMMA Joined ==
    ASSUME NEW S, NEW R, NEW s \in Seq(S), NEW t \in Seq(S), Sorted(s, R), Sorted(t, R),
           MayFollow(Members(s), Members(t), R)
    PROVE  /\ s \o t \in Seq(S)
           /\ Members(s \o t) = Members(s) \union Members(t)
           /\ Sorted(s \o t, R)
<1> DEFINE u == s \o t
           a == Len(s)
           b == Len(t)
<1>1. /\ a \in Nat /\ b \in Nat /\ Len(u) = a + b /\ u \in Seq(S)
      /\ \A k \in 1..a : u[k] = s[k]
      /\ \A k \in 1..b : u[a + k] = t[k]
  BY LenProperties, ConcatProperties
<1>2. \A k \in 1..Len(u) : k \in 1..a \/ (k - a \in 1..b /\ k = a + (k - a))
  BY <1>1
<1>3. \A k \in 1..a : k \in 1..Len(u)
  BY <1>1
<1>4. \A k \in 1..b : a + k \in 1..Len(u)
  BY <1>1
<1> HIDE DEF u, a, b
<1>5. Members(u) = Members(s) \union Members(t)
  <2>1. ASSUME NEW x \in Members(u) PROVE x \in Members(s) \union Members(t)
    <3>1. PICK k \in 1..Len(u) : x = u[k]
      BY DEF Members
    <3>2. CASE k \in 1..a
      BY <1>1, <3>1, <3>2 DEF Members, a
    <3>3. CASE k - a \in 1..b /\ k = a + (k - a)
      <4>1. u[k] = t[k - a]
        BY <1>1, <3>3
      <4> QED BY <3>1, <3>3, <4>1 DEF Members, b
    <3> QED BY <1>2, <3>2, <3>3
  <2>2. ASSUME NEW x \in Members(s) PROVE x \in Members(u)
    BY <1>1, <1>3 DEF Members, a
  <2>3. ASSUME NEW x \in Members(t) PROVE x \in Members(u)
    BY <1>1, <1>4 DEF Members, b
  <2> QED BY <2>1, <2>2, <2>3
<1>6. Sorted(u, R)
  <2> SUFFICES ASSUME NEW j \in 1..Len(u), NEW k \in 1..Len(u), j < k
               PROVE  u[j] # u[k] /\ <<u[k], u[j]>> \notin R
    BY DEF Sorted
  <2>1. CASE k \in 1..a
    <3>1. j \in 1..a
      BY <1>1, <2>1
    <3>2. u[j] = s[j] /\ u[k] = s[k]
      BY <1>1, <2>1, <3>1
    <3> QED BY <2>1, <3>1, <3>2 DEF Sorted, a
  <2>2. CASE j \in 1..a /\ k - a \in 1..b /\ k = a + (k - a)
    <3>1. u[j] = s[j] /\ u[k] = t[k - a]
      BY <1>1, <2>2
    <3>2. s[j] \in Members(s) /\ t[k - a] \in Members(t)
      BY <2>2 DEF Members, a, b
    <3> QED BY <3>1, <3>2 DEF MayFollow
  <2>3. CASE /\ j - a \in 1..b /\ j = a + (j - a)
             /\ k - a \in 1..b /\ k = a + (k - a)
    <3>1. u[j] = t[j - a] /\ u[k] = t[k - a] /\ j - a < k - a
      BY <1>1, <2>3
    <3> QED BY <2>3, <3>1 DEF Sorted, b
  <2> QED BY <1>2, <2>1, <2>2, <2>3
<1> QED BY <1>1, <1>5, <1>6 DEF u

LEMMA EmptyList ==
    ASSUME NEW S, NEW R
    PROVE  << >> \in Seq(S) /\ Members(<< >>) = {} /\ Sorted(<< >>, R)
BY DEF Members, Sorted

LEMMA OneInList ==
    ASSUME NEW S, NEW R, NEW x \in S
    PROVE  <<x>> \in Seq(S) /\ Members(<<x>>) = {x} /\ Sorted(<<x>>, R)
BY DEF Members, Sorted

LEMMA TwoInList ==
    ASSUME NEW S, NEW R, NEW x \in S, NEW y \in S, x # y, <<y, x>> \notin R
    PROVE  <<x, y>> \in Seq(S) /\ Members(<<x, y>>) = {x, y} /\ Sorted(<<x, y>>, R)
<1>1. Len(<<x, y>>) = 2 /\ 1..2 = {1, 2} /\ <<x, y>>[1] = x /\ <<x, y>>[2] = y
  OBVIOUS
<1> QED BY <1>1 DEF Members, Sorted

\* What is ahead once the first operation is done.
LEMMA TailOf ==
    ASSUME NEW S, NEW R, NEW s \in Seq(S), s # << >>, Sorted(s, R)
    PROVE  /\ Head(s) \in S /\ Head(s) \in Members(s)
           /\ Tail(s) \in Seq(S) /\ Sorted(Tail(s), R)
           /\ Members(Tail(s)) = Members(s) \ {Head(s)}
           /\ \A b \in Members(s) : <<b, Head(s)>> \notin R \/ b = Head(s)
           /\ (Len(s) = 1) <=> (Tail(s) = << >>)
           /\ (Len(s) = 1) => (Members(s) \ {Head(s)} = {})
<1> DEFINE n == Len(s)
           t == Tail(s)
<1>1. /\ n \in Nat /\ n # 0 /\ t \in Seq(S) /\ Len(t) = n - 1
      /\ \A k \in 1..(n - 1) : t[k] = s[k + 1]
      /\ Head(s) = s[1] /\ s[1] \in S
  BY LenProperties, HeadTailProperties, EmptySeq
<1>2. \A k \in 1..(n - 1) : k + 1 \in 1..n
  BY <1>1
<1>3. \A k \in 1..n : k = 1 \/ (k - 1 \in 1..(n - 1) /\ k = (k - 1) + 1)
  BY <1>1
<1>4. 1 \in 1..n
  BY <1>1
<1> HIDE DEF n, t
<1>5. \A k \in 1..(n - 1) : s[k + 1] # s[1] /\ <<s[k + 1], s[1]>> \notin R
  <2> TAKE k \in 1..(n - 1)
  <2>1. k + 1 \in 1..n /\ 1 < k + 1
    BY <1>1, <1>2
  <2> QED BY <1>4, <2>1 DEF Sorted, n
<1>6. Members(t) = Members(s) \ {Head(s)}
  <2>1. ASSUME NEW x \in Members(t) PROVE x \in Members(s) \ {Head(s)}
    <3>1. PICK k \in 1..(n - 1) : x = s[k + 1]
      BY <1>1 DEF Members
    <3> QED BY <1>1, <1>2, <1>5, <3>1 DEF Members, n
  <2>2. ASSUME NEW x \in Members(s), x # Head(s) PROVE x \in Members(t)
    <3>1. PICK k \in 1..n : x = s[k]
      BY DEF Members, n
    <3>2. k - 1 \in 1..(n - 1) /\ k = (k - 1) + 1
      BY <1>1, <1>3, <2>2, <3>1
    <3>3. t[k - 1] = x
      BY <1>1, <3>1, <3>2
    <3> QED BY <1>1, <3>2, <3>3 DEF Members
  <2> QED BY <2>1, <2>2
<1>7. Sorted(t, R)
  <2> SUFFICES ASSUME NEW j \in 1..(n - 1), NEW k \in 1..(n - 1), j < k
               PROVE  t[j] # t[k] /\ <<t[k], t[j]>> \notin R
    BY <1>1 DEF Sorted
  <2>1. j + 1 \in 1..n /\ k + 1 \in 1..n /\ j + 1 < k + 1
    BY <1>1, <1>2
  <2>2. t[j] = s[j + 1] /\ t[k] = s[k + 1]
    BY <1>1
  <2> QED BY <2>1, <2>2 DEF Sorted, n
<1>8. ASSUME NEW b \in Members(s) PROVE <<b, Head(s)>> \notin R \/ b = Head(s)
  <2>1. PICK k \in 1..n : b = s[k]
    BY DEF Members, n
  <2>2. CASE k = 1
    BY <1>1, <2>1, <2>2
  <2>3. CASE k - 1 \in 1..(n - 1) /\ k = (k - 1) + 1
    BY <1>1, <1>5, <2>1, <2>3
  <2> QED BY <1>3, <2>2, <2>3
<1>9. (n = 1) <=> (t = << >>)
  BY <1>1, EmptySeq
<1>10. n = 1 => Members(t) = {}
  BY <1>9, EmptyList
<1>11. Head(s) \in Members(s)
  BY <1>1, <1>4 DEF Members, n
<1> QED BY <1>1, <1>6, <1>7, <1>8, <1>9, <1>10, <1>11 DEF n, t

\* A list of operations, one for each number up to n.
LEMMA ListOf ==
    ASSUME NEW S, NEW R, NEW n \in Nat, NEW f \in [1..n -> S],
           \A j, k \in 1..n : j < k => f[j] # f[k] /\ <<f[k], f[j]>> \notin R
    PROVE  f \in Seq(S) /\ Members(f) = {f[k] : k \in 1..n} /\ Sorted(f, R)
<1>1. f \in Seq(S) /\ Len(f) = n
  BY SeqDef
<1> QED BY <1>1 DEF Members, Sorted


-----------------------------------------------------------------------------
(* Concat strings lists together.                                          *)

\* The function that Concat defines by recursion exists: the shortest prefix
\* of f without one would have one, by one more step.
LEMMA ConcatDefined ==
    ASSUME NEW f, NEW n \in Nat
    PROVE  \E g : g = [k \in 0..n |-> IF k = 0 THEN << >> ELSE g[k - 1] \o f[k]]
<1> DEFINE Defines(g, j) == g = [k \in 0..j |-> IF k = 0 THEN << >> ELSE g[k - 1] \o f[k]]
           Missing == {j \in Nat : ~\E g : Defines(g, j)}
<1> SUFFICES ASSUME Missing # {} PROVE FALSE
  OBVIOUS
<1>1. PICK j \in Missing : \A i \in Missing : j <= i
  <2>1. Missing \subseteq Nat
    OBVIOUS
  <2> HIDE DEF Missing
  <2> QED BY <2>1, SmallestOf
<1>2. j \in Nat /\ ~\E g : Defines(g, j)
  BY <1>1
<1>3. j # 0
  <2> SUFFICES ASSUME j = 0 PROVE FALSE
    OBVIOUS
  <2> DEFINE g0 == [k \in 0..0 |-> << >>]
  <2>1. g0 = [k \in 0..0 |-> IF k = 0 THEN << >> ELSE g0[k - 1] \o f[k]]
    OBVIOUS
  <2> QED BY <1>2, <2>1
<1>4. PICK g : Defines(g, j - 1)
  <2>1. j - 1 \in Nat /\ ~(j <= j - 1)
    BY <1>2, <1>3
  <2> QED BY <1>1, <2>1
<1> DEFINE h == [k \in 0..j |-> IF k = j THEN g[j - 1] \o f[j] ELSE g[k]]
<1>5. \A k \in 0..j : k # j => k \in 0..(j - 1)
  BY <1>2
<1>6. \A k \in 0..j : k # 0 => k - 1 \in 0..j /\ k - 1 # j /\ k - 1 \in 0..(j - 1)
  BY <1>2
<1>7. \A k \in 0..j : h[k] = IF k = 0 THEN << >> ELSE h[k - 1] \o f[k]
  <2> TAKE k \in 0..j
  <2>1. CASE k = j
    <3>1. h[k] = g[j - 1] \o f[j] /\ h[k - 1] = g[k - 1]
      BY <1>3, <1>6, <2>1
    <3> QED BY <1>3, <2>1, <3>1
  <2>2. CASE k # j
    <3>1. h[k] = g[k] /\ g[k] = IF k = 0 THEN << >> ELSE g[k - 1] \o f[k]
      BY <1>4, <1>5, <2>2
    <3>2. k # 0 => h[k - 1] = g[k - 1]
      BY <1>6
    <3> QED BY <3>1, <3>2
  <2> QED BY <2>1, <2>2
<1>8. Defines(h, j)
  BY <1>7
<1> QED BY <1>2, <1>8

LEMMA ConcatSteps ==
    ASSUME NEW f, NEW n \in Nat
    PROVE  \E g : /\ Concat(f, n) = g[n]
                  /\ g[0] = << >>
                  /\ \A k \in 1..n : g[k] = g[k - 1] \o f[k]
<1> DEFINE g == CHOOSE u : u = [k \in 0..n |-> IF k = 0 THEN << >> ELSE u[k - 1] \o f[k]]
<1>1. g = [k \in 0..n |-> IF k = 0 THEN << >> ELSE g[k - 1] \o f[k]]
  BY ConcatDefined
<1>2. Concat(f, n) = g[n]
  BY DEF Concat
<1> HIDE DEF g
<1>3. g[0] = << >>
  <2>1. 0 \in 0..n
    OBVIOUS
  <2> QED BY <1>1, <2>1
<1>4. \A k \in 1..n : g[k] = g[k - 1] \o f[k]
  <2> TAKE k \in 1..n
  <2>1. k \in 0..n /\ k # 0
    OBVIOUS
  <2> QED BY <1>1, <2>1
<1> QED BY <1>2, <1>3, <1>4

\* Lists that may follow each other in the order of f make one list.
LEMMA ConcatSorted ==
    ASSUME NEW S, NEW R, NEW n \in Nat, NEW f,
           \A k \in 1..n : f[k] \in Seq(S) /\ Sorted(f[k], R),
           \A j, k \in 1..n : j < k => MayFollow(Members(f[j]), Members(f[k]), R)
    PROVE  /\ Concat(f, n) \in Seq(S)
           /\ Members(Concat(f, n)) = UNION {Members(f[k]) : k \in 1..n}
           /\ Sorted(Concat(f, n), R)
<1>1. PICK g : /\ Concat(f, n) = g[n]
               /\ g[0] = << >>
               /\ \A k \in 1..n : g[k] = g[k - 1] \o f[k]
  BY ConcatSteps
<1> DEFINE All(j) == UNION {Members(f[k]) : k \in 1..j}
           Fine(j) == g[j] \in Seq(S) /\ Members(g[j]) = All(j) /\ Sorted(g[j], R)
           Wrong == {j \in 0..n : ~Fine(j)}
<1>2. Fine(0)
  <2>1. All(0) = {}
    OBVIOUS
  <2> QED BY <1>1, <2>1, EmptyList
<1>3. Wrong = {}
  <2> SUFFICES ASSUME Wrong # {} PROVE FALSE
    OBVIOUS
  <2>1. PICK j \in Wrong : \A i \in Wrong : j <= i
    <3>1. Wrong \subseteq Nat
      OBVIOUS
    <3> HIDE DEF Wrong
    <3> QED BY <3>1, SmallestOf
  <2>2. j \in 1..n /\ j - 1 \in 0..n /\ ~(j <= j - 1)
    <3>1. j # 0
      BY <1>2, <2>1
    <3> QED BY <2>1, <3>1
  <2>3. Fine(j - 1)
    <3> HIDE DEF Fine
    <3> QED BY <2>1, <2>2
  <2>4. MayFollow(Members(g[j - 1]), Members(f[j]), R)
    <3> SUFFICES ASSUME NEW a \in All(j - 1), NEW b \in Members(f[j])
                 PROVE  a # b /\ <<b, a>> \notin R
      BY <2>3 DEF MayFollow
    <3>1. PICK k \in 1..(j - 1) : a \in Members(f[k])
      OBVIOUS
    <3>2. k \in 1..n /\ k < j
      BY <2>2
    <3> QED BY <2>2, <3>1, <3>2 DEF MayFollow
  <2>5. All(j) = All(j - 1) \union Members(f[j])
    <3>1. 1..j = 1..(j - 1) \union {j}
      BY <2>2
    <3> QED BY <3>1
  <2>6. g[j] = g[j - 1] \o f[j]
    BY <1>1, <2>2
  <2>7. f[j] \in Seq(S) /\ Sorted(f[j], R)
    BY <2>2
  <2>8. /\ g[j - 1] \o f[j] \in Seq(S) /\ Sorted(g[j - 1] \o f[j], R)
        /\ Members(g[j - 1] \o f[j]) = Members(g[j - 1]) \union Members(f[j])
    <3>1. g[j - 1] \in Seq(S) /\ Sorted(g[j - 1], R)
      BY <2>3
    <3> HIDE DEF All, Fine, Wrong
    <3> QED BY <2>4, <2>7, <3>1, Joined
  <2>9. ~Fine(j)
    BY <2>1
  <2> HIDE DEF All
  <2>10. Members(g[j - 1]) = All(j - 1)
    BY <2>3
  <2>11. g[j] \in Seq(S) /\ Sorted(g[j], R)
    BY <2>6, <2>8
  <2>12. Members(g[j]) = All(j)
    BY <2>5, <2>6, <2>8, <2>10
  <2> QED BY <2>9, <2>11, <2>12
<1>4. n \in 0..n
  OBVIOUS
<1> QED BY <1>1, <1>3, <1>4

-----------------------------------------------------------------------------
(* The operations of a move.                                               *)

\* Operations of different kinds, or about different places, are different.
LEMMA OpsDiffer ==
    /\ \A p, q, n, r, t, v : Carry(p, q, n) = Carry(r, t, v) <=> p = r /\ q = t /\ n = v
    /\ \A p, q, r, t : Rename(p, q) = Rename(r, t) <=> p = r /\ q = t
    /\ \A p, n, c, q, v, d : Snapshot(p, n, c) = Snapshot(q, v, d) <=> p = q /\ n = v /\ c = d
    /\ \A p, c, q, d : Write(p, c) = Write(q, d) <=> p = q /\ c = d
    /\ \A p, n, q, v : Discard(p, n) = Discard(q, v) <=> p = q /\ n = v
    /\ \A p, q : Tidy(p) = Tidy(q) <=> p = q
BY DEF Carry, Rename, Snapshot, Write, Discard, Tidy

LEMMA OpKinds ==
    /\ \A p, q, n : /\ Carry(p, q, n).do = "carry" /\ Carry(p, q, n).path = p
                    /\ Carry(p, q, n).to = q /\ Carry(p, q, n).n = n
    /\ \A p, q : Rename(p, q).do = "rename" /\ Rename(p, q).path = p /\ Rename(p, q).to = q
    /\ \A p, n, c : /\ Snapshot(p, n, c).do = "snapshot" /\ Snapshot(p, n, c).path = p
                    /\ Snapshot(p, n, c).to = p
                    /\ Snapshot(p, n, c).n = n /\ Snapshot(p, n, c).data = c
    /\ \A p, c : /\ Write(p, c).do = "write" /\ Write(p, c).path = p /\ Write(p, c).data = c
    /\ \A p, n : /\ Discard(p, n).do = "discard" /\ Discard(p, n).path = p
                 /\ Discard(p, n).n = n
    /\ \A p : Tidy(p).do = "tidy" /\ Tidy(p).path = p
BY DEF Carry, Rename, Snapshot, Write, Discard, Tidy

LEMMA OpTypes ==
    /\ \A p, q \in Path, n \in Nat : Carry(p, q, n) \in Op
    /\ \A p, q \in Path : Rename(p, q) \in Op
    /\ \A p \in Path, n \in Nat, c \in Content : Snapshot(p, n, c) \in Op
    /\ \A p \in Path, c \in Content : Write(p, c) \in Op
    /\ \A p \in Path, n \in Nat : Discard(p, n) \in Op
    /\ \A p \in Path : Tidy(p) \in Op
<1>1. \A p, q \in Path, n \in Nat : Carry(p, q, n) \in Op
  BY DEF Carry, Op, OpKind, Content
<1>2. \A p, q \in Path : Rename(p, q) \in Op
  BY DEF Rename, Op, OpKind, Content
<1>3. \A p \in Path, n \in Nat, c \in Content : Snapshot(p, n, c) \in Op
  BY DEF Snapshot, Op, OpKind
<1>4. \A p \in Path, c \in Content : Write(p, c) \in Op
  BY DEF Write, Op, OpKind
<1>5. \A p \in Path, n \in Nat : Discard(p, n) \in Op
  BY DEF Discard, Op, OpKind, Content
<1>6. \A p \in Path : Tidy(p) \in Op
  BY DEF Tidy, Op, OpKind, Content
<1> QED BY <1>1, <1>2, <1>3, <1>4, <1>5, <1>6

\* Taking back a carry or a rename.
LEMMA Reversed ==
    /\ \A p, q, n : Reverse(Carry(p, q, n)) = <<Carry(q, p, n)>>
    /\ \A p, q : Reverse(Rename(p, q)) = <<Rename(q, p)>>
    /\ \A op : op.do \notin {"carry", "rename"} => Reverse(op) = << >>
<1>1. \A p, q, n : Reverse(Carry(p, q, n)) = <<Carry(q, p, n)>>
  BY DEF Reverse, Carry
<1>2. \A p, q : Reverse(Rename(p, q)) = <<Rename(q, p)>>
  BY DEF Reverse, Rename
<1>3. \A op : op.do \notin {"carry", "rename"} => Reverse(op) = << >>
  BY DEF Reverse
<1> QED BY <1>1, <1>2, <1>3

LEMMA Restored ==
    /\ \A p, n, c : Restore(Snapshot(p, n, c)) = <<Write(p, c), Discard(p, n)>>
    /\ \A op : op.do # "snapshot" => Restore(op) = << >>
BY DEF Snapshot, Restore

\* What an operation of each kind does to the disk.
LEMMA CarryDoes ==
    ASSUME NEW p, NEW q, NEW n
    PROVE  /\ Files(Carry(p, q, n)) = files
           /\ Snaps(Carry(p, q, n)) = [snaps EXCEPT ![q][n] = snaps[p][n], ![p][n] = None]
           /\ Dirs(Carry(p, q, n)) = MakeDirs({q})
BY DEF Files, Snaps, Dirs, Carry

LEMMA RenameDoes ==
    ASSUME NEW p, NEW q
    PROVE  /\ Files(Rename(p, q)) = [files EXCEPT ![q] = files[p], ![p] = None]
           /\ Snaps(Rename(p, q)) = snaps
           /\ Dirs(Rename(p, q)) = verDirs
BY DEF Files, Snaps, Dirs, Rename

LEMMA SnapshotDoes ==
    ASSUME NEW p, NEW n, NEW c
    PROVE  /\ Files(Snapshot(p, n, c)) = files
           /\ Snaps(Snapshot(p, n, c)) = [snaps EXCEPT ![p][n] = c]
           /\ Dirs(Snapshot(p, n, c)) = MakeDirs({p})
BY DEF Files, Snaps, Dirs, Snapshot

LEMMA WriteDoes ==
    ASSUME NEW p, NEW c
    PROVE  /\ Files(Write(p, c)) = [files EXCEPT ![p] = c]
           /\ Snaps(Write(p, c)) = snaps
           /\ Dirs(Write(p, c)) = verDirs
BY DEF Files, Snaps, Dirs, Write

LEMMA DiscardDoes ==
    ASSUME NEW p, NEW n
    PROVE  /\ Files(Discard(p, n)) = files
           /\ Snaps(Discard(p, n)) = [snaps EXCEPT ![p][n] = None]
           /\ Dirs(Discard(p, n)) = verDirs
BY DEF Files, Snaps, Dirs, Discard

LEMMA TidyDoes ==
    ASSUME NEW p
    PROVE  /\ Files(Tidy(p)) = files
           /\ Snaps(Tidy(p)) = snaps
           /\ Dirs(Tidy(p)) = IF p \in verDirs THEN verDirs \ EmptyFrom(p) ELSE verDirs
BY DEF Files, Snaps, Dirs, Tidy

-----------------------------------------------------------------------------
(* The design d of a move: its batch, the files it writes, what they held, *)
(* what they will hold, the number of the snapshot in between, and the     *)
(* bundle before the move.                                                 *)

Disk ==
    /\ files \in [Path -> Content]
    /\ snaps \in [Path -> [Version -> Content]]
    /\ verDirs \subseteq Path

\* Where nobody lives there is no history, and a history has its directory.
Settled(f, s, dirs) ==
    /\ \A p \in Path : f[p] = None => s[p] = NoHistory
    /\ \A p \in Path : s[p] # NoHistory => {p} \union Above[p] \subseteq dirs

Others(d) == d.written \ Targets(d.moves)
Untouched(d) == Path \ (Sources(d.moves) \union d.written)
Kept(d, p) == {n \in Version : d.old.snaps[p][n] # None}

Design(d) ==
    /\ d.moves \in Batches
    /\ d.written \subseteq Path
    /\ Targets(d.moves) \subseteq d.written
    /\ d.written \intersect Sources(d.moves) = {}
    /\ d.was \in [d.written -> File]
    /\ d.now \in [d.written -> File]
    /\ d.num \in [d.written -> Version]
    /\ d.old.files \in [Path -> Content]
    /\ d.old.snaps \in [Path -> [Version -> Content]]
    /\ d.old.verDirs \subseteq Path
    /\ Settled(d.old.files, d.old.snaps, d.old.verDirs)
    /\ \A p \in Sources(d.moves) :
          /\ d.old.files[p] = d.was[d.moves[p]]
          /\ d.old.files[d.moves[p]] = None
          /\ d.old.snaps[p][d.num[d.moves[p]]] = None
    /\ \A q \in Others(d) : d.old.files[q] = d.was[q] /\ d.old.snaps[q][d.num[q]] = None

LEMMA DesignShape ==
    ASSUME NEW d, Design(d)
    PROVE  /\ Sources(d.moves) \subseteq Path /\ Sources(d.moves) # {}
           /\ \A p \in Sources(d.moves) :
                 /\ d.moves[p] \in Path /\ d.moves[p] \in d.written
                 /\ d.moves[p] \in Targets(d.moves)
                 /\ d.moves[p] \notin Sources(d.moves)
                 /\ d.moves[p] \notin Others(d)
                 /\ p \notin d.written
                 /\ d.old.snaps[d.moves[p]] = NoHistory
           /\ \A p, r \in Sources(d.moves) : d.moves[p] = d.moves[r] => p = r
           /\ \A q \in Targets(d.moves) : \E p \in Sources(d.moves) : q = d.moves[p]
           /\ \A q \in d.written :
                 q \in Others(d) \/ \E p \in Sources(d.moves) : q = d.moves[p]
           /\ \A q \in Path :
                 \/ q \in Sources(d.moves) \/ q \in Others(d) \/ q \in Untouched(d)
                 \/ \E p \in Sources(d.moves) : q = d.moves[p]
           /\ \A q \in d.written : /\ q \in Path /\ d.was[q] \in File /\ d.was[q] \in Content
                                   /\ d.now[q] \in File /\ d.now[q] \in Content
                                   /\ d.was[q] # None /\ d.now[q] # None
                                   /\ d.num[q] \in Version /\ d.num[q] \in Nat
<1>1. /\ Sources(d.moves) \subseteq Path /\ Sources(d.moves) # {}
      /\ \A p \in Sources(d.moves) : d.moves[p] \in Path
      /\ \A p, r \in Sources(d.moves) : d.moves[p] = d.moves[r] => p = r
      /\ Sources(d.moves) \intersect Targets(d.moves) = {}
  BY DEF Design, Batches, Sources
<1>2. \A p \in Sources(d.moves) : d.moves[p] \in Targets(d.moves)
  BY DEF Sources, Targets
<1>3. \A q \in Targets(d.moves) : \E p \in Sources(d.moves) : q = d.moves[p]
  BY DEF Sources, Targets
<1>4. \A p \in Sources(d.moves) : d.old.snaps[d.moves[p]] = NoHistory
  BY <1>1 DEF Design, Settled
<1>5. \A q \in d.written : /\ q \in Path /\ d.was[q] \in File /\ d.now[q] \in File
                           /\ d.num[q] \in Version
  BY DEF Design
<1>6. /\ \A c \in File : c \in Content /\ c # None
      /\ \A n \in Version : n \in Nat
  BY NoneAssumption, VersionAssumption DEF Content, Version
<1>7. Targets(d.moves) \subseteq d.written /\ d.written \intersect Sources(d.moves) = {}
  BY DEF Design
<1> QED BY <1>1, <1>2, <1>3, <1>4, <1>5, <1>6, <1>7 DEF Others, Untouched

\* What a move has to do.
Carries(d) ==
    UNION {{Carry(p, d.moves[p], n) : n \in Kept(d, p)} : p \in Sources(d.moves)}

Tasks(d) ==
    Carries(d)
      \union {Rename(p, d.moves[p]) : p \in Sources(d.moves)}
      \union {Snapshot(q, d.num[q], d.was[q]) : q \in d.written}
      \union {Write(q, d.now[q]) : q \in d.written}
      \union {Tidy(p) : p \in Sources(d.moves)}

\* What is left of it in P.
CarryLeft(d, P, p, n) == Carry(p, d.moves[p], n) \in P
RenameLeft(d, P, p) == Rename(p, d.moves[p]) \in P
SnapshotLeft(d, P, q) == Snapshot(q, d.num[q], d.was[q]) \in P
WriteLeft(d, P, q) == Write(q, d.now[q]) \in P
TidyLeft(P, p) == Tidy(p) \in P

-----------------------------------------------------------------------------
(* The disk while P is left to do.                                         *)

\* Renames come first, then moved concepts, then the others, each snapshot
\* before its write, and the tidying last.
Ordered(d, P) ==
    /\ \A q \in d.written : SnapshotLeft(d, P, q) => WriteLeft(d, P, q)
    /\ \A p \in Sources(d.moves), n \in Version :
          RenameLeft(d, P, p) \/ CarryLeft(d, P, p, n) =>
             \A q \in d.written : SnapshotLeft(d, P, q) /\ WriteLeft(d, P, q)
    /\ \A p \in Sources(d.moves) :
          WriteLeft(d, P, d.moves[p]) =>
             \A q \in Others(d) : SnapshotLeft(d, P, q) /\ WriteLeft(d, P, q)
    /\ \A q \in d.written : WriteLeft(d, P, q) => \A p \in Sources(d.moves) : TidyLeft(P, p)

FilesForward(d, P) ==
    /\ \A p \in Sources(d.moves) :
          /\ files[p] = IF RenameLeft(d, P, p) THEN d.was[d.moves[p]] ELSE None
          /\ files[d.moves[p]] = IF RenameLeft(d, P, p) THEN None
                                 ELSE IF WriteLeft(d, P, d.moves[p]) THEN d.was[d.moves[p]]
                                 ELSE d.now[d.moves[p]]
    /\ \A q \in Others(d) : files[q] = IF WriteLeft(d, P, q) THEN d.was[q] ELSE d.now[q]
    /\ \A q \in Untouched(d) : files[q] = d.old.files[q]

SnapsForward(d, P) ==
    /\ \A p \in Sources(d.moves), n \in Version :
          /\ snaps[p][n] = IF CarryLeft(d, P, p, n) THEN d.old.snaps[p][n] ELSE None
          /\ snaps[d.moves[p]][n] =
                IF n = d.num[d.moves[p]]
                THEN IF SnapshotLeft(d, P, d.moves[p]) THEN None ELSE d.was[d.moves[p]]
                ELSE IF CarryLeft(d, P, p, n) THEN None ELSE d.old.snaps[p][n]
    /\ \A q \in Others(d), n \in Version :
          snaps[q][n] = IF n = d.num[q] /\ ~SnapshotLeft(d, P, q) THEN d.was[q]
                        ELSE d.old.snaps[q][n]
    /\ \A q \in Untouched(d) : snaps[q] = d.old.snaps[q]

\* The snapshot directories made so far, and those that tidying emptied.
Carried(d, P) == {p \in Sources(d.moves) : \E n \in Kept(d, p) : ~CarryLeft(d, P, p, n)}

Made(d, P) ==
    {q \in d.written : ~SnapshotLeft(d, P, q)} \union {d.moves[p] : p \in Carried(d, P)}

WithDirs(d, made) == d.old.verDirs \union made \union UNION {Above[q] : q \in made}

Tried(d, P) ==
    UNION {{p} \union Above[p] :
              p \in {r \in Sources(d.moves) : ~TidyLeft(P, r) /\ r \in d.old.verDirs}}

Standing(dirs, tried, s) ==
    {x \in dirs : \E e \in dirs : (e \notin tried \/ s[e] # NoHistory) /\ (e = x \/ x \in Above[e])}

DirsForward(d, P) == verDirs = Standing(WithDirs(d, Made(d, P)), Tried(d, P), snaps)

Forward(d, P) ==
    /\ Ordered(d, P)
    /\ FilesForward(d, P)
    /\ SnapsForward(d, P)
    /\ DirsForward(d, P)

\* No directory goes while there is something else left to do.
LEMMA NothingTried ==
    ASSUME NEW d, NEW P, Forward(d, P), Design(d),
           \E q \in d.written : WriteLeft(d, P, q)
    PROVE  Tried(d, P) = {} /\ verDirs = WithDirs(d, Made(d, P))
<1>1. Tried(d, P) = {}
  BY DEF Forward, Ordered, Tried
<1>2. \A dirs : Standing(dirs, {}, snaps) = dirs
  BY DEF Standing
<1> QED BY <1>1, <1>2 DEF Forward, DirsForward

LEMMA StandingAll == ASSUME NEW dirs, NEW s PROVE Standing(dirs, {}, s) = dirs
BY DEF Standing

\* A snapshot directory and those above it are made.
LEMMA DirsMade ==
    ASSUME NEW d, NEW made, NEW q, verDirs = WithDirs(d, made)
    PROVE  MakeDirs({q}) = WithDirs(d, made \union {q})
BY DEF WithDirs, MakeDirs

LEMMA ForwardCarry ==
    ASSUME NEW d, NEW P, Design(d), Forward(d, P), Disk,
           NEW p \in Sources(d.moves), NEW n \in Kept(d, p), CarryLeft(d, P, p, n),
           files' = files,
           snaps' = [snaps EXCEPT ![d.moves[p]][n] = snaps[p][n], ![p][n] = None],
           verDirs' = MakeDirs({d.moves[p]}),
           NEW Q, Q = P \ {Carry(p, d.moves[p], n)}
    PROVE  Forward(d, Q)'
<1> DEFINE m == d.moves
<1>1. /\ \A r, v : CarryLeft(d, Q, r, v) <=> CarryLeft(d, P, r, v) /\ ~(r = p /\ v = n)
      /\ \A r : RenameLeft(d, Q, r) <=> RenameLeft(d, P, r)
      /\ \A q : SnapshotLeft(d, Q, q) <=> SnapshotLeft(d, P, q)
      /\ \A q : WriteLeft(d, Q, q) <=> WriteLeft(d, P, q)
      /\ \A r : TidyLeft(Q, r) <=> TidyLeft(P, r)
  BY OpsDiffer, OpKinds DEF CarryLeft, RenameLeft, SnapshotLeft, WriteLeft, TidyLeft
<1>2. /\ p \in Path /\ m[p] \in Path /\ m[p] # p /\ m[p] \in d.written /\ n \in Version
      /\ d.old.snaps[p][n] # None /\ n # d.num[m[p]]
      /\ \A r \in Sources(m) : r \in Path /\ m[r] \in Path /\ m[r] # p /\ r # m[p]
      /\ \A r \in Sources(m) : m[r] = m[p] => r = p
      /\ \A q \in Others(d) \union Untouched(d) : q \in Path /\ q # p /\ q # m[p]
  BY DesignShape DEF Kept, Design, Others, Untouched
<1>3. \A q \in d.written : SnapshotLeft(d, P, q) /\ WriteLeft(d, P, q)
  BY <1>2 DEF Forward, Ordered
<1>4. Ordered(d, Q)'
  BY <1>1 DEF Forward, Ordered
<1>5. FilesForward(d, Q)'
  BY <1>1 DEF Forward, FilesForward
<1>6. /\ snaps'[m[p]][n] = snaps[p][n] /\ snaps'[p][n] = None
      /\ \A r \in Path, v \in Version :
            ~(r = m[p] /\ v = n) /\ ~(r = p /\ v = n) => snaps'[r][v] = snaps[r][v]
      /\ \A r \in Path : r # p /\ r # m[p] => snaps'[r] = snaps[r]
  BY <1>2 DEF Disk
<1>7. snaps[p][n] = d.old.snaps[p][n]
  BY <1>2 DEF Forward, SnapsForward
<1>8. SnapsForward(d, Q)'
  <2>1. ASSUME NEW r \in Sources(m), NEW v \in Version
        PROVE  snaps'[r][v] = IF CarryLeft(d, Q, r, v) THEN d.old.snaps[r][v] ELSE None
    <3>1. snaps[r][v] = IF CarryLeft(d, P, r, v) THEN d.old.snaps[r][v] ELSE None
      BY DEF Forward, SnapsForward
    <3>2. snaps'[r][v] = IF r = p /\ v = n THEN None ELSE snaps[r][v]
      <4>1. r \in Path /\ r # m[p]
        BY <1>2
      <4> QED BY <1>6, <4>1
    <3> QED BY <1>1, <3>1, <3>2
  <2>2. ASSUME NEW r \in Sources(m), NEW v \in Version
        PROVE  snaps'[m[r]][v] =
                  IF v = d.num[m[r]]
                  THEN IF SnapshotLeft(d, Q, m[r]) THEN None ELSE d.was[m[r]]
                  ELSE IF CarryLeft(d, Q, r, v) THEN None ELSE d.old.snaps[r][v]
    <3>1. snaps[m[r]][v] =
                  IF v = d.num[m[r]]
                  THEN IF SnapshotLeft(d, P, m[r]) THEN None ELSE d.was[m[r]]
                  ELSE IF CarryLeft(d, P, r, v) THEN None ELSE d.old.snaps[r][v]
      BY DEF Forward, SnapsForward
    <3>2. snaps'[m[r]][v] = IF r = p /\ v = n THEN snaps[p][n] ELSE snaps[m[r]][v]
      <4>1. m[r] \in Path /\ m[r] # p /\ (m[r] = m[p] <=> r = p)
        BY <1>2
      <4> QED BY <1>6, <4>1
    <3>3. CASE r = p /\ v = n
      BY <1>1, <1>2, <1>7, <3>2, <3>3
    <3>4. CASE ~(r = p /\ v = n)
      BY <1>1, <1>2, <3>1, <3>2, <3>4
    <3> QED BY <3>3, <3>4
  <2>3. ASSUME NEW q \in Others(d), NEW v \in Version
        PROVE  snaps'[q][v] = IF v = d.num[q] /\ ~SnapshotLeft(d, Q, q) THEN d.was[q]
                              ELSE d.old.snaps[q][v]
    <3>1. snaps'[q] = snaps[q]
      BY <1>2, <1>6
    <3>2. snaps[q][v] = IF v = d.num[q] /\ ~SnapshotLeft(d, P, q) THEN d.was[q]
                        ELSE d.old.snaps[q][v]
      BY DEF Forward, SnapsForward
    <3> QED BY <1>1, <3>1, <3>2
  <2>4. \A q \in Untouched(d) : snaps'[q] = d.old.snaps[q]
    BY <1>2, <1>6 DEF Forward, SnapsForward
  <2> QED BY <2>1, <2>2, <2>3, <2>4 DEF SnapsForward
<1>9. Made(d, Q) = Made(d, P) \union {m[p]}
  <2>1. Carried(d, Q) = Carried(d, P) \union {p}
    BY <1>1 DEF Carried
  <2> QED BY <1>1, <2>1 DEF Made
<1>10. Tried(d, P) = {} /\ verDirs = WithDirs(d, Made(d, P))
  BY <1>2, <1>3, NothingTried
<1>11. Tried(d, Q) = {}
  BY <1>1, <1>10 DEF Tried
<1>12. verDirs' = WithDirs(d, Made(d, Q))
  <2>1. PICK made : made = Made(d, P)
    OBVIOUS
  <2>2. MakeDirs({m[p]}) = WithDirs(d, made \union {m[p]})
    BY <1>10, <2>1, DirsMade
  <2> QED BY <1>9, <2>1, <2>2
<1>13. DirsForward(d, Q)'
  BY <1>11, <1>12, StandingAll DEF DirsForward
<1> QED BY <1>4, <1>5, <1>8, <1>13 DEF Forward

LEMMA SnapsStay ==
    ASSUME NEW d, NEW P, NEW Q, SnapsForward(d, P), snaps' = snaps,
           \A r, v : CarryLeft(d, Q, r, v) <=> CarryLeft(d, P, r, v),
           \A q : SnapshotLeft(d, Q, q) <=> SnapshotLeft(d, P, q)
    PROVE  SnapsForward(d, Q)'
<1>1. ASSUME NEW p \in Sources(d.moves), NEW n \in Version
      PROVE  /\ snaps'[p][n] = IF CarryLeft(d, Q, p, n) THEN d.old.snaps[p][n] ELSE None
             /\ snaps'[d.moves[p]][n] =
                   IF n = d.num[d.moves[p]]
                   THEN IF SnapshotLeft(d, Q, d.moves[p]) THEN None ELSE d.was[d.moves[p]]
                   ELSE IF CarryLeft(d, Q, p, n) THEN None ELSE d.old.snaps[p][n]
  <2>1. /\ snaps[p][n] = IF CarryLeft(d, P, p, n) THEN d.old.snaps[p][n] ELSE None
        /\ snaps[d.moves[p]][n] =
              IF n = d.num[d.moves[p]]
              THEN IF SnapshotLeft(d, P, d.moves[p]) THEN None ELSE d.was[d.moves[p]]
              ELSE IF CarryLeft(d, P, p, n) THEN None ELSE d.old.snaps[p][n]
    BY DEF SnapsForward
  <2> QED BY <2>1
<1>2. ASSUME NEW q \in Others(d), NEW n \in Version
      PROVE  snaps'[q][n] = IF n = d.num[q] /\ ~SnapshotLeft(d, Q, q) THEN d.was[q]
                            ELSE d.old.snaps[q][n]
  <2>1. snaps[q][n] = IF n = d.num[q] /\ ~SnapshotLeft(d, P, q) THEN d.was[q]
                      ELSE d.old.snaps[q][n]
    BY DEF SnapsForward
  <2> QED BY <2>1
<1>3. \A q \in Untouched(d) : snaps'[q] = d.old.snaps[q]
  BY DEF SnapsForward
<1> QED BY <1>1, <1>2, <1>3 DEF SnapsForward

LEMMA ForwardRename ==
    ASSUME NEW d, NEW P, Design(d), Forward(d, P), Disk,
           NEW p \in Sources(d.moves), RenameLeft(d, P, p),
           files' = [files EXCEPT ![d.moves[p]] = files[p], ![p] = None],
           snaps' = snaps, verDirs' = verDirs,
           NEW Q, Q = P \ {Rename(p, d.moves[p])}
    PROVE  Forward(d, Q)'
<1> DEFINE m == d.moves
<1>1. /\ \A r, v : CarryLeft(d, Q, r, v) <=> CarryLeft(d, P, r, v)
      /\ \A r : RenameLeft(d, Q, r) <=> RenameLeft(d, P, r) /\ r # p
      /\ \A q : SnapshotLeft(d, Q, q) <=> SnapshotLeft(d, P, q)
      /\ \A q : WriteLeft(d, Q, q) <=> WriteLeft(d, P, q)
      /\ \A r : TidyLeft(Q, r) <=> TidyLeft(P, r)
  BY OpsDiffer, OpKinds DEF CarryLeft, RenameLeft, SnapshotLeft, WriteLeft, TidyLeft
<1>2. /\ p \in Path /\ m[p] \in Path /\ m[p] # p /\ m[p] \in d.written
      /\ \A r \in Sources(m) : r \in Path /\ m[r] \in Path /\ m[r] # p /\ r # m[p]
      /\ \A r \in Sources(m) : m[r] = m[p] => r = p
      /\ \A q \in Others(d) \union Untouched(d) : q \in Path /\ q # p /\ q # m[p]
  BY DesignShape DEF Kept, Design, Others, Untouched
<1>3. \A q \in d.written : SnapshotLeft(d, P, q) /\ WriteLeft(d, P, q)
  <2>1. PICK n : n \in Version
    BY <1>2, DesignShape
  <2> QED BY <2>1 DEF Forward, Ordered
<1>4. Ordered(d, Q)'
  BY <1>1 DEF Forward, Ordered
<1>5. /\ files'[m[p]] = files[p] /\ files'[p] = None
      /\ \A r \in Path : r # m[p] /\ r # p => files'[r] = files[r]
  BY <1>2 DEF Disk
<1>6. FilesForward(d, Q)'
  <2>1. ASSUME NEW r \in Sources(m)
        PROVE  /\ files'[r] = IF RenameLeft(d, Q, r) THEN d.was[m[r]] ELSE None
               /\ files'[m[r]] = IF RenameLeft(d, Q, r) THEN None
                                 ELSE IF WriteLeft(d, Q, m[r]) THEN d.was[m[r]]
                                 ELSE d.now[m[r]]
    <3>1. /\ files[r] = IF RenameLeft(d, P, r) THEN d.was[m[r]] ELSE None
          /\ files[m[r]] = IF RenameLeft(d, P, r) THEN None
                           ELSE IF WriteLeft(d, P, m[r]) THEN d.was[m[r]]
                           ELSE d.now[m[r]]
      BY DEF Forward, FilesForward
    <3>2. CASE r = p
      BY <1>1, <1>2, <1>3, <1>5, <3>1, <3>2
    <3>3. CASE r # p
      <4>1. files'[r] = files[r] /\ files'[m[r]] = files[m[r]]
        BY <1>2, <1>5, <3>3
      <4> QED BY <1>1, <3>1, <3>3, <4>1
    <3> QED BY <3>2, <3>3
  <2>2. ASSUME NEW q \in Others(d)
        PROVE  files'[q] = IF WriteLeft(d, Q, q) THEN d.was[q] ELSE d.now[q]
    <3>1. files'[q] = files[q]
      BY <1>2, <1>5
    <3>2. files[q] = IF WriteLeft(d, P, q) THEN d.was[q] ELSE d.now[q]
      BY DEF Forward, FilesForward
    <3> QED BY <1>1, <3>1, <3>2
  <2>3. \A q \in Untouched(d) : files'[q] = d.old.files[q]
    BY <1>2, <1>5 DEF Forward, FilesForward
  <2> QED BY <2>1, <2>2, <2>3 DEF FilesForward
<1>7. SnapsForward(d, Q)'
  <2>1. SnapsForward(d, P)
    BY DEF Forward
  <2> QED BY <1>1, <2>1, SnapsStay
<1>8. Made(d, Q) = Made(d, P) /\ Tried(d, Q) = Tried(d, P)
  BY <1>1 DEF Made, Carried, Tried
<1>9. DirsForward(d, Q)'
  BY <1>8 DEF Forward, DirsForward
<1> QED BY <1>4, <1>6, <1>7, <1>9 DEF Forward

LEMMA ForwardSnapshot ==
    ASSUME NEW d, NEW P, Design(d), Forward(d, P), Disk,
           NEW p \in d.written, SnapshotLeft(d, P, p),
           \A r \in Sources(d.moves), v \in Version :
              ~RenameLeft(d, P, r) /\ ~CarryLeft(d, P, r, v),
           p \in Others(d) => \A r \in Sources(d.moves) : ~WriteLeft(d, P, d.moves[r]),
           files' = files,
           snaps' = [snaps EXCEPT ![p][d.num[p]] = d.was[p]],
           verDirs' = MakeDirs({p}),
           NEW Q, Q = P \ {Snapshot(p, d.num[p], d.was[p])}
    PROVE  Forward(d, Q)'
<1> DEFINE m == d.moves
<1>1. /\ \A r, v : CarryLeft(d, Q, r, v) <=> CarryLeft(d, P, r, v)
      /\ \A r : RenameLeft(d, Q, r) <=> RenameLeft(d, P, r)
      /\ \A q : SnapshotLeft(d, Q, q) <=> SnapshotLeft(d, P, q) /\ q # p
      /\ \A q : WriteLeft(d, Q, q) <=> WriteLeft(d, P, q)
      /\ \A r : TidyLeft(Q, r) <=> TidyLeft(P, r)
  BY OpsDiffer, OpKinds DEF CarryLeft, RenameLeft, SnapshotLeft, WriteLeft, TidyLeft
<1>2. /\ p \in Path /\ d.num[p] \in Version
      /\ \A r \in Sources(m) : r \in Path /\ m[r] \in Path /\ r # p /\ m[r] \notin Others(d)
      /\ \A q \in Others(d) : q \in Path /\ q \in d.written
      /\ \A q \in Untouched(d) : q \in Path /\ q # p
  BY DesignShape DEF Design, Others, Untouched
<1>3. WriteLeft(d, P, p)
  BY DEF Forward, Ordered
<1>4. Ordered(d, Q)'
  BY <1>1, <1>2 DEF Forward, Ordered
<1>5. FilesForward(d, Q)'
  BY <1>1 DEF Forward, FilesForward
<1>6. /\ snaps'[p][d.num[p]] = d.was[p]
      /\ \A r \in Path, v \in Version :
            ~(r = p /\ v = d.num[p]) => snaps'[r][v] = snaps[r][v]
      /\ \A r \in Path : r # p => snaps'[r] = snaps[r]
  BY <1>2 DEF Disk
<1>7. SnapsForward(d, Q)'
  <2>1. ASSUME NEW r \in Sources(m), NEW v \in Version
        PROVE  /\ snaps'[r][v] = IF CarryLeft(d, Q, r, v) THEN d.old.snaps[r][v] ELSE None
               /\ snaps'[m[r]][v] =
                     IF v = d.num[m[r]]
                     THEN IF SnapshotLeft(d, Q, m[r]) THEN None ELSE d.was[m[r]]
                     ELSE IF CarryLeft(d, Q, r, v) THEN None ELSE d.old.snaps[r][v]
    <3>1. /\ snaps[r][v] = IF CarryLeft(d, P, r, v) THEN d.old.snaps[r][v] ELSE None
          /\ snaps[m[r]][v] =
                     IF v = d.num[m[r]]
                     THEN IF SnapshotLeft(d, P, m[r]) THEN None ELSE d.was[m[r]]
                     ELSE IF CarryLeft(d, P, r, v) THEN None ELSE d.old.snaps[r][v]
      BY DEF Forward, SnapsForward
    <3>2. snaps'[r] = snaps[r]
      BY <1>2, <1>6
    <3>3. CASE m[r] = p /\ v = d.num[p]
      BY <1>1, <1>6, <3>1, <3>2, <3>3
    <3>4. CASE ~(m[r] = p /\ v = d.num[p])
      <4>1. snaps'[m[r]][v] = snaps[m[r]][v]
        BY <1>2, <1>6, <3>4
      <4> QED BY <1>1, <3>1, <3>2, <3>4, <4>1
    <3> QED BY <3>3, <3>4
  <2>2. ASSUME NEW q \in Others(d), NEW v \in Version
        PROVE  snaps'[q][v] = IF v = d.num[q] /\ ~SnapshotLeft(d, Q, q) THEN d.was[q]
                              ELSE d.old.snaps[q][v]
    <3>1. snaps[q][v] = IF v = d.num[q] /\ ~SnapshotLeft(d, P, q) THEN d.was[q]
                        ELSE d.old.snaps[q][v]
      BY DEF Forward, SnapsForward
    <3>2. CASE q = p /\ v = d.num[p]
      BY <1>1, <1>6, <3>2
    <3>3. CASE ~(q = p /\ v = d.num[p])
      <4>1. snaps'[q][v] = snaps[q][v]
        BY <1>2, <1>6, <3>3
      <4> QED BY <1>1, <3>1, <3>3, <4>1
    <3> QED BY <3>2, <3>3
  <2>3. \A q \in Untouched(d) : snaps'[q] = d.old.snaps[q]
    BY <1>2, <1>6 DEF Forward, SnapsForward
  <2> QED BY <2>1, <2>2, <2>3 DEF SnapsForward
<1>8. Made(d, Q) = Made(d, P) \union {p}
  <2>1. Carried(d, Q) = Carried(d, P)
    BY <1>1 DEF Carried
  <2> QED BY <1>1, <2>1 DEF Made
<1>9. Tried(d, P) = {} /\ verDirs = WithDirs(d, Made(d, P))
  BY <1>3, NothingTried
<1>10. Tried(d, Q) = {}
  BY <1>1, <1>9 DEF Tried
<1>11. verDirs' = WithDirs(d, Made(d, Q))
  <2>1. PICK made : made = Made(d, P)
    OBVIOUS
  <2>2. MakeDirs({p}) = WithDirs(d, made \union {p})
    BY <1>9, <2>1, DirsMade
  <2> QED BY <1>8, <2>1, <2>2
<1>12. DirsForward(d, Q)'
  BY <1>10, <1>11, StandingAll DEF DirsForward
<1> QED BY <1>4, <1>5, <1>7, <1>12 DEF Forward

LEMMA ForwardWrite ==
    ASSUME NEW d, NEW P, Design(d), Forward(d, P), Disk,
           NEW p \in d.written, WriteLeft(d, P, p), ~SnapshotLeft(d, P, p),
           \A r \in Sources(d.moves), v \in Version :
              ~RenameLeft(d, P, r) /\ ~CarryLeft(d, P, r, v),
           p \in Others(d) => \A r \in Sources(d.moves) : ~WriteLeft(d, P, d.moves[r]),
           files' = [files EXCEPT ![p] = d.now[p]],
           snaps' = snaps, verDirs' = verDirs,
           NEW Q, Q = P \ {Write(p, d.now[p])}
    PROVE  Forward(d, Q)'
<1> DEFINE m == d.moves
<1>1. /\ \A r, v : CarryLeft(d, Q, r, v) <=> CarryLeft(d, P, r, v)
      /\ \A r : RenameLeft(d, Q, r) <=> RenameLeft(d, P, r)
      /\ \A q : SnapshotLeft(d, Q, q) <=> SnapshotLeft(d, P, q)
      /\ \A q : WriteLeft(d, Q, q) <=> WriteLeft(d, P, q) /\ q # p
      /\ \A r : TidyLeft(Q, r) <=> TidyLeft(P, r)
  BY OpsDiffer, OpKinds DEF CarryLeft, RenameLeft, SnapshotLeft, WriteLeft, TidyLeft
<1>2. /\ p \in Path /\ d.num[p] \in Version
      /\ \A r \in Sources(m) : r \in Path /\ m[r] \in Path /\ r # p /\ m[r] \notin Others(d)
      /\ \A q \in Others(d) : q \in Path /\ q \in d.written
      /\ \A q \in Untouched(d) : q \in Path /\ q # p
  BY DesignShape DEF Design, Others, Untouched
<1>3. Ordered(d, Q)'
  BY <1>1, <1>2 DEF Forward, Ordered
<1>4. files'[p] = d.now[p] /\ \A r \in Path : r # p => files'[r] = files[r]
  BY <1>2 DEF Disk
<1>5. FilesForward(d, Q)'
  <2>1. ASSUME NEW r \in Sources(m)
        PROVE  /\ files'[r] = IF RenameLeft(d, Q, r) THEN d.was[m[r]] ELSE None
               /\ files'[m[r]] = IF RenameLeft(d, Q, r) THEN None
                                 ELSE IF WriteLeft(d, Q, m[r]) THEN d.was[m[r]]
                                 ELSE d.now[m[r]]
    <3>1. /\ files[r] = IF RenameLeft(d, P, r) THEN d.was[m[r]] ELSE None
          /\ files[m[r]] = IF RenameLeft(d, P, r) THEN None
                           ELSE IF WriteLeft(d, P, m[r]) THEN d.was[m[r]]
                           ELSE d.now[m[r]]
      BY DEF Forward, FilesForward
    <3>2. files'[r] = files[r]
      BY <1>2, <1>4
    <3>3. ~RenameLeft(d, P, r)
      BY <1>2
    <3>4. CASE m[r] = p
      BY <1>1, <1>4, <3>1, <3>2, <3>3, <3>4
    <3>5. CASE m[r] # p
      <4>1. files'[m[r]] = files[m[r]]
        BY <1>2, <1>4, <3>5
      <4> QED BY <1>1, <3>1, <3>2, <3>5, <4>1
    <3> QED BY <3>4, <3>5
  <2>2. ASSUME NEW q \in Others(d)
        PROVE  files'[q] = IF WriteLeft(d, Q, q) THEN d.was[q] ELSE d.now[q]
    <3>1. files[q] = IF WriteLeft(d, P, q) THEN d.was[q] ELSE d.now[q]
      BY DEF Forward, FilesForward
    <3>2. q = p \/ files'[q] = files[q]
      BY <1>2, <1>4
    <3> QED BY <1>1, <1>4, <3>1, <3>2
  <2>3. \A q \in Untouched(d) : files'[q] = d.old.files[q]
    BY <1>2, <1>4 DEF Forward, FilesForward
  <2> QED BY <2>1, <2>2, <2>3 DEF FilesForward
<1>6. SnapsForward(d, Q)'
  BY <1>1, SnapsStay DEF Forward
<1>7. Made(d, Q) = Made(d, P) /\ Tried(d, Q) = Tried(d, P)
  BY <1>1 DEF Made, Carried, Tried
<1>8. DirsForward(d, Q)'
  BY <1>7 DEF Forward, DirsForward
<1> QED BY <1>3, <1>5, <1>6, <1>8 DEF Forward

\* Tidying a source takes away the directories it leaves empty.
LEMMA StandingShrinks ==
    ASSUME NEW p \in Path, NEW dirs \in SUBSET Path, NEW tried, NEW tidied \in SUBSET Path,
           \A x : x \in tried <=> \E r \in tidied : x \in {r} \union Above[r],
           verDirs = Standing(dirs, tried, snaps)
    PROVE  /\ p \in dirs =>
                 Dirs(Tidy(p)) = Standing(dirs, tried \union {p} \union Above[p], snaps)
           /\ (\E q \in dirs : p \in Above[q] /\ snaps[q] # NoHistory) => Dirs(Tidy(p)) = verDirs
<1> DEFINE chain == {p} \union Above[p]
           more == tried \union {p} \union Above[p]
           Kept0(e) == e \notin tried \/ snaps[e] # NoHistory
           Kept1(e) == e \notin more \/ snaps[e] # NoHistory
           Under(e, x) == e = x \/ x \in Above[e]
<1>1. \A a, b, c \in Path : Under(a, b) /\ Under(b, c) => Under(a, c)
  BY NestingAssumption, AuthorAssumption
<1>2. \A x \in Path : x \in chain <=> Under(p, x)
  OBVIOUS
<1>3. EmptyFrom(p) = {x \in chain : \A e \in verDirs :
                         Under(e, x) => e \in chain /\ snaps[e] = NoHistory}
  BY DEF EmptyFrom
<1>4. /\ \A x : x \in verDirs <=> x \in dirs /\ \E e \in dirs : Kept0(e) /\ Under(e, x)
      /\ \A x : x \in Standing(dirs, more, snaps)
                   <=> x \in dirs /\ \E e \in dirs : Kept1(e) /\ Under(e, x)
  BY DEF Standing
<1>5. Dirs(Tidy(p)) = IF p \in verDirs THEN verDirs \ EmptyFrom(p) ELSE verDirs
  BY TidyDoes
<1>6. \A e : Kept1(e) <=> (Kept0(e) /\ (e \notin chain \/ snaps[e] # NoHistory))
  OBVIOUS
<1>7. chain \subseteq Path
  BY AuthorAssumption
<1> HIDE DEF chain, more, Kept0, Kept1, Under
<1>8. ASSUME NEW x, x \in EmptyFrom(p), x \in Standing(dirs, more, snaps) PROVE FALSE
  <2>1. PICK e \in dirs : Kept1(e) /\ Under(e, x)
    BY <1>4, <1>8
  <2>2. e \in verDirs
    <3>1. Under(e, e)
      BY DEF Under
    <3> QED BY <1>4, <1>6, <2>1, <3>1
  <2>3. e \in chain /\ snaps[e] = NoHistory
    BY <1>3, <1>8, <2>1, <2>2
  <2> QED BY <1>6, <2>1, <2>3
<1>9. ASSUME NEW x, x \in verDirs, x \notin EmptyFrom(p)
      PROVE  x \in Standing(dirs, more, snaps)
  <2>1. x \in dirs /\ x \in Path
    BY <1>4, <1>9
  <2>2. CASE x \notin chain
    <3>1. PICK e \in dirs : Kept0(e) /\ Under(e, x)
      BY <1>4, <1>9
    <3>2. e \notin chain
      <4> SUFFICES ASSUME e \in chain PROVE x \in chain
        BY <2>2
      <4>1. Under(p, e)
        BY <1>2
      <4> QED BY <1>1, <1>2, <2>1, <3>1, <4>1
    <3> QED BY <1>4, <1>6, <2>1, <3>1, <3>2
  <2>3. CASE x \in chain
    <3>1. PICK e \in verDirs : Under(e, x) /\ (e \notin chain \/ snaps[e] # NoHistory)
      BY <1>3, <1>9, <2>3
    <3>2. e \in dirs /\ e \in Path
      BY <1>4
    <3>3. CASE snaps[e] # NoHistory
      <4>1. Kept1(e)
        BY <3>3 DEF Kept1
      <4> QED BY <1>4, <2>1, <3>1, <3>2, <4>1
    <3>4. CASE e \notin chain
      <4>1. PICK g \in dirs : Kept0(g) /\ Under(g, e)
        BY <1>4
      <4>2. g \notin chain
        BY <1>1, <1>2, <3>2, <3>4, <4>1
      <4>3. Under(g, x)
        BY <1>1, <2>1, <3>1, <3>2, <4>1
      <4> QED BY <1>4, <1>6, <2>1, <4>1, <4>2, <4>3
    <3> QED BY <3>1, <3>3, <3>4
  <2> QED BY <2>2, <2>3
<1>10. \A x : x \in Standing(dirs, more, snaps) => x \in verDirs
  BY <1>4, <1>6
<1>11. verDirs \ EmptyFrom(p) = Standing(dirs, more, snaps)
  BY <1>8, <1>9, <1>10
<1>12. ASSUME p \in dirs, p \notin verDirs
       PROVE  verDirs = Standing(dirs, more, snaps)
  <2>1. p \in dirs
    BY <1>12
  <2>2. p \in tried
    <3>1. ~Kept0(p)
      <4>1. Under(p, p)
        BY DEF Under
      <4> QED BY <1>4, <1>12, <2>1, <4>1
    <3> QED BY <3>1 DEF Kept0
  <2>3. PICK r \in tidied : p \in {r} \union Above[r]
    BY <2>2
  <2>4. chain \subseteq {r} \union Above[r]
    BY <1>7, <2>3, NestingAssumption DEF chain
  <2>5. chain \subseteq tried
    BY <2>4
  <2>6. more = tried
    BY <2>5 DEF more, chain
  <2> QED BY <2>6 DEF more
<1>13. ASSUME NEW q \in dirs, p \in Above[q], snaps[q] # NoHistory
       PROVE  EmptyFrom(p) \intersect verDirs = {}
  <2> SUFFICES ASSUME NEW x, x \in EmptyFrom(p), x \in verDirs PROVE FALSE
    OBVIOUS
  <2>1. x \in chain /\ x \in Path
    BY <1>3, <1>7
  <2>2. Under(q, x)
    BY <1>1, <1>2, <1>13, <2>1 DEF Under
  <2>3. q \in verDirs
    BY <1>4, <1>13 DEF Kept0, Under
  <2> QED BY <1>3, <1>13, <2>2, <2>3
<1>14. p \in dirs => Dirs(Tidy(p)) = Standing(dirs, more, snaps)
  BY <1>5, <1>11, <1>12
<1>15. (\E q \in dirs : p \in Above[q] /\ snaps[q] # NoHistory) => Dirs(Tidy(p)) = verDirs
  BY <1>5, <1>13
<1> QED BY <1>14, <1>15 DEF more

LEMMA ForwardTidy ==
    ASSUME NEW d, NEW P, Design(d), Forward(d, P), Disk,
           NEW p \in Sources(d.moves), TidyLeft(P, p),
           \A q \in d.written : ~WriteLeft(d, P, q),
           files' = files, snaps' = snaps, verDirs' = Dirs(Tidy(p)),
           NEW Q, Q = P \ {Tidy(p)}
    PROVE  Forward(d, Q)'
<1> DEFINE m == d.moves
<1>1. /\ \A r, v : CarryLeft(d, Q, r, v) <=> CarryLeft(d, P, r, v)
      /\ \A r : RenameLeft(d, Q, r) <=> RenameLeft(d, P, r)
      /\ \A q : SnapshotLeft(d, Q, q) <=> SnapshotLeft(d, P, q)
      /\ \A q : WriteLeft(d, Q, q) <=> WriteLeft(d, P, q)
      /\ \A r : TidyLeft(Q, r) <=> TidyLeft(P, r) /\ r # p
  BY OpsDiffer, OpKinds DEF CarryLeft, RenameLeft, SnapshotLeft, WriteLeft, TidyLeft
<1>2. Ordered(d, Q)'
  BY <1>1 DEF Forward, Ordered
<1>3. FilesForward(d, Q)'
  BY <1>1 DEF Forward, FilesForward
<1>4. SnapsForward(d, Q)'
  <2>1. SnapsForward(d, P)
    BY DEF Forward
  <2> QED BY <1>1, <2>1, SnapsStay
<1>5. Made(d, Q) = Made(d, P)
  BY <1>1 DEF Made, Carried
<1>6. p \in Path /\ p \notin d.written /\ d.written \subseteq Path
  BY DesignShape DEF Design
<1> DEFINE made == Made(d, P)
           dirs == WithDirs(d, made)
           tidied == {r \in Sources(m) : ~TidyLeft(P, r) /\ r \in d.old.verDirs}
<1>7. made \subseteq d.written /\ d.written \subseteq made
  <2>1. \A q \in d.written : ~SnapshotLeft(d, P, q)
    BY DEF Forward, Ordered
  <2>2. \A r \in Sources(m) : m[r] \in d.written
    BY DesignShape
  <2> QED BY <2>1, <2>2 DEF Made, Carried
<1>8. dirs \subseteq Path
  BY <1>6, <1>7, AuthorAssumption DEF WithDirs, Design
<1>9. tidied \subseteq Path
  BY DesignShape
<1>10. Tried(d, P) = UNION {{r} \union Above[r] : r \in tidied}
  BY DEF Tried
<1>11. verDirs = Standing(dirs, Tried(d, P), snaps)
  BY DEF Forward, DirsForward
<1>12. /\ p \in dirs =>
             Dirs(Tidy(p)) = Standing(dirs, Tried(d, P) \union {p} \union Above[p], snaps)
       /\ (\E q \in dirs : p \in Above[q] /\ snaps[q] # NoHistory) => Dirs(Tidy(p)) = verDirs
  <2>1. PICK c \in SUBSET Path, e \in SUBSET Path : c = tidied /\ e = dirs
    BY <1>8, <1>9
  <2> HIDE DEF dirs, tidied
  <2>2. \A x : x \in Tried(d, P) <=> \E r \in c : x \in {r} \union Above[r]
    BY <1>10, <2>1
  <2>3. verDirs = Standing(e, Tried(d, P), snaps)
    BY <1>11, <2>1
  <2>4. /\ p \in e => Dirs(Tidy(p)) = Standing(e, Tried(d, P) \union {p} \union Above[p], snaps)
        /\ (\E q \in e : p \in Above[q] /\ snaps[q] # NoHistory) => Dirs(Tidy(p)) = verDirs
    BY <1>6, <2>2, <2>3, StandingShrinks
  <2> QED BY <2>1, <2>4
<1>13. verDirs' = Standing(dirs, Tried(d, Q), snaps)
  <2>1. CASE p \in d.old.verDirs
    <3>1. Tried(d, Q) = Tried(d, P) \union {p} \union Above[p]
      BY <1>1, <2>1 DEF Tried
    <3>2. p \in dirs
      BY <2>1 DEF WithDirs
    <3> QED BY <1>12, <3>1, <3>2
  <2>2. CASE p \notin d.old.verDirs
    <3>1. Tried(d, Q) = Tried(d, P)
      BY <1>1, <2>2 DEF Tried
    <3>2. CASE p \in dirs
      <4>1. PICK q \in made : p \in Above[q]
        BY <1>6, <1>7, <2>2, <3>2 DEF WithDirs
      <4>2. q \in d.written /\ q \in dirs
        BY <1>7, <4>1 DEF WithDirs
      <4>3. snaps[q][d.num[q]] = d.was[q]
        <5>1. ~SnapshotLeft(d, P, q) /\ d.num[q] \in Version
          BY <4>2, DesignShape DEF Forward, Ordered
        <5>2. CASE q \in Others(d)
          BY <5>1, <5>2 DEF Forward, SnapsForward
        <5>3. CASE \E r \in Sources(m) : q = m[r]
          BY <5>1, <5>3 DEF Forward, SnapsForward
        <5> QED BY <4>2, <5>2, <5>3, DesignShape
      <4>4. snaps[q] # NoHistory
        <5>1. d.num[q] \in Version /\ d.was[q] # None
          BY <4>2, DesignShape
        <5> QED BY <4>3, <5>1 DEF NoHistory
      <4> QED BY <1>11, <1>12, <3>1, <4>1, <4>2, <4>4
    <3>3. CASE p \notin dirs
      <4>1. p \notin verDirs
        BY <1>11, <3>3 DEF Standing
      <4>2. verDirs' = verDirs
        BY <4>1, TidyDoes
      <4> QED BY <1>11, <3>1, <4>2
    <3> QED BY <3>2, <3>3
  <2> QED BY <2>1, <2>2
<1>14. DirsForward(d, Q)'
  BY <1>5, <1>13 DEF DirsForward
<1> QED BY <1>2, <1>3, <1>4, <1>14 DEF Forward

-----------------------------------------------------------------------------
(* The disk while P is left to undo.                                       *)

UndoCarries(d) ==
    UNION {{Carry(d.moves[p], p, n) : n \in Kept(d, p)} : p \in Sources(d.moves)}

UndoTasks(d) ==
    UndoCarries(d)
      \union {Rename(d.moves[p], p) : p \in Sources(d.moves)}
      \union {Write(q, d.was[q]) : q \in d.written}
      \union {Discard(q, d.num[q]) : q \in d.written}

CarryBack(d, P, p, n) == Carry(d.moves[p], p, n) \in P
RenameBack(d, P, p) == Rename(d.moves[p], p) \in P
WriteBack(d, P, q) == Write(q, d.was[q]) \in P
DiscardBack(d, P, q) == Discard(q, d.num[q]) \in P

FilesBack(d, P) ==
    /\ \A p \in Sources(d.moves) :
          RenameBack(d, P, p) =>
             /\ files[p] = None
             /\ ~WriteBack(d, P, d.moves[p]) => files[d.moves[p]] = d.was[d.moves[p]]
    /\ \A p \in Sources(d.moves) :
          ~RenameBack(d, P, p) =>
             /\ ~WriteBack(d, P, d.moves[p])
             /\ files[p] = d.was[d.moves[p]] /\ files[d.moves[p]] = None
    /\ \A q \in Others(d) : ~WriteBack(d, P, q) => files[q] = d.was[q]
    /\ \A q \in Untouched(d) : files[q] = d.old.files[q]

SnapsBack(d, P) ==
    /\ \A p \in Sources(d.moves), n \in Version :
          CarryBack(d, P, p, n) =>
             /\ n \in Kept(d, p) /\ n # d.num[d.moves[p]]
             /\ snaps[p][n] = None /\ snaps[d.moves[p]][n] = d.old.snaps[p][n]
    /\ \A p \in Sources(d.moves), n \in Version :
          ~CarryBack(d, P, p, n) =>
             /\ snaps[p][n] = d.old.snaps[p][n]
             /\ n # d.num[d.moves[p]] => snaps[d.moves[p]][n] = None
    /\ \A p \in Sources(d.moves) :
          ~DiscardBack(d, P, d.moves[p]) => snaps[d.moves[p]][d.num[d.moves[p]]] = None
    /\ \A q \in Others(d), n \in Version :
          n # d.num[q] \/ ~DiscardBack(d, P, q) => snaps[q][n] = d.old.snaps[q][n]
    /\ \A q \in Untouched(d) : snaps[q] = d.old.snaps[q]

\* What is written back is on the disk as long as it is not.
CopyKept(d, P) ==
    \A q \in d.written :
        WriteBack(d, P, q) =>
           DiscardBack(d, P, q) /\ (files[q] = d.was[q] \/ snaps[q][d.num[q]] = d.was[q])

\* The targets whose snapshots are carried.
Carrying(d) == {d.moves[p] : p \in {r \in Sources(d.moves) : Kept(d, r) # {}}}

\* The directories that a failed move may have made.
MayBeMade(d, made) ==
    /\ made \subseteq d.written
    /\ made \subseteq Carrying(d) \/ Carrying(d) \subseteq made
    /\ Targets(d.moves) \subseteq made \/ made \subseteq Targets(d.moves)

DirsBack(d) == \E made \in SUBSET d.written : MayBeMade(d, made) /\ verDirs = WithDirs(d, made)

Backward(d, P) ==
    /\ FilesBack(d, P)
    /\ SnapsBack(d, P)
    /\ CopyKept(d, P)
    /\ DirsBack(d)

LEMMA BackwardWrite ==
    ASSUME NEW d, NEW P, Design(d), Backward(d, P), Disk,
           NEW p \in d.written, WriteBack(d, P, p),
           files' = [files EXCEPT ![p] = d.was[p]], snaps' = snaps, verDirs' = verDirs,
           NEW Q, Q = P \ {Write(p, d.was[p])}
    PROVE  Backward(d, Q)'
<1> DEFINE m == d.moves
<1>1. /\ \A r, v : CarryBack(d, Q, r, v) <=> CarryBack(d, P, r, v)
      /\ \A r : RenameBack(d, Q, r) <=> RenameBack(d, P, r)
      /\ \A q : WriteBack(d, Q, q) <=> WriteBack(d, P, q) /\ q # p
      /\ \A q : DiscardBack(d, Q, q) <=> DiscardBack(d, P, q)
  BY OpsDiffer, OpKinds DEF CarryBack, RenameBack, WriteBack, DiscardBack
<1>2. /\ p \in Path
      /\ \A r \in Sources(m) : r \in Path /\ m[r] \in Path /\ r # p
      /\ \A q \in Others(d) : q \in Path
      /\ \A q \in Untouched(d) : q \in Path /\ q # p
  BY DesignShape DEF Design, Others, Untouched
<1>3. files'[p] = d.was[p] /\ \A r \in Path : r # p => files'[r] = files[r]
  BY <1>2 DEF Disk
<1>4. FilesBack(d, Q)'
  <2>1. ASSUME NEW r \in Sources(m), RenameBack(d, Q, r)
        PROVE  files'[r] = None /\ (~WriteBack(d, Q, m[r]) => files'[m[r]] = d.was[m[r]])
    <3>1. files[r] = None /\ (~WriteBack(d, P, m[r]) => files[m[r]] = d.was[m[r]])
      BY <1>1, <2>1 DEF Backward, FilesBack
    <3>2. files'[r] = files[r]
      BY <1>2, <1>3
    <3>3. m[r] = p \/ files'[m[r]] = files[m[r]]
      BY <1>2, <1>3
    <3> QED BY <1>1, <1>3, <3>1, <3>2, <3>3
  <2>2. ASSUME NEW r \in Sources(m), ~RenameBack(d, Q, r)
        PROVE  ~WriteBack(d, Q, m[r]) /\ files'[r] = d.was[m[r]] /\ files'[m[r]] = None
    <3>1. ~WriteBack(d, P, m[r]) /\ files[r] = d.was[m[r]] /\ files[m[r]] = None
      BY <1>1, <2>2 DEF Backward, FilesBack
    <3>2. m[r] # p
      BY <3>1
    <3>3. files'[r] = files[r] /\ files'[m[r]] = files[m[r]]
      BY <1>2, <1>3, <3>2
    <3> QED BY <1>1, <3>1, <3>3
  <2>3. ASSUME NEW q \in Others(d), ~WriteBack(d, Q, q) PROVE files'[q] = d.was[q]
    <3>1. q # p => files[q] = d.was[q] /\ files'[q] = files[q]
      BY <1>1, <1>2, <1>3, <2>3 DEF Backward, FilesBack
    <3> QED BY <1>3, <3>1
  <2>4. \A q \in Untouched(d) : files'[q] = d.old.files[q]
    BY <1>2, <1>3 DEF Backward, FilesBack
  <2> QED BY <2>1, <2>2, <2>3, <2>4 DEF FilesBack
<1>5. SnapsBack(d, Q)'
  BY <1>1 DEF Backward, SnapsBack
<1>6. CopyKept(d, Q)'
  <2> SUFFICES ASSUME NEW q \in d.written, WriteBack(d, Q, q)
               PROVE  /\ DiscardBack(d, Q, q)
                      /\ files'[q] = d.was[q] \/ snaps'[q][d.num[q]] = d.was[q]
    BY DEF CopyKept
  <2>1. q # p /\ DiscardBack(d, P, q) /\ (files[q] = d.was[q] \/ snaps[q][d.num[q]] = d.was[q])
    BY <1>1 DEF Backward, CopyKept
  <2>2. files'[q] = files[q]
    BY <1>3, <2>1, DesignShape
  <2> QED BY <1>1, <2>1, <2>2
<1>7. DirsBack(d)'
  BY DEF Backward, DirsBack
<1> QED BY <1>4, <1>5, <1>6, <1>7 DEF Backward

LEMMA BackwardDiscard ==
    ASSUME NEW d, NEW P, Design(d), Backward(d, P), Disk,
           NEW p \in d.written, DiscardBack(d, P, p), ~WriteBack(d, P, p),
           files' = files, snaps' = [snaps EXCEPT ![p][d.num[p]] = None], verDirs' = verDirs,
           NEW Q, Q = P \ {Discard(p, d.num[p])}
    PROVE  Backward(d, Q)'
<1> DEFINE m == d.moves
<1>1. /\ \A r, v : CarryBack(d, Q, r, v) <=> CarryBack(d, P, r, v)
      /\ \A r : RenameBack(d, Q, r) <=> RenameBack(d, P, r)
      /\ \A q : WriteBack(d, Q, q) <=> WriteBack(d, P, q)
      /\ \A q : DiscardBack(d, Q, q) <=> DiscardBack(d, P, q) /\ q # p
  BY OpsDiffer, OpKinds DEF CarryBack, RenameBack, WriteBack, DiscardBack
<1>2. /\ p \in Path /\ d.num[p] \in Version
      /\ \A r \in Sources(m) : r \in Path /\ m[r] \in Path /\ r # p /\ d.num[m[r]] \in Version
      /\ \A q \in Others(d) : q \in Path
      /\ \A q \in Untouched(d) : q \in Path /\ q # p
  BY DesignShape DEF Design, Others, Untouched
<1>3. /\ snaps'[p][d.num[p]] = None
      /\ \A r \in Path, v \in Version : ~(r = p /\ v = d.num[p]) => snaps'[r][v] = snaps[r][v]
      /\ \A r \in Path : r # p => snaps'[r] = snaps[r]
  BY <1>2 DEF Disk
<1>4. FilesBack(d, Q)'
  BY <1>1 DEF Backward, FilesBack
<1>5. SnapsBack(d, Q)'
  <2>1. ASSUME NEW r \in Sources(m), NEW n \in Version, CarryBack(d, Q, r, n)
        PROVE  /\ n \in Kept(d, r) /\ n # d.num[m[r]]
               /\ snaps'[r][n] = None /\ snaps'[m[r]][n] = d.old.snaps[r][n]
    <3>1. /\ n \in Kept(d, r) /\ n # d.num[m[r]]
          /\ snaps[r][n] = None /\ snaps[m[r]][n] = d.old.snaps[r][n]
      BY <1>1, <2>1 DEF Backward, SnapsBack
    <3>2. snaps'[r] = snaps[r] /\ snaps'[m[r]][n] = snaps[m[r]][n]
      BY <1>2, <1>3, <3>1
    <3> QED BY <3>1, <3>2
  <2>2. ASSUME NEW r \in Sources(m), NEW n \in Version, ~CarryBack(d, Q, r, n)
        PROVE  /\ snaps'[r][n] = d.old.snaps[r][n]
               /\ n # d.num[m[r]] => snaps'[m[r]][n] = None
    <3>1. /\ snaps[r][n] = d.old.snaps[r][n]
          /\ n # d.num[m[r]] => snaps[m[r]][n] = None
      BY <1>1, <2>2 DEF Backward, SnapsBack
    <3>2. snaps'[r] = snaps[r] /\ (n # d.num[m[r]] => snaps'[m[r]][n] = snaps[m[r]][n])
      BY <1>2, <1>3
    <3> QED BY <3>1, <3>2
  <2>3. ASSUME NEW r \in Sources(m), ~DiscardBack(d, Q, m[r])
        PROVE  snaps'[m[r]][d.num[m[r]]] = None
    <3>1. CASE m[r] = p
      BY <1>3, <3>1
    <3>2. CASE m[r] # p
      <4>1. snaps[m[r]][d.num[m[r]]] = None
        BY <1>1, <2>3, <3>2 DEF Backward, SnapsBack
      <4> QED BY <1>2, <1>3, <3>2, <4>1
    <3> QED BY <3>1, <3>2
  <2>4. ASSUME NEW q \in Others(d), NEW n \in Version, n # d.num[q] \/ ~DiscardBack(d, Q, q)
        PROVE  snaps'[q][n] = d.old.snaps[q][n]
    <3>1. CASE q = p /\ n = d.num[p]
      <4>1. d.old.snaps[q][n] = None
        BY <3>1 DEF Design
      <4> QED BY <1>3, <3>1, <4>1
    <3>2. CASE ~(q = p /\ n = d.num[p])
      <4>1. snaps[q][n] = d.old.snaps[q][n]
        <5>1. n # d.num[q] \/ ~DiscardBack(d, P, q)
          BY <1>1, <2>4, <3>2
        <5> QED BY <5>1 DEF Backward, SnapsBack
      <4> QED BY <1>2, <1>3, <3>2, <4>1
    <3> QED BY <3>1, <3>2
  <2>5. \A q \in Untouched(d) : snaps'[q] = d.old.snaps[q]
    BY <1>2, <1>3 DEF Backward, SnapsBack
  <2> QED BY <2>1, <2>2, <2>3, <2>4, <2>5 DEF SnapsBack
<1>6. CopyKept(d, Q)'
  <2> SUFFICES ASSUME NEW q \in d.written, WriteBack(d, Q, q)
               PROVE  /\ DiscardBack(d, Q, q)
                      /\ files'[q] = d.was[q] \/ snaps'[q][d.num[q]] = d.was[q]
    BY DEF CopyKept
  <2>1. q # p /\ DiscardBack(d, P, q) /\ (files[q] = d.was[q] \/ snaps[q][d.num[q]] = d.was[q])
    BY <1>1 DEF Backward, CopyKept
  <2>2. snaps'[q] = snaps[q]
    BY <1>3, <2>1, DesignShape
  <2> QED BY <1>1, <2>1, <2>2
<1>7. DirsBack(d)'
  BY DEF Backward, DirsBack
<1> QED BY <1>4, <1>5, <1>6, <1>7 DEF Backward

LEMMA BackwardRename ==
    ASSUME NEW d, NEW P, Design(d), Backward(d, P), Disk,
           NEW p \in Sources(d.moves), RenameBack(d, P, p), ~WriteBack(d, P, d.moves[p]),
           files' = [files EXCEPT ![p] = files[d.moves[p]], ![d.moves[p]] = None],
           snaps' = snaps, verDirs' = verDirs,
           NEW Q, Q = P \ {Rename(d.moves[p], p)}
    PROVE  Backward(d, Q)'
<1> DEFINE m == d.moves
<1>1. /\ \A r, v : CarryBack(d, Q, r, v) <=> CarryBack(d, P, r, v)
      /\ \A r : RenameBack(d, Q, r) <=> RenameBack(d, P, r) /\ r # p
      /\ \A q : WriteBack(d, Q, q) <=> WriteBack(d, P, q)
      /\ \A q : DiscardBack(d, Q, q) <=> DiscardBack(d, P, q)
  <2>1. \A r : Rename(m[r], r) = Rename(m[p], p) <=> r = p
    BY OpsDiffer
  <2> QED BY <2>1, OpKinds DEF CarryBack, RenameBack, WriteBack, DiscardBack
<1>2. /\ p \in Path /\ m[p] \in Path /\ m[p] # p
      /\ \A r \in Sources(m) : /\ r \in Path /\ m[r] \in Path
                               /\ r # m[p] /\ m[r] # p /\ (m[r] = m[p] => r = p)
      /\ \A q \in Others(d) \union Untouched(d) : q \in Path /\ q # p /\ q # m[p]
  BY DesignShape DEF Design, Others, Untouched
<1>3. /\ files'[p] = files[m[p]] /\ files'[m[p]] = None
      /\ \A r \in Path : r # p /\ r # m[p] => files'[r] = files[r]
  BY <1>2 DEF Disk
<1>4. FilesBack(d, Q)'
  <2>1. ASSUME NEW r \in Sources(m), RenameBack(d, Q, r)
        PROVE  files'[r] = None /\ (~WriteBack(d, Q, m[r]) => files'[m[r]] = d.was[m[r]])
    <3>1. files[r] = None /\ (~WriteBack(d, P, m[r]) => files[m[r]] = d.was[m[r]])
      BY <1>1, <2>1 DEF Backward, FilesBack
    <3>2. files'[r] = files[r] /\ files'[m[r]] = files[m[r]]
      BY <1>1, <1>2, <1>3, <2>1
    <3> QED BY <1>1, <3>1, <3>2
  <2>2. ASSUME NEW r \in Sources(m), ~RenameBack(d, Q, r)
        PROVE  ~WriteBack(d, Q, m[r]) /\ files'[r] = d.was[m[r]] /\ files'[m[r]] = None
    <3>1. CASE r = p
      <4>1. files[m[p]] = d.was[m[p]]
        BY DEF Backward, FilesBack
      <4> QED BY <1>1, <1>3, <3>1, <4>1
    <3>2. CASE r # p
      <4>1. ~WriteBack(d, P, m[r]) /\ files[r] = d.was[m[r]] /\ files[m[r]] = None
        BY <1>1, <2>2, <3>2 DEF Backward, FilesBack
      <4>2. files'[r] = files[r] /\ files'[m[r]] = files[m[r]]
        BY <1>2, <1>3, <3>2
      <4> QED BY <1>1, <4>1, <4>2
    <3> QED BY <3>1, <3>2
  <2>3. ASSUME NEW q \in Others(d), ~WriteBack(d, Q, q) PROVE files'[q] = d.was[q]
    BY <1>1, <1>2, <1>3, <2>3 DEF Backward, FilesBack
  <2>4. \A q \in Untouched(d) : files'[q] = d.old.files[q]
    BY <1>2, <1>3 DEF Backward, FilesBack
  <2> QED BY <2>1, <2>2, <2>3, <2>4 DEF FilesBack
<1>5. SnapsBack(d, Q)'
  BY <1>1 DEF Backward, SnapsBack
<1>6. CopyKept(d, Q)'
  <2> SUFFICES ASSUME NEW q \in d.written, WriteBack(d, Q, q)
               PROVE  /\ DiscardBack(d, Q, q)
                      /\ files'[q] = d.was[q] \/ snaps'[q][d.num[q]] = d.was[q]
    BY DEF CopyKept
  <2>1. DiscardBack(d, P, q) /\ (files[q] = d.was[q] \/ snaps[q][d.num[q]] = d.was[q])
    BY <1>1 DEF Backward, CopyKept
  <2>2. q # m[p] /\ q # p /\ q \in Path
    <3>1. WriteBack(d, P, q) /\ ~WriteBack(d, P, m[p])
      BY <1>1
    <3>2. q # m[p]
      BY <3>1
    <3>3. p \notin d.written /\ q \in Path
      BY DesignShape
    <3> QED BY <3>2, <3>3
  <2>3. files'[q] = files[q]
    BY <1>3, <2>2
  <2> QED BY <1>1, <2>1, <2>3
<1>7. DirsBack(d)'
  BY DEF Backward, DirsBack
<1> QED BY <1>4, <1>5, <1>6, <1>7 DEF Backward

LEMMA BackwardCarry ==
    ASSUME NEW d, NEW P, Design(d), Backward(d, P), Disk,
           NEW p \in Sources(d.moves), NEW n \in Kept(d, p), CarryBack(d, P, p, n),
           files' = files,
           snaps' = [snaps EXCEPT ![p][n] = snaps[d.moves[p]][n], ![d.moves[p]][n] = None],
           verDirs' = MakeDirs({p}),
           NEW Q, Q = P \ {Carry(d.moves[p], p, n)}
    PROVE  Backward(d, Q)'
<1> DEFINE m == d.moves
<1>1. /\ \A r, v : CarryBack(d, Q, r, v) <=> CarryBack(d, P, r, v) /\ ~(r = p /\ v = n)
      /\ \A r : RenameBack(d, Q, r) <=> RenameBack(d, P, r)
      /\ \A q : WriteBack(d, Q, q) <=> WriteBack(d, P, q)
      /\ \A q : DiscardBack(d, Q, q) <=> DiscardBack(d, P, q)
  <2>1. \A r, v : Carry(m[r], r, v) = Carry(m[p], p, n) <=> r = p /\ v = n
    BY OpsDiffer
  <2> QED BY <2>1, OpKinds DEF CarryBack, RenameBack, WriteBack, DiscardBack
<1>2. /\ p \in Path /\ m[p] \in Path /\ m[p] # p /\ n \in Version
      /\ \A r \in Sources(m) : /\ r \in Path /\ m[r] \in Path /\ d.num[m[r]] \in Version
                               /\ r # m[p] /\ m[r] # p /\ (m[r] = m[p] => r = p)
      /\ \A q \in Others(d) \union Untouched(d) : q \in Path /\ q # p /\ q # m[p]
  BY DesignShape DEF Design, Others, Untouched, Kept
<1>3. /\ snaps'[p][n] = snaps[m[p]][n] /\ snaps'[m[p]][n] = None
      /\ \A r \in Path, v \in Version :
            ~(r = p /\ v = n) /\ ~(r = m[p] /\ v = n) => snaps'[r][v] = snaps[r][v]
      /\ \A r \in Path : r # p /\ r # m[p] => snaps'[r] = snaps[r]
  BY <1>2 DEF Disk
<1>4. FilesBack(d, Q)'
  BY <1>1 DEF Backward, FilesBack
<1>5. n # d.num[m[p]] /\ snaps[p][n] = None /\ snaps[m[p]][n] = d.old.snaps[p][n]
  BY <1>2 DEF Backward, SnapsBack
<1>6. SnapsBack(d, Q)'
  <2>1. ASSUME NEW r \in Sources(m), NEW v \in Version, CarryBack(d, Q, r, v)
        PROVE  /\ v \in Kept(d, r) /\ v # d.num[m[r]]
               /\ snaps'[r][v] = None /\ snaps'[m[r]][v] = d.old.snaps[r][v]
    <3>1. /\ v \in Kept(d, r) /\ v # d.num[m[r]] /\ ~(r = p /\ v = n)
          /\ snaps[r][v] = None /\ snaps[m[r]][v] = d.old.snaps[r][v]
      BY <1>1, <2>1 DEF Backward, SnapsBack
    <3>2. snaps'[r][v] = snaps[r][v] /\ snaps'[m[r]][v] = snaps[m[r]][v]
      <4>1. /\ r \in Path /\ m[r] \in Path /\ r # m[p] /\ m[r] # p
            /\ m[r] = m[p] => r = p
        BY <1>2
      <4>2. ~(m[r] = m[p] /\ v = n)
        BY <3>1, <4>1
      <4> QED BY <1>3, <3>1, <4>1, <4>2
    <3> QED BY <3>1, <3>2
  <2>2. ASSUME NEW r \in Sources(m), NEW v \in Version, ~CarryBack(d, Q, r, v)
        PROVE  /\ snaps'[r][v] = d.old.snaps[r][v]
               /\ v # d.num[m[r]] => snaps'[m[r]][v] = None
    <3>1. CASE r = p /\ v = n
      BY <1>3, <1>5, <3>1
    <3>2. CASE ~(r = p /\ v = n)
      <4>1. /\ snaps[r][v] = d.old.snaps[r][v]
            /\ v # d.num[m[r]] => snaps[m[r]][v] = None
        BY <1>1, <2>2, <3>2 DEF Backward, SnapsBack
      <4>2. snaps'[r][v] = snaps[r][v] /\ snaps'[m[r]][v] = snaps[m[r]][v]
        BY <1>2, <1>3, <3>2
      <4> QED BY <4>1, <4>2
    <3> QED BY <3>1, <3>2
  <2>3. ASSUME NEW r \in Sources(m), ~DiscardBack(d, Q, m[r])
        PROVE  snaps'[m[r]][d.num[m[r]]] = None
    <3>1. snaps[m[r]][d.num[m[r]]] = None
      BY <1>1, <2>3 DEF Backward, SnapsBack
    <3>2. ~(m[r] = m[p] /\ d.num[m[r]] = n)
      BY <1>5
    <3> QED BY <1>2, <1>3, <3>1, <3>2
  <2>4. ASSUME NEW q \in Others(d), NEW v \in Version, v # d.num[q] \/ ~DiscardBack(d, Q, q)
        PROVE  snaps'[q][v] = d.old.snaps[q][v]
    <3>1. snaps'[q] = snaps[q]
      BY <1>2, <1>3
    <3>2. snaps[q][v] = d.old.snaps[q][v]
      BY <1>1, <2>4 DEF Backward, SnapsBack
    <3> QED BY <3>1, <3>2
  <2>5. \A q \in Untouched(d) : snaps'[q] = d.old.snaps[q]
    BY <1>2, <1>3 DEF Backward, SnapsBack
  <2> QED BY <2>1, <2>2, <2>3, <2>4, <2>5 DEF SnapsBack
<1>7. CopyKept(d, Q)'
  <2> SUFFICES ASSUME NEW q \in d.written, WriteBack(d, Q, q)
               PROVE  /\ DiscardBack(d, Q, q)
                      /\ files'[q] = d.was[q] \/ snaps'[q][d.num[q]] = d.was[q]
    BY DEF CopyKept
  <2>1. DiscardBack(d, P, q) /\ (files[q] = d.was[q] \/ snaps[q][d.num[q]] = d.was[q])
    BY <1>1 DEF Backward, CopyKept
  <2>2. q \in Path /\ d.num[q] \in Version /\ q # p
    BY DesignShape
  <2>3. ~(q = m[p] /\ d.num[q] = n)
    BY <1>5
  <2>4. snaps'[q][d.num[q]] = snaps[q][d.num[q]]
    BY <1>3, <2>2, <2>3
  <2> QED BY <1>1, <2>1, <2>4
<1>8. DirsBack(d)'
  <2>1. PICK made \in SUBSET d.written : MayBeMade(d, made) /\ verDirs = WithDirs(d, made)
    BY DEF Backward, DirsBack
  <2>2. d.old.snaps[p] # NoHistory
    BY DEF Kept, NoHistory
  <2>3. {p} \union Above[p] \subseteq d.old.verDirs
    BY <1>2, <2>2 DEF Design, Settled
  <2>4. MakeDirs({p}) = verDirs
    BY <2>1, <2>3 DEF MakeDirs, WithDirs
  <2> QED BY <2>1, <2>4 DEF DirsBack
<1> QED BY <1>4, <1>6, <1>7, <1>8 DEF Backward

-----------------------------------------------------------------------------
(* The order of the operations.                                            *)

Renaming == {"carry", "rename"}
Writing == {"snapshot", "write"}

Earlier(d, a, b) ==
    \/ a.do \in Renaming /\ b.do \in Writing
    \/ a.do \in Renaming \union Writing /\ b.do = "tidy"
    \/ /\ a.do \in Writing /\ b.do \in Writing
       /\ a.path \in Targets(d.moves) /\ b.path \in Others(d)
    \/ a.do = "snapshot" /\ b.do = "write" /\ a.path = b.path

EarlierUndone(a, b) ==
    \/ a.do \in {"write", "discard"} /\ b.do \in Renaming
    \/ a.do = "write" /\ b.do = "discard" /\ a.path = b.path

InOrder(d) == {r \in Op \X Op : Earlier(d, r[1], r[2])}
UndoOrder == {r \in Op \X Op : EarlierUndone(r[1], r[2])}

LEMMA OrderOf ==
    ASSUME NEW d, NEW a \in Op, NEW b \in Op
    PROVE  /\ <<a, b>> \in InOrder(d) <=> Earlier(d, a, b)
           /\ <<a, b>> \in UndoOrder <=> EarlierUndone(a, b)
BY DEF InOrder, UndoOrder

\* What a task can be.
LEMMA TaskKinds ==
    ASSUME NEW d, NEW a \in Tasks(d)
    PROVE  \/ \E p \in Sources(d.moves) : \E n \in Kept(d, p) : a = Carry(p, d.moves[p], n)
           \/ \E p \in Sources(d.moves) : a = Rename(p, d.moves[p])
           \/ \E q \in d.written : a = Snapshot(q, d.num[q], d.was[q])
           \/ \E q \in d.written : a = Write(q, d.now[q])
           \/ \E p \in Sources(d.moves) : a = Tidy(p)
<1>1. ASSUME a \in Carries(d)
      PROVE  \E p \in Sources(d.moves) : \E n \in Kept(d, p) : a = Carry(p, d.moves[p], n)
  <2>1. PICK p \in Sources(d.moves) : a \in {Carry(p, d.moves[p], n) : n \in Kept(d, p)}
    BY <1>1 DEF Carries
  <2> QED BY <2>1
<1>2. \/ a \in Carries(d)
      \/ \E p \in Sources(d.moves) : a = Rename(p, d.moves[p])
      \/ \E q \in d.written : a = Snapshot(q, d.num[q], d.was[q])
      \/ \E q \in d.written : a = Write(q, d.now[q])
      \/ \E p \in Sources(d.moves) : a = Tidy(p)
  BY DEF Tasks
<1> QED BY <1>1, <1>2

LEMMA UndoTaskKinds ==
    ASSUME NEW d, NEW a \in UndoTasks(d)
    PROVE  \/ \E p \in Sources(d.moves) : \E n \in Kept(d, p) : a = Carry(d.moves[p], p, n)
           \/ \E p \in Sources(d.moves) : a = Rename(d.moves[p], p)
           \/ \E q \in d.written : a = Write(q, d.was[q])
           \/ \E q \in d.written : a = Discard(q, d.num[q])
<1>1. ASSUME a \in UndoCarries(d)
      PROVE  \E p \in Sources(d.moves) : \E n \in Kept(d, p) : a = Carry(d.moves[p], p, n)
  <2>1. PICK p \in Sources(d.moves) : a \in {Carry(d.moves[p], p, n) : n \in Kept(d, p)}
    BY <1>1 DEF UndoCarries
  <2> QED BY <2>1
<1>2. \/ a \in UndoCarries(d)
      \/ \E p \in Sources(d.moves) : a = Rename(d.moves[p], p)
      \/ \E q \in d.written : a = Write(q, d.was[q])
      \/ \E q \in d.written : a = Discard(q, d.num[q])
  BY DEF UndoTasks
<1> QED BY <1>1, <1>2

LEMMA TaskTypes ==
    ASSUME NEW d, Design(d)
    PROVE  Tasks(d) \subseteq Op /\ UndoTasks(d) \subseteq Op
<1>1. /\ \A p \in Sources(d.moves) : p \in Path /\ d.moves[p] \in Path
      /\ \A q \in d.written : /\ q \in Path /\ d.num[q] \in Nat
                              /\ d.was[q] \in Content /\ d.now[q] \in Content
      /\ \A p : \A n \in Kept(d, p) : n \in Nat
  BY DesignShape, VersionAssumption DEF Kept, Version
<1>2. ASSUME NEW a \in Tasks(d) PROVE a \in Op
  BY <1>1, TaskKinds, OpTypes
<1>3. ASSUME NEW a \in UndoTasks(d) PROVE a \in Op
  BY <1>1, UndoTaskKinds, OpTypes
<1> QED BY <1>2, <1>3

\* The first task left is one that may be done now, and doing it leaves the
\* disk as it should be with the others left.
LEMMA ForwardStep ==
    ASSUME NEW d, NEW P, Design(d), Forward(d, P), Disk,
           P \subseteq Tasks(d), NEW op \in P,
           \A b \in P : b = op \/ ~Earlier(d, b, op),
           files' = Files(op), snaps' = Snaps(op), verDirs' = Dirs(op),
           NEW Q, Q = P \ {op}
    PROVE  Forward(d, Q)'
<1> DEFINE m == d.moves
<1>1. CASE \E p \in Sources(m) : \E n \in Kept(d, p) : op = Carry(p, m[p], n)
  <2>0. PICK p \in Sources(m) : \E n \in Kept(d, p) : op = Carry(p, m[p], n)
    BY <1>1
  <2>1. PICK n \in Kept(d, p) : op = Carry(p, m[p], n)
    BY <2>0
  <2>2. CarryLeft(d, P, p, n)
    BY <2>1 DEF CarryLeft
  <2>3. /\ files' = files
        /\ snaps' = [snaps EXCEPT ![m[p]][n] = snaps[p][n], ![p][n] = None]
        /\ verDirs' = MakeDirs({m[p]})
    BY <2>1, CarryDoes
  <2> QED BY <2>1, <2>2, <2>3, ForwardCarry
<1>2. CASE \E p \in Sources(m) : op = Rename(p, m[p])
  <2>1. PICK p \in Sources(m) : op = Rename(p, m[p])
    BY <1>2
  <2>2. RenameLeft(d, P, p)
    BY <2>1 DEF RenameLeft
  <2>3. /\ files' = [files EXCEPT ![m[p]] = files[p], ![p] = None]
        /\ snaps' = snaps /\ verDirs' = verDirs
    BY <2>1, RenameDoes
  <2> QED BY <2>1, <2>2, <2>3, ForwardRename
<1>3. ASSUME NEW p \in d.written, op.do \in Writing, op.path = p
      PROVE  /\ \A r \in Sources(m), v \in Version :
                   ~RenameLeft(d, P, r) /\ ~CarryLeft(d, P, r, v)
             /\ p \in Others(d) => \A r \in Sources(m) : ~WriteLeft(d, P, m[r])
  <2>1. ASSUME NEW r \in Sources(m), RenameLeft(d, P, r) PROVE FALSE
    <3>1. Rename(r, m[r]).do \in Renaming /\ Rename(r, m[r]).do \notin Writing
      BY OpKinds DEF Renaming, Writing
    <3> QED BY <1>3, <2>1, <3>1 DEF RenameLeft, Earlier
  <2>2. ASSUME NEW r \in Sources(m), NEW v \in Version, CarryLeft(d, P, r, v) PROVE FALSE
    <3>1. Carry(r, m[r], v).do \in Renaming /\ Carry(r, m[r], v).do \notin Writing
      BY OpKinds DEF Renaming, Writing
    <3> QED BY <1>3, <2>2, <3>1 DEF CarryLeft, Earlier
  <2>3. ASSUME p \in Others(d), NEW r \in Sources(m), WriteLeft(d, P, m[r]) PROVE FALSE
    <3>1. /\ Write(m[r], d.now[m[r]]).do \in Writing
          /\ Write(m[r], d.now[m[r]]).path = m[r]
      BY OpKinds DEF Writing
    <3>2. m[r] \in Targets(m) /\ m[r] # p
      BY <2>3, DesignShape
    <3> QED BY <1>3, <2>3, <3>1, <3>2 DEF WriteLeft, Earlier
  <2> QED BY <2>1, <2>2, <2>3
<1>4. CASE \E p \in d.written : op = Snapshot(p, d.num[p], d.was[p])
  <2>1. PICK p \in d.written : op = Snapshot(p, d.num[p], d.was[p])
    BY <1>4
  <2>2. SnapshotLeft(d, P, p)
    BY <2>1 DEF SnapshotLeft
  <2>3. /\ files' = files
        /\ snaps' = [snaps EXCEPT ![p][d.num[p]] = d.was[p]]
        /\ verDirs' = MakeDirs({p})
    BY <2>1, SnapshotDoes
  <2>4. op.do \in Writing /\ op.path = p
    BY <2>1, OpKinds DEF Writing
  <2>5. /\ \A r \in Sources(m), v \in Version :
              ~RenameLeft(d, P, r) /\ ~CarryLeft(d, P, r, v)
        /\ p \in Others(d) => \A r \in Sources(m) : ~WriteLeft(d, P, m[r])
    BY <1>3, <2>4
  <2> QED BY <2>1, <2>2, <2>3, <2>5, ForwardSnapshot
<1>5. CASE \E p \in d.written : op = Write(p, d.now[p])
  <2>1. PICK p \in d.written : op = Write(p, d.now[p])
    BY <1>5
  <2>2. WriteLeft(d, P, p)
    BY <2>1 DEF WriteLeft
  <2>3. /\ files' = [files EXCEPT ![p] = d.now[p]]
        /\ snaps' = snaps /\ verDirs' = verDirs
    BY <2>1, WriteDoes
  <2>4. op.do = "write" /\ op.do \in Writing /\ op.path = p
    BY <2>1, OpKinds DEF Writing
  <2>5. /\ \A r \in Sources(m), v \in Version :
              ~RenameLeft(d, P, r) /\ ~CarryLeft(d, P, r, v)
        /\ p \in Others(d) => \A r \in Sources(m) : ~WriteLeft(d, P, m[r])
    BY <1>3, <2>4
  <2>6. ~SnapshotLeft(d, P, p)
    <3>1. /\ Snapshot(p, d.num[p], d.was[p]).do = "snapshot"
          /\ Snapshot(p, d.num[p], d.was[p]).path = p
      BY OpKinds
    <3> QED BY <2>4, <3>1 DEF SnapshotLeft, Earlier
  <2> QED BY <2>1, <2>2, <2>3, <2>5, <2>6, ForwardWrite
<1>6. CASE \E p \in Sources(m) : op = Tidy(p)
  <2>1. PICK p \in Sources(m) : op = Tidy(p)
    BY <1>6
  <2>2. TidyLeft(P, p)
    BY <2>1 DEF TidyLeft
  <2>3. files' = files /\ snaps' = snaps /\ verDirs' = Dirs(Tidy(p))
    BY <2>1, TidyDoes
  <2>4. \A q \in d.written : ~WriteLeft(d, P, q)
    <3> SUFFICES ASSUME NEW q \in d.written, WriteLeft(d, P, q) PROVE FALSE
      OBVIOUS
    <3>1. op.do = "tidy" /\ Write(q, d.now[q]).do = "write"
      BY <2>1, OpKinds
    <3> QED BY <3>1 DEF WriteLeft, Earlier, Renaming, Writing
  <2> QED BY <2>1, <2>2, <2>3, <2>4, ForwardTidy
<1> QED BY <1>1, <1>2, <1>4, <1>5, <1>6, TaskKinds

\* The same on the way back.
LEMMA BackwardStep ==
    ASSUME NEW d, NEW P, Design(d), Backward(d, P), Disk,
           P \subseteq UndoTasks(d), NEW op \in P,
           \A b \in P : b = op \/ ~EarlierUndone(b, op),
           files' = Files(op), snaps' = Snaps(op), verDirs' = Dirs(op),
           NEW Q, Q = P \ {op}
    PROVE  Backward(d, Q)'
<1> DEFINE m == d.moves
<1>1. CASE \E p \in Sources(m) : \E n \in Kept(d, p) : op = Carry(m[p], p, n)
  <2>0. PICK p \in Sources(m) : \E n \in Kept(d, p) : op = Carry(m[p], p, n)
    BY <1>1
  <2>1. PICK n \in Kept(d, p) : op = Carry(m[p], p, n)
    BY <2>0
  <2>2. CarryBack(d, P, p, n)
    BY <2>1 DEF CarryBack
  <2>3. /\ files' = files
        /\ snaps' = [snaps EXCEPT ![p][n] = snaps[m[p]][n], ![m[p]][n] = None]
        /\ verDirs' = MakeDirs({p})
    BY <2>1, CarryDoes
  <2> QED BY <2>1, <2>2, <2>3, BackwardCarry
<1>2. CASE \E p \in Sources(m) : op = Rename(m[p], p)
  <2>1. PICK p \in Sources(m) : op = Rename(m[p], p)
    BY <1>2
  <2>2. RenameBack(d, P, p)
    BY <2>1 DEF RenameBack
  <2>3. /\ files' = [files EXCEPT ![p] = files[m[p]], ![m[p]] = None]
        /\ snaps' = snaps /\ verDirs' = verDirs
    BY <2>1, RenameDoes
  <2>4. ~WriteBack(d, P, m[p])
    <3>1. op.do = "rename" /\ Write(m[p], d.was[m[p]]).do = "write"
      BY <2>1, OpKinds
    <3> QED BY <3>1 DEF WriteBack, EarlierUndone, Renaming
  <2> QED BY <2>1, <2>2, <2>3, <2>4, BackwardRename
<1>3. CASE \E p \in d.written : op = Write(p, d.was[p])
  <2>1. PICK p \in d.written : op = Write(p, d.was[p])
    BY <1>3
  <2>2. WriteBack(d, P, p)
    BY <2>1 DEF WriteBack
  <2>3. /\ files' = [files EXCEPT ![p] = d.was[p]]
        /\ snaps' = snaps /\ verDirs' = verDirs
    BY <2>1, WriteDoes
  <2> QED BY <2>1, <2>2, <2>3, BackwardWrite
<1>4. CASE \E p \in d.written : op = Discard(p, d.num[p])
  <2>1. PICK p \in d.written : op = Discard(p, d.num[p])
    BY <1>4
  <2>2. DiscardBack(d, P, p)
    BY <2>1 DEF DiscardBack
  <2>3. /\ files' = files
        /\ snaps' = [snaps EXCEPT ![p][d.num[p]] = None]
        /\ verDirs' = verDirs
    BY <2>1, DiscardDoes
  <2>4. ~WriteBack(d, P, p)
    <3>1. op.do = "discard" /\ op.path = p
      BY <2>1, OpKinds
    <3>2. Write(p, d.was[p]).do = "write" /\ Write(p, d.was[p]).path = p
      BY OpKinds
    <3> QED BY <3>1, <3>2 DEF WriteBack, EarlierUndone
  <2> QED BY <2>1, <2>2, <2>3, <2>4, BackwardDiscard
<1> QED BY <1>1, <1>2, <1>3, <1>4, UndoTaskKinds

-----------------------------------------------------------------------------
(* The plan of a move.                                                     *)

\* Where the concept comes from that batch m leaves at q.
From(m, q) == IF q \in Targets(m) THEN Origin(m, q) ELSE q

Written(m) == Targets(m) \union Relinked(m)

DesignOf(m) ==
    [moves   |-> m,
     written |-> Written(m),
     was     |-> [q \in Written(m) |-> files[From(m, q)]],
     now     |-> [q \in Written(m) |-> IF q \in Targets(m) THEN MovedFile(m, Origin(m, q))
                                       ELSE RelinkedFile(m, q)],
     num     |-> [q \in Written(m) |-> ConceptVersion(From(m, q))],
     old     |-> Before]

LEMMA RewrittenType ==
    ASSUME Disk, NEW m \in Batches
    PROVE  /\ \A p \in Sources(m) : Exists(p) => MovedFile(m, p) \in File
           /\ \A q \in Path : Exists(q) => RelinkedFile(m, q) \in File
<1>1. /\ \A p \in Sources(m) : p \in Path /\ m[p] \in Path
      /\ \A p \in Path : Exists(p) => files[p] \in File
  BY BatchShape DEF Disk, Content, Exists
<1>2. \A c \in File : c.links \in SUBSET Target
  BY DEF File
<1>3. ASSUME NEW p \in Sources(m), Exists(p) PROVE MovedFile(m, p) \in File
  <2>1. files[p] \in File /\ p \in Path /\ Pinned(m, p, files[p].links) \in SUBSET Target
    BY <1>1, <1>2, <1>3, PinnedType
  <2> QED BY <1>1, <2>1 DEF MovedFile, File
<1>4. ASSUME NEW q \in Path, Exists(q) PROVE RelinkedFile(m, q) \in File
  <2>1. files[q] \in File /\ Retarget(m, q, files[q].links) \in SUBSET Target
    BY <1>1, <1>2, <1>4, RetargetType
  <2> QED BY <2>1 DEF RelinkedFile, File
<1> QED BY <1>3, <1>4

\* What there is to know about a batch that passed the validation.
LEMMA Validated ==
    ASSUME Disk, NEW m \in Batches, NEW expected, CanMove(m, expected)
    PROVE  /\ \A p \in Sources(m) : /\ p \in Path /\ m[p] \in Path /\ Exists(p)
                                    /\ files[p] \in File /\ files[m[p]] = None
                                    /\ m[p] \in Targets(m) /\ From(m, m[p]) = p
                                    /\ Origin(m, m[p]) = p
                                    /\ m[p] \notin Relinked(m)
                                    /\ MovedFile(m, p) \in File
                                    /\ ConceptVersion(p) \in Version
                                    /\ snaps[p][ConceptVersion(p)] = None
           /\ \A q \in Targets(m) : \E p \in Sources(m) : q = m[p]
           /\ \A q \in Relinked(m) : /\ q \in Path /\ Exists(q) /\ files[q] \in File
                                     /\ q \notin Targets(m) /\ q \notin Sources(m)
                                     /\ From(m, q) = q
                                     /\ RelinkedFile(m, q) \in File
                                     /\ ConceptVersion(q) \in Version
                                     /\ snaps[q][ConceptVersion(q)] = None
<1>1. \A p \in Sources(m) : /\ p \in Path /\ m[p] \in Path /\ m[p] \in Targets(m)
                            /\ From(m, m[p]) = p /\ Origin(m, m[p]) = p
  <2> SUFFICES ASSUME NEW p \in Sources(m)
               PROVE  /\ p \in Path /\ m[p] \in Path /\ m[p] \in Targets(m)
                      /\ From(m, m[p]) = p /\ Origin(m, m[p]) = p
    OBVIOUS
  <2>1. p \in Path /\ m[p] \in Path /\ m[p] \in Targets(m)
    BY BatchShape
  <2>2. Origin(m, m[p]) \in Sources(m) /\ m[Origin(m, m[p])] = m[p]
    BY <2>1, BatchShape
  <2>3. Origin(m, m[p]) = p
    BY <2>2, BatchShape
  <2> QED BY <2>1, <2>3 DEF From
<1>2. \A q \in Targets(m) : \E p \in Sources(m) : q = m[p]
  BY BatchShape
<1>3. /\ \A p \in Sources(m) : Exists(p) /\ files[m[p]] = None
      /\ \A p \in Sources(m) \union Relinked(m) : ConceptVersion(p) <= MaxVersion
  BY DEF CanMove, Parsed, Exists
<1>4. \A q \in Relinked(m) : /\ q \in Path /\ Exists(q) /\ files[q] # None
                             /\ q \notin Sources(m)
  BY DEF Relinked, Parsed, Exists
<1>5. \A q \in Relinked(m) : q \notin Targets(m)
  BY <1>2, <1>3, <1>4
<1>6. \A q \in Relinked(m) : From(m, q) = q
  BY <1>5 DEF From
<1>7. \A p \in Path : Exists(p) => files[p] \in File
  BY DEF Disk, Content, Exists
<1>8. \A p \in Path : ConceptVersion(p) <= MaxVersion =>
         ConceptVersion(p) \in Version /\ snaps[p][ConceptVersion(p)] = None
  <2> SUFFICES ASSUME NEW p \in Path, ConceptVersion(p) <= MaxVersion
               PROVE  ConceptVersion(p) \in Version /\ snaps[p][ConceptVersion(p)] = None
    OBVIOUS
  <2>1. /\ ConceptVersion(p) \in Nat /\ ConceptVersion(p) >= 1
        /\ \A v \in Versions(p) : v < ConceptVersion(p)
    BY ConceptVersionIsNext
  <2>2. ConceptVersion(p) \in Version
    BY <2>1, VersionAssumption DEF Version
  <2>3. ConceptVersion(p) \notin Versions(p)
    BY <2>1
  <2> QED BY <2>2, <2>3 DEF Versions
<1>9. \A p \in Sources(m) : m[p] \notin Relinked(m)
  BY <1>1, <1>5
<1>10. /\ \A p \in Sources(m) : MovedFile(m, p) \in File
       /\ \A q \in Relinked(m) : RelinkedFile(m, q) \in File
  BY <1>3, <1>4, RewrittenType
<1>11. /\ \A p \in Sources(m) : /\ files[p] \in File /\ ConceptVersion(p) \in Version
                                /\ snaps[p][ConceptVersion(p)] = None
       /\ \A q \in Relinked(m) : /\ files[q] \in File /\ ConceptVersion(q) \in Version
                                 /\ snaps[q][ConceptVersion(q)] = None
  BY <1>1, <1>3, <1>4, <1>7, <1>8
<1> QED BY <1>1, <1>2, <1>3, <1>4, <1>5, <1>6, <1>9, <1>10, <1>11

LEMMA DesignOfPlan ==
    ASSUME Disk, Settled(files, snaps, verDirs), NEW m \in Batches, NEW expected,
           CanMove(m, expected), NEW d, d = DesignOf(m)
    PROVE  /\ Design(d)
           /\ d.moves = m /\ d.written = Written(m) /\ d.old = Before
           /\ Others(d) = Relinked(m)
           /\ \A p \in Sources(m) : /\ m[p] \in Written(m) /\ d.was[m[p]] = files[p]
                                    /\ d.now[m[p]] = MovedFile(m, p)
                                    /\ d.num[m[p]] = ConceptVersion(p)
                                    /\ Kept(d, p) = Versions(p)
           /\ \A q \in Relinked(m) : /\ q \in Written(m) /\ d.was[q] = files[q]
                                     /\ d.now[q] = RelinkedFile(m, q)
                                     /\ d.num[q] = ConceptVersion(q)
<1>1. /\ d.moves = m /\ d.written = Written(m) /\ d.old = Before
      /\ d.was = [q \in Written(m) |-> files[From(m, q)]]
      /\ d.now = [q \in Written(m) |-> IF q \in Targets(m) THEN MovedFile(m, Origin(m, q))
                                       ELSE RelinkedFile(m, q)]
      /\ d.num = [q \in Written(m) |-> ConceptVersion(From(m, q))]
  BY DEF DesignOf
<1>2. \A p \in Sources(m) : m[p] \in Written(m)
  BY Validated DEF Written
<1>3. \A p \in Sources(m) : /\ d.was[m[p]] = files[p]
                            /\ d.now[m[p]] = MovedFile(m, p)
                            /\ d.num[m[p]] = ConceptVersion(p)
  <2> SUFFICES ASSUME NEW p \in Sources(m)
               PROVE  /\ d.was[m[p]] = files[p]
                      /\ d.now[m[p]] = MovedFile(m, p)
                      /\ d.num[m[p]] = ConceptVersion(p)
    OBVIOUS
  <2>1. From(m, m[p]) = p /\ Origin(m, m[p]) = p /\ m[p] \in Targets(m)
    BY Validated
  <2> QED BY <1>1, <1>2, <2>1
<1>4. \A q \in Relinked(m) : /\ q \in Written(m) /\ d.was[q] = files[q]
                             /\ d.now[q] = RelinkedFile(m, q)
                             /\ d.num[q] = ConceptVersion(q)
  <2> SUFFICES ASSUME NEW q \in Relinked(m)
               PROVE  /\ q \in Written(m) /\ d.was[q] = files[q]
                      /\ d.now[q] = RelinkedFile(m, q)
                      /\ d.num[q] = ConceptVersion(q)
    OBVIOUS
  <2>1. From(m, q) = q /\ q \notin Targets(m) /\ q \in Written(m)
    BY Validated DEF Written
  <2> QED BY <1>1, <2>1
<1>5. \A q \in Written(m) : q \in Relinked(m) \/ \E p \in Sources(m) : q = m[p]
  BY Validated DEF Written
<1>6. \A q \in Written(m) : /\ q \in Path /\ q \notin Sources(m)
                            /\ d.was[q] \in File /\ d.now[q] \in File /\ d.num[q] \in Version
  <2>1. \A q \in Relinked(m) : /\ q \in Path /\ q \notin Sources(m)
                               /\ d.was[q] \in File /\ d.now[q] \in File /\ d.num[q] \in Version
    BY <1>4, Validated
  <2>2. \A p \in Sources(m) : /\ m[p] \in Path /\ m[p] \notin Sources(m)
                              /\ d.was[m[p]] \in File /\ d.now[m[p]] \in File
                              /\ d.num[m[p]] \in Version
    BY <1>3, Validated, BatchShape
  <2> QED BY <1>5, <2>1, <2>2
<1>7. /\ d.was \in [d.written -> File] /\ d.now \in [d.written -> File]
      /\ d.num \in [d.written -> Version]
  BY <1>1, <1>6
<1>8. /\ d.old.files = files /\ d.old.snaps = snaps /\ d.old.verDirs = verDirs
  BY <1>1 DEF Before
<1>9. Others(d) = Relinked(m)
  <2>1. \A q \in Relinked(m) : q \in Written(m) /\ q \notin Targets(m)
    BY <1>4, Validated
  <2> QED BY <1>1, <2>1 DEF Others, Written
<1>10. /\ \A p \in Sources(m) : /\ files[p] = d.was[m[p]] /\ files[m[p]] = None
                                /\ snaps[p][d.num[m[p]]] = None
       /\ \A q \in Relinked(m) : files[q] = d.was[q] /\ snaps[q][d.num[q]] = None
  BY <1>3, <1>4, Validated
<1>11. Design(d)
  <2>1. d.written \subseteq Path /\ d.written \intersect Sources(m) = {}
    BY <1>1, <1>6
  <2>2. Targets(m) \subseteq d.written
    BY <1>1 DEF Written
  <2>3. \A p \in Sources(d.moves) :
           /\ d.old.files[p] = d.was[d.moves[p]]
           /\ d.old.files[d.moves[p]] = None
           /\ d.old.snaps[p][d.num[d.moves[p]]] = None
    BY <1>1, <1>8, <1>10
  <2>4. \A q \in Others(d) : d.old.files[q] = d.was[q] /\ d.old.snaps[q][d.num[q]] = None
    BY <1>8, <1>9, <1>10
  <2>5. /\ d.moves \in Batches /\ d.written \subseteq Path
        /\ Targets(d.moves) \subseteq d.written
        /\ d.written \intersect Sources(d.moves) = {}
    BY <1>1, <2>1, <2>2
  <2>6. /\ d.old.files \in [Path -> Content]
        /\ d.old.snaps \in [Path -> [Version -> Content]]
        /\ d.old.verDirs \subseteq Path
        /\ Settled(d.old.files, d.old.snaps, d.old.verDirs)
    BY <1>8 DEF Disk
  <2> QED BY <1>7, <2>3, <2>4, <2>5, <2>6 DEF Design
<1>12. \A p \in Sources(m) : Kept(d, p) = Versions(p)
  BY <1>8 DEF Kept, Versions
<1> QED BY <1>1, <1>2, <1>3, <1>4, <1>9, <1>11, <1>12

LEMMA ListingLists ==
    ASSUME NEW S, IsFiniteSet(S)
    PROVE  /\ Cardinality(S) \in Nat
           /\ Listing(S) \in [1..Cardinality(S) -> S]
           /\ Len(Listing(S)) = Cardinality(S)
           /\ \A j, k \in 1..Cardinality(S) : Listing(S)[j] = Listing(S)[k] => j = k
           /\ \A x \in S : \E j \in 1..Cardinality(S) : Listing(S)[j] = x
<1> DEFINE n == Cardinality(S)
           f == Listing(S)
<1>1. n \in Nat /\ ExistsBijection(1..n, S)
  BY FS_CardinalityType
<1>2. f \in [1..n -> S] /\ \A j, k \in 1..n : f[j] = f[k] => j = k
  <2>1. PICK g \in Bijection(1..n, S) : TRUE
    BY <1>1 DEF ExistsBijection
  <2>2. g \in Orders(S)
    BY <2>1 DEF Bijection, Injection, IsInjective, Orders
  <2>3. f \in Orders(S)
    BY <2>2 DEF Listing
  <2> QED BY <2>3 DEF Orders
<1> HIDE DEF f
<1>3. \A x \in S : \E j \in 1..n : f[j] = x
  BY <1>2, InjectionLists
<1>4. Len(f) = n
  BY <1>1, <1>2, SeqDef
<1> QED BY <1>1, <1>2, <1>3, <1>4 DEF f

\* it lists every member of X once.
Arranged(it, n, X) ==
    /\ n \in Nat
    /\ it \in [1..n -> X]
    /\ \A j, k \in 1..n : it[j] = it[k] => j = k
    /\ \A x \in X : \E j \in 1..n : it[j] = x

\* g gives lists of operations that may come in any order.
Independent(g, X, R) ==
    /\ \A x \in X : g[x] \in Seq(Op) /\ Sorted(g[x], R)
    /\ \A x, y \in X : x # y => MayFollow(Members(g[x]), Members(g[y]), R)

InTheOrderOf(f, g, it, n) == \A k \in 1..n : f[k] = g[it[k]]

\* s is a list of what all lists of g have.
Collects(s, g, X, R) ==
    /\ s \in Seq(Op) /\ Sorted(s, R)
    /\ \A a : a \in Members(s) <=> \E x \in X : a \in Members(g[x])

LEMMA ListedFor ==
    ASSUME NEW R, NEW X, NEW n, NEW it, Arranged(it, n, X),
           NEW g, Independent(g, X, R),
           NEW f, InTheOrderOf(f, g, it, n)
    PROVE  Collects(Concat(f, n), g, X, R)
<1>1. /\ n \in Nat /\ it \in [1..n -> X]
      /\ \A j, k \in 1..n : it[j] = it[k] => j = k
      /\ \A x \in X : \E j \in 1..n : it[j] = x
      /\ \A k \in 1..n : f[k] = g[it[k]]
  BY DEF Arranged, InTheOrderOf
<1>2. \A k \in 1..n : f[k] \in Seq(Op) /\ Sorted(f[k], R)
  BY <1>1 DEF Independent
<1>3. \A j, k \in 1..n : j < k => MayFollow(Members(f[j]), Members(f[k]), R)
  <2> SUFFICES ASSUME NEW j \in 1..n, NEW k \in 1..n, j < k
               PROVE  MayFollow(Members(f[j]), Members(f[k]), R)
    OBVIOUS
  <2>1. it[j] \in X /\ it[k] \in X /\ it[j] # it[k]
    BY <1>1
  <2> QED BY <1>1, <2>1 DEF Independent
<1>4. /\ Concat(f, n) \in Seq(Op) /\ Sorted(Concat(f, n), R)
      /\ Members(Concat(f, n)) = UNION {Members(f[k]) : k \in 1..n}
  <2>1. n \in Nat
    BY <1>1
  <2> QED BY ONLY <1>2, <1>3, <2>1, ConcatSorted
<1>5. ASSUME NEW a, a \in Members(Concat(f, n)) PROVE \E x \in X : a \in Members(g[x])
  <2>1. PICK k \in 1..n : a \in Members(f[k])
    BY <1>4, <1>5
  <2>2. it[k] \in X /\ f[k] = g[it[k]]
    BY <1>1
  <2> QED BY <2>1, <2>2
<1>6. ASSUME NEW a, NEW x \in X, a \in Members(g[x]) PROVE a \in Members(Concat(f, n))
  <2>1. PICK k \in 1..n : it[k] = x
    BY <1>1
  <2>2. a \in Members(f[k])
    BY <1>1, <1>6, <2>1
  <2> QED BY <1>4, <2>2
<1> QED BY <1>4, <1>5, <1>6 DEF Collects

\* R leaves the order of a batch's renames open.
LEMMA ItemRenamesListed ==
    ASSUME NEW R, \A a, b \in Op : a.do \in Renaming /\ b.do \in Renaming => <<a, b>> \notin R,
           NEW p \in Path, NEW q \in Path
    PROVE  /\ ItemRenames(p, q) \in Seq(Op) /\ Sorted(ItemRenames(p, q), R)
           /\ \A a : a \in Members(ItemRenames(p, q))
                       <=> a = Rename(p, q) \/ \E n \in Versions(p) : a = Carry(p, q, n)
<1> DEFINE V == Versions(p)
           c == Cardinality(V)
           kept == Listing(V)
           f == [k \in DOMAIN kept |-> Carry(p, q, kept[k])]
           last == Rename(p, q)
<1>1. V \in SUBSET Nat /\ IsFiniteSet(V)
  <2>1. V \subseteq 1..MaxVersion
    BY DEF Versions, Version
  <2>2. IsFiniteSet(1..MaxVersion)
    BY VersionAssumption, FS_Interval
  <2>3. V \in SUBSET Nat
    BY <2>1
  <2> HIDE DEF V
  <2> QED BY <2>1, <2>2, <2>3, FS_Subset
<1>2. /\ c \in Nat /\ kept \in [1..c -> V]
      /\ \A j, k \in 1..c : kept[j] = kept[k] => j = k
      /\ \A x \in V : \E j \in 1..c : kept[j] = x
  BY <1>1, ListingLists
<1>3. \A n \in V : Carry(p, q, n) \in Op /\ Carry(p, q, n).do \in Renaming
  BY <1>1, OpTypes, OpKinds DEF Renaming
<1>4. last \in Op /\ last.do \in Renaming
  BY OpTypes, OpKinds DEF Renaming
<1>5. ItemRenames(p, q) = f \o <<last>>
  BY DEF ItemRenames
<1> HIDE DEF V, c, kept, last
<1>6. f \in [1..c -> Op] /\ \A k \in 1..c : f[k] = Carry(p, q, kept[k])
  BY <1>2, <1>3
<1> HIDE DEF f
<1>7. \A j, k \in 1..c : j < k => f[j] # f[k] /\ <<f[k], f[j]>> \notin R
  <2> SUFFICES ASSUME NEW j \in 1..c, NEW k \in 1..c, j < k
               PROVE  f[j] # f[k] /\ <<f[k], f[j]>> \notin R
    OBVIOUS
  <2>1. kept[j] # kept[k] /\ kept[j] \in V /\ kept[k] \in V
    BY <1>2
  <2>2. f[j] # f[k]
    BY <1>6, <2>1, OpsDiffer
  <2> QED BY <1>3, <1>6, <2>1, <2>2
<1>8. f \in Seq(Op) /\ Members(f) = {f[k] : k \in 1..c} /\ Sorted(f, R)
  BY <1>2, <1>6, <1>7, ListOf
<1>9. \A a : a \in Members(f) <=> \E n \in V : a = Carry(p, q, n)
  <2>1. ASSUME NEW a, a \in Members(f) PROVE \E n \in V : a = Carry(p, q, n)
    <3>1. PICK k \in 1..c : a = f[k]
      BY <1>8, <2>1
    <3> QED BY <1>2, <1>6, <3>1
  <2>2. ASSUME NEW n \in V PROVE Carry(p, q, n) \in Members(f)
    <3>1. PICK k \in 1..c : kept[k] = n
      BY <1>2
    <3>2. f[k] = Carry(p, q, n)
      BY <1>6, <3>1
    <3> QED BY <1>8, <3>2
  <2> QED BY <2>1, <2>2
<1>10. <<last>> \in Seq(Op) /\ Members(<<last>>) = {last} /\ Sorted(<<last>>, R)
  BY <1>4, OneInList
<1>11. MayFollow(Members(f), Members(<<last>>), R)
  <2> SUFFICES ASSUME NEW n \in V
               PROVE  Carry(p, q, n) # last /\ <<last, Carry(p, q, n)>> \notin R
    BY <1>9, <1>10 DEF MayFollow
  <2>1. Carry(p, q, n).do = "carry" /\ last.do = "rename"
    BY OpKinds DEF last
  <2> QED BY <1>3, <1>4, <2>1
<1>12. /\ f \o <<last>> \in Seq(Op) /\ Sorted(f \o <<last>>, R)
       /\ Members(f \o <<last>>) = Members(f) \union Members(<<last>>)
  <2>1. PICK s, t : s = f /\ t = <<last>>
    OBVIOUS
  <2>2. /\ s \in Seq(Op) /\ Sorted(s, R) /\ t \in Seq(Op) /\ Sorted(t, R)
        /\ MayFollow(Members(s), Members(t), R)
    BY <1>8, <1>10, <1>11, <2>1
  <2>3. /\ s \o t \in Seq(Op) /\ Sorted(s \o t, R)
        /\ Members(s \o t) = Members(s) \union Members(t)
    BY <2>2, Joined
  <2> QED BY <2>1, <2>3
<1> QED BY <1>5, <1>9, <1>10, <1>12 DEF V, last

LEMMA ItemsListed ==
    ASSUME NEW m \in Batches, NEW items \in Orders(Sources(m))
    PROVE  /\ Arranged(items, Len(items), Sources(m))
           /\ Len(items) \in Nat /\ Len(items) # 0 /\ DOMAIN items = 1..Len(items)
<1> DEFINE S == Sources(m)
           n == Cardinality(S)
<1>1. S \subseteq Path /\ S # {}
  BY BatchShape DEF Batches, Sources
<1>2. IsFiniteSet(S) /\ n \in Nat
  BY <1>1, FiniteAssumption, FS_Subset, FS_CardinalityType
<1>3. items \in [1..n -> S] /\ \A j, k \in 1..n : items[j] = items[k] => j = k
  BY DEF Orders
<1> HIDE DEF S, n
<1>4. Len(items) = n
  BY <1>2, <1>3, SeqDef
<1>5. \A p \in S : \E j \in 1..n : items[j] = p
  BY <1>2, <1>3, InjectionLists DEF n
<1>6. n # 0
  <2>1. PICK p : p \in S
    BY <1>1
  <2>2. PICK j \in 1..n : items[j] = p
    BY <1>5, <2>1
  <2> QED BY <1>2, <2>2
<1> QED BY <1>2, <1>3, <1>4, <1>5, <1>6 DEF S, Arranged

LEMMA RenamesListed ==
    ASSUME NEW R, \A a, b \in Op : a.do \in Renaming /\ b.do \in Renaming => <<a, b>> \notin R,
           NEW m \in Batches, NEW items \in Orders(Sources(m))
    PROVE  /\ Renames(m, items) \in Seq(Op) /\ Sorted(Renames(m, items), R)
           /\ \A a : a \in Members(Renames(m, items))
                <=> \E p \in Sources(m) :
                       a = Rename(p, m[p]) \/ \E n \in Versions(p) : a = Carry(p, m[p], n)
<1>1. PICK X, n : X = Sources(m) /\ n = Len(items)
  OBVIOUS
<1>11. Arranged(items, n, X) /\ DOMAIN items = 1..n
  BY <1>1, ItemsListed
<1>2. PICK g : g = [p \in X |-> ItemRenames(p, m[p])]
  OBVIOUS
<1>3. PICK f : f = [k \in DOMAIN items |-> ItemRenames(items[k], m[items[k]])]
  OBVIOUS
<1>4. InTheOrderOf(f, g, items, n)
  BY <1>2, <1>3, <1>11 DEF InTheOrderOf, Arranged
<1>5. \A p \in X : p \in Path /\ m[p] \in Path
  BY <1>1, BatchShape
<1>6. \A p \in X :
         /\ g[p] \in Seq(Op) /\ Sorted(g[p], R)
         /\ \A a : a \in Members(g[p])
               <=> a = Rename(p, m[p]) \/ \E v \in Versions(p) : a = Carry(p, m[p], v)
  <2> TAKE p \in X
  <2>1. g[p] = ItemRenames(p, m[p])
    BY <1>2
  <2>2. /\ ItemRenames(p, m[p]) \in Seq(Op) /\ Sorted(ItemRenames(p, m[p]), R)
        /\ \A a : a \in Members(ItemRenames(p, m[p]))
               <=> a = Rename(p, m[p]) \/ \E v \in Versions(p) : a = Carry(p, m[p], v)
    BY <1>5, ItemRenamesListed
  <2> QED BY <2>1, <2>2
<1>7. \A p \in X : \A a \in Members(g[p]) : a \in Op /\ a.do \in Renaming /\ a.path = p
  <2> SUFFICES ASSUME NEW p \in X, NEW a \in Members(g[p])
               PROVE  a \in Op /\ a.do \in Renaming /\ a.path = p
    OBVIOUS
  <2>1. a = Rename(p, m[p]) \/ \E v \in Versions(p) : a = Carry(p, m[p], v)
    BY <1>6
  <2>2. \A v \in Versions(p) : v \in Nat
    BY VersionAssumption DEF Versions, Version
  <2> QED BY <1>5, <2>1, <2>2, OpTypes, OpKinds DEF Renaming
<1>8. \A p, r \in X : p # r => MayFollow(Members(g[p]), Members(g[r]), R)
  <2> SUFFICES ASSUME NEW p \in X, NEW r \in X, p # r,
                      NEW a \in Members(g[p]), NEW b \in Members(g[r])
               PROVE  a # b /\ <<b, a>> \notin R
    BY DEF MayFollow
  <2>1. /\ a \in Op /\ a.do \in Renaming /\ a.path = p
        /\ b \in Op /\ b.do \in Renaming /\ b.path = r
    BY <1>7
  <2> QED BY <2>1
<1>9. Collects(Concat(f, n), g, X, R)
  <2>1. Independent(g, X, R)
    BY <1>6, <1>8 DEF Independent
  <2> QED BY <1>4, <1>11, <2>1, ListedFor
<1>10. Renames(m, items) = Concat(f, n)
  BY <1>1, <1>3 DEF Renames
<1>12. \A a : a \in Members(Concat(f, n))
         <=> \E p \in X : a = Rename(p, m[p]) \/ \E v \in Versions(p) : a = Carry(p, m[p], v)
  <2> TAKE a
  <2>1. a \in Members(Concat(f, n)) <=> \E p \in X : a \in Members(g[p])
    BY <1>9 DEF Collects
  <2>2. \A p \in X : a \in Members(g[p])
           <=> a = Rename(p, m[p]) \/ \E v \in Versions(p) : a = Carry(p, m[p], v)
    BY <1>6
  <2> QED BY <2>1, <2>2
<1> QED BY <1>1, <1>9, <1>10, <1>12 DEF Collects

\* For every x of X, a snapshot was[x] numbered num[x] of the file at at[x],
\* which is to hold now[x].
Rewrites(X, at, num, was, now) ==
    /\ \A x \in X : /\ at[x] \in Path /\ num[x] \in Nat
                    /\ was[x] \in Content /\ now[x] \in Content
    /\ \A x, y \in X : at[x] = at[y] => x = y

PairsOf(f, it, n, at, num, was, now) ==
    \A k \in 1..n : f[k] = <<Snapshot(at[it[k]], num[it[k]], was[it[k]]),
                             Write(at[it[k]], now[it[k]])>>

\* R puts no write at a path of at before another, nor before its snapshot.
LeavesOpen(R, X, at) ==
    \A a, b \in Op :
        /\ a.do \in Writing /\ b.do \in Writing
        /\ a.do = "write" \/ a.path # b.path
        /\ (\E x \in X : a.path = at[x]) /\ (\E x \in X : b.path = at[x])
        => <<a, b>> \notin R

HoldsPairs(s, R, X, at, num, was, now) ==
    /\ s \in Seq(Op) /\ Sorted(s, R)
    /\ \A a : a \in Members(s)
         <=> \E x \in X : a = Snapshot(at[x], num[x], was[x]) \/ a = Write(at[x], now[x])

LEMMA PairsListed ==
    ASSUME NEW R, NEW X, NEW n, NEW it, Arranged(it, n, X),
           NEW at, NEW num, NEW was, NEW now, Rewrites(X, at, num, was, now),
           LeavesOpen(R, X, at),
           NEW f, PairsOf(f, it, n, at, num, was, now)
    PROVE  HoldsPairs(Concat(f, n), R, X, at, num, was, now)
<1>1. PICK g : g = [x \in X |-> <<Snapshot(at[x], num[x], was[x]), Write(at[x], now[x])>>]
  OBVIOUS
<1>2. InTheOrderOf(f, g, it, n)
  BY <1>1 DEF InTheOrderOf, Arranged, PairsOf
<1>3. \A x \in X :
         /\ Snapshot(at[x], num[x], was[x]) \in Op /\ Write(at[x], now[x]) \in Op
         /\ Snapshot(at[x], num[x], was[x]).do \in Writing
         /\ Snapshot(at[x], num[x], was[x]).path = at[x]
         /\ Write(at[x], now[x]).do = "write" /\ Write(at[x], now[x]).do \in Writing
         /\ Write(at[x], now[x]).path = at[x]
  BY OpTypes, OpKinds DEF Writing, Rewrites
<1>4. \A x \in X :
         /\ g[x] \in Seq(Op) /\ Sorted(g[x], R)
         /\ \A a : a \in Members(g[x])
               <=> a = Snapshot(at[x], num[x], was[x]) \/ a = Write(at[x], now[x])
  <2> TAKE x \in X
  <2>1. <<Write(at[x], now[x]), Snapshot(at[x], num[x], was[x])>> \notin R
    BY <1>3 DEF LeavesOpen
  <2>2. g[x] = <<Snapshot(at[x], num[x], was[x]), Write(at[x], now[x])>>
    BY <1>1
  <2>3. PICK y \in Op, z \in Op : y = Snapshot(at[x], num[x], was[x]) /\ z = Write(at[x], now[x])
    BY <1>3
  <2>4. y # z /\ <<z, y>> \notin R
    <3>1. y.do = "snapshot" /\ z.do = "write"
      BY <2>3, OpKinds
    <3> QED BY <2>1, <2>3, <3>1
  <2>5. <<y, z>> \in Seq(Op) /\ Members(<<y, z>>) = {y, z} /\ Sorted(<<y, z>>, R)
    BY ONLY y \in Op, z \in Op, <2>4, TwoInList
  <2> QED BY <2>2, <2>3, <2>5
<1>5. \A x, y \in X : x # y => MayFollow(Members(g[x]), Members(g[y]), R)
  <2> SUFFICES ASSUME NEW x \in X, NEW y \in X, x # y,
                      NEW a \in Members(g[x]), NEW b \in Members(g[y])
               PROVE  a # b /\ <<b, a>> \notin R
    BY DEF MayFollow
  <2>1. /\ a = Snapshot(at[x], num[x], was[x]) \/ a = Write(at[x], now[x])
        /\ b = Snapshot(at[y], num[y], was[y]) \/ b = Write(at[y], now[y])
    BY <1>4
  <2>3. /\ a \in Op /\ a.do \in Writing /\ a.path = at[x]
        /\ b \in Op /\ b.do \in Writing /\ b.path = at[y]
    BY <1>3, <2>1
  <2>2. at[x] # at[y]
    BY DEF Rewrites
  <2> QED BY <2>2, <2>3 DEF LeavesOpen
<1>6. Collects(Concat(f, n), g, X, R)
  <2>1. Independent(g, X, R)
    BY <1>4, <1>5 DEF Independent
  <2> QED BY <1>2, <2>1, ListedFor
<1>7. \A a : a \in Members(Concat(f, n))
         <=> \E x \in X : a = Snapshot(at[x], num[x], was[x]) \/ a = Write(at[x], now[x])
  BY <1>4, <1>6 DEF Collects
<1> QED BY <1>6, <1>7 DEF Collects, HoldsPairs

LEMMA TasksAre ==
    ASSUME NEW d, NEW a
    PROVE  a \in Tasks(d) <=>
              \/ \E p \in Sources(d.moves) : \E n \in Kept(d, p) : a = Carry(p, d.moves[p], n)
              \/ \E p \in Sources(d.moves) : a = Rename(p, d.moves[p])
              \/ \E q \in d.written : a = Snapshot(q, d.num[q], d.was[q])
              \/ \E q \in d.written : a = Write(q, d.now[q])
              \/ \E p \in Sources(d.moves) : a = Tidy(p)
<1>1. ASSUME NEW p \in Sources(d.moves), NEW n \in Kept(d, p), a = Carry(p, d.moves[p], n)
      PROVE  a \in Carries(d)
  BY <1>1 DEF Carries
<1> QED BY <1>1, TaskKinds DEF Tasks

LEMMA CleanupListed ==
    ASSUME NEW R, \A a, b \in Op : a.do = "tidy" /\ b.do = "tidy" => <<a, b>> \notin R,
           NEW m \in Batches, NEW items \in Orders(Sources(m))
    PROVE  /\ Cleanup(items) \in Seq(Op) /\ Sorted(Cleanup(items), R)
           /\ \A a : a \in Members(Cleanup(items)) <=> \E p \in Sources(m) : a = Tidy(p)
<1>0. PICK X, n, it : X = Sources(m) /\ n = Len(items) /\ it = items
  OBVIOUS
<1>1. /\ X = Sources(m) /\ n = Len(items) /\ it = items
      /\ Arranged(it, n, X) /\ DOMAIN it = 1..n /\ n \in Nat
  BY <1>0, ItemsListed
<1>2. PICK f : f = [k \in 1..n |-> Tidy(it[k])]
  OBVIOUS
<1>3. f = Cleanup(items)
  BY <1>1, <1>2 DEF Cleanup
<1>4. \A p \in X : Tidy(p) \in Op /\ Tidy(p).do = "tidy"
  BY <1>1, BatchShape, OpTypes, OpKinds
<1>5. /\ it \in [1..n -> X]
      /\ \A j, k \in 1..n : it[j] = it[k] => j = k
      /\ \A p \in X : \E j \in 1..n : it[j] = p
  BY <1>1 DEF Arranged
<1>6. f \in [1..n -> Op]
  BY <1>2, <1>4, <1>5
<1>7. \A j, k \in 1..n : j < k => f[j] # f[k] /\ <<f[k], f[j]>> \notin R
  <2> SUFFICES ASSUME NEW j \in 1..n, NEW k \in 1..n, j < k
               PROVE  f[j] # f[k] /\ <<f[k], f[j]>> \notin R
    OBVIOUS
  <2>1. it[j] \in X /\ it[k] \in X /\ it[j] # it[k]
    BY <1>5
  <2>2. f[j] = Tidy(it[j]) /\ f[k] = Tidy(it[k])
    BY <1>2
  <2>3. f[j] # f[k]
    BY <2>1, <2>2, OpsDiffer
  <2> QED BY <1>4, <2>1, <2>2, <2>3
<1>8. f \in Seq(Op) /\ Members(f) = {f[k] : k \in 1..n} /\ Sorted(f, R)
  <2>1. n \in Nat
    BY <1>1
  <2> QED BY ONLY <1>6, <1>7, <2>1, ListOf
<1>9. \A a : a \in Members(f) <=> \E p \in X : a = Tidy(p)
  <2>1. ASSUME NEW a, a \in Members(f) PROVE \E p \in X : a = Tidy(p)
    <3>1. PICK k \in 1..n : a = f[k]
      BY <1>8, <2>1
    <3> QED BY <1>2, <1>5, <3>1
  <2>2. ASSUME NEW p \in X PROVE Tidy(p) \in Members(f)
    <3>1. PICK k \in 1..n : it[k] = p
      BY <1>5
    <3>2. f[k] = Tidy(p)
      BY <1>2, <3>1
    <3> QED BY <1>8, <3>2
  <2> QED BY <2>1, <2>2
<1> QED BY <1>1, <1>3, <1>8, <1>9

LEMMA MovedListed ==
    ASSUME Disk, NEW m \in Batches, NEW expected, CanMove(m, expected),
           NEW items \in Orders(Sources(m)),
           NEW R,
           \A a, b \in Op :
              /\ a.do \in Writing /\ b.do \in Writing
              /\ a.do = "write" \/ a.path # b.path
              /\ a.path \in Targets(m) /\ b.path \in Targets(m)
              => <<a, b>> \notin R,
           NEW s, s = Concat([k \in DOMAIN items |-> MovedWrite(m, items[k])], Len(items))
    PROVE  /\ s \in Seq(Op) /\ Sorted(s, R)
           /\ \A a : a \in Members(s)
                <=> \E p \in Sources(m) :
                       \/ a = Snapshot(m[p], ConceptVersion(p), files[p])
                       \/ a = Write(m[p], MovedFile(m, p))
<1>1. PICK X, n, it : X = Sources(m) /\ n = Len(items) /\ it = items
  OBVIOUS
<1>2. Arranged(it, n, X) /\ DOMAIN it = 1..n
  BY <1>1, ItemsListed
<1>3. PICK at, num, was, now :
          /\ at = [p \in X |-> m[p]]
          /\ num = [p \in X |-> ConceptVersion(p)]
          /\ was = [p \in X |-> files[p]]
          /\ now = [p \in X |-> MovedFile(m, p)]
  OBVIOUS
<1>4. /\ \A p \in X : /\ at[p] = m[p] /\ num[p] = ConceptVersion(p)
                      /\ was[p] = files[p] /\ now[p] = MovedFile(m, p)
  BY <1>3
<1>5. \A p \in X : /\ at[p] \in Path /\ num[p] \in Nat
                   /\ was[p] \in Content /\ now[p] \in Content
  BY <1>1, <1>4, Validated, VersionAssumption DEF Content, Version
<1>6. \A p, r \in X : at[p] = at[r] => p = r
  BY <1>1, <1>4, BatchShape
<1>7. PICK f : f = [k \in DOMAIN items |-> MovedWrite(m, items[k])]
  OBVIOUS
<1>8. \A k \in 1..n : f[k] = <<Snapshot(at[it[k]], num[it[k]], was[it[k]]),
                               Write(at[it[k]], now[it[k]])>>
  <2> TAKE k \in 1..n
  <2>1. it[k] \in X
    BY <1>2 DEF Arranged
  <2> QED BY <1>1, <1>2, <1>4, <1>7, <2>1 DEF MovedWrite
<1>9. \A a, b \in Op :
              /\ a.do \in Writing /\ b.do \in Writing
              /\ a.do = "write" \/ a.path # b.path
              /\ (\E x \in X : a.path = at[x]) /\ (\E x \in X : b.path = at[x])
              => <<a, b>> \notin R
  <2>1. \A x \in X : at[x] \in Targets(m)
    BY <1>1, <1>4, Validated
  <2> QED BY <2>1
<1>10. HoldsPairs(Concat(f, n), R, X, at, num, was, now)
  <2>1. /\ Rewrites(X, at, num, was, now) /\ LeavesOpen(R, X, at)
        /\ PairsOf(f, it, n, at, num, was, now)
    BY <1>5, <1>6, <1>8, <1>9 DEF Rewrites, LeavesOpen, PairsOf
  <2> QED BY ONLY <1>2, <2>1, PairsListed
<1>11. ASSUME NEW a
       PROVE  a \in Members(Concat(f, n))
                <=> \E p \in X : a = Snapshot(m[p], ConceptVersion(p), files[p]) \/ a = Write(m[p], MovedFile(m, p))
  <2>1. a \in Members(Concat(f, n))
          <=> \E x \in X : a = Snapshot(at[x], num[x], was[x]) \/ a = Write(at[x], now[x])
    BY <1>10 DEF HoldsPairs
  <2>2. \A p \in X : /\ Snapshot(at[p], num[p], was[p]) = Snapshot(m[p], ConceptVersion(p), files[p])
                    /\ Write(at[p], now[p]) = Write(m[p], MovedFile(m, p))
    BY <1>4
  <2> QED BY <2>1, <2>2
<1>12. s = Concat(f, n)
  BY <1>1, <1>2, <1>7
<1> QED BY <1>1, <1>10, <1>11, <1>12 DEF HoldsPairs

\* R puts no write to one of the paths X after a write to another.
Unordered(X, R) ==
    \A a, b \in Op :
        /\ a.do \in Writing /\ b.do \in Writing
        /\ a.do = "write" \/ a.path # b.path
        /\ a.path \in X /\ b.path \in X
        => <<a, b>> \notin R

LEMMA RelinkedListed ==
    ASSUME Disk, NEW m \in Batches, NEW expected, CanMove(m, expected),
           NEW R, Unordered(Relinked(m), R),
           NEW others, others = Listing(Relinked(m)),
           NEW s3, s3 = Concat([k \in DOMAIN others |-> RelinkedWrite(m, others[k])], Len(others))
    PROVE  /\ s3 \in Seq(Op) /\ Sorted(s3, R)
           /\ \A a : a \in Members(s3)
                <=> \E q \in Relinked(m) :
                       \/ a = Snapshot(q, ConceptVersion(q), files[q])
                       \/ a = Write(q, RelinkedFile(m, q))
<1>1. PICK X, n : X = Relinked(m) /\ n = Cardinality(X)
  OBVIOUS
<1>2. Arranged(others, n, X) /\ DOMAIN others = 1..n /\ n = Len(others)
  <2>1. X \subseteq Path
    BY <1>1 DEF Relinked
  <2>2. X \in SUBSET Nat /\ IsFiniteSet(X)
    BY <2>1, PathAssumption, FiniteAssumption, FS_Subset
  <2>3. PICK it : it = Listing(X)
    OBVIOUS
  <2>4. /\ n \in Nat
        /\ it \in [1..n -> X]
        /\ Len(it) = n
        /\ \A j, k \in 1..n : it[j] = it[k] => j = k
        /\ \A x \in X : \E j \in 1..n : it[j] = x
    BY <1>1, <2>2, <2>3, ListingLists
  <2>5. others = it
    BY <1>1, <2>3
  <2> QED BY <2>4, <2>5 DEF Arranged
<1>3. PICK at, num, was, now :
          /\ at = [q \in X |-> q]
          /\ num = [q \in X |-> ConceptVersion(q)]
          /\ was = [q \in X |-> files[q]]
          /\ now = [q \in X |-> RelinkedFile(m, q)]
  OBVIOUS
<1>4. /\ \A q \in X : /\ at[q] = q /\ num[q] = ConceptVersion(q)
                      /\ was[q] = files[q] /\ now[q] = RelinkedFile(m, q)
  BY <1>3
<1>5. \A q \in X : /\ at[q] \in Path /\ num[q] \in Nat
                   /\ was[q] \in Content /\ now[q] \in Content
  BY <1>1, <1>4, Validated, VersionAssumption DEF Content, Version
<1>6. \A q, r \in X : at[q] = at[r] => q = r
  BY <1>4
<1>7. PICK f : f = [k \in DOMAIN others |-> RelinkedWrite(m, others[k])]
  OBVIOUS
<1>8. \A k \in 1..n : f[k] = <<Snapshot(at[others[k]], num[others[k]], was[others[k]]),
                               Write(at[others[k]], now[others[k]])>>
  <2> TAKE k \in 1..n
  <2>1. others[k] \in X
    BY <1>2 DEF Arranged
  <2> QED BY <1>2, <1>4, <1>7, <2>1 DEF RelinkedWrite
<1>9. \A a, b \in Op :
              /\ a.do \in Writing /\ b.do \in Writing
              /\ a.do = "write" \/ a.path # b.path
              /\ (\E x \in X : a.path = at[x]) /\ (\E x \in X : b.path = at[x])
              => <<a, b>> \notin R
  BY <1>1, <1>4 DEF Unordered
<1>10. HoldsPairs(Concat(f, n), R, X, at, num, was, now)
  <2>1. /\ Rewrites(X, at, num, was, now) /\ LeavesOpen(R, X, at)
        /\ PairsOf(f, others, n, at, num, was, now)
    BY <1>5, <1>6, <1>8, <1>9 DEF Rewrites, LeavesOpen, PairsOf
  <2> QED BY ONLY <1>2, <2>1, PairsListed
<1>11. ASSUME NEW a
       PROVE  a \in Members(Concat(f, n))
                <=> \E q \in X : a = Snapshot(q, ConceptVersion(q), files[q]) \/ a = Write(q, RelinkedFile(m, q))
  <2>1. a \in Members(Concat(f, n))
          <=> \E x \in X : a = Snapshot(at[x], num[x], was[x]) \/ a = Write(at[x], now[x])
    BY <1>10 DEF HoldsPairs
  <2>2. \A q \in X : /\ Snapshot(at[q], num[q], was[q]) = Snapshot(q, ConceptVersion(q), files[q])
                    /\ Write(at[q], now[q]) = Write(q, RelinkedFile(m, q))
    BY <1>4
  <2> QED BY <2>1, <2>2
<1>12. s3 = Concat(f, n)
  BY <1>1, <1>2, <1>7
<1> QED BY <1>1, <1>10, <1>11, <1>12 DEF HoldsPairs

\* The plan is a list of the tasks of its design, in order.
LEMMA PlanListed ==
    ASSUME Disk, Settled(files, snaps, verDirs), NEW m \in Batches, NEW expected,
           CanMove(m, expected), NEW items \in Orders(Sources(m)),
           NEW d, d = DesignOf(m),
           NEW plan, plan = Renames(m, items) \o Writes(m, items) \o Cleanup(items)
    PROVE  /\ plan \in Seq(Op) /\ Sorted(plan, InOrder(d)) /\ Members(plan) = Tasks(d)
           /\ plan # << >>
<1>1. /\ Design(d) /\ d.moves = m /\ d.written = Written(m)
      /\ Others(d) = Relinked(m)
      /\ \A p \in Sources(m) : /\ m[p] \in Written(m) /\ d.was[m[p]] = files[p]
                               /\ d.now[m[p]] = MovedFile(m, p)
                               /\ d.num[m[p]] = ConceptVersion(p)
                               /\ Kept(d, p) = Versions(p)
      /\ \A q \in Relinked(m) : /\ q \in Written(m) /\ d.was[q] = files[q]
                                /\ d.now[q] = RelinkedFile(m, q)
                                /\ d.num[q] = ConceptVersion(q)
  BY DesignOfPlan
<1>2. PICK R : R = InOrder(d)
  OBVIOUS
<1>3. \A a, b \in Op : <<a, b>> \in R <=> Earlier(d, a, b)
  BY <1>2, OrderOf
<1>4. \A q \in Relinked(m) : q \notin Targets(m)
  BY Validated
<1>5. /\ \A a, b \in Op : a.do \in Renaming /\ b.do \in Renaming => <<a, b>> \notin R
      /\ \A a, b \in Op : a.do = "tidy" /\ b.do = "tidy" => <<a, b>> \notin R
  BY <1>3 DEF Earlier, Renaming, Writing
<1>6. \A a, b \in Op :
         /\ a.do \in Writing /\ b.do \in Writing
         /\ a.do = "write" \/ a.path # b.path
         /\ a.path \in Targets(m) /\ b.path \in Targets(m)
         => <<a, b>> \notin R
  BY <1>1, <1>3, <1>4 DEF Earlier, Renaming, Writing
<1>7. Unordered(Relinked(m), R)
  BY <1>1, <1>3, <1>4 DEF Unordered, Earlier, Renaming, Writing
<1>8. PICK s1 : s1 = Renames(m, items)
  OBVIOUS
<1>9. PICK s2 : s2 = Concat([k \in DOMAIN items |-> MovedWrite(m, items[k])], Len(items))
  OBVIOUS
<1>10. PICK others, s3 :
          /\ others = Listing(Relinked(m))
          /\ s3 = Concat([k \in DOMAIN others |-> RelinkedWrite(m, others[k])], Len(others))
  OBVIOUS
<1>11. PICK s4 : s4 = Cleanup(items)
  OBVIOUS
<1>12. plan = (s1 \o (s2 \o s3)) \o s4
  BY <1>8, <1>9, <1>10, <1>11 DEF Writes
<1>13. /\ s1 \in Seq(Op) /\ Sorted(s1, R)
       /\ \A a : a \in Members(s1)
            <=> \E p \in Sources(m) :
                   a = Rename(p, m[p]) \/ \E n \in Versions(p) : a = Carry(p, m[p], n)
  <2>1. \A a, b \in Op : a.do \in Renaming /\ b.do \in Renaming => <<a, b>> \notin R
    BY <1>5
  <2>2. /\ Renames(m, items) \in Seq(Op) /\ Sorted(Renames(m, items), R)
        /\ \A a : a \in Members(Renames(m, items))
             <=> \E p \in Sources(m) :
                    a = Rename(p, m[p]) \/ \E n \in Versions(p) : a = Carry(p, m[p], n)
    BY ONLY m \in Batches, items \in Orders(Sources(m)), <2>1, RenamesListed
  <2> QED BY <1>8, <2>2
<1>14. /\ s2 \in Seq(Op) /\ Sorted(s2, R)
       /\ \A a : a \in Members(s2)
            <=> \E p \in Sources(m) :
                   \/ a = Snapshot(m[p], ConceptVersion(p), files[p])
                   \/ a = Write(m[p], MovedFile(m, p))
  BY <1>6, <1>9, MovedListed
<1>15. /\ s3 \in Seq(Op) /\ Sorted(s3, R)
       /\ \A a : a \in Members(s3)
            <=> \E q \in Relinked(m) :
                   \/ a = Snapshot(q, ConceptVersion(q), files[q])
                   \/ a = Write(q, RelinkedFile(m, q))
  <2>1. /\ others = Listing(Relinked(m))
        /\ s3 = Concat([k \in DOMAIN others |-> RelinkedWrite(m, others[k])], Len(others))
    BY <1>10
  <2> QED BY <1>7, <2>1, RelinkedListed
<1>16. /\ s4 \in Seq(Op) /\ Sorted(s4, R)
       /\ \A a : a \in Members(s4) <=> \E p \in Sources(m) : a = Tidy(p)
  <2>1. \A a, b \in Op : a.do = "tidy" /\ b.do = "tidy" => <<a, b>> \notin R
    BY <1>5
  <2>2. /\ Cleanup(items) \in Seq(Op) /\ Sorted(Cleanup(items), R)
        /\ \A a : a \in Members(Cleanup(items)) <=> \E p \in Sources(m) : a = Tidy(p)
    BY ONLY m \in Batches, items \in Orders(Sources(m)), <2>1, CleanupListed
  <2> QED BY <1>11, <2>2
<1>17. \A s \in Seq(Op) : \A a \in Members(s) : a \in Op
  <2> SUFFICES ASSUME NEW s \in Seq(Op), NEW k \in 1..Len(s) PROVE s[k] \in Op
    BY DEF Members
  <2> QED BY LenProperties, ElementOfSeq
<1>18. \A a \in Members(s1) : a \in Op /\ a.do \in Renaming
  BY <1>13, <1>17, OpKinds DEF Renaming
<1>19. \A a \in Members(s2) : a \in Op /\ a.do \in Writing /\ a.path \in Targets(m)
  <2>1. \A p \in Sources(m) : m[p] \in Targets(m)
    BY Validated
  <2> QED BY <1>14, <1>17, <2>1, OpKinds DEF Writing
<1>20. \A a \in Members(s3) : a \in Op /\ a.do \in Writing /\ a.path \in Relinked(m)
  BY <1>15, <1>17, OpKinds DEF Writing
<1>21. \A a \in Members(s4) : a \in Op /\ a.do = "tidy"
  BY <1>16, <1>17, OpKinds
<1>22. MayFollow(Members(s2), Members(s3), R)
  <2> SUFFICES ASSUME NEW a \in Members(s2), NEW b \in Members(s3)
               PROVE  a # b /\ <<b, a>> \notin R
    BY DEF MayFollow
  <2>1. /\ a \in Op /\ a.do \in Writing /\ a.path \in Targets(m)
        /\ b \in Op /\ b.do \in Writing /\ b.path \in Relinked(m) /\ b.path \notin Targets(m)
    BY <1>4, <1>19, <1>20
  <2> QED BY <1>1, <1>3, <2>1 DEF Earlier, Renaming, Writing
<1>23. /\ s2 \o s3 \in Seq(Op) /\ Sorted(s2 \o s3, R)
       /\ Members(s2 \o s3) = Members(s2) \union Members(s3)
  BY <1>14, <1>15, <1>22, Joined
<1>24. PICK s5 : s5 = s2 \o s3
  OBVIOUS
<1>25. /\ s5 \in Seq(Op) /\ Sorted(s5, R) /\ Members(s5) = Members(s2) \union Members(s3)
  BY <1>23, <1>24
<1>26. \A a \in Members(s5) : a \in Op /\ a.do \in Writing
  BY <1>19, <1>20, <1>25
<1>27. MayFollow(Members(s1), Members(s5), R)
  <2> SUFFICES ASSUME NEW a \in Members(s1), NEW b \in Members(s5)
               PROVE  a # b /\ <<b, a>> \notin R
    BY DEF MayFollow
  <2>1. a \in Op /\ a.do \in Renaming /\ b \in Op /\ b.do \in Writing
    BY <1>18, <1>26
  <2> QED BY <1>3, <2>1 DEF Earlier, Renaming, Writing
<1>28. /\ s1 \o s5 \in Seq(Op) /\ Sorted(s1 \o s5, R)
       /\ Members(s1 \o s5) = Members(s1) \union Members(s5)
  <2>1. /\ s1 \in Seq(Op) /\ Sorted(s1, R) /\ s5 \in Seq(Op) /\ Sorted(s5, R)
        /\ MayFollow(Members(s1), Members(s5), R)
    BY <1>13, <1>25, <1>27
  <2> QED BY ONLY <2>1, Joined
<1>29. PICK s6 : s6 = s1 \o s5
  OBVIOUS
<1>30. /\ s6 \in Seq(Op) /\ Sorted(s6, R) /\ Members(s6) = Members(s1) \union Members(s5)
  BY <1>28, <1>29
<1>31. MayFollow(Members(s6), Members(s4), R)
  <2> SUFFICES ASSUME NEW a \in Members(s6), NEW b \in Members(s4)
               PROVE  a # b /\ <<b, a>> \notin R
    BY DEF MayFollow
  <2>1. a \in Op /\ a.do \in Renaming \union Writing /\ b \in Op /\ b.do = "tidy"
    BY <1>18, <1>21, <1>26, <1>30
  <2> QED BY <1>3, <2>1 DEF Earlier, Renaming, Writing
<1>32. /\ s6 \o s4 \in Seq(Op) /\ Sorted(s6 \o s4, R)
       /\ Members(s6 \o s4) = Members(s6) \union Members(s4)
  <2>1. /\ s6 \in Seq(Op) /\ Sorted(s6, R) /\ s4 \in Seq(Op) /\ Sorted(s4, R)
        /\ MayFollow(Members(s6), Members(s4), R)
    BY <1>16, <1>30, <1>31
  <2> QED BY ONLY <2>1, Joined
<1>33. plan \in Seq(Op) /\ Sorted(plan, R) /\ Members(plan) = Members(s6) \union Members(s4)
  BY <1>12, <1>24, <1>29, <1>32
<1>34. /\ \A q \in Targets(m) : \E p \in Sources(m) : q = m[p]
       /\ \A p \in Sources(m) : m[p] \in Targets(m)
  BY Validated
<1>35. ASSUME NEW a PROVE a \in Members(plan) <=> a \in Tasks(d)
  <2>1. a \in Members(plan) <=>
          \/ \E p \in Sources(m) :
                 a = Rename(p, m[p]) \/ \E n \in Versions(p) : a = Carry(p, m[p], n)
          \/ \E p \in Sources(m) :
                 \/ a = Snapshot(m[p], ConceptVersion(p), files[p])
                 \/ a = Write(m[p], MovedFile(m, p))
          \/ \E q \in Relinked(m) :
                   \/ a = Snapshot(q, ConceptVersion(q), files[q])
                   \/ a = Write(q, RelinkedFile(m, q))
          \/ \E p \in Sources(m) : a = Tidy(p)
    BY <1>13, <1>14, <1>15, <1>16, <1>25, <1>30, <1>33
  <2>2. a \in Tasks(d) <=>
              \/ \E p \in Sources(m) : \E n \in Kept(d, p) : a = Carry(p, m[p], n)
              \/ \E p \in Sources(m) : a = Rename(p, m[p])
              \/ \E q \in d.written : a = Snapshot(q, d.num[q], d.was[q])
              \/ \E q \in d.written : a = Write(q, d.now[q])
              \/ \E p \in Sources(m) : a = Tidy(p)
    BY <1>1, TasksAre
  <2>3. (\E q \in d.written : a = Snapshot(q, d.num[q], d.was[q]))
           <=> \/ \E p \in Sources(m) : a = Snapshot(m[p], ConceptVersion(p), files[p])
               \/ \E q \in Relinked(m) : a = Snapshot(q, ConceptVersion(q), files[q])
    BY <1>1, <1>34 DEF Written
  <2>4. (\E q \in d.written : a = Write(q, d.now[q]))
           <=> \/ \E p \in Sources(m) : a = Write(m[p], MovedFile(m, p))
               \/ \E q \in Relinked(m) : a = Write(q, RelinkedFile(m, q))
    BY <1>1, <1>34 DEF Written
  <2>5. (\E p \in Sources(m) : \E n \in Kept(d, p) : a = Carry(p, m[p], n))
           <=> \E p \in Sources(m) : \E n \in Versions(p) : a = Carry(p, m[p], n)
    BY <1>1
  <2> QED BY <2>1, <2>2, <2>3, <2>4, <2>5
<1>36. plan # << >>
  <2>1. PICK p : p \in Sources(m)
    BY DEF Batches, Sources
  <2>2. Tidy(p) \in Members(plan)
    BY <1>16, <1>33, <2>1
  <2> QED BY <2>2, EmptyList
<1> QED BY <1>2, <1>33, <1>35, <1>36

LEMMA AllLeft ==
    ASSUME NEW d
    PROVE  /\ \A p \in Sources(d.moves), n \in Version :
                 CarryLeft(d, Tasks(d), p, n) <=> n \in Kept(d, p)
           /\ \A p \in Sources(d.moves) : RenameLeft(d, Tasks(d), p) /\ TidyLeft(Tasks(d), p)
           /\ \A q \in d.written : SnapshotLeft(d, Tasks(d), q) /\ WriteLeft(d, Tasks(d), q)
<1>1. ASSUME NEW p \in Sources(d.moves), NEW n \in Version
      PROVE  CarryLeft(d, Tasks(d), p, n) <=> n \in Kept(d, p)
  <2>1. CarryLeft(d, Tasks(d), p, n)
           <=> \E r \in Sources(d.moves) : \E v \in Kept(d, r) :
                  Carry(p, d.moves[p], n) = Carry(r, d.moves[r], v)
    <3>1. /\ \A r : Carry(p, d.moves[p], n) # Rename(r, d.moves[r])
          /\ \A q : Carry(p, d.moves[p], n) # Snapshot(q, d.num[q], d.was[q])
          /\ \A q : Carry(p, d.moves[p], n) # Write(q, d.now[q])
          /\ \A r : Carry(p, d.moves[p], n) # Tidy(r)
      <4>1. /\ Carry(p, d.moves[p], n).do = "carry"
            /\ \A r : Rename(r, d.moves[r]).do = "rename"
            /\ \A q : Snapshot(q, d.num[q], d.was[q]).do = "snapshot"
            /\ \A q : Write(q, d.now[q]).do = "write"
            /\ \A r : Tidy(r).do = "tidy"
        BY OpKinds
      <4> QED BY <4>1
    <3> QED BY <3>1, TasksAre DEF CarryLeft
  <2> QED BY <2>1, OpsDiffer
<1> QED BY <1>1, TasksAre DEF RenameLeft, TidyLeft, SnapshotLeft, WriteLeft

\* Before its first operation a move is where its design starts from.
LEMMA ForwardAtFirst ==
    ASSUME NEW d, Design(d), Disk, d.old = Before
    PROVE  Forward(d, Tasks(d))
<1> DEFINE P == Tasks(d)
           m == d.moves
<1>1. /\ \A p \in Sources(m), n \in Version : CarryLeft(d, P, p, n) <=> n \in Kept(d, p)
      /\ \A p \in Sources(m) : RenameLeft(d, P, p) /\ TidyLeft(P, p)
      /\ \A q \in d.written : SnapshotLeft(d, P, q) /\ WriteLeft(d, P, q)
  BY AllLeft
<1>2. d.old.files = files /\ d.old.snaps = snaps /\ d.old.verDirs = verDirs
  BY DEF Before
<1>3. /\ \A p \in Sources(m) : /\ p \in Path /\ m[p] \in d.written /\ m[p] \in Path
                               /\ d.num[m[p]] \in Version
      /\ \A q \in Others(d) : q \in d.written
  BY DesignShape DEF Others
<1> HIDE DEF P
<1>4. Ordered(d, P)
  BY <1>1, <1>3 DEF Ordered
<1>5. FilesForward(d, P)
  BY <1>1, <1>2, <1>3 DEF FilesForward, Design
<1>6. SnapsForward(d, P)
  <2>1. ASSUME NEW p \in Sources(m), NEW n \in Version
        PROVE  /\ snaps[p][n] = IF CarryLeft(d, P, p, n) THEN d.old.snaps[p][n] ELSE None
               /\ snaps[m[p]][n] =
                     IF n = d.num[m[p]]
                     THEN IF SnapshotLeft(d, P, m[p]) THEN None ELSE d.was[m[p]]
                     ELSE IF CarryLeft(d, P, p, n) THEN None ELSE d.old.snaps[p][n]
    <3>1. CarryLeft(d, P, p, n) <=> snaps[p][n] # None
      BY <1>1, <1>2 DEF Kept
    <3>2. snaps[m[p]][n] = None
      BY <1>2, DesignShape DEF NoHistory
    <3>3. SnapshotLeft(d, P, m[p])
      BY <1>1, <1>3
    <3> QED BY <1>2, <3>1, <3>2, <3>3
  <2>2. \A q \in Others(d), n \in Version :
          snaps[q][n] = IF n = d.num[q] /\ ~SnapshotLeft(d, P, q) THEN d.was[q]
                        ELSE d.old.snaps[q][n]
    BY <1>1, <1>2, <1>3
  <2> QED BY <1>2, <2>1, <2>2 DEF SnapsForward
<1>7. DirsForward(d, P)
  <2>1. Made(d, P) = {}
    <3>1. Carried(d, P) = {}
      BY <1>1 DEF Carried, Kept
    <3> QED BY <1>1, <3>1 DEF Made
  <2>2. Tried(d, P) = {}
    BY <1>1 DEF Tried
  <2>3. WithDirs(d, {}) = verDirs
    BY <1>2 DEF WithDirs
  <2> QED BY <2>1, <2>2, <2>3, StandingAll DEF DirsForward
<1> QED BY <1>4, <1>5, <1>6, <1>7 DEF Forward, P

-----------------------------------------------------------------------------
(* What a failure would undo.                                              *)

\* s restores every file whose snapshot has been tried.
RestoresOf(d, P, s) ==
    /\ s \in Seq(Op) /\ Sorted(s, UndoOrder)
    /\ \A a : a \in Members(s)
         <=> \E q \in d.written :
                /\ ~SnapshotLeft(d, P, q)
                /\ a = Write(q, d.was[q]) \/ a = Discard(q, d.num[q])

\* s takes back every rename.
RenamesBack(d, P, s) ==
    /\ s \in Seq(Op) /\ Sorted(s, UndoOrder)
    /\ \A a : a \in Members(s)
         <=> \E p \in Sources(d.moves) :
                \/ ~RenameLeft(d, P, p) /\ a = Rename(d.moves[p], p)
                \/ \E n \in Kept(d, p) : ~CarryLeft(d, P, p, n) /\ a = Carry(d.moves[p], p, n)

LEMMA NothingToUndo ==
    ASSUME NEW d
    PROVE  RestoresOf(d, Tasks(d), << >>) /\ RenamesBack(d, Tasks(d), << >>)
<1>1. \A p : \A n \in Kept(d, p) : n \in Version
  BY DEF Kept
<1> QED BY <1>1, AllLeft, EmptyList DEF RestoresOf, RenamesBack

LEMMA RestoresGrow ==
    ASSUME NEW d, Design(d), NEW P, P \subseteq Tasks(d), NEW op \in P,
           NEW Q, Q = P \ {op}, NEW s, RestoresOf(d, P, s)
    PROVE  RestoresOf(d, Q, s \o Restore(op))
<1> DEFINE R == UndoOrder
<1>1. CASE \E q \in d.written : op = Snapshot(q, d.num[q], d.was[q])
  <2>1. PICK p \in d.written : op = Snapshot(p, d.num[p], d.was[p])
    BY <1>1
  <2>2. \A q : SnapshotLeft(d, Q, q) <=> SnapshotLeft(d, P, q) /\ q # p
    BY <2>1, OpsDiffer DEF SnapshotLeft
  <2>3. SnapshotLeft(d, P, p)
    BY <2>1 DEF SnapshotLeft
  <2>4. /\ p \in Path /\ d.was[p] \in Content /\ d.num[p] \in Nat
        /\ \A q \in d.written : q \in Path /\ d.was[q] \in Content /\ d.num[q] \in Nat
    BY DesignShape
  <2>5. PICK x \in Op, y \in Op : x = Write(p, d.was[p]) /\ y = Discard(p, d.num[p])
    BY <2>4, OpTypes
  <2>6. x.do = "write" /\ x.path = p /\ y.do = "discard" /\ y.path = p
    BY <2>5, OpKinds
  <2>7. x # y /\ <<y, x>> \notin R
    BY <2>6, OrderOf DEF EarlierUndone, Renaming
  <2>8. <<x, y>> \in Seq(Op) /\ Members(<<x, y>>) = {x, y} /\ Sorted(<<x, y>>, R)
    BY <2>7, TwoInList
  <2>9. PICK t : t = <<x, y>>
    OBVIOUS
  <2>10. t \in Seq(Op) /\ Members(t) = {x, y} /\ Sorted(t, R)
    BY <2>8, <2>9
  <2>11. Restore(op) = t
    BY <2>1, <2>5, <2>9, Restored
  <2>12. s \in Seq(Op) /\ Sorted(s, R)
    BY DEF RestoresOf
  <2>13. ASSUME NEW a \in Members(s)
         PROVE  a \in Op /\ a.do \in {"write", "discard"} /\ a.path # p
    <3>1. PICK q \in d.written : /\ ~SnapshotLeft(d, P, q)
                                 /\ a = Write(q, d.was[q]) \/ a = Discard(q, d.num[q])
      BY DEF RestoresOf
    <3>2. q # p
      BY <2>3, <3>1
    <3>3. /\ Write(q, d.was[q]) \in Op /\ Discard(q, d.num[q]) \in Op
          /\ Write(q, d.was[q]).do = "write" /\ Write(q, d.was[q]).path = q
          /\ Discard(q, d.num[q]).do = "discard" /\ Discard(q, d.num[q]).path = q
      BY <2>4, OpTypes, OpKinds
    <3> QED BY <3>1, <3>2, <3>3
  <2>14. MayFollow(Members(s), Members(t), R)
    <3> SUFFICES ASSUME NEW a \in Members(s), NEW b \in {x, y}
                 PROVE  a # b /\ <<b, a>> \notin R
      BY <2>10 DEF MayFollow
    <3>1. b \in Op /\ b.path = p
      BY <2>6
    <3>2. a \in Op /\ a.do \in {"write", "discard"} /\ a.path # p
      BY <2>13
    <3> QED BY <3>1, <3>2, OrderOf DEF EarlierUndone, Renaming
  <2>15. /\ s \o t \in Seq(Op) /\ Sorted(s \o t, R)
         /\ Members(s \o t) = Members(s) \union Members(t)
    <3>1. t \in Seq(Op) /\ Sorted(t, R)
      BY <2>10
    <3> QED BY ONLY <2>12, <2>14, <3>1, Joined
  <2>16. ASSUME NEW a
         PROVE  a \in Members(s \o t)
                  <=> \E q \in d.written : /\ ~SnapshotLeft(d, Q, q)
                                           /\ a = Write(q, d.was[q]) \/ a = Discard(q, d.num[q])
    <3>1. a \in Members(s)
             <=> \E q \in d.written : /\ ~SnapshotLeft(d, P, q)
                                      /\ a = Write(q, d.was[q]) \/ a = Discard(q, d.num[q])
      BY DEF RestoresOf
    <3> QED BY <2>2, <2>3, <2>5, <2>10, <2>15, <3>1
  <2> QED BY <2>11, <2>15, <2>16 DEF RestoresOf
<1>2. CASE ~\E q \in d.written : op = Snapshot(q, d.num[q], d.was[q])
  <2>1. op.do # "snapshot"
    <3>1. \/ \E p \in Sources(d.moves) : \E n \in Kept(d, p) : op = Carry(p, d.moves[p], n)
          \/ \E p \in Sources(d.moves) : op = Rename(p, d.moves[p])
          \/ \E q \in d.written : op = Write(q, d.now[q])
          \/ \E p \in Sources(d.moves) : op = Tidy(p)
      BY <1>2, TaskKinds
    <3> QED BY <3>1, OpKinds
  <2>2. \A q \in d.written : SnapshotLeft(d, Q, q) <=> SnapshotLeft(d, P, q)
    BY <1>2 DEF SnapshotLeft
  <2>3. Restore(op) = << >>
    BY <2>1, Restored
  <2>4. s \o << >> = s
    BY ConcatEmptySeq DEF RestoresOf
  <2> QED BY <2>2, <2>3, <2>4 DEF RestoresOf
<1> QED BY <1>1, <1>2

LEMMA RenamesGrow ==
    ASSUME NEW d, Design(d), NEW P, P \subseteq Tasks(d), NEW op \in P,
           NEW Q, Q = P \ {op}, NEW s, RenamesBack(d, P, s)
    PROVE  RenamesBack(d, Q, Reverse(op) \o s)
<1> DEFINE R == UndoOrder
           m == d.moves
<1>1. s \in Seq(Op) /\ Sorted(s, R)
  BY DEF RenamesBack
<1>2. /\ \A p \in Sources(m) : p \in Path /\ m[p] \in Path
      /\ \A p : \A n \in Kept(d, p) : n \in Nat
  BY DesignShape, VersionAssumption DEF Kept, Version
<1>3. \A a \in Members(s) : a \in Op /\ a.do \in Renaming
  <2> SUFFICES ASSUME NEW a \in Members(s) PROVE a \in Op /\ a.do \in Renaming
    OBVIOUS
  <2>1. PICK p \in Sources(m) : a = Rename(m[p], p) \/ \E n \in Kept(d, p) : a = Carry(m[p], p, n)
    BY DEF RenamesBack
  <2> QED BY <1>2, <2>1, OpTypes, OpKinds DEF Renaming
<1>4. ASSUME NEW x \in Op, x.do \in Renaming, x \notin Members(s)
      PROVE  /\ <<x>> \o s \in Seq(Op) /\ Sorted(<<x>> \o s, R)
             /\ Members(<<x>> \o s) = {x} \union Members(s)
  <2>1. PICK t : t = <<x>>
    OBVIOUS
  <2>2. t \in Seq(Op) /\ Members(t) = {x} /\ Sorted(t, R)
    BY <2>1, OneInList
  <2>3. MayFollow(Members(t), Members(s), R)
    <3> SUFFICES ASSUME NEW b \in Members(s) PROVE x # b /\ <<b, x>> \notin R
      BY <2>2 DEF MayFollow
    <3>1. b \in Op /\ b.do \in Renaming
      BY <1>3
    <3> QED BY <1>4, <3>1, OrderOf DEF EarlierUndone, Renaming
  <2>4. t \o s \in Seq(Op) /\ Sorted(t \o s, R) /\ Members(t \o s) = Members(t) \union Members(s)
    BY ONLY <1>1, <2>2, <2>3, Joined
  <2> QED BY <2>1, <2>2, <2>4
<1>5. ASSUME NEW a
      PROVE  a \in Members(s)
                <=> \E p \in Sources(m) :
                     \/ ~RenameLeft(d, P, p) /\ a = Rename(m[p], p)
                     \/ \E n \in Kept(d, p) : ~CarryLeft(d, P, p, n) /\ a = Carry(m[p], p, n)
  BY DEF RenamesBack
<1>7. CASE \E p \in Sources(m) : \E n \in Kept(d, p) : op = Carry(p, m[p], n)
  <2>1. PICK p \in Sources(m) : \E n \in Kept(d, p) : op = Carry(p, m[p], n)
    BY <1>7
  <2>2. PICK n \in Kept(d, p) : op = Carry(p, m[p], n)
    BY <2>1
  <2>3. PICK x : x = Carry(m[p], p, n)
    OBVIOUS
  <2>4. Reverse(op) = <<x>>
    BY <2>2, <2>3, Reversed
  <2>5. /\ \A r : RenameLeft(d, Q, r) <=> RenameLeft(d, P, r)
        /\ \A r, v : CarryLeft(d, Q, r, v) <=> CarryLeft(d, P, r, v) /\ ~(r = p /\ v = n)
        /\ CarryLeft(d, P, p, n)
    BY <2>2, OpsDiffer, OpKinds DEF RenameLeft, CarryLeft
  <2>6. x \in Op /\ x.do \in Renaming
    BY <1>2, <2>3, OpTypes, OpKinds DEF Renaming
  <2>7. x \notin Members(s)
    <3> SUFFICES ASSUME x \in Members(s) PROVE FALSE
      OBVIOUS
    <3>1. PICK r \in Sources(m) :
             \/ ~RenameLeft(d, P, r) /\ x = Rename(m[r], r)
             \/ \E v \in Kept(d, r) : ~CarryLeft(d, P, r, v) /\ x = Carry(m[r], r, v)
      BY <1>5
    <3> QED BY <2>3, <2>5, <3>1, OpsDiffer, OpKinds
  <2>8. /\ <<x>> \o s \in Seq(Op) /\ Sorted(<<x>> \o s, R)
        /\ Members(<<x>> \o s) = {x} \union Members(s)
    BY <1>4, <2>6, <2>7
  <2>9. ASSUME NEW a
        PROVE  a \in Members(<<x>> \o s)
                 <=> \E r \in Sources(m) :
                      \/ ~RenameLeft(d, Q, r) /\ a = Rename(m[r], r)
                      \/ \E v \in Kept(d, r) : ~CarryLeft(d, Q, r, v) /\ a = Carry(m[r], r, v)
    <3>1. a \in Members(<<x>> \o s) <=> a = x \/ a \in Members(s)
      BY <2>8
    <3> QED BY <1>5, <2>3, <2>5, <3>1
  <2> QED BY <2>4, <2>8, <2>9 DEF RenamesBack
<1>8. CASE \E p \in Sources(m) : op = Rename(p, m[p])
  <2>2. PICK p \in Sources(m) : op = Rename(p, m[p])
    BY <1>8
  <2>3. PICK x : x = Rename(m[p], p)
    OBVIOUS
  <2>4. Reverse(op) = <<x>>
    BY <2>2, <2>3, Reversed
  <2>5. /\ \A r : RenameLeft(d, Q, r) <=> RenameLeft(d, P, r) /\ r # p
        /\ \A r, v : CarryLeft(d, Q, r, v) <=> CarryLeft(d, P, r, v)
        /\ RenameLeft(d, P, p)
    BY <2>2, OpsDiffer, OpKinds DEF RenameLeft, CarryLeft
  <2>6. x \in Op /\ x.do \in Renaming
    BY <1>2, <2>3, OpTypes, OpKinds DEF Renaming
  <2>7. x \notin Members(s)
    <3> SUFFICES ASSUME x \in Members(s) PROVE FALSE
      OBVIOUS
    <3>1. PICK r \in Sources(m) :
             \/ ~RenameLeft(d, P, r) /\ x = Rename(m[r], r)
             \/ \E v \in Kept(d, r) : ~CarryLeft(d, P, r, v) /\ x = Carry(m[r], r, v)
      BY <1>5
    <3> QED BY <2>3, <2>5, <3>1, OpsDiffer, OpKinds
  <2>8. /\ <<x>> \o s \in Seq(Op) /\ Sorted(<<x>> \o s, R)
        /\ Members(<<x>> \o s) = {x} \union Members(s)
    BY <1>4, <2>6, <2>7
  <2>9. ASSUME NEW a
        PROVE  a \in Members(<<x>> \o s)
                 <=> \E r \in Sources(m) :
                      \/ ~RenameLeft(d, Q, r) /\ a = Rename(m[r], r)
                      \/ \E v \in Kept(d, r) : ~CarryLeft(d, Q, r, v) /\ a = Carry(m[r], r, v)
    <3>1. a \in Members(<<x>> \o s) <=> a = x \/ a \in Members(s)
      BY <2>8
    <3> QED BY <1>5, <2>3, <2>5, <3>1
  <2> QED BY <2>4, <2>8, <2>9 DEF RenamesBack
<1>9. CASE op.do \notin Renaming
  <2>1. \A p, n : op # Carry(p, m[p], n) /\ op # Rename(p, m[p])
    BY <1>9, OpKinds DEF Renaming
  <2>2. /\ \A p : RenameLeft(d, Q, p) <=> RenameLeft(d, P, p)
        /\ \A p, n : CarryLeft(d, Q, p, n) <=> CarryLeft(d, P, p, n)
    BY <2>1 DEF RenameLeft, CarryLeft
  <2>3. Reverse(op) = << >>
    BY <1>9, Reversed DEF Renaming
  <2>4. << >> \o s = s
    BY <1>1, ConcatEmptySeq
  <2> QED BY <2>2, <2>3, <2>4 DEF RenamesBack
<1>10. \/ \E p \in Sources(m) : \E n \in Kept(d, p) : op = Carry(p, m[p], n)
       \/ \E p \in Sources(m) : op = Rename(p, m[p])
       \/ op.do \notin Renaming
  BY TaskKinds, OpKinds DEF Renaming
<1> QED BY <1>7, <1>8, <1>9, <1>10

-----------------------------------------------------------------------------
(* A failure.                                                              *)

\* u undoes all that is done when Q is left to do, and of the renames P.
Undoes(d, P, Q, u) ==
    /\ u \in Seq(Op) /\ Sorted(u, UndoOrder) /\ Members(u) \subseteq UndoTasks(d)
    /\ \A q \in d.written : /\ WriteBack(d, Members(u), q) <=> ~SnapshotLeft(d, Q, q)
                            /\ DiscardBack(d, Members(u), q) <=> ~SnapshotLeft(d, Q, q)
    /\ \A p \in Sources(d.moves) : RenameBack(d, Members(u), p) <=> ~RenameLeft(d, P, p)
    /\ \A p \in Sources(d.moves), n \in Version :
          CarryBack(d, Members(u), p, n) <=> n \in Kept(d, p) /\ ~CarryLeft(d, P, p, n)

LEMMA UndoListed ==
    ASSUME NEW d, Design(d), NEW P, NEW Q, NEW s, NEW r,
           RestoresOf(d, Q, s), RenamesBack(d, P, r)
    PROVE  Undoes(d, P, Q, s \o r)
<1> DEFINE R == UndoOrder
           m == d.moves
           U == Members(s \o r)
<1>1. s \in Seq(Op) /\ Sorted(s, R) /\ r \in Seq(Op) /\ Sorted(r, R)
  BY DEF RestoresOf, RenamesBack
<1>2. /\ \A a : a \in Members(s)
           <=> \E q \in d.written : /\ ~SnapshotLeft(d, Q, q)
                                    /\ a = Write(q, d.was[q]) \/ a = Discard(q, d.num[q])
      /\ \A a : a \in Members(r)
           <=> \E p \in Sources(m) :
                \/ ~RenameLeft(d, P, p) /\ a = Rename(m[p], p)
                \/ \E n \in Kept(d, p) : ~CarryLeft(d, P, p, n) /\ a = Carry(m[p], p, n)
  BY DEF RestoresOf, RenamesBack
<1>3. /\ \A p \in Sources(m) : p \in Path /\ m[p] \in Path
      /\ \A p : \A n \in Kept(d, p) : n \in Nat
      /\ \A q \in d.written : q \in Path /\ d.was[q] \in Content /\ d.num[q] \in Nat
  BY DesignShape, VersionAssumption DEF Kept, Version
<1>4. \A a \in Members(s) : a \in Op /\ a.do \in {"write", "discard"}
  BY <1>2, <1>3, OpTypes, OpKinds
<1>5. \A a \in Members(r) : a \in Op /\ a.do \in Renaming
  BY <1>2, <1>3, OpTypes, OpKinds DEF Renaming
<1>6. MayFollow(Members(s), Members(r), R)
  <2> SUFFICES ASSUME NEW a \in Members(s), NEW b \in Members(r)
               PROVE  a # b /\ <<b, a>> \notin R
    BY DEF MayFollow
  <2>1. a \in Op /\ a.do \in {"write", "discard"} /\ b \in Op /\ b.do \in Renaming
    BY <1>4, <1>5
  <2> QED BY <2>1, OrderOf DEF EarlierUndone, Renaming
<1>7. s \o r \in Seq(Op) /\ Sorted(s \o r, R) /\ U = Members(s) \union Members(r)
  BY ONLY <1>1, <1>6, Joined
<1> HIDE DEF U
<1>8. U \subseteq UndoTasks(d)
  <2>1. ASSUME NEW a \in Members(s) PROVE a \in UndoTasks(d)
    BY <1>2 DEF UndoTasks
  <2>2. ASSUME NEW a \in Members(r) PROVE a \in UndoTasks(d)
    <3>1. PICK p \in Sources(m) :
                \/ a = Rename(m[p], p)
                \/ \E n \in Kept(d, p) : a = Carry(m[p], p, n)
      BY <1>2
    <3>2. CASE a = Rename(m[p], p)
      BY <3>2 DEF UndoTasks
    <3>3. CASE \E n \in Kept(d, p) : a = Carry(m[p], p, n)
      <4>1. a \in UndoCarries(d)
        BY <3>3 DEF UndoCarries
      <4> QED BY <4>1 DEF UndoTasks
    <3> QED BY <3>1, <3>2, <3>3
  <2> QED BY <1>7, <2>1, <2>2
<1>9. ASSUME NEW q \in d.written
      PROVE  /\ WriteBack(d, U, q) <=> ~SnapshotLeft(d, Q, q)
             /\ DiscardBack(d, U, q) <=> ~SnapshotLeft(d, Q, q)
  <2>1. Write(q, d.was[q]) \notin Members(r) /\ Discard(q, d.num[q]) \notin Members(r)
    <3>1. Write(q, d.was[q]).do \notin Renaming /\ Discard(q, d.num[q]).do \notin Renaming
      BY OpKinds DEF Renaming
    <3> QED BY <1>5, <3>1
  <2>2. Write(q, d.was[q]) \in Members(s) <=> ~SnapshotLeft(d, Q, q)
    <3>1. ASSUME Write(q, d.was[q]) \in Members(s) PROVE ~SnapshotLeft(d, Q, q)
      <4>1. PICK t \in d.written :
               /\ ~SnapshotLeft(d, Q, t)
               /\ Write(q, d.was[q]) = Write(t, d.was[t]) \/ Write(q, d.was[q]) = Discard(t, d.num[t])
        BY <1>2, <3>1
      <4>2. t = q
        BY <4>1, OpsDiffer, OpKinds
      <4> QED BY <4>1, <4>2
    <3> QED BY <1>2, <3>1
  <2>3. Discard(q, d.num[q]) \in Members(s) <=> ~SnapshotLeft(d, Q, q)
    <3>1. ASSUME Discard(q, d.num[q]) \in Members(s) PROVE ~SnapshotLeft(d, Q, q)
      <4>1. PICK t \in d.written :
               /\ ~SnapshotLeft(d, Q, t)
               /\ \/ Discard(q, d.num[q]) = Write(t, d.was[t])
                  \/ Discard(q, d.num[q]) = Discard(t, d.num[t])
        BY <1>2, <3>1
      <4>2. t = q
        BY <4>1, OpsDiffer, OpKinds
      <4> QED BY <4>1, <4>2
    <3> QED BY <1>2, <3>1
  <2> QED BY <1>7, <2>1, <2>2, <2>3 DEF WriteBack, DiscardBack
<1>10. ASSUME NEW p \in Sources(m)
       PROVE  RenameBack(d, U, p) <=> ~RenameLeft(d, P, p)
  <2>1. Rename(m[p], p) \notin Members(s)
    <3>1. Rename(m[p], p).do \notin {"write", "discard"}
      BY OpKinds
    <3> QED BY <1>4, <3>1
  <2>2. ASSUME Rename(m[p], p) \in Members(r) PROVE ~RenameLeft(d, P, p)
    <3>1. PICK t \in Sources(m) :
             \/ ~RenameLeft(d, P, t) /\ Rename(m[p], p) = Rename(m[t], t)
             \/ \E n \in Kept(d, t) : Rename(m[p], p) = Carry(m[t], t, n)
      BY <1>2, <2>2
    <3>2. ~RenameLeft(d, P, t) /\ Rename(m[p], p) = Rename(m[t], t)
      BY <3>1, OpKinds
    <3> QED BY <3>2, OpsDiffer
  <2> QED BY <1>2, <1>7, <2>1, <2>2 DEF RenameBack
<1>11. ASSUME NEW p \in Sources(m), NEW n \in Version
       PROVE  CarryBack(d, U, p, n) <=> n \in Kept(d, p) /\ ~CarryLeft(d, P, p, n)
  <2>1. Carry(m[p], p, n) \notin Members(s)
    <3>1. Carry(m[p], p, n).do \notin {"write", "discard"}
      BY OpKinds
    <3> QED BY <1>4, <3>1
  <2>2. ASSUME Carry(m[p], p, n) \in Members(r)
        PROVE  n \in Kept(d, p) /\ ~CarryLeft(d, P, p, n)
    <3>1. PICK t \in Sources(m) :
             \/ Carry(m[p], p, n) = Rename(m[t], t)
             \/ \E v \in Kept(d, t) :
                   ~CarryLeft(d, P, t, v) /\ Carry(m[p], p, n) = Carry(m[t], t, v)
      BY <1>2, <2>2
    <3>2. PICK v \in Kept(d, t) :
             ~CarryLeft(d, P, t, v) /\ Carry(m[p], p, n) = Carry(m[t], t, v)
      BY <3>1, OpKinds
    <3>3. p = t /\ n = v
      BY <3>2, OpsDiffer
    <3> QED BY <3>2, <3>3
  <2> QED BY <1>2, <1>7, <2>1, <2>2 DEF CarryBack
<1> QED BY <1>7, <1>8, <1>9, <1>10, <1>11 DEF Undoes, U

\* The disk before op as the undo of a failure of op finds it.
LEMMA BackwardBefore ==
    ASSUME NEW d, NEW P, Design(d), Forward(d, P),
           NEW Q, Q \subseteq P, NEW u, Undoes(d, P, Q, u),
           \A q \in d.written :
              SnapshotLeft(d, P, q) /\ ~SnapshotLeft(d, Q, q) =>
                 \A r \in Sources(d.moves), v \in Version :
                    ~RenameLeft(d, P, r) /\ ~CarryLeft(d, P, r, v)
    PROVE  /\ FilesBack(d, Members(u)) /\ SnapsBack(d, Members(u)) /\ CopyKept(d, Members(u))
           /\ \A q \in d.written :
                 /\ WriteBack(d, Members(u), q) <=> ~SnapshotLeft(d, Q, q)
                 /\ DiscardBack(d, Members(u), q) <=> ~SnapshotLeft(d, Q, q)
           /\ \A p \in Sources(d.moves) : RenameBack(d, Members(u), p) <=> ~RenameLeft(d, P, p)
<1> DEFINE m == d.moves
<1>1. PICK U : U = Members(u)
  OBVIOUS
<1>2. /\ \A q \in d.written : /\ WriteBack(d, U, q) <=> ~SnapshotLeft(d, Q, q)
                              /\ DiscardBack(d, U, q) <=> ~SnapshotLeft(d, Q, q)
      /\ \A p \in Sources(m) : RenameBack(d, U, p) <=> ~RenameLeft(d, P, p)
      /\ \A p \in Sources(m), n \in Version :
            CarryBack(d, U, p, n) <=> n \in Kept(d, p) /\ ~CarryLeft(d, P, p, n)
  BY <1>1 DEF Undoes
<1>3. /\ \A p \in Sources(m) : m[p] \in d.written
      /\ \A q \in Others(d) : q \in d.written
      /\ \A q \in d.written : d.num[q] \in Version
      /\ \A q \in d.written : q \in Others(d) \/ \E p \in Sources(m) : q = m[p]
  BY DesignShape DEF Others
<1>4. \A q : SnapshotLeft(d, Q, q) => SnapshotLeft(d, P, q)
  BY DEF SnapshotLeft
<1>5. \A q \in d.written : SnapshotLeft(d, P, q) => WriteLeft(d, P, q)
  BY DEF Forward, Ordered
<1>6. \A p \in Sources(m), q \in d.written :
         RenameLeft(d, P, p) => SnapshotLeft(d, P, q) /\ WriteLeft(d, P, q) /\ SnapshotLeft(d, Q, q)
  <2> SUFFICES ASSUME NEW p \in Sources(m), NEW q \in d.written, RenameLeft(d, P, p)
               PROVE  SnapshotLeft(d, P, q) /\ WriteLeft(d, P, q) /\ SnapshotLeft(d, Q, q)
    OBVIOUS
  <2>1. PICK v : v \in Version
    BY <1>3
  <2>2. SnapshotLeft(d, P, q) /\ WriteLeft(d, P, q)
    BY <2>1 DEF Forward, Ordered
  <2> QED BY <2>1, <2>2
<1>7. FilesBack(d, U)
  <2>1. ASSUME NEW p \in Sources(m), RenameBack(d, U, p)
        PROVE  files[p] = None /\ (~WriteBack(d, U, m[p]) => files[m[p]] = d.was[m[p]])
    <3>1. ~RenameLeft(d, P, p)
      BY <1>2, <2>1
    <3>2. /\ files[p] = None
          /\ files[m[p]] = IF WriteLeft(d, P, m[p]) THEN d.was[m[p]] ELSE d.now[m[p]]
      BY <3>1 DEF Forward, FilesForward
    <3> QED BY <1>2, <1>3, <1>4, <1>5, <3>2
  <2>2. ASSUME NEW p \in Sources(m), ~RenameBack(d, U, p)
        PROVE  ~WriteBack(d, U, m[p]) /\ files[p] = d.was[m[p]] /\ files[m[p]] = None
    <3>1. RenameLeft(d, P, p)
      BY <1>2, <2>2
    <3>2. files[p] = d.was[m[p]] /\ files[m[p]] = None
      BY <3>1 DEF Forward, FilesForward
    <3> QED BY <1>2, <1>3, <1>6, <3>1, <3>2
  <2>3. ASSUME NEW q \in Others(d), ~WriteBack(d, U, q) PROVE files[q] = d.was[q]
    <3>1. WriteLeft(d, P, q)
      BY <1>2, <1>3, <1>4, <1>5, <2>3
    <3> QED BY <3>1 DEF Forward, FilesForward
  <2> QED BY <2>1, <2>2, <2>3 DEF FilesBack, Forward, FilesForward
<1>8. SnapsBack(d, U)
  <2>1. ASSUME NEW p \in Sources(m), NEW n \in Version
        PROVE  /\ snaps[p][n] = IF CarryLeft(d, P, p, n) THEN d.old.snaps[p][n] ELSE None
               /\ snaps[m[p]][n] =
                     IF n = d.num[m[p]]
                     THEN IF SnapshotLeft(d, P, m[p]) THEN None ELSE d.was[m[p]]
                     ELSE IF CarryLeft(d, P, p, n) THEN None ELSE d.old.snaps[p][n]
               /\ n \in Kept(d, p) <=> d.old.snaps[p][n] # None
    BY DEF Forward, SnapsForward, Kept
  <2>2. ASSUME NEW p \in Sources(m), NEW n \in Version, CarryBack(d, U, p, n)
        PROVE  /\ n \in Kept(d, p) /\ n # d.num[m[p]]
               /\ snaps[p][n] = None /\ snaps[m[p]][n] = d.old.snaps[p][n]
    <3>1. n \in Kept(d, p) /\ ~CarryLeft(d, P, p, n)
      BY <1>2, <2>2
    <3>2. n # d.num[m[p]]
      BY <3>1 DEF Kept, Design
    <3> QED BY <2>1, <3>1, <3>2
  <2>3. ASSUME NEW p \in Sources(m), NEW n \in Version, ~CarryBack(d, U, p, n)
        PROVE  /\ snaps[p][n] = d.old.snaps[p][n]
               /\ n # d.num[m[p]] => snaps[m[p]][n] = None
    <3>1. n \notin Kept(d, p) \/ CarryLeft(d, P, p, n)
      BY <1>2, <2>3
    <3> QED BY <2>1, <3>1
  <2>4. ASSUME NEW p \in Sources(m), ~DiscardBack(d, U, m[p])
        PROVE  snaps[m[p]][d.num[m[p]]] = None
    <3>1. SnapshotLeft(d, P, m[p]) /\ d.num[m[p]] \in Version
      BY <1>2, <1>3, <1>4, <2>4
    <3> QED BY <2>1, <3>1
  <2>5. ASSUME NEW q \in Others(d), NEW n \in Version, n # d.num[q] \/ ~DiscardBack(d, U, q)
        PROVE  snaps[q][n] = d.old.snaps[q][n]
    <3>1. n # d.num[q] \/ SnapshotLeft(d, P, q)
      BY <1>2, <1>3, <1>4, <2>5
    <3> QED BY <3>1 DEF Forward, SnapsForward
  <2> QED BY <2>2, <2>3, <2>4, <2>5 DEF SnapsBack, Forward, SnapsForward
<1>9. CopyKept(d, U)
  <2> SUFFICES ASSUME NEW q \in d.written, WriteBack(d, U, q)
               PROVE  /\ DiscardBack(d, U, q)
                      /\ files[q] = d.was[q] \/ snaps[q][d.num[q]] = d.was[q]
    BY DEF CopyKept
  <2>1. ~SnapshotLeft(d, Q, q) /\ DiscardBack(d, U, q)
    BY <1>2
  <2>2. CASE SnapshotLeft(d, P, q)
    <3>1. WriteLeft(d, P, q)
      BY <1>5, <2>2
    <3>2. CASE q \in Others(d)
      BY <2>1, <3>1, <3>2 DEF Forward, FilesForward
    <3>3. CASE \E p \in Sources(m) : q = m[p]
      <4>1. PICK p \in Sources(m) : q = m[p]
        BY <3>3
      <4>2. ~RenameLeft(d, P, p)
        BY <1>6, <2>1
      <4> QED BY <2>1, <3>1, <4>1, <4>2 DEF Forward, FilesForward
    <3> QED BY <1>3, <3>2, <3>3
  <2>3. CASE ~SnapshotLeft(d, P, q)
    <3>1. snaps[q][d.num[q]] = d.was[q]
      BY <1>3, <2>3 DEF Forward, SnapsForward
    <3> QED BY <2>1, <3>1
  <2> QED BY <2>2, <2>3
<1> QED BY <1>1, <1>2, <1>7, <1>8, <1>9

\* Which snapshot directories there are while something is left to write.
LEMMA MadeSoFar ==
    ASSUME NEW d, NEW P, Design(d), Ordered(d, P)
    PROVE  /\ MayBeMade(d, Made(d, P))
           /\ \A p \in Sources(d.moves), n \in Version :
                 CarryLeft(d, P, p, n) /\ n \in Kept(d, p) =>
                    MayBeMade(d, Made(d, P) \union {d.moves[p]})
           /\ \A q \in d.written :
                 /\ \A r \in Sources(d.moves), v \in Version : ~CarryLeft(d, P, r, v)
                 /\ q \in Others(d) => \A r \in Sources(d.moves) : ~WriteLeft(d, P, d.moves[r])
                 => MayBeMade(d, Made(d, P) \union {q})
<1> DEFINE m == d.moves
           made == Made(d, P)
<1>1. /\ \A p \in Sources(m) : m[p] \in d.written /\ m[p] \in Targets(m) /\ m[p] \notin Others(d)
      /\ \A q \in d.written : q \in Others(d) \/ \E p \in Sources(m) : q = m[p]
      /\ \A q \in Targets(m) : \E p \in Sources(m) : q = m[p]
      /\ \A q \in d.written : q \notin Targets(m) => q \in Others(d)
  BY DesignShape DEF Others
<1>2. made \subseteq d.written
  BY <1>1 DEF Made, Carried
<1>3. \A p \in Sources(m) : \A n \in Kept(d, p) : n \in Version
  BY DEF Kept
<1>4. \A q \in d.written : SnapshotLeft(d, P, q) => WriteLeft(d, P, q)
  BY DEF Ordered
<1>5. CASE \E r \in Sources(m), v \in Version : CarryLeft(d, P, r, v)
  <2>1. \A q \in d.written : SnapshotLeft(d, P, q)
    BY <1>5 DEF Ordered
  <2>2. made = {m[p] : p \in Carried(d, P)}
    BY <2>1 DEF Made
  <2>3. made \subseteq Carrying(d) /\ Carrying(d) \subseteq Targets(m)
    BY <1>1, <2>2 DEF Carried, Carrying
  <2>4. ASSUME NEW p \in Sources(m), NEW n \in Kept(d, p) PROVE m[p] \in Carrying(d)
    BY DEF Carrying
  <2> HIDE DEF made
  <2>5. MayBeMade(d, made)
    BY <1>2, <2>3 DEF MayBeMade
  <2>6. ASSUME NEW p \in Sources(m), NEW n \in Kept(d, p)
        PROVE  MayBeMade(d, made \union {m[p]})
    BY <1>1, <1>2, <2>3, <2>4, <2>6 DEF MayBeMade
  <2> QED BY <1>5, <2>5, <2>6 DEF made
<1>6. CASE \A r \in Sources(m), v \in Version : ~CarryLeft(d, P, r, v)
  <2>1. Carrying(d) \subseteq made
    <3> SUFFICES ASSUME NEW p \in Sources(m), Kept(d, p) # {} PROVE m[p] \in made
      BY DEF Carrying
    <3>1. p \in Carried(d, P)
      BY <1>3, <1>6 DEF Carried
    <3> QED BY <3>1 DEF Made
  <2>2. CASE \A r \in Sources(m) : ~SnapshotLeft(d, P, m[r])
    <3>1. Targets(m) \subseteq made
      BY <1>1, <2>2 DEF Made
    <3> HIDE DEF made
    <3>2. \A q \in d.written : MayBeMade(d, made \union {q})
      BY <1>2, <2>1, <3>1 DEF MayBeMade
    <3>3. MayBeMade(d, made)
      BY <1>2, <2>1, <3>1 DEF MayBeMade
    <3> QED BY <1>6, <3>2, <3>3 DEF made
  <2>3. CASE \E r \in Sources(m) : SnapshotLeft(d, P, m[r])
    <3>1. PICK r \in Sources(m) : SnapshotLeft(d, P, m[r])
      BY <2>3
    <3>2. WriteLeft(d, P, m[r])
      BY <1>1, <1>4, <3>1
    <3>3. \A q \in Others(d) : SnapshotLeft(d, P, q)
      BY <3>2 DEF Ordered
    <3>4. made \subseteq Targets(m)
      BY <1>1, <3>3 DEF Made, Carried
    <3> HIDE DEF made
    <3>5. \A q \in d.written : q \notin Others(d) => MayBeMade(d, made \union {q})
      BY <1>1, <1>2, <2>1, <3>4 DEF MayBeMade
    <3>6. MayBeMade(d, made)
      BY <1>2, <2>1, <3>4 DEF MayBeMade
    <3> QED BY <1>6, <3>2, <3>5, <3>6 DEF made
  <2> QED BY <2>2, <2>3
<1> QED BY <1>5, <1>6

\* What a failure leaves differs from what its undo expects at most where the
\* undo writes or discards.
LEMMA FailedSnapshot ==
    ASSUME NEW d, Design(d), Disk, NEW P, Forward(d, P), NEW U,
           SnapsBack(d, U), FilesBack(d, U), CopyKept(d, U),
           NEW q \in d.written, SnapshotLeft(d, P, q), DiscardBack(d, U, q),
           \A r \in Sources(d.moves) : ~RenameLeft(d, P, r),
           files' = files,
           NEW c, snaps' = [snaps EXCEPT ![q][d.num[q]] = c]
    PROVE  SnapsBack(d, U)' /\ FilesBack(d, U)' /\ CopyKept(d, U)'
<1> DEFINE m == d.moves
<1>1. /\ q \in Path /\ d.num[q] \in Version
      /\ \A p \in Sources(m) : p \in Path /\ p # q /\ m[p] \in Path /\ m[p] \notin Others(d)
      /\ q \notin Untouched(d)
      /\ \A r \in Others(d) : r \in Path
    BY DesignShape DEF Untouched, Others
<1>2. /\ \A r \in Path : r # q => snaps'[r] = snaps[r]
      /\ \A n \in Version : n # d.num[q] => snaps'[q][n] = snaps[q][n]
    BY <1>1 DEF Disk
<1>3. FilesBack(d, U)'
  BY DEF FilesBack, WriteBack, RenameBack
<1>4. SnapsBack(d, U)'
  <2>1. ASSUME NEW p \in Sources(m), NEW n \in Version, CarryBack(d, U, p, n)
        PROVE  /\ n \in Kept(d, p) /\ n # d.num[m[p]]
               /\ snaps'[p][n] = None /\ snaps'[m[p]][n] = d.old.snaps[p][n]
    BY <1>1, <1>2, <2>1 DEF SnapsBack
  <2>2. ASSUME NEW p \in Sources(m), NEW n \in Version, ~CarryBack(d, U, p, n)
        PROVE  /\ snaps'[p][n] = d.old.snaps[p][n]
               /\ n # d.num[m[p]] => snaps'[m[p]][n] = None
    BY <1>1, <1>2, <2>2 DEF SnapsBack
  <2>3. ASSUME NEW p \in Sources(m), ~DiscardBack(d, U, m[p])
        PROVE  snaps'[m[p]][d.num[m[p]]] = None
    <3>1. m[p] # q
      BY <2>3
    <3> QED BY <1>1, <1>2, <2>3, <3>1 DEF SnapsBack
  <2>4. ASSUME NEW r \in Others(d), NEW n \in Version, n # d.num[r] \/ ~DiscardBack(d, U, r)
        PROVE  snaps'[r][n] = d.old.snaps[r][n]
    <3>1. r = q => n # d.num[q]
      BY <2>4
    <3> QED BY <1>1, <1>2, <2>4, <3>1 DEF SnapsBack
  <2>5. ASSUME NEW r \in Untouched(d) PROVE snaps'[r] = d.old.snaps[r]
    BY <1>1, <1>2, <2>5 DEF SnapsBack, Untouched
  <2> QED BY <2>1, <2>2, <2>3, <2>4, <2>5 DEF SnapsBack, CarryBack, DiscardBack
<1>5. files[q] = d.was[q]
  <2>1. WriteLeft(d, P, q)
    BY DEF Forward, Ordered
  <2> QED BY <2>1, DesignShape DEF Forward, FilesForward
<1>6. CopyKept(d, U)'
  <2> SUFFICES ASSUME NEW r \in d.written, WriteBack(d, U, r)
               PROVE  /\ DiscardBack(d, U, r)
                      /\ files'[r] = d.was[r] \/ snaps'[r][d.num[r]] = d.was[r]
    BY DEF CopyKept, WriteBack, DiscardBack
  <2>1. r \in Path
    BY DesignShape
  <2> QED BY <1>2, <1>5, <2>1 DEF CopyKept
<1> QED BY <1>3, <1>4, <1>6

LEMMA FailedWrite ==
    ASSUME NEW d, Design(d), Disk, NEW P, Forward(d, P), NEW U,
           SnapsBack(d, U), FilesBack(d, U), CopyKept(d, U),
           NEW q \in d.written, ~SnapshotLeft(d, P, q), WriteBack(d, U, q),
           snaps' = snaps,
           NEW c, files' = [files EXCEPT ![q] = c]
    PROVE  SnapsBack(d, U)' /\ FilesBack(d, U)' /\ CopyKept(d, U)'
<1> DEFINE m == d.moves
<1>1. /\ q \in Path /\ d.num[q] \in Version
      /\ \A p \in Sources(m) : p \in Path /\ p # q /\ m[p] \in Path
      /\ q \notin Untouched(d)
      /\ \A r \in Others(d) : r \in Path
      /\ \A r \in Untouched(d) : r \in Path
    BY DesignShape DEF Untouched, Others
<1>2. \A r \in Path : r # q => files'[r] = files[r]
    BY <1>1 DEF Disk
<1>3. SnapsBack(d, U)'
  BY DEF SnapsBack, CarryBack, DiscardBack
<1>4. FilesBack(d, U)'
  <2>1. ASSUME NEW p \in Sources(m), RenameBack(d, U, p)
        PROVE  /\ files'[p] = None
               /\ ~WriteBack(d, U, m[p]) => files'[m[p]] = d.was[m[p]]
    BY <1>1, <1>2, <2>1 DEF FilesBack
  <2>2. ASSUME NEW p \in Sources(m), ~RenameBack(d, U, p)
        PROVE  /\ ~WriteBack(d, U, m[p])
               /\ files'[p] = d.was[m[p]] /\ files'[m[p]] = None
    <3>1. m[p] # q
      BY <2>2 DEF FilesBack
    <3> QED BY <1>1, <1>2, <2>2, <3>1 DEF FilesBack
  <2>3. ASSUME NEW r \in Others(d), ~WriteBack(d, U, r) PROVE files'[r] = d.was[r]
    BY <1>1, <1>2, <2>3 DEF FilesBack
  <2>4. ASSUME NEW r \in Untouched(d) PROVE files'[r] = d.old.files[r]
    BY <1>1, <1>2, <2>4 DEF FilesBack
  <2> QED BY <2>1, <2>2, <2>3, <2>4 DEF FilesBack, RenameBack, WriteBack
<1>5. snaps[q][d.num[q]] = d.was[q]
  BY <1>1, DesignShape DEF Forward, SnapsForward
<1>6. CopyKept(d, U)'
  <2> SUFFICES ASSUME NEW r \in d.written, WriteBack(d, U, r)
               PROVE  /\ DiscardBack(d, U, r)
                      /\ files'[r] = d.was[r] \/ snaps'[r][d.num[r]] = d.was[r]
    BY DEF CopyKept, WriteBack, DiscardBack
  <2>1. r \in Path
    BY DesignShape
  <2> QED BY <1>2, <1>5, <2>1 DEF CopyKept
<1> QED BY <1>3, <1>4, <1>6

LEMMA FailedUnseen ==
    ASSUME NEW d, NEW U, SnapsBack(d, U), FilesBack(d, U), CopyKept(d, U),
           files' = files, snaps' = snaps
    PROVE  SnapsBack(d, U)' /\ FilesBack(d, U)' /\ CopyKept(d, U)'
BY DEF SnapsBack, FilesBack, CopyKept, CarryBack, RenameBack, WriteBack, DiscardBack

\* Whatever the next operation leaves when it fails, the undo can start from.
LEMMA BackwardAtFailure ==
    ASSUME NEW d, NEW P, Design(d), Forward(d, P), Disk,
           P \subseteq Tasks(d), NEW op \in P,
           \A b \in P : b = op \/ ~Earlier(d, b, op),
           op.do # "tidy", LeftByFailure(op),
           NEW Q, Q = P \ {op}, NEW u, Undoes(d, P, Q, u)
    PROVE  Backward(d, Members(u))'
<1> DEFINE m == d.moves
<1>1. ASSUME NEW p \in d.written, op.do \in Writing, op.path = p
      PROVE  /\ \A r \in Sources(m), v \in Version :
                   ~RenameLeft(d, P, r) /\ ~CarryLeft(d, P, r, v)
             /\ p \in Others(d) => \A r \in Sources(m) : ~WriteLeft(d, P, m[r])
  <2>1. ASSUME NEW r \in Sources(m), RenameLeft(d, P, r) PROVE FALSE
    <3>1. Rename(r, m[r]).do \in Renaming /\ Rename(r, m[r]).do \notin Writing
      BY OpKinds DEF Renaming, Writing
    <3> QED BY <1>1, <2>1, <3>1 DEF RenameLeft, Earlier
  <2>2. ASSUME NEW r \in Sources(m), NEW v \in Version, CarryLeft(d, P, r, v) PROVE FALSE
    <3>1. Carry(r, m[r], v).do \in Renaming /\ Carry(r, m[r], v).do \notin Writing
      BY OpKinds DEF Renaming, Writing
    <3> QED BY <1>1, <2>2, <3>1 DEF CarryLeft, Earlier
  <2>3. ASSUME p \in Others(d), NEW r \in Sources(m), WriteLeft(d, P, m[r]) PROVE FALSE
    <3>1. /\ Write(m[r], d.now[m[r]]).do \in Writing
          /\ Write(m[r], d.now[m[r]]).path = m[r]
      BY OpKinds DEF Writing
    <3>2. m[r] \in Targets(m) /\ m[r] # p
      BY <2>3, DesignShape
    <3> QED BY <1>1, <2>3, <3>1, <3>2 DEF WriteLeft, Earlier
  <2> QED BY <2>1, <2>2, <2>3
<1>2. PICK U : U = Members(u)
  OBVIOUS
<1>3. /\ FilesBack(d, U) /\ SnapsBack(d, U) /\ CopyKept(d, U)
      /\ \A q \in d.written : /\ WriteBack(d, U, q) <=> ~SnapshotLeft(d, Q, q)
                              /\ DiscardBack(d, U, q) <=> ~SnapshotLeft(d, Q, q)
  <2>1. ASSUME NEW q \in d.written, SnapshotLeft(d, P, q), ~SnapshotLeft(d, Q, q),
               NEW r \in Sources(m), NEW v \in Version
        PROVE  ~RenameLeft(d, P, r) /\ ~CarryLeft(d, P, r, v)
    <3>1. op = Snapshot(q, d.num[q], d.was[q])
      BY <2>1 DEF SnapshotLeft
    <3>2. op.do \in Writing /\ op.path = q
      BY <3>1, OpKinds DEF Writing
    <3> QED BY <1>1, <3>2
  <2>2. Q \subseteq P
    OBVIOUS
  <2> QED BY ONLY Design(d), Forward(d, P), Undoes(d, P, Q, u), <1>2, <2>1, <2>2, BackwardBefore
<1>4. ASSUME DirsBack(d)', SnapsBack(d, U)' /\ FilesBack(d, U)' /\ CopyKept(d, U)'
      PROVE  Backward(d, Members(u))'
  BY <1>2, <1>4 DEF Backward
<1>5. /\ MayBeMade(d, Made(d, P))
      /\ \A p \in Sources(m), n \in Version :
            CarryLeft(d, P, p, n) /\ n \in Kept(d, p) =>
               MayBeMade(d, Made(d, P) \union {m[p]})
      /\ \A q \in d.written :
            /\ \A r \in Sources(m), v \in Version : ~CarryLeft(d, P, r, v)
            /\ q \in Others(d) => \A r \in Sources(m) : ~WriteLeft(d, P, m[r])
            => MayBeMade(d, Made(d, P) \union {q})
  BY MadeSoFar DEF Forward
<1>6. ASSUME \E q \in d.written : WriteLeft(d, P, q)
      PROVE  /\ verDirs = WithDirs(d, Made(d, P))
             /\ verDirs' = verDirs => DirsBack(d)'
             /\ \A q \in d.written :
                   MayBeMade(d, Made(d, P) \union {q}) /\ verDirs' = MakeDirs({q})
                      => DirsBack(d)'
  <2>1. verDirs = WithDirs(d, Made(d, P))
    BY <1>6, NothingTried
  <2>2. PICK made : made = Made(d, P)
    OBVIOUS
  <2>3. ASSUME verDirs' = verDirs PROVE DirsBack(d)'
    <3>1. made \in SUBSET d.written /\ MayBeMade(d, made) /\ verDirs' = WithDirs(d, made)
      BY <1>5, <2>1, <2>2, <2>3 DEF MayBeMade
    <3> QED BY <3>1 DEF DirsBack
  <2>4. ASSUME NEW q \in d.written,
               MayBeMade(d, Made(d, P) \union {q}), verDirs' = MakeDirs({q})
        PROVE  DirsBack(d)'
    <3>1. MakeDirs({q}) = WithDirs(d, made \union {q})
      BY <2>1, <2>2, DirsMade
    <3>2. PICK more : more = made \union {q}
      OBVIOUS
    <3>3. more \in SUBSET d.written /\ MayBeMade(d, more) /\ verDirs' = WithDirs(d, more)
      BY <2>2, <2>4, <3>1, <3>2 DEF MayBeMade
    <3> QED BY <3>3 DEF DirsBack
  <2> QED BY <2>1, <2>3, <2>4
<1>7. ASSUME NEW p \in Sources(m), NEW n \in Version, RenameLeft(d, P, p) \/ CarryLeft(d, P, p, n)
      PROVE  \E q \in d.written : WriteLeft(d, P, q)
  BY <1>7, DesignShape DEF Forward, Ordered
<1>8. CASE \E p \in Sources(m) : \E n \in Kept(d, p) : op = Carry(p, m[p], n)
  <2>0. PICK p \in Sources(m) : \E n \in Kept(d, p) : op = Carry(p, m[p], n)
    BY <1>8
  <2>1. PICK n \in Kept(d, p) : op = Carry(p, m[p], n)
    BY <2>0
  <2>2. CarryLeft(d, P, p, n) /\ n \in Version
    BY <2>1 DEF CarryLeft, Kept
  <2>3. op.do = "carry" /\ op.to = m[p]
    BY <2>1, OpKinds
  <2>4. verDirs' \in {verDirs, MakeDirs({m[p]})} /\ files' = files /\ snaps' = snaps
    BY <2>3 DEF LeftByFailure
  <2>5. DirsBack(d)'
    BY <1>5, <1>6, <1>7, <2>2, <2>4, DesignShape
  <2>6. SnapsBack(d, U)' /\ FilesBack(d, U)' /\ CopyKept(d, U)'
    BY <1>3, <2>4, FailedUnseen
  <2> QED BY <1>4, <2>5, <2>6
<1>9. CASE \E p \in Sources(m) : op = Rename(p, m[p])
  <2>1. PICK p \in Sources(m) : op = Rename(p, m[p])
    BY <1>9
  <2>2. RenameLeft(d, P, p) /\ op.do = "rename"
    BY <2>1, OpKinds DEF RenameLeft
  <2>3. verDirs' = verDirs /\ files' = files /\ snaps' = snaps
    BY <2>2 DEF LeftByFailure
  <2>4. \E q \in d.written : WriteLeft(d, P, q)
    BY <2>2, DesignShape DEF Forward, Ordered
  <2>5. DirsBack(d)'
    BY <1>6, <2>3, <2>4
  <2>6. SnapsBack(d, U)' /\ FilesBack(d, U)' /\ CopyKept(d, U)'
    BY <1>3, <2>3, FailedUnseen
  <2> QED BY <1>4, <2>5, <2>6
<1>10. CASE \E q \in d.written : op = Snapshot(q, d.num[q], d.was[q])
  <2>1. PICK q \in d.written : op = Snapshot(q, d.num[q], d.was[q])
    BY <1>10
  <2>2. /\ op.do = "snapshot" /\ op.do \in Writing /\ op.path = q
        /\ op.n = d.num[q] /\ op.data = d.was[q]
    BY <2>1, OpKinds DEF Writing
  <2>3. SnapshotLeft(d, P, q) /\ ~SnapshotLeft(d, Q, q)
    BY <2>1 DEF SnapshotLeft
  <2>4. WriteLeft(d, P, q)
    BY <2>3 DEF Forward, Ordered
  <2>5. /\ \A r \in Sources(m), v \in Version :
              ~RenameLeft(d, P, r) /\ ~CarryLeft(d, P, r, v)
        /\ q \in Others(d) => \A r \in Sources(m) : ~WriteLeft(d, P, m[r])
    BY <1>1, <2>2
  <2>6. CASE UNCHANGED <<files, snaps, verDirs>>
    <3>1. SnapsBack(d, U)' /\ FilesBack(d, U)' /\ CopyKept(d, U)'
      BY <1>3, <2>6, FailedUnseen
    <3>2. DirsBack(d)'
      BY <1>6, <2>4, <2>6
    <3> QED BY <1>4, <3>1, <3>2
  <2>7. CASE /\ verDirs' = MakeDirs({q}) /\ files' = files
             /\ \E c : snaps' = [snaps EXCEPT ![q][d.num[q]] = c]
    <3>1. PICK c : snaps' = [snaps EXCEPT ![q][d.num[q]] = c]
      BY <2>7
    <3>2. DiscardBack(d, U, q)
      BY <1>3, <2>3
    <3>3. \A r \in Sources(m) : ~RenameLeft(d, P, r)
      <4>1. d.num[q] \in Version
        BY DesignShape
      <4> QED BY <2>5, <4>1
    <3>4. SnapsBack(d, U)' /\ FilesBack(d, U)' /\ CopyKept(d, U)'
      BY ONLY Design(d), Disk, Forward(d, P), <1>3, <2>1, <2>3, <2>7, <3>1, <3>2, <3>3,
              FailedSnapshot
    <3>5. DirsBack(d)'
      BY <1>5, <1>6, <2>4, <2>5, <2>7
    <3> QED BY <1>4, <3>4, <3>5
  <2>8. \/ UNCHANGED <<files, snaps, verDirs>>
        \/ /\ verDirs' = MakeDirs({op.path})
           /\ \E c \in {None} \union Torn(op.data) :
                 snaps' = [snaps EXCEPT ![op.path][op.n] = c]
           /\ UNCHANGED files
    BY <2>2 DEF LeftByFailure
  <2> QED BY <2>2, <2>6, <2>7, <2>8
<1>11. CASE \E q \in d.written : op = Write(q, d.now[q])
  <2>1. PICK q \in d.written : op = Write(q, d.now[q])
    BY <1>11
  <2>2. op.do = "write" /\ op.do \in Writing /\ op.path = q
    BY <2>1, OpKinds DEF Writing
  <2>3. WriteLeft(d, P, q)
    BY <2>1 DEF WriteLeft
  <2>4. ~SnapshotLeft(d, P, q)
    <3>1. /\ Snapshot(q, d.num[q], d.was[q]).do = "snapshot"
          /\ Snapshot(q, d.num[q], d.was[q]).path = q
      BY OpKinds
    <3> QED BY <2>2, <3>1 DEF SnapshotLeft, Earlier
  <2>5. /\ \E c \in {files[op.path]} \union Torn(op.data) :
              files' = [files EXCEPT ![op.path] = c]
        /\ UNCHANGED <<snaps, verDirs>>
    BY <2>2 DEF LeftByFailure
  <2>6. PICK c : files' = [files EXCEPT ![q] = c]
    BY <2>2, <2>5
  <2>7. WriteBack(d, U, q)
    BY <1>3, <2>4 DEF SnapshotLeft
  <2>8. SnapsBack(d, U)' /\ FilesBack(d, U)' /\ CopyKept(d, U)'
    BY ONLY Design(d), Disk, Forward(d, P), <1>3, <2>1, <2>4, <2>5, <2>6, <2>7, FailedWrite
  <2>9. DirsBack(d)'
    BY <1>6, <2>3, <2>5
  <2> QED BY <1>4, <2>8, <2>9
<1>12. CASE \E p \in Sources(m) : op = Tidy(p)
  BY <1>12, OpKinds
<1> QED BY <1>8, <1>9, <1>10, <1>11, <1>12, TaskKinds

-----------------------------------------------------------------------------
(* The disk keeps its type.                                                *)

LEMMA DirsTyped ==
    ASSUME Disk, NEW p \in Path
    PROVE  MakeDirs({p}) \subseteq Path
BY AuthorAssumption DEF Disk, MakeDirs

LEMMA OpsKeepDisk ==
    ASSUME Disk, NEW op \in Op, files' = Files(op), snaps' = Snaps(op), verDirs' = Dirs(op)
    PROVE  Disk'
<1>1. /\ op.path \in Path /\ op.to \in Path /\ op.data \in Content
      /\ files[op.path] \in Content /\ None \in Content
      /\ \A v \in Version : snaps[op.path][v] \in Content
  BY DEF Op, Disk, Content
<1>2. files' \in [Path -> Content]
  BY <1>1 DEF Files, Disk
<1>3. snaps' \in [Path -> [Version -> Content]]
  <2>1. CASE op.do = "carry"
    <3>1. snaps' = [snaps EXCEPT ![op.to][op.n] = snaps[op.path][op.n],
                                 ![op.path][op.n] = None]
      BY <2>1 DEF Snaps
    <3>2. PICK c : c = snaps[op.path][op.n] /\ (op.n \in Version => c \in Content)
      BY <1>1
    <3>3. PICK s : s = [snaps EXCEPT ![op.to][op.n] = c]
      OBVIOUS
    <3>4. s \in [Path -> [Version -> Content]]
      BY <1>1, <3>2, <3>3 DEF Disk
    <3>5. snaps' = [s EXCEPT ![op.path][op.n] = None]
      BY <3>1, <3>2, <3>3
    <3>6. [s[op.path] EXCEPT ![op.n] = None] \in [Version -> Content]
      BY <1>1, <3>4
    <3>7. snaps' = [s EXCEPT ![op.path] = [s[op.path] EXCEPT ![op.n] = None]]
      BY <3>5
    <3> QED BY <1>1, <3>4, <3>6, <3>7
  <2>2. CASE op.do = "snapshot"
    BY <1>1, <2>2 DEF Snaps, Disk
  <2>3. CASE op.do = "discard"
    BY <1>1, <2>3 DEF Snaps, Disk
  <2>4. CASE op.do \notin {"carry", "snapshot", "discard"}
    BY <2>4 DEF Snaps, Disk
  <2> QED BY <2>1, <2>2, <2>3, <2>4
<1>4. verDirs' \subseteq Path
  <2>1. CASE op.do \in {"carry", "snapshot"}
    BY <1>1, <2>1, DirsTyped DEF Dirs
  <2>2. CASE op.do \notin {"carry", "snapshot"}
    BY <2>2 DEF Dirs, Disk
  <2> QED BY <2>1, <2>2
<1> QED BY <1>2, <1>3, <1>4 DEF Disk

LEMMA FailuresKeepDisk ==
    ASSUME Disk, NEW op \in Op, op.do \in {"carry", "rename"} \/ op.data \in File,
           op.do \in {"carry", "rename", "snapshot", "write"}, LeftByFailure(op)
    PROVE  Disk'
<1>1. /\ op.path \in Path /\ op.to \in Path /\ files[op.path] \in Content /\ None \in Content
      /\ op.do \in {"snapshot", "write"} => Torn(op.data) \subseteq Content
  BY TornType DEF Op, Disk, Content
<1>2. CASE op.do = "carry"
  BY <1>1, <1>2, DirsTyped DEF LeftByFailure, Disk
<1>3. CASE op.do = "rename"
  BY <1>3 DEF LeftByFailure, Disk
<1>4. CASE op.do = "snapshot"
  <2>1. CASE UNCHANGED <<files, snaps, verDirs>>
    BY <2>1 DEF Disk
  <2>2. ASSUME verDirs' = MakeDirs({op.path}), files' = files,
               NEW c \in {None} \union Torn(op.data), snaps' = [snaps EXCEPT ![op.path][op.n] = c]
        PROVE  Disk'
    <3>1. c \in Content
      BY <1>1, <1>4
    <3>2. snaps' \in [Path -> [Version -> Content]]
      BY <1>1, <2>2, <3>1 DEF Disk
    <3>3. verDirs' \subseteq Path
      BY <1>1, <2>2, DirsTyped
    <3> QED BY <2>2, <3>2, <3>3 DEF Disk
  <2> QED BY <1>4, <2>1, <2>2 DEF LeftByFailure
<1>5. CASE op.do = "write"
  <2>1. PICK c \in {files[op.path]} \union Torn(op.data) : files' = [files EXCEPT ![op.path] = c]
    BY <1>5 DEF LeftByFailure
  <2>2. c \in Content /\ snaps' = snaps /\ verDirs' = verDirs
    BY <1>1, <1>5, <2>1 DEF LeftByFailure
  <2> QED BY <1>1, <2>1, <2>2 DEF Disk
<1> QED BY <1>2, <1>3, <1>4, <1>5

LEMMA TaskFails ==
    ASSUME NEW d, Design(d), NEW op \in Tasks(d), op.do # "tidy"
    PROVE  /\ op.do \in {"carry", "rename", "snapshot", "write"}
           /\ op.do \in {"carry", "rename"} \/ op.data \in File
<1>1. ASSUME NEW p \in Sources(d.moves), NEW n, op = Carry(p, d.moves[p], n)
      PROVE  op.do = "carry"
  BY <1>1, OpKinds
<1>2. ASSUME NEW p \in Sources(d.moves), op = Rename(p, d.moves[p]) PROVE op.do = "rename"
  BY <1>2, OpKinds
<1>3. ASSUME NEW q \in d.written, op = Snapshot(q, d.num[q], d.was[q])
      PROVE  op.do = "snapshot" /\ op.data \in File
  BY <1>3, OpKinds, DesignShape
<1>4. ASSUME NEW q \in d.written, op = Write(q, d.now[q])
      PROVE  op.do = "write" /\ op.data \in File
  BY <1>4, OpKinds, DesignShape
<1>5. ASSUME NEW p \in Sources(d.moves), op = Tidy(p) PROVE op.do = "tidy"
  BY <1>5, OpKinds
<1> QED BY <1>1, <1>2, <1>3, <1>4, <1>5, TaskKinds

-----------------------------------------------------------------------------
(* The move a design stands for, in the bundle that was there before.      *)

Unchecked(m) == [p \in Sources(m) |-> 0]

Planned(d) ==
    /\ d.old = Seen
    /\ Atomic!CanMove(d.moves, Unchecked(d.moves))
    /\ Others(d) = Atomic!Relinked(d.moves)
    /\ \A p \in Sources(d.moves) : /\ d.now[d.moves[p]] = Atomic!MovedFile(d.moves, p)
                                   /\ d.num[d.moves[p]] = Atomic!ConceptVersion(p)
                                   /\ Kept(d, p) = Atomic!Versions(p)
    /\ \A q \in Others(d) : /\ d.now[q] = Atomic!RelinkedFile(d.moves, q)
                            /\ d.num[q] = Atomic!ConceptVersion(q)

LEMMA SeenNow ==
    ASSUME job = None
    PROVE  /\ Seen = Before
           /\ \A p : Atomic!Versions(p) = Versions(p)
           /\ \A p : Atomic!ConceptVersion(p) = ConceptVersion(p)
           /\ \A m : Atomic!Relinked(m) = Relinked(m)
           /\ \A m, e : Atomic!CanMove(m, e) <=> CanMove(m, e)
           /\ \A m, p : Atomic!MovedFile(m, p) = MovedFile(m, p)
           /\ \A m, p : Atomic!RelinkedFile(m, p) = RelinkedFile(m, p)
<1>0. Seen.files = files /\ Seen.snaps = snaps /\ Seen.verDirs = verDirs /\ Seen = Before
  BY DEF Seen, Before
<1>1. \A p : Atomic!Versions(p) = Versions(p)
  BY <1>0 DEF Versions, Atomic!Versions, Version, Atomic!Version
<1>2. \A p : Atomic!ConceptVersion(p) = ConceptVersion(p)
  <2> SUFFICES ASSUME NEW p PROVE Atomic!ConceptVersion(p) = ConceptVersion(p)
    OBVIOUS
  <2>1. Atomic!Versions(p) = Versions(p)
    BY <1>1
  <2> QED BY <2>1 DEF ConceptVersion, Atomic!ConceptVersion
<1>3. \A p : (Atomic!Exists(p) <=> Exists(p)) /\ (Atomic!Parsed(p) <=> Parsed(p))
  BY <1>0 DEF Exists, Atomic!Exists, Parsed, Atomic!Parsed
<1>4. \A m : /\ Atomic!Sources(m) = Sources(m) /\ Atomic!Targets(m) = Targets(m)
             /\ Atomic!Stale(m) = Stale(m)
  BY DEF Sources, Atomic!Sources, Targets, Atomic!Targets, Stale, Atomic!Stale
<1>4a. \A p, t : Atomic!Lead(p, t) = Lead(p, t)
  BY DEF Lead, Atomic!Lead
<1>4b. /\ \A p, r : Atomic!ValidTarget(p, r) <=> ValidTarget(p, r)
       /\ \A m, p : Atomic!To(m, p) = To(m, p)
       /\ \A p : Atomic!LeadsOf(p) = LeadsOf(p)
  BY <1>0, <1>3, <1>4, <1>4a DEF ValidTarget, Atomic!ValidTarget, To, Atomic!To, LeadsOf, Atomic!LeadsOf
<1>4c. /\ \A m, p, links : Atomic!Retarget(m, p, links) = Retarget(m, p, links)
       /\ \A m, p, links : Atomic!Pinned(m, p, links) = Pinned(m, p, links)
  BY <1>4, <1>4a, <1>4b DEF Retarget, Atomic!Retarget, Pinned, Atomic!Pinned
<1>5. \A m : Atomic!Relinked(m) = Relinked(m)
  BY <1>0, <1>3, <1>4, <1>4b DEF Relinked, Atomic!Relinked
<1>6. \A m, e : Atomic!CanMove(m, e) <=> CanMove(m, e)
  BY <1>0, <1>2, <1>3, <1>4, <1>5 DEF CanMove, Atomic!CanMove
<1>7. \A m, p : Atomic!MovedFile(m, p) = MovedFile(m, p)
  BY <1>0, <1>4c DEF MovedFile, Atomic!MovedFile
<1>8. \A m, p : Atomic!RelinkedFile(m, p) = RelinkedFile(m, p)
  BY <1>0, <1>4, <1>4c DEF RelinkedFile, Atomic!RelinkedFile
<1> QED BY <1>0, <1>1, <1>2, <1>5, <1>6, <1>7, <1>8

LEMMA PlannedStays ==
    ASSUME NEW d, Planned(d), Seen' = Seen
    PROVE  Planned(d)'
<1>1. \A p : Atomic!Versions(p)' = Atomic!Versions(p)
  BY DEF Atomic!Versions
<1>2. \A p : Atomic!ConceptVersion(p)' = Atomic!ConceptVersion(p)
  <2> SUFFICES ASSUME NEW p PROVE Atomic!ConceptVersion(p)' = Atomic!ConceptVersion(p)
    OBVIOUS
  <2>1. Atomic!Versions(p)' = Atomic!Versions(p)
    BY <1>1
  <2> QED BY <2>1 DEF Atomic!ConceptVersion
<1>3. \A p : (Atomic!Exists(p)' <=> Atomic!Exists(p)) /\ (Atomic!Parsed(p)' <=> Atomic!Parsed(p))
  BY DEF Atomic!Exists, Atomic!Parsed
<1>3a. /\ \A p : Atomic!LeadsOf(p)' = Atomic!LeadsOf(p)
       /\ \A p, r : Atomic!ValidTarget(p, r)' <=> Atomic!ValidTarget(p, r)
  BY <1>3 DEF Atomic!LeadsOf, Atomic!ValidTarget
<1>3b. \A m, p, links : Atomic!Pinned(m, p, links)' = Atomic!Pinned(m, p, links)
  BY <1>3a DEF Atomic!Pinned
<1>4. \A m : Atomic!Relinked(m)' = Atomic!Relinked(m)
  BY <1>3, <1>3a DEF Atomic!Relinked
<1>5. \A m, e : Atomic!CanMove(m, e)' <=> Atomic!CanMove(m, e)
  BY <1>2, <1>3, <1>4 DEF Atomic!CanMove
<1>6. \A m, p : Atomic!MovedFile(m, p)' = Atomic!MovedFile(m, p)
  BY <1>3b DEF Atomic!MovedFile
<1>7. \A m, p : Atomic!RelinkedFile(m, p)' = Atomic!RelinkedFile(m, p)
  BY DEF Atomic!RelinkedFile
<1> QED BY <1>1, <1>2, <1>4, <1>5, <1>6, <1>7 DEF Planned, Kept

LEMMA PlannedAtFirst ==
    ASSUME job = None, Disk, Settled(files, snaps, verDirs), NEW m \in Batches,
           CanMove(m, Unchecked(m)), NEW d, d = DesignOf(m)
    PROVE  Planned(d)
<1>1. /\ d.moves = m /\ d.old = Before
      /\ Others(d) = Relinked(m)
      /\ \A p \in Sources(m) : /\ d.now[m[p]] = MovedFile(m, p)
                               /\ d.num[m[p]] = ConceptVersion(p)
                               /\ Kept(d, p) = Versions(p)
      /\ \A q \in Relinked(m) : /\ d.now[q] = RelinkedFile(m, q)
                                /\ d.num[q] = ConceptVersion(q)
  BY DesignOfPlan
<1> QED BY <1>1, SeenNow DEF Planned

-----------------------------------------------------------------------------
(* The end of a move.                                                      *)

LEMMA ForwardEnd ==
    ASSUME NEW d, Design(d), Disk', Forward(d, {})'
    PROVE  /\ \A p \in Sources(d.moves) :
                 /\ files'[p] = None /\ files'[d.moves[p]] = d.now[d.moves[p]]
                 /\ snaps'[p] = NoHistory
                 /\ snaps'[d.moves[p]]
                      = [d.old.snaps[p] EXCEPT ![d.num[d.moves[p]]] = d.was[d.moves[p]]]
           /\ \A q \in Others(d) :
                 /\ files'[q] = d.now[q]
                 /\ snaps'[q] = [d.old.snaps[q] EXCEPT ![d.num[q]] = d.was[q]]
           /\ \A q \in Untouched(d) : files'[q] = d.old.files[q] /\ snaps'[q] = d.old.snaps[q]
           /\ verDirs' = Standing(WithDirs(d, d.written), Tried(d, {}), snaps')
           /\ \A x : x \in Tried(d, {}) <=>
                        \E p \in Sources(d.moves) : p \in d.old.verDirs /\ x \in {p} \union Above[p]
<1> DEFINE m == d.moves
<1>1. /\ \A p, n : ~CarryLeft(d, {}, p, n)
      /\ \A p : ~RenameLeft(d, {}, p) /\ ~TidyLeft({}, p)
      /\ \A q : ~SnapshotLeft(d, {}, q) /\ ~WriteLeft(d, {}, q)
  BY DEF CarryLeft, RenameLeft, TidyLeft, SnapshotLeft, WriteLeft
<1>2. /\ \A p \in Sources(m) : files'[p] = None /\ files'[m[p]] = d.now[m[p]]
      /\ \A q \in Others(d) : files'[q] = d.now[q]
      /\ \A q \in Untouched(d) : files'[q] = d.old.files[q]
  BY <1>1 DEF Forward, FilesForward
<1>3. /\ \A p \in Sources(m), n \in Version :
            /\ snaps'[p][n] = None
            /\ snaps'[m[p]][n] = IF n = d.num[m[p]] THEN d.was[m[p]] ELSE d.old.snaps[p][n]
      /\ \A q \in Others(d), n \in Version :
            snaps'[q][n] = IF n = d.num[q] THEN d.was[q] ELSE d.old.snaps[q][n]
      /\ \A q \in Untouched(d) : snaps'[q] = d.old.snaps[q]
  BY <1>1 DEF Forward, SnapsForward
<1>4. \A q \in Path : /\ snaps'[q] \in [Version -> Content]
                      /\ d.old.snaps[q] \in [Version -> Content]
  BY DEF Disk, Design
<1>5. ASSUME NEW p \in Sources(m) PROVE snaps'[p] = NoHistory
  <2>1. p \in Path
    BY DesignShape
  <2> QED BY <1>3, <1>4, <2>1 DEF NoHistory
<1>6. ASSUME NEW p \in Sources(m)
      PROVE  snaps'[m[p]] = [d.old.snaps[p] EXCEPT ![d.num[m[p]]] = d.was[m[p]]]
  <2>1. p \in Path /\ m[p] \in Path
    BY DesignShape
  <2> QED BY <1>3, <1>4, <2>1
<1>7. ASSUME NEW q \in Others(d)
      PROVE  snaps'[q] = [d.old.snaps[q] EXCEPT ![d.num[q]] = d.was[q]]
  <2>1. q \in Path
    BY DesignShape DEF Others
  <2> QED BY <1>3, <1>4, <2>1
<1>8. Made(d, {}) = d.written
  <2>1. Made(d, {}) \subseteq d.written
    BY DesignShape DEF Made, Carried
  <2> QED BY <1>1, <2>1 DEF Made
<1>9. verDirs' = Standing(WithDirs(d, d.written), Tried(d, {}), snaps')
  BY <1>8 DEF Forward, DirsForward
<1>10. \A x : x \in Tried(d, {}) <=>
                 \E p \in Sources(m) : p \in d.old.verDirs /\ x \in {p} \union Above[p]
  BY <1>1 DEF Tried
<1> QED BY <1>2, <1>3, <1>5, <1>6, <1>7, <1>9, <1>10

LEMMA SettledAfter ==
    ASSUME NEW d, Design(d), Disk', Forward(d, {})'
    PROVE  Settled(files', snaps', verDirs')
<1> DEFINE m == d.moves
<1>1. /\ \A p \in Sources(m) :
            /\ files'[p] = None /\ files'[m[p]] = d.now[m[p]]
            /\ snaps'[p] = NoHistory
            /\ snaps'[m[p]] = [d.old.snaps[p] EXCEPT ![d.num[m[p]]] = d.was[m[p]]]
      /\ \A q \in Others(d) :
            /\ files'[q] = d.now[q]
            /\ snaps'[q] = [d.old.snaps[q] EXCEPT ![d.num[q]] = d.was[q]]
      /\ \A q \in Untouched(d) : files'[q] = d.old.files[q] /\ snaps'[q] = d.old.snaps[q]
      /\ verDirs' = Standing(WithDirs(d, d.written), Tried(d, {}), snaps')
  BY ForwardEnd
<1>2. ASSUME NEW q \in Path, files'[q] = None PROVE snaps'[q] = NoHistory
  <2>1. CASE q \in Sources(m)
    BY <1>1, <2>1
  <2>2. CASE q \in Others(d)
    BY <1>1, <1>2, <2>2, DesignShape DEF Others
  <2>3. CASE q \in Untouched(d)
    BY <1>1, <1>2, <2>3 DEF Design, Settled
  <2>4. CASE \E p \in Sources(m) : q = m[p]
    <3>1. PICK p \in Sources(m) : q = m[p]
      BY <2>4
    <3>2. d.now[m[p]] # None
      BY DesignShape
    <3> QED BY <1>1, <1>2, <3>1, <3>2
  <2> QED BY <2>1, <2>2, <2>3, <2>4, DesignShape
<1>3. ASSUME NEW q \in Path, snaps'[q] # NoHistory, NEW x \in {q} \union Above[q]
      PROVE  x \in verDirs'
  <2>1. q \in WithDirs(d, d.written) /\ x \in WithDirs(d, d.written)
    <3>1. CASE q \in d.written
      BY <1>3, <3>1 DEF WithDirs
    <3>2. CASE q \in Sources(m)
      BY <1>1, <1>3, <3>2
    <3>3. CASE q \in Untouched(d)
      <4>1. {q} \union Above[q] \subseteq d.old.verDirs
        BY <1>1, <1>3, <3>3 DEF Design, Settled
      <4> QED BY <1>3, <4>1 DEF WithDirs
    <3> QED BY <3>1, <3>2, <3>3 DEF Untouched
  <2> QED BY <1>1, <1>3, <2>1 DEF Standing
<1> QED BY <1>2, <1>3 DEF Settled

\* Where the plan is carried out, the atomic move has happened.
LEMMA MoveDone ==
    ASSUME NEW d, Design(d), Planned(d), Disk', Forward(d, {})', job' = None
    PROVE  Atomic!MoveBatch(d.moves, Unchecked(d.moves))
<1> DEFINE m == d.moves
<1>1. Seen' = Before'
  BY DEF Seen
<1>2. Seen.files' = files' /\ Seen.snaps' = snaps' /\ Seen.verDirs' = verDirs'
  BY <1>1 DEF Before
<1>3. /\ Atomic!Sources(m) = Sources(m) /\ Atomic!Targets(m) = Targets(m)
      /\ Atomic!Relinked(m) = Others(d)
      /\ d.old = Seen
      /\ Atomic!CanMove(m, Unchecked(m))
  BY DEF Planned, Sources, Atomic!Sources, Targets, Atomic!Targets
<1>4. \A p \in Sources(m) : Atomic!Origin(m, m[p]) = p
  <2> SUFFICES ASSUME NEW p \in Sources(m) PROVE Atomic!Origin(m, m[p]) = p
    OBVIOUS
  <2>1. Atomic!Origin(m, m[p]) \in Sources(m) /\ m[Atomic!Origin(m, m[p])] = m[p]
    BY DEF Atomic!Origin, Sources
  <2> QED BY <2>1, DesignShape
<1>5. /\ \A p \in Sources(m) :
            /\ Atomic!MovedFile(m, p) = d.now[m[p]]
            /\ Atomic!Snapshotted(p) = [d.old.snaps[p] EXCEPT ![d.num[m[p]]] = d.was[m[p]]]
      /\ \A q \in Others(d) :
            /\ Atomic!RelinkedFile(m, q) = d.now[q]
            /\ Atomic!Snapshotted(q) = [d.old.snaps[q] EXCEPT ![d.num[q]] = d.was[q]]
  BY <1>3 DEF Planned, Design, Atomic!Snapshotted
<1>6. /\ \A p \in Sources(m) :
            /\ files'[p] = None /\ files'[m[p]] = d.now[m[p]]
            /\ snaps'[p] = NoHistory
            /\ snaps'[m[p]] = [d.old.snaps[p] EXCEPT ![d.num[m[p]]] = d.was[m[p]]]
      /\ \A q \in Others(d) :
            /\ files'[q] = d.now[q]
            /\ snaps'[q] = [d.old.snaps[q] EXCEPT ![d.num[q]] = d.was[q]]
      /\ \A q \in Untouched(d) : files'[q] = d.old.files[q] /\ snaps'[q] = d.old.snaps[q]
      /\ verDirs' = Standing(WithDirs(d, d.written), Tried(d, {}), snaps')
      /\ \A x : x \in Tried(d, {}) <=>
                   \E p \in Sources(m) : p \in d.old.verDirs /\ x \in {p} \union Above[p]
  BY ForwardEnd
<1>7. NoHistory = Atomic!NoHistory
  BY DEF NoHistory, Atomic!NoHistory, Version, Atomic!Version
<1>8. ASSUME NEW q \in Path
      PROVE  /\ files'[q] = Atomic!FilesAfter(m)[q]
             /\ snaps'[q] = Atomic!SnapsAfter(m)[q]
  <2>1. CASE \E p \in Sources(m) : q = m[p]
    <3>1. PICK p \in Sources(m) : q = m[p]
      BY <2>1
    <3>2. q \in Targets(m)
      BY <3>1, DesignShape
    <3> QED BY <1>3, <1>4, <1>5, <1>6, <3>1, <3>2 DEF Atomic!FilesAfter, Atomic!SnapsAfter
  <2>2. CASE q \in Sources(m)
    <3>1. q \notin Targets(m)
      BY <2>2, DesignShape
    <3> QED BY <1>3, <1>6, <1>7, <2>2, <3>1 DEF Atomic!FilesAfter, Atomic!SnapsAfter
  <2>3. CASE q \in Others(d)
    <3>1. q \notin Targets(m) /\ q \notin Sources(m)
      BY <2>3 DEF Others, Design
    <3> QED BY <1>3, <1>5, <1>6, <2>3, <3>1 DEF Atomic!FilesAfter, Atomic!SnapsAfter
  <2>4. CASE q \in Untouched(d)
    <3>1. q \notin Targets(m) /\ q \notin Sources(m) /\ q \notin Others(d)
      BY <2>4 DEF Others, Design, Untouched
    <3> QED BY <1>3, <1>6, <2>4, <3>1 DEF Atomic!FilesAfter, Atomic!SnapsAfter
  <2> QED BY <2>1, <2>2, <2>3, <2>4, DesignShape
<1>9. files' = Atomic!FilesAfter(m) /\ snaps' = Atomic!SnapsAfter(m)
  BY <1>8 DEF Disk, Atomic!FilesAfter, Atomic!SnapsAfter
<1>10. verDirs' = Atomic!DirsAfter(m)
  <2>1. Atomic!MakeDirs(Atomic!Targets(m) \union Atomic!Relinked(m)) = WithDirs(d, d.written)
    <3>1. Atomic!Targets(m) \union Atomic!Relinked(m) = d.written
      BY <1>3 DEF Others, Design
    <3> QED BY <1>3, <3>1 DEF Atomic!MakeDirs, WithDirs
  <2>2. PICK made : made = WithDirs(d, d.written)
    OBVIOUS
  <2>3. PICK tried : tried = Tried(d, {})
    OBVIOUS
  <2>4. PICK after : after = snaps'
    OBVIOUS
  <2>5. LET emptied == Atomic!Sources(m) \intersect Seen.verDirs
        IN  emptied \union UNION {Above[p] : p \in emptied} = tried
    BY <1>3, <1>6, <2>3
  <2>6. Atomic!DirsAfter(m)
          = {x \in made : \E e \in made : (e \notin tried \/ after[e] # NoHistory)
                                             /\ (e = x \/ x \in Above[e])}
    BY <1>7, <1>9, <2>1, <2>2, <2>4, <2>5 DEF Atomic!DirsAfter
  <2> QED BY <1>6, <2>2, <2>3, <2>4, <2>6 DEF Standing
<1> QED BY <1>2, <1>3, <1>9, <1>10 DEF Atomic!MoveBatch

LEMMA BackwardEnd ==
    ASSUME NEW d, Design(d), Disk', Backward(d, {})'
    PROVE  /\ files' = d.old.files /\ snaps' = d.old.snaps
           /\ \E made \in SUBSET d.written :
                 MayBeMade(d, made) /\ verDirs' = WithDirs(d, made)
<1> DEFINE m == d.moves
<1>1. /\ \A p, n : ~CarryBack(d, {}, p, n)
      /\ \A p : ~RenameBack(d, {}, p)
      /\ \A q : ~DiscardBack(d, {}, q) /\ ~WriteBack(d, {}, q)
  BY DEF CarryBack, RenameBack, DiscardBack, WriteBack
<1>2. /\ \A p \in Sources(m) : files'[p] = d.was[m[p]] /\ files'[m[p]] = None
      /\ \A q \in Others(d) : files'[q] = d.was[q]
      /\ \A q \in Untouched(d) : files'[q] = d.old.files[q]
  BY <1>1 DEF Backward, FilesBack
<1>3. /\ \A p \in Sources(m), n \in Version :
            /\ snaps'[p][n] = d.old.snaps[p][n]
            /\ n # d.num[m[p]] => snaps'[m[p]][n] = None
      /\ \A p \in Sources(m) : snaps'[m[p]][d.num[m[p]]] = None
      /\ \A q \in Others(d), n \in Version : snaps'[q][n] = d.old.snaps[q][n]
      /\ \A q \in Untouched(d) : snaps'[q] = d.old.snaps[q]
  BY <1>1 DEF Backward, SnapsBack
<1>4. \A q \in Path : /\ snaps'[q] \in [Version -> Content]
                      /\ d.old.snaps[q] \in [Version -> Content]
  BY DEF Disk, Design
<1>5. ASSUME NEW q \in Path PROVE files'[q] = d.old.files[q] /\ snaps'[q] = d.old.snaps[q]
  <2>1. CASE \E p \in Sources(m) : q = m[p]
    <3>1. PICK p \in Sources(m) : q = m[p]
      BY <2>1
    <3>2. d.old.snaps[q] = NoHistory /\ d.old.files[q] = None
      BY <3>1, DesignShape DEF Design
    <3>3. \A n \in Version : snaps'[q][n] = None
      BY <1>3, <3>1
    <3>4. snaps'[q] = NoHistory
      BY <1>4, <3>3 DEF NoHistory
    <3> QED BY <1>2, <3>1, <3>2, <3>4
  <2>2. CASE q \in Sources(m)
    <3>1. d.old.files[q] = d.was[m[q]]
      BY <2>2 DEF Design
    <3>2. snaps'[q] = d.old.snaps[q]
      BY <1>3, <1>4, <2>2
    <3> QED BY <1>2, <2>2, <3>1, <3>2
  <2>3. CASE q \in Others(d)
    <3>1. d.old.files[q] = d.was[q]
      BY <2>3 DEF Design
    <3>2. snaps'[q] = d.old.snaps[q]
      BY <1>3, <1>4, <2>3
    <3> QED BY <1>2, <2>3, <3>1, <3>2
  <2>4. CASE q \in Untouched(d)
    BY <1>2, <1>3, <2>4
  <2> QED BY <2>1, <2>2, <2>3, <2>4, DesignShape
<1>6. files' = d.old.files /\ snaps' = d.old.snaps
  BY <1>5 DEF Disk, Design
<1> QED BY <1>6 DEF Backward, DirsBack

\* Where everything is taken back, the atomic move has failed.
LEMMA UndoDone ==
    ASSUME NEW d, Design(d), Planned(d), Disk', Backward(d, {})', job' = None, DiskFaults
    PROVE  Atomic!MoveFails(d.moves, Unchecked(d.moves)) /\ Settled(files', snaps', verDirs')
<1> DEFINE m == d.moves
<1>1. /\ Seen.files' = files' /\ Seen.snaps' = snaps' /\ Seen.verDirs' = verDirs'
  BY DEF Seen, Before
<1>2. /\ Atomic!Sources(m) = Sources(m) /\ Atomic!Targets(m) = Targets(m)
      /\ Atomic!Relinked(m) = Others(d)
      /\ d.old = Seen
      /\ Atomic!CanMove(m, Unchecked(m))
      /\ \A p \in Sources(m) : Atomic!Versions(p) = Kept(d, p)
  BY DEF Planned, Sources, Atomic!Sources, Targets, Atomic!Targets
<1>3. /\ files' = d.old.files /\ snaps' = d.old.snaps
      /\ \E made \in SUBSET d.written : MayBeMade(d, made) /\ verDirs' = WithDirs(d, made)
  BY BackwardEnd
<1>4. PICK made \in SUBSET d.written : MayBeMade(d, made) /\ verDirs' = WithDirs(d, made)
  BY <1>3
<1>5. verDirs' = Atomic!MakeDirs(made)
  BY <1>2, <1>4 DEF WithDirs, Atomic!MakeDirs
<1>6. d.written = Atomic!Targets(m) \union Atomic!Relinked(m)
  BY <1>2 DEF Others, Design
<1>7. {m[p] : p \in {q \in Atomic!Sources(m) : Atomic!Versions(q) # {}}} = Carrying(d)
  BY <1>2 DEF Carrying
<1>8. Atomic!MoveFails(m, Unchecked(m))
  BY <1>1, <1>2, <1>3, <1>4, <1>5, <1>6, <1>7 DEF Atomic!MoveFails, MayBeMade
<1>9. Settled(files', snaps', verDirs')
  BY <1>3, <1>4 DEF Design, Settled, WithDirs
<1> QED BY <1>8, <1>9

-----------------------------------------------------------------------------
(* Nothing is lost on the way.                                             *)

LEMMA HeldOnDisk ==
    /\ \A p \in Path : files[p] \in OnDisk
    /\ \A p \in Path, v \in Version : snaps[p][v] \in OnDisk
BY DEF OnDisk

\* What was there before the move.
AllHeld(d) ==
    /\ \A p \in Path : d.old.files[p] \in OnDisk \union {None}
    /\ \A p \in Path, v \in Version : d.old.snaps[p][v] \in OnDisk \union {None}

LEMMA HeldForward ==
    ASSUME NEW d, NEW P, Design(d), Forward(d, P)
    PROVE  AllHeld(d)
<1> DEFINE m == d.moves
<1>1. ASSUME NEW q \in d.written, ~WriteLeft(d, P, q) PROVE snaps[q][d.num[q]] = d.was[q]
  <2>1. ~SnapshotLeft(d, P, q)
    BY <1>1 DEF Forward, Ordered
  <2> QED BY <2>1, DesignShape DEF Forward, SnapsForward
<1>2. ASSUME NEW q \in Path PROVE d.old.files[q] \in OnDisk \union {None}
  <2>1. CASE \E p \in Sources(m) : q = m[p]
    BY <2>1 DEF Design
  <2>2. CASE q \in Sources(m)
    <3>1. d.old.files[q] = d.was[m[q]] /\ m[q] \in d.written
      BY <2>2, DesignShape DEF Design
    <3>2. m[q] \in Path /\ d.num[m[q]] \in Version
      BY <2>2, DesignShape
    <3>3. CASE RenameLeft(d, P, q)
      BY <2>2, <3>1, <3>3, HeldOnDisk DEF Forward, FilesForward
    <3>4. CASE ~RenameLeft(d, P, q) /\ WriteLeft(d, P, m[q])
      <4>1. files[m[q]] = d.was[m[q]]
        BY <2>2, <3>4 DEF Forward, FilesForward
      <4> QED BY <3>1, <3>2, <4>1, HeldOnDisk
    <3>5. CASE ~WriteLeft(d, P, m[q])
      BY <1>1, <3>1, <3>2, <3>5, HeldOnDisk
    <3> QED BY <3>3, <3>4, <3>5
  <2>3. CASE q \in Others(d)
    <3>1. d.old.files[q] = d.was[q] /\ q \in d.written /\ d.num[q] \in Version
      BY <2>3, DesignShape DEF Design, Others
    <3>2. CASE WriteLeft(d, P, q)
      BY <2>3, <3>1, <3>2, HeldOnDisk DEF Forward, FilesForward
    <3>3. CASE ~WriteLeft(d, P, q)
      BY <1>1, <3>1, <3>3, HeldOnDisk
    <3> QED BY <3>2, <3>3
  <2>4. CASE q \in Untouched(d)
    BY <2>4, HeldOnDisk DEF Forward, FilesForward
  <2> QED BY <2>1, <2>2, <2>3, <2>4, DesignShape
<1>3. ASSUME NEW q \in Path, NEW n \in Version
      PROVE  d.old.snaps[q][n] \in OnDisk \union {None}
  <2>1. CASE \E p \in Sources(m) : q = m[p]
    <3>1. d.old.snaps[q] = NoHistory
      BY <2>1, DesignShape
    <3> QED BY <3>1 DEF NoHistory
  <2>2. CASE q \in Sources(m)
    <3>1. m[q] \in Path /\ (n = d.num[m[q]] => d.old.snaps[q][n] = None)
      BY <2>2, DesignShape DEF Design
    <3>2. CASE CarryLeft(d, P, q, n)
      <4>1. snaps[q][n] = d.old.snaps[q][n]
        BY <2>2, <3>2 DEF Forward, SnapsForward
      <4> QED BY <4>1, HeldOnDisk
    <3>3. CASE ~CarryLeft(d, P, q, n) /\ n # d.num[m[q]]
      <4>1. snaps[m[q]][n] = d.old.snaps[q][n]
        BY <2>2, <3>3 DEF Forward, SnapsForward
      <4> QED BY <3>1, <4>1, HeldOnDisk
    <3> QED BY <3>1, <3>2, <3>3
  <2>3. CASE q \in Others(d)
    <3>1. CASE n = d.num[q]
      BY <2>3, <3>1 DEF Design
    <3>2. CASE n # d.num[q]
      <4>1. snaps[q][n] = d.old.snaps[q][n]
        BY <2>3, <3>2 DEF Forward, SnapsForward
      <4> QED BY <4>1, HeldOnDisk
    <3> QED BY <3>1, <3>2
  <2>4. CASE q \in Untouched(d)
    <3>1. snaps[q] = d.old.snaps[q]
      BY <2>4 DEF Forward, SnapsForward
    <3> QED BY <3>1, HeldOnDisk
  <2> QED BY <2>1, <2>2, <2>3, <2>4, DesignShape
<1> QED BY <1>2, <1>3 DEF AllHeld

LEMMA HeldBackward ==
    ASSUME NEW d, NEW P, Design(d), Backward(d, P)
    PROVE  AllHeld(d)
<1> DEFINE m == d.moves
<1>1. ASSUME NEW q \in d.written, WriteBack(d, P, q)
      PROVE  files[q] = d.was[q] \/ snaps[q][d.num[q]] = d.was[q]
  BY <1>1 DEF Backward, CopyKept
<1>2. ASSUME NEW q \in Path PROVE d.old.files[q] \in OnDisk \union {None}
  <2>1. CASE \E p \in Sources(m) : q = m[p]
    BY <2>1 DEF Design
  <2>2. CASE q \in Sources(m)
    <3>1. d.old.files[q] = d.was[m[q]] /\ m[q] \in d.written
      BY <2>2, DesignShape DEF Design
    <3>2. m[q] \in Path /\ d.num[m[q]] \in Version
      BY <2>2, DesignShape
    <3>3. CASE ~RenameBack(d, P, q)
      BY <2>2, <3>1, <3>3, HeldOnDisk DEF Backward, FilesBack
    <3>4. CASE RenameBack(d, P, q) /\ ~WriteBack(d, P, m[q])
      <4>1. files[m[q]] = d.was[m[q]]
        BY <2>2, <3>4 DEF Backward, FilesBack
      <4> QED BY <3>1, <3>2, <4>1, HeldOnDisk
    <3>5. CASE WriteBack(d, P, m[q])
      BY <1>1, <3>1, <3>2, <3>5, HeldOnDisk
    <3> QED BY <3>3, <3>4, <3>5
  <2>3. CASE q \in Others(d)
    <3>1. d.old.files[q] = d.was[q] /\ q \in d.written /\ d.num[q] \in Version
      BY <2>3, DesignShape DEF Design, Others
    <3>2. CASE ~WriteBack(d, P, q)
      BY <2>3, <3>1, <3>2, HeldOnDisk DEF Backward, FilesBack
    <3>3. CASE WriteBack(d, P, q)
      BY <1>1, <3>1, <3>3, HeldOnDisk
    <3> QED BY <3>2, <3>3
  <2>4. CASE q \in Untouched(d)
    BY <2>4, HeldOnDisk DEF Backward, FilesBack
  <2> QED BY <2>1, <2>2, <2>3, <2>4, DesignShape
<1>3. ASSUME NEW q \in Path, NEW n \in Version
      PROVE  d.old.snaps[q][n] \in OnDisk \union {None}
  <2>1. CASE \E p \in Sources(m) : q = m[p]
    <3>1. d.old.snaps[q] = NoHistory
      BY <2>1, DesignShape
    <3> QED BY <3>1 DEF NoHistory
  <2>2. CASE q \in Sources(m)
    <3>1. m[q] \in Path
      BY <2>2, DesignShape
    <3>2. CASE CarryBack(d, P, q, n)
      <4>1. snaps[m[q]][n] = d.old.snaps[q][n]
        BY <2>2, <3>2 DEF Backward, SnapsBack
      <4> QED BY <3>1, <4>1, HeldOnDisk
    <3>3. CASE ~CarryBack(d, P, q, n)
      <4>1. snaps[q][n] = d.old.snaps[q][n]
        BY <2>2, <3>3 DEF Backward, SnapsBack
      <4> QED BY <4>1, HeldOnDisk
    <3> QED BY <3>2, <3>3
  <2>3. CASE q \in Others(d)
    <3>1. CASE n = d.num[q]
      BY <2>3, <3>1 DEF Design
    <3>2. CASE n # d.num[q]
      <4>1. snaps[q][n] = d.old.snaps[q][n]
        BY <2>3, <3>2 DEF Backward, SnapsBack
      <4> QED BY <4>1, HeldOnDisk
    <3> QED BY <3>1, <3>2
  <2>4. CASE q \in Untouched(d)
    <3>1. snaps[q] = d.old.snaps[q]
      BY <2>4 DEF Backward, SnapsBack
    <3> QED BY <3>1, HeldOnDisk
  <2> QED BY <2>1, <2>2, <2>3, <2>4, DesignShape
<1> QED BY <1>2, <1>3 DEF AllHeld

-----------------------------------------------------------------------------
(* Between moves.                                                          *)

LEMMA SeenWrites ==
    ASSUME job = None
    PROVE  /\ \A i, p, links : Atomic!CanCreate(i, p, links) <=> CanCreate(i, p, links)
           /\ \A i, p, links : Atomic!Fresh(i, p, links) = Fresh(i, p, links)
           /\ \A p, links, e : Atomic!CanUpdate(p, links, e) <=> CanUpdate(p, links, e)
           /\ \A p, links, aliases : Atomic!Edited(p, links, aliases) = Edited(p, links, aliases)
           /\ \A p : Atomic!Snapshotted(p) = Snapshotted(p)
           /\ \A dirs : Atomic!MakeDirs(dirs) = MakeDirs(dirs)
           /\ \A p : Atomic!Authored(p) = Authored(p)
<1>0. Seen.files = files /\ Seen.snaps = snaps /\ Seen.verDirs = verDirs
  BY DEF Seen, Before
<1>1. \A p : (Atomic!Exists(p) <=> Exists(p)) /\ (Atomic!Parsed(p) <=> Parsed(p))
  BY <1>0 DEF Exists, Atomic!Exists, Parsed, Atomic!Parsed
<1>2. \A a : Atomic!Holders(a) = Holders(a)
  BY <1>0, <1>1 DEF Holders, Atomic!Holders
<1>3. \A a : Atomic!AliasHolder(a) = AliasHolder(a)
  <2> SUFFICES ASSUME NEW a PROVE Atomic!AliasHolder(a) = AliasHolder(a)
    OBVIOUS
  <2>1. Atomic!Holders(a) = Holders(a)
    BY <1>2
  <2> QED BY <2>1 DEF AliasHolder, Atomic!AliasHolder
<1>4. /\ \A p, t : Atomic!Lead(p, t) = Lead(p, t)
      /\ \A p, r : Atomic!ValidTarget(p, r) <=> ValidTarget(p, r)
  BY <1>1 DEF Lead, Atomic!Lead, ValidTarget, Atomic!ValidTarget
<1>5. /\ \A p, links : Atomic!Normalized(p, links) = Normalized(p, links)
      /\ \A p, links : Atomic!BrokenLinks(p, links) = BrokenLinks(p, links)
      /\ \A p : Atomic!LeadsOf(p) = LeadsOf(p)
  BY <1>0, <1>2, <1>3, <1>4 DEF Normalized, Atomic!Normalized, BrokenLinks, Atomic!BrokenLinks,
     LeadsOf, Atomic!LeadsOf
<1>6. \A p, prev, links : Atomic!LinksAccepted(p, prev, links) <=> LinksAccepted(p, prev, links)
  BY <1>4, <1>5 DEF LinksAccepted, Atomic!LinksAccepted
<1>7. Atomic!UsedIds = UsedIds
  BY <1>0, <1>1 DEF UsedIds, Atomic!UsedIds
<1>8. \A p : Atomic!PrevLinks(p) = PrevLinks(p)
  BY <1>1, <1>5 DEF PrevLinks, Atomic!PrevLinks
<1>9. \A p : Atomic!ConceptVersion(p) = ConceptVersion(p)
  BY SeenNow
<1>10. \A i, p, links : Atomic!CanCreate(i, p, links) <=> CanCreate(i, p, links)
  BY <1>1, <1>6, <1>7 DEF CanCreate, Atomic!CanCreate
<1>11. \A i, p, links : Atomic!Fresh(i, p, links) = Fresh(i, p, links)
  BY <1>5 DEF Fresh, Atomic!Fresh
<1>12. \A p, links, e : Atomic!CanUpdate(p, links, e) <=> CanUpdate(p, links, e)
  BY <1>1, <1>6, <1>8, <1>9 DEF CanUpdate, Atomic!CanUpdate
<1>13. \A p, links, aliases : Atomic!Edited(p, links, aliases) = Edited(p, links, aliases)
  BY <1>0, <1>5 DEF Edited, Atomic!Edited
<1>14. \A p : Atomic!Snapshotted(p) = Snapshotted(p)
  BY <1>0, <1>9 DEF Snapshotted, Atomic!Snapshotted
<1>15. \A dirs : Atomic!MakeDirs(dirs) = MakeDirs(dirs)
  BY <1>0 DEF MakeDirs, Atomic!MakeDirs
<1>16. \A p : Atomic!Authored(p) = Authored(p)
  BY <1>0, <1>1 DEF Authored, Atomic!Authored
<1> QED BY <1>10, <1>11, <1>12, <1>13, <1>14, <1>15, <1>16

LEMMA CreateBetween ==
    ASSUME Disk, Settled(files, snaps, verDirs), job = None, job' = None,
           NEW i \in Id, NEW p \in Path, NEW links \in LinkSets, Create(i, p, links)
    PROVE  Disk' /\ Settled(files', snaps', verDirs') /\ Atomic!Create(i, p, links)
<1>1. /\ CanCreate(i, p, links) /\ files' = [files EXCEPT ![p] = Fresh(i, p, links)]
      /\ snaps' = snaps /\ verDirs' = verDirs
  BY DEF Create
<1>2. Fresh(i, p, links) \in File
  BY FreshType, AuthorAssumption
<1>3. Disk'
  BY <1>1, <1>2 DEF Disk, Content
<1>4. Settled(files', snaps', verDirs')
  BY <1>1, <1>2, NoneAssumption DEF Settled, Disk
<1>5. /\ Seen.files = files /\ Seen.snaps = snaps /\ Seen.verDirs = verDirs
      /\ Seen.files' = files' /\ Seen.snaps' = snaps' /\ Seen.verDirs' = verDirs'
  BY DEF Seen, Before
<1>6. Atomic!CanCreate(i, p, links) /\ Atomic!Fresh(i, p, links) = Fresh(i, p, links)
  BY <1>1, SeenWrites
<1> QED BY <1>1, <1>3, <1>4, <1>5, <1>6 DEF Atomic!Create

LEMMA UpdateBetween ==
    ASSUME Disk, Settled(files, snaps, verDirs), job = None, job' = None,
           NEW p \in Path, NEW links \in LinkSets, NEW aliases \in Authored(p),
           Update(p, links, aliases, 0)
    PROVE  /\ Disk' /\ Settled(files', snaps', verDirs')
           /\ aliases \in Atomic!Authored(p) /\ Atomic!Update(p, links, aliases, 0)
<1>1. /\ CanUpdate(p, links, 0)
      /\ files' = [files EXCEPT ![p] = Edited(p, links, aliases)]
      /\ snaps' = [snaps EXCEPT ![p] = Snapshotted(p)]
      /\ verDirs' = MakeDirs({p})
  BY DEF Update
<1>2. files[p] # None /\ files[p] \in File
  BY <1>1 DEF CanUpdate, Exists, Disk, Content
<1>3. Edited(p, links, aliases) \in File
  <2>1. aliases \in SUBSET Path
    BY <1>2, AuthorAssumption DEF Authored, File
  <2>2. Normalized(p, links) \in SUBSET Target
    BY NormalizedType, AuthorAssumption
  <2> QED BY <1>2, <2>1, <2>2 DEF Edited, File
<1>4. Snapshotted(p) \in [Version -> Content]
  BY <1>2 DEF Disk, Content, Snapshotted
<1>5. Disk'
  <2>1. verDirs' \subseteq Path
    BY <1>1, DirsTyped
  <2> QED BY <1>1, <1>3, <1>4, <2>1 DEF Disk, Content
<1>6. Settled(files', snaps', verDirs')
  <2>1. ASSUME NEW q \in Path, files'[q] = None PROVE snaps'[q] = NoHistory
    <3>1. q # p
      BY <1>1, <1>3, <2>1, NoneAssumption DEF Disk
    <3> QED BY <1>1, <2>1, <3>1 DEF Settled, Disk
  <2>2. ASSUME NEW q \in Path, snaps'[q] # NoHistory PROVE {q} \union Above[q] \subseteq verDirs'
    <3>1. CASE q = p
      BY <1>1, <3>1 DEF MakeDirs
    <3>2. CASE q # p
      <4>1. snaps'[q] = snaps[q]
        BY <1>1, <3>2 DEF Disk
      <4> QED BY <1>1, <2>2, <4>1 DEF Settled, MakeDirs
    <3> QED BY <3>1, <3>2
  <2> QED BY <2>1, <2>2 DEF Settled
<1>7. /\ Seen.files = files /\ Seen.snaps = snaps /\ Seen.verDirs = verDirs
      /\ Seen.files' = files' /\ Seen.snaps' = snaps' /\ Seen.verDirs' = verDirs'
  BY DEF Seen, Before
<1>8. /\ Atomic!CanUpdate(p, links, 0)
      /\ Atomic!Edited(p, links, aliases) = Edited(p, links, aliases)
      /\ Atomic!Snapshotted(p) = Snapshotted(p)
      /\ Atomic!MakeDirs({p}) = MakeDirs({p})
      /\ aliases \in Atomic!Authored(p)
  BY <1>1, SeenWrites
<1> QED BY <1>1, <1>5, <1>6, <1>7, <1>8 DEF Atomic!Update

-----------------------------------------------------------------------------
(* The invariant: a move in progress has a design, what is ahead of it is  *)
(* some of its tasks in order, and the disk is what the tasks done so far  *)
(* make of the bundle there was before.                                    *)

\* s is still to be done; r and b would undo what is done.
Going(d, s, r, b) ==
    /\ s \in Seq(Op) /\ s # << >> /\ Sorted(s, InOrder(d))
    /\ Members(s) \subseteq Tasks(d)
    /\ Forward(d, Members(s))
    /\ RestoresOf(d, Members(s), r)
    /\ RenamesBack(d, Members(s), b)

\* s is still to be undone.
Returning(d, s) ==
    /\ DiskFaults
    /\ s \in Seq(Op) /\ s # << >> /\ Sorted(s, UndoOrder)
    /\ Members(s) \subseteq UndoTasks(d)
    /\ Backward(d, Members(s))

Underway(d, s, r, b) ==
    /\ Design(d) /\ Planned(d)
    /\ s = job.ahead /\ r = job.restores /\ b = job.renamed
    /\ ~job.undoing => Going(d, s, r, b)
    /\ job.undoing => Returning(d, s)

MoveInv ==
    /\ Disk
    /\ job = None => Settled(files, snaps, verDirs)
    /\ job # None => job \in Job /\ \E d, s, r, b : Underway(d, s, r, b)

LEMMA MoveStarts == MoveInit => MoveInv
BY SeedAssumption DEF MoveInit, Init, MoveInv, Disk, Content, Settled, NoHistory

\* A move that ends leaves the bundle as the atomic move does.
LEMMA AtRest ==
    ASSUME Disk', Settled(files', snaps', verDirs'), job' = None
    PROVE  MoveInv'
BY DEF MoveInv

LEMMA StillGoing ==
    ASSUME Disk', job' \in Job, NEW d, NEW s, NEW r, NEW b,
           Design(d), Planned(d), Seen' = Seen,
           job'.ahead = s, job'.restores = r, job'.renamed = b,
           job'.undoing = FALSE, Going(d, s, r, b)'
    PROVE  MoveInv'
<1>1. job' # None
  BY JobAssumption
<1>2. Planned(d)' /\ Design(d)'
  BY PlannedStays
<1>3. Underway(d, s, r, b)'
  BY <1>2 DEF Underway
<1> QED BY <1>1, <1>3 DEF MoveInv

LEMMA StillReturning ==
    ASSUME Disk', job' \in Job, NEW d, NEW s, NEW r, NEW b,
           Design(d), Planned(d), Seen' = Seen,
           job'.ahead = s, job'.restores = r, job'.renamed = b,
           job'.undoing = TRUE, Returning(d, s)'
    PROVE  MoveInv'
<1>1. job' # None
  BY JobAssumption
<1>2. Planned(d)' /\ Design(d)'
  BY PlannedStays
<1>3. Underway(d, s, r, b)'
  BY <1>2 DEF Underway
<1> QED BY <1>1, <1>3 DEF MoveInv

LEMMA UndoTyped ==
    ASSUME NEW op \in Op
    PROVE  Restore(op) \in Seq(Op) /\ Reverse(op) \in Seq(Op)
<1>1. op.path \in Path /\ op.to \in Path /\ op.data \in Content /\ op.n \in Nat
  BY DEF Op
<1>2. Restore(op) \in Seq(Op)
  <2>1. Write(op.path, op.data) \in Op /\ Discard(op.path, op.n) \in Op
    BY <1>1, OpTypes
  <2> QED BY <2>1 DEF Restore
<1>3. Reverse(op) \in Seq(Op)
  <2>1. Carry(op.to, op.path, op.n) \in Op /\ Rename(op.to, op.path) \in Op
    BY <1>1, OpTypes
  <2>2. CASE op.do = "carry"
    BY <2>1, <2>2 DEF Reverse
  <2>3. CASE op.do = "rename"
    BY <2>1, <2>3 DEF Reverse
  <2>4. CASE op.do \notin {"carry", "rename"}
    <3>1. Reverse(op) = << >>
      BY <2>4, Reversed
    <3> QED BY <3>1
  <2> QED BY <2>2, <2>3, <2>4
<1> QED BY <1>2, <1>3

\* Begin: the plan is all there is to do, and nothing there is to undo.
LEMMA BeginKeepsInv ==
    ASSUME MoveInv, NEW m \in Batches, NEW items \in Orders(Sources(m)),
           Begin(m, items, Unchecked(m))
    PROVE  MoveInv' /\ Seen' = Seen
<1>1. /\ job = None /\ CanMove(m, Unchecked(m))
      /\ files' = files /\ snaps' = snaps /\ verDirs' = verDirs
  BY DEF Begin
<1>2. Disk /\ Settled(files, snaps, verDirs)
  BY <1>1 DEF MoveInv
<1>3. PICK d : d = DesignOf(m)
  OBVIOUS
<1>4. PICK s : s = Renames(m, items) \o Writes(m, items) \o Cleanup(items)
  OBVIOUS
<1>5. Design(d) /\ d.old = Before
  BY <1>1, <1>2, <1>3, DesignOfPlan
<1>6. Planned(d)
  BY <1>1, <1>2, <1>3, PlannedAtFirst
<1>7. s \in Seq(Op) /\ Sorted(s, InOrder(d)) /\ Members(s) = Tasks(d) /\ s # << >>
  BY <1>1, <1>2, <1>3, <1>4, PlanListed
<1>8. job' = [ahead |-> s, restores |-> << >>, renamed |-> << >>, undoing |-> FALSE,
              before |-> Before]
  BY <1>4 DEF Begin, Before
<1>9. job' \in Job
  BY <1>2, <1>7, <1>8 DEF Job, Before, Disk
<1>10. Seen' = Seen
  BY <1>1, <1>8, <1>9, JobAssumption DEF Seen, Before
<1>11. Forward(d, Tasks(d))
  BY <1>2, <1>5, ForwardAtFirst
<1>12. Forward(d, Members(s))'
  <2>1. PICK P : P = Tasks(d)
    OBVIOUS
  <2>2. Forward(d, P)'
    BY <1>1, <1>11, <2>1 DEF Forward, FilesForward, SnapsForward, DirsForward
  <2> QED BY <1>7, <2>1, <2>2
<1>13. RestoresOf(d, Members(s), << >>) /\ RenamesBack(d, Members(s), << >>)
  BY <1>7, NothingToUndo
<1>14. Going(d, s, << >>, << >>)'
  BY <1>7, <1>12, <1>13 DEF Going
<1>15. Disk'
  BY <1>1, <1>2 DEF Disk
<1>16. /\ job'.ahead = s /\ job'.restores = << >> /\ job'.renamed = << >>
       /\ job'.undoing = FALSE
  BY <1>8
<1>17. MoveInv'
  BY ONLY <1>5, <1>6, <1>9, <1>10, <1>14, <1>15, <1>16, StillGoing
<1> QED BY <1>10, <1>17

\* Step, on the way to the new paths.
LEMMA StepForward ==
    ASSUME MoveInv, Step, ~job.undoing
    PROVE  /\ MoveInv'
           /\ Seen' = Seen \/ \E m \in Batches : Atomic!MoveBatch(m, Unchecked(m))
<1>1. job # None /\ job \in Job /\ Disk
  BY DEF Step, MoveInv
<1>2. PICK d, s, r, b : Underway(d, s, r, b)
  BY <1>1 DEF MoveInv
<1>3. /\ Design(d) /\ Planned(d) /\ Going(d, s, r, b)
      /\ job.ahead = s /\ job.restores = r /\ job.renamed = b
  BY <1>2 DEF Underway
<1>4. PICK P : P = Members(s)
  OBVIOUS
<1>5. PICK op : op = Head(s)
  OBVIOUS
<1>6. PICK Q : Q = P \ {op}
  OBVIOUS
<1>7. /\ s \in Seq(Op) /\ s # << >> /\ Sorted(s, InOrder(d)) /\ P \subseteq Tasks(d)
      /\ Forward(d, P) /\ RestoresOf(d, P, r) /\ RenamesBack(d, P, b)
  BY <1>3, <1>4 DEF Going
<1>8. /\ op \in Op /\ op \in P
      /\ Tail(s) \in Seq(Op) /\ Sorted(Tail(s), InOrder(d)) /\ Members(Tail(s)) = Q
      /\ \A a \in P : <<a, op>> \notin InOrder(d) \/ a = op
      /\ Len(s) = 1 <=> Tail(s) = << >>
      /\ Len(s) = 1 => Q = {}
  BY ONLY <1>4, <1>5, <1>6, <1>7, TailOf
<1>9. \A a \in P : a = op \/ ~Earlier(d, a, op)
  BY <1>3, <1>7, <1>8, TaskTypes, OrderOf
<1>10. files' = Files(op) /\ snaps' = Snaps(op) /\ verDirs' = Dirs(op)
  BY <1>3, <1>5 DEF Step
<1>11. Disk'
  BY <1>1, <1>8, <1>10, OpsKeepDisk
<1>12. Forward(d, Q)'
  BY ONLY <1>1, <1>3, <1>6, <1>7, <1>8, <1>9, <1>10, ForwardStep
<1>13. CASE Len(s) = 1
  <2>1. job' = None
    BY <1>3, <1>13 DEF Step
  <2>2. Forward(d, {})'
    BY <1>8, <1>12, <1>13
  <2>3. Atomic!MoveBatch(d.moves, Unchecked(d.moves))
    BY <1>3, <1>11, <2>1, <2>2, MoveDone
  <2>4. MoveInv'
    BY <1>3, <1>11, <2>1, <2>2, SettledAfter, AtRest
  <2>5. d.moves \in Batches
    BY <1>3 DEF Design
  <2> QED BY <2>3, <2>4, <2>5
<1>14. CASE Len(s) # 1
  <2>1. PICK s1 : s1 = Tail(s)
    OBVIOUS
  <2>2. PICK r1 : r1 = r \o Restore(op)
    OBVIOUS
  <2>3. PICK b1 : b1 = Reverse(op) \o b
    OBVIOUS
  <2>4. job' = [job EXCEPT !.ahead = s1, !.restores = r1, !.renamed = b1]
    BY <1>3, <1>5, <1>14, <2>1, <2>2, <2>3 DEF Step
  <2>5. RestoresOf(d, Q, r1)
    BY ONLY <1>3, <1>6, <1>7, <1>8, <2>2, RestoresGrow
  <2>6. RenamesBack(d, Q, b1)
    BY ONLY <1>3, <1>6, <1>7, <1>8, <2>3, RenamesGrow
  <2>7. s1 \in Seq(Op) /\ r1 \in Seq(Op) /\ b1 \in Seq(Op)
    BY <1>8, <2>1, <2>5, <2>6 DEF RestoresOf, RenamesBack
  <2>8. /\ job' \in Job /\ job'.before = job.before /\ job'.undoing = FALSE
        /\ job'.ahead = s1 /\ job'.restores = r1 /\ job'.renamed = b1
    BY <1>1, <2>4, <2>7 DEF Job
  <2>9. Seen' = Seen
    BY <1>1, <2>8, JobAssumption DEF Seen
  <2>10. Members(s1) = Q /\ Q \subseteq Tasks(d) /\ s1 # << >>
    BY <1>6, <1>7, <1>8, <1>14, <2>1
  <2>11. Going(d, s1, r1, b1)'
    BY <1>8, <1>12, <2>1, <2>5, <2>6, <2>7, <2>10 DEF Going
  <2>12. MoveInv'
    BY ONLY <1>3, <1>11, <2>8, <2>9, <2>11, StillGoing
  <2> QED BY <2>9, <2>12
<1> QED BY <1>13, <1>14

\* Step, on the way back.
LEMMA StepBack ==
    ASSUME MoveInv, Step, job.undoing
    PROVE  /\ MoveInv'
           /\ Seen' = Seen \/ \E m \in Batches : Atomic!MoveFails(m, Unchecked(m))
<1>1. job # None /\ job \in Job /\ Disk
  BY DEF Step, MoveInv
<1>2. PICK d, s, r, b : Underway(d, s, r, b)
  BY <1>1 DEF MoveInv
<1>3. /\ Design(d) /\ Planned(d) /\ Returning(d, s)
      /\ job.ahead = s /\ job.restores = r /\ job.renamed = b
  BY <1>2 DEF Underway
<1>4. PICK P : P = Members(s)
  OBVIOUS
<1>5. PICK op : op = Head(s)
  OBVIOUS
<1>6. PICK Q : Q = P \ {op}
  OBVIOUS
<1>7. /\ s \in Seq(Op) /\ s # << >> /\ Sorted(s, UndoOrder) /\ P \subseteq UndoTasks(d)
      /\ Backward(d, P) /\ DiskFaults
  BY <1>3, <1>4 DEF Returning
<1>8. /\ op \in Op /\ op \in P
      /\ Tail(s) \in Seq(Op) /\ Sorted(Tail(s), UndoOrder) /\ Members(Tail(s)) = Q
      /\ \A a \in P : <<a, op>> \notin UndoOrder \/ a = op
      /\ Len(s) = 1 <=> Tail(s) = << >>
      /\ Len(s) = 1 => Q = {}
  BY ONLY <1>4, <1>5, <1>6, <1>7, TailOf
<1>9. \A a \in P : a = op \/ ~EarlierUndone(a, op)
  BY <1>3, <1>7, <1>8, TaskTypes, OrderOf
<1>10. files' = Files(op) /\ snaps' = Snaps(op) /\ verDirs' = Dirs(op)
  BY <1>3, <1>5 DEF Step
<1>11. Disk'
  BY <1>1, <1>8, <1>10, OpsKeepDisk
<1>12. Backward(d, Q)'
  BY ONLY <1>1, <1>3, <1>6, <1>7, <1>8, <1>9, <1>10, BackwardStep
<1>13. CASE Len(s) = 1
  <2>1. job' = None
    BY <1>3, <1>13 DEF Step
  <2>2. Backward(d, {})'
    BY <1>8, <1>12, <1>13
  <2>3. Atomic!MoveFails(d.moves, Unchecked(d.moves)) /\ Settled(files', snaps', verDirs')
    BY <1>3, <1>7, <1>11, <2>1, <2>2, UndoDone
  <2>4. MoveInv'
    BY <1>11, <2>1, <2>3, AtRest
  <2>5. d.moves \in Batches
    BY <1>3 DEF Design
  <2> QED BY <2>3, <2>4, <2>5
<1>14. CASE Len(s) # 1
  <2>1. PICK s1 : s1 = Tail(s)
    OBVIOUS
  <2>2. PICK r1 : r1 = r \o Restore(op)
    OBVIOUS
  <2>3. PICK b1 : b1 = Reverse(op) \o b
    OBVIOUS
  <2>4. job' = [job EXCEPT !.ahead = s1, !.restores = r1, !.renamed = b1]
    BY <1>3, <1>5, <1>14, <2>1, <2>2, <2>3 DEF Step
  <2>5. s1 \in Seq(Op) /\ r1 \in Seq(Op) /\ b1 \in Seq(Op)
    BY <1>1, <1>3, <1>8, <2>1, <2>2, <2>3, UndoTyped DEF Job
  <2>6. /\ job' \in Job /\ job'.before = job.before /\ job'.undoing = TRUE
        /\ job'.ahead = s1 /\ job'.restores = r1 /\ job'.renamed = b1
    BY <1>1, <2>4, <2>5 DEF Job
  <2>7. Seen' = Seen
    BY <1>1, <2>6, JobAssumption DEF Seen
  <2>8. Members(s1) = Q /\ Q \subseteq UndoTasks(d) /\ s1 # << >>
    BY <1>6, <1>7, <1>8, <1>14, <2>1
  <2>9. Returning(d, s1)'
    BY <1>7, <1>8, <1>12, <2>1, <2>8 DEF Returning
  <2>10. MoveInv'
    BY ONLY <1>3, <1>11, <2>6, <2>7, <2>9, StillReturning
  <2> QED BY <2>7, <2>10
<1> QED BY <1>13, <1>14

\* Fail: what is done is known to be undone by what follows.
LEMMA FailKeepsInv ==
    ASSUME MoveInv, Fail
    PROVE  /\ MoveInv'
           /\ Seen' = Seen \/ \E m \in Batches : Atomic!MoveFails(m, Unchecked(m))
<1>1. job # None /\ job \in Job /\ Disk /\ DiskFaults /\ ~job.undoing
  BY DEF Fail, MoveInv
<1>2. PICK d, s, r, b : Underway(d, s, r, b)
  BY <1>1 DEF MoveInv
<1>3. /\ Design(d) /\ Planned(d) /\ Going(d, s, r, b)
      /\ job.ahead = s /\ job.restores = r /\ job.renamed = b
  BY <1>1, <1>2 DEF Underway
<1>4. PICK P : P = Members(s)
  OBVIOUS
<1>5. PICK op : op = Head(s)
  OBVIOUS
<1>6. PICK Q : Q = P \ {op}
  OBVIOUS
<1>7. /\ s \in Seq(Op) /\ s # << >> /\ Sorted(s, InOrder(d)) /\ P \subseteq Tasks(d)
      /\ Forward(d, P) /\ RestoresOf(d, P, r) /\ RenamesBack(d, P, b)
  BY <1>3, <1>4 DEF Going
<1>8. /\ op \in Op /\ op \in P
      /\ \A a \in P : <<a, op>> \notin InOrder(d) \/ a = op
  BY ONLY <1>4, <1>5, <1>6, <1>7, TailOf
<1>9. \A a \in P : a = op \/ ~Earlier(d, a, op)
  BY <1>3, <1>7, <1>8, TaskTypes, OrderOf
<1>10. PICK u : u = (r \o Restore(op)) \o b
  OBVIOUS
<1>11. /\ op.do # "tidy" /\ LeftByFailure(op)
       /\ job' = IF u = << >> THEN None ELSE [job EXCEPT !.ahead = u, !.undoing = TRUE]
  BY <1>3, <1>5, <1>10 DEF Fail
<1>12. Disk'
  BY <1>1, <1>3, <1>7, <1>8, <1>11, TaskFails, FailuresKeepDisk
<1>13. Undoes(d, P, Q, u)
  <2>1. PICK r1 : r1 = r \o Restore(op)
    OBVIOUS
  <2>2. RestoresOf(d, Q, r1)
    BY ONLY <1>3, <1>6, <1>7, <1>8, <2>1, RestoresGrow
  <2>3. Undoes(d, P, Q, r1 \o b)
    BY ONLY <1>3, <1>7, <2>2, UndoListed
  <2> QED BY <1>10, <2>1, <2>3
<1>14. Backward(d, Members(u))'
  BY ONLY <1>1, <1>3, <1>6, <1>7, <1>8, <1>9, <1>11, <1>13, BackwardAtFailure
<1>15. u \in Seq(Op) /\ Sorted(u, UndoOrder) /\ Members(u) \subseteq UndoTasks(d)
  BY <1>13 DEF Undoes
<1>16. CASE u = << >>
  <2>1. job' = None /\ Members(u) = {}
    BY <1>11, <1>16, EmptyList
  <2>2. Backward(d, {})'
    BY <1>14, <2>1
  <2>3. Atomic!MoveFails(d.moves, Unchecked(d.moves)) /\ Settled(files', snaps', verDirs')
    BY <1>1, <1>3, <1>12, <2>1, <2>2, UndoDone
  <2>4. MoveInv'
    BY <1>12, <2>1, <2>3, AtRest
  <2>5. d.moves \in Batches
    BY <1>3 DEF Design
  <2> QED BY <2>3, <2>4, <2>5
<1>17. CASE u # << >>
  <2>1. /\ job' \in Job /\ job'.before = job.before /\ job'.undoing = TRUE
        /\ job'.ahead = u /\ job'.restores = r /\ job'.renamed = b
    BY <1>1, <1>3, <1>11, <1>15, <1>17 DEF Job
  <2>2. Seen' = Seen
    BY <1>1, <2>1, JobAssumption DEF Seen
  <2>3. Returning(d, u)'
    BY <1>1, <1>14, <1>15, <1>17 DEF Returning
  <2>4. MoveInv'
    BY ONLY <1>3, <1>12, <2>1, <2>2, <2>3, StillReturning
  <2> QED BY <2>2, <2>4
<1> QED BY <1>16, <1>17

LEMMA StutterKeepsInv ==
    ASSUME MoveInv, UNCHANGED moveVars
    PROVE  MoveInv' /\ Seen' = Seen
<1>1. files' = files /\ snaps' = snaps /\ verDirs' = verDirs /\ job' = job
  BY DEF moveVars
<1>2. Seen' = Seen /\ Disk'
  BY <1>1 DEF Seen, Before, MoveInv, Disk
<1>3. CASE job = None
  BY <1>1, <1>2, <1>3 DEF MoveInv
<1>4. CASE job # None
  <2>1. PICK d, s, r, b : Underway(d, s, r, b)
    BY <1>4 DEF MoveInv
  <2>2. PICK P : P = Members(s)
    OBVIOUS
  <2>3. Forward(d, P) => Forward(d, P)'
    BY <1>1 DEF Forward, FilesForward, SnapsForward, DirsForward
  <2>4. Backward(d, P) => Backward(d, P)'
    BY <1>1 DEF Backward, FilesBack, SnapsBack, CopyKept, DirsBack
  <2>5. /\ Going(d, s, r, b) => Going(d, s, r, b)'
        /\ Returning(d, s) => Returning(d, s)'
    BY <2>2, <2>3, <2>4 DEF Going, Returning
  <2>6. job \in Job /\ job.undoing \in BOOLEAN
    BY <1>4 DEF MoveInv, Job
  <2>7. /\ Design(d) /\ Planned(d)
        /\ job'.ahead = s /\ job'.restores = r /\ job'.renamed = b
    BY <1>1, <2>1 DEF Underway
  <2>8. CASE job.undoing
    <3>1. Returning(d, s)' /\ job'.undoing = TRUE
      BY <1>1, <2>1, <2>5, <2>6, <2>8 DEF Underway
    <3> QED BY ONLY <1>1, <1>2, <2>6, <2>7, <3>1, StillReturning
  <2>9. CASE ~job.undoing
    <3>1. Going(d, s, r, b)' /\ job'.undoing = FALSE
      BY <1>1, <2>1, <2>5, <2>6, <2>9 DEF Underway
    <3> QED BY ONLY <1>1, <1>2, <2>6, <2>7, <3>1, StillGoing
  <2> QED BY <1>2, <2>8, <2>9
<1> QED BY <1>2, <1>3, <1>4

-----------------------------------------------------------------------------
(* The theorems.                                                           *)

LEMMA SameBatches ==
    ASSUME NEW m \in Batches
    PROVE  m \in Atomic!Batches /\ Atomic!Sources(m) = Sources(m)
<1>1. Atomic!Sources(m) = Sources(m) /\ Atomic!Targets(m) = Targets(m)
  BY DEF Sources, Atomic!Sources, Targets, Atomic!Targets
<1>2. /\ m \in UNION {[S -> Path] : S \in (SUBSET Path) \ {{}}}
      /\ Cardinality(Sources(m)) <= MaxBatch
      /\ \A p, q \in Sources(m) : m[p] = m[q] => p = q
      /\ Sources(m) \intersect Targets(m) = {}
  BY DEF Batches
<1>3. Atomic!Cardinality(Sources(m)) = Cardinality(Sources(m))
  BY DEF Atomic!Cardinality, Cardinality
<1>4. m \in Atomic!Batches
  BY <1>1, <1>2, <1>3 DEF Atomic!Batches
<1> QED BY <1>1, <1>4

LEMMA AtomicFails ==
    ASSUME NEW m \in Batches, Atomic!MoveFails(m, Unchecked(m))
    PROVE  Atomic!Next
<1>1. m \in Atomic!Batches /\ Atomic!Sources(m) = Sources(m)
  BY SameBatches
<1>2. Unchecked(m) \in [Atomic!Sources(m) -> 0..MaxVersion]
  BY <1>1, VersionAssumption DEF Unchecked
<1> QED BY <1>1, <1>2 DEF Atomic!Next, Atomic!AnyFailure

LEMMA AtomicMoves ==
    ASSUME NEW m \in Batches, Atomic!MoveBatch(m, Unchecked(m))
    PROVE  Atomic!Next
<1>1. m \in Atomic!Batches /\ Atomic!Sources(m) = Sources(m)
  BY SameBatches
<1>2. Unchecked(m) \in [Atomic!Sources(m) -> 0..MaxVersion]
  BY <1>1, VersionAssumption DEF Unchecked
<1> QED BY <1>1, <1>2 DEF Atomic!Next, Atomic!AnyMove

LEMMA NextMove ==
    ASSUME MoveInv, [MoveNext]_moveVars
    PROVE  MoveInv' /\ (Atomic!Next \/ Seen' = Seen)
<1>1. ASSUME NEW i \in Id, NEW p \in Path, NEW links \in LinkSets,
             job = None, Create(i, p, links), job' = job
      PROVE  MoveInv' /\ Atomic!Next
  <2>1. Disk /\ Settled(files, snaps, verDirs)
    BY <1>1 DEF MoveInv
  <2>2. Disk' /\ Settled(files', snaps', verDirs') /\ Atomic!Create(i, p, links)
    BY <1>1, <2>1, CreateBetween
  <2>3. MoveInv'
    BY <1>1, <2>2, AtRest
  <2> QED BY <2>2, <2>3 DEF Atomic!Next, Atomic!AnyCreate
<1>2. ASSUME NEW p \in Path, NEW links \in LinkSets, NEW aliases \in Authored(p),
             job = None, Update(p, links, aliases, 0), job' = job
      PROVE  MoveInv' /\ Atomic!Next
  <2>1. Disk /\ Settled(files, snaps, verDirs)
    BY <1>2 DEF MoveInv
  <2>2. /\ Disk' /\ Settled(files', snaps', verDirs')
        /\ aliases \in Atomic!Authored(p) /\ Atomic!Update(p, links, aliases, 0)
    BY <1>2, <2>1, UpdateBetween
  <2>3. MoveInv'
    BY <1>2, <2>2, AtRest
  <2>4. 0 \in 0..MaxVersion
    BY VersionAssumption
  <2> QED BY <2>2, <2>3, <2>4 DEF Atomic!Next, Atomic!AnyCreate, Atomic!AnyUpdate
<1>3. ASSUME NEW m \in Batches, NEW items \in Orders(Sources(m)),
             Begin(m, items, [p \in Sources(m) |-> 0])
      PROVE  MoveInv' /\ Seen' = Seen
  BY <1>3, BeginKeepsInv DEF Unchecked
<1>4. CASE Step
  BY <1>4, StepForward, StepBack, AtomicMoves, AtomicFails
<1>5. CASE Fail
  BY <1>5, FailKeepsInv, AtomicFails
<1>6. CASE UNCHANGED moveVars
  BY <1>6, StutterKeepsInv
<1>7. CASE MoveNext
  BY <1>1, <1>2, <1>3, <1>4, <1>5, <1>7 DEF MoveNext
<1> QED BY <1>6, <1>7

LEMMA MoveInvariant == MoveSpec => []MoveInv
<1>1. MoveInv /\ [MoveNext]_moveVars => MoveInv'
  BY NextMove
<1> QED BY <1>1, MoveStarts, PTL DEF MoveSpec

\* A batch move is all or nothing, whichever of its file operations fails,
\* for bundles, batches and histories of any size: to whoever takes the lock
\* next, MoveBatch has either done all of Bundle's one-step move, or failed
\* and left every file and snapshot as it was.
THEOREM MovesAreAtomic == MoveSpec => MoveIsAtomic
<1>1. MoveInit => Atomic!Init
  <2> SUFFICES ASSUME MoveInit PROVE Atomic!Init
    OBVIOUS
  <2>1. Seen.files = files /\ Seen.snaps = snaps /\ Seen.verDirs = verDirs
    BY DEF MoveInit, Seen, Before
  <2>2. NoHistory = Atomic!NoHistory
    BY DEF NoHistory, Atomic!NoHistory, Version, Atomic!Version
  <2> QED BY <2>1, <2>2 DEF MoveInit, Init, Atomic!Init
<1>2. MoveInv /\ [MoveNext]_moveVars => [Atomic!Next]_(Atomic!vars)
  <2> SUFFICES ASSUME MoveInv, [MoveNext]_moveVars PROVE [Atomic!Next]_(Atomic!vars)
    OBVIOUS
  <2>1. Seen' = Seen => UNCHANGED Atomic!vars
    BY DEF Atomic!vars
  <2> QED BY <2>1, NextMove
<1> QED BY <1>1, <1>2, MoveInvariant, PTL DEF MoveSpec, MoveIsAtomic, Atomic!Spec

\* Wherever the process dies, in a move or in the undo of a failed one, every
\* file and every snapshot there was before the move is still in the bundle
\* directory, under some name: renames never overwrite, a file is written over
\* only while its snapshot holds it, and the snapshot goes only after it is
\* written back.
THEOREM NothingIsLost == MoveSpec => []NothingLostMidMove
<1>1. MoveInv => NothingLostMidMove
  <2> SUFFICES ASSUME MoveInv, job # None
               PROVE  /\ \A p \in Path : job.before.files[p] \in OnDisk \union {None}
                      /\ \A p \in Path, v \in Version :
                            job.before.snaps[p][v] \in OnDisk \union {None}
    BY DEF NothingLostMidMove
  <2>1. PICK d, s, r, b : Underway(d, s, r, b)
    BY DEF MoveInv
  <2>2. Design(d) /\ d.old = job.before
    BY <2>1 DEF Underway, Planned, Seen
  <2>3. job.undoing \in BOOLEAN
    BY DEF MoveInv, Job
  <2>4. PICK P : P = Members(s)
    OBVIOUS
  <2>5. Forward(d, P) \/ Backward(d, P)
    BY <2>1, <2>3, <2>4 DEF Underway, Going, Returning
  <2>6. AllHeld(d)
    BY <2>2, <2>5, HeldForward, HeldBackward
  <2> QED BY <2>2, <2>6 DEF AllHeld
<1> QED BY <1>1, MoveInvariant, PTL
=============================================================================
