---------------------------- MODULE ServerProofs ----------------------------
(***************************************************************************)
(* What the object store holds while the server runs, shuts down, dies and *)
(* starts again, for every set of paths and concepts, every size of the    *)
(* push channels and of a batch.  After a restart two paths may hold the   *)
(* same concept, so little of what BundleProofs says of a bundle on a disk *)
(* that is never lost holds here; the lemmas below ask for less.           *)
(***************************************************************************)
EXTENDS Server, BundleProofs, FiniteSetTheorems, SequenceTheorems

\* The files and snapshots have their types, and a path that has snapshots
\* has a snapshot directory.
Disk ==
    /\ files \in [Path -> File \union {None}]
    /\ snaps \in [Path -> [Version -> File \union {None}]]
    /\ \A p \in Path : snaps[p] # NoHistory => p \in verDirs

LEMMA InitDisk == Init => Disk
  BY SeedAssumption DEF Init, Disk, NoHistory

-----------------------------------------------------------------------------
(* What the writes of the bundle change on a disk.                         *)

\* A snapshot is written to a free slot.
LEMMA NextSlot ==
    ASSUME Disk, NEW p \in Path, Exists(p), ConceptVersion(p) <= MaxVersion
    PROVE  /\ ConceptVersion(p) \in Version /\ snaps[p][ConceptVersion(p)] = None
           /\ files[p] \in File
           /\ Snapshotted(p) \in [Version -> File \union {None}]
           /\ Snapshotted(p)[ConceptVersion(p)] = files[p] /\ Snapshotted(p) # NoHistory
           /\ \A v \in Version : v # ConceptVersion(p) => Snapshotted(p)[v] = snaps[p][v]
<1> DEFINE n == ConceptVersion(p)
<1>1. n \in Version /\ files[p] \in File /\ files[p] # None
      /\ snaps[p] \in [Version -> File \union {None}]
  BY ConceptVersionIsNext, VersionAssumption DEF Disk, Exists, Version
<1>2. snaps[p][n] = None
  <2>1. n \notin Versions(p)
    BY <1>1, ConceptVersionIsNext, VersionAssumption DEF Version
  <2> QED BY <1>1, <2>1 DEF Versions
<1>3. Snapshotted(p) = [snaps[p] EXCEPT ![n] = files[p]]
  BY DEF Snapshotted
<1> HIDE DEF n
<1>4. Snapshotted(p)[n] = files[p]
  BY <1>1, <1>3
<1>5. Snapshotted(p) # NoHistory
  BY <1>1, <1>4 DEF NoHistory
<1> QED BY <1>1, <1>2, <1>3, <1>4, <1>5 DEF n

LEMMA CreateSlots ==
    ASSUME Disk, NEW i \in Id, NEW p \in Path, NEW links \in LinkSets, Create(i, p, links)
    PROVE  /\ Disk' /\ UNCHANGED snaps
           /\ files[p] = None /\ files'[p] \in File
           /\ \A q \in Path : q # p => files'[q] = files[q]
<1>1. /\ files' = [files EXCEPT ![p] = Fresh(i, p, links)] /\ UNCHANGED <<snaps, verDirs>>
      /\ files[p] = None
  BY DEF Create, CanCreate, Exists
<1>2. Fresh(i, p, links) \in File
  BY FreshType, AuthorAssumption
<1> QED BY <1>1, <1>2 DEF Disk

LEMMA UpdateSlots ==
    ASSUME Disk, NEW p \in Path, NEW links \in SUBSET Target, NEW aliases \in SUBSET Path,
           NEW expected, Update(p, links, aliases, expected)
    PROVE  /\ Disk' /\ Exists(p) /\ ConceptVersion(p) <= MaxVersion
           /\ files'[p] \in File /\ snaps'[p] = Snapshotted(p)
           /\ \A q \in Path : q # p => files'[q] = files[q] /\ snaps'[q] = snaps[q]
<1>1. Exists(p) /\ ConceptVersion(p) <= MaxVersion
  BY DEF Update, CanUpdate
<1>2. Snapshotted(p) \in [Version -> File \union {None}] /\ files[p] \in File
  BY <1>1, NextSlot
<1>3. Edited(p, links, aliases) \in File
  BY <1>2, NormalizedType DEF Edited, File
<1>4. /\ files' = [files EXCEPT ![p] = Edited(p, links, aliases)]
      /\ snaps' = [snaps EXCEPT ![p] = Snapshotted(p)]
      /\ verDirs \union {p} \subseteq verDirs'
  BY DEF Update, MakeDirs
<1>5. Disk'
  BY <1>2, <1>3, <1>4 DEF Disk
<1> QED BY <1>1, <1>3, <1>4, <1>5 DEF Disk

\* A move leaves nothing at its sources; its targets were free, and hold the
\* moved files and all their snapshots.
LEMMA MoveSlots ==
    ASSUME Disk, NEW m \in Batches, NEW expected, MoveBatch(m, expected)
    PROVE  /\ Disk'
           /\ \A p \in Sources(m) :
                 /\ p \in Path /\ m[p] \in Path /\ m[p] \notin Sources(m) /\ m[p] \in Targets(m)
                 /\ Exists(p) /\ ConceptVersion(p) <= MaxVersion
                 /\ files'[p] = None /\ snaps'[p] = NoHistory
                 /\ files[m[p]] = None /\ snaps[m[p]] = NoHistory
                 /\ files'[m[p]] \in File /\ snaps'[m[p]] = Snapshotted(p)
           /\ \A q \in Relinked(m) :
                 /\ q \in Path /\ q \notin Sources(m) \union Targets(m)
                 /\ Exists(q) /\ ConceptVersion(q) <= MaxVersion
                 /\ files'[q] \in File /\ snaps'[q] = Snapshotted(q)
           /\ \A q \in Path : q \notin Sources(m) \union Targets(m) \union Relinked(m)
                 => files'[q] = files[q] /\ snaps'[q] = snaps[q]
<1>1. CanMove(m, expected) /\ files' = FilesAfter(m) /\ snaps' = SnapsAfter(m)
  BY DEF MoveBatch
<1>2. ASSUME NEW p \in Sources(m)
      PROVE  /\ p \in Path /\ m[p] \in Path /\ m[p] \notin Sources(m) /\ m[p] \in Targets(m)
             /\ Origin(m, m[p]) = p
             /\ Exists(p) /\ ConceptVersion(p) <= MaxVersion
             /\ files[m[p]] = None /\ snaps[m[p]] = NoHistory
  <2>1. /\ p \in Path /\ m[p] \in Path /\ m[p] \notin Sources(m) /\ m[p] \in Targets(m)
        /\ Origin(m, m[p]) = p
    BY BatchShape
  <2>2. /\ Exists(p) /\ ConceptVersion(p) <= MaxVersion
        /\ files[m[p]] = None /\ m[p] \notin verDirs
    BY <1>1 DEF CanMove, Parsed, Exists
  <2> QED BY <2>1, <2>2 DEF Disk
<1>3. ASSUME NEW p \in Sources(m)
      PROVE  /\ files'[p] = None /\ snaps'[p] = NoHistory
             /\ files'[m[p]] \in File /\ snaps'[m[p]] = Snapshotted(p)
  <2>1. p \notin Targets(m)
    BY BatchShape
  <2>2. files'[p] = None /\ snaps'[p] = NoHistory
    BY <1>1, <1>2, <2>1 DEF FilesAfter, SnapsAfter
  <2>3. files'[m[p]] = MovedFile(m, p) /\ snaps'[m[p]] = Snapshotted(p)
    BY <1>1, <1>2 DEF FilesAfter, SnapsAfter
  <2>4. MovedFile(m, p) \in File
    <3>1. files[p] \in File /\ p \in Path /\ m[p] \in Path
      BY <1>2, NextSlot
    <3>2. Pinned(m, p, files[p].links) \in SUBSET Target
      BY <3>1, PinnedType DEF File
    <3> QED BY <3>1, <3>2 DEF MovedFile, File
  <2> QED BY <2>2, <2>3, <2>4
<1>4. ASSUME NEW q \in Relinked(m)
      PROVE  /\ q \in Path /\ q \notin Sources(m) \union Targets(m)
             /\ Exists(q) /\ ConceptVersion(q) <= MaxVersion
             /\ files'[q] \in File /\ snaps'[q] = Snapshotted(q)
  <2>1. q \in Path /\ q \notin Sources(m) /\ Exists(q)
    BY DEF Relinked, Parsed
  <2>2. q \notin Targets(m)
    BY <1>2, <2>1, BatchShape DEF Exists
  <2>3. ConceptVersion(q) <= MaxVersion
    BY <1>1 DEF CanMove
  <2>4. files'[q] = RelinkedFile(m, q) /\ snaps'[q] = Snapshotted(q)
    BY <1>1, <2>1, <2>2 DEF FilesAfter, SnapsAfter
  <2>5. RelinkedFile(m, q) \in File
    <3>1. files[q] \in File
      BY <2>1, <2>3, NextSlot
    <3>2. Retarget(m, q, files[q].links) \in SUBSET Target
      BY <2>1, <3>1, RetargetType DEF File
    <3> QED BY <3>1, <3>2 DEF RelinkedFile, File
  <2> QED BY <2>1, <2>2, <2>3, <2>4, <2>5
<1>5. ASSUME NEW q \in Path, q \notin Sources(m) \union Targets(m) \union Relinked(m)
      PROVE  files'[q] = files[q] /\ snaps'[q] = snaps[q]
  BY <1>1, <1>5 DEF FilesAfter, SnapsAfter
<1>6. \A q \in Targets(m) : \E p \in Sources(m) : q = m[p]
  BY DEF Targets, Sources
<1>7. \A q \in Path : files'[q] \in File \union {None}
                      /\ snaps'[q] \in [Version -> File \union {None}]
  <2>1. \A p \in Sources(m) : Snapshotted(p) \in [Version -> File \union {None}]
    BY <1>2, NextSlot
  <2>2. \A q \in Relinked(m) : Snapshotted(q) \in [Version -> File \union {None}]
    BY <1>4, NextSlot
  <2>3. NoHistory \in [Version -> File \union {None}]
    BY DEF NoHistory
  <2>4. \A q \in Path : files[q] \in File \union {None}
                        /\ snaps[q] \in [Version -> File \union {None}]
    BY DEF Disk
  <2> QED BY <1>3, <1>4, <1>5, <1>6, <2>1, <2>2, <2>3, <2>4
<1>8. files' = [q \in Path |-> files'[q]] /\ snaps' = [q \in Path |-> snaps'[q]]
  BY <1>1 DEF FilesAfter, SnapsAfter
<1>9. ASSUME NEW q \in Path, snaps'[q] # NoHistory PROVE q \in verDirs'
  <2> DEFINE made == MakeDirs(Targets(m) \union Relinked(m))
  <2>1. SnapsAfter(m)[q] # NoHistory
    BY <1>1, <1>9
  <2>2. q \in made
    <3>1. CASE q \in Targets(m) \union Relinked(m)
      BY <3>1 DEF MakeDirs
    <3>2. CASE q \notin Targets(m) \union Relinked(m)
      <4>1. snaps[q] # NoHistory
        BY <1>3, <1>5, <1>9, <3>2
      <4> QED BY <4>1 DEF Disk, MakeDirs
    <3> QED BY <3>1, <3>2
  <2> QED BY <2>1, <2>2 DEF MoveBatch, DirsAfter
<1>10. Disk'
  BY <1>7, <1>8, <1>9 DEF Disk
<1> QED BY <1>2, <1>3, <1>4, <1>5, <1>10

-----------------------------------------------------------------------------
(* The hook calls after a move.                                            *)

\* s lists the members of A and nothing else.
Lists(s, A) == s \in Seq(A) /\ \A x \in A : \E j \in 1..Len(s) : s[j] = x

LEMMA ConcatLists ==
    ASSUME NEW s, NEW t, NEW A, NEW B, Lists(s, A), Lists(t, B)
    PROVE  Lists(s \o t, A \union B)
<1>1. s \in Seq(A \union B) /\ t \in Seq(A \union B)
  BY SeqMonotonic, Zenon DEF Lists
<1>2. /\ s \o t \in Seq(A \union B) /\ Len(s \o t) = Len(s) + Len(t)
      /\ \A j \in 1..(Len(s) + Len(t)) :
            (s \o t)[j] = IF j <= Len(s) THEN s[j] ELSE t[j - Len(s)]
  BY <1>1, ConcatProperties, Zenon
<1>3. Len(s) \in Nat /\ Len(t) \in Nat
  BY <1>1, LenProperties
<1>4. ASSUME NEW x \in A PROVE \E j \in 1..Len(s \o t) : (s \o t)[j] = x
  <2>1. PICK j \in 1..Len(s) : s[j] = x
    BY DEF Lists
  <2> QED BY <1>2, <1>3, <2>1
<1>5. ASSUME NEW x \in B PROVE \E j \in 1..Len(s \o t) : (s \o t)[j] = x
  <2>1. PICK j \in 1..Len(t) : t[j] = x
    BY DEF Lists
  <2>2. Len(s) + j \in 1..Len(s \o t) /\ ~(Len(s) + j <= Len(s)) /\ (Len(s) + j) - Len(s) = j
    BY <1>2, <1>3, <2>1
  <2> QED BY <1>2, <2>1, <2>2
<1> QED BY <1>2, <1>4, <1>5 DEF Lists

\* Every finite set has a list without repetitions.
LEMMA ListedShape ==
    ASSUME NEW S, IsFiniteSet(S)
    PROVE  \E n \in Nat : /\ Listed(S) \in [1..n -> S] /\ DOMAIN Listed(S) = 1..n
                          /\ \A x \in S : \E j \in 1..n : Listed(S)[j] = x
<1> DEFINE n == Cardinality(S)
<1>1. n \in Nat /\ ExistsBijection(1..n, S)
  BY FS_CardinalityType
<1>2. PICK g \in Bijection(1..n, S) : TRUE
  BY <1>1 DEF ExistsBijection
<1>3. g \in [1..n -> S] /\ \A j, k \in DOMAIN g : j # k => g[j] # g[k]
  BY <1>2 DEF Bijection, Injection, IsInjective
<1>4. /\ Listed(S) \in [1..n -> S]
      /\ \A j, k \in DOMAIN Listed(S) : j # k => Listed(S)[j] # Listed(S)[k]
  BY <1>3 DEF Listed
<1>5. Listed(S) \in Injection(1..n, S)
  BY <1>4 DEF Injection, IsInjective
<1>6. Cardinality(1..n) = n
  BY <1>1, FS_Interval
<1>7. Listed(S) \in Surjection(1..n, S)
  BY <1>1, <1>5, <1>6, FS_Injection
<1> QED BY <1>1, <1>4, <1>7 DEF Surjection

LEMMA ListedLists ==
    ASSUME NEW S, IsFiniteSet(S)
    PROVE  Lists(Listed(S), S)
<1>1. PICK n \in Nat : /\ Listed(S) \in [1..n -> S] /\ DOMAIN Listed(S) = 1..n
                       /\ \A x \in S : \E j \in 1..n : Listed(S)[j] = x
  BY ListedShape
<1>2. Listed(S) \in Seq(S) /\ Len(Listed(S)) = n
  BY <1>1, SeqDef
<1> QED BY <1>1, <1>2 DEF Lists

\* The snapshots a move carries along, where they are and where they go, and
\* those of the versions it replaces.
Carried(m) == UNION {{<<p, v>> : v \in Versions(p)} : p \in Sources(m)}
CarriedTo(m) == {<<m[k[1]], k[2]>> : k \in Carried(m)}
Replaced(m) == {<<m[p], ConceptVersion(p)>> : p \in Sources(m)}
Updated(m) == {<<q, ConceptVersion(q)>> : q \in Relinked(m)}
Kept(m) == (CarriedTo(m) \union Replaced(m)) \union Updated(m)

\* The calls before those that delete the old files, and all of them.
FirstCalls(m) ==
    ({OnWrite(q) : q \in Targets(m) \union Relinked(m)}
       \union {OnSnapshot(k[1], k[2]) : k \in Kept(m)})
      \union {OnSnapshotDelete(k[1], k[2]) : k \in Carried(m)}

MoveCalls(m) == FirstCalls(m) \union {OnDelete(p) : p \in Sources(m)}

LEMMA MoveKeys ==
    ASSUME Disk, NEW m \in Batches, NEW expected, MoveBatch(m, expected)
    PROVE  /\ Sources(m) \subseteq Path /\ Targets(m) \subseteq Path /\ Relinked(m) \subseteq Path
           /\ Carried(m) \subseteq Snapshots /\ Kept(m) \subseteq Snapshots
<1>1. Sources(m) \subseteq Path /\ Targets(m) \subseteq Path /\ Relinked(m) \subseteq Path
  BY BatchShape DEF Relinked
<1>2. Carried(m) \subseteq Snapshots
  BY <1>1 DEF Carried, Versions, Snapshots
<1>3. \A p \in Sources(m) : m[p] \in Path /\ ConceptVersion(p) \in Version
  BY MoveSlots, NextSlot
<1>4. \A q \in Relinked(m) : q \in Path /\ ConceptVersion(q) \in Version
  BY MoveSlots, NextSlot
<1>5. \A k \in Carried(m) : k[1] \in Sources(m) /\ k[2] \in Version
  BY DEF Carried, Versions
<1>6. Kept(m) \subseteq Snapshots
  <2>1. \A k \in Carried(m) : <<m[k[1]], k[2]>> \in Path \X Version
    BY <1>3, <1>5
  <2>2. \A p \in Sources(m) : <<m[p], ConceptVersion(p)>> \in Path \X Version
    BY <1>3
  <2>3. \A q \in Relinked(m) : <<q, ConceptVersion(q)>> \in Path \X Version
    BY <1>4
  <2> QED BY <2>1, <2>2, <2>3, Zenon DEF Kept, CarriedTo, Replaced, Updated, Snapshots
<1> QED BY <1>1, <1>2, <1>6

\* The old files go last.
LEMMA MoveHooksEnd ==
    ASSUME Disk, NEW m \in Batches, NEW expected, MoveBatch(m, expected)
    PROVE  \E s, t : /\ MoveHooks(m) = s \o t /\ Lists(s, FirstCalls(m))
                     /\ Lists(t, {OnDelete(p) : p \in Sources(m)})
<1>1. IsFiniteSet(Path) /\ IsFiniteSet(Version) /\ IsFiniteSet(Snapshots)
  <2>1. IsFiniteSet(Version)
    BY VersionAssumption, FS_Interval DEF Version
  <2>2. IsFiniteSet(Path \X Version)
    BY <2>1, FiniteAssumption, FS_Product, Zenon
  <2> QED BY <2>1, <2>2, FiniteAssumption DEF Snapshots
<1>2. /\ IsFiniteSet(Targets(m)) /\ IsFiniteSet(Relinked(m)) /\ IsFiniteSet(Sources(m))
      /\ IsFiniteSet(CarriedTo(m)) /\ IsFiniteSet(Replaced(m)) /\ IsFiniteSet(Updated(m))
      /\ IsFiniteSet(Carried(m))
  <2>1. /\ Targets(m) \in SUBSET Path /\ Relinked(m) \in SUBSET Path /\ Sources(m) \in SUBSET Path
        /\ Carried(m) \in SUBSET Snapshots /\ Kept(m) \in SUBSET Snapshots
    BY MoveKeys
  <2>2. /\ CarriedTo(m) \in SUBSET Snapshots /\ Replaced(m) \in SUBSET Snapshots
        /\ Updated(m) \in SUBSET Snapshots
    BY <2>1 DEF Kept
  <2> QED BY <1>1, <2>1, <2>2, FS_Subset
<1> DEFINE written == Listed(Targets(m)) \o Listed(Relinked(m))
           kept == (Listed(CarriedTo(m)) \o Listed(Replaced(m))) \o Listed(Updated(m))
           gone == Listed(Carried(m))
           removed == Listed(Sources(m))
           a == [n \in DOMAIN written |-> OnWrite(written[n])]
           b == [n \in DOMAIN kept |-> OnSnapshot(kept[n][1], kept[n][2])]
           c == [n \in DOMAIN gone |-> OnSnapshotDelete(gone[n][1], gone[n][2])]
           d == [n \in DOMAIN removed |-> OnDelete(removed[n])]
<1>2a. Lists(written, Targets(m) \union Relinked(m))
  BY <1>2, ListedLists, ConcatLists, Zenon
<1>2b. Lists(kept, Kept(m))
  <2>1. Lists(Listed(CarriedTo(m)) \o Listed(Replaced(m)), CarriedTo(m) \union Replaced(m))
    BY <1>2, ListedLists, ConcatLists, Zenon
  <2>2. Lists(kept, (CarriedTo(m) \union Replaced(m)) \union Updated(m))
    BY <1>2, <2>1, ListedLists, ConcatLists, Zenon
  <2> QED BY <2>2 DEF Kept
<1>2c. Lists(gone, Carried(m)) /\ Lists(removed, Sources(m))
  BY <1>2, ListedLists, Zenon
<1>3. MoveHooks(m) = ((a \o b) \o c) \o d
  BY Zenon DEF MoveHooks, CarriedTo, Replaced, Updated, Carried
<1> HIDE DEF written, kept, gone, removed
<1>4. Lists(a, {OnWrite(q) : q \in (Targets(m) \union Relinked(m))})
  <2> DEFINE l == written
  <2>1. l \in Seq((Targets(m) \union Relinked(m))) /\ \A q \in (Targets(m) \union Relinked(m)) : \E j \in 1..Len(l) : l[j] = q
    BY <1>2a DEF Lists
  <2>2. a = [n \in DOMAIN l |-> OnWrite(l[n])]
    OBVIOUS
  <2> HIDE DEF l, a
  <2>3. Len(l) \in Nat /\ l \in [1..Len(l) -> (Targets(m) \union Relinked(m))] /\ DOMAIN l = 1..Len(l)
    BY <2>1
  <2>4. a \in [1..Len(l) -> {OnWrite(q) : q \in (Targets(m) \union Relinked(m))}]
    BY <2>2, <2>3
  <2>5. \A q \in (Targets(m) \union Relinked(m)) : \E j \in 1..Len(l) : a[j] = OnWrite(q)
    BY <2>1, <2>2, <2>3
  <2>6. a \in Seq({OnWrite(q) : q \in (Targets(m) \union Relinked(m))}) /\ Len(a) = Len(l)
    BY <2>3, <2>4, SeqDef
  <2> QED BY <2>5, <2>6 DEF Lists
<1>5. Lists(b, {OnSnapshot(k[1], k[2]) : k \in Kept(m)})
  <2> DEFINE l == kept
  <2>1. l \in Seq(Kept(m)) /\ \A k \in Kept(m) : \E j \in 1..Len(l) : l[j] = k
    BY <1>2b DEF Lists
  <2>2. b = [n \in DOMAIN l |-> OnSnapshot(l[n][1], l[n][2])]
    OBVIOUS
  <2> HIDE DEF l, b
  <2>3. Len(l) \in Nat /\ l \in [1..Len(l) -> Kept(m)] /\ DOMAIN l = 1..Len(l)
    BY <2>1
  <2>4. b \in [1..Len(l) -> {OnSnapshot(k[1], k[2]) : k \in Kept(m)}]
    BY <2>2, <2>3
  <2>5. \A k \in Kept(m) : \E j \in 1..Len(l) : b[j] = OnSnapshot(k[1], k[2])
    BY <2>1, <2>2, <2>3
  <2>6. b \in Seq({OnSnapshot(k[1], k[2]) : k \in Kept(m)}) /\ Len(b) = Len(l)
    BY <2>3, <2>4, SeqDef
  <2> QED BY <2>5, <2>6 DEF Lists
<1>6. Lists(c, {OnSnapshotDelete(k[1], k[2]) : k \in Carried(m)})
  <2> DEFINE l == gone
  <2>1. l \in Seq(Carried(m)) /\ \A k \in Carried(m) : \E j \in 1..Len(l) : l[j] = k
    BY <1>2c DEF Lists
  <2>2. c = [n \in DOMAIN l |-> OnSnapshotDelete(l[n][1], l[n][2])]
    OBVIOUS
  <2> HIDE DEF l, c
  <2>3. Len(l) \in Nat /\ l \in [1..Len(l) -> Carried(m)] /\ DOMAIN l = 1..Len(l)
    BY <2>1
  <2>4. c \in [1..Len(l) -> {OnSnapshotDelete(k[1], k[2]) : k \in Carried(m)}]
    BY <2>2, <2>3
  <2>5. \A k \in Carried(m) : \E j \in 1..Len(l) : c[j] = OnSnapshotDelete(k[1], k[2])
    BY <2>1, <2>2, <2>3
  <2>6. c \in Seq({OnSnapshotDelete(k[1], k[2]) : k \in Carried(m)}) /\ Len(c) = Len(l)
    BY <2>3, <2>4, SeqDef
  <2> QED BY <2>5, <2>6 DEF Lists
<1>7. Lists(d, {OnDelete(p) : p \in Sources(m)})
  <2> DEFINE l == removed
  <2>1. l \in Seq(Sources(m)) /\ \A p \in Sources(m) : \E j \in 1..Len(l) : l[j] = p
    BY <1>2c DEF Lists
  <2>2. d = [n \in DOMAIN l |-> OnDelete(l[n])]
    OBVIOUS
  <2> HIDE DEF l, d
  <2>3. Len(l) \in Nat /\ l \in [1..Len(l) -> Sources(m)] /\ DOMAIN l = 1..Len(l)
    BY <2>1
  <2>4. d \in [1..Len(l) -> {OnDelete(p) : p \in Sources(m)}]
    BY <2>2, <2>3
  <2>5. \A p \in Sources(m) : \E j \in 1..Len(l) : d[j] = OnDelete(p)
    BY <2>1, <2>2, <2>3
  <2>6. d \in Seq({OnDelete(p) : p \in Sources(m)}) /\ Len(d) = Len(l)
    BY <2>3, <2>4, SeqDef
  <2> QED BY <2>5, <2>6 DEF Lists
<1> HIDE DEF a, b, c, d
<1>8. Lists(a \o b, {OnWrite(q) : q \in Targets(m) \union Relinked(m)}
                       \union {OnSnapshot(k[1], k[2]) : k \in Kept(m)})
  BY <1>4, <1>5, ConcatLists, Zenon
<1>9. Lists((a \o b) \o c, ({OnWrite(q) : q \in Targets(m) \union Relinked(m)}
                               \union {OnSnapshot(k[1], k[2]) : k \in Kept(m)})
                              \union {OnSnapshotDelete(k[1], k[2]) : k \in Carried(m)})
  BY <1>6, <1>8, ConcatLists, Zenon
<1>10. Lists((a \o b) \o c, FirstCalls(m))
  BY <1>9 DEF FirstCalls
<1> QED BY <1>3, <1>7, <1>10

LEMMA MoveHooksList ==
    ASSUME Disk, NEW m \in Batches, NEW expected, MoveBatch(m, expected)
    PROVE  Lists(MoveHooks(m), MoveCalls(m))
<1>1. PICK s, t : /\ MoveHooks(m) = s \o t /\ Lists(s, FirstCalls(m))
                  /\ Lists(t, {OnDelete(p) : p \in Sources(m)})
  BY MoveHooksEnd
<1>2. Lists(s \o t, FirstCalls(m) \union {OnDelete(p) : p \in Sources(m)})
  BY <1>1, ConcatLists
<1> QED BY <1>1, <1>2 DEF MoveCalls

-----------------------------------------------------------------------------
(* A syncer, for the keys K and contents C (the code runs two of them).    *)

Requests(K, C) == [key : K, data : C]

WellFormed(K, C, store, queue, call) ==
    /\ store \in [K -> C]
    /\ queue \in Seq(Requests(K, C)) /\ Len(queue) <= Capacity
    /\ call \in [Handler -> {<< >>} \union {<<r>> : r \in Requests(K, C)}]

LEMMA OneRequest ==
    ASSUME NEW K, NEW C, NEW store, NEW queue, NEW call, WellFormed(K, C, store, queue, call),
           NEW h \in Handler, call[h] # << >>
    PROVE  \E r \in Requests(K, C) : call[h] = <<r>> /\ r = call[h][1]
<1>1. PICK r \in Requests(K, C) : call[h] = <<r>>
  BY DEF WellFormed
<1> QED BY <1>1

LEMMA CallForm ==
    ASSUME NEW K, NEW C, NEW store, NEW queue, NEW call, WellFormed(K, C, store, queue, call),
           NEW h \in Handler, NEW k \in K, NEW d \in C
    PROVE  WellFormed(K, C, store, queue,
                      [call EXCEPT ![h] = <<[key |-> k, data |-> d]>>])
<1>1. [key |-> k, data |-> d] \in Requests(K, C)
  BY DEF Requests
<1> QED BY <1>1 DEF WellFormed

LEMMA NoCallForm ==
    ASSUME NEW K, NEW C, NEW store, NEW queue, NEW call, WellFormed(K, C, store, queue, call),
           NEW h \in Handler
    PROVE  WellFormed(K, C, store, queue, [call EXCEPT ![h] = << >>])
  BY DEF WellFormed

\* What a channel is after a send.
LEMMA Sent ==
    ASSUME NEW K, NEW C, NEW queue \in Seq(Requests(K, C)), NEW r \in Requests(K, C)
    PROVE  /\ queue \o <<r>> \in Seq(Requests(K, C))
           /\ Len(queue) \in Nat /\ Len(queue \o <<r>>) = Len(queue) + 1
           /\ (queue \o <<r>>)[Len(queue) + 1] = r
           /\ \A n \in 1..Len(queue) : (queue \o <<r>>)[n] = queue[n]
<1>1. /\ <<r>> \in Seq(Requests(K, C)) /\ Len(<<r>>) = 1 /\ <<r>>[1] = r
      /\ Len(queue) \in Nat
  BY LenProperties
<1>2. /\ queue \o <<r>> \in Seq(Requests(K, C))
      /\ Len(queue \o <<r>>) = Len(queue) + Len(<<r>>)
      /\ \A n \in 1..(Len(queue) + Len(<<r>>)) :
            (queue \o <<r>>)[n] = IF n <= Len(queue) THEN queue[n] ELSE <<r>>[n - Len(queue)]
  BY <1>1, ConcatProperties, Zenon
<1>3. \A n \in 1..Len(queue) : n \in 1..(Len(queue) + 1) /\ n <= Len(queue)
  BY <1>1
<1>4. /\ Len(queue) + 1 \in 1..(Len(queue) + 1) /\ ~(Len(queue) + 1 <= Len(queue))
      /\ (Len(queue) + 1) - Len(queue) = 1
  BY <1>1
<1> QED BY <1>1, <1>2, <1>3, <1>4

LEMMA SendForm ==
    ASSUME NEW K, NEW C, NEW store, NEW queue, NEW call, WellFormed(K, C, store, queue, call),
           NEW h \in Handler, call[h] # << >>, Len(queue) < Capacity
    PROVE  WellFormed(K, C, store, queue \o call[h], [call EXCEPT ![h] = << >>])
<1>1. PICK r \in Requests(K, C) : call[h] = <<r>>
  BY OneRequest
<1>2. /\ queue \in Seq(Requests(K, C)) /\ Capacity \in Nat
      /\ store \in [K -> C]
      /\ call \in [Handler -> {<< >>} \union {<<s>> : s \in Requests(K, C)}]
  BY CapacityAssumption DEF WellFormed
<1>3. queue \o <<r>> \in Seq(Requests(K, C)) /\ Len(queue \o <<r>>) <= Capacity
  BY <1>1, <1>2, Sent
<1> QED BY <1>1, <1>2, <1>3 DEF WellFormed

\* What a channel is after a receive.
LEMMA Received ==
    ASSUME NEW K, NEW C, NEW queue \in Seq(Requests(K, C)), queue # << >>
    PROVE  /\ Head(queue) \in Requests(K, C) /\ Head(queue) = queue[1]
           /\ Tail(queue) \in Seq(Requests(K, C))
           /\ Len(queue) \in Nat /\ Len(queue) >= 1 /\ Len(Tail(queue)) = Len(queue) - 1
           /\ \A n \in 1..Len(Tail(queue)) :
                 n + 1 \in 1..Len(queue) /\ Tail(queue)[n] = queue[n + 1]
<1>1. /\ Head(queue) \in Requests(K, C) /\ Tail(queue) \in Seq(Requests(K, C))
      /\ Len(Tail(queue)) = Len(queue) - 1
      /\ \A n \in 1..Len(Tail(queue)) : Tail(queue)[n] = queue[n + 1]
  BY HeadTailProperties, Zenon
<1>2. Len(queue) \in Nat /\ Len(queue) >= 1
  BY EmptySeq
<1>3. Head(queue) = queue[1]
  BY <1>2
<1> QED BY <1>1, <1>2, <1>3

LEMMA ReceiveForm ==
    ASSUME NEW K, NEW C, NEW store, NEW queue, NEW call, WellFormed(K, C, store, queue, call),
           queue # << >>
    PROVE  /\ WellFormed(K, C, store, Tail(queue), call)
           /\ WellFormed(K, C, [store EXCEPT ![Head(queue).key] = Head(queue).data],
                         Tail(queue), call)
<1>1. /\ Head(queue) \in Requests(K, C) /\ Tail(queue) \in Seq(Requests(K, C))
      /\ Len(queue) \in Nat /\ Len(Tail(queue)) = Len(queue) - 1
  BY Received DEF WellFormed
<1>2. Head(queue).data \in C
  BY <1>1 DEF Requests
<1>3. Len(Tail(queue)) <= Capacity
  BY <1>1, CapacityAssumption DEF WellFormed
<1> QED BY <1>1, <1>2, <1>3 DEF WellFormed

LEMMA MoreForm ==
    ASSUME NEW K, NEW C, NEW D, C \subseteq D, NEW store, NEW queue, NEW call,
           WellFormed(K, C, store, queue, call)
    PROVE  WellFormed(K, D, store, queue, call)
<1>1. Requests(K, C) \subseteq Requests(K, D)
  BY DEF Requests
<1>2. queue \in Seq(Requests(K, D))
  BY <1>1, SeqMonotonic, Zenon DEF WellFormed
<1> QED BY <1>1, <1>2 DEF WellFormed

LEMMA EmptyForm ==
    ASSUME NEW K, NEW C, NEW store \in [K -> C]
    PROVE  WellFormed(K, C, store, << >>, [h \in Handler |-> << >>])
  BY CapacityAssumption DEF WellFormed

-----------------------------------------------------------------------------
(* The server's steps, for both syncers.                                   *)

FilesIn(C) == WellFormed(Path, C, s3Files, fileQueue, fileCall)
SnapsIn(C) == WellFormed(Snapshots, C, s3Snaps, snapQueue, snapCall)

DiskIn(C) == None \in C /\ \A p \in Path : files[p] \in C /\ \A v \in Version : snaps[p][v] \in C

\* A handler makes one hook call at a time, each for a path or a snapshot.
Hooked ==
    /\ hooks \in [Handler -> Seq(HookCall)]
    /\ \A h \in Handler : fileCall[h] = << >> \/ snapCall[h] = << >>

LEMMA HookShape ==
    ASSUME NEW o \in HookCall
    PROVE  /\ o.on = "files" => o.file \in Path
           /\ o.on # "files" => o.snap \in Snapshots /\ o.snap = <<o.snap[1], o.snap[2]>>
                                /\ o.snap[1] \in Path /\ o.snap[2] \in Version
  BY DEF HookCall, OnWrite, OnDelete, OnSnapshot, OnSnapshotDelete, Snapshots

LEMMA CallHookForm ==
    ASSUME NEW C, FilesIn(C), SnapsIn(C), DiskIn(C), Hooked, NEW h \in Handler, CallHook(h)
    PROVE  FilesIn(C)' /\ SnapsIn(C)' /\ Hooked'
<1> DEFINE o == Head(hooks[h])
<1>1. /\ hooks[h] # << >> /\ fileCall[h] = << >> /\ snapCall[h] = << >>
      /\ hooks' = [hooks EXCEPT ![h] = Tail(hooks[h])] /\ UNCHANGED <<files, snaps>>
  BY DEF CallHook, NoCalls, FileSync!NoCall, SnapSync!NoCall, bundleVars, Hooked
<1>2. o \in HookCall /\ Tail(hooks[h]) \in Seq(HookCall)
  BY <1>1, HeadTailProperties, Zenon DEF Hooked
<1>3. CASE o.on = "files"
  <2>1. /\ \/ fileCall' = fileCall
           \/ \E d \in C : fileCall' = [fileCall EXCEPT ![h] = <<[key |-> o.file, data |-> d]>>]
        /\ UNCHANGED <<s3Files, fileQueue, s3Snaps, snapQueue, snapCall>>
    BY <1>2, <1>3, HookShape
       DEF CallHook, FileSync!PushFile, FileSync!DeleteFile, snapVars, DiskIn
  <2>2. FilesIn(C)'
    <3>1. o.file \in Path
      BY <1>2, <1>3, HookShape
    <3>2. ASSUME NEW d \in C
          PROVE  WellFormed(Path, C, s3Files, fileQueue,
                            [fileCall EXCEPT ![h] = <<[key |-> o.file, data |-> d]>>])
      BY <3>1, CallForm DEF FilesIn
    <3>3. WellFormed(Path, C, s3Files', fileQueue', fileCall')
      BY <2>1, <3>2 DEF FilesIn
    <3> QED BY <3>3 DEF FilesIn
  <2>3. SnapsIn(C)'
    BY <2>1 DEF SnapsIn
  <2>4. \A g \in Handler : g # h => fileCall'[g] = fileCall[g]
    BY <2>1 DEF FilesIn, WellFormed
  <2> QED BY <1>1, <1>2, <2>1, <2>2, <2>3, <2>4 DEF Hooked
<1>4. CASE o.on # "files"
  <2>1. /\ \/ snapCall' = snapCall
           \/ \E d \in C : snapCall' = [snapCall EXCEPT ![h] = <<[key |-> o.snap, data |-> d]>>]
        /\ UNCHANGED <<s3Snaps, snapQueue, s3Files, fileQueue, fileCall>>
    <3>1. o.snap \in Snapshots /\ SnapsByKey[o.snap] \in C /\ None \in C
      BY <1>2, <1>4, HookShape DEF SnapsByKey, DiskIn
    <3> QED BY <1>4, <3>1 DEF CallHook, SnapSync!PushFile, SnapSync!DeleteFile, fileVars
  <2>2. SnapsIn(C)'
    <3>1. o.snap \in Snapshots
      BY <1>2, <1>4, HookShape
    <3>2. ASSUME NEW d \in C
          PROVE  WellFormed(Snapshots, C, s3Snaps, snapQueue,
                            [snapCall EXCEPT ![h] = <<[key |-> o.snap, data |-> d]>>])
      BY <3>1, CallForm DEF SnapsIn
    <3>3. WellFormed(Snapshots, C, s3Snaps', snapQueue', snapCall')
      BY <2>1, <3>2 DEF SnapsIn
    <3> QED BY <3>3 DEF SnapsIn
  <2>3. FilesIn(C)'
    BY <2>1 DEF FilesIn
  <2>4. \A g \in Handler : g # h => snapCall'[g] = snapCall[g]
    BY <2>1 DEF SnapsIn, WellFormed
  <2> QED BY <1>1, <1>2, <2>1, <2>2, <2>3, <2>4 DEF Hooked
<1> QED BY <1>3, <1>4

LEMMA SendRequestForm ==
    ASSUME NEW C, FilesIn(C), SnapsIn(C), Hooked, NEW h \in Handler, SendRequest(h)
    PROVE  FilesIn(C)' /\ SnapsIn(C)' /\ Hooked'
<1>1. CASE FileSync!Send(h) /\ UNCHANGED snapVars
  <2>1. /\ fileCall[h] # << >> /\ Len(fileQueue) < Capacity
        /\ fileQueue' = fileQueue \o fileCall[h] /\ fileCall' = [fileCall EXCEPT ![h] = << >>]
        /\ UNCHANGED <<s3Files, s3Snaps, snapQueue, snapCall, hooks>>
    BY <1>1 DEF FileSync!Send, FileSync!NoCall, snapVars, SendRequest
  <2>2. FilesIn(C)'
    BY <2>1, SendForm DEF FilesIn
  <2> QED BY <2>1, <2>2 DEF SnapsIn, FilesIn, WellFormed, Hooked
<1>2. CASE SnapSync!Send(h) /\ UNCHANGED fileVars
  <2>1. /\ snapCall[h] # << >> /\ Len(snapQueue) < Capacity
        /\ snapQueue' = snapQueue \o snapCall[h] /\ snapCall' = [snapCall EXCEPT ![h] = << >>]
        /\ UNCHANGED <<s3Snaps, s3Files, fileQueue, fileCall, hooks>>
    BY <1>2 DEF SnapSync!Send, SnapSync!NoCall, fileVars, SendRequest
  <2>2. SnapsIn(C)'
    BY <2>1, SendForm DEF SnapsIn
  <2> QED BY <2>1, <2>2 DEF SnapsIn, FilesIn, WellFormed, Hooked
<1> QED BY <1>1, <1>2 DEF SendRequest

LEMMA HandlerPanicsForm ==
    ASSUME NEW C, FilesIn(C), SnapsIn(C), Hooked, NEW h \in Handler, HandlerPanics(h)
    PROVE  FilesIn(C)' /\ SnapsIn(C)' /\ Hooked'
<1>0. hooks' = [hooks EXCEPT ![h] = << >>] /\ << >> \in Seq(HookCall)
  BY EmptySeq DEF HandlerPanics
<1>1. CASE FileSync!SendPanics(h) /\ UNCHANGED snapVars
  <2>1. /\ fileCall' = [fileCall EXCEPT ![h] = << >>]
        /\ UNCHANGED <<s3Files, fileQueue, s3Snaps, snapQueue, snapCall>>
    BY <1>1 DEF FileSync!SendPanics, snapVars
  <2>2. FilesIn(C)'
    BY <2>1, NoCallForm DEF FilesIn
  <2> QED BY <1>0, <2>1, <2>2 DEF SnapsIn, FilesIn, WellFormed, Hooked
<1>2. CASE SnapSync!SendPanics(h) /\ UNCHANGED fileVars
  <2>1. /\ snapCall' = [snapCall EXCEPT ![h] = << >>]
        /\ UNCHANGED <<s3Snaps, snapQueue, s3Files, fileQueue, fileCall>>
    BY <1>2 DEF SnapSync!SendPanics, fileVars
  <2>2. SnapsIn(C)'
    BY <2>1, NoCallForm DEF SnapsIn
  <2> QED BY <1>0, <2>1, <2>2 DEF SnapsIn, FilesIn, WellFormed, Hooked
<1> QED BY <1>1, <1>2 DEF HandlerPanics

LEMMA PushLoopsForm ==
    ASSUME NEW C, FilesIn(C), SnapsIn(C), Hooked, PushLoops
    PROVE  FilesIn(C)' /\ SnapsIn(C)' /\ Hooked'
<1>1. CASE FileSync!LoopStep /\ UNCHANGED snapVars
  <2>1. /\ fileQueue # << >> /\ fileQueue' = Tail(fileQueue)
        /\ \/ s3Files' = [s3Files EXCEPT ![Head(fileQueue).key] = Head(fileQueue).data]
           \/ s3Files' = s3Files
        /\ UNCHANGED <<fileCall, s3Snaps, snapQueue, snapCall, hooks>>
    BY <1>1 DEF FileSync!LoopStep, FileSync!Deliver, FileSync!DeliverFails, snapVars, PushLoops
  <2>2. FilesIn(C)'
    <3>1. /\ WellFormed(Path, C, s3Files, Tail(fileQueue), fileCall)
          /\ WellFormed(Path, C, [s3Files EXCEPT ![Head(fileQueue).key] = Head(fileQueue).data],
                        Tail(fileQueue), fileCall)
      BY <2>1, ReceiveForm DEF FilesIn
    <3>2. WellFormed(Path, C, s3Files', fileQueue', fileCall')
      BY <2>1, <3>1
    <3> QED BY <3>2 DEF FilesIn
  <2> QED BY <2>1, <2>2 DEF SnapsIn, Hooked
<1>2. CASE SnapSync!LoopStep /\ UNCHANGED fileVars
  <2>1. /\ snapQueue # << >> /\ snapQueue' = Tail(snapQueue)
        /\ \/ s3Snaps' = [s3Snaps EXCEPT ![Head(snapQueue).key] = Head(snapQueue).data]
           \/ s3Snaps' = s3Snaps
        /\ UNCHANGED <<snapCall, s3Files, fileQueue, fileCall, hooks>>
    BY <1>2 DEF SnapSync!LoopStep, SnapSync!Deliver, SnapSync!DeliverFails, fileVars, PushLoops
  <2>2. SnapsIn(C)'
    <3>1. /\ WellFormed(Snapshots, C, s3Snaps, Tail(snapQueue), snapCall)
          /\ WellFormed(Snapshots, C, [s3Snaps EXCEPT ![Head(snapQueue).key] = Head(snapQueue).data],
                        Tail(snapQueue), snapCall)
      BY <2>1, ReceiveForm DEF SnapsIn
    <3>2. WellFormed(Snapshots, C, s3Snaps', snapQueue', snapCall')
      BY <2>1, <3>1
    <3> QED BY <3>2 DEF SnapsIn
  <2> QED BY <2>1, <2>2 DEF FilesIn, Hooked
<1> QED BY <1>1, <1>2 DEF PushLoops

-----------------------------------------------------------------------------
(* Writes and restarts.                                                    *)

\* Everything the disk holds, and nothing.
Contents == {c \in File : OnDisk(c)} \union {None}

LEMMA DiskInContents == Disk => DiskIn(Contents)
  BY DEF Disk, DiskIn, Contents, OnDisk

\* A snapshot that is written replaces nothing, and what an update or a move
\* replaces is in the new snapshot.
LEMMA WriteKeepsContents ==
    ASSUME Disk, NEW h \in Handler, Write(h)
    PROVE  Disk' /\ Contents \subseteq Contents'
<1> SUFFICES Disk' /\ \A c \in File : OnDisk(c) => OnDisk(c)'
  BY DEF Contents
<1>1. ASSUME NEW i \in Id, NEW p \in Path, NEW links \in LinkSets, Create(i, p, links)
      PROVE  Disk' /\ \A c \in File : OnDisk(c) => OnDisk(c)'
  <2>1. /\ Disk' /\ UNCHANGED snaps /\ files[p] = None
        /\ \A q \in Path : q # p => files'[q] = files[q]
    BY <1>1, CreateSlots
  <2> QED BY <2>1, NoneAssumption DEF OnDisk
<1>2. ASSUME NEW p \in Path, NEW links \in LinkSets, Exists(p),
             Update(p, links, files[p].aliases, 0)
      PROVE  Disk' /\ \A c \in File : OnDisk(c) => OnDisk(c)'
  <2>1. links \in SUBSET Target /\ files[p].aliases \in SUBSET Path
    BY <1>2, AuthorAssumption DEF Disk, Exists, File
  <2>2. PICK aliases \in SUBSET Path : aliases = files[p].aliases
    BY <2>1
  <2>3. /\ Disk' /\ Exists(p) /\ ConceptVersion(p) <= MaxVersion /\ snaps'[p] = Snapshotted(p)
        /\ \A q \in Path : q # p => files'[q] = files[q] /\ snaps'[q] = snaps[q]
    BY <1>2, <2>1, <2>2, UpdateSlots
  <2>4. ASSUME NEW c \in File, OnDisk(c) PROVE OnDisk(c)'
    <3>1. CASE \E q \in Path : q # p /\ (files[q] = c \/ \E v \in Version : snaps[q][v] = c)
      BY <2>3, <3>1 DEF OnDisk
    <3>2. CASE files[p] = c \/ \E v \in Version : snaps[p][v] = c
      <4>1. \E v \in Version : Snapshotted(p)[v] = c
        BY <2>3, <3>2, NextSlot, NoneAssumption
      <4> QED BY <2>3, <4>1 DEF OnDisk
    <3> QED BY <2>4, <3>1, <3>2 DEF OnDisk
  <2> QED BY <2>3, <2>4
<1>3. ASSUME NEW m \in Batches, MoveBatch(m, [p \in Sources(m) |-> 0])
      PROVE  Disk' /\ \A c \in File : OnDisk(c) => OnDisk(c)'
  <2>1. PICK expected : expected = [p \in Sources(m) |-> 0]
    OBVIOUS
  <2>2. MoveBatch(m, expected)
    BY <1>3, <2>1
  <2>3. ASSUME NEW p \in Path, NEW q \in Path, Exists(p), ConceptVersion(p) <= MaxVersion,
               snaps'[q] = Snapshotted(p), NEW c \in File,
               files[p] = c \/ \E v \in Version : snaps[p][v] = c
        PROVE  OnDisk(c)'
    <3>1. \E v \in Version : Snapshotted(p)[v] = c
      BY <2>3, NextSlot, NoneAssumption
    <3> QED BY <2>3, <3>1 DEF OnDisk
  <2>4. ASSUME NEW c \in File, NEW p \in Path,
               files[p] = c \/ \E v \in Version : snaps[p][v] = c
        PROVE  OnDisk(c)'
    <3>1. CASE p \in Sources(m)
      <4>1. /\ m[p] \in Path /\ Exists(p) /\ ConceptVersion(p) <= MaxVersion
            /\ snaps'[m[p]] = Snapshotted(p)
        BY <2>2, <3>1, MoveSlots
      <4> QED BY <2>3, <2>4, <4>1
    <3>2. CASE p \in Relinked(m)
      <4>1. Exists(p) /\ ConceptVersion(p) <= MaxVersion /\ snaps'[p] = Snapshotted(p)
        BY <2>2, <3>2, MoveSlots
      <4> QED BY <2>3, <2>4, <4>1
    <3>3. CASE p \in Targets(m)
      <4>1. PICK q \in Sources(m) : p = m[q]
        BY <3>3 DEF Targets, Sources
      <4>2. files[p] = None /\ snaps[p] = NoHistory
        BY <2>2, <4>1, MoveSlots
      <4> QED BY <2>4, <4>2, NoneAssumption DEF NoHistory
    <3>4. CASE p \notin Sources(m) \union Targets(m) \union Relinked(m)
      <4>1. files'[p] = files[p] /\ snaps'[p] = snaps[p]
        BY <2>2, <3>4, MoveSlots
      <4> QED BY <2>4, <4>1 DEF OnDisk
    <3> QED BY <3>1, <3>2, <3>3, <3>4
  <2>5. Disk'
    BY <2>2, MoveSlots
  <2> QED BY <2>4, <2>5 DEF OnDisk
<1> QED BY <1>1, <1>2, <1>3 DEF Write

LEMMA WriteHooks ==
    ASSUME Disk, Hooked, NEW h \in Handler, Write(h)
    PROVE  Hooked' /\ UNCHANGED <<fileVars, snapVars, open>>
<1>1. UNCHANGED <<fileVars, snapVars, open>>
  BY DEF Write
<1> SUFFICES \E s \in Seq(HookCall) : hooks' = [hooks EXCEPT ![h] = s]
  BY <1>1 DEF Hooked, fileVars, snapVars
<1>2. ASSUME NEW p \in Path PROVE <<OnWrite(p)>> \in Seq(HookCall)
  BY DEF HookCall
<1>3. ASSUME NEW p \in Path, NEW v \in Version
      PROVE  <<OnWrite(p), OnSnapshot(p, v)>> \in Seq(HookCall)
  BY DEF HookCall
<1>4. ASSUME NEW p \in Path, NEW links, NEW aliases, Update(p, links, aliases, 0)
      PROVE  ConceptVersion(p) \in Version
  BY <1>4, NextSlot DEF Update, CanUpdate
<1>5. ASSUME NEW m \in Batches, NEW expected, MoveBatch(m, expected)
      PROVE  MoveHooks(m) \in Seq(HookCall)
  <2>1. Lists(MoveHooks(m), MoveCalls(m))
    BY <1>5, MoveHooksList
  <2>2. /\ Sources(m) \subseteq Path /\ Targets(m) \subseteq Path /\ Relinked(m) \subseteq Path
        /\ Carried(m) \subseteq Snapshots /\ Kept(m) \subseteq Snapshots
    BY <1>5, MoveKeys
  <2>3. \A k \in Snapshots : OnSnapshot(k[1], k[2]) \in HookCall
                             /\ OnSnapshotDelete(k[1], k[2]) \in HookCall
    BY DEF HookCall, Snapshots
  <2>4. \A p \in Path : OnWrite(p) \in HookCall /\ OnDelete(p) \in HookCall
    BY DEF HookCall
  <2>5. MoveCalls(m) \subseteq HookCall
    BY <2>2, <2>3, <2>4 DEF MoveCalls, FirstCalls
  <2> QED BY <2>1, <2>5, SeqMonotonic, Zenon DEF Lists
<1> HIDE DEF OnWrite, OnSnapshot
<1> QED BY <1>2, <1>3, <1>4, <1>5 DEF Write

\* A restart finds an empty disk and fills it from the object store.
LEMMA RestartForm ==
    ASSUME NEW C, C \subseteq File \union {None}, None \in C, FilesIn(C), SnapsIn(C), Restart
    PROVE  /\ FilesIn(C)' /\ SnapsIn(C)' /\ Hooked' /\ Disk' /\ open' = TRUE
           /\ UNCHANGED <<s3Files, s3Snaps>>
           /\ ~PullFails => /\ \A p \in Path : files'[p] = s3Files[p]
                            /\ \A p \in Path, v \in Version : snaps'[p][v] = s3Snaps[<<p, v>>]
<1>1. /\ s3Files \in [Path -> C] /\ s3Snaps \in [Snapshots -> C]
      /\ fileQueue' = << >> /\ snapQueue' = << >> /\ open' = TRUE
      /\ fileCall' = [g \in Handler |-> << >>] /\ snapCall' = [g \in Handler |-> << >>]
      /\ hooks' = [g \in Handler |-> << >>] /\ UNCHANGED <<s3Files, s3Snaps>>
  BY DEF FilesIn, SnapsIn, WellFormed, Restart
<1>2. FilesIn(C)' /\ SnapsIn(C)'
  BY <1>1, EmptyForm DEF FilesIn, SnapsIn
<1>3. Hooked'
  BY <1>1, EmptySeq DEF Hooked
<1>4. PICK skippedFiles \in IF PullFails THEN SUBSET Path ELSE {{}},
           skippedSnaps \in IF PullFails THEN SUBSET Snapshots ELSE {{}} :
             Pulled(skippedFiles, skippedSnaps)
  BY DEF Restart
<1>5. /\ files' = [p \in Path |-> IF p \in skippedFiles THEN None ELSE s3Files[p]]
      /\ snaps' = [p \in Path |-> [v \in Version |->
                      IF <<p, v>> \in skippedSnaps THEN None ELSE s3Snaps[<<p, v>>]]]
      /\ \A p \in Path, v \in Version : snaps'[p][v] # None => p \in verDirs'
  BY <1>4 DEF Pulled
<1>6. Disk'
  <2>1. \A p \in Path, v \in Version : <<p, v>> \in Snapshots
    BY DEF Snapshots
  <2>2. files' \in [Path -> File \union {None}]
    BY <1>1, <1>5
  <2>3. snaps' \in [Path -> [Version -> File \union {None}]]
    BY <1>1, <1>5, <2>1
  <2>4. ASSUME NEW p \in Path, snaps'[p] # NoHistory PROVE p \in verDirs'
    <3>1. \E v \in Version : snaps'[p][v] # None
      BY <2>3, <2>4 DEF NoHistory
    <3> QED BY <1>5, <3>1
  <2> QED BY <2>2, <2>3, <2>4 DEF Disk
<1> QED BY <1>1, <1>2, <1>3, <1>4, <1>5, <1>6

-----------------------------------------------------------------------------
(* Types.                                                                  *)

TypeInv ==
    /\ Disk /\ Hooked /\ open \in BOOLEAN
    /\ FilesIn(File \union {None}) /\ SnapsIn(File \union {None})

LEMMA TypeInvMeans == TypeInv => ServerTypeOK
<1> SUFFICES ASSUME TypeInv PROVE ServerTypeOK
  OBVIOUS
<1>1. SnapsByKey \in [Snapshots -> File \union {None}]
  BY DEF SnapsByKey, Snapshots, TypeInv, Disk
<1>2. FileSync!TypeOK
  BY DEF TypeInv, Disk, FilesIn, WellFormed, Requests, FileSync!TypeOK, FileSync!Request
<1>3. SnapSync!TypeOK
  BY <1>1 DEF TypeInv, SnapsIn, WellFormed, Requests, SnapSync!TypeOK, SnapSync!Request
<1> QED BY <1>2, <1>3 DEF TypeInv, Hooked, ServerTypeOK, FileSync!NoCall, SnapSync!NoCall

LEMMA InitServer ==
    ASSUME ServerInit, NEW C, DiskIn(C)
    PROVE  /\ Disk /\ Hooked /\ open = TRUE /\ FilesIn(C) /\ SnapsIn(C)
<1>1. Disk
  BY InitDisk DEF ServerInit
<1>2. s3Files \in [Path -> C] /\ s3Snaps \in [Snapshots -> C]
  BY <1>1 DEF ServerInit, SnapsByKey, Snapshots, Disk, DiskIn
<1>3. FilesIn(C) /\ SnapsIn(C)
  BY <1>2, EmptyForm DEF ServerInit, FilesIn, SnapsIn
<1> QED BY <1>1, <1>3, EmptySeq DEF ServerInit, Hooked

\* Every step but a write and a restart leaves the disk as it is.
QuietStep ==
    \/ \E h \in Handler : CallHook(h) \/ SendRequest(h) \/ HandlerPanics(h)
    \/ PushLoops
    \/ Shutdown
    \/ UNCHANGED serverVars

LEMMA QuietForm ==
    ASSUME NEW C, FilesIn(C), SnapsIn(C), DiskIn(C), Hooked, Disk, QuietStep
    PROVE  /\ FilesIn(C)' /\ SnapsIn(C)' /\ Hooked' /\ Disk' /\ UNCHANGED <<files, snaps>>
<1>1. UNCHANGED <<files, snaps, verDirs>>
  BY DEF QuietStep, CallHook, SendRequest, HandlerPanics, PushLoops, Shutdown, serverVars,
         bundleVars
<1>2. Disk'
  BY <1>1 DEF Disk
<1>3. CASE Shutdown \/ UNCHANGED serverVars
  BY <1>1, <1>2, <1>3 DEF Shutdown, serverVars, fileVars, snapVars, FilesIn, SnapsIn, Hooked
<1> QED
  BY <1>1, <1>2, <1>3, CallHookForm, SendRequestForm, HandlerPanicsForm, PushLoopsForm
     DEF QuietStep

LEMMA ServerSteps ==
    ASSUME [ServerNext]_serverVars
    PROVE  QuietStep \/ Restart \/ \E h \in Handler : Write(h)
  BY DEF ServerNext, QuietStep

LEMMA InitServerType == ServerInit => TypeInv
<1> DEFINE C == File \union {None}
<1> SUFFICES ASSUME ServerInit PROVE TypeInv
  OBVIOUS
<1>1. DiskIn(C)
  BY InitDisk DEF ServerInit, Disk, DiskIn
<1> QED BY <1>1, InitServer DEF TypeInv

LEMMA NextServerType == TypeInv /\ [ServerNext]_serverVars => TypeInv'
<1> DEFINE C == File \union {None}
<1> SUFFICES ASSUME TypeInv, [ServerNext]_serverVars PROVE TypeInv'
  OBVIOUS
<1>1. DiskIn(C) /\ Disk /\ Hooked /\ open \in BOOLEAN /\ FilesIn(C) /\ SnapsIn(C)
  BY DEF TypeInv, Disk, DiskIn
<1> HIDE DEF C
<1>2. CASE QuietStep
  <2>1. FilesIn(C)' /\ SnapsIn(C)' /\ Hooked' /\ Disk'
    BY <1>1, <1>2, QuietForm
  <2>2. open' \in BOOLEAN
    BY <1>1, <1>2 DEF QuietStep, CallHook, SendRequest, HandlerPanics, PushLoops, Shutdown,
       serverVars, FileSync!PushFile, FileSync!DeleteFile, SnapSync!PushFile,
       SnapSync!DeleteFile, FileSync!Send, SnapSync!Send, FileSync!SendPanics,
       SnapSync!SendPanics, FileSync!LoopStep, SnapSync!LoopStep, FileSync!Deliver,
       FileSync!DeliverFails, SnapSync!Deliver, SnapSync!DeliverFails
  <2> QED BY <2>1, <2>2 DEF TypeInv, C
<1>3. CASE Restart
  <2>1. FilesIn(C)' /\ SnapsIn(C)' /\ Hooked' /\ Disk' /\ open' = TRUE
    BY <1>1, <1>3, RestartForm DEF C
  <2> QED BY <2>1 DEF TypeInv, C
<1>4. ASSUME NEW h \in Handler, Write(h) PROVE TypeInv'
  <2>1. Disk' /\ Hooked' /\ UNCHANGED <<fileVars, snapVars, open>>
    BY <1>1, <1>4, WriteKeepsContents, WriteHooks
  <2>2. FilesIn(C)' /\ SnapsIn(C)' /\ open' \in BOOLEAN
    BY <1>1, <2>1 DEF FilesIn, SnapsIn, fileVars, snapVars
  <2> QED BY <2>1, <2>2 DEF TypeInv, C
<1> QED BY <1>2, <1>3, <1>4, ServerSteps

\* The disk, both syncers and the hooks are well-typed, for any number of
\* handlers, whatever uploads and downloads fail, in every order of shutdowns,
\* crashes and restarts; and a handler never has requests for both syncers.
THEOREM ServerTypeCorrect == ServerSpec => []ServerTypeOK
<1> QED BY InitServerType, NextServerType, TypeInvMeans, PTL DEF ServerSpec

-----------------------------------------------------------------------------
(* What the object store holds.                                            *)

\* All that is in the object store or on its way there is on the disk.
EarlierInv == Disk /\ Hooked /\ FilesIn(Contents) /\ SnapsIn(Contents)

\* A pod that dies with requests in its channels throws a concept back to an
\* earlier version the disk had, and never to anything else: whatever
\* handlers write, in whatever order their uploads run or fail, and however
\* often the server is stopped or dies, every object in the store is a file
\* or a snapshot the disk still has, as long as startup pulls every object.
THEOREM StoreHoldsEarlierVersions ==
    ASSUME ~PullFails
    PROVE  ServerSpec => []StoreIsAnEarlierVersion
<1>1. ServerInit => EarlierInv
  <2> SUFFICES ASSUME ServerInit PROVE EarlierInv
    OBVIOUS
  <2>1. PICK C : C = Contents
    OBVIOUS
  <2>2. DiskIn(C)
    BY <2>1, InitDisk, DiskInContents DEF ServerInit
  <2>3. Disk /\ Hooked /\ FilesIn(C) /\ SnapsIn(C)
    BY <2>2, InitServer
  <2> QED BY <2>1, <2>3 DEF EarlierInv
<1>2. EarlierInv /\ [ServerNext]_serverVars => EarlierInv'
  <2> SUFFICES ASSUME EarlierInv, [ServerNext]_serverVars PROVE EarlierInv'
    OBVIOUS
  <2>1. PICK C : C = Contents
    OBVIOUS
  <2>2. Disk /\ Hooked /\ FilesIn(C) /\ SnapsIn(C) /\ DiskIn(C)
    BY <2>1, DiskInContents DEF EarlierInv
  <2>3. C \subseteq File \union {None} /\ None \in C
    BY <2>1 DEF Contents
  <2>4. CASE QuietStep
    <3>1. FilesIn(C)' /\ SnapsIn(C)' /\ Hooked' /\ Disk' /\ UNCHANGED <<files, snaps>>
      BY <2>2, <2>4, QuietForm
    <3>2. Contents' = C
      BY <2>1, <3>1 DEF Contents, OnDisk
    <3> QED BY <3>1, <3>2 DEF EarlierInv, FilesIn, SnapsIn
  <2>5. CASE Restart
    <3>1. /\ Hooked' /\ Disk' /\ UNCHANGED <<s3Files, s3Snaps>>
          /\ \A p \in Path : files'[p] = s3Files[p]
          /\ \A p \in Path, v \in Version : snaps'[p][v] = s3Snaps[<<p, v>>]
      BY <2>2, <2>3, <2>5, RestartForm
    <3>2. s3Files \in [Path -> C] /\ s3Snaps \in [Snapshots -> C]
      BY <2>2 DEF FilesIn, SnapsIn, WellFormed
    <3>3. s3Files \in [Path -> Contents']
      BY <2>3, <3>1, <3>2 DEF Contents, OnDisk
    <3>4. s3Snaps \in [Snapshots -> Contents']
      <4>1. ASSUME NEW k \in Snapshots PROVE s3Snaps[k] \in Contents'
        <5>1. k = <<k[1], k[2]>> /\ k[1] \in Path /\ k[2] \in Version
          BY DEF Snapshots
        <5>2. s3Snaps[k] = snaps'[k[1]][k[2]] /\ s3Snaps[k] \in C
          BY <3>1, <3>2, <5>1
        <5> QED BY <2>3, <5>1, <5>2 DEF Contents, OnDisk
      <4> QED BY <3>2, <4>1
    <3>5. FilesIn(Contents)' /\ SnapsIn(Contents)'
      BY <2>5, <3>1, <3>3, <3>4, EmptyForm DEF Restart, FilesIn, SnapsIn
    <3> QED BY <3>1, <3>5 DEF EarlierInv
  <2>6. ASSUME NEW h \in Handler, Write(h) PROVE EarlierInv'
    <3>1. Disk' /\ Hooked' /\ UNCHANGED <<fileVars, snapVars>> /\ C \subseteq Contents'
      BY <2>1, <2>2, <2>6, WriteKeepsContents, WriteHooks
    <3>2. PICK D : D = Contents'
      OBVIOUS
    <3>3. FilesIn(D) /\ SnapsIn(D)
      BY <2>2, <3>1, <3>2, MoreForm DEF FilesIn, SnapsIn
    <3> QED BY <3>1, <3>2, <3>3 DEF EarlierInv, FilesIn, SnapsIn, fileVars, snapVars
  <2> QED BY <2>4, <2>5, <2>6, ServerSteps
<1>3. EarlierInv => StoreIsAnEarlierVersion
  BY DEF EarlierInv, FilesIn, SnapsIn, WellFormed, Contents, StoreIsAnEarlierVersion
<1> QED BY <1>1, <1>2, <1>3, PTL DEF ServerSpec

-----------------------------------------------------------------------------
(* What a key's object will be once the channel is empty.                  *)

\* The n-th value of key k: its object's for 0, a request's for n > 0.
Value(store, queue, k, n) == IF n = 0 THEN store[k] ELSE queue[n].data

NoneAfter(queue, k, n) == \A j \in (n + 1)..Len(queue) : queue[j].key # k

About(queue, k, n) == n = 0 \/ queue[n].key = k

\* The youngest value of key k is in X.
Youngest(store, queue, k, X) ==
    \A n \in 0..Len(queue) :
        About(queue, k, n) /\ NoneAfter(queue, k, n) => Value(store, queue, k, n) \in X

\* Each value of key k is the one before it again, or replaces nothing, or
\* is nothing.
NeverReplaced(store, queue, k) ==
    \A n \in 0..Len(queue) : \A j \in (n + 1)..Len(queue) :
        /\ About(queue, k, n) /\ queue[j].key = k
        /\ \A i \in (n + 1)..(j - 1) : queue[i].key # k
        /\ Value(store, queue, k, n) # None
        => queue[j].data \in {Value(store, queue, k, n), None}

LEMMA YoungestSent ==
    ASSUME NEW K, NEW C, NEW store, NEW queue \in Seq(Requests(K, C)),
           NEW r \in Requests(K, C), NEW k \in K, NEW X,
           IF r.key = k THEN r.data \in X ELSE Youngest(store, queue, k, X)
    PROVE  Youngest(store, queue \o <<r>>, k, X)
<1> DEFINE longer == queue \o <<r>>
           size == Len(queue)
<1>1. /\ size \in Nat /\ Len(longer) = size + 1 /\ longer[size + 1] = r
      /\ \A n \in 1..size : longer[n] = queue[n]
  BY Sent
<1> HIDE DEF longer, size
<1> SUFFICES ASSUME NEW n \in 0..(size + 1), About(longer, k, n), NoneAfter(longer, k, n)
             PROVE  Value(store, longer, k, n) \in X
  BY <1>1 DEF Youngest, longer
<1>2. CASE n = size + 1
  BY <1>1, <1>2 DEF About, Value
<1>3. CASE n \in 0..size
  <2>1. size + 1 \in (n + 1)..Len(longer)
    BY <1>1, <1>3
  <2>2. r.key # k
    BY <1>1, <2>1 DEF NoneAfter
  <2>3. About(queue, k, n) /\ Value(store, queue, k, n) = Value(store, longer, k, n)
    BY <1>1, <1>3 DEF About, Value
  <2>4. \A j \in (n + 1)..size : j \in (n + 1)..Len(longer) /\ j \in 1..size
    BY <1>1, <1>3
  <2>5. NoneAfter(queue, k, n)
    BY <1>1, <2>4 DEF NoneAfter, size
  <2> QED BY <1>3, <2>2, <2>3, <2>5 DEF Youngest, size
<1> QED BY <1>1, <1>2, <1>3

LEMMA YoungestReceived ==
    ASSUME NEW K, NEW C, NEW store \in [K -> C], NEW queue \in Seq(Requests(K, C)),
           queue # << >>, NEW k \in K, NEW X, Youngest(store, queue, k, X)
    PROVE  Youngest([store EXCEPT ![Head(queue).key] = Head(queue).data], Tail(queue), k, X)
<1> DEFINE rest == Tail(queue)
           after == [store EXCEPT ![Head(queue).key] = Head(queue).data]
           size == Len(queue)
<1>1. /\ Head(queue) = queue[1] /\ size \in Nat /\ size >= 1 /\ Len(rest) = size - 1
      /\ \A n \in 1..Len(rest) : n + 1 \in 1..size /\ rest[n] = queue[n + 1]
      /\ Head(queue) \in Requests(K, C)
  BY Received
<1>2. after[k] = IF queue[1].key = k THEN queue[1].data ELSE store[k]
  BY <1>1 DEF Requests
<1> HIDE DEF rest, after, size
<1> SUFFICES ASSUME NEW n \in 0..Len(rest), About(rest, k, n), NoneAfter(rest, k, n)
             PROVE  Value(after, rest, k, n) \in X
  BY DEF Youngest, rest, after
<1>3. \A j \in (n + 2)..size : j - 1 \in (n + 1)..Len(rest) /\ j - 1 \in 1..Len(rest)
                                /\ (j - 1) + 1 = j
  BY <1>1
<1>4. \A j \in (n + 2)..size : queue[j].key # k
  <2>1. ASSUME NEW j \in (n + 2)..size PROVE queue[j].key # k
    <3>1. PICK i \in (n + 1)..Len(rest) : i = j - 1
      BY <1>3
    <3>2. rest[i] = queue[j]
      BY <1>1, <1>3, <3>1
    <3> QED BY <3>1, <3>2 DEF NoneAfter
  <2> QED BY <2>1
<1>5. (n + 1) + 1 = n + 2 /\ n + 1 \in 1..size /\ n + 1 # 0
  BY <1>1
<1>6. CASE n # 0 \/ queue[1].key = k
  <2>1. About(queue, k, n + 1)
    BY <1>1, <1>5, <1>6 DEF About
  <2>2. NoneAfter(queue, k, n + 1)
    BY <1>4, <1>5 DEF NoneAfter, size
  <2>3. Value(after, rest, k, n) = Value(store, queue, k, n + 1)
    BY <1>1, <1>2, <1>5, <1>6 DEF Value
  <2>4. n + 1 \in 0..size
    BY <1>5
  <2> QED BY <2>1, <2>2, <2>3, <2>4 DEF Youngest, size
<1>7. CASE n = 0 /\ queue[1].key # k
  <2>1. \A j \in 1..size : queue[j].key # k
    <3>1. \A j \in 1..size : j = 1 \/ j \in (n + 2)..size
      BY <1>1, <1>7
    <3> QED BY <1>4, <1>7, <3>1
  <2>2. About(queue, k, 0) /\ NoneAfter(queue, k, 0)
    BY <1>1, <2>1 DEF About, NoneAfter, size
  <2>3. Value(after, rest, k, n) = Value(store, queue, k, 0)
    BY <1>2, <1>7 DEF Value
  <2>4. 0 \in 0..size
    BY <1>1
  <2> QED BY <2>2, <2>3, <2>4 DEF Youngest, size
<1> QED BY <1>6, <1>7

LEMMA YoungestEmpty ==
    ASSUME NEW store, NEW k, NEW X
    PROVE  Youngest(store, << >>, k, X) <=> store[k] \in X
<1>1. Len(<< >>) = 0 /\ 0..0 = {0} /\ (0 + 1)..0 = {}
  OBVIOUS
<1> QED BY <1>1 DEF Youngest, About, NoneAfter, Value

LEMMA NeverReplacedSent ==
    ASSUME NEW K, NEW C, NEW store, NEW queue \in Seq(Requests(K, C)),
           NEW r \in Requests(K, C), NEW k \in K, NeverReplaced(store, queue, k),
           r.key = k /\ r.data # None => Youngest(store, queue, k, {None, r.data})
    PROVE  NeverReplaced(store, queue \o <<r>>, k)
<1> DEFINE longer == queue \o <<r>>
           size == Len(queue)
<1>1. /\ size \in Nat /\ Len(longer) = size + 1 /\ longer[size + 1] = r
      /\ \A n \in 1..size : longer[n] = queue[n]
  BY Sent
<1> HIDE DEF longer, size
<1> SUFFICES ASSUME NEW n \in 0..(size + 1), NEW j \in (n + 1)..(size + 1),
                    About(longer, k, n), longer[j].key = k,
                    \A i \in (n + 1)..(j - 1) : longer[i].key # k,
                    Value(store, longer, k, n) # None
             PROVE  longer[j].data \in {Value(store, longer, k, n), None}
  BY <1>1 DEF NeverReplaced, longer
<1>2. /\ n \in 0..size /\ j \in 1..(size + 1)
      /\ \A i \in (n + 1)..(j - 1) : i \in 1..size
  BY <1>1
<1>3. About(queue, k, n) /\ Value(store, queue, k, n) = Value(store, longer, k, n)
  BY <1>1, <1>2 DEF About, Value
<1>4. \A i \in (n + 1)..(j - 1) : queue[i].key # k
  BY <1>1, <1>2
<1>5. CASE j = size + 1
  <2>1. longer[j] = r /\ r.key = k /\ j - 1 = size
    BY <1>1, <1>5
  <2>2. NoneAfter(queue, k, n)
    BY <1>4, <2>1 DEF NoneAfter, size
  <2>3. CASE r.data # None
    <3>1. Value(store, queue, k, n) \in {None, r.data}
      BY <1>2, <1>3, <2>1, <2>2, <2>3 DEF Youngest, size
    <3> QED BY <1>3, <2>1, <3>1
  <2> QED BY <2>1, <2>3
<1>6. CASE j # size + 1
  <2>1. j \in 1..size /\ j \in (n + 1)..size
    BY <1>1, <1>6
  <2>2. longer[j] = queue[j]
    BY <1>1, <2>1
  <2> QED BY <1>2, <1>3, <1>4, <2>1, <2>2 DEF NeverReplaced, size
<1> QED BY <1>5, <1>6

LEMMA NeverReplacedReceived ==
    ASSUME NEW K, NEW C, NEW store \in [K -> C], NEW queue \in Seq(Requests(K, C)),
           queue # << >>, NEW k \in K, NeverReplaced(store, queue, k)
    PROVE  /\ NeverReplaced([store EXCEPT ![Head(queue).key] = Head(queue).data],
                            Tail(queue), k)
           /\ store[k] # None =>
                 [store EXCEPT ![Head(queue).key] = Head(queue).data][k] \in {store[k], None}
<1> DEFINE rest == Tail(queue)
           after == [store EXCEPT ![Head(queue).key] = Head(queue).data]
           size == Len(queue)
<1>1. /\ Head(queue) = queue[1] /\ size \in Nat /\ size >= 1 /\ Len(rest) = size - 1
      /\ \A n \in 1..Len(rest) : n + 1 \in 1..size /\ rest[n] = queue[n + 1]
      /\ Head(queue) \in Requests(K, C)
  BY Received
<1>2. after[k] = IF queue[1].key = k THEN queue[1].data ELSE store[k]
  BY <1>1 DEF Requests
<1> HIDE DEF rest, after, size
<1>3. store[k] # None => after[k] \in {store[k], None}
  <2> SUFFICES ASSUME store[k] # None, queue[1].key = k PROVE queue[1].data \in {store[k], None}
    BY <1>2
  <2>1. 0 \in 0..size /\ 1 \in (0 + 1)..size /\ (0 + 1)..(1 - 1) = {}
    BY <1>1
  <2>2. About(queue, k, 0) /\ Value(store, queue, k, 0) = store[k]
    BY DEF About, Value
  <2> QED BY <2>1, <2>2 DEF NeverReplaced, size
<1>4. NeverReplaced(after, rest, k)
  <2> SUFFICES ASSUME NEW n \in 0..Len(rest), NEW j \in (n + 1)..Len(rest),
                      About(rest, k, n), rest[j].key = k,
                      \A i \in (n + 1)..(j - 1) : rest[i].key # k,
                      Value(after, rest, k, n) # None
               PROVE  rest[j].data \in {Value(after, rest, k, n), None}
    BY DEF NeverReplaced
  <2>1. rest[j] = queue[j + 1] /\ j + 1 \in (n + 2)..size /\ (j + 1) - 1 = j
    BY <1>1
  <2>2. \A i \in (n + 2)..j : i - 1 \in (n + 1)..(j - 1) /\ i - 1 \in 1..Len(rest)
                               /\ (i - 1) + 1 = i
    BY <1>1
  <2>3. ASSUME NEW i \in (n + 2)..j PROVE queue[i].key # k
    <3>1. PICK b \in (n + 1)..(j - 1) : b = i - 1
      BY <2>2
    <3>2. rest[b] = queue[i]
      BY <1>1, <2>2, <3>1
    <3> QED BY <3>1, <3>2
  <2>4. (n + 1) + 1 = n + 2 /\ n + 1 \in 1..size /\ n + 1 # 0 /\ n + 1 \in 0..size
    BY <1>1
  <2>5. CASE n # 0 \/ queue[1].key = k
    <3>1. About(queue, k, n + 1)
      BY <1>1, <2>4, <2>5 DEF About
    <3>2. Value(after, rest, k, n) = Value(store, queue, k, n + 1)
      BY <1>1, <1>2, <2>4, <2>5 DEF Value
    <3>3. j + 1 \in ((n + 1) + 1)..Len(queue) /\ n + 1 \in 0..Len(queue)
          /\ \A i \in ((n + 1) + 1)..((j + 1) - 1) : queue[i].key # k
      BY <2>1, <2>3, <2>4 DEF size
    <3> QED BY <2>1, <3>1, <3>2, <3>3 DEF NeverReplaced
  <2>6. CASE n = 0 /\ queue[1].key # k
    <3>1. Value(after, rest, k, n) = Value(store, queue, k, 0) /\ About(queue, k, 0)
      BY <1>2, <2>6 DEF Value, About
    <3>2. \A i \in (0 + 1)..((j + 1) - 1) : queue[i].key # k
      <4>1. \A i \in (0 + 1)..((j + 1) - 1) : i = 1 \/ i \in (n + 2)..j
        BY <2>1, <2>6
      <4> QED BY <2>3, <2>6, <4>1
    <3>3. j + 1 \in (0 + 1)..Len(queue) /\ 0 \in 0..Len(queue)
      BY <1>1, <2>1, <2>6 DEF size
    <3> QED BY <2>1, <3>1, <3>2, <3>3 DEF NeverReplaced
  <2> QED BY <2>5, <2>6
<1> QED BY <1>3, <1>4 DEF rest, after

LEMMA NeverReplacedEmpty ==
    ASSUME NEW store, NEW k PROVE NeverReplaced(store, << >>, k)
<1>1. Len(<< >>) = 0 /\ 0..0 = {0} /\ (0 + 1)..0 = {}
  OBVIOUS
<1> QED BY <1>1 DEF NeverReplaced

-----------------------------------------------------------------------------
(* One handler: its hooks see to every key it has changed.                 *)

\* The object of each key will be what the disk has, or the handler is about
\* to send that, or has a hook call for the key to make: P are the keys it
\* will push, D those it will delete.
Following(K, disk, store, queue, sent, P, D) ==
    /\ \A k \in K : (k \in P => disk[k] # None) /\ (k \in D => disk[k] = None)
    /\ \A k \in K \ (P \union D) :
          (sent # << >> /\ sent[1].key = k) \/ Youngest(store, queue, k, {disk[k]})
    /\ sent # << >> => sent[1].data = disk[sent[1].key]

\* The write: the handler has a hook for all that changes.
LEMMA WriteFollowing ==
    ASSUME NEW K, NEW disk, NEW store, NEW queue, Following(K, disk, store, queue, << >>, {}, {}),
           NEW after, NEW P, NEW D,
           \A k \in K : /\ k \in P => after[k] # None
                        /\ k \in D => after[k] = None
                        /\ k \notin P \union D => after[k] = disk[k]
    PROVE  Following(K, after, store, queue, << >>, P, D)
BY DEF Following

\* A hook call.
LEMMA HookFollowing ==
    ASSUME NEW K, NEW disk, NEW store, NEW queue, NEW P, NEW D,
           Following(K, disk, store, queue, << >>, P, D),
           NEW k \in P \union D, k \in K, NEW P2, NEW D2,
           P2 \subseteq P, D2 \subseteq D, P \union D \subseteq (P2 \union D2) \union {k},
           NEW d, d = disk[k]
    PROVE  Following(K, disk, store, queue, <<[key |-> k, data |-> d]>>, P2, D2)
<1> DEFINE sent == <<[key |-> k, data |-> d]>>
<1>1. sent # << >> /\ sent[1].key = k /\ sent[1].data = d
  OBVIOUS
<1> HIDE DEF sent
<1>2. Following(K, disk, store, queue, sent, P2, D2)
  BY <1>1 DEF Following
<1> QED BY <1>2 DEF sent

\* The channel takes the request.
LEMMA SendFollowing ==
    ASSUME NEW K, NEW C, NEW disk, NEW store, NEW queue \in Seq(Requests(K, C)),
           NEW r \in Requests(K, C), NEW P, NEW D,
           Following(K, disk, store, queue, <<r>>, P, D)
    PROVE  Following(K, disk, store, queue \o <<r>>, << >>, P, D)
<1>1. <<r>> # << >> /\ <<r>>[1] = r
  OBVIOUS
<1>2. r.data = disk[r.key]
  BY <1>1 DEF Following
<1>3. ASSUME NEW k \in K \ (P \union D)
      PROVE  Youngest(store, queue \o <<r>>, k, {disk[k]})
  <2>1. r.key = k \/ Youngest(store, queue, k, {disk[k]})
    BY <1>1 DEF Following
  <2> QED BY <1>2, <2>1, YoungestSent
<1> QED BY <1>3 DEF Following

\* The push loop carries a request out.
LEMMA DeliverFollowing ==
    ASSUME NEW K, NEW C, NEW disk, NEW store \in [K -> C], NEW queue \in Seq(Requests(K, C)),
           queue # << >>, NEW sent, NEW P, NEW D,
           Following(K, disk, store, queue, sent, P, D)
    PROVE  Following(K, disk, [store EXCEPT ![Head(queue).key] = Head(queue).data],
                     Tail(queue), sent, P, D)
<1> DEFINE after == [store EXCEPT ![Head(queue).key] = Head(queue).data]
<1>1. \A k \in K : Youngest(store, queue, k, {disk[k]})
                     => Youngest(after, Tail(queue), k, {disk[k]})
  BY YoungestReceived
<1> HIDE DEF after
<1>2. Following(K, disk, after, Tail(queue), sent, P, D)
  BY <1>1 DEF Following
<1> QED BY <1>2 DEF after

\* With nothing on its way, the store follows a disk it agrees with.
LEMMA EqualFollowing ==
    ASSUME NEW K, NEW disk, NEW store
    PROVE  Following(K, disk, store, << >>, << >>, {}, {})
             <=> \A k \in K : store[k] = disk[k]
<1>1. \A k \in K : Youngest(store, << >>, k, {disk[k]}) <=> store[k] = disk[k]
  BY YoungestEmpty
<1> QED BY <1>1 DEF Following

\* The hook calls in s.
Members(s) == {s[n] : n \in 1..Len(s)}

Ahead(h) == Members(hooks[h])

FilesPushed(h) == {p \in Path : OnWrite(p) \in Ahead(h)}
FilesDeleted(h) == {p \in Path : OnDelete(p) \in Ahead(h)}
SnapsPushed(h) == {k \in Snapshots : OnSnapshot(k[1], k[2]) \in Ahead(h)}
SnapsDeleted(h) == {k \in Snapshots : OnSnapshotDelete(k[1], k[2]) \in Ahead(h)}

\* Hook calls differ when their kinds, paths or numbers do.
LEMMA HookNames ==
    /\ \A p, q \in Path :
          /\ OnWrite(p) = OnWrite(q) => p = q
          /\ OnDelete(p) = OnDelete(q) => p = q
          /\ OnWrite(p) # OnDelete(q)
    /\ \A k, l \in Snapshots :
          /\ OnSnapshot(k[1], k[2]) = OnSnapshot(l[1], l[2]) => k = l
          /\ OnSnapshotDelete(k[1], k[2]) = OnSnapshotDelete(l[1], l[2]) => k = l
          /\ OnSnapshot(k[1], k[2]) # OnSnapshotDelete(l[1], l[2])
    /\ \A p \in Path : \A k \in Snapshots :
          /\ OnWrite(p) # OnSnapshot(k[1], k[2]) /\ OnWrite(p) # OnSnapshotDelete(k[1], k[2])
          /\ OnDelete(p) # OnSnapshot(k[1], k[2]) /\ OnDelete(p) # OnSnapshotDelete(k[1], k[2])
<1>1. ASSUME NEW p, NEW v
      PROVE  /\ OnWrite(p).do = "push" /\ OnWrite(p).on = "files" /\ OnWrite(p).file = p
             /\ OnDelete(p).do = "delete" /\ OnDelete(p).on = "files" /\ OnDelete(p).file = p
             /\ OnSnapshot(p, v).do = "push" /\ OnSnapshot(p, v).on = "snaps"
             /\ OnSnapshot(p, v).snap = <<p, v>>
             /\ OnSnapshotDelete(p, v).do = "delete" /\ OnSnapshotDelete(p, v).on = "snaps"
             /\ OnSnapshotDelete(p, v).snap = <<p, v>>
  BY DEF OnWrite, OnDelete, OnSnapshot, OnSnapshotDelete
<1>2. "push" # "delete" /\ "files" # "snaps"
  OBVIOUS
<1>3. \A k \in Snapshots : k = <<k[1], k[2]>>
  BY DEF Snapshots
<1>4. ASSUME NEW p \in Path, NEW q \in Path
      PROVE  /\ OnWrite(p) = OnWrite(q) => p = q
             /\ OnDelete(p) = OnDelete(q) => p = q
             /\ OnWrite(p) # OnDelete(q)
  <2>1. /\ OnWrite(p).file = p /\ OnWrite(q).file = q /\ OnWrite(p).do = "push"
        /\ OnDelete(p).file = p /\ OnDelete(q).file = q /\ OnDelete(q).do = "delete"
    BY DEF OnWrite, OnDelete
  <2> QED BY <1>2, <2>1
<1>5. ASSUME NEW k \in Snapshots, NEW l \in Snapshots
      PROVE  /\ OnSnapshot(k[1], k[2]) = OnSnapshot(l[1], l[2]) => k = l
             /\ OnSnapshotDelete(k[1], k[2]) = OnSnapshotDelete(l[1], l[2]) => k = l
             /\ OnSnapshot(k[1], k[2]) # OnSnapshotDelete(l[1], l[2])
  BY <1>1, <1>2, <1>3
<1>6. ASSUME NEW p \in Path, NEW k \in Snapshots
      PROVE  /\ OnWrite(p) # OnSnapshot(k[1], k[2])
             /\ OnWrite(p) # OnSnapshotDelete(k[1], k[2])
             /\ OnDelete(p) # OnSnapshot(k[1], k[2])
             /\ OnDelete(p) # OnSnapshotDelete(k[1], k[2])
  BY <1>1, <1>2
<1> QED BY <1>4, <1>5, <1>6

\* The snapshots of p and v, as keys.
LEMMA SnapKeys ==
    /\ \A p \in Path, v \in Version :
          <<p, v>> \in Snapshots /\ <<p, v>>[1] = p /\ <<p, v>>[2] = v
    /\ \A k \in Snapshots : /\ k[1] \in Path /\ k[2] \in Version /\ k = <<k[1], k[2]>>
                            /\ SnapsByKey[k] = snaps[k[1]][k[2]]
  BY DEF Snapshots, SnapsByKey

LEMMA MembersTail ==
    ASSUME NEW S, NEW s \in Seq(S), s # << >>
    PROVE  /\ Head(s) \in Members(s) /\ Members(Tail(s)) \subseteq Members(s)
           /\ Members(s) \subseteq Members(Tail(s)) \union {Head(s)}
<1>1. /\ Len(s) \in Nat /\ Len(s) >= 1 /\ Len(Tail(s)) = Len(s) - 1
      /\ \A n \in 1..Len(Tail(s)) : Tail(s)[n] = s[n + 1]
      /\ Head(s) = s[1]
  BY EmptySeq
<1>2. \A n \in 1..Len(s) : n = 1 \/ (n - 1 \in 1..Len(Tail(s)) /\ (n - 1) + 1 = n)
  BY <1>1
<1>3. \A n \in 1..Len(Tail(s)) : n + 1 \in 1..Len(s)
  BY <1>1
<1>4. 1 \in 1..Len(s)
  BY <1>1
<1>5. ASSUME NEW n \in 1..Len(s) PROVE s[n] \in Members(Tail(s)) \union {Head(s)}
  <2>1. CASE n = 1
    BY <1>1, <2>1
  <2>2. CASE n # 1
    <3>1. PICK j \in 1..Len(Tail(s)) : j + 1 = n
      BY <1>2, <2>2
    <3>2. Tail(s)[j] = s[n]
      BY <1>1, <3>1
    <3> QED BY <3>1, <3>2 DEF Members
  <2> QED BY <2>1, <2>2
<1>6. Members(s) \subseteq Members(Tail(s)) \union {Head(s)}
  BY <1>5 DEF Members
<1>7. Members(Tail(s)) \subseteq Members(s) /\ Head(s) \in Members(s)
  BY <1>1, <1>3, <1>4 DEF Members
<1> QED BY <1>6, <1>7

LEMMA MembersFew ==
    ASSUME NEW a, NEW b
    PROVE  Members(<< >>) = {} /\ Members(<<a>>) = {a} /\ Members(<<a, b>>) = {a, b}
<1>1. Len(<< >>) = 0 /\ Len(<<a>>) = 1 /\ Len(<<a, b>>) = 2 /\ 1..0 = {} /\ 1..1 = {1}
      /\ 1..2 = {1, 2} /\ <<a>>[1] = a /\ <<a, b>>[1] = a /\ <<a, b>>[2] = b
  OBVIOUS
<1> QED BY <1>1 DEF Members

LEMMA MembersListed ==
    ASSUME NEW s, NEW A, Lists(s, A) PROVE Members(s) = A
<1>1. \A n \in 1..Len(s) : s[n] \in A
  BY ElementOfSeq, Zenon DEF Lists
<1> QED BY <1>1 DEF Lists, Members

\* A write changes only what it has hook calls for: a file or snapshot it will
\* push is there, one it will delete is not, and a snapshot it will push was
\* not there before.
LEMMA WriteChanges ==
    ASSUME Disk, Hooked, NEW h \in Handler, Write(h), NEW A, A = Ahead(h)'
    PROVE  /\ \A p \in Path :
                 /\ OnWrite(p) \in A => files'[p] # None
                 /\ OnDelete(p) \in A => files'[p] = None
                 /\ OnWrite(p) \notin A /\ OnDelete(p) \notin A => files'[p] = files[p]
           /\ \A k \in Snapshots :
                 /\ OnSnapshot(k[1], k[2]) \in A
                       => SnapsByKey'[k] # None /\ SnapsByKey[k] = None
                 /\ OnSnapshotDelete(k[1], k[2]) \in A => SnapsByKey'[k] = None
                 /\ OnSnapshot(k[1], k[2]) \notin A /\ OnSnapshotDelete(k[1], k[2]) \notin A
                       => SnapsByKey'[k] = SnapsByKey[k]
<1>0. \A s : hooks' = [hooks EXCEPT ![h] = s] => A = Members(s)
  BY DEF Hooked, Ahead
<1>a. \A k \in Snapshots : /\ k[1] \in Path /\ k[2] \in Version /\ k = <<k[1], k[2]>>
                           /\ SnapsByKey[k] = snaps[k[1]][k[2]]
                           /\ SnapsByKey'[k] = snaps'[k[1]][k[2]]
  BY SnapKeys DEF SnapsByKey
<1>1. ASSUME NEW i \in Id, NEW p \in Path, NEW links \in LinkSets, Create(i, p, links),
             A = {OnWrite(p)}
      PROVE  /\ \A q \in Path :
                   /\ OnWrite(q) \in A => files'[q] # None
                   /\ OnDelete(q) \notin A
                   /\ OnWrite(q) \notin A => files'[q] = files[q]
             /\ \A k \in Snapshots :
                   /\ OnSnapshot(k[1], k[2]) \notin A /\ OnSnapshotDelete(k[1], k[2]) \notin A
                   /\ SnapsByKey'[k] = SnapsByKey[k]
  <2>1. /\ UNCHANGED snaps /\ files'[p] \in File
        /\ \A q \in Path : q # p => files'[q] = files[q]
    BY <1>1, CreateSlots
  <2> QED BY <1>a, <1>1, <2>1, HookNames, NoneAssumption
<1>2. ASSUME NEW p \in Path, NEW links \in LinkSets, Exists(p),
             Update(p, links, files[p].aliases, 0),
             A = {OnWrite(p), OnSnapshot(p, ConceptVersion(p))}
      PROVE  /\ \A q \in Path :
                   /\ OnWrite(q) \in A => files'[q] # None
                   /\ OnDelete(q) \notin A
                   /\ OnWrite(q) \notin A => files'[q] = files[q]
             /\ \A k \in Snapshots :
                   /\ OnSnapshot(k[1], k[2]) \in A
                         => SnapsByKey'[k] # None /\ SnapsByKey[k] = None
                   /\ OnSnapshotDelete(k[1], k[2]) \notin A
                   /\ OnSnapshot(k[1], k[2]) \notin A => SnapsByKey'[k] = SnapsByKey[k]
  <2>1. links \in SUBSET Target /\ files[p].aliases \in SUBSET Path
    BY <1>2, AuthorAssumption DEF Disk, Exists, File
  <2>2. PICK aliases \in SUBSET Path : aliases = files[p].aliases
    BY <2>1
  <2>3. /\ Exists(p) /\ ConceptVersion(p) <= MaxVersion /\ files'[p] \in File
        /\ snaps'[p] = Snapshotted(p)
        /\ \A q \in Path : q # p => files'[q] = files[q] /\ snaps'[q] = snaps[q]
    BY <1>2, <2>1, <2>2, UpdateSlots
  <2>4. PICK n : n = ConceptVersion(p)
    OBVIOUS
  <2>5. /\ n \in Version /\ snaps[p][n] = None /\ files[p] \in File /\ snaps'[p][n] = files[p]
        /\ \A v \in Version : v # n => snaps'[p][v] = snaps[p][v]
    BY <2>3, <2>4, NextSlot
  <2>6. PICK l : l = <<p, n>>
    OBVIOUS
  <2>7. l \in Snapshots /\ l[1] = p /\ l[2] = n
    BY <2>5, <2>6, SnapKeys
  <2>8. A = {OnWrite(p), OnSnapshot(l[1], l[2])}
    BY <1>2, <2>4, <2>7
  <2>9. \A q \in Path : OnDelete(q) \notin A /\ (OnWrite(q) \in A <=> q = p)
    BY <2>7, <2>8, HookNames
  <2>10. \A k \in Snapshots : /\ OnSnapshotDelete(k[1], k[2]) \notin A
                              /\ OnSnapshot(k[1], k[2]) \in A <=> k = l
    BY <2>7, <2>8, HookNames
  <2>11. \A k \in Snapshots : k # l => SnapsByKey'[k] = SnapsByKey[k]
    BY <1>a, <2>3, <2>5, <2>6
  <2>12. SnapsByKey'[l] # None /\ SnapsByKey[l] = None
    BY <1>a, <2>5, <2>7, NoneAssumption
  <2> QED BY <2>3, <2>9, <2>10, <2>11, <2>12, NoneAssumption
<1>3. ASSUME NEW m \in Batches, NEW expected, MoveBatch(m, expected), A = MoveCalls(m)
      PROVE  /\ \A p \in Path :
                   /\ OnWrite(p) \in A => files'[p] # None
                   /\ OnDelete(p) \in A => files'[p] = None
                   /\ OnWrite(p) \notin A /\ OnDelete(p) \notin A => files'[p] = files[p]
             /\ \A k \in Snapshots :
                   /\ OnSnapshot(k[1], k[2]) \in A
                         => SnapsByKey'[k] # None /\ SnapsByKey[k] = None
                   /\ OnSnapshotDelete(k[1], k[2]) \in A => SnapsByKey'[k] = None
                   /\ OnSnapshot(k[1], k[2]) \notin A /\ OnSnapshotDelete(k[1], k[2]) \notin A
                         => SnapsByKey'[k] = SnapsByKey[k]
  <2>1. /\ Sources(m) \subseteq Path /\ Targets(m) \subseteq Path /\ Relinked(m) \subseteq Path
        /\ Carried(m) \subseteq Snapshots /\ Kept(m) \subseteq Snapshots
    BY <1>3, MoveKeys
  <2>2. \A p \in Path : /\ OnWrite(p) \in A <=> p \in Targets(m) \union Relinked(m)
                        /\ OnDelete(p) \in A <=> p \in Sources(m)
    BY <1>3, <2>1, HookNames DEF MoveCalls, FirstCalls
  <2>3. \A k \in Snapshots : /\ OnSnapshot(k[1], k[2]) \in A <=> k \in Kept(m)
                             /\ OnSnapshotDelete(k[1], k[2]) \in A <=> k \in Carried(m)
    BY <1>3, <2>1, HookNames DEF MoveCalls, FirstCalls
  <2>4. \A p \in Targets(m) : \E q \in Sources(m) : p = m[q]
    BY DEF Targets, Sources
  <2>5. \A p \in Sources(m) :
           /\ p \in Path /\ m[p] \in Path /\ m[p] \in Targets(m)
           /\ Exists(p) /\ ConceptVersion(p) <= MaxVersion
           /\ files'[p] = None /\ snaps'[p] = NoHistory
           /\ snaps[m[p]] = NoHistory
           /\ files'[m[p]] \in File /\ snaps'[m[p]] = Snapshotted(p)
    BY <1>3, MoveSlots
  <2>6. \A q \in Relinked(m) :
           /\ q \in Path
           /\ Exists(q) /\ ConceptVersion(q) <= MaxVersion
           /\ files'[q] \in File /\ snaps'[q] = Snapshotted(q)
    BY <1>3, MoveSlots
  <2>7. \A q \in Path : q \notin Sources(m) \union Targets(m) \union Relinked(m)
                        => files'[q] = files[q] /\ snaps'[q] = snaps[q]
    BY <1>3, MoveSlots
  <2>8. \A p \in Path :
           /\ OnWrite(p) \in A => files'[p] # None
           /\ OnDelete(p) \in A => files'[p] = None
           /\ OnWrite(p) \notin A /\ OnDelete(p) \notin A => files'[p] = files[p]
    BY <2>2, <2>4, <2>5, <2>6, <2>7, NoneAssumption
  <2>9. ASSUME NEW p \in Sources(m), NEW v \in Version
        PROVE  /\ <<p, v>> \in Carried(m) <=> snaps[p][v] # None
               /\ <<m[p], v>> \in Kept(m) <=> snaps[p][v] # None \/ v = ConceptVersion(p)
    <3>1. \A q \in Sources(m) : m[q] = m[p] => q = p
      BY BatchShape
    <3>2. \A q, w : <<q, w>> \in Carried(m)
                       <=> q \in Sources(m) /\ w \in Version /\ snaps[q][w] # None
      BY DEF Carried, Versions
    <3>3. \A k \in Carried(m) : k = <<k[1], k[2]>>
      BY DEF Carried
    <3>4. m[p] \notin Relinked(m)
      BY <1>3, <2>5, MoveSlots
    <3>5. <<m[p], v>> \in Kept(m) => snaps[p][v] # None \/ v = ConceptVersion(p)
      <4> SUFFICES ASSUME <<m[p], v>> \in Kept(m)
                   PROVE  snaps[p][v] # None \/ v = ConceptVersion(p)
        OBVIOUS
      <4>1. CASE \E k \in Carried(m) : <<m[p], v>> = <<m[k[1]], k[2]>>
        <5>1. PICK k \in Carried(m) : <<m[p], v>> = <<m[k[1]], k[2]>>
          BY <4>1
        <5>2. k[1] \in Sources(m) /\ k[2] = v /\ snaps[k[1]][k[2]] # None /\ m[k[1]] = m[p]
          BY <3>2, <3>3, <5>1
        <5> QED BY <3>1, <5>2
      <4>2. CASE \E q \in Sources(m) : <<m[p], v>> = <<m[q], ConceptVersion(q)>>
        <5>1. PICK q \in Sources(m) : <<m[p], v>> = <<m[q], ConceptVersion(q)>>
          BY <4>2
        <5>2. m[p] = m[q] /\ v = ConceptVersion(q)
          BY <5>1
        <5> QED BY <3>1, <5>2
      <4>3. CASE \E q \in Relinked(m) : <<m[p], v>> = <<q, ConceptVersion(q)>>
        <5>1. PICK q \in Relinked(m) : <<m[p], v>> = <<q, ConceptVersion(q)>>
          BY <4>3
        <5>2. m[p] = q
          BY <5>1
        <5> QED BY <3>4, <5>2
      <4> QED BY <4>1, <4>2, <4>3, Zenon DEF Kept, CarriedTo, Replaced, Updated
    <3>6. snaps[p][v] # None => <<m[p], v>> \in Kept(m)
      <4> SUFFICES ASSUME snaps[p][v] # None PROVE <<m[p], v>> \in Kept(m)
        OBVIOUS
      <4>1. PICK k \in Carried(m) : k = <<p, v>>
        BY <3>2
      <4>2. <<m[p], v>> = <<m[k[1]], k[2]>>
        BY <4>1
      <4> QED BY <4>2, Zenon DEF Kept, CarriedTo, Replaced, Updated
    <3>7. v = ConceptVersion(p) => <<m[p], v>> \in Kept(m)
      BY Zenon DEF Kept, CarriedTo, Replaced, Updated
    <3> QED BY <3>2, <3>5, <3>6, <3>7
  <2>10. ASSUME NEW q \in Relinked(m), NEW v \in Version
         PROVE  <<q, v>> \notin Carried(m) /\ (<<q, v>> \in Kept(m) <=> v = ConceptVersion(q))
    <3>1. q \notin Sources(m) /\ q \notin Targets(m)
      BY <1>3, MoveSlots
    <3>2. \A k \in Carried(m) : k[1] \in Sources(m) /\ k = <<k[1], k[2]>>
      BY DEF Carried
    <3>3. <<q, v>> \notin Carried(m)
      BY <3>1, <3>2
    <3>4. <<q, v>> \in Kept(m) => v = ConceptVersion(q)
      <4>1. \A k \in Carried(m) : <<q, v>> # <<m[k[1]], k[2]>>
        BY <2>5, <3>1, <3>2
      <4>2. \A p \in Sources(m) : <<q, v>> # <<m[p], ConceptVersion(p)>>
        BY <2>5, <3>1
      <4>3. \A p \in Relinked(m) : <<q, v>> = <<p, ConceptVersion(p)>> => v = ConceptVersion(q)
        OBVIOUS
      <4> QED BY <4>1, <4>2, <4>3, Zenon DEF Kept, CarriedTo, Replaced, Updated
    <3>5. v = ConceptVersion(q) => <<q, v>> \in Kept(m)
      BY Zenon DEF Kept, CarriedTo, Replaced, Updated
    <3> QED BY <3>3, <3>4, <3>5
  <2>11. ASSUME NEW q \in Path, q \notin Sources(m) \union Targets(m) \union Relinked(m),
                NEW v \in Version
         PROVE  <<q, v>> \notin Carried(m) /\ <<q, v>> \notin Kept(m)
    <3>1. \A k \in Carried(m) : k[1] \in Sources(m) /\ k = <<k[1], k[2]>>
      BY DEF Carried
    <3>2. <<q, v>> \notin Carried(m)
      BY <2>11, <3>1
    <3>3. \A k \in Carried(m) : <<q, v>> # <<m[k[1]], k[2]>>
      BY <2>5, <2>11, <3>1
    <3>4. \A p \in Sources(m) : <<q, v>> # <<m[p], ConceptVersion(p)>>
      BY <2>5, <2>11
    <3>5. \A p \in Relinked(m) : <<q, v>> # <<p, ConceptVersion(p)>>
      BY <2>11
    <3> QED BY <3>2, <3>3, <3>4, <3>5, Zenon DEF Kept, CarriedTo, Replaced, Updated
  <2>12. ASSUME NEW p \in Sources(m), NEW v \in Version
         PROVE  <<p, v>> \notin Kept(m)
    <3>1. p \notin Targets(m) /\ p \notin Relinked(m)
      BY BatchShape DEF Relinked
    <3>2. \A k \in Carried(m) : k[1] \in Sources(m)
      BY DEF Carried
    <3>3. \A k \in Carried(m) : <<p, v>> # <<m[k[1]], k[2]>>
      BY <2>5, <3>1, <3>2
    <3>4. \A q \in Sources(m) : <<p, v>> # <<m[q], ConceptVersion(q)>>
      BY <2>5, <3>1
    <3>5. \A q \in Relinked(m) : <<p, v>> # <<q, ConceptVersion(q)>>
      BY <3>1
    <3> QED BY <3>3, <3>4, <3>5, Zenon DEF Kept, CarriedTo, Replaced, Updated
  <2>13. ASSUME NEW p \in Path, Exists(p), ConceptVersion(p) <= MaxVersion
         PROVE  /\ ConceptVersion(p) \in Version /\ snaps[p][ConceptVersion(p)] = None
                /\ Snapshotted(p)[ConceptVersion(p)] # None
                /\ \A v \in Version : v # ConceptVersion(p) => Snapshotted(p)[v] = snaps[p][v]
    BY <2>13, NextSlot, NoneAssumption
  <2>14. \A v \in Version : NoHistory[v] = None
    BY DEF NoHistory
  <2>15. ASSUME NEW q \in Path, NEW v \in Version
         PROVE  /\ <<q, v>> \in Kept(m) => snaps'[q][v] # None /\ snaps[q][v] = None
                /\ <<q, v>> \in Carried(m) => snaps'[q][v] = None
                /\ <<q, v>> \notin Kept(m) /\ <<q, v>> \notin Carried(m)
                      => snaps'[q][v] = snaps[q][v]
    <3>1. CASE q \in Sources(m)
      BY <2>5, <2>9, <2>12, <2>14, <3>1
    <3>2. CASE q \in Relinked(m)
      BY <2>6, <2>10, <2>13, <3>2
    <3>3. CASE q \in Targets(m)
      <4>1. PICK p \in Sources(m) : q = m[p]
        BY <2>4, <3>3
      <4>2. \A k \in Carried(m) : k[1] \in Sources(m) /\ k = <<k[1], k[2]>>
        BY DEF Carried
      <4>3. <<q, v>> \notin Carried(m)
        BY <3>3, <4>2, BatchShape
      <4>4. <<q, v>> \in Kept(m) <=> snaps[p][v] # None \/ v = ConceptVersion(p)
        BY <2>9, <4>1
      <4>5. snaps[q][v] = None /\ snaps'[q] = Snapshotted(p)
        BY <2>5, <2>14, <4>1
      <4> QED BY <2>5, <2>13, <4>3, <4>4, <4>5
    <3>4. CASE q \notin Sources(m) \union Targets(m) \union Relinked(m)
      BY <2>7, <2>11, <3>4
    <3> QED BY <3>1, <3>2, <3>3, <3>4
  <2>16. ASSUME NEW k \in Snapshots
         PROVE  /\ k \in Kept(m) => SnapsByKey'[k] # None /\ SnapsByKey[k] = None
                /\ k \in Carried(m) => SnapsByKey'[k] = None
                /\ k \notin Kept(m) /\ k \notin Carried(m) => SnapsByKey'[k] = SnapsByKey[k]
    BY <1>a, <2>15
  <2> QED BY <2>3, <2>8, <2>16
<1> HIDE DEF OnWrite, OnSnapshot
<1> QED
  <2>1. ASSUME NEW i \in Id, NEW p \in Path, NEW links \in LinkSets, Create(i, p, links),
               hooks' = [hooks EXCEPT ![h] = <<OnWrite(p)>>]
        PROVE  A = {OnWrite(p)}
    BY <1>0, <2>1, MembersFew
  <2>2. ASSUME NEW p \in Path,
               hooks' = [hooks EXCEPT ![h] = <<OnWrite(p), OnSnapshot(p, ConceptVersion(p))>>]
        PROVE  A = {OnWrite(p), OnSnapshot(p, ConceptVersion(p))}
    BY <1>0, <2>2, MembersFew
  <2>3. ASSUME NEW m \in Batches, NEW expected, MoveBatch(m, expected),
               hooks' = [hooks EXCEPT ![h] = MoveHooks(m)]
        PROVE  A = MoveCalls(m)
    <3>1. Lists(MoveHooks(m), MoveCalls(m))
      BY <2>3, MoveHooksList
    <3> QED BY <1>0, <2>3, <3>1, MembersListed
  <2>4. CASE \E i \in Id, p \in Path, links \in LinkSets :
                /\ Create(i, p, links)
                /\ hooks' = [hooks EXCEPT ![h] = <<OnWrite(p)>>]
    BY <1>1, <2>1, <2>4, Zenon
  <2>5. CASE \E p \in Path, links \in LinkSets :
                /\ Exists(p)
                /\ Update(p, links, files[p].aliases, 0)
                /\ hooks' = [hooks EXCEPT ![h] = <<OnWrite(p), OnSnapshot(p, ConceptVersion(p))>>]
    BY <1>2, <2>2, <2>5, Zenon
  <2>6. CASE \E m \in Batches :
                /\ MoveBatch(m, [p \in Sources(m) |-> 0])
                /\ hooks' = [hooks EXCEPT ![h] = MoveHooks(m)]
    BY <1>3, <2>3, <2>6, Zenon
  <2> QED BY <2>4, <2>5, <2>6, Zenon DEF Write

FilesFollow(h) ==
    Following(Path, files, s3Files, fileQueue, fileCall[h], FilesPushed(h), FilesDeleted(h))
SnapsFollow(h) ==
    Following(Snapshots, SnapsByKey, s3Snaps, snapQueue, snapCall[h],
              SnapsPushed(h), SnapsDeleted(h))

\* While the server runs, both stores follow the disk.
FollowInv(h) == TypeInv /\ (open => FilesFollow(h) /\ SnapsFollow(h))

LEMMA NothingAhead ==
    ASSUME NEW h \in Handler, hooks[h] = << >>
    PROVE  /\ FilesPushed(h) = {} /\ FilesDeleted(h) = {}
           /\ SnapsPushed(h) = {} /\ SnapsDeleted(h) = {}
BY MembersFew DEF Ahead, FilesPushed, FilesDeleted, SnapsPushed, SnapsDeleted

\* What is left of the hook calls once the first is made.
LEMMA HookGone ==
    ASSUME Hooked, NEW h \in Handler, hooks[h] # << >>,
           hooks' = [hooks EXCEPT ![h] = Tail(hooks[h])]
    PROVE  /\ Head(hooks[h]) \in HookCall
           /\ FilesPushed(h)' \subseteq FilesPushed(h) /\ FilesDeleted(h)' \subseteq FilesDeleted(h)
           /\ SnapsPushed(h)' \subseteq SnapsPushed(h) /\ SnapsDeleted(h)' \subseteq SnapsDeleted(h)
           /\ \A p \in Path : Head(hooks[h]) = OnWrite(p) =>
                 /\ p \in FilesPushed(h) /\ FilesPushed(h) \subseteq FilesPushed(h)' \union {p}
                 /\ FilesDeleted(h)' = FilesDeleted(h)
                 /\ SnapsPushed(h)' = SnapsPushed(h) /\ SnapsDeleted(h)' = SnapsDeleted(h)
           /\ \A p \in Path : Head(hooks[h]) = OnDelete(p) =>
                 /\ p \in FilesDeleted(h) /\ FilesDeleted(h) \subseteq FilesDeleted(h)' \union {p}
                 /\ FilesPushed(h)' = FilesPushed(h)
                 /\ SnapsPushed(h)' = SnapsPushed(h) /\ SnapsDeleted(h)' = SnapsDeleted(h)
           /\ \A k \in Snapshots : Head(hooks[h]) = OnSnapshot(k[1], k[2]) =>
                 /\ k \in SnapsPushed(h) /\ SnapsPushed(h) \subseteq SnapsPushed(h)' \union {k}
                 /\ SnapsDeleted(h)' = SnapsDeleted(h)
                 /\ FilesPushed(h)' = FilesPushed(h) /\ FilesDeleted(h)' = FilesDeleted(h)
           /\ \A k \in Snapshots : Head(hooks[h]) = OnSnapshotDelete(k[1], k[2]) =>
                 /\ k \in SnapsDeleted(h) /\ SnapsDeleted(h) \subseteq SnapsDeleted(h)' \union {k}
                 /\ SnapsPushed(h)' = SnapsPushed(h)
                 /\ FilesPushed(h)' = FilesPushed(h) /\ FilesDeleted(h)' = FilesDeleted(h)
<1>1. hooks[h] \in Seq(HookCall) /\ hooks'[h] = Tail(hooks[h])
  BY DEF Hooked
<1>2. PICK o, A, A2 : o = Head(hooks[h]) /\ A = Ahead(h) /\ A2 = Ahead(h)'
  OBVIOUS
<1>3. o \in A /\ A2 \subseteq A /\ A \subseteq A2 \union {o}
  BY <1>1, <1>2, MembersTail DEF Ahead
<1>4. o \in HookCall
  BY <1>1, <1>2, HeadTailProperties, Zenon
<1>5. /\ FilesPushed(h) = {p \in Path : OnWrite(p) \in A}
      /\ FilesPushed(h)' = {p \in Path : OnWrite(p) \in A2}
      /\ FilesDeleted(h) = {p \in Path : OnDelete(p) \in A}
      /\ FilesDeleted(h)' = {p \in Path : OnDelete(p) \in A2}
  BY <1>2 DEF FilesPushed, FilesDeleted
<1>6. /\ SnapsPushed(h) = {k \in Snapshots : OnSnapshot(k[1], k[2]) \in A}
      /\ SnapsPushed(h)' = {k \in Snapshots : OnSnapshot(k[1], k[2]) \in A2}
      /\ SnapsDeleted(h) = {k \in Snapshots : OnSnapshotDelete(k[1], k[2]) \in A}
      /\ SnapsDeleted(h)' = {k \in Snapshots : OnSnapshotDelete(k[1], k[2]) \in A2}
  BY <1>2 DEF SnapsPushed, SnapsDeleted
<1>7. ASSUME NEW p \in Path, o = OnWrite(p)
      PROVE  /\ p \in FilesPushed(h) /\ FilesPushed(h) \subseteq FilesPushed(h)' \union {p}
             /\ FilesDeleted(h)' = FilesDeleted(h)
             /\ SnapsPushed(h)' = SnapsPushed(h) /\ SnapsDeleted(h)' = SnapsDeleted(h)
  BY <1>3, <1>5, <1>6, <1>7, HookNames
<1>8. ASSUME NEW p \in Path, o = OnDelete(p)
      PROVE  /\ p \in FilesDeleted(h) /\ FilesDeleted(h) \subseteq FilesDeleted(h)' \union {p}
             /\ FilesPushed(h)' = FilesPushed(h)
             /\ SnapsPushed(h)' = SnapsPushed(h) /\ SnapsDeleted(h)' = SnapsDeleted(h)
  BY <1>3, <1>5, <1>6, <1>8, HookNames
<1>9. ASSUME NEW k \in Snapshots, o = OnSnapshot(k[1], k[2])
      PROVE  /\ k \in SnapsPushed(h) /\ SnapsPushed(h) \subseteq SnapsPushed(h)' \union {k}
             /\ SnapsDeleted(h)' = SnapsDeleted(h)
             /\ FilesPushed(h)' = FilesPushed(h) /\ FilesDeleted(h)' = FilesDeleted(h)
  BY <1>3, <1>5, <1>6, <1>9, HookNames
<1>10. ASSUME NEW k \in Snapshots, o = OnSnapshotDelete(k[1], k[2])
       PROVE  /\ k \in SnapsDeleted(h) /\ SnapsDeleted(h) \subseteq SnapsDeleted(h)' \union {k}
              /\ SnapsPushed(h)' = SnapsPushed(h)
              /\ FilesPushed(h)' = FilesPushed(h) /\ FilesDeleted(h)' = FilesDeleted(h)
  BY <1>3, <1>5, <1>6, <1>10, HookNames
<1>11. /\ FilesPushed(h)' \subseteq FilesPushed(h) /\ FilesDeleted(h)' \subseteq FilesDeleted(h)
       /\ SnapsPushed(h)' \subseteq SnapsPushed(h) /\ SnapsDeleted(h)' \subseteq SnapsDeleted(h)
  BY <1>3, <1>5, <1>6
<1> QED BY <1>2, <1>4, <1>7, <1>8, <1>9, <1>10, <1>11

\* Every hook call is one of four.
LEMMA HookKinds ==
    ASSUME NEW o \in HookCall
    PROVE  \/ \E p \in Path : o = OnWrite(p) \/ o = OnDelete(p)
           \/ \E k \in Snapshots : o = OnSnapshot(k[1], k[2]) \/ o = OnSnapshotDelete(k[1], k[2])
<1>1. ASSUME NEW p \in Path, NEW v \in Version
      PROVE  \E k \in Snapshots : k[1] = p /\ k[2] = v
  <2>1. PICK k : k = <<p, v>>
    OBVIOUS
  <2> QED BY <2>1, SnapKeys
<1> QED BY <1>1 DEF HookCall

LEMMA WriteFollows ==
    ASSUME NEW h \in Handler, FollowInv(h), open, Write(h)
    PROVE  FilesFollow(h)' /\ SnapsFollow(h)'
<1>1. /\ UNCHANGED <<s3Files, fileQueue, fileCall, s3Snaps, snapQueue, snapCall>>
      /\ hooks[h] = << >> /\ fileCall[h] = << >> /\ snapCall[h] = << >>
  BY DEF Write, fileVars, snapVars, Idle, NoCalls, FileSync!NoCall, SnapSync!NoCall
<1>2. PICK A : A = Ahead(h)'
  OBVIOUS
<1>3. /\ \A p \in Path :
            /\ OnWrite(p) \in A => files'[p] # None
            /\ OnDelete(p) \in A => files'[p] = None
            /\ OnWrite(p) \notin A /\ OnDelete(p) \notin A => files'[p] = files[p]
      /\ \A k \in Snapshots :
            /\ OnSnapshot(k[1], k[2]) \in A => SnapsByKey'[k] # None
            /\ OnSnapshotDelete(k[1], k[2]) \in A => SnapsByKey'[k] = None
            /\ OnSnapshot(k[1], k[2]) \notin A /\ OnSnapshotDelete(k[1], k[2]) \notin A
                  => SnapsByKey'[k] = SnapsByKey[k]
  BY <1>2, WriteChanges DEF FollowInv, TypeInv
<1>4. /\ Following(Path, files, s3Files, fileQueue, << >>, {}, {})
      /\ Following(Snapshots, SnapsByKey, s3Snaps, snapQueue, << >>, {}, {})
  BY <1>1, NothingAhead DEF FollowInv, FilesFollow, SnapsFollow
<1>5. FilesFollow(h)'
  <2>1. \A p \in Path : /\ p \in FilesPushed(h)' <=> OnWrite(p) \in A
                        /\ p \in FilesDeleted(h)' <=> OnDelete(p) \in A
    BY <1>2 DEF FilesPushed, FilesDeleted
  <2>2. PICK after, P, D : after = files' /\ P = FilesPushed(h)' /\ D = FilesDeleted(h)'
    OBVIOUS
  <2>3. \A p \in Path : /\ p \in P => after[p] # None
                        /\ p \in D => after[p] = None
                        /\ p \notin P \union D => after[p] = files[p]
    BY <1>3, <2>1, <2>2
  <2>4. Following(Path, after, s3Files, fileQueue, << >>, P, D)
    BY <1>4, <2>3, WriteFollowing
  <2> QED BY <1>1, <2>2, <2>4 DEF FilesFollow
<1>6. SnapsFollow(h)'
  <2>1. \A k \in Snapshots : /\ k \in SnapsPushed(h)' <=> OnSnapshot(k[1], k[2]) \in A
                             /\ k \in SnapsDeleted(h)' <=> OnSnapshotDelete(k[1], k[2]) \in A
    BY <1>2 DEF SnapsPushed, SnapsDeleted
  <2>2. PICK after, P, D : after = SnapsByKey' /\ P = SnapsPushed(h)' /\ D = SnapsDeleted(h)'
    OBVIOUS
  <2>3. \A k \in Snapshots : /\ k \in P => after[k] # None
                             /\ k \in D => after[k] = None
                             /\ k \notin P \union D => after[k] = SnapsByKey[k]
    BY <1>3, <2>1, <2>2
  <2>4. Following(Snapshots, after, s3Snaps, snapQueue, << >>, P, D)
    BY <1>4, <2>3, WriteFollowing
  <2> QED BY <1>1, <2>2, <2>4 DEF SnapsFollow
<1> QED BY <1>5, <1>6

LEMMA HookFollows ==
    ASSUME NEW h \in Handler, FollowInv(h), open, CallHook(h)
    PROVE  FilesFollow(h)' /\ SnapsFollow(h)'
<1>1. /\ hooks[h] # << >> /\ fileCall[h] = << >> /\ snapCall[h] = << >>
      /\ hooks' = [hooks EXCEPT ![h] = Tail(hooks[h])]
      /\ UNCHANGED <<files, snaps, s3Files, fileQueue, s3Snaps, snapQueue>>
      /\ SnapsByKey' = SnapsByKey /\ Hooked
  BY DEF CallHook, NoCalls, FileSync!NoCall, SnapSync!NoCall, bundleVars, Hooked, FollowInv,
         TypeInv, fileVars, snapVars, FileSync!PushFile, FileSync!DeleteFile,
         SnapSync!PushFile, SnapSync!DeleteFile, SnapsByKey
<1>2. PICK o : o = Head(hooks[h])
  OBVIOUS
<1>3. o \in HookCall
  BY <1>1, <1>2, HookGone
<1>4. /\ Following(Path, files, s3Files, fileQueue, << >>, FilesPushed(h), FilesDeleted(h))
      /\ Following(Snapshots, SnapsByKey, s3Snaps, snapQueue, << >>,
                   SnapsPushed(h), SnapsDeleted(h))
  BY <1>1 DEF FollowInv, FilesFollow, SnapsFollow
<1>5. PICK P, D, P2, D2 : /\ P = FilesPushed(h) /\ D = FilesDeleted(h)
                          /\ P2 = FilesPushed(h)' /\ D2 = FilesDeleted(h)'
  OBVIOUS
<1>6. PICK R, E, R2, E2 : /\ R = SnapsPushed(h) /\ E = SnapsDeleted(h)
                          /\ R2 = SnapsPushed(h)' /\ E2 = SnapsDeleted(h)'
  OBVIOUS
<1>7. P2 \subseteq P /\ D2 \subseteq D /\ R2 \subseteq R /\ E2 \subseteq E
  BY <1>1, <1>5, <1>6, HookGone
<1>8. ASSUME NEW p \in Path, P \union D \subseteq (P2 \union D2) \union {p}, p \in P \union D,
             R2 = R, E2 = E, UNCHANGED snapCall,
             fileCall'[h] = <<[key |-> p, data |-> files[p]]>>
      PROVE  FilesFollow(h)' /\ SnapsFollow(h)'
  <2>1. PICK d : d = files[p]
    OBVIOUS
  <2>2. Following(Path, files, s3Files, fileQueue, <<[key |-> p, data |-> d]>>, P2, D2)
    BY <1>4, <1>5, <1>7, <1>8, <2>1, HookFollowing
  <2>3. Following(Path, files', s3Files', fileQueue', fileCall'[h], P2, D2)
    BY <1>1, <1>8, <2>1, <2>2
  <2>4. FilesFollow(h)'
    BY <1>5, <2>3 DEF FilesFollow
  <2>5. Following(Snapshots, SnapsByKey', s3Snaps', snapQueue', snapCall'[h], R2, E2)
    BY <1>1, <1>4, <1>6, <1>8
  <2> QED BY <1>6, <2>4, <2>5 DEF SnapsFollow
<1>9. ASSUME NEW k \in Snapshots, R \union E \subseteq (R2 \union E2) \union {k},
             k \in R \union E, P2 = P, D2 = D, UNCHANGED fileCall,
             snapCall'[h] = <<[key |-> k, data |-> SnapsByKey[k]]>>
      PROVE  FilesFollow(h)' /\ SnapsFollow(h)'
  <2>1. PICK d : d = SnapsByKey[k]
    OBVIOUS
  <2>2. Following(Snapshots, SnapsByKey, s3Snaps, snapQueue, <<[key |-> k, data |-> d]>>, R2, E2)
    BY <1>4, <1>6, <1>7, <1>9, <2>1, HookFollowing
  <2>3. Following(Snapshots, SnapsByKey', s3Snaps', snapQueue', snapCall'[h], R2, E2)
    BY <1>1, <1>9, <2>1, <2>2
  <2>4. SnapsFollow(h)'
    BY <1>6, <2>3 DEF SnapsFollow
  <2>5. Following(Path, files', s3Files', fileQueue', fileCall'[h], P2, D2)
    BY <1>1, <1>4, <1>5, <1>9
  <2> QED BY <1>5, <2>4, <2>5 DEF FilesFollow
<1>10. /\ \A d : fileCall' = [fileCall EXCEPT ![h] = d] => fileCall'[h] = d
       /\ \A d : snapCall' = [snapCall EXCEPT ![h] = d] => snapCall'[h] = d
  BY DEF FollowInv, TypeInv, FilesIn, SnapsIn, WellFormed
<1>11. ASSUME NEW p \in Path, o = OnWrite(p) PROVE FilesFollow(h)' /\ SnapsFollow(h)'
  <2>1. o.on = "files" /\ o.do = "push" /\ o.file = p
    BY <1>11 DEF OnWrite
  <2>2. p \in P /\ P \subseteq P2 \union {p} /\ D2 = D /\ R2 = R /\ E2 = E
    BY <1>1, <1>2, <1>5, <1>6, <1>11, HookGone
  <2>3. files[p] # None
    BY <1>4, <1>5, <2>2 DEF Following
  <2>4. /\ fileCall' = [fileCall EXCEPT ![h] = <<[key |-> p, data |-> files[p]]>>]
        /\ UNCHANGED snapCall
    BY <1>2, <2>1, <2>3 DEF CallHook, FileSync!PushFile, snapVars
  <2>5. P \union D \subseteq (P2 \union D2) \union {p} /\ p \in P \union D
    BY <2>2
  <2>6. fileCall'[h] = <<[key |-> p, data |-> files[p]]>>
    BY <1>10, <2>4
  <2> QED BY <1>8, <2>2, <2>4, <2>5, <2>6
<1>12. ASSUME NEW p \in Path, o = OnDelete(p) PROVE FilesFollow(h)' /\ SnapsFollow(h)'
  <2>1. o.on = "files" /\ o.do # "push" /\ o.file = p
    BY <1>12 DEF OnDelete
  <2>2. p \in D /\ D \subseteq D2 \union {p} /\ P2 = P /\ R2 = R /\ E2 = E
    BY <1>1, <1>2, <1>5, <1>6, <1>12, HookGone
  <2>3. files[p] = None
    BY <1>4, <1>5, <2>2 DEF Following
  <2>4. /\ fileCall' = [fileCall EXCEPT ![h] = <<[key |-> p, data |-> None]>>]
        /\ UNCHANGED snapCall
    BY <1>2, <2>1 DEF CallHook, FileSync!DeleteFile, snapVars
  <2>5. P \union D \subseteq (P2 \union D2) \union {p} /\ p \in P \union D
    BY <2>2
  <2>6. fileCall'[h] = <<[key |-> p, data |-> files[p]]>>
    BY <1>10, <2>3, <2>4
  <2> QED BY <1>8, <2>2, <2>4, <2>5, <2>6
<1>13. ASSUME NEW k \in Snapshots, o = OnSnapshot(k[1], k[2])
       PROVE  FilesFollow(h)' /\ SnapsFollow(h)'
  <2>1. o.on # "files" /\ o.do = "push" /\ o.snap = k
    BY <1>13, SnapKeys DEF OnSnapshot
  <2>2. k \in R /\ R \subseteq R2 \union {k} /\ E2 = E /\ P2 = P /\ D2 = D
    BY <1>1, <1>2, <1>5, <1>6, <1>13, HookGone
  <2>3. SnapsByKey[k] # None
    BY <1>4, <1>6, <2>2 DEF Following
  <2>4. /\ snapCall' = [snapCall EXCEPT ![h] = <<[key |-> k, data |-> SnapsByKey[k]]>>]
        /\ UNCHANGED fileCall
    BY <1>2, <2>1, <2>3 DEF CallHook, SnapSync!PushFile, fileVars
  <2>5. R \union E \subseteq (R2 \union E2) \union {k} /\ k \in R \union E
    BY <2>2
  <2>6. snapCall'[h] = <<[key |-> k, data |-> SnapsByKey[k]]>>
    BY <1>10, <2>4
  <2> QED BY <1>9, <2>2, <2>4, <2>5, <2>6
<1>14. ASSUME NEW k \in Snapshots, o = OnSnapshotDelete(k[1], k[2])
       PROVE  FilesFollow(h)' /\ SnapsFollow(h)'
  <2>1. o.on # "files" /\ o.do # "push" /\ o.snap = k
    BY <1>14, SnapKeys DEF OnSnapshotDelete
  <2>2. k \in E /\ E \subseteq E2 \union {k} /\ R2 = R /\ P2 = P /\ D2 = D
    BY <1>1, <1>2, <1>5, <1>6, <1>14, HookGone
  <2>3. SnapsByKey[k] = None
    BY <1>4, <1>6, <2>2 DEF Following
  <2>4. /\ snapCall' = [snapCall EXCEPT ![h] = <<[key |-> k, data |-> None]>>]
        /\ UNCHANGED fileCall
    BY <1>2, <2>1 DEF CallHook, SnapSync!DeleteFile, fileVars
  <2>5. R \union E \subseteq (R2 \union E2) \union {k} /\ k \in R \union E
    BY <2>2
  <2>6. snapCall'[h] = <<[key |-> k, data |-> SnapsByKey[k]]>>
    BY <1>10, <2>3, <2>4
  <2> QED BY <1>9, <2>2, <2>4, <2>5, <2>6
<1> QED BY <1>3, <1>11, <1>12, <1>13, <1>14, HookKinds

\* What does not touch the disk, the hooks or a syncer leaves it following.
LEMMA StillFollowing ==
    ASSUME NEW h, UNCHANGED <<files, snaps, hooks>>
    PROVE  /\ UNCHANGED <<s3Files, fileQueue, fileCall>> /\ FilesFollow(h) => FilesFollow(h)'
           /\ UNCHANGED <<s3Snaps, snapQueue, snapCall>> /\ SnapsFollow(h) => SnapsFollow(h)'
           /\ SnapsByKey' = SnapsByKey /\ Ahead(h)' = Ahead(h)
<1>1. SnapsByKey' = SnapsByKey /\ Ahead(h)' = Ahead(h)
  BY DEF SnapsByKey, Ahead
<1> QED
  BY <1>1 DEF FilesFollow, SnapsFollow, FilesPushed, FilesDeleted, SnapsPushed, SnapsDeleted

LEMMA SendFollows ==
    ASSUME NEW h \in Handler, FollowInv(h), open, SendRequest(h)
    PROVE  FilesFollow(h)' /\ SnapsFollow(h)'
<1>1. UNCHANGED <<files, snaps, hooks>>
  BY DEF SendRequest, bundleVars
<1>2. SnapsByKey' = SnapsByKey /\ Ahead(h)' = Ahead(h)
  BY <1>1, StillFollowing
<1>3. CASE FileSync!Send(h) /\ UNCHANGED snapVars
  <2>1. /\ fileCall[h] # << >> /\ fileQueue' = fileQueue \o fileCall[h]
        /\ fileCall' = [fileCall EXCEPT ![h] = << >>]
        /\ UNCHANGED <<s3Files, s3Snaps, snapQueue, snapCall>>
    BY <1>3 DEF FileSync!Send, FileSync!NoCall, snapVars
  <2>2. PICK C : C = File \union {None}
    OBVIOUS
  <2>3. WellFormed(Path, C, s3Files, fileQueue, fileCall)
    BY <2>2 DEF FollowInv, TypeInv, FilesIn
  <2>4. PICK r \in Requests(Path, C) : fileCall[h] = <<r>>
    BY <2>1, <2>3, OneRequest
  <2>5. fileQueue \in Seq(Requests(Path, C)) /\ fileCall'[h] = << >>
    BY <2>1, <2>3 DEF WellFormed
  <2>6. PICK P, D : P = FilesPushed(h) /\ D = FilesDeleted(h)
    OBVIOUS
  <2>7. Following(Path, files, s3Files, fileQueue, <<r>>, P, D)
    BY <2>4, <2>6 DEF FollowInv, FilesFollow
  <2>8. Following(Path, files, s3Files, fileQueue \o <<r>>, << >>, P, D)
    BY <2>5, <2>7, SendFollowing
  <2>9. Following(Path, files', s3Files', fileQueue', fileCall'[h], P, D)
    BY <1>1, <2>1, <2>4, <2>5, <2>8
  <2>10. P = FilesPushed(h)' /\ D = FilesDeleted(h)'
    BY <1>2, <2>6 DEF FilesPushed, FilesDeleted
  <2>11. FilesFollow(h)'
    BY <2>9, <2>10 DEF FilesFollow
  <2> QED BY <1>1, <2>1, <2>11, StillFollowing DEF FollowInv
<1>4. CASE SnapSync!Send(h) /\ UNCHANGED fileVars
  <2>1. /\ snapCall[h] # << >> /\ snapQueue' = snapQueue \o snapCall[h]
        /\ snapCall' = [snapCall EXCEPT ![h] = << >>]
        /\ UNCHANGED <<s3Snaps, s3Files, fileQueue, fileCall>>
    BY <1>4 DEF SnapSync!Send, SnapSync!NoCall, fileVars
  <2>2. PICK C : C = File \union {None}
    OBVIOUS
  <2>3. WellFormed(Snapshots, C, s3Snaps, snapQueue, snapCall)
    BY <2>2 DEF FollowInv, TypeInv, SnapsIn
  <2>4. PICK r \in Requests(Snapshots, C) : snapCall[h] = <<r>>
    BY <2>1, <2>3, OneRequest
  <2>5. snapQueue \in Seq(Requests(Snapshots, C)) /\ snapCall'[h] = << >>
    BY <2>1, <2>3 DEF WellFormed
  <2>6. PICK P, D : P = SnapsPushed(h) /\ D = SnapsDeleted(h)
    OBVIOUS
  <2>7. Following(Snapshots, SnapsByKey, s3Snaps, snapQueue, <<r>>, P, D)
    BY <2>4, <2>6 DEF FollowInv, SnapsFollow
  <2>8. Following(Snapshots, SnapsByKey, s3Snaps, snapQueue \o <<r>>, << >>, P, D)
    BY <2>5, <2>7, SendFollowing
  <2>9. Following(Snapshots, SnapsByKey', s3Snaps', snapQueue', snapCall'[h], P, D)
    BY <1>2, <2>1, <2>4, <2>5, <2>8
  <2>10. P = SnapsPushed(h)' /\ D = SnapsDeleted(h)'
    BY <1>2, <2>6 DEF SnapsPushed, SnapsDeleted
  <2>11. SnapsFollow(h)'
    BY <2>9, <2>10 DEF SnapsFollow
  <2> QED BY <1>1, <2>1, <2>11, StillFollowing DEF FollowInv
<1> QED BY <1>3, <1>4 DEF SendRequest

LEMMA LoopsFollow ==
    ASSUME ~StoreFails, NEW h \in Handler, FollowInv(h), open, PushLoops
    PROVE  FilesFollow(h)' /\ SnapsFollow(h)'
<1>1. UNCHANGED <<files, snaps, hooks>>
  BY DEF PushLoops, bundleVars
<1>2. SnapsByKey' = SnapsByKey /\ Ahead(h)' = Ahead(h)
  BY <1>1, StillFollowing
<1>3. CASE FileSync!LoopStep /\ UNCHANGED snapVars
  <2>1. /\ fileQueue # << >> /\ fileQueue' = Tail(fileQueue)
        /\ s3Files' = [s3Files EXCEPT ![Head(fileQueue).key] = Head(fileQueue).data]
        /\ UNCHANGED <<fileCall, s3Snaps, snapQueue, snapCall>>
    BY <1>3 DEF FileSync!LoopStep, FileSync!Deliver, FileSync!DeliverFails, snapVars
  <2>2. PICK C : C = File \union {None}
    OBVIOUS
  <2>3. s3Files \in [Path -> C] /\ fileQueue \in Seq(Requests(Path, C))
    BY <2>2 DEF FollowInv, TypeInv, FilesIn, WellFormed
  <2>4. PICK P, D, sent : P = FilesPushed(h) /\ D = FilesDeleted(h) /\ sent = fileCall[h]
    OBVIOUS
  <2>5. Following(Path, files, s3Files, fileQueue, sent, P, D)
    BY <2>4 DEF FollowInv, FilesFollow
  <2>6. Following(Path, files, [s3Files EXCEPT ![Head(fileQueue).key] = Head(fileQueue).data],
                  Tail(fileQueue), sent, P, D)
    BY <2>1, <2>3, <2>5, DeliverFollowing
  <2>7. Following(Path, files', s3Files', fileQueue', fileCall'[h], P, D)
    BY <1>1, <2>1, <2>4, <2>6
  <2>8. P = FilesPushed(h)' /\ D = FilesDeleted(h)'
    BY <1>2, <2>4 DEF FilesPushed, FilesDeleted
  <2>9. FilesFollow(h)'
    BY <2>7, <2>8 DEF FilesFollow
  <2> QED BY <1>1, <2>1, <2>9, StillFollowing DEF FollowInv
<1>4. CASE SnapSync!LoopStep /\ UNCHANGED fileVars
  <2>1. /\ snapQueue # << >> /\ snapQueue' = Tail(snapQueue)
        /\ s3Snaps' = [s3Snaps EXCEPT ![Head(snapQueue).key] = Head(snapQueue).data]
        /\ UNCHANGED <<snapCall, s3Files, fileQueue, fileCall>>
    BY <1>4 DEF SnapSync!LoopStep, SnapSync!Deliver, SnapSync!DeliverFails, fileVars
  <2>2. PICK C : C = File \union {None}
    OBVIOUS
  <2>3. s3Snaps \in [Snapshots -> C] /\ snapQueue \in Seq(Requests(Snapshots, C))
    BY <2>2 DEF FollowInv, TypeInv, SnapsIn, WellFormed
  <2>4. PICK P, D, sent : P = SnapsPushed(h) /\ D = SnapsDeleted(h) /\ sent = snapCall[h]
    OBVIOUS
  <2>5. Following(Snapshots, SnapsByKey, s3Snaps, snapQueue, sent, P, D)
    BY <2>4 DEF FollowInv, SnapsFollow
  <2>6. Following(Snapshots, SnapsByKey,
                  [s3Snaps EXCEPT ![Head(snapQueue).key] = Head(snapQueue).data],
                  Tail(snapQueue), sent, P, D)
    BY <2>1, <2>3, <2>5, DeliverFollowing
  <2>7. Following(Snapshots, SnapsByKey', s3Snaps', snapQueue', snapCall'[h], P, D)
    BY <1>2, <2>1, <2>4, <2>6
  <2>8. P = SnapsPushed(h)' /\ D = SnapsDeleted(h)'
    BY <1>2, <2>4 DEF SnapsPushed, SnapsDeleted
  <2>9. SnapsFollow(h)'
    BY <2>7, <2>8 DEF SnapsFollow
  <2> QED BY <1>1, <2>1, <2>9, StillFollowing DEF FollowInv
<1> QED BY <1>3, <1>4 DEF PushLoops

\* A server that has just started follows its disk.
LEMMA StartFollows ==
    ASSUME NEW h \in Handler, hooks[h] = << >>, fileQueue = << >>, snapQueue = << >>,
           fileCall[h] = << >>, snapCall[h] = << >>,
           \A p \in Path : s3Files[p] = files[p],
           \A k \in Snapshots : s3Snaps[k] = SnapsByKey[k]
    PROVE  FilesFollow(h) /\ SnapsFollow(h)
<1>1. /\ Following(Path, files, s3Files, << >>, << >>, {}, {})
      /\ Following(Snapshots, SnapsByKey, s3Snaps, << >>, << >>, {}, {})
  BY EqualFollowing
<1> QED BY <1>1, NothingAhead DEF FilesFollow, SnapsFollow

LEMMA RestartFollows ==
    ASSUME ~PullFails, NEW h \in Handler, TypeInv, Restart
    PROVE  /\ FilesFollow(h)' /\ SnapsFollow(h)'
           /\ \A k \in Snapshots : s3Snaps'[k] = s3Snaps[k] /\ SnapsByKey'[k] = s3Snaps[k]
<1>1. /\ \A p \in Path : files'[p] = s3Files[p]
      /\ \A p \in Path, v \in Version : snaps'[p][v] = s3Snaps[<<p, v>>]
  <2>1. PICK C : C = File \union {None}
    OBVIOUS
  <2>2. C \subseteq File \union {None} /\ None \in C /\ FilesIn(C) /\ SnapsIn(C)
    BY <2>1 DEF TypeInv
  <2> QED BY <2>2, RestartForm
<1>2. /\ hooks'[h] = << >> /\ fileQueue' = << >> /\ snapQueue' = << >>
      /\ fileCall'[h] = << >> /\ snapCall'[h] = << >> /\ UNCHANGED <<s3Files, s3Snaps>>
  BY DEF Restart
<1>3. \A k \in Snapshots : SnapsByKey'[k] = s3Snaps[k]
  <2>1. \A k \in Snapshots : k[1] \in Path /\ k[2] \in Version /\ k = <<k[1], k[2]>>
                             /\ SnapsByKey'[k] = snaps'[k[1]][k[2]]
    BY SnapKeys DEF SnapsByKey
  <2> QED BY <1>1, <2>1
<1>4. \A p \in Path : s3Files'[p] = files'[p]
  BY <1>1, <1>2
<1>5. \A k \in Snapshots : s3Snaps'[k] = SnapsByKey'[k]
  BY <1>2, <1>3
<1>6. /\ FilesPushed(h)' = {} /\ FilesDeleted(h)' = {}
      /\ SnapsPushed(h)' = {} /\ SnapsDeleted(h)' = {}
  BY <1>2, MembersFew DEF Ahead, FilesPushed, FilesDeleted, SnapsPushed, SnapsDeleted
<1>7. /\ Following(Path, files', s3Files', << >>, << >>, {}, {})
      /\ Following(Snapshots, SnapsByKey', s3Snaps', << >>, << >>, {}, {})
  BY <1>4, <1>5, EqualFollowing
<1>8. FilesFollow(h)' /\ SnapsFollow(h)'
  BY <1>2, <1>6, <1>7 DEF FilesFollow, SnapsFollow
<1> QED BY <1>2, <1>3, <1>8

LEMMA InitFollows == ASSUME NEW h \in Handler, ServerInit PROVE FollowInv(h)
<1>1. TypeInv
  BY InitServerType
<1>2. FilesFollow(h) /\ SnapsFollow(h)
  BY StartFollows DEF ServerInit
<1> QED BY <1>1, <1>2 DEF FollowInv

LEMMA NextFollows ==
    ASSUME ~StoreFails, ~PullFails, NEW h, Handler = {h}, FollowInv(h), [ServerNext]_serverVars
    PROVE  FollowInv(h)'
<1>1. TypeInv'
  BY NextServerType DEF FollowInv
<1> SUFFICES ASSUME open' PROVE FilesFollow(h)' /\ SnapsFollow(h)'
  BY <1>1 DEF FollowInv
<1>2. CASE Restart
  BY <1>2, RestartFollows DEF FollowInv
<1>3. CASE Shutdown
  BY <1>3 DEF Shutdown
<1>4. CASE UNCHANGED serverVars
  BY <1>4, StillFollowing DEF FollowInv, serverVars
<1>5. CASE Write(h)
  BY <1>5, WriteFollows DEF Write
<1>6. CASE CallHook(h)
  <2>1. open
    BY <1>6 DEF CallHook, FileSync!PushFile, FileSync!DeleteFile, SnapSync!PushFile,
       SnapSync!DeleteFile
  <2> QED BY <1>6, <2>1, HookFollows
<1>7. CASE SendRequest(h)
  BY <1>7, SendFollows DEF SendRequest, FileSync!Send, SnapSync!Send
<1>8. CASE HandlerPanics(h)
  BY <1>8 DEF HandlerPanics, FileSync!SendPanics, SnapSync!SendPanics
<1>9. CASE PushLoops
  <2>1. open
    BY <1>9 DEF PushLoops, FileSync!LoopStep, FileSync!Deliver, FileSync!DeliverFails,
       SnapSync!LoopStep, SnapSync!Deliver, SnapSync!DeliverFails
  <2> QED BY <1>9, <2>1, LoopsFollow
<1> QED BY <1>2, <1>3, <1>4, <1>5, <1>6, <1>7, <1>8, <1>9 DEF ServerNext

LEMMA FollowInvariant ==
    ASSUME ~StoreFails, ~PullFails, NEW h, Handler = {h}
    PROVE  ServerSpec => []FollowInv(h)
<1>1. ServerInit => FollowInv(h)
  BY InitFollows
<1>2. FollowInv(h) /\ [ServerNext]_serverVars => FollowInv(h)'
  BY NextFollows
<1> QED BY <1>1, <1>2, PTL DEF ServerSpec

\* The uploads of one handler, for any paths and snapshots, any capacity of
\* the two channels, any moves and any number of crashes, shutdowns and
\* restarts, bring the object store to exactly what the disk holds, files and
\* snapshots: every write has a hook for each thing it changes, and no later
\* request leaves the channel before an earlier one.  Two handlers that share
\* a file do not have this: the one that read it first may send last.
THEOREM OneHandlerMirrors ==
    ASSUME ~StoreFails, ~PullFails, NEW h, Handler = {h}
    PROVE  ServerSpec => []Mirrored
<1>1. FollowInv(h) => Mirrored
  <2> SUFFICES ASSUME FollowInv(h), Quiet PROVE s3Files = files /\ s3Snaps = SnapsByKey
    BY DEF Mirrored
  <2>1. /\ open /\ fileQueue = << >> /\ snapQueue = << >>
        /\ hooks[h] = << >> /\ fileCall[h] = << >> /\ snapCall[h] = << >>
    BY DEF Quiet, Idle, NoCalls, FileSync!NoCall, SnapSync!NoCall
  <2>2. /\ Following(Path, files, s3Files, << >>, << >>, {}, {})
        /\ Following(Snapshots, SnapsByKey, s3Snaps, << >>, << >>, {}, {})
    BY <2>1, NothingAhead DEF FollowInv, FilesFollow, SnapsFollow
  <2>3. /\ \A p \in Path : s3Files[p] = files[p]
        /\ \A k \in Snapshots : s3Snaps[k] = SnapsByKey[k]
    BY <2>2, EqualFollowing
  <2> QED BY <2>3 DEF FollowInv, TypeInv, FilesIn, SnapsIn, WellFormed, Disk, SnapsByKey
<1> QED BY <1>1, FollowInvariant, PTL

-----------------------------------------------------------------------------
(* Snapshots are not overwritten.                                          *)

SnapsLast == \A k \in Snapshots : NeverReplaced(s3Snaps, snapQueue, k)

\* The youngest object of a snapshot the disk has is that one, or none.
SnapsNew ==
    \A k \in Snapshots :
        SnapsByKey[k] # None => Youngest(s3Snaps, snapQueue, k, {None, SnapsByKey[k]})

LastingInv(h) == FollowInv(h) /\ SnapsLast /\ (open => SnapsNew)

\* What is in X is in {None, d} when X = {None} or X = {d}.
LEMMA YoungestMore ==
    ASSUME NEW store, NEW queue, NEW k, NEW X, NEW Y, X \subseteq Y, Youngest(store, queue, k, X)
    PROVE  Youngest(store, queue, k, Y)
BY DEF Youngest

LEMMA WriteLasts ==
    ASSUME NEW h \in Handler, LastingInv(h), open, Write(h)
    PROVE  SnapsLast' /\ SnapsNew'
<1>1. /\ UNCHANGED <<s3Snaps, snapQueue>>
      /\ hooks[h] = << >> /\ fileCall[h] = << >> /\ snapCall[h] = << >>
  BY DEF Write, fileVars, snapVars, Idle, NoCalls, FileSync!NoCall, SnapSync!NoCall
<1>2. \A k \in Snapshots : SnapsByKey[k] = SnapsByKey'[k] \/ SnapsByKey[k] = None
                           \/ SnapsByKey'[k] = None
  BY WriteChanges DEF LastingInv, FollowInv, TypeInv
<1>3. Following(Snapshots, SnapsByKey, s3Snaps, snapQueue, << >>, {}, {})
  BY <1>1, NothingAhead DEF LastingInv, FollowInv, SnapsFollow
<1>4. ASSUME NEW k \in Snapshots, SnapsByKey'[k] # None
      PROVE  Youngest(s3Snaps, snapQueue, k, {None, SnapsByKey'[k]})
  <2>1. Youngest(s3Snaps, snapQueue, k, {SnapsByKey[k]})
    BY <1>3 DEF Following
  <2>2. PICK x, y : x = SnapsByKey[k] /\ y = SnapsByKey'[k]
    OBVIOUS
  <2>3. {x} \subseteq {None, y}
    BY <1>2, <1>4, <2>2
  <2>4. Youngest(s3Snaps, snapQueue, k, {None, y})
    BY <2>1, <2>2, <2>3, YoungestMore
  <2> QED BY <2>2, <2>4
<1>5. SnapsLast'
  BY <1>1 DEF LastingInv, SnapsLast
<1> QED BY <1>1, <1>4, <1>5 DEF SnapsNew

LEMMA SendLasts ==
    ASSUME NEW h \in Handler, LastingInv(h), SendRequest(h)
    PROVE  SnapsLast' /\ SnapsNew' /\ UNCHANGED s3Snaps
<1>0. /\ UNCHANGED <<snaps, s3Snaps, open>> /\ SnapsByKey' = SnapsByKey /\ open
  BY DEF SendRequest, bundleVars, FileSync!Send, SnapSync!Send, fileVars, snapVars, SnapsByKey
<1>1. CASE snapQueue' = snapQueue
  BY <1>0, <1>1 DEF LastingInv, SnapsLast, SnapsNew
<1>2. CASE SnapSync!Send(h)
  <2>1. snapCall[h] # << >> /\ snapQueue' = snapQueue \o snapCall[h]
    BY <1>2 DEF SnapSync!Send, SnapSync!NoCall
  <2>2. PICK C : C = File \union {None}
    OBVIOUS
  <2>3. WellFormed(Snapshots, C, s3Snaps, snapQueue, snapCall)
    BY <2>2 DEF LastingInv, FollowInv, TypeInv, SnapsIn
  <2>4. PICK r \in Requests(Snapshots, C) : snapCall[h] = <<r>>
    BY <2>1, <2>3, OneRequest
  <2>5. snapQueue \in Seq(Requests(Snapshots, C))
    BY <2>3 DEF WellFormed
  <2>6. r.key \in Snapshots /\ r.data = SnapsByKey[r.key]
    <3>1. <<r>> # << >> /\ <<r>>[1] = r
      OBVIOUS
    <3> QED BY <1>0, <2>4, <3>1 DEF LastingInv, FollowInv, SnapsFollow, Following, Requests
  <2>7. ASSUME NEW k \in Snapshots
        PROVE  /\ NeverReplaced(s3Snaps, snapQueue \o <<r>>, k)
               /\ SnapsByKey[k] # None =>
                     Youngest(s3Snaps, snapQueue \o <<r>>, k, {None, SnapsByKey[k]})
    <3>1. r.key = k /\ r.data # None => Youngest(s3Snaps, snapQueue, k, {None, r.data})
      BY <1>0, <2>6 DEF LastingInv, SnapsNew
    <3>2. NeverReplaced(s3Snaps, snapQueue, k)
      BY DEF LastingInv, SnapsLast
    <3>3. NeverReplaced(s3Snaps, snapQueue \o <<r>>, k)
      BY <2>5, <3>1, <3>2, NeverReplacedSent
    <3>4. ASSUME SnapsByKey[k] # None
          PROVE  Youngest(s3Snaps, snapQueue \o <<r>>, k, {None, SnapsByKey[k]})
      <4>1. PICK X : X = {None, SnapsByKey[k]}
        OBVIOUS
      <4>2. IF r.key = k THEN r.data \in X ELSE Youngest(s3Snaps, snapQueue, k, X)
        BY <1>0, <2>6, <3>4, <4>1 DEF LastingInv, SnapsNew
      <4>3. Youngest(s3Snaps, snapQueue \o <<r>>, k, X)
        BY <2>5, <4>2, YoungestSent
      <4> QED BY <4>1, <4>3
    <3> QED BY <3>3, <3>4
  <2> QED BY <1>0, <2>1, <2>4, <2>7 DEF SnapsLast, SnapsNew
<1> QED BY <1>0, <1>1, <1>2 DEF SendRequest, snapVars

LEMMA LoopsLast ==
    ASSUME ~StoreFails, NEW h \in Handler, LastingInv(h), PushLoops
    PROVE  /\ SnapsLast' /\ (open' => SnapsNew')
           /\ \A k \in Snapshots : s3Snaps[k] # None => s3Snaps'[k] \in {s3Snaps[k], None}
<1>0. UNCHANGED <<snaps, open>> /\ SnapsByKey' = SnapsByKey
  BY DEF PushLoops, bundleVars, FileSync!LoopStep, FileSync!Deliver, FileSync!DeliverFails,
     SnapSync!LoopStep, SnapSync!Deliver, SnapSync!DeliverFails, SnapsByKey
<1>1. CASE UNCHANGED snapVars
  BY <1>0, <1>1 DEF LastingInv, SnapsLast, SnapsNew, snapVars
<1>2. CASE SnapSync!LoopStep
  <2>1. /\ snapQueue # << >> /\ snapQueue' = Tail(snapQueue)
        /\ s3Snaps' = [s3Snaps EXCEPT ![Head(snapQueue).key] = Head(snapQueue).data]
    BY <1>2 DEF SnapSync!LoopStep, SnapSync!Deliver, SnapSync!DeliverFails
  <2>2. PICK C : C = File \union {None}
    OBVIOUS
  <2>3. s3Snaps \in [Snapshots -> C] /\ snapQueue \in Seq(Requests(Snapshots, C))
    BY <2>2 DEF LastingInv, FollowInv, TypeInv, SnapsIn, WellFormed
  <2>4. PICK after, rest :
           /\ after = [s3Snaps EXCEPT ![Head(snapQueue).key] = Head(snapQueue).data]
           /\ rest = Tail(snapQueue)
    OBVIOUS
  <2>5. ASSUME NEW k \in Snapshots
        PROVE  /\ NeverReplaced(after, rest, k)
               /\ s3Snaps[k] # None => after[k] \in {s3Snaps[k], None}
    BY <2>1, <2>3, <2>4, NeverReplacedReceived DEF LastingInv, SnapsLast
  <2>6. ASSUME NEW k \in Snapshots, NEW X, Youngest(s3Snaps, snapQueue, k, X)
        PROVE  Youngest(after, rest, k, X)
    BY <2>1, <2>3, <2>4, <2>6, YoungestReceived
  <2>7. s3Snaps' = after /\ snapQueue' = rest
    BY <2>1, <2>4
  <2>8. open => SnapsNew'
    BY <1>0, <2>6, <2>7 DEF LastingInv, SnapsNew
  <2> QED BY <1>0, <2>5, <2>7, <2>8 DEF SnapsLast
<1> QED BY <1>1, <1>2 DEF PushLoops

LEMMA NextLasts ==
    ASSUME ~StoreFails, ~PullFails, NEW h, Handler = {h}, LastingInv(h), [ServerNext]_serverVars
    PROVE  /\ LastingInv(h)'
           /\ \A k \in Snapshots : s3Snaps[k] # None => s3Snaps'[k] \in {s3Snaps[k], None}
<1>1. FollowInv(h)'
  BY NextFollows DEF LastingInv
<1> SUFFICES /\ SnapsLast' /\ (open' => SnapsNew')
             /\ \A k \in Snapshots : s3Snaps[k] # None => s3Snaps'[k] \in {s3Snaps[k], None}
  BY <1>1 DEF LastingInv
<1>2. CASE Restart
  <2>1. \A k \in Snapshots : s3Snaps'[k] = s3Snaps[k] /\ SnapsByKey'[k] = s3Snaps[k]
    BY <1>2, RestartFollows DEF LastingInv, FollowInv
  <2>2. snapQueue' = << >>
    BY <1>2 DEF Restart
  <2>3. SnapsLast'
    BY <2>2, NeverReplacedEmpty DEF SnapsLast
  <2>4. SnapsNew'
    BY <2>1, <2>2, YoungestEmpty DEF SnapsNew
  <2> QED BY <2>1, <2>3, <2>4
<1>3. CASE UNCHANGED <<snaps, s3Snaps, snapQueue>> /\ (open' => open)
  <2>1. SnapsByKey' = SnapsByKey
    BY <1>3 DEF SnapsByKey
  <2> QED BY <1>3, <2>1 DEF LastingInv, SnapsLast, SnapsNew
<1>4. CASE Shutdown \/ UNCHANGED serverVars
  BY <1>3, <1>4 DEF Shutdown, bundleVars, snapVars, serverVars
<1>5. CASE CallHook(h)
  BY <1>3, <1>5 DEF CallHook, bundleVars, snapVars, FileSync!PushFile, FileSync!DeleteFile,
     SnapSync!PushFile, SnapSync!DeleteFile
<1>6. CASE HandlerPanics(h)
  BY <1>3, <1>6 DEF HandlerPanics, bundleVars, snapVars, FileSync!SendPanics,
     SnapSync!SendPanics
<1>7. CASE Write(h)
  <2>1. UNCHANGED <<s3Snaps, snapQueue, open>>
    BY <1>7 DEF Write, snapVars
  <2>2. SnapsLast'
    BY <2>1 DEF LastingInv, SnapsLast
  <2>3. open => SnapsNew'
    BY <1>7, WriteLasts
  <2> QED BY <2>1, <2>2, <2>3
<1>8. CASE SendRequest(h)
  BY <1>8, SendLasts
<1>9. CASE PushLoops
  BY <1>9, LoopsLast
<1> QED BY <1>2, <1>4, <1>5, <1>6, <1>7, <1>8, <1>9 DEF ServerNext

\* A snapshot the object store holds is never replaced by another one,
\* however often the server is stopped or dies between the steps of a move:
\* the number a version gets is one whose object is gone by the time its own
\* is uploaded.
THEOREM StoredSnapshotsLast ==
    ASSUME ~StoreFails, ~PullFails, NEW h, Handler = {h}
    PROVE  ServerSpec => SnapshotsNotOverwritten
<1> DEFINE Last == \A k \in Snapshots :
                      s3Snaps[k] # None => s3Snaps'[k] \in {s3Snaps[k], None}
<1>1. ServerInit => LastingInv(h)
  <2> SUFFICES ASSUME ServerInit PROVE LastingInv(h)
    OBVIOUS
  <2>1. FollowInv(h) /\ snapQueue = << >> /\ s3Snaps = SnapsByKey
    BY InitFollows DEF ServerInit
  <2> QED
    BY <2>1, NeverReplacedEmpty, YoungestEmpty DEF LastingInv, SnapsLast, SnapsNew
<1>2. LastingInv(h) /\ [ServerNext]_serverVars => LastingInv(h)' /\ [Last]_serverVars
  BY NextLasts
<1>3. SnapshotsNotOverwritten <=> [][Last]_serverVars
  BY DEF SnapshotsNotOverwritten
<1> HIDE DEF Last
<1> QED BY <1>1, <1>2, <1>3, PTL DEF ServerSpec

-----------------------------------------------------------------------------
(* Concepts stay in the object store.                                      *)

\* The j-th value of key k is the one its object has once n requests are
\* carried out.
Shows(queue, k, n, j) == About(queue, k, j) /\ \A b \in (j + 1)..n : queue[b].key # k

\* Once n requests are carried out, an object holds concept i.
Holds(K, store, queue, n, i) ==
    \E k \in K, j \in 0..n :
        /\ Shows(queue, k, n, j)
        /\ Value(store, queue, k, j) # None /\ Value(store, queue, k, j).id = i

\* No request removes a concept.
Keeping(K, store, queue) ==
    \A i \in Id : \A n \in 0..(Len(queue) - 1) :
        Holds(K, store, queue, n, i) => Holds(K, store, queue, n + 1, i)

LEMMA SomeShown ==
    ASSUME NEW K, NEW C, NEW queue \in Seq(Requests(K, C)), NEW k
    PROVE  \E j \in 0..Len(queue) : About(queue, k, j) /\ NoneAfter(queue, k, j)
<1> DEFINE size == Len(queue)
           Gaps == {size - j : j \in {b \in 0..size : About(queue, k, b)}}
<1>1. size \in Nat
  BY LenProperties
<1>2. size \in Gaps /\ Gaps \subseteq Nat
  <2> HIDE DEF size
  <2>1. About(queue, k, 0)
    BY DEF About
  <2>2. 0 \in 0..size /\ size - 0 = size
    BY <1>1
  <2>3. size \in Gaps
    BY <2>1, <2>2
  <2>4. ASSUME NEW b \in 0..size PROVE size - b \in Nat
    BY <1>1
  <2>5. Gaps \subseteq Nat
    BY <2>4
  <2> QED BY <2>3, <2>5
<1>3. PICK g \in Gaps : \A d \in Gaps : g <= d
  BY <1>2, SmallestOf
<1>4. PICK j \in 0..size : g = size - j /\ About(queue, k, j)
  BY <1>3
<1>5. ASSUME NEW b \in (j + 1)..size PROVE queue[b].key # k
  <2> SUFFICES ASSUME queue[b].key = k PROVE FALSE
    OBVIOUS
  <2>1. b \in 0..size /\ About(queue, k, b)
    BY <1>1 DEF About
  <2>2. size - b \in Gaps
    BY <2>1
  <2>3. g <= size - b
    BY <1>3, <2>2
  <2> QED BY <1>1, <1>4, <2>3
<1> QED BY <1>4, <1>5 DEF NoneAfter

\* What is sent later says nothing of the requests before.
LEMMA HoldsBefore ==
    ASSUME NEW K, NEW C, NEW store, NEW queue \in Seq(Requests(K, C)),
           NEW r \in Requests(K, C), NEW n \in 0..Len(queue), NEW i
    PROVE  Holds(K, store, queue \o <<r>>, n, i) <=> Holds(K, store, queue, n, i)
<1> DEFINE longer == queue \o <<r>>
           size == Len(queue)
<1>1. /\ size \in Nat /\ Len(longer) = size + 1
      /\ \A b \in 1..size : longer[b] = queue[b]
  BY Sent
<1> HIDE DEF longer
<1>2. \A k \in K : \A j \in 0..n : /\ Shows(longer, k, n, j) <=> Shows(queue, k, n, j)
                                   /\ Value(store, longer, k, j) = Value(store, queue, k, j)
  BY <1>1 DEF Shows, About, Value
<1> QED BY <1>2 DEF Holds, longer

\* The files of concept i, and none.
SameId(i) == {c \in File : c.id = i} \union {None}

\* A request keeps every concept when it writes the one its object holds, or
\* when it removes one that another object holds too.
LEMMA KeepingSent ==
    ASSUME NEW K, NEW C, NEW store, NEW queue \in Seq(Requests(K, C)),
           NEW r \in Requests(K, C), Keeping(K, store, queue),
           r.data # None => Youngest(store, queue, r.key, SameId(r.data.id)),
           NEW I, Youngest(store, queue, r.key, {c \in File : c.id \in I} \union {None}),
           r.data = None => \A i \in I : \E q \in K \ {r.key} :
                               Youngest(store, queue, q, {c \in File : c.id = i})
    PROVE  Keeping(K, store, queue \o <<r>>)
<1> DEFINE longer == queue \o <<r>>
           size == Len(queue)
<1>1. /\ size \in Nat /\ Len(longer) = size + 1 /\ longer[size + 1] = r
      /\ \A b \in 1..size : longer[b] = queue[b]
  BY Sent
<1>2. \A n \in 0..size : \A i : Holds(K, store, longer, n, i) <=> Holds(K, store, queue, n, i)
  BY HoldsBefore
<1> HIDE DEF longer
<1>3. /\ \A j \in 0..size : \A k \in K :
            r.key # k /\ Shows(queue, k, size, j) => Shows(longer, k, size + 1, j)
      /\ \A j \in 0..size : \A k \in K : Value(store, longer, k, j) = Value(store, queue, k, j)
      /\ \A j \in 0..size : \A k \in K :
            Shows(queue, k, size, j) <=> About(queue, k, j) /\ NoneAfter(queue, k, j)
  <2>1. \A j \in 0..size : \A k \in K :
            r.key # k /\ Shows(queue, k, size, j) => Shows(longer, k, size + 1, j)
    BY <1>1 DEF Shows, About
  <2>2. \A j \in 0..size : \A k \in K : Value(store, longer, k, j) = Value(store, queue, k, j)
    BY <1>1 DEF Value
  <2>3. \A j \in 0..size : \A k \in K :
            Shows(queue, k, size, j) <=> About(queue, k, j) /\ NoneAfter(queue, k, j)
    BY DEF Shows, NoneAfter
  <2> QED BY <2>1, <2>2, <2>3
<1>4. r.key \in K /\ 0..size \subseteq 0..(size + 1) /\ size + 1 \in 0..(size + 1)
  BY <1>1 DEF Requests
<1>5. ASSUME NEW i, NEW k \in K, NEW j \in 0..size, Shows(queue, k, size, j),
             Value(store, queue, k, j) # None, Value(store, queue, k, j).id = i
      PROVE  Holds(K, store, longer, size + 1, i)
  <2>1. CASE k # r.key
    <3>1. Shows(longer, k, size + 1, j) /\ Value(store, longer, k, j) = Value(store, queue, k, j)
      BY <1>3, <1>5, <2>1
    <3> QED BY <1>4, <1>5, <3>1 DEF Holds
  <2>2. CASE k = r.key /\ r.data # None
    <3>1. Value(store, queue, k, j) \in SameId(r.data.id)
      BY <1>3, <1>5, <2>2 DEF Youngest
    <3>2. r.data.id = i
      BY <1>5, <3>1 DEF SameId
    <3>3. Shows(longer, r.key, size + 1, size + 1)
      BY <1>1 DEF Shows, About
    <3>4. Value(store, longer, r.key, size + 1) = r.data
      BY <1>1 DEF Value
    <3> QED BY <1>4, <2>2, <3>2, <3>3, <3>4 DEF Holds
  <2>3. CASE k = r.key /\ r.data = None
    <3>1. Value(store, queue, k, j) \in {c \in File : c.id \in I} \union {None}
      BY <1>3, <1>5, <2>3 DEF Youngest
    <3>2. i \in I
      BY <1>5, <3>1
    <3>3. PICK q \in K \ {r.key} : Youngest(store, queue, q, {c \in File : c.id = i})
      BY <2>3, <3>2
    <3>4. PICK b \in 0..size : About(queue, q, b) /\ NoneAfter(queue, q, b)
      BY SomeShown
    <3>5. Value(store, queue, q, b) \in File /\ Value(store, queue, q, b).id = i
      BY <3>3, <3>4 DEF Youngest
    <3>6. Shows(longer, q, size + 1, b) /\ Value(store, longer, q, b) = Value(store, queue, q, b)
      BY <1>3, <3>3, <3>4
    <3> QED BY <1>4, <3>3, <3>5, <3>6, NoneAssumption DEF Holds
  <2> QED BY <2>1, <2>2, <2>3
<1>6. \A i : Holds(K, store, queue, size, i) => Holds(K, store, longer, size + 1, i)
  BY <1>5 DEF Holds
<1>7. ASSUME NEW i \in Id, NEW n \in 0..size, Holds(K, store, longer, n, i)
      PROVE  Holds(K, store, longer, n + 1, i)
  <2>1. Holds(K, store, queue, n, i)
    BY <1>2, <1>7
  <2>2. CASE n = size
    BY <1>6, <2>1, <2>2
  <2>3. CASE n # size
    <3>1. n \in 0..(size - 1) /\ n + 1 \in 0..size
      BY <1>1, <2>3
    <3>2. Holds(K, store, queue, n + 1, i)
      BY <2>1, <3>1 DEF Keeping
    <3> QED BY <1>2, <3>1, <3>2
  <2> QED BY <2>2, <2>3
<1>8. Len(longer) - 1 = size
  BY <1>1
<1> QED BY <1>7, <1>8 DEF Keeping, longer

LEMMA KeepingReceived ==
    ASSUME NEW K, NEW C, NEW store \in [K -> C], NEW queue \in Seq(Requests(K, C)),
           queue # << >>, Keeping(K, store, queue)
    PROVE  /\ Keeping(K, [store EXCEPT ![Head(queue).key] = Head(queue).data], Tail(queue))
           /\ \A i \in Id :
                 Holds(K, store, << >>, 0, i)
                   => Holds(K, [store EXCEPT ![Head(queue).key] = Head(queue).data], << >>, 0, i)
<1> DEFINE rest == Tail(queue)
           after == [store EXCEPT ![Head(queue).key] = Head(queue).data]
           size == Len(queue)
<1>1. /\ Head(queue) = queue[1] /\ size \in Nat /\ size >= 1 /\ Len(rest) = size - 1
      /\ \A n \in 1..Len(rest) : n + 1 \in 1..size /\ rest[n] = queue[n + 1]
      /\ Head(queue) \in Requests(K, C)
  BY Received
<1>2. \A k \in K : after[k] = IF queue[1].key = k THEN queue[1].data ELSE store[k]
  BY <1>1 DEF Requests
<1> HIDE DEF rest, after
<1>3. ASSUME NEW n \in 0..Len(rest), NEW k \in K, NEW j \in 0..n, Shows(rest, k, n, j)
      PROVE  \E b \in 0..(n + 1) : /\ Shows(queue, k, n + 1, b)
                                   /\ Value(store, queue, k, b) = Value(after, rest, k, j)
  <2>1. \A b \in (j + 2)..(n + 1) : /\ b - 1 \in (j + 1)..n /\ b - 1 \in 1..Len(rest)
                                    /\ (b - 1) + 1 = b
    BY <1>1
  <2>2. ASSUME NEW b \in (j + 2)..(n + 1) PROVE queue[b].key # k
    <3>1. PICK d \in (j + 1)..n : d = b - 1
      BY <2>1
    <3>2. rest[d] = queue[b]
      BY <1>1, <2>1, <3>1
    <3> QED BY <1>3, <3>1, <3>2 DEF Shows
  <2>3. (j + 1) + 1 = j + 2 /\ j + 1 \in 1..size /\ j + 1 # 0 /\ j + 1 \in 0..(n + 1)
    BY <1>1
  <2>4. CASE j # 0 \/ queue[1].key = k
    <3>1. About(queue, k, j + 1)
      BY <1>1, <1>3, <2>3, <2>4 DEF About, Shows
    <3>2. Shows(queue, k, n + 1, j + 1)
      BY <2>2, <2>3, <3>1 DEF Shows
    <3>3. Value(store, queue, k, j + 1) = Value(after, rest, k, j)
      BY <1>1, <1>2, <2>3, <2>4 DEF Value
    <3> QED BY <2>3, <3>2, <3>3
  <2>5. CASE j = 0 /\ queue[1].key # k
    <3>1. \A b \in (0 + 1)..(n + 1) : b = 1 \/ b \in (j + 2)..(n + 1)
      BY <2>5
    <3>2. Shows(queue, k, n + 1, 0)
      BY <2>2, <2>5, <3>1 DEF Shows, About
    <3>3. Value(store, queue, k, 0) = Value(after, rest, k, j)
      BY <1>2, <2>5 DEF Value
    <3>4. 0 \in 0..(n + 1)
      OBVIOUS
    <3> QED BY <3>2, <3>3, <3>4
  <2> QED BY <2>4, <2>5
<1>4. ASSUME NEW n \in 0..Len(rest), NEW k \in K, NEW b \in 0..(n + 1),
             Shows(queue, k, n + 1, b)
      PROVE  \E j \in 0..n : /\ Shows(rest, k, n, j)
                             /\ Value(after, rest, k, j) = Value(store, queue, k, b)
  <2>1. \A d \in 1..n : /\ d + 1 \in 1..size /\ rest[d] = queue[d + 1]
                        /\ d >= b => d + 1 \in (b + 1)..(n + 1)
    BY <1>1
  <2>2. CASE b = 0
    <3>1. \A d \in (0 + 1)..n : d + 1 \in (b + 1)..(n + 1) /\ d \in 1..n
      BY <2>2
    <3>2. Shows(rest, k, n, 0)
      BY <1>4, <2>1, <3>1 DEF Shows, About
    <3>3. queue[1].key # k
      <4>1. 1 \in (b + 1)..(n + 1)
        BY <2>2
      <4> QED BY <1>4, <4>1 DEF Shows
    <3>4. Value(after, rest, k, 0) = Value(store, queue, k, b)
      BY <1>2, <2>2, <3>3 DEF Value
    <3>5. 0 \in 0..n
      OBVIOUS
    <3> QED BY <3>2, <3>4, <3>5
  <2>3. CASE b # 0
    <3>1. /\ b - 1 \in 0..n /\ (b - 1) + 1 = b
          /\ \A d \in ((b - 1) + 1)..n : d + 1 \in (b + 1)..(n + 1) /\ d \in 1..n
      BY <2>3
    <3>2. queue[b].key = k
      BY <1>4, <2>3 DEF Shows, About
    <3>3. b - 1 # 0 => b - 1 \in 1..n /\ rest[b - 1] = queue[b]
      <4>1. b - 1 # 0 => b - 1 \in 1..n
        BY <3>1
      <4> QED BY <2>1, <3>1, <4>1
    <3>4. Shows(rest, k, n, b - 1)
      BY <1>4, <2>1, <3>1, <3>2, <3>3 DEF Shows, About
    <3>5. Value(after, rest, k, b - 1) = Value(store, queue, k, b)
      <4>1. CASE b - 1 = 0
        <5>1. b = 1
          BY <3>1, <4>1
        <5> QED BY <1>2, <2>3, <3>2, <4>1, <5>1 DEF Value
      <4>2. CASE b - 1 # 0
        BY <2>3, <3>3, <4>2 DEF Value
      <4> QED BY <4>1, <4>2
    <3> QED BY <3>1, <3>4, <3>5
  <2> QED BY <2>2, <2>3
<1>5. ASSUME NEW n \in 0..Len(rest), NEW i
      PROVE  Holds(K, after, rest, n, i) <=> Holds(K, store, queue, n + 1, i)
  <2>1. ASSUME Holds(K, after, rest, n, i) PROVE Holds(K, store, queue, n + 1, i)
    <3>1. PICK k \in K, j \in 0..n :
             /\ Shows(rest, k, n, j)
             /\ Value(after, rest, k, j) # None /\ Value(after, rest, k, j).id = i
      BY <2>1 DEF Holds
    <3>2. PICK b \in 0..(n + 1) : /\ Shows(queue, k, n + 1, b)
                                  /\ Value(store, queue, k, b) = Value(after, rest, k, j)
      BY <1>3, <3>1
    <3> QED BY <3>1, <3>2 DEF Holds
  <2>2. ASSUME Holds(K, store, queue, n + 1, i) PROVE Holds(K, after, rest, n, i)
    <3>1. PICK k \in K, b \in 0..(n + 1) :
             /\ Shows(queue, k, n + 1, b)
             /\ Value(store, queue, k, b) # None /\ Value(store, queue, k, b).id = i
      BY <2>2 DEF Holds
    <3>2. PICK j \in 0..n : /\ Shows(rest, k, n, j)
                            /\ Value(after, rest, k, j) = Value(store, queue, k, b)
      BY <1>4, <3>1
    <3> QED BY <3>1, <3>2 DEF Holds
  <2> QED BY <2>1, <2>2
<1>6. ASSUME NEW i \in Id, NEW n \in 0..(Len(rest) - 1), Holds(K, after, rest, n, i)
      PROVE  Holds(K, after, rest, n + 1, i)
  <2>1. n \in 0..Len(rest) /\ n + 1 \in 0..Len(rest) /\ n + 1 \in 0..(size - 1)
    BY <1>1
  <2>2. Holds(K, store, queue, n + 1, i)
    BY <1>5, <1>6, <2>1
  <2>3. Holds(K, store, queue, (n + 1) + 1, i)
    BY <2>1, <2>2 DEF Keeping
  <2> QED BY <1>5, <2>1, <2>3
<1>7. ASSUME NEW i \in Id, Holds(K, store, << >>, 0, i) PROVE Holds(K, after, << >>, 0, i)
  <2>1. 0 \in 0..(size - 1) /\ 0 \in 0..Len(rest) /\ 0..0 = {0} /\ (0 + 1)..0 = {} /\ 0 + 1 = 1
    BY <1>1
  <2>2. \A s, q : Holds(K, s, q, 0, i) <=> \E k \in K : s[k] # None /\ s[k].id = i
    BY <2>1 DEF Holds, Shows, About, Value
  <2>3. Holds(K, store, queue, 0, i)
    BY <1>7, <2>2
  <2>4. Holds(K, store, queue, 0 + 1, i)
    BY <2>1, <2>3 DEF Keeping
  <2>5. Holds(K, after, rest, 0, i)
    BY <1>5, <2>1, <2>4
  <2> QED BY <2>2, <2>5
<1> QED BY <1>6, <1>7 DEF Keeping, rest, after

\* A write leaves every concept on the disk, and in place unless it moves it.
LEMMA WriteKeepsConcepts ==
    ASSUME Disk, NEW h \in Handler, Write(h), NEW p \in Path, files[p] # None
    PROVE  /\ files'[p] # None => files'[p].id = files[p].id
           /\ \E q \in Path : files'[q] # None /\ files'[q].id = files[p].id
<1>0. files[p] \in File
  BY DEF Disk
<1>1. ASSUME NEW i \in Id, NEW a \in Path, NEW links \in LinkSets, Create(i, a, links)
      PROVE  files'[p] = files[p]
  BY <1>1, CreateSlots
<1>2. ASSUME NEW a \in Path, NEW links \in LinkSets, Exists(a),
             Update(a, links, files[a].aliases, 0)
      PROVE  files'[p] # None /\ files'[p].id = files[p].id
  <2>1. files' = [files EXCEPT ![a] = Edited(a, links, files[a].aliases)]
    BY <1>2 DEF Update
  <2>2. Edited(a, links, files[a].aliases).id = files[a].id
    BY DEF Edited
  <2>3. links \in SUBSET Target /\ files[a] \in File
    BY <1>2, AuthorAssumption DEF Disk, Exists
  <2>4. Edited(a, links, files[a].aliases) \in File
    BY <2>3, NormalizedType DEF Edited, File
  <2>5. files'[p] = IF p = a THEN Edited(a, links, files[a].aliases) ELSE files[p]
    BY <2>1 DEF Disk
  <2> QED BY <2>2, <2>4, <2>5, NoneAssumption
<1>3. ASSUME NEW m \in Batches, NEW expected, MoveBatch(m, expected)
      PROVE  /\ files'[p] # None => files'[p].id = files[p].id
             /\ \E q \in Path : files'[q] # None /\ files'[q].id = files[p].id
  <2>1. files' = FilesAfter(m)
    BY <1>3 DEF MoveBatch
  <2>2. CASE p \in Sources(m)
    <3>1. m[p] \in Path /\ files'[p] = None /\ files'[m[p]] \in File /\ m[p] \in Targets(m)
      BY <1>3, <2>2, MoveSlots
    <3>2. Origin(m, m[p]) = p
      BY <2>2, BatchShape
    <3>3. files'[m[p]] = MovedFile(m, p)
      BY <2>1, <3>1, <3>2 DEF FilesAfter
    <3>4. MovedFile(m, p).id = files[p].id
      BY <1>0 DEF MovedFile, File
    <3> QED BY <3>1, <3>3, <3>4, NoneAssumption
  <2>3. CASE p \in Relinked(m)
    <3>1. files'[p] \in File /\ p \notin Sources(m) \union Targets(m)
      BY <1>3, <2>3, MoveSlots
    <3>2. files'[p] = RelinkedFile(m, p)
      BY <2>1, <2>3, <3>1 DEF FilesAfter
    <3>3. RelinkedFile(m, p).id = files[p].id
      BY <1>0 DEF RelinkedFile, File
    <3> QED BY <3>1, <3>2, <3>3, NoneAssumption
  <2>4. CASE p \in Targets(m)
    <3>1. PICK q \in Sources(m) : p = m[q]
      BY <2>4 DEF Targets, Sources
    <3> QED BY <1>3, <3>1, MoveSlots
  <2>5. CASE p \notin Sources(m) \union Targets(m) \union Relinked(m)
    BY <1>3, <2>5, MoveSlots
  <2> QED BY <2>2, <2>3, <2>4, <2>5
<1>4. CASE \E m \in Batches : MoveBatch(m, [a \in Sources(m) |-> 0])
  <2>1. PICK m \in Batches : MoveBatch(m, [a \in Sources(m) |-> 0])
    BY <1>4
  <2>2. PICK expected : expected = [a \in Sources(m) |-> 0]
    OBVIOUS
  <2> QED BY <1>3, <2>1, <2>2
<1> QED BY <1>1, <1>2, <1>4 DEF Write

\* The order of hook calls: files are deleted after all that is written.
DeleteCalls == {OnDelete(p) : p \in Path}
WriteCalls == {OnWrite(p) : p \in Path}
DeletesAtEnd(s) ==
    \A n, j \in 1..Len(s) : n < j /\ s[n] \in DeleteCalls => s[j] \notin WriteCalls

LEMMA EndsWithDeletes ==
    ASSUME NEW s, NEW t, NEW A, NEW B, Lists(s, A), Lists(t, B),
           A \intersect DeleteCalls = {}, B \intersect WriteCalls = {}
    PROVE  DeletesAtEnd(s \o t)
<1>1. s \in Seq(A \union B) /\ t \in Seq(A \union B)
  BY SeqMonotonic, Zenon DEF Lists
<1>2. /\ Len(s \o t) = Len(s) + Len(t)
      /\ \A j \in 1..(Len(s) + Len(t)) :
            (s \o t)[j] = IF j <= Len(s) THEN s[j] ELSE t[j - Len(s)]
  BY <1>1, ConcatProperties, Zenon
<1>3. Len(s) \in Nat /\ Len(t) \in Nat
  BY <1>1, LenProperties
<1>4. \A n \in 1..Len(s) : s[n] \in A
  BY ElementOfSeq, Zenon DEF Lists
<1>5. \A n \in 1..Len(t) : t[n] \in B
  BY ElementOfSeq, Zenon DEF Lists
<1>6. ASSUME NEW n \in 1..(Len(s) + Len(t)), NEW j \in 1..(Len(s) + Len(t)), n < j,
             (s \o t)[n] \in DeleteCalls
      PROVE  (s \o t)[j] \notin WriteCalls
  <2>1. ~(n <= Len(s))
    <3> SUFFICES ASSUME n <= Len(s) PROVE FALSE
      OBVIOUS
    <3>1. n \in 1..Len(s) /\ (s \o t)[n] = s[n]
      BY <1>2, <1>3
    <3> QED BY <1>4, <1>6, <3>1
  <2>2. ~(j <= Len(s)) /\ j - Len(s) \in 1..Len(t)
    BY <1>3, <1>6, <2>1
  <2>3. (s \o t)[j] = t[j - Len(s)]
    BY <1>2, <2>2
  <2> QED BY <1>5, <2>2, <2>3
<1> QED BY <1>2, <1>6 DEF DeletesAtEnd

LEMMA TailEndsWithDeletes ==
    ASSUME NEW S, NEW s \in Seq(S), s # << >>, DeletesAtEnd(s)
    PROVE  /\ DeletesAtEnd(Tail(s))
           /\ Head(s) \in DeleteCalls => Members(Tail(s)) \intersect WriteCalls = {}
<1>1. /\ Len(s) \in Nat /\ Len(s) >= 1 /\ Len(Tail(s)) = Len(s) - 1
      /\ \A n \in 1..Len(Tail(s)) : Tail(s)[n] = s[n + 1]
      /\ Head(s) = s[1]
  BY EmptySeq
<1>2. \A n \in 1..Len(Tail(s)) : n + 1 \in 1..Len(s) /\ 1 < n + 1 /\ 1 \in 1..Len(s)
  BY <1>1
<1>3. \A n, j \in 1..Len(Tail(s)) : n < j => n + 1 < j + 1
  BY <1>1
<1>4. DeletesAtEnd(Tail(s))
  BY <1>1, <1>2, <1>3 DEF DeletesAtEnd
<1>5. Head(s) \in DeleteCalls => \A n \in 1..Len(Tail(s)) : Tail(s)[n] \notin WriteCalls
  BY <1>1, <1>2 DEF DeletesAtEnd
<1> QED BY <1>4, <1>5 DEF Members

LEMMA WriteOrdersHooks ==
    ASSUME Disk, Hooked, NEW h \in Handler, Write(h) PROVE DeletesAtEnd(hooks'[h])
<1>1. \A s : hooks' = [hooks EXCEPT ![h] = s] => hooks'[h] = s
  BY DEF Hooked
<1>2. ASSUME NEW p, NEW v, p \in Path
      PROVE  DeletesAtEnd(<<OnWrite(p)>>) /\ DeletesAtEnd(<<OnWrite(p), OnSnapshot(p, v)>>)
  <2>1. OnWrite(p) \notin DeleteCalls
    BY <1>2, HookNames DEF DeleteCalls
  <2>2. PICK a, b : a = OnWrite(p) /\ b = OnSnapshot(p, v)
    OBVIOUS
  <2>3. /\ Len(<<a>>) = 1 /\ Len(<<a, b>>) = 2 /\ <<a>>[1] = a /\ <<a, b>>[1] = a
        /\ \A n, j \in 1..2 : n < j => n = 1
        /\ \A n, j \in 1..1 : ~(n < j)
    OBVIOUS
  <2>4. DeletesAtEnd(<<a>>) /\ DeletesAtEnd(<<a, b>>)
    BY <2>1, <2>2, <2>3 DEF DeletesAtEnd
  <2> QED BY <2>2, <2>4
<1>3. ASSUME NEW m \in Batches, NEW expected, MoveBatch(m, expected)
      PROVE  DeletesAtEnd(MoveHooks(m))
  <2>1. PICK s, t : /\ MoveHooks(m) = s \o t /\ Lists(s, FirstCalls(m))
                    /\ Lists(t, {OnDelete(p) : p \in Sources(m)})
    BY <1>3, MoveHooksEnd
  <2>2. /\ Sources(m) \subseteq Path /\ Targets(m) \subseteq Path /\ Relinked(m) \subseteq Path
        /\ Carried(m) \subseteq Snapshots /\ Kept(m) \subseteq Snapshots
    BY <1>3, MoveKeys
  <2>3. FirstCalls(m) \intersect DeleteCalls = {}
    BY <2>2, HookNames DEF FirstCalls, DeleteCalls
  <2>4. {OnDelete(p) : p \in Sources(m)} \intersect WriteCalls = {}
    BY <2>2, HookNames DEF WriteCalls
  <2>5. DeletesAtEnd(s \o t)
    BY <2>1, <2>3, <2>4, EndsWithDeletes
  <2> QED BY <2>1, <2>5
<1> HIDE DEF OnWrite, OnSnapshot
<1>4. CASE \E i \in Id, p \in Path, links \in LinkSets :
              /\ Create(i, p, links)
              /\ hooks' = [hooks EXCEPT ![h] = <<OnWrite(p)>>]
  BY <1>1, <1>2, <1>4
<1>5. CASE \E p \in Path, links \in LinkSets :
              /\ Exists(p)
              /\ Update(p, links, files[p].aliases, 0)
              /\ hooks' = [hooks EXCEPT ![h] = <<OnWrite(p), OnSnapshot(p, ConceptVersion(p))>>]
  <2>1. PICK p \in Path :
             hooks' = [hooks EXCEPT ![h] = <<OnWrite(p), OnSnapshot(p, ConceptVersion(p))>>]
    BY <1>5
  <2>2. PICK v : v = ConceptVersion(p)
    OBVIOUS
  <2>3. hooks' = [hooks EXCEPT ![h] = <<OnWrite(p), OnSnapshot(p, v)>>]
    BY <2>1, <2>2
  <2>4. hooks'[h] = <<OnWrite(p), OnSnapshot(p, v)>>
    BY <1>1, <2>3
  <2> QED BY <1>2, <2>4
<1>6. CASE \E m \in Batches :
              /\ MoveBatch(m, [p \in Sources(m) |-> 0])
              /\ hooks' = [hooks EXCEPT ![h] = MoveHooks(m)]
  BY <1>1, <1>3, <1>6
<1> QED BY <1>4, <1>5, <1>6, Zenon DEF Write

-----------------------------------------------------------------------------
\* The concepts on the disk.
Present == {files[p].id : p \in {q \in Path : files[q] # None}}

FilesKeep == Keeping(Path, s3Files, fileQueue)

\* Once the channel is empty, the object of a path that has a file holds the
\* same concept, or there is none.
FilesSame ==
    \A p \in Path : files[p] # None => Youngest(s3Files, fileQueue, p, SameId(files[p].id))

\* Once the channel is empty, every object's concept is one of the disk's.
FilesPresent ==
    \A p \in Path :
        Youngest(s3Files, fileQueue, p, {c \in File : c.id \in Present} \union {None})

\* Nothing is left to write when the first file is deleted.
DeletesLast(h) ==
    /\ DeletesAtEnd(hooks[h])
    /\ fileCall[h] # << >> /\ fileCall[h][1].data = None => FilesPushed(h) = {}

StayInv(h) ==
    FollowInv(h) /\ FilesKeep /\ (open => FilesSame /\ FilesPresent /\ DeletesLast(h))

LEMMA StartStays ==
    ASSUME NEW disk, NEW store, \A p \in Path : store[p] = disk[p],
           \A p \in Path : disk[p] \in File \union {None}
    PROVE  /\ Keeping(Path, store, << >>)
           /\ \A p \in Path : disk[p] # None => Youngest(store, << >>, p, SameId(disk[p].id))
           /\ \A p \in Path :
                 Youngest(store, << >>, p,
                          {c \in File : c.id \in {disk[a].id : a \in {q \in Path : disk[q] # None}}}
                            \union {None})
<1>1. Len(<< >>) = 0 /\ 0..(0 - 1) = {}
  OBVIOUS
<1>2. Keeping(Path, store, << >>)
  BY <1>1 DEF Keeping
<1>3. ASSUME NEW p \in Path, disk[p] # None PROVE store[p] \in SameId(disk[p].id)
  BY <1>3 DEF SameId
<1>4. ASSUME NEW p \in Path
      PROVE  store[p] \in {c \in File : c.id \in {disk[a].id : a \in {q \in Path : disk[q] # None}}}
                            \union {None}
  BY <1>4
<1> QED BY <1>2, <1>3, <1>4, YoungestEmpty

LEMMA WriteStays ==
    ASSUME NEW h \in Handler, StayInv(h), open, Write(h)
    PROVE  FilesKeep' /\ FilesSame' /\ FilesPresent' /\ DeletesLast(h)'
<1>1. /\ UNCHANGED <<s3Files, fileQueue, fileCall>>
      /\ hooks[h] = << >> /\ fileCall[h] = << >> /\ Disk /\ Hooked
  BY DEF Write, fileVars, Idle, NoCalls, FileSync!NoCall, SnapSync!NoCall, StayInv, FollowInv,
         TypeInv
<1>2. FilesKeep'
  BY <1>1 DEF StayInv, FilesKeep
<1>3. Following(Path, files, s3Files, fileQueue, << >>, {}, {})
  BY <1>1, NothingAhead DEF StayInv, FollowInv, FilesFollow
<1>4. ASSUME NEW p \in Path, files'[p] # None
      PROVE  Youngest(s3Files, fileQueue, p, SameId(files'[p].id))
  <2>1. Youngest(s3Files, fileQueue, p, {files[p]})
    BY <1>3 DEF Following
  <2>2. files[p] \in SameId(files'[p].id)
    BY <1>1, <1>4, WriteKeepsConcepts DEF SameId, Disk
  <2>3. {files[p]} \subseteq SameId(files'[p].id)
    BY <2>2
  <2> QED BY <2>1, <2>3, YoungestMore
<1>5. PICK I : I = Present'
  OBVIOUS
<1>6. ASSUME NEW p \in Path
      PROVE  Youngest(s3Files, fileQueue, p, {c \in File : c.id \in I} \union {None})
  <2>1. Youngest(s3Files, fileQueue, p, {files[p]})
    BY <1>3 DEF Following
  <2>2. files[p] # None => files[p].id \in I
    <3> SUFFICES ASSUME files[p] # None PROVE files[p].id \in I
      OBVIOUS
    <3>1. PICK q \in Path : files'[q] # None /\ files'[q].id = files[p].id
      BY <1>1, WriteKeepsConcepts
    <3> QED BY <1>5, <3>1 DEF Present
  <2>3. {files[p]} \subseteq {c \in File : c.id \in I} \union {None}
    BY <1>1, <2>2 DEF Disk
  <2> QED BY <2>1, <2>3, YoungestMore
<1>7. FilesSame' /\ FilesPresent'
  BY <1>1, <1>4, <1>5, <1>6 DEF FilesSame, FilesPresent
<1>8. DeletesLast(h)'
  BY <1>1, WriteOrdersHooks DEF DeletesLast
<1> QED BY <1>2, <1>7, <1>8

LEMMA HookStays ==
    ASSUME NEW h \in Handler, StayInv(h), open, CallHook(h)
    PROVE  FilesKeep' /\ FilesSame' /\ FilesPresent' /\ DeletesLast(h)'
<1>1. /\ hooks[h] # << >> /\ fileCall[h] = << >>
      /\ hooks' = [hooks EXCEPT ![h] = Tail(hooks[h])]
      /\ UNCHANGED <<files, s3Files, fileQueue>> /\ Hooked /\ hooks[h] \in Seq(HookCall)
  BY DEF CallHook, NoCalls, FileSync!NoCall, bundleVars, StayInv, FollowInv, TypeInv, Hooked,
         fileVars, FileSync!PushFile, FileSync!DeleteFile
<1>2. FilesKeep' /\ FilesSame' /\ FilesPresent'
  BY <1>1 DEF StayInv, FilesKeep, FilesSame, FilesPresent, Present
<1>3. hooks'[h] = Tail(hooks[h])
  BY <1>1 DEF Hooked
<1>4. /\ DeletesAtEnd(hooks'[h])
      /\ Head(hooks[h]) \in DeleteCalls => Members(hooks'[h]) \intersect WriteCalls = {}
  BY <1>1, <1>3, TailEndsWithDeletes DEF StayInv, DeletesLast
<1>5. Head(hooks[h]) \in DeleteCalls => FilesPushed(h)' = {}
  BY <1>4 DEF FilesPushed, Ahead, WriteCalls
<1>6. ASSUME fileCall'[h] # << >>, fileCall'[h][1].data = None
      PROVE  Head(hooks[h]) \in DeleteCalls
  <2>1. Head(hooks[h]) \in HookCall
    BY <1>1, HookGone
  <2>2. CASE \E p \in Path : Head(hooks[h]) = OnWrite(p)
    <3>1. PICK p \in Path : Head(hooks[h]) = OnWrite(p)
      BY <2>2
    <3>2. p \in FilesPushed(h)
      BY <1>1, <3>1, HookGone
    <3>3. files[p] # None
      BY <3>2 DEF StayInv, FollowInv, FilesFollow, Following
    <3>4. /\ Head(hooks[h]).on = "files" /\ Head(hooks[h]).do = "push"
          /\ Head(hooks[h]).file = p
      BY <3>1 DEF OnWrite
    <3>5. fileCall' = [fileCall EXCEPT ![h] = <<[key |-> p, data |-> files[p]]>>]
      BY <3>3, <3>4 DEF CallHook, FileSync!PushFile
    <3>6. fileCall'[h] = <<[key |-> p, data |-> files[p]]>>
      BY <3>5 DEF StayInv, FollowInv, TypeInv, FilesIn, WellFormed
    <3>7. fileCall'[h][1].data = files[p]
      BY <3>6
    <3> QED BY <1>6, <3>3, <3>7
  <2>3. CASE \E p \in Path : Head(hooks[h]) = OnDelete(p)
    BY <2>3 DEF DeleteCalls
  <2>4. CASE \E k \in Snapshots : \/ Head(hooks[h]) = OnSnapshot(k[1], k[2])
                                  \/ Head(hooks[h]) = OnSnapshotDelete(k[1], k[2])
    <3>1. Head(hooks[h]).on # "files"
      BY <2>4 DEF OnSnapshot, OnSnapshotDelete
    <3>2. fileCall' = fileCall
      BY <3>1 DEF CallHook, fileVars
    <3> QED BY <1>1, <1>6, <3>2
  <2> QED BY <2>1, <2>2, <2>3, <2>4, HookKinds
<1> QED BY <1>2, <1>4, <1>5, <1>6 DEF DeletesLast

LEMMA SendStays ==
    ASSUME NEW h \in Handler, Handler = {h}, StayInv(h), SendRequest(h)
    PROVE  FilesKeep' /\ FilesSame' /\ FilesPresent' /\ DeletesLast(h)' /\ UNCHANGED s3Files
<1>0. /\ UNCHANGED <<files, snaps, s3Files, hooks, open>> /\ open
      /\ Present' = Present /\ FilesPushed(h)' = FilesPushed(h)
  BY DEF SendRequest, bundleVars, FileSync!Send, SnapSync!Send, fileVars, snapVars, Present,
         FilesPushed, Ahead
<1>1. CASE UNCHANGED fileVars
  BY <1>0, <1>1
     DEF fileVars, StayInv, FilesKeep, FilesSame, FilesPresent, DeletesLast
<1>2. CASE FileSync!Send(h)
  <2>1. /\ fileCall[h] # << >> /\ fileQueue' = fileQueue \o fileCall[h]
        /\ fileCall' = [fileCall EXCEPT ![h] = << >>]
    BY <1>2 DEF FileSync!Send, FileSync!NoCall
  <2>2. PICK C : C = File \union {None}
    OBVIOUS
  <2>3. WellFormed(Path, C, s3Files, fileQueue, fileCall)
    BY <2>2 DEF StayInv, FollowInv, TypeInv, FilesIn
  <2>4. PICK r \in Requests(Path, C) : fileCall[h] = <<r>>
    BY <2>1, <2>3, OneRequest
  <2>5. fileQueue \in Seq(Requests(Path, C)) /\ fileCall'[h] = << >>
    BY <2>1, <2>3 DEF WellFormed
  <2>6. <<r>> # << >> /\ <<r>>[1] = r /\ r.key \in Path
    BY DEF Requests
  <2>7. Following(Path, files, s3Files, fileQueue, <<r>>, FilesPushed(h), FilesDeleted(h))
    BY <1>0, <2>4 DEF StayInv, FollowInv, FilesFollow
  <2>8. r.data = files[r.key] /\ \A p \in Path : files[p] \in File \union {None}
    BY <2>6, <2>7 DEF Following, StayInv, FollowInv, TypeInv, Disk
  <2>9. PICK I : I = Present
    OBVIOUS
  <2>10. FilesSame /\ FilesPresent /\ DeletesLast(h) /\ FilesKeep
    BY <1>0 DEF StayInv
  <2>11. r.data # None => Youngest(s3Files, fileQueue, r.key, SameId(r.data.id))
    BY <2>6, <2>8, <2>10 DEF FilesSame
  <2>12. \A p \in Path :
            Youngest(s3Files, fileQueue, p, {c \in File : c.id \in I} \union {None})
    BY <2>9, <2>10 DEF FilesPresent
  <2>13. ASSUME r.data = None, NEW i \in I
         PROVE  \E q \in Path \ {r.key} :
                   Youngest(s3Files, fileQueue, q, {c \in File : c.id = i})
    <3>1. PICK q \in Path : files[q] # None /\ files[q].id = i
      BY <2>9 DEF Present
    <3>2. q # r.key /\ files[q] \in File
      BY <2>8, <2>13, <3>1
    <3>3. FilesPushed(h) = {}
      BY <2>4, <2>6, <2>10, <2>13 DEF DeletesLast
    <3>4. q \notin FilesDeleted(h)
      BY <2>7, <3>1 DEF Following
    <3>5. Youngest(s3Files, fileQueue, q, {files[q]})
      BY <2>6, <2>7, <3>2, <3>3, <3>4 DEF Following
    <3>6. {files[q]} \subseteq {c \in File : c.id = i}
      BY <3>1, <3>2
    <3>7. Youngest(s3Files, fileQueue, q, {c \in File : c.id = i})
      BY <3>5, <3>6, YoungestMore
    <3> QED BY <3>2, <3>7
  <2>14. Keeping(Path, s3Files, fileQueue \o <<r>>)
    <3>1. Keeping(Path, s3Files, fileQueue)
      BY <2>10 DEF FilesKeep
    <3>2. Youngest(s3Files, fileQueue, r.key, {c \in File : c.id \in I} \union {None})
      BY <2>6, <2>12
    <3>3. r.data = None => \A i \in I : \E q \in Path \ {r.key} :
                              Youngest(s3Files, fileQueue, q, {c \in File : c.id = i})
      BY <2>13
    <3> QED BY <2>5, <2>11, <3>1, <3>2, <3>3, KeepingSent
  <2>15. ASSUME NEW p \in Path, files[p] # None
         PROVE  Youngest(s3Files, fileQueue \o <<r>>, p, SameId(files[p].id))
    <3>1. PICK X : X = SameId(files[p].id)
      OBVIOUS
    <3>2. r.key = p => r.data \in X
      BY <2>8, <2>15, <3>1 DEF SameId
    <3>3. Youngest(s3Files, fileQueue, p, X)
      BY <2>10, <2>15, <3>1 DEF FilesSame
    <3>4. Youngest(s3Files, fileQueue \o <<r>>, p, X)
      BY <2>5, <3>2, <3>3, YoungestSent
    <3> QED BY <3>1, <3>4
  <2>16. ASSUME NEW p \in Path
         PROVE  Youngest(s3Files, fileQueue \o <<r>>, p, {c \in File : c.id \in I} \union {None})
    <3>1. PICK X : X = {c \in File : c.id \in I} \union {None}
      OBVIOUS
    <3>2. r.data \in X
      BY <2>6, <2>8, <2>9, <3>1 DEF Present
    <3>3. Youngest(s3Files, fileQueue, p, X)
      BY <2>12, <3>1
    <3>4. Youngest(s3Files, fileQueue \o <<r>>, p, X)
      BY <2>5, <3>2, <3>3, YoungestSent
    <3> QED BY <3>1, <3>4
  <2>17. fileQueue' = fileQueue \o <<r>>
    BY <2>1, <2>4
  <2>18. FilesKeep'
    BY <1>0, <2>14, <2>17 DEF FilesKeep
  <2>19. FilesSame' /\ FilesPresent'
    BY <1>0, <2>9, <2>15, <2>16, <2>17 DEF FilesSame, FilesPresent
  <2>20. DeletesLast(h)'
    BY <1>0, <2>5, <2>10 DEF DeletesLast
  <2> QED BY <1>0, <2>18, <2>19, <2>20
<1> QED BY <1>1, <1>2 DEF SendRequest

LEMMA LoopsStay ==
    ASSUME ~StoreFails, NEW h \in Handler, StayInv(h), PushLoops
    PROVE  /\ FilesKeep' /\ (open' => FilesSame' /\ FilesPresent' /\ DeletesLast(h)')
           /\ \A i \in Id : Stored(i) => Stored(i)'
<1>0. /\ UNCHANGED <<files, hooks, open>>
      /\ Present' = Present /\ FilesPushed(h)' = FilesPushed(h)
  BY DEF PushLoops, bundleVars, FileSync!LoopStep, FileSync!Deliver, FileSync!DeliverFails,
     SnapSync!LoopStep, SnapSync!Deliver, SnapSync!DeliverFails, Present, FilesPushed, Ahead
<1>1. CASE UNCHANGED fileVars
  BY <1>0, <1>1
     DEF fileVars, StayInv, FilesKeep, FilesSame, FilesPresent, DeletesLast, Stored
<1>2. CASE FileSync!LoopStep
  <2>1. /\ fileQueue # << >> /\ fileQueue' = Tail(fileQueue)
        /\ s3Files' = [s3Files EXCEPT ![Head(fileQueue).key] = Head(fileQueue).data]
        /\ UNCHANGED fileCall
    BY <1>2 DEF FileSync!LoopStep, FileSync!Deliver, FileSync!DeliverFails
  <2>2. PICK C : C = File \union {None}
    OBVIOUS
  <2>3. s3Files \in [Path -> C] /\ fileQueue \in Seq(Requests(Path, C))
    BY <2>2 DEF StayInv, FollowInv, TypeInv, FilesIn, WellFormed
  <2>4. PICK after, rest :
           /\ after = [s3Files EXCEPT ![Head(fileQueue).key] = Head(fileQueue).data]
           /\ rest = Tail(fileQueue)
    OBVIOUS
  <2>5. /\ Keeping(Path, after, rest)
        /\ \A i \in Id : Holds(Path, s3Files, << >>, 0, i) => Holds(Path, after, << >>, 0, i)
    <3>1. Keeping(Path, s3Files, fileQueue)
      BY DEF StayInv, FilesKeep
    <3>2. LET new == [s3Files EXCEPT ![Head(fileQueue).key] = Head(fileQueue).data]
          IN  /\ Keeping(Path, new, Tail(fileQueue))
              /\ \A i \in Id : Holds(Path, s3Files, << >>, 0, i) => Holds(Path, new, << >>, 0, i)
      BY <2>1, <2>3, <3>1, KeepingReceived
    <3> QED BY <2>4, <3>2
  <2>6. ASSUME NEW k \in Path, NEW X, Youngest(s3Files, fileQueue, k, X)
        PROVE  Youngest(after, rest, k, X)
    BY <2>1, <2>3, <2>4, <2>6, YoungestReceived
  <2>7. s3Files' = after /\ fileQueue' = rest
    BY <2>1, <2>4
  <2>8. FilesKeep'
    BY <2>5, <2>7 DEF FilesKeep
  <2>9. open' => FilesSame' /\ FilesPresent'
    BY <1>0, <2>6, <2>7 DEF StayInv, FilesSame, FilesPresent
  <2>10. open' => DeletesLast(h)'
    BY <1>0, <2>1 DEF StayInv, DeletesLast
  <2>11. ASSUME NEW i \in Id, Stored(i) PROVE Stored(i)'
    <3>1. 0..0 = {0} /\ (0 + 1)..0 = {}
      OBVIOUS
    <3>2. \A s : Holds(Path, s, << >>, 0, i) <=> \E k \in Path : s[k] # None /\ s[k].id = i
      BY <3>1 DEF Holds, Shows, About, Value
    <3>3. Holds(Path, after, << >>, 0, i)
      BY <2>5, <2>11, <3>2 DEF Stored
    <3> QED BY <2>7, <3>2, <3>3 DEF Stored
  <2> QED BY <2>8, <2>9, <2>10, <2>11
<1> QED BY <1>1, <1>2 DEF PushLoops

LEMMA NextStays ==
    ASSUME ~StoreFails, ~PullFails, NEW h, Handler = {h}, StayInv(h), [ServerNext]_serverVars
    PROVE  StayInv(h)' /\ \A i \in Id : Stored(i) => Stored(i)'
<1>1. FollowInv(h)'
  BY NextFollows DEF StayInv
<1> SUFFICES /\ FilesKeep' /\ (open' => FilesSame' /\ FilesPresent' /\ DeletesLast(h)')
             /\ UNCHANGED s3Files \/ \A i \in Id : Stored(i) => Stored(i)'
  BY <1>1 DEF StayInv, Stored
<1>2. CASE Restart
  <2>1. /\ hooks'[h] = << >> /\ fileQueue' = << >> /\ fileCall'[h] = << >>
        /\ UNCHANGED s3Files
    BY <1>2 DEF Restart
  <2>2. PICK disk, store : disk = files' /\ store = s3Files'
    OBVIOUS
  <2>3. \A p \in Path : store[p] = disk[p] /\ disk[p] \in File \union {None}
    <3>1. PICK C : C = File \union {None}
      OBVIOUS
    <3>2. C \subseteq File \union {None} /\ None \in C /\ FilesIn(C) /\ SnapsIn(C)
      BY <3>1 DEF StayInv, FollowInv, TypeInv
    <3>3. \A p \in Path : files'[p] = s3Files[p]
      BY <1>2, <3>2, RestartForm
    <3>4. Disk'
      BY <1>1 DEF FollowInv, TypeInv
    <3> QED BY <2>1, <2>2, <3>3, <3>4 DEF Disk
  <2>4. /\ Keeping(Path, store, << >>)
        /\ \A p \in Path : disk[p] # None => Youngest(store, << >>, p, SameId(disk[p].id))
        /\ \A p \in Path :
              Youngest(store, << >>, p,
                       {c \in File : c.id \in {disk[a].id : a \in {q \in Path : disk[q] # None}}}
                         \union {None})
    BY <2>3, StartStays
  <2>5. FilesKeep' /\ FilesSame' /\ FilesPresent'
    BY <2>1, <2>2, <2>4 DEF FilesKeep, FilesSame, FilesPresent, Present
  <2>6. DeletesLast(h)'
    <3>1. 1..Len(<< >>) = {}
      OBVIOUS
    <3> QED BY <2>1, <3>1 DEF DeletesLast, DeletesAtEnd
  <2> QED BY <2>1, <2>5, <2>6
<1>3. CASE Shutdown
  BY <1>3 DEF Shutdown, fileVars, StayInv, FilesKeep
<1>4. CASE UNCHANGED serverVars
  BY <1>4 DEF serverVars, StayInv, FilesKeep, FilesSame, FilesPresent, DeletesLast, Present,
     FilesPushed, Ahead
<1>5. CASE Write(h)
  <2>1. UNCHANGED <<s3Files, fileQueue, open>>
    BY <1>5 DEF Write, fileVars
  <2>2. FilesKeep'
    BY <2>1 DEF StayInv, FilesKeep
  <2>3. open => FilesSame' /\ FilesPresent' /\ DeletesLast(h)'
    BY <1>5, WriteStays
  <2> QED BY <2>1, <2>2, <2>3
<1>6. CASE CallHook(h)
  <2>1. UNCHANGED <<open, s3Files, fileQueue>>
    BY <1>6 DEF CallHook, FileSync!PushFile, FileSync!DeleteFile, SnapSync!PushFile,
       SnapSync!DeleteFile, fileVars
  <2>2. FilesKeep'
    BY <2>1 DEF StayInv, FilesKeep
  <2> QED BY <1>6, <2>1, <2>2, HookStays
<1>7. CASE SendRequest(h)
  BY <1>7, SendStays
<1>8. CASE HandlerPanics(h)
  <2>1. ~open /\ ~open' /\ UNCHANGED <<s3Files, fileQueue>>
    BY <1>8 DEF HandlerPanics, FileSync!SendPanics, SnapSync!SendPanics, fileVars
  <2> QED BY <2>1 DEF StayInv, FilesKeep
<1>9. CASE PushLoops
  BY <1>9, LoopsStay
<1> QED BY <1>2, <1>3, <1>4, <1>5, <1>6, <1>7, <1>8, <1>9 DEF ServerNext

LEMMA InitStays == ASSUME NEW h \in Handler, ServerInit PROVE StayInv(h)
<1>1. FollowInv(h)
  BY InitFollows
<1>2. /\ hooks[h] = << >> /\ fileQueue = << >> /\ fileCall[h] = << >> /\ s3Files = files
  BY DEF ServerInit
<1>3. \A p \in Path : files[p] \in File \union {None}
  BY <1>1 DEF FollowInv, TypeInv, Disk
<1>4. /\ Keeping(Path, s3Files, << >>)
      /\ \A p \in Path : files[p] # None => Youngest(s3Files, << >>, p, SameId(files[p].id))
      /\ \A p \in Path :
            Youngest(s3Files, << >>, p,
                     {c \in File : c.id \in {files[a].id : a \in {q \in Path : files[q] # None}}}
                       \union {None})
  BY <1>2, <1>3, StartStays
<1>5. FilesKeep /\ FilesSame /\ FilesPresent
  BY <1>2, <1>4 DEF FilesKeep, FilesSame, FilesPresent, Present
<1>6. DeletesLast(h)
  <2>1. 1..Len(<< >>) = {}
    OBVIOUS
  <2> QED BY <1>2, <2>1 DEF DeletesLast, DeletesAtEnd
<1> QED BY <1>1, <1>5, <1>6 DEF StayInv

\* A concept the object store holds stays in it, wherever a crash, a shutdown
\* or a restart falls in the uploads of a batch of moves: the hooks upload all
\* that a move writes before they delete what it leaves, and the channel keeps
\* that order.  (When an upload fails this is not so: server_store_error.)
THEOREM ConceptsStayStored ==
    ASSUME ~StoreFails, ~PullFails, NEW h, Handler = {h}
    PROVE  ServerSpec => StoredConceptsStay
<1> DEFINE Stay == \A i \in Id : Stored(i) => Stored(i)'
<1>1. ServerInit => StayInv(h)
  BY InitStays
<1>2. StayInv(h) /\ [ServerNext]_serverVars => StayInv(h)' /\ [Stay]_serverVars
  BY NextStays
<1>3. StoredConceptsStay <=> [][Stay]_serverVars
  BY DEF StoredConceptsStay
<1> HIDE DEF Stay
<1> QED BY <1>1, <1>2, <1>3, PTL DEF ServerSpec
=============================================================================
