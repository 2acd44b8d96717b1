---------------------------- MODULE BundleProofs ----------------------------
(***************************************************************************)
(* What holds of the bundle for every set of paths, every initial bundle   *)
(* and every bound on the versions, with and without disk faults: it keeps *)
(* every version of every concept, and while file operations succeed it    *)
(* implements the catalog.                                                 *)
(***************************************************************************)
EXTENDS Bundle, Counting, FiniteSetTheorems, TLAPS

-----------------------------------------------------------------------------
(* Lookups return what they promise.                                       *)

\* Any concept holding an alias: AliasHolder is one of the holders.
LEMMA AliasHolderHolds ==
    ASSUME NEW a, Holders(a) # {}
    PROVE  AliasHolder(a) \in Holders(a)
<1>1. Holders(a) \in SUBSET Nat /\ Holders(a) # {}
  BY PathAssumption DEF Holders
<1>2. PICK q \in Holders(a) : \A r \in Holders(a) : q <= r
  BY <1>1, SmallestOf
<1> QED
  BY <1>2 DEF AliasHolder

\* Every link of a file at a path leads to a target.
LEMMA LeadType ==
    ASSUME NEW p \in Path, NEW t \in Target
    PROVE  Lead(p, t) \in Target
  BY TargetAssumption DEF Lead, Target

\* Normalised links are targets.
LEMMA NormalizedType ==
    ASSUME NEW p \in Path, NEW links \in SUBSET Target
    PROVE  Normalized(p, links) \in SUBSET Target
<1> DEFINE New(t) == LET r == Lead(p, t)
                     IN  IF ValidTarget(p, r) THEN r
                         ELSE IF Holders(r) # {} THEN AliasHolder(r) ELSE t
<1>1. ASSUME NEW t \in links PROVE New(t) \in Target
  <2>1. CASE ValidTarget(p, Lead(p, t))
    BY <2>1, LeadType
  <2>2. CASE ~ValidTarget(p, Lead(p, t)) /\ Holders(Lead(p, t)) # {}
    <3>1. AliasHolder(Lead(p, t)) \in Path
      BY <2>2, AliasHolderHolds DEF Holders
    <3> QED BY <2>2, <3>1 DEF Target
  <2>3. CASE ~ValidTarget(p, Lead(p, t)) /\ Holders(Lead(p, t)) = {}
    BY <2>3
  <2> QED BY <2>1, <2>2, <2>3
<1>2. Normalized(p, links) = {New(t) : t \in links}
  BY DEF Normalized
<1> QED BY <1>1, <1>2

\* A concept's version is above all its snapshots, and the one before it, if
\* there is one, is a snapshot.
LEMMA ConceptVersionIsNext ==
    ASSUME NEW p \in Path
    PROVE  /\ ConceptVersion(p) \in Nat
           /\ ConceptVersion(p) >= 1
           /\ \A v \in Versions(p) : v < ConceptVersion(p)
           /\ ConceptVersion(p) > 1 => ConceptVersion(p) - 1 \in Versions(p)
<1>1. Versions(p) \subseteq 1..MaxVersion
  BY DEF Versions, Version
<1>2. CASE Versions(p) = {}
  BY <1>2 DEF ConceptVersion
<1>3. CASE Versions(p) # {}
  <2> DEFINE Gaps == {MaxVersion - v : v \in Versions(p)}
  <2>1. Gaps \in SUBSET Nat /\ Gaps # {}
    BY <1>1, <1>3, VersionAssumption
  <2>2. PICK g \in Gaps : \A h \in Gaps : g <= h
    BY <2>1, SmallestOf
  <2>3. PICK top \in Versions(p) : g = MaxVersion - top
    BY <2>2
  <2>4. ASSUME NEW w \in Versions(p) PROVE w <= top
    <3>1. g <= MaxVersion - w
      BY <2>2
    <3> QED BY <3>1, <2>3, <1>1, VersionAssumption
  <2> DEFINE latest == CHOOSE v \in Versions(p) : \A w \in Versions(p) : w <= v
  <2>5. latest \in Versions(p) /\ \A w \in Versions(p) : w <= latest
    BY <2>4
  <2>6. ConceptVersion(p) = 1 + latest
    BY <1>3 DEF ConceptVersion
  <2> HIDE DEF latest
  <2> QED BY <2>5, <2>6, <1>1, VersionAssumption
<1> QED BY <1>2, <1>3

\* A torn write leaves a file of the concept that was written.
LEMMA TornType ==
    ASSUME NEW c \in File, NEW d \in Torn(c)
    PROVE  d \in File /\ d.id = c.id
  BY TargetAssumption DEF Torn, File

LEMMA FreshType ==
    ASSUME NEW i \in Id, NEW p \in Path, NEW links \in SUBSET Target
    PROVE  Fresh(i, p, links) \in File /\ Fresh(i, p, links).id = i
  BY NormalizedType DEF Fresh, File

LEMMA EditedType ==
    ASSUME TypeOK, NEW p \in Path, Exists(p),
           NEW links \in SUBSET Target, NEW aliases \in SUBSET Path
    PROVE  Edited(p, links, aliases) \in File /\ Edited(p, links, aliases).id = files[p].id
<1>1. files[p] \in File
  BY DEF TypeOK, Exists
<1> QED BY <1>1, NormalizedType DEF Edited, File

\* Aliases a caller may submit are sets of paths.
LEMMA AuthoredType ==
    ASSUME TypeOK, NEW p \in Path, NEW aliases \in Authored(p)
    PROVE  aliases \in SUBSET Path
<1>1. CASE aliases \in AliasSets
  BY <1>1, AuthorAssumption
<1>2. CASE Exists(p) /\ aliases = files[p].aliases
  <2>1. files[p] \in File
    BY <1>2 DEF TypeOK, Exists
  <2> QED BY <2>1, <1>2 DEF File
<1> QED BY <1>1, <1>2 DEF Authored

LEMMA MakeDirsType ==
    ASSUME TypeOK, NEW dirs \in SUBSET Path
    PROVE  MakeDirs(dirs) \subseteq Path
  BY AuthorAssumption DEF MakeDirs, TypeOK

\* What a batch is: sources and targets are paths, disjoint, and every
\* target has exactly one origin.
LEMMA BatchShape ==
    ASSUME NEW m \in Batches
    PROVE  /\ Sources(m) \subseteq Path
           /\ \A p \in Sources(m) : m[p] \in Path /\ m[p] \notin Sources(m)
           /\ \A p, q \in Sources(m) : m[p] = m[q] => p = q
           /\ Targets(m) = {m[p] : p \in Sources(m)}
           /\ \A q \in Targets(m) : Origin(m, q) \in Sources(m) /\ m[Origin(m, q)] = q
<1>1. PICK S \in SUBSET Path : m \in [S -> Path]
  BY DEF Batches
<1>2. \A q \in Targets(m) : Origin(m, q) \in Sources(m) /\ m[Origin(m, q)] = q
  BY DEF Targets, Origin, Sources
<1> QED BY <1>1, <1>2 DEF Batches, Sources, Targets

LEMMA RetargetType ==
    ASSUME NEW m \in Batches, NEW p \in Path, NEW links \in SUBSET Target
    PROVE  Retarget(m, p, links) \in SUBSET Target
  BY BatchShape DEF Retarget, Target

LEMMA PinnedType ==
    ASSUME NEW m \in Batches, NEW p \in Path, NEW links \in SUBSET Target
    PROVE  Pinned(m, p, links) \in SUBSET Target
  BY BatchShape DEF Pinned, To, ValidTarget, Target

LEMMA MovedFileType ==
    ASSUME TypeOK, NEW m \in Batches, NEW p \in Sources(m), Exists(p)
    PROVE  MovedFile(m, p) \in File /\ MovedFile(m, p).id = files[p].id
<1>1. p \in Path /\ m[p] \in Path
  BY BatchShape
<1>2. files[p] \in File
  BY <1>1 DEF TypeOK, Exists
<1>3. Pinned(m, p, files[p].links) \in SUBSET Target
  BY <1>1, <1>2, PinnedType DEF File
<1> QED BY <1>1, <1>2, <1>3 DEF MovedFile, File

LEMMA RelinkedFileType ==
    ASSUME TypeOK, NEW m \in Batches, NEW q \in Path, Exists(q)
    PROVE  RelinkedFile(m, q) \in File /\ RelinkedFile(m, q).id = files[q].id
<1>1. files[q] \in File
  BY DEF TypeOK, Exists
<1>2. Retarget(m, q, files[q].links) \in SUBSET Target
  BY <1>1, RetargetType DEF File
<1> QED BY <1>1, <1>2 DEF RelinkedFile, File

-----------------------------------------------------------------------------
(* Type correctness.                                                       *)

THEOREM InitType == Init => TypeOK
<1> SUFFICES ASSUME Init PROVE TypeOK
  OBVIOUS
<1>1. files \in [Path -> File \union {None}]
  BY SeedAssumption DEF Init
<1>2. snaps \in [Path -> [Version -> File \union {None}]]
  BY DEF Init, NoHistory
<1>3. verDirs \subseteq Path
  BY DEF Init
<1>4. \A p, q \in Path : Exists(p) /\ Exists(q) /\ files[p].id = files[q].id => p = q
  BY SeedAssumption DEF Init, Exists
<1> QED BY <1>1, <1>2, <1>3, <1>4 DEF TypeOK

\* A new file with an unused identity.
LEMMA CreateKeepsType ==
    ASSUME TypeOK, NEW i \in Id, NEW p \in Path, NEW links \in SUBSET Target,
           CanCreate(i, p, links), NEW c \in File, c.id = i,
           files' = [files EXCEPT ![p] = c], UNCHANGED <<snaps, verDirs>>
    PROVE  TypeOK'
<1>1. files' \in [Path -> File \union {None}]
  BY DEF TypeOK
<1>2. \A q \in Path : Exists(q) => files[q].id # i
  BY DEF CanCreate, UsedIds
<1>3. \A q, r \in Path : files'[q] # None /\ files'[r] # None
                           /\ files'[q].id = files'[r].id => q = r
  BY <1>2 DEF TypeOK, Exists
<1> QED BY <1>1, <1>3 DEF TypeOK, Exists

\* A file replaced by one of the same concept, and one snapshot written.
LEMMA WriteKeepsType ==
    ASSUME TypeOK, NEW p \in Path, Exists(p), ConceptVersion(p) <= MaxVersion,
           NEW f \in File, f.id = files[p].id, NEW c \in File \union {None},
           files' = [files EXCEPT ![p] = f],
           snaps' = [snaps EXCEPT ![p][ConceptVersion(p)] = c],
           verDirs' = MakeDirs({p})
    PROVE  TypeOK'
<1>1. files' \in [Path -> File \union {None}]
  BY DEF TypeOK
<1>2. snaps' \in [Path -> [Version -> File \union {None}]]
  BY DEF TypeOK
<1>3. verDirs' \subseteq Path
  BY MakeDirsType
<1>4. \A q, r \in Path : files'[q] # None /\ files'[r] # None
                           /\ files'[q].id = files'[r].id => q = r
  BY NoneAssumption DEF TypeOK, Exists
<1> QED BY <1>1, <1>2, <1>3, <1>4 DEF TypeOK, Exists

\* The file at q after a batch is the concept that was at its origin.
LEMMA FilesAfterMove ==
    ASSUME TypeOK, NEW m \in Batches, NEW expected, CanMove(m, expected), NEW q \in Path
    PROVE  /\ FilesAfter(m)[q] \in File \union {None}
           /\ q \in Targets(m) =>
                 /\ Origin(m, q) \in Path /\ Exists(Origin(m, q))
                 /\ FilesAfter(m)[q] # None
                 /\ FilesAfter(m)[q].id = files[Origin(m, q)].id
           /\ q \in Sources(m) => q \notin Targets(m) /\ FilesAfter(m)[q] = None
           /\ q \notin Targets(m) \union Sources(m) =>
                 /\ FilesAfter(m)[q] = None <=> files[q] = None
                 /\ Exists(q) => FilesAfter(m)[q].id = files[q].id
<1>1. \A p \in Sources(m) : p \in Path /\ Exists(p)
  BY BatchShape DEF CanMove, Parsed
<1>2. CASE q \in Targets(m)
  <2>1. Origin(m, q) \in Sources(m) /\ q \notin Sources(m)
    BY <1>2, BatchShape
  <2>2. FilesAfter(m)[q] = MovedFile(m, Origin(m, q))
    BY <1>2 DEF FilesAfter
  <2> QED BY <1>1, <1>2, <2>1, <2>2, MovedFileType, NoneAssumption
<1>3. CASE q \in Sources(m)
  <2>1. q \notin Targets(m)
    BY <1>3, BatchShape
  <2> QED BY <1>3, <2>1 DEF FilesAfter
<1>4. CASE q \notin Targets(m) \union Sources(m)
  <2>1. CASE q \in Relinked(m)
    <3>1. Exists(q)
      BY <2>1 DEF Relinked, Parsed
    <3>2. FilesAfter(m)[q] = RelinkedFile(m, q)
      BY <1>4, <2>1 DEF FilesAfter
    <3> QED BY <1>4, <3>1, <3>2, RelinkedFileType, NoneAssumption DEF Exists
  <2>2. CASE q \notin Relinked(m)
    <3>1. FilesAfter(m)[q] = files[q]
      BY <1>4, <2>2 DEF FilesAfter
    <3> QED BY <1>4, <3>1 DEF TypeOK
  <2> QED BY <2>1, <2>2
<1> QED BY <1>2, <1>3, <1>4

LEMMA SnapshottedType ==
    ASSUME TypeOK, NEW p \in Path, Exists(p)
    PROVE  Snapshotted(p) \in [Version -> File \union {None}]
  BY DEF TypeOK, Snapshotted, Exists

LEMMA MoveKeepsType ==
    ASSUME TypeOK, NEW m \in Batches, NEW expected, MoveBatch(m, expected)
    PROVE  TypeOK'
<1>1. CanMove(m, expected) /\ files' = FilesAfter(m)
  BY DEF MoveBatch
<1>2. files' \in [Path -> File \union {None}]
  <2>1. FilesAfter(m) = [q \in Path |-> FilesAfter(m)[q]]
    BY DEF FilesAfter
  <2> QED BY <1>1, <2>1, FilesAfterMove
<1>3. snaps' \in [Path -> [Version -> File \union {None}]]
  <2>1. ASSUME NEW q \in Path
        PROVE  SnapsAfter(m)[q] \in [Version -> File \union {None}]
    <3>1. CASE q \in Targets(m)
      <4>1. SnapsAfter(m)[q] = Snapshotted(Origin(m, q))
        BY <3>1 DEF SnapsAfter
      <4> QED BY <1>1, <3>1, <4>1, FilesAfterMove, SnapshottedType
    <3>2. CASE q \notin Targets(m) /\ q \in Sources(m)
      BY <3>2 DEF SnapsAfter, NoHistory
    <3>3. CASE q \notin Targets(m) /\ q \notin Sources(m) /\ q \in Relinked(m)
      <4>1. SnapsAfter(m)[q] = Snapshotted(q) /\ Exists(q)
        BY <3>3 DEF SnapsAfter, Relinked, Parsed
      <4> QED BY <4>1, SnapshottedType
    <3>4. CASE q \notin Targets(m) /\ q \notin Sources(m) /\ q \notin Relinked(m)
      BY <3>4 DEF SnapsAfter, TypeOK
    <3> QED BY <3>1, <3>2, <3>3, <3>4
  <2>2. snaps' = [q \in Path |-> SnapsAfter(m)[q]]
    BY DEF MoveBatch, SnapsAfter
  <2> QED BY <2>1, <2>2
<1>4. verDirs' \subseteq Path
  <2>1. Targets(m) \union Relinked(m) \in SUBSET Path
    BY BatchShape DEF Relinked
  <2>2. MakeDirs(Targets(m) \union Relinked(m)) \subseteq Path
    BY <2>1, MakeDirsType
  <2>3. verDirs' \subseteq MakeDirs(Targets(m) \union Relinked(m))
    BY DEF MoveBatch, DirsAfter
  <2> QED BY <2>2, <2>3
<1>5. \A q, r \in Path : files'[q] # None /\ files'[r] # None
                           /\ files'[q].id = files'[r].id => q = r
  <2> SUFFICES ASSUME NEW q \in Path, NEW r \in Path, files'[q] # None,
                      files'[r] # None, files'[q].id = files'[r].id
               PROVE  q = r
    OBVIOUS
  <2> DEFINE From(s) == IF s \in Targets(m) THEN Origin(m, s) ELSE s
  <2>1. ASSUME NEW s \in Path, files'[s] # None
        PROVE  /\ From(s) \in Path /\ Exists(From(s)) /\ files'[s].id = files[From(s)].id
               /\ From(s) \in Sources(m) <=> s \in Targets(m)
               /\ s \in Targets(m) => m[From(s)] = s
    <3>1. CASE s \in Targets(m)
      BY <1>1, <3>1, FilesAfterMove, BatchShape
    <3>2. CASE s \notin Targets(m)
      BY <1>1, <2>1, <3>2, FilesAfterMove DEF Exists
    <3> QED BY <3>1, <3>2
  <2> HIDE DEF From
  <2>2. From(q) = From(r)
    BY <2>1 DEF TypeOK
  <2> QED BY <2>1, <2>2 DEF From
<1> QED BY <1>2, <1>3, <1>4, <1>5 DEF TypeOK, Exists

-----------------------------------------------------------------------------
(* Histories.                                                              *)

\* Snapshot history h is numbered without a gap and belongs to file f.
Sound(h, f) ==
    \A v \in Version : h[v] # None =>
        /\ \A w \in 1..v : h[w] # None
        /\ f # None
        /\ h[v].id = f.id

HistorySound == \A p \in Path : Sound(snaps[p], files[p])

LEMMA SoundMeans == HistorySound <=> HistoryContiguous /\ HistoryBelongsToResident
  BY VersionAssumption
     DEF HistorySound, Sound, HistoryContiguous, HistoryBelongsToResident,
         Versions, Version, Exists

\* Writing the next snapshot keeps it sound, whatever was written.
LEMMA SoundWithNext ==
    ASSUME TypeOK, HistorySound, NEW p \in Path, Exists(p), ConceptVersion(p) <= MaxVersion,
           NEW f, f # None, f.id = files[p].id,
           NEW c, c # None => c.id = files[p].id
    PROVE  Sound([snaps[p] EXCEPT ![ConceptVersion(p)] = c], f)
<1> DEFINE n == ConceptVersion(p)
           h == [snaps[p] EXCEPT ![n] = c]
<1>1. n \in Version /\ snaps[p] \in [Version -> File \union {None}]
  BY ConceptVersionIsNext, VersionAssumption DEF TypeOK, Version
<1>2. \A v \in Version : snaps[p][v] # None => v < n
  BY ConceptVersionIsNext DEF Versions
<1>3. \A w \in 1..(n - 1) : snaps[p][w] # None
  <2>1. CASE n = 1
    BY <2>1
  <2>2. CASE n > 1
    <3>1. n - 1 \in Version /\ snaps[p][n - 1] # None
      BY <2>2, ConceptVersionIsNext DEF Versions
    <3> QED BY <3>1 DEF HistorySound, Sound
  <2> QED BY <1>1, <2>1, <2>2, ConceptVersionIsNext
<1>4. ASSUME NEW v \in Version, h[v] # None
      PROVE  (\A w \in 1..v : h[w] # None) /\ h[v].id = f.id
  <2> HIDE DEF n
  <2>1. CASE v = n
    BY <1>1, <1>3, <1>4, <2>1, VersionAssumption DEF Version
  <2>2. CASE v # n
    <3>1. snaps[p][v] # None /\ v < n
      BY <1>1, <1>2, <1>4, <2>2
    <3>2. (\A w \in 1..v : snaps[p][w] # None) /\ snaps[p][v].id = files[p].id
      BY <3>1 DEF HistorySound, Sound
    <3> QED BY <1>1, <2>2, <3>1, <3>2, VersionAssumption DEF Version
  <2> QED BY <2>1, <2>2
<1> QED BY <1>4 DEF Sound

LEMMA SoundWhenEmpty == ASSUME NEW f PROVE Sound(NoHistory, f)
  BY DEF Sound, NoHistory

LEMMA CreateKeepsHistory ==
    ASSUME HistorySound, NEW p \in Path, ~Exists(p), NEW c, c # None,
           files' = [files EXCEPT ![p] = c], UNCHANGED snaps,
           DOMAIN files = Path
    PROVE  HistorySound'
<1>1. ASSUME NEW q \in Path PROVE Sound(snaps[q], files'[q])
  <2>1. CASE q = p
    BY <2>1 DEF HistorySound, Sound, Exists
  <2>2. CASE q # p
    BY <2>2 DEF HistorySound
  <2> QED BY <2>1, <2>2
<1> QED BY <1>1 DEF HistorySound, Sound

LEMMA WriteKeepsHistory ==
    ASSUME TypeOK, HistorySound, NEW p \in Path, Exists(p), ConceptVersion(p) <= MaxVersion,
           NEW f, f # None, f.id = files[p].id,
           NEW c, c # None => c.id = files[p].id,
           files' = [files EXCEPT ![p] = f],
           snaps' = [snaps EXCEPT ![p][ConceptVersion(p)] = c]
    PROVE  HistorySound'
<1>1. ASSUME NEW q \in Path PROVE Sound(snaps'[q], files'[q])
  <2>1. CASE q = p
    <3>1. snaps'[q] = [snaps[p] EXCEPT ![ConceptVersion(p)] = c] /\ files'[q] = f
      BY <2>1 DEF TypeOK
    <3> QED BY <3>1, SoundWithNext
  <2>2. CASE q # p
    <3>1. snaps'[q] = snaps[q] /\ files'[q] = files[q]
      BY <2>2 DEF TypeOK
    <3> QED BY <3>1 DEF HistorySound
  <2> QED BY <2>1, <2>2
<1> QED BY <1>1 DEF HistorySound, Sound

LEMMA MoveKeepsHistory ==
    ASSUME TypeOK, HistorySound, NEW m \in Batches, NEW expected, MoveBatch(m, expected)
    PROVE  HistorySound'
<1>1. CanMove(m, expected)
  BY DEF MoveBatch
<1>2. \A p \in Sources(m) \union Relinked(m) : ConceptVersion(p) <= MaxVersion
  BY <1>1 DEF CanMove
<1>3. ASSUME NEW q \in Path PROVE Sound(SnapsAfter(m)[q], FilesAfter(m)[q])
  <2>1. CASE q \in Targets(m)
    <3> DEFINE p == Origin(m, q)
    <3>1. /\ p \in Sources(m) /\ p \in Path /\ Exists(p)
          /\ FilesAfter(m)[q] # None /\ FilesAfter(m)[q].id = files[p].id
      BY <1>1, <2>1, FilesAfterMove, BatchShape
    <3>2. SnapsAfter(m)[q] = Snapshotted(p)
      BY <2>1 DEF SnapsAfter
    <3> HIDE DEF p
    <3> QED BY <1>2, <3>1, <3>2, SoundWithNext DEF Snapshotted
  <2>2. CASE q \notin Targets(m) /\ q \in Sources(m)
    <3>1. SnapsAfter(m)[q] = NoHistory
      BY <2>2 DEF SnapsAfter
    <3> QED BY <3>1, SoundWhenEmpty
  <2>3. CASE q \notin Targets(m) /\ q \notin Sources(m) /\ q \in Relinked(m)
    <3>1. SnapsAfter(m)[q] = Snapshotted(q) /\ Exists(q)
      BY <2>3 DEF SnapsAfter, Relinked, Parsed
    <3>2. FilesAfter(m)[q] # None /\ FilesAfter(m)[q].id = files[q].id
      BY <1>1, <2>3, <3>1, FilesAfterMove DEF Exists
    <3> QED BY <1>2, <2>3, <3>1, <3>2, SoundWithNext DEF Snapshotted
  <2>4. CASE q \notin Targets(m) /\ q \notin Sources(m) /\ q \notin Relinked(m)
    <3>1. SnapsAfter(m)[q] = snaps[q] /\ FilesAfter(m)[q] = files[q]
      BY <2>4 DEF SnapsAfter, FilesAfter
    <3> QED BY <3>1 DEF HistorySound
  <2> QED BY <2>1, <2>2, <2>3, <2>4
<1> QED BY <1>3 DEF MoveBatch, HistorySound, Sound

-----------------------------------------------------------------------------
(* The inductive invariant: an empty path has no snapshots (part of        *)
(* HistoryBelongsToResident), so a create starts a new history and a move  *)
(* carries one to a place that has none.                                   *)

HistoryInv == TypeOK /\ HistorySound

LEMMA InitHistory == Init => HistoryInv
<1> SUFFICES ASSUME Init PROVE HistorySound
  BY InitType DEF HistoryInv
<1> QED BY SoundWhenEmpty DEF Init, HistorySound

LEMMA NextHistory == HistoryInv /\ [Next]_vars => HistoryInv'
<1> SUFFICES ASSUME TypeOK, HistorySound, [Next]_vars PROVE HistoryInv'
  BY DEF HistoryInv
<1>1. ASSUME NEW i \in Id, NEW p \in Path, NEW links \in LinkSets,
             Create(i, p, links) \/ CreateFails(i, p, links)
      PROVE  HistoryInv'
  <2>1. links \in SUBSET Target /\ CanCreate(i, p, links)
    BY <1>1, AuthorAssumption DEF Create, CreateFails
  <2>2. PICK c \in File : c.id = i /\ files' = [files EXCEPT ![p] = c]
    <3>1. CASE Create(i, p, links)
      BY <2>1, <3>1, FreshType DEF Create
    <3>2. CASE CreateFails(i, p, links)
      BY <2>1, <3>2, FreshType, TornType DEF CreateFails
    <3> QED BY <1>1, <3>1, <3>2
  <2>3. UNCHANGED <<snaps, verDirs>>
    BY <1>1 DEF Create, CreateFails
  <2>4. TypeOK'
    BY <2>1, <2>2, <2>3, CreateKeepsType
  <2>5. ~Exists(p) /\ c # None /\ DOMAIN files = Path
    BY <2>1, NoneAssumption DEF CanCreate, TypeOK
  <2>6. HistorySound'
    BY <2>2, <2>3, <2>5, CreateKeepsHistory
  <2> QED BY <2>4, <2>6 DEF HistoryInv
<1>2. ASSUME NEW p \in Path, NEW links \in LinkSets, NEW expected \in 0..MaxVersion,
             \/ SnapshotFails(p, links, expected)
             \/ \E aliases \in Authored(p) :
                   \/ Update(p, links, aliases, expected)
                   \/ UpdateFails(p, links, aliases, expected)
      PROVE  HistoryInv'
  <2>1. links \in SUBSET Target /\ CanUpdate(p, links, expected)
    BY <1>2, AuthorAssumption DEF SnapshotFails, Update, UpdateFails
  <2>2. Exists(p) /\ ConceptVersion(p) <= MaxVersion /\ files[p] \in File
    BY <2>1 DEF CanUpdate, TypeOK, Exists
  <2>3. \E f \in File, c \in File \union {None} :
            /\ f.id = files[p].id
            /\ c # None => c.id = files[p].id
            /\ files' = [files EXCEPT ![p] = f]
            /\ snaps' = [snaps EXCEPT ![p][ConceptVersion(p)] = c]
            /\ verDirs' = MakeDirs({p})
    <3>0. snaps[p] \in [Version -> File \union {None}] /\ DOMAIN snaps = Path
      BY DEF TypeOK
    <3>1. CASE SnapshotFails(p, links, expected)
      <4>1. PICK c \in {None} \union Torn(files[p]) :
                snaps' = [snaps EXCEPT ![p][ConceptVersion(p)] = c]
        BY <3>1 DEF SnapshotFails
      <4>2. c \in File \union {None} /\ (c # None => c.id = files[p].id)
        BY <2>2, <4>1, TornType
      <4>3. files' = [files EXCEPT ![p] = files[p]]
        BY <3>1 DEF SnapshotFails, TypeOK
      <4> QED BY <2>2, <3>1, <4>1, <4>2, <4>3 DEF SnapshotFails
    <3>2. CASE \E aliases \in Authored(p) : Update(p, links, aliases, expected)
      <4>1. PICK aliases \in Authored(p) : Update(p, links, aliases, expected)
        BY <3>2
      <4>2. Edited(p, links, aliases) \in File
            /\ Edited(p, links, aliases).id = files[p].id
        BY <2>1, <2>2, AuthoredType, EditedType
      <4>3. snaps' = [snaps EXCEPT ![p][ConceptVersion(p)] = files[p]]
        BY <3>0, <4>1 DEF Update, Snapshotted
      <4> QED BY <2>2, <4>1, <4>2, <4>3 DEF Update
    <3>3. CASE \E aliases \in Authored(p) : UpdateFails(p, links, aliases, expected)
      <4>1. PICK aliases \in Authored(p) : UpdateFails(p, links, aliases, expected)
        BY <3>3
      <4>2. Edited(p, links, aliases) \in File
            /\ Edited(p, links, aliases).id = files[p].id
        BY <2>1, <2>2, AuthoredType, EditedType
      <4>3. PICK f \in {files[p]} \union Torn(Edited(p, links, aliases)) :
                files' = [files EXCEPT ![p] = f]
        BY <4>1 DEF UpdateFails
      <4>4. f \in File /\ f.id = files[p].id
        BY <2>2, <4>2, <4>3, TornType
      <4>5. snaps' = [snaps EXCEPT ![p][ConceptVersion(p)] = files[p]]
        BY <3>0, <4>1 DEF UpdateFails, Snapshotted
      <4> QED BY <2>2, <4>1, <4>3, <4>4, <4>5 DEF UpdateFails
    <3> QED BY <1>2, <3>1, <3>2, <3>3
  <2>4. TypeOK'
    BY <2>2, <2>3, WriteKeepsType
  <2>5. HistorySound'
    BY <2>2, <2>3, NoneAssumption, WriteKeepsHistory
  <2> QED BY <2>4, <2>5 DEF HistoryInv
<1>3. ASSUME NEW m \in Batches, NEW expected, MoveBatch(m, expected)
      PROVE  HistoryInv'
  BY <1>3, MoveKeepsType, MoveKeepsHistory DEF HistoryInv
<1>4. ASSUME NEW m \in Batches, NEW expected, MoveFails(m, expected)
      PROVE  HistoryInv'
  <2>1. UNCHANGED <<files, snaps>>
    BY <1>4 DEF MoveFails
  <2>2. PICK made \in SUBSET (Targets(m) \union Relinked(m)) : verDirs' = MakeDirs(made)
    BY <1>4 DEF MoveFails
  <2>3. made \in SUBSET Path
    BY <2>2, BatchShape DEF Relinked
  <2>4. TypeOK'
    BY <2>1, <2>2, <2>3, MakeDirsType DEF TypeOK, Exists
  <2>5. HistorySound'
    BY <2>1 DEF HistorySound, Sound
  <2> QED BY <2>4, <2>5 DEF HistoryInv
<1>5. CASE UNCHANGED vars
  BY <1>5 DEF vars, HistoryInv, HistorySound, Sound, TypeOK, Exists
<1> QED BY <1>1, <1>2, <1>3, <1>4, <1>5 DEF Next, AnyCreate, AnyUpdate, AnyMove, AnyFailure

THEOREM HistoryInvariant == Spec => []HistoryInv
  BY InitHistory, NextHistory, PTL DEF Spec

\* Every reachable bundle is well-typed, and no two paths hold one concept.
THEOREM TypeCorrect == Spec => []TypeOK
<1>1. HistoryInv => TypeOK
  BY DEF HistoryInv
<1> QED BY <1>1, HistoryInvariant, PTL

\* Snapshot numbers have no gaps: version numbers count versions.
THEOREM HistoriesHaveNoGaps == Spec => []HistoryContiguous
<1>1. HistoryInv => HistoryContiguous
  BY SoundMeans DEF HistoryInv
<1> QED BY <1>1, HistoryInvariant, PTL

\* Snapshots are always those of the concept living at their path.
THEOREM HistoriesBelong == Spec => []HistoryBelongsToResident
<1>1. HistoryInv => HistoryBelongsToResident
  BY SoundMeans DEF HistoryInv
<1> QED BY <1>1, HistoryInvariant, PTL

-----------------------------------------------------------------------------
(* Snapshot directories.  While file operations succeed, a directory is    *)
(* there for the snapshots in it or for those of a directory below it; an  *)
(* operation that fails may leave one behind.                              *)

HasHistory(p) == snaps[p] # NoHistory

DirsUsed ==
    \A d \in verDirs : HasHistory(d) \/ \E e \in verDirs : d \in Above[e] /\ HasHistory(e)

LEMMA SnapshottedHas ==
    ASSUME TypeOK, NEW p \in Path, Exists(p), ConceptVersion(p) <= MaxVersion
    PROVE  Snapshotted(p) # NoHistory
<1>1. ConceptVersion(p) \in Version /\ snaps[p] \in [Version -> File \union {None}]
  BY ConceptVersionIsNext, VersionAssumption DEF TypeOK, Version
<1>2. Snapshotted(p)[ConceptVersion(p)] = files[p]
  BY <1>1 DEF Snapshotted
<1> QED BY <1>1, <1>2 DEF NoHistory, Exists

LEMMA UpdateKeepsUsed ==
    ASSUME TypeOK, DirsUsed, NEW p \in Path, NEW links, NEW aliases, NEW expected,
           Update(p, links, aliases, expected)
    PROVE  DirsUsed'
<1>1. Exists(p) /\ ConceptVersion(p) <= MaxVersion
  BY DEF Update, CanUpdate
<1>2. snaps' = [snaps EXCEPT ![p] = Snapshotted(p)] /\ Snapshotted(p) # NoHistory
  BY <1>1, SnapshottedHas DEF Update
<1>3. HasHistory(p)' /\ \A q \in Path : HasHistory(q) => HasHistory(q)'
  BY <1>2 DEF HasHistory, TypeOK
<1>4. verDirs' = verDirs \union {p} \union Above[p]
  BY DEF Update, MakeDirs
<1>5. verDirs \subseteq Path
  BY DEF TypeOK
<1> QED BY <1>3, <1>4, <1>5 DEF DirsUsed

LEMMA MoveKeepsUsed ==
    ASSUME TypeOK, DirsUsed, NEW m \in Batches, NEW expected, MoveBatch(m, expected)
    PROVE  DirsUsed'
<1> DEFINE written == Targets(m) \union Relinked(m)
           made    == MakeDirs(written)
           emptied == Sources(m) \intersect verDirs
           tried   == emptied \union UNION {Above[p] : p \in emptied}
           Kept(d) == \/ d \notin tried
                      \/ SnapsAfter(m)[d] # NoHistory
<1>1. CanMove(m, expected) /\ snaps' = SnapsAfter(m)
  BY DEF MoveBatch
<1>2. verDirs' = {d \in made : \E e \in made : Kept(e) /\ (e = d \/ d \in Above[e])}
  BY DEF MoveBatch, DirsAfter
<1>3. written \in SUBSET Path /\ made \in SUBSET Path
  BY BatchShape, MakeDirsType DEF Relinked
<1>4. ASSUME NEW q \in written PROVE HasHistory(q)'
  <2>1. CASE q \in Targets(m)
    <3>1. Origin(m, q) \in Sources(m) /\ Origin(m, q) \in Path /\ Exists(Origin(m, q))
      BY <1>1, <2>1, BatchShape DEF CanMove, Parsed
    <3>2. Snapshotted(Origin(m, q)) # NoHistory
      BY <1>1, <3>1, SnapshottedHas DEF CanMove
    <3> QED BY <1>1, <1>3, <2>1, <3>2 DEF SnapsAfter, HasHistory
  <2>2. CASE q \notin Targets(m)
    <3>1. q \in Relinked(m) /\ q \notin Sources(m) /\ Exists(q)
      BY <2>2 DEF Relinked, Parsed
    <3>2. Snapshotted(q) # NoHistory
      BY <1>1, <1>3, <3>1, SnapshottedHas DEF CanMove
    <3> QED BY <1>1, <1>3, <2>2, <3>1, <3>2 DEF SnapsAfter, HasHistory
  <2> QED BY <2>1, <2>2
<1>5. ASSUME NEW q \in Path, HasHistory(q), ~HasHistory(q)' PROVE q \in Sources(m)
  <2>1. q \notin written
    BY <1>4, <1>5
  <2> QED BY <1>1, <1>5, <2>1 DEF SnapsAfter, HasHistory
<1>6. ASSUME NEW e \in made, HasHistory(e)' PROVE e \in verDirs'
  BY <1>1, <1>2, <1>3, <1>6 DEF HasHistory
<1>7. made = verDirs \union written \union UNION {Above[p] : p \in written}
  BY DEF MakeDirs
<1>8. ASSUME NEW e \in made, Kept(e), ~HasHistory(e)'
      PROVE  \E x \in verDirs' : e \in Above[x] /\ HasHistory(x)'
  <2>1. e \in Path /\ e \notin tried /\ e \notin written
    BY <1>1, <1>3, <1>4, <1>8 DEF HasHistory
  <2>2. CASE e \in verDirs
    <3>1. ~HasHistory(e)
      BY <1>5, <1>8, <2>1, <2>2
    <3>2. PICK x \in verDirs : e \in Above[x] /\ HasHistory(x)
      BY <2>2, <3>1 DEF DirsUsed
    <3>3. x \in Path /\ x \notin Sources(m)
      BY <2>1, <3>2 DEF TypeOK
    <3>4. HasHistory(x)'
      BY <1>5, <3>2, <3>3
    <3> QED BY <1>6, <1>7, <3>2, <3>4
  <2>3. CASE e \notin verDirs
    <3>1. PICK x \in written : e \in Above[x]
      BY <1>7, <2>1, <2>3
    <3> QED BY <1>4, <1>6, <1>7, <3>1
  <2> QED BY <2>2, <2>3
<1> SUFFICES ASSUME NEW d \in verDirs', ~HasHistory(d)'
             PROVE  \E x \in verDirs' : d \in Above[x] /\ HasHistory(x)'
  BY DEF DirsUsed
<1>9. PICK e \in made : Kept(e) /\ (e = d \/ d \in Above[e])
  BY <1>2
<1> HIDE DEF made, Kept
<1>10. CASE HasHistory(e)'
  BY <1>6, <1>9, <1>10
<1>11. CASE ~HasHistory(e)'
  <2>1. PICK x \in verDirs' : e \in Above[x] /\ HasHistory(x)'
    BY <1>8, <1>9, <1>11
  <2>2. x \in Path
    BY <1>2, <1>3
  <2>3. d \in Above[x]
    BY <1>9, <2>1, <2>2, NestingAssumption
  <2> QED BY <2>1, <2>3
<1> QED BY <1>10, <1>11

\* Moves leave no snapshot directory that a later move would trip over.
THEOREM NoDirsAreStray ==
    ASSUME ~DiskFaults
    PROVE  Spec => []NoStrayDirs
<1>1. Init => DirsUsed
  BY DEF Init, DirsUsed
<1>2. TypeOK /\ DirsUsed /\ [Next]_vars => DirsUsed'
  <2> SUFFICES ASSUME TypeOK, DirsUsed, [Next]_vars PROVE DirsUsed'
    OBVIOUS
  <2>1. UNCHANGED <<snaps, verDirs>> => DirsUsed'
    BY DEF DirsUsed, HasHistory
  <2>2. ~AnyFailure
    BY DEF AnyFailure, CreateFails, SnapshotFails, UpdateFails, MoveFails
  <2>3. AnyUpdate => DirsUsed'
    BY UpdateKeepsUsed DEF AnyUpdate
  <2>4. AnyMove => DirsUsed'
    BY MoveKeepsUsed DEF AnyMove
  <2> QED BY <2>1, <2>2, <2>3, <2>4 DEF Next, AnyCreate, Create, vars
<1>3. HistoryInv /\ DirsUsed => NoStrayDirs
  <2> SUFFICES ASSUME HistoryInv, DirsUsed PROVE NoStrayDirs
    OBVIOUS
  <2>1. ASSUME NEW p \in Path, HasHistory(p) PROVE Exists(p)
    <3>1. PICK v \in Version : snaps[p][v] # None
      <4>1. snaps[p] \in [Version -> File \union {None}]
        BY DEF HistoryInv, TypeOK
      <4> QED BY <2>1, <4>1 DEF HasHistory, NoHistory
    <3> QED BY <3>1 DEF HistoryInv, HistorySound, Sound, Exists
  <2>2. verDirs \subseteq Path
    BY DEF HistoryInv, TypeOK
  <2> QED BY <2>1, <2>2 DEF DirsUsed, NoStrayDirs
<1>4. HistoryInv => TypeOK
  BY DEF HistoryInv
<1> QED BY <1>1, <1>2, <1>3, <1>4, HistoryInvariant, PTL DEF Spec

-----------------------------------------------------------------------------
(* Versions and the catalog.  The argument is about histories and files by *)
(* themselves: the log of a concept is its history h followed by its file  *)
(* f, wherever the two are, and a write only ever puts f, or a file beside *)
(* it, at the end of h.                                                    *)

Numbers(h) == {v \in Version : h[v] # None}

\* ConceptVersion, of a history.
Count(h) ==
    IF Numbers(h) = {} THEN 1
    ELSE 1 + CHOOSE v \in Numbers(h) : \A w \in Numbers(h) : w <= v

\* LogOf, of a history and a file.
Log(h, f) == [n \in 1..Count(h) |-> IF n < Count(h) THEN h[n] ELSE f]

FileHistory == [Version -> File \union {None}]

-----------------------------------------------------------------------------
(* Counting versions.                                                      *)

\* Count is one above the highest number, which is all there is to it.
LEMMA CountIs ==
    ASSUME NEW h, NEW n \in Nat, n >= 1, \A v \in Numbers(h) : v < n,
           n > 1 => n - 1 \in Numbers(h)
    PROVE  Count(h) = n
<1>1. Numbers(h) \subseteq Nat
  BY DEF Numbers, Version
<1>2. CASE Numbers(h) = {}
  BY <1>2 DEF Count
<1>3. CASE Numbers(h) # {}
  <2>1. PICK v \in Numbers(h) : v >= 1 /\ v < n
    BY <1>3 DEF Numbers, Version
  <2>2. n - 1 \in Numbers(h)
    BY <2>1, <1>1
  <2>3. \A w \in Numbers(h) : w <= n - 1
    BY <1>1
  <2> DEFINE top == CHOOSE u \in Numbers(h) : \A w \in Numbers(h) : w <= u
  <2>4. top \in Numbers(h) /\ \A w \in Numbers(h) : w <= top
    BY <2>2, <2>3
  <2>5. Count(h) = 1 + top
    BY <1>3 DEF Count
  <2> HIDE DEF top
  <2> QED BY <1>1, <2>2, <2>3, <2>4, <2>5
<1> QED BY <1>2, <1>3

LEMMA CountOf ==
    ASSUME NEW p \in Path
    PROVE  ConceptVersion(p) = Count(snaps[p]) /\ ConceptVersion(p)' = Count(snaps'[p])
  BY DEF ConceptVersion, Versions, Count, Numbers

LEMMA CountIsNext ==
    ASSUME NEW p \in Path
    PROVE  /\ Count(snaps[p]) \in Nat /\ Count(snaps[p]) >= 1
           /\ \A v \in Numbers(snaps[p]) : v < Count(snaps[p])
           /\ Count(snaps[p]) > 1 => Count(snaps[p]) - 1 \in Numbers(snaps[p])
<1>1. Numbers(snaps[p]) = Versions(p)
  BY DEF Numbers, Versions
<1> QED BY <1>1, CountOf, ConceptVersionIsNext

-----------------------------------------------------------------------------
(* What a write does to a log.                                             *)

\* Whatever is written as the next snapshot follows the ones there are.
LEMMA LogWritten ==
    ASSUME NEW h \in FileHistory, NEW c \in File, NEW g, NEW n, n = Count(h),
           n \in Version, \A v \in Numbers(h) : v < n
    PROVE  Log([h EXCEPT ![n] = c], g) =
              [k \in 1..(n + 1) |-> IF k < n THEN h[k] ELSE IF k = n THEN c ELSE g]
<1> DEFINE h2 == [h EXCEPT ![n] = c]
<1>1. n \in Nat /\ n >= 1
  BY VersionAssumption DEF Version
<1>2. Numbers(h2) = Numbers(h) \union {n}
  BY NoneAssumption DEF FileHistory, Numbers
<1>3. Count(h2) = n + 1
  <2> HIDE DEF h2
  <2>1. \A v \in Numbers(h2) : v < n + 1
    BY <1>1, <1>2 DEF Numbers, Version
  <2> QED BY <1>1, <1>2, <2>1, CountIs
<1>4. Log(h2, g) = [k \in 1..(n + 1) |-> IF k < n + 1 THEN h2[k] ELSE g]
  <2> HIDE DEF h2
  <2> QED BY <1>3 DEF Log
<1>5. \A k \in 1..n : h2[k] = IF k < n THEN h[k] ELSE c
  <2>1. 1..n \subseteq Version
    BY <1>1, VersionAssumption DEF Version
  <2> QED BY <1>1, <2>1 DEF FileHistory
<1> HIDE DEF h2
<1> QED BY <1>1, <1>4, <1>5 DEF h2

\* The file is snapshotted under its version: the log grows by the new file.
LEMMA LogGrows ==
    ASSUME NEW h \in FileHistory, NEW f \in File, NEW g,
           Count(h) \in Version, \A v \in Numbers(h) : v < Count(h)
    PROVE  LET after == Log([h EXCEPT ![Count(h)] = f], g)
           IN  /\ Len(after) = Len(Log(h, f)) + 1
               /\ DOMAIN after = 1..(Len(Log(h, f)) + 1)
               /\ \A n \in 1..Len(Log(h, f)) : after[n] = Log(h, f)[n]
<1> DEFINE n == Count(h)
           after == Log([h EXCEPT ![n] = f], g)
<1>1. n \in Nat /\ n >= 1
  BY VersionAssumption DEF Version
<1>2. after = [k \in 1..(n + 1) |-> IF k < n THEN h[k] ELSE IF k = n THEN f ELSE g]
  BY LogWritten
<1>3. Log(h, f) = [k \in 1..n |-> IF k < n THEN h[k] ELSE f]
  BY DEF Log
<1> HIDE DEF n, after
<1>4. Len(after) = n + 1 /\ DOMAIN after = 1..(n + 1) /\ Len(Log(h, f)) = n
  BY <1>1, <1>2, <1>3
<1>5. \A k \in 1..n : after[k] = Log(h, f)[k]
  BY <1>1, <1>2, <1>3
<1> QED BY <1>4, <1>5 DEF n, after

\* A log of n entries is kept by another: all but the last are where they
\* were, and the last is somewhere.
Saved(old, new) ==
    LET n == Len(old)
    IN  n > 0 => /\ \A k \in 1..(n - 1) : k \in DOMAIN new /\ new[k] = old[k]
                 /\ old[n] \in {new[k] : k \in DOMAIN new}

\* The file stays and something else became its snapshot.
LEMMA LogSaved ==
    ASSUME NEW h \in FileHistory, NEW f \in File, NEW c \in File,
           Count(h) \in Version, \A v \in Numbers(h) : v < Count(h)
    PROVE  Saved(Log(h, f), Log([h EXCEPT ![Count(h)] = c], f))
<1> DEFINE n == Count(h)
           after == Log([h EXCEPT ![n] = c], f)
<1>1. n \in Nat /\ n >= 1
  BY VersionAssumption DEF Version
<1>2. after = [k \in 1..(n + 1) |-> IF k < n THEN h[k] ELSE IF k = n THEN c ELSE f]
  BY LogWritten
<1>3. Log(h, f) = [k \in 1..n |-> IF k < n THEN h[k] ELSE f]
  BY DEF Log
<1> HIDE DEF n, after
<1>4. Len(Log(h, f)) = n /\ Log(h, f)[n] = f
  BY <1>1, <1>3
<1>5. n + 1 \in DOMAIN after /\ after[n + 1] = f
  BY <1>1, <1>2
<1>6. \A k \in 1..(n - 1) : k \in DOMAIN after /\ after[k] = Log(h, f)[k]
  BY <1>1, <1>2, <1>3
<1> QED BY <1>4, <1>5, <1>6 DEF Saved, n, after

LEMMA LogIsSeq ==
    ASSUME NEW p \in Path, NEW f
    PROVE  Len(Log(snaps[p], f)) = Count(snaps[p]) /\ DOMAIN Log(snaps[p], f) = 1..Count(snaps[p])
<1>1. Count(snaps[p]) \in Nat
  BY CountIsNext
<1> QED BY <1>1 DEF Log

-----------------------------------------------------------------------------
(* Where a concept is and what its log is.                                 *)

LEMMA LogAt ==
    ASSUME TypeOK, NEW i \in Id, NEW p \in Path, Exists(p), files[p].id = i
    PROVE  PlaceOf(i) = p /\ LogOf(i) = Log(snaps[p], files[p])
<1>1. {q \in Path : Exists(q) /\ files[q].id = i} = {p}
  BY DEF TypeOK
<1>2. (CHOOSE q \in {p} : TRUE) = p
  OBVIOUS
<1>3. LogOf(i) = [n \in 1..ConceptVersion(p) |->
                    IF n < ConceptVersion(p) THEN snaps[p][n] ELSE files[p]]
  BY <1>1, <1>2 DEF LogOf
<1> QED BY <1>1, <1>2, <1>3, CountOf DEF PlaceOf, Log

LEMMA LogAtNext ==
    ASSUME TypeOK', NEW i \in Id, NEW p \in Path, Exists(p)', files'[p].id = i
    PROVE  PlaceOf(i)' = p /\ LogOf(i)' = Log(snaps'[p], files'[p])
<1>1. {q \in Path : Exists(q)' /\ files'[q].id = i} = {p}
  BY DEF TypeOK
<1>2. (CHOOSE q \in {p} : TRUE) = p
  OBVIOUS
<1>3. LogOf(i)' = [n \in 1..ConceptVersion(p)' |->
                    IF n < ConceptVersion(p)' THEN snaps'[p][n] ELSE files'[p]]
  BY <1>1, <1>2 DEF LogOf
<1> QED BY <1>1, <1>2, <1>3, CountOf DEF PlaceOf, Log

LEMMA LogOfNone ==
    ASSUME NEW i \in Id, \A p \in Path : Exists(p) => files[p].id # i
    PROVE  PlaceOf(i) = None /\ LogOf(i) = << >>
<1>1. {q \in Path : Exists(q) /\ files[q].id = i} = {}
  OBVIOUS
<1> QED BY <1>1 DEF PlaceOf, LogOf

LEMMA LogOfNoneNext ==
    ASSUME NEW i \in Id, \A p \in Path : Exists(p)' => files'[p].id # i
    PROVE  PlaceOf(i)' = None /\ LogOf(i)' = << >>
<1>1. {q \in Path : Exists(q)' /\ files'[q].id = i} = {}
  OBVIOUS
<1> QED BY <1>1 DEF PlaceOf, LogOf

-----------------------------------------------------------------------------
(* Steps, for one concept.                                                 *)

Grew(i) ==
    /\ Len(LogOf(i)') = Len(LogOf(i)) + 1
    /\ DOMAIN LogOf(i)' = 1..(Len(LogOf(i)) + 1)
    /\ \A n \in 1..Len(LogOf(i)) : LogOf(i)'[n] = LogOf(i)[n]

\* A path whose file and history are left alone.
LEMMA LeftAlone ==
    ASSUME TypeOK, TypeOK', NEW i \in Id, NEW p \in Path, Exists(p), files[p].id = i,
           files'[p] = files[p], snaps'[p] = snaps[p]
    PROVE  PlaceOf(i)' = PlaceOf(i) /\ LogOf(i)' = LogOf(i)
<1>1. Exists(p)' /\ files'[p].id = i
  BY DEF Exists
<1> QED BY <1>1, LogAt, LogAtNext

\* A file written at q, over itself or as the moved file from p, with the
\* history of p and the replaced file as its newest snapshot.
LEMMA WrittenGrows ==
    ASSUME TypeOK, TypeOK', NEW i \in Id, NEW p \in Path, NEW q \in Path,
           Exists(p), files[p].id = i, ConceptVersion(p) <= MaxVersion,
           snaps'[q] = Snapshotted(p), files'[q] # None, files'[q].id = i
    PROVE  PlaceOf(i) = p /\ PlaceOf(i)' = q /\ Grew(i)
<1>1. PlaceOf(i) = p /\ LogOf(i) = Log(snaps[p], files[p])
  BY LogAt
<1>2. PlaceOf(i)' = q /\ LogOf(i)' = Log(snaps'[q], files'[q])
  BY LogAtNext DEF Exists
<1>3. snaps[p] \in FileHistory /\ files[p] \in File
  BY DEF TypeOK, FileHistory, Exists
<1>4. ConceptVersion(p) = Count(snaps[p])
  BY CountOf
<1>5. Count(snaps[p]) \in Version /\ \A v \in Numbers(snaps[p]) : v < Count(snaps[p])
  BY <1>4, CountIsNext, VersionAssumption DEF Version
<1>6. snaps'[q] = [snaps[p] EXCEPT ![Count(snaps[p])] = files[p]]
  BY <1>4 DEF Snapshotted
<1> QED BY <1>1, <1>2, <1>3, <1>5, <1>6, LogGrows DEF Grew

\* Where a concept is: at one path, or nowhere.
LEMMA PlaceIs ==
    ASSUME TypeOK, NEW i \in Id
    PROVE  \/ PlaceOf(i) = None /\ \A p \in Path : Exists(p) => files[p].id # i
           \/ PlaceOf(i) \in Path /\ Exists(PlaceOf(i)) /\ files[PlaceOf(i)].id = i
<1>1. CASE \A p \in Path : Exists(p) => files[p].id # i
  BY <1>1, LogOfNone
<1>2. CASE \E p \in Path : Exists(p) /\ files[p].id = i
  BY <1>2, LogAt
<1> QED BY <1>1, <1>2

\* A concept no step touches, and none that appears.
LEMMA OthersKept ==
    ASSUME TypeOK, TypeOK', NEW j \in Id,
           \A q \in Path : Exists(q) /\ files[q].id = j =>
              files'[q] = files[q] /\ snaps'[q] = snaps[q],
           \A q \in Path : Exists(q)' /\ files'[q].id = j =>
              Exists(q) /\ files[q].id = j
    PROVE  PlaceOf(j)' = PlaceOf(j) /\ LogOf(j)' = LogOf(j)
<1>1. CASE \E q \in Path : Exists(q) /\ files[q].id = j
  BY <1>1, LeftAlone
<1>2. CASE ~ \E q \in Path : Exists(q) /\ files[q].id = j
  BY <1>2, LogOfNone, LogOfNoneNext
<1> QED BY <1>1, <1>2

\* A new file at a free path, of a concept there was not.
LEMMA CreateGrows ==
    ASSUME TypeOK, TypeOK', HistorySound, NEW i \in Id, NEW p \in Path,
           ~Exists(p), i \notin UsedIds, NEW c \in File, c.id = i,
           files' = [files EXCEPT ![p] = c], UNCHANGED snaps
    PROVE  /\ PlaceOf(i) = None /\ LogOf(i) = << >>
           /\ PlaceOf(i)' = p /\ Grew(i)
           /\ \A j \in Id : PlaceOf(j) # p
           /\ \A j \in Id \ {i} : PlaceOf(j)' = PlaceOf(j) /\ LogOf(j)' = LogOf(j)
<1>1. \A q \in Path : Exists(q) => files[q].id # i
  BY DEF UsedIds
<1>2. PlaceOf(i) = None /\ LogOf(i) = << >>
  BY <1>1, LogOfNone
<1>3. files'[p] = c /\ c # None
  BY NoneAssumption DEF TypeOK
<1>4. PlaceOf(i)' = p /\ LogOf(i)' = Log(snaps[p], c)
  BY <1>3, LogAtNext DEF Exists
<1>5. Count(snaps[p]) = 1
  BY DEF HistorySound, Sound, Exists, Count, Numbers
<1>6. Len(LogOf(i)') = 1 /\ DOMAIN LogOf(i)' = 1..1
  BY <1>4, <1>5, LogIsSeq
<1>7. Grew(i)
  BY <1>2, <1>6 DEF Grew
<1>8. \A j \in Id : PlaceOf(j) # p
  BY PlaceIs, NoneAssumption
<1>9. ASSUME NEW j \in Id \ {i}
      PROVE  PlaceOf(j)' = PlaceOf(j) /\ LogOf(j)' = LogOf(j)
  <2>1. \A q \in Path : Exists(q) /\ files[q].id = j =>
           files'[q] = files[q] /\ snaps'[q] = snaps[q]
    BY DEF TypeOK
  <2>2. \A q \in Path : Exists(q)' /\ files'[q].id = j => Exists(q) /\ files[q].id = j
    BY <1>3 DEF TypeOK, Exists
  <2> QED BY <2>1, <2>2, OthersKept
<1> QED BY <1>2, <1>4, <1>7, <1>8, <1>9

\* A file overwritten after it was snapshotted.
LEMMA UpdateGrows ==
    ASSUME TypeOK, TypeOK', NEW p \in Path, Exists(p), ConceptVersion(p) <= MaxVersion,
           NEW i \in Id, files[p].id = i, NEW f \in File, f.id = i,
           files' = [files EXCEPT ![p] = f], snaps' = [snaps EXCEPT ![p] = Snapshotted(p)]
    PROVE  /\ PlaceOf(i) = p /\ PlaceOf(i)' = p /\ Grew(i)
           /\ \A j \in Id \ {i} : PlaceOf(j)' = PlaceOf(j) /\ LogOf(j)' = LogOf(j)
<1>1. files'[p] = f /\ f # None /\ snaps'[p] = Snapshotted(p)
  BY NoneAssumption DEF TypeOK
<1>2. PlaceOf(i) = p /\ PlaceOf(i)' = p /\ Grew(i)
  BY <1>1, WrittenGrows
<1>3. ASSUME NEW j \in Id \ {i}
      PROVE  PlaceOf(j)' = PlaceOf(j) /\ LogOf(j)' = LogOf(j)
  <2>1. \A q \in Path : q # p => files'[q] = files[q] /\ snaps'[q] = snaps[q]
    BY DEF TypeOK
  <2>2. \A q \in Path : Exists(q) /\ files[q].id = j => q # p
    OBVIOUS
  <2>3. \A q \in Path : Exists(q)' /\ files'[q].id = j => q # p
    BY <1>1
  <2>4. \A q \in Path : q # p => (Exists(q)' <=> Exists(q))
    BY <2>1 DEF Exists
  <2> QED BY <2>1, <2>2, <2>3, <2>4, OthersKept
<1> QED BY <1>2, <1>3

-----------------------------------------------------------------------------
(* Steps of a batch.                                                       *)

\* A moved concept gets one more version, at the target.
LEMMA MovedGrows ==
    ASSUME TypeOK, TypeOK', NEW m \in Batches, NEW expected, MoveBatch(m, expected),
           NEW p \in Sources(m), NEW i \in Id, files[p].id = i
    PROVE  PlaceOf(i) = p /\ PlaceOf(i)' = m[p] /\ Grew(i)
<1>1. CanMove(m, expected) /\ files' = FilesAfter(m) /\ snaps' = SnapsAfter(m)
  BY DEF MoveBatch
<1>2. p \in Path /\ m[p] \in Path /\ m[p] \in Targets(m) /\ Origin(m, m[p]) = p
  BY BatchShape
<1>3. Exists(p) /\ ConceptVersion(p) <= MaxVersion
  BY <1>1 DEF CanMove, Parsed
<1>4. files'[m[p]] # None /\ files'[m[p]].id = i
  BY <1>1, <1>2, FilesAfterMove
<1>5. snaps'[m[p]] = Snapshotted(p)
  BY <1>1, <1>2 DEF SnapsAfter
<1> QED BY <1>2, <1>3, <1>4, <1>5, WrittenGrows

\* Any other concept stays, with one more version or none.
LEMMA StayingKeptOrGrows ==
    ASSUME TypeOK, TypeOK', NEW m \in Batches, NEW expected, MoveBatch(m, expected),
           NEW j \in Id, \A p \in Sources(m) : files[p].id # j
    PROVE  /\ PlaceOf(j)' = PlaceOf(j)
           /\ LogOf(j)' = LogOf(j) \/ (PlaceOf(j) # None /\ Grew(j))
<1>1. CanMove(m, expected) /\ files' = FilesAfter(m) /\ snaps' = SnapsAfter(m)
  BY DEF MoveBatch
<1>2. ASSUME NEW q \in Path, q \in Relinked(m), files[q].id = j
      PROVE  PlaceOf(j)' = PlaceOf(j) /\ PlaceOf(j) # None /\ Grew(j)
  <2>1. Exists(q) /\ q \notin Sources(m)
    BY <1>2 DEF Relinked, Parsed
  <2>2. q \notin Targets(m)
    BY <1>1, <2>1, BatchShape DEF CanMove
  <2>3. files'[q] = RelinkedFile(m, q) /\ snaps'[q] = Snapshotted(q)
    BY <1>1, <1>2, <2>1, <2>2 DEF FilesAfter, SnapsAfter
  <2>4. files'[q] # None /\ files'[q].id = j
    BY <1>2, <2>1, <2>3, RelinkedFileType, NoneAssumption
  <2>5. ConceptVersion(q) <= MaxVersion
    BY <1>1, <1>2 DEF CanMove
  <2>6. PlaceOf(j) = q /\ PlaceOf(j)' = q /\ Grew(j)
    BY <1>2, <2>1, <2>3, <2>4, <2>5, WrittenGrows
  <2> QED BY <2>6, NoneAssumption
<1>3. ASSUME \A q \in Path : q \in Relinked(m) => files[q].id # j
      PROVE  PlaceOf(j)' = PlaceOf(j) /\ LogOf(j)' = LogOf(j)
  <2>1. ASSUME NEW q \in Path, Exists(q), files[q].id = j
        PROVE  files'[q] = files[q] /\ snaps'[q] = snaps[q]
    <3>1. q \notin Sources(m) /\ q \notin Relinked(m)
      BY <1>3, <2>1
    <3>2. q \notin Targets(m)
      BY <1>1, <2>1, BatchShape DEF CanMove
    <3> QED BY <1>1, <3>1, <3>2 DEF FilesAfter, SnapsAfter
  <2>2. ASSUME NEW q \in Path, Exists(q)', files'[q].id = j
        PROVE  Exists(q) /\ files[q].id = j
    <3>1. q \notin Sources(m)
      BY <1>1, <2>2, FilesAfterMove DEF Exists
    <3>2. q \notin Targets(m)
      BY <1>1, <2>2, FilesAfterMove, BatchShape
    <3>3. CASE q \in Relinked(m)
      <4>1. Exists(q) /\ files'[q] = RelinkedFile(m, q)
        BY <1>1, <3>1, <3>2, <3>3 DEF FilesAfter, Relinked, Parsed
      <4> QED BY <2>2, <4>1, RelinkedFileType
    <3>4. CASE q \notin Relinked(m)
      BY <1>1, <2>2, <3>1, <3>2, <3>4 DEF FilesAfter, Exists
    <3> QED BY <3>3, <3>4
  <2> QED BY <2>1, <2>2, OthersKept
<1> QED BY <1>2, <1>3

\* The targets are free before the batch.
LEMMA TargetsFree ==
    ASSUME TypeOK, NEW m \in Batches, NEW expected, CanMove(m, expected),
           NEW p \in Sources(m), NEW j \in Id
    PROVE  PlaceOf(j) # m[p]
<1>1. ~Exists(m[p]) /\ m[p] \in Path
  BY BatchShape DEF CanMove
<1> QED BY <1>1, PlaceIs, NoneAssumption

LEMMA BatchNotEmpty == ASSUME NEW m \in Batches PROVE \E p : p \in Sources(m)
  BY DEF Batches, Sources

-----------------------------------------------------------------------------
(* The bundle implements the catalog.                                      *)

LEMMA InitIsAbstract == Init => Abstract!Init
<1> SUFFICES ASSUME Init PROVE Abstract!Init
  OBVIOUS
<1>1. TypeOK
  BY InitType
<1>2. \A i \in Id : PlaceOf(i) \in Path \union {None}
  BY <1>1, PlaceIs
<1>3. \A i, j \in Id : PlaceOf(i) = PlaceOf(j) /\ i # j => PlaceOf(i) = None
  BY <1>1, PlaceIs
<1>4. ASSUME NEW i \in Id
      PROVE  Len(LogOf(i)) = IF PlaceOf(i) = None THEN 0 ELSE 1
  <2>1. CASE PlaceOf(i) = None
    <3>1. \A p \in Path : Exists(p) => files[p].id # i
      BY <1>1, <2>1, PlaceIs, NoneAssumption
    <3>2. LogOf(i) = << >>
      BY <3>1, LogOfNone
    <3> QED BY <2>1, <3>2
  <2>2. CASE PlaceOf(i) # None
    <3>1. PICK p \in Path : Exists(p) /\ files[p].id = i
      BY <1>1, <2>2, PlaceIs
    <3>2. LogOf(i) = Log(snaps[p], files[p])
      BY <1>1, <3>1, LogAt
    <3>3. Count(snaps[p]) = 1
      BY DEF Init, NoHistory, Count, Numbers
    <3>4. Len(LogOf(i)) = 1
      BY <3>2, <3>3, LogIsSeq
    <3> QED BY <2>2, <3>4
  <2> QED BY <2>1, <2>2
<1> QED BY <1>2, <1>3, <1>4 DEF Abstract!Init

\* Create adds one concept.
LEMMA CreateAdds ==
    ASSUME TypeOK, TypeOK', HistorySound, NEW i \in Id, NEW p \in Path, ~Exists(p),
           i \notin UsedIds, NEW c \in File, c.id = i,
           files' = [files EXCEPT ![p] = c], UNCHANGED snaps
    PROVE  Abstract!Next
<1>1. /\ PlaceOf(i) = None /\ PlaceOf(i)' = p /\ Grew(i)
      /\ \A j \in Id : PlaceOf(j) # p
      /\ \A j \in Id \ {i} : PlaceOf(j)' = PlaceOf(j) /\ LogOf(j)' = LogOf(j)
  BY CreateGrows
<1>2. p \in Path \ Abstract!Taken
  BY <1>1 DEF Abstract!Taken
<1>3. Abstract!Grows(i) /\ \A j \in Id \ {i} : Abstract!Keeps(j)
  BY <1>1 DEF Grew, Abstract!Grows, Abstract!Keeps
<1>4. [j \in Id |-> PlaceOf(j)]' = [[j \in Id |-> PlaceOf(j)] EXCEPT ![i] = p]
  BY <1>1
<1>5. Abstract!Add(i, p)
  BY <1>1, <1>2, <1>3, <1>4 DEF Abstract!Add
<1> QED BY <1>5 DEF Abstract!Next

\* Update edits one concept.
LEMMA UpdateEdits ==
    ASSUME TypeOK, TypeOK', NEW p \in Path, Exists(p), ConceptVersion(p) <= MaxVersion,
           NEW i \in Id, files[p].id = i, NEW f \in File, f.id = i,
           files' = [files EXCEPT ![p] = f], snaps' = [snaps EXCEPT ![p] = Snapshotted(p)]
    PROVE  Abstract!Next
<1>1. /\ PlaceOf(i) = p /\ PlaceOf(i)' = p /\ Grew(i)
      /\ \A j \in Id \ {i} : PlaceOf(j)' = PlaceOf(j) /\ LogOf(j)' = LogOf(j)
  BY UpdateGrows
<1>2. Abstract!Grows(i) /\ \A j \in Id \ {i} : Abstract!Keeps(j)
  BY <1>1 DEF Grew, Abstract!Grows, Abstract!Keeps
<1>3. [j \in Id |-> PlaceOf(j)]' = [j \in Id |-> PlaceOf(j)]
  BY <1>1
<1>4. PlaceOf(i) # None
  BY <1>1, NoneAssumption
<1>5. Abstract!Edit(i)
  BY <1>1, <1>2, <1>3, <1>4 DEF Abstract!Edit
<1> QED BY <1>1, <1>5 DEF Abstract!Next

\* A batch relocates the concepts at its sources.
LEMMA MoveRelocates ==
    ASSUME TypeOK, TypeOK', NEW m \in Batches, NEW expected, MoveBatch(m, expected)
    PROVE  Abstract!Relocate
<1> DEFINE moved == {i \in Id : PlaceOf(i)' # PlaceOf(i)}
<1>1. ASSUME NEW i \in moved
      PROVE  \E p \in Sources(m) : /\ files[p].id = i /\ PlaceOf(i) = p
                                   /\ PlaceOf(i)' = m[p] /\ Grew(i)
  <2>1. PICK p \in Sources(m) : files[p].id = i
    BY StayingKeptOrGrows
  <2> QED BY <2>1, MovedGrows
<1>2. moved # {}
  <2>1. PICK p : p \in Sources(m)
    BY BatchNotEmpty
  <2>2. p \in Path /\ m[p] \notin Sources(m) /\ Exists(p)
    BY <2>1, BatchShape DEF MoveBatch, CanMove, Parsed
  <2>3. PICK i \in Id : files[p].id = i
    BY <2>2 DEF TypeOK, Exists, File
  <2>4. PlaceOf(i) = p /\ PlaceOf(i)' = m[p]
    BY <2>1, <2>3, MovedGrows
  <2>5. PlaceOf(i)' # PlaceOf(i)
    BY <2>1, <2>2, <2>4
  <2> QED BY <2>5
<1>3. ASSUME NEW i \in moved
      PROVE  /\ PlaceOf(i) # None /\ Grew(i)
             /\ PlaceOf(i)' \in Path /\ \A j \in Id : PlaceOf(j) # PlaceOf(i)'
  <2>1. PICK p \in Sources(m) : PlaceOf(i) = p /\ PlaceOf(i)' = m[p] /\ Grew(i)
    BY <1>1
  <2>2. p \in Path /\ m[p] \in Path
    BY BatchShape
  <2>3. \A j \in Id : PlaceOf(j) # m[p]
    BY TargetsFree DEF MoveBatch
  <2> QED BY <2>1, <2>2, <2>3, NoneAssumption
<1>4. ASSUME NEW i \in moved, NEW j \in moved, PlaceOf(i)' = PlaceOf(j)'
      PROVE  i = j
  <2>1. PICK p \in Sources(m) : files[p].id = i /\ PlaceOf(i)' = m[p]
    BY <1>1
  <2>2. PICK q \in Sources(m) : files[q].id = j /\ PlaceOf(j)' = m[q]
    BY <1>1
  <2>3. m[p] = m[q]
    BY <1>4, <2>1, <2>2
  <2>4. p = q
    BY <2>3, BatchShape
  <2> QED BY <2>1, <2>2, <2>4
<1>5. ASSUME NEW i \in Id \ moved
      PROVE  LogOf(i)' = LogOf(i) \/ (PlaceOf(i) # None /\ Grew(i))
  <2>1. ASSUME NEW p \in Sources(m), files[p].id = i PROVE FALSE
    <3>1. PlaceOf(i) = p /\ PlaceOf(i)' = m[p]
      BY <2>1, MovedGrows
    <3> QED BY <3>1, BatchShape
  <2> QED BY <2>1, StayingKeptOrGrows
<1> DEFINE place == [i \in Id |-> PlaceOf(i)]
<1>6. \A i \in Id : place[i] = PlaceOf(i) /\ place'[i] = PlaceOf(i)'
  OBVIOUS
<1>7. {i \in Id : place'[i] # place[i]} = moved
  BY <1>6
<1>8. \A i \in Id : Grew(i) => Abstract!Grows(i)
  BY DEF Abstract!Grows, Grew
<1>9. \A i \in Id : Abstract!Keeps(i) <=> LogOf(i)' = LogOf(i)
  BY DEF Abstract!Keeps
<1>10. \A i \in moved : place'[i] \in Path \ Abstract!Taken
  BY <1>3, <1>6 DEF Abstract!Taken
<1> HIDE DEF moved
<1>11. moved \subseteq Id
  BY DEF moved
<1> QED BY <1>2, <1>3, <1>4, <1>5, <1>6, <1>7, <1>8, <1>9, <1>10, <1>11
        DEF Abstract!Relocate

LEMMA StepIsAbstract ==
    ASSUME HistoryInv, HistoryInv', DiskFaults = FALSE, [Next]_vars
    PROVE  [Abstract!Next]_(Abstract!vars)
<1> USE DEF HistoryInv
<1>1. ASSUME NEW i \in Id, NEW p \in Path, NEW links \in LinkSets, Create(i, p, links)
      PROVE  Abstract!Next
  <2>1. links \in SUBSET Target /\ CanCreate(i, p, links)
    BY <1>1, AuthorAssumption DEF Create
  <2>2. PICK c \in File : c.id = i /\ files' = [files EXCEPT ![p] = c]
    BY <1>1, <2>1, FreshType DEF Create
  <2> QED BY <1>1, <2>1, <2>2, CreateAdds DEF Create, CanCreate
<1>2. ASSUME NEW p \in Path, NEW links \in LinkSets, NEW expected \in 0..MaxVersion,
             NEW aliases \in Authored(p), Update(p, links, aliases, expected)
      PROVE  Abstract!Next
  <2>1. links \in SUBSET Target /\ CanUpdate(p, links, expected)
    BY <1>2, AuthorAssumption DEF Update
  <2>2. Exists(p) /\ ConceptVersion(p) <= MaxVersion
    BY <2>1 DEF CanUpdate
  <2>3. PICK i \in Id : files[p].id = i
    BY <2>2 DEF TypeOK, Exists, File
  <2>4. PICK f \in File : f.id = i /\ files' = [files EXCEPT ![p] = f]
    BY <1>2, <2>1, <2>2, <2>3, AuthoredType, EditedType DEF Update
  <2> QED BY <1>2, <2>2, <2>3, <2>4, UpdateEdits DEF Update
<1>3. ASSUME NEW m \in Batches, NEW expected, MoveBatch(m, expected)
      PROVE  Abstract!Next
  BY <1>3, MoveRelocates DEF Abstract!Next
<1>4. ~AnyFailure
  BY DEF AnyFailure, CreateFails, SnapshotFails, UpdateFails, MoveFails
<1>5. CASE UNCHANGED vars
  BY <1>5 DEF vars, Abstract!vars, PlaceOf, LogOf, Exists, ConceptVersion, Versions
<1> QED BY <1>1, <1>2, <1>3, <1>4, <1>5 DEF Next, AnyCreate, AnyUpdate, AnyMove

\* While file operations succeed, the bundle of files and snapshots keeps the
\* catalog's promise: every step of it is a step of the catalog or changes
\* nothing the catalog sees.
THEOREM BundleIsCatalog ==
    ASSUME DiskFaults = FALSE
    PROVE  Spec => CatalogKept
<1>1. HistoryInv /\ HistoryInv' /\ [Next]_vars => [Abstract!Next]_(Abstract!vars)
  BY StepIsAbstract
<1> QED BY <1>1, InitIsAbstract, HistoryInvariant, PTL DEF Spec, CatalogKept, Abstract!Spec

-----------------------------------------------------------------------------
(* No version is lost, whatever fails.                                     *)

LEMMA LogShape ==
    ASSUME TypeOK, NEW i \in Id
    PROVE  Len(LogOf(i)) \in Nat /\ DOMAIN LogOf(i) = 1..Len(LogOf(i))
<1>1. CASE \A p \in Path : Exists(p) => files[p].id # i
  <2>1. LogOf(i) = << >>
    BY <1>1, LogOfNone
  <2> QED BY <2>1
<1>2. CASE \E p \in Path : Exists(p) /\ files[p].id = i
  <2>1. PICK p \in Path : LogOf(i) = Log(snaps[p], files[p])
    BY <1>2, LogAt
  <2> QED BY <2>1, LogIsSeq, CountIsNext
<1> QED BY <1>1, <1>2

LEMMA KeptIsSaved ==
    ASSUME TypeOK, NEW i \in Id, LogOf(i)' = LogOf(i)
    PROVE  Saved(LogOf(i), LogOf(i)')
<1> DEFINE log == LogOf(i)
           n   == Len(log)
<1>1. n \in Nat /\ DOMAIN log = 1..n
  BY LogShape
<1> HIDE DEF log
<1>2. Saved(log, log)
  BY <1>1 DEF Saved
<1> QED BY <1>2 DEF log

LEMMA GrewIsSaved ==
    ASSUME TypeOK, NEW i \in Id, Grew(i)
    PROVE  Saved(LogOf(i), LogOf(i)')
<1> DEFINE old == LogOf(i)
           new == LogOf(i)'
           n   == Len(old)
<1>1. n \in Nat
  BY LogShape
<1>2. DOMAIN new = 1..(n + 1) /\ \A k \in 1..n : new[k] = old[k]
  BY DEF Grew
<1> HIDE DEF old, new
<1>3. n > 0 => n \in DOMAIN new /\ new[n] = old[n]
  BY <1>1, <1>2
<1>4. \A k \in 1..(n - 1) : k \in DOMAIN new /\ new[k] = old[k]
  BY <1>1, <1>2
<1>5. Saved(old, new)
  BY <1>3, <1>4 DEF Saved
<1> QED BY <1>5 DEF old, new

LEMMA NothingIsSaved ==
    ASSUME NEW new
    PROVE  Saved(<< >>, new)
  BY DEF Saved

\* A snapshot that fails half way leaves what the log had: a number more
\* when something was written, nothing otherwise.
LEMMA SnapshotFailsSaves ==
    ASSUME TypeOK, TypeOK', NEW p \in Path, Exists(p), ConceptVersion(p) <= MaxVersion,
           NEW c \in {None} \union Torn(files[p]),
           snaps' = [snaps EXCEPT ![p][ConceptVersion(p)] = c], UNCHANGED files,
           NEW j \in Id
    PROVE  Saved(LogOf(j), LogOf(j)')
<1> DEFINE n == ConceptVersion(p)
           h == snaps[p]
           f == files[p]
<1>1. h \in FileHistory /\ f \in File
  BY DEF TypeOK, FileHistory, Exists
<1>2. n = Count(h) /\ n \in Version /\ \A v \in Numbers(h) : v < n
  BY CountOf, CountIsNext, VersionAssumption DEF Version
<1>3. snaps'[p] = [h EXCEPT ![n] = c] /\ files'[p] = f
  BY DEF TypeOK
<1>4. CASE f.id = j
  <2>1. LogOf(j) = Log(h, f)
    BY <1>4, LogAt
  <2>2. LogOf(j)' = Log(snaps'[p], f)
    BY <1>3, <1>4, LogAtNext DEF Exists
  <2>3. CASE c = None
    <3>1. h[n] = None
      <4>1. n \notin Numbers(h)
        <5> HIDE DEF h, n
        <5> QED BY <1>2 DEF Version
      <4> QED BY <1>2, <4>1 DEF Numbers
    <3>2. snaps'[p] = h
      BY <1>1, <1>2, <1>3, <2>3, <3>1 DEF FileHistory
    <3> QED BY <2>1, <2>2, <3>2, KeptIsSaved
  <2>4. CASE c # None
    <3>1. c \in File
      BY <1>1, <2>4, TornType
    <3>2. Saved(Log(h, f), Log([h EXCEPT ![n] = c], f))
      BY <1>1, <1>2, <3>1, LogSaved
    <3> QED BY <1>3, <2>1, <2>2, <3>2
  <2> QED BY <2>3, <2>4
<1>5. CASE f.id # j
  <2>1. \A q \in Path : Exists(q) /\ files[q].id = j =>
           files'[q] = files[q] /\ snaps'[q] = snaps[q]
    BY <1>5 DEF TypeOK
  <2>2. \A q \in Path : Exists(q)' /\ files'[q].id = j => Exists(q) /\ files[q].id = j
    BY DEF Exists
  <2> QED BY <2>1, <2>2, OthersKept, KeptIsSaved
<1> QED BY <1>4, <1>5

LEMMA StepSaves ==
    ASSUME HistoryInv, HistoryInv', [Next]_vars, NEW j \in Id
    PROVE  Saved(LogOf(j), LogOf(j)')
<1> USE DEF HistoryInv
<1>1. ASSUME NEW i \in Id, NEW p \in Path, NEW links \in LinkSets,
             Create(i, p, links) \/ CreateFails(i, p, links)
      PROVE  Saved(LogOf(j), LogOf(j)')
  <2>1. links \in SUBSET Target /\ CanCreate(i, p, links) /\ UNCHANGED snaps
    BY <1>1, AuthorAssumption DEF Create, CreateFails
  <2>2. PICK c \in File : c.id = i /\ files' = [files EXCEPT ![p] = c]
    <3>1. CASE Create(i, p, links)
      BY <2>1, <3>1, FreshType DEF Create
    <3>2. CASE CreateFails(i, p, links)
      BY <2>1, <3>2, FreshType, TornType DEF CreateFails
    <3> QED BY <1>1, <3>1, <3>2
  <2>3. /\ LogOf(i) = << >>
        /\ \A k \in Id \ {i} : LogOf(k)' = LogOf(k)
    BY <2>1, <2>2, CreateGrows DEF CanCreate
  <2>4. CASE j = i
    BY <2>3, <2>4, NothingIsSaved
  <2>5. CASE j # i
    BY <2>3, <2>5, KeptIsSaved
  <2> QED BY <2>4, <2>5
<1>2. ASSUME NEW p \in Path, NEW links \in LinkSets, NEW expected \in 0..MaxVersion,
             NEW aliases \in Authored(p),
             \/ Update(p, links, aliases, expected)
             \/ UpdateFails(p, links, aliases, expected)
      PROVE  Saved(LogOf(j), LogOf(j)')
  <2>1. links \in SUBSET Target /\ CanUpdate(p, links, expected)
    BY <1>2, AuthorAssumption DEF Update, UpdateFails
  <2>2. Exists(p) /\ ConceptVersion(p) <= MaxVersion /\ files[p] \in File
    BY <2>1 DEF CanUpdate, TypeOK, Exists
  <2>3. PICK i \in Id : files[p].id = i
    BY <2>2 DEF File
  <2> DEFINE edited == Edited(p, links, aliases)
  <2>4. edited \in File /\ edited.id = i
    BY <2>1, <2>2, <2>3, AuthoredType, EditedType
  <2>5. PICK f \in {files[p], edited} \union Torn(edited) : files' = [files EXCEPT ![p] = f]
    BY <1>2 DEF Update, UpdateFails
  <2> HIDE DEF edited
  <2>6. f \in File /\ f.id = i
    BY <2>2, <2>3, <2>4, <2>5, TornType
  <2>7. snaps' = [snaps EXCEPT ![p] = Snapshotted(p)]
    BY <1>2 DEF Update, UpdateFails
  <2>8. Grew(i) /\ \A k \in Id \ {i} : LogOf(k)' = LogOf(k)
    BY <2>2, <2>3, <2>5, <2>6, <2>7, UpdateGrows
  <2>9. CASE j = i
    BY <2>8, <2>9, GrewIsSaved
  <2>10. CASE j # i
    BY <2>8, <2>10, KeptIsSaved
  <2> QED BY <2>9, <2>10
<1>3. ASSUME NEW p \in Path, NEW links \in LinkSets, NEW expected \in 0..MaxVersion,
             SnapshotFails(p, links, expected)
      PROVE  Saved(LogOf(j), LogOf(j)')
  <2>1. Exists(p) /\ ConceptVersion(p) <= MaxVersion
    BY <1>3 DEF SnapshotFails, CanUpdate
  <2>2. PICK c \in {None} \union Torn(files[p]) :
            snaps' = [snaps EXCEPT ![p][ConceptVersion(p)] = c]
    BY <1>3 DEF SnapshotFails
  <2> QED BY <1>3, <2>1, <2>2, SnapshotFailsSaves DEF SnapshotFails
<1>4. ASSUME NEW m \in Batches, NEW expected, MoveBatch(m, expected)
      PROVE  Saved(LogOf(j), LogOf(j)')
  <2>1. CASE \E p \in Sources(m) : files[p].id = j
    BY <1>4, <2>1, MovedGrows, GrewIsSaved
  <2>2. CASE \A p \in Sources(m) : files[p].id # j
    BY <1>4, <2>2, StayingKeptOrGrows, GrewIsSaved, KeptIsSaved
  <2> QED BY <2>1, <2>2
<1>5. CASE UNCHANGED <<files, snaps>>
  <2>1. LogOf(j)' = LogOf(j)
    BY <1>5 DEF LogOf, Exists, ConceptVersion, Versions
  <2> QED BY <2>1, KeptIsSaved
<1>6. ASSUME NEW m \in Batches, NEW expected, MoveFails(m, expected)
      PROVE  Saved(LogOf(j), LogOf(j)')
  BY <1>5, <1>6 DEF MoveFails
<1>7. CASE UNCHANGED vars
  BY <1>5, <1>7 DEF vars
<1> QED BY <1>1, <1>2, <1>3, <1>4, <1>6, <1>7 DEF Next, AnyCreate, AnyUpdate, AnyMove, AnyFailure

\* Whatever step the bundle takes, and whichever file operation fails in it,
\* every version of every concept that could be read before can be read after.
THEOREM NoVersionIsLost == Spec => NoVersionLost
<1> DEFINE Kept == \A log \in {[old |-> LogOf(i), new |-> LogOf(i)'] : i \in Id} :
                      Saved(log.old, log.new)
<1>1. HistoryInv /\ HistoryInv' /\ [Next]_vars => [Kept]_vars
  <2> SUFFICES ASSUME HistoryInv, HistoryInv', Next, NEW i \in Id
               PROVE  Saved(LogOf(i), LogOf(i)')
    OBVIOUS
  <2> QED BY StepSaves
<1>2. NoVersionLost <=> [][Kept]_vars
  BY DEF NoVersionLost, Saved
<1> HIDE DEF Kept
<1> QED BY <1>1, <1>2, HistoryInvariant, PTL DEF Spec
=============================================================================
