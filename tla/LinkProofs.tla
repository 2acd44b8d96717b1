------------------------------ MODULE LinkProofs ------------------------------
(***************************************************************************)
(* What writes and moves do to links and aliases, for every set of paths,  *)
(* every initial bundle, every batch size and every failure of a file      *)
(* operation, unless a theorem says otherwise.  A link or an alias that is *)
(* there after a step is traced to the file it is in, and from there to    *)
(* the same concept before the step.                                       *)
(***************************************************************************)
EXTENDS Reads, BundleProofs, FiniteSetTheorems

\* A target that leads to a file.
Occupied(r) == r \in Path /\ Exists(r)

\* From where there is a file, only what stands is valid.
LEMMA ValidMeans ==
    ASSUME NEW p \in Path, Exists(p), NEW r
    PROVE  ValidTarget(p, r) <=> Occupied(r)
  BY DEF ValidTarget, Occupied

\* Link l of concept j was broken before, at the same target or path.
Traced(j, l) == \E k \in Broken(j) : k.text = l.text \/ k.to = l.to

\* A broken link of a file that parses is one of its concept.
LEMMA BrokenAt ==
    ASSUME NEW i \in Id, NEW q \in Path, Parsed(q), files[q].id = i,
           NEW t, t \in files[q].links, ~Occupied(Lead(q, t))
    PROVE  [text |-> t, to |-> Lead(q, t)] \in Broken(i)
<1>1. q \in HomeOf(i) /\ t \in BrokenLinks(q, files[q].links)
  BY ValidMeans DEF HomeOf, BrokenLinks, Parsed
<1> QED BY <1>1 DEF Broken

\* A link that is broken after a step is in some file.
LEMMA BrokenIn ==
    ASSUME NEW i \in Id, NEW l, l \in Broken(i)'
    PROVE  \E q \in Path : /\ Parsed(q)' /\ files'[q].id = i
                           /\ l.text \in files'[q].links /\ l.to = Lead(q, l.text)
                           /\ ~Occupied(l.to)'
<1>1. PICK q \in Path :
         /\ Parsed(q)' /\ files'[q].id = i
         /\ \E t \in files'[q].links : /\ ~ValidTarget(q, Lead(q, t))'
                                       /\ l = [text |-> t, to |-> Lead(q, t)]
  BY DEF Broken, BrokenLinks, HomeOf, Lead
<1>0. PICK t \in files'[q].links : /\ ~ValidTarget(q, Lead(q, t))'
                                 /\ l = [text |-> t, to |-> Lead(q, t)]
  BY <1>1
<1>2. l.text = t /\ l.to = Lead(q, t)
  BY <1>0
<1>3. ~Occupied(l.to)'
  BY <1>0, <1>1, <1>2 DEF ValidTarget, Occupied, Lead
<1> QED BY <1>1, <1>2, <1>3

-----------------------------------------------------------------------------
(* Writes: links that are not accepted are not written.  U are the targets *)
(* that a cut may uncover: none, if the write does not fail.               *)

\* What a write of c may leave: links of c, and what a cut uncovered.
LEMMA TornLinks ==
    ASSUME NEW c \in File, NEW d \in Torn(c)
    PROVE  d.links \subseteq c.links \union Covered
  BY DEF Torn, File

\* The file f is written at p.
LEMMA WriteBreaksNothing ==
    ASSUME TypeOK, NEW p \in Path, NEW links \in SUBSET Target, NEW prev,
           NEW U, LinksAccepted(p, prev, links),
           NEW f \in File, f.links \subseteq Normalized(p, links) \union U,
           files' = [files EXCEPT ![p] = f],
           NEW j \in Id, NEW l \in Broken(j)',
           prev = {} \/ (prev = PrevLinks(p) /\ f.id = files[p].id)
    PROVE  l.text \in U \/ Traced(j, l)
<1>1. PICK q \in Path : /\ Parsed(q)' /\ files'[q].id = j
                        /\ l.text \in files'[q].links /\ l.to = Lead(q, l.text)
                        /\ ~Occupied(l.to)'
  BY BrokenIn
<1> DEFINE t == l.text
<1>2. f # None /\ files'[p] = f
  BY NoneAssumption DEF TypeOK
<1>3. ~Occupied(l.to) /\ l.to # p
  BY <1>1, <1>2 DEF TypeOK, Occupied, Exists
<1>4. CASE q # p
  <2>1. files'[q] = files[q]
    BY <1>4 DEF TypeOK
  <2>2. Parsed(q) /\ files[q].id = j /\ t \in files[q].links
    BY <1>1, <2>1 DEF Parsed, Exists
  <2>3. [text |-> t, to |-> Lead(q, t)] \in Broken(j)
    BY <1>1, <1>3, <2>2, BrokenAt
  <2> QED BY <2>3 DEF Traced
<1>5. CASE q = p /\ t \notin U
  <2>1. t \in Normalized(p, links) /\ f.id = j
    BY <1>1, <1>2, <1>5
  <2>2. ~ValidTarget(p, Lead(p, t))
    BY <1>1, <1>3, <1>5 DEF ValidTarget, Occupied
  <2>3. Lead(p, t) \in prev
    BY <2>1, <2>2 DEF LinksAccepted, BrokenLinks
  <2>4. /\ Parsed(p) /\ files[p].id = j
        /\ \E u \in files[p].links : Lead(p, t) = Lead(p, u)
    BY <2>1, <2>3 DEF PrevLinks, LeadsOf
  <2>5. PICK u \in files[p].links : Lead(p, t) = Lead(p, u)
    BY <2>4
  <2>6. [text |-> u, to |-> Lead(p, u)] \in Broken(j)
    BY <1>1, <1>3, <1>5, <2>4, <2>5, BrokenAt
  <2> QED BY <1>1, <1>5, <2>5, <2>6 DEF Traced
<1> QED BY <1>4, <1>5

LEMMA CreateBreaksNothing ==
    ASSUME TypeOK, NEW p \in Path, NEW links \in SUBSET Target,
           LinksAccepted(p, {}, links), NEW U,
           NEW f \in File, f.links \subseteq Normalized(p, links) \union U,
           files' = [files EXCEPT ![p] = f],
           NEW j \in Id, NEW l \in Broken(j)'
    PROVE  l.text \in U \/ Traced(j, l)
<1>1. PICK prev : prev = {}
  OBVIOUS
<1> QED BY <1>1, WriteBreaksNothing

LEMMA UpdateBreaksNothing ==
    ASSUME TypeOK, NEW p \in Path, NEW links \in SUBSET Target,
           LinksAccepted(p, PrevLinks(p), links), NEW U,
           NEW f \in File, f.id = files[p].id, f.links \subseteq Normalized(p, links) \union U,
           files' = [files EXCEPT ![p] = f],
           NEW j \in Id, NEW l \in Broken(j)'
    PROVE  l.text \in U \/ Traced(j, l)
<1>1. PICK prev : prev = PrevLinks(p)
  OBVIOUS
<1> QED BY <1>1, WriteBreaksNothing

\* What was broken and is left alone is broken as before.
LEMMA NothingBreaksNothing ==
    ASSUME UNCHANGED files, NEW j \in Id, NEW l \in Broken(j)'
    PROVE  Traced(j, l)
<1>1. l \in Broken(j)
  BY DEF Broken, BrokenLinks, ValidTarget, HomeOf, Lead, Parsed, Exists
<1> QED BY <1>1 DEF Traced

-----------------------------------------------------------------------------
(* What a move does to each concept.                                       *)

\* The target a link of the concept at o has after the move.
After(m, o, u) ==
    IF o \in Sources(m)
    THEN IF ValidTarget(o, Lead(o, u)) THEN To(m, Lead(o, u)) ELSE u
    ELSE IF Lead(o, u) \in Sources(m) THEN m[Lead(o, u)] ELSE u

\* No two concepts end up at one path.
LEMMA ToIsInjective ==
    ASSUME NEW m \in Batches, NEW expected, CanMove(m, expected),
           NEW o \in Path, NEW r \in Path, Exists(o), Exists(r), To(m, o) = To(m, r)
    PROVE  o = r
<1>1. \A p \in Sources(m) : ~Exists(m[p])
  BY DEF CanMove
<1> QED BY <1>1, BatchShape DEF To

\* The file a concept has after the move.
LEMMA MoveCarries ==
    ASSUME TypeOK, NEW m \in Batches, NEW expected, MoveBatch(m, expected),
           NEW o \in Path, Exists(o)
    PROVE  /\ To(m, o) \in Path
           /\ files'[To(m, o)] # None
           /\ files'[To(m, o)].id = files[o].id
           /\ files'[To(m, o)].parses = files[o].parses
           /\ Parsed(o) =>
                 /\ files'[To(m, o)].links = {After(m, o, u) : u \in files[o].links}
                 /\ files'[To(m, o)].aliases =
                       IF o \in Sources(m) THEN (files[o].aliases \union {o}) \ {m[o]}
                       ELSE files[o].aliases \ Stale(m)
<1>1. CanMove(m, expected) /\ files' = FilesAfter(m)
  BY DEF MoveBatch
<1>2. files[o] \in File
  BY DEF TypeOK, Exists
<1>3. CASE o \in Sources(m)
  <2>1. To(m, o) = m[o] /\ m[o] \in Path /\ m[o] \in Targets(m) /\ Origin(m, m[o]) = o
    BY <1>3, BatchShape DEF To
  <2>2. files'[m[o]] = MovedFile(m, o)
    BY <1>1, <2>1 DEF FilesAfter
  <2>3. files'[m[o]] # None
    BY <1>1, <2>1, FilesAfterMove
  <2>4. Pinned(m, o, files[o].links) = {After(m, o, u) : u \in files[o].links}
    BY <1>3 DEF Pinned, After
  <2> QED BY <1>2, <1>3, <2>1, <2>2, <2>3, <2>4 DEF MovedFile, File
<1>4. CASE o \notin Sources(m)
  <2>1. o \notin Targets(m)
    BY <1>1, BatchShape DEF CanMove
  <2>2. To(m, o) = o /\ files'[o] # None
    BY <1>1, <1>4, <2>1, FilesAfterMove DEF To, Exists
  <2>3. CASE o \in Relinked(m)
    <3>1. files'[o] = RelinkedFile(m, o)
      BY <1>1, <1>4, <2>1, <2>3 DEF FilesAfter
    <3>2. Retarget(m, o, files[o].links) = {After(m, o, u) : u \in files[o].links}
      BY <1>4 DEF Retarget, After
    <3> QED BY <1>2, <1>4, <2>2, <3>1, <3>2 DEF RelinkedFile, File
  <2>4. CASE o \notin Relinked(m)
    <3>1. files'[o] = files[o]
      BY <1>1, <1>4, <2>1, <2>4 DEF FilesAfter
    <3>2. ASSUME Parsed(o)
          PROVE  /\ {After(m, o, u) : u \in files[o].links} = files[o].links
                 /\ files[o].aliases \ Stale(m) = files[o].aliases
      <4>1. /\ LeadsOf(o) \intersect Sources(m) = {}
            /\ files[o].aliases \intersect Stale(m) = {}
        BY <1>4, <2>4, <3>2 DEF Relinked
      <4> QED BY <1>4, <4>1 DEF After, LeadsOf
    <3> QED BY <1>4, <2>2, <3>1, <3>2
  <2> QED BY <2>3, <2>4
<1> QED BY <1>3, <1>4

\* A link that led to a concept leads to it after the move, from wherever its
\* own concept is then; a broken one keeps its target.
LEMMA AfterLeads ==
    ASSUME TypeOK, NEW m \in Batches, NEW expected, MoveBatch(m, expected),
           NEW o \in Path, Parsed(o), NEW u \in files[o].links
    PROVE  IF Occupied(Lead(o, u))
           THEN /\ Lead(To(m, o), After(m, o, u)) = To(m, Lead(o, u))
                /\ Occupied(To(m, Lead(o, u)))'
                /\ files'[To(m, Lead(o, u))].id = files[Lead(o, u)].id
           ELSE After(m, o, u) = u
<1> DEFINE r == Lead(o, u)
<1>1. Exists(o) /\ \A p \in Sources(m) : p \in Path /\ Exists(p)
  BY BatchShape DEF MoveBatch, CanMove, Parsed
<1>2. ASSUME Occupied(r)
      PROVE  Occupied(To(m, r))' /\ files'[To(m, r)].id = files[r].id
  <2>1. r \in Path /\ Exists(r)
    BY <1>2 DEF Occupied
  <2> HIDE DEF r
  <2>2. To(m, r) \in Path /\ files'[To(m, r)] # None /\ files'[To(m, r)].id = files[r].id
    BY <2>1, MoveCarries
  <2> QED BY <2>2 DEF Occupied, Exists
<1>3. CASE o \in Sources(m)
  <2>1. ValidTarget(o, r) <=> Occupied(r)
    BY <1>1, ValidMeans
  <2>2. Occupied(r) => To(m, r) \in Path
    BY <1>2 DEF Occupied
  <2>3. After(m, o, u) = IF Occupied(r) THEN To(m, r) ELSE u
    BY <1>3, <2>1 DEF After
  <2> QED BY <1>2, <2>2, <2>3 DEF Lead
<1>4. CASE o \notin Sources(m)
  <2>1. To(m, o) = o
    BY <1>4 DEF To
  <2>2. CASE r \in Sources(m)
    <3>1. After(m, o, u) = m[r] /\ To(m, r) = m[r] /\ m[r] \in Path /\ Occupied(r)
      BY <1>1, <1>4, <2>2, BatchShape DEF After, To, Occupied
    <3> QED BY <1>2, <3>1 DEF Lead
  <2>3. CASE r \notin Sources(m)
    <3>1. After(m, o, u) = u /\ To(m, r) = r
      BY <1>4, <2>3 DEF After, To
    <3> QED BY <1>2, <2>1, <3>1
  <2> QED BY <2>2, <2>3
<1> QED BY <1>3, <1>4

\* Every file after the move is one that was there before.
LEMMA MoveComesFrom ==
    ASSUME TypeOK, NEW m \in Batches, NEW expected, MoveBatch(m, expected),
           NEW q \in Path, files'[q] # None
    PROVE  \E o \in Path : Exists(o) /\ q = To(m, o)
<1>1. CanMove(m, expected) /\ files' = FilesAfter(m)
  BY DEF MoveBatch
<1>2. CASE q \in Targets(m)
  <2>1. Origin(m, q) \in Sources(m) /\ m[Origin(m, q)] = q
    BY <1>2, BatchShape
  <2>2. Origin(m, q) \in Path /\ Exists(Origin(m, q))
    BY <1>1, <1>2, FilesAfterMove
  <2> QED BY <2>1, <2>2 DEF To
<1>3. CASE q \notin Targets(m)
  <2>1. q \notin Sources(m)
    BY <1>1, FilesAfterMove
  <2>2. Exists(q)
    BY <1>1, <1>3, <2>1, FilesAfterMove DEF Exists
  <2> QED BY <2>1, <2>2 DEF To
<1> QED BY <1>2, <1>3

\* What exists after the move.
LEMMA ExistsAfterMove ==
    ASSUME TypeOK, NEW m \in Batches, NEW expected, MoveBatch(m, expected), NEW t \in Path
    PROVE  Exists(t)' <=> t \in Targets(m) \/ (t \notin Sources(m) /\ Exists(t))
<1>1. CanMove(m, expected) /\ files' = FilesAfter(m)
  BY DEF MoveBatch
<1> QED BY <1>1, FilesAfterMove DEF Exists

\* Of a former path's aliases, the move leaves those of the moved concepts.
LEMMA HoldersAfterMove ==
    ASSUME TypeOK, NEW m \in Batches, NEW expected, MoveBatch(m, expected), NEW a, NEW q
    PROVE  q \in Holders(a)' <=>
              \E o \in Path :
                 /\ Parsed(o) /\ q = To(m, o)
                 /\ IF o \in Sources(m) THEN a # m[o] /\ (a = o \/ o \in Holders(a))
                    ELSE a \notin Stale(m) /\ o \in Holders(a)
<1>1. ASSUME NEW o \in Path, Parsed(o)
      PROVE  (a \in files'[To(m, o)].aliases) <=>
                 IF o \in Sources(m) THEN a # m[o] /\ (a = o \/ o \in Holders(a))
                 ELSE a \notin Stale(m) /\ o \in Holders(a)
  <2>1. files'[To(m, o)].aliases =
            IF o \in Sources(m) THEN (files[o].aliases \union {o}) \ {m[o]}
            ELSE files[o].aliases \ Stale(m)
    BY <1>1, MoveCarries DEF Parsed
  <2> QED BY <1>1, <2>1 DEF Holders
<1>2. ASSUME NEW o \in Path, Parsed(o)
      PROVE  To(m, o) \in Path /\ Parsed(To(m, o))'
  BY <1>2, MoveCarries DEF Parsed, Exists
<1>3. ASSUME q \in Path, Parsed(q)'
      PROVE  \E o \in Path : Parsed(o) /\ q = To(m, o)
  <2>1. PICK o \in Path : Exists(o) /\ q = To(m, o)
    BY <1>3, MoveComesFrom DEF Parsed, Exists
  <2> QED BY <1>3, <2>1, MoveCarries DEF Parsed
<1>4. q \in Holders(a)' <=> q \in Path /\ Parsed(q)' /\ a \in files'[q].aliases
  BY DEF Holders
<1> QED BY <1>1, <1>2, <1>3, <1>4

-----------------------------------------------------------------------------
(* Moves break no link and leave every link with the concept it led to.    *)

\* A file after the move is one that was there before, its links moved along.
LEMMA LinkComesFrom ==
    ASSUME TypeOK, NEW m \in Batches, NEW expected, MoveBatch(m, expected),
           NEW q \in Path, Parsed(q)', NEW t \in files'[q].links
    PROVE  \E o \in Path : /\ Parsed(o) /\ q = To(m, o) /\ files'[q].id = files[o].id
                           /\ \E u \in files[o].links : t = After(m, o, u)
<1>1. PICK o \in Path : Exists(o) /\ q = To(m, o)
  BY MoveComesFrom DEF Parsed, Exists
<1>2. Parsed(o)
  BY <1>1, MoveCarries DEF Parsed
<1>3. files'[q].links = {After(m, o, u) : u \in files[o].links} /\ files'[q].id = files[o].id
  BY <1>1, <1>2, MoveCarries
<1> QED BY <1>1, <1>2, <1>3

LEMMA MoveBreaksNothing ==
    ASSUME TypeOK, NEW m \in Batches, NEW expected, MoveBatch(m, expected),
           NEW j \in Id, NEW l \in Broken(j)'
    PROVE  Traced(j, l)
<1>1. PICK q \in Path : /\ Parsed(q)' /\ files'[q].id = j
                        /\ l.text \in files'[q].links /\ l.to = Lead(q, l.text)
                        /\ ~Occupied(l.to)'
  BY BrokenIn
<1>2. PICK o \in Path : /\ Parsed(o) /\ q = To(m, o) /\ files[o].id = j
                        /\ \E u \in files[o].links : l.text = After(m, o, u)
  BY <1>1, LinkComesFrom
<1>3. PICK u \in files[o].links : l.text = After(m, o, u)
  BY <1>2
<1>4. ~Occupied(Lead(o, u)) /\ l.text = u
  BY <1>1, <1>2, <1>3, AfterLeads
<1>5. [text |-> u, to |-> Lead(o, u)] \in Broken(j)
  BY <1>2, <1>4, BrokenAt
<1> QED BY <1>4, <1>5 DEF Traced

LEMMA StepBreaksNothing ==
    ASSUME TypeOK, Next, NEW j \in Id, NEW l \in Broken(j)'
    PROVE  \/ Traced(j, l)
           \/ l.text \in Covered /\ ~(AnyCreate \/ AnyUpdate \/ AnyMove)
<1>1. ASSUME NEW i \in Id, NEW p \in Path, NEW links \in LinkSets, Create(i, p, links)
      PROVE  Traced(j, l)
  <2>1. links \in SUBSET Target /\ LinksAccepted(p, {}, links)
    BY <1>1, AuthorAssumption DEF Create, CanCreate
  <2> DEFINE fresh == Fresh(i, p, links)
  <2>2. fresh \in File /\ fresh.links = Normalized(p, links)
    BY <2>1, FreshType DEF Fresh
  <2>3. files' = [files EXCEPT ![p] = fresh]
    BY <1>1 DEF Create
  <2> HIDE DEF fresh
  <2>4. fresh.links \subseteq Normalized(p, links) \union {}
    BY <2>2
  <2>5. PICK U : U = {}
    OBVIOUS
  <2>6. l.text \in U \/ Traced(j, l)
    BY <2>1, <2>2, <2>3, <2>4, <2>5, CreateBreaksNothing
  <2> QED BY <2>5, <2>6
<1>2. ASSUME NEW p \in Path, NEW links \in LinkSets, NEW expected \in 0..MaxVersion,
             NEW aliases \in Authored(p), Update(p, links, aliases, expected)
      PROVE  Traced(j, l)
  <2>1. links \in SUBSET Target /\ Exists(p) /\ LinksAccepted(p, PrevLinks(p), links)
    BY <1>2, AuthorAssumption DEF Update, CanUpdate
  <2> DEFINE edited == Edited(p, links, aliases)
  <2>2. edited \in File /\ edited.id = files[p].id /\ edited.links = Normalized(p, links)
    BY <2>1, AuthoredType, EditedType DEF Edited
  <2>3. files' = [files EXCEPT ![p] = edited]
    BY <1>2 DEF Update
  <2> HIDE DEF edited
  <2>4. edited.links \subseteq Normalized(p, links) \union {}
    BY <2>2
  <2>5. PICK U : U = {}
    OBVIOUS
  <2>6. l.text \in U \/ Traced(j, l)
    BY <2>1, <2>2, <2>3, <2>4, <2>5, UpdateBreaksNothing
  <2> QED BY <2>5, <2>6
<1>3. AnyCreate \/ AnyUpdate \/ AnyMove => Traced(j, l)
  BY <1>1, <1>2, MoveBreaksNothing DEF AnyCreate, AnyUpdate, AnyMove
<1>4. ASSUME NEW i \in Id, NEW p \in Path, NEW links \in LinkSets, CreateFails(i, p, links)
      PROVE  l.text \in Covered \/ Traced(j, l)
  <2>1. links \in SUBSET Target /\ LinksAccepted(p, {}, links)
    BY <1>4, AuthorAssumption DEF CreateFails, CanCreate
  <2> DEFINE fresh == Fresh(i, p, links)
  <2>2. fresh \in File /\ fresh.links = Normalized(p, links)
    BY <2>1, FreshType DEF Fresh
  <2>3. PICK f \in Torn(fresh) : files' = [files EXCEPT ![p] = f]
    BY <1>4 DEF CreateFails
  <2> HIDE DEF fresh
  <2>4. f \in File /\ f.links \subseteq Normalized(p, links) \union Covered
    BY <2>2, <2>3, TornType, TornLinks
  <2> QED BY <2>1, <2>3, <2>4, CreateBreaksNothing
<1>5. ASSUME NEW p \in Path, NEW links \in LinkSets, NEW expected \in 0..MaxVersion,
             NEW aliases \in Authored(p), UpdateFails(p, links, aliases, expected)
      PROVE  l.text \in Covered \/ Traced(j, l)
  <2>1. links \in SUBSET Target /\ Exists(p) /\ LinksAccepted(p, PrevLinks(p), links)
    BY <1>5, AuthorAssumption DEF UpdateFails, CanUpdate
  <2> DEFINE edited == Edited(p, links, aliases)
  <2>2. edited \in File /\ edited.id = files[p].id /\ edited.links = Normalized(p, links)
    BY <2>1, AuthoredType, EditedType DEF Edited
  <2>3. PICK f \in {files[p]} \union Torn(edited) : files' = [files EXCEPT ![p] = f]
    BY <1>5 DEF UpdateFails
  <2> HIDE DEF edited
  <2>4. CASE f = files[p]
    <3>1. UNCHANGED files
      BY <2>3, <2>4 DEF TypeOK
    <3> QED BY <3>1, NothingBreaksNothing
  <2>5. CASE f \in Torn(edited)
    <3>1. /\ f \in File /\ f.id = files[p].id
          /\ f.links \subseteq Normalized(p, links) \union Covered
      BY <2>2, <2>5, TornType, TornLinks
    <3> QED BY <2>1, <2>3, <3>1, UpdateBreaksNothing
  <2> QED BY <2>4, <2>5
<1>6. ASSUME UNCHANGED files
      PROVE  Traced(j, l)
  BY <1>6, NothingBreaksNothing
<1>7. AnyFailure => l.text \in Covered \/ Traced(j, l)
  BY <1>4, <1>5, <1>6 DEF AnyFailure, SnapshotFails, MoveFails
<1> QED BY <1>3, <1>7 DEF Next

\* No create, update or move breaks a link, of a file that parsed before or
\* not: what is broken afterwards was broken before.  After a write that fails
\* half way it is that or what the cut uncovered.
THEOREM NoWriteBreaksLinks == Spec => NoNewBrokenLinks
<1> DEFINE Kept == \A i \in Id : \A l \in Broken(i)' :
          \/ \E k \in Broken(i) : k.text = l.text \/ k.to = l.to
          \/ l.text \in Covered /\ ~(AnyCreate \/ AnyUpdate \/ AnyMove)
<1>1. TypeOK /\ [Next]_vars => [Kept]_vars
  <2> SUFFICES ASSUME TypeOK, Next, NEW i \in Id, NEW l \in Broken(i)'
               PROVE  \/ \E k \in Broken(i) : k.text = l.text \/ k.to = l.to
                      \/ l.text \in Covered /\ ~(AnyCreate \/ AnyUpdate \/ AnyMove)
    OBVIOUS
  <2> QED BY StepBreaksNothing DEF Traced
<1>2. Spec => []TypeOK
  BY TypeCorrect
<1>3. NoNewBrokenLinks <=> [][Kept]_vars
  BY DEF NoNewBrokenLinks
<1> HIDE DEF Kept
<1> QED BY <1>1, <1>2, <1>3, PTL DEF Spec

LEMMA MoveKeepsNeighbours ==
    ASSUME TypeOK, NEW m \in Batches, NEW expected, MoveBatch(m, expected), NEW i \in Id
    PROVE  Neighbours(i) \subseteq Neighbours(i)'
<1> SUFFICES ASSUME NEW j \in Neighbours(i) PROVE j \in Neighbours(i)'
  OBVIOUS
<1>0. PICK q \in HomeOf(i) :
         \E t \in files[q].links : Occupied(Lead(q, t)) /\ j = files[Lead(q, t)].id
  BY DEF Neighbours, LeadsOf, Occupied
<1>1. PICK u \in files[q].links : Occupied(Lead(q, u)) /\ j = files[Lead(q, u)].id
  BY <1>0
<1>2. q \in Path /\ Parsed(q) /\ files[q].id = i
  BY <1>1 DEF HomeOf
<1> DEFINE r == To(m, Lead(q, u))
<1>3. /\ Lead(To(m, q), After(m, q, u)) = r
      /\ Occupied(r)' /\ files'[r].id = j
  BY <1>1, <1>2, AfterLeads
<1>4. /\ To(m, q) \in Path /\ Parsed(To(m, q))' /\ files'[To(m, q)].id = i
      /\ After(m, q, u) \in files'[To(m, q)].links
  BY <1>1, <1>2, MoveCarries DEF Parsed, Exists
<1> HIDE DEF r
<1>5. r \in LeadsOf(To(m, q))' /\ To(m, q) \in HomeOf(i)'
  BY <1>3, <1>4 DEF LeadsOf, HomeOf, Lead
<1> QED BY <1>3, <1>5 DEF Neighbours, Occupied

\* A batch move, of any number of concepts, leaves every concept linked to
\* every concept it was linked to.
THEOREM MovesKeepNeighbours == Spec => LinksFollowConcepts
<1> DEFINE Kept == AnyMove => \A i \in Id : Neighbours(i) \subseteq Neighbours(i)'
<1>1. TypeOK /\ [Next]_vars => [Kept]_vars
  <2> SUFFICES ASSUME TypeOK, AnyMove, NEW i \in Id
               PROVE  Neighbours(i) \subseteq Neighbours(i)'
    OBVIOUS
  <2> QED BY MoveKeepsNeighbours DEF AnyMove
<1>2. Spec => []TypeOK
  BY TypeCorrect
<1>3. LinksFollowConcepts <=> [][Kept]_vars
  BY DEF LinksFollowConcepts
<1> HIDE DEF Kept
<1> QED BY <1>1, <1>2, <1>3, PTL DEF Spec

-----------------------------------------------------------------------------
(* Aliases.  The tools never write the aliases of a concept themselves     *)
(* (AliasSets = {}): an update keeps those the concept has.                *)

\* A file that does not parse has no alias to come back with when an update
\* replaces it.
UnreadableHasNone == \A p \in Path : Exists(p) /\ ~Parsed(p) => files[p].aliases = {}

\* A torn write adds no alias.
LEMMA TornAliases ==
    ASSUME NEW c \in File, c.parses, NEW d \in Torn(c)
    PROVE  d.aliases = IF d.parses THEN c.aliases ELSE {}
<1>1. CASE d = [c EXCEPT !.parses = FALSE, !.links = {}, !.aliases = {}]
  BY <1>1 DEF File
<1>2. CASE \E ls \in SUBSET (c.links \union Covered) : d = [c EXCEPT !.links = ls]
  BY <1>2 DEF File
<1> QED BY <1>1, <1>2 DEF Torn

\* File f is created at p, in full or in part.
Created(p, f) ==
    /\ ~Exists(p)
    /\ \E links \in SUBSET Target : f.links \subseteq Normalized(p, links) \union Covered
    /\ f.aliases = {}
    /\ files' = [files EXCEPT ![p] = f]

\* File f is what an update leaves of the file at p, in full or in part.
Rewritten(p, f) ==
    /\ Exists(p) /\ f.id = files[p].id
    /\ \E links \in SUBSET Target : f.links \subseteq Normalized(p, links) \union Covered
    /\ f.aliases = IF f.parses THEN files[p].aliases ELSE {}
    /\ files' = [files EXCEPT ![p] = f]

\* What a step does to the files.
LEMMA StepKinds ==
    ASSUME TypeOK, AliasSets = {}, [Next]_vars
    PROVE  \/ UNCHANGED files
           \/ \E p \in Path, f \in File : Created(p, f) \/ Rewritten(p, f)
           \/ \E m \in Batches : \E expected : MoveBatch(m, expected)
<1>1. ASSUME NEW i \in Id, NEW p \in Path, NEW links \in LinkSets,
             Create(i, p, links) \/ CreateFails(i, p, links)
      PROVE  \E f \in File : Created(p, f)
  <2>1. links \in SUBSET Target /\ ~Exists(p)
    BY <1>1, AuthorAssumption DEF Create, CreateFails, CanCreate
  <2> DEFINE fresh == Fresh(i, p, links)
  <2>2. fresh \in File /\ fresh.parses /\ fresh.aliases = {}
        /\ fresh.links = Normalized(p, links)
    BY <2>1, FreshType DEF Fresh
  <2>3. PICK f : f \in {fresh} \union Torn(fresh) /\ files' = [files EXCEPT ![p] = f]
    BY <1>1 DEF Create, CreateFails
  <2> HIDE DEF fresh
  <2>4. f \in File /\ f.links \subseteq fresh.links \union Covered /\ f.aliases = {}
    BY <2>2, <2>3, TornType, TornLinks, TornAliases
  <2> QED BY <2>1, <2>2, <2>3, <2>4 DEF Created
<1>2. ASSUME NEW p \in Path, NEW links \in LinkSets, NEW expected \in 0..MaxVersion,
             NEW aliases \in Authored(p),
             \/ Update(p, links, aliases, expected)
             \/ UpdateFails(p, links, aliases, expected)
      PROVE  \/ UNCHANGED files
             \/ \E f \in File : Rewritten(p, f)
  <2>1. links \in SUBSET Target /\ Exists(p)
    BY <1>2, AuthorAssumption DEF Update, UpdateFails, CanUpdate
  <2>2. aliases = files[p].aliases
    BY <2>1 DEF Authored
  <2> DEFINE edited == Edited(p, links, aliases)
  <2>3. edited \in File /\ edited.id = files[p].id
    BY <2>1, AuthoredType, EditedType
  <2>4. edited.parses /\ edited.links = Normalized(p, links) /\ edited.aliases = files[p].aliases
    BY <2>2 DEF Edited
  <2>5. PICK f : /\ f \in {files[p], edited} \union Torn(edited)
                 /\ files' = [files EXCEPT ![p] = f]
    BY <1>2 DEF Update, UpdateFails
  <2> HIDE DEF edited
  <2>6. CASE f = files[p]
    BY <2>5, <2>6 DEF TypeOK
  <2>7. CASE f \in {edited} \union Torn(edited)
    <3>1. /\ f \in File /\ f.id = files[p].id /\ f.links \subseteq edited.links \union Covered
          /\ f.aliases = IF f.parses THEN files[p].aliases ELSE {}
      BY <2>3, <2>4, <2>7, TornType, TornLinks, TornAliases
    <3> QED BY <2>1, <2>4, <2>5, <3>1 DEF Rewritten
  <2> QED BY <2>5, <2>6, <2>7
<1>3. ASSUME NEW p \in Path, NEW links \in LinkSets, NEW expected \in 0..MaxVersion,
             SnapshotFails(p, links, expected)
      PROVE  UNCHANGED files
  BY <1>3 DEF SnapshotFails
<1>4. ASSUME NEW m \in Batches, NEW expected, MoveFails(m, expected)
      PROVE  UNCHANGED files
  BY <1>4 DEF MoveFails
<1>5. CASE UNCHANGED vars
  BY <1>5 DEF vars
<1> QED BY <1>1, <1>2, <1>3, <1>4, <1>5 DEF Next, AnyCreate, AnyUpdate, AnyMove, AnyFailure

LEMMA InitUnreadable == Init => UnreadableHasNone
  BY UnparsedAssumption DEF Init, UnreadableHasNone, Parsed, Exists

LEMMA NextUnreadable ==
    ASSUME TypeOK, AliasSets = {}, UnreadableHasNone, [Next]_vars
    PROVE  UnreadableHasNone'
<1>1. CASE UNCHANGED files
  BY <1>1 DEF UnreadableHasNone, Parsed, Exists
<1>2. ASSUME NEW p \in Path, NEW f \in File, ~f.parses => f.aliases = {},
             files' = [files EXCEPT ![p] = f]
      PROVE  UnreadableHasNone'
  BY <1>2 DEF UnreadableHasNone, Parsed, Exists, TypeOK
<1>3. ASSUME NEW m \in Batches, NEW expected, MoveBatch(m, expected)
      PROVE  UnreadableHasNone'
  <2> SUFFICES ASSUME NEW q \in Path, files'[q] # None, ~files'[q].parses
               PROVE  files'[q].aliases = {}
    BY DEF UnreadableHasNone, Parsed, Exists
  <2>1. PICK o \in Path : Exists(o) /\ q = To(m, o)
    BY <1>3, MoveComesFrom
  <2>2. ~files[o].parses
    BY <1>3, <2>1, MoveCarries
  <2>3. o \notin Sources(m) /\ o \notin Relinked(m) /\ o \notin Targets(m)
    BY <1>3, <2>1, <2>2, BatchShape DEF MoveBatch, CanMove, Parsed, Relinked
  <2>4. files'[q] = files[o]
    BY <1>3, <2>1, <2>3 DEF MoveBatch, FilesAfter, To
  <2> QED BY <2>1, <2>2, <2>4 DEF UnreadableHasNone, Parsed
<1> QED BY <1>1, <1>2, <1>3, StepKinds DEF Created, Rewritten

-----------------------------------------------------------------------------
(* Reads and the link audit agree.                                         *)

\* Links in canonical form that no cut uncovers.
Plain(q) == files[q].links \intersect (Path \ Covered)

\* Such a link either leads to a file or not even an alias leads anywhere.
LinksReach ==
    \A q \in Path : Parsed(q) => \A t \in Plain(q) : Exists(t) \/ Holders(t) = {}

LEMMA BrokenMeans == BrokenLinksLeadNowhere <=> LinksReach
<1>1. ASSUME NEW q \in Path, Parsed(q), NEW t \in Plain(q), ~Exists(t)
      PROVE  \E l \in AuditLinks : l.target = t
  <2> DEFINE l == [source |-> q, target |-> t]
  <2>1. Lead(q, t) = t /\ ~ValidTarget(q, t)
    BY <1>1, ValidMeans DEF Plain, Lead, Occupied, Parsed
  <2>2. l \in AuditLinks
    BY <1>1, <2>1 DEF AuditLinks, Concepts, BrokenLinks, Plain
  <2>3. l.target = t
    OBVIOUS
  <2> QED BY <2>2, <2>3
<1>2. ASSUME NEW l \in AuditLinks, l.target \in Path \ Covered
      PROVE  \E q \in Path : Parsed(q) /\ l.target \in Plain(q) /\ ~Exists(l.target)
  <2>1. PICK q \in Concepts : \E t \in BrokenLinks(q, files[q].links) :
                                 l = [source |-> q, target |-> t]
    BY DEF AuditLinks
  <2>2. PICK t \in BrokenLinks(q, files[q].links) : l = [source |-> q, target |-> t]
    BY <2>1
  <2>3. l.target = t /\ t \in files[q].links /\ ~ValidTarget(q, Lead(q, t))
    BY <2>2 DEF BrokenLinks
  <2>4. ~Exists(t)
    BY <1>2, <2>3 DEF Lead, ValidTarget
  <2> QED BY <1>2, <2>1, <2>3, <2>4 DEF Concepts, Plain
<1>3. ASSUME NEW t, ~Exists(t)
      PROVE  Parsed(Resolve(t)) <=> Holders(t) # {}
  <2>1. CASE Holders(t) = {}
    BY <1>3, <2>1 DEF Resolve, Parsed
  <2>2. CASE Holders(t) # {}
    BY <1>3, <2>2, AliasHolderHolds DEF Resolve, Holders
  <2> QED BY <2>1, <2>2
<1>4. ASSUME BrokenLinksLeadNowhere, NEW q \in Path, Parsed(q), NEW t \in Plain(q),
             ~Exists(t)
      PROVE  Holders(t) = {}
  <2>1. ~Parsed(Resolve(t))
    BY <1>1, <1>4 DEF BrokenLinksLeadNowhere, Plain
  <2> QED BY <1>3, <1>4, <2>1
<1>5. ASSUME LinksReach, NEW l \in AuditLinks, l.target \in Path \ Covered
      PROVE  ~Parsed(Resolve(l.target))
  <2>1. PICK q \in Path : Parsed(q) /\ l.target \in Plain(q) /\ ~Exists(l.target)
    BY <1>2, <1>5
  <2> QED BY <1>3, <1>5, <2>1 DEF LinksReach
<1> QED BY <1>4, <1>5 DEF LinksReach, BrokenLinksLeadNowhere

\* A normalised link leads to a file, or nothing leads anywhere.
LEMMA NormalizedReaches ==
    ASSUME NEW p \in Path, NEW links \in SUBSET Target,
           NEW t \in Normalized(p, links), t \in Path
    PROVE  t = p \/ Exists(t) \/ Holders(t) = {}
<1>1. PICK u \in links :
         t = LET r == Lead(p, u)
             IN  IF ValidTarget(p, r) THEN r ELSE IF Holders(r) # {} THEN AliasHolder(r) ELSE u
  BY DEF Normalized
<1>2. CASE ValidTarget(p, Lead(p, u))
  BY <1>1, <1>2 DEF ValidTarget
<1>3. CASE ~ValidTarget(p, Lead(p, u)) /\ Holders(Lead(p, u)) # {}
  BY <1>1, <1>3, AliasHolderHolds DEF Holders, Parsed
<1>4. CASE ~ValidTarget(p, Lead(p, u)) /\ Holders(Lead(p, u)) = {}
  BY <1>1, <1>4 DEF Lead
<1> QED BY <1>2, <1>3, <1>4

\* A write brings no alias to life.
LEMMA WriteAddsNoHolder ==
    ASSUME TypeOK, UnreadableHasNone, NEW p \in Path, NEW f \in File,
           f.aliases = {} \/ (Exists(p) /\ f.aliases = files[p].aliases),
           files' = [files EXCEPT ![p] = f], NEW a
    PROVE  Holders(a)' \subseteq Holders(a)
<1>1. ASSUME NEW q \in Holders(a)' PROVE q \in Holders(a)
  <2>1. q \in Path /\ Parsed(q)' /\ a \in files'[q].aliases
    BY <1>1 DEF Holders
  <2>2. CASE q = p
    <3>1. Exists(p) /\ a \in files[p].aliases
      BY <2>1, <2>2 DEF TypeOK
    <3> QED BY <2>2, <3>1 DEF UnreadableHasNone, Holders
  <2>3. CASE q # p
    BY <2>1, <2>3 DEF Holders, Parsed, Exists, TypeOK
  <2> QED BY <2>2, <2>3
<1> QED BY <1>1

LEMMA WriteKeepsReach ==
    ASSUME TypeOK, UnreadableHasNone, LinksReach,
           NEW p \in Path, NEW f \in File, NEW links \in SUBSET Target,
           f.links \subseteq Normalized(p, links) \union Covered,
           f.aliases = {} \/ (Exists(p) /\ f.aliases = files[p].aliases),
           files' = [files EXCEPT ![p] = f]
    PROVE  LinksReach'
<1> SUFFICES ASSUME NEW q \in Path, Parsed(q)', NEW t \in Plain(q)', ~Exists(t)'
             PROVE  Holders(t)' = {}
  BY DEF LinksReach
<1>1. f # None /\ Exists(p)' /\ t \in files'[q].links /\ t \in Path /\ t \notin Covered
  BY NoneAssumption DEF TypeOK, Exists, Plain
<1>2. t # p /\ ~Exists(t)
  BY <1>1 DEF TypeOK, Exists
<1>3. Holders(t) = {}
  <2>1. CASE q = p
    <3>1. t \in Normalized(p, links)
      BY <1>1, <2>1 DEF TypeOK
    <3> QED BY <1>1, <1>2, <3>1, NormalizedReaches
  <2>2. CASE q # p
    <3>1. Parsed(q) /\ t \in Plain(q)
      BY <1>1, <2>2 DEF Parsed, Exists, TypeOK, Plain
    <3> QED BY <1>2, <3>1 DEF LinksReach
  <2> QED BY <2>1, <2>2
<1> QED BY <1>3, WriteAddsNoHolder

LEMMA MoveKeepsReach ==
    ASSUME TypeOK, LinksReach, NEW m \in Batches, NEW expected, MoveBatch(m, expected)
    PROVE  LinksReach'
<1> SUFFICES ASSUME NEW q \in Path, Parsed(q)', NEW t \in Plain(q)', ~Exists(t)'
             PROVE  Holders(t)' = {}
  BY DEF LinksReach
<1>0. t \in files'[q].links /\ t \in Path \ Covered
  BY DEF Plain
<1>1. PICK o \in Path : Parsed(o) /\ q = To(m, o)
                        /\ \E u \in files[o].links : t = After(m, o, u)
  BY <1>0, LinkComesFrom
<1>2. PICK u \in files[o].links : t = After(m, o, u)
  BY <1>1
<1>3. ~Occupied(Lead(o, u)) /\ t = u
  BY <1>0, <1>1, <1>2, AfterLeads DEF Occupied, Lead, Exists
<1>4. t \in Plain(o) /\ ~Exists(t)
  BY <1>0, <1>3 DEF Plain, Occupied, Lead
<1>5. Holders(t) = {}
  BY <1>1, <1>4 DEF LinksReach
<1>6. t \notin Sources(m)
  BY <1>4 DEF MoveBatch, CanMove, Parsed
<1>7. ASSUME NEW r \in Holders(t)' PROVE FALSE
  <2>1. PICK s \in Path : Parsed(s) /\ (s = t \/ s \in Holders(t))
    BY <1>7, HoldersAfterMove
  <2> QED BY <1>4, <1>5, <2>1 DEF Parsed
<1> QED BY <1>7

\* If the audit and the reads agree on the bundle the server starts with,
\* they agree for good: whatever is created, updated, moved in a batch of any
\* size or left half written, no broken link in canonical form, unless a cut
\* uncovered it, leads a read to a concept.
THEOREM BrokenLinksAgree ==
    ASSUME AliasSets = {}
    PROVE  Spec /\ BrokenLinksLeadNowhere => []BrokenLinksLeadNowhere
<1> DEFINE Inv == TypeOK /\ UnreadableHasNone /\ LinksReach
<1>1. Init /\ BrokenLinksLeadNowhere => Inv
  BY InitType, InitUnreadable, BrokenMeans
<1>2. Inv /\ TypeOK' /\ [Next]_vars => Inv'
  <2> SUFFICES ASSUME TypeOK, UnreadableHasNone, LinksReach, [Next]_vars
               PROVE  UnreadableHasNone' /\ LinksReach'
    OBVIOUS
  <2>1. UnreadableHasNone'
    BY NextUnreadable
  <2>2. UNCHANGED files => LinksReach'
    BY DEF LinksReach, Plain, Holders, Parsed, Exists
  <2>3. LinksReach'
    BY <2>2, StepKinds, WriteKeepsReach, MoveKeepsReach DEF Created, Rewritten
  <2> QED BY <2>1, <2>3
<1>3. Inv => BrokenLinksLeadNowhere
  BY BrokenMeans
<1>4. Spec => []TypeOK
  BY TypeCorrect
<1> HIDE DEF Inv
<1> QED BY <1>1, <1>2, <1>3, <1>4, PTL DEF Spec

-----------------------------------------------------------------------------
(* Former paths.                                                           *)

\* A read of the old path of a moved concept finds it, unless another
\* concept of the batch came from there earlier (then both hold the alias).
LEMMA FormerPathResolves ==
    ASSUME TypeOK, NEW m \in Batches, NEW expected, MoveBatch(m, expected),
           NEW p \in Sources(m),
           \A o \in Sources(m) : o # p => p \notin files[o].aliases
    PROVE  Holders(p)' = {m[p]} /\ Resolve(p)' = m[p]
<1>1. p \in Path /\ Parsed(p) /\ m[p] \in Path /\ m[p] # p
  BY BatchShape DEF MoveBatch, CanMove
<1>2. ASSUME NEW q
      PROVE  q \in Holders(p)' <=> q = m[p]
  <2>1. ASSUME q \in Holders(p)' PROVE q = m[p]
    <3>1. PICK o \in Path :
             /\ Parsed(o) /\ q = To(m, o)
             /\ IF o \in Sources(m) THEN p # m[o] /\ (p = o \/ o \in Holders(p))
                ELSE p \notin Stale(m) /\ o \in Holders(p)
      BY <2>1, HoldersAfterMove
    <3>2. o \in Sources(m) /\ (p = o \/ p \in files[o].aliases)
      BY <3>1 DEF Stale, Holders
    <3> QED BY <3>1, <3>2 DEF To
  <2>2. m[p] \in Holders(p)'
    BY <1>1, HoldersAfterMove DEF To
  <2> QED BY <2>1, <2>2
<1>3. Holders(p)' = {m[p]}
  BY <1>2
<1>4. AliasHolder(p)' = m[p]
  BY <1>1, <1>3, PathAssumption DEF AliasHolder
<1>5. ~Exists(p)'
  BY <1>1, BatchShape, ExistsAfterMove
<1> QED BY <1>3, <1>4, <1>5 DEF Resolve

\* A single move is all a batch can be when batches have one element.
LEMMA SingleMove ==
    ASSUME MaxBatch = 1, NEW m \in Batches
    PROVE  \E p \in Path : Sources(m) = {p}
<1>1. Sources(m) \in SUBSET Path /\ Sources(m) # {} /\ Cardinality(Sources(m)) <= 1
  BY DEF Batches, Sources
<1>2. IsFiniteSet(Sources(m))
  BY <1>1, FiniteAssumption, FS_Subset
<1>3. Cardinality(Sources(m)) \in Nat /\ Cardinality(Sources(m)) # 0
  BY <1>1, <1>2, FS_CardinalityType, FS_EmptySet
<1>4. Cardinality(Sources(m)) = 1
  BY <1>1, <1>3
<1>5. PICK p : Sources(m) = {p}
  BY <1>2, <1>4, FS_Singleton
<1> QED BY <1>1, <1>5

\* After a kb_move of one concept a read of its old path finds it, whatever
\* aliases there were.  (In a batch it may find another: see FormerPathsResolve
\* in the run bundle_batch_alias.)
THEOREM SingleMovesLeaveAliases ==
    ASSUME MaxBatch = 1
    PROVE  Spec => FormerPathsResolve
<1> DEFINE Kept == \A m \in Batches :
               (\E expected \in [Sources(m) -> {0}] : MoveBatch(m, expected))
                  => \A p \in Sources(m) : Resolve(p)' = m[p]
<1>1. TypeOK /\ [Next]_vars => [Kept]_vars
  <2> SUFFICES ASSUME TypeOK, NEW m \in Batches, NEW expected, MoveBatch(m, expected),
                      NEW p \in Sources(m)
               PROVE  Resolve(p)' = m[p]
    OBVIOUS
  <2>1. \A o \in Sources(m) : o = p
    BY SingleMove
  <2> QED BY <2>1, FormerPathResolves
<1>2. Spec => []TypeOK
  BY TypeCorrect
<1>3. FormerPathsResolve <=> [][Kept]_vars
  BY DEF FormerPathsResolve
<1> HIDE DEF Kept
<1> QED BY <1>1, <1>2, <1>3, PTL DEF Spec

-----------------------------------------------------------------------------
(* One concept for every alias.                                            *)

\* A batch of any size keeps aliases unambiguous when none of its concepts
\* holds an alias at which another of them was or arrives.
LEMMA MoveKeepsUnambiguous ==
    ASSUME TypeOK, AliasesUnambiguous, NEW m \in Batches, NEW expected, MoveBatch(m, expected),
           \A o, p \in Sources(m) : o # p => {p, m[p]} \intersect files[o].aliases = {}
    PROVE  AliasesUnambiguous'
<1> SUFFICES ASSUME NEW a \in Path, NEW q \in Holders(a)', NEW r \in Holders(a)'
             PROVE  q = r
  BY DEF AliasesUnambiguous
<1>1. CASE a \in Sources(m)
  <2>1. Holders(a)' = {m[a]}
    BY <1>1, FormerPathResolves
  <2> QED BY <2>1
<1>2. CASE a \notin Sources(m)
  <2>1. ASSUME NEW s \in Holders(a)'
        PROVE  \E o \in Holders(a) : s = To(m, o)
    <3>1. PICK o \in Path :
             /\ Parsed(o) /\ s = To(m, o)
             /\ IF o \in Sources(m) THEN a # m[o] /\ (a = o \/ o \in Holders(a))
                ELSE a \notin Stale(m) /\ o \in Holders(a)
      BY <2>1, HoldersAfterMove
    <3> QED BY <1>2, <3>1
  <2>2. PICK o \in Holders(a), p \in Holders(a) : q = To(m, o) /\ r = To(m, p)
    BY <2>1
  <2> QED BY <2>2 DEF AliasesUnambiguous
<1> QED BY <1>1, <1>2

\* Where no two concepts hold one alias when the server starts, no sequence of
\* creates, updates and single moves, failing or not, makes them do so.
THEOREM SingleMovesKeepUnambiguous ==
    ASSUME MaxBatch = 1, AliasSets = {}
    PROVE  Spec /\ AliasesUnambiguous => []AliasesUnambiguous
<1> DEFINE Inv == TypeOK /\ UnreadableHasNone /\ AliasesUnambiguous
<1>1. Init /\ AliasesUnambiguous => Inv
  BY InitType, InitUnreadable
<1>2. Inv /\ TypeOK' /\ [Next]_vars => Inv'
  <2> SUFFICES ASSUME TypeOK, UnreadableHasNone, AliasesUnambiguous, [Next]_vars
               PROVE  UnreadableHasNone' /\ AliasesUnambiguous'
    OBVIOUS
  <2>1. UnreadableHasNone'
    BY NextUnreadable
  <2>2. UNCHANGED files => AliasesUnambiguous'
    BY DEF AliasesUnambiguous, Holders, Parsed, Exists
  <2>3. ASSUME NEW p \in Path, NEW f \in File, Created(p, f) \/ Rewritten(p, f)
        PROVE  AliasesUnambiguous'
    <3>1. \A a : Holders(a)' \subseteq Holders(a)
      BY <2>3, WriteAddsNoHolder DEF Created, Rewritten
    <3> QED BY <3>1 DEF AliasesUnambiguous
  <2>4. ASSUME NEW m \in Batches, NEW expected, MoveBatch(m, expected)
        PROVE  AliasesUnambiguous'
    <3>1. \A o, p \in Sources(m) : o = p
      BY SingleMove
    <3> QED BY <2>4, <3>1, MoveKeepsUnambiguous
  <2> QED BY <2>1, <2>2, <2>3, <2>4, StepKinds
<1>3. Inv => AliasesUnambiguous
  OBVIOUS
<1>4. Spec => []TypeOK
  BY TypeCorrect
<1> HIDE DEF Inv
<1> QED BY <1>1, <1>2, <1>3, <1>4, PTL DEF Spec

-----------------------------------------------------------------------------
(* kb_links foretells kb_move.                                             *)

\* The report on a path with a file is about that file.
LEMMA InboundAtFile ==
    ASSUME NEW p, Exists(p), NEW q
    PROVE  q \in LinkInfo(p).inbound <=>
              /\ q \in Path /\ q # p /\ Parsed(q)
              /\ \E u \in files[q].links : Lead(q, u) = p
<1>1. Resolve(p) = p
  BY DEF Resolve
<1>2. LinkInfo(p).inbound = Inbound(p)
  BY <1>1 DEF LinkInfo
<1> QED BY <1>2 DEF Inbound, Concepts, LeadsOf

\* Of the concepts that stay, those listed as linking to a moved one are
\* rewritten.
LEMMA MoveRewrites ==
    ASSUME TypeOK, NEW m \in Batches, NEW expected, MoveBatch(m, expected),
           NEW q \in Path, Parsed(q), q \notin Sources(m)
    PROVE  files'[q].links # files[q].links
              <=> \E p \in Sources(m) : q \in LinkInfo(p).inbound
<1>1. files'[q].links = {After(m, q, u) : u \in files[q].links}
  BY MoveCarries DEF To, Parsed
<1>2. ASSUME NEW u \in files[q].links
      PROVE  After(m, q, u) = IF Lead(q, u) \in Sources(m) THEN m[Lead(q, u)] ELSE u
  BY DEF After
<1>3. ASSUME NEW p \in Sources(m)
      PROVE  q \in LinkInfo(p).inbound <=> \E u \in files[q].links : Lead(q, u) = p
  <2>1. Exists(p) /\ q # p
    BY DEF MoveBatch, CanMove, Parsed
  <2> QED BY <2>1, InboundAtFile
<1>4. ASSUME NEW u \in files[q].links, Lead(q, u) \in Sources(m)
      PROVE  files'[q].links # files[q].links
  <2>1. ASSUME NEW t \in files[q].links PROVE After(m, q, t) # u
    <3>1. CASE Lead(q, t) \in Sources(m)
      <4>1. After(m, q, t) = m[Lead(q, t)] /\ m[Lead(q, t)] \in Path
            /\ m[Lead(q, t)] \notin Sources(m)
        BY <1>2, <3>1, BatchShape
      <4> QED BY <1>4, <4>1 DEF Lead
    <3>2. CASE Lead(q, t) \notin Sources(m)
      BY <1>2, <1>4, <3>2
    <3> QED BY <3>1, <3>2
  <2> QED BY <1>1, <2>1
<1>5. ASSUME \A u \in files[q].links : Lead(q, u) \notin Sources(m)
      PROVE  files'[q].links = files[q].links
  BY <1>1, <1>2, <1>5
<1> QED BY <1>3, <1>4, <1>5

\* A link of the concept at q leads to the new path of another concept at r
\* exactly if it led to r, or to nothing and leads there from q's new path.
LEMMA LeadsAfter ==
    ASSUME TypeOK, NEW m \in Batches, NEW expected, MoveBatch(m, expected),
           NEW q \in Path, Parsed(q), NEW u \in files[q].links,
           NEW r \in Path, Exists(r)
    PROVE  Lead(To(m, q), After(m, q, u)) = To(m, r) <=>
              \/ Lead(q, u) = r
              \/ ~Occupied(Lead(q, u)) /\ Lead(To(m, q), u) = To(m, r)
<1>1. CASE Occupied(Lead(q, u))
  <2>1. Lead(To(m, q), After(m, q, u)) = To(m, Lead(q, u))
    BY <1>1, AfterLeads
  <2>2. Lead(q, u) \in Path /\ Exists(Lead(q, u))
    BY <1>1 DEF Occupied
  <2>3. To(m, Lead(q, u)) = To(m, r) <=> Lead(q, u) = r
    BY <2>2, ToIsInjective DEF MoveBatch
  <2> QED BY <1>1, <2>1, <2>3
<1>2. CASE ~Occupied(Lead(q, u))
  <2>1. After(m, q, u) = u
    BY <1>2, AfterLeads
  <2>2. Lead(q, u) # r
    BY <1>2 DEF Occupied
  <2> QED BY <1>2, <2>1, <2>2
<1> QED BY <1>1, <1>2

\* What is listed at the path a concept has after the move.
LEMMA MoveForetold ==
    ASSUME TypeOK, NEW m \in Batches, NEW expected, MoveBatch(m, expected),
           NEW r \in Concepts
    PROVE  LinkInfo(To(m, r))'.inbound =
              {To(m, q) : q \in LinkInfo(r).inbound \union Awaiting(m, r)}
<1>1. r \in Path /\ Parsed(r) /\ Exists(r)
  BY DEF Concepts, Parsed
<1> DEFINE at == To(m, r)
           Linking(q) == /\ Parsed(q) /\ q # r
                         /\ \E u \in files[q].links :
                               \/ Lead(q, u) = r
                               \/ ~Occupied(Lead(q, u)) /\ Lead(To(m, q), u) = at
<1>2. Exists(at)'
  BY <1>1, MoveCarries DEF Exists
<1>3. ASSUME NEW q
      PROVE  q \in LinkInfo(r).inbound \union Awaiting(m, r) <=> q \in Path /\ Linking(q)
  <2>1. q \in Awaiting(m, r) <=>
           /\ q \in Path /\ Parsed(q) /\ q # r
           /\ \E u \in files[q].links : ~Occupied(Lead(q, u)) /\ Lead(To(m, q), u) = at
    BY ValidMeans DEF Awaiting, Concepts, BrokenLinks, Parsed
  <2> QED BY <1>1, <2>1, InboundAtFile
<1>4. ASSUME NEW q \in Path, Parsed(q)
      PROVE  To(m, q) = at <=> q = r
  BY <1>1, <1>4, ToIsInjective DEF MoveBatch, Parsed
<1>5. ASSUME NEW q \in Path, Parsed(q)
      PROVE  (\E t \in files'[To(m, q)].links : Lead(To(m, q), t) = at) <=>
                \E u \in files[q].links :
                   Lead(q, u) = r \/ (~Occupied(Lead(q, u)) /\ Lead(To(m, q), u) = at)
  <2>1. files'[To(m, q)].links = {After(m, q, u) : u \in files[q].links}
    BY <1>5, MoveCarries DEF Parsed
  <2>2. \A u \in files[q].links :
           Lead(To(m, q), After(m, q, u)) = at <=>
              \/ Lead(q, u) = r
              \/ ~Occupied(Lead(q, u)) /\ Lead(To(m, q), u) = at
    BY <1>1, <1>5, LeadsAfter
  <2> QED BY <2>1, <2>2
<1>6. ASSUME NEW s
      PROVE  s \in LinkInfo(at)'.inbound <=>
                /\ s \in Path /\ s # at /\ Parsed(s)'
                /\ \E t \in files'[s].links : Lead(s, t) = at
  <2>1. Resolve(at)' = at
    BY <1>2 DEF Resolve, Exists, To, Sources
  <2>2. LinkInfo(at)'.inbound = Inbound(at)'
    BY <2>1 DEF LinkInfo
  <2> HIDE DEF at
  <2> QED BY <2>2 DEF Inbound, Concepts, LeadsOf, Lead
<1>7. ASSUME NEW s \in Path, Parsed(s)'
      PROVE  \E q \in Path : Parsed(q) /\ s = To(m, q)
  <2>1. PICK q \in Path : Exists(q) /\ s = To(m, q)
    BY <1>7, MoveComesFrom DEF Parsed, Exists
  <2> QED BY <1>7, <2>1, MoveCarries DEF Parsed
<1>8. ASSUME NEW q \in Path, Parsed(q)
      PROVE  To(m, q) \in Path /\ Parsed(To(m, q))'
  BY <1>8, MoveCarries DEF Parsed, Exists
<1> HIDE DEF at
<1>9. ASSUME NEW s
      PROVE  s \in LinkInfo(at)'.inbound <=> \E q \in Path : Linking(q) /\ s = To(m, q)
  BY <1>4, <1>5, <1>6, <1>7, <1>8
<1> HIDE DEF Linking
<1>10. LinkInfo(at)'.inbound = {To(m, q) : q \in LinkInfo(r).inbound \union Awaiting(m, r)}
  BY <1>3, <1>9
<1> QED BY <1>10 DEF at

\* What kb_links lists before a batch move is what the move rewrites, and
\* what it lists afterwards, of any concept, is what it listed before, moved
\* along, and the broken links that now lead somewhere.
THEOREM LinksForetellMoves == Spec => InboundForetellsMove
<1> DEFINE Kept == \A m \in Batches :
          (\E expected \in [Sources(m) -> {0}] : MoveBatch(m, expected)) =>
             /\ \A q \in Concepts \ Sources(m) :
                   (files'[q].links # files[q].links)
                      <=> \E p \in Sources(m) : q \in LinkInfo(p).inbound
             /\ \A r \in Concepts :
                   LinkInfo(To(m, r))'.inbound =
                      {To(m, q) : q \in LinkInfo(r).inbound \union Awaiting(m, r)}
<1>1. TypeOK /\ [Next]_vars => [Kept]_vars
  <2> SUFFICES ASSUME TypeOK, NEW m \in Batches, NEW expected, MoveBatch(m, expected)
               PROVE  /\ \A q \in Concepts \ Sources(m) :
                            (files'[q].links # files[q].links)
                               <=> \E p \in Sources(m) : q \in LinkInfo(p).inbound
                      /\ \A r \in Concepts :
                            LinkInfo(To(m, r))'.inbound =
                               {To(m, q) : q \in LinkInfo(r).inbound \union Awaiting(m, r)}
    OBVIOUS
  <2>1. \A q \in Concepts \ Sources(m) : q \in Path /\ Parsed(q) /\ q \notin Sources(m)
    BY DEF Concepts
  <2> QED BY <2>1, MoveRewrites, MoveForetold
<1>2. Spec => []TypeOK
  BY TypeCorrect
<1>3. InboundForetellsMove <=> [][Kept]_vars
  BY DEF InboundForetellsMove
<1> HIDE DEF Kept
<1> QED BY <1>1, <1>2, <1>3, PTL DEF Spec

-----------------------------------------------------------------------------
(* Histories stay reachable.                                               *)

LEMMA WritesKeepSnaps ==
    ASSUME TypeOK, [Next]_vars
    PROVE  \/ \E m \in Batches : \E expected : MoveBatch(m, expected)
           \/ \A q \in Path : \A v \in Versions(q) : snaps'[q][v] = snaps[q][v]
<1> DEFINE Kept == \A q \in Path : \A v \in Versions(q) : snaps'[q][v] = snaps[q][v]
<1>1. UNCHANGED snaps => Kept
  OBVIOUS
<1>2. ASSUME NEW p \in Path, NEW links, NEW expected,
             \/ SnapshotFails(p, links, expected)
             \/ \E aliases \in Authored(p) :
                   \/ Update(p, links, aliases, expected)
                   \/ UpdateFails(p, links, aliases, expected)
      PROVE  Kept
  <2>1. PICK c : snaps' = [snaps EXCEPT ![p] = [snaps[p] EXCEPT ![ConceptVersion(p)] = c]]
    BY <1>2 DEF SnapshotFails, Update, UpdateFails, Snapshotted
  <2>2. ASSUME NEW q \in Path, NEW v \in Versions(q)
        PROVE  snaps'[q][v] = snaps[q][v]
    <3>1. CASE q # p
      BY <2>1, <3>1 DEF TypeOK
    <3>2. CASE q = p
      <4>1. v \in Version /\ v # ConceptVersion(p)
        BY <3>2, ConceptVersionIsNext DEF Versions, Version
      <4> QED BY <2>1, <3>2, <4>1 DEF TypeOK
    <3> QED BY <3>1, <3>2
  <2> QED BY <2>2
<1> HIDE DEF Kept
<1>3. ASSUME NEW i, NEW p, NEW links, Create(i, p, links) \/ CreateFails(i, p, links)
      PROVE  Kept
  BY <1>1, <1>3 DEF Create, CreateFails
<1>4. ASSUME NEW m, NEW expected, MoveFails(m, expected)
      PROVE  Kept
  BY <1>1, <1>4 DEF MoveFails
<1>5. UNCHANGED vars => Kept
  BY <1>1 DEF vars
<1>6. Kept \/ \E m \in Batches : \E expected : MoveBatch(m, expected)
  BY <1>2, <1>3, <1>4, <1>5 DEF Next, AnyCreate, AnyUpdate, AnyMove, AnyFailure
<1> QED BY <1>6 DEF Kept

LEMMA MoveKeepsSnaps ==
    ASSUME TypeOK, NEW m \in Batches, NEW expected, MoveBatch(m, expected),
           NEW o \in Path, Exists(o), NEW v \in Versions(o)
    PROVE  snaps'[To(m, o)][v] = snaps[o][v]
<1>1. CanMove(m, expected) /\ snaps' = SnapsAfter(m)
  BY DEF MoveBatch
<1>2. To(m, o) \in Path /\ v \in Version
  BY MoveCarries DEF Versions
<1>3. v # ConceptVersion(o)
  BY ConceptVersionIsNext, <1>2 DEF Version
<1>4. Snapshotted(o)[v] = snaps[o][v]
  BY <1>2, <1>3 DEF Snapshotted, TypeOK
<1>5. CASE o \in Sources(m)
  <2>1. To(m, o) \in Targets(m) /\ Origin(m, To(m, o)) = o
    BY <1>5, BatchShape DEF To
  <2> QED BY <1>1, <1>2, <1>4, <2>1 DEF SnapsAfter
<1>6. CASE o \notin Sources(m)
  <2>1. To(m, o) = o /\ o \notin Targets(m)
    BY <1>1, <1>6, BatchShape DEF To, CanMove
  <2> QED BY <1>1, <1>4, <1>6, <2>1 DEF SnapsAfter
<1> QED BY <1>5, <1>6

\* Where a path leads after a step.
LEMMA StillLeads ==
    ASSUME NEW p, NEW r, NEW s, Resolve(p) = r, Resolve(p)' = s, s \in Path,
           \A v \in Versions(r) : snaps'[s][v] = snaps[r][v]
    PROVE  \A v \in History(p) : v \in History(p)' /\ Diff(p, v)'.version = Diff(p, v).version
  BY DEF History, Diff, Versions

LEMMA LeadsByAlias ==
    ASSUME AliasesUnambiguous, NEW p \in Path, ~Exists(p), NEW i, LeadsTo(p, i)
    PROVE  /\ Resolve(p) \in Path /\ Parsed(Resolve(p)) /\ files[Resolve(p)].id = i
           /\ Holders(p) = {Resolve(p)}
<1>1. Holders(p) # {} /\ Resolve(p) = AliasHolder(p)
  BY DEF LeadsTo, Resolve, Parsed
<1>2. AliasHolder(p) \in Holders(p)
  BY <1>1, AliasHolderHolds
<1>3. Holders(p) = {AliasHolder(p)}
  BY <1>2 DEF AliasesUnambiguous
<1> QED BY <1>1, <1>2, <1>3 DEF Holders, LeadsTo

LEMMA WriteKeepsResolve ==
    ASSUME TypeOK, TypeOK', UnreadableHasNone, AliasesUnambiguous,
           NEW c \in Path, NEW f \in File, Created(c, f) \/ Rewritten(c, f),
           NEW p \in Path, NEW i \in Id, LeadsTo(p, i), HomeOf(i)' # {},
           Exists(p) \/ ~Exists(p)'
    PROVE  Resolve(p)' = Resolve(p)
<1>1. files' = [files EXCEPT ![c] = f] /\ f # None
  BY NoneAssumption DEF Created, Rewritten
<1>2. CASE Exists(p)
  <2>1. Exists(p)'
    BY <1>1, <1>2 DEF TypeOK, Exists
  <2> QED BY <1>2, <2>1 DEF Resolve
<1>3. CASE ~Exists(p)
  <2> DEFINE r == Resolve(p)
  <2>1. r \in Path /\ Parsed(r) /\ files[r].id = i /\ Holders(p) = {r}
    BY <1>3, LeadsByAlias
  <2> HIDE DEF r
  <2>2. Holders(p)' \subseteq Holders(p)
    BY <1>1, WriteAddsNoHolder DEF Created, Rewritten
  <2>3. r \in Holders(p)'
    <3>1. CASE c # r
      BY <1>1, <2>1, <3>1 DEF Holders, Parsed, Exists, TypeOK
    <3>2. CASE c = r
      <4>1. Rewritten(r, f) /\ files'[r] = f /\ f.id = i
        BY <1>1, <2>1, <3>2 DEF Created, Rewritten, Parsed, TypeOK
      <4>2. PICK q \in Path : Parsed(q)' /\ files'[q].id = i
        BY DEF HomeOf
      <4>3. q = r
        BY <1>1, <2>1, <4>1, <4>2 DEF TypeOK, Parsed, Exists
      <4>4. f.parses /\ f.aliases = files[r].aliases
        BY <4>1, <4>2, <4>3 DEF Rewritten, Parsed
      <4> QED BY <1>1, <2>1, <4>1, <4>4 DEF Holders, Parsed, Exists
    <3> QED BY <3>1, <3>2
  <2>4. Holders(p)' = {r}
    BY <2>1, <2>2, <2>3
  <2>5. AliasHolder(p)' = r
    BY <2>1, <2>4, PathAssumption DEF AliasHolder
  <2> QED BY <1>3, <2>4, <2>5 DEF Resolve, r
<1> QED BY <1>2, <1>3

LEMMA MoveKeepsResolve ==
    ASSUME TypeOK, AliasesUnambiguous, NEW m \in Batches, NEW expected, MoveBatch(m, expected),
           \A o, q \in Sources(m) : o # q => q \notin files[o].aliases,
           NEW p \in Path, NEW i \in Id, LeadsTo(p, i), Exists(p) \/ ~Exists(p)'
    PROVE  Resolve(p)' = To(m, Resolve(p))
<1>1. CASE Exists(p)
  <2>1. Resolve(p) = p
    BY <1>1 DEF Resolve
  <2>2. CASE p \in Sources(m)
    BY <2>1, <2>2, FormerPathResolves DEF To
  <2>3. CASE p \notin Sources(m)
    <3>1. Exists(p)'
      BY <1>1, <2>3, ExistsAfterMove
    <3> QED BY <2>1, <2>3, <3>1 DEF Resolve, To
  <2> QED BY <2>2, <2>3
<1>2. CASE ~Exists(p)
  <2> DEFINE r == Resolve(p)
  <2>1. r \in Path /\ Parsed(r) /\ Holders(p) = {r}
    BY <1>2, LeadsByAlias
  <2> HIDE DEF r
  <2>2. p \notin Sources(m) /\ p \notin Targets(m)
    BY <1>2, ExistsAfterMove DEF MoveBatch, CanMove, Parsed
  <2>3. ASSUME NEW s
        PROVE  s \in Holders(p)' <=> s = To(m, r)
    <3>1. ASSUME s \in Holders(p)' PROVE s = To(m, r)
      <4>1. PICK o \in Path :
               /\ Parsed(o) /\ s = To(m, o)
               /\ IF o \in Sources(m) THEN p # m[o] /\ (p = o \/ o \in Holders(p))
                  ELSE p \notin Stale(m) /\ o \in Holders(p)
        BY <3>1, HoldersAfterMove
      <4>2. o \in Holders(p)
        BY <2>2, <4>1
      <4> QED BY <2>1, <4>1, <4>2
    <3>2. To(m, r) \in Holders(p)'
      <4>1. p \notin Stale(m) /\ (r \in Sources(m) => p # m[r])
        BY <2>2, BatchShape DEF Stale
      <4> QED BY <2>1, <4>1, HoldersAfterMove
    <3> QED BY <3>1, <3>2
  <2>4. Holders(p)' = {To(m, r)}
    BY <2>3
  <2>5. To(m, r) \in Path
    BY <2>1, MoveCarries DEF Parsed
  <2>6. AliasHolder(p)' = To(m, r)
    BY <2>4, <2>5, PathAssumption DEF AliasHolder
  <2> QED BY <1>2, <2>4, <2>6 DEF Resolve, r
<1> QED BY <1>1, <1>2

\* Whatever kb_history and kb_diff show of a concept at one of its former
\* paths they still show after every create, update and single move, failing
\* ones included, while the concept can be read and no file takes the path.
THEOREM HistoriesStayReachable ==
    ASSUME MaxBatch = 1, AliasSets = {}
    PROVE  Spec /\ AliasesUnambiguous => FormerPathsKeepHistory
<1> DEFINE Shown(p) == \A v \in History(p) :
              v \in History(p)' /\ Diff(p, v)'.version = Diff(p, v).version
           Kept == \A p \in Path, i \in Id :
              /\ LeadsTo(p, i) /\ HomeOf(i)' # {}
              /\ Exists(p) \/ ~Exists(p)'
              => \A v \in History(p) :
                    v \in History(p)' /\ Diff(p, v)'.version = Diff(p, v).version
           Inv == TypeOK /\ UnreadableHasNone /\ AliasesUnambiguous
<1>1. Inv /\ TypeOK' /\ [Next]_vars => [Kept]_vars
  <2> SUFFICES ASSUME TypeOK, UnreadableHasNone, AliasesUnambiguous, TypeOK', [Next]_vars,
                      NEW p \in Path, NEW i \in Id, LeadsTo(p, i), HomeOf(i)' # {},
                      Exists(p) \/ ~Exists(p)'
               PROVE  Shown(p)
    OBVIOUS
  <2>1. Resolve(p) \in Path /\ Exists(Resolve(p))
    <3>1. CASE Exists(p)
      BY <3>1 DEF Resolve
    <3>2. CASE ~Exists(p)
      BY <3>2, LeadsByAlias DEF Parsed
    <3> QED BY <3>1, <3>2
  <2>2. ASSUME NEW m \in Batches, NEW expected, MoveBatch(m, expected)
        PROVE  Shown(p)
    <3>1. \A o, q \in Sources(m) : o = q
      BY SingleMove
    <3>2. Resolve(p)' = To(m, Resolve(p))
      BY <2>2, <3>1, MoveKeepsResolve
    <3>3. To(m, Resolve(p)) \in Path
      BY <2>1, <2>2, MoveCarries
    <3>4. \A v \in Versions(Resolve(p)) :
             snaps'[To(m, Resolve(p))][v] = snaps[Resolve(p)][v]
      BY <2>1, <2>2, MoveKeepsSnaps
    <3> QED BY <3>2, <3>3, <3>4, StillLeads
  <2>3. ASSUME \A q \in Path : \A v \in Versions(q) : snaps'[q][v] = snaps[q][v],
               UNCHANGED files \/ \E c \in Path, f \in File : Created(c, f) \/ Rewritten(c, f)
        PROVE  Shown(p)
    <3>1. Resolve(p)' = Resolve(p)
      <4>1. UNCHANGED files => Resolve(p)' = Resolve(p)
        BY DEF Resolve, AliasHolder, Holders, Parsed, Exists
      <4> QED BY <2>3, <4>1, WriteKeepsResolve
    <3> QED BY <2>1, <2>3, <3>1, StillLeads
  <2> HIDE DEF Shown
  <2> QED BY <2>2, <2>3, StepKinds, WritesKeepSnaps
<1>2. Spec => []TypeOK
  BY TypeCorrect
<1>3. FormerPathsKeepHistory <=> [][Kept]_vars
  BY DEF FormerPathsKeepHistory
<1>4. Spec /\ AliasesUnambiguous => []UnreadableHasNone
  <2>1. Init => UnreadableHasNone
    BY InitUnreadable
  <2>2. TypeOK /\ UnreadableHasNone /\ [Next]_vars => UnreadableHasNone'
    BY NextUnreadable
  <2> QED BY <1>2, <2>1, <2>2, PTL DEF Spec
<1>5. Spec /\ AliasesUnambiguous => []AliasesUnambiguous
  BY SingleMovesKeepUnambiguous
<1> HIDE DEF Kept
<1> QED BY <1>1, <1>2, <1>3, <1>4, <1>5, PTL DEF Spec
=============================================================================
