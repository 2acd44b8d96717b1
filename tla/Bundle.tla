------------------------------- MODULE Bundle -------------------------------
(***************************************************************************)
(* The file bundle of internal/bundle: a directory of concept files and,   *)
(* beside it, the .versions directory holding a snapshot of every version  *)
(* a write replaced.  Every operation below runs under Bundle.mu, so it is *)
(* one step; MoveApply opens the move up into its file operations.         *)
(*                                                                         *)
(* A file is reduced to what the operations look at: whether it parses as  *)
(* a concept, the targets of its markdown links and its `aliases` list.    *)
(* `id` is a ghost: the concept a Create (or the initial bundle) brought   *)
(* into being, which the code never stores.  The properties use it to say  *)
(* whose history and whose links these are.                                *)
(*                                                                         *)
(* Paths are numbered in the order filepath.Walk visits them.  A target in *)
(* canonical form is the path it leads to; any other one, a relative one   *)
(* say, leads where the directory of the file it stands in makes it lead.  *)
(***************************************************************************)
EXTENDS Naturals, FiniteSets, Sequences

CONSTANTS
    Path,        \* concept paths that ValidatePath accepts
    Loose,       \* link targets that are not in canonical form
    LooseLead,   \* path -> loose target -> where it leads from there
    Covered,     \* targets a text holds in code, which a cut may uncover
    Id,          \* ghost identities
    None,        \* no file, no snapshot
    MaxVersion,  \* bound on snapshot numbers
    Above,       \* Above[p]: paths whose snapshot directory contains p's
    Seed,        \* the files the server starts with
    LinkSets,    \* what an author may link to
    AliasSets,   \* aliases an author may write besides the current ones
    MaxBatch,    \* moves in one batch
    DiskFaults   \* whether file operations may fail

ASSUME PathAssumption == Path \subseteq Nat
\* The file system bounds the length of a path.
ASSUME FiniteAssumption == IsFiniteSet(Path)
ASSUME VersionAssumption == MaxVersion \in Nat

Version == 1..MaxVersion

Target == Path \union Loose

File == [id : Id, parses : BOOLEAN, links : SUBSET Target, aliases : SUBSET Path]

\* What a loose target leads to is a concept path or nothing of the bundle's.
ASSUME TargetAssumption ==
    /\ Path \intersect Loose = {}
    /\ LooseLead \in [Path -> [Loose -> Target]]
    /\ Covered \subseteq Target
ASSUME NoneAssumption == None \notin File /\ None \notin Path
ASSUME SeedAssumption ==
    /\ Seed \in [Path -> File \union {None}]
    /\ \A p, q \in Path :
          Seed[p] # None /\ Seed[q] # None /\ Seed[p].id = Seed[q].id => p = q
\* The aliases of a file are those its frontmatter parses to.
ASSUME UnparsedAssumption ==
    \A p \in Path : Seed[p] # None /\ ~Seed[p].parses => Seed[p].aliases = {}
ASSUME AuthorAssumption ==
    /\ LinkSets \subseteq SUBSET Target
    /\ AliasSets \subseteq SUBSET Path
    /\ Above \in [Path -> SUBSET Path]
    /\ DiskFaults \in BOOLEAN
\* A directory in a directory is in all that contain the latter.
ASSUME NestingAssumption == \A p \in Path : \A d \in Above[p] : Above[d] \subseteq Above[p]

VARIABLES
    files,    \* path -> the file there, or None
    snaps,    \* path -> snapshot number -> the snapshotted file, or None
    verDirs   \* paths whose snapshot directory exists

vars == <<files, snaps, verDirs>>

NoHistory == [v \in Version |-> None]

-----------------------------------------------------------------------------
(* Lookups.                                                                *)

Exists(p) == files[p] # None

Parsed(p) == Exists(p) /\ files[p].parses

Versions(p) == {v \in Version : snaps[p][v] # None}

\* Mutant: a concept's first snapshot is numbered 2.
CountFromTwo(p) ==
    IF Versions(p) = {} THEN 2
    ELSE 1 + CHOOSE v \in Versions(p) : \A w \in Versions(p) : w <= v

\* One more than the highest snapshot, or 1 without any.
ConceptVersion(p) ==
    IF Versions(p) = {} THEN 1
    ELSE 1 + CHOOSE v \in Versions(p) : \A w \in Versions(p) : w <= v

Holders(a) == {q \in Path : Parsed(q) /\ a \in files[q].aliases}

\* The lexically first holder wins.
AliasHolder(a) == CHOOSE q \in Holders(a) : \A r \in Holders(a) : q <= r

\* A file at p wins, then the alias holder, else p itself.
Resolve(p) ==
    IF ~Exists(p) /\ Holders(p) # {} THEN AliasHolder(p) ELSE p

\* Where a link with target t leads that stands in the file at p.
Lead(p, t) == IF t \in Path THEN t ELSE LooseLead[p][t]

ValidTarget(p, r) == r \in Path /\ (r = p \/ Exists(r))

BrokenLinks(p, links) == {t \in links : ~ValidTarget(p, Lead(p, t))}

\* Links of a write to p: canonical, with aliases followed to the current
\* path.  A link that leads nowhere stays as it was written.
Normalized(p, links) ==
    {LET r == Lead(p, t)
     IN  IF ValidTarget(p, r) THEN r ELSE IF Holders(r) # {} THEN AliasHolder(r) ELSE t :
        t \in links}

\* Mutant: broken links only warn.
WarnOnly(p, prevLinks, links) == TRUE

\* Only links the previous version of the file already had may be broken.
LinksAccepted(p, prevLinks, links) ==
    \A t \in BrokenLinks(p, Normalized(p, links)) : Lead(p, t) \in prevLinks

LeadsOf(p) == {Lead(p, t) : t \in files[p].links}

PrevLinks(p) == IF Parsed(p) THEN LeadsOf(p) ELSE {}

UsedIds == {files[p].id : p \in {q \in Path : Exists(q)}}

MakeDirs(dirs) == verDirs \union dirs \union UNION {Above[p] : p \in dirs}

-----------------------------------------------------------------------------
(* Create and Update.                                                      *)

\* What a write of file c may leave behind when it fails half way: nothing
\* that parses, or a beginning of it.  Cut before the backtick that closes a
\* code span, or within a longer target, it has links that c has not.
Torn(c) ==
    {[c EXCEPT !.parses = FALSE, !.links = {}, !.aliases = {}]}
        \union {[c EXCEPT !.links = ls] : ls \in SUBSET (c.links \union Covered)}

Fresh(i, p, links) ==
    [id |-> i, parses |-> TRUE, links |-> Normalized(p, links), aliases |-> {}]

CanCreate(i, p, links) ==
    /\ i \in Id \ UsedIds
    /\ ~Exists(p)
    /\ LinksAccepted(p, {}, links)

Create(i, p, links) ==
    /\ CanCreate(i, p, links)
    /\ files' = [files EXCEPT ![p] = Fresh(i, p, links)]
    /\ UNCHANGED <<snaps, verDirs>>

\* The write fails: an empty or truncated file stays at the path.
CreateFails(i, p, links) ==
    /\ DiskFaults
    /\ CanCreate(i, p, links)
    /\ \E c \in Torn(Fresh(i, p, links)) : files' = [files EXCEPT ![p] = c]
    /\ UNCHANGED <<snaps, verDirs>>

Edited(p, links, aliases) ==
    [id |-> files[p].id, parses |-> TRUE,
     links |-> Normalized(p, links), aliases |-> aliases]

Snapshotted(p) == [snaps[p] EXCEPT ![ConceptVersion(p)] = files[p]]

\* Mutant: the expected version is not compared.
AnyVersion(p, links, expected) ==
    /\ Exists(p)
    /\ LinksAccepted(p, PrevLinks(p), links)
    /\ ConceptVersion(p) <= MaxVersion

\* expected = 0 skips the optimistic concurrency check.
CanUpdate(p, links, expected) ==
    /\ Exists(p)
    /\ expected > 0 => expected = ConceptVersion(p)
    /\ LinksAccepted(p, PrevLinks(p), links)
    /\ ConceptVersion(p) <= MaxVersion

\* Mutant: the snapshot is taken after the file is written.
WriteThenSnapshot(p, links, aliases, expected) ==
    /\ CanUpdate(p, links, expected)
    /\ files' = [files EXCEPT ![p] = Edited(p, links, aliases)]
    /\ snaps' = [snaps EXCEPT ![p][ConceptVersion(p)] = Edited(p, links, aliases)]
    /\ verDirs' = MakeDirs({p})

Update(p, links, aliases, expected) ==
    /\ CanUpdate(p, links, expected)
    /\ snaps' = [snaps EXCEPT ![p] = Snapshotted(p)]
    /\ verDirs' = MakeDirs({p})
    /\ files' = [files EXCEPT ![p] = Edited(p, links, aliases)]

\* The snapshot cannot be written in full: the file is left alone.
SnapshotFails(p, links, expected) ==
    /\ DiskFaults
    /\ CanUpdate(p, links, expected)
    /\ \E c \in {None} \union Torn(files[p]) :
          snaps' = [snaps EXCEPT ![p][ConceptVersion(p)] = c]
    /\ verDirs' = MakeDirs({p})
    /\ UNCHANGED files

\* Mutant: the file is overwritten before its snapshot exists.
WriteFirst(p, links, aliases, expected) ==
    /\ DiskFaults
    /\ CanUpdate(p, links, expected)
    /\ \E c \in Torn(Edited(p, links, aliases)) : files' = [files EXCEPT ![p] = c]
    /\ UNCHANGED <<snaps, verDirs>>

\* The snapshot is written, the file is not, or only in part.
UpdateFails(p, links, aliases, expected) ==
    /\ DiskFaults
    /\ CanUpdate(p, links, expected)
    /\ snaps' = [snaps EXCEPT ![p] = Snapshotted(p)]
    /\ verDirs' = MakeDirs({p})
    /\ \E c \in {files[p]} \union Torn(Edited(p, links, aliases)) :
          files' = [files EXCEPT ![p] = c]

-----------------------------------------------------------------------------
(* Batch moves.  A batch is a function m from source to target paths.      *)

Sources(m) == DOMAIN m
Targets(m) == {m[p] : p \in DOMAIN m}
Origin(m, q) == CHOOSE p \in DOMAIN m : m[p] = q

\* No duplicate target, no move in place, no chain and no swap.
Batches ==
    {m \in UNION {[S -> Path] : S \in (SUBSET Path) \ {{}}} :
        /\ Cardinality(Sources(m)) <= MaxBatch
        /\ \A p, q \in Sources(m) : m[p] = m[q] => p = q
        /\ Sources(m) \intersect Targets(m) = {}}

\* Aliases no concept but a moved one may hold afterwards.
Stale(m) == Sources(m) \union Targets(m)

\* Where the concept at p is after the batch.
To(m, p) == IF p \in Sources(m) THEN m[p] ELSE p

\* Links of another concept, at p: those to moved concepts are rewritten.
Retarget(m, p, links) ==
    {IF Lead(p, t) \in Sources(m) THEN m[Lead(p, t)] ELSE t : t \in links}

\* Links of a moved concept: those to any concept are pinned to its path, a
\* broken one keeps its target and may lead elsewhere from the new directory.
Pinned(m, p, links) ==
    {IF ValidTarget(p, Lead(p, t)) THEN To(m, Lead(p, t)) ELSE t : t \in links}

\* Mutant: only concepts with stale aliases are rewritten.
AliasesOnly(m) ==
    {q \in Path \ Sources(m) : Parsed(q) /\ files[q].aliases \intersect Stale(m) # {}}

\* Other concepts whose links or stale aliases are rewritten.
Relinked(m) ==
    {q \in Path \ Sources(m) :
        /\ Parsed(q)
        /\ \/ LeadsOf(q) \intersect Sources(m) # {}
           \/ files[q].aliases \intersect Stale(m) # {}}

CanMove(m, expected) ==
    /\ \A p \in Sources(m) :
          /\ Parsed(p)
          /\ ~Exists(m[p])
          /\ m[p] \notin verDirs
          /\ expected[p] > 0 => expected[p] = ConceptVersion(p)
    /\ \A p \in Sources(m) \union Relinked(m) : ConceptVersion(p) <= MaxVersion

\* Mutant: a moved concept's links to concepts moved with it stay behind.
NotRetargeted(m, p) ==
    [files[p] EXCEPT !.aliases = (@ \union {p}) \ {m[p]}]

\* Mutant: only the last former path of a concept is recorded.
LatestOnly(m, p) ==
    [files[p] EXCEPT !.links = Pinned(m, p, @), !.aliases = {p}]

\* Mutant: the old path is not recorded.
Forgetful(m, p) ==
    [files[p] EXCEPT !.links = Pinned(m, p, @)]

MovedFile(m, p) ==
    [files[p] EXCEPT !.links = Pinned(m, p, @), !.aliases = (@ \union {p}) \ {m[p]}]

\* Mutant: other concepts keep their stale aliases.
StaleAliasKept(m, q) ==
    [files[q] EXCEPT !.links = Retarget(m, q, @)]

RelinkedFile(m, q) ==
    [files[q] EXCEPT !.links = Retarget(m, q, @), !.aliases = @ \ Stale(m)]

\* Mutant: a file is copied to its new path.
FilesCopied(m) ==
    [q \in Path |->
        IF q \in Targets(m) THEN MovedFile(m, Origin(m, q))
        ELSE IF q \in Relinked(m) THEN RelinkedFile(m, q)
        ELSE files[q]]

FilesAfter(m) ==
    [q \in Path |->
        IF q \in Targets(m) THEN MovedFile(m, Origin(m, q))
        ELSE IF q \in Sources(m) THEN None
        ELSE IF q \in Relinked(m) THEN RelinkedFile(m, q)
        ELSE files[q]]

\* Mutant: only the replaced version is kept under the new path.
SnapsDropped(m) ==
    [q \in Path |->
        IF q \in Targets(m)
        THEN [NoHistory EXCEPT ![ConceptVersion(Origin(m, q))] = files[Origin(m, q)]]
        ELSE IF q \in Sources(m) THEN NoHistory
        ELSE IF q \in Relinked(m) THEN Snapshotted(q)
        ELSE snaps[q]]

\* Mutant: the snapshots are copied, and stay under the old path too.
SnapsCopied(m) ==
    [q \in Path |->
        IF q \in Targets(m) THEN Snapshotted(Origin(m, q))
        ELSE IF q \in Relinked(m) THEN Snapshotted(q)
        ELSE snaps[q]]

SnapsAfter(m) ==
    [q \in Path |->
        IF q \in Targets(m) THEN Snapshotted(Origin(m, q))
        ELSE IF q \in Sources(m) THEN NoHistory
        ELSE IF q \in Relinked(m) THEN Snapshotted(q)
        ELSE snaps[q]]

\* Mutant: emptied snapshot directories are left behind.
DirsLeft(m) == MakeDirs(Targets(m) \union Relinked(m))

\* The snapshot directories of the sources, and their parents, go when empty.
DirsAfter(m) ==
    LET made    == MakeDirs(Targets(m) \union Relinked(m))
        emptied == Sources(m) \intersect verDirs
        tried   == emptied \union UNION {Above[p] : p \in emptied}
        Kept(d) == \/ d \notin tried
                   \/ SnapsAfter(m)[d] # NoHistory
    IN  {d \in made : \E e \in made : Kept(e) /\ (e = d \/ d \in Above[e])}

MoveBatch(m, expected) ==
    /\ CanMove(m, expected)
    /\ files' = FilesAfter(m)
    /\ snaps' = SnapsAfter(m)
    /\ verDirs' = DirsAfter(m)

\* A file operation fails and everything is put back, except that the
\* directories made for the targets' and the rewritten files' snapshots stay.
MoveFails(m, expected) ==
    /\ DiskFaults
    /\ CanMove(m, expected)
    /\ LET carried == {m[p] : p \in {q \in Sources(m) : Versions(q) # {}}}
       IN  \E made \in SUBSET (Targets(m) \union Relinked(m)) :
              /\ made \subseteq carried \/ carried \subseteq made
              /\ Targets(m) \subseteq made \/ made \subseteq Targets(m)
              /\ verDirs' = MakeDirs(made)
    /\ UNCHANGED <<files, snaps>>

-----------------------------------------------------------------------------
Init ==
    /\ files = Seed
    /\ snaps = [p \in Path |-> NoHistory]
    /\ verDirs = {}

Authored(p) == AliasSets \union (IF Exists(p) THEN {files[p].aliases} ELSE {})

AnyCreate == \E i \in Id, p \in Path, links \in LinkSets : Create(i, p, links)

AnyUpdate ==
    \E p \in Path, links \in LinkSets, expected \in 0..MaxVersion :
        \E aliases \in Authored(p) : Update(p, links, aliases, expected)

AnyMove ==
    \E m \in Batches : \E expected \in [Sources(m) -> 0..MaxVersion] :
        MoveBatch(m, expected)

AnyFailure ==
    \/ \E i \in Id, p \in Path, links \in LinkSets : CreateFails(i, p, links)
    \/ \E p \in Path, links \in LinkSets, expected \in 0..MaxVersion :
          \/ SnapshotFails(p, links, expected)
          \/ \E aliases \in Authored(p) : UpdateFails(p, links, aliases, expected)
    \/ \E m \in Batches : \E expected \in [Sources(m) -> 0..MaxVersion] :
          MoveFails(m, expected)

Next ==
    \/ AnyCreate
    \/ AnyUpdate
    \/ AnyMove
    \/ AnyFailure

Spec == Init /\ [][Next]_vars

-----------------------------------------------------------------------------
(* Correctness.                                                            *)

\* Every variable has its type, and no two paths hold the same concept.
TypeOK ==
    /\ files \in [Path -> File \union {None}]
    /\ snaps \in [Path -> [Version -> File \union {None}]]
    /\ verDirs \subseteq Path
    /\ \A p, q \in Path :
          Exists(p) /\ Exists(q) /\ files[p].id = files[q].id => p = q

\* The snapshots of a path are numbered 1..k without a gap, so version k+1
\* is the number of versions the concept has had: snapshots are written at
\* the number conceptVersion computes and carried whole by a move.
HistoryContiguous ==
    \A p \in Path : \A v \in Versions(p) : \A w \in 1..v : w \in Versions(p)

\* Every snapshot kept under a path is one of the concept living there:
\* moves leave no history behind for the next concept created at the path
\* to inherit (Create reports version 1) and never merge two histories.
HistoryBelongsToResident ==
    \A p \in Path : \A v \in Versions(p) :
        Exists(p) /\ snaps[p][v].id = files[p].id

\* A path no concept lives at has a snapshot directory only for what is
\* below it: moves clear away what they empty, or a later move to the path
\* would be refused ("version history already exists") for no reason.
NoStrayDirs ==
    \A p \in verDirs : Exists(p) \/ \E q \in verDirs : p \in Above[q] /\ Exists(q)

\* No two concepts hold the same alias: a former path leads to one concept.
AliasesUnambiguous == \A a \in Path : \A q, r \in Holders(a) : q = r

HomeOf(i) == {p \in Path : Parsed(p) /\ files[p].id = i}

\* The broken links of concept i, as written and what they lead to.
Broken(i) ==
    UNION {{[text |-> t, to |-> Lead(p, t)] : t \in BrokenLinks(p, files[p].links)} :
              p \in HomeOf(i)}

\* No write breaks a link.  Every link of a concept that is broken after a
\* create, an update (of a file that does not parse, too) or a move is one
\* that was broken in that concept before: it leads to the same path or, when
\* the concept moved to another directory, has the same target (checkLinks
\* rejects new broken links, moves retarget what they would break).  Only a
\* write that fails half way leaves others: links that the cut uncovered.
NoNewBrokenLinks ==
    [][\A i \in Id : \A l \in Broken(i)' :
          \/ \E k \in Broken(i) : k.text = l.text \/ k.to = l.to
          \/ l.text \in Covered /\ ~(AnyCreate \/ AnyUpdate \/ AnyMove)]_vars

\* The concepts that concept i links to.
Neighbours(i) ==
    {files[t].id : t \in {u \in UNION {LeadsOf(p) : p \in HomeOf(i)} :
                             u \in Path /\ Exists(u)}}

\* A batch move changes where concepts are, not what they link to: each
\* link still leads to the very concept it led to before.
LinksFollowConcepts ==
    [][AnyMove => \A i \in Id : Neighbours(i) \subseteq Neighbours(i)']_vars

\* After a batch move a read of an old path finds the concept that moved,
\* under its new path.
FormerPathsResolve ==
    [][\A m \in Batches :
          (\E expected \in [Sources(m) -> {0}] : MoveBatch(m, expected))
             => \A p \in Sources(m) : Resolve(p)' = m[p]]_vars

\* Everything concept i has said, oldest first, the current file last.
LogOf(i) ==
    LET here == {p \in Path : Exists(p) /\ files[p].id = i}
        p    == CHOOSE q \in here : TRUE
    IN  IF here = {} THEN << >>
        ELSE [n \in 1..ConceptVersion(p) |->
                IF n < ConceptVersion(p) THEN snaps[p][n] ELSE files[p]]

PlaceOf(i) ==
    LET here == {p \in Path : Exists(p) /\ files[p].id = i}
    IN  IF here = {} THEN None ELSE CHOOSE q \in here : TRUE

Abstract == INSTANCE Catalog WITH
    Concept <- Id, Place <- Path, Nowhere <- None,
    place <- [i \in Id |-> PlaceOf(i)],
    log <- [i \in Id |-> LogOf(i)]

\* The bundle keeps the catalog's promise: while file operations succeed,
\* every operation is one of the catalog's, on concepts and their logs.
CatalogKept == Abstract!Spec

\* Even when a file operation fails, no version of a concept is lost: every
\* snapshot stays as it is, and what the concept said last is either still
\* its file or snapshotted under its version number.
NoVersionLost ==
    [][\A log \in {[old |-> LogOf(i), new |-> LogOf(i)'] : i \in Id} :
          LET n == Len(log.old)
          IN  n > 0 => /\ \A k \in 1..(n - 1) :
                              k \in DOMAIN log.new /\ log.new[k] = log.old[k]
                       /\ log.old[n] \in {log.new[k] : k \in DOMAIN log.new}]_vars
=============================================================================
