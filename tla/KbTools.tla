------------------------------ MODULE KbTools -------------------------------
(***************************************************************************)
(* The MCP tool handlers of internal/tools over one bundle and one search  *)
(* index.  Every request runs in a goroutine of its own; the bundle's lock *)
(* and the index's lock are taken and released separately, so a handler is *)
(* the sequence of steps between which other handlers run:                 *)
(*                                                                         *)
(*   kb_update  Bundle.Read, then Bundle.Update, then Index.Add            *)
(*   kb_create  Bundle.Create, then Index.Add                              *)
(*   kb_move    Bundle.MoveBatch, then Index.Remove and Index.Add for each *)
(*              moved concept and Index.Add for each rewritten one         *)
(*                                                                         *)
(* A document is a file and the type in its frontmatter, which the         *)
(* handlers check against the folder (Registry).  The hooks that start the *)
(* S3 upload are modelled in Server.                                       *)
(***************************************************************************)
EXTENDS Bundle, Registry

CONSTANTS
    Session,    \* clients, each with at most one request in flight
    MayMove,    \* whether any of them calls kb_move
    Versioned,  \* whether updates always pass the version of a kb_read
    Requests,   \* types a client may ask for: {} or {name}
    SeedTypes   \* path -> type in the frontmatter of the file there

ASSUME RequestAssumption ==
    /\ Requests \subseteq {{}} \union {{n} : n \in Name}
    /\ SeedTypes \in [Path -> Name]
    /\ FolderOf \in [Path -> Folder]

VARIABLES
    types,   \* path -> type of the file there, as far as there is one
    index,   \* path -> the indexed document, or None
    seen,    \* session -> its last kb_read: path, version and content
    work,    \* session -> its kb_update between Read and Update, or None
    todo     \* session -> index operations its request still has to do

bundleVars == <<files, snaps, verDirs, types>>
toolVars == <<bundleVars, index, seen, work, todo>>

Document == [file : File, type : Name]

ASSUME DocumentAssumption == None \notin Document

Doc(p) == [file |-> files[p], type |-> types[p]]

IndexOp == [path : Path, entry : Document \union {None}]

\* A document is indexed as the handler has just written it.
Add(p) == [path |-> p, entry |-> [file |-> files'[p], type |-> types'[p]]]
Remove(p) == [path |-> p, entry |-> None]

Idle(s) == work[s] = None /\ todo[s] = << >>

-----------------------------------------------------------------------------
\* Reads follow aliases and report the current path and version.
KbRead(s, p) ==
    /\ Idle(s)
    /\ Parsed(Resolve(p))
    /\ seen' = [seen EXCEPT ![s] =
          [path |-> Resolve(p), version |-> ConceptVersion(Resolve(p)),
           doc |-> Doc(Resolve(p))]]
    /\ UNCHANGED <<bundleVars, index, work, todo>>

\* Mutant: the new concept is not indexed.
Unindexed(p) == << >>

CreateTodo(p) == <<Add(p)>>

KbCreate(s, i, p, links, requested) ==
    /\ Idle(s)
    /\ Resolves(p, requested)
    /\ Create(i, p, links)
    /\ types' = [types EXCEPT ![p] = TypeFor(p)]
    /\ todo' = [todo EXCEPT ![s] = CreateTodo(p)]
    /\ UNCHANGED <<index, seen, work>>

\* The handler reads the concept to merge the given fields into: without a
\* new body the links stay, without a type the type, and the aliases always
\* do.  A path that only resolves through an alias is refused.
KbUpdateRead(s, p, body, requested, expected) ==
    /\ Idle(s)
    /\ Parsed(p)
    /\ requested # {} => Resolves(p, requested)
    /\ IF expected = 0 THEN ~Versioned
       ELSE seen[s] # None /\ seen[s].path = p /\ seen[s].version = expected
    /\ work' = [work EXCEPT ![s] =
          [path |-> p, base |-> Doc(p), expected |-> expected,
           links |-> IF body = None THEN files[p].links ELSE body,
           type |-> IF requested = {} THEN types[p] ELSE TypeFor(p),
           seen |-> IF expected = 0 THEN Doc(p) ELSE seen[s].doc]]
    /\ UNCHANGED <<bundleVars, index, seen, todo>>

\* Mutant: the handler keeps working after its update was written.
WriteAgain(s) ==
    LET w == work[s]
    IN  /\ w # None /\ todo[s] = << >>
        /\ Update(w.path, w.links, w.base.file.aliases, w.expected)
        /\ types' = [types EXCEPT ![w.path] = w.type]
        /\ todo' = [todo EXCEPT ![s] = <<Add(w.path)>>]
        /\ UNCHANGED <<index, seen, work>>

\* The merged concept is written back under the lock.
KbUpdateWrite(s) ==
    LET w == work[s]
    IN  /\ w # None
        /\ Update(w.path, w.links, w.base.file.aliases, w.expected)
        /\ types' = [types EXCEPT ![w.path] = w.type]
        /\ todo' = [todo EXCEPT ![s] = <<Add(w.path)>>]
        /\ work' = [work EXCEPT ![s] = None]
        /\ UNCHANGED <<index, seen>>

\* The concept is gone, has changed since, or the links are refused.
KbUpdateRejected(s) ==
    /\ work[s] # None
    /\ ~CanUpdate(work[s].path, work[s].links, work[s].expected)
    /\ work' = [work EXCEPT ![s] = None]
    /\ UNCHANGED <<bundleVars, index, seen, todo>>

InOrder(S) ==
    CHOOSE f \in [1..Cardinality(S) -> S] :
        \A j, k \in DOMAIN f : j < k => f[j] < f[k]

\* Mutant: only the moved concepts are indexed again.
RelinkedSkipped(m) ==
    LET sources == InOrder(Sources(m))
    IN  [j \in 1..2 * Len(sources) |->
            LET p == sources[(j + 1) \div 2]
            IN  IF j % 2 = 1 THEN Remove(p) ELSE Add(m[p])]

MoveTodo(m) ==
    LET sources  == InOrder(Sources(m))
        relinked == InOrder(Relinked(m))
    IN  [j \in 1..2 * Len(sources) |->
            LET p == sources[(j + 1) \div 2]
            IN  IF j % 2 = 1 THEN Remove(p) ELSE Add(m[p])]
          \o [j \in 1..Len(relinked) |-> Add(relinked[j])]

\* Mutant: a moved concept keeps its type.
TypesCarried(m) ==
    [q \in Path |-> IF q \in Targets(m) THEN types[Origin(m, q)] ELSE types[q]]

TypesAfter(m) ==
    [q \in Path |-> IF q \in Targets(m) THEN TypeFor(q) ELSE types[q]]

\* The folder a concept is moved to must be registered and decides its type.
KbMove(s, m, expected) ==
    /\ MayMove
    /\ Idle(s)
    /\ \A q \in Targets(m) : Resolves(q, {})
    /\ MoveBatch(m, expected)
    /\ types' = TypesAfter(m)
    /\ todo' = [todo EXCEPT ![s] = MoveTodo(m)]
    /\ UNCHANGED <<index, seen, work>>

\* One Index.Add or Index.Remove, under the index's own lock.
IndexStep(s) ==
    /\ todo[s] # << >>
    /\ index' = [index EXCEPT ![Head(todo[s]).path] = Head(todo[s]).entry]
    /\ todo' = [todo EXCEPT ![s] = Tail(@)]
    /\ UNCHANGED <<bundleVars, seen, work>>

-----------------------------------------------------------------------------
\* BuildFromBundle indexes what List returns: the files that parse.
Indexed == [p \in Path |-> IF Parsed(p) THEN Doc(p) ELSE None]

ToolInit ==
    /\ Init
    /\ types = SeedTypes
    /\ index = Indexed
    /\ seen = [s \in Session |-> None]
    /\ work = [s \in Session |-> None]
    /\ todo = [s \in Session |-> << >>]

ToolNext ==
    \E s \in Session :
        \/ \E p \in Path : KbRead(s, p)
        \/ \E p \in Path, requested \in Requests :
              \/ \E i \in Id, links \in LinkSets : KbCreate(s, i, p, links, requested)
              \/ \E body \in LinkSets \union {None}, expected \in 0..(MaxVersion + 1) :
                    KbUpdateRead(s, p, body, requested, expected)
        \/ KbUpdateWrite(s)
        \/ KbUpdateRejected(s)
        \/ \E m \in Batches : KbMove(s, m, [p \in Sources(m) |-> 0])
        \/ IndexStep(s)

ToolSpec == ToolInit /\ [][ToolNext]_toolVars

-----------------------------------------------------------------------------
Reading == [path : Path, version : 1..(MaxVersion + 1), doc : Document]

Merge == [path : Path, base : Document, expected : 0..(MaxVersion + 1),
          links : SUBSET Target, type : Name, seen : Document]

\* The handlers' state: a request that has written is done with its merge.
ToolTypeOK ==
    /\ types \in [Path -> Name]
    /\ index \in [Path -> Document \union {None}]
    /\ seen \in [Session -> Reading \union {None}]
    /\ work \in [Session -> Merge \union {None}]
    /\ todo \in [Session -> Seq(IndexOp)]
    /\ \A s \in Session : todo[s] # << >> => work[s] = None

\* Between requests the search index holds exactly the concepts there are,
\* each with its current content, under its current path.
IndexCurrent == (\A s \in Session : todo[s] = << >>) => index = Indexed

\* Between requests every concept can be found by a search, even if other
\* requests wrote it at the same time.
SearchFindsEveryConcept ==
    (\A s \in Session : todo[s] = << >>) =>
        \A p \in Path : Parsed(p) => index[p] # None /\ index[p].file.id = files[p].id

\* An update that passes the version its client read is accepted only over
\* the very content the client read: no other session has written since.
UpdatesReplaceWhatWasRead ==
    [][\A s \in Session :
          work[s] # None /\ work[s].expected > 0 /\ work'[s] = None /\ snaps' # snaps
             => Doc(work[s].path) = work[s].seen /\ work[s].base = work[s].seen]_toolVars

\* A concept whose type is not its folder's was so before, at the same path:
\* whatever requests overlap, none gives a concept a wrong type or undoes the
\* repair of one, and none brings a concept into an unregistered folder.
TypesAreOnlyRepaired ==
    [][\A p \in Path :
          Parsed(p)' /\ ~FollowsFolder(p, types[p])'
             => Parsed(p) /\ files'[p].id = files[p].id /\ types'[p] = types[p]]_toolVars
=============================================================================
