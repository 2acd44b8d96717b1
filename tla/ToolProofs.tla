------------------------------ MODULE ToolProofs ------------------------------
(***************************************************************************)
(* What the tool handlers keep, for every set of paths, concepts and types *)
(* and every number of sessions unless a theorem says otherwise: the types *)
(* of their state, the search index and its answers, the content an update *)
(* replaces, and that what they do to the bundle is a run of Bundle.      *)
(***************************************************************************)
EXTENDS Search, LinkProofs, FiniteSetTheorems, SequenceTheorems

-----------------------------------------------------------------------------
(* Sets of paths in order.                                                 *)

\* InOrder lists every member of a set of paths.
LEMMA InOrderLists ==
    ASSUME NEW S \in SUBSET Path
    PROVE  /\ Cardinality(S) \in Nat
           /\ InOrder(S) \in [1..Cardinality(S) -> S]
           /\ InOrder(S) \in Seq(S) /\ Len(InOrder(S)) = Cardinality(S)
           /\ \A x \in S : \E j \in 1..Cardinality(S) : InOrder(S)[j] = x
<1> DEFINE n == Cardinality(S)
           f == InOrder(S)
<1>1. S \in SUBSET Nat /\ IsFiniteSet(S) /\ n \in Nat
  BY PathAssumption, FiniteAssumption, FS_Subset, FS_CardinalityType
<1>2. f \in [1..n -> S] /\ Increasing(f)
  <2>1. \E g \in [1..n -> S] : Increasing(g)
    BY <1>1, Enumerated
  <2> QED BY <2>1 DEF InOrder, Increasing
<1> HIDE DEF f
<1>3. \A x \in S : \E j \in 1..n : f[j] = x
  BY <1>1, <1>2, IncreasingLists
<1>4. f \in Seq(S) /\ Len(f) = n
  BY <1>1, <1>2, SeqDef
<1> QED BY <1>1, <1>2, <1>3, <1>4 DEF f

\* The index operations that follow a move, in any order.
MoveOps(m) ==
    {Remove(p) : p \in Sources(m)} \union {Add(m[p]) : p \in Sources(m)}
      \union {Add(q) : q \in Relinked(m)}

\* kb_move lists them all, and no others.
LEMMA MoveTodoLists ==
    ASSUME NEW m \in Batches
    PROVE  /\ MoveTodo(m) \in Seq(MoveOps(m))
           /\ \A o \in MoveOps(m) : \E j \in 1..Len(MoveTodo(m)) : MoveTodo(m)[j] = o
<1> DEFINE sources  == InOrder(Sources(m))
           relinked == InOrder(Relinked(m))
           n == Cardinality(Sources(m))
           k == Cardinality(Relinked(m))
           a == [j \in 1..2 * Len(sources) |->
                    IF j % 2 = 1 THEN Remove(sources[(j + 1) \div 2])
                    ELSE Add(m[sources[(j + 1) \div 2]])]
           b == [j \in 1..Len(relinked) |-> Add(relinked[j])]
<1>1. /\ n \in Nat /\ sources \in [1..n -> Sources(m)] /\ Len(sources) = n
      /\ \A x \in Sources(m) : \E j \in 1..n : sources[j] = x
  BY BatchShape, InOrderLists
<1>2. /\ k \in Nat /\ relinked \in [1..k -> Relinked(m)] /\ Len(relinked) = k
      /\ \A x \in Relinked(m) : \E j \in 1..k : relinked[j] = x
  <2>1. Relinked(m) \in SUBSET Path
    BY DEF Relinked
  <2> QED BY <2>1, InOrderLists
<1>3. MoveTodo(m) = a \o b
  BY DEF MoveTodo
<1> HIDE DEF sources, relinked, n, k
<1>4. \A j \in 1..2 * n : (j + 1) \div 2 \in 1..n
  BY <1>1
<1>5. a \in [1..2 * n -> MoveOps(m)]
  <2>1. ASSUME NEW j \in 1..2 * n
        PROVE  (IF j % 2 = 1 THEN Remove(sources[(j + 1) \div 2])
                ELSE Add(m[sources[(j + 1) \div 2]])) \in MoveOps(m)
    <3>1. sources[(j + 1) \div 2] \in Sources(m)
      BY <1>1, <1>4
    <3> QED BY <3>1 DEF MoveOps
  <2> QED BY <1>1, <2>1
<1>6. b \in [1..k -> MoveOps(m)]
  BY <1>2 DEF MoveOps
<1>7. ASSUME NEW p \in Sources(m)
      PROVE  \E j \in 1..n : /\ 2 * j - 1 \in 1..2 * n /\ a[2 * j - 1] = Remove(p)
                             /\ 2 * j \in 1..2 * n /\ a[2 * j] = Add(m[p])
  <2>1. PICK j \in 1..n : sources[j] = p
    BY <1>1
  <2>2. /\ 2 * j - 1 \in 1..2 * n /\ (2 * j - 1) % 2 = 1 /\ ((2 * j - 1) + 1) \div 2 = j
        /\ 2 * j \in 1..2 * n /\ (2 * j) % 2 # 1 /\ (2 * j + 1) \div 2 = j
    BY <1>1
  <2>3. a[2 * j - 1] = Remove(sources[((2 * j - 1) + 1) \div 2])
    BY <1>1, <2>2
  <2>4. a[2 * j] = Add(m[sources[(2 * j + 1) \div 2]])
    BY <1>1, <2>2
  <2> HIDE DEF a
  <2> QED BY <2>1, <2>2, <2>3, <2>4
<1>8. ASSUME NEW q \in Relinked(m)
      PROVE  \E j \in 1..k : b[j] = Add(q)
  BY <1>2
<1> HIDE DEF a, b
<1>9. a \in Seq(MoveOps(m)) /\ Len(a) = 2 * n /\ b \in Seq(MoveOps(m)) /\ Len(b) = k
  BY <1>1, <1>2, <1>5, <1>6, SeqDef
<1>10. /\ a \o b \in Seq(MoveOps(m)) /\ Len(a \o b) = 2 * n + k
       /\ \A j \in 1..(2 * n + k) : (a \o b)[j] = IF j <= 2 * n THEN a[j] ELSE b[j - 2 * n]
  <2>1. /\ a \o b \in Seq(MoveOps(m)) /\ Len(a \o b) = Len(a) + Len(b)
        /\ \A j \in 1..(Len(a) + Len(b)) :
              (a \o b)[j] = IF j <= Len(a) THEN a[j] ELSE b[j - Len(a)]
    BY <1>9, ConcatProperties, Zenon
  <2> QED BY <1>9, <2>1
<1>11. ASSUME NEW j \in 1..2 * n
       PROVE  j \in 1..Len(a \o b) /\ (a \o b)[j] = a[j]
  BY <1>1, <1>2, <1>10
<1>12. ASSUME NEW j \in 1..k
       PROVE  2 * n + j \in 1..Len(a \o b) /\ (a \o b)[2 * n + j] = b[j]
  <2>1. 2 * n + j \in 1..(2 * n + k) /\ ~(2 * n + j <= 2 * n) /\ (2 * n + j) - 2 * n = j
    BY <1>1, <1>2
  <2> QED BY <1>10, <2>1
<1>13. ASSUME NEW o \in MoveOps(m)
       PROVE  \E j \in 1..Len(a \o b) : (a \o b)[j] = o
  <2>1. CASE \E p \in Sources(m) : o = Remove(p) \/ o = Add(m[p])
    BY <1>7, <1>11, <2>1
  <2>2. CASE \E q \in Relinked(m) : o = Add(q)
    BY <1>8, <1>12, <2>2
  <2> QED BY <2>1, <2>2 DEF MoveOps
<1> QED BY <1>3, <1>10, <1>13

-----------------------------------------------------------------------------
(* What a request does to the bundle.                                      *)

\* A type that a request resolves to is a registered name.
LEMMA TypeForIsName ==
    ASSUME NEW p, InRegistry(p)
    PROVE  TypeFor(p) \in Name
<1>1. PICK j \in ForPath(p) : j = CHOOSE k \in ForPath(p) : TRUE
  BY DEF InRegistry
<1>2. Registered \in Seq(ConceptType) /\ j \in DOMAIN Registered
  BY <1>1, RegistryAssumption DEF ValidRegistry, ForPath
<1>3. Registered[j] \in ConceptType
  BY <1>2
<1> QED BY <1>1, <1>3 DEF TypeFor, ConceptType

LEMMA DocType ==
    ASSUME TypeOK, types \in [Path -> Name], NEW p \in Path, Exists(p)
    PROVE  Doc(p) \in Document
  BY DEF TypeOK, Exists, Doc, Document

LEMMA CreateWrites ==
    ASSUME TypeOK, NEW i \in Id, NEW p \in Path, NEW links \in LinkSets, Create(i, p, links)
    PROVE  /\ TypeOK' /\ ~Exists(p) /\ Parsed(p)'
           /\ files' = [files EXCEPT ![p] = files'[p]] /\ files'[p] \in File
<1>1. links \in SUBSET Target /\ CanCreate(i, p, links)
  BY AuthorAssumption DEF Create
<1>2. Fresh(i, p, links) \in File /\ Fresh(i, p, links).id = i
  BY <1>1, FreshType
<1>3. files' = [files EXCEPT ![p] = Fresh(i, p, links)] /\ UNCHANGED <<snaps, verDirs>>
  BY DEF Create
<1>4. TypeOK'
  BY <1>1, <1>2, <1>3, CreateKeepsType
<1>5. files'[p] = Fresh(i, p, links)
  BY <1>3 DEF TypeOK
<1>6. Parsed(p)'
  <2>1. Fresh(i, p, links).parses
    BY DEF Fresh
  <2>2. files'[p] # None
    BY <1>2, <1>5, NoneAssumption
  <2> QED BY <1>5, <2>1, <2>2 DEF Parsed, Exists
<1> QED BY <1>1, <1>2, <1>3, <1>4, <1>5, <1>6 DEF CanCreate

LEMMA UpdateWrites ==
    ASSUME TypeOK, NEW p \in Path, NEW links \in SUBSET Target, NEW aliases \in SUBSET Path,
           NEW expected, Update(p, links, aliases, expected)
    PROVE  /\ TypeOK' /\ Exists(p) /\ Parsed(p)'
           /\ files' = [files EXCEPT ![p] = files'[p]] /\ files'[p] \in File
           /\ files'[p].id = files[p].id
<1>1. Exists(p) /\ ConceptVersion(p) <= MaxVersion /\ files[p] \in File
  BY DEF Update, CanUpdate, TypeOK, Exists
<1>2. Edited(p, links, aliases) \in File /\ Edited(p, links, aliases).id = files[p].id
  BY <1>1, EditedType
<1>3. /\ files' = [files EXCEPT ![p] = Edited(p, links, aliases)]
      /\ snaps' = [snaps EXCEPT ![p][ConceptVersion(p)] = files[p]]
      /\ verDirs' = MakeDirs({p})
  BY DEF Update, Snapshotted, TypeOK
<1>4. TypeOK'
  BY <1>1, <1>2, <1>3, WriteKeepsType
<1>5. files'[p] = Edited(p, links, aliases)
  BY <1>3 DEF TypeOK
<1>6. Parsed(p)'
  <2>1. Edited(p, links, aliases).parses
    BY DEF Edited
  <2>2. files'[p] # None
    BY <1>2, <1>5, NoneAssumption
  <2> QED BY <1>5, <2>1, <2>2 DEF Parsed, Exists
<1> QED BY <1>1, <1>2, <1>3, <1>4, <1>5, <1>6

\* A move leaves a readable concept at every path it indexes, and nothing at
\* those it removes from the index.
LEMMA MoveWrites ==
    ASSUME TypeOK, NEW m \in Batches, NEW expected, MoveBatch(m, expected)
    PROVE  /\ TypeOK'
           /\ \A p \in Sources(m) : ~Exists(p)' /\ Parsed(m[p])'
           /\ \A q \in Relinked(m) : Parsed(q)' /\ q \notin Targets(m)
           /\ \A q \in Path : q \notin Sources(m) \union Targets(m) \union Relinked(m)
                                 => files'[q] = files[q]
<1>1. CanMove(m, expected) /\ files' = FilesAfter(m)
  BY DEF MoveBatch
<1>2. TypeOK'
  BY MoveKeepsType
<1>3. ASSUME NEW p \in Sources(m) PROVE ~Exists(p)' /\ Parsed(m[p])'
  <2>1. p \in Path /\ m[p] \in Path /\ m[p] \in Targets(m) /\ Origin(m, m[p]) = p
    BY BatchShape
  <2>2. ~Exists(p)' /\ Exists(m[p])'
    BY <1>1, <2>1, FilesAfterMove DEF Exists
  <2>3. files'[m[p]] = MovedFile(m, p) /\ Parsed(p) /\ files[p] \in File
    BY <1>1, <2>1 DEF FilesAfter, CanMove, Parsed, Exists, TypeOK
  <2>4. files'[m[p]].parses
    BY <2>3 DEF MovedFile, File, Parsed
  <2> QED BY <2>2, <2>4 DEF Parsed
<1>4. ASSUME NEW q \in Relinked(m) PROVE Parsed(q)' /\ q \notin Targets(m)
  <2>1. q \in Path /\ q \notin Sources(m) /\ Parsed(q) /\ files[q] \in File
    BY DEF Relinked, Parsed, Exists, TypeOK
  <2>2. q \notin Targets(m)
    BY <1>1, <2>1 DEF CanMove, Targets, Sources, Parsed
  <2>3. files'[q] = RelinkedFile(m, q) /\ Exists(q)'
    BY <1>1, <2>1, <2>2, FilesAfterMove DEF FilesAfter, Exists, Parsed
  <2>4. files'[q].parses
    BY <2>1, <2>3 DEF RelinkedFile, File, Parsed
  <2> QED BY <2>2, <2>3, <2>4 DEF Parsed
<1>5. ASSUME NEW q \in Path, q \notin Sources(m) \union Targets(m) \union Relinked(m)
      PROVE  files'[q] = files[q]
  BY <1>1, <1>5 DEF FilesAfter
<1> QED BY <1>2, <1>3, <1>4, <1>5

-----------------------------------------------------------------------------
(* Types.                                                                  *)

\* What is indexed is what has been written.
LEMMA AddType ==
    ASSUME NEW p \in Path, files'[p] \in File, types'[p] \in Name
    PROVE  Add(p) \in IndexOp /\ <<Add(p)>> \in Seq(IndexOp)
  BY DEF Add, IndexOp, Document

LEMMA MoveTodoType ==
    ASSUME TypeOK, NEW m \in Batches, NEW expected, MoveBatch(m, expected),
           types' \in [Path -> Name]
    PROVE  MoveTodo(m) \in Seq(IndexOp)
<1>1. ASSUME NEW p \in Path, Parsed(p)' PROVE Add(p) \in IndexOp
  <2>1. files'[p] \in File
    BY <1>1, MoveWrites DEF TypeOK, Parsed, Exists
  <2> QED BY <2>1, AddType
<1>2. \A p \in Sources(m) : p \in Path /\ m[p] \in Path
  BY BatchShape
<1>3. \A p \in Sources(m) : Remove(p) \in IndexOp
  BY <1>2 DEF Remove, IndexOp
<1>4. \A p \in Sources(m) : Add(m[p]) \in IndexOp
  BY <1>1, <1>2, MoveWrites
<1>5. \A q \in Relinked(m) : Add(q) \in IndexOp
  BY <1>1, MoveWrites DEF Relinked
<1>6. MoveOps(m) \subseteq IndexOp
  BY <1>3, <1>4, <1>5 DEF MoveOps
<1> QED BY <1>6, MoveTodoLists, SeqMonotonic, Zenon

LEMMA TypesAfterType ==
    ASSUME types \in [Path -> Name], NEW m \in Batches, \A q \in Targets(m) : Resolves(q, {})
    PROVE  TypesAfter(m) \in [Path -> Name]
<1>1. \A q \in Targets(m) : TypeFor(q) \in Name
  BY TypeForIsName DEF Resolves
<1> QED BY <1>1 DEF TypesAfter

LEMMA InitToolType == ToolInit => TypeOK /\ ToolTypeOK
<1> SUFFICES ASSUME ToolInit PROVE TypeOK /\ ToolTypeOK
  OBVIOUS
<1>1. TypeOK
  BY InitType DEF ToolInit
<1>2. types \in [Path -> Name]
  BY RequestAssumption DEF ToolInit
<1>3. \A p \in Path : Parsed(p) => Doc(p) \in Document
  BY <1>1, <1>2, DocType DEF Parsed
<1>4. index \in [Path -> Document \union {None}]
  BY <1>3 DEF ToolInit, Indexed
<1> QED BY <1>1, <1>2, <1>4 DEF ToolInit, ToolTypeOK

LEMMA ReadKeepsTypes ==
    ASSUME TypeOK, ToolTypeOK, NEW s \in Session, NEW p \in Path, KbRead(s, p)
    PROVE  TypeOK' /\ ToolTypeOK'
<1> DEFINE r == Resolve(p)
           a == [path |-> r, version |-> ConceptVersion(r), doc |-> Doc(r)]
<1>1. r \in Path /\ Parsed(r)
  <2>1. Holders(p) # {} => AliasHolder(p) \in Path
    BY AliasHolderHolds DEF Holders
  <2> QED BY <2>1 DEF KbRead, Resolve
<1>2. ConceptVersion(r) \in 1..(MaxVersion + 1)
  <2> HIDE DEF r
  <2>1. /\ ConceptVersion(r) \in Nat /\ ConceptVersion(r) >= 1
        /\ ConceptVersion(r) > 1 => ConceptVersion(r) - 1 \in 1..MaxVersion
    BY <1>1, ConceptVersionIsNext DEF Versions, Version
  <2> QED BY <2>1, VersionAssumption
<1>3. a \in Reading
  <2> HIDE DEF r
  <2>1. Doc(r) \in Document
    BY <1>1, DocType DEF Parsed, ToolTypeOK
  <2> QED BY <1>1, <1>2, <2>1 DEF Reading
<1>4. seen' = [seen EXCEPT ![s] = a] /\ UNCHANGED <<bundleVars, index, work, todo>>
  BY DEF KbRead
<1> HIDE DEF a
<1>5. TypeOK'
  BY <1>4 DEF bundleVars, TypeOK, Exists
<1> QED BY <1>3, <1>4, <1>5 DEF bundleVars, ToolTypeOK

LEMMA CreateKeepsTypes ==
    ASSUME TypeOK, ToolTypeOK, NEW s \in Session, NEW i \in Id, NEW p \in Path,
           NEW links \in LinkSets, NEW requested, KbCreate(s, i, p, links, requested)
    PROVE  TypeOK' /\ ToolTypeOK'
<1>1. TypeOK' /\ files'[p] \in File
  BY CreateWrites DEF KbCreate
<1>2. types' \in [Path -> Name] /\ types'[p] \in Name
  BY TypeForIsName DEF KbCreate, Resolves, ToolTypeOK
<1>3. <<Add(p)>> \in Seq(IndexOp)
  BY <1>1, <1>2, AddType
<1>4. /\ todo' = [todo EXCEPT ![s] = <<Add(p)>>]
      /\ UNCHANGED <<index, seen, work>> /\ work[s] = None
  BY DEF KbCreate, CreateTodo, Idle
<1> HIDE DEF Add
<1> QED BY <1>1, <1>2, <1>3, <1>4 DEF ToolTypeOK

LEMMA UpdateReadKeepsTypes ==
    ASSUME TypeOK, ToolTypeOK, NEW s \in Session, NEW p \in Path,
           NEW body \in LinkSets \union {None}, NEW requested,
           NEW expected \in 0..(MaxVersion + 1), KbUpdateRead(s, p, body, requested, expected)
    PROVE  TypeOK' /\ ToolTypeOK'
<1> DEFINE w == [path |-> p, base |-> Doc(p), expected |-> expected,
                 links |-> IF body = None THEN files[p].links ELSE body,
                 type |-> IF requested = {} THEN types[p] ELSE TypeFor(p),
                 seen |-> IF expected = 0 THEN Doc(p) ELSE seen[s].doc]
<1>1. Parsed(p) /\ Doc(p) \in Document /\ files[p] \in File
  BY DocType DEF KbUpdateRead, Parsed, ToolTypeOK, TypeOK, Exists
<1>2. w.links \in SUBSET Target
  BY <1>1, AuthorAssumption DEF File
<1>3. w.type \in Name
  BY TypeForIsName DEF KbUpdateRead, Resolves, ToolTypeOK
<1>4. w.seen \in Document
  <2>1. expected # 0 => seen[s] \in Reading
    BY DEF KbUpdateRead, ToolTypeOK
  <2> QED BY <1>1, <2>1 DEF Reading
<1>5. w \in Merge
  BY <1>1, <1>2, <1>3, <1>4 DEF Merge
<1>6. /\ work' = [work EXCEPT ![s] = w] /\ todo[s] = << >>
      /\ UNCHANGED <<bundleVars, index, seen, todo>>
  BY DEF KbUpdateRead, Idle
<1> HIDE DEF w
<1>7. TypeOK'
  BY <1>6 DEF bundleVars, TypeOK, Exists
<1> QED BY <1>5, <1>6, <1>7 DEF bundleVars, ToolTypeOK

\* An update is written for a well-formed merge.
LEMMA MergeWrites ==
    ASSUME TypeOK, ToolTypeOK, NEW s \in Session, KbUpdateWrite(s),
           NEW p, p = work[s].path
    PROVE  /\ work[s] \in Merge /\ p \in Path
           /\ Update(p, work[s].links, work[s].base.file.aliases, work[s].expected)
           /\ TypeOK' /\ Exists(p) /\ Parsed(p)'
           /\ files' = [files EXCEPT ![p] = files'[p]] /\ files'[p] \in File
           /\ files'[p].id = files[p].id
           /\ types' = [types EXCEPT ![p] = work[s].type]
           /\ todo' = [todo EXCEPT ![s] = <<Add(p)>>]
           /\ work' = [work EXCEPT ![s] = None] /\ UNCHANGED <<index, seen>>
<1>1. /\ work[s] \in Merge /\ p \in Path /\ work[s].links \in SUBSET Target
      /\ work[s].base \in Document
  BY DEF KbUpdateWrite, ToolTypeOK, Merge
<1>2. work[s].base.file.aliases \in SUBSET Path
  BY <1>1 DEF Document, File
<1>3. /\ Update(p, work[s].links, work[s].base.file.aliases, work[s].expected)
      /\ types' = [types EXCEPT ![p] = work[s].type]
      /\ todo' = [todo EXCEPT ![s] = <<Add(p)>>]
      /\ work' = [work EXCEPT ![s] = None] /\ UNCHANGED <<index, seen>>
  BY DEF KbUpdateWrite
<1> QED BY <1>1, <1>2, <1>3, UpdateWrites

LEMMA UpdateWriteKeepsTypes ==
    ASSUME TypeOK, ToolTypeOK, NEW s \in Session, KbUpdateWrite(s)
    PROVE  TypeOK' /\ ToolTypeOK'
<1>0. PICK p : p = work[s].path
  OBVIOUS
<1>1. /\ TypeOK' /\ p \in Path /\ files'[p] \in File /\ work[s] \in Merge
      /\ types' = [types EXCEPT ![p] = work[s].type]
      /\ todo' = [todo EXCEPT ![s] = <<Add(p)>>]
      /\ work' = [work EXCEPT ![s] = None] /\ UNCHANGED <<index, seen>>
  BY <1>0, MergeWrites
<1>2. types' \in [Path -> Name] /\ types'[p] \in Name
  BY <1>1 DEF ToolTypeOK, Merge
<1>3. <<Add(p)>> \in Seq(IndexOp)
  BY <1>1, <1>2, AddType
<1> QED BY <1>1, <1>2, <1>3 DEF ToolTypeOK

LEMMA MoveKeepsTypes ==
    ASSUME TypeOK, ToolTypeOK, NEW s \in Session, NEW m \in Batches, NEW expected,
           KbMove(s, m, expected)
    PROVE  TypeOK' /\ ToolTypeOK'
<1>1. TypeOK'
  BY MoveWrites DEF KbMove
<1>2. types' \in [Path -> Name]
  BY TypesAfterType DEF KbMove, ToolTypeOK
<1>3. MoveTodo(m) \in Seq(IndexOp)
  BY <1>2, MoveTodoType DEF KbMove
<1>4. /\ todo' = [todo EXCEPT ![s] = MoveTodo(m)]
      /\ UNCHANGED <<index, seen, work>> /\ work[s] = None
  BY DEF KbMove, Idle
<1> QED BY <1>1, <1>2, <1>3, <1>4 DEF ToolTypeOK

LEMMA IndexStepKeepsTypes ==
    ASSUME TypeOK, ToolTypeOK, NEW s \in Session, IndexStep(s)
    PROVE  TypeOK' /\ ToolTypeOK'
<1>1. todo[s] \in Seq(IndexOp) /\ todo[s] # << >>
  BY DEF IndexStep, ToolTypeOK
<1>2. Head(todo[s]) \in IndexOp /\ Tail(todo[s]) \in Seq(IndexOp)
  BY <1>1, HeadTailProperties
<1>3. /\ index' = [index EXCEPT ![Head(todo[s]).path] = Head(todo[s]).entry]
      /\ todo' = [todo EXCEPT ![s] = Tail(todo[s])]
      /\ UNCHANGED <<bundleVars, seen, work>>
  BY DEF IndexStep, ToolTypeOK
<1>4. TypeOK'
  BY <1>3 DEF bundleVars, TypeOK, Exists
<1>5. index' \in [Path -> Document \union {None}]
  BY <1>2, <1>3 DEF IndexOp, ToolTypeOK
<1> QED BY <1>1, <1>2, <1>3, <1>4, <1>5 DEF bundleVars, ToolTypeOK

LEMMA NextToolType == TypeOK /\ ToolTypeOK /\ [ToolNext]_toolVars => TypeOK' /\ ToolTypeOK'
<1> SUFFICES ASSUME TypeOK, ToolTypeOK, [ToolNext]_toolVars PROVE TypeOK' /\ ToolTypeOK'
  OBVIOUS
<1>1. CASE UNCHANGED toolVars
  BY <1>1 DEF toolVars, bundleVars, TypeOK, ToolTypeOK, Exists
<1>2. ASSUME NEW s \in Session, KbUpdateRejected(s) PROVE TypeOK' /\ ToolTypeOK'
  <2>1. work' = [work EXCEPT ![s] = None] /\ UNCHANGED <<bundleVars, index, seen, todo>>
    BY <1>2 DEF KbUpdateRejected
  <2> QED BY <2>1 DEF bundleVars, TypeOK, ToolTypeOK, Exists
<1> QED
  BY <1>1, <1>2, ReadKeepsTypes, CreateKeepsTypes, UpdateReadKeepsTypes,
     UpdateWriteKeepsTypes, MoveKeepsTypes, IndexStepKeepsTypes DEF ToolNext

\* The bundle and the state of the handlers are well-typed, for any number of
\* sessions: what a handler still has to index or to write is a document of the
\* bundle, and a request that has written has no merge left.
THEOREM ToolTypeCorrect == ToolSpec => [](TypeOK /\ ToolTypeOK)
  BY InitToolType, NextToolType, PTL DEF ToolSpec

-----------------------------------------------------------------------------
(* One client at a time: the index follows the bundle.                     *)

\* What session s still has to index is what is wrong with the index, and
\* carries what is in the bundle now.
IndexFollows(s) ==
    /\ \A j \in 1..Len(todo[s]) : todo[s][j].entry = Indexed[todo[s][j].path]
    /\ \A p \in Path : index[p] # Indexed[p] => \E j \in 1..Len(todo[s]) : todo[s][j].path = p

\* A write at p by an idle session, which is then to be indexed.
LEMMA WriteIsFollowed ==
    ASSUME TypeOK, ToolTypeOK, NEW s \in Session, todo[s] = << >>, IndexFollows(s),
           NEW p \in Path, Parsed(p)', files' = [files EXCEPT ![p] = files'[p]],
           types' = [types EXCEPT ![p] = types'[p]], UNCHANGED index,
           todo' = [todo EXCEPT ![s] = <<Add(p)>>]
    PROVE  IndexFollows(s)'
<1>1. todo'[s] = <<Add(p)>>
  BY DEF ToolTypeOK
<1>2. Len(todo'[s]) = 1 /\ todo'[s][1] = Add(p)
  BY <1>1
<1>3. Add(p).path = p /\ Add(p).entry = Doc(p)'
  BY DEF Add, Doc
<1>4. Indexed'[p] = Doc(p)'
  BY DEF Indexed
<1>5. ASSUME NEW q \in Path, q # p PROVE index'[q] = Indexed'[q]
  <2>1. Indexed'[q] = Indexed[q]
    BY <1>5 DEF Indexed, Doc, Parsed, Exists, TypeOK, ToolTypeOK
  <2>2. index[q] = Indexed[q]
    BY DEF IndexFollows
  <2> QED BY <2>1, <2>2
<1> HIDE DEF Add, Doc, Indexed
<1>6. \A j \in 1..Len(todo'[s]) : todo'[s][j].entry = Indexed'[todo'[s][j].path]
  BY <1>2, <1>3, <1>4
<1>7. \A q \in Path : index'[q] # Indexed'[q] => \E j \in 1..Len(todo'[s]) : todo'[s][j].path = q
  BY <1>2, <1>3, <1>5
<1> QED BY <1>6, <1>7 DEF IndexFollows

LEMMA MoveIsFollowed ==
    ASSUME TypeOK, ToolTypeOK, NEW s \in Session, IndexFollows(s),
           NEW m \in Batches, NEW expected, KbMove(s, m, expected)
    PROVE  IndexFollows(s)'
<1>1. /\ MoveBatch(m, expected) /\ types' = TypesAfter(m) /\ UNCHANGED index
      /\ todo[s] = << >> /\ todo'[s] = MoveTodo(m)
  BY DEF KbMove, Idle, ToolTypeOK
<1>2. \A p \in Sources(m) : p \in Path /\ m[p] \in Path
  BY BatchShape
<1>3. /\ \A p \in Sources(m) : ~Exists(p)' /\ Parsed(m[p])'
      /\ \A q \in Relinked(m) : Parsed(q)' /\ q \notin Targets(m) /\ q \in Path
      /\ \A q \in Path : q \notin Sources(m) \union Targets(m) \union Relinked(m)
                            => files'[q] = files[q]
  BY <1>1, MoveWrites DEF Relinked
<1>4. ASSUME NEW q \in Path, Parsed(q)'
      PROVE  Add(q).path = q /\ Add(q).entry = Indexed'[q]
  BY <1>4 DEF Add, Indexed, Doc
<1>5. ASSUME NEW q \in Path, ~Exists(q)'
      PROVE  Remove(q).path = q /\ Remove(q).entry = Indexed'[q]
  BY <1>5 DEF Remove, Indexed, Parsed
<1>6. ASSUME NEW o \in MoveOps(m) PROVE o.entry = Indexed'[o.path]
  <2>1. CASE \E p \in Sources(m) : o = Remove(p)
    BY <1>2, <1>3, <1>5, <2>1
  <2>2. CASE \E p \in Sources(m) : o = Add(m[p])
    BY <1>2, <1>3, <1>4, <2>2
  <2>3. CASE \E q \in Relinked(m) : o = Add(q)
    BY <1>3, <1>4, <2>3
  <2> QED BY <2>1, <2>2, <2>3 DEF MoveOps
<1>7. ASSUME NEW q \in Path, index'[q] # Indexed'[q]
      PROVE  \E o \in MoveOps(m) : o.path = q
  <2>1. index[q] = Indexed[q]
    BY <1>1 DEF IndexFollows
  <2>2. q \in Sources(m) \union Targets(m) \union Relinked(m)
    <3>1. SUFFICES ASSUME q \notin Sources(m) \union Targets(m) \union Relinked(m)
                   PROVE  Indexed'[q] = Indexed[q]
      BY <1>1, <1>7, <2>1
    <3>2. files'[q] = files[q] /\ types'[q] = types[q]
      BY <1>1, <1>3, <3>1 DEF TypesAfter
    <3> QED BY <3>2 DEF Indexed, Doc, Parsed, Exists
  <2>3. CASE q \in Sources(m)
    BY <1>2, <1>3, <1>5, <2>3 DEF MoveOps
  <2>4. CASE q \in Targets(m)
    <3>1. PICK p \in Sources(m) : q = m[p]
      BY <2>4, BatchShape
    <3> QED BY <1>2, <1>3, <1>4, <3>1 DEF MoveOps
  <2>5. CASE q \in Relinked(m)
    BY <1>3, <1>4, <2>5 DEF MoveOps
  <2> QED BY <2>2, <2>3, <2>4, <2>5
<1>8. /\ MoveTodo(m) \in Seq(MoveOps(m))
      /\ \A o \in MoveOps(m) : \E j \in 1..Len(MoveTodo(m)) : MoveTodo(m)[j] = o
  BY MoveTodoLists
<1>9. \A j \in 1..Len(MoveTodo(m)) : MoveTodo(m)[j] \in MoveOps(m)
  BY <1>8, ElementOfSeq, Zenon
<1> QED BY <1>1, <1>6, <1>7, <1>8, <1>9 DEF IndexFollows

LEMMA IndexStepIsFollowed ==
    ASSUME TypeOK, ToolTypeOK, NEW s \in Session, IndexFollows(s), IndexStep(s)
    PROVE  IndexFollows(s)'
<1>1. todo[s] \in Seq(IndexOp) /\ todo[s] # << >>
  BY DEF IndexStep, ToolTypeOK
<1> DEFINE o == Head(todo[s])
<1>2. /\ o \in IndexOp /\ Tail(todo[s]) \in Seq(IndexOp)
      /\ Len(todo[s]) \in Nat /\ Len(Tail(todo[s])) = Len(todo[s]) - 1
      /\ \A j \in 1..Len(Tail(todo[s])) : Tail(todo[s])[j] = todo[s][j + 1]
  BY <1>1, HeadTailProperties, LenProperties
<1>3. o = todo[s][1] /\ 1 \in 1..Len(todo[s])
  BY <1>1, <1>2, EmptySeq
<1>4. /\ index' = [index EXCEPT ![o.path] = o.entry] /\ todo'[s] = Tail(todo[s])
      /\ UNCHANGED bundleVars
  BY DEF IndexStep, ToolTypeOK
<1>5. Indexed' = Indexed
  BY <1>4 DEF bundleVars, Indexed, Doc, Parsed, Exists
<1>6. o.path \in Path /\ o.entry = Indexed[o.path]
  BY <1>2, <1>3 DEF IndexOp, IndexFollows
<1> HIDE DEF o
<1>7. ASSUME NEW j \in 1..Len(Tail(todo[s]))
      PROVE  j + 1 \in 1..Len(todo[s]) /\ Tail(todo[s])[j] = todo[s][j + 1]
  BY <1>2
<1>8. ASSUME NEW p \in Path, index'[p] # Indexed[p]
      PROVE  \E j \in 1..Len(Tail(todo[s])) : Tail(todo[s])[j].path = p
  <2>1. p # o.path /\ index'[p] = index[p]
    BY <1>4, <1>6, <1>8 DEF ToolTypeOK
  <2>2. PICK j \in 1..Len(todo[s]) : todo[s][j].path = p
    BY <1>8, <2>1 DEF IndexFollows
  <2>3. j # 1
    BY <1>3, <2>1, <2>2
  <2>4. j - 1 \in 1..Len(Tail(todo[s])) /\ (j - 1) + 1 = j
    BY <1>2, <2>3
  <2> QED BY <1>7, <2>2, <2>4
<1> QED BY <1>4, <1>5, <1>7, <1>8 DEF IndexFollows

\* With one request at a time, between requests the search index is the
\* bundle: every readable concept once, with its content, and nothing else,
\* after creates, updates and batch moves of any size.
THEOREM IndexIsCurrent ==
    ASSUME NEW s, Session = {s}
    PROVE  ToolSpec => []IndexCurrent
<1> DEFINE Inv == TypeOK /\ ToolTypeOK
<1>1. ToolInit => IndexFollows(s)
  BY DEF ToolInit, IndexFollows
<1>2. Inv /\ IndexFollows(s) /\ [ToolNext]_toolVars => IndexFollows(s)'
  <2> SUFFICES ASSUME TypeOK, ToolTypeOK, IndexFollows(s), [ToolNext]_toolVars
               PROVE  IndexFollows(s)'
    OBVIOUS
  <2>1. UNCHANGED <<bundleVars, index, todo>> => IndexFollows(s)'
    BY DEF IndexFollows, bundleVars, Indexed, Doc, Parsed, Exists
  <2>2. ASSUME NEW i \in Id, NEW p \in Path, NEW links \in LinkSets, NEW requested,
               KbCreate(s, i, p, links, requested)
        PROVE  IndexFollows(s)'
    <3>1. Parsed(p)' /\ files' = [files EXCEPT ![p] = files'[p]]
      BY <2>2, CreateWrites DEF KbCreate
    <3>2. /\ types' = [types EXCEPT ![p] = types'[p]] /\ UNCHANGED index
          /\ todo[s] = << >> /\ todo' = [todo EXCEPT ![s] = <<Add(p)>>]
      BY <2>2 DEF KbCreate, CreateTodo, Idle, ToolTypeOK
    <3> QED BY <3>1, <3>2, WriteIsFollowed
  <2>3. ASSUME KbUpdateWrite(s) PROVE IndexFollows(s)'
    <3>1. PICK p : p = work[s].path
      OBVIOUS
    <3>2. /\ p \in Path /\ Parsed(p)' /\ files' = [files EXCEPT ![p] = files'[p]]
          /\ types' = [types EXCEPT ![p] = work[s].type] /\ UNCHANGED index
          /\ todo' = [todo EXCEPT ![s] = <<Add(p)>>]
      BY <2>3, <3>1, MergeWrites
    <3>3. todo[s] = << >> /\ types' = [types EXCEPT ![p] = types'[p]]
      BY <2>3, <3>2 DEF KbUpdateWrite, ToolTypeOK
    <3> QED BY <3>2, <3>3, WriteIsFollowed
  <2>4. ASSUME NEW p, KbRead(s, p) PROVE IndexFollows(s)'
    BY <2>1, <2>4 DEF KbRead
  <2>5. ASSUME NEW p, NEW body, NEW requested, NEW expected,
               KbUpdateRead(s, p, body, requested, expected)
        PROVE  IndexFollows(s)'
    BY <2>1, <2>5 DEF KbUpdateRead
  <2>6. KbUpdateRejected(s) => IndexFollows(s)'
    BY <2>1 DEF KbUpdateRejected
  <2>7. UNCHANGED toolVars => IndexFollows(s)'
    BY <2>1 DEF toolVars
  <2> QED
    BY <2>2, <2>3, <2>4, <2>5, <2>6, <2>7, MoveIsFollowed, IndexStepIsFollowed DEF ToolNext
<1>3. Inv /\ IndexFollows(s) => IndexCurrent
  <2> SUFFICES ASSUME ToolTypeOK, IndexFollows(s), todo[s] = << >>
               PROVE  index = Indexed
    BY DEF IndexCurrent
  <2>1. \A p \in Path : index[p] = Indexed[p]
    BY DEF IndexFollows
  <2> QED BY <2>1 DEF ToolTypeOK, Indexed
<1>4. ToolSpec => []Inv
  BY ToolTypeCorrect
<1> HIDE DEF Inv
<1> QED BY <1>1, <1>2, <1>3, <1>4, PTL DEF ToolSpec

-----------------------------------------------------------------------------
(* Requests that overlap, none of them a move.                             *)

\* Without moves, a step writes nothing, a new concept, or an update.
LEMMA WritesWithoutMoves ==
    ASSUME ~MayMove, [ToolNext]_toolVars
    PROVE  \/ UNCHANGED bundleVars
           \/ \E s \in Session, i \in Id, p \in Path, links \in LinkSets, requested \in Requests :
                 KbCreate(s, i, p, links, requested)
           \/ \E s \in Session : KbUpdateWrite(s)
<1>1. \A s \in Session, p \in Path : KbRead(s, p) => UNCHANGED bundleVars
  BY DEF KbRead
<1>2. \A s \in Session, p \in Path : \A body, requested, expected :
         KbUpdateRead(s, p, body, requested, expected) => UNCHANGED bundleVars
  BY DEF KbUpdateRead
<1>3. \A s \in Session : KbUpdateRejected(s) \/ IndexStep(s) => UNCHANGED bundleVars
  BY DEF KbUpdateRejected, IndexStep
<1>4. UNCHANGED toolVars => UNCHANGED bundleVars
  BY DEF toolVars
<1>5. \A s \in Session : \A m, expected : ~KbMove(s, m, expected)
  BY DEF KbMove
<1> QED BY <1>1, <1>2, <1>3, <1>4, <1>5 DEF ToolNext

\* Every readable concept is indexed under its path or about to be, and what
\* is about to be indexed is a version of the concept that lives there.
Findable ==
    \A p \in Path : Parsed(p) =>
        \/ index[p] # None /\ index[p].file.id = files[p].id
        \/ \E s \in Session : \E j \in 1..Len(todo[s]) : todo[s][j].path = p

Pending ==
    \A s \in Session : \A j \in 1..Len(todo[s]) :
        /\ Exists(todo[s][j].path)
        /\ todo[s][j].entry # None
        /\ todo[s][j].entry.file.id = files[todo[s][j].path].id

LEMMA WriteIsFound ==
    ASSUME TypeOK, ToolTypeOK, Findable, Pending,
           NEW s \in Session, todo[s] = << >>, NEW p \in Path, Parsed(p)',
           files' = [files EXCEPT ![p] = files'[p]], files'[p] \in File, types'[p] \in Name,
           Exists(p) => files'[p].id = files[p].id,
           UNCHANGED index, todo' = [todo EXCEPT ![s] = <<Add(p)>>]
    PROVE  Findable' /\ Pending'
<1>1. todo'[s] = <<Add(p)>> /\ \A r \in Session : r # s => todo'[r] = todo[r]
  BY DEF ToolTypeOK
<1>2. Len(todo'[s]) = 1 /\ todo'[s][1] = Add(p)
  BY <1>1
<1>3. Add(p).path = p /\ Add(p).entry # None /\ Add(p).entry.file = files'[p]
  BY DocumentAssumption DEF Add, Document
<1> HIDE DEF Add
<1>4. \A q \in Path : q # p => files'[q] = files[q]
  BY DEF TypeOK
<1>5. ASSUME NEW q \in Path, Parsed(q)'
      PROVE  \/ index'[q] # None /\ index'[q].file.id = files'[q].id
             \/ \E r \in Session : \E j \in 1..Len(todo'[r]) : todo'[r][j].path = q
  <2>1. CASE q = p
    BY <1>2, <1>3, <2>1
  <2>2. CASE q # p
    <3>1. Parsed(q) /\ files'[q] = files[q]
      BY <1>4, <1>5, <2>2 DEF Parsed, Exists
    <3>2. CASE index[q] # None /\ index[q].file.id = files[q].id
      BY <3>1, <3>2
    <3>3. CASE \E r \in Session : \E j \in 1..Len(todo[r]) : todo[r][j].path = q
      <4>1. PICK r \in Session : \E j \in 1..Len(todo[r]) : todo[r][j].path = q
        BY <3>3
      <4>2. r # s
        BY <4>1
      <4> QED BY <1>1, <4>1, <4>2
    <3> QED BY <3>1, <3>2, <3>3 DEF Findable
  <2> QED BY <2>1, <2>2
<1>6. ASSUME NEW r \in Session, NEW j \in 1..Len(todo'[r]), NEW q, q = todo'[r][j].path
      PROVE  /\ files'[q] # None
             /\ todo'[r][j].entry # None
             /\ todo'[r][j].entry.file.id = files'[q].id
  <2>1. CASE r = s
    <3>1. q = p /\ todo'[r][j] = Add(p)
      BY <1>2, <1>3, <1>6, <2>1
    <3> QED BY <1>3, <3>1, NoneAssumption
  <2>2. CASE r # s
    <3>1. todo'[r] = todo[r]
      BY <1>1, <2>2
    <3>2. /\ Exists(q) /\ todo[r][j].entry # None
          /\ todo[r][j].entry.file.id = files[q].id
      BY <1>6, <3>1 DEF Pending
    <3>3. q \in Path
      <4>1. todo[r] \in Seq(IndexOp) /\ j \in 1..Len(todo[r])
        BY <1>6, <3>1 DEF ToolTypeOK
      <4>2. todo[r][j] \in IndexOp
        BY <4>1, ElementOfSeq, Zenon
      <4> QED BY <1>6, <3>1, <4>2 DEF IndexOp
    <3>4. files'[q] # None /\ files'[q].id = files[q].id
      BY <1>4, <3>2, <3>3, NoneAssumption DEF Exists
    <3> QED BY <3>1, <3>2, <3>4
  <2> QED BY <2>1, <2>2
<1>7. Findable'
  BY <1>5 DEF Findable
<1>8. Pending'
  BY <1>6 DEF Pending, Exists
<1> QED BY <1>7, <1>8

LEMMA IndexStepFinds ==
    ASSUME TypeOK, ToolTypeOK, Findable, Pending, NEW s \in Session, IndexStep(s)
    PROVE  Findable' /\ Pending'
<1>1. todo[s] \in Seq(IndexOp) /\ todo[s] # << >>
  BY DEF IndexStep, ToolTypeOK
<1> DEFINE o == Head(todo[s])
<1>2. /\ o \in IndexOp /\ Tail(todo[s]) \in Seq(IndexOp)
      /\ Len(todo[s]) \in Nat /\ Len(Tail(todo[s])) = Len(todo[s]) - 1
      /\ \A j \in 1..Len(Tail(todo[s])) : Tail(todo[s])[j] = todo[s][j + 1]
  BY <1>1, HeadTailProperties, LenProperties
<1>3. o = todo[s][1] /\ 1 \in 1..Len(todo[s])
  BY <1>1, <1>2, EmptySeq
<1>4. /\ index' = [index EXCEPT ![o.path] = o.entry] /\ todo'[s] = Tail(todo[s])
      /\ UNCHANGED files /\ \A r \in Session : r # s => todo'[r] = todo[r]
  BY DEF IndexStep, bundleVars, ToolTypeOK
<1>5. /\ o.path \in Path /\ o.entry # None /\ Exists(o.path)
      /\ o.entry.file.id = files[o.path].id
  BY <1>2, <1>3 DEF IndexOp, Pending
<1> HIDE DEF o
<1>6. ASSUME NEW j \in 1..Len(Tail(todo[s]))
      PROVE  j + 1 \in 1..Len(todo[s]) /\ Tail(todo[s])[j] = todo[s][j + 1]
  BY <1>2
<1>7. ASSUME NEW p \in Path, Parsed(p)
      PROVE  \/ index'[p] # None /\ index'[p].file.id = files[p].id
             \/ \E r \in Session : \E j \in 1..Len(todo'[r]) : todo'[r][j].path = p
  <2>1. CASE p = o.path
    BY <1>4, <1>5, <2>1 DEF ToolTypeOK
  <2>2. CASE p # o.path
    <3>1. index'[p] = index[p]
      BY <1>4, <2>2 DEF ToolTypeOK
    <3>2. CASE index[p] # None /\ index[p].file.id = files[p].id
      BY <3>1, <3>2
    <3>3. CASE \E r \in Session : \E j \in 1..Len(todo[r]) : todo[r][j].path = p
      <4>1. PICK r \in Session : \E j \in 1..Len(todo[r]) : todo[r][j].path = p
        BY <3>3
      <4>2. PICK j \in 1..Len(todo[r]) : todo[r][j].path = p
        BY <4>1
      <4>3. CASE r # s
        BY <1>4, <4>1, <4>3
      <4>4. CASE r = s
        <5>1. j # 1
          BY <1>3, <2>2, <4>2, <4>4
        <5>2. j - 1 \in 1..Len(Tail(todo[s])) /\ (j - 1) + 1 = j
          BY <1>2, <4>2, <4>4, <5>1
        <5> QED BY <1>4, <1>6, <4>2, <4>4, <5>2
      <4> QED BY <4>3, <4>4
    <3> QED BY <1>7, <3>2, <3>3 DEF Findable
  <2> QED BY <2>1, <2>2
<1>8. ASSUME NEW r \in Session, NEW j \in 1..Len(todo'[r])
      PROVE  /\ files[todo'[r][j].path] # None
             /\ todo'[r][j].entry # None
             /\ todo'[r][j].entry.file.id = files[todo'[r][j].path].id
  <2>1. PICK k \in 1..Len(todo[r]) : todo'[r][j] = todo[r][k]
    BY <1>4, <1>6
  <2> QED BY <2>1 DEF Pending, Exists
<1>9. Findable'
  BY <1>4, <1>7 DEF Findable, Parsed, Exists
<1>10. Pending'
  BY <1>4, <1>8 DEF Pending, Exists
<1> QED BY <1>9, <1>10

\* Creates and updates of any number of sessions leave every readable concept
\* in the search index between requests, under its own path: the handlers
\* write the index under a lock of its own, in any order, and still none of
\* them replaces one concept's entry by another's or by nothing.
THEOREM SearchFindsWrites ==
    ASSUME ~MayMove
    PROVE  ToolSpec => []SearchFindsEveryConcept
<1> DEFINE Inv == TypeOK /\ ToolTypeOK
<1>1. ToolInit => Findable /\ Pending
  <2> SUFFICES ASSUME ToolInit PROVE Findable /\ Pending
    OBVIOUS
  <2>1. TypeOK /\ types \in [Path -> Name]
    BY InitToolType DEF ToolTypeOK
  <2>2. ASSUME NEW p \in Path, Parsed(p)
        PROVE  index[p] # None /\ index[p].file.id = files[p].id
    <3>1. index[p] = Doc(p) /\ Doc(p) \in Document
      BY <2>1, <2>2, DocType DEF ToolInit, Indexed, Parsed
    <3> QED BY <3>1, DocumentAssumption DEF Doc
  <2> QED BY <2>2 DEF ToolInit, Findable, Pending
<1>2. Inv /\ Findable /\ Pending /\ [ToolNext]_toolVars => Findable' /\ Pending'
  <2> SUFFICES ASSUME TypeOK, ToolTypeOK, Findable, Pending, [ToolNext]_toolVars
               PROVE  Findable' /\ Pending'
    OBVIOUS
  <2>1. UNCHANGED <<bundleVars, index, todo>> => Findable' /\ Pending'
    BY DEF bundleVars, Findable, Pending, Parsed, Exists
  <2>2. ASSUME NEW s \in Session, NEW i \in Id, NEW p \in Path, NEW links \in LinkSets,
               NEW requested, KbCreate(s, i, p, links, requested)
        PROVE  Findable' /\ Pending'
    <3>1. /\ Parsed(p)' /\ files' = [files EXCEPT ![p] = files'[p]] /\ files'[p] \in File
          /\ ~Exists(p)
      BY <2>2, CreateWrites DEF KbCreate
    <3>2. types'[p] \in Name
      BY <2>2, TypeForIsName DEF KbCreate, Resolves, ToolTypeOK
    <3>3. UNCHANGED index /\ todo[s] = << >> /\ todo' = [todo EXCEPT ![s] = <<Add(p)>>]
      BY <2>2 DEF KbCreate, CreateTodo, Idle
    <3> QED BY <3>1, <3>2, <3>3, WriteIsFound
  <2>3. ASSUME NEW s \in Session, KbUpdateWrite(s) PROVE Findable' /\ Pending'
    <3>1. PICK p : p = work[s].path
      OBVIOUS
    <3>2. /\ p \in Path /\ Parsed(p)' /\ files' = [files EXCEPT ![p] = files'[p]]
          /\ files'[p] \in File /\ files'[p].id = files[p].id
          /\ work[s] \in Merge /\ types' = [types EXCEPT ![p] = work[s].type]
          /\ UNCHANGED index /\ todo' = [todo EXCEPT ![s] = <<Add(p)>>]
      BY <2>3, <3>1, MergeWrites
    <3>3. todo[s] = << >> /\ types'[p] \in Name
      BY <2>3, <3>2 DEF KbUpdateWrite, ToolTypeOK, Merge
    <3> QED BY <3>2, <3>3, WriteIsFound
  <2>4. ASSUME UNCHANGED <<index, todo>>, UNCHANGED bundleVars PROVE Findable' /\ Pending'
    BY <2>1, <2>4
  <2>5. \/ UNCHANGED <<index, todo>>
        \/ \E s \in Session : IndexStep(s) \/ KbUpdateWrite(s)
        \/ \E s \in Session, i \in Id, p \in Path, links \in LinkSets, requested \in Requests :
              KbCreate(s, i, p, links, requested)
    <3>1. \A s \in Session, p \in Path : KbRead(s, p) => UNCHANGED <<index, todo>>
      BY DEF KbRead
    <3>2. \A s \in Session : \A p \in Path : \A body, requested, expected :
             KbUpdateRead(s, p, body, requested, expected) => UNCHANGED <<index, todo>>
      BY DEF KbUpdateRead
    <3>3. \A s \in Session : KbUpdateRejected(s) => UNCHANGED <<index, todo>>
      BY DEF KbUpdateRejected
    <3>4. UNCHANGED toolVars => UNCHANGED <<index, todo>>
      BY DEF toolVars
    <3>5. \A s \in Session : \A m, expected : ~KbMove(s, m, expected)
      BY DEF KbMove
    <3> QED BY <3>1, <3>2, <3>3, <3>4, <3>5 DEF ToolNext
  <2> QED BY <2>2, <2>3, <2>4, <2>5, WritesWithoutMoves, IndexStepFinds
<1>3. Inv /\ Findable => SearchFindsEveryConcept
  BY DEF Findable, SearchFindsEveryConcept
<1>4. ToolSpec => []Inv
  BY ToolTypeCorrect
<1> HIDE DEF Inv
<1> QED BY <1>1, <1>2, <1>3, <1>4, PTL DEF ToolSpec

\* The concept at p has version n and content d, or a later version.
Stands(p, n, d) ==
    /\ Parsed(p)
    /\ ConceptVersion(p) >= n
    /\ ConceptVersion(p) = n => Doc(p) = d

\* An update adds one to the version at its path.
LEMMA UpdateCounts ==
    ASSUME TypeOK, NEW p \in Path, NEW links, NEW aliases, NEW expected,
           Update(p, links, aliases, expected)
    PROVE  /\ ConceptVersion(p)' = ConceptVersion(p) + 1
           /\ \A q \in Path : q # p => snaps'[q] = snaps[q]
<1> DEFINE n == ConceptVersion(p)
<1>1. /\ n \in Version /\ snaps[p] \in [Version -> File \union {None}]
      /\ snaps'[p] = [snaps[p] EXCEPT ![n] = files[p]] /\ files[p] # None
  BY ConceptVersionIsNext, VersionAssumption
     DEF Update, CanUpdate, Snapshotted, TypeOK, Exists, Version
<1>2. \A v \in Version : snaps[p][v] # None => v < n
  BY ConceptVersionIsNext DEF Versions
<1> HIDE DEF n
<1>3. n \in Nat /\ n >= 1 /\ n + 1 \in Nat /\ n + 1 >= 1 /\ (n + 1) - 1 = n
  BY <1>1, VersionAssumption DEF Version
<1>4. n \in Numbers(snaps'[p]) /\ \A v \in Numbers(snaps'[p]) : v < n + 1
  <2>1. \A v \in Version : v # n => snaps'[p][v] = snaps[p][v]
    BY <1>1
  <2>2. snaps'[p][n] # None
    BY <1>1
  <2> QED BY <1>1, <1>2, <1>3, <2>1, <2>2, VersionAssumption DEF Numbers, Version
<1>5. Count(snaps'[p]) = n + 1
  BY <1>3, <1>4, CountIs
<1>6. \A q \in Path : q # p => snaps'[q] = snaps[q]
  BY DEF Update, TypeOK
<1> QED BY <1>5, <1>6, CountOf DEF n

LEMMA StandsKept ==
    ASSUME TypeOK, ToolTypeOK, ~MayMove, [ToolNext]_toolVars,
           NEW p \in Path, NEW n \in Nat, NEW d, Stands(p, n, d)
    PROVE  Stands(p, n, d)'
<1>1. ASSUME files'[p] = files[p], snaps'[p] = snaps[p], types'[p] = types[p]
      PROVE  Stands(p, n, d)'
  <2>1. Parsed(p)' /\ Doc(p)' = Doc(p)
    BY <1>1 DEF Stands, Parsed, Exists, Doc
  <2>2. ConceptVersion(p)' = ConceptVersion(p)
    BY <1>1, CountOf
  <2> QED BY <2>1, <2>2 DEF Stands
<1>2. CASE UNCHANGED bundleVars
  BY <1>1, <1>2 DEF bundleVars
<1>3. ASSUME NEW s \in Session, NEW i \in Id, NEW q \in Path, NEW links \in LinkSets,
             NEW requested, KbCreate(s, i, q, links, requested)
      PROVE  Stands(p, n, d)'
  <2>1. ~Exists(q) /\ files' = [files EXCEPT ![q] = files'[q]] /\ UNCHANGED snaps
    BY <1>3, CreateWrites DEF KbCreate, Create
  <2>2. q # p
    BY <2>1 DEF Stands, Parsed
  <2>3. types' = [types EXCEPT ![q] = TypeFor(q)]
    BY <1>3 DEF KbCreate
  <2> QED BY <1>1, <2>1, <2>2, <2>3 DEF TypeOK, ToolTypeOK
<1>4. ASSUME NEW s \in Session, KbUpdateWrite(s)
      PROVE  Stands(p, n, d)'
  <2>1. PICK q : q = work[s].path
    OBVIOUS
  <2>2. /\ q \in Path /\ Update(q, work[s].links, work[s].base.file.aliases, work[s].expected)
        /\ Parsed(q)' /\ files' = [files EXCEPT ![q] = files'[q]]
        /\ types' = [types EXCEPT ![q] = work[s].type]
    BY <1>4, <2>1, MergeWrites
  <2>3. /\ ConceptVersion(q)' = ConceptVersion(q) + 1
        /\ \A r \in Path : r # q => snaps'[r] = snaps[r]
    BY <2>2, UpdateCounts
  <2>4. CASE q = p
    <3>1. ConceptVersion(p) >= n /\ ConceptVersion(p) \in Nat
      BY ConceptVersionIsNext DEF Stands
    <3>2. ConceptVersion(p)' >= n /\ ConceptVersion(p)' # n
      BY <2>3, <2>4, <3>1
    <3> QED BY <2>2, <2>4, <3>2 DEF Stands
  <2>5. CASE q # p
    BY <1>1, <2>2, <2>3, <2>5 DEF TypeOK, ToolTypeOK
  <2> QED BY <2>4, <2>5
<1> QED BY <1>2, <1>3, <1>4, WritesWithoutMoves

\* What a session has read is or was the content of the concept at that
\* version; so is what it merges into, if it passes the version it read.
Remembers(s) ==
    \A p \in Path, n \in Nat : \A d :
        /\ seen[s] # None /\ seen[s].path = p /\ seen[s].version = n /\ seen[s].doc = d
             => Stands(p, n, d)
        /\ work[s] # None /\ work[s].path = p /\ work[s].expected = n /\ n > 0
             /\ d \in {work[s].seen, work[s].base}
             => Stands(p, n, d)

\* What a session has read and what it merges change only by its own reads,
\* and a merge ends; moves do neither.
LEMMA SessionSteps ==
    ASSUME ToolTypeOK, [ToolNext]_toolVars, NEW s \in Session
    PROVE  \/ seen'[s] = seen[s] /\ (work'[s] = work[s] \/ work'[s] = None)
           \/ \E q \in Path : KbRead(s, q)
           \/ \E q \in Path : \E body, requested, expected :
                 KbUpdateRead(s, q, body, requested, expected)
<1>1. CASE UNCHANGED toolVars
  BY <1>1 DEF toolVars
<1>2. ASSUME NEW r \in Session, NEW q \in Path, KbRead(r, q), r # s
      PROVE  seen'[s] = seen[s] /\ work'[s] = work[s]
  BY <1>2 DEF KbRead, ToolTypeOK
<1>3. ASSUME NEW r \in Session, NEW q, NEW body, NEW requested, NEW expected,
             KbUpdateRead(r, q, body, requested, expected), r # s
      PROVE  seen'[s] = seen[s] /\ work'[s] = work[s]
  BY <1>3 DEF KbUpdateRead, ToolTypeOK
<1>4. ASSUME NEW r \in Session, KbUpdateWrite(r) \/ KbUpdateRejected(r)
      PROVE  seen'[s] = seen[s] /\ (work'[s] = work[s] \/ work'[s] = None)
  BY <1>4 DEF KbUpdateWrite, KbUpdateRejected, ToolTypeOK
<1>5. ASSUME NEW r \in Session, IndexStep(r)
      PROVE  seen'[s] = seen[s] /\ work'[s] = work[s]
  BY <1>5 DEF IndexStep
<1>6. ASSUME NEW r, NEW i, NEW q, NEW links, NEW requested, KbCreate(r, i, q, links, requested)
      PROVE  seen'[s] = seen[s] /\ work'[s] = work[s]
  BY <1>6 DEF KbCreate
<1>7. ASSUME NEW r, NEW m, NEW expected, KbMove(r, m, expected)
      PROVE  seen'[s] = seen[s] /\ work'[s] = work[s]
  BY <1>7 DEF KbMove
<1> QED BY <1>1, <1>2, <1>3, <1>4, <1>5, <1>6, <1>7 DEF ToolNext

LEMMA RemembersKept ==
    ASSUME TypeOK, ToolTypeOK, ~MayMove, [ToolNext]_toolVars, NEW s \in Session, Remembers(s)
    PROVE  Remembers(s)'
<1> SUFFICES ASSUME NEW p \in Path, NEW n \in Nat, NEW d
             PROVE  /\ seen'[s] # None /\ seen'[s].path = p /\ seen'[s].version = n
                         /\ seen'[s].doc = d
                         => Stands(p, n, d)'
                    /\ work'[s] # None /\ work'[s].path = p /\ work'[s].expected = n /\ n > 0
                         /\ d \in {work'[s].seen, work'[s].base}
                         => Stands(p, n, d)'
  BY DEF Remembers
<1>1. Stands(p, n, d) => Stands(p, n, d)'
  BY StandsKept
<1>2. CASE seen'[s] = seen[s] /\ (work'[s] = work[s] \/ work'[s] = None)
  BY <1>1, <1>2 DEF Remembers
<1>3. ASSUME NEW q \in Path, KbRead(s, q)
      PROVE  seen'[s] # None /\ seen'[s].path = p /\ seen'[s].version = n /\ seen'[s].doc = d
                => Stands(p, n, d)'
  <2>1. PICK r : r = Resolve(q)
    OBVIOUS
  <2>2. /\ seen'[s] = [path |-> r, version |-> ConceptVersion(r), doc |-> Doc(r)]
        /\ Parsed(r)
    BY <1>3, <2>1 DEF KbRead, ToolTypeOK
  <2>3. SUFFICES ASSUME seen'[s].path = p, seen'[s].version = n, seen'[s].doc = d
                 PROVE  Stands(p, n, d)
    BY <1>1
  <2>4. r = p /\ ConceptVersion(p) = n /\ Doc(p) = d
    BY <2>2, <2>3
  <2> QED BY <2>2, <2>4 DEF Stands
<1>4. ASSUME NEW q \in Path, KbRead(s, q)
      PROVE  work'[s] # None /\ work'[s].path = p /\ work'[s].expected = n /\ n > 0
                /\ d \in {work'[s].seen, work'[s].base} => Stands(p, n, d)'
  BY <1>1, <1>4 DEF KbRead, Remembers
<1>5. ASSUME NEW q \in Path, NEW body, NEW requested, NEW expected,
             KbUpdateRead(s, q, body, requested, expected)
      PROVE  work'[s] # None /\ work'[s].path = p /\ work'[s].expected = n /\ n > 0
                /\ d \in {work'[s].seen, work'[s].base} => Stands(p, n, d)'
  <2>1. SUFFICES ASSUME work'[s].path = p, work'[s].expected = n, n > 0,
                        d \in {work'[s].seen, work'[s].base}
                 PROVE  Stands(p, n, d)
    BY <1>1
  <2>2. /\ work'[s].path = q /\ work'[s].base = Doc(q) /\ work'[s].expected = expected
        /\ work'[s].seen = IF expected = 0 THEN Doc(q) ELSE seen[s].doc
    BY <1>5 DEF KbUpdateRead, ToolTypeOK
  <2>3. q = p /\ expected = n
    BY <2>1, <2>2
  <2>4. Parsed(p) /\ seen[s] # None /\ seen[s].path = p /\ seen[s].version = n
    BY <1>5, <2>1, <2>3 DEF KbUpdateRead
  <2>5. Stands(p, n, seen[s].doc)
    BY <2>4 DEF Remembers
  <2>6. Stands(p, n, Doc(p))
    BY <2>5 DEF Stands
  <2>7. d = Doc(p) \/ d = seen[s].doc
    BY <2>1, <2>2, <2>3
  <2> QED BY <2>5, <2>6, <2>7
<1>6. ASSUME NEW q \in Path, NEW body, NEW requested, NEW expected,
             KbUpdateRead(s, q, body, requested, expected)
      PROVE  seen'[s] # None /\ seen'[s].path = p /\ seen'[s].version = n /\ seen'[s].doc = d
                => Stands(p, n, d)'
  BY <1>1, <1>6 DEF KbUpdateRead, Remembers
<1> QED BY <1>2, <1>3, <1>4, <1>5, <1>6, SessionSteps

LEMMA InitRemembers == ASSUME ToolInit, NEW s \in Session PROVE Remembers(s)
  BY DEF ToolInit, Remembers

\* Two sessions that read the same version cannot both write: an update that
\* passes the version its client read replaces exactly the document the
\* client read, and merged into exactly that one, whatever other sessions do
\* between the reads and the write.  No update is lost this way, for any
\* number of sessions that create and update concepts.
THEOREM UpdatesAreOptimistic ==
    ASSUME ~MayMove
    PROVE  ToolSpec => UpdatesReplaceWhatWasRead
<1> DEFINE Inv == TypeOK /\ ToolTypeOK
           All == \A s \in Session : Remembers(s)
           Kept == \A s \in Session :
                      work[s] # None /\ work[s].expected > 0 /\ work'[s] = None /\ snaps' # snaps
                         => Doc(work[s].path) = work[s].seen /\ work[s].base = work[s].seen
<1>1. ToolInit => All
  BY InitRemembers
<1>2. Inv /\ All /\ [ToolNext]_toolVars => All'
  BY RemembersKept
<1>3. Inv /\ All /\ [ToolNext]_toolVars => [Kept]_toolVars
  <2> SUFFICES ASSUME TypeOK, ToolTypeOK, All, [ToolNext]_toolVars,
                      NEW s \in Session, work[s] # None, work[s].expected > 0,
                      work'[s] = None, snaps' # snaps
               PROVE  Doc(work[s].path) = work[s].seen /\ work[s].base = work[s].seen
    OBVIOUS
  <2>1. PICK r \in Session : KbUpdateWrite(r)
    <3>1. \A r \in Session, i \in Id, p \in Path, links \in LinkSets, requested \in Requests :
             KbCreate(r, i, p, links, requested) => UNCHANGED snaps
      BY DEF KbCreate, Create
    <3>2. ~UNCHANGED bundleVars
      BY DEF bundleVars
    <3> QED BY <3>1, <3>2, WritesWithoutMoves
  <2>2. r = s
    BY <2>1 DEF KbUpdateWrite, ToolTypeOK
  <2>3. PICK p, n : p = work[s].path /\ n = work[s].expected
    OBVIOUS
  <2>4. p \in Path /\ n \in Nat /\ CanUpdate(p, work[s].links, n)
    <3>1. work[s] \in Merge
      BY DEF ToolTypeOK
    <3>2. n \in Nat /\ p \in Path
      BY <2>3, <3>1, VersionAssumption DEF Merge
    <3> QED BY <2>1, <2>2, <2>3, <3>2 DEF KbUpdateWrite, Update
  <2>5. ConceptVersion(p) = n
    BY <2>3, <2>4 DEF CanUpdate
  <2>6. Stands(p, n, work[s].seen) /\ Stands(p, n, work[s].base)
    BY <2>3, <2>4 DEF Remembers
  <2> QED BY <2>3, <2>5, <2>6 DEF Stands
<1>4. ToolSpec => []Inv
  BY ToolTypeCorrect
<1> HIDE DEF Inv, All, Kept
<1>5. ToolSpec => [][Kept]_toolVars
  BY <1>1, <1>2, <1>3, <1>4, PTL DEF ToolSpec
<1> QED BY <1>5 DEF UpdatesReplaceWhatWasRead, Kept

-----------------------------------------------------------------------------
(* The types of concepts.                                                  *)

\* An update sets the type its concept had when it was read, or its folder's.
TypeChosen(s) ==
    \A p : work[s] # None /\ work[s].path = p =>
        work[s].type = work[s].base.type \/ FollowsFolder(p, work[s].type)

\* What an update was merged into is still there.
BaseStands(s) ==
    \A p : work[s] # None /\ work[s].path = p => Parsed(p) /\ Doc(p) = work[s].base

LEMMA TypeChosenKept ==
    ASSUME ToolTypeOK, [ToolNext]_toolVars, NEW s \in Session, TypeChosen(s)
    PROVE  TypeChosen(s)'
<1>1. CASE work'[s] = work[s] \/ work'[s] = None
  BY <1>1 DEF TypeChosen
<1>2. ASSUME NEW q \in Path, NEW body, NEW requested, NEW expected,
             KbUpdateRead(s, q, body, requested, expected)
      PROVE  TypeChosen(s)'
  <2>1. /\ work'[s].path = q /\ work'[s].base = Doc(q)
        /\ work'[s].type = IF requested = {} THEN types[q] ELSE TypeFor(q)
        /\ requested # {} => Resolves(q, requested)
    BY <1>2 DEF KbUpdateRead, ToolTypeOK
  <2>2. Doc(q).type = types[q]
    BY DEF Doc
  <2>3. work'[s].type = work'[s].base.type \/ FollowsFolder(q, work'[s].type)
    BY <2>1, <2>2 DEF Resolves, FollowsFolder
  <2> QED BY <2>1, <2>3 DEF TypeChosen
<1>3. ASSUME NEW q \in Path, KbRead(s, q) PROVE work'[s] = work[s]
  BY <1>3 DEF KbRead
<1> QED BY <1>1, <1>2, <1>3, SessionSteps

\* A step leaves a concept with a type that is not its folder's only if it
\* leaves the concept where it was, and its type as it was.
LEMMA OnlyRepairs ==
    ASSUME TypeOK, ToolTypeOK, [ToolNext]_toolVars,
           \A s \in Session : KbUpdateWrite(s) => TypeChosen(s) /\ BaseStands(s),
           NEW p \in Path, Parsed(p)', ~FollowsFolder(p, types'[p])
    PROVE  Parsed(p) /\ files'[p].id = files[p].id /\ types'[p] = types[p]
<1>1. ASSUME files'[p] = files[p], types'[p] = types[p]
      PROVE  Parsed(p) /\ files'[p].id = files[p].id /\ types'[p] = types[p]
  BY <1>1 DEF Parsed, Exists
<1>2. CASE UNCHANGED bundleVars
  BY <1>1, <1>2 DEF bundleVars
<1>3. ASSUME NEW s \in Session, NEW i \in Id, NEW q \in Path, NEW links \in LinkSets,
             NEW requested, KbCreate(s, i, q, links, requested)
      PROVE  files'[p] = files[p] /\ types'[p] = types[p]
  <2>1. files' = [files EXCEPT ![q] = files'[q]]
    BY <1>3, CreateWrites DEF KbCreate
  <2>2. types' = [types EXCEPT ![q] = TypeFor(q)] /\ InRegistry(q)
    BY <1>3 DEF KbCreate, Resolves
  <2>3. q # p
    BY <2>2 DEF FollowsFolder, ToolTypeOK
  <2> QED BY <2>1, <2>2, <2>3 DEF TypeOK, ToolTypeOK
<1>4. ASSUME NEW s \in Session, KbUpdateWrite(s)
      PROVE  Parsed(p) /\ files'[p].id = files[p].id /\ types'[p] = types[p]
  <2>1. PICK q : q = work[s].path
    OBVIOUS
  <2>2. /\ q \in Path /\ files' = [files EXCEPT ![q] = files'[q]]
        /\ files'[q].id = files[q].id /\ types' = [types EXCEPT ![q] = work[s].type]
    BY <1>4, <2>1, MergeWrites
  <2>3. CASE q # p
    BY <1>1, <2>2, <2>3 DEF TypeOK, ToolTypeOK
  <2>4. CASE q = p
    <3>1. work[s] # None /\ types'[p] = work[s].type
      BY <1>4, <2>2, <2>4 DEF KbUpdateWrite, ToolTypeOK
    <3>2. Parsed(p) /\ Doc(p) = work[s].base /\ work[s].type = work[s].base.type
      BY <1>4, <2>1, <2>4, <3>1 DEF TypeChosen, BaseStands
    <3>3. Doc(p).type = types[p]
      BY DEF Doc
    <3> QED BY <2>2, <2>4, <3>1, <3>2, <3>3
  <2> QED BY <2>3, <2>4
<1>5. ASSUME NEW s \in Session, NEW m \in Batches, NEW expected, KbMove(s, m, expected)
      PROVE  Parsed(p) /\ files'[p].id = files[p].id /\ types'[p] = types[p]
  <2>1. /\ MoveBatch(m, expected) /\ types' = TypesAfter(m)
        /\ \A q \in Targets(m) : InRegistry(q)
    BY <1>5 DEF KbMove, Resolves
  <2>2. p \notin Targets(m)
    BY <2>1 DEF TypesAfter, FollowsFolder
  <2>3. types'[p] = types[p]
    BY <2>1, <2>2 DEF TypesAfter
  <2>4. p \notin Sources(m)
    BY <2>1, MoveWrites DEF Parsed
  <2>5. CASE p \in Relinked(m)
    <3>1. Parsed(p) /\ files'[p] = RelinkedFile(m, p)
      BY <2>1, <2>2, <2>4, <2>5 DEF Relinked, MoveBatch, FilesAfter
    <3>2. files'[p].id = files[p].id
      BY <3>1, RelinkedFileType DEF Parsed
    <3> QED BY <2>3, <3>1, <3>2
  <2>6. CASE p \notin Relinked(m)
    <3>1. files'[p] = files[p]
      BY <2>1, <2>2, <2>4, <2>6, MoveWrites
    <3> QED BY <1>1, <2>3, <3>1
  <2> QED BY <2>5, <2>6
<1>6. \/ UNCHANGED bundleVars
      \/ \E s \in Session, i \in Id, q \in Path, links \in LinkSets, requested \in Requests :
            KbCreate(s, i, q, links, requested)
      \/ \E s \in Session : KbUpdateWrite(s)
      \/ \E s \in Session, m \in Batches : \E expected : KbMove(s, m, expected)
  <2>1. \A s \in Session, q \in Path : KbRead(s, q) => UNCHANGED bundleVars
    BY DEF KbRead
  <2>2. \A s \in Session, q \in Path : \A body, requested, expected :
           KbUpdateRead(s, q, body, requested, expected) => UNCHANGED bundleVars
    BY DEF KbUpdateRead
  <2>3. \A s \in Session : KbUpdateRejected(s) \/ IndexStep(s) => UNCHANGED bundleVars
    BY DEF KbUpdateRejected, IndexStep
  <2>4. UNCHANGED toolVars => UNCHANGED bundleVars
    BY DEF toolVars
  <2> QED BY <2>1, <2>2, <2>3, <2>4 DEF ToolNext
<1> QED BY <1>1, <1>2, <1>3, <1>4, <1>5, <1>6

\* Whatever creates and versioned updates overlap, none gives a concept a
\* type that is not its folder's, undoes the repair of a type, or brings a
\* concept into an unregistered folder.
THEOREM TypesOnlyRepaired ==
    ASSUME ~MayMove, Versioned
    PROVE  ToolSpec => TypesAreOnlyRepaired
<1> DEFINE Inv == TypeOK /\ ToolTypeOK
           All == \A s \in Session :
                     /\ Remembers(s) /\ TypeChosen(s)
                     /\ work[s] # None => work[s].expected > 0
           Kept == \A p \in Path :
                      Parsed(p)' /\ ~FollowsFolder(p, types[p])'
                         => Parsed(p) /\ files'[p].id = files[p].id /\ types'[p] = types[p]
<1>1. ToolInit => All
  <2> SUFFICES ASSUME ToolInit PROVE All
    OBVIOUS
  <2>1. \A s \in Session : work[s] = None
    BY DEF ToolInit
  <2> QED BY <2>1, InitRemembers DEF TypeChosen
<1>2. Inv /\ All /\ [ToolNext]_toolVars => All'
  <2> SUFFICES ASSUME TypeOK, ToolTypeOK, All, [ToolNext]_toolVars, NEW s \in Session
               PROVE  /\ Remembers(s)' /\ TypeChosen(s)'
                      /\ work'[s] # None => work'[s].expected > 0
    OBVIOUS
  <2>1. ASSUME NEW q \in Path, NEW body, NEW requested, NEW expected,
               KbUpdateRead(s, q, body, requested, expected)
        PROVE  work'[s].expected > 0
    <3>1. /\ expected # 0 /\ seen[s] # None /\ seen[s].version = expected
          /\ work'[s].expected = expected
      BY <2>1 DEF KbUpdateRead, ToolTypeOK
    <3>2. expected \in 1..(MaxVersion + 1)
      BY <3>1 DEF ToolTypeOK, Reading
    <3> QED BY <3>1, <3>2, VersionAssumption
  <2>2. \A q \in Path : KbRead(s, q) => work'[s] = work[s]
    BY DEF KbRead
  <2> QED BY <2>1, <2>2, SessionSteps, RemembersKept, TypeChosenKept
<1>3. Inv /\ All /\ [ToolNext]_toolVars => [Kept]_toolVars
  <2> SUFFICES ASSUME TypeOK, ToolTypeOK, All, [ToolNext]_toolVars,
                      NEW p \in Path, Parsed(p)', ~FollowsFolder(p, types'[p])
               PROVE  Parsed(p) /\ files'[p].id = files[p].id /\ types'[p] = types[p]
    BY DEF FollowsFolder
  <2>1. ASSUME NEW s \in Session, KbUpdateWrite(s) PROVE BaseStands(s)
    <3>1. PICK q, n : q = work[s].path /\ n = work[s].expected
      OBVIOUS
    <3>2. work[s] # None /\ work[s] \in Merge
      BY <2>1 DEF KbUpdateWrite, ToolTypeOK
    <3>3. q \in Path /\ n \in Nat /\ n > 0
      BY <3>1, <3>2, VersionAssumption DEF Merge
    <3>4. ConceptVersion(q) = n
      BY <2>1, <3>1, <3>3 DEF KbUpdateWrite, Update, CanUpdate
    <3>5. Stands(q, n, work[s].base)
      BY <3>1, <3>2, <3>3 DEF Remembers
    <3> QED BY <3>1, <3>4, <3>5 DEF Stands, BaseStands
  <2> QED BY <2>1, OnlyRepairs
<1>4. ToolSpec => []Inv
  BY ToolTypeCorrect
<1> HIDE DEF Inv, All, Kept
<1>5. ToolSpec => [][Kept]_toolVars
  BY <1>1, <1>2, <1>3, <1>4, PTL DEF ToolSpec
<1> QED BY <1>5 DEF TypesAreOnlyRepaired, Kept

\* The same for one session at a time, which may also move concepts and need
\* not pass a version.
THEOREM TypesOnlyRepairedAlone ==
    ASSUME NEW s, Session = {s}
    PROVE  ToolSpec => TypesAreOnlyRepaired
<1> DEFINE Inv == TypeOK /\ ToolTypeOK
           Mine == TypeChosen(s) /\ BaseStands(s)
           Kept == \A p \in Path :
                      Parsed(p)' /\ ~FollowsFolder(p, types[p])'
                         => Parsed(p) /\ files'[p].id = files[p].id /\ types'[p] = types[p]
<1>1. ToolInit => Mine
  BY DEF ToolInit, TypeChosen, BaseStands
<1>2. Inv /\ Mine /\ [ToolNext]_toolVars => Mine'
  <2> SUFFICES ASSUME ToolTypeOK, BaseStands(s), TypeChosen(s), [ToolNext]_toolVars
               PROVE  TypeChosen(s)' /\ BaseStands(s)'
    OBVIOUS
  <2>1. ASSUME work'[s] = None PROVE BaseStands(s)'
    BY <2>1 DEF BaseStands
  <2>2. ASSUME work'[s] = work[s], UNCHANGED bundleVars PROVE BaseStands(s)'
    BY <2>2 DEF BaseStands, bundleVars, Parsed, Exists, Doc
  <2>3. ASSUME NEW q \in Path, NEW body, NEW requested, NEW expected,
               KbUpdateRead(s, q, body, requested, expected)
        PROVE  BaseStands(s)'
    <3>1. /\ work'[s].path = q /\ work'[s].base = Doc(q) /\ Parsed(q)
          /\ UNCHANGED bundleVars
      BY <2>3 DEF KbUpdateRead, ToolTypeOK
    <3>2. Parsed(q)' /\ Doc(q)' = Doc(q)
      BY <3>1 DEF bundleVars, Parsed, Exists, Doc
    <3> QED BY <3>1, <3>2 DEF BaseStands
  <2>4. \A q, i, links, requested : KbCreate(s, i, q, links, requested) => work'[s] = None
    BY DEF KbCreate, Idle
  <2>5. \A m, expected : KbMove(s, m, expected) => work'[s] = None
    BY DEF KbMove, Idle
  <2>6. KbUpdateWrite(s) \/ KbUpdateRejected(s) => work'[s] = None
    BY DEF KbUpdateWrite, KbUpdateRejected, ToolTypeOK
  <2>7. IndexStep(s) \/ UNCHANGED toolVars => work'[s] = work[s] /\ UNCHANGED bundleVars
    BY DEF IndexStep, toolVars
  <2>8. \A q \in Path : KbRead(s, q) => work'[s] = work[s] /\ UNCHANGED bundleVars
    BY DEF KbRead
  <2> QED
    BY <2>1, <2>2, <2>3, <2>4, <2>5, <2>6, <2>7, <2>8, TypeChosenKept DEF ToolNext
<1>3. Inv /\ Mine /\ [ToolNext]_toolVars => [Kept]_toolVars
  <2> SUFFICES ASSUME TypeOK, ToolTypeOK, Mine, [ToolNext]_toolVars,
                      NEW p \in Path, Parsed(p)', ~FollowsFolder(p, types'[p])
               PROVE  Parsed(p) /\ files'[p].id = files[p].id /\ types'[p] = types[p]
    BY DEF FollowsFolder
  <2> QED BY OnlyRepairs
<1>4. ToolSpec => []Inv
  BY ToolTypeCorrect
<1> HIDE DEF Inv, Mine, Kept
<1>5. ToolSpec => [][Kept]_toolVars
  BY <1>1, <1>2, <1>3, <1>4, PTL DEF ToolSpec
<1> QED BY <1>5 DEF TypesAreOnlyRepaired, Kept
-----------------------------------------------------------------------------
(* Search: what is found, and in which order.                              *)

\* What lessResult compares.
ResultType == [path : Path, score : Nat, deprecated : BOOLEAN]

\* Each result is less than those behind it.
Ranked(sorted) ==
    \A j, k \in 1..Len(sorted) : j < k => LessResult(sorted[j], sorted[k])

\* A score is a number, whatever the query.
LEMMA ScoreType ==
    ASSUME NEW text, NEW words \in Seq(Term)
    PROVE  Score(text, words) \in Nat
<1> DEFINE n == Len(words)
           Sum == CHOOSE f : f = [k \in 0..n |-> IF k = 0 THEN 0
                                     ELSE f[k - 1] + Weight(text, words[k])]
<1>1. n \in Nat
  OBVIOUS
<1>2. \A word : Weight(text, word) \in Nat
  BY DEF Weight
<1> DEFINE step == [x \in (1..n) \X Nat |-> x[2] + Weight(text, words[x[1]])]
<1>3. step \in [(1..n) \X Nat -> Nat]
  BY <1>2
<1>4. PICK f \in [0..n -> Nat] : Recursive(f, n, 0, step)
  <2>1. 0 \in Nat
    OBVIOUS
  <2> HIDE DEF step, n
  <2> QED BY <1>1, <1>3, <2>1, RecursionDefines, Zenon
<1>5. f = [k \in 0..n |-> IF k = 0 THEN 0 ELSE f[k - 1] + Weight(text, words[k])]
  <2>1. ASSUME NEW k \in 1..n PROVE f[k] = f[k - 1] + Weight(text, words[k])
    <3>1. k - 1 \in 0..n
      BY <1>1
    <3> QED BY <1>4, <3>1 DEF Recursive
  <2> HIDE DEF n, step
  <2> QED BY <1>4, <2>1 DEF Recursive
<1>6. Sum = [k \in 0..n |-> IF k = 0 THEN 0 ELSE Sum[k - 1] + Weight(text, words[k])]
  BY <1>5
<1>7. Score(text, words) = IF words = << >> THEN 1 ELSE Sum[n]
  BY DEF Score
<1> DEFINE Good == {k \in 0..n : Sum[k] \in Nat}
<1>8. \A k \in 0..n : k \in Good
  <2> HIDE DEF Sum, n
  <2>1. 0 \in Good
    BY <1>1, <1>6
  <2>2. ASSUME NEW k \in 1..n, k - 1 \in Good PROVE k \in Good
    <3>1. k \in 0..n /\ k # 0 /\ Sum[k - 1] \in Nat
      BY <1>1, <2>2
    <3>2. Sum[k] = Sum[k - 1] + Weight(text, words[k])
      BY <1>6, <3>1
    <3> QED BY <1>2, <3>1, <3>2
  <2> HIDE DEF Good
  <2> QED BY <1>1, <2>1, <2>2, CountUp
<1>9. Sum[n] \in Nat
  <2> HIDE DEF Sum, n
  <2> QED BY <1>1, <1>8
<1> HIDE DEF Sum
<1> QED BY <1>7, <1>9

\* lessResult is a strict order in which different paths are never equal.
LEMMA RankingOrder ==
    ASSUME NEW a \in ResultType, NEW b \in ResultType, NEW c \in ResultType
    PROVE  /\ a.path # b.path => LessResult(a, b) \/ LessResult(b, a)
           /\ LessResult(a, b) /\ LessResult(b, c) => LessResult(a, c)
<1>1. a.path \in Nat /\ b.path \in Nat /\ c.path \in Nat
  BY PathAssumption DEF ResultType
<1>2. a.score \in Nat /\ b.score \in Nat /\ c.score \in Nat
  BY DEF ResultType
<1>3. a.deprecated \in BOOLEAN /\ b.deprecated \in BOOLEAN /\ c.deprecated \in BOOLEAN
  BY DEF ResultType
<1> QED BY <1>1, <1>2, <1>3 DEF LessResult

\* A result put into a ranked list of others, by moving left past all that it
\* is less than, leaves the list ranked.
LEMMA SinkRanks ==
    ASSUME NEW sorted \in Seq(ResultType), Ranked(sorted),
           NEW r \in ResultType, \A j \in 1..Len(sorted) : sorted[j].path # r.path
    PROVE  /\ Sink(sorted, r) \in Seq(ResultType) /\ Ranked(Sink(sorted, r))
           /\ \A x : (\E j \in 1..Len(Sink(sorted, r)) : Sink(sorted, r)[j] = x)
                 <=> x = r \/ \E j \in 1..Len(sorted) : sorted[j] = x
<1> DEFINE n == Len(sorted)
           passed == {k \in DOMAIN sorted : \A j \in k..n : LessResult(r, sorted[j])}
           Free == {k \in 1..(n + 1) : \A j \in k..n : LessResult(r, sorted[j])}
<1>1. n \in Nat /\ DOMAIN sorted = 1..n /\ \A j \in 1..n : sorted[j] \in ResultType
  OBVIOUS
<1>2. PICK m \in Free : \A k \in Free : m <= k
  <2>1. Free \subseteq Nat /\ n + 1 \in Free
    BY <1>1
  <2> HIDE DEF Free
  <2> QED BY <2>1, SmallestOf
<1>3. passed = m..n
  <2>1. ASSUME NEW k \in passed PROVE k \in m..n
    BY <1>1, <1>2, <2>1
  <2>2. ASSUME NEW k \in m..n PROVE k \in passed
    BY <1>1, <1>2, <2>2
  <2> QED BY <2>1, <2>2
<1>4. m \in 1..(n + 1) /\ Cardinality(passed) = n - m + 1
  <2>1. m \in 1..(n + 1)
    BY <1>2
  <2>2. Cardinality(m..n) = IF m > n THEN 0 ELSE n - m + 1
    <3>1. m \in Int /\ n \in Int
      BY <1>1, <2>1
    <3> HIDE DEF n
    <3> QED BY <3>1, FS_Interval
  <2> HIDE DEF passed, Free, n
  <2> QED BY <1>1, <1>3, <2>1, <2>2
<1>5. Sink(sorted, r) = SubSeq(sorted, 1, m - 1) \o <<r>> \o SubSeq(sorted, m, n)
  <2>1. Len(sorted) - Cardinality(passed) + 1 = m
    BY <1>1, <1>4
  <2> QED BY <2>1 DEF Sink, Ext!InsertAt
<1> DEFINE a == SubSeq(sorted, 1, m - 1)
           b == SubSeq(sorted, m, n)
           t == Sink(sorted, r)
<1>6. /\ a \in Seq(ResultType) /\ Len(a) = m - 1
      /\ \A j \in 1..(m - 1) : a[j] = sorted[j]
  BY <1>1, <1>4, SubSeqProperties
<1>7. /\ b \in Seq(ResultType) /\ Len(b) = n - m + 1
      /\ \A j \in 1..(n - m + 1) : b[j] = sorted[m + j - 1]
  BY <1>1, <1>4, SubSeqProperties
<1> HIDE DEF a, b, n, passed, Free
<1>8. t = a \o <<r>> \o b
  BY <1>5 DEF a, b
<1>9. /\ t \in Seq(ResultType) /\ Len(t) = n + 1
      /\ \A j \in 1..(n + 1) :
            t[j] = IF j < m THEN sorted[j] ELSE IF j = m THEN r ELSE sorted[j - 1]
  <2>1. /\ a \o <<r>> \in Seq(ResultType) /\ Len(a \o <<r>>) = m
        /\ \A j \in 1..m : (a \o <<r>>)[j] = IF j < m THEN sorted[j] ELSE r
    BY <1>1, <1>4, <1>6
  <2>2. t \in Seq(ResultType) /\ Len(t) = n + 1
    BY <1>1, <1>4, <1>7, <1>8, <2>1
  <2>3. ASSUME NEW j \in 1..(n + 1)
        PROVE  t[j] = IF j < m THEN sorted[j] ELSE IF j = m THEN r ELSE sorted[j - 1]
    <3>1. CASE j <= m
      BY <1>1, <1>4, <1>7, <1>8, <2>1, <3>1
    <3>2. CASE j > m
      <4>1. j - m \in 1..(n - m + 1) /\ t[j] = b[j - m] /\ m + (j - m) - 1 = j - 1
        BY <1>1, <1>4, <1>7, <1>8, <2>1, <3>2
      <4> QED BY <1>1, <1>4, <1>7, <3>2, <4>1
    <3> QED BY <1>1, <1>4, <3>1, <3>2
  <2> QED BY <2>2, <2>3
<1> HIDE DEF t
<1>10. ASSUME NEW j \in 1..n, j < m PROVE LessResult(sorted[j], r)
  <2>1. m - 1 \in 1..n /\ ~(m <= m - 1)
    BY <1>1, <1>4, <1>10
  <2>2. m - 1 \notin Free
    BY <1>2, <2>1
  <2>3. PICK k \in (m - 1)..n : ~LessResult(r, sorted[k])
    BY <1>1, <2>1, <2>2 DEF Free
  <2>4. k = m - 1
    <3>1. CASE k \in m..n
      BY <1>2, <2>3, <3>1 DEF Free
    <3> QED BY <1>1, <1>4, <2>3, <3>1
  <2>5. LessResult(sorted[m - 1], r)
    <3>1. sorted[m - 1] \in ResultType /\ sorted[m - 1].path # r.path
      BY <1>1, <2>1 DEF n
    <3> QED BY <2>3, <2>4, <3>1, RankingOrder
  <2>6. CASE j = m - 1
    BY <2>5, <2>6
  <2>7. CASE j # m - 1
    <3>1. LessResult(sorted[j], sorted[m - 1])
      BY <1>1, <1>4, <1>10, <2>1, <2>7 DEF Ranked, n
    <3>2. sorted[j] \in ResultType /\ sorted[m - 1] \in ResultType
      BY <1>1, <1>10, <2>1
    <3> QED BY <2>5, <3>1, <3>2, RankingOrder
  <2> QED BY <2>6, <2>7
<1>11. \A j \in m..n : LessResult(r, sorted[j])
  BY <1>2 DEF Free
<1>12. Ranked(t)
  <2> SUFFICES ASSUME NEW j \in 1..(n + 1), NEW k \in 1..(n + 1), j < k
               PROVE  LessResult(t[j], t[k])
    BY <1>9 DEF Ranked
  <2>1. CASE k < m
    <3>1. j \in 1..n /\ k \in 1..n /\ t[j] = sorted[j] /\ t[k] = sorted[k]
      BY <1>1, <1>4, <1>9, <2>1
    <3> QED BY <3>1 DEF Ranked, n
  <2>2. CASE k = m
    <3>1. j \in 1..n /\ t[j] = sorted[j] /\ t[k] = r
      BY <1>1, <1>4, <1>9, <2>2
    <3> QED BY <1>10, <2>2, <3>1
  <2>3. CASE k > m /\ j < m
    <3>1. j \in 1..n /\ k - 1 \in 1..n /\ j < k - 1 /\ t[j] = sorted[j] /\ t[k] = sorted[k - 1]
      BY <1>1, <1>4, <1>9, <2>3
    <3> QED BY <3>1 DEF Ranked, n
  <2>4. CASE k > m /\ j = m
    <3>1. k - 1 \in m..n /\ t[j] = r /\ t[k] = sorted[k - 1]
      BY <1>1, <1>4, <1>9, <2>4
    <3> QED BY <1>11, <3>1
  <2>5. CASE k > m /\ j > m
    <3>1. /\ j - 1 \in 1..n /\ k - 1 \in 1..n /\ j - 1 < k - 1
          /\ t[j] = sorted[j - 1] /\ t[k] = sorted[k - 1]
      BY <1>1, <1>4, <1>9, <2>5
    <3> QED BY <3>1 DEF Ranked, n
  <2> QED BY <1>1, <1>4, <2>1, <2>2, <2>3, <2>4, <2>5
<1>13. ASSUME NEW j \in 1..n PROVE \E k \in 1..(n + 1) : t[k] = sorted[j]
  <2>1. CASE j < m
    BY <1>1, <1>9, <2>1
  <2>2. CASE ~(j < m)
    <3>1. j + 1 \in 1..(n + 1) /\ t[j + 1] = sorted[j]
      BY <1>1, <1>4, <1>9, <2>2
    <3> QED BY <3>1
  <2> QED BY <2>1, <2>2
<1>14. \E k \in 1..(n + 1) : t[k] = r
  BY <1>4, <1>9
<1>15. ASSUME NEW k \in 1..(n + 1) PROVE t[k] = r \/ \E j \in 1..n : sorted[j] = t[k]
  <2>1. CASE k < m
    BY <1>1, <1>4, <1>9, <2>1
  <2>2. CASE k > m
    <3>1. k - 1 \in 1..n /\ t[k] = sorted[k - 1]
      BY <1>1, <1>4, <1>9, <2>2
    <3> QED BY <3>1
  <2> QED BY <1>1, <1>4, <1>9, <2>1, <2>2
<1> QED BY <1>9, <1>12, <1>13, <1>14, <1>15 DEF t, n

\* Sinking keeps a list one of results.
LEMMA SinkType ==
    ASSUME NEW sorted \in Seq(ResultType), NEW r \in ResultType
    PROVE  Sink(sorted, r) \in Seq(ResultType)
<1> DEFINE n == Len(sorted)
           passed == {k \in DOMAIN sorted : \A j \in k..n : LessResult(r, sorted[j])}
           i == n - Cardinality(passed) + 1
<1>1. n \in Nat /\ DOMAIN sorted = 1..n
  OBVIOUS
<1>2. i \in 1..(n + 1)
  <2>1. IsFiniteSet(1..n) /\ Cardinality(1..n) = n
    BY <1>1, FS_Interval
  <2>2. passed \subseteq 1..n
    BY <1>1
  <2> HIDE DEF passed, n
  <2>3. Cardinality(passed) \in 0..n
    <3>1. IsFiniteSet(passed) /\ Cardinality(passed) <= Cardinality(1..n)
      BY <2>1, <2>2, FS_Subset
    <3>2. Cardinality(passed) \in Nat
      BY <3>1, FS_CardinalityType
    <3> QED BY <1>1, <2>1, <3>1, <3>2
  <2> QED BY <1>1, <2>3
<1>3. Sink(sorted, r) = SubSeq(sorted, 1, i - 1) \o <<r>> \o SubSeq(sorted, i, n)
  BY DEF Sink, Ext!InsertAt
<1> HIDE DEF i, n
<1>4. SubSeq(sorted, 1, i - 1) \in Seq(ResultType) /\ SubSeq(sorted, i, n) \in Seq(ResultType)
  BY <1>1, <1>2, SubSeqProperties DEF n
<1> QED BY <1>3, <1>4

\* The insertion sort ranks all it is given, in whichever order that comes.
LEMMA SortRanks ==
    ASSUME NEW found \in Seq(ResultType),
           \A j, k \in 1..Len(found) : found[j].path = found[k].path => j = k
    PROVE  /\ SortResults(found) \in Seq(ResultType) /\ Ranked(SortResults(found))
           /\ \A x : (\E j \in 1..Len(SortResults(found)) : SortResults(found)[j] = x)
                 <=> \E j \in 1..Len(found) : found[j] = x
<1> DEFINE n == Len(found)
           V == Seq(ResultType)
           Sorted == CHOOSE f : f = [k \in 0..n |-> IF k = 0 THEN << >>
                                        ELSE Sink(f[k - 1], found[k])]
           step == [x \in (1..n) \X V |-> Sink(x[2], found[x[1]])]
           Holds(s, k) == \A x : (\E j \in 1..Len(s) : s[j] = x) <=> \E j \in 1..k : found[j] = x
           Good == {k \in 0..n : /\ Sorted[k] \in V /\ Ranked(Sorted[k])
                                 /\ Holds(Sorted[k], k)}
<1>1. n \in Nat /\ \A k \in 1..n : found[k] \in ResultType
  OBVIOUS
<1>2. step \in [(1..n) \X V -> V]
  BY <1>1, SinkType
<1>3. PICK f \in [0..n -> V] : Recursive(f, n, << >>, step)
  <2>1. << >> \in V
    OBVIOUS
  <2> HIDE DEF n, V, step
  <2> QED BY <1>1, <1>2, <2>1, RecursionDefines, Zenon
<1>4. f = [k \in 0..n |-> IF k = 0 THEN << >> ELSE Sink(f[k - 1], found[k])]
  <2>1. ASSUME NEW k \in 1..n PROVE f[k] = Sink(f[k - 1], found[k])
    <3>1. k - 1 \in 0..n
      BY <1>1
    <3> QED BY <1>3, <3>1 DEF Recursive
  <2> HIDE DEF n, step, V
  <2> QED BY <1>3, <2>1 DEF Recursive
<1>5. Sorted = [k \in 0..n |-> IF k = 0 THEN << >> ELSE Sink(Sorted[k - 1], found[k])]
  BY <1>4
<1>6. SortResults(found) = Sorted[n]
  BY DEF SortResults
<1> HIDE DEF Sorted, n
<1>7. 0 \in Good
  <2>1. Sorted[0] = << >>
    BY <1>1, <1>5
  <2>2. Ranked(<< >>) /\ Holds(<< >>, 0) /\ << >> \in V
    BY DEF Ranked
  <2>3. 0 \in 0..n
    BY <1>1
  <2> HIDE DEF Holds, V
  <2> QED BY <2>1, <2>2, <2>3
<1>8. ASSUME NEW k \in 1..n, k - 1 \in Good PROVE k \in Good
  <2>1. k \in 0..n /\ k - 1 \in 0..n /\ Sorted[k] = Sink(Sorted[k - 1], found[k])
    BY <1>1, <1>5
  <2>2. Sorted[k - 1] \in V /\ Ranked(Sorted[k - 1]) /\ Holds(Sorted[k - 1], k - 1)
    BY <1>8
  <2>3. ASSUME NEW j \in 1..Len(Sorted[k - 1])
        PROVE  Sorted[k - 1][j].path # found[k].path
    <3>1. PICK i \in 1..(k - 1) : found[i] = Sorted[k - 1][j]
      BY <2>2
    <3>2. i \in 1..n /\ i # k
      BY <1>1
    <3> QED BY <3>1, <3>2 DEF n
  <2>4. /\ Sorted[k] \in V /\ Ranked(Sorted[k])
        /\ \A x : (\E j \in 1..Len(Sorted[k]) : Sorted[k][j] = x)
              <=> x = found[k] \/ \E j \in 1..Len(Sorted[k - 1]) : Sorted[k - 1][j] = x
    <3>1. PICK s, r : s = Sorted[k - 1] /\ r = found[k]
      OBVIOUS
    <3>2. s \in Seq(ResultType) /\ Ranked(s) /\ r \in ResultType
      BY <1>1, <2>2, <3>1
    <3>3. \A j \in 1..Len(s) : s[j].path # r.path
      BY <2>3, <3>1
    <3> HIDE DEF V, Holds, Good
    <3>4. /\ Sink(s, r) \in Seq(ResultType) /\ Ranked(Sink(s, r))
          /\ \A x : (\E j \in 1..Len(Sink(s, r)) : Sink(s, r)[j] = x)
                <=> x = r \/ \E j \in 1..Len(s) : s[j] = x
      BY <3>2, <3>3, SinkRanks
    <3> QED BY <2>1, <3>1, <3>4 DEF V
  <2>5. \A x : (\E j \in 1..k : found[j] = x)
                  <=> x = found[k] \/ \E j \in 1..(k - 1) : found[j] = x
    <3>1. \A j : j \in 1..k <=> j = k \/ j \in 1..(k - 1)
      BY <1>1
    <3> QED BY <3>1
  <2>6. Holds(Sorted[k], k)
    BY <2>2, <2>4, <2>5
  <2> QED BY <2>1, <2>4, <2>6
<1>9. n \in Good
  <2> HIDE DEF Good
  <2>1. \A k \in 0..n : k \in Good
    BY <1>1, <1>7, <1>8, CountUp
  <2> QED BY <1>1, <2>1
<1> QED BY <1>6, <1>9 DEF n

-----------------------------------------------------------------------------
\* Whatever an index holds, each answer to a query is what the query finds
\* there, each document once, ranked.
LEMMA AnswersRanked ==
    ASSUME index \in [Path -> Document \union {None}], NEW query \in Queries,
           NEW answer \in Search(query)
    PROVE  /\ answer \in Seq(ResultType) /\ Ranked(answer)
           /\ Ext!ToSet(answer) = Results(index, query)
<1> DEFINE R == Results(index, query)
           n == Cardinality(R)
<1>1. PICK found \in Ext!SetToSeqs(R) : answer = SortResults(found)
  BY DEF Search, R
<1>2. \A p \in Path : index[p] # None => index[p].file.id \in Id
  BY DEF Document, File
<1>3. query.words \in Seq(Term)
  BY SearchAssumption DEF Query
<1>4. \A i \in Id : TextOf[i].deprecated \in BOOLEAN
  BY SearchAssumption DEF Text
<1>5. R \subseteq ResultType /\ \A x, y \in R : x.path = y.path => x = y
  <2>1. ASSUME NEW x \in R
        PROVE  \E p \in Path : /\ x = Result(p, TextOf[index[p].file.id], query.words)
                               /\ index[p].file.id \in Id
    BY <1>2 DEF Results
  <2>2. \A p \in Path : index[p].file.id \in Id
            => Result(p, TextOf[index[p].file.id], query.words) \in ResultType
    BY <1>3, <1>4, ScoreType DEF Result, ResultType
  <2>3. \A p \in Path : Result(p, TextOf[index[p].file.id], query.words).path = p
    BY DEF Result
  <2> HIDE DEF R
  <2> QED BY <2>1, <2>2, <2>3
<1>6. IsFiniteSet(R) /\ n \in Nat
  <2> DEFINE f == [p \in Path |-> Result(p, TextOf[index[p].file.id], query.words)]
             T == {f[p] : p \in Path}
  <2>1. IsFiniteSet(T)
    <3>1. f \in Surjection(Path, T)
      BY DEF Surjection
    <3> HIDE DEF f, T
    <3> QED BY <3>1, FiniteAssumption, FS_Surjection
  <2>2. R \subseteq T
    BY DEF Results
  <2> HIDE DEF R
  <2> QED BY <2>1, <2>2, FS_Subset, FS_CardinalityType
<1> HIDE DEF R
<1>7. found \in [1..n -> R] /\ \A j, k \in 1..n : found[j] = found[k] => j = k
  BY <1>1 DEF Ext!SetToSeqs, Ext!Cardinality, Ext!IsFiniteSet, Cardinality, IsFiniteSet
<1> HIDE DEF n
<1>8. \A x \in R : \E j \in 1..n : found[j] = x
  BY <1>6, <1>7, InjectionLists DEF n
<1>9. /\ found \in Seq(ResultType) /\ Len(found) = n
      /\ \A j, k \in 1..n : found[j].path = found[k].path => j = k
  BY <1>5, <1>6, <1>7
<1>10. /\ answer \in Seq(ResultType) /\ Ranked(answer)
       /\ \A x : (\E j \in 1..Len(answer) : answer[j] = x) <=> \E j \in 1..n : found[j] = x
  BY <1>1, <1>9, SortRanks
<1>11. Ext!ToSet(answer) = R
  <2>1. Ext!ToSet(answer) = {answer[j] : j \in 1..Len(answer)}
    BY <1>10 DEF Ext!ToSet
  <2>2. \A x : (\E j \in 1..n : found[j] = x) <=> x \in R
    BY <1>7, <1>8
  <2> QED BY <1>10, <2>1, <2>2
<1> QED BY <1>10, <1>11 DEF R

-----------------------------------------------------------------------------
\* kb_search and kb_list, of any number of sessions and while any requests
\* are under way, answer with what the query finds in the index, each
\* document once, in one order only, whichever the map yielded them in.
SearchRanksTheIndex ==
    \A query \in Queries : \A answer \in Search(query) :
        Ext!ToSet(answer) = Results(index, query) /\ Ranked(answer)

THEOREM AnswersAreRanked == ToolSpec => []SearchRanksTheIndex
<1>1. TypeOK /\ ToolTypeOK => SearchRanksTheIndex
  BY AnswersRanked DEF ToolTypeOK, SearchRanksTheIndex
<1> QED BY <1>1, ToolTypeCorrect, PTL

\* With one request at a time, between requests kb_search and kb_list find
\* every concept of the bundle the query is about, once and as its file is
\* now, and rank them in one way, for any texts, queries and bundle.
THEOREM SearchIsRanked ==
    ASSUME NEW s, Session = {s}
    PROVE  ToolSpec => []SearchRanksTheBundle
<1>1. TypeOK /\ ToolTypeOK /\ IndexCurrent => SearchRanksTheBundle
  <2> SUFFICES ASSUME ToolTypeOK, IndexCurrent, \A u \in Session : todo[u] = << >>,
                      NEW query \in Queries, NEW answer \in Search(query)
               PROVE  /\ Ext!ToSet(answer) = Results(Indexed, query)
                      /\ \A j, k \in DOMAIN answer : j < k =>
                            LET a == answer[j]
                                b == answer[k]
                            IN  CASE ~a.deprecated /\ b.deprecated -> TRUE
                                  [] a.deprecated /\ ~b.deprecated -> FALSE
                                  [] OTHER -> /\ a.score >= b.score
                                              /\ a.score = b.score => a.path < b.path
    BY DEF SearchRanksTheBundle
  <2>1. index = Indexed
    BY DEF IndexCurrent
  <2>2. /\ answer \in Seq(ResultType) /\ Ranked(answer)
        /\ Ext!ToSet(answer) = Results(index, query)
    BY AnswersRanked DEF ToolTypeOK
  <2>3. ASSUME NEW a \in ResultType, NEW b \in ResultType, LessResult(a, b)
        PROVE  CASE ~a.deprecated /\ b.deprecated -> TRUE
                 [] a.deprecated /\ ~b.deprecated -> FALSE
                 [] OTHER -> a.score >= b.score /\ (a.score = b.score => a.path < b.path)
    <3>1. a.score \in Nat /\ b.score \in Nat
          /\ a.deprecated \in BOOLEAN /\ b.deprecated \in BOOLEAN
      BY DEF ResultType
    <3> QED BY <2>3, <3>1 DEF LessResult
  <2>4. ASSUME NEW j \in DOMAIN answer, NEW k \in DOMAIN answer, j < k
        PROVE  /\ answer[j] \in ResultType /\ answer[k] \in ResultType
               /\ LessResult(answer[j], answer[k])
    BY <2>2, <2>4 DEF Ranked
  <2> QED BY <2>1, <2>2, <2>3, <2>4
<1> QED BY <1>1, ToolTypeCorrect, IndexIsCurrent, PTL

-----------------------------------------------------------------------------
(* Concurrent sessions run the bundle.                                     *)

\* Links and aliases are whatever the author of a request writes.
AnyAuthor == LinkSets = SUBSET Target /\ AliasSets = SUBSET Path

\* The first number an update may take under MaxVersion is in the model.
LEMMA UpdateIsAny ==
    ASSUME AnyAuthor, NEW p \in Path, NEW links \in SUBSET Target,
           NEW aliases \in SUBSET Path, NEW expected \in 0..(MaxVersion + 1),
           Update(p, links, aliases, expected)
    PROVE  AnyUpdate
<1>1. expected \in 0..MaxVersion
  <2>1. /\ expected > 0 => expected = ConceptVersion(p)
        /\ ConceptVersion(p) <= MaxVersion
    BY DEF Update, CanUpdate
  <2> QED BY <2>1, VersionAssumption
<1>2. links \in LinkSets /\ aliases \in Authored(p)
  BY DEF AnyAuthor, Authored
<1> QED BY <1>1, <1>2 DEF AnyUpdate

LEMMA MoveIsAny ==
    ASSUME NEW m \in Batches, MoveBatch(m, [p \in Sources(m) |-> 0])
    PROVE  AnyMove
<1>1. [p \in Sources(m) |-> 0] \in [Sources(m) -> 0..MaxVersion]
  BY VersionAssumption
<1> QED BY <1>1 DEF AnyMove

LEMMA ToolStepRuns ==
    ASSUME AnyAuthor, TypeOK, ToolTypeOK, [ToolNext]_toolVars
    PROVE  [Next]_vars
<1>1. CASE UNCHANGED toolVars
  BY <1>1 DEF toolVars, bundleVars, vars
<1>2. ASSUME NEW s \in Session, NEW p \in Path, KbRead(s, p)
      PROVE  UNCHANGED vars
  BY <1>2 DEF KbRead, bundleVars, vars
<1>3. ASSUME NEW s \in Session, NEW p \in Path, NEW requested \in Requests,
             NEW i \in Id, NEW links \in LinkSets, KbCreate(s, i, p, links, requested)
      PROVE  Next
  BY <1>3 DEF KbCreate, Next, AnyCreate
<1>4. ASSUME NEW s \in Session, NEW p \in Path, NEW requested \in Requests,
             NEW body, NEW expected, KbUpdateRead(s, p, body, requested, expected)
      PROVE  UNCHANGED vars
  BY <1>4 DEF KbUpdateRead, bundleVars, vars
<1>5. ASSUME NEW s \in Session, KbUpdateWrite(s)
      PROVE  Next
  <2>0. PICK p : p = work[s].path
    OBVIOUS
  <2>1. /\ work[s] \in Merge /\ p \in Path
        /\ Update(p, work[s].links, work[s].base.file.aliases, work[s].expected)
    BY <1>5, <2>0, MergeWrites
  <2>2. /\ work[s].links \in SUBSET Target /\ work[s].expected \in 0..(MaxVersion + 1)
        /\ work[s].base.file.aliases \in SUBSET Path
    BY <2>1 DEF Merge, Document, File
  <2> QED BY <2>1, <2>2, UpdateIsAny DEF Next
<1>6. ASSUME NEW s \in Session, KbUpdateRejected(s)
      PROVE  UNCHANGED vars
  BY <1>6 DEF KbUpdateRejected, bundleVars, vars
<1>7. ASSUME NEW s \in Session, NEW m \in Batches, KbMove(s, m, [p \in Sources(m) |-> 0])
      PROVE  Next
  BY <1>7, MoveIsAny DEF KbMove, Next
<1>8. ASSUME NEW s \in Session, IndexStep(s)
      PROVE  UNCHANGED vars
  BY <1>8 DEF IndexStep, bundleVars, vars
<1> QED BY <1>1, <1>2, <1>3, <1>4, <1>5, <1>6, <1>7, <1>8 DEF ToolNext

\* However the steps of any number of sessions interleave, what they do to the
\* bundle is a run of the bundle alone: an update that merged into content
\* read earlier is still one update the bundle could be asked for, and a
\* refused or waiting request does nothing to it.
THEOREM ToolsRunTheBundle == AnyAuthor => (ToolSpec => Spec)
<1> SUFFICES ASSUME AnyAuthor PROVE ToolSpec => Spec
  OBVIOUS
<1>1. ToolInit => Init
  BY DEF ToolInit
<1>2. TypeOK /\ ToolTypeOK /\ [ToolNext]_toolVars => [Next]_vars
  BY ToolStepRuns
<1> QED BY <1>1, <1>2, ToolTypeCorrect, PTL DEF ToolSpec, Spec

\* Concurrent sessions leave histories without gaps, none under a path whose
\* concept it is not of.
THEOREM ToolsKeepHistories ==
    AnyAuthor => (ToolSpec => [](HistoryContiguous /\ HistoryBelongsToResident))
  BY ToolsRunTheBundle, HistoriesHaveNoGaps, HistoriesBelong, PTL

\* Concurrent sessions lose no version: one that overwrites what another has
\* just written, because it passed no version to check, leaves that content in
\* the concept's history.
THEOREM ToolsLoseNoVersion == AnyAuthor => (ToolSpec => NoVersionLost)
  BY ToolsRunTheBundle, NoVersionIsLost, PTL

\* No request of concurrent sessions breaks a link of a concept: one that
\* writes links it read before another session moved their targets is refused,
\* or its links are brought to where the aliases say the targets are.
THEOREM ToolsBreakNoLinks == AnyAuthor => (ToolSpec => NoNewBrokenLinks)
  BY ToolsRunTheBundle, NoWriteBreaksLinks, PTL
=============================================================================
