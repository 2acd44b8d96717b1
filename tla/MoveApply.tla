----------------------------- MODULE MoveApply ------------------------------
(***************************************************************************)
(* Bundle.MoveBatch one file operation at a time: validation and planning, *)
(* the renames of renameForMoveUnlocked, the snapshot and the write of     *)
(* every planned concept, removeEmptyDirs, and what is done when one of    *)
(* these fails.  The caller holds Bundle.mu all along, so no other         *)
(* operation runs in between, but a failure can come at any of them.       *)
(*                                                                         *)
(* `job` is the move in progress: the file operations ahead and those that *)
(* would put everything back.                                              *)
(***************************************************************************)
EXTENDS Bundle

VARIABLE job

moveVars == <<files, snaps, verDirs, job>>

Content == File \union {None}

OpKind == {"carry", "rename", "snapshot", "write", "discard", "tidy"}

Op == [do : OpKind, path : Path, to : Path, n : Nat, data : Content]

Job ==
    [ahead : Seq(Op), restores : Seq(Op), renamed : Seq(Op), undoing : BOOLEAN,
     before : [files   : [Path -> Content],
               snaps   : [Path -> [Version -> Content]],
               verDirs : SUBSET Path]]

\* "No move in progress" is no move.
ASSUME JobAssumption == None \notin Job

\* The kinds of file operation.
Carry(p, q, n) == [do |-> "carry", path |-> p, to |-> q, n |-> n, data |-> None]
Rename(p, q) == [do |-> "rename", path |-> p, to |-> q, n |-> 0, data |-> None]
Snapshot(p, n, d) == [do |-> "snapshot", path |-> p, to |-> p, n |-> n, data |-> d]
Write(p, d) == [do |-> "write", path |-> p, to |-> p, n |-> 0, data |-> d]
Discard(p, n) == [do |-> "discard", path |-> p, to |-> p, n |-> n, data |-> None]
Tidy(p) == [do |-> "tidy", path |-> p, to |-> p, n |-> 0, data |-> None]

Concat(f, n) ==
    LET upto[k \in 0..n] == IF k = 0 THEN << >> ELSE upto[k - 1] \o f[k]
    IN  upto[n]

\* The ways to list a set.
Orders(S) ==
    {f \in [1..Cardinality(S) -> S] : \A j, k \in DOMAIN f : f[j] = f[k] => j = k}

\* The order of a directory listing, which is by name (x.10 before x.2): here
\* any one.
Listing(S) == CHOOSE f \in Orders(S) : TRUE

-----------------------------------------------------------------------------
(* The plan.  items is the batch in the order the caller gave it.          *)

ItemRenames(p, q) ==
    LET kept == Listing(Versions(p))
    IN  [k \in DOMAIN kept |-> Carry(p, q, kept[k])] \o <<Rename(p, q)>>

Renames(m, items) == Concat([k \in DOMAIN items |-> ItemRenames(items[k], m[items[k]])], Len(items))

MovedWrite(m, p) ==
    <<Snapshot(m[p], ConceptVersion(p), files[p]), Write(m[p], MovedFile(m, p))>>

RelinkedWrite(m, q) ==
    <<Snapshot(q, ConceptVersion(q), files[q]), Write(q, RelinkedFile(m, q))>>

Writes(m, items) ==
    LET others == Listing(Relinked(m))
    IN  Concat([k \in DOMAIN items |-> MovedWrite(m, items[k])], Len(items))
          \o Concat([k \in DOMAIN others |-> RelinkedWrite(m, others[k])], Len(others))

Cleanup(items) == [k \in DOMAIN items |-> Tidy(items[k])]

\* Validation and planning read; nothing changes on disk yet.
Begin(m, items, expected) ==
    /\ job = None
    /\ CanMove(m, expected)
    /\ job' = [ahead    |-> Renames(m, items) \o Writes(m, items) \o Cleanup(items),
               restores |-> << >>,
               renamed  |-> << >>,
               undoing  |-> FALSE,
               before   |-> [files |-> files, snaps |-> snaps, verDirs |-> verDirs]]
    /\ UNCHANGED <<files, snaps, verDirs>>

-----------------------------------------------------------------------------
(* Operations that succeed.                                                *)

Files(op) ==
    CASE op.do = "rename" -> [files EXCEPT ![op.to] = files[op.path], ![op.path] = None]
      [] op.do = "write"  -> [files EXCEPT ![op.path] = op.data]
      [] OTHER            -> files

Snaps(op) ==
    CASE op.do = "carry"    -> [snaps EXCEPT ![op.to][op.n] = snaps[op.path][op.n],
                                             ![op.path][op.n] = None]
      [] op.do = "snapshot" -> [snaps EXCEPT ![op.path][op.n] = op.data]
      [] op.do = "discard"  -> [snaps EXCEPT ![op.path][op.n] = None]
      [] OTHER              -> snaps

\* Directories from p's snapshot directory up that hold nothing.
EmptyFrom(p) ==
    LET chain == {p} \union Above[p]
    IN  {d \in chain : \A e \in verDirs :
            e = d \/ d \in Above[e] => e \in chain /\ snaps[e] = NoHistory}

Dirs(op) ==
    CASE op.do \in {"carry", "snapshot"}          -> MakeDirs({op.to})
      [] op.do = "tidy" /\ op.path \in verDirs    -> verDirs \ EmptyFrom(op.path)
      [] OTHER                                    -> verDirs

\* Mutant: a rename is not remembered for the undo of a later failure.
Unrecorded(op) == << >>

\* How to take back a rename.
Reverse(op) ==
    CASE op.do = "carry"  -> <<Carry(op.to, op.path, op.n)>>
      [] op.do = "rename" -> <<Rename(op.to, op.path)>>
      [] OTHER            -> << >>

\* Mutant: the snapshot goes before the file has its old content again.
DiscardFirst(op) ==
    IF op.do = "snapshot" THEN <<Discard(op.path, op.n), Write(op.path, op.data)>> ELSE << >>

\* How to take back a planned write, from the moment its snapshot is tried.
Restore(op) ==
    IF op.do = "snapshot" THEN <<Write(op.path, op.data), Discard(op.path, op.n)>> ELSE << >>

\* The next operation succeeds.  The last one ends the move.
Step ==
    /\ job # None
    /\ LET op == Head(job.ahead)
       IN  /\ files' = Files(op)
           /\ snaps' = Snaps(op)
           /\ verDirs' = Dirs(op)
           /\ job' = IF Len(job.ahead) = 1 THEN None
                     ELSE [job EXCEPT !.ahead = Tail(@),
                                      !.restores = @ \o Restore(op),
                                      !.renamed = Reverse(op) \o @]

-----------------------------------------------------------------------------
(* An operation that fails.  MkdirAll may have made the directory, a write *)
(* may have left part of the file.  Everything done so far is put back: in *)
(* the order it was written the files and their snapshots, in reverse the  *)
(* renames.  Errors of the undo itself are ignored by the code; the model  *)
(* assumes there are none.                                                 *)

LeftByFailure(op) ==
    CASE op.do = "carry" ->
            /\ verDirs' \in {verDirs, MakeDirs({op.to})}
            /\ UNCHANGED <<files, snaps>>
      [] op.do = "rename" -> UNCHANGED <<files, snaps, verDirs>>
      [] op.do = "snapshot" ->
            \/ UNCHANGED <<files, snaps, verDirs>>
            \/ /\ verDirs' = MakeDirs({op.path})
               /\ \E d \in {None} \union Torn(op.data) :
                     snaps' = [snaps EXCEPT ![op.path][op.n] = d]
               /\ UNCHANGED files
      [] op.do = "write" ->
            /\ \E d \in {files[op.path]} \union Torn(op.data) :
                  files' = [files EXCEPT ![op.path] = d]
            /\ UNCHANGED <<snaps, verDirs>>

Fail ==
    /\ DiskFaults
    /\ job # None
    /\ ~job.undoing
    /\ LET op   == Head(job.ahead)
           undo == job.restores \o Restore(op) \o job.renamed
       IN  /\ op.do # "tidy"    \* removeEmptyDirs stops silently
           /\ LeftByFailure(op)
           /\ job' = IF undo = << >> THEN None
                     ELSE [job EXCEPT !.ahead = undo, !.undoing = TRUE]

-----------------------------------------------------------------------------
MoveInit == Init /\ job = None

MoveNext ==
    \/ /\ job = None
       /\ \/ \E i \in Id, p \in Path, links \in LinkSets : Create(i, p, links)
          \/ \E p \in Path, links \in LinkSets :
                \E aliases \in Authored(p) : Update(p, links, aliases, 0)
       /\ UNCHANGED job
    \/ \E m \in Batches :
          \E items \in Orders(Sources(m)) : Begin(m, items, [p \in Sources(m) |-> 0])
    \/ Step
    \/ Fail

MoveSpec == MoveInit /\ [][MoveNext]_moveVars

-----------------------------------------------------------------------------
Before == [files |-> files, snaps |-> snaps, verDirs |-> verDirs]

\* What the next holder of the lock will find if nothing more happened than
\* what is finished.
Seen == IF job = None THEN Before ELSE job.before

Atomic == INSTANCE Bundle WITH
    files <- Seen.files, snaps <- Seen.snaps, verDirs <- Seen.verDirs

\* All-or-nothing: a batch that ends without an error has done all of the
\* atomic move, and one that fails anywhere has changed no file and no
\* snapshot.
MoveIsAtomic == Atomic!Spec

OnDisk ==
    {files[p] : p \in Path} \union UNION {{snaps[p][v] : v \in Version} : p \in Path}

\* Wherever the process stops, in the move or in its undo, every content
\* there was before is still in some file or snapshot.
NothingLostMidMove ==
    job # None =>
        /\ \A p \in Path : job.before.files[p] \in OnDisk \union {None}
        /\ \A p \in Path, v \in Version : job.before.snaps[p][v] \in OnDisk \union {None}
=============================================================================
