------------------------------- MODULE Server -------------------------------
(***************************************************************************)
(* The server of cmd/server: the bundle, its two syncers (one for concept  *)
(* files, one for version snapshots, each with a channel and a push loop   *)
(* of its own), and the hooks by which a tool handler, once its write is   *)
(* done and the bundle's lock released, has the files it touched uploaded. *)
(* The pod's disk is not persistent: a restart loses the local files and   *)
(* all that is still queued, and pulls what the object store has.          *)
(***************************************************************************)
EXTENDS Bundle

CONSTANTS
    Handler,     \* goroutines running tool handlers
    Capacity,    \* of a push channel
    StoreFails,  \* whether an upload or a deletion may fail
    PullFails,   \* whether a download may fail
    Crashes,     \* whether the pod may die at any moment
    Stops,       \* whether the pod may be stopped with SIGTERM
    MayMove      \* whether the handlers call kb_move

ASSUME CapacityAssumption == Capacity \in Nat \ {0}

VARIABLES
    s3Files,     \* path -> object of a concept file
    s3Snaps,     \* path and number -> object of a snapshot
    fileQueue, snapQueue,   \* the two push channels
    fileCall, snapCall,     \* handler -> a request it has read but not sent
    open,        \* the channels are open
    hooks        \* handler -> the hook calls its request still has to make

Snapshots == Path \X Version

SnapsByKey == [k \in Snapshots |-> snaps[k[1]][k[2]]]

FileSync == INSTANCE Syncer WITH
    Caller <- Handler, Key <- Path, Data <- File, Absent <- None,
    local <- files, store <- s3Files, queue <- fileQueue, call <- fileCall

SnapSync == INSTANCE Syncer WITH
    Caller <- Handler, Key <- Snapshots, Data <- File, Absent <- None,
    local <- SnapsByKey, store <- s3Snaps, queue <- snapQueue, call <- snapCall

bundleVars == <<files, snaps, verDirs>>
fileVars == <<s3Files, fileQueue, fileCall>>
snapVars == <<s3Snaps, snapQueue, snapCall>>

serverVars == <<files, snaps, verDirs, s3Files, s3Snaps, fileQueue, snapQueue,
                fileCall, snapCall, open, hooks>>

NoCalls(h) == FileSync!NoCall(h) /\ SnapSync!NoCall(h)

\* The handler has nothing more to do for its last request.
Idle(h) == hooks[h] = << >> /\ NoCalls(h)

-----------------------------------------------------------------------------
(* The hook calls after a write.                                           *)

OnWrite(p) == [do |-> "push", on |-> "files", file |-> p, snap |-> << >>]
OnSnapshot(p, v) == [do |-> "push", on |-> "snaps", file |-> p, snap |-> <<p, v>>]
OnSnapshotDelete(p, v) == [do |-> "delete", on |-> "snaps", file |-> p, snap |-> <<p, v>>]
OnDelete(p) == [do |-> "delete", on |-> "files", file |-> p, snap |-> << >>]

Listed(S) ==
    CHOOSE f \in [1..Cardinality(S) -> S] : \A j, k \in DOMAIN f : j # k => f[j] # f[k]

\* Mutant: the old objects are deleted before the new ones are uploaded.
DeletesFirst(m) ==
    LET carried == UNION {{<<p, v>> : v \in Versions(p)} : p \in Sources(m)}
        replaced == {<<m[p], ConceptVersion(p)>> : p \in Sources(m)}
        updated == {<<q, ConceptVersion(q)>> : q \in Relinked(m)}
        written == Listed(Targets(m)) \o Listed(Relinked(m))
        kept == Listed({<<m[k[1]], k[2]>> : k \in carried}) \o Listed(replaced) \o Listed(updated)
        gone == Listed(carried)
        removed == Listed(Sources(m))
    IN  [n \in DOMAIN gone |-> OnSnapshotDelete(gone[n][1], gone[n][2])]
          \o [n \in DOMAIN removed |-> OnDelete(removed[n])]
          \o [n \in DOMAIN written |-> OnWrite(written[n])]
          \o [n \in DOMAIN kept |-> OnSnapshot(kept[n][1], kept[n][2])]

\* Mutant: the snapshots a move carries along are not uploaded.
CarriedNotPushed(m) ==
    LET carried == UNION {{<<p, v>> : v \in Versions(p)} : p \in Sources(m)}
        replaced == {<<m[p], ConceptVersion(p)>> : p \in Sources(m)}
        updated == {<<q, ConceptVersion(q)>> : q \in Relinked(m)}
        written == Listed(Targets(m)) \o Listed(Relinked(m))
        kept == Listed(replaced) \o Listed(updated)
        gone == Listed(carried)
        removed == Listed(Sources(m))
    IN  [n \in DOMAIN written |-> OnWrite(written[n])]
          \o [n \in DOMAIN kept |-> OnSnapshot(kept[n][1], kept[n][2])]
          \o [n \in DOMAIN gone |-> OnSnapshotDelete(gone[n][1], gone[n][2])]
          \o [n \in DOMAIN removed |-> OnDelete(removed[n])]

\* kb_move: all writes (the moved concepts, then the relinked), then all new
\* snapshots (those carried along, then those of the replaced versions), then
\* the old snapshots, then the old files.  The order of equals is that of the
\* batch or of a directory listing: here any one.
MoveHooks(m) ==
    LET carried == UNION {{<<p, v>> : v \in Versions(p)} : p \in Sources(m)}
        replaced == {<<m[p], ConceptVersion(p)>> : p \in Sources(m)}
        updated == {<<q, ConceptVersion(q)>> : q \in Relinked(m)}
        written == Listed(Targets(m)) \o Listed(Relinked(m))
        kept == Listed({<<m[k[1]], k[2]>> : k \in carried}) \o Listed(replaced) \o Listed(updated)
        gone == Listed(carried)
        removed == Listed(Sources(m))
    IN  [n \in DOMAIN written |-> OnWrite(written[n])]
          \o [n \in DOMAIN kept |-> OnSnapshot(kept[n][1], kept[n][2])]
          \o [n \in DOMAIN gone |-> OnSnapshotDelete(gone[n][1], gone[n][2])]
          \o [n \in DOMAIN removed |-> OnDelete(removed[n])]

-----------------------------------------------------------------------------
(* Requests: the write under the lock, then hook after hook.  A request    *)
(* that is under way when the channels are closed still makes its write.   *)

Write(h) ==
    /\ Idle(h)
    /\ \/ \E i \in Id, p \in Path, links \in LinkSets :
             /\ Create(i, p, links)
             /\ hooks' = [hooks EXCEPT ![h] = <<OnWrite(p)>>]
       \/ \E p \in Path, links \in LinkSets :
             /\ Exists(p)
             /\ Update(p, links, files[p].aliases, 0)
             /\ hooks' = [hooks EXCEPT ![h] = <<OnWrite(p), OnSnapshot(p, ConceptVersion(p))>>]
       \/ /\ MayMove
          /\ \E m \in Batches :
                /\ MoveBatch(m, [p \in Sources(m) |-> 0])
                /\ hooks' = [hooks EXCEPT ![h] = MoveHooks(m)]
    /\ UNCHANGED <<fileVars, snapVars, open>>

\* The next hook: PushFile up to the channel send, or DeleteFile.
CallHook(h) ==
    /\ hooks[h] # << >> /\ NoCalls(h)
    /\ UNCHANGED bundleVars
    /\ hooks' = [hooks EXCEPT ![h] = Tail(@)]
    /\ LET hook == Head(hooks[h])
       IN  IF hook.on = "files"
           THEN /\ IF hook.do = "push" THEN FileSync!PushFile(h, hook.file)
                   ELSE FileSync!DeleteFile(h, hook.file)
                /\ UNCHANGED snapVars
           ELSE /\ IF hook.do = "push" THEN SnapSync!PushFile(h, hook.snap)
                   ELSE SnapSync!DeleteFile(h, hook.snap)
                /\ UNCHANGED fileVars

SendRequest(h) ==
    /\ UNCHANGED <<bundleVars, hooks>>
    /\ \/ FileSync!Send(h) /\ UNCHANGED snapVars
       \/ SnapSync!Send(h) /\ UNCHANGED fileVars

\* The handler's goroutine panics on a closed channel; its other hooks are
\* never called.
HandlerPanics(h) ==
    /\ UNCHANGED bundleVars
    /\ \/ FileSync!SendPanics(h) /\ UNCHANGED snapVars
       \/ SnapSync!SendPanics(h) /\ UNCHANGED fileVars
    /\ hooks' = [hooks EXCEPT ![h] = << >>]

PushLoops ==
    /\ UNCHANGED <<bundleVars, hooks>>
    /\ \/ FileSync!LoopStep /\ UNCHANGED snapVars
       \/ SnapSync!LoopStep /\ UNCHANGED fileVars

-----------------------------------------------------------------------------
(* The end of the process and the start of the next one.                   *)

\* SIGTERM: both channels are closed before the HTTP server is shut down.
Shutdown ==
    /\ Stops
    /\ open
    /\ open' = FALSE
    /\ UNCHANGED <<bundleVars, fileVars, snapVars, hooks>>

\* Mutant: the versions are not pulled.
FilesOnlyPulled(skippedFiles, skippedSnaps) ==
    /\ files' = [p \in Path |-> IF p \in skippedFiles THEN None ELSE s3Files[p]]
    /\ snaps' = [p \in Path |-> NoHistory]
    /\ verDirs' = {}

\* Pull at startup: every object, except those whose download fails, is
\* written to the empty disk.
Pulled(skippedFiles, skippedSnaps) ==
    /\ files' = [p \in Path |-> IF p \in skippedFiles THEN None ELSE s3Files[p]]
    /\ snaps' = [p \in Path |-> [v \in Version |->
                    IF <<p, v>> \in skippedSnaps THEN None ELSE s3Snaps[<<p, v>>]]]
    /\ verDirs' = LET kept == {p \in Path : \E v \in Version : snaps'[p][v] # None}
                  IN  kept \union UNION {Above[p] : p \in kept}

\* The process ends, at once when the pod dies, and soon after SIGTERM: main
\* returns as soon as the listener is closed, without waiting for the push
\* loops.  The next pod starts from an empty disk.
Restart ==
    /\ Crashes \/ ~open
    /\ \E skippedFiles \in IF PullFails THEN SUBSET Path ELSE {{}},
          skippedSnaps \in IF PullFails THEN SUBSET Snapshots ELSE {{}} :
             Pulled(skippedFiles, skippedSnaps)
    /\ fileQueue' = << >> /\ snapQueue' = << >>
    /\ fileCall' = [h \in Handler |-> << >>]
    /\ snapCall' = [h \in Handler |-> << >>]
    /\ hooks' = [h \in Handler |-> << >>]
    /\ open' = TRUE
    /\ UNCHANGED <<s3Files, s3Snaps>>

-----------------------------------------------------------------------------
ServerInit ==
    /\ Init
    /\ s3Files = files
    /\ s3Snaps = SnapsByKey
    /\ fileQueue = << >> /\ snapQueue = << >>
    /\ fileCall = [h \in Handler |-> << >>]
    /\ snapCall = [h \in Handler |-> << >>]
    /\ open = TRUE
    /\ hooks = [h \in Handler |-> << >>]

ServerNext ==
    \/ \E h \in Handler : Write(h) \/ CallHook(h) \/ SendRequest(h) \/ HandlerPanics(h)
    \/ PushLoops
    \/ Shutdown
    \/ Restart

ServerSpec == ServerInit /\ [][ServerNext]_serverVars

-----------------------------------------------------------------------------
HookCall ==
    {OnWrite(p) : p \in Path} \union {OnDelete(p) : p \in Path}
      \union {OnSnapshot(p, v) : p \in Path, v \in Version}
      \union {OnSnapshotDelete(p, v) : p \in Path, v \in Version}

\* Both syncers are well-formed, and a handler makes one call at a time.
ServerTypeOK ==
    /\ FileSync!TypeOK
    /\ SnapSync!TypeOK
    /\ hooks \in [Handler -> Seq(HookCall)]
    /\ \A h \in Handler : FileSync!NoCall(h) \/ SnapSync!NoCall(h)

\* The server runs and nothing is on its way to the object store.
Quiet ==
    open /\ fileQueue = << >> /\ snapQueue = << >> /\ \A h \in Handler : Idle(h)

\* When nothing is on its way the object store holds what the disk holds.
Mirrored == Quiet => s3Files = files /\ s3Snaps = SnapsByKey

\* c is on the disk, as a concept file or as a snapshot.
OnDisk(c) ==
    \E p \in Path : files[p] = c \/ \E v \in Version : snaps[p][v] = c

\* What the object store holds is always a version of the concept that the
\* disk still has, so a pod that dies with requests in its channels throws a
\* concept back to an earlier version, which the next one's history goes on
\* from, and never to anything else.
StoreIsAnEarlierVersion ==
    /\ \A p \in Path : s3Files[p] # None => OnDisk(s3Files[p])
    /\ \A k \in Snapshots : s3Snaps[k] # None => OnDisk(s3Snaps[k])

Stored(i) == \E p \in Path : s3Files[p] # None /\ s3Files[p].id = i

\* A concept the object store holds is never gone from it again, whatever
\* moves are in progress or interrupted: a new object is there before the
\* old one goes.
StoredConceptsStay == [][\A i \in Id : Stored(i) => Stored(i)']_serverVars

\* A snapshot the object store holds is never replaced by another one,
\* whatever a restart has interrupted.  (A number whose snapshot was not
\* uploaded before a crash is given out again; a stored one is not.)
SnapshotsNotOverwritten ==
    [][\A k \in Snapshots :
          s3Snaps[k] # None => s3Snaps'[k] \in {s3Snaps[k], None}]_serverVars
=============================================================================
