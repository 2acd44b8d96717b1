# Verification of the civic-os-knowledge server

TLA+ models of the knowledge server (`cmd/server`, `internal/`), TLC
configurations that check them on small instances, and proofs that TLAPS checks
for every instance. Paths below are relative to the repository's root, line
numbers to this commit.

    tlc -config bundle_batches.cfg MCBundle.tla     # one run
    tlapm BundleProofs.tla                          # proofs; also LinkProofs, MoveProofs,
                                                    # ToolProofs, SyncProofs, ServerProofs,
                                                    # TextProofs, Counting

## The system

The server keeps a bundle of markdown concepts in a local directory and serves
it to MCP clients. Every tool call runs in a goroutine of its own.

| part | state | operations | module |
|---|---|---|---|
| Bundle (`bundle.go`, `move.go`, `linkcheck.go`) | concept files; under `.versions` a snapshot of every version a write replaced; all under one lock | Create, Update, MoveBatch; reads through aliases | `Bundle`, `Reads`, `Catalog` (abstract) |
| Move (`move.go`) | the same, one file operation at a time | renames, snapshots, writes; on failure the undo | `MoveApply` |
| Link text (`links.go`, `linkcheck.go`) | none | find links outside code, resolve, normalise, rewrite; find mentions | `Links` |
| Type registry (`types.go`) | fixed: one type per top-level folder | Resolve, Problem | `Registry` |
| Tool handlers (`internal/tools`) | what a client has read; the merge of a kb_update | kb_read, kb_create, kb_update, kb_move | `KbTools` |
| Search index (`internal/search`) | index entries | Add, Remove, Search | `KbTools`, `Search` |
| Read-only tools (`kb_history`, `kb_diff`, `kb_links`, `kb_search`, `kb_list`) | none | history, diff, link reports, searches | `Reads`, `Search` |
| Syncer (`storage/spaces.go`) | bounded channel, object store | PushFile, DeleteFile, push loop, Pull, Close | `Syncer`, `Mirror` |
| Server (`cmd/server/main.go`) | two syncers, hooks | hooks after a write, SIGTERM, restart | `Server` |
| Visualisation (`main.go`, `viz/generator.go`) | the page, a timer, regenerations under way | schedule, elapse, list, write the page | `Viz` |
| OIDC, MCP registration, deployment | none in the server | see "Not modelled" | none |

How they interact: a handler calls the bundle (under its lock), then updates the
index (under another lock), then calls the hooks, which read each written file
again and send it to one of two channels (concept files, snapshots); one push
loop per channel sends the requests to S3. The hooks of a write also restart the
timer of the page's regeneration. Between these steps other handlers run. A pod has
no persistent disk: a restart pulls both prefixes from S3.

What is hard, and which properties make each part correct:

* *Bundle.* Long histories of creates, updates and moves share paths. Version
  numbers have no gaps (`HistoryContiguous`), histories stay with their concept
  (`HistoryBelongsToResident`), former paths lead to one concept
  (`AliasesUnambiguous`, `FormerPathsResolve`), no write breaks a link
  (`NoNewBrokenLinks`) and moves take links along (`LinksFollowConcepts`).
  File operations fail and tear files: no version is lost (`NoVersionLost`).
* *Reads.* What the tools report across moves: former paths keep the whole
  history (`FormerPathsKeepHistory`), a link reported as broken leads a reader
  nowhere (`BrokenLinksLeadNowhere`), and the inbound links listed before a move
  are those it rewrites (`InboundForetellsMove`).
* *Move.* Tens of file operations that must be all or nothing
  (`MoveIsAtomic`), with a copy of everything at each moment
  (`NothingLostMidMove`).
* *Links.* The same links are read from the raw file and field by field, before
  and after the file changes directory (`RelinkedLinksFollow`,
  `MovedLinksFollow`, `NormalizedForGood`); an old path that the rewriting leaves
  in a text is reported to the author (`OldPathsReported`).
* *Handlers.* Read, write and indexing are separate steps: no update overwrites
  what its client has not read (`UpdatesReplaceWhatWasRead`), the index is the
  bundle (`IndexCurrent`) or at least misses nothing (`SearchFindsEveryConcept`);
  a search ranks all of it, in whichever order the map is walked
  (`SearchRanksTheBundle`); the folder decides the type, whatever types the files
  had and however requests overlap (`TypesAreOnlyRepaired`).
* *Syncer and server.* Full and closed channels, failing calls, two channels
  that know nothing of each other, restarts at any moment: `CallsReturn`,
  `NewestIsLast`, `Mirrored`, `StoreIsAnEarlierVersion`, `StoredConceptsStay`,
  `SnapshotsNotOverwritten`.
* *Visualisation.* Timers that are restarted, regenerations that overlap or fail:
  a stale page has its regeneration on the way (`StalePageIsDue`) and the page
  catches up when writes pause (`PageCatchesUp`).

`PROJECT.json` lists the hazards at their lines, and for each definition the
lines it translates.

## The models

**`Bundle`** A file is what the operations look at: whether it parses, the
targets of its links, its aliases. A target in canonical form is the path it
leads to; a `Loose` one (a relative one, say) leads where `LooseLead` says for
the file's path. A write makes canonical what leads to a concept, there or
through an alias; a broken link stays as it was written, and a move to another
directory takes it along (`Pinned`, `move.go:198-209`), so it may come to lead
elsewhere. `id` is a ghost that the code does not have: it names the concept
that a Create brought into being and that moves carry along. `snaps[p][v]` is
`.versions/<p>/<v>`, `verDirs` the snapshot directories that exist (they matter:
`validateMovesUnlocked` refuses a target that has one). Create, Update and
MoveBatch hold the write lock from the first check to the last file operation,
so each is one action with the code's guards: existence, expected version,
acceptance of broken links, chains and swaps, history at the target.
`CreateFails`, `SnapshotFails`, `UpdateFails` are the same operations with a
failing or torn write: `os.WriteFile` leaves the old file, nothing, or a part
(`Torn`), which may show links that the whole file had in code (`Covered`).
`MoveFails` is what a failed move leaves: the undo restores the files and
removes the snapshots, not the directories. Abstractions: titles, status and
formatting are left out, types are in `KbTools`; paths are those `ValidatePath`
accepts, numbered in the order the walk visits them, `Above` says whose snapshot
directory contains whose (`a/b/c.md` under `a/b.md`); the links of a file are
those its fields show, and those a write checks (`Links` says when a move reads
other ones from the raw file, and a write other ones than a read afterwards).

**`Catalog`** is what a user is promised: a concept has a place and a log of
everything it said; a create starts a log, an edit appends, a move changes
places and may append to the logs of those whose links it rewrites.
`CatalogKept` is the refinement `Bundle => Catalog`, the log being the snapshots
followed by the file.

**`Reads`** adds the reads to `Bundle`: History and Diff through aliases, the
outbound and inbound links of LinksOf, the broken links of AuditLinks. Each is
one read under the lock, so it has no action; its properties compare what a
client gets before and after the bundle's steps. How often a link occurs is left
out, and so is the audit's list of links that are not canonical.

**`MoveApply`** extends `Bundle` and opens MoveBatch up: the plan is computed
from the files, then each rename of snapshots, each snapshot and each write is a
step, each may fail, and the undo replays its list backwards. The snapshots of a
directory are renamed in any order (`Listing`): `os.ReadDir` sorts names, 10
before 2. `MoveIsAtomic` says that the steps implement Bundle's atomic
`MoveBatch` and `MoveFails`. Errors of the undo itself are ignored by the code
(`move.go:81`) and assumed absent.

**`Links`** A text is a sequence of tokens (line break, one or three backticks,
tildes, indentation, link, bare path, text). `Code` is `codeMask`: fenced lines
first, then spans between runs of equal width in what is left. `RewriteLinks`,
`Normalize` (a write), `PinLinks` (a moved concept, field by field) and
`Relinked` (another concept, as one raw text) are the code's, and `FindMentions`
is the report on paths that are not link targets; the state machine only
enumerates texts. `fields` is what reading the file gives. The file (`Raw`) has
the frontmatter, field after field behind its key, and the body as the client
sent it: only a read trims it, so `lead` keeps the blanks before it. A write
normalises what was sent (`Sent`); `Written` is what a read gets then. A text of
the frontmatter is one line (`TokensAssumption`): yaml folds, quotes or indents
longer ones, which moves no backtick but is no sequence of these tokens. Links
and mentions in tags are not looked for by the code either; the blanks behind
the body, which a read trims as well, hold no link and begin no code. A fenced
block is what a fold over the marks of lines leaves open, a span what one over
the runs of backticks does. Paths have no empty, `.` or `..` segment, as the
walk and `ValidatePath` have them; names with a space, a `)` or a `#`, which
`ValidatePath` admits and a link cannot hold, are left out.

**`Registry`** is the list of types with Resolve and Problem as operators. A name
is a word and whether it is capitalised as registered: requests may use any
casing, files written before the registry existed too.

**`KbTools`** extends `Bundle` and `Registry` with sessions and with the type in
each file (`types`). A kb_update is Bundle.Read, then
Bundle.Update, then Index.Add; a kb_move one step under the lock, then an Index
operation at a time. `seen` is what a client got from its last kb_read.

**`Search`** adds Index.Search to `KbTools`: filters, weights and the insertion
sort, one round (`Sink`) per result. `Search(query)` is the set of answers, one
for each order in which Go may walk the map. A text is the set of query words
it contains, fixed for each concept.

**`Syncer`** is one channel and one loop; PushFile reads the file and sends it
in two steps. **`Mirror`** drives it alone: each key has one writer, which
changes it and calls the hook. **`Server`** composes `Bundle` with two instances
of `Syncer`; `Write` is an operation and the list of its hooks, `CallHook` the
next of them, in the order of the code (moved before relinked concepts, carried
before replaced snapshots, uploads before deletions). `Shutdown` closes both
channels before the HTTP server stops, a handler that sends then panics,
`Restart` loses disk and queues and pulls.

**`Viz`** extends `Mirror`: the hook calls scheduleViz when its push has returned
(`Schedule`), `Elapse` and `Fire` are the timer, `List` and `WritePage` a
regeneration under vizMu; one may wait while another runs. A page is kept as
whether it shows the files as they are, a listing as whether they are still as
listed: every change makes both false, and only a listing made later makes the
page true again.

## The runs

| run | instance | distinct states | what it shows |
|---|---|---|---|
| `bundle_batches` | 4 paths, one nested, a relative target, 3 ids, 2 versions, batches of 2 | 28 k | types, histories, directories, links, link reports; implements `Catalog` |
| `bundle_faults` | 3 paths, a relative target that a cut may uncover, 2 ids, single moves, failing file operations | 191 k | numbers without gaps, unambiguous aliases, nothing lost; no new broken links, in torn files neither; former paths keep their history, audit and reads agree |
| `kb_sequential` | 1 session, all tools, no versions, 3 paths in two registered folders and one that is not, 5 queries | 250 k | the index is the bundle after each request and is ranked in one way; types are only repaired |
| `kb_writers` | 2 sessions, versions, no moves, an old type | 20 k | no lost update, no repair of a type undone; every concept is found |
| `move_apply` | batch of 2 over 4 paths, one nested, any step fails | 10 k | all or nothing; a copy of everything in between |
| `sync` | 2 callers, 2 keys, channel of 2, failing calls, close; timer, one waiting regeneration | 230 k | order kept, blocked callers return; the page catches up |
| `server_restarts` | 1 handler, 2 paths, 2 ids, channels of 2, SIGTERM, crashes | 1.8 M | converges; the store is at worst an earlier version; interrupted moves lose no concept; no stored snapshot is replaced |
| `links` | 5 tokens, one of them in the title, description or resource, 9 kinds in the body and before it, 3 concepts, 1 move, 1 former path | 266 k | links outside code follow; normalising is final; old paths left are reported |

Bounds. Two versions are enough for a carried snapshot next to a replaced one,
and a third write is refused only by the bound. Four paths hold a batch of two
moves with free targets, three a move and a path to return to. Two handlers or
sessions are enough for every pairwise interleaving. A channel of two is full,
half full and empty within one move's hooks. Five tokens open and close a fence
or a span with a link or a path inside, before or behind. One regeneration that
waits, next to one that runs and a timer, is every overlap that matters: a
second one that waits lists the same files later. Three concepts are two with
equal scores and a deprecated one that scores higher, found in any order. Deadlock is not checked: a model
at its bounds (no version number, token or id left) stops, the server does not.

Fairness is assumed in `sync` only (`VizFairness`). The push loop is weakly fair:
it receives whenever there is a request, and the calls of the SDK return, with
or without an error. A caller's hook is strongly fair: senders blocked on a Go
channel wait in a FIFO queue, so one that again and again finds room is served.
The timer is weakly fair, and no more: time passes, but writes may restart it
for ever. Regenerations are weakly fair: vizMu is granted and a goroutine runs
on. Callers are not obliged to change anything, nor anyone to close the channel.
A page is not promised after a failed regeneration (it is logged and not
repeated) nor after the channels were closed (a hook panics in its push and
does not reach scheduleViz); `PageCatchesUp` and `StalePageIsDue` say so.

### Where the code does not do what is said

Four runs expect a violation; `PROJECT.json` quotes the lines.

* `bundle_batch_alias` (`move.go:211`): in a batch, a moved concept keeps an
  alias that is a source or a target of another move of the batch. In the run a
  concept is moved together with the one now at its former path: a read of that
  path then finds the wrong concept.
* `links_over_fields` (`move.go:236`): links to a moved concept are rewritten in
  the raw file, where a backtick of the title or the description pairs with one of
  the body; links between them keep the old path and are broken.
* `kb_stale_version` (`kb_update.go:73`): version numbers belong to paths. After a
  move away and a create at the path, a stale update has the right number.
* `server_store_error` (`spaces.go:207`): a failed upload is dropped, and the
  deletion queued behind it still goes through.

The passing runs leave out what the code does not keep, too. Each of these was seen
with TLC by changing the constants named, and no property of a run covers it:

* A failed move leaves snapshot directories, for which the same move is refused from
  then on (`NoStrayDirs` in `bundle_faults`).
* A body that begins with an indented fence: the body is normalised as sent
  (`bundle.go:305`) and trimmed when it is read (`frontmatter.go:65`). Four spaces make
  the fence none for the write, so the links behind the next fence are left as code;
  the read has the first fence back, and they are links, not normalised.
  `NormalizedForGood`, `RelinkedLinksFollow` and `OldPathsReported` except these bodies
  (`FenceUncovered`) and fail without the exception.
* An update without a version writes back the aliases it read, one of which a move
  has made another concept's (`AliasesUnambiguous` in `kb_stale_version` with
  `Versioned = FALSE`, three paths, and a concept that has an alias at whose path
  another is). It may also undo the repair of a type by another session, and so may
  one with a version that came round again (`TypesAreOnlyRepaired` in `kb_writers`
  with `Versioned = FALSE`, or with `MayMove = TRUE`).
* A move's late Index.Remove takes out the entry of a concept that another session
  has created at the old path (`SearchFindsEveryConcept` in `kb_stale_version`).
* With two handlers a move's late deletion takes from the store what was created at
  the old path meanwhile (`StoredConceptsStay`), and of two that wrote one concept the
  older content, read first and queued last, may stay there (`Mirrored`, with
  `MayMove = FALSE`): `server_restarts` with `Handler = {h1, h2}`.
* After a pull that skipped snapshots the next version gets a number that is taken
  and overwrites a stored snapshot (`SnapshotsNotOverwritten` in `server_restarts`
  with `PullFails = TRUE`).

`SnapshotsNotOverwritten` is about stored snapshots: a version number whose snapshot
was not uploaded before a crash is given out again. A pod that dies loses what is
still in its channels; `server_restarts` bounds the damage. `NoNewBrokenLinks` says
nothing of files that do not parse (a move does not rewrite them), nor of the links
that a cut uncovers in a file: the write that tore it has failed, and its author is
told so. `BrokenLinksLeadNowhere` is about links in canonical form: a broken relative
link may, after a move of its concept or a cut, lead to a former path, where the
audit finds nothing and a read finds a concept.

## The proofs

Every theorem is about every value of the constants: any number of paths, concepts,
sessions, handlers, versions and moves in a batch, any seed, any nesting of
directories, any capacity of a channel. Where a theorem needs a hypothesis on a
constant ("holds for"), it claims nothing beyond: most of the excluded cases are
the ones above, in which TLC finds the property violated.
`DiskFaults`, `StoreFails` and `PullFails` are whether operations on the disk and on
the store may fail.

| property | theorem | holds for |
|---|---|---|
| `TypeOK`, `HistoryContiguous`, `HistoryBelongsToResident` | `TypeCorrect`, `HistoriesHaveNoGaps`, `HistoriesBelong` (`BundleProofs`) | all |
| `NoStrayDirs` | `NoDirsAreStray` (`BundleProofs`) | no failing file operation |
| `CatalogKept` | `BundleIsCatalog` (`BundleProofs`) | no failing file operation |
| `NoVersionLost` | `NoVersionIsLost` (`BundleProofs`) | all |
| `NoNewBrokenLinks`, `LinksFollowConcepts`, `InboundForetellsMove` | `NoWriteBreaksLinks`, `MovesKeepNeighbours`, `LinksForetellMoves` (`LinkProofs`) | all |
| `FormerPathsResolve` | `SingleMovesLeaveAliases` (`LinkProofs`) | single moves |
| `AliasesUnambiguous`, `FormerPathsKeepHistory` | `SingleMovesKeepUnambiguous`, `HistoriesStayReachable` (`LinkProofs`) | single moves, authors write no aliases, unambiguous at first |
| `BrokenLinksLeadNowhere` | `BrokenLinksAgree` (`LinkProofs`) | authors write no aliases, true at first |
| `MoveIsAtomic`, `NothingLostMidMove` | `MovesAreAtomic`, `NothingIsLost` (`MoveProofs`) | all |
| `ToolTypeOK` | `ToolTypeCorrect` (`ToolProofs`) | all |
| `HistoryContiguous`, `HistoryBelongsToResident`, `NoVersionLost`, `NoNewBrokenLinks` of `ToolSpec` | `ToolsRunTheBundle`, `ToolsKeepHistories`, `ToolsLoseNoVersion`, `ToolsBreakNoLinks` (`ToolProofs`) | any sessions, which write any links and aliases |
| `IndexCurrent` | `IndexIsCurrent` (`ToolProofs`) | one session |
| `SearchRanksTheBundle` | `SearchIsRanked` (`ToolProofs`) | one session; `AnswersAreRanked` about the index: all |
| `SearchFindsEveryConcept`, `UpdatesReplaceWhatWasRead` | `SearchFindsWrites`, `UpdatesAreOptimistic` (`ToolProofs`) | no moves |
| `TypesAreOnlyRepaired` | `TypesOnlyRepaired`, `TypesOnlyRepairedAlone` (`ToolProofs`) | versions and no moves; one session |
| `Mirror`'s `TypeOK`, `NewestIsLast` | `SyncTypeCorrect`, `UploadsKeepOrder`; with the page `PagesLeaveUploads`, `PagesKeepOrder` (`SyncProofs`) | all |
| `ServerTypeOK` | `ServerTypeCorrect` (`ServerProofs`) | all |
| `StoreIsAnEarlierVersion` | `StoreHoldsEarlierVersions` (`ServerProofs`) | startup pulls every object |
| `Mirrored`, `SnapshotsNotOverwritten`, `StoredConceptsStay` | `OneHandlerMirrors`, `StoredSnapshotsLast`, `ConceptsStayStored` (`ServerProofs`) | one handler, no failing call to the store |
| `StalePageIsDue` | `StalePagesAreDue` (`SyncProofs`) | all |
| `MovedLinksFollow`, `NormalizedForGood` | `MovedFollow`, `NormalizedStays` (`TextProofs`) | all |
| `RelinkedLinksFollow`, `OldPathsReported` | `RelinkedFollow`, `OldPathsAreReported` (`TextProofs`) | no backtick or tilde marks in the frontmatter |

The assumptions are those the modules name: paths are naturals (the order of the
walk) and finitely many (`FiniteAssumption`), the seed is well-typed and gives each
concept one path, the aliases of a file are those its frontmatter parses to
(`UnparsedAssumption`), a directory in a directory is in all that contain the latter
(`NestingAssumption`), a concept's path has no empty, `.` or `..` segment
(`PathsAssumption`), a text of the frontmatter is one line (`TokensAssumption`), a
loose target leads to a path or to nothing of the bundle's (`TargetAssumption`),
authors choose sets of targets, channels have room for one request at least
(`CapacityAssumption`), and the value for "none" is no file, no
document and no move (`NoneAssumption`, `DocumentAssumption`, `JobAssumption`).

**`Counting`.** The library states induction with an operator for the predicate,
which no prover here can instantiate. Its place is taken by sets: a set of
numbers has a least element (`SmallestOf`), so one that contains 0 and with each
number the next contains all up to n (`CountUp`); and with the step of a recursion
given as a function, the numbers up to which a function obeys it are such a set, so
it defines one on 0..n (`RecursionDefines`). `Enumerated` lists a finite set in
increasing order.

**`BundleProofs`.** Neither history property is inductive. Contiguity is lost in a
state where a path without a file has snapshots: a Create there would give them to
a new concept, and a move would meet them at its target. The invariant is therefore
`TypeOK /\ HistorySound`, where `HistorySound` has for each path snapshots
numbered 1..k that all belong to the resident concept, and none where nobody
lives. Its preservation has one lemma per operation: writes of a file keep
ids, `Snapshotted` extends 1..k by k+1 with the resident's own content, and a
batch carries a whole history to a path that has none (targets are disjoint from
sources, and `CanMove` requires them free). For `NoStrayDirs` the invariant is
`DirsUsed`: every snapshot directory holds a snapshot or contains one that does.
For `BundleIsCatalog` the log of a path is its snapshots followed
by its file. A create starts a log where there was none; an update appends one
entry; a batch takes each log to its target and lets it grow by one entry, as
those of the rewritten concepts do. `Grew` says that a log did so (`MovedGrows`,
`StayingKeptOrGrows`), `TargetsFree` that no target had a log, and `CreateAdds`,
`UpdateEdits`, `MoveRelocates` match the operations with the catalog's actions. That
a log is a sequence at all is `HistoryContiguous`. For `NoVersionIsLost`, with
failing and torn writes, one lemma per step says where the file that was written
over or moved is now; for a failure it is the file itself or the snapshot made
before.

**`LinkProofs`.** A broken link of a concept after a step is traced to the file
it had before: a create or an update passed `LinksAccepted`, a moved or
rewritten file had a link with the same text, or to the place the target was
moved from, and a path that was there before is there or has been moved. A link
that only a failed write leaves broken is one its cut uncovered.
`MovesKeepNeighbours` is the same argument for links that are not broken,
`LinksForetellMoves` compares what LinksOf lists with `Relinked`. They need
`TypeOK` only. What is about aliases holds for single moves: in a batch a moved
concept may keep an alias that another move of the batch makes its own
(`bundle_batch_alias`), and an author may write any alias. Within these limits
`UnreadableHasNone` (a file that does not parse has no aliases) and unambiguity
are inductive together, so the concept that holds a former path is the one that
left it. `BrokenLinksAgree` adds `LinksReach`: a link in canonical form that no
cut uncovers leads to a file, or to a path that is no alias either.

**`MoveProofs`.** A move is tens of file operations, a failure can come at each, and
what is undone then depends on how far it was. The proof needs no induction over
the list of operations, because the disk is a function of the set of tasks left:

* `Design(d)` fixes what the move was planned to do from the bundle it found: its
  batch, for each file it writes what that held, what it will hold, and the number
  of the snapshot in between. `DesignOfPlan` shows that validation and planning
  make one (targets are free, numbers unused), `PlanListed` that the plan is a list of
  its `Tasks`, sorted by the partial order `Earlier` (renames, then each snapshot
  before its write, moved concepts before the others, tidying last).
* `Forward(d, P)` is the disk while the tasks P are left, `Backward(d, P)` the disk
  while the undo tasks P are. One lemma per operation (`ForwardCarry` to
  `ForwardTidy`, `BackwardWrite` to `BackwardCarry`) takes P to P without that operation,
  if nothing in P comes earlier; the head of a sorted list is such an operation
  (`TailOf`).
* A step adds to `restores` and `renamed` just what undoes it (`RestoresGrow`,
  `RenamesGrow`). So whatever a failing operation leaves, a torn file or half a
  snapshot, is a disk that `Backward` allows for the list the undo starts with
  (`BackwardAtFailure`): the file or snapshot that is torn is one it writes or
  discards, and a file is written back before its snapshot, its only copy, goes.
* With nothing left, `Forward` is `Bundle`'s `MoveBatch`, directories included
  (`MoveDone`), and `Backward` its `MoveFails` (`UndoDone`).

The invariant `MoveInv` says this of the move in progress, and between moves that a
path nobody lives at has no history and a history has its directory (`Settled`).
`MovesAreAtomic` is the refinement; `NothingIsLost` follows from `Forward` and `Backward`,
each of which says where the old content is.

**`ToolProofs`.** With one session what the index lacks or has too much is exactly
what the session has still to index (`IndexFollows`), so between requests the index
is the bundle. With several sessions that create and update every readable file
is in the index or about to be put there (`Findable`, `Pending`); a move by one
session and a late Index.Add by another break it. `Remembers`: while nothing moves,
a snapshot is never replaced, so if the version a client gives is current, the file
is the one it read. `Versioned` has each update give a version; then the type it
writes back is still the file's (`TypeChosen`).

`ToolsRunTheBundle` is a refinement without a mapping: `files`, `snaps` and `verDirs` under
`ToolSpec` are those of a run of `Bundle`'s `Spec`. A kb_update writes links and aliases it
read before others wrote, so the bundle it refines is one whose authors may
write any (`AnyAuthor`); with that, what holds of `Bundle` for all such authors
holds for concurrent sessions. The theorems about aliases need authors who write
none, and do not carry over: between Bundle.Read and Bundle.Update a move may
take away an alias that the update puts back.

For the searches, one round of the insertion sort puts one entry into a ranked
list (`SinkRanks`): what is in front of the entry stays, the entries behind it move
back by one, in the same order. So after n rounds the first n results are ranked
and are the first n found, each once (`SortRanks`), whatever order the map was
walked in. Entries that differ differ in their paths, so the order is total and one
answer is right. `SearchIsRanked` adds that the index is the bundle.

**`SyncProofs`.** The invariant of `UploadsKeepOrder` adds `CallersOwn`: a caller is
busy with one file, and with one of its own. Without it a request could be
overtaken by another caller's for the same file, which is what happens in `Server`
when two handlers share a file. A send appends, so the new request is the last of
its file; the push loop takes from the front, where no request is the last of its
file unless it is the only one. The page's timer and its regenerations change
nothing of this: every step of `Viz` is one of `Mirror` or leaves it alone
(`PagesLeaveUploads`), so the order is kept there too (`PagesKeepOrder`).

The invariant behind `StalePagesAreDue`, `PageInv`, adds that at most one
regeneration has listed (vizMu) and `StaleListingIsDue`: a page about to be
written from an outdated listing has another regeneration behind it, since the
change that outdated it has a hook to come, a timer or a regeneration that waits.

**`ServerProofs`.** `StoreHoldsEarlierVersions` needs only that all that is
stored, in a channel or in a hook's hands was read from the disk (`EarlierInv`).
For one handler `FollowInv` says of every file and snapshot that the youngest
request for it in the channel, or the store if there is none, is what the disk
holds, unless a hook for it is still to come; then, when all is quiet, store and
disk agree (`OneHandlerMirrors`), after any number of crashes, because a restart
makes them agree. `ConceptsStayStored` adds that the hooks of a move upload
before they delete: at each point of the list the concept is in the store, or on
its way there ahead of the deletion. Two handlers that share a file race between
reading and sending; a failed upload is dropped and the deletion behind it is
not; after a partial pull the server writes over snapshots it does not know of.
The proofs use the hypotheses against these.

**`TextProofs`.** Rewriting puts links in the place of links, and a link is no mark
of code; so code is where it was, and the links found afterwards are those found
before (`AlikeCode`, `RewrittenLinks`). A canonical target leads to its path from
everywhere (`CanonicalLeads`): cleaning and joining do nothing to a path without
empty and dot segments. With these, `Rewritten` says of RewriteLinks which links
it changes and where they lead then, and `MovedFollow` and `NormalizedStays` are the
cases of a moved concept and of a write. A concept that stays is harder: it is
rewritten as one raw text and read field by field. `CodeBehind` compares them: if
nothing in the first lines can begin code, then what is code behind them is what
is code without them, shifted, unless a fence at the beginning is one only without
them. The folds that find blocks and spans are compared position by position
(`BlocksBehind`, `SpansBehind`), `FilePlaces` and `RawLinks` say where in the file
which field is, and `BodyLinks` compares the body as sent with the body as read.
`PlainFront`, no code begins in the frontmatter, is the hypothesis, and
`FenceUncovered`, a body that begins with an indented fence, is excepted in the
properties; where they fail, the code fails too.

Only model-checked: liveness (`CallsReturn`, `PageCatchesUp`), which is out of the
prover's reach. What holds under a hypothesis is model-checked beyond it only in
the instances of the runs. Aliases that an author writes are in the model, and in
the theorems that hold for all, but no run has them.

## Not modelled

* What the tools print: wording, layout, the unified diff, the version numbers
  kb_list and kb_search look up after the search. The suggestions for a broken
  link (`suggest`) compare names, and only advise.
* Metadata besides type, links and aliases: titles, tags and status matter to
  searches only and are fixed there.
* The page that `viz/generator.go` renders is a template over the concept list.
* OIDC, bearer and proxy authentication keep nothing in the server: what a login
  has reached lies in the browser's cookie, each request is judged alone, and
  what happens in between belongs to external libraries and Keycloak. MCP
  registration, configuration and deployment have no logic of their own. The
  AWS SDK is the atomic effect of `Deliver`.

## Plan

Done, in this order: `Bundle`, its proofs, `Catalog`, `MoveApply`, `KbTools`,
`Syncer`, `Mirror` with its proofs, `Server`, `Links`; then `Viz` with its proofs,
`Registry` and types in `KbTools`, `Search`, `Reads`, mentions in `Links`,
`LinkProofs`, the refinement of `Catalog`; then the rest of `LinkProofs`, `ToolProofs`,
`ServerProofs` and `MoveProofs`; then the search in `ToolProofs`, `TextProofs`, and that
concurrent sessions run the bundle. Every safety property of the passing runs is
now stated by a theorem, some under a hypothesis.

To extend the models:

1. `Links`: frontmatter texts of several lines, as yaml lays them out; the
   suggestions for a broken link, against a definition of the nearest name.
2. `Server`: partial pulls and what later writes repair; the page of `Viz` over
   restarts.
3. `KbTools`: two sessions that move, with the weaker promises that hold then.

To prove more:

1. `Links`: frontmatter with code whose runs of backticks are all closed in it.
2. `Server` with several handlers: what holds of files only one of them writes;
   that between restarts what it does to the disk is a run of `Bundle`.
3. `KbTools`: what several sessions that move keep, once that is stated.
