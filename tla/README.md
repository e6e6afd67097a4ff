# Verifying the Underlay server

Underlay stores versioned collections of records and files as content-addressed
objects in buckets (S3, R2), with a SQL database (D1, SQLite) for everything
that moves: the head of each collection, push sessions, jobs and cleanup. The
bucket has no transactions, the database no interactive ones, every queue
message may come twice, and any process may stop at any await. This directory
models what keeps the system correct under those conditions, checks it with TLC
on small instances, and proves with TLAPS, for any instance, what matters most of
seven of its parts.

Paths below are relative to `packages/`.

## 1. Inventory

| Part | Where | State it keeps | Operations | Hard behaviour |
|---|---|---|---|---|
| Storage fence | `server/src/cleanup/fence.ts` | one row: epoch, window deadline, window's run | writeFence, fenceHolds, fenceMoved, openWindow, windowStillOpen, closeWindow | writers and sweeps interleave; crashed sweeps; late deletes; clocks |
| Sweep | `server/src/cleanup/sweep.ts` | listing place, marks | classify, remark, deleteCandidates | reuse of an object that is about to be deleted; partial failure |
| Marks and runs | `server/src/cleanup/{mark,marks,runs,internal}.ts` | run rows, leases, mark shards | startRun, claim, checkpoint, walk, requeue | lapsed leases, redelivery, budgets; a place saved ahead of its marks |
| Publish | `server/src/versions/publish.ts` | versions, collection head, schema usage | one conditional batch, then a read-back | compare-and-swap races; a publish that looks lost |
| Push session | `server/src/push/{session,finalize,outcome,delta}.ts`, `server/src/api/push.ts` | session row, its runs, uploaded objects | open, upload, commit, rebase, settle, reopen, expire | several runs of one commit; stale lists |
| Recovery | `server/src/push/recover.ts` | stalls, progress | nudge, fail | lost jobs; liveness |
| Parallel commit | `server/src/push/parallel.ts` | plan, units, assembly lease | plan, unit, merge, assemble, validate | redelivered units, plans dropped by a reopening |
| Run compaction | `server/src/push/{compact,runs}.ts` | run rows, claims on them, pieces, the session's phase | claim, merge, plan pieces, merge a piece, swap, requeue | claims lost; a commit waiting for merges; late pieces |
| Job queue | `server/src/jobs.ts`, `worker.ts` | job rows, or queue messages | enqueue, claim, retry, give up | at-least-once, overlap |
| Version log | `protocol/src/repo/log.ts`, `server/src/versions/commit.ts`, `handlers.ts` | log entries, head.json | append, repair | unconditional writes by overlapping writers |
| Collection info | `server/src/versions/collection-info.ts` | collection.json | rewrite | lost update of the key list |
| Repository and trees | `protocol/src/repo`, `protocol/src/tree` | immutable objects | put if absent, merge, chunk, delta leaves | reuse of old objects; canonical chunking |
| Layout F | `protocol/src/repo/layouts/{keyed,kit}.ts`, `server/src/push/packs.ts` | packs, layers, numbered manifests, pending objects, merge plans | append, adopt, maintain, merge by ranges, sweep what is retired | merges and commits that read the manifest before others change it; jobs that die around a swap |
| Files | `server/src/files/files.ts`, `versions/file-refs.ts` | uploads, possession | upload, verify, resolve | verification racing cleanup |
| Reference log | `server/src/refs` | segment rows and objects, unit and merge rows, billed counts | index, index a unit, plan a merge, merge a part, swap | jobs repeated after a deletion or a swap |
| Billing | `server/src/billing` | counters | count, reconcile | drift against live writers |
| Locations, mirrors | `server/src/locations`, `protocol/src/repo/sync.ts` | copies elsewhere | mirror, verify | partial copies |
| Webhooks | `server/src/webhooks` | deliveries | fan out, retry | duplicates |
| API, web, accounts, CLI, migration | `server/src/{api,auth}`, `web`, `cli`, `migrate` | | | mostly reads, rendering and one-row writes |

How they interact: a client opens a session and uploads batches; its commit
runs in the request or as a `push.commit` job; the commit waits for the storage
fence, writes the objects of the version that the bucket does not have yet, and
publishes with one batch that carries both the head's and the fence's condition.
What follows a publish (the log, collection.json, `version.published`) is
outside any transaction and is repaired by jobs. Meanwhile the sweep deletes
objects that no version reaches, in deletion windows that the fence row orders
against every writer.

What makes each part correct:

- **fence and sweep**: a published version never misses an object; a job
  deletes only inside its own window; a crashed sweep holds nobody up for more
  than a window.
- **publish**: the history of a collection is one line, head last.
- **push session**: one session makes one version, with all that was uploaded
  to it; `committed` means readable; settled stays settled; a commit ends.
- **parallel commit**: a version is made of every unit of one plan, each once and
  none that was merged away; no job that is lost, repeated or dies keeps a commit
  from ending.
- **run compaction**: whatever is merged, in any groups and order, a commit reads the
  uploads as they were at one moment, and of one key the latest.
- **marks**: a finished mark holds all that any version needs; a place never runs
  ahead of the marks saved for it; a run ends.
- **reference log**: a version's events are found together, from when it is indexed
  on, and its collection is billed for them once.
- **trees**: merging, or assembling what units put out, gives the very tree that
  building the new entries from nothing would.
- **layout F**: a record that a commit named is always found, in a pack that is there.
- **log**: readable up to head.json at any moment, no gaps, entries never
  replaced, verifiable, and it catches up; every version is announced.

## 2. Modules

| Module | What it is |
|---|---|
| `Repository.tla` | Abstract specification: what readers of the repository may rely on. Versions appear only over objects that are there; only unreached objects disappear. No clocks, windows, or epochs. |
| `StorageFence.tla` | The protocol of `fence.ts`, `sweep.ts` and `publish.ts` that implements `Repository`, with its properties and its inductive invariant. |
| `StorageFenceProofs.tla` | Theorems about `StorageFence`, checked by TLAPS. |
| `PushSession.tla` | A push session from opening to its version. |
| `VersionLog.tla` | What follows a publish: log, collection.json, announcement. |
| `ParallelCommit.tla` | The commit of one large session as jobs: plan, units, merges, assembly, and the sweep that looks after it. |
| `CompactedCommit.tla` | `ParallelCommit` composed with the end of a compaction that two jobs finish. |
| `Uploads.tla` | Abstract specification: what a session's uploads amount to. No runs, no merges. |
| `RunCompaction.tla` | The runs of a session and their compaction, which implements `Uploads`. |
| `CleanupRun.tla` | Runs of the storage cleanup and the mark's walk: what `StorageFence` assumes of `Mark`. |
| `Provenance.tla` | Abstract specification: what queries of the reference log find. No segments, no jobs. |
| `RefLogRows.tla` | The reference log's rows, objects and messages, and what a collection is billed for. |
| `RefLog.tla` | Indexing, billing and merging of reference events, which implements `Provenance`. |
| `PushSessionProofs.tla`, `ParallelCommitProofs.tla`, `RunCompactionProofs.tla`, `CleanupRunProofs.tla` | Theorems about those modules, checked by TLAPS (section 5). |
| `LogProofs.tla` | Theorems about the two logs, `VersionLog` and (as `R`) `RefLog`. |
| `KeyedLayoutProofs.tla`, `KeyedRecordsProofs.tla` | Theorems about `KeyedLayout`: its layers and packs; its records. |
| `TreeMerge.tla` | Chunked trees: building, `mergeTree`, units and `assembleTree`, against building anew. |
| `KeyedLayout.tla` | Layout F: manifest, pending objects, merges of layers and packs, split merges, the sweep. |
| `MC*.tla` | Instances and symmetry for TLC. Bounds are in the `.cfg` files. |

How they fit together: `StorageFence` takes a mark as given (a set that holds what every
version needs); `CleanupRun` shows that the jobs make such a mark. `ParallelCommit` takes a
unit's output as given; `TreeMerge` shows what the units put out and what assembly makes of
it. `PushSession` and `ParallelCommit` read a list of runs; `RunCompaction` shows that
whatever became of the runs, the list amounts to the uploads. `CompactedCommit` composes
two of them where they share a column (the session's phase).

A definition whose comment begins with "Slip:" is not the code. It is the code with one plausible
mistake (a guard dropped, a step skipped), defined before the definition it
stands in for, and it shows that the property it is meant for can fail.

### StorageFence

One action per round trip. A writer is `fenced` around one commit:
`Begin`, `ReadFence` (or `GiveUp`: StorageBusyError), `Put` for each object
(`ifAbsent`), `Stamp` (publishedAt is taken from the server's clock before the
batch), `Publish` or `Refused` (the batch), `Redo` or `Fail` (fenceMoved and the
retries), `WriterDies` anywhere. A sweep job: `Mark`, `List` (classify),
`RemarkOutside`, `NoPushCommitting`, `OpenWindow`, `RemarkInside`,
`IssueDeletes` (windowStillOpen, then a slice of requests), `StopDeleting`,
`CloseWindow`; `HoldOff` is its 'wait', `RemarkFails` and `LandFails` its
errors, `SweeperEnds` its death. Requests on their way are state of their own
(`inflight`): they land (`Land`) after the job that sent them has died or moved
on. `Tick` moves the database's clock; it enforces the two bounds on the
outside world, that a delete lands within `Hang` and that the publish batch is
sent within `RequestMax` of its stamp. Everything else may take for ever.

The marks of a run, and the lists of candidates, are sets. `classify`'s age
test uses the time the copy in the bucket was written (`born`). `base` is the
frame a delta leaf is stored against: `Closure` is what must be in the store to
read a set of objects. In `Init` the bucket may hold anything that deleted
collections left behind.

### PushSession

`CountOpen`/`InsertSession` open a session; `ClaimRun`/`RecordRun` are one
upload; `CommitRequest`, `StartCommit`/`StartRefused` and `Enqueue` are the
commit route, whose status move is a compare-and-swap. A run of the commit is
`Load`, `CheckHead`, `ListRuns`, `Build`, `Publish` or `PublishLost`,
`ReadBack`, `Fenced`, `FindOwn`, `Settle`; each reads or writes one shared row.
`Deliver` gives a queued message to any idle runner while others may still work
on it. `Die` and `JobLost` lose work; `Nudge` and `FailStalled` are
`recoverCommits`. `RivalPublishes` is any other writer of the collection.
A version's `content` is every uploaded batch that it holds. Whether a session's
files are in the store is one bit (`held`); a commit without them is refused
with "Missing files", and the session reopens.

### VersionLog

A worker that published goes through `ReadBack`, `ReadHead`, `ReadInfo`,
`WriteInfo`, `PutEntry`, `PutHead`, `Announce`: appendVersionLog and what
surrounds it, one bucket request per action. `repo.repairLog` (`StartRepair`)
runs the same steps for every version after head.json's; `collection.info`
(`StartInfo`) rewrites collection.json alone. The hash of an entry is modelled
by what it depends on: the sequence of keys that signed the chain up to it.
`Rotate` is a deployment with a new signing key.

### ParallelCommit

The key ranges of a plan are the numbers `1 .. N`, in trees that end at `Ends`.
Which ranges a push makes troublesome is a constant: `Gone` (the last key is
deleted, so mergeTree's last key is another and the unit fails) and `Gaps` (no
change). A unit is the ranges it covers; a merged one has a `copy` number for its
random id. The outputs and slices are not state: they depend on the unit alone.

A runner goes through a job one database or bucket round trip at a time, `pc`
being the next one. `StartCommitJob` to `StartAssembleJob` are what a delivered
message finds; then `Plan`, `PlanLost` or `PlanBusy` (push.commit), `WriteRows`,
`MarkChunk`, `CountChunks` (commit.plan), `QueueWork`, `PickWaiting`, `ClaimUnits`
(queueWork and topUpUnits), `FinishUnit`, `AfterUnit` (commit.unit), `TakeLease`,
`ReadRows`, `MergeFailed`, `Release`, `BuildTree`, `Publish`, `Settle`
(commit.assemble). `StopAssembly` is its running out of time and its every error,
`Die` any job's death. `Recover` is recoverCommits for one session, `Recommit`
the client's next try, `Age` the passing of `staleMs`.

Messages: with `Faults` a message stays in `jobs`, so it comes any number of
times, at any time, or never; without, it comes once. An update and the message
that follows it are one step where nothing is read in between, since a job that
dies there and a message nobody takes leave the same state. For the same reason
the lease of a runner that dies is cleared at once: an assembly that finds it taken
until it lapses does what one that dies does. A top-up's count and pick are one
step; two top-ups still overlap between their picks and their claims, so what the
claim must ask again is there, but not by how much they can overshoot the window.

Not here: revalidation after a schema change, the account's window over several
sessions, and how planRanges cuts the ranges.

### RunCompaction and Uploads

A run is a row (`row`: its tier, and the run it is being merged into) and an object
(`object`: of each key, the upload its entry came from; the bytes are left out). An
upload is `BeginUpload`, `RecordRun`, `FullTier`, `PickTier`. A compaction takes a
number (`TakeNumber`), claims the runs it found (`Claim`), and lets go if it got a
part of them (`Release`), or queues its job (`QueueCompaction`). The job merges
(`Merge`), or plans pieces (`Plan`, `StartPiece`, `Slice`, `Sliced`), of which the last
joins them (`Join`); `FindInputs` and `Swap` put the run in for its inputs; `AfterSwap`
looks for another full tier or brings a waiting commit back. The commit is `StartCommit`,
`ListRuns`, `SetCompacting`, `Group`, `ClearPhase`, `ReadRuns`, `Settle`. `RequeueClaim`
and `Nudge` are recoverCommits. `Crash` and `Redeliver` are bounded by `MaxFaults`, and
so is a message that is lost.

`Uploads` has neither runs nor merges: the content of a session is a function from keys
to upload numbers, and a read is of the whole. The refinement maps `content` to the
merge of all rows and `seen` to the merge of the runs that a commit holds: every step of
a compaction must be a stutter.

A merged run can come back: two pieces that both find every other written both join,
and the slower writes the object again under the same number. Its content is the
same, and its inputs are gone, so nothing is lost; `ImplementsUploads` covers it.

### CompactedCommit

`ParallelCommit` from the state in which two `push.commit` jobs, one queued by each of
the last two compactions, find the session in phase 'compacting'. Its steps are
`ParallelCommit`'s and two more, of which `ClearPhase` writes what it read about some
awaits ago. It is there for one question, finding 8.

### CleanupRun

`StartRun` looks for an active run, `Insert` adds one: two requests may both. A job is
`Claim` (lease and seq), `Begin`, `Load` (place and shards), then `ReadNode` and `NextItem`
over collections, tombstones and possessions; `Stop` when the budget is spent;
`SaveShard` and `Checkpoint` at a checkpoint; `Finish`, `Look` and `InsertSweep` at the end
of a mark that a sweep follows, `Fail` if it throws. `Requeue` is the cron's, `Lapse` a
lease that runs out, under a job that died or one that is only slow. The sweep's jobs are
`SweepJob`: what they delete is `StorageFence`'s.

A node is a name with its children (`Children`), what its entries name out of line
(`Points`) and the node it is a delta of (`Frame`). Time is not counted. What the model has
besides its properties, worth knowing: a slow job whose lease lapsed finishes the
run without asking, or sets seq and place back and forks the chain, which costs work but
no marks; a mark that is done becomes failed if the sweep it should start is refused; a
crash after 'done' is written loses that sweep; two requests can start two runs.

### RefLog and Provenance

`RefLogRows` declares the state and `RefLog` its steps. The rows are state (`version`, `unitRows`, `segment`, `merge`, `billed`) and so are the
objects (`object`), which are named by run, part and number and so are overwritten by a
job that repeats. `Index` and `IndexUnit` derive a version's events; `PutSegments`,
`InsertUnit`, `CountUnits`, `FinishIndex` (the batch that puts them live and bills),
`Announce`; `Plan`, `InsertMerge`, `MergePart`, `InsertPart`, `CountParts`, `Swap`,
`DeleteObjects`, `DeleteRows`. An event is its place in the order of compareEvents; its
hash decides the segment a query reads (`Found`). `DeleteCollection` takes the rows
of versions, and merges that run later leave its events out. `Provenance` knows versions
indexed, events found and collections gone; in it a merge is no step.

In the instance of `RefsMerged` the events of the collection that may be deleted sort
last, on purpose: leaving them out then moves no boundary between segments. With
them first, finding 10. What the model has besides: two planners may both pass the check
for a merge under way and merge the same runs, so that events are found twice (a query
folds them); a part whose message is lost for good leaves a merge 'running' for ever,
and no sweep looks at it; a crash after the swap leaks rows and objects.

### TreeMerge

A node holds its level, its last key and its kids, so two nodes are equal when their
hashes would be. `Zeros` is how many trailing zeros each key's boundary hash has. The
reference is `Root(content)`: the tree built level by level from all entries. A step
visits one node, as `visit` does in merge.ts and assemble.ts, with the builder (`Push`,
`Close`, `Finished`) as state in `walk`. `Init` takes every base tree over the keys,
every set of at most `MaxChanges` changes, and either no segments (a serial merge) or
every valid cut into key ranges, some of them unchanged by the push.

### KeyedLayout

`manifest` is the newest numbered object; `Latest` is the view that #withPending gives,
with the pending objects folded in. Every change of it goes through `ReadNewest` (read,
look whether the inputs are still listed, or give up and delete what was written),
`ClaimNumber` (a write that fails if the number is taken) and `ClearPending`. A commit is
`ReadManifest`, `ListPending`, `AppendRuns`, `SaveTree` and, with packs its uploads wrote
(`Placed`), an adoption. A maintain job: `TakeLease`, or `SeeDeadLease` and `BreakLease`;
`Abandon`, `MergeLayers`, `SplitMerge` or `NoneDue`; `MergePacks` or `NoPacksDue`; `NextPass`
or `EndPasses`; `SweepRetired`; `Release`. A split merge's job: `StartRange`, `CheckInputs`,
`MergeRange`, `CountRanges`, `ClaimSwap`, `MergeSwap`, `ListMerge`, `DropMerge`. `CommitDies`,
`MaintainDies`, `MergeDies` and `LoseMessage` are the faults.

A layer is a map from records to the pack each is in (`at`), with the sequence that says
which of two wins. Which stretch of runs is due, and whether its merge is split, goes by
sizes in the code and is left open here. `Final` packs go to the registry, which is not
modelled, and leave the manifest. Grace periods are not counted: a sweep may delete what
was retired just now. `Age` (MERGE_ABANDON_MS) waits until no message and no job of the plan is left: an
hour is taken to be longer than a message waits and its job runs.

Three constants name schedules that findings 11, 12 and 14 are in: `LateRepeats` (a split
merge's job looks for its inputs, or dies, once its run is swapped in), `TornReads` (an
update falls between the two reads of a retried `appendRuns`) and `LateKeys` (a pending
object lands behind one with a later key: another host's clock, a slower write). The
passing run has the third alone, as it takes more merges than the run has for it to do harm.

`LayersStored` is the half of `NothingLost` that is about layers: every layer a lookup may
have to read is there. The other half is about records: the newest entry of a record that
a commit named is in a pack that is there.

## 3. Runs

Each run asks one question. All end within five minutes on two workers, most of them in
less than three.

| Run | Instance | Shows |
|---|---|---|
| `FenceSweeps` | 1 writer, 2 sweep jobs of one run, 1 object, every duration 1 (Hang = Margin + Slack, RequestMax = RemarkSlack: no slack left), clock to 4, 2 epochs | no hole, deletes inside their window, one deleter; refines `Repository` |
| `FenceWriters` | 2 pushes, 1 sweep job, delete requests may fail | an epoch never outlives its window; a refusal is recognised; who gives up has waited for two windows |
| `PushSessions` | 1 session, 2 batches, 2 runners, 2 version ids, 1 stall, rebases | linear history, one version per session, with all its uploads, settled once, ends |
| `LogAppends` | 2 workers, 2 keys, 2 versions, failures and deaths | readable, no gaps, kept, announced |
| `ParallelUnits` | 2 runners, 1 plan, 3 ranges in 2 trees (the first ends at a deleted key, the second is a gap), 2 chunks, window of 1, 1 attempt, 1 stall, faults | units tile, published whole, ends |
| `PhaseCleared` | `CompactedCommit`: 2 runners, 2 ranges in 2 chunks, no faults | finding 8 |
| `RunsCompacted` | 3 uploads of 2 keys, 2 runners, fan-in 2, a commit reads 1 run, pieces of 2 entries, 1 fault, 1 stall | refines `Uploads`; a commit ends |
| `MarkRuns` | 2 collections (one a fork of the other, with a delta leaf), 3 versions, 2 workers, 1 mark and its sweep, budget of 3 nodes, a checkpoint every 2, 1 upset | places behind their marks, sweeps on whole marks, runs end |
| `RefsMerged` | 3 versions (one in 2 units, one a fork's first), 4 events in 2 parts, 2 workers, fan-in 3, 2 merges, 1 upset, a deletion | billed once; refines `Provenance` |
| `TreesMerged` | 6 keys whose hashes end leaves and interior nodes, leaves and nodes of at most 2, every tree, every 2 changes, every cut | the tree built anew, counts, units' leaves |
| `RecordsKept` | 2 commits with a record in common, one with packs of its own, 1 maintainer, 1 merger, 2 ranges, 3 files written by merges, 1 death or repeat | no record lost; refused and repeated changes list nothing twice |
| `RecordsDropped` | the same, one range, late repeats | `LayersStored` fails: finding 11 |

More configurations are kept beside these, each for one finding or one variation. They
are run by hand (`tlc -config X.cfg Module`):

| Configuration | Module | Instance | Outcome |
|---|---|---|---|
| `FenceFailedDelete` | `MCStorageFence` | 1 writer, 1 job, 2 objects, failing deletes | `NoHole` fails: finding 1 |
| `FenceOrphanDelta` | `MCStorageFence` | 1 writer, 1 job, 2 objects, delta leaves | `NoHole` fails: finding 2 |
| `PushReopened` | `MCPushSession` | as `PushSessions`, no rebases | `ReopenedHasUploads` fails: finding 3 |
| `LogHeadBack` | `MCVersionLog` | 3 workers, 1 key, no failures, fair | `LogCatchesUp` fails: finding 4 |
| `LogRotation` | `MCVersionLog` | 3 workers, 2 keys, no failures | `ChainHolds` fails: finding 5 |
| `LogKeyDropped` | `MCVersionLog` | 2 workers, 2 keys, no failures | `SignersListed` fails: finding 6 |
| `ParallelWakeup` | `MCParallelCommit` | 2 runners, 2 ranges, no faults | `NoLostWakeup` fails: finding 7 |
| `MarkedFrame` | `MCCleanupRun` | 1 worker, the fork walked first, no fault | `SweepsOnWholeMark` fails: finding 9 |
| `RefsShifted` | `MCRefLog` | a merge repeated after a deletion | `NoFalseNegatives` fails: finding 10 |
| `RecordsRenamed` | `MCKeyedLayout` | torn reads, 1 death | `NothingLost` fails: finding 12 |
| `RecordsShuffled` | `MCKeyedLayout` | 4 commits of one record, late keys, a split merge, a merge of layers and one of packs, no fault | `NothingLost` fails: finding 14 |
| `RunsWait` | `MCRunCompaction` | 5 uploads of 1 key, 2 runners, no fault | `NothingWaits` fails: finding 13 |
| `RecordsLease` | `MCKeyedLayout` | 2 maintainers, of which one breaks the lease the other just took | passes: two maintainers at once lose nothing here |

Why the bounds are enough. The fence is about one object at a time: an
object's life is decided by the versions and the jobs that name it, and two
objects matter only when one refers to another (deltas) or two requests share a
slice, which the runs with two objects do. Two epochs hold a window that lapses
and another opened over it; a clock to 4 holds a whole window, its slack, and a
writer that waits it out. For what the proofs cover, no bound matters. A session
and its commit involve at most two runs that disagree and a client; two version
ids are a session's own version and a rival's (or a second of its own). The log
needs two versions for a chain, two appenders of one version, and a third for a
repair that runs between them. A parallel commit's hard cases are a merge (a unit
that ends at a deleted key, with a gap after it), a second tree that is built or
not when an assembly stops, two chunks, a window that is full, a unit out of
attempts and a commit nudged once too often: the instance has one of each, and two
runners, as the lease is what keeps two assemblies apart. `MaxCopies` = 2 lets two
assemblies merge the same units (below). Two separate merges in one tree, and a
second plan of the same session, are out of the instance.

Three uploads with fan-in 2 give two tiers, a claim that gets a part of its group and a
merge of a merged run; two keys give an upload that replaces half of another, and pieces.
`MarkRuns` has every kind of thing a walk can meet twice: a node two versions share, one
that two collections share, a leaf that is a delta, a collection that is deleted before,
during or after its turn, a file that only a possession names; its budget ends jobs
inside trees and between them. Two marks, or two sweeps, at once are more than five
minutes can hold: `MaxRuns` = 2 is a mark and its sweep. In `MarkRuns` the delta's frame
drops nothing, so that finding 9 does not end the run. `RefsMerged` has a merge of three
runs in two parts, one of which begins inside a version's events. Six keys give
trees of up to four levels: a straddling leaf, a unit that begins inside an interior
node and a last node that must grow all occur, which its mutants show. The three
names of `RecordsKept` are those of a split merge with its plan and two ranges, or of
three merges of layers or packs in any order, beside two commits of which the second
rewrites a record of the first; a split merge that completes beside a merge of packs
needs a fourth. With one death and one repeat together (`MaxFaults` = 2) it also
passes, in 1.58 million states, which take too long for a run.

`UnitsTile` allows one overlap, of twins: a unit merged twice. An error after the
assembly has let go of its lease makes it let go again (`parallel.ts:1249`), by
then of another assembly's, and two of them may read the same failed units. In a
strict form, without `Twins`, the property fails after some 35 steps. `PublishedWhole`
and `CommitEnds` say what comes of it: assembleTree refuses the overlap, nothing
wrong is published, and the sweep fails the commit.

The runs whose instance stops (the clock, the ids or the history ran out)
say `CHECK_DEADLOCK FALSE`: a bounded history does end.

Fairness. `PushSession`'s `FairSpec` has weak fairness of `Recover` alone: the
cron trigger sends `maintenance.sweep` every ten minutes whatever happened to
earlier ones, so a stalled session is looked at again. Nothing is assumed of
requests, consumers or the queue: `CommitsEnd` holds with all of them dead.
`ParallelCommit`'s adds that time passes (`Age`), without which a full window of
lost units would never be found stale; again nothing is assumed of the jobs.
`RunCompaction`'s and `CleanupRun`'s assume that consumers go on with what they have and
take what is queued, that the sweep or cron runs, and (for a run's lease) that time
passes; a consumer that dies is a fault and has none of it. They need it: a compaction
that is never looked at again holds its claim.
`VersionLog`'s `FairSpec` assumes that a running worker goes on and that the
queue delivers; it is used only in `LogHeadBack`, where `Fails` is FALSE, to
show that the log stays behind even then.

## 4. Findings

1. **A failed delete lets its siblings land on live objects**
   (`server/src/cleanup/sweep.ts:377`, configuration `FenceFailedDelete`). `Promise.all`
   rejects at the first failure and `finally` closes the window with requests
   still on their way.
2. **A delta leaf is reused without its frame**
   (`protocol/src/repo/repo.ts:350`, configuration `FenceOrphanDelta`). An unreached delta leaf
   may outlive the full node it was diffed against; `ifAbsent` then keeps it.
3. **Uploads acknowledged after a reopening can be in no version**
   (`server/src/push/outcome.ts:161`, configuration `PushReopened`). An old run of the
   commit publishes its old list; the new commit takes that version for its own.
4. **head.json can go back and stay there**
   (`protocol/src/repo/log.ts:215`, configuration `LogHeadBack`).
5. **head.json can name an entry that is not stored**
   (`protocol/src/repo/log.ts:214`, configuration `LogRotation`).
6. **collection.json can lose a key that has signed**
   (`server/src/versions/collection-info.ts:54`, configuration `LogKeyDropped`).
7. **A merged unit's assembly can be turned away by the lease of the assembly that
   merged it** (`server/src/push/parallel.ts:1131`, configuration `ParallelWakeup`). The other
   branch looks again whether anything is pending; this one does not, and the
   commit waits for the sweep (30 minutes). The unit must finish while the
   assembler is still merging others or letting go of its lease, so it takes a short
   unit.
8. **A commit that comes out of compaction can clear the phase of its own planning**
   (`server/src/push/compact.ts:186`, run `PhaseCleared`). The last two compactions each
   queue a `push.commit`. Both jobs read phase 'compacting'; one plans and sets 'planning',
   the other clears what it finds. A unit that finishes then assembles the units
   whose rows are written so far, finds them all done, and publishes a part of the push.
   No fault is needed.
9. **A delta leaf's frame is marked as walked though its entries were not looked at**
   (`server/src/cleanup/marks.ts:174`, configuration `MarkedFrame`). A fork is walked before its source; its
   leaf is a delta of an older leaf, which goes into the set. The source's version
   that has that leaf in full skips it, and the large records and files that only it names
   stay unmarked: the sweep deletes them once they are old enough.
10. **A reference merge repeated after a deletion cuts its segments elsewhere**
   (`server/src/refs/log.ts:461`, configuration `RefsShifted`). The objects are written over, the
   rows keep the first run's hash ranges, and queries miss events of live collections.
11. **A split merge that was swapped in can be dropped with its output**
   (`protocol/src/repo/layouts/keyed.ts:772`, run `RecordsDropped`). mergeRange takes
   inputs that are not listed as lost to another merge. They are not listed either once
   the plan's own run is in: a job that dies between #swap and #dropMerge, and is run
   again, deletes the files of a run the manifest lists; if it is not run again, the
   abandonment after an hour does.
12. **A retried assembly can name its runs a second time**
   (`protocol/src/repo/layouts/kit.ts:1193`, configuration `RecordsRenamed`). appendRuns reads the
   manifest, then lists the pending objects. An update between the two folds the first
   try's object in and deletes it: the retry sees neither. Its second object brings the
   layers back as the newest run after a merge has retired them, and the sweep then
   deletes files that are listed again, which is what the comment there guards against.
   The window is short (between the update's claim and its delete, and the reader's two
   reads).
13. **A commit can wait for the sweep with no fault at all** (`server/src/push/compact.ts:105`,
   configuration `RunsWait`). Two `push.commit` jobs of one compacting session overlap. The
   slower one, listing from before, claims a part of a group. The other lists meanwhile,
   finds that part claimed and one free run beside it, and ends to wait for that claim's
   compaction. The slower one did not get its whole group, lets the claim go and ends too:
   the session stays 'compacting' with no job queued until the sweep nudges it.
14. **A pending object that lands out of the order of its key can turn two merges' runs
   around** (`protocol/src/repo/layouts/keyed.ts:535`, configuration `RecordsShuffled`). A merged run takes
   its newest input's sequence, "which is only right when no other run's number falls
   between its inputs'" (`keyed.ts:454-456`), and #withPending says the pending objects are
   listed "newest last (keys sort by time), each a sequence past everything in `m`"
   (`kit.ts:978-979`). A key is made before its object is written: one that lands behind a
   later key moves the later ones up by one, in every view after. A split merge planned
   before remembers its place by number (`plan.seq`); folded in, its inputs lie elsewhere than
   that. Its swap can then lower the greatest sequence there is, and a merge of packs, whose new
   layer must win over the old ones, takes a number below that of a run another
   merge still holds and puts back. That run's entries win, and they name packs the merge of
   packs retired: the sweep deletes them and the records are not found.

## 5. Proofs

TLC says what holds in an instance; the theorems hold for every number of writers,
sessions, uploads, versions, ranges, trees, jobs and faults, every value of the times and
limits that satisfies the named assumptions of a module, and without the bounds that TLC
needs. "Beyond" is what a theorem assumes in addition. Where it assumes something, the code
does not have the property without it, and a finding shows how.

| Module | Theorem | States | Beyond |
|---|---|---|---|
| `StorageFenceProofs` | `TypeCorrect` | `[]TypeOK` | |
| | `OnlyOneDeletes` | `[]OneDeleter` | |
| | `EpochsOutdated` | `[]EpochOutdated` | |
| | `RefusalsSeen` | `[]RefusalSeen` | |
| | `PatientWriters` | `GiveUpAfterTwoWindows` | |
| | `DeletesStayInside` | `[]DeletesInsideWindow` | deletes do not fail |
| | `NothingMissing` | `[]NoHole` | deletes do not fail, no deltas |
| | `ImplementsRepository` | `Spec => RepositorySpec` | deletes do not fail, no deltas |
| `PushSessionProofs` | `TypeCorrect` | `[]TypeOK` | |
| | `HistoryIsLinear` | `[]LinearHistory` | |
| | `OnceInHistory` | `[]CommitsOnce` | |
| | `CommittedThere` | `[]CommittedIsPublished` | |
| | `NoUploadLost` | `[]CommittedHasUploads` | |
| | `SettledStays` | `CommittedStays` | |
| `LogProofs` | `TypeCorrect` | `[]TypeOK` | |
| | `HeadIsBacked` | `[]HeadHasEntries` | |
| | `NoGaps` | `[]LogHasNoGaps` | |
| | `EveryVersionAnnounced` | `[]Announces` | |
| | `EntriesStay` | `EntriesKept` | |
| | `ChainHoldsWithOneKey` | `[]ChainHolds` | one signing key |
| | `SignersListedWithOneKey` | `[]SignersListed` | one signing key |
| | `BilledExactlyOnce` | `R!Spec => []BilledOnce` | |
| `ParallelCommitProofs` | `TypeCorrect` | `[]TypeOK` | |
| | `UnitsAlwaysTile` | `[]UnitsTile` | |
| | `PublishedIsWhole` | `[]PublishedWhole` | |
| `RunCompactionProofs` | `TypeCorrect` | `[]TypeOK` | |
| | `Implements` | `ImplementsUploads` | |
| `CleanupRunProofs` | `TypeCorrect` | `[]TypeOK` | |
| | `OnlyFramesMiss` | `[]MissesOnlyDropped` | |
| | `PlacesSaved` | `[]PlaceIsSaved` | `FramesKept` |
| | `SweepsWhole` | `[]SweepsOnWholeMark` | `FramesKept` |
| `KeyedLayoutProofs` | `TypeCorrect` | `[]TypeOK` | no torn reads |
| | `LayersKept` | `[]LayersStored` | no torn reads, no late repeats |
| `KeyedRecordsProofs` | `RecordsKept` | `[]NothingLost` | no torn reads, no late repeats, no late keys, one maintainer |

The hypotheses on `StorageFence` are findings 1 and 2. One signing key (`Keys = {k}`, a
deployment that never rotates) is the other side of findings 5 and 6: a rotation is all
that can break the chain or lose a signer. `FramesKept` (no delta leaf drops an entry out of line that
its frame has) is finding 9, and `OnlyFramesMiss` needs no hypothesis: entries that a delta
dropped are the *only* thing a mark can miss, however leases lapse and jobs repeat, overlap and die.
No torn reads (`~TornReads`) is finding 12, no late repeats (`~LateRepeats`) finding 11 and no late
keys (`~LateKeys`) finding 14. One maintainer at a time is what the lease is for; a job that outlives
its lease can break it (`keyed.ts:768` says so). Unlike the others no finding stands behind this one:
`RecordsLease` lets a second maintainer in and loses nothing. The proof needs it for the order of
layers: the records that a merge of packs moves go on top at a sequence that is decided when it lands,
and a second maintainer may have planned a merge of pending layers newer than they are at just that
sequence, whose output then counts as older.
`CommitsOnce` and `CommittedHasUploads` say themselves whom they leave out (a rebased
session; one reopened for missing files, finding 3).

Assumptions on the constants. `FenceTiming` (a delete lands within Margin + Slack of its
check; the batch is sent within RemarkSlack of its stamp) and `FenceWait` (waitMs is at
least a window and its slack: 180 s against 30 s + 120 s in the code). `RefLogConstants`
has at least one unit in a version (`indexVersion` makes a small version one unit, and a
large one has changes, so `planUnits` finds a type or file list that differs).
`TreeConstants` of `CleanupRun` says that a mark carries its kind, so a file or record is
never taken for a node (`marks.ts:17`), that only leaves have entries and only leaves are
stored against a frame, and that a frame is a leaf in full (`repo.ts:317-350`). The other
assumptions are types and positive limits. TLC evaluates all of them in the runs.

### The arguments

None of these properties is inductive as it stands. Each has an invariant that is, checked
by TLC on an instance of its run before it was proved; the proof has one lemma per action.

- **`FenceInv`**. A state may have no hole while a request is on its way to make one.
  `WindowsApart`: a job's window is the fence's or its epoch has passed. `RequestsInTime`:
  requests on their way belong to the present window and land before it stops counting as
  open. `WritesKept`: as long as a writer's epoch stands, nothing it wrote or skipped is
  gone, because an object goes only inside a window, and opening and closing each move the
  epoch. `MarkedOrRecent`: every version is in a job's marks or recent enough for its next
  re-mark. `DoomedUnreached` and `RequestsUnreached`: so what a job dooms, and what is on
  its way, no version reaches; and no version can be published while the window is open.
  Publishing keeps `NoHole` by `WritesKept`, landing by `RequestsUnreached`. In the
  refinement `Publish` maps to `PublishVersion`, `Land` to `Delete`, `Put` to `Write`, the
  rest to stutters.
- **`PushInv`** (1,389,125 states of `PushSessions`' instance). One version per
  session rests on `BaseKept`: every run of a session that was not rebased aims at the
  same base, and the history has one version on each base. That it holds
  every upload rests on `ClosedToUploads` (once a commit is accepted no upload is under way, and
  a request that is about to start one found none either) and `UploadsKept` (whatever
  list a run holds has every upload). `OutcomesTrue`: a run settles as
  committed only with a version in the history.
- **`LogInv`** (2,058,084 states). `AppendsInOrder`: whoever is past its look at
  head.json has all entries below its own stored, and whoever is about to write head.json
  has its own. Entries are never deleted, so this survives any other worker. `OneKeyInv`
  adds that a signed entry's key is in any listing, and in the listing any worker holds.
- **`ParallelInv`** (576,479 and 795,457 states). The tiling is not an invariant
  of rows alone: an assembly acts on rows it read long ago. `RunnersKnow` says what it may
  still rely on: the units it holds have ended, and of a *run* (ranges whose last keys are
  gone, up to one whose last key is there) it holds all or none, because how a unit ends
  depends on its last key alone. So two assemblies that merge the same rows make twins, never
  units that overlap in part. `PublishedWhole` then says that what is published is a plan's, whole,
  without twins: assembleTree refuses those.
- **`RunInv`** (149,894 states). `OwnersAlone`: a run number is one job's until its
  row or message is there. `WorksAgree`: whatever a job or a plan of pieces holds as its
  inputs is what is claimed into it, as long as anything is. `InputsCovered`: a
  merged run that is written holds what its inputs hold. `ContentHolds`: no object,
  swapped out or come back, has a later entry than the rows. Each step is then
  classified (an upload, a read, or one that leaves the merge of all rows as it is), and the
  refinement mapping takes it to `Uploads`.
- **`MarkInv`** (213,501 and 124,104 states, with the source walked first and
  with the fork). `Whole`: marks are closed, a node being marked after its subtree, so
  a walk may skip what is marked. `Holds`: a place is behind the marks saved with it, in the
  row, in a job's copy and in the checkpoint it is saving; `WalkHolds` adds what a walk has
  skipped inside a phase (deleted meanwhile, so due in the next one, or already held).
  A lapsed job that sets a place back sets it to one that held then, and marks only grow.
- **`BillInv`** (892,872 states). A job about to put a version live has
  counted exactly that version's events (its units' rows are disjoint and complete), and the
  batch that bills is the one that moves the version out of 'unindexed', which happens once.
- **`IdInv` and `Stored`** of `KeyedLayout`. What a view lists is decided long before, by what
  processes in the middle of a change hold, so most of the invariant is about those.
  `Names`: a commit's layer is listed once, or pending once under one key, or retired or swept
  (`Seen`), and which of these only goes forward; whoever claims the number he read applies a
  change that still applies. `Packs`: the same of packs, where an adoption counts once.
  `ChangeIds`: the outputs of a change are listed nowhere and stored, as long as its inputs
  are listed. `PlanInv`: the parts of a split merge's run likewise, until one job has claimed its
  swap (`claimed`), whose change then holds them alone (`Pair`). What was seen and is not
  visible never comes back, so a merge whose inputs went stays dead, and what
  is deleted for it is listed nowhere. `Stored` adds that a run in the view whose plan is
  still there belongs to a job on its way to drop the plan, so nobody gives that
  merge up with its output: that is the step of finding 11, and `~LateRepeats` is used there alone.
- **`RecordInv`** of `KeyedLayout`, on top of those two (searched to 4.2 million states of
  an instance with three commits of two records and no late keys). That a record is not lost hangs on
  the order of layers, as packs are retired on the strength of a newer entry: `Records` says that an
  entry whose pack is retired, or gone, has a newer one (`Replaced`). Merges replace layers
  while others land, so `Ordering` keeps the order through them. A merge of layers `B` that will put its output at
  sequence `s` `Fits`: any other layer is newer than all its inputs and not before `s`, or older
  than all and before it; and two merges are `Ordered` as their inputs are. A change that lands
  without having listed a pending object moves that object's layer by one (`Was`, `Lands`), so the inputs need
  not be at `s`, only within one of it, and they are exactly there (`Exact`) as long as such a change
  is about to land (`Listed`). `Seeing` is what plans and changes know: an output `Takes` the newest entry
  of its inputs, and the outputs have every record of theirs (`Covers`). Each step then either leaves
  the view as it is (`Same`), puts a layer on top (`Tops`) or lands a merge (`Merges`), and there is one
  lemma on the order and one on the entries for each. `~LateKeys` puts a commit's layer on
  top, `~TornReads` has it named once.

Existence of a least or greatest element of a set of numbers (`LeastOf`, `MaxOf`) comes from the well-foundedness
of `<` on the naturals and `WFMin`, which takes no operator parameter: a least
counterexample in place of an induction. The finite unions and cardinalities use
FiniteSetTheorems.

The proofs changed the models where these were wrong. In `CleanupRun`, a `CASE` whose guards
overlapped allowed a step the code does not take (it is an `IF` now), and a conjunction in `TypeOK`
was read as the hypothesis of an implication and said nothing.
`Below` and `Complete` were recursive functions and are now sets that are closed.

### What stays with TLC

- Liveness (`CommitsEnd`, `CommitEnds`, `RunsEnd`, `LogCatchesUp`): fairness and ENABLED
  are out of the prover's reach.
- `RefLog`'s `TypeOK` and its refinement of `Provenance`: segments are sequences that are
  sorted, folded and cut, and what a fold returns for every input needs an induction over data.
- `TreeMerge`: its reference builds a tree level by level, an induction over data too.
- `KeyedLayout` with late keys, or with two maintainers, as far as the runs go.
- What fails (findings) is shown by TLC alone.

## 6. Not modelled, and the plan

Plan, in order. Each step adds its module, runs and mutants, then its proofs.

1. *(done)* `Repository`, `StorageFence`, `StorageFenceProofs`, `PushSession`,
   `VersionLog`, `ParallelCommit`.
2. *(done)* `RunCompaction` and `Uploads`, `CompactedCommit`, `CleanupRun`, `RefLog` and
   `Provenance`, `TreeMerge`, `KeyedLayout`.
3. Proofs. *(done)* `PushSession`, `VersionLog`, `ParallelCommit`, `RunCompaction` with its
   refinement, `CleanupRun`, `BilledOnce` of `RefLog`, `KeyedLayout`'s types, `LayersStored` and `NothingLost`. Left:
   `NothingLost` with two maintainers; `NoFalseNegatives` of `RefLog` when nothing is deleted; `TreeMerge`'s types.
4. `ParallelCommit`'s validation phase (`startValidation` to `publishValidated`).
5. Layout F's reclaim, when something starts it, and forks' inherited layers.
6. Files and possession; reconcile and the counters; mirrors; webhooks; semver.

Not modelled: the web UI and the read API (no state of their own), accounts and
OAuth (single-row checks in front of the handlers), validation and canonical
JSON (pure functions over strings, covered by test vectors), the one-time
migration from v1.

Abstracted everywhere: contents of records and files (an object is a name),
sizes, listing pages (a listing is a set), wording of errors. Not in
`StorageFence`: objects owned by rows (`sessions/`, `uploads/`, `collections/`)
and layout F's packs, which the sweep decides by other rules. Not in `KeyedLayout`: the
registry, dropPacks, readers (whose head may lag; they read again from the newest
manifest when a file is missing), and a retired file's grace.
