# Verification of media-importer

TLA+ models of `media-importer`, the TLC runs that check them and the TLAPS
proofs about them. Source paths are relative to
`src/crates/media-importer/src/`. `PROJECT.json` maps every definition to the
lines it models.

## The system

`media-importer` copies a source tree into a *store*: a content-addressed
directory (CAS) of blobs named by their BLAKE3 hash, a staging directory and a
SQLite catalog. Four commands share a store: `import`, `gc` (with `--dry-run`),
`audit` and `build-tree`. Each is a process of its own.

| Part | State | Operations | Hard because |
|---|---|---|---|
| store run lock (`run_lock.rs`) | an advisory lock on the store directory | acquire shared or exclusive (blocks), release with the process | it alone separates commands |
| CAS and staging (`store.rs`) | blob files, staging files | stage and hash, hard-link without replacing, unstage, purge, presence check, identity-checked removal, walk | kills between any two steps; sources edited while they are read |
| catalog (`catalog.rs`) | blob rows with an optional mark, source rows with hash and modification time | record, observe, mark, resurrect, sweep, snapshot | disk and catalog change in different steps |
| catalog writer (`catalog.rs`) | request channel, open batch with a deadline, event bridge, terminal slot | receive, flush, roll back, answer, checkpoint, reject, signal | two threads that wait for each other over bounded channels; failure while requests arrive |
| import pipeline (`ingest.rs`) | scheduler queue, per-mount counts, job and completion channels, cancellation flag, failure slot, counter of retained completions | poll, dispatch, scan, receive, complete, cancel, join | eight workers, five queues, failures anywhere |
| garbage collection (`gc.rs`) | one transaction, a plan, progress | preflight, mark, resurrect, unlink, sync, sweep, commit in part or whole | deletes data; an unlink cannot be rolled back |
| audit (`audit.rs`, `integrity.rs`) | findings | snapshot, walk, compare | two reads at different times |
| build-tree (`materialize.rs`) | the browse tree of links into the CAS | plan, create directories, create or replace links, remove stale links, prune | killed anywhere, nothing is rolled back; shares the tree with the user |
| telemetry (`telemetry.rs`, `main.rs`) | a bounded inbox, three side buffers (counters, gauges, worker failures), a renderer thread, a failure flag | emit, flush, coalesce, render, drain, close, join | workers must not wait for the terminal, the owner may, the renderer may die |
| paths (`paths.rs`) | none | root checks, relative links, recognition of owned links | `..` in link texts |
| scanner, hashing, CLI | | | not modelled, see the end |

How they interact: a command takes the run lock and keeps it to its end.
`import` starts a catalog writer thread and a pool of source workers; the
coordinator thread scans, admits work per mount, receives completed work and
turns it into catalog requests, for each of which it keeps a ticket. `gc` opens
one catalog transaction, inspects the CAS inside it, stages its row changes,
unlinks files and commits. `build-tree` holds the lock exclusively, reads catalog
and CAS and changes only the browse tree. A collection talks to the writer
thread by request and answer, one at a time. Every thread reports through one
`RendererTransport`, whose failure flag cancels the command. Shared state between processes is the store only;
between the threads of an import it is channels, flags, counters and the
transport's side buffers.

What makes the parts correct:

* store: no committed source row dangles; a file is deleted only if it was
  marked by an earlier collection and nothing points to it; rows outlive files;
  interrupted runs leave only what the next run recognises; a file is skipped
  only when its recorded content is its content; reports are true;
* catalog writer: answers match what is committed, every ticket is answered,
  the bounded channels never close a cycle of waiting;
* executor: the counts are the work, success means complete, a failure always
  reaches the coordinator, the executor always returns;
* collection session: the report is what was committed, nothing is committed in
  part before the first sweep, both sides come to an end;
* durability: what is on disk and referenced in every catalog that could come
  back is not lost, what was swept does not come back;
* reports: the counters are what the import did, a dry run predicts them;
* telemetry: nothing handed to `emit` is lost, workers never wait, a broken output is
  never a success, the process exits;
* paths: a written link leads to its blob, a link is owned exactly if it leads
  into the CAS;
* build-tree: a completed build leaves the links the catalog asks for and no
  others of its own, what a user put into the tree is kept, a link that stays
  desired is never missing, the report is true.

## Modules

### `MediaStore`: what the commands do to the store

State: `src` (source tree), `cas` (what each canonical blob name holds: absent,
intact, corrupt or resized), `staging`, the committed catalog (`row`, `ref`,
`seen`), `damaged` (blobs altered from outside) and, per process, `lock`, `pc`,
the start-of-run `snap`shot, each file's `job`, the state of the catalog
`writer`, the open collection `gc` and the report `found`.

* import: `ImportAcquire`, `ImportStart` (purge and snapshot), `ScanSkip` /
  `ScanHash` (`classify_import` with the presence check), `BeginRead`,
  `FinishRead`, `Link`, `Unstage`, `FailIngest` (`Store::ingest_file`), `Submit`,
  `CommitBatch`, `WriterFail` (the writer thread, seen from the disk), `Stop`,
  `ImportFinish`;
* gc: `GcAcquire`, `GcPurge`, `GcRefuse` / `GcPlan` (`run_preflight`), `GcMark`,
  `GcUnlink`, `GcStageSweep`, `GcSweepAbsent`, `GcAbort`, `GcSwept`, `GcCommit`,
  `GcCommitFail` (`apply_plan` and its error paths);
* readers: `AuditStart`, `AuditInspect`, `DryRunStart`, `DryRunInspect`;
* environment: `Edit`, `Damage`, `Crash`.

Any set of submitted requests may form a batch, so one model covers every
batching `CatalogWriter` can produce. After a failed ingestion the coordinator
may go on for a while until `Stop`: it learns of the failure asynchronously.
`GcUnlink` removes a corrupt file too, because between preflight and unlink only
device, inode and length are compared (`BlobFileIdentity`). Sizes are abstracted
to the state "resized". An edit always advances the modification time; the
repository's README names that assumption of metadata skipping.

### `CatalogWriter`: the writer thread and its client

State: the request channel (`queue`, `handle`), the writer's `wpc`, the request
it `held`, the `pending` batch and whether it `expired`, what is `committed`,
what each ticket will find (`answer`, `blame`), the number of events in the
`bridge`, the `terminal` slot, and the coordinator's `cpc`, `tickets`, `result`.

One action per step of `writer_loop_inner`, `flush_imports`, `checkpoint` and
the thread's epilogue: the batch is committed before it is answered, one request
at a time (`FlushCommit`, `Respond`), an error rolls back and names the failing
sequence (`FlushRollback`), then what is queued is rejected (`Reject`) until the
channel was seen empty, and what arrives after that last look is dropped with
the channel (`CloseReceiver`). The coordinator drains events at the head of its
loop and in its final loop only (`Top`, `FinalDrain`), not while it waits at its
ticket limit (`DrainOutcomesToLimit`).

Only an import is the client here; a collection is in `GcSession`. The writer's
branches for a collection inside an import, or records inside a collection, are
defensive and unreachable for either command.

### `ImportExecutor`: coordinator and workers

State: what is `unscanned`, the scheduler queue `pending`, `active` work per
mount, the `jobs` and `completions` channels, the counter `retained`
(`completed_retained`), the flag `cancelled`, the one-place `failure` slot, each
worker's `wpc` and `work`, and the three outside threads as far as they matter
(`renderer`, `writer`, `slot`).

One action per step of the loop in `execute_import` (`Poll`, `Dispatch`, `Scan`,
`RecvCompletion`, `CountReceived`, `CompleteWork`, ...) and of a source worker
(`Take`, `Begin`, `Discard`, `ReadFail`, `Publish`, `ReadDone`, `Send`,
`SendCancelled`). The receive and the counter's subtraction are two steps, as in
`SourceWorkers::recv`. Files skipped on their metadata never reach the scheduler
and are left out.

### `BuildTree`: the browse tree

State: `live` (catalog entries of unmarked blobs), `blobs` (hashes present in the
CAS with their size), `tree` (what is at each place: nothing, a directory, a
file, a foreign link, or the hash an owned link points to), `temps` (places where
an interrupted replacement left its temporary link) and the running build's `pc`,
`renaming`, `plan`, `todo` and `pruned`.

`Plan` is `plan` with all its refusals: a blob that is missing or resized, two
entries on one place, a place or a parent that is blocked. `apply` is `CreateDir`,
`LinkNew`, `TempLink`, `Rename`, `RemoveStale`, `PruneDir`, `Done`; `RenameFail`
and `Stop` end a build in the middle. A place knows the places above it
(`Above`); `Layout` has one assignment of entries to places per number of hash
digits. Catalog, CAS and user act between builds: the run lock excludes other
commands, and the repository declares edits during a build unsupported. The
order of the plan's lists is left open where nothing depends on it. Left out: the
dry run (the plan alone), the creation of the root, the staging purge
(`MediaStore` has it), an owned link whose text is not canonical, and how many
temporary links were left at one place.

### `Archive` and `MediaStoreRefinement`: what the store promises

`Archive` has no processes, locks, transactions or crashes: a `file` per content, a
`row`, a `ref` per path. `Keep` installs, `Record` records a batch of paths with
contents that are kept, `Collect` is one commit that marks exactly what lost its
last reference, unmarks what got one back and forgets rows whose file is gone,
`Discard` removes the file of a marked and unreferenced content. In
`MediaStoreRefinement` the rows and references are the committed ones of
`MediaStore`, a file is good while its blob is intact. `ImplementsArchive` says more
than the invariants together: a collection's commit, made of a plan read earlier,
is all and only what the catalog at the moment of the commit calls for.

### `GcSession`: a collection and its writer

State: the command (`plan`, a sequence of steps, each a mark, a resurrection, or a
sweep of a present or an absent blob; `cpc`, `step`, `done`, `mutated`, `unlinked`,
what it `will` return, its report and `claimed` actions, `result`), the one request
and reply under way, and the writer (`wpc`, `active`, SQLite's `tx`, what is `staged`
and `committed`).

One action per request of the command (`Begin`, `Stage`, `Commit`, ...) and one for
what it does with the answer (`Begun`, `Staged`, `Committed`, `Undone`, `RolledBack`),
one per request the writer serves (`DoBegin`, `DoStage`, `DoCommit`, `DoRollback`,
`DoShutdown`). Statements, commits, rollbacks, unlinks, syncs and checkpoints may
fail, a failing statement may take SQLite's transaction with it, the writer may
panic and the renderer may break at any time. The contents of the store are in
`MediaStore`; here a step is only its kind.

### `PowerLoss`: what has reached the disk

State: `cas` as the running system sees it and `disk` as a power loss would leave it,
`settled`, the names whose present file (or absence) is on the disk for good, and `log`,
the catalogs of the commits not yet synced, oldest first (the database runs with
`synchronous = NORMAL` and checkpoints by hand). One command at a time imports a file
(`Install`, `Record`) or collects (`Collect`, `Unlink`, `SyncParent`, `StageSweep`,
`CommitGc`), each ending in `Checkpoint`. `WriteBack` writes a name that has changed
back at any time, `Kill` ends a process and keeps everything, `Fail` keeps the disk and
any prefix of the log. An import syncs nothing, so a blob on the disk may be zeroed or
torn (`Blob`). A blob that was unlinked without a directory sync and imported again is a
new file: until it is written back itself the disk may hold the old file, none, or the
new one without its bytes, and its content is not `Safe`. A checkpoint copies the whole
log: the run lock keeps readers out.

### `Telemetry`: the transport and the renderer

State: the `inbox`, the side buffers (`deltas`, `failures`, `gauge`) and the holder of
each one's `lock`, whether `sender` and `receiver` are there, the flag `failed`; per
thread `pc` and the event in hand `cur`; the renderer (`rpc`, what is `shown`); the
command's work (`stage`, `jobs`, `readers`, `outcome`, `exit`). `emitted` is history: the
amounts and the facts that threads handed to `emit` (`Call`), accepted or not, against
which `EverythingRendered` holds what is shown.

A thread's `emit` is one action per step that another thread can see: `EmitStart`,
`FlushDelta`, `FlushFailure`, `FlushGauge` (one item under the mutex each), `TrySend`,
and, if the inbox is full, `CoalesceCount`, `CoalesceGauge`, `CoalesceFailure` or
`BlockingSend`. A terminal record and `Close` drain the side buffers first
(`DrainDelta`, `DrainFailure`, `DrainGauge`). `RenderFails` and `RenderPanics` end the
renderer. Events are the five classes `emit` tells apart; there is one gauge.
What workers and owner emit, and when, is what `SourceWorkers`, the coordinator and
`main` do.

### `ImportReport`: the counters and the dry run

State: a source (`content`, `fresh`), the CAS and the source rows before, a dry run
over them (`dry`), then an import of the same source (`job` per file, `report`). The
dry run takes files in any order and remembers the blobs it would have created
(`PlannedOutcome`). In the import scanning, installing, committing and resolving
interleave. Any catalog earlier imports may have left and any missing, resized or
orphan blob is an initial state. The source does not change: that is what the
statement about determinism supposes.

### `Paths`: links of the browse tree

Pure operators with the source's names over all stores, directories and link texts
up to the bounds, which are the initial states. The reference definition `Leads`
resolves a path the way the operating system does, leftmost `..` first;
`lexical_normalize` works with a stack. The definitions of the specification are named
for the module (`PathsInit`, `PathsSpec`), so that one module of proofs can extend it and
`BuildTree`.

### `MediaStoreProofs`, `GcSessionProofs`, `PowerLossProofs`, `CatalogWriterProofs`, `ImportExecutorProofs`, `ImportReportProofs`, `BrowseTreeProofs`, `TelemetryProofs`

The inductive invariants of the modules they extend, and the theorems, see *Proofs*.
`MediaStoreProofs` has the refinement too, `BrowseTreeProofs` is about `BuildTree` and
`Paths`.

### `MCMediaStore`, `MCMediaStoreRefinement`, `MCImportExecutor`, `MCBuildTree`, `MCGcSession`, `MCImportReport`

Instances for TLC: symmetry sets, the assignments of files to mounts, a small tree,
the plans of a collection, contents of two sizes.

Operators marked *Variant* stand before the definition they vary: each is that
definition with one plausible mistake, and each property is shown to be violated
when the variant takes the definition's place.

## Runs

| Run | Instance | Shows |
|---|---|---|
| `store_crash` | 2 processes running import and gc, 2 paths, 2 contents, modification times up to 3, no damage; 920,072 states | `CatalogBacked`, `MetadataSkipSound`, `SkipRequestsCurrent`, `StagingOwned`, `NoOrphanDuringGc`, `OnlyOrphansBlockGc`, `UnlinkOnlyMarked`, `RowRemovedAfterFile` under every interleaving, error and kill |
| `store_readers` | the same with all four commands, times up to 2, one damaged blob; 848,610 states | `ReportsCurrent`, `SharedReadersUndisturbed`, and that `MediaStore` implements `Archive` (`ImplementsArchive`), damage included |
| `catalog_writer` | 4 requests, batches of 2, channel of 3, checkpoint every 2 batches, bridge of 18; 36,939 states | `AnswersAreTrue`, `SuccessIsComplete`, `BlameResolvable`, `ChannelHasRoom`, `BridgeHasRoom`, `EveryTicketAnswered`, `ImportEnds` |
| `import_executor` | 3 files on 2 mounts, 2 workers, queues of 1 and 2, all four faults; 108,353 states | `ActiveIsAdmitted`, `FailureSlotFree`, `SuccessIsComplete`, `ExecutorReturns` |
| `build_tree` | 6 places (a directory, one inside it, two outputs there and two at the top), 3 entries of which two share path and hash prefix, 2 numbers of digits, users put directories, files and foreign links; 829,632 states | `TreeWellFormed`, `BuildConverges`, `UserEntriesKept`, `LinksNeverFlicker` over every sequence of builds, edits and interruptions |
| `pruned_report` | the same without users | violation of `PrunedAsReported`, see *Findings* |
| `retained_bound` | 3 files on 3 mounts, 1 worker, no faults | violation of `RetainedBounded`, see *Findings* |
| `gc_session` | every ordered plan of up to 3 steps and one of each kind; 15,968 states | `ReportIsTrue`, `AllOrNothingBeforeSweep`, `CollectionEnds` |
| `power_loss` | 2 contents, 1 path, up to 2 unsynced commits; 68,236 states | `SweptStaysSwept`, `SafeStaysSafe` |
| `telemetry` | a worker and the owner, an inbox of 1, 2 counters, a renderer that may fail or panic; 393,027 states | `EverythingRendered`, `WorkersNeverWait`, `BrokenPipeReported`, `ProcessExits` |
| `import_report` | 3 files, 2 contents of sizes 1 and 2; 341,380 states | `ReportMatchesStore`, `PredictionHolds` |
| `paths` | names x, y and `blobs`, directories up to depth 2, link texts up to 4 components; 115,258 states | `WrittenLinksLead`, `ManagedIffInside` |

Why the bounds are enough. Two processes give every pair of conflicting
commands, and, because a process that ends starts again, every sequence of them.
Two paths and two contents give shared and distinct blobs, a source that moves
from one blob to the other, and a blob that loses its last reference. Three
modification times give an edit between scan and read and another one between
read and commit. Four requests in batches of two give a full batch, an expired
one, a request held across a flush and one that is still queued when the writer
fails. The channel capacities are the smallest that keep the code's relations:
the coordinator's ticket limit equals the batch size (both 32), the channel (64)
is larger, and the bridge (256) exceeds five events per outstanding ticket plus
seven (167). In the browse tree two nested directories give creation from the top
and pruning from the bottom, two digit counts give stale links beside desired ones
in one directory, and two entries on one place give a collision and, one after the
other, a replacement. A collection's steps of one kind are alike to the protocol, so
two of a kind beside another, and all four in order, give every position of a
failure. Two unsynced commits hold a mark and what came before it. An inbox of one
slot is full after one event, so every event class meets a full inbox; two emitting
threads give one that flushes a buffer while the other fills it, two counters a
flush that stops between them; the side buffer for failures holds one per worker,
as in the code. Three files of two contents give two workers that install the same
blob beside one that does not. Link texts of four components climb above the root
from depth two and come down into the store. Deadlock is checked in every run.

Each component module but `Paths` has a type invariant `TypeOK`; that of `MediaStore`
is checked by `store_crash`. The others hold in their modules' runs as well and are
left out of the cfgs, which name the statements that say something about the code.
All are proved.

Fairness. `MediaStore`, `BuildTree`, `PowerLoss`, `ImportReport` and `Paths` assume none.
`GcSession` assumes weak fairness of the command and of the writer thread;
`Telemetry` of every worker, the owner and the renderer, so that the renderer's
writes are assumed to end, well or badly. `CatalogWriter` and `ImportExecutor` assume weak fairness of each
thread's step, which is what the operating system's scheduler gives a runnable
thread; of the clock that ends a batch (a timed receive); and, in
`ImportExecutor`, that a writer that has begun to fail goes on to leave its
message, which `CatalogWriter` checks in detail. The failing steps (`Failures`) are
outside the fairness conditions: nothing is assumed to fail.
Reads are assumed to end.

## Findings

`retained_bound`: the repository's README bounds the completed blobs awaiting
submission by 16, the eight places of the channel and one per worker, a comment
calls the constant the total footprint, and tests assert that no occupancy event
exceeds its capacity. `SourceWorkers::recv` takes an item off the channel before
it subtracts it from `completed_retained`. In between, a worker blocked on the
full channel can send, take its next job, finish it and count it, so that the
counter and the event it emits reach capacity plus one. The item the coordinator
holds is the seventeenth. It takes jobs on more mounts than are being handled,
since a mount's work counts until `complete_work`. Only telemetry is affected.

`pruned_report`: the plan counts a directory as pruned if all that it holds now is
stale, although a desired link is about to be created in it. `remove_dir` then
finds it not empty, which is ignored, and the report keeps the planned count. A
rebuild with other `--hash-digits` reports every directory of links as pruned and
prunes none. The tree is right; the count, in a dry run too, is not.

### Statements that do not hold, without a run of their own

Each is an invariant of its module, marked *Not an invariant*; TLC refutes it when
the cfg of the module's run names it.

* `EmptyDirsPruned` (`BuildTree`, with no users). The milestone's design says that empty
  directories are pruned after the cleanup and that a rerun reconciles an
  interrupted build. Only directories above links that are stale in the present
  plan are looked at, so one that an interrupted build created, or emptied and did
  not get to prune, stays.
* `InterruptedSweepRecognised` (`PowerLoss`, with `MaxUnsynced = 3`). The
  repository's README (179) says that a collection syncs a removal before deleting
  the row and that a later run recognises a marked blob that is already absent. The
  removal is synced, the mark it rests on need not be: if the collection that marked
  was killed between commit and checkpoint, the next one unlinks and syncs, and the
  power fails before its checkpoint, the catalog comes back without the mark. A live
  row without a file is left, and later collections refuse.
* `GaugeIsCurrent` (`Telemetry`). `telemetry.rs:163` says that replacing an older
  sample by the most recent is exact. `flush_pending` leaves a gauge in the side
  buffer while the inbox is full (451-453); if the renderer makes room before the
  newer sample is tried (242), that one goes straight into the inbox and the older
  one is delivered after it.
* `EveryReportReturned` (`GcSession`). The README (222) says that every completed
  command with a constructed report ends with `command_summary`. `collect_real`
  discards the report when the writer's shutdown fails after the commit
  (`gc.rs:489-491`).
* `CountersDeterministic` (`ImportReport`). `IMPLEMENTATION-MILESTONE8.md:126` asks
  for deterministic final counters for a stable source. `validated_disposition`
  looks at the CAS when the scanner reaches the file: of two unchanged files of one
  missing content the second is skipped if a worker has already reinstalled the
  blob, and hashed otherwise.

## Proofs

The theorems hold for any sets of processes, paths, contents, workers, files,
counters and places and any sizes and bounds that satisfy the assumptions named in
the modules. The assumptions say what the code's constants satisfy (queues have a
place, the bridge holds five events per outstanding ticket and seven more, the
failure buffer one failure per worker) and that the constants are distinct and of
their kinds. `BuildTree` assumes that there is a layout at all (`Layout # {}`), as
there is one for every accepted number of hash digits. `ImportReport` assumes that a
source has finitely many files.

| Module | Theorem | Statement |
|---|---|---|
| `MediaStoreProofs` | `TypeCorrect` | `[]TypeOK` |
| | `LockCorrect` | a process holds the lock its position needs, alone if exclusive |
| | `StoreCorrect` | the inductive invariant `StoreInv` |
| | `CatalogIsBacked`, `DeletionIsTwoPhase`, `RowsOutliveFiles` | `[]CatalogBacked`, `UnlinkOnlyMarked`, `RowRemovedAfterFile` |
| | `SkipRequestsAreCurrent`, `MetadataSkipIsSound` | `[]SkipRequestsCurrent`, `[]MetadataSkipSound` |
| | `InterruptedSweepsNeverBlock`, `NoOrphanBesideGc` | `[]OnlyOrphansBlockGc`, `[]NoOrphanDuringGc` |
| | `StagingIsOwned` | `[]StagingOwned` |
| | `ReadersAreUndisturbed`, `ReportsAreCurrent` | `SharedReadersUndisturbed`, `[]ReportsCurrent` |
| | `StoreImplementsArchive` | `Spec => ImplementsArchive`: `MediaStore` implements `Archive` |
| `GcSessionProofs` | `SessionCorrect` | the inductive invariant `SessionInv` |
| | `ReportsAreTrue`, `NothingHalfDoneBeforeSweep` | `[]ReportIsTrue`, `[]AllOrNothingBeforeSweep` |
| `PowerLossProofs` | `PowerCorrect` | the inductive invariant `PowerInv` |
| | `SweepsAreFinal`, `SafeContentsStaySafe` | `[]SweptStaysSwept`, `SafeStaysSafe` |
| `CatalogWriterProofs` | `ImportCorrect`, `TypesHold` | the inductive invariant `ImportInv`, `[]TypeOK` |
| | `AnswersAgreeWithCatalog`, `SuccessMeansComplete`, `BlameIsResolvable` | `[]AnswersAreTrue`, `[]SuccessIsComplete`, `[]BlameResolvable` |
| | `ChannelNeverFills`, `BridgeNeverFills` | `[]ChannelHasRoom`, `[]BridgeHasRoom` |
| `ImportExecutorProofs` | `ExecutorCorrect`, `TypesHold` | the inductive invariant `ExecutorInv`, `[]TypeOK` |
| | `CountsAreTrue`, `OnePublisher`, `SuccessMeansComplete` | `[]ActiveIsAdmitted`, `[]FailureSlotFree`, `[]SuccessIsComplete` |
| | `SubmitsOnce` | a file is submitted by the coordinator that received it, never dropped as well, and stays submitted |
| | `RetainedWithinOne` | at most one completed item more than the capacity is retained |
| `ImportReportProofs` | `ReportsKeepUp`, `ReportTypes` | the inductive invariant `ReportInv`, `[]TypeOK` |
| | `ReportsMatchTheStore`, `DryRunsPredict` | `[]ReportMatchesStore`, `[]PredictionHolds` |
| `BrowseTreeProofs` | `BuildCorrect`, `TypesHold` | the inductive invariant `BuildInv`, `[]TypeOK` |
| | `TreeStaysWellFormed`, `BuildsConverge` | `[]TreeWellFormed`, `[]BuildConverges` |
| | `UserEntriesStay`, `LinksStay` | `UserEntriesKept`, `LinksNeverFlicker` |
| | `NormalizeLeads` | `Leads(p) = lexical_normalize(p)` for every path `p` |
| | `WrittenLinksDoLead`, `OwnedLinksLeadInside` | `PathsSpec => []WrittenLinksLead`, `PathsSpec => []ManagedIffInside` |
| `TelemetryProofs` | `BoundaryCorrect`, `TypesHold` | the inductive invariant `BoundaryInv`, `[]TypeOK` |
| | `WorkersDoNotWait`, `BrokenPipeIsReported` | `[]WorkersNeverWait`, `[]BrokenPipeReported` |
| | `NothingIsLost`, `EverythingIsRendered` | `[]RenderedInv`, `[]EverythingRendered` |

`RetainedWithinOne` is the other half of the finding `retained_bound`: the documented
bound is missed, and by one item only.

None of the properties is inductive as it stands. Each module strengthens them to one
invariant, a conjunction of named parts, shows that the initial states satisfy it and
that each action keeps it, and draws the properties from it. Each step lemma has one
step per action of `Next`.

**`MediaStoreProofs`.** A commit preserves `CatalogBacked` only if the blob of a queued
job is still there, and a sweep only if its candidate has not come back into use. So
the proof goes in layers, each using the ones before:

1. `LockInv` and `JobsInv`: who is past the lock, and which jobs can exist where.
   From them, `Alone`: while one process imports or collects, no other does.
2. `StoreInv`: `IngestInv` (a job's blob is in the CAS from its installation to
   its commit; the snapshot agrees with the catalog on every file not yet done),
   `GcInv` (an open collection may delete only rows committed as marked and
   unreferenced; what it removed from its transaction has no file; it leaves
   referenced rows as they are), `CasInv` (undamaged blobs are absent or intact)
   and `CatalogBacked`. The lemmas `CasChanges` and `RowChanges` say which
   actions touch the disk and the catalog at all.
3. `MtimeInv`: a remembered modification time is never ahead of the file's, and
   where it is the file's, the hash beside it is the file's content. It needs
   `IngestInv` for the file skipped on a snapshot.
4. What a shared lock means: beside a reader nobody imports or collects, so a
   reader's snapshot stays the catalog until it reports.

Then the refinement. A hard link, an unlink, damage, the commit of a batch
and the commit of a collection are steps of `Archive`, every other step is a stutter.
Most follows from `StoreInv`. The commit of a collection does not: `Archive` lets it
mark exactly what has no reference *now*, while the plan was made before. `PlanInv`
keeps the open transaction true to the present catalog: for each row it holds what a
plan made now would say, or nothing for a swept row whose file is gone.

**`GcSessionProofs`.** `Conversation` says which request and which reply can be under
way at each position of command and writer; `Progress` that the steps done are the
plan's first ones; `Transaction` that while SQLite's transaction is open it holds the
steps done, with the one whose answer is under way; `Outcome` that nothing is
committed before the answer to a commit, all that is done is committed with it, and
that what will be returned agrees with it.

**`PowerLossProofs`.** `DiskInv` says where the running system and the disk may
disagree: what is settled is the same on both sides, and a file that is gone but whose
removal is not settled has a row and no reference. `CommandInv` says
what the command under way may rely on: a collection sweeps only what the current
catalog lets it, and a row that its transaction has removed has no file, for good.

**`CatalogWriterProofs`.** `Places` puts every request that waits for its answer in
exactly one place: the channel, the writer's hand or the open batch. `WriterInv` says
where the writer can be with each of these, `AnswerInv` ties answers and blame to what
is committed, `TicketInv` the tickets to the requests not yet resolved and to the
limit. `BridgeHasRoom` is shown with a potential, `Load`: the events in the bridge,
plus five for each request that waits, plus what the writer owes at its position. A
step of the writer that emits pays from the potential; a new request adds to it, and
the limit on tickets and the drain at the head of the loop bound that (`LoadInv`).

**`ImportExecutorProofs`.** Every file has one place, from the scan through the
scheduler's queue, the job channel, a worker, the completion channel and the
coordinator to submission or drop (`Places`, `Holding`). The count of a mount is the
number of its admitted files, and of the dropped ones until an error (`Counts`). Only
the worker that raises the flag publishes (`Flagged`). `Retained` is the sum of the
completion channel, the workers that send and the completion just received.

**`ImportReportProofs`.** A counter and what it counts change in different steps: a blob
is installed by a worker and counted when the coordinator takes the completion, a row is
committed by the writer and counted when its ticket is resolved. Neither property is
inductive for that reason. `ReportInv` says by how much they are apart: with the files
that are being read, the blobs created and not yet counted, the rows inserted and not yet
counted, the counters are exact (`ReadCounts`, `BlobCounts`, `RowCounts`), for numbers of
files and for bytes. `DryInv` says what the dry run has counted for the files it has
scanned, as a function of the store *before* the import; `StoreInv` that blobs only come,
that a row stays as it was until its request is committed, and that the blob is there
before. At the end of an import nothing is in between, so the first property follows, and
the contents installed are those that were absent before, which is what the dry run
counted. That an import reads no more than the dry run needs one more inequality along
the way: files read or being read are among those the dry run would have read, since a
blob that was there stays.
Bytes are sums over sets, which the model writes with the fold of the community modules.
The proofs start with what such a fold is on finite sets: a function that adds up exists
(`AdderExists`), the fold has no other value (`FoldIsSum`), so one element more adds its
weight (`SumRules`) and a subset has no more (`SumWithin`).

**`BrowseTreeProofs`.** `PlanInv` says that the links of a running plan are what the
catalog asks for; `TodoInv` relates the work that is left to the present tree: a
desired link is right or still to be made, a directory above it is there or still to
be created, an owned link that nobody asks for is still to be removed.

For the links, a *run* is the sequence of stacks that `lexical_normalize` goes through.
Each path has one run and the fold ends with its last stack (`FoldExists`,
`NormalizeRuns`, `RunsAgree`). To cancel the leftmost `..` leaves out two steps of the run
and keeps its end (`CancelKeeps`); a path without `..` is its own end. Repeated, this is
`NormalizeLeads`. The run of a written link can be given outright: down the directory, up
to the common prefix, down to the blob (`LinkLeads`); that the prefix is common is what
`LongestCommonPrefix` means, once it is shown that there is one.

The library's induction theorems take an operator as a parameter, which the installed
provers cannot instantiate. Where a fact about all finite sets or all numbers is needed,
these two modules take a smallest counterexample instead, which the library's theorems
about well-founded orders provide (`SmallestSet`, `LeastNumber`).

**`TelemetryProofs`.** `BoundaryInv` says where each thread is in `emit`, given what it
emits and where its work is, that a worker fails once (so the side buffer has room for
it), and that a receiver that is gone means a fault or a closed sender.
`RenderedInv` is the invariant of a renderer that has not failed. Its steps are first
classified into a dozen moves of events (`HealthyMove`), then each part is shown to
survive each move: the totals emitted are the totals shown plus what is in the inbox,
in the side buffer and in the hands of threads (`BalanceInv`); a fact was handed to
`emit` exactly if it is shown, in the inbox or in the owner's hands (`LosslessInv`);
facts shown and in the inbox are in order and come before the one in the owner's hands
(`FactsInv`); a failure, once it happened, is
shown, in the inbox, in the side buffer or in hand; what `close` drained stays empty.
The total in the inbox is the sum of a sequence. `Sums` says that there is a function of
partial sums, and an append or a removal of the head extends or shifts that function.

Each invariant was checked by TLC on the instance of its module's run before it was
proved.

Every invariant and every action property that a run checks is proved. Only
model-checked are `EveryTicketAnswered`, `ImportEnds`, `ExecutorReturns`,
`CollectionEnds` and `ProcessExits`: liveness under fairness, which this prover does not
handle. TLC alone also refutes the statements under *Findings*.

## Not modelled

* the scanner and hashing: tree walking and byte streaming; the models see only
  their results;
* argument parsing, configuration, and the text of reports, records and dashboard;
* hash syntax, the checks of an import's roots and the file-system checks on roots;
* recorded paths. Read in the source: `from_path` (`paths.rs:189`) records a file name
  with a backslash, `from_catalog_text` (222) refuses it, so that `build-tree` fails
  and `audit` reports the row after the import of such a file;
* catalog schema validation, migration and the findings about the SQLite file;
* test probes; overflow checks of report counters.

## Plan

1. `MediaStore` with proofs; `CatalogWriter`, `ImportExecutor`, `BuildTree` under TLC
   (done).
2. The collection's session, power loss, telemetry, reports and dry run, paths, and
   the abstract archive that `MediaStore` implements (done, under TLC).
3. Proofs of the refinement and of every safety property of every module (done).
4. A shorter `TelemetryProofs`; the checks of an import's roots and recorded paths in
   `Paths`.
