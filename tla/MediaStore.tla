------------------------------ MODULE MediaStore ------------------------------
(***************************************************************************)
(* The persistent state of one media store and the commands that share it. *)
(*                                                                         *)
(* A store is a content-addressed directory (cas), a staging directory and *)
(* a SQLite catalog of blob rows (row) and source rows (ref, seen).        *)
(* Commands are separate operating-system processes that coordinate only   *)
(* through an advisory lock on the store directory.  `import' and `gc'     *)
(* take it exclusively, `audit' and `gc --dry-run' share it.  A process    *)
(* may be killed between any two of its steps: its lock, its open catalog  *)
(* transaction and its memory vanish, the two directories and the          *)
(* committed catalog stay.                                                 *)
(*                                                                         *)
(* Sizes are abstracted: a content determines its size, and the recorded   *)
(* size takes part in a decision only where it can disagree with the disk  *)
(* (the CAS state "resized").  Edits of a source file always advance its   *)
(* modification time.                                                      *)
(***************************************************************************)
EXTENDS Naturals, FiniteSets

CONSTANTS
  Hash,          \* contents, identified with their BLAKE3 hash
  Path,          \* files of the source tree, as relative paths
  Proc,          \* command processes
  None,          \* "no hash"
  Commands,      \* the commands a process may run
  MetadataSkip,  \* whether imports run with metadata skipping enabled
  MaxMtime,      \* bound: highest modification time an edit can reach
  MaxDamage      \* bound: number of blobs damaged from outside

ASSUME NoneAssumption == None \notin Hash
ASSUME CommandsAssumption ==
  Commands \subseteq {"import", "gc", "audit", "gc-dry-run"}
ASSUME BoundsAssumption ==
  MetadataSkip \in BOOLEAN /\ MaxMtime \in Nat /\ MaxDamage \in Nat

VARIABLES
  src,      \* source tree: content and modification time of each file
  cas,      \* what the canonical CAS name of each hash holds
  staging,  \* staging files, named by the source path they were made for
  row,      \* committed blob rows: none, live (unmarked) or marked
  ref,      \* committed source rows: the blob hash a path points to
  seen,     \* committed source rows: the recorded modification time
  damaged,  \* blobs altered by something other than these commands
  lock,     \* store run lock held by each process
  pc,       \* where each process is
  snap,     \* catalog snapshot a process read when it started
  job,      \* an import's per-file progress
  writer,   \* whether an import's catalog writer thread still runs
  gc,       \* a garbage collection's open transaction and plan
  found     \* what a read-only command reports

disk == <<cas, staging>>
catalog == <<row, ref, seen>>
locals == <<snap, job, writer, gc, found>>
vars == <<src, disk, catalog, damaged, lock, pc, locals>>

-----------------------------------------------------------------------------
(* States of the parts. *)

Blob == {"absent", "intact", "corrupt", "resized"}
RowState == {"none", "live", "marked"}

JobState ==
  { "todo",      \* not yet scanned
    "hash",      \* scanned, must be read
    "reading",   \* a staging file exists and is being filled
    "staged",    \* hashed, the staging file is complete
    "linked",    \* the CAS name exists, so does the staging name
    "installed", \* ingested, its completion not yet submitted
    "queued",    \* record request sent to the catalog writer
    "skip",      \* repeat-observation request sent to the catalog writer
    "done",      \* its request was committed
    "lost",      \* its request was answered with the writer's failure
    "failed" }   \* its ingestion failed

ImportPcs == {"importing", "stopping"}
GcPcs == {"gc_mark", "gc_sweep", "gc_sync", "gc_commit"}
SharedPcs == {"audit_cas", "dryrun_cas", "audit_report", "dryrun_report"}
PC == {"idle", "import_purge", "gc_purge", "gc_preflight", "exit"}
        \cup ImportPcs \cup GcPcs \cup SharedPcs

HashOrNone == Hash \cup {None}

InFlight == {"reading", "staged", "linked"}
Submitted == {"queued", "skip"}

(* A file's progress: where it is, its modification time when scanned and   *)
(* when its read began, and the hash of what was read.                      *)
Job(st, scan, before, hash) ==
  [st |-> st, scan |-> scan, before |-> before, hash |-> hash]
Move(j, st) == Job(st, j.scan, j.before, j.hash)

(* A collection's open transaction: the blob rows as it leaves them, the    *)
(* sweep candidates not yet handled (by what preflight saw), the one just   *)
(* unlinked, and whether any sweep has begun.                               *)
Tx(r, present, absent, cur, mutated) ==
  [row |-> r, present |-> present, absent |-> absent, cur |-> cur,
   mutated |-> mutated]

NoJob == Job("todo", 0, 0, None)
NoJobs == [p \in Path |-> NoJob]
NoGc == Tx([h \in Hash |-> "none"], {}, {}, None, "no")
NoSnap == [row |-> [h \in Hash |-> "none"], ref |-> [p \in Path |-> None],
           seen |-> [p \in Path |-> 0]]

(* A snapshot of the committed catalog. *)
CatalogNow == [row |-> row, ref |-> ref, seen |-> seen]

-----------------------------------------------------------------------------
(* What a catalog and a CAS say about each other. *)

Referenced(f, h) == \E p \in Path : f[p] = h

Marked(r, f) == {h \in Hash : r[h] = "live" /\ ~Referenced(f, h)}
Resurrected(r, f) == {h \in Hash : r[h] = "marked" /\ Referenced(f, h)}
Swept(r, f) == {h \in Hash : r[h] = "marked" /\ ~Referenced(f, h)}

Orphans(r) == {h \in Hash : cas[h] # "absent" /\ r[h] = "none"}

(* Rows whose file is missing, unless the row is an interrupted sweep's. *)
MissingBlobs(r, f) ==
  {h \in Hash : r[h] # "none" /\ cas[h] = "absent"} \ Swept(r, f)

(* Variant: an interrupted sweep's row counts as a missing blob. *)
GcFindingsStrict(r, f) ==
  Orphans(r)
    \cup {h \in Hash : r[h] # "none" /\ cas[h] \in {"absent", "resized"}}
    \cup {h \in Swept(r, f) : cas[h] = "corrupt"}

(* gc's preflight: orphan files, missing blobs, wrong sizes, and sweep      *)
(* candidates whose content no longer has their hash.                       *)
GcFindings(r, f) ==
  Orphans(r)
    \cup MissingBlobs(r, f)
    \cup {h \in Hash : r[h] # "none" /\ cas[h] = "resized"}
    \cup {h \in Swept(r, f) : cas[h] = "corrupt"}

(* audit: every row without a file is missing, every file is hashed. *)
AuditFindings(r) ==
  Orphans(r)
    \cup {h \in Hash : r[h] # "none" /\ cas[h] = "absent"}
    \cup {h \in Hash : cas[h] \in {"corrupt", "resized"}}

-----------------------------------------------------------------------------
Init ==
  /\ \E content \in [Path -> Hash] :
       src = [p \in Path |-> [content |-> content[p], mtime |-> 1]]
  /\ cas = [h \in Hash |-> "absent"]
  /\ staging = {}
  /\ row = [h \in Hash |-> "none"]
  /\ ref = [p \in Path |-> None]
  /\ seen = [p \in Path |-> 0]
  /\ damaged = {}
  /\ lock = [c \in Proc |-> "none"]
  /\ pc = [c \in Proc |-> "idle"]
  /\ snap = [c \in Proc |-> NoSnap]
  /\ job = [c \in Proc |-> NoJobs]
  /\ writer = [c \in Proc |-> "up"]
  /\ gc = [c \in Proc |-> NoGc]
  /\ found = [c \in Proc |-> {}]

-----------------------------------------------------------------------------
(* The environment. *)

(* A user rewrites a source file. *)
Edit(p) ==
  /\ src[p].mtime < MaxMtime
  /\ \E h \in Hash :
       src' = [src EXCEPT ![p] = [content |-> h, mtime |-> src[p].mtime + 1]]
  /\ UNCHANGED <<disk, catalog, damaged, lock, pc, locals>>

(* Something that does not cooperate damages an installed blob. *)
Damage(h) ==
  /\ Cardinality(damaged) < MaxDamage
  /\ cas[h] # "absent"
  /\ \E b \in Blob \ {"intact"} : cas' = [cas EXCEPT ![h] = b]
  /\ damaged' = damaged \cup {h}
  /\ UNCHANGED <<src, staging, catalog, lock, pc, locals>>

-----------------------------------------------------------------------------
(* The store run lock. *)

(* Variant: an exclusive request ignores shared holders. *)
FreeOfWriters(mode) == \A d \in Proc : lock[d] # "exclusive"

Free(mode) ==
  IF mode = "exclusive" THEN \A d \in Proc : lock[d] = "none"
                        ELSE \A d \in Proc : lock[d] # "exclusive"

(* Blocks until the lock is free, then starts the command. *)
Acquire(c, command, mode, next) ==
  /\ command \in Commands
  /\ pc[c] = "idle"
  /\ Free(mode)
  /\ lock' = [lock EXCEPT ![c] = mode]
  /\ pc' = [pc EXCEPT ![c] = next]

(* What a process has in memory, and its lock, end with it. *)
Vanish(c) ==
  /\ lock' = [lock EXCEPT ![c] = "none"]
  /\ pc' = [pc EXCEPT ![c] = "idle"]
  /\ snap' = [snap EXCEPT ![c] = NoSnap]
  /\ job' = [job EXCEPT ![c] = NoJobs]
  /\ writer' = [writer EXCEPT ![c] = "up"]
  /\ gc' = [gc EXCEPT ![c] = NoGc]
  /\ found' = [found EXCEPT ![c] = {}]
  /\ UNCHANGED <<src, disk, catalog, damaged>>

Exit(c) == pc[c] \in {"exit", "audit_report", "dryrun_report"} /\ Vanish(c)

(* The process is killed. *)
Crash(c) == pc[c] # "idle" /\ Vanish(c)

-----------------------------------------------------------------------------
(* import *)

ImportAcquire(c) ==
  /\ Acquire(c, "import", "exclusive", "import_purge")
  /\ UNCHANGED <<src, disk, catalog, damaged, locals>>

(* Variant: staging is not purged. *)
ImportStartUnpurged(c) ==
  /\ pc[c] = "import_purge"
  /\ snap' = [snap EXCEPT ![c] = CatalogNow]
  /\ pc' = [pc EXCEPT ![c] = "importing"]
  /\ UNCHANGED <<src, disk, catalog, damaged, lock, job, writer, gc, found>>

(* Staging left by a killed process is purged, the catalog is copied for    *)
(* lookups and the writer thread is started.                                *)
ImportStart(c) ==
  /\ pc[c] = "import_purge"
  /\ staging' = {}
  /\ snap' = [snap EXCEPT ![c] = CatalogNow]
  /\ pc' = [pc EXCEPT ![c] = "importing"]
  /\ UNCHANGED <<src, cas, catalog, damaged, lock, job, writer, gc, found>>

(* The row of the start-of-run snapshot agrees with the scan. *)
MetadataAgrees(c, p) ==
  snap[c].ref[p] # None /\ snap[c].seen[p] = src[p].mtime

(* The CAS name is a regular file of the recorded size. *)
BlobPresent(h) == cas[h] \in {"intact", "corrupt"}

(* Whether a scanned file need not be read. *)
CanSkip(c, p) ==
  MetadataSkip /\ MetadataAgrees(c, p) /\ BlobPresent(snap[c].ref[p])

SetJobs(c, f) == job' = [job EXCEPT ![c] = f]
SetJob(c, p, j) == SetJobs(c, [job[c] EXCEPT ![p] = j])

(* Variant: the lookup matches on the modification time, not on the path.   *)
ScanSkipAnyPath(c, p) ==
  /\ pc[c] = "importing"
  /\ job[c][p].st = "todo"
  /\ writer[c] = "up"
  /\ \E q \in Path :
       /\ snap[c].ref[q] # None
       /\ snap[c].seen[q] = src[p].mtime
       /\ SetJob(c, p, Job("skip", src[p].mtime, 0, snap[c].ref[q]))
  /\ UNCHANGED <<src, disk, catalog, damaged, lock, pc, snap, writer, gc, found>>

ScanSkip(c, p) ==
  /\ pc[c] = "importing"
  /\ job[c][p].st = "todo"
  /\ CanSkip(c, p)
  /\ writer[c] = "up"
  /\ SetJob(c, p, Job("skip", src[p].mtime, 0, snap[c].ref[p]))
  /\ UNCHANGED <<src, disk, catalog, damaged, lock, pc, snap, writer, gc, found>>

ScanHash(c, p) ==
  /\ pc[c] = "importing"
  /\ job[c][p].st = "todo"
  /\ ~CanSkip(c, p)
  /\ SetJob(c, p, Job("hash", src[p].mtime, 0, None))
  /\ UNCHANGED <<src, disk, catalog, damaged, lock, pc, snap, writer, gc, found>>

(* A worker stats and opens the source and creates its staging file; one    *)
(* that has passed its look at the cancellation flag does so after a stop.  *)
BeginRead(c, p) ==
  /\ pc[c] \in ImportPcs
  /\ job[c][p].st = "hash"
  /\ staging' = staging \cup {p}
  /\ SetJob(c, p, Job("reading", job[c][p].scan, src[p].mtime, None))
  /\ UNCHANGED <<src, cas, catalog, damaged, lock, pc, snap, writer, gc, found>>

(* The copy is complete and the modification time has not moved since. *)
FinishRead(c, p) ==
  /\ pc[c] \in ImportPcs
  /\ job[c][p].st = "reading"
  /\ src[p].mtime = job[c][p].before
  /\ SetJob(c, p, Job("staged", job[c][p].scan, job[c][p].before, src[p].content))
  /\ UNCHANGED <<src, disk, catalog, damaged, lock, pc, snap, writer, gc, found>>

(* An existing blob is reused on its size alone. *)
Reusable(h) == cas[h] # "resized"

(* hard_link never replaces. *)
Link(c, p) ==
  LET h == job[c][p].hash IN
  /\ pc[c] \in ImportPcs
  /\ job[c][p].st = "staged"
  /\ Reusable(h)
  /\ cas' = [cas EXCEPT ![h] = IF @ = "absent" THEN "intact" ELSE @]
  /\ SetJob(c, p, Move(job[c][p], "linked"))
  /\ UNCHANGED <<src, staging, catalog, damaged, lock, pc, snap, writer, gc, found>>

Unstage(c, p) ==
  /\ pc[c] \in ImportPcs
  /\ job[c][p].st = "linked"
  /\ staging' = staging \ {p}
  /\ SetJob(c, p, Move(job[c][p], "installed"))
  /\ UNCHANGED <<src, cas, catalog, damaged, lock, pc, snap, writer, gc, found>>

(* Any error of an ingestion, a changed source and a resized blob included, *)
(* removes the staging file if it can.  The coordinator learns of it later, *)
(* at a Stop; until then it goes on scanning and submitting.                *)
FailIngest(c, p) ==
  /\ pc[c] \in ImportPcs
  /\ job[c][p].st \in InFlight
  /\ staging' \in {staging, staging \ {p}}
  /\ SetJob(c, p, Move(job[c][p], "failed"))
  /\ UNCHANGED <<src, cas, catalog, damaged, lock, pc, snap, writer, gc, found>>

(* Variant: the catalog request does not wait for the installation. *)
SubmitEarly(c, p) ==
  /\ pc[c] = "importing"
  /\ job[c][p].st \in {"staged", "installed"}
  /\ writer[c] = "up"
  /\ SetJob(c, p, Move(job[c][p], "queued"))
  /\ UNCHANGED <<src, disk, catalog, damaged, lock, pc, snap, writer, gc, found>>

Submit(c, p) ==
  /\ pc[c] = "importing"
  /\ job[c][p].st = "installed"
  /\ writer[c] = "up"
  /\ SetJob(c, p, Move(job[c][p], "queued"))
  /\ UNCHANGED <<src, disk, catalog, damaged, lock, pc, snap, writer, gc, found>>

(* What the transaction of a batch does to the committed catalog. *)
Applicable(c, p) ==
  job[c][p].st = "skip" => ref[p] = job[c][p].hash /\ row[job[c][p].hash] # "none"

(* Variant: the modification time is taken at the commit, not at the scan. *)
CommitBatchLateMtime(c, batch) ==
  /\ pc[c] \in ImportPcs
  /\ writer[c] = "up"
  /\ batch # {}
  /\ \A p \in batch : job[c][p].st \in Submitted /\ Applicable(c, p)
  /\ row' = [h \in Hash |->
               IF \E p \in batch : job[c][p].hash = h THEN "live" ELSE row[h]]
  /\ ref' = [p \in Path |-> IF p \in batch THEN job[c][p].hash ELSE ref[p]]
  /\ seen' = [p \in Path |-> IF p \in batch THEN src[p].mtime ELSE seen[p]]
  /\ SetJobs(c, [p \in Path |->
                   IF p \in batch THEN Move(job[c][p], "done")
                                  ELSE job[c][p]])
  /\ UNCHANGED <<src, disk, damaged, lock, pc, snap, writer, gc, found>>

CommitBatch(c, batch) ==
  /\ pc[c] \in ImportPcs
  /\ writer[c] = "up"
  /\ batch # {}
  /\ \A p \in batch : job[c][p].st \in Submitted /\ Applicable(c, p)
  /\ row' = [h \in Hash |->
               IF \E p \in batch : job[c][p].hash = h THEN "live" ELSE row[h]]
  /\ ref' = [p \in Path |-> IF p \in batch THEN job[c][p].hash ELSE ref[p]]
  /\ seen' = [p \in Path |-> IF p \in batch THEN job[c][p].scan ELSE seen[p]]
  /\ SetJobs(c, [p \in Path |->
                   IF p \in batch THEN Move(job[c][p], "done")
                                  ELSE job[c][p]])
  /\ UNCHANGED <<src, disk, damaged, lock, pc, snap, writer, gc, found>>

(* A statement or the commit fails: the batch rolls back, every queued      *)
(* request is answered with the failure and the writer thread ends.         *)
WriterFail(c) ==
  /\ pc[c] \in ImportPcs
  /\ writer[c] = "up"
  /\ writer' = [writer EXCEPT ![c] = "down"]
  /\ SetJobs(c, [p \in Path |->
                   IF job[c][p].st \in Submitted
                     THEN Move(job[c][p], "lost") ELSE job[c][p]])
  /\ UNCHANGED <<src, disk, catalog, damaged, lock, pc, snap, gc, found>>

(* A failed ingestion or scan, a dead renderer or a failed writer ends the  *)
(* main loop.                                                               *)
Stop(c) ==
  /\ pc[c] = "importing"
  /\ pc' = [pc EXCEPT ![c] = "stopping"]
  /\ UNCHANGED <<src, disk, catalog, damaged, lock, locals>>

(* The workers are joined and the writer has flushed before the lock drops. *)
ImportFinish(c) ==
  /\ \/ pc[c] = "importing" /\ \A p \in Path : job[c][p].st = "done"
     \/ pc[c] = "stopping" /\ \A p \in Path : job[c][p].st \notin InFlight \cup Submitted
  /\ pc' = [pc EXCEPT ![c] = "exit"]
  /\ UNCHANGED <<src, disk, catalog, damaged, lock, locals>>

-----------------------------------------------------------------------------
(* gc *)

GcAcquire(c) ==
  /\ Acquire(c, "gc", "exclusive", "gc_purge")
  /\ UNCHANGED <<src, disk, catalog, damaged, locals>>

GcPurge(c) ==
  /\ pc[c] = "gc_purge"
  /\ staging' = {}
  /\ pc' = [pc EXCEPT ![c] = "gc_preflight"]
  /\ UNCHANGED <<src, cas, catalog, damaged, lock, locals>>

SetGc(c, g) == gc' = [gc EXCEPT ![c] = g]

(* The transaction opens, the plan is read in it and the CAS is inspected.  *)
(* Findings, or an error on the way, roll the transaction back.             *)
GcRefuse(c) ==
  /\ pc[c] = "gc_preflight"
  /\ pc' = [pc EXCEPT ![c] = "exit"]
  /\ UNCHANGED <<src, disk, catalog, damaged, lock, locals>>

(* Variant: the findings are not looked at. *)
GcPlanUnchecked(c) ==
  /\ pc[c] = "gc_preflight"
  /\ SetGc(c, Tx(row, {h \in Swept(row, ref) : cas[h] # "absent"},
                    {h \in Swept(row, ref) : cas[h] = "absent"}, None, "no"))
  /\ pc' = [pc EXCEPT ![c] = "gc_mark"]
  /\ UNCHANGED <<src, disk, catalog, damaged, lock, snap, job, writer, found>>

(* Variant: blobs that are unreferenced now are swept without having been   *)
(* marked by an earlier collection.                                         *)
GcPlanOnePhase(c) ==
  LET unreferenced == Swept(row, ref) \cup Marked(row, ref) IN
  /\ pc[c] = "gc_preflight"
  /\ GcFindings(row, ref) = {}
  /\ SetGc(c, Tx(row, {h \in unreferenced : cas[h] # "absent"},
                    {h \in unreferenced : cas[h] = "absent"}, None, "no"))
  /\ pc' = [pc EXCEPT ![c] = "gc_mark"]
  /\ UNCHANGED <<src, disk, catalog, damaged, lock, snap, job, writer, found>>

GcPlan(c) ==
  /\ pc[c] = "gc_preflight"
  /\ GcFindings(row, ref) = {}
  /\ SetGc(c, Tx(row, {h \in Swept(row, ref) : cas[h] # "absent"},
                    {h \in Swept(row, ref) : cas[h] = "absent"}, None, "no"))
  /\ pc' = [pc EXCEPT ![c] = "gc_mark"]
  /\ UNCHANGED <<src, disk, catalog, damaged, lock, snap, job, writer, found>>

(* Variant: rows the plan does not name are lost. *)
PlannedRowOnlyPlanned ==
  [h \in Marked(row, ref) \cup Resurrected(row, ref) |->
     IF h \in Marked(row, ref) THEN "marked" ELSE "live"]

(* The marks and resurrections are staged in the open transaction. *)
PlannedRow ==
  [h \in Hash |-> CASE h \in Marked(row, ref) -> "marked"
                    [] h \in Resurrected(row, ref) -> "live"
                    [] OTHER -> row[h]]

GcMark(c) ==
  /\ pc[c] = "gc_mark"
  /\ SetGc(c, Tx(PlannedRow, gc[c].present, gc[c].absent, None, "no"))
  /\ pc' = [pc EXCEPT ![c] = "gc_sweep"]
  /\ UNCHANGED <<src, disk, catalog, damaged, lock, snap, job, writer, found>>

(* The device, inode and length are those preflight saw. *)
SameIdentity(h) == cas[h] \in {"intact", "corrupt"}

GcUnlink(c, h) ==
  /\ pc[c] = "gc_sweep"
  /\ h \in gc[c].present
  /\ SameIdentity(h)
  /\ cas' = [cas EXCEPT ![h] = "absent"]
  /\ SetGc(c, Tx(gc[c].row, gc[c].present, gc[c].absent, h, "yes"))
  /\ pc' = [pc EXCEPT ![c] = "gc_sync"]
  /\ UNCHANGED <<src, staging, catalog, damaged, lock, snap, job, writer, found>>

(* gc_sweep.sql deletes exactly one marked and unreferenced row. *)
Sweepable(c, h) == gc[c].row[h] = "marked" /\ ~Referenced(ref, h)

(* The parent directory is synced, then the row's deletion is staged. *)
GcStageSweep(c) ==
  LET h == gc[c].cur IN
  /\ pc[c] = "gc_sync"
  /\ Sweepable(c, h)
  /\ SetGc(c, Tx([gc[c].row EXCEPT ![h] = "none"], gc[c].present \ {h},
                 gc[c].absent, None, "yes"))
  /\ pc' = [pc EXCEPT ![c] = "gc_sweep"]
  /\ UNCHANGED <<src, disk, catalog, damaged, lock, snap, job, writer, found>>

(* Variant: the row is deleted without its file having been unlinked. *)
GcSweepAny(c, h) ==
  /\ pc[c] = "gc_sweep"
  /\ h \in gc[c].present \cup gc[c].absent
  /\ Sweepable(c, h)
  /\ SetGc(c, Tx([gc[c].row EXCEPT ![h] = "none"], gc[c].present \ {h},
                 gc[c].absent \ {h}, None, "yes"))
  /\ UNCHANGED <<src, disk, catalog, damaged, lock, pc, snap, job, writer, found>>

(* A candidate whose file an interrupted sweep already removed. *)
GcSweepAbsent(c, h) ==
  /\ pc[c] = "gc_sweep"
  /\ h \in gc[c].absent
  /\ Sweepable(c, h)
  /\ SetGc(c, Tx([gc[c].row EXCEPT ![h] = "none"], gc[c].present,
                 gc[c].absent \ {h}, None, "yes"))
  /\ UNCHANGED <<src, disk, catalog, damaged, lock, pc, snap, job, writer, found>>

(* An error before the first sweep rolls everything back; afterwards, and   *)
(* when the directory sync or the row's deletion fails, what is staged is   *)
(* committed.                                                               *)
GcAbort(c) ==
  /\ pc[c] \in {"gc_mark", "gc_sweep", "gc_sync"}
  /\ pc' = [pc EXCEPT ![c] = IF gc[c].mutated = "yes" THEN "gc_commit" ELSE "exit"]
  /\ UNCHANGED <<src, disk, catalog, damaged, lock, locals>>

GcSwept(c) ==
  /\ pc[c] = "gc_sweep"
  /\ gc[c].present = {} /\ gc[c].absent = {}
  /\ pc' = [pc EXCEPT ![c] = "gc_commit"]
  /\ UNCHANGED <<src, disk, catalog, damaged, lock, locals>>

GcCommit(c) ==
  /\ pc[c] = "gc_commit"
  /\ row' = gc[c].row
  /\ pc' = [pc EXCEPT ![c] = "exit"]
  /\ UNCHANGED <<src, disk, ref, seen, damaged, lock, locals>>

GcCommitFail(c) ==
  /\ pc[c] = "gc_commit"
  /\ pc' = [pc EXCEPT ![c] = "exit"]
  /\ UNCHANGED <<src, disk, catalog, damaged, lock, locals>>

-----------------------------------------------------------------------------
(* audit and gc --dry-run: a catalog snapshot, then a walk of the CAS. *)

(* Variant: the reader does not take the lock. *)
SharedStartUnlocked(c, command, next) ==
  /\ command \in Commands
  /\ pc[c] = "idle"
  /\ pc' = [pc EXCEPT ![c] = next]
  /\ snap' = [snap EXCEPT ![c] = CatalogNow]
  /\ UNCHANGED <<src, disk, catalog, damaged, lock, job, writer, gc, found>>

SharedStart(c, command, next) ==
  /\ Acquire(c, command, "shared", next)
  /\ snap' = [snap EXCEPT ![c] = CatalogNow]
  /\ UNCHANGED <<src, disk, catalog, damaged, job, writer, gc, found>>

AuditStart(c) == SharedStart(c, "audit", "audit_cas")
DryRunStart(c) == SharedStart(c, "gc-dry-run", "dryrun_cas")

AuditReport(r) == AuditFindings(r) \X {"finding"}

DryRunReport(r, f) ==
  IF GcFindings(r, f) # {}
    THEN GcFindings(r, f) \X {"finding"}
    ELSE (Marked(r, f) \X {"mark"}) \cup (Resurrected(r, f) \X {"resurrect"})
           \cup (Swept(r, f) \X {"sweep"})

AuditInspect(c) ==
  /\ pc[c] = "audit_cas"
  /\ found' = [found EXCEPT ![c] = AuditReport(snap[c].row)]
  /\ pc' = [pc EXCEPT ![c] = "audit_report"]
  /\ UNCHANGED <<src, disk, catalog, damaged, lock, snap, job, writer, gc>>

DryRunInspect(c) ==
  /\ pc[c] = "dryrun_cas"
  /\ found' = [found EXCEPT ![c] = DryRunReport(snap[c].row, snap[c].ref)]
  /\ pc' = [pc EXCEPT ![c] = "dryrun_report"]
  /\ UNCHANGED <<src, disk, catalog, damaged, lock, snap, job, writer, gc>>

-----------------------------------------------------------------------------
ImportStep(c) ==
  \/ ImportAcquire(c) \/ ImportStart(c) \/ Stop(c) \/ WriterFail(c) \/ ImportFinish(c)
  \/ \E p \in Path :
       \/ ScanSkip(c, p) \/ ScanHash(c, p) \/ BeginRead(c, p) \/ FinishRead(c, p)
       \/ Link(c, p) \/ Unstage(c, p) \/ FailIngest(c, p) \/ Submit(c, p)
  \/ \E batch \in SUBSET Path : CommitBatch(c, batch)

GcStep(c) ==
  \/ GcAcquire(c) \/ GcPurge(c) \/ GcRefuse(c) \/ GcPlan(c) \/ GcMark(c)
  \/ GcStageSweep(c) \/ GcAbort(c) \/ GcSwept(c) \/ GcCommit(c) \/ GcCommitFail(c)
  \/ \E h \in Hash : GcUnlink(c, h) \/ GcSweepAbsent(c, h)

SharedStep(c) ==
  AuditStart(c) \/ DryRunStart(c) \/ AuditInspect(c) \/ DryRunInspect(c)

Environment == (\E p \in Path : Edit(p)) \/ (\E h \in Hash : Damage(h))

Next ==
  \/ Environment
  \/ \E c \in Proc : ImportStep(c) \/ GcStep(c) \/ SharedStep(c) \/ Exit(c) \/ Crash(c)

Spec == Init /\ [][Next]_vars

-----------------------------------------------------------------------------
(* Types *)

JobRecord == [st : JobState, scan : Nat, before : Nat, hash : HashOrNone]
GcRecord == [row : [Hash -> RowState], present : SUBSET Hash,
             absent : SUBSET Hash, cur : HashOrNone, mutated : {"yes", "no"}]
SnapRecord == [row : [Hash -> RowState], ref : [Path -> HashOrNone],
               seen : [Path -> Nat]]

(* The state has the shape the code gives it: every row, job, plan and      *)
(* report stays within its type.                                            *)
TypeOK ==
  /\ src \in [Path -> [content : Hash, mtime : Nat]]
  /\ cas \in [Hash -> Blob]
  /\ staging \in SUBSET Path
  /\ row \in [Hash -> RowState]
  /\ ref \in [Path -> HashOrNone]
  /\ seen \in [Path -> Nat]
  /\ damaged \in SUBSET Hash
  /\ lock \in [Proc -> {"none", "shared", "exclusive"}]
  /\ pc \in [Proc -> PC]
  /\ snap \in [Proc -> SnapRecord]
  /\ job \in [Proc -> [Path -> JobRecord]]
  /\ writer \in [Proc -> {"up", "down"}]
  /\ gc \in [Proc -> GcRecord]
  /\ found \in [Proc -> SUBSET (Hash \X {"finding", "mark", "resurrect", "sweep"})]

-----------------------------------------------------------------------------
(* Safety *)

(* No committed source row ever dangles: the blob row it points to exists   *)
(* and is not marked for deletion, and every unmarked row has its blob in   *)
(* the CAS, unless something else damaged that blob.  It must survive any   *)
(* interleaving and crash of imports (install, then commit) and collections *)
(* (unlink, then commit).                                                   *)
CatalogBacked ==
  /\ \A p \in Path : ref[p] # None => row[ref[p]] = "live"
  /\ \A h \in Hash : row[h] = "live" /\ h \notin damaged => cas[h] = "intact"

(* Metadata skipping is sound: a path whose recorded modification time is   *)
(* the file's present one is recorded with the file's present content, even *)
(* when the file was edited between the scan, the read and the commit.      *)
MetadataSkipSound ==
  \A p \in Path : ref[p] # None /\ seen[p] = src[p].mtime => ref[p] = src[p].content

(* A repeat-observation request, prepared from the snapshot taken when the  *)
(* run started, still matches the committed source row and its blob row     *)
(* when the writer gets to it, so the writer never rejects it.              *)
SkipRequestsCurrent ==
  \A c \in Proc, p \in Path : job[c][p].st = "skip" =>
    ref[p] = job[c][p].hash /\ row[job[c][p].hash] = "live"

(* Past its purge, an exclusive command finds in staging only files of its  *)
(* own ingestions: whatever a killed process left behind is gone.           *)
StagingOwned ==
  \A c \in Proc : pc[c] \in ImportPcs \cup GcPcs \cup {"gc_preflight"} =>
    \A p \in staging : job[c][p].st \in InFlight \cup {"failed"}

(* A collection that got past preflight works on a store in which every     *)
(* undamaged blob file has a row: no import can install one next to it.     *)
NoOrphanDuringGc ==
  \A c \in Proc : pc[c] \in GcPcs => Orphans(row) \subseteq damaged

(* However imports and collections were interrupted, the only thing that    *)
(* makes a later collection refuse an undamaged store is an orphan blob;    *)
(* an interrupted sweep never does.                                         *)
OnlyOrphansBlockGc ==
  /\ damaged = {}
  /\ \A c \in Proc : lock[c] # "exclusive"
  => GcFindings(row, ref) = Orphans(row)

(* What a read-only command reports is true of the store at the moment it   *)
(* reports it, although it read the catalog first and the CAS later.        *)
ReportsCurrent ==
  damaged = {} => \A c \in Proc :
    /\ pc[c] = "audit_report" => found[c] = AuditReport(row)
    /\ pc[c] = "dryrun_report" => found[c] = DryRunReport(row, ref)

-----------------------------------------------------------------------------
(* Action properties *)

(* Two-phase deletion: a blob file is removed only while the committed      *)
(* catalog already has it marked, by an earlier collection, and no source   *)
(* row points to it.                                                        *)
UnlinkStep ==
  \A h \in Hash : cas[h] # "absent" /\ cas'[h] = "absent" /\ h \notin damaged' =>
    row[h] = "marked" /\ ~Referenced(ref, h)
UnlinkOnlyMarked == [][UnlinkStep]_vars

(* A blob row is deleted only when it was marked and unreferenced and its   *)
(* file is already gone, so that a sweep never leaves an orphan file.       *)
RowRemovalStep ==
  \A h \in Hash : row[h] # "none" /\ row'[h] = "none" =>
    row[h] = "marked" /\ cas[h] = "absent" /\ ~Referenced(ref, h)
RowRemovedAfterFile == [][RowRemovalStep]_vars

(* While any command holds the lock shared, nothing of the store changes,   *)
(* except by damage, which never touches the catalog or staging.            *)
QuietStep ==
  (\E c \in Proc : lock[c] = "shared") =>
    /\ UNCHANGED <<catalog, staging>>
    /\ UNCHANGED cas \/ \E h \in Hash : Damage(h)
SharedReadersUndisturbed == [][QuietStep]_vars
=============================================================================
