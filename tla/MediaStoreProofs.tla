-------------------------- MODULE MediaStoreProofs --------------------------
(************************************************************************** *)
(* Proofs about MediaStore, for any sets of contents, paths and processes. *)
(*                                                                         *)
(* The inductive invariant comes in layers, each proved from the ones      *)
(* before it: TypeOK; LockInv and JobsInv (who holds the run lock, and who *)
(* may have work under way); StoreInv (what imports and collections have   *)
(* on the way to disk and catalog); MtimeInv (modification times).  Every  *)
(* layer is checked one action at a time.                                  *)
(************************************************************************** *)
EXTENDS MediaStoreRefinement, TLAPS

(* What a process has in memory before it runs a command, and again after it *)
(* ended (Vanish), is well typed.                                           *)
LEMMA EmptyLocals ==
  NoJob \in JobRecord /\ NoGc \in GcRecord /\ NoSnap \in SnapRecord
  BY DEF NoJob, Job, JobRecord, JobState, HashOrNone, NoGc, Tx, GcRecord, RowState,
         NoSnap, SnapRecord

(* A new store, with no process running a command, is well typed.           *)
LEMMA TypeInit == Init => TypeOK
  BY EmptyLocals DEF Init, TypeOK, Blob, RowState, PC, NoJobs, HashOrNone

(* Every step of every command, a kill and an outside change included, keeps *)
(* the state well typed.                                                    *)
LEMMA TypeStep == TypeOK /\ [Next]_vars => TypeOK'
<1> SUFFICES ASSUME TypeOK, [Next]_vars PROVE TypeOK'
  OBVIOUS
<1> USE EmptyLocals DEF TypeOK, disk, catalog, locals
<1>1. ASSUME NEW c \in Proc, ImportAcquire(c) PROVE TypeOK'
  BY <1>1 DEF ImportAcquire, Acquire, PC
<1>2. ASSUME NEW c \in Proc, ImportStart(c) PROVE TypeOK'
  BY <1>2 DEF ImportStart, CatalogNow, PC, ImportPcs, SnapRecord
<1>3. ASSUME NEW c \in Proc, Stop(c) PROVE TypeOK'
  BY <1>3 DEF Stop, PC, ImportPcs
<1>4. ASSUME NEW c \in Proc, WriterFail(c) PROVE TypeOK'
  BY <1>4 DEF WriterFail, SetJobs, Job, Move, JobRecord, JobState
<1>5. ASSUME NEW c \in Proc, ImportFinish(c) PROVE TypeOK'
  BY <1>5 DEF ImportFinish, PC, ImportPcs
<1>6. ASSUME NEW c \in Proc, NEW p \in Path, ScanSkip(c, p) PROVE TypeOK'
  BY <1>6 DEF ScanSkip, SetJob, SetJobs, Job, Move, JobRecord, JobState, SnapRecord,
           CanSkip, MetadataAgrees, HashOrNone
<1>7. ASSUME NEW c \in Proc, NEW p \in Path, ScanHash(c, p) PROVE TypeOK'
  BY <1>7 DEF ScanHash, SetJob, SetJobs, Job, Move, JobRecord, JobState, HashOrNone
<1>8. ASSUME NEW c \in Proc, NEW p \in Path, BeginRead(c, p) PROVE TypeOK'
  BY <1>8 DEF BeginRead, SetJob, SetJobs, Job, Move, JobRecord, JobState, HashOrNone
<1>9. ASSUME NEW c \in Proc, NEW p \in Path, FinishRead(c, p) PROVE TypeOK'
  BY <1>9 DEF FinishRead, SetJob, SetJobs, Job, Move, JobRecord, JobState, HashOrNone
<1>10. ASSUME NEW c \in Proc, NEW p \in Path, Link(c, p) PROVE TypeOK'
  BY <1>10 DEF Link, SetJob, SetJobs, Job, Move, JobRecord, JobState, Blob
<1>11. ASSUME NEW c \in Proc, NEW p \in Path, Unstage(c, p) PROVE TypeOK'
  BY <1>11 DEF Unstage, SetJob, SetJobs, Job, Move, JobRecord, JobState
<1>12. ASSUME NEW c \in Proc, NEW p \in Path, FailIngest(c, p) PROVE TypeOK'
  BY <1>12 DEF FailIngest, SetJob, SetJobs, Job, Move, JobRecord, JobState, PC,
           ImportPcs
<1>13. ASSUME NEW c \in Proc, NEW p \in Path, Submit(c, p) PROVE TypeOK'
  BY <1>13 DEF Submit, SetJob, SetJobs, Job, Move, JobRecord, JobState
<1>14. ASSUME NEW c \in Proc, NEW batch \in SUBSET Path, CommitBatch(c, batch)
       PROVE  TypeOK'
  BY <1>14 DEF CommitBatch, SetJobs, Job, Move, JobRecord, JobState, RowState
<1>15. ASSUME NEW c \in Proc, GcAcquire(c) PROVE TypeOK'
  BY <1>15 DEF GcAcquire, Acquire, PC
<1>16. ASSUME NEW c \in Proc, GcPurge(c) PROVE TypeOK'
  BY <1>16 DEF GcPurge, PC
<1>17. ASSUME NEW c \in Proc, GcRefuse(c) PROVE TypeOK'
  BY <1>17 DEF GcRefuse, PC
<1>18. ASSUME NEW c \in Proc, GcPlan(c) PROVE TypeOK'
  BY <1>18 DEF GcPlan, SetGc, Tx, PC, GcPcs, GcRecord, Swept, HashOrNone
<1>19. ASSUME NEW c \in Proc, GcMark(c) PROVE TypeOK'
  BY <1>19 DEF GcMark, SetGc, Tx, PlannedRow, PC, GcPcs, GcRecord, RowState, HashOrNone
<1>20. ASSUME NEW c \in Proc, GcStageSweep(c) PROVE TypeOK'
  BY <1>20 DEF GcStageSweep, SetGc, Tx, PC, GcPcs, GcRecord, RowState, HashOrNone
<1>21. ASSUME NEW c \in Proc, GcAbort(c) PROVE TypeOK'
  BY <1>21 DEF GcAbort, PC, GcPcs
<1>22. ASSUME NEW c \in Proc, GcSwept(c) PROVE TypeOK'
  BY <1>22 DEF GcSwept, PC, GcPcs
<1>23. ASSUME NEW c \in Proc, GcCommit(c) PROVE TypeOK'
  BY <1>23 DEF GcCommit, PC, GcPcs, GcRecord
<1>24. ASSUME NEW c \in Proc, GcCommitFail(c) PROVE TypeOK'
  BY <1>24 DEF GcCommitFail, PC, GcPcs
<1>25. ASSUME NEW c \in Proc, NEW h \in Hash, GcUnlink(c, h) PROVE TypeOK'
  BY <1>25 DEF GcUnlink, SetGc, Tx, PC, GcPcs, GcRecord, Blob, HashOrNone
<1>26. ASSUME NEW c \in Proc, NEW h \in Hash, GcSweepAbsent(c, h) PROVE TypeOK'
  BY <1>26 DEF GcSweepAbsent, SetGc, Tx, GcRecord, RowState, HashOrNone
<1>27. ASSUME NEW c \in Proc, AuditStart(c) PROVE TypeOK'
  BY <1>27 DEF AuditStart, SharedStart, CatalogNow, Acquire, PC, SharedPcs, SnapRecord
<1>28. ASSUME NEW c \in Proc, DryRunStart(c) PROVE TypeOK'
  BY <1>28 DEF DryRunStart, SharedStart, CatalogNow, Acquire, PC, SharedPcs, SnapRecord
<1>29. ASSUME NEW c \in Proc, AuditInspect(c) PROVE TypeOK'
  BY <1>29 DEF AuditInspect, PC, SharedPcs, AuditReport, AuditFindings, Orphans
<1>30. ASSUME NEW c \in Proc, DryRunInspect(c) PROVE TypeOK'
  BY <1>30 DEF DryRunInspect, PC, SharedPcs, DryRunReport, GcFindings, MissingBlobs, Orphans,
           Marked, Resurrected, Swept
<1>31. ASSUME NEW c \in Proc, Exit(c) PROVE TypeOK'
  BY <1>31 DEF Exit, Vanish, PC, NoJobs
<1>32. ASSUME NEW c \in Proc, Crash(c) PROVE TypeOK'
  BY <1>32 DEF Crash, Vanish, PC, NoJobs
<1>33. ASSUME NEW p \in Path, Edit(p) PROVE TypeOK'
  BY <1>33 DEF Edit
<1>34. ASSUME NEW h \in Hash, Damage(h) PROVE TypeOK'
  BY <1>34 DEF Damage, Blob
<1>35. ASSUME UNCHANGED vars PROVE TypeOK'
  BY <1>35 DEF vars
<1>. QED
  BY <1>1, <1>2, <1>3, <1>4, <1>5, <1>6, <1>7, <1>8, <1>9, <1>10, <1>11, <1>12,
     <1>13, <1>14, <1>15, <1>16, <1>17, <1>18, <1>19, <1>20, <1>21, <1>22, <1>23,
     <1>24, <1>25, <1>26, <1>27, <1>28, <1>29, <1>30, <1>31, <1>32, <1>33, <1>34,
     <1>35
  DEF Next, Environment, ImportStep, GcStep, SharedStep

(* Type correctness: rows, jobs, plans and reports never leave the shape the *)
(* code gives them.                                                         *)
THEOREM TypeCorrect == Spec => []TypeOK
  BY TypeInit, TypeStep, PTL DEF Spec

-----------------------------------------------------------------------------
(* The layers of the inductive invariant. *)

(* A process that holds the lock exclusively is alone, and every step of a  *)
(* command is taken under the lock the command asked for.                   *)
ExclusivePcs == PC \ ({"idle"} \cup SharedPcs)

LockInv ==
  /\ \A c, d \in Proc : c # d /\ lock[c] = "exclusive" => lock[d] = "none"
  /\ \A c \in Proc : pc[c] \in ExclusivePcs => lock[c] = "exclusive"
  /\ \A c \in Proc : pc[c] \in SharedPcs => lock[c] = "shared"

(* Only an import has jobs, and none of them is still under way when the    *)
(* lock is about to drop.                                                   *)
JobsInv ==
  \A c \in Proc, p \in Path :
    /\ job[c][p].st # "todo" => pc[c] \in ImportPcs \cup {"exit"}
    /\ pc[c] = "exit" => job[c][p].st \notin InFlight \cup Submitted

(* The blob of a job between its installation and its commit is in the CAS; *)
(* a skipped file's row is still the one its snapshot showed.               *)
Backed(h) == h \notin damaged => cas[h] = "intact"

IngestInv ==
  \A c \in Proc, p \in Path :
    /\ job[c][p].st \in {"staged", "linked", "installed", "queued", "skip"} =>
         job[c][p].hash \in Hash
    /\ job[c][p].st \in {"linked", "installed", "queued"} => Backed(job[c][p].hash)
    /\ job[c][p].st = "skip" => ref[p] = job[c][p].hash
    /\ pc[c] \in ImportPcs /\ job[c][p].st # "done" =>
         snap[c].ref[p] = ref[p] /\ snap[c].seen[p] = seen[p]

(* What an open collection may delete is committed as marked and is         *)
(* unreferenced, what it has deleted from its transaction has no file left, *)
(* and it leaves every referenced row alone.                                *)
GcInv ==
  \A c \in Proc : pc[c] \in GcPcs =>
    /\ gc[c].present \cup gc[c].absent \subseteq Swept(row, ref)
    /\ \A h \in gc[c].absent : cas[h] = "absent"
    /\ pc[c] = "gc_sync" => gc[c].cur \in Swept(row, ref) /\ cas[gc[c].cur] = "absent"
    /\ \A h \in Hash :
         /\ gc[c].row[h] = "live" => row[h] = "live"
         /\ Referenced(ref, h) => gc[c].row[h] = row[h]
         /\ gc[c].row[h] = "none" /\ row[h] # "none" =>
              h \in Swept(row, ref) /\ cas[h] = "absent"

CasInv == \A h \in Hash : h \notin damaged => cas[h] \in {"absent", "intact"}

StoreInv == IngestInv /\ GcInv /\ CasInv /\ CatalogBacked

(* A recorded or remembered modification time is never ahead of the file's, *)
(* and when it is the file's, the hash beside it is the file's content.     *)
JobMtime(c, p) ==
  /\ job[c][p].st # "todo" => job[c][p].scan <= src[p].mtime
  /\ job[c][p].st \in {"reading", "staged", "linked", "installed", "queued"} =>
       job[c][p].scan <= job[c][p].before /\ job[c][p].before <= src[p].mtime
  /\ job[c][p].st \in {"staged", "linked", "installed", "queued"} =>
       (job[c][p].before = src[p].mtime => job[c][p].hash = src[p].content)
  /\ job[c][p].st = "skip" =>
       (job[c][p].scan = src[p].mtime => job[c][p].hash = src[p].content)

MtimeInv ==
  /\ \A p \in Path : seen[p] <= src[p].mtime
  /\ \A c \in Proc, p \in Path : JobMtime(c, p)

-----------------------------------------------------------------------------
(* Initially nobody holds the run lock and nobody has work under way.       *)
LEMMA LockInit == Init => LockInv /\ JobsInv
  BY DEF Init, LockInv, JobsInv, ExclusivePcs, PC, ImportPcs, GcPcs, SharedPcs, NoJobs,
         NoJob, Job, InFlight, Submitted

(* Every step keeps the lock discipline: a command reaches its working      *)
(* states only through Acquire, and a process loses its jobs before its     *)
(* lock.                                                                    *)
LEMMA LockStep == TypeOK /\ LockInv /\ JobsInv /\ [Next]_vars => (LockInv /\ JobsInv)'
<1> SUFFICES ASSUME TypeOK, LockInv, JobsInv, [Next]_vars PROVE (LockInv /\ JobsInv)'
  OBVIOUS
<1> USE DEF TypeOK, LockInv, JobsInv, ExclusivePcs, PC, ImportPcs, GcPcs, SharedPcs,
            disk, catalog, locals
<1>1. ASSUME NEW c \in Proc, ImportAcquire(c) PROVE (LockInv /\ JobsInv)'
  BY <1>1 DEF ImportAcquire, Acquire, Free
<1>2. ASSUME NEW c \in Proc, ImportStart(c) PROVE (LockInv /\ JobsInv)'
  BY <1>2 DEF ImportStart, CatalogNow
<1>3. ASSUME NEW c \in Proc, Stop(c) PROVE (LockInv /\ JobsInv)'
  BY <1>3 DEF Stop
<1>4. ASSUME NEW c \in Proc, WriterFail(c) PROVE (LockInv /\ JobsInv)'
  BY <1>4 DEF WriterFail, SetJobs, Job, Move, Submitted, InFlight, JobRecord
<1>5. ASSUME NEW c \in Proc, ImportFinish(c) PROVE (LockInv /\ JobsInv)'
  BY <1>5 DEF ImportFinish, InFlight, Submitted
<1>6. ASSUME NEW c \in Proc, NEW p \in Path, ScanSkip(c, p) PROVE (LockInv /\ JobsInv)'
  BY <1>6 DEF ScanSkip, SetJob, SetJobs, Job, Move, InFlight, Submitted
<1>7. ASSUME NEW c \in Proc, NEW p \in Path, ScanHash(c, p) PROVE (LockInv /\ JobsInv)'
  BY <1>7 DEF ScanHash, SetJob, SetJobs, Job, Move, InFlight, Submitted
<1>8. ASSUME NEW c \in Proc, NEW p \in Path, BeginRead(c, p) PROVE (LockInv /\ JobsInv)'
  BY <1>8 DEF BeginRead, SetJob, SetJobs, Job, Move, InFlight, Submitted
<1>9. ASSUME NEW c \in Proc, NEW p \in Path, FinishRead(c, p)
      PROVE  (LockInv /\ JobsInv)'
  BY <1>9 DEF FinishRead, SetJob, SetJobs, Job, Move, InFlight, Submitted
<1>10. ASSUME NEW c \in Proc, NEW p \in Path, Link(c, p) PROVE (LockInv /\ JobsInv)'
  BY <1>10 DEF Link, SetJob, SetJobs, Job, Move, InFlight, Submitted
<1>11. ASSUME NEW c \in Proc, NEW p \in Path, Unstage(c, p) PROVE (LockInv /\ JobsInv)'
  BY <1>11 DEF Unstage, SetJob, SetJobs, Job, Move, InFlight, Submitted
<1>12. ASSUME NEW c \in Proc, NEW p \in Path, FailIngest(c, p)
       PROVE  (LockInv /\ JobsInv)'
  BY <1>12 DEF FailIngest, SetJob, SetJobs, Job, Move, InFlight, Submitted
<1>13. ASSUME NEW c \in Proc, NEW p \in Path, Submit(c, p) PROVE (LockInv /\ JobsInv)'
  BY <1>13 DEF Submit, SetJob, SetJobs, Job, Move, InFlight, Submitted
<1>14. ASSUME NEW c \in Proc, NEW batch \in SUBSET Path, CommitBatch(c, batch)
       PROVE  (LockInv /\ JobsInv)'
  BY <1>14 DEF CommitBatch, SetJobs, Job, Move, Submitted, InFlight, JobRecord
<1>15. ASSUME NEW c \in Proc, GcAcquire(c) PROVE (LockInv /\ JobsInv)'
  BY <1>15 DEF GcAcquire, Acquire, Free
<1>16. ASSUME NEW c \in Proc, GcPurge(c) PROVE (LockInv /\ JobsInv)'
  BY <1>16 DEF GcPurge
<1>17. ASSUME NEW c \in Proc, GcRefuse(c) PROVE (LockInv /\ JobsInv)'
  BY <1>17 DEF GcRefuse, InFlight, Submitted
<1>18. ASSUME NEW c \in Proc, GcPlan(c) PROVE (LockInv /\ JobsInv)'
  BY <1>18 DEF GcPlan, SetGc, Tx
<1>19. ASSUME NEW c \in Proc, GcMark(c) PROVE (LockInv /\ JobsInv)'
  BY <1>19 DEF GcMark, SetGc, Tx
<1>20. ASSUME NEW c \in Proc, GcStageSweep(c) PROVE (LockInv /\ JobsInv)'
  BY <1>20 DEF GcStageSweep, SetGc, Tx
<1>21. ASSUME NEW c \in Proc, GcAbort(c) PROVE (LockInv /\ JobsInv)'
  BY <1>21 DEF GcAbort, InFlight, Submitted
<1>22. ASSUME NEW c \in Proc, GcSwept(c) PROVE (LockInv /\ JobsInv)'
  BY <1>22 DEF GcSwept
<1>23. ASSUME NEW c \in Proc, GcCommit(c) PROVE (LockInv /\ JobsInv)'
  BY <1>23 DEF GcCommit, InFlight, Submitted
<1>24. ASSUME NEW c \in Proc, GcCommitFail(c) PROVE (LockInv /\ JobsInv)'
  BY <1>24 DEF GcCommitFail, InFlight, Submitted
<1>25. ASSUME NEW c \in Proc, NEW h \in Hash, GcUnlink(c, h) PROVE (LockInv /\ JobsInv)'
  BY <1>25 DEF GcUnlink, SetGc, Tx
<1>26. ASSUME NEW c \in Proc, NEW h \in Hash, GcSweepAbsent(c, h)
       PROVE  (LockInv /\ JobsInv)'
  BY <1>26 DEF GcSweepAbsent, SetGc, Tx
<1>27. ASSUME NEW c \in Proc, AuditStart(c) PROVE (LockInv /\ JobsInv)'
  BY <1>27 DEF AuditStart, SharedStart, Acquire, Free
<1>28. ASSUME NEW c \in Proc, DryRunStart(c) PROVE (LockInv /\ JobsInv)'
  BY <1>28 DEF DryRunStart, SharedStart, Acquire, Free
<1>29. ASSUME NEW c \in Proc, AuditInspect(c) PROVE (LockInv /\ JobsInv)'
  BY <1>29 DEF AuditInspect
<1>30. ASSUME NEW c \in Proc, DryRunInspect(c) PROVE (LockInv /\ JobsInv)'
  BY <1>30 DEF DryRunInspect
<1>31. ASSUME NEW c \in Proc, Exit(c) PROVE (LockInv /\ JobsInv)'
  BY <1>31 DEF Exit, Vanish, NoJobs, NoJob, Job
<1>32. ASSUME NEW c \in Proc, Crash(c) PROVE (LockInv /\ JobsInv)'
  BY <1>32 DEF Crash, Vanish, NoJobs, NoJob, Job
<1>33. ASSUME NEW p \in Path, Edit(p) PROVE (LockInv /\ JobsInv)'
  BY <1>33 DEF Edit
<1>34. ASSUME NEW h \in Hash, Damage(h) PROVE (LockInv /\ JobsInv)'
  BY <1>34 DEF Damage
<1>35. ASSUME UNCHANGED vars PROVE (LockInv /\ JobsInv)'
  BY <1>35 DEF vars
<1>. QED
  BY <1>1, <1>2, <1>3, <1>4, <1>5, <1>6, <1>7, <1>8, <1>9, <1>10, <1>11, <1>12,
     <1>13, <1>14, <1>15, <1>16, <1>17, <1>18, <1>19, <1>20, <1>21, <1>22, <1>23,
     <1>24, <1>25, <1>26, <1>27, <1>28, <1>29, <1>30, <1>31, <1>32, <1>33, <1>34,
     <1>35
  DEF Next, Environment, ImportStep, GcStep, SharedStep

(* The store run lock (run_lock.rs) excludes: while an import or a          *)
(* collection runs, no other command does, whatever was killed before.      *)
THEOREM LockCorrect == Spec => [](TypeOK /\ LockInv /\ JobsInv)
  BY TypeInit, TypeStep, LockInit, LockStep, PTL DEF Spec

(* While a process is inside import or gc, every other process is idle and  *)
(* has no ingestion under way.                                              *)
LEMMA Alone ==
  ASSUME TypeOK, LockInv, JobsInv, NEW c \in Proc, pc[c] \in ExclusivePcs,
         NEW d \in Proc, d # c
  PROVE  pc[d] = "idle" /\ \A p \in Path : job[d][p].st = "todo"
  BY DEF TypeOK, LockInv, JobsInv, ExclusivePcs, PC, ImportPcs, SharedPcs, GcPcs

-----------------------------------------------------------------------------
(* The only steps that change the CAS or the set of damaged blobs are an    *)
(* import's hard link, a collection's unlink and damage from outside.       *)
LEMMA CasChanges ==
  [Next]_vars =>
    \/ UNCHANGED <<cas, damaged>>
    \/ \E c \in Proc, p \in Path : Link(c, p)
    \/ \E c \in Proc, h \in Hash : GcUnlink(c, h)
    \/ \E h \in Hash : Damage(h)
<1> DEFINE Changed ==
           \/ UNCHANGED <<cas, damaged>>
           \/ \E c \in Proc, p \in Path : Link(c, p)
           \/ \E c \in Proc, h \in Hash : GcUnlink(c, h)
           \/ \E h \in Hash : Damage(h)
<1> SUFFICES ASSUME [Next]_vars PROVE Changed
  OBVIOUS
<1>1. ASSUME NEW c \in Proc, ImportStep(c) PROVE Changed
  BY <1>1 DEF ImportStep, disk, ImportAcquire, ImportStart, Stop,
         WriterFail, ImportFinish, ScanSkip, ScanHash, BeginRead,
         FinishRead, Unstage, FailIngest, Submit, CommitBatch, Acquire
<1>2. ASSUME NEW c \in Proc, GcStep(c) PROVE Changed
  BY <1>2 DEF GcStep, disk, GcAcquire, GcPurge, GcRefuse, GcPlan, GcMark,
         GcStageSweep, GcAbort, GcSwept, GcCommit, GcCommitFail,
         GcSweepAbsent, Acquire
<1>3. ASSUME NEW c \in Proc, SharedStep(c) \/ Exit(c) \/ Crash(c) PROVE Changed
  BY <1>3 DEF SharedStep, disk, AuditStart, DryRunStart, AuditInspect,
         DryRunInspect, Exit, Crash, Acquire, SharedStart, Vanish
<1>4. ASSUME Environment PROVE Changed
  BY <1>4 DEF Environment, disk, Edit
<1>. QED
  BY <1>1, <1>2, <1>3, <1>4 DEF Next, vars, disk

(* The only steps that change committed rows are the commit of an import's  *)
(* batch and the commit of a collection.                                    *)
LEMMA RowChanges ==
  [Next]_vars =>
    \/ UNCHANGED <<row, ref>>
    \/ \E c \in Proc, batch \in SUBSET Path : CommitBatch(c, batch)
    \/ \E c \in Proc : GcCommit(c)
<1> DEFINE Changed ==
           \/ UNCHANGED <<row, ref>>
           \/ \E c \in Proc, batch \in SUBSET Path : CommitBatch(c, batch)
           \/ \E c \in Proc : GcCommit(c)
<1> SUFFICES ASSUME [Next]_vars PROVE Changed
  OBVIOUS
<1>1. ASSUME NEW c \in Proc, ImportStep(c) PROVE Changed
  BY <1>1 DEF ImportStep, catalog, ImportAcquire, ImportStart, Stop,
         WriterFail, ImportFinish, ScanSkip, ScanHash, BeginRead,
         FinishRead, Link, Unstage, FailIngest, Submit, Acquire
<1>2. ASSUME NEW c \in Proc, GcStep(c) PROVE Changed
  BY <1>2 DEF GcStep, catalog, GcAcquire, GcPurge, GcRefuse, GcPlan, GcMark,
         GcStageSweep, GcAbort, GcSwept, GcCommitFail, GcUnlink,
         GcSweepAbsent, Acquire
<1>3. ASSUME NEW c \in Proc, SharedStep(c) \/ Exit(c) \/ Crash(c) PROVE Changed
  BY <1>3 DEF SharedStep, catalog, AuditStart, DryRunStart, AuditInspect,
         DryRunInspect, Exit, Crash, Acquire, SharedStart, Vanish
<1>4. ASSUME Environment PROVE Changed
  BY <1>4 DEF Environment, catalog, Edit, Damage
<1>. QED
  BY <1>1, <1>2, <1>3, <1>4 DEF Next, vars, catalog

-----------------------------------------------------------------------------
(* An empty store satisfies the store invariant.                            *)
LEMMA StoreInit == Init => StoreInv
  BY DEF Init, StoreInv, IngestInv, Backed, GcInv, CasInv, CatalogBacked, GcPcs,
         ImportPcs, NoJobs, NoJob, Job

(* Every step keeps the import's side of the invariant: what was linked     *)
(* stays installed until its row is committed, and the rows of files not yet *)
(* committed are still those of the start-of-run snapshot.                  *)
LEMMA IngestStep ==
  TypeOK /\ LockInv /\ JobsInv /\ StoreInv /\ [Next]_vars => IngestInv'
<1> SUFFICES ASSUME TypeOK, LockInv, JobsInv, StoreInv, [Next]_vars PROVE IngestInv'
  OBVIOUS
<1> USE NoneAssumption DEF TypeOK, LockInv, JobsInv, ExclusivePcs, PC, ImportPcs,
        GcPcs, SharedPcs, disk, catalog, locals, StoreInv
<1>1. ASSUME NEW c \in Proc, ImportAcquire(c) PROVE IngestInv'
  BY <1>1 DEF IngestInv, Backed, CatalogBacked, GcInv, ImportAcquire, Acquire
<1>2. ASSUME NEW c \in Proc, ImportStart(c) PROVE IngestInv'
  BY <1>2 DEF IngestInv, Backed, CatalogBacked, GcInv, ImportStart, CatalogNow
<1>3. ASSUME NEW c \in Proc, Stop(c) PROVE IngestInv'
  BY <1>3 DEF IngestInv, Backed, CatalogBacked, GcInv, Stop
<1>4. ASSUME NEW c \in Proc, WriterFail(c) PROVE IngestInv'
  BY <1>4 DEF IngestInv, Backed, CatalogBacked, GcInv, WriterFail, SetJobs, Job, Move,
           JobRecord, Submitted, InFlight
<1>5. ASSUME NEW c \in Proc, ImportFinish(c) PROVE IngestInv'
  BY <1>5 DEF IngestInv, Backed, CatalogBacked, GcInv, ImportFinish
<1>6. ASSUME NEW c \in Proc, NEW p \in Path, ScanSkip(c, p) PROVE IngestInv'
  BY <1>6 DEF IngestInv, Backed, CatalogBacked, GcInv, ScanSkip, SetJob, SetJobs, Job,
           Move, JobRecord, CanSkip, MetadataAgrees, SnapRecord, HashOrNone
<1>7. ASSUME NEW c \in Proc, NEW p \in Path, ScanHash(c, p) PROVE IngestInv'
  BY <1>7 DEF IngestInv, Backed, CatalogBacked, GcInv, ScanHash, SetJob, SetJobs, Job,
           Move, JobRecord
<1>8. ASSUME NEW c \in Proc, NEW p \in Path, BeginRead(c, p) PROVE IngestInv'
  BY <1>8 DEF IngestInv, Backed, CatalogBacked, GcInv, BeginRead, SetJob, SetJobs, Job,
           Move, JobRecord
<1>9. ASSUME NEW c \in Proc, NEW p \in Path, FinishRead(c, p) PROVE IngestInv'
  BY <1>9 DEF IngestInv, Backed, CatalogBacked, GcInv, FinishRead, SetJob, SetJobs, Job,
           Move, JobRecord
<1>10. ASSUME NEW c \in Proc, NEW p \in Path, Link(c, p) PROVE IngestInv'
  <2>1. \A d \in Proc : d # c => pc[d] = "idle" /\ \A q \in Path : job[d][q].st = "todo"
    BY <1>10, Alone DEF Link
  <2>. QED
    BY <1>10, <2>1 DEF IngestInv, Backed, CatalogBacked, GcInv, Link, SetJob, SetJobs,
             Job, Move, JobRecord, CasInv
<1>11. ASSUME NEW c \in Proc, NEW p \in Path, Unstage(c, p) PROVE IngestInv'
  BY <1>11 DEF IngestInv, Backed, CatalogBacked, GcInv, Unstage, SetJob, SetJobs, Job,
           Move, JobRecord
<1>12. ASSUME NEW c \in Proc, NEW p \in Path, FailIngest(c, p) PROVE IngestInv'
  BY <1>12 DEF IngestInv, Backed, CatalogBacked, GcInv, FailIngest, SetJob, SetJobs,
           Job, Move, JobRecord, InFlight
<1>13. ASSUME NEW c \in Proc, NEW p \in Path, Submit(c, p) PROVE IngestInv'
  BY <1>13 DEF IngestInv, Backed, CatalogBacked, GcInv, Submit, SetJob, SetJobs, Job,
           Move, JobRecord
<1>14. ASSUME NEW c \in Proc, NEW batch \in SUBSET Path, CommitBatch(c, batch)
       PROVE  IngestInv'
  <2>1. \A d \in Proc : d # c => pc[d] = "idle" /\ \A q \in Path : job[d][q].st = "todo"
    BY <1>14, Alone DEF CommitBatch
  <2>. QED
    BY <1>14, <2>1 DEF IngestInv, Backed, CatalogBacked, GcInv, CommitBatch, SetJobs,
             Job, Move, JobRecord, Submitted, InFlight, Applicable
<1>15. ASSUME NEW c \in Proc, GcAcquire(c) PROVE IngestInv'
  BY <1>15 DEF IngestInv, Backed, CatalogBacked, GcInv, GcAcquire, Acquire
<1>16. ASSUME NEW c \in Proc, GcPurge(c) PROVE IngestInv'
  BY <1>16 DEF IngestInv, Backed, CatalogBacked, GcInv, GcPurge
<1>17. ASSUME NEW c \in Proc, GcRefuse(c) PROVE IngestInv'
  BY <1>17 DEF IngestInv, Backed, CatalogBacked, GcInv, GcRefuse
<1>18. ASSUME NEW c \in Proc, GcPlan(c) PROVE IngestInv'
  BY <1>18 DEF IngestInv, Backed, CatalogBacked, GcInv, GcPlan, SetGc, Tx
<1>19. ASSUME NEW c \in Proc, GcMark(c) PROVE IngestInv'
  BY <1>19 DEF IngestInv, Backed, CatalogBacked, GcInv, GcMark, SetGc, Tx
<1>20. ASSUME NEW c \in Proc, GcStageSweep(c) PROVE IngestInv'
  BY <1>20 DEF IngestInv, Backed, CatalogBacked, GcInv, GcStageSweep, SetGc, Tx
<1>21. ASSUME NEW c \in Proc, GcAbort(c) PROVE IngestInv'
  BY <1>21 DEF IngestInv, Backed, CatalogBacked, GcInv, GcAbort
<1>22. ASSUME NEW c \in Proc, GcSwept(c) PROVE IngestInv'
  BY <1>22 DEF IngestInv, Backed, CatalogBacked, GcInv, GcSwept
<1>23. ASSUME NEW c \in Proc, GcCommit(c) PROVE IngestInv'
  <2>1. \A d \in Proc : d # c => pc[d] = "idle" /\ \A q \in Path : job[d][q].st = "todo"
    BY <1>23, Alone DEF GcCommit
  <2>. QED
    BY <1>23, <2>1 DEF IngestInv, Backed, CatalogBacked, GcInv, GcCommit
<1>24. ASSUME NEW c \in Proc, GcCommitFail(c) PROVE IngestInv'
  BY <1>24 DEF IngestInv, Backed, CatalogBacked, GcInv, GcCommitFail
<1>25. ASSUME NEW c \in Proc, NEW h \in Hash, GcUnlink(c, h) PROVE IngestInv'
  <2>1. \A d \in Proc : d # c => pc[d] = "idle" /\ \A q \in Path : job[d][q].st = "todo"
    BY <1>25, Alone DEF GcUnlink
  <2>. QED
    BY <1>25, <2>1 DEF IngestInv, Backed, CatalogBacked, GcInv, GcUnlink, SetGc, Tx
<1>26. ASSUME NEW c \in Proc, NEW h \in Hash, GcSweepAbsent(c, h) PROVE IngestInv'
  BY <1>26 DEF IngestInv, Backed, CatalogBacked, GcInv, GcSweepAbsent, SetGc, Tx
<1>27. ASSUME NEW c \in Proc, AuditStart(c) PROVE IngestInv'
  BY <1>27 DEF IngestInv, Backed, CatalogBacked, GcInv, AuditStart, SharedStart,
           CatalogNow, Acquire
<1>28. ASSUME NEW c \in Proc, DryRunStart(c) PROVE IngestInv'
  BY <1>28 DEF IngestInv, Backed, CatalogBacked, GcInv, DryRunStart, SharedStart,
           CatalogNow, Acquire
<1>29. ASSUME NEW c \in Proc, AuditInspect(c) PROVE IngestInv'
  BY <1>29 DEF IngestInv, Backed, CatalogBacked, GcInv, AuditInspect
<1>30. ASSUME NEW c \in Proc, DryRunInspect(c) PROVE IngestInv'
  BY <1>30 DEF IngestInv, Backed, CatalogBacked, GcInv, DryRunInspect
<1>31. ASSUME NEW c \in Proc, Exit(c) PROVE IngestInv'
  BY <1>31 DEF IngestInv, Backed, CatalogBacked, GcInv, Exit, Vanish, NoJobs, NoJob, Job
<1>32. ASSUME NEW c \in Proc, Crash(c) PROVE IngestInv'
  BY <1>32 DEF IngestInv, Backed, CatalogBacked, GcInv, Crash, Vanish, NoJobs, NoJob,
           Job
<1>33. ASSUME NEW p \in Path, Edit(p) PROVE IngestInv'
  BY <1>33 DEF IngestInv, Backed, CatalogBacked, GcInv, Edit
<1>34. ASSUME NEW h \in Hash, Damage(h) PROVE IngestInv'
  BY <1>34 DEF IngestInv, Backed, CatalogBacked, GcInv, Damage
<1>35. ASSUME UNCHANGED vars PROVE IngestInv'
  BY <1>35 DEF vars, IngestInv, Backed
<1>. QED
  BY <1>1, <1>2, <1>3, <1>4, <1>5, <1>6, <1>7, <1>8, <1>9, <1>10, <1>11, <1>12,
     <1>13, <1>14, <1>15, <1>16, <1>17, <1>18, <1>19, <1>20, <1>21, <1>22, <1>23,
     <1>24, <1>25, <1>26, <1>27, <1>28, <1>29, <1>30, <1>31, <1>32, <1>33, <1>34,
     <1>35
  DEF Next, Environment, ImportStep, GcStep, SharedStep

(* Every step keeps the collection's side of the invariant: from its plan   *)
(* on, a collection deletes only what the committed catalog already had     *)
(* marked.                                                                  *)
LEMMA CollectionStep ==
  TypeOK /\ LockInv /\ JobsInv /\ StoreInv /\ [Next]_vars => GcInv'
<1> SUFFICES ASSUME TypeOK, LockInv, JobsInv, StoreInv, [Next]_vars PROVE GcInv'
  OBVIOUS
<1> USE NoneAssumption DEF TypeOK, LockInv, JobsInv, ExclusivePcs, PC, ImportPcs,
        GcPcs, SharedPcs, disk, catalog, locals, StoreInv
<1>1. ASSUME NEW c \in Proc, ImportAcquire(c) PROVE GcInv'
  BY <1>1 DEF GcInv, CatalogBacked, ImportAcquire, Acquire
<1>2. ASSUME NEW c \in Proc, ImportStart(c) PROVE GcInv'
  BY <1>2 DEF GcInv, CatalogBacked, ImportStart
<1>3. ASSUME NEW c \in Proc, Stop(c) PROVE GcInv'
  BY <1>3 DEF GcInv, CatalogBacked, Stop
<1>4. ASSUME NEW c \in Proc, WriterFail(c) PROVE GcInv'
  BY <1>4 DEF GcInv, CatalogBacked, WriterFail, SetJobs
<1>5. ASSUME NEW c \in Proc, ImportFinish(c) PROVE GcInv'
  BY <1>5 DEF GcInv, CatalogBacked, ImportFinish
<1>6. ASSUME NEW c \in Proc, NEW p \in Path, ScanSkip(c, p) PROVE GcInv'
  BY <1>6 DEF GcInv, CatalogBacked, ScanSkip, SetJob, SetJobs
<1>7. ASSUME NEW c \in Proc, NEW p \in Path, ScanHash(c, p) PROVE GcInv'
  BY <1>7 DEF GcInv, CatalogBacked, ScanHash, SetJob, SetJobs
<1>8. ASSUME NEW c \in Proc, NEW p \in Path, BeginRead(c, p) PROVE GcInv'
  BY <1>8 DEF GcInv, CatalogBacked, BeginRead, SetJob, SetJobs
<1>9. ASSUME NEW c \in Proc, NEW p \in Path, FinishRead(c, p) PROVE GcInv'
  BY <1>9 DEF GcInv, CatalogBacked, FinishRead, SetJob, SetJobs
<1>10. ASSUME NEW c \in Proc, NEW p \in Path, Link(c, p) PROVE GcInv'
  <2>1. \A d \in Proc : d # c => pc[d] = "idle" /\ \A q \in Path : job[d][q].st = "todo"
    BY <1>10, Alone DEF Link
  <2>. QED
    BY <1>10, <2>1 DEF GcInv, Link, SetJob, SetJobs
<1>11. ASSUME NEW c \in Proc, NEW p \in Path, Unstage(c, p) PROVE GcInv'
  BY <1>11 DEF GcInv, CatalogBacked, Unstage, SetJob, SetJobs
<1>12. ASSUME NEW c \in Proc, NEW p \in Path, FailIngest(c, p) PROVE GcInv'
  BY <1>12 DEF GcInv, CatalogBacked, FailIngest, SetJob, SetJobs
<1>13. ASSUME NEW c \in Proc, NEW p \in Path, Submit(c, p) PROVE GcInv'
  BY <1>13 DEF GcInv, CatalogBacked, Submit, SetJob, SetJobs
<1>14. ASSUME NEW c \in Proc, NEW batch \in SUBSET Path, CommitBatch(c, batch)
       PROVE  GcInv'
  <2>1. \A d \in Proc : d # c => pc[d] = "idle" /\ \A q \in Path : job[d][q].st = "todo"
    BY <1>14, Alone DEF CommitBatch
  <2>. QED
    BY <1>14, <2>1 DEF GcInv, CommitBatch, SetJobs
<1>15. ASSUME NEW c \in Proc, GcAcquire(c) PROVE GcInv'
  BY <1>15 DEF GcInv, CatalogBacked, GcAcquire, Acquire
<1>16. ASSUME NEW c \in Proc, GcPurge(c) PROVE GcInv'
  BY <1>16 DEF GcInv, CatalogBacked, GcPurge
<1>17. ASSUME NEW c \in Proc, GcRefuse(c) PROVE GcInv'
  BY <1>17 DEF GcInv, CatalogBacked, GcRefuse
<1>18. ASSUME NEW c \in Proc, GcPlan(c) PROVE GcInv'
  BY <1>18 DEF GcInv, CatalogBacked, GcPlan, SetGc, Tx, Swept, Referenced, GcFindings,
           MissingBlobs, GcRecord
<1>19. ASSUME NEW c \in Proc, GcMark(c) PROVE GcInv'
  BY <1>19 DEF GcInv, CatalogBacked, GcMark, SetGc, Tx, PlannedRow, Swept, Marked,
           Resurrected, Referenced, GcRecord
<1>20. ASSUME NEW c \in Proc, GcStageSweep(c) PROVE GcInv'
  BY <1>20 DEF GcInv, CatalogBacked, GcStageSweep, SetGc, Tx, GcRecord, Sweepable,
           Swept, Referenced, HashOrNone
<1>21. ASSUME NEW c \in Proc, GcAbort(c) PROVE GcInv'
  BY <1>21 DEF GcInv, CatalogBacked, GcAbort
<1>22. ASSUME NEW c \in Proc, GcSwept(c) PROVE GcInv'
  BY <1>22 DEF GcInv, CatalogBacked, GcSwept
<1>23. ASSUME NEW c \in Proc, GcCommit(c) PROVE GcInv'
  <2>1. \A d \in Proc : d # c => pc[d] = "idle" /\ \A q \in Path : job[d][q].st = "todo"
    BY <1>23, Alone DEF GcCommit
  <2>. QED
    BY <1>23, <2>1 DEF GcInv, GcCommit
<1>24. ASSUME NEW c \in Proc, GcCommitFail(c) PROVE GcInv'
  BY <1>24 DEF GcInv, CatalogBacked, GcCommitFail
<1>25. ASSUME NEW c \in Proc, NEW h \in Hash, GcUnlink(c, h) PROVE GcInv'
  <2>1. \A d \in Proc : d # c => pc[d] = "idle" /\ \A q \in Path : job[d][q].st = "todo"
    BY <1>25, Alone DEF GcUnlink
  <2>. QED
    BY <1>25, <2>1 DEF GcInv, GcUnlink, SetGc, Tx, GcRecord, Swept
<1>26. ASSUME NEW c \in Proc, NEW h \in Hash, GcSweepAbsent(c, h) PROVE GcInv'
  BY <1>26 DEF GcInv, CatalogBacked, GcSweepAbsent, SetGc, Tx, GcRecord, Sweepable,
           Swept, Referenced, HashOrNone
<1>27. ASSUME NEW c \in Proc, AuditStart(c) PROVE GcInv'
  BY <1>27 DEF GcInv, CatalogBacked, AuditStart, SharedStart, Acquire
<1>28. ASSUME NEW c \in Proc, DryRunStart(c) PROVE GcInv'
  BY <1>28 DEF GcInv, CatalogBacked, DryRunStart, SharedStart, Acquire
<1>29. ASSUME NEW c \in Proc, AuditInspect(c) PROVE GcInv'
  BY <1>29 DEF GcInv, CatalogBacked, AuditInspect
<1>30. ASSUME NEW c \in Proc, DryRunInspect(c) PROVE GcInv'
  BY <1>30 DEF GcInv, CatalogBacked, DryRunInspect
<1>31. ASSUME NEW c \in Proc, Exit(c) PROVE GcInv'
  BY <1>31 DEF GcInv, CatalogBacked, Exit, Vanish
<1>32. ASSUME NEW c \in Proc, Crash(c) PROVE GcInv'
  BY <1>32 DEF GcInv, CatalogBacked, Crash, Vanish
<1>33. ASSUME NEW p \in Path, Edit(p) PROVE GcInv'
  BY <1>33 DEF GcInv, CatalogBacked, Edit
<1>34. ASSUME NEW h \in Hash, Damage(h) PROVE GcInv'
  BY <1>34 DEF GcInv, CatalogBacked, Damage
<1>35. ASSUME UNCHANGED vars PROVE GcInv'
  BY <1>35 DEF vars, GcInv, Swept
<1>. QED
  BY <1>1, <1>2, <1>3, <1>4, <1>5, <1>6, <1>7, <1>8, <1>9, <1>10, <1>11, <1>12,
     <1>13, <1>14, <1>15, <1>16, <1>17, <1>18, <1>19, <1>20, <1>21, <1>22, <1>23,
     <1>24, <1>25, <1>26, <1>27, <1>28, <1>29, <1>30, <1>31, <1>32, <1>33, <1>34,
     <1>35
  DEF Next, Environment, ImportStep, GcStep, SharedStep

(* An undamaged CAS name holds its content or nothing.                      *)
LEMMA CasStep == TypeOK /\ CasInv /\ [Next]_vars => CasInv'
<1> SUFFICES ASSUME TypeOK, CasInv, [Next]_vars PROVE CasInv'
  OBVIOUS
<1> USE DEF TypeOK, CasInv
<1>1. CASE \E c \in Proc, p \in Path : Link(c, p)
  BY <1>1 DEF Link
<1>2. CASE \E c \in Proc, h \in Hash : GcUnlink(c, h)
  BY <1>2 DEF GcUnlink
<1>3. CASE \E h \in Hash : Damage(h)
  BY <1>3 DEF Damage
<1>. QED
  BY <1>1, <1>2, <1>3, CasChanges

(* A committed catalog stays backed: an import commits a row only for a blob *)
(* it has installed, a collection commits the removal only of rows nobody   *)
(* references, and unlinks only files of marked rows.                       *)
LEMMA BackedStep == TypeOK /\ StoreInv /\ [Next]_vars => CatalogBacked'
<1> SUFFICES ASSUME TypeOK, StoreInv, [Next]_vars PROVE CatalogBacked'
  OBVIOUS
<1> USE NoneAssumption DEF TypeOK, StoreInv, CatalogBacked
<1>1. ASSUME NEW c \in Proc, NEW batch \in SUBSET Path, CommitBatch(c, batch)
      PROVE  CatalogBacked'
  <2>1. ASSUME NEW p \in batch
        PROVE  p \in Path /\ job[c][p].hash \in Hash /\ Backed(job[c][p].hash)
    <3>1. p \in Path /\ job[c][p].st \in {"queued", "skip"}
      BY <1>1 DEF CommitBatch, Submitted
    <3>2. CASE job[c][p].st = "queued"
      BY <3>1, <3>2 DEF IngestInv
    <3>3. CASE job[c][p].st = "skip"
      BY <3>1, <3>3 DEF IngestInv, Backed
    <3>. QED
      BY <3>1, <3>2, <3>3
  <2>2. /\ UNCHANGED <<cas, damaged>>
        /\ row' = [h \in Hash |->
                     IF \E p \in batch : job[c][p].hash = h THEN "live" ELSE row[h]]
        /\ ref' = [p \in Path |-> IF p \in batch THEN job[c][p].hash ELSE ref[p]]
    BY <1>1 DEF CommitBatch, disk
  <2>. QED
    BY <2>1, <2>2 DEF Backed, HashOrNone
<1>2. CASE \E c \in Proc : GcCommit(c)
  BY <1>2 DEF GcCommit, GcInv, GcPcs, Referenced, disk, HashOrNone
<1>3. CASE UNCHANGED <<row, ref>>
  <2>1. CASE UNCHANGED <<cas, damaged>>
    BY <1>3, <2>1
  <2>2. CASE \E c \in Proc, p \in Path : Link(c, p)
    BY <1>3, <2>2 DEF Link
  <2>3. CASE \E c \in Proc, h \in Hash : GcUnlink(c, h)
    BY <1>3, <2>3 DEF GcUnlink, GcInv, GcPcs, Swept
  <2>4. CASE \E h \in Hash : Damage(h)
    BY <1>3, <2>4 DEF Damage
  <2>. QED
    BY <2>1, <2>2, <2>3, <2>4, CasChanges
<1>. QED
  BY <1>1, <1>2, <1>3, RowChanges

(* Every step keeps the store invariant.                                    *)
LEMMA StoreStep ==
  TypeOK /\ LockInv /\ JobsInv /\ StoreInv /\ [Next]_vars => StoreInv'
  BY IngestStep, CollectionStep, CasStep, BackedStep DEF StoreInv

(* The store invariant holds in every reachable state: what an import has   *)
(* installed but not committed, and what a collection may delete, agrees    *)
(* with the disk and the committed catalog at every point where a process   *)
(* can be killed.                                                           *)
THEOREM StoreCorrect == Spec => [](TypeOK /\ LockInv /\ JobsInv /\ StoreInv)
  BY TypeInit, TypeStep, LockInit, LockStep, StoreInit, StoreStep, PTL DEF Spec

(* Two-phase deletion, for any store: gc (gc.rs, apply_plan) unlinks a blob *)
(* file only when an earlier collection committed its mark and no source row *)
(* points to it.                                                            *)
THEOREM DeletionIsTwoPhase == Spec => UnlinkOnlyMarked
<1>1. TypeOK /\ StoreInv /\ [Next]_vars => UnlinkStep
  <2> SUFFICES ASSUME TypeOK, StoreInv, [Next]_vars,
                      NEW h \in Hash, cas[h] # "absent", cas'[h] = "absent",
                      h \notin damaged'
               PROVE  row[h] = "marked" /\ ~Referenced(ref, h)
    BY DEF UnlinkStep
  <2>1. CASE \E c \in Proc, p \in Path : Link(c, p)
    BY <2>1 DEF Link, TypeOK
  <2>2. CASE \E c \in Proc, g \in Hash : GcUnlink(c, g)
    BY <2>2 DEF GcUnlink, TypeOK, StoreInv, GcInv, GcPcs, Swept
  <2>3. CASE \E g \in Hash : Damage(g)
    BY <2>3 DEF Damage, TypeOK
  <2>. QED
    BY <2>1, <2>2, <2>3, CasChanges
<1>. QED
  BY <1>1, StoreCorrect, PTL DEF Spec, UnlinkOnlyMarked

(* A blob row is deleted only after its file: a sweep (gc_sweep.sql) that *)
(* is killed or fails never leaves a file without a row.                    *)
THEOREM RowsOutliveFiles == Spec => RowRemovedAfterFile
<1>1. TypeOK /\ StoreInv /\ [Next]_vars => RowRemovalStep
  <2> SUFFICES ASSUME TypeOK, StoreInv, [Next]_vars,
                      NEW h \in Hash, row[h] # "none", row'[h] = "none"
               PROVE  row[h] = "marked" /\ cas[h] = "absent" /\ ~Referenced(ref, h)
    BY DEF RowRemovalStep
  <2>1. CASE \E c \in Proc, batch \in SUBSET Path : CommitBatch(c, batch)
    BY <2>1 DEF CommitBatch, TypeOK
  <2>2. CASE \E c \in Proc : GcCommit(c)
    BY <2>2 DEF GcCommit, TypeOK, StoreInv, GcInv, GcPcs, Swept
  <2>. QED
    BY <2>1, <2>2, RowChanges
<1>. QED
  BY <1>1, StoreCorrect, PTL DEF Spec, RowRemovedAfterFile

(* No committed source row dangles: whatever is killed and wherever, the    *)
(* row's blob row is unmarked and its file is installed, unless damaged from *)
(* outside.                                                                 *)
THEOREM CatalogIsBacked == Spec => []CatalogBacked
<1>1. StoreInv => CatalogBacked
  BY DEF StoreInv
<1>. QED
  BY <1>1, StoreCorrect, PTL

(* The writer never rejects a repeat observation                            *)
(* (observe_known_source_file): what the start-of-run snapshot said is still *)
(* committed when the request is processed.                                 *)
THEOREM SkipRequestsAreCurrent == Spec => []SkipRequestsCurrent
<1>1. TypeOK /\ StoreInv => SkipRequestsCurrent
  BY NoneAssumption DEF StoreInv, IngestInv, CatalogBacked, SkipRequestsCurrent
<1>. QED
  BY <1>1, StoreCorrect, PTL

(* gc's preflight (classify_missing_blob) recognises every interrupted      *)
(* sweep: on an undamaged store only an orphan blob makes a collection      *)
(* refuse.                                                                  *)
THEOREM InterruptedSweepsNeverBlock == Spec => []OnlyOrphansBlockGc
<1>1. TypeOK /\ StoreInv => OnlyOrphansBlockGc
  <2> SUFFICES ASSUME TypeOK, StoreInv, damaged = {}
               PROVE  GcFindings(row, ref) = Orphans(row)
    BY DEF OnlyOrphansBlockGc
  <2>1. \A h \in Hash : cas[h] \in {"absent", "intact"}
    BY DEF StoreInv, CasInv
  <2>2. \A h \in Hash : row[h] # "none" /\ cas[h] = "absent" => h \in Swept(row, ref)
    BY NoneAssumption DEF StoreInv, CatalogBacked, TypeOK, RowState, Swept, Referenced
  <2>. QED
    BY <2>1, <2>2 DEF GcFindings, MissingBlobs, Swept
<1>. QED
  BY <1>1, StoreCorrect, PTL

-----------------------------------------------------------------------------
(* Initially nothing is recorded, so nothing is recorded wrongly.           *)
LEMMA MtimeInit == Init => MtimeInv /\ MetadataSkipSound
  BY DEF Init, MtimeInv, JobMtime, MetadataSkipSound, NoJobs, NoJob, Job

(* Every step keeps recorded times sound. The committed time is the scan's  *)
(* (source_observation), which is never later than the one taken before the *)
(* read; so when it is still the file's time, the file was not edited since. *)
LEMMA MtimeStep ==
  TypeOK /\ StoreInv /\ MtimeInv /\ MetadataSkipSound /\ [Next]_vars
    => (MtimeInv /\ MetadataSkipSound)'
<1> SUFFICES ASSUME TypeOK, StoreInv, MtimeInv, MetadataSkipSound, [Next]_vars
             PROVE  (MtimeInv /\ MetadataSkipSound)'
  OBVIOUS
<1> USE DEF TypeOK, JobRecord, StoreInv, MtimeInv, JobMtime, MetadataSkipSound,
            ImportPcs, disk, catalog, locals
<1>1. ASSUME NEW c \in Proc, ImportAcquire(c) PROVE (MtimeInv /\ MetadataSkipSound)'
  BY <1>1 DEF ImportAcquire, Acquire
<1>2. ASSUME NEW c \in Proc, ImportStart(c) PROVE (MtimeInv /\ MetadataSkipSound)'
  BY <1>2 DEF ImportStart
<1>3. ASSUME NEW c \in Proc, Stop(c) PROVE (MtimeInv /\ MetadataSkipSound)'
  BY <1>3 DEF Stop
<1>4. ASSUME NEW c \in Proc, WriterFail(c) PROVE (MtimeInv /\ MetadataSkipSound)'
  BY <1>4 DEF WriterFail, SetJobs, Job, Move, Submitted, JobRecord
<1>5. ASSUME NEW c \in Proc, ImportFinish(c) PROVE (MtimeInv /\ MetadataSkipSound)'
  BY <1>5 DEF ImportFinish
<1>6. ASSUME NEW c \in Proc, NEW p \in Path, ScanSkip(c, p)
      PROVE  (MtimeInv /\ MetadataSkipSound)'
  <2>1. ref[p] # None /\ seen[p] = src[p].mtime /\ snap[c].ref[p] = ref[p]
    BY <1>6 DEF ScanSkip, CanSkip, MetadataAgrees, IngestInv
  <2>2. snap[c].ref[p] = src[p].content
    BY <2>1
  <2> QED
    BY <1>6, <2>2 DEF ScanSkip, SetJob, SetJobs, Job
<1>7. ASSUME NEW c \in Proc, NEW p \in Path, ScanHash(c, p)
      PROVE  (MtimeInv /\ MetadataSkipSound)'
  BY <1>7 DEF ScanHash, SetJob, SetJobs, Job, Move
<1>8. ASSUME NEW c \in Proc, NEW p \in Path, BeginRead(c, p)
      PROVE  (MtimeInv /\ MetadataSkipSound)'
  BY <1>8 DEF BeginRead, SetJob, SetJobs, Job, Move
<1>9. ASSUME NEW c \in Proc, NEW p \in Path, FinishRead(c, p)
      PROVE  (MtimeInv /\ MetadataSkipSound)'
  BY <1>9 DEF FinishRead, SetJob, SetJobs, Job, Move
<1>10. ASSUME NEW c \in Proc, NEW p \in Path, Link(c, p)
       PROVE  (MtimeInv /\ MetadataSkipSound)'
  BY <1>10 DEF Link, SetJob, SetJobs, Job, Move
<1>11. ASSUME NEW c \in Proc, NEW p \in Path, Unstage(c, p)
       PROVE  (MtimeInv /\ MetadataSkipSound)'
  BY <1>11 DEF Unstage, SetJob, SetJobs, Job, Move
<1>12. ASSUME NEW c \in Proc, NEW p \in Path, FailIngest(c, p)
       PROVE  (MtimeInv /\ MetadataSkipSound)'
  BY <1>12 DEF FailIngest, SetJob, SetJobs, Job, Move, InFlight
<1>13. ASSUME NEW c \in Proc, NEW p \in Path, Submit(c, p)
       PROVE  (MtimeInv /\ MetadataSkipSound)'
  BY <1>13 DEF Submit, SetJob, SetJobs, Job, Move
<1>14. ASSUME NEW c \in Proc, NEW batch \in SUBSET Path, CommitBatch(c, batch)
       PROVE  (MtimeInv /\ MetadataSkipSound)'
  <2>1. ASSUME NEW q \in batch
        PROVE  /\ q \in Path /\ job[c][q].scan \in Nat /\ job[c][q].scan <= src[q].mtime
               /\ job[c][q].scan = src[q].mtime => job[c][q].hash = src[q].content
    <3>1. q \in Path /\ job[c][q].st \in {"queued", "skip"}
      BY <1>14 DEF CommitBatch, Submitted
    <3>2. job[c][q].scan \in Nat /\ job[c][q].before \in Nat /\ src[q].mtime \in Nat
      BY <3>1
    <3>. QED
      BY <3>1, <3>2
  <2>2. /\ src' = src
        /\ ref' = [q \in Path |-> IF q \in batch THEN job[c][q].hash ELSE ref[q]]
        /\ seen' = [q \in Path |-> IF q \in batch THEN job[c][q].scan ELSE seen[q]]
    BY <1>14 DEF CommitBatch
  <2>3. MetadataSkipSound'
    BY <2>1, <2>2
  <2>4. ASSUME NEW d \in Proc, NEW q \in Path
        PROVE  \/ job'[d][q] = job[d][q]
               \/ /\ job'[d][q].st = "done" /\ job[d][q].st # "todo"
                  /\ job'[d][q].scan = job[d][q].scan
    <3>1. CASE d = c /\ q \in batch
      <4>1. job'[c][q] = Job("done", job[c][q].scan, job[c][q].before, job[c][q].hash)
        BY <1>14, <3>1 DEF CommitBatch, SetJobs, Move
      <4>2. job[c][q].st # "todo"
        BY <1>14, <3>1 DEF CommitBatch, Submitted
      <4>. QED
        BY <3>1, <4>1, <4>2 DEF Job
    <3>2. CASE ~(d = c /\ q \in batch)
      BY <1>14, <3>2 DEF CommitBatch, SetJobs
    <3>. QED
      BY <3>1, <3>2
  <2>5. \A q \in Path : seen'[q] <= src'[q].mtime
    BY <2>1, <2>2
  <2>6. ASSUME NEW d \in Proc, NEW q \in Path PROVE JobMtime(d, q)'
    <3>1. CASE job'[d][q] = job[d][q]
      BY <2>2, <3>1
    <3>2. CASE /\ job'[d][q].st = "done" /\ job[d][q].st # "todo"
               /\ job'[d][q].scan = job[d][q].scan
      BY <2>2, <3>2
    <3>. QED
      BY <2>4, <3>1, <3>2
  <2>7. MtimeInv'
    BY <2>5, <2>6 DEF MtimeInv
  <2>. QED
    BY <2>3, <2>7
<1>15. ASSUME NEW c \in Proc, GcAcquire(c) PROVE (MtimeInv /\ MetadataSkipSound)'
  BY <1>15 DEF GcAcquire, Acquire
<1>16. ASSUME NEW c \in Proc, GcPurge(c) PROVE (MtimeInv /\ MetadataSkipSound)'
  BY <1>16 DEF GcPurge
<1>17. ASSUME NEW c \in Proc, GcRefuse(c) PROVE (MtimeInv /\ MetadataSkipSound)'
  BY <1>17 DEF GcRefuse
<1>18. ASSUME NEW c \in Proc, GcPlan(c) PROVE (MtimeInv /\ MetadataSkipSound)'
  BY <1>18 DEF GcPlan, SetGc, Tx
<1>19. ASSUME NEW c \in Proc, GcMark(c) PROVE (MtimeInv /\ MetadataSkipSound)'
  BY <1>19 DEF GcMark, SetGc, Tx
<1>20. ASSUME NEW c \in Proc, GcStageSweep(c) PROVE (MtimeInv /\ MetadataSkipSound)'
  BY <1>20 DEF GcStageSweep, SetGc, Tx
<1>21. ASSUME NEW c \in Proc, GcAbort(c) PROVE (MtimeInv /\ MetadataSkipSound)'
  BY <1>21 DEF GcAbort
<1>22. ASSUME NEW c \in Proc, GcSwept(c) PROVE (MtimeInv /\ MetadataSkipSound)'
  BY <1>22 DEF GcSwept
<1>23. ASSUME NEW c \in Proc, GcCommit(c) PROVE (MtimeInv /\ MetadataSkipSound)'
  BY <1>23 DEF GcCommit
<1>24. ASSUME NEW c \in Proc, GcCommitFail(c) PROVE (MtimeInv /\ MetadataSkipSound)'
  BY <1>24 DEF GcCommitFail
<1>25. ASSUME NEW c \in Proc, NEW h \in Hash, GcUnlink(c, h)
       PROVE  (MtimeInv /\ MetadataSkipSound)'
  BY <1>25 DEF GcUnlink, SetGc, Tx
<1>26. ASSUME NEW c \in Proc, NEW h \in Hash, GcSweepAbsent(c, h)
       PROVE  (MtimeInv /\ MetadataSkipSound)'
  BY <1>26 DEF GcSweepAbsent, SetGc, Tx
<1>27. ASSUME NEW c \in Proc, AuditStart(c) PROVE (MtimeInv /\ MetadataSkipSound)'
  BY <1>27 DEF AuditStart, SharedStart, Acquire
<1>28. ASSUME NEW c \in Proc, DryRunStart(c) PROVE (MtimeInv /\ MetadataSkipSound)'
  BY <1>28 DEF DryRunStart, SharedStart, Acquire
<1>29. ASSUME NEW c \in Proc, AuditInspect(c) PROVE (MtimeInv /\ MetadataSkipSound)'
  BY <1>29 DEF AuditInspect
<1>30. ASSUME NEW c \in Proc, DryRunInspect(c) PROVE (MtimeInv /\ MetadataSkipSound)'
  BY <1>30 DEF DryRunInspect
<1>31. ASSUME NEW c \in Proc, Exit(c) PROVE (MtimeInv /\ MetadataSkipSound)'
  BY <1>31 DEF Exit, Vanish, NoJobs, NoJob, Job
<1>32. ASSUME NEW c \in Proc, Crash(c) PROVE (MtimeInv /\ MetadataSkipSound)'
  BY <1>32 DEF Crash, Vanish, NoJobs, NoJob, Job
<1>33. ASSUME NEW p \in Path, Edit(p) PROVE (MtimeInv /\ MetadataSkipSound)'
  BY <1>33 DEF Edit
<1>34. ASSUME NEW h \in Hash, Damage(h) PROVE (MtimeInv /\ MetadataSkipSound)'
  BY <1>34 DEF Damage
<1>35. ASSUME UNCHANGED vars PROVE (MtimeInv /\ MetadataSkipSound)'
  BY <1>35 DEF vars
<1>. QED
  BY <1>1, <1>2, <1>3, <1>4, <1>5, <1>6, <1>7, <1>8, <1>9, <1>10, <1>11, <1>12,
     <1>13, <1>14, <1>15, <1>16, <1>17, <1>18, <1>19, <1>20, <1>21, <1>22, <1>23,
     <1>24, <1>25, <1>26, <1>27, <1>28, <1>29, <1>30, <1>31, <1>32, <1>33, <1>34,
     <1>35
  DEF Next, Environment, ImportStep, GcStep, SharedStep

(* Metadata skipping (classify_import) is sound for any number of files,    *)
(* edits, runs and kills: a row whose time is the file's present one records *)
(* the file's present content.                                              *)
THEOREM MetadataSkipIsSound == Spec => []MetadataSkipSound
  BY StoreCorrect, MtimeInit, MtimeStep, PTL DEF Spec

-----------------------------------------------------------------------------
(* Staging *)

(* Initially staging is empty and no command is past its purge.             *)
LEMMA StagingInit == Init => StagingOwned
  BY DEF Init, StagingOwned, ImportPcs, GcPcs

(* Every step keeps staging the property of the exclusive command: only its *)
(* own ingestions create files there, and a file outlives its ingestion     *)
(* only when the ingestion failed.                                          *)
LEMMA StagingStep ==
  TypeOK /\ LockInv /\ JobsInv /\ StagingOwned /\ [Next]_vars => StagingOwned'
<1> SUFFICES ASSUME TypeOK, LockInv, JobsInv, StagingOwned, [Next]_vars
             PROVE  StagingOwned'
  OBVIOUS
<1> USE DEF TypeOK, StagingOwned, ExclusivePcs, PC, ImportPcs, GcPcs, SharedPcs,
            disk, catalog, locals
<1>1. ASSUME NEW c \in Proc, ImportAcquire(c) PROVE StagingOwned'
  BY <1>1 DEF ImportAcquire, Acquire
<1>2. ASSUME NEW c \in Proc, ImportStart(c) PROVE StagingOwned'
  <2>1. \A d \in Proc : d # c => pc[d] = "idle" /\ \A q \in Path : job[d][q].st = "todo"
    BY <1>2, Alone DEF ImportStart
  <2>. QED
    BY <1>2, <2>1 DEF ImportStart, CatalogNow
<1>3. ASSUME NEW c \in Proc, Stop(c) PROVE StagingOwned'
  BY <1>3 DEF Stop
<1>4. ASSUME NEW c \in Proc, WriterFail(c) PROVE StagingOwned'
  BY <1>4 DEF WriterFail, SetJobs, Job, Move, JobRecord, Submitted, InFlight
<1>5. ASSUME NEW c \in Proc, ImportFinish(c) PROVE StagingOwned'
  BY <1>5 DEF ImportFinish
<1>6. ASSUME NEW c \in Proc, NEW p \in Path, ScanSkip(c, p) PROVE StagingOwned'
  BY <1>6 DEF ScanSkip, SetJob, SetJobs, Job, Move, JobRecord, InFlight
<1>7. ASSUME NEW c \in Proc, NEW p \in Path, ScanHash(c, p) PROVE StagingOwned'
  BY <1>7 DEF ScanHash, SetJob, SetJobs, Job, Move, JobRecord, InFlight
<1>8. ASSUME NEW c \in Proc, NEW p \in Path, BeginRead(c, p) PROVE StagingOwned'
  <2>1. \A d \in Proc : d # c => pc[d] = "idle" /\ \A q \in Path : job[d][q].st = "todo"
    BY <1>8, Alone DEF BeginRead
  <2>. QED
    BY <1>8, <2>1 DEF BeginRead, SetJob, SetJobs, Job, Move, JobRecord, InFlight
<1>9. ASSUME NEW c \in Proc, NEW p \in Path, FinishRead(c, p) PROVE StagingOwned'
  BY <1>9 DEF FinishRead, SetJob, SetJobs, Job, Move, JobRecord, InFlight
<1>10. ASSUME NEW c \in Proc, NEW p \in Path, Link(c, p) PROVE StagingOwned'
  BY <1>10 DEF Link, SetJob, SetJobs, Job, Move, JobRecord, InFlight
<1>11. ASSUME NEW c \in Proc, NEW p \in Path, Unstage(c, p) PROVE StagingOwned'
  <2>1. \A d \in Proc : d # c => pc[d] = "idle" /\ \A q \in Path : job[d][q].st = "todo"
    BY <1>11, Alone DEF Unstage
  <2>. QED
    BY <1>11, <2>1 DEF Unstage, SetJob, SetJobs, Job, Move, JobRecord, InFlight
<1>12. ASSUME NEW c \in Proc, NEW p \in Path, FailIngest(c, p) PROVE StagingOwned'
  <2>1. \A d \in Proc : d # c => pc[d] = "idle" /\ \A q \in Path : job[d][q].st = "todo"
    BY <1>12, Alone DEF FailIngest
  <2>. QED
    BY <1>12, <2>1 DEF FailIngest, SetJob, SetJobs, Job, Move, JobRecord, InFlight
<1>13. ASSUME NEW c \in Proc, NEW p \in Path, Submit(c, p) PROVE StagingOwned'
  BY <1>13 DEF Submit, SetJob, SetJobs, Job, Move, JobRecord, InFlight
<1>14. ASSUME NEW c \in Proc, NEW batch \in SUBSET Path, CommitBatch(c, batch)
       PROVE  StagingOwned'
  <2>1. staging' = staging /\ pc' = pc /\ \A d \in Proc : d # c => job'[d] = job[d]
    BY <1>14 DEF CommitBatch, SetJobs
  <2>2. ASSUME NEW p \in Path, job[c][p].st \in InFlight \cup {"failed"}
        PROVE  job'[c][p] = job[c][p]
    BY <1>14, <2>2 DEF CommitBatch, SetJobs, InFlight, Submitted
  <2>. QED
    BY <2>1, <2>2
<1>15. ASSUME NEW c \in Proc, GcAcquire(c) PROVE StagingOwned'
  BY <1>15 DEF GcAcquire, Acquire
<1>16. ASSUME NEW c \in Proc, GcPurge(c) PROVE StagingOwned'
  <2>1. \A d \in Proc : d # c => pc[d] = "idle" /\ \A q \in Path : job[d][q].st = "todo"
    BY <1>16, Alone DEF GcPurge
  <2>. QED
    BY <1>16, <2>1 DEF GcPurge
<1>17. ASSUME NEW c \in Proc, GcRefuse(c) PROVE StagingOwned'
  BY <1>17 DEF GcRefuse
<1>18. ASSUME NEW c \in Proc, GcPlan(c) PROVE StagingOwned'
  BY <1>18 DEF GcPlan, SetGc, Tx
<1>19. ASSUME NEW c \in Proc, GcMark(c) PROVE StagingOwned'
  BY <1>19 DEF GcMark, SetGc, Tx
<1>20. ASSUME NEW c \in Proc, GcStageSweep(c) PROVE StagingOwned'
  BY <1>20 DEF GcStageSweep, SetGc, Tx
<1>21. ASSUME NEW c \in Proc, GcAbort(c) PROVE StagingOwned'
  BY <1>21 DEF GcAbort
<1>22. ASSUME NEW c \in Proc, GcSwept(c) PROVE StagingOwned'
  BY <1>22 DEF GcSwept
<1>23. ASSUME NEW c \in Proc, GcCommit(c) PROVE StagingOwned'
  BY <1>23 DEF GcCommit
<1>24. ASSUME NEW c \in Proc, GcCommitFail(c) PROVE StagingOwned'
  BY <1>24 DEF GcCommitFail
<1>25. ASSUME NEW c \in Proc, NEW h \in Hash, GcUnlink(c, h) PROVE StagingOwned'
  BY <1>25 DEF GcUnlink, SetGc, Tx
<1>26. ASSUME NEW c \in Proc, NEW h \in Hash, GcSweepAbsent(c, h) PROVE StagingOwned'
  BY <1>26 DEF GcSweepAbsent, SetGc, Tx
<1>27. ASSUME NEW c \in Proc, AuditStart(c) PROVE StagingOwned'
  BY <1>27 DEF AuditStart, SharedStart, Acquire
<1>28. ASSUME NEW c \in Proc, DryRunStart(c) PROVE StagingOwned'
  BY <1>28 DEF DryRunStart, SharedStart, Acquire
<1>29. ASSUME NEW c \in Proc, AuditInspect(c) PROVE StagingOwned'
  BY <1>29 DEF AuditInspect
<1>30. ASSUME NEW c \in Proc, DryRunInspect(c) PROVE StagingOwned'
  BY <1>30 DEF DryRunInspect
<1>31. ASSUME NEW c \in Proc, Exit(c) PROVE StagingOwned'
  BY <1>31 DEF Exit, Vanish, NoJobs, NoJob, Job
<1>32. ASSUME NEW c \in Proc, Crash(c) PROVE StagingOwned'
  BY <1>32 DEF Crash, Vanish, NoJobs, NoJob, Job
<1>33. ASSUME NEW p \in Path, Edit(p) PROVE StagingOwned'
  BY <1>33 DEF Edit
<1>34. ASSUME NEW h \in Hash, Damage(h) PROVE StagingOwned'
  BY <1>34 DEF Damage
<1>35. ASSUME UNCHANGED vars PROVE StagingOwned'
  BY <1>35 DEF vars
<1>. QED
  BY <1>1, <1>2, <1>3, <1>4, <1>5, <1>6, <1>7, <1>8, <1>9, <1>10, <1>11, <1>12,
     <1>13, <1>14, <1>15, <1>16, <1>17, <1>18, <1>19, <1>20, <1>21, <1>22, <1>23,
     <1>24, <1>25, <1>26, <1>27, <1>28, <1>29, <1>30, <1>31, <1>32, <1>33, <1>34,
     <1>35
  DEF Next, Environment, ImportStep, GcStep, SharedStep

(* What a killed import or collection left in staging is never mistaken for *)
(* a running command's own: past purge_directory_entries (store.rs) an      *)
(* exclusive command finds there only files of its own ingestions.          *)
THEOREM StagingIsOwned == Spec => []StagingOwned
  BY LockCorrect, StagingInit, StagingStep, PTL DEF Spec

-----------------------------------------------------------------------------
(* Readers *)

(* While any process holds the lock shared, no process is in a state of     *)
(* import or gc.                                                            *)
LEMMA ReadersExclude ==
  ASSUME TypeOK, LockInv, NEW c \in Proc, lock[c] = "shared",
         NEW d \in Proc
  PROVE  pc[d] \notin ExclusivePcs
  BY DEF TypeOK, LockInv

(* A step next to a shared lock leaves the catalog, staging and, unless it  *)
(* is damage, the CAS alone: every step that writes them is one of a        *)
(* command that holds the lock exclusively.                                 *)
LEMMA ReadersAreQuiet == TypeOK /\ LockInv /\ [Next]_vars => QuietStep
<1> SUFFICES ASSUME TypeOK, LockInv, [Next]_vars,
                    NEW r \in Proc, lock[r] = "shared"
             PROVE  /\ UNCHANGED <<catalog, staging>>
                    /\ UNCHANGED cas \/ \E h \in Hash : Damage(h)
  BY DEF QuietStep
<1> DEFINE Quiet == /\ UNCHANGED <<catalog, staging>>
                    /\ UNCHANGED cas \/ \E h \in Hash : Damage(h)
<1>0. \A c \in Proc : pc[c] \notin ExclusivePcs
  BY ReadersExclude
<1>1. ASSUME NEW c \in Proc, ImportStep(c) PROVE Quiet
  BY <1>0, <1>1 DEF ImportStep, disk, ExclusivePcs, PC, ImportPcs, SharedPcs,
         ImportAcquire, ImportStart, Stop, WriterFail, ImportFinish, ScanSkip, ScanHash,
         BeginRead, FinishRead, Link, Unstage, FailIngest, Submit, CommitBatch
<1>2. ASSUME NEW c \in Proc, GcStep(c) PROVE Quiet
  BY <1>0, <1>2 DEF GcStep, disk, ExclusivePcs, PC, GcPcs, SharedPcs, GcAcquire, GcPurge,
         GcRefuse, GcPlan, GcMark, GcStageSweep, GcAbort, GcSwept, GcCommit,
         GcCommitFail, GcUnlink, GcSweepAbsent
<1>3. ASSUME NEW c \in Proc, SharedStep(c) \/ Exit(c) \/ Crash(c) PROVE Quiet
  BY <1>3 DEF SharedStep, disk, AuditStart, DryRunStart, AuditInspect, DryRunInspect,
         Exit, Crash, SharedStart, Vanish
<1>4. ASSUME Environment PROVE Quiet
  BY <1>4 DEF Environment, disk, Edit, Damage
<1>. QED
  BY <1>1, <1>2, <1>3, <1>4 DEF Next, vars, disk

(* audit and gc --dry-run read a store that stands still: while they hold   *)
(* the lock shared (run_lock.rs, acquire), no import and no                 *)
(* collection changes the catalog, staging or the CAS.                      *)
THEOREM ReadersAreUndisturbed == Spec => SharedReadersUndisturbed
  BY LockCorrect, ReadersAreQuiet, PTL DEF Spec, SharedReadersUndisturbed

(* What a reader holds: the catalog it copied is the committed one, and     *)
(* what it found is what it would find now.                                 *)
ReaderInv ==
  /\ ReportsCurrent
  /\ \A c \in Proc : pc[c] \in SharedPcs => snap[c].row = row /\ snap[c].ref = ref

(* A process in a reader's state got there by a reader's step or stood      *)
(* still.                                                                   *)
LEMMA ReaderSteps ==
  ASSUME TypeOK, [Next]_vars, NEW c \in Proc, pc'[c] \in SharedPcs
  PROVE  \/ AuditStart(c) \/ DryRunStart(c) \/ AuditInspect(c) \/ DryRunInspect(c)
         \/ pc'[c] = pc[c] /\ snap'[c] = snap[c] /\ found'[c] = found[c]
<1> DEFINE Reads ==
      \/ AuditStart(c) \/ DryRunStart(c) \/ AuditInspect(c) \/ DryRunInspect(c)
      \/ pc'[c] = pc[c] /\ snap'[c] = snap[c] /\ found'[c] = found[c]
<1> USE DEF TypeOK, SharedPcs, locals
<1>1. ASSUME NEW d \in Proc, ImportStep(d) PROVE Reads
  BY <1>1 DEF ImportStep, ImportAcquire, Acquire, ImportStart, Stop, WriterFail,
         ImportFinish, ScanSkip, ScanHash, BeginRead, FinishRead, Link, Unstage,
         FailIngest, Submit, CommitBatch
<1>2. ASSUME NEW d \in Proc, GcStep(d) PROVE Reads
  BY <1>2 DEF GcStep, GcAcquire, Acquire, GcPurge, GcRefuse, GcPlan, GcMark,
         GcStageSweep, GcAbort, GcSwept, GcCommit, GcCommitFail, GcUnlink, GcSweepAbsent
<1>3. ASSUME NEW d \in Proc, SharedStep(d) \/ Exit(d) \/ Crash(d) PROVE Reads
  <2>1. CASE c = d
    BY <1>3, <2>1 DEF SharedStep, Exit, Crash, Vanish
  <2>2. CASE c # d
    BY <1>3, <2>2 DEF SharedStep, AuditStart, DryRunStart, AuditInspect, DryRunInspect,
           SharedStart, Acquire, Exit, Crash, Vanish
  <2>. QED
    BY <2>1, <2>2
<1>4. ASSUME Environment PROVE Reads
  BY <1>4 DEF Environment, Edit, Damage
<1>. QED
  BY <1>1, <1>2, <1>3, <1>4 DEF Next, vars

(* Every step keeps what a reader holds current: the catalog copy is taken  *)
(* under the lock, and until the lock drops the store stands still.         *)
LEMMA ReaderStep == TypeOK /\ LockInv /\ ReaderInv /\ [Next]_vars => ReaderInv'
<1> SUFFICES ASSUME TypeOK, LockInv, ReaderInv, [Next]_vars,
                    NEW c \in Proc, pc'[c] \in SharedPcs
             PROVE  /\ snap'[c].row = row' /\ snap'[c].ref = ref'
                    /\ damaged' = {} =>
                         /\ pc'[c] = "audit_report" => found'[c] = AuditReport(row)'
                         /\ pc'[c] = "dryrun_report" => found'[c] = DryRunReport(row, ref)'
  BY DEF ReaderInv, ReportsCurrent, SharedPcs
<1> USE DEF TypeOK, ReaderInv, SharedPcs
<1>1. CASE AuditStart(c) \/ DryRunStart(c)
  BY <1>1 DEF AuditStart, DryRunStart, SharedStart, Acquire, CatalogNow, catalog
<1>2. CASE AuditInspect(c)
  <2>1. /\ UNCHANGED <<row, ref, cas, snap>> /\ pc'[c] = "audit_report"
        /\ found'[c] = AuditReport(snap[c].row) /\ snap[c].row = row /\ snap[c].ref = ref
    BY <1>2 DEF AuditInspect, disk, catalog
  <2>. QED
    BY <2>1 DEF AuditReport, AuditFindings, Orphans
<1>3. CASE DryRunInspect(c)
  <2>1. /\ UNCHANGED <<row, ref, cas, snap>> /\ pc'[c] = "dryrun_report"
        /\ found'[c] = DryRunReport(snap[c].row, snap[c].ref)
        /\ snap[c].row = row /\ snap[c].ref = ref
    BY <1>3 DEF DryRunInspect, disk, catalog
  <2>. QED
    BY <2>1 DEF DryRunReport, GcFindings, MissingBlobs, Orphans, Swept
<1>4. CASE pc'[c] = pc[c] /\ snap'[c] = snap[c] /\ found'[c] = found[c]
  <2>1. lock[c] = "shared"
    BY <1>4 DEF LockInv
  <2>2. UNCHANGED <<row, ref>> /\ (UNCHANGED cas \/ \E h \in Hash : Damage(h))
    BY <2>1, ReadersAreQuiet DEF QuietStep, catalog
  <2>3. ASSUME damaged' = {} PROVE UNCHANGED cas /\ damaged = {}
    BY <2>2, <2>3, CasChanges DEF Damage, Link, GcUnlink
  <2>. QED
    BY <1>4, <2>2, <2>3 DEF ReportsCurrent, AuditReport, AuditFindings, Orphans,
           DryRunReport, GcFindings, MissingBlobs, Swept
<1>. QED
  BY <1>1, <1>2, <1>3, <1>4, ReaderSteps

(* What audit (audit.rs) and gc --dry-run (gc.rs, collect_dry_run) report   *)
(* is true of the store at the moment they report it, although the catalog  *)
(* was read first and the CAS walked later.                                 *)
THEOREM ReportsAreCurrent == Spec => []ReportsCurrent
<1>1. Init => ReaderInv
  BY DEF Init, ReaderInv, ReportsCurrent, SharedPcs
<1>2. ReaderInv => ReportsCurrent
  BY DEF ReaderInv
<1>. QED
  BY <1>1, <1>2, LockCorrect, ReaderStep, PTL DEF Spec

-----------------------------------------------------------------------------
(* Collections *)

(* A process inside an open collection got there by one of the collection's *)
(* own steps or stood still.                                                *)
LEMMA CollectorSteps ==
  ASSUME TypeOK, [Next]_vars, NEW c \in Proc, pc'[c] \in GcPcs
  PROVE  \/ GcPlan(c) \/ GcMark(c) \/ GcStageSweep(c) \/ GcAbort(c) \/ GcSwept(c)
         \/ \E h \in Hash : GcUnlink(c, h) \/ GcSweepAbsent(c, h)
         \/ pc'[c] = pc[c] /\ gc'[c] = gc[c]
<1> DEFINE Collects ==
      \/ GcPlan(c) \/ GcMark(c) \/ GcStageSweep(c) \/ GcAbort(c) \/ GcSwept(c)
      \/ \E h \in Hash : GcUnlink(c, h) \/ GcSweepAbsent(c, h)
      \/ pc'[c] = pc[c] /\ gc'[c] = gc[c]
<1> USE DEF TypeOK, GcPcs, locals
<1>1. ASSUME NEW d \in Proc, ImportStep(d) PROVE Collects
  BY <1>1 DEF ImportStep, ImportAcquire, Acquire, ImportStart, Stop, WriterFail,
         ImportFinish, ScanSkip, ScanHash, BeginRead, FinishRead, Link, Unstage,
         FailIngest, Submit, CommitBatch
<1>2. ASSUME NEW d \in Proc, GcStep(d) PROVE Collects
  <2>1. CASE c = d
    BY <1>2, <2>1 DEF GcStep, GcAcquire, Acquire, GcPurge, GcRefuse, GcCommit,
           GcCommitFail
  <2>2. CASE c # d
    BY <1>2, <2>2 DEF GcStep, GcAcquire, Acquire, GcPurge, GcRefuse, GcPlan, GcMark,
           GcStageSweep, GcAbort, GcSwept, GcCommit, GcCommitFail, GcUnlink,
           GcSweepAbsent, SetGc
  <2>. QED
    BY <2>1, <2>2
<1>3. ASSUME NEW d \in Proc, SharedStep(d) \/ Exit(d) \/ Crash(d) PROVE Collects
  BY <1>3 DEF SharedStep, AuditStart, DryRunStart, AuditInspect, DryRunInspect,
         SharedStart, Acquire, Exit, Crash, Vanish
<1>4. ASSUME Environment PROVE Collects
  BY <1>4 DEF Environment, Edit, Damage
<1>. QED
  BY <1>1, <1>2, <1>3, <1>4 DEF Next, vars

(* While a collection has its transaction open, and until it commits, the   *)
(* committed catalog stands still and no blob is installed.                 *)
LEMMA CatalogStandsStill ==
  ASSUME TypeOK, LockInv, JobsInv, [Next]_vars,
         NEW c \in Proc, pc[c] \in GcPcs, pc'[c] \in GcPcs
  PROVE  /\ UNCHANGED <<row, ref>>
         /\ ~ \E d \in Proc, p \in Path : Link(d, p)
<1>1. \A d \in Proc : pc[d] \notin ImportPcs
  BY Alone DEF ExclusivePcs, PC, GcPcs, ImportPcs, SharedPcs
<1>2. \A d \in Proc : ~GcCommit(d)
  <2> SUFFICES ASSUME NEW d \in Proc, GcCommit(d) PROVE FALSE
    OBVIOUS
  <2>1. d = c
    BY Alone DEF GcCommit, ExclusivePcs, PC, GcPcs, SharedPcs
  <2>. QED
    BY <2>1 DEF GcCommit, TypeOK, GcPcs
<1>. QED
  BY <1>1, <1>2, RowChanges DEF CommitBatch, Link

(* Every step keeps an open collection free of orphans.                     *)
LEMMA OrphanStep ==
  TypeOK /\ LockInv /\ JobsInv /\ NoOrphanDuringGc /\ [Next]_vars => NoOrphanDuringGc'
<1> SUFFICES ASSUME TypeOK, LockInv, JobsInv, NoOrphanDuringGc, [Next]_vars,
                    NEW c \in Proc, pc'[c] \in GcPcs,
                    NEW h \in Hash, cas'[h] # "absent", row'[h] = "none"
             PROVE  h \in damaged'
  BY DEF NoOrphanDuringGc, Orphans
<1>1. CASE GcPlan(c)
  BY <1>1 DEF GcPlan, GcFindings, Orphans, disk, catalog
<1>2. CASE pc[c] \in GcPcs
  <2>1. UNCHANGED <<row, ref>> /\ ~ \E d \in Proc, p \in Path : Link(d, p)
    BY <1>2, CatalogStandsStill
  <2>2. cas[h] # "absent" => h \in damaged
    BY <1>2, <2>1 DEF NoOrphanDuringGc, Orphans
  <2>3. CASE UNCHANGED <<cas, damaged>>
    BY <2>2, <2>3
  <2>4. CASE \E d \in Proc, g \in Hash : GcUnlink(d, g)
    BY <2>2, <2>4 DEF GcUnlink, TypeOK
  <2>5. CASE \E g \in Hash : Damage(g)
    BY <2>2, <2>5 DEF Damage, TypeOK
  <2>. QED
    BY <2>1, <2>3, <2>4, <2>5, CasChanges
<1>. QED
  BY <1>1, <1>2, CollectorSteps
     DEF GcMark, GcStageSweep, GcAbort, GcSwept, GcUnlink, GcSweepAbsent, GcPcs

(* A collection that passed preflight (gc.rs, run_preflight) works on a     *)
(* store in which every undamaged file has a row, up to its commit: the     *)
(* lock keeps every import from installing one beside it.                   *)
THEOREM NoOrphanBesideGc == Spec => []NoOrphanDuringGc
<1>1. Init => NoOrphanDuringGc
  BY DEF Init, NoOrphanDuringGc, GcPcs
<1>. QED
  BY <1>1, LockCorrect, OrphanStep, PTL DEF Spec

-----------------------------------------------------------------------------
(* MediaStore implements Archive.  Each step that changes what the archive *)
(* sees (a hard link, an unlink, damage, the commit of a batch, the commit *)
(* of a collection) is a step of the archive; every other step is a        *)
(* stutter.  The commit of a collection needs one more invariant: what the *)
(* open transaction holds is the plan for the catalog as it is now, less   *)
(* rows whose file is gone.                                                *)

(* From the staged marks to its commit, a collection's transaction holds    *)
(* for each row what the plan says of the present catalog, or nothing for a *)
(* row that was marked, unreferenced and without a file; a collection that  *)
(* has not staged its marks has swept nothing.                              *)
PlanInv ==
  \A c \in Proc :
    /\ pc[c] = "gc_mark" => gc[c].mutated = "no"
    /\ pc[c] \in {"gc_sweep", "gc_sync", "gc_commit"} =>
         \A h \in Hash :
           \/ gc[c].row[h] = PlannedRow[h]
           \/ gc[c].row[h] = "none" /\ h \in Swept(row, ref) /\ cas[h] = "absent"

(* Every step keeps an open transaction true to the present catalog and     *)
(* CAS: nobody else commits or installs, and the row of a swept blob goes   *)
(* only after its file.                                                     *)
LEMMA PlanStep ==
  TypeOK /\ LockInv /\ JobsInv /\ StoreInv /\ PlanInv /\ [Next]_vars => PlanInv'
<1> SUFFICES ASSUME TypeOK, LockInv, JobsInv, StoreInv, PlanInv, [Next]_vars,
                    NEW c \in Proc, pc'[c] \in GcPcs
             PROVE  /\ pc'[c] = "gc_mark" => gc'[c].mutated = "no"
                    /\ pc'[c] \in {"gc_sweep", "gc_sync", "gc_commit"} =>
                         \A h \in Hash :
                           \/ gc'[c].row[h] = (PlannedRow[h])'
                           \/ /\ gc'[c].row[h] = "none"
                              /\ h \in Swept(row, ref)' /\ cas'[h] = "absent"
  BY DEF PlanInv, GcPcs
<1> DEFINE Open(r, h) == \/ r[h] = PlannedRow[h]
                         \/ r[h] = "none" /\ h \in Swept(row, ref) /\ cas[h] = "absent"
<1>1. CASE GcPlan(c)
  BY <1>1 DEF GcPlan, SetGc, Tx, TypeOK
<1>2. CASE pc[c] \in GcPcs
  <2>1. UNCHANGED <<row, ref>> /\ ~ \E d \in Proc, p \in Path : Link(d, p)
    BY <1>2, CatalogStandsStill
  <2>2. \A h \in Hash : (PlannedRow[h])' = PlannedRow[h]
    BY <2>1 DEF PlannedRow, Marked, Resurrected
  <2>3. Swept(row, ref)' = Swept(row, ref)
    BY <2>1 DEF Swept
  <2>4. \A h \in Hash : h \in Swept(row, ref) /\ cas[h] = "absent" => cas'[h] = "absent"
    BY <2>1, CasChanges DEF GcUnlink, Damage, TypeOK
  <2>5. CASE GcMark(c)
    <3>1. gc'[c].row = PlannedRow /\ pc'[c] = "gc_sweep"
      BY <2>5 DEF GcMark, SetGc, Tx, TypeOK
    <3>. QED
      BY <2>2, <3>1
  <2>6. CASE GcStageSweep(c)
    <3>1. /\ pc'[c] = "gc_sweep" /\ pc[c] = "gc_sync"
          /\ gc'[c].row = [gc[c].row EXCEPT ![gc[c].cur] = "none"]
      BY <2>6 DEF GcStageSweep, SetGc, Tx, TypeOK
    <3>2. gc[c].cur \in Swept(row, ref) /\ cas[gc[c].cur] = "absent"
      BY <3>1 DEF StoreInv, GcInv, GcPcs
    <3>3. gc[c].row \in [Hash -> RowState]
      BY DEF TypeOK, GcRecord
    <3>4. \A h \in Hash : Open(gc[c].row, h)
      BY <3>1 DEF PlanInv
    <3>5. \A h \in Hash : Open(gc'[c].row, h)
      BY <3>1, <3>2, <3>3, <3>4
    <3>. QED
      BY <2>2, <2>3, <2>4, <3>1, <3>5
  <2>7. ASSUME NEW g \in Hash, GcSweepAbsent(c, g)
        PROVE  /\ pc'[c] = "gc_sweep" /\ pc[c] = "gc_sweep"
               /\ \A h \in Hash : Open(gc'[c].row, h)
    <3>1. /\ pc'[c] = "gc_sweep" /\ pc[c] = "gc_sweep" /\ g \in gc[c].absent
          /\ gc'[c].row = [gc[c].row EXCEPT ![g] = "none"]
      BY <2>7 DEF GcSweepAbsent, SetGc, Tx, TypeOK
    <3>2. g \in Swept(row, ref) /\ cas[g] = "absent"
      BY <3>1 DEF StoreInv, GcInv, GcPcs
    <3>3. gc[c].row \in [Hash -> RowState]
      BY DEF TypeOK, GcRecord
    <3>4. \A h \in Hash : Open(gc[c].row, h)
      BY <3>1 DEF PlanInv
    <3>. QED
      BY <3>1, <3>2, <3>3, <3>4
  <2>8. ASSUME NEW g \in Hash, GcUnlink(c, g)
        PROVE  /\ pc'[c] = "gc_sync" /\ pc[c] = "gc_sweep"
               /\ gc'[c].row = gc[c].row
    BY <2>8 DEF GcUnlink, SetGc, Tx, TypeOK
  <2>9. CASE \/ GcAbort(c) \/ GcSwept(c)
             \/ pc'[c] = pc[c] /\ gc'[c] = gc[c]
    <3>1. gc'[c] = gc[c]
      BY <2>9 DEF GcAbort, GcSwept, locals
    <3>2. pc'[c] = "gc_mark" => pc[c] = "gc_mark"
      BY <2>9 DEF GcAbort, GcSwept, TypeOK
    <3>3. pc'[c] \in {"gc_sweep", "gc_sync", "gc_commit"} =>
            pc[c] \in {"gc_sweep", "gc_sync", "gc_commit"}
      BY <2>9 DEF GcAbort, GcSwept, TypeOK, PlanInv, GcPcs
    <3>. QED
      BY <2>2, <2>3, <2>4, <3>1, <3>2, <3>3 DEF PlanInv
  <2>10. CASE \E h \in Hash : GcSweepAbsent(c, h)
    BY <2>2, <2>3, <2>4, <2>7, <2>10
  <2>11. CASE \E h \in Hash : GcUnlink(c, h)
    BY <2>2, <2>3, <2>4, <2>8, <2>11 DEF PlanInv
  <2>12. CASE GcPlan(c)
    BY <1>1, <2>12
  <2>. QED
    BY <2>5, <2>6, <2>9, <2>10, <2>11, <2>12, CollectorSteps
<1>. QED
  BY <1>1, <1>2, CollectorSteps
     DEF GcMark, GcStageSweep, GcAbort, GcSwept, GcUnlink, GcSweepAbsent, GcPcs

-----------------------------------------------------------------------------
(* The steps that the archive sees. *)

(* An import's hard link keeps a content, or finds its file already there.  *)
LEMMA LinkKeeps ==
  ASSUME TypeOK, StoreInv, NEW c \in Proc, NEW p \in Path, Link(c, p)
  PROVE  [A!Next]_(A!vars)
<1> DEFINE h == job[c][p].hash
<1>1. /\ h \in Hash
      /\ cas' = [cas EXCEPT ![h] = IF @ = "absent" THEN "intact" ELSE @]
      /\ UNCHANGED <<row, ref, damaged>>
  BY DEF Link, StoreInv, IngestInv, catalog
<1>2. CASE cas[h] = "absent"
  <2>1. A!Keep(h)
    BY <1>1, <1>2 DEF TypeOK, A!Keep, File
  <2>. QED
    BY <1>1, <2>1 DEF A!Next
<1>3. CASE cas[h] # "absent"
  <2>1. UNCHANGED cas
    BY <1>1, <1>3 DEF TypeOK
  <2>. QED
    BY <1>1, <2>1 DEF A!vars
<1>. QED
  BY <1>2, <1>3

(* A collection's unlink discards a content that an earlier collection      *)
(* marked and nothing refers to.                                            *)
LEMMA UnlinkDiscards ==
  ASSUME TypeOK, StoreInv, NEW c \in Proc, NEW h \in Hash, GcUnlink(c, h)
  PROVE  A!Next
<1>1. /\ h \in Swept(row, ref) /\ cas[h] \in {"intact", "corrupt"}
      /\ cas' = [cas EXCEPT ![h] = "absent"]
      /\ UNCHANGED <<row, ref, damaged>>
  BY DEF GcUnlink, SameIdentity, StoreInv, GcInv, GcPcs, catalog
<1>2. A!Discard(h)
  BY <1>1 DEF TypeOK, A!Discard, A!InState, A!Unreferenced, A!Referenced, Swept,
         Referenced, File
<1>. QED
  BY <1>2 DEF A!Next

(* Damage from outside is the archive's damage.                             *)
LEMMA DamageDamages ==
  ASSUME TypeOK, NEW h \in Hash, Damage(h)
  PROVE  A!Next
<1>1. PICK b \in Blob \ {"intact"} : cas' = [cas EXCEPT ![h] = b]
  BY DEF Damage
<1>2. File(b) \in {"absent", "bad"} /\ File(cas[h]) # "absent"
  BY DEF TypeOK, Damage, Blob, File
<1>3. [g \in Hash |-> File(cas[g])]' = [[g \in Hash |-> File(cas[g])] EXCEPT ![h] = File(b)]
  BY <1>1 DEF TypeOK
<1>4. A!Damage(h)
  BY <1>2, <1>3 DEF A!Damage, Damage, catalog
<1>. QED
  BY <1>4 DEF A!Next

(* The commit of a batch records paths with contents that are kept: the     *)
(* blob of a record request was installed before the request was sent, that *)
(* of a repeat observation is the committed one.                            *)
LEMMA CommitRecords ==
  ASSUME TypeOK, StoreInv, NEW c \in Proc, NEW batch \in SUBSET Path,
         CommitBatch(c, batch)
  PROVE  A!Next
<1> DEFINE content == [p \in batch |-> job[c][p].hash]
<1>1. ASSUME NEW p \in batch
      PROVE  p \in Path /\ job[c][p].hash \in Hash /\ Backed(job[c][p].hash)
  <2>1. p \in Path /\ job[c][p].st \in {"queued", "skip"}
    BY DEF CommitBatch, Submitted
  <2>2. CASE job[c][p].st = "queued"
    BY <2>1, <2>2 DEF StoreInv, IngestInv
  <2>3. CASE job[c][p].st = "skip"
    BY <2>1, <2>3, NoneAssumption DEF StoreInv, IngestInv, CatalogBacked, Backed
  <2>. QED
    BY <2>1, <2>2, <2>3
<1>2. content \in [batch -> Hash]
  BY <1>1
<1>3. \A h \in {content[p] : p \in DOMAIN content} \ damaged :
        [g \in Hash |-> File(cas[g])][h] = "good"
  BY <1>1 DEF Backed, File
<1>4. /\ row' = [h \in Hash |->
                   IF h \in {content[p] : p \in DOMAIN content} THEN "live" ELSE row[h]]
      /\ ref' = [p \in Path |-> IF p \in DOMAIN content THEN content[p] ELSE ref[p]]
      /\ UNCHANGED <<cas, damaged>>
  <2>1. \A h \in Hash : (h \in {content[p] : p \in DOMAIN content})
                          <=> \E p \in batch : job[c][p].hash = h
    OBVIOUS
  <2>. QED
    BY <2>1 DEF CommitBatch, disk
<1>5. A!Record(content)
  BY <1>3, <1>4 DEF A!Record
<1>. QED
  BY <1>2, <1>5 DEF A!Next

(* The commit of a collection, prepared from a plan read earlier, is right  *)
(* about the catalog and the files at the moment it happens.                *)
LEMMA CommitCollects ==
  ASSUME TypeOK, PlanInv, NEW c \in Proc, GcCommit(c)
  PROVE  A!Next
<1> DEFINE forgotten == {h \in Swept(row, ref) : gc[c].row[h] = "none"}
<1>1. /\ pc[c] = "gc_commit" /\ row' = gc[c].row
      /\ UNCHANGED <<cas, ref, damaged>>
  BY DEF GcCommit, disk
<1>2. forgotten \in SUBSET Hash
  BY DEF Swept
<1>3. ASSUME NEW h \in forgotten PROVE File(cas[h]) = "absent" /\ cas[h] = "absent"
  <2>1. h \in Hash /\ row[h] = "marked" /\ ~Referenced(ref, h)
    BY DEF Swept
  <2>2. PlannedRow[h] = "marked"
    BY <2>1 DEF PlannedRow, Marked, Resurrected
  <2>. QED
    BY <1>1, <2>1, <2>2 DEF PlanInv, File
<1>4. forgotten \subseteq A!InState("marked") \cap A!Unreferenced
  BY DEF Swept, Referenced, A!InState, A!Unreferenced, A!Referenced
<1>5. ASSUME NEW h \in Hash
      PROVE  gc[c].row[h] =
               CASE h \in forgotten -> "none"
                 [] h \in A!InState("live") \cap A!Unreferenced -> "marked"
                 [] h \in A!InState("marked") \ A!Unreferenced -> "live"
                 [] OTHER -> row[h]
  <2>1. /\ h \in A!InState("live") \cap A!Unreferenced <=> h \in Marked(row, ref)
        /\ h \in A!InState("marked") \ A!Unreferenced <=> h \in Resurrected(row, ref)
    BY DEF A!InState, A!Unreferenced, A!Referenced, Marked, Resurrected, Referenced
  <2>2. CASE h \in forgotten
    <3>1. /\ h \notin A!InState("live") \cap A!Unreferenced
          /\ h \notin A!InState("marked") \ A!Unreferenced
      BY <1>4, <2>2 DEF A!InState
    <3>2. gc[c].row[h] = "none"
      BY <2>2
    <3>. QED
      BY <2>2, <3>1, <3>2
  <2>3. CASE h \notin forgotten
    <3>1. gc[c].row[h] = PlannedRow[h]
      BY <1>1, <2>3 DEF PlanInv
    <3>2. gc[c].row[h] = IF h \in Marked(row, ref) THEN "marked"
                         ELSE IF h \in Resurrected(row, ref) THEN "live" ELSE row[h]
      BY <3>1 DEF PlannedRow, Marked, Resurrected
    <3>3. ~(h \in Marked(row, ref) /\ h \in Resurrected(row, ref))
      BY DEF Marked, Resurrected
    <3>. QED
      BY <2>1, <2>3, <3>2, <3>3
  <2>. QED
    BY <2>2, <2>3
<1>6. gc[c].row \in [Hash -> RowState]
  BY DEF TypeOK, GcRecord
<1>7. row' = [h \in Hash |->
                CASE h \in forgotten -> "none"
                  [] h \in A!InState("live") \cap A!Unreferenced -> "marked"
                  [] h \in A!InState("marked") \ A!Unreferenced -> "live"
                  [] OTHER -> row[h]]
  BY <1>1, <1>5, <1>6
<1>8. \A h \in forgotten : [g \in Hash |-> File(cas[g])][h] = "absent"
  BY <1>2, <1>3
<1>9. A!Collect(forgotten)
  BY <1>1, <1>4, <1>7, <1>8 DEF A!Collect
<1>. QED
  BY <1>2, <1>9 DEF A!Next

(* Refinement: whatever commands run and wherever they are killed, the      *)
(* store takes only the archive's steps, so that what is kept, recorded,    *)
(* marked, discarded and forgotten follows the archive's order.             *)
THEOREM StoreImplementsArchive == Spec => ImplementsArchive
<1>1. Init => A!Init
  BY DEF Init, A!Init, File
<1>2. Init => PlanInv
  BY DEF Init, PlanInv
<1>3. TypeOK /\ StoreInv /\ PlanInv /\ [Next]_vars => [A!Next]_(A!vars)
  <2> SUFFICES ASSUME TypeOK, StoreInv, PlanInv, [Next]_vars
               PROVE  [A!Next]_(A!vars)
    OBVIOUS
  <2>1. CASE \E c \in Proc, p \in Path : Link(c, p)
    BY <2>1, LinkKeeps
  <2>2. CASE \E c \in Proc, h \in Hash : GcUnlink(c, h)
    BY <2>2, UnlinkDiscards
  <2>3. CASE \E h \in Hash : Damage(h)
    BY <2>3, DamageDamages
  <2>4. CASE \E c \in Proc, batch \in SUBSET Path : CommitBatch(c, batch)
    BY <2>4, CommitRecords
  <2>5. CASE \E c \in Proc : GcCommit(c)
    BY <2>5, CommitCollects
  <2>6. CASE UNCHANGED <<cas, damaged>> /\ UNCHANGED <<row, ref>>
    BY <2>6 DEF A!vars
  <2>. QED
    BY <2>1, <2>2, <2>3, <2>4, <2>5, <2>6, CasChanges, RowChanges
<1>. QED
  BY <1>1, <1>2, <1>3, StoreCorrect, PlanStep, PTL DEF Spec, ImplementsArchive, A!Spec
=============================================================================
