----------------------------- MODULE ImportReport -----------------------------
(***************************************************************************)
(* The accounting of an import, and of the dry run before it.              *)
(*                                                                         *)
(* `import --dry-run' walks the source alone and writes nothing; it        *)
(* predicts every counter of the report.  The import that follows has a    *)
(* coordinator that scans, workers that install blobs in any order, and a  *)
(* catalog writer that commits batches; three threads of activity bump the *)
(* counters of one report.  The source does not change between or during   *)
(* the two.                                                                *)
(*                                                                         *)
(* Queues, capacities and failures of single threads are ImportExecutor's  *)
(* and CatalogWriter's.  A blob that has its size and not its content is   *)
(* handled here as an intact one.                                          *)
(***************************************************************************)
EXTENDS Naturals, FiniteSets, FiniteSetsExt

CONSTANTS
  Path,          \* files of the source tree
  Hash,          \* contents
  None,          \* no content
  Size,          \* bytes of each content
  MetadataSkip   \* whether unchanged files may be skipped

ASSUME NoneAssumption == None \notin Hash
ASSUME PathAssumption == IsFiniteSet(Path)
ASSUME SizeAssumption == Size \in [Hash -> Nat]
ASSUME SkipAssumption == MetadataSkip \in BOOLEAN

VARIABLES
  content,   \* what each source file holds
  fresh,     \* files whose recorded size and modification time are the file's
  cas,       \* what the CAS name of each content holds
  rec,       \* committed source rows
  before,    \* the CAS and the source rows when the import began
  dry,       \* the dry run: files not yet scanned, contents it planned to
             \* create, its outcome and its report
  job,       \* the import: where each file is
  outcome,   \* its outcome
  report     \* its report

inputs == <<content, fresh, before>>
vars == <<inputs, cas, rec, dry, job, outcome, report>>

Counter == {"files_seen", "bytes_seen", "files_skipped", "bytes_skipped",
            "files_hashed", "bytes_hashed", "blobs_created", "blobs_reused",
            "bytes_written", "source_records_inserted", "source_records_updated"}
Zero == [c \in Counter |-> 0]

(* A report with some of its counters raised. *)
Plus(r, d) == [c \in Counter |-> r[c] + IF c \in DOMAIN d THEN d[c] ELSE 0]

Bytes(p) == Size[content[p]]
report_observed_file(r, p) == Plus(r, [files_seen |-> 1, bytes_seen |-> Bytes(p)])
report_hashed(r, p) == Plus(r, [files_hashed |-> 1, bytes_hashed |-> Bytes(p)])
report_skipped(r, p) ==
  Plus(r, [files_skipped |-> 1, bytes_skipped |-> Bytes(p),
           blobs_reused |-> 1, source_records_updated |-> 1])
report_store_outcome(r, o, p) ==
  IF o = "created" THEN Plus(r, [blobs_created |-> 1, bytes_written |-> Bytes(p)])
                   ELSE Plus(r, [blobs_reused |-> 1])
report_source_outcome(r, o) ==
  IF o = "inserted" THEN Plus(r, [source_records_inserted |-> 1])
                    ELSE Plus(r, [source_records_updated |-> 1])

(* Any source, any catalog that earlier imports of it may have left, any   *)
(* damage or orphan in the CAS.                                            *)
Init ==
  /\ content \in [Path -> Hash]
  /\ rec \in [Path -> Hash \cup {None}]
  /\ fresh \in SUBSET {p \in Path : rec[p] = content[p]}
  /\ cas \in [Hash -> {"absent", "intact", "resized"}]
  /\ before = [cas |-> cas, rec |-> rec]
  /\ dry = [todo |-> Path, planned |-> {}, outcome |-> "running", report |-> Zero]
  /\ job = [p \in Path |-> "todo"]
  /\ outcome = "running" /\ report = Zero

(* The row's metadata agrees, and its blob is there and has its size. *)
Skips(p) == MetadataSkip /\ p \in fresh /\ cas[rec[p]] = "intact"

source_observation_outcome(p) == IF rec[p] = None THEN "inserted" ELSE "updated"

-----------------------------------------------------------------------------
(* import --dry-run *)

(* Variant: earlier files of the dry run are not remembered. *)
PlannedOutcomeForgetful(h) == IF cas[h] = "absent" THEN "created" ELSE "reused"

(* A content planned by an earlier file would be reused. *)
PlannedOutcome(h) ==
  IF cas[h] = "absent" /\ h \notin dry.planned THEN "created" ELSE "reused"

DryFile(p) ==
  LET seen == report_observed_file(dry.report, p)
      h == content[p]
      hashed == report_store_outcome(report_hashed(seen, p), PlannedOutcome(h), p) IN
  /\ dry.outcome = "running" /\ p \in dry.todo
  /\ dry' =
       CASE Skips(p) ->
              [dry EXCEPT !.todo = @ \ {p}, !.report = report_skipped(seen, p)]
         [] ~Skips(p) /\ cas[h] = "resized" -> [dry EXCEPT !.outcome = "failed"]
         [] OTHER ->
              [dry EXCEPT !.todo = @ \ {p},
                          !.planned = IF cas[h] = "absent" THEN @ \cup {h} ELSE @,
                          !.report = report_source_outcome(hashed,
                                       source_observation_outcome(p))]
  /\ UNCHANGED <<inputs, cas, rec, job, outcome, report>>

DryEnd ==
  /\ dry.outcome = "running" /\ dry.todo = {}
  /\ dry' = [dry EXCEPT !.outcome = "ok"]
  /\ UNCHANGED <<inputs, cas, rec, job, outcome, report>>

-----------------------------------------------------------------------------
(* import: the lock keeps the two apart. *)

Importing == dry.outcome # "running" /\ outcome = "running"
Moved(p, st) == job' = [job EXCEPT ![p] = st]

Scan(p) ==
  LET seen == report_observed_file(report, p) IN
  /\ Importing /\ job[p] = "todo"
  /\ Moved(p, IF Skips(p) THEN "known" ELSE "pending")
  /\ report' = IF Skips(p) THEN report_skipped(seen, p) ELSE seen
  /\ UNCHANGED <<inputs, cas, rec, dry, outcome>>

(* Variant: the blob is renamed into place. *)
InstallReplacing(p) ==
  LET h == content[p] IN
  /\ Importing /\ job[p] = "pending"
  /\ Moved(p, "created")
  /\ cas' = [cas EXCEPT ![h] = "intact"]
  /\ UNCHANGED <<inputs, rec, dry, outcome, report>>

(* A worker: only one of several with the same content makes the link. *)
Install(p) ==
  LET h == content[p] IN
  /\ Importing /\ job[p] = "pending"
  /\ Moved(p, CASE cas[h] = "absent" -> "created"
                [] cas[h] = "intact" -> "reused"
                [] cas[h] = "resized" -> "bad")
  /\ cas' = [cas EXCEPT ![h] = IF @ = "absent" THEN "intact" ELSE @]
  /\ UNCHANGED <<inputs, rec, dry, outcome, report>>

Complete(p) ==
  /\ Importing /\ job[p] \in {"created", "reused"}
  /\ Moved(p, "submitted")
  /\ report' = report_store_outcome(report_hashed(report, p), job[p], p)
  /\ UNCHANGED <<inputs, cas, rec, dry, outcome>>

(* The writer commits a batch; each request learns what it did. *)
Commit(batch) ==
  /\ Importing /\ batch # {}
  /\ \A p \in batch : job[p] \in {"submitted", "known"}
  /\ rec' = [p \in Path |-> IF p \in batch THEN content[p] ELSE rec[p]]
  /\ job' = [p \in Path |->
       CASE p \notin batch -> job[p]
         [] p \in batch /\ job[p] = "known" -> "done"
         [] OTHER -> source_observation_outcome(p)]
  /\ UNCHANGED <<inputs, cas, dry, outcome, report>>

Resolve(p) ==
  /\ Importing /\ job[p] \in {"inserted", "updated"}
  /\ Moved(p, "done")
  /\ report' = report_source_outcome(report, job[p])
  /\ UNCHANGED <<inputs, cas, rec, dry, outcome>>

(* The first failure, a blob of the wrong size among them, ends the import *)
(* without a report.                                                       *)
Abort ==
  /\ Importing
  /\ outcome' = "failed"
  /\ UNCHANGED <<inputs, cas, rec, dry, job, report>>

Finish ==
  /\ Importing /\ \A p \in Path : job[p] = "done"
  /\ outcome' = "ok"
  /\ UNCHANGED <<inputs, cas, rec, dry, job, report>>

Ended == outcome # "running" /\ UNCHANGED vars

Next ==
  \/ \E p \in Path : DryFile(p) \/ Scan(p) \/ Install(p) \/ Complete(p) \/ Resolve(p)
  \/ \E batch \in SUBSET Path : Commit(batch)
  \/ DryEnd \/ Abort \/ Finish \/ Ended

Spec == Init /\ [][Next]_vars

-----------------------------------------------------------------------------
(* Properties. *)

Total(ps) == MapThenSumSet(Bytes, ps)

(* No counter exceeds what the source holds. *)
TypeOK ==
  /\ cas \in [Hash -> {"absent", "intact", "resized"}]
  /\ rec \in [Path -> Hash \cup {None}]
  /\ job \in [Path -> {"todo", "pending", "known", "created", "reused", "bad",
                       "submitted", "inserted", "updated", "done"}]
  /\ \A r \in {report, dry.report} : \A c \in Counter :
       r[c] \in 0 .. Cardinality(Path) + Total(Path)

Installed == {h \in Hash : before.cas[h] = "absent" /\ cas[h] = "intact"}

(* What a successful import reports is what it did to the store, however   *)
(* its workers raced: as many blobs created as there are new files, as     *)
(* many bytes written as they hold, one source row per file, inserted if   *)
(* there was none, and every file accounted for once on each side.         *)
ReportMatchesStore ==
  outcome = "ok" =>
    /\ report["blobs_created"] = Cardinality(Installed)
    /\ report["bytes_written"] = MapThenSumSet(LAMBDA h : Size[h], Installed)
    /\ report["source_records_inserted"] =
         Cardinality({p \in Path : before.rec[p] = None /\ rec[p] # None})
    /\ report["source_records_inserted"] + report["source_records_updated"] = Cardinality(Path)
    /\ report["blobs_created"] + report["blobs_reused"] = Cardinality(Path)
    /\ report["files_skipped"] + report["files_hashed"] = report["files_seen"]
    /\ report["bytes_skipped"] + report["bytes_hashed"] = report["bytes_seen"]

(* The counters that depend on which thread is faster. *)
ReadCounter == {"files_skipped", "bytes_skipped", "files_hashed", "bytes_hashed"}

(* A dry run predicts the import that follows it: an import succeeds only  *)
(* if the dry run did, then with the same counters, those of the reads     *)
(* aside; and of those it never reads more than the dry run.               *)
PredictionHolds ==
  outcome = "ok" =>
    /\ dry.outcome = "ok"
    /\ \A c \in Counter \ ReadCounter : report[c] = dry.report[c]
    /\ report["files_hashed"] <= dry.report["files_hashed"]

(* "Persisted correctness and final aggregate counters must be             *)
(* deterministic for a stable source snapshot": all of them, so the one    *)
(* order of the dry run and every order of the import agree on them.  Not  *)
(* an invariant: a blob may be installed for one file before or after the  *)
(* scanner looks for it on behalf of another.                              *)
CountersDeterministic == outcome = "ok" => report = dry.report
=============================================================================
