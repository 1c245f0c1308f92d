------------------------------- MODULE PowerLoss -------------------------------
(***************************************************************************)
(* What survives a power loss.  MediaStore looks at the store through the  *)
(* operating system's eyes; here every blob and every commit also has a    *)
(* durable side.                                                           *)
(*                                                                         *)
(*  - Imports write and link blobs without syncing anything.  The system   *)
(*    writes them back when it likes, the name possibly before the bytes.  *)
(*    A name that was unlinked and linked again is a new file: that the    *)
(*    old one was on the disk says nothing of the new one.                 *)
(*  - The catalog is a WAL database with synchronous = NORMAL and no       *)
(*    automatic checkpoints: a commit is not synced, a checkpoint syncs    *)
(*    every commit before it, and recovery finds a prefix of the commits.  *)
(*  - A collection syncs the directory of each blob it unlinks before it   *)
(*    stages the removal of the row.                                       *)
(*                                                                         *)
(* One command runs at a time (the run lock) and may be killed at any      *)
(* step.  The parts of a command between two of its durable effects are    *)
(* one action.                                                             *)
(***************************************************************************)
EXTENDS Naturals, Sequences, FiniteSets, SequencesExt

CONSTANTS
  Hash,        \* contents
  Path,        \* source files
  None,        \* no content
  MaxUnsynced  \* bound: commits since the last checkpoint

ASSUME NoneAssumption == None \notin Hash
ASSUME UnsyncedAssumption == MaxUnsynced \in Nat \ {0}

VARIABLES
  cas,     \* the CAS as running programs see it
  disk,    \* the CAS as a power loss would leave it
  settled, \* names whose present file, or absence, is on the disk for good
  log,     \* catalogs a power loss may leave: the last one that is synced,
           \* then one for every later commit; the newest is the current one
  pc,      \* where the running command is
  cur,     \* the source file and the content in hand
  tx,      \* the collection's open transaction
  sweeps   \* its sweep candidates not yet handled

vars == <<cas, disk, settled, log, pc, cur, tx, sweeps>>
locals == <<cur, tx, sweeps>>

(* A file whose bytes never arrived is zeroed when it has its size, torn   *)
(* when it has not.                                                        *)
Blob == {"absent", "intact", "zeroed", "torn"}
Catalog == [row : [Hash -> {"none", "live", "marked"}], ref : [Path -> Hash \cup {None}]]

Current == Last(log)
Referenced(c, h) == \E p \in Path : c.ref[p] = h
Empty == [row |-> [h \in Hash |-> "none"], ref |-> [p \in Path |-> None]]
AnyPath == CHOOSE p \in Path : TRUE

Init ==
  /\ cas = [h \in Hash |-> "absent"] /\ disk = cas /\ settled = Hash
  /\ log = <<Empty>> /\ pc = "idle"
  /\ cur = [path |-> AnyPath, hash |-> None]
  /\ tx = Empty /\ sweeps = {}

-----------------------------------------------------------------------------
(* import *)

(* A file is staged, hashed and linked; a name that is there already is    *)
(* reused if its size is right.                                            *)
Install(p, h) ==
  /\ pc \in {"idle", "import"}
  /\ cas[h] # "torn"
  /\ cas' = [cas EXCEPT ![h] = IF @ = "absent" THEN "intact" ELSE @]
  /\ settled' = settled \ {g \in {h} : cas[g] = "absent"}
  /\ cur' = [path |-> p, hash |-> h] /\ pc' = "installed"
  /\ UNCHANGED <<disk, log, tx, sweeps>>

(* Its batch commits: the blob is live, the source file points to it. *)
Record ==
  /\ pc = "installed" /\ Len(log) <= MaxUnsynced
  /\ log' = Append(log, [row |-> [Current.row EXCEPT ![cur.hash] = "live"],
                         ref |-> [Current.ref EXCEPT ![cur.path] = cur.hash]])
  /\ pc' = "import"
  /\ UNCHANGED <<cas, disk, settled, locals>>

-----------------------------------------------------------------------------
(* gc *)

Sweepable(c) == {h \in Hash : c.row[h] = "marked" /\ ~Referenced(c, h)}

(* The preflight's findings: orphans, missing blobs, wrong sizes, sweep    *)
(* candidates that do not have their hash.                                 *)
Findings(c) ==
  {h \in Hash : c.row[h] = "none" /\ cas[h] # "absent"}
    \cup ({h \in Hash : c.row[h] # "none" /\ cas[h] = "absent"} \ Sweepable(c))
    \cup {h \in Hash : c.row[h] # "none" /\ cas[h] = "torn"}
    \cup {h \in Sweepable(c) : cas[h] = "zeroed"}

(* Marks and resurrections, staged in the transaction. *)
Replanned(c) ==
  [c EXCEPT !.row = [h \in Hash |->
    CASE c.row[h] = "live" /\ ~Referenced(c, h) -> "marked"
      [] c.row[h] = "marked" /\ Referenced(c, h) -> "live"
      [] OTHER -> c.row[h]]]

(* Variant: a collection sweeps whatever has a row. *)
CollectMarked ==
  /\ pc = "idle" /\ Findings(Current) = {}
  /\ tx' = Replanned(Current)
  /\ sweeps' = {h \in Hash : Current.row[h] # "none"}
  /\ pc' = "gc"
  /\ UNCHANGED <<cas, disk, settled, log, cur>>

Collect ==
  /\ pc = "idle" /\ Findings(Current) = {}
  /\ tx' = Replanned(Current) /\ sweeps' = Sweepable(Current)
  /\ pc' = "gc"
  /\ UNCHANGED <<cas, disk, settled, log, cur>>

StageSweep(h) ==
  /\ tx' = [tx EXCEPT !.row[h] = "none"]
  /\ sweeps' = sweeps \ {h}
  /\ pc' = "gc"

Unlink(h) ==
  /\ pc = "gc" /\ h \in sweeps /\ cas[h] # "absent"
  /\ cas' = [cas EXCEPT ![h] = "absent"] /\ settled' = settled \ {h}
  /\ cur' = [cur EXCEPT !.hash = h] /\ pc' = "gc_sync"
  /\ UNCHANGED <<disk, log, tx, sweeps>>

(* Variant: the directory is not synced. *)
SyncParentSkipped ==
  /\ pc = "gc_sync"
  /\ StageSweep(cur.hash)
  /\ UNCHANGED <<cas, disk, settled, log, cur>>

(* sync_present_parent, then stage_sweep. *)
SyncParent ==
  /\ pc = "gc_sync"
  /\ disk' = [disk EXCEPT ![cur.hash] = "absent"] /\ settled' = settled \cup {cur.hash}
  /\ StageSweep(cur.hash)
  /\ UNCHANGED <<cas, log, cur>>

(* The sync fails: what is staged is committed, this row stays. *)
SyncFails ==
  /\ pc = "gc_sync"
  /\ sweeps' = {} /\ pc' = "gc"
  /\ UNCHANGED <<cas, disk, settled, log, cur, tx>>

(* An interrupted sweep: sync_absent, then stage_sweep. *)
FinishSweep(h) ==
  /\ pc = "gc" /\ h \in sweeps /\ cas[h] = "absent"
  /\ disk' = [disk EXCEPT ![h] = "absent"] /\ settled' = settled \cup {h}
  /\ StageSweep(h)
  /\ UNCHANGED <<cas, log, cur>>

CommitGc ==
  /\ pc = "gc" /\ sweeps = {} /\ Len(log) <= MaxUnsynced
  /\ log' = Append(log, tx) /\ pc' = "gc_committed"
  /\ UNCHANGED <<cas, disk, settled, locals>>

-----------------------------------------------------------------------------
(* Both *)

(* The passive checkpoint at shutdown, and after every eighth batch. *)
Checkpoint ==
  /\ pc \in {"import", "gc_committed"}
  /\ log' = <<Current>> /\ pc' = "idle"
  /\ UNCHANGED <<cas, disk, settled, locals>>

(* The process is killed, or its checkpoint fails. *)
Kill ==
  /\ pc # "idle" /\ pc' = "idle"
  /\ UNCHANGED <<cas, disk, settled, log, locals>>

(* The system writes back what it likes of a name that has changed.  Until *)
(* all of it is written the disk may still hold the file that had the name *)
(* before, or hold no file, or the new file without its bytes.             *)
WriteBack(h) ==
  /\ h \notin settled
  /\ \E b \in IF cas[h] = "absent" THEN {"absent"} ELSE Blob :
       /\ disk' = [disk EXCEPT ![h] = b]
       /\ settled' = settled \cup {g \in {h} : b = cas[g]}
  /\ UNCHANGED <<cas, log, pc, locals>>

(* The power fails: the machine comes back with what is on its disk and a  *)
(* prefix of the commits.                                                  *)
Fail ==
  /\ \E i \in DOMAIN log : log' = <<log[i]>>
  /\ cas' = disk /\ settled' = Hash /\ pc' = "idle"
  /\ UNCHANGED <<disk, locals>>

Next ==
  \/ \E p \in Path, h \in Hash : Install(p, h)
  \/ Record \/ Collect \/ SyncParent \/ SyncFails \/ CommitGc
  \/ \E h \in Hash : Unlink(h) \/ FinishSweep(h) \/ WriteBack(h)
  \/ Checkpoint \/ Kill \/ Fail

Spec == Init /\ [][Next]_vars

-----------------------------------------------------------------------------
(* Properties. *)

(* Both sides of the store and the log of commits keep their types. *)
TypeOK ==
  /\ cas \in [Hash -> Blob] /\ disk \in [Hash -> Blob] /\ settled \subseteq Hash
  /\ log \in Seq(Catalog) /\ Len(log) \in 1 .. MaxUnsynced + 1
  /\ pc \in {"idle", "import", "installed", "gc", "gc_sync", "gc_committed"}
  /\ cur \in [path : Path \cup {AnyPath}, hash : Hash \cup {None}]
  /\ pc = "installed" => cur \in [path : Path, hash : Hash]
  /\ tx \in Catalog /\ sweeps \subseteq Hash

(* "GC removes and directory-syncs a blob before deleting its catalog      *)
(* row": once the removal of a swept blob's row is committed, synced or    *)
(* not, no power loss brings the file back as an orphan.                   *)
SweptStaysSwept ==
  \A h \in Hash : cas[h] = "absent" /\ Current.row[h] = "none" => disk[h] = "absent"

(* A content is safe when the file that has its name now is on the disk,   *)
(* bytes and all, and every catalog that a power loss could leave points   *)
(* to it.                                                                  *)
Safe(h) ==
  h \in settled /\ disk[h] = "intact" /\ \A i \in DOMAIN log : Referenced(log[i], h)

(* A safe content stops being safe only by a commit that points its source *)
(* files elsewhere: no collection, kill or power loss, in any order, takes *)
(* it away.                                                                *)
SafeStaysSafe == [][\A h \in Hash : Safe(h) /\ ~Safe(h)' => ~Referenced(Current', h)]_vars

(* "If interrupted between those steps, a later run recognizes a           *)
(* previously marked, unreachable, already-absent blob": from the sync of  *)
(* a swept blob's directory to the commit of its row's removal, the next   *)
(* collection may sweep it whichever catalog a power loss leaves.  Not an  *)
(* invariant: the mark may be in an unsynced commit.                       *)
InterruptedSweepRecognised ==
  \A h \in Hash : pc = "gc" /\ tx.row[h] = "none" =>
    \A i \in DOMAIN log : log[i].row[h] = "none" \/ h \in Sweepable(log[i])
================================================================================
