---------------------------- MODULE PowerLossProofs ----------------------------
(***************************************************************************)
(* Proofs about PowerLoss, for any sets of contents and source files and   *)
(* any number of unsynced commits.  The inductive invariant relates the    *)
(* two sides of the store: where the running system and the disk disagree  *)
(* about a blob, and what the collection in progress may still do.         *)
(***************************************************************************)
EXTENDS PowerLoss, TLAPS

(* What is settled is the same on both sides; a blob that a power loss left *)
(* without its bytes is; a file that is gone but may still be on the disk   *)
(* has a row and no reference.                                              *)
DiskInv ==
  \A h \in Hash :
    /\ h \in settled => disk[h] = cas[h]
    /\ cas[h] \in {"zeroed", "torn"} => h \in settled
    /\ cas[h] = "absent" /\ h \notin settled =>
         Current.row[h] # "none" /\ ~Referenced(Current, h)

(* An import in hand has its blob; a collection changes no reference, may   *)
(* sweep only what the current catalog lets it, and a row it has removed    *)
(* has no file, for good.                                                   *)
CommandInv ==
  /\ pc = "installed" => cas[cur.hash] # "absent"
  /\ pc = "gc_sync" => cur.hash \in Sweepable(Current) /\ cas[cur.hash] = "absent"
  /\ pc \in {"gc", "gc_sync"} =>
       /\ tx.ref = Current.ref
       /\ sweeps \subseteq Sweepable(Current)
       /\ \A h \in sweeps : tx.row[h] = "marked"
       /\ \A h \in Hash : tx.row[h] = "none" /\ cas[h] = "absent" => h \in settled

PowerInv == TypeOK /\ DiskInv /\ CommandInv

-----------------------------------------------------------------------------
(* The log of commits. *)

(* The newest catalog after a commit is the one committed.                  *)
LEMMA CommitIsCurrent ==
  ASSUME NEW s \in Seq(Catalog), NEW c \in Catalog
  PROVE  /\ Append(s, c) \in Seq(Catalog) /\ Len(Append(s, c)) = Len(s) + 1
         /\ Last(Append(s, c)) = c
         /\ \A i \in DOMAIN s : i \in DOMAIN Append(s, c) /\ Append(s, c)[i] = s[i]
         /\ \A i \in DOMAIN Append(s, c) : i \in DOMAIN s \/ Append(s, c)[i] = c
  BY DEF Last

(* A log of one catalog, after a checkpoint or a power loss, has that one.  *)
LEMMA SingleIsCurrent ==
  ASSUME NEW c \in Catalog
  PROVE  /\ <<c>> \in Seq(Catalog) /\ Len(<<c>>) = 1 /\ Last(<<c>>) = c
         /\ \A i \in DOMAIN <<c>> : <<c>>[i] = c
  BY DEF Last

(* The current catalog is one of the log's.                                 *)
LEMMA CurrentInLog ==
  ASSUME TypeOK
  PROVE  /\ Current \in Catalog
         /\ \E i \in DOMAIN log : log[i] = Current
         /\ \A i \in DOMAIN log : log[i] \in Catalog
  BY UnsyncedAssumption DEF TypeOK, Current, Last

(* What a commit of an import or of a collection makes of the log.          *)
LEMMA NewCatalogs ==
  ASSUME TypeOK
  PROVE  /\ Record => [row |-> [Current.row EXCEPT ![cur.hash] = "live"],
                       ref |-> [Current.ref EXCEPT ![cur.path] = cur.hash]] \in Catalog
         /\ Replanned(Current) \in Catalog
         /\ \A h \in Hash : [tx EXCEPT !.row[h] = "none"] \in Catalog
<1>1. Current \in Catalog
  BY CurrentInLog
<1>2. Record => cur.path \in Path /\ cur.hash \in Hash
  BY DEF TypeOK, Record
<1>3. Replanned(Current) \in Catalog
  BY <1>1 DEF Catalog, Replanned
<1>. QED
  BY <1>1, <1>2, <1>3 DEF TypeOK, Catalog

-----------------------------------------------------------------------------
(* An empty store satisfies the invariant.                                  *)
LEMMA PowerInit == Init => PowerInv
<1> SUFFICES ASSUME Init PROVE PowerInv
  OBVIOUS
<1>1. Empty \in Catalog
  BY DEF Empty, Catalog
<1>2. log = <<Empty>> /\ log \in Seq(Catalog) /\ Len(log) = 1 /\ Current = Empty
  BY <1>1, SingleIsCurrent DEF Init, Current
<1>. QED
  BY <1>1, <1>2, UnsyncedAssumption DEF Init, PowerInv, TypeOK, DiskInv, CommandInv, Blob

(* Every step, a kill, a write-back and a power loss included, keeps the    *)
(* types.                                                                   *)
LEMMA TypeStep == TypeOK /\ CommandInv /\ [Next]_vars => TypeOK'
<1> SUFFICES ASSUME TypeOK, CommandInv, [Next]_vars PROVE TypeOK'
  OBVIOUS
<1> USE UnsyncedAssumption, CurrentInLog DEF TypeOK, locals
<1>1. ASSUME NEW p \in Path, NEW h \in Hash, Install(p, h) PROVE TypeOK'
  BY <1>1 DEF Install, Blob
<1>2. CASE Record
  BY <1>2, NewCatalogs, CommitIsCurrent DEF Record
<1>3. CASE Collect
  BY <1>3, NewCatalogs DEF Collect, Sweepable
<1>4. CASE SyncParent
  <2>1. cur.hash \in Hash
    BY <1>4 DEF SyncParent, CommandInv, Sweepable
  <2>. QED
    BY <1>4, <2>1, NewCatalogs DEF SyncParent, StageSweep, Blob
<1>5. CASE SyncFails
  BY <1>5 DEF SyncFails
<1>6. CASE CommitGc
  BY <1>6, CommitIsCurrent DEF CommitGc
<1>7. ASSUME NEW h \in Hash, Unlink(h) PROVE TypeOK'
  BY <1>7 DEF Unlink, Blob
<1>8. ASSUME NEW h \in Hash, FinishSweep(h) PROVE TypeOK'
  BY <1>8, NewCatalogs DEF FinishSweep, StageSweep, Blob
<1>9. ASSUME NEW h \in Hash, WriteBack(h) PROVE TypeOK'
  BY <1>9 DEF WriteBack, Blob
<1>10. CASE Checkpoint
  BY <1>10, SingleIsCurrent DEF Checkpoint
<1>11. CASE Kill
  BY <1>11 DEF Kill
<1>12. CASE Fail
  BY <1>12, SingleIsCurrent DEF Fail
<1>13. CASE UNCHANGED vars
  BY <1>13 DEF vars
<1>. QED
  BY <1>1, <1>2, <1>3, <1>4, <1>5, <1>6, <1>7, <1>8, <1>9, <1>10, <1>11, <1>12, <1>13
     DEF Next

(* What each step makes of the current catalog.                             *)
LEMMA CurrentChanges ==
  ASSUME TypeOK, [Next]_vars
  PROVE  \/ log' = log /\ Current' = Current
         \/ /\ Record
            /\ Current' = [row |-> [Current.row EXCEPT ![cur.hash] = "live"],
                           ref |-> [Current.ref EXCEPT ![cur.path] = cur.hash]]
         \/ CommitGc /\ Current' = tx
         \/ Checkpoint /\ Current' = Current
         \/ Fail
<1>1. CASE Record
  BY <1>1, NewCatalogs, CommitIsCurrent DEF Record, Current, TypeOK
<1>2. CASE CommitGc
  BY <1>2, CommitIsCurrent DEF CommitGc, Current, TypeOK
<1>3. CASE Checkpoint
  <2>1. Current' = Last(<<Current>>)
    BY <1>3 DEF Checkpoint, Current
  <2>. QED
    BY <1>3, <2>1, CurrentInLog, SingleIsCurrent
<1>4. CASE log' = log
  BY <1>4 DEF Current
<1>. QED
  BY <1>1, <1>2, <1>3, <1>4 DEF Next, vars, Install, Collect, SyncParent, SyncFails,
         Unlink, FinishSweep, WriteBack, Kill

(* Every step keeps the two sides of the store and the command in progress  *)
(* in agreement.                                                            *)
LEMMA PowerStep == PowerInv /\ [Next]_vars => (DiskInv /\ CommandInv)'
<1> SUFFICES ASSUME PowerInv, [Next]_vars PROVE (DiskInv /\ CommandInv)'
  OBVIOUS
<1>0. TypeOK /\ TypeOK' /\ Current \in Catalog
  BY TypeStep, CurrentInLog DEF PowerInv
<1> USE <1>0 DEF PowerInv, DiskInv, CommandInv, TypeOK, locals
<1>1. ASSUME NEW p \in Path, NEW h \in Hash, Install(p, h) PROVE (DiskInv /\ CommandInv)'
  <2>1. Current' = Current
    BY <1>1 DEF Install, Current
  <2>. QED
    BY <1>1, <2>1 DEF Install
<1>2. CASE Record
  <2>1. /\ Current' = [row |-> [Current.row EXCEPT ![cur.hash] = "live"],
                       ref |-> [Current.ref EXCEPT ![cur.path] = cur.hash]]
        /\ cur.hash \in Hash /\ cur.path \in Path /\ cas[cur.hash] # "absent"
    BY <1>2, NewCatalogs, CommitIsCurrent DEF Record, Current
  <2>2. \A h \in Hash \ {cur.hash} :
          /\ Current'.row[h] = Current.row[h]
          /\ Referenced(Current', h) => Referenced(Current, h)
    BY <2>1 DEF Catalog, Referenced
  <2>. QED
    BY <1>2, <2>1, <2>2 DEF Record
<1>3. CASE Collect
  <2>1. Current' = Current /\ UNCHANGED <<cas, disk, settled>> /\ pc' = "gc"
    BY <1>3 DEF Collect, Current
  <2>2. tx' = Replanned(Current) /\ sweeps' = Sweepable(Current)
    BY <1>3 DEF Collect
  <2>3. /\ Replanned(Current).ref = Current.ref
        /\ \A h \in Sweepable(Current) : Replanned(Current).row[h] = "marked"
        /\ \A h \in Hash : Replanned(Current).row[h] = "none" => Current.row[h] = "none"
    BY DEF Replanned, Catalog, Sweepable
  <2>. QED
    BY <2>1, <2>2, <2>3
<1>4. CASE SyncParent
  <2>1. Current' = Current /\ cas' = cas /\ cur.hash \in Hash /\ pc' = "gc"
    BY <1>4 DEF SyncParent, StageSweep, Current, Sweepable
  <2>2. /\ disk' = [disk EXCEPT ![cur.hash] = "absent"] /\ settled' = settled \cup {cur.hash}
        /\ tx' = [tx EXCEPT !.row[cur.hash] = "none"] /\ sweeps' = sweeps \ {cur.hash}
        /\ cas[cur.hash] = "absent"
    BY <1>4 DEF SyncParent, StageSweep
  <2>3. /\ tx'.ref = tx.ref
        /\ \A h \in Hash \ {cur.hash} : tx'.row[h] = tx.row[h]
    BY <2>2 DEF Catalog
  <2>. QED
    BY <1>4, <2>1, <2>2, <2>3 DEF SyncParent, Sweepable
<1>5. CASE SyncFails
  <2>1. Current' = Current
    BY <1>5 DEF SyncFails, Current
  <2>. QED
    BY <1>5, <2>1 DEF SyncFails
<1>6. CASE CommitGc
  <2>1. Current' = tx /\ pc = "gc" /\ tx.ref = Current.ref
    BY <1>6, CommitIsCurrent DEF CommitGc, Current
  <2>2. \A h \in Hash : Referenced(Current', h) => Referenced(Current, h)
    BY <2>1 DEF Referenced
  <2>. QED
    BY <1>6, <2>1, <2>2 DEF CommitGc
<1>7. ASSUME NEW h \in Hash, Unlink(h) PROVE (DiskInv /\ CommandInv)'
  <2>1. Current' = Current
    BY <1>7 DEF Unlink, Current
  <2>2. /\ pc = "gc" /\ h \in Sweepable(Current) /\ pc' = "gc_sync"
        /\ cas' = [cas EXCEPT ![h] = "absent"] /\ settled' = settled \ {h} /\ cur'.hash = h
        /\ tx.row[h] = "marked" /\ UNCHANGED <<disk, tx, sweeps>>
    BY <1>7 DEF Unlink
  <2>3. Current.row[h] # "none" /\ ~Referenced(Current, h)
    BY <2>2 DEF Sweepable
  <2>. QED
    BY <2>1, <2>2, <2>3
<1>8. ASSUME NEW h \in Hash, FinishSweep(h) PROVE (DiskInv /\ CommandInv)'
  <2>1. Current' = Current /\ cas' = cas /\ cas[h] = "absent" /\ pc' = "gc" /\ pc = "gc"
    BY <1>8 DEF FinishSweep, StageSweep, Current
  <2>2. /\ disk' = [disk EXCEPT ![h] = "absent"] /\ settled' = settled \cup {h}
        /\ tx' = [tx EXCEPT !.row[h] = "none"] /\ sweeps' = sweeps \ {h}
    BY <1>8 DEF FinishSweep, StageSweep
  <2>3. /\ tx'.ref = tx.ref
        /\ \A g \in Hash \ {h} : tx'.row[g] = tx.row[g]
    BY <2>2 DEF Catalog
  <2>. QED
    BY <2>1, <2>2, <2>3 DEF Sweepable
<1>9. ASSUME NEW h \in Hash, WriteBack(h) PROVE (DiskInv /\ CommandInv)'
  <2>1. Current' = Current /\ UNCHANGED <<cas, pc, cur, tx, sweeps>> /\ h \notin settled
    BY <1>9 DEF WriteBack, Current
  <2>2. PICK b \in Blob : /\ disk' = [disk EXCEPT ![h] = b]
                          /\ settled' = settled \cup {g \in {h} : b = cas[g]}
    <3>1. CASE cas[h] = "absent"
      BY <1>9, <3>1 DEF WriteBack, Blob
    <3>2. CASE cas[h] # "absent"
      BY <1>9, <3>2 DEF WriteBack
    <3>. QED
      BY <3>1, <3>2
  <2>. QED
    BY <2>1, <2>2
<1>10. CASE Checkpoint
  <2>1. Current' = Last(<<Current>>)
    BY <1>10 DEF Checkpoint, Current
  <2>2. Current' = Current
    BY <2>1, SingleIsCurrent
  <2>. QED
    BY <1>10, <2>2 DEF Checkpoint
<1>11. CASE Kill
  <2>1. Current' = Current
    BY <1>11 DEF Kill, Current
  <2>. QED
    BY <1>11, <2>1 DEF Kill
<1>12. CASE Fail
  BY <1>12 DEF Fail
<1>13. CASE UNCHANGED vars
  <2>1. Current' = Current
    BY <1>13 DEF vars, Current
  <2>. QED
    BY <1>13, <2>1 DEF vars
<1>. QED
  BY <1>1, <1>2, <1>3, <1>4, <1>5, <1>6, <1>7, <1>8, <1>9, <1>10, <1>11, <1>12, <1>13
     DEF Next

(* The invariant holds whatever is killed, written back or lost, and when.  *)
THEOREM PowerCorrect == Spec => []PowerInv
<1>1. PowerInv /\ [Next]_vars => PowerInv'
  BY TypeStep, PowerStep DEF PowerInv
<1>. QED
  BY <1>1, PowerInit, PTL DEF Spec

(* A committed sweep is final: gc syncs the directory of a blob it unlinked *)
(* (sync_present_parent, gc.rs) before it stages the removal of the row, so *)
(* no power loss brings the file back as an orphan.                         *)
THEOREM SweepsAreFinal == Spec => []SweptStaysSwept
<1>1. PowerInv => SweptStaysSwept
  BY DEF PowerInv, DiskInv, SweptStaysSwept
<1>. QED
  BY <1>1, PowerCorrect, PTL

(* A content whose present file is on the disk, bytes and all, and that     *)
(* every catalog a power loss could leave points to is not lost by any      *)
(* collection, kill or power loss: only an import that points its source    *)
(* files elsewhere ends that.                                               *)
THEOREM SafeContentsStaySafe == Spec => SafeStaysSafe
<1> DEFINE Kept == \A h \in Hash : Safe(h) /\ ~Safe(h)' => ~Referenced(Current', h)
<1>1. PowerInv /\ [Next]_vars => Kept
  <2> SUFFICES ASSUME PowerInv, [Next]_vars, NEW h \in Hash, Safe(h),
                      Referenced(Current', h)
               PROVE  Safe(h)'
    OBVIOUS
  <2>0. TypeOK /\ Current \in Catalog /\ \A i \in DOMAIN log : log[i] \in Catalog
    BY CurrentInLog DEF PowerInv
  <2>1. /\ disk[h] = "intact" /\ h \in settled /\ cas[h] = "intact"
        /\ Referenced(Current, h)
    BY <2>0, CurrentInLog DEF Safe, PowerInv, DiskInv
  <2>2. disk'[h] = "intact" /\ h \in settled'
    <3>1. ASSUME NEW p \in Path, NEW g \in Hash, Install(p, g)
          PROVE  disk'[h] = "intact" /\ h \in settled'
      BY <2>1, <3>1 DEF Install
    <3>2. ASSUME NEW g \in Hash, Unlink(g) PROVE disk'[h] = "intact" /\ h \in settled'
      BY <2>1, <3>2 DEF Unlink, PowerInv, CommandInv, Sweepable
    <3>3. CASE SyncParent
      BY <2>0, <2>1, <3>3 DEF SyncParent, PowerInv, CommandInv, TypeOK
    <3>4. ASSUME NEW g \in Hash, FinishSweep(g) PROVE disk'[h] = "intact" /\ h \in settled'
      BY <2>0, <2>1, <3>4 DEF FinishSweep, TypeOK
    <3>5. ASSUME NEW g \in Hash, WriteBack(g) PROVE disk'[h] = "intact" /\ h \in settled'
      BY <2>0, <2>1, <3>5 DEF WriteBack, TypeOK
    <3>6. CASE Fail
      BY <2>1, <3>6 DEF Fail
    <3>7. CASE UNCHANGED <<disk, settled>>
      BY <2>1, <3>7
    <3>. QED
      BY <3>1, <3>2, <3>3, <3>4, <3>5, <3>6, <3>7 DEF Next, vars, Record, Collect,
             SyncFails, CommitGc, Checkpoint, Kill
  <2>3. \A i \in DOMAIN log' : Referenced(log'[i], h)
    <3>1. CASE log' = log
      BY <3>1 DEF Safe
    <3>2. CASE Record
      <4>1. PICK c \in Catalog : log' = Append(log, c) /\ Current' = c
        BY <2>0, <3>2, NewCatalogs, CurrentChanges, CommitIsCurrent
           DEF Record, TypeOK, Current
      <4>. QED
        BY <2>0, <4>1, CommitIsCurrent DEF Safe, TypeOK
    <3>3. CASE CommitGc
      <4>1. log' = Append(log, tx) /\ tx \in Catalog /\ Current' = tx
        BY <2>0, <3>3, CommitIsCurrent DEF CommitGc, TypeOK, Current
      <4>. QED
        BY <2>0, <4>1, CommitIsCurrent DEF Safe, TypeOK
    <3>4. CASE Checkpoint
      BY <2>0, <2>1, <3>4, SingleIsCurrent DEF Checkpoint
    <3>5. CASE Fail
      BY <2>0, <3>5, SingleIsCurrent DEF Fail, Safe
    <3>. QED
      BY <2>0, <3>1, <3>2, <3>3, <3>4, <3>5, CurrentChanges
  <2>. QED
    BY <2>2, <2>3 DEF Safe
<1>. QED
  BY <1>1, PowerCorrect, PTL DEF Spec, SafeStaysSafe
================================================================================
