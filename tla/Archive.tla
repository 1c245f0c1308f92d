-------------------------------- MODULE Archive --------------------------------
(***************************************************************************)
(* What a store promises, whoever runs which commands on it: contents are  *)
(* kept in files, source paths are recorded with a kept content, and a     *)
(* content leaves in three steps, each a commit or a system call of its    *)
(* own: marked once nothing refers to it, its file removed while it is     *)
(* marked and unreferenced, its row forgotten once the file is gone.       *)
(*                                                                         *)
(* There are no processes, locks, transactions, jobs, threads or crashes   *)
(* here: MediaStoreRefinement shows that the commands, interleaved and     *)
(* killed at any point, only ever take these steps.                        *)
(***************************************************************************)
EXTENDS Naturals

CONSTANTS Hash, Path, None

VARIABLES
  file,    \* the file of each content
  row,     \* its committed row
  ref,     \* the content each source path is recorded with
  damaged  \* contents whose file something else has altered

vars == <<file, row, ref, damaged>>

Referenced(h) == \E p \in Path : ref[p] = h
Unreferenced == {h \in Hash : ~Referenced(h)}
InState(st) == {h \in Hash : row[h] = st}

Init ==
  /\ file = [h \in Hash |-> "absent"]
  /\ row = [h \in Hash |-> "none"]
  /\ ref = [p \in Path |-> None]
  /\ damaged = {}

(* An import installs a content. *)
Keep(h) ==
  /\ file[h] = "absent"
  /\ file' = [file EXCEPT ![h] = "good"]
  /\ UNCHANGED <<row, ref, damaged>>

(* An import's batch records some paths, each with a content that is kept. *)
Record(content) ==
  LET recorded == {content[p] : p \in DOMAIN content} IN
  /\ \A h \in recorded \ damaged : file[h] = "good"
  /\ row' = [h \in Hash |-> IF h \in recorded THEN "live" ELSE row[h]]
  /\ ref' = [p \in Path |-> IF p \in DOMAIN content THEN content[p] ELSE ref[p]]
  /\ UNCHANGED <<file, damaged>>

(* A collection removes the file of a content marked by an earlier one. *)
Discard(h) ==
  /\ h \in InState("marked") \cap Unreferenced
  /\ file[h] # "absent"
  /\ file' = [file EXCEPT ![h] = "absent"]
  /\ UNCHANGED <<row, ref, damaged>>

(* A collection's one commit: every row that lost its last reference is    *)
(* marked, every marked row that has one again is not, and rows whose file *)
(* was discarded may go.                                                   *)
Collect(forgotten) ==
  /\ \A h \in forgotten : file[h] = "absent"
  /\ forgotten \subseteq InState("marked") \cap Unreferenced
  /\ row' = [h \in Hash |->
       CASE h \in forgotten -> "none"
         [] h \in InState("live") \cap Unreferenced -> "marked"
         [] h \in InState("marked") \ Unreferenced -> "live"
         [] OTHER -> row[h]]
  /\ UNCHANGED <<file, ref, damaged>>

(* Something else alters or removes a file. *)
Damage(h) ==
  /\ file[h] # "absent"
  /\ \E b \in {"absent", "bad"} : file' = [file EXCEPT ![h] = b]
  /\ damaged' = damaged \cup {h}
  /\ UNCHANGED <<row, ref>>

Next ==
  \/ \E h \in Hash : Keep(h) \/ Discard(h) \/ Damage(h)
  \/ \E batch \in SUBSET Path : \E content \in [batch -> Hash] : Record(content)
  \/ \E forgotten \in SUBSET Hash : Collect(forgotten)

Spec == Init /\ [][Next]_vars
================================================================================
