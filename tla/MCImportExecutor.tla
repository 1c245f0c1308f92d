-------------------------- MODULE MCImportExecutor --------------------------
(* Instances of ImportExecutor for TLC. *)
EXTENDS ImportExecutor

CONSTANTS f1, f2, f3, m1, m2, m3

(* Two files on one mount and one on another. *)
TwoMounts == [f \in File |-> IF f = f3 THEN m2 ELSE m1]

(* Every file on a mount of its own. *)
ThreeMounts == [f \in File |-> CASE f = f1 -> m1 [] f = f2 -> m2 [] f = f3 -> m3]
=============================================================================
