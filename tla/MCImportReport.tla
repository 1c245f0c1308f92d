---------------------------- MODULE MCImportReport ----------------------------
(* Instances of ImportReport for TLC: contents of one and of two bytes. *)
EXTENDS ImportReport, TLC

MCHash == {"a", "b"}
MCSize == [h \in MCHash |-> IF h = "a" THEN 1 ELSE 2]
Symmetry == Permutations(Path)
=============================================================================
