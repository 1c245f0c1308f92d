---------------------------- MODULE MCMediaStore ----------------------------
(* Instances of MediaStore for TLC. *)
EXTENDS MediaStore, TLC

Symmetry == Permutations(Proc) \cup Permutations(Path) \cup Permutations(Hash)
=============================================================================
