------------------------ MODULE MCMediaStoreRefinement ------------------------
(* An instance of MediaStoreRefinement for TLC. *)
EXTENDS MediaStoreRefinement, TLC

Symmetry == Permutations(Proc) \cup Permutations(Path) \cup Permutations(Hash)
=============================================================================
