------------------------- MODULE MediaStoreRefinement -------------------------
(***************************************************************************)
(* MediaStore implements Archive: the committed rows and references are    *)
(* the archive's, a file is good while it has its content and size.        *)
(***************************************************************************)
EXTENDS MediaStore

File(b) == CASE b = "absent" -> "absent" [] b = "intact" -> "good" [] OTHER -> "bad"

A == INSTANCE Archive WITH file <- [h \in Hash |-> File(cas[h])]

(* Whatever imports, collections and readers run, and wherever they are     *)
(* killed, the store takes only the archive's steps: a collection's commit, *)
(* prepared from a plan read earlier, is right about the catalog and the    *)
(* files at the moment it happens; nothing is recorded that is not kept;    *)
(* no file goes that was not marked and unreferenced.                       *)
ImplementsArchive == A!Spec
=============================================================================
