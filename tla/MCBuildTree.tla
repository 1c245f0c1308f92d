----------------------------- MODULE MCBuildTree -----------------------------
(* Instances of BuildTree for TLC. *)
EXTENDS BuildTree

CONSTANTS
  d, c,        \* a directory and one inside it
  x6, x8,      \* outputs in the inner directory, with six and with eight digits
  y6, y8,      \* outputs at the top
  ex, ey, ez,  \* entries; ey and ez are one path, their hashes differ later on
  hx, hy, hz   \* their blobs

Places ==
  [n \in Node |-> CASE n = c -> {d} [] n \in {x6, x8} -> {d, c} [] OTHER -> {}]
BlobOf == [e \in Entry |-> CASE e = ex -> hx [] e = ey -> hy [] e = ez -> hz]

(* Six and eight hash digits. *)
Digits ==
  {[e \in Entry |-> IF e = ex THEN x6 ELSE y6],
   [e \in Entry |-> IF e = ex THEN x8 ELSE y8]}
=============================================================================
