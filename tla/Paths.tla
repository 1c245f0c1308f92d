--------------------------------- MODULE Paths ---------------------------------
(***************************************************************************)
(* The path arithmetic of the browse tree: which tree may be used with a   *)
(* store, where a link of the tree points, and which links of a tree are   *)
(* the tool's own.                                                         *)
(*                                                                         *)
(* The roots are canonical, so an absolute path is the sequence of the     *)
(* names below `/'; only the text of a symlink may also hold `..'.  `.'    *)
(* and doubled slashes vanish in Rust's components() and are left out.     *)
(***************************************************************************)
EXTENDS Naturals, Sequences, SequencesExt

CONSTANTS
  Name,      \* file names other than the store's own
  MaxDepth,  \* bound: names of a root or a directory
  MaxText    \* bound: components of a symlink's text

ASSUME NameAssumption == Name \cap {"blobs", "catalog.sqlite", ".."} = {}
ASSUME BoundsAssumption == MaxDepth \in Nat /\ MaxText \in Nat

VARIABLES
  root,  \* a store root
  dir,   \* a directory of a browse tree
  text   \* the text of a symlink in dir

pathVars == <<root, dir, text>>

SeqsTo(S, n) == UNION {[1 .. k -> S] : k \in 0 .. n}
Names == Name \cup {"blobs"}
Dirs == SeqsTo(Names, MaxDepth)

PathsInit ==
  /\ root \in Dirs /\ dir \in Dirs
  /\ text \in [abs : BOOLEAN, parts : SeqsTo(Names \cup {".."}, MaxText)]

PathsNext == UNCHANGED pathVars

PathsSpec == PathsInit /\ [][PathsNext]_pathVars

-----------------------------------------------------------------------------
(* Roots. *)

starts_with(p, q) == IsPrefix(q, p)
blobs_dir(s) == Append(s, "blobs")
default_db_path(s) == Append(s, "catalog.sqlite")

(* Two shard directories, named by the first digits of the hash, come      *)
(* before the file; the hash stands for them.                              *)
blob_path(s, h) == blobs_dir(s) \o <<h, h, h>>

paths_overlap(l, r) == starts_with(l, r) \/ starts_with(r, l)

validate_build_tree_no_overlaps(s, tree, db, explicit) ==
  /\ ~paths_overlap(s, tree)
  /\ ~(explicit /\ starts_with(db, tree))

-----------------------------------------------------------------------------
(* Symlinks. *)

Up(n) == [i \in 1 .. n |-> ".."]

(* Variant: the climb is one too short. *)
relative_symlink_target_short(from, to) ==
  LET common == Len(LongestCommonPrefix({from, to})) IN
  [abs |-> FALSE,
   parts |-> Up(IF Len(from) > common THEN Len(from) - common - 1 ELSE 0)
               \o SubSeq(to, common + 1, Len(to))]

relative_symlink_target(from, to) ==
  LET common == Len(LongestCommonPrefix({from, to})) IN
  [abs |-> FALSE, parts |-> Up(Len(from) - common) \o SubSeq(to, common + 1, Len(to))]

(* Variant: a `..' is dropped and takes nothing with it. *)
lexical_normalize_dropping(parts) == SelectSeq(parts, LAMBDA c : c # "..")

(* Of an absolute path: a `..' takes away the name before it, if any. *)
lexical_normalize(parts) ==
  FoldLeft(LAMBDA done, c : IF c # ".." THEN Append(done, c)
                            ELSE IF done = << >> THEN done ELSE Front(done),
           << >>, parts)

normalized_symlink_target(parent, t) ==
  lexical_normalize(IF t.abs THEN t.parts ELSE parent \o t.parts)

points_inside_blobs(parent, t, s) ==
  starts_with(normalized_symlink_target(parent, t), blobs_dir(s))

-----------------------------------------------------------------------------
(* What the operating system makes of them. *)

(* The directories a path lies in, itself and `/' included. *)
Around(p) == {SubSeq(p, 1, k) : k \in 0 .. Len(p)}

(* In a tree without symlinked directories a leading `..' stays at `/',    *)
(* any other cancels against its left neighbour, the leftmost first.       *)
Cancel(parts) ==
  LET ups == {i \in DOMAIN parts : parts[i] = ".."} IN
  IF ups = {} THEN parts
  ELSE LET i == CHOOSE i \in ups : \A j \in ups : i <= j IN
       SubSeq(parts, 1, i - 2) \o SubSeq(parts, i + 1, Len(parts))

(* Where an absolute path leads: no path has more `..' than components. *)
Leads(parts) ==
  LET after[k \in 0 .. Len(parts)] == IF k = 0 THEN parts ELSE Cancel(after[k - 1])
  IN  after[Len(parts)]

Follow(parent, t) == Leads(IF t.abs THEN t.parts ELSE parent \o t.parts)

-----------------------------------------------------------------------------
(* Properties. *)

(* A link that build-tree writes into any directory of an accepted tree    *)
(* leads to its blob, and the next run recognises it as its own.           *)
WrittenLinksLead ==
  \A tree \in Around(dir), h \in Name :
    validate_build_tree_no_overlaps(root, tree, default_db_path(root), FALSE) =>
      LET blob == blob_path(root, h)
          link == relative_symlink_target(dir, blob) IN
      Follow(dir, link) = blob /\ points_inside_blobs(dir, link, root)

(* A symlink is taken for the tool's own, to be replaced or removed when   *)
(* stale, exactly if it leads into the store's blobs.                      *)
ManagedIffInside ==
  points_inside_blobs(dir, text, root) <=> blobs_dir(root) \in Around(Follow(dir, text))
================================================================================
