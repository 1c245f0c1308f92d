------------------------------ MODULE BuildTree ------------------------------
(***************************************************************************)
(* build-tree: the browse tree of symbolic links into the CAS.             *)
(*                                                                         *)
(* A build plans from the catalog, the CAS and the tree, then creates      *)
(* directories, creates or replaces links, removes stale links and prunes  *)
(* directories, in that order.  It holds the store's run lock exclusively, *)
(* so catalog and CAS change only between builds; the repository declares  *)
(* edits of the tree during a build unsupported, so the user, too, acts    *)
(* between builds.  A build may be killed, or stop on an error, at any     *)
(* step: nothing is rolled back.                                           *)
(*                                                                         *)
(* A place in the tree is a Node, known by the places above it.  An owned  *)
(* link, one that points into the blobs directory, is the hash it points   *)
(* to.  Leftovers of several interrupted replacements at one place are     *)
(* not told apart.  The dry run is the plan without the rest.              *)
(***************************************************************************)
EXTENDS Naturals, FiniteSets

CONSTANTS
  Node,      \* places below the root of the browse tree
  Above,     \* the places between the root and each node
  Entry,     \* catalog entries: a relative path with a blob
  Hash,      \* blob hashes
  HashOf,    \* the blob of each entry
  Layout,    \* output places of the entries, one function per --hash-digits
  UserKinds, \* what a user may put into the tree
  None       \* "no node"

Kinds == {"absent", "dir", "file", "foreign"}

ASSUME NodesAssumption ==
  /\ Above \in [Node -> SUBSET Node] /\ None \notin Node
  /\ \A n \in Node : n \notin Above[n]
  /\ \A n \in Node : \A m \in Above[n] : Above[m] \subseteq Above[n]
ASSUME EntriesAssumption ==
  /\ HashOf \in [Entry -> Hash] /\ Layout \subseteq [Entry -> Node] /\ Layout # {}
  /\ Hash \cap Kinds = {} /\ UserKinds \subseteq Kinds \ {"absent"}

VARIABLES
  live,      \* entries of the catalog whose blob is not marked
  blobs,     \* hashes whose CAS file is there with its recorded size
  tree,      \* what is at each node
  temps,     \* nodes beside which an interrupted replacement left its link
  pc,        \* where the build is
  renaming,  \* node whose temporary link waits for its rename
  plan,      \* what the build planned
  todo,      \* what of it is left to do
  pruned     \* directories this build removed

store == <<live, blobs>>
vars == <<store, tree, temps, pc, renaming, plan, todo, pruned>>

-----------------------------------------------------------------------------
(* Planning. *)

Present(n) == tree[n] # "absent"
Owned == {n \in Node : tree[n] \in Hash}

(* The links the catalog asks for, when no two fall on one place. *)
Outputs(layout) == {layout[e] : e \in live}
Collision(layout) ==
  \E e, f \in live : e # f /\ layout[e] = layout[f]
Target(layout, n) == HashOf[CHOOSE e \in live : layout[e] = n]

TargetsValid == {HashOf[e] : e \in live} \subseteq blobs

(* A desired place holds nothing or an owned link, and only directories,    *)
(* or nothing, lie above it.                                                *)
Unblocked(layout) ==
  \A n \in Outputs(layout) :
    /\ tree[n] \in {"absent"} \cup Hash
    /\ \A m \in Above[n] : tree[m] \in {"absent", "dir"}

ToCreate(layout) ==
  {m \in UNION {Above[n] : n \in Outputs(layout)} : ~Present(m)}

(* Variant: foreign links count as stale. *)
StaleLinks(layout) == {n \in Node : tree[n] \in Hash \cup {"foreign"}} \ Outputs(layout)

Stale(layout) == Owned \ Outputs(layout)

(* Variant: leftovers of an interrupted replacement are not collected. *)
NoStaleTemps == {}

StaleTemps == temps

(* Directories above something stale that hold nothing else: every place    *)
(* below them is stale or such a directory.                                 *)
Candidates(layout) == UNION {Above[n] : n \in Stale(layout) \cup StaleTemps}
ToPrune(layout) ==
  {d \in Candidates(layout) :
     \A n \in Node : d \in Above[n] /\ Present(n) =>
       n \in Stale(layout) \cup Candidates(layout)}

Work(links, stale, staleTemps, create, prune) ==
  [links |-> links, stale |-> stale, staleTemps |-> staleTemps, create |-> create,
   prune |-> prune]
NoWork == Work({}, {}, {}, {}, {})
NoPlan == [layout |-> CHOOSE layout \in Layout : TRUE, work |-> NoWork]

-----------------------------------------------------------------------------
Init ==
  /\ live = {} /\ blobs = {}
  /\ tree = [n \in Node |-> "absent"] /\ temps = {}
  /\ pc = "idle" /\ renaming = None
  /\ plan = NoPlan /\ todo = NoWork /\ pruned = {}

(* Imports, collections and damage between two builds. *)
OtherCommands ==
  /\ pc = "idle"
  /\ live' \in SUBSET Entry
  /\ blobs' \in SUBSET Hash
  /\ UNCHANGED <<tree, temps, pc, renaming, plan, todo, pruned>>

Empty(n) == \A m \in Node : n \in Above[m] => ~Present(m) /\ m \notin temps

(* A user puts something of their own into the tree, or takes it away. *)
UserEdit(n) ==
  /\ pc = "idle"
  /\ \A m \in Above[n] : tree[m] = "dir"
  /\ \/ ~Present(n) /\ \E k \in UserKinds : tree' = [tree EXCEPT ![n] = k]
     \/ /\ tree[n] \in UserKinds /\ Empty(n)
        /\ tree' = [tree EXCEPT ![n] = "absent"]
  /\ UNCHANGED <<store, temps, pc, renaming, plan, todo, pruned>>

(* Everything that can be refused is refused before the first change. *)
Plan(layout) ==
  LET work == Work(Outputs(layout), Stale(layout), StaleTemps, ToCreate(layout),
                   ToPrune(layout)) IN
  /\ pc = "idle"
  /\ TargetsValid
  /\ ~Collision(layout)
  /\ Unblocked(layout)
  /\ pc' = "apply"
  /\ plan' = [layout |-> layout, work |-> work]
  /\ todo' = work
  /\ pruned' = {}
  /\ UNCHANGED <<store, tree, temps, renaming>>

-----------------------------------------------------------------------------
(* Applying the plan.  Directories are created from the top. *)

CreateDir(d) ==
  /\ pc = "apply"
  /\ d \in todo.create /\ Above[d] \cap todo.create = {}
  /\ tree' = [tree EXCEPT ![d] = "dir"]
  /\ todo' = [todo EXCEPT !.create = @ \ {d}]
  /\ UNCHANGED <<store, temps, pc, renaming, plan, pruned>>

Linking(n) == pc = "apply" /\ todo.create = {} /\ n \in todo.links
Desired(n) == Target(plan.layout, n)

(* A new link, or one that is right already. *)
LinkNew(n) ==
  /\ Linking(n)
  /\ tree[n] \in {"absent", Desired(n)}
  /\ tree' = [tree EXCEPT ![n] = Desired(n)]
  /\ todo' = [todo EXCEPT !.links = @ \ {n}]
  /\ UNCHANGED <<store, temps, pc, renaming, plan, pruned>>

(* Variant: the old link is removed first. *)
TempLinkInPlace(n) ==
  /\ Linking(n)
  /\ tree[n] \in Hash \ {Desired(n)}
  /\ tree' = [tree EXCEPT ![n] = "absent"]
  /\ pc' = "rename" /\ renaming' = n
  /\ UNCHANGED <<store, temps, plan, todo, pruned>>

(* A replacement starts as a temporary link beside the old one... *)
TempLink(n) ==
  /\ Linking(n)
  /\ tree[n] \in Hash \ {Desired(n)}
  /\ pc' = "rename" /\ renaming' = n
  /\ UNCHANGED <<store, tree, temps, plan, todo, pruned>>

(* ... and is renamed over it. *)
Rename ==
  /\ pc = "rename"
  /\ tree' = [tree EXCEPT ![renaming] = Desired(renaming)]
  /\ todo' = [todo EXCEPT !.links = @ \ {renaming}]
  /\ pc' = "apply" /\ renaming' = None
  /\ UNCHANGED <<store, temps, plan, pruned>>

Cleaning == pc = "apply" /\ todo.create = {} /\ todo.links = {}

RemoveStale(n) ==
  /\ Cleaning
  /\ \/ /\ n \in todo.stale
        /\ tree' = [tree EXCEPT ![n] = "absent"]
        /\ todo' = [todo EXCEPT !.stale = @ \ {n}]
        /\ UNCHANGED temps
     \/ /\ n \in todo.staleTemps
        /\ temps' = temps \ {n}
        /\ todo' = [todo EXCEPT !.staleTemps = @ \ {n}]
        /\ UNCHANGED tree
  /\ UNCHANGED <<store, pc, renaming, plan, pruned>>

Pruning == Cleaning /\ todo.stale = {} /\ todo.staleTemps = {}

(* Variant: a planned directory is removed with what it holds. *)
PruneDirForce(d) ==
  /\ Pruning
  /\ d \in todo.prune
  /\ tree' = [tree EXCEPT ![d] = "absent"]
  /\ todo' = [todo EXCEPT !.prune = @ \ {d}]
  /\ pruned' = pruned \cup {d}
  /\ UNCHANGED <<store, temps, pc, renaming, plan>>

(* From the bottom; a directory that is not empty is left without an error. *)
PruneDir(d) ==
  /\ Pruning
  /\ d \in todo.prune /\ \A m \in todo.prune : d \notin Above[m]
  /\ \/ /\ Empty(d)
        /\ tree' = [tree EXCEPT ![d] = "absent"] /\ pruned' = pruned \cup {d}
     \/ ~Empty(d) /\ UNCHANGED <<tree, pruned>>
  /\ todo' = [todo EXCEPT !.prune = @ \ {d}]
  /\ UNCHANGED <<store, temps, pc, renaming, plan>>

Done ==
  /\ Pruning /\ todo.prune = {}
  /\ pc' = "done"
  /\ UNCHANGED <<store, tree, temps, renaming, plan, todo, pruned>>

(* The lock is released. *)
Release ==
  /\ pc' = "idle" /\ renaming' = None
  /\ plan' = NoPlan /\ todo' = NoWork /\ pruned' = {}
  /\ UNCHANGED <<store, tree>>

Exit == pc = "done" /\ Release /\ UNCHANGED temps

(* A failed rename removes its temporary link if it can. *)
RenameFail == pc = "rename" /\ Release /\ UNCHANGED temps

(* A kill, or an error that ends the build where it is. *)
Stop ==
  /\ pc \in {"apply", "rename"}
  /\ Release
  /\ temps' = temps \cup ({renaming} \ {None})

-----------------------------------------------------------------------------
Next ==
  \/ OtherCommands \/ (\E n \in Node : UserEdit(n))
  \/ \E layout \in Layout : Plan(layout)
  \/ \E n \in Node :
       CreateDir(n) \/ LinkNew(n) \/ TempLink(n) \/ RemoveStale(n) \/ PruneDir(n)
  \/ Rename \/ Done \/ Exit \/ RenameFail \/ Stop

Spec == Init /\ [][Next]_vars

-----------------------------------------------------------------------------
WorkSet ==
  [links : SUBSET Node, stale : SUBSET Node, staleTemps : SUBSET Node,
   create : SUBSET Node, prune : SUBSET Node]

(* Tree, plan and progress stay within their types, and a place is being    *)
(* replaced only between its temporary link and the rename.                 *)
TypeOK ==
  /\ live \in SUBSET Entry /\ blobs \in SUBSET Hash
  /\ tree \in [Node -> Kinds \cup Hash] /\ temps \in SUBSET Node
  /\ pc \in {"idle", "apply", "rename", "done"}
  /\ renaming \in Node \cup {None} /\ (renaming # None <=> pc = "rename")
  /\ plan \in [layout : Layout, work : WorkSet] /\ todo \in WorkSet
  /\ pruned \in SUBSET Node

(* No step of a build needs a directory that is not there: whatever lies in *)
(* the tree, a temporary link included, lies below directories only.        *)
TreeWellFormed ==
  \A n \in Node : Present(n) \/ n \in temps \/ n = renaming =>
    \A m \in Above[n] : tree[m] = "dir"

(* A build that completes leaves exactly the links the catalog asks for,    *)
(* each to its blob in the CAS, whatever layout was built before and        *)
(* wherever earlier builds were interrupted; their leftovers are gone.      *)
BuildConverges ==
  pc = "done" =>
    /\ Owned = Outputs(plan.layout) /\ temps = {}
    /\ \A e \in live : tree[plan.layout[e]] = HashOf[e] /\ HashOf[e] \in blobs

(* A build leaves what a user put into the tree: files and links that point *)
(* elsewhere stay as they are, a directory goes only when it is empty.      *)
UserEntriesKeptStep ==
  pc # "idle" => \A n \in Node :
    /\ tree[n] \in {"file", "foreign"} => tree'[n] = tree[n]
    /\ tree[n] = "dir" /\ tree'[n] # "dir" => Empty(n)
UserEntriesKept == [][UserEntriesKeptStep]_vars

(* A link that stays desired is never missing while a build runs: it is     *)
(* kept, or replaced in one step.                                           *)
LinksNeverFlickerStep ==
  pc # "idle" => \A n \in plan.work.links : tree[n] \in Hash => tree'[n] \in Hash
LinksNeverFlicker == [][LinksNeverFlickerStep]_vars

(* The number of pruned directories a completed build reports is the number *)
(* it pruned.                                                               *)
PrunedAsReported ==
  pc = "done" => Cardinality(pruned) = Cardinality(plan.work.prune)

(* A completed build leaves no directory that earlier builds made and that  *)
(* is empty now, even if one of them was interrupted.  Not an invariant:    *)
(* only directories above links that are stale now are looked at.           *)
EmptyDirsPruned ==
  pc = "done" => \A n \in Node : tree[n] = "dir" => ~Empty(n)
=============================================================================
