--------------------------- MODULE BrowseTreeProofs ---------------------------
(***************************************************************************)
(* What build-tree keeps true, for every tree shape, catalog, set of       *)
(* layouts and sequence of interrupted builds and user edits, and where    *)
(* the links of a browse tree lead, for paths of any length.               *)
(*                                                                         *)
(* The argument about builds relates what is left of the plan to what is   *)
(* in the tree: a directory a link needs is there or still to be created,  *)
(* a link is right or still to be made, a link nobody asks for is still to *)
(* be removed, and whatever is still to be pruned is a directory.          *)
(*                                                                         *)
(* The argument about links follows the stack of lexical_normalize through *)
(* a path.                                                                 *)
(***************************************************************************)
EXTENDS BuildTree, Paths, FiniteSetTheorems, SequenceTheorems, TLAPS

(* While a build runs, its plan is what the catalog asks for. *)
PlanInv ==
  pc # "idle" =>
    /\ TargetsValid /\ ~Collision(plan.layout)
    /\ plan.work.links = Outputs(plan.layout)

(* What is not in the tree as planned is left to do, and the other way      *)
(* round.                                                                   *)
TodoInv ==
  pc # "idle" =>
    /\ todo.links \subseteq plan.work.links
    /\ \A n \in plan.work.links :
         /\ n \notin todo.links => tree[n] = Desired(n)
         /\ \A m \in Above[n] : tree[m] = "dir" \/ m \in todo.create
    /\ \A m \in todo.create :
         tree[m] = "absent" /\ \E n \in plan.work.links : m \in Above[n]
    /\ todo.stale \cap plan.work.links = {}
    /\ todo.stale \subseteq Owned /\ Owned \subseteq plan.work.links \cup todo.stale
    /\ temps \subseteq todo.staleTemps
    /\ \A m \in todo.prune : tree[m] = "dir"

(* Where the build is in its plan. *)
PhaseInv ==
  /\ pc = "rename" =>
       renaming \in todo.links /\ todo.create = {} /\ tree[renaming] \in Hash
  /\ pc = "done" => todo.create = {} /\ todo.links = {} /\ todo.stale = {}
                      /\ todo.staleTemps = {} /\ todo.prune = {}

BuildInv == TypeOK /\ TreeWellFormed /\ PlanInv /\ TodoInv /\ PhaseInv

-----------------------------------------------------------------------------
(* The hash a desired place points to is that of the one entry that asks    *)
(* for it.                                                                  *)
LEMMA TargetOfEntry ==
  ASSUME TypeOK, NEW layout \in Layout, NEW e \in live, ~Collision(layout)
  PROVE  Target(layout, layout[e]) = HashOf[e]
<1>1. \A f \in live : layout[f] = layout[e] => f = e
  BY DEF Collision
<1>2. (CHOOSE f \in live : layout[f] = layout[e]) = e
  BY <1>1
<1> QED
  BY <1>2 DEF Target

(* A desired place points to a hash. *)
LEMMA TargetIsHash ==
  ASSUME TypeOK, NEW layout \in Layout, NEW n \in Outputs(layout)
  PROVE  Target(layout, n) \in Hash /\ n \in Node
<1>1. PICK e \in live : layout[e] = n
  BY DEF Outputs
<1>2. (CHOOSE f \in live : layout[f] = n) \in live
  BY <1>1
<1> QED
  BY <1>1, <1>2, EntriesAssumption DEF Target, TypeOK

(* What is planned is a set of nodes. *)
LEMMA PlanType ==
  ASSUME TypeOK, NEW layout \in Layout
  PROVE  /\ Outputs(layout) \subseteq Node /\ Stale(layout) \subseteq Node
         /\ StaleTemps \subseteq Node /\ ToCreate(layout) \subseteq Node
         /\ ToPrune(layout) \subseteq Node
<1>1. Outputs(layout) \subseteq Node
  BY EntriesAssumption DEF Outputs, TypeOK
<1>2. Stale(layout) \subseteq Node /\ StaleTemps \subseteq Node
  BY DEF Stale, Owned, StaleTemps, TypeOK
<1>3. ToCreate(layout) \subseteq Node
  BY <1>1, NodesAssumption DEF ToCreate
<1>4. ToPrune(layout) \subseteq Node
  BY <1>2, NodesAssumption DEF ToPrune, Candidates
<1> QED
  BY <1>1, <1>2, <1>3, <1>4

(* No work is a plan of no work. *)
LEMMA NoWorkType ==
  NoWork \in WorkSet /\ NoPlan \in [layout : Layout, work : WorkSet]
<1>1. NoWork \in WorkSet
  BY DEF NoWork, Work, WorkSet
<1>2. (CHOOSE layout \in Layout : TRUE) \in Layout
  BY EntriesAssumption
<1> QED
  BY <1>1, <1>2 DEF NoPlan

(* Every step keeps the types. *)
LEMMA TypeStep ==
  ASSUME TypeOK, PlanInv, PhaseInv, TodoInv, [Next]_vars
  PROVE  TypeOK'
<1> USE DEF TypeOK, WorkSet, Kinds, store
<1>a. NoWork \in WorkSet /\ NoPlan \in [layout : Layout, work : WorkSet]
  BY NoWorkType
<1>b. None \notin Node /\ Hash \cap Kinds = {} /\ UserKinds \subseteq Kinds
  BY NodesAssumption, EntriesAssumption
<1>1. CASE OtherCommands
  BY <1>1, <1>a, <1>b DEF OtherCommands
<1>2. ASSUME NEW n \in Node, UserEdit(n) PROVE TypeOK'
  BY <1>2, <1>a, <1>b DEF UserEdit
<1>3. ASSUME NEW layout \in Layout, Plan(layout) PROVE TypeOK'
  <2>1. Work(Outputs(layout), Stale(layout), StaleTemps, ToCreate(layout), ToPrune(layout))
          \in WorkSet
    BY PlanType DEF Work
  <2> QED
    BY <1>3, <2>1 DEF Plan
<1>4. ASSUME NEW n \in Node, CreateDir(n) PROVE TypeOK'
  BY <1>4, <1>a, <1>b DEF CreateDir
<1>5. ASSUME NEW n \in Node, LinkNew(n) PROVE TypeOK'
  <2>1. Desired(n) \in Hash
    BY <1>5, TargetIsHash DEF LinkNew, Linking, Desired, PlanInv, TodoInv
  <2> QED
    BY <1>5, <1>b, <2>1 DEF LinkNew, Linking
<1>6. ASSUME NEW n \in Node, TempLink(n) PROVE TypeOK'
  BY <1>6, <1>a, <1>b DEF TempLink, Linking
<1>7. ASSUME NEW n \in Node, RemoveStale(n) PROVE TypeOK'
  BY <1>7, <1>a, <1>b DEF RemoveStale, Cleaning
<1>8. ASSUME NEW n \in Node, PruneDir(n) PROVE TypeOK'
  BY <1>8, <1>a, <1>b DEF PruneDir, Pruning, Cleaning
<1>9. CASE Rename
  <2>1. Desired(renaming) \in Hash /\ renaming \in Node
    BY <1>9, <1>b, TargetIsHash DEF Rename, Desired, PlanInv, TodoInv, PhaseInv
  <2> QED
    BY <1>9, <1>b, <2>1 DEF Rename
<1>10. CASE Done
  BY <1>10, <1>a, <1>b DEF Done, Pruning, Cleaning
<1>11. CASE Exit
  BY <1>11, <1>a, <1>b DEF Exit, Release
<1>12. CASE RenameFail
  BY <1>12, <1>a, <1>b DEF RenameFail, Release
<1>13. CASE Stop
  BY <1>13, <1>a, <1>b DEF Stop, Release
<1>14. CASE UNCHANGED vars
  BY <1>14, <1>a, <1>b DEF vars
<1> QED
  BY <1>1, <1>2, <1>3, <1>4, <1>5, <1>6, <1>7, <1>8, <1>9, <1>10, <1>11,
     <1>12, <1>13, <1>14 DEF Next

(* Every step keeps directories above everything in the tree. *)
LEMMA TreeStep ==
  ASSUME TypeOK, TreeWellFormed, PlanInv, TodoInv, PhaseInv, [Next]_vars
  PROVE  TreeWellFormed'
<1> USE DEF TypeOK, TreeWellFormed, TodoInv, PhaseInv, WorkSet, Kinds,
            Present, Owned, store
<1>b. None \notin Node /\ Hash \cap Kinds = {} /\ UserKinds \subseteq Kinds \ {"absent"}
  BY NodesAssumption, EntriesAssumption
<1>c. /\ Above \in [Node -> SUBSET Node] /\ \A n \in Node : n \notin Above[n]
      /\ \A n \in Node : \A m \in Above[n] : Above[m] \subseteq Above[n]
  BY NodesAssumption
<1>d. pc # "idle" => \A n \in plan.work.links : Desired(n) \in Hash /\ n \in Node
  BY TargetIsHash DEF PlanInv, Desired, TypeOK
<1>1. CASE OtherCommands
  BY <1>1, <1>b, <1>c, <1>d DEF OtherCommands
<1>2. ASSUME NEW n \in Node, UserEdit(n) PROVE TreeWellFormed'
  BY <1>2, <1>b, <1>c, <1>d DEF UserEdit, Empty
<1>3. ASSUME NEW layout \in Layout, Plan(layout) PROVE TreeWellFormed'
  BY <1>3, <1>b, <1>c, <1>d DEF Plan
<1>4. ASSUME NEW n \in Node, CreateDir(n) PROVE TreeWellFormed'
  BY <1>4, <1>b, <1>c, <1>d DEF CreateDir
<1>5. ASSUME NEW n \in Node, LinkNew(n) PROVE TreeWellFormed'
  BY <1>5, <1>b, <1>c, <1>d DEF LinkNew, Linking
<1>6. ASSUME NEW n \in Node, TempLink(n) PROVE TreeWellFormed'
  BY <1>6, <1>b, <1>c, <1>d DEF TempLink, Linking
<1>7. ASSUME NEW n \in Node, RemoveStale(n) PROVE TreeWellFormed'
  BY <1>7, <1>b, <1>c, <1>d DEF RemoveStale, Cleaning
<1>8. ASSUME NEW n \in Node, PruneDir(n) PROVE TreeWellFormed'
  BY <1>8, <1>b, <1>c, <1>d DEF PruneDir, Pruning, Cleaning, Empty
<1>9. CASE Rename
  BY <1>9, <1>b, <1>c, <1>d DEF Rename
<1>10. CASE Done
  BY <1>10, <1>b, <1>c, <1>d DEF Done, Pruning, Cleaning
<1>11. CASE Exit
  BY <1>11, <1>b, <1>c, <1>d DEF Exit, Release
<1>12. CASE RenameFail
  BY <1>12, <1>b, <1>c, <1>d DEF RenameFail, Release
<1>13. CASE Stop
  BY <1>13, <1>b, <1>c, <1>d DEF Stop, Release
<1>14. CASE UNCHANGED vars
  BY <1>14, <1>b, <1>c, <1>d DEF vars
<1> QED
  BY <1>1, <1>2, <1>3, <1>4, <1>5, <1>6, <1>7, <1>8, <1>9, <1>10, <1>11,
     <1>12, <1>13, <1>14 DEF Next

(* Every step keeps the plan in agreement with the catalog. *)
LEMMA PlanStep ==
  ASSUME TypeOK, PlanInv, [Next]_vars
  PROVE  PlanInv'
<1> USE DEF TypeOK, PlanInv, TargetsValid, Collision, Outputs, store
<1>1. CASE OtherCommands
  BY <1>1 DEF OtherCommands, Outputs
<1>2. ASSUME NEW n \in Node, UserEdit(n) PROVE PlanInv'
  BY <1>2 DEF UserEdit
<1>3. ASSUME NEW layout \in Layout, Plan(layout) PROVE PlanInv'
  BY <1>3 DEF Plan, Work
<1>4. ASSUME NEW n \in Node, CreateDir(n) PROVE PlanInv'
  BY <1>4 DEF CreateDir
<1>5. ASSUME NEW n \in Node, LinkNew(n) PROVE PlanInv'
  BY <1>5 DEF LinkNew, Linking
<1>6. ASSUME NEW n \in Node, TempLink(n) PROVE PlanInv'
  BY <1>6 DEF TempLink, Linking
<1>7. ASSUME NEW n \in Node, RemoveStale(n) PROVE PlanInv'
  BY <1>7 DEF RemoveStale, Cleaning
<1>8. ASSUME NEW n \in Node, PruneDir(n) PROVE PlanInv'
  BY <1>8 DEF PruneDir, Pruning, Cleaning
<1>9. CASE Rename
  BY <1>9 DEF Rename
<1>10. CASE Done
  BY <1>10 DEF Done, Pruning, Cleaning
<1>11. CASE Exit
  BY <1>11 DEF Exit, Release
<1>12. CASE RenameFail
  BY <1>12 DEF RenameFail, Release
<1>13. CASE Stop
  BY <1>13 DEF Stop, Release
<1>14. CASE UNCHANGED vars
  BY <1>14 DEF vars, TargetsValid, Collision, Outputs
<1> QED
  BY <1>1, <1>2, <1>3, <1>4, <1>5, <1>6, <1>7, <1>8, <1>9, <1>10, <1>11,
     <1>12, <1>13, <1>14 DEF Next

(* Every step keeps the order of the phases. *)
LEMMA PhaseStep ==
  ASSUME TypeOK, PlanInv, TodoInv, PhaseInv, [Next]_vars
  PROVE  PhaseInv'
<1> USE DEF TypeOK, TodoInv, PhaseInv, WorkSet, Kinds, store
<1>b. None \notin Node /\ Hash \cap Kinds = {} /\ UserKinds \subseteq Kinds \ {"absent"}
  BY NodesAssumption, EntriesAssumption
<1>c. /\ Above \in [Node -> SUBSET Node] /\ \A n \in Node : n \notin Above[n]
      /\ \A n \in Node : \A m \in Above[n] : Above[m] \subseteq Above[n]
  BY NodesAssumption
<1>d. pc # "idle" => \A n \in plan.work.links : Desired(n) \in Hash /\ n \in Node
  BY TargetIsHash DEF PlanInv, Desired, TypeOK
<1>1. CASE OtherCommands
  BY <1>1, <1>b, <1>d DEF OtherCommands
<1>2. ASSUME NEW n \in Node, UserEdit(n) PROVE PhaseInv'
  BY <1>2, <1>b, <1>d DEF UserEdit
<1>3. ASSUME NEW layout \in Layout, Plan(layout) PROVE PhaseInv'
  BY <1>3, <1>b, <1>d DEF Plan
<1>4. ASSUME NEW n \in Node, CreateDir(n) PROVE PhaseInv'
  BY <1>4, <1>b, <1>d DEF CreateDir
<1>5. ASSUME NEW n \in Node, LinkNew(n) PROVE PhaseInv'
  BY <1>5, <1>b, <1>d DEF LinkNew, Linking
<1>6. ASSUME NEW n \in Node, TempLink(n) PROVE PhaseInv'
  BY <1>6, <1>b, <1>d DEF TempLink, Linking
<1>7. ASSUME NEW n \in Node, RemoveStale(n) PROVE PhaseInv'
  BY <1>7, <1>b, <1>d DEF RemoveStale, Cleaning
<1>8. ASSUME NEW n \in Node, PruneDir(n) PROVE PhaseInv'
  BY <1>8, <1>b, <1>d DEF PruneDir, Pruning, Cleaning
<1>9. CASE Rename
  BY <1>9, <1>b, <1>d DEF Rename
<1>10. CASE Done
  BY <1>10, <1>b, <1>d DEF Done, Pruning, Cleaning
<1>11. CASE Exit
  BY <1>11, <1>b, <1>d DEF Exit, Release
<1>12. CASE RenameFail
  BY <1>12, <1>b, <1>d DEF RenameFail, Release
<1>13. CASE Stop
  BY <1>13, <1>b, <1>d DEF Stop, Release
<1>14. CASE UNCHANGED vars
  BY <1>14, <1>b, <1>d DEF vars
<1> QED
  BY <1>1, <1>2, <1>3, <1>4, <1>5, <1>6, <1>7, <1>8, <1>9, <1>10, <1>11,
     <1>12, <1>13, <1>14 DEF Next

(* Every step keeps what is left to do in agreement with the tree. *)
LEMMA TodoStep ==
  ASSUME TypeOK, TreeWellFormed, PlanInv, TodoInv, PhaseInv, [Next]_vars
  PROVE  TodoInv'
<1> USE DEF store
<1>b. None \notin Node /\ Hash \cap Kinds = {} /\ UserKinds \subseteq Kinds \ {"absent"}
  BY NodesAssumption, EntriesAssumption
<1>c. /\ Above \in [Node -> SUBSET Node] /\ \A n \in Node : n \notin Above[n]
      /\ \A n \in Node : \A m \in Above[n] : Above[m] \subseteq Above[n]
  BY NodesAssumption
<1>d. pc # "idle" => \A n \in plan.work.links : Desired(n) \in Hash /\ n \in Node
  BY TargetIsHash DEF PlanInv, Desired, TypeOK
<1>1. CASE OtherCommands
  BY <1>1, <1>b, <1>c, <1>d
     DEF OtherCommands, TypeOK, TodoInv, PhaseInv, WorkSet, Kinds, Present, Owned, Desired, Target
<1>2. ASSUME NEW n \in Node, UserEdit(n) PROVE TodoInv'
  BY <1>2, <1>b, <1>c, <1>d
     DEF UserEdit, TypeOK, TodoInv, PhaseInv, WorkSet, Kinds, Present, Owned, Desired, Target
<1>3. ASSUME NEW layout \in Layout, Plan(layout) PROVE TodoInv'
  <2>1. /\ plan'.work.links = Outputs(layout) /\ todo'.links = Outputs(layout)
        /\ todo'.stale = Stale(layout) /\ todo'.staleTemps = temps
        /\ todo'.create = ToCreate(layout) /\ todo'.prune = ToPrune(layout)
        /\ UNCHANGED <<tree, temps>>
    BY <1>3 DEF Plan, Work, StaleTemps
  <2>2. \A m \in Outputs(layout) : \A k \in Above[m] :
          k \in Node /\ (tree[k] = "dir" \/ k \in ToCreate(layout))
    BY <1>3, <1>c, PlanType DEF Plan, Unblocked, ToCreate, Present
  <2>3. \A m \in ToCreate(layout) :
          tree[m] = "absent" /\ \E k \in Outputs(layout) : m \in Above[k]
    BY DEF ToCreate, Present
  <2>4. /\ Stale(layout) \cap Outputs(layout) = {} /\ Stale(layout) \subseteq Owned
        /\ Owned \subseteq Outputs(layout) \cup Stale(layout) /\ Owned' = Owned
    BY <2>1 DEF Stale, Owned
  <2>5. \A m \in ToPrune(layout) : tree[m] = "dir"
    <3>1. \A m \in Stale(layout) \cup StaleTemps : m \in Node /\ (Present(m) \/ m \in temps)
      BY <1>b DEF Stale, StaleTemps, Owned, Present, TypeOK, Kinds
    <3> QED
      BY <3>1 DEF ToPrune, Candidates, TreeWellFormed
  <2> QED
    BY <2>1, <2>2, <2>3, <2>4, <2>5 DEF TodoInv
<1>4. ASSUME NEW n \in Node, CreateDir(n) PROVE TodoInv'
  <2>1. /\ pc # "idle" /\ pc' # "idle" /\ plan' = plan
        /\ \A m : Desired(m)' = Desired(m)
    BY <1>4 DEF CreateDir, Desired, Target
  <2>2. /\ todo'.links \subseteq plan.work.links
        /\ \A m \in plan.work.links : m \notin todo'.links => tree'[m] = Desired(m)
    BY <1>4, <1>b, <1>c, <1>d
       DEF CreateDir, TodoInv, PhaseInv, TypeOK, WorkSet, Owned, Kinds, Present, TreeWellFormed
  <2>3. \A m \in plan.work.links : \A k \in Above[m] :
          tree'[k] = "dir" \/ k \in todo'.create
    BY <1>4, <1>b, <1>c, <1>d
       DEF CreateDir, TodoInv, PhaseInv, TypeOK, WorkSet, Owned, Kinds, Present, TreeWellFormed
  <2>4. \A m \in todo'.create :
          tree'[m] = "absent" /\ \E k \in plan.work.links : m \in Above[k]
    BY <1>4, <1>b, <1>c, <1>d
       DEF CreateDir, TodoInv, PhaseInv, TypeOK, WorkSet, Owned, Kinds, Present, TreeWellFormed
  <2>5. /\ todo'.stale \cap plan.work.links = {}
        /\ todo'.stale \subseteq Owned' /\ Owned' \subseteq plan.work.links \cup todo'.stale
    BY <1>4, <1>b, <1>c, <1>d
       DEF CreateDir, TodoInv, PhaseInv, TypeOK, WorkSet, Owned, Kinds, Present, TreeWellFormed
  <2>6. temps' \subseteq todo'.staleTemps /\ \A m \in todo'.prune : tree'[m] = "dir"
    BY <1>4, <1>b, <1>c, <1>d
       DEF CreateDir, TodoInv, PhaseInv, TypeOK, WorkSet, Owned, Kinds, Present, TreeWellFormed
  <2> QED
    BY <2>1, <2>2, <2>3, <2>4, <2>5, <2>6 DEF TodoInv
<1>5. ASSUME NEW n \in Node, LinkNew(n) PROVE TodoInv'
  <2>1. /\ pc # "idle" /\ pc' # "idle" /\ plan' = plan
        /\ \A m : Desired(m)' = Desired(m)
    BY <1>5 DEF LinkNew, Linking, Desired, Target
  <2>2. /\ todo'.links \subseteq plan.work.links
        /\ \A m \in plan.work.links : m \notin todo'.links => tree'[m] = Desired(m)
    BY <1>5, <1>b, <1>c, <1>d
       DEF LinkNew, Linking, TodoInv, PhaseInv, TypeOK, WorkSet, Owned, Kinds, Present, TreeWellFormed
  <2>3. \A m \in plan.work.links : \A k \in Above[m] :
          tree'[k] = "dir" \/ k \in todo'.create
    BY <1>5, <1>b, <1>c, <1>d
       DEF LinkNew, Linking, TodoInv, PhaseInv, TypeOK, WorkSet, Owned, Kinds, Present, TreeWellFormed
  <2>4. \A m \in todo'.create :
          tree'[m] = "absent" /\ \E k \in plan.work.links : m \in Above[k]
    BY <1>5, <1>b, <1>c, <1>d
       DEF LinkNew, Linking, TodoInv, PhaseInv, TypeOK, WorkSet, Owned, Kinds, Present, TreeWellFormed
  <2>5. /\ todo'.stale \cap plan.work.links = {}
        /\ todo'.stale \subseteq Owned' /\ Owned' \subseteq plan.work.links \cup todo'.stale
    BY <1>5, <1>b, <1>c, <1>d
       DEF LinkNew, Linking, TodoInv, PhaseInv, TypeOK, WorkSet, Owned, Kinds, Present, TreeWellFormed
  <2>6. temps' \subseteq todo'.staleTemps /\ \A m \in todo'.prune : tree'[m] = "dir"
    BY <1>5, <1>b, <1>c, <1>d
       DEF LinkNew, Linking, TodoInv, PhaseInv, TypeOK, WorkSet, Owned, Kinds, Present, TreeWellFormed
  <2> QED
    BY <2>1, <2>2, <2>3, <2>4, <2>5, <2>6 DEF TodoInv
<1>6. ASSUME NEW n \in Node, TempLink(n) PROVE TodoInv'
  BY <1>6, <1>b, <1>c, <1>d
     DEF TempLink, Linking, TypeOK, TodoInv, PhaseInv, WorkSet, Kinds, Present, Owned, Desired, Target
<1>7. ASSUME NEW n \in Node, RemoveStale(n) PROVE TodoInv'
  BY <1>7, <1>b, <1>c, <1>d
     DEF RemoveStale, Cleaning, TypeOK, TodoInv, PhaseInv, WorkSet, Kinds, Present, Owned, Desired, Target
<1>8. ASSUME NEW n \in Node, PruneDir(n) PROVE TodoInv'
  <2>1. /\ pc # "idle" /\ pc' # "idle" /\ plan' = plan
        /\ \A m : Desired(m)' = Desired(m)
    BY <1>8 DEF PruneDir, Pruning, Cleaning, Desired, Target
  <2>2. /\ todo'.links \subseteq plan.work.links
        /\ \A m \in plan.work.links : m \notin todo'.links => tree'[m] = Desired(m)
    BY <1>8, <1>b, <1>c, <1>d
       DEF PruneDir, Pruning, Cleaning, TodoInv, PhaseInv, TypeOK, WorkSet, Owned, Kinds, Present, TreeWellFormed, Empty
  <2>3. \A m \in plan.work.links : \A k \in Above[m] :
          tree'[k] = "dir" \/ k \in todo'.create
    BY <1>8, <1>b, <1>c, <1>d
       DEF PruneDir, Pruning, Cleaning, TodoInv, PhaseInv, TypeOK, WorkSet, Owned, Kinds, Present, TreeWellFormed, Empty
  <2>4. \A m \in todo'.create :
          tree'[m] = "absent" /\ \E k \in plan.work.links : m \in Above[k]
    BY <1>8, <1>b, <1>c, <1>d
       DEF PruneDir, Pruning, Cleaning, TodoInv, PhaseInv, TypeOK, WorkSet, Owned, Kinds, Present, TreeWellFormed, Empty
  <2>5. /\ todo'.stale \cap plan.work.links = {}
        /\ todo'.stale \subseteq Owned' /\ Owned' \subseteq plan.work.links \cup todo'.stale
    BY <1>8, <1>b, <1>c, <1>d
       DEF PruneDir, Pruning, Cleaning, TodoInv, PhaseInv, TypeOK, WorkSet, Owned, Kinds, Present, TreeWellFormed, Empty
  <2>6. temps' \subseteq todo'.staleTemps /\ \A m \in todo'.prune : tree'[m] = "dir"
    BY <1>8, <1>b, <1>c, <1>d
       DEF PruneDir, Pruning, Cleaning, TodoInv, PhaseInv, TypeOK, WorkSet, Owned, Kinds, Present, TreeWellFormed, Empty
  <2> QED
    BY <2>1, <2>2, <2>3, <2>4, <2>5, <2>6 DEF TodoInv
<1>9. CASE Rename
  <2>1. /\ pc # "idle" /\ pc' # "idle" /\ plan' = plan
        /\ \A m : Desired(m)' = Desired(m)
    BY <1>9 DEF Rename, Desired, Target
  <2>2. /\ todo'.links \subseteq plan.work.links
        /\ \A m \in plan.work.links : m \notin todo'.links => tree'[m] = Desired(m)
    BY <1>9, <1>b, <1>c, <1>d
       DEF Rename, TodoInv, PhaseInv, TypeOK, WorkSet, Owned, Kinds, Present, TreeWellFormed
  <2>3. \A m \in plan.work.links : \A k \in Above[m] :
          tree'[k] = "dir" \/ k \in todo'.create
    BY <1>9, <1>b, <1>c, <1>d
       DEF Rename, TodoInv, PhaseInv, TypeOK, WorkSet, Owned, Kinds, Present, TreeWellFormed
  <2>4. \A m \in todo'.create :
          tree'[m] = "absent" /\ \E k \in plan.work.links : m \in Above[k]
    BY <1>9, <1>b, <1>c, <1>d
       DEF Rename, TodoInv, PhaseInv, TypeOK, WorkSet, Owned, Kinds, Present, TreeWellFormed
  <2>5. /\ todo'.stale \cap plan.work.links = {}
        /\ todo'.stale \subseteq Owned' /\ Owned' \subseteq plan.work.links \cup todo'.stale
    BY <1>9, <1>b, <1>c, <1>d
       DEF Rename, TodoInv, PhaseInv, TypeOK, WorkSet, Owned, Kinds, Present, TreeWellFormed
  <2>6. temps' \subseteq todo'.staleTemps /\ \A m \in todo'.prune : tree'[m] = "dir"
    BY <1>9, <1>b, <1>c, <1>d
       DEF Rename, TodoInv, PhaseInv, TypeOK, WorkSet, Owned, Kinds, Present, TreeWellFormed
  <2> QED
    BY <2>1, <2>2, <2>3, <2>4, <2>5, <2>6 DEF TodoInv
<1>10. CASE Done
  BY <1>10, <1>b, <1>c, <1>d
     DEF Done, Pruning, Cleaning, TypeOK, TodoInv, PhaseInv, WorkSet, Kinds, Present, Owned, Desired, Target
<1>11. CASE Exit
  BY <1>11, <1>b, <1>c, <1>d
     DEF Exit, Release, TypeOK, TodoInv, PhaseInv, WorkSet, Kinds, Present, Owned, Desired, Target
<1>12. CASE RenameFail
  BY <1>12, <1>b, <1>c, <1>d
     DEF RenameFail, Release, TypeOK, TodoInv, PhaseInv, WorkSet, Kinds, Present, Owned, Desired, Target
<1>13. CASE Stop
  BY <1>13, <1>b, <1>c, <1>d
     DEF Stop, Release, TypeOK, TodoInv, PhaseInv, WorkSet, Kinds, Present, Owned, Desired, Target
<1>14. CASE UNCHANGED vars
  BY <1>14, <1>b, <1>c, <1>d DEF vars, TodoInv, Owned, Desired, Target
<1> QED
  BY <1>1, <1>2, <1>3, <1>4, <1>5, <1>6, <1>7, <1>8, <1>9, <1>10, <1>11,
     <1>12, <1>13, <1>14 DEF Next

(* A step of a build keeps what the user put into the tree. *)
LEMMA UserStep ==
  ASSUME BuildInv, [Next]_vars
  PROVE  UserEntriesKeptStep
<1> USE DEF BuildInv, TypeOK, TodoInv, PhaseInv, WorkSet, Kinds, Owned,
            UserEntriesKeptStep, Empty, Present, store
<1>b. None \notin Node /\ Hash \cap Kinds = {} /\ UserKinds \subseteq Kinds \ {"absent"}
  BY NodesAssumption, EntriesAssumption
<1>d. pc # "idle" => \A n \in plan.work.links : Desired(n) \in Hash /\ n \in Node
  BY TargetIsHash DEF PlanInv, Desired
<1>1. CASE OtherCommands
  BY <1>1, <1>b, <1>d DEF OtherCommands
<1>2. ASSUME NEW n \in Node, UserEdit(n) PROVE UserEntriesKeptStep
  BY <1>2, <1>b, <1>d DEF UserEdit
<1>3. ASSUME NEW layout \in Layout, Plan(layout) PROVE UserEntriesKeptStep
  BY <1>3, <1>b, <1>d DEF Plan
<1>4. ASSUME NEW n \in Node, CreateDir(n) PROVE UserEntriesKeptStep
  BY <1>4, <1>b, <1>d DEF CreateDir
<1>5. ASSUME NEW n \in Node, LinkNew(n) PROVE UserEntriesKeptStep
  BY <1>5, <1>b, <1>d DEF LinkNew, Linking
<1>6. ASSUME NEW n \in Node, TempLink(n) PROVE UserEntriesKeptStep
  BY <1>6, <1>b, <1>d DEF TempLink, Linking
<1>7. ASSUME NEW n \in Node, RemoveStale(n) PROVE UserEntriesKeptStep
  BY <1>7, <1>b, <1>d DEF RemoveStale, Cleaning
<1>8. ASSUME NEW n \in Node, PruneDir(n) PROVE UserEntriesKeptStep
  BY <1>8, <1>b, <1>d DEF PruneDir, Pruning, Cleaning
<1>9. CASE Rename
  BY <1>9, <1>b, <1>d DEF Rename
<1>10. CASE Done
  BY <1>10, <1>b, <1>d DEF Done, Pruning, Cleaning
<1>11. CASE Exit
  BY <1>11, <1>b, <1>d DEF Exit, Release
<1>12. CASE RenameFail
  BY <1>12, <1>b, <1>d DEF RenameFail, Release
<1>13. CASE Stop
  BY <1>13, <1>b, <1>d DEF Stop, Release
<1>14. CASE UNCHANGED vars
  BY <1>14, <1>b, <1>d DEF vars
<1> QED
  BY <1>1, <1>2, <1>3, <1>4, <1>5, <1>6, <1>7, <1>8, <1>9, <1>10, <1>11,
     <1>12, <1>13, <1>14 DEF Next

(* A step of a build keeps or replaces a link that stays desired. *)
LEMMA FlickerStep ==
  ASSUME BuildInv, [Next]_vars
  PROVE  LinksNeverFlickerStep
<1> USE DEF BuildInv, TypeOK, TodoInv, PhaseInv, WorkSet, Kinds, Owned,
            LinksNeverFlickerStep, store
<1>b. None \notin Node /\ Hash \cap Kinds = {} /\ UserKinds \subseteq Kinds \ {"absent"}
  BY NodesAssumption, EntriesAssumption
<1>d. pc # "idle" => \A n \in plan.work.links : Desired(n) \in Hash /\ n \in Node
  BY TargetIsHash DEF PlanInv, Desired
<1>1. CASE OtherCommands
  BY <1>1, <1>b, <1>d DEF OtherCommands
<1>2. ASSUME NEW n \in Node, UserEdit(n) PROVE LinksNeverFlickerStep
  BY <1>2, <1>b, <1>d DEF UserEdit
<1>3. ASSUME NEW layout \in Layout, Plan(layout) PROVE LinksNeverFlickerStep
  BY <1>3, <1>b, <1>d DEF Plan
<1>4. ASSUME NEW n \in Node, CreateDir(n) PROVE LinksNeverFlickerStep
  BY <1>4, <1>b, <1>d DEF CreateDir
<1>5. ASSUME NEW n \in Node, LinkNew(n) PROVE LinksNeverFlickerStep
  BY <1>5, <1>b, <1>d DEF LinkNew, Linking
<1>6. ASSUME NEW n \in Node, TempLink(n) PROVE LinksNeverFlickerStep
  BY <1>6, <1>b, <1>d DEF TempLink, Linking
<1>7. ASSUME NEW n \in Node, RemoveStale(n) PROVE LinksNeverFlickerStep
  BY <1>7, <1>b, <1>d DEF RemoveStale, Cleaning
<1>8. ASSUME NEW n \in Node, PruneDir(n) PROVE LinksNeverFlickerStep
  BY <1>8, <1>b, <1>d DEF PruneDir, Pruning, Cleaning
<1>9. CASE Rename
  BY <1>9, <1>b, <1>d DEF Rename
<1>10. CASE Done
  BY <1>10, <1>b, <1>d DEF Done, Pruning, Cleaning
<1>11. CASE Exit
  BY <1>11, <1>b, <1>d DEF Exit, Release
<1>12. CASE RenameFail
  BY <1>12, <1>b, <1>d DEF RenameFail, Release
<1>13. CASE Stop
  BY <1>13, <1>b, <1>d DEF Stop, Release
<1>14. CASE UNCHANGED vars
  BY <1>14, <1>b, <1>d DEF vars
<1> QED
  BY <1>1, <1>2, <1>3, <1>4, <1>5, <1>6, <1>7, <1>8, <1>9, <1>10, <1>11,
     <1>12, <1>13, <1>14 DEF Next

-----------------------------------------------------------------------------
(* Before the first build there is no tree. *)
LEMMA BuildInit == Init => BuildInv
<1> SUFFICES ASSUME Init PROVE BuildInv
  OBVIOUS
<1>1. TypeOK
  BY NoWorkType, NodesAssumption DEF Init, TypeOK, Kinds
<1> QED
  BY <1>1, NodesAssumption DEF Init, BuildInv, TreeWellFormed, Present, PlanInv, TodoInv,
     PhaseInv

(* The invariant of a sequence of builds, from which the theorems below are *)
(* read off.                                                                *)
THEOREM BuildCorrect == Spec => []BuildInv
<1>1. BuildInv /\ [Next]_vars => BuildInv'
  BY TypeStep, TreeStep, PlanStep, TodoStep, PhaseStep DEF BuildInv
<1> QED
  BY <1>1, BuildInit, PTL DEF Spec

(* Tree, plan and progress stay within their types. *)
THEOREM TypesHold == Spec => []TypeOK
<1>1. BuildInv => TypeOK
  BY DEF BuildInv
<1> QED
  BY <1>1, BuildCorrect, PTL

(* No step of a build finds a directory missing above what it works on,     *)
(* whatever earlier builds were interrupted and whatever the user did.      *)
THEOREM TreeStaysWellFormed == Spec => []TreeWellFormed
<1>1. BuildInv => TreeWellFormed
  BY DEF BuildInv
<1> QED
  BY <1>1, BuildCorrect, PTL

(* A build that completes leaves exactly the links the catalog asks for,    *)
(* whatever the tree was before.                                            *)
THEOREM BuildsConverge == Spec => []BuildConverges
<1>1. BuildInv => BuildConverges
  <2> SUFFICES ASSUME BuildInv, pc = "done"
               PROVE  /\ Owned = Outputs(plan.layout) /\ temps = {}
                      /\ \A e \in live : /\ tree[plan.layout[e]] = HashOf[e]
                                         /\ HashOf[e] \in blobs
    BY DEF BuildConverges
  <2>1. /\ TypeOK /\ plan.layout \in Layout /\ ~Collision(plan.layout) /\ TargetsValid
        /\ plan.work.links = Outputs(plan.layout)
    BY DEF BuildInv, PlanInv, TypeOK
  <2>2. /\ \A n \in Outputs(plan.layout) : tree[n] = Target(plan.layout, n)
        /\ Owned \subseteq Outputs(plan.layout) /\ temps = {}
    BY <2>1 DEF BuildInv, TodoInv, PhaseInv, Desired
  <2>3. Outputs(plan.layout) \subseteq Owned
    BY <2>1, <2>2, TargetIsHash DEF Owned
  <2>4. ASSUME NEW e \in live
        PROVE  tree[plan.layout[e]] = HashOf[e] /\ HashOf[e] \in blobs
    <3>1. plan.layout[e] \in Outputs(plan.layout) /\ HashOf[e] \in blobs
      BY <2>1 DEF Outputs, TargetsValid
    <3>2. Target(plan.layout, plan.layout[e]) = HashOf[e]
      BY <2>1, TargetOfEntry
    <3> QED
      BY <2>2, <3>1, <3>2
  <2> QED
    BY <2>2, <2>3, <2>4
<1> QED
  BY <1>1, BuildCorrect, PTL

(* A build leaves the user's files and foreign links alone and removes a    *)
(* directory only when nothing is in it.                                    *)
THEOREM UserEntriesStay == Spec => UserEntriesKept
<1>1. BuildInv /\ [Next]_vars => [UserEntriesKeptStep]_vars
  BY UserStep
<1> QED
  BY <1>1, BuildCorrect, PTL DEF Spec, UserEntriesKept

(* A link that stays desired is there after every step of a build that      *)
(* found it there.                                                          *)
THEOREM LinksStay == Spec => LinksNeverFlicker
<1>1. BuildInv /\ [Next]_vars => [LinksNeverFlickerStep]_vars
  BY FlickerStep
<1> QED
  BY <1>1, BuildCorrect, PTL DEF Spec, LinksNeverFlicker

-----------------------------------------------------------------------------
(* Where links lead.  A path is normalized component by component: a run   *)
(* is the sequence of the stacks on the way.                               *)

Part == Names \cup {".."}
Stacked(done, c) ==
  IF c # ".." THEN Append(done, c) ELSE IF done = << >> THEN done ELSE Front(done)
Runs(R, p) ==
  /\ R \in [0 .. Len(p) -> Seq(Part)] /\ R[0] = << >>
  /\ \A k \in 1 .. Len(p) : R[k] = Stacked(R[k - 1], p[k])

(* g is a value of the fold that lexical_normalize evaluates, up to the    *)
(* component n.                                                            *)
Folded(g, p, n) ==
  g = [s \in SUBSET (1 .. n) |->
         IF s = {} THEN << >> ELSE Stacked(g[s \ {Max(s)}], p[Max(s)])]

(* Every set of numbers has a least one. *)
LEMMA LeastNumber ==
  ASSUME NEW T, T \subseteq Nat, T # {}
  PROVE  \E n \in T : \A m \in T : n <= m
<1>1. PICK n \in T : \A m \in T : ~ (<<m, n>> \in OpToRel(<, Nat))
  BY NatLessThanWellFounded, WFMin
<1>2. \A m \in T : ~(m < n)
  BY <1>1 DEF OpToRel
<1>3. \A m \in T : n <= m
  BY <1>2
<1>. QED BY <1>3

(* The greatest number of a set up to n that holds n is n. *)
LEMMA MaxOfUpTo ==
  ASSUME NEW n \in Nat, NEW s \in SUBSET (1 .. n), n \in s
  PROVE  Max(s) = n
<1>1. \A x \in s : (\A y \in s : x >= y) <=> x = n
  OBVIOUS
<1>. QED BY <1>1 DEF Max

(* One step of a run stays among sequences of components. *)
LEMMA StackedType ==
  ASSUME NEW done \in Seq(Part), NEW c \in Part
  PROVE  Stacked(done, c) \in Seq(Part)
<1>1. CASE c # ".."
  BY <1>1, AppendProperties DEF Stacked
<1>2. CASE c = ".."
  <2>1. CASE done = << >>
    BY <1>2, <2>1 DEF Stacked
  <2>2. CASE done # << >>
    <3>1. Front(done) \in Seq(Part)
      BY <2>2 DEF Front
    <3>. QED BY <1>2, <2>2, <3>1 DEF Stacked
  <2>. QED BY <2>1, <2>2
<1>. QED BY <1>1, <1>2

(* The fold has a value. *)
LEMMA FoldExists ==
  ASSUME NEW p
  PROVE  \A n \in Nat : \E g : Folded(g, p, n)
<1>. DEFINE Bad == {n \in Nat : ~\E g : Folded(g, p, n)}
<1>. SUFFICES ASSUME Bad # {} PROVE FALSE
  OBVIOUS
<1>0. Bad \subseteq Nat
  OBVIOUS
<1>1. PICK n \in Bad : \A m \in Bad : n <= m
  <2>. HIDE DEF Bad
  <2>. QED BY <1>0, LeastNumber
<1>2. n # 0
  <2>. SUFFICES ASSUME n = 0 PROVE FALSE
    OBVIOUS
  <2>. DEFINE g == [s \in SUBSET (1 .. 0) |-> << >>]
  <2>1. SUBSET (1 .. 0) = {{}}
    OBVIOUS
  <2>2. Folded(g, p, 0)
    BY <2>1 DEF Folded
  <2>. QED BY <1>1, <2>2
<1>3. n \in Nat /\ n - 1 \in Nat /\ n - 1 \notin Bad
  BY <1>1, <1>2
<1>4. PICK g : Folded(g, p, n - 1)
  BY <1>3
<1>5. \A s \in SUBSET (1 .. n - 1) :
        g[s] = IF s = {} THEN << >> ELSE Stacked(g[s \ {Max(s)}], p[Max(s)])
  BY <1>4 DEF Folded
<1>. DEFINE G == [s \in SUBSET (1 .. n) |->
                    IF n \in s THEN Stacked(g[s \ {n}], p[n]) ELSE g[s]]
<1>6. ASSUME NEW s \in SUBSET (1 .. n)
      PROVE  G[s] = IF s = {} THEN << >> ELSE Stacked(G[s \ {Max(s)}], p[Max(s)])
  <2>1. CASE n \in s
    <3>1. Max(s) = n /\ s # {} /\ s \ {n} \in SUBSET (1 .. n) /\ n \notin s \ {n}
      BY <1>3, <2>1, MaxOfUpTo
    <3>2. G[s \ {n}] = g[s \ {n}]
      BY <3>1
    <3>. QED BY <2>1, <3>1, <3>2
  <2>2. CASE n \notin s
    <3>1. s \in SUBSET (1 .. n - 1)
      BY <1>3, <2>2
    <3>2. s \ {Max(s)} \in SUBSET (1 .. n) /\ n \notin s \ {Max(s)}
      BY <2>2
    <3>3. G[s] = g[s] /\ G[s \ {Max(s)}] = g[s \ {Max(s)}]
      BY <2>2, <3>2
    <3>. HIDE DEF G
    <3>. QED BY <1>5, <3>1, <3>3
  <2>. QED BY <2>1, <2>2
<1>7. G = [s \in SUBSET (1 .. n) |-> G[s]]
  OBVIOUS
<1>. HIDE DEF G
<1>8. Folded(G, p, n)
  BY <1>6, <1>7 DEF Folded
<1>. QED BY <1>1, <1>8

(* Two runs of one path agree. *)
LEMMA RunsAgree ==
  ASSUME NEW p \in Seq(Part), NEW R, NEW Q, Runs(R, p), Runs(Q, p)
  PROVE  \A k \in 0 .. Len(p) : R[k] = Q[k]
<1>. DEFINE Bad == {k \in 0 .. Len(p) : R[k] # Q[k]}
<1>. SUFFICES ASSUME Bad # {} PROVE FALSE
  OBVIOUS
<1>0. Bad \subseteq Nat
  OBVIOUS
<1>1. PICK k \in Bad : \A m \in Bad : k <= m
  <2>. HIDE DEF Bad
  <2>. QED BY <1>0, LeastNumber
<1>2. k \in 0 .. Len(p) /\ R[k] # Q[k] /\ Len(p) \in Nat
  OBVIOUS
<1>3. k # 0
  BY <1>2 DEF Runs
<1>4. k - 1 \in 0 .. Len(p) /\ k \in 1 .. Len(p) /\ ~(k <= k - 1)
  BY <1>2, <1>3
<1>5. R[k - 1] = Q[k - 1]
  BY <1>1, <1>4
<1>. QED BY <1>2, <1>4, <1>5 DEF Runs

(* A path has a run, and lexical_normalize is its last stack. *)
LEMMA NormalizeRuns ==
  ASSUME NEW p \in Seq(Part)
  PROVE  \E R : Runs(R, p) /\ lexical_normalize(p) = R[Len(p)]
<1>. DEFINE n == Len(p)
            g == CHOOSE f : Folded(f, p, n)
            R == [k \in 0 .. n |-> g[1 .. k]]
<1>1. n \in Nat /\ DOMAIN p = 1 .. n /\ \A k \in 1 .. n : p[k] \in Part
  BY LenProperties, ElementOfSeq
<1>2. Folded(g, p, n)
  BY <1>1, FoldExists
<1>3. lexical_normalize(p) = g[1 .. n]
  BY <1>1 DEF lexical_normalize, FoldLeft, MapThenFoldSet, Folded, Stacked
<1>. HIDE DEF n, g
<1>4. g[{}] = << >> /\ 1 .. 0 = {} /\ {} \in SUBSET (1 .. n)
  <2>1. {} \in SUBSET (1 .. n) /\ 1 .. 0 = {}
    OBVIOUS
  <2>2. g[{}] = << >>
    BY <1>2, <2>1 DEF Folded
  <2>. QED BY <2>1, <2>2
<1>5. ASSUME NEW k \in 1 .. n PROVE g[1 .. k] = Stacked(g[1 .. k - 1], p[k])
  <2>1. 1 .. k \in SUBSET (1 .. n) /\ 1 .. k # {} /\ (1 .. k) \ {k} = 1 .. k - 1
    BY <1>1
  <2>2. Max(1 .. k) = k
    <3>1. k \in Nat /\ k \in 1 .. k /\ 1 .. k \in SUBSET (1 .. k)
      BY <1>1
    <3>. QED BY <3>1, MaxOfUpTo
  <2>3. g[1 .. k] = Stacked(g[(1 .. k) \ {Max(1 .. k)}], p[Max(1 .. k)])
    BY <1>2, <2>1 DEF Folded
  <2>. QED BY <2>1, <2>2, <2>3
<1>6. \A k \in 0 .. n : g[1 .. k] \in Seq(Part)
  <2>. DEFINE Bad == {k \in 0 .. n : g[1 .. k] \notin Seq(Part)}
  <2>. SUFFICES ASSUME Bad # {} PROVE FALSE
    OBVIOUS
  <2>0. Bad \subseteq Nat
    BY <1>1
  <2>1. PICK k \in Bad : \A m \in Bad : k <= m
    <3>. HIDE DEF Bad
    <3>. QED BY <2>0, LeastNumber
  <2>2. k # 0
    <3>1. g[1 .. 0] \in Seq(Part)
      BY <1>4, EmptySeq
    <3>. QED BY <2>1, <3>1
  <2>3. k - 1 \in 0 .. n /\ k \in 1 .. n /\ ~(k <= k - 1)
    BY <1>1, <2>1, <2>2
  <2>4. g[1 .. k - 1] \in Seq(Part)
    BY <2>1, <2>3
  <2>5. g[1 .. k] \in Seq(Part)
    BY <1>1, <1>5, <2>3, <2>4, StackedType
  <2>. QED BY <2>1, <2>5
<1>7. R \in [0 .. n -> Seq(Part)] /\ R[0] = << >> /\ R[n] = g[1 .. n]
  BY <1>1, <1>4, <1>6
<1>8. ASSUME NEW k \in 1 .. n PROVE R[k] = Stacked(R[k - 1], p[k])
  <2>1. k \in 0 .. n /\ k - 1 \in 0 .. n
    BY <1>1
  <2>. QED BY <1>5, <2>1
<1>. HIDE DEF R
<1>9. Runs(R, p) /\ lexical_normalize(p) = R[Len(p)]
  BY <1>3, <1>7, <1>8 DEF Runs, n
<1>. QED BY <1>9

(* So it is the last stack of any run. *)
LEMMA NormalizeIs ==
  ASSUME NEW p \in Seq(Part), NEW R, Runs(R, p)
  PROVE  lexical_normalize(p) = R[Len(p)]
<1>1. PICK Q : Runs(Q, p) /\ lexical_normalize(p) = Q[Len(p)]
  BY NormalizeRuns
<1>2. Len(p) \in 0 .. Len(p)
  BY LenProperties
<1>. QED BY <1>1, <1>2, RunsAgree

Ups(p) == {i \in DOMAIN p : p[i] = ".."}

(* Names are stacked one on the other. *)
LEMMA NamesStack ==
  ASSUME NEW p \in Seq(Part), NEW R, Runs(R, p), NEW j \in 0 .. Len(p),
         \A k \in 1 .. j : p[k] # ".."
  PROVE  \A k \in 0 .. j : R[k] = SubSeq(p, 1, k)
<1>. DEFINE Bad == {k \in 0 .. j : R[k] # SubSeq(p, 1, k)}
<1>. SUFFICES ASSUME Bad # {} PROVE FALSE
  OBVIOUS
<1>0. Bad \subseteq Nat /\ Len(p) \in Nat
  OBVIOUS
<1>1. PICK k \in Bad : \A m \in Bad : k <= m
  <2>. HIDE DEF Bad
  <2>. QED BY <1>0, LeastNumber
<1>2. k # 0
  <2>1. SubSeq(p, 1, 0) = << >> /\ R[0] = << >>
    BY SubSeqEmpty DEF Runs
  <2>. QED BY <1>1, <2>1
<1>3. k - 1 \in 0 .. j /\ k \in 1 .. j /\ k \in 1 .. Len(p) /\ ~(k <= k - 1)
  BY <1>0, <1>1, <1>2
<1>4. R[k - 1] = SubSeq(p, 1, k - 1)
  BY <1>1, <1>3
<1>5. R[k] = Append(SubSeq(p, 1, k - 1), p[k])
  BY <1>3, <1>4 DEF Runs, Stacked
<1>6. Append(SubSeq(p, 1, k - 1), p[k]) = SubSeq(p, 1, k)
  BY <1>3
<1>. QED BY <1>1, <1>5, <1>6

(* A path of names is normal. *)
LEMMA NormalIsFixed ==
  ASSUME NEW p \in Seq(Part), Ups(p) = {}
  PROVE  lexical_normalize(p) = p
<1>1. PICK R : Runs(R, p) /\ lexical_normalize(p) = R[Len(p)]
  BY NormalizeRuns
<1>2. Len(p) \in 0 .. Len(p) /\ \A k \in 1 .. Len(p) : p[k] # ".."
  BY LenProperties DEF Ups
<1>3. R[Len(p)] = SubSeq(p, 1, Len(p))
  BY <1>1, <1>2, NamesStack
<1>. QED BY <1>1, <1>3, SubSeqFull

(* To cancel the leftmost `..' makes a path shorter and does not change    *)
(* what it is normalized to: the run of the shorter path leaves out the    *)
(* two steps that cancel.                                                  *)
LEMMA CancelKeeps ==
  ASSUME NEW p \in Seq(Part), Ups(p) # {}
  PROVE  /\ Cancel(p) \in Seq(Part) /\ Len(Cancel(p)) < Len(p)
         /\ lexical_normalize(Cancel(p)) = lexical_normalize(p)
<1>. DEFINE n == Len(p)
            i == CHOOSE i \in Ups(p) : \A j \in Ups(p) : i <= j
            m == IF i = 1 THEN 0 ELSE i - 2
            a == SubSeq(p, 1, i - 2)
            b == SubSeq(p, i + 1, n)
            q == a \o b
<1>1. n \in Nat /\ DOMAIN p = 1 .. n /\ \A k \in 1 .. n : p[k] \in Part
  BY LenProperties, ElementOfSeq
<1>2. i \in Ups(p) /\ \A j \in Ups(p) : i <= j
  <2>1. Ups(p) \subseteq Nat
    BY <1>1 DEF Ups
  <2>2. \E k \in Ups(p) : \A j \in Ups(p) : k <= j
    BY <2>1, LeastNumber
  <2>. QED BY <2>2
<1>3. Cancel(p) = q
  BY DEF Cancel, Ups
<1>. HIDE DEF i
<1>4. i \in 1 .. n /\ p[i] = ".." /\ \A k \in 1 .. i - 1 : p[k] # ".."
  BY <1>1, <1>2 DEF Ups
<1>. HIDE DEF n
<1>5. m \in Nat /\ m < i /\ m <= n
  BY <1>1, <1>4
<1>6. a \in Seq(Part) /\ Len(a) = m /\ \A k \in 1 .. m : a[k] = p[k]
  <2>1. \A k \in 1 .. i - 2 : p[k] \in Part
    BY <1>1, <1>4
  <2>2. /\ a \in Seq(Part) /\ Len(a) = IF 1 <= i - 2 THEN i - 2 - 1 + 1 ELSE 0
        /\ \A k \in 1 .. i - 2 - 1 + 1 : a[k] = p[1 + k - 1]
    <3>1. 1 \in Int /\ i - 2 \in Int
      BY <1>4
    <3>. HIDE DEF a
    <3>. QED BY <2>1, <3>1, SubSeqProperties DEF a
  <2>. QED BY <1>4, <2>2
<1>7. b \in Seq(Part) /\ Len(b) = n - i /\ \A k \in 1 .. n - i : b[k] = p[i + k]
  <2>1. \A k \in i + 1 .. n : p[k] \in Part
    BY <1>1, <1>4
  <2>2. /\ b \in Seq(Part) /\ Len(b) = IF i + 1 <= n THEN n - (i + 1) + 1 ELSE 0
        /\ \A k \in 1 .. n - (i + 1) + 1 : b[k] = p[i + 1 + k - 1]
    <3>1. i + 1 \in Int /\ n \in Int
      BY <1>1, <1>4
    <3>. QED BY <2>1, <3>1, SubSeqProperties
  <2>. QED BY <1>1, <1>4, <2>2
<1>. HIDE DEF a, b
<1>8. /\ q \in Seq(Part) /\ Len(q) = m + n - i
      /\ \A k \in 1 .. Len(q) : q[k] = IF k <= m THEN p[k] ELSE p[k - m + i]
  <2>1. /\ q \in Seq(Part) /\ Len(q) = m + (n - i)
        /\ \A k \in 1 .. m + (n - i) : q[k] = IF k <= m THEN a[k] ELSE b[k - m]
    <3>1. /\ q \in Seq(Part) /\ Len(q) = Len(a) + Len(b)
          /\ \A k \in 1 .. Len(a) + Len(b) :
               q[k] = IF k <= Len(a) THEN a[k] ELSE b[k - Len(a)]
      BY <1>6, <1>7, ConcatProperties
    <3>. HIDE DEF q, m
    <3>. QED BY <1>6, <1>7, <3>1
  <2>. HIDE DEF q, m
  <2>2. m + (n - i) = m + n - i
    BY <1>1, <1>4, <1>5
  <2>3. ASSUME NEW k \in 1 .. Len(q) PROVE q[k] = IF k <= m THEN p[k] ELSE p[k - m + i]
    <3>1. CASE k <= m
      BY <1>5, <1>6, <2>1, <3>1
    <3>2. CASE ~(k <= m)
      <4>1. k - m \in 1 .. n - i /\ i + (k - m) = k - m + i
        BY <1>1, <1>4, <1>5, <2>1, <3>2
      <4>. QED BY <1>7, <2>1, <3>2, <4>1
    <3>. QED BY <3>1, <3>2
  <2>. QED BY <2>1, <2>2, <2>3
<1>9. PICK R : Runs(R, p) /\ lexical_normalize(p) = R[n]
  BY NormalizeRuns DEF n
<1>10. /\ R \in [0 .. n -> Seq(Part)] /\ R[0] = << >>
       /\ \A k \in 1 .. n : R[k] = Stacked(R[k - 1], p[k])
  BY <1>9 DEF Runs, n
<1>11. R[i] = R[m]
  <2>1. i - 1 \in 0 .. Len(p) /\ i - 1 \in 0 .. i - 1
    BY <1>1, <1>4 DEF n
  <2>2. \A k \in 0 .. i - 1 : R[k] = SubSeq(p, 1, k)
    BY <1>4, <1>9, <2>1, NamesStack
  <2>3. R[i] = Stacked(SubSeq(p, 1, i - 1), "..")
    BY <1>4, <1>10, <2>1, <2>2
  <2>4. CASE i = 1
    <3>1. SubSeq(p, 1, i - 1) = << >> /\ m = 0
      BY <2>4, SubSeqEmpty
    <3>2. R[i] = << >>
      BY <2>3, <3>1 DEF Stacked
    <3>. QED BY <1>10, <3>1, <3>2
  <2>5. CASE i # 1
    <3>1. SubSeq(p, 1, i - 1) # << >>
      BY <1>1, <1>4, <2>5 DEF n
    <3>2. Front(SubSeq(p, 1, i - 1)) = SubSeq(p, 1, i - 2)
      BY <1>1, <1>4, <2>5 DEF Front, n
    <3>3. m = i - 2 /\ m \in 0 .. i - 1
      BY <1>4, <2>5
    <3>. QED BY <2>2, <2>3, <3>1, <3>2, <3>3 DEF Stacked
  <2>. QED BY <2>4, <2>5
<1>. DEFINE Q == [k \in 0 .. Len(q) |-> IF k <= m THEN R[k] ELSE R[k - m + i]]
<1>. HIDE DEF q, m
<1>12. \A k \in 0 .. Len(q) : /\ k <= m => k \in 0 .. n
                              /\ ~(k <= m) => k - m + i \in 1 .. n
  BY <1>1, <1>4, <1>5, <1>8
<1>13. Q \in [0 .. Len(q) -> Seq(Part)] /\ Q[0] = << >>
  <2>1. 0 \in 0 .. Len(q) /\ 0 <= m
    BY <1>1, <1>4, <1>5, <1>8
  <2>2. ASSUME NEW k \in 0 .. Len(q)
        PROVE  (IF k <= m THEN R[k] ELSE R[k - m + i]) \in Seq(Part)
    <3>1. CASE k <= m
      BY <1>10, <1>12, <3>1
    <3>2. CASE ~(k <= m)
      <4>1. k - m + i \in 0 .. n
        BY <1>1, <1>12, <3>2
      <4>. QED BY <1>10, <3>2, <4>1
    <3>. QED BY <3>1, <3>2
  <2>. QED BY <1>10, <2>1, <2>2
<1>14. ASSUME NEW k \in 1 .. Len(q) PROVE Q[k] = Stacked(Q[k - 1], q[k])
  <2>0. k \in 0 .. Len(q) /\ k - 1 \in 0 .. Len(q) /\ k \in Nat
    BY <1>1, <1>4, <1>5, <1>8
  <2>1. CASE k <= m
    <3>1. k - 1 <= m /\ k \in 1 .. n
      BY <1>5, <1>12, <2>0, <2>1
    <3>2. Q[k] = R[k] /\ Q[k - 1] = R[k - 1] /\ q[k] = p[k]
      BY <1>8, <2>0, <2>1, <3>1
    <3>. QED BY <1>10, <3>1, <3>2
  <2>2. CASE ~(k <= m)
    <3>1. k - m + i \in 1 .. n /\ q[k] = p[k - m + i] /\ Q[k] = R[k - m + i]
      BY <1>8, <1>12, <2>0, <2>2
    <3>2. Q[k - 1] = R[(k - m + i) - 1]
      <4>1. CASE k - 1 <= m
        <5>1. k - 1 = m /\ (k - m + i) - 1 = i
          BY <1>4, <1>5, <2>0, <2>2, <4>1
        <5>2. Q[k - 1] = R[k - 1]
          BY <2>0, <4>1
        <5>. QED BY <1>11, <5>1, <5>2
      <4>2. CASE ~(k - 1 <= m)
        <5>1. k - 1 - m + i = (k - m + i) - 1
          BY <1>4, <1>5, <2>0
        <5>2. Q[k - 1] = R[k - 1 - m + i]
          BY <2>0, <4>2
        <5>. QED BY <5>1, <5>2
      <4>. QED BY <4>1, <4>2
    <3>. DEFINE j == k - m + i
    <3>3. R[j] = Stacked(R[j - 1], p[j])
      <4>1. j \in 1 .. n
        BY <3>1
      <4>. HIDE DEF j
      <4>. QED BY <1>10, <4>1
    <3>. HIDE DEF Q
    <3>4. Q[k] = R[j] /\ Q[k - 1] = R[j - 1] /\ q[k] = p[j]
      BY <3>1, <3>2
    <3>. HIDE DEF j
    <3>. QED BY <3>3, <3>4
  <2>. QED BY <2>1, <2>2
<1>15. Q[Len(q)] = R[n]
  <2>1. Len(q) \in 0 .. Len(q) /\ Len(q) = m + n - i
    BY <1>1, <1>4, <1>5, <1>8
  <2>2. CASE Len(q) <= m
    <3>1. i = n /\ Len(q) = m
      BY <1>1, <1>4, <1>5, <2>1, <2>2
    <3>. QED BY <1>11, <2>1, <2>2, <3>1
  <2>3. CASE ~(Len(q) <= m)
    <3>1. Len(q) - m + i = n
      BY <1>1, <1>4, <1>5, <2>1
    <3>. QED BY <2>1, <2>3, <3>1
  <2>. QED BY <2>2, <2>3
<1>. HIDE DEF Q
<1>16. Runs(Q, q)
  BY <1>13, <1>14 DEF Runs
<1>17. lexical_normalize(q) = R[n]
  BY <1>8, <1>15, <1>16, NormalizeIs
<1>18. Len(q) < n
  BY <1>1, <1>4, <1>5, <1>8
<1>. QED BY <1>3, <1>8, <1>9, <1>17, <1>18 DEF n

(* f holds what is left after each of the first n cancellations. *)
Cancelled(f, p, n) == f = [k \in 0 .. n |-> IF k = 0 THEN p ELSE Cancel(f[k - 1])]

(* There is such an f. *)
LEMMA CancelledExists ==
  ASSUME NEW p
  PROVE  \A n \in Nat : \E f : Cancelled(f, p, n)
<1>. DEFINE Bad == {n \in Nat : ~\E f : Cancelled(f, p, n)}
<1>. SUFFICES ASSUME Bad # {} PROVE FALSE
  OBVIOUS
<1>0. Bad \subseteq Nat
  OBVIOUS
<1>1. PICK n \in Bad : \A m \in Bad : n <= m
  <2>. HIDE DEF Bad
  <2>. QED BY <1>0, LeastNumber
<1>2. n # 0
  <2>. DEFINE f == [k \in 0 .. 0 |-> p]
  <2>1. Cancelled(f, p, 0)
    BY DEF Cancelled
  <2>. QED BY <1>1, <2>1
<1>3. n \in Nat /\ n - 1 \in Nat /\ n - 1 \notin Bad
  BY <1>1, <1>2
<1>4. PICK f : Cancelled(f, p, n - 1)
  BY <1>3
<1>5. \A k \in 0 .. n - 1 : f[k] = IF k = 0 THEN p ELSE Cancel(f[k - 1])
  BY <1>4 DEF Cancelled
<1>. DEFINE F == [k \in 0 .. n |-> IF k = n THEN Cancel(f[n - 1]) ELSE f[k]]
<1>6. ASSUME NEW k \in 0 .. n PROVE F[k] = IF k = 0 THEN p ELSE Cancel(F[k - 1])
  <2>1. CASE k = n
    <3>1. n - 1 \in 0 .. n /\ n - 1 # n
      BY <1>3
    <3>. QED BY <1>2, <2>1, <3>1
  <2>2. CASE k # n
    <3>1. k \in 0 .. n - 1 /\ (k # 0 => k - 1 \in 0 .. n /\ k - 1 # n)
      BY <1>3, <2>2
    <3>. QED BY <1>5, <2>2, <3>1
  <2>. QED BY <2>1, <2>2
<1>7. F = [k \in 0 .. n |-> F[k]]
  OBVIOUS
<1>. HIDE DEF F
<1>8. Cancelled(F, p, n)
  BY <1>6, <1>7 DEF Cancelled
<1>. QED BY <1>1, <1>8

(* The stack of lexical_normalize and the file system's walk agree, on     *)
(* every path, however many `..' it has and wherever they are.             *)
THEOREM NormalizeLeads ==
  ASSUME NEW p \in Seq(Part)
  PROVE  Leads(p) = lexical_normalize(p)
<1>. DEFINE n == Len(p)
            f == CHOOSE h : Cancelled(h, p, n)
            Good(k) == /\ f[k] \in Seq(Part)
                       /\ lexical_normalize(f[k]) = lexical_normalize(p)
                       /\ Ups(f[k]) = {} \/ Len(f[k]) <= n - k
<1>1. n \in Nat
  BY LenProperties
<1>2. Cancelled(f, p, n)
  BY <1>1, CancelledExists
<1>3. Leads(p) = f[n]
  BY DEF Leads, Cancelled
<1>. HIDE DEF f
<1>4. f[0] = p /\ \A k \in 1 .. n : f[k] = Cancel(f[k - 1])
  BY <1>1, <1>2 DEF Cancelled
<1>5. Good(0)
  BY <1>1, <1>4
<1>6. ASSUME NEW k \in 1 .. n, Good(k - 1) PROVE Good(k)
  <2>1. f[k] = Cancel(f[k - 1])
    BY <1>4
  <2>2. CASE Ups(f[k - 1]) = {}
    <3>1. f[k] = f[k - 1]
      BY <2>1, <2>2 DEF Cancel, Ups
    <3>. QED BY <1>6, <2>2, <3>1
  <2>3. CASE Ups(f[k - 1]) # {}
    <3>1. /\ f[k] \in Seq(Part) /\ Len(f[k]) < Len(f[k - 1])
          /\ lexical_normalize(f[k]) = lexical_normalize(f[k - 1])
      BY <1>6, <2>1, <2>3, CancelKeeps
    <3>2. Len(f[k]) \in Nat /\ Len(f[k - 1]) \in Nat
      BY <1>6, <3>1, LenProperties
    <3>3. Len(f[k - 1]) <= n - (k - 1)
      BY <1>6, <2>3
    <3>4. Len(f[k]) <= n - k
      BY <1>1, <3>1, <3>2, <3>3
    <3>. QED BY <1>6, <3>1, <3>4
  <2>. QED BY <2>2, <2>3
<1>. HIDE DEF n
<1>7. \A k \in 0 .. n : Good(k)
  <2>. HIDE DEF Good
  <2>. DEFINE Bad == {k \in 0 .. n : ~Good(k)}
  <2>. SUFFICES ASSUME Bad # {} PROVE FALSE
    OBVIOUS
  <2>0. Bad \subseteq Nat
    BY <1>1
  <2>1. PICK k \in Bad : \A m \in Bad : k <= m
    <3>. HIDE DEF Bad
    <3>. QED BY <2>0, LeastNumber
  <2>2. k # 0
    BY <1>5, <2>1
  <2>3. k - 1 \in 0 .. n /\ k \in 1 .. n /\ ~(k <= k - 1)
    BY <1>1, <2>1, <2>2
  <2>4. Good(k - 1)
    BY <2>1, <2>3
  <2>. QED BY <1>6, <2>1, <2>3, <2>4
<1>8. /\ f[n] \in Seq(Part) /\ lexical_normalize(f[n]) = lexical_normalize(p)
      /\ Ups(f[n]) = {} \/ Len(f[n]) <= 0
  <2>1. n \in 0 .. n /\ n - n = 0
    BY <1>1
  <2>2. Good(n)
    <3>. HIDE DEF Good
    <3>. QED BY <1>7, <2>1
  <2>3. Ups(f[n]) = {} \/ Len(f[n]) <= n - n
    BY <2>2
  <2>. QED BY <2>1, <2>2, <2>3
<1>9. Ups(f[n]) = {}
  <2>1. Len(f[n]) \in Nat /\ DOMAIN f[n] = 1 .. Len(f[n])
    BY <1>8, LenProperties
  <2>. QED BY <1>8, <2>1 DEF Ups
<1>. QED BY <1>3, <1>8, <1>9, NormalIsFixed

(* The longest common prefix of two paths is one. *)
LEMMA CommonIsPrefix ==
  ASSUME NEW from \in Seq(Names), NEW to \in Seq(Names)
  PROVE  LET c == Len(LongestCommonPrefix({from, to})) IN
         /\ c \in 0 .. Len(from) /\ c \in 0 .. Len(to)
         /\ SubSeq(from, 1, c) = SubSeq(to, 1, c)
<1>. DEFINE CP == CommonPrefixes({from, to})
            d == Len(from)
            T == {d - Len(x) : x \in CP}
<1>1. d \in Nat /\ Len(to) \in Nat
  BY LenProperties
<1>2. \A x \in CP : /\ Len(x) \in Nat /\ Len(x) <= d /\ Len(x) <= Len(to)
                    /\ SubSeq(x, 1, Len(x)) = SubSeq(from, 1, Len(x))
                    /\ SubSeq(x, 1, Len(x)) = SubSeq(to, 1, Len(x))
  <2>. SUFFICES ASSUME NEW x \in CP
                PROVE  /\ Len(x) \in Nat /\ Len(x) <= d /\ Len(x) <= Len(to)
                       /\ SubSeq(x, 1, Len(x)) = SubSeq(from, 1, Len(x))
                       /\ SubSeq(x, 1, Len(x)) = SubSeq(to, 1, Len(x))
    OBVIOUS
  <2>1. PICK s \in {from, to} : x \in Prefixes(s)
    BY DEF CommonPrefixes
  <2>2. PICK l \in 0 .. Len(s) : x = SubSeq(s, 1, l)
    BY <2>1 DEF Prefixes
  <2>3. s \in Seq(Names) /\ Len(s) \in Nat
    BY <1>1
  <2>4. Len(x) \in Nat
    BY <2>2, <2>3
  <2>5. IsPrefix(x, from) /\ IsPrefix(x, to)
    BY DEF CommonPrefixes
  <2>. QED BY <2>4, <2>5 DEF IsPrefix
<1>3. SubSeq(from, 1, 0) \in CP
  <2>1. SubSeq(from, 1, 0) = << >> /\ SubSeq(to, 1, 0) = << >> /\ Len(<< >>) = 0
    BY SubSeqEmpty
  <2>2. SubSeq(from, 1, 0) \in Prefixes(from)
    BY <1>1 DEF Prefixes
  <2>3. IsPrefix(<< >>, from) /\ IsPrefix(<< >>, to)
    BY <1>1, <2>1, SubSeqEmpty DEF IsPrefix
  <2>. QED BY <2>1, <2>2, <2>3 DEF CommonPrefixes
<1>. HIDE DEF CP
<1>4. \E x \in CP : \A y \in CP : Len(y) <= Len(x)
  <2>1. T \subseteq Nat /\ T # {}
    BY <1>1, <1>2, <1>3
  <2>2. PICK t \in T : \A s \in T : t <= s
    <3>. HIDE DEF T
    <3>. QED BY <2>1, LeastNumber
  <2>3. PICK x \in CP : t = d - Len(x)
    OBVIOUS
  <2>4. ASSUME NEW y \in CP PROVE Len(y) <= Len(x)
    <3>1. d - Len(x) <= d - Len(y)
      BY <2>2, <2>3
    <3>. QED BY <1>1, <1>2, <3>1
  <2>. QED BY <2>4
<1>5. LongestCommonPrefix({from, to}) \in CP
  BY <1>4 DEF LongestCommonPrefix, CP
<1>. DEFINE x == LongestCommonPrefix({from, to})
<1>6. /\ Len(x) \in Nat /\ Len(x) <= d /\ Len(x) <= Len(to)
      /\ SubSeq(x, 1, Len(x)) = SubSeq(from, 1, Len(x))
      /\ SubSeq(x, 1, Len(x)) = SubSeq(to, 1, Len(x))
  <2>. HIDE DEF x
  <2>1. x \in CP
    BY <1>5 DEF x
  <2>. QED BY <1>2, <2>1
<1>. HIDE DEF x
<1>7. /\ Len(x) \in 0 .. Len(from) /\ Len(x) \in 0 .. Len(to)
      /\ SubSeq(from, 1, Len(x)) = SubSeq(to, 1, Len(x))
  BY <1>1, <1>6
<1>. QED BY <1>7 DEF x

(* A name is not `..'. *)
LEMMA NamesAreNot == ".." \notin Names /\ Names \subseteq Part
BY NameAssumption DEF Names, Part

(* The link from any directory to any path leads there: it climbs to the   *)
(* last directory the two have in common, and no further.                  *)
LEMMA LinkLeads ==
  ASSUME NEW from \in Seq(Names), NEW to \in Seq(Names)
  PROVE  LET link == relative_symlink_target(from, to) IN
         /\ link.abs = FALSE /\ from \o link.parts \in Seq(Part)
         /\ lexical_normalize(from \o link.parts) = to
<1>. DEFINE c == Len(LongestCommonPrefix({from, to}))
            d == Len(from)
            e == Len(to)
            u == d - c
            up == Up(u)
            rest == SubSeq(to, c + 1, e)
            p == from \o (up \o rest)
<1>1. /\ d \in Nat /\ e \in Nat /\ c \in 0 .. d /\ c \in 0 .. e
      /\ SubSeq(from, 1, c) = SubSeq(to, 1, c)
  BY CommonIsPrefix, LenProperties
<1>2. relative_symlink_target(from, to) = [abs |-> FALSE, parts |-> up \o rest]
  BY DEF relative_symlink_target
<1>. HIDE DEF c
<1>3. u \in Nat /\ c + u = d
  BY <1>1
<1>4. up \in Seq(Part) /\ Len(up) = u /\ \A k \in 1 .. u : up[k] = ".."
  <2>. HIDE DEF u
  <2>1. up \in [1 .. u -> Part]
    BY DEF Up, Part
  <2>2. up \in Seq(Part)
    BY <1>3, <2>1
  <2>. QED BY <1>3, <2>1, <2>2 DEF Up
<1>5. from \in Seq(Part) /\ to \in Seq(Part)
  BY NamesAreNot, SeqMonotonic
<1>6. rest \in Seq(Part) /\ Len(rest) = e - c /\ \A k \in 1 .. e - c : rest[k] = to[c + k]
  BY <1>1, <1>5
<1>. HIDE DEF d, e, u, up, rest
<1>7. /\ up \o rest \in Seq(Part) /\ Len(up \o rest) = u + (e - c)
      /\ \A k \in 1 .. u + (e - c) : (up \o rest)[k] = IF k <= u THEN ".." ELSE rest[k - u]
  <2>1. /\ up \o rest \in Seq(Part) /\ Len(up \o rest) = Len(up) + Len(rest)
        /\ \A k \in 1 .. Len(up) + Len(rest) :
             (up \o rest)[k] = IF k <= Len(up) THEN up[k] ELSE rest[k - Len(up)]
    BY <1>4, <1>6, ConcatProperties
  <2>2. \A k \in 1 .. u + (e - c) : k <= u => k \in 1 .. u
    BY <1>3
  <2>. QED BY <1>4, <1>6, <2>1, <2>2
<1>8. /\ p \in Seq(Part) /\ Len(p) = d + (u + (e - c))
      /\ \A k \in 1 .. Len(p) : p[k] = IF k <= d THEN from[k] ELSE (up \o rest)[k - d]
  BY <1>5, <1>7, ConcatProperties DEF d
<1>. DEFINE n == d + (u + (e - c))
            R == [k \in 0 .. n |->
                    IF k <= d THEN SubSeq(from, 1, k)
                    ELSE IF k <= d + u THEN SubSeq(from, 1, d - (k - d))
                    ELSE SubSeq(to, 1, c + (k - (d + u)))]
<1>. HIDE DEF p
<1>9. n \in Nat /\ n >= d + u /\ n = (d + u) + (e - c)
  BY <1>1, <1>3
<1>10. \A k \in 0 .. n :
         /\ k <= d => R[k] = SubSeq(from, 1, k)
         /\ k >= d /\ k <= d + u => R[k] = SubSeq(from, 1, d - (k - d))
         /\ k >= d + u => R[k] = SubSeq(to, 1, c + (k - (d + u)))
  <2>. TAKE k \in 0 .. n
  <2>1. k <= d => R[k] = SubSeq(from, 1, k)
    OBVIOUS
  <2>2. ASSUME k >= d, k <= d + u PROVE R[k] = SubSeq(from, 1, d - (k - d))
    <3>1. CASE k = d
      <4>1. d - (k - d) = k
        BY <1>1, <3>1
      <4>. QED BY <2>1, <3>1, <4>1
    <3>2. CASE k # d
      <4>1. ~(k <= d)
        BY <1>1, <1>9, <2>2, <3>2
      <4>. QED BY <2>2, <4>1
    <3>. QED BY <3>1, <3>2
  <2>3. ASSUME k >= d + u PROVE R[k] = SubSeq(to, 1, c + (k - (d + u)))
    <3>1. CASE k = d + u
      <4>1. /\ k >= d /\ k <= d + u /\ d - (k - d) = c /\ c + (k - (d + u)) = c
        BY <1>1, <1>3, <3>1
      <4>. HIDE DEF R
      <4>. QED BY <1>1, <2>2, <4>1
    <3>2. CASE k # d + u
      <4>1. ~(k <= d + u) /\ ~(k <= d)
        BY <1>1, <1>3, <1>9, <2>3, <3>2
      <4>. QED BY <4>1
    <3>. QED BY <3>1, <3>2
  <2>. QED BY <2>1, <2>2, <2>3
<1>11. R \in [0 .. n -> Seq(Part)]
  <2>1. \A k \in 0 .. d : SubSeq(from, 1, k) \in Seq(Part)
    BY <1>1, <1>5 DEF d
  <2>2. \A k \in 0 .. e : SubSeq(to, 1, k) \in Seq(Part)
    BY <1>1, <1>5 DEF e
  <2>3. \A k \in 0 .. n : /\ k <= d => k \in 0 .. d
                          /\ k >= d /\ k <= d + u => d - (k - d) \in 0 .. d
                          /\ k >= d + u => c + (k - (d + u)) \in 0 .. e
    BY <1>1, <1>3, <1>9
  <2>4. \A k \in 0 .. n : k <= d \/ (k >= d /\ k <= d + u) \/ k >= d + u
    BY <1>1, <1>3, <1>9
  <2>5. R = [k \in 0 .. n |-> R[k]]
    OBVIOUS
  <2>. HIDE DEF R
  <2>6. \A k \in 0 .. n : R[k] \in Seq(Part)
    BY <1>10, <2>1, <2>2, <2>3, <2>4
  <2>. QED BY <2>5, <2>6
<1>. HIDE DEF R
<1>12. R[0] = << >> /\ R[n] = to
  <2>1. 0 \in 0 .. n /\ 0 <= d /\ n \in 0 .. n /\ n >= d + u /\ c + (n - (d + u)) = e
    BY <1>1, <1>3, <1>9
  <2>2. R[0] = SubSeq(from, 1, 0) /\ R[n] = SubSeq(to, 1, e)
    <3>. HIDE DEF n
    <3>. QED BY <1>10, <2>1
  <2>. QED BY <2>2, SubSeqEmpty, SubSeqFull DEF e
<1>13. ASSUME NEW k \in 1 .. n PROVE R[k] = Stacked(R[k - 1], p[k])
  <2>0. /\ k \in 0 .. n /\ k - 1 \in 0 .. n /\ k \in 1 .. Len(p) /\ k \in Nat
    BY <1>8, <1>9
  <2>1. CASE k <= d
    <3>1. k - 1 <= d /\ k \in 1 .. d
      BY <1>1, <2>0, <2>1
    <3>2. R[k] = SubSeq(from, 1, k) /\ R[k - 1] = SubSeq(from, 1, k - 1) /\ p[k] = from[k]
      BY <1>8, <1>10, <2>0, <2>1, <3>1
    <3>3. from[k] # ".."
      BY <3>1, NamesAreNot, ElementOfSeq DEF d
    <3>4. Append(SubSeq(from, 1, k - 1), from[k]) = SubSeq(from, 1, k)
      BY <3>1 DEF d
    <3>. QED BY <3>2, <3>3, <3>4 DEF Stacked
  <2>2. CASE k > d /\ k <= d + u
    <3>. DEFINE j == d - (k - d)
    <3>1. /\ k >= d /\ k - 1 >= d /\ k - 1 <= d + u /\ d - ((k - 1) - d) = j + 1
          /\ j \in 0 .. d - 1
      BY <1>1, <1>3, <2>0, <2>2
    <3>2. R[k] = SubSeq(from, 1, j) /\ R[k - 1] = SubSeq(from, 1, j + 1)
      BY <1>10, <2>0, <2>2, <3>1
    <3>3. p[k] = ".."
      <4>1. ~(k <= d) /\ k - d \in 1 .. u + (e - c) /\ k - d <= u
        BY <1>1, <1>3, <2>0, <2>2
      <4>. QED BY <1>7, <1>8, <2>0, <4>1
    <3>. HIDE DEF j
    <3>4. /\ SubSeq(from, 1, j + 1) # << >>
          /\ Front(SubSeq(from, 1, j + 1)) = SubSeq(from, 1, j)
      BY <1>1, <3>1 DEF Front, d
    <3>. QED BY <3>2, <3>3, <3>4 DEF Stacked
  <2>3. CASE k > d + u
    <3>. DEFINE j == c + (k - (d + u))
    <3>1. /\ k >= d + u /\ k - 1 >= d + u /\ c + ((k - 1) - (d + u)) = j - 1 /\ j \in 1 .. e
      BY <1>1, <1>3, <1>9, <2>0, <2>3
    <3>2. R[k] = SubSeq(to, 1, j) /\ R[k - 1] = SubSeq(to, 1, j - 1)
      BY <1>10, <2>0, <3>1
    <3>3. p[k] = to[j]
      <4>1. /\ ~(k <= d) /\ k - d \in 1 .. u + (e - c) /\ ~(k - d <= u)
            /\ (k - d) - u \in 1 .. e - c /\ c + ((k - d) - u) = j
        BY <1>1, <1>3, <1>9, <2>0, <2>3
      <4>2. p[k] = rest[(k - d) - u]
        BY <1>7, <1>8, <2>0, <4>1
      <4>. QED BY <1>6, <4>1, <4>2
    <3>. HIDE DEF j
    <3>4. to[j] # ".."
      BY <3>1, NamesAreNot, ElementOfSeq DEF e
    <3>5. Append(SubSeq(to, 1, j - 1), to[j]) = SubSeq(to, 1, j)
      BY <3>1 DEF e
    <3>. QED BY <3>2, <3>3, <3>4, <3>5 DEF Stacked
  <2>. QED BY <1>1, <1>3, <2>0, <2>1, <2>2, <2>3
<1>14. Runs(R, p)
  BY <1>8, <1>11, <1>12, <1>13 DEF Runs
<1>15. lexical_normalize(p) = to
  BY <1>8, <1>12, <1>14, NormalizeIs
<1>. QED BY <1>2, <1>8, <1>15 DEF p

(* The roots, directories and link texts that are looked at. *)
PathsInv ==
  /\ root \in Seq(Names) /\ dir \in Seq(Names)
  /\ text.abs \in BOOLEAN /\ text.parts \in Seq(Part)

(* They stay what they are. *)
LEMMA PathsStay == PathsSpec => []PathsInv
<1>1. ASSUME NEW S, NEW n \in Nat PROVE SeqsTo(S, n) \subseteq Seq(S)
  BY DEF SeqsTo
<1>2. PathsInit => PathsInv
  BY <1>1, BoundsAssumption DEF PathsInit, PathsInv, Dirs, Part
<1>3. PathsInv /\ [PathsNext]_pathVars => PathsInv'
  BY DEF PathsInv, PathsNext, pathVars
<1>. QED BY <1>2, <1>3, PTL DEF PathsSpec

(* A link that build-tree writes leads to its blob, and the next run takes *)
(* it for its own: for roots, trees and link directories of any depth.     *)
THEOREM WrittenLinksDoLead == PathsSpec => []WrittenLinksLead
<1>1. PathsInv => WrittenLinksLead
  <2>. SUFFICES ASSUME PathsInv, NEW h \in Name
                PROVE  LET blob == blob_path(root, h)
                           link == relative_symlink_target(dir, blob) IN
                       Follow(dir, link) = blob /\ points_inside_blobs(dir, link, root)
    BY DEF WrittenLinksLead
  <2>. DEFINE blob == blob_path(root, h)
              link == relative_symlink_target(dir, blob)
  <2>1. h \in Names /\ "blobs" \in Names /\ root \in Seq(Names) /\ dir \in Seq(Names)
    BY DEF Names, PathsInv
  <2>2. blobs_dir(root) \in Seq(Names)
    BY <2>1 DEF blobs_dir
  <2>3. <<h, h, h>> \in Seq(Names)
    BY <2>1
  <2>4. blob \in Seq(Names)
    BY <2>2, <2>3, ConcatProperties DEF blob_path
  <2>5. IsPrefix(blobs_dir(root), blob)
    <3>. DEFINE b == blobs_dir(root)
                r == <<h, h, h>>
    <3>1. b \in Seq(Names) /\ r \in Seq(Names) /\ blob = b \o r
      BY <2>2, <2>3 DEF blob_path
    <3>. HIDE DEF b, r, blob
    <3>2. Len(b) <= Len(b \o r) /\ SubSeq(b, 1, Len(b)) = SubSeq(b \o r, 1, Len(b))
      BY <3>1
    <3>3. IsPrefix(b, blob)
      BY <3>1, <3>2 DEF IsPrefix
    <3>. QED BY <3>3 DEF b
  <2>. HIDE DEF blob
  <2>6. /\ link.abs = FALSE /\ dir \o link.parts \in Seq(Part)
        /\ lexical_normalize(dir \o link.parts) = blob
    BY <2>1, <2>4, LinkLeads
  <2>. HIDE DEF link
  <2>7. Follow(dir, link) = blob
    BY <2>6, NormalizeLeads DEF Follow
  <2>8. points_inside_blobs(dir, link, root)
    BY <2>5, <2>6 DEF points_inside_blobs, normalized_symlink_target, starts_with
  <2>. QED BY <2>7, <2>8 DEF blob, link
<1>. QED BY <1>1, PathsStay, PTL

(* A symlink is taken for the tool's own exactly if it leads into the      *)
(* store's blobs, whatever its text: for texts of any length, absolute or  *)
(* relative, with `..' anywhere and more of them than there are names.     *)
THEOREM OwnedLinksLeadInside == PathsSpec => []ManagedIffInside
<1>1. PathsInv => ManagedIffInside
  <2>. SUFFICES ASSUME PathsInv PROVE ManagedIffInside
    OBVIOUS
  <2>. DEFINE p == IF text.abs THEN text.parts ELSE dir \o text.parts
              q == lexical_normalize(p)
              b == blobs_dir(root)
  <2>1. p \in Seq(Part)
    <3>1. dir \in Seq(Part) /\ text.parts \in Seq(Part)
      BY NamesAreNot, SeqMonotonic DEF PathsInv
    <3>. QED BY <3>1, ConcatProperties
  <2>2. Follow(dir, text) = q /\ normalized_symlink_target(dir, text) = q
    BY <2>1, NormalizeLeads DEF Follow, normalized_symlink_target
  <2>3. q \in Seq(Part)
    <3>. HIDE DEF p
    <3>1. PICK R : Runs(R, p) /\ q = R[Len(p)]
      BY <2>1, NormalizeRuns
    <3>2. Len(p) \in 0 .. Len(p)
      BY <2>1, LenProperties
    <3>. HIDE DEF q
    <3>. QED BY <3>1, <3>2 DEF Runs
  <2>4. b \in Seq(Part)
    <3>1. root \in Seq(Part) /\ "blobs" \in Part
      BY NamesAreNot, SeqMonotonic DEF PathsInv, Names, Part
    <3>. QED BY <3>1 DEF blobs_dir
  <2>. HIDE DEF p, q, b
  <2>5. ASSUME IsPrefix(b, q) PROVE b \in Around(q)
    <3>1. Len(b) \in 0 .. Len(q) /\ SubSeq(b, 1, Len(b)) = SubSeq(q, 1, Len(b))
      BY <2>3, <2>4, <2>5, LenProperties DEF IsPrefix
    <3>2. b = SubSeq(q, 1, Len(b))
      BY <2>4, <3>1, SubSeqFull
    <3>. QED BY <3>1, <3>2 DEF Around
  <2>6. ASSUME b \in Around(q) PROVE IsPrefix(b, q)
    <3>1. PICK k \in 0 .. Len(q) : b = SubSeq(q, 1, k)
      BY <2>6 DEF Around
    <3>2. Len(b) = k
      BY <2>3, <3>1
    <3>3. SubSeq(b, 1, Len(b)) = b
      BY <2>4, SubSeqFull
    <3>4. Len(q) \in Nat /\ k <= Len(q)
      BY <2>3, <3>1, LenProperties
    <3>. QED BY <3>1, <3>2, <3>3, <3>4 DEF IsPrefix
  <2>7. points_inside_blobs(dir, text, root) <=> IsPrefix(b, q)
    BY <2>2 DEF points_inside_blobs, starts_with, b
  <2>. QED BY <2>2, <2>5, <2>6, <2>7 DEF ManagedIffInside, b
<1>. QED BY <1>1, PathsStay, PTL
=============================================================================
