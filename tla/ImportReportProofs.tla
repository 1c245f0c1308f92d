-------------------------- MODULE ImportReportProofs --------------------------
(***************************************************************************)
(* The report of an import is what the import did, and its dry run         *)
(* predicts it, for every finite source, every catalog and CAS before it   *)
(* and every order in which scanner, workers and writer take their turns.  *)
(*                                                                         *)
(* A counter is raised some time after, or before, what it counts happens  *)
(* to the store.  The invariant says by how much the two are apart: by the *)
(* files that are between the two steps.                                   *)
(***************************************************************************)
EXTENDS ImportReport, FiniteSetTheorems, TLAPS

(* The sum of the weights w over a set, and the weights of source files.   *)
Sum(w, S) == MapThenSumSet(LAMBDA x : w[x], S)
Weight == [p \in Path |-> Bytes(p)]

(* Contents of the source, and files the dry run would read: for them the  *)
(* row or the blob was missing, or was not the file's.                     *)
Contents == {content[p] : p \in Path}
ToHash ==
  {p \in Path : ~(MetadataSkip /\ p \in fresh /\ before.cas[before.rec[p]] = "intact")}

Blobs == [Hash -> {"absent", "intact", "resized"}]
Rows == [Path -> Hash \cup {None}]
Reports == [Counter -> Nat]

(* The types of the state. *)
Shape ==
  /\ content \in [Path -> Hash] /\ fresh \in SUBSET Path
  /\ before \in [cas : Blobs, rec : Rows] /\ cas \in Blobs /\ rec \in Rows
  /\ dry \in [todo : SUBSET Path, planned : SUBSET Hash,
              outcome : {"running", "ok", "failed"}, report : Reports]
  /\ job \in [Path -> {"todo", "pending", "known", "created", "reused", "bad",
                       "submitted", "inserted", "updated", "done"}]
  /\ outcome \in {"running", "ok", "failed"} /\ report \in Reports

(* Fresh rows are of the file's content, and during the dry run nothing    *)
(* changes.                                                                *)
InputInv ==
  /\ \A p \in fresh : before.rec[p] = content[p]
  /\ dry.outcome = "running" =>
       /\ cas = before.cas /\ rec = before.rec /\ outcome = "running"
       /\ \A p \in Path : job[p] = "todo"

-----------------------------------------------------------------------------
(* The dry run: its report is that of the files it has scanned. *)

Scanned == Path \ dry.todo
Absent(S) == {h \in Contents : before.cas[h] = "absent" /\ \E p \in S : content[p] = h}
Unrecorded(S) == {p \in S : before.rec[p] = None}

(* What the counters of a report say once the files of S are done. *)
Accounts(r, S) ==
  /\ r["files_seen"] = Cardinality(S) /\ r["bytes_seen"] = Sum(Weight, S)
  /\ r["blobs_created"] = Cardinality(Absent(S)) /\ r["bytes_written"] = Sum(Size, Absent(S))
  /\ r["blobs_created"] + r["blobs_reused"] = Cardinality(S)
  /\ r["source_records_inserted"] = Cardinality(Unrecorded(S))
  /\ r["source_records_inserted"] + r["source_records_updated"] = Cardinality(S)
  /\ r["files_skipped"] + r["files_hashed"] = Cardinality(S)
  /\ r["bytes_skipped"] + r["bytes_hashed"] = Sum(Weight, S)

DryInv ==
  /\ Accounts(dry.report, Scanned)
  /\ dry.report["files_hashed"] = Cardinality(Scanned \cap ToHash)
  /\ dry.report["bytes_written"] <= dry.report["bytes_hashed"]
  /\ dry.planned = Absent(Scanned)
  /\ \A p \in Scanned : before.cas[content[p]] # "resized"
  /\ dry.outcome = "ok" => dry.todo = {}
  /\ dry.outcome = "failed" => \E p \in Path : before.cas[content[p]] = "resized"

-----------------------------------------------------------------------------
(* The import: what it has done to the store, and which of it is counted.  *)

At(stages) == {p \in Path : job[p] \in stages}
Seen == {p \in Path : job[p] # "todo"}
Reading == At({"pending", "created", "reused", "bad"})
Created == At({"created"})
Inserted == At({"inserted"})
Unresolved ==
  At({"pending", "created", "reused", "bad", "submitted", "inserted", "updated"})
New == {p \in Path : before.rec[p] = None /\ rec[p] # None}

(* Blobs only come; a file's row stays until its request is committed, and *)
(* its blob is there before it is submitted.                               *)
StoreInv ==
  /\ \A h \in Hash : cas[h] # before.cas[h] =>
       before.cas[h] = "absent" /\ cas[h] = "intact" /\ h \in Contents
  /\ \A p \in Path :
       /\ job[p] \notin {"inserted", "updated", "done"} => rec[p] = before.rec[p]
       /\ job[p] \in {"inserted", "updated", "done"} => rec[p] = content[p]
       /\ job[p] = "known" => before.rec[p] = content[p]
       /\ job[p] \notin {"todo", "pending", "bad"} => cas[content[p]] = "intact"
  /\ outcome = "ok" => \A p \in Path : job[p] = "done"

(* Files are seen, then skipped or read. *)
ReadCounts ==
  /\ report["files_seen"] = Cardinality(Seen) /\ report["bytes_seen"] = Sum(Weight, Seen)
  /\ report["files_skipped"] + report["files_hashed"] + Cardinality(Reading) = Cardinality(Seen)
  /\ report["bytes_skipped"] + report["bytes_hashed"] + Sum(Weight, Reading) = Sum(Weight, Seen)
  /\ report["files_hashed"] + Cardinality(Reading) <= Cardinality(Seen \cap ToHash)

(* Each such file had its blob created or reused. *)
BlobCounts ==
  /\ report["blobs_created"] + report["blobs_reused"] =
       report["files_skipped"] + report["files_hashed"]
  /\ report["blobs_created"] + Cardinality(Created) = Cardinality(Installed)
  /\ report["bytes_written"] + Sum(Weight, Created) = Sum(Size, Installed)
  /\ report["bytes_written"] <= report["bytes_hashed"]

(* And each file seen has its row inserted or updated in the end. *)
RowCounts ==
  /\ report["source_records_inserted"] + Cardinality(Inserted) = Cardinality(New)
  /\ report["source_records_inserted"] + report["source_records_updated"]
       + Cardinality(Unresolved) = Cardinality(Seen)

CountInv == ReadCounts /\ BlobCounts /\ RowCounts

ReportInv == Shape /\ InputInv /\ DryInv /\ StoreInv /\ CountInv

-----------------------------------------------------------------------------
(* Sums over finite sets. *)

SomeOf(s) == CHOOSE x \in s : TRUE

(* g is a value of the fold that MapThenSumSet evaluates. *)
Folds(g, w, S) ==
  g = [s \in SUBSET S |-> IF s = {} THEN 0 ELSE w[SomeOf(s)] + g[s \ {SomeOf(s)}]]

(* G adds up the weights w over the subsets of D, in whatever order. *)
Adds(G, w, D) ==
  /\ G \in [SUBSET D -> Nat] /\ G[{}] = 0
  /\ \A s \in SUBSET D : \A x \in D \ s : G[s \cup {x}] = G[s] + w[x]

(* A family of finite sets has a member that contains no other. *)
LEMMA SmallestSet ==
  ASSUME NEW D, IsFiniteSet(D), NEW F, F \subseteq SUBSET D, F # {}
  PROVE  \E s \in F : \A t \in F : t \subseteq s => t = s
<1>1. F \subseteq FiniteSubsetsOf(D)
  BY FS_Subset DEF FiniteSubsetsOf
<1>2. PICK s \in F : \A t \in F : ~(<<t, s>> \in StrictSubsetOrdering(D))
  BY <1>1, WFMin, FS_StrictSubsetOrderingWellFounded
<1>3. ASSUME NEW t \in F, t \subseteq s PROVE t = s
  <2>1. t \in SUBSET D /\ s \in SUBSET D
    OBVIOUS
  <2>2. t # s => <<t, s>> \in StrictSubsetOrdering(D)
    BY <2>1, <1>3 DEF StrictSubsetOrdering
  <2>. QED BY <2>2, <1>2
<1>4. \A t \in F : t \subseteq s => t = s
  BY <1>3
<1>. QED BY <1>4

(* Every finite set of weights can be added up. *)
LEMMA AdderExists ==
  ASSUME NEW D, IsFiniteSet(D), NEW w, \A x \in D : w[x] \in Nat
  PROVE  \E G : Adds(G, w, D)
<1>. DEFINE Bad == {E \in SUBSET D : ~\E G : Adds(G, w, E)}
<1>. SUFFICES ASSUME Bad # {} PROVE FALSE
  OBVIOUS
<1>0. Bad \subseteq SUBSET D
  OBVIOUS
<1>1. PICK E \in Bad : \A t \in Bad : t \subseteq E => t = E
  <2>. HIDE DEF Bad
  <2>. QED BY <1>0, SmallestSet
<1>2. E # {}
  <2>. SUFFICES ASSUME E = {} PROVE FALSE
    OBVIOUS
  <2>. DEFINE G == [s \in SUBSET {} |-> 0]
  <2>1. Adds(G, w, {})
    BY DEF Adds
  <2>. QED BY <2>1
<1>3. PICK d : d \in E
  BY <1>2
<1>. DEFINE E0 == E \ {d}
<1>4. E0 \notin Bad
  BY <1>1, <1>3
<1>5. PICK G : Adds(G, w, E0)
  BY <1>4
<1>. DEFINE H == [s \in SUBSET E |-> IF d \in s THEN G[s \ {d}] + w[d] ELSE G[s]]
<1>6. w[d] \in Nat
  BY <1>3
<1>7. G \in [SUBSET E0 -> Nat] /\ G[{}] = 0
  BY <1>5 DEF Adds
<1>8. \A s \in SUBSET E0 : \A x \in E0 \ s : G[s \cup {x}] = G[s] + w[x]
  BY <1>5 DEF Adds
<1>9. \A s \in SUBSET E : s \ {d} \in SUBSET E0 /\ (d \notin s => s \in SUBSET E0)
  OBVIOUS
<1>10. H \in [SUBSET E -> Nat]
  BY <1>6, <1>7, <1>9
<1>11. H[{}] = 0
  BY <1>7
<1>12. ASSUME NEW s \in SUBSET E, NEW x \in E \ s PROVE H[s \cup {x}] = H[s] + w[x]
  <2>1. CASE x = d
    <3>1. (s \cup {x}) \ {d} = s /\ d \notin s
      BY <2>1
    <3>. QED BY <3>1, <2>1
  <2>2. CASE x # d /\ d \notin s
    <3>1. d \notin s \cup {x} /\ s \in SUBSET E0 /\ x \in E0 \ s
      BY <2>2
    <3>. QED BY <3>1, <1>8
  <2>3. CASE x # d /\ d \in s
    <3>1. /\ (s \cup {x}) \ {d} = (s \ {d}) \cup {x}
          /\ s \ {d} \in SUBSET E0 /\ x \in E0 \ (s \ {d}) /\ d \in s \cup {x}
      BY <2>3
    <3>2. G[(s \ {d}) \cup {x}] = G[s \ {d}] + w[x]
      BY <3>1, <1>8
    <3>3. G[s \ {d}] \in Nat /\ w[x] \in Nat
      BY <3>1, <1>7
    <3>4. H[s \cup {x}] = G[(s \cup {x}) \ {d}] + w[d] /\ H[s] = G[s \ {d}] + w[d]
      BY <3>1, <2>3
    <3>5. H[s \cup {x}] = G[(s \ {d}) \cup {x}] + w[d]
      BY <3>1, <3>4
    <3>. DEFINE a == G[s \ {d}]
    <3>6. a \in Nat /\ H[s \cup {x}] = (a + w[x]) + w[d] /\ H[s] = a + w[d]
      BY <3>2, <3>3, <3>4, <3>5
    <3>. HIDE DEF H, a
    <3>. QED BY <3>3, <3>6, <1>6
  <2>. QED BY <2>1, <2>2, <2>3
<1>. HIDE DEF H
<1>13. Adds(H, w, E)
  BY <1>10, <1>11, <1>12 DEF Adds
<1>. QED BY <1>13, <1>1

(* What adds up over a set adds up over its subsets. *)
LEMMA AdderWithin ==
  ASSUME NEW G, NEW w, NEW D, Adds(G, w, D), NEW S \in SUBSET D
  PROVE  Adds([s \in SUBSET S |-> G[s]], w, S)
<1>1. ASSUME NEW s \in SUBSET S, NEW x \in S \ s PROVE G[s \cup {x}] = G[s] + w[x]
  BY DEF Adds
<1>2. [s \in SUBSET S |-> G[s]] \in [SUBSET S -> Nat] /\ G[{}] = 0
  BY DEF Adds
<1>. QED BY <1>1, <1>2 DEF Adds

(* The fold has one value, the sum. *)
LEMMA FoldIsSum ==
  ASSUME NEW S, IsFiniteSet(S), NEW w, \A x \in S : w[x] \in Nat,
         NEW G, Adds(G, w, S), NEW g
  PROVE  Folds(g, w, S) <=> g = G
<1>1. \A s \in SUBSET S : s # {} =>
        /\ SomeOf(s) \in s
        /\ G[s] = w[SomeOf(s)] + G[s \ {SomeOf(s)}]
  <2>. SUFFICES ASSUME NEW s \in SUBSET S, s # {}
                PROVE  SomeOf(s) \in s /\ G[s] = w[SomeOf(s)] + G[s \ {SomeOf(s)}]
    OBVIOUS
  <2>1. SomeOf(s) \in s
    BY DEF SomeOf
  <2>. DEFINE x == SomeOf(s)
  <2>. HIDE DEF x
  <2>2. x \in s
    BY <2>1 DEF x
  <2>3. s \ {x} \in SUBSET S /\ x \in S \ (s \ {x}) /\ (s \ {x}) \cup {x} = s
    BY <2>2
  <2>4. G[s] = G[s \ {x}] + w[x]
    BY <2>3 DEF Adds
  <2>5. G[s \ {x}] \in Nat /\ w[x] \in Nat
    BY <2>2, <2>3 DEF Adds
  <2>6. G[s \ {x}] + w[x] = w[x] + G[s \ {x}]
    BY <2>5
  <2>. QED BY <2>2, <2>4, <2>6 DEF x
<1>2. G \in [SUBSET S -> Nat] /\ G[{}] = 0
  BY DEF Adds
<1>3. ASSUME g = G PROVE Folds(g, w, S)
  <2>1. \A s \in SUBSET S :
          g[s] = IF s = {} THEN 0 ELSE w[SomeOf(s)] + g[s \ {SomeOf(s)}]
    BY <1>1, <1>2, <1>3
  <2>. QED BY <1>2, <1>3, <2>1 DEF Folds
<1>4. ASSUME Folds(g, w, S) PROVE g = G
  <2>. DEFINE Bad == {s \in SUBSET S : g[s] # G[s]}
  <2>1. DOMAIN g = SUBSET S /\ g = [s \in SUBSET S |-> g[s]]
    BY <1>4 DEF Folds
  <2>2. \A s \in SUBSET S :
          g[s] = IF s = {} THEN 0 ELSE w[SomeOf(s)] + g[s \ {SomeOf(s)}]
    BY <1>4 DEF Folds
  <2>3. ASSUME Bad # {} PROVE FALSE
    <3>0. Bad \subseteq SUBSET S
      OBVIOUS
    <3>1. PICK s \in Bad : \A t \in Bad : t \subseteq s => t = s
      <4>. HIDE DEF Bad
      <4>. QED BY <2>3, <3>0, SmallestSet
    <3>2. s # {}
      BY <1>2, <2>2, <3>1
    <3>3. s \ {SomeOf(s)} \notin Bad /\ s \ {SomeOf(s)} \in SUBSET S
      BY <1>1, <3>1, <3>2
    <3>. QED BY <1>1, <2>2, <3>1, <3>2, <3>3
  <2>. QED BY <1>2, <2>1, <2>3
<1>. QED BY <1>3, <1>4

(* Sum is that value, whichever adder is taken. *)
LEMMA SumIsAdder ==
  ASSUME NEW D, IsFiniteSet(D), NEW w, \A x \in D : w[x] \in Nat, NEW G, Adds(G, w, D),
         NEW S \in SUBSET D
  PROVE  Sum(w, S) = G[S]
<1>. DEFINE R == [s \in SUBSET S |-> G[s]]
<1>1. Adds(R, w, S) /\ IsFiniteSet(S)
  BY AdderWithin, FS_Subset
<1>2. Sum(w, S) = (CHOOSE g : Folds(g, w, S))[S]
  BY DEF Sum, MapThenSumSet, MapThenFoldSet, SomeOf, Folds
<1>3. \A g : Folds(g, w, S) <=> g = R
  BY <1>1, FoldIsSum
<1>4. (CHOOSE g : Folds(g, w, S)) = R
  BY <1>3
<1>5. R[S] = G[S]
  OBVIOUS
<1>. QED BY <1>2, <1>4, <1>5

(* The sum over the empty set, with one element more, with one less. *)
LEMMA SumRules ==
  ASSUME NEW D, IsFiniteSet(D), NEW w, \A x \in D : w[x] \in Nat
  PROVE  /\ Sum(w, {}) = 0
         /\ \A S \in SUBSET D : Sum(w, S) \in Nat
         /\ \A S \in SUBSET D : \A x \in D \ S : Sum(w, S \cup {x}) = Sum(w, S) + w[x]
         /\ \A S \in SUBSET D : \A x \in S : Sum(w, S) = Sum(w, S \ {x}) + w[x]
<1>1. PICK G : Adds(G, w, D)
  BY AdderExists
<1>2. \A S \in SUBSET D : Sum(w, S) = G[S]
  BY <1>1, SumIsAdder
<1>3. {} \in SUBSET D /\ G \in [SUBSET D -> Nat] /\ G[{}] = 0
  BY <1>1 DEF Adds
<1>4. ASSUME NEW S \in SUBSET D, NEW x \in D \ S PROVE Sum(w, S \cup {x}) = Sum(w, S) + w[x]
  <2>1. S \cup {x} \in SUBSET D
    OBVIOUS
  <2>. QED BY <1>1, <1>2, <2>1 DEF Adds
<1>5. ASSUME NEW S \in SUBSET D, NEW x \in S PROVE Sum(w, S) = Sum(w, S \ {x}) + w[x]
  <2>1. S \ {x} \in SUBSET D /\ x \in D \ (S \ {x}) /\ (S \ {x}) \cup {x} = S
    OBVIOUS
  <2>. QED BY <1>4, <2>1
<1>. QED BY <1>2, <1>3, <1>4, <1>5

(* Sums of weights are monotone. *)
LEMMA SumWithin ==
  ASSUME NEW D, IsFiniteSet(D), NEW w, \A x \in D : w[x] \in Nat
  PROVE  \A S \in SUBSET D : Sum(w, S) <= Sum(w, D)
<1>. DEFINE Bad == {E \in SUBSET D : \E S \in SUBSET E : ~(Sum(w, S) <= Sum(w, E))}
<1>. SUFFICES ASSUME Bad # {} PROVE FALSE
  OBVIOUS
<1>0. Bad \subseteq SUBSET D
  OBVIOUS
<1>1. PICK E \in Bad : \A t \in Bad : t \subseteq E => t = E
  <2>. HIDE DEF Bad
  <2>. QED BY <1>0, SmallestSet
<1>2. PICK S \in SUBSET E : ~(Sum(w, S) <= Sum(w, E))
  BY <1>1
<1>3. Sum(w, E) \in Nat /\ Sum(w, S) \in Nat
  BY SumRules
<1>4. S # E
  BY <1>2, <1>3
<1>5. PICK x \in E : x \notin S
  BY <1>4
<1>6. S \in SUBSET (E \ {x}) /\ E \ {x} # E /\ E \ {x} \subseteq E /\ E \ {x} \in SUBSET D
  BY <1>5
<1>7. Sum(w, S) <= Sum(w, E \ {x})
  BY <1>1, <1>6
<1>8. Sum(w, E) = Sum(w, E \ {x}) + w[x] /\ Sum(w, E \ {x}) \in Nat /\ w[x] \in Nat
  BY <1>6, SumRules
<1>. QED BY <1>2, <1>3, <1>7, <1>8

-----------------------------------------------------------------------------
(* Sets of files and of contents. *)

(* The source is a finite set of files with finitely many contents. *)
LEMMA ContentsFinite ==
  ASSUME content \in [Path -> Hash]
  PROVE  IsFiniteSet(Contents) /\ Contents \subseteq Hash
<1>1. content \in Surjection(Path, Contents)
  BY DEF Surjection, Contents
<1>2. Contents \subseteq Hash
  BY DEF Contents
<1>. QED BY <1>1, <1>2, FS_Surjection, PathAssumption

(* One file more, one file less: its number and its bytes. *)
LEMMA FileSets ==
  ASSUME content \in [Path -> Hash]
  PROVE  /\ Cardinality({}) = 0 /\ Sum(Weight, {}) = 0
         /\ \A S \in SUBSET Path :
              /\ Cardinality(S) \in Nat /\ Sum(Weight, S) \in Nat
              /\ Cardinality(S) <= Cardinality(Path) /\ Sum(Weight, S) <= Sum(Weight, Path)
              /\ \A p \in Path \ S :
                   /\ Cardinality(S \cup {p}) = Cardinality(S) + 1
                   /\ Sum(Weight, S \cup {p}) = Sum(Weight, S) + Bytes(p)
              /\ \A p \in S :
                   /\ Cardinality(S) = Cardinality(S \ {p}) + 1
                   /\ Sum(Weight, S) = Sum(Weight, S \ {p}) + Bytes(p)
         /\ \A p \in Path : Bytes(p) \in Nat
<1>1. \A p \in Path : Weight[p] = Bytes(p) /\ Weight[p] \in Nat
  BY SizeAssumption DEF Weight, Bytes
<1>2. \A S \in SUBSET Path : Sum(Weight, S) <= Sum(Weight, Path)
  BY <1>1, SumWithin, PathAssumption
<1>3. /\ Sum(Weight, {}) = 0
      /\ \A S \in SUBSET Path : Sum(Weight, S) \in Nat
      /\ \A S \in SUBSET Path : \A x \in Path \ S :
           Sum(Weight, S \cup {x}) = Sum(Weight, S) + Weight[x]
      /\ \A S \in SUBSET Path : \A x \in S :
           Sum(Weight, S) = Sum(Weight, S \ {x}) + Weight[x]
  BY <1>1, SumRules, PathAssumption
<1>4. \A S \in SUBSET Path :
        /\ IsFiniteSet(S) /\ Cardinality(S) \in Nat /\ Cardinality(S) <= Cardinality(Path)
        /\ \A p \in Path \ S : Cardinality(S \cup {p}) = Cardinality(S) + 1
        /\ \A p \in S : Cardinality(S) = Cardinality(S \ {p}) + 1
  <2>. SUFFICES ASSUME NEW S \in SUBSET Path
       PROVE  /\ IsFiniteSet(S) /\ Cardinality(S) \in Nat
              /\ Cardinality(S) <= Cardinality(Path)
              /\ \A p \in Path \ S : Cardinality(S \cup {p}) = Cardinality(S) + 1
              /\ \A p \in S : Cardinality(S) = Cardinality(S \ {p}) + 1
    OBVIOUS
  <2>1. IsFiniteSet(S) /\ Cardinality(S) <= Cardinality(Path)
    BY FS_Subset, PathAssumption
  <2>2. Cardinality(S) \in Nat
    BY <2>1, FS_CardinalityType
  <2>3. \A p \in Path \ S : Cardinality(S \cup {p}) = Cardinality(S) + 1
    BY <2>1, FS_AddElement
  <2>4. \A p \in S : Cardinality(S) = Cardinality(S \ {p}) + 1
    <3>. TAKE p \in S
    <3>1. IsFiniteSet(S \ {p}) /\ (S \ {p}) \cup {p} = S /\ p \notin S \ {p}
      BY <2>1, FS_RemoveElement
    <3>. QED BY <3>1, FS_AddElement
  <2>. QED BY <2>1, <2>2, <2>3, <2>4
<1>5. Cardinality({}) = 0
  BY FS_EmptySet
<1>. QED BY <1>1, <1>2, <1>3, <1>4, <1>5

(* The same for sets of contents. *)
LEMMA ContentSets ==
  ASSUME content \in [Path -> Hash]
  PROVE  /\ Cardinality({}) = 0 /\ Sum(Size, {}) = 0
         /\ \A S \in SUBSET Contents :
              /\ Cardinality(S) \in Nat /\ Sum(Size, S) \in Nat
              /\ \A h \in Contents \ S :
                   /\ Cardinality(S \cup {h}) = Cardinality(S) + 1
                   /\ Sum(Size, S \cup {h}) = Sum(Size, S) + Size[h]
<1>1. IsFiniteSet(Contents) /\ \A h \in Contents : Size[h] \in Nat
  BY ContentsFinite, SizeAssumption
<1>2. /\ Sum(Size, {}) = 0
      /\ \A S \in SUBSET Contents : Sum(Size, S) \in Nat
      /\ \A S \in SUBSET Contents : \A h \in Contents \ S :
           Sum(Size, S \cup {h}) = Sum(Size, S) + Size[h]
  BY <1>1, SumRules
<1>3. \A S \in SUBSET Contents :
        /\ Cardinality(S) \in Nat
        /\ \A h \in Contents \ S : Cardinality(S \cup {h}) = Cardinality(S) + 1
  <2>. SUFFICES ASSUME NEW S \in SUBSET Contents
       PROVE  /\ Cardinality(S) \in Nat
              /\ \A h \in Contents \ S : Cardinality(S \cup {h}) = Cardinality(S) + 1
    OBVIOUS
  <2>1. IsFiniteSet(S)
    BY <1>1, FS_Subset
  <2>. QED BY <2>1, FS_CardinalityType, FS_AddElement
<1>. QED BY <1>2, <1>3, FS_EmptySet

-----------------------------------------------------------------------------
(* What each report function adds. *)

Same(q, r, C) == \A c \in Counter \ C : q[c] = r[c]

(* A file seen. *)
LEMMA Observed ==
  ASSUME NEW r \in Reports, NEW p \in Path, Bytes(p) \in Nat
  PROVE  LET q == report_observed_file(r, p) IN
         /\ q \in Reports /\ Same(q, r, {"files_seen", "bytes_seen"})
         /\ q["files_seen"] = r["files_seen"] + 1
         /\ q["bytes_seen"] = r["bytes_seen"] + Bytes(p)
BY DEF report_observed_file, Plus, Counter, Reports, Same

(* A file read. *)
LEMMA Hashed ==
  ASSUME NEW r \in Reports, NEW p \in Path, Bytes(p) \in Nat
  PROVE  LET q == report_hashed(r, p) IN
         /\ q \in Reports /\ Same(q, r, {"files_hashed", "bytes_hashed"})
         /\ q["files_hashed"] = r["files_hashed"] + 1
         /\ q["bytes_hashed"] = r["bytes_hashed"] + Bytes(p)
BY DEF report_hashed, Plus, Counter, Reports, Same

(* A file skipped counts as a blob reused and a row updated. *)
LEMMA Skipped ==
  ASSUME NEW r \in Reports, NEW p \in Path, Bytes(p) \in Nat
  PROVE  LET q == report_skipped(r, p) IN
         /\ q \in Reports
         /\ Same(q, r, {"files_skipped", "bytes_skipped", "blobs_reused",
                        "source_records_updated"})
         /\ q["files_skipped"] = r["files_skipped"] + 1
         /\ q["bytes_skipped"] = r["bytes_skipped"] + Bytes(p)
         /\ q["blobs_reused"] = r["blobs_reused"] + 1
         /\ q["source_records_updated"] = r["source_records_updated"] + 1
BY DEF report_skipped, Plus, Counter, Reports, Same

(* A blob created or reused. *)
LEMMA StoreOutcome ==
  ASSUME NEW r \in Reports, NEW p \in Path, Bytes(p) \in Nat, NEW o
  PROVE  LET q == report_store_outcome(r, o, p) IN
         /\ q \in Reports
         /\ Same(q, r, {"blobs_created", "blobs_reused", "bytes_written"})
         /\ q["blobs_created"] = r["blobs_created"] + (IF o = "created" THEN 1 ELSE 0)
         /\ q["blobs_reused"] = r["blobs_reused"] + (IF o = "created" THEN 0 ELSE 1)
         /\ q["bytes_written"] =
              r["bytes_written"] + (IF o = "created" THEN Bytes(p) ELSE 0)
BY DEF report_store_outcome, Plus, Counter, Reports, Same

(* A row inserted or updated. *)
LEMMA SourceOutcome ==
  ASSUME NEW r \in Reports, NEW o
  PROVE  LET q == report_source_outcome(r, o) IN
         /\ q \in Reports
         /\ Same(q, r, {"source_records_inserted", "source_records_updated"})
         /\ q["source_records_inserted"] =
              r["source_records_inserted"] + (IF o = "inserted" THEN 1 ELSE 0)
         /\ q["source_records_updated"] =
              r["source_records_updated"] + (IF o = "inserted" THEN 0 ELSE 1)
BY DEF report_source_outcome, Plus, Counter, Reports, Same

-----------------------------------------------------------------------------
(* Initially, and while the inputs stay. *)

(* Nothing is done and nothing is counted. *)
LEMMA ReportInitially == Init => ReportInv
<1>. SUFFICES ASSUME Init PROVE ReportInv
  OBVIOUS
<1>1. Shape
  BY DEF Init, Shape, Blobs, Rows, Reports, Zero, Counter
<1>2. InputInv
  BY DEF Init, InputInv
<1>3. content \in [Path -> Hash]
  BY DEF Init
<1>4. /\ Scanned = {} /\ Absent(Scanned) = {} /\ Unrecorded(Scanned) = {}
      /\ Scanned \cap ToHash = {}
  BY DEF Init, Scanned, Absent, Unrecorded
<1>5. /\ Seen = {} /\ Reading = {} /\ Created = {} /\ Inserted = {} /\ Unresolved = {}
      /\ Seen \cap ToHash = {} /\ Installed = {} /\ New = {}
  BY DEF Init, Seen, Reading, Created, Inserted, Unresolved, At, Installed, New
<1>6. DryInv
  <2>0. Cardinality({}) = 0 /\ Sum(Weight, {}) = 0 /\ Sum(Size, {}) = 0
    BY <1>3, FileSets, ContentSets
  <2>1. Accounts(dry.report, Scanned)
    <3>1. \A c \in Counter : dry.report[c] = 0
      BY DEF Init, Zero
    <3>. QED BY <1>4, <2>0, <3>1 DEF Accounts, Counter
  <2>2. /\ dry.report["files_hashed"] = 0 /\ dry.report["bytes_written"] = 0
        /\ dry.report["bytes_hashed"] = 0
        /\ dry.planned = {} /\ dry.outcome = "running"
    BY DEF Init, Zero, Counter
  <2>. QED BY <1>4, <2>1, <2>2, FS_EmptySet DEF DryInv
<1>7. StoreInv
  BY DEF Init, StoreInv
<1>8. CountInv
  BY <1>3, <1>5, FileSets, ContentSets 
     DEF Init, CountInv, ReadCounts, BlobCounts, RowCounts, Zero, Counter
<1>. QED BY <1>1, <1>2, <1>6, <1>7, <1>8 DEF ReportInv

(* What is defined from the inputs stays with them. *)
LEMMA InputsStay ==
  ASSUME UNCHANGED inputs
  PROVE  /\ Weight' = Weight /\ Contents' = Contents /\ ToHash' = ToHash
         /\ content' = content /\ fresh' = fresh /\ before' = before
BY DEF inputs, Weight, Bytes, Contents, ToHash

-----------------------------------------------------------------------------
(* The types. *)

(* Every step keeps the types. *)
LEMMA ShapeStep == ReportInv /\ [Next]_vars => Shape'
<1>. SUFFICES ASSUME Shape, [Next]_vars PROVE Shape'
  BY DEF ReportInv
<1>1. \A p \in Path : Bytes(p) \in Nat
  BY FileSets DEF Shape
<1>2. ASSUME NEW p \in Path, DryFile(p) PROVE Shape'
  <2>. DEFINE seen == report_observed_file(dry.report, p)
              hashed == report_hashed(seen, p)
              h == content[p]
              stored == report_store_outcome(hashed, PlannedOutcome(h), p)
              rows == report_source_outcome(stored, source_observation_outcome(p))
  <2>1. dry.report \in Reports /\ h \in Hash
    BY DEF Shape
  <2>2. seen \in Reports
    BY <1>1, <2>1, Observed
  <2>3. report_skipped(seen, p) \in Reports /\ hashed \in Reports
    BY <1>1, <2>2, Skipped, Hashed
  <2>4. stored \in Reports
    BY <1>1, <2>3, StoreOutcome
  <2>5. rows \in Reports
    BY <2>4, SourceOutcome
  <2>6. \/ dry' = [dry EXCEPT !.todo = @ \ {p}, !.report = report_skipped(seen, p)]
        \/ dry' = [dry EXCEPT !.outcome = "failed"]
        \/ dry' = [dry EXCEPT !.todo = @ \ {p},
                              !.planned = IF cas[h] = "absent" THEN @ \cup {h} ELSE @,
                              !.report = rows]
    BY <1>2 DEF DryFile
  <2>. HIDE DEF seen, hashed, stored, rows
  <2>7. dry' \in [todo : SUBSET Path, planned : SUBSET Hash,
                  outcome : {"running", "ok", "failed"}, report : Reports]
    <3>. DEFINE D == [todo : SUBSET Path, planned : SUBSET Hash,
                      outcome : {"running", "ok", "failed"}, report : Reports]
    <3>1. dry \in D
      BY DEF Shape
    <3>2. ASSUME NEW T \in SUBSET Path, NEW P \in SUBSET Hash, NEW r \in Reports
          PROVE  [dry EXCEPT !.todo = T, !.planned = P, !.report = r] \in D
      BY <3>1, <3>2
    <3>3. ASSUME NEW T \in SUBSET Path, NEW r \in Reports
          PROVE  [dry EXCEPT !.todo = T, !.report = r] \in D
      BY <3>1, <3>3
    <3>4. [dry EXCEPT !.outcome = "failed"] \in D
      BY <3>1
    <3>5. /\ dry.todo \ {p} \in SUBSET Path
          /\ (IF cas[h] = "absent" THEN dry.planned \cup {h} ELSE dry.planned) \in SUBSET Hash
      BY <2>1, <3>1
    <3>. HIDE DEF D, h
    <3>6. dry' = [dry EXCEPT !.todo = @ \ {p}, !.report = report_skipped(seen, p)]
            => dry' \in D
      BY <2>3, <3>3, <3>5
    <3>7. dry' = [dry EXCEPT !.todo = @ \ {p},
                             !.planned = IF cas[h] = "absent" THEN @ \cup {h} ELSE @,
                             !.report = rows]
            => dry' \in D
      <4>. DEFINE P == IF cas[h] = "absent" THEN dry.planned \cup {h} ELSE dry.planned
      <4>1. P \in SUBSET Hash /\ dry.todo \ {p} \in SUBSET Path
        BY <3>5
      <4>2. [dry EXCEPT !.todo = dry.todo \ {p}, !.planned = P, !.report = rows] \in D
        <5>. HIDE DEF P
        <5>. QED BY <2>5, <3>2, <4>1
      <4>. QED BY <4>2
    <3>8. dry' \in D
      BY <2>6, <3>4, <3>6, <3>7
    <3>. QED BY <3>8 DEF D
  <2>. QED BY <1>2, <2>7 DEF Shape, DryFile, inputs
<1>3. ASSUME NEW p \in Path, Scan(p) PROVE Shape'
  <2>. DEFINE seen == report_observed_file(report, p)
  <2>1. seen \in Reports
    BY <1>1, Observed DEF Shape
  <2>2. report_skipped(seen, p) \in Reports
    BY <1>1, <2>1, Skipped
  <2>3. report' \in Reports
    BY <1>3, <2>1, <2>2 DEF Scan
  <2>. QED BY <1>3, <2>3 DEF Shape, Scan, Moved, inputs
<1>4. ASSUME NEW p \in Path, Install(p) PROVE Shape'
  <2>1. cas' \in Blobs
    BY <1>4 DEF Shape, Install, Blobs
  <2>2. job' \in [Path -> {"todo", "pending", "known", "created", "reused", "bad",
                           "submitted", "inserted", "updated", "done"}]
    BY <1>4 DEF Shape, Install, Moved, Blobs
  <2>. QED BY <1>4, <2>1, <2>2 DEF Shape, Install, inputs
<1>5. ASSUME NEW p \in Path, Complete(p) PROVE Shape'
  <2>1. report_hashed(report, p) \in Reports
    BY <1>1, Hashed DEF Shape
  <2>2. report' \in Reports
    BY <1>1, <1>5, <2>1, StoreOutcome DEF Complete
  <2>. QED BY <1>5, <2>2 DEF Shape, Complete, Moved, inputs
<1>6. ASSUME NEW p \in Path, Resolve(p) PROVE Shape'
  <2>1. report' \in Reports
    BY <1>6, SourceOutcome DEF Resolve, Shape
  <2>. QED BY <1>6, <2>1 DEF Shape, Resolve, Moved, inputs
<1>7. ASSUME NEW batch \in SUBSET Path, Commit(batch) PROVE Shape'
  <2>1. rec' \in Rows
    BY <1>7 DEF Shape, Commit, Rows
  <2>2. job' \in [Path -> {"todo", "pending", "known", "created", "reused", "bad",
                           "submitted", "inserted", "updated", "done"}]
    BY <1>7 DEF Shape, Commit, source_observation_outcome
  <2>. QED BY <1>7, <2>1, <2>2 DEF Shape, Commit, inputs
<1>8. CASE DryEnd
  BY <1>8 DEF Shape, DryEnd, inputs
<1>9. CASE Abort \/ Finish
  BY <1>9 DEF Shape, Abort, Finish, inputs
<1>10. CASE Ended \/ UNCHANGED vars
  BY <1>10 DEF Shape, Ended, vars, inputs
<1>. QED BY <1>2, <1>3, <1>4, <1>5, <1>6, <1>7, <1>8, <1>9, <1>10 DEF Next

(* Fresh rows stay fresh, and the import waits for the dry run. *)
LEMMA InputStep == ReportInv /\ [Next]_vars => InputInv'
<1>. SUFFICES ASSUME Shape, InputInv, [Next]_vars PROVE InputInv'
  BY DEF ReportInv
<1>1. ASSUME NEW p \in Path, DryFile(p) PROVE InputInv'
  BY <1>1 DEF InputInv, DryFile, inputs
<1>2. CASE DryEnd
  <2>1. dry'.outcome = "ok"
    BY <1>2 DEF DryEnd, Shape
  <2>. QED BY <1>2, <2>1 DEF InputInv, DryEnd, inputs
<1>3. ASSUME Importing, UNCHANGED inputs, UNCHANGED dry PROVE InputInv'
  BY <1>3 DEF InputInv, Importing, inputs
<1>4. ASSUME NEW p \in Path, Scan(p) \/ Install(p) \/ Complete(p) \/ Resolve(p)
      PROVE  Importing /\ UNCHANGED inputs /\ UNCHANGED dry
  BY <1>4 DEF Scan, Install, Complete, Resolve
<1>5. ASSUME NEW batch \in SUBSET Path, Commit(batch)
      PROVE  Importing /\ UNCHANGED inputs /\ UNCHANGED dry
  BY <1>5 DEF Commit
<1>6. CASE Abort \/ Finish
  BY <1>3, <1>6 DEF Abort, Finish
<1>7. CASE Ended \/ UNCHANGED vars
  BY <1>7 DEF InputInv, Ended, vars, inputs
<1>. QED BY <1>1, <1>2, <1>3, <1>4, <1>5, <1>6, <1>7 DEF Next

-----------------------------------------------------------------------------
(* The store. *)

(* A file is skipped by the import only if its row is of its content, and  *)
(* read only if the dry run would have read it too: blobs only come.       *)
LEMMA SkipFacts ==
  ASSUME Shape, InputInv, StoreInv, NEW p \in Path, job[p] = "todo"
  PROVE  /\ Skips(p) => rec[p] = content[p] /\ cas[content[p]] = "intact"
         /\ ~Skips(p) => p \in ToHash
<1>1. rec[p] = before.rec[p]
  BY DEF StoreInv
<1>2. p \in fresh => before.rec[p] = content[p] /\ content[p] \in Hash
  BY DEF InputInv, Shape
<1>3. \A h \in Hash : before.cas[h] = "intact" => cas[h] = "intact"
  BY DEF StoreInv
<1>4. Skips(p) => rec[p] = content[p] /\ cas[content[p]] = "intact"
  BY <1>1, <1>2 DEF Skips
<1>5. ~Skips(p) => p \in ToHash
  BY <1>1, <1>2, <1>3 DEF Skips, ToHash
<1>. QED BY <1>4, <1>5

(* Every step keeps what is known of blobs and rows. *)
LEMMA StoreStep == ReportInv /\ [Next]_vars => StoreInv'
<1>. SUFFICES ASSUME Shape, InputInv, StoreInv, [Next]_vars PROVE StoreInv'
  BY DEF ReportInv
<1>. DEFINE Blob(h) == cas[h] # before.cas[h] =>
                         before.cas[h] = "absent" /\ cas[h] = "intact" /\ h \in Contents
            File(p) == /\ job[p] \notin {"inserted", "updated", "done"} =>
                            rec[p] = before.rec[p]
                       /\ job[p] \in {"inserted", "updated", "done"} => rec[p] = content[p]
                       /\ job[p] = "known" => before.rec[p] = content[p]
                       /\ job[p] \notin {"todo", "pending", "bad"} =>
                            cas[content[p]] = "intact"
            End == outcome = "ok" => \A p \in Path : job[p] = "done"
<1>1. (\A h \in Hash : Blob(h)) /\ (\A p \in Path : File(p)) /\ End
  BY DEF StoreInv
<1>. SUFFICES (\A h \in Hash : Blob(h)') /\ (\A p \in Path : File(p)') /\ End'
  BY DEF StoreInv
<1>2. ASSUME UNCHANGED <<inputs, cas>> PROVE \A h \in Hash : Blob(h)'
  BY <1>1, <1>2, InputsStay
<1>3. ASSUME UNCHANGED <<inputs, cas, rec, job>> PROVE \A p \in Path : File(p)'
  BY <1>1, <1>3, InputsStay
<1>4. ASSUME NEW p \in Path, DryFile(p)
      PROVE  (\A h \in Hash : Blob(h)') /\ (\A q \in Path : File(q)') /\ End'
  BY <1>1, <1>2, <1>3, <1>4 DEF DryFile
<1>5. CASE DryEnd \/ Abort \/ Ended \/ UNCHANGED vars
  BY <1>1, <1>2, <1>3, <1>5 DEF DryEnd, Abort, Ended, vars
<1>6. CASE Finish
  BY <1>1, <1>2, <1>3, <1>6 DEF Finish
<1>7. ASSUME NEW p \in Path, Scan(p)
      PROVE  (\A h \in Hash : Blob(h)') /\ (\A q \in Path : File(q)') /\ End'
  <2>1. /\ UNCHANGED inputs /\ cas' = cas /\ rec' = rec /\ outcome' = "running"
        /\ job[p] = "todo" /\ job' = [job EXCEPT ![p] = IF Skips(p) THEN "known" ELSE "pending"]
    BY <1>7 DEF Scan, Moved, Importing
  <2>2. Skips(p) => rec[p] = content[p] /\ cas[content[p]] = "intact"
    BY <2>1, SkipFacts
  <2>3. ASSUME NEW q \in Path PROVE File(q)'
    <3>1. CASE q # p
      <4>1. job'[q] = job[q]
        BY <2>1, <3>1 DEF Shape
      <4>. QED BY <1>1, <2>1, <4>1, InputsStay
    <3>2. CASE q = p
      <4>1. job'[p] = IF Skips(p) THEN "known" ELSE "pending"
        BY <2>1 DEF Shape
      <4>2. rec[p] = before.rec[p]
        BY <1>1, <2>1
      <4>. QED BY <2>1, <2>2, <3>2, <4>1, <4>2, InputsStay
    <3>. QED BY <3>1, <3>2
  <2>. QED BY <1>2, <2>1, <2>3
<1>8. ASSUME NEW p \in Path, Install(p)
      PROVE  (\A h \in Hash : Blob(h)') /\ (\A q \in Path : File(q)') /\ End'
  <2>1. /\ UNCHANGED inputs /\ rec' = rec /\ outcome' = "running" /\ job[p] = "pending"
        /\ cas' = [cas EXCEPT ![content[p]] = IF @ = "absent" THEN "intact" ELSE @]
        /\ job' = [job EXCEPT ![p] = CASE cas[content[p]] = "absent" -> "created"
                                       [] cas[content[p]] = "intact" -> "reused"
                                       [] cas[content[p]] = "resized" -> "bad"]
    BY <1>8 DEF Install, Moved, Importing
  <2>2. content[p] \in Hash /\ content[p] \in Contents /\ cas \in Blobs
    BY DEF Shape, Contents
  <2>3. \A h \in Hash : /\ h # content[p] => cas'[h] = cas[h]
                        /\ cas[h] = "intact" => cas'[h] = "intact"
    BY <2>1, <2>2 DEF Blobs
  <2>4. /\ cas[content[p]] = "absent" => cas'[content[p]] = "intact"
        /\ cas[content[p]] # "absent" => cas'[content[p]] = cas[content[p]]
    BY <2>1, <2>2 DEF Blobs
  <2>5. ASSUME NEW h \in Hash PROVE Blob(h)'
    <3>1. CASE cas'[h] = cas[h]
      BY <1>1, <2>1, <3>1, InputsStay
    <3>2. CASE cas'[h] # cas[h]
      <4>1. h = content[p] /\ cas[h] = "absent" /\ cas'[h] = "intact"
        BY <2>3, <2>4, <3>2
      <4>2. before.cas[h] = "absent"
        BY <1>1, <4>1
      <4>. QED BY <2>1, <2>2, <4>1, <4>2, InputsStay
    <3>. QED BY <3>1, <3>2
  <2>6. ASSUME NEW q \in Path PROVE File(q)'
    <3>0. content[q] \in Hash
      BY DEF Shape
    <3>1. CASE q # p
      <4>1. job'[q] = job[q]
        BY <2>1, <3>1 DEF Shape
      <4>2. cas[content[q]] = "intact" => cas'[content[q]] = "intact"
        BY <2>3, <3>0
      <4>3. content' = content /\ before' = before
        BY <2>1, InputsStay
      <4>4. File(q)
        BY <1>1
      <4>. QED BY <2>1, <4>1, <4>2, <4>3, <4>4
    <3>2. CASE q = p
      <4>1. /\ cas[content[p]] = "absent" => job'[p] = "created"
            /\ cas[content[p]] = "intact" => job'[p] = "reused"
            /\ cas[content[p]] = "resized" => job'[p] = "bad"
        BY <2>1 DEF Shape
      <4>2. cas[content[p]] \in {"absent", "intact", "resized"}
        BY <2>2 DEF Blobs
      <4>3. rec[p] = before.rec[p]
        BY <1>1, <2>1
      <4>. QED BY <2>1, <2>4, <3>2, <4>1, <4>2, <4>3, InputsStay
    <3>. QED BY <3>1, <3>2
  <2>. QED BY <2>1, <2>5, <2>6
<1>9. ASSUME NEW p \in Path, Complete(p) \/ Resolve(p)
      PROVE  (\A h \in Hash : Blob(h)') /\ (\A q \in Path : File(q)') /\ End'
  <2>1. /\ UNCHANGED inputs /\ cas' = cas /\ rec' = rec /\ outcome' = "running"
        /\ \/ job[p] \in {"created", "reused"} /\ job' = [job EXCEPT ![p] = "submitted"]
           \/ job[p] \in {"inserted", "updated"} /\ job' = [job EXCEPT ![p] = "done"]
    BY <1>9 DEF Complete, Resolve, Moved, Importing
  <2>2. ASSUME NEW q \in Path PROVE File(q)'
    <3>1. CASE q # p
      <4>1. job'[q] = job[q]
        BY <2>1, <3>1 DEF Shape
      <4>. QED BY <1>1, <2>1, <4>1, InputsStay
    <3>2. CASE q = p
      <4>1. \/ job[p] \in {"created", "reused"} /\ job'[p] = "submitted"
            \/ job[p] \in {"inserted", "updated"} /\ job'[p] = "done"
        BY <2>1 DEF Shape
      <4>. QED BY <1>1, <2>1, <3>2, <4>1, InputsStay
    <3>. QED BY <3>1, <3>2
  <2>. QED BY <1>2, <2>1, <2>2
<1>10. ASSUME NEW batch \in SUBSET Path, Commit(batch)
       PROVE  (\A h \in Hash : Blob(h)') /\ (\A q \in Path : File(q)') /\ End'
  <2>1. /\ UNCHANGED inputs /\ cas' = cas /\ outcome' = "running"
        /\ \A q \in Path \ batch : job'[q] = job[q] /\ rec'[q] = rec[q]
        /\ \A q \in batch : /\ rec'[q] = content[q] /\ job[q] \in {"submitted", "known"}
                            /\ job'[q] \in {"inserted", "updated", "done"}
    BY <1>10 DEF Commit, Importing, source_observation_outcome
  <2>2. ASSUME NEW q \in Path PROVE File(q)'
    <3>1. CASE q \notin batch
      BY <1>1, <2>1, <3>1, InputsStay
    <3>2. CASE q \in batch
      <4>1. cas[content[q]] = "intact"
        BY <1>1, <2>1, <3>2
      <4>. QED BY <2>1, <3>2, <4>1, InputsStay
    <3>. QED BY <3>1, <3>2
  <2>. QED BY <1>2, <2>1, <2>2
<1>. QED BY <1>4, <1>5, <1>6, <1>7, <1>8, <1>9, <1>10 DEF Next

-----------------------------------------------------------------------------
(* The dry run. *)

(* Every step keeps the account of the dry run. *)
LEMMA DryStep == ReportInv /\ [Next]_vars => DryInv'
<1>. SUFFICES ASSUME Shape, InputInv, DryInv, [Next]_vars PROVE DryInv'
  BY DEF ReportInv
<1>1. ASSUME UNCHANGED inputs, dry'.todo = dry.todo, dry'.report = dry.report,
             dry'.planned = dry.planned
      PROVE  /\ Accounts(dry.report, Scanned)'
             /\ (Scanned \cap ToHash)' = Scanned \cap ToHash
             /\ Absent(Scanned)' = Absent(Scanned) /\ Scanned' = Scanned
  <2>1. Scanned' = Scanned
    BY <1>1 DEF Scanned
  <2>2. Absent(Scanned)' = Absent(Scanned) /\ Unrecorded(Scanned)' = Unrecorded(Scanned)
    BY <1>1, <2>1, InputsStay DEF Absent, Unrecorded
  <2>3. (Scanned \cap ToHash)' = Scanned \cap ToHash
    BY <1>1, <2>1, InputsStay
  <2>4. Accounts(dry.report, Scanned)'
    BY <1>1, <2>1, <2>2, InputsStay DEF DryInv, Accounts
  <2>. QED BY <2>1, <2>2, <2>3, <2>4
<1>2. ASSUME UNCHANGED <<inputs, dry>> PROVE DryInv'
  BY <1>1, <1>2, InputsStay DEF DryInv
<1>3. CASE DryEnd
  <2>1. /\ dry'.todo = dry.todo /\ dry'.report = dry.report /\ dry'.planned = dry.planned
        /\ dry'.outcome = "ok" /\ dry.todo = {} /\ UNCHANGED inputs
    BY <1>3 DEF DryEnd, Shape
  <2>. QED BY <1>1, <2>1, InputsStay DEF DryInv
<1>4. ASSUME NEW p \in Path, DryFile(p) PROVE DryInv'
  <2>. DEFINE h == content[p]
  <2>1. /\ dry.outcome = "running" /\ p \in dry.todo /\ UNCHANGED inputs
        /\ cas = before.cas /\ rec = before.rec
    BY <1>4 DEF DryFile, InputInv
  <2>2. h \in Hash /\ Bytes(p) \in Nat /\ dry.report \in Reports /\ before.cas \in Blobs
    BY FileSets DEF Shape
  <2>3. CASE ~Skips(p) /\ cas[h] = "resized"
    <3>1. dry' = [dry EXCEPT !.outcome = "failed"]
      BY <1>4, <2>3 DEF DryFile
    <3>2. /\ dry'.todo = dry.todo /\ dry'.report = dry.report /\ dry'.planned = dry.planned
          /\ dry'.outcome = "failed"
      BY <3>1 DEF Shape
    <3>3. \E q \in Path : before.cas[content[q]] = "resized"
      BY <2>1, <2>3
    <3>. QED BY <1>1, <2>1, <3>2, <3>3, InputsStay DEF DryInv
  <2>4. CASE Skips(p) \/ cas[h] # "resized"
    <3>. DEFINE seen == report_observed_file(dry.report, p)
                hashed == report_hashed(seen, p)
                stored == report_store_outcome(hashed, PlannedOutcome(h), p)
                rows == report_source_outcome(stored, source_observation_outcome(p))
    <3>1. dry'.todo = dry.todo \ {p} /\ dry'.outcome = "running"
      BY <1>4, <2>1, <2>4 DEF DryFile, Shape
    <3>2. Scanned' = Scanned \cup {p} /\ p \notin Scanned /\ Scanned \in SUBSET Path
      BY <2>1, <3>1 DEF Scanned, Shape
    <3>3. /\ Cardinality(Scanned \cup {p}) = Cardinality(Scanned) + 1
          /\ Sum(Weight, Scanned \cup {p}) = Sum(Weight, Scanned) + Bytes(p)
          /\ Cardinality(Scanned) \in Nat /\ Sum(Weight, Scanned) \in Nat
      BY <3>2, FileSets DEF Shape
    <3>4. /\ Absent(Scanned)' = Absent(Scanned \cup {p})
          /\ Unrecorded(Scanned)' = Unrecorded(Scanned \cup {p})
          /\ (Scanned \cap ToHash)' = (Scanned \cup {p}) \cap ToHash
      BY <2>1, <3>2, InputsStay DEF Absent, Unrecorded
    <3>5. /\ Absent(Scanned) \in SUBSET Contents /\ h \in Contents
          /\ Unrecorded(Scanned) \in SUBSET Path /\ p \notin Unrecorded(Scanned)
          /\ Scanned \cap ToHash \in SUBSET Path /\ p \notin Scanned \cap ToHash
      BY <3>2 DEF Absent, Contents, Unrecorded
    <3>6. /\ seen \in Reports /\ Same(seen, dry.report, {"files_seen", "bytes_seen"})
          /\ seen["files_seen"] = dry.report["files_seen"] + 1
          /\ seen["bytes_seen"] = dry.report["bytes_seen"] + Bytes(p)
      BY <2>2, Observed
    <3>7. CASE Skips(p)
      <4>1. before.cas[h] = "intact" /\ before.rec[p] = h /\ p \notin ToHash /\ h # None
        BY <2>1, <2>2, <3>7, NoneAssumption DEF Skips, InputInv, ToHash
      <4>2. /\ Absent(Scanned \cup {p}) = Absent(Scanned)
            /\ Unrecorded(Scanned \cup {p}) = Unrecorded(Scanned)
            /\ (Scanned \cup {p}) \cap ToHash = Scanned \cap ToHash
        BY <4>1 DEF Absent, Unrecorded
      <4>3. dry'.report = report_skipped(seen, p) /\ dry'.planned = dry.planned
        BY <1>4, <3>7 DEF DryFile, Shape
      <4>. HIDE DEF seen
      <4>4. LET q == dry'.report IN
            /\ Same(q, seen, {"files_skipped", "bytes_skipped", "blobs_reused",
                              "source_records_updated"})
            /\ q["files_skipped"] = seen["files_skipped"] + 1
            /\ q["bytes_skipped"] = seen["bytes_skipped"] + Bytes(p)
            /\ q["blobs_reused"] = seen["blobs_reused"] + 1
            /\ q["source_records_updated"] = seen["source_records_updated"] + 1
        BY <2>2, <3>6, <4>3, Skipped
      <4>5. Accounts(dry.report, Scanned)'
        <5>1. Accounts(dry.report, Scanned)
          BY DEF DryInv
        <5>. QED BY <2>1, <2>2, <3>2, <3>3, <3>4, <3>6, <4>2, <4>4, <5>1, InputsStay
                 DEF Accounts, Same, Counter, Reports
      <4>6. /\ dry'.report["files_hashed"] = dry.report["files_hashed"]
            /\ dry'.report["bytes_hashed"] = dry.report["bytes_hashed"]
            /\ dry'.report["bytes_written"] = dry.report["bytes_written"]
        BY <3>6, <4>4 DEF Same, Counter
      <4>7. \A q \in Scanned' : before'.cas[content'[q]] # "resized"
        BY <2>1, <3>2, <4>1, InputsStay DEF DryInv
      <4>. QED BY <2>1, <3>1, <3>4, <4>2, <4>3, <4>5, <4>6, <4>7 DEF DryInv
    <3>8. CASE ~Skips(p)
      <4>1. cas[h] # "resized" /\ before.cas[h] # "resized" /\ p \in ToHash
        BY <2>1, <2>4, <3>8 DEF Skips, ToHash
      <4>2. /\ dry'.report = rows
            /\ dry'.planned = IF cas[h] = "absent" THEN dry.planned \cup {h} ELSE dry.planned
        BY <1>4, <3>8, <4>1 DEF DryFile, Shape
      <4>. HIDE DEF seen
      <4>3. /\ hashed \in Reports /\ Same(hashed, seen, {"files_hashed", "bytes_hashed"})
            /\ hashed["files_hashed"] = seen["files_hashed"] + 1
            /\ hashed["bytes_hashed"] = seen["bytes_hashed"] + Bytes(p)
        BY <2>2, <3>6, Hashed
      <4>. HIDE DEF hashed
      <4>. DEFINE o == PlannedOutcome(h)
                  s == source_observation_outcome(p)
      <4>4. /\ stored \in Reports
            /\ Same(stored, hashed, {"blobs_created", "blobs_reused", "bytes_written"})
            /\ stored["blobs_created"] =
                 hashed["blobs_created"] + (IF o = "created" THEN 1 ELSE 0)
            /\ stored["blobs_reused"] =
                 hashed["blobs_reused"] + (IF o = "created" THEN 0 ELSE 1)
            /\ stored["bytes_written"] =
                 hashed["bytes_written"] + (IF o = "created" THEN Bytes(p) ELSE 0)
        BY <2>2, <4>3, StoreOutcome
      <4>. HIDE DEF stored
      <4>5. /\ Same(rows, stored, {"source_records_inserted", "source_records_updated"})
            /\ rows["source_records_inserted"] =
                 stored["source_records_inserted"] + (IF s = "inserted" THEN 1 ELSE 0)
            /\ rows["source_records_updated"] =
                 stored["source_records_updated"] + (IF s = "inserted" THEN 0 ELSE 1)
        BY <4>4, SourceOutcome
      <4>. HIDE DEF rows
      <4>6. /\ o = "created" => h \notin Absent(Scanned)
                                /\ Absent(Scanned \cup {p}) = Absent(Scanned) \cup {h}
            /\ o # "created" => Absent(Scanned \cup {p}) = Absent(Scanned)
            /\ dry'.planned = Absent(Scanned \cup {p})
        <5>1. dry.planned = Absent(Scanned)
          BY DEF DryInv
        <5>2. before.cas[h] = "absent" => Absent(Scanned \cup {p}) = Absent(Scanned) \cup {h}
          BY <3>5 DEF Absent
        <5>3. before.cas[h] # "absent" => Absent(Scanned \cup {p}) = Absent(Scanned)
          BY DEF Absent
        <5>4. o = "created" <=> before.cas[h] = "absent" /\ h \notin Absent(Scanned)
          BY <2>1, <5>1 DEF PlannedOutcome
        <5>5. h \in Absent(Scanned) => Absent(Scanned) \cup {h} = Absent(Scanned)
          OBVIOUS
        <5>. QED BY <2>1, <4>2, <5>1, <5>2, <5>3, <5>4, <5>5
      <4>7. /\ s = "inserted" => Unrecorded(Scanned \cup {p}) = Unrecorded(Scanned) \cup {p}
            /\ s # "inserted" => Unrecorded(Scanned \cup {p}) = Unrecorded(Scanned)
        BY <2>1 DEF source_observation_outcome, Unrecorded
      <4>8. (Scanned \cup {p}) \cap ToHash = (Scanned \cap ToHash) \cup {p}
        BY <4>1
      <4>9. LET a == IF o = "created" THEN 1 ELSE 0
                b == IF o = "created" THEN Bytes(p) ELSE 0 IN
            /\ Cardinality(Absent(Scanned \cup {p})) = Cardinality(Absent(Scanned)) + a
            /\ Sum(Size, Absent(Scanned \cup {p})) = Sum(Size, Absent(Scanned)) + b
            /\ Cardinality(Absent(Scanned)) \in Nat /\ Sum(Size, Absent(Scanned)) \in Nat
        <5>1. /\ Cardinality(Absent(Scanned)) \in Nat /\ Sum(Size, Absent(Scanned)) \in Nat
              /\ o = "created" =>
                   /\ Cardinality(Absent(Scanned) \cup {h}) = Cardinality(Absent(Scanned)) + 1
                   /\ Sum(Size, Absent(Scanned) \cup {h}) = Sum(Size, Absent(Scanned)) + Size[h]
          BY <3>5, <4>6, ContentSets DEF Shape
        <5>2. Size[h] = Bytes(p)
          BY DEF Bytes
        <5>. HIDE DEF o
        <5>3. CASE o = "created"
          BY <4>6, <5>1, <5>2, <5>3
        <5>4. CASE o # "created"
          BY <4>6, <5>1, <5>4
        <5>. QED BY <5>3, <5>4
      <4>10. /\ Cardinality(Unrecorded(Scanned \cup {p})) =
                  Cardinality(Unrecorded(Scanned)) + (IF s = "inserted" THEN 1 ELSE 0)
             /\ Cardinality(Unrecorded(Scanned)) \in Nat
        <5>1. /\ Cardinality(Unrecorded(Scanned)) \in Nat
              /\ Cardinality(Unrecorded(Scanned) \cup {p}) = Cardinality(Unrecorded(Scanned)) + 1
          BY <3>5, FileSets DEF Shape
        <5>. HIDE DEF s
        <5>2. CASE s = "inserted"
          BY <4>7, <5>1, <5>2
        <5>3. CASE s # "inserted"
          BY <4>7, <5>1, <5>3
        <5>. QED BY <5>2, <5>3
      <4>11. /\ Cardinality((Scanned \cup {p}) \cap ToHash) =
                  Cardinality(Scanned \cap ToHash) + 1
        BY <3>5, <4>8, FileSets DEF Shape
      <4>. HIDE DEF o, s
      <4>12. Accounts(dry.report, Scanned)'
        <5>1. Accounts(dry.report, Scanned)
          BY DEF DryInv
        <5>2. Accounts(rows, Scanned \cup {p})
          BY <2>2, <3>3, <3>6, <4>3, <4>4, <4>5, <4>9, <4>10, <5>1
             DEF Accounts, Same, Counter, Reports
        <5>. QED BY <2>1, <3>2, <3>4, <4>2, <5>2, InputsStay DEF Accounts
      <4>13. /\ rows["files_hashed"] = dry.report["files_hashed"] + 1
             /\ rows["bytes_hashed"] = dry.report["bytes_hashed"] + Bytes(p)
             /\ rows["bytes_written"] =
                  dry.report["bytes_written"] + (IF o = "created" THEN Bytes(p) ELSE 0)
        BY <3>6, <4>3, <4>4, <4>5 DEF Same, Counter
      <4>14. rows["bytes_written"] <= rows["bytes_hashed"]
        BY <2>2, <4>13 DEF DryInv, Reports, Counter
      <4>15. \A q \in Scanned' : before'.cas[content'[q]] # "resized"
        BY <2>1, <3>2, <4>1, InputsStay DEF DryInv
      <4>16. dry.report["files_hashed"] = Cardinality(Scanned \cap ToHash)
        BY DEF DryInv
      <4>. QED BY <3>1, <3>4, <4>2, <4>6, <4>11, <4>12, <4>13, <4>14, <4>15, <4>16 DEF DryInv
    <3>. QED BY <3>7, <3>8
  <2>. QED BY <2>3, <2>4
<1>5. ASSUME NEW p \in Path, Scan(p) \/ Install(p) \/ Complete(p) \/ Resolve(p)
      PROVE  UNCHANGED <<inputs, dry>>
  BY <1>5 DEF Scan, Install, Complete, Resolve
<1>6. ASSUME NEW batch \in SUBSET Path, Commit(batch) PROVE UNCHANGED <<inputs, dry>>
  BY <1>6 DEF Commit
<1>7. CASE Abort \/ Finish \/ Ended \/ UNCHANGED vars
  BY <1>2, <1>7 DEF Abort, Finish, Ended, vars
<1>. QED BY <1>2, <1>3, <1>4, <1>5, <1>6, <1>7 DEF Next

-----------------------------------------------------------------------------
(* The import. *)

(* The sets whose sizes are counted are finite. *)
LEMMA CountedSets ==
  ASSUME Shape, StoreInv
  PROVE  /\ Seen \in SUBSET Path /\ Reading \in SUBSET Path /\ Created \in SUBSET Path
         /\ Inserted \in SUBSET Path /\ Unresolved \in SUBSET Path /\ New \in SUBSET Path
         /\ Seen \cap ToHash \in SUBSET Path /\ Installed \in SUBSET Contents
         /\ \A S \in {Seen, Reading, Created, Inserted, Unresolved, New, Seen \cap ToHash} :
              Cardinality(S) \in Nat /\ Sum(Weight, S) \in Nat
         /\ Cardinality(Installed) \in Nat /\ Sum(Size, Installed) \in Nat
<1>1. /\ Seen \in SUBSET Path /\ Reading \in SUBSET Path /\ Created \in SUBSET Path
      /\ Inserted \in SUBSET Path /\ Unresolved \in SUBSET Path /\ New \in SUBSET Path
      /\ Seen \cap ToHash \in SUBSET Path
  BY DEF Seen, Reading, Created, Inserted, Unresolved, New, At
<1>2. Installed \in SUBSET Contents
  BY DEF Installed, StoreInv
<1>3. \A S \in SUBSET Path : Cardinality(S) \in Nat /\ Sum(Weight, S) \in Nat
  BY FileSets DEF Shape
<1>4. Cardinality(Installed) \in Nat /\ Sum(Size, Installed) \in Nat
  BY <1>2, ContentSets DEF Shape
<1>. QED BY <1>1, <1>2, <1>3, <1>4

(* A step that moves one file changes the sets by that file at most. *)
LEMMA MovedSets ==
  ASSUME Shape, UNCHANGED inputs, NEW p \in Path, NEW st, Moved(p, st)
  PROVE  /\ Seen' = IF st # "todo" THEN Seen \cup {p} ELSE Seen \ {p}
         /\ Reading' = IF st \in {"pending", "created", "reused", "bad"}
                         THEN Reading \cup {p} ELSE Reading \ {p}
         /\ Created' = IF st = "created" THEN Created \cup {p} ELSE Created \ {p}
         /\ Inserted' = IF st = "inserted" THEN Inserted \cup {p} ELSE Inserted \ {p}
         /\ Unresolved' = IF st \in {"pending", "created", "reused", "bad", "submitted",
                                     "inserted", "updated"}
                            THEN Unresolved \cup {p} ELSE Unresolved \ {p}
<1>1. \A q \in Path : job'[q] = IF q = p THEN st ELSE job[q]
  BY DEF Moved, Shape
<1>2. Seen' = IF st # "todo" THEN Seen \cup {p} ELSE Seen \ {p}
  BY <1>1 DEF Seen
<1>3. Reading' = IF st \in {"pending", "created", "reused", "bad"}
                   THEN Reading \cup {p} ELSE Reading \ {p}
  BY <1>1 DEF Reading, At
<1>4. Created' = IF st = "created" THEN Created \cup {p} ELSE Created \ {p}
  BY <1>1 DEF Created, At
<1>5. Inserted' = IF st = "inserted" THEN Inserted \cup {p} ELSE Inserted \ {p}
  BY <1>1 DEF Inserted, At
<1>6. Unresolved' = IF st \in {"pending", "created", "reused", "bad", "submitted",
                               "inserted", "updated"}
                      THEN Unresolved \cup {p} ELSE Unresolved \ {p}
  BY <1>1 DEF Unresolved, At
<1>. QED BY <1>2, <1>3, <1>4, <1>5, <1>6

(* Which of the sets a file is in. *)
LEMMA FileIn ==
  ASSUME NEW p \in Path
  PROVE  /\ p \in Seen <=> job[p] # "todo"
         /\ p \in Reading <=> job[p] \in {"pending", "created", "reused", "bad"}
         /\ p \in Created <=> job[p] = "created"
         /\ p \in Inserted <=> job[p] = "inserted"
         /\ p \in Unresolved <=> job[p] \in {"pending", "created", "reused", "bad",
                                             "submitted", "inserted", "updated"}
BY DEF Seen, Reading, Created, Inserted, Unresolved, At

(* The scanner: a skipped file is done with, another one is to be read. *)
LEMMA CountScan ==
  ASSUME Shape, InputInv, StoreInv, CountInv, NEW p \in Path, Scan(p)
  PROVE  CountInv'
<1>. DEFINE seen == report_observed_file(report, p)
            st == IF Skips(p) THEN "known" ELSE "pending"
<1>1. /\ UNCHANGED inputs /\ cas' = cas /\ rec' = rec /\ job[p] = "todo" /\ Moved(p, st)
      /\ report' = IF Skips(p) THEN report_skipped(seen, p) ELSE seen
  BY DEF Scan
<1>2. ~Skips(p) => p \in ToHash
  BY <1>1, SkipFacts
<1>3. /\ p \notin Seen /\ p \notin Reading /\ p \notin Created /\ p \notin Inserted
      /\ p \notin Unresolved
  BY <1>1, FileIn
<1>4. /\ Seen' = Seen \cup {p} /\ Created' = Created /\ Inserted' = Inserted
      /\ Skips(p) => Reading' = Reading /\ Unresolved' = Unresolved
      /\ ~Skips(p) => Reading' = Reading \cup {p} /\ Unresolved' = Unresolved \cup {p}
  BY <1>1, <1>3, MovedSets
<1>5. Installed' = Installed /\ New' = New
  BY <1>1, InputsStay DEF Installed, New
<1>6. Bytes(p) \in Nat /\ report \in Reports
  BY FileSets DEF Shape
<1>7. /\ seen \in Reports /\ Same(seen, report, {"files_seen", "bytes_seen"})
      /\ seen["files_seen"] = report["files_seen"] + 1
      /\ seen["bytes_seen"] = report["bytes_seen"] + Bytes(p)
  BY <1>6, Observed
<1>8. Weight' = Weight /\ ToHash' = ToHash
  BY <1>1, InputsStay
<1>9. /\ Cardinality(Seen \cup {p}) = Cardinality(Seen) + 1
      /\ Sum(Weight, Seen \cup {p}) = Sum(Weight, Seen) + Bytes(p)
      /\ Cardinality(Reading \cup {p}) = Cardinality(Reading) + 1
      /\ Sum(Weight, Reading \cup {p}) = Sum(Weight, Reading) + Bytes(p)
      /\ Cardinality(Unresolved \cup {p}) = Cardinality(Unresolved) + 1
  BY <1>3, CountedSets, FileSets DEF Shape
<1>10. /\ (Seen \cap ToHash)' = (Seen \cup {p}) \cap ToHash
       /\ p \in ToHash => Cardinality((Seen \cup {p}) \cap ToHash) =
                            Cardinality(Seen \cap ToHash) + 1
       /\ p \notin ToHash => Cardinality((Seen \cup {p}) \cap ToHash) =
                               Cardinality(Seen \cap ToHash)
  <2>1. /\ p \in ToHash => (Seen \cup {p}) \cap ToHash = (Seen \cap ToHash) \cup {p}
        /\ p \notin ToHash => (Seen \cup {p}) \cap ToHash = Seen \cap ToHash
        /\ p \notin Seen \cap ToHash
    BY <1>3
  <2>2. Cardinality((Seen \cap ToHash) \cup {p}) = Cardinality(Seen \cap ToHash) + 1
    BY <2>1, CountedSets, FileSets DEF Shape
  <2>. QED BY <1>4, <1>8, <2>1, <2>2
<1>11. /\ Cardinality(Seen) \in Nat /\ Cardinality(Reading) \in Nat
       /\ Cardinality(Unresolved) \in Nat /\ Cardinality(Inserted) \in Nat
       /\ Cardinality(Created) \in Nat /\ Cardinality(Seen \cap ToHash) \in Nat
       /\ Sum(Weight, Seen) \in Nat /\ Sum(Weight, Reading) \in Nat
  BY CountedSets
<1>. HIDE DEF seen
<1>12. CASE Skips(p)
  <2>1. LET q == report' IN
        /\ Same(q, seen, {"files_skipped", "bytes_skipped", "blobs_reused",
                          "source_records_updated"})
        /\ q["files_skipped"] = seen["files_skipped"] + 1
        /\ q["bytes_skipped"] = seen["bytes_skipped"] + Bytes(p)
        /\ q["blobs_reused"] = seen["blobs_reused"] + 1
        /\ q["source_records_updated"] = seen["source_records_updated"] + 1
    BY <1>1, <1>6, <1>7, <1>12, Skipped
  <2>2. Reading' = Reading /\ Unresolved' = Unresolved
    BY <1>4, <1>12
  <2>3. /\ report'["files_seen"] = report["files_seen"] + 1
        /\ report'["bytes_seen"] = report["bytes_seen"] + Bytes(p)
        /\ report'["files_skipped"] = report["files_skipped"] + 1
        /\ report'["bytes_skipped"] = report["bytes_skipped"] + Bytes(p)
        /\ report'["blobs_reused"] = report["blobs_reused"] + 1
        /\ report'["source_records_updated"] = report["source_records_updated"] + 1
        /\ Same(report', report, {"files_seen", "bytes_seen", "files_skipped", "bytes_skipped",
                                  "blobs_reused", "source_records_updated"})
    BY <1>7, <2>1 DEF Same, Counter
  <2>4. ReadCounts'
    <3>1. report'["files_hashed"] + Cardinality(Reading') <= Cardinality((Seen \cap ToHash)')
      <4>. DEFINE m == Cardinality(Seen \cap ToHash)
                  n == Cardinality((Seen \cap ToHash)')
      <4>1. m \in Nat /\ n \in Nat /\ n >= m
        BY <1>10, <1>11
      <4>2. report'["files_hashed"] + Cardinality(Reading') <= m
        BY <2>2, <2>3 DEF CountInv, ReadCounts, Same, Counter
      <4>3. report'["files_hashed"] \in Nat /\ Cardinality(Reading') \in Nat
        BY <1>6, <1>11, <2>2, <2>3 DEF Same, Counter, Reports
      <4>. HIDE DEF m, n
      <4>4. report'["files_hashed"] + Cardinality(Reading') <= n
        BY <4>1, <4>2, <4>3
      <4>. QED BY <4>4 DEF n
    <3>2. /\ report'["files_seen"] = Cardinality(Seen')
          /\ report'["bytes_seen"] = Sum(Weight, Seen)'
      BY <1>4, <1>8, <1>9, <2>3 DEF CountInv, ReadCounts
    <3>3. report'["files_skipped"] + report'["files_hashed"] + Cardinality(Reading') =
            Cardinality(Seen')
      BY <1>4, <1>6, <1>9, <1>11, <2>2, <2>3 DEF CountInv, ReadCounts, Same, Counter, Reports
    <3>4. report'["bytes_skipped"] + report'["bytes_hashed"] + Sum(Weight, Reading)' =
            Sum(Weight, Seen)'
      BY <1>4, <1>6, <1>8, <1>9, <1>11, <2>2, <2>3
         DEF CountInv, ReadCounts, Same, Counter, Reports
    <3>. QED BY <3>1, <3>2, <3>3, <3>4 DEF ReadCounts
  <2>5. BlobCounts'
    BY <1>4, <1>5, <1>6, <1>8, <2>3 DEF CountInv, BlobCounts, Same, Counter, Reports
  <2>6. RowCounts'
    BY <1>4, <1>5, <1>6, <1>9, <1>11, <2>2, <2>3
       DEF CountInv, RowCounts, Same, Counter, Reports
  <2>. QED BY <2>4, <2>5, <2>6 DEF CountInv
<1>13. CASE ~Skips(p)
  <2>1. report' = seen
    BY <1>1, <1>13
  <2>2. Reading' = Reading \cup {p} /\ Unresolved' = Unresolved \cup {p}
    BY <1>4, <1>13
  <2>3. Cardinality((Seen \cap ToHash)') = Cardinality(Seen \cap ToHash) + 1
    BY <1>2, <1>10, <1>13
  <2>4. ReadCounts'
    BY <1>4, <1>6, <1>7, <1>8, <1>9, <1>11, <2>1, <2>2, <2>3
       DEF CountInv, ReadCounts, Same, Counter, Reports
  <2>5. BlobCounts'
    BY <1>4, <1>5, <1>7, <1>8, <2>1 DEF CountInv, BlobCounts, Same, Counter
  <2>6. RowCounts'
    BY <1>4, <1>5, <1>6, <1>7, <1>9, <1>11, <2>1, <2>2
       DEF CountInv, RowCounts, Same, Counter, Reports
  <2>. QED BY <2>4, <2>5, <2>6 DEF CountInv
<1>. QED BY <1>12, <1>13

(* A worker: a blob is there before it is counted. *)
LEMMA CountInstall ==
  ASSUME Shape, StoreInv, CountInv, NEW p \in Path, Install(p)
  PROVE  CountInv'
<1>. DEFINE h == content[p]
            st == CASE cas[h] = "absent" -> "created"
                    [] cas[h] = "intact" -> "reused"
                    [] cas[h] = "resized" -> "bad"
<1>1. /\ UNCHANGED inputs /\ rec' = rec /\ report' = report /\ job[p] = "pending"
      /\ Moved(p, st) /\ cas' = [cas EXCEPT ![h] = IF @ = "absent" THEN "intact" ELSE @]
  BY DEF Install
<1>2. h \in Hash /\ h \in Contents /\ cas \in Blobs /\ Size[h] = Bytes(p)
  BY DEF Shape, Contents, Bytes
<1>3. /\ cas[h] = "absent" => st = "created"
      /\ cas[h] # "absent" => st \in {"reused", "bad"}
  BY <1>2 DEF Blobs
<1>. HIDE DEF st
<1>4. /\ p \in Seen /\ p \in Reading /\ p \notin Created /\ p \notin Inserted
      /\ p \in Unresolved
  BY <1>1, FileIn
<1>5. /\ Seen' = Seen /\ Reading' = Reading /\ Inserted' = Inserted
      /\ Unresolved' = Unresolved
      /\ cas[h] = "absent" => Created' = Created \cup {p}
      /\ cas[h] # "absent" => Created' = Created
  <2>1. Seen' = Seen \cup {p} /\ Reading' = Reading \cup {p} /\ Inserted' = Inserted \ {p}
        /\ Unresolved' = Unresolved \cup {p}
        /\ Created' = IF st = "created" THEN Created \cup {p} ELSE Created \ {p}
    BY <1>1, <1>3, MovedSets
  <2>2. Created \ {p} = Created
    BY <1>4
  <2>3. /\ cas[h] = "absent" => Created' = Created \cup {p}
        /\ cas[h] # "absent" => Created' = Created
    BY <1>3, <2>1, <2>2
  <2>. QED BY <1>4, <2>1, <2>3
<1>6. /\ New' = New /\ Weight' = Weight /\ ToHash' = ToHash
  BY <1>1, InputsStay DEF New
<1>7. /\ Created \in SUBSET Path /\ Installed \in SUBSET Contents
      /\ Cardinality(Created) \in Nat /\ Sum(Weight, Created) \in Nat
      /\ Cardinality(Installed) \in Nat /\ Sum(Size, Installed) \in Nat
  BY CountedSets
<1>8. ReadCounts'
  BY <1>1, <1>5, <1>6 DEF CountInv, ReadCounts
<1>9. RowCounts'
  BY <1>1, <1>5, <1>6 DEF CountInv, RowCounts
<1>10. BlobCounts'
  <2>1. CASE cas[h] # "absent"
    <3>1. cas' = cas
      BY <1>1, <1>2, <2>1 DEF Blobs
    <3>2. Installed' = Installed
      BY <1>1, <3>1, InputsStay DEF Installed
    <3>. QED BY <1>1, <1>5, <1>6, <2>1, <3>2 DEF CountInv, BlobCounts
  <2>2. CASE cas[h] = "absent"
    <3>1. before.cas[h] = "absent" /\ h \notin Installed
      BY <1>2, <2>2 DEF StoreInv, Installed
    <3>2. Installed' = Installed \cup {h}
      <4>1. \A g \in Hash : cas'[g] = IF g = h THEN "intact" ELSE cas[g]
        BY <1>1, <1>2, <2>2 DEF Blobs
      <4>. QED BY <1>1, <1>2, <3>1, <4>1, InputsStay DEF Installed
    <3>3. /\ Cardinality(Installed \cup {h}) = Cardinality(Installed) + 1
          /\ Sum(Size, Installed \cup {h}) = Sum(Size, Installed) + Size[h]
      BY <1>2, <1>7, <3>1, ContentSets DEF Shape
    <3>4. /\ Cardinality(Created \cup {p}) = Cardinality(Created) + 1
          /\ Sum(Weight, Created \cup {p}) = Sum(Weight, Created) + Bytes(p)
          /\ Bytes(p) \in Nat
      BY <1>4, <1>7, FileSets DEF Shape
    <3>5. Created' = Created \cup {p}
      BY <1>5, <2>2
    <3>6. report["blobs_created"] \in Nat /\ report["bytes_written"] \in Nat
      BY DEF Shape, Reports, Counter
    <3>7. report'["blobs_created"] + Cardinality(Created') = Cardinality(Installed')
      BY <1>1, <1>7, <3>2, <3>3, <3>4, <3>5, <3>6 DEF CountInv, BlobCounts
    <3>8. report'["bytes_written"] + Sum(Weight, Created)' = Sum(Size, Installed)'
      BY <1>1, <1>2, <1>6, <1>7, <3>2, <3>3, <3>4, <3>5, <3>6 DEF CountInv, BlobCounts
    <3>. QED BY <1>1, <3>7, <3>8 DEF CountInv, BlobCounts
  <2>. QED BY <2>1, <2>2
<1>. QED BY <1>8, <1>9, <1>10 DEF CountInv

(* The coordinator: a file read is counted with what became of its blob. *)
LEMMA CountComplete ==
  ASSUME Shape, StoreInv, CountInv, NEW p \in Path, Complete(p)
  PROVE  CountInv'
<1>. DEFINE hashed == report_hashed(report, p)
            o == job[p]
<1>1. /\ UNCHANGED inputs /\ cas' = cas /\ rec' = rec /\ Moved(p, "submitted")
      /\ o \in {"created", "reused"} /\ report' = report_store_outcome(hashed, o, p)
  BY DEF Complete
<1>2. /\ p \in Seen /\ p \in Reading /\ p \notin Inserted /\ p \in Unresolved
      /\ p \in Created <=> o = "created"
  BY <1>1, FileIn
<1>3. /\ Seen' = Seen /\ Reading' = Reading \ {p} /\ Inserted' = Inserted
      /\ Unresolved' = Unresolved /\ Created' = Created \ {p}
  BY <1>1, <1>2, MovedSets
<1>4. /\ New' = New /\ Installed' = Installed /\ Weight' = Weight /\ ToHash' = ToHash
  BY <1>1, InputsStay DEF New, Installed
<1>5. report \in Reports /\ Bytes(p) \in Nat
  BY FileSets DEF Shape
<1>6. /\ hashed \in Reports /\ Same(hashed, report, {"files_hashed", "bytes_hashed"})
      /\ hashed["files_hashed"] = report["files_hashed"] + 1
      /\ hashed["bytes_hashed"] = report["bytes_hashed"] + Bytes(p)
  BY <1>5, Hashed
<1>. HIDE DEF hashed
<1>7. /\ Same(report', hashed, {"blobs_created", "blobs_reused", "bytes_written"})
      /\ report'["blobs_created"] = hashed["blobs_created"] + (IF o = "created" THEN 1 ELSE 0)
      /\ report'["blobs_reused"] = hashed["blobs_reused"] + (IF o = "created" THEN 0 ELSE 1)
      /\ report'["bytes_written"] =
           hashed["bytes_written"] + (IF o = "created" THEN Bytes(p) ELSE 0)
  BY <1>1, <1>5, <1>6, StoreOutcome
<1>8. /\ report'["files_hashed"] = report["files_hashed"] + 1
      /\ report'["bytes_hashed"] = report["bytes_hashed"] + Bytes(p)
      /\ report'["blobs_created"] = report["blobs_created"] + (IF o = "created" THEN 1 ELSE 0)
      /\ report'["blobs_reused"] = report["blobs_reused"] + (IF o = "created" THEN 0 ELSE 1)
      /\ report'["bytes_written"] =
           report["bytes_written"] + (IF o = "created" THEN Bytes(p) ELSE 0)
      /\ Same(report', report, {"files_hashed", "bytes_hashed", "blobs_created",
                                "blobs_reused", "bytes_written"})
  BY <1>6, <1>7 DEF Same, Counter
<1>9. /\ Reading \ {p} \in SUBSET Path
      /\ Cardinality(Reading) = Cardinality(Reading \ {p}) + 1
      /\ Sum(Weight, Reading) = Sum(Weight, Reading \ {p}) + Bytes(p)
      /\ Cardinality(Reading \ {p}) \in Nat /\ Sum(Weight, Reading \ {p}) \in Nat
  BY <1>2, CountedSets, FileSets DEF Shape
<1>. DEFINE n == Cardinality(Created')
            b == Sum(Weight, Created)'
<1>10. /\ n \in Nat /\ b \in Nat
       /\ Cardinality(Created) = n + (IF o = "created" THEN 1 ELSE 0)
       /\ Sum(Weight, Created) = b + (IF o = "created" THEN Bytes(p) ELSE 0)
  <2>1. Created \ {p} \in SUBSET Path /\ Created \in SUBSET Path
    BY CountedSets
  <2>2. n = Cardinality(Created \ {p}) /\ b = Sum(Weight, Created \ {p})
    BY <1>3, <1>4
  <2>3. CASE o = "created"
    BY <1>2, <2>1, <2>2, <2>3, FileSets DEF Shape
  <2>4. CASE o # "created"
    <3>1. Created \ {p} = Created
      BY <1>2, <2>4
    <3>2. n \in Nat /\ b \in Nat
      BY <2>1, <2>2, FileSets DEF Shape
    <3>. HIDE DEF n, b, o
    <3>. QED BY <2>2, <2>4, <3>1, <3>2
  <2>. QED BY <2>3, <2>4
<1>11. /\ report'["files_seen"] = report["files_seen"]
       /\ report'["bytes_seen"] = report["bytes_seen"]
       /\ report'["files_skipped"] = report["files_skipped"]
       /\ report'["bytes_skipped"] = report["bytes_skipped"]
       /\ report'["source_records_inserted"] = report["source_records_inserted"]
       /\ report'["source_records_updated"] = report["source_records_updated"]
  BY <1>8 DEF Same, Counter
<1>. HIDE DEF o
<1>12. ReadCounts'
  <2>1. /\ report["files_hashed"] \in Nat /\ report["bytes_hashed"] \in Nat
        /\ report["files_skipped"] \in Nat /\ report["bytes_skipped"] \in Nat
    BY <1>5 DEF Reports, Counter
  <2>. DEFINE k == Cardinality(Reading \ {p})
              c == Sum(Weight, Reading \ {p})
  <2>2. k = Cardinality(Reading') /\ c = Sum(Weight, Reading)'
    BY <1>3, <1>4
  <2>3. /\ k \in Nat /\ c \in Nat /\ Cardinality(Reading) = k + 1
        /\ Sum(Weight, Reading) = c + Bytes(p)
    BY <1>9
  <2>. HIDE DEF k, c
  <2>4. report'["files_skipped"] + report'["files_hashed"] + k = Cardinality(Seen)
    BY <1>8, <1>11, <2>1, <2>3 DEF CountInv, ReadCounts
  <2>5. report'["bytes_skipped"] + report'["bytes_hashed"] + c = Sum(Weight, Seen)
    BY <1>5, <1>8, <1>11, <2>1, <2>3 DEF CountInv, ReadCounts
  <2>6. report'["files_hashed"] + k <= Cardinality(Seen \cap ToHash)
    BY <1>8, <2>1, <2>3 DEF CountInv, ReadCounts
  <2>. QED BY <1>3, <1>4, <1>11, <2>2, <2>4, <2>5, <2>6 DEF CountInv, ReadCounts
<1>13. RowCounts'
  BY <1>3, <1>4, <1>11 DEF CountInv, RowCounts
<1>14. BlobCounts'
  <2>. HIDE DEF n, b
  <2>0. /\ report["blobs_created"] \in Nat /\ report["blobs_reused"] \in Nat
        /\ report["bytes_written"] \in Nat /\ report["bytes_hashed"] \in Nat
        /\ report["files_skipped"] \in Nat /\ report["files_hashed"] \in Nat
    BY <1>5 DEF Reports, Counter
  <2>1. report'["blobs_created"] + report'["blobs_reused"] =
          report'["files_skipped"] + report'["files_hashed"]
    BY <1>8, <1>11, <2>0 DEF CountInv, BlobCounts
  <2>2. report'["blobs_created"] + n = Cardinality(Installed)
    BY <1>8, <1>10, <2>0 DEF CountInv, BlobCounts
  <2>3. report'["bytes_written"] + b = Sum(Size, Installed)
    BY <1>5, <1>8, <1>10, <2>0 DEF CountInv, BlobCounts
  <2>4. report'["bytes_written"] <= report'["bytes_hashed"]
    BY <1>5, <1>8, <2>0 DEF CountInv, BlobCounts
  <2>. QED BY <1>4, <2>1, <2>2, <2>3, <2>4 DEF BlobCounts, n, b
<1>. QED BY <1>12, <1>13, <1>14 DEF CountInv

(* The writer: rows are there before their files know it. *)
LEMMA CountCommit ==
  ASSUME Shape, StoreInv, CountInv, NEW batch \in SUBSET Path, Commit(batch)
  PROVE  CountInv'
<1>. DEFINE B == {p \in batch : job[p] = "submitted" /\ rec[p] = None}
<1>1. /\ UNCHANGED inputs /\ cas' = cas /\ report' = report
      /\ \A p \in batch : job[p] \in {"submitted", "known"}
      /\ \A p \in Path : rec'[p] = IF p \in batch THEN content[p] ELSE rec[p]
      /\ \A p \in Path : /\ p \notin batch => job'[p] = job[p]
                         /\ p \in batch /\ job[p] = "known" => job'[p] = "done"
                         /\ p \in batch /\ job[p] # "known" =>
                              job'[p] = IF rec[p] = None THEN "inserted" ELSE "updated"
  BY DEF Commit, source_observation_outcome
<1>2. /\ Seen' = Seen /\ Reading' = Reading /\ Created' = Created
      /\ Unresolved' = Unresolved /\ Inserted' = Inserted \cup B
  <2>1. Seen' = Seen
    BY <1>1 DEF Seen
  <2>2. Reading' = Reading
    BY <1>1 DEF Reading, At
  <2>3. Created' = Created
    BY <1>1 DEF Created, At
  <2>4. Unresolved' = Unresolved
    BY <1>1 DEF Unresolved, At
  <2>5. Inserted' = Inserted \cup B
    BY <1>1 DEF Inserted, At
  <2>. QED BY <2>1, <2>2, <2>3, <2>4, <2>5
<1>3. Installed' = Installed /\ Weight' = Weight /\ ToHash' = ToHash
  BY <1>1, InputsStay DEF Installed
<1>4. New' = New \cup B
  <2>1. \A p \in batch : rec[p] = before.rec[p] /\ content[p] \in Hash /\ content[p] # None
    BY <1>1, NoneAssumption DEF StoreInv, Shape
  <2>2. \A p \in batch : job[p] = "known" => before.rec[p] # None
    BY <2>1 DEF StoreInv
  <2>3. before' = before
    BY <1>1, InputsStay
  <2>4. \A p \in Path : p \in New' <=> p \in New \cup B
    <3>. TAKE p \in Path
    <3>1. CASE p \notin batch
      BY <1>1, <2>3, <3>1 DEF New
    <3>2. CASE p \in batch
      BY <1>1, <2>1, <2>2, <2>3, <3>2 DEF New
    <3>. QED BY <3>1, <3>2
  <2>5. New' \subseteq Path /\ New \cup B \subseteq Path
    BY DEF New
  <2>. QED BY <2>4, <2>5
<1>5. B \in SUBSET Path /\ B \cap New = {} /\ B \cap Inserted = {}
  BY DEF New, Inserted, At
<1>6. /\ Cardinality(New \cup B) = Cardinality(New) + Cardinality(B)
      /\ Cardinality(Inserted \cup B) = Cardinality(Inserted) + Cardinality(B)
      /\ Cardinality(New) \in Nat /\ Cardinality(Inserted) \in Nat /\ Cardinality(B) \in Nat
  <2>. HIDE DEF B
  <2>1. /\ IsFiniteSet(B) /\ IsFiniteSet(New) /\ IsFiniteSet(Inserted)
    BY <1>5, CountedSets, FS_Subset, PathAssumption
  <2>2. New \cap B = {} /\ Inserted \cap B = {}
    BY <1>5
  <2>3. /\ Cardinality(New) \in Nat /\ Cardinality(Inserted) \in Nat /\ Cardinality(B) \in Nat
    BY <2>1, FS_CardinalityType
  <2>4. /\ Cardinality(New \cup B) = Cardinality(New) + Cardinality(B) - Cardinality(New \cap B)
        /\ Cardinality(Inserted \cup B) =
             Cardinality(Inserted) + Cardinality(B) - Cardinality(Inserted \cap B)
    BY <2>1, FS_Union
  <2>5. Cardinality(New \cap B) = 0 /\ Cardinality(Inserted \cap B) = 0
    BY <2>2, FS_EmptySet
  <2>6. ASSUME NEW a \in Nat, NEW b \in Nat PROVE a + b - 0 = a + b
    OBVIOUS
  <2>. QED BY <2>3, <2>4, <2>5, <2>6
<1>. HIDE DEF B
<1>7. ReadCounts'
  BY <1>1, <1>2, <1>3 DEF CountInv, ReadCounts
<1>8. BlobCounts'
  BY <1>1, <1>2, <1>3 DEF CountInv, BlobCounts
<1>9. RowCounts'
  <2>1. report["source_records_inserted"] \in Nat
    BY DEF Shape, Reports, Counter
  <2>2. report["source_records_inserted"] + Cardinality(Inserted) = Cardinality(New)
    BY DEF CountInv, RowCounts
  <2>3. report["source_records_inserted"] + Cardinality(Inserted \cup B)
          = Cardinality(New \cup B)
    BY <1>6, <2>1, <2>2
  <2>. QED BY <1>1, <1>2, <1>4, <2>3 DEF CountInv, RowCounts
<1>. QED BY <1>7, <1>8, <1>9 DEF CountInv

(* The coordinator again: the outcome of a committed row is counted. *)
LEMMA CountResolve ==
  ASSUME Shape, StoreInv, CountInv, NEW p \in Path, Resolve(p)
  PROVE  CountInv'
<1>. DEFINE o == job[p]
<1>1. /\ UNCHANGED inputs /\ cas' = cas /\ rec' = rec /\ Moved(p, "done")
      /\ o \in {"inserted", "updated"} /\ report' = report_source_outcome(report, o)
  BY DEF Resolve
<1>2. /\ p \in Seen /\ p \notin Reading /\ p \notin Created /\ p \in Unresolved
      /\ p \in Inserted <=> o = "inserted"
  BY <1>1, FileIn
<1>3. /\ Seen' = Seen /\ Reading' = Reading /\ Created' = Created
      /\ Unresolved' = Unresolved \ {p} /\ Inserted' = Inserted \ {p}
  BY <1>1, <1>2, MovedSets
<1>4. /\ New' = New /\ Installed' = Installed /\ Weight' = Weight /\ ToHash' = ToHash
  BY <1>1, InputsStay DEF New, Installed
<1>5. report \in Reports
  BY DEF Shape
<1>6. /\ Same(report', report, {"source_records_inserted", "source_records_updated"})
      /\ report'["source_records_inserted"] =
           report["source_records_inserted"] + (IF o = "inserted" THEN 1 ELSE 0)
      /\ report'["source_records_updated"] =
           report["source_records_updated"] + (IF o = "inserted" THEN 0 ELSE 1)
  BY <1>1, <1>5, SourceOutcome
<1>7. ReadCounts'
  BY <1>3, <1>4, <1>6 DEF CountInv, ReadCounts, Same, Counter
<1>8. BlobCounts'
  BY <1>3, <1>4, <1>6 DEF CountInv, BlobCounts, Same, Counter
<1>9. /\ Cardinality(Unresolved) = Cardinality(Unresolved \ {p}) + 1
      /\ Unresolved \ {p} \in SUBSET Path /\ Cardinality(Unresolved \ {p}) \in Nat
  BY <1>2, CountedSets, FileSets DEF Shape
<1>. DEFINE n == Cardinality(Inserted \ {p})
<1>10. n \in Nat /\ Cardinality(Inserted) = n + (IF o = "inserted" THEN 1 ELSE 0)
  <2>1. Inserted \in SUBSET Path /\ Inserted \ {p} \in SUBSET Path
    BY CountedSets
  <2>2. n \in Nat
    BY <2>1, FileSets DEF Shape
  <2>3. CASE o = "inserted"
    BY <1>2, <2>1, <2>2, <2>3, FileSets DEF Shape
  <2>4. CASE o # "inserted"
    <3>1. Inserted \ {p} = Inserted
      BY <1>2, <2>4
    <3>2. Cardinality(Inserted) = n
      BY <3>1
    <3>. HIDE DEF n, o
    <3>. QED BY <2>2, <2>4, <3>2
  <2>. QED BY <2>3, <2>4
<1>11. RowCounts'
  <2>. HIDE DEF n, o
  <2>1. report["source_records_inserted"] \in Nat /\ report["source_records_updated"] \in Nat
    BY <1>5 DEF Reports, Counter
  <2>2. report'["source_records_inserted"] + n = Cardinality(New)
    BY <1>6, <1>10, <2>1 DEF CountInv, RowCounts
  <2>3. report'["source_records_inserted"] + report'["source_records_updated"]
          + Cardinality(Unresolved \ {p}) = Cardinality(Seen)
    BY <1>6, <1>9, <2>1 DEF CountInv, RowCounts
  <2>. QED BY <1>3, <1>4, <2>2, <2>3 DEF RowCounts, n
<1>. QED BY <1>7, <1>8, <1>11 DEF CountInv

(* Every step keeps the counters in step with the store. *)
LEMMA CountStep == ReportInv /\ [Next]_vars => CountInv'
<1>. SUFFICES ASSUME Shape, InputInv, StoreInv, CountInv, [Next]_vars PROVE CountInv'
  BY DEF ReportInv
<1>1. ASSUME UNCHANGED <<inputs, cas, rec, job, report>> PROVE CountInv'
  <2>1. /\ Weight' = Weight /\ ToHash' = ToHash /\ before' = before /\ job' = job
        /\ cas' = cas /\ rec' = rec /\ report' = report
    BY <1>1, InputsStay
  <2>2. /\ Seen' = Seen /\ Reading' = Reading /\ Created' = Created
        /\ Inserted' = Inserted /\ Unresolved' = Unresolved
        /\ New' = New /\ Installed' = Installed
    BY <2>1 DEF Seen, Reading, Created, Inserted, Unresolved, At, New, Installed
  <2>3. ReadCounts'
    BY <2>1, <2>2 DEF CountInv, ReadCounts
  <2>4. BlobCounts'
    BY <2>1, <2>2 DEF CountInv, BlobCounts
  <2>5. RowCounts'
    BY <2>1, <2>2 DEF CountInv, RowCounts
  <2>. QED BY <2>3, <2>4, <2>5 DEF CountInv
<1>2. ASSUME NEW p \in Path, DryFile(p) PROVE CountInv'
  BY <1>1, <1>2 DEF DryFile
<1>3. CASE DryEnd \/ Abort \/ Finish \/ Ended \/ UNCHANGED vars
  BY <1>1, <1>3 DEF DryEnd, Abort, Finish, Ended, vars
<1>. QED BY <1>2, <1>3, CountScan, CountInstall, CountComplete, CountCommit, CountResolve
         DEF Next

-----------------------------------------------------------------------------
(* The theorems. *)

(* The invariant holds of every import: each counter is apart from what it *)
(* counts by exactly the files between the two steps.                      *)
THEOREM ReportsKeepUp == Spec => []ReportInv
<1>1. ReportInv /\ [Next]_vars => ReportInv'
  BY ShapeStep, InputStep, DryStep, StoreStep, CountStep DEF ReportInv
<1>. QED BY <1>1, ReportInitially, PTL DEF Spec

(* The bytes of a set of files. *)
LEMMA TotalIsSum ==
  ASSUME content \in [Path -> Hash]
  PROVE  Total(Path) = Sum(Weight, Path)
<1>1. \A p \in Path : Weight[p] = Bytes(p) /\ Weight[p] \in Nat
  BY SizeAssumption DEF Weight, Bytes
<1>2. PICK G : Adds(G, Weight, Path)
  BY <1>1, AdderExists, PathAssumption
<1>3. Sum(Weight, Path) = G[Path]
  BY <1>1, <1>2, SumIsAdder, PathAssumption
<1>4. Total(Path) =
        (CHOOSE g : g = [s \in SUBSET Path |->
                           IF s = {} THEN 0 ELSE Bytes(SomeOf(s)) + g[s \ {SomeOf(s)}]])[Path]
  BY DEF Total, MapThenSumSet, MapThenFoldSet, SomeOf
<1>5. ASSUME NEW s \in SUBSET Path, s # {} PROVE Bytes(SomeOf(s)) = Weight[SomeOf(s)]
  <2>1. SomeOf(s) \in Path
    BY <1>5 DEF SomeOf
  <2>. QED BY <1>1, <2>1
<1>6. ASSUME NEW g
      PROVE  g = [s \in SUBSET Path |->
                    IF s = {} THEN 0 ELSE Bytes(SomeOf(s)) + g[s \ {SomeOf(s)}]]
               <=> Folds(g, Weight, Path)
  <2>1. [s \in SUBSET Path |->
           IF s = {} THEN 0 ELSE Bytes(SomeOf(s)) + g[s \ {SomeOf(s)}]]
        = [s \in SUBSET Path |->
             IF s = {} THEN 0 ELSE Weight[SomeOf(s)] + g[s \ {SomeOf(s)}]]
    BY <1>5
  <2>. QED BY <2>1 DEF Folds
<1>7. \A g : Folds(g, Weight, Path) <=> g = G
  BY <1>1, <1>2, FoldIsSum, PathAssumption
<1>8. (CHOOSE g : g = [s \in SUBSET Path |->
                         IF s = {} THEN 0 ELSE Bytes(SomeOf(s)) + g[s \ {SomeOf(s)}]]) = G
  BY <1>6, <1>7
<1>. QED BY <1>3, <1>4, <1>8

(* No counter of either report exceeds the files and bytes of the source.  *)
THEOREM ReportTypes == Spec => []TypeOK
<1>1. ReportInv => TypeOK
  <2>. SUFFICES ASSUME ReportInv PROVE TypeOK
    OBVIOUS
  <2>. DEFINE n == Cardinality(Path)
              b == Sum(Weight, Path)
  <2>1. Shape /\ DryInv /\ StoreInv /\ CountInv /\ content \in [Path -> Hash]
    BY DEF ReportInv, Shape
  <2>2. Path \in SUBSET Path
    OBVIOUS
  <2>3. n \in Nat /\ b \in Nat /\ Total(Path) = b
    BY <2>1, <2>2, FileSets, TotalIsSum
  <2>4. ASSUME NEW r \in Reports, r["files_seen"] <= n, r["bytes_seen"] <= b,
               r["files_skipped"] + r["files_hashed"] <= n,
               r["bytes_skipped"] + r["bytes_hashed"] <= b,
               r["bytes_written"] <= r["bytes_hashed"],
               r["blobs_created"] + r["blobs_reused"] <= n,
               r["source_records_inserted"] + r["source_records_updated"] <= n
        PROVE  \A c \in Counter : r[c] \in 0 .. n + b
    <3>1. \A c \in Counter : r[c] \in Nat
      BY DEF Reports
    <3>. HIDE DEF n, b
    <3>2. /\ r["files_seen"] <= n + b /\ r["bytes_seen"] <= n + b
          /\ r["files_skipped"] <= n + b /\ r["files_hashed"] <= n + b
          /\ r["bytes_skipped"] <= n + b /\ r["bytes_hashed"] <= n + b
      BY <2>3, <2>4, <3>1 DEF Counter
    <3>3. /\ r["bytes_written"] <= n + b
          /\ r["blobs_created"] <= n + b /\ r["blobs_reused"] <= n + b
          /\ r["source_records_inserted"] <= n + b /\ r["source_records_updated"] <= n + b
      BY <2>3, <2>4, <3>1 DEF Counter
    <3>4. \A c \in Counter : r[c] <= n + b
      BY <3>2, <3>3 DEF Counter
    <3>. QED BY <2>3, <3>1, <3>4
  <2>5. \A c \in Counter : report[c] \in 0 .. n + b
    <3>1. /\ Cardinality(Seen) \in Nat /\ Sum(Weight, Seen) \in Nat
          /\ Cardinality(Seen) <= n /\ Sum(Weight, Seen) <= b
          /\ Cardinality(Reading) \in Nat /\ Sum(Weight, Reading) \in Nat
          /\ Cardinality(Unresolved) \in Nat
      BY <2>1, CountedSets, FileSets
    <3>2. report \in Reports /\ \A c \in Counter : report[c] \in Nat
      BY <2>1 DEF Shape, Reports
    <3>. HIDE DEF n, b
    <3>3. /\ report["files_seen"] <= n /\ report["bytes_seen"] <= b
          /\ report["files_skipped"] + report["files_hashed"] <= n
          /\ report["bytes_skipped"] + report["bytes_hashed"] <= b
      BY <2>1, <2>3, <3>1, <3>2 DEF CountInv, ReadCounts, Counter
    <3>4. /\ report["bytes_written"] <= report["bytes_hashed"]
          /\ report["blobs_created"] + report["blobs_reused"] <= n
      BY <2>1, <3>3 DEF CountInv, BlobCounts
    <3>5. report["source_records_inserted"] + report["source_records_updated"] <= n
      BY <2>1, <2>3, <3>1, <3>2 DEF CountInv, RowCounts, Counter
    <3>. QED BY <2>4, <3>2, <3>3, <3>4, <3>5
  <2>6. \A c \in Counter : dry.report[c] \in 0 .. n + b
    <3>1. Scanned \in SUBSET Path
      BY DEF Scanned
    <3>2. Cardinality(Scanned) <= n /\ Sum(Weight, Scanned) <= b
      BY <2>1, <3>1, FileSets
    <3>3. dry.report \in Reports
      BY <2>1 DEF Shape
    <3>. HIDE DEF n, b
    <3>. QED BY <2>1, <2>4, <3>2, <3>3 DEF DryInv, Accounts
  <2>7. \A r \in {report, dry.report} : \A c \in Counter :
          r[c] \in 0 .. Cardinality(Path) + Total(Path)
    BY <2>3, <2>5, <2>6
  <2>. QED BY <2>1, <2>7 DEF TypeOK, Shape, Blobs, Rows
<1>. QED BY <1>1, ReportsKeepUp, PTL

(* When all files are done, nothing is left between a step and its count.  *)
LEMMA AllDone ==
  ASSUME ReportInv, outcome = "ok"
  PROVE  /\ Seen = Path /\ Reading = {} /\ Created = {} /\ Inserted = {} /\ Unresolved = {}
         /\ \A p \in Path : rec[p] = content[p] /\ cas[content[p]] = "intact"
<1>1. \A p \in Path : job[p] = "done"
  BY DEF ReportInv, StoreInv
<1>. QED BY <1>1 DEF Seen, Reading, Created, Inserted, Unresolved, At, ReportInv, StoreInv

(* What a successful import reports is what it did to the store.  In any   *)
(* order of its threads, the counters of blobs, bytes and rows are those   *)
(* of the difference between the store before and after, and each file of  *)
(* the source is counted once on each side.                                *)
THEOREM ReportsMatchTheStore == Spec => []ReportMatchesStore
<1>1. ReportInv => ReportMatchesStore
  <2>. SUFFICES ASSUME ReportInv, outcome = "ok"
                PROVE  /\ report["blobs_created"] = Cardinality(Installed)
                       /\ report["bytes_written"] = MapThenSumSet(LAMBDA h : Size[h], Installed)
                       /\ report["source_records_inserted"] =
                            Cardinality({p \in Path : before.rec[p] = None /\ rec[p] # None})
                       /\ report["source_records_inserted"] + report["source_records_updated"]
                            = Cardinality(Path)
                       /\ report["blobs_created"] + report["blobs_reused"] = Cardinality(Path)
                       /\ report["files_skipped"] + report["files_hashed"]
                            = report["files_seen"]
                       /\ report["bytes_skipped"] + report["bytes_hashed"]
                            = report["bytes_seen"]
    BY DEF ReportMatchesStore
  <2>1. /\ Seen = Path /\ Reading = {} /\ Created = {} /\ Inserted = {} /\ Unresolved = {}
    BY AllDone
  <2>2. Cardinality({}) = 0 /\ Sum(Weight, {}) = 0
    BY FileSets DEF ReportInv, Shape
  <2>3. \A c \in Counter : report[c] \in Nat
    BY DEF ReportInv, Shape, Reports
  <2>4. CountInv
    BY DEF ReportInv
  <2>5. MapThenSumSet(LAMBDA h : Size[h], Installed) = Sum(Size, Installed)
    BY DEF Sum
  <2>6. New = {p \in Path : before.rec[p] = None /\ rec[p] # None}
    BY DEF New
  <2>7. /\ report["files_skipped"] + report["files_hashed"] = report["files_seen"]
        /\ report["bytes_skipped"] + report["bytes_hashed"] = report["bytes_seen"]
        /\ report["files_seen"] = Cardinality(Path)
    BY <2>1, <2>2, <2>3, <2>4 DEF CountInv, ReadCounts, Counter
  <2>8. /\ report["blobs_created"] = Cardinality(Installed)
        /\ report["bytes_written"] = Sum(Size, Installed)
        /\ report["blobs_created"] + report["blobs_reused"] = Cardinality(Path)
    BY <2>1, <2>2, <2>3, <2>4, <2>7 DEF CountInv, BlobCounts, Counter
  <2>9. /\ report["source_records_inserted"] = Cardinality(New)
        /\ report["source_records_inserted"] + report["source_records_updated"]
             = Cardinality(Path)
    BY <2>1, <2>2, <2>3, <2>4 DEF CountInv, RowCounts, Counter
  <2>. QED BY <2>5, <2>6, <2>7, <2>8, <2>9
<1>. QED BY <1>1, ReportsKeepUp, PTL

(* A dry run predicts the import that follows it: an import succeeds only  *)
(* if the dry run did, its counters are then those of the dry run, the     *)
(* four of the reads aside, and it reads no more files.  A content the dry *)
(* run counted as created once is created by exactly one worker, whichever *)
(* is first.                                                               *)
THEOREM DryRunsPredict == Spec => []PredictionHolds
<1>1. ReportInv => PredictionHolds
  <2>. SUFFICES ASSUME ReportInv, outcome = "ok"
                PROVE  /\ dry.outcome = "ok"
                       /\ \A c \in Counter \ ReadCounter : report[c] = dry.report[c]
                       /\ report["files_hashed"] <= dry.report["files_hashed"]
    BY DEF PredictionHolds
  <2>1. /\ Seen = Path /\ Reading = {} /\ Created = {} /\ Inserted = {} /\ Unresolved = {}
        /\ \A p \in Path : rec[p] = content[p] /\ cas[content[p]] = "intact"
    BY AllDone
  <2>2. /\ Shape /\ InputInv /\ DryInv /\ StoreInv /\ CountInv
        /\ content \in [Path -> Hash]
    BY DEF ReportInv, Shape
  <2>3. dry.outcome = "ok"
    <3>1. dry.outcome # "running"
      BY <2>2 DEF InputInv
    <3>2. ASSUME NEW p \in Path PROVE before.cas[content[p]] # "resized"
      BY <2>1, <2>2 DEF StoreInv
    <3>. QED BY <2>2, <3>1, <3>2 DEF DryInv, Shape
  <2>4. Scanned = Path
    BY <2>2, <2>3 DEF DryInv, Scanned
  <2>5. Installed = Absent(Path)
    BY <2>1, <2>2 DEF Installed, Absent, Contents, StoreInv
  <2>6. New = Unrecorded(Path)
    BY <2>1, <2>2, NoneAssumption DEF New, Unrecorded
  <2>7. Cardinality({}) = 0 /\ Sum(Weight, {}) = 0
    BY <2>2, FileSets
  <2>8. \A c \in Counter : report[c] \in Nat /\ dry.report[c] \in Nat
    BY <2>2 DEF Shape, Reports
  <2>9. Accounts(dry.report, Path)
    BY <2>2, <2>4 DEF DryInv
  <2>. DEFINE n == Cardinality(Path)
  <2>10. report["files_seen"] = dry.report["files_seen"]
         /\ report["bytes_seen"] = dry.report["bytes_seen"]
         /\ report["files_skipped"] + report["files_hashed"] = n
    BY <2>1, <2>2, <2>7, <2>8, <2>9 DEF CountInv, ReadCounts, Accounts, Counter
  <2>11. /\ report["blobs_created"] = dry.report["blobs_created"]
         /\ report["bytes_written"] = dry.report["bytes_written"]
         /\ report["blobs_created"] + report["blobs_reused"] = n
    BY <2>1, <2>2, <2>5, <2>7, <2>8, <2>9, <2>10 DEF CountInv, BlobCounts, Accounts, Counter
  <2>12. /\ report["source_records_inserted"] = dry.report["source_records_inserted"]
         /\ report["source_records_inserted"] + report["source_records_updated"] = n
    BY <2>1, <2>2, <2>6, <2>7, <2>8, <2>9 DEF CountInv, RowCounts, Accounts, Counter
  <2>13. /\ dry.report["blobs_created"] + dry.report["blobs_reused"] = n
         /\ dry.report["source_records_inserted"] + dry.report["source_records_updated"] = n
    BY <2>9 DEF Accounts
  <2>. HIDE DEF n
  <2>14. /\ report["blobs_reused"] = dry.report["blobs_reused"]
         /\ report["source_records_updated"] = dry.report["source_records_updated"]
    BY <2>8, <2>11, <2>12, <2>13 DEF Counter
  <2>15. \A c \in Counter \ ReadCounter : report[c] = dry.report[c]
    BY <2>10, <2>11, <2>12, <2>14 DEF Counter, ReadCounter
  <2>16. report["files_hashed"] <= dry.report["files_hashed"]
    BY <2>1, <2>2, <2>4, <2>7, <2>8 DEF CountInv, ReadCounts, DryInv, Counter
  <2>. QED BY <2>3, <2>15, <2>16
<1>. QED BY <1>1, ReportsKeepUp, PTL
=============================================================================
