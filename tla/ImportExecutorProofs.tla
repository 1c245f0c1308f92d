------------------------ MODULE ImportExecutorProofs ------------------------
(***************************************************************************)
(* What the streaming executor keeps true, for every set of files, mounts  *)
(* and workers and every capacity that satisfies the assumptions of        *)
(* ImportExecutor.                                                         *)
(*                                                                         *)
(* A file is in one place at any time: not yet scanned, in the scheduler   *)
(* queue, admitted (in the job channel, at a worker, in the completion     *)
(* channel or with the coordinator), submitted, or dropped.  The per-mount *)
(* counts are read against the admitted files, the retained counter        *)
(* against the completion channel and the workers that send.               *)
(***************************************************************************)
EXTENDS ImportExecutor, FiniteSetTheorems, SequenceTheorems, TLAPS

(* The files at the workers, and the one with the coordinator. *)
AtWorkers == {work[w] : w \in {v \in Worker : work[v] # None}}
AtCoordinator == {current} \ {None}

(* No file is in two places, and none is lost. *)
Places ==
  /\ IsInjective(pending) /\ IsInjective(jobs) /\ IsInjective(completions)
  /\ \A v, w \in Worker : work[v] = work[w] /\ work[v] # None => v = w
  /\ ToSet(jobs) \cap ToSet(completions) = {}
  /\ AtWorkers \cap (ToSet(jobs) \cup ToSet(completions)) = {}
  /\ current \notin ToSet(jobs) \cup ToSet(completions) \cup AtWorkers
  /\ unscanned \cap (ToSet(pending) \cup Admitted \cup submitted \cup dropped) = {}
  /\ ToSet(pending) \cap (Admitted \cup submitted \cup dropped) = {}
  /\ Admitted \cap (submitted \cup dropped) = {}
  /\ submitted \cap dropped = {}
  /\ File = unscanned \cup ToSet(pending) \cup Admitted \cup submitted \cup dropped

(* Where the coordinator and a worker are when they hold a file. *)
Holding ==
  /\ current # None <=> cpc \in {"received", "complete"}
  /\ \A w \in Worker : work[w] # None <=> wpc[w] \in {"taken", "reading", "sending"}

(* Who publishes a failure has set the flag, alone; nothing is dropped and  *)
(* nothing ends in an error without the flag, or the clean-up that sets it. *)
Publishing == {w \in Worker : wpc[w] \in {"publish", "publish_exit"}}
Flagged ==
  /\ failure = "full" => cancelled
  /\ \A w \in Publishing : cancelled /\ failure = "empty"
  /\ \A v, w \in Publishing : v = w
  /\ dropped # {} => cancelled \/ cpc = "cleanup"
  /\ result = "error" => cancelled \/ cpc = "cleanup"
  /\ cpc = "cleanup" => result = "error"
  /\ cpc \in {"top", "dispatch", "scan", "wait", "received", "complete", "limit",
              "tickets"} => result = "none"

(* The files of a mount. *)
On(m, S) == {f \in S : MountOf[f] = m}

(* A mount's count covers the files admitted on it and, until the executor  *)
(* leaves with an error, the ones that were dropped, and no others.         *)
Counts ==
  /\ IsFiniteSet(Admitted) /\ IsFiniteSet(dropped)
  /\ \A m \in Mount : Cardinality(On(m, Admitted)) <= active[m]
  /\ result # "error" => \A m \in Mount :
       active[m] = Cardinality(On(m, Admitted \cup dropped))

(* The counter of retained work is the completion channel, the workers that *)
(* send and the completion just received.                                   *)
Sending == {w \in Worker : wpc[w] = "sending"}
Retained ==
  retained = Len(completions) + Cardinality(Sending) + IF cpc = "received" THEN 1 ELSE 0

(* With the tickets to resolve, or success to report, all work is done. *)
Finished ==
  /\ scanDone => unscanned = {}
  /\ cpc = "tickets" \/ result = "ok" =>
       unscanned = {} /\ pending = <<>> /\ Admitted = {} /\ dropped = {}

ExecutorInv ==
  TypeOK /\ Places /\ Holding /\ Flagged /\ Counts /\ Retained /\ Finished
-----------------------------------------------------------------------------
(* What a channel and a queue hold, and how many files a mount has. *)

(* A sequence with an element appended holds that element as well. *)
LEMMA FilesOfAppend ==
  ASSUME NEW S, NEW s \in Seq(S), NEW e \in S
  PROVE  ToSet(Append(s, e)) = ToSet(s) \cup {e}
<1>1. /\ DOMAIN Append(s, e) = 1 .. Len(s) + 1
      /\ Append(s, e)[Len(s) + 1] = e
      /\ \A i \in 1 .. Len(s) : Append(s, e)[i] = s[i]
      /\ DOMAIN s = 1 .. Len(s) /\ Len(s) \in Nat
  OBVIOUS
<1>2. 1 .. Len(s) + 1 = 1 .. Len(s) \cup {Len(s) + 1}
  BY <1>1
<1> QED
  BY <1>1, <1>2, Zenon DEF ToSet

(* Appending what is not there repeats nothing. *)
LEMMA AppendNew ==
  ASSUME NEW S, NEW s \in Seq(S), NEW e \in S, IsInjective(s), e \notin ToSet(s)
  PROVE  IsInjective(Append(s, e))
<1>1. /\ DOMAIN Append(s, e) = 1 .. Len(s) + 1
      /\ Append(s, e)[Len(s) + 1] = e
      /\ \A i \in 1 .. Len(s) : Append(s, e)[i] = s[i]
      /\ DOMAIN s = 1 .. Len(s) /\ Len(s) \in Nat
  OBVIOUS
<1>2. 1 .. Len(s) + 1 = 1 .. Len(s) \cup {Len(s) + 1}
  BY <1>1
<1>3. \A i \in 1 .. Len(s) : s[i] # e
  BY <1>1, Zenon DEF ToSet
<1> QED
  BY <1>1, <1>2, <1>3 DEF IsInjective

(* The head of a sequence without repetitions is not in its tail, and the   *)
(* two are all it holds.                                                    *)
LEMMA HeadAndTail ==
  ASSUME NEW S, NEW s \in Seq(S), s # <<>>, IsInjective(s)
  PROVE  /\ Head(s) \in S /\ Tail(s) \in Seq(S)
         /\ IsInjective(Tail(s))
         /\ Head(s) \in ToSet(s)
         /\ ToSet(Tail(s)) = ToSet(s) \ {Head(s)}
<1>1. /\ Head(s) \in S /\ Tail(s) \in Seq(S)
      /\ Len(s) \in Nat /\ Len(s) > 0 /\ DOMAIN s = 1 .. Len(s)
      /\ Head(s) = s[1] /\ DOMAIN Tail(s) = 1 .. Len(s) - 1
      /\ \A i \in 1 .. Len(s) - 1 : Tail(s)[i] = s[i + 1]
  OBVIOUS
<1>2. IsInjective(Tail(s))
  BY <1>1 DEF IsInjective
<1>3. ToSet(Tail(s)) \subseteq ToSet(s) \ {Head(s)}
  BY <1>1 DEF ToSet, IsInjective
<1>4. ASSUME NEW x \in ToSet(s) \ {Head(s)}
      PROVE  x \in ToSet(Tail(s))
  <2>1. PICK i \in 1 .. Len(s) : x = s[i]
    BY <1>1 DEF ToSet
  <2>2. i - 1 \in 1 .. Len(s) - 1 /\ i = (i - 1) + 1
    BY <1>1, <2>1
  <2> QED
    BY <1>1, <2>1, <2>2 DEF ToSet
<1>5. Head(s) \in ToSet(s)
  BY <1>1 DEF ToSet
<1> QED
  BY <1>1, <1>2, <1>3, <1>4, <1>5

(* What an empty channel or queue holds. *)
LEMMA FilesOfEmpty ==
  ASSUME NEW S, NEW s \in Seq(S)
  PROVE  /\ ToSet(s) = {} <=> s = <<>>
         /\ ToSet(<<>>) = {} /\ IsInjective(<<>>)
         /\ ToSet(s) \subseteq S
<1>1. DOMAIN s = 1 .. Len(s) /\ Len(s) \in Nat /\ \A i \in 1 .. Len(s) : s[i] \in S
  OBVIOUS
<1>2. s # <<>> => 1 \in 1 .. Len(s)
  OBVIOUS
<1>3. DOMAIN <<>> = {}
  OBVIOUS
<1> QED
  BY <1>1, <1>2, <1>3 DEF ToSet, IsInjective

(* Removing one element of a queue without repetitions leaves the others. *)
LEMMA RemoveOne ==
  ASSUME NEW S, NEW s \in Seq(S), NEW k \in DOMAIN s, IsInjective(s)
  PROVE  /\ RemoveAt(s, k) \in Seq(S)
         /\ Len(RemoveAt(s, k)) = Len(s) - 1
         /\ IsInjective(RemoveAt(s, k))
         /\ ToSet(RemoveAt(s, k)) = ToSet(s) \ {s[k]}
<1> DEFINE r == RemoveAt(s, k)
<1>1. /\ Len(s) \in Nat /\ k \in 1 .. Len(s) /\ DOMAIN s = 1 .. Len(s)
      /\ \A i \in 1 .. Len(s) : s[i] \in S
  OBVIOUS
<1>2. /\ SubSeq(s, 1, k - 1) \in Seq(S) /\ Len(SubSeq(s, 1, k - 1)) = k - 1
      /\ \A i \in 1 .. k - 1 : SubSeq(s, 1, k - 1)[i] = s[i]
  BY <1>1, SubSeqProperties
<1>3. /\ SubSeq(s, k + 1, Len(s)) \in Seq(S)
      /\ Len(SubSeq(s, k + 1, Len(s))) = Len(s) - k
      /\ \A i \in 1 .. Len(s) - k : SubSeq(s, k + 1, Len(s))[i] = s[k + i]
  BY <1>1, SubSeqProperties
<1> DEFINE x == SubSeq(s, 1, k - 1)
           y == SubSeq(s, k + 1, Len(s))
<1> HIDE DEF x, y
<1>a. /\ r \in Seq(S) /\ Len(r) = Len(x) + Len(y)
      /\ \A i \in 1 .. Len(x) + Len(y) : r[i] = IF i <= Len(x) THEN x[i] ELSE y[i - Len(x)]
  <2>1. r = x \o y
    BY DEF r, x, y, RemoveAt
  <2>2. x \in Seq(S) /\ y \in Seq(S)
    BY <1>2, <1>3 DEF x, y
  <2> HIDE DEF r
  <2> QED
    BY <2>1, <2>2, ConcatProperties
<1> HIDE DEF r
<1>b. /\ Len(x) = k - 1 /\ Len(y) = Len(s) - k
      /\ \A i \in 1 .. k - 1 : x[i] = s[i]
      /\ \A i \in 1 .. Len(s) - k : y[i] = s[k + i]
  BY <1>2, <1>3 DEF x, y
<1>4. /\ r \in Seq(S) /\ Len(r) = Len(s) - 1
      /\ \A i \in 1 .. Len(s) - 1 : r[i] = IF i < k THEN s[i] ELSE s[i + 1]
  <2>1. Len(r) = Len(s) - 1 /\ r \in Seq(S)
    BY <1>1, <1>a, <1>b
  <2>2. ASSUME NEW i \in 1 .. Len(s) - 1, i < k PROVE r[i] = s[i]
    BY <1>1, <1>a, <1>b, <2>2
  <2>3. ASSUME NEW i \in 1 .. Len(s) - 1, ~ (i < k) PROVE r[i] = s[i + 1]
    <3>1. /\ i - (k - 1) \in 1 .. Len(s) - k /\ k + (i - (k - 1)) = i + 1
          /\ i \in 1 .. Len(x) + Len(y) /\ ~ (i <= Len(x))
      BY <1>1, <1>b, <2>3
    <3>2. r[i] = y[i - (k - 1)]
      BY <1>a, <1>b, <3>1
    <3> QED
      BY <1>b, <3>1, <3>2
  <2> QED
    BY <2>1, <2>2, <2>3
<1>5. DOMAIN r = 1 .. Len(s) - 1
  BY <1>4
<1>6. IsInjective(r)
  BY <1>1, <1>4, <1>5 DEF IsInjective
<1>7. ToSet(r) \subseteq ToSet(s) \ {s[k]}
  BY <1>1, <1>4, <1>5 DEF IsInjective, ToSet
<1>8. ASSUME NEW e \in ToSet(s) \ {s[k]} PROVE e \in ToSet(r)
  <2>1. PICK i \in 1 .. Len(s) : e = s[i] /\ i # k
    BY <1>1 DEF ToSet
  <2>2. CASE i < k
    BY <1>1, <1>4, <1>5, <2>1, <2>2 DEF ToSet
  <2>3. CASE i > k
    <3>1. i - 1 \in 1 .. Len(s) - 1 /\ r[i - 1] = s[i]
      BY <1>1, <1>4, <2>1, <2>3
    <3> QED
      BY <1>5, <2>1, <3>1 DEF ToSet
  <2> QED
    BY <1>1, <2>1, <2>2, <2>3
<1> QED
  BY <1>4, <1>6, <1>7, <1>8 DEF r

(* The dispatcher's choice is an eligible file of the queue. *)
LEMMA ChoiceIsReady ==
  ASSUME TypeOK, Ready # {}
  PROVE  Choice \in Ready /\ Choice \in DOMAIN pending
<1> DEFINE S == IF Fresh # {} THEN Fresh ELSE Ready
<1>1. S # {} /\ S \subseteq Ready /\ Ready \subseteq DOMAIN pending
  BY DEF Fresh, Ready
<1>2. S \in SUBSET Nat
  BY <1>1 DEF TypeOK
<1>3. Choice = CHOOSE i \in S : \A j \in S : i <= j
  BY DEF Choice
<1> HIDE DEF S
<1>4. PICK x \in S : \A y \in S : ~ (<<y, x>> \in OpToRel(<, Nat))
  BY <1>1, <1>2, NatLessThanWellFounded, WFMin
<1>5. \A y \in Nat : y < x => <<y, x>> \in OpToRel(<, Nat)
  BY <1>2, Zenon DEF OpToRel
<1>6. \A y \in S : ~ (y < x)
  BY <1>2, <1>4, <1>5, Zenon
<1>7. \A y \in S : x <= y
  BY <1>2, <1>6
<1>8. Choice \in S
  BY <1>3, <1>7
<1> QED
  BY <1>1, <1>8

(* A file that joins a set counts once, on its own mount. *)
LEMMA OnePlus ==
  ASSUME NEW S, IsFiniteSet(S), NEW f, f \notin S, NEW m
  PROVE  /\ IsFiniteSet(S \cup {f})
         /\ Cardinality(On(m, S)) \in Nat
         /\ Cardinality(On(m, S \cup {f})) =
              Cardinality(On(m, S)) + IF MountOf[f] = m THEN 1 ELSE 0
<1>1. IsFiniteSet(On(m, S)) /\ IsFiniteSet(S \cup {f})
  BY FS_Subset, FS_AddElement DEF On
<1>2. Cardinality(On(m, S)) \in Nat
  BY <1>1, FS_CardinalityType
<1>3. CASE MountOf[f] = m
  <2>1. On(m, S \cup {f}) = On(m, S) \cup {f} /\ f \notin On(m, S)
    BY <1>3 DEF On
  <2> QED
    BY <1>1, <1>2, <1>3, <2>1, FS_AddElement
<1>4. CASE MountOf[f] # m
  <2>1. On(m, S \cup {f}) = On(m, S)
    BY <1>4 DEF On
  <2> QED
    BY <1>1, <1>2, <1>4, <2>1
<1> QED
  BY <1>3, <1>4

(* The same, for a file that leaves. *)
LEMMA OneLess ==
  ASSUME NEW S, IsFiniteSet(S), NEW f \in S, NEW m
  PROVE  /\ IsFiniteSet(S \ {f})
         /\ Cardinality(On(m, S \ {f})) \in Nat
         /\ Cardinality(On(m, S)) =
              Cardinality(On(m, S \ {f})) + IF MountOf[f] = m THEN 1 ELSE 0
<1>1. IsFiniteSet(S \ {f}) /\ (S \ {f}) \cup {f} = S
  BY FS_RemoveElement
<1> QED
  BY <1>1, OnePlus

-----------------------------------------------------------------------------
(* Every step keeps the invariant. *)

(* Every step keeps who holds a file in agreement with where they are. *)
LEMMA HoldingStep ==
  ASSUME TypeOK, Holding, [Next]_vars
  PROVE  Holding'
<1> USE DEF TypeOK, CoordinatorPc, WorkerPc, Holding, scan, schedule,
            coordinator, channels, control, pool, outside
<1>a. /\ ToSet(jobs) \subseteq File /\ ToSet(completions) \subseteq File
      /\ ToSet(pending) \subseteq File /\ ToSet(<<>>) = {} /\ IsInjective(<<>>)
      /\ None \notin File
  BY FilesOfEmpty, MountsAssumption DEF TypeOK
<1>1. CASE Poll
  BY <1>1, <1>a DEF Poll, Leave
<1>2. CASE Dispatch
  BY <1>2, <1>a DEF Dispatch
<1>3. CASE DispatchEnd
  BY <1>3, <1>a DEF DispatchEnd, Leave
<1>4. CASE PollBeforeScan
  BY <1>4, <1>a DEF PollBeforeScan, Leave
<1>5. CASE Scan
  BY <1>5, <1>a DEF Scan, CanScan, ScanRoom
<1>6. CASE ScanEnd
  BY <1>6, <1>a DEF ScanEnd, CanScan, ScanRoom
<1>7. CASE RecvCompletion
  BY <1>7, <1>a DEF RecvCompletion
<1>8. CASE RecvFailure
  BY <1>8, <1>a DEF RecvFailure, Leave
<1>9. CASE CountReceived
  BY <1>9, <1>a DEF CountReceived
<1>10. CASE CompleteWork
  BY <1>10, <1>a DEF CompleteWork, Leave
<1>11. CASE DrainOutcomesToLimit
  BY <1>11, <1>a DEF DrainOutcomesToLimit, Leave
<1>12. CASE ResolveTickets
  BY <1>12, <1>a DEF ResolveTickets, Leave
<1>13. CASE Cleanup
  BY <1>13, <1>a DEF Cleanup
<1>14. CASE Finish
  BY <1>14, <1>a DEF Finish
<1>15. CASE Join
  BY <1>15, <1>a DEF Join
<1>16. ASSUME NEW w \in Worker, Take(w) PROVE Holding'
  BY <1>16, <1>a DEF Take, Become
<1>17. ASSUME NEW w \in Worker, WorkerExit(w) PROVE Holding'
  BY <1>17, <1>a DEF WorkerExit, Become
<1>18. ASSUME NEW w \in Worker, Begin(w) PROVE Holding'
  BY <1>18, <1>a DEF Begin, Become
<1>19. ASSUME NEW w \in Worker, Discard(w) PROVE Holding'
  BY <1>19, <1>a DEF Discard, Become, Signal, Forget
<1>20. ASSUME NEW w \in Worker, Publish(w) PROVE Holding'
  BY <1>20, <1>a DEF Publish, Become
<1>21. ASSUME NEW w \in Worker, ReadDone(w) PROVE Holding'
  BY <1>21, <1>a DEF ReadDone, Become
<1>22. ASSUME NEW w \in Worker, Send(w) PROVE Holding'
  BY <1>22, <1>a DEF Send, Become
<1>23. ASSUME NEW w \in Worker, SendCancelled(w) PROVE Holding'
  BY <1>23, <1>a DEF SendCancelled, Become, Forget
<1>24. ASSUME NEW w \in Worker, ReadFail(w) PROVE Holding'
  BY <1>24, <1>a DEF ReadFail, Become, Signal, Forget
<1>25. CASE ScanFail
  BY <1>25, <1>a DEF ScanFail, Leave, CanScan, ScanRoom
<1>26. CASE RendererDies
  BY <1>26, <1>a DEF RendererDies
<1>27. CASE WriterFails
  BY <1>27, <1>a DEF WriterFails
<1>28. CASE UNCHANGED vars
  BY <1>28, <1>a DEF vars
<1> QED
  BY <1>1, <1>2, <1>3, <1>4, <1>5, <1>6, <1>7, <1>8, <1>9, <1>10, <1>11,
     <1>12, <1>13, <1>14, <1>15, <1>16, <1>17, <1>18, <1>19, <1>20, <1>21,
     <1>22, <1>23, <1>24, <1>25, <1>26, <1>27, <1>28 DEF Next,
     CoordinatorStep, WorkerStep, Failures, Over

(* Every step keeps a single publisher, behind the flag. *)
LEMMA FlaggedStep ==
  ASSUME TypeOK, Flagged, [Next]_vars
  PROVE  Flagged'
<1> USE DEF TypeOK, CoordinatorPc, WorkerPc, Flagged, Publishing, scan,
            schedule, coordinator, channels, control, pool, outside
<1>1. CASE Poll
  BY <1>1 DEF Poll, Leave
<1>2. CASE Dispatch
  BY <1>2 DEF Dispatch
<1>3. CASE DispatchEnd
  BY <1>3 DEF DispatchEnd, Leave
<1>4. CASE PollBeforeScan
  BY <1>4 DEF PollBeforeScan, Leave
<1>5. CASE Scan
  BY <1>5 DEF Scan, CanScan, ScanRoom
<1>6. CASE ScanEnd
  BY <1>6 DEF ScanEnd, CanScan, ScanRoom
<1>7. CASE RecvCompletion
  BY <1>7 DEF RecvCompletion
<1>8. CASE RecvFailure
  BY <1>8 DEF RecvFailure, Leave
<1>9. CASE CountReceived
  BY <1>9 DEF CountReceived
<1>10. CASE CompleteWork
  BY <1>10 DEF CompleteWork, Leave
<1>11. CASE DrainOutcomesToLimit
  BY <1>11 DEF DrainOutcomesToLimit, Leave
<1>12. CASE ResolveTickets
  BY <1>12 DEF ResolveTickets, Leave
<1>13. CASE Cleanup
  BY <1>13 DEF Cleanup
<1>14. CASE Finish
  BY <1>14 DEF Finish
<1>15. CASE Join
  BY <1>15 DEF Join
<1>16. ASSUME NEW w \in Worker, Take(w) PROVE Flagged'
  BY <1>16 DEF Take, Become
<1>17. ASSUME NEW w \in Worker, WorkerExit(w) PROVE Flagged'
  BY <1>17 DEF WorkerExit, Become
<1>18. ASSUME NEW w \in Worker, Begin(w) PROVE Flagged'
  BY <1>18 DEF Begin, Become
<1>19. ASSUME NEW w \in Worker, Discard(w) PROVE Flagged'
  BY <1>19 DEF Discard, Become, Signal, Forget
<1>20. ASSUME NEW w \in Worker, Publish(w) PROVE Flagged'
  BY <1>20 DEF Publish, Become
<1>21. ASSUME NEW w \in Worker, ReadDone(w) PROVE Flagged'
  BY <1>21 DEF ReadDone, Become
<1>22. ASSUME NEW w \in Worker, Send(w) PROVE Flagged'
  BY <1>22 DEF Send, Become
<1>23. ASSUME NEW w \in Worker, SendCancelled(w) PROVE Flagged'
  BY <1>23 DEF SendCancelled, Become, Forget
<1>24. ASSUME NEW w \in Worker, ReadFail(w) PROVE Flagged'
  BY <1>24 DEF ReadFail, Become, Signal, Forget
<1>25. CASE ScanFail
  BY <1>25 DEF ScanFail, Leave, CanScan, ScanRoom
<1>26. CASE RendererDies
  BY <1>26 DEF RendererDies
<1>27. CASE WriterFails
  BY <1>27 DEF WriterFails
<1>28. CASE UNCHANGED vars
  BY <1>28 DEF vars
<1> QED
  BY <1>1, <1>2, <1>3, <1>4, <1>5, <1>6, <1>7, <1>8, <1>9, <1>10, <1>11,
     <1>12, <1>13, <1>14, <1>15, <1>16, <1>17, <1>18, <1>19, <1>20, <1>21,
     <1>22, <1>23, <1>24, <1>25, <1>26, <1>27, <1>28 DEF Next,
     CoordinatorStep, WorkerStep, Failures, Over

-----------------------------------------------------------------------------
(* How each step moves the admitted files. *)

(* The files with the coordinator and at the workers are files. *)
LEMMA HeldFiles ==
  ASSUME TypeOK, Places
  PROVE  /\ None \notin File /\ ToSet(<<>>) = {} /\ IsInjective(<<>>)
         /\ ToSet(jobs) \subseteq File /\ ToSet(completions) \subseteq File
         /\ ToSet(pending) \subseteq File
         /\ AtWorkers \subseteq File /\ AtCoordinator \subseteq File
         /\ Admitted = ToSet(jobs) \cup ToSet(completions) \cup AtWorkers \cup AtCoordinator
         /\ \A w \in Worker : work[w] # None => work[w] \in AtWorkers
         /\ current # None => current \in AtCoordinator
<1>1. /\ ToSet(jobs) \subseteq File /\ ToSet(completions) \subseteq File
      /\ ToSet(pending) \subseteq File /\ ToSet(<<>>) = {} /\ IsInjective(<<>>)
  BY FilesOfEmpty DEF TypeOK
<1> QED
  BY <1>1, MountsAssumption DEF TypeOK, AtWorkers, AtCoordinator, Admitted

(* What is at the workers when nothing, one file more, or one file less is. *)
LEMMA WorkersUnchanged ==
  ASSUME UNCHANGED <<jobs, completions, work, current>>
  PROVE  Admitted' = Admitted /\ AtWorkers' = AtWorkers
  BY DEF Admitted, AtWorkers

(* A worker takes a file. *)
LEMMA WorkerGains ==
  ASSUME TypeOK, NEW w \in Worker, NEW f \in File, work[w] = None,
         work' = [work EXCEPT ![w] = f]
  PROVE  AtWorkers' = AtWorkers \cup {f}
  BY MountsAssumption DEF TypeOK, AtWorkers

(* A worker gives a file away. *)
LEMMA WorkerLoses ==
  ASSUME TypeOK, Places, NEW w \in Worker, work[w] # None,
         work' = [work EXCEPT ![w] = None]
  PROVE  AtWorkers' = AtWorkers \ {work[w]} /\ work[w] \in AtWorkers /\ work[w] \in File
  BY DEF TypeOK, AtWorkers, Places

(* Take moves the head of the job channel to the worker. *)
LEMMA TakeMoves ==
  ASSUME TypeOK, Holding, Places, NEW w \in Worker, Take(w)
  PROVE  /\ Head(jobs) \in ToSet(jobs) /\ IsInjective(jobs')
         /\ ToSet(jobs') = ToSet(jobs) \ {Head(jobs)}
         /\ AtWorkers' = AtWorkers \cup {Head(jobs)}
         /\ Admitted' = Admitted
<1>1. /\ Head(jobs) \in ToSet(jobs) /\ Head(jobs) \in File /\ IsInjective(jobs')
      /\ ToSet(jobs') = ToSet(jobs) \ {Head(jobs)}
  BY HeadAndTail DEF TypeOK, Places, Take
<1>2. AtWorkers' = AtWorkers \cup {Head(jobs)}
  BY <1>1, WorkerGains DEF Take, Holding
<1>3. UNCHANGED <<completions, current>>
  BY DEF Take, coordinator
<1> QED
  BY <1>1, <1>2, <1>3 DEF Admitted, AtWorkers

(* Send moves the worker's file to the completion channel. *)
LEMMA SendMoves ==
  ASSUME TypeOK, Holding, Places, NEW w \in Worker, Send(w)
  PROVE  /\ work[w] \in AtWorkers /\ work[w] \in File /\ IsInjective(completions')
         /\ ToSet(completions') = ToSet(completions) \cup {work[w]}
         /\ AtWorkers' = AtWorkers \ {work[w]}
         /\ Admitted' = Admitted
<1>1. /\ AtWorkers' = AtWorkers \ {work[w]} /\ work[w] \in AtWorkers /\ work[w] \in File
  BY WorkerLoses DEF Send, Holding
<1>2. IsInjective(completions') /\ ToSet(completions') = ToSet(completions) \cup {work[w]}
  BY <1>1, FilesOfAppend, AppendNew DEF TypeOK, Places, Send
<1>3. UNCHANGED <<jobs, current>>
  BY DEF Send, coordinator
<1> QED
  BY <1>1, <1>2, <1>3 DEF Admitted, AtWorkers

(* RecvCompletion moves the head of the completion channel to the           *)
(* coordinator.                                                             *)
LEMMA ReceiveMoves ==
  ASSUME TypeOK, Holding, Places, RecvCompletion
  PROVE  /\ Head(completions) \in ToSet(completions) /\ IsInjective(completions')
         /\ ToSet(completions') = ToSet(completions) \ {Head(completions)}
         /\ current' = Head(completions) /\ AtWorkers' = AtWorkers
         /\ Admitted' = Admitted
<1>1. /\ Head(completions) \in ToSet(completions) /\ Head(completions) \in File
      /\ IsInjective(completions')
      /\ ToSet(completions') = ToSet(completions) \ {Head(completions)}
  BY HeadAndTail DEF TypeOK, Places, RecvCompletion
<1>2. current = None /\ current' = Head(completions) /\ UNCHANGED <<jobs, work>>
  BY DEF RecvCompletion, Holding, pool
<1>3. AtWorkers' = AtWorkers
  BY <1>2 DEF AtWorkers
<1> QED
  BY <1>1, <1>2, <1>3, MountsAssumption DEF Admitted, AtWorkers

(* A worker that drops its file takes it out of the admitted ones. *)
LEMMA ForgetLoses ==
  ASSUME TypeOK, Holding, Places, NEW w \in Worker, work[w] # None, Forget(w),
         UNCHANGED <<jobs, completions, current>>
  PROVE  /\ work[w] \in AtWorkers /\ work[w] \in Admitted /\ work[w] \in File
         /\ AtWorkers' = AtWorkers \ {work[w]}
         /\ Admitted' = Admitted \ {work[w]}
         /\ dropped' = dropped \cup {work[w]}
<1>1. /\ AtWorkers' = AtWorkers \ {work[w]} /\ work[w] \in AtWorkers /\ work[w] \in File
  BY WorkerLoses DEF Forget
<1>2. work[w] \notin ToSet(jobs) \cup ToSet(completions) \cup {current}
  BY <1>1 DEF Places
<1> QED
  BY <1>1, <1>2 DEF Admitted, AtWorkers, Forget

(* CompleteWork takes the coordinator's file out of the admitted ones. *)
LEMMA CompleteRemoves ==
  ASSUME TypeOK, Holding, Places, CompleteWork
  PROVE  /\ current \in Admitted /\ current \in File
         /\ Admitted' = Admitted \ {current} /\ AtWorkers' = AtWorkers
<1>1. current \in File /\ current' = None /\ UNCHANGED <<jobs, completions, work>>
  BY DEF CompleteWork, Holding, TypeOK, channels
<1>2. AtWorkers' = AtWorkers
  BY <1>1 DEF AtWorkers
<1> QED
  BY <1>1, <1>2, MountsAssumption DEF Admitted, AtWorkers, Places

(* Dispatch moves an eligible file from the scheduler queue to the job      *)
(* channel.                                                                 *)
LEMMA DispatchAdds ==
  ASSUME TypeOK, Holding, Places, Dispatch
  PROVE  \E f \in ToSet(pending) :
           /\ f \in File /\ f \notin Admitted \cup dropped
           /\ active[MountOf[f]] < WorkersPerMount
           /\ active' = [active EXCEPT ![MountOf[f]] = @ + 1] /\ last' = MountOf[f]
           /\ IsInjective(pending') /\ ToSet(pending') = ToSet(pending) \ {f}
           /\ pending' \in Seq(File) /\ Len(pending') = Len(pending) - 1
           /\ IsInjective(jobs') /\ ToSet(jobs') = ToSet(jobs) \cup {f}
           /\ jobs' = Append(jobs, f)
           /\ AtWorkers' = AtWorkers /\ Admitted' = Admitted \cup {f}
<1> DEFINE f == pending[Choice]
<1>1. Choice \in Ready /\ Choice \in DOMAIN pending
  BY ChoiceIsReady DEF Dispatch
<1>2. f \in ToSet(pending) /\ f \in File /\ active[MountOf[f]] < WorkersPerMount
  BY <1>1 DEF Ready, Eligible, ToSet, TypeOK
<1>3. /\ active' = [active EXCEPT ![MountOf[f]] = @ + 1] /\ last' = MountOf[f]
      /\ pending' = RemoveAt(pending, Choice) /\ jobs' = Append(jobs, f)
      /\ UNCHANGED <<completions, work, current>>
  BY DEF Dispatch, coordinator, pool
<1>4. /\ IsInjective(pending') /\ ToSet(pending') = ToSet(pending) \ {f}
      /\ pending' \in Seq(File) /\ Len(pending') = Len(pending) - 1
  BY <1>1, <1>3, RemoveOne DEF TypeOK, Places
<1>5. f \notin Admitted \cup dropped
  BY <1>2 DEF Places
<1>6. IsInjective(jobs') /\ ToSet(jobs') = ToSet(jobs) \cup {f}
  BY <1>2, <1>3, <1>5, FilesOfAppend, AppendNew DEF TypeOK, Places, Admitted
<1>7. AtWorkers' = AtWorkers /\ Admitted' = Admitted \cup {f}
  BY <1>3, <1>6 DEF Admitted, AtWorkers
<1> HIDE DEF f
<1> QED
  BY <1>2, <1>3, <1>4, <1>5, <1>6, <1>7

(* Every step keeps each file in one place. *)
LEMMA PlacesStep ==
  ASSUME TypeOK, Holding, Places, [Next]_vars
  PROVE  Places'
<1> USE DEF scan, schedule, coordinator, channels, control, pool, outside
<1>a. /\ None \notin File
      /\ Admitted = ToSet(jobs) \cup ToSet(completions) \cup AtWorkers \cup AtCoordinator
      /\ AtWorkers \subseteq File
  BY HeldFiles
<1>1. CASE Poll
  BY <1>1, WorkersUnchanged DEF Poll, Leave, Places
<1>2. CASE Dispatch
  <2>1. PICK f \in ToSet(pending) :
          /\ IsInjective(pending') /\ ToSet(pending') = ToSet(pending) \ {f}
          /\ IsInjective(jobs') /\ ToSet(jobs') = ToSet(jobs) \cup {f}
          /\ AtWorkers' = AtWorkers /\ Admitted' = Admitted \cup {f}
          /\ f \in File /\ f \notin Admitted
    BY <1>2, DispatchAdds
  <2>2. UNCHANGED <<unscanned, completions, work, current, submitted, dropped>>
    BY <1>2 DEF Dispatch
  <2>3. f # current /\ f \notin AtWorkers \cup ToSet(jobs) \cup ToSet(completions)
    BY <2>1, HeldFiles
  <2> QED
    BY <1>a, <2>1, <2>2, <2>3 DEF Places
<1>3. CASE DispatchEnd
  BY <1>3, WorkersUnchanged DEF DispatchEnd, Leave, Places
<1>4. CASE PollBeforeScan
  BY <1>4, WorkersUnchanged DEF PollBeforeScan, Leave, Places
<1>5. CASE Scan
  <2>1. UNCHANGED <<jobs, completions, work, current, submitted, dropped>>
    BY <1>5 DEF Scan, CanScan, ScanRoom
  <2>2. CASE UNCHANGED <<unscanned, pending>>
    BY <2>1, <2>2, WorkersUnchanged DEF Places
  <2>3. ASSUME NEW f \in unscanned, unscanned' = unscanned \ {f}, pending' = Append(pending, f)
        PROVE  Places'
    <3>1. f \in File /\ f \notin ToSet(pending)
      BY <2>3 DEF TypeOK, Places
    <3>2. IsInjective(pending') /\ ToSet(pending') = ToSet(pending) \cup {f}
      BY <2>3, <3>1, FilesOfAppend, AppendNew DEF TypeOK, Places
    <3> QED
      BY <2>1, <2>3, <3>1, <3>2, WorkersUnchanged DEF Places
  <2> QED
    BY <1>5, <2>2, <2>3 DEF Scan, CanScan, ScanRoom
<1>6. CASE ScanEnd
  BY <1>6, WorkersUnchanged DEF ScanEnd, CanScan, ScanRoom, Places
<1>7. CASE RecvCompletion
  <2>1. UNCHANGED <<unscanned, pending, jobs, work, submitted, dropped>>
    BY <1>7 DEF RecvCompletion
  <2> QED
    BY <1>7, <1>a, <2>1, ReceiveMoves DEF Places
<1>8. CASE RecvFailure
  BY <1>8, WorkersUnchanged DEF RecvFailure, Leave, Places
<1>9. CASE CountReceived
  BY <1>9, WorkersUnchanged DEF CountReceived, Places
<1>10. CASE CompleteWork
  <2>1. /\ UNCHANGED <<unscanned, pending, jobs, completions, work>> /\ current' = None
        /\ \/ submitted' = submitted \cup {current} /\ dropped' = dropped
           \/ dropped' = dropped \cup {current} /\ submitted' = submitted
    BY <1>10 DEF CompleteWork, Leave
  <2>2. /\ current \in Admitted /\ current \in File
        /\ Admitted' = Admitted \ {current} /\ AtWorkers' = AtWorkers
    BY <1>10, CompleteRemoves
  <2> QED
    BY <1>a, <2>1, <2>2, HeldFiles DEF Places
<1>11. CASE DrainOutcomesToLimit
  BY <1>11, WorkersUnchanged DEF DrainOutcomesToLimit, Leave, Places
<1>12. CASE ResolveTickets
  BY <1>12, WorkersUnchanged DEF ResolveTickets, Leave, Places
<1>13. CASE Cleanup
  BY <1>13, WorkersUnchanged DEF Cleanup, Places
<1>14. CASE Finish
  BY <1>14, WorkersUnchanged DEF Finish, Places
<1>15. CASE Join
  BY <1>15, WorkersUnchanged DEF Join, Places
<1>16. ASSUME NEW w \in Worker, Take(w) PROVE Places'
  <2>1. /\ UNCHANGED <<unscanned, pending, completions, submitted, dropped, current>>
        /\ work' = [work EXCEPT ![w] = Head(jobs)]
    BY <1>16 DEF Take, Become
  <2>2. /\ Head(jobs) \in ToSet(jobs) /\ IsInjective(jobs') /\ Admitted' = Admitted
        /\ ToSet(jobs') = ToSet(jobs) \ {Head(jobs)}
        /\ AtWorkers' = AtWorkers \cup {Head(jobs)}
    BY <1>16, TakeMoves
  <2>3. \A v \in Worker : work[v] # Head(jobs)
    BY <2>2, HeldFiles DEF Places
  <2>4. (\A u, v \in Worker : work[u] = work[v] /\ work[u] # None => u = v)'
    BY <2>1, <2>3 DEF TypeOK, Places
  <2> QED
    BY <1>a, <2>1, <2>2, <2>4 DEF Places
<1>17. ASSUME NEW w \in Worker, WorkerExit(w) PROVE Places'
  BY <1>17, WorkersUnchanged DEF WorkerExit, Become, Places
<1>18. ASSUME NEW w \in Worker, Begin(w) PROVE Places'
  BY <1>18, WorkersUnchanged DEF Begin, Become, Places
<1>19. ASSUME NEW w \in Worker, Discard(w) PROVE Places'
  <2>1. work[w] # None /\ Forget(w) /\ UNCHANGED <<jobs, completions, current>>
    BY <1>19 DEF Discard, Become, Signal, Forget, Holding
  <2>2. UNCHANGED <<unscanned, pending, submitted>>
    BY <1>19 DEF Discard, Become, Signal, Forget
  <2>3. /\ work[w] \in AtWorkers /\ work[w] \in Admitted /\ work[w] \in File
        /\ AtWorkers' = AtWorkers \ {work[w]} /\ Admitted' = Admitted \ {work[w]}
        /\ dropped' = dropped \cup {work[w]} /\ work' = [work EXCEPT ![w] = None]
    BY <2>1, ForgetLoses DEF Forget
  <2>4. (\A u, v \in Worker : work[u] = work[v] /\ work[u] # None => u = v)'
    BY <2>3 DEF TypeOK, Places
  <2> QED
    BY <1>a, <2>1, <2>2, <2>3, <2>4 DEF Places
<1>20. ASSUME NEW w \in Worker, Publish(w) PROVE Places'
  BY <1>20, WorkersUnchanged DEF Publish, Become, Places
<1>21. ASSUME NEW w \in Worker, ReadDone(w) PROVE Places'
  BY <1>21, WorkersUnchanged DEF ReadDone, Become, Places
<1>22. ASSUME NEW w \in Worker, Send(w) PROVE Places'
  <2>1. /\ UNCHANGED <<unscanned, pending, jobs, submitted, dropped, current>>
        /\ work' = [work EXCEPT ![w] = None]
    BY <1>22 DEF Send, Become
  <2>2. (\A u, v \in Worker : work[u] = work[v] /\ work[u] # None => u = v)'
    BY <2>1 DEF TypeOK, Places
  <2> QED
    BY <1>22, <1>a, <2>1, <2>2, SendMoves DEF Places
<1>23. ASSUME NEW w \in Worker, SendCancelled(w) PROVE Places'
  <2>1. work[w] # None /\ Forget(w) /\ UNCHANGED <<jobs, completions, current>>
    BY <1>23 DEF SendCancelled, Become, Forget, Holding
  <2>2. UNCHANGED <<unscanned, pending, submitted>>
    BY <1>23 DEF SendCancelled, Become, Forget
  <2>3. /\ work[w] \in AtWorkers /\ work[w] \in Admitted /\ work[w] \in File
        /\ AtWorkers' = AtWorkers \ {work[w]} /\ Admitted' = Admitted \ {work[w]}
        /\ dropped' = dropped \cup {work[w]} /\ work' = [work EXCEPT ![w] = None]
    BY <2>1, ForgetLoses DEF Forget
  <2>4. (\A u, v \in Worker : work[u] = work[v] /\ work[u] # None => u = v)'
    BY <2>3 DEF TypeOK, Places
  <2> QED
    BY <1>a, <2>1, <2>2, <2>3, <2>4 DEF Places
<1>24. ASSUME NEW w \in Worker, ReadFail(w) PROVE Places'
  <2>1. work[w] # None /\ Forget(w) /\ UNCHANGED <<jobs, completions, current>>
    BY <1>24 DEF ReadFail, Become, Signal, Forget, Holding
  <2>2. UNCHANGED <<unscanned, pending, submitted>>
    BY <1>24 DEF ReadFail, Become, Signal, Forget
  <2>3. /\ work[w] \in AtWorkers /\ work[w] \in Admitted /\ work[w] \in File
        /\ AtWorkers' = AtWorkers \ {work[w]} /\ Admitted' = Admitted \ {work[w]}
        /\ dropped' = dropped \cup {work[w]} /\ work' = [work EXCEPT ![w] = None]
    BY <2>1, ForgetLoses DEF Forget
  <2>4. (\A u, v \in Worker : work[u] = work[v] /\ work[u] # None => u = v)'
    BY <2>3 DEF TypeOK, Places
  <2> QED
    BY <1>a, <2>1, <2>2, <2>3, <2>4 DEF Places
<1>25. CASE ScanFail
  BY <1>25, WorkersUnchanged DEF ScanFail, Leave, CanScan, ScanRoom, Places
<1>26. CASE RendererDies
  BY <1>26, WorkersUnchanged DEF RendererDies, Places
<1>27. CASE WriterFails
  BY <1>27, WorkersUnchanged DEF WriterFails, Places
<1>28. CASE UNCHANGED vars
  BY <1>28, WorkersUnchanged DEF vars, Places
<1> QED
  BY <1>1, <1>2, <1>3, <1>4, <1>5, <1>6, <1>7, <1>8, <1>9, <1>10, <1>11,
     <1>12, <1>13, <1>14, <1>15, <1>16, <1>17, <1>18, <1>19, <1>20, <1>21,
     <1>22, <1>23, <1>24, <1>25, <1>26, <1>27, <1>28 DEF Next,
     CoordinatorStep, WorkerStep, Failures, Over

(* Every step keeps the count of each mount. *)
LEMMA CountsStep ==
  ASSUME TypeOK, Holding, Places, Flagged, Counts, [Next]_vars
  PROVE  Counts'
<1> USE DEF scan, schedule, coordinator, channels, control, pool, outside
<1>a. ASSUME Admitted' = Admitted, UNCHANGED <<dropped, active>>,
             result' # "error" => result # "error"
      PROVE  Counts'
  BY <1>a DEF Counts, On
<1>1. CASE Poll
  BY <1>1, <1>a, WorkersUnchanged DEF Poll, Leave, Flagged
<1>2. CASE Dispatch
  <2>1. PICK f \in File :
          /\ f \notin Admitted \cup dropped /\ Admitted' = Admitted \cup {f}
          /\ active' = [active EXCEPT ![MountOf[f]] = active[MountOf[f]] + 1]
    BY <1>2, DispatchAdds
  <2>2. UNCHANGED <<dropped, result>>
    BY <1>2 DEF Dispatch
  <2>3. IsFiniteSet(Admitted) /\ IsFiniteSet(dropped) /\ IsFiniteSet(Admitted \cup dropped)
    BY FS_Union DEF Counts
  <2>4. Admitted' \cup dropped' = (Admitted \cup dropped) \cup {f} /\ IsFiniteSet(Admitted')
    BY <2>1, <2>2, <2>3, OnePlus
  <2>5. ASSUME NEW m \in Mount
        PROVE  /\ Cardinality(On(m, Admitted)) \in Nat
               /\ Cardinality(On(m, Admitted')) =
                    Cardinality(On(m, Admitted)) + IF MountOf[f] = m THEN 1 ELSE 0
               /\ Cardinality(On(m, Admitted' \cup dropped')) =
                    Cardinality(On(m, Admitted \cup dropped)) + IF MountOf[f] = m THEN 1 ELSE 0
               /\ active'[m] = active[m] + (IF MountOf[f] = m THEN 1 ELSE 0) /\ active[m] \in Nat
    <3>1. active'[m] = active[m] + (IF MountOf[f] = m THEN 1 ELSE 0) /\ active[m] \in Nat
      BY <2>1, MountsAssumption, CapacitiesAssumption DEF TypeOK
    <3>2. /\ Cardinality(On(m, Admitted)) \in Nat
          /\ Cardinality(On(m, Admitted \cup {f})) =
               Cardinality(On(m, Admitted)) + IF MountOf[f] = m THEN 1 ELSE 0
      BY <2>1, <2>3, OnePlus
    <3>3. Cardinality(On(m, (Admitted \cup dropped) \cup {f})) =
            Cardinality(On(m, Admitted \cup dropped)) + IF MountOf[f] = m THEN 1 ELSE 0
      BY <2>1, <2>3, OnePlus
    <3> QED
      BY <2>1, <2>4, <3>1, <3>2, <3>3
  <2> QED
    BY <2>2, <2>3, <2>4, <2>5 DEF Counts
<1>3. CASE DispatchEnd
  BY <1>3, <1>a, WorkersUnchanged DEF DispatchEnd, Leave, Flagged
<1>4. CASE PollBeforeScan
  BY <1>4, <1>a, WorkersUnchanged DEF PollBeforeScan, Leave, Flagged
<1>5. CASE Scan
  BY <1>5, <1>a, WorkersUnchanged DEF Scan, CanScan, ScanRoom, Flagged
<1>6. CASE ScanEnd
  BY <1>6, <1>a, WorkersUnchanged DEF ScanEnd, CanScan, ScanRoom, Flagged
<1>7. CASE RecvCompletion
  BY <1>7, <1>a, ReceiveMoves DEF RecvCompletion
<1>8. CASE RecvFailure
  BY <1>8, <1>a, WorkersUnchanged DEF RecvFailure, Leave, Flagged
<1>9. CASE CountReceived
  BY <1>9, <1>a, WorkersUnchanged DEF CountReceived, Flagged
<1>10. CASE CompleteWork
  <2>1. /\ current \in Admitted /\ current \in File /\ Admitted' = Admitted \ {current}
        /\ current \notin dropped
    BY <1>10, CompleteRemoves DEF Places
  <2>2. /\ active' = [active EXCEPT ![MountOf[current]] = active[MountOf[current]] - 1]
        /\ \/ dropped' = dropped /\ result' = result
           \/ dropped' = dropped \cup {current} /\ result' = "error"
    BY <1>10 DEF CompleteWork, Leave
  <2>3. IsFiniteSet(Admitted) /\ IsFiniteSet(dropped) /\ IsFiniteSet(Admitted \cup dropped)
    BY FS_Union DEF Counts
  <2>4. IsFiniteSet(Admitted') /\ IsFiniteSet(dropped')
    <3>1. IsFiniteSet(Admitted \ {current}) /\ IsFiniteSet(dropped \cup {current})
      BY <2>3, FS_RemoveElement, FS_AddElement
    <3> QED
      BY <2>1, <2>2, <2>3, <3>1
  <2>5. dropped' = dropped => Admitted' \cup dropped' = (Admitted \cup dropped) \ {current}
    BY <2>1
  <2>6. ASSUME NEW m \in Mount
        PROVE  /\ Cardinality(On(m, Admitted')) \in Nat
               /\ Cardinality(On(m, Admitted)) =
                    Cardinality(On(m, Admitted')) + IF MountOf[current] = m THEN 1 ELSE 0
               /\ active'[m] = active[m] - IF MountOf[current] = m THEN 1 ELSE 0
               /\ active[m] \in Nat
    <3>1. active'[m] = active[m] - (IF MountOf[current] = m THEN 1 ELSE 0) /\ active[m] \in Nat
      BY <2>1, <2>2, MountsAssumption, CapacitiesAssumption DEF TypeOK
    <3> QED
      BY <2>1, <2>3, <3>1, OneLess
  <2>7. ASSUME NEW m \in Mount, dropped' = dropped
        PROVE  /\ Cardinality(On(m, Admitted' \cup dropped')) \in Nat
               /\ Cardinality(On(m, Admitted \cup dropped)) =
                    Cardinality(On(m, Admitted' \cup dropped')) + IF MountOf[current] = m THEN 1 ELSE 0
    <3> DEFINE S == Admitted \cup dropped
    <3>1. current \in S /\ IsFiniteSet(S) /\ Admitted' \cup dropped' = S \ {current}
      BY <2>1, <2>3, <2>5, <2>7
    <3> HIDE DEF S
    <3>2. /\ Cardinality(On(m, S \ {current})) \in Nat
          /\ Cardinality(On(m, S)) =
               Cardinality(On(m, S \ {current})) + IF MountOf[current] = m THEN 1 ELSE 0
      BY <3>1, OneLess
    <3>3. S = Admitted \cup dropped
      BY DEF S
    <3> QED
      BY <3>1, <3>2, <3>3
  <2>8. \A m \in Mount : Cardinality(On(m, Admitted')) <= active'[m]
    BY <2>6 DEF Counts
  <2>9. ASSUME NEW m \in Mount, result' # "error"
        PROVE  active'[m] = Cardinality(On(m, Admitted' \cup dropped'))
    <3>1. dropped' = dropped /\ result # "error"
      BY <2>2, <2>9
    <3>2. active[m] = Cardinality(On(m, Admitted \cup dropped))
      BY <3>1 DEF Counts
    <3>3. /\ active'[m] = active[m] - IF MountOf[current] = m THEN 1 ELSE 0
          /\ active[m] \in Nat
      BY <2>6
    <3>4. /\ Cardinality(On(m, Admitted' \cup dropped')) \in Nat
          /\ Cardinality(On(m, Admitted \cup dropped)) =
               Cardinality(On(m, Admitted' \cup dropped')) + IF MountOf[current] = m THEN 1 ELSE 0
      BY <2>7, <3>1
    <3> QED
      BY <3>2, <3>3, <3>4
  <2> QED
    BY <2>4, <2>8, <2>9 DEF Counts
<1>11. CASE DrainOutcomesToLimit
  BY <1>11, <1>a, WorkersUnchanged DEF DrainOutcomesToLimit, Leave, Flagged
<1>12. CASE ResolveTickets
  BY <1>12, <1>a, WorkersUnchanged DEF ResolveTickets, Leave, Flagged
<1>13. CASE Cleanup
  BY <1>13, <1>a, WorkersUnchanged DEF Cleanup, Flagged
<1>14. CASE Finish
  BY <1>14, <1>a, WorkersUnchanged DEF Finish, Flagged
<1>15. CASE Join
  BY <1>15, <1>a, WorkersUnchanged DEF Join, Flagged
<1>16. ASSUME NEW w \in Worker, Take(w) PROVE Counts'
  BY <1>16, <1>a, TakeMoves DEF Take, Become
<1>17. ASSUME NEW w \in Worker, WorkerExit(w) PROVE Counts'
  BY <1>17, <1>a, WorkersUnchanged DEF WorkerExit, Become, Flagged
<1>18. ASSUME NEW w \in Worker, Begin(w) PROVE Counts'
  BY <1>18, <1>a, WorkersUnchanged DEF Begin, Become, Flagged
<1>19. ASSUME NEW w \in Worker, Discard(w) PROVE Counts'
  <2>1. work[w] # None /\ Forget(w) /\ UNCHANGED <<jobs, completions, current>>
    BY <1>19 DEF Discard, Become, Signal, Forget, Holding
  <2>2. UNCHANGED <<active, result>>
    BY <1>19 DEF Discard, Become, Signal, Forget
  <2>3. /\ work[w] \in Admitted /\ Admitted' = Admitted \ {work[w]}
        /\ dropped' = dropped \cup {work[w]}
    BY <2>1, ForgetLoses
  <2>4. Admitted' \cup dropped' = Admitted \cup dropped
    BY <2>3
  <2>5. IsFiniteSet(Admitted') /\ IsFiniteSet(dropped')
    BY <2>3, OneLess, FS_AddElement DEF Counts
  <2>6. ASSUME NEW m \in Mount
        PROVE  Cardinality(On(m, Admitted')) <= active[m]
    <3>1. /\ Cardinality(On(m, Admitted')) \in Nat
          /\ Cardinality(On(m, Admitted)) =
               Cardinality(On(m, Admitted')) + IF MountOf[work[w]] = m THEN 1 ELSE 0
      BY <2>3, OneLess DEF Counts
    <3>2. Cardinality(On(m, Admitted)) <= active[m] /\ active[m] \in Nat
      BY CapacitiesAssumption DEF Counts, TypeOK
    <3> QED
      BY <3>1, <3>2
  <2> QED
    BY <2>2, <2>4, <2>5, <2>6 DEF Counts
<1>20. ASSUME NEW w \in Worker, Publish(w) PROVE Counts'
  BY <1>20, <1>a, WorkersUnchanged DEF Publish, Become, Flagged
<1>21. ASSUME NEW w \in Worker, ReadDone(w) PROVE Counts'
  BY <1>21, <1>a, WorkersUnchanged DEF ReadDone, Become, Flagged
<1>22. ASSUME NEW w \in Worker, Send(w) PROVE Counts'
  BY <1>22, <1>a, SendMoves DEF Send, Become
<1>23. ASSUME NEW w \in Worker, SendCancelled(w) PROVE Counts'
  <2>1. work[w] # None /\ Forget(w) /\ UNCHANGED <<jobs, completions, current>>
    BY <1>23 DEF SendCancelled, Become, Forget, Holding
  <2>2. UNCHANGED <<active, result>>
    BY <1>23 DEF SendCancelled, Become, Forget
  <2>3. /\ work[w] \in Admitted /\ Admitted' = Admitted \ {work[w]}
        /\ dropped' = dropped \cup {work[w]}
    BY <2>1, ForgetLoses
  <2>4. Admitted' \cup dropped' = Admitted \cup dropped
    BY <2>3
  <2>5. IsFiniteSet(Admitted') /\ IsFiniteSet(dropped')
    BY <2>3, OneLess, FS_AddElement DEF Counts
  <2>6. ASSUME NEW m \in Mount
        PROVE  Cardinality(On(m, Admitted')) <= active[m]
    <3>1. /\ Cardinality(On(m, Admitted')) \in Nat
          /\ Cardinality(On(m, Admitted)) =
               Cardinality(On(m, Admitted')) + IF MountOf[work[w]] = m THEN 1 ELSE 0
      BY <2>3, OneLess DEF Counts
    <3>2. Cardinality(On(m, Admitted)) <= active[m] /\ active[m] \in Nat
      BY CapacitiesAssumption DEF Counts, TypeOK
    <3> QED
      BY <3>1, <3>2
  <2> QED
    BY <2>2, <2>4, <2>5, <2>6 DEF Counts
<1>24. ASSUME NEW w \in Worker, ReadFail(w) PROVE Counts'
  <2>1. work[w] # None /\ Forget(w) /\ UNCHANGED <<jobs, completions, current>>
    BY <1>24 DEF ReadFail, Become, Signal, Forget, Holding
  <2>2. UNCHANGED <<active, result>>
    BY <1>24 DEF ReadFail, Become, Signal, Forget
  <2>3. /\ work[w] \in Admitted /\ Admitted' = Admitted \ {work[w]}
        /\ dropped' = dropped \cup {work[w]}
    BY <2>1, ForgetLoses
  <2>4. Admitted' \cup dropped' = Admitted \cup dropped
    BY <2>3
  <2>5. IsFiniteSet(Admitted') /\ IsFiniteSet(dropped')
    BY <2>3, OneLess, FS_AddElement DEF Counts
  <2>6. ASSUME NEW m \in Mount
        PROVE  Cardinality(On(m, Admitted')) <= active[m]
    <3>1. /\ Cardinality(On(m, Admitted')) \in Nat
          /\ Cardinality(On(m, Admitted)) =
               Cardinality(On(m, Admitted')) + IF MountOf[work[w]] = m THEN 1 ELSE 0
      BY <2>3, OneLess DEF Counts
    <3>2. Cardinality(On(m, Admitted)) <= active[m] /\ active[m] \in Nat
      BY CapacitiesAssumption DEF Counts, TypeOK
    <3> QED
      BY <3>1, <3>2
  <2> QED
    BY <2>2, <2>4, <2>5, <2>6 DEF Counts
<1>25. CASE ScanFail
  BY <1>25, <1>a, WorkersUnchanged DEF ScanFail, Leave, CanScan, ScanRoom, Flagged
<1>26. CASE RendererDies
  BY <1>26, <1>a, WorkersUnchanged DEF RendererDies, Flagged
<1>27. CASE WriterFails
  BY <1>27, <1>a, WorkersUnchanged DEF WriterFails, Flagged
<1>28. CASE UNCHANGED vars
  BY <1>28, WorkersUnchanged, <1>a DEF vars
<1> QED
  BY <1>1, <1>2, <1>3, <1>4, <1>5, <1>6, <1>7, <1>8, <1>9, <1>10, <1>11,
     <1>12, <1>13, <1>14, <1>15, <1>16, <1>17, <1>18, <1>19, <1>20, <1>21,
     <1>22, <1>23, <1>24, <1>25, <1>26, <1>27, <1>28 DEF Next,
     CoordinatorStep, WorkerStep, Failures, Over

(* Every step keeps the retained counter exact. *)
LEMMA RetainedStep ==
  ASSUME TypeOK, Retained, [Next]_vars
  PROVE  Retained'
<1> USE DEF scan, schedule, coordinator, channels, control, pool, outside
<1>a. IsFiniteSet(Sending) /\ Cardinality(Sending) \in Nat /\ Len(completions) \in Nat
  BY FS_Subset, FS_CardinalityType, CapacitiesAssumption DEF Sending, TypeOK
<1>b. ASSUME UNCHANGED <<wpc, completions, retained>>,
             cpc = "received" <=> cpc' = "received"
      PROVE  Retained'
  BY <1>b DEF Retained, Sending
<1>1. CASE Poll
  BY <1>1, <1>b DEF Poll, Leave
<1>2. CASE Dispatch
  BY <1>2, <1>b DEF Dispatch
<1>3. CASE DispatchEnd
  BY <1>3, <1>b DEF DispatchEnd, Leave
<1>4. CASE PollBeforeScan
  BY <1>4, <1>b DEF PollBeforeScan, Leave
<1>5. CASE Scan
  BY <1>5, <1>b DEF Scan, CanScan, ScanRoom
<1>6. CASE ScanEnd
  BY <1>6, <1>b DEF ScanEnd, CanScan, ScanRoom
<1>7. CASE RecvCompletion
  <2>1. /\ Len(completions') = Len(completions) - 1 /\ Sending' = Sending
        /\ cpc = "wait" /\ cpc' = "received" /\ retained' = retained
    BY <1>7 DEF RecvCompletion, TypeOK, Sending
  <2> QED
    BY <1>a, <2>1 DEF Retained
<1>8. CASE RecvFailure
  BY <1>8, <1>b DEF RecvFailure, Leave
<1>9. CASE CountReceived
  <2>1. /\ completions' = completions /\ Sending' = Sending
        /\ cpc = "received" /\ cpc' = "complete" /\ retained' = retained - 1
    BY <1>9 DEF CountReceived, TypeOK, Sending
  <2> QED
    BY <1>a, <2>1 DEF Retained
<1>10. CASE CompleteWork
  BY <1>10, <1>b DEF CompleteWork, Leave
<1>11. CASE DrainOutcomesToLimit
  BY <1>11, <1>b DEF DrainOutcomesToLimit, Leave
<1>12. CASE ResolveTickets
  BY <1>12, <1>b DEF ResolveTickets, Leave
<1>13. CASE Cleanup
  BY <1>13, <1>b DEF Cleanup
<1>14. CASE Finish
  BY <1>14, <1>b DEF Finish
<1>15. CASE Join
  BY <1>15, <1>b DEF Join
<1>16. ASSUME NEW w \in Worker, Take(w) PROVE Retained'
  <2>1. Sending' = Sending /\ UNCHANGED <<completions, retained, cpc>>
    BY <1>16 DEF Take, Become, TypeOK, Sending
  <2> QED
    BY <2>1 DEF Retained
<1>17. ASSUME NEW w \in Worker, WorkerExit(w) PROVE Retained'
  <2>1. Sending' = Sending /\ UNCHANGED <<completions, retained, cpc>>
    BY <1>17 DEF WorkerExit, Become, TypeOK, Sending
  <2> QED
    BY <2>1 DEF Retained
<1>18. ASSUME NEW w \in Worker, Begin(w) PROVE Retained'
  <2>1. Sending' = Sending /\ UNCHANGED <<completions, retained, cpc>>
    BY <1>18 DEF Begin, Become, TypeOK, Sending
  <2> QED
    BY <2>1 DEF Retained
<1>19. ASSUME NEW w \in Worker, Discard(w) PROVE Retained'
  <2>1. Sending' = Sending /\ UNCHANGED <<completions, retained, cpc>>
    BY <1>19 DEF Discard, Become, Signal, Forget, TypeOK, Sending
  <2> QED
    BY <2>1 DEF Retained
<1>20. ASSUME NEW w \in Worker, Publish(w) PROVE Retained'
  <2>1. Sending' = Sending /\ UNCHANGED <<completions, retained, cpc>>
    BY <1>20 DEF Publish, Become, TypeOK, Sending
  <2> QED
    BY <2>1 DEF Retained
<1>21. ASSUME NEW w \in Worker, ReadDone(w) PROVE Retained'
  <2>1. /\ Sending' = Sending \cup {w} /\ w \notin Sending
        /\ retained' = retained + 1 /\ UNCHANGED <<completions, cpc>>
    BY <1>21 DEF ReadDone, Become, TypeOK, Sending
  <2>2. Cardinality(Sending') = Cardinality(Sending) + 1
    BY <1>a, <2>1, FS_AddElement
  <2> QED
    BY <1>a, <2>1, <2>2 DEF Retained, TypeOK
<1>22. ASSUME NEW w \in Worker, Send(w) PROVE Retained'
  <2>1. /\ Sending' = Sending \ {w} /\ w \in Sending /\ UNCHANGED <<retained, cpc>>
        /\ Len(completions') = Len(completions) + 1
    BY <1>22 DEF Send, Become, TypeOK, Sending
  <2>2. Cardinality(Sending') = Cardinality(Sending) - 1
    BY <1>a, <2>1, FS_RemoveElement
  <2> QED
    BY <1>a, <2>1, <2>2 DEF Retained
<1>23. ASSUME NEW w \in Worker, SendCancelled(w) PROVE Retained'
  <2>1. /\ Sending' = Sending \ {w} /\ w \in Sending /\ UNCHANGED <<completions, cpc>>
        /\ retained' = retained - 1
    BY <1>23 DEF SendCancelled, Become, Forget, TypeOK, Sending
  <2>2. Cardinality(Sending') = Cardinality(Sending) - 1
    BY <1>a, <2>1, FS_RemoveElement
  <2> QED
    BY <1>a, <2>1, <2>2 DEF Retained, TypeOK
<1>24. ASSUME NEW w \in Worker, ReadFail(w) PROVE Retained'
  <2>1. Sending' = Sending /\ UNCHANGED <<completions, retained, cpc>>
    BY <1>24 DEF ReadFail, Become, Signal, Forget, TypeOK, Sending
  <2> QED
    BY <2>1 DEF Retained
<1>25. CASE ScanFail
  BY <1>25, <1>b DEF ScanFail, Leave, CanScan, ScanRoom
<1>26. CASE RendererDies
  BY <1>26, <1>b DEF RendererDies
<1>27. CASE WriterFails
  BY <1>27, <1>b DEF WriterFails
<1>28. CASE UNCHANGED vars
  BY <1>28, <1>b DEF vars
<1> QED
  BY <1>1, <1>2, <1>3, <1>4, <1>5, <1>6, <1>7, <1>8, <1>9, <1>10, <1>11,
     <1>12, <1>13, <1>14, <1>15, <1>16, <1>17, <1>18, <1>19, <1>20, <1>21,
     <1>22, <1>23, <1>24, <1>25, <1>26, <1>27, <1>28 DEF Next,
     CoordinatorStep, WorkerStep, Failures, Over

(* Every step keeps work that is done, done. *)
LEMMA FinishedStep ==
  ASSUME TypeOK, Holding, Places, Flagged, Counts, Finished, [Next]_vars
  PROVE  Finished'
<1> USE DEF scan, schedule, coordinator, channels, control, pool, outside
<1>a. ASSUME Admitted' = Admitted, UNCHANGED <<unscanned, scanDone, pending, dropped>>,
             cpc' = "tickets" \/ result' = "ok" => cpc = "tickets" \/ result = "ok"
      PROVE  Finished'
  BY <1>a DEF Finished
<1>1. CASE Poll
  BY <1>1, <1>a, WorkersUnchanged DEF Poll, Leave, Flagged
<1>2. CASE Dispatch
  <2>1. cpc' # "tickets" /\ result' # "ok" /\ UNCHANGED <<unscanned, scanDone>>
    BY <1>2 DEF Dispatch, Flagged
  <2> QED
    BY <2>1 DEF Finished
<1>3. CASE DispatchEnd
  BY <1>3, <1>a, WorkersUnchanged DEF DispatchEnd, Leave, Flagged
<1>4. CASE PollBeforeScan
  BY <1>4, <1>a, WorkersUnchanged DEF PollBeforeScan, Leave, Flagged
<1>5. CASE Scan
  <2>1. cpc' = "top" /\ result' = "none"
    BY <1>5 DEF Scan, CanScan, ScanRoom, Flagged
  <2>2. scanDone' => unscanned' = {}
    BY <1>5 DEF Scan, CanScan, ScanRoom, Finished
  <2> QED
    BY <2>1, <2>2 DEF Finished
<1>6. CASE ScanEnd
  <2>1. UNCHANGED <<unscanned, scanDone, pending, dropped, result>> /\ Admitted' = Admitted
    BY <1>6, WorkersUnchanged DEF ScanEnd, CanScan, ScanRoom
  <2>2. result = "none"
    BY <1>6 DEF ScanEnd, CanScan, ScanRoom, Flagged
  <2>3. CASE ~ (Idle /\ pending = <<>> /\ scanDone)
    BY <1>6, <1>a, <2>1, <2>2, <2>3 DEF ScanEnd, CanScan, ScanRoom
  <2>4. CASE Idle /\ pending = <<>> /\ scanDone
    <3>1. ASSUME NEW f \in Admitted \cup dropped PROVE FALSE
      <4>1. MountOf[f] \in Mount
        BY <3>1, HeldFiles, MountsAssumption DEF TypeOK
      <4> DEFINE S == On(MountOf[f], Admitted \cup dropped)
      <4>2. Cardinality(S) = 0
        BY <2>2, <2>4, <4>1 DEF Counts, Idle
      <4>3. IsFiniteSet(S) /\ f \in S
        BY FS_Union, FS_Subset DEF Counts, On
      <4> QED
        BY <4>2, <4>3, FS_EmptySet
    <3> QED
      BY <2>1, <2>2, <2>4, <3>1 DEF Finished
  <2> QED
    BY <2>3, <2>4
<1>7. CASE RecvCompletion
  BY <1>7, <1>a, ReceiveMoves DEF RecvCompletion
<1>8. CASE RecvFailure
  BY <1>8, <1>a, WorkersUnchanged DEF RecvFailure, Leave, Flagged
<1>9. CASE CountReceived
  BY <1>9, <1>a, WorkersUnchanged DEF CountReceived, Flagged
<1>10. CASE CompleteWork
  <2>1. cpc' # "tickets" /\ result' # "ok" /\ UNCHANGED <<unscanned, scanDone>>
    BY <1>10 DEF CompleteWork, Leave, Flagged
  <2> QED
    BY <2>1 DEF Finished
<1>11. CASE DrainOutcomesToLimit
  BY <1>11, <1>a, WorkersUnchanged DEF DrainOutcomesToLimit, Leave, Flagged
<1>12. CASE ResolveTickets
  BY <1>12, <1>a, WorkersUnchanged DEF ResolveTickets, Leave, Flagged
<1>13. CASE Cleanup
  BY <1>13, <1>a, WorkersUnchanged DEF Cleanup, Flagged
<1>14. CASE Finish
  BY <1>14, <1>a, WorkersUnchanged DEF Finish, Flagged
<1>15. CASE Join
  BY <1>15, <1>a, WorkersUnchanged DEF Join, Flagged
<1>16. ASSUME NEW w \in Worker, Take(w) PROVE Finished'
  BY <1>16, <1>a, TakeMoves DEF Take, Become
<1>17. ASSUME NEW w \in Worker, WorkerExit(w) PROVE Finished'
  BY <1>17, <1>a, WorkersUnchanged DEF WorkerExit, Become, Flagged
<1>18. ASSUME NEW w \in Worker, Begin(w) PROVE Finished'
  BY <1>18, <1>a, WorkersUnchanged DEF Begin, Become, Flagged
<1>19. ASSUME NEW w \in Worker, Discard(w) PROVE Finished'
  <2>1. work[w] # None /\ UNCHANGED <<unscanned, scanDone, pending, cpc, result>>
    BY <1>19 DEF Discard, Become, Signal, Forget, Holding
  <2>2. Admitted # {}
    BY <2>1, HeldFiles
  <2> QED
    BY <2>1, <2>2 DEF Finished
<1>20. ASSUME NEW w \in Worker, Publish(w) PROVE Finished'
  BY <1>20, <1>a, WorkersUnchanged DEF Publish, Become, Flagged
<1>21. ASSUME NEW w \in Worker, ReadDone(w) PROVE Finished'
  BY <1>21, <1>a, WorkersUnchanged DEF ReadDone, Become, Flagged
<1>22. ASSUME NEW w \in Worker, Send(w) PROVE Finished'
  BY <1>22, <1>a, SendMoves DEF Send, Become
<1>23. ASSUME NEW w \in Worker, SendCancelled(w) PROVE Finished'
  <2>1. work[w] # None /\ UNCHANGED <<unscanned, scanDone, pending, cpc, result>>
    BY <1>23 DEF SendCancelled, Become, Forget, Holding
  <2>2. Admitted # {}
    BY <2>1, HeldFiles
  <2> QED
    BY <2>1, <2>2 DEF Finished
<1>24. ASSUME NEW w \in Worker, ReadFail(w) PROVE Finished'
  <2>1. work[w] # None /\ UNCHANGED <<unscanned, scanDone, pending, cpc, result>>
    BY <1>24 DEF ReadFail, Become, Signal, Forget, Holding
  <2>2. Admitted # {}
    BY <2>1, HeldFiles
  <2> QED
    BY <2>1, <2>2 DEF Finished
<1>25. CASE ScanFail
  BY <1>25, <1>a, WorkersUnchanged DEF ScanFail, Leave, CanScan, ScanRoom, Flagged
<1>26. CASE RendererDies
  BY <1>26, <1>a, WorkersUnchanged DEF RendererDies, Flagged
<1>27. CASE WriterFails
  BY <1>27, <1>a, WorkersUnchanged DEF WriterFails, Flagged
<1>28. CASE UNCHANGED vars
  BY <1>28, <1>a, WorkersUnchanged DEF vars
<1> QED
  BY <1>1, <1>2, <1>3, <1>4, <1>5, <1>6, <1>7, <1>8, <1>9, <1>10, <1>11,
     <1>12, <1>13, <1>14, <1>15, <1>16, <1>17, <1>18, <1>19, <1>20, <1>21,
     <1>22, <1>23, <1>24, <1>25, <1>26, <1>27, <1>28 DEF Next,
     CoordinatorStep, WorkerStep, Failures, Over

(* Every step keeps the types and the capacities. *)
LEMMA TypeStep ==
  ASSUME TypeOK, Holding, Places, Counts, Retained, [Next]_vars
  PROVE  TypeOK'
<1> USE DEF TypeOK, CoordinatorPc, WorkerPc, scan, schedule, coordinator,
            channels, control, pool, outside
<1>a. (CountReceived \/ \E w \in Worker : SendCancelled(w)) => retained' \in Nat
  <2>1. IsFiniteSet(Sending) /\ Cardinality(Sending) \in Nat /\ Len(completions) \in Nat
    BY FS_Subset, FS_CardinalityType, CapacitiesAssumption DEF Sending
  <2>2. CASE CountReceived
    BY <2>1, <2>2 DEF CountReceived, Retained
  <2>3. ASSUME NEW w \in Worker, SendCancelled(w) PROVE retained' \in Nat
    <3>1. Sending # {} /\ cpc # "received" => Cardinality(Sending) # 0
      BY <2>1, FS_EmptySet
    <3>2. Sending # {} /\ retained' = retained - 1
      BY <2>3 DEF SendCancelled, Sending
    <3> QED
      BY <2>1, <3>1, <3>2 DEF Retained
  <2> QED
    BY <2>2, <2>3
<1>1. CASE Poll
  BY <1>1 DEF Poll, Leave
<1>2. CASE Dispatch
  <2>1. PICK f \in File :
          /\ active[MountOf[f]] < WorkersPerMount /\ last' = MountOf[f]
          /\ active' = [active EXCEPT ![MountOf[f]] = active[MountOf[f]] + 1]
          /\ pending' \in Seq(File) /\ Len(pending') = Len(pending) - 1
          /\ jobs' = Append(jobs, f)
    BY <1>2, DispatchAdds
  <2>2. active' \in [Mount -> 0 .. WorkersPerMount] /\ last' \in Mount
    <3>1. WorkersPerMount \in Nat /\ MountOf[f] \in Mount
      BY <2>1, MountsAssumption, CapacitiesAssumption, FS_CardinalityType
    <3>2. active[MountOf[f]] + 1 \in 0 .. WorkersPerMount
      BY <2>1, <3>1
    <3> QED
      BY <2>1, <3>1, <3>2
  <2>3. /\ Len(pending') <= SchedulerCapacity /\ jobs' \in Seq(File)
        /\ Len(jobs') <= JobCapacity
    BY <1>2, <2>1, CapacitiesAssumption DEF Dispatch
  <2> QED
    BY <1>2, <2>1, <2>2, <2>3 DEF Dispatch
<1>3. CASE DispatchEnd
  BY <1>3 DEF DispatchEnd, Leave
<1>4. CASE PollBeforeScan
  BY <1>4 DEF PollBeforeScan, Leave
<1>5. CASE Scan
  <2>1. CASE pending' = pending
    BY <1>5, <2>1 DEF Scan, CanScan, ScanRoom
  <2>2. ASSUME NEW f \in unscanned, pending' = Append(pending, f), unscanned' = unscanned \ {f}
        PROVE  TypeOK'
    <3>1. pending' \in Seq(File) /\ Len(pending') <= SchedulerCapacity
      BY <1>5, <2>2, CapacitiesAssumption DEF Scan, CanScan, ScanRoom
    <3> QED
      BY <1>5, <2>2, <3>1 DEF Scan, CanScan, ScanRoom
  <2> QED
    BY <1>5, <2>1, <2>2 DEF Scan, CanScan, ScanRoom
<1>6. CASE ScanEnd
  BY <1>6 DEF ScanEnd, CanScan, ScanRoom
<1>7. CASE RecvCompletion
  <2>1. /\ Head(completions) \in File /\ Tail(completions) \in Seq(File)
        /\ Len(Tail(completions)) = Len(completions) - 1 /\ Len(completions) \in Nat
    BY <1>7 DEF RecvCompletion
  <2> QED
    BY <1>7, <2>1, CapacitiesAssumption DEF RecvCompletion
<1>8. CASE RecvFailure
  BY <1>8 DEF RecvFailure, Leave
<1>9. CASE CountReceived
  <2>1. retained' \in Nat
    BY <1>9, <1>a
  <2> QED
    BY <1>9, <2>1 DEF CountReceived
<1>10. CASE CompleteWork
  <2>1. /\ current \in Admitted /\ current \in File
    BY <1>10, CompleteRemoves
  <2>2. active[MountOf[current]] >= 1 /\ MountOf[current] \in Mount
    <3> DEFINE S == On(MountOf[current], Admitted)
    <3>1. IsFiniteSet(S) /\ current \in S /\ MountOf[current] \in Mount
      BY <2>1, FS_Subset, MountsAssumption DEF Counts, On
    <3>2. Cardinality(S) \in Nat /\ Cardinality(S) # 0
      BY <3>1, FS_EmptySet, FS_CardinalityType
    <3>3. Cardinality(S) <= active[MountOf[current]] /\ active[MountOf[current]] \in Nat
      BY <3>1, CapacitiesAssumption DEF Counts
    <3> QED
      BY <3>1, <3>2, <3>3
  <2>3. active' \in [Mount -> 0 .. WorkersPerMount]
    BY <1>10, <2>2, CapacitiesAssumption DEF CompleteWork, Leave
  <2> QED
    BY <1>10, <2>1, <2>3 DEF CompleteWork, Leave
<1>11. CASE DrainOutcomesToLimit
  BY <1>11 DEF DrainOutcomesToLimit, Leave
<1>12. CASE ResolveTickets
  BY <1>12 DEF ResolveTickets, Leave
<1>13. CASE Cleanup
  BY <1>13 DEF Cleanup
<1>14. CASE Finish
  BY <1>14 DEF Finish
<1>15. CASE Join
  BY <1>15 DEF Join
<1>16. ASSUME NEW w \in Worker, Take(w) PROVE TypeOK'
  <2>1. /\ Head(jobs) \in File /\ Tail(jobs) \in Seq(File)
        /\ Len(Tail(jobs)) = Len(jobs) - 1 /\ Len(jobs) \in Nat
    BY <1>16 DEF Take, Become
  <2> QED
    BY <1>16, <2>1, CapacitiesAssumption DEF Take, Become
<1>17. ASSUME NEW w \in Worker, WorkerExit(w) PROVE TypeOK'
  BY <1>17 DEF WorkerExit, Become
<1>18. ASSUME NEW w \in Worker, Begin(w) PROVE TypeOK'
  BY <1>18 DEF Begin, Become
<1>19. ASSUME NEW w \in Worker, Discard(w) PROVE TypeOK'
  <2>1. work[w] \in File
    BY <1>19 DEF Discard, Become, Signal, Forget, Holding
  <2>2. wpc' \in [Worker -> WorkerPc] /\ cancelled' \in BOOLEAN
    <3>1. CASE cancelled
      BY <1>19, <3>1 DEF Discard, Become, Signal, Forget
    <3>2. CASE ~ cancelled
      BY <1>19, <3>2 DEF Discard, Become, Signal, Forget
    <3> QED
      BY <3>1, <3>2
  <2>3. work' \in [Worker -> File \cup {None}] /\ dropped' \in SUBSET File
    BY <1>19, <2>1 DEF Discard, Forget
  <2> QED
    BY <1>19, <2>2, <2>3 DEF Discard
<1>20. ASSUME NEW w \in Worker, Publish(w) PROVE TypeOK'
  BY <1>20 DEF Publish, Become
<1>21. ASSUME NEW w \in Worker, ReadDone(w) PROVE TypeOK'
  BY <1>21 DEF ReadDone, Become
<1>22. ASSUME NEW w \in Worker, Send(w) PROVE TypeOK'
  <2>1. work[w] \in File
    BY <1>22 DEF Send, Become, Holding
  <2>2. completions' \in Seq(File) /\ Len(completions') <= CompletionCapacity
    BY <1>22, <2>1, CapacitiesAssumption DEF Send, Become
  <2> QED
    BY <1>22, <2>2 DEF Send, Become
<1>23. ASSUME NEW w \in Worker, SendCancelled(w) PROVE TypeOK'
  <2>1. work[w] \in File
    BY <1>23 DEF SendCancelled, Become, Forget, Holding
  <2>2. retained' \in Nat
    BY <1>23, <1>a
  <2> QED
    BY <1>23, <2>1, <2>2 DEF SendCancelled, Become, Forget
<1>24. ASSUME NEW w \in Worker, ReadFail(w) PROVE TypeOK'
  <2>1. work[w] \in File
    BY <1>24 DEF ReadFail, Become, Signal, Forget, Holding
  <2>2. wpc' \in [Worker -> WorkerPc] /\ cancelled' \in BOOLEAN
    <3>1. CASE cancelled
      BY <1>24, <3>1 DEF ReadFail, Become, Signal, Forget
    <3>2. CASE ~ cancelled
      BY <1>24, <3>2 DEF ReadFail, Become, Signal, Forget
    <3> QED
      BY <3>1, <3>2
  <2>3. work' \in [Worker -> File \cup {None}] /\ dropped' \in SUBSET File
    BY <1>24, <2>1 DEF ReadFail, Forget
  <2> QED
    BY <1>24, <2>2, <2>3 DEF ReadFail
<1>25. CASE ScanFail
  BY <1>25 DEF ScanFail, Leave, CanScan, ScanRoom
<1>26. CASE RendererDies
  BY <1>26 DEF RendererDies
<1>27. CASE WriterFails
  BY <1>27 DEF WriterFails
<1>28. CASE UNCHANGED vars
  BY <1>28 DEF vars
<1> QED
  BY <1>1, <1>2, <1>3, <1>4, <1>5, <1>6, <1>7, <1>8, <1>9, <1>10, <1>11,
     <1>12, <1>13, <1>14, <1>15, <1>16, <1>17, <1>18, <1>19, <1>20, <1>21,
     <1>22, <1>23, <1>24, <1>25, <1>26, <1>27, <1>28 DEF Next,
     CoordinatorStep, WorkerStep, Failures, Over

-----------------------------------------------------------------------------
(* An executor starts with every file unscanned and every worker idle. *)
LEMMA ExecutorInit == Init => ExecutorInv
<1> SUFFICES ASSUME Init PROVE ExecutorInv
  OBVIOUS
<1>0. <<>> \in Seq(File) /\ Len(<<>>) = 0
  OBVIOUS
<1>1. TypeOK
  <2>1. /\ 0 \in 0 .. WorkersPerMount /\ SchedulerCapacity \in Nat
        /\ JobCapacity \in Nat /\ CompletionCapacity \in Nat
    BY CapacitiesAssumption, FS_CardinalityType
  <2>2. active \in [Mount -> 0 .. WorkersPerMount]
    BY <2>1 DEF Init
  <2>3. /\ Len(<<>>) <= SchedulerCapacity /\ Len(<<>>) <= JobCapacity
        /\ Len(<<>>) <= CompletionCapacity
    BY <1>0, <2>1
  <2>4. /\ pending \in Seq(File) /\ Len(pending) <= SchedulerCapacity
        /\ jobs \in Seq(File) /\ Len(jobs) <= JobCapacity
        /\ completions \in Seq(File) /\ Len(completions) <= CompletionCapacity
    BY <1>0, <2>3 DEF Init
  <2>5. wpc \in [Worker -> WorkerPc] /\ work \in [Worker -> File \cup {None}]
    BY DEF Init, WorkerPc
  <2> QED
    BY <2>2, <2>4, <2>5 DEF Init, TypeOK, CoordinatorPc
<1>2. ToSet(<<>>) = {} /\ IsInjective(<<>>)
  BY <1>0, FilesOfEmpty
<1>3. AtWorkers = {} /\ Admitted = {}
  BY <1>2 DEF Init, AtWorkers, Admitted
<1>4. Places
  BY <1>2, <1>3, MountsAssumption DEF Init, Places
<1>5. Holding /\ Flagged /\ Finished
  BY <1>3 DEF Init, Holding, Flagged, Publishing, Finished
<1>6. Counts
  <2>1. \A m \in Mount : On(m, {}) = {}
    BY DEF On
  <2>2. Admitted \cup dropped = {} /\ dropped = {} /\ \A m \in Mount : active[m] = 0
    BY <1>3 DEF Init
  <2> QED
    BY <1>3, <2>1, <2>2, FS_EmptySet DEF Counts
<1>7. Retained
  <2>1. Sending = {}
    BY DEF Init, Sending
  <2> QED
    BY <1>0, <2>1, FS_EmptySet DEF Init, Retained
<1> QED
  BY <1>1, <1>4, <1>5, <1>6, <1>7 DEF ExecutorInv

(* The invariant of the executor, from which the theorems below are read    *)
(* off.                                                                     *)
THEOREM ExecutorCorrect == Spec => []ExecutorInv
<1>1. ExecutorInv /\ [Next]_vars => ExecutorInv'
  BY TypeStep, PlacesStep, HoldingStep, FlaggedStep, CountsStep, RetainedStep,
     FinishedStep DEF ExecutorInv
<1> QED
  BY <1>1, ExecutorInit, PTL DEF Spec

(* The queues stay within their capacities, the counters and slots within   *)
(* their types: in particular no mount is ever admitted more than           *)
(* effective_workers_per_mount work items, and retained never underflows.   *)
THEOREM TypesHold == Spec => []TypeOK
<1>1. ExecutorInv => TypeOK
  BY DEF ExecutorInv
<1> QED
  BY <1>1, ExecutorCorrect, PTL

(* The count that admits work on a mount is the work admitted on it,        *)
(* wherever the workers and channels have it.                               *)
THEOREM CountsAreTrue == Spec => []ActiveIsAdmitted
<1>1. ExecutorInv => ActiveIsAdmitted
  <2> SUFFICES ASSUME ExecutorInv PROVE ActiveIsAdmitted
    OBVIOUS
  <2>1. \A m \in Mount : On(m, Admitted) = {f \in Admitted : MountOf[f] = m}
    BY DEF On
  <2>2. cpc # "cleanup" /\ ~cancelled => dropped = {} /\ result # "error"
    BY DEF ExecutorInv, Flagged
  <2>3. cpc # "cleanup" /\ ~cancelled =>
          \A m \in Mount : active[m] = Cardinality(On(m, Admitted))
    BY <2>2 DEF ExecutorInv, Counts
  <2> QED
    BY <2>1, <2>3 DEF ExecutorInv, Counts, ActiveIsAdmitted
<1> QED
  BY <1>1, ExecutorCorrect, PTL

(* The compare-exchange on the cancellation flag elects one publisher, and  *)
(* the failure slot is empty when it publishes.                             *)
THEOREM OnePublisher == Spec => []FailureSlotFree
<1>1. ExecutorInv => FailureSlotFree
  BY DEF ExecutorInv, Flagged, Publishing, FailureSlotFree
<1> QED
  BY <1>1, ExecutorCorrect, PTL

(* An executor that returns success has handed every file the scan found to *)
(* the catalog, dropped none and left nothing behind.                       *)
THEOREM SuccessMeansComplete == Spec => []SuccessIsComplete
<1>1. ExecutorInv => SuccessIsComplete
  <2> SUFFICES ASSUME ExecutorInv, cpc = "done", result = "ok"
               PROVE  submitted = File /\ dropped = {} /\ retained = 0
                        /\ jobs = <<>> /\ completions = <<>>
    BY DEF SuccessIsComplete
  <2>1. unscanned = {} /\ pending = <<>> /\ Admitted = {} /\ dropped = {}
    BY DEF ExecutorInv, Finished
  <2>2. ToSet(pending) = {} /\ jobs = <<>> /\ completions = <<>>
    BY <2>1, FilesOfEmpty DEF ExecutorInv, TypeOK, Admitted
  <2>3. submitted = File
    BY <2>1, <2>2 DEF ExecutorInv, Places
  <2>4. \A w \in Worker : work[w] = None
    BY <2>1 DEF Admitted
  <2>5. Sending = {}
    BY <2>4 DEF ExecutorInv, Holding, Sending
  <2>6. Len(<<>>) = 0
    OBVIOUS
  <2>7. retained = 0
    BY <2>2, <2>5, <2>6, FS_EmptySet DEF ExecutorInv, Retained
  <2> QED
    BY <2>1, <2>2, <2>3, <2>7
<1> QED
  BY <1>1, ExecutorCorrect, PTL

(* A file is handed to the catalog writer at most once, is never dropped    *)
(* after that, and a dropped file is never submitted.                       *)
SubmittedOnce ==
  [][/\ submitted \subseteq submitted' /\ dropped \subseteq dropped'
     /\ \A f \in submitted' \ submitted : f = current /\ f \notin dropped']_vars

(* The step that submits a file, CompleteWork, submits the one the          *)
(* coordinator received, which no worker and no channel has any more.       *)
THEOREM SubmitsOnce == Spec => SubmittedOnce
<1> DEFINE Once == /\ submitted \subseteq submitted' /\ dropped \subseteq dropped'
                   /\ \A f \in submitted' \ submitted : f = current /\ f \notin dropped'
<1>1. ASSUME ExecutorInv, [Next]_vars PROVE [Once]_vars
  <2>1. CASE CompleteWork
    <3>1. current \notin dropped
      <4>1. current \in Admitted
        BY <1>1, <2>1, CompleteRemoves DEF ExecutorInv
      <4> QED
        BY <1>1, <4>1 DEF ExecutorInv, Places
    <3> QED
      BY <2>1, <3>1 DEF CompleteWork
  <2>2. CASE ~ CompleteWork
    <3>1. submitted' = submitted /\ dropped \subseteq dropped'
      BY <1>1, <2>2 DEF Next, CoordinatorStep, WorkerStep, Failures, Over, vars, Poll,
         Dispatch, DispatchEnd, PollBeforeScan, Scan, ScanEnd, RecvCompletion, RecvFailure,
         CountReceived, DrainOutcomesToLimit, ResolveTickets, Cleanup, Finish, Join, Take,
         WorkerExit, Begin, Discard, Publish, ReadDone, Send, SendCancelled, ReadFail,
         ScanFail, RendererDies, WriterFails, Forget, coordinator, pool
    <3> QED
      BY <3>1
  <2> QED
    BY <2>1, <2>2
<1> QED
  BY <1>1, ExecutorCorrect, PTL DEF Spec, SubmittedOnce

(* The retained counter exceeds the bound that telemetry is told by one at  *)
(* most: the completion that was received and is not yet subtracted.        *)
THEOREM RetainedWithinOne == Spec => [](retained <= RetainedCapacity + 1)
<1>1. ExecutorInv => retained <= RetainedCapacity + 1
  <2> SUFFICES ASSUME ExecutorInv PROVE retained <= RetainedCapacity + 1
    OBVIOUS
  <2>1. /\ Cardinality(Sending) \in Nat /\ Cardinality(Worker) \in Nat
        /\ Cardinality(Sending) <= Cardinality(Worker)
    BY FS_Subset, FS_CardinalityType, CapacitiesAssumption DEF Sending
  <2>2. Len(completions) \in Nat /\ Len(completions) <= CompletionCapacity
    BY DEF ExecutorInv, TypeOK
  <2> QED
    BY <2>1, <2>2, CapacitiesAssumption DEF ExecutorInv, Retained, RetainedCapacity
<1> QED
  BY <1>1, ExecutorCorrect, PTL
=============================================================================
