------------------------- MODULE CatalogWriterProofs -------------------------
(***************************************************************************)
(* What the catalog writer and its coordinator keep true, for every number *)
(* of requests and every batch, channel and bridge size that satisfies the *)
(* assumptions of CatalogWriter.                                           *)
(*                                                                         *)
(* A request that waits for its answer is in exactly one place: the        *)
(* channel, the writer's hand or the open batch.  Everything else is       *)
(* counted against the tickets: the coordinator holds one for each request *)
(* that waits, never more than MaxBatch, and that bounds the channel and,  *)
(* through the events a request can still cause, the bridge.               *)
(***************************************************************************)
EXTENDS CatalogWriter, FiniteSetTheorems, TLAPS

Waiting == {q \in Requests : answer[q] = "waiting"}

Failing == {"reject", "close", "fail_event", "fail_signal", "down"}
Working == {"start", "loop", "admit", "flush", "respond", "checkpoint"}
Running == {"top", "run", "limit", "final", "final_wait"}

(* A waiting request is in one place, and nothing else is in those places. *)
Places ==
  /\ IsInjective(queue) /\ IsInjective(pending)
  /\ Range(queue) \cap Range(pending) = {}
  /\ held \notin Range(queue) \cup Range(pending)
  /\ Range(queue) \cup Range(pending) \cup ({held} \ {None}) = Waiting

(* Which of its places the writer can be in with a batch open, a request in *)
(* its hand, a hung-up coordinator, or an error behind it.                  *)
WriterInv ==
  /\ wpc = "flush" => pending # <<>>
  /\ expired /\ wpc # "respond" => pending # <<>>
  /\ wpc \notin {"loop", "admit", "flush", "respond"} => pending = <<>>
  /\ held # None <=> \/ wpc = "admit"
                     \/ wpc \in {"flush", "respond", "checkpoint"} /\ after = "admit"
  /\ after = "flushed" \/ wpc \in {"flushed", "last_checkpoint", "stopped"}
       => handle = "closed"
  /\ after = "flushed" => wpc \notin {"start", "loop", "admit"}
  /\ terminal = "full" => wpc = "down"
  /\ \A q \in Requests : answer[q] \in {"error", "dropped"} => wpc \in Failing

(* What is committed is answered or about to be, and an error names a       *)
(* request that failed too.                                                 *)
AnswerInv ==
  /\ \A q \in committed :
       answer[q] = "ok" \/ (wpc = "respond" /\ q \in Range(pending))
  /\ \A q \in Requests : answer[q] = "ok" => q \in committed
  /\ wpc = "respond" => Range(pending) \subseteq committed
  /\ \A q \in Requests : answer[q] = "error" =>
       blame[q] \in Requests /\ answer[blame[q]] = "error"

(* The coordinator holds a ticket for every request that waits and, while   *)
(* the import runs, for every one that failed; it starts nothing at the     *)
(* limit and succeeds only with every ticket resolved to a success.         *)
TicketInv ==
  /\ IsFiniteSet(tickets) /\ Cardinality(tickets) <= MaxBatch
  /\ cpc \in {"top", "run", "final", "final_wait"} => Cardinality(tickets) < MaxBatch
  /\ cpc = "final_wait" => tickets # {}
  /\ Waiting \subseteq tickets
  /\ tickets \cap Submittable = {}
  /\ cpc \in Running => result = "none"
  /\ cpc \in Running => \A q \in Requests :
       answer[q] \in {"error", "dropped"} => q \in tickets
  /\ cpc \in {"final", "final_wait"} => Submittable = {}
  /\ result = "ok" => \A q \in Requests : answer[q] = "ok"
  /\ cpc = "done" /\ result = "ok" => wpc = "stopped"
  /\ handle = "closed" <=> cpc \in {"join", "done"}

(* The events a writer at w may still send before it needs another request, *)
(* with those of its last batch and of its end when it goes on to them (a)  *)
(* and with none of a batch (p) whose requests still wait.                  *)
Owed(w, a, p) ==
  LET last == IF a = "flushed" THEN 3 ELSE 0
  IN  CASE w = "start" -> 2
        [] w \in {"loop", "admit", "reject", "close", "fail_event"} -> 1
        [] w = "flush" -> 1 + last
        [] w = "respond" -> last + IF p = <<>> THEN 4 ELSE 0
        [] w = "checkpoint" -> 3 + last
        [] w = "flushed" -> 4
        [] w = "last_checkpoint" -> 3
        [] OTHER -> 0

(* The events in the bridge and those that may follow without another       *)
(* drain: five at most for a request that waits, its own and the four that  *)
(* open, close and checkpoint a batch of one.                               *)
Load == bridge + 5 * Cardinality(Waiting) + Owed(wpc, after, pending)

LoadInv ==
  /\ Load <= 5 * MaxBatch + 4
  /\ cpc = "run" => Load <= 5 * MaxBatch - 1
  /\ wpc \in Working /\ after # "flushed" /\ cpc \in {"hang_up", "join", "done"}
       => Load <= 5 * MaxBatch + 1

ImportInv ==
  TypeOK /\ Places /\ WriterInv /\ AnswerInv /\ TicketInv /\ LoadInv
-----------------------------------------------------------------------------
(* What a channel and a batch hold. *)

(* A sequence with an element appended holds that element as well. *)
LEMMA RangeOfAppend ==
  ASSUME NEW S, NEW s \in Seq(S), NEW e \in S
  PROVE  Range(Append(s, e)) = Range(s) \cup {e}
<1>1. /\ DOMAIN Append(s, e) = 1 .. Len(s) + 1
      /\ Append(s, e)[Len(s) + 1] = e
      /\ \A i \in 1 .. Len(s) : Append(s, e)[i] = s[i]
      /\ DOMAIN s = 1 .. Len(s) /\ Len(s) \in Nat
  OBVIOUS
<1>2. 1 .. Len(s) + 1 = 1 .. Len(s) \cup {Len(s) + 1}
  BY <1>1
<1> QED
  BY <1>1, <1>2, Zenon DEF Range

(* Appending what is not there repeats nothing. *)
LEMMA AppendInjective ==
  ASSUME NEW S, NEW s \in Seq(S), NEW e \in S, IsInjective(s), e \notin Range(s)
  PROVE  IsInjective(Append(s, e))
<1>1. /\ DOMAIN Append(s, e) = 1 .. Len(s) + 1
      /\ Append(s, e)[Len(s) + 1] = e
      /\ \A i \in 1 .. Len(s) : Append(s, e)[i] = s[i]
      /\ DOMAIN s = 1 .. Len(s) /\ Len(s) \in Nat
  OBVIOUS
<1>2. 1 .. Len(s) + 1 = 1 .. Len(s) \cup {Len(s) + 1}
  BY <1>1
<1>3. \A i \in 1 .. Len(s) : s[i] # e
  BY <1>1, Zenon DEF Range
<1> QED
  BY <1>1, <1>2, <1>3 DEF IsInjective

(* The head of a sequence without repetitions is not in its tail, and the   *)
(* two are all it holds.                                                    *)
LEMMA HeadAndTail ==
  ASSUME NEW S, NEW s \in Seq(S), s # <<>>, IsInjective(s)
  PROVE  /\ Head(s) \in S /\ Tail(s) \in Seq(S)
         /\ IsInjective(Tail(s))
         /\ Head(s) \in Range(s)
         /\ Range(Tail(s)) = Range(s) \ {Head(s)}
<1>1. /\ Head(s) \in S /\ Tail(s) \in Seq(S)
      /\ Len(s) \in Nat /\ Len(s) > 0 /\ DOMAIN s = 1 .. Len(s)
      /\ Head(s) = s[1] /\ DOMAIN Tail(s) = 1 .. Len(s) - 1
      /\ \A i \in 1 .. Len(s) - 1 : Tail(s)[i] = s[i + 1]
  OBVIOUS
<1>2. IsInjective(Tail(s))
  BY <1>1 DEF IsInjective
<1>3. Range(Tail(s)) \subseteq Range(s) \ {Head(s)}
  BY <1>1 DEF Range, IsInjective
<1>4. ASSUME NEW x \in Range(s) \ {Head(s)}
      PROVE  x \in Range(Tail(s))
  <2>1. PICK i \in 1 .. Len(s) : x = s[i]
    BY <1>1 DEF Range
  <2>2. i - 1 \in 1 .. Len(s) - 1 /\ i = (i - 1) + 1
    BY <1>1, <2>1
  <2> QED
    BY <1>1, <2>1, <2>2 DEF Range
<1>5. Head(s) \in Range(s)
  BY <1>1 DEF Range
<1> QED
  BY <1>1, <1>2, <1>3, <1>4, <1>5

(* What an empty channel or batch holds. *)
LEMMA RangeOfEmpty ==
  ASSUME NEW S, NEW s \in Seq(S)
  PROVE  /\ Range(s) = {} <=> s = <<>>
         /\ Range(<<>>) = {} /\ IsInjective(<<>>)
         /\ Range(s) \subseteq S
<1>1. DOMAIN s = 1 .. Len(s) /\ Len(s) \in Nat /\ \A i \in 1 .. Len(s) : s[i] \in S
  OBVIOUS
<1>2. s # <<>> => 1 \in 1 .. Len(s)
  OBVIOUS
<1>3. DOMAIN <<>> = {}
  OBVIOUS
<1> QED
  BY <1>1, <1>2, <1>3 DEF Range, IsInjective

(* A sequence without repetitions is as long as the set it holds is large. *)
LEMMA LengthIsSize ==
  ASSUME NEW S, NEW s \in Seq(S), IsInjective(s), IsFiniteSet(Range(s))
  PROVE  Len(s) = Cardinality(Range(s))
<1>1. s \in Bijection(1 .. Len(s), Range(s)) /\ Len(s) \in Nat
  BY DEF Bijection, Injection, Surjection, Range, IsInjective
<1>2. ExistsBijection(1 .. Len(s), Range(s))
  BY <1>1 DEF ExistsBijection
<1> QED
  BY <1>1, <1>2, FS_CountingElements

(* The lowest sequence number among some tickets is that of one of them. *)
LEMMA MinIsMember ==
  ASSUME NEW S \in SUBSET Nat, S # {}
  PROVE  Min(S) \in S
<1>1. PICK x \in S : \A y \in S : ~ (<<y, x>> \in OpToRel(<, Nat))
  BY NatLessThanWellFounded, WFMin
<1>2. \A y \in Nat : y < x => <<y, x>> \in OpToRel(<, Nat)
  BY Zenon DEF OpToRel
<1>3. \A y \in S : ~ (y < x)
  BY <1>1, <1>2, Zenon
<1>4. \A y \in S : x =< y
  BY <1>3
<1> QED
  BY <1>4 DEF Min

-----------------------------------------------------------------------------
(* Every step keeps the invariant. *)

(* Every step keeps the types. *)
LEMMA TypeStep ==
  ASSUME TypeOK, WriterInv, [Next]_vars
  PROVE  TypeOK'
<1> USE DEF TypeOK, WriterPc, ClientPc, requests, batch, durable, answers,
            client
<1>1. CASE Top
  BY <1>1, SizesAssumption DEF Top
<1>2. CASE SeeTerminal
  BY <1>2 DEF SeeTerminal
<1>3. CASE Complete
  BY <1>3 DEF Complete
<1>4. CASE DrainOutcomesToLimit
  BY <1>4 DEF DrainOutcomesToLimit, Resolve
<1>5. CASE FinalDrain
  BY <1>5, SizesAssumption DEF FinalDrain
<1>6. CASE FinalResolve
  BY <1>6 DEF FinalResolve, Resolve
<1>7. CASE HangUp
  BY <1>7 DEF HangUp
<1>8. CASE Join
  BY <1>8 DEF Join
<1>9. ASSUME NEW q \in Requests, Submit(q) PROVE TypeOK'
  <2>1. CASE Receiving
    BY <1>9, <2>1 DEF Submit, Submittable, Receiving
  <2>2. CASE ~ Receiving
    BY <1>9, <2>2 DEF Submit, Submittable, Receiving
  <2> QED
    BY <2>1, <2>2
<1>10. CASE Ready
  BY <1>10, SizesAssumption DEF Ready, Emit
<1>11. CASE FlushExpired
  BY <1>11 DEF FlushExpired
<1>12. CASE Receive
  BY <1>12 DEF Receive
<1>13. CASE Admit
  <2>1. held \in Requests
    BY <1>13, RequestsAssumption DEF Admit, WriterInv
  <2> QED
    BY <1>13, <2>1 DEF Admit
<1>14. CASE FlushCommit
  BY <1>14, SizesAssumption, RangeOfEmpty DEF FlushCommit, Emit
<1>15. CASE Respond
  BY <1>15, SizesAssumption DEF Respond, Emit
<1>16. CASE FlushEnd
  <2>1. wpc' \in {"checkpoint", after}
    BY <1>16 DEF FlushEnd, Emit
  <2>2. bridge' \in 0 .. BridgeCapacity /\ expired' = FALSE
    BY <1>16, SizesAssumption DEF FlushEnd, Emit
  <2>3. UNCHANGED <<requests, after, held, pending, durable, answers, terminal, client>>
    BY <1>16 DEF FlushEnd
  <2> QED
    BY <2>1, <2>2, <2>3
<1>17. CASE Checkpoint
  BY <1>17, SizesAssumption DEF Checkpoint, Emit
<1>18. CASE Disconnected
  BY <1>18 DEF Disconnected
<1>19. CASE ShutdownFlushed
  BY <1>19, SizesAssumption DEF ShutdownFlushed, Emit
<1>20. CASE Stop
  BY <1>20, SizesAssumption DEF Stop, Emit
<1>21. CASE Reject
  BY <1>21 DEF Reject
<1>22. CASE RejectEnd
  BY <1>22 DEF RejectEnd
<1>23. CASE CloseReceiver
  BY <1>23 DEF CloseReceiver, Drop
<1>24. CASE EmitFailed
  BY <1>24, SizesAssumption DEF EmitFailed, Emit
<1>25. CASE SignalTerminal
  BY <1>25 DEF SignalTerminal
<1>26. CASE Fail
  BY <1>26 DEF Fail
<1>27. CASE FlushBeginFail
  <2>1. answer' \in [Requests -> {"unsent", "waiting", "ok", "error", "dropped"}]
    BY <1>27 DEF FlushBeginFail, Drop, Emit
  <2>8. <<>> \in Seq(Requests)
    OBVIOUS
  <2>9. bridge' \in 0 .. BridgeCapacity
    BY <1>27, SizesAssumption DEF FlushBeginFail, Drop, Emit
  <2> QED
    BY <1>27, <2>1, <2>8, <2>9 DEF FlushBeginFail
<1>28. CASE CheckpointFail
  BY <1>28, SizesAssumption DEF CheckpointFail, Drop, Emit
<1>29. CASE StopFail
  BY <1>29, SizesAssumption DEF StopFail, Emit
<1>30. CASE Panic
  <2>1. answer' \in [Requests -> {"unsent", "waiting", "ok", "error", "dropped"}]
    BY <1>30 DEF Panic, Drop
  <2>8. <<>> \in Seq(Requests)
    OBVIOUS
  <2> QED
    BY <1>30, <2>1, <2>8 DEF Panic
<1>31. ASSUME NEW i \in DOMAIN pending, FlushRollback(i) PROVE TypeOK'
  <2>1. answer' \in [Requests -> {"unsent", "waiting", "ok", "error", "dropped"}]
    BY <1>31 DEF FlushRollback, RollbackNaming, Emit
  <2>2. blame' \in [Requests -> Requests \cup {None}]
    BY <1>31 DEF FlushRollback, RollbackNaming, Emit
  <2>8. <<>> \in Seq(Requests)
    OBVIOUS
  <2>9. bridge' \in 0 .. BridgeCapacity
    BY <1>31, SizesAssumption DEF FlushRollback, RollbackNaming, Emit
  <2> QED
    BY <1>31, <2>1, <2>2, <2>8, <2>9 DEF FlushRollback, RollbackNaming
<1>32. CASE Deadline
  BY <1>32 DEF Deadline
<1>33. CASE UNCHANGED vars
  BY <1>33 DEF vars
<1> QED
  BY <1>1, <1>2, <1>3, <1>4, <1>5, <1>6, <1>7, <1>8, <1>9, <1>10, <1>11,
     <1>12, <1>13, <1>14, <1>15, <1>16, <1>17, <1>18, <1>19, <1>20, <1>21,
     <1>22, <1>23, <1>24, <1>25, <1>26, <1>27, <1>28, <1>29, <1>30, <1>31,
     <1>32, <1>33 DEF Next, Coordinator, Writer, Failures, Over

(* Every step keeps a waiting request in one place. *)
LEMMA PlacesStep ==
  ASSUME TypeOK, WriterInv, Places, [Next]_vars
  PROVE  Places'
<1> USE DEF TypeOK, Places, Waiting, requests, batch, durable, answers, client
<1>a. /\ Range(queue) \subseteq Requests /\ Range(pending) \subseteq Requests
      /\ Range(<<>>) = {} /\ IsInjective(<<>>) /\ None \notin Requests
  BY RangeOfEmpty, RequestsAssumption DEF TypeOK
<1>1. CASE Top
  BY <1>1, <1>a DEF Top
<1>2. CASE SeeTerminal
  BY <1>2, <1>a DEF SeeTerminal
<1>3. CASE Complete
  BY <1>3, <1>a DEF Complete
<1>4. CASE DrainOutcomesToLimit
  BY <1>4, <1>a DEF DrainOutcomesToLimit, Resolve
<1>5. CASE FinalDrain
  BY <1>5, <1>a DEF FinalDrain
<1>6. CASE FinalResolve
  BY <1>6, <1>a DEF FinalResolve, Resolve
<1>7. CASE HangUp
  BY <1>7, <1>a DEF HangUp
<1>8. CASE Join
  BY <1>8, <1>a DEF Join
<1>9. ASSUME NEW q \in Requests, Submit(q) PROVE Places'
  <2>1. CASE Receiving
    <3>1. queue' = Append(queue, q) /\ answer' = [answer EXCEPT ![q] = "waiting"]
      BY <1>9, <2>1 DEF Submit, Submittable, Receiving
    <3>2. q \notin Waiting /\ Waiting' = Waiting \cup {q} /\ q # None
      BY <1>9, <1>a, <3>1 DEF Submit, Submittable, Receiving
    <3>3. IsInjective(queue') /\ Range(queue') = Range(queue) \cup {q}
      BY <3>1, <3>2, RangeOfAppend, AppendInjective
    <3> QED
      BY <1>9, <1>a, <3>2, <3>3 DEF Submit
  <2>2. CASE ~ Receiving
    BY <1>9, <1>a, <2>2 DEF Submit, Submittable, Receiving
  <2> QED
    BY <2>1, <2>2
<1>10. CASE Ready
  BY <1>10, <1>a DEF Ready, Emit
<1>11. CASE FlushExpired
  BY <1>11, <1>a DEF FlushExpired
<1>12. CASE Receive
  <2>1. /\ IsInjective(Tail(queue)) /\ Head(queue) \in Range(queue)
        /\ Range(Tail(queue)) = Range(queue) \ {Head(queue)}
    BY <1>12, HeadAndTail DEF Receive
  <2>2. held = None
    BY <1>12 DEF Receive, WriterInv
  <2> QED
    BY <1>12, <1>a, <2>1, <2>2 DEF Receive
<1>13. CASE Admit
  <2>1. held \in Requests
    BY <1>13, <1>a DEF Admit, WriterInv
  <2>2. CASE expired
    BY <1>13, <1>a, <2>2 DEF Admit
  <2>3. CASE ~ expired
    <3>1. /\ pending' = Append(pending, held) /\ held' = None
          /\ UNCHANGED <<queue, answer>>
      BY <1>13, <2>3 DEF Admit
    <3>2. held \notin Range(pending)
      OBVIOUS
    <3>3. IsInjective(pending') /\ Range(pending') = Range(pending) \cup {held}
      BY <2>1, <3>1, <3>2, RangeOfAppend, AppendInjective
    <3> QED
      BY <1>a, <2>1, <3>1, <3>3
  <2> QED
    BY <2>2, <2>3
<1>14. CASE FlushCommit
  BY <1>14, <1>a DEF FlushCommit, Emit
<1>15. CASE Respond
  BY <1>15, <1>a, HeadAndTail DEF Respond, Emit
<1>16. CASE FlushEnd
  BY <1>16, <1>a DEF FlushEnd, Emit
<1>17. CASE Checkpoint
  BY <1>17, <1>a DEF Checkpoint, Emit
<1>18. CASE Disconnected
  BY <1>18, <1>a DEF Disconnected
<1>19. CASE ShutdownFlushed
  BY <1>19, <1>a DEF ShutdownFlushed, Emit
<1>20. CASE Stop
  BY <1>20, <1>a DEF Stop, Emit
<1>21. CASE Reject
  BY <1>21, <1>a, HeadAndTail DEF Reject
<1>22. CASE RejectEnd
  BY <1>22, <1>a DEF RejectEnd
<1>23. CASE CloseReceiver
  BY <1>23, <1>a DEF CloseReceiver, Drop
<1>24. CASE EmitFailed
  BY <1>24, <1>a DEF EmitFailed, Emit
<1>25. CASE SignalTerminal
  BY <1>25, <1>a DEF SignalTerminal
<1>26. CASE Fail
  BY <1>26, <1>a DEF Fail
<1>27. CASE FlushBeginFail
  BY <1>27, <1>a DEF FlushBeginFail, Drop, Emit
<1>28. CASE CheckpointFail
  BY <1>28, <1>a DEF CheckpointFail, Drop, Emit
<1>29. CASE StopFail
  BY <1>29, <1>a DEF StopFail, Emit
<1>30. CASE Panic
  BY <1>30, <1>a DEF Panic, Drop
<1>31. ASSUME NEW i \in DOMAIN pending, FlushRollback(i) PROVE Places'
  BY <1>31, <1>a DEF FlushRollback, RollbackNaming, Emit
<1>32. CASE Deadline
  BY <1>32, <1>a DEF Deadline
<1>33. CASE UNCHANGED vars
  BY <1>33, <1>a DEF vars
<1> QED
  BY <1>1, <1>2, <1>3, <1>4, <1>5, <1>6, <1>7, <1>8, <1>9, <1>10, <1>11,
     <1>12, <1>13, <1>14, <1>15, <1>16, <1>17, <1>18, <1>19, <1>20, <1>21,
     <1>22, <1>23, <1>24, <1>25, <1>26, <1>27, <1>28, <1>29, <1>30, <1>31,
     <1>32, <1>33 DEF Next, Coordinator, Writer, Failures, Over

(* Every step keeps the writer's own bookkeeping. *)
LEMMA WriterStep ==
  ASSUME TypeOK, WriterInv, Places, [Next]_vars
  PROVE  WriterInv'
<1> USE DEF TypeOK, WriterPc, WriterInv, Failing, requests, batch, durable,
            answers, client
<1>a. /\ Range(queue) \subseteq Requests /\ Range(pending) \subseteq Requests
      /\ Range(<<>>) = {} /\ IsInjective(<<>>) /\ None \notin Requests
  BY RangeOfEmpty, RequestsAssumption DEF TypeOK
<1>1. CASE Top
  BY <1>1, <1>a DEF Top
<1>2. CASE SeeTerminal
  BY <1>2, <1>a DEF SeeTerminal
<1>3. CASE Complete
  BY <1>3, <1>a DEF Complete
<1>4. CASE DrainOutcomesToLimit
  BY <1>4, <1>a DEF DrainOutcomesToLimit, Resolve
<1>5. CASE FinalDrain
  BY <1>5, <1>a DEF FinalDrain
<1>6. CASE FinalResolve
  BY <1>6, <1>a DEF FinalResolve, Resolve
<1>7. CASE HangUp
  BY <1>7, <1>a DEF HangUp
<1>8. CASE Join
  BY <1>8, <1>a DEF Join
<1>9. ASSUME NEW q \in Requests, Submit(q) PROVE WriterInv'
  BY <1>9, <1>a DEF Submit, Submittable, Receiving
<1>10. CASE Ready
  BY <1>10, <1>a DEF Ready, Emit
<1>11. CASE FlushExpired
  BY <1>11, <1>a DEF FlushExpired
<1>12. CASE Receive
  BY <1>12, <1>a DEF Receive
<1>13. CASE Admit
  BY <1>13, <1>a DEF Admit
<1>14. CASE FlushCommit
  BY <1>14, <1>a DEF FlushCommit, Emit
<1>15. CASE Respond
  BY <1>15, <1>a DEF Respond, Emit
<1>16. CASE FlushEnd
  BY <1>16, <1>a DEF FlushEnd, Emit
<1>17. CASE Checkpoint
  BY <1>17, <1>a DEF Checkpoint, Emit
<1>18. CASE Disconnected
  BY <1>18, <1>a DEF Disconnected
<1>19. CASE ShutdownFlushed
  BY <1>19, <1>a DEF ShutdownFlushed, Emit
<1>20. CASE Stop
  BY <1>20, <1>a DEF Stop, Emit
<1>21. CASE Reject
  BY <1>21, <1>a DEF Reject
<1>22. CASE RejectEnd
  BY <1>22, <1>a DEF RejectEnd
<1>23. CASE CloseReceiver
  BY <1>23, <1>a DEF CloseReceiver, Drop
<1>24. CASE EmitFailed
  BY <1>24, <1>a DEF EmitFailed, Emit
<1>25. CASE SignalTerminal
  BY <1>25, <1>a DEF SignalTerminal
<1>26. CASE Fail
  BY <1>26, <1>a DEF Fail
<1>27. CASE FlushBeginFail
  BY <1>27, <1>a DEF FlushBeginFail, Drop, Emit
<1>28. CASE CheckpointFail
  BY <1>28, <1>a DEF CheckpointFail, Drop, Emit
<1>29. CASE StopFail
  BY <1>29, <1>a DEF StopFail, Emit
<1>30. CASE Panic
  BY <1>30, <1>a DEF Panic, Drop
<1>31. ASSUME NEW i \in DOMAIN pending, FlushRollback(i) PROVE WriterInv'
  BY <1>31, <1>a DEF FlushRollback, RollbackNaming, Emit
<1>32. CASE Deadline
  BY <1>32, <1>a DEF Deadline
<1>33. CASE UNCHANGED vars
  BY <1>33, <1>a DEF vars
<1> QED
  BY <1>1, <1>2, <1>3, <1>4, <1>5, <1>6, <1>7, <1>8, <1>9, <1>10, <1>11,
     <1>12, <1>13, <1>14, <1>15, <1>16, <1>17, <1>18, <1>19, <1>20, <1>21,
     <1>22, <1>23, <1>24, <1>25, <1>26, <1>27, <1>28, <1>29, <1>30, <1>31,
     <1>32, <1>33 DEF Next, Coordinator, Writer, Failures, Over

(* Every step keeps the answers in agreement with the catalog. *)
LEMMA AnswerStep ==
  ASSUME TypeOK, WriterInv, Places, AnswerInv, [Next]_vars
  PROVE  AnswerInv'
<1> USE DEF TypeOK, AnswerInv, Places, Waiting, requests, batch, durable,
            answers, client
<1>a. /\ Range(queue) \subseteq Requests /\ Range(pending) \subseteq Requests
      /\ Range(<<>>) = {} /\ IsInjective(<<>>) /\ None \notin Requests
  BY RangeOfEmpty, RequestsAssumption DEF TypeOK
<1>1. CASE Top
  BY <1>1, <1>a DEF Top
<1>2. CASE SeeTerminal
  BY <1>2, <1>a DEF SeeTerminal
<1>3. CASE Complete
  BY <1>3, <1>a DEF Complete
<1>4. CASE DrainOutcomesToLimit
  BY <1>4, <1>a DEF DrainOutcomesToLimit, Resolve
<1>5. CASE FinalDrain
  BY <1>5, <1>a DEF FinalDrain
<1>6. CASE FinalResolve
  BY <1>6, <1>a DEF FinalResolve, Resolve
<1>7. CASE HangUp
  BY <1>7, <1>a DEF HangUp
<1>8. CASE Join
  BY <1>8, <1>a DEF Join
<1>9. ASSUME NEW q \in Requests, Submit(q) PROVE AnswerInv'
  BY <1>9, <1>a DEF Submit, Submittable, Receiving
<1>10. CASE Ready
  BY <1>10, <1>a DEF Ready, Emit
<1>11. CASE FlushExpired
  BY <1>11, <1>a DEF FlushExpired
<1>12. CASE Receive
  BY <1>12, <1>a DEF Receive
<1>13. CASE Admit
  BY <1>13, <1>a DEF Admit
<1>14. CASE FlushCommit
  BY <1>14, <1>a DEF FlushCommit, Emit
<1>15. CASE Respond
  BY <1>15, <1>a, HeadAndTail DEF Respond, Emit
<1>16. CASE FlushEnd
  BY <1>16, <1>a DEF FlushEnd, Emit
<1>17. CASE Checkpoint
  BY <1>17, <1>a DEF Checkpoint, Emit
<1>18. CASE Disconnected
  BY <1>18, <1>a DEF Disconnected
<1>19. CASE ShutdownFlushed
  BY <1>19, <1>a DEF ShutdownFlushed, Emit
<1>20. CASE Stop
  BY <1>20, <1>a DEF Stop, Emit
<1>21. CASE Reject
  BY <1>21, <1>a, HeadAndTail DEF Reject
<1>22. CASE RejectEnd
  BY <1>22, <1>a DEF RejectEnd
<1>23. CASE CloseReceiver
  BY <1>23, <1>a DEF CloseReceiver, Drop
<1>24. CASE EmitFailed
  BY <1>24, <1>a DEF EmitFailed, Emit
<1>25. CASE SignalTerminal
  BY <1>25, <1>a DEF SignalTerminal
<1>26. CASE Fail
  BY <1>26, <1>a DEF Fail
<1>27. CASE FlushBeginFail
  BY <1>27, <1>a DEF FlushBeginFail, Drop, Emit
<1>28. CASE CheckpointFail
  BY <1>28, <1>a DEF CheckpointFail, Drop, Emit
<1>29. CASE StopFail
  BY <1>29, <1>a DEF StopFail, Emit
<1>30. CASE Panic
  BY <1>30, <1>a DEF Panic, Drop
<1>31. ASSUME NEW i \in DOMAIN pending, FlushRollback(i) PROVE AnswerInv'
  <2>1. pending[i] \in Range(pending) /\ pending[i] \in Requests
    BY <1>a DEF Range
  <2>2. /\ wpc = "flush" /\ wpc' = "reject" /\ committed' = committed
        /\ \A q \in Requests :
             answer'[q] = IF q \in Range(pending) THEN "error"
                          ELSE IF q = held THEN "dropped" ELSE answer[q]
        /\ \A q \in Requests :
             blame'[q] = IF q \in Range(pending) THEN pending[i] ELSE blame[q]
    BY <1>31 DEF FlushRollback, RollbackNaming
  <2>3. \A q \in Range(pending) \cup {held} : q \in Requests => answer[q] = "waiting"
    BY <1>a
  <2> QED
    BY <1>a, <2>1, <2>2, <2>3
<1>32. CASE Deadline
  BY <1>32, <1>a DEF Deadline
<1>33. CASE UNCHANGED vars
  BY <1>33, <1>a DEF vars
<1> QED
  BY <1>1, <1>2, <1>3, <1>4, <1>5, <1>6, <1>7, <1>8, <1>9, <1>10, <1>11,
     <1>12, <1>13, <1>14, <1>15, <1>16, <1>17, <1>18, <1>19, <1>20, <1>21,
     <1>22, <1>23, <1>24, <1>25, <1>26, <1>27, <1>28, <1>29, <1>30, <1>31,
     <1>32, <1>33 DEF Next, Coordinator, Writer, Failures, Over

(* Every step keeps the tickets in agreement with the answers. *)
LEMMA TicketStep ==
  ASSUME TypeOK, WriterInv, Places, TicketInv, [Next]_vars
  PROVE  TicketInv'
<1> USE DEF TypeOK, ClientPc, TicketInv, Places, Waiting, Submittable,
            Running, requests, batch, durable, answers, client
<1>a. /\ Range(queue) \subseteq Requests /\ Range(pending) \subseteq Requests
      /\ Range(<<>>) = {} /\ IsInjective(<<>>) /\ None \notin Requests
  BY RangeOfEmpty, RequestsAssumption DEF TypeOK
<1>1. CASE Top
  BY <1>1, <1>a DEF Top
<1>2. CASE SeeTerminal
  BY <1>2, <1>a DEF SeeTerminal
<1>3. CASE Complete
  BY <1>3, <1>a DEF Complete
<1>4. CASE DrainOutcomesToLimit
  <2>a. CASE Cardinality(tickets) < MaxBatch
    BY <1>4, <1>a, <2>a, FS_CardinalityType, SizesAssumption DEF DrainOutcomesToLimit, Resolve
  <2>b. CASE ~ (Cardinality(tickets) < MaxBatch)
    <3>1. tickets # {}
      BY <1>4, <2>b, FS_EmptySet, SizesAssumption DEF DrainOutcomesToLimit, Resolve
    <3>2. Min(tickets) \in tickets
      BY <3>1, MinIsMember, RequestsAssumption
    <3>3. /\ IsFiniteSet(tickets \ {Min(tickets)})
          /\ Cardinality(tickets \ {Min(tickets)}) = Cardinality(tickets) - 1
          /\ Cardinality(tickets) \in Nat
      BY <3>2, FS_RemoveElement, FS_CardinalityType
    <3>4. /\ answer[Min(tickets)] # "waiting" /\ tickets' = tickets \ {Min(tickets)}
          /\ \/ answer[Min(tickets)] = "ok" /\ result' = result
                /\ (cpc' = IF cpc = "limit" THEN "limit" ELSE "final")
             \/ cpc' = "hang_up" /\ result' = "error"
          /\ UNCHANGED <<wpc, handle, answer>> /\ cpc \in {"limit", "final_wait"}
      BY <1>4, <2>b, <3>3, SizesAssumption DEF DrainOutcomesToLimit, Resolve
    <3> QED
      BY <1>a, <3>2, <3>3, <3>4, SizesAssumption
  <2> QED
    BY <2>a, <2>b
<1>5. CASE FinalDrain
  BY <1>5, <1>a DEF FinalDrain
<1>6. CASE FinalResolve
  <2>1. tickets # {}
    BY <1>6, FS_EmptySet, SizesAssumption DEF FinalResolve, Resolve
  <2>2. Min(tickets) \in tickets
    BY <2>1, MinIsMember, RequestsAssumption
  <2>3. /\ IsFiniteSet(tickets \ {Min(tickets)})
        /\ Cardinality(tickets \ {Min(tickets)}) = Cardinality(tickets) - 1
        /\ Cardinality(tickets) \in Nat
    BY <2>2, FS_RemoveElement, FS_CardinalityType
  <2>4. /\ answer[Min(tickets)] # "waiting" /\ tickets' = tickets \ {Min(tickets)}
        /\ \/ answer[Min(tickets)] = "ok" /\ result' = result
              /\ (cpc' = IF cpc = "limit" THEN "limit" ELSE "final")
           \/ cpc' = "hang_up" /\ result' = "error"
        /\ UNCHANGED <<wpc, handle, answer>> /\ cpc \in {"limit", "final_wait"}
    BY <1>6, <2>3, SizesAssumption DEF FinalResolve, Resolve
  <2> QED
    BY <1>a, <2>2, <2>3, <2>4, SizesAssumption
<1>7. CASE HangUp
  BY <1>7, <1>a DEF HangUp
<1>8. CASE Join
  BY <1>8, <1>a DEF Join
<1>9. ASSUME NEW q \in Requests, Submit(q) PROVE TicketInv'
  <2>1. CASE Receiving
    <3>1. /\ IsFiniteSet(tickets \cup {q}) /\ Cardinality(tickets) \in Nat
          /\ Cardinality(tickets \cup {q}) <= Cardinality(tickets) + 1
      <4>1. Cardinality(tickets) \in Nat
        BY FS_CardinalityType
      <4>2. /\ IsFiniteSet(tickets \cup {q})
            /\ Cardinality(tickets \cup {q}) =
                 IF q \in tickets THEN Cardinality(tickets) ELSE Cardinality(tickets) + 1
        BY FS_AddElement
      <4> QED
        BY <4>1, <4>2
    <3>2. Cardinality(tickets \cup {q}) \in Nat
      BY <3>1, FS_CardinalityType
    <3>3. /\ cpc = "run" /\ cpc' = "limit" /\ answer[q] = "unsent"
          /\ tickets' = tickets \cup {q} /\ answer' = [answer EXCEPT ![q] = "waiting"]
          /\ UNCHANGED <<result, handle>>
      BY <1>9, <2>1 DEF Submit, Submittable, Receiving
    <3> QED
      BY <1>a, <3>1, <3>2, <3>3, SizesAssumption
  <2>2. CASE ~ Receiving
    BY <1>9, <1>a, <2>2 DEF Submit, Submittable, Receiving
  <2> QED
    BY <2>1, <2>2
<1>10. CASE Ready
  BY <1>10, <1>a DEF Ready, Emit
<1>11. CASE FlushExpired
  BY <1>11, <1>a DEF FlushExpired
<1>12. CASE Receive
  BY <1>12, <1>a DEF Receive
<1>13. CASE Admit
  BY <1>13, <1>a DEF Admit
<1>14. CASE FlushCommit
  BY <1>14, <1>a DEF FlushCommit, Emit
<1>15. CASE Respond
  BY <1>15, <1>a, HeadAndTail DEF Respond, Emit
<1>16. CASE FlushEnd
  BY <1>16, <1>a DEF FlushEnd, Emit
<1>17. CASE Checkpoint
  BY <1>17, <1>a DEF Checkpoint, Emit
<1>18. CASE Disconnected
  BY <1>18, <1>a DEF Disconnected
<1>19. CASE ShutdownFlushed
  BY <1>19, <1>a DEF ShutdownFlushed, Emit
<1>20. CASE Stop
  BY <1>20, <1>a DEF Stop, Emit
<1>21. CASE Reject
  BY <1>21, <1>a, HeadAndTail DEF Reject
<1>22. CASE RejectEnd
  BY <1>22, <1>a DEF RejectEnd
<1>23. CASE CloseReceiver
  BY <1>23, <1>a DEF CloseReceiver, Drop
<1>24. CASE EmitFailed
  BY <1>24, <1>a DEF EmitFailed, Emit
<1>25. CASE SignalTerminal
  BY <1>25, <1>a DEF SignalTerminal
<1>26. CASE Fail
  BY <1>26, <1>a DEF Fail
<1>27. CASE FlushBeginFail
  BY <1>27, <1>a DEF FlushBeginFail, Drop, Emit
<1>28. CASE CheckpointFail
  BY <1>28, <1>a DEF CheckpointFail, Drop, Emit
<1>29. CASE StopFail
  BY <1>29, <1>a DEF StopFail, Emit
<1>30. CASE Panic
  BY <1>30, <1>a DEF Panic, Drop
<1>31. ASSUME NEW i \in DOMAIN pending, FlushRollback(i) PROVE TicketInv'
  BY <1>31, <1>a DEF FlushRollback, RollbackNaming, Emit
<1>32. CASE Deadline
  BY <1>32, <1>a DEF Deadline
<1>33. CASE UNCHANGED vars
  BY <1>33, <1>a DEF vars
<1> QED
  BY <1>1, <1>2, <1>3, <1>4, <1>5, <1>6, <1>7, <1>8, <1>9, <1>10, <1>11,
     <1>12, <1>13, <1>14, <1>15, <1>16, <1>17, <1>18, <1>19, <1>20, <1>21,
     <1>22, <1>23, <1>24, <1>25, <1>26, <1>27, <1>28, <1>29, <1>30, <1>31,
     <1>32, <1>33 DEF Next, Coordinator, Writer, Failures, Over

(* What the writer owes at each of its places. *)
LEMMA OwedValues ==
  \A a, p :
    /\ Owed("start", a, p) = 2
    /\ Owed("loop", a, p) = 1 /\ Owed("admit", a, p) = 1
    /\ Owed("reject", a, p) = 1 /\ Owed("close", a, p) = 1
    /\ Owed("fail_event", a, p) = 1
    /\ Owed("fail_signal", a, p) = 0 /\ Owed("down", a, p) = 0
    /\ Owed("stopped", a, p) = 0
    /\ Owed("flush", a, p) = IF a = "flushed" THEN 4 ELSE 1
    /\ p # <<>> => Owed("respond", a, p) = IF a = "flushed" THEN 3 ELSE 0
    /\ Owed("respond", a, <<>>) = IF a = "flushed" THEN 7 ELSE 4
    /\ Owed("checkpoint", a, p) = IF a = "flushed" THEN 6 ELSE 3
    /\ Owed("flushed", a, p) = 4 /\ Owed("last_checkpoint", a, p) = 3
  BY DEF Owed

(* No step outruns the coordinator's next drain of the bridge. *)
LEMMA LoadStep ==
  ASSUME TypeOK, WriterInv, Places, TicketInv, LoadInv, [Next]_vars
  PROVE  LoadInv'
<1> USE DEF requests, batch, durable, answers, client
<1>a. /\ Range(queue) \subseteq Requests /\ Range(pending) \subseteq Requests
      /\ Range(<<>>) = {} /\ IsInjective(<<>>) /\ None \notin Requests
  BY RangeOfEmpty, RequestsAssumption DEF TypeOK
<1>b. /\ IsFiniteSet(Waiting) /\ Cardinality(Waiting) \in Nat
      /\ Cardinality(tickets) \in Nat /\ Cardinality(Waiting) <= Cardinality(tickets)
  BY FS_Subset, FS_CardinalityType DEF TicketInv
<1>c. ASSUME Waiting' \subseteq Waiting
      PROVE  /\ Cardinality(Waiting') \in Nat
             /\ Cardinality(Waiting') <= Cardinality(Waiting)
             /\ Waiting' # Waiting => Cardinality(Waiting') <= Cardinality(Waiting) - 1
  BY <1>b, <1>c, FS_Subset, FS_CardinalityType
<1>d. answer' = answer => Waiting' = Waiting
  BY DEF Waiting
<1>e. Owed(wpc, after, pending) \in Nat
  BY OwedValues DEF TypeOK, WriterPc
<1>f. Owed(wpc, after, pending)' \in Nat /\ bridge' \in Nat
  BY TypeStep, OwedValues, SizesAssumption DEF TypeOK, WriterPc
<1>g. Load \in Nat /\ bridge \in Nat /\ MaxBatch \in Nat \ {0}
  BY <1>b, <1>e, SizesAssumption DEF TypeOK, Load
<1>h. ASSUME Load' <= Load, cpc' = cpc, Load' \in Nat,
             wpc' \in Working /\ after' # "flushed" => wpc \in Working /\ after # "flushed"
      PROVE  LoadInv'
  BY <1>g, <1>h DEF LoadInv
<1>1. CASE Top
  <2>1. Owed(wpc, after, pending) <= 4 /\ after # "flushed"
    BY <1>1, OwedValues DEF Top, TypeOK, WriterPc, WriterInv, TicketInv
  <2>2. Cardinality(Waiting) <= MaxBatch - 1
    BY <1>1, <1>b, <1>g DEF Top, TicketInv
  <2>3. Load' = 5 * Cardinality(Waiting) + Owed(wpc, after, pending)
    BY <1>1, <1>b, <1>d, <1>e DEF Top, Load, TypeOK
  <2>4. Load' <= 5 * MaxBatch - 1
    BY <1>b, <1>e, <1>g, <2>1, <2>2, <2>3 DEF TypeOK
  <2> QED
    BY <1>b, <1>e, <1>g, <2>3, <2>4 DEF LoadInv, TypeOK
<1>2. CASE SeeTerminal
  <2>1. Load' = Load /\ wpc' = wpc /\ after' = after
    BY <1>2, <1>d DEF SeeTerminal, Load
  <2> QED
    BY <1>2, <1>g, <2>1 DEF SeeTerminal, LoadInv
<1>3. CASE Complete
  <2>1. Load' = Load /\ wpc' = wpc /\ after' = after
    BY <1>3, <1>d DEF Complete, Load
  <2> QED
    BY <1>3, <1>g, <2>1 DEF Complete, LoadInv
<1>4. CASE DrainOutcomesToLimit
  <2>1. Load' = Load /\ wpc' = wpc /\ after' = after
    BY <1>4, <1>d DEF DrainOutcomesToLimit, Resolve, Load
  <2>2. CASE cpc' = "hang_up"
    <3>1. tickets # {}
      BY <1>4, <1>g, <2>2, FS_EmptySet DEF DrainOutcomesToLimit, Resolve, TicketInv
    <3>2. Min(tickets) \in tickets
      BY <3>1, MinIsMember, RequestsAssumption DEF TypeOK
    <3>3. answer[Min(tickets)] \in {"error", "dropped"}
      BY <1>4, <2>2, <3>2 DEF DrainOutcomesToLimit, Resolve, TypeOK, TicketInv, Submittable
    <3>4. wpc \notin Working
      BY <3>2, <3>3 DEF WriterInv, Failing, Working, TypeOK
    <3> QED
      BY <1>g, <2>1, <2>2, <3>4 DEF LoadInv
  <2>3. CASE cpc' # "hang_up"
    BY <1>4, <1>g, <2>1, <2>3 DEF DrainOutcomesToLimit, Resolve, LoadInv
  <2> QED
    BY <2>2, <2>3
<1>5. CASE FinalDrain
  <2>1. Owed(wpc, after, pending) <= 4 /\ after # "flushed"
    BY <1>5, OwedValues DEF FinalDrain, TypeOK, WriterPc, WriterInv, TicketInv
  <2>2. Cardinality(Waiting) <= MaxBatch - 1
    BY <1>5, <1>b, <1>g DEF FinalDrain, TicketInv
  <2>3. Load' = 5 * Cardinality(Waiting) + Owed(wpc, after, pending)
    BY <1>5, <1>b, <1>d, <1>e DEF FinalDrain, Load, TypeOK
  <2>4. Load' <= 5 * MaxBatch - 1
    BY <1>b, <1>e, <1>g, <2>1, <2>2, <2>3 DEF TypeOK
  <2> QED
    BY <1>b, <1>e, <1>g, <2>3, <2>4 DEF LoadInv, TypeOK
<1>6. CASE FinalResolve
  <2>1. Load' = Load /\ wpc' = wpc /\ after' = after
    BY <1>6, <1>d DEF FinalResolve, Resolve, Load
  <2>2. CASE cpc' = "hang_up"
    <3>1. tickets # {}
      BY <1>6, <1>g, <2>2, FS_EmptySet DEF FinalResolve, Resolve, TicketInv
    <3>2. Min(tickets) \in tickets
      BY <3>1, MinIsMember, RequestsAssumption DEF TypeOK
    <3>3. answer[Min(tickets)] \in {"error", "dropped"}
      BY <1>6, <2>2, <3>2 DEF FinalResolve, Resolve, TypeOK, TicketInv, Submittable
    <3>4. wpc \notin Working
      BY <3>2, <3>3 DEF WriterInv, Failing, Working, TypeOK
    <3> QED
      BY <1>g, <2>1, <2>2, <3>4 DEF LoadInv
  <2>3. CASE cpc' # "hang_up"
    BY <1>6, <1>g, <2>1, <2>3 DEF FinalResolve, Resolve, LoadInv
  <2> QED
    BY <2>2, <2>3
<1>7. CASE HangUp
  <2>1. Load' = Load /\ wpc' = wpc /\ after' = after
    BY <1>7, <1>d DEF HangUp, Load
  <2> QED
    BY <1>7, <1>g, <2>1 DEF HangUp, LoadInv
<1>8. CASE Join
  <2>1. Load' = Load /\ wpc' = wpc /\ after' = after
    BY <1>8, <1>d DEF Join, Load
  <2> QED
    BY <1>8, <1>g, <2>1 DEF Join, LoadInv
<1>9. ASSUME NEW q \in Requests, Submit(q) PROVE LoadInv'
  <2>1. CASE Receiving
    <3>1. Waiting' = Waiting \cup {q} /\ q \notin Waiting /\ cpc = "run" /\ cpc' = "limit"
      BY <1>9, <2>1 DEF Submit, Submittable, TypeOK, Waiting
    <3>2. Cardinality(Waiting') = Cardinality(Waiting) + 1
      BY <1>b, <3>1, FS_AddElement
    <3>3. Load' = Load + 5
      BY <1>9, <1>b, <1>e, <1>g, <3>2 DEF Submit, Load
    <3> QED
      BY <1>g, <3>1, <3>3 DEF LoadInv
  <2>2. CASE ~ Receiving
    <3>1. Load' = Load /\ cpc' = "hang_up" /\ cpc = "run"
      BY <1>9, <1>d, <2>2 DEF Submit, Load
    <3> QED
      BY <1>g, <3>1 DEF LoadInv
  <2> QED
    BY <2>1, <2>2
<1>10. CASE Ready
  <2>1. Owed(wpc, after, pending)' + 1 <= Owed(wpc, after, pending)
    BY <1>10, OwedValues DEF Ready, TypeOK, WriterPc, WriterInv
  <2>2. bridge' = bridge + 1 /\ Waiting' = Waiting
    BY <1>10, <1>d DEF Ready, Emit
  <2>3. Load' <= Load /\ Load' \in Nat
    BY <1>b, <1>e, <1>f, <1>g, <2>1, <2>2 DEF Load
  <2> QED
    BY <1>10, <1>h, <2>3 DEF Ready, WriterInv, Working
<1>11. CASE FlushExpired
  <2>1. Owed(wpc, after, pending)' <= Owed(wpc, after, pending)
    BY <1>11, OwedValues DEF FlushExpired, TypeOK, WriterPc, WriterInv
  <2>2. bridge' = bridge /\ Waiting' = Waiting
    BY <1>11, <1>d DEF FlushExpired
  <2>3. Load' <= Load /\ Load' \in Nat
    BY <1>b, <1>e, <1>f, <1>g, <2>1, <2>2 DEF Load
  <2> QED
    BY <1>11, <1>h, <2>3 DEF FlushExpired, WriterInv, Working
<1>12. CASE Receive
  <2>1. Owed(wpc, after, pending)' <= Owed(wpc, after, pending)
    BY <1>12, OwedValues DEF Receive, TypeOK, WriterPc, WriterInv
  <2>2. bridge' = bridge /\ Waiting' = Waiting
    BY <1>12, <1>d DEF Receive
  <2>3. Load' <= Load /\ Load' \in Nat
    BY <1>b, <1>e, <1>f, <1>g, <2>1, <2>2 DEF Load
  <2> QED
    BY <1>12, <1>h, <2>3 DEF Receive, WriterInv, Working
<1>13. CASE Admit
  <2>1. Owed(wpc, after, pending)' <= Owed(wpc, after, pending)
    BY <1>13, OwedValues DEF Admit, TypeOK, WriterPc, WriterInv
  <2>2. bridge' = bridge /\ Waiting' = Waiting
    BY <1>13, <1>d DEF Admit
  <2>3. Load' <= Load /\ Load' \in Nat
    BY <1>b, <1>e, <1>f, <1>g, <2>1, <2>2 DEF Load
  <2> QED
    BY <1>13, <1>h, <2>3 DEF Admit, WriterInv, Working
<1>14. CASE FlushCommit
  <2>1. Owed(wpc, after, pending)' + 1 <= Owed(wpc, after, pending)
    BY <1>14, OwedValues DEF FlushCommit, TypeOK, WriterPc, WriterInv
  <2>2. bridge' = bridge + 1 /\ Waiting' = Waiting
    BY <1>14, <1>d DEF FlushCommit, Emit
  <2>3. Load' <= Load /\ Load' \in Nat
    BY <1>b, <1>e, <1>f, <1>g, <2>1, <2>2 DEF Load
  <2> QED
    BY <1>14, <1>h, <2>3 DEF FlushCommit, WriterInv, Working
<1>15. CASE Respond
  <2>1. Waiting' \subseteq Waiting /\ Waiting' # Waiting
    <3>1. Head(pending) \in Waiting
      BY <1>15, HeadAndTail DEF Respond, TypeOK, Places
    <3>2. Waiting' = Waiting \ {Head(pending)}
      BY <1>15, <3>1 DEF Respond, TypeOK, Waiting
    <3> QED
      BY <3>1, <3>2
  <2>2. Owed(wpc, after, pending)' + 1 <= Owed(wpc, after, pending) + 5
    BY <1>15, OwedValues DEF Respond, Emit, TypeOK, WriterPc, WriterInv
  <2>3. bridge' = bridge + 1
    BY <1>15 DEF Respond, Emit
  <2>4. Load' <= Load /\ Load' \in Nat
    BY <1>b, <1>c, <1>e, <1>f, <1>g, <2>1, <2>2, <2>3 DEF Load
  <2> QED
    BY <1>15, <1>h, <2>4 DEF Respond, Emit, Working
<1>16. CASE FlushEnd
  <2>1. Owed(wpc, after, pending)' + 1 <= Owed(wpc, after, pending)
    BY <1>16, OwedValues DEF FlushEnd, TypeOK, WriterPc, WriterInv
  <2>2. bridge' = bridge + 1 /\ Waiting' = Waiting
    BY <1>16, <1>d DEF FlushEnd, Emit
  <2>3. Load' <= Load /\ Load' \in Nat
    BY <1>b, <1>e, <1>f, <1>g, <2>1, <2>2 DEF Load
  <2> QED
    BY <1>16, <1>h, <2>3 DEF FlushEnd, WriterInv, Working
<1>17. CASE Checkpoint
  <2>1. Owed(wpc, after, pending)' + 2 <= Owed(wpc, after, pending)
    BY <1>17, OwedValues DEF Checkpoint, TypeOK, WriterPc, WriterInv
  <2>2. bridge' = bridge + 2 /\ Waiting' = Waiting
    BY <1>17, <1>d DEF Checkpoint, Emit
  <2>3. Load' <= Load /\ Load' \in Nat
    BY <1>b, <1>e, <1>f, <1>g, <2>1, <2>2 DEF Load
  <2> QED
    BY <1>17, <1>h, <2>3 DEF Checkpoint, WriterInv, Working
<1>18. CASE Disconnected
  <2>1. /\ Owed(wpc, after, pending)' <= Owed(wpc, after, pending) + 3
        /\ wpc' \notin Working \/ after' = "flushed"
    BY <1>18, OwedValues DEF Disconnected, Working
  <2>2. bridge' = bridge /\ Waiting' = Waiting /\ cpc' = cpc
    BY <1>18, <1>d DEF Disconnected
  <2>3. Load' <= Load + 3 /\ Load' \in Nat
    BY <1>b, <1>e, <1>f, <1>g, <2>1, <2>2 DEF Load
  <2>4. Load <= 5 * MaxBatch + 1 /\ cpc # "run"
    BY <1>18 DEF Disconnected, WriterInv, TicketInv, LoadInv, Working
  <2> QED
    BY <1>g, <2>1, <2>2, <2>3, <2>4 DEF LoadInv
<1>19. CASE ShutdownFlushed
  <2>1. Owed(wpc, after, pending)' + 1 <= Owed(wpc, after, pending)
    BY <1>19, OwedValues DEF ShutdownFlushed, TypeOK, WriterPc, WriterInv
  <2>2. bridge' = bridge + 1 /\ Waiting' = Waiting
    BY <1>19, <1>d DEF ShutdownFlushed, Emit
  <2>3. Load' <= Load /\ Load' \in Nat
    BY <1>b, <1>e, <1>f, <1>g, <2>1, <2>2 DEF Load
  <2> QED
    BY <1>19, <1>h, <2>3 DEF ShutdownFlushed, WriterInv, Working
<1>20. CASE Stop
  <2>1. Owed(wpc, after, pending)' + 3 <= Owed(wpc, after, pending)
    BY <1>20, OwedValues DEF Stop, TypeOK, WriterPc, WriterInv
  <2>2. bridge' = bridge + 3 /\ Waiting' = Waiting
    BY <1>20, <1>d DEF Stop, Emit
  <2>3. Load' <= Load /\ Load' \in Nat
    BY <1>b, <1>e, <1>f, <1>g, <2>1, <2>2 DEF Load
  <2> QED
    BY <1>20, <1>h, <2>3 DEF Stop, WriterInv, Working
<1>21. CASE Reject
  <2>1. Waiting' \subseteq Waiting
    BY <1>21 DEF Reject, TypeOK, Waiting
  <2>2. Owed(wpc, after, pending)' <= Owed(wpc, after, pending)
    BY <1>21, OwedValues DEF Reject, TypeOK, WriterPc, WriterInv
  <2>3. bridge' = bridge
    BY <1>21 DEF Reject
  <2>4. Load' <= Load /\ Load' \in Nat
    BY <1>b, <1>c, <1>e, <1>f, <1>g, <2>1, <2>2, <2>3 DEF Load
  <2> QED
    BY <1>21, <1>h, <2>4 DEF Reject, Working
<1>22. CASE RejectEnd
  <2>1. Owed(wpc, after, pending)' <= Owed(wpc, after, pending)
    BY <1>22, OwedValues DEF RejectEnd, TypeOK, WriterPc, WriterInv
  <2>2. bridge' = bridge /\ Waiting' = Waiting
    BY <1>22, <1>d DEF RejectEnd
  <2>3. Load' <= Load /\ Load' \in Nat
    BY <1>b, <1>e, <1>f, <1>g, <2>1, <2>2 DEF Load
  <2> QED
    BY <1>22, <1>h, <2>3 DEF RejectEnd, WriterInv, Working
<1>23. CASE CloseReceiver
  <2>1. Waiting' \subseteq Waiting
    BY <1>23 DEF CloseReceiver, Drop, TypeOK, Waiting
  <2>2. Owed(wpc, after, pending)' <= Owed(wpc, after, pending)
    BY <1>23, OwedValues DEF CloseReceiver, Drop, TypeOK, WriterPc, WriterInv
  <2>3. bridge' = bridge
    BY <1>23 DEF CloseReceiver, Drop
  <2>4. Load' <= Load /\ Load' \in Nat
    BY <1>b, <1>c, <1>e, <1>f, <1>g, <2>1, <2>2, <2>3 DEF Load
  <2> QED
    BY <1>23, <1>h, <2>4 DEF CloseReceiver, Drop, Working
<1>24. CASE EmitFailed
  <2>1. Owed(wpc, after, pending)' + 1 <= Owed(wpc, after, pending)
    BY <1>24, OwedValues DEF EmitFailed, TypeOK, WriterPc, WriterInv
  <2>2. bridge' = bridge + 1 /\ Waiting' = Waiting
    BY <1>24, <1>d DEF EmitFailed, Emit
  <2>3. Load' <= Load /\ Load' \in Nat
    BY <1>b, <1>e, <1>f, <1>g, <2>1, <2>2 DEF Load
  <2> QED
    BY <1>24, <1>h, <2>3 DEF EmitFailed, WriterInv, Working
<1>25. CASE SignalTerminal
  <2>1. Owed(wpc, after, pending)' <= Owed(wpc, after, pending)
    BY <1>25, OwedValues DEF SignalTerminal, TypeOK, WriterPc, WriterInv
  <2>2. bridge' = bridge /\ Waiting' = Waiting
    BY <1>25, <1>d DEF SignalTerminal
  <2>3. Load' <= Load /\ Load' \in Nat
    BY <1>b, <1>e, <1>f, <1>g, <2>1, <2>2 DEF Load
  <2> QED
    BY <1>25, <1>h, <2>3 DEF SignalTerminal, WriterInv, Working
<1>26. CASE Fail
  <2>1. Load' = Load /\ wpc' = wpc /\ after' = after
    BY <1>26, <1>d DEF Fail, Load
  <2> QED
    BY <1>26, <1>g, <2>1 DEF Fail, LoadInv
<1>27. CASE FlushBeginFail
  <2>1. Waiting' \subseteq Waiting /\ Waiting' # Waiting
    <3>1. Range(pending) # {} /\ Range(pending) \subseteq Waiting
      BY <1>27, RangeOfEmpty DEF FlushBeginFail, Drop, Emit, TypeOK, Places, WriterInv
    <3>2. Waiting' \subseteq Waiting \ Range(pending)
      BY <1>27 DEF FlushBeginFail, Drop, Emit, TypeOK, Waiting
    <3> QED
      BY <3>1, <3>2
  <2>2. Owed(wpc, after, pending)' + 2 <= Owed(wpc, after, pending) + 5
    BY <1>27, OwedValues DEF FlushBeginFail, Drop, Emit, TypeOK, WriterPc, WriterInv
  <2>3. bridge' = bridge + 2
    BY <1>27 DEF FlushBeginFail, Drop, Emit
  <2>4. Load' <= Load /\ Load' \in Nat
    BY <1>b, <1>c, <1>e, <1>f, <1>g, <2>1, <2>2, <2>3 DEF Load
  <2> QED
    BY <1>27, <1>h, <2>4 DEF FlushBeginFail, Drop, Emit, Working
<1>28. CASE CheckpointFail
  <2>1. Waiting' \subseteq Waiting
    BY <1>28 DEF CheckpointFail, Drop, Emit, TypeOK, Waiting
  <2>2. Owed(wpc, after, pending)' + 1 <= Owed(wpc, after, pending)
    BY <1>28, OwedValues DEF CheckpointFail, Drop, Emit, TypeOK, WriterPc, WriterInv
  <2>3. bridge' = bridge + 1
    BY <1>28 DEF CheckpointFail, Drop, Emit
  <2>4. Load' <= Load /\ Load' \in Nat
    BY <1>b, <1>c, <1>e, <1>f, <1>g, <2>1, <2>2, <2>3 DEF Load
  <2> QED
    BY <1>28, <1>h, <2>4 DEF CheckpointFail, Drop, Emit, Working
<1>29. CASE StopFail
  <2>1. Owed(wpc, after, pending)' + 1 <= Owed(wpc, after, pending)
    BY <1>29, OwedValues DEF StopFail, TypeOK, WriterPc, WriterInv
  <2>2. bridge' = bridge + 1 /\ Waiting' = Waiting
    BY <1>29, <1>d DEF StopFail, Emit
  <2>3. Load' <= Load /\ Load' \in Nat
    BY <1>b, <1>e, <1>f, <1>g, <2>1, <2>2 DEF Load
  <2> QED
    BY <1>29, <1>h, <2>3 DEF StopFail, WriterInv, Working
<1>30. CASE Panic
  <2>1. Waiting' \subseteq Waiting
    BY <1>30 DEF Panic, Drop, TypeOK, Waiting
  <2>2. Owed(wpc, after, pending)' <= Owed(wpc, after, pending)
    BY <1>30, OwedValues DEF Panic, Drop, TypeOK, WriterPc, WriterInv
  <2>3. bridge' = bridge
    BY <1>30 DEF Panic, Drop
  <2>4. Load' <= Load /\ Load' \in Nat
    BY <1>b, <1>c, <1>e, <1>f, <1>g, <2>1, <2>2, <2>3 DEF Load
  <2> QED
    BY <1>30, <1>h, <2>4 DEF Panic, Drop, Working
<1>31. ASSUME NEW i \in DOMAIN pending, FlushRollback(i) PROVE LoadInv'
  <2>1. Waiting' \subseteq Waiting /\ Waiting' # Waiting
    <3>1. Range(pending) # {} /\ Range(pending) \subseteq Waiting
      BY <1>31, RangeOfEmpty DEF FlushRollback, RollbackNaming, Emit, TypeOK, Places, WriterInv
    <3>2. Waiting' \subseteq Waiting \ Range(pending)
      BY <1>31 DEF FlushRollback, RollbackNaming, Emit, TypeOK, Waiting
    <3> QED
      BY <3>1, <3>2
  <2>2. Owed(wpc, after, pending)' + 2 <= Owed(wpc, after, pending) + 5
    BY <1>31, OwedValues DEF FlushRollback, RollbackNaming, Emit, TypeOK, WriterPc, WriterInv
  <2>3. bridge' = bridge + 2
    BY <1>31 DEF FlushRollback, RollbackNaming, Emit
  <2>4. Load' <= Load /\ Load' \in Nat
    BY <1>b, <1>c, <1>e, <1>f, <1>g, <2>1, <2>2, <2>3 DEF Load
  <2> QED
    BY <1>31, <1>h, <2>4 DEF FlushRollback, RollbackNaming, Emit, Working
<1>32. CASE Deadline
  <2>1. Owed(wpc, after, pending)' <= Owed(wpc, after, pending)
    BY <1>32, OwedValues DEF Deadline, TypeOK, WriterPc, WriterInv
  <2>2. bridge' = bridge /\ Waiting' = Waiting
    BY <1>32, <1>d DEF Deadline
  <2>3. Load' <= Load /\ Load' \in Nat
    BY <1>b, <1>e, <1>f, <1>g, <2>1, <2>2 DEF Load
  <2> QED
    BY <1>32, <1>h, <2>3 DEF Deadline, WriterInv, Working
<1>33. CASE UNCHANGED vars
  BY <1>33, <1>d, <1>h, <1>g DEF vars, Load
<1> QED
  BY <1>1, <1>2, <1>3, <1>4, <1>5, <1>6, <1>7, <1>8, <1>9, <1>10, <1>11,
     <1>12, <1>13, <1>14, <1>15, <1>16, <1>17, <1>18, <1>19, <1>20, <1>21,
     <1>22, <1>23, <1>24, <1>25, <1>26, <1>27, <1>28, <1>29, <1>30, <1>31,
     <1>32, <1>33 DEF Next, Coordinator, Writer, Failures, Over

-----------------------------------------------------------------------------
(* An import starts with nothing sent, one event in the bridge and one      *)
(* owed.                                                                    *)
LEMMA ImportInit == Init => ImportInv
<1> SUFFICES ASSUME Init PROVE ImportInv
  OBVIOUS
<1>0. <<>> \in Seq(Requests) /\ 1 \in 0 .. BridgeCapacity
  BY SizesAssumption
<1>1. TypeOK
  BY <1>0 DEF Init, TypeOK, WriterPc, ClientPc
<1>2. Range(<<>>) = {} /\ IsInjective(<<>>)
  BY <1>0, RangeOfEmpty
<1>3. Waiting = {} /\ Cardinality(Waiting) = 0 /\ IsFiniteSet({})
  BY FS_EmptySet DEF Init, Waiting
<1>4. Places
  BY <1>2, <1>3 DEF Init, Places
<1>5. WriterInv /\ AnswerInv
  BY <1>2 DEF Init, WriterInv, AnswerInv
<1>6. TicketInv
  BY <1>3, FS_EmptySet, SizesAssumption DEF Init, TicketInv, Running
<1>7. LoadInv
  BY <1>3, OwedValues, SizesAssumption DEF Init, LoadInv, Load
<1> QED
  BY <1>1, <1>4, <1>5, <1>6, <1>7 DEF ImportInv

(* The invariant of an import, from which the theorems below are read off.  *)
THEOREM ImportCorrect == Spec => []ImportInv
<1>1. ImportInv /\ [Next]_vars => ImportInv'
  BY TypeStep, PlacesStep, WriterStep, AnswerStep, TicketStep, LoadStep DEF ImportInv
<1> QED
  BY <1>1, ImportInit, PTL DEF Spec

(* The writer and its coordinator stay within the shape the code gives      *)
(* their channels, batch, tickets and answers.                              *)
THEOREM TypesHold == Spec => []TypeOK
<1>1. ImportInv => TypeOK
  BY DEF ImportInv
<1> QED
  BY <1>1, ImportCorrect, PTL

(* Every answer flush_batch, the rejection and the unwinding give is the    *)
(* truth about the catalog, whatever fails and whenever it does.            *)
THEOREM AnswersAgreeWithCatalog == Spec => []AnswersAreTrue
<1>1. ImportInv => AnswersAreTrue
  <2> SUFFICES ASSUME ImportInv PROVE AnswersAreTrue
    OBVIOUS
  <2>1. \A q \in committed : answer[q] \in {"ok", "waiting"}
    BY DEF ImportInv, AnswerInv, Places, Waiting
  <2> QED
    BY <2>1 DEF ImportInv, AnswerInv, AnswersAreTrue
<1> QED
  BY <1>1, ImportCorrect, PTL

(* run_import returns success only with every record it submitted in the    *)
(* catalog and the writer stopped without an error.                         *)
THEOREM SuccessMeansComplete == Spec => []SuccessIsComplete
<1>1. ImportInv => SuccessIsComplete
  BY DEF ImportInv, TypeOK, AnswerInv, TicketInv, SuccessIsComplete
<1> QED
  BY <1>1, ImportCorrect, PTL

(* resolve_ticket finds the source of the failure that an error names among *)
(* the tickets it still holds.                                              *)
THEOREM BlameIsResolvable == Spec => []BlameResolvable
<1>1. ImportInv => BlameResolvable
  BY DEF ImportInv, TypeOK, AnswerInv, TicketInv, Running, BlameResolvable
<1> QED
  BY <1>1, ImportCorrect, PTL

(* The ticket limit keeps the request channel from filling, at every batch  *)
(* size below the channel's capacity.                                       *)
THEOREM ChannelNeverFills == Spec => []ChannelHasRoom
<1>1. ImportInv => ChannelHasRoom
  <2> SUFFICES ASSUME ImportInv PROVE ChannelHasRoom
    OBVIOUS
  <2>1. Range(queue) \in SUBSET tickets /\ IsFiniteSet(tickets)
    BY DEF ImportInv, Places, TicketInv
  <2>2. IsFiniteSet(Range(queue)) /\ Cardinality(Range(queue)) <= Cardinality(tickets)
    BY <2>1, FS_Subset
  <2>3. Len(queue) = Cardinality(Range(queue)) /\ Len(queue) \in Nat
    BY <2>2, LengthIsSize DEF ImportInv, TypeOK, Places
  <2>4. Cardinality(tickets) \in Nat /\ Cardinality(tickets) <= MaxBatch
    BY <2>1, FS_CardinalityType DEF ImportInv, TicketInv
  <2> QED
    BY <2>2, <2>3, <2>4, SizesAssumption DEF ChannelHasRoom
<1> QED
  BY <1>1, ImportCorrect, PTL

(* The writer never blocks on the event bridge, not even while the          *)
(* coordinator waits for it without draining, at every batch size for which *)
(* EVENT_BRIDGE_CAPACITY is large enough.                                   *)
THEOREM BridgeNeverFills == Spec => []BridgeHasRoom
<1>1. ImportInv => BridgeHasRoom
  <2> SUFFICES ASSUME ImportInv PROVE BridgeHasRoom
    OBVIOUS
  <2>1. Cardinality(Waiting) \in Nat
    BY FS_Subset, FS_CardinalityType DEF ImportInv, TicketInv
  <2>2. Owed(wpc, after, pending) \in Nat
    BY OwedValues DEF ImportInv, TypeOK, WriterPc
  <2>3. bridge \in Nat /\ Load <= 5 * MaxBatch + 4
    BY SizesAssumption DEF ImportInv, TypeOK, LoadInv
  <2> QED
    BY <2>1, <2>2, <2>3, SizesAssumption DEF Load, BridgeHasRoom
<1> QED
  BY <1>1, ImportCorrect, PTL
=============================================================================
