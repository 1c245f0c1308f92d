-------------------------- MODULE TelemetryProofs --------------------------
(***************************************************************************)
(* What the reporting boundary keeps true, for every set of workers and    *)
(* counters, every inbox and every number of events that satisfy the       *)
(* assumptions of Telemetry.                                               *)
(*                                                                         *)
(* An event handed to emit is in one place until it is rendered: in the    *)
(* hands of its thread, in a side buffer or in the inbox.  A healthy       *)
(* renderer loses none, and a renderer that is gone has failed as long as  *)
(* anybody may still send.                                                 *)
(***************************************************************************)
EXTENDS Telemetry, FiniteSetTheorems, SequenceTheorems, TLAPS

Pcs == {"run", "emit", "deltas", "failures", "gauges", "send", "count", "gauge", "failure",
        "block", "drain_deltas", "drain_failures", "drain_gauges", "drop", "join"}
Draining == {"drain_deltas", "drain_failures", "drain_gauges"}
WorkerStages == {"unborn", "idle", "reading", "staged", "hashed", "failed", "failed_out", "left"}
OwnerStages == {"start", "work", "report", "summary", "close", "closing", "closed"}
Returned == {"report", "summary", "close", "closing", "closed"}

(* What the fields of an event are, by its class. *)
Proper(e) ==
  /\ e \in Events
  /\ e.kind = "failure" => e.n \in Workers
  /\ e.kind \in {"gauge", "fact", "terminal"} => e.n \in Nat
  /\ e.kind # "count" => e.amounts = Zero

(* The types TypeOK leaves open, and that every event is a proper one. *)
Shape ==
  /\ pc \in [Threads -> Pcs] /\ stage \in [Threads -> WorkerStages \cup OwnerStages]
  /\ rpc \in {"recv", "broken", "panicked", "finish", "exited"}
  /\ jobs \in Nat /\ facts \in Nat /\ jsonl \in BOOLEAN /\ fault \in BOOLEAN
  /\ outcome \in {"none", "report", "error"}
  /\ shown \in [counts : [Counters -> Nat], gauge : Nat, facts : Seq(Nat),
                failures : SUBSET Workers, terminal : BOOLEAN]
  /\ emitted \in [counts : [Counters -> Nat], facts : SUBSET Nat]
  /\ \A i \in DOMAIN inbox : Proper(inbox[i])
  /\ \A i \in DOMAIN failures : Proper(failures[i]) /\ failures[i].kind = "failure"
  /\ \A t \in Threads : Proper(cur[t])

(* Where a worker is in emit, given what it emits and where its work is.    *)
WorkerInv ==
  \A w \in Workers :
    /\ stage[w] \in WorkerStages
    /\ pc[w] \in {"run", "emit", "deltas", "failures", "gauges", "send", "count", "gauge",
                  "failure"}
    /\ pc[w] # "run" => cur[w].kind \in {"count", "gauge", "failure"}
    /\ pc[w] \in {"count", "gauge", "failure"} => cur[w].kind = pc[w]
    /\ pc[w] # "run" /\ cur[w].kind = "failure" => stage[w] = "failed" /\ cur[w].n = w
    /\ stage[Owner] = "start" => stage[w] = "unborn" /\ pc[w] = "run"
    /\ stage[Owner] \in Returned => Gone(w)

(* The same of the owner. *)
OwnerInv ==
  /\ stage[Owner] \in OwnerStages
  /\ stage[Owner] \in {"start", "report", "closed"} => pc[Owner] = "run"
  /\ stage[Owner] = "closing" => pc[Owner] \in Draining \cup {"drop", "join"}
  /\ pc[Owner] \in {"drop", "join"} => stage[Owner] = "closing"
  /\ pc[Owner] \in Draining => stage[Owner] \in {"close", "closing"}
  /\ pc[Owner] \notin {"gauge", "failure"}
  /\ pc[Owner] = "count" => cur[Owner].kind = "count"
  /\ pc[Owner] = "block" => cur[Owner].kind \in {"fact", "terminal"}
  /\ pc[Owner] # "run" /\ stage[Owner] # "closing" =>
       /\ cur[Owner].kind \in {"count", "fact", "terminal"}
       /\ cur[Owner].kind = "terminal" <=> stage[Owner] = "close"
  /\ stage[Owner] = "close" => jsonl
  /\ sender = "closed" <=> pc[Owner] = "join" \/ stage[Owner] = "closed"
  /\ exit # "none" => stage[Owner] = "closed"
  /\ stage[Owner] = "closed" => rpc \in {"exited", "panicked"}

(* The readers counted are the workers between two samples. *)
Reading == {w \in Workers : stage[w] \in {"reading", "staged", "hashed", "failed"}}
ReadersInv == readers = Cardinality(Reading)

(* A worker fails once, so the side buffer holds each failure once, and     *)
(* none that is still in the hands of its worker.                           *)
FailuresInv ==
  /\ \A i \in DOMAIN failures :
       LET w == failures[i].n
       IN  /\ stage[w] \in {"failed", "failed_out"}
           /\ pc[w] # "run" => cur[w].kind # "failure"
  /\ \A i, j \in DOMAIN failures : failures[i].n = failures[j].n => i = j

(* A renderer that is gone while somebody may send has failed, and a        *)
(* failure of it is known to the transport, at the latest once joined.      *)
HealthInv ==
  /\ failed => fault
  /\ receiver <=> rpc \in {"recv", "broken"}
  /\ ~receiver => fault \/ sender = "closed"
  /\ fault => failed \/ rpc = "panicked"
  /\ rpc \in {"broken", "panicked"} => fault
  /\ stage[Owner] = "closed" /\ rpc = "panicked" => failed
  /\ exit \in {"success", "findings"} => ~fault

BoundaryInv == TypeOK /\ Shape /\ WorkerInv /\ OwnerInv /\ ReadersInv /\ FailuresInv /\ HealthInv

-----------------------------------------------------------------------------
(* The amounts on their way to the renderer. *)

(* b is a plus the amounts of counter k in the events of q: the partial     *)
(* sums are a function that starts with a and ends with b.                  *)
Sums(q, k, a, b) ==
  \E S \in [Nat -> Nat] :
    /\ S[0] = a /\ S[Len(q)] = b
    /\ \A i \in 1 .. Len(q) : S[i] = S[i - 1] + q[i].amounts[k]

(* The threads that have a count of k in their hands. *)
Carrying == {"emit", "deltas", "failures", "gauges", "send", "count"}
Carriers(k) ==
  {t \in Threads : pc[t] \in Carrying /\ cur[t].kind = "count" /\ cur[t].amounts[k] = 1}

(* What was handed to emit and is not rendered is in the inbox, in the side *)
(* buffer or in the hands of a thread.                                      *)
Balanced(k) ==
  \E b \in Nat : /\ Sums(inbox, k, shown.counts[k], b)
                 /\ emitted.counts[k] = b + deltas[k] + Cardinality(Carriers(k))
BalanceInv == \A k \in Counters : Balanced(k)

(* No event of a thread adds more than one to a counter; what the side      *)
(* buffer merges does.                                                      *)
Single(e) == \A k \in Counters : e.amounts[k] \in {0, 1}
UnitInv == \A t \in Threads : Single(cur[t])

(* Facts shown, s, and facts in the inbox, q, are in the order of their     *)
(* numbers, and all of them come before number m.                           *)
Ordered(s, q) ==
  /\ \A i, j \in DOMAIN s : i < j => s[i] < s[j]
  /\ \A i \in DOMAIN s, j \in DOMAIN q : IsFact(q[j]) => s[i] < q[j].n
  /\ \A i, j \in DOMAIN q : i < j /\ IsFact(q[i]) /\ IsFact(q[j]) => q[i].n < q[j].n
Before(s, q, m) ==
  /\ \A i \in DOMAIN s : s[i] < m
  /\ \A i \in DOMAIN q : IsFact(q[i]) => q[i].n < m

(* The owner has a fact in its hands, which comes after the ones it sent.   *)
HasFact == pc[Owner] # "run" /\ stage[Owner] # "closing" /\ IsFact(cur[Owner])
FactsInv ==
  /\ Ordered(shown.facts, inbox) /\ Before(shown.facts, inbox, facts + 1)
  /\ HasFact => cur[Owner].n < facts + 1 /\ Before(shown.facts, inbox, cur[Owner].n)

(* An event of a set is in a sequence. *)
Has(q, X) == \E i \in DOMAIN q : q[i] \in X

(* A fact that was handed to emit is shown, in the inbox or in the hands of *)
(* the owner, and no other fact is.                                         *)
FactsOf(n) == {e \in Events : IsFact(e) /\ e.n = n}
IsShown(n) == \E i \in DOMAIN shown.facts : shown.facts[i] = n
Lossless(n) ==
  n \in emitted.facts <=>
    IsShown(n) \/ Has(inbox, FactsOf(n)) \/ (HasFact /\ cur[Owner].n = n)
LosslessInv == \A n \in Nat : Lossless(n)

(* The terminal record is shown or in the inbox once it is delivered, and   *)
(* never when there is none.                                                *)
Terminals == {e \in Events : e.kind = "terminal"}
Queued == Has(inbox, Terminals)
Delivered ==
  \/ stage[Owner] \in {"closing", "closed"}
  \/ stage[Owner] = "close" /\ pc[Owner] = "run"
TerminalInv ==
  /\ shown.terminal \/ Queued => jsonl
  /\ jsonl /\ Delivered => shown.terminal \/ Queued

(* A worker's failure is shown or sent only after it happened, and is never *)
(* lost on its way.                                                         *)
FailuresOf(w) == {e \in Events : e.kind = "failure" /\ e.n = w}
Sent(w) == Has(inbox, FailuresOf(w))
Aside(w) == Has(failures, FailuresOf(w))
InHand(w) == pc[w] # "run" /\ cur[w].kind = "failure"
Failed == {"failed", "failed_out"}
Reported(w) ==
  /\ w \in shown.failures \/ Sent(w) => stage[w] \in Failed
  /\ stage[w] \in Failed => w \in shown.failures \/ Sent(w) \/ Aside(w) \/ InHand(w)
ReportedInv == \A w \in Workers : Reported(w)

(* What close has drained stays empty, and a healthy renderer leaves        *)
(* nothing in the inbox.                                                    *)
Past(p) ==
  \/ stage[Owner] = "closed"
  \/ stage[Owner] = "closing" /\ pc[Owner] \notin p
DrainedInv ==
  /\ Past({"drain_deltas"}) => deltas = Zero
  /\ Past({"drain_deltas", "drain_failures"}) => failures = <<>>
  /\ rpc \in {"finish", "exited"} => inbox = <<>>

(* The invariant of a renderer that never failed. *)
RenderedInv ==
  ~fault => /\ UnitInv /\ BalanceInv /\ FactsInv /\ LosslessInv /\ TerminalInv /\ ReportedInv
            /\ DrainedInv
-----------------------------------------------------------------------------
(* Events, sequences of them and the steps of emit. *)

(* Every event is what its class says. *)
LEMMA EventsAreProper ==
  /\ Zero \in [Counters -> Nat] /\ \A k \in Counters : Zero[k] = 0
  /\ \A a \in [Counters -> Nat] :
       Proper(Count(a)) /\ Count(a).kind = "count" /\ Count(a).amounts = a
  /\ \A n \in Nat :
       /\ Proper(Gauge(n)) /\ Gauge(n).kind = "gauge" /\ Gauge(n).amounts = Zero
       /\ Proper(Fact(n)) /\ Fact(n).kind = "fact" /\ Fact(n).amounts = Zero
       /\ Proper(Terminal(n)) /\ Terminal(n).kind = "terminal" /\ Terminal(n).amounts = Zero
       /\ Gauge(n).n = n /\ Fact(n).n = n /\ Terminal(n).n = n
  /\ \A w \in Workers : Proper(Failure(w)) /\ Failure(w).kind = "failure" /\ Failure(w).n = w
                        /\ Failure(w).amounts = Zero
  BY DEF Zero, Proper, Count, Gauge, Fact, Terminal, Failure, Event, Events, Kinds

(* Amounts stay amounts, and one counter alone has its own amount. *)
LEMMA AmountsAreNatural ==
  /\ \A f, g \in [Counters -> Nat] :
       Plus(f, g) \in [Counters -> Nat] /\ \A k \in Counters : Plus(f, g)[k] = f[k] + g[k]
  /\ \A k : Only(k, 1) \in [Counters -> {0, 1}] /\ Only(k, 1) \in [Counters -> Nat]
<1>1. ASSUME NEW k PROVE Only(k, 1) \in [Counters -> {0, 1}]
  BY DEF Only, Zero
<1>2. ASSUME NEW k PROVE Only(k, 1) \in [Counters -> Nat]
  BY DEF Only, Zero
<1>3. ASSUME NEW f \in [Counters -> Nat], NEW g \in [Counters -> Nat]
      PROVE  Plus(f, g) \in [Counters -> Nat] /\ \A k \in Counters : Plus(f, g)[k] = f[k] + g[k]
  BY DEF Plus
<1> QED
  BY <1>1, <1>2, <1>3

(* The merged amount of one counter is a proper event, whichever counter    *)
(* it is.                                                                   *)
LEMMA MergedAmounts ==
  ASSUME NEW d \in [Counters -> Nat], NEW k
  PROVE  /\ Only(k, d[k]) \in [Counters -> Nat]
         /\ \A j \in Counters : Only(k, d[k])[j] = IF j = k THEN d[j] ELSE 0
         /\ [d EXCEPT ![k] = 0] \in [Counters -> Nat]
         /\ \A j \in Counters : [d EXCEPT ![k] = 0][j] = IF j = k THEN 0 ELSE d[j]
  BY DEF Only, Zero

(* A sequence with an event appended. *)
LEMMA AppendFacts ==
  ASSUME NEW S, NEW s \in Seq(S), NEW e \in S
  PROVE  /\ Append(s, e) \in Seq(S) /\ Len(Append(s, e)) = Len(s) + 1
         /\ DOMAIN Append(s, e) = 1 .. Len(s) + 1 /\ DOMAIN s = 1 .. Len(s)
         /\ Len(s) \in Nat
         /\ \A i \in 1 .. Len(s) : Append(s, e)[i] = s[i]
         /\ Append(s, e)[Len(s) + 1] = e
  OBVIOUS

(* A sequence without its head. *)
LEMMA TailFacts ==
  ASSUME NEW S, NEW s \in Seq(S), s # <<>>
  PROVE  /\ Tail(s) \in Seq(S) /\ Len(Tail(s)) = Len(s) - 1
         /\ DOMAIN Tail(s) = 1 .. Len(s) - 1 /\ DOMAIN s = 1 .. Len(s)
         /\ Len(s) \in Nat /\ Len(s) >= 1
         /\ Head(s) = s[1] /\ Head(s) \in S
         /\ \A i \in 1 .. Len(s) - 1 : Tail(s)[i] = s[i + 1]
  OBVIOUS

(* The three outcomes of try_send. *)
LEMMA TrySendCases ==
  ASSUME NEW t, TrySend(t)
  PROVE  /\ pc[t] = "send"
         /\ UNCHANGED <<sender, receiver, deltas, failures, gauge, lock, cur, renderer, work,
                        emitted>>
         /\ \/ ~receiver /\ Disconnected /\ Goto(t, "run")
            \/ receiver /\ Room /\ Deliver(cur[t]) /\ Goto(t, "run")
            \/ /\ receiver /\ ~Room /\ UNCHANGED <<inbox, failed>>
               /\ cur[t].kind \in {"fact", "terminal"} /\ Goto(t, "block")
            \/ /\ receiver /\ ~Room /\ UNCHANGED <<inbox, failed>>
               /\ cur[t].kind \notin {"fact", "terminal"} /\ Goto(t, cur[t].kind)
  BY DEF TrySend, IsFact

(* A worker that has a failure to put aside finds a place for it.           *)
LEMMA FailureSlotLeft ==
  ASSUME TypeOK, Shape, WorkerInv, FailuresInv, NEW w \in Workers, pc[w] = "failure"
  PROVE  Len(failures) < FailureSlots
<1> DEFINE f == [i \in 1 .. Len(failures) |-> failures[i].n]
<1>1. Len(failures) \in Nat /\ DOMAIN failures = 1 .. Len(failures)
  BY DEF TypeOK
<1>2. \A i \in 1 .. Len(failures) : failures[i].n \in Workers \ {w}
  <2> TAKE i \in 1 .. Len(failures)
  <2>1. failures[i].n \in Workers
    BY <1>1 DEF Shape, Proper
  <2>2. pc[failures[i].n] # "run" => cur[failures[i].n].kind # "failure"
    BY <1>1 DEF FailuresInv
  <2>3. cur[w].kind = "failure"
    BY DEF WorkerInv
  <2> QED
    BY <2>1, <2>2, <2>3
<1>3. f \in Injection(1 .. Len(failures), Workers \ {w})
  BY <1>1, <1>2 DEF Injection, IsInjective, FailuresInv
<1>4. /\ IsFiniteSet(Workers \ {w}) /\ Cardinality(Workers \ {w}) = Cardinality(Workers) - 1
      /\ Cardinality(Workers) \in Nat
  BY SizesAssumption, FS_RemoveElement, FS_CardinalityType
<1>5. Cardinality(1 .. Len(failures)) <= Cardinality(Workers \ {w})
  BY <1>3, <1>4, FS_Injection
<1>6. Cardinality(1 .. Len(failures)) = Len(failures)
  <2>1. 1 \in Int /\ Len(failures) \in Int
    BY <1>1
  <2>2. Cardinality(1 .. Len(failures)) =
          IF 1 > Len(failures) THEN 0 ELSE Len(failures) - 1 + 1
    BY <2>1, FS_Interval, Zenon
  <2> QED
    BY <1>1, <2>2
<1> QED
  BY <1>1, <1>4, <1>5, <1>6, SizesAssumption

-----------------------------------------------------------------------------
(* Every step keeps the invariant of the threads and of the renderer.       *)

(* Every step leaves every worker where its work and its event say.          *)
LEMMA WorkerStepInv ==
  ASSUME TypeOK, Shape, WorkerInv, OwnerInv, FailuresInv, [Next]_vars
  PROVE  WorkerInv'
<1>0. /\ pc \in [Threads -> Pcs] /\ stage \in [Threads -> WorkerStages \cup OwnerStages]
      /\ cur \in [Threads -> Events] /\ Owner \in Threads /\ Owner \notin Workers
      /\ \A w \in Workers : w \in Threads /\ w # Owner
  BY ThreadsAssumption DEF TypeOK, Shape, Threads
<1>1. ASSUME NEW t \in Threads, EmitStart(t) PROVE WorkerInv'
  BY <1>1, <1>0
     DEF EmitStart, Goto, ToDeltas, ToFailures, ToGauges, transport, renderer, work, vars,
         WorkerInv, Gone
<1>2. ASSUME NEW t \in Threads, FlushDelta(t) PROVE WorkerInv'
  BY <1>2, <1>0
     DEF FlushDelta, Release, Hold, Goto, Deliver, Disconnected, ToFailures, ToGauges, Room,
         May, transport, renderer, work, vars, WorkerInv, Gone, Draining
<1>3. ASSUME NEW t \in Threads, FlushFailure(t) PROVE WorkerInv'
  BY <1>3, <1>0
     DEF FlushFailure, Release, Hold, Goto, Deliver, Disconnected, ToGauges, Room, May,
         transport, renderer, work, vars, WorkerInv, Gone
<1>4. ASSUME NEW t \in Threads, FlushGauge(t) PROVE WorkerInv'
  BY <1>4, <1>0
     DEF FlushGauge, Goto, Deliver, Disconnected, Room, May, transport, renderer, work, vars,
         WorkerInv, Gone
<1>5. ASSUME NEW t \in Threads, TrySend(t) PROVE WorkerInv'
  <2> SUFFICES ASSUME NEW w \in Workers
               PROVE  /\ pc'[w] = pc[w] \/ /\ pc'[w] = "run" \/ pc'[w] = cur[w].kind
                                           /\ pc[w] = "send"
                      /\ UNCHANGED <<stage, cur>>
    BY <1>0 DEF WorkerInv, Gone
  <2>1. CASE w = t
    BY <1>5, TrySendCases, <1>0, <2>1 DEF Goto, work, WorkerInv
  <2>2. CASE w # t
    BY <1>5, TrySendCases, <1>0, <2>2 DEF Goto, work
  <2> QED
    BY <2>1, <2>2
<1>6. ASSUME NEW t \in Threads, CoalesceCount(t) PROVE WorkerInv'
  BY <1>6, <1>0 DEF CoalesceCount, Goto, transport, renderer, work, vars, WorkerInv, Gone
<1>7. ASSUME NEW t \in Threads, CoalesceGauge(t) PROVE WorkerInv'
  BY <1>7, <1>0 DEF CoalesceGauge, Goto, transport, renderer, work, vars, WorkerInv, Gone
<1>8. ASSUME NEW t \in Threads, CoalesceFailure(t) PROVE WorkerInv'
  BY <1>8, <1>0, FailureSlotLeft
     DEF CoalesceFailure, Goto, transport, renderer, work, vars, WorkerInv, Gone
<1>9. ASSUME NEW t \in Threads, BlockingSend(t) PROVE WorkerInv'
  BY <1>9, <1>0
     DEF BlockingSend, Goto, Deliver, Disconnected, Room, transport, renderer, work, vars,
         WorkerInv, Gone, OwnerInv
<1>10. ASSUME NEW t \in Threads, DrainDelta(t) PROVE WorkerInv'
  BY <1>10, <1>0
     DEF DrainDelta, Release, Hold, Goto, Deliver, Disconnected, AfterDrain, Closing, Room,
         transport, renderer, work, vars, WorkerInv, Gone
<1>11. ASSUME NEW t \in Threads, DrainFailure(t) PROVE WorkerInv'
  BY <1>11, <1>0
     DEF DrainFailure, Release, Hold, Goto, Deliver, Disconnected, AfterDrain, Closing, Room,
         transport, renderer, work, vars, WorkerInv, Gone
<1>12. ASSUME NEW t \in Threads, DrainGauge(t) PROVE WorkerInv'
  BY <1>12, <1>0
     DEF DrainGauge, Goto, Deliver, Disconnected, AfterDrain, Closing, Room, transport,
         renderer, work, vars, WorkerInv, Gone
<1>13. ASSUME NEW w \in Workers, Take(w) PROVE WorkerInv'
  BY <1>13, <1>0
     DEF Take, Call, Goto, transport, renderer, work, vars, WorkerInv, Gone, Gauge, Event,
         WorkerStages, Returned
<1>14. ASSUME NEW w \in Workers, Chunk(w) PROVE WorkerInv'
  BY <1>14, <1>0
     DEF Chunk, Call, Goto, transport, renderer, work, vars, WorkerInv, Gone, Count, Event,
         WorkerStages, Returned
<1>15. ASSUME NEW w \in Workers, Hashed(w) PROVE WorkerInv'
  BY <1>15, <1>0
     DEF Hashed, Call, Goto, transport, renderer, work, vars, WorkerInv, Gone, Count, Event,
         WorkerStages, Returned
<1>16. ASSUME NEW w \in Workers, WorkFailed(w) PROVE WorkerInv'
  BY <1>16, <1>0
     DEF WorkFailed, Call, Goto, transport, renderer, work, vars, WorkerInv, Gone, Failure,
         Event, WorkerStages, Returned
<1>17. ASSUME NEW w \in Workers, Decrement(w) PROVE WorkerInv'
  BY <1>17, <1>0
     DEF Decrement, Call, Goto, transport, renderer, work, vars, WorkerInv, Gone, Gauge,
         Event, WorkerStages, Returned
<1>18. ASSUME NEW w \in Workers, Leave(w) PROVE WorkerInv'
  BY <1>18, <1>0
     DEF Leave, transport, renderer, work, vars, WorkerInv, Gone, WorkerStages, Returned
<1>19. ASSUME Started PROVE WorkerInv'
  BY <1>19, <1>0
     DEF Started, Call, Goto, NextFact, transport, renderer, work, vars, WorkerInv, Gone,
         WorkerStages, Returned
<1>20. ASSUME OwnerEmits PROVE WorkerInv'
  BY <1>20, <1>0
     DEF OwnerEmits, Call, Goto, NextFact, transport, renderer, work, vars, WorkerInv, Gone
<1>21. ASSUME CommandReturns PROVE WorkerInv'
  BY <1>21, <1>0
     DEF CommandReturns, OwnerGo, transport, renderer, work, vars, WorkerInv, Gone, Returned
<1>22. ASSUME Finished PROVE WorkerInv'
  BY <1>22, <1>0
     DEF Finished, Call, Goto, NextFact, OwnerGo, transport, renderer, work, vars, WorkerInv,
         Gone, Returned
<1>23. ASSUME Summary PROVE WorkerInv'
  BY <1>23, <1>0
     DEF Summary, Call, Goto, NextFact, OwnerGo, transport, renderer, work, vars, WorkerInv,
         Gone, Returned
<1>24. ASSUME Close PROVE WorkerInv'
  BY <1>24, <1>0
     DEF Close, Goto, OwnerGo, transport, renderer, work, vars, WorkerInv, Gone, Returned
<1>25. ASSUME DropSender PROVE WorkerInv'
  BY <1>25, <1>0 DEF DropSender, Goto, transport, renderer, work, vars, WorkerInv, Gone
<1>26. ASSUME Join PROVE WorkerInv'
  BY <1>26, <1>0
     DEF Join, Goto, OwnerGo, transport, renderer, work, vars, WorkerInv, Gone, Returned,
         OwnerInv
<1>27. ASSUME Exit PROVE WorkerInv'
  BY <1>27, <1>0 DEF Exit, transport, renderer, work, vars, WorkerInv, Gone
<1>28. ASSUME Render PROVE WorkerInv'
  BY <1>28, <1>0 DEF Render, transport, renderer, work, vars, WorkerInv, Gone
<1>29. ASSUME RenderFails PROVE WorkerInv'
  BY <1>29, <1>0 DEF RenderFails, transport, renderer, work, vars, WorkerInv, Gone
<1>30. ASSUME RenderPanics PROVE WorkerInv'
  BY <1>30, <1>0 DEF RenderPanics, transport, renderer, work, vars, WorkerInv, Gone
<1>31. ASSUME LeaveLoop PROVE WorkerInv'
  BY <1>31, <1>0 DEF LeaveLoop, transport, renderer, work, vars, WorkerInv, Gone
<1>32. ASSUME RenderFinish PROVE WorkerInv'
  BY <1>32, <1>0 DEF RenderFinish, transport, renderer, work, vars, WorkerInv, Gone
<1>33. CASE UNCHANGED vars
  BY <1>33, <1>0 DEF WorkerInv, Gone, transport, renderer, work, vars
<1> QED
  BY <1>1, <1>2, <1>3, <1>4, <1>5, <1>6, <1>7, <1>8, <1>9, <1>10, <1>11, <1>12, <1>13,
     <1>14, <1>15, <1>16, <1>17, <1>18, <1>19, <1>20, <1>21, <1>22, <1>23, <1>24, <1>25,
     <1>26, <1>27, <1>28, <1>29, <1>30, <1>31, <1>32, <1>33
     DEF Next, WorkerStep, OwnerStep, RendererStep, Transport, Done, Threads

(* As long as a thread is in emit, or drains, the sender is there.          *)
LEMMA SenderIsOpen ==
  ASSUME TypeOK, Shape, WorkerInv, OwnerInv, NEW t \in Threads, pc[t] \notin {"run", "join"}
  PROVE  sender = "open" /\ stage[Owner] # "closed" /\ exit = "none"
<1>1. CASE t = Owner
  BY <1>1 DEF TypeOK, OwnerInv
<1>2. CASE t \in Workers
  <2>1. stage[Owner] \notin {"closing", "closed"}
    BY <1>2 DEF WorkerInv, Gone, Returned
  <2> QED
    BY <2>1 DEF TypeOK, OwnerInv
<1> QED
  BY <1>1, <1>2 DEF Threads


(* Every step leaves the owner where its command and its event say.          *)
LEMMA OwnerStepInv ==
  ASSUME TypeOK, Shape, WorkerInv, OwnerInv, [Next]_vars
  PROVE  OwnerInv'
<1>0. /\ pc \in [Threads -> Pcs] /\ stage \in [Threads -> WorkerStages \cup OwnerStages]
      /\ cur \in [Threads -> Events] /\ Owner \in Threads /\ Owner \notin Workers
      /\ \A w \in Workers : w \in Threads /\ w # Owner
  BY ThreadsAssumption DEF TypeOK, Shape, Threads
<1>1. ASSUME NEW t \in Threads, EmitStart(t) PROVE OwnerInv'
  BY <1>1, <1>0
     DEF EmitStart, Goto, ToDeltas, ToFailures, ToGauges, transport, renderer, work, vars,
         OwnerInv, Draining, OwnerStages
<1>2. ASSUME NEW t \in Threads, FlushDelta(t) PROVE OwnerInv'
  BY <1>2, <1>0
     DEF FlushDelta, Release, Hold, Goto, Deliver, Disconnected, ToFailures, ToGauges, Room,
         May, transport, renderer, work, vars, OwnerInv, Draining, OwnerStages
<1>3. ASSUME NEW t \in Threads, FlushFailure(t) PROVE OwnerInv'
  BY <1>3, <1>0
     DEF FlushFailure, Release, Hold, Goto, Deliver, Disconnected, ToGauges, Room, May,
         transport, renderer, work, vars, OwnerInv, Draining, OwnerStages
<1>4. ASSUME NEW t \in Threads, FlushGauge(t) PROVE OwnerInv'
  BY <1>4, <1>0
     DEF FlushGauge, Goto, Deliver, Disconnected, Room, May, transport, renderer, work, vars,
         OwnerInv, Draining, OwnerStages
<1>5. ASSUME NEW t \in Threads, TrySend(t) PROVE OwnerInv'
  <2>0. UNCHANGED <<sender, stage, cur, jsonl, exit, rpc>>
    BY <1>5, TrySendCases DEF work, renderer
  <2>1. CASE t # Owner
    <3>1. pc'[Owner] = pc[Owner]
      BY <1>5, TrySendCases, <1>0, <2>1 DEF Goto
    <3> QED
      BY <2>0, <3>1 DEF OwnerInv
  <2>2. CASE t = Owner
    <3>1. /\ pc[Owner] = "send"
          /\ \/ pc'[Owner] = "run"
             \/ cur[Owner].kind \in {"fact", "terminal"} /\ pc'[Owner] = "block"
             \/ cur[Owner].kind \notin {"fact", "terminal"} /\ pc'[Owner] = cur[Owner].kind
      BY <1>5, TrySendCases, <1>0, <2>2 DEF Goto
    <3> QED
      BY <2>0, <3>1 DEF OwnerInv, Draining
  <2> QED
    BY <2>1, <2>2
<1>6. ASSUME NEW t \in Threads, CoalesceCount(t) PROVE OwnerInv'
  BY <1>6, <1>0
     DEF CoalesceCount, Goto, transport, renderer, work, vars, OwnerInv, Draining,
         OwnerStages
<1>7. ASSUME NEW t \in Threads, CoalesceGauge(t) PROVE OwnerInv'
  BY <1>7, <1>0
     DEF CoalesceGauge, Goto, transport, renderer, work, vars, OwnerInv, Draining,
         OwnerStages, WorkerInv
<1>8. ASSUME NEW t \in Threads, CoalesceFailure(t) PROVE OwnerInv'
  BY <1>8, <1>0
     DEF CoalesceFailure, Goto, transport, renderer, work, vars, OwnerInv, Draining,
         OwnerStages, WorkerInv
<1>9. ASSUME NEW t \in Threads, BlockingSend(t) PROVE OwnerInv'
  BY <1>9, <1>0
     DEF BlockingSend, Goto, Deliver, Disconnected, Room, transport, renderer, work, vars,
         OwnerInv, Draining, OwnerStages, WorkerInv
<1>10. ASSUME NEW t \in Threads, DrainDelta(t) PROVE OwnerInv'
  BY <1>10, <1>0
     DEF DrainDelta, Release, Hold, Goto, Deliver, Disconnected, AfterDrain, Closing, Room,
         transport, renderer, work, vars, OwnerInv, Draining, OwnerStages
<1>11. ASSUME NEW t \in Threads, DrainFailure(t) PROVE OwnerInv'
  BY <1>11, <1>0
     DEF DrainFailure, Release, Hold, Goto, Deliver, Disconnected, AfterDrain, Closing, Room,
         transport, renderer, work, vars, OwnerInv, Draining, OwnerStages
<1>12. ASSUME NEW t \in Threads, DrainGauge(t) PROVE OwnerInv'
  BY <1>12, <1>0
     DEF DrainGauge, Goto, Deliver, Disconnected, AfterDrain, Closing, Room, transport,
         renderer, work, vars, OwnerInv, Draining, OwnerStages
<1>13. ASSUME NEW w \in Workers, Take(w) PROVE OwnerInv'
  BY <1>13, <1>0
     DEF Take, Call, Goto, transport, renderer, work, vars, OwnerInv, Draining, OwnerStages,
         WorkerStages
<1>14. ASSUME NEW w \in Workers, Chunk(w) PROVE OwnerInv'
  BY <1>14, <1>0
     DEF Chunk, Call, Goto, transport, renderer, work, vars, OwnerInv, Draining, OwnerStages,
         WorkerStages
<1>15. ASSUME NEW w \in Workers, Hashed(w) PROVE OwnerInv'
  BY <1>15, <1>0
     DEF Hashed, Call, Goto, transport, renderer, work, vars, OwnerInv, Draining, OwnerStages,
         WorkerStages
<1>16. ASSUME NEW w \in Workers, WorkFailed(w) PROVE OwnerInv'
  BY <1>16, <1>0
     DEF WorkFailed, Call, Goto, transport, renderer, work, vars, OwnerInv, Draining,
         OwnerStages, WorkerStages
<1>17. ASSUME NEW w \in Workers, Decrement(w) PROVE OwnerInv'
  BY <1>17, <1>0
     DEF Decrement, Call, Goto, transport, renderer, work, vars, OwnerInv, Draining,
         OwnerStages, WorkerStages
<1>18. ASSUME NEW w \in Workers, Leave(w) PROVE OwnerInv'
  BY <1>18, <1>0
     DEF Leave, transport, renderer, work, vars, OwnerInv, Draining, OwnerStages,
         WorkerStages
<1>19. ASSUME Started PROVE OwnerInv'
  BY <1>19, <1>0
     DEF Started, Call, Goto, NextFact, transport, renderer, work, vars, OwnerInv, Draining,
         OwnerStages, Fact, Event
<1>20. ASSUME OwnerEmits PROVE OwnerInv'
  BY <1>20, <1>0
     DEF OwnerEmits, Call, Goto, NextFact, transport, renderer, work, vars, OwnerInv,
         Draining, OwnerStages, Fact, Count, Event
<1>21. ASSUME CommandReturns PROVE OwnerInv'
  BY <1>21, <1>0
     DEF CommandReturns, OwnerGo, transport, renderer, work, vars, OwnerInv, Draining,
         OwnerStages
<1>22. ASSUME Finished PROVE OwnerInv'
  BY <1>22, <1>0
     DEF Finished, Call, Goto, NextFact, OwnerGo, transport, renderer, work, vars, OwnerInv,
         Draining, OwnerStages, Fact, Event
<1>23. ASSUME Summary PROVE OwnerInv'
  BY <1>23, <1>0
     DEF Summary, Call, Goto, NextFact, OwnerGo, transport, renderer, work, vars, OwnerInv,
         Draining, OwnerStages, Terminal, Event
<1>24. ASSUME Close PROVE OwnerInv'
  BY <1>24, <1>0
     DEF Close, Goto, OwnerGo, transport, renderer, work, vars, OwnerInv, Draining,
         OwnerStages
<1>25. ASSUME DropSender PROVE OwnerInv'
  BY <1>25, <1>0
     DEF DropSender, Goto, transport, renderer, work, vars, OwnerInv, Draining, OwnerStages
<1>26. ASSUME Join PROVE OwnerInv'
  BY <1>26, <1>0
     DEF Join, Goto, OwnerGo, transport, renderer, work, vars, OwnerInv, Draining,
         OwnerStages
<1>27. ASSUME Exit PROVE OwnerInv'
  BY <1>27, <1>0 DEF Exit, transport, renderer, work, vars, OwnerInv, Draining, OwnerStages
<1>28. ASSUME Render PROVE OwnerInv'
  BY <1>28, <1>0
     DEF Render, transport, renderer, work, vars, OwnerInv, Draining, OwnerStages
<1>29. ASSUME RenderFails PROVE OwnerInv'
  BY <1>29, <1>0
     DEF RenderFails, transport, renderer, work, vars, OwnerInv, Draining, OwnerStages
<1>30. ASSUME RenderPanics PROVE OwnerInv'
  BY <1>30, <1>0
     DEF RenderPanics, transport, renderer, work, vars, OwnerInv, Draining, OwnerStages
<1>31. ASSUME LeaveLoop PROVE OwnerInv'
  BY <1>31, <1>0
     DEF LeaveLoop, transport, renderer, work, vars, OwnerInv, Draining, OwnerStages
<1>32. ASSUME RenderFinish PROVE OwnerInv'
  BY <1>32, <1>0
     DEF RenderFinish, transport, renderer, work, vars, OwnerInv, Draining, OwnerStages,
         HealthInv
<1>33. CASE UNCHANGED vars
  BY <1>33, <1>0 DEF OwnerInv, Draining, OwnerStages, transport, renderer, work, vars
<1> QED
  BY <1>1, <1>2, <1>3, <1>4, <1>5, <1>6, <1>7, <1>8, <1>9, <1>10, <1>11, <1>12, <1>13,
     <1>14, <1>15, <1>16, <1>17, <1>18, <1>19, <1>20, <1>21, <1>22, <1>23, <1>24, <1>25,
     <1>26, <1>27, <1>28, <1>29, <1>30, <1>31, <1>32, <1>33
     DEF Next, WorkerStep, OwnerStep, RendererStep, Transport, Done, Threads

(* No step raises the flag of a healthy renderer, and none hides a fault.   *)
LEMMA HealthStepInv ==
  ASSUME TypeOK, Shape, WorkerInv, OwnerInv, FailuresInv, HealthInv, [Next]_vars
  PROVE  HealthInv'
<1>0. /\ pc \in [Threads -> Pcs] /\ stage \in [Threads -> WorkerStages \cup OwnerStages]
      /\ cur \in [Threads -> Events] /\ Owner \in Threads /\ Owner \notin Workers
      /\ \A w \in Workers : w \in Threads /\ w # Owner
  BY ThreadsAssumption DEF TypeOK, Shape, Threads
<1>1. ASSUME NEW t \in Threads, EmitStart(t) PROVE HealthInv'
  BY <1>1, <1>0
     DEF EmitStart, Goto, ToDeltas, ToFailures, ToGauges, transport, renderer, work, vars,
         HealthInv
<1>2. ASSUME NEW t \in Threads, FlushDelta(t) PROVE HealthInv'
  <2>1. pc[t] \in {"deltas"}
    BY <1>2 DEF FlushDelta
  <2>2. sender = "open" /\ stage[Owner] # "closed" /\ exit = "none"
    BY <2>1, SenderIsOpen
  <2>3. UNCHANGED <<sender, receiver, stage, exit, rpc, fault>>
    BY <1>2 DEF FlushDelta, work, renderer
  <2>4. failed' = failed \/ (~receiver /\ failed' = TRUE)
    BY <1>2
       DEF FlushDelta, Release, Hold, Goto, Deliver, Disconnected, ToFailures, ToGauges, Room,
           May
  <2> QED
    BY <2>2, <2>3, <2>4 DEF HealthInv
<1>3. ASSUME NEW t \in Threads, FlushFailure(t) PROVE HealthInv'
  <2>1. pc[t] \in {"failures"}
    BY <1>3 DEF FlushFailure
  <2>2. sender = "open" /\ stage[Owner] # "closed" /\ exit = "none"
    BY <2>1, SenderIsOpen
  <2>3. UNCHANGED <<sender, receiver, stage, exit, rpc, fault>>
    BY <1>3 DEF FlushFailure, work, renderer
  <2>4. failed' = failed \/ (~receiver /\ failed' = TRUE)
    BY <1>3 DEF FlushFailure, Release, Hold, Goto, Deliver, Disconnected, ToGauges, Room, May
  <2> QED
    BY <2>2, <2>3, <2>4 DEF HealthInv
<1>4. ASSUME NEW t \in Threads, FlushGauge(t) PROVE HealthInv'
  <2>1. pc[t] \in {"gauges"}
    BY <1>4 DEF FlushGauge
  <2>2. sender = "open" /\ stage[Owner] # "closed" /\ exit = "none"
    BY <2>1, SenderIsOpen
  <2>3. UNCHANGED <<sender, receiver, stage, exit, rpc, fault>>
    BY <1>4 DEF FlushGauge, work, renderer
  <2>4. failed' = failed \/ (~receiver /\ failed' = TRUE)
    BY <1>4 DEF FlushGauge, Goto, Deliver, Disconnected, Room, May
  <2> QED
    BY <2>2, <2>3, <2>4 DEF HealthInv
<1>5. ASSUME NEW t \in Threads, TrySend(t) PROVE HealthInv'
  <2>1. pc[t] \in {"send"}
    BY <1>5, TrySendCases
  <2>2. sender = "open" /\ stage[Owner] # "closed" /\ exit = "none"
    BY <2>1, SenderIsOpen
  <2>3. UNCHANGED <<sender, receiver, stage, exit, rpc, fault>>
    BY <1>5, TrySendCases DEF work, renderer
  <2>4. failed' = failed \/ (~receiver /\ failed' = TRUE)
    BY <1>5, TrySendCases DEF Goto, Deliver, Disconnected, Room
  <2> QED
    BY <2>2, <2>3, <2>4 DEF HealthInv
<1>6. ASSUME NEW t \in Threads, CoalesceCount(t) PROVE HealthInv'
  BY <1>6, <1>0 DEF CoalesceCount, Goto, transport, renderer, work, vars, HealthInv
<1>7. ASSUME NEW t \in Threads, CoalesceGauge(t) PROVE HealthInv'
  BY <1>7, <1>0 DEF CoalesceGauge, Goto, transport, renderer, work, vars, HealthInv
<1>8. ASSUME NEW t \in Threads, CoalesceFailure(t) PROVE HealthInv'
  <2>1. pc[t] \in {"failure"}
    BY <1>8 DEF CoalesceFailure
  <2>2. sender = "open" /\ stage[Owner] # "closed" /\ exit = "none"
    BY <2>1, SenderIsOpen
  <2>3. UNCHANGED <<sender, receiver, stage, exit, rpc, fault>>
    BY <1>8 DEF CoalesceFailure, work, renderer
  <2>4. failed' = failed \/ (~receiver /\ failed' = TRUE)
    BY <1>8, <2>1, <1>0, FailureSlotLeft DEF CoalesceFailure, Goto, Threads, OwnerInv
  <2> QED
    BY <2>2, <2>3, <2>4 DEF HealthInv
<1>9. ASSUME NEW t \in Threads, BlockingSend(t) PROVE HealthInv'
  <2>1. pc[t] \in {"block"}
    BY <1>9 DEF BlockingSend
  <2>2. sender = "open" /\ stage[Owner] # "closed" /\ exit = "none"
    BY <2>1, SenderIsOpen
  <2>3. UNCHANGED <<sender, receiver, stage, exit, rpc, fault>>
    BY <1>9 DEF BlockingSend, work, renderer
  <2>4. failed' = failed \/ (~receiver /\ failed' = TRUE)
    BY <1>9 DEF BlockingSend, Goto, Deliver, Disconnected, Room
  <2> QED
    BY <2>2, <2>3, <2>4 DEF HealthInv
<1>10. ASSUME NEW t \in Threads, DrainDelta(t) PROVE HealthInv'
  <2>1. pc[t] \in {"drain_deltas"}
    BY <1>10 DEF DrainDelta
  <2>2. sender = "open" /\ stage[Owner] # "closed" /\ exit = "none"
    BY <2>1, SenderIsOpen
  <2>3. UNCHANGED <<sender, receiver, stage, exit, rpc, fault>>
    BY <1>10 DEF DrainDelta, work, renderer
  <2>4. failed' = failed \/ (~receiver /\ failed' = TRUE)
    BY <1>10
       DEF DrainDelta, Release, Hold, Goto, Deliver, Disconnected, AfterDrain, Closing, Room
  <2> QED
    BY <2>2, <2>3, <2>4 DEF HealthInv
<1>11. ASSUME NEW t \in Threads, DrainFailure(t) PROVE HealthInv'
  <2>1. pc[t] \in {"drain_failures"}
    BY <1>11 DEF DrainFailure
  <2>2. sender = "open" /\ stage[Owner] # "closed" /\ exit = "none"
    BY <2>1, SenderIsOpen
  <2>3. UNCHANGED <<sender, receiver, stage, exit, rpc, fault>>
    BY <1>11 DEF DrainFailure, work, renderer
  <2>4. failed' = failed \/ (~receiver /\ failed' = TRUE)
    BY <1>11
       DEF DrainFailure, Release, Hold, Goto, Deliver, Disconnected, AfterDrain, Closing, Room
  <2> QED
    BY <2>2, <2>3, <2>4 DEF HealthInv
<1>12. ASSUME NEW t \in Threads, DrainGauge(t) PROVE HealthInv'
  <2>1. pc[t] \in {"drain_gauges"}
    BY <1>12 DEF DrainGauge
  <2>2. sender = "open" /\ stage[Owner] # "closed" /\ exit = "none"
    BY <2>1, SenderIsOpen
  <2>3. UNCHANGED <<sender, receiver, stage, exit, rpc, fault>>
    BY <1>12 DEF DrainGauge, work, renderer
  <2>4. failed' = failed \/ (~receiver /\ failed' = TRUE)
    BY <1>12 DEF DrainGauge, Goto, Deliver, Disconnected, AfterDrain, Closing, Room
  <2> QED
    BY <2>2, <2>3, <2>4 DEF HealthInv
<1>13. ASSUME NEW w \in Workers, Take(w) PROVE HealthInv'
  BY <1>13, <1>0 DEF Take, Call, Goto, transport, renderer, work, vars, HealthInv, OwnerInv
<1>14. ASSUME NEW w \in Workers, Chunk(w) PROVE HealthInv'
  BY <1>14, <1>0 DEF Chunk, Call, Goto, transport, renderer, work, vars, HealthInv, OwnerInv
<1>15. ASSUME NEW w \in Workers, Hashed(w) PROVE HealthInv'
  BY <1>15, <1>0
     DEF Hashed, Call, Goto, transport, renderer, work, vars, HealthInv, OwnerInv
<1>16. ASSUME NEW w \in Workers, WorkFailed(w) PROVE HealthInv'
  BY <1>16, <1>0
     DEF WorkFailed, Call, Goto, transport, renderer, work, vars, HealthInv, OwnerInv
<1>17. ASSUME NEW w \in Workers, Decrement(w) PROVE HealthInv'
  BY <1>17, <1>0
     DEF Decrement, Call, Goto, transport, renderer, work, vars, HealthInv, OwnerInv
<1>18. ASSUME NEW w \in Workers, Leave(w) PROVE HealthInv'
  BY <1>18, <1>0 DEF Leave, transport, renderer, work, vars, HealthInv, OwnerInv
<1>19. ASSUME Started PROVE HealthInv'
  BY <1>19, <1>0
     DEF Started, Call, Goto, NextFact, transport, renderer, work, vars, HealthInv, OwnerInv
<1>20. ASSUME OwnerEmits PROVE HealthInv'
  BY <1>20, <1>0
     DEF OwnerEmits, Call, Goto, NextFact, transport, renderer, work, vars, HealthInv,
         OwnerInv
<1>21. ASSUME CommandReturns PROVE HealthInv'
  BY <1>21, <1>0
     DEF CommandReturns, OwnerGo, transport, renderer, work, vars, HealthInv, OwnerInv
<1>22. ASSUME Finished PROVE HealthInv'
  BY <1>22, <1>0
     DEF Finished, Call, Goto, NextFact, OwnerGo, transport, renderer, work, vars, HealthInv,
         OwnerInv
<1>23. ASSUME Summary PROVE HealthInv'
  BY <1>23, <1>0
     DEF Summary, Call, Goto, NextFact, OwnerGo, transport, renderer, work, vars, HealthInv,
         OwnerInv
<1>24. ASSUME Close PROVE HealthInv'
  BY <1>24, <1>0
     DEF Close, Goto, OwnerGo, transport, renderer, work, vars, HealthInv, OwnerInv
<1>25. ASSUME DropSender PROVE HealthInv'
  BY <1>25, <1>0 DEF DropSender, Goto, transport, renderer, work, vars, HealthInv, OwnerInv
<1>26. ASSUME Join PROVE HealthInv'
  BY <1>26, <1>0
     DEF Join, Goto, OwnerGo, transport, renderer, work, vars, HealthInv, OwnerInv
<1>27. ASSUME Exit PROVE HealthInv'
  BY <1>27, <1>0 DEF Exit, transport, renderer, work, vars, HealthInv, OwnerInv
<1>28. ASSUME Render PROVE HealthInv'
  BY <1>28, <1>0 DEF Render, transport, renderer, work, vars, HealthInv, OwnerInv
<1>29. ASSUME RenderFails PROVE HealthInv'
  BY <1>29, <1>0 DEF RenderFails, transport, renderer, work, vars, HealthInv, OwnerInv
<1>30. ASSUME RenderPanics PROVE HealthInv'
  BY <1>30, <1>0 DEF RenderPanics, transport, renderer, work, vars, HealthInv, OwnerInv
<1>31. ASSUME LeaveLoop PROVE HealthInv'
  BY <1>31, <1>0 DEF LeaveLoop, transport, renderer, work, vars, HealthInv, OwnerInv
<1>32. ASSUME RenderFinish PROVE HealthInv'
  BY <1>32, <1>0, SizesAssumption
     DEF RenderFinish, transport, renderer, work, vars, HealthInv, OwnerInv
<1>33. CASE UNCHANGED vars
  BY <1>33, <1>0 DEF HealthInv, transport, renderer, work, vars
<1> QED
  BY <1>1, <1>2, <1>3, <1>4, <1>5, <1>6, <1>7, <1>8, <1>9, <1>10, <1>11, <1>12, <1>13,
     <1>14, <1>15, <1>16, <1>17, <1>18, <1>19, <1>20, <1>21, <1>22, <1>23, <1>24, <1>25,
     <1>26, <1>27, <1>28, <1>29, <1>30, <1>31, <1>32, <1>33
     DEF Next, WorkerStep, OwnerStep, RendererStep, Transport, Done, Threads

(* Every step keeps the count of readers.                                   *)
LEMMA ReadersStepInv ==
  ASSUME TypeOK, Shape, WorkerInv, ReadersInv, [Next]_vars
  PROVE  ReadersInv'
<1>0. /\ pc \in [Threads -> Pcs] /\ stage \in [Threads -> WorkerStages \cup OwnerStages]
      /\ cur \in [Threads -> Events] /\ Owner \in Threads /\ Owner \notin Workers
      /\ \A w \in Workers : w \in Threads /\ w # Owner
  BY ThreadsAssumption DEF TypeOK, Shape, Threads
<1>f. IsFiniteSet(Reading) /\ Cardinality(Reading) \in Nat
  BY SizesAssumption, FS_Subset, FS_CardinalityType DEF Reading
<1>1. ASSUME NEW t \in Threads, EmitStart(t) PROVE ReadersInv'
  BY <1>1
     DEF EmitStart, Goto, ToDeltas, ToFailures, ToGauges, transport, renderer, work, vars,
         ReadersInv, Reading
<1>2. ASSUME NEW t \in Threads, FlushDelta(t) PROVE ReadersInv'
  BY <1>2
     DEF FlushDelta, Release, Hold, Goto, Deliver, Disconnected, ToFailures, ToGauges, Room,
         May, transport, renderer, work, vars, ReadersInv, Reading
<1>3. ASSUME NEW t \in Threads, FlushFailure(t) PROVE ReadersInv'
  BY <1>3 DEF FlushFailure, Release, Hold, Goto, Deliver, Disconnected, ToGauges, Room, May,
         transport, renderer, work, vars, ReadersInv, Reading
<1>4. ASSUME NEW t \in Threads, FlushGauge(t) PROVE ReadersInv'
  BY <1>4
     DEF FlushGauge, Goto, Deliver, Disconnected, Room, May, transport, renderer, work, vars,
         ReadersInv, Reading
<1>5. ASSUME NEW t \in Threads, TrySend(t) PROVE ReadersInv'
  BY <1>5, TrySendCases
     DEF Goto, Deliver, Disconnected, Room, transport, renderer, work, vars, ReadersInv,
         Reading
<1>6. ASSUME NEW t \in Threads, CoalesceCount(t) PROVE ReadersInv'
  BY <1>6 DEF CoalesceCount, Goto, transport, renderer, work, vars, ReadersInv, Reading
<1>7. ASSUME NEW t \in Threads, CoalesceGauge(t) PROVE ReadersInv'
  BY <1>7 DEF CoalesceGauge, Goto, transport, renderer, work, vars, ReadersInv, Reading
<1>8. ASSUME NEW t \in Threads, CoalesceFailure(t) PROVE ReadersInv'
  BY <1>8 DEF CoalesceFailure, Goto, transport, renderer, work, vars, ReadersInv, Reading
<1>9. ASSUME NEW t \in Threads, BlockingSend(t) PROVE ReadersInv'
  BY <1>9
     DEF BlockingSend, Goto, Deliver, Disconnected, Room, transport, renderer, work, vars,
         ReadersInv, Reading
<1>10. ASSUME NEW t \in Threads, DrainDelta(t) PROVE ReadersInv'
  BY <1>10
     DEF DrainDelta, Release, Hold, Goto, Deliver, Disconnected, AfterDrain, Closing, Room,
         transport, renderer, work, vars, ReadersInv, Reading
<1>11. ASSUME NEW t \in Threads, DrainFailure(t) PROVE ReadersInv'
  BY <1>11
     DEF DrainFailure, Release, Hold, Goto, Deliver, Disconnected, AfterDrain, Closing, Room,
         transport, renderer, work, vars, ReadersInv, Reading
<1>12. ASSUME NEW t \in Threads, DrainGauge(t) PROVE ReadersInv'
  BY <1>12
     DEF DrainGauge, Goto, Deliver, Disconnected, AfterDrain, Closing, Room, transport,
         renderer, work, vars, ReadersInv, Reading
<1>13. ASSUME NEW w \in Workers, Take(w) PROVE ReadersInv'
  <2>1. Reading' = Reading \cup {w} /\ w \notin Reading
    BY <1>13, <1>0 DEF Take, Reading
  <2>2. Cardinality(Reading') = Cardinality(Reading) + 1
    BY <1>f, <2>1, FS_AddElement
  <2> QED
    BY <1>13, <2>2 DEF Take, ReadersInv
<1>14. ASSUME NEW w \in Workers, Chunk(w) PROVE ReadersInv'
  <2>1. Reading' = Reading
    BY <1>14, <1>0 DEF Chunk, Call, Goto, work, Reading
  <2>2. readers' = readers
    BY <1>14 DEF Chunk, Call, Goto, work
  <2> QED
    BY <2>1, <2>2 DEF ReadersInv
<1>15. ASSUME NEW w \in Workers, Hashed(w) PROVE ReadersInv'
  <2>1. Reading' = Reading
    BY <1>15, <1>0 DEF Hashed, Call, Goto, work, Reading
  <2>2. readers' = readers
    BY <1>15 DEF Hashed, Call, Goto, work
  <2> QED
    BY <2>1, <2>2 DEF ReadersInv
<1>16. ASSUME NEW w \in Workers, WorkFailed(w) PROVE ReadersInv'
  <2>1. Reading' = Reading
    BY <1>16, <1>0 DEF WorkFailed, Call, Goto, work, Reading
  <2>2. readers' = readers
    BY <1>16 DEF WorkFailed, Call, Goto, work
  <2> QED
    BY <2>1, <2>2 DEF ReadersInv
<1>17. ASSUME NEW w \in Workers, Decrement(w) PROVE ReadersInv'
  <2>1. Reading' = Reading \ {w} /\ w \in Reading
    BY <1>17, <1>0 DEF Decrement, Reading
  <2>2. Cardinality(Reading') = Cardinality(Reading) - 1
    BY <1>f, <2>1, FS_RemoveElement
  <2> QED
    BY <1>17, <2>2 DEF Decrement, ReadersInv
<1>18. ASSUME NEW w \in Workers, Leave(w) PROVE ReadersInv'
  <2>1. Reading' = Reading
    BY <1>18, <1>0 DEF Leave, work, Reading
  <2>2. readers' = readers
    BY <1>18 DEF Leave, work
  <2> QED
    BY <2>1, <2>2 DEF ReadersInv
<1>19. ASSUME Started PROVE ReadersInv'
  <2>1. Reading' = Reading
    BY <1>19, <1>0 DEF Started, Call, Goto, NextFact, work, Reading, WorkerInv
  <2>2. readers' = readers
    BY <1>19 DEF Started, Call, Goto, NextFact, work
  <2> QED
    BY <2>1, <2>2 DEF ReadersInv
<1>20. ASSUME OwnerEmits PROVE ReadersInv'
  BY <1>20
     DEF OwnerEmits, Call, Goto, NextFact, transport, renderer, work, vars, ReadersInv,
         Reading
<1>21. ASSUME CommandReturns PROVE ReadersInv'
  <2>1. Reading' = Reading
    BY <1>21, <1>0 DEF CommandReturns, OwnerGo, work, Reading
  <2>2. readers' = readers
    BY <1>21 DEF CommandReturns, OwnerGo, work
  <2> QED
    BY <2>1, <2>2 DEF ReadersInv
<1>22. ASSUME Finished PROVE ReadersInv'
  <2>1. Reading' = Reading
    BY <1>22, <1>0 DEF Finished, Call, Goto, NextFact, OwnerGo, work, Reading
  <2>2. readers' = readers
    BY <1>22 DEF Finished, Call, Goto, NextFact, OwnerGo, work
  <2> QED
    BY <2>1, <2>2 DEF ReadersInv
<1>23. ASSUME Summary PROVE ReadersInv'
  <2>1. Reading' = Reading
    BY <1>23, <1>0 DEF Summary, Call, Goto, NextFact, OwnerGo, work, Reading
  <2>2. readers' = readers
    BY <1>23 DEF Summary, Call, Goto, NextFact, OwnerGo, work
  <2> QED
    BY <2>1, <2>2 DEF ReadersInv
<1>24. ASSUME Close PROVE ReadersInv'
  <2>1. Reading' = Reading
    BY <1>24, <1>0 DEF Close, Goto, OwnerGo, work, Reading
  <2>2. readers' = readers
    BY <1>24 DEF Close, Goto, OwnerGo, work
  <2> QED
    BY <2>1, <2>2 DEF ReadersInv
<1>25. ASSUME DropSender PROVE ReadersInv'
  BY <1>25 DEF DropSender, Goto, transport, renderer, work, vars, ReadersInv, Reading
<1>26. ASSUME Join PROVE ReadersInv'
  <2>1. Reading' = Reading
    BY <1>26, <1>0 DEF Join, Goto, OwnerGo, work, Reading
  <2>2. readers' = readers
    BY <1>26 DEF Join, Goto, OwnerGo, work
  <2> QED
    BY <2>1, <2>2 DEF ReadersInv
<1>27. ASSUME Exit PROVE ReadersInv'
  BY <1>27 DEF Exit, transport, renderer, work, vars, ReadersInv, Reading
<1>28. ASSUME Render PROVE ReadersInv'
  BY <1>28 DEF Render, transport, renderer, work, vars, ReadersInv, Reading
<1>29. ASSUME RenderFails PROVE ReadersInv'
  BY <1>29 DEF RenderFails, transport, renderer, work, vars, ReadersInv, Reading
<1>30. ASSUME RenderPanics PROVE ReadersInv'
  BY <1>30 DEF RenderPanics, transport, renderer, work, vars, ReadersInv, Reading
<1>31. ASSUME LeaveLoop PROVE ReadersInv'
  BY <1>31 DEF LeaveLoop, transport, renderer, work, vars, ReadersInv, Reading
<1>32. ASSUME RenderFinish PROVE ReadersInv'
  BY <1>32 DEF RenderFinish, transport, renderer, work, vars, ReadersInv, Reading
<1>33. CASE UNCHANGED vars
  BY <1>33 DEF ReadersInv, Reading, transport, renderer, work, vars
<1> QED
  BY <1>1, <1>2, <1>3, <1>4, <1>5, <1>6, <1>7, <1>8, <1>9, <1>10, <1>11, <1>12, <1>13,
     <1>14, <1>15, <1>16, <1>17, <1>18, <1>19, <1>20, <1>21, <1>22, <1>23, <1>24, <1>25,
     <1>26, <1>27, <1>28, <1>29, <1>30, <1>31, <1>32, <1>33
     DEF Next, WorkerStep, OwnerStep, RendererStep, Transport, Done, Threads

(* Every step keeps the side buffer of failures without repetitions.        *)
LEMMA FailuresStepInv ==
  ASSUME TypeOK, Shape, WorkerInv, OwnerInv, FailuresInv, [Next]_vars
  PROVE  FailuresInv'
<1>0. /\ pc \in [Threads -> Pcs] /\ stage \in [Threads -> WorkerStages \cup OwnerStages]
      /\ cur \in [Threads -> Events] /\ Owner \in Threads /\ Owner \notin Workers
      /\ \A w \in Workers : w \in Threads /\ w # Owner
  BY ThreadsAssumption DEF TypeOK, Shape, Threads
<1>p. /\ failures \in Seq(Events) /\ Len(failures) \in Nat
      /\ DOMAIN failures = 1 .. Len(failures)
      /\ \A i \in DOMAIN failures : failures[i].n \in Workers
  BY DEF TypeOK, Shape, Proper
<1>1. ASSUME NEW t \in Threads, EmitStart(t) PROVE FailuresInv'
  BY <1>1, <1>0, <1>p
     DEF EmitStart, Goto, ToDeltas, ToFailures, ToGauges, transport, renderer, work, vars,
         FailuresInv
<1>2. ASSUME NEW t \in Threads, FlushDelta(t) PROVE FailuresInv'
  BY <1>2, <1>0, <1>p
     DEF FlushDelta, Release, Hold, Goto, Deliver, Disconnected, ToFailures, ToGauges, Room,
         May, transport, renderer, work, vars, FailuresInv
<1>3. ASSUME NEW t \in Threads, FlushFailure(t) PROVE FailuresInv'
  <2>1. CASE failures' = failures
    <3>1. UNCHANGED <<cur, stage>> /\ pc[t] = "failures"
      BY <1>3 DEF FlushFailure, work
    <3>2. \A w \in Workers : pc'[w] # "run" => pc[w] # "run"
      BY <1>3, <1>0, <3>1
         DEF FlushFailure, Release, Hold, Goto, Deliver, Disconnected, ToGauges, Room, May
    <3> QED
      BY <1>p, <2>1, <3>1, <3>2 DEF FailuresInv
  <2>2. CASE failures' = <<>>
    BY <2>2 DEF FailuresInv
  <2>3. CASE failures # <<>> /\ failures' = Tail(failures)
    <3>1. UNCHANGED <<cur, stage>> /\ pc[t] = "failures"
      BY <1>3 DEF FlushFailure, work
    <3>2. \A w \in Workers : pc'[w] # "run" => pc[w] # "run"
      BY <1>3, <1>0, <3>1
         DEF FlushFailure, Release, Hold, Goto, Deliver, Disconnected, ToGauges, Room, May
    <3>3. /\ DOMAIN Tail(failures) = 1 .. Len(failures) - 1
          /\ \A i \in 1 .. Len(failures) - 1 : Tail(failures)[i] = failures[i + 1]
      BY <1>p, <2>3, TailFacts
    <3>4. \A i \in 1 .. Len(failures) - 1 : i + 1 \in DOMAIN failures
      BY <1>p
    <3> QED
      BY <1>p, <2>3, <3>1, <3>2, <3>3, <3>4 DEF FailuresInv
  <2> QED
    BY <1>3, <2>1, <2>2, <2>3 DEF FlushFailure, Disconnected
<1>4. ASSUME NEW t \in Threads, FlushGauge(t) PROVE FailuresInv'
  BY <1>4, <1>0, <1>p
     DEF FlushGauge, Goto, Deliver, Disconnected, Room, May, transport, renderer, work, vars,
         FailuresInv
<1>5. ASSUME NEW t \in Threads, TrySend(t) PROVE FailuresInv'
  <2>1. UNCHANGED <<failures, cur, stage>> /\ pc[t] = "send"
    BY <1>5, TrySendCases DEF work
  <2>2. \A w \in Workers : pc'[w] # "run" => pc[w] # "run"
    BY <1>5, TrySendCases, <1>0, <2>1 DEF Goto
  <2> QED
    BY <1>p, <2>1, <2>2 DEF FailuresInv
<1>6. ASSUME NEW t \in Threads, CoalesceCount(t) PROVE FailuresInv'
  BY <1>6, <1>0, <1>p DEF CoalesceCount, Goto, transport, renderer, work, vars, FailuresInv
<1>7. ASSUME NEW t \in Threads, CoalesceGauge(t) PROVE FailuresInv'
  BY <1>7, <1>0, <1>p DEF CoalesceGauge, Goto, transport, renderer, work, vars, FailuresInv
<1>8. ASSUME NEW t \in Threads, CoalesceFailure(t) PROVE FailuresInv'
  <2>1. t \in Workers /\ pc[t] = "failure"
    BY <1>8 DEF CoalesceFailure, OwnerInv, Threads
  <2>2. /\ cur[t].n = t /\ cur[t].kind = "failure" /\ stage[t] = "failed" /\ cur[t] \in Events
    BY <1>0, <2>1 DEF WorkerInv
  <2>3. Len(failures) < FailureSlots
    BY <2>1, FailureSlotLeft
  <2>4. /\ failures' = Append(failures, cur[t]) /\ UNCHANGED <<cur, stage>>
        /\ pc' = [pc EXCEPT ![t] = "run"]
    BY <1>8, <2>3 DEF CoalesceFailure, Goto, work
  <2>5. /\ DOMAIN failures' = 1 .. Len(failures) + 1
        /\ \A i \in 1 .. Len(failures) : failures'[i] = failures[i]
        /\ failures'[Len(failures) + 1] = cur[t]
    BY <1>p, <2>2, <2>4, AppendFacts
  <2>6. \A i \in DOMAIN failures : failures[i].n # t
    BY <2>1, <2>2 DEF FailuresInv
  <2>7. \A i \in DOMAIN failures' : i \in DOMAIN failures \/ i = Len(failures) + 1
    BY <1>p, <2>5
  <2>8. \A w \in Workers : pc'[w] # "run" => pc[w] # "run" /\ w # t
    BY <1>0, <2>4
  <2>9. ASSUME NEW i \in DOMAIN failures'
        PROVE  /\ stage'[failures'[i].n] \in {"failed", "failed_out"}
               /\ pc'[failures'[i].n] # "run" => cur'[failures'[i].n].kind # "failure"
    BY <1>p, <2>1, <2>2, <2>4, <2>5, <2>7, <2>8 DEF FailuresInv
  <2>10. \A i, j \in DOMAIN failures' : failures'[i].n = failures'[j].n => i = j
    BY <1>p, <2>2, <2>5, <2>6, <2>7 DEF FailuresInv
  <2> QED
    BY <2>9, <2>10 DEF FailuresInv
<1>9. ASSUME NEW t \in Threads, BlockingSend(t) PROVE FailuresInv'
  BY <1>9, <1>0, <1>p
     DEF BlockingSend, Goto, Deliver, Disconnected, Room, transport, renderer, work, vars,
         FailuresInv
<1>10. ASSUME NEW t \in Threads, DrainDelta(t) PROVE FailuresInv'
  BY <1>10, <1>0, <1>p
     DEF DrainDelta, Release, Hold, Goto, Deliver, Disconnected, AfterDrain, Closing, Room,
         transport, renderer, work, vars, FailuresInv
<1>11. ASSUME NEW t \in Threads, DrainFailure(t) PROVE FailuresInv'
  <2>1. CASE failures' = failures
    <3>1. UNCHANGED <<cur, stage>> /\ pc[t] = "drain_failures"
      BY <1>11 DEF DrainFailure, work
    <3>2. \A w \in Workers : pc'[w] # "run" => pc[w] # "run"
      BY <1>11, <1>0, <3>1
         DEF DrainFailure, Release, Hold, Goto, Deliver, Disconnected, AfterDrain, Closing, Room
    <3> QED
      BY <1>p, <2>1, <3>1, <3>2 DEF FailuresInv
  <2>2. CASE failures' = <<>>
    BY <2>2 DEF FailuresInv
  <2>3. CASE failures # <<>> /\ failures' = Tail(failures)
    <3>1. UNCHANGED <<cur, stage>> /\ pc[t] = "drain_failures"
      BY <1>11 DEF DrainFailure, work
    <3>2. \A w \in Workers : pc'[w] # "run" => pc[w] # "run"
      BY <1>11, <1>0, <3>1
         DEF DrainFailure, Release, Hold, Goto, Deliver, Disconnected, AfterDrain, Closing, Room
    <3>3. /\ DOMAIN Tail(failures) = 1 .. Len(failures) - 1
          /\ \A i \in 1 .. Len(failures) - 1 : Tail(failures)[i] = failures[i + 1]
      BY <1>p, <2>3, TailFacts
    <3>4. \A i \in 1 .. Len(failures) - 1 : i + 1 \in DOMAIN failures
      BY <1>p
    <3> QED
      BY <1>p, <2>3, <3>1, <3>2, <3>3, <3>4 DEF FailuresInv
  <2> QED
    BY <1>11, <2>1, <2>2, <2>3 DEF DrainFailure, Disconnected
<1>12. ASSUME NEW t \in Threads, DrainGauge(t) PROVE FailuresInv'
  BY <1>12, <1>0, <1>p
     DEF DrainGauge, Goto, Deliver, Disconnected, AfterDrain, Closing, Room, transport,
         renderer, work, vars, FailuresInv
<1>13. ASSUME NEW w \in Workers, Take(w) PROVE FailuresInv'
  BY <1>13, <1>0, <1>p
     DEF Take, Call, Goto, transport, renderer, work, vars, FailuresInv, Gauge, Event
<1>14. ASSUME NEW w \in Workers, Chunk(w) PROVE FailuresInv'
  BY <1>14, <1>0, <1>p
     DEF Chunk, Call, Goto, transport, renderer, work, vars, FailuresInv, Count, Event
<1>15. ASSUME NEW w \in Workers, Hashed(w) PROVE FailuresInv'
  BY <1>15, <1>0, <1>p
     DEF Hashed, Call, Goto, transport, renderer, work, vars, FailuresInv, Count, Event
<1>16. ASSUME NEW w \in Workers, WorkFailed(w) PROVE FailuresInv'
  BY <1>16, <1>0, <1>p
     DEF WorkFailed, Call, Goto, transport, renderer, work, vars, FailuresInv
<1>17. ASSUME NEW w \in Workers, Decrement(w) PROVE FailuresInv'
  BY <1>17, <1>0, <1>p
     DEF Decrement, Call, Goto, transport, renderer, work, vars, FailuresInv, Gauge, Event
<1>18. ASSUME NEW w \in Workers, Leave(w) PROVE FailuresInv'
  BY <1>18, <1>0, <1>p DEF Leave, transport, renderer, work, vars, FailuresInv
<1>19. ASSUME Started PROVE FailuresInv'
  BY <1>19, <1>0, <1>p
     DEF Started, Call, Goto, NextFact, transport, renderer, work, vars, FailuresInv,
         WorkerInv
<1>20. ASSUME OwnerEmits PROVE FailuresInv'
  <2>1. UNCHANGED <<failures, stage>>
    BY <1>20 DEF OwnerEmits, Call, transport
  <2>2. \A w \in Workers : pc'[w] = pc[w] /\ cur'[w] = cur[w]
    BY <1>20, <1>0 DEF OwnerEmits, Call, Goto
  <2> QED
    BY <1>p, <2>1, <2>2 DEF FailuresInv
<1>21. ASSUME CommandReturns PROVE FailuresInv'
  BY <1>21, <1>0, <1>p
     DEF CommandReturns, OwnerGo, transport, renderer, work, vars, FailuresInv
<1>22. ASSUME Finished PROVE FailuresInv'
  BY <1>22, <1>0, <1>p
     DEF Finished, Call, Goto, NextFact, OwnerGo, transport, renderer, work, vars,
         FailuresInv
<1>23. ASSUME Summary PROVE FailuresInv'
  BY <1>23, <1>0, <1>p
     DEF Summary, Call, Goto, NextFact, OwnerGo, transport, renderer, work, vars, FailuresInv
<1>24. ASSUME Close PROVE FailuresInv'
  BY <1>24, <1>0, <1>p
     DEF Close, Goto, OwnerGo, transport, renderer, work, vars, FailuresInv
<1>25. ASSUME DropSender PROVE FailuresInv'
  BY <1>25, <1>0, <1>p DEF DropSender, Goto, transport, renderer, work, vars, FailuresInv
<1>26. ASSUME Join PROVE FailuresInv'
  BY <1>26, <1>0, <1>p DEF Join, Goto, OwnerGo, transport, renderer, work, vars, FailuresInv
<1>27. ASSUME Exit PROVE FailuresInv'
  BY <1>27, <1>0, <1>p DEF Exit, transport, renderer, work, vars, FailuresInv
<1>28. ASSUME Render PROVE FailuresInv'
  BY <1>28, <1>0, <1>p DEF Render, transport, renderer, work, vars, FailuresInv
<1>29. ASSUME RenderFails PROVE FailuresInv'
  BY <1>29, <1>0, <1>p DEF RenderFails, transport, renderer, work, vars, FailuresInv
<1>30. ASSUME RenderPanics PROVE FailuresInv'
  BY <1>30, <1>0, <1>p DEF RenderPanics, transport, renderer, work, vars, FailuresInv
<1>31. ASSUME LeaveLoop PROVE FailuresInv'
  BY <1>31, <1>0, <1>p DEF LeaveLoop, transport, renderer, work, vars, FailuresInv
<1>32. ASSUME RenderFinish PROVE FailuresInv'
  BY <1>32, <1>0, <1>p DEF RenderFinish, transport, renderer, work, vars, FailuresInv
<1>33. CASE UNCHANGED vars
  BY <1>33, <1>0, <1>p DEF FailuresInv, transport, renderer, work, vars
<1> QED
  BY <1>1, <1>2, <1>3, <1>4, <1>5, <1>6, <1>7, <1>8, <1>9, <1>10, <1>11, <1>12, <1>13,
     <1>14, <1>15, <1>16, <1>17, <1>18, <1>19, <1>20, <1>21, <1>22, <1>23, <1>24, <1>25,
     <1>26, <1>27, <1>28, <1>29, <1>30, <1>31, <1>32, <1>33
     DEF Next, WorkerStep, OwnerStep, RendererStep, Transport, Done, Threads

(* The types of the places, and the types of what is carried. *)
PlacesOK ==
  /\ pc \in [Threads -> Pcs] /\ stage \in [Threads -> WorkerStages \cup OwnerStages]
  /\ rpc \in {"recv", "broken", "panicked", "finish", "exited"}
  /\ sender \in {"open", "closed"} /\ receiver \in BOOLEAN /\ failed \in BOOLEAN
  /\ lock \in [Locks -> Threads \cup {None}]
  /\ readers \in 0 .. Cardinality(Workers)
  /\ jobs \in Nat /\ facts \in Nat /\ jsonl \in BOOLEAN /\ fault \in BOOLEAN
  /\ outcome \in {"none", "report", "error"}
  /\ exit \in {"none", "success", "findings", "error"}

Carried(q) == q \in Seq(Events) /\ \A i \in DOMAIN q : Proper(q[i])

CargoOK ==
  /\ Carried(inbox) /\ Len(inbox) <= InboxSize
  /\ deltas \in [Counters -> Nat] /\ gauge \in Nat \cup {None}
  /\ Carried(failures) /\ \A i \in DOMAIN failures : failures[i].kind = "failure"
  /\ cur \in [Threads -> Events] /\ \A t \in Threads : Proper(cur[t])
  /\ shown \in [counts : [Counters -> Nat], gauge : Nat, facts : Seq(Nat),
                failures : SUBSET Workers, terminal : BOOLEAN]
  /\ emitted \in [counts : [Counters -> Nat], facts : SUBSET Nat]

(* Together they are the types.                                             *)
LEMMA TypesSplit == TypeOK /\ Shape <=> PlacesOK /\ CargoOK
  BY DEF TypeOK, Shape, PlacesOK, CargoOK, Carried

(* Sequences of proper events stay that. *)
LEMMA CarriedSteps ==
  /\ Carried(<<>>)
  /\ \A q, e : Carried(q) /\ Proper(e) =>
       Carried(Append(q, e)) /\ Len(Append(q, e)) = Len(q) + 1 /\ Len(q) \in Nat
  /\ \A q : Carried(q) /\ q # <<>> =>
       /\ Carried(Tail(q)) /\ Len(Tail(q)) = Len(q) - 1 /\ Len(q) \in Nat
       /\ Proper(Head(q)) /\ Head(q) = q[1] /\ 1 \in DOMAIN q
<1>1. Carried(<<>>)
  BY DEF Carried
<1>2. ASSUME NEW q, NEW e, Carried(q), Proper(e)
      PROVE  Carried(Append(q, e)) /\ Len(Append(q, e)) = Len(q) + 1 /\ Len(q) \in Nat
  <2>1. q \in Seq(Events) /\ e \in Events
    BY <1>2 DEF Carried, Proper
  <2>2. /\ Append(q, e) \in Seq(Events) /\ Len(Append(q, e)) = Len(q) + 1 /\ Len(q) \in Nat
        /\ DOMAIN Append(q, e) = 1 .. Len(q) + 1 /\ DOMAIN q = 1 .. Len(q)
        /\ \A i \in 1 .. Len(q) : Append(q, e)[i] = q[i]
        /\ Append(q, e)[Len(q) + 1] = e
    BY <2>1, AppendFacts
  <2>3. ASSUME NEW i \in 1 .. Len(q) + 1 PROVE Proper(Append(q, e)[i])
    <3>1. CASE i = Len(q) + 1
      BY <1>2, <2>2, <3>1
    <3>2. CASE i \in 1 .. Len(q)
      BY <1>2, <2>2, <3>2 DEF Carried
    <3> QED
      BY <2>2, <3>1, <3>2
  <2> QED
    BY <2>2, <2>3 DEF Carried
<1>3. ASSUME NEW q, Carried(q), q # <<>>
      PROVE  /\ Carried(Tail(q)) /\ Len(Tail(q)) = Len(q) - 1 /\ Len(q) \in Nat
             /\ Proper(Head(q)) /\ Head(q) = q[1] /\ 1 \in DOMAIN q
  <2>1. q \in Seq(Events)
    BY <1>3 DEF Carried
  <2>2. /\ Tail(q) \in Seq(Events) /\ Len(Tail(q)) = Len(q) - 1
        /\ DOMAIN Tail(q) = 1 .. Len(q) - 1 /\ DOMAIN q = 1 .. Len(q)
        /\ Len(q) \in Nat /\ Len(q) >= 1 /\ Head(q) = q[1]
        /\ \A i \in 1 .. Len(q) - 1 : Tail(q)[i] = q[i + 1]
    BY <1>3, <2>1, TailFacts
  <2>3. 1 \in DOMAIN q /\ \A i \in 1 .. Len(q) - 1 : i + 1 \in DOMAIN q
    BY <2>2
  <2>4. ASSUME NEW i \in 1 .. Len(q) - 1 PROVE Proper(Tail(q)[i])
    BY <1>3, <2>2, <2>3 DEF Carried
  <2> QED
    BY <1>3, <2>2, <2>3, <2>4 DEF Carried
<1> QED
  BY <1>1, <1>2, <1>3

(* The count of readers is at most the number of workers. *)
LEMMA ReadersBounded ==
  ASSUME NEW S \in SUBSET Workers
  PROVE  IsFiniteSet(S) /\ Cardinality(S) \in 0 .. Cardinality(Workers)
<1>1. /\ IsFiniteSet(S) /\ Cardinality(S) <= Cardinality(Workers)
      /\ Cardinality(S) \in Nat /\ Cardinality(Workers) \in Nat
  BY SizesAssumption, FS_Subset, FS_CardinalityType
<1> QED
  BY <1>1

(* Every step leaves thread, renderer and locks at places they have.         *)
LEMMA PlacesStepInv ==
  ASSUME TypeOK, Shape, WorkerInv, OwnerInv, ReadersInv, ReadersInv', [Next]_vars
  PROVE  PlacesOK'
<1>0. /\ PlacesOK /\ CargoOK /\ Owner \in Threads /\ Owner \notin Workers
      /\ \A w \in Workers : w \in Threads /\ w # Owner
  BY TypesSplit, ThreadsAssumption DEF Threads
<1>k. \A t \in Threads : cur[t].kind \in Kinds
  BY <1>0 DEF CargoOK, Events
<1>r. readers' \in 0 .. Cardinality(Workers)
  <2>1. Reading' \in SUBSET Workers /\ readers' = Cardinality(Reading')
    BY DEF Reading, ReadersInv
  <2> QED
    BY <2>1, ReadersBounded
<1>1. ASSUME NEW t \in Threads, EmitStart(t) PROVE PlacesOK'
  BY <1>1, <1>0
     DEF EmitStart, Goto, ToDeltas, ToFailures, ToGauges, transport, renderer, work, vars,
         PlacesOK, Pcs, Locks
<1>2. ASSUME NEW t \in Threads, FlushDelta(t) PROVE PlacesOK'
  <2>1. pc' \in [Threads -> Pcs]
    BY <1>2, <1>0
       DEF FlushDelta, Release, Hold, Goto, Deliver, Disconnected, ToFailures, ToGauges, Room,
           May, PlacesOK, Pcs
  <2>2. lock' \in [Locks -> Threads \cup {None}]
    BY <1>2, <1>0
       DEF FlushDelta, Release, Hold, Goto, Deliver, Disconnected, ToFailures, ToGauges, Room,
           May, PlacesOK, Locks
  <2>3. failed' \in BOOLEAN
    BY <1>2, <1>0
       DEF FlushDelta, Release, Hold, Goto, Deliver, Disconnected, ToFailures, ToGauges, Room,
           May, PlacesOK
  <2>4. UNCHANGED <<sender, receiver, rpc, fault, work>>
    BY <1>2 DEF FlushDelta, renderer
  <2> QED
    BY <1>0, <2>1, <2>2, <2>3, <2>4 DEF PlacesOK, work
<1>3. ASSUME NEW t \in Threads, FlushFailure(t) PROVE PlacesOK'
  <2>1. pc' \in [Threads -> Pcs]
    BY <1>3, <1>0
       DEF FlushFailure, Release, Hold, Goto, Deliver, Disconnected, ToGauges, Room, May,
           PlacesOK, Pcs
  <2>2. lock' \in [Locks -> Threads \cup {None}]
    BY <1>3, <1>0
       DEF FlushFailure, Release, Hold, Goto, Deliver, Disconnected, ToGauges, Room, May,
           PlacesOK, Locks
  <2>3. failed' \in BOOLEAN
    BY <1>3, <1>0
       DEF FlushFailure, Release, Hold, Goto, Deliver, Disconnected, ToGauges, Room, May,
           PlacesOK
  <2>4. UNCHANGED <<sender, receiver, rpc, fault, work>>
    BY <1>3 DEF FlushFailure, renderer
  <2> QED
    BY <1>0, <2>1, <2>2, <2>3, <2>4 DEF PlacesOK, work
<1>4. ASSUME NEW t \in Threads, FlushGauge(t) PROVE PlacesOK'
  BY <1>4, <1>0
     DEF FlushGauge, Goto, Deliver, Disconnected, Room, May, transport, renderer, work, vars,
         PlacesOK, Pcs, Locks
<1>5. ASSUME NEW t \in Threads, TrySend(t) PROVE PlacesOK'
  <2>1. pc' \in [Threads -> Pcs]
    BY <1>5, <1>0, TrySendCases, <1>k
       DEF Goto, Deliver, Disconnected, Room, PlacesOK, Pcs, Kinds
  <2>2. lock' \in [Locks -> Threads \cup {None}]
    BY <1>5, <1>0, TrySendCases DEF Goto, Deliver, Disconnected, Room, PlacesOK, Locks
  <2>3. failed' \in BOOLEAN
    BY <1>5, <1>0, TrySendCases DEF Goto, Deliver, Disconnected, Room, PlacesOK
  <2>4. UNCHANGED <<sender, receiver, rpc, fault, work>>
    BY <1>5, TrySendCases DEF renderer
  <2> QED
    BY <1>0, <2>1, <2>2, <2>3, <2>4 DEF PlacesOK, work
<1>6. ASSUME NEW t \in Threads, CoalesceCount(t) PROVE PlacesOK'
  BY <1>6, <1>0
     DEF CoalesceCount, Goto, transport, renderer, work, vars, PlacesOK, Pcs, Locks
<1>7. ASSUME NEW t \in Threads, CoalesceGauge(t) PROVE PlacesOK'
  BY <1>7, <1>0
     DEF CoalesceGauge, Goto, transport, renderer, work, vars, PlacesOK, Pcs, Locks
<1>8. ASSUME NEW t \in Threads, CoalesceFailure(t) PROVE PlacesOK'
  <2>1. pc' \in [Threads -> Pcs]
    BY <1>8, <1>0 DEF CoalesceFailure, Goto, PlacesOK, Pcs
  <2>2. lock' \in [Locks -> Threads \cup {None}]
    BY <1>8, <1>0 DEF CoalesceFailure, Goto, PlacesOK, Locks
  <2>3. failed' \in BOOLEAN
    BY <1>8, <1>0 DEF CoalesceFailure, Goto, PlacesOK
  <2>4. UNCHANGED <<sender, receiver, rpc, fault, work>>
    BY <1>8 DEF CoalesceFailure, renderer
  <2> QED
    BY <1>0, <2>1, <2>2, <2>3, <2>4 DEF PlacesOK, work
<1>9. ASSUME NEW t \in Threads, BlockingSend(t) PROVE PlacesOK'
  BY <1>9, <1>0
     DEF BlockingSend, Goto, Deliver, Disconnected, Room, transport, renderer, work, vars,
         PlacesOK, Pcs, Locks
<1>10. ASSUME NEW t \in Threads, DrainDelta(t) PROVE PlacesOK'
  <2>1. pc' \in [Threads -> Pcs]
    BY <1>10, <1>0
       DEF DrainDelta, Release, Hold, Goto, Deliver, Disconnected, AfterDrain, Closing, Room,
           PlacesOK, Pcs
  <2>2. lock' \in [Locks -> Threads \cup {None}]
    BY <1>10, <1>0
       DEF DrainDelta, Release, Hold, Goto, Deliver, Disconnected, AfterDrain, Closing, Room,
           PlacesOK, Locks
  <2>3. failed' \in BOOLEAN
    BY <1>10, <1>0
       DEF DrainDelta, Release, Hold, Goto, Deliver, Disconnected, AfterDrain, Closing, Room,
           PlacesOK
  <2>4. UNCHANGED <<sender, receiver, rpc, fault, work>>
    BY <1>10 DEF DrainDelta, renderer
  <2> QED
    BY <1>0, <2>1, <2>2, <2>3, <2>4 DEF PlacesOK, work
<1>11. ASSUME NEW t \in Threads, DrainFailure(t) PROVE PlacesOK'
  <2>1. pc' \in [Threads -> Pcs]
    BY <1>11, <1>0
       DEF DrainFailure, Release, Hold, Goto, Deliver, Disconnected, AfterDrain, Closing, Room,
           PlacesOK, Pcs
  <2>2. lock' \in [Locks -> Threads \cup {None}]
    BY <1>11, <1>0
       DEF DrainFailure, Release, Hold, Goto, Deliver, Disconnected, AfterDrain, Closing, Room,
           PlacesOK, Locks
  <2>3. failed' \in BOOLEAN
    BY <1>11, <1>0
       DEF DrainFailure, Release, Hold, Goto, Deliver, Disconnected, AfterDrain, Closing, Room,
           PlacesOK
  <2>4. UNCHANGED <<sender, receiver, rpc, fault, work>>
    BY <1>11 DEF DrainFailure, renderer
  <2> QED
    BY <1>0, <2>1, <2>2, <2>3, <2>4 DEF PlacesOK, work
<1>12. ASSUME NEW t \in Threads, DrainGauge(t) PROVE PlacesOK'
  BY <1>12, <1>0
     DEF DrainGauge, Goto, Deliver, Disconnected, AfterDrain, Closing, Room, transport,
         renderer, work, vars, PlacesOK, Pcs, Locks
<1>13. ASSUME NEW w \in Workers, Take(w) PROVE PlacesOK'
  BY <1>13, <1>0, <1>r
     DEF Take, Call, Goto, transport, renderer, work, vars, PlacesOK, Pcs, Locks,
         WorkerStages
<1>14. ASSUME NEW w \in Workers, Chunk(w) PROVE PlacesOK'
  BY <1>14, <1>0
     DEF Chunk, Call, Goto, transport, renderer, work, vars, PlacesOK, Pcs, Locks,
         WorkerStages
<1>15. ASSUME NEW w \in Workers, Hashed(w) PROVE PlacesOK'
  BY <1>15, <1>0
     DEF Hashed, Call, Goto, transport, renderer, work, vars, PlacesOK, Pcs, Locks,
         WorkerStages
<1>16. ASSUME NEW w \in Workers, WorkFailed(w) PROVE PlacesOK'
  BY <1>16, <1>0
     DEF WorkFailed, Call, Goto, transport, renderer, work, vars, PlacesOK, Pcs, Locks,
         WorkerStages
<1>17. ASSUME NEW w \in Workers, Decrement(w) PROVE PlacesOK'
  BY <1>17, <1>0, <1>r
     DEF Decrement, Call, Goto, transport, renderer, work, vars, PlacesOK, Pcs, Locks,
         WorkerStages
<1>18. ASSUME NEW w \in Workers, Leave(w) PROVE PlacesOK'
  BY <1>18, <1>0
     DEF Leave, transport, renderer, work, vars, PlacesOK, Pcs, Locks, WorkerStages
<1>19. ASSUME Started PROVE PlacesOK'
  BY <1>19, <1>0
     DEF Started, Call, Goto, NextFact, transport, renderer, work, vars, PlacesOK, Pcs, Locks,
         WorkerStages, OwnerStages
<1>20. ASSUME OwnerEmits PROVE PlacesOK'
  BY <1>20, <1>0
     DEF OwnerEmits, Call, Goto, NextFact, transport, renderer, work, vars, PlacesOK, Pcs,
         Locks
<1>21. ASSUME CommandReturns PROVE PlacesOK'
  BY <1>21, <1>0
     DEF CommandReturns, OwnerGo, transport, renderer, work, vars, PlacesOK, Pcs, Locks,
         OwnerStages
<1>22. ASSUME Finished PROVE PlacesOK'
  BY <1>22, <1>0
     DEF Finished, Call, Goto, NextFact, OwnerGo, transport, renderer, work, vars, PlacesOK,
         Pcs, Locks, OwnerStages
<1>23. ASSUME Summary PROVE PlacesOK'
  BY <1>23, <1>0
     DEF Summary, Call, Goto, NextFact, OwnerGo, transport, renderer, work, vars, PlacesOK,
         Pcs, Locks, OwnerStages
<1>24. ASSUME Close PROVE PlacesOK'
  BY <1>24, <1>0
     DEF Close, Goto, OwnerGo, transport, renderer, work, vars, PlacesOK, Pcs, Locks,
         OwnerStages
<1>25. ASSUME DropSender PROVE PlacesOK'
  BY <1>25, <1>0 DEF DropSender, Goto, transport, renderer, work, vars, PlacesOK, Pcs, Locks
<1>26. ASSUME Join PROVE PlacesOK'
  BY <1>26, <1>0
     DEF Join, Goto, OwnerGo, transport, renderer, work, vars, PlacesOK, Pcs, Locks,
         OwnerStages
<1>27. ASSUME Exit PROVE PlacesOK'
  BY <1>27, <1>0 DEF Exit, transport, renderer, work, vars, PlacesOK, Pcs, Locks
<1>28. ASSUME Render PROVE PlacesOK'
  BY <1>28, <1>0 DEF Render, transport, renderer, work, vars, PlacesOK, Pcs, Locks
<1>29. ASSUME RenderFails PROVE PlacesOK'
  BY <1>29, <1>0 DEF RenderFails, transport, renderer, work, vars, PlacesOK, Pcs, Locks
<1>30. ASSUME RenderPanics PROVE PlacesOK'
  BY <1>30, <1>0 DEF RenderPanics, transport, renderer, work, vars, PlacesOK, Pcs, Locks
<1>31. ASSUME LeaveLoop PROVE PlacesOK'
  BY <1>31, <1>0 DEF LeaveLoop, transport, renderer, work, vars, PlacesOK, Pcs, Locks
<1>32. ASSUME RenderFinish PROVE PlacesOK'
  BY <1>32, <1>0, SizesAssumption
     DEF RenderFinish, transport, renderer, work, vars, PlacesOK, Pcs, Locks
<1>33. CASE UNCHANGED vars
  BY <1>33, <1>0 DEF PlacesOK, Pcs, Locks, transport, renderer, work, vars
<1> QED
  BY <1>1, <1>2, <1>3, <1>4, <1>5, <1>6, <1>7, <1>8, <1>9, <1>10, <1>11, <1>12, <1>13,
     <1>14, <1>15, <1>16, <1>17, <1>18, <1>19, <1>20, <1>21, <1>22, <1>23, <1>24, <1>25,
     <1>26, <1>27, <1>28, <1>29, <1>30, <1>31, <1>32, <1>33
     DEF Next, WorkerStep, OwnerStep, RendererStep, Transport, Done, Threads

(* What rendering an event does to the state shown, class by class. *)
LEMMA RenderedCases ==
  ASSUME NEW e, Proper(e)
  PROVE  /\ e.kind \in Kinds
         /\ e.kind = "count" => Rendered(e) = [shown EXCEPT !.counts = Plus(@, e.amounts)]
         /\ e.kind = "gauge" => Rendered(e) = [shown EXCEPT !.gauge = e.n]
         /\ e.kind = "failure" => Rendered(e) = [shown EXCEPT !.failures = @ \cup {e.n}]
         /\ e.kind = "fact" => Rendered(e) = [shown EXCEPT !.facts = Append(@, e.n)]
         /\ e.kind = "terminal" =>
              Rendered(e) = [shown EXCEPT !.facts = Append(@, e.n), !.terminal = TRUE]
  BY DEF Rendered, Proper, Events, Kinds

(* What is shown keeps its type. *)
LEMMA RenderedTypes ==
  ASSUME NEW e, Proper(e),
         shown \in [counts : [Counters -> Nat], gauge : Nat, facts : Seq(Nat),
                    failures : SUBSET Workers, terminal : BOOLEAN]
  PROVE  Rendered(e) \in [counts : [Counters -> Nat], gauge : Nat, facts : Seq(Nat),
                          failures : SUBSET Workers, terminal : BOOLEAN]
<1>1. e.kind \in Kinds /\ e.amounts \in [Counters -> Nat]
  BY DEF Proper, Events
<1>2. CASE e.kind = "count"
  <2>1. Plus(shown.counts, e.amounts) \in [Counters -> Nat]
    BY <1>1, AmountsAreNatural
  <2>2. Rendered(e) = [shown EXCEPT !.counts = Plus(@, e.amounts)]
    BY <1>2, RenderedCases
  <2> QED
    BY <2>1, <2>2
<1>3. CASE e.kind = "gauge"
  <2>1. Rendered(e) = [shown EXCEPT !.gauge = e.n] /\ e.n \in Nat
    BY <1>3, RenderedCases DEF Proper
  <2> QED
    BY <2>1
<1>4. CASE e.kind = "failure"
  <2>1. Rendered(e) = [shown EXCEPT !.failures = @ \cup {e.n}] /\ e.n \in Workers
    BY <1>4, RenderedCases DEF Proper
  <2> QED
    BY <2>1
<1>5. CASE e.kind = "fact"
  <2>1. Rendered(e) = [shown EXCEPT !.facts = Append(@, e.n)] /\ e.n \in Nat
    BY <1>5, RenderedCases DEF Proper
  <2>2. Append(shown.facts, e.n) \in Seq(Nat)
    BY <2>1
  <2> QED
    BY <2>1, <2>2
<1>6. CASE e.kind = "terminal"
  <2>1. /\ Rendered(e) = [shown EXCEPT !.facts = Append(@, e.n), !.terminal = TRUE]
        /\ e.n \in Nat
    BY <1>6, RenderedCases DEF Proper
  <2>2. Append(shown.facts, e.n) \in Seq(Nat)
    BY <2>1
  <2> QED
    BY <2>1, <2>2
<1> QED
  BY <1>1, <1>2, <1>3, <1>4, <1>5, <1>6 DEF Kinds

(* What emit notes of an event keeps its type. *)
LEMMA NotedTypes ==
  ASSUME NEW e, Proper(e), emitted \in [counts : [Counters -> Nat], facts : SUBSET Nat]
  PROVE  Noted(e) \in [counts : [Counters -> Nat], facts : SUBSET Nat]
<1>1. Plus(emitted.counts, e.amounts) \in [Counters -> Nat]
  BY AmountsAreNatural DEF Proper, Events
<1>2. emitted.facts \cup {n \in {e.n} : IsFact(e)} \in SUBSET Nat
  BY DEF Proper, IsFact
<1> QED
  BY <1>1, <1>2 DEF Noted

(* A step that sends finds room, so the inbox stays within its size. *)
LEMMA InboxTakes ==
  ASSUME NEW q, NEW r, Carried(q), Len(q) <= InboxSize,
         r = q \/ \E e : Proper(e) /\ Len(q) < InboxSize /\ r = Append(q, e)
  PROVE  Carried(r) /\ Len(r) <= InboxSize
<1>1. CASE r = q
  BY <1>1
<1>2. ASSUME NEW e, Proper(e), Len(q) < InboxSize, r = Append(q, e)
      PROVE  Carried(r) /\ Len(r) <= InboxSize
  <2>1. Carried(Append(q, e)) /\ Len(Append(q, e)) = Len(q) + 1 /\ Len(q) \in Nat
    BY <1>2, CarriedSteps, Zenon
  <2> QED
    BY <1>2, <2>1, SizesAssumption
<1> QED
  BY <1>1, <1>2

(* Every step carries proper events only, and no more than the inbox holds. *)
LEMMA CargoStepInv ==
  ASSUME TypeOK, Shape, WorkerInv, OwnerInv, ReadersInv, [Next]_vars
  PROVE  CargoOK'
<1>0. /\ Carried(inbox) /\ Len(inbox) \in Nat /\ Len(inbox) <= InboxSize
      /\ deltas \in [Counters -> Nat] /\ gauge \in Nat \cup {None}
      /\ Carried(failures) /\ \A i \in DOMAIN failures : failures[i].kind = "failure"
      /\ cur \in [Threads -> Events] /\ \A t \in Threads : Proper(cur[t])
      /\ emitted \in [counts : [Counters -> Nat], facts : SUBSET Nat]
      /\ shown \in [counts : [Counters -> Nat], gauge : Nat, facts : Seq(Nat),
                    failures : SUBSET Workers, terminal : BOOLEAN]
      /\ readers \in Nat /\ facts \in Nat /\ Cardinality(Workers) \in Nat
      /\ readers \in 0 .. Cardinality(Workers) /\ InboxSize \in Nat \ {0}
  <2>1. PlacesOK /\ CargoOK
    BY TypesSplit
  <2> QED
    BY <2>1, SizesAssumption, FS_CardinalityType DEF PlacesOK, CargoOK, Carried
<1>w. Owner \in Threads /\ \A w \in Workers : w \in Threads
  BY DEF Threads
<1>1. ASSUME NEW t \in Threads, EmitStart(t) PROVE CargoOK'
  BY <1>1, <1>0 DEF EmitStart, CargoOK, transport, renderer
<1>2. ASSUME NEW t \in Threads, FlushDelta(t) PROVE CargoOK'
  <2>1. /\ Proper(Count(Only(Min(Pending), deltas[Min(Pending)])))
        /\ [deltas EXCEPT ![Min(Pending)] = 0] \in [Counters -> Nat]
    BY <1>0, MergedAmounts, EventsAreProper
  <2>2. deltas' \in [Counters -> Nat]
    BY <1>2, <1>0, <2>1 DEF FlushDelta
  <2>8. inbox' = inbox \/ \E e : Proper(e) /\ Room /\ inbox' = Append(inbox, e)
    BY <1>2, <1>0, <2>1 DEF Disconnected, Deliver, FlushDelta, Room
  <2>9. Carried(inbox') /\ Len(inbox') <= InboxSize
    BY <1>0, <2>8, InboxTakes DEF Room
  <2>10. UNCHANGED <<gauge, failures, cur, shown, emitted>>
    BY <1>2 DEF FlushDelta, renderer
  <2> QED
    BY <1>0, <2>2, <2>9, <2>10 DEF CargoOK
<1>3. ASSUME NEW t \in Threads, FlushFailure(t) PROVE CargoOK'
  <2>1. failures # <<>> =>
          /\ Carried(Tail(failures)) /\ Proper(Head(failures))
          /\ \A i \in DOMAIN Tail(failures) : Tail(failures)[i].kind = "failure"
    <3> SUFFICES ASSUME failures # <<>>
                 PROVE  /\ Carried(Tail(failures)) /\ Proper(Head(failures))
                        /\ \A i \in DOMAIN Tail(failures) : Tail(failures)[i].kind = "failure"
      OBVIOUS
    <3>1. failures \in Seq(Events)
      BY <1>0 DEF Carried
    <3>2. /\ DOMAIN Tail(failures) = 1 .. Len(failures) - 1
          /\ DOMAIN failures = 1 .. Len(failures)
          /\ Len(failures) \in Nat
          /\ \A i \in 1 .. Len(failures) - 1 : Tail(failures)[i] = failures[i + 1]
      BY <3>1, TailFacts
    <3>3. \A i \in 1 .. Len(failures) - 1 : i + 1 \in DOMAIN failures
      BY <3>2
    <3> QED
      BY <1>0, <3>2, <3>3, CarriedSteps
  <2>2. Carried(failures') /\ \A i \in DOMAIN failures' : failures'[i].kind = "failure"
    <3>1. \/ failures' = failures \/ failures' = <<>>
          \/ failures # <<>> /\ failures' = Tail(failures)
      BY <1>3 DEF FlushFailure, Disconnected
    <3>2. CASE failures' = failures
      BY <1>0, <3>2
    <3>3. CASE failures' = <<>>
      <4>1. Carried(failures')
        BY <3>3, CarriedSteps, Zenon
      <4>2. \A i \in DOMAIN failures' : failures'[i].kind = "failure"
        BY <3>3
      <4> QED
        BY <4>1, <4>2
    <3>4. CASE failures # <<>> /\ failures' = Tail(failures)
      BY <2>1, <3>4
    <3> QED
      BY <3>1, <3>2, <3>3, <3>4
  <2>8. inbox' = inbox \/ \E e : Proper(e) /\ Room /\ inbox' = Append(inbox, e)
    BY <1>3, <1>0, <2>1 DEF Disconnected, Deliver, FlushFailure, Room
  <2>9. Carried(inbox') /\ Len(inbox') <= InboxSize
    BY <1>0, <2>8, InboxTakes DEF Room
  <2>10. UNCHANGED <<gauge, deltas, cur, shown, emitted>>
    BY <1>3 DEF FlushFailure, renderer
  <2> QED
    BY <1>0, <2>2, <2>9, <2>10 DEF CargoOK
<1>4. ASSUME NEW t \in Threads, FlushGauge(t) PROVE CargoOK'
  <2>1. gauge # None => Proper(Gauge(gauge))
    BY <1>0, EventsAreProper
  <2>2. gauge' \in Nat \cup {None}
    BY <1>4, <1>0 DEF FlushGauge
  <2>8. inbox' = inbox \/ \E e : Proper(e) /\ Room /\ inbox' = Append(inbox, e)
    BY <1>4, <1>0, <2>1 DEF Disconnected, Deliver, FlushGauge, Room
  <2>9. Carried(inbox') /\ Len(inbox') <= InboxSize
    BY <1>0, <2>8, InboxTakes DEF Room
  <2>10. UNCHANGED <<failures, deltas, cur, shown, emitted>>
    BY <1>4 DEF FlushGauge, renderer
  <2> QED
    BY <1>0, <2>2, <2>9, <2>10 DEF CargoOK
<1>5. ASSUME NEW t \in Threads, TrySend(t) PROVE CargoOK'
  <2>8. inbox' = inbox \/ \E e : Proper(e) /\ Room /\ inbox' = Append(inbox, e)
    BY <1>5, <1>0, TrySendCases DEF Disconnected, Deliver, Room
  <2>9. Carried(inbox') /\ Len(inbox') <= InboxSize
    BY <1>0, <2>8, InboxTakes DEF Room
  <2>10. UNCHANGED <<deltas, gauge, failures, cur, shown, emitted>>
    BY <1>5, TrySendCases DEF renderer
  <2> QED
    BY <1>0, <2>9, <2>10 DEF CargoOK
<1>6. ASSUME NEW t \in Threads, CoalesceCount(t) PROVE CargoOK'
  <2>1. cur[t].amounts \in [Counters -> Nat]
    BY <1>0 DEF Events
  <2>2. deltas' \in [Counters -> Nat]
    BY <1>6, <1>0, <2>1, AmountsAreNatural DEF CoalesceCount
  <2> QED
    BY <1>6, <1>0, <2>2 DEF CoalesceCount, CargoOK, renderer
<1>7. ASSUME NEW t \in Threads, CoalesceGauge(t) PROVE CargoOK'
  <2>1. cur[t].kind = "gauge"
    BY <1>7 DEF CoalesceGauge, WorkerInv, OwnerInv, Threads
  <2>2. gauge' \in Nat
    BY <1>7, <1>0, <2>1 DEF CoalesceGauge, Proper
  <2> QED
    BY <1>7, <1>0, <2>2 DEF CoalesceGauge, CargoOK, renderer
<1>8. ASSUME NEW t \in Threads, CoalesceFailure(t) PROVE CargoOK'
  <2>1. cur[t].kind = "failure"
    BY <1>8 DEF CoalesceFailure, WorkerInv, OwnerInv, Threads
  <2>2. failures' = failures \/ failures' = Append(failures, cur[t])
    BY <1>8 DEF CoalesceFailure
  <2>3. Carried(failures')
    <3>1. Carried(Append(failures, cur[t]))
      BY <1>0, CarriedSteps, Zenon
    <3> QED
      BY <1>0, <2>2, <3>1
  <2>4. \A i \in DOMAIN failures' : failures'[i].kind = "failure"
    <3>1. failures \in Seq(Events) /\ cur[t] \in Events
      BY <1>0 DEF Carried
    <3>2. /\ DOMAIN Append(failures, cur[t]) = 1 .. Len(failures) + 1
          /\ DOMAIN failures = 1 .. Len(failures) /\ Len(failures) \in Nat
          /\ \A i \in 1 .. Len(failures) : Append(failures, cur[t])[i] = failures[i]
          /\ Append(failures, cur[t])[Len(failures) + 1] = cur[t]
      BY <3>1, AppendFacts
    <3>3. \A i \in 1 .. Len(failures) + 1 : i \in DOMAIN failures \/ i = Len(failures) + 1
      BY <3>2
    <3> QED
      BY <1>0, <2>1, <2>2, <3>2, <3>3
  <2> QED
    BY <1>8, <1>0, <2>3, <2>4 DEF CoalesceFailure, CargoOK, renderer
<1>9. ASSUME NEW t \in Threads, BlockingSend(t) PROVE CargoOK'
  <2>8. inbox' = inbox \/ \E e : Proper(e) /\ Room /\ inbox' = Append(inbox, e)
    BY <1>9, <1>0 DEF Disconnected, Deliver, BlockingSend, Room
  <2>9. Carried(inbox') /\ Len(inbox') <= InboxSize
    BY <1>0, <2>8, InboxTakes DEF Room
  <2>10. UNCHANGED <<deltas, gauge, failures, cur, shown, emitted>>
    BY <1>9 DEF BlockingSend, renderer
  <2> QED
    BY <1>0, <2>9, <2>10 DEF CargoOK
<1>10. ASSUME NEW t \in Threads, DrainDelta(t) PROVE CargoOK'
  <2>1. /\ Proper(Count(Only(Min(Pending), deltas[Min(Pending)])))
        /\ [deltas EXCEPT ![Min(Pending)] = 0] \in [Counters -> Nat]
    BY <1>0, MergedAmounts, EventsAreProper
  <2>2. deltas' \in [Counters -> Nat]
    BY <1>10, <1>0, <2>1 DEF DrainDelta
  <2>8. inbox' = inbox \/ \E e : Proper(e) /\ Room /\ inbox' = Append(inbox, e)
    BY <1>10, <1>0, <2>1 DEF Disconnected, Deliver, DrainDelta, Room
  <2>9. Carried(inbox') /\ Len(inbox') <= InboxSize
    BY <1>0, <2>8, InboxTakes DEF Room
  <2>10. UNCHANGED <<gauge, failures, cur, shown, emitted>>
    BY <1>10 DEF DrainDelta, renderer
  <2> QED
    BY <1>0, <2>2, <2>9, <2>10 DEF CargoOK
<1>11. ASSUME NEW t \in Threads, DrainFailure(t) PROVE CargoOK'
  <2>1. failures # <<>> =>
          /\ Carried(Tail(failures)) /\ Proper(Head(failures))
          /\ \A i \in DOMAIN Tail(failures) : Tail(failures)[i].kind = "failure"
    <3> SUFFICES ASSUME failures # <<>>
                 PROVE  /\ Carried(Tail(failures)) /\ Proper(Head(failures))
                        /\ \A i \in DOMAIN Tail(failures) : Tail(failures)[i].kind = "failure"
      OBVIOUS
    <3>1. failures \in Seq(Events)
      BY <1>0 DEF Carried
    <3>2. /\ DOMAIN Tail(failures) = 1 .. Len(failures) - 1
          /\ DOMAIN failures = 1 .. Len(failures)
          /\ Len(failures) \in Nat
          /\ \A i \in 1 .. Len(failures) - 1 : Tail(failures)[i] = failures[i + 1]
      BY <3>1, TailFacts
    <3>3. \A i \in 1 .. Len(failures) - 1 : i + 1 \in DOMAIN failures
      BY <3>2
    <3> QED
      BY <1>0, <3>2, <3>3, CarriedSteps
  <2>2. Carried(failures') /\ \A i \in DOMAIN failures' : failures'[i].kind = "failure"
    <3>1. \/ failures' = failures \/ failures' = <<>>
          \/ failures # <<>> /\ failures' = Tail(failures)
      BY <1>11 DEF DrainFailure, Disconnected
    <3>2. CASE failures' = failures
      BY <1>0, <3>2
    <3>3. CASE failures' = <<>>
      <4>1. Carried(failures')
        BY <3>3, CarriedSteps, Zenon
      <4>2. \A i \in DOMAIN failures' : failures'[i].kind = "failure"
        BY <3>3
      <4> QED
        BY <4>1, <4>2
    <3>4. CASE failures # <<>> /\ failures' = Tail(failures)
      BY <2>1, <3>4
    <3> QED
      BY <3>1, <3>2, <3>3, <3>4
  <2>8. inbox' = inbox \/ \E e : Proper(e) /\ Room /\ inbox' = Append(inbox, e)
    BY <1>11, <1>0, <2>1 DEF Disconnected, Deliver, DrainFailure, Room
  <2>9. Carried(inbox') /\ Len(inbox') <= InboxSize
    BY <1>0, <2>8, InboxTakes DEF Room
  <2>10. UNCHANGED <<gauge, deltas, cur, shown, emitted>>
    BY <1>11 DEF DrainFailure, renderer
  <2> QED
    BY <1>0, <2>2, <2>9, <2>10 DEF CargoOK
<1>12. ASSUME NEW t \in Threads, DrainGauge(t) PROVE CargoOK'
  <2>1. gauge # None => Proper(Gauge(gauge))
    BY <1>0, EventsAreProper
  <2>2. gauge' \in Nat \cup {None}
    BY <1>12, <1>0 DEF DrainGauge
  <2>8. inbox' = inbox \/ \E e : Proper(e) /\ Room /\ inbox' = Append(inbox, e)
    BY <1>12, <1>0, <2>1 DEF Disconnected, Deliver, DrainGauge, Room
  <2>9. Carried(inbox') /\ Len(inbox') <= InboxSize
    BY <1>0, <2>8, InboxTakes DEF Room
  <2>10. UNCHANGED <<failures, deltas, cur, shown, emitted>>
    BY <1>12 DEF DrainGauge, renderer
  <2> QED
    BY <1>0, <2>2, <2>9, <2>10 DEF CargoOK
<1>13. ASSUME NEW w \in Workers, Take(w) PROVE CargoOK'
  <2>1. Proper(Gauge(readers + 1))
    BY <1>0, EventsAreProper
  <2>2. /\ cur' = [cur EXCEPT ![w] = Gauge(readers + 1)]
        /\ emitted' = Noted(Gauge(readers + 1)) /\ UNCHANGED <<inbox, deltas, gauge, failures, shown>>
    BY <1>13 DEF Take, Call, transport, renderer
  <2>3. cur' \in [Threads -> Events] /\ \A t \in Threads : Proper(cur'[t])
    BY <1>0, <1>w, <2>1, <2>2 DEF Proper
  <2> QED
    BY <1>0, <2>1, <2>2, <2>3, NotedTypes DEF CargoOK
<1>14. ASSUME NEW w \in Workers, Chunk(w) PROVE CargoOK'
  <2>1. Proper(Count(Only(Max(Counters), 1)))
    BY <1>0, EventsAreProper, AmountsAreNatural
  <2>2. /\ cur' = [cur EXCEPT ![w] = Count(Only(Max(Counters), 1))]
        /\ emitted' = Noted(Count(Only(Max(Counters), 1))) /\ UNCHANGED <<inbox, deltas, gauge, failures, shown>>
    BY <1>14 DEF Chunk, Call, transport, renderer
  <2>3. cur' \in [Threads -> Events] /\ \A t \in Threads : Proper(cur'[t])
    BY <1>0, <1>w, <2>1, <2>2 DEF Proper
  <2> QED
    BY <1>0, <2>1, <2>2, <2>3, NotedTypes DEF CargoOK
<1>15. ASSUME NEW w \in Workers, Hashed(w) PROVE CargoOK'
  <2>1. Proper(Count(Only(Min(Counters), 1)))
    BY <1>0, EventsAreProper, AmountsAreNatural
  <2>2. /\ cur' = [cur EXCEPT ![w] = Count(Only(Min(Counters), 1))]
        /\ emitted' = Noted(Count(Only(Min(Counters), 1))) /\ UNCHANGED <<inbox, deltas, gauge, failures, shown>>
    BY <1>15 DEF Hashed, Call, transport, renderer
  <2>3. cur' \in [Threads -> Events] /\ \A t \in Threads : Proper(cur'[t])
    BY <1>0, <1>w, <2>1, <2>2 DEF Proper
  <2> QED
    BY <1>0, <2>1, <2>2, <2>3, NotedTypes DEF CargoOK
<1>16. ASSUME NEW w \in Workers, WorkFailed(w) PROVE CargoOK'
  <2>1. Proper(Failure(w))
    BY <1>0, EventsAreProper
  <2>2. /\ cur' = [cur EXCEPT ![w] = Failure(w)]
        /\ emitted' = Noted(Failure(w)) /\ UNCHANGED <<inbox, deltas, gauge, failures, shown>>
    BY <1>16 DEF WorkFailed, Call, transport, renderer
  <2>3. cur' \in [Threads -> Events] /\ \A t \in Threads : Proper(cur'[t])
    BY <1>0, <1>w, <2>1, <2>2 DEF Proper
  <2> QED
    BY <1>0, <2>1, <2>2, <2>3, NotedTypes DEF CargoOK
<1>17. ASSUME NEW w \in Workers, Decrement(w) PROVE CargoOK'
  <2>0. readers - 1 \in Nat
    <3>1. w \in Reading /\ Reading \in SUBSET Workers
      BY <1>17 DEF Decrement, Reading
    <3>2. Cardinality(Reading) # 0
      BY <3>1, ReadersBounded, FS_EmptySet
    <3> QED
      BY <1>0, <3>2 DEF ReadersInv
  <2>1. Proper(Gauge(readers - 1))
    BY <1>0, <2>0, EventsAreProper
  <2>2. /\ cur' = [cur EXCEPT ![w] = Gauge(readers - 1)]
        /\ emitted' = Noted(Gauge(readers - 1)) /\ UNCHANGED <<inbox, deltas, gauge, failures, shown>>
    BY <1>17 DEF Decrement, Call, transport, renderer
  <2>3. cur' \in [Threads -> Events] /\ \A t \in Threads : Proper(cur'[t])
    BY <1>0, <1>w, <2>1, <2>2 DEF Proper
  <2> QED
    BY <1>0, <2>1, <2>2, <2>3, NotedTypes DEF CargoOK
<1>18. ASSUME NEW w \in Workers, Leave(w) PROVE CargoOK'
  BY <1>18, <1>0 DEF Leave, transport, renderer, work, vars, CargoOK
<1>19. ASSUME Started PROVE CargoOK'
  <2>1. Proper(Fact(facts + 1))
    BY <1>0, EventsAreProper
  <2>2. /\ cur' = [cur EXCEPT ![Owner] = Fact(facts + 1)]
        /\ emitted' = Noted(Fact(facts + 1)) /\ UNCHANGED <<inbox, deltas, gauge, failures, shown>>
    BY <1>19 DEF Started, Call, transport, renderer
  <2>3. cur' \in [Threads -> Events] /\ \A t \in Threads : Proper(cur'[t])
    BY <1>0, <1>w, <2>1, <2>2 DEF Proper
  <2> QED
    BY <1>0, <2>1, <2>2, <2>3, NotedTypes DEF CargoOK
<1>20. ASSUME OwnerEmits PROVE CargoOK'
  <2>1. Proper(Fact(facts + 1)) /\ Proper(Count([k \in Counters |-> 1]))
    <3>1. facts + 1 \in Nat /\ [k \in Counters |-> 1] \in [Counters -> Nat]
      BY <1>0
    <3> QED
      BY <3>1, EventsAreProper
  <2>2. PICK e : Proper(e) /\ cur' = [cur EXCEPT ![Owner] = e] /\ emitted' = Noted(e)
    BY <1>20, <2>1 DEF OwnerEmits, Call
  <2>3. UNCHANGED <<inbox, deltas, gauge, failures, shown>>
    BY <1>20 DEF OwnerEmits, Call, transport, renderer
  <2>4. cur' \in [Threads -> Events] /\ \A t \in Threads : Proper(cur'[t])
    BY <1>0, <1>w, <2>2 DEF Proper
  <2> QED
    BY <1>0, <2>2, <2>3, <2>4, NotedTypes DEF CargoOK
<1>21. ASSUME CommandReturns PROVE CargoOK'
  BY <1>21, <1>0 DEF CommandReturns, OwnerGo, transport, renderer, work, vars, CargoOK
<1>22. ASSUME Finished PROVE CargoOK'
  <2>1. Proper(Fact(facts + 1))
    BY <1>0, EventsAreProper
  <2>2. /\ cur' = [cur EXCEPT ![Owner] = Fact(facts + 1)]
        /\ emitted' = Noted(Fact(facts + 1)) /\ UNCHANGED <<inbox, deltas, gauge, failures, shown>>
    BY <1>22 DEF Finished, Call, transport, renderer
  <2>3. cur' \in [Threads -> Events] /\ \A t \in Threads : Proper(cur'[t])
    BY <1>0, <1>w, <2>1, <2>2 DEF Proper
  <2> QED
    BY <1>0, <2>1, <2>2, <2>3, NotedTypes DEF CargoOK
<1>23. ASSUME Summary PROVE CargoOK'
  <2>1. Proper(Terminal(facts + 1))
    BY <1>0, EventsAreProper
  <2>2. /\ cur' = [cur EXCEPT ![Owner] = Terminal(facts + 1)]
        /\ emitted' = Noted(Terminal(facts + 1)) /\ UNCHANGED <<inbox, deltas, gauge, failures, shown>>
    BY <1>23 DEF Summary, Call, transport, renderer
  <2>3. cur' \in [Threads -> Events] /\ \A t \in Threads : Proper(cur'[t])
    BY <1>0, <1>w, <2>1, <2>2 DEF Proper
  <2> QED
    BY <1>0, <2>1, <2>2, <2>3, NotedTypes DEF CargoOK
<1>24. ASSUME Close PROVE CargoOK'
  BY <1>24, <1>0 DEF Close, Goto, OwnerGo, transport, renderer, work, vars, CargoOK
<1>25. ASSUME DropSender PROVE CargoOK'
  BY <1>25, <1>0 DEF DropSender, Goto, transport, renderer, work, vars, CargoOK
<1>26. ASSUME Join PROVE CargoOK'
  BY <1>26, <1>0 DEF Join, Goto, OwnerGo, transport, renderer, work, vars, CargoOK
<1>27. ASSUME Exit PROVE CargoOK'
  BY <1>27, <1>0 DEF Exit, transport, renderer, work, vars, CargoOK
<1>28. ASSUME Render PROVE CargoOK'
  <2>1. Carried(inbox') /\ Len(inbox') <= InboxSize /\ Proper(Head(inbox))
    BY <1>28, <1>0, CarriedSteps DEF Render
  <2>2. shown' \in [counts : [Counters -> Nat], gauge : Nat, facts : Seq(Nat),
                    failures : SUBSET Workers, terminal : BOOLEAN]
    BY <1>28, <1>0, <2>1, RenderedTypes DEF Render
  <2> QED
    BY <1>28, <1>0, <2>1, <2>2 DEF Render, CargoOK
<1>29. ASSUME RenderFails PROVE CargoOK'
  <2>1. Carried(inbox') /\ Len(inbox') <= InboxSize
    <3>1. inbox' = <<>> \/ (inbox # <<>> /\ inbox' = Tail(inbox))
      BY <1>29 DEF RenderFails
    <3>2. CASE inbox' = <<>>
      <4>1. Carried(inbox')
        BY <3>2, CarriedSteps, Zenon
      <4>2. Len(inbox') = 0
        BY <3>2
      <4> QED
        BY <1>0, <4>1, <4>2
    <3>3. CASE inbox # <<>> /\ inbox' = Tail(inbox)
      <4>1. Carried(Tail(inbox)) /\ Len(Tail(inbox)) = Len(inbox) - 1
        BY <1>0, <3>3, CarriedSteps, Zenon
      <4> QED
        BY <1>0, <3>3, <4>1
    <3> QED
      BY <3>1, <3>2, <3>3
  <2> QED
    BY <1>29, <1>0, <2>1 DEF RenderFails, CargoOK
<1>30. ASSUME RenderPanics PROVE CargoOK'
  <2>1. Carried(inbox') /\ Len(inbox') <= InboxSize
    <3>1. inbox' = <<>> \/ (inbox # <<>> /\ inbox' = Tail(inbox))
      BY <1>30 DEF RenderPanics
    <3>2. CASE inbox' = <<>>
      <4>1. Carried(inbox')
        BY <3>2, CarriedSteps, Zenon
      <4>2. Len(inbox') = 0
        BY <3>2
      <4> QED
        BY <1>0, <4>1, <4>2
    <3>3. CASE inbox # <<>> /\ inbox' = Tail(inbox)
      <4>1. Carried(Tail(inbox)) /\ Len(Tail(inbox)) = Len(inbox) - 1
        BY <1>0, <3>3, CarriedSteps, Zenon
      <4> QED
        BY <1>0, <3>3, <4>1
    <3> QED
      BY <3>1, <3>2, <3>3
  <2> QED
    BY <1>30, <1>0, <2>1 DEF RenderPanics, CargoOK
<1>31. ASSUME LeaveLoop PROVE CargoOK'
  <2>1. Carried(inbox') /\ Len(inbox') <= InboxSize
    <3>1. inbox' = <<>> \/ (inbox # <<>> /\ inbox' = Tail(inbox))
      BY <1>31 DEF LeaveLoop
    <3>2. CASE inbox' = <<>>
      <4>1. Carried(inbox')
        BY <3>2, CarriedSteps, Zenon
      <4>2. Len(inbox') = 0
        BY <3>2
      <4> QED
        BY <1>0, <4>1, <4>2
    <3>3. CASE inbox # <<>> /\ inbox' = Tail(inbox)
      <4>1. Carried(Tail(inbox)) /\ Len(Tail(inbox)) = Len(inbox) - 1
        BY <1>0, <3>3, CarriedSteps, Zenon
      <4> QED
        BY <1>0, <3>3, <4>1
    <3> QED
      BY <3>1, <3>2, <3>3
  <2> QED
    BY <1>31, <1>0, <2>1 DEF LeaveLoop, CargoOK
<1>32. ASSUME RenderFinish PROVE CargoOK'
  BY <1>32, <1>0 DEF RenderFinish, transport, renderer, work, vars, CargoOK
<1>33. CASE UNCHANGED vars
  BY <1>33, <1>0 DEF CargoOK, transport, renderer, work, vars
<1> QED
  BY <1>1, <1>2, <1>3, <1>4, <1>5, <1>6, <1>7, <1>8, <1>9, <1>10, <1>11, <1>12, <1>13,
     <1>14, <1>15, <1>16, <1>17, <1>18, <1>19, <1>20, <1>21, <1>22, <1>23, <1>24, <1>25,
     <1>26, <1>27, <1>28, <1>29, <1>30, <1>31, <1>32, <1>33
     DEF Next, WorkerStep, OwnerStep, RendererStep, Transport, Done, Threads

(* A command that has not started satisfies the invariant. *)
LEMMA BoundaryInit == Init => BoundaryInv
<1> SUFFICES ASSUME Init PROVE BoundaryInv
  OBVIOUS
<1>1. Owner \in Threads /\ \A w \in Workers : w \in Threads /\ w # Owner
  BY ThreadsAssumption DEF Threads
<1>2. Zero \in [Counters -> Nat] /\ Proper(Fact(0)) /\ Fact(0) \in Events
  BY EventsAreProper DEF Proper
<1>3. <<>> \in Seq(Events) /\ Len(<<>>) = 0 /\ DOMAIN <<>> = {} /\ <<>> \in Seq(Nat)
  OBVIOUS
<1>4. Reading = {} /\ Cardinality({}) = 0
  BY <1>1, FS_EmptySet DEF Init, Reading
<1>5. Cardinality(Workers) \in Nat
  BY SizesAssumption, FS_CardinalityType
<1>6. TypeOK
  <2>1. lock \in [Locks -> Threads \cup {None}] /\ cur \in [Threads -> Events]
    BY <1>2 DEF Init
  <2>2. shown.counts \in [Counters -> Nat] /\ emitted.counts \in [Counters -> Nat]
    BY <1>2 DEF Init
  <2>3. inbox \in Seq(Events) /\ Len(inbox) <= InboxSize /\ failures \in Seq(Events)
    BY <1>3, SizesAssumption DEF Init
  <2>4. /\ sender \in {"open", "closed"} /\ receiver \in BOOLEAN /\ failed \in BOOLEAN
        /\ exit \in {"none", "success", "findings", "error"}
    BY DEF Init
  <2>5. deltas \in [Counters -> Nat] /\ gauge \in Nat \cup {None}
    BY <1>2 DEF Init
  <2>6. readers \in 0 .. Cardinality(Workers)
    BY <1>5 DEF Init
  <2> QED
    BY <2>1, <2>2, <2>3, <2>4, <2>5, <2>6, Zenon DEF TypeOK
<1>7. Shape
  <2>1. /\ pc \in [Threads -> Pcs] /\ stage \in [Threads -> WorkerStages \cup OwnerStages]
    BY DEF Init, Pcs, WorkerStages, OwnerStages
  <2>2. /\ shown \in [counts : [Counters -> Nat], gauge : Nat, facts : Seq(Nat),
                      failures : SUBSET Workers, terminal : BOOLEAN]
        /\ emitted \in [counts : [Counters -> Nat], facts : SUBSET Nat]
    BY <1>2, <1>3 DEF Init
  <2> QED
    BY <1>2, <1>3, <2>1, <2>2, SizesAssumption DEF Init, Shape
<1>8. WorkerInv
  BY <1>1 DEF Init, WorkerInv, WorkerStages, Returned
<1>9. OwnerInv
  BY <1>1 DEF Init, OwnerInv, OwnerStages, Draining
<1>10. ReadersInv /\ FailuresInv
  BY <1>3, <1>4 DEF Init, ReadersInv, FailuresInv
<1>11. HealthInv
  BY <1>1 DEF Init, HealthInv
<1> QED
  BY <1>6, <1>7, <1>8, <1>9, <1>10, <1>11 DEF BoundaryInv

(* Every step keeps the invariant. *)
LEMMA BoundaryStep == BoundaryInv /\ [Next]_vars => BoundaryInv'
<1> SUFFICES ASSUME BoundaryInv, [Next]_vars PROVE BoundaryInv'
  OBVIOUS
<1>1. TypeOK /\ Shape /\ WorkerInv /\ OwnerInv /\ ReadersInv /\ FailuresInv /\ HealthInv
  BY DEF BoundaryInv
<1>2. WorkerInv' /\ OwnerInv' /\ HealthInv' /\ ReadersInv' /\ FailuresInv'
  BY <1>1, WorkerStepInv, OwnerStepInv, HealthStepInv, ReadersStepInv, FailuresStepInv
<1>3. PlacesOK' /\ CargoOK'
  BY <1>1, <1>2, PlacesStepInv, CargoStepInv
<1>4. TypeOK' /\ Shape'
  BY <1>3 DEF TypeOK, Shape, PlacesOK, CargoOK, Carried
<1> QED
  BY <1>2, <1>4 DEF BoundaryInv

(* The invariant of the reporting boundary: where emit can be, what the     *)
(* side buffers hold and what a renderer that is gone means.                *)
THEOREM BoundaryCorrect == Spec => []BoundaryInv
  BY BoundaryInit, BoundaryStep, PTL DEF Spec

(* Transport, threads and renderer keep their types, and the inbox its      *)
(* bound, for any number of workers and any sizes.                          *)
THEOREM TypesHold == Spec => []TypeOK
<1>1. BoundaryInv => TypeOK
  BY DEF BoundaryInv
<1> QED
  BY <1>1, BoundaryCorrect, PTL

(* A worker never waits for the terminal: it is never in the blocking send, *)
(* because the side buffer has a place for the one failure of each worker,  *)
(* and it is not in emit any more when the owner drains.                    *)
THEOREM WorkersDoNotWait == Spec => []WorkersNeverWait
<1>1. BoundaryInv => WorkersNeverWait
  <2> SUFFICES ASSUME BoundaryInv, NEW w \in Workers
               PROVE  /\ pc[w] # "block"
                      /\ pc[Owner] \in Draining => pc[w] = "run"
    BY DEF WorkersNeverWait, Draining
  <2>1. pc[w] # "block"
    BY DEF BoundaryInv, WorkerInv
  <2>2. pc[Owner] \in Draining => pc[w] = "run"
    BY DEF BoundaryInv, WorkerInv, OwnerInv, Gone, Returned
  <2> QED
    BY <2>1, <2>2
<1> QED
  BY <1>1, BoundaryCorrect, PTL

(* A renderer that failed or panicked makes the exit a failure, and nothing *)
(* but a fault of the renderer raises the transport's flag.                 *)
THEOREM BrokenPipeIsReported == Spec => []BrokenPipeReported
<1>1. BoundaryInv => BrokenPipeReported
  BY DEF BoundaryInv, HealthInv, BrokenPipeReported
<1> QED
  BY <1>1, BoundaryCorrect, PTL

-----------------------------------------------------------------------------
(* What a healthy renderer is owed, and gets. *)

(* A thread in emit, or draining, has a renderer to send to, if none failed.*)
LEMMA HealthySends ==
  ASSUME BoundaryInv, ~fault, NEW t \in Threads, pc[t] \notin {"run", "join"}
  PROVE  receiver /\ ~failed /\ sender = "open"
  BY SenderIsOpen DEF BoundaryInv, HealthInv, TypeOK

(* No step forgets a fault. *)
LEMMA FaultStays == ASSUME BoundaryInv, [Next]_vars, fault PROVE fault'
<1>1. ASSUME NEW t \in Threads, EmitStart(t) PROVE fault'
  BY <1>1 DEF EmitStart, renderer
<1>2. ASSUME NEW t \in Threads, FlushDelta(t) PROVE fault'
  BY <1>2 DEF FlushDelta, renderer
<1>3. ASSUME NEW t \in Threads, FlushFailure(t) PROVE fault'
  BY <1>3 DEF FlushFailure, renderer
<1>4. ASSUME NEW t \in Threads, FlushGauge(t) PROVE fault'
  BY <1>4 DEF FlushGauge, renderer
<1>5. ASSUME NEW t \in Threads, TrySend(t) PROVE fault'
  BY <1>5, TrySendCases DEF renderer
<1>6. ASSUME NEW t \in Threads, CoalesceCount(t) PROVE fault'
  BY <1>6 DEF CoalesceCount, renderer
<1>7. ASSUME NEW t \in Threads, CoalesceGauge(t) PROVE fault'
  BY <1>7 DEF CoalesceGauge, renderer
<1>8. ASSUME NEW t \in Threads, CoalesceFailure(t) PROVE fault'
  BY <1>8 DEF CoalesceFailure, renderer
<1>9. ASSUME NEW t \in Threads, BlockingSend(t) PROVE fault'
  BY <1>9 DEF BlockingSend, renderer
<1>10. ASSUME NEW t \in Threads, DrainDelta(t) PROVE fault'
  BY <1>10 DEF DrainDelta, renderer
<1>11. ASSUME NEW t \in Threads, DrainFailure(t) PROVE fault'
  BY <1>11 DEF DrainFailure, renderer
<1>12. ASSUME NEW t \in Threads, DrainGauge(t) PROVE fault'
  BY <1>12 DEF DrainGauge, renderer
<1>13. ASSUME NEW w \in Workers, Take(w) PROVE fault'
  BY <1>13 DEF Take, Call, renderer
<1>14. ASSUME NEW w \in Workers, Chunk(w) PROVE fault'
  BY <1>14 DEF Chunk, Call, renderer
<1>15. ASSUME NEW w \in Workers, Hashed(w) PROVE fault'
  BY <1>15 DEF Hashed, Call, renderer
<1>16. ASSUME NEW w \in Workers, WorkFailed(w) PROVE fault'
  BY <1>16 DEF WorkFailed, Call, renderer
<1>17. ASSUME NEW w \in Workers, Decrement(w) PROVE fault'
  BY <1>17 DEF Decrement, Call, renderer
<1>18. ASSUME NEW w \in Workers, Leave(w) PROVE fault'
  BY <1>18 DEF Leave, renderer
<1>19. ASSUME Started PROVE fault'
  BY <1>19 DEF Started, Call, renderer
<1>20. ASSUME OwnerEmits PROVE fault'
  BY <1>20 DEF OwnerEmits, Call, renderer
<1>21. ASSUME CommandReturns PROVE fault'
  BY <1>21 DEF CommandReturns, renderer
<1>22. ASSUME Finished PROVE fault'
  BY <1>22 DEF Finished, Call, renderer
<1>23. ASSUME Summary PROVE fault'
  BY <1>23 DEF Summary, Call, renderer
<1>24. ASSUME Close PROVE fault'
  BY <1>24 DEF Close, renderer
<1>25. ASSUME DropSender PROVE fault'
  BY <1>25 DEF DropSender, renderer
<1>26. ASSUME Join PROVE fault'
  BY <1>26 DEF Join, renderer
<1>27. ASSUME Exit PROVE fault'
  BY <1>27 DEF Exit, renderer
<1>28. ASSUME Render PROVE fault'
  BY <1>28 DEF Render, renderer
<1>29. ASSUME RenderFails PROVE fault'
  BY <1>29 DEF RenderFails, renderer
<1>30. ASSUME RenderPanics PROVE fault'
  BY <1>30 DEF RenderPanics, renderer
<1>31. ASSUME LeaveLoop PROVE fault'
  BY <1>31 DEF LeaveLoop, renderer
<1>32. ASSUME RenderFinish PROVE fault'
  BY <1>32 DEF RenderFinish, renderer
<1>33. CASE UNCHANGED vars
  BY <1>33 DEF vars, renderer
<1> QED
  BY <1>1, <1>2, <1>3, <1>4, <1>5, <1>6, <1>7, <1>8, <1>9, <1>10, <1>11, <1>12, <1>13,
     <1>14, <1>15, <1>16, <1>17, <1>18, <1>19, <1>20, <1>21, <1>22, <1>23, <1>24, <1>25,
     <1>26, <1>27, <1>28, <1>29, <1>30, <1>31, <1>32, <1>33
     DEF Next, WorkerStep, OwnerStep, RendererStep, Transport, Done, Threads

(* What a step can do to the events on their way to a healthy renderer.     *)
(* Accepted are the places where a thread has an event in its hands, or     *)
(* drains.                                                                  *)
Accepted == Carrying \cup Draining \cup {"gauge", "failure", "block", "drop"}
Ways == <<inbox, deltas, failures, shown, emitted, cur, stage, facts>>

PassesOn(t, p) ==
  /\ pc[t] \in Accepted /\ p \in Accepted /\ pc' = [pc EXCEPT ![t] = p]
  /\ cur[t].kind = "count" => (pc[t] \in Carrying <=> p \in Carrying)
Lets(t) == pc' = [pc EXCEPT ![t] = "run"]

Walks(t, p) == PassesOn(t, p) /\ UNCHANGED Ways
SendsDelta(k) ==
  /\ inbox' = Append(inbox, Count(Only(k, deltas[k])))
  /\ deltas' = [deltas EXCEPT ![k] = 0]
  /\ UNCHANGED <<pc, failures, shown, emitted, cur, stage, facts>>
SendsFailure ==
  /\ failures # <<>> /\ inbox' = Append(inbox, Head(failures)) /\ failures' = Tail(failures)
  /\ UNCHANGED <<pc, deltas, shown, emitted, cur, stage, facts>>
SendsGauge(t, p, n) ==
  /\ PassesOn(t, p) /\ inbox' = Append(inbox, Gauge(n))
  /\ UNCHANGED <<deltas, failures, shown, emitted, cur, stage, facts>>
SendsOwn(t) ==
  /\ pc[t] \in {"send", "block"} /\ inbox' = Append(inbox, cur[t]) /\ Lets(t)
  /\ UNCHANGED <<deltas, failures, shown, emitted, cur, stage, facts>>
PutsCount(t) ==
  /\ pc[t] = "count" /\ deltas' = Plus(deltas, cur[t].amounts) /\ Lets(t)
  /\ UNCHANGED <<inbox, failures, shown, emitted, cur, stage, facts>>
PutsGauge(w) == pc[w] = "gauge" /\ Lets(w) /\ UNCHANGED Ways
PutsFailure(w) ==
  /\ pc[w] = "failure" /\ failures' = Append(failures, cur[w]) /\ Lets(w)
  /\ UNCHANGED <<inbox, deltas, shown, emitted, cur, stage, facts>>

Begins(t, e) ==
  /\ pc[t] = "run" /\ pc' = [pc EXCEPT ![t] = "emit"] /\ cur' = [cur EXCEPT ![t] = e]
  /\ emitted' = Noted(e) /\ UNCHANGED <<inbox, deltas, failures, shown>>
WorkerBegins(w, e) ==
  /\ Begins(w, e) /\ Single(e) /\ ~IsFact(e) /\ UNCHANGED facts /\ stage'[Owner] = stage[Owner]
  /\ \A v \in Workers : (stage'[v] \in Failed <=> stage[v] \in Failed)
       \/ (v = w /\ stage'[v] = "failed" /\ e.kind = "failure")
OwnerBegins(e) ==
  /\ Begins(Owner, e) /\ Single(e) /\ facts' = facts + 1 /\ (IsFact(e) => e.n = facts + 1)
  /\ stage'[Owner] \notin {"closing", "closed"}
  /\ \A w \in Workers : stage'[w] \in Failed <=> stage[w] \in Failed
GoesOn ==
  /\ UNCHANGED <<inbox, deltas, failures, shown, emitted, cur, facts>>
  /\ \A w \in Workers : /\ pc'[w] = pc[w]
                        /\ stage'[w] \in Failed <=> stage[w] \in Failed
  /\ pc'[Owner] \in Carrying <=> pc[Owner] \in Carrying
  /\ HasFact' <=> HasFact
  /\ jsonl /\ Delivered' => Delivered
Renders ==
  /\ inbox # <<>> /\ inbox' = Tail(inbox) /\ shown' = Rendered(Head(inbox))
  /\ UNCHANGED <<pc, deltas, failures, emitted, cur, stage, facts>>

HealthyMove ==
  /\ UNCHANGED jsonl
  /\ \/ \E t \in Threads, p \in Accepted :
          Walks(t, p) \/ \E n \in Nat : SendsGauge(t, p, n)
     \/ \E t \in Threads : SendsOwn(t) \/ PutsCount(t)
     \/ \E w \in Workers : PutsGauge(w) \/ PutsFailure(w) \/ \E e : WorkerBegins(w, e)
     \/ (\E k : SendsDelta(k)) \/ SendsFailure \/ Renders \/ GoesOn \/ \E e : OwnerBegins(e)

(* These are all the steps there are.                                       *)
LEMMA HealthySteps ==
  ASSUME BoundaryInv, ~fault, ~fault', [Next]_vars
  PROVE  HealthyMove
<1>0. /\ pc \in [Threads -> Pcs] /\ stage \in [Threads -> WorkerStages \cup OwnerStages]
      /\ cur \in [Threads -> Events] /\ Owner \in Threads /\ Owner \notin Workers
      /\ \A w \in Workers : w \in Threads /\ w # Owner
      /\ TypeOK /\ Shape /\ WorkerInv /\ OwnerInv /\ FailuresInv /\ ReadersInv /\ HealthInv
  BY ThreadsAssumption DEF BoundaryInv, TypeOK, Shape, Threads
<1>h. \A t \in Threads : pc[t] \notin {"run", "join"} => receiver /\ ~failed /\ sender = "open"
  BY HealthySends
<1>n. gauge # None => gauge \in Nat
  BY <1>0 DEF TypeOK
<1>1. ASSUME NEW t \in Threads, EmitStart(t) PROVE HealthyMove
  <2>1. pc[t] = "emit" /\ receiver /\ ~failed /\ sender = "open" /\ UNCHANGED jsonl
    BY <1>1, <1>h DEF EmitStart, work
  <2>2. \E p \in Accepted : Walks(t, p)
    BY <1>1, <1>0, <1>n, <2>1
       DEF EmitStart, Goto, ToDeltas, ToFailures, ToGauges, renderer, work, transport, Walks,
           PassesOn, Ways, Accepted, Carrying, Draining
  <2> QED
    BY <2>1, <2>2 DEF HealthyMove
<1>2. ASSUME NEW t \in Threads, FlushDelta(t) PROVE HealthyMove
  <2>1. pc[t] = "deltas" /\ receiver /\ ~failed /\ sender = "open" /\ UNCHANGED jsonl
    BY <1>2, <1>h DEF FlushDelta, work
  <2>2. (\E k : SendsDelta(k)) \/ \E p \in Accepted : Walks(t, p)
    BY <1>2, <1>0, <1>n, <2>1
       DEF FlushDelta, Release, Hold, Goto, Deliver, Disconnected, ToFailures, ToGauges, Room,
           May, renderer, work, transport, Walks, PassesOn, Ways, Accepted, Carrying, Draining,
           SendsDelta
  <2> QED
    BY <2>1, <2>2 DEF HealthyMove
<1>3. ASSUME NEW t \in Threads, FlushFailure(t) PROVE HealthyMove
  <2>1. pc[t] = "failures" /\ receiver /\ ~failed /\ sender = "open" /\ UNCHANGED jsonl
    BY <1>3, <1>h DEF FlushFailure, work
  <2>2. SendsFailure \/ \E p \in Accepted : Walks(t, p)
    BY <1>3, <1>0, <1>n, <2>1
       DEF FlushFailure, Release, Hold, Goto, Deliver, Disconnected, ToGauges, Room, May,
           renderer, work, transport, Walks, PassesOn, Ways, Accepted, Carrying, Draining,
           SendsFailure
  <2> QED
    BY <2>1, <2>2 DEF HealthyMove
<1>4. ASSUME NEW t \in Threads, FlushGauge(t) PROVE HealthyMove
  <2>1. pc[t] = "gauges" /\ receiver /\ ~failed /\ sender = "open" /\ UNCHANGED jsonl
    BY <1>4, <1>h DEF FlushGauge, work
  <2>2. \E p \in Accepted : Walks(t, p) \/ \E n \in Nat : SendsGauge(t, p, n)
    BY <1>4, <1>0, <1>n, <2>1
       DEF FlushGauge, Goto, Deliver, Disconnected, Room, May, renderer, work, transport, Walks,
           PassesOn, Ways, Accepted, Carrying, Draining, SendsGauge
  <2> QED
    BY <2>1, <2>2 DEF HealthyMove
<1>5. ASSUME NEW t \in Threads, TrySend(t) PROVE HealthyMove
  <2>0. cur[t].kind \in Kinds
    BY <1>0 DEF Events
  <2>1. pc[t] = "send" /\ receiver /\ ~failed /\ sender = "open" /\ UNCHANGED jsonl
    BY <1>5, <1>h, TrySendCases DEF work
  <2>2. SendsOwn(t) \/ \E p \in Accepted : Walks(t, p)
    BY <1>5, <1>0, <1>n, <2>1, TrySendCases, <2>0
       DEF Goto, Deliver, Disconnected, Room, renderer, work, transport, Walks, PassesOn, Ways,
           Accepted, Carrying, Draining, SendsOwn, Lets, Kinds
  <2> QED
    BY <2>1, <2>2 DEF HealthyMove
<1>6. ASSUME NEW t \in Threads, CoalesceCount(t) PROVE HealthyMove
  <2>1. pc[t] = "count" /\ receiver /\ ~failed /\ sender = "open" /\ UNCHANGED jsonl
    BY <1>6, <1>h DEF CoalesceCount, work
  <2>2. PutsCount(t)
    BY <1>6, <1>0, <1>n, <2>1
       DEF CoalesceCount, Goto, renderer, work, transport, PutsCount, Lets
  <2> QED
    BY <2>1, <2>2 DEF HealthyMove
<1>7. ASSUME NEW t \in Threads, CoalesceGauge(t) PROVE HealthyMove
  <2>1. pc[t] = "gauge" /\ t \in Workers /\ UNCHANGED jsonl
    BY <1>7, <1>0 DEF CoalesceGauge, OwnerInv, Threads, work
  <2>3. PutsGauge(t)
    BY <1>7, <2>1 DEF CoalesceGauge, Goto, PutsGauge, Lets, Ways, renderer, work
  <2> QED
    BY <2>1, <2>3 DEF HealthyMove
<1>8. ASSUME NEW t \in Threads, CoalesceFailure(t) PROVE HealthyMove
  <2>1. pc[t] = "failure" /\ t \in Workers /\ UNCHANGED jsonl
    BY <1>8, <1>0 DEF CoalesceFailure, OwnerInv, Threads, work
  <2>2. Len(failures) < FailureSlots
    BY <1>0, <2>1, FailureSlotLeft
  <2>3. PutsFailure(t)
    BY <1>8, <2>1, <2>2 DEF CoalesceFailure, Goto, PutsFailure, Lets, Ways, renderer, work
  <2> QED
    BY <2>1, <2>3 DEF HealthyMove
<1>9. ASSUME NEW t \in Threads, BlockingSend(t) PROVE HealthyMove
  <2>1. pc[t] = "block" /\ receiver /\ ~failed /\ sender = "open" /\ UNCHANGED jsonl
    BY <1>9, <1>h DEF BlockingSend, work
  <2>2. SendsOwn(t)
    BY <1>9, <1>0, <1>n, <2>1
       DEF BlockingSend, Goto, Deliver, Disconnected, Room, renderer, work, transport, SendsOwn,
           Lets
  <2> QED
    BY <2>1, <2>2 DEF HealthyMove
<1>10. ASSUME NEW t \in Threads, DrainDelta(t) PROVE HealthyMove
  <2>1. pc[t] = "drain_deltas" /\ receiver /\ ~failed /\ sender = "open" /\ UNCHANGED jsonl
    BY <1>10, <1>h DEF DrainDelta, work
  <2>2. (\E k : SendsDelta(k)) \/ \E p \in Accepted : Walks(t, p)
    BY <1>10, <1>0, <1>n, <2>1
       DEF DrainDelta, Release, Hold, Goto, Deliver, Disconnected, AfterDrain, Closing, Room,
           renderer, work, transport, Walks, PassesOn, Ways, Accepted, Carrying, Draining,
           SendsDelta
  <2> QED
    BY <2>1, <2>2 DEF HealthyMove
<1>11. ASSUME NEW t \in Threads, DrainFailure(t) PROVE HealthyMove
  <2>1. pc[t] = "drain_failures" /\ receiver /\ ~failed /\ sender = "open" /\ UNCHANGED jsonl
    BY <1>11, <1>h DEF DrainFailure, work
  <2>2. SendsFailure \/ \E p \in Accepted : Walks(t, p)
    BY <1>11, <1>0, <1>n, <2>1
       DEF DrainFailure, Release, Hold, Goto, Deliver, Disconnected, AfterDrain, Closing, Room,
           renderer, work, transport, Walks, PassesOn, Ways, Accepted, Carrying, Draining,
           SendsFailure
  <2> QED
    BY <2>1, <2>2 DEF HealthyMove
<1>12. ASSUME NEW t \in Threads, DrainGauge(t) PROVE HealthyMove
  <2>1. pc[t] = "drain_gauges" /\ receiver /\ ~failed /\ sender = "open" /\ UNCHANGED jsonl
    BY <1>12, <1>h DEF DrainGauge, work
  <2>2. \E p \in Accepted : Walks(t, p) \/ \E n \in Nat : SendsGauge(t, p, n)
    BY <1>12, <1>0, <1>n, <2>1
       DEF DrainGauge, Goto, Deliver, Disconnected, AfterDrain, Closing, Room, renderer, work,
           transport, Walks, PassesOn, Ways, Accepted, Carrying, Draining, SendsGauge
  <2> QED
    BY <2>1, <2>2 DEF HealthyMove
<1>13. ASSUME NEW w \in Workers, Take(w) PROVE HealthyMove
  <2>0. Single(Gauge(readers + 1))
    BY AmountsAreNatural DEF Single, Gauge, Event, Zero
  <2>1. WorkerBegins(w, Gauge(readers + 1))
    BY <1>13, <1>0, <2>0
       DEF Take, Call, Goto, transport, renderer, WorkerBegins, Begins, Failed,
       IsFact, Gauge, Event
  <2> QED
    BY <1>13, <2>1 DEF Take, HealthyMove
<1>14. ASSUME NEW w \in Workers, Chunk(w) PROVE HealthyMove
  <2>0. Single(Count(Only(Max(Counters), 1)))
    BY AmountsAreNatural DEF Single, Count, Event, Zero
  <2>1. WorkerBegins(w, Count(Only(Max(Counters), 1)))
    BY <1>14, <1>0, <2>0
       DEF Chunk, Call, Goto, transport, renderer, WorkerBegins, Begins, Failed,
       IsFact, Count, Event
  <2> QED
    BY <1>14, <2>1 DEF Chunk, HealthyMove
<1>15. ASSUME NEW w \in Workers, Hashed(w) PROVE HealthyMove
  <2>0. Single(Count(Only(Min(Counters), 1)))
    BY AmountsAreNatural DEF Single, Count, Event, Zero
  <2>1. WorkerBegins(w, Count(Only(Min(Counters), 1)))
    BY <1>15, <1>0, <2>0
       DEF Hashed, Call, Goto, transport, renderer, WorkerBegins, Begins, Failed,
       IsFact, Count, Event
  <2> QED
    BY <1>15, <2>1 DEF Hashed, HealthyMove
<1>16. ASSUME NEW w \in Workers, WorkFailed(w) PROVE HealthyMove
  <2>0. Single(Failure(w))
    BY AmountsAreNatural DEF Single, Failure, Event, Zero
  <2>1. WorkerBegins(w, Failure(w))
    BY <1>16, <1>0, <2>0
       DEF WorkFailed, Call, Goto, transport, renderer, WorkerBegins, Begins, Failed,
       IsFact, Failure, Event
  <2> QED
    BY <1>16, <2>1 DEF WorkFailed, HealthyMove
<1>17. ASSUME NEW w \in Workers, Decrement(w) PROVE HealthyMove
  <2>0. Single(Gauge(readers - 1))
    BY AmountsAreNatural DEF Single, Gauge, Event, Zero
  <2>1. WorkerBegins(w, Gauge(readers - 1))
    BY <1>17, <1>0, <2>0
       DEF Decrement, Call, Goto, transport, renderer, WorkerBegins, Begins, Failed,
       IsFact, Gauge, Event
  <2> QED
    BY <1>17, <2>1 DEF Decrement, HealthyMove
<1>18. ASSUME NEW w \in Workers, Leave(w) PROVE HealthyMove
  <2>1. GoesOn
    BY <1>18, <1>0
       DEF Leave, transport, renderer, work, GoesOn, Failed, Carrying, HasFact, Delivered,
           OwnerInv
  <2> QED
    BY <1>18, <2>1 DEF Leave, work, HealthyMove
<1>19. ASSUME Started PROVE HealthyMove
  <2>0. Single(Fact(facts + 1))
    BY DEF Single, Fact, Event, Zero
  <2>1. OwnerBegins(Fact(facts + 1))
    BY <1>19, <1>0, <2>0
       DEF Started, NextFact, OwnerGo, Call, Goto, transport, renderer, OwnerBegins, Begins,
       Failed, IsFact, Fact, Event, WorkerInv
  <2> QED
    BY <1>19, <2>1 DEF Started, HealthyMove
<1>20. ASSUME OwnerEmits PROVE HealthyMove
  <2>0. Single(Fact(facts + 1)) /\ Single(Count([k \in Counters |-> 1]))
    BY DEF Single, Fact, Count, Event, Zero
  <2>1. OwnerBegins(Fact(facts + 1)) \/ OwnerBegins(Count([k \in Counters |-> 1]))
    BY <1>20, <1>0, <2>0
       DEF OwnerEmits, NextFact, Call, Goto, transport, renderer, OwnerBegins, Begins,
       Failed, IsFact, Fact, Count, Event, OwnerInv
  <2> QED
    BY <1>20, <2>1 DEF OwnerEmits, HealthyMove
<1>21. ASSUME CommandReturns PROVE HealthyMove
  <2>1. GoesOn
    BY <1>21, <1>0
       DEF CommandReturns, OwnerGo, transport, renderer, work, GoesOn, Failed, Carrying,
           HasFact, Delivered, OwnerInv
  <2> QED
    BY <1>21, <2>1 DEF CommandReturns, work, HealthyMove
<1>22. ASSUME Finished PROVE HealthyMove
  <2>0. Single(Fact(facts + 1))
    BY DEF Single, Fact, Event, Zero
  <2>1. OwnerBegins(Fact(facts + 1))
    BY <1>22, <1>0, <2>0
       DEF Finished, NextFact, OwnerGo, Call, Goto, transport, renderer, OwnerBegins, Begins,
       Failed, IsFact, Fact, Event
  <2> QED
    BY <1>22, <2>1 DEF Finished, HealthyMove
<1>23. ASSUME Summary PROVE HealthyMove
  <2>0. Single(Terminal(facts + 1))
    BY DEF Single, Terminal, Event, Zero
  <2>1. OwnerBegins(Terminal(facts + 1))
    BY <1>23, <1>0, <2>0
       DEF Summary, NextFact, OwnerGo, Call, Goto, transport, renderer, OwnerBegins, Begins,
       Failed, IsFact, Terminal, Event
  <2> QED
    BY <1>23, <2>1 DEF Summary, HealthyMove
<1>24. ASSUME Close PROVE HealthyMove
  <2>1. GoesOn
    BY <1>24, <1>0
       DEF Close, Goto, OwnerGo, transport, renderer, work, GoesOn, Failed, Carrying, HasFact,
           Delivered, OwnerInv
  <2> QED
    BY <1>24, <2>1 DEF Close, work, HealthyMove
<1>25. ASSUME DropSender PROVE HealthyMove
  <2>1. GoesOn
    BY <1>25, <1>0
       DEF DropSender, Goto, transport, renderer, work, GoesOn, Failed, Carrying, HasFact,
           Delivered, OwnerInv
  <2> QED
    BY <1>25, <2>1 DEF DropSender, work, HealthyMove
<1>26. ASSUME Join PROVE HealthyMove
  <2>1. GoesOn
    BY <1>26, <1>0
       DEF Join, Goto, OwnerGo, transport, renderer, work, GoesOn, Failed, Carrying, HasFact,
           Delivered, OwnerInv
  <2> QED
    BY <1>26, <2>1 DEF Join, work, HealthyMove
<1>27. ASSUME Exit PROVE HealthyMove
  <2>1. GoesOn
    BY <1>27, <1>0
       DEF Exit, transport, renderer, work, GoesOn, Failed, Carrying, HasFact, Delivered,
           OwnerInv
  <2> QED
    BY <1>27, <2>1 DEF Exit, work, HealthyMove
<1>28. ASSUME Render PROVE HealthyMove
  BY <1>28 DEF Render, work, HealthyMove, Renders
<1>29. ASSUME RenderFails PROVE HealthyMove
  BY <1>29 DEF RenderFails
<1>30. ASSUME RenderPanics PROVE HealthyMove
  BY <1>30 DEF RenderPanics
<1>31. ASSUME LeaveLoop PROVE HealthyMove
  <2>1. GoesOn
    BY <1>31, <1>0
       DEF LeaveLoop, transport, renderer, work, GoesOn, Failed, Carrying, HasFact, Delivered,
           OwnerInv, HealthInv
  <2> QED
    BY <1>31, <2>1 DEF LeaveLoop, work, HealthyMove
<1>32. ASSUME RenderFinish PROVE HealthyMove
  <2>1. GoesOn
    BY <1>32, <1>0
       DEF RenderFinish, transport, renderer, work, GoesOn, Failed, Carrying, HasFact,
           Delivered, OwnerInv, HealthInv
  <2> QED
    BY <1>32, <2>1 DEF RenderFinish, work, HealthyMove
<1>33. CASE UNCHANGED vars
  BY <1>33 DEF vars, transport, renderer, work, HealthyMove, GoesOn, HasFact, Delivered

<1> QED
  BY <1>1, <1>2, <1>3, <1>4, <1>5, <1>6, <1>7, <1>8, <1>9, <1>10, <1>11, <1>12, <1>13,
     <1>14, <1>15, <1>16, <1>17, <1>18, <1>19, <1>20, <1>21, <1>22, <1>23, <1>24, <1>25,
     <1>26, <1>27, <1>28, <1>29, <1>30, <1>31, <1>32, <1>33
     DEF Next, WorkerStep, OwnerStep, RendererStep, Transport, Done, Threads

-----------------------------------------------------------------------------
(* The order of the owner's facts. *)

(* What is not a fact does not disturb the order. *)
LEMMA OtherSent ==
  ASSUME NEW s \in Seq(Nat), NEW q \in Seq(Events), NEW e \in Events, ~IsFact(e), NEW m
  PROVE  /\ Ordered(s, q) => Ordered(s, Append(q, e))
         /\ Before(s, q, m) => Before(s, Append(q, e), m)
<1>1. /\ DOMAIN Append(q, e) = 1 .. Len(q) + 1 /\ DOMAIN q = 1 .. Len(q) /\ Len(q) \in Nat
      /\ \A i \in 1 .. Len(q) : Append(q, e)[i] = q[i]
      /\ Append(q, e)[Len(q) + 1] = e
  BY AppendFacts
<1>2. \A i \in DOMAIN Append(q, e) :
        IsFact(Append(q, e)[i]) => i \in DOMAIN q /\ Append(q, e)[i] = q[i]
  BY <1>1
<1> HIDE DEF IsFact
<1>3. Ordered(s, q) => Ordered(s, Append(q, e))
  BY <1>2 DEF Ordered
<1>4. Before(s, q, m) => Before(s, Append(q, e), m)
  BY <1>2 DEF Before
<1> QED
  BY <1>3, <1>4

(* A fact that comes after all the others goes to the end. *)
LEMMA FactSent ==
  ASSUME NEW s \in Seq(Nat), NEW q \in Seq(Events), NEW e \in Events, NEW m,
         Ordered(s, q), Before(s, q, e.n), Before(s, q, m), e.n < m
  PROVE  Ordered(s, Append(q, e)) /\ Before(s, Append(q, e), m)
<1>1. /\ DOMAIN Append(q, e) = 1 .. Len(q) + 1 /\ DOMAIN q = 1 .. Len(q) /\ Len(q) \in Nat
      /\ \A i \in 1 .. Len(q) : Append(q, e)[i] = q[i]
      /\ Append(q, e)[Len(q) + 1] = e
  BY AppendFacts
<1>2. \A i \in DOMAIN Append(q, e) :
        \/ i \in DOMAIN q /\ Append(q, e)[i] = q[i] /\ i < Len(q) + 1
        \/ i = Len(q) + 1 /\ Append(q, e)[i] = e
  BY <1>1
<1>3. \A i \in DOMAIN s, j \in DOMAIN Append(q, e) :
        IsFact(Append(q, e)[j]) => s[i] < Append(q, e)[j].n
  BY <1>2 DEF Ordered, Before
<1>4. \A i, j \in DOMAIN Append(q, e) :
        i < j /\ IsFact(Append(q, e)[i]) /\ IsFact(Append(q, e)[j]) =>
          Append(q, e)[i].n < Append(q, e)[j].n
  <2> SUFFICES ASSUME NEW i \in DOMAIN Append(q, e), NEW j \in DOMAIN Append(q, e), i < j,
                      IsFact(Append(q, e)[i]), IsFact(Append(q, e)[j])
               PROVE  Append(q, e)[i].n < Append(q, e)[j].n
    OBVIOUS
  <2>1. i \in DOMAIN q /\ Append(q, e)[i] = q[i]
    BY <1>1, <1>2
  <2>2. CASE j \in DOMAIN q
    BY <1>1, <1>2, <2>1, <2>2 DEF Ordered
  <2>3. CASE j = Len(q) + 1
    BY <1>1, <2>1, <2>3 DEF Before
  <2> QED
    BY <1>2, <2>2, <2>3
<1>5. \A i \in DOMAIN Append(q, e) : IsFact(Append(q, e)[i]) => Append(q, e)[i].n < m
  BY <1>2 DEF Before
<1> QED
  BY <1>3, <1>4, <1>5 DEF Ordered, Before

(* Rendering the head of the inbox keeps the order. *)
LEMMA FactShown ==
  ASSUME NEW s \in Seq(Nat), NEW q \in Seq(Events), q # <<>>, NEW m,
         NEW r \in Seq(Nat), q[1].n \in Nat \/ ~IsFact(q[1]),
         IF IsFact(q[1]) THEN r = Append(s, q[1].n) ELSE r = s
  PROVE  /\ Ordered(s, q) => Ordered(r, Tail(q))
         /\ Before(s, q, m) => Before(r, Tail(q), m)
<1>1. /\ DOMAIN Tail(q) = 1 .. Len(q) - 1 /\ DOMAIN q = 1 .. Len(q)
      /\ Len(q) \in Nat /\ Len(q) >= 1
      /\ \A i \in 1 .. Len(q) - 1 : Tail(q)[i] = q[i + 1]
  BY TailFacts
<1>2. \A i \in DOMAIN Tail(q) : i + 1 \in DOMAIN q /\ Tail(q)[i] = q[i + 1] /\ 1 < i + 1
  BY <1>1
<1>3. 1 \in DOMAIN q /\ \A i, j \in DOMAIN Tail(q) : i < j => i + 1 < j + 1
  BY <1>1
<1>4. CASE ~IsFact(q[1])
  <2>1. r = s
    BY <1>4
  <2>2. Ordered(s, q) => Ordered(s, Tail(q))
    BY <1>2, <1>3 DEF Ordered
  <2>3. Before(s, q, m) => Before(s, Tail(q), m)
    BY <1>2 DEF Before
  <2> QED
    BY <2>1, <2>2, <2>3
<1>5. CASE IsFact(q[1])
  <2>1. r = Append(s, q[1].n) /\ q[1].n \in Nat
    BY <1>5
  <2>2. /\ DOMAIN r = 1 .. Len(s) + 1 /\ DOMAIN s = 1 .. Len(s) /\ Len(s) \in Nat
        /\ \A i \in 1 .. Len(s) : r[i] = s[i]
        /\ r[Len(s) + 1] = q[1].n
    BY <2>1, AppendFacts
  <2>3. \A i \in DOMAIN r : \/ i \in DOMAIN s /\ r[i] = s[i] /\ i < Len(s) + 1
                            \/ i = Len(s) + 1 /\ r[i] = q[1].n
    BY <2>2
  <2>4. ASSUME Ordered(s, q) PROVE Ordered(r, Tail(q))
    <3>1. ASSUME NEW i \in DOMAIN r, NEW j \in DOMAIN r, i < j PROVE r[i] < r[j]
      <4>1. i \in DOMAIN s /\ r[i] = s[i]
        BY <2>2, <2>3, <3>1
      <4>2. CASE j \in DOMAIN s
        BY <2>2, <2>4, <3>1, <4>1, <4>2 DEF Ordered
      <4>3. CASE j = Len(s) + 1
        BY <1>3, <1>5, <2>2, <2>4, <4>1, <4>3 DEF Ordered
      <4> QED
        BY <2>3, <4>2, <4>3
    <3>2. ASSUME NEW i \in DOMAIN r, NEW j \in DOMAIN Tail(q), IsFact(Tail(q)[j])
          PROVE  r[i] < Tail(q)[j].n
      <4>1. j + 1 \in DOMAIN q /\ Tail(q)[j] = q[j + 1] /\ 1 < j + 1
        BY <1>2
      <4>2. CASE i \in DOMAIN s /\ r[i] = s[i]
        BY <2>4, <3>2, <4>1, <4>2 DEF Ordered
      <4>3. CASE r[i] = q[1].n
        BY <1>3, <1>5, <2>4, <3>2, <4>1, <4>3 DEF Ordered
      <4> QED
        BY <2>3, <4>2, <4>3
    <3>3. ASSUME NEW i \in DOMAIN Tail(q), NEW j \in DOMAIN Tail(q), i < j,
                 IsFact(Tail(q)[i]), IsFact(Tail(q)[j])
          PROVE  Tail(q)[i].n < Tail(q)[j].n
      BY <1>2, <1>3, <2>4, <3>3 DEF Ordered
    <3> QED
      BY <3>1, <3>2, <3>3 DEF Ordered
  <2>5. ASSUME Before(s, q, m) PROVE Before(r, Tail(q), m)
    <3>1. q[1].n < m
      BY <1>3, <1>5, <2>5 DEF Before
    <3>2. \A i \in DOMAIN r : r[i] < m
      BY <2>3, <2>5, <3>1 DEF Before
    <3>3. \A i \in DOMAIN Tail(q) : IsFact(Tail(q)[i]) => Tail(q)[i].n < m
      BY <1>2, <2>5 DEF Before
    <3> QED
      BY <3>2, <3>3 DEF Before
  <2> QED
    BY <2>4, <2>5
<1> QED
  BY <1>4, <1>5

(* What rendering an event adds to the facts, the failures, the totals and  *)
(* the terminal record shown.                                               *)
LEMMA ShownFacts ==
  ASSUME NEW e, Proper(e),
         shown \in [counts : [Counters -> Nat], gauge : Nat, facts : Seq(Nat),
                    failures : SUBSET Workers, terminal : BOOLEAN]
  PROVE  /\ Rendered(e).facts \in Seq(Nat)
         /\ IF IsFact(e) THEN Rendered(e).facts = Append(shown.facts, e.n)
            ELSE Rendered(e).facts = shown.facts
         /\ e.n \in Nat \/ ~IsFact(e)
         /\ Rendered(e).failures = shown.failures \cup {w \in {e.n} : e.kind = "failure"}
         /\ Rendered(e).terminal <=> shown.terminal \/ e.kind = "terminal"
         /\ \A k \in Counters : Rendered(e).counts[k] = shown.counts[k] + e.amounts[k]
<1>1. /\ e.kind \in Kinds /\ e.amounts \in [Counters -> Nat]
      /\ e.kind \in {"gauge", "fact", "terminal"} => e.n \in Nat
      /\ e.kind # "count" => \A k \in Counters : e.amounts[k] = 0
  BY DEF Proper, Events, Zero
<1>2. /\ Rendered(e).facts \in Seq(Nat)
      /\ Rendered(e) \in [counts : [Counters -> Nat], gauge : Nat, facts : Seq(Nat),
                          failures : SUBSET Workers, terminal : BOOLEAN]
  BY RenderedTypes
<1>3. e.n \in Nat \/ ~IsFact(e)
  BY <1>1 DEF IsFact
<1>4. CASE e.kind = "count"
  <2>1. Rendered(e) = [shown EXCEPT !.counts = Plus(@, e.amounts)]
    BY <1>4, RenderedCases
  <2>2. \A k \in Counters : Plus(shown.counts, e.amounts)[k] = shown.counts[k] + e.amounts[k]
    BY <1>1, AmountsAreNatural
  <2> QED
    BY <1>2, <1>3, <1>4, <2>1, <2>2 DEF IsFact
<1>5. CASE e.kind = "gauge"
  <2>1. Rendered(e) = [shown EXCEPT !.gauge = e.n]
    BY <1>5, RenderedCases
  <2> QED
    BY <1>1, <1>2, <1>3, <1>5, <2>1 DEF IsFact
<1>6. CASE e.kind = "failure"
  <2>1. Rendered(e) = [shown EXCEPT !.failures = @ \cup {e.n}]
    BY <1>6, RenderedCases
  <2> QED
    BY <1>1, <1>2, <1>3, <1>6, <2>1 DEF IsFact
<1>7. CASE e.kind = "fact"
  <2>1. Rendered(e) = [shown EXCEPT !.facts = Append(@, e.n)]
    BY <1>7, RenderedCases
  <2> QED
    BY <1>1, <1>2, <1>3, <1>7, <2>1 DEF IsFact
<1>8. CASE e.kind = "terminal"
  <2>1. Rendered(e) = [shown EXCEPT !.facts = Append(@, e.n), !.terminal = TRUE]
    BY <1>8, RenderedCases
  <2> QED
    BY <1>1, <1>2, <1>3, <1>8, <2>1 DEF IsFact
<1> QED
  BY <1>1, <1>4, <1>5, <1>6, <1>7, <1>8 DEF Kinds

(* Every move keeps the facts in order.                                     *)
LEMMA FactsStepInv ==
  ASSUME BoundaryInv, FactsInv, HealthyMove
  PROVE  FactsInv'
<1>0. /\ pc \in [Threads -> Pcs] /\ cur \in [Threads -> Events] /\ Owner \in Threads
      /\ Owner \notin Workers /\ facts \in Nat /\ shown.facts \in Seq(Nat)
      /\ inbox \in Seq(Events) /\ failures \in Seq(Events)
      /\ deltas \in [Counters -> Nat] /\ \A w \in Workers : w \in Threads /\ w # Owner
      /\ \A i \in DOMAIN inbox : Proper(inbox[i])
      /\ \A i \in DOMAIN failures : Proper(failures[i]) /\ failures[i].kind = "failure"
      /\ \A t \in Threads : Proper(cur[t])
  BY ThreadsAssumption DEF BoundaryInv, TypeOK, Shape, Threads
<1>i. /\ Ordered(shown.facts, inbox) /\ Before(shown.facts, inbox, facts + 1)
      /\ HasFact => cur[Owner].n < facts + 1 /\ Before(shown.facts, inbox, cur[Owner].n)
  BY DEF FactsInv
<1>1. ASSUME NEW t \in Threads, NEW p \in Accepted, Walks(t, p) PROVE FactsInv'
  <2>1. UNCHANGED <<inbox, shown, facts, cur>> /\ (HasFact' => HasFact)
    BY <1>1, <1>0 DEF Walks, PassesOn, Ways, Accepted, Carrying, Draining, HasFact
  <2> QED
    BY <1>i, <2>1 DEF FactsInv
<1>3. ASSUME NEW t \in Threads, NEW p \in Accepted, NEW n \in Nat, SendsGauge(t, p, n)
      PROVE  FactsInv'
  <2>1. Gauge(n) \in Events /\ ~IsFact(Gauge(n))
    BY EventsAreProper DEF Proper, IsFact
  <2>2. /\ Ordered(shown.facts, Append(inbox, Gauge(n)))
        /\ \A m : Before(shown.facts, inbox, m) =>
             Before(shown.facts, Append(inbox, Gauge(n)), m)
    BY <1>0, <1>i, <2>1, OtherSent
  <2>3. /\ inbox' = Append(inbox, Gauge(n)) /\ UNCHANGED <<shown, facts, cur>>
        /\ HasFact' => HasFact
    BY <1>3, <1>0 DEF SendsGauge, PassesOn, Accepted, Carrying, Draining, HasFact
  <2> QED
    BY <1>i, <2>2, <2>3 DEF FactsInv
<1>4. ASSUME NEW t \in Threads, SendsOwn(t) PROVE FactsInv'
  <2>1. CASE t \in Workers
    <3>1. ~IsFact(cur[t])
      BY <1>4, <2>1 DEF SendsOwn, BoundaryInv, WorkerInv, IsFact
    <3>2. /\ Ordered(shown.facts, Append(inbox, cur[t]))
          /\ \A m : Before(shown.facts, inbox, m) =>
               Before(shown.facts, Append(inbox, cur[t]), m)
      BY <1>0, <1>i, <3>1, OtherSent
    <3>3. /\ inbox' = Append(inbox, cur[t]) /\ UNCHANGED <<shown, facts, cur>>
          /\ HasFact' => HasFact
      BY <1>4, <1>0, <2>1 DEF SendsOwn, Lets, HasFact
    <3> QED
      BY <1>i, <3>2, <3>3 DEF FactsInv
  <2>2. CASE t = Owner
    <3>1. /\ inbox' = Append(inbox, cur[Owner]) /\ UNCHANGED <<shown, facts, cur>> /\ ~HasFact'
      BY <1>4, <1>0, <2>2 DEF SendsOwn, Lets, HasFact
    <3>2. pc[Owner] # "run" /\ stage[Owner] # "closing"
      BY <1>4, <2>2 DEF SendsOwn, BoundaryInv, OwnerInv, Draining
    <3>3. CASE IsFact(cur[Owner])
      <4>1. cur[Owner].n < facts + 1 /\ Before(shown.facts, inbox, cur[Owner].n)
        BY <1>i, <3>2, <3>3 DEF HasFact
      <4>2. /\ Ordered(shown.facts, Append(inbox, cur[Owner]))
            /\ Before(shown.facts, Append(inbox, cur[Owner]), facts + 1)
        BY <1>0, <1>i, <4>1, FactSent
      <4> QED
        BY <3>1, <4>2 DEF FactsInv
    <3>4. CASE ~IsFact(cur[Owner])
      <4>1. /\ Ordered(shown.facts, Append(inbox, cur[Owner]))
            /\ Before(shown.facts, Append(inbox, cur[Owner]), facts + 1)
        BY <1>0, <1>i, <3>4, OtherSent
      <4> QED
        BY <3>1, <4>1 DEF FactsInv
    <3> QED
      BY <3>3, <3>4
  <2> QED
    BY <2>1, <2>2 DEF Threads
<1>5. ASSUME NEW t \in Threads, PutsCount(t) PROVE FactsInv'
  <2>1. UNCHANGED <<inbox, shown, facts, cur>> /\ (HasFact' => HasFact)
    BY <1>5, <1>0 DEF PutsCount, Lets, HasFact
  <2> QED
    BY <1>i, <2>1 DEF FactsInv
<1>6. ASSUME NEW w \in Workers, PutsGauge(w) PROVE FactsInv'
  <2>1. UNCHANGED <<inbox, shown, facts, cur>> /\ (HasFact' => HasFact)
    BY <1>6, <1>0 DEF PutsGauge, Lets, Ways, HasFact
  <2> QED
    BY <1>i, <2>1 DEF FactsInv
<1>7. ASSUME NEW w \in Workers, PutsFailure(w) PROVE FactsInv'
  <2>1. UNCHANGED <<inbox, shown, facts, cur>> /\ (HasFact' => HasFact)
    BY <1>7, <1>0 DEF PutsFailure, Lets, HasFact
  <2> QED
    BY <1>i, <2>1 DEF FactsInv
<1>8. ASSUME NEW w \in Workers, NEW e, WorkerBegins(w, e) PROVE FactsInv'
  <2>1. /\ UNCHANGED <<inbox, shown, facts>> /\ cur'[Owner] = cur[Owner]
        /\ HasFact' => HasFact
    BY <1>8, <1>0 DEF WorkerBegins, Begins, HasFact
  <2> QED
    BY <1>i, <2>1 DEF FactsInv
<1>9. ASSUME NEW k, SendsDelta(k) PROVE FactsInv'
  <2>1. Count(Only(k, deltas[k])) \in Events /\ ~IsFact(Count(Only(k, deltas[k])))
    BY <1>0, MergedAmounts, EventsAreProper DEF Proper, IsFact
  <2>2. /\ Ordered(shown.facts, Append(inbox, Count(Only(k, deltas[k]))))
        /\ \A m : Before(shown.facts, inbox, m) =>
             Before(shown.facts, Append(inbox, Count(Only(k, deltas[k]))), m)
    BY <1>0, <1>i, <2>1, OtherSent
  <2>3. /\ inbox' = Append(inbox, Count(Only(k, deltas[k]))) /\ UNCHANGED <<shown, facts, cur>>
        /\ HasFact' => HasFact
    BY <1>9, <1>0 DEF SendsDelta, HasFact
  <2> QED
    BY <1>i, <2>2, <2>3 DEF FactsInv
<1>10. ASSUME SendsFailure PROVE FactsInv'
  <2>1. Head(failures) \in Events /\ ~IsFact(Head(failures))
    <3>1. Head(failures) = failures[1] /\ 1 \in DOMAIN failures
      BY <1>0, <1>10, TailFacts DEF SendsFailure
    <3> QED
      BY <1>0, <3>1 DEF Proper, IsFact
  <2>2. /\ Ordered(shown.facts, Append(inbox, Head(failures)))
        /\ \A m : Before(shown.facts, inbox, m) =>
             Before(shown.facts, Append(inbox, Head(failures)), m)
    BY <1>0, <1>i, <2>1, OtherSent
  <2>3. /\ inbox' = Append(inbox, Head(failures)) /\ UNCHANGED <<shown, facts, cur>>
        /\ HasFact' => HasFact
    BY <1>10, <1>0 DEF SendsFailure, HasFact
  <2> QED
    BY <1>i, <2>2, <2>3 DEF FactsInv
<1>11. ASSUME Renders PROVE FactsInv'
  <2>1. /\ inbox # <<>> /\ inbox' = Tail(inbox) /\ shown' = Rendered(inbox[1])
        /\ UNCHANGED <<facts, cur, pc, stage>> /\ 1 \in DOMAIN inbox /\ Proper(inbox[1])
    <3>1. inbox # <<>> /\ inbox' = Tail(inbox) /\ shown' = Rendered(Head(inbox))
      BY <1>11 DEF Renders
    <3>2. Head(inbox) = inbox[1] /\ 1 \in DOMAIN inbox
      BY <1>0, <3>1, TailFacts
    <3> QED
      BY <1>11, <1>0, <3>1, <3>2 DEF Renders
  <2>2. /\ shown'.facts \in Seq(Nat)
        /\ IF IsFact(inbox[1]) THEN shown'.facts = Append(shown.facts, inbox[1].n)
           ELSE shown'.facts = shown.facts
        /\ inbox[1].n \in Nat \/ ~IsFact(inbox[1])
    BY <2>1, ShownFacts DEF BoundaryInv, Shape
  <2>3. /\ Ordered(shown'.facts, Tail(inbox))
        /\ \A m : Before(shown.facts, inbox, m) => Before(shown'.facts, Tail(inbox), m)
    BY <1>0, <1>i, <2>1, <2>2, FactShown
  <2>4. HasFact' => HasFact
    BY <2>1 DEF HasFact
  <2> QED
    BY <1>i, <2>1, <2>3, <2>4 DEF FactsInv
<1>12. ASSUME GoesOn PROVE FactsInv'
  <2>1. UNCHANGED <<inbox, shown, facts, cur>> /\ (HasFact' => HasFact)
    BY <1>12, <1>0 DEF GoesOn, HasFact
  <2> QED
    BY <1>i, <2>1 DEF FactsInv
<1>13. ASSUME NEW e, OwnerBegins(e) PROVE FactsInv'
  <2>1. /\ UNCHANGED <<inbox, shown>> /\ facts' = facts + 1 /\ cur'[Owner] = e
        /\ IsFact(e) => e.n = facts + 1
    BY <1>13, <1>0 DEF OwnerBegins, Begins
  <2>2. Before(shown.facts, inbox, facts + 2)
    <3>1. \A i \in DOMAIN shown.facts : shown.facts[i] \in Nat
      BY <1>0
    <3>2. \A i \in DOMAIN inbox : IsFact(inbox[i]) => inbox[i].n \in Nat
      BY <1>0 DEF Proper, IsFact
    <3> QED
      BY <1>0, <1>i, <3>1, <3>2 DEF Before
  <2>3. facts' + 1 = facts + 2 /\ facts + 1 < facts + 2
    BY <1>0, <2>1
  <2>4. HasFact' => IsFact(e)
    BY <2>1 DEF HasFact
  <2> QED
    BY <1>i, <2>1, <2>2, <2>3, <2>4 DEF FactsInv
<1> QED
  BY <1>1, <1>3, <1>4, <1>5, <1>6, <1>7, <1>8, <1>9, <1>10, <1>11, <1>12, <1>13
     DEF HealthyMove


-----------------------------------------------------------------------------
(* The facts, the terminal record and the failures on their way. *)

(* Appending an event adds that event, and taking the head off loses only   *)
(* the head.                                                                *)
LEMMA HasSteps ==
  ASSUME NEW q \in Seq(Events), NEW X
  PROVE  /\ \A e \in Events : Has(Append(q, e), X) <=> Has(q, X) \/ e \in X
         /\ q # <<>> => (Has(q, X) <=> q[1] \in X \/ Has(Tail(q), X))
         /\ q = <<>> => ~Has(q, X)
<1>1. ASSUME NEW e \in Events PROVE Has(Append(q, e), X) <=> Has(q, X) \/ e \in X
  <2>1. /\ DOMAIN Append(q, e) = 1 .. Len(q) + 1 /\ DOMAIN q = 1 .. Len(q) /\ Len(q) \in Nat
        /\ \A i \in 1 .. Len(q) : Append(q, e)[i] = q[i]
        /\ Append(q, e)[Len(q) + 1] = e
    BY AppendFacts
  <2>2. \A i : i \in 1 .. Len(q) + 1 <=> i \in 1 .. Len(q) \/ i = Len(q) + 1
    BY <2>1
  <2> QED
    BY <2>1, <2>2, Zenon DEF Has
<1>2. ASSUME q # <<>> PROVE Has(q, X) <=> q[1] \in X \/ Has(Tail(q), X)
  <2>1. /\ DOMAIN Tail(q) = 1 .. Len(q) - 1 /\ DOMAIN q = 1 .. Len(q)
        /\ Len(q) \in Nat /\ Len(q) >= 1
        /\ \A i \in 1 .. Len(q) - 1 : Tail(q)[i] = q[i + 1]
    BY <1>2, TailFacts
  <2>2. ASSUME Has(q, X) PROVE q[1] \in X \/ Has(Tail(q), X)
    <3>1. PICK i \in 1 .. Len(q) : q[i] \in X
      BY <2>1, <2>2 DEF Has
    <3>2. CASE i = 1
      BY <3>1, <3>2
    <3>3. CASE i # 1
      <4>1. i - 1 \in 1 .. Len(q) - 1 /\ Tail(q)[i - 1] = q[i]
        BY <2>1, <3>3
      <4> QED
        BY <2>1, <3>1, <4>1 DEF Has
    <3> QED
      BY <3>2, <3>3
  <2>3. 1 \in DOMAIN q /\ \A i \in 1 .. Len(q) - 1 : i + 1 \in DOMAIN q
    BY <2>1
  <2>4. Has(Tail(q), X) => Has(q, X)
    BY <2>1, <2>3 DEF Has
  <2> QED
    BY <2>2, <2>3, <2>4 DEF Has
<1>3. ASSUME q = <<>> PROVE ~Has(q, X)
  BY <1>3 DEF Has
<1> QED
  BY <1>1, <1>2, <1>3

(* Every move keeps every fact on its way until it is shown.                *)
LEMMA LosslessStepInv ==
  ASSUME BoundaryInv, BoundaryInv', LosslessInv, HealthyMove
  PROVE  LosslessInv'
<1>0. /\ pc \in [Threads -> Pcs] /\ cur \in [Threads -> Events] /\ Owner \in Threads
      /\ Owner \notin Workers /\ shown.facts \in Seq(Nat)
      /\ inbox \in Seq(Events) /\ failures \in Seq(Events)
      /\ deltas \in [Counters -> Nat] /\ \A w \in Workers : w \in Threads /\ w # Owner
      /\ \A i \in DOMAIN inbox : Proper(inbox[i])
      /\ \A i \in DOMAIN failures : Proper(failures[i]) /\ failures[i].kind = "failure"
      /\ \A t \in Threads : Proper(cur[t])
  BY ThreadsAssumption DEF BoundaryInv, TypeOK, Shape, Threads
<1> SUFFICES ASSUME NEW n \in Nat PROVE Lossless(n)'
  BY DEF LosslessInv
<1>i. Lossless(n)
  BY DEF LosslessInv
<1>f. \A e \in Events : e \in FactsOf(n) <=> IsFact(e) /\ e.n = n
  BY DEF FactsOf
<1>1. ASSUME NEW t \in Threads, NEW p \in Accepted, Walks(t, p) PROVE Lossless(n)'
  <2>1. UNCHANGED <<inbox, shown, emitted, cur>> /\ (HasFact' <=> HasFact)
    BY <1>1, <1>0 DEF Walks, PassesOn, Ways, Accepted, Carrying, Draining, HasFact
  <2> QED
    BY <1>i, <2>1 DEF Lossless, IsShown
<1>3. ASSUME NEW t \in Threads, NEW p \in Accepted, NEW g \in Nat, SendsGauge(t, p, g)
      PROVE  Lossless(n)'
  <2>1. Gauge(g) \in Events /\ ~IsFact(Gauge(g))
    BY EventsAreProper DEF Proper, IsFact
  <2>2. Has(Append(inbox, Gauge(g)), FactsOf(n)) <=> Has(inbox, FactsOf(n))
    BY <1>0, <1>f, <2>1, HasSteps
  <2>3. /\ inbox' = Append(inbox, Gauge(g)) /\ UNCHANGED <<shown, emitted, cur>>
        /\ HasFact' <=> HasFact
    BY <1>3, <1>0 DEF SendsGauge, PassesOn, Accepted, Carrying, Draining, HasFact
  <2> QED
    BY <1>i, <2>2, <2>3 DEF Lossless, IsShown
<1>4. ASSUME NEW t \in Threads, SendsOwn(t) PROVE Lossless(n)'
  <2>1. Has(Append(inbox, cur[t]), FactsOf(n)) <=>
          Has(inbox, FactsOf(n)) \/ (IsFact(cur[t]) /\ cur[t].n = n)
    BY <1>0, <1>f, HasSteps
  <2>2. /\ inbox' = Append(inbox, cur[t]) /\ UNCHANGED <<shown, emitted, cur, stage>>
        /\ pc' = [pc EXCEPT ![t] = "run"] /\ pc[t] \in {"send", "block"}
    BY <1>4 DEF SendsOwn, Lets
  <2>3. CASE t \in Workers
    <3>1. ~IsFact(cur[t]) /\ (HasFact' <=> HasFact)
      BY <1>0, <2>2, <2>3 DEF BoundaryInv, WorkerInv, IsFact, HasFact
    <3> QED
      BY <1>i, <2>1, <2>2, <3>1 DEF Lossless, IsShown
  <2>4. CASE t = Owner
    <3>1. ~HasFact' /\ (HasFact <=> IsFact(cur[Owner]))
      BY <1>0, <2>2, <2>4 DEF HasFact, BoundaryInv, OwnerInv, Draining
    <3> QED
      BY <1>i, <2>1, <2>2, <2>4, <3>1 DEF Lossless, IsShown
  <2> QED
    BY <2>3, <2>4 DEF Threads
<1>5. ASSUME NEW t \in Threads, PutsCount(t) PROVE Lossless(n)'
  <2>0. t = Owner => ~IsFact(cur[Owner])
    BY <1>5 DEF PutsCount, BoundaryInv, OwnerInv, IsFact
  <2>1. UNCHANGED <<inbox, shown, emitted, cur>> /\ (HasFact' <=> HasFact)
    BY <1>5, <1>0, <2>0 DEF PutsCount, Lets, HasFact
  <2> QED
    BY <1>i, <2>1 DEF Lossless, IsShown
<1>6. ASSUME NEW w \in Workers, PutsGauge(w) PROVE Lossless(n)'
  <2>1. UNCHANGED <<inbox, shown, emitted, cur>> /\ (HasFact' <=> HasFact)
    BY <1>6, <1>0 DEF PutsGauge, Lets, Ways, HasFact
  <2> QED
    BY <1>i, <2>1 DEF Lossless, IsShown
<1>7. ASSUME NEW w \in Workers, PutsFailure(w) PROVE Lossless(n)'
  <2>1. UNCHANGED <<inbox, shown, emitted, cur>> /\ (HasFact' <=> HasFact)
    BY <1>7, <1>0 DEF PutsFailure, Lets, HasFact
  <2> QED
    BY <1>i, <2>1 DEF Lossless, IsShown
<1>8. ASSUME NEW w \in Workers, NEW e, WorkerBegins(w, e) PROVE Lossless(n)'
  <2>1. UNCHANGED <<inbox, shown>> /\ cur'[Owner] = cur[Owner] /\ (HasFact' <=> HasFact)
    BY <1>8, <1>0 DEF WorkerBegins, Begins, HasFact
  <2>2. emitted'.facts = emitted.facts
    BY <1>8 DEF WorkerBegins, Begins, Noted
  <2> QED
    BY <1>i, <2>1, <2>2 DEF Lossless, IsShown
<1>9. ASSUME NEW k, SendsDelta(k) PROVE Lossless(n)'
  <2>1. Count(Only(k, deltas[k])) \in Events /\ ~IsFact(Count(Only(k, deltas[k])))
    BY <1>0, MergedAmounts, EventsAreProper DEF Proper, IsFact
  <2>2. Has(Append(inbox, Count(Only(k, deltas[k]))), FactsOf(n)) <=> Has(inbox, FactsOf(n))
    BY <1>0, <1>f, <2>1, HasSteps
  <2>3. /\ inbox' = Append(inbox, Count(Only(k, deltas[k])))
        /\ UNCHANGED <<shown, emitted, cur>> /\ (HasFact' <=> HasFact)
    BY <1>9 DEF SendsDelta, HasFact
  <2> QED
    BY <1>i, <2>2, <2>3 DEF Lossless, IsShown
<1>10. ASSUME SendsFailure PROVE Lossless(n)'
  <2>1. Head(failures) \in Events /\ ~IsFact(Head(failures))
    <3>1. Head(failures) = failures[1] /\ 1 \in DOMAIN failures
      BY <1>0, <1>10, TailFacts DEF SendsFailure
    <3> QED
      BY <1>0, <3>1 DEF Proper, IsFact
  <2>2. Has(Append(inbox, Head(failures)), FactsOf(n)) <=> Has(inbox, FactsOf(n))
    BY <1>0, <1>f, <2>1, HasSteps
  <2>3. /\ inbox' = Append(inbox, Head(failures)) /\ UNCHANGED <<shown, emitted, cur>>
        /\ HasFact' <=> HasFact
    BY <1>10 DEF SendsFailure, HasFact
  <2> QED
    BY <1>i, <2>2, <2>3 DEF Lossless, IsShown
<1>11. ASSUME Renders PROVE Lossless(n)'
  <2>1. /\ inbox # <<>> /\ inbox' = Tail(inbox) /\ shown' = Rendered(inbox[1])
        /\ UNCHANGED <<pc, cur, stage, emitted>> /\ Proper(inbox[1])
    <3>1. inbox # <<>> /\ inbox' = Tail(inbox) /\ shown' = Rendered(Head(inbox))
      BY <1>11 DEF Renders
    <3>2. Head(inbox) = inbox[1] /\ 1 \in DOMAIN inbox
      BY <1>0, <3>1, TailFacts
    <3> QED
      BY <1>11, <1>0, <3>1, <3>2 DEF Renders
  <2>2. /\ IF IsFact(inbox[1]) THEN shown'.facts = Append(shown.facts, inbox[1].n)
           ELSE shown'.facts = shown.facts
        /\ inbox[1].n \in Nat \/ ~IsFact(inbox[1])
    BY <2>1, ShownFacts DEF BoundaryInv, Shape
  <2>3. Has(inbox, FactsOf(n)) <=>
          (IsFact(inbox[1]) /\ inbox[1].n = n) \/ Has(Tail(inbox), FactsOf(n))
    BY <1>0, <1>f, <2>1, HasSteps DEF Proper
  <2>4. IsShown(n)' <=> IsShown(n) \/ (IsFact(inbox[1]) /\ inbox[1].n = n)
    <3>1. CASE ~IsFact(inbox[1])
      BY <2>2, <3>1 DEF IsShown
    <3>2. CASE IsFact(inbox[1])
      <4> DEFINE s == shown.facts
                 r == shown'.facts
      <4>1. /\ DOMAIN r = 1 .. Len(s) + 1 /\ DOMAIN s = 1 .. Len(s) /\ Len(s) \in Nat
            /\ \A i \in 1 .. Len(s) : r[i] = s[i]
            /\ r[Len(s) + 1] = inbox[1].n
        <5>1. s \in Seq(Nat) /\ inbox[1].n \in Nat /\ r = Append(s, inbox[1].n)
          BY <1>0, <2>2, <3>2
        <5> HIDE DEF s, r
        <5> QED
          BY <5>1, AppendFacts
      <4>2. \A i : i \in 1 .. Len(s) + 1 <=> i \in 1 .. Len(s) \/ i = Len(s) + 1
        BY <4>1
      <4>3. IsShown(n) <=> \E i \in DOMAIN s : s[i] = n
        BY DEF IsShown
      <4>4. IsShown(n)' <=> \E i \in DOMAIN r : r[i] = n
        BY DEF IsShown
      <4> HIDE DEF s, r
      <4>5. (\E i \in DOMAIN r : r[i] = n) <=> (\E i \in DOMAIN s : s[i] = n) \/ inbox[1].n = n
        BY <4>1, <4>2, Zenon
      <4> QED
        BY <3>2, <4>3, <4>4, <4>5
    <3> QED
      BY <3>1, <3>2
  <2>5. HasFact' <=> HasFact
    BY <2>1 DEF HasFact
  <2> QED
    BY <1>i, <2>1, <2>3, <2>4, <2>5 DEF Lossless
<1>12. ASSUME GoesOn PROVE Lossless(n)'
  <2>1. UNCHANGED <<inbox, shown, emitted, cur>> /\ (HasFact' <=> HasFact)
    BY <1>12 DEF GoesOn
  <2> QED
    BY <1>i, <2>1 DEF Lossless, IsShown
<1>13. ASSUME NEW e, OwnerBegins(e) PROVE Lossless(n)'
  <2>1. UNCHANGED <<inbox, shown>> /\ cur'[Owner] = e /\ ~HasFact /\ (HasFact' <=> IsFact(e))
    BY <1>13, <1>0 DEF OwnerBegins, Begins, HasFact
  <2>2. n \in emitted'.facts <=> n \in emitted.facts \/ (IsFact(e) /\ e.n = n)
    BY <1>13 DEF OwnerBegins, Begins, Noted
  <2> QED
    BY <1>i, <2>1, <2>2 DEF Lossless, IsShown
<1> QED
  BY <1>1, <1>3, <1>4, <1>5, <1>6, <1>7, <1>8, <1>9, <1>10, <1>11, <1>12, <1>13
     DEF HealthyMove

(* Every move keeps the terminal record on its way.                         *)
LEMMA TerminalStepInv ==
  ASSUME BoundaryInv, TerminalInv, HealthyMove
  PROVE  TerminalInv'
<1>0. /\ pc \in [Threads -> Pcs] /\ cur \in [Threads -> Events] /\ Owner \in Threads
      /\ Owner \notin Workers /\ facts \in Nat /\ shown.facts \in Seq(Nat)
      /\ inbox \in Seq(Events) /\ failures \in Seq(Events)
      /\ deltas \in [Counters -> Nat] /\ \A w \in Workers : w \in Threads /\ w # Owner
      /\ \A i \in DOMAIN inbox : Proper(inbox[i])
      /\ \A i \in DOMAIN failures : Proper(failures[i]) /\ failures[i].kind = "failure"
      /\ \A t \in Threads : Proper(cur[t])
  BY ThreadsAssumption DEF BoundaryInv, TypeOK, Shape, Threads
<1>i. (shown.terminal \/ Queued => jsonl) /\ (jsonl /\ Delivered => shown.terminal \/ Queued)
  BY DEF TerminalInv
<1>j. UNCHANGED jsonl
  BY DEF HealthyMove
<1>1. ASSUME NEW t \in Threads, NEW p \in Accepted, Walks(t, p) PROVE TerminalInv'
  <2>1. UNCHANGED <<inbox, shown>> /\ (jsonl /\ Delivered' => Delivered)
    BY <1>1, <1>0 DEF Walks, PassesOn, Ways, Accepted, Carrying, Draining, Delivered
  <2> QED
    BY <1>i, <1>j, <2>1 DEF TerminalInv, Queued
<1>3. ASSUME NEW t \in Threads, NEW p \in Accepted, NEW n \in Nat, SendsGauge(t, p, n)
      PROVE  TerminalInv'
  <2>1. Gauge(n) \in Events /\ Gauge(n) \notin Terminals
    BY EventsAreProper DEF Proper, Terminals
  <2>2. Has(Append(inbox, Gauge(n)), Terminals) <=> Has(inbox, Terminals)
    BY <1>0, <2>1, HasSteps
  <2>3. /\ inbox' = Append(inbox, Gauge(n)) /\ UNCHANGED shown /\ (Delivered' => Delivered)
    BY <1>3, <1>0 DEF SendsGauge, PassesOn, Accepted, Carrying, Draining, Delivered
  <2> QED
    BY <1>i, <1>j, <2>2, <2>3 DEF TerminalInv, Queued
<1>4. ASSUME NEW t \in Threads, SendsOwn(t) PROVE TerminalInv'
  <2>1. Has(Append(inbox, cur[t]), Terminals) <=> Has(inbox, Terminals) \/ cur[t] \in Terminals
    BY <1>0, HasSteps
  <2>2. /\ inbox' = Append(inbox, cur[t]) /\ UNCHANGED <<shown, stage>>
        /\ pc' = [pc EXCEPT ![t] = "run"] /\ pc[t] \in {"send", "block"}
    BY <1>4 DEF SendsOwn, Lets
  <2>3. cur[t] \in Terminals => jsonl
    BY <2>2 DEF Terminals, BoundaryInv, WorkerInv, OwnerInv, Draining, Threads
  <2>4. Delivered' => Delivered \/ cur[t] \in Terminals
    BY <1>0, <2>2 DEF Delivered, Terminals, BoundaryInv, OwnerInv, Draining
  <2> QED
    BY <1>i, <1>j, <2>1, <2>2, <2>3, <2>4 DEF TerminalInv, Queued
<1>5. ASSUME NEW t \in Threads, PutsCount(t) PROVE TerminalInv'
  <2>1. UNCHANGED <<inbox, shown, stage>> /\ (stage[Owner] = "close" => pc'[Owner] = pc[Owner])
    <3>1. t = Owner => stage[Owner] # "close"
      BY <1>5 DEF PutsCount, BoundaryInv, OwnerInv
    <3> QED
      BY <1>5, <1>0, <3>1 DEF PutsCount, Lets
  <2> QED
    BY <1>i, <1>j, <2>1 DEF TerminalInv, Queued, Delivered
<1>6. ASSUME NEW w \in Workers, PutsGauge(w) PROVE TerminalInv'
  <2>1. UNCHANGED <<inbox, shown>> /\ (jsonl /\ Delivered' => Delivered)
    BY <1>6, <1>0 DEF PutsGauge, Lets, Ways, Delivered
  <2> QED
    BY <1>i, <1>j, <2>1 DEF TerminalInv, Queued
<1>7. ASSUME NEW w \in Workers, PutsFailure(w) PROVE TerminalInv'
  <2>1. UNCHANGED <<inbox, shown>> /\ (jsonl /\ Delivered' => Delivered)
    BY <1>7, <1>0 DEF PutsFailure, Lets, Delivered
  <2> QED
    BY <1>i, <1>j, <2>1 DEF TerminalInv, Queued
<1>8. ASSUME NEW w \in Workers, NEW e, WorkerBegins(w, e) PROVE TerminalInv'
  <2>1. UNCHANGED <<inbox, shown>> /\ (jsonl /\ Delivered' => Delivered)
    BY <1>8, <1>0 DEF WorkerBegins, Begins, Delivered
  <2> QED
    BY <1>i, <1>j, <2>1 DEF TerminalInv, Queued
<1>9. ASSUME NEW k, SendsDelta(k) PROVE TerminalInv'
  <2>1. Count(Only(k, deltas[k])) \in Events /\ Count(Only(k, deltas[k])) \notin Terminals
    BY <1>0, MergedAmounts, EventsAreProper DEF Proper, Terminals
  <2>2. Has(Append(inbox, Count(Only(k, deltas[k]))), Terminals) <=> Has(inbox, Terminals)
    BY <1>0, <2>1, HasSteps
  <2>3. /\ inbox' = Append(inbox, Count(Only(k, deltas[k]))) /\ UNCHANGED shown
        /\ (Delivered' => Delivered)
    BY <1>9, <1>0 DEF SendsDelta, Delivered
  <2> QED
    BY <1>i, <1>j, <2>2, <2>3 DEF TerminalInv, Queued
<1>10. ASSUME SendsFailure PROVE TerminalInv'
  <2>1. Head(failures) \in Events /\ Head(failures) \notin Terminals
    <3>1. Head(failures) = failures[1] /\ 1 \in DOMAIN failures
      BY <1>0, <1>10, TailFacts DEF SendsFailure
    <3> QED
      BY <1>0, <3>1 DEF Proper, Terminals
  <2>2. Has(Append(inbox, Head(failures)), Terminals) <=> Has(inbox, Terminals)
    BY <1>0, <2>1, HasSteps
  <2>3. /\ inbox' = Append(inbox, Head(failures)) /\ UNCHANGED shown
        /\ (Delivered' => Delivered)
    BY <1>10, <1>0 DEF SendsFailure, Delivered
  <2> QED
    BY <1>i, <1>j, <2>2, <2>3 DEF TerminalInv, Queued
<1>11. ASSUME Renders PROVE TerminalInv'
  <2>1. /\ inbox # <<>> /\ inbox' = Tail(inbox) /\ shown' = Rendered(inbox[1])
        /\ UNCHANGED <<pc, stage>> /\ 1 \in DOMAIN inbox /\ Proper(inbox[1])
    <3>1. inbox # <<>> /\ inbox' = Tail(inbox) /\ shown' = Rendered(Head(inbox))
      BY <1>11 DEF Renders
    <3>2. Head(inbox) = inbox[1] /\ 1 \in DOMAIN inbox
      BY <1>0, <3>1, TailFacts
    <3> QED
      BY <1>11, <1>0, <3>1, <3>2 DEF Renders
  <2>2. shown'.terminal <=> shown.terminal \/ inbox[1].kind = "terminal"
    BY <2>1, ShownFacts DEF BoundaryInv, Shape
  <2>3. Has(inbox, Terminals) <=> inbox[1] \in Terminals \/ Has(Tail(inbox), Terminals)
    BY <1>0, <2>1, HasSteps
  <2>4. inbox[1] \in Terminals <=> inbox[1].kind = "terminal"
    BY <2>1 DEF Terminals, Proper
  <2>5. Delivered' <=> Delivered
    BY <2>1 DEF Delivered
  <2> QED
    BY <1>i, <1>j, <2>1, <2>2, <2>3, <2>4, <2>5 DEF TerminalInv, Queued
<1>12. ASSUME GoesOn PROVE TerminalInv'
  <2>1. UNCHANGED <<inbox, shown>> /\ (jsonl /\ Delivered' => Delivered)
    BY <1>12, <1>0 DEF GoesOn, Delivered
  <2> QED
    BY <1>i, <1>j, <2>1 DEF TerminalInv, Queued
<1>13. ASSUME NEW e, OwnerBegins(e) PROVE TerminalInv'
  <2>1. UNCHANGED <<inbox, shown>> /\ (jsonl /\ Delivered' => Delivered)
    BY <1>13, <1>0 DEF OwnerBegins, Begins, Delivered
  <2> QED
    BY <1>i, <1>j, <2>1 DEF TerminalInv, Queued
<1> QED
  BY <1>1, <1>3, <1>4, <1>5, <1>6, <1>7, <1>8, <1>9, <1>10, <1>11, <1>12, <1>13
     DEF HealthyMove

(* Every move keeps a failure on its way until it is shown.                 *)
LEMMA ReportedStepInv ==
  ASSUME BoundaryInv, ReportedInv, HealthyMove
  PROVE  ReportedInv'
<1>0. /\ pc \in [Threads -> Pcs] /\ cur \in [Threads -> Events] /\ Owner \in Threads
      /\ Owner \notin Workers /\ facts \in Nat /\ shown.facts \in Seq(Nat)
      /\ inbox \in Seq(Events) /\ failures \in Seq(Events)
      /\ deltas \in [Counters -> Nat] /\ \A w \in Workers : w \in Threads /\ w # Owner
      /\ \A i \in DOMAIN inbox : Proper(inbox[i])
      /\ \A i \in DOMAIN failures : Proper(failures[i]) /\ failures[i].kind = "failure"
      /\ \A t \in Threads : Proper(cur[t])
  BY ThreadsAssumption DEF BoundaryInv, TypeOK, Shape, Threads
<1>i. \A v \in Workers : Reported(v)
  BY DEF ReportedInv
<1> SUFFICES ASSUME NEW v \in Workers
             PROVE  Reported(v)'
  BY DEF ReportedInv
<1>1. ASSUME NEW t \in Threads, NEW p \in Accepted, Walks(t, p) PROVE Reported(v)'
  <2>1. UNCHANGED <<inbox, failures, shown>> /\ (stage'[v] \in Failed <=> stage[v] \in Failed)
    BY <1>1, <1>0 DEF Walks, Ways
  <2>2. InHand(v) => InHand(v)'
    BY <1>1, <1>0 DEF Walks, PassesOn, Ways, Accepted, Carrying, Draining, InHand
  <2> QED
    BY <1>i, <2>1, <2>2 DEF Reported, Sent, Aside
<1>3. ASSUME NEW t \in Threads, NEW p \in Accepted, NEW n \in Nat, SendsGauge(t, p, n)
      PROVE  Reported(v)'
  <2>1. Gauge(n) \in Events /\ Gauge(n) \notin FailuresOf(v)
    BY EventsAreProper DEF Proper, FailuresOf
  <2>2. Has(Append(inbox, Gauge(n)), FailuresOf(v)) <=> Has(inbox, FailuresOf(v))
    BY <1>0, <2>1, HasSteps
  <2>3. inbox' = Append(inbox, Gauge(n)) /\ UNCHANGED <<failures, shown, stage>>
    BY <1>3 DEF SendsGauge
  <2>4. InHand(v) => InHand(v)'
    BY <1>3, <1>0 DEF SendsGauge, PassesOn, Accepted, Carrying, Draining, InHand
  <2> QED
    BY <1>i, <2>2, <2>3, <2>4 DEF Reported, Sent, Aside
<1>4. ASSUME NEW t \in Threads, SendsOwn(t) PROVE Reported(v)'
  <2>1. Has(Append(inbox, cur[t]), FailuresOf(v)) <=>
          Has(inbox, FailuresOf(v)) \/ cur[t] \in FailuresOf(v)
    BY <1>0, HasSteps
  <2>2. inbox' = Append(inbox, cur[t]) /\ UNCHANGED <<failures, shown, stage>>
    BY <1>4 DEF SendsOwn
  <2>3. cur[t].kind = "failure" => t \in Workers /\ cur[t].n = t /\ stage[t] = "failed"
    BY <1>4 DEF SendsOwn, BoundaryInv, WorkerInv, OwnerInv, Draining, Threads
  <2>4. InHand(v) => InHand(v)' \/ cur[t] \in FailuresOf(v)
    BY <1>4, <1>0, <2>3 DEF SendsOwn, Lets, InHand, FailuresOf
  <2>5. cur[t] \in FailuresOf(v) => stage[v] \in Failed
    BY <2>3 DEF FailuresOf, Failed
  <2> QED
    BY <1>i, <2>1, <2>2, <2>4, <2>5 DEF Reported, Sent, Aside
<1>5. ASSUME NEW t \in Threads, PutsCount(t) PROVE Reported(v)'
  <2>0. cur[t].kind = "count"
    BY <1>5 DEF PutsCount, BoundaryInv, WorkerInv, OwnerInv, Threads
  <2>1. UNCHANGED <<inbox, failures, shown>> /\ (stage'[v] \in Failed <=> stage[v] \in Failed)
    BY <1>5, <1>0 DEF PutsCount
  <2>2. InHand(v) => InHand(v)'
    BY <1>5, <1>0, <2>0 DEF PutsCount, Lets, InHand
  <2> QED
    BY <1>i, <2>1, <2>2 DEF Reported, Sent, Aside
<1>6. ASSUME NEW w \in Workers, PutsGauge(w) PROVE Reported(v)'
  <2>0. cur[w].kind = "gauge"
    BY <1>6 DEF PutsGauge, BoundaryInv, WorkerInv
  <2>1. UNCHANGED <<inbox, failures, shown>> /\ (stage'[v] \in Failed <=> stage[v] \in Failed)
    BY <1>6, <1>0 DEF PutsGauge, Ways
  <2>2. InHand(v) => InHand(v)'
    BY <1>6, <1>0, <2>0 DEF PutsGauge, Lets, Ways, InHand
  <2> QED
    BY <1>i, <2>1, <2>2 DEF Reported, Sent, Aside
<1>7. ASSUME NEW w \in Workers, PutsFailure(w) PROVE Reported(v)'
  <2>1. cur[w].kind = "failure" /\ cur[w].n = w /\ cur[w] \in Events
    BY <1>7, <1>0 DEF PutsFailure, BoundaryInv, WorkerInv
  <2>2. Has(Append(failures, cur[w]), FailuresOf(v)) <=>
          Has(failures, FailuresOf(v)) \/ cur[w] \in FailuresOf(v)
    BY <1>0, <2>1, HasSteps
  <2>3. failures' = Append(failures, cur[w]) /\ UNCHANGED <<inbox, shown, stage>>
    BY <1>7 DEF PutsFailure
  <2>4. InHand(v) => InHand(v)' \/ cur[w] \in FailuresOf(v)
    BY <1>7, <1>0, <2>1 DEF PutsFailure, Lets, InHand, FailuresOf
  <2> QED
    BY <1>i, <2>2, <2>3, <2>4 DEF Reported, Sent, Aside
<1>8. ASSUME NEW w \in Workers, NEW e, WorkerBegins(w, e) PROVE Reported(v)'
  <2>1. /\ UNCHANGED <<inbox, failures, shown>>
        /\ (stage'[v] \in Failed <=> stage[v] \in Failed)
             \/ (v = w /\ stage'[v] = "failed" /\ e.kind = "failure")
    BY <1>8 DEF WorkerBegins, Begins
  <2>2. InHand(v) => InHand(v)'
    BY <1>8, <1>0 DEF WorkerBegins, Begins, InHand
  <2>3. v = w /\ e.kind = "failure" => InHand(v)'
    BY <1>8, <1>0 DEF WorkerBegins, Begins, InHand
  <2> QED
    BY <1>i, <2>1, <2>2, <2>3 DEF Reported, Sent, Aside, Failed
<1>9. ASSUME NEW k, SendsDelta(k) PROVE Reported(v)'
  <2>1. Count(Only(k, deltas[k])) \in Events /\ Count(Only(k, deltas[k])) \notin FailuresOf(v)
    BY <1>0, MergedAmounts, EventsAreProper DEF Proper, FailuresOf
  <2>2. Has(Append(inbox, Count(Only(k, deltas[k]))), FailuresOf(v)) <=>
          Has(inbox, FailuresOf(v))
    BY <1>0, <2>1, HasSteps
  <2>3. /\ inbox' = Append(inbox, Count(Only(k, deltas[k])))
        /\ UNCHANGED <<failures, shown, stage>>
    BY <1>9 DEF SendsDelta
  <2>4. InHand(v) => InHand(v)'
    BY <1>9, <1>0 DEF SendsDelta, InHand
  <2> QED
    BY <1>i, <2>2, <2>3, <2>4 DEF Reported, Sent, Aside
<1>10. ASSUME SendsFailure PROVE Reported(v)'
  <2>1. failures # <<>> /\ inbox' = Append(inbox, Head(failures)) /\ failures' = Tail(failures)
    BY <1>10 DEF SendsFailure
  <2>2. Head(failures) = failures[1] /\ 1 \in DOMAIN failures
    BY <1>0, <2>1, TailFacts
  <2>3. failures[1] \in Events /\ stage[failures[1].n] \in Failed
    BY <1>0, <2>2 DEF Proper, BoundaryInv, FailuresInv, Failed
  <2>4. Has(Append(inbox, failures[1]), FailuresOf(v)) <=>
          Has(inbox, FailuresOf(v)) \/ failures[1] \in FailuresOf(v)
    BY <1>0, <2>3, HasSteps
  <2>5. Has(failures, FailuresOf(v)) <=>
          failures[1] \in FailuresOf(v) \/ Has(Tail(failures), FailuresOf(v))
    BY <1>0, <2>1, HasSteps
  <2>6. failures[1] \in FailuresOf(v) => stage[v] \in Failed
    BY <2>3 DEF FailuresOf
  <2>7. UNCHANGED <<shown, stage>> /\ (InHand(v) => InHand(v)')
    BY <1>10 DEF SendsFailure, InHand
  <2> QED
    BY <1>i, <2>1, <2>2, <2>4, <2>5, <2>6, <2>7 DEF Reported, Sent, Aside
<1>11. ASSUME Renders PROVE Reported(v)'
  <2>1. /\ inbox # <<>> /\ inbox' = Tail(inbox) /\ shown' = Rendered(inbox[1])
        /\ UNCHANGED <<pc, cur, stage, failures>> /\ 1 \in DOMAIN inbox /\ Proper(inbox[1])
    <3>1. inbox # <<>> /\ inbox' = Tail(inbox) /\ shown' = Rendered(Head(inbox))
      BY <1>11 DEF Renders
    <3>2. Head(inbox) = inbox[1] /\ 1 \in DOMAIN inbox
      BY <1>0, <3>1, TailFacts
    <3> QED
      BY <1>11, <1>0, <3>1, <3>2 DEF Renders
  <2>2. v \in shown'.failures <=>
          v \in shown.failures \/ (inbox[1].kind = "failure" /\ inbox[1].n = v)
    BY <2>1, ShownFacts DEF BoundaryInv, Shape
  <2>3. Has(inbox, FailuresOf(v)) <=>
          inbox[1] \in FailuresOf(v) \/ Has(Tail(inbox), FailuresOf(v))
    BY <1>0, <2>1, HasSteps
  <2>4. inbox[1] \in FailuresOf(v) <=> inbox[1].kind = "failure" /\ inbox[1].n = v
    BY <2>1 DEF FailuresOf, Proper
  <2> QED
    BY <1>i, <2>1, <2>2, <2>3, <2>4 DEF Reported, Sent, Aside, InHand
<1>12. ASSUME GoesOn PROVE Reported(v)'
  <2>1. UNCHANGED <<inbox, failures, shown>> /\ (stage'[v] \in Failed <=> stage[v] \in Failed)
    BY <1>12, <1>0 DEF GoesOn
  <2>2. InHand(v) => InHand(v)'
    BY <1>12, <1>0 DEF GoesOn, InHand
  <2> QED
    BY <1>i, <2>1, <2>2 DEF Reported, Sent, Aside
<1>13. ASSUME NEW e, OwnerBegins(e) PROVE Reported(v)'
  <2>1. UNCHANGED <<inbox, failures, shown>> /\ (stage'[v] \in Failed <=> stage[v] \in Failed)
    BY <1>13, <1>0 DEF OwnerBegins, Begins
  <2>2. InHand(v) => InHand(v)'
    BY <1>13, <1>0 DEF OwnerBegins, Begins, InHand
  <2> QED
    BY <1>i, <2>1, <2>2 DEF Reported, Sent, Aside
<1> QED
  BY <1>1, <1>3, <1>4, <1>5, <1>6, <1>7, <1>8, <1>9, <1>10, <1>11, <1>12, <1>13
     DEF HealthyMove

(* Every move keeps the events of the threads single.                       *)
LEMMA UnitStepInv ==
  ASSUME BoundaryInv, UnitInv, HealthyMove
  PROVE  UnitInv'
<1>0. /\ pc \in [Threads -> Pcs] /\ cur \in [Threads -> Events] /\ Owner \in Threads
      /\ Owner \notin Workers /\ facts \in Nat /\ shown.facts \in Seq(Nat)
      /\ inbox \in Seq(Events) /\ failures \in Seq(Events)
      /\ deltas \in [Counters -> Nat] /\ \A w \in Workers : w \in Threads /\ w # Owner
      /\ \A i \in DOMAIN inbox : Proper(inbox[i])
      /\ \A i \in DOMAIN failures : Proper(failures[i]) /\ failures[i].kind = "failure"
      /\ \A t \in Threads : Proper(cur[t])
  BY ThreadsAssumption DEF BoundaryInv, TypeOK, Shape, Threads
<1>i. UNCHANGED cur => UnitInv'
  BY DEF UnitInv
<1>1. ASSUME NEW t \in Threads, NEW p \in Accepted, Walks(t, p) PROVE UnitInv'
  BY <1>1, <1>i DEF Walks, PassesOn, Ways
<1>3. ASSUME NEW t \in Threads, NEW p \in Accepted, NEW n \in Nat, SendsGauge(t, p, n)
      PROVE  UnitInv'
  BY <1>3, <1>i DEF SendsGauge, PassesOn
<1>4. ASSUME NEW t \in Threads, SendsOwn(t) PROVE UnitInv'
  BY <1>4, <1>i DEF SendsOwn, Lets
<1>5. ASSUME NEW t \in Threads, PutsCount(t) PROVE UnitInv'
  BY <1>5, <1>i DEF PutsCount, Lets
<1>6. ASSUME NEW w \in Workers, PutsGauge(w) PROVE UnitInv'
  BY <1>6, <1>i DEF PutsGauge, Ways, Lets
<1>7. ASSUME NEW w \in Workers, PutsFailure(w) PROVE UnitInv'
  BY <1>7, <1>i DEF PutsFailure, Lets
<1>8. ASSUME NEW w \in Workers, NEW e, WorkerBegins(w, e) PROVE UnitInv'
  <2>1. cur' = [cur EXCEPT ![w] = e] /\ Single(e)
    BY <1>8 DEF WorkerBegins, Begins
  <2> QED
    BY <1>0, <2>1 DEF UnitInv
<1>9. ASSUME NEW k, SendsDelta(k) PROVE UnitInv'
  BY <1>9, <1>i DEF SendsDelta
<1>10. ASSUME SendsFailure PROVE UnitInv'
  BY <1>10, <1>i DEF SendsFailure
<1>11. ASSUME Renders PROVE UnitInv'
  BY <1>11, <1>i DEF Renders
<1>12. ASSUME GoesOn PROVE UnitInv'
  BY <1>12, <1>i DEF GoesOn
<1>13. ASSUME NEW e, OwnerBegins(e) PROVE UnitInv'
  <2>1. cur' = [cur EXCEPT ![Owner] = e] /\ Single(e)
    BY <1>13 DEF OwnerBegins, Begins
  <2> QED
    BY <1>0, <2>1 DEF UnitInv
<1> QED
  BY <1>1, <1>3, <1>4, <1>5, <1>6, <1>7, <1>8, <1>9, <1>10, <1>11, <1>12, <1>13
     DEF HealthyMove

(* Every step of a healthy run leaves drained what close has drained.       *)
LEMMA DrainedStepInv ==
  ASSUME BoundaryInv, ~fault, ~fault', DrainedInv, [Next]_vars
  PROVE  DrainedInv'
<1>0. /\ pc \in [Threads -> Pcs] /\ stage \in [Threads -> WorkerStages \cup OwnerStages]
      /\ cur \in [Threads -> Events] /\ Owner \in Threads /\ Owner \notin Workers
      /\ \A w \in Workers : w \in Threads /\ w # Owner
      /\ TypeOK /\ Shape /\ WorkerInv /\ OwnerInv /\ FailuresInv /\ ReadersInv /\ HealthInv
  BY ThreadsAssumption DEF BoundaryInv, TypeOK, Shape, Threads
<1>h. \A t \in Threads : pc[t] \notin {"run", "join"} => receiver /\ ~failed /\ sender = "open"
  BY HealthySends
<1>n. gauge # None => gauge \in Nat
  BY <1>0 DEF TypeOK
<1>i. /\ Past({"drain_deltas"}) => deltas = Zero
      /\ Past({"drain_deltas", "drain_failures"}) => failures = <<>>
      /\ rpc \in {"finish", "exited"} => inbox = <<>>
  BY DEF DrainedInv
<1>e. \A w \in Workers : pc[w] # "run" =>
        stage[Owner] \notin {"closing", "closed"}
  BY <1>0 DEF WorkerInv, Gone, Returned
<1>1. ASSUME NEW t \in Threads, EmitStart(t) PROVE DrainedInv'
  <2>1. pc[t] = "emit" /\ receiver /\ ~failed /\ UNCHANGED <<stage, rpc>>
    BY <1>1, <1>h DEF EmitStart, work, renderer
  <2>2. rpc' \notin {"finish", "exited"}
    BY <1>0, <2>1 DEF HealthInv
  <2>3. stage'[Owner] \notin {"closing", "closed"}
    BY <1>0, <1>e, <2>1 DEF OwnerInv, Draining, Threads
  <2> QED
    BY <2>2, <2>3 DEF DrainedInv, Past
<1>2. ASSUME NEW t \in Threads, FlushDelta(t) PROVE DrainedInv'
  <2>1. pc[t] = "deltas" /\ receiver /\ ~failed /\ UNCHANGED <<stage, rpc>>
    BY <1>2, <1>h DEF FlushDelta, work, renderer
  <2>2. rpc' \notin {"finish", "exited"}
    BY <1>0, <2>1 DEF HealthInv
  <2>3. stage'[Owner] \notin {"closing", "closed"}
    BY <1>0, <1>e, <2>1 DEF OwnerInv, Draining, Threads
  <2> QED
    BY <2>2, <2>3 DEF DrainedInv, Past
<1>3. ASSUME NEW t \in Threads, FlushFailure(t) PROVE DrainedInv'
  <2>1. pc[t] = "failures" /\ receiver /\ ~failed /\ UNCHANGED <<stage, rpc>>
    BY <1>3, <1>h DEF FlushFailure, work, renderer
  <2>2. rpc' \notin {"finish", "exited"}
    BY <1>0, <2>1 DEF HealthInv
  <2>3. stage'[Owner] \notin {"closing", "closed"}
    BY <1>0, <1>e, <2>1 DEF OwnerInv, Draining, Threads
  <2> QED
    BY <2>2, <2>3 DEF DrainedInv, Past
<1>4. ASSUME NEW t \in Threads, FlushGauge(t) PROVE DrainedInv'
  <2>1. pc[t] = "gauges" /\ receiver /\ ~failed /\ UNCHANGED <<stage, rpc>>
    BY <1>4, <1>h DEF FlushGauge, work, renderer
  <2>2. rpc' \notin {"finish", "exited"}
    BY <1>0, <2>1 DEF HealthInv
  <2>3. stage'[Owner] \notin {"closing", "closed"}
    BY <1>0, <1>e, <2>1 DEF OwnerInv, Draining, Threads
  <2> QED
    BY <2>2, <2>3 DEF DrainedInv, Past
<1>5. ASSUME NEW t \in Threads, TrySend(t) PROVE DrainedInv'
  <2>1. pc[t] = "send" /\ receiver /\ ~failed /\ UNCHANGED <<stage, rpc>>
    BY <1>5, <1>h, TrySendCases DEF work, renderer
  <2>2. rpc' \notin {"finish", "exited"}
    BY <1>0, <2>1 DEF HealthInv
  <2>3. stage'[Owner] \notin {"closing", "closed"}
    BY <1>0, <1>e, <2>1 DEF OwnerInv, Draining, Threads
  <2> QED
    BY <2>2, <2>3 DEF DrainedInv, Past
<1>6. ASSUME NEW t \in Threads, CoalesceCount(t) PROVE DrainedInv'
  <2>1. pc[t] = "count" /\ receiver /\ ~failed /\ UNCHANGED <<stage, rpc>>
    BY <1>6, <1>h DEF CoalesceCount, work, renderer
  <2>2. rpc' \notin {"finish", "exited"}
    BY <1>0, <2>1 DEF HealthInv
  <2>3. stage'[Owner] \notin {"closing", "closed"}
    BY <1>0, <1>e, <2>1 DEF OwnerInv, Draining, Threads
  <2> QED
    BY <2>2, <2>3 DEF DrainedInv, Past
<1>7. ASSUME NEW t \in Threads, CoalesceGauge(t) PROVE DrainedInv'
  <2>1. pc[t] = "gauge" /\ receiver /\ ~failed /\ UNCHANGED <<stage, rpc>>
    BY <1>7, <1>h DEF CoalesceGauge, work, renderer
  <2>2. rpc' \notin {"finish", "exited"}
    BY <1>0, <2>1 DEF HealthInv
  <2>3. stage'[Owner] \notin {"closing", "closed"}
    BY <1>0, <1>e, <2>1 DEF OwnerInv, Draining, Threads
  <2> QED
    BY <2>2, <2>3 DEF DrainedInv, Past
<1>8. ASSUME NEW t \in Threads, CoalesceFailure(t) PROVE DrainedInv'
  <2>1. pc[t] = "failure" /\ receiver /\ ~failed /\ UNCHANGED <<stage, rpc>>
    BY <1>8, <1>h DEF CoalesceFailure, work, renderer
  <2>2. rpc' \notin {"finish", "exited"}
    BY <1>0, <2>1 DEF HealthInv
  <2>3. stage'[Owner] \notin {"closing", "closed"}
    BY <1>0, <1>e, <2>1 DEF OwnerInv, Draining, Threads
  <2> QED
    BY <2>2, <2>3 DEF DrainedInv, Past
<1>9. ASSUME NEW t \in Threads, BlockingSend(t) PROVE DrainedInv'
  <2>1. pc[t] = "block" /\ receiver /\ ~failed /\ UNCHANGED <<stage, rpc>>
    BY <1>9, <1>h DEF BlockingSend, work, renderer
  <2>2. rpc' \notin {"finish", "exited"}
    BY <1>0, <2>1 DEF HealthInv
  <2>3. stage'[Owner] \notin {"closing", "closed"}
    BY <1>0, <1>e, <2>1 DEF OwnerInv, Draining, Threads
  <2> QED
    BY <2>2, <2>3 DEF DrainedInv, Past
<1>10. ASSUME NEW t \in Threads, DrainDelta(t) PROVE DrainedInv'
  <2>1. pc[t] = "drain_deltas" /\ receiver /\ ~failed /\ UNCHANGED <<stage, rpc>>
    BY <1>10, <1>h DEF DrainDelta, work, renderer
  <2>2. rpc' \notin {"finish", "exited"}
    BY <1>0, <2>1 DEF HealthInv
  <2>3. t = Owner
    BY <1>0, <2>1 DEF WorkerInv, Threads
  <2>4. \/ Pending = {} /\ pc'[Owner] = "drain_failures" /\ UNCHANGED deltas
        \/ pc'[Owner] = "drain_deltas"
    BY <1>10, <1>0, <2>1, <2>3 DEF DrainDelta, Goto
  <2>5. Pending = {} => deltas = Zero
    <3> SUFFICES ASSUME Pending = {} PROVE deltas = Zero
      OBVIOUS
    <3>1. \A k \in Counters : deltas[k] \in Nat /\ ~(deltas[k] > 0)
      BY <1>0 DEF TypeOK, Pending
    <3>2. \A k \in Counters : deltas[k] = 0
      BY <3>1
    <3> QED
      BY <1>0, <3>2 DEF TypeOK, Zero
  <2>6. ~Past({"drain_deltas", "drain_failures"})'
    BY <1>0, <2>1, <2>3, <2>4 DEF Past, OwnerInv
  <2>7. Past({"drain_deltas"})' => deltas' = Zero
    BY <1>0, <2>1, <2>3, <2>4, <2>5 DEF Past, OwnerInv
  <2> QED
    BY <2>2, <2>6, <2>7 DEF DrainedInv
<1>11. ASSUME NEW t \in Threads, DrainFailure(t) PROVE DrainedInv'
  <2>1. pc[t] = "drain_failures" /\ receiver /\ ~failed /\ UNCHANGED <<stage, rpc>>
    BY <1>11, <1>h DEF DrainFailure, work, renderer
  <2>2. rpc' \notin {"finish", "exited"}
    BY <1>0, <2>1 DEF HealthInv
  <2>3. t = Owner
    BY <1>0, <2>1 DEF WorkerInv, Threads
  <2>4. /\ UNCHANGED deltas
        /\ \/ failures = <<>> /\ pc'[Owner] = "drain_gauges" /\ UNCHANGED failures
           \/ pc'[Owner] = "drain_failures"
    BY <1>11, <1>0, <2>1, <2>3 DEF DrainFailure, Goto
  <2>5. Past({"drain_deltas"})' => Past({"drain_deltas"})
    BY <1>0, <2>1, <2>3 DEF Past, OwnerInv
  <2>6. Past({"drain_deltas", "drain_failures"})' => failures' = <<>>
    BY <1>0, <2>1, <2>3, <2>4 DEF Past, OwnerInv
  <2> QED
    BY <1>i, <2>2, <2>4, <2>5, <2>6 DEF DrainedInv
<1>12. ASSUME NEW t \in Threads, DrainGauge(t) PROVE DrainedInv'
  <2>1. pc[t] = "drain_gauges" /\ receiver /\ ~failed /\ UNCHANGED <<stage, rpc>>
    BY <1>12, <1>h DEF DrainGauge, work, renderer
  <2>2. rpc' \notin {"finish", "exited"}
    BY <1>0, <2>1 DEF HealthInv
  <2>3. t = Owner
    BY <1>0, <2>1 DEF WorkerInv, Threads
  <2>4. /\ UNCHANGED <<deltas, failures>>
        /\ Past({"drain_deltas"})' => Past({"drain_deltas"})
        /\ Past({"drain_deltas", "drain_failures"})' => Past({"drain_deltas", "drain_failures"})
    BY <1>12, <1>0, <2>1, <2>3 DEF DrainGauge, Past, OwnerInv
  <2> QED
    BY <1>i, <2>2, <2>4 DEF DrainedInv
<1>13. ASSUME NEW w \in Workers, Take(w) PROVE DrainedInv'
  <2>1. UNCHANGED <<deltas, failures, inbox, rpc>>
    BY <1>13, <1>0 DEF Take, Call, Goto, transport, renderer, work
  <2>2. /\ Past({"drain_deltas"})' => Past({"drain_deltas"})
        /\ Past({"drain_deltas", "drain_failures"})' => Past({"drain_deltas", "drain_failures"})
    BY <1>13, <1>0 DEF Take, Call, Goto, transport, renderer, work, Past, OwnerInv, Draining
  <2> QED
    BY <1>i, <2>1, <2>2 DEF DrainedInv
<1>14. ASSUME NEW w \in Workers, Chunk(w) PROVE DrainedInv'
  <2>1. UNCHANGED <<deltas, failures, inbox, rpc>>
    BY <1>14, <1>0 DEF Chunk, Call, Goto, transport, renderer, work
  <2>2. /\ Past({"drain_deltas"})' => Past({"drain_deltas"})
        /\ Past({"drain_deltas", "drain_failures"})' => Past({"drain_deltas", "drain_failures"})
    BY <1>14, <1>0 DEF Chunk, Call, Goto, transport, renderer, work, Past, OwnerInv, Draining
  <2> QED
    BY <1>i, <2>1, <2>2 DEF DrainedInv
<1>15. ASSUME NEW w \in Workers, Hashed(w) PROVE DrainedInv'
  <2>1. UNCHANGED <<deltas, failures, inbox, rpc>>
    BY <1>15, <1>0 DEF Hashed, Call, Goto, transport, renderer, work
  <2>2. /\ Past({"drain_deltas"})' => Past({"drain_deltas"})
        /\ Past({"drain_deltas", "drain_failures"})' => Past({"drain_deltas", "drain_failures"})
    BY <1>15, <1>0 DEF Hashed, Call, Goto, transport, renderer, work, Past, OwnerInv, Draining
  <2> QED
    BY <1>i, <2>1, <2>2 DEF DrainedInv
<1>16. ASSUME NEW w \in Workers, WorkFailed(w) PROVE DrainedInv'
  <2>1. UNCHANGED <<deltas, failures, inbox, rpc>>
    BY <1>16, <1>0 DEF WorkFailed, Call, Goto, transport, renderer, work
  <2>2. /\ Past({"drain_deltas"})' => Past({"drain_deltas"})
        /\ Past({"drain_deltas", "drain_failures"})' => Past({"drain_deltas", "drain_failures"})
    BY <1>16, <1>0
       DEF WorkFailed, Call, Goto, transport, renderer, work, Past, OwnerInv, Draining
  <2> QED
    BY <1>i, <2>1, <2>2 DEF DrainedInv
<1>17. ASSUME NEW w \in Workers, Decrement(w) PROVE DrainedInv'
  <2>1. UNCHANGED <<deltas, failures, inbox, rpc>>
    BY <1>17, <1>0 DEF Decrement, Call, Goto, transport, renderer, work
  <2>2. /\ Past({"drain_deltas"})' => Past({"drain_deltas"})
        /\ Past({"drain_deltas", "drain_failures"})' => Past({"drain_deltas", "drain_failures"})
    BY <1>17, <1>0
       DEF Decrement, Call, Goto, transport, renderer, work, Past, OwnerInv, Draining
  <2> QED
    BY <1>i, <2>1, <2>2 DEF DrainedInv
<1>18. ASSUME NEW w \in Workers, Leave(w) PROVE DrainedInv'
  <2>1. UNCHANGED <<deltas, failures, inbox, rpc>>
    BY <1>18, <1>0 DEF Leave, transport, renderer, work
  <2>2. /\ Past({"drain_deltas"})' => Past({"drain_deltas"})
        /\ Past({"drain_deltas", "drain_failures"})' => Past({"drain_deltas", "drain_failures"})
    BY <1>18, <1>0 DEF Leave, transport, renderer, work, Past, OwnerInv, Draining
  <2> QED
    BY <1>i, <2>1, <2>2 DEF DrainedInv
<1>19. ASSUME Started PROVE DrainedInv'
  <2>1. UNCHANGED <<deltas, failures, inbox, rpc>>
    BY <1>19, <1>0 DEF Started, Call, Goto, NextFact, transport, renderer, work
  <2>2. /\ Past({"drain_deltas"})' => Past({"drain_deltas"})
        /\ Past({"drain_deltas", "drain_failures"})' => Past({"drain_deltas", "drain_failures"})
    BY <1>19, <1>0
       DEF Started, Call, Goto, NextFact, transport, renderer, work, Past, OwnerInv, Draining
  <2> QED
    BY <1>i, <2>1, <2>2 DEF DrainedInv
<1>20. ASSUME OwnerEmits PROVE DrainedInv'
  <2>1. UNCHANGED <<deltas, failures, inbox, rpc>>
    BY <1>20, <1>0 DEF OwnerEmits, Call, Goto, NextFact, transport, renderer, work
  <2>2. /\ Past({"drain_deltas"})' => Past({"drain_deltas"})
        /\ Past({"drain_deltas", "drain_failures"})' => Past({"drain_deltas", "drain_failures"})
    BY <1>20, <1>0
       DEF OwnerEmits, Call, Goto, NextFact, transport, renderer, work, Past, OwnerInv,
           Draining
  <2> QED
    BY <1>i, <2>1, <2>2 DEF DrainedInv
<1>21. ASSUME CommandReturns PROVE DrainedInv'
  <2>1. UNCHANGED <<deltas, failures, inbox, rpc>>
    BY <1>21, <1>0 DEF CommandReturns, OwnerGo, transport, renderer, work
  <2>2. /\ Past({"drain_deltas"})' => Past({"drain_deltas"})
        /\ Past({"drain_deltas", "drain_failures"})' => Past({"drain_deltas", "drain_failures"})
    BY <1>21, <1>0
       DEF CommandReturns, OwnerGo, transport, renderer, work, Past, OwnerInv, Draining
  <2> QED
    BY <1>i, <2>1, <2>2 DEF DrainedInv
<1>22. ASSUME Finished PROVE DrainedInv'
  <2>1. UNCHANGED <<deltas, failures, inbox, rpc>>
    BY <1>22, <1>0 DEF Finished, Call, Goto, NextFact, OwnerGo, transport, renderer, work
  <2>2. /\ Past({"drain_deltas"})' => Past({"drain_deltas"})
        /\ Past({"drain_deltas", "drain_failures"})' => Past({"drain_deltas", "drain_failures"})
    BY <1>22, <1>0
       DEF Finished, Call, Goto, NextFact, OwnerGo, transport, renderer, work, Past, OwnerInv,
           Draining
  <2> QED
    BY <1>i, <2>1, <2>2 DEF DrainedInv
<1>23. ASSUME Summary PROVE DrainedInv'
  <2>1. UNCHANGED <<deltas, failures, inbox, rpc>>
    BY <1>23, <1>0 DEF Summary, Call, Goto, NextFact, OwnerGo, transport, renderer, work
  <2>2. /\ Past({"drain_deltas"})' => Past({"drain_deltas"})
        /\ Past({"drain_deltas", "drain_failures"})' => Past({"drain_deltas", "drain_failures"})
    BY <1>23, <1>0
       DEF Summary, Call, Goto, NextFact, OwnerGo, transport, renderer, work, Past, OwnerInv,
           Draining
  <2> QED
    BY <1>i, <2>1, <2>2 DEF DrainedInv
<1>24. ASSUME Close PROVE DrainedInv'
  <2>1. UNCHANGED <<deltas, failures, inbox, rpc>>
    BY <1>24, <1>0 DEF Close, Goto, OwnerGo, transport, renderer, work
  <2>2. /\ Past({"drain_deltas"})' => Past({"drain_deltas"})
        /\ Past({"drain_deltas", "drain_failures"})' => Past({"drain_deltas", "drain_failures"})
    BY <1>24, <1>0 DEF Close, Goto, OwnerGo, transport, renderer, work, Past, OwnerInv, Draining
  <2> QED
    BY <1>i, <2>1, <2>2 DEF DrainedInv
<1>25. ASSUME DropSender PROVE DrainedInv'
  <2>1. UNCHANGED <<deltas, failures, inbox, rpc>>
    BY <1>25, <1>0 DEF DropSender, Goto, transport, renderer, work
  <2>2. /\ Past({"drain_deltas"})' => Past({"drain_deltas"})
        /\ Past({"drain_deltas", "drain_failures"})' => Past({"drain_deltas", "drain_failures"})
    BY <1>25, <1>0 DEF DropSender, Goto, transport, renderer, work, Past, OwnerInv, Draining
  <2> QED
    BY <1>i, <2>1, <2>2 DEF DrainedInv
<1>26. ASSUME Join PROVE DrainedInv'
  <2>1. UNCHANGED <<deltas, failures, inbox, rpc>>
    BY <1>26, <1>0 DEF Join, Goto, OwnerGo, transport, renderer, work
  <2>2. /\ Past({"drain_deltas"})' => Past({"drain_deltas"})
        /\ Past({"drain_deltas", "drain_failures"})' => Past({"drain_deltas", "drain_failures"})
    BY <1>26, <1>0 DEF Join, Goto, OwnerGo, transport, renderer, work, Past, OwnerInv, Draining
  <2> QED
    BY <1>i, <2>1, <2>2 DEF DrainedInv
<1>27. ASSUME Exit PROVE DrainedInv'
  <2>1. UNCHANGED <<deltas, failures, inbox, rpc>>
    BY <1>27, <1>0 DEF Exit, transport, renderer, work
  <2>2. /\ Past({"drain_deltas"})' => Past({"drain_deltas"})
        /\ Past({"drain_deltas", "drain_failures"})' => Past({"drain_deltas", "drain_failures"})
    BY <1>27, <1>0 DEF Exit, transport, renderer, work, Past, OwnerInv, Draining
  <2> QED
    BY <1>i, <2>1, <2>2 DEF DrainedInv
<1>28. ASSUME Render PROVE DrainedInv'
  BY <1>28, <1>i DEF Render, DrainedInv, Past, work
<1>29. ASSUME RenderFails PROVE DrainedInv'
  BY <1>29 DEF RenderFails
<1>30. ASSUME RenderPanics PROVE DrainedInv'
  BY <1>30 DEF RenderPanics
<1>31. ASSUME LeaveLoop PROVE DrainedInv'
  BY <1>31, <1>0, <1>i DEF LeaveLoop, DrainedInv, Past, work, HealthInv
<1>32. ASSUME RenderFinish PROVE DrainedInv'
  BY <1>32, <1>i DEF RenderFinish, DrainedInv, Past, work
<1>33. CASE UNCHANGED vars
  BY <1>33, <1>i DEF DrainedInv, Past, transport, renderer, work, vars

<1> QED
  BY <1>1, <1>2, <1>3, <1>4, <1>5, <1>6, <1>7, <1>8, <1>9, <1>10, <1>11, <1>12, <1>13,
     <1>14, <1>15, <1>16, <1>17, <1>18, <1>19, <1>20, <1>21, <1>22, <1>23, <1>24, <1>25,
     <1>26, <1>27, <1>28, <1>29, <1>30, <1>31, <1>32, <1>33
     DEF Next, WorkerStep, OwnerStep, RendererStep, Transport, Done, Threads

-----------------------------------------------------------------------------
(* The sums. *)

(* A sum over no events adds nothing.                                       *)
LEMMA SumsOfNone ==
  ASSUME NEW k \in Counters, NEW a \in Nat, NEW b \in Nat
  PROVE  Sums(<<>>, k, a, b) <=> a = b
<1>1. Len(<<>>) = 0 /\ \A i \in 1 .. Len(<<>>) : FALSE
  OBVIOUS
<1>2. Sums(<<>>, k, a, b) => a = b
  BY <1>1 DEF Sums
<1>3. ASSUME a = b PROVE Sums(<<>>, k, a, b)
  <2> DEFINE S == [i \in Nat |-> a]
  <2>1. S \in [Nat -> Nat] /\ S[0] = a /\ S[Len(<<>>)] = b
    BY <1>1, <1>3
  <2> HIDE DEF S
  <2> QED
    BY <1>1, <2>1 DEF Sums
<1> QED
  BY <1>2, <1>3

(* Partial sums S with one more, c, at the end can be had. *)
Longer(S, n, c) == \E R \in [Nat -> Nat] : R[n] = c /\ \A i \in Nat : i # n => R[i] = S[i]
LEMMA LongerSums ==
  ASSUME NEW S \in [Nat -> Nat], NEW n \in Nat, NEW c \in Nat
  PROVE  Longer(S, n, c)
<1> DEFINE R == [i \in Nat |-> IF i = n THEN c ELSE S[i]]
<1>1. R \in [Nat -> Nat] /\ R[n] = c /\ \A i \in Nat : i # n => R[i] = S[i]
  OBVIOUS
<1> HIDE DEF R
<1> QED
  BY <1>1 DEF Longer

(* The same without the first. *)
LEMMA ShiftedSums ==
  ASSUME NEW S \in [Nat -> Nat]
  PROVE  \E R \in [Nat -> Nat] : \A i \in Nat : R[i] = S[i + 1]
<1> DEFINE R == [i \in Nat |-> S[i + 1]]
<1>1. R \in [Nat -> Nat] /\ \A i \in Nat : R[i] = S[i + 1]
  OBVIOUS
<1> QED
  BY <1>1, Zenon

(* An event at the end adds its amount.                                     *)
LEMMA SumsAppend ==
  ASSUME NEW q \in Seq(Events), NEW e \in Events, NEW k \in Counters, NEW a \in Nat,
         NEW b \in Nat, Sums(q, k, a, b)
  PROVE  b + e.amounts[k] \in Nat /\ Sums(Append(q, e), k, a, b + e.amounts[k])
<1>1. PICK S \in [Nat -> Nat] :
        /\ S[0] = a /\ S[Len(q)] = b
        /\ \A i \in 1 .. Len(q) : S[i] = S[i - 1] + q[i].amounts[k]
  BY DEF Sums
<1>2. /\ Len(Append(q, e)) = Len(q) + 1 /\ Len(q) \in Nat
      /\ \A i \in 1 .. Len(q) : Append(q, e)[i] = q[i]
      /\ Append(q, e)[Len(q) + 1] = e
  BY AppendFacts
<1>3. e.amounts[k] \in Nat /\ b + e.amounts[k] \in Nat
  <2>1. e.amounts \in [Counters -> Nat]
    BY DEF Events
  <2>2. e.amounts[k] \in Nat
    BY <2>1
  <2>3. \A x, y \in Nat : x + y \in Nat
    OBVIOUS
  <2> QED
    BY <2>2, <2>3
<1>4. PICK R \in [Nat -> Nat] :
        R[Len(q) + 1] = b + e.amounts[k] /\ \A i \in Nat : i # Len(q) + 1 => R[i] = S[i]
  <2>1. Len(q) + 1 \in Nat
    BY <1>2
  <2>2. Longer(S, Len(q) + 1, b + e.amounts[k])
    BY <1>3, <2>1, LongerSums
  <2> QED
    BY <2>2 DEF Longer
<1>5. R[0] = a /\ R[Len(Append(q, e))] = b + e.amounts[k]
  BY <1>1, <1>2, <1>4
<1>6. ASSUME NEW i \in 1 .. Len(q) + 1
      PROVE  R[i] = R[i - 1] + Append(q, e)[i].amounts[k]
  <2>1. CASE i = Len(q) + 1
    <3>0. i - 1 = Len(q) /\ Len(q) # Len(q) + 1
      BY <1>2, <2>1
    <3>1. R[i] = b + e.amounts[k] /\ R[i - 1] = b /\ Append(q, e)[i] = e
      BY <1>1, <1>2, <1>4, <2>1, <3>0
    <3> QED
      BY <3>1
  <2>2. CASE i \in 1 .. Len(q)
    <3>0. i \in Nat /\ i - 1 \in Nat /\ i # Len(q) + 1 /\ i - 1 # Len(q) + 1
      <4>1. \A n \in Nat : \A m \in 1 .. n :
              m \in Nat /\ m - 1 \in Nat /\ m # n + 1 /\ m - 1 # n + 1
        OBVIOUS
      <4> QED
        BY <1>2, <2>2, <4>1
    <3>1. R[i] = S[i] /\ R[i - 1] = S[i - 1] /\ Append(q, e)[i] = q[i]
      BY <1>2, <1>4, <2>2, <3>0
    <3> QED
      BY <1>1, <2>2, <3>1
  <2>3. i = Len(q) + 1 \/ i \in 1 .. Len(q)
    <3>1. \A n \in Nat : \A m \in 1 .. n + 1 : m = n + 1 \/ m \in 1 .. n
      OBVIOUS
    <3> QED
      BY <1>2, <3>1
  <2> QED
    BY <2>1, <2>2, <2>3
<1> QED
  BY <1>2, <1>3, <1>4, <1>5, <1>6 DEF Sums

(* The amount of the head can be added first.                               *)
LEMMA SumsTail ==
  ASSUME NEW q \in Seq(Events), q # <<>>, NEW k \in Counters, NEW a \in Nat, NEW b \in Nat,
         Sums(q, k, a, b)
  PROVE  Sums(Tail(q), k, a + q[1].amounts[k], b)
<1>1. PICK S \in [Nat -> Nat] :
        /\ S[0] = a /\ S[Len(q)] = b
        /\ \A i \in 1 .. Len(q) : S[i] = S[i - 1] + q[i].amounts[k]
  BY DEF Sums
<1>2. /\ Len(Tail(q)) = Len(q) - 1 /\ Len(q) \in Nat /\ Len(q) >= 1
      /\ \A i \in 1 .. Len(q) - 1 : Tail(q)[i] = q[i + 1]
  BY TailFacts
<1>3. PICK R \in [Nat -> Nat] : \A i \in Nat : R[i] = S[i + 1]
  BY <1>1, ShiftedSums, Zenon
<1>4. R[0] = a + q[1].amounts[k]
  <2>1. 1 \in 1 .. Len(q) /\ R[0] = S[1]
    BY <1>2, <1>3
  <2>2. S[1] = S[1 - 1] + q[1].amounts[k]
    BY <1>1, <2>1, Zenon
  <2>3. 1 - 1 = 0
    OBVIOUS
  <2> QED
    BY <1>1, <2>1, <2>2, <2>3, Zenon
<1>5. R[Len(Tail(q))] = b
  BY <1>1, <1>2, <1>3
<1>6. ASSUME NEW i \in 1 .. Len(Tail(q)) PROVE R[i] = R[i - 1] + Tail(q)[i].amounts[k]
  <2>0. /\ i \in Nat /\ i - 1 \in Nat /\ i - 1 + 1 = i
        /\ i \in 1 .. Len(q) - 1 /\ i + 1 \in 1 .. Len(q)
    BY <1>2
  <2>1. i + 1 \in 1 .. Len(q) /\ R[i] = S[i + 1] /\ R[i - 1] = S[i] /\ Tail(q)[i] = q[i + 1]
    BY <1>2, <1>3, <2>0
  <2> DEFINE n == i + 1
  <2>2. n \in 1 .. Len(q) /\ n - 1 = i
    BY <2>0
  <2>3. R[i] = S[n] /\ R[i - 1] = S[i] /\ Tail(q)[i] = q[n]
    BY <2>1
  <2> HIDE DEF n
  <2>4. S[n] = S[n - 1] + q[n].amounts[k]
    BY <1>1, <2>2, Zenon
  <2> QED
    BY <2>2, <2>3, <2>4, Zenon
<1> QED
  BY <1>3, <1>4, <1>5, <1>6 DEF Sums

(* A count in a thread's hands is one, and every other event adds nothing.  *)
LEMMA HandsAreSingle ==
  ASSUME BoundaryInv, UnitInv, NEW t \in Threads, NEW j \in Counters
  PROVE  /\ cur[t].amounts[j] \in {0, 1}
         /\ cur[t].kind # "count" => cur[t].amounts[j] = 0
         /\ IsFiniteSet(Carriers(j)) /\ Cardinality(Carriers(j)) \in Nat
<1>1. Carriers(j) \in SUBSET Threads /\ IsFiniteSet(Threads)
  BY SizesAssumption, FS_AddElement DEF Carriers, Threads
<1>2. IsFiniteSet(Carriers(j)) /\ Cardinality(Carriers(j)) \in Nat
  BY <1>1, FS_Subset, FS_CardinalityType
<1> QED
  BY <1>2 DEF BoundaryInv, Shape, Proper, UnitInv, Single, Zero

(* Every move keeps the totals in balance.                                  *)
LEMMA BalanceStepInv ==
  ASSUME BoundaryInv, BoundaryInv', UnitInv, BalanceInv, HealthyMove
  PROVE  BalanceInv'
<1>0. /\ pc \in [Threads -> Pcs] /\ cur \in [Threads -> Events] /\ Owner \in Threads
      /\ Owner \notin Workers /\ facts \in Nat /\ shown.facts \in Seq(Nat)
      /\ inbox \in Seq(Events) /\ failures \in Seq(Events)
      /\ deltas \in [Counters -> Nat] /\ \A w \in Workers : w \in Threads /\ w # Owner
      /\ \A i \in DOMAIN inbox : Proper(inbox[i])
      /\ \A i \in DOMAIN failures : Proper(failures[i]) /\ failures[i].kind = "failure"
      /\ \A t \in Threads : Proper(cur[t])
  BY ThreadsAssumption DEF BoundaryInv, TypeOK, Shape, Threads
<1> SUFFICES ASSUME NEW j \in Counters PROVE Balanced(j)'
  BY DEF BalanceInv
<1>i. PICK b \in Nat : /\ Sums(inbox, j, shown.counts[j], b)
                       /\ emitted.counts[j] = b + deltas[j] + Cardinality(Carriers(j))
  BY DEF BalanceInv, Balanced
<1>c. /\ Cardinality(Carriers(j)) \in Nat /\ IsFiniteSet(Carriers(j))
      /\ \A t \in Threads : /\ cur[t].amounts[j] \in {0, 1}
                            /\ cur[t].kind # "count" => cur[t].amounts[j] = 0
  BY <1>0, HandsAreSingle
<1>t. /\ deltas[j] \in Nat /\ shown.counts[j] \in Nat /\ emitted.counts \in [Counters -> Nat]
  BY DEF BoundaryInv, TypeOK
<1>k. \A t \in Threads : t \in Carriers(j) <=>
        pc[t] \in Carrying /\ cur[t].kind = "count" /\ cur[t].amounts[j] = 1
  BY DEF Carriers
<1>b. ASSUME NEW t \in Threads, NEW e, Begins(t, e), Single(e) PROVE Balanced(j)'
  <2>0. Proper(e) /\ cur' = [cur EXCEPT ![t] = e] /\ pc' = [pc EXCEPT ![t] = "emit"]
    <3>1. Proper(cur'[t]) /\ cur'[t] = e
      BY <1>b, <1>0 DEF Begins, BoundaryInv, Shape
    <3> QED
      BY <1>b, <3>1 DEF Begins
  <2>1. /\ UNCHANGED <<inbox, shown, deltas>>
        /\ emitted'.counts[j] = emitted.counts[j] + e.amounts[j]
        /\ e.amounts[j] \in {0, 1} /\ (e.kind # "count" => e.amounts[j] = 0)
    <3>1. e.amounts \in [Counters -> Nat] /\ (e.kind # "count" => e.amounts[j] = 0)
      BY <2>0 DEF Proper, Events, Zero
    <3>2. emitted'.counts = Plus(emitted.counts, e.amounts)
      BY <1>b DEF Begins, Noted
    <3> QED
      BY <1>b, <1>t, <3>1, <3>2, AmountsAreNatural DEF Begins, Single
  <2>2. t \notin Carriers(j)
    BY <1>b DEF Begins, Carriers, Carrying
  <2>3. Cardinality(Carriers(j)') = Cardinality(Carriers(j)) + e.amounts[j]
    <3>1. CASE e.kind = "count" /\ e.amounts[j] = 1
      <4>1. Carriers(j)' = Carriers(j) \cup {t}
        BY <1>0, <2>0, <3>1 DEF Carriers, Carrying
      <4> QED
        BY <1>c, <2>2, <3>1, <4>1, FS_AddElement
    <3>2. CASE ~(e.kind = "count" /\ e.amounts[j] = 1)
      <4>1. Carriers(j)' = Carriers(j)
        BY <1>0, <2>0, <2>2, <3>2 DEF Carriers
      <4>2. e.amounts[j] = 0
        BY <2>1, <3>2
      <4> QED
        BY <1>c, <4>1, <4>2
    <3> QED
      BY <3>1, <3>2
  <2>4. emitted'.counts[j] = b + deltas'[j] + Cardinality(Carriers(j)')
    BY <1>c, <1>i, <1>t, <2>1, <2>3
  <2> QED
    BY <1>i, <2>1, <2>4 DEF Balanced
<1>1. ASSUME NEW t \in Threads, NEW p \in Accepted, Walks(t, p) PROVE Balanced(j)'
  <2>1. UNCHANGED <<inbox, deltas, shown, emitted>>
    BY <1>1 DEF Walks, Ways
  <2>2. Carriers(j)' = Carriers(j)
    BY <1>1, <1>0 DEF Walks, PassesOn, Ways, Carriers
  <2> QED
    BY <1>i, <2>1, <2>2 DEF Balanced
<1>3. ASSUME NEW t \in Threads, NEW p \in Accepted, NEW n \in Nat, SendsGauge(t, p, n)
      PROVE  Balanced(j)'
  <2>1. Gauge(n) \in Events /\ Gauge(n).amounts[j] = 0
    BY EventsAreProper DEF Proper
  <2>2. /\ b + Gauge(n).amounts[j] \in Nat
        /\ Sums(Append(inbox, Gauge(n)), j, shown.counts[j], b + Gauge(n).amounts[j])
    BY <1>0, <1>i, <1>t, <2>1, SumsAppend
  <2>3. inbox' = Append(inbox, Gauge(n)) /\ UNCHANGED <<deltas, shown, emitted>>
    BY <1>3 DEF SendsGauge
  <2>4. Carriers(j)' = Carriers(j)
    BY <1>3, <1>0 DEF SendsGauge, PassesOn, Carriers
  <2>5. b + 0 = b
    OBVIOUS
  <2> QED
    BY <1>i, <2>1, <2>2, <2>3, <2>4, <2>5 DEF Balanced
<1>4. ASSUME NEW t \in Threads, SendsOwn(t) PROVE Balanced(j)'
  <2>1. pc[t] \in {"send", "block"} /\ (pc[t] = "block" => cur[t].kind # "count")
    BY <1>4 DEF SendsOwn, BoundaryInv, WorkerInv, OwnerInv, Threads
  <2>2. /\ b + cur[t].amounts[j] \in Nat
        /\ Sums(Append(inbox, cur[t]), j, shown.counts[j], b + cur[t].amounts[j])
    BY <1>0, <1>i, <1>t, SumsAppend
  <2>3. inbox' = Append(inbox, cur[t]) /\ UNCHANGED <<deltas, shown, emitted>>
    BY <1>4 DEF SendsOwn
  <2>4. Cardinality(Carriers(j)) = Cardinality(Carriers(j)') + cur[t].amounts[j]
        /\ Cardinality(Carriers(j)') \in Nat
    <3>1. CASE t \in Carriers(j)
      <4>1. Carriers(j)' = Carriers(j) \ {t}
        BY <1>4, <1>0 DEF SendsOwn, Lets, Carriers, Carrying
      <4>2. cur[t].amounts[j] = 1
        BY <3>1 DEF Carriers
      <4>3. /\ Cardinality(Carriers(j)') = Cardinality(Carriers(j)) - 1
            /\ IsFiniteSet(Carriers(j)')
        BY <1>c, <3>1, <4>1, FS_RemoveElement
      <4>4. Cardinality(Carriers(j)') \in Nat
        BY <4>3, FS_CardinalityType
      <4> QED
        BY <1>c, <4>2, <4>3, <4>4
    <3>2. CASE t \notin Carriers(j)
      <4>1. Carriers(j)' = Carriers(j)
        BY <1>4, <1>0, <3>2 DEF SendsOwn, Lets, Carriers, Carrying
      <4>2. cur[t].amounts[j] = 0
        BY <1>c, <1>k, <2>1, <3>2 DEF Carrying
      <4> QED
        BY <1>c, <4>1, <4>2
    <3> QED
      BY <3>1, <3>2
  <2>5. emitted'.counts[j] =
          b + cur[t].amounts[j] + deltas'[j] + Cardinality(Carriers(j)')
    <3>1. /\ cur[t].amounts[j] \in Nat /\ deltas'[j] = deltas[j] /\ deltas[j] \in Nat
          /\ emitted'.counts[j] = emitted.counts[j]
      BY <1>c, <1>t, <2>3
    <3> QED
      BY <1>c, <1>i, <2>4, <3>1
  <2> QED
    BY <2>2, <2>3, <2>5 DEF Balanced
<1>5. ASSUME NEW t \in Threads, PutsCount(t) PROVE Balanced(j)'
  <2>1. pc[t] = "count"
    BY <1>5 DEF PutsCount
  <2>2. UNCHANGED <<inbox, shown, emitted>> /\ deltas'[j] = deltas[j] + cur[t].amounts[j]
    <3>1. cur[t].amounts \in [Counters -> Nat]
      BY <1>0 DEF Events
    <3> QED
      BY <1>5, <1>0, <3>1, AmountsAreNatural DEF PutsCount
  <2>3. Cardinality(Carriers(j)) = Cardinality(Carriers(j)') + cur[t].amounts[j]
        /\ Cardinality(Carriers(j)') \in Nat
    <3>1. CASE t \in Carriers(j)
      <4>1. Carriers(j)' = Carriers(j) \ {t}
        BY <1>5, <1>0 DEF PutsCount, Lets, Carriers, Carrying
      <4>2. cur[t].amounts[j] = 1
        BY <3>1 DEF Carriers
      <4>3. /\ Cardinality(Carriers(j)') = Cardinality(Carriers(j)) - 1
            /\ IsFiniteSet(Carriers(j)')
        BY <1>c, <3>1, <4>1, FS_RemoveElement
      <4>4. Cardinality(Carriers(j)') \in Nat
        BY <4>3, FS_CardinalityType
      <4> QED
        BY <1>c, <4>2, <4>3, <4>4
    <3>2. CASE t \notin Carriers(j)
      <4>1. Carriers(j)' = Carriers(j)
        BY <1>5, <1>0, <3>2 DEF PutsCount, Lets, Carriers, Carrying
      <4>2. cur[t].amounts[j] = 0
        BY <1>c, <1>k, <2>1, <3>2 DEF Carrying
      <4> QED
        BY <1>c, <4>1, <4>2
    <3> QED
      BY <3>1, <3>2
  <2>4. emitted'.counts[j] = b + deltas'[j] + Cardinality(Carriers(j)')
    BY <1>c, <1>i, <1>t, <2>2, <2>3
  <2> QED
    BY <1>i, <2>2, <2>4 DEF Balanced
<1>6. ASSUME NEW w \in Workers, PutsGauge(w) PROVE Balanced(j)'
  <2>0. cur[w].kind = "gauge"
    BY <1>6 DEF PutsGauge, BoundaryInv, WorkerInv
  <2>1. UNCHANGED <<inbox, deltas, shown, emitted>>
    BY <1>6 DEF PutsGauge, Ways
  <2>2. Carriers(j)' = Carriers(j)
    BY <1>6, <1>0, <2>0 DEF PutsGauge, Lets, Ways, Carrying, Carriers
  <2> QED
    BY <1>i, <2>1, <2>2 DEF Balanced
<1>7. ASSUME NEW w \in Workers, PutsFailure(w) PROVE Balanced(j)'
  <2>0. cur[w].kind = "failure"
    BY <1>7 DEF PutsFailure, BoundaryInv, WorkerInv
  <2>1. UNCHANGED <<inbox, deltas, shown, emitted>>
    BY <1>7 DEF PutsFailure
  <2>2. Carriers(j)' = Carriers(j)
    BY <1>7, <1>0, <2>0 DEF PutsFailure, Lets, Carrying, Carriers
  <2> QED
    BY <1>i, <2>1, <2>2 DEF Balanced
<1>8. ASSUME NEW w \in Workers, NEW e, WorkerBegins(w, e) PROVE Balanced(j)'
  BY <1>8, <1>0, <1>b DEF WorkerBegins
<1>9. ASSUME NEW k, SendsDelta(k) PROVE Balanced(j)'
  <2>1. /\ Count(Only(k, deltas[k])) \in Events
        /\ Count(Only(k, deltas[k])).amounts[j] = (IF j = k THEN deltas[j] ELSE 0)
    <3>1. /\ Only(k, deltas[k]) \in [Counters -> Nat]
          /\ Only(k, deltas[k])[j] = IF j = k THEN deltas[j] ELSE 0
      BY <1>0, MergedAmounts
    <3>2. /\ Count(Only(k, deltas[k])) \in Events
          /\ Count(Only(k, deltas[k])).amounts = Only(k, deltas[k])
      BY <3>1, EventsAreProper DEF Proper
    <3> QED
      BY <3>1, <3>2
  <2>2. /\ b + Count(Only(k, deltas[k])).amounts[j] \in Nat
        /\ Sums(Append(inbox, Count(Only(k, deltas[k]))), j, shown.counts[j],
                b + Count(Only(k, deltas[k])).amounts[j])
    BY <1>0, <1>i, <1>t, <2>1, SumsAppend
  <2>3. inbox' = Append(inbox, Count(Only(k, deltas[k]))) /\ UNCHANGED <<shown, emitted>>
    BY <1>9 DEF SendsDelta
  <2>4. Carriers(j)' = Carriers(j)
    BY <1>9, <1>0 DEF SendsDelta, Carriers
  <2>5. deltas'[j] = IF j = k THEN 0 ELSE deltas[j]
    BY <1>9, <1>0, MergedAmounts DEF SendsDelta
  <2>6. emitted'.counts[j] =
          b + Count(Only(k, deltas[k])).amounts[j] + deltas'[j] + Cardinality(Carriers(j)')
    BY <1>c, <1>i, <1>t, <2>1, <2>3, <2>4, <2>5
  <2> QED
    BY <2>2, <2>3, <2>4, <2>6 DEF Balanced
<1>10. ASSUME SendsFailure PROVE Balanced(j)'
  <2>1. Head(failures) \in Events /\ Head(failures).amounts[j] = 0
    <3>1. Head(failures) = failures[1] /\ 1 \in DOMAIN failures
      BY <1>0, <1>10, TailFacts DEF SendsFailure
    <3> QED
      BY <1>0, <3>1 DEF Proper, Zero
  <2>2. /\ b + Head(failures).amounts[j] \in Nat
        /\ Sums(Append(inbox, Head(failures)), j, shown.counts[j],
                b + Head(failures).amounts[j])
    BY <1>0, <1>i, <1>t, <2>1, SumsAppend
  <2>3. inbox' = Append(inbox, Head(failures)) /\ UNCHANGED <<deltas, shown, emitted>>
    BY <1>10 DEF SendsFailure
  <2>4. Carriers(j)' = Carriers(j)
    BY <1>10, <1>0 DEF SendsFailure, Carriers
  <2>5. b + 0 = b
    OBVIOUS
  <2> QED
    BY <1>i, <2>1, <2>2, <2>3, <2>4, <2>5 DEF Balanced
<1>11. ASSUME Renders PROVE Balanced(j)'
  <2>1. /\ inbox # <<>> /\ inbox' = Tail(inbox) /\ shown' = Rendered(inbox[1])
        /\ UNCHANGED <<pc, cur, deltas, emitted>> /\ 1 \in DOMAIN inbox /\ Proper(inbox[1])
    <3>1. inbox # <<>> /\ inbox' = Tail(inbox) /\ shown' = Rendered(Head(inbox))
      BY <1>11 DEF Renders
    <3>2. Head(inbox) = inbox[1] /\ 1 \in DOMAIN inbox
      BY <1>0, <3>1, TailFacts
    <3> QED
      BY <1>11, <1>0, <3>1, <3>2 DEF Renders
  <2>2. shown'.counts[j] = shown.counts[j] + inbox[1].amounts[j]
    <3>1. \A k \in Counters :
            Rendered(inbox[1]).counts[k] = shown.counts[k] + inbox[1].amounts[k]
      BY <2>1, ShownFacts DEF BoundaryInv, Shape
    <3> QED
      BY <2>1, <3>1
  <2>3. Sums(Tail(inbox), j, shown.counts[j] + inbox[1].amounts[j], b)
    BY <1>0, <1>i, <1>t, <2>1, SumsTail
  <2>4. Carriers(j)' = Carriers(j)
    BY <2>1 DEF Carriers
  <2> QED
    BY <1>i, <2>1, <2>2, <2>3, <2>4 DEF Balanced
<1>12. ASSUME GoesOn PROVE Balanced(j)'
  <2>1. UNCHANGED <<inbox, deltas, shown, emitted, cur>>
    BY <1>12 DEF GoesOn
  <2>2. \A t \in Threads : pc'[t] \in Carrying <=> pc[t] \in Carrying
    BY <1>12 DEF GoesOn, Threads
  <2>3. Carriers(j)' = Carriers(j)
    BY <2>1, <2>2 DEF Carriers
  <2> QED
    BY <1>i, <2>1, <2>3 DEF Balanced
<1>13. ASSUME NEW e, OwnerBegins(e) PROVE Balanced(j)'
  BY <1>13, <1>0, <1>b DEF OwnerBegins
<1> QED
  BY <1>1, <1>3, <1>4, <1>5, <1>6, <1>7, <1>8, <1>9, <1>10, <1>11, <1>12, <1>13
     DEF HealthyMove


-----------------------------------------------------------------------------
(* The healthy renderer's invariant, put together. *)

(* Before the first event nothing is owed. *)
LEMMA RenderedInit == Init => RenderedInv
<1> SUFFICES ASSUME Init
             PROVE  /\ UnitInv /\ BalanceInv /\ FactsInv /\ LosslessInv /\ TerminalInv
                    /\ ReportedInv /\ DrainedInv
  BY DEF RenderedInv
<1>1. /\ Owner \in Threads /\ \A w \in Workers : w \in Threads /\ w # Owner
      /\ DOMAIN <<>> = {} /\ DOMAIN shown.facts = {} /\ DOMAIN inbox = {} /\ DOMAIN failures = {}
  BY ThreadsAssumption DEF Threads, Init
<1>2. /\ \A t \in Threads : pc[t] = "run" /\ cur[t] = Fact(0)
      /\ stage[Owner] = "start" /\ \A w \in Workers : stage[w] = "unborn"
  BY <1>1 DEF Init
<1>3. \A k \in Counters : Zero[k] = 0 /\ Fact(0).amounts[k] = 0
  BY EventsAreProper
<1>4. UnitInv
  BY <1>2, <1>3 DEF UnitInv, Single
<1>5. ASSUME NEW k \in Counters PROVE Balanced(k)
  <2>1. Carriers(k) = {}
    BY <1>2 DEF Carriers, Carrying
  <2>2. Cardinality(Carriers(k)) = 0
    BY <2>1, FS_EmptySet
  <2>3. inbox = <<>> /\ shown.counts[k] = 0 /\ emitted.counts[k] = 0 /\ deltas[k] = 0
    BY <1>3 DEF Init
  <2>4. Sums(<<>>, k, 0, 0)
    BY SumsOfNone
  <2> QED
    BY <2>2, <2>3, <2>4 DEF Balanced
<1>6. FactsInv
  BY <1>1, <1>2 DEF FactsInv, Ordered, Before, HasFact
<1>l. LosslessInv
  BY <1>1, <1>2 DEF LosslessInv, Lossless, IsShown, Has, HasFact, Init
<1>7. TerminalInv
  BY <1>1, <1>2 DEF TerminalInv, Queued, Has, Delivered, Init
<1>8. ReportedInv
  BY <1>1, <1>2 DEF ReportedInv, Reported, Sent, Has, Failed, Init
<1>9. DrainedInv
  BY <1>2 DEF DrainedInv, Past, Init
<1> QED
  BY <1>4, <1>5, <1>6, <1>l, <1>7, <1>8, <1>9 DEF BalanceInv

(* Every step keeps what is owed to a healthy renderer. *)
LEMMA RenderedStep == BoundaryInv /\ RenderedInv /\ [Next]_vars => RenderedInv'
<1> SUFFICES ASSUME BoundaryInv, RenderedInv, [Next]_vars, ~fault'
             PROVE  /\ UnitInv' /\ BalanceInv' /\ FactsInv' /\ LosslessInv' /\ TerminalInv'
                    /\ ReportedInv' /\ DrainedInv'
  BY DEF RenderedInv
<1>1. ~fault
  BY FaultStays
<1>2. /\ UnitInv /\ BalanceInv /\ FactsInv /\ LosslessInv /\ TerminalInv /\ ReportedInv
      /\ DrainedInv
  BY <1>1 DEF RenderedInv
<1>3. HealthyMove /\ BoundaryInv'
  BY <1>1, HealthySteps, BoundaryStep
<1>4. UnitInv' /\ BalanceInv' /\ FactsInv' /\ LosslessInv'
  BY <1>2, <1>3, UnitStepInv, BalanceStepInv, FactsStepInv, LosslessStepInv
<1>5. TerminalInv' /\ ReportedInv'
  BY <1>2, <1>3, TerminalStepInv, ReportedStepInv
<1>6. DrainedInv'
  BY <1>1, <1>2, DrainedStepInv
<1> QED
  BY <1>4, <1>5, <1>6

(* As long as the renderer has not failed, every amount, fact, failure and  *)
(* terminal record that a thread handed to emit is rendered, or in the      *)
(* inbox, in a side buffer or still in the hands of its thread; and what is *)
(* rendered was handed to emit.                                             *)
THEOREM NothingIsLost == Spec => []RenderedInv
  BY BoundaryInit, BoundaryStep, RenderedInit, RenderedStep, PTL DEF Spec

(* A process that exits with a healthy renderer has rendered every amount   *)
(* and every fact handed to emit, the facts in their order, every failure   *)
(* and the terminal record: at the exit the inbox, the side buffers and the *)
(* hands of the threads are empty.                                          *)
THEOREM EverythingIsRendered == Spec => []EverythingRendered
<1>1. BoundaryInv /\ RenderedInv => EverythingRendered
  <2> SUFFICES ASSUME BoundaryInv, RenderedInv, exit # "none", ~fault
               PROVE  /\ shown.counts = emitted.counts
                      /\ {shown.facts[i] : i \in DOMAIN shown.facts} = emitted.facts
                      /\ \A i, j \in DOMAIN shown.facts : i < j =>
                           shown.facts[i] < shown.facts[j]
                      /\ shown.failures = {w \in Workers : stage[w] = "failed_out"}
                      /\ jsonl <=> shown.terminal
    BY DEF EverythingRendered
  <2>1. /\ UnitInv /\ BalanceInv /\ FactsInv /\ LosslessInv /\ TerminalInv /\ ReportedInv
        /\ DrainedInv
    BY DEF RenderedInv
  <2>2. stage[Owner] = "closed" /\ pc[Owner] = "run" /\ rpc = "exited"
    BY DEF BoundaryInv, OwnerInv, HealthInv
  <2>3. \A w \in Workers : Gone(w)
    BY <2>2 DEF BoundaryInv, WorkerInv, Returned
  <2>4. inbox = <<>> /\ failures = <<>> /\ deltas = Zero /\ DOMAIN <<>> = {}
    BY <2>1, <2>2 DEF DrainedInv, Past
  <2>5. ASSUME NEW k \in Counters PROVE shown.counts[k] = emitted.counts[k]
    <3>1. \A t \in Threads : pc[t] = "run"
      BY <2>2, <2>3 DEF Threads, Gone
    <3>2. Carriers(k) = {}
      BY <3>1 DEF Carriers, Carrying
    <3>3. Cardinality(Carriers(k)) = 0
      BY <3>2, FS_EmptySet
    <3>4. deltas[k] = 0 /\ shown.counts[k] \in Nat
      BY <2>4, EventsAreProper DEF BoundaryInv, TypeOK
    <3>5. PICK b \in Nat : /\ Sums(<<>>, k, shown.counts[k], b)
                           /\ emitted.counts[k] = b + 0 + 0
      BY <2>1, <2>4, <3>3, <3>4 DEF BalanceInv, Balanced
    <3>6. shown.counts[k] = b
      BY <3>4, <3>5, SumsOfNone
    <3> QED
      BY <3>5, <3>6
  <2>6. shown.counts = emitted.counts
    BY <2>5 DEF BoundaryInv, TypeOK
  <2>7. \A i, j \in DOMAIN shown.facts : i < j => shown.facts[i] < shown.facts[j]
    BY <2>1 DEF FactsInv, Ordered
  <2>f. {shown.facts[i] : i \in DOMAIN shown.facts} = emitted.facts
    <3>1. /\ emitted.facts \in SUBSET Nat
          /\ \A i \in DOMAIN shown.facts : shown.facts[i] \in Nat
      BY DEF BoundaryInv, Shape
    <3>2. \A n \in Nat : n \in emitted.facts <=> IsShown(n)
      BY <2>1, <2>2, <2>4 DEF LosslessInv, Lossless, Has, HasFact
    <3> QED
      BY <3>1, <3>2 DEF IsShown
  <2>8. shown.failures = {w \in Workers : stage[w] = "failed_out"}
    <3>1. \A w \in Workers : ~Sent(w) /\ ~Aside(w) /\ ~InHand(w)
      BY <2>3, <2>4 DEF Sent, Aside, InHand, Has, Gone
    <3>2. \A w \in Workers : w \in shown.failures <=> stage[w] = "failed_out"
      BY <2>1, <2>3, <3>1 DEF ReportedInv, Reported, Failed, Gone
    <3>3. shown.failures \in SUBSET Workers
      BY DEF BoundaryInv, Shape
    <3> QED
      BY <3>2, <3>3
  <2>9. jsonl <=> shown.terminal
    BY <2>1, <2>2, <2>4 DEF TerminalInv, Queued, Has, Delivered, BoundaryInv, Shape
  <2> QED
    BY <2>6, <2>f, <2>7, <2>8, <2>9
<1> QED
  BY <1>1, BoundaryCorrect, NothingIsLost, PTL
============================================================================
