------------------------------- MODULE Telemetry -------------------------------
(***************************************************************************)
(* The reporting boundary of one command: the threads that emit events,    *)
(* RendererTransport with its bounded inbox and its three side buffers,    *)
(* the renderer thread, and the owner in main that closes the transport    *)
(* and turns a dead renderer into a failed exit.                           *)
(*                                                                         *)
(* Events come in the five classes emit tells apart: counters (additive,   *)
(* merged in a side buffer when the inbox is full), gauges (the newest     *)
(* sample is kept), worker failures (a side buffer of fixed size), domain  *)
(* facts (sent even if the owner has to wait) and the terminal record of   *)
(* the command.  What a record looks like is left out: the renderer keeps  *)
(* the sums, the last gauge, the order of the facts and the failures, the  *)
(* way the dashboard and a reader of the JSON lines would.                 *)
(***************************************************************************)
EXTENDS Naturals, Sequences, FiniteSets, FiniteSetsExt

CONSTANTS
  Owner,         \* the command's main thread
  Workers,       \* source workers
  None,          \* no gauge, no lock holder
  Counters,      \* counter names, ordered as the buffer's keys are
  InboxSize,     \* CAPACITY of the inbox
  FailureSlots,  \* worker failures the side buffer holds
  Jobs,          \* bound: files the workers read
  OwnerEvents,   \* bound: events the owner emits while the command works
  MayBreak       \* whether the renderer may fail

ASSUME ThreadsAssumption == Owner \notin Workers /\ None \notin Workers \cup {Owner}
ASSUME CountersAssumption == Counters \subseteq Nat /\ IsFiniteSet(Counters) /\ Counters # {}
ASSUME SizesAssumption ==
  /\ InboxSize \in Nat \ {0} /\ Jobs \in Nat /\ OwnerEvents \in Nat
  /\ IsFiniteSet(Workers) /\ FailureSlots \in Nat /\ Cardinality(Workers) <= FailureSlots
  /\ None \notin Nat /\ MayBreak \in BOOLEAN

Threads == Workers \cup {Owner}
Locks == {"deltas", "failures", "gauges"}

VARIABLES
  inbox,     \* the bounded channel
  sender,    \* whether the transport still holds its sender
  receiver,  \* whether the renderer still holds the receiving end
  failed,    \* the transport's failure flag
  deltas,    \* pending_deltas: counter -> amount, 0 when there is no entry
  failures,  \* pending_worker_failures
  gauge,     \* pending_gauges: the one gauge of the model
  lock,      \* holder of each side buffer's mutex
  pc,        \* where a thread is in emit or close
  cur,       \* the event a thread is emitting
  rpc,       \* where the renderer thread is
  stage,     \* where a thread is in its own work
  jobs,      \* files nobody has taken yet
  readers,   \* active_readers: workers between two samples of the gauge
  facts,     \* number of the owner's last event: its facts carry it
  jsonl,     \* output mode
  outcome,   \* what the command returned to main
  exit,      \* the process's exit status
  shown,     \* what the renderer has rendered
  emitted,   \* history: the sums and the facts handed to emit
  fault      \* whether the renderer ever failed or panicked

transport == <<inbox, sender, receiver, failed, deltas, failures, gauge, lock>>
renderer == <<rpc, shown, fault>>
work == <<stage, jobs, readers, facts, jsonl, outcome, exit>>
vars == <<transport, pc, cur, renderer, work, emitted>>

-----------------------------------------------------------------------------
(* Events. *)

Zero == [k \in Counters |-> 0]
Plus(f, g) == [k \in Counters |-> f[k] + g[k]]
Only(k, n) == [Zero EXCEPT ![k] = n]

Event(kind, amounts, n) == [kind |-> kind, amounts |-> amounts, n |-> n]
Count(amounts) == Event("count", amounts, 0)
Gauge(n) == Event("gauge", Zero, n)
Failure(w) == Event("failure", Zero, w)
Fact(n) == Event("fact", Zero, n)
Terminal(n) == Event("terminal", Zero, n)

IsFact(e) == e.kind \in {"fact", "terminal"}
Kinds == {"count", "gauge", "failure", "fact", "terminal"}
Events == [kind : Kinds, amounts : [Counters -> Nat], n : Nat \cup Workers]

Init ==
  /\ inbox = <<>> /\ sender = "open" /\ receiver = TRUE /\ failed = FALSE
  /\ deltas = Zero /\ failures = <<>> /\ gauge = None
  /\ lock = [l \in Locks |-> None]
  /\ pc = [t \in Threads |-> "run"] /\ cur = [t \in Threads |-> Fact(0)]
  /\ rpc = "recv"
  /\ stage = [t \in Threads |-> IF t = Owner THEN "start" ELSE "unborn"]
  /\ jobs = Jobs /\ readers = 0 /\ facts = 0
  /\ jsonl \in BOOLEAN /\ outcome = "none" /\ exit = "none"
  /\ shown = [counts |-> Zero, gauge |-> 0, facts |-> <<>>, failures |-> {}, terminal |-> FALSE]
  /\ emitted = [counts |-> Zero, facts |-> {}]
  /\ fault = FALSE

-----------------------------------------------------------------------------
(* The inbox, as a thread that sends into it sees it. *)

Room == Len(inbox) < InboxSize
Deliver(e) == inbox' = Append(inbox, e) /\ UNCHANGED failed
Disconnected == failed' = TRUE /\ UNCHANGED inbox

May(t, l) == lock[l] \in {t, None}
Hold(t, l) == lock' = [lock EXCEPT ![l] = t]
Release(l) == lock' = [lock EXCEPT ![l] = None]
Goto(t, p) == pc' = [pc EXCEPT ![t] = p]

(* Where flush_pending goes on: an empty side buffer is passed over. *)
Pending == {k \in Counters : deltas[k] > 0}
ToGauges == IF gauge # None THEN "gauges" ELSE "send"
ToFailures == IF failures # <<>> THEN "failures" ELSE ToGauges
ToDeltas == IF Pending # {} THEN "deltas" ELSE ToFailures

(* Call emit: every event a thread hands over passes here, and is noted.   *)
Noted(e) ==
  [counts |-> Plus(emitted.counts, e.amounts),
   facts |-> emitted.facts \cup {n \in {e.n} : IsFact(e)}]

Call(t, e) ==
  /\ pc[t] = "run"
  /\ Goto(t, "emit")
  /\ cur' = [cur EXCEPT ![t] = e] /\ emitted' = Noted(e)
  /\ UNCHANGED <<transport, renderer>>

(* emit gives up when the renderer has failed or the transport is closed;  *)
(* a terminal record first drains the side buffers, any other flushes them.*)
EmitStart(t) ==
  /\ pc[t] = "emit"
  /\ IF failed \/ sender = "closed"
       THEN Goto(t, "run")
       ELSE Goto(t, IF cur[t].kind = "terminal" THEN "drain_deltas" ELSE ToDeltas)
  /\ UNCHANGED <<transport, cur, renderer, work, emitted>>

-----------------------------------------------------------------------------
(* flush_pending: move what fits, never wait.                              *)

(* flush_deltas sends the merged counters in key order until the inbox is  *)
(* full, holding the buffer's mutex; it loses an amount only to a renderer *)
(* that is gone.                                                           *)
FlushDelta(t) ==
  /\ pc[t] = "deltas" /\ May(t, "deltas")
  /\ LET k == Min(Pending)
     IN  IF Pending = {} \/ ~receiver \/ ~Room
           THEN /\ Release("deltas")
                /\ IF Pending # {} /\ ~receiver
                     THEN Disconnected /\ deltas' = [deltas EXCEPT ![k] = 0]
                     ELSE UNCHANGED <<inbox, failed, deltas>>
                /\ Goto(t, IF failed' THEN "send" ELSE ToFailures)
           ELSE /\ Deliver(Count(Only(k, deltas[k])))
                /\ deltas' = [deltas EXCEPT ![k] = 0]
                /\ Hold(t, "deltas") /\ UNCHANGED pc
  /\ UNCHANGED <<sender, receiver, failures, gauge, cur, renderer, work, emitted>>

FlushFailure(t) ==
  /\ pc[t] = "failures" /\ May(t, "failures")
  /\ IF failures = <<>> \/ ~receiver \/ ~Room
       THEN /\ Release("failures")
            /\ IF failures # <<>> /\ ~receiver
                 THEN Disconnected /\ failures' = Tail(failures)
                 ELSE UNCHANGED <<inbox, failed, failures>>
            /\ Goto(t, IF failures = <<>> THEN ToGauges ELSE "send")
       ELSE /\ Deliver(Head(failures)) /\ failures' = Tail(failures)
            /\ Hold(t, "failures") /\ UNCHANGED pc
  /\ UNCHANGED <<sender, receiver, deltas, gauge, cur, renderer, work, emitted>>

FlushGauge(t) ==
  /\ pc[t] = "gauges" /\ May(t, "gauges")
  /\ IF gauge = None \/ ~receiver \/ ~Room
       THEN IF gauge # None /\ ~receiver
              THEN Disconnected /\ gauge' = None
              ELSE UNCHANGED <<inbox, failed, gauge>>
       ELSE Deliver(Gauge(gauge)) /\ gauge' = None
  /\ Goto(t, "send")
  /\ UNCHANGED <<sender, receiver, deltas, failures, lock, cur, renderer, work, emitted>>

-----------------------------------------------------------------------------
(* try_send of the event itself, and what happens when the inbox is full.  *)

(* Variant: a fact that finds the inbox full is dropped. *)
TrySendLossy(t) ==
  /\ pc[t] = "send"
  /\ CASE ~receiver       -> Disconnected /\ Goto(t, "run")
       [] receiver /\ Room -> Deliver(cur[t]) /\ Goto(t, "run")
       [] OTHER           -> /\ Goto(t, IF IsFact(cur[t]) THEN "run" ELSE cur[t].kind)
                             /\ UNCHANGED <<inbox, failed>>
  /\ UNCHANGED <<sender, receiver, deltas, failures, gauge, lock, cur, renderer, work, emitted>>

TrySend(t) ==
  /\ pc[t] = "send"
  /\ CASE ~receiver       -> Disconnected /\ Goto(t, "run")
       [] receiver /\ Room -> Deliver(cur[t]) /\ Goto(t, "run")
       [] OTHER           -> /\ Goto(t, IF IsFact(cur[t]) THEN "block" ELSE cur[t].kind)
                             /\ UNCHANGED <<inbox, failed>>
  /\ UNCHANGED <<sender, receiver, deltas, failures, gauge, lock, cur, renderer, work, emitted>>

(* Variant: a newer sample replaces the amount that waits. *)
CoalesceCountReplacing(t) ==
  /\ pc[t] = "count" /\ May(t, "deltas")
  /\ deltas' = [k \in Counters |-> IF cur[t].amounts[k] > 0 THEN cur[t].amounts[k] ELSE deltas[k]]
  /\ Goto(t, "run")
  /\ UNCHANGED <<inbox, sender, receiver, failed, failures, gauge, lock, cur, renderer, work, emitted>>

(* coalesce_delta and the counter rules of coalesce_worker_fact. *)
CoalesceCount(t) ==
  /\ pc[t] = "count" /\ May(t, "deltas")
  /\ deltas' = Plus(deltas, cur[t].amounts)
  /\ Goto(t, "run")
  /\ UNCHANGED <<inbox, sender, receiver, failed, failures, gauge, lock, cur, renderer, work, emitted>>

CoalesceGauge(t) ==
  /\ pc[t] = "gauge" /\ May(t, "gauges")
  /\ gauge' = cur[t].n
  /\ Goto(t, "run")
  /\ UNCHANGED <<inbox, sender, receiver, failed, deltas, failures, lock, cur, renderer, work, emitted>>

(* Variant: the side buffer holds one failure less. *)
CoalesceFailureShort(t) ==
  /\ pc[t] = "failure" /\ May(t, "failures")
  /\ IF Len(failures) + 1 < FailureSlots
       THEN failures' = Append(failures, cur[t]) /\ Goto(t, "run") /\ UNCHANGED failed
       ELSE failed' = TRUE /\ Goto(t, "block") /\ UNCHANGED failures
  /\ UNCHANGED <<inbox, sender, receiver, deltas, gauge, lock, cur, renderer, work, emitted>>

(* coalesce_worker_failure: a full side buffer fails the transport, and    *)
(* the event falls through to the blocking send.                           *)
CoalesceFailure(t) ==
  /\ pc[t] = "failure" /\ May(t, "failures")
  /\ IF Len(failures) < FailureSlots
       THEN failures' = Append(failures, cur[t]) /\ Goto(t, "run") /\ UNCHANGED failed
       ELSE failed' = TRUE /\ Goto(t, "block") /\ UNCHANGED failures
  /\ UNCHANGED <<inbox, sender, receiver, deltas, gauge, lock, cur, renderer, work, emitted>>

(* Variant: a send to a renderer that is gone is tried again. *)
BlockingSendRetried(t) ==
  /\ pc[t] = "block"
  /\ IF receiver
       THEN /\ Room /\ Deliver(cur[t]) /\ Goto(t, "run")
            /\ UNCHANGED <<sender, receiver, deltas, failures, gauge, lock, cur, renderer, work, emitted>>
       ELSE UNCHANGED vars

(* The blocking send of a fact or of the terminal record. *)
BlockingSend(t) ==
  /\ pc[t] = "block"
  /\ IF receiver THEN Room /\ Deliver(cur[t]) ELSE Disconnected
  /\ Goto(t, "run")
  /\ UNCHANGED <<sender, receiver, deltas, failures, gauge, lock, cur, renderer, work, emitted>>

-----------------------------------------------------------------------------
(* drain_pending: before the terminal record and in close.  Every send     *)
(* waits for room with the buffer's mutex held.                            *)

Closing == stage[Owner] = "closing"
AfterDrain == IF Closing THEN "drop" ELSE IF failed' THEN "run" ELSE "block"

DrainDelta(t) ==
  /\ pc[t] = "drain_deltas" /\ May(t, "deltas")
  /\ IF Pending = {}
       THEN Release("deltas") /\ Goto(t, "drain_failures") /\ UNCHANGED <<inbox, failed, deltas>>
       ELSE /\ receiver => Room
            /\ LET k == Min(Pending)
               IN  /\ deltas' = [deltas EXCEPT ![k] = 0]
                   /\ IF receiver
                        THEN Deliver(Count(Only(k, deltas[k]))) /\ Hold(t, "deltas") /\ UNCHANGED pc
                        ELSE Disconnected /\ Release("deltas") /\ Goto(t, AfterDrain)
  /\ UNCHANGED <<sender, receiver, failures, gauge, cur, renderer, work, emitted>>

DrainFailure(t) ==
  /\ pc[t] = "drain_failures" /\ May(t, "failures")
  /\ IF failures = <<>>
       THEN Release("failures") /\ Goto(t, "drain_gauges") /\ UNCHANGED <<inbox, failed, failures>>
       ELSE /\ receiver => Room
            /\ IF receiver
                 THEN /\ Deliver(Head(failures)) /\ failures' = Tail(failures)
                      /\ Hold(t, "failures") /\ UNCHANGED pc
                 ELSE /\ Disconnected /\ failures' = <<>>
                      /\ Release("failures") /\ Goto(t, AfterDrain)
  /\ UNCHANGED <<sender, receiver, deltas, gauge, cur, renderer, work, emitted>>

DrainGauge(t) ==
  /\ pc[t] = "drain_gauges" /\ May(t, "gauges")
  /\ gauge # None /\ receiver => Room
  /\ IF gauge = None THEN UNCHANGED <<inbox, failed>>
     ELSE IF receiver THEN Deliver(Gauge(gauge)) ELSE Disconnected
  /\ gauge' = None
  /\ Goto(t, AfterDrain)
  /\ UNCHANGED <<sender, receiver, deltas, failures, lock, cur, renderer, work, emitted>>

-----------------------------------------------------------------------------
(* The renderer thread. *)

Rendered(e) ==
  CASE e.kind = "count"    -> [shown EXCEPT !.counts = Plus(@, e.amounts)]
    [] e.kind = "gauge"    -> [shown EXCEPT !.gauge = e.n]
    [] e.kind = "failure"  -> [shown EXCEPT !.failures = @ \cup {e.n}]
    [] e.kind = "fact"     -> [shown EXCEPT !.facts = Append(@, e.n)]
    [] e.kind = "terminal" -> [shown EXCEPT !.facts = Append(@, e.n), !.terminal = TRUE]

(* render_events takes one event; the sink writes it. *)
Render ==
  /\ rpc = "recv" /\ inbox # <<>>
  /\ shown' = Rendered(Head(inbox))
  /\ inbox' = Tail(inbox)
  /\ UNCHANGED <<sender, receiver, failed, deltas, failures, gauge, lock, pc, cur, rpc, fault, work, emitted>>

(* The sink cannot write: the flag is set, then the receiver goes away. *)
RenderFails ==
  /\ MayBreak /\ rpc = "recv" /\ inbox # <<>>
  /\ inbox' = Tail(inbox) /\ failed' = TRUE
  /\ fault' = TRUE /\ rpc' = "broken"
  /\ UNCHANGED <<sender, receiver, deltas, failures, gauge, lock, pc, cur, shown, work, emitted>>

(* The renderer panics: nobody sets the flag until somebody sends or joins.*)
RenderPanics ==
  /\ MayBreak /\ rpc = "recv" /\ inbox # <<>>
  /\ inbox' = <<>> /\ receiver' = FALSE
  /\ fault' = TRUE /\ rpc' = "panicked"
  /\ UNCHANGED <<sender, failed, deltas, failures, gauge, lock, pc, cur, shown, work, emitted>>

(* The loop ends: after a failure, or when every sender is gone and the    *)
(* inbox is empty.                                                         *)
LeaveLoop ==
  /\ \/ rpc = "broken"
     \/ /\ rpc = "recv" /\ inbox = <<>> /\ sender = "closed"
        /\ \A t \in Threads : pc[t] \in {"run", "emit", "join"}
  /\ inbox' = <<>> /\ receiver' = FALSE /\ rpc' = "finish"
  /\ UNCHANGED <<sender, failed, deltas, failures, gauge, lock, pc, cur, shown, fault, work, emitted>>

(* renderer.finish draws the last state and clears the dashboard. *)
RenderFinish ==
  /\ rpc = "finish" /\ rpc' = "exited"
  /\ \E bad \in {FALSE, MayBreak} : failed' = (failed \/ bad) /\ fault' = (fault \/ bad)
  /\ UNCHANGED <<inbox, sender, receiver, deltas, failures, gauge, lock, pc, cur, shown, work, emitted>>

-----------------------------------------------------------------------------
(* Source workers: the events of one file, in the executor's order. *)

Cancelled == failed \/ \E w \in Workers : stage[w] \in {"failed", "failed_out"}

Take(w) ==
  /\ stage[w] = "idle" /\ jobs > 0
  /\ jobs' = jobs - 1 /\ readers' = readers + 1
  /\ stage' = [stage EXCEPT ![w] = "reading"]
  /\ Call(w, Gauge(readers + 1))
  /\ UNCHANGED <<facts, jsonl, outcome, exit>>

(* A chunk reaches staging; then the file is complete. *)
Chunk(w) ==
  /\ stage[w] = "reading"
  /\ stage' = [stage EXCEPT ![w] = "staged"]
  /\ Call(w, Count(Only(Max(Counters), 1)))
  /\ UNCHANGED <<jobs, readers, facts, jsonl, outcome, exit>>

Hashed(w) ==
  /\ stage[w] = "staged"
  /\ stage' = [stage EXCEPT ![w] = "hashed"]
  /\ Call(w, Count(Only(Min(Counters), 1)))
  /\ UNCHANGED <<jobs, readers, facts, jsonl, outcome, exit>>

WorkFailed(w) ==
  /\ stage[w] \in {"reading", "hashed"}
  /\ stage' = [stage EXCEPT ![w] = "failed"]
  /\ Call(w, Failure(w))
  /\ UNCHANGED <<jobs, readers, facts, jsonl, outcome, exit>>

(* decrement_readers, then the new sample: after a failure the worker      *)
(* takes no other job.                                                     *)
Decrement(w) ==
  /\ stage[w] \in {"hashed", "failed"}
  /\ readers' = readers - 1
  /\ stage' = [stage EXCEPT ![w] = IF @ = "failed" THEN "failed_out" ELSE "idle"]
  /\ Call(w, Gauge(readers - 1))
  /\ UNCHANGED <<jobs, facts, jsonl, outcome, exit>>

Leave(w) ==
  /\ stage[w] = "idle" /\ pc[w] = "run"
  /\ jobs = 0 \/ Cancelled
  /\ stage' = [stage EXCEPT ![w] = "left"]
  /\ UNCHANGED <<transport, pc, cur, renderer, jobs, readers, facts, jsonl, outcome, exit, emitted>>

Gone(w) == stage[w] \in {"left", "failed_out"} /\ pc[w] = "run"

-----------------------------------------------------------------------------
(* The command's owner in main. *)

OwnerGo(s) == stage' = [stage EXCEPT ![Owner] = s]
NextFact == facts' = facts + 1

(* emit_started, and the command starts its workers. *)
Started ==
  /\ stage[Owner] = "start"
  /\ stage' = [t \in Threads |-> IF t = Owner THEN "work" ELSE "idle"]
  /\ NextFact /\ Call(Owner, Fact(facts + 1))
  /\ UNCHANGED <<jobs, readers, jsonl, outcome, exit>>

(* A domain fact of command coordination, or a counter of the owner's own  *)
(* (an audited blob adds to several counters at once).                     *)
OwnerEmits ==
  /\ stage[Owner] = "work" /\ ~failed /\ facts <= OwnerEvents
  /\ NextFact
  /\ \/ Call(Owner, Fact(facts + 1))
     \/ Call(Owner, Count([k \in Counters |-> 1]))
  /\ UNCHANGED <<stage, jobs, readers, jsonl, outcome, exit>>

(* The command returns to main, its workers joined. *)
CommandReturns ==
  /\ stage[Owner] = "work" /\ pc[Owner] = "run"
  /\ \A w \in Workers : Gone(w)
  /\ \/ ~Cancelled /\ outcome' = "report" /\ OwnerGo("report")
     \/ outcome' = "error" /\ OwnerGo("summary")
  /\ UNCHANGED <<transport, pc, cur, renderer, jobs, readers, facts, jsonl, exit, emitted>>

(* emit_finished. *)
Finished ==
  /\ stage[Owner] = "report"
  /\ OwnerGo("summary")
  /\ NextFact /\ Call(Owner, Fact(facts + 1))
  /\ UNCHANGED <<jobs, readers, jsonl, outcome, exit>>

(* command_summary or command_failed, for JSON lines only. *)
Summary ==
  /\ stage[Owner] = "summary" /\ jsonl
  /\ OwnerGo("close")
  /\ NextFact /\ Call(Owner, Terminal(facts + 1))
  /\ UNCHANGED <<jobs, readers, jsonl, outcome, exit>>

(* close: drain, drop the sender, join the renderer. *)
Close ==
  /\ pc[Owner] = "run"
  /\ stage[Owner] = IF jsonl THEN "close" ELSE "summary"
  /\ OwnerGo("closing") /\ Goto(Owner, "drain_deltas")
  /\ UNCHANGED <<transport, cur, renderer, jobs, readers, facts, jsonl, outcome, exit, emitted>>

DropSender ==
  /\ pc[Owner] = "drop"
  /\ sender' = "closed" /\ Goto(Owner, "join")
  /\ UNCHANGED <<inbox, receiver, failed, deltas, failures, gauge, lock, cur, renderer, work, emitted>>

(* Variant: a panic of the renderer is not looked at. *)
JoinUnchecked ==
  /\ pc[Owner] = "join" /\ rpc \in {"exited", "panicked"}
  /\ Goto(Owner, "run") /\ OwnerGo("closed")
  /\ UNCHANGED <<transport, cur, renderer, jobs, readers, facts, jsonl, outcome, exit, emitted>>

Join ==
  /\ pc[Owner] = "join" /\ rpc \in {"exited", "panicked"}
  /\ failed' = (failed \/ rpc = "panicked")
  /\ Goto(Owner, "run") /\ OwnerGo("closed")
  /\ UNCHANGED <<inbox, sender, receiver, deltas, failures, gauge, lock, cur, renderer,
                 jobs, readers, facts, jsonl, outcome, exit, emitted>>

(* ensure_renderer_healthy and the exit status.  A report may be of an     *)
(* incomplete collection, which is an error, and printing the human report *)
(* after the renderer is gone may fail on its own.                         *)
Exit ==
  /\ stage[Owner] = "closed" /\ exit = "none"
  /\ \/ exit' = "error"
     \/ outcome = "report" /\ ~failed /\ exit' \in {"success", "findings"}
  /\ UNCHANGED <<transport, pc, cur, renderer, stage, jobs, readers, facts, jsonl, outcome, emitted>>

-----------------------------------------------------------------------------
Transport(t) ==
  \/ EmitStart(t) \/ FlushDelta(t) \/ FlushFailure(t) \/ FlushGauge(t)
  \/ TrySend(t) \/ CoalesceCount(t) \/ CoalesceGauge(t) \/ CoalesceFailure(t) \/ BlockingSend(t)
  \/ DrainDelta(t) \/ DrainFailure(t) \/ DrainGauge(t)

WorkerStep(w) ==
  Transport(w) \/ Take(w) \/ Chunk(w) \/ Hashed(w) \/ WorkFailed(w) \/ Decrement(w) \/ Leave(w)

OwnerStep ==
  \/ Transport(Owner)
  \/ Started \/ OwnerEmits \/ CommandReturns \/ Finished \/ Summary
  \/ Close \/ DropSender \/ Join \/ Exit

RendererStep == Render \/ RenderFails \/ RenderPanics \/ LeaveLoop \/ RenderFinish

Done == exit # "none" /\ UNCHANGED vars

Next == (\E w \in Workers : WorkerStep(w)) \/ OwnerStep \/ RendererStep \/ Done

Spec ==
  /\ Init /\ [][Next]_vars
  /\ \A w \in Workers : WF_vars(WorkerStep(w))
  /\ WF_vars(OwnerStep) /\ WF_vars(RendererStep)

-----------------------------------------------------------------------------
(* Properties. *)

(* The types of the transport, of its threads and of the renderer. *)
TypeOK ==
  /\ inbox \in Seq(Events) /\ Len(inbox) <= InboxSize
  /\ sender \in {"open", "closed"} /\ receiver \in BOOLEAN /\ failed \in BOOLEAN
  /\ deltas \in [Counters -> Nat] /\ failures \in Seq(Events) /\ gauge \in Nat \cup {None}
  /\ lock \in [Locks -> Threads \cup {None}]
  /\ cur \in [Threads -> Events] /\ readers \in 0 .. Cardinality(Workers)
  /\ shown.counts \in [Counters -> Nat] /\ emitted.counts \in [Counters -> Nat]
  /\ exit \in {"none", "success", "findings", "error"}

(* "Domain facts are lossless": a process that exits with a healthy        *)
(* renderer has rendered every amount and every fact that was handed to    *)
(* emit, no fact twice, the facts in the order in which the owner emitted  *)
(* them, every worker failure and, for JSON lines, the terminal record.    *)
EverythingRendered ==
  exit # "none" /\ ~fault =>
    /\ shown.counts = emitted.counts
    /\ {shown.facts[i] : i \in DOMAIN shown.facts} = emitted.facts
    /\ \A i, j \in DOMAIN shown.facts : i < j => shown.facts[i] < shown.facts[j]
    /\ shown.failures = {w \in Workers : stage[w] = "failed_out"}
    /\ jsonl <=> shown.terminal

(* "Worker threads must never block on terminal rendering": a worker is    *)
(* never in the blocking send, and never waits for a mutex whose holder is *)
(* waiting for the renderer to make room.                                  *)
WorkersNeverWait ==
  \A w \in Workers :
    /\ pc[w] # "block"
    /\ \A l \in Locks : lock[l] = Owner /\ ~Room /\ receiver /\ pc[Owner] \in
         {"drain_deltas", "drain_failures", "drain_gauges"} => pc[w] = "run"

(* A broken pipe is never a success: if the renderer failed or panicked at *)
(* any time, the process does not exit as if its output were complete.     *)
(* And "queue saturation is not a renderer failure": the flag that cancels *)
(* the command is up only if the renderer did fail, whatever the threads   *)
(* and the buffers went through.                                           *)
BrokenPipeReported ==
  /\ exit \in {"success", "findings"} => ~fault
  /\ failed => fault

(* Whatever the renderer does, as long as its writes end, the command      *)
(* closes its transport and the process exits.                             *)
ProcessExits == <>(exit # "none")

(* "Gauges describe the most recent state, so replacing an older sample is *)
(* exact": after a healthy run the last sample shown is the number of      *)
(* active workers.  Not an invariant: while the inbox is full a sample     *)
(* waits in the side buffer, and once there is room a newer one overtakes  *)
(* it.                                                                     *)
GaugeIsCurrent == exit # "none" /\ ~fault => shown.gauge = readers
================================================================================
