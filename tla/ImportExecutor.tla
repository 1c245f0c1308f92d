--------------------------- MODULE ImportExecutor ---------------------------
(***************************************************************************)
(* The streaming executor of one import: a coordinator thread that scans,  *)
(* schedules and completes work, and a fixed pool of source workers.       *)
(*                                                                         *)
(* They share three bounded channels (jobs, completions, one failure slot),*)
(* a cancellation flag and a counter of completed work that waits to be    *)
(* received.  The presentation thread can die at any time (renderer), the  *)
(* catalog writer can fail at any time (writer, slot); what the writer     *)
(* does inside is the business of CatalogWriter.                           *)
(*                                                                         *)
(* A work item is the source file it reads.  Files skipped on their        *)
(* metadata never reach the scheduler and are left out.                    *)
(***************************************************************************)
EXTENDS Integers, Sequences, FiniteSets, SequencesExt

CONSTANTS
  File,                \* files the scan will find
  Mount,               \* mounts they are on
  MountOf,             \* the mount of each file
  Worker,              \* source workers
  None,                \* "no file", "no mount"
  WorkersPerMount,     \* effective_workers_per_mount
  SchedulerCapacity,   \* SCHEDULER_QUEUE_CAPACITY
  JobCapacity,         \* WORKER_QUEUE_CAPACITY
  CompletionCapacity,  \* COMPLETION_QUEUE_CAPACITY
  Faults               \* faults that may happen: "read", "scan", "renderer", "writer"

ASSUME MountsAssumption ==
  MountOf \in [File -> Mount] /\ None \notin File /\ None \notin Mount
ASSUME CapacitiesAssumption ==
  /\ WorkersPerMount \in 1 .. Cardinality(Worker) /\ SchedulerCapacity \in Nat \ {0}
  /\ JobCapacity \in Nat \ {0} /\ CompletionCapacity \in Nat \ {0}
  /\ IsFiniteSet(Worker)

RetainedCapacity == CompletionCapacity + Cardinality(Worker)

VARIABLES
  unscanned,   \* files the scanner has yet to return
  scanDone,    \* whether the scanner is exhausted
  pending,     \* the scheduler queue
  active,      \* admitted work per mount, as the coordinator counts it
  last,        \* mount of the last dispatch
  cpc,         \* where the coordinator is
  current,     \* the completion the coordinator is handling
  submitted,   \* files handed to the catalog writer
  result,      \* what the executor returns
  jobs,        \* channel of admitted work
  jobsOpen,    \* whether the coordinator still holds its sender
  completions, \* channel of completed work
  retained,    \* completed_retained
  cancelled,   \* the cancellation flag
  failure,     \* the workers' terminal-failure slot
  wpc,         \* where each worker is
  work,        \* the file each worker holds
  dropped,     \* admitted work that will not be completed
  renderer,    \* whether the presentation thread is alive
  writer,      \* the catalog writer: up, failing or down
  slot         \* the catalog writer's terminal-failure slot

scan == <<unscanned, scanDone>>
schedule == <<pending, active, last>>
coordinator == <<cpc, current, submitted, result>>
channels == <<jobs, jobsOpen, completions, retained>>
control == <<cancelled, failure>>
pool == <<wpc, work, dropped>>
outside == <<renderer, writer, slot>>
vars == <<scan, schedule, coordinator, channels, control, pool, outside>>

Exited == {w \in Worker : wpc[w] = "exit"}

-----------------------------------------------------------------------------
Init ==
  /\ unscanned = File /\ scanDone = FALSE
  /\ pending = <<>> /\ active = [m \in Mount |-> 0] /\ last = None
  /\ cpc = "top" /\ current = None /\ submitted = {} /\ result = "none"
  /\ jobs = <<>> /\ jobsOpen = TRUE /\ completions = <<>> /\ retained = 0
  /\ cancelled = FALSE /\ failure = "empty"
  /\ wpc = [w \in Worker |-> "idle"] /\ work = [w \in Worker |-> None]
  /\ dropped = {}
  /\ renderer = "alive" /\ writer = "up" /\ slot = "empty"

-----------------------------------------------------------------------------
(* What fails outside the executor. *)

RendererDies ==
  /\ "renderer" \in Faults /\ renderer = "alive"
  /\ renderer' = "dead"
  /\ UNCHANGED <<scan, schedule, coordinator, channels, control, pool, writer, slot>>

(* A failing writer rejects requests and drops its channel, then leaves its *)
(* terminal message.                                                        *)
WriterFails ==
  /\ "writer" \in Faults
  /\ \/ writer = "up" /\ writer' = "failing" /\ UNCHANGED slot
     \/ writer = "failing" /\ writer' = "down" /\ slot' = "full"
  /\ UNCHANGED <<scan, schedule, coordinator, channels, control, pool, renderer>>

-----------------------------------------------------------------------------
(* The coordinator. *)

(* An error leaves the loop; cancellation comes first in the clean-up.      *)
Leave == cpc' = "cleanup" /\ result' = "error"

(* The head of an iteration: a dead renderer, then the terminal slots. *)
Poll ==
  /\ cpc = "top"
  /\ \/ /\ renderer = "dead"
        /\ cancelled' = TRUE /\ Leave /\ UNCHANGED <<failure, slot>>
     \/ /\ renderer = "alive" /\ failure = "full"
        /\ failure' = "empty" /\ cancelled' = TRUE /\ Leave /\ UNCHANGED slot
     \/ /\ renderer = "alive" /\ failure # "full" /\ slot = "full"
        /\ slot' = "empty" /\ cancelled' = TRUE /\ Leave /\ UNCHANGED failure
     \/ /\ renderer = "alive" /\ failure # "full" /\ slot # "full"
        /\ cpc' = "dispatch" /\ UNCHANGED <<result, control, slot>>
  /\ UNCHANGED <<scan, schedule, current, submitted, channels, pool, renderer, writer>>

Eligible(i) == active[MountOf[pending[i]]] < WorkersPerMount
Ready == {i \in DOMAIN pending : Eligible(i)}
Fresh == {i \in Ready : MountOf[pending[i]] # last}

(* The first eligible file of another mount than the last dispatch's, else  *)
(* the first eligible file.                                                 *)
Choice ==
  LET S == IF Fresh # {} THEN Fresh ELSE Ready IN CHOOSE i \in S : \A j \in S : i <= j

(* One round of dispatch_ready. *)
Dispatch ==
  LET f == pending[Choice] IN
  /\ cpc = "dispatch" /\ Ready # {}
  /\ Len(jobs) < JobCapacity /\ Exited # Worker
  /\ jobs' = Append(jobs, f)
  /\ pending' = RemoveAt(pending, Choice)
  /\ active' = [active EXCEPT ![MountOf[f]] = @ + 1]
  /\ last' = MountOf[f]
  /\ UNCHANGED <<scan, coordinator, jobsOpen, completions, retained, control, pool,
                 outside>>

(* Nothing eligible, or the job channel is full: go on.  With every worker  *)
(* gone the channel is closed.                                              *)
DispatchEnd ==
  /\ cpc = "dispatch"
  /\ \/ Ready = {} \/ (Len(jobs) >= JobCapacity /\ Exited # Worker)
     \/ Ready # {} /\ Exited = Worker
  /\ IF Ready # {} /\ Exited = Worker
       THEN Leave ELSE cpc' = "scan" /\ UNCHANGED result
  /\ UNCHANGED <<scan, schedule, current, submitted, channels, control, pool, outside>>

(* The slots are polled again before a scanner item is consumed. *)
PollBeforeScan ==
  /\ cpc = "scan"
  /\ \/ failure = "full" /\ failure' = "empty" /\ UNCHANGED slot
     \/ failure # "full" /\ slot = "full" /\ slot' = "empty" /\ UNCHANGED failure
  /\ cancelled' = TRUE /\ Leave
  /\ UNCHANGED <<scan, schedule, current, submitted, channels, pool, renderer, writer>>

CanScan == cpc = "scan" /\ failure # "full" /\ slot # "full"
ScanRoom == ~scanDone /\ Len(pending) < SchedulerCapacity

Scan ==
  /\ CanScan /\ ScanRoom
  /\ \/ \E f \in unscanned :
          /\ unscanned' = unscanned \ {f}
          /\ pending' = Append(pending, f)
          /\ UNCHANGED scanDone
     \/ unscanned = {} /\ scanDone' = TRUE /\ UNCHANGED <<unscanned, pending>>
  /\ cpc' = "top"
  /\ UNCHANGED <<active, last, current, submitted, result, channels, control, pool,
                 outside>>

ScanFail ==
  /\ "scan" \in Faults
  /\ CanScan /\ ScanRoom
  /\ Leave
  /\ UNCHANGED <<scan, schedule, current, submitted, channels, control, pool, outside>>

Idle == \A m \in Mount : active[m] = 0

(* Variant: work still at the workers is not waited for. *)
ScanEndEarly ==
  /\ CanScan /\ ~ScanRoom
  /\ cpc' = IF pending = <<>> /\ scanDone THEN "tickets" ELSE "wait"
  /\ UNCHANGED <<scan, schedule, current, submitted, result, channels, control, pool,
                 outside>>

(* Nothing left to admit or to wait for, or wait for a completion. *)
ScanEnd ==
  /\ CanScan /\ ~ScanRoom
  /\ cpc' = IF Idle /\ pending = <<>> /\ scanDone THEN "tickets" ELSE "wait"
  /\ UNCHANGED <<scan, schedule, current, submitted, result, channels, control, pool,
                 outside>>

(* recv: the channels are selected without priority, and a channel whose    *)
(* senders are all gone is ready too.                                       *)
RecvCompletion ==
  /\ cpc = "wait" /\ completions # <<>>
  /\ current' = Head(completions)
  /\ completions' = Tail(completions)
  /\ cpc' = "received"
  /\ UNCHANGED <<scan, schedule, submitted, result, jobs, jobsOpen, retained, control,
                 pool, outside>>

RecvFailure ==
  /\ cpc = "wait"
  /\ \/ failure = "full" /\ failure' = "empty" /\ UNCHANGED <<cancelled, slot>>
     \/ slot = "full" /\ slot' = "empty" /\ cancelled' = TRUE /\ UNCHANGED failure
     \/ /\ Exited = Worker /\ (completions = <<>> \/ failure = "empty")
        /\ UNCHANGED <<control, slot>>
  /\ Leave
  /\ UNCHANGED <<scan, schedule, current, submitted, channels, pool, renderer, writer>>

(* The receipt is subtracted from the counter in a step of its own. *)
CountReceived ==
  /\ cpc = "received"
  /\ retained' = retained - 1
  /\ cpc' = "complete"
  /\ UNCHANGED <<scan, schedule, current, submitted, result, jobs, jobsOpen,
                 completions, control, pool, outside>>

(* Variant: the mount's count is not lowered. *)
CompleteWorkUncounted ==
  /\ cpc = "complete"
  /\ current' = None
  /\ submitted' = submitted \cup {current}
  /\ cpc' = "limit"
  /\ UNCHANGED <<scan, schedule, result, channels, control, pool, outside>>

(* The mount's count goes down and the record is sent to the catalog. *)
CompleteWork ==
  /\ cpc = "complete"
  /\ active' = [active EXCEPT ![MountOf[current]] = @ - 1]
  /\ current' = None
  /\ \/ /\ writer # "down"
        /\ submitted' = submitted \cup {current}
        /\ cpc' = "limit" /\ UNCHANGED <<result, dropped>>
     \/ /\ writer # "up"
        /\ dropped' = dropped \cup {current}
        /\ Leave /\ UNCHANGED submitted
  /\ UNCHANGED <<scan, pending, last, channels, control, wpc, work, outside>>

(* Tickets awaited at the limit resolve, or fail with the writer. *)
DrainOutcomesToLimit ==
  /\ cpc = "limit"
  /\ \/ cpc' = "top" /\ UNCHANGED result
     \/ writer # "up" /\ Leave
  /\ UNCHANGED <<scan, schedule, current, submitted, channels, control, pool, outside>>

(* The last tickets are resolved. *)
ResolveTickets ==
  /\ cpc = "tickets"
  /\ \/ cpc' = "finish" /\ result' = "ok"
     \/ writer # "up" /\ Leave
  /\ UNCHANGED <<scan, schedule, current, submitted, channels, control, pool, outside>>

Cleanup ==
  /\ cpc = "cleanup"
  /\ cancelled' = TRUE
  /\ cpc' = "finish"
  /\ UNCHANGED <<scan, schedule, current, submitted, result, channels, failure, pool,
                 outside>>

Finish ==
  /\ cpc = "finish"
  /\ cancelled' = TRUE
  /\ jobsOpen' = FALSE
  /\ cpc' = "join"
  /\ UNCHANGED <<scan, schedule, current, submitted, result, jobs, completions,
                 retained, failure, pool, outside>>

Join ==
  /\ cpc = "join" /\ Exited = Worker
  /\ cpc' = "done"
  /\ UNCHANGED <<scan, schedule, current, submitted, result, channels, control, pool,
                 outside>>

-----------------------------------------------------------------------------
(* A source worker. *)

Become(w, next) == wpc' = [wpc EXCEPT ![w] = next]
Forget(w) == work' = [work EXCEPT ![w] = None] /\ dropped' = dropped \cup {work[w]}

Take(w) ==
  /\ wpc[w] = "idle" /\ jobs # <<>>
  /\ work' = [work EXCEPT ![w] = Head(jobs)]
  /\ jobs' = Tail(jobs)
  /\ Become(w, "taken")
  /\ UNCHANGED <<scan, schedule, coordinator, jobsOpen, completions, retained, control,
                 dropped, outside>>

WorkerExit(w) ==
  /\ wpc[w] = "idle" /\ jobs = <<>> /\ ~jobsOpen
  /\ Become(w, "exit")
  /\ UNCHANGED <<scan, schedule, coordinator, channels, control, work, dropped, outside>>

Begin(w) ==
  /\ wpc[w] = "taken" /\ ~cancelled /\ renderer = "alive"
  /\ Become(w, "reading")
  /\ UNCHANGED <<scan, schedule, coordinator, channels, control, work, dropped, outside>>

(* Variant: a plain store, after which everybody publishes. *)
SignalAlways(w, publish, silent) == Become(w, publish) /\ cancelled' = TRUE

(* The compare-exchange decides who publishes the failure. *)
Signal(w, publish, silent) ==
  IF cancelled THEN Become(w, silent) /\ UNCHANGED cancelled
               ELSE Become(w, publish) /\ cancelled' = TRUE

(* Variant: a worker drops work under a dead renderer without saying so. *)
DiscardSilently(w) ==
  /\ wpc[w] = "taken" /\ (cancelled \/ renderer = "dead")
  /\ Become(w, "idle")
  /\ Forget(w)
  /\ UNCHANGED <<scan, schedule, coordinator, channels, control, outside>>

(* Work dequeued under cancellation, or under a dead renderer, is dropped;  *)
(* the coordinator is told unless somebody else has cancelled.              *)
Discard(w) ==
  /\ wpc[w] = "taken" /\ (cancelled \/ renderer = "dead")
  /\ Signal(w, "publish", "idle")
  /\ Forget(w)
  /\ UNCHANGED <<scan, schedule, coordinator, channels, failure, outside>>

(* A read or an installation fails, or a chunk is reported to a dead        *)
(* renderer.                                                                *)
ReadFail(w) ==
  /\ wpc[w] = "reading" /\ ("read" \in Faults \/ renderer = "dead")
  /\ Signal(w, "publish_exit", "exit")
  /\ Forget(w)
  /\ UNCHANGED <<scan, schedule, coordinator, channels, failure, outside>>

Publish(w) ==
  /\ wpc[w] \in {"publish", "publish_exit"}
  /\ failure = "empty"
  /\ failure' = "full"
  /\ Become(w, IF wpc[w] = "publish" THEN "idle" ELSE "exit")
  /\ UNCHANGED <<scan, schedule, coordinator, channels, cancelled, work, dropped, outside>>

(* The blob is installed and counted as retained. *)
ReadDone(w) ==
  /\ wpc[w] = "reading"
  /\ retained' = retained + 1
  /\ Become(w, "sending")
  /\ UNCHANGED <<scan, schedule, coordinator, jobs, jobsOpen, completions, control, work,
                 dropped, outside>>

Send(w) ==
  /\ wpc[w] = "sending"
  /\ Len(completions) < CompletionCapacity
  /\ completions' = Append(completions, work[w])
  /\ work' = [work EXCEPT ![w] = None]
  /\ Become(w, "idle")
  /\ UNCHANGED <<scan, schedule, coordinator, jobs, jobsOpen, retained, control, dropped,
                 outside>>

(* Between two timed attempts to send, the worker looks at the flag. *)
SendCancelled(w) ==
  /\ wpc[w] = "sending" /\ cancelled
  /\ retained' = retained - 1
  /\ Forget(w)
  /\ Become(w, "idle")
  /\ UNCHANGED <<scan, schedule, coordinator, jobs, jobsOpen, completions, control,
                 outside>>

-----------------------------------------------------------------------------
CoordinatorStep ==
  \/ Poll \/ Dispatch \/ DispatchEnd \/ PollBeforeScan \/ Scan \/ ScanEnd
  \/ RecvCompletion \/ RecvFailure \/ CountReceived \/ CompleteWork
  \/ DrainOutcomesToLimit \/ ResolveTickets
  \/ Cleanup \/ Finish \/ Join

WorkerStep(w) ==
  \/ Take(w) \/ WorkerExit(w) \/ Begin(w) \/ Discard(w) \/ Publish(w)
  \/ ReadDone(w) \/ Send(w) \/ SendCancelled(w)

Failures == ScanFail \/ RendererDies \/ WriterFails \/ (\E w \in Worker : ReadFail(w))

(* The executor has returned. *)
Over == cpc = "done" /\ UNCHANGED vars

Next == CoordinatorStep \/ (\E w \in Worker : WorkerStep(w)) \/ Failures \/ Over

(* Every thread runs, and a read ends; nothing has to fail, but a failing   *)
(* writer goes on to leave its message.                                     *)
Fairness ==
  /\ WF_vars(CoordinatorStep)
  /\ \A w \in Worker : WF_vars(WorkerStep(w))
  /\ WF_vars(writer = "failing" /\ WriterFails)

Spec == Init /\ [][Next]_vars /\ Fairness

-----------------------------------------------------------------------------
CoordinatorPc ==
  {"top", "dispatch", "scan", "wait", "received", "complete", "limit", "tickets", "cleanup",
   "finish", "join", "done"}
WorkerPc ==
  {"idle", "taken", "reading", "publish", "publish_exit", "sending", "exit"}

(* Queues stay within their capacities, counters and slots within their     *)
(* types.                                                                   *)
TypeOK ==
  /\ unscanned \in SUBSET File /\ scanDone \in BOOLEAN
  /\ pending \in Seq(File) /\ Len(pending) <= SchedulerCapacity
  /\ active \in [Mount -> 0 .. WorkersPerMount] /\ last \in Mount \cup {None}
  /\ cpc \in CoordinatorPc /\ current \in File \cup {None}
  /\ submitted \in SUBSET File /\ result \in {"none", "ok", "error"}
  /\ jobs \in Seq(File) /\ Len(jobs) <= JobCapacity /\ jobsOpen \in BOOLEAN
  /\ completions \in Seq(File) /\ Len(completions) <= CompletionCapacity
  /\ retained \in Nat
  /\ cancelled \in BOOLEAN /\ failure \in {"empty", "full"}
  /\ wpc \in [Worker -> WorkerPc] /\ work \in [Worker -> File \cup {None}]
  /\ dropped \in SUBSET File
  /\ renderer \in {"alive", "dead"} /\ writer \in {"up", "failing", "down"}
  /\ slot \in {"empty", "full"}

Admitted ==
  ToSet(jobs) \cup ToSet(completions)
    \cup {work[w] : w \in {v \in Worker : work[v] # None}}
    \cup ({current} \ {None})

(* The coordinator's per-mount count is the work it admitted and has not    *)
(* completed, wherever that work is; only cancellation loses work.  So a    *)
(* completion never finds its mount without a count, and no mount is read   *)
(* by more workers than its share.                                          *)
ActiveIsAdmitted ==
  /\ \A m \in Mount :
       Cardinality({f \in Admitted : MountOf[f] = m}) <= active[m]
  /\ cpc # "cleanup" /\ ~cancelled => \A m \in Mount :
       active[m] = Cardinality({f \in Admitted : MountOf[f] = m})

(* Only one worker ever publishes a failure, and it finds the slot empty:   *)
(* a failing worker never blocks while the coordinator waits for it.        *)
FailureSlotFree ==
  \A w \in Worker : wpc[w] \in {"publish", "publish_exit"} =>
    failure = "empty" /\ \A v \in Worker \ {w} : wpc[v] \notin {"publish", "publish_exit"}

(* An executor that returns success has handed every file it found to the   *)
(* catalog, dropped none, and left nothing in a channel.                    *)
SuccessIsComplete ==
  cpc = "done" /\ result = "ok" =>
    submitted = File /\ dropped = {} /\ retained = 0 /\ jobs = <<>> /\ completions = <<>>

(* The completed work the channel and the workers retain is bounded by the  *)
(* channel's capacity and one item per worker.                              *)
RetainedBounded == retained <= RetainedCapacity

(* The executor returns, whatever fails: in particular a coordinator that   *)
(* waits for completions learns of work that will never complete.           *)
ExecutorReturns == <>(cpc = "done")
=============================================================================
