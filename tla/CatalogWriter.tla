---------------------------- MODULE CatalogWriter ----------------------------
(***************************************************************************)
(* The catalog writer thread of one import, and the import's coordinator   *)
(* as the writer sees it.                                                  *)
(*                                                                         *)
(* The coordinator sends record requests over a bounded channel and keeps  *)
(* a ticket for each.  The writer collects requests into batches, commits  *)
(* a batch when it is full, when its deadline passes or when the           *)
(* coordinator hangs up, and answers every ticket.  It reports what it     *)
(* does on a second bounded channel, the event bridge, on which it blocks  *)
(* and which only the coordinator drains.  When it fails, it rejects what  *)
(* is queued, drops the request channel and leaves one terminal message.   *)
(*                                                                         *)
(* A request is its sequence number; what a record writes is the business  *)
(* of MediaStore.  An event is only counted.                               *)
(***************************************************************************)
EXTENDS Naturals, Sequences, FiniteSets, Functions, FiniteSetsExt

CONSTANTS
  Requests,         \* sequence numbers an import may submit
  None,             \* "no request"
  MaxBatch,         \* max_batch_records, also the coordinator's ticket limit
  ChannelCapacity,  \* requests the channel holds
  CheckpointEvery,  \* committed batches between two checkpoints
  BridgeCapacity    \* EVENT_BRIDGE_CAPACITY

ASSUME RequestsAssumption == Requests \subseteq Nat /\ None \notin Nat
ASSUME SizesAssumption ==
  /\ MaxBatch \in Nat \ {0} /\ CheckpointEvery \in Nat \ {0}
  /\ ChannelCapacity \in Nat /\ ChannelCapacity > MaxBatch
  /\ BridgeCapacity \in Nat /\ BridgeCapacity > 5 * MaxBatch + 7

VARIABLES
  queue,      \* the request channel
  handle,     \* whether the coordinator still holds its sender
  wpc,        \* where the writer is
  after,      \* where the writer goes on after a flush
  held,       \* a request taken off the channel and not yet in a batch
  pending,    \* the open batch
  expired,    \* whether the open batch is past its deadline
  batches,    \* committed batches
  committed,  \* requests whose batch is committed
  answer,     \* what each request's ticket will find
  blame,      \* the failing sequence number an error answer names
  bridge,     \* events in the bridge
  terminal,   \* the terminal-failure slot
  cpc,        \* where the coordinator is
  tickets,    \* tickets the coordinator has not resolved
  result      \* what the import returns

requests == <<queue, handle>>
batch == <<held, pending, expired>>
durable == <<batches, committed>>
answers == <<answer, blame>>
client == <<cpc, tickets, result>>
vars == <<requests, wpc, after, batch, durable, answers, bridge, terminal, client>>

Submittable == {q \in Requests : answer[q] = "unsent"}
Receiving == wpc \notin {"fail_event", "fail_signal", "down", "stopped"}

-----------------------------------------------------------------------------
Init ==
  /\ queue = <<>> /\ handle = "open"
  /\ wpc = "start" /\ after = "loop"
  /\ held = None /\ pending = <<>> /\ expired = FALSE
  /\ batches = 0 /\ committed = {}
  /\ answer = [q \in Requests |-> "unsent"]
  /\ blame = [q \in Requests |-> None]
  /\ bridge = 1                          \* Started
  /\ terminal = "empty"
  /\ cpc = "top" /\ tickets = {} /\ result = "none"

-----------------------------------------------------------------------------
(* The coordinator. *)

(* Variant: the bridge is not drained while the import runs. *)
TopUndrained ==
  /\ cpc = "top"
  /\ IF terminal = "full"
       THEN /\ terminal' = "empty" /\ cpc' = "hang_up" /\ result' = "error"
       ELSE cpc' = "run" /\ UNCHANGED <<terminal, result>>
  /\ UNCHANGED <<requests, wpc, after, batch, durable, answers, bridge, tickets>>

(* The head of every iteration: the bridge is drained, then the terminal    *)
(* slot is looked at.                                                       *)
Top ==
  /\ cpc = "top"
  /\ bridge' = 0
  /\ IF terminal = "full"
       THEN /\ terminal' = "empty" /\ cpc' = "hang_up" /\ result' = "error"
       ELSE cpc' = "run" /\ UNCHANGED <<terminal, result>>
  /\ UNCHANGED <<requests, wpc, after, batch, durable, answers, tickets>>

Submit(q) ==
  /\ cpc = "run"
  /\ q \in Submittable
  /\ IF Receiving
       THEN /\ Len(queue) < ChannelCapacity
            /\ queue' = Append(queue, q)
            /\ answer' = [answer EXCEPT ![q] = "waiting"]
            /\ tickets' = tickets \cup {q}
            /\ cpc' = "limit"
            /\ UNCHANGED result
       ELSE /\ cpc' = "hang_up" /\ result' = "error"
            /\ UNCHANGED <<queue, answer, tickets>>
  /\ UNCHANGED <<handle, wpc, after, batch, durable, blame, bridge, terminal>>

(* A wait for source work ends with the writer's terminal message, or       *)
(* anything else fails.                                                     *)
SeeTerminal ==
  /\ cpc = "run" /\ terminal = "full"
  /\ terminal' = "empty" /\ cpc' = "hang_up" /\ result' = "error"
  /\ UNCHANGED <<requests, wpc, after, batch, durable, answers, bridge, tickets>>

Fail ==
  /\ cpc = "run"
  /\ cpc' = "hang_up" /\ result' = "error"
  /\ UNCHANGED <<requests, wpc, after, batch, durable, answers, bridge, terminal,
                 tickets>>

Complete ==
  /\ cpc = "run" /\ Submittable = {}
  /\ cpc' = "final"
  /\ UNCHANGED <<requests, wpc, after, batch, durable, answers, bridge, terminal,
                 tickets, result>>

(* Blocks on the ticket with the lowest sequence number. *)
Resolve(next) ==
  LET q == Min(tickets) IN
  /\ answer[q] # "waiting"
  /\ tickets' = tickets \ {q}
  /\ IF answer[q] = "ok" THEN cpc' = next /\ UNCHANGED result
                         ELSE cpc' = "hang_up" /\ result' = "error"

(* Variant: tickets are not limited. *)
DrainNothing ==
  /\ cpc = "limit"
  /\ cpc' = "top"
  /\ UNCHANGED <<requests, wpc, after, batch, durable, answers, bridge, terminal,
                 tickets, result>>

(* At the limit the coordinator resolves tickets without draining events. *)
DrainOutcomesToLimit ==
  /\ cpc = "limit"
  /\ \/ /\ Cardinality(tickets) < MaxBatch
        /\ cpc' = "top" /\ UNCHANGED <<tickets, result>>
     \/ Cardinality(tickets) >= MaxBatch /\ Resolve("limit")
  /\ UNCHANGED <<requests, wpc, after, batch, durable, answers, bridge, terminal>>

FinalDrain ==
  /\ cpc = "final"
  /\ bridge' = 0
  /\ IF tickets = {} THEN cpc' = "hang_up" /\ result' = "ok"
                     ELSE cpc' = "final_wait" /\ UNCHANGED result
  /\ UNCHANGED <<requests, wpc, after, batch, durable, answers, terminal, tickets>>

FinalResolve ==
  /\ cpc = "final_wait"
  /\ Resolve("final")
  /\ UNCHANGED <<requests, wpc, after, batch, durable, answers, bridge, terminal>>

(* finish() drops the sender and joins the thread. *)
HangUp ==
  /\ cpc = "hang_up"
  /\ handle' = "closed"
  /\ cpc' = "join"
  /\ UNCHANGED <<queue, wpc, after, batch, durable, answers, bridge, terminal,
                 tickets, result>>

(* Variant: the writer's own result is ignored. *)
JoinIgnoringError ==
  /\ cpc = "join" /\ wpc \in {"down", "stopped"}
  /\ cpc' = "done"
  /\ UNCHANGED <<requests, wpc, after, batch, durable, answers, bridge, terminal,
                 tickets, result>>

Join ==
  /\ cpc = "join" /\ wpc \in {"down", "stopped"}
  /\ cpc' = "done"
  /\ result' = IF wpc = "down" THEN "error" ELSE result
  /\ UNCHANGED <<requests, wpc, after, batch, durable, answers, bridge, terminal,
                 tickets>>

-----------------------------------------------------------------------------
(* The writer. *)

(* Sends n events in a row; blocks while the bridge is full. *)
Emit(n) == bridge + n <= BridgeCapacity /\ bridge' = bridge + n

Drop(S) ==
  answer' = [q \in Requests |-> IF q \in S THEN "dropped" ELSE answer[q]]

Ready ==
  /\ wpc = "start"
  /\ Emit(1)
  /\ wpc' = "loop"
  /\ UNCHANGED <<requests, after, batch, durable, answers, terminal, client>>

(* The open batch's time runs out, at any moment. *)
Deadline ==
  /\ pending # <<>> /\ wpc \in {"loop", "admit"} /\ ~expired
  /\ expired' = TRUE
  /\ UNCHANGED <<requests, wpc, after, held, pending, durable, answers, bridge,
                 terminal, client>>

(* Variant: only a full batch is flushed. *)
FlushFullOnly ==
  /\ wpc = "loop" /\ Len(pending) >= MaxBatch /\ expired
  /\ wpc' = "flush" /\ after' = "loop"
  /\ UNCHANGED <<requests, batch, durable, answers, bridge, terminal, client>>

(* The deadline is checked before the next receive, or the receive times    *)
(* out.                                                                     *)
FlushExpired ==
  /\ wpc = "loop" /\ pending # <<>> /\ expired
  /\ wpc' = "flush" /\ after' = "loop"
  /\ UNCHANGED <<requests, batch, durable, answers, bridge, terminal, client>>

Receive ==
  /\ wpc = "loop" /\ ~expired
  /\ queue # <<>>
  /\ held' = Head(queue)
  /\ queue' = Tail(queue)
  /\ wpc' = "admit"
  /\ UNCHANGED <<handle, after, pending, expired, durable, answers, bridge,
                 terminal, client>>

(* A request received as the deadline passes starts the next batch. *)
Admit ==
  /\ wpc = "admit"
  /\ IF expired
       THEN wpc' = "flush" /\ after' = "admit" /\ UNCHANGED <<held, pending>>
       ELSE /\ pending' = Append(pending, held)
            /\ held' = None
            /\ after' = "loop"
            /\ wpc' = IF Len(pending) + 1 >= MaxBatch THEN "flush" ELSE "loop"
  /\ UNCHANGED <<requests, expired, durable, answers, bridge, terminal, client>>

(* Variant: the batch is answered before it is committed. *)
FlushAnswerFirst ==
  /\ wpc = "flush"
  /\ Emit(1)
  /\ answer' = [q \in Requests |-> IF q \in Range(pending) THEN "ok" ELSE answer[q]]
  /\ batches' = batches + 1
  /\ wpc' = "respond"
  /\ UNCHANGED <<requests, after, batch, committed, blame, terminal, client>>

FlushCommit ==
  /\ wpc = "flush"
  /\ Emit(1)                                       \* BatchOpened
  /\ committed' = committed \cup Range(pending)
  /\ batches' = batches + 1
  /\ wpc' = "respond"
  /\ UNCHANGED <<requests, after, batch, answers, terminal, client>>

(* The transaction cannot be opened: the batch and a request waiting behind *)
(* it are dropped with their response channels.                             *)
FlushBeginFail ==
  /\ wpc = "flush"
  /\ Emit(2)                                       \* BatchOpened, RolledBack
  /\ Drop(Range(pending) \cup {held})
  /\ pending' = <<>> /\ held' = None /\ expired' = FALSE
  /\ wpc' = "reject"
  /\ UNCHANGED <<requests, after, durable, blame, terminal, client>>

(* The transaction rolls back and every peer is told which record failed. *)
RollbackNaming(name) ==
  /\ wpc = "flush"
  /\ Emit(2)                                       \* BatchOpened, RolledBack
  /\ answer' = [q \in Requests |->
                  CASE q \in Range(pending) -> "error"
                    [] q = held -> "dropped"
                    [] OTHER -> answer[q]]
  /\ blame' = [q \in Requests |-> IF q \in Range(pending) THEN name ELSE blame[q]]
  /\ pending' = <<>> /\ held' = None /\ expired' = FALSE
  /\ wpc' = "reject"
  /\ UNCHANGED <<requests, after, durable, terminal, client>>

(* Variant: the position in the batch stands for the sequence number. *)
FlushRollbackPosition(i) == RollbackNaming(i)

(* Record i fails, or the commit does, which counts as its first record's.  *)
FlushRollback(i) == RollbackNaming(pending[i])

Respond ==
  /\ wpc = "respond" /\ pending # <<>>
  /\ Emit(1)                                       \* RecordCommitted
  /\ answer' = [answer EXCEPT ![Head(pending)] = "ok"]
  /\ pending' = Tail(pending)
  /\ UNCHANGED <<requests, wpc, after, held, expired, durable, blame, terminal, client>>

FlushEnd ==
  /\ wpc = "respond" /\ pending = <<>>
  /\ Emit(1)                                       \* BatchCommitted
  /\ expired' = FALSE
  /\ wpc' = IF batches % CheckpointEvery = 0 THEN "checkpoint" ELSE after
  /\ UNCHANGED <<requests, after, held, pending, durable, answers, terminal, client>>

Checkpoint ==
  /\ wpc = "checkpoint"
  /\ Emit(2)                                       \* CheckpointRequested, Completed
  /\ wpc' = after
  /\ UNCHANGED <<requests, after, batch, durable, answers, terminal, client>>

(* The batch stays committed, a request waiting behind it is dropped. *)
CheckpointFail ==
  /\ wpc = "checkpoint"
  /\ Emit(1)                                       \* CheckpointRequested
  /\ Drop({held})
  /\ held' = None
  /\ wpc' = "reject"
  /\ UNCHANGED <<requests, after, pending, expired, durable, blame, terminal, client>>

(* The sender is gone and the channel is empty: a last batch, a last        *)
(* checkpoint, and the writer returns.                                      *)
Disconnected ==
  /\ wpc = "loop" /\ ~expired
  /\ queue = <<>> /\ handle = "closed"
  /\ wpc' = IF pending = <<>> THEN "last_checkpoint" ELSE "flush"
  /\ after' = IF pending = <<>> THEN after ELSE "flushed"
  /\ UNCHANGED <<requests, batch, durable, answers, bridge, terminal, client>>

ShutdownFlushed ==
  /\ wpc = "flushed"
  /\ Emit(1)                                       \* ShutdownFlush
  /\ wpc' = "last_checkpoint"
  /\ UNCHANGED <<requests, after, batch, durable, answers, terminal, client>>

Stop ==
  /\ wpc = "last_checkpoint"
  /\ Emit(3)                                       \* both checkpoint events, Stopped
  /\ wpc' = "stopped"
  /\ UNCHANGED <<requests, after, batch, durable, answers, terminal, client>>

StopFail ==
  /\ wpc = "last_checkpoint"
  /\ Emit(1)                                       \* CheckpointRequested
  /\ wpc' = "reject"
  /\ UNCHANGED <<requests, after, batch, durable, answers, terminal, client>>

(* A panic unwinds past the batch and the channel. *)
Panic ==
  /\ wpc \in {"loop", "admit"}
  /\ Drop(Range(queue) \cup Range(pending) \cup {held})
  /\ queue' = <<>> /\ pending' = <<>> /\ held' = None /\ expired' = FALSE
  /\ wpc' = "fail_event"
  /\ UNCHANGED <<handle, after, durable, blame, bridge, terminal, client>>

(* After an error, what is queued is rejected one request at a time.        *)
Reject ==
  /\ wpc = "reject" /\ queue # <<>>
  /\ answer' = [answer EXCEPT ![Head(queue)] = "error"]
  /\ blame' = [blame EXCEPT ![Head(queue)] = Head(queue)]
  /\ queue' = Tail(queue)
  /\ UNCHANGED <<handle, wpc, after, batch, durable, bridge, terminal, client>>

RejectEnd ==
  /\ wpc = "reject" /\ queue = <<>>
  /\ wpc' = "close"
  /\ UNCHANGED <<requests, after, batch, durable, answers, bridge, terminal, client>>

(* Variant: the channel is left open, with what was sent last in it. *)
CloseReceiverLate ==
  /\ wpc = "close"
  /\ wpc' = "fail_event"
  /\ UNCHANGED <<requests, after, batch, durable, answers, bridge, terminal, client>>

(* The receiver goes, and with it what was sent after the last look.        *)
CloseReceiver ==
  /\ wpc = "close"
  /\ Drop(Range(queue))
  /\ queue' = <<>>
  /\ wpc' = "fail_event"
  /\ UNCHANGED <<handle, after, batch, durable, blame, bridge, terminal, client>>

EmitFailed ==
  /\ wpc = "fail_event"
  /\ Emit(1)                                       \* Failed
  /\ wpc' = "fail_signal"
  /\ UNCHANGED <<requests, after, batch, durable, answers, terminal, client>>

SignalTerminal ==
  /\ wpc = "fail_signal"
  /\ terminal' = "full"
  /\ wpc' = "down"
  /\ UNCHANGED <<requests, after, batch, durable, answers, bridge, client>>

-----------------------------------------------------------------------------
Coordinator ==
  \/ Top \/ SeeTerminal \/ Complete \/ DrainOutcomesToLimit
  \/ FinalDrain \/ FinalResolve \/ HangUp \/ Join
  \/ \E q \in Requests : Submit(q)

Writer ==
  \/ Ready \/ FlushExpired \/ Receive \/ Admit
  \/ FlushCommit \/ Respond \/ FlushEnd \/ Checkpoint
  \/ Disconnected \/ ShutdownFlushed \/ Stop
  \/ Reject \/ RejectEnd \/ CloseReceiver \/ EmitFailed \/ SignalTerminal

Failures ==
  \/ Fail \/ FlushBeginFail \/ CheckpointFail \/ StopFail \/ Panic
  \/ \E i \in DOMAIN pending : FlushRollback(i)

(* The import is over. *)
Over == cpc = "done" /\ UNCHANGED vars

Next == Coordinator \/ Writer \/ Failures \/ Deadline \/ Over

(* The threads run and time passes; nothing has to fail. *)
Fairness == WF_vars(Coordinator) /\ WF_vars(Writer) /\ WF_vars(Deadline)

Spec == Init /\ [][Next]_vars /\ Fairness

-----------------------------------------------------------------------------
WriterPc ==
  {"start", "loop", "admit", "flush", "respond", "checkpoint", "flushed",
   "last_checkpoint", "stopped", "reject", "close", "fail_event", "fail_signal", "down"}
ClientPc ==
  {"top", "run", "limit", "final", "final_wait", "hang_up", "join", "done"}

(* The writer and its coordinator stay within the shape the code gives      *)
(* their channels, batch, tickets and answers.                              *)
TypeOK ==
  /\ queue \in Seq(Requests) /\ handle \in {"open", "closed"}
  /\ wpc \in WriterPc /\ after \in {"loop", "admit", "flushed"}
  /\ held \in Requests \cup {None} /\ pending \in Seq(Requests)
  /\ expired \in BOOLEAN
  /\ batches \in Nat /\ committed \in SUBSET Requests
  /\ answer \in [Requests -> {"unsent", "waiting", "ok", "error", "dropped"}]
  /\ blame \in [Requests -> Requests \cup {None}]
  /\ bridge \in 0 .. BridgeCapacity
  /\ terminal \in {"empty", "full"}
  /\ cpc \in ClientPc /\ tickets \in SUBSET Requests
  /\ result \in {"none", "ok", "error"}

(* An answer is the truth about the catalog: a ticket resolves to success   *)
(* only after its batch is committed, and never to a failure, or to a       *)
(* closed response channel, when it was.                                    *)
AnswersAreTrue ==
  \A q \in Requests :
    /\ answer[q] = "ok" => q \in committed
    /\ answer[q] \in {"error", "dropped"} => q \notin committed

(* An import that returns success has every submitted record committed,     *)
(* and its writer stopped without an error.                                 *)
SuccessIsComplete ==
  cpc = "done" /\ result = "ok" => committed = Requests /\ wpc = "stopped"

(* The failing sequence number a ticket's error names is that ticket's own  *)
(* or that of a ticket the coordinator still holds, so that the path lookup *)
(* of resolve_ticket finds the failing source and never falls back to the   *)
(* one that happened to be awaited.                                         *)
BlameResolvable ==
  cpc \in {"limit", "final_wait"} =>
    \A q \in tickets : answer[q] = "error" => blame[q] \in tickets

(* The coordinator never blocks in a send: the ticket limit keeps the       *)
(* request channel from filling.                                            *)
ChannelHasRoom == Len(queue) < ChannelCapacity

(* The writer never waits for the coordinator to drain the bridge, not even *)
(* while the coordinator waits for the writer.                              *)
BridgeHasRoom == bridge + 3 <= BridgeCapacity

(* Every request that was sent is answered, whatever fails. *)
EveryTicketAnswered ==
  \A q \in Requests : answer[q] = "waiting" ~> answer[q] # "waiting"

(* The import always comes to an end: no failure of the writer, and no      *)
(* order of hang-up, rejection and signal, leaves the coordinator waiting.  *)
ImportEnds == <>(cpc = "done")
=============================================================================
