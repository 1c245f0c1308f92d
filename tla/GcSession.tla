------------------------------- MODULE GcSession -------------------------------
(***************************************************************************)
(* One real (not dry) garbage collection as a conversation between the     *)
(* command (collect_real, apply_plan) and the catalog writer thread that   *)
(* owns the SQLite connection.  The command sends one request at a time    *)
(* and waits for its answer; the writer keeps its own idea of whether a    *)
(* session is active, and SQLite its own idea of whether a transaction is  *)
(* open.  Statements fail, commits fail, SQLite rolls back by itself, the  *)
(* writer panics, the renderer dies, the command gives up half way.        *)
(*                                                                         *)
(* The plan is a sequence of steps in the order apply_plan takes them:     *)
(* marks, resurrections, then sweeps of present and of absent blobs.  A    *)
(* step is named by its position.  What the steps do to rows and files is  *)
(* MediaStore's business.                                                  *)
(***************************************************************************)
EXTENDS Naturals, Sequences, FiniteSets

CONSTANT Plans  \* plans a preflight may come to

ASSUME PlansAssumption ==
  Plans \subseteq Seq({"mark", "resurrect", "present", "absent"}) /\ Plans # {}

VARIABLES
  plan,       \* what the preflight will find to do
  cpc,        \* where the command is
  step,       \* the plan's step in hand
  done,       \* staged_actions
  mutated,    \* sweep_mutations_started
  unlinked,   \* blobs whose file this collection removed
  will,       \* what the command is going to return
  reported,   \* whether a report has been constructed
  claimed,    \* report.actions
  result,     \* what the command returned
  broken,     \* whether the renderer has failed
  request,    \* the request on its way, or "none"
  reply,      \* its answer: "none", "ok" or "error"
  handle,     \* whether the command still holds the writer's sender
  wpc,        \* where the writer is: "run", "failed" or "finished"
  active,     \* gc_active
  tx,         \* whether SQLite has a transaction open
  staged,     \* steps written in the open transaction
  committed   \* steps whose effect is in the committed catalog

client == <<plan, cpc, step, done, mutated, unlinked, will, reported, claimed, result>>
channel == <<request, reply, handle>>
writer == <<wpc, active, tx, staged, committed>>
vars == <<client, broken, channel, writer>>

All == DOMAIN plan

Init ==
  /\ plan \in Plans
  /\ cpc = "spawn" /\ step = 1 /\ done = {} /\ mutated = FALSE /\ unlinked = {}
  /\ will = "none" /\ reported = FALSE /\ claimed = {} /\ result = "none"
  /\ broken = FALSE
  /\ request = "none" /\ reply = "none" /\ handle = TRUE
  /\ wpc = "run" /\ active = FALSE /\ tx = FALSE /\ staged = {} /\ committed = {}

-----------------------------------------------------------------------------
(* The channel, as the command sees it.                                    *)

(* request() sends and waits; a send to a writer that is gone fails at     *)
(* once, which the command cannot tell from an error answer.               *)
Ask(r, wait) ==
  /\ cpc' = wait
  /\ IF wpc = "run" THEN request' = r /\ reply' = "none"
                    ELSE request' = "none" /\ reply' = "error"
  /\ UNCHANGED <<handle, writer>>

Answered(ok) == reply = (IF ok THEN "ok" ELSE "error")
Taken == request' = "none" /\ reply' = "none" /\ UNCHANGED <<handle, writer>>
Quiet == UNCHANGED <<channel, writer>>
Leave(w) == will' = w /\ cpc' = "finish"

-----------------------------------------------------------------------------
(* The command: collect_real. *)

(* spawn_existing_for_gc starts the writer or returns its error. *)
Spawn ==
  /\ cpc = "spawn"
  /\ \/ cpc' = "begin" /\ UNCHANGED <<will, result, channel, writer>>
     \/ /\ cpc' = "done" /\ will' = "error" /\ result' = "error"
        /\ handle' = FALSE /\ wpc' = "failed"
        /\ UNCHANGED <<request, reply, active, tx, staged, committed>>
  /\ UNCHANGED <<plan, step, done, mutated, unlinked, reported, claimed, broken>>

Begin ==
  /\ cpc = "begin" /\ Ask("begin", "begin_wait")
  /\ UNCHANGED <<plan, step, done, mutated, unlinked, will, reported, claimed, result, broken>>

Begun ==
  /\ cpc = "begin_wait" /\ reply # "none" /\ Taken
  /\ IF Answered(TRUE) THEN cpc' = "preflight" /\ UNCHANGED will ELSE Leave("error")
  /\ UNCHANGED <<plan, step, done, mutated, unlinked, reported, claimed, result, broken>>

(* run_preflight fails, blocks the collection or lets it go on; planning   *)
(* the actions may fail in apply_plan before anything is staged, and then  *)
(* the session is dropped as it is.                                        *)
Preflight ==
  /\ cpc = "preflight"
  /\ \/ cpc' = "apply" /\ UNCHANGED will /\ Quiet
     \/ will' \in {"error", "blocked"} /\ Ask("rollback", "rollback_wait")
     \/ Leave("error") /\ Quiet
  /\ UNCHANGED <<plan, step, done, mutated, unlinked, reported, claimed, result, broken>>

-----------------------------------------------------------------------------
(* The command: apply_plan. *)

Kind == plan[step]

(* Variant: what is staged is committed whatever the store went through. *)
AbortCommitting ==
  /\ will' = "incomplete"
  /\ Ask("partial", "commit_wait")

(* abort_apply: commit what is staged if a sweep has touched the store,    *)
(* roll back otherwise.                                                    *)
Abort ==
  /\ will' = "incomplete"
  /\ IF mutated THEN Ask("partial", "commit_wait") ELSE Ask("rollback", "rollback_wait")

(* Every check before a step's change: the renderer, the counters, the     *)
(* blob's identity, an unlink that fails, the sync of an absent blob.      *)
StepFails ==
  /\ cpc = "apply" /\ step \in All
  /\ Abort
  /\ UNCHANGED <<plan, step, done, mutated, unlinked, reported, claimed, result, broken>>

Stage ==
  /\ cpc = "apply" /\ step \in All /\ Kind # "present" /\ ~broken
  /\ Ask("stage", "stage_wait")
  /\ UNCHANGED <<plan, step, done, mutated, unlinked, will, reported, claimed, result, broken>>

Unlink ==
  /\ cpc = "apply" /\ step \in All /\ Kind = "present" /\ ~broken
  /\ unlinked' = unlinked \cup {step} /\ mutated' = TRUE /\ cpc' = "sync"
  /\ Quiet
  /\ UNCHANGED <<plan, step, done, will, reported, claimed, result, broken>>

(* sync_present_parent: an error commits what was staged before this blob. *)
Sync ==
  /\ cpc = "sync"
  /\ \/ Ask("stage", "stage_wait") /\ UNCHANGED will
     \/ will' = "incomplete" /\ Ask("partial", "commit_wait")
  /\ UNCHANGED <<plan, step, done, mutated, unlinked, reported, claimed, result, broken>>

Staged ==
  /\ cpc = "stage_wait" /\ reply # "none"
  /\ IF Answered(TRUE)
       THEN /\ Taken
            /\ done' = done \cup {step} /\ step' = step + 1 /\ cpc' = "apply"
            /\ mutated' = (mutated \/ Kind \in {"present", "absent"})
            /\ UNCHANGED will
       ELSE Abort /\ UNCHANGED <<step, done, mutated>>
  /\ UNCHANGED <<plan, unlinked, reported, claimed, result, broken>>

Commit ==
  /\ cpc = "apply" /\ step \notin All
  /\ will' = "complete" /\ Ask("commit", "commit_wait")
  /\ UNCHANGED <<plan, step, done, mutated, unlinked, reported, claimed, result, broken>>

(* commit_inner: a commit that is not confirmed is followed by a rollback; *)
(* a confirmed one makes the staged actions the report's actions, and a    *)
(* renderer that died meanwhile takes a complete report with it.           *)
Committed ==
  /\ cpc = "commit_wait" /\ reply # "none"
  /\ IF Answered(TRUE)
       THEN /\ Taken /\ claimed' = done
            /\ cpc' = "finish"
            /\ IF will = "complete" /\ broken
                 THEN will' = "error" /\ UNCHANGED reported
                 ELSE reported' = TRUE /\ UNCHANGED will
       ELSE Ask("rollback", "undo_wait") /\ UNCHANGED <<claimed, will, reported>>
  /\ UNCHANGED <<plan, step, done, mutated, unlinked, result, broken>>

(* Variant: the report lists what was staged although nothing says that it *)
(* was committed.                                                          *)
UndoneClaiming ==
  /\ cpc = "undo_wait" /\ reply # "none" /\ Taken
  /\ Leave("incomplete") /\ reported' = TRUE /\ claimed' = done
  /\ UNCHANGED <<plan, step, done, mutated, unlinked, result, broken>>

(* Variant: a rollback that fails is tried again. *)
UndoneRetrying ==
  /\ cpc = "undo_wait" /\ reply # "none"
  /\ IF Answered(TRUE)
       THEN Taken /\ Leave("incomplete") /\ reported' = TRUE
       ELSE Ask("rollback", "undo_wait") /\ UNCHANGED <<will, reported>>
  /\ UNCHANGED <<plan, step, done, mutated, unlinked, claimed, result, broken>>

Undone ==
  /\ cpc = "undo_wait" /\ reply # "none" /\ Taken
  /\ Leave("incomplete") /\ reported' = TRUE
  /\ UNCHANGED <<plan, step, done, mutated, unlinked, claimed, result, broken>>

(* A rollback that fails turns a blocked or an incomplete outcome into an  *)
(* error.                                                                  *)
RolledBack ==
  /\ cpc = "rollback_wait" /\ reply # "none" /\ Taken
  /\ cpc' = "finish"
  /\ IF Answered(TRUE)
       THEN will' = will /\ reported' = (will # "error")
       ELSE will' = "error" /\ UNCHANGED reported
  /\ UNCHANGED <<plan, step, done, mutated, unlinked, claimed, result, broken>>

(* finish: hang up. *)
HangUp ==
  /\ cpc = "finish" /\ cpc' = "join" /\ handle' = FALSE
  /\ UNCHANGED <<plan, step, done, mutated, unlinked, will, reported, claimed, result, broken,
                 request, reply, writer>>

(* Join the writer: its error wins over every outcome, and so does a       *)
(* renderer that has died.                                                 *)
Join ==
  /\ cpc = "join" /\ wpc # "run" /\ cpc' = "done"
  /\ result' = IF wpc = "finished" /\ ~broken THEN will ELSE "error"
  /\ Quiet
  /\ UNCHANGED <<plan, step, done, mutated, unlinked, will, reported, claimed, broken>>

-----------------------------------------------------------------------------
(* The writer thread. *)

Reply(ok) == request' = "none" /\ reply' = (IF ok THEN "ok" ELSE "error") /\ UNCHANGED handle

(* The connection goes with the thread: SQLite rolls back. *)
Stop(how) == wpc' = how /\ tx' = FALSE /\ staged' = {}

(* GcBegin: BEGIN IMMEDIATE fails; or the schema check or the inspection   *)
(* fails, and then the transaction is rolled back, which may fail as well; *)
(* or the session is open.                                                 *)
DoBegin ==
  /\ wpc = "run" /\ request = "begin" /\ ~active
  /\ \/ Reply(TRUE) /\ active' = TRUE /\ tx' = TRUE
     \/ Reply(FALSE) /\ tx' \in BOOLEAN /\ UNCHANGED active
  /\ UNCHANGED <<client, broken, wpc, staged, committed>>

(* One statement of stage_gc_mark, stage_gc_resurrect or stage_gc_sweep.   *)
(* Outside a transaction SQLite commits it at once.                        *)
Execute == IF tx THEN staged' = staged \cup {step} /\ UNCHANGED committed
                 ELSE committed' = committed \cup {step} /\ UNCHANGED staged

(* A failing statement may take the whole transaction with it. *)
StatementFails == \/ UNCHANGED <<tx, staged>>
                  \/ tx' = FALSE /\ staged' = {}

DoStage ==
  /\ wpc = "run" /\ request = "stage"
  /\ IF active
       THEN \/ Execute /\ Reply(TRUE) /\ UNCHANGED tx
            \/ StatementFails /\ Reply(FALSE) /\ UNCHANGED committed
       ELSE Reply(FALSE) /\ UNCHANGED <<tx, staged, committed>>
  /\ UNCHANGED <<client, broken, wpc, active>>

(* GcFinish with commit.  The checkpoint that every eighth session of a    *)
(* writer brings is left out: a collection's writer has one session.       *)
DoCommit ==
  /\ wpc = "run" /\ request \in {"commit", "partial"}
  /\ IF active
       THEN \/ /\ tx /\ tx' = FALSE /\ staged' = {} /\ committed' = committed \cup staged
               /\ active' = FALSE /\ Reply(TRUE)
            \/ StatementFails /\ Reply(FALSE) /\ UNCHANGED <<active, committed>>
       ELSE Reply(FALSE) /\ UNCHANGED <<active, tx, staged, committed>>
  /\ UNCHANGED <<client, broken, wpc>>

(* GcFinish without commit: ROLLBACK fails when no transaction is open,    *)
(* and the session stays active.                                           *)
DoRollback ==
  /\ wpc = "run" /\ request = "rollback"
  /\ IF active
       THEN \/ /\ tx /\ tx' = FALSE /\ staged' = {} /\ active' = FALSE /\ Reply(TRUE)
            \/ StatementFails /\ Reply(FALSE) /\ UNCHANGED active
       ELSE Reply(FALSE) /\ UNCHANGED <<tx, staged, active>>
  /\ UNCHANGED <<client, broken, wpc, committed>>

(* The command hung up: an active session is rolled back and is an error;  *)
(* otherwise the shutdown checkpoint, which cannot run inside a            *)
(* transaction.                                                            *)
DoShutdown ==
  /\ wpc = "run" /\ request = "none" /\ ~handle
  /\ \/ ~active /\ ~tx /\ Stop("finished")
     \/ Stop("failed")
  /\ UNCHANGED <<client, broken, channel, active, committed>>

(* The thread panics between two requests: what is queued is dropped, and  *)
(* the command's receive fails.                                            *)
WriterPanics ==
  /\ wpc = "run" /\ cpc # "spawn"
  /\ Stop("failed")
  /\ request' = "none" /\ reply' = IF request = "none" THEN reply ELSE "error"
  /\ UNCHANGED <<client, broken, handle, active, committed>>

(* The renderer dies; the command sees it at its next check. *)
RendererBreaks ==
  /\ ~broken /\ cpc # "done" /\ broken' = TRUE
  /\ UNCHANGED <<client, channel, writer>>

-----------------------------------------------------------------------------
Command ==
  \/ Spawn \/ Begin \/ Begun \/ Preflight
  \/ StepFails \/ Stage \/ Unlink \/ Sync \/ Staged
  \/ Commit \/ Committed \/ Undone \/ RolledBack
  \/ HangUp \/ Join

WriterThread == DoBegin \/ DoStage \/ DoCommit \/ DoRollback \/ DoShutdown

Done == cpc = "done" /\ UNCHANGED vars

Next == Command \/ WriterThread \/ WriterPanics \/ RendererBreaks \/ Done

Spec == Init /\ [][Next]_vars /\ WF_vars(Command) /\ WF_vars(WriterThread)

-----------------------------------------------------------------------------
(* Properties. *)

(* The types of the conversation. *)
TypeOK ==
  /\ step \in Nat /\ done \subseteq All /\ mutated \in BOOLEAN /\ unlinked \subseteq All
  /\ will \in {"none", "complete", "incomplete", "blocked", "error"}
  /\ result \in {"none", "complete", "incomplete", "blocked", "error"}
  /\ reported \in BOOLEAN /\ claimed \subseteq All /\ broken \in BOOLEAN
  /\ request \in {"none", "begin", "stage", "commit", "partial", "rollback"}
  /\ reply \in {"none", "ok", "error"} /\ handle \in BOOLEAN
  /\ wpc \in {"run", "failed", "finished"} /\ active \in BOOLEAN /\ tx \in BOOLEAN
  /\ staged \subseteq All /\ committed \subseteq All

(* What the command tells its user is what the catalog holds: a report's   *)
(* actions are the committed ones, a complete collection has done its      *)
(* whole plan, an incomplete or blocked one hides nothing, and no session  *)
(* that could still change the catalog is left behind.                     *)
ReportIsTrue ==
  /\ result \in {"complete", "incomplete", "blocked"} =>
       claimed = committed /\ ~active /\ ~tx
  /\ result = "complete" => committed = All
  /\ result = "blocked" => committed = {}

(* "Until the first sweep mutation, M4 requires GC to leave no durable     *)
(* catalog actions behind": a collection that stopped half way has         *)
(* committed something only if a sweep had touched the store.              *)
AllOrNothingBeforeSweep == committed \notin {{}, All} => mutated

(* The collection ends: every request is answered or its failure noticed.  *)
CollectionEnds == <>(cpc = "done")

(* "Every completed command with a constructed report ends with            *)
(* command_summary": with a healthy renderer a collection that has made    *)
(* its report returns it.  Not an invariant: a writer that fails in its    *)
(* shutdown, after the commit, discards the report.                        *)
EveryReportReturned == result = "error" /\ ~broken => ~reported
================================================================================
