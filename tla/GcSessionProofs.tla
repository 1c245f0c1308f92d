---------------------------- MODULE GcSessionProofs ----------------------------
(***************************************************************************)
(* Proofs about GcSession, for any plans.  The inductive invariant says,   *)
(* for every point of the conversation, what the writer can have open and  *)
(* what can be committed: Conversation (whose turn it is), Progress (the   *)
(* steps done are the plan's first ones), Transaction (what is staged) and *)
(* Outcome (what is committed, claimed and about to be returned).          *)
(***************************************************************************)
EXTENDS GcSession, TLAPS

(* A request has one sender that waits for it, and its answer one receiver. *)
Waits == {"begin_wait", "stage_wait", "commit_wait", "undo_wait", "rollback_wait"}
Opening == {"spawn", "begin", "begin_wait", "preflight"}
Applying == {"apply", "sync", "stage_wait"}
Closing == {"finish", "join", "done"}

Conversation ==
  /\ cpc \in Opening \cup Applying \cup Waits \cup Closing
  /\ request # "none" => reply = "none" /\ wpc = "run" /\ handle
  /\ reply # "none" => cpc \in Waits
  /\ request = "begin" => cpc = "begin_wait"
  /\ request = "stage" => cpc = "stage_wait"
  /\ request \in {"commit", "partial"} => cpc = "commit_wait"
  /\ request = "rollback" => cpc \in {"undo_wait", "rollback_wait"}
  /\ ~handle => cpc \in {"join", "done"}
  /\ wpc = "finished" => ~handle /\ ~active /\ ~tx

(* The steps done are the plan's first ones; the plan is worked through     *)
(* only from "apply" on.                                                    *)
Progress ==
  /\ plan \in Plans
  /\ step \in 1 .. Len(plan) + 1
  /\ done = 1 .. step - 1
  /\ cpc \in Opening => step = 1 /\ done = {}
  /\ cpc \in {"sync", "stage_wait"} => step \in All
  /\ cpc = "sync" => mutated

(* The open transaction holds the steps done, while the writer lives, until *)
(* a statement fails; from then on it holds them or nothing is open.        *)
Transaction ==
  /\ ~tx => staged = {}
  /\ cpc \in {"spawn", "begin"} => ~active
  /\ wpc = "run" /\ cpc \in {"preflight", "apply", "sync"} => active /\ tx
  /\ request = "stage" => active /\ tx
  /\ wpc = "run" /\ cpc \in {"begin_wait", "stage_wait"} /\ reply = "ok" => active /\ tx
  /\ tx /\ cpc \in Opening \cup Applying \cup {"commit_wait"} =>
       staged = IF cpc = "stage_wait" /\ reply = "ok" THEN done \cup {step} ELSE done

(* Nothing is committed before the answer to the commit, all that is done   *)
(* is committed with it, and what will be returned agrees with that.        *)
Outcome ==
  /\ cpc \in Opening \cup Applying \cup {"undo_wait", "rollback_wait"} => committed = {}
  /\ cpc = "commit_wait" => committed = IF reply = "ok" THEN done ELSE {}
  /\ committed \in {{}, done}
  /\ committed # {} => done = All \/ mutated
  /\ claimed = IF cpc \in Closing THEN committed ELSE {}
  /\ cpc = "commit_wait" => \/ will = "complete" /\ done = All
                            \/ will = "incomplete" /\ mutated
  /\ cpc = "rollback_wait" => will # "complete"
  /\ cpc \in Closing /\ will = "complete" => committed = All
  /\ will = "blocked" => cpc \in {"rollback_wait"} \cup Closing /\ committed = {}
  /\ result # "none" => cpc = "done"
  /\ result \notin {"none", "error"} => wpc = "finished" /\ result = will

SessionInv == TypeOK /\ Conversation /\ Progress /\ Transaction /\ Outcome

(* A collection that has not started satisfies the invariant.               *)
LEMMA SessionInit == Init => SessionInv
<1> SUFFICES ASSUME Init PROVE SessionInv
  OBVIOUS
<1>1. plan \in Seq({"mark", "resurrect", "present", "absent"}) /\ plan \in Plans
  BY PlansAssumption DEF Init
<1>2. Len(plan) \in Nat
  BY <1>1
<1>3. 1 \in 1 .. Len(plan) + 1 /\ 1 .. 1 - 1 = {}
  BY <1>2
<1>. QED
  BY <1>1, <1>3 DEF Init, SessionInv, TypeOK, Conversation, Progress, Transaction,
         Outcome, Opening, Applying, Waits, Closing

(* Every step of the command, the writer and the renderer, a panic of the   *)
(* writer at any point included, keeps the invariant.                       *)
LEMMA SessionStep == SessionInv /\ [Next]_vars => SessionInv'
<1> SUFFICES ASSUME SessionInv, [Next]_vars PROVE SessionInv'
  OBVIOUS
<1>0. /\ plan \in Seq({"mark", "resurrect", "present", "absent"})
      /\ All = 1 .. Len(plan) /\ Len(plan) \in Nat
  BY PlansAssumption DEF SessionInv, Progress, All
<1> USE <1>0 DEF SessionInv, TypeOK, Conversation, Progress, Transaction, Outcome,
        Opening, Applying, Waits, Closing, client, channel, writer
<1>1. CASE Spawn
  <2>1. TypeOK'
    BY <1>1 DEF Spawn, All
  <2>2. Conversation'
    BY <1>1 DEF Spawn, All
  <2>3. Progress'
    BY <1>1 DEF Spawn, All
  <2>4. Transaction'
    BY <1>1 DEF Spawn, All
  <2>5. Outcome'
    BY <1>1 DEF Spawn, All
  <2>. QED
    BY <2>1, <2>2, <2>3, <2>4, <2>5
<1>2. CASE Begin
  BY <1>2 DEF Begin, Ask, All
<1>3. CASE Begun
  <2>1. TypeOK'
    BY <1>3 DEF Begun, Taken, Answered, Leave, All
  <2>2. Conversation'
    BY <1>3 DEF Begun, Taken, Answered, Leave, All
  <2>3. Progress'
    BY <1>3 DEF Begun, Taken, Answered, Leave, All
  <2>4. Transaction'
    BY <1>3 DEF Begun, Taken, Answered, Leave, All
  <2>5. Outcome'
    BY <1>3 DEF Begun, Taken, Answered, Leave, All
  <2>. QED
    BY <2>1, <2>2, <2>3, <2>4, <2>5
<1>4. CASE Preflight
  BY <1>4 DEF Preflight, Quiet, Ask, Leave, All
<1>5. CASE StepFails
  BY <1>5 DEF StepFails, Abort, Ask, All
<1>6. CASE Stage
  BY <1>6 DEF Stage, Ask, All
<1>7. CASE Unlink
  BY <1>7 DEF Unlink, Quiet, All
<1>8. CASE Sync
  BY <1>8 DEF Sync, Ask, All
<1>9. CASE Staged
  <2>1. TypeOK'
    BY <1>9 DEF Staged, Answered, Taken, Abort, Ask, All
  <2>2. Conversation'
    BY <1>9 DEF Staged, Answered, Taken, Abort, Ask, All
  <2>3. Progress'
    <3>1. cpc = "stage_wait" /\ step \in All /\ plan' = plan
      BY <1>9 DEF Staged
    <3>2. CASE Answered(TRUE)
      <4>1. /\ done' = done \cup {step} /\ step' = step + 1 /\ cpc' = "apply"
        BY <1>9, <3>2 DEF Staged
      <4>2. (1 .. step - 1) \cup {step} = 1 .. (step + 1) - 1
        BY <3>1
      <4>3. step + 1 \in 1 .. Len(plan) + 1
        BY <3>1
      <4>. QED
        BY <3>1, <4>1, <4>2, <4>3
    <3>3. CASE ~Answered(TRUE)
      <4>1. UNCHANGED <<step, done>> /\ cpc' \in {"commit_wait", "rollback_wait"}
        BY <1>9, <3>3 DEF Staged, Abort, Ask
      <4>. QED
        BY <3>1, <4>1
    <3>. QED
      BY <3>2, <3>3
  <2>4. Transaction'
    BY <1>9 DEF Staged, Answered, Taken, Abort, Ask, All
  <2>5. Outcome'
    BY <1>9 DEF Staged, Answered, Taken, Abort, Ask, All
  <2>. QED
    BY <2>1, <2>2, <2>3, <2>4, <2>5
<1>10. CASE Commit
  BY <1>10 DEF Commit, Ask, All
<1>11. CASE Committed
  <2>1. TypeOK'
    BY <1>11 DEF Committed, Answered, Taken, Ask, All
  <2>2. Conversation'
    BY <1>11 DEF Committed, Answered, Taken, Ask, All
  <2>3. Progress'
    BY <1>11 DEF Committed, Answered, Taken, Ask, All
  <2>4. Transaction'
    BY <1>11 DEF Committed, Answered, Taken, Ask, All
  <2>5. Outcome'
    BY <1>11 DEF Committed, Answered, Taken, Ask, All
  <2>. QED
    BY <2>1, <2>2, <2>3, <2>4, <2>5
<1>12. CASE Undone
  BY <1>12 DEF Undone, Taken, Leave, All
<1>13. CASE RolledBack
  BY <1>13 DEF RolledBack, Taken, Answered, All
<1>14. CASE HangUp
  <2>1. TypeOK'
    BY <1>14 DEF HangUp, All
  <2>2. Conversation'
    BY <1>14 DEF HangUp, All
  <2>3. Progress'
    BY <1>14 DEF HangUp, All
  <2>4. Transaction'
    BY <1>14 DEF HangUp, All
  <2>5. Outcome'
    BY <1>14 DEF HangUp, All
  <2>. QED
    BY <2>1, <2>2, <2>3, <2>4, <2>5
<1>15. CASE Join
  BY <1>15 DEF Join, Quiet, All
<1>16. CASE DoBegin
  <2>1. TypeOK'
    BY <1>16 DEF DoBegin, Reply, All
  <2>2. Conversation'
    <3>1. /\ cpc = "begin_wait" /\ cpc' = cpc /\ handle' = handle
          /\ wpc' = "run" /\ request' = "none"
      BY <1>16 DEF DoBegin, Reply
    <3>. QED
      BY <3>1
  <2>3. Progress'
    BY <1>16 DEF DoBegin, Reply, All
  <2>4. Transaction'
    BY <1>16 DEF DoBegin, Reply, All
  <2>5. Outcome'
    BY <1>16 DEF DoBegin, Reply, All
  <2>. QED
    BY <2>1, <2>2, <2>3, <2>4, <2>5
<1>17. CASE DoStage
  BY <1>17 DEF DoStage, Reply, Execute, StatementFails, All
<1>18. CASE DoCommit
  BY <1>18 DEF DoCommit, Reply, StatementFails, All
<1>19. CASE DoRollback
  <2>1. TypeOK'
    BY <1>19 DEF DoRollback, Reply, StatementFails, All
  <2>2. Conversation'
    BY <1>19 DEF DoRollback, Reply, StatementFails, All
  <2>3. Progress'
    BY <1>19 DEF DoRollback, Reply, StatementFails, All
  <2>4. Transaction'
    BY <1>19 DEF DoRollback, Reply, StatementFails, All
  <2>5. Outcome'
    BY <1>19 DEF DoRollback, Reply, StatementFails, All
  <2>. QED
    BY <2>1, <2>2, <2>3, <2>4, <2>5
<1>20. CASE DoShutdown
  <2>1. TypeOK'
    BY <1>20 DEF DoShutdown, Stop, All
  <2>2. Conversation'
    BY <1>20 DEF DoShutdown, Stop, All
  <2>3. Progress'
    BY <1>20 DEF DoShutdown, Stop, All
  <2>4. Transaction'
    BY <1>20 DEF DoShutdown, Stop, All
  <2>5. Outcome'
    BY <1>20 DEF DoShutdown, Stop, All
  <2>. QED
    BY <2>1, <2>2, <2>3, <2>4, <2>5
<1>21. CASE WriterPanics
  <2>1. TypeOK'
    BY <1>21 DEF WriterPanics, Stop, All
  <2>2. Conversation'
    BY <1>21 DEF WriterPanics, Stop, All
  <2>3. Progress'
    BY <1>21 DEF WriterPanics, Stop, All
  <2>4. Transaction'
    BY <1>21 DEF WriterPanics, Stop, All
  <2>5. Outcome'
    BY <1>21 DEF WriterPanics, Stop, All
  <2>. QED
    BY <2>1, <2>2, <2>3, <2>4, <2>5
<1>22. CASE RendererBreaks
  BY <1>22 DEF RendererBreaks, All
<1>23. CASE UNCHANGED vars
  BY <1>23 DEF vars, All
<1>. QED
  BY <1>1, <1>2, <1>3, <1>4, <1>5, <1>6, <1>7, <1>8, <1>9, <1>10, <1>11, <1>12,
     <1>13, <1>14, <1>15, <1>16, <1>17, <1>18, <1>19, <1>20, <1>21, <1>22, <1>23
     DEF Next, Command, WriterThread, Done

(* The invariant holds at every point of every collection.                  *)
THEOREM SessionCorrect == Spec => []SessionInv
  BY SessionInit, SessionStep, PTL DEF Spec

(* What gc tells its user is what the catalog holds (gc.rs, commit_inner    *)
(* and collect_real): for any plan and whatever fails, an outcome other     *)
(* than an error comes with the committed actions, all of the plan if it    *)
(* calls itself complete, and leaves no session behind.                     *)
THEOREM ReportsAreTrue == Spec => []ReportIsTrue
<1>1. SessionInv => ReportIsTrue
  BY DEF SessionInv, TypeOK, Conversation, Outcome, ReportIsTrue, Closing
<1>. QED
  BY <1>1, SessionCorrect, PTL

(* abort_apply (gc.rs) never leaves half a plan behind unless a sweep has   *)
(* already removed a file, for any plan and wherever it stops.              *)
THEOREM NothingHalfDoneBeforeSweep == Spec => []AllOrNothingBeforeSweep
<1>1. SessionInv => AllOrNothingBeforeSweep
  BY DEF SessionInv, Outcome, AllOrNothingBeforeSweep
<1>. QED
  BY <1>1, SessionCorrect, PTL
================================================================================
