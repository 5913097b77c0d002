----------------------------- MODULE AgentCall -----------------------------
(***************************************************************************)
(* One logical agent operation, from its dispatch to its recorded answer:  *)
(* controlled_agent_call.go, agent_call_guard.go, session_owner.go and     *)
(* implementation_ready_receipt.go in src/internal/flows/impl_loop.        *)
(*                                                                         *)
(* The operation is an implementation turn.  An attempt is named by its    *)
(* number, and so are the turn it reserves and the answer of that turn.    *)
(* `run' is the controller's *Run and `saved' the last event of the        *)
(* journal; a record succeeds, fails without an event, or fails after its  *)
(* event is durable (RunStore has the detail).  A provider session is a    *)
(* handle of a small set, reused once its runtime is closed.               *)
(***************************************************************************)
EXTENDS Naturals, Sequences, FiniteSets

CONSTANTS
  TechnicalAttempts,   \* CycleLimits.TechnicalAttempts
  MaxAttempts,         \* bound: attempts of the operation over all /resume
  Handles              \* provider sessions of the implementer

\* One call may use up its budget, and a session can be created beside the
\* one that it replaces.
ASSUME AgentCallAssumption ==
  /\ TechnicalAttempts \in Nat \ {0} /\ MaxAttempts \in Nat
  /\ TechnicalAttempts <= MaxAttempts
  /\ 0 \notin Handles
  /\ \A h \in Handles \cup {0} : \E fresh \in Handles : fresh # h

VARIABLES
  run,         \* the controller's *Run
  saved,       \* the run in the last event of the journal
  pending,     \* that event is not in the projection
  workspace,   \* the published snapshot after an accepted turn, 0: none
  receipt,     \* the published receipt of the accepted answer, 0: none
  bound,       \* the call the receipt names
  violations,  \* the turn of the last line of violations.jsonl, 0: none
  slot,        \* SessionOwner.persistent of the implementer, 0: none
  owned,       \* SessionOwner.sessions
  open,        \* sessions whose runtime is not closed
  held,        \* the session of the call
  provider,    \* what the provider does in a turn
  edits,       \* what the turn does to the working copy
  call,        \* the number in the call ID of this dispatch
  canceled,    \* the context of the call is canceled
  next,        \* after the record in progress: the outcome and what follows
  pc,          \* where the controller stands
  asked,       \* history: the last turn the provider was asked for
  strayed,     \* history: the last turn that edited what it may not
  blocked      \* history: the guard has given up, no /resume since

record == <<run, saved, pending>>
artifacts == <<workspace, receipt, bound, violations>>
sessions == <<slot, owned, open, held>>
turn == <<provider, edits, call>>
vars == <<record, artifacts, sessions, turn, canceled, next, pc, asked, strayed, blocked>>

Outcomes == {"none", "succeeded", "failed", "interrupted", "rejected"}
Edits == {"within", "prohibited", "control"}
Results == {"answer", "malformed", "error"}

Runs == [
  status : {"active", "paused"},
  limit : BOOLEAN,               \* LimitPause is set
  attempts : Seq(Outcomes),      \* Operation.Attempts
  start : 0 .. MaxAttempts,      \* TechnicalAttemptStart
  answer : 0 .. MaxAttempts]     \* the recorded result, 0: none

Places == {"dispatch", "invoke", "loop", "before", "turn", "interrupt", "after",
           "outcome", "release", "recreate", "discard", "publishWorkspace",
           "publishReceipt", "answered", "done", "failed", "off", "down"}

Current == Len(run.attempts)
NoTurn == provider' = "none" /\ edits' = "within" /\ UNCHANGED call
NoOutcome == <<"none", "failed">>
GoTo(p) == pc' = p

\* PrepareBriefSelection, runRestartAssignment: the operation is recorded.
Init ==
  /\ run = [status |-> "active", limit |-> FALSE, attempts |-> <<>>,
            start |-> 0, answer |-> 0]
  /\ saved = run /\ pending = FALSE
  /\ workspace = 0 /\ receipt = 0 /\ bound = 0 /\ violations = 0
  /\ slot = 0 /\ owned = {} /\ open = {} /\ held = 0
  /\ provider = "none" /\ edits = "within" /\ call = 1 /\ canceled = FALSE
  /\ next = NoOutcome /\ pc = "dispatch"
  /\ asked = 0 /\ strayed = 0 /\ blocked = FALSE

(***************************************************************************)
(* StateStore.Record of a copy of the Run.  While an event is pending any  *)
(* other state is refused.                                                 *)
(***************************************************************************)
Save(candidate, then, otherwise) ==
  \/ /\ ~pending
     /\ run' = candidate /\ saved' = candidate /\ pending' = FALSE /\ GoTo(then)
  \/ UNCHANGED record /\ GoTo(otherwise)
  \/ /\ ~pending
     /\ run' = candidate /\ saved' = candidate /\ pending' = TRUE /\ GoTo(otherwise)

(***************************************************************************)
(* SessionOwner.                                                           *)
(***************************************************************************)
Fresh == CHOOSE h \in Handles : h \notin open /\ h # held

\* newSessionLocked; a thread that does not start has its runtime closed.
NewSession(h) == owned' = owned \cup {h} /\ open' = open \cup {h}

\* Mutant: the call is named after the attempts made so far.
CallNumberLate == Current

\* restartOperationCallID.
CallNumber ==
  IF run.attempts # <<>> /\ run.attempts[Current] \in {"none", "succeeded"}
  THEN Current ELSE Current + 1

\* persistentSession, through Restore: the session of the role, or a new one.
Dispatch ==
  /\ pc = "dispatch" /\ run.status = "active" /\ call' = CallNumber
  /\ \/ slot # 0 /\ held' = slot /\ GoTo("invoke") /\ UNCHANGED <<slot, owned, open>>
     \/ slot = 0 /\ slot' = Fresh /\ held' = Fresh /\ NewSession(Fresh) /\ GoTo("invoke")
     \/ slot = 0 /\ GoTo("failed") /\ UNCHANGED sessions
  /\ UNCHANGED <<record, artifacts, provider, edits, canceled, next, asked, strayed, blocked>>

\* recreate, under the owner's mutex: the old session is forgotten before the
\* new one starts, whether it starts or not.
Recreate ==
  /\ pc = "recreate"
  /\ \/ /\ slot' = Fresh /\ open' = open \cup {Fresh}
        /\ owned' = (owned \ {held}) \cup {Fresh}
     \/ slot' = 0 /\ owned' = owned \ {held} /\ UNCHANGED open
  /\ GoTo("discard")
  /\ UNCHANGED <<record, artifacts, held, turn, canceled, next, asked, strayed, blocked>>

\* discardSessionForTechnicalRetry, after the mutex is released.  A failed
\* cleanup stops the retry and leaves the new session with the owner.
Discard ==
  /\ pc = "discard"
  /\ open' = open \ {held}
  /\ \/ slot # 0 /\ held' = slot /\ GoTo("loop")
     \/ held' = 0 /\ GoTo("failed")
  /\ UNCHANGED <<record, artifacts, slot, owned, turn, canceled, next, asked, strayed, blocked>>

\* AgentSession.Close: release.
Release ==
  /\ pc = "release"
  /\ slot' = IF slot = held THEN 0 ELSE slot
  /\ owned' = owned \ {held} /\ open' = open \ {held} /\ held' = 0
  /\ GoTo("failed")
  /\ UNCHANGED <<record, artifacts, turn, canceled, next, asked, strayed, blocked>>

(***************************************************************************)
(* InvokeControlledAgentCall.                                              *)
(***************************************************************************)
Succeeded(r) == [r EXCEPT !.attempts[Len(r.attempts)] = "succeeded"]

\* recoverControlledAgentSuccess: an answer that was published is never asked
\* for again; a snapshot without its receipt is refused for good, and so is a
\* receipt bound to another call.  The answer is validated against the present
\* checks, which may refuse it.
RecoverSuccess ==
  /\ pc = "invoke"
  /\ IF workspace = 0 /\ receipt = 0 THEN GoTo("loop") /\ UNCHANGED record
     ELSE IF workspace = 0 \/ receipt = 0 \/ bound # call
     THEN GoTo("failed") /\ UNCHANGED record
     ELSE \/ GoTo("failed") /\ UNCHANGED record
          \/ /\ run.attempts[Current] = "none"
             /\ Save(Succeeded(run), "answered", "failed")
          \/ /\ run.attempts[Current] # "none"
             /\ GoTo(IF run.attempts[Current] = "succeeded" THEN "answered" ELSE "failed")
             /\ UNCHANGED record
  /\ UNCHANGED <<artifacts, sessions, turn, canceled, next, asked, strayed, blocked>>

\* technicalAttempts against the limit.
Exhausted == Current - run.start >= TechnicalAttempts

\* The head of the loop: the context, then reserveAgentAttempt
\* (recordLimitedAttemptStart), which reserves an attempt or records the pause
\* of the limit.  Its branch for a pending event of the same Run is not taken
\* here: the record before it would have ended the call.
Reserve ==
  /\ pc = "loop"
  /\ \/ canceled /\ GoTo("failed") /\ UNCHANGED record
     \/ /\ ~canceled /\ Exhausted
        /\ Save([run EXCEPT !.status = "paused", !.limit = TRUE], "failed", "failed")
     \/ /\ ~canceled /\ ~Exhausted
        /\ Save([run EXCEPT !.attempts = Append(@, "none")], "before", "failed")
  /\ UNCHANGED <<artifacts, sessions, turn, canceled, next, asked, strayed, blocked>>

\* Mutant: what the guard cannot attribute is one more technical failure.
BlockRetries ==
  /\ UNCHANGED run
  /\ blocked' = TRUE /\ next' = <<"failed", "recreate">> /\ GoTo("outcome")

\* blockAgentCall: the run is paused in memory; the outcome that follows is
\* what makes the pause durable.
Block ==
  /\ run' = [run EXCEPT !.status = "paused", !.limit = FALSE]
  /\ blocked' = TRUE /\ next' = <<"failed", "failed">> /\ GoTo("outcome")

\* observeAgentCall up to the turn, and the start of runBoundedAgentTurn.
StartTurn ==
  /\ pc = "before" /\ run.status = "active"
  /\ \/ Block /\ UNCHANGED <<turn, asked>>
     \/ /\ IF held \in open THEN provider' = "running" /\ asked' = Current
           ELSE provider' = "error" /\ UNCHANGED asked
        /\ edits' = "within" /\ GoTo("turn") /\ UNCHANGED <<call, run, next, blocked>>
  /\ UNCHANGED <<saved, pending, artifacts, sessions, canceled, strayed>>

\* The provider works in the working copy and ends its turn.
ProviderEnds ==
  /\ provider = "running"
  /\ provider' \in Results /\ edits' \in Edits
  /\ strayed' = IF edits' = "within" THEN strayed ELSE Current
  /\ UNCHANGED <<record, artifacts, sessions, call, canceled, next, pc, asked, blocked>>

\* runBoundedAgentTurn: the result of the turn, or the end of its context.
TurnReturns ==
  /\ pc = "turn" /\ provider # "running"
  /\ GoTo("after")
  /\ UNCHANGED <<record, artifacts, sessions, turn, canceled, next, asked, strayed, blocked>>

\* Mutant: only /pause ends a turn, not its time limit.
TurnNeverTimesOut ==
  /\ pc = "turn" /\ canceled
  /\ GoTo("interrupt")
  /\ UNCHANGED <<record, artifacts, sessions, turn, canceled, next, asked, strayed, blocked>>

\* The context of the turn ends, by its time limit or by its parent.
TurnExpires ==
  /\ pc = "turn"
  /\ GoTo("interrupt")
  /\ UNCHANGED <<record, artifacts, sessions, turn, canceled, next, asked, strayed, blocked>>

\* The interrupted turn is waited for, and its result dropped.  Which of the
\* two ends it was is asked after the wait.
TurnInterrupted ==
  /\ pc = "interrupt" /\ provider # "running"
  /\ provider' = IF canceled THEN "canceled" ELSE "expired"
  /\ GoTo("after")
  /\ UNCHANGED <<record, artifacts, sessions, edits, call, canceled, next, asked, strayed, blocked>>

\* UserRunControl cancels the context of the call.
Cancel ==
  /\ pc \in {"loop", "before", "turn", "interrupt"} /\ ~canceled
  /\ canceled' = TRUE
  /\ UNCHANGED <<record, artifacts, sessions, turn, next, pc, asked, strayed, blocked>>

Conclude(outcome, then) == next' = <<outcome, then>> /\ GoTo("outcome")

\* What follows a turn whose edits are within bounds.  An answer is decoded,
\* bound and validated; a refused one may keep its session.
Judge ==
  CASE provider = "canceled" -> Conclude("interrupted", "release")
    [] provider \in {"error", "expired"} -> Conclude("failed", "recreate")
    [] provider = "malformed" -> Conclude("rejected", "recreate")
    [] OTHER -> \/ GoTo("publishWorkspace") /\ UNCHANGED next
                \/ Conclude("rejected", "recreate")
                \/ Conclude("rejected", "loop")

\* Mutant: the edits are restored and the answer is taken.
GuardTakesAnswer ==
  /\ pc = "after"
  /\ \/ edits = "control" /\ Block /\ UNCHANGED violations
     \/ edits = "within" /\ Judge /\ UNCHANGED <<run, violations, blocked>>
     \/ /\ edits = "prohibited"
        /\ violations' = Current
        /\ Judge /\ UNCHANGED <<run, blocked>>
  /\ NoTurn
  /\ UNCHANGED <<saved, pending, workspace, receipt, bound, sessions, canceled, asked, strayed>>

\* observeAgentCall after the turn: capture, difference, Git control state,
\* prohibited paths, their restoration and their line in violations.jsonl.
Guard ==
  /\ pc = "after"
  /\ \/ Block /\ UNCHANGED violations
     \/ edits = "within" /\ Judge /\ UNCHANGED <<run, violations, blocked>>
     \/ /\ edits = "prohibited"
        /\ violations' = Current
        /\ \/ Block
           \/ /\ Conclude(IF provider = "canceled" THEN "interrupted" ELSE "rejected",
                          IF provider = "canceled" THEN "release" ELSE "recreate")
              /\ UNCHANGED <<run, blocked>>
  /\ NoTurn
  /\ UNCHANGED <<saved, pending, workspace, receipt, bound, sessions, canceled, asked, strayed>>

\* recordAgentAttemptOutcome, on an active or a paused run.
RecordOutcome ==
  /\ pc = "outcome"
  /\ Save([run EXCEPT !.attempts[Current] = next[1]], next[2], "failed")
  /\ next' = NoOutcome
  /\ UNCHANGED <<artifacts, sessions, turn, canceled, asked, strayed, blocked>>

\* publishControlledAgentSuccessReceipt: the snapshot, then the receipt.  A
\* publication may be durable and still report an error.
PublishWorkspace ==
  /\ pc = "publishWorkspace"
  /\ \/ workspace' = Current /\ GoTo("publishReceipt")
     \/ workspace' \in {workspace, Current} /\ GoTo("failed")
  /\ UNCHANGED <<record, receipt, bound, violations, sessions, turn, canceled, next, asked, strayed, blocked>>

PublishReceipt ==
  /\ pc = "publishReceipt"
  /\ \/ receipt' = Current /\ Conclude("succeeded", "answered")
     \/ receipt' \in {receipt, Current} /\ GoTo("failed") /\ UNCHANGED next
  /\ bound' = IF receipt' = receipt THEN bound ELSE call
  /\ UNCHANGED <<record, workspace, violations, sessions, turn, canceled, asked, strayed, blocked>>

\* persistImplementationReadyReceipt: the receipt becomes the result.
RecordAnswer ==
  /\ pc = "answered"
  /\ IF receipt = 0 THEN GoTo("failed") /\ UNCHANGED record
     ELSE Save([run EXCEPT !.answer = receipt], "done", "failed")
  /\ UNCHANGED <<artifacts, sessions, turn, canceled, next, asked, strayed, blocked>>

\* restartRouteError and pauseRestartContinuation.
RouteError ==
  /\ pc = "failed"
  /\ IF run.status = "paused" THEN GoTo("off") /\ UNCHANGED record
     ELSE Save([run EXCEPT !.status = "paused", !.limit = FALSE], "off", "off")
  /\ canceled' = FALSE
  /\ UNCHANGED <<artifacts, sessions, turn, next, asked, strayed, blocked>>

(***************************************************************************)
(* Around the call.                                                        *)
(***************************************************************************)
\* Resume and the continuation after it; MaxAttempts bounds their number.
Resume ==
  /\ pc = "off" /\ run.status = "paused"
  /\ Current < run.start + TechnicalAttempts \/ Current + TechnicalAttempts <= MaxAttempts
  /\ Save([run EXCEPT !.status = "active", !.limit = FALSE,
                      !.start = IF run.limit THEN Current ELSE @], "dispatch", "off")
  /\ blocked' = (blocked /\ run'.status = "paused")
  /\ UNCHANGED <<artifacts, sessions, turn, canceled, next, asked, strayed>>

\* The process ends; its providers end with it.
Crash ==
  /\ pc \notin {"down", "done"}
  /\ run' = saved /\ pending' = FALSE
  /\ slot' = 0 /\ owned' = {} /\ open' = {} /\ held' = 0
  /\ NoTurn /\ next' = NoOutcome /\ canceled' = FALSE /\ GoTo("down")
  /\ UNCHANGED <<saved, artifacts, asked, strayed, blocked>>

\* RecoverOwnRun: an active run without a controller is paused.
Recover ==
  /\ pc = "down"
  /\ IF run.status = "paused" THEN GoTo("off") /\ UNCHANGED record
     ELSE Save([run EXCEPT !.status = "paused"], "off", "down")
  /\ UNCHANGED <<artifacts, sessions, turn, canceled, next, asked, strayed, blocked>>

Controller ==
  \/ Dispatch \/ RecoverSuccess \/ Reserve \/ StartTurn
  \/ TurnReturns \/ TurnInterrupted \/ Guard \/ RecordOutcome
  \/ PublishWorkspace \/ PublishReceipt \/ RecordAnswer \/ RouteError
  \/ Recreate \/ Discard \/ Release

Next ==
  \/ Controller \/ ProviderEnds \/ TurnExpires \/ Cancel
  \/ Resume \/ Crash \/ Recover

\* The controller's goroutine runs, the timer of a turn fires, and a provider
\* ends the turn that was interrupted.  A turn left alone may never end.
Spec ==
  /\ Init /\ [][Next]_vars
  /\ WF_vars(Controller) /\ WF_vars(TurnExpires)
  /\ WF_vars(pc = "interrupt" /\ ProviderEnds)

----------------------------------------------------------------------------
\* The values the variables take.
TypeOK ==
  /\ run \in Runs /\ saved \in Runs /\ Current <= MaxAttempts
  /\ {workspace, receipt, bound, violations, asked, strayed} \subseteq 0 .. MaxAttempts
  /\ call \in 1 .. MaxAttempts + 1
  /\ {slot, held} \subseteq Handles \cup {0} /\ owned \subseteq Handles /\ open \subseteq Handles
  /\ provider \in Results \cup {"none", "running", "canceled", "expired"} /\ edits \in Edits
  /\ {pending, canceled, blocked} \subseteq BOOLEAN /\ pc \in Places

\* The two artifacts, the outcome of the attempt and the recorded answer are
\* four writes with a failure or a crash between any two of them.  A published
\* receipt is that of the last reserved attempt, next to its own snapshot; no
\* other outcome is ever recorded for that attempt; the attempt did not edit
\* what it may not; and what is recorded as the answer is this receipt.
\* (controlled_agent_call.go:217-234, 301-331.)
ReceiptAgrees ==
  /\ receipt # 0 =>
       /\ workspace = receipt /\ receipt = Len(saved.attempts)
       /\ saved.attempts[receipt] \in {"none", "succeeded"}
       /\ receipt # strayed
  /\ saved.answer # 0 =>
       /\ saved.answer = receipt /\ saved.attempts[receipt] = "succeeded"

\* The guard pauses the Run in memory and leaves its record to the outcome,
\* which may fail.  Until the user resumes the run, and across a restart, no
\* turn starts, no answer is accepted and none is recorded.
\* (agent_call_guard.go:205-218, initial_tasks.go:181-205.)
BlockHolds ==
  [][blocked /\ blocked' => UNCHANGED <<asked, workspace, receipt>> /\ saved'.answer = saved.answer]_vars

\* A call that finds a published receipt finds the receipt of this call, so
\* that an accepted answer is recovered and not refused for good.  (Does not
\* hold: a retry within one dispatch keeps the call ID of the first attempt and
\* the restart names the call after the last one; restart_dispatch.go:939-951,
\* controlled_agent_call.go:291.)
ReceiptFitsItsCall == pc = "invoke" /\ receipt # 0 => bound = call

\* A call ends: with its answer or with a run that is paused or cannot be, even
\* when the provider never ends a turn by itself.
\* (controlled_agent_call.go:372-397.)
CallEnds == pc = "invoke" ~> pc \in {"done", "off", "down"}

============================================================================
