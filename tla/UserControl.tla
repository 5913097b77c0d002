----------------------------- MODULE UserControl -----------------------------
(***************************************************************************)
(* Pausing and stopping a run while it works: UserRunControl of            *)
(* src/internal/flows/impl_loop/user_control.go, the interactive driver of *)
(* interactive.go and the controller it runs in a background goroutine     *)
(* (DispatchRestartContinuation).  The two goroutines share the Run in     *)
(* memory, its StateStore and the control; a step is what one of them does *)
(* between two points where the other can interfere.                       *)
(*                                                                         *)
(* A Run is reduced to its status.  A change of it is either made on a     *)
(* candidate, a copy that is recorded and then assigned to the Run, or     *)
(* directly on the Run, which is recorded after it.                        *)
(***************************************************************************)
EXTENDS Naturals

CONSTANTS
  RecordOutcomes,  \* how the storage lets StateStore.Record end
  MaxOperations,   \* bound: steps of the controller
  MaxCommands      \* bound: commands of the user

Outcomes == {"recorded", "unapplied", "failed"}

ASSUME OutcomeAssumption == RecordOutcomes \subseteq Outcomes
ASSUME BoundAssumption == MaxOperations \in Nat /\ MaxCommands \in Nat

VARIABLES
  run,            \* status of the shared *Run
  stored,         \* status in the last durable record
  storePending,   \* StateStore.pending # nil
  registered,     \* control.active: "none", "running" or "canceled"
  transitioning,  \* control.transitioning
  mutex,          \* control.mu is held by the user's transition
  canceled,       \* the context of the background work is canceled
  worker,         \* where the background work stands
  next,           \* where it goes after its candidate was recorded
  candidate,      \* status of its candidate
  cancelable,     \* the Record in progress follows the canceled context
  user,           \* where the driver stands
  goal,           \* status the user's command asks for
  told,           \* what the user was told last, of which command
  operations,     \* steps begun
  commands        \* commands given

controlVars == <<run, stored, storePending, registered, transitioning, mutex, canceled,
          worker, next, candidate, cancelable, user, goal, told, operations, commands>>

control == <<registered, transitioning, mutex>>
store == <<stored, storePending>>
work == <<canceled, worker, next, candidate, cancelable, operations>>
driver == <<user, goal, told, commands>>

Statuses == {"active", "paused", "closed"}

\* The run was paused before the process started.
ControlInit ==
  /\ run = "paused" /\ stored = "paused" /\ storePending = FALSE
  /\ registered = "none" /\ transitioning = FALSE /\ mutex = FALSE
  /\ canceled = FALSE /\ worker = "off" /\ next = "off" /\ candidate = "paused"
  /\ cancelable = FALSE
  /\ user = "prompt" /\ goal = "paused" /\ told = <<"nothing", "paused">>
  /\ operations = 0 /\ commands = 0

(***************************************************************************)
(* StateStore.Record of a Run with status s (RunStore has its steps).      *)
(* While an event is pending another Run is refused; what is recorded but  *)
(* not projected is pending.                                               *)
(***************************************************************************)
Recorded(s, outcome) ==
  \/ /\ outcome = "failed" /\ (storePending \/ outcome \in RecordOutcomes)
     /\ UNCHANGED store
  \/ /\ outcome \in RecordOutcomes \ {"failed"} /\ ~storePending
     /\ stored' = s /\ storePending' = (outcome = "unapplied")

(***************************************************************************)
(* The background work.                                                    *)
(***************************************************************************)
Working == worker # "off"

GoTo(p) == worker' = p /\ UNCHANGED <<canceled, next, candidate, cancelable, operations>>

\* The context of the work, or of the operation that is registered.
ContextCanceled == canceled \/ registered = "canceled"

\* The status c is recorded, for a Record that may follow the context; the
\* work goes on at p.
Prepare(c, p, follows) ==
  /\ candidate' = c /\ next' = p /\ cancelable' = follows
  /\ worker' = "record"
  /\ UNCHANGED <<canceled, operations>>

\* Resume reconciles the paused run: it becomes active, or the failure is
\* recorded in it (persistResumeBlock).
ResumeRun ==
  /\ worker = "resume"
  /\ \/ run # "paused" /\ GoTo("off")
     \/ run = "paused" /\ (Prepare("active", "loop", FALSE) \/ Prepare("paused", "off", FALSE))
  /\ UNCHANGED <<run, store, control, driver>>

\* DispatchRestartContinuation between two steps.  An agent call registers
\* its operation before it reserves an attempt, a check set reserves first;
\* other steps change the Run directly.
NextStep ==
  /\ worker = "loop"
  /\ \/ (run # "active" \/ canceled) /\ GoTo("off")
     \/ /\ run = "active" /\ ~canceled /\ operations < MaxOperations
        /\ worker' \in {"beginAgent", "reserveCheck", "change"}
        /\ operations' = operations + 1
        /\ UNCHANGED <<canceled, next, candidate, cancelable>>
  /\ UNCHANGED <<run, store, control, driver>>

\* Where a step goes that failed: out of its operation first.
Failure == IF registered = "none" THEN "fail" ELSE "finish"

\* RecordAssignmentAttemptStartWithLimits and its kin on a copy of the Run:
\* the attempt is reserved, or a limit pauses the run.
Reserve ==
  /\ worker \in {"reserveCheck", "reserveAgent"}
  /\ LET inside == worker = "reserveAgent"
     IN IF run = "active"
        THEN \/ Prepare("active", IF inside THEN "running" ELSE "beginCheck", TRUE)
             \/ Prepare("paused", Failure, TRUE)
        ELSE GoTo(Failure)
  /\ UNCHANGED <<run, store, control, driver>>

\* Where the work goes when its candidate was not recorded.
Unrecorded == IF next = "off" THEN "off" ELSE Failure

\* The journal part of Record on a copy of the Run.  A canceled context is
\* noticed when the sequence is read from SQLite, before the append.
RecordCandidate ==
  /\ worker = "record"
  /\ \/ cancelable /\ ContextCanceled /\ GoTo(Unrecorded) /\ UNCHANGED store
     \/ /\ ~(cancelable /\ ContextCanceled)
        /\ \E outcome \in Outcomes :
             /\ Recorded(candidate, outcome)
             /\ CASE outcome = "recorded" -> GoTo("apply")
                  [] outcome = "unapplied" -> /\ worker' = "adopt" /\ next' = Unrecorded
                                              /\ UNCHANGED <<canceled, candidate, cancelable, operations>>
                  [] OTHER -> GoTo(Unrecorded)
  /\ UNCHANGED <<run, control, driver>>

\* The SQLite part: its transaction follows the context too.  A context that
\* was canceled after the append leaves the event pending.
ApplyCandidate ==
  /\ worker = "apply"
  /\ storePending' = (cancelable /\ ContextCanceled)
  /\ worker' = "adopt" /\ next' = IF storePending' THEN Unrecorded ELSE next
  /\ UNCHANGED <<canceled, candidate, cancelable, operations>>
  /\ UNCHANGED <<run, stored, control, driver>>

\* The candidate replaces the Run the goroutines share.
AdoptCandidate ==
  /\ worker = "adopt"
  /\ run' = candidate
  /\ GoTo(next)
  /\ UNCHANGED <<store, control, driver>>

\* A step changes the Run itself, outside an operation or with the result of
\* one, and records it then, as it is at that moment.
ChangeRun ==
  /\ worker \in {"change", "result"}
  /\ GoTo(IF run # "active" THEN Failure ELSE "put")
  /\ UNCHANGED <<run, store, control, driver>>

PutRun ==
  /\ worker = "put"
  /\ \E follows \in BOOLEAN :
       \/ follows /\ ContextCanceled /\ GoTo(Failure) /\ UNCHANGED store
       \/ /\ ~(follows /\ ContextCanceled)
          /\ \E outcome \in Outcomes :
               /\ Recorded(run, outcome)
               /\ worker' = IF outcome = "recorded" THEN "applyRun" ELSE Failure
               /\ cancelable' = follows
          /\ UNCHANGED <<canceled, next, candidate, operations>>
  /\ UNCHANGED <<run, control, driver>>

ApplyRun ==
  /\ worker = "applyRun"
  /\ storePending' = (cancelable /\ ContextCanceled)
  /\ GoTo(IF storePending' THEN Failure ELSE IF registered = "none" THEN "loop" ELSE "settle")
  /\ UNCHANGED <<run, stored, control, driver>>

\* A check set that could not run pauses the run before it leaves.
Settle ==
  /\ worker = "settle"
  /\ GoTo("finish") \/ (run = "active" /\ Prepare("paused", "finish", FALSE))
  /\ UNCHANGED <<run, store, control, driver>>

\* Mutant: an operation begins while a transition waits for the last one.
BeginAnyway ==
  /\ worker \in {"beginAgent", "beginCheck"} /\ ~mutex
  /\ IF run # "active" THEN GoTo("fail") /\ UNCHANGED registered
     ELSE /\ registered' = "running"
          /\ worker' = IF worker = "beginAgent" THEN "reserveAgent" ELSE "running"
          /\ UNCHANGED <<canceled, next, candidate, cancelable, operations>>
  /\ UNCHANGED <<run, store, transitioning, mutex, driver>>

\* BeginOperation.
BeginOperation ==
  /\ worker \in {"beginAgent", "beginCheck"} /\ ~mutex
  /\ IF transitioning \/ run # "active"
     THEN GoTo("fail") /\ UNCHANGED registered
     ELSE /\ registered' = "running"
          /\ worker' = IF worker = "beginAgent" THEN "reserveAgent" ELSE "running"
          /\ UNCHANGED <<canceled, next, candidate, cancelable, operations>>
  /\ UNCHANGED <<run, store, transitioning, mutex, driver>>

\* The agent or the command ends, by itself or because its context is
\* canceled; its outcome is recorded on a copy of the Run, and the result of
\* a check set on the Run.
OperationEnds ==
  /\ worker = "running"
  /\ Prepare(run, "finish", FALSE) \/ Prepare(run, "result", FALSE)
  /\ UNCHANGED <<run, store, control, driver>>

\* Mutant: an operation that was canceled stays in the control.
FinishKeepsCanceled ==
  /\ worker = "finish" /\ ~mutex
  /\ registered' = IF registered = "canceled" THEN "canceled" ELSE "none"
  /\ \/ GoTo("fail")
     \/ GoTo(IF ContextCanceled THEN "off" ELSE "loop")
  /\ UNCHANGED <<run, store, transitioning, mutex, driver>>

\* finish: the operation leaves the control and releases who waits for it.
\* An interrupted check returns ErrUserOperationInterrupted, an interrupted
\* agent call an error of its own; an operation that ended goes on.
FinishOperation ==
  /\ worker = "finish" /\ ~mutex
  /\ registered' = "none"
  /\ \/ GoTo("fail")
     \/ GoTo(IF ContextCanceled THEN "off" ELSE "loop")
  /\ UNCHANGED <<run, store, transitioning, mutex, driver>>

\* restartRouteError and pauseRestartContinuation: a run that is still active
\* is paused with the diagnostic (PersistExecutionBlock).
StepFails ==
  /\ worker = "fail"
  /\ \/ run # "active" /\ GoTo("off")
     \/ run = "active" /\ Prepare("paused", "off", FALSE)
  /\ UNCHANGED <<run, store, control, driver>>

(***************************************************************************)
(* The driver and the user's transition.                                   *)
(***************************************************************************)
At(p) == user' = p /\ UNCHANGED <<goal, told, commands>>
Tell(what) ==
  /\ user' = "prompt" /\ told' = <<what, goal>>
  /\ UNCHANGED <<goal, commands>>

\* mayUserTransition; commandAvailable asks for the same statuses.
MayTransition == run = "active" \/ (goal = "closed" /\ run = "paused")

GiveCommand(p) ==
  /\ user = "prompt" /\ commands < MaxCommands
  /\ user' = p /\ commands' = commands + 1

\* beginResume: nothing works in the background and the run is paused.
CommandResume ==
  /\ ~Working /\ run = "paused"
  /\ GiveCommand("prompt") /\ told' = <<"nothing", goal>>
  /\ worker' = "resume" /\ canceled' = FALSE
  /\ UNCHANGED <<run, store, control, next, candidate, cancelable, operations, goal>>

\* A pause is dispatched while the work goes on.
CommandPause ==
  /\ GiveCommand("dispatch") /\ goal' = "paused"
  /\ UNCHANGED <<run, store, control, work, told>>

\* Mutant: the work is canceled and not joined before the run is closed.
CommandStopUnjoined ==
  /\ GiveCommand("dispatch") /\ goal' = "closed"
  /\ canceled' = TRUE
  /\ UNCHANGED <<run, store, control, worker, next, candidate, cancelable, operations, told>>

\* handle joins the canceled work before it closes the run.
CommandStop ==
  /\ GiveCommand("join") /\ goal' = "closed"
  /\ canceled' = TRUE
  /\ UNCHANGED <<run, store, control, worker, next, candidate, cancelable, operations, told>>

Join ==
  /\ user = "join" /\ ~Working
  /\ At("dispatch")
  /\ UNCHANGED <<run, store, control, work>>

\* Dispatch looks at the status of the run before the control is asked.
DispatchCommand ==
  /\ user = "dispatch" /\ MayTransition
  /\ At("begin")
  /\ UNCHANGED <<run, store, control, work>>

\* An unavailable command is answered without an error, so a pause that is
\* refused while the work goes on still cancels and drains that work.
RefuseCommand ==
  /\ user = "dispatch" /\ ~MayTransition
  /\ IF goal = "paused" /\ Working
     THEN At("drainRefused") /\ canceled' = TRUE
     ELSE Tell("refused") /\ UNCHANGED canceled
  /\ UNCHANGED <<run, store, control, worker, next, candidate, cancelable, operations>>

\* Mutant: the mutex is kept while the operation is waited for.
BeginHoldingMutex ==
  /\ user = "begin" /\ ~transitioning /\ MayTransition
  /\ transitioning' = TRUE
  /\ registered' = IF registered = "none" THEN "none" ELSE "canceled"
  /\ mutex' = (registered # "none")
  /\ At(IF registered = "none" THEN "lock" ELSE "wait")
  /\ UNCHANGED <<run, store, work>>

\* transition, first critical section.
BeginTransition ==
  /\ user = "begin" /\ ~transitioning /\ MayTransition
  /\ transitioning' = TRUE
  /\ registered' = IF registered = "none" THEN "none" ELSE "canceled"
  /\ At(IF registered = "none" THEN "lock" ELSE "wait")
  /\ UNCHANGED <<run, store, mutex, work>>

\* The run left its status between the two looks: an error, and no drain.
RefuseTransition ==
  /\ user = "begin" /\ ~MayTransition
  /\ Tell("error")
  /\ UNCHANGED <<run, store, control, work>>

\* Mutant: the operation is canceled but not waited for.
NotAwaited == user = "wait"

\* <-active.done: finish has unregistered the operation.
OperationDone == user = "wait" /\ registered = "none"

AwaitOperation ==
  /\ OperationDone
  /\ At("lock")
  /\ UNCHANGED <<run, store, control, work>>

\* Second critical section: the copy of the Run, its record, its adoption.
LockTransition ==
  /\ user = "lock"
  /\ IF MayTransition THEN mutex' = TRUE /\ At("record") /\ UNCHANGED transitioning
     ELSE transitioning' = FALSE /\ Tell("error") /\ UNCHANGED mutex
  /\ UNCHANGED <<run, store, registered, work>>

RecordTransition ==
  /\ user = "record" /\ worker \notin {"apply", "applyRun"}
  /\ \E outcome \in Outcomes :
       /\ Recorded(goal, outcome)
       /\ IF outcome = "failed"
          THEN Tell("unrecorded") /\ mutex' = FALSE /\ transitioning' = FALSE
          ELSE At(outcome) /\ UNCHANGED <<mutex, transitioning>>
  /\ UNCHANGED <<run, registered, work>>

\* A record that is pending is adopted too, and reported as an error.
AdoptTransition ==
  /\ user \in {"recorded", "unapplied"}
  /\ run' = goal
  /\ mutex' = FALSE /\ transitioning' = FALSE
  /\ IF user = "unapplied" THEN Tell("unapplied") /\ UNCHANGED canceled
     ELSE IF goal = "paused" /\ Working
          THEN At("drain") /\ canceled' = TRUE
          ELSE Tell("done") /\ UNCHANGED canceled
  /\ UNCHANGED <<store, registered, worker, next, candidate, cancelable, operations>>

\* After /pause the driver has canceled the work and drains it.
Drain ==
  /\ user \in {"drain", "drainRefused"} /\ ~Working
  /\ Tell(IF user = "drain" THEN "done" ELSE "refused")
  /\ UNCHANGED <<run, store, control, work>>

(***************************************************************************)
(* The process ends; the next lifecycle command recovers the run, and an   *)
(* active run without a controller becomes a paused one (RecoverOwnRun).   *)
(***************************************************************************)
ProcessEnds ==
  /\ user # "dead"
  /\ user' = "dead" /\ told' = <<"nothing", goal>>
  /\ worker' = "off" /\ canceled' = FALSE
  /\ registered' = "none" /\ transitioning' = FALSE /\ mutex' = FALSE
  /\ UNCHANGED <<run, store, next, candidate, cancelable, operations, goal, commands>>

RecoverRun ==
  /\ user = "dead" /\ stored # "closed" /\ commands < MaxCommands
  /\ stored' = "paused" /\ run' = "paused" /\ storePending' = FALSE
  /\ user' = "prompt" /\ commands' = commands + 1
  /\ UNCHANGED <<control, work, goal, told>>

WorkerStep ==
  \/ ResumeRun \/ NextStep \/ Reserve \/ RecordCandidate \/ ApplyCandidate
  \/ AdoptCandidate \/ ChangeRun \/ PutRun \/ ApplyRun \/ Settle \/ BeginOperation \/ OperationEnds \/ FinishOperation
  \/ StepFails

CommandStep == CommandResume \/ CommandPause \/ CommandStop

DriverStep ==
  \/ Join \/ DispatchCommand \/ RefuseCommand
  \/ BeginTransition \/ RefuseTransition \/ AwaitOperation
  \/ LockTransition \/ RecordTransition \/ AdoptTransition \/ Drain

ControlNext == WorkerStep \/ CommandStep \/ DriverStep \/ ProcessEnds \/ RecoverRun

ControlSpec == ControlInit /\ [][ControlNext]_controlVars

\* Both goroutines run; an agent or a command ends when its context is
\* canceled.  Nothing is assumed of the user or of an operation left alone.
Fairness ==
  /\ WF_controlVars(WorkerStep /\ (worker = "running" => ContextCanceled))
  /\ WF_controlVars(DriverStep)

FairSpec == ControlSpec /\ Fairness

(***************************************************************************)
(* Properties.                                                             *)
(***************************************************************************)
ControlTypeOK ==
  /\ run \in Statuses /\ stored \in Statuses /\ candidate \in Statuses
  /\ goal \in {"paused", "closed"}
  /\ registered \in {"none", "running", "canceled"}
  /\ {storePending, transitioning, mutex, canceled} \subseteq BOOLEAN
  /\ told \in {"nothing", "done", "error", "refused", "unapplied", "unrecorded"}
             \X {"paused", "closed"}
  /\ registered # "none" => Working
  /\ mutex => user \in {"record", "recorded", "unapplied"}

\* /stop is final: the record that closes the run is the last one, and the
\* Run in memory that follows it never becomes active or paused again.
ClosedIsFinal ==
  [][stored = "closed" => stored' = "closed" /\ (run = "closed" => run' = "closed")]_controlVars

\* A transition of the user becomes durable only when no operation is
\* registered: what the operation recorded precedes it.
TransitionAfterOperation ==
  [][user = "record" /\ user' \in {"recorded", "unapplied"} => registered = "none"]_controlVars

\* A command of the user is answered: the join, the transition and the drain
\* of a pause that was recorded or refused end, unless the process does.
CommandsAnswered == user \notin {"prompt", "dead"} ~> user \in {"prompt", "dead"}

\* interactive.go: after /pause "UserRunControl has durably paused the run".
\* A pause that was reported holds until the user gives the next command.
PauseHolds == user = "prompt" /\ told = <<"done", "paused">> => stored = "paused"

\* user_control.go: "the user request must still become durable once the
\* child has stopped".  With a storage that does not fail, no transition of
\* the user fails to be recorded.
RequestBecomesDurable == told[1] # "unrecorded"
=============================================================================
