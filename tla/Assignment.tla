----------------------------- MODULE Assignment -----------------------------
(***************************************************************************)
(* How an active assignment is continued from its record alone, until it   *)
(* is accepted: restart_dispatch.go, implementer_transition.go,            *)
(* check_set.go, check_workspace.go, task_review.go, resume.go and         *)
(* resume_checks.go in src/internal/flows/impl_loop.                       *)
(*                                                                         *)
(* A content is what the working copy holds.  A state (EvidenceRef) is the *)
(* content together with the artifact that published it, so two            *)
(* publications of one content are two states.  `run' is the last recorded *)
(* Run: every step ends with a record, and a crash loses what comes after. *)
(* An agent call is a reservation, a turn that publishes its receipt, and  *)
(* the outcome of the attempt; AgentCall has what happens inside.          *)
(***************************************************************************)
EXTENDS Naturals, Sequences, FiniteSetsExt

CONSTANTS
  Findings,        \* findings a task reviewer may raise
  Limits,          \* CycleLimits of the three counters of an assignment
  MaxContent,      \* bound: contents of the working copy
  MaxChanges,      \* bound: changes of the working copy or of the inputs
  MaxResumes       \* bound: calls of /resume

Counters == {"review", "required", "requested"}

ASSUME AssignmentAssumption ==
  /\ Limits \in [Counters -> Nat \ {0}]
  /\ MaxContent \in Nat /\ MaxChanges \in Nat /\ MaxResumes \in Nat

VARIABLES
  run,         \* the recorded Run, as far as this assignment goes
  receipts,    \* the accepted-turn receipt of each operation, or NoAnswer
  published,   \* result names under which a check set has published its logs
  ws,          \* the content of the working copy
  changes,     \* how often the working copy or the inputs have changed
  inputs,      \* the specification and configuration on disk
  step,        \* the step in progress: its operation, result name and check set
  resumes,     \* calls of /resume so far
  pc           \* where the controller stands

disk == <<receipts, published>>
world == <<ws, changes, inputs>>
vars == <<run, disk, world, step, resumes, pc>>

Kinds == {"implement", "requested", "required", "review"}
Contents == 0 .. MaxContent
State(content, by, n) == [content |-> content, by |-> by, n |-> n]
Start == State(0, "start", 0)
NoState == State(0, "none", 0)

NoResult == [status |-> "none", state |-> NoState, name |-> 0]
Forgotten(name) == [status |-> "forgotten", state |-> NoState, name |-> name]
NoAnswer == [kind |-> "none", content |-> 0, basis |-> 0, findings |-> [f \in Findings |-> "none"]]
NoSet == [status |-> "none", changed |-> FALSE, state |-> NoState]
NoStep == [op |-> 0, name |-> 0, kind |-> "implement", set |-> NoSet]

Unresolved == {"open", "retained"}

Operation(kind, name) ==
  [kind |-> kind, basis |-> run.basis, attempt |-> "none", result |-> NoResult, name |-> name]

Init ==
  /\ run = [status |-> "active", limit |-> "none", basis |-> 1, current |-> Start,
            ops |-> <<>>, counters |-> [c \in Counters |-> 0],
            findings |-> [f \in Findings |-> "none"], accepted |-> FALSE]
  /\ receipts = <<>> /\ published = {}
  /\ ws = 0 /\ changes = 0 /\ inputs = 1 /\ step = NoStep /\ resumes = 0 /\ pc = "dispatch"

Ops == DOMAIN run.ops
Answered(i) == run.ops[i].result # NoResult

(***************************************************************************)
(* The choice of the next action, classifyRestartAssignmentAction: the     *)
(* last operation that decides, and what it asks for.  Every operation of  *)
(* the model has the current brief.                                        *)
(***************************************************************************)
Decides(i) ==
  LET o == run.ops[i] IN
  \/ ~Answered(i) /\ o.basis = run.basis
  \/ ~Answered(i) /\ o.kind = "implement" /\ o.attempt = "succeeded"
  \/ /\ Answered(i) /\ o.kind # "implement"
     /\ o.basis = run.basis /\ o.result.state = run.current

Decider == Max({0} \cup {i \in Ops : Decides(i)})
Unfinished == Decider # 0 /\ ~Answered(Decider)

\* The second loop: an implementation_ready result for the current content.
ReadyOnCurrent ==
  \E i \in Ops : /\ run.ops[i].kind = "implement" /\ Answered(i)
                 /\ run.ops[i].result.state.content = run.current.content

Choice ==
  IF Decider = 0 THEN IF ReadyOnCurrent THEN "checks" ELSE "implement"
  ELSE LET o == run.ops[Decider] IN
    CASE Unfinished -> [implement |-> "implement", required |-> "checks",
                        review |-> "review", requested |-> "none"][o.kind]
      [] ~Unfinished /\ o.result.status = "succeeded" /\ o.kind = "review" -> "accept"
      [] ~Unfinished /\ o.result.status = "succeeded" /\ o.kind = "required" -> "review"
      [] OTHER -> "implement"

\* nextRestartIDs: check operations and their results share one numbering.
NextName ==
  Min({n \in 1 .. 2 * Len(run.ops) + 1 :
        \A i \in Ops : n # run.ops[i].name /\ n # run.ops[i].result.name})

Proves(i, kind) ==
  LET o == run.ops[i] IN
  /\ o.kind = kind /\ o.basis = run.basis
  /\ o.result.status = "succeeded" /\ o.result.state = run.current

\* Something may have changed the working copy.
MayChange ==
  /\ ws' \in Contents /\ changes' = changes + (IF ws' = ws THEN 0 ELSE 1)
  /\ changes' <= MaxChanges

At(p) == pc = p /\ run.status = "active"
Paused(limit) == [run EXCEPT !.status = "paused", !.limit = limit]
Pauses(record, at) == run' = record /\ pc' = at /\ step' = NoStep

\* pauseRestartContinuation: the route cannot be continued.
Refuse(record) == Pauses([record EXCEPT !.status = "paused"], "refused")

\* ObserveCodeState.  A result is only compared with the current state, and only
\* a state that /resume has observed can be observed again: the model forgets
\* what can no longer match.
Observe(record, state) ==
  [record EXCEPT !.current = state,
     !.ops = [i \in DOMAIN @ |->
       LET o == record.ops[i] IN
       IF o.kind = "implement" \/ o.result = NoResult
          \/ o.result.state = state \/ o.result.state.by = "resume"
       THEN o ELSE [o EXCEPT !.result = Forgotten(@.name), !.attempt = "none"]]]

\* Operation i of the record gets an attempt, its outcome, or a result.
Attempt(record, i, outcome) == [record EXCEPT !.ops[i].attempt = outcome]
Result(record, i, status, state, name) ==
  Observe([record EXCEPT !.ops[i].result = [status |-> status, state |-> state, name |-> name]], state)

\* The step continues with operation i and the result name n.
Continue(i, n, kind, at) ==
  step' = [op |-> i, name |-> n, kind |-> kind, set |-> NoSet] /\ pc' = at

Open(kind, name, at) ==
  /\ run' = [run EXCEPT !.ops = Append(@, Operation(kind, name))]
  /\ receipts' = Append(receipts, NoAnswer)
  /\ Continue(Len(run.ops) + 1, name, kind, at)

Resumed(kind, name, at) ==
  UNCHANGED <<run, receipts>> /\ Continue(Decider, name, kind, at)

(***************************************************************************)
(* runRestartAssignment.                                                   *)
(***************************************************************************)
NoRoute == At("dispatch") /\ Choice = "none" /\ Refuse(run) /\ UNCHANGED <<disk, world, resumes>>

Implement ==
  /\ At("dispatch") /\ Choice = "implement"
  /\ IF Unfinished THEN Resumed("implement", 0, "call") ELSE Open("implement", 0, "call")
  /\ UNCHANGED <<published, world, resumes>>

\* latestImplementationReadyResponse: only an implementation_ready is a result.
ReadyRecorded == \E i \in Ops : run.ops[i].kind = "implement" /\ Answered(i)

\* It is bound again and applied.
Checks ==
  /\ At("dispatch") /\ Choice = "checks"
  /\ IF ~ReadyRecorded
     THEN Refuse(run) /\ UNCHANGED receipts
     ELSE IF Unfinished THEN Resumed("required", NextName, "reserve")
          ELSE Open("required", NextName, "reserve")
  /\ UNCHANGED <<published, world, resumes>>

\* Mutant: the gate asks for a required result of any state.
CanStartTaskReviewStale ==
  \E i \in Ops : run.ops[i].kind = "required" /\ run.ops[i].result.status \in {"succeeded", "forgotten"}

\* The latest mandatory result is a success for the current state.
CanStartTaskReview ==
  LET done == {i \in Ops : run.ops[i].kind = "required" /\ Answered(i)}
  IN done # {} /\ Proves(Max(done), "required")

StartTaskReview ==
  /\ At("dispatch") /\ Choice = "review"
  /\ IF ~CanStartTaskReview THEN Refuse(run) /\ UNCHANGED receipts
     ELSE IF Unfinished THEN Resumed("review", 0, "call") ELSE Open("review", 0, "call")
  /\ UNCHANGED <<published, world, resumes>>

\* restartAcceptanceEvidence and AcceptAssignment.
Accept ==
  /\ At("dispatch") /\ Choice = "accept"
  /\ IF \E j \in Ops : Proves(j, "review") /\ \E i \in 1 .. j - 1 : Proves(i, "required")
     THEN run' = [run EXCEPT !.accepted = TRUE] /\ pc' = "accepted" /\ UNCHANGED step
     ELSE Refuse(run)
  /\ UNCHANGED <<disk, world, resumes>>

(***************************************************************************)
(* The reservation of an attempt.  The first attempt of an operation takes *)
(* a round of its counter; a further one is a technical retry, whose       *)
(* budget RunState counts.                                                 *)
(***************************************************************************)
\* Mutant: a limit of n lets n + 1 rounds start.
ReserveOverLimit(kind, at) ==
  IF run.ops[step.op].attempt = "none" /\ kind \in Counters /\ run.counters[kind] > Limits[kind]
  THEN Pauses(Paused(kind), "paused")
  ELSE /\ run' = IF kind \in Counters THEN [Attempt(run, step.op, "open") EXCEPT !.counters[kind] = @ + 1]
                 ELSE Attempt(run, step.op, "open")
       /\ pc' = at /\ UNCHANGED step

Reserve(kind, at) ==
  IF run.ops[step.op].attempt = "none" /\ kind \in Counters
  THEN IF run.counters[kind] >= Limits[kind]
       THEN Pauses(Paused(kind), "paused")
       ELSE /\ run' = [Attempt(run, step.op, "open") EXCEPT !.counters[kind] = @ + 1]
            /\ pc' = at /\ UNCHANGED step
  ELSE \/ run' = Attempt(run, step.op, "open") /\ pc' = at /\ UNCHANGED step
       \/ run.ops[step.op].attempt # "none" /\ Pauses(Paused("none"), "paused")

(***************************************************************************)
(* An agent call of the implementer or the task reviewer.                  *)
(***************************************************************************)
\* A receipt is used in place of a turn if it is bound to the same inputs.
Replay ==
  /\ At("call") /\ receipts[step.op] # NoAnswer
  /\ IF receipts[step.op].basis = run.basis /\ run.ops[step.op].attempt \in {"open", "succeeded"}
     THEN pc' = "settle" /\ UNCHANGED <<run, step>>
     ELSE Refuse(run)
  /\ UNCHANGED <<disk, world, resumes>>

StartTurn ==
  /\ At("call") /\ receipts[step.op] = NoAnswer
  /\ Reserve(step.kind, "turn")
  /\ UNCHANGED <<disk, world, resumes>>

Publish(answer) == receipts' = [receipts EXCEPT ![step.op] = answer]

ImplementerAnswers ==
  /\ At("turn") /\ step.kind = "implement"
  /\ MayChange
  /\ \E kind \in {"ready", "requested", "blocked"} :
       Publish([NoAnswer EXCEPT !.kind = kind, !.basis = run.basis,
                                !.content = IF kind = "ready" THEN ws' ELSE 0])
  /\ pc' = "settle" /\ UNCHANGED <<run, published, inputs, step, resumes>>

\* validateTaskReviewerResponse of changes_requested.
DecidesFindings(decisions) ==
  /\ \E f \in Findings : decisions[f] # "none"
  /\ \A f \in Findings :
       CASE run.findings[f] = "none" -> decisions[f] \in {"none", "open"}
         [] run.findings[f] = "resolved" -> decisions[f] \in {"none", "resolved", "retained"}
         [] run.findings[f] \in Unresolved -> decisions[f] \in {"resolved", "retained"}

Decisions == [Findings -> {"none", "open", "resolved", "retained"}]

ReviewerAnswers ==
  /\ At("turn") /\ step.kind = "review"
  /\ LET Says(kind, decisions) ==
           Publish([kind |-> kind, content |-> ws, basis |-> run.basis, findings |-> decisions])
     IN \/ \E kind \in {"passed", "blocked"} : Says(kind, NoAnswer.findings)
        \/ \E decisions \in Decisions : DecidesFindings(decisions) /\ Says("changes", decisions)
  /\ pc' = "settle" /\ UNCHANGED <<run, published, world, step, resumes>>

\* No attempt is left, or the user has paused the run: a turn without an answer.
TurnEnds ==
  /\ At("turn")
  /\ IF step.kind = "implement" THEN MayChange ELSE UNCHANGED <<ws, changes>>
  /\ Pauses(Attempt(Paused("none"), step.op, "failed"), "paused")
  /\ UNCHANGED <<disk, inputs, resumes>>

Settle ==
  /\ At("settle")
  /\ run' = Attempt(run, step.op, "succeeded") /\ pc' = "answer"
  /\ UNCHANGED <<disk, world, step, resumes>>

\* Mutant: a block does not pause the run.
BlockedIsRetried ==
  /\ At("answer") /\ receipts[step.op].kind = "blocked"
  /\ pc' = "dispatch" /\ step' = NoStep /\ UNCHANGED <<run, disk, world, resumes>>

Blocked ==
  /\ At("answer") /\ receipts[step.op].kind = "blocked"
  /\ Pauses(Paused("none"), "paused") /\ UNCHANGED <<disk, world, resumes>>

\* persistImplementationReadyReceipt: the state is the workspace of the receipt.
ImplementationReady ==
  /\ At("answer") /\ receipts[step.op].kind = "ready"
  /\ run' = Result(run, step.op, "succeeded",
                   State(receipts[step.op].content, "implement", step.op), 0)
  /\ step' = [step EXCEPT !.kind = "required"] /\ pc' = "apply"
  /\ UNCHANGED <<disk, world, resumes>>

ChecksRequested ==
  /\ At("answer") /\ receipts[step.op].kind = "requested"
  /\ step' = [step EXCEPT !.kind = "requested"] /\ pc' = "apply"
  /\ UNCHANGED <<run, disk, world, resumes>>

\* Mutant: the record of a round has the findings of its answer only.
ReviewRecordOfAnswer(answer) == answer.findings

\* taskReviewRecord: what the record of the round keeps of the findings.
ReviewRecord(answer) ==
  IF answer.kind = "changes" THEN answer.findings
  ELSE [f \in Findings |-> IF run.findings[f] = "none" THEN "none" ELSE "resolved"]

RecordTaskReview ==
  /\ At("answer") /\ receipts[step.op].kind \in {"passed", "changes"}
  /\ LET answer == receipts[step.op] IN
     run' = [Result(run, step.op, IF answer.kind = "passed" THEN "succeeded" ELSE "failed",
                    run.current, 0) EXCEPT !.findings = ReviewRecord(answer)]
  /\ pc' = "dispatch" /\ step' = NoStep
  /\ Publish([receipts[step.op] EXCEPT !.findings = NoAnswer.findings])  \* not read again
  /\ UNCHANGED <<published, world, resumes>>

(***************************************************************************)
(* ApplyImplementerTransition: one set of checks.                          *)
(***************************************************************************)
Apply ==
  /\ At("apply") /\ Open(step.kind, NextName, "reserve")
  /\ UNCHANGED <<published, world, resumes>>

ReserveChecks ==
  /\ At("reserve") /\ Reserve(step.kind, "set") /\ UNCHANGED <<disk, world, resumes>>

\* runCheckSet to its end or its first failure.  A command that could not be
\* run is the first one here: nothing was published.  The verdict of requested
\* checks only informs the implementer, and a set that /pause interrupts has
\* failed before the pause; neither is told apart.
RunSet ==
  /\ At("set")
  /\ \E status \in {"passed", "blocked"} \cup (IF step.kind = "required" THEN {"failed"} ELSE {}) :
       LET started == status # "blocked" IN
       /\ IF started THEN MayChange ELSE UNCHANGED <<ws, changes>>
       /\ published' = published \cup (IF started THEN {step.name} ELSE {})
       /\ step' = [step EXCEPT !.set =
            [status |-> status, changed |-> ws' # ws,
             state |-> IF started THEN State(ws', "checks", step.name) ELSE run.current]]
  /\ pc' = "outcome" /\ UNCHANGED <<run, receipts, inputs, resumes>>

\* A log of another execution is published under the same name: the set fails
\* with a presentation that has no state.  (Its diagnostics may conflict too;
\* then the step ends here, with the same operation left without a result.)
LogsConflict ==
  /\ At("set") /\ step.name \in published /\ MayChange
  /\ step' = [step EXCEPT !.set = [status |-> "failed", changed |-> ws' # ws, state |-> NoState]]
  /\ pc' = "outcome" /\ UNCHANGED <<run, disk, inputs, resumes>>

SetStatus ==
  IF step.set.status = "passed" /\ ~(step.kind = "required" /\ step.set.changed)
  THEN "succeeded" ELSE "failed"

CheckOutcome ==
  /\ At("outcome")
  /\ run' = Attempt(run, step.op, SetStatus) /\ pc' = "result"
  /\ UNCHANGED <<disk, world, step, resumes>>

\* Mutant: the result is recorded for the state known before the set.
CheckedStateBefore == run.current

\* checkSetState: the state the last command was run on.
CheckedState == step.set.state

CheckResult ==
  /\ At("result")
  /\ IF CheckedState = NoState THEN Refuse(run) /\ UNCHANGED published
     ELSE LET done == Result(run, step.op, SetStatus, CheckedState, step.name)
              kept == IF step.kind = "required" /\ SetStatus = "succeeded"
                      THEN [done EXCEPT !.counters["required"] = 0] ELSE done
          IN /\ run' = kept /\ published' = published \ {step.name}   \* taken for good
             /\ IF step.set.status = "blocked" THEN pc' = "block" /\ UNCHANGED step
                ELSE pc' = "dispatch" /\ step' = NoStep
  /\ UNCHANGED <<receipts, world, resumes>>

\* The check could not be run: PersistExecutionBlock, after the result.
CheckBlocked ==
  /\ At("block") /\ Pauses(Paused("none"), "paused") /\ UNCHANGED <<disk, world, resumes>>

(***************************************************************************)
(* The user and the machine.                                               *)
(***************************************************************************)
Stopped == pc \in {"paused", "refused"}

\* What happens before a pause that is never resumed leads nowhere.
Resumable == resumes < MaxResumes

\* The working copy is edited on a pause only, as the documentation asks.
Edit ==
  /\ Stopped /\ Resumable
  /\ \/ MayChange /\ ws' # ws /\ UNCHANGED inputs
     \/ changes < MaxChanges /\ changes' = changes + 1 /\ inputs' = inputs + 1 /\ UNCHANGED ws
  /\ UNCHANGED <<run, disk, step, resumes, pc>>

\* The process ends, and the next one records a pause before anything else
\* (RecoverOwnRunWithWorkspace).  A /pause between two steps does the same.
Crash ==
  /\ run.status = "active" /\ pc # "accepted" /\ Resumable
  /\ Pauses(Paused("none"), "paused") /\ UNCHANGED <<disk, world, resumes>>

\* Resume compares the contents and observes a manual change as a new state.
Observed == IF ws = run.current.content THEN run.current ELSE State(ws, "resume", 0)

Resume ==
  /\ Stopped /\ Resumable
  /\ run' = [Observe(run, Observed) EXCEPT !.status = "active", !.limit = "none", !.basis = inputs,
                                                       !.counters = [c \in Counters |-> IF run.limit = c THEN 0 ELSE @[c]]]
  /\ pc' = "gate" /\ resumes' = resumes + 1 /\ UNCHANGED <<disk, world, step>>

\* pauseResumeRequiredChecks: what the checks have observed stays recorded.
ResumeChecksFail(checked) == Pauses([checked EXCEPT !.status = "paused"], "paused")

\* runResumeRequiredChecks: uncounted, and a new state only if it changed files.
ResumeChecks ==
  /\ At("gate") /\ MayChange
  /\ LET checked == IF ws' = ws THEN run ELSE Observe(run, State(ws', "gate", resumes))
     IN \/ run' = checked /\ pc' = "dispatch" /\ UNCHANGED step
        \/ ResumeChecksFail(checked)
  /\ UNCHANGED <<disk, inputs, resumes>>

Done == pc = "accepted" /\ UNCHANGED vars

Controller ==
  \/ NoRoute \/ Implement \/ Checks \/ StartTaskReview \/ Accept
  \/ Replay \/ StartTurn \/ ImplementerAnswers \/ ReviewerAnswers \/ TurnEnds \/ Settle
  \/ Blocked \/ ImplementationReady \/ ChecksRequested \/ RecordTaskReview
  \/ Apply \/ ReserveChecks \/ RunSet \/ LogsConflict
  \/ CheckOutcome \/ CheckResult \/ CheckBlocked \/ ResumeChecks

Next == Controller \/ Edit \/ Crash \/ Resume \/ Done

\* A step of the controller ends: turns and commands have a timeout.
Spec == Init /\ [][Next]_vars /\ WF_vars(Controller)

(***************************************************************************)
(* Properties.                                                             *)
(***************************************************************************)
States == [content : Contents, by : {"none", "start", "implement", "checks", "resume", "gate"}, n : Nat]

\* Every variable has its type, and every operation a receipt or none.
TypeOK ==
  /\ run.status \in {"active", "paused"}
  /\ run.limit \in Counters \cup {"none"}
  /\ run.current \in States /\ run.basis \in 1 .. MaxChanges + 1
  /\ \A c \in Counters : run.counters[c] \in 0 .. Limits[c]
  /\ \A i \in Ops :
       /\ run.ops[i].kind \in Kinds
       /\ run.ops[i].attempt \in {"none", "open", "succeeded", "failed"}
       /\ run.ops[i].result.status \in {"none", "succeeded", "failed", "forgotten"}
       /\ run.ops[i].result.state \in States
  /\ DOMAIN receipts = Ops /\ step.op \in 0 .. Len(run.ops)
  /\ ws \in Contents /\ changes \in 0 .. MaxChanges /\ inputs \in 1 .. MaxChanges + 1 /\ resumes \in 0 .. MaxResumes

\* What is accepted is what the working copy holds, what the last required set
\* passed on without changing it, and what the reviewer saw afterwards, under
\* the inputs in force and with no finding left open.
AcceptedIsProven ==
  run.accepted =>
    \E j \in Ops : \E i \in 1 .. j - 1 :
      /\ Proves(i, "required") /\ Proves(j, "review")
      /\ run.current.content = ws /\ receipts[j].content = ws
      /\ \A k \in i + 1 .. Len(run.ops) : run.ops[k].kind # "required"
      /\ \A f \in Findings : run.findings[f] \notin Unresolved

\* A reviewer looks at code that a required set has passed on as it is now,
\* whatever was edited, generated or replayed in between.
ReviewSeesCheckedCode ==
  (pc = "turn" /\ step.kind = "review") =>
    \E i \in Ops : Proves(i, "required") /\ run.ops[i].result.state.content = ws

\* An unresolved finding stays in the record until a reviewer decides on it.
FindingsKept ==
  [][\A f \in Findings : run.findings[f] \in Unresolved => run'.findings[f] # "none"]_vars

\* The loop between implementer, checks and reviewer ends: the assignment is
\* accepted, or the run stops for the user.
Converges == []<>(Stopped \/ run.accepted)

\* Stated by check_presentation.go:78-80: the name of a check result is
\* unique for the attempt, including a retry after a restart.
ResultNameIsUnique == At("set") => step.name \notin published

\* Stated by restart_dispatch.go:560-562 and the requirement on manual
\* corrections: stale work is done again, and the route is never refused.
RouteExists == pc # "refused"
=============================================================================
