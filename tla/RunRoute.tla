------------------------------ MODULE RunRoute ------------------------------
(***************************************************************************)
(* How a whole run is continued from its record alone, from the extraction *)
(* of its tasks to its success: dispatchRestartStep of restart_dispatch.go *)
(* and what it calls in initial_tasks.go, initial_checks.go,               *)
(* brief_selection.go, brief_version.go, final_review.go and               *)
(* final_finding_tasks.go of src/internal/flows/impl_loop.                 *)
(*                                                                         *)
(* A content is what the working copy holds, tasks.md included; a state is *)
(* a published content (see Assignment).  The work of an assignment, from  *)
(* its first brief to its commit, is one step here: Assignment and         *)
(* CommitProtocol have what happens inside.  `run' is the last recorded    *)
(* Run; a crash loses what comes after it.  The calls of /resume's own     *)
(* checks are not looked up again and are not kept, and the names of the   *)
(* results are left out: Assignment has them.                              *)
(***************************************************************************)
EXTENDS Naturals, Sequences, FiniteSetsExt

CONSTANTS
  MaxTasks,        \* bound: leaf tasks of the run
  ReviewLimit,     \* CycleLimits.FinalReview
  MaxCycles,       \* required_check_attempts: cycles of one convergence
  MaxContent,      \* bound: contents of the working copy
  MaxChanges,      \* bound: changes of the working copy
  MaxInputs,       \* bound: versions of the inputs
  MaxResumes       \* bound: calls of /resume

ASSUME RouteAssumption ==
  /\ MaxTasks \in Nat \ {0} /\ ReviewLimit \in Nat \ {0} /\ MaxCycles \in Nat \ {0}
  /\ MaxContent \in Nat /\ MaxChanges \in Nat /\ MaxInputs \in Nat /\ MaxResumes \in Nat

VARIABLES
  run,         \* the recorded Run
  receipts,    \* the accepted-turn receipt of each operation, or NoAnswer
  ws,          \* the content of the working copy
  changes,     \* how often the working copy has changed
  inputs,      \* the specification and configuration on disk
  step,        \* the step in progress: its operation and check set
  resumes,     \* calls of /resume so far
  pc,          \* where the controller stands
  proved,      \* history: contents a complete set has passed on under the inputs in
               \*   force, and whether it left the files as they were
  consumed     \* history: selections whose answer has started an assignment

world == <<ws, changes, inputs>>
history == <<proved, consumed>>
vars == <<run, receipts, world, step, resumes, pc, history>>

AgentKinds == {"extract", "select", "review", "append"}
CheckKinds == {"baseline", "final"}
Contents == 0 .. MaxContent
State(content, by, n) == [content |-> content, by |-> by, n |-> n]
Start == State(0, "start", 0)
NoState == State(0, "none", 0)
NoBaseline == [state |-> NoState, basis |-> 0]

NoResult == [status |-> "none", answer |-> "none", state |-> NoState]
NoAnswer == [kind |-> "none", basis |-> 0, content |-> 0, first |-> 0, count |-> 0]
NoStep == [op |-> 0, kind |-> "none", before |-> 0, cycle |-> 1,
           status |-> "none", state |-> NoState]

Operation(kind, basis) ==
  [kind |-> kind, basis |-> basis, attempt |-> "none", result |-> NoResult]

\* PrepareInitialTaskExtraction.
Init ==
  /\ run = [status |-> "active", limit |-> FALSE, basis |-> 1, current |-> Start,
            extraction |-> TRUE, baseline |-> NoBaseline, tasks |-> <<>>,
            selected |-> 0, commits |-> 0, rounds |-> 0,
            ops |-> <<Operation("extract", 1)>>]
  /\ receipts = <<NoAnswer>>
  /\ ws = 0 /\ changes = 0 /\ inputs = 1 /\ step = NoStep /\ resumes = 0 /\ pc = "dispatch"
  /\ proved = {} /\ consumed = {}

Ops == DOMAIN run.ops
Answered(i) == run.ops[i].result # NoResult
Latest(kind) == Max({0} \cup {i \in Ops : run.ops[i].kind = kind})
Incomplete(kind) == Latest(kind) # 0 /\ ~Answered(Latest(kind))

\* A task is done, or it answers the final review that asked for it.
Pending == {t \in DOMAIN run.tasks : ~run.tasks[t].done}

MayChange ==
  /\ ws' \in Contents /\ changes' = changes + (IF ws' = ws THEN 0 ELSE 1)
  /\ changes' <= MaxChanges

At(p) == pc = p /\ run.status = "active"
Paused(record) == [record EXCEPT !.status = "paused"]
Pauses(record, at) == run' = record /\ pc' = at /\ step' = NoStep

\* restartRouteError and pauseRestartContinuation.
Refuse(record) == Pauses(Paused(record), "paused")

\* ObserveCodeState.  Only a state that /resume has observed can be observed
\* again: the model forgets the checks of any other.
Observe(record, state) ==
  [record EXCEPT !.current = state,
     !.ops = [i \in DOMAIN @ |->
       LET o == record.ops[i] IN
       IF o.result.state \in {state, NoState} \/ o.result.state.by = "resume" THEN o
       ELSE [o EXCEPT !.attempt = "none", !.result = [@ EXCEPT !.status = "forgotten", !.state = NoState]]]]

Attempt(record, i, outcome) == [record EXCEPT !.ops[i].attempt = outcome]
Result(record, i, status, answer, state) ==
  [record EXCEPT !.ops[i].result =
     [status |-> status, answer |-> answer, state |-> state]]

Continue(i, kind, at) ==
  step' = [NoStep EXCEPT !.op = i, !.kind = kind, !.before = ws] /\ pc' = at

Open(kind, at) ==
  /\ run' = [run EXCEPT !.ops = Append(@, Operation(kind, run.basis))]
  /\ receipts' = Append(receipts, NoAnswer)
  /\ Continue(Len(run.ops) + 1, kind, at)

Resumed(i, at) ==
  UNCHANGED <<run, receipts>> /\ Continue(i, run.ops[i].kind, at)

(***************************************************************************)
(* dispatchRestartStep: the first case that holds.                         *)
(***************************************************************************)
FinalCheck ==
  LET i == Latest("final") IN
  IF i # 0 /\ run.ops[i].basis = run.basis /\ run.ops[i].result.status = "succeeded"
     /\ run.ops[i].result.state = run.current THEN i ELSE 0

\* Mutant: a review that has a result does not count.
FinalReviewIncomplete == Max({0} \cup {i \in Ops : run.ops[i].kind = "review" /\ i > FinalCheck
                                                   /\ run.ops[i].result.answer # "changes"})

\* latestFinalReviewAfter.
FinalReview == Max({0} \cup {i \in Ops : run.ops[i].kind = "review" /\ i > FinalCheck})

AfterCheck ==
  LET i == FinalReview IN
  IF Incomplete("append") /\ Latest("append") > FinalCheck THEN "append"
  ELSE IF i = 0 \/ ~Answered(i) THEN "review"
  ELSE [passed |-> "complete", changes |-> "append", exploration |-> "review",
        clarification |-> "none"][run.ops[i].result.answer]

Next0 ==
  IF run.extraction THEN "extract"
  ELSE IF run.baseline = NoBaseline THEN "baseline"
  ELSE IF run.selected # 0 THEN "work"
  ELSE IF Pending # {} THEN "select"
  ELSE IF FinalCheck = 0 THEN "final"
  ELSE AfterCheck

Dispatch(what) == At("dispatch") /\ Next0 = what

\* supersedeStaleRunOperation: an operation of other inputs is replaced.
ContinueAgent(kind) ==
  IF Incomplete(kind) /\ run.ops[Latest(kind)].basis = run.basis
  THEN Resumed(Latest(kind), "call") ELSE Open(kind, "call")

ExtractTasks ==
  /\ Dispatch("extract") /\ ContinueAgent("extract")
  /\ UNCHANGED <<world, resumes, history>>

\* An accepted selection gets no result, so that its operation stays incomplete.
SelectAssignment ==
  /\ Dispatch("select") /\ ContinueAgent("select")
  /\ UNCHANGED <<world, resumes, history>>

\* ensureFinalCheckedWorkspace: the working copy is not the checked state.
WorkspaceChanged == ws # run.current.content

\* runRestartFinalAcceptance: a review, and a further one after an exploration.
StartFinalReview ==
  /\ Dispatch("review")
  /\ IF WorkspaceChanged THEN Pauses(Paused(run), "paused") /\ UNCHANGED receipts
     ELSE IF FinalReview # 0 /\ ~Answered(FinalReview)
     THEN Resumed(FinalReview, "call") ELSE Open("review", "call")
  /\ UNCHANGED <<world, resumes, history>>

\* runRestartFinalFindingTasks, AddFinalFindingTasks.
AddFinalFindingTasks ==
  /\ Dispatch("append")
  /\ IF Incomplete("append") /\ Latest("append") > FinalCheck
     THEN Resumed(Latest("append"), "call") ELSE Open("append", "call")
  /\ UNCHANGED <<world, resumes, history>>

\* Final checks of other inputs are not continued; a baseline always is.
StartChecks(kind) ==
  /\ Dispatch(kind)
  /\ IF Incomplete(kind) /\ run.ops[Latest(kind)].basis = run.basis
     THEN Resumed(Latest(kind), "reserve")
     ELSE Open(kind, "reserve")
  /\ UNCHANGED <<world, resumes, history>>

\* The recorded final review ended otherwise: the run is not continued.
NoFinalRoute ==
  /\ Dispatch("none") /\ Refuse(run)
  /\ UNCHANGED <<receipts, world, resumes, history>>

CompleteRecorded ==
  /\ Dispatch("complete") /\ pc' = "complete"
  /\ UNCHANGED <<run, receipts, world, step, resumes, history>>

\* runRestartAssignment and runRestartAcceptedAssignment, to the commit; a pause
\* on the way is the pause before this step.
Work ==
  /\ Dispatch("work") /\ MayChange
  /\ run' = [Observe(run, State(ws', "work", run.commits)) EXCEPT
               !.selected = 0, !.commits = @ + 1,
               !.tasks = [t \in DOMAIN @ |->
                 IF t < Min(Pending) + run.selected
                 THEN [@[t] EXCEPT !.done = TRUE] ELSE @[t]]]
  /\ UNCHANGED <<receipts, inputs, step, resumes, pc, history>>

(***************************************************************************)
(* An agent call, InvokeControlledAgentCall; AgentCall has its inside.     *)
(***************************************************************************)
\* validateBriefSelectionResponse: a prefix of the pending tasks.
SelectsPrefix(answer) ==
  /\ Pending # {} /\ answer.first = Min(Pending)
  /\ answer.first + answer.count - 1 <= Len(run.tasks)

Revalidated(answer) == answer.kind = "brief" => SelectsPrefix(answer)

\* dispatchFinalReviewerCall looks at the working copy first.
ReviewSurprised ==
  /\ At("call") \/ At("answer") \/ At("complete")
  /\ step.kind = "review" \/ pc = "complete"
  /\ WorkspaceChanged /\ Pauses(Paused(run), "paused")
  /\ UNCHANGED <<receipts, world, resumes, history>>

Undisturbed == step.kind = "review" => ~WorkspaceChanged

Replay ==
  /\ At("call") /\ Undisturbed /\ receipts[step.op] # NoAnswer
  /\ IF /\ receipts[step.op].basis = run.basis /\ Revalidated(receipts[step.op])
        /\ run.ops[step.op].attempt \in {"open", "succeeded"}
     THEN pc' = "settle" /\ UNCHANGED <<run, step>>
     ELSE Refuse(run)
  /\ UNCHANGED <<receipts, world, resumes, history>>

\* Mutant: one round more than the limit.
RoundLeftOver == run.rounds <= ReviewLimit
RoundLeft == run.rounds < ReviewLimit

\* StartRunAttemptWithLimits: the first attempt of a review takes a round; a
\* further attempt may exhaust the technical budget, which RunState counts.
StartTurn ==
  /\ At("call") /\ Undisturbed /\ receipts[step.op] = NoAnswer
  /\ LET first == run.ops[step.op].attempt = "none"
         round == first /\ step.kind = "review"
     IN \/ /\ round => RoundLeft
           /\ run' = [Attempt(run, step.op, "open") EXCEPT !.rounds = IF round THEN @ + 1 ELSE @]
           /\ pc' = "turn" /\ UNCHANGED step
        \/ round /\ ~RoundLeft /\ Pauses([Paused(run) EXCEPT !.limit = TRUE], "paused")
        \/ ~first /\ Pauses(Paused(run), "paused")
  /\ UNCHANGED <<receipts, world, resumes, history>>

Says(kind, first, count) ==
  receipts' = [receipts EXCEPT ![step.op] =
    [kind |-> kind, basis |-> run.basis, content |-> ws, first |-> first, count |-> count]]

Answers ==
  /\ At("turn")
  /\ CASE step.kind = "extract" ->
            \/ \E n \in 1 .. MaxTasks : Says("extracted", 1, n)
            \/ Says("blocked", 0, 0)
       [] step.kind = "select" ->
            \/ \E n \in 1 .. Cardinality(Pending) : Says("brief", Min(Pending), n)
            \/ Says("blocked", 0, 0)
       [] step.kind = "review" ->
            \E kind \in {"passed", "changes", "clarification", "exploration", "blocked"} :
              Says(kind, 0, 0)
       [] step.kind = "append" ->
            \E kind \in {"added", "clarification", "blocked"} : Says(kind, 0, 0)
  /\ IF step.kind = "append" THEN MayChange ELSE UNCHANGED <<ws, changes>>
  /\ pc' = "settle" /\ UNCHANGED <<run, inputs, step, resumes, history>>

\* No attempt is left, or the user has paused the run: a turn without an answer.
TurnEnds ==
  /\ At("turn")
  /\ IF step.kind = "append" THEN MayChange ELSE UNCHANGED <<ws, changes>>
  /\ Pauses(Attempt(Paused(run), step.op, "failed"), "paused")
  /\ UNCHANGED <<receipts, inputs, resumes, history>>

Settle ==
  /\ At("settle")
  /\ run' = Attempt(run, step.op, "succeeded") /\ pc' = "answer"
  /\ UNCHANGED <<receipts, world, step, resumes, history>>

(***************************************************************************)
(* What the controller does with an answer.                                *)
(***************************************************************************)
Answer(kind) == At("answer") /\ Undisturbed /\ receipts[step.op].kind = kind
Ends(record, at) == run' = record /\ pc' = at /\ step' = NoStep

\* The receipt of an operation that has a result is not read again; the model
\* keeps what an approval has seen.
Spent == receipts' = [receipts EXCEPT ![step.op] = IF @.kind = "passed" THEN @ ELSE NoAnswer]

\* Mutant: a block does not pause the run.
BlockedIsRetried ==
  /\ Answer("blocked") /\ Ends(run, "dispatch")
  /\ UNCHANGED <<receipts, world, resumes, history>>

Blocked ==
  /\ Answer("blocked") /\ Pauses(Paused(run), "paused")
  /\ UNCHANGED <<receipts, world, resumes, history>>

\* DecodeExtractedTasks: the leaves of an extraction, in the order of the answer.
ExtractedTasks(answer) == [t \in 1 .. answer.count |-> [done |-> FALSE, answers |-> 0]]

\* PersistInitialTaskExtraction.
RecordExtraction ==
  /\ Answer("extracted")
  /\ Ends([Result(run, step.op, "succeeded", "extracted", run.current) EXCEPT
             !.extraction = FALSE,
             !.tasks = ExtractedTasks(receipts[step.op])],
          "dispatch")
  /\ Spent /\ UNCHANGED <<world, resumes, history>>

\* Run.hasCurrentInitialBaseline.
HasCurrentBaseline ==
  /\ run.baseline # NoBaseline /\ run.baseline.basis = run.basis
  /\ run.commits = 0 => run.baseline.state = run.current

\* ExecuteBriefSelection, Run.StartAssignment and PersistBriefVersion.
StartAssignment ==
  /\ Answer("brief")
  /\ IF HasCurrentBaseline
     THEN /\ Ends([run EXCEPT !.selected = receipts[step.op].count], "dispatch")
          /\ consumed' = consumed \cup {step.op}
     ELSE Refuse(run) /\ UNCHANGED consumed
  /\ UNCHANGED <<receipts, world, resumes, proved>>

\* persistFinalReviewOutcome; an exploration has no route and pauses the run
\* after its record, a question closes it after its record.
RecordFinalReview ==
  /\ At("answer") /\ Undisturbed /\ step.kind = "review"
  /\ LET answer == receipts[step.op].kind
         status == IF answer \in {"passed", "exploration"} THEN "succeeded" ELSE "failed"
     IN /\ answer # "blocked"
        /\ Ends(Result(run, step.op, status, answer, run.current),
                [passed |-> "complete", changes |-> "dispatch", exploration |-> "unrouted",
                 clarification |-> "question"][answer])
  /\ Spent /\ UNCHANGED <<world, resumes, history>>

NoExplorer ==
  /\ At("unrouted") /\ Refuse(run) /\ UNCHANGED <<receipts, world, resumes, history>>

CloseForQuestion ==
  /\ At("question") /\ Pauses([run EXCEPT !.status = "closed"], "ended")
  /\ UNCHANGED <<receipts, world, resumes, history>>

\* Mutant: the run succeeds whatever the working copy holds by now.
SucceedUnseen ==
  /\ At("complete") /\ Pauses([run EXCEPT !.status = "succeeded"], "ended")
  /\ UNCHANGED <<receipts, world, resumes, history>>

\* CompleteFinalAcceptance, RecordFinalAcceptance and Succeed.
CompleteFinalAcceptance ==
  /\ At("complete") /\ ~WorkspaceChanged
  /\ Pauses([run EXCEPT !.status = "succeeded"], "ended")
  /\ UNCHANGED <<receipts, world, resumes, history>>

\* decodeFinalFindingTasks: a root task that names the review it answers.
FindingTask == [done |-> FALSE, answers |-> FinalReview]

\* Tasks are appended only if tasks.md has changed in this very call.
AppendTasks ==
  /\ Answer("added")
  /\ IF ws = step.before \/ Len(run.tasks) = MaxTasks THEN Refuse(run) /\ UNCHANGED receipts
     ELSE /\ Ends([Result(run, step.op, "succeeded", "added", run.current) EXCEPT
                    !.tasks = Append(@, FindingTask)], "dispatch")
          /\ Spent
  /\ UNCHANGED <<world, resumes, history>>

\* persistFinalFindingTasksClarification: the result and the end in one record.
AppendQuestion ==
  /\ Answer("clarification") /\ step.kind = "append"
  /\ Ends([Result(run, step.op, "succeeded", "clarification", run.current) EXCEPT
             !.status = "closed"], "ended")
  /\ UNCHANGED <<receipts, world, resumes, history>>

(***************************************************************************)
(* RunInitialRequiredChecks and RunFinalRequiredChecks.                    *)
(***************************************************************************)
ReserveChecks ==
  /\ At("reserve") /\ run' = Attempt(run, step.op, "open") /\ pc' = "set"
  /\ UNCHANGED <<receipts, world, step, resumes, history>>

\* Mutant: files that the checks have written go unnoticed.
Unnoticed == FALSE

\* WorkspaceCheckObserver: the cycle has changed files.
Changed == ws' # ws

\* RunRequiredChecksUntilStable: another cycle while a passing one changes files.
Settled(status) == status # "passed" \/ ~Changed \/ step.cycle = MaxCycles
SetPassed(status) == status = "passed" /\ ~Changed

\* One cycle.  A command that could not be run is the first one here: it leaves
\* no state, and the state known before the set is kept.
RunCycle ==
  /\ At("set")
  /\ \E status \in {"passed", "failed", "blocked"} :
       /\ IF status = "blocked" THEN UNCHANGED <<ws, changes>> ELSE MayChange
       /\ proved' = proved \cup (IF status = "passed" /\ ws' = ws
                                 THEN {[content |-> ws, stable |-> TRUE]} ELSE {})
       /\ IF ~Settled(status)
          THEN step' = [step EXCEPT !.cycle = @ + 1] /\ UNCHANGED pc
          ELSE /\ step' = [step EXCEPT !.cycle = 1,
                    !.status = IF SetPassed(status) THEN "succeeded" ELSE "failed",
                    !.state = IF status = "blocked" THEN run.current
                              ELSE State(ws', step.kind, step.op)]
               /\ pc' = "outcome"
  /\ UNCHANGED <<run, receipts, inputs, resumes, consumed>>

CheckOutcome ==
  /\ At("outcome") /\ run' = Attempt(run, step.op, step.status) /\ pc' = "result"
  /\ UNCHANGED <<receipts, world, step, resumes, history>>

\* finalInitialCheckedState: the state that the last check saw.
Checked == Observe(Result(run, step.op, step.status, "none", step.state), step.state)
AfterChecks == IF step.status = "succeeded" THEN "dispatch" ELSE "failed"

\* The result, the checked state and a passed baseline are one record.
InitialCheckResult ==
  /\ At("result") /\ step.kind = "baseline"
  /\ Ends([Checked EXCEPT !.baseline = IF step.status = "succeeded"
                            THEN [state |-> step.state, basis |-> run.basis] ELSE @],
          AfterChecks)
  /\ UNCHANGED <<receipts, world, resumes, history>>

FinalCheckResult ==
  /\ At("result") /\ step.kind = "final" /\ Ends(Checked, AfterChecks)
  /\ UNCHANGED <<receipts, world, resumes, history>>

\* pauseInitialChecks and pauseFinalChecks, in a record of their own.
ChecksFailed ==
  /\ At("failed") /\ Pauses(Paused(run), "paused")
  /\ UNCHANGED <<receipts, world, resumes, history>>

(***************************************************************************)
(* The user and the machine.                                               *)
(***************************************************************************)
Stopped == pc = "paused"
Ended == pc = "ended"
Resumable == resumes < MaxResumes

\* The working copy and the inputs are edited on a pause; the code also guards
\* the final review and the success against an edit at any other moment.
Edit ==
  \/ /\ Stopped /\ Resumable
     /\ \/ MayChange /\ ws' # ws /\ UNCHANGED <<inputs, proved>>
        \/ inputs < MaxInputs /\ inputs' = inputs + 1 /\ proved' = {} /\ UNCHANGED <<ws, changes>>
     /\ UNCHANGED <<run, receipts, step, resumes, pc, consumed>>
  \/ /\ At("dispatch") \/ At("call") \/ At("settle") \/ At("answer") \/ At("complete")
     /\ FinalCheck # 0 /\ MayChange /\ ws' # ws
     /\ UNCHANGED <<run, receipts, inputs, step, resumes, pc, history>>

\* The process ends, and the next one records a pause before anything else
\* (RecoverOwnRunWithWorkspace).  A /pause between two steps does the same.
Crash ==
  /\ run.status = "active" /\ Resumable
  /\ Pauses(Paused(run), "paused") /\ UNCHANGED <<receipts, world, resumes, history>>

\* Resume: a manual change is observed, the inputs are refreshed.
Resume ==
  /\ Stopped /\ Resumable
  /\ run' = [Observe(run, IF WorkspaceChanged THEN State(ws, "resume", 0) ELSE run.current)
               EXCEPT !.status = "active", !.limit = FALSE, !.basis = inputs,
                      !.rounds = IF run.limit THEN 0 ELSE @]
  /\ pc' = "gate" /\ resumes' = resumes + 1 /\ UNCHANGED <<receipts, world, step, history>>

\* runResumeRequiredChecks: one set; a success refreshes a baseline that is not
\* current (NeedsInitialBaselineRefresh).
ResumeChecks ==
  /\ At("gate") /\ MayChange
  /\ LET state == IF ws' = ws THEN run.current ELSE State(ws', "gate", resumes)
         seen == Observe(run, state)
     IN \/ /\ run' = IF run.extraction THEN seen
                     ELSE [seen EXCEPT !.baseline = [state |-> state, basis |-> run.basis]]
           /\ pc' = "dispatch" /\ UNCHANGED step
           /\ proved' = proved \cup {[content |-> ws', stable |-> ws' = ws]}
        \/ Pauses(Paused(seen), "paused") /\ UNCHANGED proved
  /\ UNCHANGED <<receipts, inputs, resumes, consumed>>

Terminated == (Ended \/ (Stopped /\ ~Resumable)) /\ UNCHANGED vars

Controller ==
  \/ ExtractTasks \/ SelectAssignment \/ StartFinalReview \/ AddFinalFindingTasks
  \/ \E kind \in CheckKinds : StartChecks(kind)
  \/ NoFinalRoute \/ CompleteRecorded \/ Work
  \/ ReviewSurprised \/ Replay \/ StartTurn \/ Answers \/ TurnEnds \/ Settle
  \/ Blocked \/ RecordExtraction \/ StartAssignment \/ RecordFinalReview \/ NoExplorer
  \/ CloseForQuestion \/ CompleteFinalAcceptance \/ AppendTasks \/ AppendQuestion
  \/ ReserveChecks \/ RunCycle \/ CheckOutcome \/ InitialCheckResult \/ FinalCheckResult \/ ChecksFailed
  \/ ResumeChecks

Next == Controller \/ Edit \/ Crash \/ Resume \/ Terminated

\* The loop of DispatchRestartContinuation runs without a wait of its own, and
\* every call and command it makes is bounded by a timeout.
Spec == Init /\ [][Next]_vars /\ WF_vars(Controller)

(***************************************************************************)
(* Properties.                                                             *)
(***************************************************************************)
Answerable == {"none", "extracted", "brief", "passed", "changes", "clarification",
               "exploration", "blocked", "added"}
StateType == [content : Contents, by : {"none", "start", "work", "resume", "gate"} \cup CheckKinds, n : Nat]

\* The shape of the recorded Run and of what the controller holds; the rounds of
\* the final review never exceed their limit.
TypeOK ==
  /\ run.status \in {"active", "paused", "closed", "succeeded"}
  /\ run.rounds \in 0 .. ReviewLimit /\ run.selected \in 0 .. MaxTasks
  /\ run.current \in StateType /\ run.baseline \in [state : StateType, basis : Nat]
  /\ Len(run.tasks) <= MaxTasks /\ DOMAIN receipts = Ops
  /\ \A i \in Ops : /\ run.ops[i].kind \in AgentKinds \cup CheckKinds
                    /\ receipts[i].kind \in Answerable
                    /\ run.ops[i].result.state \in StateType

\* A run succeeds (CompleteFinalAcceptance) only as it stands in the working
\* copy: a complete required set has passed on this very content under the inputs
\* in force, an independent reviewer has then seen and passed it, every task is
\* committed, and no review of the accepted checks has asked for changes.
SuccessIsProven ==
  run.status = "succeeded" =>
    /\ [content |-> ws, stable |-> TRUE] \in proved /\ Pending = {}
    /\ \E i, j \in Ops :
         /\ i < j /\ run.ops[i].kind = "final" /\ run.ops[j].kind = "review"
         /\ run.ops[i].result.state = run.current /\ run.ops[j].result.state = run.current
         /\ receipts[j].kind = "passed" /\ receipts[j].content = ws /\ receipts[j].basis = inputs

\* A code state that a final review of the present basis asked to change is never
\* the one the run succeeds with, however often the run is interrupted between the
\* review and the tasks its findings need.  An edit or new inputs make another
\* state or basis of it and may drop the findings.
NoRejectedSuccess ==
  run.status = "succeeded" =>
    \A i \in Ops : run.ops[i].result.answer = "changes" /\ run.ops[i].basis = run.basis
                     => run.ops[i].result.state # run.current

\* No assignment starts (Run.StartAssignment) before a complete required set has
\* passed under the inputs it will be worked on.
WorkStartsOnBaseline ==
  [][run.selected = 0 /\ run'.selected # 0 => proved # {}]_vars

\* The continuation of a run ends in every execution: in success, in a closed run
\* or in a pause that waits for the user (DispatchRestartContinuation).
Converges == []<>(Stopped \/ Ended)

\* A selection is answered anew: an answer that has started an assignment is not
\* used for the next one.
SelectionIsFresh == At("call") /\ step.kind = "select" => step.op \notin consumed
=============================================================================
