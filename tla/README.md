# Verification of Stepan

Stepan drives external coding agents through two loops. The *planning flow*
(`src/internal/flows/spec`) turns an idea into an approved intent, specification
and plan; the *implementation loop* (`src/internal/flows/impl_loop`) carries out
an approved change: it decides what an agent or a command is asked to do next,
what counts as evidence, which assignment is accepted, when a Git commit is made
and what of all this survives an interruption. This directory holds TLA+ models
of both, the TLC configurations that check them and the theorems that TLAPS
proves about them.

    tlc -workers 2 -config MCRunStore.cfg RunStore      # one model-checking run
    tlapm RecordProofs.tla                              # one module of proofs

`PROJECT.json` lists the runs, maps every definition to the lines of the source
it models, and lists the hazards, the findings and the theorems.

## 1. The system

### Parts, their state and how they interact

| Part | Source (under `src/internal/flows/impl_loop` unless said otherwise) | State it keeps | What it does |
|---|---|---|---|
| Run aggregate | `state/state.go` | one `Run`: tasks, assignments, operations with attempts and results, counters, acceptances, commits, status, limit pause | about thirty methods; each checks the lifecycle and its evidence, then changes the run or returns an error |
| Run store | `store/state.go` | `events.jsonl` (authoritative), `state.sqlite` (projection), a pending event in memory | `Record` a snapshot, reserve an attempt, record an outcome, recover both files |
| Artifacts | `store/store.go` | evidence files with publication markers, violations | publish once, verify, read |
| Controller | `restart_dispatch.go` | a loop over the durable `Run` | picks the next step from the record alone, calls agents, checks, commit; pauses on error |
| Controlled agent call | `controlled_agent_call.go`, `agent_call_guard.go`, `implementation_ready_receipt.go`, `workspace_control.go` | attempts and receipts in the `Run` | reserve an attempt, run a turn, guard the workspace, record its outcome and answer |
| User control and driver | `user_control.go`, `interactive.go` | the operation in progress, a transition flag, a mutex, contexts | `/pause`, `/stop`, `/resume` against the background work |
| Resume | `resume.go`, `resume_checks.go` | none of its own | reconciles specification, configuration, rules and working copy with the record, reopens what is stale |
| Commit protocol | `acceptance_reflection.go`, `commit.go`, `commit_reconciliation.go`, `workspace/git/commit.go` | the intent in the `Run`, the branch, index and working copy | acceptance, marks in `tasks.md`, intent, `git commit`, verification, adoption, reopening |
| Checks | `check_set.go`, `initial_checks.go`, `implementer_transition.go`, `checkexec/` | results in the `Run` | required, requested, resume and final check sets |
| Reviews and refinement | `task_review.go`, `final_review.go`, `final_finding_tasks.go`, `brief_*.go`, `explorer_routing.go` | review records, findings, disputes, brief versions | route questions and findings between roles |
| Start and recovery | `initial_tasks.go`, `startup.go`, `controller_lock*.go` | the lock file, the run's identity | create a run, recover it paused, one controller per repository |
| Sessions | `session_owner.go`, `runtime_factory.go`, `runtime/` | provider sessions | create, recreate after a failure, close |
| Planning repository | `src/internal/flows/spec/repository_fs.go`, `repository_git.go`, `resume.go` | per feature: documents, `mem-log.md`, `state.json`, a file manifest and a phase manifest; HEAD and the index | publish drafts and reviews, checkpoint, approve, revise, supersede; recover what was interrupted |
| Planning dialogue | `controller.go`, `stage_engine.go`, `review_engine.go`, `session_registry.go`, `application.go` of `src/internal/flows/spec` | the author's session with its pending draft, the reviewer's run, the flags of the controller | routes text and commands to author and reviewer, takes in what the user saved in an editor |
| Agent runtimes | `src/internal/agentruntime` | requests in flight of a transport | stdio and server transports to agents |
| Git, processes, settings | `src/internal/git`, `processjob`, `setting` | snapshots; process trees; a merge of files | reads, kills, merges |

The controller owns one `Run` in memory and one `StateStore`. A step changes the
`Run` (directly, or on a copy that replaces it after it was recorded), records
it, and only then lets the world change: an agent turn, a command, a commit.
The user's goroutine shares both objects and may cancel the step. After a crash
everything is rebuilt from the journal, and the run is paused; only `/resume`
lets work go on, after it has compared the record with the working copy.

The planning flow has the same shape one level up. `FeatureController` owns a
`StageEngine` (author) and a `ReviewEngine` (reviewer), both of which publish
through `FSFeatureRepository`. Every operation of the repository compares the
documents on disk with `state.json` first, because the user edits them with any
editor at any moment; a phase brackets its file writes and a Git commit. After a
restart the repository finishes or undoes what it finds, and the controller
starts from `state.json` alone.

### What is hard

* *Crash at any point* between a change, its append, its sync, its projection
  and the external action: `store/state.go:939`, `commit.go:131`.
* *Two goroutines, one `Run`*: the work records a copy it took before the
  user's transition, `store/state.go:378`, `user_control.go:143`.
* *Records that fail late*: the event is durable and the call reports an error,
  `store/state.go:788`.
* *Stale evidence*: specification, configuration, code or tasks change between a
  check, its review, the acceptance and the commit, `state/state.go:1418-1473`.
* *Budgets*: limits per counter, per episode and for technical retries that must
  hold over pauses, crashes and supersession, `state/state.go:1636-1745`.
* *The next step from the record alone*: after any interruption the controller
  reads what to do from results, attempts and receipts, `restart_dispatch.go:107`
  and `:561`; a missed case loops for ever or stops for ever.
* *Two transactions around one commit*: a manifest per file operation, another
  per phase, and a recovery that may itself be interrupted,
  `spec/repository_fs.go:1109`, `spec/repository_git.go:870`.
* *An editor beside the program*: a document changes while an author or a
  reviewer works on it, `spec/controller.go:743`, `spec/review_engine.go:498`.
* *Git as a participant*: hooks that change a commit, a user who edits, stages
  or commits while the run is paused, `commit.go:229`, `resume.go:404`.

### What makes each part correct

| Part | Properties |
|---|---|
| Run aggregate | leaves complete only by a commit of accepted work; evidence is current when it is used; budgets hold; nothing recorded is lost; final states are final |
| Store | what was dispatched is durable; the projection follows the journal; the caller continues from what is recorded; the whole is an atomic log |
| User control | every command ends; a closed run stays closed; a transition follows the operation it interrupts |
| Commit protocol | only accepted code is committed; completion has its commit; no commit is forgotten; nothing counts before it is recorded |
| Controlled agent call | receipt, outcome of the attempt and recorded answer agree; a block of the guard holds; a call ends |
| Controller, one assignment | what is accepted was checked and reviewed as it is; a reviewer sees checked code; a finding stays until it is decided; the loop ends |
| Controller, whole run | success is of the working copy as it is; a state its final review asked to change is never accepted; no work without a baseline; the loop ends |
| Planning repository | a load finds whole operations only; Git holds whole features; only an edit of the user blocks recovery or has a committed phase taken back; every transaction is settled |
| Planning dialogue | an approval is of the texts that were written and reviewed for each other; a text saved before an operation of the repository began is not overwritten; a draft that waits is offered |
| Lock, artifacts, transports, processes, settings | section 6 |

## 2. Modules

| Module | Models | Rests on |
|---|---|---|
| `RunState` | the `Run` aggregate, one action per method, and the order in which the controller may call them | |
| `MCRunState` | instances and scenarios of `RunState` | `RunState` |
| `StateLog` | abstract: what the durable state promises its controller | |
| `RunStore` | the journal, the projection and the calls of `StateStore`, step by step | refines `StateLog` |
| `UserControl` | the driver's goroutine and the background work on one `Run` | `Record` by its outcomes |
| `CommitProtocol` | from acceptance to the recorded commit, hooks, crashes, the user and `/resume` | `Record` by its outcomes |
| `MCCommitProtocol` | `CommitProtocol` with a bound on disturbances | `CommitProtocol` |
| `AgentCall` | one logical agent operation: reservation, turn, guard, outcome, receipt, sessions, replay after a restart | `Record` by its outcomes |
| `Assignment`, `MCAssignment` | how an assignment is continued from its record until it is accepted | `AgentCall` by its outcomes, `RunState` by its transitions |
| `RunRoute` | how a whole run is continued, from the extraction of its tasks to success | `Assignment` and `CommitProtocol` as one step |
| `FeatureHistory` | abstract: what the planning repository promises its callers | |
| `FeatureRepository` | file and phase transactions of the planning repository, stop by stop | refines `FeatureHistory` |
| `MCFeatureRepository` | `FeatureRepository` with a bound on disturbances | `FeatureRepository` |
| `SpecFlow` | the planning dialogue: author, reviewer, controller, approval, editor | `FeatureRepository` by the beginning and the end of its operations |
| `RunStateProofs`, `CommitProtocolProofs`, `AgentCallProofs`, `AssignmentProofs`, `RunRouteProofs`, `FeatureRepositoryProofs`, `SpecFlowProofs` | theorems about the module of the same name, section 5 | each EXTENDS its module |
| `RecordProofs` | theorems about `RunStore` and about `UserControl`, which records through it | EXTENDS both, which is why the names of `UserControl` (`ControlInit`, `ControlSpec`, `storePending`, ...) differ from those of `RunStore` |

### RunState

State: `tasks`, `leafStatus`, `asgs` (assignments with their briefs, acceptance,
history, intent, reconciled commits and a *work*: operations, counts and
cycles), `runWork` for the run's own operations, the current code state and
basis, the initial baseline, the final acceptance, `status`, the pause and its
limit. A task, an assignment, a brief and an operation are named by their
position; a result is kept on its operation. Digests of code states,
specification and configuration versions (a *basis*) and Git trees are opaque
values. A method that returns an error leaves the run unchanged and is no step;
the actions are therefore the successful calls, with the guard built from every
test the method makes. `Next` (`PlanStep`, `OperationStep`, `AttemptStep`,
`ResultStep`, `AcceptanceStep`, `InputStep`, `LifecycleStep`) passes the
arguments the controller passes: `Due` and `Resumable` say which operation it
would add or continue, so the model has no call that the program cannot make.
`Run.Validate` is translated beside the methods (`ValidStructure`,
`ValidLifecycle`, `ValidAssignments`, `ValidRunOperations`, `ValidBaseline`,
`ValidFinal`, `ValidCounters`) and guards none of them: whether every state they
produce passes it, that is, whether every run can be saved and loaded again, is
what `RecordStaysValid` asks of all but the counters. Of the counters it is false
(section 4); `CountersMatchAttempts` says what holds of them in every run.
Review records, identifiers, paths and texts are abstracted.

### StateLog and RunStore

A snapshot is a number, so two snapshots are equal exactly when their JSON is.
`StateLog` promises: snapshots are recorded in order, a promised one is never
lost, one that was written may turn out recorded or lost, and external work is
dispatched once, for the last snapshot, only after it was promised. `RunStore`
has the file with its torn tail and its synced prefix, the projection, the
pending event, the caller's `Run` and the position of the call in progress:
refresh, append, sync, close, project, dispatch. Each of them may fail, the
process may crash between any two, and power may be lost, which cuts the file
anywhere after the synced prefix. `Implements` refines `StateLog` with
`log` = the synced prefix and `tail` = the rest.

### UserControl

Two processes. `user`: prompt, `Dispatch`'s look at the status, cancel, wait for the
registered operation, record the transition, apply it, drain the work. A `/pause` that
`Dispatch` finds unavailable is answered without an error, so it cancels and drains the
work too (`drainRefused`); one that only `transition` refuses is an error and drains nothing.
`worker`: resume, the loop of
`DispatchRestartContinuation`, a reservation, a registered operation, its
outcome, a direct change, the pause after a failure. They share `run`, `stored`,
`storePending`, the mutex, the registration and the contexts. The `Run` is reduced to
its status; `Record` to recorded, unapplied (durable, not projected) or failed.

### CommitProtocol

State: `commits` (the branch), `worktree`, `index`, the run record twice (`run`
in memory, `saved` in the journal), the published reconciliation artifact and
`pc`. A tree has a code version, the marks of `tasks.md` and the rules
documents. Every record ends in one of three ways (`Save`): recorded; not
recorded, with the run in memory restored where the code restores it and
changed where it does not; or durable and reported as failed. `git commit` is
`StageAll`, then `CreateCommit` with any result of a hook (unchanged, other code
committed, other code left behind, message altered), then the observation,
which may itself fail. While the run is paused or down, the user edits code or
rules, stages and commits. `Resume` has the four explanations of a changed
working copy (pending commit, reflected marks, marks then rules, rules only) and
the refusal when none applies and HEAD or the index moved. Implementation,
checks and review of a state are one step (`Review`): what they do in detail is
the matter of `Assignment`.

### AgentCall

One call of `InvokeControlledAgentCall` for an implementation turn and all its
repetitions. `run` and `saved` are as in `CommitProtocol`; `workspace` and
`receipt` are the two artifacts of an accepted turn, `slot`, `owned`, `open` and
`held` the sessions of `SessionOwner`, `provider` and `edits` what the turn does
inside and to the working copy. The actions follow the function: read a receipt,
reserve, start, return, time out, interrupt, judge, guard, outcome, publish the
snapshot, publish the receipt, record the answer; each record may fail or be
late, the user may cancel, the process may stop between any two.

### Assignment and RunRoute

Both take the recorded `Run` as the only memory of the controller: a crash drops
everything but `run`, the receipts and the published names. `Assignment` has
`classifyRestartAssignmentAction` (`Decides`, `Decider`, `Choice`) and every
route it leads to, with the state a result was recorded for: a content of the
working copy together with the artifact that published it, because the code
compares the latter. `RunRoute` has `dispatchRestartStep` (`Next0`) with the
extraction of tasks, the initial baseline, the selection of an assignment, the
final checks, the final review and the corrective tasks. Results that can no
longer match are forgotten (`Observe`), which keeps the state small and cannot
change what the controller does.

### FeatureHistory and FeatureRepository

`FeatureHistory` gives each feature one durable value that changes in one step:
created, appended to by a legal transition, saved by the user, or superseded
together with its successor. Its `Tear` is the one exception the code makes: it
ends the promise for some features. `FeatureRepository` has the bytes: `files`,
`fileManifest` (bytes before and after, one per feature), `phaseManifest` (one
per coordinator, naming all its participants), `head`, `staged`, and the
operation in flight with its position. Writing a manifest, each file, the index
entries, the commit, the removals and each restored file are separate steps, and
a stop or a failed commit may come between any two, also during recovery.

`rollbackPhase` collects errors and goes on: a `git reset` that fails
(`RollbackIndexFails`) and a file that cannot be restored (`RestoreFileFails`)
are followed by the rest and by the removal of the manifest, after which nothing
is left to repeat the rollback from. The history variable `torn` names the
features this happened to, and its growth is `Tear`. A recovery looks at the
bytes once, when it begins, and then writes (`BeginRecovery`, `RecoverFile`), so
a document saved in between is overwritten there too. The user saves any text at
any moment, one that was there before included (`SaveDocument`): an undo after
`git commit`, with the manifest still on disk, makes `validatePhaseRecovery`
accept bytes that `PhaseCommitted` does not find in HEAD, and a phase HEAD
already holds is rolled back. `ahead` names the features whose HEAD went ahead in
this way. `touched` are those saved since their last operation began.

`View` is what a load would find; it is the refinement mapping. A phase counts
there from the commit on, if HEAD is exactly what the phase wanted
(`PhaseCommitted`, as `recoverPhaseLocked` asks), and otherwise, with a document
saved before the commit, only when its manifest goes.

### SpecFlow

The controller, `StageEngine` and `ReviewEngine` as one state machine whose
`pc` says what is in progress: a turn of the author (`talk`), a rework
(`apply`), the reading of a changed document (`reread`), a review turn
(`review`) and its publication (`candidate`), the activation of a revised
specification. A text is a number never used twice; a fingerprint is a function
from stages to texts. The user saves or undoes at any moment, also during a
turn. The mapping of a command to its action is in `Execute`
(controller.go:369-423): while a document is changed, every command but the two
that classify an intent becomes `NoticeChange`.

`op` is the operation of the repository in progress: what asked for it, the
documents as it found them, and the text it publishes. Two kinds are taken apart,
because a save can fall inside them. A publication (`pc` = `publish`) has looked
at the documents and writes its text over whatever is there by then (`Publish`),
or fails (`PublishFails`). A phase (`commit`) - the checkpoint after a draft, a
review, an `/apply` or a rework, an approval, a revised intent - ends in
`CommitMade`, which does what its caller does next, or in `CommitFails`, whose
rollback puts every document back as the phase found it, over what was saved
since; a publication before the phase stays published. After a crash the phase is
still there (`op` at `off`) and is completed or rolled back by the next load
(`Recover`), which a document saved meanwhile blocks until it is undone.

## 3. Runs

All runs check type invariants, invariants and action properties exhaustively
within their bounds; symmetry is used only in `MCRunState`, where code states,
bases and trees are only compared with each other, and no liveness property is
checked there.

| Run | What it asks | Bounds |
|---|---|---|
| `run_acceptance` | every state of the run but its counters passes `Run.Validate` (`RecordStaysValid`): an acceptance has current, successful evidence, leaves and assignments agree; leaves become complete by commits only | the union of five scenarios: two assignments on a nested hierarchy; two briefs, three operations and two trees; a final acceptance on two code states; a final review that appends a task; a changed basis. Each is large where the others are small |
| `run_budgets` | counters and rounds are those of the attempts, in order on each basis (`CountersMatchAttempts`); no budget is exceeded | four scenarios: three operations of two counters; three attempts and cycles of one counter; three run operations on two bases; three reviews of one assignment while the basis changes and returns, where rounds do leave the order of the operations |
| `run_store` | what was dispatched is durable; the store is an atomic log | seven snapshots: six calls, enough for a failure, its retry, a crash and a second failure |
| `user_commands` | a closed run stays closed, transitions follow operations, commands end | two operations and four commands, a storage that may fail at every record |
| `commit_protocol` | only accepted code is committed; what is complete is committed; no commit is forgotten; nothing counts before it is recorded | two assignments, two code versions, three commits, three disturbances (a failed or late record, a crash, a change by the user). A crash, a second one while the commit is repeated and a change by the user between them are within the bound, and so is a hook that changes two commits of the run |
| `agent_call` | receipt, outcome and answer agree; a block holds; a call ends | two technical attempts, four in all, two sessions: a retry inside a call, a restart, and a retry inside the restarted call |
| `assignment` | what is accepted was checked and reviewed as it is; a finding stays; the loop ends | one finding, limits of one, two contents, one change, two resumes: the change may come from an edit, a command, a correction or new inputs, and each limit is reached |
| `run_route` | success is of the working copy as it is; no state that its final review asked to change succeeds; no work without a baseline; the loop ends | two tasks (one of them added by a final review), one round of final review, two check cycles, two contents and inputs, two resumes |
| `feature_repository` | whole operations; whole commits; only an edit blocks recovery or has a committed phase taken back; every transaction is settled | two features, so that a supersession has both; two texts and a journal of four entries; one fault (a stop, a failed commit, a failed step of a rollback) with two saves, the second of which may undo the first, or two faults, the second of which may hit the recovery from the first, with at most one save that a transaction meets |
| `spec_flow` | approvals are of texts that belong together; texts saved before an operation began survive it; a waiting draft is offered | three stages, five texts, two saves or undos, one crash, two reviews: enough to approve two stages, return to the first of them and approve again |
| `pause_lost`, `rework_unasked` | section 4; expect a violation | the smallest instance that shows it |

`CHECK_DEADLOCK FALSE` is set where the system stops: a run succeeds or closes,
a plan is approved, or a bound is reached. `commit_protocol` and `run_route`
keep the check: no position is without a way on, because `/resume` can be tried
until its bound; what it does not show is that a retry succeeds.

The constraint of `MCCommitProtocol` stops the exploration at the fourth
disturbance; the state it leads to is checked and not explored further. That of
`MCFeatureRepository` also fixes which feature is created first: as nothing tells
them apart before, the runs it leaves out are renamings of those it keeps, and this
reduction, unlike TLC's symmetry, is sound for `Settles`.

### Fairness

* `user_commands`: `FairSpec` has weak fairness of each of the two goroutines
  (the Go scheduler runs every runnable goroutine) and takes for granted that an
  operation whose context is canceled returns: the runner kills its process tree
  and the runtimes close their turn. `CommandsAnswered` depends on the order in
  which a transition marks itself, cancels, waits and takes the mutex.
* `agent_call`: weak fairness of the controller, of the timer of a turn, and of
  a provider that was interrupted. A turn left alone may never end; `CallEnds`
  rests on the timeout and on the interruption after it. That an interrupted provider
  ends is what its adapter promises and is assumed here: a call whose interruption
  fails may hang, and no run asks about it.
* `assignment` and `run_route`: weak fairness of the controller, because every
  call and command it waits for has a timeout. The user has none: `Converges`
  says that the loop reaches acceptance, success or a pause by itself, which
  rests on the limits and on what each pause is recorded with.
* `feature_repository`: weak fairness of the operation in flight and of the next
  load. `Settles` excepts what the user edited and the orphan described in
  section 6.

The user, the storage, hooks and crashes have no fairness anywhere.

## 4. Where the code and its documents disagree

`pause_lost` and `rework_unasked` are runs that expect a violation, with a finding in `PROJECT.json`:

* `pause_lost` (`PauseHolds`). The reservation of a check set runs outside any
  registered operation, so a `/pause` can be recorded between the copy and its
  record and is overwritten.
* `rework_unasked` (`RevisionsWait`). A rework of a review that ends in a
  question leaves `StageEngine.reviewRework` set; when the user then saves the
  document, the review is over and the author stays, and the next draft replaces
  the document without a decision.

Further configurations reproduce further ones; they are kept beside the runs
and each checks the one property it names:

* `MCRunState_basis_revert.cfg` (`SavedRunLoads`). A check set is recorded before its
  attempt. If the basis changes before the attempt, a newer check set is attempted, and
  the basis returns, the older one is taken up again and its round follows that of the newer
  one: `Run.Validate` ("semantic rounds are not sequential") refuses this snapshot and
  every later one. `CountersMatchAttempts` shows that this is the only way the counters
  part from what `Validate` counts: rounds are out of order only between operations of
  different bases.
* `MCRunState_limit_reset.cfg` (`LimitPauseIsHonoured`). A refused `/resume` writes its
  diagnostic with `UpdatePausedExecutionBlock`, which drops the limit pause; the
  next `/resume` resets no counter and stops at the same limit.
* `MCUserControl_request_lost.cfg` (`RequestBecomesDurable`). A command cancels the projection of
  the reservation in progress; the event stays pending and the command's own
  record is refused.
* `MCCommitProtocol_crash.cfg` (`CommitRecognized`). After a crash between `git commit`
  and its record, HEAD is not the recorded HEAD and `/resume` refuses to go on
  before the reconciliation could adopt the commit. The same refusal follows a
  pause between a recorded commit and the first observation after it, because
  `CommitAssignment` keeps the snapshot taken before the commit. The adoption in
  `ReconcilePendingCommit` is reached only after a crash between the two records
  of `finalizeReconciledCommit`.
* `MCCommitProtocol_hook.cfg` (`HookChangeReaccepted`). All commits of a run share one
  operation ID, hence one artifact ID for the state a hook left; the second
  publication conflicts and the assignment is not reopened.
* `MCCommitProtocol_marks.cfg` (`MarksKeepAcceptance`). A stop after the marks in
  `tasks.md` and before their record makes the next `/resume` observe a new
  code state and reopen the acceptance.
* `MCAgentCall_receipt.cfg` (`ReceiptFitsItsCall`). A technical retry keeps the
  call ID of its dispatch; after a crash `restartOperationCallID` names the call
  after the number of attempts and refuses the receipt published under the
  other one (restart_dispatch.go:944, controlled_agent_call.go:291).
* `MCAssignment_stuck.cfg` (`RouteExists`). An operation of requested checks
  left without a result, or a review left unfinished before a manual edit, has
  no route: every `/resume` ends in the same refusal (restart_dispatch.go:588,
  598).
* `MCAssignment_names.cfg` (`ResultNameIsUnique`). A restarted check operation
  takes the same result name at every restart, so its logs conflict
  (restart_dispatch.go:897, check_presentation.go:106).
* `MCRunRoute_selection.cfg` (`SelectionIsFresh`). An accepted selection records
  no result for its operation, so the next selection takes it up and reads the
  old answer back (restart_dispatch.go:179).
* `MCFeatureRepository_saves.cfg` (`RollbackKeepsSaves`). The rollback of a failed
  commit writes the bytes from before the phase without a look at the disk
  (repository_git.go:738-753); a document the user saved while a hook ran is lost.
  `EditsSurvive` in `spec_flow` therefore speaks only of texts saved before the
  publication or the phase began.

Seen while the planning flow was modelled, and stated by no property:

* After `/apply` ended in a question, or after a failed publication of a
  provisional report, `/review` is advertised and refused as already active;
  after a resume with `awaiting_decisions`, text and `/apply` are refused because
  no review has started in this process (feature-flow.md:56-60).
* A stop between the decision on a revised specification and its activation
  leaves a published specification behind a flow at the plan; `/resume` refuses
  the feature until the document is changed.
* After a failed rework turn the controller still expects a decision on a draft
  that is gone; after an abandoned `/revise-spec` or a non-material revision no
  author is left until the feature is closed and resumed; a waiting draft and an
  external edit together block every command.
* `/exit` with a changed document keeps author and reviewer with threads that
  are closed.
* A rollback one of whose steps failed drops its manifest all the same
  (repository_git.go:735-755): entries stay in the index or files stay as the phase
  wrote them, and nothing says so but the error. In the model these features are
  `torn`, and `WholeInGit` and `Implements` except them.
* A phase that is in HEAD is rolled back when a save had kept the recovery from
  seeing it and the user undoes that save (repository_git.go:896, 987): the working
  copy then lacks an approval that HEAD has. `OnlyEditsDisturb` says that only a
  save can do this; `WholeInGit` excepts such features (`ahead`).

Three more consequences were seen in the implementation loop and are not stated as runs: when
the projection of a recorded `/pause` fails, the `Run` in memory has changed
already and the user's second try is refused (`user_control.go:166-188`); rules
edited after the reflection and before the intent make the intent's tree stale,
so an unchanged commit looks like one a hook changed; and an accepted assignment
whose tree equals HEAD's is paused each time because `git commit` has nothing to
commit.

## 5. Proofs

TLAPS checks every leaf; no theorem rests on an unproved fact. The assumptions
are the named `ASSUME`s on the constants.

* `RunStateProofs`: `RunTypeCorrect` (`Spec => []TypeOK`), for arbitrary
  hierarchies, operations, limits and bounds. `TypeOK` alone is not inductive:
  `leafStatus` must stay a function on exactly the leaves when a final review
  appends tasks, and that needs every task's parent to precede it. The
  inductive invariant is `TypeInv == TypeOK /\ TaskTree`. The proof groups the
  variables (`WorkTypes`, `PlanTypes`, `EvidenceTypes`, `InputTypes`,
  `FlagTypes`), has one lemma per group and step, and lemmas for the operators
  that change a work (`WithOp`, `WithAttempt`, `WithResult`, `WithNextCycle`).
  `TerminalRunIsFrozen` (`Spec => TerminalIsFinal`, a property only the proof
  checks): every action of `Next` requires an active or paused run
  (`StepFromOpenRun`), a statement about thirty methods, one of which might have
  missed the test.
  `RecordsStayValid`, `BudgetsHold` and `LeavesCompleteByCommits` state the
  other properties of the runs `run_acceptance` and `run_budgets` that hold in
  general. All rest on `RecordInv`, inductive together with `TypeInv`, which has
  one part for each thing a step can disturb: the operations of the run and of
  every assignment with their rounds, budgets and bases (`SoundScope`); what they
  prove of the assignment (`Proven`); that assignments take the leaves in task
  order, one after the other, and give them their status (`Layout`); that an
  acceptance in force is of the current state and basis (`Currency`, `FinalInv`);
  and the lifecycle (`Ending`). `Run.Validate` alone is not inductive. It does not
  say that an operation never attempted has no round and that a cycle is never 0,
  which the next attempt and the next cycle rely on; nor that only agents worked
  before the tasks are extracted (`Early`), without which an extraction could
  leave a final acceptance in force. Two facts carry most of the argument: an
  operation is only ever added to (`Grows`), so the evidence an acceptance rests
  on stays evidence (`EvidenceGrows`), and every assignment but the last is
  committed (`OpenIsLast`), so a step on the open one disturbs no other.
  `AddedOperation`, `AttemptedOperation`, `RetriedOperation`, `ObservedOperation`
  and `AnsweredOperation` say for one scope what an operation of the record does;
  `RunScopeStep` and `AssignmentScopeStep` lift them to the run.
* `RecordProofs`, the store: `TypeCorrect`, `WorkIsDurable`, `ProjectionFollows`,
  `WorkContinuesFromRecorded` and `StoreImplementsLog`, for any number of
  snapshots. They come from one inductive invariant, `StoreInv`: its parts say
  that the snapshots of the file are ordered and older than a prepared one, how
  far the call in progress has brought its snapshot, that a pending event is the
  last record and is durable, and that what was dispatched is in the synced
  prefix. Without the progress part a sync or a projection could belong to
  another snapshot; without the part on pending events a refused call could
  leave the controller with a state that is not recorded. The refinement maps
  every step to `Write`, `Promise`, `Lose`, `Dispatch` or a stutter (`StepMaps`).

* `CommitProtocolProofs`: `CommitTypeCorrect`, `CompletionHasItsCommit`,
  `CommitsAreAccountedFor`, `NothingUnrecordedCounts` and
  `OnlyAcceptedCodeIsCommitted`, that is every property of the run
  `commit_protocol`, for any number of assignments, code versions, commits and
  disturbances. They come from one inductive invariant, `CommitInv`. Its first
  part, `RecordInv(r, b)`, relates a record to the branch and holds of both
  records, the one in memory and the one in the journal: an intent is for the
  accepted code, on the accepted HEAD or on the parent of a retained commit; a
  reflection moves neither HEAD nor code; retained and completed commits are on
  the branch with their content; and every commit of the controller is settled
  by one of the three. Each transition of the record has a lemma that it keeps
  `RecordInv` (`RecordIntended`, `RecordCompleted`, `RecordObserved`,
  `RecordReopened`, ...). The second part, `WorkInv`, is about the position of
  the controller: while no step failed, memory and journal agree; evidence that
  counts is of the working copy (`FreshAt`); a commit in progress has a recorded
  intent on the tip (`ProgressAt`). `SaveStep` treats the three outcomes of a
  record once for all actions. The delicate steps are `AdoptStep`, where a new
  intent replaces a pending one and must not be the only trace of a commit, and
  `ExplainedIsFresh`, which says that every explanation `/resume` accepts for a
  changed working copy leaves HEAD and code where the acceptance had them.

* `RecordProofs`, the control of the user: `ControlTypeCorrect`, `ClosedRunStays` and
  `TransitionsFollowOperations`, for any set of record outcomes. `ControlInv` says
  where the two goroutines may stand together: an operation is registered
  exactly while the work is inside it, also across a record it waits for
  (`OperationInv`); from its registration on, a transition keeps new operations
  out, and the mutex is held only by it (`TransitionInv`); and the work has ended
  before a run is closed (`StopInv`), which is what makes `closed` final in the
  record and in memory.
* `AgentCallProofs`: `CallTypeCorrect`, `ReceiptIsOfTheAnswer` and `BlockStands`,
  for every number of technical attempts and every set of session handles.
  `CallInv` consists of the budget window and the agreement of memory and
  journal (`RecordInv`), the one session of the role (`SessionInv`), what the
  position of the controller says of attempt, edits and artifacts (`AnswerInv`),
  and where a block may stand (`BlockInv`). `ReceiptAgrees` alone is not
  inductive: that no other outcome is recorded for an attempt with a receipt
  needs to know which outcome a record in progress will write.
* `AssignmentProofs`: `AssignmentTypeCorrect`, `AcceptedWorkIsProven`,
  `ReviewsSeeCheckedCode` and `FindingsStay`, for all limits, findings, contents,
  edits and resumes. `AssignmentInv` is about the recorded list of operations:
  results that count are of the current state (`Current`), of the unanswered
  operations only the last can be continued (`LastOpen`), the receipt of a
  review that may be replayed is of the checked content and decides on every
  unresolved finding (`ReceiptInv`), and a review that has passed the current
  state is the last word on it (`VerdictInv`). The counters are bounded by the
  separate `Budget` (lemma `BudgetKept`).
* `RunRouteProofs`: `RouteTypeCorrect`, `SuccessProven`,
  `RejectedStateNeverSucceeds` and `BaselineBeforeWork`, for every number of tasks,
  rounds, cycles, changes, input versions and resumes. `RouteInv` orders the
  operations of the run: their bases grow (`Bases`), a passed final check that is
  not forgotten has published the current state (`Passed`), no review follows a
  final check that may still be continued (`UnfinishedChecks`), and the reviews
  after a passed check saw its content, with only an exploration letting a
  further one follow (`Reviews`). With it, `StepInv` ties the step in progress to
  its operation and receipt. `OpsInv` takes the record as a parameter, so the
  lemmas on a pause, a result, a new operation and an observation are stated once
  and used by every action.
* `FeatureRepositoryProofs`: `TypeCorrect`, `GitHoldsWhole`,
  `OnlyEditsDisturbRecovery` and `RepositoryImplements` (`Spec => H!Spec`), for any set of
  features and any number of documents, journal entries, faults and saves. All four
  come from one inductive invariant (`RepoInvariant`), `DiskInv /\ RunInv /\
  HeadsInv`. `DiskInv` speaks of what a stop leaves, without the operation in
  flight: the participants of two phases are disjoint (`Disjoint`); under a file
  manifest a file holds the bytes before or those after, but for a document the user
  saved (`FileInv`); what a phase wants is a legal move from what it found
  (`PhaseInv`), and its participants are between the two (`PartInv`); a HEAD that
  has the journal and the state of a phase has its documents too, unless the user
  saved one (`CommitInv`); what a load finds is whole, with its approval in HEAD
  (`GitInv`); a feature that nothing recovers is complete (`FreeInv`); and what is in
  the index is listed in a manifest (`StagedInv`). The last three except what is
  `torn` or `ahead` and nothing else. `RunInv` speaks of the operation in flight and
  holds trivially once `pc` is idle, so that a stop needs no more than `DiskInv`: a
  mutation that begins makes a legal move of the files as they are (`ReadyInv`), the
  files not in `left` are written (`WriteInv`), rolled forward (`RedoInv`) or, while
  no step of the rollback failed, restored (`RollbackInv`), and the participants not
  in `todo` are what the phase wants, the others what it found (`BegunInv`).
  `HeadsInv` is there for the rollbacks: HEAD holds an entry of the journal a load
  finds or one from before the last fault, so an entry that is still to be written is
  never there already. Without it a phase begun again after its predecessor was
  rolled back could be taken for committed before its own commit.
  Every file written under a manifest, by an operation, a rollback, a recovery or the
  user, goes through the one lemma `FileChanges`. Three steps carry the refinement:
  `WriteFileManifestKeeps` (a mutation without a phase takes effect with its
  manifest, before any file changes), `CommitKeeps` (a phase takes effect with the
  commit, for one participant or two at once) and `FinishPhaseKeeps` (with a document
  saved before the commit, it takes effect when its manifest goes); `Tear` is
  `RemovePhaseManifestKeeps` after a failed step. A rollback that restores a document
  the user saved is an edit of what a load finds, and so are the saves themselves:
  without `Edit` the refinement would be false.
* `SpecFlowProofs`: `SpecTypeCorrect`, `PendingDraftIsOffered`,
  `SavedTextsSurvive` and `ApprovedTextsAgree`, for any number of versions, edits,
  crashes and reviews. Each action has a lemma on its effect; a step that touches
  neither texts nor what is known of them is `Quiet`. `SpecInv` adds to the types
  where a session must exist (`Sessions`); that a spec or a plan the state does not
  know is newer than every text it knows, and a text newer than the upstream texts it
  was written for (`TextInv`); that the flow leaves the intent only once it is
  approved, while a waiting draft is newer than the texts of the other stages
  (`FlowInv`); and what holds while an operation is in progress (`OpInv`): what it
  found could be the documents of now (`OpTexts`), a publication began over
  undisturbed documents and everything saved during it is newer than its text
  (`Publication`), and what an approval or a revised intent rests on stays true until
  its commit is made, also over a crash (`Phase`). `OpTexts` is needed because a
  rollback makes the documents of then those of now. Without the order of the texts
  the approval theorem fails: `/revise-spec` moves the flow back, and a draft could
  be older than the upstream text approved meanwhile. `SavedTextsSurvive` says of a
  saved text only what the code gives: it is safe from the program until the user's
  next save unless an operation looked at the documents before it was saved.

What the proofs assume of the constants: the outcomes of a record are among those
of the store (`OutcomeAssumption`); a call has at least one technical attempt, the
bound on attempts covers the window, and a fresh session handle differs from the
one it replaces (`AgentCallAssumption`, as each thread has its own identifier);
"no session" is not a session (`SessionAssumption`); limits are positive, as the
settings demand, and bounds are natural numbers; and `None`, the absence of a
file or of a manifest in `FeatureRepository`, is not the value of one
(`NoneAssumption`).

Three definitions of the model changed because of the proofs. `RunRoute.AfterCheck`,
`RunRoute.Next0` and `AgentCall.RecoverSuccess` were written as `CASE` with arms
that overlap, which TLC resolves by the first arm that holds and TLA+ leaves
open; they are now chains of conditions in the order of the code's tests.
In `FeatureRepository` an operation keeps what it writes of each participant as a
function and the participants still to mutate as a set, where it kept a sequence
of mutations: a set is what the invariant speaks of, and the order, coordinator
first, is that of `Current`.

`ProjectionFollows`, `WorkContinuesFromRecorded` and `TerminalRunIsFrozen` state
properties that no run checks any more: the theorems say more.

Only model-checked:
* `RunState`: `CountersMatchAttempts`, which counts the members of sets of operations that
  every method changes.
* Liveness under fairness (`CommandsAnswered`, `CallEnds`, `Converges`, `Settles`),
  which TLAPS does not prove, nor ENABLED. Induction over data is used nowhere.
* `SavedRunLoads`, `PauseHolds`, `RollbackKeepsSaves` and `RevisionsWait` are false of the
  code (section 4).

## 6. Assumptions and what is not modelled

* A successful `Sync` makes the file durable; an SQLite transaction with
  `synchronous = FULL` is atomic and durable. The transient durability mode that
  tests use is not modelled.
* Rebuilding the projection at opening is one step; the renames of its sidecar
  files are not split.
* `UserControl` reduces a run to its status, so a record that would erase an
  attempt is not visible there.
* `CommitProtocol`: the branch is linear and not switched, there are no
  submodules, the user changes the working copy only while the run is paused or
  down, and specification and configuration do not change (that they do is
  modelled in `RunState`).
* `Assignment`: the operations of the explorer, of brief refinement and of
  disputes are left out; a command that could not be run is the first of its
  set; edits happen on a pause only, as the documentation asks. `RunRoute`: the
  work of an assignment is one step; the files are also edited while the final
  review runs, because the code guards that.
* `AgentCall`: one operation and one role. The JSON of an answer is one of
  answer, malformed or error.
* `FeatureRepository`: one document stands for three. A temporary file
  `.stepan-write-*` left by a stop makes later phases refuse the feature; a stop
  inside `Create` before `state.json` leaves a directory that no load lists and
  that blocks other phases as an unclean tree (the exception in `Settles`); one
  blocked feature makes `DiscoverResumable` fail for all. These are not
  stated as properties. Assumed: a `git commit` that reports a failure has made no
  commit; the time stamp of a journal entry tells it from one written again after a
  fault (`at` counts the faults), and nothing else of the time is modelled; the
  removal of a directory a phase created does not fail (its error is ignored by the
  code). The first half of `OnlyEditsDisturb` (`BlockedOnlyByEdit`) is about a load
  that finds a manifest; a feature that a failed rollback left torn, without one, may
  be refused as well.
* `SpecFlow`: a phase reads the documents, checks what blocks it and writes its
  manifest in one step, and `Publish` includes the beginning of the checkpoint that
  follows, so a save between these is not separate from one just after them. A
  rollback is one step that succeeds; the failed ones are in `FeatureRepository`.
  Other mutations of `state.json` and the journal are whole. Single decisions on
  findings are not reachable from the interface; the limit of rework attempts, the
  supersession of an intent (it is in `FeatureRepository`), several features in one
  process and several changed documents at once (refused) are left out.
* Not modelled: the controller lock (its safety is the exclusive lock of the
  operating system), artifact publication with its marker, explorer, brief
  refinement and disputes beyond their operations in `RunState`, transports to
  agents, process trees, parsers and settings. Prompts, texts, menus and probes
  have no state to model.

## 7. Plan

1. Done: `RunState`, `RunStore` with `StateLog`, `UserControl`,
   `CommitProtocol`, the proofs above; `AgentCall`, `Assignment`, `RunRoute`;
   `FeatureRepository` with `FeatureHistory`, `SpecFlow`.
2. Done: the proofs of the safety properties of every module, and of both
   refinements. `CountersMatchAttempts` and liveness stay with TLC.
3. Artifact publication with its marker, refined to an immutable map; explorer
   and brief refinement; the session registry of the planning flow; transports;
   command execution.
