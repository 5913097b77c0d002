--------------------------- MODULE CommitProtocol ---------------------------
(***************************************************************************)
(* How an accepted assignment becomes a Git commit, and what a /resume     *)
(* makes of the working copy it finds: acceptance_reflection.go, commit.go,*)
(* commit_reconciliation.go and the working-copy part of resume.go in      *)
(* src/internal/flows/impl_loop, against workspace/git/commit.go.          *)
(*                                                                         *)
(* The run record is kept twice: `run' is the controller's *Run and        *)
(* `saved' the last event of the journal.  A call of StateStore.Record     *)
(* succeeds, fails without an event, or fails after its event is durable   *)
(* (RunStore has the detail); in the last case the store refuses every     *)
(* other event until the process is restarted.                             *)
(*                                                                         *)
(* The history is linear, so a commit is its position in `commits' and its *)
(* parent the position before.  Of a tree the protocol tells apart the     *)
(* code, the marks in tasks.md and the rules documents.  The user changes  *)
(* the working copy only while the run is paused or its process is gone.   *)
(***************************************************************************)
EXTENDS Naturals, Sequences, FiniteSets

CONSTANTS
  MaxAssignments,  \* bound: assignments of the run
  MaxCode,         \* bound: versions of the code
  MaxCommits       \* bound: commits on the branch

ASSUME CommitAssumption ==
  /\ MaxAssignments \in Nat \ {0} /\ MaxCode \in Nat \ {0}
  /\ MaxCommits \in Nat \ {0}

VARIABLES
  commits,    \* the branch: content, assignment (0: the user), message intact
  worktree,   \* the tree of the working copy
  index,      \* the tree staged in the index
  published,  \* the artifact ...-commit-reconciliation-state, {} or one
  run,        \* the controller's *Run
  saved,      \* the run in the last event of the journal
  pc          \* where the controller stands

git == <<commits, worktree, index>>
vars == <<git, published, run, saved, pc>>

Assignments == 1 .. MaxAssignments
Codes == 0 .. MaxCode
Trees == [code: Codes, marks: 0 .. MaxAssignments, rules: {0, 1}]
Commits == 1 .. MaxCommits
Snapshots == [head: Commits, tree: Trees, index: Trees]
Intents == [parent: Commits, tree: Trees]

Runs == [
  assignment: 0 .. MaxAssignments,   \* the latest assignment, 0: none yet
  stage: {"active", "reviewed", "accepted", "committed"},
  state: Snapshots,                  \* CurrentState
  accepted: SUBSET Snapshots,        \* Acceptance.State
  intent: SUBSET Intents,            \* Acceptance.PendingCommit
  reflection: SUBSET [of: Snapshots, snapshot: Snapshots],  \* latest result
  reflections: SUBSET Snapshots,     \* workspaces of all reflection results
  reconciled: SUBSET [assignment: Assignments, commit: Commits,
                      parent: Commits, tree: Trees, state: Snapshots],
  done: SUBSET [assignment: Assignments, commit: Commits, state: Snapshots]]

Positions == {"idle", "reflecting", "reflected", "staging", "committing",
              "created", "finalizing", "failed", "stuck", "paused", "down"}

Tip == Len(commits)
TipTree == commits[Tip].tree
Capture == [head |-> Tip, tree |-> worktree, index |-> index]

Baseline == [code |-> 0, marks |-> 0, rules |-> 0]
Before == [head |-> 1, tree |-> Baseline, index |-> Baseline]

\* A run whose tasks are extracted and whose initial checks have passed.
Init ==
  /\ commits = <<[tree |-> Baseline, by |-> 0, intact |-> TRUE]>>
  /\ worktree = Baseline /\ index = Baseline
  /\ published = {}
  /\ run = [assignment |-> 0, stage |-> "committed", state |-> Before,
            accepted |-> {}, intent |-> {}, reflection |-> {},
            reflections |-> {}, reconciled |-> {}, done |-> {}]
  /\ saved = run
  /\ pc = "idle"

(***************************************************************************)
(* Transitions of the run record.                                          *)
(***************************************************************************)
\* Mutant: the intent outlives the acceptance it belongs to.
ReopenedWithIntent(r) == [r EXCEPT !.stage = "active", !.accepted = {}]

\* Run.reopenAssignment: the acceptance and its intent move to the history.
Reopened(r) == [r EXCEPT !.stage = "active", !.accepted = {}, !.intent = {}]

\* Mutant: a new code state leaves the acceptance of the old one in force.
ObservedOnly(r, s) == [r EXCEPT !.state = s]

\* Run.ObserveCodeState: evidence of another state no longer counts.
Observed(r, s) ==
  LET moved == [r EXCEPT !.state = s]
  IN  IF s = r.state THEN r
      ELSE IF r.stage \in {"reviewed", "accepted"} THEN Reopened(moved) ELSE moved

\* Run.CommitAssignment.
Completed(r, commit) ==
  LET s == CHOOSE x \in r.accepted : TRUE
  IN  [r EXCEPT !.stage = "committed", !.state = s, !.accepted = {}, !.intent = {},
                !.done = @ \cup {[assignment |-> r.assignment, commit |-> commit,
                                  state |-> s]}]

(***************************************************************************)
(* StateStore.Record.  `kept' is what the caller's Run is when there is no *)
(* event: the run before it where the caller restores a checkpoint or      *)
(* records a candidate, the changed run where it does neither.             *)
(***************************************************************************)
Save(candidate, kept, next) ==
  \/ run' = candidate /\ saved' = candidate /\ pc' = next
  \/ run' = kept /\ saved' = saved /\ pc' = "failed"
  \/ run' = candidate /\ saved' = candidate /\ pc' = "stuck"

\* A failure that leaves the run active ends in a pause of its own.
Pause == Save(run, run, "paused")

(***************************************************************************)
(* Up to the accepted assignment: the brief, the implementation with its   *)
(* checks and review, and the marks in tasks.md.                           *)
(***************************************************************************)
StartAssignment ==
  /\ pc = "idle" /\ run.stage = "committed" /\ run.assignment < MaxAssignments
  /\ run' = [run EXCEPT !.assignment = @ + 1, !.stage = "active"]
  /\ saved' = run'
  /\ UNCHANGED <<git, published, pc>>

\* The implementer edits the working copy in its turn.
Implement ==
  /\ pc = "idle" /\ run.stage = "active"
  /\ \E c \in Codes \ {worktree.code} : worktree' = [worktree EXCEPT !.code = c]
  /\ UNCHANGED <<commits, index, published, run, saved, pc>>

\* implementation_ready, the required checks and the review of that state.
Review ==
  /\ pc = "idle" /\ run.stage = "active"
  /\ run' = [Observed(run, Capture) EXCEPT !.stage = "reviewed"]
  /\ saved' = run'
  /\ UNCHANGED <<git, published, pc>>

\* AcceptAssignmentAndReflectProgress, first record: the acceptance and the
\* reserved reflection operation.
AcceptAssignment ==
  /\ pc = "idle" /\ run.stage = "reviewed"
  /\ LET accepted == [run EXCEPT !.stage = "accepted", !.accepted = {run.state},
                                 !.reflection = {}]
     IN  Save(accepted, accepted, "reflecting")
  /\ UNCHANGED <<git, published>>

ReflectionCurrent == \E r \in run.reflection : r.of \in run.accepted

\* After a restart the reflection is made again while no result belongs to
\* the current acceptance.
ContinueReflection ==
  /\ pc = "idle" /\ run.stage = "accepted" /\ run.intent = {} /\ ~ReflectionCurrent
  /\ LET reserved == [run EXCEPT !.reflection = {}]
     IN  Save(reserved, reserved, "reflecting")
  /\ UNCHANGED <<git, published>>

\* The orchestrator may change tasks.md and nothing else.
ReflectTasks ==
  /\ pc = "reflecting"
  /\ \E m \in {worktree.marks, run.assignment} : worktree' = [worktree EXCEPT !.marks = m]
  /\ pc' = "reflected"
  /\ UNCHANGED <<commits, index, published, run, saved>>

RecordReflection ==
  /\ pc = "reflected"
  /\ LET result == [of |-> run.state, snapshot |-> Capture]
         reflected == [run EXCEPT !.reflection = {result},
                                  !.reflections = @ \cup {Capture}]
     IN  Save(reflected, reflected, "idle")
  /\ UNCHANGED <<git, published>>

(***************************************************************************)
(* CommitAcceptedAssignment.                                               *)
(***************************************************************************)
\* runRestartAcceptedAssignment: the prepared parent and tree, those of a
\* pending intent before those of the reflected workspace.
Preparations ==
  IF run.intent # {} THEN run.intent
  ELSE {[parent |-> r.snapshot.head, tree |-> r.snapshot.tree] :
          r \in {x \in run.reflection : x.of \in run.accepted}}

\* reusableReconciledCommit: HEAD is a commit a hook changed, and exactly its
\* content has been accepted since.
Reusable(p) ==
  {c \in run.reconciled :
     /\ c.assignment = run.assignment
     /\ c.commit = p.parent /\ c.tree = p.tree /\ c.state \in run.accepted}

Committing(p) == pc = "idle" /\ run.stage = "accepted" /\ p \in Preparations

\* finalizeReconciledCommit, first record.
AdoptReconciled ==
  \E p \in Preparations : \E c \in Reusable(p) :
    /\ Committing(p)
    /\ Save([run EXCEPT !.intent = {[parent |-> c.parent, tree |-> c.tree]}], run,
            "finalizing")
    /\ UNCHANGED <<git, published>>

\* finalizeReconciledCommit, second record.
FinalizeReconciled ==
  /\ pc = "finalizing"
  /\ Save(Completed(run, Tip), run, "idle")
  /\ UNCHANGED <<git, published>>

\* Mutant: an intent that was not recorded stays in the Run.
RecordIntentUnrestored ==
  \E p \in Preparations :
    /\ Committing(p) /\ run.intent = {} /\ Reusable(p) = {}
    /\ Save([run EXCEPT !.intent = {p}], [run EXCEPT !.intent = {p}], "staging")
    /\ UNCHANGED <<git, published>>

\* The intent is durable before Git is changed.
RecordIntent ==
  \E p \in Preparations :
    /\ Committing(p) /\ run.intent = {} /\ Reusable(p) = {}
    /\ Save([run EXCEPT !.intent = {p}], run, "staging")
    /\ UNCHANGED <<git, published>>

\* commitMatchesIntent without the tree: HEAD is the one child of the
\* intended parent and carries the intended message and trailers.
OwnChild(i) ==
  /\ Tip = i.parent + 1
  /\ commits[Tip].by = run.assignment /\ commits[Tip].intact

\* Mutant: only the working copy is compared with the commit.
WorktreeChanged(i) == worktree # TipTree

\* A hook changed the content of the commit or what it left behind.
ContentChanged(i) == TipTree # i.tree \/ worktree # TipTree

\* ReconcilePendingCommit: a matching commit is adopted, an unchanged
\* working copy is committed again, anything else is ambiguous.
Reconcile ==
  \E i \in run.intent :
    /\ Committing(i) /\ Reusable(i) = {}
    /\ IF OwnChild(i) /\ ~ContentChanged(i)
       THEN Save(Completed(run, Tip), run, "idle")
       ELSE IF Tip = i.parent /\ worktree = i.tree
       THEN pc' = "staging" /\ UNCHANGED <<run, saved>>
       ELSE Pause
    /\ UNCHANGED <<git, published>>

\* git add --all.
StageAll ==
  /\ pc = "staging"
  /\ index' = worktree /\ pc' = "committing"
  /\ UNCHANGED <<commits, worktree, published, run, saved>>

\* git add fails; git commit is refused by a hook or has nothing to commit.
CommitRefused ==
  /\ pc \in {"staging", "committing"}
  /\ Pause
  /\ UNCHANGED <<git, published>>

\* What hooks make of a commit: nothing, other code committed, other code
\* left in the working copy.
HookResults ==
  {[tree |-> index, left |-> worktree]}
  \cup {[tree |-> t, left |-> t] : t \in {[index EXCEPT !.code = c] : c \in Codes}}
  \cup {[tree |-> index, left |-> w] : w \in {[worktree EXCEPT !.code = c] : c \in Codes}}

CreateCommit ==
  /\ pc = "committing" /\ index # TipTree /\ Tip < MaxCommits
  /\ \E h \in HookResults, intact \in BOOLEAN :
       /\ commits' = Append(commits, [tree |-> h.tree, by |-> run.assignment,
                                      intact |-> intact])
       /\ worktree' = h.left /\ index' = h.tree
  /\ pc' = "created"
  /\ UNCHANGED <<published, run, saved>>

\* The commit exists, but the call was canceled or its facts are unreadable.
CommitUnobserved ==
  /\ pc = "created"
  /\ Pause
  /\ UNCHANGED <<git, published>>

VerifyMatch ==
  \E i \in run.intent :
    /\ pc = "created" /\ OwnChild(i) /\ ~ContentChanged(i)
    /\ Save(Completed(run, Tip), run, "idle")
    /\ UNCHANGED <<git, published>>

VerifyMismatch ==
  \E i \in run.intent :
    /\ pc = "created" /\ ~OwnChild(i)
    /\ Pause
    /\ UNCHANGED <<git, published>>

\* Run.Publish: an artifact is never replaced by another.
Publishable == published \subseteq {Capture}

\* reconcileChangedCommit: the actual state is published under an ID made of
\* the operation ID, the same one for every commit of the run; the commit is
\* retained and the assignment reopened, and the call ends in an error.
ReopenChanged ==
  \E i \in run.intent :
    /\ pc = "created" /\ OwnChild(i) /\ ContentChanged(i)
    /\ Publishable /\ published' = {Capture}
    /\ LET retained == [assignment |-> run.assignment, commit |-> Tip,
                        parent |-> i.parent, tree |-> TipTree, state |-> Capture]
           reopened == Reopened([run EXCEPT !.reconciled = @ \cup {retained},
                                            !.state = Capture])
       IN  Save(reopened, reopened, "failed")
    /\ UNCHANGED git

\* The publication conflicts with an earlier one.
PublicationRefused ==
  \E i \in run.intent :
    /\ pc = "created" /\ OwnChild(i) /\ ContentChanged(i)
    /\ ~Publishable
    /\ Pause
    /\ UNCHANGED <<git, published>>

(***************************************************************************)
(* Pauses, crashes and the user.                                           *)
(***************************************************************************)
\* A /pause between two steps, or pauseRestartContinuation after an error.
PauseRun ==
  /\ pc \in {"idle", "failed"}
  /\ Pause
  /\ UNCHANGED <<git, published>>

Crash ==
  /\ pc # "down"
  /\ pc' = "down"
  /\ UNCHANGED <<git, published, run, saved>>

\* RecoverOwnRun: the recorded run, paused.
Recover ==
  /\ pc = "down"
  /\ run' = saved /\ pc' = "paused"
  /\ UNCHANGED <<git, published, saved>>

Unattended == pc \in {"paused", "down"}

UserEdits ==
  /\ Unattended
  /\ \/ \E c \in Codes \ {worktree.code} : worktree' = [worktree EXCEPT !.code = c]
     \/ worktree' = [worktree EXCEPT !.rules = 1 - @]
  /\ UNCHANGED <<commits, index, published, run, saved, pc>>

UserStages ==
  /\ Unattended /\ index # worktree
  /\ index' = worktree
  /\ UNCHANGED <<commits, worktree, published, run, saved, pc>>

UserCommits ==
  /\ Unattended /\ worktree # TipTree /\ Tip < MaxCommits
  /\ commits' = Append(commits, [tree |-> worktree, by |-> 0, intact |-> FALSE])
  /\ index' = worktree
  /\ UNCHANGED <<worktree, published, run, saved, pc>>

(***************************************************************************)
(* Resume: the working copy against the snapshot of CurrentState.          *)
(***************************************************************************)
\* rulesOnlyWorkspaceChange; the index is not compared.
RulesOnly(a, b) ==
  /\ a.head = b.head /\ a.tree # b.tree
  /\ [a.tree EXCEPT !.rules = b.tree.rules] = b.tree

MarksOnly(a, b) == a # b /\ [a EXCEPT !.marks = b.marks] = b

\* pendingCommitWorkspace: what a refused git commit leaves behind.
PendingWorkspace ==
  /\ Tip = run.state.head
  /\ [parent |-> Tip, tree |-> worktree] \in run.intent

\* reflectedTasksThenRulesWorkspace: recorded results of a reflection that
\* explain the working copy, up to rules.
Reflections ==
  {r \in run.reflections :
     /\ Tip = run.state.head
     /\ r.head = run.state.head /\ r.index = run.state.index
     /\ MarksOnly(run.state.tree, r.tree)
     /\ r = Capture \/ RulesOnly(r, Capture)}

\* Mutant: HEAD is not compared.
IndexUnmoved == index = run.state.index

\* verifyResumeGitControl.
ControlUnmoved == Tip = run.state.head /\ index = run.state.index

Explained ==
  \/ Capture = run.state
  \/ PendingWorkspace
  \/ Reflections # {}
  \/ RulesOnly(run.state, Capture)

\* RefreshPendingCommitIntentTree, of the intent that commits a reflection.
Refreshed(r) ==
  IF Capture # run.state
     /\ \E s \in Reflections : [parent |-> s.head, tree |-> s.tree] \in r.intent
  THEN [r EXCEPT !.intent = {[parent |-> i.parent, tree |-> worktree] : i \in @}]
  ELSE r

\* Work goes on, with an explained working copy or with its new state.
Resume ==
  /\ pc = "paused"
  /\ Explained \/ ControlUnmoved
  /\ LET candidate == IF Explained THEN Refreshed(run) ELSE Observed(run, Capture)
     IN  \/ run' = candidate /\ saved' = candidate /\ pc' = "idle"
         \/ UNCHANGED <<run, saved, pc>>
         \/ run' = candidate /\ saved' = candidate /\ pc' = "stuck"
  /\ UNCHANGED <<git, published>>

\* A durable execution block is all a refused /resume leaves.
ResumeRefused ==
  /\ pc = "paused" /\ ~Explained /\ ~ControlUnmoved
  /\ UNCHANGED vars

Next ==
  \/ StartAssignment \/ Implement \/ Review
  \/ AcceptAssignment \/ ContinueReflection \/ ReflectTasks \/ RecordReflection
  \/ AdoptReconciled \/ FinalizeReconciled \/ RecordIntent \/ Reconcile
  \/ StageAll \/ CommitRefused \/ CreateCommit \/ CommitUnobserved
  \/ VerifyMatch \/ VerifyMismatch \/ ReopenChanged \/ PublicationRefused
  \/ PauseRun \/ Crash \/ Recover
  \/ UserEdits \/ UserStages \/ UserCommits \/ Resume \/ ResumeRefused

Spec == Init /\ [][Next]_vars

(***************************************************************************)
(* Properties.                                                             *)
(***************************************************************************)
\* The record is well formed; an intent belongs to an acceptance, and the
\* acceptance is of the current state.
RunOK(r) ==
  /\ r \in Runs
  /\ r.stage = "accepted" => r.accepted = {r.state}
  /\ r.stage # "accepted" => r.accepted = {} /\ r.intent = {}
  /\ Cardinality(r.intent) <= 1 /\ Cardinality(r.reflection) <= 1

TypeOK ==
  /\ Tip \in Commits
  /\ \A k \in 1 .. Tip :
       commits[k] \in [tree: Trees, by: 0 .. MaxAssignments, intact: BOOLEAN]
  /\ worktree \in Trees /\ index \in Trees
  /\ published \subseteq Snapshots
  /\ RunOK(run) /\ RunOK(saved)
  /\ pc \in Positions

\* The controller commits only what it recorded that it would: the code that
\* was checked and reviewed, on the parent of the recorded intent.
CommitsAcceptedCode ==
  [][pc = "committing" /\ Tip' > Tip =>
       \E s \in saved.accepted, i \in saved.intent :
         i.parent = Tip /\ index.code = s.tree.code]_vars

\* An assignment is complete in the record only with a commit of its own that
\* holds the code its acceptance was given for, whatever hooks, failures and
\* restarts came between.
CompletedIsCommitted ==
  \A d \in saved.done :
    /\ d.commit <= Tip
    /\ commits[d.commit].by = d.assignment
    /\ commits[d.commit].tree.code = d.state.tree.code
    /\ \A e \in saved.done : e.assignment = d.assignment => e = d

\* No commit of the controller is forgotten: the record holds it as completed,
\* as retained for another acceptance, or as the intent still to be settled.
CommitsAccountedFor ==
  \A k \in 1 .. Tip : commits[k].by # 0 =>
    \/ \E d \in saved.done : d.commit = k /\ d.assignment = commits[k].by
    \/ \E c \in saved.reconciled : c.commit = k /\ c.assignment = commits[k].by
    \/ /\ saved.assignment = commits[k].by
       /\ \E i \in saved.intent : i.parent + 1 = k

\* The controller never relies on an intent or a completion that a restart
\* would not find.
OnlyRecordedCounts ==
  pc # "down" => run.intent \subseteq saved.intent /\ run.done \subseteq saved.done

\* What the specification says of a restart after the commit and before its
\* record: the commit is matched with its assignment, so /resume goes on.
CommitRecognized ==
  pc = "paused" /\ (\E i \in run.intent : OwnChild(i) /\ ~ContentChanged(i)) =>
    Explained \/ ControlUnmoved

\* What the specification says of a hook that changed the content: the
\* assignment goes to another acceptance of the actual state, so that state
\* can be published.
HookChangeReaccepted ==
  pc = "created" /\ (\E i \in run.intent : OwnChild(i) /\ ContentChanged(i)) =>
    Publishable

\* What the specification says of the marks in tasks.md: by themselves they
\* require no other review, so /resume keeps the acceptance of unchanged code.
MarksKeepAcceptance ==
  [][pc = "paused" /\ run.stage = "accepted" /\ run'.stage # "accepted" =>
       ~MarksOnly(run.state.tree, worktree)]_vars
=============================================================================
