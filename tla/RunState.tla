------------------------------ MODULE RunState ------------------------------
(***************************************************************************)
(* The durable aggregate of one implementation run: the type Run of        *)
(* src/internal/flows/impl_loop/state/state.go and its methods.  A run     *)
(* holds the task hierarchy, the assignments that work through its leaves, *)
(* the operations dispatched for the run and for each assignment, the      *)
(* results that are evidence, and the lifecycle.  One action is one method *)
(* of Run; a call that returns an error leaves the run as it was and is    *)
(* not a step.  Next chooses the arguments the controller passes.          *)
(*                                                                         *)
(* Data is abstracted to what the methods compare: a code state, an        *)
(* acceptance basis (specification and configuration versions) and a Git   *)
(* tree are opaque values; a task, an assignment, a brief and an operation *)
(* are named by their position in the list that holds them; the results of *)
(* an operation are kept on the operation, so that a result identifier is  *)
(* the operation that it answers.                                          *)
(***************************************************************************)
EXTENDS Naturals, Sequences, FiniteSets

CONSTANTS
  States,              \* digests of observed code states (EvidenceRef)
  Bases,               \* acceptance bases: <specification, configuration>
  Trees,               \* Git trees a commit may have
  Hierarchies,         \* task hierarchies an extraction may return
  AssignmentTemplates, \* operations dispatched for an assignment
  RunTemplates,        \* operations dispatched for the run
  Limit,               \* CycleLimits: counter name -> limit
  TechnicalAttempts,   \* CycleLimits.TechnicalAttempts
  AttemptOutcomes,     \* outcomes an attempt may be given
  ResultStatuses,      \* statuses a result may have
  MaxTasks,            \* bounds of the instance
  MaxBriefs,
  MaxAsgOps,
  MaxRunOps,
  MaxAttempts,
  MaxCycle

Counters == {"none", "assignment_review", "mandatory_checks",
             "checks_requested", "brief_refinement", "explorer",
             "final_review"}
Kinds == {"agent", "check", "review"}

\* A counter is keyed by its name and, for Explorer, by the source episode.
NoKey == <<"none", "">>
Keys == {t.key : t \in AssignmentTemplates \cup RunTemplates}

Templates == [kind : Kinds, key : Counters \X STRING, uncounted : BOOLEAN]

\* CycleCounter.matchesOperationKind.
MatchesKind(t) ==
  CASE t.key[1] = "none" -> TRUE
    [] t.key[1] \in {"assignment_review", "final_review"} -> t.kind = "review"
    [] t.key[1] \in {"mandatory_checks", "checks_requested"} -> t.kind = "check"
    [] t.key[1] \in {"brief_refinement", "explorer"} -> t.kind = "agent"

ASSUME TemplateAssumption ==
  /\ AssignmentTemplates \subseteq Templates
  /\ RunTemplates \subseteq Templates
  /\ \A t \in AssignmentTemplates \cup RunTemplates :
       /\ MatchesKind(t)
       /\ t.key[1] = "none" <=> t.key = NoKey
       /\ t.uncounted => t.kind = "check" /\ t.key = NoKey
  /\ \A t \in AssignmentTemplates : t.key[1] # "final_review" /\ ~t.uncounted
  /\ \A t \in RunTemplates : t.key[1] \in {"none", "final_review", "explorer"}

ASSUME LimitAssumption ==
  /\ Limit \in [Counters \ {"none"} -> Nat \ {0}]
  /\ TechnicalAttempts \in Nat \ {0}

ASSUME EvidenceAssumption ==
  /\ AttemptOutcomes \subseteq {"succeeded", "failed", "interrupted", "rejected"}
  /\ ResultStatuses \subseteq {"succeeded", "failed", "interrupted"}

ASSUME BoundAssumption ==
  /\ MaxTasks \in Nat /\ MaxBriefs \in Nat /\ MaxAsgOps \in Nat
  /\ MaxRunOps \in Nat /\ MaxAttempts \in Nat /\ MaxCycle \in Nat

\* A hierarchy gives each task in order the position of its parent, 0 for a
\* root; a parent precedes its children (validateStructure).
ASSUME HierarchyAssumption ==
  \A h \in Hierarchies :
    /\ h \in Seq(Nat)
    /\ h # <<>>
    /\ \A i \in 1..Len(h) : h[i] < i

VARIABLES
  status,        \* Run.Status
  limitPause,    \* Run.LimitPause
  blocked,       \* Run.ExecutionBlock # nil
  curState,      \* Run.CurrentState
  basis,         \* Run.Identity.{Specification, Configuration}
  extracting,    \* Run.TaskExtractionPending
  tasks,         \* Run.Tasks
  leafStatus,    \* Run.LeafStatus
  baseline,      \* Run.InitialBaseline, with its status
  asgs,          \* Run.Assignments
  runWork,       \* Run.RunOperations, RunResults and run counters
  final,         \* Run.FinalAcceptance
  finalHistory   \* Run.FinalAcceptanceHistory

vars == <<status, limitPause, blocked, curState, basis, extracting, tasks,
          leafStatus, baseline, asgs, runWork, final, finalHistory>>
lifecycle == <<status, limitPause, blocked>>
inputs == <<curState, basis>>
plan == <<extracting, tasks, leafStatus>>
finals == <<final, finalHistory>>

(***************************************************************************)
(* Records.                                                                *)
(***************************************************************************)
Result == [status : ResultStatuses, state : States]

Operation ==
  [kind : Kinds, key : Keys, brief : Nat, basis : Bases, uncounted : BOOLEAN,
   supersedes : Nat, attempts : Seq(AttemptOutcomes \cup {"none"}),
   round : Nat, cycle : Nat, techStart : Nat, results : SUBSET Result]

\* The operations of one scope with the counters they consume: a
\* CycleCounters of an assignment, or the run-level counters.
Work == [ops : Seq(Operation), count : [Keys -> Nat], cycle : [Keys -> Nat]]

Evidence == [brief : Nat, state : States, basis : Bases,
             checks : SUBSET Nat, review : Nat]
Commit == [tree : Trees, state : States, basis : Bases]

\* A field holds a set with at most one element where Go has a pointer.
Optional(S) == {x \in SUBSET S : \A y, z \in x : y = z}

Assignment ==
  [tasks : SUBSET Nat, status : {"active", "accepted", "committed"},
   briefs : Nat, work : Work, acceptance : Optional(Evidence),
   intent : Optional(Trees), history : SUBSET Evidence,
   commit : Optional(Commit), reconciled : SUBSET Commit]

LimitPause == [scope : Nat, op : Nat, key : Keys, technical : BOOLEAN]

Statuses == {"active", "paused", "closed", "succeeded"}
TaskStatuses == {"pending", "accepted", "complete"}

NoWork == [ops |-> <<>>, count |-> [k \in Keys |-> 0],
           cycle |-> [k \in Keys |-> 1]]

(***************************************************************************)
(* Tasks.                                                                  *)
(***************************************************************************)
\* isLeaf: the tasks no other task names as its parent.
LeavesOf(ts) == {i \in DOMAIN ts : \A j \in DOMAIN ts : ts[j].parent # i}
Leaves == LeavesOf(tasks)

\* PendingLeafTasks.
PendingLeaves == {i \in Leaves : leafStatus[i] = "pending"}

AllLeavesComplete == \A i \in Leaves : leafStatus[i] = "complete"

\* Mutant: the statuses are rebuilt from the tasks of one assignment.
MarkedAlone(T, s) == [i \in T |-> s]

Marked(T, s) == [i \in DOMAIN leafStatus |-> IF i \in T THEN s ELSE leafStatus[i]]

(***************************************************************************)
(* Scopes: 0 is the run, a > 0 is assignment a.                            *)
(***************************************************************************)
Scopes == {0} \cup DOMAIN asgs
WorkOf(a) == IF a = 0 THEN runWork ELSE asgs[a].work
SetWork(a, w) ==
  IF a = 0 THEN runWork' = w /\ UNCHANGED asgs
           ELSE asgs' = [asgs EXCEPT ![a].work = w] /\ UNCHANGED runWork

\* requireActive and activeAssignment.
Active == status = "active"
ActiveAssignment(a) == Active /\ asgs[a].status = "active"
\* requireActive, or activeAssignment in the scope of an assignment.
ActiveScope(a) == Active /\ (a # 0 => asgs[a].status = "active")

HasOpenAssignment == \E a \in DOMAIN asgs : asgs[a].status # "committed"

Superseded(o) == \E p \in DOMAIN runWork.ops : runWork.ops[p].supersedes = o

(***************************************************************************)
(* Evidence.                                                               *)
(***************************************************************************)
\* One result proves a code state under a basis: it is a success observed on
\* exactly that state by an operation of that kind, brief and basis.
Proves(op, kind, brief, s, b) ==
  /\ op.kind = kind /\ op.brief = brief /\ op.basis = b
  /\ [status |-> "succeeded", state |-> s] \in op.results

\* validateAcceptance and validateFinalAcceptance without its currency part.
EvidenceHolds(w, e) ==
  /\ e.checks # {}
  /\ e.checks \subseteq DOMAIN w.ops
  /\ e.review \in DOMAIN w.ops
  /\ \A c \in e.checks : Proves(w.ops[c], "check", e.brief, e.state, e.basis)
  /\ Proves(w.ops[e.review], "review", e.brief, e.state, e.basis)

\* The baseline evidence: validateInitialBaseline.
BaselineHolds(e) ==
  /\ e.op \in DOMAIN runWork.ops
  /\ runWork.ops[e.op].key = NoKey
  /\ Proves(runWork.ops[e.op], "check", 0, e.state, e.basis)

\* hasCurrentInitialBaseline: the state must be current for the first
\* assignment only.
HasCurrentBaseline ==
  \E e \in baseline : /\ e.basis = basis
                      /\ BaselineHolds(e)
                      /\ asgs # <<>> \/ e.state = curState

\* isFailedFinalReview.
FailedFinalReview(o) ==
  /\ o \in DOMAIN runWork.ops
  /\ runWork.ops[o].kind = "review"
  /\ runWork.ops[o].key[1] = "final_review"
  /\ \E r \in runWork.ops[o].results : r.status = "failed"

\* invalidateFinalAcceptance.
InvalidateFinal ==
  /\ final' = {}
  /\ finalHistory' = finalHistory \cup final

\* reopenAssignment, as the new value of the assignment.
Reopened(asg) ==
  [asg EXCEPT !.history = @ \cup asg.acceptance, !.acceptance = {},
              !.intent = {}, !.status = "active"]

(***************************************************************************)
(* The run and its tasks.                                                  *)
(***************************************************************************)
\* NewRunPendingTaskExtraction.
Init ==
  /\ status = "active" /\ limitPause = {} /\ blocked = FALSE
  /\ curState \in States /\ basis \in Bases
  /\ extracting = TRUE /\ tasks = <<>> /\ leafStatus = <<>>
  /\ baseline = {} /\ asgs = <<>> /\ runWork = NoWork
  /\ final = {} /\ finalHistory = {}

CompleteInitialTaskExtraction(h) ==
  /\ Active /\ extracting
  /\ extracting' = FALSE
  /\ tasks' = [i \in 1..Len(h) |-> [parent |-> h[i], origin |-> 0]]
  /\ leafStatus' = [i \in LeavesOf(tasks') |-> "pending"]
  /\ UNCHANGED <<lifecycle, inputs, baseline, asgs, runWork, finals>>

\* The n new tasks are root leaves that answer the failed final review o.
AppendFinalFindingTasks(n, o) ==
  LET added == (Len(tasks) + 1)..(Len(tasks) + n)
  IN /\ Active
     /\ HasCurrentBaseline /\ ~HasOpenAssignment
     /\ AllLeavesComplete
     /\ n > 0 /\ FailedFinalReview(o)
     /\ tasks' = [i \in 1..(Len(tasks) + n) |->
                    IF i \in added THEN [parent |-> 0, origin |-> o] ELSE tasks[i]]
     /\ leafStatus' = [i \in DOMAIN leafStatus \cup added |->
                         IF i \in added THEN "pending" ELSE leafStatus[i]]
     /\ InvalidateFinal
     /\ UNCHANGED <<lifecycle, inputs, extracting, baseline, asgs, runWork>>

\* T is a non-empty prefix of the pending leaves in task order.
StartAssignment(T) ==
  /\ Active
  /\ HasCurrentBaseline
  /\ ~HasOpenAssignment
  /\ T # {} /\ T \subseteq PendingLeaves
  /\ \A i \in T, j \in PendingLeaves \ T : i < j
  /\ asgs' = Append(asgs, [tasks |-> T, status |-> "active", briefs |-> 0,
                           work |-> NoWork, acceptance |-> {}, intent |-> {},
                           history |-> {}, commit |-> {}, reconciled |-> {}])
  /\ InvalidateFinal
  /\ UNCHANGED <<lifecycle, inputs, plan, baseline, runWork>>

\* refreshInitialBaselinePass: operation o succeeded on the current inputs.
SetBaseline(o) ==
  LET e == [op |-> o, state |-> curState, basis |-> basis]
  IN /\ BaselineHolds(e)
     /\ baseline' = {e}
     /\ UNCHANGED <<lifecycle, inputs, plan, asgs, runWork, finals>>

RecordInitialBaselinePass(o) ==
  /\ Active /\ ~extracting /\ asgs = <<>>
  /\ SetBaseline(o)

RefreshInitialBaselinePass(o) ==
  /\ Active /\ ~extracting
  /\ runWork.ops[o].uncounted
  /\ SetBaseline(o)

(***************************************************************************)
(* Operations, attempts and results of a scope.                            *)
(***************************************************************************)
NewOperation(t, brief, prior) ==
  [kind |-> t.kind, key |-> t.key, brief |-> brief, basis |-> basis,
   uncounted |-> t.uncounted, supersedes |-> prior, attempts |-> <<>>,
   round |-> 0, cycle |-> 0, techStart |-> 0, results |-> {}]

WithOperation(w, op) == [w EXCEPT !.ops = Append(@, op)]

\* AddBriefVersion.
AddBriefVersion(a) ==
  /\ ActiveAssignment(a)
  /\ asgs' = [asgs EXCEPT ![a].briefs = @ + 1]
  /\ UNCHANGED <<lifecycle, inputs, plan, baseline, runWork, finals>>

\* AddOperation: the controller names the current brief and basis.
AddOperation(a, t) ==
  /\ ActiveAssignment(a)
  /\ asgs[a].briefs > 0
  /\ SetWork(a, WithOperation(WorkOf(a), NewOperation(t, asgs[a].briefs, 0)))
  /\ UNCHANGED <<lifecycle, inputs, plan, baseline, finals>>

AddRunOperation(t) ==
  /\ Active
  /\ SetWork(0, WithOperation(runWork, NewOperation(t, 0, 0)))
  /\ UNCHANGED <<lifecycle, inputs, plan, baseline, finals>>

\* SupersedeRunOperation: unfinished work of an older basis is replaced by
\* the same work on the current basis.
SupersedeRunOperation(o) ==
  LET prior == runWork.ops[o]
  IN /\ Active
     /\ prior.results = {} /\ prior.basis # basis
     /\ ~Superseded(o)
     /\ SetWork(0, WithOperation(runWork,
                     NewOperation([kind |-> prior.kind, key |-> prior.key,
                                   uncounted |-> prior.uncounted], 0, o)))
     /\ UNCHANGED <<lifecycle, inputs, plan, baseline, finals>>

\* technicalAttempts: attempts in the current technical retry window.
TechnicalCount(op) == Len(op.attempts) - op.techStart

\* Mutant: one attempt more than the limit.
TechnicalPassed(op) == TechnicalCount(op) > TechnicalAttempts

\* allowAssignmentAttempt and the limit part of StartRunAttemptWithLimits: the
\* technical window is looked at first, the semantic counter only when the
\* operation has no attempt yet.
TechnicalExhausted(op) == TechnicalCount(op) >= TechnicalAttempts
CounterExhausted(w, op) ==
  /\ op.attempts = <<>> /\ op.key # NoKey
  /\ w.count[op.key] >= Limit[op.key[1]]

\* startAttempt and startRunAttempt: the first attempt of an operation takes
\* the next semantic round of its counter, a retry keeps that round.
WithAttempt(w, o) ==
  LET op == w.ops[o]
      counts == op.attempts = <<>> /\ op.key # NoKey
      tried == [op EXCEPT !.attempts = Append(@, "none"),
                          !.round = IF counts THEN w.count[op.key] + 1 ELSE @,
                          !.cycle = IF counts THEN w.cycle[op.key] ELSE @]
  IN [w EXCEPT !.ops[o] = tried,
               !.count = [k \in Keys |-> IF counts /\ k = op.key
                                         THEN w.count[k] + 1 ELSE w.count[k]]]

\* Only the required checks of the run are dispatched without limits.
Unlimited(a, o) == a = 0 /\ runWork.ops[o].kind = "check"

MayAttempt(a, o) ==
  /\ ActiveScope(a)
  /\ ~WorkOf(a).ops[o].uncounted
  /\ WorkOf(a).ops[o].results = {}

\* StartAssignmentAttemptWithLimits and StartRunAttemptWithLimits when the
\* attempt is allowed: it is reserved before the caller dispatches.
StartAttemptWithLimits(a, o) ==
  LET w == WorkOf(a)
  IN /\ MayAttempt(a, o) /\ ~Unlimited(a, o)
     /\ ~TechnicalExhausted(w.ops[o]) /\ ~CounterExhausted(w, w.ops[o])
     /\ SetWork(a, WithAttempt(w, o))
     /\ UNCHANGED <<lifecycle, inputs, plan, baseline, finals>>

\* The same calls when a limit is reached: pauseForLimit, and no attempt.
PauseForLimit(a, o) ==
  LET op == WorkOf(a).ops[o]
  IN /\ MayAttempt(a, o) /\ ~Unlimited(a, o)
     /\ TechnicalExhausted(op) \/ CounterExhausted(WorkOf(a), op)
     /\ status' = "paused"
     /\ limitPause' = {[scope |-> a, op |-> o, key |-> op.key,
                        technical |-> TechnicalExhausted(op)]}
     /\ UNCHANGED <<blocked, inputs, plan, baseline, asgs, runWork, finals>>

\* StartRunAttempt: the initial and final required checks have no limit.
StartRunAttempt(o) ==
  /\ MayAttempt(0, o) /\ Unlimited(0, o)
  /\ SetWork(0, WithAttempt(runWork, o))
  /\ UNCHANGED <<lifecycle, inputs, plan, baseline, finals>>

\* RecordAssignmentAttemptOutcome and RecordRunAttemptOutcome: allowed in a
\* paused run, because a safety check may pause it before the outcome of the
\* attempt it dispatched is recorded.
RecordAttemptOutcome(a, o, outcome) ==
  LET op == WorkOf(a).ops[o]
      n == Len(op.attempts)
  IN /\ status \in {"active", "paused"}
     /\ a # 0 => asgs[a].status = "active"
     /\ n > 0 /\ op.attempts[n] = "none"
     /\ SetWork(a, [WorkOf(a) EXCEPT !.ops[o].attempts[n] = outcome])
     /\ UNCHANGED <<lifecycle, inputs, plan, baseline, finals>>

WithResult(w, o, r) == [w EXCEPT !.ops[o].results = @ \cup {r}]

\* Mutant: the counter restarts inside the old cycle.
WithZeroCount(w, k) == [w EXCEPT !.count[k] = 0]

\* A successful mandatory set closes its cycle: the counter restarts at 0.
WithNextCycle(w, k) == [w EXCEPT !.count[k] = 0, !.cycle[k] = @ + 1]

Answerable(op) == op.uncounted \/ op.attempts # <<>>

AddResult(a, o, r) ==
  LET op == asgs[a].work.ops[o]
      w == WithResult(asgs[a].work, o, r)
  IN /\ ActiveAssignment(a)
     /\ Answerable(op)
     /\ SetWork(a, IF op.key[1] = "mandatory_checks" /\ r.status = "succeeded"
                   THEN WithNextCycle(w, op.key) ELSE w)
     /\ UNCHANGED <<lifecycle, inputs, plan, baseline, finals>>

\* AddRunResult: allowed in a paused run as well.
AddRunResult(o, r) ==
  /\ status \in {"active", "paused"}
  /\ Answerable(runWork.ops[o])
  /\ SetWork(0, WithResult(runWork, o, r))
  /\ UNCHANGED <<lifecycle, inputs, plan, baseline, finals>>

\* EndExplorerEpisode and EndRunExplorerEpisode.
EndExplorerEpisode(a, k) ==
  /\ ActiveScope(a)
  /\ k[1] = "explorer"
  /\ SetWork(a, WithNextCycle(WorkOf(a), k))
  /\ UNCHANGED <<lifecycle, inputs, plan, baseline, finals>>

(***************************************************************************)
(* Acceptance and commit of an assignment.                                 *)
(***************************************************************************)
\* Mutant: the checks alone accept an assignment.
AcceptUnreviewed(a, checks, review) ==
  LET e == [brief |-> asgs[a].briefs, state |-> curState, basis |-> basis,
            checks |-> checks, review |-> review]
  IN /\ ActiveAssignment(a) /\ asgs[a].briefs > 0
     /\ \A c \in checks : Proves(asgs[a].work.ops[c], "check", e.brief, curState, basis)
     /\ asgs' = [asgs EXCEPT ![a].acceptance = {e}, ![a].status = "accepted"]
     /\ leafStatus' = Marked(asgs[a].tasks, "accepted")
     /\ UNCHANGED <<lifecycle, inputs, extracting, tasks, baseline, runWork, finals>>

AcceptAssignment(a, checks, review) ==
  LET e == [brief |-> asgs[a].briefs, state |-> curState, basis |-> basis,
            checks |-> checks, review |-> review]
  IN /\ ActiveAssignment(a)
     /\ asgs[a].briefs > 0
     /\ EvidenceHolds(asgs[a].work, e)
     /\ asgs' = [asgs EXCEPT ![a].acceptance = {e}, ![a].status = "accepted"]
     /\ leafStatus' = Marked(asgs[a].tasks, "accepted")
     /\ UNCHANGED <<lifecycle, inputs, extracting, tasks, baseline, runWork, finals>>

Accepted(a) == Active /\ asgs[a].status = "accepted"

SetPendingCommitIntent(a, tree) ==
  /\ Accepted(a)
  /\ asgs' = [asgs EXCEPT ![a].intent = {tree}]
  /\ UNCHANGED <<lifecycle, inputs, plan, baseline, runWork, finals>>

RefreshPendingCommitIntentTree(a, tree) ==
  /\ Accepted(a)
  /\ asgs[a].intent # {}
  /\ asgs' = [asgs EXCEPT ![a].intent = {tree}]
  /\ UNCHANGED <<lifecycle, inputs, plan, baseline, runWork, finals>>

\* CommitAssignment is the only transition that completes leaves.
CommitAssignment(a, c) ==
  /\ Accepted(a)
  /\ asgs[a].intent = {c.tree}
  /\ \A e \in asgs[a].acceptance : c.state = e.state /\ c.basis = e.basis
  /\ c.state = curState /\ c.basis = basis
  /\ asgs' = [asgs EXCEPT ![a].commit = {c}, ![a].status = "committed"]
  /\ leafStatus' = Marked(asgs[a].tasks, "complete")
  /\ InvalidateFinal
  /\ UNCHANGED <<lifecycle, inputs, extracting, tasks, baseline, runWork>>

\* RecordReconciledCommit: a hook changed the committed content.
RecordReconciledCommit(a, c) ==
  /\ Accepted(a)
  /\ c.basis = basis
  /\ \A d \in asgs[a].reconciled : d.tree # c.tree
  /\ asgs' = [asgs EXCEPT ![a].reconciled = @ \cup {c}]
  /\ UNCHANGED <<lifecycle, inputs, plan, baseline, runWork, finals>>

ReopenAssignment(a, s) ==
  /\ Accepted(a)
  /\ \A e \in asgs[a].acceptance : e.basis # basis \/ e.state # s
  /\ curState' = s
  /\ asgs' = [asgs EXCEPT ![a] = Reopened(@)]
  /\ leafStatus' = Marked(asgs[a].tasks, "pending")
  /\ InvalidateFinal
  /\ UNCHANGED <<lifecycle, basis, extracting, tasks, baseline, runWork>>

\* BeginBriefRefinement of an accepted assignment; of an active one it
\* changes nothing.
BeginBriefRefinement(a) ==
  /\ Accepted(a)
  /\ asgs' = [asgs EXCEPT ![a] = Reopened(@)]
  /\ leafStatus' = Marked(asgs[a].tasks, "pending")
  /\ InvalidateFinal
  /\ UNCHANGED <<lifecycle, inputs, extracting, tasks, baseline, runWork>>

\* The assignments in S lose an acceptance that the new inputs made stale.
ReopenAll(S) ==
  /\ asgs' = [a \in DOMAIN asgs |-> IF a \in S THEN Reopened(asgs[a]) ELSE asgs[a]]
  /\ leafStatus' = Marked(UNION {asgs[a].tasks : a \in S}, "pending")
  /\ InvalidateFinal

\* Mutants: a committed assignment is reopened too; none is.
ClosedAssignments == {a \in DOMAIN asgs : asgs[a].status # "active"}
NoAssignments == {}

AcceptedAssignments == {a \in DOMAIN asgs : asgs[a].status = "accepted"}

ObserveCodeState(s) ==
  /\ Active
  /\ s # curState
  /\ curState' = s
  /\ ReopenAll({a \in AcceptedAssignments :
                  \E e \in asgs[a].acceptance : e.state # s})
  /\ UNCHANGED <<lifecycle, basis, extracting, tasks, baseline, runWork>>

RefreshAcceptanceInputs(b) ==
  /\ Active
  /\ b # basis
  /\ basis' = b
  /\ ReopenAll(AcceptedAssignments)
  /\ UNCHANGED <<lifecycle, curState, extracting, tasks, baseline, runWork>>

(***************************************************************************)
(* Final acceptance and lifecycle.                                         *)
(***************************************************************************)
RecordFinalAcceptance(checks, review) ==
  LET e == [brief |-> 0, state |-> curState, basis |-> basis,
            checks |-> checks, review |-> review]
  IN /\ Active
     /\ ~HasOpenAssignment /\ AllLeavesComplete
     /\ EvidenceHolds(runWork, e)
     /\ final' = {e}
     /\ finalHistory' = finalHistory \cup final
     /\ UNCHANGED <<lifecycle, inputs, plan, baseline, asgs, runWork>>

Pause ==
  /\ Active
  /\ status' = "paused" /\ blocked' = FALSE /\ limitPause' = {}
  /\ UNCHANGED <<inputs, plan, baseline, asgs, runWork, finals>>

PauseExecutionBlocked ==
  /\ Active
  /\ status' = "paused" /\ blocked' = TRUE /\ limitPause' = {}
  /\ UNCHANGED <<inputs, plan, baseline, asgs, runWork, finals>>

\* A failed /resume records its diagnostic in the paused run.
UpdatePausedExecutionBlock ==
  /\ status = "paused"
  /\ blocked' = TRUE /\ limitPause' = {}
  /\ UNCHANGED <<status, inputs, plan, baseline, asgs, runWork, finals>>

\* resetLimitPause as a relation between the work of the paused scope before
\* and after it: the technical window restarts at the attempts already made,
\* or the exhausted counter starts a new cycle.
ResetWork(w, p) ==
  IF p.technical THEN [w EXCEPT !.ops[p.op].techStart = Len(w.ops[p.op].attempts)]
  ELSE WithNextCycle(w, p.key)

ResetAllowed(p) ==
  IF p.technical THEN WorkOf(p.scope).ops[p.op].results = {}
  ELSE p.scope # 0 => asgs[p.scope].status = "active"

Resume ==
  /\ status = "paused"
  /\ status' = "active" /\ blocked' = FALSE /\ limitPause' = {}
  /\ \/ limitPause = {} /\ UNCHANGED <<asgs, runWork>>
     \/ \E p \in limitPause : /\ ResetAllowed(p)
                              /\ SetWork(p.scope, ResetWork(WorkOf(p.scope), p))
  /\ UNCHANGED <<inputs, plan, baseline, finals>>

Close ==
  /\ status \in {"active", "paused"}
  /\ status' = "closed" /\ blocked' = FALSE /\ limitPause' = {}
  /\ UNCHANGED <<inputs, plan, baseline, asgs, runWork, finals>>

\* validateFinalAcceptance for the acceptance that is still in force.
FinalAcceptanceCurrent ==
  \A e \in final :
    /\ e.state = curState /\ e.basis = basis
    /\ ~HasOpenAssignment /\ AllLeavesComplete
    /\ EvidenceHolds(runWork, e)

Succeed ==
  /\ Active
  /\ AllLeavesComplete
  /\ final # {} /\ FinalAcceptanceCurrent
  /\ status' = "succeeded"
  /\ UNCHANGED <<limitPause, blocked, inputs, plan, baseline, asgs, runWork, finals>>

(***************************************************************************)
(* Run.Validate, which every copy, every record of the journal and every   *)
(* row of the projection passes: a state it refuses cannot be saved, and a *)
(* saved one not loaded.                                                   *)
(***************************************************************************)
\* validateStructure: parents come first, a finding task answers a failed
\* final review.
ValidStructure ==
  /\ extracting <=> tasks = <<>>
  /\ \A i \in DOMAIN tasks :
       /\ tasks[i].parent < i
       /\ tasks[i].origin # 0 => FailedFinalReview(tasks[i].origin)

\* validateLifecycle: only a paused run has a reason to be paused.
ValidLifecycle == status # "paused" => ~blocked /\ limitPause = {}

\* Operation.valid.
ValidOperation(op) ==
  /\ MatchesKind(op)
  /\ op.uncounted => op.kind = "check" /\ op.key = NoKey /\ op.attempts = <<>>
  /\ op.attempts # <<>> => /\ op.key = NoKey <=> op.round = 0
                           /\ op.key = NoKey <=> op.cycle = 0
  /\ op.techStart <= Len(op.attempts)

\* A result answers an operation that was attempted.
ValidAnswers(op) == op.results # {} => Answerable(op)

\* validateAcceptance.
ValidAcceptance(asg, e, latest) ==
  /\ e.brief \in 1..asg.briefs
  /\ latest => e.brief = asg.briefs
  /\ EvidenceHolds(asg.work, e)

ValidAssignment(asg) ==
  /\ asg.tasks # {} /\ asg.tasks \subseteq Leaves
  /\ \A o \in DOMAIN asg.work.ops :
       LET op == asg.work.ops[o]
       IN /\ ValidOperation(op) /\ ValidAnswers(op)
          /\ op.supersedes = 0 /\ ~op.uncounted /\ op.brief \in 1..asg.briefs
  /\ \A e \in asg.history : ValidAcceptance(asg, e, FALSE)
  /\ asg.status = "active" => asg.acceptance = {} /\ asg.commit = {}
  /\ asg.status # "active" => \E e \in asg.acceptance : ValidAcceptance(asg, e, TRUE)
  /\ asg.status = "accepted" => asg.commit = {}
  /\ asg.status = "committed" =>
       \E c \in asg.commit : \E e \in asg.acceptance :
         asg.intent = {c.tree} /\ c.state = e.state /\ c.basis = e.basis

\* The status a leaf has in an assignment of this status.
LeafStatusIn(s) == CASE s = "active" -> "pending"
                     [] s = "accepted" -> "accepted"
                     [] s = "committed" -> "complete"

\* The assignments take the leaves in task order, one after the other, and
\* the status of a leaf is that of its assignment.
ValidAssignments ==
  /\ DOMAIN leafStatus = Leaves
  /\ \A a \in DOMAIN asgs :
       /\ ValidAssignment(asgs[a])
       /\ asgs[a].status = "accepted" =>
            \A e \in asgs[a].acceptance : e.state = curState /\ e.basis = basis
       /\ \A b \in 1..(a - 1) : asgs[b].status = "committed"
       /\ \A i \in asgs[a].tasks : leafStatus[i] = LeafStatusIn(asgs[a].status)
       /\ \A i \in asgs[a].tasks, j \in Leaves \ UNION {asgs[b].tasks : b \in 1..a} : i < j
       /\ \A b \in 1..(a - 1) : asgs[a].tasks \cap asgs[b].tasks = {}
  /\ \A i \in Leaves \ UNION {asgs[a].tasks : a \in DOMAIN asgs} : leafStatus[i] = "pending"

\* A replacement follows the unanswered operation it replaces, on a new basis.
ValidRunOperations ==
  \A o \in DOMAIN runWork.ops :
    LET op == runWork.ops[o]
        prior == runWork.ops[op.supersedes]
    IN /\ ValidOperation(op) /\ ValidAnswers(op) /\ op.brief = 0
       /\ op.key[1] \in {"none", "final_review", "explorer"}
       /\ op.supersedes # 0 =>
            /\ op.supersedes < o
            /\ \A p \in 1..(o - 1) : runWork.ops[p].supersedes # op.supersedes
            /\ prior.results = {} /\ prior.basis # op.basis
            /\ prior.kind = op.kind /\ prior.key = op.key

\* No assignment without a baseline, and no baseline without tasks.
ValidBaseline ==
  /\ \A e \in baseline : BaselineHolds(e)
  /\ baseline = {} => asgs = <<>>
  /\ extracting => baseline = {}

Attempted(w, k, cycle) ==
  {o \in DOMAIN w.ops : w.ops[o].attempts # <<>> /\ w.ops[o].key = k
                        /\ w.ops[o].cycle = cycle}

\* validateCounters: a counter is the number of operations that consumed the
\* current cycle, and the rounds of a cycle follow the order of operations.
ValidCounters ==
  \A a \in Scopes : \A k \in Keys \ {NoKey} :
    LET w == WorkOf(a)
    IN /\ w.count[k] = Cardinality(Attempted(w, k, w.cycle[k]))
       /\ \A o \in DOMAIN w.ops :
            w.ops[o].attempts # <<>> /\ w.ops[o].key = k =>
              w.ops[o].round = Cardinality(
                {p \in Attempted(w, k, w.ops[o].cycle) : p <= o})

\* The end of Validate.
ValidFinal ==
  /\ FinalAcceptanceCurrent
  /\ \A e \in finalHistory : EvidenceHolds(runWork, e)
  /\ status = "succeeded" => final # {} /\ AllLeavesComplete

ValidRecord ==
  /\ ValidStructure /\ ValidLifecycle
  /\ ValidAssignments /\ ValidRunOperations
  /\ ValidBaseline /\ ValidFinal

\* Validate.
ValidRun == ValidRecord /\ ValidCounters

(***************************************************************************)
(* The calls the controller makes.  A bound of the instance is a conjunct  *)
(* beside the action it limits.                                            *)
(***************************************************************************)
\* An operation the controller may still dispatch: it has no result, was not
\* superseded and belongs to the current brief and basis
\* (classifyRestartAssignmentAction, latestIncompleteRunOperation and the
\* "existing operation" branch of the calls that add one).  An unfinished
\* brief refinement is taken up on any basis; a requested check set or a
\* research call is dispatched right after it was added and never later.
Resumable(a, o) ==
  LET w == WorkOf(a)
      op == w.ops[o]
  IN /\ op.results = {}
     /\ op.basis = basis \/ op.key[1] = "brief_refinement"
     /\ IF a = 0 THEN ~Superseded(o) ELSE op.brief = asgs[a].briefs
     /\ op.key[1] \in {"checks_requested", "explorer"} =>
          \A p \in DOMAIN w.ops : p > o => w.ops[p].key # op.key

\* A counted operation is added only when none of its counter can be taken
\* up; research is always a new operation.
MayAdd(a, t) ==
  t.key[1] \notin {"none", "explorer"} =>
    \A o \in DOMAIN WorkOf(a).ops :
      Resumable(a, o) => WorkOf(a).ops[o].key # t.key

\* dispatchRestartStep: tasks are extracted before any check runs, and the
\* run is reviewed as a whole when every leaf is complete.
Due(t) ==
  /\ t.kind # "agent" => ~extracting
  /\ t.key[1] = "final_review" => ~HasOpenAssignment /\ PendingLeaves = {}

PlanStep ==
  \/ \E h \in Hierarchies : CompleteInitialTaskExtraction(h)
  \/ \E n \in 1..(MaxTasks - Len(tasks)), o \in DOMAIN runWork.ops :
        AppendFinalFindingTasks(n, o)
  \/ \E T \in SUBSET PendingLeaves : StartAssignment(T)
  \/ \E o \in DOMAIN runWork.ops :
        RecordInitialBaselinePass(o) \/ RefreshInitialBaselinePass(o)

OperationStep ==
  \/ \E a \in DOMAIN asgs : asgs[a].briefs < MaxBriefs /\ AddBriefVersion(a)
  \/ \E a \in DOMAIN asgs, t \in AssignmentTemplates :
        /\ Len(asgs[a].work.ops) < MaxAsgOps
        /\ MayAdd(a, t)
        /\ AddOperation(a, t)
  \/ \E t \in RunTemplates :
        /\ Len(runWork.ops) < MaxRunOps
        /\ MayAdd(0, t) /\ Due(t)
        /\ AddRunOperation(t)
  \/ \E o \in DOMAIN runWork.ops :
        /\ Len(runWork.ops) < MaxRunOps
        /\ SupersedeRunOperation(o)
  \/ \E a \in Scopes : \E k \in Keys :
        WorkOf(a).cycle[k] < MaxCycle /\ EndExplorerEpisode(a, k)

AttemptStep ==
  \E a \in Scopes : \E o \in DOMAIN WorkOf(a).ops :
    \/ /\ Resumable(a, o)
       /\ \/ Len(WorkOf(a).ops[o].attempts) < MaxAttempts /\ StartAttemptWithLimits(a, o)
          \/ PauseForLimit(a, o)
          \/ a = 0 /\ Len(WorkOf(a).ops[o].attempts) < MaxAttempts /\ StartRunAttempt(o)
    \/ \E outcome \in AttemptOutcomes : RecordAttemptOutcome(a, o, outcome)

\* An operation is answered once, and never after it was superseded.
ResultStep ==
  \E a \in Scopes : \E o \in DOMAIN WorkOf(a).ops, r \in Result :
    /\ WorkOf(a).ops[o].results = {} /\ (a = 0 => ~Superseded(o))
    /\ \/ /\ a # 0
          /\ WorkOf(a).cycle[WorkOf(a).ops[o].key] < MaxCycle
          /\ AddResult(a, o, r)
       \/ a = 0 /\ AddRunResult(o, r)

AcceptanceStep ==
  \E a \in DOMAIN asgs :
    \/ \E c, r \in DOMAIN asgs[a].work.ops : AcceptAssignment(a, {c}, r)
    \/ BeginBriefRefinement(a)
    \/ \E t \in Trees : \/ SetPendingCommitIntent(a, t)
                        \/ RefreshPendingCommitIntentTree(a, t)
    \/ \E t \in Trees, s \in States :
          LET c == [tree |-> t, state |-> s, basis |-> basis]
          IN CommitAssignment(a, c) \/ (asgs[a].intent # {} /\ RecordReconciledCommit(a, c))
    \/ \E s \in States : ReopenAssignment(a, s)

InputStep ==
  \/ \E s \in States : ObserveCodeState(s)
  \/ \E b \in Bases : RefreshAcceptanceInputs(b)

LifecycleStep ==
  \/ \E c, r \in DOMAIN runWork.ops : RecordFinalAcceptance({c}, r)
  \/ Pause \/ PauseExecutionBlocked \/ UpdatePausedExecutionBlock
  \/ /\ \A p \in limitPause : WorkOf(p.scope).cycle[p.key] < MaxCycle
     /\ Resume
  \/ Close \/ Succeed

Next == \/ PlanStep \/ OperationStep \/ AttemptStep \/ ResultStep
        \/ AcceptanceStep \/ InputStep \/ LifecycleStep

Spec == Init /\ [][Next]_vars

(***************************************************************************)
(* Properties.                                                             *)
(***************************************************************************)
TypeOK ==
  /\ status \in Statuses
  /\ limitPause \in Optional(LimitPause)
  /\ blocked \in BOOLEAN
  /\ curState \in States
  /\ basis \in Bases
  /\ extracting \in BOOLEAN
  /\ tasks \in Seq([parent : Nat, origin : Nat])
  /\ leafStatus \in [Leaves -> TaskStatuses]
  /\ baseline \in Optional([op : Nat, state : States, basis : Bases])
  /\ asgs \in Seq(Assignment)
  /\ runWork \in Work
  /\ final \in Optional(Evidence)
  /\ finalHistory \in SUBSET Evidence

\* Run.Validate but for the counters: every state the methods produce, in any
\* order the controller calls them, can be saved and loaded again.  What an
\* assignment was accepted or committed on is a successful check and review of
\* its latest brief on one code state and basis; leaves, assignments, baseline
\* and final acceptance agree.
RecordStaysValid == ValidRecord

\* The counters are those of the attempts, however limits, resumes and new
\* inputs interleave with operations that are recorded and attempted later: the
\* rounds of a cycle are numbered without a gap or a repetition, the counter is
\* the last of them, and on one basis they follow the order of the operations,
\* which is what Validate asks of every pair (SavedRunLoads).
CountersMatchAttempts ==
  \A a \in Scopes : \A k \in Keys \ {NoKey} :
    LET w == WorkOf(a)
        Round(o) == w.ops[o].round
    IN /\ w.count[k] = Cardinality(Attempted(w, k, w.cycle[k]))
       /\ \A c \in 1..w.cycle[k] :
            LET ops == Attempted(w, k, c)
            IN /\ {Round(o) : o \in ops} = 1..Cardinality(ops)
               /\ \A o, p \in ops :
                    o < p /\ w.ops[o].basis = w.ops[p].basis => Round(o) < Round(p)

\* Validate refuses a run whose "semantic rounds are not sequential": a run
\* built by the methods is one that can be saved and loaded again.
SavedRunLoads == ValidRun

\* No counter passes its limit and no technical window holds more attempts
\* than configured, however pauses, resumes and crashes interleave; only the
\* required checks of the run are attempted without a limit.
BudgetsRespected ==
  \A a \in Scopes :
    /\ \A k \in Keys \ {NoKey} : WorkOf(a).count[k] <= Limit[k[1]]
    /\ \A o \in DOMAIN WorkOf(a).ops :
         LET op == WorkOf(a).ops[o]
         IN ~Unlimited(a, o) => TechnicalCount(op) <= TechnicalAttempts

\* A closed or succeeded run never changes again.
TerminalIsFinal == [][status \notin {"closed", "succeeded"}]_vars

\* A complete leaf stays complete, and becomes complete only in the step that
\* commits its assignment on the evidence accepted before.
LeavesCompleteByCommit ==
  [][\A i \in Leaves :
       /\ leafStatus[i] = "complete" => leafStatus'[i] = "complete"
       /\ leafStatus[i] # "complete" /\ leafStatus'[i] = "complete" =>
            \E a \in DOMAIN asgs :
              /\ i \in asgs[a].tasks
              /\ asgs[a].status = "accepted" /\ asgs'[a].status = "committed"
              /\ asgs[a].acceptance = asgs'[a].acceptance]_vars

\* docs/implementation-loop.md: after a pause for a limit, /resume resets the
\* counter that caused the pause.  The record of that counter is therefore
\* given up only by the reset itself or by closing the run.
LimitPauseIsHonoured ==
  [][limitPause # {} /\ limitPause' = {} => status' \in {"active", "closed"}]_vars
=============================================================================
