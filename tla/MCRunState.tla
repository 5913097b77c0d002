----------------------------- MODULE MCRunState -----------------------------
(***************************************************************************)
(* Instances of RunState for TLC.  A configuration picks one operation set *)
(* per scope, one limit function and the bounds of the lists.              *)
(***************************************************************************)
EXTENDS RunState, TLC

Template(kind, counter) ==
  [kind |-> kind, key |-> <<counter, "">>, uncounted |-> FALSE]
Research(episode) ==
  [kind |-> "agent", key |-> <<"explorer", episode>>, uncounted |-> FALSE]

\* One root task, or a root with one child and a second root.
OneTask == {<<0>>}
NestedTasks == {<<0, 1, 0>>}
AllTasks == OneTask \cup NestedTasks

RequiredChecks == Template("check", "none")
ResumeChecks == [RequiredChecks EXCEPT !.uncounted = TRUE]
TaskReview == Template("review", "assignment_review")
MandatoryChecks == Template("check", "mandatory_checks")
FinalReview == Template("review", "final_review")

\* Acceptance of an assignment: required checks and review.
AcceptanceTemplates == {MandatoryChecks, TaskReview}
\* The counter a success closes, the counter keyed by an episode, and one
\* that two operations of a cycle may share.
BudgetTemplates == {MandatoryChecks, Research("brief_refinement"), TaskReview}
ChecksOnly == {MandatoryChecks}

BaselineOnly == {RequiredChecks}
FinalTemplates == {RequiredChecks, FinalReview}
InputTemplates == {RequiredChecks, ResumeChecks}

LimitOne == [c \in Counters \ {"none"} |-> 1]
LimitTwo == [c \in Counters \ {"none"} |-> 2]
LimitMixed == [LimitTwo EXCEPT !["mandatory_checks"] = 1]

\* Code states, bases and trees are only compared with each other.
Symmetry ==
  {p @@ q @@ r : p \in Permutations(States), q \in Permutations(Bases), r \in Permutations(Trees)}

(***************************************************************************)
(* Scenarios: what a run of TLC explores is the union of several bounds on *)
(* the lists of the run, each small where another is large.                *)
(***************************************************************************)
AllWork == {WorkOf(a) : a \in Scopes}
AllOps == UNION {{w.ops[o] : o \in DOMAIN w.ops} : w \in AllWork}

\* The code states and the Git trees the run has seen.
SeenStates == {curState} \cup UNION {{r.state : r \in op.results} : op \in AllOps}
                \cup UNION {{c.state : c \in asgs[a].reconciled} : a \in DOMAIN asgs}
SeenTrees == UNION {asgs[a].intent \cup {c.tree : c \in asgs[a].reconciled}
                      : a \in DOMAIN asgs}
SeenBases == {basis} \cup {op.basis : op \in AllOps}
                     \cup UNION {{c.basis : c \in asgs[a].reconciled} : a \in DOMAIN asgs}

Bounds(nTasks, nBriefs, nAsgOps, nRunOps) ==
  /\ Len(tasks) <= nTasks
  /\ Len(runWork.ops) <= nRunOps
  /\ \A a \in DOMAIN asgs : /\ asgs[a].briefs <= nBriefs
                            /\ Len(asgs[a].work.ops) <= nAsgOps
Seen(nStates, nBases, nTrees) ==
  /\ Cardinality(SeenStates) <= nStates
  /\ Cardinality(SeenBases) <= nBases
  /\ Cardinality(SeenTrees) <= nTrees

\* A nested hierarchy, two leaves, one or two assignments.
Assignments == Bounds(3, 1, 2, 1) /\ Seen(2, 1, 1)
\* One task, two briefs, three operations, two trees.
Commits == Bounds(1, 2, 3, 1) /\ Seen(2, 1, 2)
\* Final acceptance on two code states.
FinalGate == Bounds(1, 1, 2, 3) /\ Seen(2, 1, 1)
\* A failed final review appends a task.
Appended == Bounds(2, 1, 2, 3) /\ Seen(1, 1, 1)
\* The acceptance basis changes.
NewInputs == /\ Bounds(1, 1, 2, 2) /\ Seen(1, 2, 1)
             /\ \A op \in AllOps : \A r \in op.results : r.status = "succeeded"

AcceptanceScenarios == Assignments \/ Commits \/ FinalGate \/ Appended \/ NewInputs

NoEpisodeEnded == \A w \in AllWork : \A k \in Keys : k[1] = "explorer" => w.cycle[k] = 1

\* Three operations of two counters, two attempts without outcome.
Budgets == /\ Bounds(1, 1, 3, 1) /\ Seen(1, 1, 1)
           /\ \A op \in AllOps : ~op.uncounted /\ op.key # TaskReview.key
           /\ \A op \in AllOps : op.attempts \in {<<>>, <<"none">>, <<"none", "none">>}
           /\ \A a \in DOMAIN asgs : \A k \in Keys : asgs[a].work.cycle[k] <= 2
           /\ \A k \in Keys : runWork.cycle[k] = 1
\* Mandatory checks with three attempts and three cycles.
Retries == /\ Bounds(1, 1, 2, 1) /\ Seen(1, 1, 1) /\ NoEpisodeEnded
           /\ \A op \in AllOps : op.kind = "check" /\ ~op.uncounted
\* Run operations only, on two bases.
Superseding == /\ Bounds(1, 1, 0, 3) /\ Seen(1, 2, 1) /\ NoEpisodeEnded
               /\ \A op \in AllOps : op.attempts \in {<<>>, <<"none">>}
               /\ \A op \in AllOps : \A r \in op.results : r.status = "succeeded"
\* Reviews of one assignment while the basis changes and returns.
Returning == /\ Bounds(1, 1, 3, 1) /\ Seen(1, 2, 1)
             /\ \A a \in DOMAIN asgs : \A o \in DOMAIN asgs[a].work.ops :
                  asgs[a].work.ops[o].key = TaskReview.key
             /\ \A op \in AllOps : ~op.uncounted /\ op.attempts \in {<<>>, <<"none">>}
             /\ \A a \in Scopes : \A k \in Keys : WorkOf(a).cycle[k] <= 2

BudgetScenarios == Budgets \/ Retries \/ Superseding \/ Returning
=============================================================================
