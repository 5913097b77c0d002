--------------------------- MODULE RunStateProofs ---------------------------
(***************************************************************************)
(* Theorems about RunState for every value of its constants: type          *)
(* correctness; a terminal run is frozen; every record passes              *)
(* Run.Validate; the budgets are respected; leaves complete by a commit    *)
(* alone. TypeOK needs one fact beside itself: the leaves stay the domain  *)
(* of leafStatus when tasks are appended only because a parent precedes    *)
(* its children (TaskTree), so that no task already there becomes a        *)
(* parent. The proof is by groups of variables; each lemma *Work, *Inv     *)
(* shows what the steps do to one group. The three theorems about the      *)
(* record rest on RecordInv, defined in the second half: it is inductive   *)
(* relative to TypeInv, and each of the three is read off it or off a step *)
(* from it.                                                                *)
(***************************************************************************)
EXTENDS RunState, TLAPS, SequenceTheorems

\* A parent precedes its children.
TaskTree == \A j \in DOMAIN tasks : tasks[j].parent < j

TypeInv == TypeOK /\ TaskTree

(***************************************************************************)
(* The records of a scope.                                                 *)
(***************************************************************************)
LEMMA FunctionIsSequence ==
  ASSUME NEW S, NEW n \in Nat, NEW f \in [1..n -> S]
  PROVE  f \in Seq(S) /\ Len(f) = n
  BY SeqDef

LEMMA OptionalCases ==
  ASSUME NEW S
  PROVE  /\ {} \in Optional(S)
         /\ \A x \in S : {x} \in Optional(S)
         /\ \A X \in Optional(S) : X \subseteq S
  BY DEF Optional

\* Every key of the instance is a key, and so is the one that counts nothing.
LEMMA KeyOfTemplate ==
  ASSUME NEW t \in AssignmentTemplates \cup RunTemplates
  PROVE  t.key \in Keys /\ t.kind \in Kinds /\ t.uncounted \in BOOLEAN
  BY TemplateAssumption DEF Keys, Templates

LEMMA NoWorkType == NoWork \in Work
  BY EmptySeq DEF NoWork, Work

LEMMA NewOperationType ==
  ASSUME basis \in Bases, NEW brief \in Nat, NEW prior \in Nat, NEW t,
         t.key \in Keys, t.kind \in Kinds, t.uncounted \in BOOLEAN
  PROVE  NewOperation(t, brief, prior) \in Operation
  BY EmptySeq DEF NewOperation, Operation

LEMMA WithOperationType ==
  ASSUME NEW w \in Work, NEW op \in Operation
  PROVE  WithOperation(w, op) \in Work
<1>1. Append(w.ops, op) \in Seq(Operation)
  BY AppendProperties DEF Work
<1> QED
  BY <1>1 DEF WithOperation, Work

LEMMA WorkParts ==
  ASSUME NEW w \in Work
  PROVE  /\ w.ops \in Seq(Operation) /\ DOMAIN w.ops = 1 .. Len(w.ops)
         /\ \A o \in DOMAIN w.ops : w.ops[o] \in Operation
         /\ \A k \in Keys : w.count[k] \in Nat /\ w.cycle[k] \in Nat
  BY LenProperties, ElementOfSeq DEF Work

LEMMA WithOpType ==
  ASSUME NEW w \in Work, NEW o \in DOMAIN w.ops, NEW op \in Operation
  PROVE  [w EXCEPT !.ops[o] = op] \in Work
<1>1. [w.ops EXCEPT ![o] = op] \in Seq(Operation)
  BY WorkParts, ExceptSeq
<1> QED
  BY <1>1 DEF Work

LEMMA WithAttemptType ==
  ASSUME NEW w \in Work, NEW o \in DOMAIN w.ops
  PROVE  WithAttempt(w, o) \in Work
<1> DEFINE op == w.ops[o]
           counts == op.attempts = <<>> /\ op.key # NoKey
           tried == [op EXCEPT !.attempts = Append(@, "none"),
                               !.round = IF counts THEN w.count[op.key] + 1 ELSE @,
                               !.cycle = IF counts THEN w.cycle[op.key] ELSE @]
           count == [k \in Keys |-> IF counts /\ k = op.key
                                    THEN w.count[k] + 1 ELSE w.count[k]]
<1>1. op \in Operation /\ op.key \in Keys
  BY WorkParts DEF Operation
<1>2. Append(op.attempts, "none") \in Seq(AttemptOutcomes \cup {"none"})
  BY <1>1, AppendProperties DEF Operation
<1>3. tried \in Operation
  <2> DEFINE round == IF counts THEN w.count[op.key] + 1 ELSE op.round
             cycle == IF counts THEN w.cycle[op.key] ELSE op.cycle
  <2>1. round \in Nat /\ cycle \in Nat
    <3>1. w.count[op.key] \in Nat /\ w.cycle[op.key] \in Nat
      BY <1>1, WorkParts
    <3>2. op.round \in Nat /\ op.cycle \in Nat
      BY <1>1 DEF Operation
    <3> HIDE DEF op, counts
    <3> QED
      BY <3>1, <3>2
  <2>2. tried = [op EXCEPT !.attempts = Append(@, "none"), !.round = round, !.cycle = cycle]
    OBVIOUS
  <2> HIDE DEF op, round, cycle, tried
  <2> QED
    BY <1>1, <1>2, <2>1, <2>2 DEF Operation
<1>4. count \in [Keys -> Nat]
  BY WorkParts
<1>5. [w EXCEPT !.ops[o] = tried] \in Work
  <2> HIDE DEF tried
  <2> QED
    BY <1>3, WithOpType
<1>6. WithAttempt(w, o) = [[w EXCEPT !.ops[o] = tried] EXCEPT !.count = count]
  BY DEF WithAttempt, Work
<1> HIDE DEF tried, count
<1> QED
  BY <1>4, <1>5, <1>6 DEF Work

LEMMA WithResultType ==
  ASSUME NEW w \in Work, NEW o \in DOMAIN w.ops, NEW r \in Result
  PROVE  WithResult(w, o, r) \in Work
<1>1. [w.ops[o] EXCEPT !.results = @ \cup {r}] \in Operation
  BY ZenonT(60), WorkParts DEF Operation
<1>2. WithResult(w, o, r) = [w EXCEPT !.ops[o] = [w.ops[o] EXCEPT !.results = @ \cup {r}]]
  BY DEF WithResult
<1> QED
  BY SMTT(30), <1>1, <1>2, WithOpType

LEMMA WithNextCycleType ==
  ASSUME NEW w \in Work, NEW k \in Keys
  PROVE  WithNextCycle(w, k) \in Work
<1>1. [w.count EXCEPT ![k] = 0] \in [Keys -> Nat]
  BY DEF Work
<1>2. [w.cycle EXCEPT ![k] = @ + 1] \in [Keys -> Nat]
  BY DEF Work
<1>3. WithNextCycle(w, k) = [[w EXCEPT !.count = [w.count EXCEPT ![k] = 0]]
                               EXCEPT !.cycle = [w.cycle EXCEPT ![k] = @ + 1]]
  BY DEF WithNextCycle, Work
<1> QED
  BY <1>1, <1>2, <1>3 DEF Work

LEMMA WorkOfType ==
  ASSUME TypeOK, NEW a \in Scopes
  PROVE  /\ WorkOf(a) \in Work
         /\ a # 0 => asgs[a] \in Assignment
         /\ asgs \in Seq(Assignment) /\ DOMAIN asgs = 1 .. Len(asgs)
<1>1. asgs \in Seq(Assignment) /\ runWork \in Work
  BY DEF TypeOK
<1>2. DOMAIN asgs = 1 .. Len(asgs) /\ \A b \in DOMAIN asgs : asgs[b] \in Assignment
  BY <1>1, LenProperties, ElementOfSeq
<1> QED
  BY <1>1, <1>2 DEF Scopes, WorkOf, Assignment

LEMMA AssignmentType ==
  ASSUME TypeOK, NEW a \in DOMAIN asgs
  PROVE  asgs[a] \in Assignment /\ a \in Nat \ {0} /\ a \in Scopes
  BY LenProperties, ElementOfSeq DEF TypeOK, Scopes

LEMMA SetAssignmentType ==
  ASSUME TypeOK, NEW a \in DOMAIN asgs, NEW asg \in Assignment
  PROVE  [asgs EXCEPT ![a] = asg] \in Seq(Assignment)
  BY WorkOfType, ExceptSeq DEF Scopes

LEMMA SetWorkType ==
  ASSUME TypeOK, NEW a \in Scopes, NEW w \in Work, SetWork(a, w)
  PROVE  asgs' \in Seq(Assignment) /\ runWork' \in Work
<1>1. CASE a = 0
  BY <1>1 DEF SetWork, TypeOK
<1>2. CASE a # 0
  <2>1. a \in DOMAIN asgs /\ asgs' = [asgs EXCEPT ![a].work = w] /\ runWork' = runWork
    BY <1>2 DEF SetWork, Scopes
  <2>2. [asgs[a] EXCEPT !.work = w] \in Assignment
    BY <1>2, WorkOfType DEF Assignment
  <2>3. asgs' = [asgs EXCEPT ![a] = [asgs[a] EXCEPT !.work = w]]
    BY <2>1
  <2> QED
    BY <2>1, <2>2, <2>3, SetAssignmentType DEF TypeOK
<1> QED
  BY <1>1, <1>2

(***************************************************************************)
(* Operations, attempts and results of every scope keep their types.       *)
(***************************************************************************)
WorkTypes == asgs \in Seq(Assignment) /\ runWork \in Work

LEMMA OperationStepWork == ASSUME TypeOK, OperationStep PROVE WorkTypes'
<1>0. basis \in Bases
  BY DEF TypeOK
<1>1. ASSUME NEW a \in DOMAIN asgs, AddBriefVersion(a) PROVE WorkTypes'
  <2>1. [asgs[a] EXCEPT !.briefs = @ + 1] \in Assignment
    BY AssignmentType DEF Assignment
  <2>2. asgs' = [asgs EXCEPT ![a] = [asgs[a] EXCEPT !.briefs = @ + 1]] /\ runWork' = runWork
    BY <1>1 DEF AddBriefVersion
  <2> QED
    BY <2>1, <2>2, SetAssignmentType DEF WorkTypes, TypeOK
<1>2. ASSUME NEW a \in DOMAIN asgs, NEW t \in AssignmentTemplates, AddOperation(a, t)
      PROVE  WorkTypes'
  <2>1. a \in Scopes /\ a # 0 /\ asgs[a].briefs \in Nat
    BY WorkOfType DEF Scopes, Assignment
  <2>2. NewOperation(t, asgs[a].briefs, 0) \in Operation
    BY <1>0, <2>1, KeyOfTemplate, NewOperationType
  <2> QED
    BY <1>2, <2>1, <2>2, WorkOfType, WithOperationType, SetWorkType
    DEF AddOperation, WorkTypes
<1>3. ASSUME NEW t \in RunTemplates, AddRunOperation(t) PROVE WorkTypes'
  <2>1. NewOperation(t, 0, 0) \in Operation
    BY <1>0, KeyOfTemplate, NewOperationType
  <2> QED
    BY <1>3, <2>1, WithOperationType, SetWorkType DEF AddRunOperation, WorkTypes, TypeOK, Scopes
<1>4. ASSUME NEW o \in DOMAIN runWork.ops, SupersedeRunOperation(o) PROVE WorkTypes'
  <2> DEFINE t == [kind |-> runWork.ops[o].kind, key |-> runWork.ops[o].key,
                   uncounted |-> runWork.ops[o].uncounted]
  <2>1. runWork \in Work /\ runWork.ops[o] \in Operation /\ o \in Nat
    BY WorkParts DEF TypeOK
  <2>2. t.key \in Keys /\ t.kind \in Kinds /\ t.uncounted \in BOOLEAN
    BY <2>1 DEF Operation
  <2>3. SetWork(0, WithOperation(runWork, NewOperation(t, 0, o)))
    BY <1>4 DEF SupersedeRunOperation
  <2> HIDE DEF t
  <2>4. NewOperation(t, 0, o) \in Operation
    BY <1>0, <2>1, <2>2, NewOperationType
  <2> QED
    BY <2>1, <2>3, <2>4, WithOperationType, SetWorkType DEF WorkTypes, Scopes
<1>5. ASSUME NEW a \in Scopes, NEW k \in Keys, EndExplorerEpisode(a, k) PROVE WorkTypes'
  BY <1>5, WorkOfType, WithNextCycleType, SetWorkType DEF EndExplorerEpisode, WorkTypes
<1> QED
  BY <1>1, <1>2, <1>3, <1>4, <1>5 DEF OperationStep

LEMMA AttemptStepWork == ASSUME TypeOK, AttemptStep PROVE WorkTypes'
<1>1. PICK a \in Scopes : \E o \in DOMAIN WorkOf(a).ops :
        \/ StartAttemptWithLimits(a, o) \/ PauseForLimit(a, o)
        \/ a = 0 /\ StartRunAttempt(o)
        \/ \E outcome \in AttemptOutcomes : RecordAttemptOutcome(a, o, outcome)
  BY DEF AttemptStep
<1>2. PICK o \in DOMAIN WorkOf(a).ops :
        \/ StartAttemptWithLimits(a, o) \/ PauseForLimit(a, o)
        \/ a = 0 /\ StartRunAttempt(o)
        \/ \E outcome \in AttemptOutcomes : RecordAttemptOutcome(a, o, outcome)
  BY <1>1
<1>3. WorkOf(a) \in Work /\ WorkOf(a).ops[o] \in Operation
  BY WorkOfType, WorkParts
<1>4. CASE StartAttemptWithLimits(a, o)
  BY <1>3, <1>4, WithAttemptType, SetWorkType DEF StartAttemptWithLimits, WorkTypes
<1>5. CASE PauseForLimit(a, o)
  BY <1>5 DEF PauseForLimit, WorkTypes, TypeOK
<1>6. CASE a = 0 /\ StartRunAttempt(o)
  BY <1>3, <1>6, WithAttemptType, SetWorkType DEF StartRunAttempt, WorkTypes, WorkOf
<1>7. ASSUME NEW outcome \in AttemptOutcomes, RecordAttemptOutcome(a, o, outcome)
      PROVE  WorkTypes'
  <2> DEFINE w == WorkOf(a)
             op == w.ops[o]
             n == Len(op.attempts)
             tried == [op EXCEPT !.attempts = [@ EXCEPT ![n] = outcome]]
  <2>1. op.attempts \in Seq(AttemptOutcomes \cup {"none"}) /\ n \in 1 .. Len(op.attempts)
    BY <1>3, <1>7 DEF Operation, RecordAttemptOutcome
  <2>2. [op.attempts EXCEPT ![n] = outcome] \in Seq(AttemptOutcomes \cup {"none"})
    BY <2>1, ExceptSeq
  <2>3. tried \in Operation
    <3> HIDE DEF op, n
    <3> QED
      BY <1>3, <2>2 DEF Operation, op
  <2>4. SetWork(a, [w EXCEPT !.ops[o] = tried])
    BY <1>7 DEF RecordAttemptOutcome
  <2> HIDE DEF tried
  <2> QED
    BY <1>3, <2>3, <2>4, WithOpType, SetWorkType DEF WorkTypes
<1> QED
  BY <1>2, <1>4, <1>5, <1>6, <1>7

LEMMA ResultStepWork == ASSUME TypeOK, ResultStep PROVE WorkTypes'
<1>1. PICK a \in Scopes : \E o \in DOMAIN WorkOf(a).ops, r \in Result :
        (a # 0 /\ AddResult(a, o, r)) \/ (a = 0 /\ AddRunResult(o, r))
  BY DEF ResultStep
<1>2. PICK o \in DOMAIN WorkOf(a).ops, r \in Result :
        (a # 0 /\ AddResult(a, o, r)) \/ (a = 0 /\ AddRunResult(o, r))
  BY <1>1
<1>3. WorkOf(a) \in Work /\ WorkOf(a).ops[o].key \in Keys
  BY WorkOfType, WorkParts DEF Operation
<1>4. WithResult(WorkOf(a), o, r) \in Work
  BY <1>3, WithResultType
<1>5. CASE a # 0 /\ AddResult(a, o, r)
  BY <1>3, <1>4, <1>5, WithNextCycleType, SetWorkType DEF AddResult, WorkTypes, WorkOf
<1>6. CASE a = 0 /\ AddRunResult(o, r)
  BY <1>3, <1>4, <1>6, SetWorkType DEF AddRunResult, WorkTypes, WorkOf
<1> QED
  BY <1>2, <1>5, <1>6

(***************************************************************************)
(* Assignments.                                                            *)
(***************************************************************************)
LEMMA EvidenceType ==
  ASSUME TypeOK, NEW brief \in Nat, NEW checks \in SUBSET Nat, NEW review \in Nat
  PROVE  [brief |-> brief, state |-> curState, basis |-> basis,
          checks |-> checks, review |-> review] \in Evidence
  BY DEF TypeOK, Evidence

LEMMA ReopenedType ==
  ASSUME NEW asg \in Assignment
  PROVE  Reopened(asg) \in Assignment
<1>1. asg.acceptance \subseteq Evidence /\ asg.history \subseteq Evidence
  BY OptionalCases DEF Assignment
<1>2. {} \in Optional(Evidence) /\ {} \in Optional(Trees)
  BY OptionalCases
<1> QED
  BY <1>1, <1>2 DEF Reopened, Assignment

\* The fields of an assignment that its acceptance and commit change.
LEMMA AssignmentUpdates ==
  ASSUME NEW asg \in Assignment
  PROVE  /\ \A e \in Evidence :
              [asg EXCEPT !.acceptance = {e}, !.status = "accepted"] \in Assignment
         /\ \A t \in Trees : [asg EXCEPT !.intent = {t}] \in Assignment
         /\ \A c \in Commit :
              /\ [asg EXCEPT !.commit = {c}, !.status = "committed"] \in Assignment
              /\ [asg EXCEPT !.reconciled = @ \cup {c}] \in Assignment
<1>1. ASSUME NEW e \in Evidence
      PROVE  [asg EXCEPT !.acceptance = {e}, !.status = "accepted"] \in Assignment
  <2>1. {e} \in Optional(Evidence)
    BY OptionalCases
  <2> QED
    BY <2>1 DEF Assignment
<1>2. ASSUME NEW t \in Trees PROVE [asg EXCEPT !.intent = {t}] \in Assignment
  <2>1. {t} \in Optional(Trees)
    BY OptionalCases
  <2> QED
    BY <2>1 DEF Assignment
<1>3. ASSUME NEW c \in Commit
      PROVE  /\ [asg EXCEPT !.commit = {c}, !.status = "committed"] \in Assignment
             /\ [asg EXCEPT !.reconciled = @ \cup {c}] \in Assignment
  <2>1. {c} \in Optional(Commit)
    BY OptionalCases
  <2> QED
    BY <2>1 DEF Assignment
<1> QED
  BY <1>1, <1>2, <1>3

LEMMA AcceptanceStepWork == ASSUME TypeOK, AcceptanceStep PROVE WorkTypes'
<1>0. /\ basis \in Bases
      /\ \A t \in Trees, s \in States : [tree |-> t, state |-> s, basis |-> basis] \in Commit
  BY DEF TypeOK, Commit
<1>1. ASSUME NEW a \in DOMAIN asgs, NEW c \in DOMAIN asgs[a].work.ops,
             NEW r \in DOMAIN asgs[a].work.ops, AcceptAssignment(a, {c}, r)
      PROVE  WorkTypes'
  <2> DEFINE e == [brief |-> asgs[a].briefs, state |-> curState, basis |-> basis,
                   checks |-> {c}, review |-> r]
  <2>1. c \in Nat /\ r \in Nat /\ asgs[a].briefs \in Nat
    BY AssignmentType, WorkParts DEF Assignment
  <2>2. e \in Evidence
    BY <2>1, EvidenceType
  <2>3. /\ asgs' = [asgs EXCEPT ![a] = [asgs[a] EXCEPT !.acceptance = {e}, !.status = "accepted"]]
        /\ runWork' = runWork
    BY <1>1, AssignmentType DEF AcceptAssignment
  <2> HIDE DEF e
  <2> QED
    BY <2>2, <2>3, AssignmentType, AssignmentUpdates, SetAssignmentType DEF WorkTypes, TypeOK
<1>2. ASSUME NEW a \in DOMAIN asgs, BeginBriefRefinement(a) PROVE WorkTypes'
  BY <1>2, AssignmentType, ReopenedType, SetAssignmentType
  DEF BeginBriefRefinement, WorkTypes, TypeOK
<1>3. ASSUME NEW a \in DOMAIN asgs, NEW t \in Trees,
             SetPendingCommitIntent(a, t) \/ RefreshPendingCommitIntentTree(a, t)
      PROVE  WorkTypes'
  <2>1. asgs' = [asgs EXCEPT ![a] = [asgs[a] EXCEPT !.intent = {t}]] /\ runWork' = runWork
    BY <1>3 DEF SetPendingCommitIntent, RefreshPendingCommitIntentTree
  <2> QED
    BY <2>1, AssignmentType, AssignmentUpdates, SetAssignmentType DEF WorkTypes, TypeOK
<1>4. ASSUME NEW a \in DOMAIN asgs, NEW c \in Commit, CommitAssignment(a, c)
      PROVE  WorkTypes'
  <2>1. /\ asgs' = [asgs EXCEPT ![a] = [asgs[a] EXCEPT !.commit = {c}, !.status = "committed"]]
        /\ runWork' = runWork
    BY <1>4, AssignmentType DEF CommitAssignment
  <2> QED
    BY <2>1, AssignmentType, AssignmentUpdates, SetAssignmentType DEF WorkTypes, TypeOK
<1>5. ASSUME NEW a \in DOMAIN asgs, NEW c \in Commit, RecordReconciledCommit(a, c)
      PROVE  WorkTypes'
  <2>1. /\ asgs' = [asgs EXCEPT ![a] = [asgs[a] EXCEPT !.reconciled = @ \cup {c}]]
        /\ runWork' = runWork
    BY <1>5 DEF RecordReconciledCommit
  <2> QED
    BY <2>1, AssignmentType, AssignmentUpdates, SetAssignmentType DEF WorkTypes, TypeOK
<1>6. ASSUME NEW a \in DOMAIN asgs, NEW s \in States, ReopenAssignment(a, s) PROVE WorkTypes'
  BY <1>6, AssignmentType, ReopenedType, SetAssignmentType
  DEF ReopenAssignment, WorkTypes, TypeOK
<1> QED
  BY <1>0, <1>1, <1>2, <1>3, <1>4, <1>5, <1>6 DEF AcceptanceStep

LEMMA ReopenAllWork ==
  ASSUME TypeOK, NEW S, ReopenAll(S)
  PROVE  asgs' \in Seq(Assignment)
<1>1. DOMAIN asgs = 1 .. Len(asgs) /\ Len(asgs) \in Nat
  BY LenProperties DEF TypeOK
<1>2. [a \in DOMAIN asgs |-> IF a \in S THEN Reopened(asgs[a]) ELSE asgs[a]]
        \in [1 .. Len(asgs) -> Assignment]
  BY <1>1, AssignmentType, ReopenedType
<1> QED
  BY <1>1, <1>2, FunctionIsSequence DEF ReopenAll

LEMMA InputStepWork == ASSUME TypeOK, InputStep PROVE WorkTypes'
  BY ReopenAllWork DEF InputStep, ObserveCodeState, RefreshAcceptanceInputs, WorkTypes, TypeOK

LEMMA PlanStepWork == ASSUME TypeOK, PlanStep PROVE WorkTypes'
<1>1. ASSUME NEW T \in SUBSET PendingLeaves, StartAssignment(T) PROVE WorkTypes'
  <2> DEFINE asg == [tasks |-> T, status |-> "active", briefs |-> 0,
                     work |-> NoWork, acceptance |-> {}, intent |-> {},
                     history |-> {}, commit |-> {}, reconciled |-> {}]
  <2>1. T \subseteq Nat
    BY LenProperties DEF TypeOK, PendingLeaves, Leaves, LeavesOf
  <2>2. asg \in Assignment
    BY <2>1, NoWorkType, OptionalCases DEF Assignment
  <2>3. asgs' = Append(asgs, asg) /\ runWork' = runWork
    BY <1>1 DEF StartAssignment
  <2> HIDE DEF asg
  <2> QED
    BY <2>2, <2>3, AppendProperties DEF WorkTypes, TypeOK
<1> QED
  BY <1>1 DEF PlanStep, CompleteInitialTaskExtraction, AppendFinalFindingTasks,
     RecordInitialBaselinePass, RefreshInitialBaselinePass, SetBaseline, WorkTypes, TypeOK

\* The scope and the operation of a limit pause need not be looked up: where
\* they name nothing, nothing changes.
LEMMA ResumeWork == ASSUME TypeOK, Resume PROVE WorkTypes'
<1>1. CASE UNCHANGED <<asgs, runWork>>
  BY <1>1 DEF WorkTypes, TypeOK
<1>2. ASSUME NEW p \in limitPause, SetWork(p.scope, ResetWork(WorkOf(p.scope), p))
      PROVE  WorkTypes'
  <2>1. p \in LimitPause /\ p.key \in Keys
    <3>1. limitPause \subseteq LimitPause
      BY OptionalCases DEF TypeOK
    <3> QED
      BY <3>1 DEF LimitPause
  <2>2. CASE p.scope \notin Scopes
    BY <2>2 , <1>2 DEF SetWork, Scopes, WorkTypes, TypeOK
  <2>3. CASE p.scope \in Scopes
    <3> DEFINE w == WorkOf(p.scope)
    <3>1. w \in Work
      BY <2>3, WorkOfType
    <3>2. CASE ~p.technical
      BY <1>2, <2>1, <2>3, <3>1, <3>2, WithNextCycleType, SetWorkType
      DEF ResetWork, WorkTypes
    <3>3. CASE p.technical /\ p.op \in DOMAIN w.ops
      <4> DEFINE op == [w.ops[p.op] EXCEPT !.techStart = Len(w.ops[p.op].attempts)]
      <4>1. op \in Operation
        <5>1. w.ops[p.op] \in Operation
          BY <3>1, <3>3, WorkParts
        <5>2. Len(w.ops[p.op].attempts) \in Nat
          BY <5>1, LenProperties DEF Operation
        <5> HIDE DEF w
        <5> QED
          BY <5>1, <5>2 DEF Operation
      <4>2. ResetWork(w, p) = [w EXCEPT !.ops[p.op] = op]
        BY <3>3 DEF ResetWork
      <4> HIDE DEF op
      <4> QED
        BY <1>2, <2>3, <3>1, <3>3, <4>1, <4>2, WithOpType, SetWorkType DEF WorkTypes
    <3>4. CASE p.technical /\ p.op \notin DOMAIN w.ops
      <4>1. ResetWork(w, p) = w
        BY <3>1, <3>4 DEF ResetWork, Work
      <4> QED
        BY <1>2, <2>3, <3>1, <4>1, SetWorkType DEF WorkTypes
    <3> QED
      BY <3>2, <3>3, <3>4
  <2> QED
    BY <2>2, <2>3
<1> QED
  BY <1>1, <1>2 DEF Resume

LEMMA LifecycleStepWork == ASSUME TypeOK, LifecycleStep PROVE WorkTypes'
  BY ResumeWork DEF LifecycleStep, RecordFinalAcceptance, Pause, PauseExecutionBlocked,
     UpdatePausedExecutionBlock, Close, Succeed, WorkTypes, TypeOK

(***************************************************************************)
(* The tasks.                                                              *)
(***************************************************************************)
PlanTypes ==
  /\ tasks \in Seq([parent : Nat, origin : Nat])
  /\ leafStatus \in [Leaves -> TaskStatuses]
  /\ TaskTree

LEMMA MarkedType ==
  ASSUME PlanTypes, NEW T, NEW s \in TaskStatuses,
         leafStatus' = Marked(T, s), UNCHANGED tasks
  PROVE  PlanTypes'
  BY DEF PlanTypes, Marked, Leaves, TaskTree

LEMMA ExtractionPlan ==
  ASSUME NEW h \in Hierarchies, CompleteInitialTaskExtraction(h)
  PROVE  PlanTypes'
<1>1. h \in Seq(Nat) /\ \A i \in 1 .. Len(h) : h[i] \in Nat /\ h[i] < i
  BY HierarchyAssumption, ElementOfSeq
<1>2. /\ tasks' = [i \in 1..Len(h) |-> [parent |-> h[i], origin |-> 0]]
      /\ leafStatus' = [i \in LeavesOf(tasks') |-> "pending"]
  BY DEF CompleteInitialTaskExtraction
<1>3. tasks' \in Seq([parent : Nat, origin : Nat])
  <2>1. tasks' \in [1 .. Len(h) -> [parent : Nat, origin : Nat]]
    BY <1>1, <1>2
  <2> QED
    BY <1>1, <2>1, LenProperties, FunctionIsSequence
<1> QED
  BY <1>1, <1>2, <1>3 DEF PlanTypes, Leaves, TaskTree, TaskStatuses

\* The appended tasks are roots without children.
AddsRoots(ts, us, m, l) ==
  /\ m \in Nat /\ l \in Nat /\ m <= l
  /\ DOMAIN ts = 1 .. m /\ DOMAIN us = 1 .. l
  /\ \A i \in 1 .. m : us[i].parent = ts[i].parent /\ ts[i].parent < i
  /\ \A i \in 1 .. m : ts[i].parent \in Nat
  /\ \A i \in (m + 1) .. l : us[i].parent = 0

LEMMA AppendedRoots ==
  ASSUME NEW ts, NEW us, NEW m, NEW l, AddsRoots(ts, us, m, l)
  PROVE  /\ \A j \in DOMAIN us : us[j].parent < j
         /\ LeavesOf(us) = LeavesOf(ts) \cup ((m + 1) .. l)
<1> USE DEF AddsRoots
<1>1. \A j \in 1 .. l : j \in 1 .. m \/ j \in (m + 1) .. l
  OBVIOUS
<1>2. \A j \in 1 .. l : us[j].parent \in Nat /\ us[j].parent < j
  BY <1>1
<1>3. \A i \in 1 .. m : i \in LeavesOf(us) <=> i \in LeavesOf(ts)
  <2> TAKE i \in 1 .. m
  <2>1. \A j \in 1 .. m : j \in 1 .. l /\ us[j].parent = ts[j].parent
    OBVIOUS
  <2>2. \A j \in (m + 1) .. l : us[j].parent # i
    OBVIOUS
  <2>3. i \in 1 .. l
    OBVIOUS
  <2> QED
    BY <1>1, <2>1, <2>2, <2>3 DEF LeavesOf
<1>4. \A i \in (m + 1) .. l : i \in LeavesOf(us)
  <2> TAKE i \in (m + 1) .. l
  <2>1. \A j \in 1 .. m : us[j].parent \in Nat /\ us[j].parent < j /\ j < i
    OBVIOUS
  <2>2. \A j \in 1 .. m : us[j].parent # i
    BY <2>1
  <2>3. i \in 1 .. l /\ \A j \in (m + 1) .. l : us[j].parent # i
    OBVIOUS
  <2> QED
    BY <1>1, <2>2, <2>3 DEF LeavesOf
<1>5. LeavesOf(ts) \subseteq 1 .. m /\ LeavesOf(us) \subseteq 1 .. l
  BY DEF LeavesOf
<1> QED
  BY <1>1, <1>2, <1>3, <1>4, <1>5

LEMMA AppendPlan ==
  ASSUME PlanTypes, NEW n \in Nat, NEW o \in Nat, AppendFinalFindingTasks(n, o)
  PROVE  PlanTypes'
<1> DEFINE m == Len(tasks)
           l == m + n
           added == (m + 1) .. l
<1>0. /\ m \in Nat /\ DOMAIN tasks = 1 .. m
      /\ \A i \in 1 .. m : tasks[i] \in [parent : Nat, origin : Nat]
  BY LenProperties, ElementOfSeq DEF PlanTypes
<1>1. /\ m \in Nat /\ l \in Nat /\ m <= l /\ DOMAIN tasks = 1 .. m
      /\ \A i \in 1 .. m : tasks[i] \in [parent : Nat, origin : Nat]
  <2> HIDE DEF m
  <2> QED
    BY <1>0
<1>2. /\ tasks' = [i \in 1..l |->
                    IF i \in added THEN [parent |-> 0, origin |-> o] ELSE tasks[i]]
      /\ leafStatus' = [i \in DOMAIN leafStatus \cup added |->
                         IF i \in added THEN "pending" ELSE leafStatus[i]]
  BY DEF AppendFinalFindingTasks
<1>3. \A i \in 1 .. m : tasks[i].parent \in Nat /\ tasks[i].parent < i
  BY <1>1 DEF PlanTypes, TaskTree
<1> HIDE DEF m, l
<1>4. \A i \in 1 .. l : i \in added \/ i \in 1 .. m
  BY <1>1
<1>5. \A i \in 1 .. m : i \in 1 .. l /\ i \notin added
  BY <1>1
<1>6. tasks' \in [1 .. l -> [parent : Nat, origin : Nat]]
  BY <1>1, <1>2, <1>4
<1>7. tasks' \in Seq([parent : Nat, origin : Nat]) /\ DOMAIN tasks' = 1 .. l
  BY <1>1, <1>2, <1>6, FunctionIsSequence
<1>8. \A i \in 1 .. m : tasks'[i].parent = tasks[i].parent
  BY <1>2, <1>5
<1>9. \A i \in added : tasks'[i].parent = 0
  BY <1>1, <1>2
<1>10. /\ \A j \in DOMAIN tasks' : tasks'[j].parent < j
       /\ LeavesOf(tasks') = LeavesOf(tasks) \cup added
  <2>1. \A i \in 1 .. m : tasks'[i].parent = tasks[i].parent /\ tasks[i].parent < i
    BY <1>3, <1>8
  <2>2. \A i \in 1 .. m : tasks[i].parent \in Nat
    BY <1>3
  <2>3. \A i \in (m + 1) .. l : tasks'[i].parent = 0
    BY <1>9
  <2> HIDE DEF added
  <2>4. AddsRoots(tasks, tasks', m, l)
    BY <1>1, <1>7, <2>1, <2>2, <2>3 DEF AddsRoots
  <2>5. /\ \A j \in DOMAIN tasks' : tasks'[j].parent < j
        /\ LeavesOf(tasks') = LeavesOf(tasks) \cup ((m + 1) .. l)
    BY <1>1, <2>4, AppendedRoots
  <2> QED
    BY <2>5 DEF added
<1>11. leafStatus' \in [Leaves' -> TaskStatuses]
  BY <1>2, <1>10 DEF PlanTypes, TaskStatuses, Leaves
<1> QED
  BY <1>7, <1>10, <1>11 DEF PlanTypes, TaskTree

LEMMA PlanInv == ASSUME TypeInv, [Next]_vars PROVE PlanTypes'
<1>0. PlanTypes
  BY DEF TypeInv, TypeOK, PlanTypes
<1>1. ASSUME UNCHANGED <<tasks, leafStatus>> PROVE PlanTypes'
  BY <1>0, <1>1 DEF PlanTypes, Leaves, TaskTree
<1>2. CASE UNCHANGED vars
  BY <1>1, <1>2 DEF vars
<1>3. CASE PlanStep
  <2>1. ASSUME NEW n \in 1 .. (MaxTasks - Len(tasks)), NEW o \in DOMAIN runWork.ops,
               AppendFinalFindingTasks(n, o)
        PROVE  PlanTypes'
    <3>1. n \in Nat /\ o \in Nat
      BY WorkParts, LenProperties, BoundAssumption DEF TypeInv, TypeOK
    <3> QED
      BY <1>0, <2>1, <3>1, AppendPlan
  <2> QED
    BY <1>1, <1>3, <2>1, ExtractionPlan
    DEF PlanStep, StartAssignment, RecordInitialBaselinePass, RefreshInitialBaselinePass,
        SetBaseline, plan
<1>4. CASE OperationStep
  BY <1>1, <1>4 DEF OperationStep, AddBriefVersion, AddOperation, AddRunOperation,
     SupersedeRunOperation, EndExplorerEpisode, plan
<1>5. CASE AttemptStep
  BY ZenonT(60), <1>1, <1>5 DEF AttemptStep, StartAttemptWithLimits, PauseForLimit, StartRunAttempt,
     RecordAttemptOutcome, plan
<1>6. CASE ResultStep
  BY <1>1, <1>6 DEF ResultStep, AddResult, AddRunResult, plan
<1>7. CASE AcceptanceStep
  <2>0. {"pending", "accepted", "complete"} = TaskStatuses
    BY DEF TaskStatuses
  <2>1. ASSUME NEW a, NEW c, NEW r, AcceptAssignment(a, {c}, r) PROVE PlanTypes'
    BY <1>0, <2>0, <2>1, MarkedType DEF AcceptAssignment
  <2>2. ASSUME NEW a, BeginBriefRefinement(a) PROVE PlanTypes'
    BY <1>0, <2>0, <2>2, MarkedType DEF BeginBriefRefinement
  <2>3. ASSUME NEW a, NEW t,
               SetPendingCommitIntent(a, t) \/ RefreshPendingCommitIntentTree(a, t)
        PROVE  PlanTypes'
    BY <1>1, <2>3 DEF SetPendingCommitIntent, RefreshPendingCommitIntentTree, plan
  <2>4. ASSUME NEW a, NEW c, CommitAssignment(a, c) PROVE PlanTypes'
    BY <1>0, <2>0, <2>4, MarkedType DEF CommitAssignment
  <2>5. ASSUME NEW a, NEW c, RecordReconciledCommit(a, c) PROVE PlanTypes'
    BY <1>1, <2>5 DEF RecordReconciledCommit, plan
  <2>6. ASSUME NEW a, NEW s, ReopenAssignment(a, s) PROVE PlanTypes'
    BY <1>0, <2>0, <2>6, MarkedType DEF ReopenAssignment
  <2> QED
    BY <1>7, <2>1, <2>2, <2>3, <2>4, <2>5, <2>6 DEF AcceptanceStep
<1>8. CASE InputStep
  BY <1>0, <1>8, MarkedType
  DEF InputStep, ObserveCodeState, RefreshAcceptanceInputs, ReopenAll, TaskStatuses
<1>9. CASE LifecycleStep
  BY <1>1, <1>9 DEF LifecycleStep, RecordFinalAcceptance, Pause, PauseExecutionBlocked,
     UpdatePausedExecutionBlock, Resume, Close, Succeed, plan
<1> QED
  BY <1>2, <1>3, <1>4, <1>5, <1>6, <1>7, <1>8, <1>9 DEF Next

(***************************************************************************)
(* What the acceptance steps leave alone.                                  *)
(***************************************************************************)
LEMMA AcceptanceFrame ==
  ASSUME AcceptanceStep
  PROVE  /\ UNCHANGED <<lifecycle, extracting, baseline, basis>>
         /\ UNCHANGED finals \/ InvalidateFinal
         /\ UNCHANGED curState \/ curState' \in States
<1> DEFINE Frame == /\ UNCHANGED <<lifecycle, extracting, baseline, basis>>
                    /\ UNCHANGED finals \/ InvalidateFinal
                    /\ UNCHANGED curState \/ curState' \in States
<1>1. ASSUME NEW a, NEW c, NEW r, AcceptAssignment(a, {c}, r) PROVE Frame
  BY <1>1 DEF AcceptAssignment, inputs
<1>2. ASSUME NEW a, BeginBriefRefinement(a) PROVE Frame
  BY <1>2 DEF BeginBriefRefinement, inputs
<1>3. ASSUME NEW a, NEW t,
             SetPendingCommitIntent(a, t) \/ RefreshPendingCommitIntentTree(a, t)
      PROVE  Frame
  BY <1>3 DEF SetPendingCommitIntent, RefreshPendingCommitIntentTree, plan, inputs
<1>4. ASSUME NEW a, NEW c, CommitAssignment(a, c) PROVE Frame
  BY <1>4 DEF CommitAssignment, inputs
<1>5. ASSUME NEW a, NEW c, RecordReconciledCommit(a, c) PROVE Frame
  BY <1>5 DEF RecordReconciledCommit, plan, inputs
<1>6. ASSUME NEW a, NEW s \in States, ReopenAssignment(a, s) PROVE Frame
  BY <1>6 DEF ReopenAssignment
<1> QED
  BY <1>1, <1>2, <1>3, <1>4, <1>5, <1>6 DEF AcceptanceStep

(***************************************************************************)
(* Evidence of the run: the final acceptances and the baseline.            *)
(***************************************************************************)
EvidenceTypes ==
  /\ final \in Optional(Evidence)
  /\ finalHistory \in SUBSET Evidence
  /\ baseline \in Optional([op : Nat, state : States, basis : Bases])

LEMMA InvalidatedTypes ==
  ASSUME EvidenceTypes, InvalidateFinal
  PROVE  final' \in Optional(Evidence) /\ finalHistory' \in SUBSET Evidence
  BY OptionalCases DEF InvalidateFinal, EvidenceTypes

LEMMA EvidenceInv == ASSUME TypeOK, [Next]_vars PROVE EvidenceTypes'
<1>0. EvidenceTypes
  BY DEF TypeOK, EvidenceTypes
<1>1. ASSUME UNCHANGED <<finals, baseline>> PROVE EvidenceTypes'
  BY <1>0, <1>1 DEF EvidenceTypes, finals
<1>2. ASSUME InvalidateFinal, UNCHANGED baseline PROVE EvidenceTypes'
  BY <1>0, <1>2, InvalidatedTypes DEF EvidenceTypes
<1>3. CASE UNCHANGED vars
  BY <1>1, <1>3 DEF vars, finals
<1>4. CASE PlanStep
  <2>1. ASSUME NEW o \in DOMAIN runWork.ops, SetBaseline(o) PROVE EvidenceTypes'
    <3>1. [op |-> o, state |-> curState, basis |-> basis]
            \in [op : Nat, state : States, basis : Bases]
      BY WorkParts DEF TypeOK
    <3> QED
      BY <1>0, <2>1, <3>1, OptionalCases DEF SetBaseline, EvidenceTypes, finals
  <2>2. ASSUME NEW h, CompleteInitialTaskExtraction(h) PROVE EvidenceTypes'
    BY <1>1, <2>2 DEF CompleteInitialTaskExtraction
  <2>3. ASSUME NEW n, NEW o, AppendFinalFindingTasks(n, o) PROVE EvidenceTypes'
    BY <1>2, <2>3 DEF AppendFinalFindingTasks
  <2>4. ASSUME NEW T, StartAssignment(T) PROVE EvidenceTypes'
    BY <1>2, <2>4 DEF StartAssignment
  <2> QED
    BY <1>4, <2>1, <2>2, <2>3, <2>4
    DEF PlanStep, RecordInitialBaselinePass, RefreshInitialBaselinePass
<1>5. CASE OperationStep
  BY <1>1, <1>5 DEF OperationStep, AddBriefVersion, AddOperation, AddRunOperation,
     SupersedeRunOperation, EndExplorerEpisode
<1>6. CASE AttemptStep
  BY ZenonT(60), <1>1, <1>6 DEF AttemptStep, StartAttemptWithLimits, PauseForLimit, StartRunAttempt,
     RecordAttemptOutcome
<1>7. CASE ResultStep
  BY <1>1, <1>7 DEF ResultStep, AddResult, AddRunResult
<1>8. CASE AcceptanceStep
  BY <1>1, <1>2, <1>8, AcceptanceFrame
<1>9. CASE InputStep
  BY <1>2, <1>9 DEF InputStep, ObserveCodeState, RefreshAcceptanceInputs, ReopenAll
<1>10. CASE LifecycleStep
  <2>1. ASSUME NEW c \in DOMAIN runWork.ops, NEW r \in DOMAIN runWork.ops,
               RecordFinalAcceptance({c}, r)
        PROVE  EvidenceTypes'
    <3> DEFINE e == [brief |-> 0, state |-> curState, basis |-> basis,
                     checks |-> {c}, review |-> r]
    <3>1. c \in Nat /\ r \in Nat
      BY WorkParts DEF TypeOK
    <3>2. e \in Evidence
      BY <3>1, EvidenceType
    <3>3. final' = {e} /\ finalHistory' = finalHistory \cup final /\ UNCHANGED baseline
      BY <2>1 DEF RecordFinalAcceptance
    <3> HIDE DEF e
    <3> QED
      BY <1>0, <3>2, <3>3, OptionalCases DEF EvidenceTypes
  <2> QED
    BY <1>1, <1>10, <2>1 DEF LifecycleStep, Pause, PauseExecutionBlocked,
       UpdatePausedExecutionBlock, Resume, Close, Succeed
<1> QED
  BY <1>3, <1>4, <1>5, <1>6, <1>7, <1>8, <1>9, <1>10 DEF Next

(***************************************************************************)
(* The inputs and the flags.                                               *)
(***************************************************************************)
InputTypes == curState \in States /\ basis \in Bases

LEMMA InputInv == ASSUME TypeOK, [Next]_vars PROVE InputTypes'
<1>0. InputTypes
  BY DEF TypeOK, InputTypes
<1>1. ASSUME UNCHANGED inputs PROVE InputTypes'
  BY <1>0, <1>1 DEF InputTypes, inputs
<1>2. CASE UNCHANGED vars
  BY <1>1, <1>2 DEF vars, inputs
<1>3. CASE PlanStep
  BY <1>1, <1>3 DEF PlanStep, CompleteInitialTaskExtraction, AppendFinalFindingTasks,
     StartAssignment, RecordInitialBaselinePass, RefreshInitialBaselinePass, SetBaseline
<1>4. CASE OperationStep
  BY <1>1, <1>4 DEF OperationStep, AddBriefVersion, AddOperation, AddRunOperation,
     SupersedeRunOperation, EndExplorerEpisode
<1>5. CASE AttemptStep
  BY ZenonT(60), <1>1, <1>5 DEF AttemptStep, StartAttemptWithLimits, PauseForLimit, StartRunAttempt,
     RecordAttemptOutcome
<1>6. CASE ResultStep
  BY <1>1, <1>6 DEF ResultStep, AddResult, AddRunResult
<1>7. CASE AcceptanceStep
  BY <1>0, <1>7, AcceptanceFrame DEF InputTypes
<1>8. CASE InputStep
  BY <1>0, <1>8 DEF InputStep, ObserveCodeState, RefreshAcceptanceInputs, InputTypes
<1>9. CASE LifecycleStep
  BY <1>1, <1>9 DEF LifecycleStep, RecordFinalAcceptance, Pause, PauseExecutionBlocked,
     UpdatePausedExecutionBlock, Resume, Close, Succeed
<1> QED
  BY <1>2, <1>3, <1>4, <1>5, <1>6, <1>7, <1>8, <1>9 DEF Next

FlagTypes ==
  /\ status \in Statuses
  /\ blocked \in BOOLEAN
  /\ extracting \in BOOLEAN

LEMMA FlagInv == ASSUME FlagTypes, [Next]_vars PROVE FlagTypes'
<1>0. {"active", "paused", "closed", "succeeded"} = Statuses /\ {TRUE, FALSE} = BOOLEAN
  BY DEF Statuses
<1>1. ASSUME UNCHANGED <<lifecycle, extracting>> PROVE FlagTypes'
  BY <1>1 DEF FlagTypes, lifecycle
<1>2. CASE UNCHANGED vars
  BY <1>1, <1>2 DEF vars, lifecycle
<1>3. CASE PlanStep
  <2>1. ASSUME NEW h, CompleteInitialTaskExtraction(h) PROVE FlagTypes'
    BY <1>0, <2>1 DEF CompleteInitialTaskExtraction, FlagTypes, lifecycle
  <2> QED
    BY <1>1, <1>3, <2>1 DEF PlanStep, AppendFinalFindingTasks, plan,
       StartAssignment, RecordInitialBaselinePass, RefreshInitialBaselinePass, SetBaseline
<1>4. CASE OperationStep
  BY <1>1, <1>4 DEF OperationStep, AddBriefVersion, AddOperation, AddRunOperation,
     SupersedeRunOperation, EndExplorerEpisode, plan
<1>5. CASE AttemptStep
  <2>1. ASSUME NEW a, NEW o, PauseForLimit(a, o) PROVE FlagTypes'
    BY <1>0, <2>1 DEF PauseForLimit, FlagTypes, plan
  <2> QED
    BY <1>1, <1>5, <2>1 DEF AttemptStep, StartAttemptWithLimits, StartRunAttempt,
       RecordAttemptOutcome, plan
<1>6. CASE ResultStep
  BY <1>1, <1>6 DEF ResultStep, AddResult, AddRunResult, plan
<1>7. CASE AcceptanceStep
  BY <1>1, <1>7, AcceptanceFrame
<1>8. CASE InputStep
  BY <1>1, <1>8 DEF InputStep, ObserveCodeState, RefreshAcceptanceInputs
<1>9. CASE LifecycleStep
  <2>1. ASSUME \/ Pause \/ PauseExecutionBlocked \/ UpdatePausedExecutionBlock
               \/ Resume \/ Close \/ Succeed
        PROVE  FlagTypes'
    <3>1. status' \in Statuses
      BY <1>0, <2>1 DEF Pause, PauseExecutionBlocked, UpdatePausedExecutionBlock,
         Resume, Close, Succeed, FlagTypes
    <3>2. blocked' \in BOOLEAN
      BY <1>0, <2>1 DEF Pause, PauseExecutionBlocked, UpdatePausedExecutionBlock,
         Resume, Close, Succeed, FlagTypes
    <3>3. extracting' = extracting
      BY <2>1 DEF Pause, PauseExecutionBlocked, UpdatePausedExecutionBlock,
         Resume, Close, Succeed, plan
    <3> QED
      BY <3>1, <3>2, <3>3 DEF FlagTypes
  <2> QED
    BY <1>1, <1>9, <2>1 DEF LifecycleStep, RecordFinalAcceptance, plan
<1> QED
  BY <1>2, <1>3, <1>4, <1>5, <1>6, <1>7, <1>8, <1>9 DEF Next

\* The reason of a limit pause names an operation by scope and position.
LEMMA PauseReasonInv ==
  ASSUME TypeOK, [Next]_vars
  PROVE  limitPause' \in Optional(LimitPause)
<1>0. limitPause \in Optional(LimitPause) /\ {} \in Optional(LimitPause)
  BY OptionalCases DEF TypeOK
<1>1. ASSUME UNCHANGED limitPause PROVE limitPause' \in Optional(LimitPause)
  BY <1>0, <1>1
<1>2. CASE UNCHANGED vars
  BY <1>1, <1>2 DEF vars
<1>3. CASE PlanStep
  BY <1>1, <1>3 DEF PlanStep, CompleteInitialTaskExtraction, AppendFinalFindingTasks,
     StartAssignment, RecordInitialBaselinePass, RefreshInitialBaselinePass, SetBaseline,
     lifecycle
<1>4. CASE OperationStep
  BY <1>1, <1>4 DEF OperationStep, AddBriefVersion, AddOperation, AddRunOperation,
     SupersedeRunOperation, EndExplorerEpisode, lifecycle
<1>5. CASE AttemptStep
  <2>1. ASSUME NEW a \in Scopes, NEW o \in DOMAIN WorkOf(a).ops, PauseForLimit(a, o)
        PROVE  limitPause' \in Optional(LimitPause)
    <3> DEFINE op == WorkOf(a).ops[o]
               technical == TechnicalExhausted(op)
               p == [scope |-> a, op |-> o, key |-> op.key, technical |-> technical]
    <3>1. a \in Nat /\ o \in Nat /\ op.key \in Keys
      <4>1. WorkOf(a) \in Work /\ DOMAIN asgs = 1 .. Len(asgs)
        BY WorkOfType
      <4>2. o \in Nat /\ WorkOf(a).ops[o] \in Operation
        BY <4>1, WorkParts
      <4>3. a \in Nat
        BY <4>1 DEF Scopes
      <4> QED
        BY <4>2, <4>3 DEF Operation
    <3>2. technical \in BOOLEAN
      BY DEF TechnicalExhausted
    <3>3. limitPause' = {p}
      BY <2>1 DEF PauseForLimit
    <3> HIDE DEF op, technical
    <3>4. p \in LimitPause
      BY <3>1, <3>2 DEF LimitPause
    <3> QED
      BY <3>3, <3>4, OptionalCases
  <2> QED
    BY <1>1, <1>5, <2>1 DEF AttemptStep, StartAttemptWithLimits, StartRunAttempt,
       RecordAttemptOutcome, lifecycle
<1>6. CASE ResultStep
  BY <1>1, <1>6 DEF ResultStep, AddResult, AddRunResult, lifecycle
<1>7. CASE AcceptanceStep
  BY <1>1, <1>7, AcceptanceFrame DEF lifecycle
<1>8. CASE InputStep
  BY <1>1, <1>8 DEF InputStep, ObserveCodeState, RefreshAcceptanceInputs, lifecycle
<1>9. CASE LifecycleStep
  BY <1>0, <1>1, <1>9 DEF LifecycleStep, RecordFinalAcceptance, Pause, PauseExecutionBlocked,
     UpdatePausedExecutionBlock, Resume, Close, Succeed, lifecycle
<1> QED
  BY <1>2, <1>3, <1>4, <1>5, <1>6, <1>7, <1>8, <1>9 DEF Next

(***************************************************************************)
(* The invariant.                                                          *)
(***************************************************************************)
LEMMA InitialTypes == Init => TypeInv
<1> SUFFICES ASSUME Init PROVE TypeInv
  OBVIOUS
<1>1. PlanTypes
  BY EmptySeq DEF Init, PlanTypes, TaskTree, Leaves, LeavesOf
<1>2. WorkTypes
  BY EmptySeq, NoWorkType DEF Init, WorkTypes
<1>3. EvidenceTypes
  BY OptionalCases DEF Init, EvidenceTypes
<1>4. FlagTypes
  BY DEF Init, FlagTypes, Statuses
<1>5. limitPause \in Optional(LimitPause) /\ InputTypes
  BY OptionalCases DEF Init, InputTypes
<1> QED
  BY <1>1, <1>2, <1>3, <1>4, <1>5
  DEF TypeInv, TypeOK, PlanTypes, WorkTypes, EvidenceTypes, FlagTypes, InputTypes

LEMMA StepKeepsTypes == TypeInv /\ [Next]_vars => TypeInv'
<1> SUFFICES ASSUME TypeInv, [Next]_vars PROVE TypeInv'
  OBVIOUS
<1>0. TypeOK
  BY DEF TypeInv
<1>1. PlanTypes'
  BY PlanInv
<1>2. WorkTypes'
  <2>1. CASE UNCHANGED vars
    BY <1>0, <2>1 DEF vars, WorkTypes, TypeOK
  <2> QED
    BY <1>0, <2>1, PlanStepWork, OperationStepWork, AttemptStepWork, ResultStepWork,
       AcceptanceStepWork, InputStepWork, LifecycleStepWork DEF Next
<1>3. EvidenceTypes'
  BY <1>0, EvidenceInv
<1>4. FlagTypes'
  BY <1>0, FlagInv DEF TypeOK, FlagTypes
<1>5. limitPause' \in Optional(LimitPause) /\ InputTypes'
  BY <1>0, PauseReasonInv, InputInv
<1> QED
  BY <1>1, <1>2, <1>3, <1>4, <1>5
  DEF TypeInv, TypeOK, PlanTypes, WorkTypes, EvidenceTypes, FlagTypes, InputTypes

\* Every value the methods of Run store has the type Run declares for it.
THEOREM RunTypeCorrect == Spec => []TypeOK
<1>1. Spec => []TypeInv
  BY InitialTypes, StepKeepsTypes, PTL DEF Spec
<1>2. TypeInv => TypeOK
  BY DEF TypeInv
<1> QED
  BY <1>1, <1>2, PTL

(***************************************************************************)
(* A terminal run is frozen.                                               *)
(***************************************************************************)
\* Every method of Run that changes it starts with requireActive or with a
\* test of the same strength.
LEMMA StepFromOpenRun == Next => status \in {"active", "paused"}
<1>1. PlanStep => status = "active"
  BY DEF PlanStep, CompleteInitialTaskExtraction, AppendFinalFindingTasks,
         StartAssignment, RecordInitialBaselinePass, RefreshInitialBaselinePass,
         Active
<1>2. OperationStep => status = "active"
  BY DEF OperationStep, AddBriefVersion, AddOperation, AddRunOperation,
         SupersedeRunOperation, EndExplorerEpisode, ActiveAssignment,
         ActiveScope, Active
<1>3. AttemptStep => status \in {"active", "paused"}
  <2>1. \A a, o : StartAttemptWithLimits(a, o) => status = "active"
    BY DEF StartAttemptWithLimits, MayAttempt, ActiveScope, Active
  <2>2. \A a, o : PauseForLimit(a, o) => status = "active"
    BY DEF PauseForLimit, MayAttempt, ActiveScope, Active
  <2>3. \A o : StartRunAttempt(o) => status = "active"
    BY DEF StartRunAttempt, MayAttempt, ActiveScope, Active
  <2>4. \A a, o, outcome : RecordAttemptOutcome(a, o, outcome)
                              => status \in {"active", "paused"}
    BY DEF RecordAttemptOutcome
  <2> QED
    BY <2>1, <2>2, <2>3, <2>4 DEF AttemptStep
<1>4. ResultStep => status \in {"active", "paused"}
  BY DEF ResultStep, AddResult, AddRunResult, ActiveAssignment, Active
<1>5. AcceptanceStep => status = "active"
  <2>1. \A a, c, r : AcceptAssignment(a, c, r) => status = "active"
    BY DEF AcceptAssignment, ActiveAssignment, Active
  <2>2. \A a : BeginBriefRefinement(a) => status = "active"
    BY DEF BeginBriefRefinement, Accepted, Active
  <2>3. \A a, t : SetPendingCommitIntent(a, t) \/ RefreshPendingCommitIntentTree(a, t)
                   => status = "active"
    BY DEF SetPendingCommitIntent, RefreshPendingCommitIntentTree, Accepted, Active
  <2>4. \A a, c : CommitAssignment(a, c) \/ RecordReconciledCommit(a, c)
                   => status = "active"
    BY DEF CommitAssignment, RecordReconciledCommit, Accepted, Active
  <2>5. \A a, s : ReopenAssignment(a, s) => status = "active"
    BY DEF ReopenAssignment, Accepted, Active
  <2> QED
    BY <2>1, <2>2, <2>3, <2>4, <2>5 DEF AcceptanceStep
<1>6. InputStep => status = "active"
  BY DEF InputStep, ObserveCodeState, RefreshAcceptanceInputs, Active
<1>7. LifecycleStep => status \in {"active", "paused"}
  BY DEF LifecycleStep, RecordFinalAcceptance, Pause, PauseExecutionBlocked,
         UpdatePausedExecutionBlock, Resume, Close, Succeed, Active
<1> QED
  BY <1>1, <1>2, <1>3, <1>4, <1>5, <1>6, <1>7 DEF Next

\* A closed or succeeded run never changes again, whatever the constants: no
\* step of Spec starts in a terminal state.
THEOREM TerminalRunIsFrozen == Spec => TerminalIsFinal
<1>1. [Next]_vars => [status \notin {"closed", "succeeded"}]_vars
  BY StepFromOpenRun
<1> QED
  BY <1>1, PTL DEF Spec, TerminalIsFinal

(***************************************************************************)
(* The record of a run.  What Run.Validate asks is nearly inductive.  The  *)
(* invariant RecordInv says it in parts that a step changes separately:    *)
(* the operations of a scope (SoundWork), what they prove of an assignment *)
(* (Proven), the leaves (Layout), and the acceptances in force (Currency,  *)
(* FinalInv).  It adds what Validate does not look at: an operation that   *)
(* was never attempted has no round, a cycle is never 0, and before the    *)
(* tasks are extracted nothing is checked (Early).                         *)
(***************************************************************************)
\* A later version of an operation: only attempts and results are added.
Grown(op, later) ==
  /\ later.kind = op.kind /\ later.key = op.key /\ later.brief = op.brief
  /\ later.basis = op.basis /\ later.uncounted = op.uncounted
  /\ later.supersedes = op.supersedes /\ op.results \subseteq later.results

Grows(w, v) ==
  /\ DOMAIN w.ops \subseteq DOMAIN v.ops
  /\ \A o \in DOMAIN w.ops : Grown(w.ops[o], v.ops[o])

SoundOperation(op) ==
  /\ MatchesKind(op)
  /\ op.uncounted => op.kind = "check" /\ op.key = NoKey /\ op.attempts = <<>>
  /\ IF op.attempts # <<>> /\ op.key # NoKey THEN op.round # 0 /\ op.cycle # 0
                                             ELSE op.round = 0 /\ op.cycle = 0
  /\ op.techStart <= Len(op.attempts)
  /\ ValidAnswers(op)

SoundWork(w) ==
  /\ \A k \in Keys : w.cycle[k] # 0
  /\ \A o \in DOMAIN w.ops : SoundOperation(w.ops[o])

\* The budgets of a scope; free is the scope of the run, whose checks are
\* attempted without a limit.
WithinBudget(w, free) ==
  /\ \A k \in Keys \ {NoKey} : w.count[k] <= Limit[k[1]]
  /\ \A o \in DOMAIN w.ops :
       (free /\ w.ops[o].kind = "check") \/ TechnicalCount(w.ops[o]) <= TechnicalAttempts

AssignmentOps(w, briefs) ==
  \A o \in DOMAIN w.ops :
    w.ops[o].supersedes = 0 /\ ~w.ops[o].uncounted /\ w.ops[o].brief \in 1 .. briefs

RunOps(w) ==
  \A o \in DOMAIN w.ops :
    LET op == w.ops[o]
        prior == w.ops[op.supersedes]
    IN /\ op.brief = 0 /\ op.key[1] \in {"none", "final_review", "explorer"}
       /\ op.supersedes # 0 =>
            /\ op.supersedes < o
            /\ \A p \in 1..(o - 1) : w.ops[p].supersedes # op.supersedes
            /\ prior.results = {} /\ prior.basis # op.basis
            /\ prior.kind = op.kind /\ prior.key = op.key

\* The operations of a scope: of the run, or of an assignment with its briefs.
SoundScope(w, free, briefs) ==
  /\ SoundWork(w) /\ WithinBudget(w, free)
  /\ IF free THEN RunOps(w) ELSE AssignmentOps(w, briefs)

Proven(asg) ==
  /\ \A e \in asg.history : ValidAcceptance(asg, e, FALSE)
  /\ asg.status = "active" => asg.acceptance = {} /\ asg.commit = {}
  /\ asg.status # "active" => \E e \in asg.acceptance : ValidAcceptance(asg, e, TRUE)
  /\ asg.status = "accepted" => asg.commit = {}
  /\ asg.status = "committed" =>
       \E c \in asg.commit : \E e \in asg.acceptance :
         asg.intent = {c.tree} /\ c.state = e.state /\ c.basis = e.basis

SoundAssignment(asg) ==
  asg.tasks # {} /\ Proven(asg) /\ SoundScope(asg.work, FALSE, asg.briefs)

AssignmentInv == \A a \in DOMAIN asgs : SoundAssignment(asgs[a])
RunWorkInv == SoundScope(runWork, TRUE, 0)

\* Assignment a of the assignments as: they take the leaves in task order, one
\* after the other, and the status of a leaf in ls is that of its assignment.
Placed(as, leaves, ls, a) ==
  /\ as[a].tasks \subseteq leaves
  /\ \A b \in 1..(a - 1) : as[b].status = "committed"
  /\ \A i \in as[a].tasks : ls[i] = LeafStatusIn(as[a].status)
  /\ \A i \in as[a].tasks, j \in leaves : i < j \/ \E b \in 1..a : j \in as[b].tasks
  /\ \A b \in 1..(a - 1) : as[a].tasks \cap as[b].tasks = {}

\* A leaf of no assignment is pending.
Untaken(as, leaves, ls) ==
  \A i \in leaves : ls[i] = "pending" \/ \E a \in DOMAIN as : i \in as[a].tasks

LayoutOf(as, leaves, ls) ==
  Untaken(as, leaves, ls) /\ \A a \in DOMAIN as : Placed(as, leaves, ls, a)

Layout == LayoutOf(asgs, Leaves, leafStatus)

Currency ==
  \A a \in DOMAIN asgs : asgs[a].status = "accepted" =>
    \A e \in asgs[a].acceptance : e.state = curState /\ e.basis = basis

Early == extracting => \A o \in DOMAIN runWork.ops : runWork.ops[o].kind = "agent"

FinalInv ==
  /\ FinalAcceptanceCurrent
  /\ \A e \in finalHistory : EvidenceHolds(runWork, e)
SuccessInv == status = "succeeded" => final # {} /\ AllLeavesComplete

\* The record but for the lifecycle.
Record ==
  /\ ValidStructure /\ AssignmentInv /\ RunWorkInv
  /\ Layout /\ Currency /\ Early /\ ValidBaseline /\ FinalInv

\* Only a pause gives a reason for it, and only Succeed ends in success.
Ending == ValidLifecycle /\ SuccessInv

RecordInv == Record /\ Ending

(***************************************************************************)
(* The operations of a scope.                                              *)
(***************************************************************************)
LEMMA KeyFacts ==
  ASSUME NEW k \in Keys
  PROVE  /\ k[1] = "none" <=> k = NoKey
         /\ k # NoKey => k[1] \in Counters \ {"none"} /\ Limit[k[1]] \in Nat \ {0}
<1>1. PICK t \in AssignmentTemplates \cup RunTemplates : k = t.key
  BY DEF Keys
<1>2. t \in Templates /\ (t.key[1] = "none" <=> t.key = NoKey)
  BY TemplateAssumption
<1>3. k[1] \in Counters
  BY <1>1, <1>2 DEF Templates
<1> QED
  BY <1>1, <1>2, <1>3, LimitAssumption

LEMMA GrownSelf == \A op : Grown(op, op)
  BY DEF Grown

LEMMA GrowsSelf == \A w : Grows(w, w)
  BY DEF Grows, Grown

\* What an evidence proves it proves of every later version of the work.
LEMMA EvidenceGrows ==
  ASSUME NEW w, NEW v, Grows(w, v), NEW e, EvidenceHolds(w, e)
  PROVE  EvidenceHolds(v, e)
  BY DEF Grows, Grown, EvidenceHolds, Proves

\* One operation of a work is replaced by a later version of it.
Replaces(w, v, o) ==
  /\ o \in DOMAIN w.ops /\ DOMAIN v.ops = DOMAIN w.ops
  /\ \A p \in DOMAIN w.ops : p # o => v.ops[p] = w.ops[p]
  /\ Grown(w.ops[o], v.ops[o])

LEMMA ReplaceGrows ==
  ASSUME NEW w, NEW v, NEW o, Replaces(w, v, o)
  PROVE  Grows(w, v)
  BY GrownSelf DEF Replaces, Grows

\* An operation that replaces another is about one without results: the results
\* of a superseded operation must not change.
LEMMA ReplaceRunOps ==
  ASSUME NEW w \in Work, NEW v, NEW o, Replaces(w, v, o), RunOps(w),
         v.ops[o].results = w.ops[o].results \/ \A p \in DOMAIN w.ops : w.ops[p].supersedes # o
  PROVE  RunOps(v)
<1> SUFFICES ASSUME NEW p \in DOMAIN w.ops
             PROVE  LET op == v.ops[p]
                        prior == v.ops[op.supersedes]
                    IN /\ op.brief = 0 /\ op.key[1] \in {"none", "final_review", "explorer"}
                       /\ op.supersedes # 0 =>
                            /\ op.supersedes < p
                            /\ \A i \in 1..(p - 1) : v.ops[i].supersedes # op.supersedes
                            /\ prior.results = {} /\ prior.basis # op.basis
                            /\ prior.kind = op.kind /\ prior.key = op.key
  BY DEF RunOps, Replaces
<1>1. /\ DOMAIN w.ops = 1 .. Len(w.ops) /\ Len(w.ops) \in Nat
      /\ \A i \in DOMAIN w.ops : w.ops[i].supersedes \in Nat
  <2>1. \A i \in DOMAIN w.ops : w.ops[i] \in Operation
    BY WorkParts
  <2> QED
    BY <2>1, WorkParts, LenProperties DEF Operation
<1>2. \A i \in DOMAIN w.ops : Grown(w.ops[i], v.ops[i])
  BY ReplaceGrows DEF Grows
<1>3. v.ops[p].supersedes = w.ops[p].supersedes /\ v.ops[p].brief = 0
        /\ v.ops[p].key[1] \in {"none", "final_review", "explorer"}
  BY <1>2 DEF Grown, RunOps
<1>4. ASSUME w.ops[p].supersedes # 0
      PROVE  /\ w.ops[p].supersedes \in DOMAIN w.ops /\ w.ops[p].supersedes < p
             /\ \A i \in 1..(p - 1) : w.ops[i].supersedes # w.ops[p].supersedes
             /\ w.ops[w.ops[p].supersedes].results = {}
             /\ w.ops[w.ops[p].supersedes].basis # w.ops[p].basis
             /\ w.ops[w.ops[p].supersedes].kind = w.ops[p].kind
             /\ w.ops[w.ops[p].supersedes].key = w.ops[p].key
  <2>1. w.ops[p].supersedes < p
    BY <1>4 DEF RunOps
  <2>2. w.ops[p].supersedes \in DOMAIN w.ops
    BY <1>1, <1>4, <2>1
  <2> QED
    BY <1>4, <2>1, <2>2 DEF RunOps
<1>5. ASSUME w.ops[p].supersedes # 0
      PROVE  /\ \A i \in 1..(p - 1) : v.ops[i].supersedes # w.ops[p].supersedes
             /\ v.ops[w.ops[p].supersedes].results = {}
  <2>1. \A i \in 1 .. (p - 1) : i \in DOMAIN w.ops
    BY <1>1
  <2>2. v.ops[w.ops[p].supersedes].results = w.ops[w.ops[p].supersedes].results
    BY <1>4, <1>5 DEF Replaces
  <2> QED
    BY SMTT(60), <1>2, <1>4, <1>5, <2>1, <2>2 DEF Grown
<1> QED
  BY SMTT(60), <1>2, <1>3, <1>4, <1>5 DEF Grown

\* The scope has the same operations, later.
Follows(w, v) == DOMAIN v.ops = DOMAIN w.ops /\ Grows(w, v)

\* A replaced operation leaves the scope sound when it is so itself, and is
\* within the budget.
LEMMA ReplaceScope ==
  ASSUME NEW w \in Work, NEW v, NEW o, NEW free \in BOOLEAN, NEW briefs,
         Replaces(w, v, o), SoundScope(w, free, briefs),
         SoundOperation(v.ops[o]), \A k \in Keys : v.cycle[k] # 0,
         \A k \in Keys \ {NoKey} : v.count[k] <= Limit[k[1]],
         (free /\ v.ops[o].kind = "check") \/ TechnicalCount(v.ops[o]) <= TechnicalAttempts,
         v.ops[o].results = w.ops[o].results
           \/ (free => \A p \in DOMAIN w.ops : w.ops[p].supersedes # o)
  PROVE  SoundScope(v, free, briefs) /\ Follows(w, v)
<1>1. SoundWork(v)
  BY DEF SoundScope, SoundWork, Replaces
<1>2. WithinBudget(v, free)
  BY DEF SoundScope, WithinBudget, Replaces
<1>3. free => RunOps(v)
  BY ReplaceRunOps DEF SoundScope
<1>4. ~free => AssignmentOps(v, briefs)
  BY DEF SoundScope, AssignmentOps, Replaces, Grown
<1> QED
  BY <1>1, <1>2, <1>3, <1>4, ReplaceGrows DEF SoundScope, Follows, Replaces

\* A step on one operation that is neither new nor of another scope: the
\* replacing operation is given whole.
LEMMA OperationReplaced ==
  ASSUME NEW w \in Work, NEW o \in DOMAIN w.ops, NEW op
  PROVE  LET v == [w EXCEPT !.ops[o] = op]
         IN /\ DOMAIN v.ops = DOMAIN w.ops /\ v.ops[o] = op
            /\ \A p \in DOMAIN w.ops : p # o => v.ops[p] = w.ops[p]
            /\ v.count = w.count /\ v.cycle = w.cycle
  BY DEF Work

\* A new operation of the scope.
NewIn(w, op, free, briefs) ==
  /\ op.attempts = <<>> /\ op.round = 0 /\ op.cycle = 0 /\ op.techStart = 0
  /\ op.results = {}
  /\ MatchesKind(op)
  /\ op.uncounted => op.kind = "check" /\ op.key = NoKey
  /\ IF free
     THEN /\ op.brief = 0 /\ op.key[1] \in {"none", "final_review", "explorer"}
          /\ op.supersedes # 0 =>
               /\ op.supersedes \in DOMAIN w.ops
               /\ \A p \in DOMAIN w.ops : w.ops[p].supersedes # op.supersedes
               /\ w.ops[op.supersedes].results = {}
               /\ w.ops[op.supersedes].basis # op.basis
               /\ w.ops[op.supersedes].kind = op.kind
               /\ w.ops[op.supersedes].key = op.key
     ELSE op.supersedes = 0 /\ ~op.uncounted /\ op.brief \in 1 .. briefs

LEMMA AddedOperation ==
  ASSUME NEW w \in Work, NEW op \in Operation, NEW free \in BOOLEAN, NEW briefs,
         SoundScope(w, free, briefs), NewIn(w, op, free, briefs)
  PROVE  SoundScope(WithOperation(w, op), free, briefs) /\ Grows(w, WithOperation(w, op))
<1> DEFINE v == WithOperation(w, op)
           n == Len(w.ops) + 1
<1>1. /\ n \in Nat /\ DOMAIN w.ops = 1 .. (n - 1) /\ DOMAIN v.ops = 1 .. n
      /\ v.ops[n] = op /\ \A p \in DOMAIN w.ops : v.ops[p] = w.ops[p]
      /\ v.count = w.count /\ v.cycle = w.cycle
  <2>1. w.ops \in Seq(Operation) /\ v = [w EXCEPT !.ops = Append(w.ops, op)]
    BY WorkParts DEF WithOperation
  <2>2. v.ops = Append(w.ops, op) /\ v.count = w.count /\ v.cycle = w.cycle
    BY <2>1 DEF Work
  <2> HIDE DEF v
  <2> QED
    BY <2>1, <2>2, AppendProperties, LenProperties
<1> HIDE DEF v, n
<1>2. \A p \in DOMAIN v.ops : p \in DOMAIN w.ops \/ p = n
  BY <1>1
<1>3. SoundWork(v)
  <2>1. SoundOperation(op)
    <3>1. Len(op.attempts) = 0
      BY LenProperties, EmptySeq DEF NewIn
    <3> QED
      BY <3>1 DEF NewIn, SoundOperation, ValidAnswers
  <2> QED
    BY <1>1, <1>2, <2>1 DEF SoundScope, SoundWork
<1>4. WithinBudget(v, free)
  <2>1. TechnicalCount(op) <= TechnicalAttempts
    BY LimitAssumption DEF NewIn, TechnicalCount
  <2> QED
    BY <1>1, <1>2, <2>1 DEF SoundScope, WithinBudget
<1>5. ASSUME ~free PROVE AssignmentOps(v, briefs)
  BY <1>1, <1>2, <1>5 DEF SoundScope, AssignmentOps, NewIn
<1>6. ASSUME free PROVE RunOps(v)
  <2>0. RunOps(w)
    BY <1>6 DEF SoundScope
  <2>1. SUFFICES ASSUME NEW p \in DOMAIN v.ops
                 PROVE  LET q == v.ops[p]
                            prior == v.ops[q.supersedes]
                        IN /\ q.brief = 0
                           /\ q.key[1] \in {"none", "final_review", "explorer"}
                           /\ q.supersedes # 0 =>
                                /\ q.supersedes < p
                                /\ \A i \in 1..(p - 1) : v.ops[i].supersedes # q.supersedes
                                /\ prior.results = {} /\ prior.basis # q.basis
                                /\ prior.kind = q.kind /\ prior.key = q.key
    BY DEF RunOps
  <2>2. CASE p \in DOMAIN w.ops
    <3>1. v.ops[p] = w.ops[p] /\ w.ops[p].supersedes \in Nat
      BY <1>1, <2>2, WorkParts DEF Operation
    <3>2. \A i \in 1 .. (p - 1) : i \in DOMAIN w.ops /\ v.ops[i] = w.ops[i]
      BY <1>1, <2>2
    <3>3. ASSUME w.ops[p].supersedes # 0 PROVE w.ops[p].supersedes \in DOMAIN w.ops
      <4>1. w.ops[p].supersedes < p
        BY <2>0, <2>2, <3>3 DEF RunOps
      <4> QED
        BY <1>1, <2>2, <3>1, <3>3, <4>1
    <3>4. w.ops[p].supersedes # 0 => v.ops[w.ops[p].supersedes] = w.ops[w.ops[p].supersedes]
      BY <1>1, <3>3
    <3> QED
      BY <2>0, <2>2, <3>1, <3>2, <3>4 DEF RunOps
  <2>3. CASE p = n
    <3>1. v.ops[p] = op /\ \A i \in 1 .. (p - 1) : i \in DOMAIN w.ops /\ v.ops[i] = w.ops[i]
      BY <1>1, <2>3
    <3>2. op.supersedes # 0 => op.supersedes < p
      BY <1>1, <1>6, <2>3 DEF NewIn
    <3>3. op.supersedes # 0 => v.ops[op.supersedes] = w.ops[op.supersedes]
      BY <1>1, <1>6 DEF NewIn
    <3> QED
      BY <1>6, <3>1, <3>2, <3>3 DEF NewIn
  <2> QED
    BY <1>2, <2>2, <2>3
<1>7. Grows(w, v)
  BY <1>1, GrownSelf DEF Grows
<1> QED
  BY <1>3, <1>4, <1>5, <1>6, <1>7 DEF SoundScope, v

LEMMA AddedDomain ==
  ASSUME NEW w \in Work, NEW op \in Operation
  PROVE  \A p \in DOMAIN WithOperation(w, op).ops :
           WithOperation(w, op).ops[p] = op \/ p \in DOMAIN w.ops
<1>1. w.ops \in Seq(Operation) /\ WithOperation(w, op) = [w EXCEPT !.ops = Append(w.ops, op)]
  BY WorkParts DEF WithOperation
<1>2. WithOperation(w, op).ops = Append(w.ops, op)
  BY <1>1 DEF Work
<1> QED
  BY <1>1, <1>2, AppendProperties, LenProperties

\* An attempt that the limits allow.
LEMMA AttemptedOperation ==
  ASSUME NEW w \in Work, NEW o \in DOMAIN w.ops, NEW free \in BOOLEAN, NEW briefs,
         SoundScope(w, free, briefs), ~w.ops[o].uncounted,
         \/ free /\ w.ops[o].kind = "check"
         \/ ~TechnicalExhausted(w.ops[o]) /\ ~CounterExhausted(w, w.ops[o])
  PROVE  SoundScope(WithAttempt(w, o), free, briefs) /\ Follows(w, WithAttempt(w, o))
<1> DEFINE op == w.ops[o]
           counts == op.attempts = <<>> /\ op.key # NoKey
           attempts == Append(op.attempts, "none")
           round == IF counts THEN w.count[op.key] + 1 ELSE op.round
           cycle == IF counts THEN w.cycle[op.key] ELSE op.cycle
           count == [k \in Keys |-> IF counts /\ k = op.key
                                    THEN w.count[k] + 1 ELSE w.count[k]]
           tried == [op EXCEPT !.attempts = attempts, !.round = round, !.cycle = cycle]
           v == WithAttempt(w, o)
<1>0. op \in Operation /\ op.key \in Keys /\ SoundOperation(op)
  BY WorkParts DEF Operation, SoundScope, SoundWork
<1>1. /\ DOMAIN v.ops = DOMAIN w.ops /\ v.ops[o] = tried
      /\ \A p \in DOMAIN w.ops : p # o => v.ops[p] = w.ops[p]
      /\ v.count = count /\ v.cycle = w.cycle
  <2>1. v = [[w EXCEPT !.ops[o] = tried] EXCEPT !.count = count]
    BY DEF WithAttempt, Work
  <2> HIDE DEF tried, count, v
  <2> QED
    BY <2>1 DEF Work
<1>2. /\ tried.attempts = attempts /\ tried.round = round /\ tried.cycle = cycle
      /\ tried.kind = op.kind /\ tried.key = op.key /\ tried.brief = op.brief
      /\ tried.basis = op.basis /\ tried.uncounted = op.uncounted
      /\ tried.supersedes = op.supersedes /\ tried.results = op.results
      /\ tried.techStart = op.techStart
  <2> HIDE DEF op, attempts, round, cycle
  <2> QED
    BY <1>0 DEF Operation
<1>3. attempts # <<>> /\ Len(attempts) = Len(op.attempts) + 1 /\ Len(op.attempts) \in Nat
        /\ op.techStart \in Nat
  BY <1>0, AppendProperties, LenProperties DEF Operation
<1>4. \A k \in Keys : w.count[k] \in Nat /\ w.cycle[k] \in Nat /\ w.cycle[k] # 0
  BY WorkParts DEF SoundScope, SoundWork
<1>5. IF op.key # NoKey THEN round # 0 /\ cycle # 0 ELSE round = 0 /\ cycle = 0
  <2>1. CASE counts
    BY <1>0, <1>4, <2>1
  <2>2. CASE ~counts
    BY <1>0, <2>2 DEF SoundOperation
  <2> QED
    BY <2>1, <2>2
<1> HIDE DEF v, tried, op, round, cycle, attempts
<1>6. SoundOperation(tried)
  <2>1. MatchesKind(tried)
    BY <1>0, <1>2 DEF SoundOperation, MatchesKind
  <2>2. ~tried.uncounted
    BY <1>2 DEF op
  <2>3. tried.techStart <= Len(tried.attempts)
    BY <1>0, <1>2, <1>3 DEF SoundOperation
  <2>4. ValidAnswers(tried)
    BY <1>2, <1>3 DEF ValidAnswers, Answerable
  <2> QED
    BY <1>2, <1>3, <1>5, <2>1, <2>2, <2>3, <2>4 DEF SoundOperation
<1>7. free /\ op.kind = "check" => op.key = NoKey
  <2>1. free => op.key[1] \in {"none", "final_review", "explorer"}
    BY DEF SoundScope, RunOps, op
  <2>2. op.kind = "check" => op.key[1] \notin {"final_review", "explorer"}
    BY <1>0 DEF SoundOperation, MatchesKind
  <2> QED
    BY <1>0, <2>1, <2>2, KeyFacts
<1>8. ASSUME NEW k \in Keys \ {NoKey} PROVE count[k] <= Limit[k[1]]
  <2>1. w.count[k] <= Limit[k[1]] /\ Limit[k[1]] \in Nat
    BY KeyFacts DEF SoundScope, WithinBudget
  <2>2. CASE counts /\ k = op.key
    <3>1. ~CounterExhausted(w, op)
      BY <1>7, <2>2 DEF op
    <3>2. ~(w.count[k] >= Limit[k[1]])
      BY <2>2, <3>1 DEF CounterExhausted
    <3> QED
      BY <1>4, <2>1, <2>2, <3>2
  <2>3. CASE ~(counts /\ k = op.key)
    BY <2>1, <2>3
  <2> QED
    BY <2>2, <2>3
<1>9. (free /\ tried.kind = "check") \/ TechnicalCount(tried) <= TechnicalAttempts
  BY <1>2, <1>3, LimitAssumption DEF TechnicalExhausted, TechnicalCount, op
<1>10. Replaces(w, v, o)
  BY <1>1, <1>2 DEF Replaces, Grown, op
<1>11. /\ v.ops[o].results = w.ops[o].results
       /\ \A k \in Keys : v.cycle[k] # 0
       /\ \A k \in Keys \ {NoKey} : v.count[k] <= Limit[k[1]]
  BY <1>1, <1>2, <1>4, <1>8 DEF op
<1>12. SoundScope(v, free, briefs) /\ Follows(w, v)
  BY <1>1, <1>6, <1>9, <1>10, <1>11, ReplaceScope
<1> QED
  BY <1>12 DEF v

\* The other changes of one operation: its window restarts, or its last attempt
\* has an outcome.  They count nothing.
LEMMA RetriedOperation ==
  ASSUME NEW w \in Work, NEW o \in DOMAIN w.ops, NEW free \in BOOLEAN, NEW briefs,
         SoundScope(w, free, briefs), NEW op \in Operation,
         Grown(w.ops[o], op), op.results = w.ops[o].results,
         op.round = w.ops[o].round, op.cycle = w.ops[o].cycle,
         op.attempts = <<>> <=> w.ops[o].attempts = <<>>,
         op.techStart <= Len(op.attempts),
         TechnicalCount(op) <= TechnicalCount(w.ops[o]) \/ TechnicalCount(op) <= TechnicalAttempts
  PROVE  SoundScope([w EXCEPT !.ops[o] = op], free, briefs)
           /\ Follows(w, [w EXCEPT !.ops[o] = op])
<1> DEFINE v == [w EXCEPT !.ops[o] = op]
           old == w.ops[o]
<1>0. old \in Operation /\ SoundOperation(old)
  BY WorkParts DEF SoundScope, SoundWork
<1>1. /\ DOMAIN v.ops = DOMAIN w.ops /\ v.ops[o] = op
      /\ \A p \in DOMAIN w.ops : p # o => v.ops[p] = w.ops[p]
      /\ v.count = w.count /\ v.cycle = w.cycle
  BY OperationReplaced
<1> HIDE DEF v
<1>2. op.kind = old.kind /\ op.key = old.key /\ op.uncounted = old.uncounted
  BY DEF Grown
<1>3. SoundOperation(op)
  <2>1. MatchesKind(op)
    BY <1>0, <1>2 DEF SoundOperation, MatchesKind
  <2>2. ValidAnswers(op)
    BY <1>0, <1>2 DEF SoundOperation, ValidAnswers, Answerable
  <2> HIDE DEF old
  <2>3. op.uncounted => op.kind = "check" /\ op.key = NoKey /\ op.attempts = <<>>
    BY <1>0, <1>2 DEF SoundOperation, old
  <2>4. IF op.attempts # <<>> /\ op.key # NoKey THEN op.round # 0 /\ op.cycle # 0
                                                ELSE op.round = 0 /\ op.cycle = 0
    BY <1>0, <1>2 DEF SoundOperation, old
  <2> QED
    BY <2>1, <2>2, <2>3, <2>4 DEF SoundOperation
<1>4. (free /\ op.kind = "check") \/ TechnicalCount(op) <= TechnicalAttempts
  <2>1. (free /\ old.kind = "check") \/ TechnicalCount(old) <= TechnicalAttempts
    BY DEF SoundScope, WithinBudget
  <2>2. /\ Len(op.attempts) \in Nat /\ op.techStart \in Nat
        /\ Len(old.attempts) \in Nat /\ old.techStart \in Nat /\ TechnicalAttempts \in Nat
    BY <1>0, LenProperties, LimitAssumption DEF Operation
  <2> QED
    BY <1>2, <2>1, <2>2 DEF TechnicalCount
<1>5. Replaces(w, v, o)
  BY <1>1 DEF Replaces
<1>6. /\ v.ops[o].results = w.ops[o].results /\ v.ops[o] = op
      /\ \A k \in Keys : v.cycle[k] # 0
      /\ \A k \in Keys \ {NoKey} : v.count[k] <= Limit[k[1]]
  BY <1>1 DEF SoundScope, SoundWork, WithinBudget
<1>7. SoundScope(v, free, briefs) /\ Follows(w, v)
  BY <1>3, <1>4, <1>5, <1>6, ReplaceScope
<1> QED
  BY <1>7 DEF v

\* The outcome of the last attempt.
LEMMA ObservedOperation ==
  ASSUME NEW w \in Work, NEW o \in DOMAIN w.ops, NEW free \in BOOLEAN, NEW briefs,
         SoundScope(w, free, briefs), NEW outcome \in AttemptOutcomes,
         Len(w.ops[o].attempts) > 0
  PROVE  LET v == [w EXCEPT !.ops[o].attempts[Len(w.ops[o].attempts)] = outcome]
         IN SoundScope(v, free, briefs) /\ Follows(w, v)
<1> DEFINE old == w.ops[o]
           n == Len(old.attempts)
           attempts == [old.attempts EXCEPT ![n] = outcome]
           op == [old EXCEPT !.attempts = attempts]
<1>0. old \in Operation /\ old.attempts \in Seq(AttemptOutcomes \cup {"none"})
  BY WorkParts DEF Operation
<1>1. old \in Operation /\ old.attempts \in Seq(AttemptOutcomes \cup {"none"})
        /\ n \in 1 .. Len(old.attempts)
  <2>1. Len(old.attempts) \in Nat
    BY <1>0, LenProperties
  <2> QED
    BY <1>0, <2>1
<1>2. attempts \in Seq(AttemptOutcomes \cup {"none"}) /\ Len(attempts) = n /\ n \in Nat \ {0}
  BY <1>1, ExceptSeq, LenProperties
<1>3. attempts # <<>> /\ old.attempts # <<>>
  BY <1>1, <1>2, EmptySeq
<1> HIDE DEF attempts, old, n
<1>4. op \in Operation
  BY <1>1, <1>2 DEF Operation
<1>5. /\ op.attempts = attempts /\ op.techStart = old.techStart /\ op.round = old.round
      /\ op.cycle = old.cycle /\ op.results = old.results /\ Grown(old, op)
  BY <1>1 DEF Operation, Grown
<1>6. old.techStart <= n
  BY DEF SoundScope, SoundWork, SoundOperation, old, n
<1>7. TechnicalCount(op) = TechnicalCount(old) /\ TechnicalCount(old) \in Int
  <2>1. old.techStart \in Nat
    BY <1>1 DEF Operation
  <2> QED
    BY <1>2, <1>5, <2>1 DEF TechnicalCount, n
<1>8. [w EXCEPT !.ops[o].attempts[Len(w.ops[o].attempts)] = outcome] = [w EXCEPT !.ops[o] = op]
  BY DEF op, attempts, old, n
<1> HIDE DEF op
<1>9. SoundScope([w EXCEPT !.ops[o] = op], free, briefs) /\ Follows(w, [w EXCEPT !.ops[o] = op])
  <2>1. TechnicalCount(op) <= TechnicalCount(w.ops[o])
    BY <1>7 DEF old
  <2>2. op.techStart <= Len(op.attempts)
    BY <1>2, <1>5, <1>6
  <2>3. op.attempts = <<>> <=> w.ops[o].attempts = <<>>
    BY <1>3, <1>5 DEF old
  <2>4. Grown(w.ops[o], op) /\ op.results = w.ops[o].results
          /\ op.round = w.ops[o].round /\ op.cycle = w.ops[o].cycle
    BY <1>5 DEF old
  <2> QED
    BY <1>4, <2>1, <2>2, <2>3, <2>4, RetriedOperation
<1> QED
  BY <1>8, <1>9

\* The technical window of a limit pause starts again.
LEMMA ResetOperation ==
  ASSUME NEW w \in Work, NEW o \in DOMAIN w.ops, NEW free \in BOOLEAN, NEW briefs,
         SoundScope(w, free, briefs)
  PROVE  LET v == [w EXCEPT !.ops[o].techStart = Len(w.ops[o].attempts)]
         IN SoundScope(v, free, briefs) /\ Follows(w, v)
<1> DEFINE old == w.ops[o]
           n == Len(old.attempts)
           op == [old EXCEPT !.techStart = n]
<1>1. old \in Operation /\ n \in Nat
  BY WorkParts, LenProperties DEF Operation
<1>2. [w EXCEPT !.ops[o].techStart = Len(w.ops[o].attempts)] = [w EXCEPT !.ops[o] = op]
  OBVIOUS
<1>3. op \in Operation
  <2> HIDE DEF old, n
  <2> QED
    BY <1>1 DEF Operation
<1>4. /\ op.attempts = old.attempts /\ op.techStart = n /\ op.round = old.round
      /\ op.cycle = old.cycle /\ op.results = old.results /\ Grown(old, op)
  <2> HIDE DEF old, n
  <2> QED
    BY <1>1 DEF Operation, Grown
<1>5. TechnicalCount(op) <= TechnicalAttempts
  BY <1>1, <1>4, LimitAssumption DEF TechnicalCount
<1> HIDE DEF op
<1>6. SoundScope([w EXCEPT !.ops[o] = op], free, briefs) /\ Follows(w, [w EXCEPT !.ops[o] = op])
  <2>1. op.techStart <= Len(op.attempts)
    BY <1>1, <1>4
  <2> QED
    BY <1>3, <1>4, <1>5, <2>1, RetriedOperation
<1> QED
  BY <1>2, <1>6

\* A result answers an operation that was attempted and not superseded.
LEMMA AnsweredOperation ==
  ASSUME NEW w \in Work, NEW o \in DOMAIN w.ops, NEW free \in BOOLEAN, NEW briefs,
         SoundScope(w, free, briefs), NEW r, Answerable(w.ops[o]),
         free => \A p \in DOMAIN w.ops : w.ops[p].supersedes # o
  PROVE  SoundScope(WithResult(w, o, r), free, briefs) /\ Follows(w, WithResult(w, o, r))
<1> DEFINE old == w.ops[o]
           results == old.results \cup {r}
           op == [old EXCEPT !.results = results]
           v == [w EXCEPT !.ops[o] = op]
<1>0. old \in Operation /\ SoundOperation(old)
  BY WorkParts DEF SoundScope, SoundWork
<1>1. WithResult(w, o, r) = v
  BY DEF WithResult
<1>2. /\ op.attempts = old.attempts /\ op.techStart = old.techStart /\ op.round = old.round
      /\ op.cycle = old.cycle /\ op.kind = old.kind /\ op.key = old.key
      /\ op.uncounted = old.uncounted /\ op.results = results /\ Grown(old, op)
  <2> HIDE DEF old
  <2> QED
    BY <1>0 DEF Operation, Grown
<1>3. /\ DOMAIN v.ops = DOMAIN w.ops /\ v.ops[o] = op
      /\ \A p \in DOMAIN w.ops : p # o => v.ops[p] = w.ops[p]
      /\ v.count = w.count /\ v.cycle = w.cycle
  <2> HIDE DEF op
  <2> QED
    BY OperationReplaced
<1> HIDE DEF v, op, results
<1>4. SoundOperation(op)
  <2>1. MatchesKind(op)
    BY <1>0, <1>2 DEF SoundOperation, MatchesKind
  <2>2. ValidAnswers(op)
    BY <1>2 DEF ValidAnswers, Answerable
  <2> HIDE DEF old
  <2> QED
    BY <1>0, <1>2, <2>1, <2>2 DEF SoundOperation
<1>5. (free /\ op.kind = "check") \/ TechnicalCount(op) <= TechnicalAttempts
  BY <1>2 DEF SoundScope, WithinBudget, TechnicalCount
<1>6. Replaces(w, v, o)
  BY <1>2, <1>3 DEF Replaces
<1>7. /\ v.ops[o] = op
      /\ \A k \in Keys : v.cycle[k] # 0
      /\ \A k \in Keys \ {NoKey} : v.count[k] <= Limit[k[1]]
  BY <1>3 DEF SoundScope, SoundWork, WithinBudget
<1>8. SoundScope(v, free, briefs) /\ Follows(w, v)
  BY <1>4, <1>5, <1>6, <1>7, ReplaceScope
<1> QED
  BY <1>1, <1>8

\* A counter starts its next cycle.
LEMMA NextCycleScope ==
  ASSUME NEW w \in Work, NEW k \in Keys, NEW free \in BOOLEAN, NEW briefs,
         SoundScope(w, free, briefs)
  PROVE  SoundScope(WithNextCycle(w, k), free, briefs) /\ Follows(w, WithNextCycle(w, k))
<1> DEFINE v == WithNextCycle(w, k)
<1>1. /\ v.ops = w.ops
      /\ \A i \in Keys : v.count[i] = IF i = k THEN 0 ELSE w.count[i]
      /\ \A i \in Keys : v.cycle[i] = IF i = k THEN w.cycle[k] + 1 ELSE w.cycle[i]
  BY DEF WithNextCycle, Work
<1> HIDE DEF v
<1>2. \A i \in Keys : v.cycle[i] # 0
  <2>1. w.cycle[k] \in Nat
    BY WorkParts
  <2> QED
    BY <1>1, <2>1 DEF SoundScope, SoundWork
<1>3. ASSUME NEW i \in Keys \ {NoKey} PROVE v.count[i] <= Limit[i[1]]
  <2>1. Limit[i[1]] \in Nat
    BY KeyFacts
  <2> QED
    BY <1>1, <2>1 DEF SoundScope, WithinBudget
<1>4. SoundScope(v, free, briefs)
  BY <1>1, <1>2, <1>3 DEF SoundScope, SoundWork, WithinBudget, RunOps, AssignmentOps
<1>5. Follows(w, v)
  BY <1>1, GrownSelf DEF Grows, Follows
<1> QED
  BY <1>4, <1>5 DEF v

\* Resume: where the pause names nothing, nothing changes.
LEMMA ResetScope ==
  ASSUME NEW w \in Work, NEW p \in LimitPause, NEW free \in BOOLEAN, NEW briefs,
         SoundScope(w, free, briefs)
  PROVE  SoundScope(ResetWork(w, p), free, briefs) /\ Follows(w, ResetWork(w, p))
<1>1. CASE ~p.technical
  <2>1. ResetWork(w, p) = WithNextCycle(w, p.key) /\ p.key \in Keys
    BY <1>1 DEF ResetWork, LimitPause
  <2> QED
    BY <2>1, NextCycleScope
<1>2. CASE p.technical /\ p.op \in DOMAIN w.ops
  <2>1. ResetWork(w, p) = [w EXCEPT !.ops[p.op].techStart = Len(w.ops[p.op].attempts)]
    BY <1>2 DEF ResetWork
  <2> QED
    BY <1>2, <2>1, ResetOperation
<1>3. CASE p.technical /\ p.op \notin DOMAIN w.ops
  <2>1. ResetWork(w, p) = w
    BY <1>3 DEF ResetWork, Work
  <2> QED
    BY <2>1, GrowsSelf DEF Follows
<1> QED
  BY <1>1, <1>2, <1>3

(***************************************************************************)
(* The leaves and the assignments.                                         *)
(***************************************************************************)
\* The fields of the assignments that the layout looks at.
SameOutline(as, bs) ==
  /\ DOMAIN bs = DOMAIN as
  /\ \A a \in DOMAIN as : bs[a].tasks = as[a].tasks /\ bs[a].status = as[a].status

LEMMA LayoutKept ==
  ASSUME NEW n \in Nat, NEW as, DOMAIN as = 1 .. n, NEW bs, SameOutline(as, bs),
         NEW leaves, NEW ls, LayoutOf(as, leaves, ls)
  PROVE  LayoutOf(bs, leaves, ls)
<1>0. Untaken(bs, leaves, ls)
  BY DEF LayoutOf, Untaken, SameOutline
<1>1. ASSUME NEW a \in 1 .. n PROVE Placed(bs, leaves, ls, a)
  <2>1. \A b \in 1 .. a : b \in 1 .. n
    OBVIOUS
  <2>2. \A b \in 1 .. (a - 1) : b \in 1 .. n
    OBVIOUS
  <2>3. Placed(as, leaves, ls, a)
    BY DEF LayoutOf
  <2>4. /\ bs[a].tasks = as[a].tasks /\ bs[a].status = as[a].status
        /\ \A b \in 1 .. a : bs[b].tasks = as[b].tasks
        /\ \A b \in 1 .. (a - 1) : bs[b].tasks = as[b].tasks /\ bs[b].status = as[b].status
    BY <2>1, <2>2 DEF SameOutline
  <2> QED
    BY <2>3, <2>4 DEF Placed
<1> QED
  BY <1>0, <1>1 DEF LayoutOf, SameOutline

\* The assignment that is not committed is the last.
OpenAt(as, n, leaves, ls, a) ==
  /\ DOMAIN as = 1 .. n /\ LayoutOf(as, leaves, ls)
  /\ as[a].status # "committed"

LEMMA OpenIsLast ==
  ASSUME NEW n \in Nat, NEW as, NEW leaves, NEW ls, NEW a \in 1 .. n,
         OpenAt(as, n, leaves, ls, a)
  PROVE  a = n /\ \A b \in 1 .. n : b # a => as[b].status = "committed"
<1> USE DEF OpenAt
<1>0. \A b \in 1 .. n : \A c \in 1 .. (b - 1) : as[c].status = "committed"
  BY DEF LayoutOf, Placed
<1>1. \A b \in 1 .. n : ~(a \in 1 .. (b - 1))
  BY <1>0
<1>2. a = n
  BY <1>1
<1>3. \A b \in 1 .. n : b # a => b \in 1 .. (a - 1)
  BY <1>2
<1> QED
  BY <1>0, <1>2, <1>3

\* The status of the open assignment and of its leaves changes.
Remarks(as, bs, n, leaves, ls, ms, a) ==
  /\ OpenAt(as, n, leaves, ls, a) /\ DOMAIN bs = 1 .. n
  /\ \A b \in 1 .. n : /\ bs[b].tasks = as[b].tasks
                       /\ b # a => bs[b].status = as[b].status
  /\ \A i \in leaves : ms[i] = IF i \in as[a].tasks THEN LeafStatusIn(bs[a].status)
                                                    ELSE ls[i]

LEMMA LayoutMarked ==
  ASSUME NEW n \in Nat, NEW as, NEW bs, NEW leaves, NEW ls, NEW ms, NEW a \in 1 .. n,
         Remarks(as, bs, n, leaves, ls, ms, a)
  PROVE  LayoutOf(bs, leaves, ms)
<1>1. a = n /\ \A b \in 1 .. n : b # a => as[b].status = "committed"
  <2>1. OpenAt(as, n, leaves, ls, a)
    BY DEF Remarks
  <2>2. a = n
    BY <2>1, OpenIsLast
  <2>3. Placed(as, leaves, ls, a)
    BY <2>1 DEF OpenAt, LayoutOf
  <2>4. \A b \in 1 .. n : b # a => b \in 1 .. (a - 1)
    BY <2>2
  <2> QED
    BY <2>2, <2>3, <2>4 DEF Placed
<1> USE DEF Remarks, OpenAt
<1>2. ASSUME NEW b \in 1 .. n PROVE Placed(bs, leaves, ms, b)
  <2>1. \A c \in 1 .. b : c \in 1 .. n
    OBVIOUS
  <2>2. \A c \in 1 .. (b - 1) : c \in 1 .. n /\ c # a
    BY <1>1
  <2>3. Placed(as, leaves, ls, b)
    BY DEF LayoutOf
  <2>4. /\ bs[b].tasks = as[b].tasks
        /\ \A c \in 1 .. b : bs[c].tasks = as[c].tasks
        /\ \A c \in 1 .. (b - 1) : bs[c].tasks = as[c].tasks /\ bs[c].status = "committed"
    BY <1>1, <2>1, <2>2
  <2>5. ASSUME NEW i \in bs[b].tasks PROVE ms[i] = LeafStatusIn(bs[b].status)
    <3>1. i \in as[b].tasks /\ i \in leaves
      BY <2>3, <2>4, <2>5 DEF Placed
    <3>2. CASE b = a
      BY <3>1, <3>2
    <3>3. CASE b # a
      <4>1. b \in 1 .. (a - 1)
        BY <1>1, <3>3
      <4>2. Placed(as, leaves, ls, a)
        BY DEF LayoutOf
      <4>3. i \notin as[a].tasks
        BY <3>1, <4>1, <4>2 DEF Placed
      <4>4. ls[i] = LeafStatusIn(as[b].status)
        BY <2>3, <3>1 DEF Placed
      <4> QED
        BY <3>1, <3>3, <4>3, <4>4
    <3> QED
      BY <3>2, <3>3
  <2> QED
    BY <2>3, <2>4, <2>5 DEF Placed
<1>3. Untaken(bs, leaves, ms)
  <2> SUFFICES ASSUME NEW i \in leaves, \A b \in 1 .. n : i \notin bs[b].tasks
               PROVE  ms[i] = "pending"
    BY DEF Untaken
  <2>1. \A b \in 1 .. n : i \notin as[b].tasks
    OBVIOUS
  <2>2. ls[i] = "pending"
    BY <2>1 DEF LayoutOf, Untaken
  <2> QED
    BY <2>1, <2>2
<1> QED
  BY <1>2, <1>3 DEF LayoutOf

\* The next assignment takes the first pending leaves.
Starts(as, bs, n, leaves, ls) ==
  /\ DOMAIN as = 1 .. n /\ DOMAIN bs = 1 .. (n + 1) /\ LayoutOf(as, leaves, ls)
  /\ \A b \in 1 .. n : bs[b] = as[b] /\ as[b].status = "committed"
  /\ bs[n + 1].status = "active" /\ bs[n + 1].tasks \subseteq leaves
  /\ \A i \in bs[n + 1].tasks : ls[i] = "pending"
  /\ \A i \in bs[n + 1].tasks, j \in leaves \ bs[n + 1].tasks :
       ls[j] = "pending" => i < j

LEMMA LayoutStarted ==
  ASSUME NEW n \in Nat, NEW as, NEW bs, NEW leaves, NEW ls, Starts(as, bs, n, leaves, ls)
  PROVE  LayoutOf(bs, leaves, ls)
<1> USE DEF Starts
<1>1. \A b \in 1 .. (n + 1) : b = n + 1 \/ b \in 1 .. n
  OBVIOUS
<1>2. \A b \in 1 .. n : b \in 1 .. (n + 1)
  OBVIOUS
<1>3. ASSUME NEW a \in 1 .. n PROVE Placed(bs, leaves, ls, a)
  <2>0. /\ \A b \in 1 .. a : b \in 1 .. n
        /\ \A b \in 1 .. (a - 1) : b \in 1 .. n
    OBVIOUS
  <2>1. \A b \in 1 .. a : bs[b] = as[b]
    BY <2>0
  <2>2. \A b \in 1 .. (a - 1) : bs[b] = as[b]
    BY <2>0
  <2>3. Placed(as, leaves, ls, a) /\ bs[a] = as[a]
    BY DEF LayoutOf
  <2> QED
    BY <2>1, <2>2, <2>3 DEF Placed
<1>4. \A b \in 1 .. n : \A i \in bs[b].tasks : ls[i] = "complete"
  <2> TAKE b \in 1 .. n
  <2>1. Placed(bs, leaves, ls, b) /\ bs[b].status = "committed"
    BY <1>3
  <2> QED
    BY <2>1 DEF Placed, LeafStatusIn
<1>5. ASSUME NEW i \in bs[n + 1].tasks, NEW j \in leaves
      PROVE  i < j \/ \E b \in 1 .. (n + 1) : j \in bs[b].tasks
  <2>1. CASE j \in bs[n + 1].tasks
    BY <2>1
  <2>2. CASE j \notin bs[n + 1].tasks /\ ls[j] = "pending"
    BY <2>2
  <2>3. CASE ls[j] # "pending"
    <3>1. PICK b \in 1 .. n : j \in as[b].tasks
      BY <2>3 DEF LayoutOf, Untaken
    <3> QED
      BY <1>2, <3>1
  <2> QED
    BY <2>1, <2>2, <2>3
<1>6. LeafStatusIn("active") = "pending"
  BY DEF LeafStatusIn
<1>7. \A b \in 1..n : bs[n + 1].tasks \cap bs[b].tasks = {}
  BY <1>4
<1>8. (n + 1) - 1 = n
  OBVIOUS
<1>9. Placed(bs, leaves, ls, n + 1)
  BY <1>5, <1>6, <1>7, <1>8 DEF Placed
<1>10. Untaken(bs, leaves, ls)
  <2>1. \A b \in 1 .. n : bs[b] = as[b] /\ b \in DOMAIN bs
    BY <1>2
  <2> QED
    BY <2>1 DEF LayoutOf, Untaken
<1> QED
  BY <1>1, <1>3, <1>9, <1>10 DEF LayoutOf

\* The new leaves follow the old ones and are pending.
LEMMA LayoutGrown ==
  ASSUME NEW as, NEW leaves, NEW ls, LayoutOf(as, leaves, ls), NEW added, NEW ms,
         \A i \in leaves, j \in added : i < j,
         \A i \in leaves : ms[i] = ls[i],
         \A i \in added : ms[i] = "pending"
  PROVE  LayoutOf(as, leaves \cup added, ms)
<1>1. Untaken(as, leaves \cup added, ms)
  BY DEF LayoutOf, Untaken
<1>2. ASSUME NEW a \in DOMAIN as PROVE Placed(as, leaves \cup added, ms, a)
  <2>1. Placed(as, leaves, ls, a)
    BY DEF LayoutOf
  <2> QED
    BY <2>1 DEF Placed
<1> QED
  BY <1>1, <1>2 DEF LayoutOf

(***************************************************************************)
(* What keeps the record but for the lifecycle.                            *)
(***************************************************************************)
LEMMA Outline ==
  ASSUME TypeInv
  PROVE  /\ Len(asgs) \in Nat /\ DOMAIN asgs = 1 .. Len(asgs)
         /\ \A a \in DOMAIN asgs : asgs[a] \in Assignment
         /\ DOMAIN leafStatus = Leaves /\ runWork \in Work
  BY LenProperties, ElementOfSeq DEF TypeInv, TypeOK

\* The evidence of the run grows with its operations.
LEMMA RunEvidenceKept ==
  ASSUME Record, Grows(runWork, runWork')
  PROVE  /\ \A o : FailedFinalReview(o) => FailedFinalReview(o)'
         /\ \A e : BaselineHolds(e) => BaselineHolds(e)'
         /\ \A e \in final \cup finalHistory : EvidenceHolds(runWork', e)
<1>1. \A o : FailedFinalReview(o) => FailedFinalReview(o)'
  BY DEF FailedFinalReview, Grows, Grown
<1>2. \A e : BaselineHolds(e) => BaselineHolds(e)'
  BY DEF BaselineHolds, Proves, Grows, Grown
<1>3. \A e \in final \cup finalHistory : EvidenceHolds(runWork, e)
  BY DEF Record, FinalInv, FinalAcceptanceCurrent
<1>4. \A e \in final \cup finalHistory : EvidenceHolds(runWork', e)
  BY <1>3, EvidenceGrows
<1> QED
  BY <1>1, <1>2, <1>4

\* A step on the operations of the run.
LEMMA RunScopeStep ==
  ASSUME Record, UNCHANGED <<asgs, inputs, plan, baseline, finals>>,
         SoundScope(runWork', TRUE, 0), Grows(runWork, runWork'), Early'
  PROVE  Record'
<1>1. ValidStructure'
  BY RunEvidenceKept DEF Record, ValidStructure, plan
<1>2. AssignmentInv' /\ Currency' /\ Layout'
  BY DEF Record, AssignmentInv, Currency, Layout, Leaves, plan, inputs
<1>3. RunWorkInv'
  BY DEF RunWorkInv
<1>4. ValidBaseline'
  BY RunEvidenceKept DEF Record, ValidBaseline, plan
<1>5. FinalInv'
  <2>1. \A e \in final' : EvidenceHolds(runWork', e)
    BY RunEvidenceKept DEF finals
  <2>2. \A e \in finalHistory' : EvidenceHolds(runWork', e)
    BY RunEvidenceKept DEF finals
  <2>3. Leaves' = Leaves /\ AllLeavesComplete' = AllLeavesComplete
          /\ HasOpenAssignment' = HasOpenAssignment
    BY DEF Leaves, AllLeavesComplete, HasOpenAssignment, plan
  <2> QED
    BY <2>1, <2>2, <2>3 DEF Record, FinalInv, FinalAcceptanceCurrent, inputs, finals
<1> QED
  BY <1>1, <1>2, <1>3, <1>4, <1>5 DEF Record

\* A step on one assignment that leaves its outline alone.
LEMMA AssignmentScopeStep ==
  ASSUME TypeInv, Record, NEW a \in DOMAIN asgs, NEW asg, SoundAssignment(asg),
         asgs' = [asgs EXCEPT ![a] = asg],
         asg.tasks = asgs[a].tasks, asg.status = asgs[a].status,
         asg.acceptance = asgs[a].acceptance,
         UNCHANGED <<runWork, inputs, plan, baseline, finals>>
  PROVE  Record'
<1>0. Leaves' = Leaves /\ leafStatus' = leafStatus
  BY DEF Leaves, plan
<1>1. ValidStructure' /\ RunWorkInv' /\ Early'
  BY DEF Record, ValidStructure, FailedFinalReview, RunWorkInv, Early, plan
<1>2. AssignmentInv'
  BY DEF Record, AssignmentInv
<1>3. SameOutline(asgs, asgs')
  BY DEF SameOutline
<1>4. Layout'
  <2>1. LayoutOf(asgs', Leaves, leafStatus)
    BY <1>3, Outline, LayoutKept DEF Record, Layout
  <2> QED
    BY <1>0, <2>1 DEF Layout
<1>5. Currency'
  BY DEF Record, Currency, inputs
<1>6. ValidBaseline'
  <2>1. asgs = <<>> => asgs' = <<>>
    OBVIOUS
  <2> QED
    BY <2>1 DEF Record, ValidBaseline, BaselineHolds, plan
<1>7. FinalInv'
  <2>1. HasOpenAssignment' <=> HasOpenAssignment
    BY <1>3 DEF SameOutline, HasOpenAssignment
  <2>2. AllLeavesComplete' <=> AllLeavesComplete
    BY <1>0 DEF AllLeavesComplete
  <2> QED
    BY <2>1, <2>2 DEF Record, FinalInv, FinalAcceptanceCurrent, inputs, finals
<1> QED
  BY <1>1, <1>2, <1>4, <1>5, <1>6, <1>7 DEF Record

\* The final acceptance is given up, or there is none.
NoFinal == InvalidateFinal \/ (final = {} /\ UNCHANGED finals)

LEMMA FinalDropped ==
  ASSUME Record, NoFinal, UNCHANGED runWork
  PROVE  FinalInv'
<1>1. final' = {} /\ finalHistory' \subseteq finalHistory \cup final
  BY DEF NoFinal, InvalidateFinal, finals
<1>2. \A e \in finalHistory' : EvidenceHolds(runWork', e)
  BY <1>1, RunEvidenceKept, GrowsSelf
<1> QED
  BY <1>1, <1>2 DEF FinalInv, FinalAcceptanceCurrent

\* A step that changes the status of the open assignment and of its leaves.
LEMMA StatusStep ==
  ASSUME TypeInv, Record, NEW a \in DOMAIN asgs, asgs[a].status # "committed",
         NEW asg, SoundAssignment(asg), asg.tasks = asgs[a].tasks,
         asgs' = [asgs EXCEPT ![a] = asg],
         leafStatus' = Marked(asgs[a].tasks, LeafStatusIn(asg.status)),
         asg.status = "accepted" =>
           \A e \in asg.acceptance : e.state = curState' /\ e.basis = basis',
         NoFinal, UNCHANGED <<extracting, tasks, baseline, runWork>>
  PROVE  Record'
<1>0. Leaves' = Leaves /\ \A b \in DOMAIN asgs : b # a => asgs[b].status = "committed"
  <2>0. Len(asgs) \in Nat /\ a \in 1 .. Len(asgs) /\ OpenAt(asgs, Len(asgs), Leaves, leafStatus, a)
    BY Outline DEF Record, Layout, OpenAt
  <2>1. \A b \in DOMAIN asgs : b # a => asgs[b].status = "committed"
    BY <2>0, Outline, OpenIsLast
  <2> QED
    BY <2>1 DEF Leaves
<1>1. ValidStructure' /\ RunWorkInv' /\ Early'
  BY DEF Record, ValidStructure, FailedFinalReview, RunWorkInv, Early
<1>2. AssignmentInv'
  BY DEF Record, AssignmentInv
<1>3. Layout'
  <2>1. \A i \in Leaves : leafStatus'[i] = IF i \in asgs[a].tasks
                                           THEN LeafStatusIn(asg.status) ELSE leafStatus[i]
    BY Outline DEF Marked
  <2>2. DOMAIN asgs' = 1 .. Len(asgs) /\ asgs'[a] = asg
    BY Outline
  <2>3. \A b \in 1 .. Len(asgs) : /\ asgs'[b].tasks = asgs[b].tasks
                                  /\ b # a => asgs'[b].status = asgs[b].status
    BY Outline
  <2>4. a \in 1 .. Len(asgs) /\ LayoutOf(asgs, Leaves, leafStatus)
    BY Outline DEF Record, Layout
  <2>5. \A i \in Leaves : leafStatus'[i] = IF i \in asgs[a].tasks
                                           THEN LeafStatusIn(asgs'[a].status) ELSE leafStatus[i]
    BY <2>1, <2>2
  <2>6. LayoutOf(asgs', Leaves, leafStatus')
    <3>1. Len(asgs) \in Nat /\ a \in 1 .. Len(asgs) /\ OpenAt(asgs, Len(asgs), Leaves, leafStatus, a)
      BY Outline DEF Record, Layout, OpenAt
    <3>2. Remarks(asgs, asgs', Len(asgs), Leaves, leafStatus, leafStatus', a)
      BY <2>2, <2>3, <2>5, <3>1 DEF Remarks
    <3> QED
      BY <3>1, <3>2, LayoutMarked
  <2> QED
    BY <1>0, <2>6 DEF Layout
<1>4. Currency'
  BY <1>0 DEF Currency
<1>5. ValidBaseline'
  <2>1. asgs = <<>> => asgs' = <<>>
    OBVIOUS
  <2> QED
    BY <2>1 DEF Record, ValidBaseline, BaselineHolds
<1> QED
  BY <1>1, <1>2, <1>3, <1>4, <1>5, FinalDropped DEF Record

(***************************************************************************)
(* Operations, attempts and results of a scope keep the record.            *)
(***************************************************************************)
LEMMA WorkChanged ==
  ASSUME NEW asg \in Assignment, SoundAssignment(asg), NEW v,
         SoundScope(v, FALSE, asg.briefs), Grows(asg.work, v)
  PROVE  SoundAssignment([asg EXCEPT !.work = v])
<1> DEFINE new == [asg EXCEPT !.work = v]
<1>1. /\ new.tasks = asg.tasks /\ new.status = asg.status /\ new.briefs = asg.briefs
      /\ new.work = v /\ new.acceptance = asg.acceptance /\ new.intent = asg.intent
      /\ new.history = asg.history /\ new.commit = asg.commit
  BY DEF Assignment
<1> HIDE DEF new
<1>2. \A e : /\ ValidAcceptance(asg, e, FALSE) => ValidAcceptance(new, e, FALSE)
             /\ ValidAcceptance(asg, e, TRUE) => ValidAcceptance(new, e, TRUE)
  BY <1>1, EvidenceGrows DEF ValidAcceptance
<1>3. Proven(new)
  <2>1. Proven(asg)
    BY DEF SoundAssignment
  <2>2. \A e \in new.history : ValidAcceptance(new, e, FALSE)
    BY <1>1, <1>2, <2>1 DEF Proven
  <2>3. new.status # "active" => \E e \in new.acceptance : ValidAcceptance(new, e, TRUE)
    BY <1>1, <1>2, <2>1 DEF Proven
  <2>4. new.status = "committed" =>
          \E c \in new.commit : \E e \in new.acceptance :
            new.intent = {c.tree} /\ c.state = e.state /\ c.basis = e.basis
    BY <1>1, <2>1 DEF Proven
  <2>5. /\ new.status = "active" => new.acceptance = {} /\ new.commit = {}
        /\ new.status = "accepted" => new.commit = {}
    BY <1>1, <2>1 DEF Proven
  <2> QED
    BY <2>2, <2>3, <2>4, <2>5 DEF Proven
<1> QED
  BY <1>1, <1>3 DEF SoundAssignment, new

\* The operations of the scope a, with its budget and its briefs.
ScopeOf(a, w) == SoundScope(w, a = 0, IF a = 0 THEN 0 ELSE asgs[a].briefs)

LEMMA ScopeSound ==
  ASSUME TypeInv, Record, NEW a \in Scopes
  PROVE  ScopeOf(a, WorkOf(a)) /\ WorkOf(a) \in Work
<1>1. WorkOf(a) \in Work
  BY WorkOfType DEF TypeInv
<1>2. CASE a = 0
  <2>1. SoundScope(runWork, TRUE, 0)
    BY DEF Record, RunWorkInv
  <2> QED
    BY <1>1, <1>2, <2>1 DEF ScopeOf, WorkOf
<1>3. CASE a # 0
  <2>1. SoundScope(asgs[a].work, FALSE, asgs[a].briefs)
    BY <1>3 DEF Record, AssignmentInv, SoundAssignment, Scopes
  <2> QED
    BY <1>1, <1>3, <2>1 DEF ScopeOf, WorkOf
<1> QED
  BY <1>2, <1>3

\* A step on the operations of any scope: nothing is checked before the tasks
\* are extracted.
LEMMA ScopeStep ==
  ASSUME TypeInv, Record, NEW a \in Scopes, NEW v, SetWork(a, v),
         ScopeOf(a, v), Grows(WorkOf(a), v),
         UNCHANGED <<inputs, plan, baseline, finals>>,
         \A o \in DOMAIN v.ops :
           v.ops[o].kind = "agent" \/ o \in DOMAIN WorkOf(a).ops \/ ~extracting
  PROVE  Record'
<1>1. CASE a = 0
  <2>1. runWork' = v /\ UNCHANGED asgs /\ SoundScope(v, TRUE, 0) /\ Grows(runWork, v)
    BY <1>1 DEF SetWork, ScopeOf, WorkOf
  <2>2. Early'
    <3>1. \A o \in DOMAIN runWork.ops : v.ops[o].kind = runWork.ops[o].kind
      BY <2>1 DEF Grows, Grown
    <3> QED
      BY <1>1, <2>1, <3>1 DEF Record, Early, WorkOf, plan
  <2> QED
    BY <2>1, <2>2, RunScopeStep
<1>2. CASE a # 0
  <2> DEFINE asg == [asgs[a] EXCEPT !.work = v]
  <2>1. a \in DOMAIN asgs /\ asgs[a] \in Assignment /\ UNCHANGED runWork
    BY <1>2, Outline DEF Scopes, SetWork
  <2>2. asgs' = [asgs EXCEPT ![a] = asg]
    BY <1>2 DEF SetWork
  <2>3. SoundScope(v, FALSE, asgs[a].briefs) /\ Grows(asgs[a].work, v)
    BY <1>2 DEF ScopeOf, WorkOf
  <2>4. SoundAssignment(asg)
    BY <2>1, <2>3, WorkChanged DEF Record, AssignmentInv
  <2>5. /\ asg.tasks = asgs[a].tasks /\ asg.status = asgs[a].status
        /\ asg.acceptance = asgs[a].acceptance
    BY <2>1 DEF Assignment
  <2> HIDE DEF asg
  <2> QED
    BY <2>1, <2>2, <2>4, <2>5, AssignmentScopeStep
<1> QED
  BY <1>1, <1>2

\* The same when no operation is added.
LEMMA FollowingStep ==
  ASSUME TypeInv, Record, NEW a \in Scopes, NEW v, SetWork(a, v),
         ScopeOf(a, v), Follows(WorkOf(a), v),
         UNCHANGED <<inputs, plan, baseline, finals>>
  PROVE  Record'
  BY ScopeStep DEF Follows

LEMMA RecordUnchanged ==
  ASSUME TypeInv, Record, UNCHANGED <<inputs, plan, baseline, asgs, runWork, finals>>
  PROVE  Record'
<1>1. SoundScope(runWork', TRUE, 0) /\ Grows(runWork, runWork') /\ Early'
  BY GrowsSelf DEF Record, RunWorkInv, Early, plan
<1> QED
  BY <1>1, RunScopeStep

LEMMA BriefAdded ==
  ASSUME NEW asg \in Assignment, SoundAssignment(asg), asg.status = "active"
  PROVE  SoundAssignment([asg EXCEPT !.briefs = @ + 1])
<1> DEFINE new == [asg EXCEPT !.briefs = @ + 1]
<1>1. /\ new.tasks = asg.tasks /\ new.status = asg.status /\ new.briefs = asg.briefs + 1
      /\ new.work = asg.work /\ new.acceptance = asg.acceptance
      /\ new.history = asg.history /\ new.commit = asg.commit
      /\ asg.briefs \in Nat
  BY DEF Assignment
<1> HIDE DEF new
<1>2. \A n \in 1 .. asg.briefs : n \in 1 .. new.briefs
  BY <1>1
<1>3. Proven(new)
  BY <1>1, <1>2 DEF SoundAssignment, Proven, ValidAcceptance
<1>4. SoundScope(new.work, FALSE, new.briefs)
  BY <1>1, <1>2 DEF SoundAssignment, SoundScope, AssignmentOps
<1> QED
  BY <1>1, <1>3, <1>4 DEF SoundAssignment, new

LEMMA OperationStepRecord == ASSUME TypeInv, Record, OperationStep PROVE Record'
<1>0. basis \in Bases
  BY DEF TypeInv, TypeOK
<1>1. ASSUME NEW a \in DOMAIN asgs, AddBriefVersion(a) PROVE Record'
  <2> DEFINE asg == [asgs[a] EXCEPT !.briefs = @ + 1]
  <2>1. asgs[a] \in Assignment /\ asgs[a].status = "active" /\ SoundAssignment(asgs[a])
    BY <1>1, Outline DEF AddBriefVersion, ActiveAssignment, Record, AssignmentInv
  <2>2. SoundAssignment(asg)
    BY <2>1, BriefAdded
  <2>3. asgs' = [asgs EXCEPT ![a] = asg] /\ UNCHANGED <<runWork, inputs, plan, baseline, finals>>
    BY <1>1 DEF AddBriefVersion
  <2>4. /\ asg.tasks = asgs[a].tasks /\ asg.status = asgs[a].status
        /\ asg.acceptance = asgs[a].acceptance
    BY <2>1 DEF Assignment
  <2> HIDE DEF asg
  <2> QED
    BY <2>2, <2>3, <2>4, AssignmentScopeStep
<1>2. ASSUME NEW a \in DOMAIN asgs, NEW t \in AssignmentTemplates, AddOperation(a, t)
      PROVE  Record'
  <2> DEFINE w == WorkOf(a)
             op == NewOperation(t, asgs[a].briefs, 0)
             v == WithOperation(w, op)
  <2>1. a \in Scopes /\ a # 0 /\ asgs[a] \in Assignment /\ asgs[a].briefs \in Nat
    BY Outline DEF Scopes, Assignment
  <2>2. op \in Operation
    BY <1>0, <2>1, KeyOfTemplate, NewOperationType
  <2>3. asgs[a].briefs \in 1 .. asgs[a].briefs
    BY <1>2, <2>1 DEF AddOperation
  <2>4. NewIn(w, op, FALSE, asgs[a].briefs)
    <3>1. MatchesKind(t) /\ ~t.uncounted
      BY TemplateAssumption
    <3>2. MatchesKind(op)
      BY <3>1 DEF NewOperation, MatchesKind
    <3> QED
      BY <2>3, <3>1, <3>2 DEF NewIn, NewOperation
  <2>5. w \in Work /\ SoundScope(w, FALSE, asgs[a].briefs)
    BY <2>1, ScopeSound DEF ScopeOf
  <2>6. SetWork(a, v) /\ UNCHANGED <<inputs, plan, baseline, finals>>
    BY <1>2 DEF AddOperation
  <2> HIDE DEF op, w
  <2>7. SoundScope(v, FALSE, asgs[a].briefs) /\ Grows(w, v)
    BY <2>2, <2>4, <2>5, AddedOperation
  <2> HIDE DEF v
  <2>8. ScopeOf(a, v) /\ ~extracting
    <3>1. ~extracting
      BY <2>1 DEF Record, ValidBaseline
    <3> QED
      BY <2>1, <2>7, <3>1 DEF ScopeOf
  <2> QED
    BY <2>1, <2>6, <2>7, <2>8, ScopeStep DEF w
<1>3. ASSUME NEW t \in RunTemplates, Due(t), AddRunOperation(t) PROVE Record'
  <2> DEFINE op == NewOperation(t, 0, 0)
             v == WithOperation(runWork, op)
  <2>1. op \in Operation
    BY <1>0, KeyOfTemplate, NewOperationType
  <2>2. NewIn(runWork, op, TRUE, 0)
    <3>1. /\ MatchesKind(t) /\ t.key[1] \in {"none", "final_review", "explorer"}
          /\ t.uncounted => t.kind = "check" /\ t.key = NoKey
      BY TemplateAssumption
    <3>2. MatchesKind(op)
      BY <3>1 DEF NewOperation, MatchesKind
    <3> QED
      BY <3>1, <3>2 DEF NewIn, NewOperation
  <2>3. op.kind = "agent" \/ ~extracting
    BY <1>3 DEF Due, NewOperation
  <2>4. SetWork(0, v) /\ UNCHANGED <<inputs, plan, baseline, finals>> /\ 0 \in Scopes
    BY <1>3 DEF AddRunOperation, Scopes
  <2>5. runWork \in Work /\ SoundScope(runWork, TRUE, 0) /\ WorkOf(0) = runWork
    BY Outline DEF Record, RunWorkInv, WorkOf
  <2> HIDE DEF op
  <2>6. SoundScope(v, TRUE, 0) /\ Grows(runWork, v)
    BY <2>1, <2>2, <2>5, AddedOperation
  <2>7. \A o \in DOMAIN v.ops : v.ops[o] = op \/ o \in DOMAIN runWork.ops
    BY <2>1, <2>5, AddedDomain
  <2> HIDE DEF v
  <2>8. ScopeOf(0, v)
    BY <2>6 DEF ScopeOf
  <2> QED
    BY <2>3, <2>4, <2>5, <2>6, <2>7, <2>8, ScopeStep
<1>4. ASSUME NEW o \in DOMAIN runWork.ops, SupersedeRunOperation(o) PROVE Record'
  <2> DEFINE prior == runWork.ops[o]
             t == [kind |-> prior.kind, key |-> prior.key, uncounted |-> prior.uncounted]
             op == NewOperation(t, 0, o)
             v == WithOperation(runWork, op)
  <2>1. runWork \in Work /\ prior \in Operation /\ o \in Nat
    BY Outline, WorkParts
  <2>2. t.key \in Keys /\ t.kind \in Kinds /\ t.uncounted \in BOOLEAN
    BY <2>1 DEF Operation
  <2>3. op \in Operation
    <3> HIDE DEF t
    <3> QED
      BY <1>0, <2>1, <2>2, NewOperationType
  <2>4. /\ op.kind = prior.kind /\ op.key = prior.key /\ op.uncounted = prior.uncounted
        /\ op.supersedes = o /\ op.brief = 0 /\ op.basis = basis
        /\ op.attempts = <<>> /\ op.round = 0 /\ op.cycle = 0 /\ op.techStart = 0
        /\ op.results = {}
    BY DEF NewOperation
  <2>5. /\ prior.results = {} /\ prior.basis # basis
        /\ \A p \in DOMAIN runWork.ops : runWork.ops[p].supersedes # o
    BY <1>4 DEF SupersedeRunOperation, Superseded
  <2>6. SoundOperation(prior) /\ prior.key[1] \in {"none", "final_review", "explorer"}
    BY DEF Record, RunWorkInv, SoundScope, SoundWork, RunOps
  <2>7. SetWork(0, v) /\ UNCHANGED <<inputs, plan, baseline, finals>> /\ 0 \in Scopes
    BY <1>4 DEF SupersedeRunOperation, Scopes
  <2>8. SoundScope(runWork, TRUE, 0) /\ WorkOf(0) = runWork
    BY DEF Record, RunWorkInv, WorkOf
  <2> HIDE DEF op, t
  <2>9. NewIn(runWork, op, TRUE, 0)
    <3>1. MatchesKind(op)
      BY <2>4, <2>6 DEF SoundOperation, MatchesKind
    <3>2. op.uncounted => op.kind = "check" /\ op.key = NoKey
      BY <2>4, <2>6 DEF SoundOperation
    <3> QED
      BY <2>4, <2>5, <2>6, <3>1, <3>2 DEF NewIn
  <2>10. SoundScope(v, TRUE, 0) /\ Grows(runWork, v)
    BY <2>1, <2>3, <2>8, <2>9, AddedOperation
  <2>11. \A p \in DOMAIN v.ops : v.ops[p] = op \/ p \in DOMAIN runWork.ops
    BY <2>1, <2>3, AddedDomain
  <2> HIDE DEF v
  <2>12. ScopeOf(0, v)
    BY <2>10 DEF ScopeOf
  <2>13. op.kind = "agent" \/ ~extracting
    BY <2>4 DEF Record, Early
  <2> QED
    BY <2>7, <2>8, <2>10, <2>11, <2>12, <2>13, ScopeStep
<1>5. ASSUME NEW a \in Scopes, NEW k \in Keys, EndExplorerEpisode(a, k) PROVE Record'
  <2>1. WorkOf(a) \in Work /\ ScopeOf(a, WorkOf(a))
    BY ScopeSound
  <2>2. ScopeOf(a, WithNextCycle(WorkOf(a), k)) /\ Follows(WorkOf(a), WithNextCycle(WorkOf(a), k))
    BY <2>1, NextCycleScope DEF ScopeOf
  <2> QED
    BY <1>5, <2>2, FollowingStep DEF EndExplorerEpisode
<1> QED
  BY <1>1, <1>2, <1>3, <1>4, <1>5 DEF OperationStep

LEMMA AttemptStepRecord == ASSUME TypeInv, Record, AttemptStep PROVE Record'
<1>1. PICK a \in Scopes : \E o \in DOMAIN WorkOf(a).ops :
        \/ StartAttemptWithLimits(a, o) \/ PauseForLimit(a, o)
        \/ a = 0 /\ StartRunAttempt(o)
        \/ \E outcome \in AttemptOutcomes : RecordAttemptOutcome(a, o, outcome)
  BY DEF AttemptStep
<1>2. PICK o \in DOMAIN WorkOf(a).ops :
        \/ StartAttemptWithLimits(a, o) \/ PauseForLimit(a, o)
        \/ a = 0 /\ StartRunAttempt(o)
        \/ \E outcome \in AttemptOutcomes : RecordAttemptOutcome(a, o, outcome)
  BY <1>1
<1> DEFINE w == WorkOf(a)
<1>3. w \in Work /\ ScopeOf(a, w) /\ o \in DOMAIN w.ops
  BY <1>2, ScopeSound
<1>4. CASE StartAttemptWithLimits(a, o)
  <2>1. /\ ~w.ops[o].uncounted
        /\ ~TechnicalExhausted(w.ops[o]) /\ ~CounterExhausted(w, w.ops[o])
        /\ SetWork(a, WithAttempt(w, o)) /\ UNCHANGED <<inputs, plan, baseline, finals>>
    BY <1>4 DEF StartAttemptWithLimits, MayAttempt
  <2> HIDE DEF w
  <2>2. ScopeOf(a, WithAttempt(w, o)) /\ Follows(w, WithAttempt(w, o))
    BY <1>3, <2>1, AttemptedOperation DEF ScopeOf
  <2> QED
    BY <1>3, <2>1, <2>2, FollowingStep DEF w
<1>5. CASE PauseForLimit(a, o)
  BY <1>5, RecordUnchanged DEF PauseForLimit
<1>6. CASE a = 0 /\ StartRunAttempt(o)
  <2>1. w = runWork
    BY <1>6 DEF WorkOf
  <2>2. /\ ~w.ops[o].uncounted /\ w.ops[o].kind = "check"
        /\ SetWork(a, WithAttempt(w, o)) /\ UNCHANGED <<inputs, plan, baseline, finals>>
    BY <1>6, <2>1 DEF StartRunAttempt, MayAttempt, Unlimited, WorkOf
  <2> HIDE DEF w
  <2>3. ScopeOf(a, WithAttempt(w, o)) /\ Follows(w, WithAttempt(w, o))
    BY <1>3, <1>6, <2>2, AttemptedOperation DEF ScopeOf
  <2> QED
    BY <1>3, <2>2, <2>3, FollowingStep DEF w
<1>7. ASSUME NEW outcome \in AttemptOutcomes, RecordAttemptOutcome(a, o, outcome)
      PROVE  Record'
  <2> DEFINE v == [w EXCEPT !.ops[o].attempts[Len(w.ops[o].attempts)] = outcome]
  <2>1. /\ Len(w.ops[o].attempts) > 0
        /\ SetWork(a, v) /\ UNCHANGED <<inputs, plan, baseline, finals>>
    BY <1>7 DEF RecordAttemptOutcome
  <2> HIDE DEF w
  <2>2. ScopeOf(a, v) /\ Follows(w, v)
    BY <1>3, <2>1, ObservedOperation DEF ScopeOf
  <2> HIDE DEF v
  <2> QED
    BY <1>3, <2>1, <2>2, FollowingStep DEF w
<1> QED
  BY <1>2, <1>4, <1>5, <1>6, <1>7

LEMMA GrowsTwice ==
  ASSUME NEW u, NEW v, NEW w, Follows(u, v), Follows(v, w)
  PROVE  Follows(u, w)
  BY DEF Follows, Grows, Grown

LEMMA ResultStepRecord == ASSUME TypeInv, Record, ResultStep PROVE Record'
<1>1. PICK a \in Scopes : \E o \in DOMAIN WorkOf(a).ops, r \in Result :
        /\ a = 0 => ~Superseded(o)
        /\ (a # 0 /\ AddResult(a, o, r)) \/ (a = 0 /\ AddRunResult(o, r))
  BY DEF ResultStep
<1>2. PICK o \in DOMAIN WorkOf(a).ops, r \in Result :
        /\ a = 0 => ~Superseded(o)
        /\ (a # 0 /\ AddResult(a, o, r)) \/ (a = 0 /\ AddRunResult(o, r))
  BY <1>1
<1> DEFINE w == WorkOf(a)
           v == WithResult(w, o, r)
<1>3. w \in Work /\ ScopeOf(a, w) /\ o \in DOMAIN w.ops /\ w.ops[o].key \in Keys
  BY <1>2, ScopeSound, WorkParts DEF Operation
<1>4. (a = 0) => \A p \in DOMAIN w.ops : w.ops[p].supersedes # o
  BY <1>2 DEF Superseded, WorkOf
<1>5. /\ Answerable(w.ops[o]) /\ UNCHANGED <<inputs, plan, baseline, finals>>
      /\ SetWork(a, v) \/ SetWork(a, WithNextCycle(v, w.ops[o].key))
  BY <1>2 DEF AddResult, AddRunResult, WorkOf
<1>6. v \in Work
  BY <1>3, WithResultType
<1> HIDE DEF w
<1>7. ScopeOf(a, v) /\ Follows(w, v)
  BY <1>3, <1>4, <1>5, AnsweredOperation DEF ScopeOf
<1> HIDE DEF v
<1>8. CASE SetWork(a, v)
  BY <1>5, <1>7, <1>8, FollowingStep DEF w
<1>9. CASE SetWork(a, WithNextCycle(v, w.ops[o].key))
  <2> DEFINE u == WithNextCycle(v, w.ops[o].key)
  <2>1. ScopeOf(a, u) /\ Follows(v, u)
    BY <1>3, <1>6, <1>7, NextCycleScope DEF ScopeOf
  <2>2. Follows(w, u)
    BY <1>7, <2>1, GrowsTwice
  <2> HIDE DEF u
  <2> QED
    BY <1>5, <1>9, <2>1, <2>2, FollowingStep DEF w, u
<1> QED
  BY <1>5, <1>8, <1>9

(***************************************************************************)
(* Acceptance, commit and reopening.                                       *)
(***************************************************************************)
\* An assignment that differs in its intent or in its reconciled commits only.
LEMMA IntentChanged ==
  ASSUME NEW asg \in Assignment, SoundAssignment(asg), NEW new,
         asg.status = "accepted",
         new.tasks = asg.tasks, new.status = asg.status, new.briefs = asg.briefs,
         new.work = asg.work, new.acceptance = asg.acceptance,
         new.history = asg.history, new.commit = asg.commit
  PROVE  SoundAssignment(new)
  BY DEF SoundAssignment, Proven, ValidAcceptance

LEMMA AcceptedSound ==
  ASSUME NEW asg \in Assignment, SoundAssignment(asg), asg.status = "active", NEW e,
         e.brief = asg.briefs, asg.briefs > 0, EvidenceHolds(asg.work, e)
  PROVE  LET new == [asg EXCEPT !.acceptance = {e}, !.status = "accepted"]
         IN SoundAssignment(new) /\ new.tasks = asg.tasks
<1> DEFINE new == [asg EXCEPT !.acceptance = {e}, !.status = "accepted"]
<1>1. /\ new.tasks = asg.tasks /\ new.status = "accepted" /\ new.briefs = asg.briefs
      /\ new.work = asg.work /\ new.acceptance = {e} /\ asg.briefs \in Nat
      /\ new.history = asg.history /\ new.commit = asg.commit
  BY DEF Assignment
<1> HIDE DEF new
<1>2. ValidAcceptance(new, e, TRUE)
  BY <1>1 DEF ValidAcceptance
<1>3. Proven(new)
  BY <1>1, <1>2 DEF SoundAssignment, Proven, ValidAcceptance
<1> QED
  BY <1>1, <1>3 DEF SoundAssignment, new

LEMMA CommittedSound ==
  ASSUME NEW asg \in Assignment, SoundAssignment(asg), asg.status = "accepted", NEW c,
         asg.intent = {c.tree}, \A e \in asg.acceptance : c.state = e.state /\ c.basis = e.basis
  PROVE  LET new == [asg EXCEPT !.commit = {c}, !.status = "committed"]
         IN SoundAssignment(new) /\ new.tasks = asg.tasks
<1> DEFINE new == [asg EXCEPT !.commit = {c}, !.status = "committed"]
<1>1. /\ new.tasks = asg.tasks /\ new.status = "committed" /\ new.briefs = asg.briefs
      /\ new.work = asg.work /\ new.acceptance = asg.acceptance
      /\ new.intent = asg.intent /\ new.history = asg.history /\ new.commit = {c}
  BY DEF Assignment
<1> HIDE DEF new
<1>2. Proven(new)
  BY <1>1 DEF SoundAssignment, Proven, ValidAcceptance
<1> QED
  BY <1>1, <1>2 DEF SoundAssignment, new

LEMMA ReopenedSound ==
  ASSUME NEW asg \in Assignment, SoundAssignment(asg), asg.status = "accepted"
  PROVE  /\ SoundAssignment(Reopened(asg))
         /\ Reopened(asg).tasks = asg.tasks /\ Reopened(asg).status = "active"
<1> DEFINE new == Reopened(asg)
<1>1. /\ new.tasks = asg.tasks /\ new.status = "active" /\ new.briefs = asg.briefs
      /\ new.work = asg.work /\ new.acceptance = {}
      /\ new.history = asg.history \cup asg.acceptance /\ new.commit = asg.commit
  BY DEF Assignment, Reopened
<1> HIDE DEF new
<1>2. \A e \in asg.acceptance : ValidAcceptance(asg, e, FALSE)
  <2>1. PICK e \in asg.acceptance : ValidAcceptance(asg, e, TRUE)
    BY DEF SoundAssignment, Proven
  <2>2. \A d \in asg.acceptance : d = e
    BY DEF Assignment, Optional
  <2> QED
    BY <2>1, <2>2 DEF ValidAcceptance
<1>3. Proven(new)
  BY <1>1, <1>2 DEF SoundAssignment, Proven, ValidAcceptance
<1> QED
  BY <1>1, <1>3 DEF SoundAssignment, new

\* An accepted assignment is reopened.
LEMMA ReopenStep ==
  ASSUME TypeInv, Record, NEW a \in DOMAIN asgs, asgs[a].status = "accepted",
         asgs' = [asgs EXCEPT ![a] = Reopened(@)],
         leafStatus' = Marked(asgs[a].tasks, "pending"),
         InvalidateFinal, UNCHANGED <<extracting, tasks, baseline, runWork>>
  PROVE  Record'
<1> DEFINE asg == Reopened(asgs[a])
<1>1. asgs[a] \in Assignment /\ SoundAssignment(asgs[a])
  BY Outline DEF Record, AssignmentInv
<1>2. SoundAssignment(asg) /\ asg.tasks = asgs[a].tasks /\ asg.status = "active"
  BY <1>1, ReopenedSound
<1>3. asgs' = [asgs EXCEPT ![a] = asg]
  OBVIOUS
<1> HIDE DEF asg
<1>4. LeafStatusIn(asg.status) = "pending" /\ NoFinal
  BY <1>2 DEF LeafStatusIn, NoFinal
<1> QED
  BY <1>2, <1>3, <1>4, StatusStep

LEMMA AcceptanceStepRecord == ASSUME TypeInv, Record, AcceptanceStep PROVE Record'
<1>0. \A a \in DOMAIN asgs : asgs[a] \in Assignment /\ SoundAssignment(asgs[a])
  BY Outline DEF Record, AssignmentInv
<1>1. ASSUME NEW a \in DOMAIN asgs, NEW c, NEW r, AcceptAssignment(a, c, r)
      PROVE  Record'
  <2> DEFINE e == [brief |-> asgs[a].briefs, state |-> curState, basis |-> basis,
                   checks |-> c, review |-> r]
             asg == [asgs[a] EXCEPT !.acceptance = {e}, !.status = "accepted"]
  <2>1. /\ asgs[a].status = "active" /\ asgs[a].briefs > 0 /\ EvidenceHolds(asgs[a].work, e)
        /\ asgs' = [asgs EXCEPT ![a] = asg]
        /\ leafStatus' = Marked(asgs[a].tasks, "accepted")
        /\ UNCHANGED <<inputs, extracting, tasks, baseline, runWork, finals>>
    BY <1>1 DEF AcceptAssignment, ActiveAssignment
  <2>2. e.brief = asgs[a].briefs /\ e.state = curState /\ e.basis = basis
    OBVIOUS
  <2>3. asg.status = "accepted" /\ asg.acceptance = {e}
    BY <1>0 DEF Assignment
  <2> HIDE DEF e
  <2>4. SoundAssignment(asg) /\ asg.tasks = asgs[a].tasks
    BY <1>0, <2>1, <2>2, AcceptedSound
  <2>5. final = {}
    BY <2>1 DEF Record, FinalInv, FinalAcceptanceCurrent, HasOpenAssignment
  <2> HIDE DEF asg
  <2>6. NoFinal /\ LeafStatusIn(asg.status) = "accepted"
    BY <2>1, <2>3, <2>5 DEF NoFinal, LeafStatusIn
  <2>7. \A d \in asg.acceptance : d.state = curState' /\ d.basis = basis'
    BY <2>1, <2>2, <2>3 DEF inputs
  <2> QED
    BY <2>1, <2>4, <2>6, <2>7, StatusStep
<1>2. ASSUME NEW a \in DOMAIN asgs, BeginBriefRefinement(a) PROVE Record'
  BY <1>2, ReopenStep DEF BeginBriefRefinement, Accepted
<1>3. ASSUME NEW a \in DOMAIN asgs, NEW t,
             SetPendingCommitIntent(a, t) \/ RefreshPendingCommitIntentTree(a, t)
      PROVE  Record'
  <2> DEFINE asg == [asgs[a] EXCEPT !.intent = {t}]
  <2>1. /\ asgs' = [asgs EXCEPT ![a] = asg] /\ asgs[a].status = "accepted"
        /\ UNCHANGED <<runWork, inputs, plan, baseline, finals>>
    BY <1>3 DEF SetPendingCommitIntent, RefreshPendingCommitIntentTree, Accepted
  <2>2. /\ asg.tasks = asgs[a].tasks /\ asg.status = asgs[a].status
        /\ asg.briefs = asgs[a].briefs /\ asg.work = asgs[a].work
        /\ asg.acceptance = asgs[a].acceptance
        /\ asg.history = asgs[a].history /\ asg.commit = asgs[a].commit
    BY <1>0 DEF Assignment
  <2> HIDE DEF asg
  <2>3. SoundAssignment(asg)
    BY <1>0, <2>1, <2>2, IntentChanged
  <2> QED
    BY <2>1, <2>2, <2>3, AssignmentScopeStep
<1>4. ASSUME NEW a \in DOMAIN asgs, NEW c, CommitAssignment(a, c) PROVE Record'
  <2> DEFINE asg == [asgs[a] EXCEPT !.commit = {c}, !.status = "committed"]
  <2>1. /\ asgs[a].status = "accepted" /\ asgs[a].intent = {c.tree}
        /\ \A e \in asgs[a].acceptance : c.state = e.state /\ c.basis = e.basis
        /\ asgs' = [asgs EXCEPT ![a] = asg]
        /\ leafStatus' = Marked(asgs[a].tasks, "complete")
        /\ InvalidateFinal /\ UNCHANGED <<inputs, extracting, tasks, baseline, runWork>>
    BY <1>4 DEF CommitAssignment, Accepted
  <2>2. asg.status = "committed"
    BY <1>0 DEF Assignment
  <2>3. SoundAssignment(asg) /\ asg.tasks = asgs[a].tasks
    BY <1>0, <2>1, CommittedSound
  <2> HIDE DEF asg
  <2>4. NoFinal /\ LeafStatusIn(asg.status) = "complete"
    BY <2>1, <2>2 DEF NoFinal, LeafStatusIn
  <2> QED
    BY <2>1, <2>2, <2>3, <2>4, StatusStep
<1>5. ASSUME NEW a \in DOMAIN asgs, NEW c, RecordReconciledCommit(a, c) PROVE Record'
  <2> DEFINE asg == [asgs[a] EXCEPT !.reconciled = @ \cup {c}]
  <2>1. /\ asgs' = [asgs EXCEPT ![a] = asg] /\ asgs[a].status = "accepted"
        /\ UNCHANGED <<runWork, inputs, plan, baseline, finals>>
    BY <1>5 DEF RecordReconciledCommit, Accepted
  <2>2. /\ asg.tasks = asgs[a].tasks /\ asg.status = asgs[a].status
        /\ asg.briefs = asgs[a].briefs /\ asg.work = asgs[a].work
        /\ asg.acceptance = asgs[a].acceptance
        /\ asg.history = asgs[a].history /\ asg.commit = asgs[a].commit
    BY <1>0 DEF Assignment
  <2> HIDE DEF asg
  <2>3. SoundAssignment(asg)
    BY <1>0, <2>1, <2>2, IntentChanged
  <2> QED
    BY <2>1, <2>2, <2>3, AssignmentScopeStep
<1>6. ASSUME NEW a \in DOMAIN asgs, NEW s, ReopenAssignment(a, s) PROVE Record'
  BY <1>6, ReopenStep DEF ReopenAssignment, Accepted
<1> QED
  BY <1>1, <1>2, <1>3, <1>4, <1>5, <1>6 DEF AcceptanceStep

(***************************************************************************)
(* New code states and inputs, and the plan.                               *)
(***************************************************************************)
\* Of the assignments only the open one can be accepted, so that at most one
\* is reopened.
LEMMA ReopenAllStep ==
  ASSUME TypeInv, Record, NEW S \in SUBSET AcceptedAssignments, ReopenAll(S),
         UNCHANGED <<extracting, tasks, baseline, runWork>>,
         \A a \in AcceptedAssignments \ S : \A e \in asgs[a].acceptance :
           e.state = curState' /\ e.basis = basis'
  PROVE  Record'
<1>0. Leaves' = Leaves /\ NoFinal
  BY DEF Leaves, ReopenAll, NoFinal
<1>1. CASE S = {}
  <2>1. asgs' = asgs
    <3>1. asgs' = [a \in DOMAIN asgs |-> asgs[a]]
      BY <1>1 DEF ReopenAll
    <3>2. asgs \in [1 .. Len(asgs) -> Assignment]
      BY Outline, SeqDef, LenProperties DEF TypeInv, TypeOK
    <3> QED
      BY <3>1, <3>2
  <2>2. leafStatus' = leafStatus
    <3>1. leafStatus' = [i \in DOMAIN leafStatus |-> leafStatus[i]]
      BY <1>1 DEF ReopenAll, Marked
    <3>2. leafStatus \in [Leaves -> TaskStatuses]
      BY DEF TypeInv, TypeOK
    <3> QED
      BY <3>1, <3>2
  <2>3. ValidStructure' /\ RunWorkInv' /\ Early' /\ AssignmentInv' /\ Layout'
    BY <1>0, <2>1, <2>2
    DEF Record, ValidStructure, FailedFinalReview, RunWorkInv, Early, AssignmentInv, Layout
  <2>4. Currency'
    BY <1>1, <2>1 DEF Currency, AcceptedAssignments
  <2>5. ValidBaseline'
    BY <2>1 DEF Record, ValidBaseline, BaselineHolds
  <2> QED
    BY <1>0, <2>3, <2>4, <2>5, FinalDropped DEF Record
<1>2. ASSUME NEW a \in S PROVE Record'
  <2>1. a \in DOMAIN asgs /\ asgs[a].status = "accepted"
    BY <1>2 DEF AcceptedAssignments
  <2>2. \A b \in DOMAIN asgs : b # a => asgs[b].status = "committed"
    <3>1. Len(asgs) \in Nat /\ a \in 1 .. Len(asgs) /\ OpenAt(asgs, Len(asgs), Leaves, leafStatus, a)
      BY <2>1, Outline DEF Record, Layout, OpenAt
    <3> QED
      BY <3>1, Outline, OpenIsLast
  <2>3. S = {a}
    BY <1>2, <2>2 DEF AcceptedAssignments
  <2>4. asgs' = [asgs EXCEPT ![a] = Reopened(@)]
    BY <2>1, <2>3 DEF ReopenAll
  <2>5. leafStatus' = Marked(asgs[a].tasks, "pending") /\ InvalidateFinal
    <3>1. UNION {asgs[b].tasks : b \in S} = asgs[a].tasks
      BY <2>3
    <3> QED
      BY <3>1 DEF ReopenAll
  <2> QED
    BY <2>1, <2>4, <2>5, ReopenStep
<1> QED
  BY <1>1, <1>2

LEMMA InputStepRecord == ASSUME TypeInv, Record, InputStep PROVE Record'
<1>0. \A a \in AcceptedAssignments : \A e \in asgs[a].acceptance :
        e.state = curState /\ e.basis = basis
  BY DEF Record, Currency, AcceptedAssignments
<1>1. ASSUME NEW s, ObserveCodeState(s) PROVE Record'
  <2> DEFINE S == {a \in AcceptedAssignments : \E e \in asgs[a].acceptance : e.state # s}
  <2>1. /\ ReopenAll(S) /\ UNCHANGED <<extracting, tasks, baseline, runWork>>
        /\ curState' = s /\ basis' = basis
    BY <1>1 DEF ObserveCodeState
  <2>2. \A a \in AcceptedAssignments \ S : \A e \in asgs[a].acceptance :
          e.state = curState' /\ e.basis = basis'
    BY <1>0, <2>1
  <2>3. S \in SUBSET AcceptedAssignments
    OBVIOUS
  <2> HIDE DEF S
  <2> QED
    BY <2>1, <2>2, <2>3, ReopenAllStep
<1>2. ASSUME NEW b, RefreshAcceptanceInputs(b) PROVE Record'
  BY <1>2, ReopenAllStep DEF RefreshAcceptanceInputs
<1> QED
  BY <1>1, <1>2 DEF InputStep

\* Before the extraction nothing is checked, and so nothing finally accepted.
LEMMA EarlyIsOpen ==
  ASSUME TypeInv, Record, extracting
  PROVE  final = {} /\ asgs = <<>> /\ baseline = {} /\ Leaves = {}
<1>1. \A e \in final : FALSE
  <2> SUFFICES ASSUME NEW e \in final PROVE FALSE
    OBVIOUS
  <2>1. EvidenceHolds(runWork, e)
    BY DEF Record, FinalInv, FinalAcceptanceCurrent
  <2> QED
    BY <2>1 DEF EvidenceHolds, Proves, Record, Early
<1>2. asgs = <<>> /\ baseline = {} /\ tasks = <<>>
  BY DEF Record, ValidBaseline, ValidStructure
<1>3. Leaves = {}
  BY <1>2 DEF Leaves, LeavesOf
<1> QED
  BY <1>1, <1>2, <1>3

LEMMA ExtractionRecord ==
  ASSUME TypeInv, Record, NEW h \in Hierarchies, CompleteInitialTaskExtraction(h)
  PROVE  Record'
<1>0. /\ extracting /\ extracting' = FALSE
      /\ tasks' = [i \in 1..Len(h) |-> [parent |-> h[i], origin |-> 0]]
      /\ leafStatus' = [i \in LeavesOf(tasks') |-> "pending"]
      /\ UNCHANGED <<inputs, baseline, asgs, runWork, finals>>
  BY DEF CompleteInitialTaskExtraction
<1>1. final = {} /\ asgs = <<>> /\ baseline = {}
  BY <1>0, EarlyIsOpen
<1>2. h \in Seq(Nat) /\ Len(h) \in Nat /\ Len(h) # 0 /\ \A i \in 1 .. Len(h) : h[i] < i
  BY HierarchyAssumption, LenProperties, EmptySeq
<1>3. ValidStructure'
  <2>1. tasks' # <<>>
    <3>1. 1 \in 1 .. Len(h)
      BY <1>2
    <3>2. DOMAIN tasks' = 1 .. Len(h)
      BY <1>0
    <3> QED
      BY <3>1, <3>2
  <2>2. \A i \in DOMAIN tasks' : tasks'[i].parent < i /\ tasks'[i].origin = 0
    BY <1>0, <1>2
  <2> QED
    BY <1>0, <2>1, <2>2 DEF ValidStructure
<1>4. Layout'
  <2>1. \A i \in Leaves' : leafStatus'[i] = "pending"
    BY <1>0 DEF Leaves
  <2> QED
    BY <1>0, <1>1, <2>1 DEF Layout, LayoutOf, Untaken
<1>5. AssignmentInv' /\ RunWorkInv' /\ Currency' /\ Early' /\ ValidBaseline'
  <2>1. asgs' = <<>> /\ baseline' = {} /\ ~extracting' /\ runWork' = runWork
    BY <1>0, <1>1
  <2>2. DOMAIN asgs' = {}
    BY <2>1
  <2>3. AssignmentInv' /\ Currency'
    BY <2>2 DEF AssignmentInv, Currency
  <2>4. RunWorkInv' /\ Early' /\ ValidBaseline'
    BY <2>1 DEF Record, RunWorkInv, Early, ValidBaseline
  <2> QED
    BY <2>3, <2>4
<1>6. FinalInv'
  BY <1>0, <1>1 DEF Record, FinalInv, FinalAcceptanceCurrent, finals
<1> QED
  BY <1>3, <1>4, <1>5, <1>6 DEF Record

\* Finding tasks are new leaves after the old ones.
LEMMA AppendLeaves ==
  ASSUME TypeInv, NEW n \in Nat, NEW o \in Nat, AppendFinalFindingTasks(n, o)
  PROVE  LET added == (Len(tasks) + 1) .. (Len(tasks) + n)
         IN /\ Leaves' = Leaves \cup added
            /\ \A i \in Leaves, j \in added : i < j
            /\ \A i \in Leaves : leafStatus'[i] = leafStatus[i]
            /\ \A i \in added : leafStatus'[i] = "pending"
<1> DEFINE m == Len(tasks)
           l == m + n
           added == (m + 1) .. l
<1>1. /\ m \in Nat /\ l \in Nat /\ m <= l /\ DOMAIN tasks = 1 .. m
      /\ \A i \in 1 .. m : tasks[i] \in [parent : Nat, origin : Nat]
      /\ \A i \in 1 .. m : tasks[i].parent < i
  <2>1. m \in Nat /\ DOMAIN tasks = 1 .. m
    BY LenProperties DEF TypeInv, TypeOK
  <2>2. \A i \in 1 .. m : tasks[i] \in [parent : Nat, origin : Nat]
    BY <2>1, ElementOfSeq DEF TypeInv, TypeOK
  <2>3. \A i \in 1 .. m : tasks[i].parent < i
    BY <2>1 DEF TypeInv, TaskTree
  <2> HIDE DEF m
  <2> QED
    BY <2>1, <2>2, <2>3
<1>2. /\ tasks' = [i \in 1..l |->
                    IF i \in added THEN [parent |-> 0, origin |-> o] ELSE tasks[i]]
      /\ leafStatus' = [i \in DOMAIN leafStatus \cup added |->
                         IF i \in added THEN "pending" ELSE leafStatus[i]]
  BY DEF AppendFinalFindingTasks
<1>3. DOMAIN leafStatus = Leaves
  BY Outline
<1> HIDE DEF m, l
<1>4. \A i \in 1 .. m : i \in 1 .. l /\ i \notin added
  BY <1>1
<1>5. /\ DOMAIN tasks' = 1 .. l
      /\ \A i \in 1 .. m : tasks'[i].parent = tasks[i].parent /\ tasks[i].parent < i
      /\ \A i \in 1 .. m : tasks[i].parent \in Nat
      /\ \A i \in (m + 1) .. l : tasks'[i].parent = 0
  BY <1>1, <1>2, <1>4
<1>6. LeavesOf(tasks') = LeavesOf(tasks) \cup ((m + 1) .. l)
  <2> HIDE DEF added
  <2>1. m \in Nat /\ l \in Nat /\ m <= l /\ DOMAIN tasks = 1 .. m
    BY <1>1
  <2>2. DOMAIN tasks' = 1 .. l
    BY <1>5
  <2>3. \A i \in 1 .. m : tasks'[i].parent = tasks[i].parent /\ tasks[i].parent < i
    BY <1>5
  <2>4. \A i \in 1 .. m : tasks[i].parent \in Nat
    BY <1>5
  <2>5. \A i \in (m + 1) .. l : tasks'[i].parent = 0
    BY <1>5
  <2>6. AddsRoots(tasks, tasks', m, l)
    BY <2>1, <2>2, <2>3, <2>4, <2>5 DEF AddsRoots
  <2> QED
    BY <2>1, <2>6, AppendedRoots
<1>7. \A i \in Leaves : i \in 1 .. m
  BY <1>1 DEF Leaves, LeavesOf
<1>8. \A i \in Leaves, j \in added : i < j
  BY <1>1, <1>7
<1>9. \A i \in Leaves : leafStatus'[i] = leafStatus[i]
  BY <1>2, <1>3, <1>4, <1>7
<1>10. \A i \in added : leafStatus'[i] = "pending"
  BY <1>2
<1> QED
  BY <1>6, <1>8, <1>9, <1>10 DEF Leaves, m, l

LEMMA AppendRecord ==
  ASSUME TypeInv, Record, NEW n \in Nat, NEW o \in Nat, AppendFinalFindingTasks(n, o)
  PROVE  Record'
<1> DEFINE m == Len(tasks)
           l == m + n
           added == (m + 1) .. l
<1>0. /\ n > 0 /\ FailedFinalReview(o) /\ HasCurrentBaseline /\ InvalidateFinal
      /\ tasks' = [i \in 1..l |->
                    IF i \in added THEN [parent |-> 0, origin |-> o] ELSE tasks[i]]
      /\ UNCHANGED <<inputs, extracting, baseline, asgs, runWork>>
  BY DEF AppendFinalFindingTasks
<1>1. /\ m \in Nat /\ l \in Nat /\ m < l /\ DOMAIN tasks = 1 .. m
  <2>1. m \in Nat /\ DOMAIN tasks = 1 .. m
    BY LenProperties DEF TypeInv, TypeOK
  <2> HIDE DEF m
  <2> QED
    BY <1>0, <2>1
<1>2. LayoutOf(asgs, Leaves', leafStatus')
  <2> HIDE DEF m
  <2>1. LayoutOf(asgs, Leaves, leafStatus)
    BY DEF Record, Layout
  <2>2. /\ Leaves' = Leaves \cup added
        /\ \A i \in Leaves, j \in added : i < j
        /\ \A i \in Leaves : leafStatus'[i] = leafStatus[i]
        /\ \A i \in added : leafStatus'[i] = "pending"
    BY AppendLeaves DEF m
  <2> HIDE DEF added
  <2>3. LayoutOf(asgs, Leaves \cup added, leafStatus')
    BY <2>1, <2>2, LayoutGrown
  <2> QED
    BY <2>2, <2>3
<1>3. ~extracting
  BY <1>0 DEF HasCurrentBaseline, Record, ValidBaseline
<1>4. ValidStructure'
  <2> HIDE DEF m, l
  <2>1. tasks' # <<>> /\ DOMAIN tasks' = 1 .. l
    <3>1. DOMAIN tasks' = 1 .. l
      BY <1>0
    <3>2. 1 \in 1 .. l
      BY <1>0, <1>1
    <3>3. DOMAIN << >> = {}
      OBVIOUS
    <3>4. tasks' # <<>>
      BY <3>1, <3>2, <3>3
    <3> QED
      BY <3>1, <3>4
  <2>2. ASSUME NEW i \in 1 .. l
        PROVE  tasks'[i].parent < i /\ (tasks'[i].origin # 0 => FailedFinalReview(tasks'[i].origin))
    <3>1. CASE i \in added
      <4>1. tasks'[i].parent = 0 /\ tasks'[i].origin = o
        BY <1>0, <3>1
      <4> QED
        BY <1>0, <4>1
    <3>2. CASE i \notin added
      <4>1. i \in 1 .. m /\ tasks'[i] = tasks[i]
        BY <1>0, <1>1, <3>2
      <4> QED
        BY <1>1, <4>1 DEF Record, ValidStructure
    <3> QED
      BY <3>1, <3>2
  <2>3. \A i \in 1 .. l : FailedFinalReview(tasks'[i].origin)
                            => FailedFinalReview(tasks[i].origin)' 
    BY <1>0 DEF FailedFinalReview
  <2> QED
    BY <1>0, <1>3, <2>1, <2>2, <2>3 DEF ValidStructure
<1>5. AssignmentInv' /\ RunWorkInv' /\ Layout' /\ Currency' /\ Early'
  BY <1>0, <1>2 DEF Record, AssignmentInv, RunWorkInv, Layout, Currency, Early, inputs
<1>6. ValidBaseline'
  BY <1>0 DEF Record, ValidBaseline, BaselineHolds
<1>7. FinalInv'
  BY <1>0, FinalDropped DEF NoFinal
<1> QED
  BY <1>4, <1>5, <1>6, <1>7 DEF Record

LEMMA NoWorkSound == SoundScope(NoWork, FALSE, 0)
<1>1. DOMAIN NoWork.ops = {} /\ \A k \in Keys : NoWork.count[k] = 0 /\ NoWork.cycle[k] = 1
  BY DEF NoWork
<1>2. \A k \in Keys \ {NoKey} : NoWork.count[k] <= Limit[k[1]]
  BY <1>1, KeyFacts
<1> QED
  BY <1>1, <1>2 DEF SoundScope, SoundWork, WithinBudget, AssignmentOps

LEMMA StartRecord ==
  ASSUME TypeInv, Record, NEW T \in SUBSET PendingLeaves, StartAssignment(T)
  PROVE  Record'
<1> DEFINE asg == [tasks |-> T, status |-> "active", briefs |-> 0,
                   work |-> NoWork, acceptance |-> {}, intent |-> {},
                   history |-> {}, commit |-> {}, reconciled |-> {}]
           n == Len(asgs)
<1>0. /\ T # {} /\ HasCurrentBaseline /\ ~HasOpenAssignment /\ InvalidateFinal
      /\ \A i \in T, j \in PendingLeaves \ T : i < j
      /\ asgs' = Append(asgs, asg)
      /\ UNCHANGED <<inputs, plan, baseline, runWork>>
  BY DEF StartAssignment
<1>1. SoundAssignment(asg) /\ asg.tasks = T /\ asg.status = "active"
  <2>1. asg.tasks = T /\ asg.work = NoWork /\ asg.briefs = 0 /\ asg.status = "active"
          /\ asg.acceptance = {} /\ asg.history = {} /\ asg.commit = {}
    OBVIOUS
  <2> HIDE DEF asg
  <2> QED
    BY <1>0, <2>1, NoWorkSound DEF SoundAssignment, Proven
<1> HIDE DEF asg
<1>2. /\ n \in Nat /\ DOMAIN asgs = 1 .. n /\ DOMAIN asgs' = 1 .. (n + 1)
      /\ asgs'[n + 1] = asg /\ \A b \in 1 .. n : asgs'[b] = asgs[b]
  <2>1. asgs \in Seq(Assignment) /\ n \in Nat /\ DOMAIN asgs = 1 .. n
    BY Outline DEF TypeInv, TypeOK
  <2>2. DOMAIN asgs' = 1 .. (n + 1) /\ asgs'[n + 1] = asg /\ \A b \in 1 .. n : asgs'[b] = asgs[b]
    BY <1>0, <1>1, <2>1, AppendProperties
  <2> QED
    BY <2>1, <2>2
<1>3. \A b \in 1 .. n : asgs[b].status = "committed"
  BY <1>0, <1>2 DEF HasOpenAssignment
<1>4. Leaves' = Leaves /\ leafStatus' = leafStatus
  BY <1>0 DEF Leaves, plan
<1> HIDE DEF n
<1>5. Layout'
  <2>1. LayoutOf(asgs, Leaves, leafStatus)
    BY DEF Record, Layout
  <2>2. T \subseteq Leaves /\ \A i \in T : leafStatus[i] = "pending"
    BY DEF PendingLeaves
  <2>3. \A i \in T, j \in Leaves \ T : leafStatus[j] = "pending" => i < j
    BY <1>0 DEF PendingLeaves
  <2>4. Starts(asgs, asgs', n, Leaves, leafStatus)
    BY <1>1, <1>2, <1>3, <2>1, <2>2, <2>3 DEF Starts
  <2>5. LayoutOf(asgs', Leaves, leafStatus)
    BY <1>2, <2>4, LayoutStarted
  <2> QED
    BY <1>4, <2>5 DEF Layout
<1>6. \A b \in DOMAIN asgs' : b \in DOMAIN asgs \/ b = n + 1
  BY <1>2
<1>7. AssignmentInv'
  BY <1>1, <1>2, <1>6 DEF Record, AssignmentInv
<1>8. Currency'
  BY <1>1, <1>2, <1>3, <1>6 DEF Currency
<1>9. ValidStructure' /\ RunWorkInv' /\ Early'
  BY <1>0 DEF Record, ValidStructure, FailedFinalReview, RunWorkInv, Early, plan
<1>10. ValidBaseline'
  <2>1. baseline # {}
    BY <1>0 DEF HasCurrentBaseline
  <2> QED
    BY <1>0, <2>1 DEF Record, ValidBaseline, BaselineHolds, plan
<1>11. FinalInv'
  BY <1>0, FinalDropped DEF NoFinal
<1> QED
  BY <1>5, <1>7, <1>8, <1>9, <1>10, <1>11 DEF Record

LEMMA BaselineRecord ==
  ASSUME TypeInv, Record, NEW o, ~extracting, SetBaseline(o)
  PROVE  Record'
<1>0. /\ \A e \in baseline' : BaselineHolds(e)
      /\ baseline' # {} /\ UNCHANGED <<inputs, plan, asgs, runWork, finals>>
  BY DEF SetBaseline
<1>1. ValidBaseline'
  BY <1>0 DEF ValidBaseline, BaselineHolds, plan
<1>2. ValidStructure' /\ AssignmentInv' /\ RunWorkInv' /\ Layout' /\ Currency' /\ Early'
  BY <1>0 DEF Record, ValidStructure, FailedFinalReview, AssignmentInv, RunWorkInv, Layout,
     Leaves, Currency, Early, plan, inputs
<1>3. FinalInv'
  BY <1>0 DEF Record, FinalInv, FinalAcceptanceCurrent, HasOpenAssignment, AllLeavesComplete,
     Leaves, plan, inputs, finals
<1> QED
  BY <1>1, <1>2, <1>3 DEF Record

LEMMA PlanStepRecord == ASSUME TypeInv, Record, PlanStep PROVE Record'
<1>1. ASSUME NEW n \in 1 .. (MaxTasks - Len(tasks)), NEW o \in DOMAIN runWork.ops,
             AppendFinalFindingTasks(n, o)
      PROVE  Record'
  <2>1. n \in Nat /\ o \in Nat
    BY WorkParts, LenProperties, BoundAssumption DEF TypeInv, TypeOK
  <2> QED
    BY <1>1, <2>1, AppendRecord
<1> QED
  BY <1>1, ExtractionRecord, StartRecord, BaselineRecord
  DEF PlanStep, RecordInitialBaselinePass, RefreshInitialBaselinePass

(***************************************************************************)
(* The lifecycle.                                                          *)
(***************************************************************************)
LEMMA FinalRecord ==
  ASSUME TypeInv, Record, NEW c, NEW r, RecordFinalAcceptance(c, r)
  PROVE  Record'
<1> DEFINE e == [brief |-> 0, state |-> curState, basis |-> basis,
                 checks |-> c, review |-> r]
<1>0. /\ ~HasOpenAssignment /\ AllLeavesComplete /\ EvidenceHolds(runWork, e)
      /\ final' = {e} /\ finalHistory' = finalHistory \cup final
      /\ UNCHANGED <<inputs, plan, baseline, asgs, runWork>>
  BY DEF RecordFinalAcceptance
<1>1. e.state = curState /\ e.basis = basis
  OBVIOUS
<1> HIDE DEF e
<1>2. FinalInv'
  <2>1. \A d \in finalHistory' : EvidenceHolds(runWork', d)
    <3>1. \A d \in final \cup finalHistory : EvidenceHolds(runWork', d)
      BY <1>0, RunEvidenceKept, GrowsSelf
    <3> QED
      BY <1>0, <3>1
  <2>2. ~HasOpenAssignment' /\ AllLeavesComplete'
    BY <1>0 DEF HasOpenAssignment, AllLeavesComplete, Leaves, plan
  <2>3. FinalAcceptanceCurrent'
    BY <1>0, <1>1, <2>2 DEF FinalAcceptanceCurrent, inputs
  <2> QED
    BY <2>1, <2>3 DEF FinalInv
<1>3. /\ ValidStructure' /\ AssignmentInv' /\ RunWorkInv' /\ Layout' /\ Currency' /\ Early'
      /\ ValidBaseline'
  BY <1>0 DEF Record, ValidStructure, FailedFinalReview, AssignmentInv, RunWorkInv, Layout,
     Leaves, Currency, Early, ValidBaseline, BaselineHolds, plan, inputs
<1> QED
  BY <1>2, <1>3 DEF Record

LEMMA ResumeRecord == ASSUME TypeInv, Record, Resume PROVE Record'
<1>0. UNCHANGED <<inputs, plan, baseline, finals>>
  BY DEF Resume
<1>1. CASE UNCHANGED <<asgs, runWork>>
  BY <1>0, <1>1, RecordUnchanged
<1>2. ASSUME NEW p \in limitPause, SetWork(p.scope, ResetWork(WorkOf(p.scope), p))
      PROVE  Record'
  <2>1. p \in LimitPause
    BY OptionalCases DEF TypeInv, TypeOK
  <2>2. CASE p.scope \notin Scopes
    <3>1. UNCHANGED <<asgs, runWork>>
      <4>1. p.scope # 0 /\ p.scope \notin DOMAIN asgs
        BY <2>2 DEF Scopes
      <4>2. asgs' = [asgs EXCEPT ![p.scope].work = ResetWork(WorkOf(p.scope), p)] /\ UNCHANGED runWork
        BY <1>2, <4>1 DEF SetWork
      <4>3. asgs \in [1 .. Len(asgs) -> Assignment]
        BY Outline, SeqDef, LenProperties DEF TypeInv, TypeOK
      <4> QED
        BY <4>1, <4>2, <4>3
    <3> QED
      BY <1>0, <3>1, RecordUnchanged
  <2>3. CASE p.scope \in Scopes
    <3> DEFINE w == WorkOf(p.scope)
               v == ResetWork(w, p)
    <3>1. w \in Work /\ ScopeOf(p.scope, w)
      BY <2>3, ScopeSound
    <3>2. ScopeOf(p.scope, v) /\ Follows(w, v)
      <4> HIDE DEF w
      <4> QED
        BY <2>1, <3>1, ResetScope DEF ScopeOf
    <3> QED
      BY <1>0, <1>2, <2>3, <3>2, FollowingStep
  <2> QED
    BY <2>2, <2>3
<1> QED
  BY <1>1, <1>2 DEF Resume

LEMMA LifecycleStepRecord == ASSUME TypeInv, Record, LifecycleStep PROVE Record'
<1>1. ASSUME Pause \/ PauseExecutionBlocked \/ UpdatePausedExecutionBlock \/ Close \/ Succeed
      PROVE  Record'
  BY <1>1, RecordUnchanged
  DEF Pause, PauseExecutionBlocked, UpdatePausedExecutionBlock, Close, Succeed
<1> QED
  BY <1>1, FinalRecord, ResumeRecord DEF LifecycleStep

LEMMA LifecycleKept ==
  ASSUME UNCHANGED lifecycle, status \in {"active", "paused"}, Ending
  PROVE  Ending'
  BY DEF lifecycle, Ending, ValidLifecycle, SuccessInv

LEMMA EndingInv == ASSUME TypeInv, Ending, [Next]_vars PROVE Ending'
<1>1. CASE UNCHANGED vars
  BY <1>1 DEF vars, Ending, ValidLifecycle, SuccessInv, AllLeavesComplete, Leaves
<1>2. ASSUME Next, UNCHANGED lifecycle PROVE Ending'
  BY <1>2, LifecycleKept, StepFromOpenRun
<1>3. CASE PlanStep
  <2>1. UNCHANGED lifecycle
    BY <1>3 DEF PlanStep, CompleteInitialTaskExtraction, AppendFinalFindingTasks,
       StartAssignment, RecordInitialBaselinePass, RefreshInitialBaselinePass, SetBaseline
  <2> QED
    BY <1>2, <1>3, <2>1 DEF Next
<1>4. CASE OperationStep
  <2>1. UNCHANGED lifecycle
    BY <1>4 DEF OperationStep, AddBriefVersion, AddOperation, AddRunOperation,
       SupersedeRunOperation, EndExplorerEpisode
  <2> QED
    BY <1>2, <1>4, <2>1 DEF Next
<1>5. CASE AttemptStep
  <2>1. ASSUME NEW a, NEW o, PauseForLimit(a, o) PROVE Ending'
    BY <2>1 DEF PauseForLimit, Ending, ValidLifecycle, SuccessInv
  <2>2. UNCHANGED lifecycle \/ \E a, o : PauseForLimit(a, o)
    BY ZenonT(60), <1>5 DEF AttemptStep, StartAttemptWithLimits, StartRunAttempt, RecordAttemptOutcome
  <2> QED
    BY <1>2, <1>5, <2>1, <2>2 DEF Next
<1>6. CASE ResultStep
  <2>1. UNCHANGED lifecycle
    BY <1>6 DEF ResultStep, AddResult, AddRunResult
  <2> QED
    BY <1>2, <1>6, <2>1 DEF Next
<1>7. CASE AcceptanceStep
  <2>1. UNCHANGED lifecycle
    BY <1>7, AcceptanceFrame
  <2> QED
    BY <1>2, <1>7, <2>1 DEF Next
<1>8. CASE InputStep
  <2>1. UNCHANGED lifecycle
    BY <1>8 DEF InputStep, ObserveCodeState, RefreshAcceptanceInputs
  <2> QED
    BY <1>2, <1>8, <2>1 DEF Next
<1>9. CASE LifecycleStep
  <2>1. ASSUME \/ Pause \/ PauseExecutionBlocked \/ UpdatePausedExecutionBlock
               \/ Resume \/ Close
        PROVE  Ending'
    BY <2>1 DEF Pause, PauseExecutionBlocked, UpdatePausedExecutionBlock, Resume, Close,
       Ending, ValidLifecycle, SuccessInv
  <2>2. ASSUME Succeed PROVE Ending'
    <3>1. AllLeavesComplete' /\ final' # {} /\ status' = "succeeded"
            /\ UNCHANGED <<limitPause, blocked>> /\ status = "active"
      BY <2>2 DEF Succeed, AllLeavesComplete, Leaves, plan, finals, Active
    <3> QED
      BY <3>1 DEF Ending, ValidLifecycle, SuccessInv
  <2>3. ASSUME NEW c, NEW r, RecordFinalAcceptance(c, r) PROVE Ending'
    <3>1. UNCHANGED lifecycle /\ status = "active"
      BY <2>3 DEF RecordFinalAcceptance, Active
    <3> QED
      BY <3>1, LifecycleKept
  <2> QED
    BY <1>9, <2>1, <2>2, <2>3 DEF LifecycleStep
<1> QED
  BY <1>1, <1>3, <1>4, <1>5, <1>6, <1>7, <1>8, <1>9 DEF Next

(***************************************************************************)
(* The record of a run stays valid.                                        *)
(***************************************************************************)
LEMMA InitialRecord == Init => RecordInv
<1> SUFFICES ASSUME Init PROVE RecordInv
  OBVIOUS
<1>1. /\ asgs = <<>> /\ runWork = NoWork /\ tasks = <<>> /\ baseline = {} /\ final = {}
      /\ finalHistory = {} /\ extracting = TRUE /\ status = "active"
      /\ blocked = FALSE /\ limitPause = {}
  BY DEF Init
<1>2. DOMAIN asgs = {} /\ DOMAIN runWork.ops = {} /\ DOMAIN tasks = {}
  BY <1>1 DEF NoWork
<1>3. RunWorkInv
  <2>1. \A k \in Keys : NoWork.count[k] = 0 /\ NoWork.cycle[k] = 1
    BY DEF NoWork
  <2>2. \A k \in Keys \ {NoKey} : NoWork.count[k] <= Limit[k[1]]
    BY <2>1, KeyFacts
  <2> QED
    BY <1>1, <1>2, <2>1, <2>2 DEF RunWorkInv, SoundScope, SoundWork, WithinBudget, RunOps
<1>4. Layout
  <2>1. Leaves = {}
    BY <1>2 DEF Leaves, LeavesOf
  <2> QED
    BY <1>2, <2>1 DEF Layout, LayoutOf, Untaken
<1>5. ValidStructure /\ AssignmentInv /\ Currency /\ Early /\ ValidBaseline /\ FinalInv
  BY <1>1, <1>2 DEF ValidStructure, AssignmentInv, Currency, Early, ValidBaseline, FinalInv,
     FinalAcceptanceCurrent
<1>6. Ending
  BY <1>1 DEF Ending, ValidLifecycle, SuccessInv
<1> QED
  BY <1>3, <1>4, <1>5, <1>6 DEF Record, RecordInv

LEMMA StepKeepsRecord == TypeInv /\ RecordInv /\ [Next]_vars => RecordInv'
<1> SUFFICES ASSUME TypeInv, RecordInv, [Next]_vars PROVE RecordInv'
  OBVIOUS
<1>1. Record /\ Ending
  BY DEF RecordInv
<1>2. Record'
  <2>1. CASE UNCHANGED vars
    <3>1. UNCHANGED <<inputs, plan, baseline, asgs, runWork, finals>>
      BY <2>1 DEF vars, inputs, plan, finals
    <3> QED
      BY <1>1, <3>1, RecordUnchanged
  <2> QED
    BY <1>1, <2>1, PlanStepRecord, OperationStepRecord, AttemptStepRecord, ResultStepRecord,
       AcceptanceStepRecord, InputStepRecord, LifecycleStepRecord DEF Next
<1>3. Ending'
  BY <1>1, EndingInv
<1> QED
  BY <1>2, <1>3 DEF RecordInv

\* The inductive invariant of the record.
LEMMA RecordInvariant == Spec => [](TypeInv /\ RecordInv)
<1>1. Init => TypeInv /\ RecordInv
  BY InitialTypes, InitialRecord
<1>2. TypeInv /\ RecordInv /\ [Next]_vars => TypeInv' /\ RecordInv'
  BY StepKeepsTypes, StepKeepsRecord
<1> QED
  BY <1>1, <1>2, PTL DEF Spec

LEMMA RecordIsValid == TypeInv /\ RecordInv => ValidRecord
<1> SUFFICES ASSUME TypeInv, RecordInv PROVE ValidRecord
  OBVIOUS
<1>0. Record /\ Ending
  BY DEF RecordInv
<1>1. \A op : SoundOperation(op) => ValidOperation(op) /\ ValidAnswers(op)
  BY DEF SoundOperation, ValidOperation
<1>2. ValidAssignments
  <2>0. Untaken(asgs, Leaves, leafStatus) /\ \A a \in DOMAIN asgs : Placed(asgs, Leaves, leafStatus, a)
    BY <1>0 DEF Record, Layout, LayoutOf
  <2>1. ASSUME NEW a \in DOMAIN asgs PROVE ValidAssignment(asgs[a])
    <3>1. /\ asgs[a].tasks # {} /\ asgs[a].tasks \subseteq Leaves /\ Proven(asgs[a])
          /\ SoundWork(asgs[a].work) /\ AssignmentOps(asgs[a].work, asgs[a].briefs)
      BY <1>0, <2>0 DEF Record, AssignmentInv, SoundAssignment, SoundScope, Placed
    <3>2. \A o \in DOMAIN asgs[a].work.ops :
            LET op == asgs[a].work.ops[o]
            IN /\ ValidOperation(op) /\ ValidAnswers(op)
               /\ op.supersedes = 0 /\ ~op.uncounted /\ op.brief \in 1..asgs[a].briefs
      BY <1>1, <3>1 DEF SoundWork, AssignmentOps
    <3> QED
      BY <3>1, <3>2 DEF ValidAssignment, Proven
  <2>2. ASSUME NEW a \in DOMAIN asgs
        PROVE  /\ asgs[a].status = "accepted" =>
                    \A e \in asgs[a].acceptance : e.state = curState /\ e.basis = basis
               /\ \A b \in 1..(a - 1) : asgs[b].status = "committed"
               /\ \A i \in asgs[a].tasks : leafStatus[i] = LeafStatusIn(asgs[a].status)
               /\ \A i \in asgs[a].tasks, j \in Leaves \ UNION {asgs[b].tasks : b \in 1..a} : i < j
               /\ \A b \in 1..(a - 1) : asgs[a].tasks \cap asgs[b].tasks = {}
    <3>1. Placed(asgs, Leaves, leafStatus, a)
      BY <2>0
    <3>2. \A i \in asgs[a].tasks, j \in Leaves \ UNION {asgs[b].tasks : b \in 1..a} : i < j
      BY <3>1 DEF Placed
    <3>3. /\ \A b \in 1..(a - 1) : asgs[b].status = "committed"
          /\ \A i \in asgs[a].tasks : leafStatus[i] = LeafStatusIn(asgs[a].status)
          /\ \A b \in 1..(a - 1) : asgs[a].tasks \cap asgs[b].tasks = {}
      BY <3>1 DEF Placed
    <3>4. asgs[a].status = "accepted" =>
            \A e \in asgs[a].acceptance : e.state = curState /\ e.basis = basis
      BY <1>0 DEF Record, Currency
    <3> QED
      BY <3>2, <3>3, <3>4
  <2>3. \A i \in Leaves \ UNION {asgs[a].tasks : a \in DOMAIN asgs} : leafStatus[i] = "pending"
    BY <2>0 DEF Untaken
  <2> QED
    BY <2>1, <2>2, <2>3, Outline DEF ValidAssignments
<1>3. ValidRunOperations
  <2>1. SoundWork(runWork) /\ RunOps(runWork)
    BY <1>0 DEF Record, RunWorkInv, SoundScope
  <2> QED
    BY <1>1, <2>1 DEF ValidRunOperations, SoundWork, RunOps
<1>4. ValidFinal
  BY <1>0 DEF Record, Ending, FinalInv, SuccessInv, ValidFinal
<1> QED
  BY <1>0, <1>2, <1>3, <1>4 DEF ValidRecord, Record, Ending

\* Run.Validate but for the counters: the record of every state that the
\* methods of Run produce, called in any order, can be saved and loaded again.
THEOREM RecordsStayValid == Spec => []RecordStaysValid
<1>1. TypeInv /\ RecordInv => RecordStaysValid
  BY RecordIsValid DEF RecordStaysValid
<1> QED
  BY <1>1, RecordInvariant, PTL

\* Whatever pauses, resumes and retries there are, no counter passes its limit
\* and no technical window holds more attempts than configured.
THEOREM BudgetsHold == Spec => []BudgetsRespected
<1>1. TypeInv /\ RecordInv => BudgetsRespected
  <2> SUFFICES ASSUME TypeInv, RecordInv, NEW a \in Scopes
               PROVE  /\ \A k \in Keys \ {NoKey} : WorkOf(a).count[k] <= Limit[k[1]]
                      /\ \A o \in DOMAIN WorkOf(a).ops :
                           LET op == WorkOf(a).ops[o]
                           IN ~Unlimited(a, o) => TechnicalCount(op) <= TechnicalAttempts
    BY DEF BudgetsRespected
  <2>1. WithinBudget(WorkOf(a), a = 0)
    BY ScopeSound DEF RecordInv, ScopeOf, SoundScope
  <2> QED
    BY <2>1 DEF WithinBudget, Unlimited, WorkOf
<1> QED
  BY <1>1, RecordInvariant, PTL

(***************************************************************************)
(* A leaf becomes complete by the commit of its assignment, for good.      *)
(***************************************************************************)
CompletedByCommit ==
  \A i \in Leaves :
    /\ leafStatus[i] = "complete" => leafStatus'[i] = "complete"
    /\ leafStatus[i] # "complete" /\ leafStatus'[i] = "complete" =>
         \E a \in DOMAIN asgs :
           /\ i \in asgs[a].tasks
           /\ asgs[a].status = "accepted" /\ asgs'[a].status = "committed"
           /\ asgs[a].acceptance = asgs'[a].acceptance

\* The leaves of assignments that are not committed get another status.
LEMMA MarkedIncomplete ==
  ASSUME TypeInv, Record, NEW T, NEW s, s # "complete", leafStatus' = Marked(T, s),
         \A i \in T : \E a \in DOMAIN asgs : i \in asgs[a].tasks /\ asgs[a].status # "committed"
  PROVE  CompletedByCommit
<1> SUFFICES ASSUME NEW i \in Leaves
             PROVE  leafStatus'[i] = leafStatus[i] \/ (leafStatus[i] # "complete" /\ leafStatus'[i] = s)
  BY DEF CompletedByCommit
<1>1. leafStatus'[i] = IF i \in T THEN s ELSE leafStatus[i]
  BY Outline DEF Marked
<1>2. ASSUME i \in T PROVE leafStatus[i] # "complete"
  <2>1. PICK a \in DOMAIN asgs : i \in asgs[a].tasks /\ asgs[a].status # "committed"
    BY <1>2
  <2>2. leafStatus[i] = LeafStatusIn(asgs[a].status) /\ asgs[a].status \in {"active", "accepted", "committed"}
    BY <2>1, Outline DEF Record, Layout, LayoutOf, Placed, Assignment
  <2> QED
    BY <2>1, <2>2 DEF LeafStatusIn
<1> QED
  BY <1>1, <1>2

LEMMA CommitCompletes ==
  ASSUME TypeInv, Record, NEW a \in DOMAIN asgs, NEW c, CommitAssignment(a, c)
  PROVE  CompletedByCommit
<1>1. /\ asgs[a].status = "accepted"
      /\ asgs' = [asgs EXCEPT ![a].commit = {c}, ![a].status = "committed"]
      /\ leafStatus' = Marked(asgs[a].tasks, "complete")
  BY DEF CommitAssignment, Accepted
<1>2. asgs'[a].status = "committed" /\ asgs'[a].acceptance = asgs[a].acceptance
  BY <1>1, Outline DEF Assignment
<1>3. \A i \in Leaves : leafStatus'[i] = IF i \in asgs[a].tasks THEN "complete" ELSE leafStatus[i]
  BY <1>1, Outline DEF Marked
<1> QED
  BY <1>1, <1>2, <1>3 DEF CompletedByCommit

LEMMA StepCompletes ==
  ASSUME TypeInv, Record, Next
  PROVE  CompletedByCommit
<1>0. ASSUME UNCHANGED leafStatus PROVE CompletedByCommit
  BY <1>0 DEF CompletedByCommit
<1>1. CASE PlanStep
  <2>1. ASSUME NEW n \in 1 .. (MaxTasks - Len(tasks)), NEW o \in DOMAIN runWork.ops,
               AppendFinalFindingTasks(n, o)
        PROVE  CompletedByCommit
    <3>1. n \in Nat /\ o \in Nat
      BY WorkParts, LenProperties, BoundAssumption DEF TypeInv, TypeOK
    <3>2. \A i \in Leaves : leafStatus'[i] = leafStatus[i]
      BY <2>1, <3>1, AppendLeaves
    <3> QED
      BY <3>2 DEF CompletedByCommit
  <2>2. ASSUME NEW h, CompleteInitialTaskExtraction(h) PROVE CompletedByCommit
    <3>1. Leaves = {}
      BY <2>2, EarlyIsOpen DEF CompleteInitialTaskExtraction
    <3> QED
      BY <3>1 DEF CompletedByCommit
  <2> QED
    BY <1>0, <1>1, <2>1, <2>2
    DEF PlanStep, StartAssignment, RecordInitialBaselinePass, RefreshInitialBaselinePass,
        SetBaseline, plan
<1>2. CASE OperationStep
  BY <1>0, <1>2 DEF OperationStep, AddBriefVersion, AddOperation, AddRunOperation,
     SupersedeRunOperation, EndExplorerEpisode, plan
<1>3. CASE AttemptStep
  BY ZenonT(60), <1>0, <1>3 DEF AttemptStep, StartAttemptWithLimits, PauseForLimit, StartRunAttempt,
     RecordAttemptOutcome, plan
<1>4. CASE ResultStep
  BY <1>0, <1>4 DEF ResultStep, AddResult, AddRunResult, plan
<1>5. CASE AcceptanceStep
  <2>1. ASSUME NEW a \in DOMAIN asgs, NEW s, s # "complete", asgs[a].status # "committed",
               leafStatus' = Marked(asgs[a].tasks, s)
        PROVE  CompletedByCommit
    BY <2>1, MarkedIncomplete
  <2>2. ASSUME NEW a \in DOMAIN asgs, NEW c, NEW r, AcceptAssignment(a, c, r)
        PROVE  CompletedByCommit
    BY <2>1, <2>2 DEF AcceptAssignment, ActiveAssignment
  <2>3. ASSUME NEW a \in DOMAIN asgs, BeginBriefRefinement(a) PROVE CompletedByCommit
    BY <2>1, <2>3 DEF BeginBriefRefinement, Accepted
  <2>4. ASSUME NEW a \in DOMAIN asgs, NEW t,
               SetPendingCommitIntent(a, t) \/ RefreshPendingCommitIntentTree(a, t)
        PROVE  CompletedByCommit
    BY <1>0, <2>4 DEF SetPendingCommitIntent, RefreshPendingCommitIntentTree, plan
  <2>5. ASSUME NEW a \in DOMAIN asgs, NEW c, RecordReconciledCommit(a, c)
        PROVE  CompletedByCommit
    BY <1>0, <2>5 DEF RecordReconciledCommit, plan
  <2>6. ASSUME NEW a \in DOMAIN asgs, NEW s, ReopenAssignment(a, s) PROVE CompletedByCommit
    BY <2>1, <2>6 DEF ReopenAssignment, Accepted
  <2> QED
    BY <1>5, <2>2, <2>3, <2>4, <2>5, <2>6, CommitCompletes DEF AcceptanceStep
<1>6. CASE InputStep
  <2>1. PICK S \in SUBSET AcceptedAssignments : ReopenAll(S)
    BY <1>6 DEF InputStep, ObserveCodeState, RefreshAcceptanceInputs
  <2>2. leafStatus' = Marked(UNION {asgs[a].tasks : a \in S}, "pending")
    BY <2>1 DEF ReopenAll
  <2>3. \A i \in UNION {asgs[a].tasks : a \in S} :
          \E a \in DOMAIN asgs : i \in asgs[a].tasks /\ asgs[a].status # "committed"
    BY DEF AcceptedAssignments
  <2> QED
    BY <2>2, <2>3, MarkedIncomplete
<1>7. CASE LifecycleStep
  BY <1>0, <1>7 DEF LifecycleStep, RecordFinalAcceptance, Pause, PauseExecutionBlocked,
     UpdatePausedExecutionBlock, Resume, Close, Succeed, plan
<1> QED
  BY <1>1, <1>2, <1>3, <1>4, <1>5, <1>6, <1>7 DEF Next

\* A complete leaf stays complete, and becomes complete only in the step that
\* commits its assignment on the evidence accepted before.
THEOREM LeavesCompleteByCommits == Spec => LeavesCompleteByCommit
<1>1. TypeInv /\ RecordInv /\ [Next]_vars => [CompletedByCommit]_vars
  BY StepCompletes DEF RecordInv
<1> QED
  BY <1>1, RecordInvariant, PTL DEF Spec, LeavesCompleteByCommit, CompletedByCommit

=============================================================================
