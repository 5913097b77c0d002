--------------------------- MODULE RunRouteProofs ---------------------------
(***************************************************************************)
(* The safety of RunRoute for every number of tasks, rounds, cycles,       *)
(* contents, changes, versions of the inputs and resumes: what a run       *)
(* succeeds on was checked and passed by a reviewer as it stands in the    *)
(* working copy, no finding of the final review is lost on the way, and    *)
(* no assignment starts without a baseline.  The invariant is about the    *)
(* order in which the checks and the reviews were recorded.                *)
(***************************************************************************)
EXTENDS RunRoute, TLAPS, FiniteSetTheorems, WellFoundedInduction, SequenceTheorems

Statuses == {"active", "paused", "closed", "succeeded"}
Attempts == {"none", "open", "succeeded", "failed"}
Places == {"dispatch", "call", "turn", "settle", "answer", "unrouted", "question", "complete",
           "reserve", "set", "outcome", "result", "failed", "gate", "paused", "ended"}
Turning  == {"call", "turn", "settle", "answer"}
Checking == {"reserve", "set", "outcome", "result"}

Results == [status : {"none", "succeeded", "failed", "forgotten"}, answer : Answerable,
            state : StateType]
Operations == [kind : AgentKinds \cup CheckKinds, basis : Nat, attempt : Attempts,
               result : Results]
Tasks == [done : BOOLEAN, answers : Nat]
Runs == [status : Statuses, limit : BOOLEAN, basis : Nat, current : StateType,
         extraction : BOOLEAN, baseline : [state : StateType, basis : Nat],
         tasks : Seq(Tasks), selected : 0 .. MaxTasks, commits : Nat, rounds : 0 .. ReviewLimit,
         ops : Seq(Operations)]
Receipts == [kind : Answerable, basis : Nat, content : Contents, first : Nat, count : 0 .. MaxTasks]
Steps == [op : Nat, kind : {"none"} \cup AgentKinds \cup CheckKinds, before : Contents,
          cycle : Nat, status : {"none", "succeeded", "failed"}, state : StateType]

Types ==
  /\ run \in Runs /\ Len(run.tasks) <= MaxTasks
  /\ receipts \in Seq(Receipts) /\ Len(receipts) = Len(run.ops)
  /\ ws \in Contents /\ changes \in Nat /\ inputs \in Nat /\ resumes \in Nat
  /\ pc \in Places /\ step \in Steps

\* What an agent may answer to an operation.
AnswersTo(kind) ==
  CASE kind = "extract" -> {"none", "extracted", "blocked"}
    [] kind = "select" -> {"none", "brief", "blocked"}
    [] kind = "review" -> {"none", "passed", "changes", "clarification", "exploration", "blocked"}
    [] kind = "append" -> {"none", "added", "clarification", "blocked"}
    [] OTHER -> {"none"}

\* Where the run stands, and what its inputs and its baseline are worth.
Standing ==
  /\ pc = "paused" <=> run.status = "paused"
  /\ pc = "ended" <=> run.status \in {"closed", "succeeded"}
  /\ run.basis <= inputs /\ (run.status = "active" => run.basis = inputs)
  /\ run.current.by # "none"
  /\ run.baseline.basis <= run.basis
  /\ run.baseline # NoBaseline /\ run.baseline.basis = inputs => proved # {}

Ids(r) == 1 .. Len(r.ops)
IsAnswered(r, i) == r.ops[i].result # NoResult
PassedCheck(r, i) == r.ops[i].kind = "final" /\ r.ops[i].result.status = "succeeded"
IsReview(r, j) == r.ops[j].kind = "review"
Last(r, i) == \A k \in Ids(r) : r.ops[k].kind = r.ops[i].kind => k <= i

\* The final check that stands (FinalCheck) and the review that follows it.
Accepted(r, c) == c \in Ids(r) /\ PassedCheck(r, c) /\ Last(r, c) /\ r.ops[c].basis = r.basis
Reviewing(r, j) ==
  j \in Ids(r) /\ IsReview(r, j) /\ Last(r, j) /\ \E c \in Ids(r) : Accepted(r, c) /\ c < j

\* Operations are recorded in the order of the inputs they were made for, and
\* answered later, each by an answer of its own kind.
Bases(r, q) ==
  \A i \in Ids(r) :
    /\ r.ops[i].basis <= r.basis
    /\ \A j \in Ids(r) : i < j => r.ops[i].basis <= r.ops[j].basis
    /\ q[i] # NoAnswer => /\ r.ops[i].basis <= q[i].basis /\ q[i].basis <= r.basis
                          /\ q[i].kind \in AnswersTo(r.ops[i].kind) \ {"none"}

\* A final check that has passed and is not forgotten has published the current
\* state, and what it saw was proved under its inputs.
Passed(r, v, seen) ==
  \A i \in Ids(r) : PassedCheck(r, i) =>
    /\ r.ops[i].result.state = r.current /\ r.current.by = "final" /\ r.current.n = i
    /\ r.ops[i].basis = v => [content |-> r.current.content, stable |-> TRUE] \in seen

\* A result is of the current state, of one that /resume observed, or forgotten;
\* one of a review is of the final check before it.
ResultStates(r) ==
  \A i \in Ids(r) :
    /\ r.ops[i].result.state \in {r.current, NoState} \/ r.ops[i].result.state.by = "resume"
    /\ r.ops[i].result.answer = "changes" => IsReview(r, i)
    /\ IsReview(r, i) =>
         /\ \/ r.ops[i].result.state = NoState
            \/ r.ops[i].result.state.by = "final" /\ r.ops[i].result.state.n < i
         /\ IsAnswered(r, i) => r.ops[i].result.answer \in
                                  AnswersTo("review") \ {"none", "blocked"}
    /\ r.ops[i].result.status = "none" => ~IsAnswered(r, i)

\* No review follows a final check that may still be continued.
UnfinishedChecks(r) ==
  \A i, j \in Ids(r) :
    r.ops[i].kind = "final" /\ ~IsAnswered(r, i) /\ Last(r, i) /\ i < j => ~IsReview(r, j)

\* The reviews after a passed final check saw its content, and only an
\* exploration lets a further one follow.
Reviews(r, q) ==
  \A i, j \in Ids(r) : PassedCheck(r, i) /\ IsReview(r, j) /\ i < j =>
    /\ q[j] # NoAnswer => q[j].content = r.current.content
    /\ IsAnswered(r, j) => /\ r.ops[j].result.state = r.current
                           /\ r.ops[j].result.answer = "passed" => q[j].kind = "passed"
    /\ \A k \in Ids(r) : IsReview(r, k) /\ i < k /\ k < j
                            => r.ops[k].result.answer = "exploration"

OpsInv(r, q, v, seen) ==
  /\ Bases(r, q) /\ Passed(r, v, seen) /\ ResultStates(r) /\ UnfinishedChecks(r)
  /\ Reviews(r, q)

\* The step in progress, its operation and its receipt belong together.
StepInv ==
  /\ pc \in Turning \cup Checking =>
       step.op \in Ids(run) /\ step.kind = run.ops[step.op].kind /\ ~IsAnswered(run, step.op)
  /\ pc \in Turning => step.kind \in AgentKinds
  /\ pc \in Turning /\ step.kind = "review" => Reviewing(run, step.op) /\ Pending = {}
  /\ pc = "turn" /\ step.kind = "review" => ws = run.current.content
  /\ pc \in {"settle", "answer"} => /\ receipts[step.op] # NoAnswer
                                    /\ receipts[step.op].basis = run.basis
  /\ pc \in Checking => step.kind \in CheckKinds /\ Last(run, step.op)
  /\ pc \in {"outcome", "result"} =>
       /\ step.status \in {"succeeded", "failed"}
       /\ step.state.by # "none"
       /\ step.status = "succeeded" =>
            /\ step.state.by = step.kind /\ step.state.n = step.op
            /\ [content |-> step.state.content, stable |-> TRUE] \in proved
       /\ \/ step.state = run.current
          \/ step.state.by = step.kind /\ step.state.n = step.op
  /\ pc = "complete" =>
       /\ Pending = {}
       /\ \E j \in Ids(run) : Reviewing(run, j) /\ run.ops[j].result.answer = "passed"

Succeeded == SuccessIsProven /\ NoRejectedSuccess

OpsHold == OpsInv(run, receipts, inputs, proved)
RouteInv == Types /\ Standing /\ OpsHold /\ StepInv /\ Succeeded

(***************************************************************************)
(* Least and greatest numbers of a set.                                    *)
(***************************************************************************)
LEMMA Least ==
  ASSUME NEW S \in SUBSET Nat, S # {}
  PROVE  \E m \in S : \A k \in S : m <= k
<1> DEFINE R == {p \in Nat \X Nat : p[1] < p[2]}
<1>1. IsWellFoundedOn(R, Nat)
  BY NatLessThanWellFounded DEF OpToRel
<1>2. PICK m \in S : \A y \in S : ~(<<y, m>> \in R)
  <2> HIDE DEF R
  <2> QED
    BY <1>1, WFMin
<1>3. \A y \in S : ~(y < m)
  BY <1>2
<1> QED
  BY <1>3

LEMMA MinOf ==
  ASSUME NEW S \in SUBSET Nat, S # {}
  PROVE  Min(S) \in S /\ \A k \in S : Min(S) <= k
BY Least DEF Min

LEMMA MaxOf ==
  ASSUME NEW S \in SUBSET Nat, S # {}, NEW n \in Nat, \A k \in S : k <= n
  PROVE  Max(S) \in S /\ \A k \in S : k <= Max(S)
<1> DEFINE D == {n - k : k \in S}
<1>1. D \in SUBSET Nat /\ D # {}
  <2>1. \A k \in S : n - k \in Nat
    OBVIOUS
  <2>2. D \in SUBSET Nat
    BY <2>1
  <2>3. \E k \in S : n - k \in D
    OBVIOUS
  <2> QED
    BY <2>2, <2>3
<1>2. PICK d \in D : \A k \in D : d <= k
  <2> HIDE DEF D
  <2> QED
    BY <1>1, Least
<1>3. PICK m \in S : d = n - m
  BY <1>2
<1>4. \A k \in S : k <= m
  <2> SUFFICES ASSUME NEW k \in S PROVE k <= m
    OBVIOUS
  <2>1. d <= n - k
    BY <1>2
  <2>2. k \in Nat /\ m \in Nat /\ k <= n /\ m <= n
    BY <1>3
  <2> HIDE DEF D
  <2> QED
    BY <1>3, <2>1, <2>2
<1>5. \E x \in S : \A y \in S : x >= y
  BY <1>3, <1>4
<1>6. Max(S) \in S /\ \A y \in S : Max(S) >= y
  BY <1>5 DEF Max
<1> QED
  BY <1>6

LEMMA FirstNumbers ==
  ASSUME NEW m \in Nat
  PROVE  IsFiniteSet(1 .. m) /\ Cardinality(1 .. m) = m
<1>1. /\ IsFiniteSet(1 .. m)
      /\ Cardinality(1 .. m) = IF 1 > m THEN 0 ELSE m - 1 + 1
  <2>1. 1 \in Int /\ m \in Int
    OBVIOUS
  <2> QED
    BY <2>1, FS_Interval, Zenon
<1> QED
  BY <1>1

(***************************************************************************)
(* The records a step may write.                                           *)
(***************************************************************************)
\* Same operations: they differ in their attempts only.
SameOps(r, s) ==
  /\ r.current = s.current /\ r.basis = s.basis /\ Len(r.ops) = Len(s.ops)
  /\ \A i \in 1 .. Len(s.ops) :
       /\ r.ops[i].kind = s.ops[i].kind /\ r.ops[i].basis = s.ops[i].basis
       /\ r.ops[i].result = s.ops[i].result

\* Same plan: the tasks, the selection and the baseline.
SamePlan(r, s) ==
  /\ r.tasks = s.tasks /\ r.selected = s.selected /\ r.commits = s.commits
  /\ r.baseline = s.baseline /\ r.extraction = s.extraction

LEMMA StateTypes ==
  /\ NoState \in StateType /\ Start \in StateType /\ NoState.by = "none"
  /\ 0 \in Contents
  /\ NoResult \in Results /\ NoResult.status = "none" /\ NoResult.state = NoState
       /\ NoResult.answer = "none"
<1>1. 0 \in Contents
  BY RouteAssumption DEF Contents
<1>2. /\ NoState \in StateType /\ Start \in StateType /\ NoState.by = "none"
  BY <1>1 DEF NoState, Start, State, StateType
<1> QED
  BY <1>1, <1>2 DEF NoResult, Results, Answerable

LEMMA NewState ==
  ASSUME NEW c \in Contents, NEW by \in {"work", "resume", "gate"} \cup CheckKinds, NEW n \in Nat
  PROVE  State(c, by, n) \in StateType /\ State(c, by, n).by = by /\ State(c, by, n).by # "none"
           /\ State(c, by, n).content = c /\ State(c, by, n).n = n
  BY DEF State, StateType, CheckKinds

LEMMA OpsOf ==
  ASSUME NEW r \in Runs
  PROVE  /\ r.ops \in Seq(Operations) /\ Len(r.ops) \in Nat /\ DOMAIN r.ops = 1 .. Len(r.ops)
         /\ \A i \in 1 .. Len(r.ops) : /\ r.ops[i] \in Operations /\ r.ops[i].result \in Results
                                       /\ r.ops[i].basis \in Nat
         /\ r.current \in StateType /\ r.basis \in Nat
<1>1. r.ops \in Seq(Operations)
  BY DEF Runs
<1>2. /\ Len(r.ops) \in Nat /\ DOMAIN r.ops = 1 .. Len(r.ops)
      /\ \A i \in 1 .. Len(r.ops) : r.ops[i] \in Operations
  BY <1>1, LenProperties, ElementOfSeq
<1> QED
  BY <1>1, <1>2 DEF Operations, Runs

LEMMA AttemptDoes ==
  ASSUME NEW r \in Runs, NEW i \in 1 .. Len(r.ops), NEW o \in Attempts
  PROVE  /\ Attempt(r, i, o) \in Runs
         /\ SameOps(Attempt(r, i, o), r) /\ SamePlan(Attempt(r, i, o), r)
         /\ Attempt(r, i, o).status = r.status /\ Attempt(r, i, o).rounds = r.rounds
<1> DEFINE p == [r.ops[i] EXCEPT !.attempt = o]
           q == [r.ops EXCEPT ![i] = p]
           c == [r EXCEPT !.ops = q]
<1>1. r.ops \in Seq(Operations) /\ r.ops[i] \in Operations /\ Len(r.ops) \in Nat
  BY OpsOf
<1>2. p \in Operations /\ p.kind = r.ops[i].kind /\ p.basis = r.ops[i].basis
        /\ p.result = r.ops[i].result
  BY <1>1 DEF Operations
<1> HIDE DEF p
<1>3. q \in Seq(Operations) /\ Len(q) = Len(r.ops)
      /\ \A j \in 1 .. Len(r.ops) : q[j] = IF j = i THEN p ELSE r.ops[j]
  BY <1>1, <1>2, ExceptSeq
<1> HIDE DEF q
<1>4. /\ c \in Runs /\ c.status = r.status /\ c.rounds = r.rounds /\ c.ops = q
      /\ c.current = r.current /\ c.basis = r.basis /\ SamePlan(c, r)
  BY <1>3 DEF Runs, SamePlan
<1>5. SameOps(c, r)
  BY <1>2, <1>3, <1>4 DEF SameOps
<1>6. Attempt(r, i, o) = c
  BY DEF Attempt, p, q
<1> QED
  BY <1>4, <1>5, <1>6

\* A pause, an end or a limit changes nothing of the operations.
LEMMA StatusDoes ==
  ASSUME NEW r \in Runs, NEW s \in Statuses, NEW n \in 0 .. ReviewLimit
  PROVE  /\ [r EXCEPT !.status = s] \in Runs /\ [r EXCEPT !.status = s].status = s
         /\ SameOps([r EXCEPT !.status = s], r) /\ SamePlan([r EXCEPT !.status = s], r)
         /\ [r EXCEPT !.limit = TRUE] \in Runs /\ [r EXCEPT !.limit = TRUE].status = r.status
         /\ SameOps([r EXCEPT !.limit = TRUE], r) /\ SamePlan([r EXCEPT !.limit = TRUE], r)
         /\ [r EXCEPT !.rounds = n] \in Runs /\ [r EXCEPT !.rounds = n].status = r.status
         /\ SameOps([r EXCEPT !.rounds = n], r) /\ SamePlan([r EXCEPT !.rounds = n], r)
  BY DEF Runs, SameOps, SamePlan

\* The state is observed: results of another state are forgotten.
KeepsResult(o, s) == o.result.state \in {s, NoState} \/ o.result.state.by = "resume"
Observed(o, s) ==
  IF KeepsResult(o, s) THEN o
  ELSE [o EXCEPT !.attempt = "none",
                 !.result = [@ EXCEPT !.status = "forgotten", !.state = NoState]]

LEMMA ObservedDoes ==
  ASSUME NEW o \in Operations, NEW s \in StateType
  PROVE  LET c == Observed(o, s) IN
         /\ c \in Operations /\ c.kind = o.kind /\ c.basis = o.basis
         /\ c.result.answer = o.result.answer
         /\ KeepsResult(o, s) => c.result = o.result
         /\ ~KeepsResult(o, s) => c.result.status = "forgotten" /\ c.result.state = NoState
<1>1. o.result \in Results
  BY DEF Operations
<1> DEFINE x == [o.result EXCEPT !.status = "forgotten", !.state = NoState]
           y == [o EXCEPT !.attempt = "none", !.result = x]
<1>2. x \in Results /\ x.status = "forgotten" /\ x.state = NoState /\ x.answer = o.result.answer
  BY <1>1, StateTypes DEF Results
<1> HIDE DEF x
<1>3. y \in Operations /\ y.kind = o.kind /\ y.basis = o.basis /\ y.result = x
  BY <1>2 DEF Operations, Attempts
<1>4. ~KeepsResult(o, s) => Observed(o, s) = y
  BY DEF Observed, x
<1> HIDE DEF y
<1>5. KeepsResult(o, s) => Observed(o, s) = o
  BY DEF Observed
<1> QED
  BY <1>2, <1>3, <1>4, <1>5

\* What an observation leaves of the operations of a record.
Forgets(c, r, s) ==
  /\ Len(c.ops) = Len(r.ops)
  /\ \A i \in 1 .. Len(r.ops) :
       /\ c.ops[i].kind = r.ops[i].kind /\ c.ops[i].basis = r.ops[i].basis
       /\ c.ops[i].result.answer = r.ops[i].result.answer
       /\ KeepsResult(r.ops[i], s) => c.ops[i].result = r.ops[i].result
       /\ ~KeepsResult(r.ops[i], s) => /\ c.ops[i].result.status = "forgotten"
                                       /\ c.ops[i].result.state = NoState

LEMMA ObserveDoes ==
  ASSUME NEW r \in Runs, NEW s \in StateType
  PROVE  /\ Observe(r, s) \in Runs /\ Observe(r, s).current = s
         /\ Observe(r, s).status = r.status /\ Observe(r, s).rounds = r.rounds
         /\ Observe(r, s).limit = r.limit
         /\ Observe(r, s).basis = r.basis /\ SamePlan(Observe(r, s), r)
         /\ Forgets(Observe(r, s), r, s)
<1> DEFINE q == [i \in 1 .. Len(r.ops) |-> Observed(r.ops[i], s)]
           c == [r EXCEPT !.current = s, !.ops = q]
<1>1. /\ r.ops \in Seq(Operations) /\ Len(r.ops) \in Nat /\ DOMAIN r.ops = 1 .. Len(r.ops)
      /\ \A i \in 1 .. Len(r.ops) : r.ops[i] \in Operations
  BY OpsOf
<1>2. q \in Seq(Operations) /\ Len(q) = Len(r.ops)
  <2>1. q \in [1 .. Len(r.ops) -> Operations]
    BY <1>1, ObservedDoes
  <2>2. q \in Seq(Operations)
    BY <1>1, <2>1, SeqDef
  <2> QED
    BY <1>1, <2>1, <2>2, LenProperties
<1>3. \A i \in 1 .. Len(r.ops) : q[i] = Observed(r.ops[i], s)
  OBVIOUS
<1> HIDE DEF q
<1>4. /\ c \in Runs /\ c.current = s /\ c.status = r.status /\ c.limit = r.limit
      /\ c.rounds = r.rounds /\ c.basis = r.basis /\ c.ops = q /\ SamePlan(c, r)
  BY <1>2 DEF Runs, SamePlan
<1>5. Observe(r, s) = c
  BY <1>1 DEF Observe, q, Observed, KeepsResult
<1> HIDE DEF c
<1>6. Forgets(c, r, s)
  BY <1>1, <1>2, <1>3, <1>4, ObservedDoes DEF Forgets
<1> QED
  BY <1>4, <1>5, <1>6

LEMMA ResultDoes ==
  ASSUME NEW r \in Runs, NEW i \in 1 .. Len(r.ops), NEW status \in {"succeeded", "failed"},
         NEW answer \in Answerable, NEW s \in StateType
  PROVE  LET c == Result(r, i, status, answer, s) IN
         /\ c \in Runs /\ c.current = r.current /\ c.basis = r.basis
         /\ c.status = r.status /\ c.rounds = r.rounds /\ SamePlan(c, r)
         /\ Len(c.ops) = Len(r.ops)
         /\ c.ops[i].kind = r.ops[i].kind /\ c.ops[i].basis = r.ops[i].basis
         /\ c.ops[i].result.status = status /\ c.ops[i].result.state = s
         /\ c.ops[i].result.answer = answer
         /\ \A k \in 1 .. Len(r.ops) : k # i => c.ops[k] = r.ops[k]
<1> DEFINE o == [status |-> status, answer |-> answer, state |-> s]
           p == [r.ops[i] EXCEPT !.result = o]
           q == [r.ops EXCEPT ![i] = p]
           d == [r EXCEPT !.ops = q]
<1>1. r.ops \in Seq(Operations) /\ r.ops[i] \in Operations /\ Len(r.ops) \in Nat
  BY OpsOf
<1>2. o \in Results /\ o.status = status /\ o.state = s /\ o.answer = answer
  BY DEF Results
<1> HIDE DEF o
<1>3. p \in Operations /\ p.kind = r.ops[i].kind /\ p.basis = r.ops[i].basis /\ p.result = o
  BY <1>1, <1>2 DEF Operations
<1> HIDE DEF p
<1>4. q \in Seq(Operations) /\ Len(q) = Len(r.ops)
      /\ \A j \in 1 .. Len(r.ops) : q[j] = IF j = i THEN p ELSE r.ops[j]
  BY <1>1, <1>3, ExceptSeq
<1> HIDE DEF q
<1>5. /\ d \in Runs /\ d.status = r.status /\ d.rounds = r.rounds /\ d.ops = q
      /\ d.current = r.current /\ d.basis = r.basis /\ SamePlan(d, r)
  BY <1>4 DEF Runs, SamePlan
<1>6. Result(r, i, status, answer, s) = d
  BY DEF Result, d, q, p, o
<1> HIDE DEF d
<1> QED
  BY <1>2, <1>3, <1>4, <1>5, <1>6

(***************************************************************************)
(* What each kind of record does to the invariant of the operations.       *)
(***************************************************************************)
\* No operation, result or receipt: the inputs may move on.
LEMMA OpsSteady ==
  ASSUME NEW r \in Runs, NEW s \in Runs, NEW q, NEW v \in Nat, NEW w \in Nat, NEW seen, NEW more,
         OpsInv(r, q, v, seen), SameOps(s, r),
         \/ w = v /\ seen \subseteq more
         \/ r.basis < w
  PROVE  OpsInv(s, q, w, more)
<1>1. /\ Ids(s) = Ids(r) /\ s.basis = r.basis /\ s.current = r.current
      /\ \A i \in Ids(r) : /\ s.ops[i].kind = r.ops[i].kind /\ s.ops[i].basis = r.ops[i].basis
                           /\ s.ops[i].result = r.ops[i].result
  BY DEF SameOps, Ids
<1>2. Bases(s, q)
  BY <1>1 DEF OpsInv, Bases
<1>3. Passed(s, w, more)
  <2>1. \A i \in Ids(r) : r.ops[i].basis \in Nat /\ r.ops[i].basis <= r.basis /\ r.basis \in Nat
    BY OpsOf DEF OpsInv, Bases, Ids
  <2>2. \A i \in Ids(r) : r.ops[i].basis = w => w = v /\ seen \subseteq more
    BY <2>1
  <2>3. \A i \in Ids(s) : PassedCheck(s, i) => i \in Ids(r) /\ PassedCheck(r, i)
    BY <1>1 DEF PassedCheck
  <2>4. \A i \in Ids(r) : PassedCheck(r, i) /\ r.ops[i].basis = w =>
          [content |-> r.current.content, stable |-> TRUE] \in more
    BY <2>2 DEF OpsInv, Passed
  <2> QED
    BY <1>1, <2>3, <2>4 DEF OpsInv, Passed
<1>4. ResultStates(s)
  BY <1>1 DEF OpsInv, ResultStates, IsAnswered, IsReview
<1>5. UnfinishedChecks(s)
  BY <1>1 DEF OpsInv, UnfinishedChecks, IsAnswered, IsReview, Last
<1>6. Reviews(s, q)
  BY <1>1 DEF OpsInv, Reviews, IsAnswered, IsReview, PassedCheck
<1> QED
  BY <1>2, <1>3, <1>4, <1>5, <1>6 DEF OpsInv

\* An operation is appended; a review only after an accepted check, and after
\* another review only if that was an exploration.
Opens(s, p, r, q, kind) ==
  /\ Len(s.ops) = Len(r.ops) + 1 /\ s.basis = r.basis /\ s.current = r.current
  /\ s.ops[Len(r.ops) + 1] = Operation(kind, r.basis) /\ p[Len(r.ops) + 1] = NoAnswer
  /\ \A i \in Ids(r) : s.ops[i] = r.ops[i] /\ p[i] = q[i]

ReviewMayOpen(r) ==
  \E c \in Ids(r) : /\ Accepted(r, c)
                    /\ \A j \in Ids(r) : IsReview(r, j) /\ c < j
                                         => r.ops[j].result.answer = "exploration"

LEMMA OpsOpen ==
  ASSUME NEW r \in Runs, NEW s \in Runs, NEW q, NEW p, NEW v \in Nat, NEW seen,
         OpsInv(r, q, v, seen), NEW kind \in AgentKinds \cup CheckKinds,
         Opens(s, p, r, q, kind), kind = "review" => ReviewMayOpen(r)
  PROVE  /\ OpsInv(s, p, v, seen)
         /\ Last(s, Len(r.ops) + 1) /\ ~IsAnswered(s, Len(r.ops) + 1)
         /\ s.ops[Len(r.ops) + 1].kind = kind
         /\ kind = "review" => Reviewing(s, Len(r.ops) + 1)
<1> DEFINE n == Len(r.ops) + 1
<1> USE DEF Opens, ReviewMayOpen
<1>1. /\ Len(r.ops) \in Nat /\ r.basis \in Nat /\ \A i \in Ids(r) : r.ops[i].basis \in Nat
  BY OpsOf DEF Ids
<1>2. /\ n \in Ids(s) /\ n \in Nat /\ Ids(s) \subseteq Nat
      /\ \A i \in Ids(s) : i <= n /\ (i \in Ids(r) \/ i = n)
      /\ \A i \in Ids(r) : i \in Ids(s) /\ i < n
  BY <1>1 DEF Ids
<1>3. /\ s.ops[n].kind = kind /\ s.ops[n].basis = r.basis /\ s.ops[n].result = NoResult
      /\ p[n] = NoAnswer
  BY DEF Operation
<1>4. NoResult.status = "none" /\ NoResult.state = NoState /\ NoResult.answer = "none"
  BY StateTypes
<1> HIDE DEF n
<1>5. Bases(s, p)
  <2>1. \A i \in Ids(s) : s.ops[i].basis \in Nat /\ s.ops[i].basis <= s.basis
    BY SMTT(30), <1>1, <1>2, <1>3 DEF OpsInv, Bases
  <2>2. \A i, j \in Ids(s) : i < j => s.ops[i].basis <= s.ops[j].basis
    <3> SUFFICES ASSUME NEW i \in Ids(s), NEW j \in Ids(s), i < j
                 PROVE  s.ops[i].basis <= s.ops[j].basis
      OBVIOUS
    <3>1. i \in Ids(r)
      BY <1>2
    <3>2. CASE j = n
      BY <1>3, <2>1, <3>2
    <3>3. CASE j # n
      BY <1>2, <3>1, <3>3 DEF OpsInv, Bases
    <3> QED
      BY <3>2, <3>3
  <2>3. \A i \in Ids(s) : p[i] # NoAnswer =>
          /\ s.ops[i].basis <= p[i].basis /\ p[i].basis <= s.basis
          /\ p[i].kind \in AnswersTo(s.ops[i].kind) \ {"none"}
    <3> SUFFICES ASSUME NEW i \in Ids(s), p[i] # NoAnswer
                 PROVE  /\ s.ops[i].basis <= p[i].basis /\ p[i].basis <= s.basis
                        /\ p[i].kind \in AnswersTo(s.ops[i].kind) \ {"none"}
      OBVIOUS
    <3>1. i \in Ids(r)
      BY <1>2, <1>3
    <3> QED
      BY <3>1 DEF OpsInv, Bases
  <2> QED
    BY <2>1, <2>2, <2>3 DEF Bases
<1>6. Passed(s, v, seen)
  <2>1. \A i \in Ids(s) : PassedCheck(s, i) => i \in Ids(r) /\ PassedCheck(r, i)
    BY <1>2, <1>3, <1>4 DEF PassedCheck
  <2>2. \A i \in Ids(r) : PassedCheck(r, i) =>
          /\ r.ops[i].result.state = r.current /\ r.current.by = "final" /\ r.current.n = i
          /\ r.ops[i].basis = v => [content |-> r.current.content, stable |-> TRUE] \in seen
    BY DEF OpsInv, Passed
  <2>3. SUFFICES ASSUME NEW i \in Ids(s), PassedCheck(s, i)
                 PROVE  /\ s.ops[i].result.state = s.current /\ s.current.by = "final"
                        /\ s.current.n = i
                        /\ s.ops[i].basis = v =>
                              [content |-> s.current.content, stable |-> TRUE] \in seen
    BY DEF Passed
  <2>4. s.ops[i] = r.ops[i] /\ i \in Ids(r) /\ PassedCheck(r, i)
    BY <2>1, <2>3
  <2> QED
    BY <2>2, <2>4
<1>7. ResultStates(s)
  <2> SUFFICES ASSUME NEW i \in Ids(s)
               PROVE  /\ \/ s.ops[i].result.state \in {s.current, NoState}
                         \/ s.ops[i].result.state.by = "resume"
                      /\ s.ops[i].result.answer = "changes" => IsReview(s, i)
                      /\ IsReview(s, i) =>
                           /\ \/ s.ops[i].result.state = NoState
                              \/ /\ s.ops[i].result.state.by = "final"
                                 /\ s.ops[i].result.state.n < i
                           /\ IsAnswered(s, i) => s.ops[i].result.answer \in
                                                    AnswersTo("review") \ {"none", "blocked"}
                      /\ s.ops[i].result.status = "none" => ~IsAnswered(s, i)
    BY DEF ResultStates
  <2>1. CASE i = n
    BY <1>3, <1>4, <2>1 DEF IsAnswered, IsReview
  <2>2. CASE i # n
    <3>1. i \in Ids(r) /\ s.ops[i] = r.ops[i]
      BY <1>2, <2>2
    <3> QED
      BY SMTT(30), <3>1 DEF OpsInv, ResultStates, IsAnswered, IsReview
  <2> QED
    BY <2>1, <2>2
<1>8. UnfinishedChecks(s)
  <2> SUFFICES ASSUME NEW i \in Ids(s), NEW j \in Ids(s), s.ops[i].kind = "final",
                      ~IsAnswered(s, i), Last(s, i), i < j, IsReview(s, j)
               PROVE  FALSE
    BY DEF UnfinishedChecks
  <2>0. i \in Ids(r)
    BY <1>2
  <2>1. i \in Ids(r) /\ ~IsAnswered(r, i) /\ r.ops[i].kind = "final" /\ Last(r, i)
    <3>1. \A k \in Ids(r) : k \in Ids(s) /\ s.ops[k] = r.ops[k]
      BY <1>2
    <3> QED
      BY <2>0, <3>1 DEF IsAnswered, Last
  <2>2. CASE j = n
    <3>1. PICK c \in Ids(r) : Accepted(r, c)
      BY <1>3, <2>2 DEF IsReview
    <3>2. i = c
      BY <1>2, <2>1, <3>1 DEF Accepted, Last, PassedCheck
    <3> QED
      BY <1>4, <2>1, <3>1, <3>2 DEF Accepted, PassedCheck, IsAnswered
  <2>3. CASE j # n
    BY <1>2, <2>1, <2>3 DEF OpsInv, UnfinishedChecks, IsReview
  <2> QED
    BY <2>2, <2>3
<1>9. Reviews(s, p)
  <2> SUFFICES ASSUME NEW i \in Ids(s), NEW j \in Ids(s), PassedCheck(s, i), IsReview(s, j), i < j
               PROVE  /\ p[j] # NoAnswer => p[j].content = s.current.content
                      /\ IsAnswered(s, j) =>
                           /\ s.ops[j].result.state = s.current
                           /\ s.ops[j].result.answer = "passed" => p[j].kind = "passed"
                      /\ \A k \in Ids(s) : IsReview(s, k) /\ i < k /\ k < j
                                           => s.ops[k].result.answer = "exploration"
    BY DEF Reviews
  <2>1. i \in Ids(r) /\ PassedCheck(r, i)
    BY <1>2, <1>3, <1>4 DEF PassedCheck
  <2>2. CASE j = n
    <3>1. PICK c \in Ids(r) : /\ Accepted(r, c)
                              /\ \A k \in Ids(r) : IsReview(r, k) /\ c < k
                                                   => r.ops[k].result.answer = "exploration"
      BY <1>3, <2>2 DEF IsReview
    <3>2. i = c
      BY <2>1, <3>1 DEF Accepted, OpsInv, Passed
    <3>3. \A k \in Ids(s) : k < j => k \in Ids(r) /\ s.ops[k] = r.ops[k]
      BY <1>2, <2>2
    <3>4. \A k \in Ids(s) : IsReview(s, k) /\ i < k /\ k < j
                            => s.ops[k].result.answer = "exploration"
      BY <3>1, <3>2, <3>3 DEF IsReview
    <3> QED
      BY <1>3, <2>2, <3>4 DEF IsAnswered
  <2>3. CASE j # n
    <3>1. j \in Ids(r) /\ IsReview(r, j)
      BY <1>2, <2>3 DEF IsReview
    <3>2. \A k \in Ids(s) : k < j => k \in Ids(r)
      BY <1>2, <3>1
    <3>3. /\ q[j] # NoAnswer => q[j].content = r.current.content
          /\ IsAnswered(r, j) => /\ r.ops[j].result.state = r.current
                                 /\ r.ops[j].result.answer = "passed" => q[j].kind = "passed"
          /\ \A k \in Ids(r) : IsReview(r, k) /\ i < k /\ k < j
                                 => r.ops[k].result.answer = "exploration"
      BY <2>1, <3>1 DEF OpsInv, Reviews
    <3>4. /\ p[j] = q[j] /\ s.ops[j] = r.ops[j]
          /\ \A k \in Ids(s) : k < j => s.ops[k] = r.ops[k]
      BY <3>1, <3>2
    <3> QED
      BY <3>2, <3>3, <3>4 DEF IsAnswered, IsReview
  <2> QED
    BY <2>2, <2>3
<1>10. Last(s, n) /\ ~IsAnswered(s, n)
  BY <1>2, <1>3 DEF Last, IsAnswered
<1>11. kind = "review" => Reviewing(s, n)
  <2> SUFFICES ASSUME kind = "review" PROVE Reviewing(s, n)
    OBVIOUS
  <2>1. PICK c \in Ids(r) : Accepted(r, c)
    OBVIOUS
  <2>2. Accepted(s, c) /\ c < n
    BY <1>2, <1>3, <2>1 DEF Accepted, PassedCheck, Last
  <2> QED
    BY <1>2, <1>3, <1>10, <2>2 DEF Reviewing, IsReview
<1> QED
  BY <1>3, <1>5, <1>6, <1>7, <1>8, <1>9, <1>10, <1>11 DEF OpsInv, n

\* A state is observed that no check has published, or the current one again.
LEMMA OpsObserve ==
  ASSUME NEW r \in Runs, NEW s \in Runs, NEW q, NEW v \in Nat, NEW seen, NEW more,
         NEW x \in StateType, \A i \in Ids(r) : q[i].basis \in Nat,
         OpsInv(r, q, v, seen), Forgets(s, r, x), s.current = x, r.basis <= s.basis,
         r.current.by # "none", x = r.current \/ x.by # "final", seen \subseteq more
  PROVE  OpsInv(s, q, v, more)
<1>1. Ids(s) = Ids(r)
  BY DEF Forgets, Ids
<1>2. \A i \in Ids(r) :
        /\ s.ops[i].kind = r.ops[i].kind /\ s.ops[i].basis = r.ops[i].basis
        /\ s.ops[i].result.answer = r.ops[i].result.answer
        /\ KeepsResult(r.ops[i], x) => s.ops[i].result = r.ops[i].result
        /\ ~KeepsResult(r.ops[i], x) => /\ s.ops[i].result.status = "forgotten"
                                        /\ s.ops[i].result.state = NoState
  BY DEF Forgets, Ids
<1>3. \A i \in Ids(r) : IsAnswered(s, i) <=> IsAnswered(r, i)
  BY <1>2, StateTypes DEF KeepsResult, IsAnswered
<1>4. \A i \in Ids(r) : PassedCheck(s, i) =>
        PassedCheck(r, i) /\ s.ops[i].result = r.ops[i].result /\ x = r.current
  <2> SUFFICES ASSUME NEW i \in Ids(r), PassedCheck(s, i)
               PROVE  PassedCheck(r, i) /\ s.ops[i].result = r.ops[i].result /\ x = r.current
    OBVIOUS
  <2>1. KeepsResult(r.ops[i], x)
    BY <1>2 DEF PassedCheck
  <2>2. PassedCheck(r, i) /\ s.ops[i].result = r.ops[i].result
    BY <1>2, <2>1 DEF PassedCheck
  <2>3. r.ops[i].result.state = r.current /\ r.current.by = "final"
    BY <2>2 DEF OpsInv, Passed
  <2> QED
    BY <2>1, <2>2, <2>3, StateTypes DEF KeepsResult
<1>5. Bases(s, q)
  <2>1. \A i \in Ids(r) : r.ops[i].basis \in Nat
    BY OpsOf DEF Ids
  <2>2. r.basis \in Nat /\ s.basis \in Nat
    BY OpsOf
  <2>3. \A i \in Ids(r) : r.ops[i].basis <= s.basis
    BY <2>1, <2>2 DEF OpsInv, Bases
  <2>4. \A i \in Ids(r) : q[i] # NoAnswer => q[i].basis <= s.basis
    <3> SUFFICES ASSUME NEW i \in Ids(r), q[i] # NoAnswer PROVE q[i].basis <= s.basis
      OBVIOUS
    <3>1. r.ops[i].basis <= q[i].basis /\ q[i].basis <= r.basis
      BY DEF OpsInv, Bases
    <3> QED
      BY <2>1, <2>2, <3>1
  <2> QED
    BY <1>1, <1>2, <2>3, <2>4 DEF OpsInv, Bases
<1>6. Passed(s, v, more)
  <2>1. \A i \in Ids(r) : PassedCheck(r, i) =>
          /\ r.ops[i].result.state = r.current /\ r.current.by = "final" /\ r.current.n = i
          /\ r.ops[i].basis = v => [content |-> r.current.content, stable |-> TRUE] \in more
    BY DEF OpsInv, Passed
  <2>2. SUFFICES ASSUME NEW i \in Ids(s), PassedCheck(s, i)
                 PROVE  /\ s.ops[i].result.state = s.current /\ s.current.by = "final"
                        /\ s.current.n = i
                        /\ s.ops[i].basis = v =>
                              [content |-> s.current.content, stable |-> TRUE] \in more
    BY DEF Passed
  <2>3. /\ i \in Ids(r) /\ PassedCheck(r, i) /\ s.ops[i].result = r.ops[i].result
        /\ s.ops[i].basis = r.ops[i].basis /\ s.current = r.current
    BY <1>1, <1>2, <1>4, <2>2
  <2> QED
    BY <2>1, <2>3
<1>7. ResultStates(s)
  BY SMTT(30), <1>1, <1>2, <1>3 DEF OpsInv, ResultStates, IsReview, KeepsResult
<1>8. UnfinishedChecks(s)
  BY <1>1, <1>2, <1>3 DEF OpsInv, UnfinishedChecks, IsReview, Last
<1>9. Reviews(s, q)
  BY <1>1, <1>2, <1>3, <1>4 DEF OpsInv, Reviews, IsReview, KeepsResult
<1> QED
  BY <1>5, <1>6, <1>7, <1>8, <1>9 DEF OpsInv

\* A check set ends: its result and the state it leaves are one record.
LEMMA OpsChecked ==
  ASSUME NEW r \in Runs, NEW m \in Runs, NEW s \in Runs, NEW q, NEW v \in Nat, NEW seen,
         NEW x \in StateType, NEW k \in Ids(r), NEW status \in {"succeeded", "failed"},
         OpsInv(r, q, v, seen),
         r.ops[k].kind \in CheckKinds, ~IsAnswered(r, k), Last(r, k),
         Len(m.ops) = Len(r.ops), m.ops[k].kind = r.ops[k].kind, m.ops[k].basis = r.ops[k].basis,
         m.ops[k].result.status = status, m.ops[k].result.state = x,
         m.ops[k].result.answer = "none",
         \A i \in Ids(r) : i # k => m.ops[i] = r.ops[i],
         Forgets(s, m, x), s.current = x, s.basis = r.basis,
         r.current.by # "none", x.by # "none",
         x = r.current \/ (x.by = r.ops[k].kind /\ x.n = k),
         status = "succeeded" => /\ x.by = r.ops[k].kind /\ x.n = k
                                 /\ [content |-> x.content, stable |-> TRUE] \in seen
  PROVE  OpsInv(s, q, v, seen)
<1>1. Ids(s) = Ids(r) /\ Ids(m) = Ids(r) /\ k \in Nat
  BY OpsOf DEF Forgets, Ids
<1>2. \A i \in Ids(r) : s.ops[i].kind = r.ops[i].kind /\ s.ops[i].basis = r.ops[i].basis
  BY <1>1 DEF Forgets, Ids
<1>3. /\ s.ops[k].result = m.ops[k].result
      /\ s.ops[k].result.status = status /\ s.ops[k].result.state = x
      /\ s.ops[k].result.answer = "none" /\ IsAnswered(s, k)
  <2>1. KeepsResult(m.ops[k], x)
    BY DEF KeepsResult
  <2>2. s.ops[k].result = m.ops[k].result
    BY <1>1, <2>1 DEF Forgets, Ids
  <2> QED
    BY <2>2, StateTypes DEF IsAnswered
<1>4. \A i \in Ids(r) : i # k =>
        /\ s.ops[i].result.answer = r.ops[i].result.answer
        /\ KeepsResult(r.ops[i], x) => s.ops[i].result = r.ops[i].result
        /\ ~KeepsResult(r.ops[i], x) => /\ s.ops[i].result.status = "forgotten"
                                        /\ s.ops[i].result.state = NoState
  BY <1>1 DEF Forgets, Ids
<1>5. \A i \in Ids(r) : i # k => (IsAnswered(s, i) <=> IsAnswered(r, i))
  BY <1>4, StateTypes DEF KeepsResult, IsAnswered
<1>6. \A i \in Ids(r) : i # k /\ PassedCheck(s, i) =>
        /\ PassedCheck(r, i) /\ s.ops[i].result = r.ops[i].result
        /\ x = r.current /\ x.by = "final" /\ x.n = i
  <2> SUFFICES ASSUME NEW i \in Ids(r), i # k, PassedCheck(s, i)
               PROVE  /\ PassedCheck(r, i) /\ s.ops[i].result = r.ops[i].result
                      /\ x = r.current /\ x.by = "final" /\ x.n = i
    OBVIOUS
  <2>1. KeepsResult(r.ops[i], x)
    BY <1>4 DEF PassedCheck
  <2>2. PassedCheck(r, i) /\ s.ops[i].result = r.ops[i].result
    BY <1>2, <1>4, <2>1 DEF PassedCheck
  <2>3. r.ops[i].result.state = r.current /\ r.current.by = "final" /\ r.current.n = i
    BY <2>2 DEF OpsInv, Passed
  <2> QED
    BY <2>1, <2>2, <2>3, StateTypes DEF KeepsResult
<1>7. \A j \in Ids(r) : IsReview(r, j) => j # k /\ IsReview(s, j)
  BY <1>2 DEF IsReview, CheckKinds
<1>8. Bases(s, q)
  BY <1>1, <1>2 DEF OpsInv, Bases
<1>9. Passed(s, v, seen)
  <2> SUFFICES ASSUME NEW i \in Ids(s), PassedCheck(s, i)
               PROVE  /\ s.ops[i].result.state = s.current /\ s.current.by = "final"
                      /\ s.current.n = i
                      /\ s.ops[i].basis = v =>
                            [content |-> s.current.content, stable |-> TRUE] \in seen
    BY DEF Passed
  <2>1. CASE i = k
    <3>1. status = "succeeded" /\ r.ops[k].kind = "final"
      BY <1>2, <1>3, <2>1 DEF PassedCheck
    <3> QED
      BY <1>3, <2>1, <3>1
  <2>2. CASE i # k
    <3>1. /\ PassedCheck(r, i) /\ s.ops[i].result = r.ops[i].result
          /\ x = r.current /\ x.by = "final" /\ x.n = i
      BY <1>1, <1>6, <2>2
    <3>2. /\ r.ops[i].result.state = r.current
          /\ r.ops[i].basis = v => [content |-> r.current.content, stable |-> TRUE] \in seen
      BY <1>1, <3>1 DEF OpsInv, Passed
    <3>3. s.ops[i].basis = r.ops[i].basis
      BY <1>1, <1>2
    <3> QED
      BY <3>1, <3>2, <3>3
  <2> QED
    BY <2>1, <2>2
<1>10. ResultStates(s)
  <2> SUFFICES ASSUME NEW i \in Ids(s)
               PROVE  /\ \/ s.ops[i].result.state \in {s.current, NoState}
                         \/ s.ops[i].result.state.by = "resume"
                      /\ s.ops[i].result.answer = "changes" => IsReview(s, i)
                      /\ IsReview(s, i) =>
                           /\ \/ s.ops[i].result.state = NoState
                              \/ /\ s.ops[i].result.state.by = "final"
                                 /\ s.ops[i].result.state.n < i
                           /\ IsAnswered(s, i) => s.ops[i].result.answer \in
                                                    AnswersTo("review") \ {"none", "blocked"}
                      /\ s.ops[i].result.status = "none" => ~IsAnswered(s, i)
    BY DEF ResultStates
  <2>1. CASE i = k
    <3>1. ~IsReview(s, i)
      BY <1>2, <2>1 DEF IsReview, CheckKinds
    <3> QED
      BY <1>3, <2>1, <3>1
  <2>2. CASE i # k
    <3>1. /\ \/ r.ops[i].result.state \in {r.current, NoState}
             \/ r.ops[i].result.state.by = "resume"
          /\ r.ops[i].result.answer = "changes" => IsReview(r, i)
          /\ IsReview(r, i) =>
               /\ \/ r.ops[i].result.state = NoState
                  \/ /\ r.ops[i].result.state.by = "final"
                     /\ r.ops[i].result.state.n < i
               /\ IsAnswered(r, i) => r.ops[i].result.answer \in
                                        AnswersTo("review") \ {"none", "blocked"}
          /\ r.ops[i].result.status = "none" => ~IsAnswered(r, i)
      BY <1>1 DEF OpsInv, ResultStates
    <3>2. /\ s.ops[i].kind = r.ops[i].kind /\ s.ops[i].result.answer = r.ops[i].result.answer
          /\ IsAnswered(s, i) <=> IsAnswered(r, i)
      BY <1>1, <1>2, <1>4, <1>5, <2>2
    <3>3. CASE KeepsResult(r.ops[i], x)
      <4>1. s.ops[i].result = r.ops[i].result
        BY <1>1, <1>4, <2>2, <3>3
      <4> QED
        BY <3>1, <3>2, <3>3, <4>1 DEF KeepsResult, IsReview
    <3>4. CASE ~KeepsResult(r.ops[i], x)
      <4>1. s.ops[i].result.status = "forgotten" /\ s.ops[i].result.state = NoState
        BY <1>1, <1>4, <2>2, <3>4
      <4> QED
        BY <3>1, <3>2, <4>1 DEF IsReview
    <3> QED
      BY <3>3, <3>4
  <2> QED
    BY <2>1, <2>2
<1>11. UnfinishedChecks(s)
  <2> SUFFICES ASSUME NEW i \in Ids(s), NEW j \in Ids(s), s.ops[i].kind = "final",
                      ~IsAnswered(s, i), Last(s, i), i < j, IsReview(s, j)
               PROVE  FALSE
    BY DEF UnfinishedChecks
  <2>1. i \in Ids(r) /\ i # k /\ ~IsAnswered(r, i) /\ r.ops[i].kind = "final"
    BY <1>1, <1>2, <1>3, <1>5
  <2>2. Last(r, i) /\ IsReview(r, j)
    BY <1>1, <1>2 DEF Last, IsReview
  <2> QED
    BY <1>1, <2>1, <2>2 DEF OpsInv, UnfinishedChecks
<1>12. Reviews(s, q)
  <2> SUFFICES ASSUME NEW i \in Ids(r), NEW j \in Ids(r), PassedCheck(s, i), IsReview(r, j), i < j
               PROVE  /\ q[j] # NoAnswer => q[j].content = x.content
                      /\ IsAnswered(s, j) =>
                           /\ s.ops[j].result.state = x
                           /\ s.ops[j].result.answer = "passed" => q[j].kind = "passed"
                      /\ \A h \in Ids(r) : IsReview(r, h) /\ i < h /\ h < j
                                           => s.ops[h].result.answer = "exploration"
    <3>1. \A j \in Ids(r) : IsReview(s, j) <=> IsReview(r, j)
      BY <1>2 DEF IsReview
    <3> QED
      BY <1>1, <3>1 DEF Reviews
  <2>1. i # k
    BY <1>2 DEF OpsInv, UnfinishedChecks, PassedCheck
  <2>2. PassedCheck(r, i) /\ x = r.current
    BY <1>6, <2>1
  <2>3. /\ q[j] # NoAnswer => q[j].content = r.current.content
        /\ IsAnswered(r, j) => /\ r.ops[j].result.state = r.current
                               /\ r.ops[j].result.answer = "passed" => q[j].kind = "passed"
        /\ \A h \in Ids(r) : IsReview(r, h) /\ i < h /\ h < j
                               => r.ops[h].result.answer = "exploration"
    BY <2>2 DEF OpsInv, Reviews
  <2>4. \A h \in Ids(r) : IsReview(r, h) => s.ops[h].result.answer = r.ops[h].result.answer
    BY <1>4, <1>7
  <2>5. IsAnswered(s, j) => /\ s.ops[j].result.state = x
                            /\ s.ops[j].result.answer = "passed" => q[j].kind = "passed"
    BY ZenonT(60), <1>4, <1>5, <1>7, <2>2, <2>3 DEF KeepsResult
  <2> QED
    BY <2>2, <2>3, <2>4, <2>5
<1> QED
  BY <1>8, <1>9, <1>10, <1>11, <1>12 DEF OpsInv

\* An agent's answer becomes the result of its operation, and its receipt may go.
Gives(s, r, k, status, answer) ==
  /\ s.current = r.current /\ s.basis = r.basis /\ Len(s.ops) = Len(r.ops)
  /\ s.ops[k].kind = r.ops[k].kind /\ s.ops[k].basis = r.ops[k].basis
  /\ s.ops[k].result.status = status /\ s.ops[k].result.state = r.current
  /\ s.ops[k].result.answer = answer
  /\ \A i \in Ids(r) : i # k => s.ops[i] = r.ops[i]

MayGive(r, k, answer, p) ==
  /\ r.ops[k].kind \in AgentKinds /\ ~IsAnswered(r, k)
  /\ answer = "changes" => IsReview(r, k)
  /\ IsReview(r, k) => /\ Reviewing(r, k)
                       /\ answer \in AnswersTo("review") \ {"none", "blocked"}
                       /\ answer = "passed" => p[k].kind = "passed"

LEMMA OpsResult ==
  ASSUME NEW r \in Runs, NEW s \in Runs, NEW q, NEW p, NEW v \in Nat, NEW seen,
         NEW k \in Ids(r), NEW status \in {"succeeded", "failed"}, NEW answer \in Answerable,
         OpsInv(r, q, v, seen), MayGive(r, k, answer, p), Gives(s, r, k, status, answer),
         \A i \in Ids(r) : i # k => p[i] = q[i],
         p[k] = q[k] \/ p[k] = NoAnswer
  PROVE  OpsInv(s, p, v, seen)
<1> USE DEF Gives, MayGive
<1>1. Ids(s) = Ids(r) /\ Ids(r) \subseteq Nat
  BY OpsOf DEF Ids
<1>2. \A i \in Ids(r) : s.ops[i].kind = r.ops[i].kind /\ s.ops[i].basis = r.ops[i].basis
  OBVIOUS
<1>3. \A i \in Ids(r) : PassedCheck(s, i) => PassedCheck(r, i) /\ i # k /\ s.ops[i] = r.ops[i]
  BY DEF PassedCheck, AgentKinds
<1>4. IsAnswered(s, k)
  BY StateTypes DEF IsAnswered
<1>5. Bases(s, p)
  <2>1. \A i \in Ids(r) : p[i] # NoAnswer => p[i] = q[i]
    OBVIOUS
  <2> QED
    BY <1>1, <1>2, <2>1 DEF OpsInv, Bases
<1>6. Passed(s, v, seen)
  <2> SUFFICES ASSUME NEW i \in Ids(r), PassedCheck(s, i)
               PROVE  /\ s.ops[i].result.state = s.current /\ s.current.by = "final"
                      /\ s.current.n = i
                      /\ s.ops[i].basis = v =>
                            [content |-> s.current.content, stable |-> TRUE] \in seen
    BY <1>1 DEF Passed
  <2>1. PassedCheck(r, i) /\ s.ops[i] = r.ops[i]
    BY <1>3
  <2> QED
    BY <2>1 DEF OpsInv, Passed
<1>7. ResultStates(s)
  <2> SUFFICES ASSUME NEW i \in Ids(r)
               PROVE  /\ \/ s.ops[i].result.state \in {s.current, NoState}
                         \/ s.ops[i].result.state.by = "resume"
                      /\ s.ops[i].result.answer = "changes" => IsReview(s, i)
                      /\ IsReview(s, i) =>
                           /\ \/ s.ops[i].result.state = NoState
                              \/ /\ s.ops[i].result.state.by = "final"
                                 /\ s.ops[i].result.state.n < i
                           /\ IsAnswered(s, i) => s.ops[i].result.answer \in
                                                    AnswersTo("review") \ {"none", "blocked"}
                      /\ s.ops[i].result.status = "none" => ~IsAnswered(s, i)
    BY <1>1 DEF ResultStates
  <2>1. CASE i = k
    <3>1. IsReview(s, i) <=> IsReview(r, k)
      BY <2>1 DEF IsReview
    <3>2. IsReview(r, k) => r.current.by = "final" /\ r.current.n < k
      BY DEF Reviewing, Accepted, OpsInv, Passed
    <3> QED
      BY <2>1, <3>1, <3>2
  <2>2. CASE i # k
    BY SMTT(30), <2>2 DEF OpsInv, ResultStates, IsReview, IsAnswered
  <2> QED
    BY <2>1, <2>2
<1>8. UnfinishedChecks(s)
  <2> SUFFICES ASSUME NEW i \in Ids(r), NEW j \in Ids(r), s.ops[i].kind = "final",
                      ~IsAnswered(s, i), Last(s, i), i < j, IsReview(s, j)
               PROVE  FALSE
    BY <1>1 DEF UnfinishedChecks
  <2>1. i # k /\ r.ops[i].kind = "final" /\ Last(r, i) /\ IsReview(r, j)
    BY <1>1, <1>2, <1>4 DEF Last, IsReview
  <2>2. ~IsAnswered(r, i)
    BY <2>1 DEF IsAnswered
  <2> QED
    BY <2>1, <2>2 DEF OpsInv, UnfinishedChecks
<1>9. Reviews(s, p)
  <2> SUFFICES ASSUME NEW i \in Ids(r), NEW j \in Ids(r), PassedCheck(r, i), IsReview(r, j), i < j
               PROVE  /\ p[j] # NoAnswer => p[j].content = r.current.content
                      /\ IsAnswered(s, j) =>
                           /\ s.ops[j].result.state = r.current
                           /\ s.ops[j].result.answer = "passed" => p[j].kind = "passed"
                      /\ \A h \in Ids(r) : IsReview(r, h) /\ i < h /\ h < j
                                           => s.ops[h].result.answer = "exploration"
    <3>1. \A h \in Ids(r) : IsReview(s, h) <=> IsReview(r, h)
      BY <1>2 DEF IsReview
    <3> QED
      BY <1>1, <1>3, <3>1 DEF Reviews
  <2>1. /\ q[j] # NoAnswer => q[j].content = r.current.content
        /\ IsAnswered(r, j) => /\ r.ops[j].result.state = r.current
                               /\ r.ops[j].result.answer = "passed" => q[j].kind = "passed"
        /\ \A h \in Ids(r) : IsReview(r, h) /\ i < h /\ h < j
                               => r.ops[h].result.answer = "exploration"
    BY DEF OpsInv, Reviews
  <2>2. p[j] # NoAnswer => p[j].content = r.current.content
    BY <2>1
  <2>3. IsAnswered(s, j) => /\ s.ops[j].result.state = r.current
                            /\ s.ops[j].result.answer = "passed" => p[j].kind = "passed"
    BY <2>1 DEF IsAnswered
  <2>4. ASSUME NEW h \in Ids(r), IsReview(r, h), i < h, h < j
        PROVE  s.ops[h].result.answer = "exploration"
    <3>1. h # k
      BY <1>1, <2>4 DEF Reviewing, Last, IsReview
    <3> QED
      BY <2>1, <2>4, <3>1
  <2> QED
    BY <2>2, <2>3, <2>4
<1> QED
  BY <1>5, <1>6, <1>7, <1>8, <1>9 DEF OpsInv

\* An answer is accepted for an operation; a reviewer has seen the current state.
LEMMA OpsSays ==
  ASSUME NEW r \in Runs, NEW q, NEW p, NEW v \in Nat, NEW seen, NEW k \in Ids(r),
         OpsInv(r, q, v, seen), ~IsAnswered(r, k),
         \A i \in Ids(r) : i # k => p[i] = q[i],
         p[k].basis = r.basis, p[k].kind \in AnswersTo(r.ops[k].kind) \ {"none"},
         IsReview(r, k) => p[k].content = r.current.content
  PROVE  OpsInv(r, p, v, seen)
<1>1. Bases(r, p)
  BY OpsOf DEF OpsInv, Bases
<1>2. Reviews(r, p)
  BY DEF OpsInv, Reviews
<1> QED
  BY <1>1, <1>2 DEF OpsInv

(***************************************************************************)
(* What the dispatch of the recorded run has looked at.                    *)
(***************************************************************************)
LEMMA Greatest ==
  ASSUME NEW n \in Nat, NEW S \in SUBSET (1 .. n)
  PROVE  /\ Max({0} \cup S) \in {0} \cup S
         /\ \A k \in S : k <= Max({0} \cup S)
<1> DEFINE T == {0} \cup S
<1>1. T \in SUBSET Nat /\ T # {} /\ \A k \in T : k <= n
  OBVIOUS
<1>2. S \subseteq T
  OBVIOUS
<1> HIDE DEF T
<1>3. Max(T) \in T /\ \A k \in T : k <= Max(T)
  BY <1>1, MaxOf
<1> QED
  BY <1>2, <1>3 DEF T

LEMMA LatestIs ==
  ASSUME Types, NEW kind
  PROVE  /\ Ops = Ids(run) /\ Len(run.ops) \in Nat
         /\ Latest(kind) \in {0} \cup Ids(run)
         /\ Latest(kind) # 0 => /\ Latest(kind) \in Ids(run)
                                /\ run.ops[Latest(kind)].kind = kind
                                /\ Last(run, Latest(kind))
<1>1. Ops = Ids(run) /\ Len(run.ops) \in Nat
  BY OpsOf DEF Ops, Ids, Types
<1> DEFINE S == {i \in Ops : run.ops[i].kind = kind}
<1>2. S \in SUBSET (1 .. Len(run.ops))
  BY <1>1 DEF Ids
<1>3. Max({0} \cup S) \in {0} \cup S /\ \A k \in S : k <= Max({0} \cup S)
  <2> HIDE DEF S
  <2> QED
    BY <1>1, <1>2, Greatest
<1>4. Latest(kind) = Max({0} \cup S)
  BY DEF Latest
<1>5. Latest(kind) \in {0} \cup S /\ \A k \in S : k <= Latest(kind)
  BY <1>3, <1>4
<1> QED
  BY <1>1, <1>5 DEF Last

LEMMA FinalCheckIs ==
  ASSUME Types
  PROVE  FinalCheck \in Nat /\ (FinalCheck # 0 => Accepted(run, FinalCheck))
<1> DEFINE i == Latest("final")
<1>1. /\ i \in {0} \cup Ids(run)
      /\ i # 0 => i \in Ids(run) /\ run.ops[i].kind = "final" /\ Last(run, i)
  BY LatestIs
<1>2. i \in Nat
  BY <1>1 DEF Ids
<1> HIDE DEF i
<1>3. FinalCheck = IF i # 0 /\ run.ops[i].basis = run.basis
                      /\ run.ops[i].result.status = "succeeded"
                      /\ run.ops[i].result.state = run.current THEN i ELSE 0
  BY DEF FinalCheck, i
<1>4. CASE FinalCheck = 0
  BY <1>4
<1>5. CASE FinalCheck # 0
  <2>1. /\ FinalCheck = i /\ i # 0 /\ run.ops[i].basis = run.basis
        /\ run.ops[i].result.status = "succeeded"
    BY <1>3, <1>5
  <2>2. Accepted(run, i)
    BY <1>1, <2>1 DEF Accepted, PassedCheck
  <2> QED
    BY <1>2, <2>1, <2>2
<1> QED
  BY <1>4, <1>5

LEMMA FinalReviewIs ==
  ASSUME Types
  PROVE  /\ FinalReview \in Nat /\ FinalReview \in {0} \cup Ids(run)
         /\ \A j \in Ids(run) : IsReview(run, j) /\ FinalCheck < j =>
              FinalReview # 0 /\ j <= FinalReview
         /\ FinalCheck # 0 /\ FinalReview # 0 => Reviewing(run, FinalReview)
         /\ FinalReview # 0 => FinalCheck < FinalReview
<1> DEFINE S == {i \in Ops : run.ops[i].kind = "review" /\ i > FinalCheck}
<1>1. Ops = Ids(run) /\ Len(run.ops) \in Nat
  BY LatestIs
<1>2. S \in SUBSET (1 .. Len(run.ops))
  BY <1>1 DEF Ids
<1>3. Max({0} \cup S) \in {0} \cup S /\ \A k \in S : k <= Max({0} \cup S)
  <2> HIDE DEF S
  <2> QED
    BY <1>1, <1>2, Greatest
<1>4. FinalReview \in {0} \cup S /\ \A k \in S : k <= FinalReview
  BY <1>3 DEF FinalReview
<1>5. FinalCheck \in Nat /\ Ids(run) \subseteq Nat
  BY FinalCheckIs DEF Ids
<1>6. FinalReview \in Nat /\ FinalReview \in {0} \cup Ids(run)
  BY <1>1, <1>4, <1>5
<1>7. \A j \in Ids(run) : IsReview(run, j) /\ FinalCheck < j =>
        FinalReview # 0 /\ j <= FinalReview
  <2> SUFFICES ASSUME NEW j \in Ids(run), IsReview(run, j), FinalCheck < j
               PROVE  FinalReview # 0 /\ j <= FinalReview
    OBVIOUS
  <2>1. j \in S
    BY <1>1, <1>5 DEF IsReview
  <2>2. j <= FinalReview
    BY <1>4, <2>1
  <2>3. j \in Nat /\ j # 0
    BY <1>5 DEF Ids
  <2> QED
    BY <1>6, <2>2, <2>3
<1>8. FinalReview # 0 => /\ FinalReview \in Ids(run) /\ IsReview(run, FinalReview)
                         /\ FinalCheck < FinalReview
  <2> SUFFICES ASSUME FinalReview # 0
               PROVE  /\ FinalReview \in Ids(run) /\ IsReview(run, FinalReview)
                      /\ FinalCheck < FinalReview
    OBVIOUS
  <2>1. FinalReview \in S
    BY <1>4
  <2>2. FinalReview \in Ops /\ run.ops[FinalReview].kind = "review" /\ FinalReview > FinalCheck
    BY <2>1
  <2> QED
    BY <1>1, <1>5, <1>6, <2>2 DEF IsReview
<1>9. FinalCheck # 0 /\ FinalReview # 0 => Reviewing(run, FinalReview)
  <2> SUFFICES ASSUME FinalCheck # 0, FinalReview # 0 PROVE Reviewing(run, FinalReview)
    OBVIOUS
  <2>1. Accepted(run, FinalCheck) /\ FinalCheck \in Ids(run)
    BY FinalCheckIs DEF Accepted
  <2>2. \A j \in Ids(run) : IsReview(run, j) => j <= FinalReview
    BY <1>5, <1>6, <1>7, <1>8
  <2> QED
    BY <1>8, <2>1, <2>2 DEF Reviewing, Last, IsReview
<1> QED
  BY <1>6, <1>7, <1>8, <1>9

\* The dispatch comes to the final review only with everything else done.
LEMMA NextIs ==
  ASSUME Types, ResultStates(run)
  PROVE  /\ Next0 \in {"review", "append", "complete", "none"} =>
              Pending = {} /\ FinalCheck # 0
         /\ Next0 = "review" => \/ FinalReview = 0 \/ ~IsAnswered(run, FinalReview)
                                \/ run.ops[FinalReview].result.answer = "exploration"
         /\ Next0 = "complete" => /\ FinalReview # 0
                                  /\ run.ops[FinalReview].result.answer = "passed"
<1>1. Next0 \in {"review", "append", "complete", "none"} =>
        Pending = {} /\ FinalCheck # 0 /\ Next0 = AfterCheck
  BY DEF Next0
<1> DEFINE i == FinalReview
           a == run.ops[i].result.answer
<1>2. CASE Incomplete("append") /\ Latest("append") > FinalCheck
  <2>1. AfterCheck = "append"
    BY <1>2 DEF AfterCheck
  <2> QED
    BY <1>1, <2>1
<1>3. CASE ~(Incomplete("append") /\ Latest("append") > FinalCheck) /\ (i = 0 \/ ~Answered(i))
  <2>1. AfterCheck = "review"
    BY <1>3 DEF AfterCheck
  <2> QED
    BY <1>1, <1>3, <2>1 DEF Answered, IsAnswered
<1>4. CASE ~(Incomplete("append") /\ Latest("append") > FinalCheck) /\ i # 0 /\ Answered(i)
  <2> SUFFICES ASSUME FinalCheck # 0, Next0 = AfterCheck
               PROVE  /\ Next0 = "review" => a = "exploration"
                      /\ Next0 = "complete" => FinalReview # 0 /\ a = "passed"
    BY <1>1
  <2>1. AfterCheck = [passed |-> "complete", changes |-> "append", exploration |-> "review",
                      clarification |-> "none"][a]
    BY <1>4 DEF AfterCheck
  <2>2. IsReview(run, i) /\ i \in Ids(run) /\ IsAnswered(run, i)
    BY <1>4, FinalReviewIs DEF Reviewing, Answered, IsAnswered
  <2>3. a \in {"passed", "changes", "clarification", "exploration"}
    BY <2>2 DEF ResultStates, AnswersTo
  <2> QED
    BY <1>4, <2>1, <2>3
<1> QED
  BY <1>2, <1>3, <1>4

\* A selection names a prefix of the pending tasks.
LEMMA PendingTasks ==
  ASSUME Types
  PROVE  /\ Pending # {} => Min(Pending) \in Nat
         /\ \A n \in 1 .. Cardinality(Pending) : Min(Pending) \in Nat /\ n \in 0 .. MaxTasks
<1>1. run.tasks \in Seq(Tasks) /\ Len(run.tasks) <= MaxTasks /\ Len(run.tasks) \in Nat
        /\ DOMAIN run.tasks = 1 .. Len(run.tasks)
  BY LenProperties DEF Types, Runs
<1>2. Pending \subseteq 1 .. Len(run.tasks)
  BY <1>1 DEF Pending
<1>3. IsFiniteSet(1 .. Len(run.tasks)) /\ Cardinality(1 .. Len(run.tasks)) = Len(run.tasks)
  BY <1>1, FirstNumbers
<1>4. IsFiniteSet(Pending) /\ Cardinality(Pending) <= Len(run.tasks)
  BY ZenonT(60), <1>2, <1>3, FS_Subset
<1>5. Cardinality(Pending) \in Nat /\ (Pending = {} => Cardinality(Pending) = 0)
  BY <1>4, FS_CardinalityType, FS_EmptySet
<1>6. Pending # {} => Min(Pending) \in Nat
  <2>1. Pending \in SUBSET Nat
    BY <1>2
  <2> QED
    BY <2>1, MinOf
<1>7. MaxTasks \in Nat
  BY RouteAssumption
<1> QED
  BY <1>1, <1>4, <1>5, <1>6, <1>7

(***************************************************************************)
(* Steps that leave the operations alone.                                  *)
(***************************************************************************)
Idle == Places \ (Turning \cup Checking \cup {"complete"})
Ready == run.selected = 0 /\ run'.selected # 0 => proved # {}
Safe == RouteInv' /\ Ready

\* Where the step leaves the controller and the run.
Placed ==
  \/ run.status = "active" /\ run'.status = "active" /\ pc' \notin {"paused", "ended"}
  \/ run'.status = "paused" /\ pc' = "paused"
  \/ run'.status = "closed" /\ pc' = "ended"

LEMMA SameOpsKeeps ==
  ASSUME NEW r \in Runs, NEW s \in Runs, SameOps(s, r)
  PROVE  /\ Ids(s) = Ids(r)
         /\ \A k \in Ids(r) :
              /\ s.ops[k].kind = r.ops[k].kind /\ s.ops[k].result = r.ops[k].result
              /\ IsAnswered(s, k) <=> IsAnswered(r, k)
              /\ Last(r, k) => Last(s, k)
              /\ Reviewing(r, k) => Reviewing(s, k)
<1>1. /\ Ids(s) = Ids(r) /\ s.basis = r.basis
      /\ \A k \in Ids(r) : /\ s.ops[k].kind = r.ops[k].kind /\ s.ops[k].result = r.ops[k].result
                           /\ s.ops[k].basis = r.ops[k].basis
  BY DEF SameOps, Ids
<1>2. \A k \in Ids(r) : /\ IsAnswered(s, k) <=> IsAnswered(r, k)
                        /\ Last(r, k) => Last(s, k)
  BY <1>1 DEF IsAnswered, Last
<1>3. \A k \in Ids(r) : Accepted(r, k) => Accepted(s, k)
  BY <1>1, <1>2 DEF Accepted, PassedCheck
<1>4. \A k \in Ids(r) : Reviewing(r, k) => Reviewing(s, k)
  BY <1>1, <1>2, <1>3 DEF Reviewing, IsReview
<1> QED
  BY <1>1, <1>2, <1>4

LEMMA SameOpsChain ==
  ASSUME NEW r, NEW s, NEW t, SameOps(s, r), SameOps(t, s), SamePlan(s, r), SamePlan(t, s)
  PROVE  SameOps(t, r) /\ SamePlan(t, r)
<1>1. SameOps(t, r)
  BY DEF SameOps
<1> QED
  BY <1>1 DEF SamePlan

LEMMA Steady ==
  ASSUME RouteInv, run' \in Runs, SameOps(run', run), SamePlan(run', run), receipts' = receipts,
         ws' \in Contents, changes' \in Nat, inputs' = inputs, resumes' \in Nat,
         step' \in Steps, pc' \in Places, proved \subseteq proved', Placed, StepInv'
  PROVE  Safe
<1>1. Types /\ Standing /\ OpsHold
  BY DEF RouteInv
<1>2. Types'
  <2>1. run'.tasks = run.tasks /\ Len(run'.ops) = Len(run.ops)
    BY DEF SameOps, SamePlan
  <2>2. Len(run.tasks) <= MaxTasks /\ receipts \in Seq(Receipts) /\ inputs \in Nat
          /\ Len(receipts) = Len(run.ops)
    BY <1>1 DEF Types
  <2> QED
    BY <2>1, <2>2 DEF Types
<1>3. Standing'
  <2>1. run'.basis = run.basis /\ run'.current = run.current /\ run'.baseline = run.baseline
    BY DEF SameOps, SamePlan
  <2>2. /\ pc' = "paused" <=> run'.status = "paused"
        /\ pc' = "ended" <=> run'.status \in {"closed", "succeeded"}
        /\ run'.status = "active" => run.status = "active"
    BY DEF Placed
  <2> QED
    BY <1>1, <2>1, <2>2 DEF Standing
<1>4. OpsHold'
  <2>1. inputs \in Nat /\ run \in Runs
    BY <1>1 DEF Types
  <2>2. OpsInv(run, receipts, inputs, proved)
    BY <1>1 DEF OpsHold
  <2>3. OpsInv(run', receipts, inputs, proved')
    BY <2>1, <2>2, OpsSteady
  <2> QED
    BY <2>3 DEF OpsHold
<1>5. Succeeded'
  BY DEF Placed, Succeeded, SuccessIsProven, NoRejectedSuccess
<1>6. Ready
  BY DEF Ready, SamePlan
<1> QED
  BY <1>2, <1>3, <1>4, <1>5, <1>6 DEF Safe, RouteInv

LEMMA IdleStep ==
  ASSUME pc' \in Idle
  PROVE  StepInv'
  BY DEF Idle, Places, Turning, Checking, StepInv

LEMMA TurningStep ==
  ASSUME RouteInv, pc \in Turning, pc' \in Turning, run' \in Runs, SameOps(run', run),
         SamePlan(run', run), step' = step,
         pc' \in {"settle", "answer"} => /\ receipts'[step.op] # NoAnswer
                                         /\ receipts'[step.op].basis = run.basis,
         pc' = "turn" /\ step.kind = "review" => ws' = run.current.content
  PROVE  StepInv'
<1>1. /\ step.op \in Ids(run) /\ step.kind = run.ops[step.op].kind /\ ~IsAnswered(run, step.op)
      /\ step.kind \in AgentKinds
      /\ step.kind = "review" => Reviewing(run, step.op) /\ Pending = {}
  BY DEF RouteInv, StepInv
<1>2. /\ step.op \in Ids(run') /\ step.kind = run'.ops[step.op].kind
      /\ ~IsAnswered(run', step.op)
      /\ step.kind = "review" => Reviewing(run', step.op)
  BY <1>1, SameOpsKeeps DEF RouteInv, Types
<1>3. run'.tasks = run.tasks /\ run'.current = run.current /\ run'.basis = run.basis
  BY DEF SamePlan, SameOps
<1>4. Pending' = Pending
  BY <1>3 DEF Pending
<1>5. pc' \notin Checking /\ pc' # "complete"
  BY DEF Turning, Checking
<1> QED
  BY <1>1, <1>2, <1>3, <1>4, <1>5 DEF StepInv, Turning, Checking

\* What a check set has found, in the step of its controller.
Found(t, r, seen) ==
  /\ t.status \in {"succeeded", "failed"} /\ t.state.by # "none"
  /\ t.status = "succeeded" =>
       /\ t.state.by = t.kind /\ t.state.n = t.op
       /\ [content |-> t.state.content, stable |-> TRUE] \in seen
  /\ t.state = r.current \/ (t.state.by = t.kind /\ t.state.n = t.op)

LEMMA CheckingStep ==
  ASSUME RouteInv, pc \in Checking, pc' \in Checking, run' \in Runs, SameOps(run', run),
         step'.op = step.op, step'.kind = step.kind,
         pc' \in {"outcome", "result"} => Found(step', run, proved')
  PROVE  StepInv'
<1>1. /\ step.op \in Ids(run) /\ step.kind = run.ops[step.op].kind /\ ~IsAnswered(run, step.op)
      /\ step.kind \in CheckKinds /\ Last(run, step.op)
  BY DEF RouteInv, StepInv
<1>2. /\ step.op \in Ids(run') /\ step.kind = run'.ops[step.op].kind
      /\ ~IsAnswered(run', step.op) /\ Last(run', step.op)
  BY <1>1, SameOpsKeeps DEF RouteInv, Types
<1>3. run'.current = run.current
  BY DEF SameOps
<1>4. pc' \notin Turning /\ pc' # "complete"
  BY DEF Turning, Checking
<1> QED
  BY <1>1, <1>2, <1>3, <1>4 DEF StepInv, Turning, Checking, Found

StepOf(i, kind, c) == [NoStep EXCEPT !.op = i, !.kind = kind, !.before = c]

LEMMA NoStepTypes ==
  ASSUME NEW i \in Nat, NEW kind \in AgentKinds \cup CheckKinds, NEW c \in Contents
  PROVE  /\ NoStep \in Steps
         /\ StepOf(i, kind, c) \in Steps
         /\ StepOf(i, kind, c).op = i /\ StepOf(i, kind, c).kind = kind
<1>1. NoState \in StateType /\ 0 \in Contents
  BY StateTypes
<1> QED
  BY <1>1 DEF NoStep, Steps, StepOf

\* A pause: what it leaves of the operation at hand is their attempts.
LEMMA PauseSafe ==
  ASSUME RouteInv, run' \in Runs, SameOps(run', run), SamePlan(run', run),
         run'.status = "paused", pc' = "paused", step' = NoStep \/ step' = step,
         receipts' = receipts, ws' \in Contents, changes' \in Nat,
         inputs' = inputs, resumes' = resumes, proved \subseteq proved'
  PROVE  Safe
<1>1. step' \in Steps /\ resumes' \in Nat
  BY NoStepTypes, StateTypes DEF RouteInv, Types, AgentKinds
<1>2. Placed /\ pc' \in Places /\ pc' \in Idle
  BY DEF Placed, Places, Idle, Turning, Checking
<1>3. StepInv'
  BY <1>2, IdleStep
<1> QED
  BY <1>1, <1>2, <1>3, Steady

\* The same pause of a run that is not changed otherwise.
LEMMA RefuseSafe ==
  ASSUME RouteInv, Refuse(run), receipts' = receipts, UNCHANGED <<world, resumes, history>>
  PROVE  Safe
<1>1. run \in Runs /\ ws \in Contents /\ changes \in Nat
  BY DEF RouteInv, Types
<1>2. run' \in Runs /\ run'.status = "paused" /\ SameOps(run', run) /\ SamePlan(run', run)
  <2>1. 0 \in 0 .. ReviewLimit /\ "paused" \in Statuses
    BY RouteAssumption DEF Statuses
  <2> QED
    BY <1>1, <2>1, StatusDoes DEF Refuse, Pauses, Paused
<1> QED
  BY <1>1, <1>2, PauseSafe DEF Refuse, Pauses, world, history

(***************************************************************************)
(* An operation is opened or taken up again.                               *)
(***************************************************************************)
LEMMA OpenSafe ==
  ASSUME RouteInv, At("dispatch"), NEW kind \in AgentKinds \cup CheckKinds, NEW at,
         \/ kind \in AgentKinds /\ at = "call"
         \/ kind \in CheckKinds /\ at = "reserve",
         kind = "review" => Pending = {} /\ ReviewMayOpen(run),
         Open(kind, at), UNCHANGED <<world, resumes, history>>
  PROVE  Safe
<1> DEFINE o == Operation(kind, run.basis)
           n == Len(run.ops) + 1
<1>1. /\ run \in Runs /\ run.ops \in Seq(Operations) /\ Len(run.ops) \in Nat
      /\ receipts \in Seq(Receipts) /\ Len(receipts) = Len(run.ops) /\ run.basis \in Nat
      /\ Types /\ Standing /\ OpsHold /\ ws \in Contents /\ changes \in Nat /\ inputs \in Nat
      /\ resumes \in Nat
  BY OpsOf DEF RouteInv, Types
<1>2. o \in Operations
  BY <1>1, StateTypes DEF Operation, Operations, Attempts
<1>3. NoAnswer \in Receipts
  BY StateTypes, RouteAssumption DEF NoAnswer, Receipts, Answerable
<1> HIDE DEF o
<1>4. /\ Append(run.ops, o) \in Seq(Operations) /\ Len(Append(run.ops, o)) = n
      /\ \A i \in Ids(run) : Append(run.ops, o)[i] = run.ops[i]
      /\ Append(run.ops, o)[n] = o
  BY <1>1, <1>2, AppendProperties DEF Ids
<1>5. /\ Append(receipts, NoAnswer) \in Seq(Receipts) /\ Len(Append(receipts, NoAnswer)) = n
      /\ \A i \in Ids(run) : Append(receipts, NoAnswer)[i] = receipts[i]
      /\ Append(receipts, NoAnswer)[n] = NoAnswer
  BY <1>1, <1>3, AppendProperties DEF Ids
<1>6. /\ run' = [run EXCEPT !.ops = Append(run.ops, o)]
      /\ receipts' = Append(receipts, NoAnswer)
      /\ step' = StepOf(n, kind, ws) /\ pc' = at
      /\ ws' = ws /\ changes' = changes /\ inputs' = inputs /\ resumes' = resumes
      /\ proved' = proved
  BY DEF Open, Continue, StepOf, o, world, history
<1>7. /\ run' \in Runs /\ run'.ops = Append(run.ops, o) /\ run'.status = run.status
      /\ run'.basis = run.basis /\ run'.current = run.current /\ SamePlan(run', run)
  BY <1>1, <1>4, <1>6 DEF Runs, SamePlan
<1>8. step' \in Steps /\ step'.op = n /\ step'.kind = kind
  <2>1. n \in Nat
    BY <1>1
  <2> HIDE DEF n
  <2> QED
    BY <1>1, <1>6, <2>1, NoStepTypes
<1>9. Types'
  <2>1. pc' \in Places
    BY <1>6 DEF Places
  <2>2. Len(run'.tasks) <= MaxTasks
    BY <1>1, <1>7 DEF Types, SamePlan
  <2> QED
    BY <1>1, <1>4, <1>5, <1>6, <1>7, <1>8, <2>1, <2>2 DEF Types
<1>10. Standing'
  BY <1>1, <1>6, <1>7 DEF Standing, At, SamePlan
<1>11. /\ OpsInv(run', receipts', inputs, proved)
       /\ Last(run', n) /\ ~IsAnswered(run', n) /\ run'.ops[n].kind = kind
       /\ kind = "review" => Reviewing(run', n)
  <2>1. OpsInv(run, receipts, inputs, proved)
    BY <1>1 DEF OpsHold
  <2>2. run'.ops[n] = Operation(kind, run.basis) /\ receipts'[n] = NoAnswer
        /\ Len(run'.ops) = n /\ \A i \in Ids(run) : run'.ops[i] = run.ops[i] /\ receipts'[i] = receipts[i]
    BY <1>4, <1>5, <1>6, <1>7 DEF o
  <2>3. Opens(run', receipts', run, receipts, kind)
    BY <1>7, <2>2 DEF Opens
  <2>4. run \in Runs /\ run' \in Runs /\ inputs \in Nat
    BY <1>1, <1>7
  <2> QED
    BY <2>1, <2>3, <2>4, OpsOpen
<1>12. OpsHold'
  BY <1>6, <1>11 DEF OpsHold
<1>13. StepInv'
  <2>1. n \in Ids(run')
    BY <1>1, <1>4, <1>7 DEF Ids
  <2>2. Pending' = Pending
    BY <1>7 DEF Pending, SamePlan
  <2>3. pc' \in {"call", "reserve"} /\ (pc' = "call" => kind \in AgentKinds)
          /\ (pc' = "reserve" => kind \in CheckKinds)
    BY <1>6
  <2> QED
    BY <1>8, <1>11, <2>1, <2>2, <2>3 DEF StepInv, Turning, Checking
<1>14. Succeeded' /\ Ready
  BY <1>7 DEF At, Succeeded, SuccessIsProven, NoRejectedSuccess, Ready, SamePlan
<1> QED
  BY <1>9, <1>10, <1>12, <1>13, <1>14 DEF Safe, RouteInv

LEMMA ResumedSafe ==
  ASSUME RouteInv, At("dispatch"), NEW i \in Ids(run), NEW at,
         \/ run.ops[i].kind \in AgentKinds /\ at = "call"
         \/ run.ops[i].kind \in CheckKinds /\ at = "reserve" /\ Last(run, i),
         ~IsAnswered(run, i),
         IsReview(run, i) => Reviewing(run, i) /\ Pending = {},
         Resumed(i, at), UNCHANGED <<world, resumes, history>>
  PROVE  Safe
<1>1. run \in Runs /\ Types /\ i \in Nat /\ ws \in Contents
  BY OpsOf DEF RouteInv, Types, Ids
<1>2. /\ run' = run /\ receipts' = receipts /\ ws' = ws /\ changes' = changes
      /\ inputs' = inputs /\ resumes' = resumes /\ proved' = proved /\ pc' = at
      /\ step' = StepOf(i, run.ops[i].kind, ws)
  BY DEF Resumed, Continue, StepOf, world, history
<1>3. step' \in Steps /\ step'.op = i /\ step'.kind = run.ops[i].kind
  <2>1. run.ops[i].kind \in AgentKinds \cup CheckKinds
    OBVIOUS
  <2> QED
    BY <1>1, <1>2, <2>1, NoStepTypes
<1>4. SameOps(run', run) /\ SamePlan(run', run)
  BY <1>2 DEF SameOps, SamePlan
<1>5. Placed
  BY <1>2 DEF Placed, At
<1>6. StepInv'
  <2>1. Pending' = Pending
    BY <1>2 DEF Pending
  <2>2. pc' \in {"call", "reserve"} /\ (pc' = "call" => run.ops[i].kind \in AgentKinds)
          /\ (pc' = "reserve" => run.ops[i].kind \in CheckKinds /\ Last(run, i))
    BY <1>2
  <2> QED
    BY <1>2, <1>3, <2>1, <2>2 DEF StepInv, Turning, Checking, IsReview
<1> QED
  BY <1>1, <1>2, <1>3, <1>4, <1>5, <1>6, Steady DEF Types, Places

(***************************************************************************)
(* The dispatch.                                                           *)
(***************************************************************************)
LEMMA Known ==
  ASSUME RouteInv
  PROVE  /\ Types /\ Standing /\ StepInv /\ run \in Runs /\ run.basis \in Nat
         /\ run.current \in StateType /\ Len(run.ops) \in Nat /\ Ids(run) \subseteq Nat
         /\ OpsInv(run, receipts, inputs, proved) /\ ResultStates(run)
         /\ receipts \in Seq(Receipts) /\ Len(receipts) = Len(run.ops)
         /\ \A i \in Ids(run) : receipts[i] \in Receipts /\ receipts[i].basis \in Nat
         /\ ws \in Contents /\ changes \in Nat /\ inputs \in Nat /\ resumes \in Nat
         /\ step \in Steps /\ pc \in Places
<1>1. /\ Types /\ Standing /\ StepInv /\ OpsInv(run, receipts, inputs, proved)
      /\ ResultStates(run)
  BY DEF RouteInv, OpsHold, OpsInv
<1>2. /\ run \in Runs /\ receipts \in Seq(Receipts) /\ Len(receipts) = Len(run.ops)
      /\ ws \in Contents /\ changes \in Nat /\ inputs \in Nat /\ resumes \in Nat
      /\ step \in Steps /\ pc \in Places
  BY <1>1 DEF Types
<1>3. /\ run.basis \in Nat /\ run.current \in StateType /\ Len(run.ops) \in Nat
      /\ Ids(run) \subseteq Nat
  BY <1>2, OpsOf DEF Ids
<1>4. \A i \in Ids(run) : receipts[i] \in Receipts
  BY <1>2, <1>3, ElementOfSeq DEF Ids
<1>5. \A i \in Ids(run) : receipts[i].basis \in Nat
  BY <1>4 DEF Receipts
<1> QED
  BY <1>1, <1>2, <1>3, <1>4, <1>5

\* What an incomplete operation of a kind is.
LEMMA IncompleteIs ==
  ASSUME Types, NEW kind, Incomplete(kind)
  PROVE  /\ Latest(kind) \in Ids(run) /\ run.ops[Latest(kind)].kind = kind
         /\ ~IsAnswered(run, Latest(kind)) /\ Last(run, Latest(kind))
  BY LatestIs DEF Incomplete, Answered, IsAnswered

LEMMA ContinueSafe ==
  ASSUME RouteInv, At("dispatch"), NEW kind \in {"extract", "select"}, ContinueAgent(kind),
         UNCHANGED <<world, resumes, history>>
  PROVE  Safe
<1>1. kind \in AgentKinds /\ kind # "review" /\ Types
  BY Known DEF AgentKinds
<1>2. CASE Incomplete(kind) /\ Resumed(Latest(kind), "call")
  <2>1. /\ Latest(kind) \in Ids(run) /\ run.ops[Latest(kind)].kind = kind
        /\ ~IsAnswered(run, Latest(kind))
    BY <1>1, <1>2, IncompleteIs
  <2>2. ~IsReview(run, Latest(kind))
    BY <1>1, <2>1 DEF IsReview
  <2> QED
    BY <1>1, <1>2, <2>1, <2>2, ResumedSafe
<1>3. CASE Open(kind, "call")
  BY <1>1, <1>3, OpenSafe
<1> QED
  BY <1>2, <1>3 DEF ContinueAgent

LEMMA StartFinalReviewSafe ==
  ASSUME RouteInv, StartFinalReview
  PROVE  Safe
<1>1. /\ Types /\ ResultStates(run) /\ OpsInv(run, receipts, inputs, proved) /\ At("dispatch")
      /\ Next0 = "review" /\ UNCHANGED <<world, resumes, history>> /\ Ids(run) \subseteq Nat
  BY Known DEF StartFinalReview, Dispatch
<1>2. Pending = {} /\ FinalCheck # 0
  BY <1>1, NextIs
<1>3. CASE WorkspaceChanged
  <2>1. Refuse(run) /\ receipts' = receipts
    BY <1>3 DEF StartFinalReview, Refuse
  <2> QED
    BY <1>1, <2>1, RefuseSafe
<1>4. CASE ~WorkspaceChanged /\ FinalReview # 0 /\ ~Answered(FinalReview)
  <2>1. Resumed(FinalReview, "call")
    BY <1>4 DEF StartFinalReview
  <2>2. Reviewing(run, FinalReview) /\ FinalReview \in Ids(run)
          /\ run.ops[FinalReview].kind = "review"
    BY <1>1, <1>2, <1>4, FinalReviewIs DEF Reviewing, IsReview
  <2>3. run.ops[FinalReview].kind \in AgentKinds /\ ~IsAnswered(run, FinalReview)
    BY <1>4, <2>2 DEF AgentKinds, Answered, IsAnswered
  <2> QED
    BY <1>1, <1>2, <2>1, <2>2, <2>3, ResumedSafe
<1>5. CASE ~WorkspaceChanged /\ ~(FinalReview # 0 /\ ~Answered(FinalReview))
  <2>1. Open("review", "call")
    BY <1>5 DEF StartFinalReview
  <2>2. Accepted(run, FinalCheck) /\ FinalCheck \in Ids(run) /\ PassedCheck(run, FinalCheck)
    BY <1>1, <1>2, FinalCheckIs DEF Accepted
  <2>3. ASSUME NEW j \in Ids(run), IsReview(run, j), FinalCheck < j
        PROVE  run.ops[j].result.answer = "exploration"
    <3>1. FinalReview # 0 /\ j <= FinalReview /\ FinalReview \in Nat /\ j \in Nat
      BY <1>1, <2>3, FinalReviewIs
    <3>2. run.ops[FinalReview].result.answer = "exploration"
      BY <1>1, <1>5, <3>1, NextIs DEF Answered, IsAnswered
    <3>3. FinalReview \in Ids(run) /\ IsReview(run, FinalReview) /\ FinalCheck < FinalReview
      BY <1>1, <1>2, <3>1, FinalReviewIs DEF Reviewing
    <3>4. CASE j = FinalReview
      BY <3>2, <3>4
    <3>5. CASE j # FinalReview
      <4>1. j < FinalReview
        BY <3>1, <3>5
      <4> QED
        BY <1>1, <2>2, <2>3, <3>3, <4>1 DEF OpsInv, Reviews
    <3> QED
      BY <3>4, <3>5
  <2>4. ReviewMayOpen(run)
    BY <2>2, <2>3 DEF ReviewMayOpen
  <2>5. "review" \in AgentKinds
    BY DEF AgentKinds
  <2> QED
    BY <1>1, <1>2, <2>1, <2>4, <2>5, OpenSafe
<1> QED
  BY <1>3, <1>4, <1>5

LEMMA AddFinalFindingTasksSafe ==
  ASSUME RouteInv, AddFinalFindingTasks
  PROVE  Safe
<1>1. Types /\ At("dispatch") /\ "append" \in AgentKinds
        /\ UNCHANGED <<world, resumes, history>>
  BY Known DEF AddFinalFindingTasks, Dispatch, AgentKinds
<1>2. CASE Incomplete("append") /\ Resumed(Latest("append"), "call")
  <2>1. /\ Latest("append") \in Ids(run) /\ run.ops[Latest("append")].kind = "append"
        /\ ~IsAnswered(run, Latest("append"))
    BY <1>1, <1>2, IncompleteIs
  <2>2. ~IsReview(run, Latest("append"))
    BY <2>1 DEF IsReview
  <2> QED
    BY <1>1, <1>2, <2>1, <2>2, ResumedSafe
<1>3. CASE Open("append", "call")
  BY <1>1, <1>3, OpenSafe
<1> QED
  BY <1>2, <1>3 DEF AddFinalFindingTasks

LEMMA StartChecksSafe ==
  ASSUME RouteInv, NEW kind \in CheckKinds, StartChecks(kind)
  PROVE  Safe
<1>1. Types /\ At("dispatch") /\ kind # "review" /\ UNCHANGED <<world, resumes, history>>
  BY Known DEF StartChecks, Dispatch, CheckKinds
<1>2. CASE Incomplete(kind) /\ Resumed(Latest(kind), "reserve")
  <2>1. /\ Latest(kind) \in Ids(run) /\ run.ops[Latest(kind)].kind = kind
        /\ ~IsAnswered(run, Latest(kind)) /\ Last(run, Latest(kind))
    BY <1>1, <1>2, IncompleteIs
  <2>2. ~IsReview(run, Latest(kind))
    BY <1>1, <2>1 DEF IsReview
  <2> QED
    BY <1>1, <1>2, <2>1, <2>2, ResumedSafe
<1>3. CASE Open(kind, "reserve")
  BY <1>1, <1>3, OpenSafe
<1> QED
  BY <1>2, <1>3 DEF StartChecks

LEMMA CompleteRecordedSafe ==
  ASSUME RouteInv, CompleteRecorded
  PROVE  Safe
<1>1. /\ Types /\ ResultStates(run) /\ At("dispatch") /\ Next0 = "complete" /\ pc' = "complete"
      /\ run' = run /\ receipts' = receipts /\ UNCHANGED <<world, step, resumes, history>>
  BY Known DEF CompleteRecorded, Dispatch
<1>2. /\ Pending = {} /\ FinalCheck # 0 /\ FinalReview # 0
      /\ run.ops[FinalReview].result.answer = "passed"
  BY <1>1, NextIs
<1>3. Reviewing(run, FinalReview) /\ FinalReview \in Ids(run)
  BY <1>1, <1>2, FinalReviewIs DEF Reviewing
<1>4. StepInv'
  <2>1. Pending' = Pending
    BY <1>1 DEF Pending
  <2> QED
    BY <1>1, <1>2, <1>3, <2>1 DEF StepInv, Turning, Checking
<1>5. SameOps(run', run) /\ SamePlan(run', run) /\ Placed /\ pc' \in Places
  BY <1>1 DEF SameOps, SamePlan, Placed, At, Places
<1> QED
  BY <1>1, <1>4, <1>5, Known, Steady DEF world, history

\* The work of an assignment, to its commit: a state of its own is observed.
LEMMA WorkSafe ==
  ASSUME RouteInv, Work
  PROVE  Safe
<1> DEFINE x == State(ws', "work", run.commits)
           o == Observe(run, x)
           ts == [t \in DOMAIN o.tasks |->
                   IF t < Min(Pending) + run.selected
                   THEN [o.tasks[t] EXCEPT !.done = TRUE] ELSE o.tasks[t]]
<1>1. /\ Types /\ Standing /\ run \in Runs /\ OpsInv(run, receipts, inputs, proved)
      /\ receipts \in Seq(Receipts) /\ Len(receipts) = Len(run.ops) /\ inputs \in Nat
      /\ resumes \in Nat /\ step \in Steps /\ pc \in Places /\ changes \in Nat
      /\ \A i \in Ids(run) : receipts[i].basis \in Nat
  BY Known
<1>2. /\ pc = "dispatch" /\ run.status = "active" /\ ws' \in Contents
      /\ changes' = changes + (IF ws' = ws THEN 0 ELSE 1)
      /\ receipts' = receipts /\ inputs' = inputs /\ step' = step /\ resumes' = resumes
      /\ pc' = pc /\ proved' = proved
  BY DEF Work, Dispatch, At, MayChange, history
<1>3. run' = [o EXCEPT !.selected = 0, !.commits = o.commits + 1, !.tasks = ts]
  BY DEF Work
<1>4. x \in StateType /\ x.by = "work"
  <2>1. run.commits \in Nat
    BY <1>1 DEF Runs
  <2> QED
    BY <1>2, <2>1, NewState
<1> HIDE DEF x
<1>5. /\ o \in Runs /\ o.current = x /\ o.status = run.status /\ o.basis = run.basis
      /\ SamePlan(o, run) /\ Forgets(o, run, x)
  BY <1>1, <1>4, ObserveDoes
<1> HIDE DEF o
<1>6. o.tasks \in Seq(Tasks) /\ o.tasks = run.tasks /\ Len(o.tasks) \in Nat
        /\ DOMAIN o.tasks = 1 .. Len(o.tasks) /\ \A t \in DOMAIN o.tasks : o.tasks[t] \in Tasks
  BY <1>5, LenProperties, ElementOfSeq DEF Runs, SamePlan
<1>7. ts \in Seq(Tasks) /\ Len(ts) = Len(run.tasks)
  <2>1. \A t \in DOMAIN o.tasks : [o.tasks[t] EXCEPT !.done = TRUE] \in Tasks
    BY <1>6 DEF Tasks
  <2>2. ts \in [1 .. Len(o.tasks) -> Tasks]
    BY <1>6, <2>1
  <2>3. ts \in Seq(Tasks)
    BY <1>6, <2>2, SeqDef
  <2> HIDE DEF ts
  <2> QED
    BY <1>6, <2>2, <2>3, LenProperties
<1> HIDE DEF ts
<1>8. /\ run' \in Runs /\ run'.ops = o.ops /\ run'.current = x /\ run'.status = run.status
      /\ run'.basis = run.basis /\ run'.tasks = ts /\ run'.selected = 0
      /\ run'.baseline = run.baseline
  <2>1. o.commits + 1 \in Nat /\ 0 \in 0 .. MaxTasks
    BY <1>5, RouteAssumption DEF Runs
  <2>2. run' \in Runs
    BY <1>3, <1>5, <1>7, <2>1 DEF Runs
  <2> QED
    BY <1>3, <1>5, <2>2 DEF Runs, SamePlan
<1>9. Len(run'.ops) = Len(run.ops) /\ Forgets(run', run, x)
  BY <1>5, <1>8 DEF Forgets
<1>10. Types'
  <2>1. changes' \in Nat
    BY <1>1, <1>2
  <2>2. Len(run'.tasks) <= MaxTasks
    BY <1>1, <1>7, <1>8 DEF Types
  <2> QED
    BY <1>1, <1>2, <1>8, <1>9, <2>1, <2>2 DEF Types
<1>11. Standing'
  BY <1>1, <1>2, <1>4, <1>8 DEF Standing
<1>12. OpsHold'
  <2>1. run.current.by # "none" /\ run.basis \in Nat /\ run.basis <= run'.basis
    BY <1>1, <1>8 DEF Standing, Runs
  <2>2. OpsInv(run', receipts, inputs, proved)
    BY <1>1, <1>4, <1>8, <1>9, <2>1, OpsObserve
  <2> QED
    BY <1>2, <2>2 DEF OpsHold
<1>13. StepInv'
  BY <1>2, IdleStep DEF Idle, Places, Turning, Checking
<1>14. Succeeded' /\ Ready
  BY <1>2, <1>8 DEF Succeeded, SuccessIsProven, NoRejectedSuccess, Ready
<1> QED
  BY <1>10, <1>11, <1>12, <1>13, <1>14 DEF Safe, RouteInv

(***************************************************************************)
(* An agent call.                                                          *)
(***************************************************************************)
LEMMA ReviewSurprisedSafe ==
  ASSUME RouteInv, ReviewSurprised
  PROVE  Safe
BY RefuseSafe DEF ReviewSurprised, Refuse

LEMMA TurningIs ==
  ASSUME RouteInv, pc \in Turning
  PROVE  /\ step.op \in Ids(run) /\ step.op \in 1 .. Len(run.ops) /\ step.op \in Nat
         /\ step.kind = run.ops[step.op].kind /\ step.kind \in AgentKinds
         /\ ~IsAnswered(run, step.op)
         /\ step.kind = "review" => Reviewing(run, step.op) /\ Pending = {}
  BY Known DEF StepInv, Ids

LEMMA ReplaySafe ==
  ASSUME RouteInv, Replay
  PROVE  Safe
<1>1. /\ pc = "call" /\ run.status = "active" /\ receipts[step.op] # NoAnswer
      /\ receipts' = receipts /\ UNCHANGED <<world, resumes, history>>
  BY DEF Replay, At
<1>2. CASE /\ receipts[step.op].basis = run.basis
           /\ pc' = "settle" /\ run' = run /\ step' = step
  <2>1. SameOps(run', run) /\ SamePlan(run', run) /\ Placed /\ pc' \in Places
    BY <1>1, <1>2 DEF SameOps, SamePlan, Placed, Places
  <2>2. StepInv'
    BY <1>1, <1>2, <2>1, Known, TurningStep DEF Turning
  <2> QED
    BY <1>1, <1>2, <2>1, <2>2, Known, Steady DEF world, history
<1>3. CASE Refuse(run)
  BY <1>1, <1>3, RefuseSafe
<1> QED
  BY <1>2, <1>3 DEF Replay

LEMMA StartTurnSafe ==
  ASSUME RouteInv, StartTurn
  PROVE  Safe
<1> DEFINE round == run.ops[step.op].attempt = "none" /\ step.kind = "review"
           a == Attempt(run, step.op, "open")
<1>1. /\ pc = "call" /\ run.status = "active" /\ receipts' = receipts
      /\ UNCHANGED <<world, resumes, history>> /\ Undisturbed
      /\ run \in Runs /\ ws \in Contents /\ changes \in Nat
  BY Known DEF StartTurn, At
<1>2. /\ step.op \in 1 .. Len(run.ops)
      /\ step.kind = "review" => ws = run.current.content
  BY <1>1, TurningIs DEF Turning, Undisturbed, WorkspaceChanged
<1>3. CASE /\ round => RoundLeft
           /\ run' = [a EXCEPT !.rounds = IF round THEN @ + 1 ELSE @]
           /\ pc' = "turn" /\ step' = step
  <2>1. /\ a \in Runs /\ SameOps(a, run) /\ SamePlan(a, run) /\ a.status = run.status
        /\ a.rounds = run.rounds
    BY <1>1, <1>2, AttemptDoes DEF Attempts
  <2> HIDE DEF a
  <2>2. PICK n \in 0 .. ReviewLimit : run' = [a EXCEPT !.rounds = n]
    <3>1. run.rounds \in 0 .. ReviewLimit /\ ReviewLimit \in Nat
      BY <1>1, RouteAssumption DEF Runs
    <3>2. (IF round THEN a.rounds + 1 ELSE a.rounds) \in 0 .. ReviewLimit
      BY <1>3, <2>1, <3>1 DEF RoundLeft
    <3>3. run' = [a EXCEPT !.rounds = IF round THEN a.rounds + 1 ELSE a.rounds]
      BY <1>3
    <3> QED
      BY <3>2, <3>3
  <2>3. run' \in Runs /\ SameOps(run', a) /\ SamePlan(run', a) /\ run'.status = a.status
    <3>1. "paused" \in Statuses
      BY DEF Statuses
    <3> QED
      BY <2>1, <2>2, <3>1, StatusDoes
  <2>4. SameOps(run', run) /\ SamePlan(run', run)
    BY <2>1, <2>3, SameOpsChain
  <2>5. StepInv'
    BY <1>1, <1>2, <1>3, <2>3, <2>4, TurningStep DEF Turning, world
  <2>6. Placed /\ pc' \in Places
    BY <1>1, <1>3, <2>1, <2>3 DEF Placed, Places
  <2> QED
    BY <1>1, <1>3, <2>3, <2>4, <2>5, <2>6, Known, Steady DEF world, history
<1>4. CASE Pauses([Paused(run) EXCEPT !.limit = TRUE], "paused")
  <2>1. 0 \in 0 .. ReviewLimit /\ "paused" \in Statuses
    BY RouteAssumption DEF Statuses
  <2>2. /\ Paused(run) \in Runs /\ Paused(run).status = "paused"
        /\ SameOps(Paused(run), run) /\ SamePlan(Paused(run), run)
    BY <1>1, <2>1, StatusDoes DEF Paused
  <2>3. run' = [Paused(run) EXCEPT !.limit = TRUE] /\ pc' = "paused" /\ step' = NoStep
    BY <1>4 DEF Pauses
  <2>4. /\ run' \in Runs /\ run'.status = "paused"
        /\ SameOps(run', Paused(run)) /\ SamePlan(run', Paused(run))
    BY <2>1, <2>2, <2>3, StatusDoes
  <2>5. SameOps(run', run) /\ SamePlan(run', run)
    BY <2>2, <2>4, SameOpsChain
  <2> QED
    BY <1>1, <2>3, <2>4, <2>5, PauseSafe DEF world, history
<1>5. CASE Refuse(run)
  BY <1>1, <1>5, RefuseSafe
<1> QED
  BY <1>3, <1>4, <1>5 DEF StartTurn, Refuse

\* An answer is published for the operation at hand.
LEMMA SaysSafe ==
  ASSUME RouteInv, At("turn"), NEW kind \in Answerable, NEW first \in Nat,
         NEW count \in 0 .. MaxTasks, Says(kind, first, count),
         kind \in AnswersTo(step.kind) \ {"none"},
         ws' \in Contents, changes' \in Nat, step.kind = "review" => ws' = ws,
         pc' = "settle", UNCHANGED <<run, inputs, step, resumes, history>>
  PROVE  Safe
<1> DEFINE n == step.op
           rec == [kind |-> kind, basis |-> run.basis, content |-> ws, first |-> first,
                   count |-> count]
<1>1. /\ Types /\ Standing /\ run \in Runs /\ OpsInv(run, receipts, inputs, proved)
      /\ receipts \in Seq(Receipts) /\ Len(receipts) = Len(run.ops) /\ inputs \in Nat
      /\ resumes \in Nat /\ step \in Steps /\ ws \in Contents /\ Len(run.ops) \in Nat
      /\ run.basis \in Nat
  BY Known
<1>2. /\ n \in Ids(run) /\ n \in 1 .. Len(run.ops) /\ step.kind = run.ops[n].kind
      /\ ~IsAnswered(run, n)
  BY TurningIs DEF At, Turning
<1>3. step.kind = "review" => ws = run.current.content
  BY Known DEF StepInv, At
<1>4. rec \in Receipts /\ rec.kind = kind /\ rec.basis = run.basis /\ rec.content = ws
  BY <1>1 DEF Receipts
<1>5. receipts' = [receipts EXCEPT ![n] = rec]
  BY DEF Says
<1> HIDE DEF rec
<1>6. receipts' \in Seq(Receipts) /\ Len(receipts') = Len(receipts) /\ receipts'[n] = rec
        /\ \A i \in Ids(run) : i # n => receipts'[i] = receipts[i]
  <2> HIDE DEF n
  <2> QED
    BY <1>1, <1>2, <1>4, <1>5, ExceptSeq DEF Ids
<1>7. /\ run' = run /\ inputs' = inputs /\ proved' = proved /\ step' = step
      /\ resumes' = resumes /\ run.status = "active" /\ pc = "turn"
  BY DEF At, history
<1>8. Types'
  BY <1>1, <1>6, <1>7 DEF Types, Places
<1>9. Standing'
  BY <1>1, <1>7 DEF Standing
<1>10. OpsHold'
  <2>1. IsReview(run, n) => receipts'[n].content = run.current.content
    BY <1>2, <1>3, <1>4, <1>6 DEF IsReview
  <2>2. receipts'[n].basis = run.basis /\ receipts'[n].kind \in AnswersTo(run.ops[n].kind) \ {"none"}
    BY <1>2, <1>4, <1>6
  <2>3. OpsInv(run, receipts', inputs, proved)
    BY <1>1, <1>2, <1>6, <2>1, <2>2, OpsSays
  <2> QED
    BY <1>7, <2>3 DEF OpsHold
<1>11. StepInv'
  <2>1. SameOps(run', run) /\ SamePlan(run', run) /\ run' \in Runs
    BY <1>1, <1>7 DEF SameOps, SamePlan
  <2>2. receipts'[n] # NoAnswer /\ receipts'[n].basis = run.basis
    BY <1>4, <1>6 DEF NoAnswer
  <2> QED
    BY <1>7, <2>1, <2>2, TurningStep DEF Turning
<1>12. Succeeded' /\ Ready
  BY <1>7 DEF Succeeded, SuccessIsProven, NoRejectedSuccess, Ready
<1> QED
  BY <1>8, <1>9, <1>10, <1>11, <1>12 DEF Safe, RouteInv

LEMMA AnswersSafe ==
  ASSUME RouteInv, Answers
  PROVE  Safe
<1>1. /\ At("turn") /\ pc' = "settle" /\ UNCHANGED <<run, inputs, step, resumes, history>>
      /\ Types /\ ws \in Contents /\ changes \in Nat /\ step.kind \in AgentKinds
  BY Known, TurningIs DEF Answers, At, Turning
<1>2. ws' \in Contents /\ changes' \in Nat /\ (step.kind = "review" => ws' = ws)
  BY <1>1 DEF Answers, MayChange
<1>3. MaxTasks \in Nat /\ 0 \in 0 .. MaxTasks /\ \A n \in 1 .. MaxTasks : n \in 0 .. MaxTasks
  BY RouteAssumption
<1>4. CASE step.kind = "extract"
  <2>1. PICK kind \in {"extracted", "blocked"}, first \in Nat, count \in 0 .. MaxTasks :
          Says(kind, first, count)
    BY <1>3, <1>4 DEF Answers
  <2>2. kind \in Answerable /\ kind \in AnswersTo(step.kind) \ {"none"}
    BY <1>4 DEF Answerable, AnswersTo
  <2> QED
    BY <1>1, <1>2, <2>1, <2>2, SaysSafe
<1>5. CASE step.kind = "select"
  <2>0. \A n \in 1 .. Cardinality(Pending) : Min(Pending) \in Nat /\ n \in 0 .. MaxTasks
    BY <1>1, PendingTasks
  <2>1. PICK kind \in {"brief", "blocked"}, first \in Nat, count \in 0 .. MaxTasks :
          Says(kind, first, count)
    BY <1>3, <1>5, <2>0 DEF Answers
  <2>2. kind \in Answerable /\ kind \in AnswersTo(step.kind) \ {"none"}
    BY <1>5 DEF Answerable, AnswersTo
  <2> QED
    BY <1>1, <1>2, <2>1, <2>2, SaysSafe
<1>6. CASE step.kind = "review"
  <2>1. PICK kind \in {"passed", "changes", "clarification", "exploration", "blocked"} :
          Says(kind, 0, 0)
    BY <1>6 DEF Answers
  <2>2. kind \in Answerable /\ kind \in AnswersTo(step.kind) \ {"none"}
    BY <1>6 DEF Answerable, AnswersTo
  <2> QED
    BY <1>1, <1>2, <1>3, <2>1, <2>2, SaysSafe
<1>7. CASE step.kind = "append"
  <2>1. PICK kind \in {"added", "clarification", "blocked"} : Says(kind, 0, 0)
    BY <1>7 DEF Answers
  <2>2. kind \in Answerable /\ kind \in AnswersTo(step.kind) \ {"none"}
    BY <1>7 DEF Answerable, AnswersTo
  <2> QED
    BY <1>1, <1>2, <1>3, <2>1, <2>2, SaysSafe
<1> QED
  BY <1>1, <1>4, <1>5, <1>6, <1>7 DEF AgentKinds

LEMMA TurnEndsSafe ==
  ASSUME RouteInv, TurnEnds
  PROVE  Safe
<1>1. /\ pc = "turn" /\ run' = Attempt(Paused(run), step.op, "failed") /\ pc' = "paused"
      /\ step' = NoStep /\ UNCHANGED <<receipts, inputs, resumes, history>>
  BY DEF TurnEnds, At, Pauses
<1>2. run \in Runs /\ ws \in Contents /\ changes \in Nat /\ step.op \in 1 .. Len(run.ops)
  BY <1>1, Known, TurningIs DEF Turning
<1>3. ws' \in Contents /\ changes' \in Nat
  BY <1>2 DEF TurnEnds, MayChange
<1>4. 0 \in 0 .. ReviewLimit /\ "paused" \in Statuses /\ "failed" \in Attempts
  BY RouteAssumption DEF Statuses, Attempts
<1>5. /\ Paused(run) \in Runs /\ Paused(run).status = "paused"
      /\ SameOps(Paused(run), run) /\ SamePlan(Paused(run), run)
  BY <1>2, <1>4, StatusDoes DEF Paused
<1>6. Len(Paused(run).ops) = Len(run.ops)
  BY <1>5 DEF SameOps
<1>7. /\ run' \in Runs /\ run'.status = "paused"
      /\ SameOps(run', Paused(run)) /\ SamePlan(run', Paused(run))
  BY <1>1, <1>2, <1>4, <1>5, <1>6, AttemptDoes
<1>8. SameOps(run', run) /\ SamePlan(run', run)
  BY <1>5, <1>7, SameOpsChain
<1> QED
  BY <1>1, <1>3, <1>7, <1>8, PauseSafe DEF history

LEMMA SettleSafe ==
  ASSUME RouteInv, Settle
  PROVE  Safe
<1>1. /\ pc = "settle" /\ run.status = "active" /\ run' = Attempt(run, step.op, "succeeded")
      /\ pc' = "answer" /\ UNCHANGED <<receipts, world, step, resumes, history>>
  BY DEF Settle, At
<1>2. run \in Runs /\ step.op \in 1 .. Len(run.ops) /\ "succeeded" \in Attempts
  BY <1>1, Known, TurningIs DEF Turning, Attempts
<1>3. /\ run' \in Runs /\ run'.status = run.status /\ SameOps(run', run) /\ SamePlan(run', run)
  BY <1>1, <1>2, AttemptDoes
<1>4. receipts[step.op] # NoAnswer /\ receipts[step.op].basis = run.basis
  BY <1>1, Known DEF StepInv
<1>5. StepInv'
  BY <1>1, <1>3, <1>4, TurningStep DEF Turning
<1>6. Placed /\ pc' \in Places
  BY <1>1, <1>3 DEF Placed, Places
<1> QED
  BY <1>1, <1>3, <1>5, <1>6, Known, Steady DEF world, history

(***************************************************************************)
(* What the controller does with an answer.                                *)
(***************************************************************************)
LEMMA BlockedSafe ==
  ASSUME RouteInv, Blocked
  PROVE  Safe
BY RefuseSafe DEF Blocked, Refuse

LEMMA GivesReviewing ==
  ASSUME NEW r \in Runs, NEW s \in Runs, NEW k \in Ids(r), NEW status, NEW answer,
         Gives(s, r, k, status, answer), Reviewing(r, k)
  PROVE  Reviewing(s, k) /\ Ids(s) = Ids(r)
<1>1. Ids(s) = Ids(r) /\ \A i \in Ids(r) : s.ops[i].kind = r.ops[i].kind
  BY DEF Gives, Ids
<1>2. PICK c \in Ids(r) : Accepted(r, c) /\ c < k
  BY DEF Reviewing
<1>3. c # k
  BY <1>2 DEF Reviewing, IsReview, Accepted, PassedCheck
<1>4. Accepted(s, c)
  BY <1>1, <1>2, <1>3 DEF Accepted, PassedCheck, Last, Gives
<1> QED
  BY <1>1, <1>2, <1>4 DEF Reviewing, IsReview, Last

LEMMA SpentIs ==
  ASSUME RouteInv, pc = "answer", Spent
  PROVE  /\ receipts' \in Seq(Receipts) /\ Len(receipts') = Len(receipts)
         /\ \A i \in Ids(run) : i # step.op => receipts'[i] = receipts[i]
         /\ receipts'[step.op] = receipts[step.op] \/ receipts'[step.op] = NoAnswer
         /\ receipts[step.op].kind = "passed" => receipts'[step.op].kind = "passed"
<1> DEFINE n == step.op
           a == IF receipts[n].kind = "passed" THEN receipts[n] ELSE NoAnswer
<1>1. /\ n \in Ids(run) /\ receipts \in Seq(Receipts) /\ n \in 1 .. Len(receipts)
      /\ Ids(run) = 1 .. Len(receipts)
  BY Known, TurningIs DEF Turning, Ids
<1>2. NoAnswer \in Receipts
  BY StateTypes, RouteAssumption DEF NoAnswer, Receipts, Answerable
<1>3. a \in Receipts
  BY <1>1, <1>2, Known
<1>4. receipts' = [receipts EXCEPT ![n] = a]
  BY DEF Spent
<1>5. a = receipts[n] \/ a = NoAnswer
  OBVIOUS
<1>6. receipts[n].kind = "passed" => a.kind = "passed"
  OBVIOUS
<1> HIDE DEF a, n
<1>7. /\ receipts' \in Seq(Receipts) /\ Len(receipts') = Len(receipts)
      /\ \A i \in Ids(run) : receipts'[i] = IF i = n THEN a ELSE receipts[i]
  BY <1>1, <1>3, <1>4, ExceptSeq
<1> QED
  BY <1>1, <1>5, <1>6, <1>7 DEF n

LEMMA ResultSafe ==
  ASSUME RouteInv, At("answer"), NEW status \in {"succeeded", "failed"},
         NEW answer \in Answerable,
         run' \in Runs, Gives(run', run, step.op, status, answer),
         run'.baseline = run.baseline, run'.selected = run.selected, Len(run'.tasks) <= MaxTasks,
         answer = "changes" => step.kind = "review",
         step.kind = "review" => /\ answer \in AnswersTo("review") \ {"none", "blocked"}
                                 /\ answer = "passed" => receipts'[step.op].kind = "passed",
         Spent \/ receipts' = receipts,
         UNCHANGED <<world, resumes, history>>, step' \in Steps, pc' \in Places, Placed, StepInv'
  PROVE  Safe
<1> DEFINE n == step.op
<1>1. /\ Types /\ Standing /\ run \in Runs /\ OpsInv(run, receipts, inputs, proved)
      /\ receipts \in Seq(Receipts) /\ Len(receipts) = Len(run.ops) /\ inputs \in Nat
      /\ resumes \in Nat /\ ws \in Contents /\ changes \in Nat
  BY Known
<1>2. /\ n \in Ids(run) /\ step.kind = run.ops[n].kind /\ step.kind \in AgentKinds
      /\ ~IsAnswered(run, n) /\ (step.kind = "review" => Reviewing(run, n))
  BY TurningIs DEF At, Turning
<1>3. /\ receipts' \in Seq(Receipts) /\ Len(receipts') = Len(receipts)
      /\ \A i \in Ids(run) : i # n => receipts'[i] = receipts[i]
      /\ receipts'[n] = receipts[n] \/ receipts'[n] = NoAnswer
  BY <1>1, SpentIs DEF At
<1>4. /\ ws' = ws /\ changes' = changes /\ inputs' = inputs /\ resumes' = resumes
      /\ proved' = proved
  BY DEF world, history
<1>5. Types'
  BY <1>1, <1>3, <1>4 DEF Types, Gives
<1>6. Standing'
  <2>1. run'.basis = run.basis /\ run'.current = run.current
    BY DEF Gives
  <2>2. /\ pc' = "paused" <=> run'.status = "paused"
        /\ pc' = "ended" <=> run'.status \in {"closed", "succeeded"}
        /\ run'.status = "active" => run.status = "active"
    BY DEF Placed
  <2> QED
    BY <1>1, <1>4, <2>1, <2>2 DEF Standing
<1>7. OpsHold'
  <2>1. MayGive(run, n, answer, receipts')
    BY <1>2 DEF IsReview, MayGive
  <2>2. Gives(run', run, n, status, answer)
    OBVIOUS
  <2>3. run \in Runs /\ inputs \in Nat /\ n \in Ids(run)
          /\ OpsInv(run, receipts, inputs, proved)
    BY <1>1, <1>2
  <2>4. \A i \in Ids(run) : i # n => receipts'[i] = receipts[i]
    BY <1>3
  <2>5. receipts'[n] = receipts[n] \/ receipts'[n] = NoAnswer
    BY <1>3
  <2> HIDE DEF n
  <2>6. OpsInv(run', receipts', inputs, proved)
    BY SMTT(60), <2>1, <2>2, <2>3, <2>4, <2>5, OpsResult
  <2> QED
    BY <1>4, <2>6 DEF OpsHold
<1>8. Succeeded' /\ Ready
  BY DEF Placed, Succeeded, SuccessIsProven, NoRejectedSuccess, Ready
<1> QED
  BY <1>5, <1>6, <1>7, <1>8 DEF Safe, RouteInv

LEMMA AnswerIs ==
  ASSUME RouteInv, pc = "answer"
  PROVE  /\ step.op \in Ids(run) /\ step.op \in 1 .. Len(run.ops)
         /\ step.kind = run.ops[step.op].kind /\ step.kind \in AgentKinds
         /\ step.kind = "review" => Reviewing(run, step.op) /\ Pending = {}
         /\ receipts[step.op] \in Receipts
         /\ receipts[step.op].kind \in AnswersTo(step.kind) \ {"none"}
<1>1. /\ step.op \in Ids(run) /\ step.op \in 1 .. Len(run.ops)
      /\ step.kind = run.ops[step.op].kind /\ step.kind \in AgentKinds
      /\ step.kind = "review" => Reviewing(run, step.op) /\ Pending = {}
  BY TurningIs DEF Turning
<1>2. receipts[step.op] # NoAnswer /\ OpsInv(run, receipts, inputs, proved)
        /\ receipts[step.op] \in Receipts
  BY <1>1, Known DEF StepInv
<1> QED
  BY <1>1, <1>2 DEF OpsInv, Bases

LEMMA ResultGives ==
  ASSUME NEW r \in Runs, NEW k \in Ids(r), NEW status \in {"succeeded", "failed"},
         NEW answer \in Answerable
  PROVE  LET c == Result(r, k, status, answer, r.current) IN
         /\ c \in Runs /\ Gives(c, r, k, status, answer) /\ SamePlan(c, r)
         /\ c.status = r.status
<1> DEFINE c == Result(r, k, status, answer, r.current)
<1>1. r.current \in StateType /\ k \in 1 .. Len(r.ops)
  BY OpsOf DEF Ids
<1>2. /\ c \in Runs /\ c.current = r.current /\ c.basis = r.basis
      /\ c.status = r.status /\ SamePlan(c, r)
      /\ Len(c.ops) = Len(r.ops)
      /\ c.ops[k].kind = r.ops[k].kind /\ c.ops[k].basis = r.ops[k].basis
      /\ c.ops[k].result.status = status /\ c.ops[k].result.state = r.current
      /\ c.ops[k].result.answer = answer
      /\ \A i \in 1 .. Len(r.ops) : i # k => c.ops[i] = r.ops[i]
  BY SMTT(30), <1>1, ResultDoes
<1> HIDE DEF c
<1>3. Gives(c, r, k, status, answer)
  BY <1>2 DEF Gives, Ids
<1> QED
  BY <1>2, <1>3 DEF c

LEMMA RecordExtractionSafe ==
  ASSUME RouteInv, RecordExtraction
  PROVE  Safe
<1> DEFINE a == receipts[step.op]
           c == Result(run, step.op, "succeeded", "extracted", run.current)
           ts == ExtractedTasks(a)
<1>1. /\ pc = "answer" /\ run.status = "active" /\ a.kind = "extracted" /\ Spent
      /\ UNCHANGED <<world, resumes, history>> /\ pc' = "dispatch" /\ step' = NoStep
      /\ run' = [c EXCEPT !.extraction = FALSE, !.tasks = ts]
  BY DEF RecordExtraction, Answer, At, Ends
<1>2. /\ run \in Runs /\ step.op \in Ids(run) /\ a \in Receipts
      /\ a.kind \in AnswersTo(step.kind) /\ step.kind \in AgentKinds
  BY <1>1, Known, AnswerIs
<1>3. step.kind # "review"
  BY <1>1, <1>2 DEF AnswersTo
<1>4. "extracted" \in Answerable
  BY DEF Answerable
<1>5. /\ c \in Runs /\ Gives(c, run, step.op, "succeeded", "extracted") /\ SamePlan(c, run)
      /\ c.status = run.status
  BY <1>2, <1>4, ResultGives
<1>6. ts \in Seq(Tasks) /\ Len(ts) <= MaxTasks
  <2> DEFINE n == a.count
  <2>1. n \in Nat /\ n <= MaxTasks
    BY <1>2, RouteAssumption DEF Receipts
  <2>2. ts = [t \in 1 .. n |-> [done |-> FALSE, answers |-> 0]]
    BY DEF ExtractedTasks
  <2> HIDE DEF n, ts
  <2>3. ts \in [1 .. n -> Tasks]
    BY <2>2 DEF Tasks
  <2>4. ts \in Seq(Tasks)
    BY <2>1, <2>3, SeqDef
  <2> QED
    BY <2>1, <2>3, <2>4, LenProperties
<1> HIDE DEF ts, c
<1>7. /\ run' \in Runs /\ run'.ops = c.ops /\ run'.current = c.current /\ run'.basis = c.basis
      /\ run'.status = run.status /\ run'.tasks = ts
      /\ run'.baseline = run.baseline /\ run'.selected = run.selected
  BY <1>1, <1>5, <1>6 DEF Runs, SamePlan
<1>8. Gives(run', run, step.op, "succeeded", "extracted")
  BY <1>5, <1>7 DEF Gives
<1>9. step' \in Steps /\ pc' \in Places /\ Placed /\ pc' \in Idle
  BY <1>1, <1>7, Known, NoStepTypes DEF Places, Placed, Idle, Turning, Checking, AgentKinds
<1>10. StepInv'
  BY <1>9, IdleStep
<1> QED
  BY <1>1, <1>3, <1>4, <1>6, <1>7, <1>8, <1>9, <1>10, ResultSafe DEF At

\* An assignment starts on a baseline of the inputs in force.
LEMMA StartAssignmentSafe ==
  ASSUME RouteInv, StartAssignment
  PROVE  Safe
<1> DEFINE n == receipts[step.op].count
<1>1. /\ pc = "answer" /\ run.status = "active" /\ receipts' = receipts
      /\ UNCHANGED <<world, resumes, proved>>
  BY DEF StartAssignment, Answer, At
<1>2. CASE Refuse(run) /\ consumed' = consumed
  BY <1>1, <1>2, RefuseSafe DEF history
<1>3. CASE HasCurrentBaseline /\ Ends([run EXCEPT !.selected = n], "dispatch")
  <2>1. /\ Types /\ Standing /\ run \in Runs /\ OpsInv(run, receipts, inputs, proved)
        /\ inputs \in Nat
    BY Known
  <2>2. /\ run' = [run EXCEPT !.selected = n] /\ pc' = "dispatch" /\ step' = NoStep
        /\ ws' = ws /\ changes' = changes /\ inputs' = inputs /\ resumes' = resumes
        /\ proved' = proved
    BY <1>1, <1>3 DEF Ends, world
  <2>3. n \in 0 .. MaxTasks
    BY <1>1, AnswerIs DEF Receipts
  <2> HIDE DEF n
  <2>4. /\ run' \in Runs /\ run'.status = run.status /\ run'.basis = run.basis
        /\ run'.ops = run.ops /\ run'.current = run.current /\ run'.tasks = run.tasks
        /\ run'.baseline = run.baseline /\ SameOps(run', run)
    BY <2>1, <2>2, <2>3 DEF Runs, SameOps
  <2>5. step' \in Steps
    BY <2>2, Known, NoStepTypes DEF AgentKinds
  <2>6. Types'
    BY <1>1, <2>1, <2>2, <2>4, <2>5 DEF Types, Places
  <2>7. Standing'
    BY <1>1, <2>1, <2>2, <2>4 DEF Standing
  <2>8. OpsHold'
    <3>1. OpsInv(run', receipts, inputs, proved)
      BY <2>1, <2>4, OpsSteady
    <3> QED
      BY <1>1, <2>2, <3>1 DEF OpsHold
  <2>9. StepInv'
    BY <2>2, IdleStep DEF Idle, Places, Turning, Checking
  <2>10. Succeeded'
    BY <1>1, <2>4 DEF Succeeded, SuccessIsProven, NoRejectedSuccess
  <2>11. proved # {}
    BY <1>1, <1>3, <2>1 DEF Standing, HasCurrentBaseline
  <2> QED
    BY <2>6, <2>7, <2>8, <2>9, <2>10, <2>11 DEF Safe, RouteInv, Ready
<1> QED
  BY <1>2, <1>3 DEF StartAssignment

\* An approval leads to the acceptance, anything else back to the dispatch or
\* to an end of the continuation.
LEMMA RecordFinalReviewSafe ==
  ASSUME RouteInv, RecordFinalReview
  PROVE  Safe
<1> DEFINE answer == receipts[step.op].kind
           status == IF answer \in {"passed", "exploration"} THEN "succeeded" ELSE "failed"
<1>1. /\ pc = "answer" /\ run.status = "active" /\ step.kind = "review" /\ answer # "blocked"
      /\ Spent /\ UNCHANGED <<world, resumes, history>> /\ step' = NoStep
      /\ run' = Result(run, step.op, status, answer, run.current)
      /\ pc' = [passed |-> "complete", changes |-> "dispatch", exploration |-> "unrouted",
                clarification |-> "question"][answer]
  BY DEF RecordFinalReview, At, Ends
<1>2. /\ run \in Runs /\ step.op \in Ids(run) /\ answer \in AnswersTo("review") \ {"none"}
      /\ Reviewing(run, step.op) /\ Pending = {}
  BY <1>1, Known, AnswerIs
<1>3. answer \in {"passed", "changes", "exploration", "clarification"}
  BY <1>1, <1>2 DEF AnswersTo
<1>4. answer \in Answerable /\ status \in {"succeeded", "failed"}
  BY <1>3 DEF Answerable
<1>5. answer = "passed" => receipts'[step.op].kind = "passed"
  BY <1>1, SpentIs
<1> HIDE DEF answer, status
<1>6. /\ run' \in Runs /\ Gives(run', run, step.op, status, answer) /\ SamePlan(run', run)
      /\ run'.status = run.status
  BY <1>1, <1>2, <1>4, ResultGives
<1>7. /\ run'.baseline = run.baseline /\ run'.selected = run.selected
      /\ run'.tasks = run.tasks /\ Len(run'.tasks) <= MaxTasks
  BY <1>6, Known DEF SamePlan, Types
<1>8. pc' \in {"complete", "dispatch", "unrouted", "question"}
        /\ (pc' = "complete" => answer = "passed")
  BY <1>1, <1>3
<1>9. StepInv'
  <2>1. CASE pc' # "complete"
    BY <1>8, <2>1, IdleStep DEF Idle, Places, Turning, Checking
  <2>2. CASE pc' = "complete"
    <3>1. Pending' = {}
      BY <1>2, <1>7 DEF Pending
    <3>2. Reviewing(run', step.op) /\ step.op \in Ids(run')
      BY <1>2, <1>6, GivesReviewing
    <3>3. run'.ops[step.op].result.answer = "passed"
      BY <1>6, <1>8, <2>2 DEF Gives
    <3> QED
      BY <2>2, <3>1, <3>2, <3>3 DEF StepInv, Turning, Checking
  <2> QED
    BY <2>1, <2>2
<1>10. step' \in Steps /\ pc' \in Places /\ Placed
  BY <1>1, <1>6, <1>8, Known, NoStepTypes DEF Places, Placed, AgentKinds
<1>11. answer \in AnswersTo("review") \ {"none", "blocked"}
  BY <1>3 DEF AnswersTo
<1> QED
  BY <1>1, <1>4, <1>5, <1>6, <1>7, <1>9, <1>10, <1>11, ResultSafe DEF At

LEMMA NoExplorerSafe ==
  ASSUME RouteInv, NoExplorer
  PROVE  Safe
BY RefuseSafe DEF NoExplorer

LEMMA CloseForQuestionSafe ==
  ASSUME RouteInv, CloseForQuestion
  PROVE  Safe
<1>1. /\ run' = [run EXCEPT !.status = "closed"] /\ pc' = "ended" /\ step' = NoStep
      /\ receipts' = receipts /\ UNCHANGED <<world, resumes, history>>
  BY DEF CloseForQuestion, Pauses
<1>2. "closed" \in Statuses /\ 0 \in 0 .. ReviewLimit
  BY RouteAssumption DEF Statuses
<1>3. /\ run' \in Runs /\ run'.status = "closed" /\ SameOps(run', run) /\ SamePlan(run', run)
  BY <1>1, <1>2, Known, StatusDoes
<1>4. step' \in Steps /\ Placed /\ pc' \in Places /\ pc' \in Idle
  BY <1>1, <1>3, Known, NoStepTypes DEF Placed, Places, Idle, Turning, Checking, AgentKinds
<1>5. StepInv'
  BY <1>4, IdleStep
<1> QED
  BY <1>1, <1>3, <1>4, <1>5, Known, Steady DEF world, history

\* The run succeeds on what the last final check and the review after it saw.
LEMMA CompleteFinalAcceptanceSafe ==
  ASSUME RouteInv, CompleteFinalAcceptance
  PROVE  Safe
<1>1. /\ pc = "complete" /\ run.status = "active" /\ ws = run.current.content
      /\ run' = [run EXCEPT !.status = "succeeded"] /\ pc' = "ended" /\ step' = NoStep
      /\ receipts' = receipts /\ ws' = ws /\ changes' = changes /\ inputs' = inputs
      /\ resumes' = resumes /\ proved' = proved
  BY DEF CompleteFinalAcceptance, At, WorkspaceChanged, Pauses, world, history
<1>2. /\ Types /\ Standing /\ StepInv /\ run \in Runs /\ Ids(run) \subseteq Nat
      /\ OpsInv(run, receipts, inputs, proved) /\ inputs \in Nat /\ run.basis \in Nat
      /\ \A i \in Ids(run) : receipts[i].basis \in Nat
  BY Known
<1>3. /\ run' \in Runs /\ run'.status = "succeeded" /\ SameOps(run', run) /\ SamePlan(run', run)
      /\ run'.ops = run.ops /\ run'.current = run.current /\ run'.tasks = run.tasks
      /\ run'.basis = run.basis /\ run'.baseline = run.baseline
  <2>1. "succeeded" \in Statuses /\ 0 \in 0 .. ReviewLimit
    BY RouteAssumption DEF Statuses
  <2>2. run' \in Runs /\ run'.status = "succeeded" /\ SameOps(run', run) /\ SamePlan(run', run)
    BY <1>1, <1>2, <2>1, StatusDoes
  <2> QED
    BY <1>1, <1>2, <2>2 DEF Runs
<1>4. Pending = {} /\ run.basis = inputs
  BY <1>1, <1>2 DEF StepInv, Standing
<1>5. PICK j \in Ids(run) : Reviewing(run, j) /\ run.ops[j].result.answer = "passed"
  BY <1>1, <1>2 DEF StepInv
<1>6. PICK c \in Ids(run) : Accepted(run, c) /\ c < j
  BY <1>5 DEF Reviewing
<1>7. /\ PassedCheck(run, c) /\ run.ops[c].result.state = run.current
      /\ run.current.by = "final" /\ run.current.n = c
      /\ [content |-> ws, stable |-> TRUE] \in proved
  BY <1>1, <1>2, <1>4, <1>6 DEF Accepted, OpsInv, Passed
<1>8. IsReview(run, j) /\ Last(run, j) /\ IsAnswered(run, j)
  BY <1>5, StateTypes DEF Reviewing, IsAnswered
<1>9. /\ run.ops[j].result.state = run.current /\ receipts[j].kind = "passed"
      /\ \A k \in Ids(run) : IsReview(run, k) /\ c < k /\ k < j
                             => run.ops[k].result.answer = "exploration"
      /\ receipts[j] # NoAnswer => receipts[j].content = ws
  BY <1>1, <1>2, <1>5, <1>6, <1>7, <1>8 DEF OpsInv, Reviews
<1>10. receipts[j] # NoAnswer
  BY <1>9 DEF NoAnswer
<1>11. receipts[j].basis = inputs
  <2>1. run.ops[c].basis = inputs
    BY <1>4, <1>6 DEF Accepted
  <2>2. run.ops[c].basis <= run.ops[j].basis
    BY <1>2, <1>6 DEF OpsInv, Bases
  <2>3. run.ops[j].basis <= receipts[j].basis /\ receipts[j].basis <= run.basis
    BY <1>2, <1>10 DEF OpsInv, Bases
  <2>4. run.ops[j].basis \in Nat /\ receipts[j].basis \in Nat
    BY <1>2, OpsOf DEF Ids
  <2> QED
    BY <1>2, <1>4, <2>1, <2>2, <2>3, <2>4
<1>12. DOMAIN run.ops = Ids(run)
  BY <1>2, OpsOf DEF Ids
<1>13. SuccessIsProven'
  <2>1. Pending' = {}
    BY <1>3, <1>4 DEF Pending
  <2>2. /\ c < j /\ run.ops[c].kind = "final" /\ run.ops[j].kind = "review"
        /\ receipts[j].content = ws
    BY <1>6, <1>7, <1>8, <1>9, <1>10 DEF PassedCheck, IsReview
  <2> QED
    BY <1>1, <1>3, <1>7, <1>9, <1>11, <1>12, <2>1, <2>2 DEF SuccessIsProven, Ops
<1>14. NoRejectedSuccess'
  <2> SUFFICES ASSUME NEW i \in Ids(run), run.ops[i].result.answer = "changes",
                      run.ops[i].result.state = run.current
               PROVE  FALSE
    BY <1>3, <1>12 DEF NoRejectedSuccess, Ops
  <2>1. IsReview(run, i) /\ (run.current = NoState \/ run.current.n < i)
    BY <1>2 DEF OpsInv, ResultStates
  <2>2. c < i
    BY <1>7, <2>1, StateTypes
  <2>3. i <= j /\ i # j
    BY <1>5, <1>8, <2>1 DEF Last, IsReview
  <2>4. i < j
    BY <1>2, <2>3
  <2> QED
    BY <1>9, <2>1, <2>2, <2>4
<1>15. Types'
  <2>1. step' \in Steps
    BY <1>1, <1>2, Known, NoStepTypes DEF AgentKinds
  <2>2. Len(run'.ops) = Len(run.ops) /\ pc' \in Places
    BY <1>1, <1>3 DEF Places
  <2> QED
    BY <1>1, <1>2, <1>3, <2>1, <2>2 DEF Types
<1>16. Standing'
  BY <1>1, <1>2, <1>3 DEF Standing
<1>17. OpsHold'
  <2>1. OpsInv(run', receipts, inputs, proved)
    BY <1>2, <1>3, OpsSteady
  <2> QED
    BY <1>1, <2>1 DEF OpsHold
<1>18. StepInv'
  BY <1>1, IdleStep DEF Idle, Places, Turning, Checking
<1> QED
  BY <1>3, <1>13, <1>14, <1>15, <1>16, <1>17, <1>18
  DEF Safe, RouteInv, Succeeded, Ready, SamePlan

\* The findings of the last final review become tasks.
LEMMA AppendTasksSafe ==
  ASSUME RouteInv, AppendTasks
  PROVE  Safe
<1> DEFINE c == Result(run, step.op, "succeeded", "added", run.current)
           ts == Append(c.tasks, FindingTask)
<1>1. /\ pc = "answer" /\ run.status = "active" /\ receipts[step.op].kind = "added"
      /\ UNCHANGED <<world, resumes, history>>
  BY DEF AppendTasks, Answer, At
<1>2. CASE Refuse(run) /\ receipts' = receipts
  BY <1>1, <1>2, RefuseSafe
<1>3. CASE Len(run.tasks) # MaxTasks /\ Ends([c EXCEPT !.tasks = ts], "dispatch") /\ Spent
  <2>1. /\ run \in Runs /\ step.op \in Ids(run) /\ Types /\ step.kind \in AgentKinds
        /\ receipts[step.op].kind \in AnswersTo(step.kind)
    BY <1>1, Known, AnswerIs
  <2>2. step.kind # "review"
    BY <1>1, <2>1 DEF AnswersTo
  <2>3. "added" \in Answerable
    BY DEF Answerable
  <2>4. /\ c \in Runs /\ Gives(c, run, step.op, "succeeded", "added") /\ SamePlan(c, run)
        /\ c.status = run.status
    BY <2>1, <2>3, ResultGives
  <2>5. run' = [c EXCEPT !.tasks = ts] /\ pc' = "dispatch" /\ step' = NoStep
    BY <1>3 DEF Ends
  <2> HIDE DEF c
  <2>6. FindingTask \in Tasks
    BY <2>1, FinalReviewIs DEF FindingTask, Tasks
  <2>7. ts \in Seq(Tasks) /\ Len(ts) <= MaxTasks
    <3>1. c.tasks \in Seq(Tasks) /\ c.tasks = run.tasks
      BY <2>4 DEF Runs, SamePlan
    <3>2. Len(run.tasks) <= MaxTasks /\ Len(run.tasks) \in Nat
      BY <2>1, <3>1, LenProperties DEF Types
    <3>3. ts \in Seq(Tasks) /\ Len(ts) = Len(c.tasks) + 1
      BY <2>6, <3>1, AppendProperties
    <3> QED
      BY <1>3, <3>1, <3>2, <3>3, RouteAssumption
  <2> HIDE DEF ts
  <2>8. /\ run' \in Runs /\ run'.ops = c.ops /\ run'.current = c.current /\ run'.basis = c.basis
        /\ run'.status = run.status /\ run'.tasks = ts
        /\ run'.baseline = run.baseline /\ run'.selected = run.selected
    BY <2>4, <2>5, <2>7 DEF Runs, SamePlan
  <2>9. Gives(run', run, step.op, "succeeded", "added")
    BY <2>4, <2>8 DEF Gives
  <2>10. step' \in Steps /\ pc' \in Places /\ Placed /\ pc' \in Idle
    BY <1>1, <2>5, <2>8, Known, NoStepTypes
    DEF Places, Placed, Idle, Turning, Checking, AgentKinds
  <2>11. StepInv'
    BY <2>10, IdleStep
  <2> QED
    BY <1>1, <1>3, <2>2, <2>3, <2>7, <2>8, <2>9, <2>10, <2>11, ResultSafe DEF At
<1> QED
  BY <1>2, <1>3 DEF AppendTasks

LEMMA AppendQuestionSafe ==
  ASSUME RouteInv, AppendQuestion
  PROVE  Safe
<1> DEFINE c == Result(run, step.op, "succeeded", "clarification", run.current)
<1>1. /\ pc = "answer" /\ run.status = "active" /\ step.kind = "append"
      /\ UNCHANGED <<world, resumes, history>> /\ receipts' = receipts
      /\ run' = [c EXCEPT !.status = "closed"] /\ pc' = "ended" /\ step' = NoStep
  BY DEF AppendQuestion, Answer, At, Ends
<1>2. /\ run \in Runs /\ step.op \in Ids(run) /\ Types
  BY <1>1, Known, AnswerIs
<1>3. "clarification" \in Answerable
  BY DEF Answerable
<1>4. /\ c \in Runs /\ Gives(c, run, step.op, "succeeded", "clarification") /\ SamePlan(c, run)
  BY <1>2, <1>3, ResultGives
<1> HIDE DEF c
<1>5. /\ run' \in Runs /\ run'.ops = c.ops /\ run'.current = c.current /\ run'.basis = c.basis
      /\ run'.status = "closed" /\ run'.tasks = run.tasks
      /\ run'.baseline = run.baseline /\ run'.selected = run.selected
  BY <1>1, <1>4 DEF Runs, SamePlan, Statuses
<1>6. Gives(run', run, step.op, "succeeded", "clarification")
  BY <1>4, <1>5 DEF Gives
<1>7. step' \in Steps /\ pc' \in Places /\ Placed /\ pc' \in Idle
  BY <1>1, <1>5, Known, NoStepTypes DEF Places, Placed, Idle, Turning, Checking, AgentKinds
<1>8. StepInv'
  BY <1>7, IdleStep
<1>9. Len(run'.tasks) <= MaxTasks
  BY <1>2, <1>5 DEF Types
<1> QED
  BY <1>1, <1>3, <1>5, <1>6, <1>7, <1>8, <1>9, ResultSafe DEF At

(***************************************************************************)
(* The check sets.                                                         *)
(***************************************************************************)
LEMMA CheckingIs ==
  ASSUME RouteInv, pc \in Checking
  PROVE  /\ step.op \in Ids(run) /\ step.op \in 1 .. Len(run.ops) /\ step.op \in Nat
         /\ step.kind = run.ops[step.op].kind /\ step.kind \in CheckKinds
         /\ ~IsAnswered(run, step.op) /\ Last(run, step.op)
         /\ pc \in {"outcome", "result"} => Found(step, run, proved)
  BY Known DEF StepInv, Ids, Found

LEMMA ReserveChecksSafe ==
  ASSUME RouteInv, ReserveChecks
  PROVE  Safe
<1>1. /\ pc = "reserve" /\ run.status = "active" /\ run' = Attempt(run, step.op, "open")
      /\ pc' = "set" /\ UNCHANGED <<receipts, world, step, resumes, history>>
  BY DEF ReserveChecks, At
<1>2. run \in Runs /\ step.op \in 1 .. Len(run.ops) /\ "open" \in Attempts
  BY <1>1, Known, CheckingIs DEF Checking, Attempts
<1>3. /\ run' \in Runs /\ run'.status = run.status /\ SameOps(run', run) /\ SamePlan(run', run)
  BY <1>1, <1>2, AttemptDoes
<1>4. StepInv'
  BY <1>1, <1>3, CheckingStep DEF Checking
<1>5. Placed /\ pc' \in Places
  BY <1>1, <1>3 DEF Placed, Places
<1> QED
  BY <1>1, <1>3, <1>4, <1>5, Known, Steady DEF world, history

\* One cycle: a set that passes without changing files proves what it saw.
LEMMA RunCycleSafe ==
  ASSUME RouteInv, RunCycle
  PROVE  Safe
<1>1. /\ pc = "set" /\ run.status = "active" /\ run' = run /\ receipts' = receipts
      /\ inputs' = inputs /\ resumes' = resumes
  BY DEF RunCycle, At
<1>2. PICK status \in {"passed", "failed", "blocked"} :
        /\ IF status = "blocked" THEN UNCHANGED <<ws, changes>> ELSE MayChange
        /\ proved' = proved \cup (IF status = "passed" /\ ws' = ws
                                  THEN {[content |-> ws, stable |-> TRUE]} ELSE {})
        /\ IF ~Settled(status)
           THEN step' = [step EXCEPT !.cycle = @ + 1] /\ UNCHANGED pc
           ELSE /\ step' = [step EXCEPT !.cycle = 1,
                     !.status = IF SetPassed(status) THEN "succeeded" ELSE "failed",
                     !.state = IF status = "blocked" THEN run.current
                               ELSE State(ws', step.kind, step.op)]
                /\ pc' = "outcome"
  BY DEF RunCycle
<1>3. /\ Standing /\ run \in Runs /\ step \in Steps /\ ws \in Contents /\ changes \in Nat
      /\ run.current \in StateType /\ inputs \in Nat /\ resumes \in Nat
  BY Known
<1>4. /\ step.kind \in CheckKinds /\ step.op \in Nat
  BY <1>1, CheckingIs DEF Checking
<1>5. ws' \in Contents /\ changes' \in Nat /\ proved \subseteq proved'
  BY <1>2, <1>3 DEF MayChange
<1>6. SameOps(run', run) /\ SamePlan(run', run)
  BY <1>1 DEF SameOps, SamePlan
<1>7. CASE ~Settled(status)
  <2>1. step' \in Steps /\ step'.op = step.op /\ step'.kind = step.kind /\ pc' = pc
    <3>1. step' = [step EXCEPT !.cycle = step.cycle + 1] /\ pc' = pc
      BY <1>2, <1>7
    <3>2. step.cycle + 1 \in Nat
      BY <1>3 DEF Steps
    <3> QED
      BY <1>3, <3>1, <3>2 DEF Steps
  <2>2. StepInv'
    BY <1>1, <1>3, <1>6, <2>1, CheckingStep DEF Checking
  <2>3. Placed /\ pc' \in Places
    BY <1>1, <2>1 DEF Placed, Places
  <2> QED
    BY <1>1, <1>3, <1>5, <1>6, <2>1, <2>2, <2>3, Steady
<1>8. CASE Settled(status)
  <2> DEFINE s == IF SetPassed(status) THEN "succeeded" ELSE "failed"
             x == IF status = "blocked" THEN run.current ELSE State(ws', step.kind, step.op)
  <2>1. step' = [step EXCEPT !.cycle = 1, !.status = s, !.state = x] /\ pc' = "outcome"
    BY <1>2, <1>8
  <2>2. s \in {"succeeded", "failed"} /\ (s = "succeeded" => status = "passed" /\ ws' = ws)
    BY DEF SetPassed, Changed
  <2> DEFINE y == State(ws', step.kind, step.op)
  <2>12. /\ y \in StateType /\ y.by = step.kind /\ y.by # "none"
        /\ y.content = ws' /\ y.n = step.op
    BY <1>4, <1>5 DEF State, StateType, CheckKinds
  <2>13. x = IF status = "blocked" THEN run.current ELSE y
    OBVIOUS
  <2>14. run.current.by # "none"
    BY <1>3 DEF Standing
  <2> HIDE DEF x, y
  <2>3. x \in StateType /\ x.by # "none"
    BY <1>3, <2>12, <2>13, <2>14
  <2>4. x = run.current \/ (x.by = step.kind /\ x.n = step.op)
    BY <2>12, <2>13
  <2>5. status # "blocked" => x.by = step.kind /\ x.n = step.op /\ x.content = ws'
    BY <2>12, <2>13
  <2>6. s = "succeeded" => [content |-> x.content, stable |-> TRUE] \in proved'
    BY <1>2, <2>2, <2>5
  <2>7. s = "succeeded" => x.by = step.kind /\ x.n = step.op
    BY <2>2, <2>5
  <2> HIDE DEF s
  <2>8. /\ step' \in Steps /\ step'.op = step.op /\ step'.kind = step.kind
        /\ step'.status = s /\ step'.state = x
    BY <1>3, <2>1, <2>2, <2>3 DEF Steps
  <2>9. Found(step', run, proved')
    BY <2>2, <2>3, <2>4, <2>6, <2>7, <2>8 DEF Found
  <2>10. StepInv'
    BY <1>1, <1>3, <1>6, <2>1, <2>8, <2>9, CheckingStep DEF Checking
  <2>11. Placed /\ pc' \in Places
    BY <1>1, <2>1 DEF Placed, Places
  <2> QED
    BY <1>1, <1>3, <1>5, <1>6, <2>8, <2>10, <2>11, Steady
<1> QED
  BY <1>7, <1>8

LEMMA CheckOutcomeSafe ==
  ASSUME RouteInv, CheckOutcome
  PROVE  Safe
<1>1. /\ pc = "outcome" /\ run.status = "active" /\ run' = Attempt(run, step.op, step.status)
      /\ pc' = "result" /\ UNCHANGED <<receipts, world, step, resumes, history>>
  BY DEF CheckOutcome, At
<1>2. /\ run \in Runs /\ step.op \in 1 .. Len(run.ops) /\ Found(step, run, proved)
  BY <1>1, Known, CheckingIs DEF Checking
<1>3. step.status \in Attempts
  BY <1>2 DEF Found, Attempts
<1>4. /\ run' \in Runs /\ run'.status = run.status /\ SameOps(run', run) /\ SamePlan(run', run)
  BY <1>1, <1>2, <1>3, AttemptDoes
<1>5. step' = step /\ proved' = proved
  BY <1>1 DEF history
<1>6. StepInv'
  BY <1>1, <1>2, <1>4, <1>5, CheckingStep DEF Checking
<1>7. Placed /\ pc' \in Places
  BY <1>1, <1>4 DEF Placed, Places
<1> QED
  BY <1>1, <1>4, <1>6, <1>7, Known, Steady DEF world, history

\* The result of a set and the state it leaves are one record.
LEMMA CheckedSafe ==
  ASSUME RouteInv, At("result"), run' \in Runs,
         run'.ops = Checked.ops, run'.current = Checked.current, run'.basis = Checked.basis,
         run'.status = Checked.status, run'.tasks = Checked.tasks,
         run'.selected = Checked.selected,
         \/ run'.baseline = Checked.baseline
         \/ step.status = "succeeded" /\ run'.baseline.basis = run.basis,
         step' = NoStep, pc' = AfterChecks, UNCHANGED <<receipts, world, resumes, history>>
  PROVE  Safe
<1> DEFINE n == step.op
           x == step.state
           m == Result(run, n, step.status, "none", x)
<1>1. /\ Types /\ Standing /\ run \in Runs /\ OpsInv(run, receipts, inputs, proved)
      /\ inputs \in Nat /\ Len(run.ops) \in Nat /\ step \in Steps /\ run.basis \in Nat
  BY Known
<1>2. /\ n \in Ids(run) /\ n \in 1 .. Len(run.ops) /\ step.kind = run.ops[n].kind
      /\ step.kind \in CheckKinds /\ ~IsAnswered(run, n) /\ Last(run, n)
      /\ Found(step, run, proved)
  BY CheckingIs DEF At, Checking
<1>3. /\ step.status \in {"succeeded", "failed"} /\ x \in StateType /\ x.by # "none"
      /\ "none" \in Answerable
  BY <1>1, <1>2 DEF Found, Steps, Answerable
<1>4. /\ m \in Runs /\ m.current = run.current /\ m.basis = run.basis /\ m.status = run.status
      /\ SamePlan(m, run) /\ Len(m.ops) = Len(run.ops)
      /\ m.ops[n].kind = run.ops[n].kind /\ m.ops[n].basis = run.ops[n].basis
      /\ m.ops[n].result.status = step.status /\ m.ops[n].result.state = x
      /\ m.ops[n].result.answer = "none"
      /\ \A i \in 1 .. Len(run.ops) : i # n => m.ops[i] = run.ops[i]
  <2>1. run \in Runs /\ n \in 1 .. Len(run.ops)
    BY <1>1, <1>2
  <2>2. \A s \in {"succeeded", "failed"} :
          LET c == Result(run, n, s, "none", x) IN
          /\ c \in Runs /\ c.current = run.current /\ c.basis = run.basis
          /\ c.status = run.status /\ SamePlan(c, run) /\ Len(c.ops) = Len(run.ops)
          /\ c.ops[n].kind = run.ops[n].kind /\ c.ops[n].basis = run.ops[n].basis
          /\ c.ops[n].result.status = s /\ c.ops[n].result.state = x
          /\ c.ops[n].result.answer = "none"
          /\ \A i \in 1 .. Len(run.ops) : i # n => c.ops[i] = run.ops[i]
    <3> HIDE DEF n, x
    <3> QED
      BY SMTT(30), <1>3, <2>1, ResultDoes
  <2> QED
    BY <1>3, <2>2
<1>5. Checked = Observe(m, x)
  BY DEF Checked
<1> HIDE DEF m
<1>6. /\ Observe(m, x).current = x /\ Observe(m, x).status = m.status
      /\ Observe(m, x).basis = m.basis /\ SamePlan(Observe(m, x), m)
      /\ Forgets(Observe(m, x), m, x)
  BY <1>3, <1>4, ObserveDoes
<1>7. /\ run'.current = x /\ run'.basis = run.basis /\ run'.status = run.status
      /\ run'.tasks = run.tasks /\ run'.selected = run.selected /\ Forgets(run', m, x)
      /\ Len(run'.ops) = Len(run.ops)
      /\ \/ run'.baseline = run.baseline
         \/ step.status = "succeeded" /\ run'.baseline.basis = run.basis
  BY ZenonT(60), <1>4, <1>5, <1>6 DEF SamePlan, Forgets
<1>8. /\ ws' = ws /\ changes' = changes /\ inputs' = inputs /\ resumes' = resumes
      /\ proved' = proved /\ receipts' = receipts
  BY DEF world, history
<1>9. pc' \in {"dispatch", "failed"} /\ run.status = "active"
  BY DEF AfterChecks, At
<1>10. Types'
  <2>1. step' \in Steps
    BY <1>1, NoStepTypes, Known DEF AgentKinds
  <2> QED
    BY <1>1, <1>7, <1>8, <1>9, <2>1 DEF Types, Places
<1>11. Standing'
  <2>1. run'.baseline.basis <= run'.basis
    BY <1>1, <1>7 DEF Standing
  <2>2. run'.baseline # NoBaseline /\ run'.baseline.basis = inputs => proved # {}
    BY <1>1, <1>2, <1>7 DEF Standing, Found
  <2>3. run'.status = "active" /\ run'.basis = inputs /\ run'.current.by # "none"
    BY <1>1, <1>3, <1>7, <1>9 DEF Standing
  <2> QED
    BY <1>1, <1>8, <1>9, <2>1, <2>2, <2>3 DEF Standing
<1>12. OpsHold'
  <2>1. run.current.by # "none"
    BY <1>1 DEF Standing
  <2>2. \A i \in Ids(run) : i # n => m.ops[i] = run.ops[i]
    BY <1>4 DEF Ids
  <2>3. x = run.current \/ (x.by = run.ops[n].kind /\ x.n = n)
    BY <1>2 DEF Found
  <2>4. step.status = "succeeded" => /\ x.by = run.ops[n].kind /\ x.n = n
                                     /\ [content |-> x.content, stable |-> TRUE] \in proved
    BY <1>2 DEF Found
  <2>5. run.ops[n].kind \in CheckKinds
    BY <1>2
  <2> HIDE DEF n, x
  <2>6. OpsInv(run', receipts, inputs, proved)
    BY <1>1, <1>2, <1>3, <1>4, <1>7, <2>1, <2>2, <2>3, <2>4, <2>5, OpsChecked
  <2> QED
    BY <1>8, <2>6 DEF OpsHold
<1>13. StepInv'
  BY <1>9, IdleStep DEF Idle, Places, Turning, Checking
<1>14. Succeeded' /\ Ready
  BY <1>7, <1>9 DEF Succeeded, SuccessIsProven, NoRejectedSuccess, Ready
<1> QED
  BY <1>10, <1>11, <1>12, <1>13, <1>14 DEF Safe, RouteInv

LEMMA CheckedTypes ==
  ASSUME RouteInv, At("result")
  PROVE  /\ Checked \in Runs
         /\ step.state \in StateType /\ run.basis \in Nat
<1>1. /\ run \in Runs /\ step \in Steps /\ run.basis \in Nat
      /\ step.op \in 1 .. Len(run.ops) /\ Found(step, run, proved)
  BY Known, CheckingIs DEF At, Checking
<1>2. /\ step.status \in {"succeeded", "failed"} /\ step.state \in StateType
      /\ "none" \in Answerable
  BY <1>1 DEF Found, Steps, Answerable
<1>3. Result(run, step.op, step.status, "none", step.state) \in Runs
  BY <1>1, <1>2, ResultDoes
<1> QED
  BY <1>1, <1>2, <1>3, ObserveDoes DEF Checked

LEMMA InitialCheckResultSafe ==
  ASSUME RouteInv, InitialCheckResult
  PROVE  Safe
<1> DEFINE b == IF step.status = "succeeded"
                THEN [state |-> step.state, basis |-> run.basis] ELSE Checked.baseline
<1>1. /\ At("result") /\ run' = [Checked EXCEPT !.baseline = b] /\ pc' = AfterChecks
      /\ step' = NoStep /\ UNCHANGED <<receipts, world, resumes, history>>
  BY DEF InitialCheckResult, Ends
<1>2. Checked \in Runs /\ step.state \in StateType /\ run.basis \in Nat
  BY <1>1, CheckedTypes
<1>3. /\ b \in [state : StateType, basis : Nat]
      /\ b = Checked.baseline \/ (step.status = "succeeded" /\ b.basis = run.basis)
  BY <1>2 DEF Runs
<1> HIDE DEF b
<1>4. /\ run' \in Runs /\ run'.ops = Checked.ops /\ run'.current = Checked.current
      /\ run'.basis = Checked.basis /\ run'.status = Checked.status
      /\ run'.tasks = Checked.tasks /\ run'.selected = Checked.selected /\ run'.baseline = b
  BY <1>1, <1>2, <1>3 DEF Runs
<1> QED
  BY <1>1, <1>3, <1>4, CheckedSafe

LEMMA FinalCheckResultSafe ==
  ASSUME RouteInv, FinalCheckResult
  PROVE  Safe
<1>1. /\ At("result") /\ run' = Checked /\ pc' = AfterChecks
      /\ step' = NoStep /\ UNCHANGED <<receipts, world, resumes, history>>
  BY DEF FinalCheckResult, Ends
<1>2. Checked \in Runs
  BY <1>1, CheckedTypes
<1> QED
  BY <1>1, <1>2, CheckedSafe

LEMMA ChecksFailedSafe ==
  ASSUME RouteInv, ChecksFailed
  PROVE  Safe
BY RefuseSafe DEF ChecksFailed, Refuse

(***************************************************************************)
(* The user and the machine.                                               *)
(***************************************************************************)
\* The working copy changes under the controller, or the inputs on a pause.
LEMMA EditSafe ==
  ASSUME RouteInv, Edit
  PROVE  Safe
<1>1. /\ run' = run /\ receipts' = receipts /\ step' = step /\ resumes' = resumes /\ pc' = pc
  BY DEF Edit, history
<1>2. /\ Types /\ Standing /\ StepInv /\ run \in Runs /\ inputs \in Nat /\ ws \in Contents
      /\ changes \in Nat /\ OpsInv(run, receipts, inputs, proved) /\ run.basis \in Nat
      /\ pc \in Places /\ step \in Steps /\ resumes \in Nat
  BY Known
<1>3. SameOps(run', run) /\ SamePlan(run', run)
  BY <1>1 DEF SameOps, SamePlan
<1>4. CASE /\ inputs' = inputs /\ proved' = proved /\ ws' \in Contents /\ changes' \in Nat
           /\ pc \in {"paused", "dispatch", "call", "settle", "answer", "complete"}
           /\ run.status = "active" \/ pc = "paused"
  <2>1. Pending' = Pending
    BY <1>1 DEF Pending
  <2>2. StepInv'
    BY <1>1, <1>2, <1>4, <2>1 DEF StepInv, Turning, Checking
  <2>3. Placed
    BY <1>1, <1>2, <1>4 DEF Placed, Standing
  <2> QED
    BY <1>1, <1>2, <1>3, <1>4, <2>2, <2>3, Steady
<1>5. CASE inputs' = inputs + 1 /\ proved' = {} /\ ws' = ws /\ changes' = changes /\ pc = "paused"
  <2>1. Types'
    BY <1>1, <1>2, <1>5 DEF Types
  <2>2. run.status = "paused" /\ run.basis <= inputs /\ run.baseline.basis <= run.basis
          /\ run.baseline.basis \in Nat
    BY <1>2, <1>5 DEF Standing, Runs
  <2>3. Standing'
    <3>1. run.basis <= inputs + 1 /\ run.baseline.basis # inputs + 1
      BY <1>2, <2>2
    <3> QED
      BY <1>1, <1>2, <1>5, <2>2, <3>1 DEF Standing
  <2>4. OpsHold'
    <3>1. run.basis < inputs + 1 /\ inputs + 1 \in Nat
      BY <1>2, <2>2
    <3>2. OpsInv(run, receipts, inputs + 1, {})
      BY <1>1, <1>2, <1>3, <3>1, OpsSteady
    <3> QED
      BY <1>1, <1>5, <3>2 DEF OpsHold
  <2>5. StepInv'
    BY <1>1, <1>5, IdleStep DEF Idle, Places, Turning, Checking
  <2>6. Succeeded' /\ Ready
    BY <1>1, <2>2 DEF Succeeded, SuccessIsProven, NoRejectedSuccess, Ready
  <2> QED
    BY <2>1, <2>3, <2>4, <2>5, <2>6 DEF Safe, RouteInv
<1>6. MayChange => ws' \in Contents /\ changes' \in Nat
  BY <1>2 DEF MayChange
<1> QED
  BY <1>4, <1>5, <1>6 DEF Edit, Stopped, At, history

LEMMA CrashSafe ==
  ASSUME RouteInv, Crash
  PROVE  Safe
BY RefuseSafe DEF Crash, Refuse

\* A state is observed outside of the checks of a stage.
LEMMA ObservedSafe ==
  ASSUME RouteInv, NEW x \in StateType, x = run.current \/ x.by \in {"resume", "gate"},
         x.by # "none", run' \in Runs, run'.ops = Observe(run, x).ops, run'.current = x,
         run.basis <= run'.basis, run'.tasks = run.tasks, run'.selected = run.selected,
         run'.status # "succeeded", Standing', pc' \in Idle,
         ws' \in Contents, changes' \in Nat, inputs' = inputs, receipts' = receipts,
         proved \subseteq proved', resumes' \in Nat, step' \in Steps
  PROVE  Safe
<1>1. /\ Types /\ Standing /\ run \in Runs /\ inputs \in Nat
      /\ OpsInv(run, receipts, inputs, proved)
      /\ \A i \in Ids(run) : receipts[i].basis \in Nat
  BY Known
<1>2. Forgets(Observe(run, x), run, x)
  BY <1>1, ObserveDoes
<1>3. Forgets(run', run, x) /\ Len(run'.ops) = Len(run.ops)
  BY <1>2 DEF Forgets
<1>4. Types'
  BY <1>1, <1>3 DEF Types, Idle
<1>5. OpsHold'
  <2>1. run.current.by # "none" /\ (x = run.current \/ x.by # "final")
    BY <1>1 DEF Standing
  <2>2. OpsInv(run', receipts, inputs, proved')
    BY <1>1, <1>3, <2>1, OpsObserve
  <2> QED
    BY <2>2 DEF OpsHold
<1>6. StepInv'
  BY IdleStep
<1>7. Succeeded' /\ Ready
  BY DEF Succeeded, SuccessIsProven, NoRejectedSuccess, Ready
<1> QED
  BY <1>4, <1>5, <1>6, <1>7 DEF Safe, RouteInv

LEMMA ResumeSafe ==
  ASSUME RouteInv, Resume
  PROVE  Safe
<1> DEFINE x == IF WorkspaceChanged THEN State(ws, "resume", 0) ELSE run.current
           o == Observe(run, x)
           n == IF run.limit THEN 0 ELSE o.rounds
<1>1. /\ pc = "paused" /\ pc' = "gate" /\ resumes' = resumes + 1
      /\ run' = [o EXCEPT !.status = "active", !.limit = FALSE, !.basis = inputs, !.rounds = n]
      /\ receipts' = receipts /\ ws' = ws /\ changes' = changes /\ inputs' = inputs
      /\ step' = step /\ proved' = proved
  BY DEF Resume, Stopped, world, history
<1>2. /\ Standing /\ run \in Runs /\ inputs \in Nat /\ ws \in Contents /\ changes \in Nat
      /\ resumes \in Nat /\ step \in Steps /\ run.current \in StateType /\ run.basis \in Nat
  BY Known
<1>3. x \in StateType /\ x.by # "none" /\ (x = run.current \/ x.by \in {"resume", "gate"})
  BY <1>2, NewState DEF Standing
<1> HIDE DEF x
<1>4. /\ o \in Runs /\ o.current = x /\ SamePlan(o, run) /\ o.rounds = run.rounds
  BY <1>2, <1>3, ObserveDoes
<1>5. n \in 0 .. ReviewLimit
  BY <1>4, RouteAssumption DEF Runs
<1> HIDE DEF o, n
<1>6. /\ run' \in Runs /\ run'.ops = o.ops /\ run'.current = x /\ run'.basis = inputs
      /\ run'.status = "active" /\ run'.tasks = run.tasks /\ run'.selected = run.selected
      /\ run'.baseline = run.baseline
  <2>1. "active" \in Statuses /\ FALSE \in BOOLEAN
    BY DEF Statuses
  <2> QED
    BY <1>1, <1>2, <1>4, <1>5, <2>1 DEF Runs, SamePlan
<1>7. run.basis <= inputs /\ run.baseline.basis <= inputs
  <2>1. run.baseline.basis \in Nat /\ run.baseline.basis <= run.basis /\ run.basis <= inputs
    BY <1>2 DEF Standing, Runs
  <2> QED
    BY <1>2, <2>1
<1>8. Standing'
  BY <1>1, <1>2, <1>3, <1>6, <1>7 DEF Standing
<1>9. pc' \in Idle /\ resumes' \in Nat
  BY <1>1, <1>2 DEF Idle, Places, Turning, Checking
<1> QED
  BY <1>1, <1>2, <1>3, <1>6, <1>7, <1>8, <1>9, ObservedSafe DEF o

LEMMA ResumeChecksSafe ==
  ASSUME RouteInv, ResumeChecks
  PROVE  Safe
<1> DEFINE x == IF ws' = ws THEN run.current ELSE State(ws', "gate", resumes)
           o == Observe(run, x)
           b == [state |-> x, basis |-> run.basis]
<1>1. /\ pc = "gate" /\ run.status = "active" /\ receipts' = receipts /\ inputs' = inputs
      /\ resumes' = resumes /\ MayChange
  BY DEF ResumeChecks, At
<1>2. \/ /\ run' = IF run.extraction THEN o ELSE [o EXCEPT !.baseline = b]
         /\ pc' = "dispatch" /\ step' = step
         /\ proved' = proved \cup {[content |-> ws', stable |-> ws' = ws]}
      \/ run' = Paused(o) /\ pc' = "paused" /\ step' = NoStep /\ proved' = proved
  BY DEF ResumeChecks, Pauses
<1>3. /\ Standing /\ run \in Runs /\ inputs \in Nat /\ ws \in Contents /\ changes \in Nat
      /\ resumes \in Nat /\ step \in Steps /\ run.current \in StateType /\ run.basis \in Nat
  BY Known
<1>4. ws' \in Contents /\ changes' \in Nat
  BY <1>1, <1>3 DEF MayChange
<1>5. x \in StateType /\ x.by # "none" /\ (x = run.current \/ x.by \in {"resume", "gate"})
  BY <1>3, <1>4, NewState DEF Standing
<1> HIDE DEF x
<1>6. /\ o \in Runs /\ o.current = x /\ SamePlan(o, run) /\ o.status = run.status
      /\ o.basis = run.basis
  BY <1>3, <1>5, ObserveDoes
<1>7. b \in [state : StateType, basis : Nat] /\ b.basis = run.basis
  BY <1>3, <1>5
<1> HIDE DEF o, b
<1>8. /\ run' \in Runs /\ run'.ops = o.ops /\ run'.current = x /\ run'.basis = run.basis
      /\ run'.tasks = run.tasks /\ run'.selected = run.selected
      /\ \/ run'.baseline = run.baseline
         \/ run'.baseline = b /\ proved' # {}
      /\ \/ run'.status = "active" /\ pc' = "dispatch"
         \/ run'.status = "paused" /\ pc' = "paused"
      /\ proved \subseteq proved' /\ step' \in Steps
  <2>1. CASE run' = o /\ pc' = "dispatch" /\ step' = step /\ proved \subseteq proved'
    BY <1>1, <1>3, <1>6, <2>1 DEF SamePlan
  <2>2. CASE /\ run' = [o EXCEPT !.baseline = b] /\ pc' = "dispatch" /\ step' = step
             /\ proved \subseteq proved' /\ proved' # {}
    BY <1>1, <1>3, <1>6, <1>7, <2>2 DEF SamePlan, Runs
  <2>3. CASE run' = Paused(o) /\ pc' = "paused" /\ step' = NoStep /\ proved' = proved
    <3>1. "paused" \in Statuses /\ NoStep \in Steps
      BY <1>3, NoStepTypes DEF Statuses, AgentKinds
    <3> QED
      BY <1>6, <2>3, <3>1 DEF SamePlan, Runs, Paused
  <2> QED
    BY <1>2, <2>1, <2>2, <2>3
<1>9. Standing'
  <2>1. run'.baseline.basis <= run'.basis
    BY <1>3, <1>7, <1>8 DEF Standing
  <2>2. run'.baseline # NoBaseline /\ run'.baseline.basis = inputs => proved' # {}
    BY <1>3, <1>8 DEF Standing
  <2> QED
    BY <1>1, <1>3, <1>5, <1>8, <2>1, <2>2 DEF Standing
<1>10. pc' \in Idle
  BY <1>8 DEF Idle, Places, Turning, Checking
<1>11. run.basis <= run'.basis
  BY <1>3, <1>8
<1>12. run'.status # "succeeded"
  BY <1>8
<1> QED
  BY <1>1, <1>3, <1>4, <1>5, <1>8, <1>9, <1>10, <1>11, <1>12, ObservedSafe DEF o

(***************************************************************************)
(* The invariant, and what it says of the runs.                            *)
(***************************************************************************)
LEMMA InitSafe ==
  ASSUME Init
  PROVE  RouteInv
<1> DEFINE o == Operation("extract", 1)
<1>1. /\ run = [status |-> "active", limit |-> FALSE, basis |-> 1, current |-> Start,
                extraction |-> TRUE, baseline |-> NoBaseline, tasks |-> <<>>,
                selected |-> 0, commits |-> 0, rounds |-> 0, ops |-> <<o>>]
      /\ receipts = <<NoAnswer>> /\ ws = 0 /\ changes = 0 /\ inputs = 1 /\ step = NoStep
      /\ resumes = 0 /\ pc = "dispatch" /\ proved = {}
  BY DEF Init
<1>2. o \in Operations /\ o.kind = "extract" /\ o.result = NoResult /\ o.basis = 1
  BY StateTypes DEF Operation, Operations, Attempts, AgentKinds
<1> HIDE DEF o
<1>3. NoAnswer \in Receipts
  BY StateTypes, RouteAssumption DEF NoAnswer, Receipts, Answerable
<1>4. NoBaseline \in [state : StateType, basis : Nat] /\ NoBaseline.basis = 0
  BY StateTypes DEF NoBaseline
<1>5. /\ run \in Runs /\ run.ops = <<o>> /\ run.status = "active" /\ run.basis = 1
      /\ run.current = Start /\ run.baseline = NoBaseline /\ run.tasks = <<>>
      /\ Len(run.tasks) = 0 /\ Len(run.ops) = 1
  <2>1. 0 \in 0 .. MaxTasks /\ 0 \in 0 .. ReviewLimit
    BY RouteAssumption
  <2>2. <<o>> \in Seq(Operations) /\ <<>> \in Seq(Tasks)
    BY <1>2
  <2> QED
    BY <1>1, <1>4, <2>1, <2>2, StateTypes DEF Runs, Statuses
<1>6. Types
  <2>1. step \in Steps
    BY <1>1, NoStepTypes, StateTypes DEF AgentKinds
  <2>2. receipts \in Seq(Receipts) /\ Len(receipts) = 1
    BY <1>1, <1>3
  <2>3. 0 <= MaxTasks
    BY RouteAssumption
  <2> QED
    BY <1>1, <1>5, <2>1, <2>2, <2>3, StateTypes DEF Types, Places
<1>7. Standing
  BY <1>1, <1>4, <1>5 DEF Standing, Start, State
<1>8. OpsHold
  <2>1. Ids(run) = {1} /\ run.ops[1] = o /\ receipts[1] = NoAnswer
    BY <1>1, <1>5 DEF Ids
  <2>2. Bases(run, receipts)
    BY <1>2, <1>5, <2>1 DEF Bases
  <2>3. Passed(run, inputs, proved) /\ ResultStates(run)
    BY <1>2, <1>5, <2>1, StateTypes DEF Passed, PassedCheck, ResultStates, IsReview, IsAnswered
  <2>4. UnfinishedChecks(run) /\ Reviews(run, receipts)
    BY <1>2, <2>1 DEF UnfinishedChecks, Reviews, PassedCheck
  <2> QED
    BY <2>2, <2>3, <2>4 DEF OpsHold, OpsInv
<1>9. StepInv
  BY <1>1 DEF StepInv, Turning, Checking
<1>10. Succeeded
  BY <1>5 DEF Succeeded, SuccessIsProven, NoRejectedSuccess
<1> QED
  BY <1>6, <1>7, <1>8, <1>9, <1>10 DEF RouteInv

LEMMA NextSafe ==
  ASSUME RouteInv, [Next]_vars
  PROVE  Safe
<1>1. CASE UNCHANGED vars
  <2>1. /\ run' = run /\ receipts' = receipts /\ ws' = ws /\ changes' = changes
        /\ inputs' = inputs /\ step' = step /\ resumes' = resumes /\ pc' = pc
        /\ proved' = proved
    BY <1>1 DEF vars, world, history
  <2>2. Types' /\ Standing' /\ OpsHold'
    BY <2>1 DEF RouteInv, Types, Standing, OpsHold
  <2>3. Pending' = Pending /\ Ops' = Ops
    BY <2>1 DEF Pending, Ops
  <2>4. StepInv' /\ Succeeded'
    BY <2>1, <2>3 DEF RouteInv, StepInv, Succeeded, SuccessIsProven, NoRejectedSuccess
  <2> QED
    BY <2>1, <2>2, <2>4 DEF Safe, RouteInv, Ready
<1>2. CASE ExtractTasks
  BY <1>2, ContinueSafe DEF ExtractTasks, Dispatch
<1>3. CASE SelectAssignment
  BY <1>3, ContinueSafe DEF SelectAssignment, Dispatch
<1>4. CASE StartFinalReview
  BY <1>4, StartFinalReviewSafe
<1>5. CASE AddFinalFindingTasks
  BY <1>5, AddFinalFindingTasksSafe
<1>6. CASE \E kind \in CheckKinds : StartChecks(kind)
  BY <1>6, StartChecksSafe
<1>7. CASE NoFinalRoute
  BY <1>7, RefuseSafe DEF NoFinalRoute
<1>8. CASE CompleteRecorded
  BY <1>8, CompleteRecordedSafe
<1>9. CASE Work
  BY <1>9, WorkSafe
<1>10. CASE ReviewSurprised
  BY <1>10, ReviewSurprisedSafe
<1>11. CASE Replay
  BY <1>11, ReplaySafe
<1>12. CASE StartTurn
  BY <1>12, StartTurnSafe
<1>13. CASE Answers
  BY <1>13, AnswersSafe
<1>14. CASE TurnEnds
  BY <1>14, TurnEndsSafe
<1>15. CASE Settle
  BY <1>15, SettleSafe
<1>16. CASE Blocked
  BY <1>16, BlockedSafe
<1>17. CASE RecordExtraction
  BY <1>17, RecordExtractionSafe
<1>18. CASE StartAssignment
  BY <1>18, StartAssignmentSafe
<1>19. CASE RecordFinalReview
  BY <1>19, RecordFinalReviewSafe
<1>20. CASE NoExplorer
  BY <1>20, NoExplorerSafe
<1>21. CASE CloseForQuestion
  BY <1>21, CloseForQuestionSafe
<1>22. CASE CompleteFinalAcceptance
  BY <1>22, CompleteFinalAcceptanceSafe
<1>23. CASE AppendTasks
  BY <1>23, AppendTasksSafe
<1>24. CASE AppendQuestion
  BY <1>24, AppendQuestionSafe
<1>25. CASE ReserveChecks
  BY <1>25, ReserveChecksSafe
<1>26. CASE RunCycle
  BY <1>26, RunCycleSafe
<1>27. CASE CheckOutcome
  BY <1>27, CheckOutcomeSafe
<1>28. CASE InitialCheckResult
  BY <1>28, InitialCheckResultSafe
<1>29. CASE FinalCheckResult
  BY <1>29, FinalCheckResultSafe
<1>30. CASE ChecksFailed
  BY <1>30, ChecksFailedSafe
<1>31. CASE ResumeChecks
  BY <1>31, ResumeChecksSafe
<1>32. CASE Edit
  BY <1>32, EditSafe
<1>33. CASE Crash
  BY <1>33, CrashSafe
<1>34. CASE Resume
  BY <1>34, ResumeSafe
<1>35. CASE Terminated
  BY <1>1, <1>35 DEF Terminated
<1> QED
  BY <1>1, <1>2, <1>3, <1>4, <1>5, <1>6, <1>7, <1>8, <1>9, <1>10, <1>11, <1>12, <1>13, <1>14,
     <1>15, <1>16, <1>17, <1>18, <1>19, <1>20, <1>21, <1>22, <1>23, <1>24, <1>25, <1>26, <1>27,
     <1>28, <1>29, <1>30, <1>31, <1>32, <1>33, <1>34, <1>35 DEF Next, Controller

\* The order of the recorded checks, reviews and results is kept by every step of
\* the dispatch, of the calls and sets it makes, of the user and of a crash.
THEOREM RouteInvariant == Spec => []RouteInv
<1>1. Init => RouteInv
  BY InitSafe
<1>2. RouteInv /\ [Next]_vars => RouteInv'
  BY NextSafe DEF Safe
<1> QED
  BY <1>1, <1>2, PTL DEF Spec

\* The recorded Run and what the controller holds keep their shape, and the final
\* review never takes more rounds than CycleLimits.FinalReview allows, for every
\* limit and however often the run is resumed.
THEOREM RouteTypeCorrect == Spec => []TypeOK
<1>1. RouteInv => TypeOK
  <2> SUFFICES ASSUME RouteInv PROVE TypeOK
    OBVIOUS
  <2>1. /\ Types /\ run \in Runs /\ receipts \in Seq(Receipts)
        /\ Len(receipts) = Len(run.ops) /\ Len(run.ops) \in Nat
        /\ \A i \in Ids(run) : receipts[i] \in Receipts
    BY Known
  <2>2. Ops = Ids(run) /\ DOMAIN receipts = Ops
    BY <2>1, OpsOf, LenProperties DEF Ops, Ids
  <2>3. \A i \in Ops : /\ run.ops[i].kind \in AgentKinds \cup CheckKinds
                       /\ run.ops[i].result.state \in StateType
                       /\ receipts[i].kind \in Answerable
    BY <2>1, <2>2, OpsOf DEF Ids, Operations, Results, Receipts
  <2> QED
    BY <2>1, <2>2, <2>3 DEF TypeOK, Types, Runs, Statuses
<1> QED
  BY <1>1, RouteInvariant, PTL

\* CompleteFinalAcceptance ends a run as succeeded only if the very content of the
\* working copy has passed a complete set under the inputs in force, a reviewer has
\* then seen and passed it, and no task is left, whatever was edited, interrupted,
\* answered again or resumed in between.
THEOREM SuccessProven == Spec => []SuccessIsProven
<1>1. RouteInv => SuccessIsProven
  BY DEF RouteInv, Succeeded
<1> QED
  BY <1>1, RouteInvariant, PTL

\* A state that a final review of the present basis asked to change is never the
\* state a run succeeds with: no crash between the review, the tasks of its findings and the next check
\* lets dispatchRestartStep pass them over.
THEOREM RejectedStateNeverSucceeds == Spec => []NoRejectedSuccess
<1>1. RouteInv => NoRejectedSuccess
  BY DEF RouteInv, Succeeded
<1> QED
  BY <1>1, RouteInvariant, PTL

\* Run.StartAssignment takes effect only after a complete required set has passed
\* under the inputs the assignment is worked on, also when a resume has refreshed
\* the inputs since the baseline.
THEOREM BaselineBeforeWork == Spec => WorkStartsOnBaseline
<1>1. RouteInv /\ [Next]_vars =>
        [run.selected = 0 /\ run'.selected # 0 => proved # {}]_vars
  BY NextSafe DEF Safe, Ready
<1> QED
  BY <1>1, RouteInvariant, PTL DEF Spec, WorkStartsOnBaseline

=============================================================================
