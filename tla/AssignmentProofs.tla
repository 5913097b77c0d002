--------------------------- MODULE AssignmentProofs ---------------------------
(***************************************************************************)
(* The safety of Assignment for all limits, all sets of findings and every *)
(* number of contents, edits and resumes: what is accepted was proven on   *)
(* the content of the working copy, a reviewer looks at checked code, and  *)
(* no finding is dropped.  The invariant is about the recorded operations  *)
(* (which of them may still be continued, and which results still count)   *)
(* and about what the step in progress knows of the working copy.          *)
(***************************************************************************)
EXTENDS Assignment, TLAPS, FiniteSetTheorems, WellFoundedInduction, SequenceTheorems

Attempts == {"none", "open", "succeeded", "failed"}
FindingStates == {"none", "open", "resolved", "retained"}
Sources == {"none", "start", "implement", "checks", "resume", "gate"}
Places == {"dispatch", "call", "turn", "settle", "answer", "apply", "reserve", "set",
           "outcome", "result", "block", "gate", "paused", "refused", "accepted"}

Outcomes == [status : {"none", "succeeded", "failed", "forgotten"}, state : States, name : Nat]
Operations == [kind : Kinds, basis : 1 .. MaxChanges + 1, attempt : Attempts,
               result : Outcomes, name : Nat]
Runs == [status : {"active", "paused"}, limit : Counters \cup {"none"},
         basis : 1 .. MaxChanges + 1, current : States, ops : Seq(Operations),
         counters : [Counters -> Nat], findings : [Findings -> FindingStates], accepted : BOOLEAN]
Answers == [kind : {"none", "ready", "requested", "blocked", "passed", "changes"},
            content : Contents, basis : Nat, findings : [Findings -> FindingStates]]
Steps == [op : Nat, name : Nat, kind : Kinds,
          set : [status : {"none", "passed", "failed", "blocked"}, changed : BOOLEAN, state : States]]

Types ==
  /\ run \in Runs /\ receipts \in Seq(Answers) /\ Len(receipts) = Len(run.ops)
  /\ ws \in Contents /\ changes \in 0 .. MaxChanges /\ inputs \in 1 .. changes + 1
  /\ step \in Steps /\ step.op <= Len(run.ops)
  /\ resumes \in 0 .. MaxResumes /\ pc \in Places
  /\ run.status = "active" <=> pc \notin {"paused", "refused"}

Budget == \A c \in Counters : run.counters[c] <= Limits[c]

Calls == {"call", "turn", "settle", "answer"}
Sets == {"reserve", "set", "outcome", "result"}

\* Operations are recorded in the order of the inputs they were made for.
Bases ==
  /\ \A i, k \in Ops : i <= k => run.ops[i].basis <= run.ops[k].basis
  /\ \A i \in Ops : run.ops[i].basis <= run.basis
  /\ run.basis <= inputs

\* A check or a review that has succeeded and is not forgotten is one of the
\* current state, which a set of checks has published.
Current ==
  \A i \in Ops : run.ops[i].kind \in {"required", "review"} /\ run.ops[i].result.status = "succeeded"
                   => run.ops[i].result.state = run.current /\ run.current.by = "checks"

\* Of the operations without a result only the last can be continued, except
\* for the turns of the implementer; and no other step is in progress then.
LastOpen ==
  \A i \in Ops : ~Answered(i) /\ run.ops[i].kind # "implement" /\ run.ops[i].basis = run.basis
    => i = Len(run.ops) /\ (pc \in Calls \cup Sets \cup {"apply"} => i = step.op)

\* The step in progress, its operation and its receipt belong together.
StepInv ==
  /\ pc \in Calls \cup Sets =>
       /\ step.op \in Ops /\ ~Answered(step.op) /\ run.ops[step.op].kind = step.kind
       /\ step.kind # "implement" => run.ops[step.op].basis = run.basis
  /\ pc \in Calls => step.kind \in {"implement", "review"}
  /\ pc \in Sets \cup {"apply"} => step.kind \in {"required", "requested"}
  /\ pc = "apply" => step.op \in Ops /\ run.ops[step.op].kind = "implement"
  /\ pc = "apply" /\ step.kind = "required" => run.current.by = "implement"
  /\ pc \in {"outcome", "result"} /\ step.set.status = "passed" => step.set.state.by = "checks"
  /\ \A i \in Ops :
       /\ receipts[i].kind \in {"passed", "changes"} => run.ops[i].kind = "review"
       /\ receipts[i].kind \in {"ready", "requested"} => run.ops[i].kind = "implement"

\* Where the recorded state is the one of the working copy.
ContentInv ==
  /\ pc \in {"dispatch", "gate", "accepted"} => run.current.content = ws
  /\ pc \in Calls /\ step.kind = "review" => run.current.content = ws
  /\ pc \in {"outcome", "result"} =>
       \/ step.set.state.content = ws
       \/ step.set.status = "blocked" \/ step.set.state = NoState

\* A review in progress is the last operation, after the last required set,
\* which has passed on the current state.
Checked(j) ==
  \E i \in 1 .. j - 1 : Proves(i, "required") /\ \A k \in i + 1 .. Len(run.ops) : run.ops[k].kind # "required"
ReviewInv == pc \in Calls /\ step.kind = "review" => step.op = Len(run.ops) /\ Checked(step.op)

\* The receipt of a review that may be replayed is about the checked content
\* and decides on every unresolved finding.
ReceiptInv ==
  \A j \in Ops : run.ops[j].kind = "review" /\ ~Answered(j) /\ run.ops[j].basis = run.basis
                   /\ receipts[j] # NoAnswer =>
    /\ (\E i \in Ops : Proves(i, "required")) => receipts[j].content = run.current.content
    /\ receipts[j].kind = "changes" =>
         \A f \in Findings : run.findings[f] \in Unresolved => receipts[j].findings[f] # "none"

\* A review that has passed the current state is the last word on it.
VerdictInv ==
  \A j \in Ops : Proves(j, "review") =>
    /\ j = Len(run.ops) /\ Checked(j) /\ receipts[j].content = run.current.content
    /\ \A f \in Findings : run.findings[f] \notin Unresolved
    /\ pc \in {"dispatch", "paused", "refused", "gate", "accepted"}

AcceptInv ==
  /\ run.accepted => pc = "accepted"
  /\ run.accepted => \E j \in Ops : Proves(j, "review")

AssignmentInv ==
  /\ Types /\ Bases /\ Current /\ LastOpen /\ StepInv /\ ContentInv
  /\ ReviewInv /\ ReceiptInv /\ VerdictInv /\ AcceptInv

(***************************************************************************)
(* Least and greatest numbers of a set.                                    *)
(***************************************************************************)
LEMMA Least ==
  ASSUME NEW S \in SUBSET Nat, S # {}
  PROVE  \E m \in S : \A k \in S : m <= k
<1> DEFINE R == {p \in Nat \X Nat : p[1] < p[2]}
<1>1. IsWellFoundedOn(R, Nat)
  BY NatLessThanWellFounded DEF OpToRel
<1>2. PICK m \in S : \A y \in S : ~(<<y, m>> \in R)
  <2> HIDE DEF R
  <2> QED
    BY <1>1, WFMin
<1>3. \A y \in S : ~(y < m)
  BY <1>2
<1> QED
  BY <1>3

LEMMA MinOf ==
  ASSUME NEW S \in SUBSET Nat, S # {}
  PROVE  Min(S) \in S /\ \A k \in S : Min(S) <= k
BY Least DEF Min

LEMMA MaxOf ==
  ASSUME NEW S \in SUBSET Nat, S # {}, NEW n \in Nat, \A k \in S : k <= n
  PROVE  Max(S) \in S /\ \A k \in S : k <= Max(S)
<1> DEFINE D == {n - k : k \in S}
<1>1. D \in SUBSET Nat /\ D # {}
  <2>1. \A k \in S : n - k \in Nat
    OBVIOUS
  <2>2. D \in SUBSET Nat
    BY <2>1
  <2>3. \E k \in S : n - k \in D
    OBVIOUS
  <2> QED
    BY <2>2, <2>3
<1>2. PICK d \in D : \A k \in D : d <= k
  <2> HIDE DEF D
  <2> QED
    BY <1>1, Least
<1>3. PICK m \in S : d = n - m
  BY <1>2
<1>4. \A k \in S : k <= m
  <2> TAKE k \in S
  <2>1. n - k \in D
    OBVIOUS
  <2>2. d <= n - k
    BY <1>2, <2>1
  <2>3. k \in Nat /\ m \in Nat
    OBVIOUS
  <2> QED
    BY <1>3, <2>2, <2>3
<1>5. \E x \in S : \A y \in S : x >= y
  BY <1>3, <1>4
<1>6. Max(S) \in S /\ \A y \in S : Max(S) >= y
  BY <1>5 DEF Max
<1> QED
  BY <1>6

(***************************************************************************)
(* The records a step may write.                                           *)
(***************************************************************************)
\* Same work: the operations differ in their attempts only.
SameWork(r, s) ==
  /\ r.current = s.current /\ r.basis = s.basis /\ r.findings = s.findings /\ r.accepted = s.accepted
  /\ Len(r.ops) = Len(s.ops)
  /\ \A i \in 1 .. Len(s.ops) :
       /\ r.ops[i].kind = s.ops[i].kind /\ r.ops[i].basis = s.ops[i].basis
       /\ r.ops[i].result = s.ops[i].result

LEMMA Work ==
  ASSUME NEW r \in Runs
  PROVE  /\ r.ops \in Seq(Operations) /\ Len(r.ops) \in Nat /\ DOMAIN r.ops = 1 .. Len(r.ops)
         /\ r.ops \in [1 .. Len(r.ops) -> Operations]
         /\ \A i \in 1 .. Len(r.ops) : r.ops[i] \in Operations
<1>1. r.ops \in Seq(Operations)
  BY DEF Runs
<1> QED
  BY <1>1, LenProperties, ElementOfSeq

LEMMA AttemptDoes ==
  ASSUME NEW r \in Runs, NEW i \in 1 .. Len(r.ops), NEW o \in Attempts
  PROVE  /\ Attempt(r, i, o) \in Runs /\ SameWork(Attempt(r, i, o), r)
         /\ Attempt(r, i, o).status = r.status /\ Attempt(r, i, o).limit = r.limit
         /\ Attempt(r, i, o).counters = r.counters
<1> DEFINE p == [r.ops[i] EXCEPT !.attempt = o]
           q == [r.ops EXCEPT ![i] = p]
           c == [r EXCEPT !.ops = q]
<1>1. r.ops \in Seq(Operations) /\ r.ops[i] \in Operations /\ Len(r.ops) \in Nat
  BY Work
<1>2. p \in Operations /\ p.kind = r.ops[i].kind /\ p.basis = r.ops[i].basis /\ p.result = r.ops[i].result
  BY <1>1 DEF Operations
<1> HIDE DEF p
<1>3. q \in Seq(Operations) /\ Len(q) = Len(r.ops)
      /\ \A j \in 1 .. Len(r.ops) : q[j] = IF j = i THEN p ELSE r.ops[j]
  BY <1>1, <1>2, ExceptSeq
<1> HIDE DEF q
<1>4. /\ c \in Runs /\ c.status = r.status /\ c.limit = r.limit /\ c.counters = r.counters
      /\ c.current = r.current /\ c.basis = r.basis /\ c.findings = r.findings
      /\ c.accepted = r.accepted /\ c.ops = q
  BY <1>3 DEF Runs
<1>5. SameWork(c, r)
  BY <1>2, <1>3, <1>4 DEF SameWork
<1>6. Attempt(r, i, o) = c
  BY DEF Attempt, p, q
<1> QED
  BY <1>4, <1>5, <1>6

LEMMA PausedDoes ==
  ASSUME run \in Runs, NEW l \in Counters \cup {"none"}
  PROVE  /\ Paused(l) \in Runs /\ SameWork(Paused(l), run)
         /\ Paused(l).status = "paused" /\ Paused(l).counters = run.counters
         /\ Paused(l).ops = run.ops
<1>1. /\ Paused(l) \in Runs /\ Paused(l).status = "paused" /\ Paused(l).counters = run.counters
      /\ Paused(l).ops = run.ops /\ Paused(l).current = run.current /\ Paused(l).basis = run.basis
      /\ Paused(l).findings = run.findings /\ Paused(l).accepted = run.accepted
  BY DEF Paused, Runs
<1> QED
  BY <1>1 DEF SameWork

\* The state is observed: results of another state are forgotten.
Kept(o, s) == o.kind = "implement" \/ o.result = NoResult \/ o.result.state = s \/ o.result.state.by = "resume"

LEMMA ObserveDoes ==
  ASSUME NEW r \in Runs, NEW s \in States
  PROVE  LET c == Observe(r, s) IN
         /\ c \in Runs /\ c.current = s
         /\ c.status = r.status /\ c.limit = r.limit /\ c.counters = r.counters
         /\ c.basis = r.basis /\ c.findings = r.findings /\ c.accepted = r.accepted
         /\ Len(c.ops) = Len(r.ops)
         /\ \A i \in 1 .. Len(r.ops) :
              /\ c.ops[i].kind = r.ops[i].kind /\ c.ops[i].basis = r.ops[i].basis
              /\ Kept(r.ops[i], s) => c.ops[i] = r.ops[i]
              /\ ~Kept(r.ops[i], s) => c.ops[i].result.status = "forgotten"
<1> DEFINE g(i) == [r.ops[i] EXCEPT !.result = Forgotten(@.name), !.attempt = "none"]
           e(i) == IF Kept(r.ops[i], s) THEN r.ops[i] ELSE g(i)
           q == [i \in 1 .. Len(r.ops) |-> e(i)]
           c == [r EXCEPT !.current = s, !.ops = q]
<1>1. /\ r.ops \in Seq(Operations) /\ Len(r.ops) \in Nat /\ DOMAIN r.ops = 1 .. Len(r.ops)
      /\ \A i \in 1 .. Len(r.ops) : r.ops[i] \in Operations
  BY Work
<1>2. NoState \in States
  BY AssignmentAssumption DEF NoState, State, States, Contents
<1>3. \A i \in 1 .. Len(r.ops) :
        /\ g(i) \in Operations /\ g(i).kind = r.ops[i].kind /\ g(i).basis = r.ops[i].basis
        /\ g(i).result.status = "forgotten"
  <2> TAKE i \in 1 .. Len(r.ops)
  <2>1. r.ops[i] \in Operations /\ r.ops[i].result \in Outcomes /\ r.ops[i].result.name \in Nat
    BY <1>1 DEF Operations, Outcomes
  <2>2. Forgotten(r.ops[i].result.name) \in Outcomes /\ Forgotten(r.ops[i].result.name).status = "forgotten"
    BY <1>2, <2>1 DEF Forgotten, Outcomes
  <2> QED
    BY <2>1, <2>2 DEF Operations, Attempts
<1> HIDE DEF g
<1>4. \A i \in 1 .. Len(r.ops) : e(i) \in Operations
  BY <1>1, <1>3
<1>5. q \in Seq(Operations) /\ Len(q) = Len(r.ops)
  <2> HIDE DEF e
  <2>1. q \in [1 .. Len(r.ops) -> Operations]
    BY <1>4
  <2>2. q \in Seq(Operations)
    BY <1>1, <2>1, SeqDef
  <2> QED
    BY <1>1, <2>1, <2>2, LenProperties
<1>6. \A i \in 1 .. Len(r.ops) : q[i] = e(i)
  OBVIOUS
<1> HIDE DEF q
<1>7. /\ c \in Runs /\ c.current = s /\ c.status = r.status /\ c.limit = r.limit /\ c.counters = r.counters
      /\ c.basis = r.basis /\ c.findings = r.findings /\ c.accepted = r.accepted /\ c.ops = q
  BY <1>5 DEF Runs
<1>8. Observe(r, s) = c
  BY <1>1 DEF Observe, q, g, Kept
<1> HIDE DEF c
<1> QED
  BY <1>3, <1>5, <1>6, <1>7, <1>8

\* A result of operation i, of the state that it observes.
LEMMA ResultDoes ==
  ASSUME NEW r \in Runs, NEW i \in 1 .. Len(r.ops), NEW status \in {"succeeded", "failed"},
         NEW s \in States, NEW name \in Nat
  PROVE  LET c == Result(r, i, status, s, name) IN
         /\ c \in Runs /\ c.current = s
         /\ c.status = r.status /\ c.limit = r.limit /\ c.counters = r.counters
         /\ c.basis = r.basis /\ c.findings = r.findings /\ c.accepted = r.accepted
         /\ Len(c.ops) = Len(r.ops)
         /\ c.ops[i].kind = r.ops[i].kind /\ c.ops[i].basis = r.ops[i].basis
         /\ c.ops[i].result.status = status /\ c.ops[i].result.state = s
         /\ \A k \in 1 .. Len(r.ops) : k # i =>
              /\ c.ops[k].kind = r.ops[k].kind /\ c.ops[k].basis = r.ops[k].basis
              /\ Kept(r.ops[k], s) => c.ops[k] = r.ops[k]
              /\ ~Kept(r.ops[k], s) => c.ops[k].result.status = "forgotten"
<1> DEFINE o == [status |-> status, state |-> s, name |-> name]
           p == [r.ops[i] EXCEPT !.result = o]
           q == [r.ops EXCEPT ![i] = p]
           d == [r EXCEPT !.ops = q]
<1>1. r.ops \in Seq(Operations) /\ r.ops[i] \in Operations /\ Len(r.ops) \in Nat
  BY Work
<1>2. o \in Outcomes /\ o.status = status /\ o.state = s
  BY DEF Outcomes
<1> HIDE DEF o
<1>3. p \in Operations /\ p.kind = r.ops[i].kind /\ p.basis = r.ops[i].basis /\ p.result = o
  BY <1>1, <1>2 DEF Operations
<1> HIDE DEF p
<1>4. q \in Seq(Operations) /\ Len(q) = Len(r.ops)
      /\ \A j \in 1 .. Len(r.ops) : q[j] = IF j = i THEN p ELSE r.ops[j]
  BY <1>1, <1>3, ExceptSeq
<1> HIDE DEF q
<1>5. /\ d \in Runs /\ d.status = r.status /\ d.limit = r.limit /\ d.counters = r.counters
      /\ d.current = r.current /\ d.basis = r.basis /\ d.findings = r.findings
      /\ d.accepted = r.accepted /\ d.ops = q
  BY <1>4 DEF Runs
<1>6. Result(r, i, status, s, name) = Observe(d, s)
  BY DEF Result, d, q, p, o
<1>7. Kept(d.ops[i], s)
  BY <1>2, <1>3, <1>4, <1>5 DEF Kept
<1> HIDE DEF d
<1> QED
  BY SMTT(30), <1>1, <1>2, <1>3, <1>4, <1>5, <1>6, <1>7, ObserveDoes

LEMMA FirstNumbers ==
  ASSUME NEW m \in Nat
  PROVE  IsFiniteSet(1 .. m) /\ Cardinality(1 .. m) = m
<1>1. /\ IsFiniteSet(1 .. m)
      /\ Cardinality(1 .. m) = IF 1 > m THEN 0 ELSE m - 1 + 1
  <2>1. 1 \in Int /\ m \in Int
    OBVIOUS
  <2> QED
    BY <2>1, FS_Interval, Zenon
<1> QED
  BY <1>1

\* nextRestartIDs always finds a number that no operation and no result has.
LEMMA NextNameExists ==
  ASSUME run \in Runs
  PROVE  NextName \in Nat
<1> DEFINE n == Len(run.ops)
           free == {k \in 1 .. 2 * n + 1 : \A i \in Ops : k # run.ops[i].name /\ k # run.ops[i].result.name}
           S == 1 .. 2 * n + 1
           T == 1 .. 2 * n
           names(j) == IF j <= n THEN run.ops[j].name ELSE run.ops[j - n].result.name
           f == [k \in S |-> CHOOSE j \in T : k = names(j)]
<1>1. n \in Nat /\ Ops = 1 .. n
  BY Work DEF Ops
<1>2. free # {}
  <2> SUFFICES ASSUME free = {}
               PROVE  FALSE
    OBVIOUS
  <2>1. \A k \in S : \E j \in T : k = names(j)
    <3> TAKE k \in S
    <3>1. PICK i \in 1 .. n : k = run.ops[i].name \/ k = run.ops[i].result.name
      BY <1>1
    <3>2. CASE k = run.ops[i].name
      <4>1. i \in T /\ names(i) = run.ops[i].name
        BY <1>1
      <4> QED
        BY <3>2, <4>1
    <3>3. CASE k = run.ops[i].result.name
      <4>1. i + n \in T /\ ~(i + n <= n) /\ (i + n) - n = i
        BY <1>1
      <4>2. names(i + n) = run.ops[i].result.name
        BY <4>1
      <4> QED
        BY <3>3, <4>1, <4>2
    <3> QED
      BY <3>1, <3>2, <3>3
  <2> HIDE DEF names, free
  <2>2. \A k \in S : f[k] \in T /\ k = names(f[k])
    BY <2>1
  <2>3. f \in [S -> T]
    BY <2>2
  <2>4. IsFiniteSet(S) /\ IsFiniteSet(T) /\ Cardinality(T) < Cardinality(S)
    <3>1. 2 * n + 1 \in Nat /\ 2 * n \in Nat /\ 2 * n < 2 * n + 1
      BY <1>1
    <3> QED
      BY <3>1, FirstNumbers
  <2> HIDE DEF f, S, T
  <2>5. PICK x \in S, y \in S : x # y /\ f[x] = f[y]
    BY <2>3, <2>4, FS_PigeonHole
  <2> QED
    BY <2>2, <2>5
<1>3. free \in SUBSET Nat
  BY <1>1
<1>4. NextName = Min(free)
  BY DEF NextName
<1> HIDE DEF free
<1> QED
  BY <1>2, <1>3, <1>4, MinOf

\* One more operation, without a result.
Opened(kind, name) == [run EXCEPT !.ops = Append(@, Operation(kind, name))]

LEMMA OpenDoes ==
  ASSUME run \in Runs, NEW kind \in Kinds, NEW name \in Nat
  PROVE  LET c == Opened(kind, name) IN
         /\ c \in Runs
         /\ c.current = run.current /\ c.status = run.status
         /\ c.basis = run.basis /\ c.findings = run.findings /\ c.accepted = run.accepted
         /\ c.counters = run.counters
         /\ Len(c.ops) = Len(run.ops) + 1
         /\ \A i \in 1 .. Len(run.ops) : c.ops[i] = run.ops[i]
         /\ LET o == c.ops[Len(run.ops) + 1]
            IN  o.kind = kind /\ o.basis = run.basis /\ o.result = NoResult
<1> DEFINE o == Operation(kind, name)
           q == Append(run.ops, o)
           c == [run EXCEPT !.ops = q]
<1>1. run.ops \in Seq(Operations) /\ Len(run.ops) \in Nat
  BY Work
<1>2. NoResult \in Outcomes
  BY AssignmentAssumption DEF NoResult, Outcomes, NoState, State, States, Contents
<1>3. o \in Operations /\ o.kind = kind /\ o.basis = run.basis /\ o.result = NoResult
  BY <1>2 DEF Operation, Operations, Attempts, Runs
<1> HIDE DEF o
<1>4. /\ q \in Seq(Operations) /\ Len(q) = Len(run.ops) + 1
      /\ \A i \in 1 .. Len(run.ops) : q[i] = run.ops[i]
      /\ q[Len(run.ops) + 1] = o
  BY <1>1, <1>3, AppendProperties
<1> HIDE DEF q
<1>5. /\ c \in Runs
      /\ c.current = run.current /\ c.status = run.status /\ c.counters = run.counters
      /\ c.basis = run.basis /\ c.findings = run.findings /\ c.accepted = run.accepted /\ c.ops = q
  BY <1>4 DEF Runs
<1>6. Opened(kind, name) = c
  BY DEF Opened, o, q
<1> HIDE DEF c
<1> QED
  BY <1>3, <1>4, <1>5, <1>6

(***************************************************************************)
(* Steps that change neither a result nor the recorded state.              *)
(***************************************************************************)
LEMMA SameOperations ==
  ASSUME run \in Runs, run' \in Runs, SameWork(run', run)
  PROVE  /\ Ops = 1 .. Len(run.ops) /\ Ops' = Ops /\ Len(run'.ops) = Len(run.ops)
         /\ \A i \in Ops : /\ Answered(i)' <=> Answered(i)
                           /\ run'.ops[i].kind = run.ops[i].kind /\ run'.ops[i].basis = run.ops[i].basis
                           /\ run'.ops[i].result = run.ops[i].result
                           /\ Proves(i, "required")' <=> Proves(i, "required")
                           /\ Proves(i, "review")' <=> Proves(i, "review")
                           /\ Checked(i)' <=> Checked(i)
<1>1. Ops = 1 .. Len(run.ops) /\ Ops' = Ops /\ Len(run.ops) \in Nat /\ Len(run'.ops) = Len(run.ops)
  BY Work DEF Ops, SameWork
<1>2. \A i \in Ops : /\ Answered(i)' <=> Answered(i)
                     /\ run'.ops[i].kind = run.ops[i].kind /\ run'.ops[i].basis = run.ops[i].basis
                     /\ run'.ops[i].result = run.ops[i].result
                     /\ Proves(i, "required")' <=> Proves(i, "required")
                     /\ Proves(i, "review")' <=> Proves(i, "review")
  BY <1>1 DEF SameWork, Answered, Proves
<1>3. \A j \in Ops : Checked(j)' <=> Checked(j)
  <2> TAKE j \in Ops
  <2>1. 1 .. j - 1 \subseteq Ops /\ \A i \in 1 .. j - 1 : i + 1 .. Len(run.ops) \subseteq Ops
    BY <1>1
  <2>2. Checked(j) <=> \E i \in 1 .. j - 1 : Proves(i, "required") /\ \A k \in i + 1 .. Len(run.ops) : run.ops[k].kind # "required"
    BY DEF Checked
  <2>3. Checked(j)' <=> \E i \in 1 .. j - 1 : Proves(i, "required")' /\ \A k \in i + 1 .. Len(run.ops) : run'.ops[k].kind # "required"
    BY <1>1 DEF Checked
  <2> HIDE DEF Checked
  <2> QED
    BY <1>1, <1>2, <2>1, <2>2, <2>3
<1> QED
  BY <1>1, <1>2, <1>3

\* Bases and the results, which do not depend on the step in progress.
LEMMA SameRecord ==
  ASSUME Types, Bases, Current, run' \in Runs, SameWork(run', run), inputs' = inputs
  PROVE  Bases' /\ Current'
<1>1. run \in Runs
  BY DEF Types
<1>2. run'.current = run.current /\ run'.basis = run.basis
  BY DEF SameWork
<1> QED
  BY <1>1, <1>2, SameOperations DEF Bases, Current

LEMMA InputsKept ==
  ASSUME Types, inputs' = inputs, changes' \in 0 .. MaxChanges, changes <= changes'
  PROVE  inputs' \in 1 .. changes' + 1
<1>1. inputs \in 1 .. changes + 1 /\ changes \in Nat /\ changes' \in Nat
  BY AssignmentAssumption DEF Types
<1>2. inputs \in Nat
  BY <1>1
<1>3. \A a, b, c \in Nat : a \in 1 .. b + 1 /\ b <= c => a \in 1 .. c + 1
  OBVIOUS
<1> QED
  BY <1>1, <1>2, <1>3

LEMMA PauseSafe ==
  ASSUME AssignmentInv, ~run.accepted,
         run' \in Runs, SameWork(run', run), run'.status = "paused", pc' \in {"paused", "refused"},
         step' = NoStep, UNCHANGED <<receipts, inputs, resumes>>,
         ws' \in Contents, changes' \in 0 .. MaxChanges, changes <= changes'
  PROVE  AssignmentInv'
<1> USE DEF AssignmentInv
<1>1. /\ run \in Runs /\ Len(run.ops) \in Nat
      /\ run'.current = run.current /\ run'.basis = run.basis /\ run'.findings = run.findings
      /\ run'.accepted = run.accepted
  BY Work DEF Types, SameWork
<1>2. Types'
  <2>1. NoStep \in Steps /\ NoStep.op = 0
    BY AssignmentAssumption DEF NoStep, NoSet, NoState, State, States, Steps, Kinds, Contents, Sources
  <2>2. inputs' \in 1 .. changes' + 1
    BY InputsKept
  <2>3. step' \in Steps /\ step'.op <= Len(run'.ops)
    BY <1>1, <2>1, SameOperations
  <2> QED
    BY <1>1, <2>3, <2>2, SameOperations DEF Types, Places
<1>3. Bases' /\ Current'
  BY SameRecord
<1>4. LastOpen'
  BY <1>1, SameOperations DEF LastOpen, Calls, Sets
<1>5. StepInv'
  BY <1>1, SameOperations DEF StepInv, Calls, Sets
<1>6. ContentInv'
  BY DEF ContentInv, Calls
<1>7. ReviewInv'
  BY DEF ReviewInv, Calls
<1>8. ReceiptInv'
  BY <1>1, SameOperations DEF ReceiptInv
<1>9. VerdictInv'
  BY <1>1, SameOperations DEF VerdictInv
<1>10. AcceptInv'
  BY <1>1 DEF AcceptInv
<1> QED
  BY <1>2, <1>3, <1>4, <1>5, <1>6, <1>7, <1>8, <1>9, <1>10

LEMMA CallSafe ==
  ASSUME AssignmentInv, pc \in Calls, pc' \in Calls, step' = step,
         run' \in Runs, SameWork(run', run), run'.status = "active",
         UNCHANGED <<receipts, ws, changes, inputs, resumes>>
  PROVE  AssignmentInv'
<1> USE DEF AssignmentInv
<1>1. /\ run \in Runs /\ Len(run.ops) \in Nat
      /\ run'.current = run.current /\ run'.basis = run.basis /\ run'.findings = run.findings
      /\ run'.accepted = run.accepted
  BY Work DEF Types, SameWork
<1>2. Types'
  BY <1>1, SameOperations DEF Types, Places, Calls
<1>3. Bases' /\ Current'
  BY SameRecord
<1>4. LastOpen'
  BY <1>1, SameOperations DEF LastOpen, Calls, Sets
<1>5. StepInv'
  BY <1>1, SameOperations DEF StepInv, Calls, Sets
<1>6. ContentInv'
  BY <1>1 DEF ContentInv, Calls
<1>7. ReviewInv'
  <2>1. step.op \in Ops
    BY DEF StepInv
  <2> QED
    BY <1>1, <2>1, SameOperations DEF ReviewInv
<1>8. ReceiptInv'
  BY <1>1, SameOperations DEF ReceiptInv
<1>9. VerdictInv'
  BY <1>1, SameOperations DEF VerdictInv, Calls
<1>10. AcceptInv'
  BY <1>1 DEF AcceptInv, Calls
<1> QED
  BY <1>2, <1>3, <1>4, <1>5, <1>6, <1>7, <1>8, <1>9, <1>10

LEMMA SetSafe ==
  ASSUME AssignmentInv, pc \in Sets, pc' \in Sets,
         step' \in Steps, step'.op = step.op, step'.kind = step.kind,
         run' \in Runs, SameWork(run', run), run'.status = "active",
         UNCHANGED <<receipts, inputs, resumes>>,
         ws' \in Contents, changes' \in 0 .. MaxChanges, changes <= changes',
         pc' \in {"outcome", "result"} =>
           /\ step'.set.status = "passed" => step'.set.state.by = "checks"
           /\ \/ step'.set.state.content = ws'
              \/ step'.set.status = "blocked" \/ step'.set.state = NoState
  PROVE  AssignmentInv'
<1> USE DEF AssignmentInv
<1>1. /\ run \in Runs /\ Len(run.ops) \in Nat
      /\ run'.current = run.current /\ run'.basis = run.basis /\ run'.findings = run.findings
      /\ run'.accepted = run.accepted
  BY Work DEF Types, SameWork
<1>2. Types'
  <2>1. inputs' \in 1 .. changes' + 1
    BY InputsKept
  <2> QED
    BY <1>1, <2>1, SameOperations DEF Types, Places, Sets
<1>3. Bases' /\ Current'
  BY SameRecord
<1>4. LastOpen'
  BY <1>1, SameOperations DEF LastOpen, Calls, Sets
<1>5. StepInv'
  BY <1>1, SameOperations DEF StepInv, Calls, Sets
<1>6. ContentInv'
  BY DEF ContentInv, Calls, Sets
<1>7. ReviewInv'
  BY DEF ReviewInv, Calls, Sets
<1>8. ReceiptInv'
  BY <1>1, SameOperations DEF ReceiptInv
<1>9. VerdictInv'
  BY <1>1, SameOperations DEF VerdictInv, Sets
<1>10. AcceptInv'
  BY <1>1 DEF AcceptInv, Sets
<1> QED
  BY <1>2, <1>3, <1>4, <1>5, <1>6, <1>7, <1>8, <1>9, <1>10

LEMMA RefuseDoes ==
  ASSUME run \in Runs, Refuse(run)
  PROVE  /\ run' \in Runs /\ SameWork(run', run) /\ run'.status = "paused"
         /\ run'.counters = run.counters /\ pc' = "refused" /\ step' = NoStep
<1> DEFINE c == [run EXCEPT !.status = "paused"]
<1>1. /\ c \in Runs /\ c.status = "paused" /\ c.ops = run.ops /\ c.current = run.current
      /\ c.basis = run.basis /\ c.findings = run.findings /\ c.accepted = run.accepted
      /\ c.counters = run.counters
  BY DEF Runs
<1>2. run' = c /\ pc' = "refused" /\ step' = NoStep
  BY DEF Refuse, Pauses
<1> HIDE DEF c
<1> QED
  BY <1>1, <1>2 DEF SameWork

LEMMA ReserveDoes ==
  ASSUME run \in Runs, step.op \in Ops, NEW kind \in Kinds, NEW at, Reserve(kind, at)
  PROVE  /\ run' \in Runs /\ SameWork(run', run)
         /\ \/ run'.status = "paused" /\ pc' = "paused" /\ step' = NoStep
            \/ run'.status = run.status /\ pc' = at /\ step' = step
         /\ \/ run'.counters = run.counters
            \/ /\ kind \in Counters /\ run.counters[kind] < Limits[kind]
               /\ run'.counters = [run.counters EXCEPT ![kind] = @ + 1]
<1> DEFINE a == Attempt(run, step.op, "open")
           c == [a EXCEPT !.counters[kind] = @ + 1]
<1>1. /\ a \in Runs /\ SameWork(a, run) /\ a.status = run.status /\ a.counters = run.counters
  <2>1. step.op \in 1 .. Len(run.ops)
    BY Work DEF Ops
  <2> QED
    BY <2>1, AttemptDoes DEF Attempts
<1> HIDE DEF a
<1>2. CASE Pauses(Paused(kind), "paused") /\ kind \in Counters
  BY <1>2, PausedDoes DEF Pauses
<1>3. CASE Pauses(Paused("none"), "paused")
  BY <1>3, PausedDoes DEF Pauses
<1>4. CASE run' = a /\ pc' = at /\ UNCHANGED step
  BY <1>1, <1>4
<1>5. CASE /\ kind \in Counters /\ ~(run.counters[kind] >= Limits[kind])
           /\ run' = c /\ pc' = at /\ UNCHANGED step
  <2>1. run.counters \in [Counters -> Nat] /\ run.counters[kind] \in Nat /\ Limits[kind] \in Nat
    BY <1>5, AssignmentAssumption DEF Runs
  <2>2. /\ c \in Runs /\ c.status = a.status /\ c.ops = a.ops /\ c.current = a.current
        /\ c.basis = a.basis /\ c.findings = a.findings /\ c.accepted = a.accepted
        /\ c.counters = [run.counters EXCEPT ![kind] = @ + 1]
    <3> DEFINE d == [run.counters EXCEPT ![kind] = @ + 1]
    <3>1. d \in [Counters -> Nat]
      <4>1. run.counters[kind] + 1 \in Nat
        BY <2>1
      <4>2. \A f \in [Counters -> Nat], v \in Nat : [f EXCEPT ![kind] = v] \in [Counters -> Nat]
        OBVIOUS
      <4> QED
        BY <2>1, <4>1, <4>2
    <3>2. c = [a EXCEPT !.counters = d]
      BY <1>1
    <3> HIDE DEF d
    <3> QED
      BY <1>1, <3>1, <3>2 DEF Runs, d
  <2> HIDE DEF c
  <2>3. SameWork(c, run)
    BY <1>1, <2>2 DEF SameWork
  <2>4. run.counters[kind] < Limits[kind]
    BY <1>5, <2>1
  <2> QED
    BY <1>1, <1>5, <2>2, <2>3, <2>4
<1> QED
  BY <1>2, <1>3, <1>4, <1>5 DEF Reserve, a

LEMMA OpenRun ==
  ASSUME AssignmentInv
  PROVE  /\ run \in Runs /\ (pc # "accepted" => ~run.accepted)
         /\ pc \in Calls \cup Sets => step.op \in Ops /\ step.op \in 1 .. Len(run.ops)
  BY Work DEF AssignmentInv, Types, AcceptInv, StepInv, Ops

LEMMA MayChangeDoes ==
  ASSUME Types, MayChange \/ UNCHANGED <<ws, changes>>
  PROVE  ws' \in Contents /\ changes' \in 0 .. MaxChanges /\ changes <= changes'
  BY AssignmentAssumption DEF Types, MayChange

LEMMA NoRouteSafe == AssignmentInv /\ NoRoute => AssignmentInv'
<1> SUFFICES ASSUME AssignmentInv, NoRoute
             PROVE  AssignmentInv'
  OBVIOUS
<1>1. Refuse(run) /\ pc = "dispatch" /\ UNCHANGED <<receipts, ws, changes, inputs, resumes>>
  BY DEF NoRoute, At, disk, world
<1> QED
  BY <1>1, OpenRun, RefuseDoes, PauseSafe, MayChangeDoes DEF AssignmentInv

LEMMA ReplaySafe == AssignmentInv /\ Replay => AssignmentInv'
<1> SUFFICES ASSUME AssignmentInv, Replay
             PROVE  AssignmentInv'
  OBVIOUS
<1>1. pc = "call" /\ run.status = "active" /\ UNCHANGED <<receipts, ws, changes, inputs, resumes>>
  BY DEF Replay, At, disk, world
<1>2. CASE Refuse(run)
  BY <1>1, <1>2, OpenRun, RefuseDoes, PauseSafe, MayChangeDoes DEF AssignmentInv
<1>3. CASE pc' = "settle" /\ UNCHANGED <<run, step>>
  <2>1. SameWork(run', run)
    BY <1>3 DEF SameWork
  <2> QED
    BY <1>1, <1>3, <2>1, OpenRun, CallSafe DEF Calls
<1> QED
  BY <1>2, <1>3 DEF Replay

LEMMA StartTurnSafe == AssignmentInv /\ StartTurn => AssignmentInv'
<1> SUFFICES ASSUME AssignmentInv, StartTurn
             PROVE  AssignmentInv'
  OBVIOUS
<1>1. /\ pc = "call" /\ run.status = "active" /\ Reserve(step.kind, "turn")
      /\ UNCHANGED <<receipts, ws, changes, inputs, resumes>>
  BY DEF StartTurn, At, disk, world
<1>2. step.kind \in Kinds /\ step.op \in Ops /\ run \in Runs /\ ~run.accepted
  BY <1>1, OpenRun DEF AssignmentInv, Types, Steps, Calls
<1>3. \/ run' \in Runs /\ SameWork(run', run) /\ run'.status = "paused" /\ pc' = "paused" /\ step' = NoStep
      \/ run' \in Runs /\ SameWork(run', run) /\ run'.status = "active" /\ pc' = "turn" /\ step' = step
  BY <1>1, <1>2, ReserveDoes
<1> QED
  BY <1>1, <1>2, <1>3, PauseSafe, CallSafe, MayChangeDoes DEF AssignmentInv, Calls

LEMMA SettleSafe == AssignmentInv /\ Settle => AssignmentInv'
<1> SUFFICES ASSUME AssignmentInv, Settle
             PROVE  AssignmentInv'
  OBVIOUS
<1>1. /\ pc = "settle" /\ run.status = "active" /\ pc' = "answer" /\ run' = Attempt(run, step.op, "succeeded")
      /\ UNCHANGED <<receipts, ws, changes, inputs, step, resumes>>
  BY DEF Settle, At, disk, world
<1>2. run' \in Runs /\ SameWork(run', run) /\ run'.status = "active"
  BY <1>1, OpenRun, AttemptDoes DEF Calls, Attempts
<1> QED
  BY <1>1, <1>2, CallSafe DEF Calls

LEMMA TurnEndsSafe == AssignmentInv /\ TurnEnds => AssignmentInv'
<1> SUFFICES ASSUME AssignmentInv, TurnEnds
             PROVE  AssignmentInv'
  OBVIOUS
<1>1. /\ pc = "turn" /\ run' = Attempt(Paused("none"), step.op, "failed") /\ pc' = "paused" /\ step' = NoStep
      /\ UNCHANGED <<receipts, inputs, resumes>> /\ (MayChange \/ UNCHANGED <<ws, changes>>)
  BY DEF TurnEnds, At, disk, Pauses
<1>2. step.op \in 1 .. Len(run.ops) /\ run \in Runs /\ ~run.accepted
  BY <1>1, OpenRun DEF Calls
<1> DEFINE p == Paused("none")
<1>3. p \in Runs /\ SameWork(p, run) /\ p.status = "paused" /\ p.ops = run.ops
  BY <1>2, PausedDoes
<1> HIDE DEF p
<1>4. run' \in Runs /\ SameWork(run', p) /\ run'.status = "paused"
  BY <1>1, <1>2, <1>3, AttemptDoes DEF p, Attempts
<1>5. SameWork(run', run)
  BY <1>3, <1>4 DEF SameWork
<1> QED
  BY <1>1, <1>2, <1>4, <1>5, PauseSafe, MayChangeDoes DEF AssignmentInv

LEMMA StopSafe == AssignmentInv /\ (Blocked \/ CheckBlocked \/ Crash) => AssignmentInv'
<1> SUFFICES ASSUME AssignmentInv, Blocked \/ CheckBlocked \/ Crash
             PROVE  AssignmentInv'
  OBVIOUS
<1>1. /\ pc # "accepted" /\ run' = Paused("none") /\ pc' = "paused" /\ step' = NoStep
      /\ UNCHANGED <<receipts, ws, changes, inputs, resumes>>
  BY DEF Blocked, CheckBlocked, Crash, At, disk, world, Pauses
<1>2. run' \in Runs /\ SameWork(run', run) /\ run'.status = "paused" /\ ~run.accepted
  BY <1>1, OpenRun, PausedDoes
<1> QED
  BY <1>1, <1>2, PauseSafe, MayChangeDoes DEF AssignmentInv

LEMMA ReserveChecksSafe == AssignmentInv /\ ReserveChecks => AssignmentInv'
<1> SUFFICES ASSUME AssignmentInv, ReserveChecks
             PROVE  AssignmentInv'
  OBVIOUS
<1>1. /\ pc = "reserve" /\ run.status = "active" /\ Reserve(step.kind, "set")
      /\ UNCHANGED <<receipts, ws, changes, inputs, resumes>>
  BY DEF ReserveChecks, At, disk, world
<1>2. step.kind \in Kinds /\ step \in Steps /\ step.op \in Ops /\ run \in Runs /\ ~run.accepted
  BY <1>1, OpenRun DEF AssignmentInv, Types, Steps, Sets
<1>3. \/ run' \in Runs /\ SameWork(run', run) /\ run'.status = "paused" /\ pc' = "paused" /\ step' = NoStep
      \/ run' \in Runs /\ SameWork(run', run) /\ run'.status = "active" /\ pc' = "set" /\ step' = step
  BY <1>1, <1>2, ReserveDoes
<1>4. ws' \in Contents /\ changes' \in 0 .. MaxChanges /\ changes <= changes'
  BY <1>1, MayChangeDoes DEF AssignmentInv
<1> QED
  BY <1>1, <1>2, <1>3, <1>4, PauseSafe, SetSafe DEF Sets

LEMMA RunSetSafe == AssignmentInv /\ RunSet => AssignmentInv'
<1> SUFFICES ASSUME AssignmentInv, RunSet
             PROVE  AssignmentInv'
  OBVIOUS
<1>1. /\ pc = "set" /\ run.status = "active" /\ pc' = "outcome" /\ UNCHANGED <<run, receipts, inputs, resumes>>
      /\ (MayChange \/ UNCHANGED <<ws, changes>>)
  BY DEF RunSet, At
<1>2. ws' \in Contents /\ changes' \in 0 .. MaxChanges /\ changes <= changes'
  BY <1>1, MayChangeDoes DEF AssignmentInv
<1>3. PICK status \in {"passed", "blocked", "failed"} :
        step' = [step EXCEPT !.set =
                   [status |-> status, changed |-> ws' # ws,
                    state |-> IF status # "blocked" THEN State(ws', "checks", step.name) ELSE run.current]]
  BY DEF RunSet
<1> DEFINE s == IF status # "blocked" THEN State(ws', "checks", step.name) ELSE run.current
<1>4. step \in Steps /\ step.name \in Nat /\ run.current \in States /\ run \in Runs
  BY OpenRun DEF AssignmentInv, Types, Steps, Runs
<1>5. s \in States /\ (status # "blocked" => s.content = ws' /\ s.by = "checks")
  BY <1>2, <1>4 DEF State, States
<1> HIDE DEF s
<1>6. /\ step' \in Steps /\ step'.op = step.op /\ step'.kind = step.kind
      /\ step'.set.status = status /\ step'.set.state = s
  <2>1. (ws' # ws) \in BOOLEAN
    OBVIOUS
  <2> HIDE DEF MayChange
  <2>2. [status |-> status, changed |-> ws' # ws, state |-> s]
           \in [status : {"none", "passed", "failed", "blocked"}, changed : BOOLEAN, state : States]
    BY <1>5, <2>1
  <2> QED
    BY <1>3, <1>4, <2>2 DEF Steps, s
<1>7. SameWork(run', run)
  BY <1>1 DEF SameWork
<1> QED
  BY <1>1, <1>2, <1>4, <1>5, <1>6, <1>7, SetSafe DEF Sets

LEMMA LogsConflictSafe == AssignmentInv /\ LogsConflict => AssignmentInv'
<1> SUFFICES ASSUME AssignmentInv, LogsConflict
             PROVE  AssignmentInv'
  OBVIOUS
<1>1. /\ pc = "set" /\ run.status = "active" /\ pc' = "outcome" /\ UNCHANGED <<run, receipts, inputs, resumes>>
      /\ step' = [step EXCEPT !.set = [status |-> "failed", changed |-> ws' # ws, state |-> NoState]]
      /\ MayChange
  BY DEF LogsConflict, At, disk
<1>2. ws' \in Contents /\ changes' \in 0 .. MaxChanges /\ changes <= changes'
  BY <1>1, MayChangeDoes DEF AssignmentInv
<1>3. step \in Steps /\ run \in Runs /\ NoState \in States
  BY OpenRun, AssignmentAssumption DEF AssignmentInv, Types, Steps, NoState, State, States, Contents
<1>4. /\ step' \in Steps /\ step'.op = step.op /\ step'.kind = step.kind
      /\ step'.set.status = "failed" /\ step'.set.state = NoState
  <2>1. (ws' # ws) \in BOOLEAN
    OBVIOUS
  <2>2. [status |-> "failed", changed |-> ws' # ws, state |-> NoState]
           \in [status : {"none", "passed", "failed", "blocked"}, changed : BOOLEAN, state : States]
    BY <1>3, <2>1
  <2> QED
    BY <1>1, <1>3, <2>2 DEF Steps
<1>5. SameWork(run', run)
  BY <1>1 DEF SameWork
<1> QED
  BY <1>1, <1>2, <1>3, <1>4, <1>5, SetSafe DEF Sets

LEMMA CheckOutcomeSafe == AssignmentInv /\ CheckOutcome => AssignmentInv'
<1> SUFFICES ASSUME AssignmentInv, CheckOutcome
             PROVE  AssignmentInv'
  OBVIOUS
<1>1. /\ pc = "outcome" /\ run.status = "active" /\ pc' = "result" /\ run' = Attempt(run, step.op, SetStatus)
      /\ UNCHANGED <<receipts, ws, changes, inputs, step, resumes>>
  BY DEF CheckOutcome, At, disk, world
<1>2. run' \in Runs /\ SameWork(run', run) /\ run'.status = "active"
  BY <1>1, OpenRun, AttemptDoes DEF Sets, Attempts, SetStatus
<1>3. ws' \in Contents /\ changes' \in 0 .. MaxChanges /\ changes <= changes' /\ step \in Steps
  BY <1>1, MayChangeDoes DEF AssignmentInv, Types
<1>4. /\ step'.set.status = "passed" => step'.set.state.by = "checks"
      /\ \/ step'.set.state.content = ws'
         \/ step'.set.status = "blocked" \/ step'.set.state = NoState
  BY <1>1 DEF AssignmentInv, StepInv, ContentInv
<1> QED
  BY <1>1, <1>2, <1>3, <1>4, SetSafe DEF Sets

(***************************************************************************)
(* The choice of the next action, and the operations that it begins.       *)
(***************************************************************************)
LEMMA DeciderIs ==
  ASSUME run \in Runs
  PROVE  /\ Ops = 1 .. Len(run.ops) /\ Len(run.ops) \in Nat
         /\ Decider \in 0 .. Len(run.ops)
         /\ Decider # 0 => Decider \in Ops /\ Decides(Decider)
         /\ \A i \in Ops : Decides(i) => i <= Decider
<1> DEFINE S == {0} \cup {i \in Ops : Decides(i)}
<1>1. Ops = 1 .. Len(run.ops) /\ Len(run.ops) \in Nat
  BY Work DEF Ops
<1>2. S \in SUBSET Nat /\ S # {} /\ \A k \in S : k <= Len(run.ops)
  BY <1>1
<1>3. Decider = Max(S)
  BY DEF Decider
<1> HIDE DEF S
<1>4. Decider \in S /\ \A k \in S : k <= Decider
  BY <1>1, <1>2, <1>3, MaxOf
<1> QED
  BY <1>1, <1>4 DEF S

LEMMA Dispatch ==
  ASSUME AssignmentInv, pc = "dispatch"
  PROVE  /\ \A i \in Ops : ~Answered(i) /\ run.ops[i].kind # "implement" /\ run.ops[i].basis = run.basis
              => Unfinished /\ i = Decider /\ i = Len(run.ops)
         /\ Choice # "accept" => \A j \in Ops : ~Proves(j, "review")
         /\ Unfinished =>
              /\ Decider \in Ops /\ ~Answered(Decider)
              /\ run.ops[Decider].kind # "implement" => run.ops[Decider].basis = run.basis
              /\ Choice = [implement |-> "implement", required |-> "checks",
                           review |-> "review", requested |-> "none"][run.ops[Decider].kind]
<1>1. /\ run \in Runs /\ LastOpen /\ VerdictInv
      /\ Ops = 1 .. Len(run.ops) /\ Len(run.ops) \in Nat /\ Decider \in 0 .. Len(run.ops)
      /\ Decider # 0 => Decider \in Ops /\ Decides(Decider)
      /\ \A i \in Ops : Decides(i) => i <= Decider
  BY OpenRun, DeciderIs DEF AssignmentInv
<1>2. ASSUME NEW i \in Ops, ~Answered(i), run.ops[i].kind # "implement", run.ops[i].basis = run.basis
      PROVE  Unfinished /\ i = Decider /\ i = Len(run.ops)
  <2>1. Decides(i) /\ i = Len(run.ops)
    BY <1>1, <1>2 DEF Decides, LastOpen
  <2>2. i = Decider /\ Decider # 0
    BY <1>1, <2>1
  <2> QED
    BY <1>2, <2>1, <2>2 DEF Unfinished
<1>3. ASSUME NEW j \in Ops, Proves(j, "review")
      PROVE  Choice = "accept"
  <2>1. j = Len(run.ops) /\ run.ops[j].result.status = "succeeded" /\ run.ops[j].kind = "review"
    BY <1>1, <1>3 DEF VerdictInv, Proves
  <2>2. Answered(j)
    BY <2>1 DEF Answered, NoResult
  <2>3. Decides(j)
    BY <1>3, <2>1, <2>2 DEF Decides, Proves
  <2>4. j = Decider /\ Decider # 0
    BY <1>1, <2>1, <2>3
  <2>5. ~Unfinished
    BY <2>2, <2>4 DEF Unfinished
  <2> QED
    BY <2>1, <2>4, <2>5 DEF Choice
<1>4. ASSUME Unfinished
      PROVE  /\ Decider \in Ops /\ ~Answered(Decider)
             /\ run.ops[Decider].kind # "implement" => run.ops[Decider].basis = run.basis
             /\ Choice = [implement |-> "implement", required |-> "checks",
                          review |-> "review", requested |-> "none"][run.ops[Decider].kind]
  <2>1. Decider # 0 /\ ~Answered(Decider)
    BY <1>4 DEF Unfinished
  <2>2. run.ops[Decider].kind # "implement" => run.ops[Decider].basis = run.basis
    BY <1>1, <2>1 DEF Decides
  <2>3. Choice = [implement |-> "implement", required |-> "checks",
                  review |-> "review", requested |-> "none"][run.ops[Decider].kind]
    BY <1>4, <2>1 DEF Choice
  <2> QED
    BY <1>1, <2>1, <2>2, <2>3
<1> QED
  BY <1>2, <1>3, <1>4

\* A new operation is recorded and becomes the step in progress.
LEMMA OpenSafe ==
  ASSUME AssignmentInv, run.status = "active", pc \notin {"accepted", "paused", "refused"},
         NEW kind \in Kinds, NEW name \in Nat, NEW at \in {"call", "reserve"}, Open(kind, name, at),
         UNCHANGED <<ws, changes, inputs, resumes>>,
         at = "call" => kind \in {"implement", "review"},
         at = "reserve" => kind \in {"required", "requested"},
         \A i \in Ops : ~Answered(i) /\ run.ops[i].kind # "implement" => run.ops[i].basis # run.basis,
         \A j \in Ops : ~Proves(j, "review"),
         kind = "review" =>
           /\ run.current.content = ws
           /\ \E i \in Ops : Proves(i, "required") /\ \A k \in Ops : k > i => run.ops[k].kind # "required"
  PROVE  AssignmentInv'
<1> USE DEF AssignmentInv
<1>1. /\ run \in Runs /\ Len(run.ops) \in Nat /\ Ops = 1 .. Len(run.ops)
      /\ run.basis \in Nat /\ \A i \in Ops : run.ops[i].basis \in Nat
  <2>1. run \in Runs /\ Len(run.ops) \in Nat /\ Ops = 1 .. Len(run.ops)
    BY Work DEF Types, Ops
  <2>2. \A i \in Ops : run.ops[i] \in Operations
    BY <2>1, Work
  <2> QED
    BY SMTT(30), <2>1, <2>2, AssignmentAssumption DEF Runs, Operations
<1>n. PICK n \in Nat : n = Len(run.ops) + 1
  BY <1>1
<1>2. /\ run' \in Runs
      /\ run'.current = run.current /\ run'.status = run.status
      /\ run'.basis = run.basis /\ run'.findings = run.findings /\ run'.accepted = run.accepted
      /\ Len(run'.ops) = n /\ \A i \in Ops : run'.ops[i] = run.ops[i]
      /\ run'.ops[n].kind = kind /\ run'.ops[n].basis = run.basis /\ run'.ops[n].result = NoResult
  <2> DEFINE c == Opened(kind, name)
  <2>1. run' = c
    BY DEF Open, Opened
  <2>2. /\ c \in Runs
        /\ c.current = run.current /\ c.status = run.status
        /\ c.basis = run.basis /\ c.findings = run.findings /\ c.accepted = run.accepted
        /\ c.counters = run.counters
        /\ Len(c.ops) = Len(run.ops) + 1 /\ \A i \in 1 .. Len(run.ops) : c.ops[i] = run.ops[i]
        /\ LET o == c.ops[Len(run.ops) + 1]
           IN  o.kind = kind /\ o.basis = run.basis /\ o.result = NoResult
    BY <1>1, OpenDoes
  <2> HIDE DEF c
  <2> QED
    BY <1>1, <1>n, <2>1, <2>2
<1>3. Ops' = Ops \cup {n} /\ n \notin Ops
  <2>1. Ops' = 1 .. n
    BY <1>2, Work DEF Ops
  <2> QED
    BY <1>1, <1>n, <2>1
<1>4. /\ receipts' \in Seq(Answers) /\ Len(receipts') = n
      /\ \A i \in Ops : receipts'[i] = receipts[i]
      /\ receipts'[n] = NoAnswer
  <2>1. NoAnswer \in Answers
    BY AssignmentAssumption DEF NoAnswer, Answers, FindingStates, Contents
  <2>2. receipts' = Append(receipts, NoAnswer) /\ receipts \in Seq(Answers) /\ Len(receipts) = Len(run.ops)
    BY DEF Open, Types
  <2> QED
    BY <1>1, <1>n, <2>1, <2>2, AppendProperties
<1>5. /\ step' \in Steps /\ step'.op = n /\ step'.kind = kind /\ pc' = at
  BY <1>1, <1>n, AssignmentAssumption DEF Open, Continue, Steps, NoSet, NoState, State, States, Contents
<1>6. /\ \A i \in Ops : Answered(i)' <=> Answered(i)
      /\ \A i \in Ops : Proves(i, "required")' <=> Proves(i, "required")
      /\ \A i \in Ops : Proves(i, "review")' <=> Proves(i, "review")
      /\ ~Answered(n)' /\ ~Proves(n, "review")' /\ n \in Nat
  BY SMTT(30), <1>1, <1>2, <1>n DEF Answered, Proves, NoResult
<1>7. \A j \in Ops' : ~Proves(j, "review")'
  BY <1>3, <1>6
<1>8. Types'
  BY <1>1, <1>2, <1>4, <1>5, <1>6 DEF Types, Places
<1>9. Bases'
  <2>1. \A i \in Ops : run.ops[i].basis <= run.basis /\ i < n
    BY <1>1, <1>n DEF Bases
  <2>2. \A i \in Ops' : run'.ops[i].basis <= run'.basis
    BY <1>1, <1>2, <1>3, <2>1
  <2>3. \A i, k \in Ops' : i <= k => run'.ops[i].basis <= run'.ops[k].basis
    <3> TAKE i, k \in Ops'
    <3>1. CASE k \in Ops
      <4>1. CASE i \in Ops
        BY <1>2, <3>1, <4>1 DEF Bases
      <4>2. CASE i = n
        BY <1>1, <1>n, <3>1, <4>2
      <4> QED
        BY <1>3, <4>1, <4>2
    <3>2. CASE k = n
      BY <1>2, <2>2, <3>2
    <3> QED
      BY <1>3, <3>1, <3>2
  <2> QED
    BY <1>2, <2>2, <2>3 DEF Bases
<1>10. Current'
  BY <1>2, <1>3 DEF Current, NoResult
<1>11. LastOpen'
  BY <1>2, <1>3, <1>5, <1>6 DEF LastOpen
<1>12. StepInv'
  BY <1>2, <1>3, <1>4, <1>5, <1>6 DEF StepInv, Calls, Sets, NoAnswer
<1>13. ContentInv'
  BY <1>2, <1>5 DEF ContentInv, Calls
<1>14. ReviewInv'
  <2> SUFFICES ASSUME kind = "review"
               PROVE  Checked(n)'
    BY <1>2, <1>5 DEF ReviewInv
  <2>1. PICK i \in Ops : Proves(i, "required") /\ \A k \in Ops : k > i => run.ops[k].kind # "required"
    OBVIOUS
  <2>2. i \in 1 .. n - 1 /\ Proves(i, "required")'
    BY <1>1, <1>6, <2>1, <1>n
  <2>3. \A k \in i + 1 .. n : k = n \/ (k \in Ops /\ k > i)
    BY <1>1, <2>2, <1>n
  <2>4. \A k \in i + 1 .. Len(run'.ops) : run'.ops[k].kind # "required"
    BY <1>2, <2>1, <2>3
  <2> QED
    BY <2>2, <2>4 DEF Checked
<1>15. ReceiptInv'
  BY <1>2, <1>3, <1>4, <1>6 DEF ReceiptInv
<1>16. VerdictInv'
  BY <1>7 DEF VerdictInv
<1>17. AcceptInv'
  BY <1>2 DEF AcceptInv
<1> QED
  BY <1>8, <1>9, <1>10, <1>11, <1>12, <1>13, <1>14, <1>15, <1>16, <1>17

\* An operation without a result is continued.
LEMMA ResumedSafe ==
  ASSUME AssignmentInv, pc = "dispatch", run.status = "active", Unfinished, Choice # "accept",
         NEW name \in Nat, NEW at \in {"call", "reserve"}, Resumed(run.ops[Decider].kind, name, at),
         UNCHANGED <<ws, changes, inputs, resumes>>,
         at = "call" => run.ops[Decider].kind \in {"implement", "review"},
         at = "reserve" => run.ops[Decider].kind \in {"required", "requested"},
         run.ops[Decider].kind = "review" =>
           \E i \in Ops : Proves(i, "required") /\ \A k \in Ops : k > i => run.ops[k].kind # "required"
  PROVE  AssignmentInv'
<1> USE DEF AssignmentInv
<1>1. /\ run \in Runs /\ Len(run.ops) \in Nat /\ Ops = 1 .. Len(run.ops)
      /\ \A i \in Ops : run.ops[i].kind \in Kinds
  <2>1. run \in Runs /\ Len(run.ops) \in Nat /\ Ops = 1 .. Len(run.ops)
    BY Work DEF Types, Ops
  <2>2. \A i \in Ops : run.ops[i] \in Operations
    BY <2>1, Work
  <2> QED
    BY <2>1, <2>2 DEF Operations
<1>2. /\ Decider \in Ops /\ ~Answered(Decider)
      /\ run.ops[Decider].kind # "implement" => run.ops[Decider].basis = run.basis
      /\ \A i \in Ops : ~Answered(i) /\ run.ops[i].kind # "implement" /\ run.ops[i].basis = run.basis
              => i = Decider /\ i = Len(run.ops)
      /\ \A j \in Ops : ~Proves(j, "review")
  BY Dispatch
<1>n. PICK n \in Ops : n = Decider
  BY <1>2
<1> DEFINE kind == run.ops[n].kind
<1>3. /\ UNCHANGED <<run, receipts>> /\ step' \in Steps /\ step'.op = n /\ step'.kind = run.ops[n].kind /\ pc' = at
  <2>1. kind \in Kinds /\ n \in Nat
    BY <1>1
  <2>2. UNCHANGED <<run, receipts>> /\ step' = [op |-> n, name |-> name, kind |-> kind, set |-> NoSet] /\ pc' = at
    BY <1>n DEF Resumed, Continue
  <2> HIDE DEF kind
  <2>3. /\ UNCHANGED <<run, receipts>> /\ step' \in Steps /\ step'.op = n /\ step'.kind = kind /\ pc' = at
    BY <2>1, <2>2, AssignmentAssumption DEF Steps, NoSet, NoState, State, States, Contents
  <2> QED
    BY <2>3 DEF kind
<1> HIDE DEF kind
<1>4. SameWork(run', run) /\ run' \in Runs
  BY <1>1, <1>3 DEF SameWork
<1>5. Types'
  BY <1>1, <1>3 DEF Types, Places
<1>6. Bases' /\ Current'
  BY <1>4, SameRecord
<1>7. LastOpen'
  BY <1>1, <1>2, <1>n, <1>3, <1>4, SameOperations DEF LastOpen
<1>8. StepInv'
  BY <1>1, <1>2, <1>n, <1>3, <1>4, SameOperations DEF StepInv, Calls, Sets
<1>9. ContentInv'
  BY <1>3 DEF ContentInv, Calls
<1>10. ReviewInv'
  <2> SUFFICES ASSUME run.ops[n].kind = "review"
               PROVE  n = Len(run'.ops) /\ Checked(n)'
    BY <1>3 DEF ReviewInv
  <2>1. PICK i \in Ops : Proves(i, "required") /\ \A k \in Ops : k > i => run.ops[k].kind # "required"
    BY <1>n
  <2>2. n = Len(run.ops) /\ n = Len(run'.ops)
    BY <1>2, <1>n, <1>3
  <2>3. i # n
    BY <1>2, <1>n, <2>1 DEF Proves, Answered, NoResult
  <2>4. i \in 1 .. n - 1 /\ \A k \in i + 1 .. Len(run.ops) : k \in Ops /\ k > i
    BY <1>1, <2>2, <2>3
  <2>5. Checked(n)
    BY <2>1, <2>4 DEF Checked
  <2> QED
    BY <1>1, <1>4, <2>2, <2>5, SameOperations
<1>11. ReceiptInv'
  BY <1>1, <1>3, <1>4, SameOperations DEF ReceiptInv
<1>12. VerdictInv'
  BY <1>1, <1>2, <1>4, SameOperations DEF VerdictInv
<1>13. AcceptInv'
  BY <1>3 DEF AcceptInv
<1> QED
  BY <1>5, <1>6, <1>7, <1>8, <1>9, <1>10, <1>11, <1>12, <1>13

\* A step of the dispatch that does not go on with an unfinished operation
\* finds none that could still get a result.
LEMMA Begins ==
  ASSUME AssignmentInv, pc = "dispatch", Choice # "accept", ~Unfinished
  PROVE  /\ \A i \in Ops : ~Answered(i) /\ run.ops[i].kind # "implement" => run.ops[i].basis # run.basis
         /\ \A j \in Ops : ~Proves(j, "review")
BY Dispatch

LEMMA ImplementSafe == AssignmentInv /\ Implement => AssignmentInv'
<1> SUFFICES ASSUME AssignmentInv, Implement
             PROVE  AssignmentInv'
  OBVIOUS
<1>1. /\ pc = "dispatch" /\ run.status = "active" /\ Choice = "implement"
      /\ UNCHANGED <<ws, changes, inputs, resumes>>
  BY DEF Implement, At, world
<1>2. CASE Unfinished
  <2>1. Resumed("implement", 0, "call")
    BY <1>2 DEF Implement
  <2>2. run.ops[Decider].kind \in Kinds /\ Decider \in Ops
    BY <1>1, <1>2, Dispatch, OpenRun, Work DEF Ops, Operations
  <2>3. run.ops[Decider].kind = "implement"
    BY <1>1, <1>2, <2>2, Dispatch DEF Kinds
  <2> QED
    BY <1>1, <1>2, <2>1, <2>3, ResumedSafe
<1>3. CASE ~Unfinished
  <2>1. Open("implement", 0, "call")
    BY <1>3 DEF Implement
  <2> QED
    BY <1>1, <1>3, <2>1, Begins, OpenSafe DEF Kinds
<1> QED
  BY <1>2, <1>3

LEMMA ChecksSafe == AssignmentInv /\ Checks => AssignmentInv'
<1> SUFFICES ASSUME AssignmentInv, Checks
             PROVE  AssignmentInv'
  OBVIOUS
<1>1. /\ pc = "dispatch" /\ run.status = "active" /\ Choice = "checks"
      /\ UNCHANGED <<ws, changes, inputs, resumes>>
  BY DEF Checks, At, world
<1>2. NextName \in Nat /\ run \in Runs
  BY OpenRun, NextNameExists
<1>3. CASE Refuse(run) /\ UNCHANGED receipts
  BY <1>1, <1>3, OpenRun, RefuseDoes, PauseSafe, MayChangeDoes DEF AssignmentInv
<1>4. CASE Unfinished /\ Resumed("required", NextName, "reserve")
  <2>1. run.ops[Decider].kind \in Kinds /\ Decider \in Ops
    BY <1>1, <1>4, Dispatch, OpenRun, Work DEF Ops, Operations
  <2>2. run.ops[Decider].kind = "required"
    BY <1>1, <1>4, <2>1, Dispatch DEF Kinds
  <2> QED
    BY <1>1, <1>2, <1>4, <2>2, ResumedSafe
<1>5. CASE ~Unfinished /\ Open("required", NextName, "reserve")
  BY <1>1, <1>2, <1>5, Begins, OpenSafe DEF Kinds
<1> QED
  BY <1>3, <1>4, <1>5 DEF Checks

LEMMA StartTaskReviewSafe == AssignmentInv /\ StartTaskReview => AssignmentInv'
<1> SUFFICES ASSUME AssignmentInv, StartTaskReview
             PROVE  AssignmentInv'
  OBVIOUS
<1>1. /\ pc = "dispatch" /\ run.status = "active" /\ Choice = "review"
      /\ UNCHANGED <<ws, changes, inputs, resumes>>
  BY DEF StartTaskReview, At, world
<1>2. /\ run \in Runs /\ Len(run.ops) \in Nat /\ Ops = 1 .. Len(run.ops)
      /\ \A i \in Ops : run.ops[i] \in Operations
  BY OpenRun, Work DEF Ops
<1>3. CASE Refuse(run) /\ UNCHANGED receipts
  BY <1>1, <1>3, OpenRun, RefuseDoes, PauseSafe, MayChangeDoes DEF AssignmentInv
<1>4. ASSUME CanStartTaskReview,
             \A i \in Ops : ~Answered(i) /\ run.ops[i].kind = "required" => run.ops[i].basis # run.basis
      PROVE  \E i \in Ops : Proves(i, "required") /\ \A k \in Ops : k > i => run.ops[k].kind # "required"
  <2> DEFINE done == {i \in Ops : run.ops[i].kind = "required" /\ Answered(i)}
  <2>1. done # {} /\ Proves(Max(done), "required")
    BY <1>4 DEF CanStartTaskReview
  <2>2. done \in SUBSET Nat /\ \A k \in done : k <= Len(run.ops)
    BY <1>2
  <2>m. PICK m \in done : m = Max(done) /\ \A k \in done : k <= m
    <3> HIDE DEF done
    <3> QED
      BY <1>2, <2>1, <2>2, MaxOf
  <2>3. Proves(m, "required") /\ m \in Ops
    BY <2>1, <2>m
  <2>4. ASSUME NEW k \in Ops, k > m, run.ops[k].kind = "required"
        PROVE  FALSE
    <3>1. k \notin done
      BY <1>2, <2>m, <2>4
    <3>2. ~Answered(k)
      BY <2>4, <3>1
    <3>3. run.ops[m].basis = run.basis
      BY <2>3 DEF Proves
    <3>4. run.ops[m].basis <= run.ops[k].basis /\ run.ops[k].basis <= run.basis
      BY <1>2, <2>3, <2>4 DEF AssignmentInv, Bases
    <3>5. run.ops[k].basis \in Nat /\ run.basis \in Nat
      BY SMTT(30), <1>2, <2>4, AssignmentAssumption DEF Operations, Runs
    <3>6. run.ops[k].basis = run.basis
      BY <3>3, <3>4, <3>5
    <3> QED
      BY <1>4, <2>4, <3>2, <3>6
  <2> QED
    BY <2>3, <2>4
<1>5. CASE CanStartTaskReview /\ Unfinished /\ Resumed("review", 0, "call")
  <2>1. run.ops[Decider].kind \in Kinds /\ Decider \in Ops
    BY <1>1, <1>2, <1>5, Dispatch DEF Operations
  <2>2. run.ops[Decider].kind = "review"
    BY <1>1, <1>5, <2>1, Dispatch DEF Kinds
  <2>3. \A i \in Ops : ~Answered(i) /\ run.ops[i].kind = "required" => run.ops[i].basis # run.basis
    BY <1>1, <2>2, Dispatch
  <2> QED
    BY <1>1, <1>4, <1>5, <2>2, <2>3, ResumedSafe
<1>6. CASE CanStartTaskReview /\ ~Unfinished /\ Open("review", 0, "call")
  <2>1. run.current.content = ws
    BY <1>1 DEF AssignmentInv, ContentInv
  <2>2. /\ \A i \in Ops : ~Answered(i) /\ run.ops[i].kind # "implement" => run.ops[i].basis # run.basis
        /\ \A j \in Ops : ~Proves(j, "review")
    BY <1>1, <1>6, Begins
  <2>3. \E i \in Ops : Proves(i, "required") /\ \A k \in Ops : k > i => run.ops[k].kind # "required"
    BY <1>4, <1>6, <2>2
  <2> QED
    BY <1>1, <1>6, <2>1, <2>2, <2>3, OpenSafe DEF Kinds
<1> QED
  BY <1>3, <1>5, <1>6 DEF StartTaskReview

LEMMA ApplySafe == AssignmentInv /\ Apply => AssignmentInv'
<1> SUFFICES ASSUME AssignmentInv, Apply
             PROVE  AssignmentInv'
  OBVIOUS
<1>1. /\ pc = "apply" /\ run.status = "active" /\ Open(step.kind, NextName, "reserve")
      /\ UNCHANGED <<ws, changes, inputs, resumes>>
  BY DEF Apply, At, world
<1>2. NextName \in Nat /\ run \in Runs /\ step.kind \in Kinds /\ step.kind \in {"required", "requested"}
  BY <1>1, OpenRun, NextNameExists DEF AssignmentInv, Types, Steps, StepInv
<1>3. \A i \in Ops : ~Answered(i) /\ run.ops[i].kind # "implement" => run.ops[i].basis # run.basis
  BY <1>1 DEF AssignmentInv, LastOpen, StepInv
<1>4. \A j \in Ops : ~Proves(j, "review")
  BY <1>1 DEF AssignmentInv, VerdictInv
<1> QED
  BY <1>1, <1>2, <1>3, <1>4, OpenSafe

(***************************************************************************)
(* Steps that leave the record as it is.                                   *)
(***************************************************************************)
LEMMA EditSafe == AssignmentInv /\ Edit => AssignmentInv'
<1> SUFFICES ASSUME AssignmentInv, Edit
             PROVE  AssignmentInv'
  OBVIOUS
<1> USE DEF AssignmentInv
<1>1. /\ pc \in {"paused", "refused"} /\ UNCHANGED <<run, receipts, step, resumes, pc>>
      /\ \/ MayChange /\ UNCHANGED inputs
         \/ changes < MaxChanges /\ changes' = changes + 1 /\ inputs' = inputs + 1 /\ UNCHANGED ws
  BY DEF Edit, Stopped, disk
<1>2. run \in Runs /\ run' \in Runs /\ SameWork(run', run)
  BY <1>1, OpenRun DEF SameWork
<1>3. ws' \in Contents /\ changes' \in 0 .. MaxChanges /\ inputs' \in 1 .. changes' + 1 /\ inputs <= inputs'
  <2>1. CASE MayChange /\ UNCHANGED inputs
    <3>1. ws' \in Contents /\ changes' \in 0 .. MaxChanges /\ changes <= changes'
      BY <2>1, MayChangeDoes
    <3>2. inputs' \in 1 .. changes' + 1
      BY <2>1, <3>1, InputsKept
    <3>3. inputs \in 1 .. changes + 1 /\ changes \in Nat
      BY AssignmentAssumption DEF Types
    <3>4. inputs <= inputs'
      BY <2>1, <3>3
    <3> QED
      BY <3>1, <3>2, <3>4
  <2>2. CASE changes < MaxChanges /\ changes' = changes + 1 /\ inputs' = inputs + 1 /\ UNCHANGED ws
    <3>1. changes \in 0 .. MaxChanges /\ inputs \in 1 .. changes + 1 /\ ws \in Contents /\ MaxChanges \in Nat
      BY AssignmentAssumption DEF Types
    <3>2. changes \in Nat
      BY <3>1
    <3>3. changes' \in 0 .. MaxChanges
      BY <2>2, <3>1, <3>2
    <3>4. inputs' \in 1 .. changes' + 1 /\ inputs <= inputs'
      BY <2>2, <3>1, <3>2
    <3> QED
      BY <2>2, <3>1, <3>3, <3>4
  <2> QED
    BY <1>1, <2>1, <2>2
<1>4. Types'
  BY <1>1, <1>3 DEF Types
<1>5. Bases'
  <2>1. run.basis \in Nat /\ inputs \in Nat /\ inputs' \in Nat /\ run.basis <= inputs
    <3>1. run.basis \in 1 .. MaxChanges + 1 /\ MaxChanges \in Nat /\ changes \in 0 .. MaxChanges
          /\ changes' \in 0 .. MaxChanges /\ inputs \in 1 .. changes + 1
      BY <1>2, <1>3, AssignmentAssumption DEF Runs, Types
    <3>2. changes \in Nat /\ changes' \in Nat
      BY <3>1
    <3> QED
      BY <1>3, <3>1, <3>2 DEF Bases
  <2>2. run'.basis <= inputs'
    BY <1>1, <1>3, <2>1
  <2> QED
    BY <1>1, <1>2, <2>2, SameOperations DEF Bases
<1>6. Current' /\ LastOpen'
  BY <1>1, <1>2, SameOperations DEF Current, LastOpen
<1>7. StepInv'
  BY <1>1, <1>2, SameOperations DEF StepInv, Calls, Sets
<1>8. ContentInv' /\ ReviewInv'
  BY <1>1 DEF ContentInv, ReviewInv, Calls
<1>9. ReceiptInv'
  BY <1>1, <1>2, SameOperations DEF ReceiptInv
<1>10. VerdictInv'
  BY <1>1, <1>2, SameOperations DEF VerdictInv
<1>11. AcceptInv'
  BY <1>1 DEF AcceptInv
<1> QED
  BY <1>4, <1>5, <1>6, <1>7, <1>8, <1>9, <1>10, <1>11

LEMMA ChecksRequestedSafe == AssignmentInv /\ ChecksRequested => AssignmentInv'
<1> SUFFICES ASSUME AssignmentInv, ChecksRequested
             PROVE  AssignmentInv'
  OBVIOUS
<1> USE DEF AssignmentInv
<1>1. /\ pc = "answer" /\ run.status = "active" /\ receipts[step.op].kind = "requested"
      /\ step' = [step EXCEPT !.kind = "requested"] /\ pc' = "apply"
      /\ UNCHANGED <<run, receipts, ws, changes, inputs, resumes>>
  BY DEF ChecksRequested, At, disk, world
<1>2. run \in Runs /\ run' \in Runs /\ SameWork(run', run) /\ step.op \in Ops
  BY <1>1, OpenRun DEF SameWork, Calls
<1>3. step' \in Steps /\ step'.op = step.op /\ step'.kind = "requested"
  BY <1>1 DEF Types, Steps, Kinds
<1>4. Types'
  BY <1>1, <1>2, <1>3 DEF Types, Places
<1>5. Bases' /\ Current'
  BY <1>1, <1>2, SameRecord
<1>6. LastOpen'
  BY <1>1, <1>2, <1>3, SameOperations DEF LastOpen, Calls
<1>7. StepInv'
  BY <1>1, <1>2, <1>3, SameOperations DEF StepInv, Calls, Sets
<1>8. ContentInv' /\ ReviewInv'
  BY <1>1 DEF ContentInv, ReviewInv, Calls
<1>9. ReceiptInv'
  BY <1>1, <1>2, SameOperations DEF ReceiptInv
<1>10. VerdictInv'
  BY <1>1, <1>2, SameOperations DEF VerdictInv
<1>11. AcceptInv'
  BY <1>1 DEF AcceptInv
<1> QED
  BY <1>4, <1>5, <1>6, <1>7, <1>8, <1>9, <1>10, <1>11

\* A turn publishes its receipt.
LEMMA AnswerSafe ==
  ASSUME AssignmentInv, pc = "turn", run.status = "active", NEW answer \in Answers, Publish(answer),
         pc' = "settle", UNCHANGED <<run, inputs, step, resumes>>,
         ws' \in Contents, changes' \in 0 .. MaxChanges, changes <= changes',
         answer.kind \in {"passed", "changes"} => step.kind = "review",
         answer.kind \in {"ready", "requested"} => step.kind = "implement",
         step.kind = "review" =>
           /\ ws' = ws /\ answer.content = ws
           /\ answer.kind = "changes" =>
                \A f \in Findings : run.findings[f] \in Unresolved => answer.findings[f] # "none"
  PROVE  AssignmentInv'
<1> USE DEF AssignmentInv
<1>1. /\ run \in Runs /\ run' \in Runs /\ SameWork(run', run) /\ step.op \in Ops
      /\ Ops = 1 .. Len(run.ops) /\ Ops' = Ops /\ run.ops[step.op].kind = step.kind
  BY OpenRun, Work DEF SameWork, Calls, StepInv, Ops
<1>2. /\ receipts' \in Seq(Answers) /\ Len(receipts') = Len(receipts)
      /\ \A i \in Ops : receipts'[i] = IF i = step.op THEN answer ELSE receipts[i]
  BY <1>1, ExceptSeq DEF Publish, Types
<1>3. Types'
  <2>1. inputs' \in 1 .. changes' + 1
    BY InputsKept
  <2> QED
    BY <1>1, <1>2, <2>1 DEF Types, Places
<1>4. Bases' /\ Current'
  BY <1>1, SameRecord
<1>5. LastOpen'
  BY <1>1, SameOperations DEF LastOpen, Calls
<1>6. StepInv'
  BY <1>1, <1>2, SameOperations DEF StepInv, Calls, Sets
<1>7. ContentInv'
  BY DEF ContentInv, Calls
<1>8. ReviewInv'
  BY <1>1, SameOperations DEF ReviewInv, Calls
<1>9. ReceiptInv'
  <2> SUFFICES ASSUME NEW j \in Ops, run.ops[j].kind = "review", ~Answered(j), run.ops[j].basis = run.basis
               PROVE  /\ receipts'[j].content = run.current.content
                      /\ receipts'[j].kind = "changes" =>
                           \A f \in Findings : run.findings[f] \in Unresolved => receipts'[j].findings[f] # "none"
    BY <1>1, SameOperations DEF ReceiptInv
  <2>1. j = step.op
    BY DEF LastOpen, Calls
  <2>2. receipts'[j] = answer /\ step.kind = "review"
    BY <1>1, <1>2, <2>1
  <2>3. run.current.content = ws
    BY <2>2 DEF ContentInv, Calls
  <2> QED
    BY <2>2, <2>3
<1>10. VerdictInv'
  BY <1>1, SameOperations DEF VerdictInv
<1>11. AcceptInv'
  BY DEF AcceptInv
<1> QED
  BY <1>3, <1>4, <1>5, <1>6, <1>7, <1>8, <1>9, <1>10, <1>11

LEMMA ImplementerAnswersSafe == AssignmentInv /\ ImplementerAnswers => AssignmentInv'
<1> SUFFICES ASSUME AssignmentInv, ImplementerAnswers
             PROVE  AssignmentInv'
  OBVIOUS
<1>1. /\ pc = "turn" /\ run.status = "active" /\ step.kind = "implement" /\ MayChange
      /\ pc' = "settle" /\ UNCHANGED <<run, inputs, step, resumes>>
  BY DEF ImplementerAnswers, At
<1>2. PICK kind \in {"ready", "requested", "blocked"} :
        Publish([NoAnswer EXCEPT !.kind = kind, !.basis = run.basis,
                                 !.content = IF kind = "ready" THEN ws' ELSE 0])
  BY DEF ImplementerAnswers
<1>3. ws' \in Contents /\ changes' \in 0 .. MaxChanges /\ changes <= changes' /\ run.basis \in Nat /\ 0 \in Contents
  BY <1>1, MayChangeDoes, OpenRun, AssignmentAssumption DEF AssignmentInv, Runs, Contents
<1> DEFINE answer == [NoAnswer EXCEPT !.kind = kind, !.basis = run.basis,
                                      !.content = IF kind = "ready" THEN ws' ELSE 0]
<1>4. answer \in Answers /\ answer.kind = kind
  BY <1>3 DEF NoAnswer, Answers, FindingStates
<1>5. Publish(answer)
  BY <1>2
<1> HIDE DEF answer
<1> QED
  BY <1>1, <1>3, <1>4, <1>5, AnswerSafe

LEMMA ReviewerAnswersSafe == AssignmentInv /\ ReviewerAnswers => AssignmentInv'
<1> SUFFICES ASSUME AssignmentInv, ReviewerAnswers
             PROVE  AssignmentInv'
  OBVIOUS
<1>1. /\ pc = "turn" /\ run.status = "active" /\ step.kind = "review"
      /\ pc' = "settle" /\ UNCHANGED <<run, ws, changes, inputs, step, resumes>>
  BY DEF ReviewerAnswers, At, world
<1>2. ws \in Contents /\ run \in Runs /\ run.basis \in Nat /\ run.findings \in [Findings -> FindingStates]
      /\ ws' \in Contents /\ changes' \in 0 .. MaxChanges /\ changes <= changes'
  BY <1>1, OpenRun, MayChangeDoes, AssignmentAssumption DEF AssignmentInv, Types, Runs
<1>3. PICK kind \in {"passed", "blocked", "changes"}, decisions \in [Findings -> FindingStates] :
        /\ Publish([kind |-> kind, content |-> ws, basis |-> run.basis, findings |-> decisions])
        /\ kind = "changes" => DecidesFindings(decisions)
  <2>1. NoAnswer.findings \in [Findings -> FindingStates]
    BY DEF NoAnswer, FindingStates
  <2> QED
    BY <2>1 DEF ReviewerAnswers, Decisions, FindingStates
<1> DEFINE answer == [kind |-> kind, content |-> ws, basis |-> run.basis, findings |-> decisions]
<1>4. answer \in Answers /\ answer.kind = kind /\ answer.content = ws /\ answer.findings = decisions
  BY <1>2 DEF Answers
<1>5. kind = "changes" => \A f \in Findings : run.findings[f] \in Unresolved => decisions[f] # "none"
  BY <1>3 DEF DecidesFindings, Unresolved
<1>6. Publish(answer)
  BY <1>3
<1> HIDE DEF answer
<1> QED
  BY <1>1, <1>2, <1>4, <1>5, <1>6, AnswerSafe

LEMMA AcceptSafe == AssignmentInv /\ Accept => AssignmentInv'
<1> SUFFICES ASSUME AssignmentInv, Accept
             PROVE  AssignmentInv'
  OBVIOUS
<1> USE DEF AssignmentInv
<1>1. /\ pc = "dispatch" /\ run.status = "active"
      /\ UNCHANGED <<receipts, ws, changes, inputs, resumes>>
  BY DEF Accept, At, disk, world
<1>2. CASE Refuse(run)
  BY <1>1, <1>2, OpenRun, RefuseDoes, PauseSafe, MayChangeDoes
<1>3. CASE /\ \E j \in Ops : Proves(j, "review")
           /\ run' = [run EXCEPT !.accepted = TRUE] /\ pc' = "accepted" /\ UNCHANGED step
  <2> DEFINE c == [run EXCEPT !.accepted = TRUE]
  <2>1. /\ run \in Runs /\ c \in Runs /\ c.status = run.status /\ c.ops = run.ops /\ c.current = run.current
        /\ c.basis = run.basis /\ c.findings = run.findings
    BY OpenRun DEF Runs
  <2>2. run' = c
    BY <1>3
  <2> HIDE DEF c
  <2>3. /\ run' \in Runs /\ run'.status = run.status /\ run'.ops = run.ops /\ run'.current = run.current
        /\ run'.basis = run.basis /\ run'.findings = run.findings
    BY <2>1, <2>2
  <2>4. /\ Ops' = Ops /\ \A i \in Ops : Answered(i)' <=> Answered(i)
        /\ \A i \in Ops : Proves(i, "required")' <=> Proves(i, "required")
        /\ \A i \in Ops : Proves(i, "review")' <=> Proves(i, "review")
    BY <2>3 DEF Ops, Answered, Proves
  <2>5. \A j \in Ops : Checked(j) => Checked(j)'
    BY <2>3 DEF Checked, Proves
  <2>6. Types'
    BY <1>1, <1>3, <2>3 DEF Types, Places
  <2>7. Bases' /\ Current' /\ LastOpen'
    BY <1>1, <1>3, <2>3, <2>4 DEF Bases, Current, LastOpen, Calls, Sets
  <2>8. StepInv'
    BY <1>1, <1>3, <2>3, <2>4 DEF StepInv, Calls, Sets
  <2>9. ContentInv' /\ ReviewInv'
    BY <1>1, <1>3, <2>3 DEF ContentInv, ReviewInv, Calls
  <2>10. ReceiptInv'
    BY <1>1, <2>3, <2>4 DEF ReceiptInv
  <2>11. VerdictInv'
    BY <1>1, <1>3, <2>3, <2>4, <2>5 DEF VerdictInv
  <2>12. AcceptInv'
    BY <1>3, <2>4 DEF AcceptInv
  <2> QED
    BY <2>6, <2>7, <2>8, <2>9, <2>10, <2>11, <2>12
<1> QED
  BY <1>2, <1>3 DEF Accept

(***************************************************************************)
(* A state is recorded: with the result of operation i, or with none.      *)
(***************************************************************************)
\* What becomes of operation k when state s is observed.
Keeps(k, s) ==
  /\ run'.ops[k].kind = run.ops[k].kind /\ run'.ops[k].basis = run.ops[k].basis
  /\ \/ /\ run'.ops[k].result = run.ops[k].result
        /\ run.ops[k].kind \in {"required", "review"} /\ run.ops[k].result.status = "succeeded"
             => run.ops[k].result.state = s
     \/ /\ Answered(k) /\ run'.ops[k].result.status = "forgotten" /\ run.ops[k].result.state # s

\* The state s replaces the recorded one, all operations but i are kept.
Observes(s, i) ==
  /\ run' \in Runs /\ run'.current = s /\ Len(run'.ops) = Len(run.ops)
  /\ run'.accepted = run.accepted
  /\ \A k \in Ops : k # i => Keeps(k, s)

LEMMA KeptWork ==
  ASSUME run \in Runs, Current, NEW k \in Ops, NEW s \in States, NEW r \in Runs,
         r.ops[k].kind = run.ops[k].kind, r.ops[k].basis = run.ops[k].basis,
         Kept(run.ops[k], s) => r.ops[k] = run.ops[k],
         ~Kept(run.ops[k], s) => r.ops[k].result.status = "forgotten",
         run'.ops = r.ops
  PROVE  Keeps(k, s)
<1>1. CASE Kept(run.ops[k], s)
  <2>1. run.ops[k].kind \in {"required", "review"} /\ run.ops[k].result.status = "succeeded"
          => run.ops[k].result.state = s
    BY <1>1 DEF Kept, Current, NoResult
  <2> QED
    BY <1>1, <2>1 DEF Keeps
<1>2. CASE ~Kept(run.ops[k], s)
  BY <1>2 DEF Keeps, Kept, Answered
<1> QED
  BY <1>1, <1>2

LEMMA ObservesDoes ==
  ASSUME run \in Runs, Current, run' \in Runs, NEW s \in States, NEW i, Observes(s, i)
  PROVE  /\ Ops = 1 .. Len(run.ops) /\ Ops' = Ops /\ Len(run.ops) \in Nat
         /\ \A k \in Ops : k # i =>
              /\ run'.ops[k].kind = run.ops[k].kind /\ run'.ops[k].basis = run.ops[k].basis
              /\ Answered(k)' <=> Answered(k)
              /\ run.ops[k].kind \in {"required", "review"} /\ run'.ops[k].result.status = "succeeded" =>
                   /\ run'.ops[k].result = run.ops[k].result /\ run.ops[k].result.state = s
                   /\ s = run.current /\ s.by = "checks"
              /\ run'.basis = run.ops[k].basis /\ Proves(k, "review")' =>
                   /\ s = run.current /\ (run.ops[k].basis = run.basis => Proves(k, "review"))
              /\ run'.basis = run.ops[k].basis /\ Proves(k, "required")' =>
                   /\ s = run.current /\ (run.ops[k].basis = run.basis => Proves(k, "required"))
              /\ s = run.current /\ run'.basis = run.basis /\ Proves(k, "required") => Proves(k, "required")'
<1>1. Ops = 1 .. Len(run.ops) /\ Len(run.ops) \in Nat /\ Ops' = Ops /\ run'.current = s
  BY Work DEF Ops, Observes
<1> SUFFICES ASSUME NEW k \in Ops, k # i
             PROVE  /\ run'.ops[k].kind = run.ops[k].kind /\ run'.ops[k].basis = run.ops[k].basis
                    /\ Answered(k)' <=> Answered(k)
                    /\ run.ops[k].kind \in {"required", "review"} /\ run'.ops[k].result.status = "succeeded" =>
                         /\ run'.ops[k].result = run.ops[k].result /\ run.ops[k].result.state = s
                         /\ s = run.current /\ s.by = "checks"
                    /\ run'.basis = run.ops[k].basis /\ Proves(k, "review")' =>
                         /\ s = run.current /\ (run.ops[k].basis = run.basis => Proves(k, "review"))
                    /\ run'.basis = run.ops[k].basis /\ Proves(k, "required")' =>
                         /\ s = run.current /\ (run.ops[k].basis = run.basis => Proves(k, "required"))
                    /\ s = run.current /\ run'.basis = run.basis /\ Proves(k, "required") => Proves(k, "required")'
  BY <1>1
<1>2. Keeps(k, s)
  BY DEF Observes
<1>3. run'.ops[k].kind = run.ops[k].kind /\ run'.ops[k].basis = run.ops[k].basis
  BY <1>2 DEF Keeps
<1>4. Answered(k)' <=> Answered(k)
  BY <1>2 DEF Keeps, Answered, NoResult
<1>5. run.ops[k].kind \in {"required", "review"} /\ run'.ops[k].result.status = "succeeded" =>
        /\ run'.ops[k].result = run.ops[k].result /\ run.ops[k].result.state = s
        /\ s = run.current /\ s.by = "checks"
  BY <1>2 DEF Keeps, Current
<1>6. ASSUME NEW q \in {"required", "review"}, run'.basis = run.ops[k].basis, Proves(k, q)'
      PROVE  s = run.current /\ (run.ops[k].basis = run.basis => Proves(k, q))
  BY <1>3, <1>5, <1>6 DEF Proves
<1>7. s = run.current /\ run'.basis = run.basis /\ Proves(k, "required") => Proves(k, "required")'
  BY <1>1, <1>2 DEF Keeps, Proves
<1> QED
  BY <1>3, <1>4, <1>5, <1>6, <1>7

\* The step in progress records the result of its operation.
LEMMA ResultSafe ==
  ASSUME AssignmentInv, pc \in Calls \cup Sets, NEW s \in States, Observes(s, step.op),
         run'.ops[step.op].kind = run.ops[step.op].kind, run'.ops[step.op].basis = run.ops[step.op].basis,
         run'.ops[step.op].result.state = s, run'.ops[step.op].result.status \in {"succeeded", "failed"},
         run'.ops[step.op].result.status = "succeeded" /\ run.ops[step.op].kind \in {"required", "review"}
           => s.by = "checks",
         run'.basis = run.basis, run'.status = "active", pc' \in {"apply", "block", "dispatch"},
         step' \in Steps, step'.op \in {0, step.op},
         pc' = "apply" => /\ step'.op = step.op /\ run.ops[step.op].kind = "implement"
                          /\ step'.kind = "required" /\ s.by = "implement",
         pc' = "dispatch" => s.content = ws,
         receipts' \in Seq(Answers), Len(receipts') = Len(receipts),
         \A i \in Ops : receipts'[i].kind = receipts[i].kind,
         UNCHANGED <<ws, changes, inputs, resumes>>
  PROVE  /\ Types' /\ Bases' /\ Current' /\ LastOpen' /\ StepInv' /\ ContentInv'
         /\ ReviewInv' /\ ReceiptInv' /\ AcceptInv'
         /\ Ops' = Ops /\ \A j \in Ops : Proves(j, "review")' => j = step.op
<1> USE DEF AssignmentInv
<1>1. /\ run \in Runs /\ run' \in Runs /\ step.op \in Ops /\ ~run.accepted
      /\ Ops = 1 .. Len(run.ops) /\ Len(run.ops) \in Nat /\ Ops' = Ops /\ Len(run'.ops) = Len(run.ops)
      /\ run'.current = s /\ run'.accepted = run.accepted
      /\ run'.ops[step.op].result # NoResult
  BY OpenRun, Work DEF Observes, Ops, Calls, Sets, NoResult
<1>2. \A k \in Ops : k # step.op =>
        /\ run'.ops[k].kind = run.ops[k].kind /\ run'.ops[k].basis = run.ops[k].basis
        /\ Answered(k)' <=> Answered(k)
        /\ run.ops[k].kind \in {"required", "review"} /\ run'.ops[k].result.status = "succeeded" =>
             /\ run'.ops[k].result = run.ops[k].result /\ run.ops[k].result.state = s
             /\ s = run.current /\ s.by = "checks"
        /\ run'.basis = run.ops[k].basis /\ Proves(k, "review")' =>
             /\ s = run.current /\ (run.ops[k].basis = run.basis => Proves(k, "review"))
  BY <1>1, ObservesDoes
<1>3. \A k \in Ops : run'.ops[k].kind = run.ops[k].kind /\ run'.ops[k].basis = run.ops[k].basis
  BY <1>2
<1>4. \A k \in Ops : ~(~run'.ops[k].result # NoResult /\ run'.ops[k].kind # "implement" /\ run'.ops[k].basis = run'.basis)
  <2> SUFFICES ASSUME NEW k \in Ops, run'.ops[k].result = NoResult,
                      run'.ops[k].kind # "implement", run'.ops[k].basis = run'.basis
               PROVE  FALSE
    OBVIOUS
  <2>1. k # step.op
    BY <1>1
  <2>2. ~Answered(k)
    BY <1>2, <2>1 DEF Answered
  <2>3. k = step.op
    BY <1>3, <2>2 DEF LastOpen
  <2> QED
    BY <2>1, <2>3
<1>5. \A k \in Ops : run'.ops[k].kind # "implement" /\ run'.ops[k].basis = run'.basis => run'.ops[k].result # NoResult
  BY <1>4
<1>6. \A j \in Ops : Proves(j, "review")' => j = step.op
  <2> SUFFICES ASSUME NEW j \in Ops, Proves(j, "review")', j # step.op
               PROVE  FALSE
    OBVIOUS
  <2>1. run.ops[j].basis = run.basis
    BY <1>3 DEF Proves
  <2>2. Proves(j, "review")
    BY <1>2, <2>1
  <2> QED
    BY <2>2 DEF VerdictInv, Calls, Sets
<1>7. Types'
  BY <1>1 DEF Types, Places
<1>8. Bases'
  BY SMTT(30), <1>1, <1>3 DEF Bases
<1>9. Current'
  <2> SUFFICES ASSUME NEW k \in Ops, run'.ops[k].kind \in {"required", "review"},
                      run'.ops[k].result.status = "succeeded"
               PROVE  run'.ops[k].result.state = s /\ s.by = "checks"
    BY <1>1 DEF Current
  <2>1. CASE k = step.op
    BY <1>3, <2>1
  <2>2. CASE k # step.op
    BY <1>2, <2>2
  <2> QED
    BY <2>1, <2>2
<1>10. LastOpen'
  BY <1>1, <1>5 DEF LastOpen, Answered
<1>11. StepInv'
  <2>1. \A k \in Ops :
          /\ receipts'[k].kind \in {"passed", "changes"} => run'.ops[k].kind = "review"
          /\ receipts'[k].kind \in {"ready", "requested"} => run'.ops[k].kind = "implement"
    BY <1>3 DEF StepInv
  <2>2. run'.ops[step.op].kind = run.ops[step.op].kind
    OBVIOUS
  <2> QED
    BY <1>1, <2>1, <2>2 DEF StepInv, Calls, Sets
<1>12. ContentInv' /\ ReviewInv'
  BY <1>1 DEF ContentInv, ReviewInv, Calls
<1>13. ReceiptInv'
  BY <1>1, <1>5 DEF ReceiptInv, Answered
<1>14. AcceptInv'
  BY <1>1 DEF AcceptInv
<1> QED
  BY <1>1, <1>6, <1>7, <1>8, <1>9, <1>10, <1>11, <1>12, <1>13, <1>14

\* A state is observed on a pause, or by the checks of /resume.
LEMMA ObserveSafe ==
  ASSUME AssignmentInv, pc \in {"paused", "refused", "gate"}, NEW s \in States, Observes(s, 0),
         run'.findings = run.findings, run'.basis \in {run.basis, inputs},
         pc' \in {"gate", "dispatch", "paused"}, run'.status = "active" <=> pc' # "paused",
         step' \in {step, NoStep}, s.content = ws' \/ pc' = "paused",
         ws' \in Contents, changes' \in 0 .. MaxChanges, changes <= changes',
         resumes' \in 0 .. MaxResumes, UNCHANGED <<receipts, inputs>>
  PROVE  AssignmentInv'
<1> USE DEF AssignmentInv
<1>1. /\ run \in Runs /\ run' \in Runs /\ ~run.accepted
      /\ Ops = 1 .. Len(run.ops) /\ Len(run.ops) \in Nat /\ Ops' = Ops /\ Len(run'.ops) = Len(run.ops)
      /\ run'.current = s /\ run'.accepted = run.accepted
  BY OpenRun, Work DEF Observes, Ops
<1>2. \A k \in Ops :
        /\ run'.ops[k].kind = run.ops[k].kind /\ run'.ops[k].basis = run.ops[k].basis
        /\ Answered(k)' <=> Answered(k)
        /\ run.ops[k].kind \in {"required", "review"} /\ run'.ops[k].result.status = "succeeded" =>
             /\ run'.ops[k].result = run.ops[k].result /\ run.ops[k].result.state = s
             /\ s = run.current /\ s.by = "checks"
        /\ run'.basis = run.ops[k].basis /\ Proves(k, "review")' =>
             /\ s = run.current /\ (run.ops[k].basis = run.basis => Proves(k, "review"))
        /\ run'.basis = run.ops[k].basis /\ Proves(k, "required")' =>
             /\ s = run.current /\ (run.ops[k].basis = run.basis => Proves(k, "required"))
        /\ s = run.current /\ run'.basis = run.basis /\ Proves(k, "required") => Proves(k, "required")'
  <2>1. \A k \in Ops : k # 0
    BY <1>1
  <2> QED
    BY <1>1, <2>1, ObservesDoes
<1>3. /\ run.basis \in Nat /\ run'.basis \in Nat /\ inputs \in Nat /\ run.basis <= inputs
      /\ run.basis <= run'.basis /\ run'.basis <= inputs
      /\ \A k \in Ops : run.ops[k].basis \in Nat /\ run.ops[k].basis <= run.basis
  <2>1. \A k \in Ops : run.ops[k] \in Operations
    BY <1>1, Work
  <2>2. run.basis \in Nat /\ run'.basis \in Nat /\ \A k \in Ops : run.ops[k].basis \in Nat
    <3>1. 1 .. MaxChanges + 1 \subseteq Nat
      BY AssignmentAssumption
    <3>2. run.basis \in 1 .. MaxChanges + 1 /\ run'.basis \in 1 .. MaxChanges + 1
      BY <1>1 DEF Runs
    <3>3. \A k \in Ops : run.ops[k].basis \in 1 .. MaxChanges + 1
      BY <2>1 DEF Operations
    <3> QED
      BY <3>1, <3>2, <3>3
  <2>3. inputs \in Nat
    BY AssignmentAssumption DEF Types
  <2> QED
    BY <2>2, <2>3 DEF Bases
<1>4. \A k \in Ops : run.ops[k].basis = run'.basis => run.ops[k].basis = run.basis /\ run'.basis = run.basis
  BY <1>3
<1>5. Types'
  <2>1. NoStep \in Steps /\ NoStep.op = 0
    BY AssignmentAssumption DEF NoStep, NoSet, NoState, State, States, Steps, Kinds, Contents
  <2>2. inputs' \in 1 .. changes' + 1
    BY InputsKept
  <2>3. step' \in Steps /\ step'.op <= Len(run'.ops)
    BY <1>1, <2>1 DEF Types
  <2> QED
    BY <1>1, <2>2, <2>3 DEF Types, Places
<1>6. Bases'
  <2>1. \A k \in Ops : run'.ops[k].basis <= run'.basis
    BY <1>2, <1>3
  <2> QED
    BY ZenonT(60), <1>1, <1>2, <1>3, <2>1 DEF Bases
<1>7. Current'
  BY <1>1, <1>2 DEF Current
<1>8. LastOpen'
  BY <1>1, <1>2, <1>4 DEF LastOpen, Calls, Sets
<1>9. StepInv'
  BY <1>1, <1>2 DEF StepInv, Calls, Sets
<1>10. ContentInv' /\ ReviewInv'
  BY <1>1 DEF ContentInv, ReviewInv, Calls
<1>11. ReceiptInv'
  <2> SUFFICES ASSUME NEW j \in Ops, run'.ops[j].kind = "review", ~Answered(j)', run'.ops[j].basis = run'.basis,
                      receipts[j] # NoAnswer
               PROVE  /\ (\E i \in Ops : Proves(i, "required")') => receipts[j].content = s.content
                      /\ receipts[j].kind = "changes" =>
                           \A f \in Findings : run.findings[f] \in Unresolved => receipts[j].findings[f] # "none"
    BY <1>1 DEF ReceiptInv
  <2>1. run.ops[j].kind = "review" /\ ~Answered(j) /\ run.ops[j].basis = run.basis /\ run'.basis = run.basis
    BY <1>2, <1>4
  <2>2. ASSUME NEW i \in Ops, Proves(i, "required")'
        PROVE  s = run.current /\ Proves(i, "required")
    <3>1. run'.basis = run.ops[i].basis
      BY <1>2, <2>2 DEF Proves
    <3> QED
      BY <1>2, <2>1, <2>2, <3>1
  <2> QED
    BY <2>1, <2>2 DEF ReceiptInv
<1>12. VerdictInv'
  <2> SUFFICES ASSUME NEW j \in Ops, Proves(j, "review")'
               PROVE  /\ j = Len(run.ops) /\ Checked(j)' /\ receipts[j].content = s.content
                      /\ \A f \in Findings : run.findings[f] \notin Unresolved
    BY <1>1 DEF VerdictInv
  <2>1. run'.basis = run.ops[j].basis
    BY <1>2 DEF Proves
  <2>2. Proves(j, "review") /\ s = run.current /\ run'.basis = run.basis
    BY <1>2, <1>4, <2>1
  <2>3. PICK i \in 1 .. j - 1 : Proves(i, "required") /\ \A k \in i + 1 .. Len(run.ops) : run.ops[k].kind # "required"
    BY <2>2 DEF VerdictInv, Checked
  <2>4. i \in Ops /\ i + 1 .. Len(run.ops) \subseteq Ops
    BY <1>1, <2>3
  <2>5. Proves(i, "required")' /\ \A k \in i + 1 .. Len(run'.ops) : run'.ops[k].kind # "required"
    BY <1>1, <1>2, <2>2, <2>3, <2>4
  <2>6. Checked(j)'
    BY <2>5 DEF Checked
  <2> QED
    BY <2>2, <2>6 DEF VerdictInv
<1>13. AcceptInv'
  BY <1>1 DEF AcceptInv
<1> QED
  BY <1>5, <1>6, <1>7, <1>8, <1>9, <1>10, <1>11, <1>12, <1>13

\* Result, seen from the Run it is recorded in.
TakesResult(i, status, s, name) ==
  /\ run' \in Runs /\ run'.ops = Result(run, i, status, s, name).ops
  /\ run'.current = s /\ run'.accepted = run.accepted

LEMMA ResultObserves ==
  ASSUME run \in Runs, Current, NEW i \in Ops, NEW status \in {"succeeded", "failed"}, NEW s \in States,
         NEW name \in Nat, TakesResult(i, status, s, name)
  PROVE  /\ Observes(s, i)
         /\ run'.ops[i].kind = run.ops[i].kind /\ run'.ops[i].basis = run.ops[i].basis
         /\ run'.ops[i].result.status = status /\ run'.ops[i].result.state = s
<1> DEFINE r == Result(run, i, status, s, name)
<1>1. Ops = 1 .. Len(run.ops)
  BY Work DEF Ops
<1>2. /\ Len(r.ops) = Len(run.ops)
      /\ r.ops[i].kind = run.ops[i].kind /\ r.ops[i].basis = run.ops[i].basis
      /\ r.ops[i].result.status = status /\ r.ops[i].result.state = s
      /\ \A k \in 1 .. Len(run.ops) : k # i =>
           /\ r.ops[k].kind = run.ops[k].kind /\ r.ops[k].basis = run.ops[k].basis
           /\ Kept(run.ops[k], s) => r.ops[k] = run.ops[k]
           /\ ~Kept(run.ops[k], s) => r.ops[k].result.status = "forgotten"
  BY SMTT(30), <1>1, ResultDoes
<1>4. /\ run' \in Runs /\ run'.ops = r.ops
      /\ run'.current = s /\ run'.accepted = run.accepted
  BY DEF TakesResult
<1> HIDE DEF r
<1>3. \A k \in Ops : k # i => Keeps(k, s)
  BY <1>1, <1>2, <1>4, KeptWork
<1> QED
  BY <1>2, <1>3, <1>4 DEF Observes

LEMMA ImplementationReadySafe == AssignmentInv /\ ImplementationReady => AssignmentInv'
<1> SUFFICES ASSUME AssignmentInv, ImplementationReady
             PROVE  AssignmentInv'
  OBVIOUS
<1> DEFINE s == State(receipts[step.op].content, "implement", step.op)
           r == Result(run, step.op, "succeeded", s, 0)
<1>1. /\ pc = "answer" /\ run.status = "active" /\ receipts[step.op].kind = "ready" /\ run' = r
      /\ step' = [step EXCEPT !.kind = "required"] /\ pc' = "apply"
      /\ UNCHANGED <<receipts, ws, changes, inputs, resumes>>
  BY DEF ImplementationReady, At, disk, world
<1>2. /\ run \in Runs /\ Current /\ step.op \in Ops /\ step.op \in 1 .. Len(run.ops)
      /\ receipts \in Seq(Answers) /\ Len(receipts) = Len(run.ops) /\ step \in Steps
  BY <1>1, OpenRun DEF AssignmentInv, Types, Calls
<1>3. /\ step' \in Steps /\ step'.op = step.op /\ step'.kind = "required" /\ step.op \in Nat
      /\ run.ops[step.op].kind = "implement"
  BY <1>1, <1>2 DEF Steps, Kinds, AssignmentInv, StepInv
<1>4. s \in States /\ s.by = "implement"
  <2>1. receipts[step.op] \in Answers
    BY <1>2, ElementOfSeq
  <2> QED
    BY <1>3, <2>1 DEF State, States, Answers
<1> HIDE DEF s
<1>5. /\ r \in Runs /\ r.current = s /\ r.status = run.status /\ r.basis = run.basis
      /\ r.accepted = run.accepted
  BY <1>2, <1>4, ResultDoes
<1> HIDE DEF r
<1>6. /\ Observes(s, step.op)
      /\ run'.ops[step.op].kind = run.ops[step.op].kind /\ run'.ops[step.op].basis = run.ops[step.op].basis
      /\ run'.ops[step.op].result.status = "succeeded" /\ run'.ops[step.op].result.state = s
  <2>1. TakesResult(step.op, "succeeded", s, 0)
    BY <1>1, <1>5 DEF TakesResult, r
  <2> QED
    BY <1>2, <1>4, <2>1, ResultObserves
<1>7. /\ Types' /\ Bases' /\ Current' /\ LastOpen' /\ StepInv' /\ ContentInv'
      /\ ReviewInv' /\ ReceiptInv' /\ AcceptInv'
      /\ Ops' = Ops /\ \A j \in Ops : Proves(j, "review")' => j = step.op
  <2>1. pc \in Calls \cup Sets
    BY <1>1 DEF Calls
  <2> QED
    BY <2>1, <1>1, <1>2, <1>3, <1>4, <1>5, <1>6, ResultSafe
<1>8. VerdictInv'
  <2>1. ~Proves(step.op, "review")'
    BY <1>1, <1>3, <1>6 DEF Proves
  <2>2. \A j \in Ops' : ~Proves(j, "review")'
    BY <1>1, <1>7, <2>1
  <2> QED
    BY <2>2 DEF VerdictInv
<1> QED
  BY <1>7, <1>8 DEF AssignmentInv

LEMMA RecordTaskReviewSafe == AssignmentInv /\ RecordTaskReview => AssignmentInv'
<1> SUFFICES ASSUME AssignmentInv, RecordTaskReview
             PROVE  AssignmentInv'
  OBVIOUS
<1>n. PICK n \in Nat : n = step.op
  BY DEF AssignmentInv, Types, Steps
<1> DEFINE status == IF receipts[n].kind = "passed" THEN "succeeded" ELSE "failed"
           s == run.current
           answer == receipts[n]
           record == ReviewRecord(receipts[n])
           r == Result(run, n, status, s, 0)
           c == [r EXCEPT !.findings = record]
<1>1. /\ pc = "answer" /\ run.status = "active" /\ answer.kind \in {"passed", "changes"} /\ run' = c
      /\ step' = NoStep /\ pc' = "dispatch"
      /\ receipts' = [receipts EXCEPT ![n] = [answer EXCEPT !.findings = NoAnswer.findings]]
      /\ UNCHANGED <<ws, changes, inputs, resumes>>
  BY <1>n DEF RecordTaskReview, At, world, Publish
<1>2. /\ run \in Runs /\ Current /\ n \in Ops /\ n \in 1 .. Len(run.ops) /\ Ops = 1 .. Len(run.ops)
      /\ receipts \in Seq(Answers) /\ Len(receipts) = Len(run.ops) /\ step \in Steps
      /\ run.findings \in [Findings -> FindingStates] /\ s \in States
  BY <1>1, <1>n, OpenRun, Work DEF AssignmentInv, Types, Calls, Runs, Ops
<1>3. answer \in Answers /\ answer.findings \in [Findings -> FindingStates]
  <2>1. receipts[n] \in Answers
    BY <1>2, ElementOfSeq
  <2> QED
    BY <2>1 DEF Answers
<1>4. run.ops[n].kind = "review" /\ step.kind = "review" /\ run.ops[n].basis = run.basis /\ ~Answered(n)
  <2>1. pc \in Calls
    BY <1>1 DEF Calls
  <2>2. run.ops[n].kind = "review"
    BY <1>1, <1>2 DEF AssignmentInv, StepInv
  <2> QED
    BY <1>n, <2>1, <2>2 DEF AssignmentInv, StepInv
<1>5. n = Len(run.ops) /\ Checked(n) /\ run.current.content = ws
  BY <1>1, <1>n, <1>4 DEF AssignmentInv, ReviewInv, ContentInv, Calls
<1>p. PICK i \in 1 .. n - 1 : Proves(i, "required") /\ \A k \in i + 1 .. Len(run.ops) : run.ops[k].kind # "required"
  BY <1>5 DEF Checked
<1>6. /\ i \in Ops /\ i # n /\ i + 1 .. Len(run.ops) \subseteq Ops /\ s.by = "checks"
  <2>1. i \in Ops /\ i # n /\ i + 1 .. Len(run.ops) \subseteq Ops
    BY <1>2
  <2> QED
    BY <1>p, <1>2, <2>1 DEF Current, Proves
<1>7. answer.content = run.current.content
  BY <1>1, <1>2, <1>4, <1>p, <1>6 DEF AssignmentInv, ReceiptInv, NoAnswer
<1>8. record \in [Findings -> FindingStates]
  BY <1>2, <1>3 DEF ReviewRecord, FindingStates
<1>9. answer.kind = "passed" => \A f \in Findings : record[f] \notin Unresolved
  BY DEF ReviewRecord, Unresolved
<1>10. status \in {"succeeded", "failed"} /\ (status = "succeeded" => answer.kind = "passed")
  OBVIOUS
<1> HIDE DEF record, status
<1>11. /\ r \in Runs /\ r.current = s /\ r.status = run.status /\ r.basis = run.basis
       /\ r.accepted = run.accepted
  BY <1>2, <1>10, ResultDoes
<1> HIDE DEF r
<1>12. /\ c \in Runs /\ c.current = s /\ c.status = run.status /\ c.basis = run.basis
       /\ c.accepted = run.accepted /\ c.findings = record /\ c.ops = r.ops
  BY <1>8, <1>11 DEF Runs
<1> HIDE DEF c
<1>13. /\ Observes(s, n)
       /\ run'.ops[n].kind = run.ops[n].kind /\ run'.ops[n].basis = run.ops[n].basis
       /\ run'.ops[n].result.status = status /\ run'.ops[n].result.state = s
  <2>1. TakesResult(n, status, s, 0)
    BY <1>1, <1>11, <1>12 DEF TakesResult, r
  <2> QED
    BY <1>2, <1>10, <2>1, ResultObserves
<1> DEFINE a == [answer EXCEPT !.findings = NoAnswer.findings]
<1>14. a \in Answers /\ a.kind = answer.kind /\ a.content = answer.content
  BY <1>3 DEF Answers, NoAnswer, FindingStates
<1>15. receipts' = [receipts EXCEPT ![n] = a]
  BY <1>1
<1> HIDE DEF a
<1>16. /\ receipts' \in Seq(Answers) /\ Len(receipts') = Len(receipts)
       /\ \A k \in Ops : receipts'[k] = IF k = n THEN a ELSE receipts[k]
  BY <1>2, <1>14, <1>15, ExceptSeq
<1>17. /\ Types' /\ Bases' /\ Current' /\ LastOpen' /\ StepInv' /\ ContentInv'
       /\ ReviewInv' /\ ReceiptInv' /\ AcceptInv'
       /\ Ops' = Ops /\ \A j \in Ops : Proves(j, "review")' => j = step.op
  <2>1. pc \in Calls \cup Sets
    BY <1>1 DEF Calls
  <2>2. NoStep \in Steps /\ NoStep.op = 0
    BY AssignmentAssumption DEF NoStep, NoSet, NoState, State, States, Steps, Kinds, Contents
  <2>3. \A k \in Ops : receipts'[k].kind = receipts[k].kind
    BY <1>14, <1>16
  <2> QED
    BY ZenonT(60), <2>1, <2>2, <2>3, <1>1, <1>2, <1>n, <1>5, <1>6, <1>10, <1>12, <1>13, <1>16, ResultSafe
<1>18. VerdictInv'
  <2> SUFFICES ASSUME Proves(n, "review")'
               PROVE  /\ n = Len(run'.ops) /\ Checked(n)' /\ receipts'[n].content = run'.current.content
                      /\ \A f \in Findings : run'.findings[f] \notin Unresolved
    BY <1>1, <1>n, <1>17 DEF VerdictInv
  <2>1. n = Len(run'.ops) /\ Len(run'.ops) = Len(run.ops)
    BY <1>5, <1>13 DEF Observes
  <2>2. status = "succeeded"
    BY <1>13 DEF Proves
  <2>3. receipts'[n].content = run'.current.content
    BY <1>1, <1>2, <1>7, <1>12, <1>14, <1>16
  <2>4. \A f \in Findings : run'.findings[f] \notin Unresolved
    BY <1>1, <1>9, <1>10, <1>12, <2>2
  <2>5. /\ \A k \in Ops : k # n => run'.ops[k].kind = run.ops[k].kind
        /\ Proves(i, "required")'
    BY <1>1, <1>2, <1>6, <1>p, <1>12, <1>13, ObservesDoes
  <2>6. \A k \in i + 1 .. Len(run'.ops) : run'.ops[k].kind # "required"
    BY <1>4, <1>6, <1>13, <1>p, <2>1, <2>5
  <2> QED
    BY <2>1, <2>3, <2>4, <2>5, <2>6 DEF Checked
<1> QED
  BY <1>17, <1>18 DEF AssignmentInv

LEMMA CheckResultSafe == AssignmentInv /\ CheckResult => AssignmentInv'
<1> SUFFICES ASSUME AssignmentInv, CheckResult
             PROVE  AssignmentInv'
  OBVIOUS
<1> DEFINE s == step.set.state
           r == Result(run, step.op, SetStatus, s, step.name)
           c == [r EXCEPT !.counters["required"] = 0]
<1>1. /\ pc = "result" /\ run.status = "active" /\ UNCHANGED <<receipts, ws, changes, inputs, resumes>>
  BY DEF CheckResult, At, world
<1>2. CASE Refuse(run)
  BY <1>1, <1>2, OpenRun, RefuseDoes, PauseSafe, MayChangeDoes DEF AssignmentInv
<1>3. CASE /\ s # NoState
           /\ \/ run' = r
              \/ run' = c
           /\ \/ step.set.status = "blocked" /\ pc' = "block" /\ UNCHANGED step
              \/ step.set.status # "blocked" /\ pc' = "dispatch" /\ step' = NoStep
  <2>1. /\ run \in Runs /\ Current /\ step.op \in Ops /\ step.op \in 1 .. Len(run.ops)
        /\ receipts \in Seq(Answers) /\ Len(receipts) = Len(run.ops) /\ step \in Steps
        /\ step.name \in Nat /\ s \in States
    BY <1>1, OpenRun DEF AssignmentInv, Types, Sets, Steps
  <2>2. run.ops[step.op].kind \in {"required", "requested"} /\ run.ops[step.op].kind = step.kind
    BY <1>1 DEF AssignmentInv, StepInv, Sets
  <2>3. SetStatus \in {"succeeded", "failed"} /\ (SetStatus = "succeeded" => s.by = "checks")
    BY <1>1 DEF SetStatus, AssignmentInv, StepInv
  <2>4. pc' = "dispatch" => s.content = ws
    BY <1>1, <1>3 DEF AssignmentInv, ContentInv
  <2> HIDE DEF s
  <2>5. /\ r \in Runs /\ r.current = s /\ r.status = run.status /\ r.basis = run.basis
        /\ r.accepted = run.accepted
    BY <2>1, <2>3, ResultDoes
  <2> HIDE DEF r
  <2>6. /\ c \in Runs /\ c.current = s /\ c.status = run.status /\ c.basis = run.basis
        /\ c.accepted = run.accepted /\ c.ops = r.ops
    BY <2>5 DEF Runs
  <2> HIDE DEF c
  <2>7. /\ run' \in Runs /\ run'.current = s /\ run'.status = run.status /\ run'.basis = run.basis
        /\ run'.accepted = run.accepted /\ run'.ops = r.ops
    BY <1>3, <2>5, <2>6
  <2>8. /\ Observes(s, step.op)
        /\ run'.ops[step.op].kind = run.ops[step.op].kind /\ run'.ops[step.op].basis = run.ops[step.op].basis
        /\ run'.ops[step.op].result.status = SetStatus /\ run'.ops[step.op].result.state = s
    <3>1. TakesResult(step.op, SetStatus, s, step.name)
      BY <2>7 DEF r, TakesResult
    <3> QED
      BY <2>1, <2>3, <3>1, ResultObserves
  <2>9. /\ Types' /\ Bases' /\ Current' /\ LastOpen' /\ StepInv' /\ ContentInv'
        /\ ReviewInv' /\ ReceiptInv' /\ AcceptInv'
        /\ Ops' = Ops /\ \A j \in Ops : Proves(j, "review")' => j = step.op
    <3>1. pc \in Calls \cup Sets
      BY <1>1 DEF Sets
    <3>2. NoStep \in Steps /\ NoStep.op = 0
      BY AssignmentAssumption DEF NoStep, NoSet, NoState, State, States, Steps, Kinds, Contents
    <3>3. step' \in Steps /\ step'.op \in {0, step.op} /\ pc' \in {"block", "dispatch"}
      BY <1>3, <2>1, <3>2
    <3> QED
      BY <3>1, <3>3, <1>1, <2>1, <2>3, <2>4, <2>7, <2>8, ResultSafe
  <2>10. VerdictInv'
    <3>1. \A j \in Ops : j = step.op => ~Proves(j, "review")'
      BY <2>2, <2>8 DEF Proves
    <3>2. \A j \in Ops' : ~Proves(j, "review")'
      BY <2>9, <3>1
    <3> QED
      BY <3>2 DEF VerdictInv
  <2> QED
    BY <2>9, <2>10 DEF AssignmentInv
<1> QED
  BY <1>2, <1>3 DEF CheckResult, CheckedState, r, c

LEMMA ObserveObserves ==
  ASSUME run \in Runs, Current, NEW s \in States, NEW r \in Runs, r = Observe(run, s),
         run' \in Runs, run'.ops = r.ops, run'.current = s, run'.accepted = run.accepted
  PROVE  Observes(s, 0)
<1>1. Ops = 1 .. Len(run.ops)
  BY Work DEF Ops
<1>2. /\ Len(r.ops) = Len(run.ops)
      /\ \A k \in 1 .. Len(run.ops) :
           /\ r.ops[k].kind = run.ops[k].kind /\ r.ops[k].basis = run.ops[k].basis
           /\ Kept(run.ops[k], s) => r.ops[k] = run.ops[k]
           /\ ~Kept(run.ops[k], s) => r.ops[k].result.status = "forgotten"
  BY ObserveDoes
<1>3. \A k \in Ops : Keeps(k, s)
  BY <1>1, <1>2, KeptWork
<1> QED
  BY <1>2, <1>3 DEF Observes

LEMMA ResumeSafe == AssignmentInv /\ Resume => AssignmentInv'
<1> SUFFICES ASSUME AssignmentInv, Resume
             PROVE  AssignmentInv'
  OBVIOUS
<1> DEFINE s == Observed
           r == Observe(run, s)
           f == [k \in Counters |-> IF run.limit = k THEN 0 ELSE r.counters[k]]
           c == [r EXCEPT !.status = "active", !.limit = "none", !.basis = inputs, !.counters = f]
<1>1. /\ pc \in {"paused", "refused"} /\ resumes < MaxResumes /\ pc' = "gate" /\ resumes' = resumes + 1
      /\ UNCHANGED <<receipts, ws, changes, inputs, step>>
  BY DEF Resume, Stopped, Resumable, disk, world
<1>2. /\ run \in Runs /\ Current /\ ws \in Contents /\ run.current \in States
      /\ inputs \in 1 .. changes + 1 /\ changes \in 0 .. MaxChanges /\ resumes \in 0 .. MaxResumes
  BY OpenRun DEF AssignmentInv, Types, Runs
<1>3. s \in States /\ s.content = ws
  BY <1>2 DEF Observed, State, States
<1> HIDE DEF s
<1>4. /\ r \in Runs /\ r.current = s /\ r.accepted = run.accepted /\ r.findings = run.findings
      /\ r.counters \in [Counters -> Nat]
  <2>1. r \in Runs /\ r.current = s /\ r.accepted = run.accepted /\ r.findings = run.findings
    BY <1>2, <1>3, ObserveDoes
  <2> HIDE DEF r
  <2> QED
    BY <2>1 DEF Runs
<1> HIDE DEF r
<1>5. f \in [Counters -> Nat] /\ inputs \in 1 .. MaxChanges + 1
  <2>1. \A k \in Counters : (IF run.limit = k THEN 0 ELSE r.counters[k]) \in Nat
    BY <1>4
  <2>2. f \in [Counters -> Nat]
    BY <2>1
  <2>3. changes \in Nat /\ changes <= MaxChanges /\ MaxChanges \in Nat
    BY <1>2, AssignmentAssumption
  <2>4. inputs \in 1 .. MaxChanges + 1
    BY <1>2, <2>3
  <2> QED
    BY <2>2, <2>4
<1>6. run' = c
  BY DEF Resume, f, r, s
<1> HIDE DEF f
<1>7. /\ c \in Runs /\ c.status = "active" /\ c.basis = inputs /\ c.current = s /\ c.ops = r.ops
      /\ c.accepted = run.accepted /\ c.findings = run.findings
  BY <1>4, <1>5 DEF Runs
<1> HIDE DEF c
<1>8. Observes(s, 0)
  BY <1>2, <1>3, <1>4, <1>6, <1>7, ObserveObserves DEF r
<1>9. resumes' \in 0 .. MaxResumes /\ ws' \in Contents /\ changes' \in 0 .. MaxChanges /\ changes <= changes'
  BY <1>1, <1>2, MayChangeDoes, AssignmentAssumption DEF AssignmentInv
<1> QED
  BY <1>1, <1>3, <1>6, <1>7, <1>8, <1>9, ObserveSafe

LEMMA ResumeChecksSafe == AssignmentInv /\ ResumeChecks => AssignmentInv'
<1> SUFFICES ASSUME AssignmentInv, ResumeChecks
             PROVE  AssignmentInv'
  OBVIOUS
<1> DEFINE s == IF ws' = ws THEN run.current ELSE State(ws', "gate", resumes)
           checked == IF ws' = ws THEN run ELSE Observe(run, State(ws', "gate", resumes))
           c == [checked EXCEPT !.status = "paused"]
<1>1. /\ pc = "gate" /\ run.status = "active" /\ MayChange /\ UNCHANGED <<receipts, inputs, resumes>>
      /\ \/ run' = checked /\ pc' = "dispatch" /\ UNCHANGED step
         \/ run' = c /\ pc' = "paused" /\ step' = NoStep
  BY DEF ResumeChecks, ResumeChecksFail, Pauses, At, disk
<1>2. ws' \in Contents /\ changes' \in 0 .. MaxChanges /\ changes <= changes'
  BY <1>1, MayChangeDoes DEF AssignmentInv
<1>3. /\ run \in Runs /\ Current /\ run.current \in States /\ resumes \in 0 .. MaxResumes /\ resumes \in Nat
      /\ run.current.content = ws /\ Ops = 1 .. Len(run.ops)
  BY <1>1, OpenRun, Work, AssignmentAssumption DEF AssignmentInv, Types, Runs, ContentInv, Ops
<1>4. s \in States /\ s.content = ws'
  BY <1>2, <1>3 DEF State, States
<1>5. /\ checked \in Runs /\ checked.current = s /\ checked.accepted = run.accepted
      /\ checked.findings = run.findings /\ checked.basis = run.basis /\ checked.status = "active"
  <2>1. CASE ws' = ws
    BY <1>1, <1>3, <2>1
  <2>2. CASE ws' # ws
    BY <1>1, <1>3, <1>4, <2>2, ObserveDoes
  <2> QED
    BY <2>1, <2>2
<1> HIDE DEF s
<1>6. ASSUME run' \in Runs, run'.ops = checked.ops, run'.current = s, run'.accepted = run.accepted
      PROVE  Observes(s, 0)
  <2>1. CASE ws' = ws
    <3>1. run'.ops = run.ops /\ s = run.current
      BY <1>6, <2>1 DEF s
    <3>2. \A k \in Ops : Keeps(k, s)
      BY <1>3, <3>1 DEF Keeps, Current
    <3> QED
      BY <1>6, <3>1, <3>2 DEF Observes
  <2>2. CASE ws' # ws
    <3>1. checked = Observe(run, s)
      BY <2>2 DEF s
    <3> HIDE DEF checked
    <3> QED
      BY <1>3, <1>4, <1>5, <1>6, <3>1, ObserveObserves
  <2> QED
    BY <2>1, <2>2
<1> HIDE DEF checked
<1>7. /\ c \in Runs /\ c.status = "paused" /\ c.basis = run.basis /\ c.current = s /\ c.ops = checked.ops
      /\ c.accepted = run.accepted /\ c.findings = run.findings
  BY <1>5 DEF Runs
<1> HIDE DEF c
<1>8. Observes(s, 0) /\ run'.findings = run.findings /\ run'.basis = run.basis
  BY <1>1, <1>5, <1>6, <1>7
<1>9. run'.status = "active" <=> pc' # "paused"
  BY <1>1, <1>5, <1>7
<1> QED
  BY <1>1, <1>2, <1>3, <1>4, <1>8, <1>9, ObserveSafe

(***************************************************************************)
(* The invariant.                                                          *)
(***************************************************************************)
LEMMA InitSafe == Init => AssignmentInv
<1> SUFFICES ASSUME Init
             PROVE  AssignmentInv
  OBVIOUS
<1>1. /\ run = [status |-> "active", limit |-> "none", basis |-> 1, current |-> Start,
                ops |-> <<>>, counters |-> [c \in Counters |-> 0],
                findings |-> [f \in Findings |-> "none"], accepted |-> FALSE]
      /\ receipts = <<>> /\ ws = 0 /\ changes = 0 /\ inputs = 1 /\ step = NoStep /\ resumes = 0
      /\ pc = "dispatch"
  BY DEF Init
<1>2. /\ run.status = "active" /\ run.basis = 1 /\ run.current = Start /\ run.ops = <<>>
      /\ run.accepted = FALSE /\ Start \in States /\ Start.content = 0
  BY <1>1, AssignmentAssumption DEF Start, State, States, Contents
<1>3. Ops = {} /\ Len(run.ops) = 0 /\ Len(receipts) = 0
  BY <1>1, <1>2 DEF Ops
<1>4. run \in Runs
  <2>1. /\ [c \in Counters |-> 0] \in [Counters -> Nat]
        /\ [f \in Findings |-> "none"] \in [Findings -> FindingStates]
        /\ <<>> \in Seq(Operations) /\ 1 \in 1 .. MaxChanges + 1
    BY AssignmentAssumption DEF FindingStates
  <2> QED
    BY <1>1, <1>2, <2>1 DEF Runs
<1>5. NoStep \in Steps /\ NoStep.op = 0
  BY AssignmentAssumption DEF NoStep, NoSet, NoState, State, States, Steps, Kinds, Contents
<1>6. Types
  BY <1>1, <1>2, <1>3, <1>4, <1>5, AssignmentAssumption DEF Types, Places, Contents
<1>7. Bases /\ Current /\ LastOpen
  BY <1>1, <1>2, <1>3 DEF Bases, Current, LastOpen
<1>8. StepInv /\ ContentInv /\ ReviewInv
  BY <1>1, <1>2, <1>3 DEF StepInv, ContentInv, ReviewInv, Calls, Sets
<1>9. ReceiptInv /\ VerdictInv /\ AcceptInv
  BY <1>2, <1>3 DEF ReceiptInv, VerdictInv, AcceptInv
<1> QED
  BY <1>6, <1>7, <1>8, <1>9 DEF AssignmentInv

LEMMA StutterSafe == AssignmentInv /\ UNCHANGED vars => AssignmentInv'
<1> SUFFICES ASSUME AssignmentInv, UNCHANGED vars
             PROVE  AssignmentInv'
  OBVIOUS
<1>1. UNCHANGED <<run, receipts, ws, changes, inputs, step, resumes, pc>>
  BY DEF vars, disk, world
<1>2. Ops' = Ops /\ \A i \in Ops : Answered(i)' = Answered(i)
  BY <1>1 DEF Ops, Answered
<1>4. Types' /\ Bases' /\ Current' /\ ContentInv'
  BY <1>1, <1>2 DEF AssignmentInv, Types, Bases, Current, ContentInv
<1>5. LastOpen' /\ StepInv'
  BY <1>1, <1>2 DEF AssignmentInv, LastOpen, StepInv, Ops, Answered
<1>6. ReviewInv' /\ ReceiptInv'
  BY <1>1, <1>2 DEF AssignmentInv, ReviewInv, ReceiptInv, Checked, Proves, Ops, Answered
<1>7. VerdictInv' /\ AcceptInv'
  BY <1>1, <1>2 DEF AssignmentInv, VerdictInv, AcceptInv, Checked, Proves, Ops
<1> QED
  BY <1>4, <1>5, <1>6, <1>7 DEF AssignmentInv

LEMMA StepSafe == AssignmentInv /\ [Next]_vars => AssignmentInv'
<1> SUFFICES ASSUME AssignmentInv, [Next]_vars
             PROVE  AssignmentInv'
  OBVIOUS
<1>1. CASE NoRoute \/ Implement \/ Checks \/ StartTaskReview \/ Accept
  BY <1>1, NoRouteSafe, ImplementSafe, ChecksSafe, StartTaskReviewSafe, AcceptSafe
<1>2. CASE Replay \/ StartTurn \/ ImplementerAnswers \/ ReviewerAnswers \/ TurnEnds \/ Settle
  BY <1>2, ReplaySafe, StartTurnSafe, ImplementerAnswersSafe, ReviewerAnswersSafe, TurnEndsSafe, SettleSafe
<1>3. CASE Blocked \/ ImplementationReady \/ ChecksRequested \/ RecordTaskReview
  BY <1>3, StopSafe, ImplementationReadySafe, ChecksRequestedSafe, RecordTaskReviewSafe
<1>4. CASE Apply \/ ReserveChecks \/ RunSet \/ LogsConflict \/ CheckOutcome \/ CheckResult \/ CheckBlocked
  BY <1>4, ApplySafe, ReserveChecksSafe, RunSetSafe, LogsConflictSafe, CheckOutcomeSafe, CheckResultSafe, StopSafe
<1>5. CASE ResumeChecks \/ Edit \/ Crash \/ Resume
  BY <1>5, ResumeChecksSafe, EditSafe, StopSafe, ResumeSafe
<1>6. CASE Done \/ UNCHANGED vars
  BY <1>6, StutterSafe DEF Done
<1> QED
  BY <1>1, <1>2, <1>3, <1>4, <1>5, <1>6 DEF Next, Controller

\* The parts of AssignmentInv hold in every state of an assignment.
THEOREM AssignmentInvariant == Spec => []AssignmentInv
<1>1. Init => AssignmentInv
  BY InitSafe
<1>2. AssignmentInv /\ [Next]_vars => AssignmentInv'
  BY StepSafe
<1> QED
  BY <1>1, <1>2, PTL DEF Spec

(***************************************************************************)
(* What a step does to the counters and to the findings.                   *)
(***************************************************************************)
Counted ==
  \A c \in Counters :
    \/ run'.counters[c] \in {0, run.counters[c]}
    \/ run.counters[c] < Limits[c] /\ run'.counters[c] = run.counters[c] + 1

\* The record is of the same findings, and its counters are those of the step.
Steady == Counted /\ run'.findings = run.findings

LEMMA ReserveIsCounted ==
  ASSUME AssignmentInv, step.op \in Ops, NEW at, Reserve(step.kind, at)
  PROVE  Steady
<1>1. step.kind \in Kinds /\ run \in Runs /\ run.counters \in [Counters -> Nat]
  BY OpenRun DEF AssignmentInv, Types, Steps, Runs
<1>2. /\ SameWork(run', run)
      /\ \/ run'.counters = run.counters
         \/ /\ step.kind \in Counters /\ run.counters[step.kind] < Limits[step.kind]
            /\ run'.counters = [run.counters EXCEPT ![step.kind] = @ + 1]
  BY <1>1, ReserveDoes
<1> QED
  BY <1>1, <1>2 DEF Steady, Counted, SameWork

LEMMA RecordIsCounted ==
  ASSUME AssignmentInv, RecordTaskReview
  PROVE  Counted
<1> DEFINE status == IF receipts[step.op].kind = "passed" THEN "succeeded" ELSE "failed"
           r == Result(run, step.op, status, run.current, 0)
<1>1. run' = [r EXCEPT !.findings = ReviewRecord(receipts[step.op])] /\ pc = "answer"
  BY DEF RecordTaskReview, At
<1>2. run \in Runs /\ step.op \in 1 .. Len(run.ops) /\ run.current \in States
  BY <1>1, OpenRun DEF Calls, Runs
<1>3. r \in Runs /\ r.counters = run.counters
  <2>1. status \in {"succeeded", "failed"}
    OBVIOUS
  <2> HIDE DEF status
  <2> QED
    BY SMTT(60), <1>2, <2>1, ResultDoes
<1> HIDE DEF r
<1>4. run'.counters = run.counters
  BY <1>1, <1>3 DEF Runs
<1> QED
  BY <1>4 DEF Counted

LEMMA ResultIsCounted ==
  ASSUME AssignmentInv, ImplementationReady \/ CheckResult
  PROVE  Steady
<1>1. run \in Runs /\ run.counters \in [Counters -> Nat]
  BY OpenRun DEF Runs
<1>2. CASE ImplementationReady
  <2> DEFINE s == State(receipts[step.op].content, "implement", step.op)
             r == Result(run, step.op, "succeeded", s, 0)
  <2>1. run' = r /\ pc = "answer"
    BY <1>2 DEF ImplementationReady, At
  <2>2. step.op \in 1 .. Len(run.ops) /\ step.op \in Nat /\ receipts[step.op] \in Answers
    BY <2>1, OpenRun, ElementOfSeq DEF Calls, AssignmentInv, Types, Steps
  <2>3. s \in States
    BY <2>2 DEF State, States, Answers
  <2> HIDE DEF s
  <2>4. r.counters = run.counters /\ r.findings = run.findings
    BY <1>1, <2>2, <2>3, ResultDoes
  <2> QED
    BY <2>1, <2>4 DEF Steady, Counted
<1>3. CASE CheckResult
  <2> DEFINE r == Result(run, step.op, SetStatus, step.set.state, step.name)
             c == [r EXCEPT !.counters["required"] = 0]
  <2>1. pc = "result" /\ (Refuse(run) \/ run' = r \/ run' = c)
    BY <1>3 DEF CheckResult, At, CheckedState
  <2>2. step.op \in 1 .. Len(run.ops) /\ step.name \in Nat /\ step.set.state \in States
        /\ SetStatus \in {"succeeded", "failed"}
    BY <2>1, OpenRun DEF Sets, AssignmentInv, Types, Steps, SetStatus
  <2>3. r \in Runs /\ r.counters = run.counters /\ r.findings = run.findings
    BY <1>1, <2>2, ResultDoes
  <2> HIDE DEF r
  <2>4. c.findings = run.findings /\ \A k \in Counters : c.counters[k] \in {0, run.counters[k]}
    <3>1. c.findings = r.findings /\ c.counters = [r.counters EXCEPT !["required"] = 0]
      BY <2>3 DEF Runs
    <3> HIDE DEF c
    <3> QED
      BY <1>1, <2>3, <3>1
  <2> HIDE DEF c
  <2>5. CASE Refuse(run)
    BY <1>1, <2>5, RefuseDoes DEF Steady, Counted, SameWork
  <2> QED
    BY <2>1, <2>3, <2>4, <2>5 DEF Steady, Counted
<1> QED
  BY <1>2, <1>3

LEMMA ResumeIsCounted ==
  ASSUME AssignmentInv, Resume \/ ResumeChecks
  PROVE  Steady
<1>1. run \in Runs /\ run.counters \in [Counters -> Nat] /\ run.current \in States
      /\ ws \in Contents /\ resumes \in Nat
  BY OpenRun, AssignmentAssumption DEF AssignmentInv, Types, Runs
<1>2. CASE Resume
  <2> DEFINE r == Observe(run, Observed)
             f == [k \in Counters |-> IF run.limit = k THEN 0 ELSE r.counters[k]]
             c == [r EXCEPT !.status = "active", !.limit = "none", !.basis = inputs, !.counters = f]
  <2>1. Observed \in States
    BY <1>1 DEF Observed, State, States
  <2>2. r \in Runs /\ r.counters = run.counters /\ r.findings = run.findings
    BY <1>1, <2>1, ObserveDoes
  <2>3. run' = c
    BY <1>2 DEF Resume
  <2> HIDE DEF r
  <2>4. \A k \in Counters : f[k] \in {0, run.counters[k]}
    BY <2>2
  <2> HIDE DEF f
  <2>5. c.counters = f /\ c.findings = r.findings
    BY <2>2 DEF Runs
  <2> HIDE DEF c
  <2> QED
    BY <2>2, <2>3, <2>4, <2>5 DEF Steady, Counted
<1>3. CASE ResumeChecks
  <2> DEFINE checked == IF ws' = ws THEN run ELSE Observe(run, State(ws', "gate", resumes))
             c == [checked EXCEPT !.status = "paused"]
  <2>1. (run' = checked \/ run' = c) /\ ws' \in Contents
    BY <1>3 DEF ResumeChecks, ResumeChecksFail, Pauses, MayChange
  <2>2. State(ws', "gate", resumes) \in States
    BY <1>1, <2>1 DEF State, States
  <2>3. checked \in Runs /\ checked.counters = run.counters /\ checked.findings = run.findings
    BY <1>1, <2>2, ObserveDoes
  <2> HIDE DEF checked
  <2>4. c.counters = run.counters /\ c.findings = run.findings
    BY <2>3 DEF Runs
  <2> HIDE DEF c
  <2> QED
    BY <2>1, <2>3, <2>4 DEF Steady, Counted
<1> QED
  BY <1>2, <1>3

LEMMA DispatchIsCounted ==
  ASSUME AssignmentInv, NoRoute \/ Implement \/ Checks \/ StartTaskReview \/ Accept \/ Apply
  PROVE  Steady
<1>1. run \in Runs /\ NextName \in Nat /\ step.kind \in Kinds
  BY OpenRun, NextNameExists DEF AssignmentInv, Types, Steps
<1>2. CASE Refuse(run)
  BY <1>1, <1>2, RefuseDoes DEF Steady, Counted, SameWork
<1>3. CASE run' = run
  BY <1>3 DEF Steady, Counted
<1>4. ASSUME NEW kind \in Kinds, NEW name \in Nat, NEW at, Open(kind, name, at)
      PROVE  Steady
  <2>1. run' = Opened(kind, name)
    BY <1>4 DEF Open, Opened
  <2> QED
    BY <1>1, <2>1, OpenDoes DEF Steady, Counted
<1>5. CASE run' = [run EXCEPT !.accepted = TRUE]
  <2>1. run'.counters = run.counters /\ run'.findings = run.findings
    BY <1>1, <1>5 DEF Runs
  <2> QED
    BY <2>1 DEF Steady, Counted
<1>6. CASE NoRoute
  BY <1>2, <1>6 DEF NoRoute
<1>7. CASE Implement
  BY <1>3, <1>4, <1>7 DEF Implement, Resumed, Kinds
<1>8. CASE Checks
  BY <1>1, <1>2, <1>3, <1>4, <1>8 DEF Checks, Resumed, Kinds
<1>9. CASE StartTaskReview
  BY <1>2, <1>3, <1>4, <1>9 DEF StartTaskReview, Resumed, Kinds
<1>10. CASE Accept
  BY <1>2, <1>5, <1>10 DEF Accept
<1>11. CASE Apply
  BY <1>1, <1>4, <1>11 DEF Apply
<1> QED
  BY <1>6, <1>7, <1>8, <1>9, <1>10, <1>11

LEMMA StepIsCounted ==
  ASSUME AssignmentInv, [Next]_vars
  PROVE  Counted /\ (RecordTaskReview \/ run'.findings = run.findings)
<1>1. run \in Runs /\ "none" \in Counters \cup {"none"}
  BY OpenRun
<1>2. CASE \/ Replay \/ ImplementerAnswers \/ ReviewerAnswers \/ ChecksRequested \/ RunSet \/ LogsConflict
           \/ Edit \/ Done \/ UNCHANGED vars
  <2>1. run' = run \/ Refuse(run)
    BY <1>2 DEF Replay, ImplementerAnswers, ReviewerAnswers, ChecksRequested, RunSet, LogsConflict,
                Edit, Done, vars
  <2> QED
    BY <1>1, <2>1, RefuseDoes DEF Counted, SameWork
<1>3. CASE StartTurn \/ ReserveChecks
  <2>1. pc \in {"call", "reserve"} /\ (Reserve(step.kind, "turn") \/ Reserve(step.kind, "set"))
    BY <1>3 DEF StartTurn, ReserveChecks, At
  <2>2. step.op \in Ops
    BY <2>1, OpenRun DEF Calls, Sets
  <2> QED
    BY <2>1, <2>2, ReserveIsCounted DEF Steady
<1>4. CASE TurnEnds
  <2> DEFINE p == Paused("none")
  <2>1. run' = Attempt(p, step.op, "failed") /\ pc = "turn"
    BY <1>4 DEF TurnEnds, Pauses, At
  <2>2. step.op \in 1 .. Len(run.ops)
    BY <2>1, OpenRun DEF Calls
  <2>3. p \in Runs /\ p.ops = run.ops /\ p.counters = run.counters /\ p.findings = run.findings
    BY <1>1, PausedDoes DEF SameWork
  <2> HIDE DEF p
  <2>4. run'.counters = p.counters /\ run'.findings = p.findings
    BY <2>1, <2>2, <2>3, AttemptDoes DEF SameWork, Attempts
  <2> QED
    BY <2>3, <2>4 DEF Counted
<1>5. CASE Settle \/ CheckOutcome
  <2>1. /\ run' = Attempt(run, step.op, "succeeded") \/ run' = Attempt(run, step.op, SetStatus)
        /\ pc \in {"settle", "outcome"}
    BY <1>5 DEF Settle, CheckOutcome, At
  <2>2. step.op \in 1 .. Len(run.ops) /\ SetStatus \in Attempts
    BY <2>1, OpenRun DEF Calls, Sets, SetStatus, Attempts
  <2>3. run'.counters = run.counters /\ run'.findings = run.findings
    BY <1>1, <2>1, <2>2, AttemptDoes DEF SameWork, Attempts
  <2> QED
    BY <2>3 DEF Counted
<1>6. CASE Blocked \/ CheckBlocked \/ Crash
  <2>1. run' = Paused("none")
    BY <1>6 DEF Blocked, CheckBlocked, Crash, Pauses
  <2> QED
    BY <1>1, <2>1, PausedDoes DEF Counted, SameWork
<1>7. CASE RecordTaskReview
  BY <1>7, RecordIsCounted
<1>8. CASE ImplementationReady \/ CheckResult
  BY <1>8, ResultIsCounted DEF Steady
<1>9. CASE Resume \/ ResumeChecks
  BY <1>9, ResumeIsCounted DEF Steady
<1>10. CASE NoRoute \/ Implement \/ Checks \/ StartTaskReview \/ Accept \/ Apply
  BY <1>10, DispatchIsCounted DEF Steady
<1> QED
  BY <1>2, <1>3, <1>4, <1>5, <1>6, <1>7, <1>8, <1>9, <1>10 DEF Next, Controller

(***************************************************************************)
(* The theorems.                                                           *)
(***************************************************************************)
\* No counter of an assignment passes its limit: a round is only reserved
\* below it, and else the run pauses (StartOperation, StartCheckSet).
LEMMA BudgetKept == Spec => []Budget
<1>1. Init => Budget
  BY AssignmentAssumption DEF Init, Budget
<1>2. AssignmentInv /\ Budget /\ [Next]_vars => Budget'
  <2> SUFFICES ASSUME AssignmentInv, Budget, [Next]_vars, NEW c \in Counters
               PROVE  run'.counters[c] <= Limits[c]
    BY DEF Budget
  <2>1. run.counters[c] \in Nat /\ Limits[c] \in Nat /\ run.counters[c] <= Limits[c]
    <3>1. run.counters \in [Counters -> Nat]
      BY OpenRun DEF Runs
    <3> QED
      BY <3>1, AssignmentAssumption DEF Budget
  <2>2. \/ run'.counters[c] \in {0, run.counters[c]}
        \/ run.counters[c] < Limits[c] /\ run'.counters[c] = run.counters[c] + 1
    BY StepIsCounted DEF Counted
  <2> QED
    BY <2>1, <2>2
<1> QED
  BY <1>1, <1>2, AssignmentInvariant, PTL DEF Spec

\* Every variable of the assignment keeps its type, whatever is edited and
\* however often the process is ended: the counters stay within the limits
\* that StartOperation and StartCheckSet ask for, and every recorded operation
\* has its receipt or none.
THEOREM AssignmentTypeCorrect == Spec => []TypeOK
<1>1. AssignmentInv /\ Budget => TypeOK
  <2> SUFFICES ASSUME AssignmentInv, Budget
               PROVE  TypeOK
    OBVIOUS
  <2>1. /\ run \in Runs /\ Ops = 1 .. Len(run.ops) /\ Len(run.ops) \in Nat
        /\ \A i \in Ops : run.ops[i] \in Operations
    BY OpenRun, Work DEF Ops
  <2>2. run.status \in {"active", "paused"} /\ run.limit \in Counters \cup {"none"}
        /\ run.current \in States /\ run.basis \in 1 .. MaxChanges + 1
        /\ run.counters \in [Counters -> Nat]
    BY <2>1 DEF Runs
  <2>3. \A c \in Counters : run.counters[c] \in 0 .. Limits[c]
    <3> TAKE c \in Counters
    <3>1. run.counters[c] \in Nat /\ Limits[c] \in Nat /\ run.counters[c] <= Limits[c]
      BY <2>2, AssignmentAssumption DEF Budget
    <3> QED
      BY <3>1
  <2>4. \A i \in Ops :
          /\ run.ops[i].kind \in Kinds
          /\ run.ops[i].attempt \in {"none", "open", "succeeded", "failed"}
          /\ run.ops[i].result.status \in {"none", "succeeded", "failed", "forgotten"}
          /\ run.ops[i].result.state \in States
    BY <2>1 DEF Operations, Outcomes, Attempts
  <2>5. receipts \in Seq(Answers) /\ Len(receipts) = Len(run.ops) /\ step.op \in Nat /\ step.op <= Len(run.ops)
    BY DEF AssignmentInv, Types, Steps
  <2>6. DOMAIN receipts = Ops /\ step.op \in 0 .. Len(run.ops)
    BY <2>1, <2>5, LenProperties
  <2>7. ws \in Contents /\ changes \in 0 .. MaxChanges /\ resumes \in 0 .. MaxResumes
        /\ inputs \in 1 .. MaxChanges + 1
    <3>1. changes \in 0 .. MaxChanges /\ MaxChanges \in Nat /\ inputs \in 1 .. changes + 1
      BY AssignmentAssumption DEF AssignmentInv, Types
    <3>2. changes \in Nat
      BY <3>1
    <3> QED
      BY <3>1, <3>2 DEF AssignmentInv, Types
  <2> QED
    BY <2>2, <2>3, <2>4, <2>6, <2>7 DEF TypeOK
<1> QED
  BY <1>1, AssignmentInvariant, BudgetKept, PTL

\* What AcceptAssignment records was proven on the very content the working
\* copy holds, by the last required check set and the review after it, with
\* no finding left unresolved: for every number of edits, ends of the process
\* and calls of /resume between the check, the review and the acceptance.
THEOREM AcceptedWorkIsProven == Spec => []AcceptedIsProven
<1>1. AssignmentInv => AcceptedIsProven
  <2> SUFFICES ASSUME AssignmentInv, run.accepted
               PROVE  \E j \in Ops : \E i \in 1 .. j - 1 :
                        /\ Proves(i, "required") /\ Proves(j, "review")
                        /\ run.current.content = ws /\ receipts[j].content = ws
                        /\ \A k \in i + 1 .. Len(run.ops) : run.ops[k].kind # "required"
                        /\ \A f \in Findings : run.findings[f] \notin Unresolved
    BY DEF AcceptedIsProven
  <2> USE DEF AssignmentInv
  <2>1. PICK j \in Ops : Proves(j, "review")
    BY DEF AcceptInv
  <2>2. /\ Checked(j) /\ receipts[j].content = run.current.content
        /\ \A f \in Findings : run.findings[f] \notin Unresolved
    BY <2>1 DEF VerdictInv
  <2>3. run.current.content = ws
    BY DEF AcceptInv, ContentInv
  <2>4. PICK i \in 1 .. j - 1 : Proves(i, "required") /\ \A k \in i + 1 .. Len(run.ops) : run.ops[k].kind # "required"
    BY <2>2 DEF Checked
  <2> QED
    BY <2>1, <2>2, <2>3, <2>4
<1> QED
  BY <1>1, AssignmentInvariant, PTL

\* A task reviewer is only asked about content that a required check set has
\* passed on as the working copy holds it: the test of CanStartTaskReview, made
\* when the review is chosen, still holds when its turn begins.
THEOREM ReviewsSeeCheckedCode == Spec => []ReviewSeesCheckedCode
<1>1. AssignmentInv => ReviewSeesCheckedCode
  <2> SUFFICES ASSUME AssignmentInv, pc = "turn", step.kind = "review"
               PROVE  \E i \in Ops : Proves(i, "required") /\ run.ops[i].result.state.content = ws
    BY DEF ReviewSeesCheckedCode
  <2>1. Checked(step.op) /\ step.op = Len(run.ops) /\ run.current.content = ws
    BY DEF AssignmentInv, ReviewInv, ContentInv, Calls
  <2>2. PICK i \in 1 .. step.op - 1 : Proves(i, "required")
    BY <2>1 DEF Checked
  <2>3. i \in Ops
    BY <2>1, OpenRun, Work DEF Ops
  <2>4. run.ops[i].result.state = run.current
    BY <2>2 DEF Proves
  <2> QED
    BY <2>1, <2>2, <2>3, <2>4
<1> QED
  BY <1>1, AssignmentInvariant, PTL

\* taskReviewRecord never drops an unresolved finding, also when the receipt of
\* the round is replayed after a restart: the decisions that were checked
\* against the findings when the receipt was published still cover them.
THEOREM FindingsStay == Spec => FindingsKept
<1>1. AssignmentInv /\ [Next]_vars
        => [\A f \in Findings : run.findings[f] \in Unresolved => run'.findings[f] # "none"]_vars
  <2> SUFFICES ASSUME AssignmentInv, [Next]_vars, NEW f \in Findings, run.findings[f] \in Unresolved
               PROVE  run'.findings[f] # "none"
    OBVIOUS
  <2>1. CASE run'.findings = run.findings
    BY <2>1 DEF Unresolved
  <2>2. CASE RecordTaskReview
    <3> DEFINE n == step.op
               status == IF receipts[n].kind = "passed" THEN "succeeded" ELSE "failed"
               r == Result(run, n, status, run.current, 0)
    <3>1. /\ pc = "answer" /\ receipts[n].kind \in {"passed", "changes"}
          /\ run' = [r EXCEPT !.findings = ReviewRecord(receipts[n])]
      BY <2>2 DEF RecordTaskReview, At
    <3>2. run \in Runs /\ n \in Ops /\ n \in 1 .. Len(run.ops) /\ run.current \in States
      BY <3>1, OpenRun DEF Calls, Runs
    <3>3. r \in Runs
      BY <3>2, ResultDoes
    <3> HIDE DEF r
    <3>4. run'.findings = ReviewRecord(receipts[n])
      BY <3>1, <3>3 DEF Runs
    <3>5. run.ops[n].kind = "review" /\ ~Answered(n) /\ run.ops[n].basis = run.basis
      BY <3>1, <3>2 DEF AssignmentInv, StepInv, Calls
    <3>6. receipts[n] # NoAnswer
      BY <3>1 DEF NoAnswer
    <3>7. receipts[n].kind = "changes" => receipts[n].findings[f] # "none"
      BY <3>2, <3>5, <3>6 DEF AssignmentInv, ReceiptInv
    <3> QED
      BY <3>4, <3>7 DEF ReviewRecord, Unresolved
  <2> QED
    BY <2>1, <2>2, StepIsCounted
<1> QED
  BY <1>1, AssignmentInvariant, PTL DEF Spec, FindingsKept

=============================================================================
