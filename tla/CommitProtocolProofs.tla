------------------------ MODULE CommitProtocolProofs ------------------------
(***************************************************************************)
(* The safety of CommitProtocol for every value of its bounds.  The proof  *)
(* rests on one invariant, CommitInv: what each of the two records, that   *)
(* in memory and that in the journal, says of the branch (RecordInv), and  *)
(* what the position of the controller says of the record, the working     *)
(* copy and HEAD (WorkInv).                                                *)
(***************************************************************************)
EXTENDS CommitProtocol, TLAPS, FiniteSetTheorems, SequenceTheorems

CommitRecords == [tree: Trees, by: 0 .. MaxAssignments, intact: BOOLEAN]

(***************************************************************************)
(* What a record says of itself and of the branch b.                       *)
(***************************************************************************)
\* A set of at most one element.
Single(S) == \A x, y \in S : x = y

Shape(r) ==
  /\ r \in Runs
  /\ r.assignment = 0 => r.stage = "committed"
  /\ Single(r.intent) /\ Single(r.reflection)
  /\ r.stage = "accepted" => r.accepted = {r.state}
  /\ r.stage # "accepted" => r.accepted = {} /\ r.intent = {}

\* An intent is for the accepted code, on the accepted HEAD or, where a
\* commit is adopted, on the parent of a commit that was retained.
IntentInv(r) ==
  \A i \in r.intent :
    /\ i.tree.code = r.state.tree.code
    /\ \/ i.parent = r.state.head
       \/ \E c \in r.reconciled : c.commit = i.parent + 1 /\ c.assignment = r.assignment

\* A reflection moves neither HEAD nor the code.
ReflectionInv(r) ==
  \A x \in r.reflection :
    /\ x.snapshot.head = x.of.head
    /\ x.snapshot.tree.code = x.of.tree.code

\* A retained commit is on the branch, and HEAD was there when it was.
RetainedInv(r, b) ==
  \A c \in r.reconciled :
    /\ c.commit = c.parent + 1 /\ c.state.head = c.commit
    /\ c.commit <= Len(b)
    /\ b[c.commit].tree = c.tree /\ b[c.commit].by = c.assignment

\* A completed assignment has a commit of its accepted code.
DoneInv(r, b) ==
  /\ \A d \in r.done :
       /\ d.commit <= Len(b)
       /\ b[d.commit].by = d.assignment
       /\ b[d.commit].tree.code = d.state.tree.code
       /\ d.assignment <= r.assignment
       /\ r.stage # "committed" => d.assignment # r.assignment
  /\ \A d, e \in r.done : d.assignment = e.assignment => d = e

Settles(r, k, by) ==
  \/ \E d \in r.done : d.commit = k /\ d.assignment = by
  \/ \E c \in r.reconciled : c.commit = k /\ c.assignment = by
  \/ r.assignment = by /\ \E i \in r.intent : i.parent + 1 = k

AccountInv(r, b) ==
  \A k \in 1 .. Len(b) : b[k].by # 0 => Settles(r, k, b[k].by)

RecordInv(r, b) ==
  /\ Shape(r)
  /\ IntentInv(r) /\ ReflectionInv(r)
  /\ RetainedInv(r, b) /\ DoneInv(r, b) /\ AccountInv(r, b)

(***************************************************************************)
(* What the position of the controller says.                               *)
(***************************************************************************)
GitTypes ==
  /\ commits \in Seq(CommitRecords) /\ Tip \in Commits
  /\ worktree \in Trees /\ index \in Trees
  /\ published \subseteq Snapshots
  /\ pc \in Positions

\* While no step failed, memory and journal agree.
Agreement ==
  pc \in {"idle", "reflecting", "reflected", "staging", "committing", "created", "finalizing"}
    => run = saved

\* Evidence that counts is of the working copy: HEAD and code are those of
\* the current state.
FreshAt(r, position) ==
  /\ position \in {"idle", "reflecting", "reflected", "staging", "committing", "finalizing"}
  /\ r.stage \in {"reviewed", "accepted"}
  => r.state.head = Tip /\ r.state.tree.code = worktree.code

\* Where the commit in progress stands.
ProgressAt(r, position) ==
  /\ position \in {"reflecting", "reflected", "staging", "committing"} => r.stage = "accepted"
  /\ position \in {"staging", "committing"} => \E i \in r.intent : i.parent = Tip
  /\ position = "committing" => index.code = worktree.code
  /\ position = "finalizing" =>
       /\ r.intent # {}
       /\ \A i \in r.intent :
            Tip = i.parent + 1 /\ TipTree = i.tree /\ commits[Tip].by = r.assignment

\* What memory relies on is in the journal.
Relied == run.intent \subseteq saved.intent /\ run.done \subseteq saved.done

WorkInv == GitTypes /\ Agreement /\ FreshAt(run, pc) /\ ProgressAt(run, pc) /\ Relied

CommitInv == RecordInv(run, commits) /\ RecordInv(saved, commits) /\ WorkInv

(***************************************************************************)
(* The transitions of the record.                                          *)
(***************************************************************************)
LEMMA RunFields ==
  ASSUME NEW r \in Runs
  PROVE  /\ r.assignment \in 0 .. MaxAssignments
         /\ r.stage \in {"active", "reviewed", "accepted", "committed"}
         /\ r.state \in Snapshots /\ r.accepted \subseteq Snapshots
         /\ r.intent \subseteq Intents
         /\ r.reflection \subseteq [of: Snapshots, snapshot: Snapshots]
         /\ r.reflections \subseteq Snapshots
         /\ r.reconciled \subseteq [assignment: Assignments, commit: Commits,
                                    parent: Commits, tree: Trees, state: Snapshots]
         /\ r.done \subseteq [assignment: Assignments, commit: Commits, state: Snapshots]
  BY DEF Runs

\* A commit that the record settles, or that is not the controller's.
LEMMA RecordOfGrownBranch ==
  ASSUME NEW r, NEW b \in Seq(CommitRecords), NEW x \in CommitRecords,
         RecordInv(r, b), x.by = 0 \/ Settles(r, Len(b) + 1, x.by)
  PROVE  RecordInv(r, Append(b, x))
<1> DEFINE g == Append(b, x)
<1>1. /\ Len(g) = Len(b) + 1 /\ Len(b) \in Nat
      /\ \A k \in 1 .. Len(b) : g[k] = b[k]
      /\ g[Len(b) + 1] = x
  BY AppendProperties, LenProperties
<1>2. r \in Runs
  BY DEF RecordInv, Shape
<1> HIDE DEF g
<1>3. RetainedInv(r, g)
  <2> SUFFICES ASSUME NEW c \in r.reconciled
               PROVE  /\ c.commit = c.parent + 1 /\ c.state.head = c.commit
                      /\ c.commit <= Len(g)
                      /\ g[c.commit].tree = c.tree /\ g[c.commit].by = c.assignment
    BY DEF RetainedInv
  <2>1. /\ c.commit = c.parent + 1 /\ c.state.head = c.commit
        /\ c.commit <= Len(b)
        /\ b[c.commit].tree = c.tree /\ b[c.commit].by = c.assignment
    BY DEF RecordInv, RetainedInv
  <2>2. c.commit \in Commits
    BY <1>2, RunFields
  <2> QED
    BY <1>1, <2>1, <2>2, CommitAssumption DEF Commits
<1>4. DoneInv(r, g)
  <2>1. ASSUME NEW d \in r.done
        PROVE  /\ d.commit <= Len(g)
               /\ g[d.commit].by = d.assignment
               /\ g[d.commit].tree.code = d.state.tree.code
               /\ d.assignment <= r.assignment
               /\ r.stage # "committed" => d.assignment # r.assignment
    <3>1. d.commit \in Commits
      BY <1>2, RunFields
    <3>2. /\ d.commit <= Len(b)
          /\ b[d.commit].by = d.assignment
          /\ b[d.commit].tree.code = d.state.tree.code
          /\ d.assignment <= r.assignment
          /\ r.stage # "committed" => d.assignment # r.assignment
      BY DEF RecordInv, DoneInv
    <3>3. d.commit \in 1 .. Len(b)
      BY <3>1, <3>2, <1>1, CommitAssumption DEF Commits
    <3> QED
      BY <1>1, <3>2, <3>3
  <2> QED
    BY <2>1 DEF RecordInv, DoneInv
<1>5. AccountInv(r, g)
  <2> SUFFICES ASSUME NEW k \in 1 .. Len(g), g[k].by # 0
               PROVE  Settles(r, k, g[k].by)
    BY DEF AccountInv
  <2>1. CASE k = Len(b) + 1
    BY <1>1, <2>1
  <2>2. CASE k \in 1 .. Len(b)
    BY <1>1, <2>2 DEF RecordInv, AccountInv
  <2> QED
    BY <1>1, <2>1, <2>2
<1> QED
  BY <1>3, <1>4, <1>5 DEF RecordInv, g

\* The accepted assignment is completed with the commit at the tip.
LEMMA RecordCompleted ==
  ASSUME NEW r, NEW b, RecordInv(r, b), Len(b) \in Commits,
         r.stage = "accepted",
         b[Len(b)].by = r.assignment, b[Len(b)].tree.code = r.state.tree.code,
         \A i \in r.intent : i.parent + 1 = Len(b)
  PROVE  RecordInv(Completed(r, Len(b)), b)
<1> DEFINE n == Len(b)
           s == r.state
           e == [assignment |-> r.assignment, commit |-> n, state |-> s]
           q == [r EXCEPT !.stage = "committed", !.state = s, !.accepted = {},
                          !.intent = {}, !.done = @ \cup {e}]
<1>1. r \in Runs /\ r.accepted = {s} /\ r.assignment # 0
  BY DEF RecordInv, Shape
<1>2. Completed(r, n) = q
  BY <1>1 DEF Completed
<1>3. r.assignment \in Assignments /\ s \in Snapshots
  BY <1>1, RunFields, CommitAssumption DEF Assignments
<1>4. e \in [assignment: Assignments, commit: Commits, state: Snapshots]
  BY <1>3
<1>5. q \in Runs
  BY <1>1, <1>4, RunFields DEF Runs
<1>6. /\ q.assignment = r.assignment /\ q.stage = "committed" /\ q.accepted = {}
      /\ q.intent = {} /\ q.reflection = r.reflection
      /\ q.reconciled = r.reconciled /\ q.done = r.done \cup {e}
  BY <1>1 DEF Runs
<1>7. e.assignment = r.assignment /\ e.commit = n /\ e.state = s
  OBVIOUS
<1> HIDE DEF q, e
<1>8. Shape(q)
  BY <1>5, <1>6 DEF Shape, Single, RecordInv
<1>9. IntentInv(q) /\ ReflectionInv(q) /\ RetainedInv(q, b)
  BY <1>6 DEF IntentInv, ReflectionInv, RetainedInv, RecordInv
<1>10. DoneInv(q, b)
  <2>1. \A d \in r.done :
          /\ d.commit <= n
          /\ b[d.commit].by = d.assignment
          /\ b[d.commit].tree.code = d.state.tree.code
          /\ d.assignment <= r.assignment /\ d.assignment # r.assignment
    BY DEF RecordInv, DoneInv
  <2>2. e.commit <= n /\ e.assignment <= r.assignment
    BY <1>3, <1>7, CommitAssumption DEF Commits, Assignments
  <2>3. \A d, f \in r.done : d.assignment = f.assignment => d = f
    BY DEF RecordInv, DoneInv
  <2>4. \A d \in q.done :
          /\ d.commit <= n
          /\ b[d.commit].by = d.assignment
          /\ b[d.commit].tree.code = d.state.tree.code
          /\ d.assignment <= q.assignment
    BY <1>6, <1>7, <2>1, <2>2
  <2>5. \A d, f \in q.done : d.assignment = f.assignment => d = f
    BY <1>6, <1>7, <2>1, <2>3
  <2> QED
    BY <1>6, <2>4, <2>5 DEF DoneInv
<1>11. AccountInv(q, b)
  <2> SUFFICES ASSUME NEW k \in 1 .. Len(b), b[k].by # 0
               PROVE  Settles(q, k, b[k].by)
    BY DEF AccountInv
  <2>1. Settles(r, k, b[k].by)
    BY DEF RecordInv, AccountInv
  <2>2. CASE r.assignment = b[k].by /\ \E i \in r.intent : i.parent + 1 = k
    BY <1>6, <1>7, <2>2 DEF Settles
  <2> QED
    BY <1>6, <2>1, <2>2 DEF Settles
<1> QED
  BY <1>2, <1>8, <1>9, <1>10, <1>11 DEF RecordInv

\* A new code state is observed; an accepted one was at the tip of the branch.
LEMMA RecordObserved ==
  ASSUME NEW r, NEW b, NEW s \in Snapshots, RecordInv(r, b), Len(b) \in Nat,
         r.stage = "accepted" => r.state.head = Len(b)
  PROVE  RecordInv(Observed(r, s), b)
<1>1. r \in Runs
  BY DEF RecordInv, Shape
<1>2. CASE s = r.state
  BY <1>2 DEF Observed
<1>3. CASE s # r.state
  <2> DEFINE m == [r EXCEPT !.state = s]
  <2>1. m \in Runs
    BY <1>1 DEF Runs
  <2>2. /\ m.assignment = r.assignment /\ m.stage = r.stage /\ m.state = s
        /\ m.accepted = r.accepted /\ m.intent = r.intent
        /\ m.reflection = r.reflection /\ m.reconciled = r.reconciled
        /\ m.done = r.done
    BY <1>1 DEF Runs
  <2> HIDE DEF m
  <2>3. CASE r.stage \in {"reviewed", "accepted"}
    <3> DEFINE q == [m EXCEPT !.stage = "active", !.accepted = {}, !.intent = {}]
    <3>1. Observed(r, s) = q
      BY <1>3, <2>2, <2>3 DEF Observed, Reopened, m
    <3>2. q \in Runs
      BY <2>1 DEF Runs
    <3>3. /\ q.assignment = r.assignment /\ q.stage = "active"
          /\ q.accepted = {} /\ q.intent = {}
          /\ q.reflection = r.reflection /\ q.reconciled = r.reconciled
          /\ q.done = r.done
      BY <2>1, <2>2 DEF Runs
    <3> HIDE DEF q
    <3>4. Shape(q)
      BY <2>3, <3>2, <3>3 DEF Shape, Single, RecordInv
    <3>5. IntentInv(q) /\ ReflectionInv(q) /\ RetainedInv(q, b) /\ DoneInv(q, b)
      BY <2>3, <3>3 DEF IntentInv, ReflectionInv, RetainedInv, DoneInv, RecordInv
    <3>6. AccountInv(q, b)
      <4> SUFFICES ASSUME NEW k \in 1 .. Len(b), b[k].by # 0
                   PROVE  Settles(q, k, b[k].by)
        BY DEF AccountInv
      <4>1. Settles(r, k, b[k].by)
        BY DEF RecordInv, AccountInv
      <4>2. ASSUME NEW i \in r.intent, i.parent + 1 = k, r.assignment = b[k].by
            PROVE  Settles(q, k, b[k].by)
        <5>1. r.stage = "accepted"
          BY DEF RecordInv, Shape
        <5>2. i.parent # Len(b)
          BY <4>2
        <5>3. PICK c \in r.reconciled : c.commit = i.parent + 1 /\ c.assignment = r.assignment
          BY <5>1, <5>2 DEF RecordInv, IntentInv
        <5> QED
          BY <3>3, <4>2, <5>3 DEF Settles
      <4> QED
        BY <3>3, <4>1, <4>2 DEF Settles
    <3> QED
      BY <3>1, <3>4, <3>5, <3>6 DEF RecordInv
  <2>4. CASE r.stage \notin {"reviewed", "accepted"}
    <3>1. Observed(r, s) = m
      BY <1>3, <2>2, <2>4 DEF Observed, m
    <3>2. r.intent = {}
      BY <2>4 DEF RecordInv, Shape
    <3>3. Shape(m)
      BY <2>1, <2>2, <2>4 DEF Shape, Single, RecordInv
    <3>4. IntentInv(m) /\ ReflectionInv(m) /\ RetainedInv(m, b) /\ DoneInv(m, b)
      BY <2>2, <3>2 DEF IntentInv, ReflectionInv, RetainedInv, DoneInv, RecordInv
    <3>5. AccountInv(m, b)
      BY <2>2 DEF AccountInv, Settles, RecordInv
    <3> QED
      BY <3>1, <3>3, <3>4, <3>5 DEF RecordInv
  <2> QED
    BY <2>3, <2>4
<1> QED
  BY <1>2, <1>3

\* A change of the record that completes and retains nothing, and settles
\* what the intent settled.
LEMMA RecordKept ==
  ASSUME NEW r, NEW q, NEW b, RecordInv(r, b),
         Shape(q), IntentInv(q), ReflectionInv(q),
         q.assignment = r.assignment, q.reconciled = r.reconciled, q.done = r.done,
         q.stage # "committed" => r.stage # "committed",
         \A k \in 1 .. Len(b) :
           (\E i \in r.intent : i.parent + 1 = k) /\ r.assignment = b[k].by
             => Settles(q, k, b[k].by)
  PROVE  RecordInv(q, b)
<1>1. RetainedInv(q, b) /\ DoneInv(q, b)
  BY DEF RetainedInv, DoneInv, RecordInv
<1>2. AccountInv(q, b)
  <2> SUFFICES ASSUME NEW k \in 1 .. Len(b), b[k].by # 0
               PROVE  Settles(q, k, b[k].by)
    BY DEF AccountInv
  <2>1. Settles(r, k, b[k].by)
    BY DEF RecordInv, AccountInv
  <2> QED
    BY <2>1 DEF Settles
<1> QED
  BY <1>1, <1>2 DEF RecordInv

\* What an observation leaves of a record.
LEMMA ObservedFields ==
  ASSUME NEW r \in Runs, NEW s \in Snapshots
  PROVE  /\ Observed(r, s).state = s /\ Observed(r, s).done = r.done
         /\ Observed(r, s).intent \subseteq r.intent
         /\ Observed(r, s).assignment = r.assignment
         /\ r.stage = "active" => Observed(r, s).stage = "active"
  BY DEF Observed, Reopened, Runs

\* A new assignment starts with nothing completed in its name.
LEMMA RecordStarted ==
  ASSUME NEW r, NEW b, RecordInv(r, b), r.stage = "committed",
         r.assignment < MaxAssignments
  PROVE  RecordInv([r EXCEPT !.assignment = @ + 1, !.stage = "active"], b)
<1> DEFINE q == [r EXCEPT !.assignment = @ + 1, !.stage = "active"]
<1>1. r \in Runs /\ r.accepted = {} /\ r.intent = {}
  BY DEF RecordInv, Shape
<1>2. r.assignment \in Nat /\ r.assignment + 1 \in 0 .. MaxAssignments
  BY <1>1, RunFields, CommitAssumption
<1>3. q \in Runs
  BY <1>1, <1>2 DEF Runs
<1>4. /\ q.assignment = r.assignment + 1 /\ q.stage = "active"
      /\ q.accepted = {} /\ q.intent = {} /\ q.reflection = r.reflection
      /\ q.reconciled = r.reconciled /\ q.done = r.done
  BY <1>1 DEF Runs
<1> HIDE DEF q
<1>5. Shape(q)
  BY <1>2, <1>3, <1>4 DEF Shape, Single, RecordInv
<1>6. IntentInv(q) /\ ReflectionInv(q) /\ RetainedInv(q, b)
  BY <1>4 DEF IntentInv, ReflectionInv, RetainedInv, RecordInv
<1>7. DoneInv(q, b)
  <2>1. ASSUME NEW d \in r.done
        PROVE  d.assignment <= q.assignment /\ d.assignment # q.assignment
    <3>1. d.assignment \in Assignments /\ d.assignment <= r.assignment
      BY <1>1, RunFields DEF RecordInv, DoneInv
    <3> QED
      BY <1>2, <1>4, <3>1, CommitAssumption DEF Assignments
  <2> QED
    BY <1>4, <2>1 DEF DoneInv, RecordInv
<1>8. AccountInv(q, b)
  BY <1>1, <1>4 DEF AccountInv, Settles, RecordInv
<1> QED
  BY <1>5, <1>6, <1>7, <1>8 DEF RecordInv, q

\* A review adds nothing to be committed.
LEMMA RecordReviewed ==
  ASSUME NEW r, NEW b, RecordInv(r, b), r.stage = "active"
  PROVE  RecordInv([r EXCEPT !.stage = "reviewed"], b)
<1> DEFINE q == [r EXCEPT !.stage = "reviewed"]
<1>1. r \in Runs /\ r.accepted = {} /\ r.intent = {} /\ r.assignment # 0
  BY DEF RecordInv, Shape
<1>2. q \in Runs
  BY <1>1 DEF Runs
<1>3. /\ q.assignment = r.assignment /\ q.stage = "reviewed" /\ q.accepted = {}
      /\ q.intent = {} /\ q.reflection = r.reflection
      /\ q.reconciled = r.reconciled /\ q.done = r.done
  BY <1>1 DEF Runs
<1> HIDE DEF q
<1>4. Shape(q) /\ IntentInv(q) /\ ReflectionInv(q)
  BY <1>1, <1>2, <1>3 DEF Shape, Single, IntentInv, ReflectionInv, RecordInv
<1>5. RecordInv(q, b)
  BY <1>1, <1>3, <1>4, RecordKept
<1> QED
  BY <1>5 DEF q

\* An acceptance starts without an intent and without a reflection.
LEMMA RecordAccepted ==
  ASSUME NEW r, NEW b, RecordInv(r, b), r.stage = "reviewed"
  PROVE  RecordInv([r EXCEPT !.stage = "accepted", !.accepted = {r.state},
                             !.reflection = {}], b)
<1> DEFINE q == [r EXCEPT !.stage = "accepted", !.accepted = {r.state}, !.reflection = {}]
<1>1. r \in Runs /\ r.intent = {} /\ r.assignment # 0 /\ r.state \in Snapshots
  BY RunFields DEF RecordInv, Shape
<1>2. q \in Runs
  BY <1>1 DEF Runs
<1>3. /\ q.assignment = r.assignment /\ q.stage = "accepted" /\ q.accepted = {r.state}
      /\ q.state = r.state /\ q.intent = {} /\ q.reflection = {}
      /\ q.reconciled = r.reconciled /\ q.done = r.done
  BY <1>1 DEF Runs
<1> HIDE DEF q
<1>4. Shape(q) /\ IntentInv(q) /\ ReflectionInv(q)
  BY <1>1, <1>2, <1>3 DEF Shape, Single, IntentInv, ReflectionInv
<1>5. RecordInv(q, b)
  BY <1>1, <1>3, <1>4, RecordKept
<1> QED
  BY <1>5 DEF q

\* A reflection is made again.
LEMMA RecordReserved ==
  ASSUME NEW r, NEW b, RecordInv(r, b)
  PROVE  RecordInv([r EXCEPT !.reflection = {}], b)
<1> DEFINE q == [r EXCEPT !.reflection = {}]
<1>1. r \in Runs
  BY DEF RecordInv, Shape
<1>2. q \in Runs
  BY <1>1 DEF Runs
<1>3. /\ q.assignment = r.assignment /\ q.stage = r.stage /\ q.accepted = r.accepted
      /\ q.state = r.state /\ q.intent = r.intent /\ q.reflection = {}
      /\ q.reconciled = r.reconciled /\ q.done = r.done
  BY <1>1 DEF Runs
<1> HIDE DEF q
<1>4. Shape(q) /\ IntentInv(q) /\ ReflectionInv(q)
  BY <1>2, <1>3 DEF Shape, Single, IntentInv, ReflectionInv, RecordInv
<1>5. \A k \in 1 .. Len(b) : Settles(r, k, b[k].by) => Settles(q, k, b[k].by)
  BY <1>3 DEF Settles
<1>6. RecordInv(q, b)
  BY <1>3, <1>4, <1>5, RecordKept DEF Settles
<1> QED
  BY <1>6 DEF q

\* The reflection saw the HEAD and the code of the current state.
LEMMA RecordReflected ==
  ASSUME NEW r, NEW b, NEW w \in Snapshots, RecordInv(r, b),
         w.head = r.state.head, w.tree.code = r.state.tree.code
  PROVE  RecordInv([r EXCEPT !.reflection = {[of |-> r.state, snapshot |-> w]},
                             !.reflections = @ \cup {w}], b)
<1> DEFINE x == [of |-> r.state, snapshot |-> w]
           q == [r EXCEPT !.reflection = {x}, !.reflections = @ \cup {w}]
<1>1. r \in Runs /\ r.state \in Snapshots
  BY RunFields DEF RecordInv, Shape
<1>2. x \in [of: Snapshots, snapshot: Snapshots] /\ x.of = r.state /\ x.snapshot = w
  BY <1>1
<1>3. q \in Runs
  BY <1>1, <1>2 DEF Runs
<1>4. /\ q.assignment = r.assignment /\ q.stage = r.stage /\ q.accepted = r.accepted
      /\ q.state = r.state /\ q.intent = r.intent /\ q.reflection = {x}
      /\ q.reconciled = r.reconciled /\ q.done = r.done
  BY <1>1 DEF Runs
<1> HIDE DEF q, x
<1>5. Shape(q) /\ IntentInv(q) /\ ReflectionInv(q)
  BY <1>2, <1>3, <1>4 DEF Shape, Single, IntentInv, ReflectionInv, RecordInv
<1>6. \A k \in 1 .. Len(b) : Settles(r, k, b[k].by) => Settles(q, k, b[k].by)
  BY <1>4 DEF Settles
<1>7. RecordInv(q, b)
  BY <1>4, <1>5, <1>6, RecordKept DEF Settles
<1> QED
  BY <1>7 DEF q, x

\* An intent that replaces none for a commit that exists.
LEMMA RecordIntended ==
  ASSUME NEW r, NEW b, NEW p \in Intents, RecordInv(r, b), r.stage = "accepted",
         p.tree.code = r.state.tree.code,
         \/ p.parent = r.state.head
         \/ \E c \in r.reconciled : c.commit = p.parent + 1 /\ c.assignment = r.assignment,
         \A i \in r.intent, k \in 1 .. Len(b) : i.parent + 1 # k
  PROVE  RecordInv([r EXCEPT !.intent = {p}], b)
<1> DEFINE q == [r EXCEPT !.intent = {p}]
<1>1. r \in Runs
  BY DEF RecordInv, Shape
<1>2. q \in Runs
  BY <1>1 DEF Runs
<1>3. /\ q.assignment = r.assignment /\ q.stage = r.stage /\ q.accepted = r.accepted
      /\ q.state = r.state /\ q.intent = {p} /\ q.reflection = r.reflection
      /\ q.reconciled = r.reconciled /\ q.done = r.done
  BY <1>1 DEF Runs
<1> HIDE DEF q
<1>4. Shape(q) /\ IntentInv(q) /\ ReflectionInv(q)
  BY <1>2, <1>3 DEF Shape, Single, IntentInv, ReflectionInv, RecordInv
<1>5. RecordInv(q, b)
  BY <1>3, <1>4, RecordKept
<1> QED
  BY <1>5 DEF q

\* The intent keeps its parent and takes the tree of the working copy.
LEMMA RecordRetreed ==
  ASSUME NEW r, NEW b, NEW t \in Trees, RecordInv(r, b), t.code = r.state.tree.code
  PROVE  RecordInv([r EXCEPT !.intent = {[parent |-> i.parent, tree |-> t] : i \in @}], b)
<1> DEFINE I == {[parent |-> i.parent, tree |-> t] : i \in r.intent}
           q == [r EXCEPT !.intent = I]
<1>1. r \in Runs /\ r.intent \subseteq Intents
  BY RunFields DEF RecordInv, Shape
<1>2. /\ I \subseteq Intents
      /\ \A j \in I : j.tree = t /\ \E i \in r.intent : j.parent = i.parent
      /\ \A i \in r.intent : \E j \in I : j.parent = i.parent
      /\ Single(I)
  <2>1. I \subseteq Intents
    BY <1>1 DEF Intents
  <2>2. \A j \in I : j.tree = t /\ \E i \in r.intent : j.parent = i.parent
    OBVIOUS
  <2>3. ASSUME NEW i \in r.intent
        PROVE  \E j \in I : j.parent = i.parent
    <3>1. [parent |-> i.parent, tree |-> t] \in I
      OBVIOUS
    <3> QED
      BY <3>1
  <2>4. Single(r.intent)
    BY DEF RecordInv, Shape
  <2>5. Single(I)
    BY <2>4 DEF Single
  <2> QED
    BY <2>1, <2>2, <2>3, <2>5
<1> HIDE DEF I
<1>3. q \in Runs
  BY <1>1, <1>2 DEF Runs
<1>4. /\ q.assignment = r.assignment /\ q.stage = r.stage /\ q.accepted = r.accepted
      /\ q.state = r.state /\ q.intent = I /\ q.reflection = r.reflection
      /\ q.reconciled = r.reconciled /\ q.done = r.done
  BY <1>1 DEF Runs
<1> HIDE DEF q
<1>5. Shape(q)
  BY <1>2, <1>3, <1>4 DEF Shape, RecordInv
<1>6. IntentInv(q) /\ ReflectionInv(q)
  BY <1>2, <1>4 DEF IntentInv, ReflectionInv, RecordInv
<1>7. \A k \in 1 .. Len(b) : Settles(r, k, b[k].by) => Settles(q, k, b[k].by)
  BY <1>2, <1>4 DEF Settles
<1>8. RecordInv(q, b)
  BY <1>4, <1>5, <1>6, <1>7, RecordKept DEF Settles
<1> QED
  BY <1>8 DEF q, I

\* The content that a hook changed is retained, and the assignment reopened.
LEMMA RecordReopened ==
  ASSUME NEW r, NEW b, NEW s \in Snapshots, NEW i \in r.intent, RecordInv(r, b),
         Len(b) = i.parent + 1, s.head = Len(b), b[Len(b)].by = r.assignment,
         b[Len(b)].tree \in Trees, Len(b) \in Commits
  PROVE  RecordInv(Reopened([r EXCEPT
                     !.reconciled = @ \cup {[assignment |-> r.assignment,
                                             commit |-> Len(b), parent |-> i.parent,
                                             tree |-> b[Len(b)].tree, state |-> s]},
                     !.state = s]), b)
<1> DEFINE c == [assignment |-> r.assignment, commit |-> Len(b), parent |-> i.parent,
                 tree |-> b[Len(b)].tree, state |-> s]
           m == [r EXCEPT !.reconciled = @ \cup {c}, !.state = s]
           q == [m EXCEPT !.stage = "active", !.accepted = {}, !.intent = {}]
<1>1. r \in Runs /\ r.assignment # 0 /\ r.stage = "accepted" /\ Single(r.intent)
  BY DEF RecordInv, Shape
<1>2. r.assignment \in Assignments /\ i.parent \in Commits
  BY <1>1, RunFields, CommitAssumption DEF Assignments, Intents
<1>3. /\ c \in [assignment: Assignments, commit: Commits, parent: Commits,
                tree: Trees, state: Snapshots]
      /\ c.commit = c.parent + 1 /\ c.state.head = c.commit /\ c.commit = Len(b)
      /\ b[c.commit].tree = c.tree /\ b[c.commit].by = c.assignment
      /\ c.assignment = r.assignment
  BY <1>2
<1> HIDE DEF c
<1>4. m \in Runs
  BY <1>1, <1>3 DEF Runs
<1>5. /\ m.assignment = r.assignment /\ m.reflection = r.reflection
      /\ m.reconciled = r.reconciled \cup {c} /\ m.done = r.done
  BY <1>1 DEF Runs
<1> HIDE DEF m
<1>6. q \in Runs
  BY <1>4 DEF Runs
<1>7. /\ q.assignment = r.assignment /\ q.stage = "active"
      /\ q.accepted = {} /\ q.intent = {} /\ q.reflection = r.reflection
      /\ q.reconciled = r.reconciled \cup {c} /\ q.done = r.done
  BY <1>4, <1>5 DEF Runs
<1> HIDE DEF q
<1>8. Shape(q)
  BY <1>1, <1>6, <1>7 DEF Shape, Single, RecordInv
<1>9. IntentInv(q) /\ ReflectionInv(q)
  BY <1>7 DEF IntentInv, ReflectionInv, RecordInv
<1>10. RetainedInv(q, b)
  <2>1. c.commit <= Len(b)
    BY <1>3, CommitAssumption DEF Commits
  <2> QED
    BY <1>3, <1>7, <2>1 DEF RetainedInv, RecordInv
<1>11. DoneInv(q, b)
  BY <1>1, <1>7 DEF DoneInv, RecordInv
<1>12. AccountInv(q, b)
  <2> SUFFICES ASSUME NEW k \in 1 .. Len(b), b[k].by # 0
               PROVE  Settles(q, k, b[k].by)
    BY DEF AccountInv
  <2>1. Settles(r, k, b[k].by)
    BY DEF RecordInv, AccountInv
  <2>2. CASE r.assignment = b[k].by /\ \E j \in r.intent : j.parent + 1 = k
    <3>1. k = c.commit
      BY <1>1, <1>3, <2>2 DEF Single
    <3> QED
      BY <1>3, <1>7, <3>1 DEF Settles
  <2> QED
    BY <1>7, <2>1, <2>2 DEF Settles
<1>13. RecordInv(q, b)
  BY <1>8, <1>9, <1>10, <1>11, <1>12 DEF RecordInv
<1> QED
  BY <1>13 DEF Reopened, q, m, c

(***************************************************************************)
(* The steps.                                                              *)
(***************************************************************************)
LEMMA CaptureType ==
  ASSUME GitTypes
  PROVE  /\ Capture \in Snapshots /\ Capture.head = Tip
         /\ Capture.tree = worktree /\ Capture.index = index
         /\ Tip \in Nat /\ commits[Tip] \in CommitRecords
         /\ TipTree \in Trees
<1>1. Tip \in Nat /\ Tip >= 1 /\ Tip = Len(commits)
  BY LenProperties, CommitAssumption DEF GitTypes, Commits, Tip
<1>2. commits[Tip] \in CommitRecords
  BY <1>1, ElementOfSeq DEF GitTypes
<1> QED
  BY <1>1, <1>2 DEF GitTypes, Capture, Snapshots, CommitRecords, TipTree

\* Whatever comes of a call of StateStore.Record with Git unchanged: the
\* invariant holds if it holds of the candidate where it arrives.
LEMMA SaveStep ==
  ASSUME NEW candidate, NEW kept, NEW next \in Positions, Save(candidate, kept, next),
         CommitInv, UNCHANGED git, published' \subseteq Snapshots,
         RecordInv(candidate, commits), RecordInv(kept, commits),
         kept.intent \subseteq run.intent, kept.done \subseteq run.done,
         FreshAt(candidate, next), ProgressAt(candidate, next)
  PROVE  CommitInv'
<1>1. commits' = commits /\ worktree' = worktree /\ index' = index
  BY DEF git
<1>2. RecordInv(saved, commits) /\ Relied /\ GitTypes
  BY DEF CommitInv, WorkInv
<1>3. GitTypes' \/ pc' \notin Positions
  BY <1>1, <1>2 DEF GitTypes, Tip
<1>4. CASE run' = candidate /\ saved' = candidate /\ pc' = next
  <2>1. FreshAt(run, pc)' /\ ProgressAt(run, pc)'
    BY <1>1, <1>4 DEF FreshAt, ProgressAt, Tip, TipTree
  <2> QED
    BY <1>1, <1>3, <1>4, <2>1 DEF CommitInv, WorkInv, Agreement, Relied
<1>5. CASE run' = kept /\ saved' = saved /\ pc' = "failed"
  <2>1. FreshAt(run, pc)' /\ ProgressAt(run, pc)'
    BY <1>5 DEF FreshAt, ProgressAt
  <2>2. Relied'
    BY <1>2, <1>5 DEF Relied
  <2> QED
    BY <1>1, <1>2, <1>3, <1>5, <2>1, <2>2 DEF CommitInv, WorkInv, Agreement, Positions
<1>6. CASE run' = candidate /\ saved' = candidate /\ pc' = "stuck"
  <2>1. FreshAt(run, pc)' /\ ProgressAt(run, pc)'
    BY <1>6 DEF FreshAt, ProgressAt
  <2> QED
    BY <1>1, <1>3, <1>6, <2>1 DEF CommitInv, WorkInv, Agreement, Relied, Positions
<1> QED
  BY <1>4, <1>5, <1>6 DEF Save

\* A pause changes nothing of the record.
LEMMA PauseStep ==
  ASSUME CommitInv, Pause, UNCHANGED git, published' \subseteq Snapshots
  PROVE  CommitInv'
<1>1. FreshAt(run, "paused") /\ ProgressAt(run, "paused") /\ "paused" \in Positions
  BY DEF FreshAt, ProgressAt, Positions
<1> QED
  BY <1>1, SaveStep DEF Pause, CommitInv

\* Up to the review.
LEMMA PrepareSteps ==
  ASSUME CommitInv, StartAssignment \/ Implement \/ Review
  PROVE  CommitInv'
<1> USE DEF CommitInv, WorkInv
<1>0. GitTypes /\ Agreement /\ run \in Runs
  BY DEF RecordInv, Shape
<1>1. CASE StartAssignment
  <2> USE <1>1 DEF StartAssignment
  <2>1. commits' = commits /\ worktree' = worktree /\ index' = index /\ pc' = "idle"
    BY DEF git
  <2>2. RecordInv(run', commits)
    BY RecordStarted
  <2>3. run'.stage = "active"
    BY <1>0 DEF Runs
  <2>4. GitTypes'
    BY <1>0, <2>1 DEF GitTypes, Tip
  <2>5. FreshAt(run, pc)' /\ ProgressAt(run, pc)'
    BY <2>1, <2>3 DEF FreshAt, ProgressAt
  <2> QED
    BY <2>1, <2>2, <2>4, <2>5 DEF Agreement, Relied
<1>2. CASE Implement
  <2> USE <1>2 DEF Implement
  <2>1. /\ commits' = commits /\ index' = index /\ pc' = "idle" /\ pc = "idle"
        /\ run' = run /\ saved' = saved /\ published' = published
        /\ run.stage = "active"
    OBVIOUS
  <2>2. worktree' \in Trees
    BY <1>0 DEF GitTypes, Trees
  <2>3. GitTypes'
    BY <1>0, <2>1, <2>2 DEF GitTypes, Tip
  <2>4. FreshAt(run, pc)' /\ ProgressAt(run, pc)'
    BY <2>1 DEF FreshAt, ProgressAt
  <2> QED
    BY <1>0, <2>1, <2>3, <2>4 DEF Agreement, Relied
<1>3. CASE Review
  <2> USE <1>3 DEF Review
  <2> DEFINE o == Observed(run, Capture)
  <2>1. /\ commits' = commits /\ worktree' = worktree /\ index' = index /\ pc' = "idle"
        /\ run' = [o EXCEPT !.stage = "reviewed"]
    BY DEF git
  <2>2. RecordInv(o, commits)
    BY <1>0, CaptureType, RecordObserved DEF Tip
  <2>3. o.state = Capture /\ o.stage = "active" /\ o \in Runs
    BY <1>0, <2>2, CaptureType, ObservedFields DEF RecordInv, Shape
  <2> HIDE DEF o
  <2>4. RecordInv(run', commits)
    BY <2>1, <2>2, <2>3, RecordReviewed
  <2>5. run'.state = Capture /\ run'.stage = "reviewed"
    BY <2>1, <2>3 DEF Runs
  <2>6. GitTypes'
    BY <1>0, <2>1 DEF GitTypes, Tip
  <2>7. FreshAt(run, pc)'
    BY <1>0, <2>1, <2>5, CaptureType DEF FreshAt, Tip
  <2>8. ProgressAt(run, pc)'
    BY <2>1 DEF ProgressAt
  <2> QED
    BY <2>1, <2>4, <2>6, <2>7, <2>8 DEF Agreement, Relied
<1> QED
  BY <1>1, <1>2, <1>3

\* The acceptance and the reflection.
LEMMA AcceptanceSteps ==
  ASSUME CommitInv,
         AcceptAssignment \/ ContinueReflection \/ ReflectTasks \/ RecordReflection
  PROVE  CommitInv'
<1>0. /\ GitTypes /\ Agreement /\ Relied /\ run \in Runs
      /\ RecordInv(run, commits) /\ RecordInv(saved, commits)
      /\ FreshAt(run, pc) /\ ProgressAt(run, pc)
  BY DEF CommitInv, WorkInv, RecordInv, Shape
<1>1. CASE AcceptAssignment
  <2> USE <1>1 DEF AcceptAssignment
  <2> DEFINE q == [run EXCEPT !.stage = "accepted", !.accepted = {run.state},
                              !.reflection = {}]
  <2>1. /\ Save(q, q, "reflecting") /\ UNCHANGED git /\ published' = published
        /\ pc = "idle" /\ run.stage = "reviewed" /\ "reflecting" \in Positions
    BY DEF Positions
  <2>2. /\ q.stage = "accepted" /\ q.state = run.state /\ q.intent = run.intent
        /\ q.done = run.done
    BY <1>0 DEF Runs
  <2>3. RecordInv(q, commits)
    BY <1>0, <2>1, RecordAccepted
  <2> HIDE DEF q
  <2>4. FreshAt(q, "reflecting") /\ ProgressAt(q, "reflecting")
    BY <1>0, <2>1, <2>2 DEF FreshAt, ProgressAt
  <2> QED
    BY <1>0, <2>1, <2>2, <2>3, <2>4, SaveStep DEF GitTypes
<1>2. CASE ContinueReflection
  <2> USE <1>2 DEF ContinueReflection
  <2> DEFINE q == [run EXCEPT !.reflection = {}]
  <2>1. /\ Save(q, q, "reflecting") /\ UNCHANGED git /\ published' = published
        /\ pc = "idle" /\ run.stage = "accepted" /\ "reflecting" \in Positions
    BY DEF Positions
  <2>2. /\ q.stage = "accepted" /\ q.state = run.state /\ q.intent = run.intent
        /\ q.done = run.done
    BY <1>0, <2>1 DEF Runs
  <2>3. RecordInv(q, commits)
    BY <1>0, RecordReserved
  <2> HIDE DEF q
  <2>4. FreshAt(q, "reflecting") /\ ProgressAt(q, "reflecting")
    BY <1>0, <2>1, <2>2 DEF FreshAt, ProgressAt
  <2> QED
    BY <1>0, <2>1, <2>2, <2>3, <2>4, SaveStep DEF GitTypes
<1>3. CASE ReflectTasks
  <2> USE <1>3 DEF ReflectTasks
  <2>1. /\ commits' = commits /\ index' = index /\ published' = published
        /\ run' = run /\ saved' = saved /\ pc = "reflecting" /\ pc' = "reflected"
    OBVIOUS
  <2>2. worktree' \in Trees /\ worktree'.code = worktree.code
    BY <1>0, RunFields DEF GitTypes, Trees
  <2>3. GitTypes'
    BY <1>0, <2>1, <2>2 DEF GitTypes, Tip, Positions
  <2>4. FreshAt(run, pc)' /\ ProgressAt(run, pc)'
    BY <1>0, <2>1, <2>2 DEF FreshAt, ProgressAt, Tip
  <2>5. Agreement' /\ Relied'
    BY <1>0, <2>1 DEF Agreement, Relied
  <2> QED
    BY <1>0, <2>1, <2>3, <2>4, <2>5 DEF CommitInv, WorkInv
<1>4. CASE RecordReflection
  <2> USE <1>4 DEF RecordReflection
  <2> DEFINE x == [of |-> run.state, snapshot |-> Capture]
             q == [run EXCEPT !.reflection = {x}, !.reflections = @ \cup {Capture}]
  <2>1. /\ Save(q, q, "idle") /\ UNCHANGED git /\ published' = published
        /\ pc = "reflected" /\ "idle" \in Positions
    BY DEF Positions
  <2>2. /\ run.stage = "accepted"
        /\ run.state.head = Tip /\ run.state.tree.code = worktree.code
    BY <1>0, <2>1 DEF FreshAt, ProgressAt
  <2>3. /\ q.stage = "accepted" /\ q.state = run.state /\ q.intent = run.intent
        /\ q.done = run.done
    BY <1>0, <2>2 DEF Runs
  <2>4. RecordInv(q, commits)
    BY <1>0, <2>2, CaptureType, RecordReflected
  <2> HIDE DEF q
  <2>5. FreshAt(q, "idle") /\ ProgressAt(q, "idle")
    BY <2>2, <2>3 DEF FreshAt, ProgressAt
  <2> QED
    BY <1>0, <2>1, <2>3, <2>4, <2>5, SaveStep DEF GitTypes
<1> QED
  BY <1>1, <1>2, <1>3, <1>4

\* What the controller prepares to commit is the accepted code on the
\* accepted HEAD, unless an intent is pending.
LEMMA PreparedIsAccepted ==
  ASSUME CommitInv, NEW p, Committing(p)
  PROVE  /\ pc = "idle" /\ run.stage = "accepted" /\ run.accepted = {run.state}
         /\ run.state.head = Tip /\ run.state.tree.code = worktree.code
         /\ p \in Intents /\ p.tree.code = run.state.tree.code
         /\ run.intent = {} => p.parent = Tip
         /\ run.intent # {} => p \in run.intent
<1>1. /\ pc = "idle" /\ run.stage = "accepted" /\ p \in Preparations
  BY DEF Committing
<1>2. /\ run \in Runs /\ run.accepted = {run.state}
      /\ run.state.head = Tip /\ run.state.tree.code = worktree.code
  BY <1>1 DEF CommitInv, WorkInv, RecordInv, Shape, FreshAt
<1>3. CASE run.intent # {}
  <2>1. p \in run.intent
    BY <1>1, <1>3 DEF Preparations
  <2> QED
    BY <1>1, <1>2, <1>3, <2>1, RunFields DEF CommitInv, RecordInv, IntentInv
<1>4. CASE run.intent = {}
  <2>1. PICK r \in run.reflection :
          r.of = run.state /\ p = [parent |-> r.snapshot.head, tree |-> r.snapshot.tree]
    BY <1>1, <1>2, <1>4 DEF Preparations
  <2>2. r.snapshot.head = r.of.head /\ r.snapshot.tree.code = r.of.tree.code
    BY DEF CommitInv, RecordInv, ReflectionInv
  <2>3. r.snapshot \in Snapshots
    BY <1>2, RunFields
  <2> QED
    BY <1>1, <1>2, <1>4, <2>1, <2>2, <2>3 DEF Intents, Snapshots
<1> QED
  BY <1>3, <1>4

\* The first record of an adopted commit: HEAD is the retained commit and was
\* accepted, so a pending intent is for no commit yet.
LEMMA AdoptStep ==
  ASSUME CommitInv, AdoptReconciled
  PROVE  CommitInv'
<1>0. PICK p \in Preparations : \E c \in Reusable(p) :
        /\ Committing(p)
        /\ Save([run EXCEPT !.intent = {[parent |-> c.parent, tree |-> c.tree]}], run,
                "finalizing")
        /\ UNCHANGED <<git, published>>
  BY DEF AdoptReconciled
<1>1. PICK c \in Reusable(p) :
        /\ Committing(p)
        /\ Save([run EXCEPT !.intent = {[parent |-> c.parent, tree |-> c.tree]}], run,
                "finalizing")
        /\ UNCHANGED <<git, published>>
  BY <1>0
<1> DEFINE i == [parent |-> c.parent, tree |-> c.tree]
           q == [run EXCEPT !.intent = {i}]
<1>2. /\ GitTypes /\ RecordInv(run, commits) /\ run \in Runs /\ Relied
  BY DEF CommitInv, WorkInv, RecordInv, Shape
<1>3. /\ run.stage = "accepted" /\ run.accepted = {run.state}
      /\ run.state.head = Tip /\ run.state.tree.code = worktree.code
      /\ p.tree.code = run.state.tree.code
      /\ run.intent # {} => p \in run.intent
  BY <1>1, PreparedIsAccepted
<1>4. /\ c \in run.reconciled /\ c.assignment = run.assignment
      /\ c.commit = p.parent /\ c.tree = p.tree /\ c.state = run.state
  BY <1>3 DEF Reusable
<1>5. /\ c.commit = c.parent + 1 /\ c.commit = Tip
      /\ TipTree = c.tree /\ commits[Tip].by = run.assignment
  BY <1>2, <1>3, <1>4 DEF RecordInv, RetainedInv, TipTree
<1>6. i \in Intents /\ i.parent = c.parent /\ i.tree = c.tree
  BY <1>2, <1>4, RunFields DEF Intents
<1> HIDE DEF i
<1>7. q.stage = run.stage /\ q.state = run.state /\ q.intent = {i}
      /\ q.assignment = run.assignment
  BY <1>2 DEF Runs
<1>8. ASSUME NEW j \in run.intent, NEW k \in 1 .. Len(commits)
      PROVE  j.parent + 1 # k
  <2>1. j = p
    BY <1>2, <1>3 DEF RecordInv, Shape, Single
  <2>2. j.parent = Len(commits) /\ Len(commits) \in Nat
    BY <1>2, <1>4, <1>5, <2>1, CaptureType DEF Tip
  <2> QED
    BY <2>2
<1>9. RecordInv(q, commits)
  <2>1. \E x \in run.reconciled : x.commit = i.parent + 1 /\ x.assignment = run.assignment
    BY <1>4, <1>5, <1>6
  <2> QED
    BY <1>2, <1>3, <1>4, <1>6, <1>8, <2>1, RecordIntended
<1> HIDE DEF q
<1>10. FreshAt(q, "finalizing")
  BY <1>3, <1>7 DEF FreshAt
<1>11. ProgressAt(q, "finalizing")
  BY <1>5, <1>6, <1>7 DEF ProgressAt
<1>12. /\ Save(q, run, "finalizing") /\ UNCHANGED git /\ published' = published
       /\ "finalizing" \in Positions
  BY <1>1 DEF q, i, Positions
<1> QED
  BY <1>2, <1>9, <1>10, <1>11, <1>12, SaveStep DEF GitTypes

\* A commit of the accepted code at the tip completes the assignment.
LEMMA CompleteStep ==
  ASSUME CommitInv, NEW i \in run.intent, Tip = i.parent + 1,
         commits[Tip].by = run.assignment, TipTree = i.tree,
         Save(Completed(run, Tip), run, "idle"), UNCHANGED <<git, published>>
  PROVE  CommitInv'
<1> DEFINE q == Completed(run, Tip)
<1>1. GitTypes /\ RecordInv(run, commits)
  BY DEF CommitInv, WorkInv
<1>2. run \in Runs /\ run.stage = "accepted"
  BY <1>1 DEF RecordInv, Shape
<1>3. \A j \in run.intent : j.parent + 1 = Len(commits)
  BY <1>1 DEF RecordInv, Shape, Single, Tip
<1>4. /\ commits[Len(commits)].tree.code = run.state.tree.code
      /\ Len(commits) \in Commits
  BY <1>1 DEF RecordInv, IntentInv, TipTree, Tip, GitTypes
<1>5. RecordInv(q, commits)
  BY <1>1, <1>2, <1>3, <1>4, RecordCompleted DEF Tip
<1>6. q.stage = "committed"
  BY <1>2 DEF Completed, Runs
<1> HIDE DEF q
<1>7. FreshAt(q, "idle") /\ ProgressAt(q, "idle") /\ "idle" \in Positions
  BY <1>6 DEF FreshAt, ProgressAt, Positions
<1>8. Save(q, run, "idle") /\ UNCHANGED git /\ published' = published
  BY DEF q
<1> QED
  BY <1>1, <1>5, <1>7, <1>8, SaveStep DEF GitTypes

\* The durable intent, and what a restart makes of a pending one.
LEMMA IntentSteps ==
  ASSUME CommitInv, FinalizeReconciled \/ RecordIntent \/ Reconcile
  PROVE  CommitInv'
<1>0. /\ GitTypes /\ Agreement /\ Relied /\ run \in Runs
      /\ RecordInv(run, commits) /\ RecordInv(saved, commits)
      /\ FreshAt(run, pc) /\ ProgressAt(run, pc)
  BY DEF CommitInv, WorkInv, RecordInv, Shape
<1>1. CASE FinalizeReconciled
  <2>1. PICK i \in run.intent :
          Tip = i.parent + 1 /\ TipTree = i.tree /\ commits[Tip].by = run.assignment
    BY <1>0, <1>1 DEF FinalizeReconciled, ProgressAt
  <2> QED
    BY <1>1, <2>1, CompleteStep DEF FinalizeReconciled
<1>2. CASE RecordIntent
  <2>1. PICK p \in Preparations :
          /\ Committing(p) /\ run.intent = {}
          /\ Save([run EXCEPT !.intent = {p}], run, "staging")
          /\ UNCHANGED <<git, published>>
    BY <1>2 DEF RecordIntent
  <2> DEFINE q == [run EXCEPT !.intent = {p}]
  <2>2. /\ run.stage = "accepted" /\ p \in Intents /\ p.parent = Tip
        /\ run.state.head = Tip /\ run.state.tree.code = worktree.code
        /\ p.tree.code = run.state.tree.code
    BY <2>1, PreparedIsAccepted
  <2>3. RecordInv(q, commits)
    BY <1>0, <2>1, <2>2, RecordIntended
  <2>4. q.stage = run.stage /\ q.state = run.state /\ q.intent = {p}
    BY <1>0 DEF Runs
  <2>5. Save(q, run, "staging") /\ UNCHANGED git /\ published' = published
    BY <2>1
  <2> HIDE DEF q
  <2>6. FreshAt(q, "staging") /\ ProgressAt(q, "staging") /\ "staging" \in Positions
    BY <2>2, <2>4 DEF FreshAt, ProgressAt, Positions
  <2> QED
    BY <1>0, <2>3, <2>5, <2>6, SaveStep DEF GitTypes
<1>3. CASE Reconcile
  <2>1. PICK i \in run.intent :
          /\ Committing(i) /\ Reusable(i) = {}
          /\ IF OwnChild(i) /\ ~ContentChanged(i)
             THEN Save(Completed(run, Tip), run, "idle")
             ELSE IF Tip = i.parent /\ worktree = i.tree
             THEN pc' = "staging" /\ UNCHANGED <<run, saved>>
             ELSE Pause
          /\ UNCHANGED <<git, published>>
    BY <1>3 DEF Reconcile
  <2>2. CASE OwnChild(i) /\ ~ContentChanged(i)
    BY <2>1, <2>2, CompleteStep DEF OwnChild, ContentChanged
  <2>3. CASE Tip = i.parent /\ pc' = "staging" /\ UNCHANGED <<run, saved>>
    <3>1. /\ run' = run /\ saved' = saved /\ commits' = commits
          /\ worktree' = worktree /\ index' = index /\ published' = published
      BY <2>1, <2>3 DEF git
    <3>2. /\ pc = "idle" /\ run.stage = "accepted"
          /\ run.state.head = Tip /\ run.state.tree.code = worktree.code
      BY <2>1, PreparedIsAccepted
    <3>3. GitTypes'
      BY <1>0, <2>3, <3>1 DEF GitTypes, Tip, Positions
    <3>4. FreshAt(run, pc)' /\ ProgressAt(run, pc)'
      BY <2>3, <3>1, <3>2 DEF FreshAt, ProgressAt, Tip
    <3>5. Agreement' /\ Relied'
      BY <1>0, <3>1, <3>2 DEF Agreement, Relied
    <3> QED
      BY <1>0, <3>1, <3>3, <3>4, <3>5 DEF CommitInv, WorkInv
  <2>4. CASE Pause
    BY <1>0, <2>1, <2>4, PauseStep DEF GitTypes
  <2> QED
    BY <2>1, <2>2, <2>3, <2>4
<1> QED
  BY <1>1, <1>2, <1>3

\* git add, git commit, and what is seen of the commit.
LEMMA GitSteps ==
  ASSUME CommitInv,
         \/ StageAll \/ CommitRefused \/ CreateCommit \/ CommitUnobserved
         \/ VerifyMatch \/ VerifyMismatch \/ PublicationRefused
  PROVE  CommitInv'
<1>0. /\ GitTypes /\ Agreement /\ Relied /\ run \in Runs
      /\ RecordInv(run, commits) /\ RecordInv(saved, commits)
      /\ FreshAt(run, pc) /\ ProgressAt(run, pc)
  BY DEF CommitInv, WorkInv, RecordInv, Shape
<1>1. CASE StageAll
  <2> USE <1>1 DEF StageAll
  <2>1. /\ commits' = commits /\ worktree' = worktree /\ published' = published
        /\ run' = run /\ saved' = saved /\ index' = worktree
        /\ pc = "staging" /\ pc' = "committing"
    OBVIOUS
  <2>2. GitTypes'
    BY <1>0, <2>1 DEF GitTypes, Tip, Positions
  <2>3. FreshAt(run, pc)' /\ ProgressAt(run, pc)'
    BY <1>0, <2>1 DEF FreshAt, ProgressAt, Tip
  <2>4. Agreement' /\ Relied'
    BY <1>0, <2>1 DEF Agreement, Relied
  <2> QED
    BY <1>0, <2>1, <2>2, <2>3, <2>4 DEF CommitInv, WorkInv
<1>2. CASE CommitRefused \/ CommitUnobserved \/ VerifyMismatch \/ PublicationRefused
  <2>1. Pause /\ UNCHANGED git /\ published' = published
    BY <1>2 DEF CommitRefused, CommitUnobserved, VerifyMismatch, PublicationRefused
  <2> QED
    BY <1>0, <2>1, PauseStep DEF GitTypes
<1>3. CASE CreateCommit
  <2>1. PICK h \in HookResults, intact \in BOOLEAN :
          /\ commits' = Append(commits, [tree |-> h.tree, by |-> run.assignment,
                                         intact |-> intact])
          /\ worktree' = h.left /\ index' = h.tree
    BY <1>3 DEF CreateCommit
  <2> DEFINE x == [tree |-> h.tree, by |-> run.assignment, intact |-> intact]
  <2>2. /\ pc = "committing" /\ Tip < MaxCommits /\ pc' = "created"
        /\ published' = published /\ run' = run /\ saved' = saved /\ run = saved
    BY <1>0, <1>3 DEF CreateCommit, Agreement
  <2>3. h.tree \in Trees /\ h.left \in Trees
    BY <1>0 DEF HookResults, GitTypes, Trees
  <2>4. x \in CommitRecords /\ x.by = run.assignment
    BY <1>0, <2>3, RunFields DEF CommitRecords
  <2> HIDE DEF x
  <2>5. PICK i \in run.intent : i.parent = Tip
    BY <1>0, <2>2 DEF ProgressAt
  <2>6. Settles(run, Len(commits) + 1, x.by)
    BY <2>4, <2>5 DEF Settles, Tip
  <2>7. RecordInv(run, commits')
    BY <1>0, <2>1, <2>4, <2>6, RecordOfGrownBranch DEF x, GitTypes
  <2>8. commits' \in Seq(CommitRecords) /\ Len(commits') = Tip + 1
    BY <1>0, <2>1, <2>4, AppendProperties DEF x, GitTypes, Tip
  <2>9. GitTypes'
    BY <1>0, <2>1, <2>2, <2>3, <2>8, CommitAssumption
    DEF GitTypes, Tip, Commits, Positions
  <2>10. FreshAt(run, pc)' /\ ProgressAt(run, pc)'
    BY <2>2 DEF FreshAt, ProgressAt
  <2>11. Agreement' /\ Relied'
    BY <1>0, <2>2 DEF Agreement, Relied
  <2> QED
    BY <2>2, <2>7, <2>9, <2>10, <2>11 DEF CommitInv, WorkInv
<1>4. CASE VerifyMatch
  <2>1. PICK i \in run.intent :
          /\ OwnChild(i) /\ ~ContentChanged(i)
          /\ Save(Completed(run, Tip), run, "idle")
          /\ UNCHANGED <<git, published>>
    BY <1>4 DEF VerifyMatch
  <2> QED
    BY <2>1, CompleteStep DEF OwnChild, ContentChanged
<1> QED
  BY <1>1, <1>2, <1>3, <1>4

\* The reopening after a hook changed the content.
LEMMA ReopenStep ==
  ASSUME CommitInv, ReopenChanged
  PROVE  CommitInv'
<1>0. GitTypes /\ run \in Runs /\ RecordInv(run, commits)
  BY DEF CommitInv, WorkInv, RecordInv, Shape
<1> DEFINE kept(i) == [assignment |-> run.assignment, commit |-> Tip,
                       parent |-> i.parent, tree |-> TipTree, state |-> Capture]
           q(i) == Reopened([run EXCEPT !.reconciled = @ \cup {kept(i)}, !.state = Capture])
<1>1. PICK i \in run.intent :
        /\ OwnChild(i) /\ published' = {Capture}
        /\ Save(q(i), q(i), "failed") /\ UNCHANGED git
  BY DEF ReopenChanged
<1>2. /\ Tip = i.parent + 1 /\ commits[Tip].by = run.assignment /\ Tip \in Commits
      /\ Capture \in Snapshots /\ Capture.head = Tip /\ TipTree \in Trees
  BY <1>0, <1>1, CaptureType DEF OwnChild, GitTypes
<1>3. RecordInv(q(i), commits)
  BY <1>0, <1>2, RecordReopened DEF Tip, TipTree
<1>4. q(i).intent = {} /\ q(i).done = run.done
  BY <1>0 DEF Reopened, Runs
<1> HIDE DEF q
<1>5. FreshAt(q(i), "failed") /\ ProgressAt(q(i), "failed") /\ "failed" \in Positions
  BY DEF FreshAt, ProgressAt, Positions
<1> QED
  BY <1>1, <1>2, <1>3, <1>4, <1>5, SaveStep

\* Pauses, crashes and what the user does to the branch.
LEMMA OutsideSteps ==
  ASSUME CommitInv,
         PauseRun \/ Crash \/ Recover \/ UserEdits \/ UserStages \/ UserCommits
  PROVE  CommitInv'
<1>0. /\ GitTypes /\ Relied
      /\ RecordInv(run, commits) /\ RecordInv(saved, commits)
  BY DEF CommitInv, WorkInv
<1>1. CASE PauseRun
  BY <1>0, <1>1, PauseStep DEF PauseRun, GitTypes
<1>2. CASE Crash \/ Recover
  <2>1. /\ commits' = commits /\ worktree' = worktree /\ index' = index
        /\ published' = published /\ saved' = saved /\ run' \in {run, saved}
        /\ pc' \in {"down", "paused"}
    BY <1>2 DEF Crash, Recover, git
  <2>2. RecordInv(run', commits)
    BY <1>0, <2>1
  <2>3. GitTypes'
    BY <1>0, <2>1 DEF GitTypes, Tip, Positions
  <2>4. FreshAt(run, pc)' /\ ProgressAt(run, pc)' /\ Agreement' /\ Relied'
    BY <1>0, <2>1 DEF FreshAt, ProgressAt, Agreement, Relied
  <2> QED
    BY <1>0, <2>1, <2>2, <2>3, <2>4 DEF CommitInv, WorkInv
<1>3. CASE UserEdits \/ UserStages
  <2>1. /\ commits' = commits /\ published' = published /\ run' = run /\ saved' = saved
        /\ pc' = pc /\ pc \in {"paused", "down"}
    BY <1>3 DEF UserEdits, UserStages, Unattended
  <2>2. worktree' \in Trees /\ index' \in Trees
    BY <1>0, <1>3 DEF UserEdits, UserStages, GitTypes, Trees
  <2>3. GitTypes'
    BY <1>0, <2>1, <2>2 DEF GitTypes, Tip
  <2>4. FreshAt(run, pc)' /\ ProgressAt(run, pc)' /\ Agreement' /\ Relied'
    BY <1>0, <2>1 DEF FreshAt, ProgressAt, Agreement, Relied
  <2> QED
    BY <1>0, <2>1, <2>3, <2>4 DEF CommitInv, WorkInv
<1>4. CASE UserCommits
  <2> DEFINE x == [tree |-> worktree, by |-> 0, intact |-> FALSE]
  <2>1. /\ commits' = Append(commits, x) /\ Tip < MaxCommits /\ index' = worktree
        /\ worktree' = worktree /\ published' = published /\ run' = run /\ saved' = saved
        /\ pc' = pc /\ pc \in {"paused", "down"}
    BY <1>4 DEF UserCommits, Unattended
  <2>2. x \in CommitRecords /\ x.by = 0
    BY <1>0, CommitAssumption DEF CommitRecords, GitTypes
  <2> HIDE DEF x
  <2>3. RecordInv(run, commits') /\ RecordInv(saved, commits')
    BY <1>0, <2>1, <2>2, RecordOfGrownBranch DEF GitTypes
  <2>4. commits' \in Seq(CommitRecords) /\ Len(commits') = Tip + 1
    BY <1>0, <2>1, <2>2, AppendProperties DEF GitTypes, Tip
  <2>5. GitTypes'
    BY <1>0, <2>1, <2>4, CommitAssumption DEF GitTypes, Tip, Commits
  <2>6. FreshAt(run, pc)' /\ ProgressAt(run, pc)' /\ Agreement' /\ Relied'
    BY <1>0, <2>1 DEF FreshAt, ProgressAt, Agreement, Relied
  <2> QED
    BY <2>1, <2>3, <2>5, <2>6 DEF CommitInv, WorkInv
<1> QED
  BY <1>1, <1>2, <1>3, <1>4

\* A working copy that a /resume explains has the HEAD and the code of the
\* current state.
LEMMA ExplainedIsFresh ==
  ASSUME GitTypes, RecordInv(run, commits), Explained
  PROVE  Tip = run.state.head /\ worktree.code = run.state.tree.code
<1>1. /\ Capture.head = Tip /\ Capture.tree = worktree
      /\ worktree \in Trees /\ run \in Runs
      /\ run.state \in Snapshots /\ run.reflections \subseteq Snapshots
  BY CaptureType, RunFields DEF GitTypes, RecordInv, Shape
<1>2. \A a, b \in Snapshots : RulesOnly(a, b) => a.tree.code = b.tree.code
  BY DEF RulesOnly, Snapshots, Trees
<1>3. \A s, t \in Trees : MarksOnly(s, t) => s.code = t.code
  BY DEF MarksOnly, Trees
<1>4. Capture \in Snapshots /\ \A a \in Snapshots : a.tree \in Trees
  BY CaptureType DEF Snapshots
<1>5. CASE Capture = run.state
  BY <1>1, <1>5
<1>6. CASE PendingWorkspace
  <2> DEFINE i == [parent |-> Tip, tree |-> worktree]
  <2>1. i \in run.intent /\ i.tree = worktree /\ Tip = run.state.head
    BY <1>6 DEF PendingWorkspace
  <2> HIDE DEF i
  <2> QED
    BY <2>1 DEF RecordInv, IntentInv
<1>7. CASE Reflections # {}
  <2>1. PICK r \in run.reflections :
          /\ Tip = run.state.head
          /\ MarksOnly(run.state.tree, r.tree)
          /\ r = Capture \/ RulesOnly(r, Capture)
    BY <1>7 DEF Reflections
  <2>2. run.state.tree.code = r.tree.code
    BY <1>1, <1>3, <1>4, <2>1
  <2>3. r.tree.code = Capture.tree.code
    BY <1>1, <1>2, <1>4, <2>1
  <2> QED
    BY <1>1, <2>1, <2>2, <2>3
<1>8. CASE RulesOnly(run.state, Capture)
  <2>1. run.state.head = Capture.head
    BY <1>8 DEF RulesOnly
  <2>2. run.state.tree.code = Capture.tree.code
    BY <1>1, <1>2, <1>4, <1>8
  <2> QED
    BY <1>1, <2>1, <2>2
<1> QED
  BY <1>5, <1>6, <1>7, <1>8 DEF Explained

\* /resume goes on with an explained working copy or observes its new state.
LEMMA ResumeStep ==
  ASSUME CommitInv, Resume
  PROVE  CommitInv'
<1>0. /\ GitTypes /\ Relied /\ run \in Runs
      /\ RecordInv(run, commits) /\ RecordInv(saved, commits)
  BY DEF CommitInv, WorkInv, RecordInv, Shape
<1> DEFINE q == IF Explained THEN Refreshed(run) ELSE Observed(run, Capture)
<1>1. /\ pc = "paused"
      /\ Explained \/ ControlUnmoved
      /\ \/ run' = q /\ saved' = q /\ pc' = "idle"
         \/ UNCHANGED <<run, saved, pc>>
         \/ run' = q /\ saved' = q /\ pc' = "stuck"
      /\ commits' = commits /\ worktree' = worktree /\ index' = index
      /\ published' = published
  BY DEF Resume, git
<1>2. RecordInv(q, commits) /\ FreshAt(q, "idle")
  <2>1. CASE Explained
    <3>1. Tip = run.state.head /\ worktree.code = run.state.tree.code
      BY <1>0, <2>1, ExplainedIsFresh
    <3>2. CASE q = run
      BY <1>0, <3>1, <3>2 DEF FreshAt
    <3>3. CASE q = [run EXCEPT
                     !.intent = {[parent |-> i.parent, tree |-> worktree] : i \in @}]
      <4>1. RecordInv(q, commits)
        BY <1>0, <3>1, <3>3, RecordRetreed DEF GitTypes
      <4>2. q.state = run.state
        BY <1>0, <3>3 DEF Runs
      <4> QED
        BY <3>1, <4>1, <4>2 DEF FreshAt
    <3> QED
      BY <2>1, <3>2, <3>3 DEF Refreshed
  <2>2. CASE ~Explained
    <3>1. q = Observed(run, Capture) /\ Tip = run.state.head
      BY <1>1, <2>2 DEF ControlUnmoved
    <3>2. RecordInv(q, commits)
      BY <1>0, <3>1, CaptureType, RecordObserved DEF Tip
    <3>3. q.state = Capture
      BY <1>0, <3>1, CaptureType, ObservedFields
    <3> HIDE DEF q
    <3> QED
      BY <1>0, <3>2, <3>3, CaptureType DEF FreshAt
  <2> QED
    BY <2>1, <2>2
<1> HIDE DEF q
<1>3. GitTypes'
  BY <1>0, <1>1 DEF GitTypes, Tip, Positions
<1>4. FreshAt(run, pc)' /\ ProgressAt(run, pc)'
  BY <1>1, <1>2 DEF FreshAt, ProgressAt, Tip
<1>5. Agreement' /\ Relied'
  BY <1>0, <1>1 DEF Agreement, Relied
<1>6. RecordInv(run', commits') /\ RecordInv(saved', commits')
  BY <1>0, <1>1, <1>2
<1> QED
  BY <1>3, <1>4, <1>5, <1>6 DEF CommitInv, WorkInv

\* The extracted run has committed nothing.
LEMMA CommitInvInitially ==
  ASSUME Init
  PROVE  CommitInv
<1> USE DEF Init
<1>1. /\ 0 \in Codes /\ 0 \in 0 .. MaxAssignments /\ 1 \in Commits
  BY CommitAssumption DEF Codes, Commits
<1>2. Baseline \in Trees /\ Baseline.code = 0
  BY <1>1 DEF Baseline, Trees
<1>3. Before \in Snapshots
  BY <1>1, <1>2 DEF Before, Snapshots
<1> DEFINE x == [tree |-> Baseline, by |-> 0, intact |-> TRUE]
<1>4. x \in CommitRecords /\ x.by = 0
  BY <1>1, <1>2 DEF CommitRecords
<1> HIDE DEF x
<1>5. commits = <<x>>
  BY DEF x
<1>6. commits \in Seq(CommitRecords) /\ Len(commits) = 1 /\ commits[1] = x
  <2> DEFINE none == << >>
  <2>1. none \in Seq(CommitRecords) /\ Len(none) = 0
    BY EmptySeq
  <2>2. commits = Append(none, x)
    BY <1>5
  <2> HIDE DEF none, Init
  <2> QED
    BY <1>4, <2>1, <2>2, AppendProperties
<1>7. GitTypes
  BY <1>1, <1>2, <1>6 DEF GitTypes, Tip, Positions
<1>8. run \in Runs
  BY <1>1, <1>3 DEF Runs
<1>9. /\ run.assignment = 0 /\ run.stage = "committed" /\ run.accepted = {}
      /\ run.intent = {} /\ run.reflection = {} /\ run.reconciled = {} /\ run.done = {}
  OBVIOUS
<1>10. RecordInv(run, commits)
  <2>1. Shape(run)
    BY <1>8, <1>9 DEF Shape, Single
  <2>2. IntentInv(run) /\ ReflectionInv(run) /\ RetainedInv(run, commits)
    BY <1>9 DEF IntentInv, ReflectionInv, RetainedInv
  <2>3. DoneInv(run, commits) /\ AccountInv(run, commits)
    BY <1>4, <1>6, <1>9 DEF DoneInv, AccountInv
  <2> QED
    BY <2>1, <2>2, <2>3 DEF RecordInv
<1>11. saved = run /\ pc = "idle"
  OBVIOUS
<1>12. FreshAt(run, pc) /\ ProgressAt(run, pc) /\ Agreement /\ Relied
  BY <1>9, <1>11 DEF FreshAt, ProgressAt, Agreement, Relied
<1> QED
  BY <1>7, <1>10, <1>11, <1>12 DEF CommitInv, WorkInv

\* Every step keeps the invariant.
LEMMA CommitInvKept ==
  ASSUME CommitInv, [Next]_vars
  PROVE  CommitInv'
<1>1. CASE UNCHANGED vars
  BY <1>1 DEF vars, git, CommitInv, WorkInv, GitTypes, Agreement, Relied,
              FreshAt, ProgressAt, Tip, TipTree
<1>2. CASE StartAssignment \/ Implement \/ Review
  BY <1>2, PrepareSteps
<1>3. CASE AcceptAssignment \/ ContinueReflection \/ ReflectTasks \/ RecordReflection
  BY <1>3, AcceptanceSteps
<1>4. CASE AdoptReconciled
  BY <1>4, AdoptStep
<1>5. CASE FinalizeReconciled \/ RecordIntent \/ Reconcile
  BY <1>5, IntentSteps
<1>6. CASE \/ StageAll \/ CommitRefused \/ CreateCommit \/ CommitUnobserved
           \/ VerifyMatch \/ VerifyMismatch \/ PublicationRefused
  BY <1>6, GitSteps
<1>7. CASE ReopenChanged
  BY <1>7, ReopenStep
<1>8. CASE PauseRun \/ Crash \/ Recover \/ UserEdits \/ UserStages \/ UserCommits
  BY <1>8, OutsideSteps
<1>9. CASE Resume
  BY <1>9, ResumeStep
<1>10. CASE ResumeRefused
  BY <1>1, <1>10 DEF ResumeRefused
<1> QED
  BY <1>1, <1>2, <1>3, <1>4, <1>5, <1>6, <1>7, <1>8, <1>9, <1>10 DEF Next

\* The invariant of the protocol: both records tell the truth about the
\* branch, and memory agrees with the journal while no step failed.
THEOREM CommitInvariant == Spec => []CommitInv
<1>1. Init => CommitInv
  BY CommitInvInitially
<1>2. CommitInv /\ [Next]_vars => CommitInv'
  BY CommitInvKept
<1> QED
  BY <1>1, <1>2, PTL DEF Spec

(***************************************************************************)
(* The properties.                                                         *)
(***************************************************************************)
LEMMA SingleIsSmall ==
  ASSUME NEW S, Single(S)
  PROVE  Cardinality(S) <= 1
<1>1. CASE S = {}
  BY <1>1, FS_EmptySet
<1>2. CASE S # {}
  <2>1. PICK x \in S : TRUE
    BY <1>2
  <2>2. S = {x}
    BY <2>1 DEF Single
  <2> QED
    BY <2>2, FS_Singleton
<1> QED
  BY <1>1, <1>2

\* The record is well formed in memory and in the journal, an intent belongs
\* to an acceptance, and the acceptance is of the current state
\* (AcceptedAssignment and CodeState in state.go).
THEOREM CommitTypeCorrect == Spec => []TypeOK
<1>1. ASSUME NEW r, RecordInv(r, commits)
      PROVE  RunOK(r)
  BY <1>1, SingleIsSmall DEF RecordInv, Shape, RunOK
<1>2. CommitInv => TypeOK
  <2> SUFFICES ASSUME CommitInv PROVE TypeOK
    OBVIOUS
  <2>1. GitTypes
    BY DEF CommitInv, WorkInv
  <2>2. RunOK(run) /\ RunOK(saved)
    BY <1>1 DEF CommitInv
  <2>3. ASSUME NEW k \in 1 .. Tip
        PROVE  commits[k] \in CommitRecords
    BY <2>1, ElementOfSeq DEF GitTypes, Tip
  <2> QED
    BY <2>1, <2>2, <2>3 DEF GitTypes, TypeOK, CommitRecords
<1> QED
  BY <1>2, CommitInvariant, PTL

\* An assignment is complete in the journal only with a commit of its own that
\* holds the code its acceptance was given for (Run.CommitAssignment after
\* every way to a commit: a verified one, one matched after a restart, an
\* adopted one).
THEOREM CompletionHasItsCommit == Spec => []CompletedIsCommitted
<1>1. CommitInv => CompletedIsCommitted
  BY DEF CommitInv, RecordInv, DoneInv, CompletedIsCommitted, Tip
<1> QED
  BY <1>1, CommitInvariant, PTL

\* No commit of the controller is forgotten, whatever failed or was killed
\* between git commit and the record of it (ReconcilePendingCommit,
\* reconcileChangedCommit).
THEOREM CommitsAreAccountedFor == Spec => []CommitsAccountedFor
<1>1. CommitInv => CommitsAccountedFor
  BY DEF CommitInv, RecordInv, AccountInv, Settles, CommitsAccountedFor, Tip
<1> QED
  BY <1>1, CommitInvariant, PTL

\* A restart finds every intent and every completion that the controller
\* relies on (the checkpoints around Record in commit.go).
THEOREM NothingUnrecordedCounts == Spec => []OnlyRecordedCounts
<1>1. CommitInv => OnlyRecordedCounts
  BY DEF CommitInv, WorkInv, Relied, OnlyRecordedCounts
<1> QED
  BY <1>1, CommitInvariant, PTL

\* The controller commits only reviewed code, on the parent of its recorded
\* intent (CommitAcceptedAssignment).
THEOREM OnlyAcceptedCodeIsCommitted == Spec => CommitsAcceptedCode
<1>1. ASSUME CommitInv, [Next]_vars, pc = "committing"
      PROVE  \E s \in saved.accepted, i \in saved.intent :
               i.parent = Tip /\ index.code = s.tree.code
  <2>1. /\ run = saved /\ run.stage = "accepted" /\ run.accepted = {run.state}
        /\ index.code = worktree.code /\ run.state.tree.code = worktree.code
        /\ \E i \in run.intent : i.parent = Tip
    BY <1>1 DEF CommitInv, WorkInv, Agreement, FreshAt, ProgressAt, RecordInv, Shape
  <2> QED
    BY <2>1
<1>2. CommitInv /\ [Next]_vars =>
        [pc = "committing" /\ Tip' > Tip =>
           \E s \in saved.accepted, i \in saved.intent :
             i.parent = Tip /\ index.code = s.tree.code]_vars
  BY <1>1
<1> QED
  BY <1>2, CommitInvariant, PTL DEF Spec, CommitsAcceptedCode
=============================================================================
