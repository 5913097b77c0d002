--------------------------- MODULE AgentCallProofs ---------------------------
(***************************************************************************)
(* The safety of AgentCall for every budget of attempts and every set of   *)
(* sessions.  The invariant CallInv has three parts: the budget and the    *)
(* agreement of memory and journal (RecordInv), the one session of the     *)
(* role (SessionInv), and what the position of the controller says of the  *)
(* attempt, its edits and its artifacts (AnswerInv).                       *)
(***************************************************************************)
EXTENDS AgentCall, TLAPS, SequenceTheorems

Types ==
  /\ run \in Runs /\ saved \in Runs
  /\ workspace \in 0 .. MaxAttempts /\ receipt \in 0 .. MaxAttempts
  /\ bound \in 0 .. MaxAttempts /\ violations \in 0 .. MaxAttempts
  /\ asked \in 0 .. MaxAttempts /\ strayed \in 0 .. MaxAttempts
  /\ call \in 1 .. MaxAttempts + 1
  /\ provider \in Results \cup {"none", "running", "canceled", "expired"}
  /\ edits \in Edits /\ pc \in Places

Flags == pending \in BOOLEAN /\ canceled \in BOOLEAN /\ blocked \in BOOLEAN

\* The attempts are within the window that the last reset of the limit opened,
\* and the limit pauses the run only when the window is used up.
Window(r) ==
  /\ r.start <= Len(r.attempts)
  /\ Len(r.attempts) <= r.start + TechnicalAttempts
  /\ r.start + TechnicalAttempts <= MaxAttempts
  /\ r.limit => Len(r.attempts) = r.start + TechnicalAttempts

\* Memory and journal differ in the pause of a guard at most.
RecordInv ==
  /\ Window(run) /\ Window(saved)
  /\ run.attempts = saved.attempts /\ run.start = saved.start /\ run.answer = saved.answer

\* The role has one session, except while a retry replaces it.
SessionInv ==
  /\ slot \in Handles \cup {0} /\ held \in Handles \cup {0}
  /\ owned \subseteq Handles /\ open \subseteq Handles
  /\ pc # "discard" => held \in {0, slot} /\ open \subseteq {slot}
  /\ pc = "discard" => open \subseteq {slot, held}
  /\ pc \notin {"discard", "failed", "off", "down", "dispatch"} => held = slot

Reserved == {"before", "turn", "interrupt", "after", "outcome", "publishWorkspace", "publishReceipt"}
Unpublished == {"loop", "before", "turn", "interrupt", "after", "recreate", "discard",
                "release", "publishWorkspace"}
Endings == {"failed", "interrupted", "rejected"}
Retry == {"failed", "release", "recreate", "loop"}

\* The attempt has not edited what it may not.
Kept ==
  \/ pc \in {"before", "publishWorkspace", "publishReceipt"}
  \/ pc \in {"turn", "interrupt", "after"} /\ edits = "within"

AnswerInv ==
  /\ asked <= Current /\ strayed <= Current
  /\ pc \in Reserved => run.attempts # <<>> /\ run.attempts[Current] = "none"
  /\ provider = "running" => pc \in {"turn", "interrupt"} /\ edits = "within"
  /\ Kept => strayed # Current
  /\ call <= Current + 1 /\ (pc \in Reserved => call <= Current)
  /\ pc \in Unpublished => workspace = 0 /\ receipt = 0
  /\ pc = "publishReceipt" => workspace = Current /\ receipt = 0
  /\ pc = "outcome" =>
       \/ next = <<"succeeded", "answered">> /\ receipt = Current
       \/ /\ \E o \in Endings, p \in Retry : next = <<o, p>>
          /\ workspace = 0 /\ receipt = 0
  /\ pc = "answered" => receipt # 0 /\ run.attempts[Current] = "succeeded"
  /\ receipt # 0 =>
       /\ workspace = receipt /\ receipt = Current /\ receipt # strayed
       /\ run.attempts[Current] \in {"none", "succeeded"}
  /\ run.answer # 0 => run.answer = receipt /\ run.attempts[Current] = "succeeded"

\* A block of the guard is left by a recorded /resume only.
BlockInv ==
  blocked => \/ pc \in {"failed", "off", "down"}
             \/ pc = "outcome" /\ next = <<"failed", "failed">>

Safety == Types /\ RecordInv /\ SessionInv /\ AnswerInv /\ BlockInv
CallInv == Flags /\ Safety

(***************************************************************************)
(* The records a step may write.                                           *)
(***************************************************************************)
LEMMA RunFields ==
  ASSUME NEW r \in Runs
  PROVE  /\ r.status \in {"active", "paused"} /\ r.limit \in BOOLEAN
         /\ r.attempts \in Seq(Outcomes) /\ Len(r.attempts) \in Nat
         /\ r.start \in 0 .. MaxAttempts /\ r.answer \in 0 .. MaxAttempts
         /\ r.attempts # <<>> <=> Len(r.attempts) >= 1
<1>1. r.attempts \in Seq(Outcomes)
  BY DEF Runs
<1>2. /\ Len(r.attempts) \in Nat
      /\ r.attempts # <<>> <=> Len(r.attempts) >= 1
  BY <1>1, EmptySeq, LenProperties
<1> QED
  BY <1>1, <1>2 DEF Runs

\* The outcome of the last attempt.
LEMMA OutcomeRecord ==
  ASSUME NEW r \in Runs, r.attempts # <<>>, NEW o \in Outcomes
  PROVE  LET c == [r EXCEPT !.attempts[Len(r.attempts)] = o]
         IN  /\ c \in Runs /\ c.status = r.status /\ c.limit = r.limit
             /\ c.start = r.start /\ c.answer = r.answer
             /\ Len(c.attempts) = Len(r.attempts)
             /\ c.attempts # <<>> /\ c.attempts[Len(c.attempts)] = o
<1> DEFINE n == Len(r.attempts)
           q == [r.attempts EXCEPT ![n] = o]
           c == [r EXCEPT !.attempts = q]
<1>1. r.attempts \in Seq(Outcomes) /\ n \in Nat /\ n >= 1
  BY RunFields
<1>2. q \in Seq(Outcomes) /\ Len(q) = n /\ q[n] = o
  BY <1>1, ExceptSeq
<1>3. q # <<>>
  BY <1>1, <1>2
<1> HIDE DEF q
<1>4. /\ c \in Runs /\ c.status = r.status /\ c.limit = r.limit
      /\ c.start = r.start /\ c.answer = r.answer /\ c.attempts = q
  BY <1>2 DEF Runs
<1> QED
  BY <1>2, <1>3, <1>4 DEF q

\* One more attempt.
LEMMA AttemptRecord ==
  ASSUME NEW r \in Runs
  PROVE  LET c == [r EXCEPT !.attempts = Append(@, "none")]
         IN  /\ c \in Runs /\ c.status = r.status /\ c.limit = r.limit
             /\ c.start = r.start /\ c.answer = r.answer
             /\ Len(c.attempts) = Len(r.attempts) + 1
             /\ c.attempts # <<>> /\ c.attempts[Len(c.attempts)] = "none"
<1> DEFINE q == Append(r.attempts, "none")
           c == [r EXCEPT !.attempts = q]
<1>1. r.attempts \in Seq(Outcomes) /\ Len(r.attempts) \in Nat
  BY RunFields
<1>2. q \in Seq(Outcomes) /\ Len(q) = Len(r.attempts) + 1 /\ q[Len(q)] = "none" /\ q # <<>>
  BY <1>1, AppendProperties DEF Outcomes
<1> HIDE DEF q
<1>3. /\ c \in Runs /\ c.status = r.status /\ c.limit = r.limit
      /\ c.start = r.start /\ c.answer = r.answer /\ c.attempts = q
  BY <1>2 DEF Runs
<1> QED
  BY <1>2, <1>3 DEF q

\* The lifecycle fields, the window of the attempts and the answer.
LEMMA FieldRecords ==
  ASSUME NEW r \in Runs, NEW s \in {"active", "paused"}, NEW l \in BOOLEAN,
         NEW n \in 0 .. MaxAttempts
  PROVE  /\ [r EXCEPT !.status = s, !.limit = l] \in Runs
         /\ [r EXCEPT !.status = s] \in Runs
         /\ [r EXCEPT !.status = s, !.limit = l, !.start = n] \in Runs
         /\ [r EXCEPT !.answer = n] \in Runs
  BY DEF Runs

(***************************************************************************)
(* Steps that leave the Run as it is, one by one.                          *)
(***************************************************************************)
LEMMA SaveDoes ==
  ASSUME NEW c, NEW then, NEW otherwise, Save(c, then, otherwise)
  PROVE  \/ run' = c /\ saved' = c /\ pc' \in {then, otherwise}
         \/ run' = run /\ saved' = saved /\ pc' = otherwise
  BY DEF Save, GoTo, record

LEMMA InitCall == Init => Safety
<1>1. Init => run \in Runs /\ run.attempts = <<>> /\ run.start = 0 /\ run.answer = 0 /\ run.limit = FALSE
  BY AgentCallAssumption, EmptySeq DEF Init, Runs
<1>2. Len(<<>>) = 0
  BY EmptySeq
<1> QED
  BY <1>1, <1>2, AgentCallAssumption DEF Init, Safety, Types, Places, Results, Edits, Current, RecordInv, SessionInv, AnswerInv, BlockInv, Window, Kept, Reserved, Unpublished, Retry, Endings

LEMMA FreshHandle ==
  ASSUME SessionInv, pc # "discard", slot = 0 \/ slot = held
  PROVE  Fresh \in Handles /\ Fresh \notin open /\ Fresh # held
<1>1. \E h \in Handles : h \notin open /\ h # held
  BY AgentCallAssumption DEF SessionInv
<1> QED
  BY <1>1 DEF Fresh

LEMMA BlockDoes ==
  ASSUME Types, Block
  PROVE  /\ run' \in Runs /\ run'.attempts = run.attempts /\ run'.start = run.start
         /\ run'.answer = run.answer /\ run'.limit = FALSE
         /\ next' = <<"failed", "failed">> /\ pc' = "outcome"
<1>1. run' \in Runs
  BY FieldRecords, FALSE \in BOOLEAN DEF Block, Types
<1> QED
  BY <1>1 DEF Block, Types, Runs, GoTo

\* The numbers the invariant speaks of.
LEMMA Numbers ==
  ASSUME Safety
  PROVE  /\ run \in Runs /\ saved \in Runs
         /\ Len(run.attempts) \in Nat /\ Len(saved.attempts) \in Nat
         /\ run.attempts # <<>> => Len(run.attempts) >= 1
         /\ Current \in 0 .. MaxAttempts
<1>1. run \in Runs /\ saved \in Runs
  BY DEF Safety, Types
<1>2. /\ Len(run.attempts) \in Nat /\ Len(saved.attempts) \in Nat
      /\ run.attempts # <<>> => Len(run.attempts) >= 1
  BY <1>1, RunFields
<1>3. /\ run.start \in Nat /\ Len(run.attempts) <= run.start + TechnicalAttempts
      /\ run.start + TechnicalAttempts <= MaxAttempts
  <2>1. run.start \in Nat
    BY <1>1, RunFields, AgentCallAssumption
  <2> QED
    BY <2>1 DEF Safety, RecordInv, Window
<1>4. Len(run.attempts) <= MaxAttempts
  BY <1>2, <1>3, AgentCallAssumption
<1>5. Current \in 0 .. MaxAttempts
  BY <1>2, <1>4, AgentCallAssumption DEF Current
<1> QED
  BY <1>1, <1>2, <1>5

LEMMA DispatchSafe ==
  ASSUME Safety, Dispatch
  PROVE  Safety'
<1>1. /\ run \in Runs /\ saved \in Runs
      /\ Len(run.attempts) \in Nat /\ Len(saved.attempts) \in Nat
      /\ run.attempts # <<>> => Len(run.attempts) >= 1
      /\ Current \in 0 .. MaxAttempts
  BY Numbers
<1> USE <1>1, AgentCallAssumption DEF Safety, Types, RecordInv, SessionInv, AnswerInv, BlockInv, Window, Kept, Reserved, Unpublished, Retry, Endings, Current
<1>9. CallNumber \in 1 .. MaxAttempts + 1 /\ CallNumber <= Current + 1
  BY DEF CallNumber
<1>2. Types'
  BY <1>9, FreshHandle, FieldRecords DEF Dispatch, record, artifacts, sessions, turn, NewSession, GoTo, Places, Results, Edits
<1>3. RecordInv'
  BY DEF Dispatch, record, artifacts, sessions, turn, NewSession, GoTo, Edits
<1>4. SessionInv'
  BY FreshHandle DEF Dispatch, record, artifacts, sessions, turn, NewSession, GoTo, Places
<1>5. AnswerInv'
  BY <1>9 DEF Dispatch, record, artifacts, sessions, turn, NewSession, GoTo, Places
<1>6. BlockInv'
  BY DEF Dispatch, record, artifacts, sessions, turn, NewSession, GoTo, Places
<1> QED
  BY <1>2, <1>3, <1>4, <1>5, <1>6

LEMMA RecreateSafe ==
  ASSUME Safety, Recreate
  PROVE  Safety'
<1>1. /\ run \in Runs /\ saved \in Runs
      /\ Len(run.attempts) \in Nat /\ Len(saved.attempts) \in Nat
      /\ run.attempts # <<>> => Len(run.attempts) >= 1
      /\ Current \in 0 .. MaxAttempts
  BY Numbers
<1> USE <1>1, AgentCallAssumption DEF Safety, Types, RecordInv, SessionInv, AnswerInv, BlockInv, Window, Kept, Reserved, Unpublished, Retry, Endings, Current
<1>2. Types'
  BY FreshHandle, FieldRecords DEF Recreate, record, artifacts, sessions, turn, GoTo, Places, Results, Edits
<1>3. RecordInv'
  BY DEF Recreate, record, artifacts, sessions, turn, GoTo, Edits
<1>4. SessionInv'
  BY FreshHandle DEF Recreate, record, artifacts, sessions, turn, GoTo, Places
<1>5. AnswerInv'
  BY DEF Recreate, record, artifacts, sessions, turn, GoTo, Places
<1>6. BlockInv'
  BY DEF Recreate, record, artifacts, sessions, turn, GoTo, Places
<1> QED
  BY <1>2, <1>3, <1>4, <1>5, <1>6

LEMMA DiscardSafe ==
  ASSUME Safety, Discard
  PROVE  Safety'
<1>1. /\ run \in Runs /\ saved \in Runs
      /\ Len(run.attempts) \in Nat /\ Len(saved.attempts) \in Nat
      /\ run.attempts # <<>> => Len(run.attempts) >= 1
      /\ Current \in 0 .. MaxAttempts
  BY Numbers
<1> USE <1>1, AgentCallAssumption DEF Safety, Types, RecordInv, SessionInv, AnswerInv, BlockInv, Window, Kept, Reserved, Unpublished, Retry, Endings, Current
<1>2. Types'
  BY FieldRecords DEF Discard, record, artifacts, sessions, turn, GoTo, Places, Results, Edits
<1>3. RecordInv'
  BY DEF Discard, record, artifacts, sessions, turn, GoTo, Edits
<1>4. SessionInv'
  BY DEF Discard, record, artifacts, sessions, turn, GoTo, Places
<1>5. AnswerInv'
  BY DEF Discard, record, artifacts, sessions, turn, GoTo, Places
<1>6. BlockInv'
  BY DEF Discard, record, artifacts, sessions, turn, GoTo, Places
<1> QED
  BY <1>2, <1>3, <1>4, <1>5, <1>6

LEMMA ReleaseSafe ==
  ASSUME Safety, Release
  PROVE  Safety'
<1>1. /\ run \in Runs /\ saved \in Runs
      /\ Len(run.attempts) \in Nat /\ Len(saved.attempts) \in Nat
      /\ run.attempts # <<>> => Len(run.attempts) >= 1
      /\ Current \in 0 .. MaxAttempts
  BY Numbers
<1> USE <1>1, AgentCallAssumption DEF Safety, Types, RecordInv, SessionInv, AnswerInv, BlockInv, Window, Kept, Reserved, Unpublished, Retry, Endings, Current
<1>2. Types'
  BY FieldRecords DEF Release, record, artifacts, sessions, turn, GoTo, Places, Results, Edits
<1>3. RecordInv'
  BY DEF Release, record, artifacts, sessions, turn, GoTo, Edits
<1>4. SessionInv'
  BY DEF Release, record, artifacts, sessions, turn, GoTo, Places
<1>5. AnswerInv'
  BY DEF Release, record, artifacts, sessions, turn, GoTo, Places
<1>6. BlockInv'
  BY DEF Release, record, artifacts, sessions, turn, GoTo, Places
<1> QED
  BY <1>2, <1>3, <1>4, <1>5, <1>6

LEMMA ProviderEndsSafe ==
  ASSUME Safety, ProviderEnds
  PROVE  Safety'
<1>1. /\ run \in Runs /\ saved \in Runs
      /\ Len(run.attempts) \in Nat /\ Len(saved.attempts) \in Nat
      /\ run.attempts # <<>> => Len(run.attempts) >= 1
      /\ Current \in 0 .. MaxAttempts
  BY Numbers
<1> USE <1>1, AgentCallAssumption DEF Safety, Types, RecordInv, SessionInv, AnswerInv, BlockInv, Window, Kept, Reserved, Unpublished, Retry, Endings, Current
<1>2. Types'
  BY FieldRecords DEF ProviderEnds, record, artifacts, sessions, turn, Results, Edits, Places, Results, Edits
<1>3. RecordInv'
  BY DEF ProviderEnds, record, artifacts, sessions, turn, Results, Edits, Edits
<1>4. SessionInv'
  BY DEF ProviderEnds, record, artifacts, sessions, turn, Results, Edits, Places
<1>5. AnswerInv'
  BY DEF ProviderEnds, record, artifacts, sessions, turn, Results, Edits, Places
<1>6. BlockInv'
  BY DEF ProviderEnds, record, artifacts, sessions, turn, Results, Edits, Places
<1> QED
  BY <1>2, <1>3, <1>4, <1>5, <1>6

LEMMA TurnReturnsSafe ==
  ASSUME Safety, TurnReturns
  PROVE  Safety'
<1>1. /\ run \in Runs /\ saved \in Runs
      /\ Len(run.attempts) \in Nat /\ Len(saved.attempts) \in Nat
      /\ run.attempts # <<>> => Len(run.attempts) >= 1
      /\ Current \in 0 .. MaxAttempts
  BY Numbers
<1> USE <1>1, AgentCallAssumption DEF Safety, Types, RecordInv, SessionInv, AnswerInv, BlockInv, Window, Kept, Reserved, Unpublished, Retry, Endings, Current
<1>2. Types'
  BY FieldRecords DEF TurnReturns, record, artifacts, sessions, turn, GoTo, Places, Results, Edits
<1>3. RecordInv'
  BY DEF TurnReturns, record, artifacts, sessions, turn, GoTo, Edits
<1>4. SessionInv'
  BY DEF TurnReturns, record, artifacts, sessions, turn, GoTo, Places
<1>5. AnswerInv'
  BY DEF TurnReturns, record, artifacts, sessions, turn, GoTo, Places
<1>6. BlockInv'
  BY DEF TurnReturns, record, artifacts, sessions, turn, GoTo, Places
<1> QED
  BY <1>2, <1>3, <1>4, <1>5, <1>6

LEMMA TurnExpiresSafe ==
  ASSUME Safety, TurnExpires
  PROVE  Safety'
<1>1. /\ run \in Runs /\ saved \in Runs
      /\ Len(run.attempts) \in Nat /\ Len(saved.attempts) \in Nat
      /\ run.attempts # <<>> => Len(run.attempts) >= 1
      /\ Current \in 0 .. MaxAttempts
  BY Numbers
<1> USE <1>1, AgentCallAssumption DEF Safety, Types, RecordInv, SessionInv, AnswerInv, BlockInv, Window, Kept, Reserved, Unpublished, Retry, Endings, Current
<1>2. Types'
  BY FieldRecords DEF TurnExpires, record, artifacts, sessions, turn, GoTo, Places, Results, Edits
<1>3. RecordInv'
  BY DEF TurnExpires, record, artifacts, sessions, turn, GoTo, Edits
<1>4. SessionInv'
  BY DEF TurnExpires, record, artifacts, sessions, turn, GoTo, Places
<1>5. AnswerInv'
  BY DEF TurnExpires, record, artifacts, sessions, turn, GoTo, Places
<1>6. BlockInv'
  BY DEF TurnExpires, record, artifacts, sessions, turn, GoTo, Places
<1> QED
  BY <1>2, <1>3, <1>4, <1>5, <1>6

LEMMA TurnInterruptedSafe ==
  ASSUME Safety, TurnInterrupted
  PROVE  Safety'
<1>1. /\ run \in Runs /\ saved \in Runs
      /\ Len(run.attempts) \in Nat /\ Len(saved.attempts) \in Nat
      /\ run.attempts # <<>> => Len(run.attempts) >= 1
      /\ Current \in 0 .. MaxAttempts
  BY Numbers
<1> USE <1>1, AgentCallAssumption DEF Safety, Types, RecordInv, SessionInv, AnswerInv, BlockInv, Window, Kept, Reserved, Unpublished, Retry, Endings, Current
<1>9. /\ provider' \in {"canceled", "expired"} /\ pc = "interrupt" /\ pc' = "after"
      /\ UNCHANGED <<record, artifacts, sessions, edits, call, next, asked, strayed, blocked>>
  BY Zenon DEF TurnInterrupted, GoTo
<1>2. Types'
  BY <1>9, FieldRecords DEF record, artifacts, sessions, turn, Places, Results, Edits
<1>3. RecordInv'
  BY <1>9 DEF record, artifacts, sessions, turn, Edits
<1>4. SessionInv'
  BY <1>9 DEF record, artifacts, sessions, turn, Places
<1>5. AnswerInv'
  BY <1>9 DEF record, artifacts, sessions, turn, Places
<1>6. BlockInv'
  BY <1>9 DEF record, artifacts, sessions, turn, Places
<1> QED
  BY <1>2, <1>3, <1>4, <1>5, <1>6

LEMMA CancelSafe ==
  ASSUME Safety, Cancel
  PROVE  Safety'
<1>1. /\ run \in Runs /\ saved \in Runs
      /\ Len(run.attempts) \in Nat /\ Len(saved.attempts) \in Nat
      /\ run.attempts # <<>> => Len(run.attempts) >= 1
      /\ Current \in 0 .. MaxAttempts
  BY Numbers
<1> USE <1>1, AgentCallAssumption DEF Safety, Types, RecordInv, SessionInv, AnswerInv, BlockInv, Window, Kept, Reserved, Unpublished, Retry, Endings, Current
<1>2. Types'
  BY FieldRecords DEF Cancel, record, artifacts, sessions, turn, Places, Results, Edits
<1>3. RecordInv'
  BY DEF Cancel, record, artifacts, sessions, turn, Edits
<1>4. SessionInv'
  BY DEF Cancel, record, artifacts, sessions, turn, Places
<1>5. AnswerInv'
  BY DEF Cancel, record, artifacts, sessions, turn, Places
<1>6. BlockInv'
  BY DEF Cancel, record, artifacts, sessions, turn, Places
<1> QED
  BY <1>2, <1>3, <1>4, <1>5, <1>6

LEMMA PublishWorkspaceSafe ==
  ASSUME Safety, PublishWorkspace
  PROVE  Safety'
<1>1. /\ run \in Runs /\ saved \in Runs
      /\ Len(run.attempts) \in Nat /\ Len(saved.attempts) \in Nat
      /\ run.attempts # <<>> => Len(run.attempts) >= 1
      /\ Current \in 0 .. MaxAttempts
  BY Numbers
<1> USE <1>1, AgentCallAssumption DEF Safety, Types, RecordInv, SessionInv, AnswerInv, BlockInv, Window, Kept, Reserved, Unpublished, Retry, Endings, Current
<1>2. Types'
  BY FieldRecords DEF PublishWorkspace, record, artifacts, sessions, turn, GoTo, Places, Results, Edits
<1>3. RecordInv'
  BY DEF PublishWorkspace, record, artifacts, sessions, turn, GoTo, Edits
<1>4. SessionInv'
  BY DEF PublishWorkspace, record, artifacts, sessions, turn, GoTo, Places
<1>5. AnswerInv'
  BY DEF PublishWorkspace, record, artifacts, sessions, turn, GoTo, Places
<1>6. BlockInv'
  BY DEF PublishWorkspace, record, artifacts, sessions, turn, GoTo, Places
<1> QED
  BY <1>2, <1>3, <1>4, <1>5, <1>6

LEMMA PublishReceiptSafe ==
  ASSUME Safety, PublishReceipt
  PROVE  Safety'
<1>1. /\ run \in Runs /\ saved \in Runs
      /\ Len(run.attempts) \in Nat /\ Len(saved.attempts) \in Nat
      /\ run.attempts # <<>> => Len(run.attempts) >= 1
      /\ Current \in 0 .. MaxAttempts
  BY Numbers
<1> USE <1>1, AgentCallAssumption DEF Safety, Types, RecordInv, SessionInv, AnswerInv, BlockInv, Window, Kept, Reserved, Unpublished, Retry, Endings, Current
<1>9. receipt' \in 0 .. MaxAttempts /\ bound' \in 0 .. MaxAttempts
  BY DEF PublishReceipt
<1>2. Types'
  BY <1>9, FieldRecords DEF PublishReceipt, record, artifacts, sessions, turn, Conclude, GoTo, Places, Results, Edits
<1>3. RecordInv'
  BY DEF PublishReceipt, record, artifacts, sessions, turn, Conclude, GoTo, Edits
<1>4. SessionInv'
  BY DEF PublishReceipt, record, artifacts, sessions, turn, Conclude, GoTo, Places
<1>5. AnswerInv'
  BY DEF PublishReceipt, record, artifacts, sessions, turn, Conclude, GoTo, Places
<1>6. BlockInv'
  BY DEF PublishReceipt, record, artifacts, sessions, turn, Conclude, GoTo, Places
<1> QED
  BY <1>2, <1>3, <1>4, <1>5, <1>6

LEMMA StartTurnSafe ==
  ASSUME Safety, StartTurn
  PROVE  Safety'
<1>1. /\ run \in Runs /\ saved \in Runs
      /\ Len(run.attempts) \in Nat /\ Len(saved.attempts) \in Nat
      /\ run.attempts # <<>> => Len(run.attempts) >= 1
      /\ Current \in 0 .. MaxAttempts
  BY Numbers
<1> USE <1>1, AgentCallAssumption DEF Safety, Types, RecordInv, SessionInv, AnswerInv, BlockInv, Window, Kept, Reserved, Unpublished, Retry, Endings, Current
<1>2. /\ pc = "before"
      /\ UNCHANGED <<saved, pending, artifacts, sessions, canceled, strayed>>
  BY DEF StartTurn
<1>3. CASE Block /\ UNCHANGED <<turn, asked>>
  <2>1. /\ run' \in Runs /\ run'.attempts = run.attempts /\ run'.start = run.start
        /\ run'.answer = run.answer /\ run'.limit = FALSE
        /\ next' = <<"failed", "failed">> /\ pc' = "outcome"
    BY <1>3, BlockDoes
  <2>2. QED
    <3>2. Types'
      BY <1>2, <1>3, <2>1 DEF artifacts, sessions, turn, Places, Results, Edits
    <3>3. RecordInv'
      BY <1>2, <1>3, <2>1 DEF artifacts, sessions, turn
    <3>4. SessionInv'
      BY <1>2, <1>3, <2>1 DEF artifacts, sessions, turn
    <3>5. AnswerInv'
      BY <1>2, <1>3, <2>1 DEF artifacts, sessions, turn
    <3>6. BlockInv'
      BY <1>2, <1>3, <2>1 DEF artifacts, sessions, turn
    <3> QED
      BY <3>2, <3>3, <3>4, <3>5, <3>6
<1>4. CASE /\ IF held \in open THEN provider' = "running" /\ asked' = Current
              ELSE provider' = "error" /\ UNCHANGED asked
           /\ edits' = "within" /\ GoTo("turn") /\ UNCHANGED <<call, run, next, blocked>>
  <2>1. provider' \in {"running", "error"} /\ asked' \in {asked, Current} /\ pc' = "turn"
    BY <1>4 DEF GoTo
  <2>2. QED
    <3>2. Types'
      BY <1>2, <1>4, <2>1 DEF artifacts, sessions, Places, Results, Edits
    <3>3. RecordInv'
      BY <1>2, <1>4, <2>1 DEF artifacts, sessions
    <3>4. SessionInv'
      BY <1>2, <1>4, <2>1 DEF artifacts, sessions
    <3>5. AnswerInv'
      BY <1>2, <1>4, <2>1 DEF artifacts, sessions
    <3>6. BlockInv'
      BY <1>2, <1>4, <2>1 DEF artifacts, sessions
    <3> QED
      BY <3>2, <3>3, <3>4, <3>5, <3>6
<1> QED
  BY <1>3, <1>4 DEF StartTurn

LEMMA GuardSafe ==
  ASSUME Safety, Guard
  PROVE  Safety'
<1>1. /\ run \in Runs /\ saved \in Runs
      /\ Len(run.attempts) \in Nat /\ Len(saved.attempts) \in Nat
      /\ run.attempts # <<>> => Len(run.attempts) >= 1
      /\ Current \in 0 .. MaxAttempts
  BY Numbers
<1> USE <1>1, AgentCallAssumption DEF Safety, Types, RecordInv, SessionInv, AnswerInv, BlockInv, Window, Kept, Reserved, Unpublished, Retry, Endings, Current
<1>2. /\ pc = "after" /\ provider' = "none" /\ edits' = "within"
      /\ violations' \in {violations, Current}
      /\ UNCHANGED <<call, saved, workspace, receipt, bound, slot, owned, open, held, asked, strayed>>
  BY DEF Guard, NoTurn, sessions
<1>3. CASE Block
  <2>1. /\ run' \in Runs /\ run'.attempts = run.attempts /\ run'.start = run.start
        /\ run'.answer = run.answer /\ run'.limit = FALSE
        /\ next' = <<"failed", "failed">> /\ pc' = "outcome"
    BY <1>3, BlockDoes
  <2>2. QED
    <3>2. Types'
      BY <1>2, <2>1 DEF Current, Places, Results, Edits
    <3>3. RecordInv'
      BY <1>2, <2>1 DEF Current
    <3>4. SessionInv'
      BY <1>2, <2>1 DEF Current
    <3>5. AnswerInv'
      BY <1>2, <2>1 DEF Current
    <3>6. BlockInv'
      BY <1>2, <2>1 DEF Current
    <3> QED
      BY <3>2, <3>3, <3>4, <3>5, <3>6
<1>4. ASSUME NEW o \in Endings, NEW p \in Retry, Conclude(o, p), UNCHANGED <<run, blocked>>
      PROVE  Safety'
  <2>1. next' = <<o, p>> /\ pc' = "outcome"
    BY <1>4 DEF Conclude, GoTo
  <2>2. QED
    <3>2. Types'
      BY <1>2, <1>4, <2>1 DEF Current, Places, Results, Edits
    <3>3. RecordInv'
      BY <1>2, <1>4, <2>1 DEF Current
    <3>4. SessionInv'
      BY <1>2, <1>4, <2>1 DEF Current
    <3>5. AnswerInv'
      BY <1>2, <1>4, <2>1 DEF Current
    <3>6. BlockInv'
      BY <1>2, <1>4, <2>1 DEF Current
    <3> QED
      BY <3>2, <3>3, <3>4, <3>5, <3>6
<1>5. CASE edits = "within" /\ GoTo("publishWorkspace") /\ UNCHANGED <<run, next, blocked>>
  <2>1. pc' = "publishWorkspace"
    BY <1>5 DEF GoTo
  <2>2. QED
    <3>2. Types'
      BY <1>2, <1>5, <2>1 DEF Current, Places, Results, Edits
    <3>3. RecordInv'
      BY <1>2, <1>5, <2>1 DEF Current
    <3>4. SessionInv'
      BY <1>2, <1>5, <2>1 DEF Current
    <3>5. AnswerInv'
      BY <1>2, <1>5, <2>1 DEF Current
    <3>6. BlockInv'
      BY <1>2, <1>5, <2>1 DEF Current
    <3> QED
      BY <3>2, <3>3, <3>4, <3>5, <3>6
<1>6. Judge => \/ GoTo("publishWorkspace") /\ UNCHANGED next
               \/ \E o \in Endings, p \in Retry : Conclude(o, p)
  BY DEF Judge
<1> QED
  BY <1>3, <1>4, <1>5, <1>6 DEF Guard

(***************************************************************************)
(* Steps that record the Run.                                              *)
(***************************************************************************)
LEMMA RecoverSuccessSafe ==
  ASSUME Safety, RecoverSuccess
  PROVE  Safety'
<1>1. /\ run \in Runs /\ saved \in Runs
      /\ Len(run.attempts) \in Nat /\ Len(saved.attempts) \in Nat
      /\ run.attempts # <<>> <=> Len(run.attempts) >= 1
      /\ Current \in 0 .. MaxAttempts
  BY Numbers
<1> USE <1>1, AgentCallAssumption DEF Safety, Types, RecordInv, SessionInv, AnswerInv, BlockInv, Window, Kept, Reserved, Unpublished, Retry, Endings, Current
<1>2. pc = "invoke" /\ UNCHANGED <<artifacts, sessions, turn, next, asked, strayed, blocked>>
  BY DEF RecoverSuccess
<1>3. CASE UNCHANGED record /\ GoTo("loop") /\ workspace = 0 /\ receipt = 0
  <2>2. Types'
    BY <1>2, <1>3 DEF record, GoTo, artifacts, sessions, turn, Places
  <2>3. RecordInv'
    BY <1>2, <1>3 DEF record, GoTo, artifacts, sessions, turn
  <2>4. SessionInv'
    BY <1>2, <1>3 DEF record, GoTo, artifacts, sessions, turn
  <2>5. AnswerInv'
    BY <1>2, <1>3 DEF record, GoTo, artifacts, sessions, turn
  <2>6. BlockInv'
    BY <1>2, <1>3 DEF record, GoTo, artifacts, sessions, turn
  <2> QED
    BY <2>2, <2>3, <2>4, <2>5, <2>6
<1>4. CASE UNCHANGED record /\ GoTo("failed")
  <2>2. Types'
    BY <1>2, <1>4 DEF record, GoTo, artifacts, sessions, turn, Places
  <2>3. RecordInv'
    BY <1>2, <1>4 DEF record, GoTo, artifacts, sessions, turn
  <2>4. SessionInv'
    BY <1>2, <1>4 DEF record, GoTo, artifacts, sessions, turn
  <2>5. AnswerInv'
    BY <1>2, <1>4 DEF record, GoTo, artifacts, sessions, turn
  <2>6. BlockInv'
    BY <1>2, <1>4 DEF record, GoTo, artifacts, sessions, turn
  <2> QED
    BY <2>2, <2>3, <2>4, <2>5, <2>6
<1>5. CASE UNCHANGED record /\ GoTo("answered") /\ receipt # 0 /\ run.attempts[Current] = "succeeded"
  <2>2. Types'
    BY <1>2, <1>5 DEF record, GoTo, artifacts, sessions, turn, Places
  <2>3. RecordInv'
    BY <1>2, <1>5 DEF record, GoTo, artifacts, sessions, turn
  <2>4. SessionInv'
    BY <1>2, <1>5 DEF record, GoTo, artifacts, sessions, turn
  <2>5. AnswerInv'
    BY <1>2, <1>5 DEF record, GoTo, artifacts, sessions, turn
  <2>6. BlockInv'
    BY <1>2, <1>5 DEF record, GoTo, artifacts, sessions, turn
  <2> QED
    BY <2>2, <2>3, <2>4, <2>5, <2>6
<1>6. CASE Save(Succeeded(run), "answered", "failed") /\ receipt # 0
  <2>1. /\ Succeeded(run) \in Runs /\ Succeeded(run).limit = run.limit
        /\ Succeeded(run).start = run.start /\ Succeeded(run).answer = run.answer
        /\ Len(Succeeded(run).attempts) = Len(run.attempts)
        /\ Succeeded(run).attempts # <<>>
        /\ Succeeded(run).attempts[Len(run.attempts)] = "succeeded"
    <3>1. run.attempts # <<>> /\ "succeeded" \in Outcomes
      BY <1>6 DEF Outcomes
    <3> QED
      BY SMTT(30), <3>1, OutcomeRecord DEF Succeeded
  <2>2. \/ run' = Succeeded(run) /\ saved' = Succeeded(run) /\ pc' \in {"answered", "failed"}
        \/ run' = run /\ saved' = saved /\ pc' = "failed"
    BY <1>6, SaveDoes
  <2>3. Types'
    BY <1>2, <1>6, <2>1, <2>2 DEF artifacts, sessions, turn, Places
  <2>4. RecordInv'
    BY <1>2, <1>6, <2>1, <2>2 DEF artifacts, sessions, turn
  <2>5. SessionInv'
    BY <1>2, <1>6, <2>1, <2>2 DEF artifacts, sessions, turn
  <2>6. AnswerInv'
    BY <1>2, <1>6, <2>1, <2>2 DEF artifacts, sessions, turn
  <2>7. BlockInv'
    BY <1>2, <1>6, <2>1, <2>2 DEF artifacts, sessions, turn
  <2> QED
    BY <2>3, <2>4, <2>5, <2>6, <2>7
<1> QED
  BY <1>2, <1>3, <1>4, <1>5, <1>6 DEF RecoverSuccess

\* What the limit says of the window of the attempts.
LEMMA LimitOfWindow ==
  ASSUME run \in Runs, Window(run)
  PROVE  /\ Exhausted => Len(run.attempts) = run.start + TechnicalAttempts
         /\ ~Exhausted => Len(run.attempts) < run.start + TechnicalAttempts /\ ~run.limit
<1> DEFINE n == Len(run.attempts)
           s == run.start
<1>1. n \in Nat /\ s \in Nat /\ TechnicalAttempts \in Nat
  BY RunFields, AgentCallAssumption
<1>2. n <= s + TechnicalAttempts /\ (run.limit => n = s + TechnicalAttempts)
  BY DEF Window
<1>3. Exhausted <=> n - s >= TechnicalAttempts
  BY DEF Exhausted, Current
<1> HIDE DEF n, s
<1>4. /\ n - s >= TechnicalAttempts => n = s + TechnicalAttempts
      /\ ~(n - s >= TechnicalAttempts) => n < s + TechnicalAttempts
  BY <1>1, <1>2
<1>5. ~(n - s >= TechnicalAttempts) => n # s + TechnicalAttempts
  BY <1>1
<1> QED
  BY <1>2, <1>3, <1>4, <1>5 DEF n, s

\* A window that is not used up has room for one more attempt.
LEMMA WindowGrows ==
  ASSUME NEW r \in Runs, NEW c \in Runs, Window(r),
         Len(c.attempts) = Len(r.attempts) + 1, c.start = r.start, c.limit = r.limit,
         Len(r.attempts) < r.start + TechnicalAttempts, ~r.limit
  PROVE  Window(c)
<1>1. Len(r.attempts) \in Nat /\ r.start \in Nat /\ TechnicalAttempts \in Nat /\ MaxAttempts \in Nat
  BY RunFields, AgentCallAssumption
<1> QED
  BY <1>1 DEF Window

LEMMA ReserveSafe ==
  ASSUME Safety, Reserve
  PROVE  Safety'
<1>1. /\ run \in Runs /\ saved \in Runs
      /\ Len(run.attempts) \in Nat /\ Len(saved.attempts) \in Nat
      /\ run.attempts # <<>> <=> Len(run.attempts) >= 1
      /\ Current \in 0 .. MaxAttempts
  BY Numbers
<1> USE <1>1, AgentCallAssumption DEF Safety, Types, RecordInv, SessionInv, AnswerInv, BlockInv, Window, Kept, Reserved, Unpublished, Retry, Endings, Current
<1>2. pc = "loop" /\ UNCHANGED <<artifacts, sessions, turn, next, asked, strayed, blocked>>
  BY DEF Reserve
<1>3. CASE UNCHANGED record /\ GoTo("failed")
  <2>2. Types'
    BY <1>2, <1>3 DEF record, GoTo, artifacts, sessions, turn, Places
  <2>3. RecordInv'
    BY <1>2, <1>3 DEF record, GoTo, artifacts, sessions, turn
  <2>4. SessionInv'
    BY <1>2, <1>3 DEF record, GoTo, artifacts, sessions, turn
  <2>5. AnswerInv'
    BY <1>2, <1>3 DEF record, GoTo, artifacts, sessions, turn
  <2>6. BlockInv'
    BY <1>2, <1>3 DEF record, GoTo, artifacts, sessions, turn
  <2> QED
    BY <2>2, <2>3, <2>4, <2>5, <2>6
<1>4. CASE Exhausted /\ Save([run EXCEPT !.status = "paused", !.limit = TRUE], "failed", "failed")
  <2> DEFINE c == [run EXCEPT !.status = "paused", !.limit = TRUE]
  <2>1. /\ c \in Runs /\ c.limit = TRUE
        /\ c.start = run.start /\ c.answer = run.answer /\ c.attempts = run.attempts
    <3>1. c \in Runs
      BY FieldRecords, TRUE \in BOOLEAN
    <3> QED
      BY <3>1 DEF Runs
  <2>2. /\ \/ run' = c /\ saved' = c
           \/ run' = run /\ saved' = saved
        /\ pc' = "failed"
    BY <1>4, SaveDoes
  <2>3. Len(run.attempts) = run.start + TechnicalAttempts
    BY <1>4, LimitOfWindow
  <2> HIDE DEF c
  <2>4. Types'
    BY <1>2, <2>1, <2>2, <2>3 DEF artifacts, sessions, turn, Places
  <2>5. RecordInv'
    BY <1>2, <2>1, <2>2, <2>3 DEF artifacts, sessions, turn
  <2>6. SessionInv'
    BY <1>2, <2>1, <2>2, <2>3 DEF artifacts, sessions, turn
  <2>7. AnswerInv'
    BY <1>2, <2>1, <2>2, <2>3 DEF artifacts, sessions, turn
  <2>8. BlockInv'
    BY <1>2, <2>1, <2>2, <2>3 DEF artifacts, sessions, turn
  <2> QED
    BY <2>4, <2>5, <2>6, <2>7, <2>8
<1>5. CASE ~Exhausted /\ Save([run EXCEPT !.attempts = Append(@, "none")], "before", "failed")
  <2> DEFINE c == [run EXCEPT !.attempts = Append(@, "none")]
  <2>1. /\ c \in Runs /\ c.limit = run.limit
        /\ c.start = run.start /\ c.answer = run.answer
        /\ Len(c.attempts) = Len(run.attempts) + 1
        /\ c.attempts # <<>> /\ c.attempts[Len(c.attempts)] = "none"
    BY AttemptRecord
  <2>2. \/ run' = c /\ saved' = c /\ pc' \in {"before", "failed"}
        \/ run' = run /\ saved' = saved /\ pc' = "failed"
    BY <1>5, SaveDoes
  <2>3. Len(run.attempts) < run.start + TechnicalAttempts /\ ~run.limit
    BY <1>5, LimitOfWindow
  <2>9. Window(c)
    BY <2>1, <2>3, WindowGrows
  <2> HIDE DEF c
  <2>4. Types'
    BY <1>2, <2>1, <2>2, <2>3 DEF artifacts, sessions, turn, Places
  <2>5. RecordInv'
    <3>2. CASE run' = c /\ saved' = c
      BY <2>9, <2>1, <3>2
    <3>3. CASE run' = run /\ saved' = saved
      BY <3>3
    <3> QED
      BY <2>2, <3>2, <3>3
  <2>6. SessionInv'
    BY <1>2, <2>1, <2>2, <2>3 DEF artifacts, sessions, turn
  <2>7. AnswerInv'
    BY SMTT(30), <1>2, <2>1, <2>2, <2>3 DEF artifacts, sessions, turn
  <2>8. BlockInv'
    BY <1>2, <2>1, <2>2, <2>3 DEF artifacts, sessions, turn
  <2> QED
    BY <2>4, <2>5, <2>6, <2>7, <2>8
<1> QED
  BY <1>2, <1>3, <1>4, <1>5 DEF Reserve

LEMMA RecordOutcomeSafe ==
  ASSUME Safety, RecordOutcome
  PROVE  Safety'
<1>1. /\ run \in Runs /\ saved \in Runs
      /\ Len(run.attempts) \in Nat /\ Len(saved.attempts) \in Nat
      /\ run.attempts # <<>> <=> Len(run.attempts) >= 1
      /\ Current \in 0 .. MaxAttempts
  BY Numbers
<1> USE <1>1, AgentCallAssumption DEF Safety, Types, RecordInv, SessionInv, AnswerInv, BlockInv, Window, Kept, Reserved, Unpublished, Retry, Endings, Current
<1>2. pc = "outcome" /\ UNCHANGED <<artifacts, sessions, turn, asked, strayed, blocked>>
  BY DEF RecordOutcome
<1>3. run.attempts # <<>> /\ run.attempts[Current] = "none"
  BY <1>2
<1>4. ASSUME NEW o \in Outcomes, NEW q, next = <<o, q>>
      PROVE  \/ /\ saved' = run' /\ run' \in Runs /\ run'.limit = run.limit
                /\ run'.start = run.start /\ run'.answer = run.answer
                /\ Len(run'.attempts) = Len(run.attempts)
                /\ run'.attempts # <<>> /\ run'.attempts[Len(run.attempts)] = o
                /\ pc' \in {q, "failed"}
             \/ run' = run /\ saved' = saved /\ pc' = "failed"
  <2> DEFINE c == [run EXCEPT !.attempts[Len(run.attempts)] = o]
  <2>1. /\ c \in Runs /\ c.limit = run.limit
        /\ c.start = run.start /\ c.answer = run.answer
        /\ Len(c.attempts) = Len(run.attempts)
        /\ c.attempts # <<>> /\ c.attempts[Len(c.attempts)] = o
    BY SMTT(30), <1>3, <1>4, OutcomeRecord
  <2> HIDE DEF c
  <2>2. Save(c, q, "failed")
    BY <1>4 DEF RecordOutcome, c
  <2> QED
    BY <2>1, <2>2, SaveDoes
<1>5. CASE next = <<"succeeded", "answered">> /\ receipt = Current
  <2>1. \/ /\ saved' = run' /\ run' \in Runs /\ run'.limit = run.limit
           /\ run'.start = run.start /\ run'.answer = run.answer
           /\ Len(run'.attempts) = Len(run.attempts)
           /\ run'.attempts # <<>> /\ run'.attempts[Len(run.attempts)] = "succeeded"
           /\ pc' \in {"answered", "failed"}
        \/ run' = run /\ saved' = saved /\ pc' = "failed"
    BY <1>4, <1>5, "succeeded" \in Outcomes DEF Outcomes
  <2>2. Types'
    BY <1>2, <1>3, <1>5, <2>1 DEF artifacts, sessions, turn, Places
  <2>3. RecordInv'
    BY <1>2, <1>3, <1>5, <2>1 DEF artifacts, sessions, turn
  <2>4. SessionInv'
    BY <1>2, <1>3, <1>5, <2>1 DEF artifacts, sessions, turn
  <2>5. AnswerInv'
    <3>1. CASE run'.attempts[Len(run.attempts)] = "succeeded" /\ pc' \in {"answered", "failed"}
               /\ Len(run'.attempts) = Len(run.attempts) /\ run'.answer = run.answer
      BY SMTT(30), <1>2, <1>3, <1>5, <3>1 DEF artifacts, sessions, turn
    <3>2. CASE run' = run /\ pc' = "failed"
      BY SMTT(30), <1>2, <1>3, <1>5, <3>2 DEF artifacts, sessions, turn
    <3> QED
      BY <2>1, <3>1, <3>2
  <2>6. BlockInv'
    BY <1>2, <1>3, <1>5, <2>1 DEF artifacts, sessions, turn
  <2> QED
    BY <2>2, <2>3, <2>4, <2>5, <2>6
<1>6. ASSUME NEW o \in Endings, NEW q \in Retry, next = <<o, q>>, workspace = 0, receipt = 0
      PROVE  Safety'
  <2>1. \/ /\ saved' = run' /\ run' \in Runs /\ run'.limit = run.limit
           /\ run'.start = run.start /\ run'.answer = run.answer
           /\ Len(run'.attempts) = Len(run.attempts)
           /\ run'.attempts # <<>> /\ run'.attempts[Len(run.attempts)] = o
           /\ pc' \in {q, "failed"}
        \/ run' = run /\ saved' = saved /\ pc' = "failed"
    BY <1>4, <1>6, o \in Outcomes DEF Outcomes
  <2>2. Types'
    BY <1>2, <1>3, <1>6, <2>1 DEF artifacts, sessions, turn, Places
  <2>3. RecordInv'
    BY <1>2, <1>3, <1>6, <2>1 DEF artifacts, sessions, turn
  <2>4. SessionInv'
    BY <1>2, <1>3, <1>6, <2>1 DEF artifacts, sessions, turn
  <2>5. AnswerInv'
    BY <1>2, <1>3, <1>6, <2>1 DEF artifacts, sessions, turn
  <2>6. BlockInv'
    BY <1>2, <1>3, <1>6, <2>1 DEF artifacts, sessions, turn
  <2> QED
    BY <2>2, <2>3, <2>4, <2>5, <2>6
<1> QED
  BY <1>2, <1>5, <1>6

LEMMA RecordAnswerSafe ==
  ASSUME Safety, RecordAnswer
  PROVE  Safety'
<1>1. /\ run \in Runs /\ saved \in Runs
      /\ Len(run.attempts) \in Nat /\ Len(saved.attempts) \in Nat
      /\ run.attempts # <<>> <=> Len(run.attempts) >= 1
      /\ Current \in 0 .. MaxAttempts
  BY Numbers
<1> USE <1>1, AgentCallAssumption DEF Safety, Types, RecordInv, SessionInv, AnswerInv, BlockInv, Window, Kept, Reserved, Unpublished, Retry, Endings, Current
<1>2. /\ pc = "answered" /\ receipt # 0 /\ run.attempts[Current] = "succeeded"
      /\ UNCHANGED <<artifacts, sessions, turn, next, asked, strayed, blocked>>
  BY DEF RecordAnswer
<1> DEFINE c == [run EXCEPT !.answer = receipt]
<1>3. /\ c \in Runs /\ c.limit = run.limit /\ c.start = run.start
      /\ c.answer = receipt /\ c.attempts = run.attempts
  <2>1. c \in Runs
    BY FieldRecords
  <2> QED
    BY <2>1 DEF Runs
<1>4. \/ run' = c /\ saved' = c /\ pc' \in {"done", "failed"}
      \/ run' = run /\ saved' = saved /\ pc' = "failed"
  BY <1>2, SaveDoes DEF RecordAnswer
<1> HIDE DEF c
<1>5. Types'
  BY <1>2, <1>3, <1>4 DEF artifacts, sessions, turn, Places
<1>6. RecordInv'
  BY <1>2, <1>3, <1>4 DEF artifacts, sessions, turn
<1>7. SessionInv'
  BY <1>2, <1>3, <1>4 DEF artifacts, sessions, turn
<1>8. AnswerInv'
  BY <1>2, <1>3, <1>4 DEF artifacts, sessions, turn
<1>9. BlockInv'
  BY <1>2, <1>3, <1>4 DEF artifacts, sessions, turn
<1> QED
  BY <1>5, <1>6, <1>7, <1>8, <1>9

LEMMA RouteErrorSafe ==
  ASSUME Safety, RouteError
  PROVE  Safety'
<1>1. /\ run \in Runs /\ saved \in Runs
      /\ Len(run.attempts) \in Nat /\ Len(saved.attempts) \in Nat
      /\ run.attempts # <<>> <=> Len(run.attempts) >= 1
      /\ Current \in 0 .. MaxAttempts
  BY Numbers
<1> USE <1>1, AgentCallAssumption DEF Safety, Types, RecordInv, SessionInv, AnswerInv, BlockInv, Window, Kept, Reserved, Unpublished, Retry, Endings, Current
<1>2. pc = "failed" /\ UNCHANGED <<artifacts, sessions, turn, next, asked, strayed>>
      /\ (blocked' => blocked)
  BY DEF RouteError
<1> DEFINE c == [run EXCEPT !.status = "paused", !.limit = FALSE]
<1>3. /\ c \in Runs /\ c.limit = FALSE
      /\ c.start = run.start /\ c.answer = run.answer /\ c.attempts = run.attempts
  <2>1. c \in Runs
    BY FieldRecords, FALSE \in BOOLEAN
  <2> QED
    BY <2>1 DEF Runs
<1>4. /\ \/ run' = c /\ saved' = c
         \/ run' = run /\ saved' = saved
      /\ pc' \in {"off"}
  BY SaveDoes DEF RouteError, record, GoTo
<1> HIDE DEF c
<1>5. Types'
  BY <1>2, <1>3, <1>4 DEF artifacts, sessions, turn, Places
<1>6. RecordInv'
  BY <1>2, <1>3, <1>4 DEF artifacts, sessions, turn
<1>7. SessionInv'
  BY <1>2, <1>3, <1>4 DEF artifacts, sessions, turn
<1>8. AnswerInv'
  BY <1>2, <1>3, <1>4 DEF artifacts, sessions, turn
<1>9. BlockInv'
  BY <1>2, <1>3, <1>4 DEF artifacts, sessions, turn
<1> QED
  BY <1>5, <1>6, <1>7, <1>8, <1>9

LEMMA RecoverSafe ==
  ASSUME Safety, Recover
  PROVE  Safety'
<1>1. /\ run \in Runs /\ saved \in Runs
      /\ Len(run.attempts) \in Nat /\ Len(saved.attempts) \in Nat
      /\ run.attempts # <<>> <=> Len(run.attempts) >= 1
      /\ Current \in 0 .. MaxAttempts
  BY Numbers
<1> USE <1>1, AgentCallAssumption DEF Safety, Types, RecordInv, SessionInv, AnswerInv, BlockInv, Window, Kept, Reserved, Unpublished, Retry, Endings, Current
<1>2. pc = "down" /\ UNCHANGED <<artifacts, sessions, turn, next, asked, strayed>>
      /\ (blocked' => blocked)
  BY DEF Recover
<1> DEFINE c == [run EXCEPT !.status = "paused"]
<1>3. /\ c \in Runs /\ c.limit = run.limit
      /\ c.start = run.start /\ c.answer = run.answer /\ c.attempts = run.attempts
  <2>1. c \in Runs
    BY FieldRecords, FALSE \in BOOLEAN
  <2> QED
    BY <2>1 DEF Runs
<1>4. /\ \/ run' = c /\ saved' = c
         \/ run' = run /\ saved' = saved
      /\ pc' \in {"off", "down"}
  BY SaveDoes DEF Recover, record, GoTo
<1> HIDE DEF c
<1>5. Types'
  BY <1>2, <1>3, <1>4 DEF artifacts, sessions, turn, Places
<1>6. RecordInv'
  BY <1>2, <1>3, <1>4 DEF artifacts, sessions, turn
<1>7. SessionInv'
  BY <1>2, <1>3, <1>4 DEF artifacts, sessions, turn
<1>8. AnswerInv'
  BY <1>2, <1>3, <1>4 DEF artifacts, sessions, turn
<1>9. BlockInv'
  BY <1>2, <1>3, <1>4 DEF artifacts, sessions, turn
<1> QED
  BY <1>5, <1>6, <1>7, <1>8, <1>9

LEMMA ResumeSafe ==
  ASSUME Safety, Resume
  PROVE  Safety'
<1>1. /\ run \in Runs /\ saved \in Runs
      /\ Len(run.attempts) \in Nat /\ Len(saved.attempts) \in Nat
      /\ run.attempts # <<>> <=> Len(run.attempts) >= 1
      /\ Current \in 0 .. MaxAttempts
  BY Numbers
<1> USE <1>1, AgentCallAssumption DEF Safety, Types, RecordInv, SessionInv, AnswerInv, BlockInv, Window, Kept, Reserved, Unpublished, Retry, Endings, Current
<1>2. pc = "off" /\ UNCHANGED <<artifacts, sessions, turn, next, asked, strayed>>
  BY DEF Resume
<1> DEFINE n == IF run.limit THEN Current ELSE run.start
           c == [run EXCEPT !.status = "active", !.limit = FALSE, !.start = n]
<1>3. /\ n \in 0 .. MaxAttempts /\ n <= Current
      /\ Current <= n + TechnicalAttempts /\ n + TechnicalAttempts <= MaxAttempts
  BY SMTT(30), RunFields DEF Resume
<1>4. /\ c \in Runs /\ c.limit = FALSE /\ c.status = "active"
      /\ c.start = n /\ c.answer = run.answer /\ c.attempts = run.attempts
  <2> HIDE DEF n
  <2>1. c \in Runs
    BY <1>3, FieldRecords, FALSE \in BOOLEAN
  <2> QED
    BY <2>1 DEF Runs
<1>5. Save(c, "dispatch", "off") /\ blocked' = (blocked /\ run'.status = "paused")
  BY DEF Resume
<1> HIDE DEF c, n
<1>6. \/ run' = c /\ saved' = c /\ pc' \in {"dispatch", "off"} /\ ~blocked'
      \/ run' = run /\ saved' = saved /\ pc' = "off" /\ (blocked' => blocked)
  BY <1>4, <1>5, SaveDoes
<1>7. Types'
  BY <1>2, <1>3, <1>4, <1>6 DEF artifacts, sessions, turn, Places
<1>8. RecordInv'
  BY <1>2, <1>3, <1>4, <1>6 DEF artifacts, sessions, turn
<1>9. SessionInv'
  BY <1>2, <1>3, <1>4, <1>6 DEF artifacts, sessions, turn
<1>10. AnswerInv'
  BY <1>2, <1>3, <1>4, <1>6 DEF artifacts, sessions, turn
<1>11. BlockInv'
  BY <1>2, <1>3, <1>4, <1>6 DEF artifacts, sessions, turn
<1> QED
  BY <1>7, <1>8, <1>9, <1>10, <1>11

LEMMA CrashSafe ==
  ASSUME Safety, Crash
  PROVE  Safety'
<1>1. /\ run \in Runs /\ saved \in Runs
      /\ Len(run.attempts) \in Nat /\ Len(saved.attempts) \in Nat
      /\ run.attempts # <<>> <=> Len(run.attempts) >= 1
      /\ Current \in 0 .. MaxAttempts
  BY Numbers
<1> USE <1>1, AgentCallAssumption DEF Safety, Types, RecordInv, SessionInv, AnswerInv, BlockInv, Window, Kept, Reserved, Unpublished, Retry, Endings, Current
<1>2. /\ run' = saved /\ UNCHANGED <<saved, artifacts, call, asked, strayed, blocked>>
      /\ slot' = 0 /\ held' = 0 /\ owned' = {} /\ open' = {}
      /\ provider' = "none" /\ edits' = "within" /\ pc' = "down"
  BY DEF Crash, NoTurn, GoTo
<1>3. Types'
  BY <1>2 DEF artifacts, Results, Edits, Places
<1>4. RecordInv'
  BY <1>2 DEF artifacts, Results, Edits
<1>5. SessionInv'
  BY <1>2 DEF artifacts, Results, Edits
<1>6. AnswerInv'
  BY <1>2 DEF artifacts, Results, Edits
<1>7. BlockInv'
  BY <1>2 DEF artifacts, Results, Edits
<1> QED
  BY <1>3, <1>4, <1>5, <1>6, <1>7

(***************************************************************************)
(* The invariant, for every step of the controller and around it.          *)
(***************************************************************************)
LEMMA FlagsKept == Flags /\ [Next]_vars => Flags'
<1> SUFFICES ASSUME Flags, [Next]_vars
             PROVE  Flags'
  OBVIOUS
<1>1. pending' \in {pending, TRUE, FALSE}
  BY Zenon DEF Next, Controller, Dispatch, RecoverSuccess, Reserve, StartTurn, TurnReturns, TurnInterrupted,
     Guard, RecordOutcome, PublishWorkspace, PublishReceipt, RecordAnswer, RouteError, Recreate, Discard,
     Release, ProviderEnds, TurnExpires, Cancel, Resume, Crash, Recover, Save, record, vars
<1>2. canceled' \in {canceled, TRUE, FALSE}
  BY Zenon DEF Next, Controller, Dispatch, RecoverSuccess, Reserve, StartTurn, TurnReturns, TurnInterrupted,
     Guard, RecordOutcome, PublishWorkspace, PublishReceipt, RecordAnswer, RouteError, Recreate, Discard,
     Release, ProviderEnds, TurnExpires, Cancel, Resume, Crash, Recover, vars
<1>3. blocked' \in {blocked, TRUE, FALSE}
  <2>1. CASE Resume
    BY <2>1, Zenon DEF Resume
  <2> QED
    BY <2>1, Zenon DEF Next, Controller, Dispatch, RecoverSuccess, Reserve, StartTurn, TurnReturns, TurnInterrupted,
       Guard, RecordOutcome, PublishWorkspace, PublishReceipt, RecordAnswer, RouteError, Recreate, Discard,
       Release, ProviderEnds, TurnExpires, Cancel, Crash, Recover, Block, vars
<1> QED
  BY <1>1, <1>2, <1>3, Zenon DEF Flags

LEMMA StutterSafe ==
  ASSUME Safety, UNCHANGED vars
  PROVE  Safety'
BY SMTT(30) DEF Safety, Types, RecordInv, SessionInv, AnswerInv, BlockInv, Kept, Current,
   vars, record, artifacts, sessions, turn

LEMMA StepSafe == Safety /\ [Next]_vars => Safety'
  BY DispatchSafe, RecoverSuccessSafe, ReserveSafe, StartTurnSafe, TurnReturnsSafe, TurnInterruptedSafe,
     GuardSafe, RecordOutcomeSafe, PublishWorkspaceSafe, PublishReceiptSafe, RecordAnswerSafe,
     RouteErrorSafe, RecreateSafe, DiscardSafe, ReleaseSafe, ProviderEndsSafe, TurnExpiresSafe,
     CancelSafe, ResumeSafe, CrashSafe, RecoverSafe, StutterSafe
  DEF Next, Controller

\* Every reachable state of the call satisfies the invariant.
THEOREM CallInvariant == Spec => []CallInv
<1>1. Init => CallInv
  BY InitCall DEF CallInv, Flags, Init
<1>2. CallInv /\ [Next]_vars => CallInv'
  BY FlagsKept, StepSafe DEF CallInv
<1> QED
  BY <1>1, <1>2, PTL DEF Spec

\* The records, the turn and the sessions keep their types; in particular
\* reserveAgentAttempt never reserves more attempts than the windows opened by
\* /resume allow (controlled_agent_call.go).
THEOREM CallTypeCorrect == Spec => []TypeOK
<1>1. CallInv => TypeOK
  <2> SUFFICES ASSUME CallInv
               PROVE  TypeOK
    OBVIOUS
  <2>1. Flags /\ Types /\ Window(run) /\ SessionInv
    BY DEF CallInv, Safety, RecordInv
  <2>2. Current <= MaxAttempts
    <3>1. Len(run.attempts) \in Nat /\ run.start \in Nat
      BY <2>1, RunFields DEF Types
    <3> QED
      BY <2>1, <3>1, AgentCallAssumption DEF Window, Current
  <2>3. {pending, canceled, blocked} \subseteq BOOLEAN
    BY <2>1, Zenon DEF Flags
  <2>4. {workspace, receipt, bound, violations, asked, strayed} \subseteq 0 .. MaxAttempts
    BY <2>1 DEF Types
  <2>5. {slot, held} \subseteq Handles \cup {0} /\ owned \subseteq Handles /\ open \subseteq Handles
    BY <2>1 DEF SessionInv
  <2> QED
    BY <2>1, <2>2, <2>3, <2>4, <2>5 DEF TypeOK, Types
<1> QED
  BY <1>1, CallInvariant, PTL

\* The snapshot, the receipt, the outcome of the attempt and the recorded
\* answer are of one attempt, whatever failed or crashed between their writes
\* (publishControlledAgentSuccessReceipt, recoverControlledAgentSuccess and
\* persistImplementationReadyReceipt).
THEOREM ReceiptIsOfTheAnswer == Spec => []ReceiptAgrees
<1>1. CallInv => ReceiptAgrees
  BY DEF CallInv, Safety, RecordInv, AnswerInv, ReceiptAgrees, Current
<1> QED
  BY <1>1, CallInvariant, PTL

\* What a step may do while the guard's block stands.
LEMMA BlockedStep ==
  ASSUME Safety, Next, blocked, blocked'
  PROVE  UNCHANGED <<asked, workspace, receipt>> /\ saved'.answer = saved.answer
<1>1. run \in Runs /\ saved \in Runs /\ run.answer = saved.answer
  BY DEF Safety, Types, RecordInv
<1>2. \/ pc \in {"failed", "off", "down"}
      \/ pc = "outcome" /\ next = <<"failed", "failed">>
  BY DEF Safety, BlockInv
<1>3. ASSUME NEW s, NEW l, NEW n
      PROVE  /\ [run EXCEPT !.status = s, !.limit = l].answer = run.answer
             /\ [run EXCEPT !.status = s].answer = run.answer
             /\ [run EXCEPT !.status = s, !.limit = l, !.start = n].answer = run.answer
             /\ [run EXCEPT !.attempts = n].answer = run.answer
  BY <1>1 DEF Runs
<1>4. CASE RecordOutcome
  BY <1>1, <1>3, <1>4, SaveDoes DEF RecordOutcome, artifacts
<1>5. CASE RouteError
  <2> DEFINE c == [run EXCEPT !.status = "paused", !.limit = FALSE]
  <2>1. c.answer = run.answer
    BY <1>3
  <2> HIDE DEF c
  <2>2. Save(c, "off", "off") \/ UNCHANGED record
    BY <1>5 DEF RouteError, c
  <2>3. saved'.answer = saved.answer
    BY <1>1, <2>1, <2>2, SaveDoes DEF record
  <2> QED
    BY <1>5, <2>3 DEF RouteError, artifacts
<1>6. CASE Resume
  <2> DEFINE n == IF run.limit THEN Current ELSE run.start
             c == [run EXCEPT !.status = "active", !.limit = FALSE, !.start = n]
  <2>1. c.answer = run.answer
    <3> HIDE DEF n
    <3> QED
      BY <1>3
  <2>2. Save(c, "dispatch", "off")
    BY <1>6 DEF Resume
  <2> HIDE DEF c
  <2>3. saved'.answer = saved.answer
    BY <1>1, <2>1, <2>2, SaveDoes
  <2> QED
    BY <1>6, <2>3 DEF Resume, artifacts
<1>7. CASE Recover
  BY <1>1, <1>3, <1>7, SaveDoes DEF Recover, record, artifacts
<1>8. CASE Crash
  BY <1>8 DEF Crash, artifacts
<1>9. CASE ProviderEnds \/ Cancel
  BY <1>9 DEF ProviderEnds, Cancel, record, artifacts
<1>10. ~(Dispatch \/ RecoverSuccess \/ Reserve \/ StartTurn \/ TurnReturns \/ TurnInterrupted \/ Guard)
  BY <1>2 DEF Dispatch, RecoverSuccess, Reserve, StartTurn, TurnReturns, TurnInterrupted, Guard
<1>11. ~(PublishWorkspace \/ PublishReceipt \/ RecordAnswer \/ Recreate \/ Discard \/ Release \/ TurnExpires)
  BY <1>2 DEF PublishWorkspace, PublishReceipt, RecordAnswer, Recreate, Discard, Release, TurnExpires
<1> QED
  BY <1>4, <1>5, <1>6, <1>7, <1>8, <1>9, <1>10, <1>11 DEF Next, Controller

\* From the moment the guard gives up until a recorded /resume, no turn starts
\* and no answer is published or recorded, although the pause itself is durable
\* only with the outcome of the attempt (blockAgentCall, recordAgentAttemptOutcome,
\* RecoverOwnRun).
THEOREM BlockStands == Spec => BlockHolds
<1> DEFINE Held == blocked /\ blocked' =>
                     UNCHANGED <<asked, workspace, receipt>> /\ saved'.answer = saved.answer
<1>1. CallInv /\ [Next]_vars => [Held]_vars
  BY BlockedStep DEF CallInv
<1> QED
  BY <1>1, CallInvariant, PTL DEF Spec, BlockHolds

=============================================================================
