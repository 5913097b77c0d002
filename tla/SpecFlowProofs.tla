-------------------------- MODULE SpecFlowProofs ---------------------------
(***************************************************************************)
(* What holds of the planning dialogue for every number of versions,       *)
(* edits, crashes and reviews: the types, which saved texts the program    *)
(* leaves alone, the draft that is always offered, and what an approval    *)
(* stands for.                                                             *)
(***************************************************************************)
EXTENDS SpecFlow, TLAPS

(***************************************************************************)
(* Types                                                                   *)
(***************************************************************************)
FlowTypes ==
    /\ flow \in [cur : Stages, stages : [Stages -> StageType]]
    /\ doc \in Prints

AuthorTypes   == author \in {None} \union Authors
ReviewerTypes == reviewer \in {None} \union Reviewers

ControlTypes ==
    /\ ctl \in Controls
    /\ pc \in {"off", "idle", "talk", "activate", "reread", "review", "candidate", "apply",
               "publish", "commit"}

OperationTypes == op \in {None} \union Operations

CountTypes ==
    /\ docs \in Versions /\ edits \in 0..MaxEdits /\ crashes \in 0..MaxCrashes
    /\ reviews \in 0..MaxReviews

\* An author at work exists and holds no draft; a reviewer at work exists.
Sessions ==
    /\ pc \in {"talk", "reread", "apply", "activate"} => author # None /\ author.pending = 0
    /\ pc \in {"review", "candidate", "apply"} => reviewer # None

TypeInv == FlowTypes /\ AuthorTypes /\ ReviewerTypes /\ ControlTypes /\ CountTypes

LEMMA TypeParts == TypeInv /\ OperationTypes <=> TypeOK
  BY DEF TypeInv, TypeOK, FlowTypes, AuthorTypes, ReviewerTypes, ControlTypes, OperationTypes,
         CountTypes

LEMMA ZeroVersion == 0 \in Versions
  BY BoundsAssumption DEF Versions

\* The fingerprints are fingerprints.
LEMMA PrintTypes ==
  ASSUME TypeInv, NEW s \in Stages
  PROVE  UpHashes(doc, s) \in Prints /\ Fingerprint(s) \in Prints /\ StatePrint(s) \in Prints
<1>1. UpHashes(doc, s) \in Prints
  BY ZeroVersion DEF UpHashes, Prints, TypeInv, FlowTypes
<1>2. doc[s] \in Versions /\ S(s) \in StageType
  BY DEF TypeInv, FlowTypes, Prints, S
<1>3. S(s).up \in Prints /\ S(s).cur \in Versions
  BY <1>2 DEF StageType
<1> QED
  BY <1>1, <1>2, <1>3 DEF Fingerprint, StatePrint, Prints

LEMMA NewAuthorType ==
  ASSUME NEW s \in Stages
  PROVE  NewAuthor(s) \in Authors /\ NewAuthor(s) # None
<1>1. NewAuthor(s) \in Authors
  BY ZeroVersion DEF NewAuthor, Authors
<1> QED
  BY <1>1, SessionAssumption

LEMMA SeveredTypes ==
  ASSUME TypeInv, NEW left \in BOOLEAN
  PROVE  /\ Severed(author, left) \in {None} \union Authors
         /\ Severed(reviewer, left) \in {None} \union Reviewers
  BY DEF Severed, Authors, Reviewers, TypeInv, AuthorTypes, ReviewerTypes

\* Losing a thread changes nothing else of a session.
LEMMA SeveredKeeps ==
  ASSUME TypeInv, NEW left \in BOOLEAN
  PROVE  /\ Severed(author, left) = None <=> author = None
         /\ author # None => /\ Severed(author, left).stage = author.stage
                             /\ Severed(author, left).pending = author.pending
         /\ Severed(reviewer, left) = None <=> reviewer = None
  BY SessionAssumption DEF Severed, Authors, Reviewers, TypeInv, AuthorTypes, ReviewerTypes

LEMMA ControlKept ==
  ASSUME TypeInv
  PROVE  /\ Control \in Controls
         /\ Control.revisingSpec = ctl.revisingSpec
         /\ Control.revisionPending = ctl.revisionPending
  BY ZeroVersion DEF Control, Controls, TypeInv, ControlTypes

LEMMA NewControlType == NewControl \in Controls
  BY ZeroVersion DEF NewControl, Controls

\* Where a command ends, with the flags it set.
LEMMA ReturnsTo ==
  ASSUME NEW c \in Controls, Returns(c)
  PROVE  /\ ctl' \in Controls /\ pc' \in {"off", "idle"}
         /\ ctl'.revisingSpec = c.revisingSpec /\ ctl'.revisionPending = c.revisionPending
  BY ZeroVersion DEF Returns, Controls

LEMMA FailsReturn ==
  ASSUME NEW c \in Controls, FailsTo(c)
  PROVE  /\ ctl' \in Controls /\ pc' \in {"off", "idle"}
         /\ ctl'.revisingSpec = c.revisingSpec /\ ctl'.revisionPending = c.revisionPending
  BY ZeroVersion DEF FailsTo, Controls

\* A stage put in the place of another.
LEMMA StageReplaced ==
  ASSUME TypeInv, NEW s \in Stages, NEW x \in StageType,
         flow' = [flow EXCEPT !.stages[s] = x]
  PROVE  /\ flow' \in [cur : Stages, stages : [Stages -> StageType]]
         /\ flow'.cur = flow.cur /\ flow'.stages[s] = x
         /\ \A t \in Stages \ {s} : flow'.stages[t] = flow.stages[t]
  BY DEF TypeInv, FlowTypes

LEMMA AcceptedTypes ==
  ASSUME TypeInv, NEW s \in Stages, Accepted(s), UNCHANGED doc
  PROVE  /\ FlowTypes'
         /\ flow'.cur = s
         /\ \A t \in Stages \ {s} : flow'.stages[t] = flow.stages[t]
         /\ flow'.stages[s].st = "published" /\ flow'.stages[s].cur = doc[s]
         /\ flow'.stages[s].up = UpHashes(doc, s)
<1> DEFINE x == [flow.stages[s] EXCEPT !.st = "published", !.cur = doc[s],
                                       !.up = UpHashes(doc, s), !.review = "not_started"]
<1>1. UpHashes(doc, s) \in Prints
  BY PrintTypes
<1>2. flow.stages[s] \in StageType /\ doc[s] \in Versions
  BY DEF TypeInv, FlowTypes, Prints
<1>3. x \in StageType /\ x.st = "published" /\ x.cur = doc[s] /\ x.up = UpHashes(doc, s)
  BY <1>1, <1>2 DEF StageType, ReviewStatuses
<1>4. flow' = [cur |-> s, stages |-> [flow.stages EXCEPT ![s] = x]]
  BY DEF Accepted
<1> HIDE DEF x
<1>5. /\ flow' \in [cur : Stages, stages : [Stages -> StageType]]
      /\ flow'.cur = s /\ flow'.stages[s] = x
      /\ \A t \in Stages \ {s} : flow'.stages[t] = flow.stages[t]
  BY <1>3, <1>4 DEF TypeInv, FlowTypes
<1> QED
  BY <1>3, <1>5 DEF FlowTypes, TypeInv

\* The texts, the states and the approvals of the stages stay as they are.
TextsKept ==
    /\ flow'.cur = flow.cur
    /\ \A s \in Stages : /\ flow'.stages[s].st = flow.stages[s].st
                         /\ flow'.stages[s].cur = flow.stages[s].cur
                         /\ flow'.stages[s].up = flow.stages[s].up

LEMMA ReportTypes ==
  ASSUME TypeInv, NEW s \in Stages, NEW status \in ReviewStatuses,
         NEW acc \in Prints \union {None}, Report(s, status, acc), UNCHANGED doc
  PROVE  /\ FlowTypes' /\ TextsKept
         /\ \A t \in Stages : flow'.stages[t].app = flow.stages[t].app
<1> DEFINE x == [flow.stages[s] EXCEPT !.review = status,
                                       !.run = [status |-> status, acc |-> acc]]
<1>1. flow.stages[s] \in StageType
  BY DEF TypeInv, FlowTypes
<1>2. /\ x \in StageType /\ x.st = flow.stages[s].st /\ x.cur = flow.stages[s].cur
      /\ x.up = flow.stages[s].up /\ x.app = flow.stages[s].app
  BY <1>1 DEF StageType
<1>3. flow' = [flow EXCEPT !.stages[s] = x]
  BY DEF Report
<1> HIDE DEF x
<1> QED
  BY <1>2, <1>3, StageReplaced DEF FlowTypes, TypeInv, TextsKept

(***************************************************************************)
(* The sessions after a changed document is noticed                        *)
(***************************************************************************)
\* The author of the next state is the one there was, or one just started.
AuthorGoesOn ==
    author' # None => \/ /\ author # None /\ author'.stage = author.stage
                         /\ author'.pending \in {0, author.pending}
                      \/ author'.pending = 0 /\ Gate(author'.stage)

LEMMA ExternalEffect ==
  ASSUME TypeInv, NEW c \in Controls, ExternalRevision(c)
  PROVE  /\ AuthorTypes' /\ ReviewerTypes' /\ ctl' \in Controls
         /\ pc' \in {"off", "idle", "reread"}
         /\ pc' = "reread" => author' # None /\ author'.pending = 0
         /\ ctl'.revisingSpec = c.revisingSpec /\ ctl'.revisionPending = c.revisionPending
         /\ AuthorGoesOn
<1> USE DEF AuthorTypes, ReviewerTypes, AuthorGoesOn
<1>1. \A s \in Stages : [c EXCEPT !.read = doc[s]] \in Controls
        /\ [c EXCEPT !.read = doc[s]].revisingSpec = c.revisingSpec
        /\ [c EXCEPT !.read = doc[s]].revisionPending = c.revisionPending
  BY DEF Controls, TypeInv, FlowTypes, Prints
<1>2. \A s \in Stages : NewAuthor(s) \in Authors /\ NewAuthor(s) # None
                          /\ NewAuthor(s).stage = s /\ NewAuthor(s).pending = 0
  BY NewAuthorType DEF NewAuthor
<1>3. ASSUME \E s \in Stages : MaySubmit(s) /\ pc' = "reread" /\ ctl' = [c EXCEPT !.read = doc[s]]
                                /\ UNCHANGED <<author, reviewer>>
      PROVE  /\ AuthorTypes' /\ ReviewerTypes' /\ pc' = "reread" /\ AuthorGoesOn
             /\ author' # None /\ author'.pending = 0
  BY <1>3 DEF MaySubmit, AuthorOf, TypeInv
<1>4. ASSUME author' = Severed(author, c.mode = "leave"),
             reviewer' = Severed(reviewer, c.mode = "leave")
      PROVE  AuthorTypes' /\ ReviewerTypes' /\ AuthorGoesOn
  BY <1>4, SeveredTypes, SeveredKeeps
<1>5. ASSUME \E s \in Stages : Gate(s) /\ author' = NewAuthor(s)
                                /\ reviewer' = IF author = None THEN reviewer ELSE None
      PROVE  /\ AuthorTypes' /\ ReviewerTypes' /\ AuthorGoesOn
             /\ author' # None /\ author'.pending = 0
  BY <1>2, <1>5 DEF TypeInv
<1>6. ASSUME author' = None, reviewer' = IF author = None THEN reviewer ELSE None
      PROVE  AuthorTypes' /\ ReviewerTypes' /\ AuthorGoesOn
  BY <1>6 DEF TypeInv
<1>7. FailsTo(c) => pc' \in {"off", "idle"} /\ ctl' \in Controls
                     /\ ctl'.revisingSpec = c.revisingSpec
                     /\ ctl'.revisionPending = c.revisionPending
  BY FailsReturn
<1> QED
  BY <1>1, <1>3, <1>4, <1>5, <1>6, <1>7 DEF ExternalRevision

LEMMA StartEffect ==
  ASSUME TypeInv, Sessions, NEW c \in Controls, StartCurrentStage(c)
  PROVE  /\ AuthorTypes' /\ ReviewerTypes' /\ ctl' \in Controls
         /\ pc' \in {"off", "idle", "reread", "talk"}
         /\ pc' = "reread" => author' # None /\ author'.pending = 0
         /\ pc' = "talk" => /\ author' # None /\ author'.stage = flow.cur
                            /\ Cur.st = "drafting"
         /\ ctl'.revisingSpec = c.revisingSpec /\ ctl'.revisionPending = c.revisionPending
         /\ AuthorGoesOn
<1> USE DEF AuthorTypes, ReviewerTypes, AuthorGoesOn
<1>1. CASE Changed # {} /\ ExternalRevision(c)
  BY <1>1, ExternalEffect
<1>2. ASSUME Startable, author' = IF author = None THEN NewAuthor(flow.cur) ELSE author
      PROVE  AuthorTypes' /\ AuthorGoesOn /\ author' # None /\ author'.stage = flow.cur
  <2>1. flow.cur \in Stages
    BY DEF TypeInv, FlowTypes
  <2>2. NewAuthor(flow.cur) \in Authors /\ NewAuthor(flow.cur) # None
        /\ NewAuthor(flow.cur).stage = flow.cur /\ NewAuthor(flow.cur).pending = 0
    BY <2>1, NewAuthorType DEF NewAuthor
  <2> QED
    BY <1>2, <2>2 DEF Startable, AuthorOf, TypeInv
<1>3. CASE /\ Changed = {} /\ Startable
           /\ author' = IF author = None THEN NewAuthor(flow.cur) ELSE author
           /\ IF Cur.st = "drafting" THEN pc' = "talk" /\ ctl' = c ELSE Returns(c)
           /\ UNCHANGED reviewer
  BY <1>2, <1>3, ReturnsTo DEF TypeInv
<1>4. CASE Changed = {} /\ ~Startable /\ FailsTo(c) /\ UNCHANGED <<author, reviewer>>
  BY <1>4, FailsReturn DEF TypeInv
<1> QED
  BY <1>1, <1>3, <1>4 DEF StartCurrentStage

(***************************************************************************)
(* Every action keeps the types                                            *)
(***************************************************************************)
LEMMA SessionFields ==
  ASSUME TypeInv
  PROVE  /\ author # None => author \in Authors /\ author.stage \in Stages
                              /\ author.pending \in Versions
         /\ reviewer # None => reviewer \in Reviewers /\ reviewer.stage \in Stages
                                /\ reviewer.stage # "intent" /\ reviewer.print \in Prints
         /\ flow.cur \in Stages
  BY DEF TypeInv, AuthorTypes, ReviewerTypes, FlowTypes, Authors, Reviewers

\* What an author session may become.
LEMMA AuthorWith ==
  ASSUME NEW a \in Authors, NEW v \in Versions, NEW b \in BOOLEAN
  PROVE  /\ [a EXCEPT !.pending = v] \in Authors
         /\ [a EXCEPT !.pending = v].stage = a.stage /\ [a EXCEPT !.pending = v].pending = v
         /\ [a EXCEPT !.rework = b] \in Authors
         /\ [a EXCEPT !.rework = b].stage = a.stage
         /\ [a EXCEPT !.rework = b].pending = a.pending
  BY DEF Authors

LEMMA ControlWith ==
  ASSUME NEW c \in Controls, NEW b \in BOOLEAN, NEW v \in Versions
  PROVE  /\ [c EXCEPT !.revisionPending = b] \in Controls
         /\ [c EXCEPT !.revisionPending = b].revisionPending = b
         /\ [c EXCEPT !.revisionPending = b].revisingSpec = c.revisingSpec
         /\ [c EXCEPT !.revisingSpec = b] \in Controls
         /\ [c EXCEPT !.revisingSpec = b].revisionPending = c.revisionPending
         /\ [c EXCEPT !.revisingSpec = b].revisingSpec = b
         /\ [c EXCEPT !.choice = b] \in Controls
         /\ [c EXCEPT !.choice = b].revisionPending = c.revisionPending
         /\ [c EXCEPT !.choice = b].revisingSpec = c.revisingSpec
         /\ [c EXCEPT !.intentHash = v] \in Controls
         /\ [c EXCEPT !.intentHash = v].revisionPending = c.revisionPending
         /\ [c EXCEPT !.intentHash = v].revisingSpec = c.revisingSpec
  BY DEF Controls

LEMMA NextVersion ==
  ASSUME TypeInv, docs < MaxDoc
  PROVE  docs + 1 \in Versions /\ docs \in Nat
  BY BoundsAssumption DEF TypeInv, CountTypes, Versions

\* Nothing but the sessions and the controller changes.
LEMMA OnlySessionsTypes ==
  ASSUME TypeInv, UNCHANGED <<flow, doc, docs, Counts>>
  PROVE  FlowTypes' /\ CountTypes' /\ TextsKept
  BY DEF TypeInv, FlowTypes, CountTypes, Counts, TextsKept

\* An author's turn begins.
TurnBegins ==
    /\ pc' = "talk" /\ author' # None /\ ctl'.revisingSpec = ctl.revisingSpec
    /\ ctl'.revisionPending = ctl.revisionPending
    /\ author'.pending = 0 /\ author'.stage = author.stage

LEMMA AuthorMessageEffect ==
  ASSUME TypeInv, AuthorMessage
  PROVE  TypeInv' /\ TextsKept /\ TurnBegins /\ author.stage = AuthorStage /\ author.pending = 0
<1>1. ctl' \in Controls /\ pc' = "talk" /\ ctl'.revisingSpec = ctl.revisingSpec
        /\ ctl'.revisionPending = ctl.revisionPending
  BY ControlKept DEF AuthorMessage
<1>2. FlowTypes' /\ CountTypes' /\ TextsKept
  BY OnlySessionsTypes DEF AuthorMessage
<1>3. author' = author /\ reviewer' = reviewer /\ MaySubmit(AuthorStage)
  BY DEF AuthorMessage
<1> QED
  BY <1>1, <1>2, <1>3
     DEF TypeInv, ControlTypes, AuthorTypes, ReviewerTypes, TurnBegins, MaySubmit, AuthorOf

LEMMA ReworkRevisionEffect ==
  ASSUME TypeInv, ReworkRevision
  PROVE  TypeInv' /\ TextsKept /\ TurnBegins /\ author # None /\ author.pending # 0
<1>1. ctl' \in Controls /\ pc' = "talk" /\ ctl'.revisingSpec = ctl.revisingSpec
        /\ ctl'.revisionPending = ctl.revisionPending
  BY ControlKept DEF ReworkRevision
<1>2. FlowTypes' /\ CountTypes' /\ TextsKept
  BY OnlySessionsTypes DEF ReworkRevision
<1>3. author # None /\ author.pending # 0 /\ reviewer' = reviewer
  BY DEF ReworkRevision, Deciding
<1>4. author' \in Authors /\ author'.stage = author.stage /\ author'.pending = 0
  BY <1>3, SessionFields, AuthorWith, ZeroVersion DEF ReworkRevision
<1> QED
  BY <1>1, <1>2, <1>3, <1>4, SessionAssumption
     DEF TypeInv, ControlTypes, AuthorTypes, ReviewerTypes, TurnBegins

\* A step that touches neither the texts nor what is known of them, and begins
\* no work of the author that may write one.
Quiet ==
    /\ TextsKept /\ UNCHANGED <<doc, docs>>
    /\ AuthorGoesOn
    /\ pc' \in {"off", "idle", "reread", "review", "candidate"}
    /\ pc' = "reread" => author' # None /\ author'.pending = 0
    /\ pc' \in {"review", "candidate"} => reviewer' # None
    /\ author' # None =>
          /\ ctl'.revisingSpec => ctl.revisingSpec \/ author'.stage = "spec"
          /\ author'.pending # 0 => ctl'.revisionPending = ctl.revisionPending

\* A phase begins over the documents as they are, with the author as he was or
\* given up.
Begins(k) ==
    /\ Committing(k, doc)
    /\ TextsKept /\ UNCHANGED <<doc, docs>>
    /\ author' \in {author, None}
    /\ ctl'.revisingSpec = ctl.revisingSpec /\ ctl'.revisionPending = ctl.revisionPending

LEMMA AuthorRepliesEffect ==
  ASSUME TypeInv, Sessions, AuthorReplies
  PROVE  TypeInv' /\ ((Quiet /\ op' = op) \/ (Begins("turn") /\ author' = author))
<1>1. FlowTypes' /\ CountTypes' /\ TextsKept
  BY OnlySessionsTypes DEF AuthorReplies
<1>2. CASE Returns([ctl EXCEPT !.revisionPending = FALSE]) /\ UNCHANGED op
  <2>1. [ctl EXCEPT !.revisionPending = FALSE] \in Controls
          /\ [ctl EXCEPT !.revisionPending = FALSE].revisingSpec = ctl.revisingSpec
    BY ControlWith, ZeroVersion DEF TypeInv, ControlTypes
  <2>2. ctl' \in Controls /\ pc' \in {"off", "idle"} /\ ctl'.revisingSpec = ctl.revisingSpec
    BY <1>2, <2>1, ReturnsTo
  <2> QED
    BY <1>1, <1>2, <2>2
       DEF AuthorReplies, TypeInv, ControlTypes, AuthorTypes, ReviewerTypes, Quiet, AuthorGoesOn,
           Sessions
<1>3. CASE Committing("turn", doc) /\ UNCHANGED ctl
  BY <1>1, <1>3
     DEF AuthorReplies, TypeInv, ControlTypes, AuthorTypes, ReviewerTypes, Begins, Committing
<1> QED
  BY <1>2, <1>3 DEF AuthorReplies

\* A turn that fails, of the author or of the rework he was asked for.
LEMMA TurnFailsEffect ==
  ASSUME TypeInv, \E lost \in BOOLEAN : author' = Severed(author, lost), FailsTo(ctl),
         UNCHANGED <<flow, doc, reviewer, docs, Counts>>
  PROVE  TypeInv' /\ Quiet
<1>1. ctl' \in Controls /\ pc' \in {"off", "idle"} /\ ctl'.revisingSpec = ctl.revisingSpec
        /\ ctl'.revisionPending = ctl.revisionPending
  BY FailsReturn DEF TypeInv, ControlTypes
<1>2. FlowTypes' /\ CountTypes' /\ TextsKept
  BY OnlySessionsTypes
<1>3. AuthorTypes' /\ AuthorGoesOn
  BY SeveredTypes, SeveredKeeps DEF AuthorTypes, AuthorGoesOn
<1> QED
  BY <1>1, <1>2, <1>3 DEF TypeInv, ControlTypes, ReviewerTypes, Quiet

LEMMA RejectRevisionEffect ==
  ASSUME TypeInv, RejectRevision
  PROVE  TypeInv' /\ Quiet
<1>1. /\ ctl' \in Controls /\ ctl'.revisingSpec = ctl.revisingSpec
      /\ pc' = "idle"
  BY ControlKept, ControlWith, ZeroVersion DEF RejectRevision, Deciding, Undisturbed
<1>2. FlowTypes' /\ CountTypes' /\ TextsKept
  BY OnlySessionsTypes DEF RejectRevision
<1>3. author # None /\ reviewer' = reviewer
  BY DEF RejectRevision, Deciding
<1>4. author' \in Authors /\ author'.stage = author.stage /\ author'.pending = 0
  BY <1>3, SessionFields, AuthorWith, ZeroVersion DEF RejectRevision
<1> QED
  BY <1>1, <1>2, <1>3, <1>4
     DEF RejectRevision, TypeInv, ControlTypes, AuthorTypes, ReviewerTypes, Quiet, AuthorGoesOn

LEMMA NoticeChangeEffect ==
  ASSUME TypeInv, NoticeChange
  PROVE  TypeInv' /\ Quiet
<1>1. FlowTypes' /\ CountTypes' /\ TextsKept
  BY OnlySessionsTypes DEF NoticeChange
<1>2. Control \in Controls /\ ExternalRevision(Control)
  BY ControlKept DEF NoticeChange
<1> QED
  BY <1>1, <1>2, ExternalEffect, ControlKept
     DEF NoticeChange, TypeInv, ControlTypes, Quiet

LEMMA ExitEffect ==
  ASSUME TypeInv, Exit
  PROVE  TypeInv' /\ Quiet
<1>1. FlowTypes' /\ CountTypes' /\ TextsKept
  BY OnlySessionsTypes DEF Exit
<1>2. CASE Closed
  BY <1>1, <1>2, NewControlType
     DEF Closed, EnginesClosed, Exit, TypeInv, ControlTypes, AuthorTypes, ReviewerTypes, Quiet,
         AuthorGoesOn
<1>3. CASE ExternalRevision([Control EXCEPT !.mode = "leave"])
  <2>1. /\ [Control EXCEPT !.mode = "leave"] \in Controls
        /\ [Control EXCEPT !.mode = "leave"].revisingSpec = ctl.revisingSpec
        /\ [Control EXCEPT !.mode = "leave"].revisionPending = ctl.revisionPending
    BY ControlKept DEF Controls
  <2> QED
    BY <1>1, <1>3, <2>1, ExternalEffect DEF Exit, TypeInv, ControlTypes, Quiet
<1> QED
  BY <1>2, <1>3 DEF Exit

LEMMA CrashEffect ==
  ASSUME TypeInv, Crash
  PROVE  TypeInv' /\ Quiet
<1>1. FlowTypes' /\ TextsKept
  BY DEF TypeInv, FlowTypes, TextsKept, Crash
<1>2. CountTypes'
  BY BoundsAssumption DEF TypeInv, CountTypes, Crash
<1> QED
  BY <1>1, <1>2, NewControlType
     DEF Crash, TypeInv, ControlTypes, AuthorTypes, ReviewerTypes, Quiet, AuthorGoesOn

LEMMA PublishFailsEffect ==
  ASSUME TypeInv, PublishFails
  PROVE  TypeInv' /\ Quiet
<1>1. FlowTypes' /\ CountTypes' /\ TextsKept
  BY OnlySessionsTypes DEF PublishFails
<1>2. ctl' \in Controls /\ pc' \in {"off", "idle"} /\ ctl'.revisingSpec = ctl.revisingSpec
        /\ ctl'.revisionPending = ctl.revisionPending
  BY FailsReturn DEF PublishFails, TypeInv, ControlTypes
<1> QED
  BY <1>1, <1>2
     DEF PublishFails, TypeInv, ControlTypes, AuthorTypes, ReviewerTypes, Quiet, AuthorGoesOn

\* The revised spec stays behind the plan: the attempt to activate it failed.
ActivationFails ==
    pc = "activate" /\ FailsTo(ctl) /\ UNCHANGED <<flow, doc, author, reviewer, docs, Counts>>

LEMMA ActivationFailsEffect ==
  ASSUME TypeInv, ActivationFails
  PROVE  TypeInv' /\ Quiet
<1>1. FlowTypes' /\ CountTypes' /\ TextsKept
  BY OnlySessionsTypes DEF ActivationFails
<1>2. ctl' \in Controls /\ pc' \in {"off", "idle"} /\ ctl'.revisingSpec = ctl.revisingSpec
        /\ ctl'.revisionPending = ctl.revisionPending
  BY FailsReturn DEF TypeInv, ControlTypes, ActivationFails
<1> QED
  BY <1>1, <1>2 DEF ActivationFails, TypeInv, ControlTypes, AuthorTypes, ReviewerTypes, Quiet,
                    AuthorGoesOn

\* Both sessions after a reading: they end with the command that leaves.
LEMMA ReadingEnds ==
  ASSUME TypeInv, NEW left \in BOOLEAN,
         author' = Severed(author, left), reviewer' = Severed(reviewer, Leaving)
  PROVE  AuthorTypes' /\ ReviewerTypes' /\ AuthorGoesOn
<1>1. Leaving \in BOOLEAN
  BY DEF Leaving
<1> QED
  BY <1>1, SeveredTypes, SeveredKeeps DEF AuthorTypes, ReviewerTypes, AuthorGoesOn

\* A changed intent is read and waits for its classification.
IntentRead == ChangeRead /\ author.stage = "intent"

LEMMA IntentReadEffect ==
  ASSUME TypeInv, Sessions, IntentRead
  PROVE  TypeInv' /\ Quiet
<1>1. FlowTypes' /\ CountTypes' /\ TextsKept
  BY OnlySessionsTypes DEF IntentRead, ChangeRead
<1>2. AuthorTypes' /\ ReviewerTypes' /\ AuthorGoesOn
  BY ReadingEnds DEF IntentRead, ChangeRead, Leaving
<1>3. /\ [ctl EXCEPT !.intentHash = ctl.read] \in Controls
      /\ [ctl EXCEPT !.intentHash = ctl.read].revisingSpec = ctl.revisingSpec
      /\ [ctl EXCEPT !.intentHash = ctl.read].revisionPending = ctl.revisionPending
  BY DEF TypeInv, ControlTypes, Controls
<1>4. ctl' \in Controls /\ pc' \in {"off", "idle"} /\ ctl'.revisingSpec = ctl.revisingSpec
        /\ ctl'.revisionPending = ctl.revisionPending
  BY <1>3, ReturnsTo DEF IntentRead, ChangeRead
<1> QED
  BY <1>1, <1>2, <1>4 DEF IntentRead, ChangeRead, TypeInv, ControlTypes, Quiet

LEMMA ChangeRefusedEffect ==
  ASSUME TypeInv, ChangeRefused
  PROVE  TypeInv' /\ Quiet
<1>1. FlowTypes' /\ CountTypes' /\ TextsKept
  BY OnlySessionsTypes DEF ChangeRefused
<1>2. AuthorTypes' /\ ReviewerTypes' /\ AuthorGoesOn
  <2>1. PICK lost \in BOOLEAN : author' = Severed(author, lost \/ Leaving)
    BY DEF ChangeRefused
  <2>2. lost \/ Leaving \in BOOLEAN
    BY DEF Leaving
  <2> QED
    BY <2>1, <2>2, ReadingEnds DEF ChangeRefused
<1>3. ctl' \in Controls /\ pc' \in {"off", "idle"} /\ ctl'.revisingSpec = ctl.revisingSpec
        /\ ctl'.revisionPending = ctl.revisionPending
  BY FailsReturn, ReturnsTo DEF ChangeRefused, TypeInv, ControlTypes
<1> QED
  BY <1>1, <1>2, <1>3 DEF ChangeRefused, TypeInv, ControlTypes, Quiet

\* The engines are closed and the revision of the intent is refused.
IntentRefused ==
    pc = "idle" /\ EnginesClosed /\ UNCHANGED <<flow, doc, ctl, pc, docs, Counts>>

LEMMA IntentRefusedEffect ==
  ASSUME TypeInv, IntentRefused
  PROVE  TypeInv' /\ Quiet
<1>1. FlowTypes' /\ CountTypes' /\ TextsKept
  BY OnlySessionsTypes DEF IntentRefused
<1> QED
  BY <1>1 DEF IntentRefused, EnginesClosed, TypeInv, ControlTypes, AuthorTypes, ReviewerTypes,
              Quiet, AuthorGoesOn

LEMMA StartReviewEffect ==
  ASSUME TypeInv, StartReview
  PROVE  TypeInv' /\ Quiet
<1>1. FlowTypes' /\ TextsKept
  BY DEF TypeInv, FlowTypes, TextsKept, StartReview
<1>2. CountTypes'
  BY BoundsAssumption DEF TypeInv, CountTypes, StartReview
<1>3. reviewer' \in Reviewers
  <2>1. flow.cur \in Stages \ {"intent"} /\ Fingerprint(flow.cur) \in Prints
    BY PrintTypes, SessionFields DEF StartReview, Reviewable
  <2>2. (reviewer = None \/ reviewer.stage # flow.cur \/ reviewer.live) \in BOOLEAN
    BY DEF TypeInv, ReviewerTypes, Reviewers
  <2> QED
    BY <2>1, <2>2 DEF StartReview, Reviewers
<1>4. reviewer' # None
  BY <1>3, SessionAssumption
<1> QED
  BY <1>1, <1>2, <1>3, <1>4, ControlKept
     DEF StartReview, TypeInv, ControlTypes, AuthorTypes, ReviewerTypes, Quiet, AuthorGoesOn

LEMMA ReviewMessageEffect ==
  ASSUME TypeInv, ReviewMessage
  PROVE  TypeInv' /\ Quiet
<1>1. FlowTypes' /\ CountTypes' /\ TextsKept
  BY OnlySessionsTypes DEF ReviewMessage
<1>2. reviewer' \in Reviewers /\ reviewer' # None
  <2>1. reviewer \in Reviewers
    BY SessionFields DEF ReviewMessage
  <2> QED
    BY <2>1, SessionAssumption DEF ReviewMessage, Reviewers
<1> QED
  BY <1>1, <1>2, ControlKept
     DEF ReviewMessage, TypeInv, ControlTypes, AuthorTypes, ReviewerTypes, Quiet, AuthorGoesOn

LEMMA ReviewFailsEffect ==
  ASSUME TypeInv, ReviewFails
  PROVE  TypeInv' /\ Quiet
<1>1. FlowTypes' /\ CountTypes' /\ TextsKept
  BY OnlySessionsTypes DEF ReviewFails
<1>2. ctl' \in Controls /\ pc' \in {"off", "idle"} /\ ctl'.revisingSpec = ctl.revisingSpec
        /\ ctl'.revisionPending = ctl.revisionPending
  BY FailsReturn DEF ReviewFails, TypeInv, ControlTypes
<1> QED
  BY <1>1, <1>2
     DEF ReviewFails, TypeInv, ControlTypes, AuthorTypes, ReviewerTypes, Quiet, AuthorGoesOn

\* The prompt after a command of the review, with or without a choice to make.
LEMMA ChoiceReturns ==
  ASSUME TypeInv, NEW b \in BOOLEAN, Returns([ctl EXCEPT !.choice = b])
  PROVE  /\ ctl' \in Controls /\ pc' \in {"off", "idle"}
         /\ ctl'.revisingSpec = ctl.revisingSpec /\ ctl'.revisionPending = ctl.revisionPending
<1>1. /\ [ctl EXCEPT !.choice = b] \in Controls
      /\ [ctl EXCEPT !.choice = b].revisionPending = ctl.revisionPending
      /\ [ctl EXCEPT !.choice = b].revisingSpec = ctl.revisingSpec
  BY DEF Controls, TypeInv, ControlTypes
<1> QED
  BY <1>1, ReturnsTo

LEMMA ReviewRepliesEffect ==
  ASSUME TypeInv, ReviewReplies
  PROVE  TypeInv' /\ Quiet
<1>1. FlowTypes' /\ CountTypes' /\ TextsKept
  BY OnlySessionsTypes DEF ReviewReplies
<1>2. ctl' \in Controls /\ pc' \in {"off", "idle"} /\ ctl'.revisingSpec = ctl.revisingSpec
        /\ ctl'.revisionPending = ctl.revisionPending
  BY ChoiceReturns DEF ReviewReplies
<1> QED
  BY <1>1, <1>2
     DEF ReviewReplies, TypeInv, ControlTypes, AuthorTypes, ReviewerTypes, Quiet, AuthorGoesOn

LEMMA ReviewReportsEffect ==
  ASSUME TypeInv, Sessions, ReviewReports
  PROVE  TypeInv' /\ Quiet
<1>1. reviewer # None /\ reviewer \in Reviewers /\ reviewer.stage \in Stages
  BY SessionFields DEF Sessions, ReviewReports
<1>2. reviewer' \in Reviewers /\ reviewer' # None
  BY <1>1, SessionAssumption DEF ReviewReports, Reviewers
<1>3. CountTypes' /\ AuthorTypes' /\ AuthorGoesOn /\ UNCHANGED <<doc, docs>>
  BY DEF ReviewReports, TypeInv, CountTypes, Counts, AuthorTypes, AuthorGoesOn
<1>4. CASE Report(reviewer.stage, "running", None) /\ pc' = "candidate" /\ UNCHANGED ctl
  <2>1. FlowTypes' /\ TextsKept
    BY <1>1, <1>3, <1>4, ReportTypes DEF ReviewStatuses, Interrupted
  <2> QED
    BY <1>2, <1>3, <1>4, <2>1 DEF TypeInv, ControlTypes, ReviewerTypes, Quiet
<1>5. CASE FailsTo(ctl) /\ UNCHANGED flow
  <2>1. FlowTypes' /\ TextsKept
    BY <1>3, <1>5 DEF TypeInv, FlowTypes, TextsKept
  <2>2. ctl' \in Controls /\ pc' \in {"off", "idle"} /\ ctl'.revisingSpec = ctl.revisingSpec
          /\ ctl'.revisionPending = ctl.revisionPending
    BY <1>5, FailsReturn DEF TypeInv, ControlTypes
  <2> QED
    BY <1>2, <1>3, <2>1, <2>2 DEF TypeInv, ControlTypes, ReviewerTypes, Quiet
<1> QED
  BY <1>4, <1>5 DEF ReviewReports

LEMMA CandidateEffect ==
  ASSUME TypeInv, reviewer # None, NEW acc \in Prints, Candidate(reviewer, acc), UNCHANGED doc
  PROVE  FlowTypes' /\ TextsKept /\ ReviewerTypes' /\ reviewer' # None
<1>1. reviewer \in Reviewers /\ reviewer.stage \in Stages
  BY SessionFields
<1>2. Disposition(reviewer) \in ReviewStatuses
  BY DEF Disposition, ReviewStatuses, Interrupted
<1>3. FlowTypes' /\ TextsKept
  BY <1>1, <1>2, ReportTypes DEF Candidate
<1>4. reviewer' \in Reviewers
  <2>1. (Disposition(reviewer) = "completed") \in BOOLEAN
    OBVIOUS
  <2>2. \A b \in BOOLEAN : [reviewer EXCEPT !.terminal = b, !.drift = FALSE] \in Reviewers
    BY <1>1 DEF Reviewers
  <2> QED
    BY <2>1, <2>2 DEF Candidate
<1> QED
  BY <1>3, <1>4, SessionAssumption DEF ReviewerTypes

LEMMA ReviewConcludesEffect ==
  ASSUME TypeInv, Sessions, ReviewConcludes
  PROVE  TypeInv' /\ ((Quiet /\ op' = op) \/ (Begins("review") /\ reviewer' # None))
<1>1. reviewer # None /\ reviewer \in Reviewers /\ reviewer.print \in Prints
  BY SessionFields DEF Sessions, ReviewConcludes
<1>2. /\ CountTypes' /\ AuthorTypes' /\ AuthorGoesOn
      /\ UNCHANGED <<doc, docs>> /\ author' = author
  BY DEF ReviewConcludes, TypeInv, CountTypes, Counts, AuthorTypes, AuthorGoesOn
<1>3. ASSUME \/ Returns([ctl EXCEPT !.choice = FALSE]) \/ Returns([ctl EXCEPT !.choice = TRUE])
             \/ FailsTo(ctl)
      PROVE  /\ ctl' \in Controls /\ pc' \in {"off", "idle"}
             /\ ctl'.revisingSpec = ctl.revisingSpec
             /\ ctl'.revisionPending = ctl.revisionPending
  <2>1. CASE Returns([ctl EXCEPT !.choice = FALSE])
    BY <2>1, ChoiceReturns
  <2>2. CASE Returns([ctl EXCEPT !.choice = TRUE])
    BY <2>2, ChoiceReturns
  <2>3. CASE FailsTo(ctl)
    BY <2>3, FailsReturn DEF TypeInv, ControlTypes
  <2> QED
    BY <1>3, <2>1, <2>2, <2>3
<1>4. CASE /\ Candidate(reviewer, reviewer.print)
           /\ IF reviewer.rerun THEN Returns([ctl EXCEPT !.choice = FALSE]) /\ UNCHANGED op
              ELSE Committing("review", doc) /\ UNCHANGED ctl
  <2>1. FlowTypes' /\ TextsKept /\ ReviewerTypes' /\ reviewer' # None
    BY <1>1, <1>2, <1>4, CandidateEffect
  <2>2. CASE Returns([ctl EXCEPT !.choice = FALSE]) /\ UNCHANGED op
    BY <1>2, <1>3, <2>1, <2>2 DEF TypeInv, ControlTypes, Quiet
  <2>3. CASE Committing("review", doc) /\ UNCHANGED ctl
    BY <1>2, <2>1, <2>3 DEF TypeInv, ControlTypes, Begins, Committing
  <2> QED
    BY <1>4, <2>2, <2>3
<1>5. CASE /\ reviewer' = [reviewer EXCEPT !.drift = TRUE]
           /\ Returns([ctl EXCEPT !.choice = TRUE]) /\ UNCHANGED <<flow, op>>
  <2>1. FlowTypes' /\ TextsKept /\ ReviewerTypes'
    BY <1>1, <1>2, <1>5 DEF Reviewers, ReviewerTypes, TypeInv, FlowTypes, TextsKept
  <2> QED
    BY <1>2, <1>3, <1>5, <2>1 DEF TypeInv, ControlTypes, Quiet
<1>6. CASE FailsTo(ctl) /\ UNCHANGED <<flow, reviewer, op>>
  <2>1. FlowTypes' /\ TextsKept /\ ReviewerTypes'
    BY <1>2, <1>6 DEF TypeInv, ReviewerTypes, FlowTypes, TextsKept
  <2> QED
    BY <1>2, <1>3, <1>6, <2>1 DEF TypeInv, ControlTypes, Quiet
<1> QED
  BY <1>4, <1>5, <1>6 DEF ReviewConcludes

LEMMA AcceptPrintEffect ==
  ASSUME TypeInv, AcceptPrint
  PROVE  TypeInv' /\ Quiet
<1>1. reviewer # None /\ reviewer.stage \in Stages
  BY SessionFields DEF AcceptPrint, Choosing
<1>2. CountTypes' /\ AuthorTypes' /\ AuthorGoesOn /\ UNCHANGED <<doc, docs>>
  BY DEF AcceptPrint, TypeInv, CountTypes, Counts, AuthorTypes, AuthorGoesOn
<1>3. FlowTypes' /\ TextsKept /\ ReviewerTypes'
  BY <1>1, <1>2, CandidateEffect, PrintTypes DEF AcceptPrint
<1>4. ctl' \in Controls /\ pc' = "idle" /\ ctl'.revisingSpec = ctl.revisingSpec
        /\ ctl'.revisionPending = ctl.revisionPending
  BY ControlKept DEF AcceptPrint, Choosing, Undisturbed, Controls
<1> QED
  BY <1>2, <1>3, <1>4 DEF TypeInv, ControlTypes, Quiet

LEMMA RerunReviewEffect ==
  ASSUME TypeInv, RerunReview
  PROVE  TypeInv' /\ Quiet
<1>1. reviewer # None /\ reviewer \in Reviewers /\ Fingerprint(reviewer.stage) \in Prints
  BY SessionFields, PrintTypes DEF RerunReview, Choosing
<1>2. reviewer' \in Reviewers /\ reviewer' # None
  BY <1>1, SessionAssumption DEF RerunReview, Reviewers
<1>3. FlowTypes' /\ CountTypes' /\ TextsKept
  BY DEF RerunReview, TypeInv, FlowTypes, CountTypes, Counts, TextsKept
<1> QED
  BY <1>2, <1>3, ControlKept
     DEF RerunReview, TypeInv, ControlTypes, AuthorTypes, ReviewerTypes, Quiet, AuthorGoesOn

LEMMA ReworkAsksEffect ==
  ASSUME TypeInv, Sessions, ReworkAsks
  PROVE  TypeInv' /\ Begins("review") /\ reviewer' # None
<1>1. reviewer # None /\ reviewer.stage \in Stages /\ reviewer.print \in Prints
  BY SessionFields DEF ReworkAsks, Sessions
<1>2. CountTypes' /\ AuthorTypes' /\ ReviewerTypes' /\ UNCHANGED <<doc, docs, author, ctl>>
  BY DEF ReworkAsks, TypeInv, CountTypes, Counts, AuthorTypes, ReviewerTypes
<1>3. FlowTypes' /\ TextsKept
  BY <1>1, <1>2, ReportTypes DEF ReworkAsks, ReviewStatuses
<1> QED
  BY <1>1, <1>2, <1>3 DEF ReworkAsks, TypeInv, ControlTypes, Begins, Committing

LEMMA AbandonRevisionEffect ==
  ASSUME TypeInv, AbandonRevision
  PROVE  TypeInv' /\ Quiet
<1>1. FlowTypes' /\ CountTypes' /\ TextsKept
  BY OnlySessionsTypes DEF AbandonRevision
<1>2. ctl' \in Controls
  BY ControlKept DEF AbandonRevision, Controls
<1> QED
  BY <1>1, <1>2
     DEF AbandonRevision, Undisturbed, TypeInv, ControlTypes, AuthorTypes, ReviewerTypes, Quiet,
         AuthorGoesOn

Committed(s) == S(s).st = "committed"

LEMMA ReviseSpecEffect ==
  ASSUME TypeInv, ReviseSpec, flow.cur # "intent" => Committed("intent")
  PROVE  TypeInv' /\ Quiet
<1>1. FlowTypes' /\ CountTypes' /\ TextsKept
  BY OnlySessionsTypes DEF ReviseSpec
<1>2. ctl' \in Controls /\ pc' = "idle" /\ ctl'.revisionPending = ctl.revisionPending
  BY ControlKept DEF ReviseSpec, Undisturbed, Controls
<1>3. CASE AuthorOf("spec") /\ UNCHANGED <<author, reviewer>>
  BY <1>1, <1>2, <1>3
     DEF ReviseSpec, TypeInv, ControlTypes, AuthorTypes, ReviewerTypes, Quiet, AuthorGoesOn,
         AuthorOf
<1>4. CASE author' = NewAuthor("spec") /\ reviewer' = IF author = None THEN reviewer ELSE None
  <2>1. author' \in Authors /\ author'.stage = "spec" /\ author'.pending = 0
    BY <1>4, NewAuthorType DEF NewAuthor, Stages
  <2>2. Gate("spec")
    BY DEF Gate, Upstream, Committed, ReviseSpec
  <2> QED
    BY <1>1, <1>2, <1>4, <2>1, <2>2
       DEF ReviseSpec, TypeInv, ControlTypes, AuthorTypes, ReviewerTypes, Quiet, AuthorGoesOn
<1> QED
  BY <1>3, <1>4 DEF ReviseSpec

\* The fixes are agreed, and a checkpoint is made of that.
LEMMA ApplyReviewEffect ==
  ASSUME TypeInv, ApplyReview
  PROVE  TypeInv' /\ Begins("apply") /\ reviewer' # None
<1>1. reviewer # None /\ reviewer \in Reviewers /\ reviewer.stage \in Stages
        /\ reviewer.print \in Prints
  BY SessionFields DEF ApplyReview
<1>2. reviewer' \in Reviewers /\ reviewer' # None
  <2>1. [reviewer EXCEPT !.pend = FALSE, !.fix = TRUE] \in Reviewers
    BY <1>1 DEF Reviewers
  <2> QED
    BY <2>1, SessionAssumption DEF ApplyReview
<1>3. CountTypes' /\ UNCHANGED <<doc, docs, author>>
  BY DEF ApplyReview, TypeInv, CountTypes, Counts
<1>4. FlowTypes' /\ TextsKept
  BY <1>1, <1>3, ReportTypes DEF ApplyReview, ReviewStatuses, Interrupted
<1>5. ctl' \in Controls /\ ctl'.revisingSpec = ctl.revisingSpec
        /\ ctl'.revisionPending = ctl.revisionPending
  BY ControlKept DEF ApplyReview
<1> QED
  BY <1>2, <1>3, <1>4, <1>5
     DEF ApplyReview, TypeInv, ControlTypes, AuthorTypes, ReviewerTypes, Begins, Committing

\* An approval and a revised intent begin their phases; the latter gives both
\* sessions up.
LEMMA ApproveBegins ==
  ASSUME TypeInv, Approve
  PROVE  TypeInv' /\ Begins("approve")
<1>1. FlowTypes' /\ CountTypes' /\ TextsKept
  BY OnlySessionsTypes DEF Approve
<1> QED
  BY <1>1, ControlKept
     DEF Approve, TypeInv, ControlTypes, AuthorTypes, ReviewerTypes, Begins, Committing

LEMMA ReviseBegins ==
  ASSUME TypeInv, ReviseIntent
  PROVE  \/ IntentRefused /\ UNCHANGED op
         \/ /\ TypeInv' /\ Begins("revise") /\ author' = None
            /\ Changed = {"intent"}
<1>1. FlowTypes' /\ CountTypes' /\ TextsKept
  BY OnlySessionsTypes DEF ReviseIntent
<1>2. CASE Committing("revise", doc)
  BY <1>1, <1>2
     DEF ReviseIntent, IntentPending, EnginesClosed, TypeInv, ControlTypes, AuthorTypes,
         ReviewerTypes, Begins, Committing
<1>3. CASE UNCHANGED <<op, pc>>
  BY <1>3 DEF ReviseIntent, IntentRefused
<1> QED
  BY <1>2, <1>3 DEF ReviseIntent

LEMMA ResumeEffect ==
  ASSUME TypeInv, Sessions, Resume
  PROVE  /\ TypeInv' /\ TextsKept /\ UNCHANGED <<doc, docs>>
         /\ AuthorGoesOn
         /\ pc' \in {"off", "idle", "reread", "talk"}
         /\ pc' = "reread" => author' # None /\ author'.pending = 0
         /\ pc' = "talk" => author' # None /\ author'.stage = flow.cur /\ Cur.st = "drafting"
         /\ ctl'.revisingSpec = ctl.revisingSpec /\ ctl'.revisionPending = ctl.revisionPending
<1>1. /\ [ctl EXCEPT !.mode = "open"] \in Controls
      /\ [ctl EXCEPT !.mode = "open"].revisingSpec = ctl.revisingSpec
      /\ [ctl EXCEPT !.mode = "open"].revisionPending = ctl.revisionPending
  BY DEF TypeInv, ControlTypes, Controls
<1>2. CountTypes' /\ UNCHANGED <<doc, docs>>
  BY DEF Resume, TypeInv, CountTypes, Counts
<1>3. FlowTypes' /\ TextsKept
  <2>1. CASE flow' = flow
    BY <1>2, <2>1 DEF TypeInv, FlowTypes, TextsKept
  <2>2. CASE flow' = [flow EXCEPT !.stages[flow.cur].review = "escalated"]
    <3>1. flow.cur \in Stages /\ flow.stages[flow.cur] \in StageType
      BY DEF TypeInv, FlowTypes
    <3> DEFINE x == [flow.stages[flow.cur] EXCEPT !.review = "escalated"]
    <3>2. /\ x \in StageType /\ x.st = flow.stages[flow.cur].st
          /\ x.cur = flow.stages[flow.cur].cur /\ x.up = flow.stages[flow.cur].up
      BY <3>1 DEF StageType, ReviewStatuses
    <3>3. flow' = [flow EXCEPT !.stages[flow.cur] = x]
      BY <2>2
    <3> HIDE DEF x
    <3> QED
      BY <1>2, <3>1, <3>2, <3>3, StageReplaced DEF FlowTypes, TypeInv, TextsKept
  <2> QED
    BY <2>1, <2>2 DEF Resume, Recovered
<1>4. StartCurrentStage([ctl EXCEPT !.mode = "open"])
  BY DEF Resume
<1> QED
  BY <1>1, <1>2, <1>3, <1>4, StartEffect DEF TypeInv, ControlTypes

\* A stage has a text when it is published or approved, and only then.
TextOfState ==
    \A s \in Stages : /\ S(s).cur = 0 <=> S(s).st \in {"not_started", "drafting"}
                      /\ S(s).cur = 0 <=> doc[s] = 0

\* No version is in use before it is given out, and a spec or a plan that the
\* state does not know is newer than every text it knows.
Newer ==
    /\ \A s \in Stages : doc[s] <= docs /\ S(s).cur <= docs
    /\ \A s \in Stages \ {"intent"}, t \in Stages : doc[s] # S(s).cur => doc[s] > S(t).cur

\* The text of a stage is newer than the upstream texts it was written for.
Fresh ==
    \A s \in Stages : \A t \in Upstream(s) : S(s).cur # 0 => S(s).cur > S(s).up[t]

\* The flow and the author leave the intent once it is approved, and its author
\* writes no more.
IntentFirst ==
    /\ flow.cur # "intent" => Committed("intent")
    /\ ~Committed("intent") => S("spec").cur = 0
    /\ author # None => /\ author.stage # "intent" => Committed("intent")
                        /\ author.pending # 0 /\ author.stage = "intent" => ~Committed("intent")
    /\ pc \in {"talk", "apply", "publish"} /\ author.stage = "intent" => ~Committed("intent")

\* A draft that waits belongs to a published stage.  It is newer than the texts
\* of the other stages, and it may be in place already when its checkpoint has
\* failed.
PendingNewer ==
    author # None =>
       (author.pending # 0 => /\ author.pending <= docs
                              /\ S(author.stage).cur # 0
                              /\ author.pending >= S(author.stage).cur
                              /\ \A t \in Stages \ {author.stage} : author.pending > S(t).cur)

\* While the spec is revised a draft that waits is one of the spec.
RevisingSpec ==
    ctl.revisingSpec =>
       /\ author # None => (author.pending # 0 => author.stage = "spec")
       /\ pc = "talk" => author.stage = "spec" \/ S(author.stage).cur = 0

\* The spec about to return to the flow is newer than the intent.
Activating ==
    pc = "activate" => author.stage = "spec" /\ S("spec").cur > S("intent").cur

\* An operation is in progress, or was left by a crash with the author gone.
OpPlaces ==
    /\ op # None => pc \in {"publish", "commit", "off"}
    /\ pc \in {"publish", "commit"} => op # None
    /\ op # None /\ pc = "off" => author = None

\* The documents an operation found could be those of now.
OpTexts ==
    op # None =>
       /\ \A s \in Stages : op.doc[s] <= docs /\ (S(s).cur = 0 <=> op.doc[s] = 0)
       /\ \A s \in Stages \ {"intent"}, t \in Stages :
             op.doc[s] # S(s).cur => op.doc[s] > S(t).cur

\* A publication began over undisturbed documents; its text is newer than the
\* texts of the other stages, and what is saved during it is newer still.
Publication ==
    pc = "publish" =>
       /\ author # None
       /\ op.kind \in {"turn", "applied", "rework"}
       /\ author.pending = IF op.kind = "applied" THEN op.text ELSE 0
       /\ op.kind = "rework" => reviewer # None
       /\ op.text > 0 /\ op.text <= docs
       /\ \A s \in Stages : /\ op.doc[s] = S(s).cur
                            /\ s # author.stage => op.text > S(s).cur
                            /\ doc[s] = S(s).cur \/ doc[s] > op.text

\* What each phase goes back to is still there, and what an approval or a
\* revised intent rests on stays true until its commit is made.
Phase ==
    op # None /\ pc # "publish" =>
       /\ pc = "commit" =>
             /\ op.kind = "turn" => author # None /\ author.pending = 0
             /\ op.kind = "applied" =>
                   author # None /\ author.pending # 0 /\ S(author.stage).cur = author.pending
             /\ op.kind \in {"rework", "review", "apply"} => reviewer # None
       /\ op.kind = "approve" =>
             /\ Cur.st = "published" /\ UpstreamApproved(flow.cur) /\ ReviewSettled(flow.cur)
             /\ \A s \in Stages : op.doc[s] = S(s).cur
       /\ op.kind = "revise" =>
             /\ author = None /\ op.doc["intent"] # S("intent").cur
             /\ \A s \in Stages \ {"intent"} :
                   op.doc[s] = S(s).cur /\ (doc[s] = S(s).cur \/ doc[s] > op.doc["intent"])

TextInv == TextOfState /\ Newer /\ Fresh
FlowInv == IntentFirst /\ PendingNewer /\ RevisingSpec /\ Activating
OpInv   == OpPlaces /\ OpTexts /\ Publication /\ Phase
SpecInv ==
    /\ TypeInv /\ OperationTypes /\ Sessions
    /\ TextInv /\ FlowInv /\ OpInv
    /\ PendingIsOffered

LEMMA NoOperation ==
  ASSUME op' = None, pc' \notin {"publish", "commit"}
  PROVE  OperationTypes' /\ OpInv'
BY DEF OperationTypes, OpInv, OpPlaces, OpTexts, Publication, Phase

\* Between two operations there is none.
LEMMA AtRest ==
  ASSUME SpecInv, pc \notin {"publish", "commit", "off"}
  PROVE  op = None
BY DEF SpecInv, OpInv, OpPlaces

\* What is typed about the texts and the versions.
LEMMA Numbers ==
  ASSUME TypeInv
  PROVE  /\ Versions \subseteq Nat /\ docs \in Nat
         /\ \A s \in Stages : doc[s] \in Nat /\ S(s).cur \in Nat
         /\ \A s, t \in Stages : S(s).up[t] \in Nat
<1>1. Versions \subseteq Nat
  BY BoundsAssumption DEF Versions
<1>2. docs \in Nat /\ \A s \in Stages : doc[s] \in Nat
  BY <1>1 DEF TypeInv, FlowTypes, CountTypes, Prints
<1>3. \A s \in Stages : S(s) \in StageType
  BY DEF TypeInv, FlowTypes, S
<1>4. \A s \in Stages : S(s).cur \in Versions /\ S(s).up \in Prints
  BY <1>3 DEF StageType
<1> QED
  BY <1>1, <1>2, <1>4 DEF Prints

LEMMA UpstreamStages == \A s \in Stages : Upstream(s) \subseteq Stages /\ s \notin Upstream(s)
  BY DEF Stages, Upstream

LEMMA InitialInv == Init => SpecInv
<1> SUFFICES ASSUME Init PROVE SpecInv
  OBVIOUS
<1>1. \A s \in Stages : S(s) = NewStage(IF s = "intent" THEN "drafting" ELSE "not_started")
  BY DEF Init, S
<1>2. NewStage("drafting") \in StageType /\ NewStage("not_started") \in StageType
  BY ZeroVersion DEF NewStage, StageType, Prints, ReviewStatuses, Interrupted
<1>3. TypeInv
  <2>1. FlowTypes
    BY <1>2, ZeroVersion DEF Init, FlowTypes, Prints, Stages
  <2>2. AuthorTypes /\ ReviewerTypes
    BY NewAuthorType DEF Init, AuthorTypes, ReviewerTypes, Stages
  <2>3. ControlTypes
    BY NewControlType DEF Init, ControlTypes, Controls
  <2>4. CountTypes
    BY BoundsAssumption DEF Init, CountTypes, Versions
  <2> QED
    BY <2>1, <2>2, <2>3, <2>4 DEF TypeInv
<1>4. author # None /\ author.pending = 0 /\ author.stage = "intent" /\ pc = "talk"
        /\ ctl.revisingSpec = FALSE
  BY NewAuthorType DEF Init, NewAuthor, NewControl, Stages
<1>5. \A s \in Stages : S(s).cur = 0 /\ S(s).st \in {"not_started", "drafting"}
                         /\ doc[s] = 0
  BY <1>1 DEF NewStage, Init
<1>6. docs = 0 /\ flow.cur = "intent"
  BY DEF Init
<1>7. TextInv
  BY <1>5, <1>6 DEF TextInv, TextOfState, Newer, Fresh
<1>8. FlowInv /\ Sessions /\ PendingIsOffered
  BY <1>4, <1>5, <1>6
     DEF FlowInv, IntentFirst, PendingNewer, RevisingSpec, Activating, Sessions,
         PendingIsOffered, Committed, Stages
<1>9. OperationTypes /\ OpInv
  BY <1>4 DEF Init, OperationTypes, OpInv, OpPlaces, OpTexts, Publication, Phase
<1> QED
  BY <1>3, <1>7, <1>8, <1>9 DEF SpecInv

(***************************************************************************)
(* Quiet steps                                                             *)
(***************************************************************************)
LEMMA TextsStay ==
  ASSUME TypeInv, TextInv, TextsKept, UNCHANGED <<doc, docs>>
  PROVE  TextInv'
<1>1. \A s \in Stages : S(s)'.cur = S(s).cur /\ S(s)'.st = S(s).st /\ S(s)'.up = S(s).up
  BY DEF TextsKept, S
<1> QED
  BY <1>1, UpstreamStages DEF TextInv, TextOfState, Newer, Fresh

LEMMA QuietSafe ==
  ASSUME SpecInv, TypeInv', Quiet, op' = None
  PROVE  SpecInv'
<1>1. TextInv'
  BY TextsStay DEF SpecInv, Quiet
<1>2. \A s \in Stages : S(s)'.cur = S(s).cur /\ S(s)'.st = S(s).st
  BY DEF Quiet, TextsKept, S
<1>3. Committed("intent")' <=> Committed("intent")
  BY <1>2 DEF Committed, Stages
<1>4. author # None => author.stage \in Stages
  BY SessionFields DEF SpecInv
<1>5. author' # None =>
        \/ /\ author # None /\ author'.stage = author.stage
           /\ author'.pending \in {0, author.pending}
        \/ author'.pending = 0 /\ (author'.stage # "intent" => Committed("intent"))
  <2>1. ASSUME author' # None, author'.stage # "intent", Gate(author'.stage)
        PROVE  Committed("intent")
    <3>1. author'.stage \in Stages
      BY <2>1 DEF TypeInv, AuthorTypes, Authors
    <3> QED
      BY <2>1, <3>1 DEF Gate, Upstream, Stages, Committed
  <2> QED
    BY <2>1 DEF Quiet, AuthorGoesOn
<1>6. Sessions'
  BY DEF Quiet, Sessions
<1>7. PendingIsOffered'
  BY <1>5 DEF Quiet, SpecInv, PendingIsOffered
<1>8. IntentFirst'
  BY <1>2, <1>3, <1>5 DEF Quiet, TextsKept, SpecInv, FlowInv, IntentFirst, Stages
<1>9. PendingNewer'
  BY <1>2, <1>4, <1>5 DEF Quiet, SpecInv, FlowInv, PendingNewer
<1>10. RevisingSpec'
  BY <1>5 DEF Quiet, SpecInv, FlowInv, RevisingSpec
<1>11. Activating'
  BY DEF Quiet, Activating
<1>12. OperationTypes' /\ OpInv'
  BY NoOperation DEF Quiet
<1> QED
  BY <1>1, <1>6, <1>7, <1>8, <1>9, <1>10, <1>11, <1>12 DEF SpecInv, FlowInv

\* A phase that begins over the documents as they are.
LEMMA PhaseBegins ==
  ASSUME SpecInv, TypeInv', NEW k \in Kinds, Begins(k), Phase'
  PROVE  SpecInv'
<1>1. \A s \in Stages : S(s)'.cur = S(s).cur /\ S(s)'.st = S(s).st /\ S(s)'.up = S(s).up
  BY DEF Begins, TextsKept, S
<1>2. TextInv'
  BY TextsStay DEF SpecInv, Begins
<1>3. /\ op' = [kind |-> k, doc |-> doc, text |-> 0] /\ pc' = "commit"
      /\ doc' = doc /\ docs' = docs
  BY DEF Begins, Committing
<1>4. OperationTypes' /\ op' # None
  <2>1. op' \in Operations
    BY <1>3, ZeroVersion DEF Operations, SpecInv, TypeInv, FlowTypes
  <2> QED
    BY <2>1, SessionAssumption DEF OperationTypes
<1>5. OpTexts'
  BY <1>1, <1>3 DEF OpTexts, SpecInv, TextInv, TextOfState, Newer
<1>6. OpInv'
  BY <1>3, <1>4, <1>5 DEF OpInv, OpPlaces, Publication
<1>7. author' # None => author' = author
  BY DEF Begins
<1>8. IntentFirst'
  BY <1>1, <1>3, <1>7 DEF Begins, TextsKept, SpecInv, FlowInv, IntentFirst, Committed, Stages
<1>9. PendingNewer'
  <2>1. author # None => author.stage \in Stages
    BY SessionFields DEF SpecInv
  <2> QED
    BY <1>1, <1>3, <1>7, <2>1 DEF SpecInv, FlowInv, PendingNewer
<1>10. RevisingSpec' /\ Activating' /\ PendingIsOffered' /\ Sessions'
  BY <1>3, <1>7
     DEF Begins, SpecInv, FlowInv, RevisingSpec, Activating, PendingIsOffered, Sessions
<1> QED
  BY <1>2, <1>4, <1>6, <1>8, <1>9, <1>10 DEF SpecInv, FlowInv

\* A publication that begins over undisturbed documents.
LEMMA PublicationBegins ==
  ASSUME SpecInv, TypeInv', NEW k \in {"turn", "applied", "rework"}, NEW v \in Versions,
         Publishing(k, v), Changed = {}, UNCHANGED <<flow, doc, author, reviewer>>,
         author # None, v > 0, v <= docs', docs <= docs',
         author.pending = (IF k = "applied" THEN v ELSE 0),
         k = "rework" => reviewer # None,
         \A t \in Stages \ {author.stage} : v > S(t).cur,
         author.stage = "intent" => ~Committed("intent"),
         ctl'.revisingSpec = ctl.revisingSpec, ctl'.revisionPending = ctl.revisionPending
  PROVE  SpecInv'
<1>1. /\ \A s \in Stages : S(s)' = S(s) /\ doc[s] = S(s).cur /\ S(s).cur \in Nat
      /\ docs \in Nat /\ docs' \in Nat /\ v \in Nat
      /\ doc' = doc /\ author' = author /\ flow'.cur = flow.cur
  BY Numbers DEF S, Changed, SpecInv, TypeInv, CountTypes
<1>2. op' = [kind |-> k, doc |-> doc, text |-> v] /\ pc' = "publish"
  BY DEF Publishing
<1>3. OperationTypes' /\ op' # None
  <2>1. op' \in Operations
    BY <1>2 DEF Operations, Kinds, SpecInv, TypeInv, FlowTypes
  <2> QED
    BY <2>1, SessionAssumption DEF OperationTypes
<1>4. TextInv'
  BY <1>1, UpstreamStages DEF SpecInv, TextInv, TextOfState, Newer, Fresh
<1>5. OpTexts'
  BY <1>1, <1>2 DEF OpTexts, SpecInv, TextInv, TextOfState, Newer
<1>6. Publication'
  BY <1>1, <1>2 DEF Publication
<1>7. OpInv'
  BY <1>2, <1>3, <1>5, <1>6 DEF OpInv, OpPlaces, Phase
<1>8. IntentFirst'
  BY <1>1 DEF SpecInv, FlowInv, IntentFirst, Committed, Stages
<1>9. PendingNewer'
  <2>1. author.stage \in Stages /\ author.pending \in Nat
    BY SessionFields, Numbers DEF SpecInv
  <2> QED
    BY <1>1, <2>1 DEF SpecInv, FlowInv, PendingNewer
<1>10. RevisingSpec' /\ Activating' /\ PendingIsOffered' /\ Sessions'
  BY <1>1, <1>2 DEF SpecInv, FlowInv, RevisingSpec, Activating, PendingIsOffered, Sessions
<1> QED
  BY <1>3, <1>4, <1>7, <1>8, <1>9, <1>10 DEF SpecInv, FlowInv

\* The text is in place and its checkpoint begins.
LEMMA PublishEffect ==
  ASSUME SpecInv, Publish
  PROVE  /\ TypeInv' /\ OperationTypes' /\ op' # None
         /\ author # None /\ author' # None
         /\ author'.stage = author.stage /\ author'.pending = author.pending
         /\ flow'.cur = flow.cur
         /\ \A t \in Stages \ {author.stage} : S(t)' = S(t) /\ doc'[t] = doc[t]
         /\ S(author.stage)'.st = "published" /\ S(author.stage)'.cur = op.text
         /\ S(author.stage)'.up = UpHashes(op.doc, author.stage)
         /\ doc'[author.stage] = op.text
         /\ op'.kind = op.kind /\ op'.doc = doc' /\ pc' = "commit"
         /\ UNCHANGED <<reviewer, ctl, docs>>
<1> DEFINE s == author.stage
           texts == [doc EXCEPT ![s] = op.text]
<1>1. author # None /\ author \in Authors /\ s \in Stages /\ op # None /\ op \in Operations
  BY SessionFields
     DEF Publish, SpecInv, OpInv, OpPlaces, Publication, OperationTypes
<1>2. op.text \in Versions /\ op.doc \in Prints /\ op.kind \in Kinds
  BY <1>1 DEF Operations
<1>3. UpHashes(op.doc, s) \in Prints
  BY <1>1, <1>2, ZeroVersion DEF UpHashes, Prints
<1>4. /\ texts \in Prints /\ texts[s] = op.text
      /\ \A t \in Stages \ {s} : texts[t] = doc[t]
  BY <1>1, <1>2 DEF SpecInv, TypeInv, FlowTypes, Prints
<1>5. /\ op' = [kind |-> op.kind, doc |-> texts, text |-> 0] /\ pc' = "commit" /\ doc' = texts
      /\ UNCHANGED <<reviewer, ctl, docs, Counts>>
  BY DEF Publish, Committing
<1>6. op' \in Operations
  BY <1>2, <1>4, <1>5, ZeroVersion DEF Operations
<1>7. author' \in Authors /\ author'.stage = s /\ author'.pending = author.pending
  <2>1. /\ [author EXCEPT !.rework = FALSE] \in Authors
        /\ [author EXCEPT !.rework = FALSE].stage = author.stage
        /\ [author EXCEPT !.rework = FALSE].pending = author.pending
    BY <1>1 DEF Authors
  <2> QED
    BY <1>1, <2>1 DEF Publish
<1>8. PICK r \in ReviewStatuses :
         flow' = [flow EXCEPT !.stages[s] =
                    [@ EXCEPT !.st = "published", !.cur = op.text, !.up = UpHashes(op.doc, s),
                              !.review = r]]
  <2>1. flow.stages[s] \in StageType
    BY <1>1 DEF SpecInv, TypeInv, FlowTypes
  <2>2. flow.stages[s].review \in ReviewStatuses /\ "not_started" \in ReviewStatuses
    BY <2>1 DEF StageType, ReviewStatuses
  <2> QED
    BY <1>1, <2>2 DEF Publish, S
<1> DEFINE x == [flow.stages[s] EXCEPT !.st = "published", !.cur = op.text,
                                       !.up = UpHashes(op.doc, s), !.review = r]
<1>9. /\ x \in StageType /\ x.st = "published" /\ x.cur = op.text
      /\ x.up = UpHashes(op.doc, s)
  <2>1. flow.stages[s] \in StageType
    BY <1>1 DEF SpecInv, TypeInv, FlowTypes
  <2> QED
    BY <1>2, <1>3, <2>1 DEF StageType
<1>10. flow' = [flow EXCEPT !.stages[s] = x]
  BY <1>8
<1> HIDE DEF x, texts
<1>11. /\ flow' \in [cur : Stages, stages : [Stages -> StageType]]
       /\ flow'.cur = flow.cur /\ flow'.stages[s] = x
       /\ \A t \in Stages \ {s} : flow'.stages[t] = flow.stages[t]
  BY <1>1, <1>9, <1>10, StageReplaced DEF SpecInv
<1>12. TypeInv'
  BY <1>4, <1>5, <1>7, <1>11
     DEF SpecInv, TypeInv, FlowTypes, AuthorTypes, ReviewerTypes, ControlTypes, CountTypes, Counts
<1>13. op' # None /\ author' # None /\ OperationTypes'
  BY <1>6, <1>7, SessionAssumption DEF OperationTypes
<1>14. S(s)' = x /\ \A t \in Stages \ {s} : S(t)' = S(t)
  BY <1>7, <1>11 DEF S
<1>15. op'.kind = op.kind /\ op'.doc = doc'
  BY <1>5
<1>16. UNCHANGED <<reviewer, ctl, docs>>
  BY <1>5
<1> QED
  BY <1>1, <1>4, <1>5, <1>7, <1>9, <1>11, <1>12, <1>13, <1>14, <1>15, <1>16

LEMMA PublishSafe ==
  ASSUME SpecInv, Publish
  PROVE  SpecInv'
<1> SUFFICES ASSUME NEW s, s = author.stage, NEW v, v = op.text PROVE SpecInv'
  OBVIOUS
<1>1. /\ TypeInv' /\ OperationTypes' /\ op' # None
      /\ author # None /\ author' # None
      /\ author'.stage = s /\ author'.pending = author.pending
      /\ flow'.cur = flow.cur
      /\ \A t \in Stages \ {s} : S(t)' = S(t) /\ doc'[t] = doc[t]
      /\ S(s)'.st = "published" /\ S(s)'.cur = v
      /\ S(s)'.up = UpHashes(op.doc, s)
      /\ doc'[s] = v
      /\ op'.kind = op.kind /\ op'.doc = doc' /\ pc' = "commit"
      /\ UNCHANGED <<reviewer, ctl, docs>>
  BY PublishEffect
<1>2. /\ op.kind \in {"turn", "applied", "rework"}
      /\ author.pending = (IF op.kind = "applied" THEN v ELSE 0)
      /\ op.kind = "rework" => reviewer # None
      /\ v > 0 /\ v <= docs
      /\ \A t \in Stages : /\ op.doc[t] = S(t).cur
                           /\ t # s => v > S(t).cur
                           /\ doc[t] = S(t).cur \/ doc[t] > v
  BY DEF Publish, SpecInv, OpInv, Publication
<1>3. /\ s \in Stages /\ docs \in Nat /\ v \in Nat
      /\ \A t \in Stages : doc[t] \in Nat /\ S(t).cur \in Nat
  <2>1. op \in Operations
    BY DEF Publish, SpecInv, OpInv, OpPlaces, OperationTypes
  <2> QED
    BY <1>1, <2>1, SessionFields, Numbers DEF SpecInv, Operations
<1>4. TextOfState'
  BY <1>1, <1>2, <1>3 DEF SpecInv, TextInv, TextOfState
<1>5. Newer'
  <2>1. \A t \in Stages : doc'[t] <= docs' /\ S(t)'.cur <= docs'
    BY <1>1, <1>2, <1>3 DEF SpecInv, TextInv, Newer
  <2>2. ASSUME NEW q \in Stages \ {"intent"}, NEW t \in Stages, doc'[q] # S(q)'.cur
        PROVE  doc'[q] > S(t)'.cur
    <3>1. q # s /\ doc'[q] = doc[q] /\ doc[q] # S(q).cur
      BY <1>1, <2>2
    <3>2. doc[q] > v /\ doc[q] > S(t).cur
      BY <1>2, <2>2, <3>1 DEF SpecInv, TextInv, Newer
    <3> QED
      BY <1>1, <3>1, <3>2
  <2> QED
    BY <2>1, <2>2 DEF Newer
<1>6. Fresh'
  <2>1. \A t \in Upstream(s) : UpHashes(op.doc, s)[t] = S(t).cur /\ t # s /\ t \in Stages
    BY <1>2, <1>3, UpstreamStages DEF UpHashes
  <2>2. \A t \in Upstream(s) : S(s)'.cur > S(s)'.up[t]
    BY <1>1, <1>2, <2>1
  <2> QED
    BY <1>1, <2>2 DEF SpecInv, TextInv, Fresh
<1>7. IntentFirst'
  <2>1. CASE s = "intent"
    <3>1. flow.cur = "intent" /\ S("spec").cur = 0
      BY <1>1, <2>1 DEF Publish, SpecInv, FlowInv, IntentFirst
    <3>2. ~Committed("intent")' /\ S("spec")'.cur = 0
      BY <1>1, <2>1, <3>1 DEF Committed, Stages
    <3> QED
      BY <1>1, <2>1, <3>1, <3>2 DEF IntentFirst
  <2>2. CASE s # "intent"
    <3>1. Committed("intent")'
      BY <1>1, <2>2 DEF SpecInv, FlowInv, IntentFirst, Committed, Stages
    <3> QED
      BY <1>1, <2>2, <3>1 DEF IntentFirst
  <2> QED
    BY <2>1, <2>2
<1>8. PendingNewer'
  BY <1>1, <1>2, <1>3 DEF PendingNewer
<1>9. RevisingSpec' /\ Activating' /\ Sessions' /\ PendingIsOffered'
  BY <1>1 DEF SpecInv, FlowInv, RevisingSpec, Activating, Sessions, PendingIsOffered
<1>10. OpTexts'
  BY <1>1, <1>4, <1>5 DEF OpTexts, TextOfState, Newer
<1>11. Phase'
  <2>1. op.kind \notin {"approve", "revise", "review", "apply"}
    BY <1>2
  <2>2. /\ op.kind = "turn" => author.pending = 0
        /\ op.kind = "applied" => author.pending = v /\ v # 0
    BY <1>2, <1>3
  <2> QED
    BY <1>1, <1>2, <2>1, <2>2 DEF Phase
<1>12. OpInv'
  BY <1>1, <1>10, <1>11 DEF OpInv, OpPlaces, Publication
<1> QED
  BY <1>1, <1>4, <1>5, <1>6, <1>7, <1>8, <1>9, <1>12 DEF SpecInv, TextInv, FlowInv

LEMMA AuthorDraftsSafe ==
  ASSUME SpecInv, AuthorDrafts
  PROVE  SpecInv'
<1>1. author # None /\ author \in Authors /\ author.stage \in Stages /\ author.pending = 0
        /\ (author.stage = "intent" => ~Committed("intent"))
        /\ (ctl.revisingSpec => author.stage = "spec" \/ S(author.stage).cur = 0)
  BY SessionFields DEF SpecInv, Sessions, AuthorDrafts, FlowInv, IntentFirst, RevisingSpec
<1>2. docs + 1 \in Versions /\ docs \in Nat /\ docs' = docs + 1
  BY NextVersion DEF SpecInv, AuthorDrafts, DraftTaken
<1>3. CountTypes' /\ ReviewerTypes' /\ UNCHANGED <<flow, doc, reviewer>>
  BY <1>2 DEF AuthorDrafts, Counts, SpecInv, TypeInv, CountTypes, ReviewerTypes
<1>4. ctl \in Controls
  BY DEF SpecInv, TypeInv, ControlTypes
<1>5. \A t \in Stages : S(t)' = S(t) /\ S(t).cur \in Nat /\ doc[t] \in Nat /\ docs + 1 > S(t).cur
  BY <1>2, <1>3, Numbers DEF S, SpecInv, TextInv, Newer
<1>6. CASE Publishing("turn", docs + 1) /\ UNCHANGED <<author, ctl>>
  <2>1. TypeInv'
    BY <1>3, <1>6
       DEF SpecInv, TypeInv, FlowTypes, AuthorTypes, ControlTypes, Publishing
  <2> QED
    BY <1>1, <1>2, <1>3, <1>5, <1>6, <2>1, PublicationBegins DEF AuthorDrafts, DraftTaken
<1>7. CASE /\ doc[author.stage] # 0
           /\ author' = [author EXCEPT !.pending = docs + 1]
           /\ Returns([ctl EXCEPT !.revisionPending = TRUE])
           /\ UNCHANGED op
  <2>1. author' \in Authors /\ author'.stage = author.stage /\ author'.pending = docs + 1
    BY <1>1, <1>2, <1>7 DEF Authors
  <2>2. ctl' \in Controls /\ pc' \in {"off", "idle"} /\ ctl'.revisingSpec = ctl.revisingSpec
          /\ ctl'.revisionPending
    <3>1. /\ [ctl EXCEPT !.revisionPending = TRUE] \in Controls
          /\ [ctl EXCEPT !.revisionPending = TRUE].revisingSpec = ctl.revisingSpec
          /\ [ctl EXCEPT !.revisionPending = TRUE].revisionPending
      BY <1>4 DEF Controls
    <3> QED
      BY <1>7, <3>1, ReturnsTo
  <2>3. TypeInv'
    BY <1>3, <1>7, <2>1, <2>2 DEF TypeInv, AuthorTypes, ControlTypes, FlowTypes, SpecInv
  <2>4. S(author.stage).cur # 0
    BY <1>1, <1>7 DEF AuthorDrafts, DraftTaken, Changed
  <2>5. TextInv'
    BY <1>2, <1>3, <1>5, UpstreamStages DEF SpecInv, TextInv, TextOfState, Newer, Fresh
  <2>6. PendingNewer'
    BY <1>1, <1>2, <1>5, <2>1, <2>4 DEF SpecInv, TextInv, Newer, PendingNewer
  <2>7. IntentFirst' /\ RevisingSpec' /\ Activating'
    BY <1>1, <1>3, <1>5, <2>1, <2>2, <2>4, SessionAssumption
       DEF SpecInv, FlowInv, IntentFirst, RevisingSpec, Activating, Committed, Stages
  <2>8. Sessions' /\ PendingIsOffered'
    BY <2>2 DEF Sessions, PendingIsOffered
  <2>9. OperationTypes' /\ OpInv'
    BY <1>7, <2>2, AtRest, NoOperation DEF AuthorDrafts
  <2> QED
    BY <2>3, <2>5, <2>6, <2>7, <2>8, <2>9 DEF SpecInv, FlowInv
<1> QED
  BY <1>6, <1>7 DEF AuthorDrafts

LEMMA ReworkPublishedSafe ==
  ASSUME SpecInv, ReworkPublished
  PROVE  SpecInv'
<1>1. author # None /\ author.stage \in Stages /\ author.pending = 0
        /\ (author.stage = "intent" => ~Committed("intent"))
        /\ reviewer # None
  BY SessionFields DEF SpecInv, Sessions, ReworkPublished, FlowInv, IntentFirst
<1>2. docs + 1 \in Versions /\ docs \in Nat /\ docs' = docs + 1
  BY NextVersion DEF SpecInv, ReworkPublished, DraftTaken
<1>3. TypeInv'
  BY <1>2
     DEF ReworkPublished, Publishing, Counts, SpecInv, TypeInv, FlowTypes, AuthorTypes,
         ReviewerTypes, ControlTypes, CountTypes
<1>4. \A t \in Stages : S(t).cur \in Nat /\ docs + 1 > S(t).cur
  BY <1>2, Numbers DEF SpecInv, TextInv, Newer
<1> QED
  BY <1>1, <1>2, <1>3, <1>4, PublicationBegins DEF ReworkPublished, DraftTaken

\* A draft that waited is published over the text it revises.
LEMMA ApplyRevisionSafe ==
  ASSUME SpecInv, ApplyRevision
  PROVE  SpecInv'
<1>1. author # None /\ author.stage \in Stages /\ author.pending \in Versions
        /\ author.pending # 0 /\ Changed = {} /\ pc = "idle"
  BY SessionFields DEF SpecInv, ApplyRevision, Deciding, Undisturbed
<1>2. /\ author.pending <= docs /\ \A t \in Stages \ {author.stage} : author.pending > S(t).cur
      /\ author.stage = "intent" => ~Committed("intent")
  BY <1>1 DEF SpecInv, FlowInv, PendingNewer, IntentFirst
<1>3. TypeInv'
  BY ControlKept
     DEF ApplyRevision, Publishing, Counts, SpecInv, TypeInv, FlowTypes, AuthorTypes,
         ReviewerTypes, ControlTypes, CountTypes
<1>4. author.pending > 0 /\ docs \in Nat
  BY <1>1, Numbers DEF SpecInv
<1>5. ctl'.revisingSpec = ctl.revisingSpec /\ ctl'.revisionPending = ctl.revisionPending
  BY ControlKept DEF ApplyRevision, SpecInv
<1> QED
  BY <1>1, <1>2, <1>3, <1>4, <1>5, PublicationBegins DEF ApplyRevision

\* A changed document is accepted as the text of its stage, to which the flow
\* moves.
LEMMA ChangeAccepted ==
  ASSUME SpecInv, TypeInv', NEW s \in Stages, Accepted(s), UNCHANGED <<doc, docs>>,
         s # "intent", author # None, author.stage = s, author.pending = 0,
         Changed \subseteq {s}, \A t \in Upstream(s) : doc[s] > doc[t], doc[s] > 0,
         author' # None => author'.stage = s /\ author'.pending = 0,
         pc' \in {"off", "idle"}, op' = None
  PROVE  SpecInv'
<1>1. /\ flow'.cur = s
      /\ \A t \in Stages \ {s} : flow'.stages[t] = flow.stages[t]
      /\ flow'.stages[s].st = "published" /\ flow'.stages[s].cur = doc[s]
      /\ flow'.stages[s].up = UpHashes(doc, s)
  BY AcceptedTypes DEF SpecInv
<1>2. /\ \A t \in Stages \ {s} : S(t)' = S(t) /\ doc[t] = S(t).cur
      /\ S(s)'.st = "published" /\ S(s)'.cur = doc[s] /\ S(s)'.up = UpHashes(doc, s)
      /\ \A t \in Stages : doc'[t] = doc[t]
  BY <1>1 DEF S, Changed
<1>3. /\ docs \in Nat /\ docs' = docs
      /\ \A t \in Stages : doc[t] \in Nat /\ S(t).cur \in Nat
  BY Numbers DEF SpecInv
<1>4. TextOfState'
  BY <1>2, <1>3 DEF SpecInv, TextInv, TextOfState
<1>5. Newer'
  BY <1>2, <1>3 DEF SpecInv, TextInv, Newer
<1>6. Fresh'
  <2>1. \A t \in Upstream(s) : UpHashes(doc, s)[t] = doc[t] /\ t \in Stages \ {s}
    BY UpstreamStages DEF UpHashes
  <2> QED
    BY <1>2, <2>1 DEF SpecInv, TextInv, Fresh
<1>7. Committed("intent") /\ Committed("intent")'
  BY <1>2 DEF SpecInv, FlowInv, IntentFirst, Committed, Stages
<1>8. IntentFirst'
  BY <1>7 DEF IntentFirst
<1>9. OperationTypes' /\ OpInv'
  BY NoOperation
<1> QED
  BY <1>4, <1>5, <1>6, <1>8, <1>9
     DEF SpecInv, TextInv, FlowInv, Sessions, PendingNewer, RevisingSpec, Activating,
         PendingIsOffered

LEMMA ActivateSpecSafe ==
  ASSUME SpecInv, ActivateSpec
  PROVE  SpecInv'
<1>1. author # None /\ author.pending = 0 /\ author.stage = "spec" /\ "spec" \in Stages
        /\ S("spec").cur > S("intent").cur
  BY DEF SpecInv, Sessions, ActivateSpec, FlowInv, Activating, Stages
<1> op' = None
  BY AtRest DEF ActivateSpec
<1>2. CASE ActivationFails
  BY <1>2, ActivationFailsEffect, QuietSafe DEF SpecInv
<1>3. CASE /\ Accepted("spec") /\ Changed \subseteq {"spec"}
           /\ Returns([ctl EXCEPT !.revisingSpec = FALSE])
  <2>1. ctl' \in Controls /\ pc' \in {"off", "idle"}
    BY <1>3, ControlWith, ReturnsTo, ZeroVersion DEF SpecInv, TypeInv, ControlTypes
  <2>2. CountTypes' /\ AuthorTypes' /\ ReviewerTypes' /\ UNCHANGED <<doc, docs, author>>
    BY DEF ActivateSpec, Counts, SpecInv, TypeInv, CountTypes, AuthorTypes, ReviewerTypes
  <2>3. FlowTypes'
    BY <1>1, <1>3, <2>2, AcceptedTypes DEF SpecInv
  <2>4. TypeInv'
    BY <2>1, <2>2, <2>3 DEF TypeInv, ControlTypes
  <2>5. doc["intent"] = S("intent").cur /\ doc["intent"] \in Nat /\ doc["spec"] \in Nat
    BY <1>3, Numbers DEF Changed, Stages, SpecInv
  <2>6. doc["spec"] > doc["intent"]
    BY <1>1, <2>5 DEF SpecInv, TextInv, Newer, Stages
  <2>7. doc["spec"] > 0 /\ \A t \in Upstream("spec") : doc["spec"] > doc[t]
    BY <2>5, <2>6 DEF Upstream
  <2> QED
    BY <1>1, <1>3, <2>1, <2>2, <2>4, <2>7, ChangeAccepted
<1> QED
  BY <1>2, <1>3 DEF ActivateSpec, ActivationFails

LEMMA ChangeReadSafe ==
  ASSUME SpecInv, ChangeRead
  PROVE  SpecInv'
<1>1. author # None /\ author.pending = 0 /\ author.stage \in Stages
        /\ Changed = {author.stage}
  BY SessionFields DEF SpecInv, Sessions, ChangeRead
<1> op' = None
  BY AtRest DEF ChangeRead
<1>2. CASE IntentRead
  BY <1>2, IntentReadEffect, QuietSafe DEF SpecInv
<1>3. CASE /\ author.stage # "intent"
           /\ Accepted(author.stage)
           /\ Returns([ctl EXCEPT !.revisingSpec = author.stage = "spec"])
  <2>1. ctl' \in Controls /\ pc' \in {"off", "idle"}
    <3>1. (author.stage = "spec") \in BOOLEAN
      OBVIOUS
    <3>2. \A b \in BOOLEAN : [ctl EXCEPT !.revisingSpec = b] \in Controls
      BY DEF SpecInv, TypeInv, ControlTypes, Controls
    <3> QED
      BY <1>3, <3>1, <3>2, ReturnsTo
  <2>2. CountTypes' /\ UNCHANGED <<doc, docs>>
    BY DEF ChangeRead, Counts, SpecInv, TypeInv, CountTypes
  <2>3. AuthorTypes' /\ ReviewerTypes'
        /\ (author' # None => author'.stage = author.stage /\ author'.pending = 0)
    <3>1. Leaving \in BOOLEAN
      BY DEF Leaving
    <3> QED
      BY <1>1, <3>1, SeveredTypes, SeveredKeeps DEF ChangeRead, AuthorTypes, ReviewerTypes, SpecInv
  <2>4. FlowTypes'
    BY <1>1, <1>3, <2>2, AcceptedTypes DEF SpecInv
  <2>5. TypeInv'
    BY <2>1, <2>2, <2>3, <2>4 DEF TypeInv, ControlTypes
  <2>6. doc[author.stage] # S(author.stage).cur
        /\ \A t \in Stages \ {author.stage} : doc[t] = S(t).cur
    BY <1>1 DEF Changed
  <2>7. doc[author.stage] > 0 /\ \A t \in Upstream(author.stage) : doc[author.stage] > doc[t]
    BY <1>1, <1>3, <2>6, UpstreamStages, Numbers DEF SpecInv, TextInv, Newer
  <2> QED
    BY <1>1, <1>3, <2>1, <2>2, <2>3, <2>5, <2>7, ChangeAccepted
<1> QED
  BY <1>2, <1>3 DEF ChangeRead, IntentRead

\* A revised intent is committed with the text its phase began with.
LEMMA RevisedEffect ==
  ASSUME SpecInv, flow' = Revised, op # None
  PROVE  /\ flow' \in [cur : Stages, stages : [Stages -> StageType]]
         /\ flow'.cur = flow.cur /\ op.doc["intent"] \in Nat
         /\ S("intent")'.cur = op.doc["intent"] /\ S("intent")'.st = S("intent").st
         /\ S("intent")'.up = S("intent").up
         /\ \A t \in Stages \ {"intent"} : S(t)' = S(t)
<1> DEFINE v == op.doc["intent"]
           x == [flow.stages["intent"] EXCEPT !.cur = v, !.app = v]
<1>1. "intent" \in Stages /\ flow.stages["intent"] \in StageType /\ v \in Versions
  BY DEF Stages, SpecInv, TypeInv, FlowTypes, Prints, OperationTypes, Operations
<1>2. /\ x \in StageType /\ x.cur = v /\ x.st = flow.stages["intent"].st
      /\ x.up = flow.stages["intent"].up
  BY <1>1 DEF StageType
<1>3. flow' = [flow EXCEPT !.stages["intent"] = x]
  BY DEF Revised
<1> HIDE DEF x
<1>4. /\ flow' \in [cur : Stages, stages : [Stages -> StageType]]
      /\ flow'.cur = flow.cur /\ flow'.stages["intent"] = x
      /\ \A t \in Stages \ {"intent"} : flow'.stages[t] = flow.stages[t]
  BY <1>1, <1>2, <1>3, StageReplaced DEF SpecInv
<1>5. v \in Nat
  BY <1>1, Numbers DEF SpecInv
<1> QED
  BY <1>2, <1>4, <1>5 DEF S

LEMMA RevisedSafe ==
  ASSUME SpecInv, TypeInv', flow' = Revised, op # None, op.kind = "revise", pc # "publish",
         op' = None, author' = None, pc' \in {"idle", "off"}, UNCHANGED <<doc, docs>>
  PROVE  SpecInv'
<1> SUFFICES ASSUME NEW v, v = op.doc["intent"] PROVE SpecInv'
  OBVIOUS
<1>1. /\ flow'.cur = flow.cur /\ v \in Nat
      /\ S("intent")'.cur = v /\ S("intent")'.st = S("intent").st
      /\ \A t \in Stages \ {"intent"} : S(t)' = S(t)
      /\ "intent" \in Stages
  BY RevisedEffect DEF Stages
<1>2. /\ \A t \in Stages : doc'[t] = doc[t] /\ doc[t] \in Nat /\ S(t).cur \in Nat
      /\ docs' = docs /\ docs \in Nat
  BY Numbers DEF SpecInv
<1>3. /\ v <= docs /\ (S("intent").cur = 0 <=> v = 0)
      /\ \A t \in Stages \ {"intent"} : doc[t] = S(t).cur \/ doc[t] > v
  BY <1>1 DEF SpecInv, OpInv, OpTexts, Phase
<1>4. TextOfState'
  BY <1>1, <1>2, <1>3 DEF SpecInv, TextInv, TextOfState
<1>5. Newer'
  BY <1>1, <1>2, <1>3 DEF SpecInv, TextInv, Newer
<1>6. Fresh'
  <2> SUFFICES ASSUME NEW q \in Stages, NEW t \in Upstream(q), S(q)'.cur # 0
               PROVE  S(q)'.cur > S(q)'.up[t]
    BY DEF Fresh
  <2>1. q # "intent"
    BY DEF Upstream
  <2> QED
    BY <1>1, <2>1 DEF SpecInv, TextInv, Fresh
<1>7. IntentFirst'
  BY <1>1 DEF SpecInv, FlowInv, IntentFirst, Committed, Stages
<1>8. OperationTypes' /\ OpInv'
  BY NoOperation
<1> QED
  BY <1>4, <1>5, <1>6, <1>7, <1>8
     DEF SpecInv, TextInv, FlowInv, Sessions, PendingNewer, RevisingSpec, Activating,
         PendingIsOffered

LEMMA ReviseIntentSafe ==
  ASSUME SpecInv, ReviseIntent
  PROVE  SpecInv'
<1>1. CASE IntentRefused /\ UNCHANGED op
  <2>1. op' = None
    BY <1>1, AtRest DEF IntentRefused
  <2> QED
    BY <1>1, <2>1, IntentRefusedEffect, QuietSafe DEF SpecInv
<1>2. CASE TypeInv' /\ Begins("revise") /\ author' = None /\ Changed = {"intent"}
  <2>1. /\ op'.kind = "revise" /\ op'.doc = doc /\ pc' = "commit" /\ doc' = doc
        /\ \A s \in Stages : S(s)'.cur = S(s).cur
    BY <1>2 DEF Begins, Committing, TextsKept, S
  <2>2. doc["intent"] # S("intent").cur /\ \A s \in Stages \ {"intent"} : doc[s] = S(s).cur
    BY <1>2 DEF Changed
  <2>3. Phase'
    BY <1>2, <2>1, <2>2 DEF Phase, Stages
  <2> QED
    BY <1>2, <2>3, PhaseBegins DEF Kinds
<1> QED
  BY <1>1, <1>2, ReviseBegins DEF SpecInv

\* What an approval does to the stages: the current one is committed, and the
\* next is opened, or published again if it has a text.
LEMMA ApproveEffect ==
  ASSUME SpecInv, flow' = Approved, NEW s, s = flow.cur, NEW n, n = Following(s)
  PROVE  /\ flow' \in [cur : Stages, stages : [Stages -> StageType]]
         /\ s \in Stages /\ n \in Stages \ {"intent"} /\ flow'.cur = n
         /\ S(s)'.st = "committed" /\ S(s)'.app = S(s).cur
         /\ S(s)'.review = S(s).review /\ S(s)'.run = S(s).run
         /\ n # s => S(n)'.st = IF s = "spec" /\ S(n).cur # 0 THEN "published" ELSE "drafting"
         /\ \A t \in Stages : S(t)'.cur = S(t).cur /\ S(t)'.up = S(t).up
         /\ \A t \in Stages \ {s, n} : S(t)' = S(t)
<1> DEFINE x == [S(s) EXCEPT !.st = "committed", !.app = S(s).cur]
           y == [S(n) EXCEPT !.st = IF s = "spec" /\ S(n).cur # 0 THEN "published" ELSE "drafting"]
<1>1. s \in Stages /\ n \in Stages \ {"intent"}
  BY DEF SpecInv, TypeInv, FlowTypes, Stages, Following
<1>2. S(s) \in StageType /\ S(n) \in StageType
  BY <1>1 DEF S, SpecInv, TypeInv, FlowTypes
<1>3. /\ x \in StageType /\ x.st = "committed" /\ x.app = S(s).cur /\ x.cur = S(s).cur
      /\ x.up = S(s).up /\ x.review = S(s).review /\ x.run = S(s).run
  BY <1>2 DEF StageType
<1>4. /\ y \in StageType /\ y.cur = S(n).cur /\ y.up = S(n).up
      /\ y.st = IF s = "spec" /\ S(n).cur # 0 THEN "published" ELSE "drafting"
  BY <1>2 DEF StageType
<1>5. /\ flow' = [cur |-> n,
                  stages |-> IF n = s THEN [flow.stages EXCEPT ![s] = x]
                             ELSE [[flow.stages EXCEPT ![s] = x] EXCEPT ![n] = y]]
  <2>1. flow.stages \in [Stages -> StageType]
    BY DEF SpecInv, TypeInv, FlowTypes
  <2>2. ASSUME n # s PROVE [[flow.stages EXCEPT ![s] = x] EXCEPT ![n].st = y.st]
                             = [[flow.stages EXCEPT ![s] = x] EXCEPT ![n] = y]
    BY <1>1, <1>2, <2>1, <2>2 DEF S
  <2> QED
    BY <1>1, <1>4, <2>1, <2>2 DEF Approved, S
<1> HIDE DEF x, y
<1>6. /\ flow' \in [cur : Stages, stages : [Stages -> StageType]]
      /\ flow'.cur = n /\ flow'.stages[s] = x
      /\ n # s => flow'.stages[n] = y
      /\ \A t \in Stages \ {s, n} : flow'.stages[t] = flow.stages[t]
  BY <1>1, <1>3, <1>4, <1>5 DEF SpecInv, TypeInv, FlowTypes
<1>7. /\ S(s)' = x /\ (n # s => S(n)' = y)
      /\ \A t \in Stages \ {s, n} : S(t)' = S(t)
  BY <1>6 DEF S
<1>8. \A t \in Stages : S(t)'.cur = S(t).cur /\ S(t)'.up = S(t).up
  <2> SUFFICES ASSUME NEW t \in Stages PROVE S(t)'.cur = S(t).cur /\ S(t)'.up = S(t).up
    OBVIOUS
  <2> QED
    BY <1>3, <1>4, <1>7
<1>9. S(s)' = x /\ x.st = "committed" /\ x.app = S(s).cur /\ x.review = S(s).review
         /\ x.run = S(s).run
  BY <1>3, <1>7
<1>10. n # s => S(n)'.st = IF s = "spec" /\ S(n).cur # 0 THEN "published" ELSE "drafting"
  BY <1>4, <1>7
<1>11. flow'.cur = n
  BY <1>6
<1> QED
  BY <1>1, <1>6, <1>7, <1>8, <1>9, <1>10, <1>11

LEMMA ApprovedSafe ==
  ASSUME SpecInv, TypeInv', flow' = Approved, op # None, op.kind = "approve", pc # "publish",
         op' = None, UNCHANGED <<doc, docs>>,
         NEW s, s = flow.cur, NEW n, n = Following(s),
         author' = None \/ (n # s /\ author' = NewAuthor(n) /\ ctl'.revisingSpec = FALSE),
         pc' \in {"idle", "off"} \/ (pc' = "talk" /\ author' # None)
  PROVE  SpecInv'
<1>1. /\ s \in Stages /\ n \in Stages \ {"intent"} /\ flow'.cur = n
      /\ S(s)'.st = "committed"
      /\ n # s => S(n)'.st = IF s = "spec" /\ S(n).cur # 0 THEN "published" ELSE "drafting"
      /\ \A t \in Stages : S(t)'.cur = S(t).cur /\ S(t)'.up = S(t).up
      /\ \A t \in Stages \ {s, n} : S(t)' = S(t)
  BY ApproveEffect
<1>2. S(s).st = "published"
  BY DEF SpecInv, OpInv, Phase, Cur
<1>3. S(s).cur # 0
  BY <1>1, <1>2 DEF SpecInv, TextInv, TextOfState
<1>4. n # s /\ s # "spec" => S(n).cur = 0
  BY <1>1, <1>2 DEF SpecInv, FlowInv, IntentFirst, Committed, Following, Stages
<1>5. TextOfState'
  BY <1>1, <1>2, <1>3, <1>4 DEF SpecInv, TextInv, TextOfState
<1>6. Newer' /\ Fresh'
  BY <1>1, UpstreamStages DEF SpecInv, TextInv, Newer, Fresh
<1>7. Committed("intent")'
  BY <1>1 DEF SpecInv, FlowInv, IntentFirst, Committed, Stages
<1>8. author' # None => author'.stage = n /\ author'.pending = 0
  BY DEF NewAuthor
<1>9. IntentFirst'
  BY <1>1, <1>7, <1>8 DEF IntentFirst
<1>10. OperationTypes' /\ OpInv'
  BY NoOperation
<1> QED
  BY <1>1, <1>5, <1>6, <1>8, <1>9, <1>10
     DEF SpecInv, TextInv, FlowInv, Sessions, PendingNewer, RevisingSpec, Activating,
         PendingIsOffered

LEMMA ApproveSafe ==
  ASSUME SpecInv, Approve
  PROVE  SpecInv'
<1>1. TypeInv' /\ Begins("approve")
  BY ApproveBegins DEF SpecInv
<1>2. /\ op'.kind = "approve" /\ op'.doc = doc /\ pc' = "commit" /\ flow' = flow
      /\ \A s \in Stages : doc[s] = S(s).cur
  BY DEF Approve, Committing, Undisturbed, Changed
<1>3. Cur' = Cur /\ UpstreamApproved(flow.cur)' /\ ReviewSettled(flow.cur)'
        /\ \A s \in Stages : S(s)' = S(s)
  BY SMTT(30), <1>2 DEF Approve, Cur, S, UpstreamApproved, ReviewSettled, StatePrint
<1>4. Phase'
  BY <1>2, <1>3 DEF Phase, Approve
<1> QED
  BY <1>1, <1>4, PhaseBegins DEF Kinds

(***************************************************************************)
(* The end of a phase                                                      *)
(***************************************************************************)
\* The draft that was applied is in place; the spec revised from the plan
\* takes the flow back to it.
LEMMA AppliedSafe ==
  ASSUME SpecInv, pc = "commit", op.kind = "applied", op' = None,
         author' = [author EXCEPT !.pending = 0],
         ctl' = [ctl EXCEPT !.revisionPending = FALSE], pc' = AfterApplied,
         UNCHANGED <<flow, doc, reviewer, docs, Counts>>
  PROVE  SpecInv'
<1>1. /\ author # None /\ author \in Authors /\ author.stage \in Stages
      /\ author.pending \in Nat /\ author.pending # 0
      /\ S(author.stage).cur = author.pending
  <2>1. op # None
    BY DEF SpecInv, OpInv, OpPlaces
  <2> QED
    BY <2>1, SessionFields, Numbers DEF SpecInv, OpInv, Phase
<1>2. author' \in Authors /\ author'.stage = author.stage /\ author'.pending = 0
  BY <1>1, AuthorWith, ZeroVersion
<1>3. /\ ctl' \in Controls /\ ctl'.revisingSpec = ctl.revisingSpec
      /\ pc' = IF ctl.revisingSpec THEN "activate" ELSE "idle"
  BY ControlWith, ZeroVersion DEF AfterApplied, SpecInv, TypeInv, ControlTypes
<1>4. FlowTypes' /\ CountTypes' /\ TextsKept
  BY OnlySessionsTypes DEF SpecInv
<1>5. TypeInv'
  BY <1>2, <1>3, <1>4 DEF SpecInv, TypeInv, AuthorTypes, ReviewerTypes, ControlTypes
<1>6. CASE ~ctl.revisingSpec
  BY <1>1, <1>2, <1>3, <1>4, <1>5, <1>6, QuietSafe DEF Quiet, AuthorGoesOn
<1>7. CASE ctl.revisingSpec
  <2>1. author' # None
    BY <1>2, SessionAssumption
  <2>2. \A s \in Stages : S(s)' = S(s)
    BY DEF S
  <2>3. author.stage = "spec" /\ S("spec").cur > S("intent").cur
    BY <1>1, <1>7 DEF SpecInv, FlowInv, RevisingSpec, PendingNewer, Stages
  <2>4. Activating'
    BY <1>2, <2>2, <2>3 DEF Activating, Stages
  <2>5. IntentFirst'
    BY <1>1, <1>2, <1>3, <1>7, <2>2 DEF SpecInv, FlowInv, IntentFirst, Committed, Stages
  <2>6. TextInv'
    BY <1>4, TextsStay DEF SpecInv
  <2>7. OperationTypes' /\ OpInv'
    BY <1>3, NoOperation
  <2> QED
    BY <1>2, <1>3, <1>5, <1>7, <2>1, <2>4, <2>5, <2>6, <2>7
       DEF SpecInv, FlowInv, Sessions, PendingNewer, RevisingSpec, PendingIsOffered
<1> QED
  BY <1>6, <1>7

\* The author is asked for the agreed fixes when he is free.
LEMMA FixesAsked ==
  ASSUME SpecInv, pc = "commit", op.kind = "apply", op' = None, MaySubmit(reviewer.stage),
         author' = [author EXCEPT !.rework = TRUE], pc' = "apply",
         UNCHANGED <<flow, doc, reviewer, ctl, docs, Counts>>
  PROVE  SpecInv'
<1>1. reviewer # None /\ reviewer.stage # "intent"
  <2>1. op # None
    BY DEF SpecInv, OpInv, OpPlaces
  <2> QED
    BY <2>1, SessionFields DEF SpecInv, OpInv, Phase
<1>2. /\ author # None /\ author \in Authors /\ author.stage = reviewer.stage
      /\ author.pending = 0
  BY SessionFields DEF MaySubmit, AuthorOf, SpecInv
<1>3. /\ author' \in Authors /\ author' # None
      /\ author'.stage = author.stage /\ author'.pending = 0
  BY <1>2, SessionAssumption DEF Authors
<1>4. FlowTypes' /\ CountTypes' /\ TextsKept
  BY OnlySessionsTypes DEF SpecInv
<1>5. TypeInv'
  BY <1>3, <1>4 DEF SpecInv, TypeInv, AuthorTypes, ReviewerTypes, ControlTypes
<1>6. TextInv'
  BY <1>4, TextsStay DEF SpecInv
<1>7. IntentFirst'
  BY <1>1, <1>2, <1>3 DEF SpecInv, FlowInv, IntentFirst, Committed, S
<1>8. OperationTypes' /\ OpInv'
  BY NoOperation
<1> QED
  BY <1>1, <1>3, <1>5, <1>6, <1>7, <1>8
     DEF SpecInv, FlowInv, Sessions, PendingNewer, RevisingSpec, Activating, PendingIsOffered

LEMMA CommitMadeSafe ==
  ASSUME SpecInv, CommitMade
  PROVE  SpecInv'
<1>1. /\ op # None /\ pc = "commit" /\ op' = None
      /\ UNCHANGED <<doc, docs, Counts>> /\ ctl \in Controls
      /\ TypeInv /\ OpInv
  BY DEF CommitMade, SpecInv, OpInv, OpPlaces, TypeInv, ControlTypes
<1>2. CASE /\ op.kind = "turn"
           /\ Returns([ctl EXCEPT !.revisionPending = FALSE])
           /\ UNCHANGED <<flow, author, reviewer>>
  <2>1. [ctl EXCEPT !.revisionPending = FALSE] \in Controls
          /\ [ctl EXCEPT !.revisionPending = FALSE].revisingSpec = ctl.revisingSpec
    BY <1>1, ControlWith, ZeroVersion
  <2>2. ctl' \in Controls /\ pc' \in {"off", "idle"} /\ ctl'.revisingSpec = ctl.revisingSpec
    BY <1>2, <2>1, ReturnsTo
  <2>3. FlowTypes' /\ CountTypes' /\ TextsKept
    BY <1>1, <1>2, OnlySessionsTypes
  <2>4. author # None /\ author.pending = 0
    BY <1>1, <1>2 DEF OpInv, Phase
  <2>5. TypeInv' /\ Quiet
    BY <1>1, <1>2, <2>2, <2>3, <2>4
       DEF TypeInv, ControlTypes, AuthorTypes, ReviewerTypes, Quiet, AuthorGoesOn
  <2> QED
    BY <1>1, <2>5, QuietSafe
<1>3. CASE /\ op.kind = "applied"
           /\ author' = [author EXCEPT !.pending = 0]
           /\ ctl' = [ctl EXCEPT !.revisionPending = FALSE]
           /\ pc' = AfterApplied
           /\ UNCHANGED <<flow, reviewer>>
  BY <1>1, <1>3, AppliedSafe
<1>4. CASE /\ op.kind \in {"rework", "review"}
           /\ reviewer' = [reviewer EXCEPT !.terminal = @ \/ op.kind = "rework"]
           /\ Returns([ctl EXCEPT !.choice = FALSE])
           /\ UNCHANGED <<flow, author>>
  <2>1. reviewer # None /\ reviewer \in Reviewers
    BY <1>1, <1>4, SessionFields DEF OpInv, Phase
  <2>2. reviewer' \in Reviewers
    BY <1>4, <2>1 DEF Reviewers
  <2>3. ctl' \in Controls /\ pc' \in {"off", "idle"} /\ ctl'.revisingSpec = ctl.revisingSpec
          /\ ctl'.revisionPending = ctl.revisionPending
    BY <1>1, <1>4, ChoiceReturns
  <2>4. FlowTypes' /\ CountTypes' /\ TextsKept
    BY <1>1, <1>4, OnlySessionsTypes
  <2>5. TypeInv' /\ Quiet
    BY <1>1, <1>4, <2>2, <2>3, <2>4
       DEF TypeInv, ControlTypes, AuthorTypes, ReviewerTypes, Quiet, AuthorGoesOn
  <2> QED
    BY <1>1, <2>5, QuietSafe
<1>5. CASE /\ op.kind = "apply" /\ MaySubmit(reviewer.stage)
           /\ author' = [author EXCEPT !.rework = TRUE]
           /\ pc' = "apply" /\ UNCHANGED <<ctl, flow, reviewer>>
  BY <1>1, <1>5, FixesAsked
<1>6. CASE op.kind = "apply" /\ FailsTo(ctl) /\ UNCHANGED <<author, flow, reviewer>>
  <2>1. ctl' \in Controls /\ pc' \in {"off", "idle"} /\ ctl'.revisingSpec = ctl.revisingSpec
          /\ ctl'.revisionPending = ctl.revisionPending
    BY <1>1, <1>6, FailsReturn
  <2>2. FlowTypes' /\ CountTypes' /\ TextsKept
    BY <1>1, <1>6, OnlySessionsTypes
  <2>3. TypeInv' /\ Quiet
    BY <1>1, <1>6, <2>1, <2>2
       DEF TypeInv, ControlTypes, AuthorTypes, ReviewerTypes, Quiet, AuthorGoesOn
  <2> QED
    BY <1>1, <2>3, QuietSafe
<1>7. CASE /\ op.kind = "approve" /\ flow' = Approved
           /\ LET last == Following(flow.cur) = flow.cur
              IN  /\ author' = IF last THEN None ELSE NewAuthor(Following(flow.cur))
                  /\ pc' = IF last THEN "idle" ELSE "talk"
           /\ reviewer' = None
           /\ ctl' = NewControl
  <2> SUFFICES ASSUME NEW s, s = flow.cur, NEW n, n = Following(s) PROVE SpecInv'
    OBVIOUS
  <2>1. /\ author' = (IF n = s THEN None ELSE NewAuthor(n))
        /\ pc' = (IF n = s THEN "idle" ELSE "talk")
    BY <1>7
  <2>2. flow' \in [cur : Stages, stages : [Stages -> StageType]] /\ n \in Stages
    BY <1>7, ApproveEffect
  <2>3. NewAuthor(n) \in Authors /\ NewAuthor(n) # None
    BY <2>2, NewAuthorType
  <2>4. TypeInv'
    BY <1>1, <1>7, <2>1, <2>2, <2>3, NewControlType
       DEF TypeInv, FlowTypes, AuthorTypes, ReviewerTypes, ControlTypes, CountTypes, Counts
  <2>5. ctl'.revisingSpec = FALSE
    BY <1>7 DEF NewControl
  <2> QED
    <3>1. author' = None \/ (n # s /\ author' = NewAuthor(n) /\ ctl'.revisingSpec = FALSE)
      BY <2>1, <2>5
    <3>2. pc' \in {"idle", "off"} \/ (pc' = "talk" /\ author' # None)
      BY <2>1, <2>3
    <3>3. pc # "publish" /\ op.kind = "approve" /\ flow' = Approved
      BY <1>1, <1>7
    <3> QED
      BY <1>1, <2>4, <3>1, <3>2, <3>3, ApprovedSafe
<1>8. CASE /\ op.kind = "revise" /\ flow' = Revised
           /\ ctl' = Control /\ pc' = "idle"
           /\ UNCHANGED <<author, reviewer>>
  <2>1. author = None
    BY <1>1, <1>8 DEF OpInv, Phase
  <2>2. flow' \in [cur : Stages, stages : [Stages -> StageType]]
    BY <1>1, <1>8, RevisedEffect
  <2>3. TypeInv'
    BY <1>1, <1>8, <2>2, ControlKept
       DEF TypeInv, FlowTypes, AuthorTypes, ReviewerTypes, ControlTypes, CountTypes, Counts
  <2> QED
    BY <1>1, <1>8, <2>1, <2>3, RevisedSafe
<1> QED
  BY <1>2, <1>3, <1>4, <1>5, <1>6, <1>7, <1>8 DEF CommitMade

LEMMA CommitFailsSafe ==
  ASSUME SpecInv, CommitFails
  PROVE  SpecInv'
<1>1. /\ op # None /\ op \in Operations /\ doc' = op.doc /\ op' = None
      /\ UNCHANGED <<flow, author, reviewer, docs, Counts>>
  BY DEF CommitFails, SpecInv, OpInv, OpPlaces, OperationTypes
<1>2. ctl' \in Controls /\ pc' \in {"off", "idle"} /\ ctl'.revisingSpec = ctl.revisingSpec
        /\ ctl'.revisionPending = ctl.revisionPending
  BY FailsReturn DEF CommitFails, SpecInv, TypeInv, ControlTypes
<1>3. TypeInv'
  BY <1>1, <1>2
     DEF Operations, SpecInv, TypeInv, FlowTypes, AuthorTypes, ReviewerTypes, ControlTypes,
         CountTypes, Counts
<1>4. \A s \in Stages : S(s)' = S(s) /\ doc'[s] = op.doc[s]
  BY <1>1 DEF S
<1>5. TextInv'
  BY <1>1, <1>4, UpstreamStages
     DEF SpecInv, OpInv, OpTexts, TextInv, TextOfState, Newer, Fresh
<1>6. IntentFirst'
  BY <1>1, <1>2, <1>4 DEF SpecInv, FlowInv, IntentFirst, Committed, Stages
<1>7. PendingNewer'
  <2>1. author # None => author.stage \in Stages
    BY SessionFields DEF SpecInv
  <2> QED
    BY <1>1, <1>4, <2>1 DEF SpecInv, FlowInv, PendingNewer
<1>8. RevisingSpec' /\ Activating' /\ Sessions' /\ PendingIsOffered'
  BY <1>1, <1>2 DEF SpecInv, FlowInv, RevisingSpec, Activating, Sessions, PendingIsOffered
<1>9. OperationTypes' /\ OpInv'
  BY <1>1, <1>2, NoOperation
<1> QED
  BY <1>3, <1>5, <1>6, <1>7, <1>8, <1>9 DEF SpecInv, FlowInv

LEMMA RecoverSafe ==
  ASSUME SpecInv, Recover
  PROVE  SpecInv'
<1>1. /\ op # None /\ pc = "off" /\ pc' = "off" /\ op' = None /\ author = None /\ author' = None
      /\ UNCHANGED <<doc, reviewer, ctl, docs, Counts>>
  BY DEF Recover, SpecInv, OpInv, OpPlaces
<1>2. ASSUME flow' \in [cur : Stages, stages : [Stages -> StageType]]
      PROVE  TypeInv'
  BY <1>1, <1>2
     DEF SpecInv, TypeInv, FlowTypes, AuthorTypes, ReviewerTypes, ControlTypes, CountTypes, Counts
<1>3. CASE UNCHANGED flow
  <2>1. TypeInv' /\ TextsKept
    BY <1>2, <1>3 DEF SpecInv, TypeInv, FlowTypes, TextsKept
  <2> QED
    BY <1>1, <2>1, QuietSafe DEF Quiet, AuthorGoesOn
<1>4. CASE op.kind = "approve" /\ flow' = Approved
  <2> SUFFICES ASSUME NEW s, s = flow.cur, NEW n, n = Following(s) PROVE SpecInv'
    OBVIOUS
  <2>1. TypeInv'
    BY <1>2, <1>4, ApproveEffect
  <2> QED
    BY <1>1, <1>4, <2>1, ApprovedSafe
<1>5. CASE op.kind = "revise" /\ flow' = Revised
  <2>1. TypeInv'
    BY <1>1, <1>2, <1>5, RevisedEffect
  <2> QED
    BY <1>1, <1>5, <2>1, RevisedSafe
<1> QED
  BY <1>3, <1>4, <1>5 DEF Recover

\* A crash may leave the phase behind, without its author.
LEMMA CrashSafe ==
  ASSUME SpecInv, Crash
  PROVE  SpecInv'
<1>1. TypeInv' /\ Quiet
  BY CrashEffect DEF SpecInv
<1>2. CASE op' = None
  BY <1>1, <1>2, QuietSafe
<1>3. CASE pc = "commit" /\ op' = op
  <2>1. /\ op # None /\ author' = None /\ pc' = "off"
        /\ UNCHANGED <<flow, doc, docs>>
    BY <1>3 DEF Crash, SpecInv, OpInv, OpPlaces
  <2>2. \A s \in Stages : S(s)' = S(s)
    BY <2>1 DEF S
  <2>3. TextInv'
    BY <1>1, TextsStay DEF SpecInv, Quiet
  <2>4. IntentFirst'
    BY <2>1, <2>2 DEF SpecInv, FlowInv, IntentFirst, Committed, Stages
  <2>5. OpPlaces' /\ Publication' /\ OperationTypes'
    BY <1>3, <2>1 DEF OpPlaces, Publication, OperationTypes, SpecInv
  <2>6. OpTexts'
    BY <1>3, <2>1, <2>2 DEF SpecInv, OpInv, OpTexts
  <2>7. Phase'
    <3>1. /\ Cur' = Cur /\ (UpstreamApproved(flow.cur) => UpstreamApproved(flow.cur)')
          /\ (ReviewSettled(flow.cur) => ReviewSettled(flow.cur)')
      BY <2>1 DEF Cur, S, UpstreamApproved, ReviewSettled, StatePrint
    <3>2. /\ op.kind = "approve" =>
                /\ Cur.st = "published" /\ UpstreamApproved(flow.cur) /\ ReviewSettled(flow.cur)
                /\ \A s \in Stages : op.doc[s] = S(s).cur
          /\ op.kind = "revise" =>
                /\ op.doc["intent"] # S("intent").cur
                /\ \A s \in Stages \ {"intent"} :
                      op.doc[s] = S(s).cur /\ (doc[s] = S(s).cur \/ doc[s] > op.doc["intent"])
      BY <1>3, <2>1 DEF SpecInv, OpInv, Phase
    <3>3. flow'.cur = flow.cur /\ op' = op /\ doc' = doc /\ "intent" \in Stages
      BY <1>3, <2>1 DEF Stages
    <3> QED
      BY <2>1, <2>2, <3>1, <3>2, <3>3 DEF Phase
  <2> QED
    BY <1>1, <2>1, <2>3, <2>4, <2>5, <2>6, <2>7
       DEF SpecInv, OpInv, FlowInv, Sessions, PendingNewer, RevisingSpec, Activating,
           PendingIsOffered
<1> QED
  BY <1>2, <1>3 DEF Crash

\* The user's editor: the texts of the state, the sessions, the controller and
\* the operation in progress stay.
LEMMA EditSafe ==
  ASSUME SpecInv, NEW s \in Stages, NEW v \in Versions, doc' = [doc EXCEPT ![s] = v],
         docs' \in Versions, docs <= docs', v <= docs', edits < MaxEdits, edits' = edits + 1,
         \/ v = S(s).cur
         \/ doc[s] # 0 /\ v > docs
         \/ op # None /\ v = op.doc[s],
         UNCHANGED <<flow, author, reviewer, ctl, op, pc, crashes, reviews>>
  PROVE  SpecInv'
<1>1. /\ doc' \in Prints /\ doc'[s] = v /\ \A t \in Stages \ {s} : doc'[t] = doc[t]
      /\ \A t \in Stages : S(t)' = S(t) /\ S(t).cur \in Nat /\ doc[t] \in Nat /\ S(t).cur <= docs
      /\ v \in Nat /\ docs \in Nat /\ docs' \in Nat
  BY Numbers DEF SpecInv, TypeInv, FlowTypes, Prints, S, TextInv, Newer
<1>2. TypeInv' /\ OperationTypes'
  BY <1>1, BoundsAssumption
     DEF SpecInv, TypeInv, FlowTypes, AuthorTypes, ReviewerTypes, ControlTypes, CountTypes,
         OperationTypes
<1>3. op # None => /\ op \in Operations
                   /\ \A t \in Stages : op.doc[t] \in Nat /\ op.doc[t] <= docs
                                          /\ (S(t).cur = 0 <=> op.doc[t] = 0)
                   /\ \A q \in Stages \ {"intent"}, t \in Stages :
                         op.doc[q] # S(q).cur => op.doc[q] > S(t).cur
  BY Numbers DEF SpecInv, OperationTypes, Operations, Prints, OpInv, OpTexts
<1>4. TextOfState'
  BY <1>1, <1>3 DEF SpecInv, TextInv, TextOfState
<1>5. Newer'
  <2>1. s # "intent" /\ v # S(s).cur => \A t \in Stages : v > S(t).cur
    BY <1>1, <1>3
  <2> QED
    BY <1>1, <2>1 DEF SpecInv, TextInv, Newer
<1>6. Fresh'
  BY <1>1, UpstreamStages DEF SpecInv, TextInv, Fresh
<1>7. IntentFirst'
  BY <1>1 DEF SpecInv, FlowInv, IntentFirst, Committed, Stages
<1>8. PendingNewer'
  <2>1. author # None => author.stage \in Stages /\ author.pending \in Nat
    BY SessionFields, Numbers DEF SpecInv
  <2> QED
    BY <1>1, <2>1 DEF SpecInv, FlowInv, PendingNewer
<1>9. RevisingSpec' /\ Activating' /\ Sessions' /\ PendingIsOffered'
  BY DEF SpecInv, FlowInv, RevisingSpec, Activating, Sessions, PendingIsOffered, S
<1>10. OpPlaces' /\ OpTexts'
  BY <1>1, <1>3 DEF SpecInv, OpInv, OpPlaces, OpTexts
<1>11. Publication'
  <2> SUFFICES ASSUME pc = "publish" PROVE Publication'
    BY DEF Publication
  <2>1. /\ author # None
        /\ op.kind \in {"turn", "applied", "rework"}
        /\ author.pending = IF op.kind = "applied" THEN op.text ELSE 0
        /\ op.kind = "rework" => reviewer # None
        /\ op.text > 0 /\ op.text <= docs
        /\ \A t \in Stages : /\ op.doc[t] = S(t).cur
                             /\ t # author.stage => op.text > S(t).cur
                             /\ doc[t] = S(t).cur \/ doc[t] > op.text
    BY DEF SpecInv, OpInv, Publication
  <2>2. op # None /\ op.text \in Nat
    <3>1. op # None
      BY DEF SpecInv, OpInv, OpPlaces
    <3> QED
      BY <1>3, <3>1, Numbers DEF Operations, SpecInv
  <2>3. v = S(s).cur \/ v > op.text
    BY <1>1, <2>1, <2>2
  <2> QED
    BY <1>1, <2>1, <2>2, <2>3 DEF Publication
<1>12. Phase'
  <2> SUFFICES ASSUME op # None, pc # "publish" PROVE Phase'
    BY DEF Phase
  <2>1. /\ Cur' = Cur /\ (UpstreamApproved(flow.cur) => UpstreamApproved(flow.cur)')
        /\ (ReviewSettled(flow.cur) => ReviewSettled(flow.cur)')
    BY DEF Cur, S, UpstreamApproved, ReviewSettled, StatePrint
  <2>2. op.kind = "revise" /\ s # "intent" => v = S(s).cur \/ v > op.doc["intent"]
    BY <1>1, <1>3 DEF SpecInv, OpInv, Phase, Stages
  <2>3. /\ pc = "commit" =>
              /\ op.kind = "turn" => author # None /\ author.pending = 0
              /\ op.kind = "applied" =>
                    author # None /\ author.pending # 0 /\ S(author.stage).cur = author.pending
              /\ op.kind \in {"rework", "review", "apply"} => reviewer # None
        /\ op.kind = "approve" =>
              /\ Cur.st = "published" /\ UpstreamApproved(flow.cur) /\ ReviewSettled(flow.cur)
              /\ \A t \in Stages : op.doc[t] = S(t).cur
        /\ op.kind = "revise" =>
              /\ author = None /\ op.doc["intent"] # S("intent").cur
              /\ \A t \in Stages \ {"intent"} :
                    op.doc[t] = S(t).cur /\ (doc[t] = S(t).cur \/ doc[t] > op.doc["intent"])
    BY DEF SpecInv, OpInv, Phase
  <2>4. author # None => author.stage \in Stages
    BY SessionFields DEF SpecInv
  <2>5. UNCHANGED <<op, pc, author, reviewer>> /\ flow'.cur = flow.cur /\ "intent" \in Stages
    BY DEF Stages
  <2>6. \A t \in Stages \ {"intent"} :
           op.kind = "revise" => doc'[t] = S(t).cur \/ doc'[t] > op.doc["intent"]
    BY <1>1, <2>2, <2>3
  <2> QED
    BY <1>1, <2>1, <2>3, <2>4, <2>5, <2>6 DEF Phase
<1> QED
  BY <1>2, <1>4, <1>5, <1>6, <1>7, <1>8, <1>9, <1>10, <1>11, <1>12
     DEF SpecInv, TextInv, FlowInv, OpInv

LEMMA UserEditSafe ==
  ASSUME SpecInv, NEW s \in Stages, UserEdit(s) \/ UserUndo(s)
  PROVE  SpecInv'
<1>1. docs \in Versions /\ docs \in Nat /\ S(s).cur \in Nat /\ S(s).cur <= docs
  BY Numbers DEF SpecInv, TypeInv, CountTypes, TextInv, Newer
<1>2. CASE UserEdit(s)
  <2>1. docs + 1 \in Versions
    BY <1>2, NextVersion DEF SpecInv, UserEdit
  <2>2. docs <= docs + 1 /\ docs + 1 > docs /\ docs + 1 <= docs + 1
    BY <1>1
  <2> QED
    BY <1>2, <2>1, <2>2, EditSafe DEF UserEdit
<1>3. CASE UserUndo(s)
  <2>1. PICK v \in {S(s).cur} \union (IF op = None THEN {} ELSE {op.doc[s]}) :
           doc' = [doc EXCEPT ![s] = v]
    BY <1>3 DEF UserUndo
  <2>2. v = S(s).cur \/ (op # None /\ v = op.doc[s])
    BY <2>1
  <2>3. v \in Versions /\ v <= docs
    <3>1. CASE v = S(s).cur
      BY <1>1, <3>1 DEF SpecInv, TypeInv, FlowTypes, StageType, S
    <3>2. CASE op # None /\ v = op.doc[s]
      BY <3>2 DEF SpecInv, OperationTypes, Operations, Prints, OpInv, OpTexts
    <3> QED
      BY <2>2, <3>1, <3>2
  <2>4. docs <= docs
    BY <1>1
  <2> QED
    BY <1>1, <1>3, <2>1, <2>2, <2>3, <2>4, EditSafe DEF UserUndo
<1> QED
  BY <1>2, <1>3

(***************************************************************************)
(* The remaining steps that begin work of the author                       *)
(***************************************************************************)
LEMMA TurnSafe ==
  ASSUME SpecInv, AuthorMessage \/ ReworkRevision
  PROVE  SpecInv'
<1>1. TypeInv' /\ TextsKept /\ TurnBegins /\ UNCHANGED <<doc, docs>>
  BY AuthorMessageEffect, ReworkRevisionEffect DEF SpecInv, AuthorMessage, ReworkRevision
<1>2. author # None
  BY DEF AuthorMessage, MaySubmit, AuthorOf, ReworkRevision, Deciding
<1>3. author.stage = "intent" => ~Committed("intent")
  <2>1. CASE AuthorMessage
    BY <2>1 DEF AuthorMessage, MaySubmit, AuthorOf, AuthorStage, Committed
  <2>2. CASE ReworkRevision
    BY <2>2, <1>2 DEF ReworkRevision, Deciding, SpecInv, FlowInv, IntentFirst
  <2> QED
    BY <2>1, <2>2
<1>4. ctl.revisingSpec => author.stage = "spec"
  <2>1. CASE AuthorMessage
    BY <2>1 DEF AuthorMessage, MaySubmit, AuthorOf, AuthorStage
  <2>2. CASE ReworkRevision
    BY <2>2, <1>2 DEF ReworkRevision, Deciding, SpecInv, FlowInv, RevisingSpec
  <2> QED
    BY <2>1, <2>2
<1>5. TextInv'
  BY <1>1, TextsStay DEF SpecInv
<1>6. \A s \in Stages : S(s)'.cur = S(s).cur /\ S(s)'.st = S(s).st
  BY <1>1 DEF TextsKept, S
<1>7. IntentFirst'
  BY <1>1, <1>2, <1>3, <1>6
     DEF TurnBegins, TextsKept, SpecInv, FlowInv, IntentFirst, Committed, Stages
<1>8. op' = None
  BY AtRest DEF AuthorMessage, ReworkRevision, Deciding, Undisturbed
<1>9. OperationTypes' /\ OpInv'
  BY <1>1, <1>8, NoOperation DEF TurnBegins
<1> QED
  BY <1>1, <1>4, <1>5, <1>7, <1>9
     DEF TurnBegins, SpecInv, FlowInv, Sessions, PendingNewer, RevisingSpec, Activating,
         PendingIsOffered

LEMMA ApplyReviewSafe ==
  ASSUME SpecInv, ApplyReview
  PROVE  SpecInv'
<1>1. TypeInv' /\ Begins("apply") /\ reviewer' # None
  BY ApplyReviewEffect DEF SpecInv
<1>2. op'.kind = "apply"
  BY DEF ApplyReview, Committing
<1> QED
  BY <1>1, <1>2, PhaseBegins DEF Phase, Kinds

\* A question asked in the rework of a review, and the report of a review.
LEMMA AuthorRepliesSafe ==
  ASSUME SpecInv, AuthorReplies
  PROVE  SpecInv'
<1>1. TypeInv' /\ ((Quiet /\ op' = op) \/ (Begins("turn") /\ author' = author))
  BY AuthorRepliesEffect DEF SpecInv
<1>2. CASE Quiet /\ op' = op
  BY <1>1, <1>2, AtRest, QuietSafe DEF AuthorReplies
<1>3. CASE Begins("turn") /\ author' = author
  <2>1. op'.kind = "turn" /\ author' # None /\ author'.pending = 0
    BY <1>3 DEF Begins, Committing, AuthorReplies, SpecInv, Sessions
  <2> QED
    BY <1>1, <1>3, <2>1, PhaseBegins DEF Phase, Kinds
<1> QED
  BY <1>1, <1>2, <1>3

LEMMA ReviewTurnSafe ==
  ASSUME SpecInv, ReviewConcludes \/ ReworkAsks
  PROVE  SpecInv'
<1>1. TypeInv' /\ ((Quiet /\ op' = op) \/ (Begins("review") /\ reviewer' # None))
  BY ReviewConcludesEffect, ReworkAsksEffect DEF SpecInv
<1>2. CASE Quiet /\ op' = op
  BY <1>1, <1>2, AtRest, QuietSafe DEF ReviewConcludes, ReworkAsks
<1>3. CASE Begins("review") /\ reviewer' # None
  <2>1. op'.kind = "review"
    BY <1>3 DEF Begins, Committing
  <2> QED
    BY <1>1, <1>3, <2>1, PhaseBegins DEF Phase, Kinds
<1> QED
  BY <1>1, <1>2, <1>3

LEMMA ResumeSafe ==
  ASSUME SpecInv, Resume
  PROVE  SpecInv'
<1>1. /\ TypeInv' /\ TextsKept /\ UNCHANGED <<doc, docs>>
      /\ AuthorGoesOn
      /\ pc' \in {"off", "idle", "reread", "talk"}
      /\ pc' = "reread" => author' # None /\ author'.pending = 0
      /\ pc' = "talk" => author' # None /\ author'.stage = flow.cur /\ Cur.st = "drafting"
      /\ ctl'.revisingSpec = ctl.revisingSpec /\ ctl'.revisionPending = ctl.revisionPending
  BY ResumeEffect DEF SpecInv
<1> op' = None
  BY DEF Resume
<1>2. CASE pc' # "talk"
  BY <1>1, <1>2, QuietSafe DEF Quiet
<1>3. CASE pc' = "talk"
  <2>1. flow.cur \in Stages /\ S(flow.cur).cur = 0 /\ S(flow.cur).st = "drafting"
    BY <1>1, <1>3, SessionFields DEF SpecInv, TextInv, TextOfState, Cur
  <2>2. author'.pending = 0
    <3>1. author # None /\ author.stage = flow.cur => author.pending = 0
      BY <2>1 DEF SpecInv, FlowInv, PendingNewer
    <3> QED
      BY <1>1, <1>3, <3>1 DEF AuthorGoesOn
  <2>3. TextInv'
    BY <1>1, TextsStay DEF SpecInv
  <2>4. \A s \in Stages : S(s)'.cur = S(s).cur /\ S(s)'.st = S(s).st
    BY <1>1 DEF TextsKept, S
  <2>5. IntentFirst'
    BY <1>1, <1>3, <2>1, <2>2, <2>4
       DEF TextsKept, SpecInv, FlowInv, IntentFirst, Committed, Stages
  <2>6. RevisingSpec'
    BY <1>1, <1>3, <2>1, <2>2, <2>4 DEF RevisingSpec
  <2>7. OperationTypes' /\ OpInv'
    BY <1>3, NoOperation
  <2> QED
    BY <1>1, <1>3, <2>2, <2>3, <2>5, <2>6, <2>7
       DEF SpecInv, FlowInv, Sessions, PendingNewer, Activating, PendingIsOffered
<1> QED
  BY <1>2, <1>3

LEMMA StutterSafe ==
  ASSUME SpecInv, UNCHANGED vars
  PROVE  SpecInv'
<1>1. TypeInv' /\ OperationTypes'
  BY DEF SpecInv, vars, TypeInv, FlowTypes, AuthorTypes, ReviewerTypes, ControlTypes, CountTypes,
         OperationTypes
<1>2. TextInv'
  BY DEF SpecInv, vars, TextInv, TextOfState, Newer, Fresh, S
<1>3. FlowInv' /\ Sessions' /\ PendingIsOffered'
  BY DEF SpecInv, vars, FlowInv, IntentFirst, PendingNewer, RevisingSpec, Activating, Sessions,
         PendingIsOffered, Committed, S
<1>4. OpPlaces' /\ OpTexts' /\ Publication'
  BY DEF SpecInv, OpInv, vars, OpPlaces, OpTexts, Publication, S
<1>5. Phase'
  BY DEF SpecInv, OpInv, vars, Phase, UpstreamApproved, ReviewSettled, StatePrint, Cur, S
<1> QED
  BY <1>1, <1>2, <1>3, <1>4, <1>5 DEF SpecInv, OpInv

\* The steps that leave the texts alone, outside any operation.
LEMMA QuietSteps ==
  ASSUME SpecInv,
         \/ AuthorFails \/ RejectRevision \/ NoticeChange \/ ChangeRefused
         \/ StartReview \/ ReviewMessage \/ ReviewFails \/ ReviewReplies \/ ReviewReports
         \/ AcceptPrint \/ RerunReview \/ ReworkFails
         \/ AbandonRevision \/ ReviseSpec \/ Exit \/ PublishFails
  PROVE  TypeInv' /\ Quiet /\ op' = None
<1>1. TypeInv /\ Sessions /\ (flow.cur # "intent" => Committed("intent"))
  BY DEF SpecInv, FlowInv, IntentFirst
<1>2. AuthorFails \/ ReworkFails => TypeInv' /\ Quiet
  BY <1>1, TurnFailsEffect DEF AuthorFails, ReworkFails
<1>3. TypeInv' /\ Quiet
  BY <1>1, <1>2, RejectRevisionEffect, NoticeChangeEffect,
     ChangeRefusedEffect, StartReviewEffect, ReviewMessageEffect, ReviewFailsEffect,
     ReviewRepliesEffect, ReviewReportsEffect, AcceptPrintEffect,
     RerunReviewEffect, AbandonRevisionEffect, ReviseSpecEffect, ExitEffect,
     PublishFailsEffect
<1>4. CASE PublishFails
  BY <1>3, <1>4 DEF PublishFails
<1>5. CASE ~PublishFails
  <2>1. op' = op /\ pc \in {"idle", "talk", "reread", "review", "candidate", "apply"}
    BY <1>5
    DEF AuthorFails, RejectRevision, NoticeChange, ChangeRefused, StartReview, ReviewMessage,
        ReviewFails, ReviewReplies, ReviewReports, AcceptPrint, RerunReview, ReworkFails,
        AbandonRevision, ReviseSpec, Exit, Deciding, Choosing, Undisturbed
  <2> QED
    BY <1>3, <2>1, AtRest
<1> QED
  BY <1>4, <1>5

LEMMA NextSafe == SpecInv /\ [Next]_vars => SpecInv'
  BY QuietSteps, QuietSafe, TurnSafe, AuthorRepliesSafe, AuthorDraftsSafe, PublishSafe,
     CommitMadeSafe, CommitFailsSafe, RecoverSafe, ApplyRevisionSafe, ActivateSpecSafe,
     ChangeReadSafe, ReviseIntentSafe, ReviewTurnSafe, ApplyReviewSafe, ReworkPublishedSafe,
     ApproveSafe, CrashSafe, ResumeSafe, UserEditSafe, StutterSafe
  DEF Next

\* The inductive invariant: types, sessions at work, texts in the order they
\* were written, the place of the flow, and the operation in progress.
THEOREM SpecInvariant == Spec => []SpecInv
  BY InitialInv, NextSafe, PTL DEF Spec

\* The flow, the documents, both sessions and the controller hold values of
\* their types in every reachable state.
THEOREM SpecTypeCorrect == Spec => []TypeOK
<1>1. SpecInv => TypeOK
  BY TypeParts DEF SpecInv
<1> QED
  BY <1>1, SpecInvariant, PTL

\* A draft that waits for apply, reject or rework is always one the controller
\* asks about: no command, failure, exit, crash or return leaves it behind.
THEOREM PendingDraftIsOffered == Spec => []PendingIsOffered
<1>1. SpecInv => PendingIsOffered
  BY DEF SpecInv
<1> QED
  BY <1>1, SpecInvariant, PTL

\* The program writes a document only in a publication and when a phase is
\* rolled back.
LEMMA DocumentsKept ==
  ASSUME Next
  PROVE  doc' = doc \/ Publish \/ CommitFails \/ \E s \in Stages : UserEdit(s) \/ UserUndo(s)
<1>1. \/ AuthorReplies \/ AuthorFails \/ RejectRevision \/ NoticeChange \/ ChangeRefused
      \/ StartReview \/ ReviewMessage \/ ReviewFails \/ ReviewReplies \/ ReviewReports
      \/ ReviewConcludes \/ AcceptPrint \/ RerunReview \/ ReworkAsks \/ ReworkFails
      \/ AbandonRevision \/ ReviseSpec \/ Exit \/ Crash
      => doc' = doc
  BY DEF AuthorReplies, AuthorFails, RejectRevision, NoticeChange, ChangeRefused, StartReview,
         ReviewMessage, ReviewFails, ReviewReplies, ReviewReports, ReviewConcludes, AcceptPrint,
         RerunReview, ReworkAsks, ReworkFails, AbandonRevision, ReviseSpec, Exit, Crash
<1>2. \/ AuthorMessage \/ ReworkRevision \/ ActivateSpec \/ ChangeRead \/ ReviseIntent
      \/ ApplyReview \/ Approve \/ Resume \/ AuthorDrafts \/ ApplyRevision \/ ReworkPublished
      \/ PublishFails \/ CommitMade \/ Recover
      => doc' = doc
  BY DEF AuthorMessage, ReworkRevision, ActivateSpec, ChangeRead, ReviseIntent, ApplyReview,
         Approve, Resume, AuthorDrafts, ApplyRevision, ReworkPublished, PublishFails, CommitMade,
         Recover
<1> QED
  BY <1>1, <1>2 DEF Next

\* A text the user saved before an operation of the repository began survives
\* it: whatever the author, the reviewer or the controller does, a document is
\* replaced only by the user, or while it holds the text the state knows, or
\* one saved after the publication or the phase looked at the documents.
THEOREM SavedTextsSurvive == Spec => EditsSurvive
<1> DEFINE Survives(s) ==
      doc'[s] # doc[s] =>
         \/ edits' # edits
         \/ doc[s] = S(s).cur
         \/ op # None /\ doc[s] # op.doc[s]
<1>1. SpecInv /\ [Next]_vars => [\A s \in Stages : Survives(s)]_vars
  <2> SUFFICES ASSUME SpecInv, Next, NEW s \in Stages, doc'[s] # doc[s]
               PROVE  \/ edits' # edits
                      \/ doc[s] = S(s).cur
                      \/ op # None /\ doc[s] # op.doc[s]
    OBVIOUS
  <2>1. CASE Publish
    BY <2>1 DEF Publish, SpecInv, OpInv, OpPlaces, Publication
  <2>2. CASE CommitFails
    BY <2>2 DEF CommitFails, SpecInv, OpInv, OpPlaces
  <2>3. CASE \E t \in Stages : UserEdit(t) \/ UserUndo(t)
    <3>1. edits \in Int
      BY BoundsAssumption DEF SpecInv, TypeInv, CountTypes
    <3> QED
      BY <2>3, <3>1 DEF UserEdit, UserUndo
  <2> QED
    BY <2>1, <2>2, <2>3, DocumentsKept
<1> QED
  BY <1>1, SpecInvariant, PTL DEF Spec, EditsSurvive

\* The commit of an approval, made now or found by the next load.
Approves ==
    /\ CommitMade \/ Recover
    /\ op # None /\ op.kind = "approve" /\ pc # "publish" /\ flow' = Approved

\* A stage becomes committed by its approval and by nothing else.
LEMMA OnlyApproveCommits ==
  ASSUME SpecInv, Next, NEW s \in Stages, S(s).st # "committed", S(s)'.st = "committed"
  PROVE  Approves /\ s = flow.cur
<1>1. TypeInv /\ Sessions
  BY DEF SpecInv
<1>2. ~TextsKept /\ flow' # flow
  BY DEF TextsKept, S
<1>3. CASE \/ AuthorMessage \/ ReworkRevision \/ AuthorReplies \/ ReviewConcludes \/ ReworkAsks
           \/ ApplyReview \/ Resume
  BY <1>1, <1>2, <1>3, AuthorMessageEffect, ReworkRevisionEffect, AuthorRepliesEffect,
     ReviewConcludesEffect, ReworkAsksEffect, ApplyReviewEffect, ResumeEffect DEF Quiet, Begins
<1>4. CASE Publish
  BY <1>4, PublishEffect
<1>5. CASE \/ AuthorDrafts \/ ReworkPublished \/ ApplyRevision \/ ReviseIntent \/ Approve
           \/ CommitFails \/ Crash
  BY <1>2, <1>5
  DEF AuthorDrafts, ReworkPublished, ApplyRevision, ReviseIntent, Approve, CommitFails, Crash
<1>6. CASE ActivateSpec \/ ChangeRead
  <2>1. \E t \in Stages : Accepted(t) /\ UNCHANGED doc
    <3>1. author # None /\ author.stage \in Stages /\ "spec" \in Stages
      BY <1>1, <1>6, SessionFields DEF Sessions, ActivateSpec, ChangeRead, Stages
    <3> QED
      BY <1>2, <1>6, <3>1 DEF ActivateSpec, ChangeRead
  <2> QED
    BY <1>1, <2>1, AcceptedTypes DEF S
<1>7. CASE CommitMade \/ Recover
  <2>1. /\ op # None /\ pc # "publish"
        /\ (flow' = Revised) \/ (op.kind = "approve" /\ flow' = Approved)
    BY <1>2, <1>7 DEF CommitMade, Recover, SpecInv, OpInv, OpPlaces
  <2>2. flow' # Revised
    <3> SUFFICES ASSUME flow' = Revised PROVE FALSE
      OBVIOUS
    <3>1. S("intent")'.st = S("intent").st /\ \A t \in Stages \ {"intent"} : S(t)' = S(t)
      BY <2>1, RevisedEffect
    <3> QED
      BY <3>1
  <2>3. Approves
    BY <1>7, <2>1, <2>2 DEF Approves
  <2> SUFFICES ASSUME NEW c, c = flow.cur, NEW n, n = Following(c) PROVE s = c
    BY <2>3
  <2>4. /\ n # c => S(n)'.st = IF c = "spec" /\ S(n).cur # 0 THEN "published" ELSE "drafting"
        /\ \A t \in Stages \ {c, n} : S(t)' = S(t)
    BY <2>3, ApproveEffect DEF Approves
  <2> QED
    BY <2>4
<1>8. CASE \E t \in Stages : UserEdit(t) \/ UserUndo(t)
  BY <1>2, <1>8 DEF UserEdit, UserUndo
<1> QED
  BY <1>2, <1>3, <1>4, <1>5, <1>6, <1>7, <1>8, QuietSteps DEF Next, Quiet

\* Whatever was revised, saved by hand, reworked, rerun, rolled back or
\* interrupted before, the text an approval commits is the one its phase found,
\* it was written after every upstream text now approved, and a completed
\* review of it was accepted for exactly this text and those upstream texts.
THEOREM ApprovedTextsAgree == Spec => ApprovalHolds
<1> DEFINE Agrees(s) ==
      S(s).st # "committed" /\ flow'.stages[s].st = "committed" =>
         LET a == flow'.stages[s] IN
         /\ op # None /\ a.app = op.doc[s]
         /\ \A t \in Upstream(s) : S(t).st = "committed" /\ a.app > S(t).app
         /\ a.review = "completed" =>
              /\ a.run.acc[s] = a.app
              /\ \A t \in Upstream(s) : a.run.acc[t] = S(t).app
<1>1. SpecInv /\ [Next]_vars => [\A s \in Stages : Agrees(s)]_vars
  <2> SUFFICES ASSUME SpecInv, Next, NEW s \in Stages,
                      S(s).st # "committed", S(s)'.st = "committed"
               PROVE  /\ op # None /\ S(s)'.app = op.doc[s]
                      /\ \A t \in Upstream(s) : S(t).st = "committed" /\ S(s)'.app > S(t).app
                      /\ S(s)'.review = "completed" =>
                           /\ S(s)'.run.acc[s] = S(s)'.app
                           /\ \A t \in Upstream(s) : S(s)'.run.acc[t] = S(t).app
    BY DEF S
  <2>1. Approves /\ s = flow.cur
    BY OnlyApproveCommits
  <2>2. S(s)'.app = S(s).cur /\ S(s)'.review = S(s).review /\ S(s)'.run = S(s).run
    BY <2>1, ApproveEffect DEF Approves
  <2>3. /\ op # None /\ op.doc[s] = S(s).cur
        /\ S(s).st = "published" /\ UpstreamApproved(s) /\ ReviewSettled(s)
    BY <2>1 DEF Approves, SpecInv, OpInv, Phase, Cur
  <2>4. S(s).cur # 0
    BY <2>3 DEF SpecInv, TextInv, TextOfState
  <2>5. \A t \in Upstream(s) : S(t).st = "committed" /\ S(t).app = S(s).up[t]
                                /\ S(s).cur > S(s).up[t]
    BY <2>3, <2>4 DEF SpecInv, TextInv, Fresh, UpstreamApproved
  <2>6. StatePrint(s)[s] = S(s).cur /\ \A t \in Upstream(s) : StatePrint(s)[t] = S(s).up[t]
    <3>1. S(s).up \in Prints
      BY DEF SpecInv, TypeInv, FlowTypes, StageType, S
    <3> QED
      BY <3>1, UpstreamStages DEF StatePrint, Prints
  <2>7. S(s).review = "completed" => S(s).run.acc = StatePrint(s)
    BY <2>3 DEF ReviewSettled
  <2> QED
    BY <2>2, <2>3, <2>5, <2>6, <2>7
<1> QED
  BY <1>1, SpecInvariant, PTL DEF Spec, ApprovalHolds

=============================================================================
