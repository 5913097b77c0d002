----------------------------- MODULE SpecFlow -----------------------------
(***************************************************************************)
(* The planning dialogue of one feature (flows/spec): FeatureController,   *)
(* the author's StageEngine and the ReviewEngine above the repository.     *)
(* The stages intent, spec and plan are drafted by an author, reviewed on  *)
(* request and approved by the user, who may also save a document in an    *)
(* editor at any moment, leave, come back, or lose the process.            *)
(*                                                                         *)
(* Two operations of the repository are taken apart here, where a save can *)
(* fall between the look at the documents and what is done with them: the  *)
(* publication of a draft, and a phase that ends in a Git commit - a       *)
(* checkpoint, an approval, a revised intent - made or rolled back.        *)
(* FeatureRepository has their files, and what a failed rollback leaves.   *)
(*                                                                         *)
(* A text is a version number, never used twice; a fingerprint maps each   *)
(* stage to a version, 0 for the stages it does not cover.                 *)
(***************************************************************************)
EXTENDS Integers, FiniteSets

CONSTANTS
    None,
    MaxDoc,          \* versions ever written
    MaxEdits,        \* saves and undos by the user
    MaxCrashes,
    MaxReviews       \* /review commands

ASSUME BoundsAssumption ==
    MaxDoc \in Nat /\ MaxEdits \in Nat /\ MaxCrashes \in Nat /\ MaxReviews \in Nat

VARIABLES
    flow,            \* state.json: the current stage and the state of each
    doc,             \* the documents on disk
    author,          \* the author session of StageEngine, or None
    reviewer,        \* the live run of ReviewEngine, or None
    ctl,             \* the fields of FeatureController
    op,              \* the operation of the repository in progress, or None
    pc,              \* "off", "idle", or what is in progress
    docs, edits, crashes, reviews

vars == <<flow, doc, author, reviewer, ctl, op, pc, docs, edits, crashes, reviews>>

Stages   == {"intent", "spec", "plan"}
Versions == 0..MaxDoc
Prints   == [Stages -> Versions]

Upstream(s)  == CASE s = "intent" -> {} [] s = "spec" -> {"intent"} [] s = "plan" -> {"intent", "spec"}

\* Mutant: a stage after the last one.
FollowingBeyond(s) == CASE s = "intent" -> "spec" [] s = "spec" -> "plan" [] s = "plan" -> "done"
Following(s) == CASE s = "intent" -> "spec" [] s = "spec" -> "plan" [] s = "plan" -> "plan"

\* The sessions the engines keep, and the fields of the controller.
Authors   == [stage : Stages, pending : Versions, rework : BOOLEAN, live : BOOLEAN]
Reviewers == [stage : Stages \ {"intent"}, print : Prints, pend : BOOLEAN, fix : BOOLEAN,
              drift : BOOLEAN, terminal : BOOLEAN, rerun : BOOLEAN, live : BOOLEAN]
Controls  == [revisionPending : BOOLEAN, revisingSpec : BOOLEAN, intentHash : Versions,
              choice : BOOLEAN, mode : {"stay", "open", "leave"}, read : Versions]

\* An operation: what it is part of, the documents as it found them, and the
\* text it publishes (0 for none).
Kinds      == {"turn", "applied", "rework", "review", "apply", "approve", "revise"}
Operations == [kind : Kinds, doc : Prints, text : Versions]

\* None is neither a session nor an operation.
ASSUME SessionAssumption == None \notin Authors \union Reviewers \union Operations

Interrupted == {"running", "automatic_rework"}
ReviewStatuses == Interrupted \union
    {"not_started", "awaiting_decisions", "author_dialogue", "completed", "escalated"}

S(s)    == flow.stages[s]
Cur     == S(flow.cur)
Changed == {s \in Stages : doc[s] # S(s).cur}

UpHashes(d, s) == [t \in Stages |-> IF t \in Upstream(s) THEN d[t] ELSE 0]
Fingerprint(s) == [UpHashes(doc, s) EXCEPT ![s] = doc[s]]
StatePrint(s)  == [S(s).up EXCEPT ![s] = S(s).cur]

NewStage(st) == [st |-> st, cur |-> 0, app |-> 0, up |-> [t \in Stages |-> 0],
                 review |-> "not_started", run |-> None]

NewControl == [revisionPending |-> FALSE, revisingSpec |-> FALSE, intentHash |-> 0,
               choice |-> FALSE, mode |-> "stay", read |-> 0]

NewAuthor(s) == [stage |-> s, pending |-> 0, rework |-> FALSE, live |-> TRUE]

\* Begin: the feature exists and the author has the brief.
Init ==
    /\ flow = [cur |-> "intent",
               stages |-> [s \in Stages |-> NewStage(IF s = "intent" THEN "drafting" ELSE "not_started")]]
    /\ doc = [s \in Stages |-> 0]
    /\ author = NewAuthor("intent")
    /\ reviewer = None
    /\ ctl = [NewControl EXCEPT !.mode = "open"]
    /\ op = None
    /\ pc = "talk"
    /\ docs = 0 /\ edits = 0 /\ crashes = 0 /\ reviews = 0

Counts == <<edits, crashes, reviews>>

(***************************************************************************)
(* Returning to the prompt                                                 *)
(***************************************************************************)

\* A command succeeded.  /exit closes the threads under the engines whatever
\* the controller did before it.
Returns(c) ==
    /\ ctl' = [c EXCEPT !.mode = "stay", !.read = 0]
    /\ pc' = IF c.mode = "leave" THEN "off" ELSE "idle"

\* A command failed; a session that was being opened is not entered.
FailsTo(c) ==
    /\ ctl' = [c EXCEPT !.mode = "stay", !.read = 0]
    /\ pc' = IF c.mode = "stay" THEN "idle" ELSE "off"

Severed(x, left) == IF x = None \/ ~left THEN x ELSE [x EXCEPT !.live = FALSE]

Leaving == ctl.mode = "leave"

(***************************************************************************)
(* Commands on an undisturbed feature (Execute)                            *)
(***************************************************************************)

\* Execute: a changed document takes the place of every command but those
\* that classify an intent already read.
IntentPending == ctl.intentHash # 0 /\ Changed = {"intent"} /\ doc["intent"] = ctl.intentHash
Undisturbed   == pc = "idle" /\ Changed = {}
Control       == [ctl EXCEPT !.intentHash = 0]

AuthorStage == IF ctl.revisingSpec THEN "spec" ELSE flow.cur
AuthorOf(s) == author # None /\ author.stage = s

\* Submit, and any other turn of the author: no draft may wait for a decision.
MaySubmit(s) == AuthorOf(s) /\ author.pending = 0

\* Text reaches the author when the current stage waits for no reviewer.
AuthorMessage ==
    /\ Undisturbed
    /\ Cur.review \notin {"running", "awaiting_decisions"}
    /\ ~ctl.revisionPending
    /\ S(AuthorStage).review \notin {"running", "awaiting_decisions", "automatic_rework"}
    /\ \/ S(AuthorStage).st \in {"drafting", "published"}
       \/ ctl.revisingSpec /\ S("spec").st = "committed"
    /\ MaySubmit(AuthorStage)
    /\ pc' = "talk" /\ ctl' = Control
    /\ UNCHANGED <<flow, doc, author, reviewer, op, docs, Counts>>

\* PublishAuthorDraft has looked at the documents and writes v next; a phase
\* of kind k begins over the documents d.
Publishing(k, v) == op' = [kind |-> k, doc |-> doc, text |-> v] /\ pc' = "publish"
Committing(k, d) == op' = [kind |-> k, doc |-> d, text |-> 0] /\ pc' = "commit"

\* A message, or a draft the repairs did not make valid.  A question asked in
\* the rework of a review ends in a checkpoint.
AuthorReplies ==
    /\ pc = "talk" /\ author.live
    /\ \/ Returns([ctl EXCEPT !.revisionPending = FALSE]) /\ UNCHANGED op
       \/ author.rework /\ Committing("turn", doc) /\ UNCHANGED ctl
    /\ UNCHANGED <<flow, doc, author, reviewer, docs, Counts>>

\* The turn failed, or a document was saved meanwhile.  The controller keeps
\* the flags it had.
AuthorFails ==
    /\ pc = "talk"
    /\ \E lost \in BOOLEAN : author' = Severed(author, lost)
    /\ FailsTo(ctl)
    /\ UNCHANGED <<flow, doc, reviewer, op, docs, Counts>>

\* Mutant: no look at the documents.
DraftTakenUnseen == author.live /\ docs < MaxDoc

\* The repository takes a draft only over documents nobody has changed.
DraftTaken == author.live /\ Changed = {} /\ docs < MaxDoc

\* acceptValidDraft and publishReviewRework: the first draft is published, a
\* later one waits for the user, unless it reworks a review.
AuthorDrafts ==
    /\ pc = "talk" /\ DraftTaken
    /\ docs' = docs + 1
    /\ \/ /\ doc[author.stage] = 0 \/ author.rework
          /\ Publishing("turn", docs + 1)
          /\ UNCHANGED <<author, ctl>>
       \/ /\ doc[author.stage] # 0 /\ ~author.rework
          /\ author' = [author EXCEPT !.pending = docs + 1]
          /\ Returns([ctl EXCEPT !.revisionPending = TRUE])
          /\ UNCHANGED op
    /\ UNCHANGED <<flow, doc, reviewer, Counts>>

\* What PublishAuthorDraft writes, over whatever is there by now: a new text is
\* unreviewed.  The checkpoint of the draft follows.
Publish ==
    /\ pc = "publish"
    /\ LET s    == author.stage
           texts == [doc EXCEPT ![s] = op.text]
       IN  /\ doc' = texts
           /\ flow' = [flow EXCEPT !.stages[s] =
                         [@ EXCEPT !.st = "published", !.cur = op.text, !.up = UpHashes(op.doc, s),
                                   !.review = IF op.doc[s] = op.text THEN S(s).review
                                              ELSE "not_started"]]
           /\ Committing(op.kind, texts)
    /\ author' = IF op.kind = "applied" THEN author ELSE [author EXCEPT !.rework = FALSE]
    /\ UNCHANGED <<reviewer, ctl, docs, Counts>>

\* The publication failed before it wrote.
PublishFails ==
    /\ pc = "publish"
    /\ op' = None /\ FailsTo(ctl)
    /\ UNCHANGED <<flow, doc, author, reviewer, docs, Counts>>

\* The answer to a pending draft; "rework" gives the author another turn.
Deciding == Undisturbed /\ ctl.revisionPending /\ author # None /\ author.pending # 0

\* revisionDecision: the spec revised from the plan moves the flow back to it.
AfterApplied == IF ctl.revisingSpec THEN "activate" ELSE "idle"

\* The draft waits until its checkpoint is made.
ApplyRevision ==
    /\ Deciding /\ author.live
    /\ Publishing("applied", author.pending)
    /\ ctl' = Control
    /\ UNCHANGED <<flow, doc, author, reviewer, docs, Counts>>

RejectRevision ==
    /\ Deciding
    /\ author' = [author EXCEPT !.pending = 0]
    /\ ctl' = [Control EXCEPT !.revisionPending = FALSE]
    /\ UNCHANGED <<flow, doc, reviewer, op, pc, docs, Counts>>

\* Mutant: the draft is kept until the new one arrives.
ReworkKeepsDraft ==
    /\ Deciding
    /\ pc' = "talk" /\ ctl' = Control
    /\ UNCHANGED <<flow, doc, author, reviewer, op, docs, Counts>>

ReworkRevision ==
    /\ Deciding
    /\ author' = [author EXCEPT !.pending = 0]
    /\ pc' = "talk" /\ ctl' = Control
    /\ UNCHANGED <<flow, doc, reviewer, op, docs, Counts>>

(***************************************************************************)
(* Changed documents (handleExternalRevision) and the revised spec         *)
(***************************************************************************)

\* What AcceptExternalRevision writes: the flow moves to the stage.
Accepted(s) ==
    flow' = [cur |-> s,
             stages |-> [flow.stages EXCEPT ![s] =
                [@ EXCEPT !.st = "published", !.cur = doc[s], !.up = UpHashes(doc, s),
                          !.review = "not_started"]]]

\* activateRevisedSpec; a crash before it leaves the published spec behind a
\* flow that is still at the plan.
ActivateSpec ==
    /\ pc = "activate"
    /\ \/ /\ \/ flow.cur = "plan" /\ S("spec").st = "published" /\ S("spec").cur # S("spec").app
                /\ Changed = {}
             \/ Changed = {"spec"}
          /\ Accepted("spec")
          /\ Returns([ctl EXCEPT !.revisingSpec = FALSE])
       \/ /\ Changed # {"spec"} /\ (flow.cur # "plan" \/ Changed # {})
          /\ FailsTo(ctl)
          /\ UNCHANGED flow
    /\ UNCHANGED <<doc, author, reviewer, op, docs, Counts>>

Revisable(s) ==
    /\ Changed = {s}
    /\ \/ s = "intent" /\ S(s).st = "committed"
       \/ s = "spec" /\ flow.cur \in {"spec", "plan"}
       \/ s = "plan" /\ flow.cur = "plan"

\* validateAuthorStageGate
Gate(s) == \A t \in Upstream(s) : S(t).st = "committed"

\* prepareExternalAuthor, then a turn in which the author reads the change.
\* c is the control the command began with.
ExternalRevision(c) ==
    \/ \E s \in Stages :
        /\ Revisable(s)
        /\ \/ /\ MaySubmit(s)
              /\ pc' = "reread" /\ ctl' = [c EXCEPT !.read = doc[s]]
              /\ UNCHANGED <<author, reviewer>>
           \/ /\ AuthorOf(s) /\ author.pending # 0
              /\ FailsTo(c)
              /\ author' = Severed(author, c.mode = "leave")
              /\ reviewer' = Severed(reviewer, c.mode = "leave")
           \/ /\ ~AuthorOf(s) /\ Gate(s)
              /\ author' = NewAuthor(s)
              /\ reviewer' = IF author = None THEN reviewer ELSE None
              /\ pc' = "reread" /\ ctl' = [c EXCEPT !.read = doc[s]]
           \/ /\ ~AuthorOf(s) /\ ~Gate(s)
              /\ author' = None
              /\ reviewer' = IF author = None THEN reviewer ELSE None
              /\ FailsTo(c)
    \/ /\ \A s \in Stages : ~Revisable(s)
       /\ FailsTo(c)
       /\ author' = Severed(author, c.mode = "leave")
       /\ reviewer' = Severed(reviewer, c.mode = "leave")

\* Any command, /status included, while a document is changed.
NoticeChange ==
    /\ pc = "idle" /\ Changed # {} /\ ~IntentPending
    /\ ExternalRevision(Control)
    /\ UNCHANGED <<flow, doc, op, docs, Counts>>

\* The author has read the change: an intent waits for its classification,
\* a valid spec or plan is accepted as it now is.
ChangeRead ==
    /\ pc = "reread" /\ author.live /\ Changed = {author.stage}
    /\ \/ /\ author.stage = "intent"
          /\ Returns([ctl EXCEPT !.intentHash = ctl.read])
          /\ UNCHANGED flow
       \/ /\ author.stage # "intent"
          /\ Accepted(author.stage)
          /\ Returns([ctl EXCEPT !.revisingSpec = author.stage = "spec"])
    /\ author' = Severed(author, Leaving)
    /\ reviewer' = Severed(reviewer, Leaving)
    /\ UNCHANGED <<doc, op, docs, Counts>>

\* The turn or the inspection failed, or the text is not valid.
ChangeRefused ==
    /\ pc = "reread"
    /\ \E lost \in BOOLEAN : author' = Severed(author, lost \/ Leaving)
    /\ reviewer' = Severed(reviewer, Leaving)
    /\ \/ FailsTo(ctl)
       \/ author.live /\ Changed = {author.stage} /\ Returns(ctl)
    /\ UNCHANGED <<flow, doc, op, docs, Counts>>

\* StageEngine.Close and ReviewEngine.Close: drafts and runs are given up.
EnginesClosed == author' = None /\ reviewer' = None

\* ClassifyIntent, non-material.  Both engines are closed even when the
\* revision is then refused.
ReviseIntent ==
    /\ pc = "idle" /\ IntentPending
    /\ EnginesClosed
    /\ \/ Committing("revise", doc)
       \/ UNCHANGED <<op, pc>>
    /\ UNCHANGED <<flow, doc, ctl, docs, Counts>>

(***************************************************************************)
(* Reviews                                                                 *)
(***************************************************************************)

\* What PublishReview writes: the state of the latest report and the texts it
\* is accepted for.
Report(s, status, acc) ==
    flow' = [flow EXCEPT !.stages[s] =
               [@ EXCEPT !.review = status, !.run = [status |-> status, acc |-> acc]]]

Disposition(r) == IF r.pend THEN "awaiting_decisions"
                  ELSE IF r.fix THEN "automatic_rework" ELSE "completed"

\* startReview: a published document, with its author at hand to rework it.
Reviewable ==
    /\ flow.cur # "intent" /\ Cur.st = "published" /\ ~ctl.revisionPending
    /\ AuthorOf(flow.cur)

StartReview ==
    /\ Undisturbed /\ reviews < MaxReviews
    /\ Reviewable
    /\ reviewer # None => reviewer.terminal
    /\ reviewer' = [stage |-> flow.cur, print |-> Fingerprint(flow.cur), pend |-> FALSE, fix |-> FALSE,
                    drift |-> FALSE, terminal |-> FALSE, rerun |-> FALSE,
                    live |-> reviewer = None \/ reviewer.stage # flow.cur \/ reviewer.live]
    /\ reviews' = reviews + 1
    /\ pc' = "review" /\ ctl' = Control
    /\ UNCHANGED <<flow, doc, author, op, docs, edits, crashes>>

\* Text while the reviewer waits for it.
ReviewMessage ==
    /\ Undisturbed
    /\ Cur.review \in {"running", "awaiting_decisions"}
    /\ reviewer # None /\ ~reviewer.drift
    /\ reviewer' = [reviewer EXCEPT !.rerun = FALSE]
    /\ pc' = "review" /\ ctl' = Control
    /\ UNCHANGED <<flow, doc, author, op, docs, Counts>>

\* abort: the run is forgotten; what it published stays.
ReviewFails ==
    /\ pc = "review"
    /\ reviewer' = None
    /\ FailsTo(ctl)
    /\ UNCHANGED <<flow, doc, author, op, docs, Counts>>

\* Dialogue, or a report the repairs did not make valid.
ReviewReplies ==
    /\ pc = "review" /\ reviewer.live
    /\ Returns([ctl EXCEPT !.choice = FALSE])
    /\ UNCHANGED <<flow, doc, author, reviewer, op, docs, Counts>>

\* runTurn: a valid report is published as running, unless a document has
\* been saved; then the run stays, unpublished.
ReviewReports ==
    /\ pc = "review" /\ reviewer.live
    /\ \E pend, fix \in BOOLEAN : reviewer' = [reviewer EXCEPT !.pend = pend, !.fix = fix]
    /\ \/ /\ Changed = {}
          /\ Report(reviewer.stage, "running", None)
          /\ pc' = "candidate"
          /\ UNCHANGED ctl
       \/ /\ Changed # {}
          /\ FailsTo(ctl)
          /\ UNCHANGED flow
    /\ UNCHANGED <<doc, author, op, docs, Counts>>

\* publishCandidate
Candidate(r, acc) ==
    /\ Report(r.stage, Disposition(r), acc)
    /\ reviewer' = [r EXCEPT !.terminal = Disposition(r) = "completed", !.drift = FALSE]

\* runTurn after the provisional report: the report counts only for the texts
\* the turn began with.  Start and Submit then make a checkpoint, a rerun does
\* not.
ReviewConcludes ==
    /\ pc = "candidate"
    /\ \/ /\ Changed = {} /\ Fingerprint(reviewer.stage) = reviewer.print
          /\ Candidate(reviewer, reviewer.print)
          /\ IF reviewer.rerun THEN Returns([ctl EXCEPT !.choice = FALSE]) /\ UNCHANGED op
             ELSE Committing("review", doc) /\ UNCHANGED ctl
       \/ /\ Fingerprint(reviewer.stage) # reviewer.print
          /\ reviewer' = [reviewer EXCEPT !.drift = TRUE]
          /\ Returns([ctl EXCEPT !.choice = TRUE])
          /\ UNCHANGED <<flow, op>>
       \/ /\ Changed # {}
          /\ FailsTo(ctl)
          /\ UNCHANGED <<flow, reviewer, op>>
    /\ UNCHANGED <<doc, author, docs, Counts>>

\* DecideFingerprint: take the report for the texts as they are, or rerun.
Choosing == Undisturbed /\ ctl.choice /\ reviewer # None /\ reviewer.drift

AcceptPrint ==
    /\ Choosing
    /\ Candidate(reviewer, Fingerprint(reviewer.stage))
    /\ ctl' = [Control EXCEPT !.choice = FALSE]
    /\ UNCHANGED <<doc, author, op, pc, docs, Counts>>

RerunReview ==
    /\ Choosing
    /\ reviewer' = [reviewer EXCEPT !.drift = FALSE, !.rerun = TRUE,
                                    !.print = Fingerprint(reviewer.stage)]
    /\ pc' = "review" /\ ctl' = Control
    /\ UNCHANGED <<flow, doc, author, op, docs, Counts>>

\* /apply: every pending finding becomes an agreed fix, and a checkpoint is
\* made of that, before the author is asked.
ApplyReview ==
    /\ Undisturbed
    /\ Cur.review \in {"awaiting_decisions", "automatic_rework"}
    /\ reviewer # None /\ ~reviewer.drift /\ (reviewer.pend \/ reviewer.fix)
    /\ reviewer' = [reviewer EXCEPT !.pend = FALSE, !.fix = TRUE]
    /\ Report(reviewer.stage, "automatic_rework", reviewer.print)
    /\ ctl' = Control
    /\ Committing("apply", doc)
    /\ UNCHANGED <<doc, author, docs, Counts>>

ReworkPublished ==
    /\ pc = "apply" /\ DraftTaken
    /\ docs' = docs + 1
    /\ Publishing("rework", docs + 1)
    /\ UNCHANGED <<flow, doc, author, reviewer, ctl, Counts>>

\* The author asks for a new material choice.
ReworkAsks ==
    /\ pc = "apply" /\ author.live /\ Changed = {}
    /\ Report(reviewer.stage, "author_dialogue", reviewer.print)
    /\ Committing("review", doc)
    /\ UNCHANGED <<doc, author, reviewer, ctl, docs, Counts>>

ReworkFails ==
    /\ pc = "apply"
    /\ \E lost \in BOOLEAN : author' = Severed(author, lost)
    /\ FailsTo(ctl)
    /\ UNCHANGED <<flow, doc, reviewer, op, docs, Counts>>

(***************************************************************************)
(* Approval and the return to the spec                                     *)
(***************************************************************************)

\* Mutant: an approved upstream, whichever its text.
UpstreamCommitted(s) == \A t \in Upstream(s) : S(t).st = "committed"

UpstreamApproved(s) == \A t \in Upstream(s) : S(t).st = "committed" /\ S(t).app = S(s).up[t]

\* reviewApprovalBlockers
ReviewSettled(s) ==
    \/ S(s).review = "not_started"
    \/ /\ S(s).review = "completed" /\ S(s).run # None
       /\ S(s).run.status = "completed" /\ S(s).run.acc = StatePrint(s)

Approve ==
    /\ Undisturbed /\ Cur.st = "published" /\ ~ctl.revisionPending
    /\ ~(ctl.revisingSpec /\ S("spec").cur = S("spec").app)
    /\ UpstreamApproved(flow.cur) /\ ReviewSettled(flow.cur)
    /\ Committing("approve", doc)
    /\ ctl' = Control
    /\ UNCHANGED <<flow, doc, author, reviewer, docs, Counts>>

\* The state of the feature once the commit of the approval is made.  A spec
\* approved again returns to the plan it had, which is published.
Approved ==
    LET s == flow.cur
        n == Following(s)
        committed == [flow.stages EXCEPT ![s] = [@ EXCEPT !.st = "committed", !.app = S(s).cur]]
    IN  [cur |-> n,
         stages |-> IF n = s THEN committed
                    ELSE [committed EXCEPT ![n].st =
                            IF s = "spec" /\ S(n).cur # 0 THEN "published" ELSE "drafting"]]

\* The same for a revised intent, which is the text the phase began with.
Revised == [flow EXCEPT !.stages["intent"] =
              [@ EXCEPT !.cur = op.doc["intent"], !.app = op.doc["intent"]]]

\* /approve of a spec that was opened and not changed only closes its author.
AbandonRevision ==
    /\ Undisturbed /\ ctl.revisingSpec /\ S("spec").cur = S("spec").app
    /\ author' = None
    /\ ctl' = [Control EXCEPT !.revisingSpec = FALSE, !.revisionPending = FALSE]
    /\ UNCHANGED <<flow, doc, reviewer, op, pc, docs, Counts>>

ReviseSpec ==
    /\ Undisturbed /\ flow.cur = "plan" /\ S("spec").st = "committed"
    /\ IF AuthorOf("spec") THEN UNCHANGED <<author, reviewer>>
       ELSE /\ author' = NewAuthor("spec")
            /\ reviewer' = IF author = None THEN reviewer ELSE None
    /\ ctl' = [Control EXCEPT !.revisingSpec = TRUE]
    /\ UNCHANGED <<flow, doc, op, pc, docs, Counts>>

(***************************************************************************)
(* The end of a phase: its Git commit is made or rolled back               *)
(***************************************************************************)

\* Checkpoint, Approve and ReviseIntent return to what asked for them.  A text
\* saved since the phase began stays, as a change.
CommitMade ==
    /\ pc = "commit"
    /\ op' = None
    /\ \/ /\ op.kind = "turn"
          /\ Returns([ctl EXCEPT !.revisionPending = FALSE])
          /\ UNCHANGED <<flow, author, reviewer>>
       \/ /\ op.kind = "applied"
          /\ author' = [author EXCEPT !.pending = 0]
          /\ ctl' = [ctl EXCEPT !.revisionPending = FALSE]
          /\ pc' = AfterApplied
          /\ UNCHANGED <<flow, reviewer>>
       \/ /\ op.kind \in {"rework", "review"}
          /\ reviewer' = [reviewer EXCEPT !.terminal = @ \/ op.kind = "rework"]
          /\ Returns([ctl EXCEPT !.choice = FALSE])
          /\ UNCHANGED <<flow, author>>
       \/ /\ op.kind = "apply"
          /\ \/ /\ Changed = {} /\ MaySubmit(reviewer.stage)
                /\ author' = [author EXCEPT !.rework = TRUE]
                /\ pc' = "apply" /\ UNCHANGED ctl
             \/ /\ Changed # {} \/ ~MaySubmit(reviewer.stage)
                /\ FailsTo(ctl) /\ UNCHANGED author
          /\ UNCHANGED <<flow, reviewer>>
       \/ /\ op.kind = "approve"
          /\ flow' = Approved
          /\ LET last == Following(flow.cur) = flow.cur
             IN  /\ author' = IF last THEN None ELSE NewAuthor(Following(flow.cur))
                 /\ pc' = IF last THEN "idle" ELSE "talk"
          /\ reviewer' = None
          /\ ctl' = NewControl
       \/ /\ op.kind = "revise"
          /\ flow' = Revised
          /\ ctl' = Control /\ pc' = "idle"
          /\ UNCHANGED <<author, reviewer>>
    /\ UNCHANGED <<doc, docs, Counts>>

\* rollbackPhase writes the documents back as the phase found them, whatever
\* has been saved since.  A publication before the phase stays.
CommitFails ==
    /\ pc = "commit"
    /\ op' = None
    /\ doc' = op.doc
    /\ FailsTo(ctl)
    /\ UNCHANGED <<flow, author, reviewer, docs, Counts>>

\* recoverPhaseLocked, on the next load: a phase the process left is completed
\* when its commit was made, or else rolled back.  A document saved since then
\* blocks it.
Recover ==
    /\ pc = "off" /\ op # None /\ doc = op.doc
    /\ op' = None
    /\ \/ UNCHANGED flow
       \/ op.kind = "approve" /\ flow' = Approved
       \/ op.kind = "revise" /\ flow' = Revised
    /\ UNCHANGED <<doc, author, reviewer, ctl, pc, docs, Counts>>

(***************************************************************************)
(* Leaving, crashing, resuming, and the user's editor                      *)
(***************************************************************************)

\* close: the controller forgets what it was about.
Closed == EnginesClosed /\ ctl' = NewControl /\ pc' = "off"

Exit ==
    /\ pc = "idle"
    /\ \/ /\ Changed = {} \/ IntentPending
          /\ Closed
       \/ /\ Changed # {} /\ ~IntentPending
          /\ ExternalRevision([Control EXCEPT !.mode = "leave"])
    /\ UNCHANGED <<flow, doc, op, docs, Counts>>

\* A phase that was begun is found again by its manifest.
Crash ==
    /\ pc # "off" /\ crashes < MaxCrashes
    /\ crashes' = crashes + 1
    /\ op' \in {None} \union (IF pc = "commit" THEN {op} ELSE {})
    /\ author' = None /\ reviewer' = None
    /\ ctl' = NewControl /\ pc' = "off"
    /\ UNCHANGED <<flow, doc, docs, edits, reviews>>

\* RecoverFeatureSession looks at the current stage only.
Recovered == IF Cur.review \in Interrupted
             THEN [flow EXCEPT !.stages[flow.cur].review = "escalated"] ELSE flow

\* startStage: the author of the current stage is there, or is started.
Startable ==
    /\ Cur.st \in {"drafting", "published"}
    /\ IF author = None THEN Gate(flow.cur) ELSE AuthorOf(flow.cur)

\* StartCurrentStage: the dialogue of a draft goes on by itself.
StartCurrentStage(c) ==
    \/ Changed # {} /\ ExternalRevision(c)
    \/ /\ Changed = {} /\ Startable
       /\ author' = IF author = None THEN NewAuthor(flow.cur) ELSE author
       /\ IF Cur.st = "drafting" THEN pc' = "talk" /\ ctl' = c ELSE Returns(c)
       /\ UNCHANGED reviewer
    \/ /\ Changed = {} /\ ~Startable
       /\ FailsTo(c)
       /\ UNCHANGED <<author, reviewer>>

\* DiscoverResumable: a feature can be opened until its plan is approved.
Resumable == S("plan").st # "committed"

\* Activate, in the same process or a new one.
Resume ==
    /\ pc = "off" /\ op = None /\ Resumable
    /\ flow' = Recovered
    /\ StartCurrentStage([ctl EXCEPT !.mode = "open"])
    /\ UNCHANGED <<doc, op, docs, Counts>>

UserEdit(s) ==
    /\ doc[s] # 0 /\ edits < MaxEdits /\ docs < MaxDoc
    /\ doc' = [doc EXCEPT ![s] = docs + 1]
    /\ docs' = docs + 1 /\ edits' = edits + 1
    /\ UNCHANGED <<flow, author, reviewer, ctl, op, pc, crashes, reviews>>

\* Back to the text the state knows, or to the one a phase began with.
UserUndo(s) ==
    /\ edits < MaxEdits
    /\ \E v \in {S(s).cur} \union (IF op = None THEN {} ELSE {op.doc[s]}) :
         doc[s] # v /\ doc' = [doc EXCEPT ![s] = v]
    /\ edits' = edits + 1
    /\ UNCHANGED <<flow, author, reviewer, ctl, op, pc, docs, crashes, reviews>>

Next ==
    \/ AuthorMessage \/ AuthorReplies \/ AuthorFails \/ AuthorDrafts
    \/ Publish \/ PublishFails \/ CommitMade \/ CommitFails \/ Recover
    \/ ApplyRevision \/ RejectRevision \/ ReworkRevision
    \/ ActivateSpec \/ NoticeChange \/ ChangeRead \/ ChangeRefused \/ ReviseIntent
    \/ StartReview \/ ReviewMessage \/ ReviewFails \/ ReviewReplies \/ ReviewReports
    \/ ReviewConcludes \/ AcceptPrint \/ RerunReview
    \/ ApplyReview \/ ReworkPublished \/ ReworkAsks \/ ReworkFails
    \/ Approve \/ AbandonRevision \/ ReviseSpec
    \/ Exit \/ Crash \/ Resume
    \/ \E s \in Stages : UserEdit(s) \/ UserUndo(s)

Spec == Init /\ [][Next]_vars

(***************************************************************************)
(* Properties                                                              *)
(***************************************************************************)

StageType == [st : {"not_started", "drafting", "published", "committed"},
              cur : Versions, app : Versions, up : Prints, review : ReviewStatuses,
              run : {None} \union [status : ReviewStatuses, acc : Prints \union {None}]]

\* The flow, the sessions and the controller hold values of their types.
TypeOK ==
    /\ flow \in [cur : Stages, stages : [Stages -> StageType]]
    /\ doc \in Prints
    /\ author \in {None} \union Authors
    /\ reviewer \in {None} \union Reviewers
    /\ ctl \in Controls
    /\ op \in {None} \union Operations
    /\ pc \in {"off", "idle", "talk", "activate", "reread", "review", "candidate", "apply",
               "publish", "commit"}
    /\ docs \in Versions /\ edits \in 0..MaxEdits /\ crashes \in 0..MaxCrashes
    /\ reviews \in 0..MaxReviews

\* Approve: the text that becomes committed is the one on disk when its phase
\* began, it was written after every upstream text now approved, and a
\* completed review of it was accepted for exactly this text and those
\* upstream texts - whatever was revised, saved by hand, reworked, rerun,
\* rolled back or interrupted in between.
ApprovalHolds ==
    [][\A s \in Stages :
         S(s).st # "committed" /\ flow'.stages[s].st = "committed" =>
            LET a == flow'.stages[s] IN
            /\ op # None /\ a.app = op.doc[s]
            /\ \A t \in Upstream(s) : S(t).st = "committed" /\ a.app > S(t).app
            /\ a.review = "completed" =>
                 /\ a.run.acc[s] = a.app
                 /\ \A t \in Upstream(s) : a.run.acc[t] = S(t).app]_vars

\* A text the user saved before an operation of the repository began is never
\* overwritten: a step of the program replaces a document only when it holds
\* the text the state knows, or one saved after the publication or the phase
\* in progress looked at the documents.
EditsSurvive ==
    [][\A s \in Stages :
         doc'[s] # doc[s] =>
            \/ edits' # edits
            \/ doc[s] = S(s).cur
            \/ op # None /\ doc[s] # op.doc[s]]_vars

\* A draft that waits for a decision is always offered for one: no command,
\* failure, exit or return leaves it behind a controller that does not ask.
PendingIsOffered ==
    author # None /\ author.pending # 0 => ctl.revisionPending

\* feature-flow.md: a later draft waits for apply, reject or rework.  Outside
\* the rework of a review (automatic_rework, author_dialogue) a turn of the
\* author does not replace a published document.
RevisionsWait ==
    [][\A s \in Stages :
         pc = "publish" /\ op.kind = "turn" /\ doc[s] # 0 /\ doc'[s] # doc[s] =>
            edits' # edits \/ S(s).review = "author_dialogue"]_vars

=============================================================================
