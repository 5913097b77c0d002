------------------------- MODULE FeatureRepository -------------------------
(***************************************************************************)
(* The durable files of planning features and the Git commits around them  *)
(* (flows/spec: FSFeatureRepository).  A feature is a directory with a     *)
(* document, a journal (mem-log.md) and a state (state.json).  A mutation  *)
(* writes a manifest with the bytes before and after, then each file, then *)
(* removes the manifest; a load that finds a manifest rolls it forward.  A *)
(* phase (checkpoint, approve, revise, supersede) brackets its mutations   *)
(* and a Git commit with a second manifest; a load that finds one rolls    *)
(* the whole phase back, unless HEAD already holds everything it wanted.   *)
(* The process may stop between any two of these steps, a step of the      *)
(* rollback may fail (the rest goes on and the manifest is dropped all the *)
(* same), and the user may save any text of the document at any moment.    *)
(*                                                                         *)
(* One document stands for the three of a feature (the intent: the only    *)
(* one with revisions and supersession); the stages are in SpecFlow.       *)
(***************************************************************************)
EXTENDS Integers, Sequences

CONSTANTS
    Features,
    None,
    MaxDoc,          \* document contents that ever exist
    MaxLog,          \* an operation starts only below this journal length
    MaxFaults,       \* stops and failed commits
    MaxEdits         \* saves by the user

ASSUME BoundsAssumption ==
    /\ MaxDoc \in Nat /\ MaxLog \in Nat /\ MaxFaults \in Nat /\ MaxEdits \in Nat
    /\ None \notin Features

VARIABLES
    dir,             \* directories that exist
    files,           \* feature -> [doc, log, state]; 0 and None: no file
    fileManifest,    \* feature -> None or path -> [before, after]
    phaseManifest,   \* coordinator -> None or [parts, before, desired, index]
    head,            \* what HEAD holds of each feature
    staged,          \* features with intent-to-add entries in the index
    pc, op,          \* the operation in flight
    docs, faults, edits,
    touched,         \* features saved by the user since the last operation on them began
    torn,            \* history: features whose manifest went although a step of the rollback failed
    ahead            \* history: features with a commit in HEAD that a load would not take for the phase

vars == <<dir, files, fileManifest, phaseManifest, head, staged, pc, op,
          docs, faults, edits, touched, torn, ahead>>

Missing  == [doc |-> 0, log |-> None, state |-> None]
NewState == [st |-> "drafting", cur |-> 0, app |-> 0,
             flow |-> "active", from |-> None, by |-> None]

States   == [st : {"drafting", "published", "committed"}, cur : Nat, app : Nat,
             flow : {"active", "superseded"},
             from : Features \union {None}, by : Features \union {None}]
\* The time of an entry is the number of faults before it: an entry written
\* again after a fault is another one.
Logs     == [len : Nat, at : Nat, anchor : States]
Contents == [doc : Nat, log : Logs \union {None}, state : States \union {None}]

\* The two manifests: the bytes of some files before and after, and those of
\* every participant with what is to be taken out of the index again.
Bytes == Nat \union Logs \union States \union {None}
FileManifests(paths) == [paths -> [before : Bytes, after : Bytes]]
PhaseManifests(fs)   == [parts : {fs}, index : SUBSET fs,
                         before : [fs -> Contents], desired : [fs -> Contents]]

\* None is not the value of a file.
ASSUME NoneAssumption ==
    /\ None \notin Contents /\ None \notin Logs /\ None \notin States
    /\ \A paths \in SUBSET DOMAIN Missing : None \notin FileManifests(paths)
    /\ \A fs \in SUBSET Features : None \notin PhaseManifests(fs)

\* applyMutation writes documents first, then the journal, then the state.
Order == <<"doc", "log", "state">>

\* The files of a set of them, in that order.
InOrder(paths) ==
    LET Kept(p) == IF p \in paths THEN <<p>> ELSE << >>
    IN  Kept("doc") \o Kept("log") \o Kept("state")

Entry(log, state) ==
    [len |-> IF log = None THEN 1 ELSE log.len + 1, at |-> faults, anchor |-> state]

\* An operation of feature f: what it writes of each participant, the ones
\* it has still to mutate, and what is left to do of the current one.
NoOp == [kind |-> "none", f |-> None, parts |-> {}, writes |-> << >>, todo |-> {},
         left |-> << >>, phase |-> FALSE, index |-> {}, failed |-> FALSE]

Init ==
    /\ dir = {}
    /\ files = [f \in Features |-> Missing]
    /\ fileManifest = [f \in Features |-> None]
    /\ phaseManifest = [f \in Features |-> None]
    /\ head = [f \in Features |-> Missing]
    /\ staged = {}
    /\ pc = "idle" /\ op = NoOp
    /\ docs = 0 /\ faults = 0 /\ edits = 0
    /\ touched = {} /\ torn = {} /\ ahead = {}

(***************************************************************************)
(* Loading and the guards of operations                                    *)
(***************************************************************************)

\* The transaction a feature takes part in.
Coordinators(f) == {c \in Features : phaseManifest[c] # None /\ f \in phaseManifest[c].parts}

Loadable(f) ==
    /\ f \in dir /\ files[f].state # None /\ files[f].log # None
    /\ fileManifest[f] = None /\ Coordinators(f) = {}
    /\ files[f].log.anchor = files[f].state

Active(f) == Loadable(f) /\ files[f].state.flow = "active" /\ files[f].log.len < MaxLog

\* The document is the one the state knows: no external revision.
Unrevised(f) == files[f].doc = files[f].state.cur

\* Nothing of the feature shows in git status.
Clean(f) ==
    /\ files[f] = head[f] /\ f \notin staged
    /\ fileManifest[f] = None /\ phaseManifest[f] = None

OthersClean(f) == \A g \in Features \ {f} : Clean(g)

Start(kind, f, writes, phase) ==
    /\ op' = [NoOp EXCEPT !.kind = kind, !.f = f, !.writes = writes, !.phase = phase,
                          !.parts = DOMAIN writes, !.todo = DOMAIN writes]
    /\ pc' = IF phase THEN "phase" ELSE "manifest"
    /\ touched' = touched \ DOMAIN writes

\* A mutation of one feature.
Only(f, writes) == [g \in {f} |-> writes]

History == <<torn, ahead>>
Counts == <<faults, edits, History>>
Bookkeeping == <<faults, edits, touched, History>>

(***************************************************************************)
(* Operations: what each loads, requires and wants written                 *)
(***************************************************************************)

Create(f) ==
    /\ pc = "idle" /\ f \notin dir
    /\ \A g \in Features : Clean(g)
    /\ dir' = dir \union {f}
    /\ Start("create", f,
             Only(f, [log |-> Entry(None, NewState), state |-> NewState]),
             FALSE)
    /\ UNCHANGED <<files, fileManifest, phaseManifest, head, staged, docs, Counts>>

\* PublishAuthorDraft: a new text becomes the published document.
PublishDraft(f) ==
    /\ pc = "idle" /\ Active(f) /\ Unrevised(f)
    /\ files[f].state.st \in {"drafting", "published"}
    /\ docs < MaxDoc
    /\ docs' = docs + 1
    /\ LET s == [files[f].state EXCEPT !.st = "published", !.cur = docs + 1]
       IN  Start("draft", f,
                 Only(f, [doc |-> docs + 1, log |-> Entry(files[f].log, s), state |-> s]),
                 FALSE)
    /\ UNCHANGED <<dir, files, fileManifest, phaseManifest, head, staged, Counts>>

LogOnly(f) == Only(f, [log |-> Entry(files[f].log, files[f].state)])

RecordActivity(f) ==
    /\ pc = "idle" /\ Active(f) /\ Unrevised(f)
    /\ Start("activity", f, LogOnly(f), FALSE)
    /\ UNCHANGED <<dir, files, fileManifest, phaseManifest, head, staged, docs, Counts>>

\* Only the journal changes, and the accumulated files are committed; a
\* document saved by the user meanwhile goes into the commit.
Checkpoint(f) ==
    /\ pc = "idle" /\ Active(f)
    /\ files[f].state.cur # 0
    /\ Start("checkpoint", f, LogOnly(f), TRUE)
    /\ UNCHANGED <<dir, files, fileManifest, phaseManifest, head, staged, docs, Counts>>

Approve(f) ==
    /\ pc = "idle" /\ Active(f) /\ Unrevised(f) /\ OthersClean(f)
    /\ files[f].state.st = "published"
    /\ LET s == [files[f].state EXCEPT !.st = "committed", !.app = files[f].state.cur]
       IN  Start("approve", f,
                 Only(f, [log |-> Entry(files[f].log, s), state |-> s]), TRUE)
    /\ UNCHANGED <<dir, files, fileManifest, phaseManifest, head, staged, docs, Counts>>

IntentRevised(f) ==
    /\ Active(f) /\ OthersClean(f)
    /\ files[f].state.st = "committed" /\ files[f].doc # 0 /\ ~Unrevised(f)

ReviseIntent(f) ==
    /\ pc = "idle" /\ IntentRevised(f)
    /\ LET s == [files[f].state EXCEPT !.cur = files[f].doc, !.app = files[f].doc]
       IN  Start("revise", f,
                 Only(f, [log |-> Entry(files[f].log, s), state |-> s]), TRUE)
    /\ UNCHANGED <<dir, files, fileManifest, phaseManifest, head, staged, docs, Counts>>

\* The old feature gets its approved document back from HEAD; the changed one
\* becomes the published document of a new feature.
SupersedeIntent(f, g) ==
    /\ pc = "idle" /\ IntentRevised(f) /\ g \notin dir
    /\ head[f].doc = files[f].state.app
    /\ LET old == [files[f].state EXCEPT !.flow = "superseded", !.by = g]
           new == [NewState EXCEPT !.st = "published", !.cur = files[f].doc, !.from = f]
       IN  Start("supersede", f,
                 [h \in {f, g} |->
                     IF h = f
                     THEN [doc |-> head[f].doc, log |-> Entry(files[f].log, old),
                           state |-> old]
                     ELSE [doc |-> files[f].doc, log |-> Entry(None, new),
                           state |-> new]], TRUE)
    /\ UNCHANGED <<dir, files, fileManifest, phaseManifest, head, staged, docs, Counts>>

(***************************************************************************)
(* The steps of an operation                                               *)
(***************************************************************************)

Overlay(old, writes) == [p \in DOMAIN old |-> IF p \in DOMAIN writes THEN writes[p] ELSE old[p]]

\* The next feature to mutate: the coordinator comes first.
Current == IF op.f \in op.todo THEN op.f ELSE CHOOSE g \in op.todo : TRUE

\* beginPhaseTransaction reads every file of the participants as it is now.
PersistPhase ==
    /\ pc = "phase"
    /\ phaseManifest' = [phaseManifest EXCEPT ![op.f] =
           [parts   |-> op.parts, index |-> {},
            before  |-> [f \in op.parts |-> files[f]],
            desired |-> [f \in op.parts |-> Overlay(files[f], op.writes[f])]]]
    /\ pc' = IF op.parts \subseteq dir THEN "manifest" ELSE "mkdir"
    /\ UNCHANGED <<dir, files, fileManifest, head, staged, op, docs, Bookkeeping>>

\* Mutant: the directory of the new feature is not made.
MakeNoDir ==
    /\ pc = "mkdir"
    /\ pc' = "manifest"
    /\ UNCHANGED <<dir, files, fileManifest, phaseManifest, head, staged, op, docs, Bookkeeping>>

MakeDir ==
    /\ pc = "mkdir"
    /\ dir' = dir \union op.parts
    /\ pc' = "manifest"
    /\ UNCHANGED <<files, fileManifest, phaseManifest, head, staged, op, docs, Bookkeeping>>

\* Mutant: the manifest holds the bytes of HEAD, not of the disk, as those before.
ManifestFromHead ==
    /\ pc = "manifest"
    /\ LET f == Current writes == op.writes[f]
       IN  /\ fileManifest' = [fileManifest EXCEPT ![f] =
                  [p \in DOMAIN writes |-> [before |-> head[f][p], after |-> writes[p]]]]
           /\ op' = [op EXCEPT !.left = InOrder(DOMAIN writes)]
    /\ pc' = "write"
    /\ UNCHANGED <<dir, files, phaseManifest, head, staged, docs, Bookkeeping>>

WriteFileManifest ==
    /\ pc = "manifest"
    /\ LET f == Current writes == op.writes[f]
       IN  /\ fileManifest' = [fileManifest EXCEPT ![f] =
                  [p \in DOMAIN writes |-> [before |-> files[f][p], after |-> writes[p]]]]
           /\ op' = [op EXCEPT !.left = InOrder(DOMAIN writes)]
    /\ pc' = "write"
    /\ UNCHANGED <<dir, files, phaseManifest, head, staged, docs, Bookkeeping>>

WriteFile ==
    /\ pc = "write" /\ op.left # << >>
    /\ LET f == Current p == Head(op.left)
       IN  files' = [files EXCEPT ![f][p] = op.writes[f][p]]
    /\ op' = [op EXCEPT !.left = Tail(@)]
    /\ UNCHANGED <<dir, fileManifest, phaseManifest, head, staged, pc, docs, Bookkeeping>>

\* Mutant: the manifest goes before the state is written.
RemoveManifestEarly ==
    /\ pc = "write" /\ Len(op.left) = 1
    /\ fileManifest' = [fileManifest EXCEPT ![Current] = None]
    /\ pc' = "idle" /\ op' = NoOp
    /\ UNCHANGED <<dir, files, phaseManifest, head, staged, docs, Bookkeeping>>

RemoveFileManifest ==
    /\ pc = "write" /\ op.left = << >>
    /\ fileManifest' = [fileManifest EXCEPT ![Current] = None]
    /\ LET rest == op.todo \ {Current}
           next == IF rest # {} THEN "manifest" ELSE IF op.phase THEN "index" ELSE "idle"
       IN  /\ pc' = next
           /\ op' = IF next = "idle" THEN NoOp ELSE [op EXCEPT !.todo = rest]
    /\ UNCHANGED <<dir, files, phaseManifest, head, staged, docs, Bookkeeping>>

\* Mutant: the index is prepared before the manifest tells what to take back.
PrepareUnrecorded ==
    /\ pc = "index"
    /\ op' = [op EXCEPT !.index = {f \in op.parts : head[f] = Missing}]
    /\ pc' = "add"
    /\ UNCHANGED <<dir, files, fileManifest, phaseManifest, head, staged, docs, Bookkeeping>>

\* The set of paths to take back out of the index is durable before git add.
PrepareIndex ==
    /\ pc = "index"
    /\ LET new == {f \in op.parts : \E p \in DOMAIN Missing :
                       head[f][p] = Missing[p] /\ files[f][p] # Missing[p] /\ f \notin staged}
       IN  /\ phaseManifest' = [phaseManifest EXCEPT ![op.f].index = new]
           /\ op' = [op EXCEPT !.index = new]
    /\ pc' = "add"
    /\ UNCHANGED <<dir, files, fileManifest, head, staged, docs, Bookkeeping>>

AddToIndex ==
    /\ pc = "add"
    /\ staged' = staged \union op.index
    /\ pc' = "commit"
    /\ UNCHANGED <<dir, files, fileManifest, phaseManifest, head, op, docs, Bookkeeping>>

\* git commit --only takes the files as they are on disk at this moment.
Commit ==
    /\ pc = "commit"
    /\ head' = [f \in Features |-> IF f \in op.parts THEN files[f] ELSE head[f]]
    /\ staged' = staged \ op.parts
    /\ ahead' = IF \A f \in op.parts : files[f] = phaseManifest[op.f].desired[f]
                THEN ahead \ op.parts ELSE ahead \union op.parts
    /\ pc' = "finish"
    /\ UNCHANGED <<dir, files, fileManifest, phaseManifest, op, docs, faults, edits, touched, torn>>

FinishPhase ==
    /\ pc = "finish"
    /\ phaseManifest' = [phaseManifest EXCEPT ![op.f] = None]
    /\ ahead' = ahead \ op.parts
    /\ pc' = "idle" /\ op' = NoOp
    /\ UNCHANGED <<dir, files, fileManifest, head, staged, docs, faults, edits, touched, torn>>

(***************************************************************************)
(* Failure of the commit, and the rollback of a phase                      *)
(***************************************************************************)

\* The index cannot be prepared, a hook refuses, git add or git commit fails.
CommitFails ==
    /\ pc \in {"index", "add", "commit"} /\ faults < MaxFaults
    /\ faults' = faults + 1
    /\ pc' = "rollback"
    /\ UNCHANGED <<dir, files, fileManifest, phaseManifest, head, staged, op, docs, edits, touched,
                   History>>

Paths(f) == [i \in DOMAIN Order |-> <<f, Order[i]>>]

\* The files to restore, those of the coordinator first.
BeginRestore(failed) ==
    /\ op' = [op EXCEPT !.failed = failed, !.left =
           IF op.parts = {op.f} THEN Paths(op.f)
           ELSE Paths(op.f) \o Paths(CHOOSE g \in op.parts : g # op.f)]
    /\ pc' = "restore"
    /\ UNCHANGED <<dir, files, fileManifest, phaseManifest, head, docs>>

RollbackIndex ==
    /\ pc = "rollback"
    /\ staged' = staged \ phaseManifest[op.f].index
    /\ BeginRestore(FALSE)
    /\ UNCHANGED Bookkeeping

\* git reset fails; the files are restored all the same.
RollbackIndexFails ==
    /\ pc = "rollback" /\ faults < MaxFaults
    /\ faults' = faults + 1
    /\ BeginRestore(TRUE)
    /\ UNCHANGED <<staged, edits, touched, History>>

RestoreFile ==
    /\ pc = "restore" /\ op.left # << >>
    /\ LET f == Head(op.left)[1] p == Head(op.left)[2]
       IN  files' = [files EXCEPT ![f][p] = phaseManifest[op.f].before[f][p]]
    /\ op' = [op EXCEPT !.left = Tail(@)]
    /\ UNCHANGED <<dir, fileManifest, phaseManifest, head, staged, pc, docs, Bookkeeping>>

\* A file that cannot be written or removed stays as it is; the next follows.
RestoreFileFails ==
    /\ pc = "restore" /\ op.left # << >> /\ faults < MaxFaults
    /\ faults' = faults + 1
    /\ op' = [op EXCEPT !.left = Tail(@), !.failed = TRUE]
    /\ UNCHANGED <<dir, files, fileManifest, phaseManifest, head, staged, pc, docs, edits, touched,
                   History>>

\* Whatever failed, nothing is left to repeat the rollback from.
RemovePhaseManifest ==
    /\ pc = "restore" /\ op.left = << >>
    /\ phaseManifest' = [phaseManifest EXCEPT ![op.f] = None]
    /\ torn' = IF op.failed THEN torn \union op.parts ELSE torn
    /\ pc' = "rmdir"
    /\ UNCHANGED <<dir, files, fileManifest, head, staged, op, docs, faults, edits, touched, ahead>>

\* The recovery of a load ends with the error of its rollback, a phase that
\* failed loads its coordinator all the same.
Notes == Loadable(op.f) /\ (op.kind = "recover" => ~op.failed)

\* Directories the phase created go, and the coordinator, if its files are
\* again those of a feature, notes in its journal what happened.
FinishRollback ==
    /\ pc = "rmdir"
    /\ dir' = dir \ {f \in op.parts \ {op.f} : files[f] = Missing}
    /\ IF Notes
       THEN Start("note", op.f, LogOnly(op.f), FALSE)
       ELSE pc' = "idle" /\ op' = NoOp /\ UNCHANGED touched
    /\ UNCHANGED <<files, fileManifest, phaseManifest, head, staged, docs, Counts>>

(***************************************************************************)
(* Stops, and the recovery a load begins with                              *)
(***************************************************************************)

\* The process dies, or a step returns an error: the rest does not happen.
Stop ==
    /\ pc # "idle" /\ faults < MaxFaults
    /\ faults' = faults + 1
    /\ pc' = "idle" /\ op' = NoOp
    /\ UNCHANGED <<dir, files, fileManifest, phaseManifest, head, staged, docs, edits, touched,
                   History>>

\* An error before the manifest of a creation takes the empty directory back.
CreateFails ==
    /\ pc = "manifest" /\ op.kind = "create" /\ faults < MaxFaults
    /\ faults' = faults + 1
    /\ dir' = dir \ {op.f}
    /\ pc' = "idle" /\ op' = NoOp
    /\ UNCHANGED <<files, fileManifest, phaseManifest, head, staged, docs, edits, touched, History>>

\* Features a load reaches: /resume lists directories with a state, and the
\* participants of a phase are recovered with the one that is loaded.
Listed(f)  == f \in dir /\ files[f].state # None
Reached(f) == Listed(f) \/ \E c \in Coordinators(f) : \E g \in phaseManifest[c].parts : Listed(g)

FilesKnown(f) ==
    \A p \in DOMAIN fileManifest[f] :
        files[f][p] \in {fileManifest[f][p].before, fileManifest[f][p].after}

\* A load that knows the bytes of every file goes on to write them.
BeginRecovery(f) ==
    /\ pc = "idle" /\ Reached(f) /\ fileManifest[f] # None /\ FilesKnown(f)
    /\ op' = [NoOp EXCEPT !.kind = "redo", !.f = f, !.parts = {f},
                          !.left = InOrder(DOMAIN fileManifest[f])]
    /\ pc' = "redo"
    /\ UNCHANGED <<dir, files, fileManifest, phaseManifest, head, staged, docs, Bookkeeping>>

RecoverFile ==
    /\ pc = "redo" /\ op.left # << >>
    /\ LET p == Head(op.left)
       IN  files' = [files EXCEPT ![op.f][p] = fileManifest[op.f][p].after]
    /\ op' = [op EXCEPT !.left = Tail(@)]
    /\ UNCHANGED <<dir, fileManifest, phaseManifest, head, staged, pc, docs, Bookkeeping>>

CompleteRecovery ==
    /\ pc = "redo" /\ op.left = << >>
    /\ fileManifest' = [fileManifest EXCEPT ![op.f] = None]
    /\ pc' = "idle" /\ op' = NoOp
    /\ UNCHANGED <<dir, files, phaseManifest, head, staged, docs, Bookkeeping>>

PhaseKnown(c) ==
    \A f \in phaseManifest[c].parts : \A p \in DOMAIN Missing :
        files[f][p] \in {phaseManifest[c].before[f][p], phaseManifest[c].desired[f][p]}

PhaseCommitted(c) == \A f \in phaseManifest[c].parts : head[f] = phaseManifest[c].desired[f]

PhaseReady(c) ==
    /\ pc = "idle" /\ phaseManifest[c] # None
    /\ \A f \in phaseManifest[c].parts : fileManifest[f] = None
    /\ \E f \in phaseManifest[c].parts : Listed(f)
    /\ PhaseKnown(c)

AdoptCommit(c) ==
    /\ PhaseReady(c) /\ PhaseCommitted(c)
    /\ staged' = staged \ phaseManifest[c].index
    /\ phaseManifest' = [phaseManifest EXCEPT ![c] = None]
    /\ UNCHANGED <<dir, files, fileManifest, head, pc, op, docs, Bookkeeping>>

\* Mutant: a phase is rolled back only while its coordinator is unchanged.
RollBackUntouched(c) ==
    /\ PhaseReady(c) /\ ~PhaseCommitted(c)
    /\ files[c] = phaseManifest[c].before[c]
    /\ op' = [NoOp EXCEPT !.kind = "recover", !.f = c, !.parts = phaseManifest[c].parts]
    /\ pc' = "rollback"
    /\ UNCHANGED <<dir, files, fileManifest, phaseManifest, head, staged, docs, Bookkeeping>>

\* Mutant: a phase is rolled back without a look at HEAD.
RollBackCommitted(c) ==
    /\ PhaseReady(c)
    /\ op' = [NoOp EXCEPT !.kind = "recover", !.f = c, !.parts = phaseManifest[c].parts]
    /\ pc' = "rollback"
    /\ UNCHANGED <<dir, files, fileManifest, phaseManifest, head, staged, docs, Bookkeeping>>

RollPhaseBack(c) ==
    /\ PhaseReady(c) /\ ~PhaseCommitted(c)
    /\ op' = [NoOp EXCEPT !.kind = "recover", !.f = c, !.parts = phaseManifest[c].parts]
    /\ pc' = "rollback"
    /\ UNCHANGED <<dir, files, fileManifest, phaseManifest, head, staged, docs, Bookkeeping>>

(***************************************************************************)
(* The user                                                                *)
(***************************************************************************)

\* An operation is in flight on the feature, or left a manifest.
Covered(f) ==
    f \in op.parts \/ fileManifest[f] # None \/ Coordinators(f) # {}

\* A text that is new, or one that was there before: an undo.
SaveDocument(f, text) ==
    /\ Listed(f) /\ files[f].doc \notin {0, text}
    /\ edits < MaxEdits /\ text <= MaxDoc
    /\ edits' = edits + 1
    /\ docs' = IF text > docs THEN text ELSE docs
    /\ files' = [files EXCEPT ![f].doc = text]
    /\ touched' = IF Covered(f) THEN touched \union {f} ELSE touched
    /\ UNCHANGED <<dir, fileManifest, phaseManifest, head, staged, pc, op, faults, History>>

Save == \E f \in Features : \E text \in 1..(docs + 1) : SaveDocument(f, text)

Operate == \E f \in Features :
    \/ Create(f) \/ PublishDraft(f) \/ RecordActivity(f) \/ Checkpoint(f)
    \/ Approve(f) \/ ReviseIntent(f)
    \/ \E g \in Features \ {f} : SupersedeIntent(f, g)

Step ==
    \/ PersistPhase \/ MakeDir \/ WriteFileManifest \/ WriteFile \/ RemoveFileManifest
    \/ PrepareIndex \/ AddToIndex \/ Commit \/ FinishPhase
    \/ RollbackIndex \/ RestoreFile \/ RemovePhaseManifest \/ FinishRollback
    \/ RecoverFile \/ CompleteRecovery

Fault == CommitFails \/ RollbackIndexFails \/ RestoreFileFails \/ Stop \/ CreateFails

Recover == \E f \in Features : BeginRecovery(f) \/ AdoptCommit(f) \/ RollPhaseBack(f)

Next == Operate \/ Step \/ Fault \/ Recover \/ Save

\* A call that runs goes on; the user comes back and loads the features again.
Spec == Init /\ [][Next]_vars /\ WF_vars(Step) /\ WF_vars(Recover)

(***************************************************************************)
(* What a load would find: the refinement mapping                          *)
(***************************************************************************)

\* A feature with its file manifest rolled forward; a document the user saved
\* meanwhile stays what it is.
Rolled(f) ==
    IF fileManifest[f] = None THEN files[f]
    ELSE [p \in DOMAIN Missing |->
             IF p \in DOMAIN fileManifest[f]
                /\ files[f][p] \in {fileManifest[f][p].before, fileManifest[f][p].after}
             THEN fileManifest[f][p].after ELSE files[f][p]]

\* A feature with its phase rolled back: what a load makes of a phase unless
\* every byte it wanted is in HEAD.
RolledBack(f, c) ==
    LET m == phaseManifest[c]
    IN  [m.before[f] EXCEPT !.doc =
            IF files[f].doc \in {m.before[f].doc, m.desired[f].doc} THEN @ ELSE files[f].doc]

View(f) ==
    LET open == {c \in Coordinators(f) : ~PhaseCommitted(c)}
        v    == IF open = {} THEN Rolled(f) ELSE RolledBack(f, CHOOSE c \in open : TRUE)
    IN  IF v.state = None THEN None ELSE v

H == INSTANCE FeatureHistory WITH durable <- [f \in Features |-> View(f)], torn <- torn

(***************************************************************************)
(* Properties                                                              *)
(***************************************************************************)

BlockedFiles(f) == fileManifest[f] # None /\ ~FilesKnown(f)

Blocked(c) ==
    /\ phaseManifest[c] # None
    /\ \/ \E f \in phaseManifest[c].parts : BlockedFiles(f)
       \/ (\A f \in phaseManifest[c].parts : fileManifest[f] = None) /\ ~PhaseKnown(c)

TypeOK ==
    /\ dir \subseteq Features /\ staged \subseteq dir \union torn
    /\ touched \subseteq Features /\ torn \subseteq Features /\ ahead \subseteq Features
    /\ docs \in 0..MaxDoc /\ faults \in 0..MaxFaults /\ edits \in 0..MaxEdits
    /\ pc \in {"idle", "phase", "mkdir", "manifest", "write", "index", "add", "commit", "finish",
               "rollback", "restore", "rmdir", "redo"}
    /\ \A f \in Features :
          /\ files[f] \in Contents /\ files[f].doc <= docs
          /\ head[f] \in Contents /\ head[f].doc <= docs
          /\ f \notin dir => files[f] = Missing /\ fileManifest[f] = None
          /\ fileManifest[f] # None => DOMAIN fileManifest[f] \subseteq DOMAIN Missing
          /\ phaseManifest[f] # None => f \in phaseManifest[f].parts

\* What Git holds of a feature is whole: the state of every commit is the one
\* its journal anchors, so a checkout of any commit loads - whatever failed.
\* An approval a load believes in is in HEAD, unless HEAD went ahead with a
\* phase that a load takes back; and a feature that nothing recovers is whole
\* on disk with nothing of it left in the index. Only a rollback one of whose
\* steps failed breaks these two (Approve, commitPhase, rollbackPhase,
\* recoverPhaseLocked).
WholeInGit ==
    \A f \in Features :
        /\ head[f] # Missing => head[f].log # None /\ head[f].log.anchor = head[f].state
        /\ f \notin torn \union ahead /\ View(f) # None /\ View(f).state.st = "committed" =>
              head[f].state # None /\ head[f].state.st = "committed"
              /\ head[f].state.app = View(f).state.app
        /\ pc = "idle" /\ fileManifest[f] = None /\ Coordinators(f) = {} /\ f \notin torn =>
              /\ f \notin staged
              /\ files[f].state # None => files[f].log.anchor = files[f].state

\* No load refuses a feature but for bytes of the user.
BlockedOnlyByEdit ==
    pc = "idle" => \A f \in Features :
        /\ BlockedFiles(f) => f \in touched
        /\ Blocked(f) => phaseManifest[f].parts \cap touched # {}

CommitReached(c) ==
    \A f \in phaseManifest[c].parts :
        /\ head[f].state = phaseManifest[c].desired[f].state
        /\ head[f].log = phaseManifest[c].desired[f].log

\* No rollback of a phase that is in HEAD but after a save.
TakenBackOnlyByEdit ==
    pc \in {"rollback", "restore"} /\ CommitReached(op.f) =>
        phaseManifest[op.f].parts \cap touched # {}

\* Only the user disturbs a recovery.  A load refuses a feature only because of
\* bytes Stepan did not write: no stop, no failed commit and no repetition of
\* the recovery itself makes a transaction unrecoverable (recoverLocked,
\* validatePhaseRecovery).  And a phase whose journal and state are in HEAD is
\* taken back only if the user saved a document of it meanwhile: no stop after
\* git commit does it, and no failure before it (recoverPhaseLocked,
\* finishSingleFeatureCommit).
OnlyEditsDisturb == BlockedOnlyByEdit /\ TakenBackOnlyByEdit

\* The plan of the flow says that changes of the user in the working tree are
\* neither rolled back nor overwritten: a file that a rollback restores is not
\* a document the user saved since the operation began (rollbackPhase).
RollbackKeepsSaves ==
    [][\A f \in Features :
          pc = "restore" /\ op'.left # op.left /\ files'[f].doc # files[f].doc
             => f \notin touched]_vars

\* The repository implements FeatureHistory: whatever the process does and
\* wherever it stops, what a load finds changes in whole operations only, but
\* for the participants of a rollback one of whose steps failed.
Implements == H!Spec

\* Every transaction is settled in the end, unless an edit of the user blocks
\* it or it is the creation of a feature that no load ever lists.
Settles ==
    []<>(pc = "idle" /\ \A f \in Features :
            \/ fileManifest[f] = None /\ phaseManifest[f] = None
            \/ f \in touched \/ Blocked(f)
            \/ \E c \in Coordinators(f) : Blocked(c)
            \/ f \in dir /\ ~Reached(f))

=============================================================================
