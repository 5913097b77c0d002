----------------------- MODULE FeatureRepositoryProofs -----------------------
(***************************************************************************)
(* Theorems about FeatureRepository for every value of its constants: type *)
(* correctness, its invariants, and the refinement of FeatureHistory.  All *)
(* of them are read off one inductive invariant, RepoInv: DiskInv says     *)
(* what may be on disk, in Git and in the two manifests whatever the       *)
(* process does next, so that it survives a stop at any step; RunInv says  *)
(* how far the operation in flight has come, and holds trivially once it   *)
(* is over; HeadsInv says that HEAD never holds the journal a phase that   *)
(* has still to commit will write.  The lemmas ...Keeps, one for each      *)
(* action, show that the action preserves RepoInv and either leaves what a *)
(* load finds (View) alone or makes one step of FeatureHistory.  An        *)
(* operation takes effect there with the manifest of its mutation or, in a *)
(* phase, with the commit - with the end of the phase when the user had a  *)
(* document of it saved meanwhile; the steps that write one file, the end  *)
(* of a rollback and the save of the user may change the text of a         *)
(* document there, which is an edit; and a rollback one of whose steps     *)
(* failed tears its participants when it drops the manifest.               *)
(***************************************************************************)
EXTENDS FeatureRepository, TLAPS, SequenceTheorems

(***************************************************************************)
(* What a mutation writes, and what it makes of the files of a feature.    *)
(***************************************************************************)
FilePaths == {"doc", "log", "state"}

Whole(r) == r.log # None /\ r.state # None /\ r.log.anchor = r.state

WritesTo(w, last) ==
    /\ DOMAIN w \subseteq FilePaths /\ "log" \in DOMAIN w /\ w["log"] \in Logs
    /\ "doc" \in DOMAIN w => w["doc"] \in 0..last
    /\ "state" \in DOMAIN w => w["state"] \in States
    /\ w["log"].at = faults

Writes(w) == WritesTo(w, docs)

Advance(r, t) ==
    /\ Whole(r) /\ Whole(t) /\ t.log.len > r.log.len
    /\ H!Legal(r.state, t.state)

Creation(r, t) == r = Missing /\ Whole(t) /\ t.state.st = "drafting"

\* A mutation without a commit approves nothing.
Unapproving(r, t) ==
    /\ Creation(r, t) \/ Advance(r, t)
    /\ t.state.st = "committed" =>
         r.state # None /\ r.state.st = "committed" /\ t.state.app = r.state.app

Supersession(f, g, r, t, new) ==
    /\ Whole(r) /\ Whole(t) /\ t.log.len > r.log.len
    /\ r.state.st = "committed"
    /\ t.state = [r.state EXCEPT !.flow = "superseded", !.by = g]
    /\ Whole(new) /\ new.state.from = f /\ new.state.st = "published"

\* The participants of a phase of c go from before to desired.
Moves(c, parts, before, desired) ==
    \/ parts = {c} /\ Advance(before[c], desired[c])
    \/ \E g \in Features \ {c} :
         /\ parts = {c, g} /\ before[g] = Missing
         /\ Supersession(c, g, before[c], desired[c], desired[g])

(***************************************************************************)
(* The inductive invariant: the files and what of them may be on disk.     *)
(***************************************************************************)
FM(f) == fileManifest[f]
PM(c) == phaseManifest[c]

Types ==
    /\ files \in [Features -> Contents] /\ head \in [Features -> Contents]
    /\ docs \in Nat
    /\ \A f \in Features : files[f].doc <= docs /\ head[f].doc <= docs
    /\ staged \subseteq dir \cup torn /\ dir \subseteq Features /\ touched \subseteq Features
    /\ torn \subseteq Features /\ ahead \subseteq Features /\ faults \in Nat
    /\ DOMAIN fileManifest = Features /\ DOMAIN phaseManifest = Features
    /\ \A f \in Features \ dir : files[f] = Missing /\ FM(f) = None

\* A file manifest: its files hold the bytes before or those after, but for a
\* document the user saved.
FileInv(f) ==
    FM(f) # None =>
        /\ f \in dir
        /\ DOMAIN FM(f) \subseteq FilePaths /\ "log" \in DOMAIN FM(f)
        /\ FM(f)["log"].after \in Logs
        /\ files[f].log \in {FM(f)["log"].before, FM(f)["log"].after}
        /\ "state" \in DOMAIN FM(f) =>
             /\ FM(f)["state"].after \in States
             /\ files[f].state \in {FM(f)["state"].before, FM(f)["state"].after}
        /\ "doc" \in DOMAIN FM(f) => FM(f)["doc"].after \in 0..docs /\ FM(f)["doc"].before \in 0..docs
        /\ "doc" \in DOMAIN FM(f) /\ f \notin touched =>
             files[f].doc \in {FM(f)["doc"].before, FM(f)["doc"].after}
        /\ Coordinators(f) = {} => View(f) # None

\* A phase manifest: what it wants follows from what it found.
PhaseInv(c) ==
    PM(c) # None =>
        LET m == PM(c)
        IN  /\ c \in m.parts /\ c \in dir
            /\ m.parts \subseteq Features /\ m \in PhaseManifests(m.parts)
            /\ Moves(c, m.parts, m.before, m.desired)

Disjoint ==
    \A c, d \in Features :
        c # d /\ PM(c) # None /\ PM(d) # None => PM(c).parts \cap PM(d).parts = {}

\* A participant of the phase of c.  Once the commit is in HEAD as the phase
\* wants it, no file of it is written again.
PartInv(c, f) ==
    LET b == PM(c).before[f]
        d == PM(c).desired[f]
    IN  /\ files[f].log \in {b.log, d.log} /\ files[f].state \in {b.state, d.state}
        /\ b.doc <= docs /\ d.doc <= docs
        /\ f \notin touched => files[f].doc \in {b.doc, d.doc}
        /\ FM(f) # None => \A p \in DOMAIN FM(f) :
             FM(f)[p].after = d[p] /\ (p # "doc" => FM(f)[p].before = b[p])
        /\ PhaseCommitted(c) => FM(f) = None /\ files[f].log = d.log /\ files[f].state = d.state

\* A commit holds what its phase wants, or else a document the user saved.
CommitInv(c) ==
    PM(c) # None /\ CommitReached(c) => PhaseCommitted(c) \/ PM(c).parts \cap touched # {}

\* What a load finds is whole, with its approval in HEAD.
GitInv(f) ==
    LET v == View(f)
    IN  /\ head[f] = Missing \/ Whole(head[f])
        /\ v # None => v \in Contents
        /\ v # None /\ f \notin torn => Whole(v)
        /\ v # None /\ v.state.st = "committed" /\ f \notin torn \cup ahead =>
             head[f] # Missing /\ head[f].state.st = "committed" /\ head[f].state.app = v.state.app

Free(f) == FM(f) = None /\ Coordinators(f) = {}
FreeInv(f) == Free(f) /\ f \notin torn => files[f] = Missing \/ files[f].state # None

StagedInv == \A f \in staged \ torn : \E c \in Features : PM(c) # None /\ f \in PM(c).index

DiskInv ==
    /\ Types /\ Disjoint /\ StagedInv
    /\ \A f \in Features : FileInv(f) /\ PhaseInv(f) /\ CommitInv(f) /\ GitInv(f) /\ FreeInv(f)
    /\ \A c \in Features : PM(c) # None => \A f \in PM(c).parts : PartInv(c, f)

(***************************************************************************)
(* The operation in flight.                                                *)
(***************************************************************************)
Positions == {"idle", "phase", "mkdir", "manifest", "write", "index", "add", "commit", "finish",
              "rollback", "restore", "rmdir", "redo"}
\* The positions at which the manifest of the phase is on disk.
Begun == op.phase /\ pc \in {"mkdir", "manifest", "write", "index", "add", "commit", "finish"}

Names(s) == {s[i] : i \in 1..Len(s)}
Result(f) == Overlay(files[f], op.writes[f])

OpInv ==
    /\ pc \in Positions
    /\ pc = "idle" => op = NoOp
    /\ DOMAIN op = DOMAIN NoOp
    /\ op.phase \in BOOLEAN /\ (op.kind = "create" => ~op.phase)
    /\ pc \in {"phase", "mkdir", "index", "add", "commit", "finish"} => op.phase
    /\ pc # "idle" => op.f \in op.parts /\ op.parts \subseteq Features

\* Before the first manifest of the operation.
ReadyInv ==
    pc = "phase" \/ (pc = "manifest" /\ ~op.phase) =>
        /\ DOMAIN op.writes = op.parts /\ op.todo = op.parts /\ op.f \in dir
        /\ \A f \in op.parts : Free(f) /\ Writes(op.writes[f])
        /\ IF op.phase
           THEN Moves(op.f, op.parts, files, [f \in op.parts |-> Result(f)])
           ELSE op.parts = {op.f} /\ Unapproving(files[op.f], Result(op.f))
        /\ op.kind = "create" => files[op.f] = Missing

\* The manifest of f is on disk and op.left is to be written.
Writing(f) ==
    /\ FM(f) # None /\ Writes(op.writes[f])
    /\ DOMAIN FM(f) = DOMAIN op.writes[f]
    /\ \A p \in DOMAIN FM(f) : FM(f)[p].after = op.writes[f][p]
    /\ op.left \in Seq(DOMAIN FM(f))

\* A file that has been written, or a document the user saved.
Written(f, p) == files[f][p] = FM(f)[p].after \/ (p = "doc" /\ f \in touched)

\* In a phase: file p of f is that of want, but for a document the user saved.
Has(f, p, want) == files[f][p] = want[f][p] \/ (p = "doc" /\ f \in touched)

Holds(f, want) == \A p \in FilePaths : Has(f, p, want)

WriteInv ==
    pc = "write" =>
        IF op.phase
        THEN /\ Writing(Current)
             /\ \A p \in FilePaths \ Names(op.left) : Has(Current, p, PM(op.f).desired)
        ELSE /\ op.parts = {op.f} /\ op.todo = {op.f} /\ Coordinators(op.f) = {}
             /\ Writing(op.f)
             /\ \A p \in DOMAIN FM(op.f) \ Names(op.left) : Written(op.f, p)

BegunInv ==
    Begun =>
        LET m == PM(op.f)
        IN  /\ m # None /\ m.parts = op.parts /\ DOMAIN op.writes = op.parts
            /\ pc # "mkdir" => op.parts \subseteq dir
            /\ \A f \in op.parts :
                 Writes(op.writes[f]) /\ m.desired[f] = Overlay(m.before[f], op.writes[f])
            /\ op.todo \subseteq op.parts
            /\ pc = "mkdir" => op.todo = op.parts
            /\ pc \in {"manifest", "write"} => op.todo # {}
            /\ pc \in {"index", "add", "commit", "finish"} => op.todo = {}
            /\ \A f \in op.parts :
                 /\ f \notin op.todo => FM(f) = None /\ Holds(f, m.desired)
                 /\ f \in op.todo /\ ~(pc = "write" /\ f = Current) => FM(f) = None /\ Holds(f, m.before)
            /\ IF pc = "finish" THEN CommitReached(op.f)
               ELSE head[op.f].log # m.desired[op.f].log
            /\ pc \in {"add", "commit"} => op.index = m.index

\* A file that has been restored.  In a feature that had no document the user
\* saves none once it is gone.
Restored(f, p) ==
    LET m == PM(op.f)
    IN  Has(f, p, m.before) /\ (p = "doc" /\ m.before[f].doc = 0 => files[f].doc = 0)

RollbackInv ==
    /\ pc \in {"rollback", "restore"} =>
         /\ PM(op.f) # None /\ PM(op.f).parts = op.parts
         /\ \A f \in op.parts : FM(f) = None
         /\ ~PhaseCommitted(op.f)
    /\ pc = "restore" =>
         /\ op.left \in Seq(op.parts \X FilePaths) /\ op.failed \in BOOLEAN
         /\ op.failed \/ \A f \in op.parts, p \in FilePaths :
                            <<f, p>> \in Names(op.left) \/ Restored(f, p)
         /\ op.failed => \A f \in op.parts : head[f] = Missing \/ head[f].log.at < faults
    /\ pc = "rmdir" => (\A f \in op.parts : Free(f)) /\ op.f \in dir

\* The recovery of a feature: what is written, and op.left that is not.
RedoInv ==
    pc = "redo" =>
        /\ op.parts = {op.f} /\ FM(op.f) # None /\ op.left \in Seq(DOMAIN FM(op.f))
        /\ \A p \in DOMAIN FM(op.f) \ Names(op.left) : Written(op.f, p)

IndexInv ==
    /\ pc \notin {"idle", "commit", "rollback", "restore", "redo"} => op.parts \cap staged \subseteq torn
    /\ pc \in {"commit", "rollback", "restore"} => op.parts \cap staged \subseteq PM(op.f).index \cup torn
    /\ pc = "restore" => op.failed \/ op.parts \cap staged \subseteq torn

RunInv == OpInv /\ ReadyInv /\ WriteInv /\ BegunInv /\ RollbackInv /\ RedoInv /\ IndexInv

\* HEAD holds an earlier entry of the journal a load finds, or one from before
\* the last fault: no entry that is still to be written.
HeadInv(f) ==
    head[f] # Missing =>
        /\ head[f].log.at <= faults /\ head[f].log.at \in Nat
        /\ \/ View(f) # None /\ View(f).log # None /\ head[f].log.len <= View(f).log.len
           \/ head[f].log.at < faults
           \/ pc = "finish" /\ f \in op.parts

HeadsInv == \A f \in Features : HeadInv(f)

CoreInv == DiskInv /\ RunInv
RepoInv == CoreInv /\ HeadsInv

(***************************************************************************)
(* The contents of a feature and what a mutation makes of them.            *)
(***************************************************************************)
LEMMA ContentsPaths ==
    ASSUME NEW r \in Contents
    PROVE  /\ DOMAIN r = FilePaths /\ r.doc \in Nat
           /\ r.log \in Logs \cup {None} /\ r.state \in States \cup {None}
    BY DEF Contents, FilePaths

LEMMA SameContents ==
    ASSUME NEW r \in Contents, NEW t \in Contents, \A p \in FilePaths : r[p] = t[p]
    PROVE  r = t
    BY DEF Contents, FilePaths

LEMMA MissingContents ==
    Missing \in Contents /\ Missing.doc = 0 /\ Missing.log = None /\ Missing.state = None
    BY DEF Missing, Contents

LEMMA NoneIsNoFile ==
    /\ \A r \in Contents : r # None
    /\ \A l \in Logs : l # None
    /\ \A s \in States : s # None
    BY NoneAssumption

\* Byte is what file p may hold.
Byte(p, v) ==
    CASE p = "doc" -> v \in Nat
      [] p = "log" -> v \in Logs \cup {None}
      [] p = "state" -> v \in States \cup {None}

LEMMA PathWritten ==
    ASSUME NEW r \in Contents, NEW p \in FilePaths, NEW v, Byte(p, v)
    PROVE  /\ [r EXCEPT ![p] = v] \in Contents
           /\ [r EXCEPT ![p] = v][p] = v
           /\ \A q \in FilePaths \ {p} : [r EXCEPT ![p] = v][q] = r[q]
    BY DEF Contents, FilePaths, Byte

LEMMA OverlayPaths ==
    ASSUME NEW r \in Contents, NEW w, DOMAIN w \subseteq FilePaths,
           \A p \in DOMAIN w : Byte(p, w[p])
    PROVE  /\ Overlay(r, w) \in Contents
           /\ \A p \in FilePaths : Overlay(r, w)[p] = IF p \in DOMAIN w THEN w[p] ELSE r[p]
<1>1. \A p \in FilePaths : Overlay(r, w)[p] = IF p \in DOMAIN w THEN w[p] ELSE r[p]
    BY ContentsPaths DEF Overlay
<1>2. Overlay(r, w) = [doc   |-> IF "doc" \in DOMAIN w THEN w["doc"] ELSE r.doc,
                       log   |-> IF "log" \in DOMAIN w THEN w["log"] ELSE r.log,
                       state |-> IF "state" \in DOMAIN w THEN w["state"] ELSE r.state]
    BY DEF Contents, FilePaths, Overlay
<1>3. /\ "doc" \in DOMAIN w => w["doc"] \in Nat
      /\ "log" \in DOMAIN w => w["log"] \in Logs \cup {None}
      /\ "state" \in DOMAIN w => w["state"] \in States \cup {None}
    BY DEF Byte
<1>4. Overlay(r, w) \in Contents
    BY <1>2, <1>3 DEF Contents
<1> QED
    BY <1>1, <1>4

LEMMA OverlayContents ==
    ASSUME NEW r \in Contents, NEW w, Writes(w), docs \in Nat
    PROVE  /\ Overlay(r, w) \in Contents
           /\ \A p \in FilePaths : Overlay(r, w)[p] = IF p \in DOMAIN w THEN w[p] ELSE r[p]
           /\ Overlay(r, w).log = w["log"]
<1>1. DOMAIN w \subseteq FilePaths /\ "log" \in DOMAIN w
    BY DEF Writes, WritesTo
<1>2. ASSUME NEW p \in DOMAIN w
      PROVE  Byte(p, w[p])
    <2>1. CASE p = "doc"
        BY <2>1 DEF Writes, WritesTo, Byte
    <2>2. CASE p = "log"
        BY <2>2 DEF Writes, WritesTo, Byte
    <2>3. CASE p = "state"
        BY <2>3 DEF Writes, WritesTo, Byte
    <2> QED
        BY <1>1, <2>1, <2>2, <2>3 DEF FilePaths
<1> QED
    BY <1>1, <1>2, OverlayPaths DEF FilePaths

LEMMA EntryIsLog ==
    ASSUME NEW log \in Logs \cup {None}, NEW s \in States, faults \in Nat
    PROVE  /\ Entry(log, s) \in Logs /\ Entry(log, s).anchor = s /\ Entry(log, s).at = faults
           /\ log # None => Entry(log, s).len > log.len
    BY DEF Entry, Logs

(***************************************************************************)
(* The files still to be written or restored.                              *)
(***************************************************************************)
LEMMA NamesOfRest ==
    ASSUME NEW S, NEW s \in Seq(S), s # << >>
    PROVE  /\ Head(s) \in S /\ Tail(s) \in Seq(S)
           /\ Names(s) = {Head(s)} \cup Names(Tail(s))
<1>1. Head(s) \in S /\ Tail(s) \in Seq(S) /\ Len(s) \in Nat \ {0} /\ Head(s) = s[1]
      /\ Len(Tail(s)) = Len(s) - 1 /\ \A i \in 1..Len(Tail(s)) : Tail(s)[i] = s[i + 1]
    BY HeadTailProperties, EmptySeq, LenProperties
<1>2. ASSUME NEW i \in 1..Len(s)
      PROVE  s[i] \in {Head(s)} \cup Names(Tail(s))
    <2>1. CASE i = 1
        BY <1>1, <2>1
    <2>2. CASE i # 1
        <3>1. i - 1 \in 1..Len(Tail(s)) /\ Tail(s)[i - 1] = s[i]
            BY <1>1, <2>2
        <3> QED
            BY <3>1 DEF Names
    <2> QED
        BY <2>1, <2>2
<1>3. ASSUME NEW i \in 1..Len(Tail(s))
      PROVE  Tail(s)[i] \in Names(s)
    <2>1. i + 1 \in 1..Len(s) /\ Tail(s)[i] = s[i + 1]
        BY <1>1
    <2> QED
        BY <2>1 DEF Names
<1>4. Head(s) \in Names(s)
    BY <1>1 DEF Names
<1> QED
    BY <1>1, <1>2, <1>3, <1>4 DEF Names

LEMMA NamesOfBoth ==
    ASSUME NEW S, NEW s \in Seq(S), NEW t \in Seq(S)
    PROVE  s \o t \in Seq(S) /\ Names(s \o t) = Names(s) \cup Names(t)
<1>1. /\ s \o t \in Seq(S) /\ Len(s) \in Nat /\ Len(t) \in Nat /\ Len(s \o t) = Len(s) + Len(t)
      /\ \A i \in 1..(Len(s) + Len(t)) : (s \o t)[i] = IF i <= Len(s) THEN s[i] ELSE t[i - Len(s)]
    BY ConcatProperties, LenProperties
<1>2. ASSUME NEW i \in 1..Len(s \o t)
      PROVE  (s \o t)[i] \in Names(s) \cup Names(t)
    BY <1>1 DEF Names
<1>3. ASSUME NEW i \in 1..Len(s)
      PROVE  s[i] \in Names(s \o t)
    <2>1. i \in 1..Len(s \o t) /\ (s \o t)[i] = s[i]
        BY <1>1
    <2> QED
        BY <2>1 DEF Names
<1>4. ASSUME NEW i \in 1..Len(t)
      PROVE  t[i] \in Names(s \o t)
    <2>1. i + Len(s) \in 1..Len(s \o t) /\ (s \o t)[i + Len(s)] = t[i]
        BY <1>1
    <2> QED
        BY <2>1 DEF Names
<1> QED
    BY <1>1, <1>2, <1>3, <1>4 DEF Names

LEMMA NamesOfNone == Names(<< >>) = {}
    BY DEF Names

LEMMA NamesOfOne == \A x : << x >> \in Seq({x}) /\ Names(<< x >>) = {x}
    BY DEF Names

LEMMA NamesInOrder ==
    ASSUME NEW S \in SUBSET FilePaths
    PROVE  InOrder(S) \in Seq(S) /\ Names(InOrder(S)) = S
<1> DEFINE kept(p) == IF p \in S THEN << p >> ELSE << >>
<1>1. \A p \in FilePaths : kept(p) \in Seq(S) /\ Names(kept(p)) = S \cap {p}
    BY NamesOfNone, NamesOfOne DEF FilePaths
<1>2. InOrder(S) = kept("doc") \o kept("log") \o kept("state")
    BY DEF InOrder
<1> HIDE DEF kept
<1>3. kept("doc") \in Seq(S) /\ kept("log") \in Seq(S) /\ kept("state") \in Seq(S)
    BY <1>1 DEF FilePaths
<1>4. /\ kept("doc") \o kept("log") \in Seq(S)
      /\ Names(kept("doc") \o kept("log")) = Names(kept("doc")) \cup Names(kept("log"))
    BY <1>3, NamesOfBoth
<1> DEFINE two == kept("doc") \o kept("log")
<1>5. two \in Seq(S) /\ Names(two) = Names(kept("doc")) \cup Names(kept("log"))
    BY <1>4
<1>6. InOrder(S) = two \o kept("state")
    BY <1>2
<1> HIDE DEF two
<1>7. two \o kept("state") \in Seq(S) /\ Names(two \o kept("state")) = Names(two) \cup Names(kept("state"))
    BY <1>3, <1>5, NamesOfBoth
<1> QED
    BY <1>1, <1>5, <1>6, <1>7 DEF FilePaths

LEMMA NamesOfPaths ==
    ASSUME NEW f
    PROVE  Paths(f) \in Seq({f} \X FilePaths) /\ Names(Paths(f)) = {f} \X FilePaths
<1>1. Paths(f) = << <<f, "doc">>, <<f, "log">>, <<f, "state">> >>
    BY DEF Paths, Order
<1>2. Paths(f) \in Seq({f} \X FilePaths)
    BY <1>1 DEF FilePaths
<1>3. Names(Paths(f)) = {<<f, "doc">>, <<f, "log">>, <<f, "state">>}
    BY <1>1 DEF Names
<1> QED
    BY <1>2, <1>3 DEF FilePaths

(***************************************************************************)
(* What a load finds.  A feature takes part in one phase at most, so View  *)
(* needs no choice.                                                        *)
(***************************************************************************)
Shown(v) == IF v.state = None THEN None ELSE v
Durable == [f \in Features |-> View(f)]

\* Only the document differs.
DocChanged(v, w) == w = v \/ (v # None /\ \E d \in Nat : w = [v EXCEPT !.doc = d])

FreeView ==
    \A f \in Features : Coordinators(f) = {} => View(f) = Shown(Rolled(f))

PartView ==
    \A f, c \in Features : Coordinators(f) = {c} =>
        View(f) = Shown(IF PhaseCommitted(c) THEN Rolled(f) ELSE RolledBack(f, c))

LEMMA ViewFree == FreeView
    BY DEF FreeView, View, Shown

LEMMA ViewPart == PartView
<1> SUFFICES ASSUME NEW f \in Features, NEW c \in Features, Coordinators(f) = {c}
             PROVE  View(f) = Shown(IF PhaseCommitted(c) THEN Rolled(f) ELSE RolledBack(f, c))
    BY DEF PartView
<1> DEFINE open == {d \in Coordinators(f) : ~PhaseCommitted(d)}
<1>1. open = IF PhaseCommitted(c) THEN {} ELSE {c}
    OBVIOUS
<1>2. ~PhaseCommitted(c) => (CHOOSE d \in open : TRUE) = c
    BY <1>1
<1>3. View(f) = Shown(IF open = {} THEN Rolled(f) ELSE RolledBack(f, CHOOSE d \in open : TRUE))
    BY DEF View, Shown
<1> QED
    BY <1>1, <1>2, <1>3

\* The same in the next state.
LEMMA ViewNext == FreeView' /\ PartView'
    BY ViewFree, ViewPart, PTL

LEMMA OneCoordinator ==
    ASSUME Disjoint, NEW c \in Features, PM(c) # None, NEW f \in PM(c).parts, f \in Features
    PROVE  Coordinators(f) = {c}
    BY DEF Disjoint, Coordinators, PM

LEMMA SameView ==
    ASSUME NEW f \in Features, files'[f] = files[f], FM(f)' = FM(f),
           Coordinators(f)' = Coordinators(f),
           \A c \in Coordinators(f) :
              /\ PM(c)'.before[f] = PM(c).before[f] /\ PM(c)'.desired[f] = PM(c).desired[f]
              /\ PhaseCommitted(c)' <=> PhaseCommitted(c)
    PROVE  View(f)' = View(f)
<1> DEFINE open == {c \in Coordinators(f) : ~PhaseCommitted(c)}
           choice == CHOOSE c \in open : TRUE
<1>1. open' = open
    OBVIOUS
<1>2. choice' = choice
    BY <1>1
<1>3. open # {} => choice \in Coordinators(f)
    OBVIOUS
<1>4. Rolled(f)' = Rolled(f)
    BY DEF Rolled, FM
<1>5. open # {} => RolledBack(f, choice)' = RolledBack(f, choice)
    BY <1>2, <1>3 DEF RolledBack, PM
<1>6. View(f) = Shown(IF open = {} THEN Rolled(f) ELSE RolledBack(f, choice))
    BY DEF View, Shown
<1>7. View(f)' = Shown(IF open' = {} THEN Rolled(f)' ELSE RolledBack(f, choice)')
    BY DEF View, Shown
<1> QED
    BY <1>1, <1>4, <1>5, <1>6, <1>7

(***************************************************************************)
(* What a step leaves alone.                                               *)
(***************************************************************************)
LEMMA GitKept ==
    ASSUME NEW f \in Features, GitInv(f), head'[f] = head[f], DocChanged(View(f), View(f)'),
           torn' = torn, ahead' = ahead
    PROVE  GitInv(f)'
<1> DEFINE v == View(f)
           w == View(f)'
<1>1. CASE w = v
    BY <1>1 DEF GitInv
<1>2. ASSUME v # None, NEW d \in Nat, w = [v EXCEPT !.doc = d]
      PROVE  GitInv(f)'
    <2>1. v \in Contents /\ (f \notin torn => Whole(v))
        BY <1>2 DEF GitInv
    <2>2. w \in Contents /\ w.log = v.log /\ w.state = v.state
        BY <1>2, <2>1 DEF Contents
    <2>3. w # None /\ (f \notin torn => Whole(w))
        BY <2>1, <2>2, NoneIsNoFile DEF Whole
    <2> HIDE DEF v, w
    <2> QED
        BY <1>2, <2>1, <2>2, <2>3 DEF GitInv, v, w
<1> QED
    BY <1>1, <1>2 DEF DocChanged

LEMMA EditMaps ==
    ASSUME NEW f \in Features, GitInv(f), DocChanged(View(f), View(f)'),
           \A g \in Features \ {f} : View(g)' = View(g)
    PROVE  [H!Operation]_Durable
<1>1. CASE View(f)' = View(f)
    BY <1>1 DEF Durable
<1>2. ASSUME View(f) # None, NEW d \in Nat, View(f)' = [View(f) EXCEPT !.doc = d]
      PROVE  [H!Operation]_Durable
    <2>1. View(f) \in Contents
        BY <1>2 DEF GitInv
    <2>2. View(f)' \in Contents
        BY <1>2, <2>1 DEF Contents
    <2>3. View(f)' # None /\ View(f)' = [View(f) EXCEPT !.doc = View(f)'.doc]
        BY <1>2, <2>1, <2>2, NoneIsNoFile DEF Contents
    <2>4. H!Edit(f)
        BY <1>2, <2>3 DEF H!Edit
    <2> QED
        BY <2>4 DEF H!Operation
<1> QED
    BY <1>1, <1>2 DEF DocChanged

LEMMA FileKept ==
    ASSUME NEW f \in Features, FileInv(f), files'[f] = files[f], FM(f)' = FM(f), f \in dir',
           docs \in Nat, docs' \in Nat, docs <= docs',
           f \in touched /\ FM(f) # None => f \in touched',
           Coordinators(f)' = {} => Coordinators(f) = {} /\ (View(f) # None => View(f)' # None)
    PROVE  FileInv(f)'
    BY DEF FileInv, FM

LEMMA PartKept ==
    ASSUME NEW c \in Features, NEW f \in Features, PartInv(c, f),
           files'[f] = files[f], FM(f)' = FM(f), head'[f].doc = head[f].doc,
           docs \in Nat, docs' \in Nat, docs <= docs', f \in touched => f \in touched',
           PM(c)'.before[f] = PM(c).before[f], PM(c)'.desired[f] = PM(c).desired[f],
           PM(c).before[f] \in Contents, PM(c).desired[f] \in Contents,
           PhaseCommitted(c)' <=> PhaseCommitted(c)
    PROVE  PartInv(c, f)'
    BY DEF PartInv, Contents

LEMMA CommitKept ==
    ASSUME NEW c \in Features, CommitInv(c), PM(c) # None, head' = head,
           PM(c)'.parts = PM(c).parts, PM(c)'.desired = PM(c).desired,
           PM(c).parts \cap touched \subseteq touched'
    PROVE  CommitInv(c)'
    BY DEF CommitInv, CommitReached, PhaseCommitted, PM

(***************************************************************************)
(* The initial state.                                                      *)
(***************************************************************************)
LEMMA InitInv ==
    ASSUME Init
    PROVE  RepoInv
<1> USE DEF Init
<1>1. \A f \in Features : FM(f) = None /\ PM(f) = None /\ files[f] = Missing /\ head[f] = Missing
                          /\ Coordinators(f) = {}
    BY DEF FM, PM, Coordinators
<1>2. \A f \in Features : View(f) = None
    BY <1>1, ViewFree, MissingContents DEF FreeView, Rolled, FM, Shown
<1>3. Types
    BY <1>1, MissingContents DEF Types, FM, PM
<1>4. Disjoint /\ StagedInv
    BY <1>1 DEF Disjoint, StagedInv
<1>5. \A f \in Features : FileInv(f) /\ PhaseInv(f) /\ FreeInv(f)
    BY <1>1 DEF FileInv, PhaseInv, FreeInv
<1>6. \A f \in Features : GitInv(f) /\ CommitInv(f) /\ HeadInv(f)
    BY <1>1, <1>2 DEF GitInv, CommitInv, HeadInv
<1>7. DiskInv
    BY <1>1, <1>3, <1>4, <1>5, <1>6 DEF DiskInv
<1>8. OpInv
    BY DEF OpInv, NoOp, Positions
<1>9. ReadyInv /\ WriteInv /\ BegunInv /\ RollbackInv /\ RedoInv /\ IndexInv
    BY DEF ReadyInv, WriteInv, BegunInv, Begun, RollbackInv, RedoInv, IndexInv, NoOp
<1> QED
    BY <1>6, <1>7, <1>8, <1>9 DEF RepoInv, HeadsInv, CoreInv, RunInv

LEMMA InitMaps ==
    ASSUME Init
    PROVE  H!Init
<1>1. \A f \in Features : View(f) = None
    BY ViewFree, MissingContents DEF FreeView, Init, Rolled, Shown, Coordinators
<1> QED
    BY <1>1 DEF H!Init, Init

(***************************************************************************)
(* Steps that leave the files, the manifests and HEAD alone.               *)
(***************************************************************************)
DiskSame == UNCHANGED <<files, fileManifest, phaseManifest, head, torn, ahead>>

Gone(f) == files[f] = Missing /\ FM(f) = None /\ PM(f) = None

LEMMA DiskFrame ==
    ASSUME DiskInv, DiskSame, dir' \subseteq Features, staged' \subseteq dir' \cup torn, StagedInv',
           docs' \in Nat, docs <= docs', faults' \in Nat, touched' \subseteq Features,
           \A f \in touched \ touched' : Free(f),
           \A f \in dir \ dir' : Gone(f)
    PROVE  DiskInv' /\ UNCHANGED Durable
<1> USE DEF DiskSame
<1>1. \A f \in Features : FM(f)' = FM(f) /\ PM(f)' = PM(f) /\ Coordinators(f)' = Coordinators(f)
                          /\ (Free(f)' <=> Free(f)) /\ (PhaseCommitted(f)' <=> PhaseCommitted(f))
    BY DEF FM, PM, Coordinators, Free, PhaseCommitted
<1>2. \A f \in Features : View(f)' = View(f)
    BY DEF View, Coordinators, PhaseCommitted, Rolled, RolledBack
<1>3. Types'
    <2>1. Types
        BY DEF DiskInv
    <2>2. \A f \in Features : files[f].doc <= docs' /\ head[f].doc <= docs'
        BY <2>1 DEF Types, Contents
    <2>3. \A f \in Features \ dir' : files[f] = Missing /\ FM(f) = None
        BY <2>1 DEF Types, Gone
    <2> QED
        BY <1>1, <2>1, <2>2, <2>3 DEF Types
<1>4. Disjoint'
    BY DEF DiskInv, Disjoint, PM
<1>5. ASSUME NEW f \in Features
      PROVE  FileInv(f)' /\ PhaseInv(f)' /\ CommitInv(f)' /\ GitInv(f)' /\ FreeInv(f)'
    <2>1. FileInv(f)'
        <3>1. CASE FM(f) = None
            BY <1>1, <3>1 DEF FileInv
        <3>2. CASE FM(f) # None
            <4>1. f \in dir' /\ (f \in touched => f \in touched')
                BY <3>2 DEF DiskInv, FileInv, Gone, Free
            <4> QED
                BY <1>1, <1>2, <4>1, FileKept DEF DiskInv, Types
        <3> QED
            BY <3>1, <3>2
    <2>2. PhaseInv(f)'
        <3>1. PM(f) # None => f \in dir'
            BY DEF DiskInv, PhaseInv, Gone
        <3> QED
            BY <3>1 DEF DiskInv, PhaseInv, PM
    <2>3. GitInv(f)' /\ FreeInv(f)'
        BY <1>1, <1>2 DEF DiskInv, GitInv, FreeInv
    <2>4. CommitInv(f)'
        <3>1. CASE PM(f) = None
            BY <1>1, <3>1 DEF CommitInv
        <3>2. CASE PM(f) # None
            <4>1. PM(f).parts \cap touched \subseteq touched'
                BY <3>2 DEF DiskInv, PhaseInv, Free, Coordinators, PM
            <4> QED
                BY <1>1, <3>2, <4>1, CommitKept DEF DiskInv
        <3> QED
            BY <3>1, <3>2
    <2> QED
        BY <2>1, <2>2, <2>3, <2>4
<1>6. ASSUME NEW c \in Features, PM(c)' # None, NEW f \in PM(c)'.parts
      PROVE  PartInv(c, f)'
    <2>1. PM(c) # None /\ f \in PM(c).parts /\ PM(c)' = PM(c)
        BY <1>1, <1>6
    <2>2. f \in Features /\ PM(c).before[f] \in Contents /\ PM(c).desired[f] \in Contents
        BY <2>1 DEF DiskInv, PhaseInv, PhaseManifests
    <2>3. ~Free(f)
        BY <2>1 DEF Free, Coordinators, PM
    <2>4. f \in touched => f \in touched'
        BY <2>3
    <2> QED
        BY <1>1, <2>1, <2>2, <2>4, PartKept DEF DiskInv, Types
<1>7. UNCHANGED Durable
    BY <1>2 DEF Durable
<1> QED
    BY <1>3, <1>4, <1>5, <1>6, <1>7 DEF DiskInv

(***************************************************************************)
(* The operations: what they want written is a legal move.                 *)
(***************************************************************************)
LEMMA FreeUnstaged ==
    ASSUME DiskInv, NEW f \in Features, Free(f)
    PROVE  (f \in staged => f \in torn) /\ PM(f) = None
    BY DEF DiskInv, StagedInv, PhaseInv, PhaseManifests, Free, Coordinators, PM

LEMMA FreeShown ==
    ASSUME NEW f \in Features, Free(f)
    PROVE  View(f) = Shown(files[f])
    BY ViewFree DEF FreeView, Free, FM, Rolled

\* What an operation of f that starts has loaded and wants.
Planned(kind, f, writes, phase) ==
    LET parts == DOMAIN writes
        wanted == [g \in parts |-> Overlay(files[g], writes[g])]
    IN  /\ f \in parts /\ parts \subseteq Features /\ f \in dir'
        /\ \A g \in parts : Free(g)
        /\ IF phase THEN Moves(f, parts, files, wanted)
           ELSE parts = {f} /\ Unapproving(files[f], wanted[f])
        /\ kind = "create" => ~phase /\ files[f] = Missing

LEMMA Started ==
    ASSUME DiskInv, NEW kind, NEW f, NEW writes, NEW phase \in BOOLEAN,
           Start(kind, f, writes, phase), Planned(kind, f, writes, phase),
           \A g \in DOMAIN writes : WritesTo(writes[g], docs'),
           DiskSame, staged' = staged, faults' = faults
    PROVE  RunInv'
<1> DEFINE parts == DOMAIN writes
           wanted == [g \in parts |-> Overlay(files[g], writes[g])]
<1>1. /\ DOMAIN op' = DOMAIN NoOp
      /\ op'.kind = kind /\ op'.f = f /\ op'.writes = writes /\ op'.phase = phase
      /\ op'.parts = parts /\ op'.todo = parts
    BY DEF Start, NoOp
<1>2. pc' = IF phase THEN "phase" ELSE "manifest"
    BY DEF Start
<1>3. OpInv'
    BY <1>1, <1>2 DEF OpInv, Positions, Planned
<1>4. ReadyInv'
    <2>1. \A g \in parts : Free(g)' <=> Free(g)
        BY DEF DiskSame, Free, FM, Coordinators
    <2>2. [g \in op.parts |-> Result(g)]' = wanted
        BY <1>1 DEF Result, DiskSame
    <2>3. Result(f)' = wanted[f]
        BY <1>1 DEF Result, DiskSame, Planned
    <2> HIDE DEF wanted
    <2>4. IF op'.phase THEN Moves(op'.f, op'.parts, files', wanted)
          ELSE op'.parts = {op'.f} /\ Unapproving(files'[op'.f], wanted[f])
        BY <1>1 DEF Planned, wanted, DiskSame
    <2> QED
        BY <1>1, <2>1, <2>2, <2>3, <2>4 DEF ReadyInv, Planned, DiskSame, Writes, WritesTo
<1>5. WriteInv' /\ BegunInv' /\ RollbackInv' /\ RedoInv'
    BY <1>1, <1>2 DEF WriteInv, BegunInv, Begun, RollbackInv, RedoInv
<1>6. IndexInv'
    BY <1>1, <1>2, FreeUnstaged DEF IndexInv, Planned, DiskSame
<1> QED
    BY <1>3, <1>4, <1>5, <1>6 DEF RunInv

\* A feature that loads is free and whole; one that is clean is free.
LEMMA LoadedWhole ==
    ASSUME DiskInv, NEW f \in Features, Loadable(f)
    PROVE  Free(f) /\ Whole(files[f]) /\ files[f] \in Contents /\ f \in dir
           /\ files[f].state \in States /\ files[f].log \in Logs
    BY ContentsPaths DEF Loadable, Free, Whole, DiskInv, Types, FM

LEMMA CleanFree ==
    ASSUME DiskInv, NEW f \in Features, \A g \in Features \ {f} : Clean(g), Free(f)
    PROVE  \A g \in Features : Free(g)
<1>1. \A g \in Features : FM(g) = None
    BY DEF Clean, Free, FM
<1>2. PM(f) = None
    BY FreeUnstaged
<1>3. \A g \in Features : PM(g) = None
    BY <1>2 DEF Clean, PM
<1> QED
    BY <1>1, <1>3 DEF Free, Coordinators, PM

LEMMA CreateKeeps ==
    ASSUME CoreInv, NEW f \in Features, Create(f)
    PROVE  CoreInv' /\ UNCHANGED Durable
<1> DEFINE w == [log |-> Entry(None, NewState), state |-> NewState]
<1>1. DiskInv /\ docs \in Nat
    BY DEF CoreInv, DiskInv, Types
<1>2. \A g \in Features : Free(g)
    BY <1>1 DEF Create, Clean, Free, FM, PM, Coordinators
<1>3. files[f] = Missing /\ dir \subseteq Features /\ staged \subseteq dir \cup torn /\ touched \subseteq Features
      /\ faults \in Nat
    BY <1>1 DEF Create, DiskInv, Types
<1>4. NewState \in States /\ NewState.st = "drafting"
    BY DEF NewState, States
<1>5. /\ Entry(None, NewState) \in Logs /\ Entry(None, NewState).anchor = NewState
      /\ Entry(None, NewState).at = faults
    <2> HIDE DEF w
    <2>1. None \in Logs \cup {None}
        OBVIOUS
    <2> QED
        BY <1>3, <1>4, <2>1, EntryIsLog
<1>6. DOMAIN w = {"log", "state"} /\ w["log"] = Entry(None, NewState) /\ w["state"] = NewState
    OBVIOUS
<1> HIDE DEF w
<1>7. Writes(w) /\ WritesTo(w, docs')
    BY <1>4, <1>5, <1>6 DEF Writes, WritesTo, FilePaths
<1>8. /\ Overlay(files[f], w) \in Contents
      /\ Overlay(files[f], w).log = w["log"] /\ Overlay(files[f], w).state = w["state"]
    BY <1>1, <1>3, <1>6, <1>7, OverlayContents, MissingContents DEF FilePaths
<1>9. Whole(Overlay(files[f], w)) /\ Overlay(files[f], w).state.st = "drafting"
    BY <1>4, <1>5, <1>6, <1>8, NoneIsNoFile DEF Whole
<1>10. Unapproving(files[f], Overlay(files[f], w))
    BY <1>3, <1>9 DEF Unapproving, Creation
<1> DEFINE ws == Only(f, w)
<1>11. DOMAIN ws = {f} /\ ws[f] = w
    BY DEF Only
<1> HIDE DEF ws
<1>12. Start("create", f, ws, FALSE) /\ DiskSame /\ staged' = staged /\ docs' = docs
       /\ dir' = dir \cup {f} /\ faults' = faults
    BY DEF Create, w, ws, DiskSame, Counts, History
<1>13. Planned("create", f, ws, FALSE)
    BY <1>2, <1>3, <1>10, <1>11, <1>12 DEF Planned
<1>14. RunInv'
    BY <1>1, <1>7, <1>11, <1>12, <1>13, Started
<1>15. DiskInv' /\ UNCHANGED Durable
    <2>1. StagedInv'
        BY <1>1, <1>12 DEF DiskInv, StagedInv, DiskSame, PM
    <2>2. touched' \subseteq touched
        BY <1>12 DEF Start
    <2> QED
        BY <1>1, <1>2, <1>3, <1>12, <2>1, <2>2, DiskFrame
<1> QED
    BY <1>14, <1>15 DEF CoreInv

\* What an operation of feature f writes: a journal entry that anchors state s.
Fits(f, w, s) ==
    /\ DOMAIN w \subseteq FilePaths /\ "log" \in DOMAIN w
    /\ w["log"] = Entry(files[f].log, s)
    /\ IF "state" \in DOMAIN w THEN w["state"] = s ELSE s = files[f].state
    /\ s \in States

LEMMA FitsAdvances ==
    ASSUME NEW f \in Features, files[f] \in Contents, Whole(files[f]), faults \in Nat,
           NEW s, NEW w, Fits(f, w, s), "doc" \in DOMAIN w => w["doc"] \in Nat
    PROVE  /\ Overlay(files[f], w) \in Contents /\ Whole(Overlay(files[f], w))
           /\ Overlay(files[f], w).state = s /\ w["log"] \in Logs /\ w["log"].at = faults
           /\ Overlay(files[f], w).log.len > files[f].log.len
<1> DEFINE r == files[f]
<1>1. r.log \in Logs /\ r.state \in States /\ s \in States /\ s # None
    BY NoneIsNoFile, ContentsPaths DEF Whole, Fits
<1>2. w["log"] \in Logs /\ w["log"].anchor = s /\ w["log"].len > r.log.len /\ w["log"].at = faults
    BY <1>1, EntryIsLog, NoneIsNoFile DEF Fits
<1>3. \A p \in DOMAIN w : Byte(p, w[p])
    BY <1>1, <1>2 DEF Byte, Fits, FilePaths
<1>4. /\ Overlay(r, w) \in Contents
      /\ \A p \in FilePaths : Overlay(r, w)[p] = IF p \in DOMAIN w THEN w[p] ELSE r[p]
    BY <1>3, OverlayPaths DEF Fits
<1>5. Overlay(r, w).log = w["log"] /\ Overlay(r, w).state = s
    BY <1>4 DEF FilePaths, Fits
<1> QED
    BY <1>1, <1>2, <1>4, <1>5, NoneIsNoFile DEF Whole

\* An operation of one feature that starts from what a load found.
Starts(kind, f, w, s, phase) ==
    /\ Start(kind, f, Only(f, w), phase) /\ DiskSame /\ staged' = staged /\ faults' = faults
    /\ kind # "create" /\ phase \in BOOLEAN /\ Fits(f, w, s)
    /\ "doc" \in DOMAIN w => w["doc"] \in 0..docs'
    /\ docs' \in Nat /\ docs <= docs'
    /\ H!Legal(files[f].state, s)
    /\ ~phase /\ s.st = "committed" =>
         files[f].state.st = "committed" /\ s.app = files[f].state.app

LEMMA StartsKeep ==
    ASSUME DiskInv, NEW f \in Features, f \in dir', Free(f), Whole(files[f]),
           dir' \subseteq dir, \A g \in dir \ dir' : Free(g) /\ files[g] = Missing,
           NEW kind, NEW w, NEW s, NEW phase, Starts(kind, f, w, s, phase)
    PROVE  CoreInv' /\ UNCHANGED Durable
<1> DEFINE ws == Only(f, w)
<1>1. files[f] \in Contents /\ docs \in Nat /\ dir \subseteq Features /\ staged \subseteq dir \cup torn
      /\ touched \subseteq Features /\ faults \in Nat
    BY DEF DiskInv, Types
<1>2. /\ Overlay(files[f], w) \in Contents /\ Whole(Overlay(files[f], w))
      /\ Overlay(files[f], w).state = s /\ w["log"] \in Logs /\ w["log"].at = faults
      /\ Overlay(files[f], w).log.len > files[f].log.len
    BY <1>1, FitsAdvances DEF Starts
<1>3. Advance(files[f], Overlay(files[f], w))
    BY <1>2 DEF Advance, Starts
<1>4. DOMAIN ws = {f} /\ ws[f] = w
    BY DEF Only
<1> HIDE DEF ws
<1>5. Start(kind, f, ws, phase) /\ DiskSame /\ staged' = staged /\ faults' = faults
    BY DEF Starts, ws
<1>6. Planned(kind, f, ws, phase)
    <2> DEFINE wanted == [g \in DOMAIN ws |-> Overlay(files[g], ws[g])]
    <2>1. wanted[f] = Overlay(files[f], w)
        BY <1>4
    <2> HIDE DEF wanted
    <2>2. phase => Moves(f, DOMAIN ws, files, wanted)
        BY <1>3, <1>4, <2>1 DEF Moves
    <2>3. ~phase => Unapproving(files[f], wanted[f])
        BY <1>2, <1>3, <2>1 DEF Unapproving, Starts, Whole
    <2> QED
        BY <1>4, <2>2, <2>3 DEF Planned, Starts, wanted
<1>7. WritesTo(w, docs')
    BY <1>2 DEF WritesTo, Starts, Fits
<1>8. RunInv'
    BY <1>4, <1>5, <1>6, <1>7, Started DEF Starts
<1>9. DiskInv' /\ UNCHANGED Durable
    <2>1. StagedInv'
        BY <1>5 DEF DiskInv, StagedInv, DiskSame, PM
    <2>2. touched' = touched \ {f}
        BY <1>4, <1>5 DEF Start
    <2>3. \A g \in dir \ dir' : Gone(g) /\ (g \in staged => g \in torn)
        BY <1>1, FreeUnstaged DEF Gone, Free
    <2>4. staged' \subseteq dir' \cup torn /\ dir' \subseteq Features
        BY <1>1, <1>5, <2>3
    <2>5. docs' \in Nat /\ docs <= docs'
        BY DEF Starts
    <2> QED
        BY <1>1, <1>5, <2>1, <2>2, <2>3, <2>4, <2>5, DiskFrame
<1> QED
    BY <1>8, <1>9 DEF CoreInv

LEMMA PublishDraftKeeps ==
    ASSUME CoreInv, NEW f \in Features, PublishDraft(f)
    PROVE  CoreInv' /\ UNCHANGED Durable
<1> DEFINE s == [files[f].state EXCEPT !.st = "published", !.cur = docs + 1]
           w == [doc |-> docs + 1, log |-> Entry(files[f].log, s), state |-> s]
<1>1. DiskInv /\ docs \in Nat /\ Loadable(f)
    BY DEF CoreInv, DiskInv, Types, PublishDraft, Active
<1>2. Free(f) /\ Whole(files[f]) /\ files[f].state \in States /\ f \in dir
    BY <1>1, LoadedWhole
<1>3. s \in States /\ s.st = "published" /\ H!Legal(files[f].state, s)
    <2> DEFINE published == [files[f].state EXCEPT !.st = "published"]
    <2>a. published \in States
        BY <1>2 DEF States
    <2>b. s = [published EXCEPT !.cur = docs + 1]
        BY <1>2 DEF States
    <2>c. docs + 1 \in Nat
        BY <1>1
    <2>1. s \in States
        <3> HIDE DEF s, published
        <3> QED
            BY <2>a, <2>b, <2>c DEF States
    <2>2. /\ s.st = "published" /\ s.app = files[f].state.app /\ s.flow = files[f].state.flow
          /\ s.from = files[f].state.from /\ s.by = files[f].state.by
        BY <1>2 DEF States
    <2>3. files[f].state.st # "committed"
        BY DEF PublishDraft
    <2> QED
        BY <2>1, <2>2, <2>3 DEF H!Legal
<1> HIDE DEF s
<1>4. /\ DOMAIN w = FilePaths /\ w["doc"] = docs + 1
      /\ w["log"] = Entry(files[f].log, s) /\ w["state"] = s
    BY DEF FilePaths
<1> HIDE DEF w
<1>5. Fits(f, w, s)
    BY <1>3, <1>4 DEF Fits, FilePaths
<1>6. Start("draft", f, Only(f, w), FALSE) /\ DiskSame /\ staged' = staged /\ dir' = dir
      /\ docs' = docs + 1 /\ faults' = faults
    BY DEF PublishDraft, DiskSame, Counts, History, s, w
<1>7. Starts("draft", f, w, s, FALSE)
    <2>1. /\ "draft" # "create" /\ FALSE \in BOOLEAN
          /\ "doc" \in DOMAIN w => w["doc"] \in 0..docs'
          /\ docs' \in Nat /\ docs <= docs'
          /\ ~FALSE /\ s.st = "committed" =>
               files[f].state.st = "committed" /\ s.app = files[f].state.app
        BY <1>1, <1>3, <1>4, <1>6
    <2> QED
        BY <1>3, <1>5, <1>6, <2>1, Zenon DEF Starts
<1> QED
    BY <1>1, <1>2, <1>6, <1>7, StartsKeep

LEMMA LogOnlyFits ==
    ASSUME NEW f \in Features, files[f].state \in States
    PROVE  LET w == [log |-> Entry(files[f].log, files[f].state)]
           IN  /\ LogOnly(f) = Only(f, w) /\ DOMAIN w = {"log"}
               /\ Fits(f, w, files[f].state) /\ H!Legal(files[f].state, files[f].state)
    BY DEF LogOnly, Fits, FilePaths, H!Legal

LEMMA NoteKeeps ==
    ASSUME DiskInv, NEW f \in Features, Free(f), Whole(files[f]), f \in dir',
           dir' \subseteq dir, \A g \in dir \ dir' : Free(g) /\ files[g] = Missing,
           NEW name, name # "create", NEW phase \in BOOLEAN,
           Start(name, f, LogOnly(f), phase), DiskSame, UNCHANGED <<docs, staged, faults>>
    PROVE  CoreInv' /\ UNCHANGED Durable
<1> DEFINE w == [log |-> Entry(files[f].log, files[f].state)]
<1>1. files[f].state \in States /\ docs \in Nat
    BY ContentsPaths DEF Whole, DiskInv, Types
<1>2. /\ LogOnly(f) = Only(f, w) /\ DOMAIN w = {"log"}
      /\ Fits(f, w, files[f].state) /\ H!Legal(files[f].state, files[f].state)
    BY <1>1, LogOnlyFits
<1> HIDE DEF w
<1>3. Starts(name, f, w, files[f].state, phase)
    BY <1>1, <1>2 DEF Starts
<1> QED
    BY <1>3, StartsKeep

LEMMA RecordActivityKeeps ==
    ASSUME CoreInv, NEW f \in Features, RecordActivity(f)
    PROVE  CoreInv' /\ UNCHANGED Durable
<1>1. DiskInv /\ Loadable(f)
    BY DEF CoreInv, RecordActivity, Active
<1>2. Start("activity", f, LogOnly(f), FALSE) /\ DiskSame
      /\ UNCHANGED <<docs, staged, dir, faults>>
    BY DEF RecordActivity, DiskSame, Counts, History
<1>3. "activity" # "create" /\ FALSE \in BOOLEAN
    OBVIOUS
<1> QED
    BY <1>1, <1>2, <1>3, LoadedWhole, NoteKeeps

LEMMA CheckpointKeeps ==
    ASSUME CoreInv, NEW f \in Features, Checkpoint(f)
    PROVE  CoreInv' /\ UNCHANGED Durable
<1>1. DiskInv /\ Loadable(f)
    BY DEF CoreInv, Checkpoint, Active
<1>2. Start("checkpoint", f, LogOnly(f), TRUE) /\ DiskSame
      /\ UNCHANGED <<docs, staged, dir, faults>>
    BY DEF Checkpoint, DiskSame, Counts, History
<1>3. "checkpoint" # "create" /\ TRUE \in BOOLEAN
    OBVIOUS
<1> QED
    BY <1>1, <1>2, <1>3, LoadedWhole, NoteKeeps

LEMMA ApproveKeeps ==
    ASSUME CoreInv, NEW f \in Features, Approve(f)
    PROVE  CoreInv' /\ UNCHANGED Durable
<1> DEFINE s == [files[f].state EXCEPT !.st = "committed", !.app = files[f].state.cur]
           w == [log |-> Entry(files[f].log, s), state |-> s]
<1>1. DiskInv /\ docs \in Nat /\ Loadable(f)
    BY DEF CoreInv, DiskInv, Types, Approve, Active
<1>2. Free(f) /\ Whole(files[f]) /\ files[f].state \in States /\ f \in dir
    BY <1>1, LoadedWhole
<1>3. s \in States /\ H!Legal(files[f].state, s)
    BY <1>1, <1>2 DEF States, H!Legal, Approve
<1> HIDE DEF s
<1>4. /\ DOMAIN w = {"log", "state"}
      /\ w["log"] = Entry(files[f].log, s) /\ w["state"] = s
    OBVIOUS
<1> HIDE DEF w
<1>5. Fits(f, w, s)
    BY <1>3, <1>4 DEF Fits, FilePaths
<1>6. Start("approve", f, Only(f, w), TRUE) /\ DiskSame /\ UNCHANGED <<docs, staged, dir, faults>>
    BY DEF Approve, DiskSame, Counts, History, s, w
<1>7. Starts("approve", f, w, s, TRUE)
    <2>1. /\ "approve" # "create" /\ TRUE \in BOOLEAN
          /\ "doc" \in DOMAIN w => w["doc"] \in 0..docs'
          /\ docs' \in Nat /\ docs <= docs'
          /\ ~TRUE /\ s.st = "committed" =>
               files[f].state.st = "committed" /\ s.app = files[f].state.app
        BY <1>1, <1>3, <1>4, <1>6
    <2> QED
        BY <1>3, <1>5, <1>6, <2>1, Zenon DEF Starts
<1> QED
    BY <1>1, <1>2, <1>6, <1>7, StartsKeep

LEMMA ReviseIntentKeeps ==
    ASSUME CoreInv, NEW f \in Features, ReviseIntent(f)
    PROVE  CoreInv' /\ UNCHANGED Durable
<1> DEFINE s == [files[f].state EXCEPT !.cur = files[f].doc, !.app = files[f].doc]
           w == [log |-> Entry(files[f].log, s), state |-> s]
<1>1. DiskInv /\ docs \in Nat /\ Loadable(f)
    BY DEF CoreInv, DiskInv, Types, ReviseIntent, IntentRevised, Active
<1>2. Free(f) /\ Whole(files[f]) /\ files[f].state \in States /\ f \in dir /\ files[f].doc \in Nat
    BY <1>1, LoadedWhole, ContentsPaths
<1>3. s \in States /\ H!Legal(files[f].state, s)
    BY <1>1, <1>2 DEF States, H!Legal, ReviseIntent, IntentRevised
<1> HIDE DEF s
<1>4. /\ DOMAIN w = {"log", "state"}
      /\ w["log"] = Entry(files[f].log, s) /\ w["state"] = s
    OBVIOUS
<1> HIDE DEF w
<1>5. Fits(f, w, s)
    BY <1>3, <1>4 DEF Fits, FilePaths
<1>6. Start("revise", f, Only(f, w), TRUE) /\ DiskSame /\ UNCHANGED <<docs, staged, dir, faults>>
    BY DEF ReviseIntent, DiskSame, Counts, History, s, w
<1>7. Starts("revise", f, w, s, TRUE)
    <2>1. /\ "revise" # "create" /\ TRUE \in BOOLEAN
          /\ "doc" \in DOMAIN w => w["doc"] \in 0..docs'
          /\ docs' \in Nat /\ docs <= docs'
          /\ ~TRUE /\ s.st = "committed" =>
               files[f].state.st = "committed" /\ s.app = files[f].state.app
        BY <1>1, <1>3, <1>4, <1>6
    <2> QED
        BY <1>3, <1>5, <1>6, <2>1, Zenon DEF Starts
<1> QED
    BY <1>1, <1>2, <1>6, <1>7, StartsKeep

LEMMA SupersedeIntentKeeps ==
    ASSUME CoreInv, NEW f \in Features, NEW g \in Features \ {f}, SupersedeIntent(f, g)
    PROVE  CoreInv' /\ UNCHANGED Durable
<1> DEFINE old == [files[f].state EXCEPT !.flow = "superseded", !.by = g]
           new == [NewState EXCEPT !.st = "published", !.cur = files[f].doc, !.from = f]
           wf == [doc |-> head[f].doc, log |-> Entry(files[f].log, old), state |-> old]
           wg == [doc |-> files[f].doc, log |-> Entry(None, new), state |-> new]
           ws == [h \in {f, g} |-> IF h = f THEN wf ELSE wg]
<1>1. DiskInv /\ docs \in Nat /\ Loadable(f) /\ OthersClean(f) /\ files[f].state.st = "committed"
    BY DEF CoreInv, DiskInv, Types, SupersedeIntent, IntentRevised, Active
<1>2. /\ Free(f) /\ Whole(files[f]) /\ files[f].state \in States /\ files[f].log \in Logs /\ f \in dir
      /\ files[f] \in Contents /\ head[f] \in Contents /\ files[f].doc \in 0..docs
      /\ head[f].doc \in 0..docs /\ faults \in Nat
    BY <1>1, LoadedWhole, ContentsPaths DEF DiskInv, Types
<1>3. Free(g) /\ files[g] = Missing
    <2>1. \A h \in Features : Free(h)
        BY <1>1, <1>2, CleanFree DEF OthersClean
    <2>2. g \notin dir
        BY DEF SupersedeIntent
    <2> QED
        BY <1>1, <2>1, <2>2 DEF DiskInv, Types
<1>4. old \in States /\ new \in States /\ new.st = "published" /\ new.from = f
    <2>1. old \in States
        BY <1>2 DEF States
    <2>2. NewState \in States
        BY DEF States, NewState
    <2> DEFINE n1 == [NewState EXCEPT !.st = "published"]
               n2 == [n1 EXCEPT !.cur = files[f].doc]
    <2>3. n1 \in States /\ n1.st = "published"
        BY <2>2 DEF States
    <2>4. n2 \in States /\ n2.st = "published"
        <3> HIDE DEF n1
        <3> QED
            BY <1>2, <2>3 DEF States
    <2>5. new = [n2 EXCEPT !.from = f]
        BY DEF NewState
    <2>6. new \in States /\ new.st = "published" /\ new.from = f
        <3> HIDE DEF n2, new
        <3> QED
            BY <2>4, <2>5 DEF States
    <2> QED
        BY <2>1, <2>6
<1>5. /\ Entry(files[f].log, old) \in Logs /\ Entry(files[f].log, old).anchor = old
      /\ Entry(files[f].log, old).at = faults /\ Entry(files[f].log, old).len > files[f].log.len
    <2>1. files[f].log # None
        BY <1>2, NoneIsNoFile
    <2> HIDE DEF old, new
    <2> QED
        BY <1>2, <1>4, <2>1, EntryIsLog
<1>6. /\ Entry(None, new) \in Logs /\ Entry(None, new).anchor = new
      /\ Entry(None, new).at = faults
    <2> HIDE DEF old, new
    <2> QED
        BY <1>2, <1>4, EntryIsLog
<1>7. /\ DOMAIN ws = {f, g} /\ ws[f] = wf /\ ws[g] = wg
      /\ DOMAIN wf = FilePaths /\ wf["doc"] = head[f].doc /\ wf["state"] = old
      /\ wf["log"] = Entry(files[f].log, old)
      /\ DOMAIN wg = FilePaths /\ wg["doc"] = files[f].doc /\ wg["state"] = new
      /\ wg["log"] = Entry(None, new)
    BY DEF FilePaths
<1>8. Start("supersede", f, ws, TRUE) /\ DiskSame /\ UNCHANGED <<docs, staged, dir, faults>>
    BY DEF SupersedeIntent, DiskSame, Counts, History
<1>9. old = [files[f].state EXCEPT !.flow = "superseded", !.by = g]
    OBVIOUS
<1> HIDE DEF ws, wf, wg, old, new
<1>10. WritesTo(wf, docs) /\ WritesTo(wg, docs)
    <2>1. WritesTo(wf, docs)
        BY <1>2, <1>4, <1>5, <1>7 DEF WritesTo, FilePaths
    <2>2. WritesTo(wg, docs)
        BY <1>2, <1>4, <1>6, <1>7 DEF WritesTo, FilePaths
    <2> QED
        BY <2>1, <2>2
<1> DEFINE t == Overlay(files[f], wf)
           u == Overlay(files[g], wg)
<1>11. t.log = wf["log"] /\ t.state = old /\ u.log = wg["log"] /\ u.state = new
    BY <1>1, <1>2, <1>3, <1>7, <1>10, OverlayContents, MissingContents DEF FilePaths, Writes
<1> HIDE DEF t, u
<1>12. Whole(t) /\ Whole(u) /\ t.log.len > files[f].log.len
    BY <1>4, <1>5, <1>6, <1>7, <1>11, NoneIsNoFile DEF Whole
<1>13. Supersession(f, g, files[f], t, u)
    BY <1>1, <1>2, <1>4, <1>9, <1>11, <1>12 DEF Supersession
<1>14. Planned("supersede", f, ws, TRUE)
    <2> DEFINE wanted == [h \in DOMAIN ws |-> Overlay(files[h], ws[h])]
    <2>1. wanted[f] = t /\ wanted[g] = u
        BY <1>7 DEF t, u
    <2> HIDE DEF wanted
    <2>2. Moves(f, DOMAIN ws, files, wanted)
        BY <1>3, <1>7, <1>13, <2>1 DEF Moves
    <2> QED
        BY <1>2, <1>3, <1>7, <1>8, <2>2 DEF Planned, wanted
<1>15. \A h \in DOMAIN ws : WritesTo(ws[h], docs')
    BY <1>7, <1>8, <1>10
<1>16. RunInv'
    <2>1. PICK phase \in BOOLEAN : phase
        OBVIOUS
    <2>2. Start("supersede", f, ws, phase) /\ Planned("supersede", f, ws, phase)
        BY <1>8, <1>14, <2>1, Zenon
    <2> QED
        BY <1>1, <1>8, <1>15, <2>2, Started
<1>17. DiskInv' /\ UNCHANGED Durable
    <2>1. StagedInv'
        BY <1>1, <1>8 DEF DiskInv, StagedInv, DiskSame, PM
    <2>2. touched' = touched \ {f, g} /\ dir \subseteq Features /\ staged \subseteq dir \cup torn
          /\ touched \subseteq Features
        BY <1>1, <1>7, <1>8 DEF Start, DiskInv, Types
    <2> QED
        BY <1>1, <1>2, <1>3, <1>8, <2>1, <2>2, DiskFrame
<1> QED
    BY <1>16, <1>17 DEF CoreInv

\* An operation that ends leaves its manifests to a load.
LEMMA EndedKeeps ==
    ASSUME DiskInv', pc' = "idle", op' = NoOp
    PROVE  CoreInv'
<1>1. OpInv'
    BY DEF OpInv, NoOp, Positions
<1>2. ReadyInv' /\ WriteInv' /\ BegunInv' /\ RollbackInv' /\ RedoInv' /\ IndexInv'
    BY DEF ReadyInv, WriteInv, BegunInv, Begun, RollbackInv, RedoInv, IndexInv, NoOp
<1> QED
    BY <1>1, <1>2 DEF CoreInv, RunInv

LEMMA FinishRollbackKeeps ==
    ASSUME CoreInv, FinishRollback
    PROVE  CoreInv' /\ UNCHANGED Durable
<1> DEFINE f == op.f
           gone == {g \in op.parts \ {op.f} : files[g] = Missing}
<1>1. DiskInv /\ pc = "rmdir"
    BY DEF CoreInv, FinishRollback
<1>2. /\ f \in op.parts /\ op.parts \subseteq Features /\ f \in dir
      /\ \A g \in op.parts : Free(g)
    BY <1>1 DEF CoreInv, RunInv, OpInv, RollbackInv
<1>3. dir' = dir \ gone /\ DiskSame /\ UNCHANGED <<docs, staged, faults>>
    BY DEF FinishRollback, DiskSame, Counts, History
<1>4. \A g \in dir \ dir' : Free(g) /\ files[g] = Missing
    BY <1>2, <1>3
<1>5. f \in dir' /\ dir' \subseteq dir /\ f \in Features
    BY <1>2, <1>3
<1> HIDE DEF f, gone
<1>6. CASE Notes
    <2>1. Whole(files[f])
        BY <1>1, <1>5, <1>6, LoadedWhole DEF Notes, f
    <2>2. PICK phase \in BOOLEAN : ~phase
        OBVIOUS
    <2>3. Start("note", f, LogOnly(f), phase)
        BY <1>6, <2>2, Zenon DEF FinishRollback, f
    <2> QED
        BY <1>1, <1>2, <1>3, <1>4, <1>5, <2>1, <2>3, NoteKeeps
<1>7. CASE ~Notes
    <2>1. pc' = "idle" /\ op' = NoOp /\ touched' = touched
        BY <1>7 DEF FinishRollback
    <2>2. StagedInv'
        BY <1>1, <1>3 DEF DiskInv, StagedInv, DiskSame, PM
    <2>3. \A g \in dir \ dir' : Gone(g) /\ (g \in staged => g \in torn)
        BY <1>1, <1>4, FreeUnstaged DEF DiskInv, Types, Gone, Free
    <2>4. /\ staged' \subseteq dir' \cup torn /\ dir' \subseteq Features /\ touched' \subseteq Features
          /\ docs \in Nat /\ faults \in Nat
        BY <1>1, <1>3, <1>5, <2>1, <2>3 DEF DiskInv, Types
    <2>5. DiskInv' /\ UNCHANGED Durable
        BY <1>1, <1>3, <2>1, <2>2, <2>3, <2>4, DiskFrame
    <2> QED
        BY <2>1, <2>5, EndedKeeps
<1> QED
    BY <1>6, <1>7

(***************************************************************************)
(* Steps of an operation that change neither a file nor a manifest.        *)
(***************************************************************************)
\* What a phase that has begun holds stays as it is.
LEMMA HeldSame ==
    ASSUME DiskSame, op' = op, docs' = docs, faults' = faults, touched' = touched
    PROVE  /\ PM(op.f)' = PM(op.f) /\ (PhaseCommitted(op.f)' <=> PhaseCommitted(op.f))
           /\ \A f : FM(f)' = FM(f)
           /\ \A f : Holds(f, PM(op.f).desired)' <=> Holds(f, PM(op.f).desired)
           /\ \A f : Holds(f, PM(op.f).before)' <=> Holds(f, PM(op.f).before)
           /\ \A f : Writes(op.writes[f])' <=> Writes(op.writes[f])
<1> USE DEF DiskSame
<1>1. PM(op.f)' = PM(op.f) /\ (PhaseCommitted(op.f)' <=> PhaseCommitted(op.f)) /\ \A f : FM(f)' = FM(f)
    BY DEF PM, FM, PhaseCommitted
<1>2. \A f, p : Has(f, p, PM(op.f).desired)' <=> Has(f, p, PM(op.f).desired)
    BY <1>1 DEF Has
<1>3. \A f, p : Has(f, p, PM(op.f).before)' <=> Has(f, p, PM(op.f).before)
    BY <1>1 DEF Has
<1>4. \A f : Writes(op.writes[f])' <=> Writes(op.writes[f])
    BY DEF Writes, WritesTo
<1> QED
    BY <1>1, <1>2, <1>3, <1>4 DEF Holds

LEMMA MakeDirKeeps ==
    ASSUME CoreInv, MakeDir
    PROVE  CoreInv' /\ UNCHANGED Durable
<1>1. DiskInv /\ RunInv
    BY DEF CoreInv
<1>2. /\ op.phase /\ op.f \in op.parts /\ op.parts \subseteq Features /\ Begun /\ pc = "mkdir"
      /\ op.kind # "create"
    BY <1>1 DEF RunInv, OpInv, Begun, MakeDir
<1>3. DiskInv' /\ UNCHANGED Durable
    <2>1. StagedInv' /\ DiskSame
        BY <1>1 DEF DiskInv, StagedInv, PM, MakeDir, DiskSame, Bookkeeping, History
    <2>2. dir' \subseteq Features /\ staged' \subseteq dir' \cup torn /\ touched' = touched
          /\ touched \subseteq Features /\ docs' = docs /\ docs \in Nat /\ dir \subseteq dir'
          /\ faults' \in Nat
        BY <1>1, <1>2 DEF DiskInv, Types, MakeDir, Bookkeeping
    <2> QED
        BY <1>1, <2>1, <2>2, DiskFrame
<1>4. OpInv' /\ ReadyInv' /\ WriteInv' /\ RollbackInv' /\ RedoInv' /\ IndexInv'
    BY <1>1, <1>2
       DEF RunInv, OpInv, Positions, ReadyInv, WriteInv, RollbackInv, RedoInv, IndexInv, MakeDir,
           Bookkeeping, History
<1>5. BegunInv'
    <2>1. DiskSame /\ op' = op /\ docs' = docs /\ dir' = dir \cup op.parts /\ pc' = "manifest"
          /\ faults' = faults /\ touched' = touched
        BY DEF MakeDir, DiskSame, Bookkeeping, History
    <2> QED
        BY <1>1, <1>2, <2>1, HeldSame DEF RunInv, BegunInv, Begun, DiskSame
<1> QED
    BY <1>3, <1>4, <1>5 DEF CoreInv, RunInv

LEMMA AddToIndexKeeps ==
    ASSUME CoreInv, AddToIndex
    PROVE  CoreInv' /\ UNCHANGED Durable
<1>1. DiskInv /\ RunInv
    BY DEF CoreInv
<1>2. /\ op.phase /\ op.f \in op.parts /\ op.parts \subseteq Features /\ Begun /\ pc = "add"
      /\ op.kind # "create"
    BY <1>1 DEF RunInv, OpInv, Begun, AddToIndex
<1>3. /\ PM(op.f) # None /\ PM(op.f).parts = op.parts /\ op.index = PM(op.f).index
      /\ op.parts \subseteq dir
    BY <1>1, <1>2 DEF RunInv, BegunInv
<1>4. op.index \subseteq op.parts
    BY <1>1, <1>2, <1>3 DEF DiskInv, PhaseInv, PhaseManifests
<1>5. DiskInv' /\ UNCHANGED Durable
    <2>1. StagedInv'
        BY <1>1, <1>2, <1>3 DEF DiskInv, StagedInv, PM, AddToIndex, Bookkeeping, History
    <2>2. staged' \subseteq dir' \cup torn /\ DiskSame
        BY <1>1, <1>3, <1>4 DEF DiskInv, Types, AddToIndex, Bookkeeping, History, DiskSame
    <2>3. dir' = dir /\ touched' = touched /\ touched \subseteq Features /\ dir \subseteq Features
          /\ docs' = docs /\ docs \in Nat /\ faults' \in Nat
        BY <1>1 DEF DiskInv, Types, AddToIndex, Bookkeeping
    <2> QED
        BY <1>1, <2>1, <2>2, <2>3, DiskFrame
<1>6. OpInv' /\ ReadyInv' /\ WriteInv' /\ RollbackInv' /\ RedoInv'
    BY <1>1, <1>2
       DEF RunInv, OpInv, Positions, ReadyInv, WriteInv, RollbackInv, RedoInv, AddToIndex
<1>7. IndexInv'
    BY <1>1, <1>2, <1>3, <1>4 DEF RunInv, IndexInv, AddToIndex, PM, Bookkeeping, History
<1>8. BegunInv'
    <2>1. DiskSame /\ op' = op /\ docs' = docs /\ dir' = dir /\ pc' = "commit"
          /\ faults' = faults /\ touched' = touched
        BY DEF AddToIndex, DiskSame, Bookkeeping, History
    <2> QED
        BY <1>1, <1>2, <2>1, HeldSame DEF RunInv, BegunInv, Begun, DiskSame
<1> QED
    BY <1>5, <1>6, <1>7, <1>8 DEF CoreInv, RunInv

LEMMA CommitFailsKeeps ==
    ASSUME CoreInv, CommitFails
    PROVE  CoreInv' /\ UNCHANGED Durable
<1>1. DiskInv /\ RunInv
    BY DEF CoreInv
<1>2. /\ op.phase /\ op.f \in op.parts /\ op.parts \subseteq Features /\ Begun
      /\ pc \in {"index", "add", "commit"} /\ op.kind # "create"
    BY <1>1 DEF RunInv, OpInv, Begun, CommitFails
<1>3. /\ PM(op.f) # None /\ PM(op.f).parts = op.parts /\ \A f \in op.parts : FM(f) = None
      /\ ~PhaseCommitted(op.f)
    BY <1>1, <1>2 DEF RunInv, BegunInv, PhaseCommitted, PM
<1>4. DiskInv' /\ UNCHANGED Durable
    <2>1. StagedInv' /\ DiskSame
        BY <1>1 DEF DiskInv, StagedInv, PM, CommitFails, DiskSame, History
    <2>2. dir' = dir /\ staged' = staged /\ touched' = touched /\ touched \subseteq Features
          /\ dir \subseteq Features /\ staged \subseteq dir \cup torn /\ docs' = docs /\ docs \in Nat
          /\ faults' \in Nat
        BY <1>1 DEF DiskInv, Types, CommitFails
    <2> QED
        BY <1>1, <2>1, <2>2, DiskFrame
<1>5. OpInv' /\ ReadyInv' /\ WriteInv' /\ BegunInv' /\ RedoInv'
    BY <1>1, <1>2
       DEF RunInv, OpInv, Positions, ReadyInv, WriteInv, BegunInv, Begun, RedoInv, CommitFails
<1>6. RollbackInv'
    BY <1>2, <1>3 DEF RollbackInv, CommitFails, PM, FM, PhaseCommitted
<1>7. IndexInv'
    BY <1>1, <1>2 DEF RunInv, IndexInv, CommitFails, PM, History
<1> QED
    BY <1>4, <1>5, <1>6, <1>7 DEF CoreInv, RunInv

\* The index is reset or is not, and the files are restored in any case.
LEMMA RestoreBegins ==
    ASSUME CoreInv, pc = "rollback", NEW failed \in BOOLEAN, BeginRestore(failed),
           UNCHANGED <<touched, torn, ahead>>, faults' \in Nat,
           staged' = staged \/ staged' = staged \ phaseManifest[op.f].index,
           failed \/ staged' = staged \ phaseManifest[op.f].index,
           failed => \A h \in op.parts : head[h] = Missing \/ head[h].log.at < faults'
    PROVE  CoreInv' /\ UNCHANGED Durable
<1> DEFINE one == Paths(op.f)
           g == CHOOSE h \in op.parts : h # op.f
           both == Paths(op.f) \o Paths(g)
           left == IF op.parts = {op.f} THEN one ELSE both
<1>1. DiskInv /\ RunInv
    BY DEF CoreInv
<1>2. /\ op.f \in op.parts /\ op.parts \subseteq Features /\ pc = "rollback"
      /\ DOMAIN op = DOMAIN NoOp
    BY <1>1 DEF RunInv, OpInv
<1>3. /\ PM(op.f) # None /\ PM(op.f).parts = op.parts /\ \A f \in op.parts : FM(f) = None
      /\ ~PhaseCommitted(op.f)
    BY <1>1, <1>2 DEF RunInv, RollbackInv
<1>4. left \in Seq(op.parts \X FilePaths) /\ Names(left) = op.parts \X FilePaths
    <2>1. CASE op.parts = {op.f}
        BY <2>1, NamesOfPaths
    <2>2. CASE op.parts # {op.f}
        <3>1. PICK h \in Features \ {op.f} : op.parts = {op.f, h}
            BY <1>1, <1>2, <1>3, <2>2 DEF DiskInv, PhaseInv, Moves
        <3>2. g = h
            BY <3>1
        <3> HIDE DEF g
        <3>3. /\ Paths(op.f) \in Seq(op.parts \X FilePaths) /\ Paths(g) \in Seq(op.parts \X FilePaths)
              /\ Names(Paths(op.f)) = {op.f} \X FilePaths /\ Names(Paths(g)) = {g} \X FilePaths
            <4>1. Paths(op.f) \in Seq({op.f} \X FilePaths) /\ Paths(g) \in Seq({g} \X FilePaths)
                BY NamesOfPaths
            <4>2. {op.f} \X FilePaths \subseteq op.parts \X FilePaths
                  /\ {g} \X FilePaths \subseteq op.parts \X FilePaths
                BY <1>2, <3>1, <3>2
            <4> QED
                BY <4>1, <4>2, NamesOfPaths
        <3>4. both \in Seq(op.parts \X FilePaths) /\ Names(both) = Names(Paths(op.f)) \cup Names(Paths(g))
            BY <3>3, NamesOfBoth
        <3>5. op.parts \X FilePaths = ({op.f} \X FilePaths) \cup ({g} \X FilePaths)
            BY <3>1, <3>2
        <3> QED
            BY <2>2, <3>3, <3>4, <3>5
    <2> QED
        BY <2>1, <2>2
<1> HIDE DEF left
<1>5. /\ op' = [op EXCEPT !.failed = failed, !.left = left] /\ pc' = "restore" /\ DiskSame
      /\ staged' = staged \/ staged' = staged \ PM(op.f).index
      /\ UNCHANGED <<dir, docs>>
    BY DEF BeginRestore, left, DiskSame, PM
<1>6. /\ op'.left = left /\ op'.f = op.f /\ op'.parts = op.parts /\ op'.phase = op.phase
      /\ op'.kind = op.kind /\ op'.failed = failed /\ DOMAIN op' = DOMAIN NoOp
    BY <1>2, <1>5 DEF NoOp
<1>7. DiskInv' /\ UNCHANGED Durable
    <2>1. StagedInv'
        BY <1>1, <1>5 DEF DiskInv, StagedInv, PM, DiskSame
    <2>2. touched \subseteq Features /\ dir \subseteq Features /\ staged \subseteq dir \cup torn /\ docs \in Nat
        BY <1>1 DEF DiskInv, Types
    <2> QED
        BY <1>1, <1>5, <2>1, <2>2, DiskFrame
<1>8. OpInv' /\ ReadyInv' /\ WriteInv' /\ BegunInv' /\ RedoInv'
    BY <1>1, <1>2, <1>5, <1>6
       DEF RunInv, OpInv, Positions, ReadyInv, WriteInv, BegunInv, Begun, RedoInv
<1>9. RollbackInv'
    BY <1>2, <1>3, <1>4, <1>5, <1>6 DEF RollbackInv, PM, FM, PhaseCommitted, DiskSame
<1>10. IndexInv'
    BY <1>1, <1>2, <1>5, <1>6 DEF RunInv, IndexInv, PM, DiskSame
<1> QED
    BY <1>7, <1>8, <1>9, <1>10 DEF CoreInv, RunInv

LEMMA RollbackIndexKeeps ==
    ASSUME CoreInv, RollbackIndex
    PROVE  CoreInv' /\ UNCHANGED Durable
<1>1. pc = "rollback" /\ UNCHANGED <<touched, torn, ahead>> /\ faults' \in Nat
    BY DEF RollbackIndex, Bookkeeping, History, CoreInv, DiskInv, Types
<1>2. PICK failed \in BOOLEAN : ~failed
    OBVIOUS
<1>3. BeginRestore(failed) /\ staged' = staged \ phaseManifest[op.f].index
    BY <1>2, Zenon DEF RollbackIndex
<1> QED
    BY <1>1, <1>2, <1>3, RestoreBegins

LEMMA RollbackIndexFailsKeeps ==
    ASSUME RepoInv, RollbackIndexFails
    PROVE  CoreInv' /\ UNCHANGED Durable
<1>1. /\ pc = "rollback" /\ UNCHANGED <<touched, torn, ahead, staged>>
      /\ faults \in Nat /\ faults' = faults + 1
    BY DEF RollbackIndexFails, History, RepoInv, CoreInv, DiskInv, Types
<1>2. PICK failed \in BOOLEAN : failed
    OBVIOUS
<1>3. BeginRestore(failed)
    BY <1>2, Zenon DEF RollbackIndexFails
<1>4. op.parts \subseteq Features
    BY <1>1 DEF RepoInv, CoreInv, RunInv, OpInv
<1>5. \A h \in op.parts : head[h] = Missing \/ head[h].log.at < faults'
    BY <1>1, <1>4 DEF RepoInv, HeadsInv, HeadInv
<1>6. faults' \in Nat
    BY <1>1
<1>7. /\ failed \/ staged' = staged \ phaseManifest[op.f].index
      /\ failed => \A h \in op.parts : head[h] = Missing \/ head[h].log.at < faults'
    BY <1>2, <1>5, Zenon
<1>8. staged' = staged \/ staged' = staged \ phaseManifest[op.f].index
    BY <1>1
<1>9. CoreInv /\ pc = "rollback" /\ UNCHANGED <<touched, torn, ahead>>
    BY <1>1 DEF RepoInv
<1> QED
    BY <1>3, <1>6, <1>7, <1>8, <1>9, RestoreBegins, Zenon

LEMMA StopKeeps ==
    ASSUME CoreInv, Stop
    PROVE  CoreInv' /\ UNCHANGED Durable
<1>1. DiskInv
    BY DEF CoreInv
<1>2. StagedInv' /\ DiskSame
    BY <1>1 DEF DiskInv, StagedInv, PM, Stop, DiskSame, History
<1>3. dir' = dir /\ staged' = staged /\ touched' = touched /\ touched \subseteq Features
      /\ dir \subseteq Features /\ staged \subseteq dir \cup torn /\ docs' = docs /\ docs \in Nat
      /\ faults' \in Nat
    BY <1>1 DEF DiskInv, Types, Stop
<1>4. DiskInv' /\ UNCHANGED Durable
    BY <1>1, <1>2, <1>3, DiskFrame
<1> QED
    BY <1>4, EndedKeeps DEF Stop

LEMMA CreateFailsKeeps ==
    ASSUME CoreInv, CreateFails
    PROVE  CoreInv' /\ UNCHANGED Durable
<1>1. DiskInv /\ RunInv
    BY DEF CoreInv
<1>2. files[op.f] = Missing /\ Free(op.f) /\ op.f \in Features
    BY <1>1 DEF RunInv, OpInv, ReadyInv, CreateFails
<1>3. Gone(op.f) /\ (op.f \in staged => op.f \in torn)
    BY <1>1, <1>2, FreeUnstaged DEF Gone, Free
<1>4. StagedInv' /\ DiskSame
    BY <1>1 DEF DiskInv, StagedInv, PM, CreateFails, DiskSame, History
<1>5. dir' = dir \ {op.f} /\ staged' = staged /\ touched' = touched /\ touched \subseteq Features
      /\ dir \subseteq Features /\ staged \subseteq dir \cup torn /\ docs' = docs /\ docs \in Nat
      /\ faults' \in Nat
    BY <1>1 DEF DiskInv, Types, CreateFails
<1>6. DiskInv' /\ UNCHANGED Durable
    BY <1>1, <1>3, <1>4, <1>5, DiskFrame
<1> QED
    BY <1>6, EndedKeeps DEF CreateFails

LEMMA RollPhaseBackKeeps ==
    ASSUME CoreInv, NEW c \in Features, RollPhaseBack(c)
    PROVE  CoreInv' /\ UNCHANGED Durable
<1>1. DiskInv /\ PM(c) # None
    BY DEF CoreInv, RollPhaseBack, PhaseReady, PM
<1>2. /\ c \in PM(c).parts /\ PM(c).parts \subseteq Features /\ \A f \in PM(c).parts : FM(f) = None
    BY <1>1 DEF DiskInv, PhaseInv, PhaseManifests, RollPhaseBack, PhaseReady, PM, FM
<1>3. ~PhaseCommitted(c)
    BY DEF RollPhaseBack
<1>4. op' = [NoOp EXCEPT !.kind = "recover", !.f = c, !.parts = PM(c).parts] /\ pc' = "rollback"
      /\ DiskSame /\ UNCHANGED <<dir, staged, docs, touched, faults>>
    BY DEF RollPhaseBack, DiskSame, PM, Bookkeeping, History
<1>5. /\ op'.f = c /\ op'.parts = PM(c).parts /\ op'.phase = FALSE /\ op'.kind = "recover"
      /\ DOMAIN op' = DOMAIN NoOp
    BY <1>4 DEF NoOp
<1>6. DiskInv' /\ UNCHANGED Durable
    <2>1. StagedInv'
        BY <1>1, <1>4 DEF DiskInv, StagedInv, PM, DiskSame
    <2>2. touched \subseteq Features /\ dir \subseteq Features /\ staged \subseteq dir \cup torn /\ docs \in Nat
          /\ faults \in Nat
        BY <1>1 DEF DiskInv, Types
    <2> QED
        BY <1>1, <1>4, <2>1, <2>2, DiskFrame
<1>7. OpInv' /\ ReadyInv' /\ WriteInv' /\ BegunInv' /\ RedoInv'
    BY <1>2, <1>4, <1>5 DEF OpInv, Positions, ReadyInv, WriteInv, BegunInv, Begun, RedoInv
<1>8. RollbackInv'
    BY <1>1, <1>2, <1>3, <1>4, <1>5 DEF RollbackInv, PM, FM, PhaseCommitted, DiskSame
<1>9. IndexInv'
    <2>1. PM(c).parts \cap staged \subseteq PM(c).index \cup torn
        BY <1>1, <1>2 DEF DiskInv, StagedInv, Disjoint, PhaseInv, PhaseManifests
    <2> QED
        BY <1>4, <1>5, <2>1 DEF IndexInv, PM, DiskSame
<1> QED
    BY <1>6, <1>7, <1>8, <1>9 DEF CoreInv, RunInv

(***************************************************************************)
(* One file changes.                                                       *)
(***************************************************************************)
LEMMA DocOnly ==
    ASSUME NEW r \in Contents, NEW t \in Contents, r.log = t.log, r.state = t.state
    PROVE  DocChanged(Shown(r), Shown(t))
<1>1. CASE r.state = None
    BY <1>1 DEF Shown, DocChanged
<1>2. CASE r.state # None
    <2>1. Shown(r) = r /\ Shown(t) = t /\ r # None
        BY <1>2, NoneIsNoFile DEF Shown
    <2>2. t = [r EXCEPT !.doc = t.doc] /\ t.doc \in Nat
        BY DEF Contents
    <2> QED
        BY <2>1, <2>2 DEF DocChanged
<1> QED
    BY <1>1, <1>2

FileTypes(f) ==
    FM(f) # None =>
        /\ DOMAIN FM(f) \subseteq FilePaths /\ "log" \in DOMAIN FM(f)
        /\ FM(f)["log"].after \in Logs
        /\ "state" \in DOMAIN FM(f) => FM(f)["state"].after \in States
        /\ "doc" \in DOMAIN FM(f) => FM(f)["doc"].after \in Nat

\* A file as a load that rolls the manifest of f forward leaves it.
RolledFile(f, p) ==
    IF p \in DOMAIN FM(f) /\ files[f][p] \in {FM(f)[p].before, FM(f)[p].after}
    THEN FM(f)[p].after ELSE files[f][p]

RolledFiles ==
    \A f \in Features : files[f] \in Contents /\ FileTypes(f) =>
        /\ Rolled(f) \in Contents
        /\ FM(f) = None => Rolled(f) = files[f]
        /\ FM(f) # None => \A p \in FilePaths : Rolled(f)[p] = RolledFile(f, p)

LEMMA RolledContents == RolledFiles
<1> SUFFICES ASSUME NEW f \in Features, files[f] \in Contents, FileTypes(f), FM(f) # None
             PROVE  Rolled(f) \in Contents /\ \A p \in FilePaths : Rolled(f)[p] = RolledFile(f, p)
    BY DEF RolledFiles, Rolled, FM
<1>1. Rolled(f) = [p \in {"doc", "log", "state"} |-> RolledFile(f, p)]
    BY DEF Rolled, RolledFile, FM, Missing
<1>2. /\ RolledFile(f, "doc") \in Nat
      /\ RolledFile(f, "log") \in Logs \cup {None}
      /\ RolledFile(f, "state") \in States \cup {None}
    BY ContentsPaths DEF RolledFile, FileTypes, FilePaths
<1>3. Rolled(f) = [doc |-> RolledFile(f, "doc"), log |-> RolledFile(f, "log"),
                   state |-> RolledFile(f, "state")]
    BY <1>1
<1>4. Rolled(f) \in Contents
    BY <1>2, <1>3 DEF Contents
<1> QED
    BY <1>1, <1>4 DEF FilePaths

LEMMA RolledNext == RolledFiles'
    BY RolledContents, PTL

LEMMA OneFeature ==
    ASSUME DiskInv, NEW f \in Features, f \in dir,
           UNCHANGED <<dir, phaseManifest, head, staged, torn, ahead, faults>>,
           files' \in [Features -> Contents], files'[f].doc <= docs',
           DOMAIN fileManifest' = Features,
           \A g \in Features \ {f} : files'[g] = files[g] /\ FM(g)' = FM(g),
           docs' \in Nat, docs <= docs', touched \subseteq touched', touched' \subseteq Features,
           FileInv(f)', FreeInv(f)', GitInv(f)',
           \A c \in Features : PM(c) # None /\ f \in PM(c).parts => PartInv(c, f)'
    PROVE  DiskInv' /\ \A g \in Features \ {f} : View(g)' = View(g)
<1>1. \A g \in Features : PM(g)' = PM(g) /\ Coordinators(g)' = Coordinators(g)
                          /\ (PhaseCommitted(g)' <=> PhaseCommitted(g))
    BY DEF PM, Coordinators, PhaseCommitted
<1>2. ASSUME NEW g \in Features \ {f}
      PROVE  View(g)' = View(g)
    <2>1. \A c \in Coordinators(g) : c \in Features
        BY DEF Coordinators
    <2> QED
        BY <1>1, <2>1, SameView
<1>3. Types'
    <2>1. Types
        BY DEF DiskInv
    <2>2. \A g \in Features : files'[g].doc <= docs' /\ head[g].doc <= docs'
        BY <2>1 DEF Types, Contents
    <2>3. \A g \in Features \ dir : files'[g] = Missing /\ FM(g)' = None
        BY <2>1 DEF Types
    <2> QED
        BY <2>1, <2>2, <2>3 DEF Types
<1>4. Disjoint' /\ StagedInv'
    BY <1>1 DEF DiskInv, Disjoint, StagedInv
<1>5. ASSUME NEW g \in Features
      PROVE  FileInv(g)' /\ PhaseInv(g)' /\ CommitInv(g)' /\ GitInv(g)' /\ FreeInv(g)'
    <2>1. PhaseInv(g)' /\ CommitInv(g)'
        <3>1. PhaseInv(g)'
            BY <1>1 DEF DiskInv, PhaseInv
        <3>2. CASE PM(g) = None
            BY <1>1, <3>1, <3>2 DEF CommitInv
        <3>3. CASE PM(g) # None
            <4>1. PM(g).parts \cap touched \subseteq touched'
                OBVIOUS
            <4> QED
                BY <1>1, <3>1, <3>3, <4>1, CommitKept DEF DiskInv
        <3> QED
            BY <3>2, <3>3
    <2>2. CASE g = f
        BY <2>1, <2>2
    <2>3. CASE g # f
        <3>1. FileInv(g)'
            <4>1. CASE FM(g) = None
                BY <2>3, <4>1 DEF FileInv
            <4>2. CASE FM(g) # None
                <5>1. g \in dir'
                    BY <4>2 DEF DiskInv, FileInv
                <5> QED
                    BY <1>1, <1>2, <2>3, <5>1, FileKept DEF DiskInv, Types
            <4> QED
                BY <4>1, <4>2
        <3>2. GitInv(g)' /\ FreeInv(g)'
            BY <1>1, <1>2, <2>3 DEF DiskInv, GitInv, FreeInv, Free
        <3> QED
            BY <2>1, <3>1, <3>2
    <2> QED
        BY <2>2, <2>3
<1>6. ASSUME NEW c \in Features, PM(c)' # None, NEW g \in PM(c)'.parts
      PROVE  PartInv(c, g)'
    <2>1. PM(c) # None /\ g \in PM(c).parts /\ PM(c)' = PM(c)
        BY <1>1, <1>6
    <2>2. g \in Features /\ PM(c).before[g] \in Contents /\ PM(c).desired[g] \in Contents
        BY <2>1 DEF DiskInv, PhaseInv, PhaseManifests
    <2>3. CASE g = f
        BY <2>1, <2>3
    <2>4. CASE g # f
        BY <1>1, <2>1, <2>2, <2>4, PartKept DEF DiskInv, Types
    <2> QED
        BY <2>3, <2>4
<1> QED
    BY <1>2, <1>3, <1>4, <1>5, <1>6 DEF DiskInv

\* File p of feature f becomes v.
Becomes(f, p, v) ==
    /\ p \in FilePaths /\ Byte(p, v) /\ files' = [files EXCEPT ![f][p] = v]
    /\ UNCHANGED <<dir, fileManifest, phaseManifest, head, staged, torn, ahead, faults>>
    /\ docs' \in Nat /\ docs <= docs' /\ touched \subseteq touched' /\ touched' \subseteq Features

\* The conditions under which that is a step of a manifest: v is one of the
\* bytes it holds, and the commit of the phase is not in HEAD.
InManifest(f, p, v) ==
    /\ ~Free(f)
    /\ FM(f) # None /\ p \in DOMAIN FM(f) => v \in {FM(f)[p].before, FM(f)[p].after}
    /\ Coordinators(f) = {} => p \in DOMAIN FM(f)
    /\ \A c \in Coordinators(f) :
         ~PhaseCommitted(c) /\ v \in {PM(c).before[f][p], PM(c).desired[f][p]}

\* The same for a document the user saves.
ByUser(f, p, v) ==
    /\ p = "doc" /\ v \in 1..docs'
    /\ ~Free(f) => f \in touched'
    /\ Free(f) => files[f].state # None

LEMMA FileChanges ==
    ASSUME DiskInv, NEW f \in Features, f \in dir, NEW p, NEW v, Becomes(f, p, v),
           InManifest(f, p, v) \/ ByUser(f, p, v)
    PROVE  /\ DiskInv' /\ DocChanged(View(f), View(f)')
           /\ \A g \in Features \ {f} : View(g)' = View(g)
<1>1. /\ files \in [Features -> Contents] /\ docs \in Nat /\ p \in FilePaths
      /\ DOMAIN fileManifest = Features /\ FileInv(f)
      /\ files[f].doc <= docs
    BY DEF DiskInv, Types, Becomes
<1>2. files'[f] = [files[f] EXCEPT ![p] = v] /\ \A g \in Features \ {f} : files'[g] = files[g]
    BY <1>1 DEF Becomes
<1>3. /\ files'[f] \in Contents /\ files'[f][p] = v
      /\ \A q \in FilePaths \ {p} : files'[f][q] = files[f][q]
    <2>1. Byte(p, v) /\ files[f] \in Contents
        BY <1>1 DEF Becomes
    <2> QED
        BY <1>1, <1>2, <2>1, PathWritten
<1>4. files' \in [Features -> Contents]
    <2>1. files' \in [Features -> Contents] <=> \A g \in Features : files'[g] \in Contents
        BY <1>1 DEF Becomes
    <2> QED
        BY <1>1, <1>2, <1>3, <2>1
<1>5. \A g \in Features : PM(g)' = PM(g) /\ FM(g)' = FM(g) /\ Coordinators(g)' = Coordinators(g)
                          /\ (PhaseCommitted(g)' <=> PhaseCommitted(g)) /\ (Free(g)' <=> Free(g))
    BY DEF PM, FM, Coordinators, PhaseCommitted, Free, Becomes
<1>6. \A c \in Coordinators(f) :
         /\ c \in Features /\ PM(c) # None /\ f \in PM(c).parts /\ PartInv(c, f)
         /\ PM(c).before[f] \in Contents /\ PM(c).desired[f] \in Contents
         /\ Coordinators(f) = {c}
    <2> SUFFICES ASSUME NEW c \in Coordinators(f)
                 PROVE  /\ c \in Features /\ PM(c) # None /\ f \in PM(c).parts /\ PartInv(c, f)
                        /\ PM(c).before[f] \in Contents /\ PM(c).desired[f] \in Contents
                        /\ Coordinators(f) = {c}
        OBVIOUS
    <2>1. c \in Features /\ PM(c) # None /\ f \in PM(c).parts
        BY DEF Coordinators, PM
    <2>2. PartInv(c, f) /\ PM(c) \in PhaseManifests(PM(c).parts) /\ Disjoint
        BY <2>1 DEF DiskInv, PhaseInv
    <2>3. PM(c).before[f] \in Contents /\ PM(c).desired[f] \in Contents
        BY <2>1, <2>2 DEF PhaseManifests
    <2> QED
        BY <2>1, <2>2, <2>3, OneCoordinator
<1>7. FileTypes(f) /\ FileTypes(f)'
    <2>1. FileTypes(f)
        BY <1>1 DEF FileInv, FileTypes
    <2> QED
        BY <1>5, <2>1 DEF FileTypes
\* The journal and the state stay ones the file manifest knows.
<1>8. Coordinators(f) = {} /\ FM(f) # None =>
         RolledFile(f, "log")' = RolledFile(f, "log") /\ RolledFile(f, "state")' = RolledFile(f, "state")
    <2>1. CASE p = "doc"
        BY <1>3, <1>5, <2>1 DEF RolledFile, FilePaths
    <2>2. CASE p # "doc" /\ FM(f) # None /\ Coordinators(f) = {}
        <3>1. p \in DOMAIN FM(f) /\ v \in {FM(f)[p].before, FM(f)[p].after}
            BY <2>2 DEF ByUser, InManifest
        <3>2. files[f][p] \in {FM(f)[p].before, FM(f)[p].after}
            BY <1>1, <2>2, <3>1 DEF FileInv, FilePaths
        <3>3. RolledFile(f, p)' = RolledFile(f, p)
            BY <1>3, <1>5, <3>1, <3>2 DEF RolledFile
        <3>4. \A q \in FilePaths \ {p} : RolledFile(f, q)' = RolledFile(f, q)
            BY <1>3, <1>5 DEF RolledFile
        <3> QED
            BY <1>1, <2>2, <3>3, <3>4 DEF FilePaths
    <2> QED
        BY <2>1, <2>2
<1>9. DocChanged(View(f), View(f)')
    <2>1. CASE Free(f)
        <3>1. Free(f)' /\ View(f) = Shown(files[f]) /\ View(f)' = Shown(files'[f])
            BY <1>5, <2>1, FreeShown, ViewNext, RolledNext, <1>3, <1>7
               DEF FreeView, RolledFiles, Free
        <3>2. files'[f].log = files[f].log /\ files'[f].state = files[f].state
            BY <1>3, <2>1 DEF InManifest, ByUser, FilePaths
        <3> QED
            BY <1>1, <1>3, <3>1, <3>2, DocOnly
    <2>2. CASE Coordinators(f) = {} /\ FM(f) # None
        <3>1. View(f) = Shown(Rolled(f)) /\ View(f)' = Shown(Rolled(f)')
            BY <1>5, <2>2, ViewFree, ViewNext DEF FreeView, Shown
        <3>2. /\ Rolled(f) \in Contents /\ Rolled(f)' \in Contents
              /\ \A q \in FilePaths : Rolled(f)[q] = RolledFile(f, q)
              /\ \A q \in FilePaths : Rolled(f)'[q] = RolledFile(f, q)'
            BY <1>1, <1>3, <1>5, <1>7, <2>2, RolledContents, RolledNext DEF RolledFiles
        <3>3. Rolled(f)'.log = Rolled(f).log /\ Rolled(f)'.state = Rolled(f).state
            BY <1>8, <2>2, <3>2 DEF FilePaths
        <3> HIDE DEF View, Rolled
        <3> QED
            BY <3>1, <3>2, <3>3, DocOnly
    <2>3. ASSUME NEW c \in Coordinators(f), PhaseCommitted(c)
          PROVE  DocChanged(View(f), View(f)')
        <3>1. p = "doc" /\ FM(f) = None
            BY <1>6, <2>3 DEF InManifest, ByUser, PartInv
        <3>2. View(f) = Shown(files[f]) /\ View(f)' = Shown(files'[f])
            <4>1. View(f) = Shown(Rolled(f)) /\ View(f)' = Shown(Rolled(f)')
                BY <1>5, <1>6, <2>3, ViewPart, ViewNext DEF PartView, Shown
            <4>2. Rolled(f) = files[f] /\ Rolled(f)' = files'[f]
                BY <1>1, <1>3, <1>5, <1>7, <3>1, RolledContents, RolledNext DEF RolledFiles
            <4> QED
                BY <4>1, <4>2
        <3>3. files'[f].log = files[f].log /\ files'[f].state = files[f].state
            BY <1>3, <3>1 DEF FilePaths
        <3> QED
            BY <1>1, <1>3, <3>2, <3>3, DocOnly
    <2>4. ASSUME NEW c \in Coordinators(f), ~PhaseCommitted(c)
          PROVE  DocChanged(View(f), View(f)')
        <3>1. View(f) = Shown(RolledBack(f, c)) /\ View(f)' = Shown(RolledBack(f, c)')
            BY <1>5, <1>6, <2>4, ViewPart, ViewNext DEF PartView, Shown
        <3>2. /\ RolledBack(f, c) \in Contents /\ RolledBack(f, c)' \in Contents
              /\ RolledBack(f, c)'.log = RolledBack(f, c).log
              /\ RolledBack(f, c)'.state = RolledBack(f, c).state
            <4>1. \A d \in Nat : LET r == [PM(c).before[f] EXCEPT !.doc = d]
                                IN  /\ r \in Contents /\ r.log = PM(c).before[f].log
                                    /\ r.state = PM(c).before[f].state
                BY <1>6, <2>4 DEF Contents
            <4>2. \E d \in Nat : RolledBack(f, c) = [PM(c).before[f] EXCEPT !.doc = d]
                BY <1>1, <1>6, <2>4 DEF RolledBack, PM, Contents
            <4>3. \E d \in Nat : RolledBack(f, c)' = [PM(c).before[f] EXCEPT !.doc = d]
                <5>1. PM(c)' = PM(c) /\ PM(c).before[f].doc \in Nat /\ files'[f].doc \in Nat
                    BY <1>3, <1>5, <1>6, <2>4 DEF Contents
                <5> QED
                    BY <1>6, <2>4, <5>1 DEF RolledBack, PM
            <4> QED
                BY <4>1, <4>2, <4>3
        <3> HIDE DEF View, RolledBack
        <3> QED
            BY <3>1, <3>2, DocOnly
    <2> QED
        BY <2>1, <2>2, <2>3, <2>4 DEF Free
<1>10. FileInv(f)'
    <2>1. SUFFICES ASSUME FM(f) # None
                   PROVE  FileInv(f)'
        BY <1>5 DEF FileInv
    <2>2. ~Free(f)
        BY <2>1 DEF Free
    <2>3. \A q \in DOMAIN FM(f) :
             files'[f][q] = files[f][q] \/ files'[f][q] \in {FM(f)[q].before, FM(f)[q].after}
             \/ (q = "doc" /\ f \in touched')
        <3>1. DOMAIN FM(f) \subseteq FilePaths
            BY <1>1, <2>1 DEF FileInv
        <3>2. p \in DOMAIN FM(f) => v \in {FM(f)[p].before, FM(f)[p].after} \/ (p = "doc" /\ f \in touched')
            BY <2>1, <2>2 DEF InManifest, ByUser
        <3> QED
            BY <1>3, <3>1, <3>2
    <2>4. Coordinators(f) = {} => View(f)' # None
        <3>1. Coordinators(f) = {} => View(f) # None /\ View(f) \in Contents
            BY <2>1 DEF DiskInv, FileInv, GitInv
        <3>2. \A d \in Nat : View(f) \in Contents => [View(f) EXCEPT !.doc = d] \in Contents
            BY DEF Contents
        <3> HIDE DEF View
        <3> QED
            BY <1>9, <3>1, <3>2, NoneIsNoFile DEF DocChanged
    <2>5. f \in dir' /\ touched \subseteq touched' /\ docs' \in Nat /\ docs <= docs'
        BY DEF Becomes
    <2>6. "doc" \in DOMAIN FM(f) =>
             FM(f)["doc"].after \in 0..docs' /\ FM(f)["doc"].before \in 0..docs'
        BY <1>1, <2>1, <2>5 DEF FileInv
    <2> QED
        BY <1>1, <1>5, <2>1, <2>3, <2>4, <2>5, <2>6 DEF FileInv
<1>11. FreeInv(f)'
    BY <1>3, <1>5 DEF FreeInv, InManifest, ByUser, FilePaths
<1>12. GitInv(f)'
    BY <1>9, GitKept DEF DiskInv, Becomes
<1>13. ASSUME NEW c \in Features, PM(c) # None, f \in PM(c).parts
       PROVE  PartInv(c, f)'
    <2>1. c \in Coordinators(f) /\ ~Free(f)
        BY <1>13 DEF Coordinators, PM, Free
    <2>2. /\ PartInv(c, f) /\ PM(c)' = PM(c) /\ FM(f)' = FM(f) /\ (PhaseCommitted(c)' <=> PhaseCommitted(c))
          /\ PM(c).before[f] \in Contents /\ PM(c).desired[f] \in Contents /\ head' = head
        BY <1>5, <1>6, <2>1 DEF Becomes
    <2>3. PM(c).before[f].doc <= docs' /\ PM(c).desired[f].doc <= docs'
        BY <1>1, <2>2 DEF PartInv, Contents, Becomes
    <2>4. CASE InManifest(f, p, v)
        <3>1. ~PhaseCommitted(c) /\ v \in {PM(c).before[f][p], PM(c).desired[f][p]}
              /\ touched \subseteq touched'
            BY <2>1, <2>4 DEF InManifest, Becomes
        <3> QED
            BY <1>1, <1>3, <2>2, <2>3, <3>1 DEF PartInv, FilePaths
    <2>5. CASE ByUser(f, p, v)
        <3>1. p = "doc" /\ f \in touched'
            BY <2>1, <2>5 DEF ByUser
        <3> QED
            BY <1>3, <2>2, <2>3, <3>1 DEF PartInv, FilePaths
    <2> QED
        BY <2>4, <2>5
<1>14. files'[f].doc <= docs'
    <2>1. CASE p = "doc" /\ InManifest(f, p, v)
        <3>1. CASE Coordinators(f) = {}
            BY <1>1, <1>3, <2>1, <3>1 DEF InManifest, FileInv, Becomes, Free
        <3>2. ASSUME NEW c \in Coordinators(f)
              PROVE  v <= docs'
            BY <1>1, <1>6, <2>1, <3>2 DEF InManifest, PartInv, Contents, Becomes
        <3> QED
            BY <1>3, <2>1, <3>1, <3>2
    <2>2. CASE p = "doc" /\ ByUser(f, p, v)
        BY <1>3, <2>2 DEF ByUser, Becomes
    <2>3. CASE p # "doc"
        BY <1>1, <1>3, <2>3 DEF FilePaths, Becomes, Contents
    <2> QED
        BY <2>1, <2>2, <2>3
<1>15. /\ UNCHANGED <<dir, phaseManifest, head, staged, torn, ahead, faults>>
       /\ DOMAIN fileManifest' = Features
       /\ \A g \in Features \ {f} : files'[g] = files[g] /\ FM(g)' = FM(g)
       /\ docs' \in Nat /\ docs <= docs' /\ touched \subseteq touched' /\ touched' \subseteq Features
    BY <1>1, <1>2, <1>5 DEF Becomes
<1>16. DiskInv' /\ \A g \in Features \ {f} : View(g)' = View(g)
    BY <1>4, <1>10, <1>11, <1>12, <1>13, <1>14, <1>15, OneFeature
<1> QED
    BY <1>9, <1>16

LEMMA FileChangeMaps ==
    ASSUME DiskInv, NEW f \in Features, f \in dir, NEW p, NEW v, Becomes(f, p, v),
           InManifest(f, p, v) \/ ByUser(f, p, v)
    PROVE  DiskInv' /\ [H!Operation]_Durable
<1>1. /\ DiskInv' /\ DocChanged(View(f), View(f)')
      /\ \A g \in Features \ {f} : View(g)' = View(g)
    BY FileChanges
<1>2. GitInv(f)
    BY DEF DiskInv
<1> QED
    BY <1>1, <1>2, EditMaps

LEMMA FilesOfChange ==
    ASSUME DiskInv, NEW f \in Features, NEW p, NEW v, Becomes(f, p, v)
    PROVE  /\ files'[f] \in Contents /\ files'[f][p] = v
           /\ \A q \in FilePaths \ {p} : files'[f][q] = files[f][q]
           /\ \A g \in Features \ {f} : files'[g] = files[g]
<1> DEFINE t == [files[f] EXCEPT ![p] = v]
<1>1. Byte(p, v) /\ p \in FilePaths /\ files[f] \in Contents
    BY DEF DiskInv, Types, Becomes
<1>2. files'[f] = t /\ \A g \in Features \ {f} : files'[g] = files[g]
    BY DEF DiskInv, Types, Becomes
<1>3. t \in Contents /\ t[p] = v /\ \A q \in FilePaths \ {p} : t[q] = files[f][q]
    BY <1>1, PathWritten
<1> HIDE DEF t
<1> QED
    BY <1>2, <1>3

LEMMA CurrentTodo ==
    ASSUME op.todo # {}
    PROVE  Current \in op.todo
    BY DEF Current

LEMMA BeginRecoveryKeeps ==
    ASSUME CoreInv, NEW f \in Features, BeginRecovery(f)
    PROVE  CoreInv' /\ UNCHANGED Durable
<1>1. DiskInv /\ FM(f) # None
    BY DEF CoreInv, BeginRecovery, FM
<1>2. DOMAIN FM(f) \in SUBSET FilePaths
    BY <1>1 DEF DiskInv, FileInv
<1> DEFINE left == InOrder(DOMAIN FM(f))
<1>3. left \in Seq(DOMAIN FM(f)) /\ Names(left) = DOMAIN FM(f)
    BY <1>2, NamesInOrder
<1> HIDE DEF left
<1>4. op' = [NoOp EXCEPT !.kind = "redo", !.f = f, !.parts = {f}, !.left = left] /\ pc' = "redo"
      /\ DiskSame /\ UNCHANGED <<dir, staged, docs, touched, faults>>
    BY DEF BeginRecovery, DiskSame, FM, Bookkeeping, History, left
<1>5. /\ op'.f = f /\ op'.parts = {f} /\ op'.phase = FALSE /\ op'.kind = "redo" /\ op'.left = left
      /\ DOMAIN op' = DOMAIN NoOp
    BY <1>4 DEF NoOp
<1>6. DiskInv' /\ UNCHANGED Durable
    <2>1. StagedInv'
        BY <1>1, <1>4 DEF DiskInv, StagedInv, PM, DiskSame
    <2>2. touched \subseteq Features /\ dir \subseteq Features /\ staged \subseteq dir \cup torn
          /\ docs \in Nat /\ faults \in Nat
        BY <1>1 DEF DiskInv, Types
    <2> QED
        BY <1>1, <1>4, <2>1, <2>2, DiskFrame
<1>7. OpInv' /\ ReadyInv' /\ WriteInv' /\ BegunInv' /\ RollbackInv' /\ IndexInv'
    BY <1>4, <1>5
       DEF OpInv, Positions, ReadyInv, WriteInv, BegunInv, Begun, RollbackInv, IndexInv
<1>8. RedoInv'
    <2>1. FM(f)' = FM(f)
        BY <1>4 DEF FM, DiskSame
    <2> QED
        BY <1>1, <1>3, <1>5, <2>1 DEF RedoInv
<1> QED
    BY <1>6, <1>7, <1>8 DEF CoreInv, RunInv

LEMMA RecoverFileKeeps ==
    ASSUME CoreInv, RecoverFile
    PROVE  CoreInv' /\ [H!Operation]_Durable
<1> DEFINE f == op.f
           p == Head(op.left)
           v == FM(f)[p].after
<1>1. DiskInv /\ RunInv /\ pc = "redo" /\ docs \in Nat /\ touched \subseteq Features
    BY DEF CoreInv, RecoverFile, DiskInv, Types
<1>2. /\ f \in Features /\ op.parts = {f} /\ DOMAIN op = DOMAIN NoOp
      /\ FM(f) # None /\ op.left \in Seq(DOMAIN FM(f)) /\ op.left # << >>
    BY <1>1 DEF RunInv, OpInv, RedoInv, RecoverFile
<1>3. FileInv(f) /\ f \in dir /\ DOMAIN FM(f) \subseteq FilePaths
    BY <1>1, <1>2 DEF DiskInv, FileInv
<1>4. /\ p \in DOMAIN FM(f) /\ Tail(op.left) \in Seq(DOMAIN FM(f))
      /\ Names(op.left) = {p} \cup Names(Tail(op.left))
    BY <1>2, NamesOfRest
<1> HIDE DEF p
<1>5. /\ files' = [files EXCEPT ![f][p] = v] /\ pc' = pc /\ op' = [op EXCEPT !.left = Tail(op.left)]
      /\ UNCHANGED <<dir, fileManifest, phaseManifest, head, staged, docs, touched, torn, ahead, faults>>
    BY DEF RecoverFile, Bookkeeping, History, FM, p
<1>6. Byte(p, v)
    <2>1. CASE p = "doc"
        BY <1>1, <1>2, <1>3, <1>4, <2>1 DEF FileInv, Byte
    <2>2. CASE p = "log"
        BY <1>2, <1>3, <1>4, <2>2 DEF FileInv, Byte
    <2>3. CASE p = "state"
        BY <1>2, <1>3, <1>4, <2>3 DEF FileInv, Byte
    <2> QED
        BY <1>3, <1>4, <2>1, <2>2, <2>3 DEF FilePaths
<1> HIDE DEF f, v
<1>7. Becomes(f, p, v)
    BY <1>1, <1>3, <1>4, <1>5, <1>6 DEF Becomes
<1>8. InManifest(f, p, v)
    <2>1. ASSUME NEW c \in Coordinators(f)
          PROVE  ~PhaseCommitted(c) /\ v = PM(c).desired[f][p]
        <3>1. PartInv(c, f)
            BY <1>1, <2>1 DEF DiskInv, Coordinators, PM
        <3> QED
            BY <1>2, <1>4, <3>1 DEF PartInv, v
    <2> QED
        BY <1>2, <1>4, <2>1 DEF InManifest, Free, v
<1>9. DiskInv' /\ [H!Operation]_Durable
    BY <1>1, <1>2, <1>3, <1>7, <1>8, FileChangeMaps
<1>10. /\ op'.left = Tail(op.left) /\ op'.f = op.f /\ op'.parts = op.parts /\ op'.phase = op.phase
       /\ op'.kind = op.kind /\ DOMAIN op' = DOMAIN NoOp
    BY <1>2, <1>5 DEF NoOp
<1>11. files'[f][p] = v /\ \A q \in FilePaths \ {p} : files'[f][q] = files[f][q]
    BY <1>1, <1>2, <1>7, FilesOfChange
<1>12. OpInv' /\ ReadyInv' /\ WriteInv' /\ BegunInv' /\ RollbackInv' /\ IndexInv'
    BY <1>1, <1>5, <1>10
       DEF RunInv, OpInv, Positions, ReadyInv, WriteInv, BegunInv, Begun, RollbackInv, IndexInv
<1>13. FM(f)' = FM(f) /\ f' = f
    BY <1>5, <1>10 DEF FM, f
<1>14. ASSUME NEW q \in DOMAIN FM(f) \ Names(Tail(op.left))
       PROVE  Written(f, q)'
    <2>1. CASE q = p
        BY <1>11, <1>13, <2>1 DEF Written, v
    <2>2. CASE q # p
        <3>1. Written(f, q)
            BY <1>1, <1>4, <1>14, <2>2 DEF RunInv, RedoInv, f
        <3> QED
            BY <1>3, <1>5, <1>11, <1>13, <1>14, <2>2, <3>1 DEF Written
    <2> QED
        BY <2>1, <2>2
<1>15. RedoInv'
    BY <1>2, <1>4, <1>10, <1>13, <1>14 DEF RedoInv, f
<1> QED
    BY <1>9, <1>12, <1>15 DEF CoreInv, RunInv

LEMMA WriteFileKeeps ==
    ASSUME CoreInv, WriteFile
    PROVE  CoreInv' /\ [H!Operation]_Durable
<1> DEFINE f == Current
           p == Head(op.left)
           v == op.writes[f][p]
<1>1. DiskInv /\ RunInv /\ pc = "write" /\ op.left # << >> /\ docs \in Nat /\ touched \subseteq Features
    BY DEF CoreInv, WriteFile, DiskInv, Types
<1>2. /\ op.f \in op.parts /\ op.parts \subseteq Features /\ DOMAIN op = DOMAIN NoOp
      /\ op.phase \in BOOLEAN
    BY <1>1 DEF RunInv, OpInv
<1>3. op.phase => Begun /\ BegunInv
    BY <1>1 DEF Begun, RunInv
<1>4. f \in op.todo /\ op.todo \subseteq op.parts /\ f \in Features /\ (~op.phase => f = op.f)
    <2>1. CASE op.phase
        <3>1. op.todo # {} /\ op.todo \subseteq op.parts
            BY <1>1, <1>3, <2>1 DEF BegunInv
        <3> QED
            BY <1>2, <2>1, <3>1, CurrentTodo
    <2>2. CASE ~op.phase
        <3>1. op.todo = {op.f} /\ op.parts = {op.f}
            BY <1>1, <2>2 DEF RunInv, WriteInv
        <3> QED
            BY <1>2, <3>1, CurrentTodo
    <2> QED
        BY <2>1, <2>2
<1>5. Writing(f)
    BY <1>1, <1>4 DEF RunInv, WriteInv
<1> HIDE DEF f
<1>6. FM(f) # None /\ FileInv(f) /\ f \in dir /\ DOMAIN FM(f) \subseteq FilePaths
    BY <1>1, <1>4, <1>5 DEF DiskInv, FileInv, Writing
<1>7. p \in DOMAIN FM(f) /\ Tail(op.left) \in Seq(DOMAIN FM(f)) /\ Names(op.left) = {p} \cup Names(Tail(op.left))
    BY <1>1, <1>5, NamesOfRest DEF Writing
<1> HIDE DEF p
<1>8. v = FM(f)[p].after /\ Writes(op.writes[f]) /\ p \in DOMAIN op.writes[f]
    BY <1>5, <1>7 DEF Writing
<1>9. /\ files' = [files EXCEPT ![f][p] = v] /\ op' = [op EXCEPT !.left = Tail(op.left)] /\ pc' = pc
      /\ UNCHANGED <<dir, fileManifest, phaseManifest, head, staged, docs, touched, torn, ahead, faults>>
    BY DEF WriteFile, Bookkeeping, History, f, p
<1>10. Byte(p, v)
    <2>1. CASE p = "doc"
        BY <1>1, <1>8, <2>1 DEF Writes, WritesTo, Byte
    <2>2. CASE p = "log"
        BY <1>8, <2>2 DEF Writes, WritesTo, Byte
    <2>3. CASE p = "state"
        BY <1>8, <2>3 DEF Writes, WritesTo, Byte
    <2> QED
        BY <1>6, <1>7, <2>1, <2>2, <2>3 DEF FilePaths
<1> HIDE DEF v
<1>11. Becomes(f, p, v)
    BY <1>1, <1>6, <1>7, <1>9, <1>10 DEF Becomes
<1>12. op.phase => PM(op.f) # None /\ PM(op.f).parts = op.parts /\ ~PhaseCommitted(op.f)
                   /\ v = PM(op.f).desired[f][p]
    <2>1. SUFFICES ASSUME op.phase
                   PROVE  PM(op.f) # None /\ PM(op.f).parts = op.parts /\ ~PhaseCommitted(op.f)
                          /\ v = PM(op.f).desired[f][p]
        OBVIOUS
    <2>2. PM(op.f) # None /\ PM(op.f).parts = op.parts /\ ~PhaseCommitted(op.f)
        BY <1>1, <1>2, <1>3, <2>1 DEF BegunInv, PhaseCommitted, PM
    <2>3. PartInv(op.f, f)
        BY <1>1, <1>2, <1>4, <2>2 DEF DiskInv
    <2> QED
        BY <1>6, <1>7, <1>8, <2>2, <2>3 DEF PartInv
<1>13. Coordinators(f) = IF op.phase THEN {op.f} ELSE {}
    <2>1. CASE op.phase
        BY <1>1, <1>2, <1>4, <1>12, <2>1, OneCoordinator DEF DiskInv
    <2>2. CASE ~op.phase
        BY <1>1, <1>4, <2>2 DEF RunInv, WriteInv
    <2> QED
        BY <2>1, <2>2
<1>14. InManifest(f, p, v)
    BY <1>6, <1>7, <1>8, <1>12, <1>13 DEF InManifest, Free
<1>15. DiskInv' /\ [H!Operation]_Durable
    BY <1>1, <1>4, <1>6, <1>11, <1>14, FileChangeMaps
<1>16. /\ op'.left = Tail(op.left) /\ op'.f = op.f /\ op'.parts = op.parts /\ op'.phase = op.phase
       /\ op'.kind = op.kind /\ op'.writes = op.writes /\ op'.todo = op.todo
       /\ op'.index = op.index /\ DOMAIN op' = DOMAIN NoOp
    BY <1>2, <1>9 DEF NoOp
<1>17. /\ files'[f][p] = v
       /\ \A q \in FilePaths \ {p} : files'[f][q] = files[f][q]
       /\ \A g \in Features \ {f} : files'[g] = files[g]
    BY <1>1, <1>4, <1>11, FilesOfChange
<1>18. FM(f)' = FM(f) /\ PM(op.f)' = PM(op.f) /\ Current' = f /\ f' = f
    <2>1. Current' = Current
        BY <1>16 DEF Current
    <2>2. f' = f /\ Current' = f
        BY <2>1 DEF f
    <2> QED
        BY <1>9, <1>16, <2>2 DEF FM, PM
<1>19. Writing(f)'
    BY <1>5, <1>7, <1>9, <1>16, <1>18 DEF Writing, Writes, WritesTo
<1>20. OpInv' /\ ReadyInv' /\ RollbackInv' /\ RedoInv' /\ IndexInv'
    BY <1>1, <1>9, <1>16 DEF RunInv, OpInv, Positions, ReadyInv, RollbackInv, RedoInv, IndexInv
<1>21. WriteInv'
    <2>1. CASE op.phase
        <3>1. ASSUME NEW q \in FilePaths \ Names(Tail(op.left))
              PROVE  Has(f, q, PM(op.f).desired)'
            <4>1. CASE q = p
                BY <1>12, <1>16, <1>17, <1>18, <2>1, <4>1 DEF Has
            <4>2. CASE q # p
                <5>1. Has(f, q, PM(op.f).desired)
                    BY <1>1, <1>7, <2>1, <3>1, <4>2 DEF RunInv, WriteInv, f
                <5> QED
                    BY <1>9, <1>16, <1>17, <1>18, <4>2, <5>1, <3>1 DEF Has
            <4> QED
                BY <4>1, <4>2
        <3> QED
            BY <1>16, <1>18, <1>19, <2>1, <3>1 DEF WriteInv
    <2>2. CASE ~op.phase
        <3>1. ASSUME NEW q \in DOMAIN FM(f) \ Names(Tail(op.left))
              PROVE  Written(f, q)'
            <4>1. CASE q = p
                BY <1>8, <1>17, <1>18, <4>1 DEF Written
            <4>2. CASE q # p
                <5>1. Written(f, q)
                    BY <1>1, <1>4, <1>7, <2>2, <3>1, <4>2 DEF RunInv, WriteInv
                <5> QED
                    BY <1>6, <1>9, <1>17, <1>18, <4>2, <5>1, <3>1 DEF Written
            <4> QED
                BY <4>1, <4>2
        <3>2. op.parts = {op.f} /\ op.todo = {op.f} /\ f = op.f
            BY <1>1, <1>4, <2>2 DEF RunInv, WriteInv
        <3>3. Coordinators(op.f)' = {}
            BY <1>9, <1>13, <2>2, <3>2 DEF Coordinators
        <3> QED
            BY <1>16, <1>18, <1>19, <2>2, <3>1, <3>2, <3>3 DEF WriteInv
    <2> QED
        BY <1>2, <2>1, <2>2
<1>22. BegunInv'
    <2>1. SUFFICES ASSUME op.phase
                   PROVE  BegunInv'
        BY <1>16 DEF BegunInv, Begun
    <2>2. \A g \in op.parts \ {f} : files'[g] = files[g] /\ FM(g)' = FM(g)
        BY <1>2, <1>9, <1>17 DEF FM
    <2>3. BegunInv /\ Begun /\ pc = "write" /\ pc' = "write"
        BY <1>1, <1>3, <1>9, <2>1
    <2>4. \A g \in op.parts : Writes(op.writes[g])'
        BY <1>9, <1>16, <2>3 DEF BegunInv, Writes, WritesTo
    <2>5. ASSUME NEW g \in op.parts \ {f}
          PROVE  /\ g \notin op.todo => FM(g)' = None /\ Holds(g, PM(op.f).desired)'
                 /\ g \in op.todo => FM(g)' = None /\ Holds(g, PM(op.f).before)'
        BY <1>9, <1>16, <1>18, <2>2, <2>3 DEF BegunInv, Holds, Has, f
    <2> QED
        BY <1>4, <1>9, <1>16, <1>18, <2>3, <2>4, <2>5 DEF BegunInv, Begun
<1> QED
    BY <1>15, <1>20, <1>21, <1>22 DEF CoreInv, RunInv

\* The rollback gives one file of one participant its bytes before the phase.
LEMMA RestoreFileKeeps ==
    ASSUME CoreInv, RestoreFile
    PROVE  CoreInv' /\ [H!Operation]_Durable
<1> DEFINE x == Head(op.left)
           f == x[1]
           p == x[2]
           v == PM(op.f).before[f][p]
<1>1. DiskInv /\ RunInv /\ pc = "restore" /\ op.left # << >> /\ docs \in Nat /\ touched \subseteq Features
    BY DEF CoreInv, RestoreFile, DiskInv, Types
<1>2. /\ op.f \in op.parts /\ op.parts \subseteq Features /\ DOMAIN op = DOMAIN NoOp
    BY <1>1 DEF RunInv, OpInv
<1>3. /\ PM(op.f) # None /\ PM(op.f).parts = op.parts /\ ~PhaseCommitted(op.f)
      /\ \A g \in op.parts : FM(g) = None
      /\ op.left \in Seq(op.parts \X FilePaths)
      /\ op.failed \/ \A g \in op.parts, q \in FilePaths :
                         <<g, q>> \in Names(op.left) \/ Restored(g, q)
    BY <1>1 DEF RunInv, RollbackInv
<1>4. /\ x \in op.parts \X FilePaths /\ Tail(op.left) \in Seq(op.parts \X FilePaths)
      /\ Names(op.left) = {x} \cup Names(Tail(op.left))
    BY <1>1, <1>3, NamesOfRest
<1>5. /\ files' = [files EXCEPT ![f][p] = v] /\ op' = [op EXCEPT !.left = Tail(op.left)] /\ pc' = pc
      /\ UNCHANGED <<dir, fileManifest, phaseManifest, head, staged, docs, touched, torn, ahead, faults>>
    BY DEF RestoreFile, Bookkeeping, History, PM
<1> HIDE DEF x
<1>6. f \in op.parts /\ f \in Features /\ p \in FilePaths /\ x = <<f, p>>
    BY <1>2, <1>4
<1> HIDE DEF f, p
<1>7. /\ PhaseInv(op.f) /\ PartInv(op.f, f)
      /\ PM(op.f).before[f] \in Contents /\ PM(op.f).desired[f] \in Contents
    BY <1>1, <1>2, <1>3, <1>6 DEF DiskInv, PhaseInv, PhaseManifests
<1>8. Byte(p, v)
    <2>1. PM(op.f).before[f].doc \in Nat /\ PM(op.f).before[f].log \in Logs \cup {None}
          /\ PM(op.f).before[f].state \in States \cup {None}
        BY <1>7, ContentsPaths
    <2> QED
        BY <1>6, <2>1 DEF Byte, FilePaths
<1> HIDE DEF v
<1>9. Becomes(f, p, v)
    BY <1>1, <1>5, <1>6, <1>8 DEF Becomes
<1>10. /\ files'[f][p] = v
       /\ \A q \in FilePaths \ {p} : files'[f][q] = files[f][q]
       /\ \A g \in Features \ {f} : files'[g] = files[g]
    BY <1>1, <1>6, <1>9, FilesOfChange
<1>11. DiskInv' /\ [H!Operation]_Durable
    <2>1. CASE f \in dir
        <3>1. Coordinators(f) = {op.f}
            BY <1>1, <1>2, <1>3, <1>6, OneCoordinator DEF DiskInv
        <3>2. InManifest(f, p, v)
            BY <1>3, <1>6, <3>1 DEF InManifest, Free, v
        <3> QED
            BY <1>1, <1>6, <1>9, <2>1, <3>2, FileChangeMaps
\* The new feature of a supersession, before its directory is made.
    <2>2. CASE f \notin dir
        <3>1. files[f] = Missing
            BY <1>1, <1>6, <2>2 DEF DiskInv, Types
        <3>2. PM(op.f).before[f] = Missing
            BY <1>3, <1>6, <1>7, <2>2 DEF PhaseInv, Moves
        <3>3. files'[f] = files[f]
            <4>1. \A q \in FilePaths : files'[f][q] = files[f][q]
                BY <1>6, <1>10, <3>1, <3>2 DEF v
            <4>2. files[f] \in Contents /\ files'[f] \in Contents
                BY <1>1, <1>6, <1>9, FilesOfChange DEF DiskInv, Types
            <4> QED
                BY <4>1, <4>2, SameContents
        <3>4. files' = files
            <4>1. files \in [Features -> Contents] /\ files' = [files EXCEPT ![f][p] = v]
                BY <1>1, <1>5 DEF DiskInv, Types
            <4>2. files' = [g \in Features |-> files'[g]] /\ files = [g \in Features |-> files[g]]
                BY <4>1
            <4> QED
                BY <1>10, <3>3, <4>2
        <3>5. DiskSame /\ dir \subseteq Features /\ staged \subseteq dir \cup torn /\ faults \in Nat
            BY <1>1, <1>5, <3>4 DEF DiskSame, DiskInv, Types
        <3>6. StagedInv'
            BY <1>1, <1>5 DEF DiskInv, StagedInv, PM
        <3>7. DiskInv' /\ UNCHANGED Durable
            BY <1>1, <1>5, <3>5, <3>6, DiskFrame
        <3> QED
            BY <3>7
    <2> QED
        BY <2>1, <2>2
<1>12. /\ op'.left = Tail(op.left) /\ op'.f = op.f /\ op'.parts = op.parts /\ op'.phase = op.phase
       /\ op'.kind = op.kind /\ op'.failed = op.failed /\ DOMAIN op' = DOMAIN NoOp
    BY <1>2, <1>5 DEF NoOp
<1>13. OpInv' /\ ReadyInv' /\ WriteInv' /\ BegunInv' /\ RedoInv' /\ IndexInv'
    BY <1>1, <1>5, <1>12
       DEF RunInv, OpInv, Positions, ReadyInv, WriteInv, BegunInv, Begun, RedoInv, IndexInv, PM
<1>14. RollbackInv'
    <2>1. PM(op.f)' = PM(op.f) /\ (PhaseCommitted(op.f)' <=> PhaseCommitted(op.f))
          /\ \A g \in op.parts : FM(g)' = FM(g)
        BY <1>5, <1>12 DEF PM, PhaseCommitted, FM
    <2>2. ASSUME ~op.failed, NEW g \in op.parts, NEW q \in FilePaths
          PROVE  <<g, q>> \in Names(Tail(op.left)) \/ Restored(g, q)'
        <3>1. CASE g = f /\ q = p
            BY <1>10, <1>12, <2>1, <3>1 DEF Restored, Has, v
        <3>2. CASE ~(g = f /\ q = p)
            <4>1. <<g, q>> # x
                BY <1>6, <3>2
            <4>2. <<g, q>> \in Names(Tail(op.left)) \/ Restored(g, q)
                BY <1>3, <1>4, <2>2, <4>1
            <4>3. files'[g][q] = files[g][q]
                BY <1>2, <1>10, <3>2
            <4>4. Restored(g, q) => Restored(g, q)'
                BY <1>5, <1>12, <2>1, <4>3 DEF Restored, Has
            <4> QED
                BY <4>2, <4>4
        <3> QED
            BY <3>1, <3>2
    <2>3. /\ op.failed \in BOOLEAN
          /\ op.failed => \A g \in op.parts : head[g] = Missing \/ head[g].log.at < faults
        BY <1>1 DEF RunInv, RollbackInv
    <2>4. op.failed \/ \A g \in op.parts, q \in FilePaths :
                          <<g, q>> \in Names(Tail(op.left)) \/ Restored(g, q)'
        BY <2>2, <2>3
    <2> QED
        BY <1>1, <1>3, <1>4, <1>5, <1>12, <2>1, <2>3, <2>4 DEF RollbackInv
<1> QED
    BY <1>11, <1>13, <1>14 DEF CoreInv, RunInv

LEMMA RestoreFileFailsKeeps ==
    ASSUME RepoInv, RestoreFileFails
    PROVE  CoreInv' /\ UNCHANGED Durable
<1>1. /\ DiskInv /\ RunInv /\ pc = "restore" /\ op.left # << >> /\ faults \in Nat
      /\ faults' = faults + 1 /\ pc' = pc
    BY DEF RepoInv, CoreInv, RestoreFileFails, DiskInv, Types
<1>2. /\ op.f \in op.parts /\ op.parts \subseteq Features /\ DOMAIN op = DOMAIN NoOp
      /\ PM(op.f) # None /\ PM(op.f).parts = op.parts /\ ~PhaseCommitted(op.f)
      /\ \A g \in op.parts : FM(g) = None
      /\ op.left \in Seq(op.parts \X FilePaths)
    BY <1>1 DEF RunInv, OpInv, RollbackInv
<1>3. Tail(op.left) \in Seq(op.parts \X FilePaths)
    BY <1>1, <1>2, NamesOfRest
<1>4. PICK failed \in BOOLEAN : failed
    OBVIOUS
<1>5. /\ op' = [op EXCEPT !.left = Tail(op.left), !.failed = failed]
      /\ DiskSame /\ UNCHANGED <<dir, staged, docs, touched>>
    BY <1>4, Zenon DEF RestoreFileFails, DiskSame, History
<1>6. /\ op'.left = Tail(op.left) /\ op'.f = op.f /\ op'.parts = op.parts /\ op'.phase = op.phase
      /\ op'.kind = op.kind /\ op'.failed = failed /\ DOMAIN op' = DOMAIN NoOp
    BY <1>2, <1>5 DEF NoOp
<1>7. DiskInv' /\ UNCHANGED Durable
    <2>1. StagedInv'
        BY <1>1, <1>5 DEF DiskInv, StagedInv, PM, DiskSame
    <2>2. touched \subseteq Features /\ dir \subseteq Features /\ staged \subseteq dir \cup torn
          /\ docs \in Nat /\ faults' \in Nat
        BY <1>1 DEF DiskInv, Types
    <2> QED
        BY <1>1, <1>5, <2>1, <2>2, DiskFrame
<1>8. OpInv' /\ ReadyInv' /\ WriteInv' /\ BegunInv' /\ RedoInv'
    BY <1>1, <1>6
       DEF RunInv, OpInv, Positions, ReadyInv, WriteInv, BegunInv, Begun, RedoInv
<1>9. IndexInv'
    BY <1>1, <1>4, <1>5, <1>6 DEF RunInv, IndexInv, PM, DiskSame
<1>10. RollbackInv'
    <2>1. PM(op.f)' = PM(op.f) /\ (PhaseCommitted(op.f)' <=> PhaseCommitted(op.f))
          /\ \A g \in op.parts : FM(g)' = FM(g)
        BY <1>5, <1>6 DEF PM, PhaseCommitted, FM, DiskSame
    <2>2. \A h \in op.parts : head'[h] = Missing \/ head'[h].log.at < faults'
        BY <1>1, <1>2, <1>5 DEF RepoInv, HeadsInv, HeadInv, DiskSame
    <2> QED
        BY <1>1, <1>2, <1>3, <1>4, <1>6, <2>1, <2>2 DEF RollbackInv
<1> QED
    BY <1>7, <1>8, <1>9, <1>10 DEF CoreInv, RunInv

LEMMA SaveDocumentKeeps ==
    ASSUME CoreInv, NEW f \in Features, NEW v \in 1..(docs + 1), SaveDocument(f, v)
    PROVE  CoreInv' /\ [H!Operation]_Durable
<1>1. /\ DiskInv /\ RunInv /\ docs \in Nat /\ touched \subseteq Features /\ f \in dir
      /\ files[f].state # None /\ files[f].doc # 0 /\ files[f] \in Contents
    BY DEF CoreInv, SaveDocument, Listed, DiskInv, Types
<1>2. /\ files' = [files EXCEPT ![f]["doc"] = v] /\ pc' = pc /\ op' = op
      /\ UNCHANGED <<dir, fileManifest, phaseManifest, head, staged, torn, ahead, faults>>
      /\ touched' = IF Covered(f) THEN touched \cup {f} ELSE touched
      /\ docs' \in Nat /\ docs <= docs' /\ v \in 1..docs' /\ docs' <= docs + 1
    <2>1. docs' = IF v > docs THEN v ELSE docs
        BY DEF SaveDocument
    <2>2. docs' \in Nat /\ docs <= docs' /\ v \in 1..docs' /\ docs' <= docs + 1
        BY <1>1, <2>1
    <2> QED
        BY <2>2 DEF SaveDocument, History
<1>3. Becomes(f, "doc", v)
    BY <1>1, <1>2 DEF Becomes, Byte, FilePaths
<1>4. ByUser(f, "doc", v)
    BY <1>1, <1>2 DEF ByUser, Covered, Free, FM
<1>5. DiskInv' /\ [H!Operation]_Durable
    BY <1>1, <1>3, <1>4, FileChangeMaps
<1>6. /\ files'[f] \in Contents /\ files'[f].doc = v
      /\ files'[f].log = files[f].log /\ files'[f].state = files[f].state
      /\ \A g \in Features \ {f} : files'[g] = files[g]
    BY <1>1, <1>3, FilesOfChange DEF FilePaths
<1>7. \A g \in Features : FM(g)' = FM(g) /\ PM(g)' = PM(g) /\ Coordinators(g)' = Coordinators(g)
                          /\ (PhaseCommitted(g)' <=> PhaseCommitted(g)) /\ (Free(g)' <=> Free(g))
    BY <1>2 DEF FM, PM, Coordinators, PhaseCommitted, Free
<1>8. op.parts \subseteq Features
    <2>1. pc = "idle" => op.parts = {}
        BY <1>1 DEF RunInv, OpInv, NoOp
    <2> QED
        BY <1>1, <2>1 DEF RunInv, OpInv
<1>9. \A w : Writes(w) => Writes(w)'
    BY <1>1, <1>2 DEF Writes, WritesTo
<1>10. OpInv'
    BY <1>1, <1>2 DEF RunInv, OpInv
<1>11. ReadyInv'
    <2>1. SUFFICES ASSUME pc = "phase" \/ (pc = "manifest" /\ ~op.phase)
                   PROVE  ReadyInv'
        BY <1>2 DEF ReadyInv
    <2>2. /\ DOMAIN op.writes = op.parts /\ op.todo = op.parts /\ op.f \in dir /\ op.f \in op.parts
          /\ \A g \in op.parts : Free(g) /\ Writes(op.writes[g])
          /\ op.kind = "create" => files[op.f] = Missing
          /\ IF op.phase
             THEN Moves(op.f, op.parts, files, [g \in op.parts |-> Result(g)])
             ELSE op.parts = {op.f} /\ Unapproving(files[op.f], Result(op.f))
        BY <1>1, <2>1 DEF RunInv, ReadyInv, OpInv
    <2>3. files[f] # Missing
        BY <1>1, MissingContents
    <2> DEFINE wanted == [g \in op.parts |-> Result(g)]
    <2>4. ASSUME NEW g \in op.parts
          PROVE  /\ files'[g].log = files[g].log /\ files'[g].state = files[g].state
                 /\ wanted[g].log = wanted'[g].log /\ wanted[g].state = wanted'[g].state
                 /\ files[g] = Missing => files'[g] = Missing
        <3>1. g \in Features /\ files[g] \in Contents /\ files'[g] \in Contents
            BY <1>1, <1>5, <1>8, <2>4 DEF DiskInv, Types
        <3>2. files'[g].log = files[g].log /\ files'[g].state = files[g].state
            BY <1>6, <3>1
        <3>3. wanted[g] = Overlay(files[g], op.writes[g]) /\ wanted'[g] = Overlay(files'[g], op.writes[g])
            BY <1>2 DEF Result
        <3>4. \A q \in FilePaths :
                 /\ Overlay(files[g], op.writes[g])[q] =
                       IF q \in DOMAIN op.writes[g] THEN op.writes[g][q] ELSE files[g][q]
                 /\ Overlay(files'[g], op.writes[g])[q] =
                       IF q \in DOMAIN op.writes[g] THEN op.writes[g][q] ELSE files'[g][q]
            BY <1>1, <2>2, <3>1, OverlayContents
        <3> HIDE DEF wanted
        <3>5. wanted[g].log = wanted'[g].log /\ wanted[g].state = wanted'[g].state
            BY <3>2, <3>3, <3>4 DEF FilePaths
        <3> QED
            BY <1>6, <2>3, <3>1, <3>2, <3>5
    <2>5. wanted[op.f] = Result(op.f) /\ wanted'[op.f] = Result(op.f)'
        BY <1>2, <2>2
    <2> HIDE DEF wanted
    <2>6. op.phase => Moves(op.f, op.parts, files', wanted')
        <3>1. op.phase => Moves(op.f, op.parts, files, wanted)
            BY <2>2 DEF wanted
        <3>2. CASE op.parts = {op.f} /\ Advance(files[op.f], wanted[op.f])
            <4>1. Advance(files'[op.f], wanted'[op.f])
                BY <2>2, <2>4, <3>2 DEF Advance, Whole
            <4> QED
                BY <3>2, <4>1 DEF Moves
        <3>3. ASSUME NEW g \in Features \ {op.f}, op.parts = {op.f, g}, files[g] = Missing,
                     Supersession(op.f, g, files[op.f], wanted[op.f], wanted[g])
              PROVE  Moves(op.f, op.parts, files', wanted')
            <4>1. files'[g] = Missing
                BY <2>4, <3>3
            <4>2. Supersession(op.f, g, files'[op.f], wanted'[op.f], wanted'[g])
                BY <2>4, <3>3 DEF Supersession, Whole
            <4> QED
                BY <3>3, <4>1, <4>2 DEF Moves
        <3> QED
            BY <3>1, <3>2, <3>3 DEF Moves
    <2>7. ~op.phase => Unapproving(files'[op.f], wanted'[op.f])
        <3>1. ~op.phase => Unapproving(files[op.f], wanted[op.f])
            BY <2>2, <2>5
        <3> QED
            BY <2>2, <2>4, <3>1 DEF Unapproving, Creation, Advance, Whole
    <2>8. op.kind = "create" => files'[op.f] = Missing
        BY <2>2, <2>4
    <2>9. \A g \in op.parts : Free(g)' /\ Writes(op.writes[g])'
        <3>1. \A g \in op.parts : WritesTo(op.writes[g], docs')
            BY <1>1, <1>2, <2>2 DEF Writes, WritesTo
        <3> QED
            BY <1>2, <1>7, <1>8, <2>2, <3>1 DEF Writes, WritesTo
    <2> QED
        BY <1>2, <2>2, <2>5, <2>6, <2>7, <2>8, <2>9 DEF ReadyInv, wanted
\* Whatever file a step had written or restored still counts as such.
<1>12. ASSUME PM(op.f) # None, PM(op.f).parts = op.parts, op.f \in Features,
              NEW g \in op.parts, NEW q \in FilePaths
       PROVE  /\ Has(g, q, PM(op.f).desired) => Has(g, q, PM(op.f).desired)'
              /\ Has(g, q, PM(op.f).before) => Has(g, q, PM(op.f).before)'
    <2>2. CASE g = f /\ q = "doc"
        <3>1. f \in touched'
            BY <1>2, <1>12, <2>2 DEF Covered
        <3> QED
            BY <2>2, <3>1 DEF Has
    <2>3. CASE ~(g = f /\ q = "doc")
        <3>1. files'[g][q] = files[g][q]
            BY <1>6, <1>8, <2>3 DEF FilePaths
        <3> QED
            BY <1>2, <1>7, <1>12, <3>1 DEF Has
    <2> QED
        BY <2>2, <2>3
<1>13. \A g \in op.parts : Writes(op.writes[g]) => Writes(op.writes[g])'
    BY <1>2, <1>9 DEF Writes
<1>14. WriteInv'
    <2>1. SUFFICES ASSUME pc = "write"
                   PROVE  WriteInv'
        BY <1>2 DEF WriteInv
    <2>2. op.f \in op.parts /\ op.f \in Features
        BY <1>1, <1>8, <2>1 DEF RunInv, OpInv
    <2>3. CASE op.phase
        <3>1. /\ PM(op.f) # None /\ PM(op.f).parts = op.parts /\ op.todo \subseteq op.parts /\ op.todo # {}
            BY <1>1, <2>1, <2>3 DEF RunInv, BegunInv, Begun
        <3>2. Current \in op.parts /\ Current' = Current
            BY <1>2, <3>1, CurrentTodo DEF Current
        <3>3. /\ Writing(Current)
              /\ \A q \in FilePaths \ Names(op.left) : Has(Current, q, PM(op.f).desired)
            BY <1>1, <2>1, <2>3 DEF RunInv, WriteInv
        <3>4. \A q \in FilePaths \ Names(op.left) : Has(Current, q, PM(op.f).desired)'
            BY <1>12, <2>2, <3>1, <3>2, <3>3
        <3>5. Writing(Current)'
            BY <1>2, <1>7, <1>8, <1>13, <3>2, <3>3 DEF Writing
        <3> QED
            BY <1>2, <2>3, <3>2, <3>4, <3>5 DEF WriteInv
    <2>4. CASE ~op.phase
        <3>1. /\ op.parts = {op.f} /\ op.todo = {op.f} /\ Coordinators(op.f) = {} /\ Writing(op.f)
              /\ \A q \in DOMAIN FM(op.f) \ Names(op.left) : Written(op.f, q)
            BY <1>1, <2>1, <2>4 DEF RunInv, WriteInv
        <3>2. Writing(op.f)' /\ Coordinators(op.f)' = {}
            BY <1>2, <1>7, <1>13, <2>2, <3>1 DEF Writing
        <3>3. FileInv(op.f) /\ FM(op.f) # None /\ DOMAIN FM(op.f) \subseteq FilePaths
            BY <1>1, <2>2, <3>1 DEF DiskInv, FileInv, Writing
        <3>4. ASSUME NEW q \in DOMAIN FM(op.f) \ Names(op.left)
              PROVE  Written(op.f, q)'
            <4>1. CASE op.f = f /\ q = "doc"
                BY <1>2, <3>3, <4>1 DEF Written, Covered, FM
            <4>2. CASE ~(op.f = f /\ q = "doc")
                <5>1. files'[op.f][q] = files[op.f][q]
                    BY <1>6, <2>2, <3>3, <4>2 DEF FilePaths
                <5> QED
                    BY <1>2, <1>7, <2>2, <3>1, <5>1 DEF Written
            <4> QED
                BY <4>1, <4>2
        <3> QED
            BY <1>2, <1>7, <2>2, <2>4, <3>1, <3>2, <3>4 DEF WriteInv
    <2> QED
        BY <1>1, <2>3, <2>4 DEF RunInv, OpInv
<1>15. BegunInv'
    <2>1. SUFFICES ASSUME Begun
                   PROVE  BegunInv'
        BY <1>2 DEF BegunInv, Begun
    <2>2. op.f \in op.parts /\ op.f \in Features /\ BegunInv /\ PM(op.f) # None /\ PM(op.f).parts = op.parts
        BY <1>1, <1>8, <2>1 DEF RunInv, OpInv, Begun, BegunInv
    <2>3. Current' = Current
        BY <1>2 DEF Current
    <2>4. \A g \in op.parts : /\ Holds(g, PM(op.f).desired) => Holds(g, PM(op.f).desired)'
                              /\ Holds(g, PM(op.f).before) => Holds(g, PM(op.f).before)'
        BY <1>12, <2>2 DEF Holds
    <2>5. PM(op.f)' = PM(op.f) /\ (CommitReached(op.f)' <=> CommitReached(op.f))
        BY <1>2, <2>2 DEF CommitReached, PM
    <2> QED
        BY <1>2, <1>7, <1>8, <1>13, <2>1, <2>2, <2>3, <2>4, <2>5 DEF BegunInv, Begun
<1>16. RollbackInv'
    <2>1. pc \in {"rollback", "restore", "rmdir"} => op.f \in op.parts /\ op.f \in Features
        BY <1>1, <1>8 DEF RunInv, OpInv
    <2>2. pc = "restore" => PM(op.f) # None /\ PM(op.f).parts = op.parts
        BY <1>1 DEF RunInv, RollbackInv
    <2>3. ASSUME pc = "restore", NEW g \in op.parts, NEW q \in FilePaths, Restored(g, q)
          PROVE  Restored(g, q)'
        <3>1. Has(g, q, PM(op.f).before)'
            BY <1>12, <2>1, <2>2, <2>3 DEF Restored
        <3>2. g # f \/ PM(op.f).before[g].doc # 0 \/ q # "doc"
            BY <1>1, <2>3 DEF Restored
        <3> QED
            BY <1>2, <1>6, <1>7, <1>8, <2>1, <2>3, <3>1, <3>2 DEF Restored
    <2> QED
        BY <1>1, <1>2, <1>7, <1>8, <2>1, <2>3 DEF RunInv, RollbackInv
<1>17. IndexInv'
    BY <1>1, <1>2 DEF RunInv, IndexInv, PM
<1>18. RedoInv'
    <2>1. SUFFICES ASSUME pc = "redo"
                   PROVE  RedoInv'
        BY <1>2 DEF RedoInv
    <2>2. /\ op.f \in op.parts /\ op.f \in Features /\ FM(op.f) # None
          /\ DOMAIN FM(op.f) \subseteq FilePaths
        BY <1>1, <1>8, <2>1 DEF RunInv, OpInv, RedoInv, DiskInv, FileInv
    <2>3. ASSUME NEW q \in DOMAIN FM(op.f) \ Names(op.left)
          PROVE  Written(op.f, q)'
        <3>1. Written(op.f, q)
            BY <1>1, <2>1, <2>3 DEF RunInv, RedoInv
        <3>2. CASE op.f = f /\ q = "doc"
            BY <1>2, <2>2, <3>2 DEF Written, Covered, FM
        <3>3. CASE ~(op.f = f /\ q = "doc")
            <4>1. files'[op.f][q] = files[op.f][q]
                BY <1>6, <2>2, <2>3, <3>3 DEF FilePaths
            <4> QED
                BY <1>2, <1>7, <2>2, <3>1, <4>1 DEF Written
        <3> QED
            BY <3>2, <3>3
    <2> QED
        BY <1>1, <1>2, <1>7, <2>1, <2>2, <2>3 DEF RunInv, RedoInv
<1> QED
    BY <1>5, <1>10, <1>11, <1>14, <1>15, <1>16, <1>17, <1>18 DEF CoreInv, RunInv

(***************************************************************************)
(* The manifest of one feature.                                            *)
(***************************************************************************)
LEMMA ManifestGone ==
    ASSUME DiskInv, NEW f \in Features, FM(f) # None,
           fileManifest' = [fileManifest EXCEPT ![f] = None],
           UNCHANGED <<dir, files, phaseManifest, head, staged, docs, touched, torn, ahead, faults>>,
           Coordinators(f) = {} => \A p \in DOMAIN FM(f) : Written(f, p)
    PROVE  DiskInv' /\ [H!Operation]_Durable
<1>1. FileInv(f) /\ f \in dir /\ Types /\ files[f] \in Contents /\ DOMAIN FM(f) \subseteq FilePaths
    BY DEF DiskInv, FileInv, Types
<1>2. FM(f)' = None /\ \A g \in Features \ {f} : FM(g)' = FM(g)
    BY <1>1 DEF FM, Types
<1>3. \A g \in Features : PM(g)' = PM(g) /\ Coordinators(g)' = Coordinators(g)
                          /\ (PhaseCommitted(g)' <=> PhaseCommitted(g))
    BY DEF PM, Coordinators, PhaseCommitted
<1>4. FileTypes(f) /\ FileTypes(f)'
    BY <1>1, <1>2 DEF FileInv, FileTypes
<1>5. DocChanged(View(f), View(f)') /\ FreeInv(f)'
    <2>1. CASE Coordinators(f) = {}
        <3>1. View(f) = Shown(Rolled(f)) /\ View(f)' = Shown(Rolled(f)')
            BY <1>3, <2>1, ViewFree, ViewNext DEF FreeView, Shown
        <3>2. Rolled(f)' = files[f] /\ Rolled(f) \in Contents
              /\ \A p \in FilePaths : Rolled(f)[p] = RolledFile(f, p)
            BY <1>1, <1>2, <1>4, RolledContents, RolledNext DEF RolledFiles
        <3>3. ASSUME NEW p \in FilePaths \ {"doc"}
              PROVE  RolledFile(f, p) = files[f][p]
            BY <2>1, <3>3 DEF RolledFile, Written
        <3>4. Rolled(f).log = files[f].log /\ Rolled(f).state = files[f].state
            BY <3>2, <3>3 DEF FilePaths
        <3>5. View(f) # None
            BY <1>1, <2>1 DEF FileInv
        <3>6. files[f].state # None
            BY <3>1, <3>4, <3>5 DEF Shown
        <3>7. DocChanged(Shown(Rolled(f)), Shown(files[f]))
            BY <1>1, <3>2, <3>4, DocOnly
        <3> QED
            BY <3>1, <3>2, <3>6, <3>7 DEF FreeInv
    <2>2. CASE Coordinators(f) # {}
        <3>1. PICK c \in Coordinators(f) : TRUE
            BY <2>2
        <3>2. c \in Features /\ PM(c) # None /\ f \in PM(c).parts /\ PartInv(c, f)
              /\ Coordinators(f) = {c}
            BY <3>1, OneCoordinator DEF Coordinators, PM, DiskInv
        <3>3. ~PhaseCommitted(c)
            BY <3>2 DEF PartInv
        <3>4. View(f) = Shown(RolledBack(f, c)) /\ View(f)' = Shown(RolledBack(f, c)')
            BY <1>3, <3>2, <3>3, ViewPart, ViewNext DEF PartView, Shown
        <3>5. RolledBack(f, c)' = RolledBack(f, c)
            BY DEF RolledBack
        <3>6. ~Free(f)'
            BY <1>3, <2>2 DEF Free
        <3> QED
            BY <3>4, <3>5, <3>6 DEF FreeInv, DocChanged
    <2> QED
        BY <2>1, <2>2
<1>6. FileInv(f)'
    BY <1>2 DEF FileInv
<1>7. GitInv(f)'
    BY <1>5, GitKept DEF DiskInv
<1>8. ASSUME NEW c \in Features, PM(c) # None, f \in PM(c).parts
      PROVE  PartInv(c, f)'
    <2>1. PartInv(c, f)
        BY <1>8 DEF DiskInv
    <2> QED
        BY <1>2, <1>3, <2>1 DEF PartInv
<1>9. DiskInv' /\ \A g \in Features \ {f} : View(g)' = View(g)
    BY <1>1, <1>2, <1>5, <1>6, <1>7, <1>8, OneFeature DEF Types
<1>10. [H!Operation]_Durable
    BY <1>5, <1>9, EditMaps DEF DiskInv
<1> QED
    BY <1>9, <1>10

LEMMA CompleteRecoveryKeeps ==
    ASSUME CoreInv, CompleteRecovery
    PROVE  CoreInv' /\ [H!Operation]_Durable
<1>1. DiskInv /\ RunInv /\ pc = "redo" /\ op.left = << >>
    BY DEF CoreInv, CompleteRecovery
<1>2. op.f \in Features /\ FM(op.f) # None
    BY <1>1 DEF RunInv, OpInv, RedoInv
<1>3. \A p \in DOMAIN FM(op.f) : Written(op.f, p)
    BY <1>1, NamesOfNone DEF RunInv, RedoInv
<1>4. DiskInv' /\ [H!Operation]_Durable
    BY <1>1, <1>2, <1>3, ManifestGone DEF CompleteRecovery, Bookkeeping, History
<1> QED
    BY <1>4, EndedKeeps DEF CompleteRecovery

LEMMA RemoveFileManifestKeeps ==
    ASSUME CoreInv, RemoveFileManifest
    PROVE  CoreInv' /\ [H!Operation]_Durable
<1>1. DiskInv /\ RunInv /\ pc = "write" /\ op.left = << >> /\ Names(op.left) = {}
    BY NamesOfNone DEF CoreInv, RemoveFileManifest
<1>2. /\ op.f \in op.parts /\ op.parts \subseteq Features /\ DOMAIN op = DOMAIN NoOp
      /\ op.phase \in BOOLEAN
    BY <1>1 DEF RunInv, OpInv
<1>3. CASE ~op.phase
    <2>1. /\ op.todo = {op.f} /\ Coordinators(op.f) = {} /\ FM(op.f) # None
          /\ \A p \in DOMAIN FM(op.f) : Written(op.f, p)
        BY <1>1, <1>3 DEF RunInv, WriteInv, Writing
    <2>2. Current = op.f
        BY <2>1 DEF Current
    <2>3. fileManifest' = [fileManifest EXCEPT ![op.f] = None] /\ pc' = "idle" /\ op' = NoOp
          /\ UNCHANGED <<dir, files, phaseManifest, head, staged, docs, touched, torn, ahead, faults>>
        BY <1>3, <2>1, <2>2 DEF RemoveFileManifest, Bookkeeping, History
    <2>4. DiskInv' /\ [H!Operation]_Durable
        BY <1>1, <1>2, <2>1, <2>3, ManifestGone
    <2> QED
        BY <2>3, <2>4, EndedKeeps
<1>4. CASE op.phase
    <2>1. /\ BegunInv /\ Begun /\ op.todo # {} /\ op.todo \subseteq op.parts
          /\ PM(op.f) # None /\ PM(op.f).parts = op.parts /\ ~PhaseCommitted(op.f)
          /\ FM(Current) # None /\ \A p \in FilePaths : Has(Current, p, PM(op.f).desired)
        BY <1>1, <1>2, <1>4 DEF RunInv, BegunInv, Begun, WriteInv, Writing, PhaseCommitted, PM
    <2>2. PICK f \in Features : f = Current /\ f \in op.todo
        BY <1>2, <2>1, CurrentTodo
    <2> DEFINE rest == op.todo \ {f}
    <2>3. /\ fileManifest' = [fileManifest EXCEPT ![f] = None] /\ op' = [op EXCEPT !.todo = rest]
          /\ pc' = IF rest # {} THEN "manifest" ELSE "index"
          /\ UNCHANGED <<dir, files, phaseManifest, head, staged, docs, touched, torn, ahead, faults>>
        BY <1>4, <2>2 DEF RemoveFileManifest, Bookkeeping, History
    <2>4. /\ op'.todo = rest /\ op'.f = op.f /\ op'.parts = op.parts /\ op'.phase = op.phase
          /\ op'.kind = op.kind /\ op'.writes = op.writes /\ op'.index = op.index
          /\ DOMAIN op' = DOMAIN NoOp
        BY <1>2, <2>3 DEF NoOp
    <2>5. Coordinators(f) # {}
        BY <1>2, <2>1, <2>2 DEF Coordinators, PM
    <2>6. DiskInv' /\ [H!Operation]_Durable
        BY <1>1, <2>1, <2>2, <2>3, <2>5, ManifestGone
    <2>7. OpInv' /\ ReadyInv' /\ WriteInv' /\ RollbackInv' /\ RedoInv' /\ IndexInv'
        BY <1>1, <1>4, <2>3, <2>4
           DEF RunInv, OpInv, Positions, ReadyInv, WriteInv, RollbackInv, RedoInv, IndexInv
    <2>8. BegunInv'
        <3>1. PM(op.f)' = PM(op.f) /\ (PhaseCommitted(op.f)' <=> PhaseCommitted(op.f))
            BY <2>3, <2>4 DEF PM, PhaseCommitted
        <3>2. FM(f)' = None /\ \A g \in Features \ {f} : FM(g)' = FM(g)
            BY <1>1, <2>2, <2>3 DEF FM, DiskInv, Types
        <3>3. \A g \in op.parts : /\ Holds(g, PM(op.f).desired) => Holds(g, PM(op.f).desired)'
                                  /\ Holds(g, PM(op.f).before) => Holds(g, PM(op.f).before)'
            BY <2>3, <2>4, <3>1 DEF Holds, Has
        <3>4. \A g \in rest : FM(g) = None /\ Holds(g, PM(op.f).before)
            BY <1>1, <2>1, <2>2 DEF BegunInv
        <3>5. \A g \in op.parts \ rest : FM(g)' = None /\ Holds(g, PM(op.f).desired)
            <4>1. f \in op.parts /\ FM(f)' = None /\ Holds(f, PM(op.f).desired)
                BY <2>1, <2>2, <3>2 DEF Holds
            <4>2. \A g \in op.parts \ op.todo : FM(g) = None /\ Holds(g, PM(op.f).desired)
                BY <2>1 DEF BegunInv
            <4> QED
                BY <1>2, <3>2, <4>1, <4>2
        <3>6. \A g \in op.parts : Writes(op.writes[g])'
            BY <2>1, <2>3, <2>4 DEF BegunInv, Writes, WritesTo
        <3>7. \A g \in op.parts : PM(op.f).desired[g] = Overlay(PM(op.f).before[g], op.writes[g])
              /\ DOMAIN op.writes = op.parts /\ op.parts \subseteq dir
              /\ head[op.f].log # PM(op.f).desired[op.f].log
            BY <1>1, <2>1 DEF BegunInv
        <3> QED
            BY <1>1, <1>2, <2>1, <2>3, <2>4, <3>1, <3>2, <3>3, <3>4, <3>5, <3>6, <3>7
               DEF BegunInv, Begun
    <2> QED
        BY <2>6, <2>7, <2>8 DEF CoreInv, RunInv
<1> QED
    BY <1>2, <1>3, <1>4

LEMMA ManifestIsSome ==
    ASSUME NEW r \in Contents, NEW w, Writes(w), docs \in Nat
    PROVE  [p \in DOMAIN w |-> [before |-> r[p], after |-> w[p]]] # None
<1> DEFINE m == [p \in DOMAIN w |-> [before |-> r[p], after |-> w[p]]]
<1>1. DOMAIN w \in SUBSET FilePaths /\ FilePaths = DOMAIN Missing
    BY DEF Writes, WritesTo, FilePaths, Missing
<1>2. ASSUME NEW p \in DOMAIN w
      PROVE  r[p] \in Bytes /\ w[p] \in Bytes
    <2>1. r.doc \in Nat /\ r.log \in Logs \cup {None} /\ r.state \in States \cup {None}
        BY ContentsPaths
    <2>2. CASE p = "doc"
        BY <2>1, <2>2 DEF Bytes, Writes, WritesTo
    <2>3. CASE p = "log"
        BY <2>1, <2>3 DEF Bytes, Writes, WritesTo
    <2>4. CASE p = "state"
        BY <2>1, <2>4 DEF Bytes, Writes, WritesTo
    <2> QED
        BY <1>1, <2>2, <2>3, <2>4 DEF FilePaths
<1>3. m \in FileManifests(DOMAIN w)
    BY <1>2 DEF FileManifests
<1> HIDE DEF m
<1>4. m # None
    BY <1>1, <1>3, NoneAssumption
<1> QED
    BY <1>4 DEF m

\* The manifest that holds the bytes of f and those of w.
Records(f, w) ==
    fileManifest' = [fileManifest EXCEPT ![f] =
        [p \in DOMAIN w |-> [before |-> files[f][p], after |-> w[p]]]]

LEMMA Recorded ==
    ASSUME DiskInv, NEW f \in Features, f \in dir, NEW w, Writes(w), Records(f, w), docs' = docs,
           touched' = touched, UNCHANGED <<dir, files>>
    PROVE  /\ FM(f)' # None /\ DOMAIN FM(f)' = DOMAIN w
           /\ \A p \in DOMAIN w : FM(f)'[p].before = files[f][p] /\ FM(f)'[p].after = w[p]
           /\ \A g \in Features \ {f} : FM(g)' = FM(g)
           /\ DOMAIN fileManifest' = Features
           /\ (Coordinators(f)' = {} => View(f)' # None) => FileInv(f)'
<1> DEFINE m == [p \in DOMAIN w |-> [before |-> files[f][p], after |-> w[p]]]
<1>1. docs \in Nat /\ DOMAIN fileManifest = Features /\ files[f] \in Contents /\ files[f].doc <= docs
    BY DEF DiskInv, Types
<1>2. FM(f)' = m /\ (\A g \in Features \ {f} : FM(g)' = FM(g)) /\ DOMAIN fileManifest' = Features
    BY <1>1 DEF FM, Records
<1>3. m # None
    BY <1>1, ManifestIsSome
<1>4. DOMAIN m = DOMAIN w /\ \A p \in DOMAIN w : m[p].before = files[f][p] /\ m[p].after = w[p]
    OBVIOUS
<1> HIDE DEF m
<1>5. (Coordinators(f)' = {} => View(f)' # None) => FileInv(f)'
    <2>1. DOMAIN w \subseteq FilePaths /\ "log" \in DOMAIN w /\ w["log"] \in Logs
          /\ ("doc" \in DOMAIN w => w["doc"] \in 0..docs) /\ ("state" \in DOMAIN w => w["state"] \in States)
        BY DEF Writes, WritesTo
    <2>2. files[f].doc \in 0..docs
        BY <1>1, ContentsPaths
    <2> QED
        BY <1>2, <1>3, <1>4, <2>1, <2>2 DEF FileInv
<1> QED
    BY <1>2, <1>3, <1>4, <1>5

\* In a phase, before and after are those of the phase.
LEMMA RecordInPhase ==
    ASSUME DiskInv, NEW f \in Features, f \in dir, NEW w, Writes(w), Records(f, w),
           UNCHANGED <<dir, files, phaseManifest, head, staged, docs, touched, torn, ahead, faults>>,
           NEW c \in Features, PM(c) # None, f \in PM(c).parts, ~PhaseCommitted(c),
           PM(c).desired[f] = Overlay(PM(c).before[f], w),
           \A p \in FilePaths \ {"doc"} : files[f][p] = PM(c).before[f][p]
    PROVE  DiskInv' /\ UNCHANGED Durable
<1>1. /\ FM(f)' # None /\ DOMAIN FM(f)' = DOMAIN w
      /\ \A p \in DOMAIN w : FM(f)'[p].before = files[f][p] /\ FM(f)'[p].after = w[p]
      /\ \A g \in Features \ {f} : FM(g)' = FM(g)
      /\ DOMAIN fileManifest' = Features
      /\ (Coordinators(f)' = {} => View(f)' # None) => FileInv(f)'
    BY Recorded
<1>2. \A g \in Features : PM(g)' = PM(g) /\ Coordinators(g)' = Coordinators(g)
                          /\ (PhaseCommitted(g)' <=> PhaseCommitted(g))
    BY DEF PM, Coordinators, PhaseCommitted
<1>3. Coordinators(f) = {c} /\ PartInv(c, f) /\ Types
    BY OneCoordinator DEF DiskInv
<1>4. View(f)' = View(f)
    <2>1. View(f) = Shown(RolledBack(f, c)) /\ View(f)' = Shown(RolledBack(f, c)')
        BY <1>2, <1>3, ViewPart, ViewNext DEF PartView, Shown
    <2>2. RolledBack(f, c)' = RolledBack(f, c)
        BY DEF RolledBack
    <2> QED
        BY <2>1, <2>2
<1>5. FileInv(f)' /\ FreeInv(f)'
    BY <1>1, <1>2, <1>3 DEF FreeInv, Free
<1>6. GitInv(f)'
    BY <1>4 DEF DiskInv, GitInv
<1>7. ASSUME NEW d \in Features, PM(d) # None, f \in PM(d).parts
      PROVE  PartInv(d, f)'
    <2>1. d = c
        BY <1>3, <1>7 DEF Coordinators, PM
    <2>2. DOMAIN w \subseteq FilePaths
        BY DEF Writes, WritesTo
    <2>3. \A p \in DOMAIN w : PM(c).desired[f][p] = w[p]
        <3>1. PM(c).before[f] \in Contents
            BY DEF DiskInv, PhaseInv, PhaseManifests
        <3> QED
            BY <1>3, <2>2, <3>1, OverlayContents DEF Types
    <2> QED
        BY <1>1, <1>2, <1>3, <2>1, <2>2, <2>3 DEF PartInv
<1>8. files \in [Features -> Contents] /\ files[f].doc <= docs /\ docs \in Nat /\ touched \subseteq Features
    BY <1>3 DEF Types
<1>9. DiskInv' /\ \A g \in Features \ {f} : View(g)' = View(g)
    BY <1>1, <1>5, <1>6, <1>7, <1>8, OneFeature
<1>10. UNCHANGED Durable
    BY <1>4, <1>9 DEF Durable
<1> QED
    BY <1>9, <1>10

\* A mutation without a phase takes effect with its manifest.
LEMMA RecordAlone ==
    ASSUME DiskInv, NEW f \in Features, f \in dir, NEW w, Writes(w), Records(f, w),
           UNCHANGED <<dir, files, phaseManifest, head, staged, docs, touched, torn, ahead, faults>>,
           Free(f), Unapproving(files[f], Overlay(files[f], w))
    PROVE  DiskInv' /\ [H!Operation]_Durable
<1> DEFINE t == Overlay(files[f], w)
<1>1. /\ FM(f)' # None /\ DOMAIN FM(f)' = DOMAIN w
      /\ \A p \in DOMAIN w : FM(f)'[p].before = files[f][p] /\ FM(f)'[p].after = w[p]
      /\ \A g \in Features \ {f} : FM(g)' = FM(g)
      /\ DOMAIN fileManifest' = Features
      /\ (Coordinators(f)' = {} => View(f)' # None) => FileInv(f)'
    BY Recorded
<1>2. /\ files \in [Features -> Contents] /\ files[f] \in Contents /\ files[f].doc <= docs /\ docs \in Nat
      /\ touched \subseteq Features /\ GitInv(f) /\ head[f] \in Contents
    BY DEF DiskInv, Types
<1>3. Coordinators(f) = {} /\ Coordinators(f)' = {}
    BY DEF Free, Coordinators
<1>4. t \in Contents /\ \A p \in FilePaths : t[p] = IF p \in DOMAIN w THEN w[p] ELSE files[f][p]
    BY <1>2, OverlayContents
<1>5. DOMAIN w \subseteq FilePaths /\ "log" \in DOMAIN w /\ w["log"] \in Logs
      /\ ("doc" \in DOMAIN w => w["doc"] \in 0..docs) /\ ("state" \in DOMAIN w => w["state"] \in States)
    BY DEF Writes, WritesTo
<1>6. Rolled(f)' = t
    <2>1. FileTypes(f)'
        BY <1>1, <1>2, <1>5 DEF FileTypes
    <2>2. Rolled(f)' \in Contents /\ \A p \in FilePaths : Rolled(f)'[p] = RolledFile(f, p)'
        BY <1>1, <1>2, <2>1, RolledNext DEF RolledFiles
    <2>3. ASSUME NEW p \in FilePaths
          PROVE  RolledFile(f, p)' = t[p]
        BY <1>1, <1>4, <2>3 DEF RolledFile
    <2> QED
        BY <1>4, <2>2, <2>3, SameContents
<1>7. Whole(t) /\ Unapproving(files[f], t)
    BY DEF Unapproving, Creation, Advance
<1> HIDE DEF t
<1>8. View(f)' = t /\ t # None
    <2>1. View(f)' = Shown(Rolled(f)')
        BY <1>3, ViewNext DEF FreeView, Shown
    <2> QED
        BY <1>4, <1>6, <1>7, <2>1, NoneIsNoFile DEF Shown, Whole
<1>9. View(f) = Shown(files[f])
    BY FreeShown
<1>10. FileInv(f)' /\ FreeInv(f)'
    BY <1>1, <1>8 DEF FreeInv, Free
\* Either nothing was there, in Git neither, or the journal grows.
<1>11. CASE Creation(files[f], t)
    <2>1. View(f) = None
        BY <1>9, <1>11, MissingContents DEF Creation, Shown
    <2>2. GitInv(f)'
        BY <1>2, <1>4, <1>7, <1>8, <1>11, <2>1 DEF GitInv, Creation
    <2>3. DiskInv' /\ \A g \in Features \ {f} : View(g)' = View(g)
        BY <1>1, <1>2, <1>3, <1>10, <2>2, OneFeature DEF Coordinators, PM
    <2>4. H!Create(f)
        BY <1>7, <1>8, <1>11, <2>1, <2>3 DEF H!Create, H!Anchored, Whole, Creation
    <2> QED
        BY <2>3, <2>4 DEF H!Operation
<1>12. CASE Advance(files[f], t)
    <2>1. View(f) = files[f] /\ files[f] # None /\ files[f].log.len \in Nat /\ t.log.len \in Nat
        BY <1>2, <1>4, <1>9, <1>12, NoneIsNoFile, ContentsPaths DEF Advance, Whole, Shown, Logs
    <2>2. GitInv(f)'
        BY <1>2, <1>4, <1>7, <1>8, <1>12, <2>1 DEF GitInv, Unapproving, Advance, Creation, Whole
    <2>3. DiskInv' /\ \A g \in Features \ {f} : View(g)' = View(g)
        BY <1>1, <1>2, <1>3, <1>10, <2>2, OneFeature DEF Coordinators, PM
    <2>4. H!Append(f)
        BY <1>7, <1>8, <1>12, <2>1, <2>3 DEF H!Append, H!Anchored, Whole, Advance
    <2> QED
        BY <2>3, <2>4 DEF H!Operation
<1> QED
    BY <1>7, <1>11, <1>12 DEF Unapproving

LEMMA WriteFileManifestKeeps ==
    ASSUME CoreInv, WriteFileManifest
    PROVE  CoreInv' /\ [H!Operation]_Durable
<1>1. DiskInv /\ RunInv /\ pc = "manifest" /\ docs \in Nat /\ files \in [Features -> Contents]
    BY DEF CoreInv, WriteFileManifest, DiskInv, Types
<1>2. /\ op.f \in op.parts /\ op.parts \subseteq Features /\ DOMAIN op = DOMAIN NoOp
      /\ op.phase \in BOOLEAN
    BY <1>1 DEF RunInv, OpInv
<1>3. PICK f \in Features :
         f = Current /\ f \in op.todo /\ f \in op.parts /\ f \in dir /\ Writes(op.writes[f])
    <2>1. CASE op.phase
        <3>1. op.todo # {} /\ op.todo \subseteq op.parts /\ op.parts \subseteq dir
              /\ \A g \in op.parts : Writes(op.writes[g])
            BY <1>1, <2>1 DEF RunInv, BegunInv, Begun
        <3> QED
            BY <1>2, <3>1, CurrentTodo
    <2>2. CASE ~op.phase
        <3>1. op.todo = op.parts /\ op.parts = {op.f} /\ op.f \in dir /\ Writes(op.writes[op.f])
            BY <1>1, <1>2, <2>2 DEF RunInv, ReadyInv
        <3> QED
            BY <1>2, <3>1, CurrentTodo
    <2> QED
        BY <1>2, <2>1, <2>2
<1> DEFINE w == op.writes[f]
           left == InOrder(DOMAIN w)
<1>4. /\ Records(f, w) /\ op' = [op EXCEPT !.left = left] /\ pc' = "write"
      /\ UNCHANGED <<dir, files, phaseManifest, head, staged, docs, touched, torn, ahead, faults>>
    BY <1>3 DEF WriteFileManifest, Records, Bookkeeping, History
<1>5. left \in Seq(DOMAIN w) /\ Names(left) = DOMAIN w
    BY <1>3, NamesInOrder DEF Writes, WritesTo
<1> HIDE DEF left
<1>6. /\ op'.left = left /\ op'.f = op.f /\ op'.parts = op.parts /\ op'.phase = op.phase
      /\ op'.kind = op.kind /\ op'.writes = op.writes /\ op'.todo = op.todo
      /\ op'.index = op.index /\ DOMAIN op' = DOMAIN NoOp
    BY <1>2, <1>4 DEF NoOp
<1>7. /\ FM(f)' # None /\ DOMAIN FM(f)' = DOMAIN w
      /\ \A p \in DOMAIN w : FM(f)'[p].before = files[f][p] /\ FM(f)'[p].after = w[p]
      /\ \A g \in Features \ {f} : FM(g)' = FM(g)
    BY <1>1, <1>3, <1>4, Recorded
<1>8. Current' = f
    BY <1>3, <1>6 DEF Current
<1>9. Writing(f)'
    BY <1>3, <1>4, <1>5, <1>6, <1>7 DEF Writing, Writes, WritesTo
<1>10. OpInv' /\ ReadyInv' /\ RollbackInv' /\ RedoInv' /\ IndexInv'
    BY <1>1, <1>4, <1>6 DEF RunInv, OpInv, Positions, ReadyInv, RollbackInv, RedoInv, IndexInv
<1>11. CASE ~op.phase
    <2>1. /\ op.parts = {op.f} /\ op.todo = {op.f} /\ f = op.f /\ Free(f)
          /\ Unapproving(files[f], Result(f))
        BY <1>1, <1>3, <1>11 DEF RunInv, ReadyInv
    <2>2. DiskInv' /\ [H!Operation]_Durable
        BY <1>1, <1>3, <1>4, <2>1, RecordAlone DEF Result
    <2>3. Coordinators(f)' = {}
        BY <1>4, <2>1 DEF Free, Coordinators
    <2>4. WriteInv'
        BY <1>5, <1>6, <1>7, <1>9, <1>11, <2>1, <2>3 DEF WriteInv
    <2>5. BegunInv'
        BY <1>6, <1>11 DEF BegunInv, Begun
    <2> QED
        BY <1>10, <2>2, <2>4, <2>5 DEF CoreInv, RunInv
<1>12. CASE op.phase
    <2> DEFINE m == PM(op.f)
    <2>1. BegunInv /\ Begun
        BY <1>1, <1>12 DEF RunInv, Begun
    <2>2. /\ m # None /\ m.parts = op.parts /\ ~PhaseCommitted(op.f)
          /\ DOMAIN op.writes = op.parts /\ op.todo \subseteq op.parts /\ op.parts \subseteq dir
          /\ \A g \in op.parts : Writes(op.writes[g]) /\ m.desired[g] = Overlay(m.before[g], op.writes[g])
          /\ \A g \in op.parts : g \notin op.todo => FM(g) = None /\ Holds(g, m.desired)
          /\ \A g \in op.todo : FM(g) = None /\ Holds(g, m.before)
          /\ head[op.f].log # m.desired[op.f].log
        BY <1>1, <1>2, <2>1 DEF BegunInv, PhaseCommitted, PM
    <2>3. m' = m
        BY <1>4, <1>6 DEF PM
    <2>4. \A p \in FilePaths \ {"doc"} : files[f][p] = m.before[f][p]
        BY <1>3, <2>2 DEF Holds, Has
    <2>5. DiskInv' /\ UNCHANGED Durable
        BY <1>1, <1>2, <1>3, <1>4, <2>2, <2>4, RecordInPhase
    <2>6. WriteInv'
        <3>1. m.before[f] \in Contents
            BY <1>1, <1>2, <1>3, <2>2 DEF DiskInv, PhaseInv, PhaseManifests
        <3>2. \A p \in FilePaths \ DOMAIN w : m.desired[f][p] = m.before[f][p]
            BY <1>1, <1>3, <2>2, <3>1, OverlayContents
        <3>3. \A p \in FilePaths \ DOMAIN w : Has(f, p, m.desired)
            BY <1>3, <2>2, <3>2 DEF Holds, Has
        <3>4. \A p \in FilePaths \ DOMAIN w : Has(f, p, m.desired)'
            BY <1>4, <1>6, <2>3, <3>3 DEF Has
        <3> QED
            BY <1>5, <1>6, <1>8, <1>9, <1>12, <3>4 DEF WriteInv
    <2>7. BegunInv'
        <3>1. \A g \in op.parts : /\ Holds(g, m.desired) => Holds(g, m.desired)'
                                  /\ Holds(g, m.before) => Holds(g, m.before)'
            BY <1>4, <1>6, <2>3 DEF Holds, Has
        <3>2. \A g \in op.parts : Writes(op.writes[g])'
            BY <1>4, <1>6, <2>2 DEF Writes, WritesTo
        <3>3. \A g \in op.parts \ {f} : FM(g)' = FM(g)
            BY <1>2, <1>7
        <3>4. \A g \in op.parts : g \notin op.todo => FM(g)' = None /\ Holds(g, m.desired)'
            BY <1>3, <2>2, <3>1, <3>3
        <3>5. \A g \in op.todo \ {f} : FM(g)' = None /\ Holds(g, m.before)'
            BY <2>2, <3>1, <3>3
        <3> QED
            BY <1>3, <1>4, <1>6, <1>8, <2>2, <2>3, <3>2, <3>4, <3>5 DEF BegunInv, Begun
    <2> QED
        BY <1>10, <2>5, <2>6, <2>7 DEF CoreInv, RunInv
<1> QED
    BY <1>2, <1>11, <1>12

LEMMA PrepareIndexKeeps ==
    ASSUME CoreInv, PrepareIndex
    PROVE  CoreInv' /\ UNCHANGED Durable
<1> DEFINE new == {f \in op.parts : \E p \in DOMAIN Missing :
                     head[f][p] = Missing[p] /\ files[f][p] # Missing[p] /\ f \notin staged}
           m == PM(op.f)
           n == [m EXCEPT !.index = new]
<1>1. DiskInv /\ RunInv /\ pc = "index" /\ docs \in Nat /\ Types
    BY DEF CoreInv, PrepareIndex, DiskInv, Types
<1>2. /\ op.f \in op.parts /\ op.parts \subseteq Features /\ DOMAIN op = DOMAIN NoOp /\ op.phase
    BY <1>1 DEF RunInv, OpInv
<1>3. BegunInv /\ Begun /\ m # None /\ m.parts = op.parts
    BY <1>1, <1>2 DEF RunInv, BegunInv, Begun
<1>4. new \subseteq op.parts
    OBVIOUS
<1> HIDE DEF new
<1>5. /\ phaseManifest' = [phaseManifest EXCEPT ![op.f].index = new]
      /\ op' = [op EXCEPT !.index = new] /\ pc' = "add"
      /\ UNCHANGED <<dir, files, fileManifest, head, staged, docs, touched, faults, torn, ahead>>
    BY DEF PrepareIndex, Bookkeeping, History, new
<1>6. m \in PhaseManifests(op.parts) /\ n \in PhaseManifests(op.parts) /\ n # None
      /\ n.parts = m.parts /\ n.before = m.before /\ n.desired = m.desired /\ n.index = new
    <2>1. m \in PhaseManifests(op.parts)
        BY <1>1, <1>2, <1>3 DEF DiskInv, PhaseInv
    <2>2. n \in PhaseManifests(op.parts) /\ n.parts = m.parts /\ n.before = m.before
          /\ n.desired = m.desired /\ n.index = new
        BY <1>4, <2>1 DEF PhaseManifests
    <2> HIDE DEF n
    <2> QED
        BY <1>2, <2>1, <2>2, NoneAssumption
<1>7. PM(op.f)' = n /\ op'.f = op.f
    BY <1>1, <1>2, <1>5 DEF PM, Types, NoOp
<1> HIDE DEF n
<1>8. \A g \in Features \ {op.f} : PM(g)' = PM(g)
    BY <1>1, <1>5 DEF PM, Types
<1>9. ASSUME NEW c \in Features
      PROVE  /\ (phaseManifest'[c] # None <=> PM(c) # None) /\ phaseManifest'[c].parts = PM(c).parts
             /\ phaseManifest'[c].before = PM(c).before /\ phaseManifest'[c].desired = PM(c).desired
    <2>1. phaseManifest'[c] = IF c = op.f THEN n ELSE PM(c)
        BY <1>7, <1>8 DEF PM
    <2> QED
        BY <1>3, <1>6, <2>1
<1>10. ASSUME NEW g \in Features
       PROVE  Coordinators(g)' = Coordinators(g) /\ View(g)' = View(g) /\ FM(g)' = FM(g)
              /\ (PhaseCommitted(g)' <=> PhaseCommitted(g)) /\ (Free(g)' <=> Free(g))
    <2>1. Coordinators(g)' = Coordinators(g) /\ FM(g)' = FM(g)
        BY <1>5, <1>9 DEF Coordinators, PM, FM
    <2>2. \A c \in Features : PhaseCommitted(c)' <=> PhaseCommitted(c)
        BY <1>5, <1>9 DEF PhaseCommitted, PM
    <2>3. \A c \in Coordinators(g) : c \in Features
        BY DEF Coordinators
    <2>4. View(g)' = View(g)
        BY <1>5, <1>9, <2>1, <2>2, <2>3, SameView DEF PM
    <2> QED
        BY <2>1, <2>2, <2>4 DEF Free
<1>11. Types' /\ Disjoint'
    <2>1. DOMAIN phaseManifest' = Features
        BY <1>1, <1>5 DEF Types
    <2>2. Types'
        BY <1>1, <1>5, <1>10, <2>1 DEF Types
    <2>3. Disjoint'
        BY <1>1, <1>9 DEF DiskInv, Disjoint, PM
    <2> QED
        BY <2>2, <2>3
<1>12. op.parts \cap staged \subseteq torn
    BY <1>1 DEF RunInv, IndexInv
<1>13. StagedInv'
    <2>1. SUFFICES ASSUME NEW f \in staged \ torn
                   PROVE  \E c \in Features : PM(c)' # None /\ f \in PM(c)'.index
        BY <1>5 DEF StagedInv
    <2>2. PICK c \in Features : PM(c) # None /\ f \in PM(c).index
        BY <1>1 DEF DiskInv, StagedInv
    <2>3. f \in PM(c).parts
        BY <1>1, <2>2 DEF DiskInv, PhaseInv, PhaseManifests
    <2>4. c # op.f
        BY <1>3, <1>12, <2>3
    <2> QED
        BY <1>8, <2>2, <2>4
<1>14. ASSUME NEW f \in Features
       PROVE  FileInv(f)' /\ PhaseInv(f)' /\ CommitInv(f)' /\ GitInv(f)' /\ FreeInv(f)'
    <2>1. FileInv(f)'
        BY <1>1, <1>5, <1>10 DEF DiskInv, FileInv
    <2>2. PhaseInv(f)'
        <3>1. CASE f = op.f
            <4>1. PhaseInv(op.f)
                BY <1>1, <1>2 DEF DiskInv
            <4> QED
                BY <1>3, <1>5, <1>6, <1>7, <3>1, <4>1 DEF PhaseInv, PM
        <3>2. CASE f # op.f
            BY <1>1, <1>5, <1>8, <3>2 DEF DiskInv, PhaseInv
        <3> QED
            BY <3>1, <3>2
    <2>3. GitInv(f)' /\ FreeInv(f)'
        BY <1>1, <1>5, <1>10 DEF DiskInv, GitInv, FreeInv
    <2>4. CommitInv(f)'
        <3>1. CASE PM(f) = None
            BY <1>9, <3>1 DEF CommitInv, PM
        <3>2. CASE PM(f) # None
            BY <1>1, <1>5, <1>9, <3>2, CommitKept DEF DiskInv, PM
        <3> QED
            BY <3>1, <3>2
    <2> QED
        BY <2>1, <2>2, <2>3, <2>4
<1>15. ASSUME NEW c \in Features, PM(c)' # None, NEW f \in PM(c)'.parts
       PROVE  PartInv(c, f)'
    <2>1. PM(c) # None /\ f \in PM(c).parts /\ PM(c)'.before = PM(c).before
          /\ PM(c)'.desired = PM(c).desired
        BY <1>9, <1>15 DEF PM
    <2>2. f \in Features /\ PM(c).before[f] \in Contents /\ PM(c).desired[f] \in Contents
        BY <1>1, <2>1 DEF DiskInv, PhaseInv, PhaseManifests
    <2>3. PartInv(c, f)
        BY <1>1, <2>1 DEF DiskInv
    <2> QED
        BY <1>1, <1>5, <1>10, <2>1, <2>2, <2>3, PartKept
<1>16. DiskInv'
    BY <1>11, <1>13, <1>14, <1>15 DEF DiskInv
<1>17. UNCHANGED Durable
    BY <1>10 DEF Durable
<1>18. /\ op'.parts = op.parts /\ op'.phase = op.phase /\ op'.kind = op.kind
       /\ op'.writes = op.writes /\ op'.todo = op.todo /\ op'.index = new /\ DOMAIN op' = DOMAIN NoOp
    BY <1>2, <1>5 DEF NoOp
<1>19. OpInv' /\ ReadyInv' /\ WriteInv' /\ RollbackInv' /\ RedoInv' /\ IndexInv'
    BY <1>1, <1>5, <1>7, <1>18
       DEF RunInv, OpInv, Positions, ReadyInv, WriteInv, RollbackInv, RedoInv, IndexInv
<1>20. BegunInv'
    <2>1. \A g \in op.parts : /\ Holds(g, m.desired) => Holds(g, m.desired)'
                              /\ Holds(g, m.before) => Holds(g, m.before)'
        BY <1>5, <1>6, <1>7 DEF Holds, Has
    <2>2. \A g \in op.parts : Writes(op.writes[g])'
        BY <1>1, <1>3, <1>5, <1>18 DEF BegunInv, Writes, WritesTo
    <2>3. /\ DOMAIN op.writes = op.parts /\ op.todo = {} /\ op.parts \subseteq dir
          /\ \A g \in op.parts : m.desired[g] = Overlay(m.before[g], op.writes[g])
          /\ \A g \in op.parts : FM(g) = None /\ Holds(g, m.desired)
          /\ head[op.f].log # m.desired[op.f].log
        BY <1>1, <1>3 DEF BegunInv
    <2>4. \A g \in op.parts : FM(g)' = None
        BY <1>2, <1>10, <2>3
    <2> QED
        BY <1>3, <1>5, <1>6, <1>7, <1>18, <2>1, <2>2, <2>3, <2>4 DEF BegunInv, Begun
<1> QED
    BY <1>16, <1>17, <1>19, <1>20 DEF CoreInv, RunInv

(***************************************************************************)
(* The manifest of a phase.                                                *)
(***************************************************************************)
LEMMA MovesWhole ==
    ASSUME NEW c, NEW parts, NEW before, NEW desired, Moves(c, parts, before, desired)
    PROVE  /\ Whole(before[c]) /\ \A f \in parts : Whole(desired[f])
           /\ \A f \in parts : Whole(before[f]) \/ before[f] = Missing
    BY DEF Moves, Advance, Supersession

LEMMA PersistPhaseKeeps ==
    ASSUME RepoInv, PersistPhase
    PROVE  CoreInv' /\ UNCHANGED Durable
<1> DEFINE wanted == [f \in op.parts |-> Result(f)]
           m == [parts   |-> op.parts, index |-> {},
                 before  |-> [f \in op.parts |-> files[f]],
                 desired |-> wanted]
<1>1. DiskInv /\ RunInv /\ pc = "phase" /\ docs \in Nat /\ Types /\ HeadsInv
    BY DEF RepoInv, CoreInv, PersistPhase, DiskInv, Types
<1>2. /\ op.f \in op.parts /\ op.parts \subseteq Features /\ DOMAIN op = DOMAIN NoOp /\ op.phase
      /\ op.f \in Features /\ op.kind # "create"
    BY <1>1 DEF RunInv, OpInv
<1>3. /\ DOMAIN op.writes = op.parts /\ op.todo = op.parts /\ op.f \in dir
      /\ \A f \in op.parts : Free(f) /\ Writes(op.writes[f])
      /\ Moves(op.f, op.parts, files, wanted)
    BY <1>1, <1>2 DEF RunInv, ReadyInv
<1>4. /\ phaseManifest' = [phaseManifest EXCEPT ![op.f] = m]
      /\ pc' = IF op.parts \subseteq dir THEN "manifest" ELSE "mkdir"
      /\ UNCHANGED <<dir, files, fileManifest, head, staged, op, docs, touched, faults, torn, ahead>>
    BY DEF PersistPhase, Bookkeeping, History, Result
<1>5. \A f \in op.parts :
         /\ files[f] \in Contents /\ wanted[f] \in Contents
         /\ wanted[f] = Overlay(files[f], op.writes[f])
         /\ wanted[f].doc <= docs /\ files[f].doc <= docs
    <2>1. SUFFICES ASSUME NEW f \in op.parts
                   PROVE  /\ files[f] \in Contents /\ wanted[f] \in Contents
                          /\ wanted[f] = Overlay(files[f], op.writes[f])
                          /\ wanted[f].doc <= docs /\ files[f].doc <= docs
        OBVIOUS
    <2>2. files[f] \in Contents /\ files[f].doc <= docs
        BY <1>1, <1>2 DEF Types
    <2>3. wanted[f] = Overlay(files[f], op.writes[f])
        BY DEF Result
    <2>4. /\ Overlay(files[f], op.writes[f]) \in Contents
          /\ Overlay(files[f], op.writes[f]).doc =
                IF "doc" \in DOMAIN op.writes[f] THEN op.writes[f]["doc"] ELSE files[f].doc
        BY <1>1, <1>3, <2>2, OverlayContents DEF FilePaths
    <2>5. "doc" \in DOMAIN op.writes[f] => op.writes[f]["doc"] \in 0..docs
        BY <1>3 DEF Writes, WritesTo
    <2> HIDE DEF wanted
    <2> QED
        BY <1>1, <2>2, <2>3, <2>4, <2>5
<1>6. m \in PhaseManifests(op.parts) /\ m # None
    <2>1. wanted \in [op.parts -> Contents] /\ [f \in op.parts |-> files[f]] \in [op.parts -> Contents]
        BY <1>5
    <2> HIDE DEF wanted
    <2>2. m \in PhaseManifests(op.parts)
        BY <2>1 DEF PhaseManifests
    <2> HIDE DEF m
    <2> QED
        BY <1>2, <2>2, NoneAssumption
<1>7. m.parts = op.parts /\ m.index = {} /\ m.desired = wanted /\ \A f \in op.parts : m.before[f] = files[f]
    OBVIOUS
<1> HIDE DEF m, wanted
<1>8. PM(op.f)' = m /\ PM(op.f) = None /\ DOMAIN phaseManifest' = Features
      /\ \A c \in Features \ {op.f} : PM(c)' = PM(c)
    BY <1>1, <1>2, <1>3, <1>4, FreeUnstaged DEF PM, Types
<1>9. \A f \in Features : Coordinators(f)' = IF f \in op.parts THEN {op.f} ELSE Coordinators(f)
    <2>1. \A c, f \in Features : c \in Coordinators(f)' <=>
             IF c = op.f THEN f \in op.parts ELSE c \in Coordinators(f)
        <3>1. \A c \in Features : phaseManifest'[c] = IF c = op.f THEN m ELSE phaseManifest[c]
            BY <1>4, <1>8 DEF PM
        <3> QED
            BY <1>6, <1>7, <3>1 DEF Coordinators
    <2>2. \A f \in op.parts : Coordinators(f) = {}
        BY <1>3 DEF Free
    <2>3. \A c, f \in Features : c \in Coordinators(f) => c # op.f
        BY <1>8 DEF Coordinators, PM
    <2>4. \A f \in Features : Coordinators(f) \subseteq Features /\ Coordinators(f)' \subseteq Features
        BY DEF Coordinators
    <2> QED
        BY SMTT(30), <1>2, <2>1, <2>2, <2>3, <2>4
\* HEAD holds an earlier journal than the one the phase wants, or one from
\* before the last fault.
<1>10. head[op.f].log # wanted[op.f].log
    <2>1. Whole(files[op.f]) /\ Whole(wanted[op.f]) /\ wanted[op.f].log.len > files[op.f].log.len
        BY <1>3 DEF Moves, Advance, Supersession
    <2>2. View(op.f) = files[op.f]
        BY <1>2, <1>3, <2>1, FreeShown DEF Shown, Whole
    <2>3. wanted[op.f].log.at = faults
        BY <1>2, <1>3, <1>5 DEF Overlay, Writes, WritesTo, Contents
    <2>4. CASE head[op.f] = Missing
        BY <2>1, <2>4, MissingContents DEF Whole
    <2>5. CASE head[op.f] # Missing
        <3>1. Whole(head[op.f]) /\ HeadInv(op.f)
            BY <1>1, <1>2, <2>5 DEF DiskInv, GitInv, HeadsInv
        <3>2. head[op.f].log.len \in Nat /\ files[op.f].log.len \in Nat /\ wanted[op.f].log.len \in Nat
            BY <1>1, <1>2, <1>5, <2>1, <3>1, ContentsPaths DEF Whole, Types, Logs
        <3>3. faults \in Nat /\ head[op.f].log.at \in Nat
            BY <1>1, <2>5, <3>1 DEF Types, HeadInv
        <3>4. head[op.f].log.len <= files[op.f].log.len \/ head[op.f].log.at < faults
            BY <1>1, <2>2, <2>5, <3>1 DEF HeadInv
        <3> QED
            BY <2>1, <2>3, <3>2, <3>3, <3>4
    <2> QED
        BY <2>4, <2>5
<1>10a. ~PhaseCommitted(op.f)' /\ ~CommitReached(op.f)'
    BY <1>2, <1>4, <1>7, <1>8, <1>10 DEF PhaseCommitted, CommitReached, PM
<1>11. \A c \in Features \ {op.f} : PhaseCommitted(c)' <=> PhaseCommitted(c)
    BY <1>4, <1>8 DEF PhaseCommitted, PM
<1>12. ASSUME NEW f \in Features
       PROVE  View(f)' = View(f)
    <2>1. CASE f \in op.parts
        <3>1. View(f)' = Shown(RolledBack(f, op.f)') /\ View(f) = Shown(files[f])
            BY <1>2, <1>3, <1>4, <1>9, <1>10a, <2>1, ViewNext, FreeShown DEF PartView, Shown
        <3>2. RolledBack(f, op.f)' = files[f]
            BY <1>4, <1>5, <1>7, <1>8, <2>1 DEF RolledBack, PM, Contents
        <3> QED
            BY <3>1, <3>2
    <2>2. CASE f \notin op.parts
        <3>1. Coordinators(f)' = Coordinators(f) /\ \A c \in Coordinators(f) : c \in Features \ {op.f}
            BY <1>8, <1>9, <2>2 DEF Coordinators, PM
        <3> QED
            BY <1>4, <1>8, <1>11, <3>1, SameView DEF FM
    <2> QED
        BY <2>1, <2>2
<1>13. Types'
    BY <1>1, <1>4, <1>8 DEF Types, FM
<1>14. Disjoint'
    <2>1. \A d \in Features \ {op.f} : PM(d) # None => PM(d).parts \cap op.parts = {}
        BY <1>3 DEF Free, Coordinators, PM
    <2>2. \A c, d \in Features \ {op.f} :
             c # d /\ PM(c) # None /\ PM(d) # None => PM(c).parts \cap PM(d).parts = {}
        BY <1>1 DEF DiskInv, Disjoint
    <2> QED
        <3>1. \A c \in Features : PM(c)' = IF c = op.f THEN m ELSE PM(c)
            BY <1>4, <1>8
        <3> QED
            BY <1>7, <2>1, <2>2, <3>1 DEF Disjoint
<1>15. StagedInv'
    <2>1. \A f \in staged \ torn : \E c \in Features \ {op.f} : PM(c) # None /\ f \in PM(c).index
        BY <1>1, <1>8 DEF DiskInv, StagedInv
    <2> QED
        BY <1>4, <1>8, <2>1 DEF StagedInv
<1>16. ASSUME NEW f \in Features
       PROVE  FileInv(f)' /\ PhaseInv(f)' /\ CommitInv(f)' /\ GitInv(f)' /\ FreeInv(f)'
    <2>1. FileInv(f)'
        <3>1. CASE f \in op.parts
            BY <1>3, <1>4, <3>1 DEF FileInv, Free, FM
        <3>2. CASE f \notin op.parts
            BY <1>1, <1>4, <1>9, <1>12, <3>2 DEF DiskInv, FileInv, FM
        <3> QED
            BY <3>1, <3>2
    <2>2. PhaseInv(f)'
        <3>1. CASE f = op.f
            <4>1. Moves(op.f, op.parts, m.before, wanted)
                BY <1>2, <1>3, <1>7 DEF Moves
            <4> QED
                BY <1>2, <1>3, <1>4, <1>6, <1>7, <1>8, <3>1, <4>1 DEF PhaseInv
        <3>2. CASE f # op.f
            BY <1>1, <1>4, <1>8, <3>2 DEF DiskInv, PhaseInv
        <3> QED
            BY <3>1, <3>2
    <2>3. GitInv(f)'
        BY <1>1, <1>4, <1>12 DEF DiskInv, GitInv
    <2>4. FreeInv(f)'
        BY <1>1, <1>4, <1>9 DEF DiskInv, FreeInv, Free, FM
    <2>5. CommitInv(f)'
        <3>1. CASE f = op.f
            BY <1>4, <1>10a, <3>1 DEF CommitInv, CommitReached
        <3>2. CASE f # op.f /\ PM(f) = None
            BY <1>8, <3>2 DEF CommitInv
        <3>3. CASE f # op.f /\ PM(f) # None
            BY <1>1, <1>4, <1>8, <3>3, CommitKept DEF DiskInv
        <3> QED
            BY <3>1, <3>2, <3>3
    <2> QED
        BY <2>1, <2>2, <2>3, <2>4, <2>5
<1>17. ASSUME NEW c \in Features, PM(c)' # None, NEW f \in PM(c)'.parts
       PROVE  PartInv(c, f)'
    <2>1. CASE c = op.f
        <3>1. f \in op.parts /\ FM(f)' = None
            BY <1>3, <1>4, <1>7, <1>8, <1>17, <2>1 DEF Free, FM
        <3> QED
            BY <1>2, <1>4, <1>5, <1>7, <1>8, <1>10a, <2>1, <3>1 DEF PartInv
    <2>2. CASE c # op.f
        <3>1. PM(c)' = PM(c) /\ PM(c) # None /\ f \in PM(c).parts
            BY <1>8, <1>17, <2>2
        <3>2. f \in Features /\ PM(c).before[f] \in Contents /\ PM(c).desired[f] \in Contents
              /\ PartInv(c, f)
            BY <1>1, <3>1 DEF DiskInv, PhaseInv, PhaseManifests
        <3> QED
            BY <1>1, <1>4, <1>11, <2>2, <3>1, <3>2, PartKept DEF FM
    <2> QED
        BY <2>1, <2>2
<1>18. DiskInv'
    BY <1>13, <1>14, <1>15, <1>16, <1>17 DEF DiskInv
<1>19. UNCHANGED Durable
    BY <1>12 DEF Durable
<1>20. OpInv' /\ ReadyInv' /\ WriteInv' /\ RollbackInv' /\ RedoInv' /\ IndexInv'
    BY <1>1, <1>2, <1>4
       DEF RunInv, OpInv, Positions, ReadyInv, WriteInv, RollbackInv, RedoInv, IndexInv
<1>21. BegunInv'
    <2>1. PM(op.f)' = m /\ op' = op
        BY <1>4, <1>8
    <2>2. \A f \in op.parts : FM(f)' = None /\ Holds(f, PM(op.f).before)'
        BY <1>3, <1>4, <1>7, <2>1 DEF Free, FM, Holds, Has
    <2>3. op'.todo # {} /\ op'.todo = op'.parts
        BY <1>2, <1>3, <1>4
    <2>4. \A f \in op.parts : Writes(op.writes[f])' /\ m.desired[f] = Overlay(m.before[f], op.writes[f])
        BY <1>3, <1>4, <1>5, <1>7 DEF Writes, WritesTo
    <2> QED
        BY <1>2, <1>3, <1>4, <1>6, <1>7, <1>10, <2>1, <2>2, <2>3, <2>4 DEF BegunInv, Begun
<1> QED
    BY <1>18, <1>19, <1>20, <1>21 DEF CoreInv, RunInv

\* The phase of c is over, whatever is left of it.
LEMMA PhaseGone ==
    ASSUME DiskInv, NEW c \in Features, PM(c) # None,
           phaseManifest' = [phaseManifest EXCEPT ![c] = None],
           UNCHANGED <<files, fileManifest, head>>,
           \A f \in PM(c).parts : FM(f) = None
    PROVE  /\ PM(c)' = None /\ (\A d \in Features \ {c} : PM(d)' = PM(d))
           /\ DOMAIN phaseManifest' = Features /\ PM(c).parts \subseteq Features
           /\ \A f \in Features : FM(f)' = FM(f)
           /\ \A d \in Features \ {c} : PhaseCommitted(d)' <=> PhaseCommitted(d)
           /\ \A f \in PM(c).parts : /\ Coordinators(f) = {c} /\ Free(f)'
                                     /\ View(f)' = Shown(files[f])
           /\ \A f \in Features \ PM(c).parts :
                 Coordinators(f)' = Coordinators(f) /\ View(f)' = View(f)
<1>1. Types
    BY DEF DiskInv
<1>2. PM(c)' = None /\ (\A d \in Features \ {c} : PM(d)' = PM(d)) /\ DOMAIN phaseManifest' = Features
    BY <1>1 DEF PM, Types
<1>3. \A f \in Features : FM(f)' = FM(f)
    BY DEF FM
<1>4. \A d \in Features \ {c} : PhaseCommitted(d)' <=> PhaseCommitted(d)
    BY <1>2 DEF PhaseCommitted, PM
<1>5. PM(c).parts \subseteq Features
    BY DEF DiskInv, PhaseInv
<1>6. \A f \in Features : Coordinators(f)' = Coordinators(f) \ {c}
    <2>1. \A d \in Features : phaseManifest'[d] = IF d = c THEN None ELSE phaseManifest[d]
        BY <1>2 DEF PM
    <2>2. \A d, f \in Features : d \in Coordinators(f)' <=> d # c /\ d \in Coordinators(f)
        BY <2>1 DEF Coordinators
    <2>3. \A f \in Features : Coordinators(f) \subseteq Features /\ Coordinators(f)' \subseteq Features
        BY DEF Coordinators
    <2> QED
        BY <2>2, <2>3
<1>7. \A f \in PM(c).parts : Coordinators(f) = {c} /\ Free(f)'
    BY <1>3, <1>5, <1>6, OneCoordinator DEF DiskInv, Free
<1>8. ASSUME NEW f \in PM(c).parts
      PROVE  View(f)' = Shown(files[f])
    <2>1. View(f)' = Shown(Rolled(f)')
        BY <1>5, <1>6, <1>7, ViewNext DEF FreeView, Shown
    <2>2. Rolled(f)' = files[f]
        BY <1>3, <1>8 DEF Rolled, FM
    <2> QED
        BY <2>1, <2>2
<1>9. ASSUME NEW f \in Features \ PM(c).parts
      PROVE  Coordinators(f)' = Coordinators(f) /\ View(f)' = View(f)
    <2>1. Coordinators(f)' = Coordinators(f) /\ \A d \in Coordinators(f) : d \in Features \ {c}
        BY <1>6 DEF Coordinators, PM
    <2> QED
        BY <1>2, <1>3, <1>4, <2>1, SameView
<1> QED
    BY <1>2, <1>3, <1>4, <1>5, <1>7, <1>8, <1>9

LEMMA ClosePhase ==
    ASSUME DiskInv, NEW c \in Features, PM(c) # None,
           phaseManifest' = [phaseManifest EXCEPT ![c] = None],
           UNCHANGED <<dir, files, fileManifest, head, docs, touched, faults>>,
           torn \subseteq torn', torn' \subseteq Features, ahead' \subseteq Features,
           staged' \subseteq staged, staged' \cap PM(c).index \subseteq torn',
           \A f \in PM(c).parts :
              /\ FM(f) = None /\ GitInv(f)'
              /\ files[f] = Missing \/ files[f].state # None \/ f \in torn',
           \A f \in Features \ PM(c).parts :
              (f \in torn' <=> f \in torn) /\ (f \in ahead' <=> f \in ahead)
    PROVE  DiskInv'
<1>1. Types
    BY DEF DiskInv
<1>2. /\ PM(c)' = None /\ (\A d \in Features \ {c} : PM(d)' = PM(d))
      /\ DOMAIN phaseManifest' = Features /\ PM(c).parts \subseteq Features
      /\ \A f \in Features : FM(f)' = FM(f)
      /\ \A d \in Features \ {c} : PhaseCommitted(d)' <=> PhaseCommitted(d)
      /\ \A f \in PM(c).parts : Free(f)'
      /\ \A f \in Features \ PM(c).parts : Coordinators(f)' = Coordinators(f) /\ View(f)' = View(f)
    BY PhaseGone
<1>3. Types'
    BY <1>1, <1>2 DEF Types
<1>4. Disjoint'
    BY <1>2 DEF DiskInv, Disjoint
<1>5. StagedInv'
    <2>1. \A f \in staged' \ torn' : \E d \in Features \ {c} : PM(d) # None /\ f \in PM(d).index
        BY DEF DiskInv, StagedInv
    <2> QED
        BY <1>2, <2>1 DEF StagedInv
<1>6. ASSUME NEW f \in Features
      PROVE  FileInv(f)' /\ PhaseInv(f)' /\ CommitInv(f)' /\ GitInv(f)' /\ FreeInv(f)'
    <2>1. FileInv(f)'
        <3>1. CASE f \in PM(c).parts
            BY <1>2, <3>1 DEF FileInv
        <3>2. CASE f \notin PM(c).parts
            BY <1>2, <3>2 DEF DiskInv, FileInv
        <3> QED
            BY <3>1, <3>2
    <2>2. PhaseInv(f)'
        BY <1>2 DEF DiskInv, PhaseInv
    <2>3. CommitInv(f)'
        <3>1. CASE f = c \/ PM(f) = None
            BY <1>2, <3>1 DEF CommitInv
        <3>2. CASE f # c /\ PM(f) # None
            BY <1>2, <3>2, CommitKept DEF DiskInv
        <3> QED
            BY <3>1, <3>2
    <2>4. GitInv(f)'
        <3>1. CASE f \in PM(c).parts
            BY <3>1
        <3>2. CASE f \notin PM(c).parts
            BY <1>2, <3>2 DEF DiskInv, GitInv
        <3> QED
            BY <3>1, <3>2
    <2>5. FreeInv(f)'
        <3>1. CASE f \in PM(c).parts
            BY <3>1 DEF FreeInv
        <3>2. CASE f \notin PM(c).parts
            BY <1>2, <3>2 DEF DiskInv, FreeInv, Free
        <3> QED
            BY <3>1, <3>2
    <2> QED
        BY <2>1, <2>2, <2>3, <2>4, <2>5
<1>7. ASSUME NEW d \in Features, PM(d)' # None, NEW f \in PM(d)'.parts
      PROVE  PartInv(d, f)'
    <2>1. d # c /\ PM(d)' = PM(d) /\ PM(d) # None /\ f \in PM(d).parts
        BY <1>2, <1>7
    <2>2. f \in Features /\ PM(d).before[f] \in Contents /\ PM(d).desired[f] \in Contents
          /\ PartInv(d, f)
        BY <2>1 DEF DiskInv, PhaseInv, PhaseManifests
    <2> QED
        BY <1>1, <1>2, <2>1, <2>2, PartKept DEF Types
<1> QED
    BY <1>3, <1>4, <1>5, <1>6, <1>7 DEF DiskInv

\* The commit is in HEAD: a load finds the files.
LEMMA CommittedShown ==
    ASSUME DiskInv, NEW c \in Features, PM(c) # None, PhaseCommitted(c), NEW f \in PM(c).parts
    PROVE  /\ FM(f) = None /\ View(f) = Shown(files[f]) /\ files[f].state # None
           /\ PM(c).index \subseteq PM(c).parts
<1>1. f \in Features /\ PartInv(c, f) /\ PhaseInv(c) /\ PM(c).index \subseteq PM(c).parts
    BY DEF DiskInv, PhaseInv, PhaseManifests
<1>2. FM(f) = None /\ files[f].state = PM(c).desired[f].state
    BY <1>1 DEF PartInv
<1>3. Coordinators(f) = {c}
    BY <1>1, OneCoordinator DEF DiskInv
<1>4. View(f) = Shown(Rolled(f)) /\ Rolled(f) = files[f]
    BY <1>1, <1>2, <1>3, ViewPart DEF PartView, Rolled, FM, Shown
<1>5. Whole(PM(c).desired[f])
    BY <1>1, MovesWhole DEF PhaseInv
<1> QED
    BY <1>1, <1>2, <1>4, <1>5 DEF Whole

\* A load that took the phase of c back before and finds its files from now on
\* sees them move as the phase wanted.
LEMMA PhaseTakesEffect ==
    ASSUME DiskInv, NEW c \in Features, PM(c) # None, ~PhaseCommitted(c),
           \A f \in PM(c).parts :
              /\ files[f].log = PM(c).desired[f].log /\ files[f].state = PM(c).desired[f].state
              /\ View(f)' = Shown(files[f]),
           \A f \in Features \ PM(c).parts : View(f)' = View(f)
    PROVE  [H!Operation]_Durable
<1> DEFINE b(f) == PM(c).before[f]
           parts == PM(c).parts
<1>1. /\ c \in parts /\ parts \subseteq Features
      /\ \A f \in parts : b(f) \in Contents /\ PM(c).desired[f] \in Contents
      /\ Moves(c, parts, PM(c).before, PM(c).desired)
    BY DEF DiskInv, PhaseInv, PhaseManifests
<1>2. \A f \in parts : /\ files[f] \in Contents /\ Coordinators(f) = {c}
                       /\ View(f) = Shown(RolledBack(f, c))
    BY <1>1, OneCoordinator, ViewPart DEF DiskInv, Types, PartView, Shown
<1>3. \A f \in parts : Whole(files[f])
    BY <1>1, MovesWhole DEF Whole
<1>4. \A f \in parts : /\ RolledBack(f, c).log = b(f).log /\ RolledBack(f, c).state = b(f).state
                       /\ RolledBack(f, c) \in Contents
    BY <1>1, <1>2 DEF RolledBack, PM, Contents
<1>5. \A f \in parts : Whole(b(f)) => /\ View(f) # None /\ View(f).log = b(f).log
                                      /\ View(f).state = b(f).state
    BY <1>2, <1>4, NoneIsNoFile DEF Shown, Whole
<1>6. \A f \in parts : View(f)' = files[f] /\ files[f] # None /\ H!Anchored(files[f])
    BY <1>2, <1>3, NoneIsNoFile DEF H!Anchored, Whole, Shown
<1> HIDE DEF parts
<1>7. CASE parts = {c} /\ Advance(b(c), PM(c).desired[c])
    <2>1. H!Append(c)
        BY <1>1, <1>3, <1>5, <1>6, <1>7 DEF H!Append, H!Anchored, Advance, Whole, parts
    <2> QED
        BY <2>1 DEF H!Operation
<1>8. ASSUME NEW g \in Features \ {c}, parts = {c, g}, b(g) = Missing,
             Supersession(c, g, b(c), PM(c).desired[c], PM(c).desired[g])
      PROVE  [H!Operation]_Durable
    <2>1. View(g) = None
        BY <1>2, <1>4, <1>8, MissingContents DEF Shown
    <2>2. /\ View(c) # None /\ View(c).state = b(c).state /\ View(c).log = b(c).log
          /\ b(c).state.st = "committed" /\ H!Anchored(View(c))
        BY <1>1, <1>5, <1>8 DEF Supersession, H!Anchored, Whole
    <2>3. /\ files[c].log.len > b(c).log.len
          /\ files[c].state = [b(c).state EXCEPT !.flow = "superseded", !.by = g]
          /\ files[g].state.from = c /\ files[g].state.st = "published"
        BY <1>1, <1>8 DEF Supersession, parts
    <2> HIDE DEF b
    <2>4. H!Supersede(c, g)
        <3>1. /\ View(c)' = files[c] /\ View(g)' = files[g] /\ c \in Features /\ g \in Features
              /\ files[c] # None /\ files[g] # None
              /\ H!Anchored(files[c]) /\ H!Anchored(files[g])
            BY <1>6, <1>8
        <3>2. \A h \in Features \ {c, g} : View(h)' = View(h)
            BY <1>8 DEF parts
        <3> QED
            BY <2>1, <2>2, <2>3, <3>1, <3>2 DEF H!Supersede
    <2> QED
        BY <2>4, <1>8 DEF H!Operation
<1> QED
    BY <1>1, <1>7, <1>8 DEF Moves, parts

(***************************************************************************)
(* What HEAD holds.                                                        *)
(***************************************************************************)
Grows(f) ==
    View(f) # None /\ View(f).log # None =>
        View(f)' # None /\ View(f)'.log # None /\ View(f)'.log.len >= View(f).log.len

LEMMA HeadKept ==
    ASSUME NEW f \in Features, GitInv(f), GitInv(f)', head[f] \in Contents, HeadInv(f),
           head'[f] = head[f], faults \in Nat, faults' \in Nat, faults <= faults', Grows(f),
           pc = "finish" /\ f \in op.parts => faults < faults' \/ (pc' = pc /\ op' = op)
    PROVE  HeadInv(f)'
<1> SUFFICES ASSUME head[f] # Missing
             PROVE  HeadInv(f)'
    BY DEF HeadInv
<1>1. head[f].log.at \in Nat /\ head[f].log.at <= faults /\ head[f].log.len \in Nat
    BY ContentsPaths DEF HeadInv, GitInv, Whole, Logs
<1>2. CASE View(f) # None /\ View(f).log # None /\ head[f].log.len <= View(f).log.len
    <2>1. View(f)' # None /\ View(f)'.log # None /\ View(f)'.log.len >= View(f).log.len
        BY <1>2 DEF Grows
    <2>2. View(f).log.len \in Nat /\ View(f)'.log.len \in Nat
        <3>1. View(f) \in Contents /\ View(f)' \in Contents
            BY <1>2, <2>1 DEF GitInv
        <3> HIDE DEF View
        <3> QED
            BY <1>2, <2>1, <3>1 DEF Contents, Logs
    <2> QED
        BY <1>1, <1>2, <2>1, <2>2 DEF HeadInv
<1>3. CASE head[f].log.at < faults
    BY <1>1, <1>3 DEF HeadInv
<1>4. CASE pc = "finish" /\ f \in op.parts
    BY <1>1, <1>4 DEF HeadInv
<1> QED
    BY <1>2, <1>3, <1>4 DEF HeadInv

\* A step of FeatureHistory, or none, takes no entry of a journal away.
LEMMA OperationGrows ==
    ASSUME CoreInv, CoreInv', [H!Operation]_Durable, NEW f \in Features
    PROVE  Grows(f)
<1>1. SUFFICES ASSUME View(f) # None, View(f).log # None
               PROVE  View(f)' # None /\ View(f)'.log # None /\ View(f)'.log.len >= View(f).log.len
    BY DEF Grows
<1>2. View(f) \in Contents /\ View(f).log.len \in Nat
    <2>1. View(f) \in Contents
        BY <1>1 DEF CoreInv, DiskInv, GitInv
    <2> QED
        BY <1>1, <2>1, ContentsPaths DEF Logs
<1>3. CASE View(f)' = View(f)
    BY <1>1, <1>2, <1>3
<1>4. CASE UNCHANGED Durable
    BY <1>3, <1>4 DEF Durable
<1>5. CASE H!Append(f)
    <2>1. View(f)' # None /\ View(f)'.log # None /\ View(f)'.log.len > View(f).log.len
        BY <1>5 DEF H!Append, H!Anchored
    <2>2. View(f)'.log.len \in Nat
        <3>1. View(f)' \in Contents
            BY <2>1 DEF CoreInv, DiskInv, GitInv
        <3> HIDE DEF View
        <3> QED
            BY <2>1, <3>1 DEF Contents, Logs
    <2> QED
        BY <1>2, <2>1, <2>2
<1>6. CASE H!Edit(f)
    <2>1. View(f)' # None /\ View(f)' = [View(f) EXCEPT !.doc = View(f)'.doc]
        BY <1>6 DEF H!Edit
    <2>2. View(f)'.log = View(f).log
        BY <1>2, <2>1 DEF Contents
    <2> QED
        BY <1>1, <1>2, <2>1, <2>2
<1>7. ASSUME NEW g \in Features \ {f}, H!Supersede(f, g)
      PROVE  View(f)' # None /\ View(f)'.log # None /\ View(f)'.log.len >= View(f).log.len
    <2>1. View(f)' # None /\ View(f)'.log # None /\ View(f)'.log.len > View(f).log.len
        BY <1>7 DEF H!Supersede, H!Anchored
    <2>2. View(f)'.log.len \in Nat
        <3>1. View(f)' \in Contents
            BY <2>1 DEF CoreInv, DiskInv, GitInv
        <3> HIDE DEF View
        <3> QED
            BY <2>1, <3>1 DEF Contents, Logs
    <2> QED
        BY <1>2, <2>1, <2>2
<1>8. ASSUME H!Operation, ~(H!Append(f) \/ H!Edit(f) \/ \E g \in Features \ {f} : H!Supersede(f, g))
      PROVE  View(f)' = View(f)
    <2>1. CASE \E g \in Features : H!Create(g)
        BY <1>1, <2>1 DEF H!Create
    <2>2. CASE \E g \in Features \ {f} : H!Append(g) \/ H!Edit(g)
        BY <2>2 DEF H!Append, H!Edit
    <2>3. CASE \E g, h \in Features : g # h /\ g # f /\ H!Supersede(g, h)
        BY <1>1, <2>3 DEF H!Supersede
    <2> QED
        BY <1>8, <2>1, <2>2, <2>3 DEF H!Operation
<1> QED
    BY <1>3, <1>4, <1>5, <1>6, <1>7, <1>8

LEMMA FinishPhaseKeeps ==
    ASSUME RepoInv, FinishPhase
    PROVE  RepoInv' /\ [H!Operation]_Durable
<1>1. DiskInv /\ RunInv /\ pc = "finish" /\ HeadsInv /\ Types
    BY DEF RepoInv, CoreInv, FinishPhase, DiskInv
<1>2. PICK c \in Features : c = op.f
    BY <1>1 DEF RunInv, OpInv
<1>3. /\ PM(c) # None /\ PM(c).parts = op.parts /\ CommitReached(c) /\ op.parts \subseteq Features
      /\ op.parts \cap staged \subseteq torn
      /\ \A f \in op.parts : FM(f) = None /\ Holds(f, PM(c).desired)
    BY <1>1, <1>2 DEF RunInv, OpInv, BegunInv, Begun, IndexInv
<1>4. /\ phaseManifest' = [phaseManifest EXCEPT ![c] = None] /\ ahead' = ahead \ op.parts
      /\ UNCHANGED <<dir, files, fileManifest, head, staged, docs, touched, faults, torn>>
      /\ pc' = "idle" /\ op' = NoOp
    BY <1>2 DEF FinishPhase
<1>5. /\ PM(c).index \subseteq op.parts
      /\ \A f \in op.parts : PM(c).before[f] \in Contents /\ PM(c).desired[f] \in Contents
      /\ Moves(c, op.parts, PM(c).before, PM(c).desired)
    BY <1>1, <1>3 DEF DiskInv, PhaseInv, PhaseManifests
<1>6. ASSUME NEW f \in op.parts
      PROVE  /\ files[f].log = PM(c).desired[f].log /\ files[f].state = PM(c).desired[f].state
             /\ head[f].log = files[f].log /\ head[f].state = files[f].state
             /\ files[f] \in Contents /\ Whole(files[f]) /\ f \in Features
    <2>1. Whole(PM(c).desired[f])
        BY <1>5, MovesWhole
    <2>2. files[f].log = PM(c).desired[f].log /\ files[f].state = PM(c).desired[f].state
        BY <1>3 DEF Holds, Has, FilePaths
    <2>3. head[f].log = PM(c).desired[f].log /\ head[f].state = PM(c).desired[f].state
        BY <1>3 DEF CommitReached, PM
    <2>4. f \in Features /\ files[f] \in Contents
        BY <1>1, <1>3 DEF Types
    <2> QED
        BY <2>1, <2>2, <2>3, <2>4 DEF Whole
<1>7. /\ \A f \in op.parts : View(f)' = Shown(files[f])
      /\ \A f \in Features \ op.parts : View(f)' = View(f)
    BY <1>1, <1>3, <1>4, PhaseGone
<1>8. ASSUME NEW f \in op.parts
      PROVE  View(f)' = files[f] /\ files[f] # None /\ GitInv(f)'
    <2>1. View(f)' = files[f] /\ files[f] # None
        BY <1>6, <1>7, NoneIsNoFile DEF Shown, Whole
    <2>2. head'[f] = head[f] /\ Whole(head[f]) /\ head[f] # Missing
        BY <1>4, <1>6, MissingContents DEF Whole
    <2> QED
        BY <1>6, <2>1, <2>2 DEF GitInv
<1>9. DiskInv'
    <2>1. torn' \subseteq Features /\ ahead' \subseteq Features
        BY <1>1, <1>4 DEF Types
    <2>2. \A f \in op.parts : files[f].state # None
        BY <1>6 DEF Whole
    <2> QED
        BY <1>1, <1>3, <1>4, <1>5, <1>8, <2>1, <2>2, ClosePhase
<1>10. CoreInv'
    BY <1>4, <1>9, EndedKeeps
<1>11. [H!Operation]_Durable
    <2>1. CASE PhaseCommitted(c)
        <3>1. \A f \in op.parts : View(f) = Shown(files[f])
            BY <1>1, <1>3, <2>1, CommittedShown
        <3> QED
            BY <1>7, <3>1 DEF Durable
    <2>2. CASE ~PhaseCommitted(c)
        BY <1>1, <1>3, <1>6, <1>7, <2>2, PhaseTakesEffect
    <2> QED
        BY <2>1, <2>2
<1>12. ASSUME NEW f \in Features
       PROVE  HeadInv(f)'
    <2>1. HeadInv(f) /\ GitInv(f) /\ GitInv(f)' /\ head[f] \in Contents /\ faults \in Nat
          /\ head'[f] = head[f] /\ faults' = faults
        BY <1>1, <1>4, <1>10 DEF HeadsInv, DiskInv, CoreInv, Types
    <2>2. CASE f \in op.parts
        <3>1. View(f)' # None /\ View(f)'.log = head[f].log /\ View(f)'.log # None
            BY <1>6, <1>8, <2>2 DEF Whole
        <3>2. head[f].log.len \in Nat
            BY <1>6, <2>1, <2>2, ContentsPaths DEF Whole, Logs
        <3> QED
            BY <2>1, <3>1, <3>2 DEF HeadInv
    <2>3. CASE f \notin op.parts
        <3>1. Grows(f)
            BY <1>1, <1>10, <1>11, OperationGrows DEF CoreInv
        <3> QED
            BY <2>1, <2>3, <3>1, HeadKept
    <2> QED
        BY <2>2, <2>3
<1> QED
    BY <1>10, <1>11, <1>12 DEF RepoInv, HeadsInv

LEMMA AdoptCommitKeeps ==
    ASSUME CoreInv, NEW c \in Features, AdoptCommit(c)
    PROVE  CoreInv' /\ UNCHANGED Durable
<1>1. DiskInv /\ RunInv /\ PM(c) # None /\ pc = "idle" /\ Types
    BY DEF CoreInv, AdoptCommit, PhaseReady, PM, DiskInv
<1>2. PhaseCommitted(c)
    BY DEF AdoptCommit
<1>3. /\ phaseManifest' = [phaseManifest EXCEPT ![c] = None] /\ staged' = staged \ PM(c).index
      /\ UNCHANGED <<dir, files, fileManifest, head, docs, touched, faults, torn, ahead>>
      /\ pc' = "idle" /\ op' = NoOp
    BY <1>1 DEF AdoptCommit, Bookkeeping, History, PM, RunInv, OpInv
<1>4. \A f \in PM(c).parts : FM(f) = None /\ View(f) = Shown(files[f]) /\ files[f].state # None
    BY <1>1, <1>2, CommittedShown
<1>5. /\ \A f \in PM(c).parts : View(f)' = Shown(files[f]) /\ f \in Features
      /\ \A f \in Features \ PM(c).parts : View(f)' = View(f)
    BY <1>1, <1>3, <1>4, PhaseGone
<1>6. \A f \in Features : View(f)' = View(f)
    BY <1>4, <1>5
<1>7. \A f \in PM(c).parts : GitInv(f)'
    BY <1>1, <1>3, <1>5, <1>6 DEF DiskInv, GitInv
<1>8. DiskInv'
    <2>1. torn' \subseteq Features /\ ahead' \subseteq Features
        BY <1>1, <1>3 DEF Types
    <2> QED
        BY <1>1, <1>3, <1>4, <1>7, <2>1, ClosePhase
<1>9. UNCHANGED Durable
    BY <1>6 DEF Durable
<1> QED
    BY <1>3, <1>8, <1>9, EndedKeeps

\* A rollback whose steps all went through is the phase not begun, but for a
\* document the user saved; one that failed leaves what it reached.
LEMMA RemovePhaseManifestKeeps ==
    ASSUME RepoInv, RemovePhaseManifest
    PROVE  /\ RepoInv'
           /\ (torn' = torn /\ [H!Operation]_Durable) \/ (torn' = torn \cup op.parts /\ H!Tear(op.parts))
<1>1. DiskInv /\ RunInv /\ pc = "restore" /\ Names(op.left) = {} /\ HeadsInv /\ Types
    BY NamesOfNone DEF RepoInv, CoreInv, RemovePhaseManifest, DiskInv
<1>2. PICK c \in Features : c = op.f
    BY <1>1 DEF RunInv, OpInv
<1>3. /\ c \in op.parts /\ op.parts \subseteq Features
      /\ PM(c) # None /\ PM(c).parts = op.parts /\ ~PhaseCommitted(c)
      /\ op.phase \in BOOLEAN /\ op.failed \in BOOLEAN
      /\ \A f \in op.parts : FM(f) = None
      /\ op.failed \/ op.parts \cap staged \subseteq torn
      /\ op.failed \/ \A f \in op.parts, p \in FilePaths : Restored(f, p)
      /\ op.failed => \A f \in op.parts : head[f] = Missing \/ head[f].log.at < faults
    BY <1>1, <1>2 DEF RunInv, OpInv, RollbackInv, IndexInv
<1>4. /\ phaseManifest' = [phaseManifest EXCEPT ![c] = None]
      /\ torn' = IF op.failed THEN torn \cup op.parts ELSE torn
      /\ UNCHANGED <<dir, files, fileManifest, head, staged, docs, touched, faults, ahead>>
      /\ pc' = "rmdir" /\ op' = op
    BY <1>2 DEF RemovePhaseManifest
<1>5. /\ c \in dir /\ PM(c).index \subseteq op.parts
      /\ \A f \in op.parts : PM(c).before[f] \in Contents /\ PM(c).desired[f] \in Contents
      /\ Moves(c, op.parts, PM(c).before, PM(c).desired)
    BY <1>1, <1>3 DEF DiskInv, PhaseInv, PhaseManifests
<1>6. /\ \A f \in op.parts : View(f)' = Shown(files[f]) /\ Free(f)' /\ Coordinators(f) = {c}
      /\ \A f \in Features \ op.parts : View(f)' = View(f)
    BY <1>1, <1>3, <1>4, PhaseGone
<1>7. \A f \in op.parts : files[f] \in Contents
    BY <1>1, <1>3 DEF Types
<1>8. ASSUME NEW f \in op.parts, ~op.failed
      PROVE  /\ files[f].state # None \/ files[f] = Missing
             /\ DocChanged(View(f), View(f)') /\ (f # c => View(f)' = View(f))
    <2> DEFINE b == PM(c).before[f]
    <2>1. files[f].log = b.log /\ files[f].state = b.state /\ (b.doc = 0 => files[f].doc = 0)
        BY <1>2, <1>3, <1>8 DEF Restored, Has, FilePaths
    <2>2. View(f) = Shown(RolledBack(f, c))
        BY <1>3, <1>6, ViewPart DEF PartView, Shown
    <2>3. /\ RolledBack(f, c) \in Contents
          /\ RolledBack(f, c).log = b.log /\ RolledBack(f, c).state = b.state
        BY <1>5, <1>7 DEF RolledBack, PM, Contents
    <2>4. b \in Contents /\ (Whole(b) \/ b = Missing) /\ (f = c => Whole(b))
        BY <1>5, MovesWhole
    <2>5. f # c => b = Missing
        BY <1>5 DEF Moves
    <2> HIDE DEF b
    <2>6. CASE b = Missing
        <3>1. files[f] = Missing /\ files[f].state = None
            BY <1>7, <2>1, <2>6, MissingContents, SameContents DEF FilePaths
        <3>2. View(f)' = None /\ View(f) = None
            BY <1>6, <2>1, <2>2, <2>3, <3>1 DEF Shown
        <3> QED
            BY <3>1, <3>2 DEF DocChanged
    <2>7. CASE Whole(b) /\ f = c
        <3>1. View(f)' = files[f] /\ View(f) = RolledBack(f, c) /\ files[f].state # None
            BY <1>6, <2>1, <2>2, <2>3, <2>7 DEF Shown, Whole
        <3>2. files[f].doc \in Nat /\ files[f] = [RolledBack(f, c) EXCEPT !.doc = files[f].doc]
            BY <1>7, <2>1, <2>3 DEF Contents
        <3>3. View(f) # None
            BY <2>3, <3>1, NoneIsNoFile
        <3> QED
            BY <2>7, <3>1, <3>2, <3>3 DEF DocChanged
    <2> QED
        BY <2>4, <2>5, <2>6, <2>7
<1>9. ASSUME NEW f \in op.parts
      PROVE  GitInv(f)'
    <2>1. GitInv(f) /\ f \in Features /\ head' = head
        BY <1>1, <1>3, <1>4 DEF DiskInv
    <2>2. CASE ~op.failed
        BY <1>4, <1>8, <2>1, <2>2, GitKept
    <2>3. CASE op.failed
        <3>1. f \in torn' /\ (View(f)' # None => View(f)' \in Contents)
            BY <1>4, <1>6, <1>7, <2>3 DEF Shown
        <3> QED
            BY <2>1, <3>1 DEF GitInv
    <2> QED
        BY <1>3, <2>2, <2>3
<1>10. DiskInv'
    <2>1. torn \subseteq torn' /\ torn' \subseteq Features /\ ahead' \subseteq Features
        BY <1>1, <1>3, <1>4 DEF Types
    <2>2. staged' \cap PM(c).index \subseteq torn'
        BY <1>3, <1>4, <1>5
    <2>3. \A f \in op.parts : files[f] = Missing \/ files[f].state # None \/ f \in torn'
        BY <1>3, <1>4, <1>8
    <2>4. \A f \in Features \ op.parts : (f \in torn' <=> f \in torn) /\ (f \in ahead' <=> f \in ahead)
        BY <1>4
    <2> QED
        BY <1>1, <1>3, <1>4, <1>9, <2>1, <2>2, <2>3, <2>4, ClosePhase
<1>11. CoreInv'
    <2>1. OpInv' /\ ReadyInv' /\ WriteInv' /\ BegunInv' /\ RedoInv'
        BY <1>1, <1>2, <1>3, <1>4
           DEF RunInv, OpInv, Positions, ReadyInv, WriteInv, BegunInv, Begun, RedoInv
    <2>2. RollbackInv'
        BY <1>2, <1>4, <1>5, <1>6 DEF RollbackInv
    <2>3. op.parts \cap staged \subseteq torn'
        BY <1>3, <1>4
    <2>4. IndexInv'
        BY <1>4, <2>3 DEF IndexInv
    <2> QED
        BY <1>10, <2>1, <2>2, <2>4 DEF CoreInv, RunInv
<1>12. CASE ~op.failed
    <2>1. torn' = torn
        BY <1>4, <1>12
    <2>2. [H!Operation]_Durable
        <3>1. \A f \in Features \ {c} : View(f)' = View(f)
            BY <1>6, <1>8, <1>12
        <3>2. GitInv(c) /\ DocChanged(View(c), View(c)')
            BY <1>1, <1>3, <1>8, <1>12 DEF DiskInv
        <3> QED
            BY <3>1, <3>2, EditMaps
    <2>3. ASSUME NEW f \in Features
          PROVE  HeadInv(f)'
        <3>1. HeadInv(f) /\ GitInv(f) /\ GitInv(f)' /\ head[f] \in Contents /\ faults \in Nat
              /\ head'[f] = head[f] /\ faults' = faults
            BY <1>1, <1>4, <1>11 DEF HeadsInv, DiskInv, CoreInv, Types
        <3>2. Grows(f)
            BY <1>1, <1>11, <2>2, OperationGrows DEF CoreInv
        <3> QED
            BY <1>1, <3>1, <3>2, HeadKept
    <2> QED
        BY <1>11, <2>1, <2>2, <2>3 DEF RepoInv, HeadsInv
<1>13. CASE op.failed
    <2>1. torn' = torn \cup op.parts /\ H!Tear(op.parts)
        BY <1>4, <1>6, <1>13 DEF H!Tear
    <2>2. ASSUME NEW f \in Features
          PROVE  HeadInv(f)'
        <3>1. HeadInv(f) /\ GitInv(f) /\ GitInv(f)' /\ head[f] \in Contents /\ faults \in Nat
              /\ head'[f] = head[f] /\ faults' = faults
            BY <1>1, <1>4, <1>11 DEF HeadsInv, DiskInv, CoreInv, Types
        <3>2. CASE f \in op.parts
            BY <1>3, <1>13, <3>1, <3>2 DEF HeadInv
        <3>3. CASE f \notin op.parts
            <4>1. View(f)' = View(f)
                BY <1>6, <3>3
            <4>2. Grows(f)
                <5>1. ASSUME View(f) # None, View(f).log # None
                      PROVE  View(f).log.len \in Nat
                    <6>1. View(f) \in Contents
                        BY <3>1, <5>1 DEF GitInv
                    <6> QED
                        BY <5>1, <6>1, ContentsPaths DEF Logs
                <5> QED
                    BY <4>1, <5>1 DEF Grows
            <4> QED
                BY <1>1, <3>1, <4>2, HeadKept
        <3> QED
            BY <3>2, <3>3
    <2> QED
        BY <1>11, <2>1, <2>2 DEF RepoInv, HeadsInv
<1> QED
    BY <1>3, <1>12, <1>13

LEMMA CommitKeeps ==
    ASSUME RepoInv, Commit
    PROVE  RepoInv' /\ [H!Operation]_Durable
<1>1. DiskInv /\ RunInv /\ pc = "commit" /\ Types /\ HeadsInv
    BY DEF RepoInv, CoreInv, Commit, DiskInv
<1>2. PICK c \in Features : c = op.f
    BY <1>1 DEF RunInv, OpInv
<1>3. /\ c \in op.parts /\ op.parts \subseteq Features /\ op.phase /\ DOMAIN op = DOMAIN NoOp
      /\ PM(c) # None /\ PM(c).parts = op.parts /\ BegunInv
      /\ head[c].log # PM(c).desired[c].log
      /\ \A f \in op.parts : FM(f) = None /\ Holds(f, PM(c).desired)
    BY <1>1, <1>2 DEF RunInv, OpInv, BegunInv, Begun
<1> DEFINE reached == \A f \in op.parts : files[f] = PM(c).desired[f]
<1>4. /\ head' = [f \in Features |-> IF f \in op.parts THEN files[f] ELSE head[f]]
      /\ staged' = staged \ op.parts /\ pc' = "finish"
      /\ ahead' = IF reached THEN ahead \ op.parts ELSE ahead \cup op.parts
      /\ UNCHANGED <<dir, files, fileManifest, phaseManifest, op, docs, touched, faults, torn>>
    BY <1>2 DEF Commit, PM
<1> HIDE DEF reached
<1>5. /\ PM(c).index \subseteq op.parts
      /\ \A f \in op.parts : PM(c).before[f] \in Contents /\ PM(c).desired[f] \in Contents
      /\ Moves(c, op.parts, PM(c).before, PM(c).desired)
    BY <1>1, <1>3 DEF DiskInv, PhaseInv, PhaseManifests
<1>6. \A f \in Features : PM(f)' = PM(f) /\ FM(f)' = FM(f) /\ Coordinators(f)' = Coordinators(f)
    BY <1>4 DEF PM, FM, Coordinators
<1>7. ASSUME NEW f \in op.parts
      PROVE  /\ files[f] \in Contents /\ f \in Features /\ Coordinators(f) = {c} /\ Whole(files[f])
             /\ files[f].log = PM(c).desired[f].log /\ files[f].state = PM(c).desired[f].state
             /\ files[f].doc = PM(c).desired[f].doc \/ f \in touched
    <2>1. Whole(PM(c).desired[f])
        BY <1>5, MovesWhole
    <2>2. f \in Features /\ files[f] \in Contents /\ Coordinators(f) = {c}
        BY <1>1, <1>3, OneCoordinator DEF DiskInv, Types
    <2>3. /\ files[f].log = PM(c).desired[f].log /\ files[f].state = PM(c).desired[f].state
          /\ files[f].doc = PM(c).desired[f].doc \/ f \in touched
        BY <1>3 DEF Holds, Has, FilePaths
    <2> QED
        BY <2>1, <2>2, <2>3 DEF Whole
<1>8. /\ ~PhaseCommitted(c) /\ (PhaseCommitted(c)' <=> reached) /\ CommitReached(c)'
      /\ (~reached => op.parts \cap touched # {})
    <2>1. ~PhaseCommitted(c)
        BY <1>3 DEF PhaseCommitted, PM
    <2>2. PhaseCommitted(c)' <=> reached
        BY <1>3, <1>4 DEF PhaseCommitted, PM, reached
    <2>3. CommitReached(c)'
        BY <1>3, <1>4, <1>7 DEF CommitReached, PM
    <2>4. ~reached => op.parts \cap touched # {}
        BY <1>5, <1>7, SameContents DEF reached, FilePaths
    <2> QED
        BY <2>1, <2>2, <2>3, <2>4
<1>9. ASSUME NEW d \in Features \ {c}, PM(d) # None
      PROVE  (PhaseCommitted(d)' <=> PhaseCommitted(d)) /\ (CommitReached(d)' <=> CommitReached(d))
    <2>1. PM(d).parts \cap op.parts = {} /\ PM(d).parts \subseteq Features
        BY <1>1, <1>3, <1>9 DEF DiskInv, Disjoint, PhaseInv
    <2>2. \A f \in PM(d).parts : head'[f] = head[f]
        BY <1>4, <2>1
    <2> QED
        BY <1>4, <2>2 DEF PhaseCommitted, CommitReached, PM
<1>10. ASSUME NEW f \in op.parts
       PROVE  /\ View(f) = Shown(RolledBack(f, c))
              /\ View(f)' = IF reached THEN files[f] ELSE View(f)
    <2>1. View(f) = Shown(RolledBack(f, c))
        BY <1>7, <1>8, ViewPart DEF PartView, Shown
    <2>2. View(f)' = Shown(IF reached THEN Rolled(f)' ELSE RolledBack(f, c)')
        BY <1>6, <1>7, <1>8, ViewNext DEF PartView, Shown
    <2>3. Rolled(f)' = files[f]
        BY <1>3, <1>4, <1>7 DEF Rolled, FM
    <2>4. RolledBack(f, c)' = RolledBack(f, c)
        BY <1>4 DEF RolledBack
    <2>5. Shown(files[f]) = files[f]
        BY <1>7 DEF Shown, Whole
    <2> QED
        BY <2>1, <2>2, <2>3, <2>4, <2>5
<1>11. ASSUME NEW f \in Features \ op.parts
       PROVE  View(f)' = View(f) /\ head'[f] = head[f]
    <2>1. \A d \in Coordinators(f) : d \in Features \ {c} /\ PM(d) # None
        BY <1>3 DEF Coordinators, PM
    <2> QED
        BY <1>4, <1>6, <1>9, <2>1, SameView DEF PM
<1>12. Types'
    <2>1. head' \in [Features -> Contents] /\ \A f \in Features : head'[f].doc <= docs
        BY <1>1, <1>4 DEF Types
    <2>2. ahead' \subseteq Features
        BY <1>1, <1>3, <1>4 DEF Types
    <2> QED
        BY <1>1, <1>4, <1>6, <2>1, <2>2 DEF Types
<1>13. Disjoint' /\ StagedInv'
    BY <1>1, <1>4, <1>6 DEF DiskInv, Disjoint, StagedInv
<1>14. ASSUME NEW f \in Features
       PROVE  FileInv(f)' /\ PhaseInv(f)' /\ CommitInv(f)' /\ GitInv(f)' /\ FreeInv(f)'
    <2>1. FileInv(f)'
        <3>1. CASE f \in op.parts
            BY <1>3, <1>6, <3>1 DEF FileInv
        <3>2. CASE f \notin op.parts
            BY <1>1, <1>4, <1>6, <1>11, <3>2 DEF DiskInv, FileInv
        <3> QED
            BY <3>1, <3>2
    <2>2. PhaseInv(f)' /\ FreeInv(f)'
        BY <1>1, <1>4, <1>6 DEF DiskInv, PhaseInv, FreeInv, Free
    <2>3. GitInv(f)'
        <3>1. GitInv(f)
            BY <1>1 DEF DiskInv
        <3>2. CASE f \in op.parts
            <4>1. head'[f] = files[f] /\ Whole(files[f]) /\ files[f] \in Contents
                  /\ files[f] # Missing /\ files[f] # None
                BY <1>4, <1>7, <3>2, MissingContents, NoneIsNoFile DEF Whole
            <4>2. CASE reached
                BY <1>10, <3>2, <4>1, <4>2 DEF GitInv
            <4>3. CASE ~reached
                <5>1. View(f)' = View(f) /\ f \in ahead' /\ torn' = torn
                    BY <1>4, <1>10, <3>2, <4>3
                <5> QED
                    BY <3>1, <4>1, <5>1 DEF GitInv
            <4> QED
                BY <4>2, <4>3
        <3>3. CASE f \notin op.parts
            <4>1. (f \in ahead' <=> f \in ahead) /\ torn' = torn
                BY <1>4, <3>3
            <4> QED
                BY <1>11, <3>1, <3>3, <4>1 DEF GitInv
        <3> QED
            BY <3>2, <3>3
    <2>4. CommitInv(f)'
        <3>1. CASE f = c
            BY <1>3, <1>4, <1>6, <1>8, <3>1 DEF CommitInv
        <3>2. CASE f # c
            BY <1>1, <1>4, <1>6, <1>9, <3>2 DEF DiskInv, CommitInv
        <3> QED
            BY <3>1, <3>2
    <2> QED
        BY <2>1, <2>2, <2>3, <2>4
<1>15. ASSUME NEW d \in Features, PM(d)' # None, NEW f \in PM(d)'.parts
       PROVE  PartInv(d, f)'
    <2>1. PM(d)' = PM(d) /\ PM(d) # None /\ f \in PM(d).parts /\ f \in Features /\ PartInv(d, f)
          /\ PM(d).before[f] \in Contents /\ PM(d).desired[f] \in Contents
        BY <1>1, <1>6, <1>15 DEF DiskInv, PhaseInv, PhaseManifests
    <2>2. CASE d = c
        <3>1. f \in op.parts /\ FM(f)' = None
            BY <1>3, <1>6, <2>1, <2>2
        <3> QED
            BY <1>4, <1>7, <2>1, <2>2, <3>1 DEF PartInv
    <2>3. CASE d # c
        <3>1. f \notin op.parts
            BY <1>1, <1>3, <2>1, <2>3 DEF DiskInv, Disjoint
        <3> QED
            BY <1>1, <1>4, <1>6, <1>9, <1>11, <2>1, <2>3, <3>1, PartKept DEF Types
    <2> QED
        BY <2>2, <2>3
<1>16. DiskInv'
    BY <1>12, <1>13, <1>14, <1>15 DEF DiskInv
<1>17. RunInv'
    <2>1. OpInv' /\ ReadyInv' /\ WriteInv' /\ RollbackInv' /\ RedoInv' /\ IndexInv'
        BY <1>1, <1>3, <1>4
           DEF RunInv, OpInv, Positions, ReadyInv, WriteInv, RollbackInv, RedoInv, IndexInv
    <2>2. \A f \in op.parts : Holds(f, PM(op.f).desired)' /\ FM(f)' = None
        BY <1>2, <1>3, <1>4, <1>6 DEF Holds, Has
    <2>3. /\ DOMAIN op.writes = op.parts /\ op.todo = {} /\ op.parts \subseteq dir
          /\ \A f \in op.parts : Writes(op.writes[f])
                              /\ PM(op.f).desired[f] = Overlay(PM(op.f).before[f], op.writes[f])
        BY <1>1, <1>3 DEF BegunInv, Begun
    <2>4. CommitReached(op.f)' /\ PM(op.f)' = PM(op.f)
        BY <1>2, <1>4, <1>6, <1>8
    <2>5. BegunInv'
        BY <1>2, <1>3, <1>4, <2>2, <2>3, <2>4 DEF BegunInv, Begun, Writes, WritesTo
    <2> QED
        BY <2>1, <2>5 DEF RunInv
<1>18. CoreInv'
    BY <1>16, <1>17 DEF CoreInv
\* What a load finds moves as the phase wanted, or not at all.
<1>19. [H!Operation]_Durable
    <2>1. CASE reached
        <3>1. \A f \in op.parts : View(f)' = Shown(files[f])
            BY <1>7, <1>10, <2>1 DEF Shown, Whole
        <3> QED
            BY <1>1, <1>3, <1>7, <1>8, <1>11, <3>1, PhaseTakesEffect
    <2>2. CASE ~reached
        BY <1>10, <1>11, <2>2 DEF Durable
    <2> QED
        BY <2>1, <2>2
<1>20. ASSUME NEW f \in Features
       PROVE  HeadInv(f)'
    <2>1. HeadInv(f) /\ GitInv(f) /\ GitInv(f)' /\ head[f] \in Contents /\ faults \in Nat
          /\ faults' = faults
        BY <1>1, <1>4, <1>18 DEF HeadsInv, DiskInv, CoreInv, Types
    <2>2. CASE f \in op.parts
        <3>1. /\ Writes(op.writes[f]) /\ op.writes[f]["log"] \in Logs
              /\ PM(c).desired[f] = Overlay(PM(c).before[f], op.writes[f])
            BY <1>1, <1>2, <1>3, <2>2 DEF BegunInv, Begun, Writes, WritesTo
        <3>2. files[f].log = op.writes[f]["log"]
            BY <1>5, <1>7, <2>2, <3>1 DEF Overlay, Contents, Writes, WritesTo
        <3>3. files[f].log.at = faults
            BY <3>1, <3>2 DEF Writes, WritesTo
        <3> QED
            BY <1>4, <1>7, <2>1, <2>2, <3>3 DEF HeadInv
    <2>3. CASE f \notin op.parts
        <3>1. Grows(f)
            BY <1>1, <1>18, <1>19, OperationGrows DEF CoreInv
        <3> QED
            BY <1>1, <1>11, <2>1, <2>3, <3>1, HeadKept
    <2> QED
        BY <2>2, <2>3
<1> QED
    BY <1>18, <1>19, <1>20 DEF RepoInv, HeadsInv

(***************************************************************************)
(* The invariant holds at every step, and what a load finds moves by the   *)
(* steps of FeatureHistory only.                                           *)
(***************************************************************************)
\* A step that neither commits nor gives a rollback up.
Quiet ==
    /\ torn' = torn /\ head' = head
    /\ faults' = faults \/ faults' = faults + 1
    /\ pc # "finish" \/ faults' = faults + 1 \/ (pc' = pc /\ op' = op)

LEMMA QuietKeeps ==
    ASSUME RepoInv, CoreInv', [H!Operation]_Durable, Quiet
    PROVE  HeadsInv'
<1> SUFFICES ASSUME NEW f \in Features
             PROVE  HeadInv(f)'
    BY DEF HeadsInv
<1>1. HeadInv(f) /\ GitInv(f) /\ GitInv(f)' /\ head[f] \in Contents /\ faults \in Nat /\ faults' \in Nat
    BY DEF RepoInv, HeadsInv, DiskInv, CoreInv, Types
<1>2. Grows(f)
    BY OperationGrows DEF RepoInv
<1> QED
    BY <1>1, <1>2, HeadKept DEF Quiet

StepsKeep == RepoInv' /\ [H!Next]_<<Durable, torn>>

LEMMA QuietSteps ==
    ASSUME RepoInv, CoreInv', [H!Operation]_Durable, Quiet
    PROVE  StepsKeep
<1>1. HeadsInv'
    BY QuietKeeps
<1>2. [H!Next]_<<Durable, torn>>
    BY DEF Quiet, H!Next, Durable
<1> QED
    BY <1>1, <1>2 DEF StepsKeep, RepoInv

LEMMA Stutters ==
    ASSUME RepoInv, UNCHANGED vars
    PROVE  StepsKeep
<1>1. DiskSame /\ UNCHANGED <<dir, staged, pc, op, docs, touched, faults>>
    BY DEF vars, DiskSame
<1>2. DiskInv /\ RunInv
    BY DEF RepoInv, CoreInv
<1>3. DiskInv' /\ UNCHANGED Durable
    <2>1. StagedInv'
        BY <1>1, <1>2 DEF DiskInv, StagedInv, PM, DiskSame
    <2>2. touched \subseteq Features /\ dir \subseteq Features /\ staged \subseteq dir \cup torn
          /\ docs \in Nat /\ faults \in Nat
        BY <1>2 DEF DiskInv, Types
    <2> QED
        BY <1>1, <1>2, <2>1, <2>2, DiskFrame DEF DiskSame
<1>4. /\ files' = files /\ fileManifest' = fileManifest /\ phaseManifest' = phaseManifest
      /\ head' = head /\ dir' = dir /\ staged' = staged /\ pc' = pc /\ op' = op /\ docs' = docs
      /\ touched' = touched /\ faults' = faults /\ torn' = torn
    BY <1>1 DEF DiskSame
<1>5. OpInv' /\ IndexInv'
    BY <1>2, <1>4 DEF RunInv, OpInv, IndexInv, PM
<1>6. ReadyInv'
    BY <1>2, <1>4 DEF RunInv, ReadyInv, Free, FM, Coordinators, Writes, WritesTo, Result
<1>7. /\ Current' = Current /\ PM(op.f)' = PM(op.f) /\ FM(op.f)' = FM(op.f)
      /\ Coordinators(op.f)' = Coordinators(op.f) /\ (CommitReached(op.f)' <=> CommitReached(op.f))
      /\ (PhaseCommitted(op.f)' <=> PhaseCommitted(op.f))
      /\ \A f : Writing(f)' <=> Writing(f)
      /\ \A f : Free(f)' <=> Free(f)
      /\ \A f, p : Written(f, p)' <=> Written(f, p)
      /\ \A f, p : Restored(f, p)' <=> Restored(f, p)
      /\ \A f, p, want : Has(f, p, want)' <=> Has(f, p, want)
    BY <1>4 DEF Current, PM, FM, Coordinators, CommitReached, PhaseCommitted, Writing, Writes, WritesTo,
       Free, Written, Restored, Has
<1>8. WriteInv' /\ RedoInv'
    BY <1>2, <1>4, <1>7 DEF RunInv, WriteInv, RedoInv
<1>9. BegunInv'
    <2>1. /\ \A f : Holds(f, PM(op.f).desired)' <=> Holds(f, PM(op.f).desired)
          /\ \A f : Holds(f, PM(op.f).before)' <=> Holds(f, PM(op.f).before)
          /\ \A f : Writes(op.writes[f])' <=> Writes(op.writes[f])
          /\ \A f : FM(f)' = FM(f)
        BY <1>1, <1>4, HeldSame
    <2> QED
        BY <1>2, <1>4, <1>7, <2>1 DEF RunInv, BegunInv, Begun
<1>10. RollbackInv'
    BY <1>2, <1>4, <1>7 DEF RunInv, RollbackInv, FM
<1>11. CoreInv'
    BY <1>3, <1>5, <1>6, <1>8, <1>9, <1>10 DEF RunInv, CoreInv
<1> QED
    BY <1>3, <1>4, <1>11, QuietSteps DEF Quiet

LEMMA OperateKeeps ==
    ASSUME RepoInv, Operate
    PROVE  StepsKeep
<1>1. PICK f \in Features :
         \/ Create(f) \/ PublishDraft(f) \/ RecordActivity(f) \/ Checkpoint(f)
         \/ Approve(f) \/ ReviseIntent(f)
         \/ \E g \in Features \ {f} : SupersedeIntent(f, g)
    BY DEF Operate
<1>2. CoreInv' /\ UNCHANGED Durable
    BY <1>1, CreateKeeps, PublishDraftKeeps, RecordActivityKeeps, CheckpointKeeps, ApproveKeeps,
       ReviseIntentKeeps, SupersedeIntentKeeps DEF RepoInv
<1>3. Quiet
    BY <1>1 DEF Quiet, Create, PublishDraft, RecordActivity, Checkpoint, Approve, ReviseIntent,
       SupersedeIntent, Counts, History
<1> QED
    BY <1>2, <1>3, QuietSteps

LEMMA StepKeeps ==
    ASSUME RepoInv, Step
    PROVE  StepsKeep
<1>1. CASE PersistPhase \/ MakeDir \/ PrepareIndex \/ AddToIndex \/ RollbackIndex \/ FinishRollback
    <2>1. CoreInv' /\ UNCHANGED Durable
        BY <1>1, PersistPhaseKeeps, MakeDirKeeps, PrepareIndexKeeps, AddToIndexKeeps,
           RollbackIndexKeeps, FinishRollbackKeeps DEF RepoInv
    <2>2. Quiet
        BY <1>1 DEF Quiet, PersistPhase, MakeDir, PrepareIndex, AddToIndex, RollbackIndex,
           BeginRestore, FinishRollback, Bookkeeping, Counts, History
    <2> QED
        BY <2>1, <2>2, QuietSteps
<1>2. CASE WriteFileManifest \/ WriteFile \/ RemoveFileManifest \/ RestoreFile \/ RecoverFile
           \/ CompleteRecovery
    <2>1. CoreInv' /\ [H!Operation]_Durable
        BY <1>2, WriteFileManifestKeeps, WriteFileKeeps, RemoveFileManifestKeeps, RestoreFileKeeps,
           RecoverFileKeeps, CompleteRecoveryKeeps DEF RepoInv
    <2>2. Quiet
        BY <1>2 DEF Quiet, WriteFileManifest, WriteFile, RemoveFileManifest, RestoreFile, RecoverFile,
           CompleteRecovery, Bookkeeping, History
    <2> QED
        BY <2>1, <2>2, QuietSteps
<1>3. CASE Commit \/ FinishPhase
    <2>1. RepoInv' /\ [H!Operation]_Durable
        BY <1>3, CommitKeeps, FinishPhaseKeeps
    <2>2. torn' = torn
        BY <1>3 DEF Commit, FinishPhase
    <2> QED
        BY <2>1, <2>2 DEF StepsKeep, H!Next, Durable
<1>4. CASE RemovePhaseManifest
    <2>1. /\ RepoInv'
          /\ (torn' = torn /\ [H!Operation]_Durable) \/ (torn' = torn \cup op.parts /\ H!Tear(op.parts))
        BY <1>4, RemovePhaseManifestKeeps
    <2>2. op.parts \subseteq Features
        BY <1>4 DEF RepoInv, CoreInv, RunInv, OpInv, RemovePhaseManifest
    <2>3. [H!Next]_<<Durable, torn>>
        <3>1. CASE torn' = torn /\ [H!Operation]_Durable
            BY <3>1 DEF H!Next, Durable
        <3>2. CASE H!Tear(op.parts)
            BY <2>2, <3>2 DEF H!Next
        <3> QED
            BY <2>1, <3>1, <3>2
    <2> QED
        BY <2>1, <2>3 DEF StepsKeep
<1> QED
    BY <1>1, <1>2, <1>3, <1>4 DEF Step

LEMMA FaultKeeps ==
    ASSUME RepoInv, Fault
    PROVE  StepsKeep
<1>1. CoreInv' /\ UNCHANGED Durable
    BY CommitFailsKeeps, RollbackIndexFailsKeeps, RestoreFileFailsKeeps, StopKeeps, CreateFailsKeeps
       DEF Fault, RepoInv
<1>2. Quiet
    BY DEF Quiet, Fault, CommitFails, RollbackIndexFails, BeginRestore, RestoreFileFails, Stop,
       CreateFails, History
<1> QED
    BY <1>1, <1>2, QuietSteps

LEMMA RecoverKeeps ==
    ASSUME RepoInv, Recover
    PROVE  StepsKeep
<1>1. PICK f \in Features : BeginRecovery(f) \/ AdoptCommit(f) \/ RollPhaseBack(f)
    BY DEF Recover
<1>2. CoreInv' /\ UNCHANGED Durable
    BY <1>1, BeginRecoveryKeeps, AdoptCommitKeeps, RollPhaseBackKeeps DEF RepoInv
<1>3. Quiet
    BY <1>1 DEF Quiet, BeginRecovery, AdoptCommit, RollPhaseBack, PhaseReady, Bookkeeping, History
<1> QED
    BY <1>2, <1>3, QuietSteps

LEMMA SaveKeeps ==
    ASSUME RepoInv, Save
    PROVE  StepsKeep
<1>1. PICK f \in Features, text \in 1..(docs + 1) : SaveDocument(f, text)
    BY DEF Save
<1>2. CoreInv' /\ [H!Operation]_Durable
    BY <1>1, SaveDocumentKeeps DEF RepoInv
<1>3. Quiet
    BY <1>1 DEF Quiet, SaveDocument, History
<1> QED
    BY <1>2, <1>3, QuietSteps

LEMMA NextKeeps ==
    ASSUME RepoInv, [Next]_vars
    PROVE  StepsKeep
    BY OperateKeeps, StepKeeps, FaultKeeps, RecoverKeeps, SaveKeeps, Stutters DEF Next

\* RepoInv holds in every reachable state: no operation, stop, failed commit,
\* failed rollback, recovery or save of the user breaks the manifests
\* (FSFeatureRepository).
THEOREM RepoInvariant == Spec => []RepoInv
<1>1. Init => RepoInv
    BY InitInv
<1>2. RepoInv /\ [Next]_vars => RepoInv'
    BY NextKeeps DEF StepsKeep
<1> QED
    BY <1>1, <1>2, PTL DEF Spec

\* The bounds of the counters.
Bounds ==
    docs \in 0..MaxDoc /\ faults \in 0..MaxFaults /\ edits \in 0..MaxEdits

LEMMA BoundsInvariant == Spec => []Bounds
<1>1. Init => Bounds
    BY BoundsAssumption DEF Init, Bounds
<1>2. Bounds /\ [Next]_vars => Bounds'
    <2> SUFFICES ASSUME Bounds, [Next]_vars
                 PROVE  Bounds'
        OBVIOUS
    <2> USE BoundsAssumption DEF Bounds, Counts, Bookkeeping
    <2>1. CASE UNCHANGED vars
        BY <2>1 DEF vars
    <2>2. CASE Operate
        <3>1. PICK f \in Features :
                 \/ Create(f) \/ PublishDraft(f) \/ RecordActivity(f) \/ Checkpoint(f)
                 \/ Approve(f) \/ ReviseIntent(f)
                 \/ \E g \in Features \ {f} : SupersedeIntent(f, g)
            BY <2>2 DEF Operate
        <3>2. CASE PublishDraft(f)
            <4>1. docs' = docs + 1 /\ docs < MaxDoc /\ UNCHANGED Counts
                BY <3>2 DEF PublishDraft
            <4> QED
                BY <4>1
        <3>3. CASE Create(f) \/ RecordActivity(f) \/ Checkpoint(f) \/ Approve(f) \/ ReviseIntent(f)
                   \/ \E g \in Features \ {f} : SupersedeIntent(f, g)
            <4>1. docs' = docs /\ UNCHANGED Counts
                BY <3>3 DEF Create, RecordActivity, Checkpoint, Approve, ReviseIntent, SupersedeIntent
            <4> QED
                BY <4>1
        <3> QED
            BY <3>1, <3>2, <3>3
    <2>3. CASE Step
        BY <2>3 DEF Step, PersistPhase, MakeDir, WriteFileManifest, WriteFile, RemoveFileManifest,
           PrepareIndex, AddToIndex, Commit, FinishPhase, RollbackIndex, BeginRestore, RestoreFile,
           RemovePhaseManifest, FinishRollback, RecoverFile, CompleteRecovery
    <2>4. CASE Fault
        BY <2>4 DEF Fault, CommitFails, RollbackIndexFails, BeginRestore, RestoreFileFails, Stop,
           CreateFails
    <2>5. CASE Recover
        BY <2>5 DEF Recover, BeginRecovery, AdoptCommit, RollPhaseBack
    <2>6. CASE Save
        BY <2>6 DEF Save, SaveDocument
    <2> QED
        BY <2>1, <2>2, <2>3, <2>4, <2>5, <2>6 DEF Next
<1> QED
    BY <1>1, <1>2, PTL DEF Spec

\* Every variable keeps its type: a directory that does not exist has neither
\* files nor a manifest, and a coordinator takes part in its own phase.
THEOREM TypeCorrect == Spec => []TypeOK
<1>1. RepoInv /\ Bounds => TypeOK
    <2> SUFFICES ASSUME RepoInv, Bounds
                 PROVE  TypeOK
        OBVIOUS
    <2>1. DiskInv /\ Types /\ OpInv
        BY DEF RepoInv, CoreInv, DiskInv, RunInv
    <2>2. ASSUME NEW f \in Features
          PROVE  /\ FM(f) # None => DOMAIN FM(f) \subseteq DOMAIN Missing
                 /\ PM(f) # None => f \in PM(f).parts
        BY <2>1 DEF DiskInv, FileInv, PhaseInv, FilePaths, Missing
    <2> QED
        BY <2>1, <2>2 DEF TypeOK, Types, OpInv, Positions, Bounds, FM, PM
<1> QED
    BY <1>1, RepoInvariant, BoundsInvariant, PTL

\* Whatever was committed loads, an approval a load believes in is in HEAD, and
\* a feature that nothing recovers is whole on disk and out of the index,
\* unless a step of a rollback failed (Approve, commitPhase, rollbackPhase,
\* recoverPhaseLocked).
THEOREM GitHoldsWhole == Spec => []WholeInGit
<1>1. RepoInv => WholeInGit
    <2> SUFFICES ASSUME RepoInv, NEW f \in Features
                 PROVE  /\ head[f] # Missing => head[f].log # None /\ head[f].log.anchor = head[f].state
                        /\ f \notin torn \union ahead /\ View(f) # None
                           /\ View(f).state.st = "committed" =>
                              head[f].state # None /\ head[f].state.st = "committed"
                              /\ head[f].state.app = View(f).state.app
                        /\ pc = "idle" /\ fileManifest[f] = None /\ Coordinators(f) = {}
                           /\ f \notin torn =>
                              /\ f \notin staged
                              /\ files[f].state # None => files[f].log.anchor = files[f].state
        BY DEF WholeInGit
    <2>1. DiskInv /\ GitInv(f) /\ files[f] \in Contents
        BY DEF RepoInv, CoreInv, DiskInv, Types
    <2>2. Free(f) => (f \in staged => f \in torn) /\ View(f) = Shown(files[f])
        BY <2>1, FreeUnstaged, FreeShown
    <2>3. Free(f) /\ f \notin torn /\ files[f].state # None => Whole(files[f])
        BY <2>1, <2>2, NoneIsNoFile DEF GitInv, Shown
    <2> QED
        BY <2>1, <2>2, <2>3 DEF GitInv, Whole, Free, FM
<1> QED
    BY <1>1, RepoInvariant, PTL

\* Recovery is refused only for bytes the user wrote: neither a stop nor a
\* failed commit leaves a manifest that a load cannot settle (recoverLocked,
\* validatePhaseRecovery).
THEOREM OnlyEditsBlock == Spec => []BlockedOnlyByEdit
<1>1. RepoInv => BlockedOnlyByEdit
    <2> SUFFICES ASSUME RepoInv, NEW f \in Features
                 PROVE  /\ BlockedFiles(f) => f \in touched
                        /\ Blocked(f) => phaseManifest[f].parts \cap touched # {}
        BY DEF BlockedOnlyByEdit
    <2>1. DiskInv
        BY DEF RepoInv, CoreInv
    <2>2. ASSUME NEW g \in Features, BlockedFiles(g)
          PROVE  g \in touched
        BY <2>1, <2>2 DEF BlockedFiles, FilesKnown, DiskInv, FileInv, FM, FilePaths
    <2>3. ASSUME Blocked(f)
          PROVE  phaseManifest[f].parts \cap touched # {}
        <3>1. PM(f) # None /\ PM(f).parts \subseteq Features /\ \A g \in PM(f).parts : PartInv(f, g)
            BY <2>1, <2>3 DEF Blocked, PM, DiskInv, PhaseInv
        <3>2. CASE \E g \in PM(f).parts : BlockedFiles(g)
            BY <2>2, <3>1, <3>2 DEF PM
        <3>3. CASE ~PhaseKnown(f)
            <4>1. PICK g \in PM(f).parts, p \in DOMAIN Missing :
                     files[g][p] \notin {PM(f).before[g][p], PM(f).desired[g][p]}
                BY <3>3 DEF PhaseKnown, PM
            <4>2. g \in touched
                BY <3>1, <4>1 DEF PartInv, Missing
            <4> QED
                BY <4>1, <4>2 DEF PM
        <3> QED
            BY <2>3, <3>2, <3>3 DEF Blocked, PM
    <2> QED
        BY <2>2, <2>3
<1> QED
    BY <1>1, RepoInvariant, PTL

\* A commit whose journal and state are in HEAD is taken back only after the
\* user saved a document of the phase: a commit of Git that a load does not
\* adopt holds a text the phase did not want (recoverPhaseLocked).
THEOREM OnlyEditsTakeBack == Spec => []TakenBackOnlyByEdit
<1>1. RepoInv => TakenBackOnlyByEdit
    <2> SUFFICES ASSUME RepoInv, pc \in {"rollback", "restore"}, CommitReached(op.f)
                 PROVE  phaseManifest[op.f].parts \cap touched # {}
        BY DEF TakenBackOnlyByEdit
    <2>1. op.f \in Features /\ PM(op.f) # None /\ ~PhaseCommitted(op.f)
        BY DEF RepoInv, CoreInv, RunInv, OpInv, RollbackInv
    <2> QED
        BY <2>1 DEF RepoInv, CoreInv, DiskInv, CommitInv, PM
<1> QED
    BY <1>1, RepoInvariant, PTL

\* Nothing but a save or an undo of the user makes a load refuse a feature, or
\* has a phase that is in HEAD taken back, whatever fails and wherever the
\* process stops (recoverLocked, validatePhaseRecovery, recoverPhaseLocked).
THEOREM OnlyEditsDisturbRecovery == Spec => []OnlyEditsDisturb
    BY OnlyEditsBlock, OnlyEditsTakeBack, PTL DEF OnlyEditsDisturb

\* What a load finds changes in whole operations only, wherever the process
\* stops, but for the participants of a rollback that failed: every step maps
\* to a step of FeatureHistory or to a stutter.
THEOREM RepositoryImplements == Spec => Implements
<1>1. Init => H!Init
    BY InitMaps
<1>2. RepoInv /\ [Next]_vars => [H!Next]_<<[f \in Features |-> View(f)], torn>>
    BY NextKeeps DEF StepsKeep, Durable
<1> QED
    BY <1>1, <1>2, RepoInvariant, PTL DEF Spec, Implements, H!Spec

=============================================================================
