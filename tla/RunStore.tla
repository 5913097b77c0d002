------------------------------ MODULE RunStore ------------------------------
(***************************************************************************)
(* The durable state of one run: StateStore of                             *)
(* src/internal/flows/impl_loop/store/state.go.  A JSONL journal of full   *)
(* snapshots is authoritative; an SQLite projection follows it and is      *)
(* rebuilt from it when the store is opened.  One call of the store is     *)
(* split at the points where the process can be interrupted or where the   *)
(* file system or SQLite can fail.                                         *)
(*                                                                         *)
(* A snapshot is a number drawn from a counter when a caller prepares it,  *)
(* so two snapshots are byte-equal exactly when their numbers are.  The    *)
(* journal keeps every complete record in file order; the records up to    *)
(* `synced' survive a loss of power, those after it may be lost from some  *)
(* point on.  The module assumes what the code assumes of the platform: a  *)
(* successful Sync makes the whole file durable, and an SQLite transaction *)
(* with synchronous = FULL is atomic and durable.                          *)
(***************************************************************************)
EXTENDS Naturals, Sequences, SequencesExt

CONSTANT MaxSnapshot  \* bound: snapshots prepared in one behaviour

ASSUME MaxSnapshotAssumption == MaxSnapshot \in Nat \ {0}

VARIABLES
  file,        \* complete records of events.jsonl, in file order
  torn,        \* an unterminated fragment follows them
  synced,      \* the number of records that survive a loss of power
  projection,  \* applied_events of state.sqlite, in sequence order
  up,          \* a controller process holds the opened store
  pending,     \* StateStore.pending: {} or the one unapplied snapshot
  memory,      \* the controller's *Run
  stopped,     \* the last call failed: the controller dispatches no more
  pc,          \* where the call in progress stands
  kind,        \* the kind of the call in progress, or of the last one
  value,       \* the snapshot the call in progress records
  fresh,       \* the last snapshot prepared
  dispatched   \* snapshots an agent or a command was dispatched for

disk == <<file, torn, synced, projection>>
call == <<pc, kind, value>>
process == <<up, pending, memory, stopped>>
vars == <<disk, process, call, fresh, dispatched>>

Snapshots == 1 .. MaxSnapshot

\* "start" reserves an attempt (recordAttemptStart), "update" changes a
\* candidate (recordAttemptOutcome, PersistExecutionBlock, a user command),
\* "direct" changes the controller's own Run before Record is called.
CallKinds == {"start", "update", "direct"}

Positions == {"closed", "opening", "idle", "refresh", "append", "sync",
              "close", "project", "dispatch"}

Init ==
  /\ file = <<1>> /\ torn = FALSE /\ synced = 1 /\ projection = <<1>>
  /\ up = TRUE /\ pending = {} /\ memory = 1 /\ stopped = FALSE
  /\ pc = "idle" /\ kind = "update" /\ value = 1
  /\ fresh = 1 /\ dispatched = <<>>

(***************************************************************************)
(* The caller.                                                             *)
(***************************************************************************)
\* A controller whose call failed stops its work; a user command may still
\* record a candidate, and a failed reservation may be tried again.
Call(k) ==
  /\ pc = "idle" /\ fresh < MaxSnapshot
  /\ stopped => k = "update" \/ (k = "start" /\ kind = "start" /\ pending = {})
  /\ fresh' = fresh + 1 /\ value' = fresh' /\ kind' = k
  /\ memory' = IF k = "direct" THEN fresh' ELSE memory
  /\ pc' = "refresh"
  /\ UNCHANGED <<disk, up, pending, stopped, dispatched>>

\* Mutant: the attempt of the Run is handed out whatever is pending.
RetryUnchecked ==
  /\ pc = "idle" /\ stopped
  /\ value' = memory /\ pc' = "project"
  /\ UNCHANGED <<disk, process, kind, fresh, dispatched>>

\* The call is made again with the Run that is pending: resolvePending of
\* recordAttemptStart and recordLimitedAttemptStart, applyPendingLocked of
\* Record.
Retry ==
  /\ pc = "idle" /\ stopped
  /\ pending = {memory}
  /\ value' = memory /\ pc' = "project"
  /\ UNCHANGED <<disk, process, kind, fresh, dispatched>>

\* An error without an event: the caller's Run is not replaced.
Refuse ==
  /\ pc' = "idle" /\ stopped' = TRUE
  /\ UNCHANGED <<up, pending, memory, kind, value, fresh, dispatched>>

\* An error with an event: the record is durable, so the caller's Run is
\* replaced, and the projection of the record is pending.
Unapplied ==
  /\ pc' = "idle" /\ stopped' = TRUE
  /\ memory' = value
  /\ UNCHANGED <<up, pending, kind, value, fresh, dispatched>>

(***************************************************************************)
(* Record.                                                                 *)
(***************************************************************************)
\* applyPendingLocked: any other snapshot is refused with ErrPendingEvent.
RefusePending ==
  /\ pc = "refresh" /\ pending \notin {{}, {value}}
  /\ Refuse
  /\ UNCHANGED disk

\* refreshCleanSequence: lastApplied equals the last journal sequence.
InStep == Len(file) = Len(projection)

\* Mutant: the cut of a torn tail takes the last complete record with it.
RefreshCutsRecord ==
  /\ pc = "refresh" /\ pending = {}
  /\ torn' = FALSE
  /\ file' = IF torn THEN Front(file) ELSE file
  /\ synced' = IF torn THEN Len(file) ELSE synced
  /\ UNCHANGED projection
  /\ pc' = "append" /\ UNCHANGED <<process, kind, value, fresh, dispatched>>

\* refreshCleanSequence: a torn tail is cut off and the file synced; then the
\* journal must be as long as the projection.
Refresh ==
  /\ pc = "refresh" /\ pending = {}
  /\ torn' = FALSE
  /\ synced' = IF torn THEN Len(file) ELSE synced
  /\ UNCHANGED <<file, projection>>
  /\ IF InStep
     THEN pc' = "append" /\ UNCHANGED <<process, kind, value, fresh, dispatched>>
     ELSE Refuse

\* verifyStateReferences, the encoding, or the cut of the tail fails.
RefreshFails ==
  /\ pc = "refresh" /\ pending = {}
  /\ Refuse
  /\ UNCHANGED disk

\* appendJournalResult, the write: all of the record, or a part of it.
AppendRecord ==
  /\ pc = "append"
  /\ file' = Append(file, value) /\ pc' = "sync"
  /\ UNCHANGED <<torn, synced, projection, process, kind, value, fresh, dispatched>>

AppendFails ==
  /\ pc = "append"
  /\ torn' \in BOOLEAN
  /\ Refuse
  /\ UNCHANGED <<file, synced, projection>>

\* Mutant: the record counts as durable before it is synced.
SyncSkipped ==
  /\ pc = "sync"
  /\ pending' = {value} /\ pc' = "close"
  /\ UNCHANGED <<disk, up, memory, stopped, kind, value, fresh, dispatched>>

\* The Sync is the publication boundary: from here on the record is pending.
Sync ==
  /\ pc = "sync"
  /\ synced' = Len(file)
  /\ pending' = {value} /\ pc' = "close"
  /\ UNCHANGED <<file, torn, projection, up, memory, stopped, kind, value, fresh, dispatched>>

\* The record stays in the file, unpromised.
SyncFails ==
  /\ pc = "sync"
  /\ Refuse
  /\ UNCHANGED disk

\* Closing the file or syncing its directory.
CloseJournal ==
  /\ pc = "close"
  /\ pc' = "project"
  /\ UNCHANGED <<disk, process, kind, value, fresh, dispatched>>

CloseFails ==
  /\ pc = "close"
  /\ Unapplied
  /\ UNCHANGED disk

\* applyCanonical: an event that was applied before is applied again without
\* effect; any other event must follow the last one.
Applied == IF Len(projection) = Len(file) THEN projection
           ELSE Append(projection, value)

Project ==
  /\ pc = "project"
  /\ projection' = Applied
  /\ pending' = {} /\ stopped' = FALSE
  /\ memory' = value
  /\ pc' = IF kind = "start" THEN "dispatch" ELSE "idle"
  /\ UNCHANGED <<file, torn, synced, up, kind, value, fresh, dispatched>>

\* The transaction fails, or commits and still reports an error.
ProjectFails ==
  /\ pc = "project"
  /\ projection' \in {projection, Applied}
  /\ Unapplied
  /\ UNCHANGED <<file, torn, synced>>

\* The caller of a reservation that returned no error runs the agent or the
\* command of the attempt.
Dispatch ==
  /\ pc = "dispatch"
  /\ dispatched' = Append(dispatched, memory)
  /\ pc' = "idle"
  /\ UNCHANGED <<disk, process, kind, value, fresh>>

(***************************************************************************)
(* Crashes and recovery.                                                   *)
(***************************************************************************)
ProcessLost ==
  /\ up' = FALSE /\ pending' = {} /\ stopped' = FALSE
  /\ pc' = "closed"
  /\ UNCHANGED <<memory, kind, value, fresh, dispatched>>

\* The process ends at any point; an append may have written a part.
Crash ==
  /\ up
  /\ torn' \in IF pc = "append" THEN BOOLEAN ELSE {torn}
  /\ ProcessLost
  /\ UNCHANGED <<file, synced, projection>>

\* The machine loses power, with or without a process running: records that
\* were not synced may be lost from some point on.
PowerLoss ==
  /\ \E n \in synced .. Len(file) :
       /\ file' = SubSeq(file, 1, n)
       /\ torn' \in IF n < Len(file) \/ torn \/ pc = "append" THEN BOOLEAN ELSE {FALSE}
  /\ ProcessLost
  /\ UNCHANGED <<synced, projection>>

\* The replaceable projection is deleted or found damaged.
LoseProjection ==
  /\ ~up /\ projection # <<>>
  /\ projection' = <<>>
  /\ UNCHANGED <<file, torn, synced, process, call, fresh, dispatched>>

\* OpenState, first part: the journal is validated and its tail cut off.
OpenJournal ==
  /\ pc = "closed"
  /\ up' = TRUE /\ pc' = "opening"
  /\ torn' = FALSE
  /\ synced' = IF torn THEN Len(file) ELSE synced
  /\ UNCHANGED <<file, projection, pending, memory, stopped, kind, value, fresh, dispatched>>

\* OpenState, second part: a projection that is not byte for byte the journal
\* is rebuilt from it; the controller reads its Run from the journal.
OpenProjection ==
  /\ pc = "opening"
  /\ projection' = file
  /\ memory' = file[Len(file)] /\ kind' = "update"
  /\ pc' = "idle"
  /\ UNCHANGED <<file, torn, synced, up, pending, stopped, value, fresh, dispatched>>

RecordStep ==
  \/ RefusePending \/ Refresh \/ RefreshFails \/ AppendRecord \/ AppendFails
  \/ Sync \/ SyncFails \/ CloseJournal \/ CloseFails \/ Project \/ ProjectFails

CallerStep == (\E k \in CallKinds : Call(k)) \/ Retry \/ Dispatch

FailureStep == Crash \/ PowerLoss \/ LoseProjection

Next == CallerStep \/ RecordStep \/ FailureStep \/ OpenJournal \/ OpenProjection

Spec == Init /\ [][Next]_vars

(***************************************************************************)
(* Properties.                                                             *)
(***************************************************************************)
TypeOK ==
  /\ file \in Seq(Nat) /\ projection \in Seq(Nat) /\ dispatched \in Seq(Nat)
  /\ torn \in BOOLEAN /\ up \in BOOLEAN /\ stopped \in BOOLEAN
  /\ synced \in 1 .. Len(file)
  /\ pending \subseteq {memory, value}
  /\ memory \in Snapshots /\ value \in Snapshots /\ fresh \in Snapshots
  /\ pc \in Positions /\ kind \in CallKinds

\* An agent or a command runs only for a reservation that no failure can take
\* back: its record survives a loss of power at any later point.
DispatchedIsDurable ==
  \A d \in 1 .. Len(dispatched) : \E i \in 1 .. synced : file[i] = dispatched[d]

\* While a store is open its journal extends its projection by at most one
\* record, through every failure and retry.
JournalAtMostOneAhead ==
  up /\ pc # "opening" =>
    /\ IsPrefix(projection, file)
    /\ Len(file) <= Len(projection) + 1

\* A controller that goes on working does so from the state that is recorded
\* last and is projected; a store with a pending record accepts no other.
ContinuesFromRecorded ==
  /\ pc = "idle" /\ ~stopped =>
       memory = file[Len(file)] /\ projection = file /\ pending = {}
  /\ pending # {} => pending = {file[Len(file)]} /\ synced = Len(file)

\* The store implements the log its controller relies on.
Log == INSTANCE StateLog WITH
         log <- SubSeq(file, 1, synced),
         tail <- SubSeq(file, synced + 1, Len(file)),
         dispatched <- dispatched
Implements == Log!Spec
=============================================================================
