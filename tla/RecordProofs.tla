---------------------------- MODULE RecordProofs ----------------------------
(***************************************************************************)
(* Theorems about the two modules of what a run records, for every value   *)
(* of their constants.  First RunStore: its safety invariants and its      *)
(* refinement of StateLog, from the inductive invariant StoreInv.  Then    *)
(* UserControl, whose work and driver record through that store and meet   *)
(* its failures: its safety from the inductive invariant ControlInv.       *)
(***************************************************************************)
EXTENDS RunStore, UserControl, TLAPS, SequenceTheorems

LastRecord == file[Len(file)]

\* v is recorded last and durable, and nothing was dispatched for it yet.
Newest(v) ==
  /\ synced = Len(file) /\ LastRecord = v
  /\ \A d \in 1 .. Len(dispatched) : dispatched[d] < v

Types ==
  /\ file \in Seq(Nat) /\ projection \in Seq(Nat) /\ dispatched \in Seq(Nat)
  /\ synced \in 1 .. Len(file)
  /\ memory \in Snapshots /\ value \in Snapshots /\ fresh \in Snapshots
  /\ pc \in Positions
  /\ pc # "closed" => up
  /\ pc \in {"closed", "opening"} => ~stopped

\* A snapshot that is prepared is greater than all that exist.
Ordered ==
  /\ \A i \in 1 .. Len(file) : file[i] \in 1 .. fresh
  /\ \A d \in 1 .. Len(dispatched) : dispatched[d] <= fresh
  /\ pc \in {"refresh", "append"} =>
       /\ value = fresh
       /\ \A i \in 1 .. Len(file) : file[i] < fresh
       /\ \A d \in 1 .. Len(dispatched) : dispatched[d] < fresh

\* Where the call in progress has brought its snapshot.
Progress ==
  /\ pc = "sync" => LastRecord = value /\ \A d \in 1 .. Len(dispatched) : dispatched[d] < value
  /\ pc \in {"close", "project"} => Newest(value)
  /\ pc = "dispatch" => Newest(memory)
  /\ pc \in {"append", "sync", "dispatch", "closed", "opening"} => pending = {}
  /\ pending = {} \/ (pending = {LastRecord} /\ Newest(LastRecord))
  /\ pending \subseteq IF pc \in {"idle", "refresh"} THEN {memory} ELSE {value}

\* The projection beside the journal.
Projected ==
  /\ up /\ pc # "opening" => projection = file \/ file = Append(projection, LastRecord)
  /\ pc \in {"append", "dispatch"} => projection = file
  /\ pc = "idle" /\ ~stopped => memory = LastRecord /\ projection = file /\ pending = {}
  /\ pc = "dispatch" => ~stopped

StoreInv ==
  Types /\ Ordered /\ Progress /\ Projected /\ DispatchedIsDurable

LEMMA InitInv == Init => StoreInv
<1>1. SUFFICES ASSUME Init PROVE StoreInv
  OBVIOUS
<1>2. file = <<1>> /\ projection = <<1>> /\ synced = 1 /\ dispatched = <<>>
      /\ fresh = 1 /\ memory = 1 /\ value = 1 /\ pc = "idle" /\ up = TRUE
      /\ stopped = FALSE /\ pending = {}
  BY <1>1 DEF Init
<1>3. /\ file \in Seq(Nat) /\ Len(file) = 1 /\ file[1] = 1
      /\ projection \in Seq(Nat)
      /\ dispatched \in Seq(Nat) /\ Len(dispatched) = 0
  BY <1>2
<1>4. Types
  BY <1>2, <1>3, MaxSnapshotAssumption DEF Types, Snapshots, Positions
<1>5. Ordered /\ DispatchedIsDurable
  BY <1>2, <1>3 DEF Ordered, DispatchedIsDurable
<1>6. Progress /\ Projected
  BY <1>2, <1>3 DEF Progress, Projected, LastRecord
<1> QED
  BY <1>4, <1>5, <1>6 DEF StoreInv

\* What every proof below needs to know of the numbers in the state.
LEMMA Numbers ==
  ASSUME Types
  PROVE  /\ Len(file) \in Nat /\ Len(file) >= 1
         /\ Len(dispatched) \in Nat /\ Len(projection) \in Nat
         /\ \A i \in 1 .. Len(file) : file[i] \in Nat
         /\ \A d \in 1 .. Len(dispatched) : dispatched[d] \in Nat
         /\ fresh \in Nat /\ synced \in Nat /\ value \in Nat /\ memory \in Nat
         /\ LastRecord \in Nat
  BY MaxSnapshotAssumption DEF Types, Snapshots, LastRecord

\* Steps that leave the journal, what is synced of it and what was
\* dispatched as they are, and prepare nothing.
LEMMA QuietStepInv ==
  ASSUME StoreInv,
         \/ Retry \/ RefusePending \/ RefreshFails \/ AppendFails \/ SyncFails
         \/ CloseJournal \/ CloseFails \/ Project \/ ProjectFails
         \/ Crash \/ LoseProjection \/ OpenProjection
  PROVE  StoreInv'
<1> USE DEF StoreInv, Types, Ordered, Progress, Projected, DispatchedIsDurable,
            Newest, LastRecord, Snapshots, Positions
<1>1. CASE Retry
  BY <1>1 DEF Retry, disk, process
<1>2. CASE RefusePending
  BY <1>2 DEF RefusePending, Refuse, disk
<1>3. CASE RefreshFails
  BY <1>3 DEF RefreshFails, Refuse, disk
<1>4. CASE AppendFails
  BY <1>4 DEF AppendFails, Refuse
<1>5. CASE SyncFails
  BY <1>5 DEF SyncFails, Refuse, disk
<1>6. CASE CloseJournal
  BY <1>6 DEF CloseJournal, disk, process
<1>7. CASE CloseFails
  BY <1>7 DEF CloseFails, Unapplied, disk
<1>8. CASE Project
  BY <1>8, Numbers DEF Project, Applied
<1>9. CASE ProjectFails
  BY <1>9 DEF ProjectFails, Applied, Unapplied
<1>10. CASE Crash
  BY <1>10 DEF Crash, ProcessLost
<1>11. CASE LoseProjection
  BY <1>11 DEF LoseProjection, process, call
<1>12. CASE OpenProjection
  BY <1>12, Numbers, MaxSnapshotAssumption DEF OpenProjection
<1> QED
  BY <1>1, <1>2, <1>3, <1>4, <1>5, <1>6, <1>7, <1>8, <1>9, <1>10, <1>11, <1>12

LEMMA CallInv ==
  ASSUME StoreInv, NEW k \in CallKinds, Call(k)
  PROVE  StoreInv'
<1>1. Types /\ Ordered /\ Progress /\ Projected /\ DispatchedIsDurable
  BY DEF StoreInv
<1>2. /\ file' = file /\ synced' = synced /\ dispatched' = dispatched
      /\ fresh' = fresh + 1 /\ fresh' \in Snapshots /\ value' = fresh + 1 /\ pc = "idle" /\ pc' = "refresh"
  BY <1>1, Numbers, MaxSnapshotAssumption DEF Call, disk, Types, Snapshots
<1>3. UNCHANGED <<projection, up, pending, stopped>>
  BY DEF Call, disk
<1>4. Types'
  BY <1>1, <1>2, <1>3, Numbers DEF Call, Types, Positions
<1>5. Ordered'
  BY SMTT(30), <1>1, <1>2, Numbers DEF Ordered
<1>6. pending = {} \/ memory' = memory
  BY <1>1 DEF Call, Projected
<1>7. Progress'
  BY <1>1, <1>2, <1>3, <1>6 DEF Progress, Newest, LastRecord
<1>8. Projected'
  BY <1>1, <1>2, <1>3 DEF Projected, LastRecord
<1>9. DispatchedIsDurable'
  BY <1>1, <1>2 DEF DispatchedIsDurable
<1> QED
  BY <1>4, <1>5, <1>7, <1>8, <1>9 DEF StoreInv

LEMMA SyncedInv ==
  ASSUME StoreInv, Refresh \/ Sync \/ OpenJournal
  PROVE  StoreInv'
<1>1. Types /\ Ordered /\ Progress /\ Projected /\ DispatchedIsDurable
  BY DEF StoreInv
<1>2. /\ file' = file /\ dispatched' = dispatched /\ fresh' = fresh /\ value' = value
      /\ memory' = memory /\ projection' = projection /\ synced' \in {synced, Len(file)}
  BY DEF Refresh, Sync, OpenJournal, Refuse, process
<1>3. synced <= synced' /\ synced' \in 1 .. Len(file')
  BY <1>1, <1>2, Numbers DEF Types
<1>4. Types'
  BY <1>1, <1>2, <1>3 DEF Refresh, Sync, OpenJournal, Refuse, process, Types, Positions
<1>5. Ordered'
  BY <1>1, <1>2 DEF Refresh, Sync, OpenJournal, Refuse, Ordered
<1>6. Progress'
  BY <1>1, <1>2 DEF Refresh, Sync, OpenJournal, Refuse, process, Progress, Newest, LastRecord
<1>7. Projected'
  BY SMTT(30), <1>1, <1>2, Numbers DEF Refresh, InStep, Sync, OpenJournal, Refuse, process, Projected, LastRecord, Types
<1>8. DispatchedIsDurable'
  BY <1>1, <1>2, <1>3, Numbers DEF DispatchedIsDurable, Types
<1> QED
  BY <1>3, <1>4, <1>5, <1>6, <1>7, <1>8 DEF StoreInv

LEMMA AppendRecordInv ==
  ASSUME StoreInv, AppendRecord
  PROVE  StoreInv'
<1>1. Types /\ Ordered /\ Progress /\ Projected /\ DispatchedIsDurable
  BY DEF StoreInv
<1>2. /\ file' = Append(file, value) /\ synced' = synced /\ dispatched' = dispatched
      /\ fresh' = fresh /\ value' = value /\ pc = "append" /\ pc' = "sync"
      /\ projection' = projection /\ memory' = memory
      /\ pending' = pending /\ up' = up /\ stopped' = stopped
  BY DEF AppendRecord, process
<1>3. /\ file' \in Seq(Nat) /\ Len(file') = Len(file) + 1
      /\ \A i \in 1 .. Len(file) : file'[i] = file[i]
      /\ LastRecord' = value
  BY <1>1, <1>2, AppendProperties, Numbers DEF Types, LastRecord
<1>4. Types'
  BY <1>1, <1>2, <1>3, Numbers DEF Types, Positions
<1>5. Ordered'
  BY <1>1, <1>2, <1>3, Numbers DEF Ordered, LastRecord
<1>6. Progress'
  BY <1>1, <1>2, <1>3 DEF Progress, Ordered
<1>7. Projected'
  BY <1>1, <1>2, <1>3 DEF Projected
<1>8. DispatchedIsDurable'
  BY <1>1, <1>2, <1>3, Numbers DEF DispatchedIsDurable, Types
<1> QED
  BY <1>4, <1>5, <1>6, <1>7, <1>8 DEF StoreInv

LEMMA DispatchInv ==
  ASSUME StoreInv, Dispatch
  PROVE  StoreInv'
<1>1. Types /\ Ordered /\ Progress /\ Projected /\ DispatchedIsDurable
  BY DEF StoreInv
<1>2. /\ file' = file /\ synced' = synced /\ dispatched' = Append(dispatched, memory)
      /\ fresh' = fresh /\ value' = value /\ pc = "dispatch" /\ pc' = "idle"
      /\ projection' = projection /\ memory' = memory
      /\ pending' = pending /\ up' = up /\ stopped' = stopped
  BY DEF Dispatch, disk, process
<1>3. /\ dispatched' \in Seq(Nat) /\ Len(dispatched') = Len(dispatched) + 1
      /\ \A d \in 1 .. Len(dispatched) : dispatched'[d] = dispatched[d]
      /\ dispatched'[Len(dispatched) + 1] = memory
  BY <1>1, <1>2, AppendProperties, Numbers DEF Types
<1>4. synced = Len(file) /\ LastRecord = memory
  BY <1>1, <1>2 DEF Progress, Newest
<1>5. Types'
  BY <1>1, <1>2, <1>3 DEF Types, Positions
<1>6. Ordered'
  BY SMTT(30), <1>1, <1>2, <1>3, <1>4, Numbers DEF Ordered, LastRecord
<1>7. Progress'
  BY <1>1, <1>2 DEF Progress
<1>8. Projected'
  BY <1>1, <1>2, <1>4 DEF Projected, Progress, LastRecord
<1>9. DispatchedIsDurable'
  BY <1>1, <1>2, <1>3, <1>4, Numbers DEF DispatchedIsDurable, LastRecord
<1> QED
  BY <1>5, <1>6, <1>7, <1>8, <1>9 DEF StoreInv

LEMMA PowerLossInv ==
  ASSUME StoreInv, PowerLoss
  PROVE  StoreInv'
<1>1. Types /\ Ordered /\ Progress /\ Projected /\ DispatchedIsDurable
  BY DEF StoreInv
<1>2. PICK n \in synced .. Len(file) : file' = SubSeq(file, 1, n)
  BY DEF PowerLoss
<1>3. /\ file' \in Seq(Nat) /\ Len(file') = n
      /\ \A i \in 1 .. n : file'[i] = file[i]
  BY <1>1, <1>2, Numbers, SubSeqProperties DEF Types
<1>4. /\ synced' = synced /\ dispatched' = dispatched /\ fresh' = fresh
      /\ value' = value /\ memory' = memory /\ projection' = projection
      /\ pc' = "closed" /\ up' = FALSE /\ pending' = {} /\ stopped' = FALSE
  BY DEF PowerLoss, ProcessLost
<1>5. Types'
  BY <1>1, <1>2, <1>3, <1>4, Numbers DEF Types, Positions
<1>6. Ordered'
  BY <1>1, <1>2, <1>3, <1>4, Numbers DEF Ordered, Types
<1>7. Progress'
  BY <1>4 DEF Progress
<1>8. Projected'
  BY <1>4 DEF Projected
<1>9. DispatchedIsDurable'
  BY <1>1, <1>2, <1>3, <1>4, Numbers DEF DispatchedIsDurable, Types
<1> QED
  BY <1>5, <1>6, <1>7, <1>8, <1>9 DEF StoreInv

LEMMA StepInv == StoreInv /\ [Next]_vars => StoreInv'
<1> SUFFICES ASSUME StoreInv, [Next]_vars PROVE StoreInv'
  OBVIOUS
<1>1. CASE UNCHANGED vars
  BY <1>1 DEF vars, disk, process, call, StoreInv, Types, Ordered, Progress,
              Projected, DispatchedIsDurable, Newest, LastRecord
<1>2. CASE CallerStep
  BY <1>2, CallInv, QuietStepInv, DispatchInv DEF CallerStep
<1>3. CASE RecordStep
  BY <1>3, SyncedInv, AppendRecordInv, QuietStepInv DEF RecordStep
<1>4. CASE FailureStep
  BY <1>4, QuietStepInv, PowerLossInv DEF FailureStep
<1>5. CASE OpenJournal \/ OpenProjection
  BY <1>5, SyncedInv, QuietStepInv
<1> QED
  BY <1>1, <1>2, <1>3, <1>4, <1>5 DEF Next

\* The Boolean variables and the kind of a call, apart: the provers treat
\* them differently from numbers and sequences.
Flags == torn \in BOOLEAN /\ up \in BOOLEAN /\ stopped \in BOOLEAN /\ kind \in CallKinds

LEMMA FlagsInv == Flags /\ [Next]_vars => Flags'
<1> SUFFICES ASSUME Flags, [Next]_vars PROVE Flags'
  OBVIOUS
<1> USE DEF Flags
<1>1. CASE UNCHANGED vars
  BY <1>1 DEF vars, disk, process, call
<1>2. CASE CallerStep
  BY <1>2 DEF CallerStep, Call, Retry, Dispatch, disk, process
<1>3. CASE RecordStep
  <2>1. /\ up' = up /\ kind' = kind
        /\ stopped' \in {stopped, TRUE, FALSE}
        /\ torn' \in {torn} \cup BOOLEAN
    BY <1>3 DEF RecordStep, RefusePending, Refresh, RefreshFails, AppendRecord,
       AppendFails, Sync, SyncFails, CloseJournal, CloseFails, Project,
       ProjectFails, Refuse, Unapplied, disk, process
  <2> QED
    BY <2>1
<1>4. CASE FailureStep
  BY <1>4 DEF FailureStep, Crash, PowerLoss, LoseProjection, ProcessLost, process, call
<1>5. CASE OpenJournal \/ OpenProjection
  BY <1>5 DEF OpenJournal, OpenProjection, CallKinds
<1> QED
  BY <1>1, <1>2, <1>3, <1>4, <1>5 DEF Next

THEOREM StoreInvariant == Spec => []StoreInv
<1> QED
  BY InitInv, StepInv, PTL DEF Spec

\* Every variable has its type, and a pending snapshot is the one the call in
\* progress records or the one the controller holds.
THEOREM TypeCorrect == Spec => []TypeOK
<1>1. Init => Flags
  BY DEF Init, Flags, CallKinds
<1>2. StoreInv /\ Flags => TypeOK
  <2> SUFFICES ASSUME StoreInv, Flags PROVE TypeOK
    OBVIOUS
  <2>1. Types /\ pending \subseteq {memory, value}
    BY DEF StoreInv, Progress
  <2> QED
    BY <2>1 DEF TypeOK, Types, Flags
<1> QED
  BY <1>1, <1>2, FlagsInv, StoreInvariant, PTL DEF Spec

\* Whatever fails and whenever the process or the machine stops, an agent or
\* a command runs only for a snapshot that no later failure takes back.
THEOREM WorkIsDurable == Spec => []DispatchedIsDurable
<1>1. StoreInv => DispatchedIsDurable
  BY DEF StoreInv
<1> QED
  BY <1>1, StoreInvariant, PTL

\* The projection of an open store is the journal or lacks its last record.
THEOREM ProjectionFollows == Spec => []JournalAtMostOneAhead
<1>1. ASSUME StoreInv PROVE JournalAtMostOneAhead
  <2>1. SUFFICES ASSUME up, pc # "opening"
                 PROVE  IsPrefix(projection, file) /\ Len(file) <= Len(projection) + 1
    BY DEF JournalAtMostOneAhead
  <2>2. /\ projection \in Seq(Nat) /\ file \in Seq(Nat)
        /\ Types
        /\ projection = file \/ file = Append(projection, LastRecord)
    BY <1>1, <2>1 DEF StoreInv, Projected, Types
  <2>3. CASE projection = file
    BY <2>2, <2>3, Numbers DEF IsPrefix
  <2>4. CASE file = Append(projection, LastRecord)
    <3>1. /\ Len(file) = Len(projection) + 1
          /\ \A i \in 1 .. Len(projection) : file[i] = projection[i]
      BY <2>2, <2>4, Numbers, AppendProperties
    <3>2. SubSeq(file, 1, Len(projection)) = SubSeq(projection, 1, Len(projection))
      <4>1. file = projection \o <<LastRecord>>
        BY <2>2, <2>4, Numbers, AppendIsConcat
      <4>2. CASE Len(projection) = 0
        BY <4>2, SubSeqEmpty
      <4>3. CASE Len(projection) > 0
        BY <2>2, <4>1, <4>3, Numbers, SubSeqOfConcat1
      <4> QED
        BY <2>2, <4>2, <4>3, Numbers
    <3> QED
      BY <2>2, <3>1, <3>2, Numbers DEF IsPrefix
  <2> QED
    BY <2>2, <2>3, <2>4
<1> QED
  BY <1>1, StoreInvariant, PTL

\* A controller that goes on does so from the last record, and a store with a
\* pending record has it last in the journal and durable.
THEOREM WorkContinuesFromRecorded == Spec => []ContinuesFromRecorded
<1>1. StoreInv => ContinuesFromRecorded
  BY DEF StoreInv, Progress, Projected, Newest, LastRecord, ContinuesFromRecorded
<1> QED
  BY <1>1, StoreInvariant, PTL

(***************************************************************************)
(* The store implements StateLog.                                          *)
(***************************************************************************)
MappedLog == SubSeq(file, 1, synced)
MappedTail == SubSeq(file, synced + 1, Len(file))

LEMMA WrittenIsFile == ASSUME Types PROVE MappedLog \o MappedTail = file
<1>1. MappedLog \o MappedTail = SubSeq(file, 1, Len(file))
  BY SMTT(30), Numbers, ConcatAdjacentSubSeq DEF Types, MappedLog, MappedTail
<1> QED
  BY <1>1, SubSeqFull DEF Types

\* What the mapped variables are, as sequences.
LEMMA MappedProperties ==
  ASSUME Types
  PROVE  /\ MappedLog \in Seq(Nat) /\ MappedTail \in Seq(Nat)
         /\ Len(MappedLog) = synced /\ Len(MappedTail) = Len(file) - synced
         /\ \A i \in 1 .. synced : MappedLog[i] = file[i]
         /\ \A i \in 1 .. Len(file) - synced : MappedTail[i] = file[synced + i]
<1>1. /\ \A i \in 1 .. synced : file[i] \in Nat
      /\ \A i \in synced + 1 .. Len(file) : file[i] \in Nat
  BY SMTT(30), Numbers DEF Types
<1>2. /\ MappedLog \in Seq(Nat) /\ Len(MappedLog) = synced
      /\ \A i \in 1 .. synced : MappedLog[i] = file[i]
  BY <1>1, Numbers, SubSeqProperties DEF Types, MappedLog
<1>3. /\ MappedTail \in Seq(Nat) /\ Len(MappedTail) = Len(file) - synced
      /\ \A i \in 1 .. Len(file) - synced : MappedTail[i] = file[synced + i]
  BY <1>1, Numbers, SubSeqProperties DEF Types, MappedTail
<1> QED
  BY <1>2, <1>3

LEMMA InitMaps == Init => Log!Init
<1> SUFFICES ASSUME Init PROVE Log!Init
  OBVIOUS
<1>1. file = <<1>> /\ Len(file) = 1 /\ file \in Seq(Nat) /\ synced = 1 /\ dispatched = <<>>
  BY DEF Init
<1>2. SubSeq(file, 1, synced) = <<1>>
  BY <1>1, SubSeqFull
<1>3. SubSeq(file, synced + 1, Len(file)) = <<>>
  BY <1>1, SubSeqEmpty
<1> QED
  BY <1>1, <1>2, <1>3 DEF Log!Init

\* Making the whole file durable promises its tail, if it has one.
LEMMA SyncMaps ==
  ASSUME Types, file' = file, synced' = Len(file), dispatched' = dispatched
  PROVE  [Log!Next]_(Log!logVars)
<1>1. MappedLog' = file
  BY SubSeqFull DEF MappedLog, Types
<1>2. MappedTail' = <<>>
  BY Numbers, SubSeqEmpty DEF MappedTail
<1>3. CASE synced = Len(file)
  BY <1>3 DEF Log!logVars, MappedLog, MappedTail
<1>4. CASE synced # Len(file)
  <2>1. MappedTail # <<>>
    BY <1>4, MappedProperties, Numbers DEF Types
  <2>2. Log!Promise
    BY <1>1, <1>2, <2>1, WrittenIsFile
    DEF Log!Promise, Log!Written, MappedLog, MappedTail
  <2> QED
    BY <2>2 DEF Log!Next
<1> QED
  BY <1>3, <1>4

LEMMA AppendMaps ==
  ASSUME StoreInv, AppendRecord
  PROVE  Log!Next
<1>1. Types /\ Ordered /\ StoreInv'
  BY AppendRecordInv DEF StoreInv
<1>2. /\ file' = Append(file, value) /\ synced' = synced /\ dispatched' = dispatched
      /\ pc = "append"
  BY DEF AppendRecord
<1>3. value \in Snapshots /\ value > file[Len(file)]
  BY <1>1, <1>2, Numbers DEF Ordered, Types
<1>4. /\ file' = file \o <<value>> /\ Len(file') = Len(file) + 1
  BY <1>1, <1>2, Numbers, AppendIsConcat, AppendProperties DEF Types
<1>5. MappedLog' = MappedLog
  BY <1>1, <1>2, <1>4, Numbers, SubSeqOfConcat1 DEF Types, MappedLog
<1>6. MappedTail' = Append(MappedTail, value)
  <2>1. SubSeq(file', synced + 1, Len(file'))
          = SubSeq(file', synced + 1, Len(file)) \o <<value>>
    <3>1. file' \in Seq(Nat) /\ file'[Len(file')] = value
      BY <1>1, <1>2, <1>4, Numbers, AppendProperties DEF Types
    <3>2. /\ synced + 1 \in 1 .. Len(file') /\ Len(file') \in synced + 1 .. Len(file')
          /\ Len(file') - 1 = Len(file)
      BY <1>1, <1>4, Numbers DEF Types
    <3> QED
      BY <3>1, <3>2, SubSeqRecursiveSecond
  <2>2. SubSeq(file', synced + 1, Len(file)) = MappedTail
    <3>1. CASE synced = Len(file)
      BY <3>1, Numbers, SubSeqEmpty DEF MappedTail
    <3>2. CASE synced # Len(file)
      BY <1>1, <1>4, <3>2, Numbers, SubSeqOfConcat1 DEF MappedTail, Types
    <3> QED
      BY <3>1, <3>2
  <2>3. Append(MappedTail, value) = MappedTail \o <<value>>
    BY <1>1, Numbers, MappedProperties, AppendIsConcat
  <2> QED
    BY <1>2, <2>1, <2>2, <2>3 DEF MappedTail
<1>7. Log!Write
  BY <1>1, <1>2, <1>3, <1>5, <1>6, WrittenIsFile
  DEF Log!Write, Log!Written, Log!Greatest, MappedLog, MappedTail
<1> QED
  BY <1>7 DEF Log!Next

LEMMA DispatchMaps ==
  ASSUME StoreInv, Dispatch
  PROVE  Log!Next
<1>1. Types /\ Newest(memory)
  BY DEF StoreInv, Progress, Dispatch
<1>2. /\ file' = file /\ synced' = synced /\ dispatched' = Append(dispatched, memory)
  BY DEF Dispatch, disk
<1>3. MappedTail = <<>> /\ MappedLog = file
  BY <1>1, Numbers, SubSeqEmpty, SubSeqFull DEF Newest, Types, MappedTail, MappedLog
<1>4. Log!Greatest(MappedLog) = memory
  BY <1>1, <1>3 DEF Log!Greatest, Newest, LastRecord
<1>5. dispatched = <<>> \/ Log!Greatest(dispatched) < memory
  BY <1>1, Numbers DEF Log!Greatest, Newest, Types
<1>6. Log!Dispatch
  BY <1>2, <1>3, <1>4, <1>5 DEF Log!Dispatch, MappedLog, MappedTail
<1> QED
  BY <1>6 DEF Log!Next

LEMMA PowerLossMaps ==
  ASSUME StoreInv, PowerLoss
  PROVE  [Log!Next]_(Log!logVars)
<1>1. Types
  BY DEF StoreInv
<1>2. PICK n \in synced .. Len(file) : file' = SubSeq(file, 1, n)
  BY DEF PowerLoss
<1>3. synced' = synced /\ dispatched' = dispatched
  BY DEF PowerLoss, ProcessLost
<1>4. CASE n = Len(file)
  BY <1>1, <1>2, <1>3, <1>4, SubSeqFull DEF Types, Log!logVars
<1>5. CASE n # Len(file)
  <2>1. /\ file' \in Seq(Nat) /\ Len(file') = n
    BY <1>1, <1>2, Numbers, SubSeqProperties DEF Types
  <2>2. MappedLog' = MappedLog
    BY <1>1, <1>2, <1>3, Numbers, SubSeqOfSubSeq DEF Types, MappedLog
  <2>3. MappedTail' = SubSeq(MappedTail, 1, n - synced)
    BY SMTT(30), <1>1, <1>2, <1>3, <2>1, Numbers, SubSeqOfSubSeq DEF Types, MappedTail
  <2>4. n - synced \in 0 .. Len(MappedTail) - 1
    BY <1>1, <1>5, Numbers, MappedProperties
  <2>5. Log!Lose
    BY <1>3, <2>2, <2>3, <2>4 DEF Log!Lose, MappedLog, MappedTail
  <2> QED
    BY <2>5 DEF Log!Next
<1> QED
  BY <1>4, <1>5

LEMMA StepMaps == StoreInv /\ [Next]_vars => [Log!Next]_(Log!logVars)
<1> SUFFICES ASSUME StoreInv, [Next]_vars PROVE [Log!Next]_(Log!logVars)
  OBVIOUS
<1>1. ASSUME UNCHANGED <<file, synced, dispatched>> PROVE UNCHANGED Log!logVars
  BY <1>1 DEF Log!logVars
<1>2. CASE UNCHANGED vars
  BY <1>1, <1>2 DEF vars, disk
<1>3. CASE CallerStep
  BY <1>1, <1>3, DispatchMaps DEF CallerStep, Call, Retry, disk
<1>4. CASE Refresh \/ Sync \/ OpenJournal
  <2>1. file' = file /\ dispatched' = dispatched /\ synced' \in {synced, Len(file)}
    BY <1>4 DEF Refresh, Sync, OpenJournal, Refuse
  <2> QED
    BY <1>1, <2>1, SyncMaps DEF StoreInv
<1>5. CASE AppendRecord
  BY <1>5, AppendMaps
<1>6. CASE RecordStep /\ ~Refresh /\ ~Sync /\ ~AppendRecord
  BY <1>1, <1>6 DEF RecordStep, RefusePending, RefreshFails, AppendFails, SyncFails,
     CloseJournal, CloseFails, Project, ProjectFails, Refuse, Unapplied, disk
<1>7. CASE FailureStep
  BY <1>1, <1>7, PowerLossMaps DEF FailureStep, Crash, LoseProjection, ProcessLost
<1>8. CASE OpenProjection
  BY <1>1, <1>8 DEF OpenProjection
<1> QED
  BY <1>2, <1>3, <1>4, <1>5, <1>6, <1>7, <1>8 DEF Next

\* Through every failure and recovery the store behaves like the log its
\* controller relies on: a promised snapshot is never lost, and work is
\* dispatched once, for the last promised snapshot.
THEOREM StoreImplementsLog == Spec => Implements
<1> QED
  BY StoreInvariant, InitMaps, StepMaps, PTL DEF Spec, Implements, Log!Spec

(***************************************************************************)
(* The control of the user.                                                *)
(* ControlInv says where the two goroutines may stand together: an         *)
(* operation is registered exactly while the work is inside it             *)
(* (OperationInv), a transition keeps new operations out (TransitionInv),  *)
(* and the work has ended before a run is closed (StopInv).                *)
(***************************************************************************)
\* Where the work stands when no operation, or one, is registered.  A record
\* in progress is made inside or outside an operation.
Outside == {"off", "resume", "loop", "beginAgent", "reserveCheck", "beginCheck", "change", "fail"}
Inside == {"reserveAgent", "running", "result", "settle", "finish"}
OfCandidate == {"record", "apply", "adopt"}
OfRun == {"put", "applyRun"}
Drivers == {"prompt", "join", "dispatch", "begin", "wait", "lock", "record", "recorded",
            "unapplied", "drain", "drainRefused", "dead"}

ControlTypes ==
  /\ run \in Statuses /\ stored \in Statuses /\ candidate \in Statuses
  /\ goal \in {"paused", "closed"}
  /\ registered \in {"none", "running", "canceled"}
  /\ storePending \in BOOLEAN /\ transitioning \in BOOLEAN
  /\ mutex \in BOOLEAN /\ canceled \in BOOLEAN
  /\ user \in Drivers
  /\ worker \in Outside \cup Inside \cup OfCandidate \cup OfRun
  /\ next \in Outside \cup Inside

\* An operation is in the control exactly while the work is inside it; a
\* candidate that is being recorded goes on inside if it began inside.
OperationInv ==
  /\ worker \in Inside => registered # "none"
  /\ worker \in Outside => registered = "none"
  /\ worker \in OfCandidate => (next \in Inside <=> registered # "none")

\* A transition keeps new operations out until its record is adopted.
TransitionInv ==
  /\ user \in {"wait", "lock", "record", "recorded", "unapplied"} => transitioning
  /\ user \in {"lock", "record", "recorded", "unapplied"} => registered = "none"
  /\ mutex => user \in {"record", "recorded", "unapplied"}

\* A run is closed after its work was joined, and work starts on a paused run.
StopInv ==
  /\ goal = "closed" /\ user \in {"dispatch", "begin", "wait", "lock", "record", "recorded", "unapplied"}
       => worker = "off"
  /\ goal = "closed" /\ user \in {"recorded", "unapplied"} => stored = "closed"
  /\ candidate # "closed"
  /\ stored = "closed" =>
       /\ worker = "off"
       /\ \/ run = "closed"
          \/ user \in {"recorded", "unapplied"} /\ goal = "closed"
          \/ user = "dead"
  /\ run = "closed" =>
       /\ stored = "closed"
       /\ user \in {"prompt", "join", "dispatch", "begin", "dead"}

ControlInv == ControlTypes /\ OperationInv /\ TransitionInv /\ StopInv

LEMMA InitControl == ControlInit => ControlInv
  BY DEF ControlInit, ControlInv, ControlTypes, OperationInv, TransitionInv, StopInv, Outside, Inside, OfCandidate,
         OfRun, Drivers, Statuses, control, store, work, driver

(***************************************************************************)
(* The steps of the work, of the driver and of its commands, one by one.   *)
(***************************************************************************)
LEMMA WorkKeepsControl == ControlInv /\ WorkerStep => ControlInv'
<1> SUFFICES ASSUME ControlInv, WorkerStep PROVE ControlInv'
  OBVIOUS
<1> USE DEF ControlInv, ControlTypes, OperationInv, TransitionInv, StopInv, Outside, Inside, OfCandidate,
         OfRun, Drivers, Statuses, control, store, work, driver
<1>1. CASE ResumeRun
  BY <1>1 DEF ResumeRun, GoTo, Prepare
<1>2. CASE NextStep
  BY <1>2 DEF NextStep, GoTo
<1>3. CASE Reserve
  BY <1>3 DEF Reserve, GoTo, Prepare, Failure
<1>4. CASE RecordCandidate
  <2>1. Unrecorded \in {"off", "finish", "fail"}
        /\ (Unrecorded = "finish" <=> registered # "none")
    BY <1>4 DEF RecordCandidate, Unrecorded, Failure
  <2>2. CASE GoTo(Unrecorded) /\ UNCHANGED store
    BY <1>4, <2>1, <2>2 DEF RecordCandidate, GoTo
  <2>3. ASSUME NEW outcome \in Outcomes, Recorded(candidate, outcome),
               outcome = "recorded", GoTo("apply")
        PROVE  ControlInv'
    BY <1>4, <2>3 DEF RecordCandidate, GoTo, Recorded
  <2>4. ASSUME NEW outcome \in Outcomes, Recorded(candidate, outcome),
               outcome = "unapplied", worker' = "adopt", next' = Unrecorded,
               UNCHANGED <<canceled, candidate, cancelable, operations>>
        PROVE  ControlInv'
    BY <1>4, <2>1, <2>4 DEF RecordCandidate, Recorded
  <2>5. ASSUME NEW outcome \in Outcomes, Recorded(candidate, outcome),
               outcome = "failed", GoTo(Unrecorded)
        PROVE  ControlInv'
    BY <1>4, <2>1, <2>5 DEF RecordCandidate, GoTo, Recorded
  <2> QED
    BY <1>4, <2>2, <2>3, <2>4, <2>5 DEF RecordCandidate, Outcomes
<1>5. CASE ApplyCandidate
  BY <1>5 DEF ApplyCandidate, Unrecorded, Failure
<1>6. CASE AdoptCandidate
  BY <1>6 DEF AdoptCandidate, GoTo
<1>7. CASE ChangeRun
  BY <1>7 DEF ChangeRun, GoTo, Failure
<1>8. CASE PutRun
  <2>1. Failure \in {"finish", "fail"} /\ (Failure = "finish" <=> registered # "none")
    BY DEF Failure
  <2>2. CASE GoTo(Failure) /\ UNCHANGED store
    BY <1>8, <2>1, <2>2 DEF PutRun, GoTo
  <2>3. ASSUME NEW outcome \in Outcomes, Recorded(run, outcome),
               worker' = IF outcome = "recorded" THEN "applyRun" ELSE Failure,
               UNCHANGED <<canceled, next, candidate, operations>>
        PROVE  ControlInv'
    <3>1. stored' \in Statuses /\ storePending' \in BOOLEAN /\ stored' # "closed"
      BY <1>8, <2>3 DEF PutRun, Recorded
    <3> QED
      BY <1>8, <2>1, <2>3, <3>1 DEF PutRun
  <2> QED
    BY <1>8, <2>2, <2>3 DEF PutRun
<1>9. CASE ApplyRun
  BY <1>9 DEF ApplyRun, GoTo, Failure
<1>10. CASE Settle
  BY <1>10 DEF Settle, GoTo, Prepare
<1>11. CASE BeginOperation
  BY <1>11 DEF BeginOperation, GoTo
<1>12. CASE OperationEnds
  BY <1>12 DEF OperationEnds, Prepare
<1>13. CASE FinishOperation
  BY <1>13 DEF FinishOperation, GoTo
<1>14. CASE StepFails
  BY <1>14 DEF StepFails, GoTo, Prepare
<1> QED
  BY <1>1, <1>2, <1>3, <1>4, <1>5, <1>6, <1>7, <1>8, <1>9, <1>10, <1>11, <1>12, <1>13, <1>14 DEF WorkerStep

LEMMA CommandKeepsControl == ControlInv /\ CommandStep => ControlInv'
<1> SUFFICES ASSUME ControlInv, CommandStep PROVE ControlInv'
  OBVIOUS
<1> USE DEF ControlInv, ControlTypes, OperationInv, TransitionInv, StopInv, Outside, Inside, OfCandidate,
         OfRun, Drivers, Statuses, control, store, work, driver
<1>1. CASE CommandResume
  BY ZenonT(60), <1>1 DEF CommandResume, GiveCommand, Working
<1>2. CASE CommandPause
  BY <1>2 DEF CommandPause, GiveCommand
<1>3. CASE CommandStop
  BY <1>3 DEF CommandStop, GiveCommand
<1> QED
  BY <1>1, <1>2, <1>3 DEF CommandStep

LEMMA DriverKeepsControl == ControlInv /\ DriverStep => ControlInv'
<1> SUFFICES ASSUME ControlInv, DriverStep PROVE ControlInv'
  OBVIOUS
<1> USE DEF ControlInv, ControlTypes, OperationInv, TransitionInv, StopInv, Outside, Inside, OfCandidate,
         OfRun, Drivers, Statuses, control, store, work, driver
<1>1. CASE Join
  BY <1>1 DEF Join, At, Working
<1>2. CASE BeginTransition
  BY <1>2 DEF BeginTransition, At, MayTransition
<1>3. CASE RefuseCommand
  <2>1. CASE At("drainRefused") /\ canceled' = TRUE /\ goal = "paused" /\ Working
    BY <1>3, <2>1 DEF RefuseCommand, At, MayTransition, Working
  <2>2. CASE Tell("refused") /\ UNCHANGED canceled
    BY <1>3, <2>2 DEF RefuseCommand, Tell, MayTransition
  <2> QED
    BY <1>3, <2>1, <2>2 DEF RefuseCommand
<1>4. CASE AwaitOperation
  BY <1>4 DEF AwaitOperation, At, OperationDone
<1>5. CASE LockTransition
  <2>1. CASE mutex' = TRUE /\ At("record") /\ UNCHANGED transitioning
    BY <1>5, <2>1 DEF LockTransition, At, MayTransition
  <2>2. CASE transitioning' = FALSE /\ Tell("error") /\ UNCHANGED mutex
    <3>1. user' = "prompt" /\ goal' = goal
      BY <2>2 DEF Tell
    <3>2. /\ storePending' \in BOOLEAN /\ transitioning' \in BOOLEAN
          /\ mutex' \in BOOLEAN /\ canceled' \in BOOLEAN
      BY <1>5, <2>2 DEF LockTransition
    <3> QED
      BY <1>5, <2>2, <3>1, <3>2 DEF LockTransition
  <2> QED
    BY <1>5, <2>1, <2>2 DEF LockTransition
<1>6. CASE RecordTransition
  <2>1. PICK outcome \in Outcomes :
          /\ Recorded(goal, outcome)
          /\ IF outcome = "failed"
             THEN Tell("unrecorded") /\ mutex' = FALSE /\ transitioning' = FALSE
             ELSE At(outcome) /\ UNCHANGED <<mutex, transitioning>>
    BY <1>6 DEF RecordTransition
  <2>2. CASE outcome = "failed"
    <3>1. user' = "prompt" /\ goal' = goal
      BY <2>1, <2>2 DEF Tell
    <3>2. UNCHANGED store /\ mutex' = FALSE /\ transitioning' = FALSE
      BY <2>1, <2>2 DEF Recorded
    <3>3. /\ storePending' \in BOOLEAN /\ transitioning' \in BOOLEAN
          /\ mutex' \in BOOLEAN /\ canceled' \in BOOLEAN
      BY <1>6, <3>2 DEF RecordTransition
    <3> QED
      BY <1>6, <3>1, <3>2, <3>3 DEF RecordTransition
  <2>3. CASE outcome \in {"recorded", "unapplied"}
    <3>1. stored' = goal /\ storePending' \in BOOLEAN /\ user' = outcome
          /\ UNCHANGED <<goal, told, mutex, transitioning>>
      BY <2>1, <2>3 DEF Recorded, At
    <3> QED
      BY <1>6, <2>3, <3>1 DEF RecordTransition
  <2> QED
    BY <2>2, <2>3 DEF Outcomes
<1>7. CASE AdoptTransition
  <2>1. CASE Tell("unapplied") /\ UNCHANGED canceled
    <3>1. user' = "prompt" /\ goal' = goal
      BY <2>1 DEF Tell
    <3>2. /\ storePending' \in BOOLEAN /\ transitioning' \in BOOLEAN
          /\ mutex' \in BOOLEAN /\ canceled' \in BOOLEAN
      BY <1>7, <2>1 DEF AdoptTransition
    <3> QED
      BY <1>7, <2>1, <3>1, <3>2 DEF AdoptTransition
  <2>2. CASE At("drain") /\ canceled' = TRUE /\ goal = "paused" /\ Working
    <3>1. /\ storePending' \in BOOLEAN /\ transitioning' \in BOOLEAN
          /\ mutex' \in BOOLEAN /\ canceled' \in BOOLEAN
      BY <1>7, <2>2 DEF AdoptTransition
    <3> QED
      BY <1>7, <2>2, <3>1 DEF AdoptTransition, At, Working
  <2>3. CASE Tell("done") /\ UNCHANGED canceled
    <3>1. user' = "prompt" /\ goal' = goal
      BY <2>3 DEF Tell
    <3>2. /\ storePending' \in BOOLEAN /\ transitioning' \in BOOLEAN
          /\ mutex' \in BOOLEAN /\ canceled' \in BOOLEAN
      BY <1>7, <2>3 DEF AdoptTransition
    <3> QED
      BY <1>7, <2>3, <3>1, <3>2 DEF AdoptTransition
  <2> QED
    BY <1>7, <2>1, <2>2, <2>3 DEF AdoptTransition
<1>8. CASE Drain
  BY <1>8 DEF Drain, Tell, Working
<1>9. CASE DispatchCommand
  BY <1>9 DEF DispatchCommand, At, MayTransition
<1>10. CASE RefuseTransition
  BY <1>10 DEF RefuseTransition, Tell, MayTransition
<1> QED
  BY <1>1, <1>2, <1>3, <1>4, <1>5, <1>6, <1>7, <1>8, <1>9, <1>10 DEF DriverStep

LEMMA ControlInvariant == ControlSpec => []ControlInv
<1>1. ControlInv /\ [ControlNext]_controlVars => ControlInv'
  <2> SUFFICES ASSUME ControlInv, [ControlNext]_controlVars PROVE ControlInv'
    OBVIOUS
  <2>1. CASE WorkerStep
    BY <2>1, WorkKeepsControl
  <2>2. CASE CommandStep
    BY <2>2, CommandKeepsControl
  <2>3. CASE DriverStep
    BY <2>3, DriverKeepsControl
  <2>4. CASE ProcessEnds
    <3>1. /\ storePending' \in BOOLEAN /\ transitioning' \in BOOLEAN
          /\ mutex' \in BOOLEAN /\ canceled' \in BOOLEAN
      BY <2>4 DEF ProcessEnds, ControlInv, ControlTypes, store, control, work
    <3> QED
      BY <2>4, <3>1 DEF ProcessEnds, ControlInv, ControlTypes, OperationInv, TransitionInv, StopInv, Outside, Inside, OfCandidate,
         OfRun, Drivers, Statuses, control, store, work, driver
  <2>5. CASE RecoverRun
    <3>1. /\ storePending' \in BOOLEAN /\ transitioning' \in BOOLEAN
          /\ mutex' \in BOOLEAN /\ canceled' \in BOOLEAN
      BY <2>5 DEF RecoverRun, ControlInv, ControlTypes, store, control, work
    <3> QED
      BY <2>5, <3>1 DEF RecoverRun, ControlInv, ControlTypes, OperationInv, TransitionInv, StopInv, Outside, Inside, OfCandidate,
         OfRun, Drivers, Statuses, control, store, work, driver
  <2>6. CASE UNCHANGED controlVars
    BY <2>6 DEF controlVars, ControlInv, ControlTypes, OperationInv, TransitionInv, StopInv, OfCandidate
  <2> QED
    BY <2>1, <2>2, <2>3, <2>4, <2>5, <2>6 DEF ControlNext
<1> QED
  BY <1>1, InitControl, PTL DEF ControlSpec

(***************************************************************************)
(* What the user is told.                                                  *)
(***************************************************************************)
Answers == {"nothing", "done", "error", "refused", "unapplied", "unrecorded"}
AnswerInv == goal \in {"paused", "closed"} /\ told \in Answers \X {"paused", "closed"}

LEMMA AnswerInvariant == ControlSpec => []AnswerInv
<1>1. ControlInit => AnswerInv
  BY DEF ControlInit, AnswerInv, Answers
<1>2. AnswerInv /\ [ControlNext]_controlVars => AnswerInv'
  <2> SUFFICES ASSUME AnswerInv, [ControlNext]_controlVars PROVE AnswerInv'
    OBVIOUS
  <2>1. CASE WorkerStep \/ RecoverRun \/ UNCHANGED controlVars
    BY <2>1 DEF WorkerStep, ResumeRun, NextStep, Reserve, RecordCandidate, ApplyCandidate,
         AdoptCandidate, ChangeRun, PutRun, ApplyRun, Settle, BeginOperation, OperationEnds,
         FinishOperation, StepFails, RecoverRun, controlVars, driver, AnswerInv
  <2>2. CASE CommandStep \/ ProcessEnds
    BY <2>2 DEF CommandStep, CommandResume, CommandPause, CommandStop, GiveCommand, ProcessEnds,
         AnswerInv, Answers
  <2>3. ASSUME NEW what \in Answers, Tell(what)
        PROVE  AnswerInv'
    BY <2>3 DEF Tell, AnswerInv
  <2>4. ASSUME NEW p, At(p)
        PROVE  AnswerInv'
    BY <2>4 DEF At, AnswerInv
  <2>5. DriverStep => (\E p : At(p)) \/ (\E what \in Answers : Tell(what))
    BY DEF DriverStep, Join, DispatchCommand, BeginTransition, RefuseCommand, RefuseTransition, AwaitOperation, LockTransition,
         RecordTransition, AdoptTransition, Drain, Answers
  <2> QED
    BY <2>1, <2>2, <2>3, <2>4, <2>5 DEF ControlNext
<1> QED
  BY <1>1, <1>2, PTL DEF ControlSpec

(***************************************************************************)
(* The properties of the runs.                                             *)
(***************************************************************************)
\* The variables have their types, an operation is registered only while the
\* work is under way, and the mutex of the control is held only from the copy
\* of the Run to its adoption (user_control.go:144-170).
THEOREM ControlTypeCorrect == ControlSpec => []ControlTypeOK
<1>1. ControlInv /\ AnswerInv => ControlTypeOK
  BY DEF ControlInv, ControlTypes, OperationInv, TransitionInv, AnswerInv, Answers, ControlTypeOK,
         Working, Outside
<1> QED
  BY <1>1, ControlInvariant, AnswerInvariant, PTL

\* A step that starts where the run is closed in the journal.
LEMMA ClosedStays ==
  ControlInv /\ [ControlNext]_controlVars /\ stored = "closed"
    => stored' = "closed" /\ (run = "closed" => run' = "closed")
<1> SUFFICES ASSUME ControlInv, [ControlNext]_controlVars, stored = "closed"
             PROVE  stored' = "closed" /\ (run = "closed" => run' = "closed")
  OBVIOUS
<1>1. worker = "off" /\ user # "record" /\ ~(goal = "paused" /\ user \in {"recorded", "unapplied"} /\ run = "closed")
  BY DEF ControlInv, StopInv
<1>2. ~WorkerStep
  BY <1>1 DEF WorkerStep, ResumeRun, NextStep, Reserve, RecordCandidate, ApplyCandidate,
         AdoptCandidate, ChangeRun, PutRun, ApplyRun, Settle, BeginOperation, OperationEnds,
         FinishOperation, StepFails
<1>3. CASE CommandStep \/ ProcessEnds
  BY <1>3 DEF CommandStep, CommandResume, CommandPause, CommandStop, ProcessEnds, store
<1>4. CASE DriverStep
  BY <1>1, <1>4 DEF DriverStep, Join, DispatchCommand, BeginTransition, RefuseCommand, RefuseTransition, AwaitOperation, LockTransition,
         RecordTransition, AdoptTransition, Drain, store, ControlInv, StopInv
<1>5. ~RecoverRun
  BY DEF RecoverRun
<1> QED
  BY <1>2, <1>3, <1>4, <1>5 DEF ControlNext, controlVars

\* /stop is final, for any number of commands and steps and whatever fails:
\* handle joins the work before the record that closes the run, and neither
\* the driver nor a recovery writes after it (interactive.go, initial_tasks.go).
THEOREM ClosedRunStays == ControlSpec => ClosedIsFinal
<1>1. ControlInv /\ [ControlNext]_controlVars
        => [stored = "closed" => stored' = "closed" /\ (run = "closed" => run' = "closed")]_controlVars
  BY ClosedStays
<1> QED
  BY <1>1, ControlInvariant, PTL DEF ControlSpec, ClosedIsFinal

\* No operation is registered when a transition of the user is recorded: what
\* the canceled operation recorded comes before it (user_control.go:124-170).
THEOREM TransitionsFollowOperations == ControlSpec => TransitionAfterOperation
<1>1. ControlInv
        => [user = "record" /\ user' \in {"recorded", "unapplied"} => registered = "none"]_controlVars
  BY DEF ControlInv, TransitionInv
<1> QED
  BY <1>1, ControlInvariant, PTL DEF TransitionAfterOperation
=============================================================================
