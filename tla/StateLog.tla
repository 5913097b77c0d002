------------------------------ MODULE StateLog ------------------------------
(***************************************************************************)
(* What the durable state of a run promises its controller, whatever the   *)
(* store does inside: snapshots are recorded one after the other, each at  *)
(* most once; a promised snapshot is never lost, and external work is      *)
(* dispatched at most once for a snapshot, only when that snapshot is the  *)
(* last one recorded and is promised.  A snapshot that was written but not *)
(* promised may turn out recorded or lost.                                 *)
(*                                                                         *)
(* A snapshot is a natural number: a later snapshot has a greater number.  *)
(***************************************************************************)
EXTENDS Naturals, Sequences

CONSTANT Snapshots  \* the snapshots a run may have, a set of numbers

VARIABLES
  log,        \* the promised snapshots
  tail,       \* snapshots written after them whose fate is open
  dispatched  \* the snapshots external work was dispatched for, in order

logVars == <<log, tail, dispatched>>

Written == log \o tail
Greatest(s) == s[Len(s)]

Init == log = <<1>> /\ tail = <<>> /\ dispatched = <<>>

Write ==
  /\ \E v \in Snapshots : v > Greatest(Written) /\ tail' = Append(tail, v)
  /\ UNCHANGED <<log, dispatched>>

Promise ==
  /\ tail # <<>>
  /\ log' = Written /\ tail' = <<>>
  /\ UNCHANGED dispatched

Lose ==
  /\ \E n \in 0 .. Len(tail) - 1 : tail' = SubSeq(tail, 1, n)
  /\ UNCHANGED <<log, dispatched>>

Dispatch ==
  /\ tail = <<>>
  /\ dispatched = <<>> \/ Greatest(dispatched) < Greatest(log)
  /\ dispatched' = Append(dispatched, Greatest(log))
  /\ UNCHANGED <<log, tail>>

Next == Write \/ Promise \/ Lose \/ Dispatch

Spec == Init /\ [][Next]_logVars
=============================================================================
