-------------------------- MODULE MCCommitProtocol --------------------------
(***************************************************************************)
(* CommitProtocol for TLC, with a bound on how often an execution is       *)
(* disturbed: by the user in the working copy, a crash, a call that fails, *)
(* or a record that is lost or late.                                       *)
(***************************************************************************)
EXTENDS CommitProtocol

CONSTANT MaxDisturbances   \* bound: disturbances of one execution

VARIABLE disturbances

Disturbed ==
  \/ pc' \in {"failed", "stuck", "down"} /\ pc' # pc
  \/ Unattended /\ git' # git

MCInit == Init /\ disturbances = 0

MCNext ==
  /\ Next
  /\ disturbances' = disturbances + (IF Disturbed THEN 1 ELSE 0)

Bounded == disturbances <= MaxDisturbances

MCSpec == MCInit /\ [][MCNext]_<<vars, disturbances>>
=============================================================================
