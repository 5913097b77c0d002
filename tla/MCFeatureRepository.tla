------------------------ MODULE MCFeatureRepository ------------------------
(***************************************************************************)
(* FeatureRepository on two features, with a bound on what disturbs their  *)
(* operations.                                                             *)
(***************************************************************************)
EXTENDS FeatureRepository

CONSTANT First

ASSUME FirstAssumption == First \in Features

\* Nothing tells the features apart before one of them is created: the runs
\* in which the other one is first are those of FirstCreated, renamed.
FirstCreated == dir = {} \/ First \in dir

\* One fault with all the saves, or two faults - the second may hit what the
\* first one left - with at most one save, while a transaction knows of it.
Disturbances ==
    \/ faults < 2
    \/ edits = 0
    \/ edits = 1 /\ touched # {}

Scenarios == FirstCreated /\ Disturbances
=============================================================================
