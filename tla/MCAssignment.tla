---------------------------- MODULE MCAssignment ----------------------------
(***************************************************************************)
(* A small instance of Assignment.                                         *)
(***************************************************************************)
EXTENDS Assignment

OneEach == [c \in Counters |-> 1]
TwoReviews == [c \in Counters |-> IF c = "review" THEN 2 ELSE 1]
=============================================================================
