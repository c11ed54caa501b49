-------------------------- MODULE MCReviewExecution --------------------------
(***************************************************************************)
(* Instances of ReviewExecution for TLC.                                   *)
(***************************************************************************)
EXTENDS ReviewExecution

CONSTANTS c1, c2, c3

==============================================================================
