------------------------ MODULE MCReviewPublication ------------------------
(***************************************************************************)
(* Instances of ReviewPublication: a finding that blocks, one that fails   *)
(* its lane without blocking.                                              *)
(***************************************************************************)
EXTENDS ReviewPublication

CONSTANTS red, amber

BothFindings == {red, amber}
RedFinding == {red}
=============================================================================
