------------------------- MODULE MCCheckSettlement -------------------------
(***************************************************************************)
(* Instances of CheckSettlement: a job that passes or fails, and two       *)
(* deliveries handled at once.                                             *)
(***************************************************************************)
EXTENDS CheckSettlement, TLC

CONSTANTS unit, h1, h2

\* A skip that does not fail the lane is a pass.
MCOutcomes == {"passed", "failed"}
MCFailOn == {"failed"}
Symmetry == Permutations(Handlers)
=============================================================================
