-------------------------- MODULE MCReviewScheduler --------------------------
(***************************************************************************)
(* Instances of ReviewScheduler for TLC: the requests, the manual batches  *)
(* and the process identities the configurations choose from.              *)
(***************************************************************************)
EXTENDS ReviewScheduler

CONSTANTS p1, ha, hb, i1, i2, w1, w2, o1, d1, d2

Push(id, h) == [id |-> id, pr |-> p1, mode |-> "incremental", head |-> h,
                explicit |-> FALSE]
Comment(id) == [id |-> id, pr |-> p1, mode |-> "incremental",
                head |-> NoHead, explicit |-> TRUE]
Full(id, h) == [id |-> id, pr |-> p1, mode |-> "full", head |-> h,
                explicit |-> FALSE]

\* Every slot belongs to one process: only generations tell them apart.
OneProcess == [w \in Workers |-> o1]

\* One push; the live head may turn out to be any head.
OnePush == {Push(i1, ha)}
\* A push of head ha; then a push of head hb, or a comment.
TwoDeliveries == {Push(i1, ha), Push(i2, hb), Comment(i2)}
NoBatches == {}
\* A manual review of one pull request.
OneFull == {<<Full(i2, ha)>>}

Slots == Permutations({w1, w2})
==============================================================================
