-------------------------- MODULE MCReviewOwnership --------------------------
(***************************************************************************)
(* Instances of ReviewOwnership for TLC: one claim slot of each of two      *)
(* processes.                                                              *)
(***************************************************************************)
EXTENDS ReviewOwnership, TLC

CONSTANTS w1, w2, o1, o2

TwoProcesses == w1 :> o1 @@ w2 :> o2
Processes ==
  {p \in Permutations({w1, w2, o1, o2}) :
     \A w \in {w1, w2} : p[w] \in {w1, w2} /\ p[TwoProcesses[w]] = TwoProcesses[p[w]]}

\* Of a call only what its next steps use, and of a revision only whether it is
\* still the document's: revisions grow, so one that differs now always will.
Began(k) == IF k.op = "renew" THEN k.since ELSE 0
Rest(k) ==
  CASE k.op = "none"    -> <<>>
    [] k.at = "reading" -> <<Began(k), k.gen, k.tries>>
    [] k.at = "timing"  ->
         <<Began(k), k.gen, k.tries, k.seen, k.op = "owns" \/ k.rev = revision>>
    [] k.at = "writing" ->
         IF k.rev = revision THEN <<Began(k), k.gen, k.tries, k.now, k.next>>
         ELSE <<Began(k), k.gen, k.tries>>
    [] k.at = "replying" ->
         <<Began(k), k.answer, IF k.op = "claim" THEN k.next.gen ELSE 0>>
    [] OTHER -> <<>>
View ==
  <<lease, clock, drift, time, worker,
    [c \in Callers |-> <<call[c].op, call[c].at, Rest(call[c])>>],
    {a \in adrift : a.rev = revision}>>
==============================================================================
