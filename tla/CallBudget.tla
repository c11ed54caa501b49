------------------------------ MODULE CallBudget ------------------------------
(***************************************************************************)
(* What the execution limits of one review promise about provider calls:   *)
(* a ceiling that only ever comes down, calls that are charged one by one  *)
(* while the ceiling has room, and none once the review was cancelled.     *)
(***************************************************************************)
EXTENDS Naturals

CONSTANT Unlimited   \* no ceiling: a Normal-mode review

VARIABLES ceiling, spent, stopped

vars == <<ceiling, spent, stopped>>

Init ==
  /\ ceiling \in Nat \cup {Unlimited}
  /\ spent = 0
  /\ stopped = FALSE

\* One provider call.
Spend ==
  /\ ~stopped
  /\ ceiling # Unlimited => spent < ceiling
  /\ spent' = spent + 1
  /\ UNCHANGED <<ceiling, stopped>>

\* A plan for a large pull request: never a way to raise the ceiling.
Tighten ==
  /\ ceiling' \in Nat
  /\ ceiling # Unlimited => ceiling' < ceiling
  /\ UNCHANGED <<spent, stopped>>

Stop ==
  /\ stopped' = TRUE
  /\ UNCHANGED <<ceiling, spent>>

Next == Spend \/ Tighten \/ Stop

Spec == Init /\ [][Next]_vars
==============================================================================
