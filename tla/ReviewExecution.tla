--------------------------- MODULE ReviewExecution ---------------------------
(***************************************************************************)
(* The execution limits of one review, src/src/app/review_execution.rs:    *)
(* every provider call of its concurrent lanes and agents first takes a    *)
(* dispatch slot (BoundedExecutionControl), then a permit against the      *)
(* review's call ceiling (ReviewExecution::acquire), commits it, and       *)
(* charges each further physical attempt.  Callers sleep while             *)
(* reservations fill the ceiling; a watch channel wakes them.              *)
(*                                                                         *)
(* Each step of a caller is one critical section of the state mutex, or    *)
(* one access to the watch channel or the semaphore: the code unlocks the  *)
(* state before it notifies, and the model does too.                       *)
(***************************************************************************)
EXTENDS Naturals, FiniteSets

CONSTANTS
  Callers,       \* concurrent model calls of the review
  Slots,         \* MAX_CONCURRENT_MODEL_DISPATCHES
  Ceilings,      \* call ceilings the options or a Large plan may set
  Unlimited,     \* max_calls is None
  \* Bounds of the model, not of the code.
  MaxTurns,      \* acquisitions of one caller
  MaxAttempts    \* physical attempts through one permit

ASSUME ExecutionAssumption ==
  /\ IsFiniteSet(Callers)
  /\ Slots \in Nat \ {0}
  /\ Ceilings \subseteq Nat
  /\ Unlimited \notin Nat
  /\ MaxTurns \in Nat /\ MaxAttempts \in Nat

VARIABLES
  ceiling,    \* ExecutionState.max_calls
  committed,  \* ExecutionState.committed_calls
  reserved,   \* ExecutionState.reserved_calls
  cancelled,  \* ExecutionState.cancelled
  terminals,  \* terminal_count of the physical accounting
  late,       \* the soft deadline has passed
  pc,         \* where each caller is
  permit,     \* state of each caller's ReviewDispatchPermit
  attempts,   \* its physical_attempts
  stale,      \* the caller's watch receiver has not seen the last change
  owner,      \* planner and fence: "idle", or "notify" before send_modify
  turns,      \* acquisitions begun
  squeezed    \* history: a ceiling was set below committed + reserved

limits == <<ceiling, committed, reserved, cancelled>>
vars == <<ceiling, committed, reserved, cancelled, terminals, late, pc, permit,
          attempts, stale, owner, turns, squeezed>>

\* pausing: the check found no room and the caller has yet to poll the watch
\* channel.  committing, retrying, dropped: the state is unlocked and
\* send_modify comes next.
Places == {"idle", "queued", "checking", "pausing", "waiting", "reserved",
           "committing", "committed", "retrying", "sending", "dropping",
           "dropped"}
\* The states of ReviewDispatchPermit; "released" also when there is none.
PermitStates == {"reserved", "committed", "refused", "cancelled",
                 "call_limit", "released"}

-----------------------------------------------------------------------------
(* Helpers                                                                 *)

\* Some call may still be committed.
BelowCeiling == ceiling # Unlimited => committed < ceiling
\* Mutant: reservations of other callers may be taken.
RoomBesideCommitted == BelowCeiling
\* No committed call and no reservation fills the ceiling.
Room == ceiling # Unlimited => committed + reserved < ceiling

\* Mutant: a cancelled review goes on until the soft deadline.
OpenUntilDeadline == ~late
\* New work is neither fenced off nor too late.
Open == ~cancelled /\ ~late

\* saturating_sub(1)
OneLess(n) == IF n = 0 THEN 0 ELSE n - 1

\* Callers that hold a slot of the dispatch semaphore.
Dispatching == {c \in Callers : pc[c] \notin {"idle", "queued"}}
Goes(c, place) == pc' = [pc EXCEPT ![c] = place]

-----------------------------------------------------------------------------
(* BoundedExecutionControl::acquire                                        *)

Begin(c) ==
  /\ pc[c] = "idle" /\ turns[c] < MaxTurns
  /\ turns' = [turns EXCEPT ![c] = @ + 1]
  /\ Goes(c, "queued")
  /\ UNCHANGED <<limits, terminals, late, permit, attempts, stale, owner,
                 squeezed>>

\* A slot is free; ReviewExecution::acquire subscribes to the watch channel.
\* A cancellation in between is noticed by the check that follows.
TakeSlot(c) ==
  /\ pc[c] = "queued" /\ ~late
  /\ Cardinality(Dispatching) < Slots
  /\ Goes(c, "checking")
  /\ stale' = [stale EXCEPT ![c] = FALSE]
  /\ UNCHANGED <<limits, terminals, late, permit, attempts, owner, turns,
                 squeezed>>

\* Cancelled, or past the soft deadline, before a slot was free.
RefusedInQueue(c) ==
  /\ pc[c] = "queued" /\ (cancelled \/ late)
  /\ Goes(c, "idle")
  /\ UNCHANGED <<limits, terminals, late, permit, attempts, stale, owner,
                 turns, squeezed>>

-----------------------------------------------------------------------------
(* ReviewExecution::acquire                                                *)

\* Cancelled, SoftDeadline or CallLimit: the slot is given back.
Refuse(c) ==
  /\ pc[c] = "checking"
  /\ cancelled \/ late \/ ~BelowCeiling
  /\ Goes(c, "idle")
  /\ UNCHANGED <<limits, terminals, late, permit, attempts, stale, owner,
                 turns, squeezed>>

Reserve(c) ==
  /\ pc[c] = "checking"
  /\ Open /\ BelowCeiling /\ Room
  /\ reserved' = reserved + 1
  /\ permit' = [permit EXCEPT ![c] = "reserved"]
  /\ attempts' = [attempts EXCEPT ![c] = 0]
  /\ Goes(c, "reserved")
  /\ UNCHANGED <<ceiling, committed, cancelled, terminals, late, stale, owner,
                 turns, squeezed>>

Pause(c) ==
  /\ pc[c] = "checking"
  /\ Open /\ BelowCeiling /\ ~Room
  /\ Goes(c, "pausing")
  /\ UNCHANGED <<limits, terminals, late, permit, attempts, stale, owner,
                 turns, squeezed>>

\* Mutant: the receiver subscribes only now.
Resubscribed(c) == [stale EXCEPT ![c] = FALSE]
\* changed() was created before the check: what happened since still counts.
Polled(c) == stale
Sleep(c) ==
  /\ pc[c] = "pausing"
  /\ stale' = Polled(c)
  /\ Goes(c, "waiting")
  /\ UNCHANGED <<limits, terminals, late, permit, attempts, owner, turns,
                 squeezed>>

\* The watch channel changed, or the soft deadline passed.
Wake(c) ==
  /\ pc[c] = "waiting"
  /\ \/ stale[c] /\ stale' = [stale EXCEPT ![c] = FALSE]
     \/ late /\ UNCHANGED stale
  /\ Goes(c, "checking")
  /\ UNCHANGED <<limits, terminals, late, permit, attempts, owner, turns,
                 squeezed>>

\* The call's future is dropped while it waits for a slot or for room.
GiveUp(c) ==
  /\ pc[c] \in {"queued", "waiting"}
  /\ Goes(c, "idle")
  /\ UNCHANGED <<limits, terminals, late, permit, attempts, stale, owner,
                 turns, squeezed>>

-----------------------------------------------------------------------------
(* ReviewDispatchPermit                                                    *)

\* mark_dispatched of a reserved permit, after waiting for money.
Commit(c) ==
  /\ pc[c] = "reserved"
  /\ Open /\ BelowCeiling
  /\ reserved' = OneLess(reserved)
  /\ committed' = committed + 1
  /\ permit' = [permit EXCEPT ![c] = "committed"]
  /\ Goes(c, "committing")
  /\ UNCHANGED <<ceiling, cancelled, terminals, late, attempts, stale, owner,
                 turns, squeezed>>

CommitRefused(c) ==
  /\ pc[c] = "reserved"
  /\ cancelled \/ late \/ ~BelowCeiling
  /\ permit' = [permit EXCEPT ![c] = IF cancelled THEN "cancelled"
                                     ELSE IF late THEN "refused"
                                     ELSE "call_limit"]
  /\ Goes(c, "dropping")
  /\ UNCHANGED <<limits, terminals, late, attempts, stale, owner, turns,
                 squeezed>>

\* mark_physical_attempt: the first attempt uses the committed slot.
FirstAttempt(c) ==
  /\ pc[c] = "committed" /\ attempts[c] = 0
  /\ Open
  /\ attempts' = [attempts EXCEPT ![c] = 1]
  /\ Goes(c, "sending")
  /\ UNCHANGED <<limits, terminals, late, permit, stale, owner, turns,
                 squeezed>>

\* Mutant: only the permit is charged, however often it sends.
Uncharged == committed
\* Every later attempt is a call of its own.
Charged == committed + 1
RetryRoom == Room
RetryAttempt(c) ==
  /\ pc[c] = "committed" /\ attempts[c] > 0 /\ attempts[c] < MaxAttempts
  /\ Open /\ RetryRoom
  /\ committed' = Charged
  /\ attempts' = [attempts EXCEPT ![c] = @ + 1]
  /\ Goes(c, "retrying")
  /\ UNCHANGED <<ceiling, reserved, cancelled, terminals, late, permit, stale,
                 owner, turns, squeezed>>

\* The provider answered, failed, or the call was cancelled in flight:
\* on_terminal records it.
Terminal(c) ==
  /\ pc[c] = "sending"
  /\ terminals' = terminals + 1
  /\ Goes(c, "committed")
  /\ UNCHANGED <<limits, late, permit, attempts, stale, owner, turns, squeezed>>

\* The call is over, an attempt was refused, or its future is dropped while it
\* waits for money.
LetGo(c) ==
  /\ pc[c] \in {"reserved", "committed"}
  /\ Goes(c, "dropping")
  /\ UNCHANGED <<limits, terminals, late, permit, attempts, stale, owner,
                 turns, squeezed>>

\* Mutant: an abandoned reservation wakes nobody.
SignalsNever(c) == FALSE
\* Mutant: a committed call is refunded too.
GivesBackAlways(c) == TRUE
\* Only a permit that was not committed gives its reservation back.
GivesBack(c) == permit[c] # "committed"
Signals(c) == GivesBack(c)

\* Drop for ReviewDispatchPermit, then the slot.
DropPermit(c) ==
  /\ pc[c] = "dropping"
  /\ reserved' = IF GivesBack(c) THEN OneLess(reserved) ELSE reserved
  /\ permit' = [permit EXCEPT ![c] = "released"]
  /\ Goes(c, IF Signals(c) THEN "dropped" ELSE "idle")
  /\ UNCHANGED <<ceiling, committed, cancelled, terminals, late, attempts,
                 stale, owner, turns, squeezed>>

\* send_modify: every receiver has a change to see.
WakeAll == stale' = [c \in Callers |-> TRUE]
NextPlace(place) ==
  CASE place = "committing" -> "committed"
    [] place = "retrying"   -> "sending"
    [] place = "dropped"    -> "idle"
Notify(c) ==
  /\ pc[c] \in {"committing", "retrying", "dropped"}
  /\ WakeAll
  /\ Goes(c, NextPlace(pc[c]))
  /\ UNCHANGED <<limits, terminals, late, permit, attempts, owner, turns,
                 squeezed>>

-----------------------------------------------------------------------------
(* The review that owns the scope                                          *)

\* Mutant: a later plan replaces the ceiling.
LatestCeiling(n) == n
\* restrict_to_large never raises a ceiling.
Tightened(n) == IF ceiling # Unlimited /\ ceiling < n THEN ceiling ELSE n

RestrictToLarge(n) ==
  /\ owner.planner = "idle"
  /\ Tightened(n) # ceiling
  /\ ceiling' = Tightened(n)
  /\ squeezed' = (squeezed \/ Tightened(n) < committed + reserved)
  /\ owner' = [owner EXCEPT !.planner = "notify"]
  /\ UNCHANGED <<committed, reserved, cancelled, terminals, late, pc, permit,
                 attempts, stale, turns>>

Cancel ==
  /\ owner.fence = "idle" /\ ~cancelled
  /\ cancelled' = TRUE
  /\ owner' = [owner EXCEPT !.fence = "notify"]
  /\ UNCHANGED <<ceiling, committed, reserved, terminals, late, pc, permit,
                 attempts, stale, turns, squeezed>>

OwnerNotifies(who) ==
  /\ owner[who] = "notify"
  /\ WakeAll
  /\ owner' = [owner EXCEPT ![who] = "idle"]
  /\ UNCHANGED <<limits, terminals, late, pc, permit, attempts, turns, squeezed>>

SoftDeadline ==
  /\ ~late
  /\ late' = TRUE
  /\ UNCHANGED <<limits, terminals, pc, permit, attempts, stale, owner, turns,
                 squeezed>>

-----------------------------------------------------------------------------
(* Specification                                                           *)

Init ==
  /\ ceiling \in Ceilings \cup {Unlimited}
  /\ committed = 0 /\ reserved = 0 /\ terminals = 0
  /\ cancelled = FALSE /\ late = FALSE /\ squeezed = FALSE
  /\ pc = [c \in Callers |-> "idle"]
  /\ permit = [c \in Callers |-> "released"]
  /\ attempts = [c \in Callers |-> 0]
  /\ stale = [c \in Callers |-> FALSE]
  /\ owner = [planner |-> "idle", fence |-> "idle"]
  /\ turns = [c \in Callers |-> 0]

\* What a caller does once it asked for a permit.
Proceed(c) ==
  \/ TakeSlot(c) \/ RefusedInQueue(c) \/ Refuse(c) \/ Reserve(c) \/ Pause(c)
  \/ Sleep(c) \/ Wake(c) \/ Commit(c) \/ CommitRefused(c) \/ FirstAttempt(c)
  \/ RetryAttempt(c) \/ Terminal(c) \/ LetGo(c) \/ DropPermit(c) \/ Notify(c)

Next ==
  \/ \E c \in Callers : Begin(c) \/ Proceed(c) \/ GiveUp(c)
  \/ \E n \in Ceilings : RestrictToLarge(n)
  \/ Cancel
  \/ \E who \in {"planner", "fence"} : OwnerNotifies(who)
  \/ SoftDeadline

Spec == Init /\ [][Next]_vars

\* Tasks run and provider calls end: each is under a timeout of its own.  No
\* new call has to begin, no review has to be cancelled, and the soft deadline
\* need not come.
Fairness ==
  /\ \A c \in Callers : WF_vars(Proceed(c))
  /\ \A who \in {"planner", "fence"} : WF_vars(OwnerNotifies(who))

FairSpec == Spec /\ Fairness

-----------------------------------------------------------------------------
(* Properties                                                              *)

TypeOK ==
  /\ ceiling \in Nat \cup {Unlimited}
  /\ committed \in Nat /\ reserved \in Nat /\ terminals \in Nat
  /\ cancelled \in BOOLEAN /\ late \in BOOLEAN /\ squeezed \in BOOLEAN
  /\ pc \in [Callers -> Places]
  /\ permit \in [Callers -> PermitStates]
  /\ attempts \in [Callers -> Nat]
  /\ stale \in [Callers -> BOOLEAN]
  /\ owner \in [planner: {"idle", "notify"}, fence: {"idle", "notify"}]
  /\ turns \in [Callers -> Nat]

\* The reservation counter is exactly the permits handed out, neither
\* committed nor dropped: no saturating_sub ever hides a lost or a double
\* release (acquire, mark_dispatched, Drop).
Holding == {c \in Callers : permit[c] \notin {"committed", "released"}}
ReservationsCounted == reserved = Cardinality(Holding)

\* A reserved call is never refused for the ceiling unless the ceiling itself
\* was lowered under it: retries of other calls leave its place alone
\* (mark_physical_attempt).
PromiseKept ==
  ~squeezed =>
    /\ ceiling # Unlimited => committed + reserved <= ceiling
    /\ \A c \in Callers : permit[c] # "call_limit"

\* No caller sleeps while an answer is there for it and nobody is about to
\* wake it (acquire creates changed() before it checks; mark_dispatched, Drop,
\* cancel and restrict_to_large notify after they unlock).
Answerable == cancelled \/ ~BelowCeiling \/ Room
Notifying ==
  \/ \E c \in Callers : pc[c] \in {"committing", "retrying", "dropped"}
  \/ owner.planner = "notify" \/ owner.fence = "notify"
NoLostWakeup ==
  \A c \in Callers :
    pc[c] \in {"pausing", "waiting"} /\ Answerable => stale[c] \/ Notifying

\* The snapshot calls its accounting complete only when no charged call is
\* still on its way or in flight: retries cannot make up for a missing
\* terminal (snapshot, mark_physical_attempt).
CompleteMeansSettled ==
  committed = terminals =>
    \A c \in Callers : pc[c] \notin {"committing", "retrying", "sending"}

\* A refund after a fence reads the committed calls once; from then on none of
\* the callers still running may commit another (cancel, mark_dispatched,
\* mark_physical_attempt; routes.rs review_with_refundable_paid_budget).
CancelledSpendsNothing == [][cancelled => committed' = committed]_vars

\* The limits implement CallBudget.
Budget == INSTANCE CallBudget WITH spent <- committed, stopped <- cancelled
ImplementsBudget == Budget!Spec

\* Every request for a permit is answered, with or without the soft deadline.
AcquireAnswered ==
  \A c \in Callers :
    pc[c] \in {"queued", "checking", "pausing", "waiting"}
      ~> pc[c] \in {"reserved", "idle"}
==============================================================================
