------------------------ MODULE ReviewExecutionProofs ------------------------
(***************************************************************************)
(* What holds of the execution limits for every number of callers, every   *)
(* ceiling and every bound: the types, the wake-ups, the counters and the  *)
(* refinement of CallBudget.                                               *)
(***************************************************************************)
EXTENDS ReviewExecution, FiniteSetTheorems, TLAPS

-----------------------------------------------------------------------------
(* Types                                                                   *)

LEMMA TypeInit == Init => TypeOK
<1> SUFFICES ASSUME Init PROVE TypeOK
  OBVIOUS
<1>1. ceiling \in Nat \cup {Unlimited}
  BY ExecutionAssumption DEF Init, ExecutionAssumption
<1>2. /\ pc \in [Callers -> Places] /\ permit \in [Callers -> PermitStates]
      /\ attempts \in [Callers -> Nat] /\ turns \in [Callers -> Nat]
  BY DEF Init, Places, PermitStates
<1>3. stale \in [Callers -> BOOLEAN]
  BY DEF Init
<1>4. owner \in [planner: {"idle", "notify"}, fence: {"idle", "notify"}]
  BY DEF Init
<1>5. QED
  BY <1>1, <1>2, <1>3, <1>4 DEF Init, TypeOK

\* One caller moves to a known place, one permit to a known state.
LEMMA CallerType ==
  ASSUME TypeOK, NEW c \in Callers, Begin(c) \/ Proceed(c) \/ GiveUp(c)
  PROVE  TypeOK'
<1>1. CASE Begin(c) \/ RefusedInQueue(c) \/ Refuse(c) \/ Pause(c) \/ GiveUp(c)
  BY <1>1 DEF TypeOK, Begin, RefusedInQueue, Refuse, Pause, GiveUp, Goes,
     limits, Places
<1>2. CASE Reserve(c)
  BY <1>2 DEF TypeOK, Reserve, Goes, Places, PermitStates
<1>3. CASE TakeSlot(c) \/ Sleep(c) \/ Wake(c)
  <2>1. stale' \in [Callers -> BOOLEAN]
    BY <1>3 DEF TypeOK, TakeSlot, Sleep, Wake, Polled
  <2>2. pc' \in [Callers -> Places]
    BY <1>3 DEF TypeOK, TakeSlot, Sleep, Wake, Goes, Places
  <2>3. QED
    BY <1>3, <2>1, <2>2 DEF TypeOK, TakeSlot, Sleep, Wake, limits
<1>4. CASE Commit(c) \/ CommitRefused(c)
  BY <1>4 DEF TypeOK, Commit, CommitRefused, Goes, OneLess, limits, Places,
     PermitStates
<1>5. CASE FirstAttempt(c) \/ RetryAttempt(c) \/ Terminal(c) \/ LetGo(c)
  BY <1>5 DEF TypeOK, FirstAttempt, RetryAttempt, Terminal, LetGo, Goes,
     Charged, limits, Places
<1>6. CASE DropPermit(c)
  BY <1>6 DEF TypeOK, DropPermit, Goes, OneLess, GivesBack, Signals, Places,
     PermitStates
<1>7. CASE Notify(c)
  BY <1>7 DEF TypeOK, Notify, Goes, WakeAll, NextPlace, limits, Places
<1>8. QED
  BY <1>1, <1>2, <1>3, <1>4, <1>5, <1>6, <1>7 DEF Proceed

LEMMA OwnerType ==
  ASSUME TypeOK,
         \/ \E n \in Ceilings : RestrictToLarge(n)
         \/ Cancel \/ SoftDeadline
         \/ \E who \in {"planner", "fence"} : OwnerNotifies(who)
  PROVE  TypeOK'
<1>1. CASE \E n \in Ceilings : RestrictToLarge(n)
  <2>1. PICK n \in Ceilings : RestrictToLarge(n)
    BY <1>1
  <2>2. Tightened(n) \in Nat
    BY ExecutionAssumption DEF ExecutionAssumption, Tightened, TypeOK
  <2>3. owner' \in [planner: {"idle", "notify"}, fence: {"idle", "notify"}]
    BY <2>1 DEF RestrictToLarge, TypeOK
  <2>4. QED
    BY <2>1, <2>2, <2>3 DEF TypeOK, RestrictToLarge
<1>2. CASE Cancel \/ SoftDeadline
  BY <1>2 DEF TypeOK, Cancel, SoftDeadline, limits
<1>3. CASE \E who \in {"planner", "fence"} : OwnerNotifies(who)
  BY <1>3 DEF TypeOK, OwnerNotifies, WakeAll, limits
<1>4. QED
  BY <1>1, <1>2, <1>3

LEMMA TypeStep == TypeOK /\ [Next]_vars => TypeOK'
<1> SUFFICES ASSUME TypeOK, [Next]_vars PROVE TypeOK'
  OBVIOUS
<1>1. CASE UNCHANGED vars
  BY <1>1 DEF TypeOK, vars
<1>2. CASE \E c \in Callers : Begin(c) \/ Proceed(c) \/ GiveUp(c)
  BY <1>2, CallerType
<1>3. CASE ~(\E c \in Callers : Begin(c) \/ Proceed(c) \/ GiveUp(c)) /\ Next
  BY <1>3, OwnerType DEF Next
<1>4. QED
  BY <1>1, <1>2, <1>3 DEF Next

\* The counters stay natural numbers and every caller, permit and notification
\* in a known state (every handler of review_execution.rs).
THEOREM TypeCorrect == Spec => []TypeOK
<1>1. QED
  BY TypeInit, TypeStep, PTL DEF Spec

-----------------------------------------------------------------------------
(* Wake-ups                                                                *)

\* A step that changes what an acquirer would be answered leaves its actor
\* with a notification to send; only a notification or a wake-up touches what
\* a sleeping caller has seen.
LEMMA WakeupStep ==
  ASSUME TypeOK, NoLostWakeup, [Next]_vars
  PROVE  NoLostWakeup'
<1> DEFINE Asleep(c) == pc[c] \in {"pausing", "waiting"}
<1>1. CASE UNCHANGED vars
  BY <1>1 DEF NoLostWakeup, Answerable, BelowCeiling, Room, Notifying, vars
<1>2. ASSUME NEW c \in Callers, Begin(c) \/ Proceed(c) \/ GiveUp(c)
      PROVE  NoLostWakeup'
  <2>1. CASE Begin(c) \/ TakeSlot(c) \/ RefusedInQueue(c) \/ Refuse(c) \/ Wake(c)
               \/ GiveUp(c) \/ CommitRefused(c) \/ FirstAttempt(c)
               \/ Terminal(c) \/ LetGo(c)
    BY <2>1 DEF NoLostWakeup, Answerable, BelowCeiling, Room, Notifying, TypeOK,
       Begin, TakeSlot, RefusedInQueue, Refuse, Wake, GiveUp, CommitRefused,
       FirstAttempt, Terminal, LetGo, Goes, limits
  <2>2. CASE Pause(c) \/ Sleep(c)
    BY <2>2 DEF NoLostWakeup, Answerable, BelowCeiling, Room, Notifying, TypeOK,
       Pause, Sleep, Polled, Open, Goes, limits
  <2>3. CASE Reserve(c)
    <3>1. Answerable' => Answerable
      BY <2>3, ExecutionAssumption DEF Answerable, BelowCeiling, Room, TypeOK,
         Reserve, ExecutionAssumption
    <3>2. Notifying => Notifying'
      BY <2>3 DEF Notifying, TypeOK, Reserve, Goes
    <3>3. QED
      BY <2>3, <3>1, <3>2 DEF NoLostWakeup, TypeOK, Reserve, Goes
  <2>4. CASE Commit(c) \/ RetryAttempt(c)
    <3>1. pc'[c] \in {"committing", "retrying"}
      BY <2>4 DEF Commit, RetryAttempt, Goes, TypeOK
    <3>2. QED
      BY <3>1 DEF NoLostWakeup, Notifying
  <2>5. CASE DropPermit(c)
    <3>1. CASE Signals(c)
      <4>1. pc'[c] = "dropped"
        BY <2>5, <3>1 DEF DropPermit, Goes, TypeOK
      <4>2. QED
        BY <4>1 DEF NoLostWakeup, Notifying
    <3>2. CASE ~Signals(c)
      <4>1. UNCHANGED <<ceiling, committed, reserved, cancelled, stale, owner>>
        BY <2>5, <3>2 DEF DropPermit, Signals
      <4>2. pc' = [pc EXCEPT ![c] = "idle"] /\ pc[c] = "dropping"
        BY <2>5, <3>2 DEF DropPermit, Goes
      <4>3. QED
        BY <4>1, <4>2 DEF NoLostWakeup, Answerable, BelowCeiling, Room,
           Notifying, TypeOK
    <3>3. QED
      BY <3>1, <3>2
  <2>6. CASE Notify(c)
    BY <2>6 DEF NoLostWakeup, Notify, WakeAll
  <2>7. QED
    BY <1>2, <2>1, <2>2, <2>3, <2>4, <2>5, <2>6 DEF Proceed
<1>3. CASE (\E n \in Ceilings : RestrictToLarge(n)) \/ Cancel
  <2>1. owner'.planner = "notify" \/ owner'.fence = "notify"
    BY <1>3 DEF RestrictToLarge, Cancel, TypeOK
  <2>2. QED
    BY <2>1 DEF NoLostWakeup, Notifying
<1>4. CASE \E who \in {"planner", "fence"} : OwnerNotifies(who)
  BY <1>4 DEF NoLostWakeup, OwnerNotifies, WakeAll
<1>5. CASE SoftDeadline
  BY <1>5 DEF NoLostWakeup, Answerable, BelowCeiling, Room, Notifying,
     SoftDeadline, limits
<1>6. QED
  BY <1>1, <1>2, <1>3, <1>4, <1>5 DEF Next

\* No acquirer sleeps through an answer: a change of the limits is always
\* followed by a notification its receiver has yet to see.
THEOREM WakeupsAreNotLost == Spec => []NoLostWakeup
<1>1. Init => NoLostWakeup
  BY DEF Init, NoLostWakeup
<1>2. QED
  BY <1>1, TypeCorrect, WakeupStep, PTL DEF Spec

-----------------------------------------------------------------------------
(* Counters                                                                *)

\* Where a caller is says which state its permit is in.
PermitFits ==
  \A c \in Callers :
    /\ pc[c] \in {"idle", "queued", "checking", "pausing", "waiting", "dropped"}
         => permit[c] = "released"
    /\ pc[c] = "reserved" => permit[c] = "reserved"
    /\ pc[c] \in {"committing", "committed", "retrying", "sending"}
         => permit[c] = "committed"
    /\ pc[c] = "dropping" => permit[c] # "released"

\* Charged calls whose terminal is still to come.
Unsettled ==
  {c \in Callers : \/ pc[c] \in {"committing", "retrying", "sending"}
                   \/ pc[c] = "committed" /\ attempts[c] = 0}
TerminalsCharged == terminals + Cardinality(Unsettled) <= committed

Counted == TypeOK /\ PermitFits /\ ReservationsCounted

\* The sets counted are finite.
LEMMA CountedFinite == /\ IsFiniteSet(Holding) /\ Cardinality(Holding) \in Nat
                       /\ IsFiniteSet(Unsettled) /\ Cardinality(Unsettled) \in Nat
<1>1. Holding \subseteq Callers /\ Unsettled \subseteq Callers
  BY DEF Holding, Unsettled
<1>2. QED
  BY <1>1, ExecutionAssumption, FS_Subset, FS_CardinalityType
     DEF ExecutionAssumption

LEMMA PermitFitsStep ==
  ASSUME TypeOK, PermitFits, [Next]_vars
  PROVE  PermitFits'
<1>1. CASE UNCHANGED vars
  BY <1>1 DEF PermitFits, vars
<1>2. ASSUME NEW c \in Callers, Begin(c) \/ Proceed(c) \/ GiveUp(c)
      PROVE  PermitFits'
  <2>1. CASE Begin(c) \/ TakeSlot(c) \/ RefusedInQueue(c) \/ Refuse(c) \/ Pause(c)
               \/ Sleep(c) \/ Wake(c) \/ GiveUp(c)
    BY <2>1 DEF PermitFits, TypeOK, Begin, TakeSlot, RefusedInQueue, Refuse,
       Pause, Sleep, Wake, GiveUp, Goes, Places
  <2>2. CASE Reserve(c) \/ Commit(c) \/ CommitRefused(c) \/ DropPermit(c)
    BY <2>2 DEF PermitFits, TypeOK, Reserve, Commit, CommitRefused, DropPermit,
       Goes, Places
  <2>3. CASE FirstAttempt(c) \/ RetryAttempt(c) \/ Terminal(c) \/ LetGo(c)
    BY <2>3 DEF PermitFits, TypeOK, FirstAttempt, RetryAttempt, Terminal, LetGo,
       Goes, Places
  <2>4. CASE Notify(c)
    BY <2>4 DEF PermitFits, TypeOK, Notify, NextPlace, Goes, Places
  <2>5. QED
    BY <1>2, <2>1, <2>2, <2>3, <2>4 DEF Proceed
<1>3. CASE \/ \E n \in Ceilings : RestrictToLarge(n)
           \/ Cancel \/ SoftDeadline
           \/ \E who \in {"planner", "fence"} : OwnerNotifies(who)
  BY <1>3 DEF PermitFits, RestrictToLarge, Cancel, SoftDeadline, OwnerNotifies
<1>4. QED
  BY <1>1, <1>2, <1>3 DEF Next

\* A step that leaves every permit alone leaves the reservations alone.
LEMMA ReservationsStep ==
  ASSUME Counted, [Next]_vars
  PROVE  ReservationsCounted'
<1>1. CASE UNCHANGED <<permit, reserved>>
  BY <1>1 DEF Counted, ReservationsCounted, Holding
<1>2. ASSUME NEW c \in Callers, Reserve(c)
      PROVE  ReservationsCounted'
  <2>1. c \notin Holding /\ Holding' = Holding \cup {c}
    BY <1>2 DEF Counted, PermitFits, TypeOK, Holding, Reserve
  <2>2. Cardinality(Holding') = Cardinality(Holding) + 1
    BY <2>1, CountedFinite, FS_AddElement
  <2>3. QED
    BY <1>2, <2>2 DEF Counted, ReservationsCounted, Reserve
<1>3. ASSUME NEW c \in Callers, Commit(c)
             \/ (DropPermit(c) /\ permit[c] # "committed")
      PROVE  ReservationsCounted'
  <2>1. c \in Holding /\ Holding' = Holding \ {c}
    BY <1>3 DEF Counted, PermitFits, TypeOK, Holding, Commit, DropPermit
  <2>2. Cardinality(Holding') = Cardinality(Holding) - 1
        /\ Cardinality(Holding) # 0
    BY <2>1, CountedFinite, FS_RemoveElement, FS_EmptySet
  <2>3. reserved' = OneLess(reserved)
    BY <1>3 DEF Commit, DropPermit, GivesBack
  <2>4. QED
    BY <2>2, <2>3 DEF Counted, ReservationsCounted, OneLess
<1>4. ASSUME NEW c \in Callers,
             CommitRefused(c) \/ (DropPermit(c) /\ permit[c] = "committed")
      PROVE  ReservationsCounted'
  <2>1. Holding' = Holding /\ reserved' = reserved
    BY <1>4 DEF Counted, PermitFits, TypeOK, Holding, CommitRefused, DropPermit,
       GivesBack, limits
  <2>2. QED
    BY <2>1 DEF Counted, ReservationsCounted
<1>5. QED
  <2>1. CASE UNCHANGED vars
    BY <2>1, <1>1 DEF vars
  <2>2. ASSUME NEW c \in Callers, Begin(c) \/ Proceed(c) \/ GiveUp(c)
        PROVE  ReservationsCounted'
    BY <2>2, <1>1, <1>2, <1>3, <1>4 DEF Proceed, Begin, GiveUp, TakeSlot,
       RefusedInQueue, Refuse, Pause, Sleep, Wake, FirstAttempt, RetryAttempt,
       Terminal, LetGo, Notify, limits
  <2>3. CASE \/ \E n \in Ceilings : RestrictToLarge(n)
             \/ Cancel \/ SoftDeadline
             \/ \E who \in {"planner", "fence"} : OwnerNotifies(who)
    BY <2>3, <1>1 DEF RestrictToLarge, Cancel, SoftDeadline, OwnerNotifies, limits
  <2>4. QED
    BY <2>1, <2>2, <2>3 DEF Next

LEMMA CountedInvariant == Spec => []Counted
<1>1. Init => PermitFits
  BY DEF Init, PermitFits
<1>2. Init => ReservationsCounted
  <2> SUFFICES ASSUME Init PROVE ReservationsCounted
    OBVIOUS
  <2>1. Holding = {}
    BY DEF Init, Holding
  <2>2. QED
    BY <2>1, FS_EmptySet DEF Init, ReservationsCounted
<1>3. Counted /\ [Next]_vars => Counted'
  BY TypeStep, PermitFitsStep, ReservationsStep DEF Counted
<1>4. QED
  BY <1>1, <1>2, <1>3, TypeInit, PTL DEF Spec, Counted

\* The reservation counter is the number of permits that are neither
\* committed nor dropped (acquire, mark_dispatched, Drop).
THEOREM ReservationsAreCounted == Spec => []ReservationsCounted
<1>1. Counted => ReservationsCounted
  BY DEF Counted
<1>2. QED
  BY <1>1, CountedInvariant, PTL

-----------------------------------------------------------------------------
(* Reservations are promises                                               *)

\* Someone who holds a reservation makes the counter positive.
LEMMA HoldingCounts ==
  ASSUME Counted, NEW c \in Callers, permit[c] \notin {"committed", "released"}
  PROVE  reserved >= 1
<1>1. c \in Holding
  BY DEF Holding
<1>2. Cardinality(Holding) # 0
  BY <1>1, CountedFinite, FS_EmptySet
<1>3. QED
  BY <1>2, CountedFinite DEF Counted, ReservationsCounted

LEMMA PromiseStep ==
  ASSUME Counted, PromiseKept, [Next]_vars
  PROVE  PromiseKept'
<1>1. CASE UNCHANGED <<ceiling, committed, reserved, permit, squeezed>>
  BY <1>1 DEF PromiseKept
<1>2. ASSUME NEW c \in Callers, Reserve(c)
      PROVE  PromiseKept'
  BY <1>2, ExecutionAssumption DEF PromiseKept, Reserve, Room, Counted, TypeOK,
     ExecutionAssumption
<1>3. ASSUME NEW c \in Callers, Commit(c)
      PROVE  PromiseKept'
  <2>1. reserved >= 1
    BY <1>3, HoldingCounts DEF Commit, Counted, PermitFits
  <2>2. committed' + reserved' = committed + reserved
    BY <1>3, <2>1 DEF Commit, OneLess, Counted, TypeOK
  <2>3. \A d \in Callers : permit'[d] = "call_limit" => permit[d] = "call_limit"
    BY <1>3 DEF Commit, Counted, TypeOK
  <2>4. QED
    BY <1>3, <2>2, <2>3 DEF PromiseKept, Commit
<1>4. ASSUME NEW c \in Callers, CommitRefused(c)
      PROVE  PromiseKept'
  <2>1. reserved >= 1
    BY <1>4, HoldingCounts DEF CommitRefused, Counted, PermitFits
  <2>2. ~squeezed => BelowCeiling
    BY <2>1, ExecutionAssumption DEF PromiseKept, BelowCeiling, Counted, TypeOK,
       ExecutionAssumption
  <2>3. ~squeezed => \A d \in Callers : permit'[d] # "call_limit"
    BY <1>4, <2>2 DEF CommitRefused, PromiseKept, Counted, TypeOK
  <2>4. QED
    BY <1>4, <2>3 DEF PromiseKept, CommitRefused, limits
<1>5. ASSUME NEW c \in Callers, RetryAttempt(c)
      PROVE  PromiseKept'
  BY <1>5, ExecutionAssumption DEF PromiseKept, RetryAttempt, RetryRoom, Room,
     Charged, Counted, TypeOK, ExecutionAssumption
<1>6. ASSUME NEW c \in Callers, DropPermit(c)
      PROVE  PromiseKept'
  <2>1. reserved' <= reserved /\ reserved' \in Nat
    BY <1>6 DEF DropPermit, OneLess, Counted, TypeOK
  <2>2. \A d \in Callers : permit'[d] = "call_limit" => permit[d] = "call_limit"
    BY <1>6 DEF DropPermit, Counted, TypeOK
  <2>3. QED
    BY <1>6, <2>1, <2>2, ExecutionAssumption DEF PromiseKept, DropPermit,
       Counted, TypeOK, ExecutionAssumption
<1>7. ASSUME NEW n \in Ceilings, RestrictToLarge(n)
      PROVE  PromiseKept'
  <2>1. Tightened(n) \in Nat
    BY ExecutionAssumption DEF ExecutionAssumption, Tightened, Counted, TypeOK
  <2>2. ~squeezed' => ~squeezed /\ ~(Tightened(n) < committed + reserved)
    BY <1>7, Zenon DEF RestrictToLarge
  <2>3. Tightened(n) < committed + reserved \/ committed + reserved <= ceiling'
    BY <1>7, <2>1 DEF RestrictToLarge, Counted, TypeOK
  <2>4. UNCHANGED <<committed, reserved, permit>>
    BY <1>7 DEF RestrictToLarge
  <2>5. QED
    BY <2>2, <2>3, <2>4 DEF PromiseKept
<1>8. QED
  <2>1. CASE UNCHANGED vars
    BY <2>1, <1>1 DEF vars
  <2>2. ASSUME NEW c \in Callers, Begin(c) \/ Proceed(c) \/ GiveUp(c)
        PROVE  PromiseKept'
    BY <2>2, <1>1, <1>2, <1>3, <1>4, <1>5, <1>6 DEF Proceed, Begin, GiveUp,
       TakeSlot, RefusedInQueue, Refuse, Pause, Sleep, Wake, FirstAttempt,
       Terminal, LetGo, Notify, limits
  <2>3. CASE \/ Cancel \/ SoftDeadline
             \/ \E who \in {"planner", "fence"} : OwnerNotifies(who)
    BY <2>3, <1>1 DEF Cancel, SoftDeadline, OwnerNotifies, limits
  <2>4. QED
    BY <2>1, <2>2, <2>3, <1>7 DEF Next

\* Unless the ceiling was lowered under it, a reservation is never refused for
\* the ceiling, and calls and reservations fit below it together (acquire,
\* mark_dispatched, mark_physical_attempt).
THEOREM PromisesAreKept == Spec => []PromiseKept
<1>1. Init => PromiseKept
  BY ExecutionAssumption DEF Init, PromiseKept, ExecutionAssumption
<1>2. QED
  BY <1>1, CountedInvariant, PromiseStep, PTL DEF Spec

-----------------------------------------------------------------------------
(* The accounting                                                          *)

\* Whoever sends has counted the attempt.
SendersCounted ==
  \A c \in Callers : pc[c] \in {"retrying", "sending"} => attempts[c] > 0

LEMMA SendersCountedStep ==
  ASSUME TypeOK, SendersCounted, [Next]_vars
  PROVE  SendersCounted'
<1>1. CASE UNCHANGED vars
  BY <1>1 DEF SendersCounted, vars
<1>2. ASSUME NEW c \in Callers, Begin(c) \/ Proceed(c) \/ GiveUp(c)
      PROVE  SendersCounted'
  <2>1. CASE Begin(c) \/ TakeSlot(c) \/ RefusedInQueue(c) \/ Refuse(c) \/ Pause(c)
               \/ Sleep(c) \/ Wake(c) \/ GiveUp(c)
    BY <2>1 DEF SendersCounted, TypeOK, Begin, TakeSlot, RefusedInQueue, Refuse,
       Pause, Sleep, Wake, GiveUp, Goes
  <2>2. CASE Reserve(c) \/ Commit(c) \/ CommitRefused(c) \/ DropPermit(c)
    BY <2>2 DEF SendersCounted, TypeOK, Reserve, Commit, CommitRefused,
       DropPermit, Goes
  <2>3. CASE FirstAttempt(c) \/ RetryAttempt(c) \/ Terminal(c) \/ LetGo(c)
    BY <2>3 DEF SendersCounted, TypeOK, FirstAttempt, RetryAttempt, Terminal,
       LetGo, Goes
  <2>4. CASE Notify(c)
    BY <2>4 DEF SendersCounted, TypeOK, Notify, NextPlace, Goes
  <2>5. QED
    BY <1>2, <2>1, <2>2, <2>3, <2>4 DEF Proceed
<1>3. CASE \/ \E n \in Ceilings : RestrictToLarge(n)
           \/ Cancel \/ SoftDeadline
           \/ \E who \in {"planner", "fence"} : OwnerNotifies(who)
  BY <1>3 DEF SendersCounted, RestrictToLarge, Cancel, SoftDeadline,
     OwnerNotifies
<1>4. QED
  BY <1>1, <1>2, <1>3 DEF Next

\* A caller that is not charged for more, nor reports, owes no more than before.
LEMMA UnsettledShrinks ==
  ASSUME TypeOK, TerminalsCharged, TypeOK', UNCHANGED <<terminals, committed>>,
         Unsettled' \subseteq Unsettled
  PROVE  TerminalsCharged'
<1>1. Cardinality(Unsettled') <= Cardinality(Unsettled)
      /\ Cardinality(Unsettled') \in Nat
  BY CountedFinite, FS_Subset, FS_CardinalityType
<1>2. QED
  BY <1>1, CountedFinite DEF TerminalsCharged, TypeOK

LEMMA TerminalsStep ==
  ASSUME TypeOK, SendersCounted, TerminalsCharged, [Next]_vars
  PROVE  TerminalsCharged'
<1> USE TypeStep
<1>1. ASSUME NEW c \in Callers, Commit(c) \/ RetryAttempt(c)
      PROVE  TerminalsCharged'
  <2>1. c \notin Unsettled
    BY <1>1 DEF Unsettled, Commit, RetryAttempt, TypeOK
  <2>2. Unsettled' = Unsettled \cup {c}
    BY <1>1 DEF Unsettled, Commit, RetryAttempt, Goes, TypeOK
  <2>3. Cardinality(Unsettled') = Cardinality(Unsettled) + 1
    BY <2>1, <2>2, CountedFinite, FS_AddElement
  <2>4. QED
    BY <1>1, <2>3, CountedFinite DEF TerminalsCharged, Commit, RetryAttempt,
       Charged, TypeOK
<1>2. ASSUME NEW c \in Callers, Terminal(c)
      PROVE  TerminalsCharged'
  <2>1. c \in Unsettled /\ attempts[c] # 0
    BY <1>2 DEF Unsettled, Terminal, SendersCounted, TypeOK
  <2>2. Unsettled' = Unsettled \ {c}
    BY <1>2, <2>1 DEF Unsettled, Terminal, Goes, TypeOK
  <2>3. Cardinality(Unsettled') = Cardinality(Unsettled) - 1
    BY <2>1, <2>2, CountedFinite, FS_RemoveElement
  <2>4. QED
    BY <1>2, <2>3, CountedFinite DEF TerminalsCharged, Terminal, limits, TypeOK
<1>3. ASSUME NEW c \in Callers, Begin(c) \/ TakeSlot(c) \/ RefusedInQueue(c)
             \/ Refuse(c) \/ Pause(c) \/ Sleep(c) \/ Wake(c) \/ GiveUp(c)
             \/ CommitRefused(c)
      PROVE  TerminalsCharged'
  <2>1. Unsettled' \subseteq Unsettled
    BY <1>3 DEF Unsettled, TypeOK, Begin, TakeSlot, RefusedInQueue, Refuse,
       Pause, Sleep, Wake, GiveUp, CommitRefused, Goes
  <2>2. UNCHANGED <<terminals, committed>>
    BY <1>3 DEF Begin, TakeSlot, RefusedInQueue, Refuse, Pause, Sleep, Wake,
       GiveUp, CommitRefused, limits
  <2>3. QED
    BY <2>1, <2>2, UnsettledShrinks
<1>4. ASSUME NEW c \in Callers, Reserve(c) \/ DropPermit(c) \/ FirstAttempt(c)
             \/ LetGo(c) \/ Notify(c)
      PROVE  TerminalsCharged'
  <2>1. Unsettled' \subseteq Unsettled
    BY <1>4 DEF Unsettled, TypeOK, Reserve, DropPermit, FirstAttempt, LetGo,
       Notify, NextPlace, Goes
  <2>2. UNCHANGED <<terminals, committed>>
    BY <1>4 DEF Reserve, DropPermit, FirstAttempt, LetGo, Notify, limits
  <2>3. QED
    BY <2>1, <2>2, UnsettledShrinks
<1>5. CASE \/ UNCHANGED vars
           \/ \E n \in Ceilings : RestrictToLarge(n)
           \/ Cancel \/ SoftDeadline
           \/ \E who \in {"planner", "fence"} : OwnerNotifies(who)
  BY <1>5 DEF TerminalsCharged, Unsettled, vars, RestrictToLarge, Cancel,
     SoftDeadline, OwnerNotifies, limits
<1>6. QED
  BY <1>1, <1>2, <1>3, <1>4, <1>5 DEF Next, Proceed

\* The snapshot never calls its accounting complete while a charged call is on
\* its way or in flight (snapshot, mark_dispatched, mark_physical_attempt).
THEOREM CompleteIsSettled == Spec => []CompleteMeansSettled
<1>1. Init => SendersCounted /\ TerminalsCharged
  <2> SUFFICES ASSUME Init PROVE SendersCounted /\ TerminalsCharged
    OBVIOUS
  <2>1. Unsettled = {}
    BY DEF Init, Unsettled
  <2>2. QED
    BY <2>1, FS_EmptySet DEF Init, SendersCounted, TerminalsCharged
<1>2. TypeOK /\ TerminalsCharged => CompleteMeansSettled
  <2> SUFFICES ASSUME TypeOK, TerminalsCharged, committed = terminals
               PROVE  Unsettled = {}
    BY DEF CompleteMeansSettled, Unsettled
  <2>1. Cardinality(Unsettled) = 0
    BY CountedFinite DEF TerminalsCharged, TypeOK
  <2>2. QED
    BY <2>1, CountedFinite, FS_EmptySet
<1>3. QED
  BY <1>1, <1>2, TypeCorrect, SendersCountedStep, TerminalsStep, PTL DEF Spec

-----------------------------------------------------------------------------
(* Refinement                                                              *)

LEMMA BudgetStep ==
  ASSUME TypeOK, [Next]_vars
  PROVE  [Budget!Next]_(Budget!vars)
<1> USE DEF Budget!vars
<1>1. CASE UNCHANGED <<ceiling, committed, cancelled>>
  BY <1>1
<1>2. ASSUME NEW c \in Callers, Commit(c) \/ RetryAttempt(c)
      PROVE  Budget!Spend
  BY <1>2, ExecutionAssumption DEF Budget!Spend, Commit, RetryAttempt,
     RetryRoom, Room, BelowCeiling, Open, Charged, TypeOK, ExecutionAssumption
<1>3. ASSUME NEW n \in Ceilings, RestrictToLarge(n)
      PROVE  Budget!Tighten
  BY <1>3, ExecutionAssumption DEF Budget!Tighten, RestrictToLarge, Tightened,
     TypeOK, ExecutionAssumption
<1>4. CASE Cancel
  BY <1>4 DEF Cancel, Budget!Stop, Budget!Next
<1>5. QED
  <2>1. CASE UNCHANGED vars
    BY <2>1, <1>1 DEF vars
  <2>2. ASSUME NEW c \in Callers, Begin(c) \/ Proceed(c) \/ GiveUp(c)
        PROVE  [Budget!Next]_(Budget!vars)
    <3>1. CASE Commit(c) \/ RetryAttempt(c)
      BY <3>1, <1>2 DEF Budget!Next
    <3>2. CASE ~(Commit(c) \/ RetryAttempt(c))
      BY <2>2, <3>2, <1>1 DEF Proceed, Begin, GiveUp, TakeSlot, RefusedInQueue,
         Refuse, Reserve, Pause, Sleep, Wake, CommitRefused, FirstAttempt,
         Terminal, LetGo, DropPermit, Notify, limits
    <3>3. QED
      BY <3>1, <3>2
  <2>3. CASE \/ SoftDeadline
             \/ \E who \in {"planner", "fence"} : OwnerNotifies(who)
    BY <2>3, <1>1 DEF SoftDeadline, OwnerNotifies, limits
  <2>4. QED
    BY <2>1, <2>2, <2>3, <1>3, <1>4 DEF Next, Budget!Next

\* The limits implement CallBudget: a ceiling that only comes down, calls
\* charged one by one while it has room, none once cancelled (mark_dispatched,
\* mark_physical_attempt, restrict_to_large, cancel).
THEOREM BudgetIsImplemented == Spec => ImplementsBudget
<1>1. Init => Budget!Init
  BY ExecutionAssumption DEF Init, Budget!Init, ExecutionAssumption
<1>2. QED
  BY <1>1, TypeCorrect, BudgetStep, PTL DEF Spec, ImplementsBudget, Budget!Spec

\* After a cancellation no call is committed any more (cancel,
\* mark_dispatched, mark_physical_attempt).
THEOREM CancelledIsFree == Spec => CancelledSpendsNothing
<1>1. ASSUME TypeOK, [Next]_vars
      PROVE  [cancelled => committed' = committed]_vars
  <2>1. [Budget!Next]_(Budget!vars)
    BY <1>1, BudgetStep
  <2>2. QED
    BY <2>1 DEF Budget!Next, Budget!Spend, Budget!Tighten, Budget!Stop,
       Budget!vars
<1>2. QED
  BY <1>1, TypeCorrect, PTL DEF Spec, CancelledSpendsNothing
=============================================================================
