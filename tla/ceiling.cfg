CONSTANTS
  c1 = c1
  c2 = c2
  c3 = c3
  Callers = {c1, c2, c3}
  Slots = 2
  Ceilings = {1, 2, 3}
  Unlimited = Unlimited
  MaxTurns = 1
  MaxAttempts = 2
SPECIFICATION FairSpec
INVARIANTS ReservationsCounted PromiseKept NoLostWakeup CompleteMeansSettled
PROPERTIES CancelledSpendsNothing ImplementsBudget AcquireAnswered
CHECK_DEADLOCK FALSE
