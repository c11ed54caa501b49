CONSTANTS
  p1 = p1
  ha = ha
  hb = hb
  i1 = i1
  i2 = i2
  w1 = w1
  w2 = w2
  o1 = o1
  d1 = d1
  d2 = d2
  PRs = {p1}
  Heads = {ha, hb}
  Ids = {i1, i2}
  Requests <- TwoDeliveries
  Batches <- OneFull
  Workers = {w1, w2}
  Drainers = {d1}
  OwnerOf <- OneProcess
  RunLimit = 1
  MaxUnfinished = 2
  MaxReservations = 20
  MaxStatusRecords = 3
  MaxPaid = 1
  MaxRefunds = 1
  WeekPasses = FALSE
  EarlyRetries = {"terminal"}
  EarlyEnds = FALSE
  MaxGen = 1
  MaxEpoch = 2
  MaxWrites = 1
  None = None
  NoHead = NoHead
SYMMETRY Slots
SPECIFICATION Spec
CHECK_DEADLOCK FALSE
INVARIANTS AcceptedOnce SpendBounded NoQueuedPostOnReviewedHead RunningBounded
PROPERTIES AckedNeverLost ReviewedStaysReviewed
