CONSTANTS
  p1 = p1
  ha = ha
  hb = hb
  i1 = i1
  i2 = i2
  w1 = w1
  w2 = w2
  o1 = o1
  d1 = d1
  d2 = d2
  PRs = {p1}
  Heads = {ha, hb}
  Ids = {i1, i2}
  Requests <- TwoDeliveries
  Batches <- NoBatches
  Workers = {w1}
  Drainers = {d1}
  OwnerOf <- OneProcess
  RunLimit = 1
  MaxUnfinished = 2
  MaxReservations = 20
  MaxStatusRecords = 4
  MaxPaid = 1
  MaxRefunds = 1
  WeekPasses = FALSE
  EarlyRetries = {"pending", "terminal"}
  EarlyEnds = TRUE
  MaxGen = 1
  MaxEpoch = 1
  MaxWrites = 1
  None = None
  NoHead = NoHead
SPECIFICATION Spec
INVARIANTS PublicationRetained
CHECK_DEADLOCK FALSE
