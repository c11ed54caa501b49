CONSTANTS
  p1 = p1
  ha = ha
  hb = hb
  i1 = i1
  i2 = i2
  w1 = w1
  w2 = w2
  o1 = o1
  d1 = d1
  d2 = d2
  PRs = {p1}
  Heads = {ha, hb}
  Ids = {i1}
  Requests <- OnePush
  Batches <- NoBatches
  Workers = {w1, w2}
  Drainers = {d1}
  OwnerOf <- OneProcess
  RunLimit = 1
  MaxUnfinished = 2
  MaxReservations = 4
  MaxStatusRecords = 2
  MaxPaid = 1
  MaxRefunds = 0
  WeekPasses = TRUE
  EarlyRetries = {}
  EarlyEnds = TRUE
  MaxGen = 2
  MaxEpoch = 2
  MaxWrites = 1
  None = None
  NoHead = NoHead
SYMMETRY Slots
SPECIFICATION Spec
CHECK_DEADLOCK FALSE
INVARIANTS TypeOK HistoryAgrees HeadStateFits FenceExclusive StatusRecordsFit
