SPECIFICATION Spec
CONSTANTS
  p = p
  s = s
  f = f
  none = none
  r1 = r1
  r2 = r2
  r3 = r3
  w1 = w1
  w2 = w2
  a = a
  b = b
  Paths = {p, s}
  SubPaths = {s}
  Revisions = {r1}
  Present <- MCPresent
  Tree <- MCTree
  At <- MCAt
  Hashes = {a, b}
  None = none
  Workers = {w1, w2}
  GroupSize = 2
  BatchSize = 1
  MaxClaims = 2
  MaxFaults = 1
  Outlives = TRUE
PROPERTIES NewerClaimUntouched
CHECK_DEADLOCK FALSE
