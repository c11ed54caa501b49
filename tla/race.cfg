CONSTANTS
  w1 = w1
  w2 = w2
  o1 = o1
  o2 = o2
  Workers = {w1, w2}
  OwnerOf <- TwoProcesses
  Ttl = 2
  Margin = 1
  Retries = 2
  None = None
  MaxClock = 2
  MaxGen = 2
  MaxAdrift = 1
SYMMETRY Processes
VIEW View
SPECIFICATION Spec
INVARIANTS FenceInsideLease
PROPERTIES CheckedMeansOwner ImplementsRegister
CHECK_DEADLOCK FALSE
