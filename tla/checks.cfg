SPECIFICATION Spec
CONSTANTS
  unit = unit
  h1 = h1
  h2 = h2
  Jobs = {unit}
  Outcomes <- MCOutcomes
  FailOn <- MCFailOn
  Handlers = {h1, h2}
  None = None
  MaxHead = 2
  MaxReviews = 2
  MaxFaults = 1
INVARIANTS TypeOK SuccessIsEarned NothingForgotten NoDueWatchLeft
SYMMETRY Symmetry
CHECK_DEADLOCK FALSE
