SPECIFICATION Spec
CONSTANTS
  unit = unit
  h1 = h1
  h2 = h2
  Jobs = {unit}
  Outcomes <- MCOutcomes
  FailOn <- MCFailOn
  Handlers = {h1}
  None = None
  MaxHead = 1
  MaxReviews = 1
  MaxFaults = 0
PROPERTIES CheckSettles
CHECK_DEADLOCK FALSE
