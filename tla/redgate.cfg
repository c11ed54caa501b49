SPECIFICATION Spec
CONSTANTS
  red = red
  amber = amber
  Findings <- BothFindings
  Failing <- BothFindings
  Blocking <- RedFinding
  ApproveWhenClean = FALSE
  None = None
  MaxHead = 2
  MaxReviews = 2
  MaxFaults = 0
INVARIANTS RedNeverApproved
CHECK_DEADLOCK FALSE
