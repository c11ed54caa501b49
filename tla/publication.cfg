SPECIFICATION Spec
CONSTANTS
  red = red
  amber = amber
  Findings <- BothFindings
  Failing <- RedFinding
  Blocking <- BothFindings
  ApproveWhenClean = TRUE
  None = None
  MaxHead = 2
  MaxReviews = 3
  MaxFaults = 1
INVARIANTS TypeOK SuppressedIsPosted VerdictStands SaysWhatItFound
CHECK_DEADLOCK FALSE
