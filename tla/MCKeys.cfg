CONSTANTS
  Node <- MCNode
  Plans <- MCPlans
  Overlap = FALSE
  MaxDown = 1
  None = None
SPECIFICATION FairSpec
CHECK_DEADLOCK FALSE
INVARIANTS Concluded 
 
