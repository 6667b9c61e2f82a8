SPECIFICATION FairSpec
CONSTANTS
  Requests = {l1, l2, l3, w1}
  Lists = {l1, l2, l3}
  MaxConns = 2
  PageSize = 2
  Steps = 2
CHECK_DEADLOCK FALSE
INVARIANTS NeverStuck NoConnLeaks
PROPERTIES AnsweredUnlessFlooded
