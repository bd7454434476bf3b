SPECIFICATION Spec
CONSTANTS
  Workers = {w1, w2}
  NoWorker = NoWorker
  Plan <- MCPlan
  Limit = 2
CHECK_DEADLOCK FALSE
INVARIANTS PaidOnce CallsAccounted
PROPERTIES JobEnds
