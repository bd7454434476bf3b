SPECIFICATION Spec
CONSTANTS
  Runs = {r1, r2}
  Posts = {p1, p2}
  Targets = {t1, t2, t3}
  Workers = {w1, w2}
  Operators = {o1}
  NoRun = NoRun
  NoPost = NoPost
  NoTarget = NoTarget
  NoRow = NoRow
  Skip = Skip
  MaxRetries = 1
  Faults = {"crash", "brokerdown", "overrun", "cancel", "pause"}
  MaxFaults = 1
CHECK_DEADLOCK FALSE
SYMMETRY Symmetry
INVARIANTS PublishedOnce UnderWayIsClaimed
