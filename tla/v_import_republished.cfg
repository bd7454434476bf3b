SPECIFICATION Spec
CONSTANTS
  Runs = {r1}
  Posts = {p1, p2}
  Targets = {t1, t2, t3}
  Workers = {w1}
  Operators = {o1}
  NoRun = NoRun
  NoPost = NoPost
  NoTarget = NoTarget
  NoRow = NoRow
  Skip = Skip
  MaxRetries = 0
  Faults = {"retry"}
  MaxFaults = 2
CHECK_DEADLOCK FALSE
PROPERTY PublishedKeepsClaim
