SPECIFICATION FairSpec
CONSTANTS
  Runs = {r1}
  Posts = {p1, p2}
  Targets = {t1, t2}
  Workers = {w1}
  Operators = {o1}
  NoRun = NoRun
  NoPost = NoPost
  NoTarget = NoTarget
  NoRow = NoRow
  Skip = Skip
  MaxRetries = 1
  Faults = {"crash", "brokerdown", "overrun", "retry", "cancel", "pause"}
  MaxFaults = 2
CHECK_DEADLOCK FALSE
INVARIANT CompletedAccountsForAll
PROPERTIES RunSettles
