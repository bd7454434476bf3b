SPECIFICATION FairSpec
CONSTANTS
  Targets = {t1}
  Posts = {p1}
  Workers = {w1, w2, w3}
  NoPost = NoPost
  NoTarget = NoTarget
  MaxRetries = 1
  Answers = {TRUE, FALSE}
  Faults = {"crash", "overrun", "lostreply", "dispatch", "brokerdown"}
  MaxFaults = 3
CHECK_DEADLOCK FALSE
PROPERTIES QueuedTargetSettles DeliveryRecorded
