SPECIFICATION MCSpec
CONSTANTS
  Targets = {t1, t2}
  Posts = {p1}
  Workers = {w1, w2}
  NoPost = NoPost
  NoTarget = NoTarget
  MaxRetries = 1
  Answers = {TRUE}
  Faults = {"crash", "lostreply", "dispatch", "brokerdown"}
  MaxFaults = 3
  Urls = {1, 2, 3}
  Limit = 2
  MaxAttempts = 2
  Requests = {r1, r2, r3}
  Pictures = {a1}
  Channels = {h1}
  Keys = {k1}
  None = None
  MaxMisses = 1
  ChatLimit = 1
  MaxOverlap = 2
CHECK_DEADLOCK FALSE
SYMMETRY MCSymmetry
INVARIANTS ExclusiveClaim OneTargetPerPost AtMostOnce PostedIsWhole OneEffectPerKey
PROPERTIES ImplementsLifecycle KeepsPublishCall DeletionSparesUsed AloneKeepsLimit
