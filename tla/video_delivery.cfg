SPECIFICATION Spec
CONSTANTS
  Targets = {t1}
  Workers = {w1, w2}
  NoTarget = NoTarget
  Platforms = {"telegram", "instagram", "youtube", "tiktok"}
CHECK_DEADLOCK FALSE
INVARIANTS ExclusiveClaim UnderWayIsDue
PROPERTIES KeepsPromise ClaimedSettles
