SPECIFICATION MCSpec
CONSTANTS
  Workers = {w1, w2}
  NoWorker = NoWorker
  Count = 2
  Variants = 1
  Budget = 2
  PerJob = 1
  MaxActive = 2
  MaxTime = 1
  Keys = {k1}
  Videos = {v1, v2}
  Consents = {c1}
  NoConsent = NoConsent
  MaxAttempts = 2
  PerRun = 1
  Month = 1
  MaxEdits = 1
  MaxFaults = 1
CHECK_DEADLOCK FALSE
INVARIANTS OneChild WithinBudget WithinMonth
PROPERTIES ApprovedUnderConsent RunIsReported
