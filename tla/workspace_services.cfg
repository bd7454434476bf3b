SPECIFICATION MCSpec
CONSTANTS
  Subjects = {s1}
  Dispatchers = {d1, d2}
  NoSubject = NoSubject
  MaxEvents = 3
  Limit = 2
  MaxRetries = 2
  Faults = {"crash", "silent"}
  MaxFaults = 1
  Items = {c1, c2}
  Candidates = {k1}
  Channels = {h1}
  Workers = {w1, w2}
  NoRow = NoRow
  MaxTexts = 2
  MaxModels = 2
  MaxMisses = 1
CHECK_DEADLOCK FALSE
INVARIANTS SentWasReceived FirstDeliveriesInOrder HashNamesVector
PROPERTIES EventsSettle PrunedIsDead PostsBecomeFindable
