SPECIFICATION MCSpec
CONSTANTS
  Channels = {c1, c2}
  Items = {i1, i2}
  Album = Album
  Workers = {w1, w2}
  Editors = {e1}
  NoWorker = NoWorker
  MaxAsks = 2
  Faults = {"crash", "broker", "redis", "backlog"}
  MaxFaults = 1
CHECK_DEADLOCK FALSE
INVARIANT OncePerChannel
PROPERTIES DueSettles AlbumIsClaimed
