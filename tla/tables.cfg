SPECIFICATION TablesSpec
CONSTANTS
  Nonces = {n1, n2, n3}
  NoNonce = NoNonce
  CLOCK_SKEW = 1
  PruneAt = 1
  maxSize = 2
  Users = {u1, u2, c1}
  Channels = {c1}
  USER_RATE_LIMIT = 1
  USER_RATE_WINDOW_MS = 2
  CHANNEL_RATE_LIMIT = 2
  CHANNEL_RATE_WINDOW_MS = 1
  MAX_BUCKETS = 2
  MaxTime = 3
  ReplayTime = 2
SYMMETRY Symmetry
CHECK_DEADLOCK FALSE
INVARIANTS
  ReplaySound
PROPERTIES
  LimitKept
