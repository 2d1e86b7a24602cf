SPECIFICATION Spec
CONSTANTS
  Requests = {r1, r2}
  s1 = s1
  s2 = s2
  u1 = u1
  u2 = u2
  n1 = n1
  n2 = n2
  Secrets = {s1, s2}
  NoSecret = NoSecret
  Pending = Pending
  SECRETS_CACHE_TTL_MS = 1
  MaxTime = 1
  MaxWrites = 1
  Messages <- MCMessages
  Users = {u1, u2}
  Channel = ch
  Nonces = {n1, n2}
  NoNonce = NoNonce
  USER_RATE_LIMIT = 1
  USER_RATE_WINDOW_MS = 0
  CHANNEL_RATE_LIMIT = 1
  CHANNEL_RATE_WINDOW_MS = 0
  MAX_BUCKETS = 3
  CLOCK_SKEW = 1
  PruneAt = 1
  maxSize = 2
  MaxKills = 1
  MaxFailures = 1
SYMMETRY Symmetry
CHECK_DEADLOCK FALSE
INVARIANTS
  SecretsExact
  NoncesExact
  Accounted
