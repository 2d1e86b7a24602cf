SPECIFICATION LiveSpec
CONSTANTS
  Reqs = {a1, a2, c1}
  Clears = {c1}
  Keys = {k1, k2}
  Sids = {s1, s2}
  None = None
  Watched = k1
  SESSION_TTL_MS = 1
  SESSION_LIST_CACHE_TTL_MS = 1
  MAX_SESSIONS = 1
  MaxTime = 1
  MaxLost = 1
  MaxOld = 0
CHECK_DEADLOCK FALSE
PROPERTIES
  WatchedCompletes
