SPECIFICATION Spec
CONSTANTS
  Reqs = {a1, a2, c1}
  Clears = {c1}
  Keys = {k1, k2}
  Sids = {s1, s2, s3}
  None = None
  Watched = k1
  SESSION_TTL_MS = 2
  SESSION_LIST_CACHE_TTL_MS = 1
  MAX_SESSIONS = 1
  MaxTime = 2
  MaxLost = 1
  MaxOld = 1
SYMMETRY Symmetry
CHECK_DEADLOCK FALSE
INVARIANTS
  ForwarderSound
  OwnConversation
  ClearForgetsUnlessLost
  NoDuplicateSession
  DeliveryExact
PROPERTIES
  ImplementsSerial
