SPECIFICATION LiveChannelSpec
CONSTANTS
  t1 = t1
  t2 = t2
  t3 = t3
  m1 = m1
  m2 = m2
  m3 = m3
  k1 = k1
  k2 = k2
  c1 = c1
  Threads = {k1}
  Messages = {m1, m2}
  Clears = {c1}
  ScopeOf <- ThreadScope
  Keys = {k1}
  Tasks = {t1, t2, t3}
  Source <- ThreadSource
  MessageOf <- ThreadMessage
  KeyOf <- ThreadKey
  MaxForgets = 1
CHECK_DEADLOCK FALSE
INVARIANTS
  AskedOnceInOrder
PROPERTIES
  ClearLeavesOne
  ImplementsQueue
