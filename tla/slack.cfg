SPECIFICATION LiveSpec
CONSTANTS
  e1 = e1
  e2 = e2
  e3 = e3
  e4 = e4
  e5 = e5
  e6 = e6
  e7 = e7
  e8 = e8
  u1 = u1
  u2 = u2
  k1 = k1
  k2 = k2
  k3 = k3
  c1 = c1
  Keys = {k1, k2, k3}
  Tasks = {e1, e2, e3, e4, e5, e6, e7, e8}
  Clears = {c1}
  ScopeOf <- MCScopeOf
  Threads = {k1}
  Posts = {e1, e2, e4, e5, e6, e7, e8}
  Users = {u1, u2}
  Source <- MCSource
  PostOf <- MCPostOf
  UserOf <- MCUserOf
  KeyOf <- MCKeyOf
  Together <- MCTogether
CHECK_DEADLOCK FALSE
INVARIANTS
  ServedInTurn
PROPERTIES
  EventsTaken
  TakenIsServed
