SPECIFICATION AdminSpec
CONSTANTS
  InFlight = 2
  MaxRotations = 1
  MaxUpdates = 1
  MaxElsewhere = 1
  ProviderIds = {openai, anthropic}
  openai = openai
  anthropic = anthropic
  First = openai
  Nobody = nobody
  Panel = 2
  MaxTimers = 1
  MaxSounds = 3
  Choices = {a}
  Empty = empty
  MaxEntries = 1
  MaxOutside = 1
  Items = {i1, i2}
  NoItem = none
  MaxCalls = 2
CHECK_DEADLOCK FALSE
INVARIANTS
  AdminShowsTruth
PROPERTIES
  SessionHolds
  NothingUnasked
  AdminGoesOn
