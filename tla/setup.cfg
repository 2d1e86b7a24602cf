SPECIFICATION SetupSpec
CONSTANTS
  Vendors = {ollama}
  Detectable = {ollama}
  Ollama = ollama
  Custom = ollama
  Roles = {llm, embedding}
  NoChoice = none
  MaxAsks = 2
  MaxPolls = 2
  None = None
  Providers = {p1, p2, p3}
  Keyed = {p1, p2}
  NoProvider = NoProvider
  Secrets = {k1, k2}
  NoSecret = NoSecret
  Channels = {c1}
  Services = {admin}
  Recommended = {admin}
  Latin = {ada}
  Foreign = {foreign}
  OddId = OddId
  DefaultId = DefaultId
  NoId = NoId
  MaxEdits = 2
  MaxKills = 1
  Releases = {r1, r2}
  Bundled = r2
  Main = main
  Absent = absent
  Torn = torn
  Edited = edited
  MaxRuns = 2
  MaxChanges = 1
  Adders = {a1, a2}
  Contents = {said}
  MaxMemories = 3
  MaxUses = 1
  MaxRestarts = 1
  ScanSize = 2
  DeleteBatch = 1
SYMMETRY Symmetry
CHECK_DEADLOCK FALSE
INVARIANTS
  PagesHold
  PayloadHolds
  CompleteIsOneSetup
  CurationHolds
PROPERTIES
  InstallHolds
