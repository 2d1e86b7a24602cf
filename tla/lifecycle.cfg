SPECIFICATION ControlPlaneSpec
CONSTANTS
  Ops = {o1, o2, o3}
  Kinds = {"install", "upgrade", "uninstall", "rollback", "enable", "disable", "save"}
  Addons = {chat}
  Core = core
  Initial = initial
  None = none
  MaxKills = 1
  Writers = {w1, w2}
  Providers = {openai, groq, custom}
  Keyed = {openai, groq}
  OpenAI = openai
  MaxCalls = 2
  MaxMishaps = 1
  MaxNotes = 1
SYMMETRY Symmetry
CHECK_DEADLOCK FALSE
INVARIANTS
  FetchedTogether
  RunsWhatIsConfigured
  EnabledHasSecret
PROPERTIES
  SettingsKept
  ConfigurationHolds
