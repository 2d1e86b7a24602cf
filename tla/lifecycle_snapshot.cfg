SPECIFICATION LifecycleSpec
CONSTANTS
  Ops = {o1, o2}
  Kinds = {"upgrade", "rollback"}
  Addons = {chat}
  Core = core
  Initial = initial
  None = none
  MaxKills = 0
CHECK_DEADLOCK FALSE
INVARIANTS
  SnapshotBeforeWrites
