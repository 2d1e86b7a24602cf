SPECIFICATION SidecarSpec
CONSTANTS
  Procs = {p1, p2, p3}
  None = None
  MaxAttempts = 1
  MaxCrashes = 2
  Files = {f1}
  Execs = {e1, e2}
  LogSize = 1
  MaxEdits = 2
  MaxFaults = 1
  Reqs = {r1, r2}
  Ids = {i1, i2}
  MaxOps = 1
  MaxKills = 1
  Callers = {c1, c2, c3}
  MaxStarts = 2
  Tabs = {t1, t2}
  MaxPollErrors = 3
  MaxTurns = 2
  ToolSessions = {s1}
  MaxExecutions = 3
  RunIds = {x1, x2}
  NoConfig = NoConfig
  MaxRewrites = 1
  MaxRestarts = 1
CHECK_DEADLOCK FALSE
INVARIANT OkIsTrue
