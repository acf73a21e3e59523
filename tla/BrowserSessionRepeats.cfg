CONSTANTS
  Tabs = {t1}
  AgentTabs = {t1}
  UiOps = {u1, u2}
  Keys = {k1}
  None = None
  MaxJobs = 1
  MaxIdle = 0
  MaxFaults = 0
  MaxLoads = 0
SPECIFICATION BrowserSpec
INVARIANTS
  RepeatsAreHarmless
CHECK_DEADLOCK FALSE
