CONSTANTS
  Tabs = {t1, t2}
  AgentTabs = {t1}
  UiOps = {u1}
  Keys = {k1}
  None = None
  MaxJobs = 2
  MaxIdle = 1
  MaxFaults = 1
  MaxLoads = 1
SPECIFICATION BrowserSpec
CHECK_DEADLOCK FALSE
INVARIANTS
  AnswersHold
  SettledIsSaved
PROPERTIES
  WorkIsSaved
