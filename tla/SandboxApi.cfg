CONSTANTS
  Requests = {r1, r2}
  k1 = k1
  k2 = k2
  Keys = {k1, k2}
  Picky = {k2}
  Edits = {e1}
  Batches <- ReplayBatches
  None = None
  MaxSent = 3
  MaxFaults = 1
SPECIFICATION Spec
CONSTRAINT ReplaysSent
CHECK_DEADLOCK FALSE
INVARIANTS
  AppliedOnce
  AnswersAreRecorded
  ReplaysAreWhole
PROPERTIES
  CommandsAreKept
