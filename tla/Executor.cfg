\* Two executors and three calls under three keys; one call names its version.
SPECIFICATION Spec
CONSTANTS
  Executors = {e1, e2}
  Calls = {c1, c2, c3}
  Keys = {k1, k2, k3}
  Inputs = {i1}
  Kinds = {"execute", "preview", "commitPreview"}
  Expected = {any, 0}
  AnyVersion = any
  NoCall = nocall
  NoRecord = norecord
  Breaker = c3
  Flawed <- BreaksLater
CONSTRAINT OneExpects
SYMMETRY Interchangeable
CHECK_DEADLOCK FALSE
INVARIANTS
  LiveIsCommitted
  AnswersTellTheTruth
  ExpectedVersionHonoured
  PreviewCommitsOnce
PROPERTIES
  ImplementsLog
  LiveNeverGoesBack
  SuccessIsReadable
