SPECIFICATION Spec
CONSTANTS
  ImageOrder <- PhotoOrder
  Measurement = "measurement"
  Sizes = {s1}
  NoSize = nosize
  MaxPhotos = 4
  MaxMeasured = 1
  MaxReports = 1
INVARIANTS
  ThrownAwayStaysOut
  HandoffWasReviewed
PROPERTIES
  AcceptedIsKept
  QueueDrains
