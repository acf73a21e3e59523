\* One seller's dialogs, two streams of the camera, two connections.
SPECIFICATION Spec
CONSTANTS
    MaxStreams = 2
    MaxConnects = 2
    MaxEvents = 5
    MaxRetries = 1
CHECK_DEADLOCK FALSE
INVARIANTS
  CameraGoesDark
  ShownIsSo
PROPERTIES
  SharedOrTold
