\* Two tracks in turn, seven frames, a budget of three calls.
SPECIFICATION FramesSpec
CONSTANTS
    Tracks = {"t1", "t2"}
    MaxCalls = 3
    MaxFrames = 7
    MaxSwitches = 3
CHECK_DEADLOCK FALSE
INVARIANTS
  NothingLeft
PROPERTIES
  ImplementsSampler
  SlotMovesOn
