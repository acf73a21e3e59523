\* Every kind of event, three of them in any order, two frames judged.
SPECIFICATION Spec
CONSTANTS
    Shots = {"front", "back"}
    FirstShot = "front"
    Codes = {"ready"}
    None = None
    Events <- AllEvents
    MaxEvents = 3
    MaxCalls = 2
CHECK_DEADLOCK FALSE
INVARIANTS
  ShownIsCurrent
  AdviceIsFresh
PROPERTIES
  ResyncAnswered
