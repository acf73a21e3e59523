SPECIFICATION Spec
CONSTANTS
  Styles = {white, wood}
  FirstStyle = white
  MaxShots = 2
  MaxLayers = 2
  MaxMounts = 3
  None = none
CHECK_DEADLOCK FALSE
INVARIANTS
  PreviewMatchesChoice
  OnlyApprovedIsListed
