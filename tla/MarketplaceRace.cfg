SPECIFICATION Spec
CONSTANTS
  Buyers = {b1, b2}
  Seller = seller
  Items = {i1}
  Orders = {o1, o2, o3}
  NoOne = noone
  Catalog <- SingleCatalog
  OpeningBalance = 24
  OpeningPoints = 0
  Coupons = {0}
  PointUses = {0}
  Amounts = {}
  MaxBalance = 24
  Edits <- TwoOrOne
  Faults = {}
  TTL = 1
  MaxNow = 2
SYMMETRY Interchangeable
CONSTRAINT ChangedEarly
CHECK_DEADLOCK FALSE
INVARIANTS
  NoOversell
PROPERTIES
  UnitsConserved
  EscrowHonoured
  ClosedOrdersStayClosed
