SPECIFICATION Spec
CONSTANTS
  Buyers = {b1}
  Seller = seller
  Items = {i1}
  Orders = {o1, o2}
  NoOne = noone
  Catalog <- PairCatalog
  OpeningBalance = 24
  OpeningPoints = 2
  Coupons = {0, 5}
  PointUses = {0, 2}
  Amounts = {12}
  MaxBalance = 24
  Edits <- EditPair
  Faults = {"payment", "delivery"}
  TTL = 1
  MaxNow = 2
CONSTRAINT OneThingAtATime
SYMMETRY Interchangeable
CHECK_DEADLOCK FALSE
INVARIANTS
  OrdersConsistent
  OneReservationPerBuyer
  WalletsMatchOrders
PROPERTIES
  MoneyConserved
