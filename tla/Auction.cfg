SPECIFICATION AuctionSpec
CONSTANTS
  b1 = b1
  b2 = b2
  Buyers = {b1, b2}
  Seller = seller
  StartPrice = 10
  Step = 10
  BidAmounts = {20, 30, 40}
  SeededBids <- OneSeededBid
  Stock = 1
  ShippingCosts = {0, 8}
  OpeningShipping = 8
  OpeningBalance = 48
  Amounts = {20}
  MaxBalance = 48
  EndsAt = 1
  MaxNow = 2
CHECK_DEADLOCK FALSE
INVARIANTS
  HoldsFollowBids
PROPERTIES
  SoldOnce
  MoneyConserved
