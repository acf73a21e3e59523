------------------------- MODULE Marketplace_proofs -------------------------
(***************************************************************************)
(* Proofs about Marketplace for every catalog, every number of buyers,     *)
(* listings and orders, and every amount.  Three inductive invariants:     *)
(*     TradeInv == TradeTypeOK /\ OrdersConsistent   (edits included)      *)
(*     StockInv, on top of TradeInv                                        *)
(*     MoneyInv == TradeInv /\ BooksMatch(order, wallet)                   *)
(* and, from the first, the refinement of Escrow, the orders that stay     *)
(* closed and the reservations that stay single.                           *)
(***************************************************************************)
EXTENDS Marketplace, Sums, TLAPS, FiniteSetTheorems

\* The types of the variables the theorems are about.
TradeTypeOK == now \in Nat /\ ItemsTypeOK /\ OrdersTypeOK

\* An order that is released while its reservation is active stays consistent,
\* is over, and gives its whole hold back.
LEMMA ReleasedOrderConsistent ==
  ASSUME NEW rec \in OrderRecord, OrderConsistent(rec), rec.intent = "ACTIVE",
         NEW status \in {"RELEASED", "EXPIRED"}
  PROVE  /\ ReleasedOrder(rec, status) \in OrderRecord
         /\ OrderConsistent(ReleasedOrder(rec, status))
         /\ ReleasedOrder(rec, status).intent = status
         /\ ReleasedOrder(rec, status).item = rec.item
         /\ ReleasedOrder(rec, status).buyer = rec.buyer
<1> USE DEF ShipmentFollows, ParcelAt, PaymentMatchesStatus,
            ReturnMatchesOrder, StatusesAgree, CheckedUnlessOverruled
<1> DEFINE new == ReleasedOrder(rec, status)
<1>1. rec.txn = "PAYMENT_PENDING" /\ rec.held = rec.total /\ rec.total \in Nat
  BY DEF OrderConsistent, InEscrow, OrderRecord
<1>2. rec.held - Freed(rec) = 0
  BY <1>1 DEF Freed, Releasable
<1>3. new = [rec EXCEPT !.intent = status, !.txn = "CANCELED", !.held = 0]
  BY <1>1, <1>2 DEF ReleasedOrder
<1> HIDE DEF new
<1>4. new \in OrderRecord
  BY <1>3 DEF OrderRecord, IntentStatus, TxnStatus
<1>5. OrderConsistent(new)
  BY <1>1, <1>3 DEF OrderConsistent, InEscrow, OrderRecord, CapturedStatus
<1>6. new.intent = status /\ new.item = rec.item /\ new.buyer = rec.buyer
  BY <1>3 DEF OrderRecord
<1> QED BY <1>4, <1>5, <1>6 DEF new

\* A new order is consistent: it is active and its total is on hold.
LEMMA NewOrderConsistent ==
  ASSUME NEW b \in Buyers, NEW i \in Items, NEW total \in Nat, total > 0, now \in Nat,
         item[i].price \in Nat
  PROVE  NewOrder(b, i, total) \in OrderRecord /\ OrderConsistent(NewOrder(b, i, total))
<1> USE DEF ShipmentFollows, ParcelAt, PaymentMatchesStatus,
            ReturnMatchesOrder, StatusesAgree, CheckedUnlessOverruled
<1> DEFINE new == NewOrder(b, i, total)
<1>1. TTL \in Nat /\ now + TTL \in Nat
  BY ConstantsAssumption
<1>2. Unallocated \in OrderRecord
  BY DEF Unallocated, OrderRecord, IntentStatus, TxnStatus, PaymentStatus, ShipmentStatus,
         ReturnStatus
<1>3. new \in OrderRecord
  BY <1>1, <1>2 DEF NewOrder, OrderRecord, IntentStatus, TxnStatus, PaymentStatus,
                    ShipmentStatus
<1>4. /\ new.buyer = b /\ new.item = i /\ new.intent = "ACTIVE"
      /\ new.txn = "PAYMENT_PENDING" /\ new.payment = "INITIATED" /\ new.shipment = "PENDING"
      /\ new.total = total /\ new.held = total
      /\ new.returnCase = Unallocated.returnCase /\ new.settled = Unallocated.settled
  BY <1>2 DEF NewOrder, OrderRecord
<1>5. Unallocated.returnCase = "NONE" /\ ~Unallocated.settled
  BY DEF Unallocated
<1> HIDE DEF new
<1>6. OrderConsistent(new)
  BY <1>4, <1>5 DEF OrderConsistent, InEscrow, CapturedStatus
<1> QED BY <1>3, <1>6 DEF new

\* A checkout that updatePurchasePricing lets through leaves a consistent, active
\* order of the same buyer and listing.
LEMMA QuotedConsistent ==
  ASSUME TradeTypeOK, OrdersConsistent,
         NEW o \in Orders, NEW c \in Coupons, NEW p \in PointUses, Checkout(o, c, p)
  PROVE  /\ Quoted(o, c, p) \in OrderRecord
         /\ OrderConsistent(Quoted(o, c, p))
         /\ Quoted(o, c, p).intent = "ACTIVE"
         /\ Quoted(o, c, p).item = order[o].item
         /\ Quoted(o, c, p).buyer = order[o].buyer
         /\ order[o].item \in Items
<1> USE DEF ShipmentFollows, ParcelAt, PaymentMatchesStatus,
            ReturnMatchesOrder, StatusesAgree, CheckedUnlessOverruled
<1> DEFINE q == Quoted(o, c, p)
           t == NewTotal(o, c, p)
<1>1. order[o] \in OrderRecord /\ order[o].intent = "ACTIVE"
  BY DEF TradeTypeOK, OrdersTypeOK, Checkout
<1>2. OrderConsistent(order[o])
  BY <1>1 DEF OrdersConsistent, Unallocated
<1>3. order[o].txn = "PAYMENT_PENDING" /\ order[o].held = order[o].total
      /\ order[o].item \in Items /\ order[o].buyer \in Buyers /\ order[o].total \in Nat
      /\ order[o].total > 0
  BY <1>1, <1>2 DEF OrderConsistent, InEscrow, OrderRecord
<1>4. CASE c = 0 /\ p = 0
  BY <1>1, <1>2, <1>3, <1>4 DEF Quoted
<1>5. CASE ~(c = 0 /\ p = 0)
  <2>1. c \in Nat /\ p \in Nat
    BY ConstantsAssumption
  <2>2. item[order[o].item] \in ItemRecord
    BY <1>3 DEF TradeTypeOK, ItemsTypeOK
  <2>3. item[order[o].item].price \in Nat /\ item[order[o].item].shipping \in Nat
    BY <2>2 DEF ItemRecord
  <2>4. Coupon(o, c) \in Nat
    BY <2>1, <2>3 DEF Coupon
  <2>5. p <= item[order[o].item].price - Coupon(o, c) /\ (t = order[o].total \/ t > 0)
    BY <1>5 DEF Checkout, QuoteAllowed
  <2>6. t \in Nat /\ t > 0
    BY <1>3, <2>1, <2>3, <2>4, <2>5 DEF NewTotal
  <2>7. Releasable(order[o]) = order[o].held
    BY <1>3 DEF Releasable
  <2>8. q = [order[o] EXCEPT !.total = t, !.points = p,
                !.held = IF t = order[o].total THEN @ ELSE @ - Releasable(order[o]) + t]
    BY <1>5 DEF Quoted
  <2> HIDE DEF q, t
  <2>9. q = [order[o] EXCEPT !.total = t, !.points = p, !.held = t]
    <3>1. order[o].held - order[o].held + t = t
      BY <1>3, <2>6
    <3> QED BY <1>1, <1>3, <2>7, <2>8, <3>1 DEF OrderRecord
  <2>10. q \in OrderRecord
    BY <1>1, <2>1, <2>6, <2>9 DEF OrderRecord
  <2>11. OrderConsistent(q)
    BY <1>1, <1>2, <1>3, <2>6, <2>9 DEF OrderConsistent, InEscrow, CapturedStatus, OrderRecord
  <2>12. q.intent = "ACTIVE" /\ q.item = order[o].item /\ q.buyer = order[o].buyer
    BY <1>1, <2>9 DEF OrderRecord
  <2> QED BY <1>3, <2>10, <2>11, <2>12 DEF q
<1> QED BY <1>4, <1>5

\* Writing one consistent order keeps all of them consistent.
LEMMA OneOrderWritten ==
  ASSUME OrdersTypeOK, OrdersConsistent, NEW o \in Orders,
         NEW new \in OrderRecord, OrderConsistent(new),
         order' = [order EXCEPT ![o] = new]
  PROVE  OrdersTypeOK' /\ OrdersConsistent'
<1> USE DEF ShipmentFollows, ParcelAt, PaymentMatchesStatus,
            ReturnMatchesOrder, StatusesAgree, CheckedUnlessOverruled
<1>1. OrdersTypeOK'
  BY DEF OrdersTypeOK
<1>2. ASSUME NEW x \in Orders PROVE order'[x] = Unallocated \/ OrderConsistent(order'[x])
  <2>1. CASE x = o
    BY <2>1 DEF OrdersTypeOK
  <2>2. CASE x # o
    BY <2>2 DEF OrdersTypeOK, OrdersConsistent
  <2> QED BY <2>1, <2>2
<1>3. OrdersConsistent'
  BY <1>2 DEF OrdersConsistent, OrderConsistent, InEscrow
<1> QED BY <1>1, <1>3

\* Releasing any set of active orders keeps all orders consistent.
LEMMA ReleaseConsistent ==
  ASSUME NEW or \in [Orders -> OrderRecord],
         \A o \in Orders : or[o] = Unallocated \/ OrderConsistent(or[o]),
         NEW S \in SUBSET Orders, \A o \in S : or[o].intent = "ACTIVE",
         NEW status \in {"RELEASED", "EXPIRED"}
  PROVE  /\ OrdersReleased(or, S, status) \in [Orders -> OrderRecord]
         /\ \A o \in Orders : \/ OrdersReleased(or, S, status)[o] = Unallocated
                              \/ OrderConsistent(OrdersReleased(or, S, status)[o])
<1> DEFINE rel == OrdersReleased(or, S, status)
<1>1. ASSUME NEW o \in Orders
      PROVE  rel[o] \in OrderRecord /\ (rel[o] = Unallocated \/ OrderConsistent(rel[o]))
  <2>1. CASE o \in S
    <3>1. or[o].intent = "ACTIVE" /\ or[o] \in OrderRecord
      BY <2>1
    <3>2. OrderConsistent(or[o])
      BY <3>1 DEF Unallocated
    <3>3. rel[o] = ReleasedOrder(or[o], status)
      BY <2>1 DEF OrdersReleased
    <3> QED BY <3>1, <3>2, <3>3, ReleasedOrderConsistent
  <2>2. CASE o \notin S
    BY <2>2 DEF OrdersReleased
  <2> QED BY <2>1, <2>2
<1>2. rel = [o \in Orders |-> rel[o]]
  BY DEF OrdersReleased
<1> HIDE DEF rel
<1>3. rel \in [Orders -> OrderRecord]
  BY <1>1, <1>2
<1> QED BY <1>1, <1>3 DEF rel

OrderGoal == OrdersTypeOK' /\ OrdersConsistent'

\* An order that some command acts on is allocated, so its records agree.
LEMMA AllocatedConsistent ==
  ASSUME OrdersTypeOK, OrdersConsistent, NEW o \in Orders,
         order[o].txn # "NONE" \/ order[o].returnCase # "NONE" \/ order[o].intent # "NONE"
  PROVE  order[o] \in OrderRecord /\ OrderConsistent(order[o])
BY DEF OrdersTypeOK, OrdersConsistent, Unallocated

\* The commands that carry one order forward, or take it back without a refund.
LEMMA FulfilConsistent ==
  ASSUME OrdersTypeOK, OrdersConsistent, NEW o \in Orders
  PROVE  Fulfil(o) => OrderGoal
<1> USE DEF OrderRecord, TxnStatus, ShipmentStatus,
            ShipmentFollows, ParcelAt, PaymentMatchesStatus,
            ReturnMatchesOrder, StatusesAgree, CheckedUnlessOverruled, Overrules
<1>1. ASSUME ShipOrder(o) PROVE OrderGoal
  <2> DEFINE new == [order[o] EXCEPT !.shipment = "IN_TRANSIT", !.txn = "SHIPPED"]
  <2>1. order[o] \in OrderRecord /\ OrderConsistent(order[o])
    BY <1>1, AllocatedConsistent DEF ShipOrder
  <2>2. order' = [order EXCEPT ![o] = new]
    BY <1>1 DEF ShipOrder, OrdersTypeOK
  <2>3. new \in OrderRecord
    BY <1>1, <2>1 DEF ShipOrder, OrderConsistent, InEscrow, PaymentStatus, ReturnStatus
  <2>4. OrderConsistent(new)
    BY <1>1, <2>1 DEF ShipOrder, OrderConsistent, InEscrow, CapturedStatus
  <2> HIDE DEF new
  <2> QED BY <2>2, <2>3, <2>4, OneOrderWritten DEF OrderGoal
<1>2. ASSUME ShipmentFails(o) PROVE OrderGoal
  <2> DEFINE new == [order[o] EXCEPT !.shipment = "EXCEPTION"]
  <2>1. order[o] \in OrderRecord /\ OrderConsistent(order[o])
    BY <1>2, AllocatedConsistent DEF ShipmentFails
  <2>2. order' = [order EXCEPT ![o] = new]
    BY <1>2 DEF ShipmentFails, OrdersTypeOK
  <2>3. new \in OrderRecord
    BY <1>2, <2>1 DEF ShipmentFails, OrderConsistent, InEscrow, PaymentStatus, ReturnStatus
  <2>4. OrderConsistent(new)
    BY <1>2, <2>1 DEF ShipmentFails, OrderConsistent, InEscrow, CapturedStatus
  <2> HIDE DEF new
  <2> QED BY <2>2, <2>3, <2>4, OneOrderWritten DEF OrderGoal
<1>3. ASSUME MarkDelivered(o) PROVE OrderGoal
  <2> DEFINE new == [order[o] EXCEPT !.shipment = "DELIVERED", !.txn = "DELIVERED"]
  <2>1. order[o] \in OrderRecord /\ OrderConsistent(order[o])
    BY <1>3, AllocatedConsistent DEF MarkDelivered
  <2>2. order' = [order EXCEPT ![o] = new]
    BY <1>3 DEF MarkDelivered, OrdersTypeOK
  <2>3. new \in OrderRecord
    BY <1>3, <2>1 DEF MarkDelivered, OrderConsistent, InEscrow, PaymentStatus, ReturnStatus
  <2>4. OrderConsistent(new)
    BY <1>3, <2>1 DEF MarkDelivered, OrderConsistent, InEscrow, CapturedStatus
  <2> HIDE DEF new
  <2> QED BY <2>2, <2>3, <2>4, OneOrderWritten DEF OrderGoal
<1>4. ASSUME BuyerReviews(o) PROVE OrderGoal
  <2> DEFINE new == [order[o] EXCEPT !.txn = "BUYER_REVIEWED", !.reviewed = TRUE]
  <2>1. order[o] \in OrderRecord /\ OrderConsistent(order[o])
    BY <1>4, AllocatedConsistent DEF BuyerReviews
  <2>2. order' = [order EXCEPT ![o] = new]
    BY <1>4 DEF BuyerReviews, OrdersTypeOK
  <2>3. new \in OrderRecord
    BY <1>4, <2>1 DEF BuyerReviews, OrderConsistent, InEscrow, PaymentStatus, ReturnStatus
  <2>4. OrderConsistent(new)
    BY <1>4, <2>1 DEF BuyerReviews, OrderConsistent, InEscrow, CapturedStatus
  <2> HIDE DEF new
  <2> QED BY <2>2, <2>3, <2>4, OneOrderWritten DEF OrderGoal
<1>5. ASSUME SellerReviews(o) PROVE OrderGoal
  <2> DEFINE new == [order[o] EXCEPT !.txn = "COMPLETED", !.settled = TRUE,
                                      !.held = @ - order[o].total]
  <2>1. order[o] \in OrderRecord /\ OrderConsistent(order[o])
    BY <1>5, AllocatedConsistent DEF SellerReviews
  <2>2. order' = [order EXCEPT ![o] = new]
    BY <1>5 DEF SellerReviews, OrdersTypeOK
  <2>held. order[o].held - order[o].total = 0
    BY <1>5, <2>1 DEF SellerReviews, OrderConsistent, InEscrow
  <2>3. new \in OrderRecord
    <3>1. new = [order[o] EXCEPT !.txn = "COMPLETED", !.settled = TRUE, !.held = 0]
      BY <2>1, <2>held
    <3> HIDE DEF new
    <3> QED BY <2>1, <3>1
  <2>4. OrderConsistent(new)
    BY <1>5, <2>1, <2>held DEF SellerReviews, OrderConsistent, InEscrow, CapturedStatus
  <2> HIDE DEF new
  <2> QED BY <2>2, <2>3, <2>4, OneOrderWritten DEF OrderGoal
<1> QED BY <1>1, <1>2, <1>3, <1>4, <1>5 DEF Fulfil

\* A request for cancellation or return, the decision on it, and the receipt of a
\* parcel after settlement.
LEMMA RequestConsistent ==
  ASSUME OrdersTypeOK, OrdersConsistent, NEW o \in Orders
  PROVE  (\/ RequestCancellation(o) \/ RequestReturn(o) \/ ApproveReturn(o)
          \/ DeclineRequest(o) \/ ReceiveSettledReturn(o)) => OrderGoal
<1> USE DEF OrderRecord, TxnStatus, ShipmentStatus,
            ShipmentFollows, ParcelAt, PaymentMatchesStatus,
            ReturnMatchesOrder, StatusesAgree, CheckedUnlessOverruled, Overrules
<1>1. ASSUME RequestCancellation(o) PROVE OrderGoal
  <2> DEFINE new == [order[o] EXCEPT !.previous = order[o].txn, !.txn = "CANCEL_REQUESTED"]
  <2>1. order[o] \in OrderRecord /\ OrderConsistent(order[o])
    BY <1>1, AllocatedConsistent DEF RequestCancellation
  <2>2. order' = [order EXCEPT ![o] = new]
    BY <1>1 DEF RequestCancellation, OrdersTypeOK
  <2>3. new \in OrderRecord
    BY <1>1, <2>1 DEF RequestCancellation, OrderConsistent, InEscrow, PaymentStatus, ReturnStatus
  <2>4. OrderConsistent(new)
    <3>1. /\ new.buyer = order[o].buyer /\ new.item = order[o].item
          /\ new.intent = order[o].intent /\ new.expires = order[o].expires
          /\ new.txn = "CANCEL_REQUESTED" /\ new.previous = order[o].txn
          /\ new.payment = order[o].payment /\ new.shipment = order[o].shipment
          /\ new.returnCase = order[o].returnCase /\ new.price = order[o].price
          /\ new.total = order[o].total /\ new.points = order[o].points
          /\ new.reviewed = order[o].reviewed /\ new.settled = order[o].settled
          /\ new.overruled = order[o].overruled /\ new.held = order[o].held
      BY <2>1
    <3>2. /\ order[o].txn \in {"SHIPPED", "DELIVERED"} /\ order[o].payment = "CAPTURED"
          /\ order[o].intent = "COMMITTED" /\ ~order[o].settled
          /\ order[o].held = order[o].total
      BY <1>1, <2>1 DEF RequestCancellation, OrderConsistent, InEscrow, CapturedStatus
    <3> HIDE DEF new
    <3>3. ShipmentFollows(new)
      BY <2>1, <3>1, <3>2 DEF OrderConsistent
    <3>4. CheckedUnlessOverruled(new)
      BY <2>1, <3>1, <3>2 DEF OrderConsistent
    <3>5. StatusesAgree(new)
      BY <2>1, <3>1, <3>2 DEF OrderConsistent, CapturedStatus
    <3>6. new.held = IF InEscrow(new) THEN new.total ELSE 0
      BY <3>1, <3>2 DEF InEscrow
    <3> QED BY <3>3, <3>4, <3>5, <3>6 DEF OrderConsistent
  <2> HIDE DEF new
  <2> QED BY <2>2, <2>3, <2>4, OneOrderWritten DEF OrderGoal
<1>2. ASSUME RequestReturn(o) PROVE OrderGoal
  <2> DEFINE new == [order[o] EXCEPT !.returnCase = "REQUESTED", !.previous = order[o].txn,
                                      !.txn = "CANCEL_REQUESTED"]
  <2>1. order[o] \in OrderRecord /\ OrderConsistent(order[o])
    BY <1>2, AllocatedConsistent DEF RequestReturn
  <2>2. order' = [order EXCEPT ![o] = new]
    BY <1>2 DEF RequestReturn, OrdersTypeOK
  <2>3. new \in OrderRecord
    BY <1>2, <2>1 DEF RequestReturn, OrderConsistent, InEscrow, PaymentStatus, ReturnStatus
  <2>4. OrderConsistent(new)
    <3>1. /\ new.buyer = order[o].buyer /\ new.item = order[o].item
          /\ new.intent = order[o].intent /\ new.expires = order[o].expires
          /\ new.txn = "CANCEL_REQUESTED" /\ new.previous = order[o].txn
          /\ new.payment = order[o].payment /\ new.shipment = order[o].shipment
          /\ new.returnCase = "REQUESTED" /\ new.price = order[o].price
          /\ new.total = order[o].total /\ new.points = order[o].points
          /\ new.reviewed = order[o].reviewed /\ new.settled = order[o].settled
          /\ new.overruled = order[o].overruled /\ new.held = order[o].held
      BY <2>1
    <3>2. /\ order[o].txn \in {"DELIVERED", "COMPLETED"} /\ order[o].payment = "CAPTURED"
          /\ order[o].intent = "COMMITTED"
          /\ order[o].settled <=> order[o].txn = "COMPLETED"
          /\ order[o].held = IF order[o].settled THEN 0 ELSE order[o].total
      BY <1>2, <2>1 DEF RequestReturn, OrderConsistent, InEscrow, CapturedStatus
    <3> HIDE DEF new
    <3>3. ShipmentFollows(new)
      BY <2>1, <3>1, <3>2 DEF OrderConsistent
    <3>4. CheckedUnlessOverruled(new)
      BY <2>1, <3>1, <3>2 DEF OrderConsistent
    <3>5. StatusesAgree(new)
      BY <2>1, <3>1, <3>2 DEF OrderConsistent, CapturedStatus
    <3>6. new.held = IF InEscrow(new) THEN new.total ELSE 0
      BY <3>1, <3>2 DEF InEscrow
    <3> QED BY <3>3, <3>4, <3>5, <3>6 DEF OrderConsistent
  <2> HIDE DEF new
  <2> QED BY <2>2, <2>3, <2>4, OneOrderWritten DEF OrderGoal
<1>3. ASSUME ApproveReturn(o) PROVE OrderGoal
  <2> DEFINE new == [order[o] EXCEPT !.returnCase = "IN_TRANSIT", !.shipment = "RETURNING"]
  <2>1. order[o] \in OrderRecord /\ OrderConsistent(order[o])
    BY <1>3, AllocatedConsistent DEF ApproveReturn
  <2>2. order' = [order EXCEPT ![o] = new]
    BY <1>3 DEF ApproveReturn, OrdersTypeOK
  <2>3. new \in OrderRecord
    BY <1>3, <2>1 DEF ApproveReturn, OrderConsistent, InEscrow, PaymentStatus, ReturnStatus
  <2>4. OrderConsistent(new)
    <3>1. /\ new.buyer = order[o].buyer /\ new.item = order[o].item
          /\ new.intent = order[o].intent /\ new.expires = order[o].expires
          /\ new.txn = order[o].txn /\ new.previous = order[o].previous
          /\ new.payment = order[o].payment /\ new.shipment = "RETURNING"
          /\ new.returnCase = "IN_TRANSIT" /\ new.price = order[o].price
          /\ new.total = order[o].total /\ new.points = order[o].points
          /\ new.reviewed = order[o].reviewed /\ new.settled = order[o].settled
          /\ new.overruled = order[o].overruled /\ new.held = order[o].held
      BY <2>1
    <3>2. /\ order[o].txn = "CANCEL_REQUESTED" /\ order[o].payment = "CAPTURED"
          /\ order[o].intent = "COMMITTED" /\ order[o].returnCase = "REQUESTED"
          /\ order[o].held = IF order[o].settled THEN 0 ELSE order[o].total
      BY <1>3, <2>1 DEF ApproveReturn, OrderConsistent, InEscrow, CapturedStatus
    <3> HIDE DEF new
    <3>3. ShipmentFollows(new)
      BY <2>1, <3>1, <3>2 DEF OrderConsistent
    <3>4. CheckedUnlessOverruled(new)
      BY <2>1, <3>1, <3>2 DEF OrderConsistent
    <3>5. StatusesAgree(new)
      BY <2>1, <3>1, <3>2 DEF OrderConsistent, CapturedStatus
    <3>6. new.held = IF InEscrow(new) THEN new.total ELSE 0
      BY <3>1, <3>2 DEF InEscrow
    <3> QED BY <3>3, <3>4, <3>5, <3>6 DEF OrderConsistent
  <2> HIDE DEF new
  <2> QED BY <2>2, <2>3, <2>4, OneOrderWritten DEF OrderGoal
<1>4. ASSUME DeclineRequest(o) PROVE OrderGoal
  <2> DEFINE new == [order[o] EXCEPT !.txn = order[o].previous,
                 !.shipment = IF order[o].previous = "DELIVERED"
                              THEN "DELIVERED" ELSE "IN_TRANSIT",
                 !.returnCase = IF @ = "REQUESTED" THEN "DECLINED" ELSE @,
                 !.overruled = Overrules(order[o])]
  <2>1. order[o] \in OrderRecord /\ OrderConsistent(order[o])
    BY <1>4, AllocatedConsistent DEF DeclineRequest
  <2>2. order' = [order EXCEPT ![o] = new]
    BY <1>4 DEF DeclineRequest, OrdersTypeOK
  <2>3. new \in OrderRecord
    <3>1. /\ order[o].previous \in TxnStatus /\ order[o].returnCase \in ReturnStatus
          /\ Overrules(order[o]) \in BOOLEAN
      BY <2>1
    <3> HIDE DEF Overrules, TxnStatus
    <3> QED BY <2>1, <3>1 DEF ReturnStatus
  <2>4. OrderConsistent(new)
    <3>1. /\ new.buyer = order[o].buyer /\ new.item = order[o].item
          /\ new.intent = order[o].intent /\ new.expires = order[o].expires
          /\ new.txn = order[o].previous /\ new.previous = order[o].previous
          /\ new.payment = order[o].payment
          /\ new.shipment = IF order[o].previous = "DELIVERED"
                             THEN "DELIVERED" ELSE "IN_TRANSIT"
          /\ new.returnCase = IF order[o].returnCase = "REQUESTED"
                               THEN "DECLINED" ELSE order[o].returnCase
          /\ new.price = order[o].price /\ new.total = order[o].total
          /\ new.points = order[o].points /\ new.reviewed = order[o].reviewed
          /\ new.settled = order[o].settled /\ new.overruled = Overrules(order[o])
          /\ new.held = order[o].held
      BY <2>1
    <3>2. /\ order[o].txn = "CANCEL_REQUESTED" /\ order[o].payment = "CAPTURED"
          /\ order[o].intent = "COMMITTED"
          /\ order[o].previous \in {"SHIPPED", "DELIVERED", "COMPLETED"}
          /\ order[o].settled <=> order[o].previous = "COMPLETED"
          /\ order[o].held = IF order[o].settled THEN 0 ELSE order[o].total
      BY <1>4, <2>1 DEF DeclineRequest, OrderConsistent, InEscrow, CapturedStatus
    <3> HIDE DEF new
    <3>3. ShipmentFollows(new)
      <4>1. order[o].returnCase # "REFUND_COMPLETED"
        BY <2>1, <3>2 DEF OrderConsistent
      <4>2. order[o].previous = "COMPLETED" =>
              order[o].returnCase # "NONE"
        BY <2>1, <3>2 DEF OrderConsistent
      <4> QED BY <3>1, <3>2, <4>1, <4>2
    <3>4. CheckedUnlessOverruled(new)
      BY <2>1, <3>1, <3>2 DEF OrderConsistent
    <3>5. StatusesAgree(new)
      BY <2>1, <3>1, <3>2 DEF OrderConsistent, CapturedStatus
    <3>6. new.held = IF InEscrow(new) THEN new.total ELSE 0
      BY <3>1, <3>2 DEF InEscrow
    <3> QED BY <3>3, <3>4, <3>5, <3>6 DEF OrderConsistent
  <2> HIDE DEF new
  <2> QED BY <2>2, <2>3, <2>4, OneOrderWritten DEF OrderGoal
<1>5. ASSUME ReceiveSettledReturn(o) PROVE OrderGoal
  <2> DEFINE new == [order[o] EXCEPT !.payment = "REFUNDED", !.txn = "REFUNDED",
                 !.returnCase = "REFUND_COMPLETED", !.shipment = "RETURNED"]
  <2>1. order[o] \in OrderRecord /\ OrderConsistent(order[o])
    BY <1>5, AllocatedConsistent DEF ReceiveSettledReturn
  <2>2. order' = [order EXCEPT ![o] = new]
    BY <1>5 DEF ReceiveSettledReturn, OrdersTypeOK
  <2>3. new \in OrderRecord
    BY <1>5, <2>1 DEF ReceiveSettledReturn, OrderConsistent, InEscrow, PaymentStatus, ReturnStatus
  <2>4. OrderConsistent(new)
    <3>1. /\ new.buyer = order[o].buyer /\ new.item = order[o].item
          /\ new.intent = order[o].intent /\ new.expires = order[o].expires
          /\ new.txn = "REFUNDED" /\ new.previous = order[o].previous
          /\ new.payment = "REFUNDED" /\ new.shipment = "RETURNED"
          /\ new.returnCase = "REFUND_COMPLETED" /\ new.price = order[o].price
          /\ new.total = order[o].total /\ new.points = order[o].points
          /\ new.reviewed = order[o].reviewed /\ new.settled = order[o].settled
          /\ new.overruled = order[o].overruled /\ new.held = order[o].held
      BY <2>1
    <3>2. /\ order[o].settled /\ order[o].intent = "COMMITTED"
          /\ order[o].held = 0
      BY <1>5, <2>1 DEF ReceiveSettledReturn, OrderConsistent, InEscrow, CapturedStatus
    <3> HIDE DEF new
    <3>3. ShipmentFollows(new)
      BY <2>1, <3>1, <3>2 DEF OrderConsistent
    <3>4. CheckedUnlessOverruled(new)
      BY <2>1, <3>1, <3>2 DEF OrderConsistent
    <3>5. StatusesAgree(new)
      BY <2>1, <3>1, <3>2 DEF OrderConsistent, CapturedStatus
    <3>6. new.held = IF InEscrow(new) THEN new.total ELSE 0
      BY <3>1, <3>2 DEF InEscrow
    <3> QED BY <3>3, <3>4, <3>5, <3>6 DEF OrderConsistent
  <2> HIDE DEF new
  <2> QED BY <2>2, <2>3, <2>4, OneOrderWritten DEF OrderGoal
<1> QED BY <1>1, <1>2, <1>3, <1>4, <1>5

\* An order in escrow that is refunded gives back its whole total, and is consistent
\* if a parcel that was on its way back has arrived, or an operator decided once more.
LEMMA RefundedOrderConsistent ==
  ASSUME NEW rec \in OrderRecord, OrderConsistent(rec), rec.intent = "COMMITTED",
         ~rec.settled, Releasable(rec) > 0
  PROVE  /\ RefundedOrder(rec) = [rec EXCEPT !.payment = "REFUNDED", !.txn = "REFUNDED",
                                             !.held = 0]
         /\ RefundedOrder(rec) \in OrderRecord
         /\ \A new \in OrderRecord :
              /\ \A f \in {"buyer", "item", "intent", "total", "settled",
                           "payment", "txn", "held"} : new[f] = RefundedOrder(rec)[f]
              /\ new.returnCase = "IN_TRANSIT" => new.overruled
              /\ new.returnCase = "REFUND_COMPLETED" => new.shipment = "RETURNED"
              => OrderConsistent(new)
<1>1. /\ rec.held \in Nat /\ rec.total \in Nat /\ rec.total > 0
      /\ rec.held = rec.total \/ rec.held = 0
  BY DEF OrderConsistent, StatusesAgree, OrderRecord
<1>2. rec.held = rec.total /\ rec.held - Releasable(rec) = 0
  BY <1>1 DEF Releasable
<1> DEFINE ref == [rec EXCEPT !.payment = "REFUNDED", !.txn = "REFUNDED", !.held = 0]
<1>3. RefundedOrder(rec) = ref
  BY <1>2 DEF RefundedOrder
<1>4. ref \in OrderRecord
  BY DEF OrderRecord, PaymentStatus, TxnStatus
<1>5. /\ ref.buyer = rec.buyer /\ ref.item = rec.item /\ ref.intent = rec.intent
      /\ ref.total = rec.total /\ ref.settled = rec.settled
      /\ ref.payment = "REFUNDED" /\ ref.txn = "REFUNDED" /\ ref.held = 0
  BY DEF OrderRecord
<1> HIDE DEF ref
<1>6. ASSUME NEW new \in OrderRecord,
             \A f \in {"buyer", "item", "intent", "total", "settled",
                       "payment", "txn", "held"} : new[f] = ref[f],
             new.returnCase = "IN_TRANSIT" => new.overruled,
             new.returnCase = "REFUND_COMPLETED" => new.shipment = "RETURNED"
      PROVE  OrderConsistent(new)
  <2>1. /\ new.buyer = rec.buyer /\ new.item = rec.item /\ new.intent = "COMMITTED"
        /\ new.total = rec.total /\ ~new.settled
        /\ new.payment = "REFUNDED" /\ new.txn = "REFUNDED" /\ new.held = 0
    BY <1>5, <1>6
  <2>2. StatusesAgree(new)
    BY <1>1, <2>1 DEF OrderConsistent, StatusesAgree, CapturedStatus
  <2>3. ShipmentFollows(new)
    BY <1>6, <2>1 DEF ShipmentFollows, ParcelAt
  <2>4. CheckedUnlessOverruled(new)
    BY <1>6, <2>1 DEF CheckedUnlessOverruled, PaymentMatchesStatus, ReturnMatchesOrder
  <2> QED BY <2>1, <2>2, <2>3, <2>4 DEF OrderConsistent, InEscrow
<1> QED BY <1>3, <1>4, <1>6 DEF ref

\* The three commands that give the held money back.
LEMMA RefundConsistent ==
  ASSUME OrdersTypeOK, OrdersConsistent, NEW o \in Orders
  PROVE  (CancelCaptured(o) \/ ApproveRefund(o) \/ ReceiveHeldReturn(o)) => OrderGoal
<1> DEFINE ref == RefundedOrder(order[o])
<1>1. ASSUME CancelCaptured(o) PROVE OrderGoal
  <2>1. order[o] \in OrderRecord /\ OrderConsistent(order[o])
    BY <1>1, AllocatedConsistent DEF CancelCaptured, OrdersTypeOK, OrdersConsistent, Unallocated
  <2>2. order[o].intent = "COMMITTED" /\ ~order[o].settled /\ Releasable(order[o]) > 0
    BY <1>1, <2>1 DEF CancelCaptured, OrderConsistent, StatusesAgree, OrderRecord, InEscrow,
                      CapturedStatus, Releasable
  <2>3. order[o].returnCase # "IN_TRANSIT" \/ order[o].overruled
    BY <1>1, <2>1 DEF CancelCaptured, OrderConsistent, CheckedUnlessOverruled,
                      ReturnMatchesOrder
  <2>4. order[o].returnCase # "REFUND_COMPLETED"
    BY <1>1, <2>1, <2>3 DEF CancelCaptured, OrderConsistent, CheckedUnlessOverruled,
                      ReturnMatchesOrder
  <2>5. /\ ref \in OrderRecord
        /\ ref = [order[o] EXCEPT !.payment = "REFUNDED", !.txn = "REFUNDED", !.held = 0]
    BY <2>1, <2>2, RefundedOrderConsistent
  <2>6. ref.returnCase = order[o].returnCase /\ ref.overruled = order[o].overruled
    BY <2>1, <2>5 DEF OrderRecord
  <2> HIDE DEF ref
  <2>7. OrderConsistent(ref)
    BY <2>1, <2>2, <2>3, <2>4, <2>5, <2>6, RefundedOrderConsistent DEF ref
  <2>8. order' = [order EXCEPT ![o] = ref]
    BY <1>1 DEF CancelCaptured, ref
  <2> QED BY <2>5, <2>7, <2>8, OneOrderWritten DEF OrderGoal
<1>2. ASSUME ApproveRefund(o) PROVE OrderGoal
  <2> DEFINE new == [ref EXCEPT !.shipment = "RETURNED", !.overruled = Overrules(order[o])]
  <2>1. order[o] \in OrderRecord /\ OrderConsistent(order[o])
    BY <1>2, AllocatedConsistent DEF ApproveRefund
  <2>2. order[o].intent = "COMMITTED" /\ Releasable(order[o]) > 0 /\ ~order[o].settled
    BY <1>2, <2>1 DEF ApproveRefund, OrderConsistent, StatusesAgree, OrderRecord, InEscrow,
                      CapturedStatus, Releasable
  <2>3. /\ ref \in OrderRecord
        /\ ref = [order[o] EXCEPT !.payment = "REFUNDED", !.txn = "REFUNDED", !.held = 0]
    BY <2>1, <2>2, RefundedOrderConsistent
  <2>4. order' = [order EXCEPT ![o] = new]
    BY <1>2 DEF ApproveRefund
  <2>5. ref.returnCase = order[o].returnCase
    BY <2>1, <2>3 DEF OrderRecord
  <2> HIDE DEF ref
  <2>6. /\ new \in OrderRecord
        /\ new.shipment = "RETURNED" /\ new.overruled = Overrules(order[o])
        /\ new.returnCase = order[o].returnCase
        /\ \A f \in {"buyer", "item", "intent", "total", "settled",
                     "payment", "txn", "held"} : new[f] = ref[f]
    BY <2>1, <2>3, <2>5 DEF OrderRecord, ShipmentStatus, Overrules
  <2> HIDE DEF new
  <2>7. OrderConsistent(new)
    BY <2>1, <2>2, <2>6, RefundedOrderConsistent DEF ref, Overrules
  <2> QED BY <2>4, <2>6, <2>7, OneOrderWritten DEF OrderGoal
<1>3. ASSUME ReceiveHeldReturn(o) PROVE OrderGoal
  <2> DEFINE new == [ref EXCEPT !.returnCase = "REFUND_COMPLETED", !.shipment = "RETURNED"]
  <2>1. order[o] \in OrderRecord /\ OrderConsistent(order[o])
    BY <1>3, AllocatedConsistent DEF ReceiveHeldReturn
  <2>2. order[o].intent = "COMMITTED" /\ ~order[o].settled /\ Releasable(order[o]) > 0
    BY <1>3, <2>1 DEF ReceiveHeldReturn, OrderConsistent, StatusesAgree
  <2>3. ref \in OrderRecord
    BY <2>1, <2>2, RefundedOrderConsistent
  <2>4. order' = [order EXCEPT ![o] = new]
    BY <1>3 DEF ReceiveHeldReturn
  <2> HIDE DEF ref
  <2>5. /\ new \in OrderRecord
        /\ new.shipment = "RETURNED" /\ new.returnCase = "REFUND_COMPLETED"
        /\ \A f \in {"buyer", "item", "intent", "total", "settled",
                     "payment", "txn", "held"} : new[f] = ref[f]
    BY <2>3 DEF OrderRecord, ShipmentStatus, ReturnStatus
  <2> HIDE DEF new
  <2>6. OrderConsistent(new)
    BY <2>1, <2>2, <2>5, RefundedOrderConsistent DEF ref
  <2> QED BY <2>4, <2>5, <2>6, OneOrderWritten DEF OrderGoal
<1> QED BY <1>1, <1>2, <1>3

\* Releasing a set of active orders, as one step of the specification.
LEMMA ReleaseStep ==
  ASSUME NEW or \in [Orders -> OrderRecord],
         \A o \in Orders : or[o] = Unallocated \/ OrderConsistent(or[o]),
         NEW S \in SUBSET Orders, \A o \in S : or[o].intent = "ACTIVE",
         NEW status \in {"RELEASED", "EXPIRED"},
         order' = OrdersReleased(or, S, status)
  PROVE  OrderGoal
<1> USE DEF ShipmentFollows, ParcelAt, PaymentMatchesStatus,
            ReturnMatchesOrder, StatusesAgree, CheckedUnlessOverruled
<1>1. /\ order' \in [Orders -> OrderRecord]
      /\ \A o \in Orders : order'[o] = Unallocated \/ OrderConsistent(order'[o])
  BY ReleaseConsistent
<1> QED BY <1>1 DEF OrderGoal, OrdersTypeOK, OrdersConsistent, OrderConsistent, InEscrow

\* A payment that fails leaves the order of the checkout consistent.
LEMMA DeclinedConsistent ==
  ASSUME NEW q \in OrderRecord, OrderConsistent(q), q.intent = "ACTIVE"
  PROVE  LET failed == [q EXCEPT !.payment = "FAILED"]
         IN /\ failed \in OrderRecord /\ OrderConsistent(failed)
            /\ failed.intent = "ACTIVE" /\ failed.item = q.item
            /\ failed.buyer = q.buyer /\ failed.held = q.held
<1> DEFINE failed == [q EXCEPT !.payment = "FAILED"]
<1>1. failed \in OrderRecord
  BY DEF OrderRecord, PaymentStatus
<1>2. /\ failed.buyer = q.buyer /\ failed.item = q.item /\ failed.intent = "ACTIVE"
      /\ failed.txn = q.txn /\ failed.previous = q.previous /\ failed.payment = "FAILED"
      /\ failed.shipment = q.shipment /\ failed.returnCase = q.returnCase
      /\ failed.total = q.total /\ failed.settled = q.settled
      /\ failed.overruled = q.overruled /\ failed.held = q.held
  BY DEF OrderRecord
<1>3. q.txn = "PAYMENT_PENDING" /\ q.returnCase = "NONE" /\ q.shipment = "PENDING"
  BY DEF OrderConsistent, StatusesAgree, ShipmentFollows
<1> HIDE DEF failed
<1>4. StatusesAgree(failed)
  BY <1>2, <1>3 DEF OrderConsistent, StatusesAgree, CapturedStatus
<1>5. ShipmentFollows(failed) /\ CheckedUnlessOverruled(failed)
  BY <1>2, <1>3 DEF ShipmentFollows, ParcelAt, CheckedUnlessOverruled, PaymentMatchesStatus,
                    ReturnMatchesOrder
<1>6. failed.held = IF InEscrow(failed) THEN failed.total ELSE 0
  BY <1>2, <1>3 DEF OrderConsistent, InEscrow
<1> QED BY <1>1, <1>2, <1>4, <1>5, <1>6 DEF OrderConsistent, failed

\* The end of a checkout, the cancellation of a reservation, and time passing.
LEMMA ReservationConsistent ==
  ASSUME TradeTypeOK, OrdersConsistent
  PROVE  /\ \A o \in Orders, c \in Coupons, p \in PointUses :
              ConfirmTooLate(o, c, p) \/ ConfirmDeclined(o, c, p) \/ ConfirmCaptured(o, c, p)
              => OrderGoal
         /\ \A o \in Orders : CancelReservation(o) => OrderGoal
         /\ AdvanceClock => OrderGoal
         /\ \A b \in Buyers, i \in Items, o \in Orders : StartPurchase(b, i, o) => OrderGoal
<1> USE DEF TradeTypeOK, ShipmentFollows, ParcelAt, PaymentMatchesStatus,
            ReturnMatchesOrder, StatusesAgree, CheckedUnlessOverruled
<1>1. ASSUME NEW o \in Orders, NEW c \in Coupons, NEW p \in PointUses, Checkout(o, c, p),
             NEW q \in OrderRecord, OrderConsistent(q), q.intent = "ACTIVE",
             NEW status \in {"RELEASED", "EXPIRED"},
             order' = OrdersReleased([order EXCEPT ![o] = q], {o}, status)
      PROVE  OrderGoal
  <2> DEFINE or == [order EXCEPT ![o] = q]
  <2>1. or \in [Orders -> OrderRecord] /\ or[o] = q
        /\ \A x \in Orders : x # o => or[x] = order[x]
    BY DEF OrdersTypeOK
  <2>2. \A x \in Orders : or[x] = Unallocated \/ OrderConsistent(or[x])
    BY <1>1, <2>1 DEF OrdersConsistent
  <2>3. order' = OrdersReleased(or, {o}, status)
    BY <1>1
  <2> HIDE DEF or
  <2> QED BY <1>1, <2>1, <2>2, <2>3, ReleaseStep
<1>2. ASSUME NEW o \in Orders, NEW c \in Coupons, NEW p \in PointUses
      PROVE  ConfirmTooLate(o, c, p) => OrderGoal
  BY <1>1, QuotedConsistent DEF ConfirmTooLate, Release
<1>3. ASSUME NEW o \in Orders, NEW c \in Coupons, NEW p \in PointUses,
             ConfirmDeclined(o, c, p)
      PROVE  OrderGoal
  <2> DEFINE q == Quoted(o, c, p)
             failed == [q EXCEPT !.payment = "FAILED"]
  <2>1. Checkout(o, c, p) /\ order' = OrdersReleased([order EXCEPT ![o] = failed], {o}, "RELEASED")
    BY <1>3 DEF ConfirmDeclined, Release
  <2>2. q \in OrderRecord /\ OrderConsistent(q) /\ q.intent = "ACTIVE"
    BY <2>1, QuotedConsistent
  <2> HIDE DEF q
  <2>3. failed \in OrderRecord /\ OrderConsistent(failed) /\ failed.intent = "ACTIVE"
    BY <2>2 DEF OrderRecord, PaymentStatus, OrderConsistent, InEscrow, CapturedStatus
  <2> HIDE DEF failed
  <2> QED BY <1>1, <2>1, <2>3
<1>4. ASSUME NEW o \in Orders, NEW c \in Coupons, NEW p \in PointUses,
             ConfirmCaptured(o, c, p)
      PROVE  OrderGoal
  <2> DEFINE q == Quoted(o, c, p)
             new == [q EXCEPT !.intent = "COMMITTED", !.txn = "AWAITING_SHIPMENT",
                              !.payment = "CAPTURED", !.shipment = "PENDING"]
  <2>1. Checkout(o, c, p) /\ order' = [order EXCEPT ![o] = new]
    BY <1>4 DEF ConfirmCaptured
  <2>2. q \in OrderRecord /\ OrderConsistent(q) /\ q.intent = "ACTIVE"
    BY <2>1, QuotedConsistent
  <2> HIDE DEF q
  <2>3. new \in OrderRecord /\ OrderConsistent(new)
    BY <2>2 DEF OrderRecord, PaymentStatus, IntentStatus, TxnStatus, ShipmentStatus,
                OrderConsistent, InEscrow, CapturedStatus
  <2> HIDE DEF new
  <2> QED BY <2>1, <2>3, OneOrderWritten DEF OrderGoal
<1>5. ASSUME NEW o \in Orders, CancelReservation(o) PROVE OrderGoal
  BY <1>5, ReleaseStep DEF CancelReservation, Release, OrdersTypeOK, OrdersConsistent
<1>6. ASSUME AdvanceClock PROVE OrderGoal
  BY <1>6, ReleaseStep DEF AdvanceClock, Release, Overdue, OrdersTypeOK, OrdersConsistent
<1>7. ASSUME NEW b \in Buyers, NEW i \in Items, NEW o \in Orders, StartPurchase(b, i, o)
      PROVE  OrderGoal
  <2> DEFINE or == OrdersReleased(order, Overdue(now), "EXPIRED")
             total == item[i].price + item[i].shipping
             new == NewOrder(b, i, total)
  <2>1. /\ or \in [Orders -> OrderRecord]
        /\ \A x \in Orders : or[x] = Unallocated \/ OrderConsistent(or[x])
    BY ReleaseConsistent DEF OrdersTypeOK, OrdersConsistent, Overdue
  <2>2. item[i].price \in Nat /\ total \in Nat /\ total > 0
    BY DEF ItemsTypeOK, ItemRecord
  <2>3. new \in OrderRecord /\ OrderConsistent(new)
    BY <2>2, NewOrderConsistent
  <2>4. order' = [or EXCEPT ![o] = new]
    BY <1>7 DEF StartPurchase
  <2> HIDE DEF or, new
  <2>5. order' \in [Orders -> OrderRecord]
        /\ \A x \in Orders : order'[x] = Unallocated \/ OrderConsistent(order'[x])
    BY <2>1, <2>3, <2>4
  <2> QED BY <2>5 DEF OrderGoal, OrdersTypeOK, OrdersConsistent, OrderConsistent, InEscrow
<1> QED BY <1>2, <1>3, <1>4, <1>5, <1>6, <1>7

-----------------------------------------------------------------------------
(* Stock.  As long as the last edit left room for every unit on hand or with *)
(* a buyer, the cap of a restock never cuts a unit off.                      *)

StockConsistent(i) ==
  /\ item[i].reserved = ReservedCount(order, i)
  /\ ~item[i].cut =>
       /\ item[i].reserved <= item[i].quantity
       /\ item[i].quantity + Cardinality(Out(i)) <= item[i].initial
       /\ item[i].sold <=> item[i].quantity = 0

StockInv == \A i \in Items : StockConsistent(i)

\* The units of each listing, on hand and with buyers, are as many as before.
SameUnits == \A i \in Items : \/ item[i].cut
                              \/ (item[i].quantity + Cardinality(Out(i)))'
                                 = item[i].quantity + Cardinality(Out(i))
StockGoal == ItemsTypeOK' /\ StockInv' /\ SameUnits

\* Sets of orders are finite.
LEMMA OrdersCountable ==
  ASSUME NEW S \in SUBSET Orders
  PROVE  IsFiniteSet(S) /\ Cardinality(S) \in Nat
BY ConstantsAssumption, FS_Subset, FS_CardinalityType

\* What releasing the active orders of S does to the listings: each reserved count
\* is again the number of active reservations, and no stock moves.
LEMMA ReleaseCounts ==
  ASSUME ItemsTypeOK, StockInv,
         NEW or \in [Orders -> OrderRecord],
         NEW S \in SUBSET Orders, \A o \in S : or[o].intent = "ACTIVE",
         NEW status \in {"RELEASED", "EXPIRED"},
         \A i \in Items : Active(or, i) = Active(order, i),
         NEW i \in Items
  PROVE  LET it == ItemsReleased(or, S, status)
             rel == OrdersReleased(or, S, status)
         IN /\ it \in [Items -> ItemRecord]
            /\ Active(rel, i) = Active(order, i) \ S
            /\ it[i].initial = item[i].initial /\ it[i].quantity = item[i].quantity
            /\ it[i].price = item[i].price /\ it[i].cut = item[i].cut
            /\ it[i].reserved = ReservedCount(rel, i)
            /\ ~item[i].cut => it[i].sold = item[i].sold /\ it[i].reserved <= it[i].quantity
<1> DEFINE it == ItemsReleased(or, S, status)
           rel == OrdersReleased(or, S, status)
<1>1. ASSUME NEW x \in Items
      PROVE  /\ Active(rel, x) = Active(order, x) \ S
             /\ ReservedCount(rel, x) \in Nat
             /\ ReservedCount(rel, x) <= ReservedCount(order, x)
             /\ (~\E o \in S : or[o].item = x) => Active(rel, x) = Active(order, x)
  <2>1. \A o \in Orders : /\ rel[o].item = or[o].item
                          /\ rel[o].intent = IF o \in S THEN status ELSE or[o].intent
    BY DEF OrdersReleased, ReleasedOrder, OrderRecord
  <2>2. Active(rel, x) = Active(or, x) \ S
    BY <2>1 DEF Active
  <2>3. Active(rel, x) \in SUBSET Active(order, x) /\ Active(order, x) \in SUBSET Orders
    BY <2>2 DEF Active
  <2>4. ReservedCount(rel, x) \in Nat /\ ReservedCount(rel, x) <= ReservedCount(order, x)
    BY <2>3, OrdersCountable, FS_Subset DEF ReservedCount
  <2>5. (~\E o \in S : or[o].item = x) => Active(or, x) \ S = Active(or, x)
    BY DEF Active
  <2> QED BY <2>2, <2>4, <2>5
<1>2. ASSUME NEW x \in Items
      PROVE  /\ it[x] \in ItemRecord
             /\ it[x].initial = item[x].initial /\ it[x].quantity = item[x].quantity
             /\ it[x].price = item[x].price /\ it[x].cut = item[x].cut
             /\ it[x].reserved = ReservedCount(rel, x)
             /\ ~item[x].cut => it[x].sold = item[x].sold /\ it[x].reserved <= it[x].quantity
  <2>1. item[x] \in ItemRecord /\ StockConsistent(x)
    BY DEF ItemsTypeOK, StockInv
  <2>2. CASE \E o \in S : or[o].item = x
    <3> DEFINE n == ReservedCount(rel, x)
    <3>1. it[x] = ReleasedItem(item[x], n)
      BY <2>2 DEF ItemsReleased
    <3>2. n \in Nat /\ (~item[x].cut => n <= item[x].quantity)
      BY <1>1, <2>1 DEF StockConsistent, ReservedCount, ItemRecord
    <3> HIDE DEF it, rel, n
    <3> DEFINE empty == item[x].quantity <= 0
               status_ == IF empty THEN "SOLD" ELSE IF n > 0 THEN "RESERVED" ELSE "ACTIVE"
    <3>3. it[x] = [item[x] EXCEPT !.reserved = n, !.sold = empty, !.listing = status_]
      BY <3>1 DEF ReleasedItem
    <3>4. empty \in BOOLEAN /\ status_ \in ListingStatus
      BY DEF ListingStatus
    <3>5. ~item[x].cut => item[x].sold = empty
      BY <2>1 DEF StockConsistent, ItemRecord
    <3> HIDE DEF empty, status_
    <3>6. it[x] \in ItemRecord
      BY <2>1, <3>2, <3>3, <3>4 DEF ItemRecord
    <3>7. it[x].reserved = n /\ it[x].initial = item[x].initial /\ it[x].sold = empty
          /\ it[x].quantity = item[x].quantity /\ it[x].price = item[x].price
          /\ it[x].cut = item[x].cut
      BY <2>1, <3>3 DEF ItemRecord
    <3> QED BY <3>2, <3>5, <3>6, <3>7 DEF n
  <2>3. CASE ~\E o \in S : or[o].item = x
    <3>1. it[x] = item[x]
      BY <2>3 DEF ItemsReleased
    <3>2. ReservedCount(rel, x) = ReservedCount(order, x)
      BY <1>1, <2>3 DEF ReservedCount
    <3> HIDE DEF it, rel
    <3> QED BY <2>1, <3>1, <3>2 DEF StockConsistent
  <2> QED BY <2>2, <2>3
<1>3. it = [x \in Items |-> it[x]]
  BY DEF ItemsReleased
<1>4. it \in [Items -> ItemRecord]
  <2> HIDE DEF it
  <2> QED BY <1>2, <1>3
<1> HIDE DEF it, rel
<1>5. /\ it \in [Items -> ItemRecord]
      /\ Active(rel, i) = Active(order, i) \ S
      /\ it[i].initial = item[i].initial /\ it[i].quantity = item[i].quantity
      /\ it[i].price = item[i].price /\ it[i].cut = item[i].cut
      /\ it[i].reserved = ReservedCount(rel, i)
      /\ ~item[i].cut => it[i].sold = item[i].sold /\ it[i].reserved <= it[i].quantity
  BY <1>1, <1>2, <1>4
<1> QED BY <1>5 DEF it, rel

\* A step that moves no unit and no reservation.
LEMMA NothingMoves ==
  ASSUME StockInv, item' \in [Items -> ItemRecord],
         \A o \in Orders : /\ order'[o].item = order[o].item
                           /\ order'[o].intent = order[o].intent
                           /\ order'[o].txn = "REFUNDED" <=> order[o].txn = "REFUNDED",
         \A i \in Items : /\ item'[i].initial = item[i].initial
                          /\ item'[i].quantity = item[i].quantity
                          /\ item'[i].reserved = item[i].reserved
                          /\ item'[i].cut = item[i].cut
                          /\ ~item[i].cut => item'[i].sold = item[i].sold
  PROVE  StockGoal
<1>1. ASSUME NEW i \in Items
      PROVE  StockConsistent(i)' /\ Out(i)' = Out(i) /\ item'[i].quantity = item[i].quantity
  <2>1. Out(i)' = Out(i)
    BY DEF Out
  <2>2. Active(order', i) = Active(order, i)
    BY DEF Active
  <2>3. ReservedCount(order, i)' = ReservedCount(order, i)
    BY <2>2 DEF ReservedCount, Active
  <2> QED BY <2>1, <2>3 DEF StockInv, StockConsistent
<1> QED BY <1>1 DEF StockGoal, SameUnits, StockInv, ItemsTypeOK

\* A step that only releases active reservations.
LEMMA ReleaseStock ==
  ASSUME ItemsTypeOK, StockInv,
         NEW or \in [Orders -> OrderRecord],
         \A o \in Orders : /\ or[o].item = order[o].item
                           /\ or[o].intent = order[o].intent,
         \A o \in Orders : or[o].intent = "COMMITTED" => or[o] = order[o],
         NEW S \in SUBSET Orders, \A o \in S : or[o].intent = "ACTIVE",
         NEW status \in {"RELEASED", "EXPIRED"},
         order' = OrdersReleased(or, S, status), item' = ItemsReleased(or, S, status)
  PROVE  StockGoal
<1>1. \A i \in Items : Active(or, i) = Active(order, i)
  BY DEF Active
<1>2. \A o \in Orders : /\ order'[o].item = order[o].item
                        /\ order'[o].intent = IF o \in S THEN status ELSE order[o].intent
                        /\ order[o].intent = "COMMITTED" => order'[o] = order[o]
  BY DEF OrdersReleased, ReleasedOrder, OrderRecord
<1>3. ASSUME NEW i \in Items
      PROVE  StockConsistent(i)' /\ Out(i)' = Out(i) /\ item'[i].quantity = item[i].quantity
  <2>1. Out(i)' = Out(i)
    BY <1>2 DEF Out
  <2>2. /\ item'[i].initial = item[i].initial /\ item'[i].quantity = item[i].quantity
        /\ item'[i].cut = item[i].cut
        /\ item'[i].reserved = ReservedCount(order', i)
        /\ ~item[i].cut => /\ item'[i].sold = item[i].sold
                           /\ item'[i].reserved <= item'[i].quantity
    BY <1>1, ReleaseCounts
  <2>3. ReservedCount(order, i)' = ReservedCount(order', i)
    BY DEF ReservedCount, Active
  <2> QED BY <2>1, <2>2, <2>3 DEF StockInv, StockConsistent
<1>4. ItemsTypeOK'
  <2>1. CASE Items = {}
    <3>1. item' = [i \in Items |-> item'[i]]
      BY DEF ItemsReleased
    <3> QED BY <2>1, <3>1 DEF ItemsTypeOK
  <2>2. CASE Items # {}
    BY <1>1, <2>2, ReleaseCounts DEF ItemsTypeOK
  <2> QED BY <2>1, <2>2
<1> QED BY <1>3, <1>4 DEF StockGoal, SameUnits, StockInv

\* The stock fields and the status of a listing, written together.
Written(rec, n, r, gone, status) ==
  [rec EXCEPT !.quantity = n, !.reserved = r, !.sold = gone, !.listing = status]

LEMMA ListingWritten ==
  ASSUME NEW rec \in ItemRecord, NEW n \in Nat, NEW r \in Nat, NEW gone \in BOOLEAN,
         NEW status \in ListingStatus
  PROVE  /\ Written(rec, n, r, gone, status) \in ItemRecord
         /\ Written(rec, n, r, gone, status).initial = rec.initial
         /\ Written(rec, n, r, gone, status).cut = rec.cut
         /\ Written(rec, n, r, gone, status).quantity = n
         /\ Written(rec, n, r, gone, status).reserved = r
         /\ Written(rec, n, r, gone, status).sold = gone
BY DEF ItemRecord, Written

\* A step that takes one unit back, from an order that is out to one refunded.
LEMMA OneUnitBack ==
  ASSUME ItemsTypeOK, StockInv, NEW o \in Orders, NEW j \in Items, order[o].item = j,
         order[o].intent = "COMMITTED", order[o].txn # "REFUNDED",
         order'[o].item = j, order'[o].intent = "COMMITTED",
         order'[o].txn = "REFUNDED",
         \A x \in Orders : x # o => order'[x] = order[x],
         NEW n \in {item[j].quantity + 1, CappedRestock(j)},
         item' = [item EXCEPT ![j] = Restocked(j, n)]
  PROVE  StockGoal
<1>1. StockConsistent(j) /\ item[j] \in ItemRecord
  BY DEF StockInv, ItemsTypeOK
<1>2. o \in Out(j) /\ Out(j) \in SUBSET Orders /\ Out(j)' = Out(j) \ {o}
  BY DEF Out
<1>3. Cardinality(Out(j)) \in Nat /\ Cardinality(Out(j)) > 0
      /\ Cardinality(Out(j)') = Cardinality(Out(j)) - 1
  <2>1. IsFiniteSet(Out(j)) /\ Cardinality(Out(j)) \in Nat
    BY <1>2, OrdersCountable
  <2>2. Cardinality(Out(j)) # 0
    BY <1>2, <2>1, FS_EmptySet
  <2>3. Cardinality(Out(j) \ {o}) = Cardinality(Out(j)) - 1
    BY <1>2, <2>1, FS_RemoveElement
  <2> QED BY <1>2, <2>1, <2>2, <2>3
<1>4. n \in Nat /\ (~item[j].cut => n = item[j].quantity + 1)
  BY <1>1, <1>3 DEF CappedRestock, StockConsistent, ItemRecord
<1>5. \A x \in Items : Active(order', x) = Active(order, x)
  BY DEF Active
<1>6. \A x \in Items : ReservedCount(order, x)' = ReservedCount(order, x)
  BY <1>5 DEF ReservedCount, Active
<1> DEFINE r == ReservedCount(order, j)
           gone == FALSE
           status_ == IF r > 0 THEN "RESERVED" ELSE "ACTIVE"
<1>7. item'[j] = Written(item[j], n, r, gone, status_)
  BY DEF Restocked, Written, ItemsTypeOK
<1>8. r \in Nat /\ r = item[j].reserved /\ status_ \in ListingStatus
      /\ gone \in BOOLEAN /\ ~gone
  BY <1>1 DEF StockConsistent, ItemRecord, ListingStatus
<1> HIDE DEF r, gone, status_
<1>9. /\ item'[j] \in ItemRecord /\ item'[j].initial = item[j].initial
      /\ item'[j].cut = item[j].cut
      /\ item'[j].quantity = n /\ item'[j].reserved = r /\ item'[j].sold = gone
  BY <1>1, <1>4, <1>7, <1>8, ListingWritten
<1>10. StockConsistent(j)'
  <2>1. ReservedCount(order, j)' = r
    BY <1>6 DEF r
  <2> QED BY <1>1, <1>3, <1>4, <1>8, <1>9, <2>1 DEF StockConsistent, ItemRecord
<1>11. ASSUME NEW i \in Items, i # j
       PROVE  StockConsistent(i)' /\ item'[i] = item[i] /\ Out(i)' = Out(i)
  <2>1. item'[i] = item[i]
    BY <1>11 DEF ItemsTypeOK
  <2>2. Out(i)' = Out(i)
    BY <1>11 DEF Out
  <2> QED BY <1>6, <2>1, <2>2 DEF StockInv, StockConsistent
<1>12. ItemsTypeOK'
  BY <1>9 DEF ItemsTypeOK
<1>13. item[j].cut \/ (item[j].quantity + Cardinality(Out(j)))'
                      = item[j].quantity + Cardinality(Out(j))
  BY <1>1, <1>3, <1>4, <1>9 DEF ItemRecord
<1> QED BY <1>10, <1>11, <1>12, <1>13 DEF StockGoal, SameUnits, StockInv

\* Capture: one unit leaves the stock together with its reservation.
LEMMA OneUnitSold ==
  ASSUME TradeTypeOK, OrdersConsistent, StockInv,
         NEW o \in Orders, NEW c \in Coupons, NEW p \in PointUses, ConfirmCaptured(o, c, p)
  PROVE  StockGoal
<1> DEFINE q == Quoted(o, c, p)
<1>1. PICK j \in Items : order[o].item = j
  BY QuotedConsistent DEF ConfirmCaptured
<1>2. order[o].intent = "ACTIVE" /\ q \in OrderRecord /\ q.item = j
  BY <1>1, QuotedConsistent DEF ConfirmCaptured, Checkout
<1>3. order' = [order EXCEPT ![o] = [q EXCEPT !.intent = "COMMITTED",
                  !.txn = "AWAITING_SHIPMENT", !.payment = "CAPTURED", !.shipment = "PENDING"]]
      /\ item' = [item EXCEPT ![j] = UnitSold(item[j])]
  BY <1>1 DEF ConfirmCaptured
<1> HIDE DEF q
<1>4. /\ order'[o].item = j /\ order'[o].intent = "COMMITTED"
      /\ order'[o].txn = "AWAITING_SHIPMENT"
      /\ \A x \in Orders : x # o => order'[x] = order[x]
  BY <1>2, <1>3 DEF TradeTypeOK, OrdersTypeOK, OrderRecord
<1>5. StockConsistent(j) /\ item[j] \in ItemRecord
  BY DEF StockInv, ItemsTypeOK, TradeTypeOK
<1>6. o \in Active(order, j) /\ Active(order, j) \in SUBSET Orders
      /\ Active(order', j) = Active(order, j) \ {o}
  BY <1>1, <1>2, <1>4 DEF Active
<1>7. /\ ReservedCount(order, j) \in Nat /\ ReservedCount(order, j) > 0
      /\ ReservedCount(order', j) = ReservedCount(order, j) - 1
  <2>1. IsFiniteSet(Active(order, j)) /\ Cardinality(Active(order, j)) \in Nat
    BY <1>6, OrdersCountable
  <2>2. Cardinality(Active(order, j)) # 0
    BY <1>6, <2>1, FS_EmptySet
  <2>3. Cardinality(Active(order, j) \ {o}) = Cardinality(Active(order, j)) - 1
    BY <1>6, <2>1, FS_RemoveElement
  <2> QED BY <1>6, <2>1, <2>2, <2>3 DEF ReservedCount
<1>8. o \notin Out(j) /\ Out(j) \in SUBSET Orders /\ Out(j)' = Out(j) \cup {o}
  BY <1>1, <1>2, <1>4 DEF Out
<1>9. Cardinality(Out(j)) \in Nat /\ Cardinality(Out(j)') = Cardinality(Out(j)) + 1
  <2>1. IsFiniteSet(Out(j)) /\ Cardinality(Out(j)) \in Nat
    BY <1>8, OrdersCountable
  <2> QED BY <1>8, <2>1, FS_AddElement
<1> DEFINE n == IF item[j].quantity > 0 THEN item[j].quantity - 1 ELSE 0
           r == IF item[j].reserved > 0 THEN item[j].reserved - 1 ELSE 0
           gone == n = 0
           status_ == IF n = 0 THEN "SOLD" ELSE "ACTIVE"
<1>10. item'[j] = Written(item[j], n, r, gone, status_)
  BY <1>3 DEF UnitSold, Written, ItemsTypeOK, TradeTypeOK
<1>11. /\ n \in Nat /\ (~item[j].cut => n = item[j].quantity - 1)
       /\ r \in Nat /\ r = ReservedCount(order', j) /\ (~item[j].cut => r <= n)
       /\ gone \in BOOLEAN /\ (gone <=> n = 0) /\ status_ \in ListingStatus
  BY <1>5, <1>7 DEF StockConsistent, ItemRecord, ListingStatus
<1> HIDE DEF n, r, gone, status_
<1>12. /\ item'[j] \in ItemRecord /\ item'[j].initial = item[j].initial
       /\ item'[j].cut = item[j].cut
       /\ item'[j].quantity = n /\ item'[j].reserved = r /\ item'[j].sold = gone
  BY <1>5, <1>10, <1>11, ListingWritten
<1>13. StockConsistent(j)'
  <2>1. ReservedCount(order, j)' = ReservedCount(order', j)
    BY DEF ReservedCount, Active
  <2> QED BY <1>5, <1>9, <1>11, <1>12, <2>1 DEF StockConsistent, ItemRecord
<1>14. ASSUME NEW i \in Items, i # j
       PROVE  StockConsistent(i)' /\ item'[i] = item[i] /\ Out(i)' = Out(i)
  <2>1. item'[i] = item[i]
    BY <1>3, <1>14 DEF ItemsTypeOK, TradeTypeOK
  <2>2. Out(i)' = Out(i)
    BY <1>1, <1>4, <1>14 DEF Out
  <2>3. ReservedCount(order, i)' = ReservedCount(order, i)
    BY <1>1, <1>4, <1>14 DEF ReservedCount, Active
  <2> QED BY <2>1, <2>2, <2>3 DEF StockInv, StockConsistent
<1>15. ItemsTypeOK'
  BY <1>3, <1>12 DEF ItemsTypeOK, TradeTypeOK
<1>16. item[j].cut \/ (item[j].quantity + Cardinality(Out(j)))'
                      = item[j].quantity + Cardinality(Out(j))
  BY <1>5, <1>9, <1>11, <1>12 DEF ItemRecord
<1> QED BY <1>13, <1>14, <1>15, <1>16 DEF StockGoal, SameUnits, StockInv

\* A new reservation: HasStock leaves room for it once the overdue ones are gone.
LEMMA OneUnitReserved ==
  ASSUME TradeTypeOK, OrdersConsistent, StockInv,
         NEW b \in Buyers, NEW j \in Items, NEW o \in Orders, StartPurchase(b, j, o)
  PROVE  StockGoal
<1> DEFINE S == Overdue(now)
           or == OrdersReleased(order, S, "EXPIRED")
           it == ItemsReleased(order, S, "EXPIRED")
           new == NewOrder(b, j, item[j].price + item[j].shipping)
<1>1. /\ order[o] = Unallocated /\ HasStock(j)
      /\ order' = [or EXCEPT ![o] = new]
      /\ item' = [it EXCEPT ![j].reserved = it[j].reserved + 1,
                            ![j].listing = IF it[j].quantity - (it[j].reserved + 1) <= 0
                                           THEN "RESERVED" ELSE it[j].listing]
  BY DEF StartPurchase
<1>2. S \in SUBSET Orders /\ (\A x \in S : order[x].intent = "ACTIVE") /\ o \notin S
      /\ order \in [Orders -> OrderRecord]
  BY <1>1 DEF Overdue, Unallocated, TradeTypeOK, OrdersTypeOK
<1>3. \A i \in Items :
        /\ it \in [Items -> ItemRecord]
        /\ Active(or, i) = Active(order, i) \ S
        /\ it[i].initial = item[i].initial /\ it[i].quantity = item[i].quantity
        /\ it[i].cut = item[i].cut
        /\ it[i].reserved = ReservedCount(or, i)
        /\ ~item[i].cut => it[i].sold = item[i].sold /\ it[i].reserved <= it[i].quantity
  BY <1>2, ReleaseCounts DEF TradeTypeOK
<1>4. \A x \in Orders : /\ or[x].item = order[x].item
                        /\ order[x].intent = "COMMITTED" => or[x] = order[x]
                        /\ x \in S => or[x].intent = "EXPIRED"
                        /\ x \notin S => or[x] = order[x]
  BY <1>2 DEF OrdersReleased, ReleasedOrder, OrderRecord
<1>5. or \in [Orders -> OrderRecord]
  BY <1>2, ReleaseConsistent DEF OrdersConsistent
<1>6. new.item = j /\ new.intent = "ACTIVE"
  BY DEF NewOrder, Unallocated
<1> HIDE DEF it, or, new
<1>7. order'[o] = new /\ (\A x \in Orders : x # o => order'[x] = or[x])
  BY <1>1, <1>5
<1>8. ASSUME NEW i \in Items
      PROVE  /\ Out(i)' = Out(i)
             /\ Active(order', i) = IF i = j THEN Active(or, j) \cup {o} ELSE Active(or, i)
  <2>1. or[o] = order[o] /\ order[o].intent = "NONE" /\ order[o].item = NoOne
    <3>1. or[o] = order[o]
      BY <1>2, <1>4
    <3> QED BY <1>1, <3>1 DEF Unallocated
  <2>2. Out(i)' = Out(i)
    BY <1>2, <1>4, <1>6, <1>7, <2>1 DEF Out
  <2>3. Active(order', i) = IF i = j THEN Active(or, j) \cup {o} ELSE Active(or, i)
    BY <1>6, <1>7, <2>1 DEF Active
  <2> QED BY <2>2, <2>3
<1>9. /\ ReservedCount(or, j) \in Nat
      /\ ReservedCount(order', j) = ReservedCount(or, j) + 1
      /\ ReservedCount(or, j) < item[j].quantity
  <2>1. Active(or, j) \in SUBSET Orders /\ o \notin Active(or, j)
    BY <1>1, <1>2, <1>4 DEF Active, Unallocated
  <2>2. IsFiniteSet(Active(or, j)) /\ Cardinality(Active(or, j)) \in Nat
    BY <2>1, OrdersCountable
  <2>3. Cardinality(Active(or, j) \cup {o}) = Cardinality(Active(or, j)) + 1
    BY <2>1, <2>2, FS_AddElement
  <2>4. IsFiniteSet(Active(order, j))
    BY OrdersCountable DEF Active
  <2>5. Cardinality(Active(or, j))
        = Cardinality(Active(order, j)) - Cardinality(Active(order, j) \cap S)
    BY <1>3, <2>4, FS_Difference
  <2>6. item[j].quantity > item[j].reserved - Cardinality(Active(order, j) \cap S)
    BY <1>1 DEF HasStock
  <2>7. item[j].reserved = Cardinality(Active(order, j))
    BY DEF StockInv, StockConsistent, ReservedCount
  <2>8. item[j].quantity \in Nat
    BY DEF TradeTypeOK, ItemsTypeOK, ItemRecord
  <2> QED BY <1>8, <2>2, <2>3, <2>5, <2>6, <2>7, <2>8 DEF ReservedCount
<1> DEFINE status_ == IF it[j].quantity - (it[j].reserved + 1) <= 0
                      THEN "RESERVED" ELSE it[j].listing
<1>10. /\ item'[j] = [it[j] EXCEPT !.reserved = it[j].reserved + 1, !.listing = status_]
       /\ \A i \in Items : i # j => item'[i] = it[i]
       /\ it[j] \in ItemRecord
  BY <1>1, <1>3
<1>11. status_ \in ListingStatus /\ it[j].reserved + 1 \in Nat
  BY <1>10 DEF ItemRecord, ListingStatus
<1> HIDE DEF status_
<1>12. /\ item'[j] \in ItemRecord /\ item'[j].reserved = it[j].reserved + 1
       /\ item'[j].quantity = it[j].quantity /\ item'[j].initial = it[j].initial
       /\ item'[j].sold = it[j].sold /\ item'[j].cut = it[j].cut
  BY <1>10, <1>11 DEF ItemRecord
<1>13. ASSUME NEW i \in Items
       PROVE  StockConsistent(i)' /\ Out(i)' = Out(i) /\ item'[i].quantity = item[i].quantity
  <2>1. ReservedCount(order, i)' = ReservedCount(order', i)
    BY DEF ReservedCount, Active
  <2>2. StockConsistent(i)
    BY DEF StockInv
  <2>3. CASE i = j
    <3>1. it[j].quantity \in Nat /\ it[j].quantity = item[j].quantity
      BY <1>3, <1>10 DEF ItemRecord
    <3> QED BY <1>3, <1>8, <1>9, <1>12, <2>1, <2>2, <2>3, <3>1 DEF StockConsistent
  <2>4. CASE i # j
    <3>1. ReservedCount(order', i) = ReservedCount(or, i)
      BY <1>8, <2>4 DEF ReservedCount
    <3> QED BY <1>3, <1>8, <1>10, <2>1, <2>2, <2>4, <3>1 DEF StockConsistent
  <2> QED BY <2>3, <2>4
<1>14. ItemsTypeOK'
  BY <1>1, <1>3, <1>12 DEF ItemsTypeOK
<1> QED BY <1>13, <1>14 DEF StockGoal, SameUnits, StockInv

-----------------------------------------------------------------------------
(* The types of the listings, edits included.                                *)

LEMMA ItemsReleasedType ==
  ASSUME ItemsTypeOK, NEW or, NEW S, NEW status
  PROVE  ItemsReleased(or, S, status) \in [Items -> ItemRecord]
<1> DEFINE it == ItemsReleased(or, S, status)
           rel == OrdersReleased(or, S, status)
<1>1. ASSUME NEW i \in Items PROVE it[i] \in ItemRecord
  <2>1. item[i] \in ItemRecord
    BY DEF ItemsTypeOK
  <2>2. CASE \E o \in S : or[o].item = i
    <3> DEFINE n == ReservedCount(rel, i)
               gone == item[i].quantity <= 0
               status_ == IF gone THEN "SOLD" ELSE IF n > 0 THEN "RESERVED" ELSE "ACTIVE"
    <3>1. it[i] = Written(item[i], item[i].quantity, n, gone, status_)
      BY <2>1, <2>2 DEF ItemsReleased, ReleasedItem, Written, ItemRecord
    <3>2. n \in Nat
      BY OrdersCountable DEF ReservedCount, Active
    <3>3. gone \in BOOLEAN /\ status_ \in ListingStatus /\ item[i].quantity \in Nat
      BY <2>1 DEF ListingStatus, ItemRecord
    <3> HIDE DEF it, n, gone, status_
    <3> QED BY <2>1, <3>1, <3>2, <3>3, ListingWritten
  <2>3. CASE ~\E o \in S : or[o].item = i
    BY <2>1, <2>3 DEF ItemsReleased
  <2> QED BY <2>2, <2>3
<1>2. it = [i \in Items |-> it[i]]
  BY DEF ItemsReleased
<1> HIDE DEF it
<1>3. it \in [Items -> ItemRecord]
  BY <1>1, <1>2
<1> QED BY <1>3 DEF it

\* Taking a unit back, for any quantity it leaves on hand.
LEMMA RestockedType ==
  ASSUME ItemsTypeOK, NEW i \in Items, NEW n \in Nat,
         item' = [item EXCEPT ![i] = Restocked(i, n)]
  PROVE  ItemsTypeOK'
<1> DEFINE r == ReservedCount(order, i)
           gone == FALSE
           status_ == IF r > 0 THEN "RESERVED" ELSE "ACTIVE"
<1>1. item[i] \in ItemRecord
  BY DEF ItemsTypeOK
<1>2. Restocked(i, n) = Written(item[i], n, r, gone, status_)
  BY DEF Restocked, Written
<1>3. r \in Nat
  BY OrdersCountable DEF ReservedCount, Active
<1>4. gone \in BOOLEAN /\ status_ \in ListingStatus
  BY DEF ListingStatus
<1> HIDE DEF r, gone, status_
<1>5. Restocked(i, n) \in ItemRecord
  BY <1>1, <1>2, <1>3, <1>4, ListingWritten
<1> QED BY <1>5 DEF ItemsTypeOK

LEMMA CappedRestockType ==
  ASSUME ItemsTypeOK, NEW i \in Items
  PROVE  item[i].quantity + 1 \in Nat /\ CappedRestock(i) \in Nat
BY DEF ItemsTypeOK, ItemRecord, CappedRestock

\* Every command that writes a listing leaves its fields in their types.
LEMMA ItemsTyped ==
  ASSUME TradeTypeOK, OrdersConsistent, Next
  PROVE  ItemsTypeOK'
<1> USE DEF TradeTypeOK
<1>1. ASSUME NEW b \in Buyers, NEW i \in Items, NEW o \in Orders, StartPurchase(b, i, o)
      PROVE  ItemsTypeOK'
  <2> DEFINE it == ItemsReleased(order, Overdue(now), "EXPIRED")
             status_ == IF it[i].quantity - (it[i].reserved + 1) <= 0
                        THEN "RESERVED" ELSE it[i].listing
  <2>1. it \in [Items -> ItemRecord]
    BY ItemsReleasedType
  <2>2. item' = [it EXCEPT ![i].reserved = it[i].reserved + 1, ![i].listing = status_]
    BY <1>1 DEF StartPurchase
  <2> HIDE DEF it
  <2>3. it[i] \in ItemRecord /\ it[i].reserved + 1 \in Nat /\ status_ \in ListingStatus
    BY <2>1 DEF ItemRecord, ListingStatus
  <2> HIDE DEF status_
  <2>4. [it[i] EXCEPT !.reserved = it[i].reserved + 1, !.listing = status_] \in ItemRecord
    BY <2>3 DEF ItemRecord
  <2> QED BY <2>1, <2>2, <2>4 DEF ItemsTypeOK
<1>2. ASSUME NEW o \in Orders, NEW c \in Coupons, NEW p \in PointUses,
             ConfirmTooLate(o, c, p) \/ ConfirmDeclined(o, c, p)
      PROVE  ItemsTypeOK'
  BY <1>2, ItemsReleasedType DEF ConfirmTooLate, ConfirmDeclined, Release, ItemsTypeOK
<1>3. ASSUME NEW o \in Orders, NEW c \in Coupons, NEW p \in PointUses,
             ConfirmCaptured(o, c, p)
      PROVE  ItemsTypeOK'
  <2>1. PICK j \in Items : order[o].item = j
    BY <1>3, QuotedConsistent DEF ConfirmCaptured
  <2>2. item' = [item EXCEPT ![j] = UnitSold(item[j])] /\ item[j] \in ItemRecord
    BY <1>3, <2>1 DEF ConfirmCaptured, ItemsTypeOK
  <2> DEFINE n == IF item[j].quantity > 0 THEN item[j].quantity - 1 ELSE 0
             r == IF item[j].reserved > 0 THEN item[j].reserved - 1 ELSE 0
             gone == n = 0
             status_ == IF n = 0 THEN "SOLD" ELSE "ACTIVE"
  <2>3. UnitSold(item[j]) = Written(item[j], n, r, gone, status_)
    BY DEF UnitSold, Written
  <2>4. n \in Nat /\ r \in Nat /\ gone \in BOOLEAN /\ status_ \in ListingStatus
    BY <2>2 DEF ItemRecord, ListingStatus
  <2> HIDE DEF n, r, gone, status_
  <2>5. UnitSold(item[j]) \in ItemRecord
    BY <2>2, <2>3, <2>4, ListingWritten
  <2> QED BY <2>2, <2>5 DEF ItemsTypeOK
<1>4. ASSUME NEW o \in Orders, Undo(o) PROVE ItemsTypeOK'
  <2>1. CASE CancelReservation(o)
    BY <2>1, ItemsReleasedType DEF CancelReservation, Release, ItemsTypeOK
  <2>2. ASSUME CancelCaptured(o) \/ ApproveRefund(o) \/ ReceiveHeldReturn(o)
               \/ ReceiveSettledReturn(o)
        PROVE  ItemsTypeOK'
    <3>1. OrderConsistent(order[o])
      BY <2>2, AllocatedConsistent
         DEF CancelCaptured, ApproveRefund, ReceiveHeldReturn, ReceiveSettledReturn,
             OrdersTypeOK, OrdersConsistent, Unallocated
    <3>2. PICK j \in Items : order[o].item = j
      BY <3>1 DEF OrderConsistent, StatusesAgree
    <3>3. PICK n \in Nat : item' = [item EXCEPT ![j] = Restocked(j, n)]
      BY <2>2, <3>2, CappedRestockType
         DEF CancelCaptured, ApproveRefund, ReceiveHeldReturn, ReceiveSettledReturn
    <3> QED BY <3>3, RestockedType
  <2>3. CASE RequestCancellation(o) \/ RequestReturn(o) \/ ApproveReturn(o) \/ DeclineRequest(o)
    BY <2>3 DEF RequestCancellation, RequestReturn, ApproveReturn, DeclineRequest, ItemsTypeOK
  <2> QED BY <1>4, <2>1, <2>2, <2>3 DEF Undo
<1>5. ASSUME NEW o \in Orders, Fulfil(o) PROVE ItemsTypeOK'
  BY <1>5 DEF Fulfil, ShipOrder, ShipmentFails, MarkDelivered, BuyerReviews, SellerReviews,
              ItemsTypeOK
<1>6. ASSUME NEW i \in Items, Listing(i) PROVE ItemsTypeOK'
  <2>0. item[i] \in ItemRecord
    BY DEF ItemsTypeOK
  <2>1. ASSUME NEW approve \in BOOLEAN, ReviewListing(i, approve) PROVE ItemsTypeOK'
    BY <2>0, <2>1 DEF ReviewListing, ItemsTypeOK, ItemRecord, ListingStatus
  <2>2. CASE PauseListing(i)
    BY <2>0, <2>2 DEF PauseListing, ItemsTypeOK, ItemRecord, ListingStatus
  <2>3. CASE ResumeListing(i)
    BY <2>0, <2>3 DEF ResumeListing, ItemsTypeOK, ItemRecord, ListingStatus
  <2>4. ASSUME NEW e \in Edits, UpdateListing(i, e) PROVE ItemsTypeOK'
    <3>1. e \in Edit /\ item' = [item EXCEPT ![i] = EditedItem(i, e)]
      BY <2>4, ConstantsAssumption DEF UpdateListing
    <3>2. EditedItem(i, e) \in ItemRecord
      <4> DEFINE gone == e.quantity = 0
                 status_ == IF e.quantity = 0 THEN "SOLD"
                            ELSE IF e.warned THEN "HELD" ELSE "ACTIVE"
                 verdict == IF e.warned THEN "HELD" ELSE "APPROVED"
                 cut_ == e.initial < e.quantity + Cardinality(Out(i))
      <4>1. /\ EditedItem(i, e)
                = [item[i] EXCEPT !.price = e.price, !.shipping = e.shipping,
                                  !.initial = e.initial, !.quantity = e.quantity,
                                  !.sold = gone, !.cut = cut_,
                                  !.listing = status_, !.moderation = verdict]
            /\ gone \in BOOLEAN /\ cut_ \in BOOLEAN /\ status_ \in ListingStatus
            /\ verdict \in {"APPROVED", "HELD", "REJECTED"}
        BY DEF EditedItem, ListingStatus
      <4>2. e.price \in Nat \ {0} /\ e.shipping \in Nat /\ e.initial \in Nat
            /\ e.quantity \in Nat
        BY <3>1 DEF Edit
      <4> HIDE DEF gone, cut_, status_, verdict
      <4> QED BY <2>0, <4>1, <4>2 DEF ItemRecord
    <3> QED BY <3>1, <3>2 DEF ItemsTypeOK
  <2> QED BY <1>6, <2>1, <2>2, <2>3, <2>4 DEF Listing
<1>7. ASSUME Environment PROVE ItemsTypeOK'
  BY <1>7, ItemsReleasedType
     DEF Environment, Deposit, Withdraw, InjectFailure, AdvanceClock, RestoreLaterClock,
         Release, ItemsTypeOK
<1> QED BY <1>1, <1>2, <1>3, <1>4, <1>5, <1>6, <1>7 DEF Next, Purchase

-----------------------------------------------------------------------------
(* The theorems.                                                             *)

TradeInv == TradeTypeOK /\ OrdersConsistent

LEMMA TradeInit == Init => TradeInv
<1> SUFFICES ASSUME Init PROVE TradeInv
  OBVIOUS
<1>1. now \in Nat /\ OrdersConsistent
  BY DEF Init, OrdersConsistent
<1>2. Unallocated \in OrderRecord
  BY DEF Unallocated, OrderRecord, IntentStatus, TxnStatus, PaymentStatus, ShipmentStatus,
         ReturnStatus
<1>3. OrdersTypeOK
  BY <1>2 DEF Init, OrdersTypeOK
<1>4. ASSUME NEW i \in Items, NEW warned \in BOOLEAN PROVE Listed(i, warned) \in ItemRecord
  <2> DEFINE stock == Catalog[i].stock
             gone == stock = 0
             status_ == IF stock = 0 THEN "SOLD" ELSE IF warned THEN "HELD" ELSE "ACTIVE"
             verdict == IF warned THEN "HELD" ELSE "APPROVED"
  <2>1. Catalog[i].price \in Nat \ {0} /\ Catalog[i].shipping \in Nat /\ stock \in Nat
    BY ConstantsAssumption
  <2>2. gone \in BOOLEAN /\ status_ \in ListingStatus
        /\ verdict \in {"APPROVED", "HELD", "REJECTED"}
    BY DEF ListingStatus
  <2>3. Listed(i, warned)
        = [price |-> Catalog[i].price, shipping |-> Catalog[i].shipping,
           initial |-> stock, quantity |-> stock, reserved |-> 0, sold |-> gone,
           cut |-> FALSE, listing |-> status_, moderation |-> verdict]
    BY DEF Listed
  <2> HIDE DEF stock, gone, status_, verdict
  <2> QED BY <2>1, <2>2, <2>3 DEF ItemRecord
<1>5. ItemsTypeOK
  BY <1>4 DEF Init, ItemsTypeOK
<1> QED BY <1>1, <1>3, <1>5 DEF TradeInv, TradeTypeOK

LEMMA TradeStep == TradeInv /\ [Next]_vars => TradeInv'
<1> SUFFICES ASSUME TradeInv, [Next]_vars PROVE TradeInv'
  OBVIOUS
<1> USE DEF TradeInv, ShipmentFollows, ParcelAt, PaymentMatchesStatus,
            ReturnMatchesOrder, StatusesAgree, CheckedUnlessOverruled
<1>1. CASE UNCHANGED vars
  BY <1>1 DEF vars, TradeTypeOK, OrdersTypeOK, ItemsTypeOK, OrdersConsistent,
              OrderConsistent, InEscrow
<1>2. CASE Next
  <2>1. now' \in Nat
    <3>0. now \in Nat
      BY DEF TradeTypeOK
    <3>1. ASSUME now' = now \/ now' = now + 1 PROVE now' \in Nat
      <4>1. now + 1 \in Nat
        BY <3>0
      <4>2. CASE now' = now
        BY <3>0, <4>2
      <4>3. CASE now' = now + 1
        BY <4>1, <4>3
      <4> QED BY <3>1, <4>2, <4>3
    <3>2. CASE Purchase
      <4>1. ASSUME NEW b \in Buyers, NEW i \in Items, NEW o \in Orders, StartPurchase(b, i, o)
            PROVE  now' = now
        BY <4>1 DEF StartPurchase
      <4>2. ASSUME NEW o \in Orders, NEW c \in Coupons, NEW p \in PointUses,
                   ConfirmTooLate(o, c, p) \/ ConfirmDeclined(o, c, p)
                   \/ ConfirmCaptured(o, c, p)
            PROVE  now' = now
        BY <4>2 DEF ConfirmTooLate, ConfirmDeclined, ConfirmCaptured
      <4> QED BY <3>1, <3>2, <4>1, <4>2 DEF Purchase
    <3>3. ASSUME NEW o \in Orders, Fulfil(o) PROVE now' = now
      BY <3>3 DEF Fulfil, ShipOrder, ShipmentFails, MarkDelivered, BuyerReviews,
                  SellerReviews
    <3>4. ASSUME NEW o \in Orders, Undo(o) PROVE now' = now
      BY <3>4 DEF Undo, CancelReservation, CancelCaptured, RequestCancellation,
                  RequestReturn, ApproveReturn, ApproveRefund, DeclineRequest,
                  ReceiveHeldReturn, ReceiveSettledReturn
    <3>5. ASSUME NEW i \in Items, Listing(i) PROVE now' = now
      BY <3>5 DEF Listing, ReviewListing, PauseListing, ResumeListing, UpdateListing
    <3>6. CASE Environment
      BY <3>1, <3>6 DEF Environment, Deposit, Withdraw, InjectFailure, AdvanceClock,
                        RestoreLaterClock
    <3> QED BY <1>2, <3>1, <3>2, <3>3, <3>4, <3>5, <3>6 DEF Next
  <2>2. ItemsTypeOK'
    BY <1>2, ItemsTyped
  <2>3. OrderGoal
    <3>1. CASE Purchase
      BY <3>1, ReservationConsistent DEF Purchase
    <3>2. ASSUME NEW o \in Orders, Fulfil(o) PROVE OrderGoal
      BY <3>2, FulfilConsistent DEF TradeTypeOK
    <3>3. ASSUME NEW o \in Orders, Undo(o) PROVE OrderGoal
      BY <3>3, RequestConsistent, RefundConsistent, ReservationConsistent
         DEF Undo, TradeTypeOK
    <3>4. ASSUME order' = order PROVE OrderGoal
      BY <3>4 DEF OrderGoal, TradeTypeOK, OrdersTypeOK, OrdersConsistent, OrderConsistent,
                  InEscrow
    <3>5. ASSUME NEW i \in Items, Listing(i) PROVE OrderGoal
      BY <3>4, <3>5 DEF Listing, ReviewListing, PauseListing, ResumeListing, UpdateListing
    <3>6. CASE Environment
      BY <3>4, <3>6, ReservationConsistent
         DEF Environment, Deposit, Withdraw, InjectFailure, RestoreLaterClock
    <3> QED BY <1>2, <3>1, <3>2, <3>3, <3>5, <3>6 DEF Next
  <2> QED BY <2>1, <2>2, <2>3 DEF TradeTypeOK, OrderGoal
<1> QED BY <1>1, <1>2

\* The listings and the orders have their types, for every catalog and every edit.
THEOREM TradeTypesAlwaysOK == Spec => []TradeTypeOK
<1>1. TradeInv => TradeTypeOK
  BY DEF TradeInv
<1> QED BY <1>1, TradeInit, TradeStep, PTL DEF Spec

\* Intent, transaction, payment, shipment, return case and hold of every order always
\* agree: startPurchase, confirmPurchase, the fulfilment commands, cancelOrder,
\* resolveCancellation, requestReturn and confirmReturnReceived keep the six in step,
\* and the engine's own check of an order fails only after a second decision on an
\* approved return.
THEOREM OrdersAlwaysConsistent == Spec => []OrdersConsistent
<1>1. TradeInv => OrdersConsistent
  BY DEF TradeInv
<1> QED BY <1>1, TradeInit, TradeStep, PTL DEF Spec

-----------------------------------------------------------------------------
(* Stock.                                                                    *)

LEMMA StockInit == Init => StockInv
<1> SUFFICES ASSUME Init, NEW i \in Items PROVE StockConsistent(i)
  BY DEF StockInv
<1>1. Out(i) = {} /\ Active(order, i) = {}
  BY DEF Init, Out, Active, Unallocated
<1>2. Cardinality(Out(i)) = 0 /\ ReservedCount(order, i) = 0
  BY <1>1, FS_EmptySet DEF ReservedCount
<1>3. PICK warned \in [Items -> BOOLEAN] : item = [x \in Items |-> Listed(x, warned[x])]
  BY DEF Init
<1>4. Catalog[i].stock \in Nat
  BY ConstantsAssumption
<1>5. /\ item[i].initial = Catalog[i].stock /\ item[i].quantity = Catalog[i].stock
      /\ item[i].reserved = 0 /\ (item[i].sold <=> Catalog[i].stock = 0)
      /\ item[i].cut = FALSE
  BY <1>3 DEF Listed
<1> QED BY <1>2, <1>4, <1>5 DEF StockConsistent

\* The refunds that take the parcel back: one unit returns from a paid order.
LEMMA RefundStock ==
  ASSUME TradeInv, StockInv, NEW o \in Orders,
         CancelCaptured(o) \/ ApproveRefund(o) \/ ReceiveHeldReturn(o)
         \/ ReceiveSettledReturn(o)
  PROVE  StockGoal
<1> USE DEF TradeInv
<1> DEFINE rec == order[o]
<1>1. rec \in OrderRecord /\ order \in [Orders -> OrderRecord] /\ ItemsTypeOK
  BY DEF TradeTypeOK, OrdersTypeOK
<1>2. rec # Unallocated
  BY DEF CancelCaptured, ApproveRefund, ReceiveHeldReturn, ReceiveSettledReturn, Unallocated
<1>3. OrderConsistent(rec)
  BY <1>2 DEF OrdersConsistent
<1>4. rec.intent = "COMMITTED" /\ rec.item \in Items
  BY <1>3 DEF CancelCaptured, ApproveRefund, ReceiveHeldReturn, ReceiveSettledReturn,
              OrderConsistent, StatusesAgree, CapturedStatus
<1>5. CASE rec.txn = "REFUNDED"
  <2>1. rec.held = 0 /\ rec.payment = "REFUNDED" /\ rec.total \in Nat
    BY <1>1, <1>3, <1>5 DEF OrderConsistent, StatusesAgree, InEscrow, OrderRecord
  <2>2. rec.settled /\ rec.returnCase = "IN_TRANSIT"
    BY <1>5, <2>1 DEF CancelCaptured, ApproveRefund, ReceiveHeldReturn,
                      ReceiveSettledReturn, Releasable
  <2> QED BY <1>3, <1>5, <2>2 DEF OrderConsistent, StatusesAgree
<1>6. CASE rec.txn # "REFUNDED"
  <2>1. /\ order'[o].item = rec.item /\ order'[o].intent = "COMMITTED"
        /\ order'[o].txn = "REFUNDED"
        /\ \A x \in Orders : x # o => order'[x] = order[x]
    <3>1. CASE CancelCaptured(o)
      BY <1>1, <1>4, <3>1 DEF CancelCaptured, RefundedOrder, OrderRecord
    <3>2. CASE ApproveRefund(o)
      BY <1>1, <1>4, <3>2 DEF ApproveRefund, RefundedOrder, OrderRecord
    <3>3. CASE ReceiveHeldReturn(o)
      BY <1>1, <1>4, <3>3 DEF ReceiveHeldReturn, RefundedOrder, OrderRecord
    <3>4. CASE ReceiveSettledReturn(o)
      BY <1>1, <1>4, <3>4 DEF ReceiveSettledReturn, OrderRecord
    <3> QED BY <3>1, <3>2, <3>3, <3>4
  <2>2. \E n \in {item[rec.item].quantity + 1, CappedRestock(rec.item)} :
          item' = [item EXCEPT ![rec.item] = Restocked(rec.item, n)]
    BY DEF CancelCaptured, ApproveRefund, ReceiveHeldReturn, ReceiveSettledReturn
  <2> QED BY <1>1, <1>4, <1>6, <2>1, <2>2, OneUnitBack
<1> QED BY <1>5, <1>6

\* An edit recomputes what the stock of its listing leaves room for.
LEMMA EditedStock ==
  ASSUME TradeInv, StockInv, item' \in [Items -> ItemRecord],
         NEW i \in Items, NEW e \in Edits, UpdateListing(i, e)
  PROVE  StockInv'
<1>1. /\ item' = [item EXCEPT ![i] = EditedItem(i, e)] /\ order' = order
      /\ item[i].reserved <= e.quantity /\ item \in [Items -> ItemRecord]
      /\ item[i].reserved \in Nat
  BY DEF UpdateListing, TradeInv, TradeTypeOK, ItemsTypeOK, ItemRecord
<1>2. \A x \in Items : Out(x)' = Out(x) /\ ReservedCount(order, x)' = ReservedCount(order, x)
  BY <1>1 DEF Out, ReservedCount, Active
<1>3. ASSUME NEW x \in Items PROVE StockConsistent(x)'
  <2>1. CASE x = i
    <3>1. /\ item'[i].reserved = item[i].reserved /\ item'[i].quantity = e.quantity
          /\ item'[i].initial = e.initial /\ (item'[i].sold <=> e.quantity = 0)
          /\ item'[i].cut <=> e.initial < e.quantity + Cardinality(Out(i))
      <4> DEFINE n == Cardinality(Out(i))
                 tight == e.initial < e.quantity + n
                 new == EditedItem(i, e)
                 ls == IF e.quantity = 0 THEN "SOLD"
                       ELSE IF e.warned THEN "HELD" ELSE "ACTIVE"
                 md == IF e.warned THEN "HELD" ELSE "APPROVED"
      <4>1. item'[i] = new /\ item[i] \in ItemRecord
        BY <1>1
      <4>2. new = [item[i] EXCEPT
                 !.price = e.price, !.shipping = e.shipping, !.initial = e.initial,
                 !.quantity = e.quantity, !.sold = e.quantity = 0, !.cut = tight,
                 !.listing = ls, !.moderation = md]
        BY DEF EditedItem
      <4> HIDE DEF tight, new, ls, md
      <4>3. /\ new.reserved = item[i].reserved /\ new.quantity = e.quantity
            /\ new.initial = e.initial /\ new.sold = (e.quantity = 0) /\ new.cut = tight
        BY <4>1, <4>2 DEF ItemRecord
      <4> QED BY <4>1, <4>3 DEF tight
    <3>2. Cardinality(Out(i)) \in Nat
      BY OrdersCountable DEF Out
    <3>3. e.initial \in Nat /\ e.quantity \in Nat
      BY ConstantsAssumption DEF Edit
    <3>4. item[i].reserved = ReservedCount(order, i)
      BY DEF StockInv, StockConsistent
    <3> QED BY <1>1, <1>2, <2>1, <3>1, <3>2, <3>3, <3>4 DEF StockConsistent
  <2>2. CASE x # i
    <3>1. item'[x] = item[x] /\ StockConsistent(x)
      BY <1>1, <2>2 DEF StockInv
    <3> QED BY <1>2, <3>1 DEF StockConsistent
  <2> QED BY <2>1, <2>2
<1> QED BY <1>3 DEF StockInv

\* A step is the seller's edit, or keeps the units of every listing not cut.
LEMMA StockStep ==
  ASSUME TradeInv, StockInv, [Next]_vars
  PROVE  /\ StockInv'
         /\ SameUnits \/ \E i \in Items, e \in Edits : UpdateListing(i, e)
<1> USE DEF TradeInv
<1>1. CASE UNCHANGED vars
  BY <1>1 DEF vars, StockInv, StockConsistent, SameUnits, Out, ReservedCount, Active
<1>2. CASE Next
  <2>0. /\ order \in [Orders -> OrderRecord] /\ ItemsTypeOK
        /\ item' \in [Items -> ItemRecord]
    BY <1>2, ItemsTyped DEF TradeTypeOK, OrdersTypeOK, ItemsTypeOK
  <2>1. ASSUME NEW b \in Buyers, NEW i \in Items, NEW o \in Orders, StartPurchase(b, i, o)
        PROVE  StockGoal
    BY <2>1, OneUnitReserved
  <2>2. ASSUME NEW o \in Orders, NEW c \in Coupons, NEW p \in PointUses,
               ConfirmTooLate(o, c, p) \/ ConfirmDeclined(o, c, p)
        PROVE  StockGoal
    <3> DEFINE qs == Quoted(o, c, p)
               new == IF ConfirmTooLate(o, c, p) THEN qs ELSE [qs EXCEPT !.payment = "FAILED"]
               or == [order EXCEPT ![o] = new]
    <3>1. /\ qs \in OrderRecord /\ qs.intent = "ACTIVE" /\ qs.item = order[o].item
          /\ order[o].intent = "ACTIVE"
      BY <2>2, QuotedConsistent DEF ConfirmTooLate, ConfirmDeclined, Checkout
    <3> HIDE DEF qs
    <3>2. new \in OrderRecord /\ new.intent = "ACTIVE" /\ new.item = order[o].item
      BY <3>1 DEF OrderRecord, PaymentStatus
    <3>3. \E status \in {"RELEASED", "EXPIRED"} :
            /\ order' = OrdersReleased(or, {o}, status)
            /\ item' = ItemsReleased(or, {o}, status)
      <4>1. CASE ConfirmTooLate(o, c, p)
        BY <4>1 DEF ConfirmTooLate, Release, qs
      <4>2. CASE ~ConfirmTooLate(o, c, p)
        BY <2>2, <4>2 DEF ConfirmDeclined, Release, qs
      <4> QED BY <4>1, <4>2
    <3> HIDE DEF new
    <3>4. /\ or \in [Orders -> OrderRecord]
          /\ \A x \in Orders : /\ or[x].item = order[x].item
                               /\ or[x].intent = order[x].intent
                               /\ or[x].intent = "COMMITTED" => or[x] = order[x]
          /\ \A x \in {o} : or[x].intent = "ACTIVE"
      BY <2>0, <3>1, <3>2
    <3> HIDE DEF or
    <3> QED BY <2>0, <3>3, <3>4, ReleaseStock
  <2>3. ASSUME NEW o \in Orders, NEW c \in Coupons, NEW p \in PointUses,
               ConfirmCaptured(o, c, p)
        PROVE  StockGoal
    BY <2>3, OneUnitSold
  <2>4. ASSUME item' = item,
               \A x \in Orders : /\ order'[x].item = order[x].item
                                 /\ order'[x].intent = order[x].intent
                                 /\ order'[x].txn = "REFUNDED" <=> order[x].txn = "REFUNDED"
        PROVE  StockGoal
    BY <2>0, <2>4, NothingMoves
  <2>5. ASSUME NEW o \in Orders, Fulfil(o) PROVE StockGoal
    <3>1. CASE ShipOrder(o) \/ ShipmentFails(o) \/ MarkDelivered(o)
      BY <2>0, <2>4, <3>1 DEF ShipOrder, ShipmentFails, MarkDelivered, OrderRecord
    <3>2. CASE BuyerReviews(o)
      BY <2>0, <2>4, <3>2 DEF BuyerReviews, OrderRecord
    <3>3. CASE SellerReviews(o)
      BY <2>0, <2>4, <3>3 DEF SellerReviews, OrderRecord
    <3> QED BY <2>5, <3>1, <3>2, <3>3 DEF Fulfil
  <2>6. ASSUME NEW o \in Orders, Undo(o) PROVE StockGoal
    <3>1. CASE CancelReservation(o)
      <4>1. \A x \in {o} : order[x].intent = "ACTIVE"
        BY <3>1 DEF CancelReservation
      <4>2. /\ order' = OrdersReleased(order, {o}, "RELEASED")
            /\ item' = ItemsReleased(order, {o}, "RELEASED")
        BY <3>1 DEF CancelReservation, Release
      <4> QED BY <2>0, <4>1, <4>2, ReleaseStock
    <3>2. CASE RequestCancellation(o)
      BY <2>0, <2>4, <3>2 DEF RequestCancellation, OrderRecord
    <3>3. CASE RequestReturn(o)
      BY <2>0, <2>4, <3>3 DEF RequestReturn, OrderRecord
    <3>4. CASE ApproveReturn(o)
      BY <2>0, <2>4, <3>4 DEF ApproveReturn, OrderRecord
    <3>5. CASE DeclineRequest(o)
      <4>1. order[o].txn = "CANCEL_REQUESTED" /\ OrderConsistent(order[o])
        BY <3>5 DEF DeclineRequest, OrdersConsistent, Unallocated
      <4>2. order[o].previous # "REFUNDED"
        BY <4>1 DEF OrderConsistent, StatusesAgree
      <4> QED BY <2>0, <2>4, <3>5, <4>1, <4>2 DEF DeclineRequest, OrderRecord
    <3>6. CASE CancelCaptured(o) \/ ApproveRefund(o) \/ ReceiveHeldReturn(o)
               \/ ReceiveSettledReturn(o)
      BY <3>6, RefundStock
    <3> QED BY <2>6, <3>1, <3>2, <3>3, <3>4, <3>5, <3>6 DEF Undo
  <2>7. ASSUME NEW i \in Items, Listing(i), ~\E e \in Edits : UpdateListing(i, e)
        PROVE  StockGoal
    <3>1. order' = order
      BY <2>7 DEF Listing, ReviewListing, PauseListing, ResumeListing
    <3>2. \A x \in Items : /\ item'[x].initial = item[x].initial
                           /\ item'[x].quantity = item[x].quantity
                           /\ item'[x].reserved = item[x].reserved
                           /\ item'[x].cut = item[x].cut
                           /\ ~item[x].cut => item'[x].sold = item[x].sold
      <4>0. item[i] \in ItemRecord /\ StockConsistent(i) /\ item \in [Items -> ItemRecord]
        BY <2>0 DEF ItemsTypeOK, StockInv
      <4>1. ASSUME NEW approve \in BOOLEAN, ReviewListing(i, approve) PROVE <3>2
        BY <4>0, <4>1 DEF ReviewListing, ItemRecord
      <4>2. CASE PauseListing(i)
        BY <4>0, <4>2 DEF PauseListing, ItemRecord
      <4>3. CASE ResumeListing(i)
        <5>1. item[i].cut \/ item[i].sold = FALSE
          BY <4>0, <4>3 DEF ResumeListing, StockConsistent, ItemRecord
        <5>2. item' = [item EXCEPT ![i] = [item[i] EXCEPT !.listing = "ACTIVE", !.sold = FALSE]]
          BY <4>3 DEF ResumeListing
        <5> QED BY <4>0, <5>1, <5>2 DEF ItemRecord
      <4> QED BY <2>7, <4>1, <4>2, <4>3 DEF Listing
    <3> QED BY <2>0, <3>1, <3>2, NothingMoves
  <2>8. CASE Environment
    <3>1. CASE AdvanceClock
      <4> DEFINE S == Overdue(now + 1)
      <4>1. S \in SUBSET Orders /\ \A x \in S : order[x].intent = "ACTIVE"
        BY DEF Overdue
      <4>2. /\ order' = OrdersReleased(order, S, "EXPIRED")
            /\ item' = ItemsReleased(order, S, "EXPIRED")
        BY <3>1 DEF AdvanceClock, Release
      <4> HIDE DEF S
      <4> QED BY <2>0, <4>1, <4>2, ReleaseStock DEF StockGoal
    <3>2. CASE UNCHANGED <<item, order>>
      <4>1. item' = item /\ order' = order
        BY <3>2
      <4> QED BY <2>4, <4>1 DEF StockGoal
    <3> QED BY <2>8, <3>1, <3>2
            DEF Environment, Deposit, Withdraw, InjectFailure, RestoreLaterClock
  <2>9. CASE \E i \in Items, e \in Edits : UpdateListing(i, e)
    BY <2>0, <2>9, EditedStock
  <2> QED BY <1>2, <2>1, <2>2, <2>3, <2>5, <2>6, <2>7, <2>8, <2>9
          DEF Next, Purchase, StockGoal
<1> QED BY <1>1, <1>2

\* The engine never promises more units than it has, for any number of buyers,
\* listings and orders: whatever the interleaving of startPurchase, confirmPurchase,
\* the expiry of reservations by the clock, cancelOrder, the returns and updateListing,
\* the reserved count of a listing is its number of active reservations and, unless
\* the last edit left room for fewer units than there are, is covered by stock.
THEOREM NeverOversold == Spec => []NoOversell
<1>1. TradeInv /\ StockInv => NoOversell
  <2> SUFFICES ASSUME TradeInv, StockInv, NEW i \in Items
               PROVE  /\ item[i].reserved = ReservedCount(order, i)
                      /\ ~item[i].cut => StockValid(item[i])
    BY DEF NoOversell
  <2>1. item[i] \in ItemRecord /\ StockConsistent(i)
    BY DEF TradeInv, TradeTypeOK, ItemsTypeOK, StockInv
  <2>2. Cardinality(Out(i)) \in Nat
    BY OrdersCountable DEF Out
  <2> QED BY <2>1, <2>2 DEF StockConsistent, StockValid, ItemRecord
<1>2. TradeInv /\ StockInv /\ [Next]_vars => TradeInv' /\ StockInv'
  BY TradeStep, StockStep
<1>3. Init => TradeInv /\ StockInv
  BY TradeInit, StockInit
<1> QED BY <1>1, <1>2, <1>3, PTL DEF Spec

\* importState takes every export of a state that no edit cut short and no second
\* decision overruled: nothing else a command does fails the engine's own check.
THEOREM ExportsAccepted ==
  Spec => []((\A i \in Items : ~item[i].cut) /\ (\A o \in Orders : ~order[o].overruled)
             => AssertInvariants(item, order))
<1>1. NoOversell /\ OrdersConsistent
      => ((\A i \in Items : ~item[i].cut) /\ (\A o \in Orders : ~order[o].overruled)
          => AssertInvariants(item, order))
  <2> SUFFICES ASSUME NoOversell, OrdersConsistent,
                      \A i \in Items : ~item[i].cut, \A o \in Orders : ~order[o].overruled
               PROVE  AssertInvariants(item, order)
    OBVIOUS
  <2>1. ASSUME NEW o \in Orders
        PROVE  PaymentMatchesStatus(order[o]) /\ ReturnMatchesOrder(order[o])
    <3>1. CASE order[o] = Unallocated
      BY <3>1 DEF Unallocated, PaymentMatchesStatus, ReturnMatchesOrder
    <3>2. CASE order[o] # Unallocated
      BY <3>2 DEF OrdersConsistent, OrderConsistent, CheckedUnlessOverruled
    <3> QED BY <3>1, <3>2
  <2>2. \A i \in Items : StockValid(item[i]) /\ item[i].reserved = ReservedCount(order, i)
    BY DEF NoOversell
  <2> QED BY <2>1, <2>2 DEF AssertInvariants, ReservedMatchesIntents
<1> QED BY <1>1, NeverOversold, OrdersAlwaysConsistent, PTL

\* Every unit is on hand or with exactly one paid and not refunded order: capture
\* takes it once, and cancelOrder, resolveCancellation and confirmReturnReceived
\* between them put it back once.
THEOREM UnitsAlwaysConserved == Spec => UnitsConserved
<1> DEFINE Kept == \A i \in Items :
                     \/ item[i].cut
                     \/ \E e \in Edits : UpdateListing(i, e)
                     \/ (item[i].quantity + Cardinality(Out(i)))'
                        = item[i].quantity + Cardinality(Out(i))
<1>1. TradeInv /\ StockInv /\ [Next]_vars => TradeInv' /\ StockInv' /\ [Kept]_vars
  <2> SUFFICES ASSUME TradeInv, StockInv, [Next]_vars
               PROVE  TradeInv' /\ StockInv' /\ Kept
    OBVIOUS
  <2>1. TradeInv' /\ StockInv' /\ (SameUnits \/ \E i \in Items, e \in Edits : UpdateListing(i, e))
    BY TradeStep, StockStep
  <2>2. CASE SameUnits
    BY <2>1, <2>2 DEF SameUnits
  <2>3. ASSUME NEW i \in Items, NEW e \in Edits, UpdateListing(i, e) PROVE Kept
    <3>1. \A x \in Items : x # i => item'[x] = item[x] /\ Out(x)' = Out(x)
      BY <2>3 DEF UpdateListing, Out, TradeInv, TradeTypeOK, ItemsTypeOK
    <3> QED BY <2>3, <3>1
  <2> QED BY <2>1, <2>2, <2>3
<1>2. Init => TradeInv /\ StockInv
  BY TradeInit, StockInit
<1>3. UnitsConserved <=> [][Kept]_vars
  BY DEF UnitsConserved
<1> HIDE DEF Kept
<1> QED BY <1>1, <1>2, <1>3, PTL DEF Spec

-----------------------------------------------------------------------------
(***************************************************************************)
(* What one command may do to one order, and from it: closed orders stay   *)
(* closed, and the trade implements the escrow of module Escrow, for every *)
(* number of buyers, listings and orders, edits included.                  *)
(***************************************************************************)

\* The four ways an order may change: it is left alone, it is allocated, its
\* active reservation ends, or it moves on, committed, before any refund.
Advances(x) ==
  \/ order'[x] = order[x]
  \/ order[x] = Unallocated /\ order'[x].intent = "ACTIVE"
  \/ order[x].intent = "ACTIVE" /\ order'[x].intent \in {"RELEASED", "EXPIRED", "COMMITTED"}
  \/ /\ order[x].intent = "COMMITTED" /\ order'[x].intent = "COMMITTED"
     /\ order[x].txn # "REFUNDED"
     /\ order[x].settled => order'[x].settled

\* Releasing active reservations, after nothing else or after a checkout that
\* leaves them active, ends those reservations only.
LEMMA ReleaseAdvances ==
  ASSUME NEW or \in [Orders -> OrderRecord],
         NEW S \in SUBSET Orders, \A o \in S : order[o].intent = "ACTIVE",
         \A x \in Orders : x \notin S => or[x] = order[x],
         NEW status \in {"RELEASED", "EXPIRED"},
         order' = OrdersReleased(or, S, status),
         NEW x \in Orders
  PROVE  Advances(x)
<1>1. CASE x \in S
  <2>1. or[x] \in OrderRecord /\ order'[x] = ReleasedOrder(or[x], status)
    BY <1>1 DEF OrdersReleased
  <2>2. order'[x].intent = status
    BY <2>1 DEF ReleasedOrder, OrderRecord
  <2> QED BY <1>1, <2>2 DEF Advances
<1>2. CASE x \notin S
  BY <1>2 DEF OrdersReleased, Advances
<1> QED BY <1>1, <1>2

LEMMA PurchaseAdvances ==
  ASSUME TradeInv, Purchase, NEW x \in Orders
  PROVE  Advances(x)
<1>0. order \in [Orders -> OrderRecord]
  BY DEF TradeInv, TradeTypeOK, OrdersTypeOK
<1>1. ASSUME NEW b \in Buyers, NEW i \in Items, NEW o \in Orders, StartPurchase(b, i, o)
      PROVE  Advances(x)
  <2> DEFINE S == Overdue(now)
             or == OrdersReleased(order, S, "EXPIRED")
             new == NewOrder(b, i, item[i].price + item[i].shipping)
  <2>1. order[o] = Unallocated /\ order' = [or EXCEPT ![o] = new]
    BY <1>1 DEF StartPurchase
  <2>2. S \in SUBSET Orders /\ \A y \in S : order[y].intent = "ACTIVE"
    BY DEF Overdue
  <2>3. new.intent = "ACTIVE"
    BY DEF NewOrder, Unallocated
  <2>4. \A y \in Orders : /\ y \in S => or[y].intent = "EXPIRED"
                          /\ y \notin S => or[y] = order[y]
    BY <1>0, <2>2 DEF OrdersReleased, ReleasedOrder, OrderRecord
  <2>5. order'[x] = IF x = o THEN new ELSE or[x]
    BY <2>1 DEF OrdersReleased
  <2> HIDE DEF S, or, new
  <2> QED BY <2>1, <2>2, <2>3, <2>4, <2>5 DEF Advances
<1>2. ASSUME NEW o \in Orders, NEW c \in Coupons, NEW p \in PointUses,
             ConfirmTooLate(o, c, p) \/ ConfirmDeclined(o, c, p) \/ ConfirmCaptured(o, c, p)
      PROVE  Advances(x)
  <2> DEFINE q == Quoted(o, c, p)
  <2>1. Checkout(o, c, p) /\ order[o].intent = "ACTIVE"
    BY <1>2 DEF ConfirmTooLate, ConfirmDeclined, ConfirmCaptured, Checkout
  <2>2. q \in OrderRecord
    BY <2>1, QuotedConsistent DEF TradeInv
  <2>3. CASE ConfirmTooLate(o, c, p)
    <3>1. order' = OrdersReleased([order EXCEPT ![o] = q], {o}, "EXPIRED")
      BY <2>3 DEF ConfirmTooLate, Release
    <3> HIDE DEF q
    <3> QED BY <1>0, <2>1, <2>2, <3>1, ReleaseAdvances
  <2>4. CASE ConfirmDeclined(o, c, p)
    <3> DEFINE failed == [q EXCEPT !.payment = "FAILED"]
    <3>1. order' = OrdersReleased([order EXCEPT ![o] = failed], {o}, "RELEASED")
      BY <2>4 DEF ConfirmDeclined, Release
    <3> HIDE DEF q
    <3>2. failed \in OrderRecord
      BY <2>2 DEF OrderRecord, PaymentStatus
    <3> HIDE DEF failed
    <3> QED BY <1>0, <2>1, <3>1, <3>2, ReleaseAdvances
  <2>5. CASE ConfirmCaptured(o, c, p)
    <3> DEFINE new == [q EXCEPT !.intent = "COMMITTED", !.txn = "AWAITING_SHIPMENT",
                                !.payment = "CAPTURED", !.shipment = "PENDING"]
    <3>1. order' = [order EXCEPT ![o] = new]
      BY <2>5 DEF ConfirmCaptured
    <3> HIDE DEF q
    <3>2. new.intent = "COMMITTED"
      BY <2>2 DEF OrderRecord
    <3> HIDE DEF new
    <3> QED BY <1>0, <2>1, <3>1, <3>2 DEF Advances
  <2> QED BY <1>2, <2>3, <2>4, <2>5
<1> QED BY <1>1, <1>2 DEF Purchase

\* The commands on a committed order: they keep it committed, and none of them
\* acts on one that is refunded.
LEMMA FulfilAdvances ==
  ASSUME TradeInv, NEW o \in Orders, Fulfil(o), NEW x \in Orders
  PROVE  Advances(x)
<1> USE DEF TradeInv
<1>0. order \in [Orders -> OrderRecord]
  BY DEF TradeTypeOK, OrdersTypeOK
<1>1. order[o].txn \in CapturedStatus
  BY DEF Fulfil, ShipOrder, ShipmentFails, MarkDelivered, BuyerReviews, SellerReviews,
         CapturedStatus
<1>2. OrderConsistent(order[o])
  BY <1>0, <1>1, AllocatedConsistent DEF CapturedStatus, OrdersTypeOK
<1>3. order[o].intent = "COMMITTED" /\ order[o].txn # "REFUNDED"
  BY <1>1, <1>2 DEF OrderConsistent, StatusesAgree, CapturedStatus
<1>4. /\ order'[o].intent = order[o].intent /\ (order[o].settled => order'[o].settled)
      /\ x # o => order'[x] = order[x]
  <2>1. CASE ShipOrder(o)
    BY <1>0, <2>1 DEF ShipOrder, OrderRecord
  <2>2. CASE ShipmentFails(o)
    BY <1>0, <2>2 DEF ShipmentFails, OrderRecord
  <2>3. CASE MarkDelivered(o)
    BY <1>0, <2>3 DEF MarkDelivered, OrderRecord
  <2>4. CASE BuyerReviews(o)
    BY <1>0, <2>4 DEF BuyerReviews, OrderRecord
  <2>5. CASE SellerReviews(o)
    BY <1>0, <2>5 DEF SellerReviews, OrderRecord
  <2> QED BY <2>1, <2>2, <2>3, <2>4, <2>5 DEF Fulfil
<1> QED BY <1>3, <1>4 DEF Advances

LEMMA UndoAdvances ==
  ASSUME TradeInv, NEW o \in Orders, Undo(o), NEW x \in Orders
  PROVE  Advances(x)
<1> USE DEF TradeInv
<1>0. order \in [Orders -> OrderRecord]
  BY DEF TradeTypeOK, OrdersTypeOK
<1>1. CASE CancelReservation(o)
  <2>1. order[o].intent = "ACTIVE" /\ order' = OrdersReleased(order, {o}, "RELEASED")
    BY <1>1 DEF CancelReservation, Release
  <2> QED BY <1>0, <2>1, ReleaseAdvances
<1>2. CASE ~CancelReservation(o)
  <2>1. OrderConsistent(order[o])
    <3>1. order[o] # Unallocated
      BY <1>2 DEF Undo, CancelCaptured, RequestCancellation, RequestReturn, ApproveReturn,
                  ApproveRefund, DeclineRequest, ReceiveHeldReturn, ReceiveSettledReturn,
                  Unallocated
    <3> QED BY <3>1 DEF OrdersConsistent
  <2>2. /\ order'[o].intent = order[o].intent /\ order'[o].settled = order[o].settled
        /\ x # o => order'[x] = order[x]
    <3>1. CASE CancelCaptured(o)
      BY <1>0, <3>1 DEF CancelCaptured, RefundedOrder, OrderRecord
    <3>2. CASE RequestCancellation(o)
      BY <1>0, <3>2 DEF RequestCancellation, OrderRecord
    <3>3. CASE RequestReturn(o)
      BY <1>0, <3>3 DEF RequestReturn, OrderRecord
    <3>4. CASE ApproveReturn(o)
      BY <1>0, <3>4 DEF ApproveReturn, OrderRecord
    <3>5. CASE ApproveRefund(o)
      BY <1>0, <3>5 DEF ApproveRefund, RefundedOrder, OrderRecord
    <3>6. CASE DeclineRequest(o)
      BY <1>0, <3>6 DEF DeclineRequest, OrderRecord
    <3>7. CASE ReceiveHeldReturn(o)
      BY <1>0, <3>7 DEF ReceiveHeldReturn, RefundedOrder, OrderRecord
    <3>8. CASE ReceiveSettledReturn(o)
      BY <1>0, <3>8 DEF ReceiveSettledReturn, OrderRecord
    <3> QED BY <1>2, <3>1, <3>2, <3>3, <3>4, <3>5, <3>6, <3>7, <3>8 DEF Undo
  <2>3. order[o].intent = "COMMITTED"
    BY <1>2, <2>1 DEF Undo, CancelCaptured, RequestCancellation, RequestReturn,
         ApproveReturn, ApproveRefund, DeclineRequest, ReceiveHeldReturn,
         ReceiveSettledReturn, OrderConsistent, StatusesAgree, CapturedStatus
  <2>4. order[o].txn # "REFUNDED"
    <3> SUFFICES ASSUME order[o].txn = "REFUNDED" PROVE FALSE
      OBVIOUS
    <3>1. order[o].held = 0 /\ order[o].payment = "REFUNDED" /\ order[o].total \in Nat
      BY <1>0, <2>1 DEF OrderConsistent, StatusesAgree, InEscrow, OrderRecord
    <3>2. ReceiveSettledReturn(o)
      BY <1>2, <3>1 DEF Undo, CancelCaptured, RequestCancellation, RequestReturn,
         ApproveReturn, ApproveRefund, DeclineRequest, ReceiveHeldReturn, Releasable
    <3> QED BY <2>1, <3>2 DEF ReceiveSettledReturn, OrderConsistent, StatusesAgree
  <2> QED BY <2>2, <2>3, <2>4 DEF Advances
<1> QED BY <1>1, <1>2

LEMMA OrderAdvances ==
  ASSUME TradeInv, [Next]_vars, NEW x \in Orders
  PROVE  Advances(x)
<1>1. ASSUME order' = order PROVE Advances(x)
  BY <1>1 DEF Advances
<1>2. CASE UNCHANGED vars
  BY <1>1, <1>2 DEF vars
<1>3. ASSUME NEW i \in Items, Listing(i) PROVE Advances(x)
  BY <1>1, <1>3 DEF Listing, ReviewListing, PauseListing, ResumeListing, UpdateListing
<1>4. CASE Environment
  <2>1. CASE AdvanceClock
    <3> DEFINE S == Overdue(now + 1)
    <3>1. /\ order \in [Orders -> OrderRecord] /\ S \in SUBSET Orders
          /\ \A y \in S : order[y].intent = "ACTIVE"
      BY DEF Overdue, TradeInv, TradeTypeOK, OrdersTypeOK
    <3>2. order' = OrdersReleased(order, S, "EXPIRED")
      BY <2>1 DEF AdvanceClock, Release
    <3> HIDE DEF S
    <3> QED BY <3>1, <3>2, ReleaseAdvances
  <2>2. CASE ~AdvanceClock
    BY <1>1, <1>4, <2>2 DEF Environment, Deposit, Withdraw, InjectFailure, RestoreLaterClock
  <2> QED BY <2>1, <2>2
<1> QED BY <1>2, <1>3, <1>4, PurchaseAdvances, FulfilAdvances, UndoAdvances DEF Next

\* Nothing touches an order again once it is canceled or refunded: no late payment,
\* no second refund, no parcel that was already on its way back.
THEOREM ClosedOrdersNeverReopen == Spec => ClosedOrdersStayClosed
<1>1. TradeInv /\ [Next]_vars
      => (\A o \in Orders : order[o].txn \in {"CANCELED", "REFUNDED"} => order'[o] = order[o])
  <2> SUFFICES ASSUME TradeInv, [Next]_vars, NEW o \in Orders,
                      order[o].txn \in {"CANCELED", "REFUNDED"}
               PROVE  order'[o] = order[o]
    OBVIOUS
  <2>1. Advances(o)
    BY OrderAdvances
  <2>2. order[o] # Unallocated
    BY DEF Unallocated
  <2>3. OrderConsistent(order[o])
    BY <2>2 DEF TradeInv, OrdersConsistent
  <2>4. /\ order[o].intent # "ACTIVE"
        /\ order[o].intent = "COMMITTED" => order[o].txn = "REFUNDED"
    BY <2>3 DEF OrderConsistent, StatusesAgree
  <2> QED BY <2>1, <2>2, <2>4 DEF Advances
<1> QED BY <1>1, TradeInit, TradeStep, PTL DEF Spec, ClosedOrdersStayClosed

\* The stage of an order follows from its intent and from whether it is in escrow.
LEMMA StageOfOrder ==
  ASSUME NEW rec \in OrderRecord, rec = Unallocated \/ OrderConsistent(rec)
  PROVE  /\ rec = Unallocated => Stage(rec) = "NONE"
         /\ rec.intent = "ACTIVE" => Stage(rec) = "HELD"
         /\ rec # Unallocated => Stage(rec) \in {"HELD", "PAID", "RETURNED"}
         /\ Stage(rec) = "PAID" => rec.settled /\ rec.payment = "CAPTURED"
         /\ Stage(rec) = "RETURNED" => rec.txn \in {"CANCELED", "REFUNDED"}
         /\ rec.settled => Stage(rec) \in {"PAID", "RETURNED"}
<1>1. CASE rec = Unallocated
  BY <1>1 DEF Unallocated, Stage
<1>2. CASE rec # Unallocated
  <2>1. /\ OrderConsistent(rec) /\ rec.held \in Nat /\ rec.total \in Nat /\ rec.total > 0
        /\ rec.txn \in TxnStatus /\ rec.payment \in PaymentStatus
        /\ rec.intent \in IntentStatus /\ rec.settled \in BOOLEAN
    BY <1>2 DEF OrderRecord, OrderConsistent, StatusesAgree
  <2>2. rec.held = IF InEscrow(rec) THEN rec.total ELSE 0
    BY <2>1 DEF OrderConsistent
  <2>3. rec.held > 0 <=> InEscrow(rec)
    BY <2>1, <2>2
  <2>4. rec.intent # "NONE"
    BY <2>1 DEF OrderConsistent, StatusesAgree
  <2>5. Stage(rec) = IF InEscrow(rec) THEN "HELD"
                     ELSE IF rec.payment = "CAPTURED" THEN "PAID" ELSE "RETURNED"
    BY <2>3, <2>4 DEF Stage
  <2>6. /\ rec.intent = "ACTIVE" => InEscrow(rec)
        /\ ~InEscrow(rec) /\ rec.payment = "CAPTURED" => rec.settled
        /\ ~InEscrow(rec) /\ rec.payment # "CAPTURED" => rec.txn \in {"CANCELED", "REFUNDED"}
        /\ rec.settled => ~InEscrow(rec)
    BY <2>1, <2>4 DEF OrderConsistent, StatusesAgree, InEscrow, CapturedStatus, IntentStatus
  <2> QED BY <1>2, <2>5, <2>6
<1> QED BY <1>1, <1>2

\* The trade implements the escrow: whatever commands run, the money of an order is
\* held once, when startPurchase creates it, and leaves the hold once, to the seller
\* at the seller's review or back to the buyer.
THEOREM EscrowAlwaysHonoured == Spec => EscrowHonoured
<1>1. Init => EscrowOfOrders!Init
  <2> SUFFICES ASSUME Init
               PROVE  [o \in Orders |-> Stage(order[o])] = [o \in Orders |-> "NONE"]
    BY DEF EscrowOfOrders!Init
  <2>1. \A o \in Orders : Stage(order[o]) = "NONE"
    BY DEF Init, Stage, Unallocated
  <2> QED BY <2>1
<1>2. TradeInv /\ TradeInv' /\ [Next]_vars => EscrowOfOrders!Next
  <2> SUFFICES ASSUME TradeInv, TradeInv', [Next]_vars, NEW o \in Orders
               PROVE  /\ Stage(order'[o]) \in EscrowOfOrders!Stages
                      /\ \/ Stage(order'[o]) = Stage(order[o])
                         \/ <<Stage(order[o]), Stage(order'[o])>> \in EscrowOfOrders!Moves
    BY DEF EscrowOfOrders!Next
  <2>1. /\ order[o] \in OrderRecord /\ (order[o] = Unallocated \/ OrderConsistent(order[o]))
        /\ order'[o] \in OrderRecord
        /\ (order'[o] = Unallocated \/ OrderConsistent(order'[o]))
    BY DEF TradeInv, TradeTypeOK, OrdersTypeOK, OrdersConsistent, OrderConsistent, InEscrow
  <2>2. Advances(o)
    BY OrderAdvances
  <2>3. Unallocated.intent = "NONE"
    BY DEF Unallocated
  <2>4. Stage(order'[o]) \in EscrowOfOrders!Stages
    BY <2>1, StageOfOrder DEF EscrowOfOrders!Stages
  <2>5. \/ Stage(order'[o]) = Stage(order[o])
        \/ <<Stage(order[o]), Stage(order'[o])>> \in EscrowOfOrders!Moves
    <3> DEFINE from == Stage(order[o])
               to == Stage(order'[o])
    <3>1. CASE order'[o] = order[o]
      BY <3>1
    <3>2. CASE order[o] = Unallocated /\ order'[o].intent = "ACTIVE"
      BY <2>1, <3>2, StageOfOrder DEF EscrowOfOrders!Moves
    <3>3. CASE /\ order[o].intent = "ACTIVE"
               /\ order'[o].intent \in {"RELEASED", "EXPIRED", "COMMITTED"}
      <4>1. from = "HELD" /\ to \in {"HELD", "PAID", "RETURNED"}
        BY <2>1, <2>3, <3>3, StageOfOrder
      <4> QED BY <4>1 DEF EscrowOfOrders!Moves
    <3>4. CASE /\ order[o].intent = "COMMITTED" /\ order'[o].intent = "COMMITTED"
               /\ order[o].txn # "REFUNDED"
               /\ order[o].settled => order'[o].settled
      <4>1. OrderConsistent(order[o]) /\ order[o] # Unallocated /\ order'[o] # Unallocated
        BY <2>1, <2>3, <3>4
      <4>2. order[o].txn # "CANCELED"
        BY <3>4, <4>1 DEF OrderConsistent, StatusesAgree
      <4>3. from \in {"HELD", "PAID"} /\ to \in {"HELD", "PAID", "RETURNED"}
        BY <2>1, <3>4, <4>1, <4>2, StageOfOrder
      <4>4. from = "PAID" => to \in {"PAID", "RETURNED"}
        BY <2>1, <3>4, StageOfOrder
      <4> QED BY <4>3, <4>4 DEF EscrowOfOrders!Moves
    <3> QED BY <2>2, <3>1, <3>2, <3>3, <3>4 DEF Advances
  <2> QED BY <2>4, <2>5
<1> QED BY <1>1, <1>2, TradeInit, TradeStep, PTL DEF Spec, EscrowHonoured, EscrowOfOrders!Spec
-----------------------------------------------------------------------------
(* Reservations of one buyer.                                              *)

\* What is reserved was reserved before, by the same buyer and of the same listing.
NoNewReservation ==
  \A x \in Orders : order'[x].intent = "ACTIVE" =>
     /\ order[x].intent = "ACTIVE"
     /\ order'[x].buyer = order[x].buyer /\ order'[x].item = order[x].item

\* Releasing reservations makes none.
LEMMA ReleaseReservesNothing ==
  ASSUME NEW or \in [Orders -> OrderRecord], NEW S \in SUBSET Orders,
         NEW status \in {"RELEASED", "EXPIRED"}, NEW x \in Orders,
         OrdersReleased(or, S, status)[x].intent = "ACTIVE"
  PROVE  x \notin S /\ OrdersReleased(or, S, status)[x] = or[x]
<1>1. CASE x \in S
  <2>1. OrdersReleased(or, S, status)[x] = ReleasedOrder(or[x], status) /\ or[x] \in OrderRecord
    BY <1>1 DEF OrdersReleased
  <2>2. ReleasedOrder(or[x], status).intent = status
    BY <2>1 DEF ReleasedOrder, OrderRecord
  <2> QED BY <2>1, <2>2
<1>2. CASE x \notin S
  BY <1>2 DEF OrdersReleased
<1> QED BY <1>1, <1>2

LEMMA OneReservationWritten ==
  ASSUME OrdersTypeOK, NEW o \in Orders, NEW new,
         new.intent = "ACTIVE" => /\ order[o].intent = "ACTIVE"
                                  /\ new.buyer = order[o].buyer /\ new.item = order[o].item,
         order' = [order EXCEPT ![o] = new]
  PROVE  NoNewReservation
BY DEF OrdersTypeOK, NoNewReservation

\* A command other than startPurchase reserves nothing, and re-quoting a
\* reservation leaves its buyer and its listing alone.
LEMMA OthersReserveNothing ==
  ASSUME TradeInv, [Next]_vars,
         ~ \E b \in Buyers, i \in Items, o \in Orders : StartPurchase(b, i, o)
  PROVE  NoNewReservation
<1> USE DEF TradeInv
<1>0. order \in [Orders -> OrderRecord] /\ OrdersTypeOK
  BY DEF TradeTypeOK, OrdersTypeOK
<1>1. CASE order' = order
  BY <1>1 DEF NoNewReservation
<1>2. ASSUME NEW or \in [Orders -> OrderRecord], NEW S \in SUBSET Orders,
             NEW status \in {"RELEASED", "EXPIRED"},
             order' = OrdersReleased(or, S, status),
             \A x \in Orders : or[x].intent = "ACTIVE" =>
                /\ order[x].intent = "ACTIVE"
                /\ or[x].buyer = order[x].buyer /\ or[x].item = order[x].item
      PROVE  NoNewReservation
  BY <1>2, ReleaseReservesNothing DEF NoNewReservation
<1>3. ASSUME NEW o \in Orders, NEW c \in Coupons, NEW p \in PointUses,
             ConfirmTooLate(o, c, p) \/ ConfirmDeclined(o, c, p)
      PROVE  NoNewReservation
  <2> DEFINE q == Quoted(o, c, p)
             declined == [q EXCEPT !.payment = "FAILED"]
  <2>1. /\ q \in OrderRecord /\ order[o].intent = "ACTIVE"
        /\ q.item = order[o].item /\ q.buyer = order[o].buyer
    BY <1>3, QuotedConsistent DEF ConfirmTooLate, ConfirmDeclined, Checkout
  <2>2. \/ order' = OrdersReleased([order EXCEPT ![o] = q], {o}, "EXPIRED")
        \/ order' = OrdersReleased([order EXCEPT ![o] = declined], {o}, "RELEASED")
    BY <1>3 DEF ConfirmTooLate, ConfirmDeclined, Release
  <2> HIDE DEF q
  <2>3. declined \in OrderRecord /\ declined.item = q.item /\ declined.buyer = q.buyer
    BY <2>1 DEF OrderRecord, PaymentStatus
  <2> HIDE DEF declined
  <2>4. \A new \in {q, declined} :
          /\ [order EXCEPT ![o] = new] \in [Orders -> OrderRecord]
          /\ \A x \in Orders : [order EXCEPT ![o] = new][x].intent = "ACTIVE" =>
                /\ order[x].intent = "ACTIVE"
                /\ [order EXCEPT ![o] = new][x].buyer = order[x].buyer
                /\ [order EXCEPT ![o] = new][x].item = order[x].item
    BY <1>0, <2>1, <2>3
  <2>5. {o} \in SUBSET Orders
    OBVIOUS
  <2> QED BY <1>2, <2>2, <2>4, <2>5
<1>4. ASSUME NEW o \in Orders, NEW c \in Coupons, NEW p \in PointUses, ConfirmCaptured(o, c, p)
      PROVE  NoNewReservation
  <2> DEFINE q == Quoted(o, c, p)
             new == [q EXCEPT !.intent = "COMMITTED", !.txn = "AWAITING_SHIPMENT",
                              !.payment = "CAPTURED", !.shipment = "PENDING"]
  <2>1. q \in OrderRecord
    BY <1>4, QuotedConsistent DEF ConfirmCaptured
  <2>2. order' = [order EXCEPT ![o] = new]
    BY <1>4 DEF ConfirmCaptured
  <2> HIDE DEF q
  <2>3. new.intent = "COMMITTED"
    BY <2>1 DEF OrderRecord
  <2> HIDE DEF new
  <2> QED BY <1>0, <2>2, <2>3, OneReservationWritten
<1>5. ASSUME NEW o \in Orders, Fulfil(o) PROVE NoNewReservation
  <2>1. \A x \in Orders : /\ order'[x].intent = order[x].intent
                          /\ order'[x].buyer = order[x].buyer
                          /\ order'[x].item = order[x].item
    BY <1>0, <1>5 DEF Fulfil, ShipOrder, ShipmentFails, MarkDelivered, BuyerReviews,
       SellerReviews, OrderRecord
  <2> QED BY <2>1 DEF NoNewReservation
<1>6. ASSUME NEW o \in Orders, Undo(o) PROVE NoNewReservation
  <2>1. CASE CancelReservation(o)
    <3>1. order' = OrdersReleased(order, {o}, "RELEASED")
      BY <2>1 DEF CancelReservation, Release
    <3> QED BY <1>0, <1>2, <3>1
  <2>2. CASE ~CancelReservation(o)
    <3> DEFINE Same == \A x \in Orders : /\ order'[x].intent = order[x].intent
                                         /\ order'[x].buyer = order[x].buyer
                                         /\ order'[x].item = order[x].item
    <3>2. ASSUME CancelCaptured(o) PROVE Same
      BY <1>0, <3>2 DEF CancelCaptured, RefundedOrder, OrderRecord
    <3>3. ASSUME ApproveRefund(o) PROVE Same
      BY <1>0, <3>3 DEF ApproveRefund, RefundedOrder, OrderRecord
    <3>4. ASSUME ReceiveHeldReturn(o) PROVE Same
      BY <1>0, <3>4 DEF ReceiveHeldReturn, RefundedOrder, OrderRecord
    <3>5. ASSUME ReceiveSettledReturn(o) PROVE Same
      BY <1>0, <3>5 DEF ReceiveSettledReturn, OrderRecord
    <3>6. ASSUME RequestCancellation(o) \/ RequestReturn(o) \/ ApproveReturn(o) PROVE Same
      BY <1>0, <3>6 DEF RequestCancellation, RequestReturn, ApproveReturn, OrderRecord
    <3>7. ASSUME DeclineRequest(o) PROVE Same
      BY <1>0, <3>7 DEF DeclineRequest, OrderRecord
    <3>1. Same
      BY <1>6, <2>2, <3>2, <3>3, <3>4, <3>5, <3>6, <3>7 DEF Undo
    <3> QED BY <3>1 DEF NoNewReservation
  <2> QED BY <2>1, <2>2
<1>7. ASSUME NEW i \in Items, Listing(i) PROVE NoNewReservation
  BY <1>1, <1>7 DEF Listing, ReviewListing, PauseListing, ResumeListing, UpdateListing
<1>8. CASE Environment
  <2>1. CASE AdvanceClock
    <3>1. order' = OrdersReleased(order, Overdue(now + 1), "EXPIRED")
          /\ Overdue(now + 1) \in SUBSET Orders
      BY <2>1 DEF AdvanceClock, Release, Overdue
    <3> QED BY <1>0, <1>2, <3>1
  <2> QED BY <1>1, <1>8, <2>1 DEF Environment, Deposit, Withdraw, InjectFailure, RestoreLaterClock
<1> QED BY <1>1, <1>3, <1>4, <1>5, <1>6, <1>7, <1>8 DEF Next, Purchase, vars

\* startPurchase releases what is overdue before it reserves, and refuses a buyer
\* who has a reservation of the listing that is not.
LEMMA OneReservationStarts ==
  ASSUME TradeInv, OneReservationPerBuyer,
         NEW b \in Buyers, NEW i \in Items, NEW o \in Orders, StartPurchase(b, i, o)
  PROVE  OneReservationPerBuyer'
<1> DEFINE or == OrdersReleased(order, Overdue(now), "EXPIRED")
           new == NewOrder(b, i, item[i].price + item[i].shipping)
<1>1. order \in [Orders -> OrderRecord] /\ now \in Nat
  BY DEF TradeInv, TradeTypeOK, OrdersTypeOK
<1>2. Overdue(now) \in SUBSET Orders /\ or = [x \in Orders |-> or[x]]
  BY DEF Overdue, OrdersReleased
<1>3. order' = [or EXCEPT ![o] = new] /\ ~HasLiveReservation(b, i)
  BY DEF StartPurchase
<1>4. new.buyer = b /\ new.item = i
  BY DEF NewOrder, Unallocated
<1>5. ASSUME NEW x \in Orders, x # o, order'[x].intent = "ACTIVE"
      PROVE  /\ order[x].intent = "ACTIVE" /\ order'[x] = order[x]
             /\ ~(order[x].buyer = b /\ order[x].item = i)
  <2>1. order'[x] = or[x]
    BY <1>2, <1>3, <1>5
  <2>2. x \notin Overdue(now) /\ or[x] = order[x]
    BY <1>1, <1>2, <1>5, <2>1, ReleaseReservesNothing
  <2>3. order[x].expires \in Nat /\ order[x].intent = "ACTIVE"
    BY <1>1, <1>5, <2>1, <2>2 DEF OrderRecord
  <2>4. order[x].expires > now
    BY <1>1, <2>2, <2>3 DEF Overdue
  <2> QED BY <1>3, <2>1, <2>2, <2>3, <2>4 DEF HasLiveReservation
<1>6. order'[o] = new
  BY <1>2, <1>3
<1> HIDE DEF or, new
<1> QED BY <1>4, <1>5, <1>6 DEF OneReservationPerBuyer

\* A buyer has at most one active reservation of a listing, for any number of
\* buyers, listings and orders, although an overdue one is released only when some
\* command looks at it: activeIntentFor's first match is the only one.
THEOREM ReservationsStaySingle == Spec => []OneReservationPerBuyer
<1>1. Init => OneReservationPerBuyer
  BY DEF Init, OneReservationPerBuyer, Unallocated
<1>2. TradeInv /\ OneReservationPerBuyer /\ [Next]_vars => OneReservationPerBuyer'
  <2>1. TradeInv /\ OneReservationPerBuyer /\ NoNewReservation => OneReservationPerBuyer'
    BY DEF NoNewReservation, OneReservationPerBuyer
  <2> QED BY <2>1, OthersReserveNothing, OneReservationStarts
<1> QED BY <1>1, <1>2, TradeInit, TradeStep, PTL DEF Spec

-----------------------------------------------------------------------------
(* The wallets.  What an order holds of a buyer, what it took of the       *)
(* buyer's points and what the platform has of it are functions of the     *)
(* order, and the books are right when the wallets show their sums.        *)

Holds(or, a) == [o \in Orders |-> IF or[o].buyer = a THEN or[o].held ELSE 0]
Spent(or, b) ==
  [o \in Orders |-> IF or[o].buyer = b /\ or[o].payment = "CAPTURED" THEN or[o].points ELSE 0]
Shares(or) == [o \in Orders |-> PlatformShare(or[o])]
Purses(w) == [a \in Actors |-> w[a].available + w[a].held]

BooksMatch(or, w) ==
  /\ w \in [Actors -> WalletRecord]
  /\ \A a \in Actors : w[a].held = SumFunctionOnSet(Holds(or, a), Orders)
  /\ \A b \in Buyers : w[b].points + SumFunctionOnSet(Spent(or, b), Orders) = OpeningPoints

MoneyIn(or, w) == SumFunctionOnSet(Purses(w), Actors) + SumFunctionOnSet(Shares(or), Orders)

\* The sums of the properties are sums over all orders, and over all actors.
LEMMA SumsOfOrders ==
  ASSUME NEW or \in [Orders -> OrderRecord]
  PROVE  /\ \A a : MapThenSumSet(LAMBDA o : or[o].held, {o \in Orders : or[o].buyer = a})
                   = SumFunctionOnSet(Holds(or, a), Orders)
         /\ \A b : MapThenSumSet(LAMBDA o : or[o].points,
                       {o \in Orders : or[o].buyer = b /\ or[o].payment = "CAPTURED"})
                   = SumFunctionOnSet(Spent(or, b), Orders)
<1> DEFINE held == [o \in Orders |-> or[o].held]
           points == [o \in Orders |-> or[o].points]
<1>1. IsFiniteSet(Orders)
  BY ConstantsAssumption
<1>2. ASSUME NEW a
      PROVE  MapThenSumSet(LAMBDA o : or[o].held, {o \in Orders : or[o].buyer = a})
             = SumFunctionOnSet(Holds(or, a), Orders)
  <2> DEFINE T == {o \in Orders : or[o].buyer = a}
  <2>1. MapThenSumSet(LAMBDA o : or[o].held, T) = SumFunctionOnSet(held, T)
    BY DEF MapThenSumSet, SumFunctionOnSet, FoldFunctionOnSet, MapThenFoldSet
  <2>2. \A o \in Orders : /\ held[o] \in Int
                          /\ Holds(or, a)[o] = IF o \in T THEN held[o] ELSE 0
    BY DEF Holds, OrderRecord
  <2>3. T \in SUBSET Orders
    OBVIOUS
  <2> HIDE DEF held, T
  <2>4. SumFunctionOnSet(held, T) = SumFunctionOnSet(Holds(or, a), Orders)
    BY <1>1, <2>2, <2>3, SumWhere
  <2> QED BY <2>1, <2>4 DEF T
<1>3. ASSUME NEW b
      PROVE  MapThenSumSet(LAMBDA o : or[o].points,
                 {o \in Orders : or[o].buyer = b /\ or[o].payment = "CAPTURED"})
             = SumFunctionOnSet(Spent(or, b), Orders)
  <2> DEFINE T == {o \in Orders : or[o].buyer = b /\ or[o].payment = "CAPTURED"}
  <2>1. MapThenSumSet(LAMBDA o : or[o].points, T) = SumFunctionOnSet(points, T)
    BY DEF MapThenSumSet, SumFunctionOnSet, FoldFunctionOnSet, MapThenFoldSet
  <2>2. \A o \in Orders : /\ points[o] \in Int
                          /\ Spent(or, b)[o] = IF o \in T THEN points[o] ELSE 0
    BY DEF Spent, OrderRecord
  <2>3. T \in SUBSET Orders
    OBVIOUS
  <2> HIDE DEF points, T
  <2>4. SumFunctionOnSet(points, T) = SumFunctionOnSet(Spent(or, b), Orders)
    BY <1>1, <2>2, <2>3, SumWhere
  <2> QED BY <2>1, <2>4 DEF T
<1> HIDE DEF held, points
<1> QED BY <1>2, <1>3

\* What is in the wallets and what the platform has, by actor and by order.
LEMMA MoneySums ==
  ASSUME NEW or, NEW w
  PROVE  MapThenSumSet(LAMBDA a : w[a].available + w[a].held, Actors)
           + MapThenSumSet(LAMBDA o : PlatformShare(or[o]), Orders)
         = MoneyIn(or, w)
<1> DEFINE purses == [a \in Actors |-> w[a].available + w[a].held]
           shares == [o \in Orders |-> PlatformShare(or[o])]
<1>1. MapThenSumSet(LAMBDA a : w[a].available + w[a].held, Actors)
        = SumFunctionOnSet(purses, Actors)
  BY DEF MapThenSumSet, SumFunctionOnSet, FoldFunctionOnSet, MapThenFoldSet
<1>2. MapThenSumSet(LAMBDA o : PlatformShare(or[o]), Orders)
        = SumFunctionOnSet(shares, Orders)
  BY DEF MapThenSumSet, SumFunctionOnSet, FoldFunctionOnSet, MapThenFoldSet
<1>3. purses = Purses(w) /\ shares = Shares(or)
  BY DEF Purses, Shares
<1> HIDE DEF purses, shares
<1> QED BY <1>1, <1>2, <1>3 DEF MoneyIn

\* Writing one order moves the books by what the order changes.
HeldBy(rec, a) == IF rec.buyer = a THEN rec.held ELSE 0
SpentBy(rec, b) == IF rec.buyer = b /\ rec.payment = "CAPTURED" THEN rec.points ELSE 0

LEMMA OneOrderBooked ==
  ASSUME NEW or \in [Orders -> OrderRecord], NEW w, BooksMatch(or, w),
         NEW o \in Orders, NEW or2 \in [Orders -> OrderRecord],
         \A x \in Orders \ {o} : or2[x] = or[x],
         NEW v \in [Actors -> WalletRecord],
         \A a \in Actors : v[a].held = w[a].held + (HeldBy(or2[o], a) - HeldBy(or[o], a)),
         \A b \in Buyers :
           v[b].points = w[b].points - (SpentBy(or2[o], b) - SpentBy(or[o], b))
  PROVE  BooksMatch(or2, v)
<1>1. IsFiniteSet(Orders)
  BY ConstantsAssumption
<1>2. \A x \in Orders : or[x] \in OrderRecord /\ or2[x] \in OrderRecord
  OBVIOUS
<1>3. ASSUME NEW a \in Actors
      PROVE  v[a].held = SumFunctionOnSet(Holds(or2, a), Orders)
  <2>1. \A x \in Orders : Holds(or, a)[x] \in Int /\ Holds(or2, a)[x] \in Int
    BY <1>2 DEF Holds, OrderRecord
  <2>2. \A x \in Orders \ {o} : Holds(or, a)[x] = Holds(or2, a)[x]
    BY DEF Holds
  <2>3. Holds(or, a)[o] = HeldBy(or[o], a) /\ Holds(or2, a)[o] = HeldBy(or2[o], a)
    BY <1>2 DEF Holds, HeldBy
  <2>4. SumFunctionOnSet(Holds(or2, a), Orders)
          = SumFunctionOnSet(Holds(or, a), Orders) + (HeldBy(or2[o], a) - HeldBy(or[o], a))
    BY <1>1, <2>1, <2>2, <2>3, SumOneChanged
  <2> QED BY <2>4 DEF BooksMatch
<1>4. ASSUME NEW b \in Buyers
      PROVE  v[b].points + SumFunctionOnSet(Spent(or2, b), Orders) = OpeningPoints
  <2>1. \A x \in Orders : Spent(or, b)[x] \in Int /\ Spent(or2, b)[x] \in Int
    BY <1>2 DEF Spent, OrderRecord
  <2>2. \A x \in Orders \ {o} : Spent(or, b)[x] = Spent(or2, b)[x]
    BY DEF Spent
  <2>3. Spent(or, b)[o] = SpentBy(or[o], b) /\ Spent(or2, b)[o] = SpentBy(or2[o], b)
    BY <1>2 DEF Spent, SpentBy
  <2>4. SumFunctionOnSet(Spent(or2, b), Orders)
          = SumFunctionOnSet(Spent(or, b), Orders) + (SpentBy(or2[o], b) - SpentBy(or[o], b))
    BY <1>1, <2>1, <2>2, <2>3, SumOneChanged
  <2>5. /\ SumFunctionOnSet(Spent(or, b), Orders) \in Int
        /\ SpentBy(or2[o], b) \in Int /\ SpentBy(or[o], b) \in Int
    BY <1>1, <2>1, <2>3, <1>2, SumType
  <2>6. w[b].points \in Int /\ w[b].points + SumFunctionOnSet(Spent(or, b), Orders) = OpeningPoints
    BY DEF BooksMatch, Actors, WalletRecord
  <2>7. v[b].points = w[b].points - (SpentBy(or2[o], b) - SpentBy(or[o], b))
    OBVIOUS
  <2> QED BY <2>4, <2>5, <2>6, <2>7
<1> QED BY <1>3, <1>4 DEF BooksMatch

\* Money moves between the purse of a buyer, that of the seller and the platform.
LEMMA MoneyMoved ==
  ASSUME NEW or \in [Orders -> OrderRecord], NEW or2 \in [Orders -> OrderRecord],
         NEW o \in Orders, \A x \in Orders \ {o} : or2[x] = or[x],
         NEW w \in [Actors -> WalletRecord], NEW v \in [Actors -> WalletRecord],
         NEW b \in Buyers,
         \A a \in Actors \ {b, Seller} : Purses(v)[a] = Purses(w)[a],
         (Purses(v)[b] - Purses(w)[b]) + (Purses(v)[Seller] - Purses(w)[Seller])
           + (PlatformShare(or2[o]) - PlatformShare(or[o])) = 0
  PROVE  MoneyIn(or2, v) = MoneyIn(or, w)
<1> DEFINE u == [Purses(w) EXCEPT ![b] = Purses(v)[b]]
<1>1. IsFiniteSet(Orders) /\ IsFiniteSet(Actors) /\ Seller \notin Buyers
  BY ConstantsAssumption, FS_AddElement DEF Actors
<1>2. \A a \in Actors : Purses(w)[a] \in Int /\ Purses(v)[a] \in Int
  BY DEF Purses, WalletRecord
<1>3. Purses(w) = [a \in Actors |-> Purses(w)[a]]
  BY DEF Purses
<1>4. b \in Actors /\ Seller \in Actors /\ b # Seller
  BY <1>1 DEF Actors
<1>5. \A a \in Actors : u[a] = IF a = b THEN Purses(v)[b] ELSE Purses(w)[a]
  BY <1>3
<1> HIDE DEF u
<1>6. SumFunctionOnSet(u, Actors)
        = SumFunctionOnSet(Purses(w), Actors) + (Purses(v)[b] - Purses(w)[b])
  <2>1. \A a \in Actors : Purses(w)[a] \in Int /\ u[a] \in Int
    BY <1>2, <1>4, <1>5
  <2>2. \A a \in Actors \ {b} : Purses(w)[a] = u[a]
    BY <1>5
  <2> QED BY <1>1, <1>4, <1>5, <2>1, <2>2, SumOneChanged
<1>7. SumFunctionOnSet(Purses(v), Actors)
        = SumFunctionOnSet(u, Actors) + (Purses(v)[Seller] - Purses(w)[Seller])
  <2>1. \A a \in Actors : u[a] \in Int /\ Purses(v)[a] \in Int
    BY <1>2, <1>4, <1>5
  <2>2. \A a \in Actors \ {Seller} : u[a] = Purses(v)[a]
    BY <1>5
  <2>3. u[Seller] = Purses(w)[Seller]
    BY <1>4, <1>5
  <2>4. SumFunctionOnSet(Purses(v), Actors)
          = SumFunctionOnSet(u, Actors) + (Purses(v)[Seller] - u[Seller])
    BY <1>1, <1>4, <2>1, <2>2, SumOneChanged
  <2> QED BY <2>3, <2>4
<1>8. \A x \in Orders : or[x] \in OrderRecord /\ or2[x] \in OrderRecord
  OBVIOUS
<1>9. ASSUME NEW rec \in OrderRecord PROVE PlatformShare(rec) \in Int
  <2>1. rec.price \in Nat /\ rec.total \in Nat /\ Fee(rec.price) \in Int
    BY DEF OrderRecord, Fee
  <2> QED BY <2>1 DEF PlatformShare
<1>10. SumFunctionOnSet(Shares(or2), Orders)
         = SumFunctionOnSet(Shares(or), Orders) + (PlatformShare(or2[o]) - PlatformShare(or[o]))
  <2>1. \A x \in Orders : Shares(or)[x] \in Int /\ Shares(or2)[x] \in Int
    BY <1>8, <1>9 DEF Shares
  <2>2. \A x \in Orders \ {o} : Shares(or)[x] = Shares(or2)[x]
    BY DEF Shares
  <2>3. Shares(or)[o] = PlatformShare(or[o]) /\ Shares(or2)[o] = PlatformShare(or2[o])
    BY DEF Shares
  <2> QED BY <1>1, <2>1, <2>2, <2>3, SumOneChanged
<1>11. /\ SumFunctionOnSet(Purses(w), Actors) \in Int
       /\ SumFunctionOnSet(Shares(or), Orders) \in Int
  <2>1. \A x \in Orders : Shares(or)[x] \in Int
    BY <1>8, <1>9 DEF Shares
  <2> QED BY <1>1, <1>2, <2>1, SumType
<1>12. /\ PlatformShare(or2[o]) \in Int /\ PlatformShare(or[o]) \in Int
       /\ Purses(v)[b] \in Int /\ Purses(w)[b] \in Int
       /\ Purses(v)[Seller] \in Int /\ Purses(w)[Seller] \in Int
  BY <1>2, <1>4, <1>8, <1>9
<1> QED BY <1>6, <1>7, <1>10, <1>11, <1>12 DEF MoneyIn

\* What releasing the reservations of S gives back to an actor.
Freeds(or, S, a) == [o \in Orders |-> IF o \in S /\ or[o].buyer = a THEN Freed(or[o]) ELSE 0]
Refund(or, S, a) == SumFunctionOnSet(Freeds(or, S, a), Orders)

LEMMA RefundOf ==
  ASSUME NEW or \in [Orders -> OrderRecord], NEW S \in SUBSET Orders, NEW a
  PROVE  /\ MapThenSumSet(LAMBDA o : Freed(or[o]), {o \in S : or[o].buyer = a})
              = Refund(or, S, a)
         /\ Refund(or, S, a) \in Nat
<1> DEFINE freed == [o \in Orders |-> Freed(or[o])]
           T == {o \in S : or[o].buyer = a}
<1>1. MapThenSumSet(LAMBDA o : Freed(or[o]), T) = SumFunctionOnSet(freed, T)
  BY DEF MapThenSumSet, SumFunctionOnSet, FoldFunctionOnSet, MapThenFoldSet
<1>2. \A o \in Orders : freed[o] \in Nat
  <2>1. \A o \in Orders : or[o].total \in Nat /\ or[o].held \in Nat
    BY DEF OrderRecord
  <2> QED BY <2>1 DEF Freed, Releasable
<1>3. \A o \in Orders : Freeds(or, S, a)[o] = IF o \in T THEN freed[o] ELSE 0
  BY DEF Freeds
<1>4. T \in SUBSET Orders /\ IsFiniteSet(Orders)
  BY ConstantsAssumption
<1> HIDE DEF freed, T
<1>5. SumFunctionOnSet(freed, T) = Refund(or, S, a)
  BY <1>2, <1>3, <1>4, SumWhere DEF Refund
<1>6. \A o \in Orders : Freeds(or, S, a)[o] \in Int /\ Freeds(or, S, a)[o] >= 0
  BY <1>2, <1>3
<1>7. Refund(or, S, a) \in Nat
  BY <1>4, <1>6, SumType DEF Refund
<1> QED BY <1>1, <1>5, <1>7 DEF T

\* Releasing reservations gives each buyer back what they held, and no more.
LEMMA ReleaseBooked ==
  ASSUME NEW or \in [Orders -> OrderRecord],
         \A o \in Orders : or[o] = Unallocated \/ OrderConsistent(or[o]),
         NEW S \in SUBSET Orders, \A o \in S : or[o].intent = "ACTIVE",
         NEW status \in {"RELEASED", "EXPIRED"},
         NEW w, BooksMatch(or, w)
  PROVE  /\ BooksMatch(OrdersReleased(or, S, status), WalletsReleased(w, or, S))
         /\ MoneyIn(OrdersReleased(or, S, status), WalletsReleased(w, or, S)) = MoneyIn(or, w)
         /\ \A a \in Actors : WalletsReleased(w, or, S)[a].available
                              = w[a].available + Refund(or, S, a)
<1> DEFINE or2 == OrdersReleased(or, S, status)
           v == WalletsReleased(w, or, S)
<1>1. IsFiniteSet(Orders) /\ IsFiniteSet(Actors)
  BY ConstantsAssumption, FS_AddElement DEF Actors
<1>2. ASSUME NEW a \in Actors
      PROVE  v[a] = [w[a] EXCEPT !.available = @ + Refund(or, S, a),
                                 !.held = @ - Refund(or, S, a)]
  BY RefundOf DEF WalletsReleased
<1>3. or2 \in [Orders -> OrderRecord]
  BY ReleaseConsistent
<1>4. ASSUME NEW o \in S
      PROVE  /\ or2[o] = [or[o] EXCEPT !.intent = status, !.txn = "CANCELED", !.held = 0]
             /\ Freed(or[o]) = or[o].held
             /\ ~or[o].settled
             /\ or[o].payment # "CAPTURED"
  <2>1. or[o] \in OrderRecord /\ or[o].intent = "ACTIVE"
    OBVIOUS
  <2>2. OrderConsistent(or[o])
    BY <2>1 DEF Unallocated
  <2>3. or[o].txn = "PAYMENT_PENDING" /\ or[o].held = or[o].total /\ or[o].held \in Nat
    BY <2>1, <2>2 DEF OrderConsistent, StatusesAgree, InEscrow, OrderRecord
  <2>4. Freed(or[o]) = or[o].held /\ or[o].held - Freed(or[o]) = 0
    BY <2>3 DEF Freed, Releasable
  <2>5. or2[o] = [or[o] EXCEPT !.intent = status, !.txn = "CANCELED", !.held = 0]
    BY <2>3, <2>4 DEF OrdersReleased, ReleasedOrder
  <2>6. ~or[o].settled /\ or[o].payment # "CAPTURED"
    BY <2>1, <2>2, <2>3 DEF OrderConsistent, StatusesAgree, CapturedStatus
  <2> QED BY <2>4, <2>5, <2>6
<1>5. \A o \in Orders \ S : or2[o] = or[o]
  BY DEF OrdersReleased
<1>6. v = [a \in Actors |-> v[a]]
  BY DEF WalletsReleased
<1> HIDE DEF or2, v
<1>7. \A o \in Orders : /\ or2[o].buyer = or[o].buyer
                        /\ or2[o].payment = or[o].payment
                        /\ or2[o].points = or[o].points
                        /\ or[o] \in OrderRecord
  <2>1. ASSUME NEW o \in S
        PROVE  /\ or2[o].buyer = or[o].buyer
               /\ or2[o].payment = or[o].payment
               /\ or2[o].points = or[o].points
    <3>1. or[o] \in OrderRecord
      OBVIOUS
    <3>2. or2[o] = [or[o] EXCEPT !.intent = status, !.txn = "CANCELED", !.held = 0]
      BY <1>4
    <3> QED BY <3>1, <3>2 DEF OrderRecord
  <2>2. \A o \in Orders : or[o] \in OrderRecord
    OBVIOUS
  <2> QED BY <1>5, <2>1, <2>2
<1>8. ASSUME NEW a \in Actors
      PROVE  /\ SumFunctionOnSet(Holds(or, a), Orders)
                  = SumFunctionOnSet(Holds(or2, a), Orders) + Refund(or, S, a)
             /\ SumFunctionOnSet(Holds(or2, a), Orders) \in Nat
  <2>1. ASSUME NEW o \in Orders
        PROVE  /\ Holds(or2, a)[o] \in Int /\ Holds(or2, a)[o] >= 0
               /\ Freeds(or, S, a)[o] \in Int
               /\ Holds(or, a)[o] = Holds(or2, a)[o] + Freeds(or, S, a)[o]
    <3>1. or[o].held \in Nat
      BY DEF OrderRecord
    <3>2. CASE o \in S
      <4>1. or2[o].held = 0 /\ Freed(or[o]) = or[o].held /\ or2[o].buyer = or[o].buyer
        BY <1>4, <1>7, <3>2 DEF OrderRecord
      <4> QED BY <3>1, <3>2, <4>1 DEF Holds, Freeds
    <3>3. CASE o \notin S
      BY <1>5, <3>1, <3>3 DEF Holds, Freeds
    <3> QED BY <3>2, <3>3
  <2>2. SumFunctionOnSet(Holds(or, a), Orders)
          = SumFunctionOnSet(Holds(or2, a), Orders) + SumFunctionOnSet(Freeds(or, S, a), Orders)
    BY <1>1, <2>1, SumPlus
  <2> QED BY <1>1, <2>1, <2>2, SumType DEF Refund
<1>9. ASSUME NEW a \in Actors
      PROVE  /\ v[a] \in WalletRecord
             /\ v[a].held = SumFunctionOnSet(Holds(or2, a), Orders)
             /\ v[a].points = w[a].points
             /\ v[a].available = w[a].available + Refund(or, S, a)
             /\ v[a].available + v[a].held = w[a].available + w[a].held
  <2>1. w[a] \in WalletRecord /\ w[a].held = SumFunctionOnSet(Holds(or, a), Orders)
    BY DEF BooksMatch
  <2>2. Refund(or, S, a) \in Nat
    BY RefundOf
  <2>3. w[a].available \in Nat /\ w[a].held \in Nat /\ w[a].points \in Nat
    BY <2>1 DEF WalletRecord
  <2>4. w[a].held - Refund(or, S, a) = SumFunctionOnSet(Holds(or2, a), Orders)
        /\ SumFunctionOnSet(Holds(or2, a), Orders) \in Nat
    BY <1>8, <2>1, <2>2, <2>3
  <2>5. /\ v[a].held = w[a].held - Refund(or, S, a)
        /\ v[a].available = w[a].available + Refund(or, S, a)
        /\ v[a].points = w[a].points
        /\ v[a] = [available |-> w[a].available + Refund(or, S, a),
                   held |-> w[a].held - Refund(or, S, a), points |-> w[a].points]
    BY <1>2, <2>1 DEF WalletRecord
  <2>6. v[a] \in WalletRecord
    BY <2>2, <2>3, <2>4, <2>5 DEF WalletRecord
  <2> QED BY <2>2, <2>3, <2>4, <2>5, <2>6
<1>10. ASSUME NEW b \in Buyers
       PROVE  v[b].points + SumFunctionOnSet(Spent(or2, b), Orders) = OpeningPoints
  <2>1. Spent(or2, b) = Spent(or, b)
    BY <1>7 DEF Spent
  <2> QED BY <1>9, <2>1 DEF BooksMatch, Actors
<1>11. BooksMatch(or2, v)
  BY <1>6, <1>9, <1>10 DEF BooksMatch
<1>12. MoneyIn(or2, v) = MoneyIn(or, w)
  <2>1. Purses(v) = Purses(w)
    BY <1>9 DEF Purses
  <2>2. ASSUME NEW o \in Orders PROVE PlatformShare(or2[o]) = PlatformShare(or[o])
    <3>1. CASE o \in S
      <4>1. ~or2[o].settled /\ ~or[o].settled
        BY <1>4, <1>7, <3>1 DEF OrderRecord
      <4> QED BY <4>1 DEF PlatformShare
    <3>2. CASE o \notin S
      BY <1>5, <3>2
    <3> QED BY <3>1, <3>2
  <2>3. Shares(or2) = Shares(or)
    BY <2>2 DEF Shares
  <2> QED BY <2>1, <2>3 DEF MoneyIn
<1> QED BY <1>9, <1>11, <1>12 DEF or2, v

\* What an order holds of its buyer is in the buyer's held balance.
LEMMA HeldIsThere ==
  ASSUME NEW or \in [Orders -> OrderRecord], NEW w, BooksMatch(or, w),
         NEW o \in Orders, or[o].buyer \in Buyers
  PROVE  or[o].held \in Nat /\ or[o].held <= w[or[o].buyer].held
<1> DEFINE b == or[o].buyer
<1>1. b \in Actors /\ IsFiniteSet(Orders)
  BY ConstantsAssumption DEF Actors
<1>2. \A x \in Orders : Holds(or, b)[x] \in Int /\ Holds(or, b)[x] >= 0
  <2>1. \A x \in Orders : or[x].held \in Nat
    BY DEF OrderRecord
  <2> QED BY <2>1 DEF Holds
<1>3. Holds(or, b)[o] = or[o].held
  BY DEF Holds
<1>4. w[b].held = SumFunctionOnSet(Holds(or, b), Orders)
  BY <1>1 DEF BooksMatch
<1>5. or[o].held \in Nat
  BY DEF OrderRecord
<1> HIDE DEF b
<1>6. Holds(or, b)[o] <= SumFunctionOnSet(Holds(or, b), Orders)
  BY <1>1, <1>2, SumBounds
<1> QED BY <1>3, <1>4, <1>5, <1>6 DEF b

\* A command that writes one order and pays between its buyer, the seller and
\* the platform keeps the books right and the money together.
Captured(rec) == IF rec.payment = "CAPTURED" THEN rec.points ELSE 0

\* Order o, of buyer b, goes from or to or2 and the wallets from w to v.
PaidBy(b, o, or, or2, w, v) ==
  /\ or2[o].buyer = b
  /\ or[o].buyer = b \/ or[o] = Unallocated
  /\ \A x \in Orders \ {o} : or2[x] = or[x]
  /\ \A a \in Actors \ {b, Seller} : v[a] = w[a]
  /\ v[Seller].held = w[Seller].held
  /\ v[b].held = w[b].held + (or2[o].held - or[o].held)
  /\ v[b].points = w[b].points - (Captured(or2[o]) - Captured(or[o]))
  /\ (v[b].available - w[b].available) + (or2[o].held - or[o].held)
       + (v[Seller].available - w[Seller].available)
       + (PlatformShare(or2[o]) - PlatformShare(or[o])) = 0

LEMMA OneOrderPaid ==
  ASSUME NEW or \in [Orders -> OrderRecord], NEW w, BooksMatch(or, w),
         NEW o \in Orders, NEW or2 \in [Orders -> OrderRecord],
         NEW v \in [Actors -> WalletRecord],
         NEW b \in Buyers, PaidBy(b, o, or, or2, w, v)
  PROVE  /\ BooksMatch(or2, v)
         /\ MoneyIn(or2, v) = MoneyIn(or, w)
<1> USE DEF PaidBy
<1>1. /\ Seller \notin Buyers /\ NoOne \notin Actors /\ b \in Actors /\ Seller \in Actors
      /\ b # Seller /\ b # NoOne
  BY ConstantsAssumption DEF Actors
<1>2. w \in [Actors -> WalletRecord]
  BY DEF BooksMatch
<1>3. \A a \in Actors : /\ w[a].available \in Nat /\ v[a].available \in Nat
                        /\ w[a].held \in Nat /\ v[a].held \in Nat
                        /\ w[a].points \in Nat /\ v[a].points \in Nat
  BY <1>2 DEF WalletRecord
<1>4. /\ or2[o].held \in Nat /\ or[o].held \in Nat
      /\ or2[o].points \in Nat /\ or[o].points \in Nat
  BY DEF OrderRecord
<1>5. or[o] = Unallocated =>
        /\ or[o].buyer = NoOne /\ or[o].held = 0 /\ or[o].payment # "CAPTURED"
  BY DEF Unallocated
<1>6. ASSUME NEW a \in Actors
      PROVE  v[a].held = w[a].held + (HeldBy(or2[o], a) - HeldBy(or[o], a))
  <2>1. CASE a = b
    <3>1. HeldBy(or2[o], a) = or2[o].held /\ HeldBy(or[o], a) = or[o].held
      BY <1>1, <1>5, <2>1 DEF HeldBy
    <3> QED BY <2>1, <3>1
  <2>2. CASE a # b
    <3>1. HeldBy(or2[o], a) = 0 /\ HeldBy(or[o], a) = 0
      BY <1>1, <1>5, <2>2 DEF HeldBy
    <3>2. v[a].held = w[a].held
      BY <2>2
    <3> QED BY <1>3, <3>1, <3>2
  <2> QED BY <2>1, <2>2
<1>7. ASSUME NEW a \in Buyers
      PROVE  v[a].points = w[a].points - (SpentBy(or2[o], a) - SpentBy(or[o], a))
  <2>1. CASE a = b
    <3>1. SpentBy(or2[o], a) = Captured(or2[o]) /\ SpentBy(or[o], a) = Captured(or[o])
      BY <1>1, <1>5, <2>1 DEF SpentBy, Captured
    <3> QED BY <2>1, <3>1
  <2>2. CASE a # b
    <3>1. SpentBy(or2[o], a) = 0 /\ SpentBy(or[o], a) = 0
      BY <1>1, <1>5, <2>2 DEF SpentBy
    <3>2. a \in Actors /\ v[a].points = w[a].points
      BY <1>1, <2>2 DEF Actors
    <3> QED BY <1>3, <3>1, <3>2
  <2> QED BY <2>1, <2>2
<1>8. BooksMatch(or2, v)
  <2>1. \A x \in Orders \ {o} : or2[x] = or[x]
    OBVIOUS
  <2> HIDE DEF PaidBy
  <2> QED BY <1>6, <1>7, <2>1, OneOrderBooked
<1>9. \A a \in Actors \ {b, Seller} : Purses(v)[a] = Purses(w)[a]
  BY DEF Purses
<1>10. /\ Purses(v)[b] - Purses(w)[b]
            = (v[b].available - w[b].available) + (or2[o].held - or[o].held)
       /\ Purses(v)[Seller] - Purses(w)[Seller] = v[Seller].available - w[Seller].available
  <2>1. /\ Purses(v)[b] = v[b].available + v[b].held
        /\ Purses(w)[b] = w[b].available + w[b].held
        /\ Purses(v)[Seller] = v[Seller].available + v[Seller].held
        /\ Purses(w)[Seller] = w[Seller].available + w[Seller].held
    BY <1>1 DEF Purses
  <2> QED BY <1>1, <1>3, <1>4, <2>1
<1>11. (Purses(v)[b] - Purses(w)[b]) + (Purses(v)[Seller] - Purses(w)[Seller])
         + (PlatformShare(or2[o]) - PlatformShare(or[o])) = 0
  BY <1>10
<1>12. MoneyIn(or2, v) = MoneyIn(or, w)
  BY <1>2, <1>9, <1>11, MoneyMoved
<1> QED BY <1>8, <1>12

\* A command that touches neither the hold, the payment nor the settlement of an
\* order, and no wallet, leaves the books as they are.
LEMMA BooksUntouched ==
  ASSUME NEW or \in [Orders -> OrderRecord], NEW w, BooksMatch(or, w),
         NEW or2 \in [Orders -> OrderRecord], NEW o \in Orders,
         \A x \in Orders \ {o} : or2[x] = or[x],
         or2[o].buyer = or[o].buyer, or2[o].held = or[o].held,
         or2[o].payment = or[o].payment, or2[o].points = or[o].points,
         PlatformShare(or2[o]) = PlatformShare(or[o])
  PROVE  BooksMatch(or2, w) /\ MoneyIn(or2, w) = MoneyIn(or, w)
<1>1. \A x \in Orders : /\ or2[x].buyer = or[x].buyer /\ or2[x].held = or[x].held
                        /\ or2[x].payment = or[x].payment /\ or2[x].points = or[x].points
                        /\ PlatformShare(or2[x]) = PlatformShare(or[x])
  OBVIOUS
<1>2. \A a : Holds(or2, a) = Holds(or, a) /\ Spent(or2, a) = Spent(or, a)
  BY <1>1 DEF Holds, Spent
<1>3. Shares(or2) = Shares(or)
  BY <1>1 DEF Shares
<1> QED BY <1>2, <1>3 DEF BooksMatch, MoneyIn

-----------------------------------------------------------------------------
(* The steps.  Each keeps the books right and, deposits and withdrawals      *)
(* aside, the money together.                                                *)

MoneyStays == /\ BooksMatch(order', wallet')
              /\ MoneyIn(order', wallet') = MoneyIn(order, wallet)

\* A hold that grows or shrinks by n and that the purse can bear.
LEMMA HoldMoved ==
  ASSUME NEW w \in [Actors -> WalletRecord], NEW b \in Buyers, NEW n \in Int,
         n <= w[b].available, w[b].held + n >= 0
  PROVE  /\ Hold(w, b, n) \in [Actors -> WalletRecord]
         /\ Hold(w, b, n)[b] = [available |-> w[b].available - n, held |-> w[b].held + n,
                                points |-> w[b].points]
         /\ \A a \in Actors \ {b} : Hold(w, b, n)[a] = w[a]
<1> DEFINE v == Hold(w, b, n)
           purse == [available |-> w[b].available - n, held |-> w[b].held + n,
                     points |-> w[b].points]
<1>1. b \in Actors
  BY DEF Actors
<1>2. w[b] \in WalletRecord
  BY <1>1
<1>3. purse \in WalletRecord
  BY <1>2 DEF WalletRecord
<1>4. v[b] = purse
  BY <1>1, <1>2 DEF Hold, WalletRecord
<1>5. \A a \in Actors \ {b} : v[a] = w[a]
  BY DEF Hold
<1>6. v = [a \in Actors |-> v[a]]
  BY DEF Hold
<1> HIDE DEF v, purse
<1>7. v \in [Actors -> WalletRecord]
  BY <1>3, <1>4, <1>5, <1>6
<1> QED BY <1>4, <1>5, <1>7 DEF v, purse

\* What a checkout asks the wallet for is there.
LEMMA QuoteCovered ==
  ASSUME TradeTypeOK, OrdersConsistent, BooksMatch(order, wallet),
         NEW o \in Orders, NEW c \in Coupons, NEW p \in PointUses, Checkout(o, c, p)
  PROVE  /\ Quoted(o, c, p).held \in Nat
         /\ Quoted(o, c, p).held <= wallet[order[o].buyer].available + order[o].held
         /\ Quoted(o, c, p).payment = order[o].payment
         /\ Quoted(o, c, p).settled = order[o].settled
<1> DEFINE q == Quoted(o, c, p)
           t == NewTotal(o, c, p)
           rec == order[o]
<1>1. rec \in OrderRecord /\ rec.intent = "ACTIVE"
  BY DEF TradeTypeOK, OrdersTypeOK, Checkout
<1>2. OrderConsistent(rec)
  BY <1>1 DEF OrdersConsistent, Unallocated
<1>3. rec.held = rec.total /\ rec.held \in Nat /\ rec.buyer \in Actors
  BY <1>1, <1>2 DEF OrderConsistent, StatusesAgree, InEscrow, OrderRecord, Actors
<1>4. wallet[rec.buyer].available \in Nat
  BY <1>3 DEF BooksMatch, WalletRecord
<1>5. CASE c = 0 /\ p = 0
  <2>1. q = rec
    BY <1>5 DEF Quoted
  <2> QED BY <1>3, <1>4, <2>1
<1>6. CASE ~(c = 0 /\ p = 0)
  <2>1. q = [rec EXCEPT !.total = t, !.points = p,
                        !.held = IF t = rec.total THEN @ ELSE @ - Releasable(rec) + t]
    BY <1>6 DEF Quoted
  <2>2. Releasable(rec) = rec.held
    BY <1>3 DEF Releasable
  <2>3. t = rec.total \/ (t > 0 /\ wallet[rec.buyer].available + rec.held >= t)
    BY <1>6 DEF Checkout, QuoteAllowed
  <2>4. t \in Int
    <3>1. c \in Nat /\ p \in Nat
      BY ConstantsAssumption
    <3>2. item[rec.item].price \in Nat /\ item[rec.item].shipping \in Nat
      BY QuotedConsistent DEF TradeTypeOK, ItemsTypeOK, ItemRecord
    <3> QED BY <3>1, <3>2 DEF NewTotal, Coupon
  <2> HIDE DEF q, t, rec
  <2>5. q.payment = rec.payment /\ q.settled = rec.settled
        /\ q.held = IF t = rec.total THEN rec.held ELSE rec.held - Releasable(rec) + t
    BY <1>1, <2>1 DEF OrderRecord
  <2>6. q.held = t
    BY <1>3, <2>2, <2>4, <2>5
  <2>7. q.held \in Nat /\ q.held <= wallet[rec.buyer].available + rec.held
    BY <1>3, <1>4, <2>3, <2>4, <2>6
  <2> QED BY <2>5, <2>7 DEF q, rec
<1> QED BY <1>5, <1>6

OthersStay(o, or, or2) == \A x \in Orders \ {o} : or2[x] = or[x]

SameMoney(or, w, or2, v) == MoneyIn(or2, v) = MoneyIn(or, w)

\* The books after the quote of a checkout, whatever becomes of it.
LEMMA QuotePaid ==
  ASSUME TradeTypeOK, OrdersConsistent, BooksMatch(order, wallet),
         NEW o \in Orders, order[o].intent = "ACTIVE",
         NEW q \in OrderRecord, q.buyer = order[o].buyer, ~q.settled,
         NEW b, b = order[o].buyer, q.held <= wallet[b].available + order[o].held,
         NEW v, v = QuotedWallet(o, q),
         NEW or2 \in [Orders -> OrderRecord],
         or2[o] = q, OthersStay(o, order, or2)
  PROVE  /\ b \in Buyers /\ b \in Actors /\ Seller \in Actors /\ b # Seller
         /\ order[o].payment # "CAPTURED"
         /\ v \in [Actors -> WalletRecord]
         /\ v[b] = [available |-> wallet[b].available - (q.held - order[o].held),
                    held |-> wallet[b].held + (q.held - order[o].held),
                    points |-> wallet[b].points]
         /\ \A a \in Actors \ {b} : v[a] = wallet[a]
         /\ PlatformShare(order[o]) = 0 /\ PlatformShare(q) = 0
         /\ q.payment # "CAPTURED" =>
              BooksMatch(or2, v) /\ SameMoney(order, wallet, or2, v)
<1> DEFINE rec == order[o]
<1>1. rec \in OrderRecord /\ order \in [Orders -> OrderRecord]
  BY DEF TradeTypeOK, OrdersTypeOK
<1>2. OrderConsistent(rec)
  BY DEF OrdersConsistent, Unallocated
<1>3. /\ b \in Buyers /\ rec.payment # "CAPTURED" /\ ~rec.settled
      /\ rec.held \in Nat /\ q.held \in Nat
  BY <1>1, <1>2 DEF OrderConsistent, StatusesAgree, OrderRecord, CapturedStatus
<1>4. b \in Actors /\ Seller \in Actors /\ b # Seller
  BY <1>3, ConstantsAssumption DEF Actors
<1>5. wallet \in [Actors -> WalletRecord]
  BY DEF BooksMatch
<1>6. wallet[b].available \in Nat /\ wallet[b].held \in Nat /\ wallet[b].points \in Nat
      /\ wallet[Seller].available \in Nat
  BY <1>4, <1>5 DEF WalletRecord
<1>7. rec.held <= wallet[b].held
  BY <1>1, <1>3, HeldIsThere
<1> DEFINE n == q.held - rec.held
<1>8. n \in Int /\ n <= wallet[b].available /\ wallet[b].held + n >= 0
  BY <1>3, <1>6, <1>7
<1>9. v = Hold(wallet, b, n)
  BY DEF QuotedWallet
<1> HIDE DEF n
<1>10. /\ v \in [Actors -> WalletRecord]
       /\ v[b] = [available |-> wallet[b].available - n, held |-> wallet[b].held + n,
                  points |-> wallet[b].points]
       /\ \A a \in Actors \ {b} : v[a] = wallet[a]
  BY <1>3, <1>5, <1>8, <1>9, HoldMoved
<1>11. PlatformShare(rec) = 0 /\ PlatformShare(q) = 0
  BY <1>3 DEF PlatformShare
<1>13. ASSUME q.payment # "CAPTURED"
       PROVE  BooksMatch(or2, v) /\ SameMoney(order, wallet, or2, v)
  <2>1. or2[o].buyer = b /\ or2[o].held = q.held
    OBVIOUS
  <2>2. v[Seller] = wallet[Seller] /\ \A a \in Actors \ {b, Seller} : v[a] = wallet[a]
    BY <1>4, <1>10
  <2>3. v[b].held = wallet[b].held + (or2[o].held - order[o].held)
    BY <1>10, <2>1 DEF n
  <2>4. Captured(or2[o]) = 0 /\ Captured(order[o]) = 0
    BY <1>3, <1>13 DEF Captured
  <2>5. v[b].points = wallet[b].points - (Captured(or2[o]) - Captured(order[o]))
    BY <1>6, <1>10, <2>4
  <2>6. (v[b].available - wallet[b].available) + (or2[o].held - order[o].held)
          + (v[Seller].available - wallet[Seller].available)
          + (PlatformShare(or2[o]) - PlatformShare(order[o])) = 0
    <3>1. v[b].available - wallet[b].available = -(q.held - order[o].held)
      BY <1>3, <1>6, <1>10 DEF n
    <3>2. v[Seller].available - wallet[Seller].available = 0
      BY <1>6, <2>2
    <3>3. PlatformShare(or2[o]) - PlatformShare(order[o]) = 0
      BY <1>11
    <3> QED BY <1>3, <2>1, <3>1, <3>2, <3>3
  <2>7. or2[o].buyer = b /\ (order[o].buyer = b \/ order[o] = Unallocated)
        /\ v[Seller].held = wallet[Seller].held /\ BooksMatch(order, wallet)
    BY <2>1, <2>2
  <2>8. PaidBy(b, o, order, or2, wallet, v)
    BY <2>1, <2>2, <2>3, <2>5, <2>6, <2>7 DEF PaidBy, OthersStay
  <2> QED BY <1>1, <1>3, <1>10, <2>8, OneOrderPaid DEF SameMoney
<1> QED BY <1>3, <1>4, <1>10, <1>11, <1>13 DEF n

\* A checkout that ends with the reservation released: the quote is booked, then
\* the hold of the quoted order goes back.
LEMMA LostCheckoutPaid ==
  ASSUME TradeTypeOK, OrdersConsistent, BooksMatch(order, wallet),
         NEW o \in Orders, order[o].intent = "ACTIVE",
         NEW q \in OrderRecord, OrderConsistent(q), q.intent = "ACTIVE",
         q.buyer = order[o].buyer,
         q.held <= wallet[order[o].buyer].available + order[o].held,
         NEW status \in {"RELEASED", "EXPIRED"},
         Release([order EXCEPT ![o] = q], QuotedWallet(o, q), {o}, status)
  PROVE  MoneyStays
<1> DEFINE b == order[o].buyer
           v == QuotedWallet(o, q)
           or2 == [order EXCEPT ![o] = q]
<1>1. order \in [Orders -> OrderRecord]
  BY DEF TradeTypeOK, OrdersTypeOK
<1>2. /\ or2 \in [Orders -> OrderRecord] /\ or2[o] = q
      /\ \A x \in Orders \ {o} : or2[x] = order[x]
      /\ OthersStay(o, order, or2)
  BY <1>1 DEF OthersStay
<1>3. ~q.settled /\ q.payment # "CAPTURED"
  BY DEF OrderConsistent, StatusesAgree, OrderRecord, CapturedStatus
<1>4. b = order[o].buyer /\ v = QuotedWallet(o, q)
  OBVIOUS
<1>5. q.held <= wallet[b].available + order[o].held /\ q.buyer = order[o].buyer
  OBVIOUS
<1>6. /\ order' = OrdersReleased(or2, {o}, status)
      /\ wallet' = WalletsReleased(v, or2, {o})
  BY DEF Release
<1> HIDE DEF b, v, or2
<1>7. BooksMatch(or2, v) /\ MoneyIn(or2, v) = MoneyIn(order, wallet)
  <2>1. q.payment # "CAPTURED" =>
          BooksMatch(or2, v) /\ SameMoney(order, wallet, or2, v)
    BY <1>2, <1>3, <1>4, <1>5, QuotePaid
  <2> QED BY <1>3, <2>1 DEF SameMoney
<1>8. \A x \in Orders : or2[x] = Unallocated \/ OrderConsistent(or2[x])
  BY <1>2 DEF OrdersConsistent
<1>9. {o} \in SUBSET Orders /\ \A x \in {o} : or2[x].intent = "ACTIVE"
  BY <1>2
<1>10. /\ BooksMatch(OrdersReleased(or2, {o}, status), WalletsReleased(v, or2, {o}))
       /\ MoneyIn(OrdersReleased(or2, {o}, status), WalletsReleased(v, or2, {o}))
            = MoneyIn(or2, v)
  BY <1>2, <1>7, <1>8, <1>9, ReleaseBooked
<1> QED BY <1>6, <1>7, <1>10 DEF MoneyStays

LEMMA CheckoutPaid ==
  ASSUME TradeTypeOK, OrdersConsistent, OrdersTypeOK', BooksMatch(order, wallet),
         NEW o \in Orders, NEW c \in Coupons, NEW p \in PointUses
  PROVE  /\ ConfirmTooLate(o, c, p) => MoneyStays
         /\ ConfirmDeclined(o, c, p) => MoneyStays
         /\ ConfirmCaptured(o, c, p) => MoneyStays
<1> DEFINE q == Quoted(o, c, p)
           b == order[o].buyer
<1>1. order \in [Orders -> OrderRecord] /\ wallet \in [Actors -> WalletRecord]
  BY DEF TradeTypeOK, OrdersTypeOK, BooksMatch
<1>2. ASSUME Checkout(o, c, p)
      PROVE  /\ order[o].intent = "ACTIVE" /\ q \in OrderRecord /\ OrderConsistent(q)
             /\ q.intent = "ACTIVE" /\ q.buyer = b
             /\ q.held <= wallet[b].available + order[o].held
  BY <1>2, QuotedConsistent, QuoteCovered DEF Checkout
<1>3. ASSUME ConfirmTooLate(o, c, p) PROVE MoneyStays
  <2>1. Checkout(o, c, p) /\ Release([order EXCEPT ![o] = q], QuotedWallet(o, q), {o}, "EXPIRED")
    BY <1>3 DEF ConfirmTooLate
  <2> HIDE DEF q
  <2> QED BY <1>2, <2>1, LostCheckoutPaid
<1>4. ASSUME ConfirmDeclined(o, c, p) PROVE MoneyStays
  <2> DEFINE failed == [q EXCEPT !.payment = "FAILED"]
  <2>1. /\ Checkout(o, c, p)
        /\ Release([order EXCEPT ![o] = failed], QuotedWallet(o, failed), {o}, "RELEASED")
    BY <1>4 DEF ConfirmDeclined
  <2> HIDE DEF q
  <2>2. /\ failed \in OrderRecord /\ OrderConsistent(failed) /\ failed.intent = "ACTIVE"
        /\ failed.buyer = q.buyer /\ failed.held = q.held
    BY <1>2, <2>1, DeclinedConsistent
  <2> HIDE DEF failed
  <2> QED BY <1>2, <2>1, <2>2, LostCheckoutPaid
<1>5. ASSUME ConfirmCaptured(o, c, p) PROVE MoneyStays
  <2> DEFINE new == [q EXCEPT !.intent = "COMMITTED", !.txn = "AWAITING_SHIPMENT",
                              !.payment = "CAPTURED", !.shipment = "PENDING"]
             u == QuotedWallet(o, q)
             or1 == [order EXCEPT ![o] = q]
             v == [u EXCEPT ![b].points = @ - q.points]
             or2 == [order EXCEPT ![o] = new]
  <2>1. Checkout(o, c, p) /\ q.points <= wallet[b].points /\ order' = or2 /\ wallet' = v
    BY <1>5 DEF ConfirmCaptured
  <2>2. or1 \in [Orders -> OrderRecord] /\ or1[o] = q /\ OthersStay(o, order, or1)
    BY <1>1, <1>2, <2>1 DEF OthersStay
  <2>3. order'[o] = new /\ \A x \in Orders \ {o} : order'[x] = order[x]
    BY <1>1, <2>1
  <2>4. u = QuotedWallet(o, q) /\ v = [u EXCEPT ![b].points = @ - q.points]
        /\ b = order[o].buyer
    OBVIOUS
  <2>5. /\ new.buyer = q.buyer /\ new.held = q.held /\ new.points = q.points
        /\ new.payment = "CAPTURED" /\ new.settled = q.settled
    <3> HIDE DEF q
    <3> QED BY <1>2, <2>1 DEF OrderRecord
  <2> HIDE DEF q, b, u, v, or1, or2, new
  <2>6. ~q.settled
    BY <1>2, <2>1 DEF OrderConsistent, StatusesAgree, OrderRecord
  <2>7. /\ b \in Buyers /\ b \in Actors /\ Seller \in Actors /\ b # Seller
        /\ order[o].payment # "CAPTURED"
        /\ u \in [Actors -> WalletRecord]
        /\ u[b] = [available |-> wallet[b].available - (q.held - order[o].held),
                   held |-> wallet[b].held + (q.held - order[o].held),
                   points |-> wallet[b].points]
        /\ \A a \in Actors \ {b} : u[a] = wallet[a]
        /\ PlatformShare(order[o]) = 0
    BY <1>2, <2>1, <2>2, <2>4, <2>6, QuotePaid
  <2>8. /\ wallet[b].points \in Nat /\ wallet[b].available \in Nat /\ wallet[b].held \in Nat
        /\ wallet[Seller].available \in Nat
        /\ q.points \in Nat /\ q.held \in Nat /\ order[o].held \in Nat
        /\ u[b] \in WalletRecord
    BY <1>1, <1>2, <2>1, <2>7 DEF WalletRecord, OrderRecord
  <2> DEFINE purse == [available |-> wallet[b].available - (q.held - order[o].held),
                       held |-> wallet[b].held + (q.held - order[o].held),
                       points |-> wallet[b].points - q.points]
  <2>9. purse \in WalletRecord
    <3>1. wallet[b].points - q.points \in Nat
      BY <2>1, <2>8
    <3>2. /\ wallet[b].available - (q.held - order[o].held) \in Nat
          /\ wallet[b].held + (q.held - order[o].held) \in Nat
      BY <2>7, <2>8 DEF WalletRecord
    <3> QED BY <3>1, <3>2 DEF WalletRecord
  <2>10. v[b] = purse /\ \A a \in Actors \ {b} : v[a] = wallet[a]
    BY <2>4, <2>7, <2>8 DEF WalletRecord
  <2>11. v \in [Actors -> WalletRecord]
    <3>1. v = [a \in Actors |-> v[a]]
      BY <2>4, <2>7
    <3> HIDE DEF purse
    <3>2. \A a \in Actors : v[a] \in WalletRecord
      BY <1>1, <2>9, <2>10
    <3> QED BY <3>1, <3>2
  <2>12. PaidBy(b, o, order, order', wallet, v)
    <3>1. order'[o].buyer = b /\ order[o].buyer = b
      BY <1>2, <2>1, <2>3, <2>4, <2>5
    <3>2. v[Seller] = wallet[Seller] /\ \A a \in Actors \ {b, Seller} : v[a] = wallet[a]
      BY <2>7, <2>10
    <3>3. order'[o].held = q.held /\ v[b].held = wallet[b].held + (q.held - order[o].held)
      BY <2>3, <2>5, <2>10
    <3>4. Captured(order'[o]) = q.points /\ Captured(order[o]) = 0
      BY <2>3, <2>5, <2>7 DEF Captured
    <3>5. v[b].points = wallet[b].points - (Captured(order'[o]) - Captured(order[o]))
      BY <2>8, <2>10, <3>4
    <3>6. PlatformShare(order'[o]) = 0
      BY <2>3, <2>5, <2>6 DEF PlatformShare
    <3>7. v[b].available - wallet[b].available = -(q.held - order[o].held)
      BY <2>8, <2>10
    <3>8. v[Seller].available - wallet[Seller].available = 0
      BY <2>8, <3>2
    <3>9. (v[b].available - wallet[b].available) + (order'[o].held - order[o].held)
            + (v[Seller].available - wallet[Seller].available)
            + (PlatformShare(order'[o]) - PlatformShare(order[o])) = 0
      BY <2>7, <2>8, <3>3, <3>6, <3>7, <3>8
    <3> QED BY <2>3, <3>1, <3>2, <3>3, <3>5, <3>9 DEF PaidBy
  <2>13. order' \in [Orders -> OrderRecord]
    BY DEF OrdersTypeOK
  <2> QED BY <1>1, <2>1, <2>7, <2>11, <2>12, <2>13, OneOrderPaid DEF MoneyStays
<1> QED BY <1>3, <1>4, <1>5

\* Commands that move goods, requests and reviews, and no money.
LEMMA GoodsMove ==
  ASSUME TradeTypeOK, OrdersConsistent, OrdersTypeOK', BooksMatch(order, wallet),
         NEW o \in Orders
  PROVE  /\ ShipOrder(o) => MoneyStays
         /\ ShipmentFails(o) => MoneyStays
         /\ MarkDelivered(o) => MoneyStays
         /\ BuyerReviews(o) => MoneyStays
         /\ RequestCancellation(o) => MoneyStays
         /\ RequestReturn(o) => MoneyStays
         /\ ApproveReturn(o) => MoneyStays
         /\ DeclineRequest(o) => MoneyStays
<1> DEFINE rec == order[o]
<1>1. order \in [Orders -> OrderRecord] /\ rec \in OrderRecord
      /\ order' \in [Orders -> OrderRecord]
  BY DEF TradeTypeOK, OrdersTypeOK
<1>2. ASSUME wallet' = wallet, \A x \in Orders \ {o} : order'[x] = order[x],
             order'[o].buyer = rec.buyer, order'[o].held = rec.held,
             order'[o].payment = rec.payment, order'[o].points = rec.points,
             order'[o].settled = rec.settled, order'[o].total = rec.total,
             order'[o].price = rec.price,
             rec.settled => rec.txn # "REFUNDED" /\ order'[o].txn # "REFUNDED"
      PROVE  MoneyStays
  <2>1. PlatformShare(order'[o]) = PlatformShare(order[o])
    BY <1>2 DEF PlatformShare
  <2>2. BooksMatch(order', wallet) /\ MoneyIn(order', wallet) = MoneyIn(order, wallet)
    BY <1>1, <1>2, <2>1, BooksUntouched
  <2> QED BY <1>2, <2>2 DEF MoneyStays
<1>3. ASSUME rec.txn # "NONE" PROVE OrderConsistent(rec)
  BY <1>3, AllocatedConsistent DEF TradeTypeOK
<1>4. ASSUME ShipOrder(o) PROVE MoneyStays
  <2>1. order' = [order EXCEPT ![o].shipment = "IN_TRANSIT", ![o].txn = "SHIPPED"]
        /\ wallet' = wallet /\ rec.txn = "AWAITING_SHIPMENT"
    BY <1>4 DEF ShipOrder
  <2> QED BY <1>1, <1>2, <2>1 DEF OrderRecord
<1>5. ASSUME ShipmentFails(o) PROVE MoneyStays
  <2>1. order' = [order EXCEPT ![o].shipment = "EXCEPTION"]
        /\ wallet' = wallet /\ rec.txn = "AWAITING_SHIPMENT"
    BY <1>5 DEF ShipmentFails
  <2> QED BY <1>1, <1>2, <2>1 DEF OrderRecord
<1>6. ASSUME MarkDelivered(o) PROVE MoneyStays
  <2>1. order' = [order EXCEPT ![o].shipment = "DELIVERED", ![o].txn = "DELIVERED"]
        /\ wallet' = wallet /\ rec.txn = "SHIPPED"
    BY <1>6 DEF MarkDelivered
  <2> QED BY <1>1, <1>2, <2>1 DEF OrderRecord
<1>7. ASSUME BuyerReviews(o) PROVE MoneyStays
  <2>1. order' = [order EXCEPT ![o].txn = "BUYER_REVIEWED", ![o].reviewed = TRUE]
        /\ wallet' = wallet /\ rec.txn = "DELIVERED"
    BY <1>7 DEF BuyerReviews
  <2> QED BY <1>1, <1>2, <2>1 DEF OrderRecord
<1>8. ASSUME RequestCancellation(o) PROVE MoneyStays
  <2>1. order' = [order EXCEPT ![o].previous = order[o].txn, ![o].txn = "CANCEL_REQUESTED"]
        /\ wallet' = wallet /\ rec.txn \in {"SHIPPED", "DELIVERED"}
    BY <1>8 DEF RequestCancellation
  <2> QED BY <1>1, <1>2, <2>1 DEF OrderRecord
<1>9. ASSUME RequestReturn(o) PROVE MoneyStays
  <2>1. order' = [order EXCEPT ![o].returnCase = "REQUESTED",
                               ![o].previous = order[o].txn, ![o].txn = "CANCEL_REQUESTED"]
        /\ wallet' = wallet /\ rec.txn \in {"DELIVERED", "COMPLETED"}
    BY <1>9 DEF RequestReturn
  <2> QED BY <1>1, <1>2, <2>1 DEF OrderRecord
<1>10. ASSUME ApproveReturn(o) PROVE MoneyStays
  <2>1. order' = [order EXCEPT ![o].returnCase = "IN_TRANSIT", ![o].shipment = "RETURNING"]
        /\ wallet' = wallet /\ rec.txn = "CANCEL_REQUESTED"
    BY <1>10 DEF ApproveReturn
  <2> QED BY <1>1, <1>2, <2>1 DEF OrderRecord
<1>11. ASSUME DeclineRequest(o) PROVE MoneyStays
  <2>1. /\ wallet' = wallet /\ rec.txn = "CANCEL_REQUESTED"
        /\ \E s, r, v : order' = [order EXCEPT ![o].txn = rec.previous, ![o].shipment = s,
                                               ![o].returnCase = r, ![o].overruled = v]
    BY <1>11, Zenon DEF DeclineRequest
  <2>2. rec.previous \in {"SHIPPED", "DELIVERED", "COMPLETED"}
    BY <1>3, <2>1 DEF OrderConsistent, StatusesAgree
  <2> QED BY <1>1, <1>2, <2>1, <2>2 DEF OrderRecord
<1> QED BY <1>4, <1>5, <1>6, <1>7, <1>8, <1>9, <1>10, <1>11

\* Settlement: the hold becomes the seller's income and the platform's fee.
LEMMA SettlementPaid ==
  ASSUME TradeTypeOK, OrdersConsistent, OrdersTypeOK', BooksMatch(order, wallet),
         NEW o \in Orders, SellerReviews(o)
  PROVE  MoneyStays
<1> DEFINE rec == order[o]
           b == rec.buyer
           w == wallet
           v == wallet'
           net == rec.price - Fee(rec.price)
<1>1. /\ order \in [Orders -> OrderRecord] /\ rec \in OrderRecord
      /\ order' \in [Orders -> OrderRecord]
      /\ w \in [Actors -> WalletRecord]
  BY DEF TradeTypeOK, OrdersTypeOK, BooksMatch
<1>2. /\ rec.txn = "BUYER_REVIEWED"
      /\ order' = [order EXCEPT ![o].txn = "COMPLETED", ![o].settled = TRUE,
                                ![o].held = @ - rec.total]
      /\ v = [w EXCEPT ![b].held = @ - rec.total,
                       ![Seller].available = @ + rec.price - Fee(rec.price)]
  BY DEF SellerReviews
<1>3. OrderConsistent(rec)
  BY <1>2, AllocatedConsistent DEF TradeTypeOK
<1>4. /\ rec.held = rec.total /\ rec.held \in Nat /\ rec.price \in Nat /\ ~rec.settled
      /\ b \in Buyers
  BY <1>1, <1>2, <1>3 DEF OrderConsistent, StatusesAgree, InEscrow, OrderRecord
<1>5. b \in Actors /\ Seller \in Actors /\ b # Seller
  BY <1>4, ConstantsAssumption DEF Actors
<1>6. Fee(rec.price) \in Nat /\ net \in Nat
  <2>1. \A n \in Nat : n \div 10 \in Nat /\ n \div 10 <= n
    OBVIOUS
  <2> QED BY <1>4, <2>1 DEF Fee
<1>7. rec.held <= w[b].held
  BY <1>1, <1>4, HeldIsThere
<1>8. /\ w[b] \in WalletRecord /\ w[Seller] \in WalletRecord
      /\ w[b].held \in Nat /\ w[b].available \in Nat /\ w[b].points \in Nat
      /\ w[Seller].held \in Nat /\ w[Seller].available \in Nat /\ w[Seller].points \in Nat
  BY <1>1, <1>5 DEF WalletRecord
<1>9. /\ v[b] = [w[b] EXCEPT !.held = @ - rec.total]
      /\ v[Seller] = [w[Seller] EXCEPT !.available = @ + rec.price - Fee(rec.price)]
      /\ \A a \in Actors \ {b, Seller} : v[a] = w[a]
      /\ v = [a \in Actors |-> v[a]]
  BY <1>1, <1>2, <1>5
<1>10. /\ order'[o].buyer = b /\ order'[o].held = 0 /\ order'[o].payment = rec.payment
       /\ order'[o].points = rec.points /\ order'[o].settled /\ order'[o].txn = "COMPLETED"
       /\ order'[o].total = rec.total /\ order'[o].price = rec.price
       /\ \A x \in Orders \ {o} : order'[x] = order[x]
  <2>1. rec.held - rec.total = 0
    BY <1>4
  <2> QED BY <1>1, <1>2, <2>1 DEF OrderRecord
<1> HIDE DEF rec, b, w, v, net
<1>11. /\ v[b].held = w[b].held - rec.total /\ v[b].available = w[b].available
       /\ v[b].points = w[b].points
       /\ v[Seller].held = w[Seller].held
       /\ v[Seller].available = w[Seller].available + net
       /\ v[b] \in WalletRecord /\ v[Seller] \in WalletRecord
  <2>1. w[Seller].available + rec.price - Fee(rec.price) = w[Seller].available + net
    BY <1>4, <1>6, <1>8 DEF net
  <2>2. w[b].held - rec.total \in Nat /\ w[Seller].available + net \in Nat
    BY <1>4, <1>6, <1>7, <1>8
  <2> QED BY <1>8, <1>9, <2>1, <2>2 DEF WalletRecord
<1>12. v \in [Actors -> WalletRecord]
  BY <1>1, <1>9, <1>11
<1>13. PlatformShare(order'[o]) = rec.total - net /\ PlatformShare(order[o]) = 0
  BY <1>4, <1>10 DEF PlatformShare, net, rec
<1>14. PaidBy(b, o, order, order', wallet, v)
  <2>1. Captured(order'[o]) = Captured(order[o]) /\ Captured(order[o]) \in Int
    BY <1>1, <1>10 DEF Captured, rec, OrderRecord
  <2>2. v[b].points = w[b].points - (Captured(order'[o]) - Captured(order[o]))
    BY <1>8, <1>11, <2>1
  <2>3. v[b].held = w[b].held + (order'[o].held - order[o].held)
    BY <1>4, <1>8, <1>10, <1>11 DEF rec
  <2>4. (v[b].available - w[b].available) + (order'[o].held - order[o].held)
          + (v[Seller].available - w[Seller].available)
          + (PlatformShare(order'[o]) - PlatformShare(order[o])) = 0
    <3>1. v[b].available - w[b].available = 0
      BY <1>8, <1>11
    <3>2. order'[o].held - order[o].held = -rec.total
      BY <1>4, <1>10 DEF rec
    <3>3. v[Seller].available - w[Seller].available = net
      BY <1>6, <1>8, <1>11
    <3> QED BY <1>4, <1>6, <1>13, <3>1, <3>2, <3>3
  <2> QED BY <1>9, <1>10, <1>11, <2>2, <2>3, <2>4 DEF PaidBy, w, b, rec
<1>15. BooksMatch(order', v) /\ MoneyIn(order', v) = MoneyIn(order, wallet)
  BY <1>1, <1>4, <1>12, <1>14, OneOrderPaid
<1> QED BY <1>15 DEF MoneyStays, v

\* A refund before settlement: the hold and the points go back to the buyer.
LEMMA HoldReturned ==
  ASSUME TradeTypeOK, OrdersConsistent, OrdersTypeOK', BooksMatch(order, wallet),
         NEW o \in Orders, order[o].payment = "CAPTURED", order[o].held > 0,
         OthersStay(o, order, order'),
         order'[o].buyer = order[o].buyer, order'[o].payment = "REFUNDED",
         order'[o].txn = "REFUNDED",
         order'[o].held = order[o].held - Releasable(order[o]),
         wallet' = RefundedWallet(order[o])
  PROVE  MoneyStays
<1> DEFINE rec == order[o]
           b == rec.buyer
           w == wallet
           v == wallet'
<1>1. /\ order \in [Orders -> OrderRecord] /\ rec \in OrderRecord
      /\ order' \in [Orders -> OrderRecord]
      /\ w \in [Actors -> WalletRecord]
  BY DEF TradeTypeOK, OrdersTypeOK, BooksMatch
<1>2. OrderConsistent(rec)
  BY DEF OrdersConsistent, Unallocated
<1>3. /\ rec.held = rec.total /\ rec.held \in Nat /\ rec.points \in Nat /\ b \in Buyers
      /\ rec.txn \in CapturedStatus
  BY <1>1, <1>2 DEF OrderConsistent, StatusesAgree, OrderRecord
<1>4. ~rec.settled \/ rec.txn = "REFUNDED"
  BY <1>1, <1>2, <1>3 DEF OrderConsistent, StatusesAgree, InEscrow, OrderRecord, CapturedStatus
<1>5. b \in Actors /\ Seller \in Actors /\ b # Seller
  BY <1>3, ConstantsAssumption DEF Actors
<1>6. rec.held <= w[b].held
  BY <1>1, <1>3, HeldIsThere
<1>7. Releasable(rec) = rec.held /\ rec.held - Releasable(rec) = 0
  BY <1>3 DEF Releasable
<1>8. /\ w[b] \in WalletRecord /\ w[Seller].available \in Nat
      /\ w[b].held \in Nat /\ w[b].available \in Nat /\ w[b].points \in Nat
  BY <1>1, <1>5 DEF WalletRecord
<1>9. /\ v[b] = [available |-> w[b].available + rec.held, held |-> w[b].held - rec.held,
                 points |-> w[b].points + rec.points]
      /\ \A a \in Actors \ {b} : v[a] = w[a]
      /\ v = [a \in Actors |-> v[a]]
  BY <1>1, <1>5, <1>7, <1>8 DEF RefundedWallet, WalletRecord
<1>10. PlatformShare(order[o]) = 0 /\ PlatformShare(order'[o]) = 0
  BY <1>4 DEF PlatformShare
<1>11. Captured(order[o]) = rec.points /\ Captured(order'[o]) = 0
  BY DEF Captured
<1>12. order[o].buyer = b /\ order'[o].buyer = b /\ order[o].held = rec.held
       /\ order'[o].held = 0
  BY <1>7
<1> HIDE DEF rec, b, w, v
<1>13. v[b] \in WalletRecord
  <2>1. /\ w[b].available + rec.held \in Nat /\ w[b].held - rec.held \in Nat
        /\ w[b].points + rec.points \in Nat
    BY <1>3, <1>6, <1>8
  <2> QED BY <1>9, <2>1 DEF WalletRecord
<1>14. v \in [Actors -> WalletRecord]
  BY <1>1, <1>9, <1>13
<1>15. PaidBy(b, o, order, order', wallet, v)
  <2>1. v[Seller] = w[Seller] /\ \A a \in Actors \ {b, Seller} : v[a] = w[a]
    BY <1>5, <1>9
  <2>2. v[b].held = w[b].held + (order'[o].held - order[o].held)
    BY <1>3, <1>8, <1>9, <1>12
  <2>3. v[b].points = w[b].points - (Captured(order'[o]) - Captured(order[o]))
    BY <1>3, <1>8, <1>9, <1>11
  <2>4. (v[b].available - w[b].available) + (order'[o].held - order[o].held)
          + (v[Seller].available - w[Seller].available)
          + (PlatformShare(order'[o]) - PlatformShare(order[o])) = 0
    BY <1>3, <1>8, <1>9, <1>10, <1>12, <2>1
  <2> QED BY <1>12, <2>1, <2>2, <2>3, <2>4 DEF PaidBy, OthersStay, w
<1>16. BooksMatch(order', v) /\ MoneyIn(order', v) = MoneyIn(order, wallet)
  BY <1>1, <1>3, <1>14, <1>15, OneOrderPaid
<1> QED BY <1>16 DEF MoneyStays, v

\* The three commands that refund an order that is not settled.
LEMMA RefundPaid ==
  ASSUME TradeTypeOK, OrdersConsistent, OrdersTypeOK', BooksMatch(order, wallet),
         NEW o \in Orders, CancelCaptured(o) \/ ApproveRefund(o) \/ ReceiveHeldReturn(o)
  PROVE  MoneyStays
<1> DEFINE rec == order[o]
           ref == RefundedOrder(rec)
<1>1. order \in [Orders -> OrderRecord] /\ rec \in OrderRecord
  BY DEF TradeTypeOK, OrdersTypeOK
<1>2. /\ ref.buyer = rec.buyer /\ ref.payment = "REFUNDED" /\ ref.txn = "REFUNDED"
      /\ ref.held = rec.held - Releasable(rec)
  BY <1>1 DEF RefundedOrder, OrderRecord
<1>3. wallet' = RefundedWallet(rec)
  BY DEF CancelCaptured, ApproveRefund, ReceiveHeldReturn
<1>4. /\ OthersStay(o, order, order')
      /\ order'[o].buyer = rec.buyer /\ order'[o].payment = "REFUNDED"
      /\ order'[o].txn = "REFUNDED" /\ order'[o].held = rec.held - Releasable(rec)
  <2>1. CASE CancelCaptured(o)
    <3>1. order' = [order EXCEPT ![o] = ref]
      BY <2>1 DEF CancelCaptured
    <3> HIDE DEF ref
    <3> QED BY <1>1, <1>2, <3>1 DEF OthersStay
  <2>2. CASE ApproveRefund(o)
    <3> DEFINE new == [ref EXCEPT !.shipment = "RETURNED", !.overruled = Overrules(rec)]
    <3>1. order' = [order EXCEPT ![o] = new]
      BY <2>2 DEF ApproveRefund
    <3>2. new.held = ref.held /\ new.buyer = ref.buyer /\ new.payment = ref.payment
          /\ new.txn = ref.txn
      BY <1>1 DEF RefundedOrder, OrderRecord
    <3> HIDE DEF new, ref
    <3>3. order'[o] = new /\ OthersStay(o, order, order')
      BY <1>1, <3>1 DEF OthersStay
    <3> QED BY <1>2, <3>2, <3>3
  <2>3. CASE ReceiveHeldReturn(o)
    <3> DEFINE new == [ref EXCEPT !.returnCase = "REFUND_COMPLETED", !.shipment = "RETURNED"]
    <3>1. order' = [order EXCEPT ![o] = new]
      BY <2>3 DEF ReceiveHeldReturn
    <3>2. new.held = ref.held /\ new.buyer = ref.buyer /\ new.payment = ref.payment
          /\ new.txn = ref.txn
      BY <1>1 DEF RefundedOrder, OrderRecord
    <3> HIDE DEF new, ref
    <3>3. order'[o] = new /\ OthersStay(o, order, order')
      BY <1>1, <3>1 DEF OthersStay
    <3> QED BY <1>2, <3>2, <3>3
  <2> QED BY <2>1, <2>2, <2>3
<1>5. OrderConsistent(rec)
  BY AllocatedConsistent DEF TradeTypeOK, CancelCaptured, ApproveRefund, ReceiveHeldReturn,
     OrdersConsistent, Unallocated
<1>6. rec.payment = "CAPTURED" /\ rec.held > 0
  <2>1. rec.held \in Nat /\ rec.total \in Nat /\ (rec.held = rec.total \/ rec.held = 0)
        /\ rec.total > 0
    BY <1>1, <1>5 DEF OrderRecord, OrderConsistent, StatusesAgree
  <2>2. CASE CancelCaptured(o)
    BY <2>1, <2>2 DEF CancelCaptured
  <2>3. CASE ApproveRefund(o)
    <3>1. rec.txn = "CANCEL_REQUESTED" /\ Releasable(rec) > 0
      BY <2>3 DEF ApproveRefund
    <3> QED BY <1>5, <2>1, <3>1 DEF OrderConsistent, StatusesAgree, CapturedStatus, Releasable
  <2>4. CASE ReceiveHeldReturn(o)
    <3>1. rec.returnCase = "IN_TRANSIT" /\ ~rec.settled /\ Releasable(rec) > 0
      BY <2>4 DEF ReceiveHeldReturn
    <3>2. rec.held > 0
      BY <2>1, <3>1 DEF Releasable
    <3>3. rec.intent = "COMMITTED" /\ InEscrow(rec)
      BY <1>5, <3>1, <3>2 DEF OrderConsistent, StatusesAgree
    <3>4. rec.txn # "REFUNDED" /\ rec.payment \in {"CAPTURED", "REFUNDED"}
      BY <1>5, <3>3 DEF OrderConsistent, StatusesAgree, InEscrow
    <3> QED BY <1>5, <3>2, <3>4 DEF OrderConsistent, StatusesAgree
  <2> QED BY <2>2, <2>3, <2>4
<1> HIDE DEF ref
<1> QED BY <1>3, <1>4, <1>6, HoldReturned

\* A return after settlement: the seller and the platform give the money back.
LEMMA SettledReturnPaid ==
  ASSUME TradeTypeOK, OrdersConsistent, OrdersTypeOK', BooksMatch(order, wallet),
         NEW o \in Orders, ReceiveSettledReturn(o)
  PROVE  MoneyStays
<1> DEFINE rec == order[o]
           b == rec.buyer
           w == wallet
           v == wallet'
           net == rec.price - Fee(rec.price)
<1>1. /\ order \in [Orders -> OrderRecord] /\ rec \in OrderRecord
      /\ order' \in [Orders -> OrderRecord]
      /\ w \in [Actors -> WalletRecord]
  BY DEF TradeTypeOK, OrdersTypeOK, BooksMatch
<1>2. /\ rec.returnCase = "IN_TRANSIT" /\ rec.settled /\ w[Seller].available >= net
      /\ order' = [order EXCEPT ![o].payment = "REFUNDED", ![o].txn = "REFUNDED",
                     ![o].returnCase = "REFUND_COMPLETED", ![o].shipment = "RETURNED"]
      /\ v = [w EXCEPT ![Seller].available = @ - net,
                       ![b].available = @ + rec.total, ![b].points = @ + rec.points]
  BY DEF ReceiveSettledReturn
<1>3. OrderConsistent(rec)
  BY <1>2 DEF OrdersConsistent, Unallocated
<1>4. /\ b \in Buyers /\ rec.total \in Nat /\ rec.points \in Nat /\ rec.price \in Nat
      /\ rec.held \in Nat /\ rec.txn \in {"COMPLETED", "CANCEL_REQUESTED"}
      /\ rec.payment = "CAPTURED"
  BY <1>1, <1>2, <1>3 DEF OrderConsistent, OrderRecord, CapturedStatus
<1>5. b \in Actors /\ Seller \in Actors /\ b # Seller
  BY <1>4, ConstantsAssumption DEF Actors
<1>6. net \in Nat
  <2>1. \A n \in Nat : n - (n \div 10) \in Nat
    OBVIOUS
  <2> QED BY <1>4, <2>1 DEF Fee
<1>7. /\ w[b] \in WalletRecord /\ w[Seller] \in WalletRecord
      /\ w[b].held \in Nat /\ w[b].available \in Nat /\ w[b].points \in Nat
      /\ w[Seller].held \in Nat /\ w[Seller].available \in Nat /\ w[Seller].points \in Nat
  BY <1>1, <1>5 DEF WalletRecord
<1>8. /\ v[b] = [available |-> w[b].available + rec.total, held |-> w[b].held,
                 points |-> w[b].points + rec.points]
      /\ v[Seller] = [available |-> w[Seller].available - net, held |-> w[Seller].held,
                      points |-> w[Seller].points]
      /\ \A a \in Actors \ {b, Seller} : v[a] = w[a]
      /\ v = [a \in Actors |-> v[a]]
  BY <1>1, <1>2, <1>5, <1>7 DEF WalletRecord
<1>9. /\ order'[o].buyer = b /\ order'[o].held = rec.held /\ order'[o].payment = "REFUNDED"
      /\ order'[o].txn = "REFUNDED"
      /\ \A x \in Orders \ {o} : order'[x] = order[x]
  BY <1>1, <1>2 DEF OrderRecord
<1>10. PlatformShare(order[o]) = rec.total - net /\ PlatformShare(order'[o]) = 0
  BY <1>2, <1>4, <1>9 DEF PlatformShare
<1>11. Captured(order[o]) = rec.points /\ Captured(order'[o]) = 0
  BY <1>4, <1>9 DEF Captured
<1> HIDE DEF b, w, v, net
<1>12. v[b] \in WalletRecord /\ v[Seller] \in WalletRecord
  <2>1. /\ w[b].available + rec.total \in Nat /\ w[b].points + rec.points \in Nat
        /\ w[Seller].available - net \in Nat
    BY <1>2, <1>4, <1>6, <1>7
  <2> QED BY <1>7, <1>8, <2>1 DEF WalletRecord
<1>13. v \in [Actors -> WalletRecord]
  BY <1>1, <1>8, <1>12
<1>14. PaidBy(b, o, order, order', wallet, v)
  <2>1. v[b].held = w[b].held + (order'[o].held - order[o].held)
    BY <1>4, <1>7, <1>8, <1>9
  <2>2. v[b].points = w[b].points - (Captured(order'[o]) - Captured(order[o]))
    BY <1>4, <1>7, <1>8, <1>11
  <2>3. (v[b].available - w[b].available) + (order'[o].held - order[o].held)
          + (v[Seller].available - w[Seller].available)
          + (PlatformShare(order'[o]) - PlatformShare(order[o])) = 0
    BY <1>4, <1>6, <1>7, <1>8, <1>9, <1>10
  <2>4. v[Seller].held = w[Seller].held /\ order[o].buyer = b
    BY <1>8 DEF b
  <2> QED BY <1>8, <1>9, <2>1, <2>2, <2>3, <2>4 DEF PaidBy, w
<1>15. BooksMatch(order', v) /\ MoneyIn(order', v) = MoneyIn(order, wallet)
  BY <1>1, <1>4, <1>13, <1>14, OneOrderPaid
<1> QED BY <1>15 DEF MoneyStays, v

\* What startPurchase counts on, the hold of the buyer's own overdue reservation, is
\* part of what the release of all overdue reservations gives back to the buyer.
LEMMA OverdueHoldReturns ==
  ASSUME TradeTypeOK, OrdersConsistent, NEW b, NEW i
  PROVE  OverdueHold(b, i) \in Int /\ OverdueHold(b, i) <= Refund(order, Overdue(now), b)
<1> DEFINE held == [o \in Orders |-> order[o].held]
           T == {o \in Overdue(now) : order[o].buyer = b /\ order[o].item = i}
           own == [o \in Orders |-> IF o \in T THEN held[o] ELSE 0]
           all == Freeds(order, Overdue(now), b)
           rest == [o \in Orders |-> all[o] - own[o]]
<1>1. IsFiniteSet(Orders) /\ Overdue(now) \subseteq Orders /\ T \in SUBSET Orders
  BY ConstantsAssumption DEF Overdue
<1>2. OverdueHold(b, i) = SumFunctionOnSet(held, T)
  <2>1. OverdueHold(b, i) = MapThenSumSet(LAMBDA o : order[o].held, T)
    BY DEF OverdueHold
  <2>2. MapThenSumSet(LAMBDA o : order[o].held, T) = SumFunctionOnSet(held, T)
    BY <1>1 DEF MapThenSumSet, SumFunctionOnSet, FoldFunctionOnSet, MapThenFoldSet
  <2> HIDE DEF held, T
  <2> QED BY <2>1, <2>2
<1>3. ASSUME NEW o \in Orders
      PROVE  /\ held[o] \in Nat
             /\ all[o] \in Nat
             /\ o \in T => all[o] = held[o]
  <2>1. order[o] \in OrderRecord /\ order[o].held \in Nat /\ order[o].total \in Nat
    BY DEF TradeTypeOK, OrdersTypeOK, OrderRecord
  <2>2. CASE o \in Overdue(now)
    <3>1. order[o].intent = "ACTIVE"
      BY <2>2 DEF Overdue
    <3>2. OrderConsistent(order[o])
      BY <3>1 DEF OrdersConsistent, Unallocated
    <3>3. order[o].txn = "PAYMENT_PENDING" /\ order[o].held = order[o].total
      BY <2>1, <3>1, <3>2 DEF OrderConsistent, StatusesAgree, InEscrow
    <3>4. Freed(order[o]) = order[o].held
      BY <3>3 DEF Freed, Releasable
    <3> QED BY <2>1, <3>4 DEF Freeds
  <2>3. CASE o \notin Overdue(now)
    BY <2>1, <2>3 DEF Freeds
  <2> QED BY <2>2, <2>3
<1>4. \A o \in Orders : own[o] = IF o \in T THEN held[o] ELSE 0
  OBVIOUS
<1>5. \A o \in Orders : rest[o] = all[o] - own[o]
  OBVIOUS
<1> HIDE DEF held, T, own, all, rest
<1>6. \A o \in Orders : /\ held[o] \in Int /\ own[o] \in Int
                        /\ rest[o] \in Int /\ rest[o] >= 0
                        /\ all[o] = own[o] + rest[o]
  BY <1>3, <1>4, <1>5
<1>7. SumFunctionOnSet(held, T) = SumFunctionOnSet(own, Orders)
  BY <1>1, <1>4, <1>6, SumWhere
<1>8. SumFunctionOnSet(all, Orders) = SumFunctionOnSet(own, Orders) + SumFunctionOnSet(rest, Orders)
  BY <1>1, <1>6, SumPlus
<1>9. /\ SumFunctionOnSet(own, Orders) \in Int
      /\ SumFunctionOnSet(rest, Orders) \in Int /\ SumFunctionOnSet(rest, Orders) >= 0
  BY <1>1, <1>6, SumType
<1>10. Refund(order, Overdue(now), b) = SumFunctionOnSet(all, Orders)
  BY DEF Refund, all
<1> QED BY <1>2, <1>7, <1>8, <1>9, <1>10

\* A purchase starts: overdue reservations give their holds back, then the total of
\* the new order is held.
LEMMA PurchasePaid ==
  ASSUME TradeTypeOK, OrdersConsistent, OrdersTypeOK', BooksMatch(order, wallet),
         NEW b \in Buyers, NEW i \in Items, NEW o \in Orders, StartPurchase(b, i, o)
  PROVE  MoneyStays
<1> DEFINE S == Overdue(now)
           or == OrdersReleased(order, S, "EXPIRED")
           w == WalletsReleased(wallet, order, S)
           total == item[i].price + item[i].shipping
           new == NewOrder(b, i, total)
           v == Hold(w, b, total)
<1>1. /\ order \in [Orders -> OrderRecord] /\ order' \in [Orders -> OrderRecord]
      /\ wallet \in [Actors -> WalletRecord]
  BY DEF TradeTypeOK, OrdersTypeOK, BooksMatch
<1>2. /\ order[o] = Unallocated /\ wallet[b].available + OverdueHold(b, i) >= total
      /\ order' = [or EXCEPT ![o] = new] /\ wallet' = v
  BY DEF StartPurchase
<1>3. /\ S \in SUBSET Orders /\ \A x \in S : order[x].intent = "ACTIVE"
      /\ \A x \in Orders : order[x] = Unallocated \/ OrderConsistent(order[x])
  BY DEF Overdue, OrdersConsistent
<1>4. total \in Nat
  <2>1. item[i].price \in Nat /\ item[i].shipping \in Nat
    BY DEF TradeTypeOK, ItemsTypeOK, ItemRecord
  <2> QED BY <2>1
<1>5. /\ new.buyer = b /\ new.held = total /\ new.payment = "INITIATED" /\ ~new.settled
  BY DEF NewOrder, Unallocated
<1>6. or = [x \in Orders |-> or[x]] /\ (o \notin S => or[o] = order[o])
  BY DEF OrdersReleased
<1> HIDE DEF S, or, w, total, new
<1>7. or \in [Orders -> OrderRecord]
  BY <1>1, <1>3, ReleaseConsistent DEF or
<1>8. /\ BooksMatch(or, w) /\ MoneyIn(or, w) = MoneyIn(order, wallet)
      /\ \A a \in Actors : w[a].available = wallet[a].available + Refund(order, S, a)
  BY <1>1, <1>3, ReleaseBooked DEF or, w
<1>9. or[o] = Unallocated
  <2>1. o \notin S
    BY <1>2, <1>3 DEF Unallocated
  <2> QED BY <1>2, <1>6, <2>1
<1>10. b \in Actors /\ Seller \in Actors /\ b # Seller
  BY ConstantsAssumption DEF Actors
<1>11. w \in [Actors -> WalletRecord]
  BY <1>8 DEF BooksMatch
<1>12. /\ w[b].available \in Nat /\ w[b].held \in Nat /\ w[b].points \in Nat
       /\ w[Seller].available \in Nat
  BY <1>10, <1>11 DEF WalletRecord
<1>13. total <= w[b].available
  <2>1. OverdueHold(b, i) \in Int /\ OverdueHold(b, i) <= Refund(order, S, b)
    BY OverdueHoldReturns DEF S
  <2>2. w[b].available = wallet[b].available + Refund(order, S, b)
    BY <1>8, <1>10
  <2>3. Refund(order, S, b) \in Nat
    BY <1>1, <1>3, RefundOf
  <2>4. wallet[b].available \in Nat
    BY <1>1, <1>10 DEF WalletRecord
  <2> QED BY <1>2, <1>4, <2>1, <2>2, <2>3, <2>4
<1>14. total \in Int /\ w[b].held + total >= 0
  BY <1>4, <1>12
<1>15. /\ v \in [Actors -> WalletRecord]
       /\ v[b] = [available |-> w[b].available - total, held |-> w[b].held + total,
                  points |-> w[b].points]
       /\ \A a \in Actors \ {b} : v[a] = w[a]
  BY <1>11, <1>13, <1>14, HoldMoved
<1>16. order'[o] = new /\ \A x \in Orders \ {o} : order'[x] = or[x]
  BY <1>2, <1>6
<1> HIDE DEF v
<1>17. PaidBy(b, o, or, order', w, v)
  <2>1. or[o].held = 0 /\ Captured(or[o]) = 0 /\ PlatformShare(or[o]) = 0
    BY <1>9 DEF Unallocated, Captured, PlatformShare
  <2>2. Captured(order'[o]) = 0 /\ PlatformShare(order'[o]) = 0 /\ order'[o].held = total
    BY <1>5, <1>16 DEF Captured, PlatformShare
  <2>3. v[Seller] = w[Seller] /\ \A a \in Actors \ {b, Seller} : v[a] = w[a]
    BY <1>10, <1>15
  <2>4. v[b].held = w[b].held + (order'[o].held - or[o].held)
    BY <1>4, <1>12, <1>15, <2>1, <2>2
  <2>5. v[b].points = w[b].points - (Captured(order'[o]) - Captured(or[o]))
    BY <1>12, <1>15, <2>1, <2>2
  <2>6. (v[b].available - w[b].available) + (order'[o].held - or[o].held)
          + (v[Seller].available - w[Seller].available)
          + (PlatformShare(order'[o]) - PlatformShare(or[o])) = 0
    BY <1>4, <1>12, <1>15, <2>1, <2>2, <2>3
  <2> QED BY <1>5, <1>9, <1>16, <2>3, <2>4, <2>5, <2>6 DEF PaidBy
<1>18. BooksMatch(order', v) /\ MoneyIn(order', v) = MoneyIn(or, w)
  BY <1>1, <1>7, <1>8, <1>15, <1>17, OneOrderPaid
<1> QED BY <1>2, <1>8, <1>18 DEF MoneyStays

\* Reservations that end without a checkout: canceled, or overdue.
LEMMA ReleasePaid ==
  ASSUME TradeTypeOK, OrdersConsistent, BooksMatch(order, wallet)
  PROVE  /\ \A o \in Orders : CancelReservation(o) => MoneyStays
         /\ AdvanceClock => MoneyStays
<1>1. /\ order \in [Orders -> OrderRecord]
      /\ \A x \in Orders : order[x] = Unallocated \/ OrderConsistent(order[x])
  BY DEF TradeTypeOK, OrdersTypeOK, OrdersConsistent
<1>2. ASSUME NEW S \in SUBSET Orders, \A x \in S : order[x].intent = "ACTIVE",
             NEW status \in {"RELEASED", "EXPIRED"}, Release(order, wallet, S, status)
      PROVE  MoneyStays
  <2>1. order' = OrdersReleased(order, S, status) /\ wallet' = WalletsReleased(wallet, order, S)
    BY <1>2 DEF Release
  <2> QED BY <1>1, <1>2, <2>1, ReleaseBooked DEF MoneyStays
<1>3. ASSUME NEW o \in Orders, CancelReservation(o) PROVE MoneyStays
  <2>1. order[o].intent = "ACTIVE" /\ Release(order, wallet, {o}, "RELEASED")
    BY <1>3 DEF CancelReservation
  <2>2. {o} \in SUBSET Orders /\ \A x \in {o} : order[x].intent = "ACTIVE"
    BY <2>1
  <2> QED BY <1>2, <2>1, <2>2
<1>4. ASSUME AdvanceClock PROVE MoneyStays
  <2>1. Release(order, wallet, Overdue(now + 1), "EXPIRED")
    BY <1>4 DEF AdvanceClock
  <2>2. /\ Overdue(now + 1) \in SUBSET Orders
        /\ \A x \in Overdue(now + 1) : order[x].intent = "ACTIVE"
    BY DEF Overdue
  <2> QED BY <1>2, <2>1, <2>2
<1> QED BY <1>3, <1>4

\* Money that enters or leaves the sandbox passes no order.
LEMMA MoneyFromOutside ==
  ASSUME BooksMatch(order, wallet), NEW a \in Actors, NEW n \in Amounts,
         Deposit(a, n) \/ Withdraw(a, n)
  PROVE  BooksMatch(order', wallet')
<1>1. wallet \in [Actors -> WalletRecord] /\ order' = order /\ n \in Nat
  BY ConstantsAssumption DEF BooksMatch, Deposit, Withdraw
<1>2. wallet[a] \in WalletRecord /\ wallet[a].available \in Nat
  BY <1>1 DEF WalletRecord
<1>3. \E m \in Nat : wallet' = [wallet EXCEPT ![a].available = m]
  <2>1. CASE Deposit(a, n)
    <3>1. wallet[a].available + n \in Nat
      BY <1>1, <1>2
    <3> QED BY <2>1, <3>1 DEF Deposit
  <2>2. CASE Withdraw(a, n)
    <3>1. wallet[a].available - n \in Nat
      BY <1>1, <1>2, <2>2 DEF Withdraw
    <3> QED BY <2>2, <3>1 DEF Withdraw
  <2> QED BY <2>1, <2>2
<1>4. PICK m \in Nat : wallet' = [wallet EXCEPT ![a].available = m]
  BY <1>3
<1>5. /\ wallet' \in [Actors -> WalletRecord]
      /\ \A x \in Actors : wallet'[x].held = wallet[x].held
                           /\ wallet'[x].points = wallet[x].points
  BY <1>1, <1>4 DEF WalletRecord
<1>6. Buyers \subseteq Actors
  BY DEF Actors
<1> QED BY <1>1, <1>5, <1>6 DEF BooksMatch

\* Every step keeps the books right, and keeps the money together unless it is a
\* deposit or a withdrawal.
LEMMA MoneyStep ==
  ASSUME TradeInv, OrdersTypeOK', BooksMatch(order, wallet), [Next]_vars
  PROVE  /\ BooksMatch(order', wallet')
         /\ \/ \E a \in Actors, n \in Amounts : Deposit(a, n) \/ Withdraw(a, n)
            \/ MoneyIn(order', wallet') = MoneyIn(order, wallet)
<1> DEFINE Outside == \E a \in Actors, n \in Amounts : Deposit(a, n) \/ Withdraw(a, n)
<1>1. TradeTypeOK /\ OrdersConsistent
  BY DEF TradeInv
<1>2. ASSUME order' = order, wallet' = wallet PROVE MoneyStays
  BY <1>2 DEF MoneyStays
<1>3. CASE UNCHANGED vars
  BY <1>2, <1>3 DEF vars, MoneyStays
<1>4. CASE Purchase
  <2>1. ASSUME NEW b \in Buyers, NEW i \in Items, NEW o \in Orders, StartPurchase(b, i, o)
        PROVE  MoneyStays
    BY <1>1, <2>1, PurchasePaid
  <2>2. ASSUME NEW o \in Orders, NEW c \in Coupons, NEW p \in PointUses,
               ConfirmTooLate(o, c, p) \/ ConfirmDeclined(o, c, p) \/ ConfirmCaptured(o, c, p)
        PROVE  MoneyStays
    BY <1>1, <2>2, CheckoutPaid
  <2> QED BY <1>4, <2>1, <2>2 DEF Purchase, MoneyStays
<1>5. ASSUME NEW o \in Orders, Fulfil(o) PROVE MoneyStays
  BY <1>1, <1>5, GoodsMove, SettlementPaid DEF Fulfil
<1>6. ASSUME NEW o \in Orders, Undo(o) PROVE MoneyStays
  BY <1>1, <1>6, GoodsMove, RefundPaid, SettledReturnPaid, ReleasePaid DEF Undo
<1>7. ASSUME NEW i \in Items, Listing(i) PROVE MoneyStays
  <2>1. order' = order /\ wallet' = wallet
    BY <1>7 DEF Listing, ReviewListing, PauseListing, ResumeListing, UpdateListing
  <2> QED BY <1>2, <2>1
<1>8. CASE Environment
  <2>1. ASSUME Outside PROVE BooksMatch(order', wallet')
    BY <2>1, MoneyFromOutside
  <2>2. ASSUME AdvanceClock PROVE MoneyStays
    BY <1>1, <2>2, ReleasePaid
  <2>3. ASSUME RestoreLaterClock \/ \E f \in Faults : InjectFailure(f) PROVE MoneyStays
    BY <1>2, <2>3 DEF RestoreLaterClock, InjectFailure
  <2> QED BY <1>8, <2>1, <2>2, <2>3 DEF Environment, MoneyStays
<1> QED BY <1>3, <1>4, <1>5, <1>6, <1>7, <1>8 DEF Next, MoneyStays

\* Nothing is held and no points are spent before the first purchase.
LEMMA BooksStart == Init => BooksMatch(order, wallet)
<1> SUFFICES ASSUME Init PROVE BooksMatch(order, wallet)
  OBVIOUS
<1>1. IsFiniteSet(Orders) /\ Seller \notin Buyers
  BY ConstantsAssumption
<1>2. wallet \in [Actors -> WalletRecord]
  <2>1. ASSUME NEW a \in Actors PROVE wallet[a] \in WalletRecord
    BY ConstantsAssumption DEF Init, WalletRecord
  <2> QED BY <2>1 DEF Init
<1>3. ASSUME NEW f, \A o \in Orders : f[o] = 0 PROVE SumFunctionOnSet(f, Orders) = 0
  <2> DEFINE none == [x \in {} |-> 0]
  <2>1. \A o \in Orders : f[o] \in Int /\ f[o] = IF o \in {} THEN none[o] ELSE 0
    BY <1>3
  <2>2. SumFunctionOnSet(f, Orders) = SumFunctionOnSet(f, {})
    <3>1. \A o \in Orders : f[o] \in Int /\ f[o] = IF o \in {} THEN f[o] ELSE 0
      BY <1>3
    <3> QED BY <1>1, <3>1, SumWhere
  <2> QED BY <2>2, SumOverNothing
<1>4. \A o \in Orders : order[o].held = 0 /\ order[o].payment # "CAPTURED"
  BY DEF Init, Unallocated
<1>5. \A a \in Actors : wallet[a].held = SumFunctionOnSet(Holds(order, a), Orders)
  <2>1. ASSUME NEW a \in Actors PROVE \A o \in Orders : Holds(order, a)[o] = 0
    BY <1>4 DEF Holds
  <2> QED BY <1>3, <2>1 DEF Init
<1>6. \A b \in Buyers : wallet[b].points + SumFunctionOnSet(Spent(order, b), Orders) = OpeningPoints
  <2>1. ASSUME NEW b \in Buyers
        PROVE  wallet[b].points + SumFunctionOnSet(Spent(order, b), Orders) = OpeningPoints
    <3>1. \A o \in Orders : Spent(order, b)[o] = 0
      BY <1>4 DEF Spent
    <3>2. SumFunctionOnSet(Spent(order, b), Orders) = 0
      BY <1>3, <3>1
    <3>3. wallet[b].points = OpeningPoints /\ OpeningPoints \in Nat
      BY <1>1, ConstantsAssumption DEF Init, Actors
    <3> QED BY <3>2, <3>3
  <2> QED BY <2>1
<1> QED BY <1>2, <1>5, <1>6 DEF BooksMatch

MoneyInv == TradeInv /\ BooksMatch(order, wallet)

LEMMA MoneyInvStep == MoneyInv /\ [Next]_vars => MoneyInv'
<1> SUFFICES ASSUME MoneyInv, [Next]_vars PROVE MoneyInv'
  OBVIOUS
<1>1. TradeInv /\ BooksMatch(order, wallet)
  BY DEF MoneyInv
<1>2. TradeInv' /\ OrdersTypeOK'
  BY <1>1, TradeStep DEF TradeInv, TradeTypeOK
<1>3. BooksMatch(order', wallet')
  BY <1>1, <1>2, MoneyStep
<1>4. BooksMatch(order, wallet)'
  BY <1>3 DEF BooksMatch, Holds, Spent
<1> QED BY <1>2, <1>4 DEF MoneyInv

\* The wallets and the orders always tell the same story, whatever is quoted,
\* captured, released or refunded, for every number of buyers and orders and
\* every amount: releaseWalletHold never finds less than it gives back, and no
\* wallet is ever overdrawn.
THEOREM WalletsAlwaysMatch == Spec => []WalletsMatchOrders
<1>1. Init => MoneyInv
  BY TradeInit, BooksStart DEF MoneyInv
<1>2. MoneyInv => WalletsMatchOrders
  <2> SUFFICES ASSUME MoneyInv PROVE WalletsMatchOrders
    OBVIOUS
  <2>1. BooksMatch(order, wallet) /\ order \in [Orders -> OrderRecord]
    BY DEF MoneyInv, TradeInv, TradeTypeOK, OrdersTypeOK
  <2>2. HeldBalanceIsSumOfHolds
    BY <2>1, SumsOfOrders DEF HeldBalanceIsSumOfHolds, BooksMatch
  <2>3. PointsConserved
    BY <2>1, SumsOfOrders DEF PointsConserved, BooksMatch
  <2>4. NoneOverdrawn
    BY <2>1 DEF NoneOverdrawn, BooksMatch, WalletRecord
  <2> QED BY <2>2, <2>3, <2>4 DEF WalletsMatchOrders
<1> QED BY <1>1, <1>2, MoneyInvStep, PTL DEF Spec

\* Money enters and leaves the sandbox only by deposits and withdrawals: every other
\* command moves it between wallets, holds and the platform.
THEOREM MoneyAlwaysConserved == Spec => MoneyConserved
<1> DEFINE Counted == Money = MoneyIn(order, wallet)
           Moved == \/ \E a \in Actors, n \in Amounts : Deposit(a, n) \/ Withdraw(a, n)
                    \/ Money' = Money
<1>1. Init => MoneyInv
  BY TradeInit, BooksStart DEF MoneyInv
<1>2. Counted
  BY MoneySums DEF Money
<1>3. MoneyInv /\ MoneyInv' /\ Counted /\ Counted' /\ [Next]_vars => [Moved]_vars
  <2> SUFFICES ASSUME MoneyInv, MoneyInv', Counted, Counted', [Next]_vars PROVE Moved
    OBVIOUS
  <2> HIDE DEF Money
  <2>1. TradeInv /\ BooksMatch(order, wallet) /\ OrdersTypeOK'
    BY DEF MoneyInv, TradeInv, TradeTypeOK
  <2>2. Money' = MoneyIn(order', wallet')
    BY DEF MoneyIn, Purses, Shares, PlatformShare
  <2> QED BY <2>1, <2>2, MoneyStep
<1> QED BY <1>1, <1>2, <1>3, MoneyInvStep, PTL DEF Spec, MoneyConserved

\* The clock keeps within its bound, only known failures are pending, and every
\* record of listings, orders and wallets has its type: no amount, balance or
\* number of units that the commands compute is ever negative.
THEOREM TypesAlwaysOK == Spec => []TypeOK
<1> DEFINE ClockOK == now \in 0 .. MaxNow /\ failures \subseteq Faults
<1>1. Init => MoneyInv /\ ClockOK
  <2>1. Init => MoneyInv
    BY TradeInit, BooksStart DEF MoneyInv
  <2>2. Init => ClockOK
    BY ConstantsAssumption DEF Init
  <2> QED BY <2>1, <2>2
<1>2. ClockOK /\ [Next]_vars => ClockOK'
  <2> SUFFICES ASSUME ClockOK, [Next]_vars PROVE ClockOK'
    OBVIOUS
  <2>1. MaxNow \in Nat
    BY ConstantsAssumption
  <2>2. ASSUME now' = now, failures' \subseteq failures PROVE ClockOK'
    BY <2>2
  <2>3. CASE UNCHANGED vars
    BY <2>2, <2>3 DEF vars
  <2>4. CASE Purchase
    <3>1. ASSUME NEW b \in Buyers, NEW i \in Items, NEW o \in Orders, StartPurchase(b, i, o)
          PROVE  now' = now /\ failures' = failures
      BY <3>1 DEF StartPurchase
    <3>2. ASSUME NEW o \in Orders, NEW c \in Coupons, NEW p \in PointUses,
                 ConfirmTooLate(o, c, p) \/ ConfirmDeclined(o, c, p)
                 \/ ConfirmCaptured(o, c, p)
          PROVE  now' = now /\ failures' \subseteq failures
      BY <3>2 DEF ConfirmTooLate, ConfirmDeclined, ConfirmCaptured
    <3> QED BY <2>2, <2>4, <3>1, <3>2 DEF Purchase
  <2>5. ASSUME NEW o \in Orders, Fulfil(o) PROVE ClockOK'
    BY <2>2, <2>5 DEF Fulfil, ShipOrder, ShipmentFails, MarkDelivered, BuyerReviews,
                      SellerReviews
  <2>6. ASSUME NEW o \in Orders, Undo(o) PROVE ClockOK'
    BY <2>2, <2>6 DEF Undo, CancelReservation, CancelCaptured, RequestCancellation,
                      RequestReturn, ApproveReturn, ApproveRefund, DeclineRequest,
                      ReceiveHeldReturn, ReceiveSettledReturn
  <2>7. ASSUME NEW i \in Items, Listing(i) PROVE ClockOK'
    BY <2>2, <2>7 DEF Listing, ReviewListing, PauseListing, ResumeListing, UpdateListing
  <2>8. CASE Environment
    <3>1. ASSUME NEW a \in Actors, NEW n \in Amounts, Deposit(a, n) \/ Withdraw(a, n)
          PROVE  ClockOK'
      BY <2>2, <3>1 DEF Deposit, Withdraw
    <3>2. ASSUME NEW f \in Faults, InjectFailure(f) PROVE ClockOK'
      BY <3>2 DEF InjectFailure
    <3>3. ASSUME AdvanceClock \/ RestoreLaterClock PROVE ClockOK'
      BY <2>1, <3>3 DEF AdvanceClock, RestoreLaterClock
    <3> QED BY <2>8, <3>1, <3>2, <3>3 DEF Environment
  <2> QED BY <2>3, <2>4, <2>5, <2>6, <2>7, <2>8 DEF Next
<1>3. MoneyInv /\ ClockOK => TypeOK
  BY DEF MoneyInv, TradeInv, TradeTypeOK, BooksMatch, TypeOK
<1> QED BY <1>1, <1>2, <1>3, MoneyInvStep, PTL DEF Spec
=============================================================================
