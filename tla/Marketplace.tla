---------------------------- MODULE Marketplace ----------------------------
(***************************************************************************)
(* The fixed-price trade of the sandbox engine                             *)
(* (src/app/domain/sandboxEngine.ts): reservation, payment, shipment,      *)
(* review, cancellation and return of one unit of stock, the wallets that  *)
(* pay for it and the listing it is bought from.                           *)
(*                                                                         *)
(* The engine is synchronous: a command runs to its end before the next    *)
(* one starts, so each command is one action.  A command that the code     *)
(* refuses changes nothing and is not an action; its early returns are the *)
(* guards.  startPurchase creates a purchase intent, a transaction, a      *)
(* payment and a shipment together and links them one to one, so a single  *)
(* order identifier stands for the four records.                           *)
(***************************************************************************)
EXTENDS Integers, FiniteSets, FiniteSetsExt

CONSTANTS
  Buyers,          \* the buyer actors
  Seller,          \* the one seller actor the engine seeds (seller_01)
  Items,           \* fixed-price listings
  Orders,          \* identifiers startPurchase may allocate (bounds the run)
  NoOne,           \* the buyer and the item of an order not yet allocated
  Catalog,         \* Catalog[i] = [price, shipping, stock]: the listing when it is created;
                   \* shipping is shippingCostFor its shippingFee, 0 or 800 in the code
  OpeningBalance,  \* a buyer's openingBalance
  OpeningPoints,   \* a buyer's points
  Coupons,         \* coupon discounts a checkout may ask for, 0 among them
  PointUses,       \* point discounts a checkout may ask for, 0 among them
  Amounts,         \* amounts of a deposit or withdrawal
  MaxBalance,      \* bound: no deposit takes a wallet above it
  Edits,           \* [price, shipping, initial, quantity, warned]: edits a seller may submit
  Faults,          \* the failures injectFailure is asked for
  TTL,             \* life of a reservation (PURCHASE_INTENT_TTL_MS)
  MaxNow           \* bound of the virtual clock

Actors == Buyers \cup {Seller}

Edit == [price : Nat \ {0}, shipping : Nat, initial : Nat, quantity : Nat, warned : BOOLEAN]

ASSUME ConstantsAssumption ==
  /\ Seller \notin Buyers
  /\ NoOne \notin Items /\ NoOne \notin Actors
  /\ IsFiniteSet(Buyers) /\ IsFiniteSet(Orders)
  /\ Catalog \in [Items -> [price : Nat \ {0}, shipping : Nat, stock : Nat]]
  /\ OpeningBalance \in Nat /\ OpeningPoints \in Nat
  /\ Coupons \subseteq Nat /\ PointUses \subseteq Nat
  /\ 0 \in Coupons /\ 0 \in PointUses
  /\ Amounts \subseteq Nat \ {0} /\ MaxBalance \in Nat
  /\ Edits \subseteq Edit
  /\ Faults \subseteq {"payment", "delivery"}
  /\ TTL \in Nat \ {0} /\ MaxNow \in Nat

VARIABLES
  now,       \* state.now
  failures,  \* state.pendingFailures: injected failures not yet consumed
  item,      \* item[i]: the listing and its stock
  order,     \* order[o]: intent, transaction, payment, shipment, return case, hold
  wallet     \* wallet[a]: availableBalance, heldBalance and points

vars == <<now, failures, item, order, wallet>>

-----------------------------------------------------------------------------
(* The shape of the state.                                                 *)

IntentStatus   == {"NONE", "ACTIVE", "COMMITTED", "RELEASED", "EXPIRED"}
TxnStatus      == {"NONE", "PAYMENT_PENDING", "AWAITING_SHIPMENT", "SHIPPED",
                   "DELIVERED", "BUYER_REVIEWED", "COMPLETED",
                   "CANCEL_REQUESTED", "CANCELED", "REFUNDED"}
PaymentStatus  == {"NONE", "INITIATED", "CAPTURED", "FAILED", "REFUNDED"}
ShipmentStatus == {"NONE", "PENDING", "IN_TRANSIT", "DELIVERED", "EXCEPTION",
                   "RETURNING", "RETURNED"}
ReturnStatus   == {"NONE", "REQUESTED", "IN_TRANSIT", "DECLINED", "REFUND_COMPLETED"}
ListingStatus  == {"ACTIVE", "HELD", "RESERVED", "SOLD", "ARCHIVED"}

ItemRecord ==
  [price : Nat \ {0}, shipping : Nat, initial : Nat, quantity : Nat, reserved : Nat,
   sold : BOOLEAN, listing : ListingStatus,
   moderation : {"APPROVED", "HELD", "REJECTED"},
   cut : BOOLEAN] \* auxiliary: the last edit left room for fewer units than there are

OrderRecord ==
  [buyer : Buyers \cup {NoOne}, item : Items \cup {NoOne},
   intent : IntentStatus, expires : Nat,
   txn : TxnStatus, previous : TxnStatus, \* cancelPreviousStatus
   payment : PaymentStatus, shipment : ShipmentStatus, returnCase : ReturnStatus,
   price : Nat,       \* priceSnapshot
   total : Nat, points : Nat,
   reviewed : BOOLEAN, \* buyerReviewedAt is set
   settled : BOOLEAN,  \* completedAt is set: CAPTURE and SALE are in the ledger
   overruled : BOOLEAN, \* auxiliary: decided once more after its return was approved
   held : Nat]         \* heldAmountForReference of the transaction

WalletRecord == [available : Nat, held : Nat, points : Nat]

\* An identifier startPurchase has not allocated yet.
Unallocated ==
  [buyer |-> NoOne, item |-> NoOne, intent |-> "NONE", expires |-> 0,
   txn |-> "NONE", previous |-> "NONE", payment |-> "NONE", shipment |-> "NONE",
   returnCase |-> "NONE", price |-> 0, total |-> 0, points |-> 0,
   reviewed |-> FALSE, settled |-> FALSE, overruled |-> FALSE, held |-> 0]

\* A listing as listItem publishes it; a policy warning holds it for review.
Listed(i, warned) ==
  [price |-> Catalog[i].price, shipping |-> Catalog[i].shipping,
   initial |-> Catalog[i].stock, quantity |-> Catalog[i].stock, reserved |-> 0,
   sold |-> Catalog[i].stock = 0, cut |-> FALSE,
   listing |-> IF Catalog[i].stock = 0 THEN "SOLD"
               ELSE IF warned THEN "HELD" ELSE "ACTIVE",
   moderation |-> IF warned THEN "HELD" ELSE "APPROVED"]

Init ==
  /\ now = 0
  /\ failures = {}
  /\ \E warned \in [Items -> BOOLEAN] : item = [i \in Items |-> Listed(i, warned[i])]
  /\ order = [o \in Orders |-> Unallocated]
  /\ wallet = [a \in Actors |-> [available |-> IF a = Seller THEN 0 ELSE OpeningBalance,
                                 held |-> 0,
                                 points |-> IF a = Seller THEN 0 ELSE OpeningPoints]]

-----------------------------------------------------------------------------
(* Reservations and the wallet hold behind each of them.                   *)

Active(or, i) == {o \in Orders : or[o].item = i /\ or[o].intent = "ACTIVE"}
ReservedCount(or, i) == Cardinality(Active(or, i))

\* Every intent is created with quantity 1, so activeReservationQuantity counts.
Overdue(t) == {o \in Orders : order[o].intent = "ACTIVE" /\ order[o].expires <= t}

\* releaseWalletHold: what is held for the reference, at most the amount asked.
Releasable(rec) == IF rec.total < rec.held THEN rec.total ELSE rec.held

\* The hold an intent gives back when it is released.
Freed(rec) == IF rec.txn = "PAYMENT_PENDING" THEN Releasable(rec) ELSE 0

ReleasedOrder(rec, status) ==
  [rec EXCEPT !.intent = status,
              !.txn = IF rec.txn = "PAYMENT_PENDING" THEN "CANCELED" ELSE rec.txn,
              !.held = rec.held - Freed(rec)]

\* releaseIntent recomputes the listing from the stock that is left.
ReleasedItem(rec, count) ==
  [rec EXCEPT !.reserved = count,
              !.sold = rec.quantity <= 0,
              !.listing = IF rec.quantity <= 0 THEN "SOLD"
                          ELSE IF count > 0 THEN "RESERVED" ELSE "ACTIVE"]

\* releaseIntent for every order of S, from the orders `or`, listings and wallets `w`.
OrdersReleased(or, S, status) ==
  [o \in Orders |-> IF o \in S THEN ReleasedOrder(or[o], status) ELSE or[o]]
ItemsReleased(or, S, status) ==
  [i \in Items |->
     IF \E o \in S : or[o].item = i
     THEN ReleasedItem(item[i], ReservedCount(OrdersReleased(or, S, status), i))
     ELSE item[i]]
WalletsReleased(w, or, S) ==
  [a \in Actors |->
     LET refund == MapThenSumSet(LAMBDA o : Freed(or[o]), {o \in S : or[o].buyer = a})
     IN [w[a] EXCEPT !.available = @ + refund, !.held = @ - refund]]

Release(or, w, S, status) ==
  /\ order' = OrdersReleased(or, S, status)
  /\ item' = ItemsReleased(or, S, status)
  /\ wallet' = WalletsReleased(w, or, S)

Hold(w, b, n) == [w EXCEPT ![b].available = @ - n, ![b].held = @ + n]

-----------------------------------------------------------------------------
(* Purchase.                                                               *)

\* Variant: a reservation is taken for overdue one tick too early.
LiveUntilTheTickBefore(b, i) ==
  \E o \in Orders : /\ order[o].buyer = b /\ order[o].item = i
                    /\ order[o].intent = "ACTIVE" /\ order[o].expires > now + 1

HasLiveReservation(b, i) ==
  \E o \in Orders : /\ order[o].buyer = b /\ order[o].item = i
                    /\ order[o].intent = "ACTIVE" /\ order[o].expires > now

\* The hold of the buyer's own reservation that is overdue but not yet released.
OverdueHold(b, i) ==
  MapThenSumSet(LAMBDA o : order[o].held,
                {o \in Overdue(now) : order[o].buyer = b /\ order[o].item = i})

\* Variant: the last unit may be reserved once more.
HasStockOffByOne(i) ==
  /\ ~item[i].sold
  /\ item[i].quantity >= item[i].reserved - Cardinality(Active(order, i) \cap Overdue(now))

\* A unit is left once the overdue reservations of the listing are discounted.
HasStock(i) ==
  /\ ~item[i].sold
  /\ item[i].quantity > item[i].reserved - Cardinality(Active(order, i) \cap Overdue(now))

NewOrder(b, i, total) ==
  [Unallocated EXCEPT !.buyer = b, !.item = i, !.intent = "ACTIVE",
                      !.expires = now + TTL, !.txn = "PAYMENT_PENDING",
                      !.payment = "INITIATED", !.shipment = "PENDING",
                      !.price = item[i].price, !.total = total, !.held = total]

StartPurchase(b, i, o) ==
  LET total == item[i].price + item[i].shipping
      or == OrdersReleased(order, Overdue(now), "EXPIRED")
      it == ItemsReleased(order, Overdue(now), "EXPIRED")
      reserved == it[i].reserved + 1
  IN /\ order[o] = Unallocated
     /\ item[i].listing \in {"ACTIVE", "RESERVED", "SOLD"}
     /\ ~HasLiveReservation(b, i)
     /\ wallet[b].available + OverdueHold(b, i) >= total
     /\ HasStock(i)
     /\ order' = [or EXCEPT ![o] = NewOrder(b, i, total)]
     /\ item' = [it EXCEPT ![i].reserved = reserved,
                           ![i].listing = IF it[i].quantity - reserved <= 0
                                          THEN "RESERVED" ELSE it[i].listing]
     /\ wallet' = Hold(WalletsReleased(wallet, order, Overdue(now)), b, total)
     /\ UNCHANGED <<now, failures>>

\* updatePurchasePricing: the order after a checkout with coupon c and points p.
\* A coupon is cut down to the price; points are refused unless all can be used.
Coupon(o, c) == LET price == item[order[o].item].price IN IF c < price THEN c ELSE price
NewTotal(o, c, p) ==
  LET listed == item[order[o].item] IN listed.price + listed.shipping - Coupon(o, c) - p
Quoted(o, c, p) ==
  IF c = 0 /\ p = 0 THEN order[o]
  ELSE [order[o] EXCEPT !.total = NewTotal(o, c, p), !.points = p,
                        !.held = IF NewTotal(o, c, p) = order[o].total THEN @
                                 ELSE @ - Releasable(order[o]) + NewTotal(o, c, p)]
QuoteAllowed(o, c, p) ==
  \/ c = 0 /\ p = 0
  \/ /\ p <= wallet[order[o].buyer].points
     /\ p <= item[order[o].item].price - Coupon(o, c)
     /\ \/ NewTotal(o, c, p) = order[o].total
        \/ /\ NewTotal(o, c, p) > 0
           /\ wallet[order[o].buyer].available + order[o].held >= NewTotal(o, c, p)
           /\ Releasable(order[o]) = order[o].total
\* Variant: the wallet is charged the new hold on top of the old one.
QuotedWalletHeldTwice(o, q) ==
  IF q.held = order[o].held THEN wallet ELSE Hold(wallet, order[o].buyer, q.held)

QuotedWallet(o, q) == Hold(wallet, order[o].buyer, q.held - order[o].held)

\* Variant: a reservation that was already released can still be paid.
CheckoutOfLostReservation(o, c, p) ==
  order[o].intent \in {"ACTIVE", "RELEASED", "EXPIRED"} /\ QuoteAllowed(o, c, p)

Checkout(o, c, p) == order[o].intent = "ACTIVE" /\ QuoteAllowed(o, c, p)

\* confirmPurchase, called alone or by purchaseItem after the quote is updated.
ConfirmTooLate(o, c, p) ==
  LET q == Quoted(o, c, p) IN
  /\ Checkout(o, c, p)
  /\ order[o].expires <= now
  /\ Release([order EXCEPT ![o] = q], QuotedWallet(o, q), {o}, "EXPIRED")
  /\ UNCHANGED <<now, failures>>

ConfirmDeclined(o, c, p) ==
  LET q == [Quoted(o, c, p) EXCEPT !.payment = "FAILED"] IN
  /\ Checkout(o, c, p)
  /\ order[o].expires > now
  /\ item[order[o].item].quantity >= item[order[o].item].reserved
  /\ "payment" \in failures
  /\ failures' = failures \ {"payment"}
  /\ Release([order EXCEPT ![o] = q], QuotedWallet(o, q), {o}, "RELEASED")
  /\ UNCHANGED now

\* One unit leaves the stock and its reservation.
UnitSold(rec) ==
  LET left == IF rec.quantity > 0 THEN rec.quantity - 1 ELSE 0 IN
  [rec EXCEPT !.quantity = left,
              !.reserved = IF @ > 0 THEN @ - 1 ELSE 0,
              !.sold = left = 0,
              !.listing = IF left = 0 THEN "SOLD" ELSE "ACTIVE"]

ConfirmCaptured(o, c, p) ==
  LET q == Quoted(o, c, p)
      b == order[o].buyer
      i == order[o].item
  IN /\ Checkout(o, c, p)
     /\ order[o].expires > now
     /\ item[i].quantity >= item[i].reserved
     /\ "payment" \notin failures
     /\ q.points <= wallet[b].points
     /\ order' = [order EXCEPT ![o] = [q EXCEPT !.intent = "COMMITTED",
                                                !.txn = "AWAITING_SHIPMENT",
                                                !.payment = "CAPTURED",
                                                !.shipment = "PENDING"]]
     /\ item' = [item EXCEPT ![i] = UnitSold(item[i])]
     /\ wallet' = [QuotedWallet(o, q) EXCEPT ![b].points = @ - q.points]
     /\ UNCHANGED <<now, failures>>

-----------------------------------------------------------------------------
(* Fulfilment and settlement.                                              *)

ShipOrder(o) ==
  /\ order[o].txn = "AWAITING_SHIPMENT"
  /\ "delivery" \notin failures
  /\ order' = [order EXCEPT ![o].shipment = "IN_TRANSIT", ![o].txn = "SHIPPED"]
  /\ UNCHANGED <<now, failures, item, wallet>>

ShipmentFails(o) ==
  /\ order[o].txn = "AWAITING_SHIPMENT"
  /\ "delivery" \in failures
  /\ failures' = failures \ {"delivery"}
  /\ order' = [order EXCEPT ![o].shipment = "EXCEPTION"]
  /\ UNCHANGED <<now, item, wallet>>

MarkDelivered(o) ==
  /\ order[o].txn = "SHIPPED"
  /\ order' = [order EXCEPT ![o].shipment = "DELIVERED", ![o].txn = "DELIVERED"]
  /\ UNCHANGED <<now, failures, item, wallet>>

BuyerReviews(o) ==
  /\ order[o].txn = "DELIVERED"
  /\ ~order[o].reviewed
  /\ order' = [order EXCEPT ![o].txn = "BUYER_REVIEWED", ![o].reviewed = TRUE]
  /\ UNCHANGED <<now, failures, item, wallet>>

Fee(price) == price \div 10

\* The seller's review completes the trade: CAPTURE, SALE and FEE in one command.
SellerReviews(o) ==
  LET rec == order[o] IN
  /\ rec.txn = "BUYER_REVIEWED"
  /\ rec.held >= rec.total
  /\ wallet[Seller].available + rec.price >= Fee(rec.price)
  /\ order' = [order EXCEPT ![o].txn = "COMPLETED", ![o].settled = TRUE,
                            ![o].held = @ - rec.total]
  /\ wallet' = [wallet EXCEPT ![rec.buyer].held = @ - rec.total,
                              ![Seller].available = @ + rec.price - Fee(rec.price)]
  /\ UNCHANGED <<now, failures, item>>

-----------------------------------------------------------------------------
(* Cancellation and return.                                                *)

CancelReservation(o) ==
  /\ order[o].intent = "ACTIVE"
  /\ Release(order, wallet, {o}, "RELEASED")
  /\ UNCHANGED <<now, failures>>

\* The listing after a unit comes back, with `quantity` units on hand.
Restocked(i, quantity) ==
  LET n == ReservedCount(order, i) IN
  [item[i] EXCEPT !.quantity = quantity, !.reserved = n, !.sold = FALSE,
                  !.listing = IF n > 0 THEN "RESERVED" ELSE "ACTIVE"]

\* Variant: what is restocked is capped at the quantity on hand.
CappedRestockAtOnHand(i) == item[i].quantity

\* Approved returns and cancellations never restock above the initial quantity.
CappedRestock(i) ==
  LET more == item[i].quantity + 1 IN
  IF item[i].initial < more THEN item[i].initial ELSE more

RefundedOrder(rec) ==
  [rec EXCEPT !.payment = "REFUNDED", !.txn = "REFUNDED", !.held = @ - Releasable(rec)]

\* Variant: its price is paid back, not what was held for it.
RefundedListPrice(rec) ==
  [wallet EXCEPT ![rec.buyer].available = @ + rec.price + item[rec.item].shipping,
                 ![rec.buyer].held = @ - Releasable(rec),
                 ![rec.buyer].points = @ + rec.points]

\* The hold and the points of the order go back to its buyer.
RefundedWallet(rec) ==
  [wallet EXCEPT ![rec.buyer].available = @ + Releasable(rec),
                 ![rec.buyer].held = @ - Releasable(rec),
                 ![rec.buyer].points = @ + rec.points]

CancelCaptured(o) ==
  LET rec == order[o] IN
  /\ rec.payment = "CAPTURED"
  /\ rec.txn \notin {"SHIPPED", "DELIVERED", "COMPLETED", "CANCEL_REQUESTED",
                     "CANCELED", "REFUNDED"}
  /\ rec.held >= rec.total
  /\ order' = [order EXCEPT ![o] = RefundedOrder(rec)]
  /\ item' = [item EXCEPT ![rec.item] = Restocked(rec.item, item[rec.item].quantity + 1)]
  /\ wallet' = RefundedWallet(rec)
  /\ UNCHANGED <<now, failures>>

\* Goods on their way: cancelOrder only files a request for an operator.
RequestCancellation(o) ==
  /\ order[o].txn \in {"SHIPPED", "DELIVERED"}
  /\ order' = [order EXCEPT ![o].previous = order[o].txn, ![o].txn = "CANCEL_REQUESTED"]
  /\ UNCHANGED <<now, failures, item, wallet>>

RequestReturn(o) ==
  /\ order[o].txn \in {"DELIVERED", "COMPLETED"}
  /\ order[o].returnCase \in {"NONE", "DECLINED", "REFUND_COMPLETED"}
  /\ order' = [order EXCEPT ![o].returnCase = "REQUESTED",
                            ![o].previous = order[o].txn, ![o].txn = "CANCEL_REQUESTED"]
  /\ UNCHANGED <<now, failures, item, wallet>>

\* resolveCancellation(approve) with a return case that is still REQUESTED.
ApproveReturn(o) ==
  /\ order[o].txn = "CANCEL_REQUESTED"
  /\ order[o].returnCase = "REQUESTED"
  /\ order' = [order EXCEPT ![o].returnCase = "IN_TRANSIT", ![o].shipment = "RETURNING"]
  /\ UNCHANGED <<now, failures, item, wallet>>

\* resolveCancellation looks for a REQUESTED return only, so it also decides on an
\* order whose return was approved before.
Overrules(rec) == rec.overruled \/ rec.returnCase = "IN_TRANSIT"

\* resolveCancellation(approve) when no return case is REQUESTED.
ApproveRefund(o) ==
  LET rec == order[o] IN
  /\ rec.txn = "CANCEL_REQUESTED"
  /\ rec.returnCase # "REQUESTED"
  /\ rec.payment = "CAPTURED" => rec.held >= rec.total
  /\ Releasable(rec) > 0
  /\ order' = [order EXCEPT ![o] = [RefundedOrder(rec) EXCEPT
                 !.shipment = "RETURNED", !.overruled = Overrules(rec)]]
  /\ item' = [item EXCEPT ![rec.item] = Restocked(rec.item, CappedRestock(rec.item))]
  /\ wallet' = RefundedWallet(rec)
  /\ UNCHANGED <<now, failures>>

\* Variant: the order falls back to SHIPPED, whatever it was before the request.
DeclineToShipped(o) ==
  /\ order[o].txn = "CANCEL_REQUESTED"
  /\ order' = [order EXCEPT ![o].txn = "SHIPPED", ![o].shipment = "IN_TRANSIT",
                            ![o].returnCase = IF @ = "REQUESTED" THEN "DECLINED" ELSE @]
  /\ UNCHANGED <<now, failures, item, wallet>>

DeclineRequest(o) ==
  LET rec == order[o] IN
  /\ rec.txn = "CANCEL_REQUESTED"
  /\ order' = [order EXCEPT ![o].txn = rec.previous,
                            ![o].shipment = IF rec.previous = "DELIVERED"
                                            THEN "DELIVERED" ELSE "IN_TRANSIT",
                            ![o].returnCase = IF @ = "REQUESTED" THEN "DECLINED" ELSE @,
                            ![o].overruled = Overrules(rec)]
  /\ UNCHANGED <<now, failures, item, wallet>>

\* Variant: the receipt of a parcel is accepted without a hold to release.
ReceiveReturnWithoutHold(o) ==
  LET rec == order[o] IN
  /\ rec.returnCase = "IN_TRANSIT"
  /\ ~rec.settled
  /\ order' = [order EXCEPT ![o] = [RefundedOrder(rec) EXCEPT
                 !.returnCase = "REFUND_COMPLETED", !.shipment = "RETURNED"]]
  /\ item' = [item EXCEPT ![rec.item] = Restocked(rec.item, CappedRestock(rec.item))]
  /\ wallet' = RefundedWallet(rec)
  /\ UNCHANGED <<now, failures>>

\* confirmReturnReceived of an order whose money is still held.
ReceiveHeldReturn(o) ==
  LET rec == order[o] IN
  /\ rec.returnCase = "IN_TRANSIT"
  /\ ~rec.settled
  /\ Releasable(rec) > 0
  /\ order' = [order EXCEPT ![o] = [RefundedOrder(rec) EXCEPT
                 !.returnCase = "REFUND_COMPLETED", !.shipment = "RETURNED"]]
  /\ item' = [item EXCEPT ![rec.item] = Restocked(rec.item, CappedRestock(rec.item))]
  /\ wallet' = RefundedWallet(rec)
  /\ UNCHANGED <<now, failures>>

\* confirmReturnReceived after settlement: FEE_REVERSAL, SALE_REVERSAL and
\* POST_CAPTURE_REFUND, refused while the seller cannot pay them.
ReceiveSettledReturn(o) ==
  LET rec == order[o]
      net == rec.price - Fee(rec.price)
  IN /\ rec.returnCase = "IN_TRANSIT"
     /\ rec.settled
     /\ wallet[Seller].available >= net
     /\ order' = [order EXCEPT ![o].payment = "REFUNDED", ![o].txn = "REFUNDED",
                    ![o].returnCase = "REFUND_COMPLETED", ![o].shipment = "RETURNED"]
     /\ item' = [item EXCEPT ![rec.item] = Restocked(rec.item, CappedRestock(rec.item))]
     /\ wallet' = [wallet EXCEPT ![Seller].available = @ - net,
                                 ![rec.buyer].available = @ + rec.total,
                                 ![rec.buyer].points = @ + rec.points]
     /\ UNCHANGED <<now, failures>>

-----------------------------------------------------------------------------
(* Listings.                                                               *)

ReviewListing(i, approve) ==
  /\ item[i].listing = "HELD"
  /\ item' = [item EXCEPT ![i].listing = IF approve THEN "ACTIVE" ELSE "ARCHIVED",
                          ![i].moderation = IF approve THEN "APPROVED" ELSE "REJECTED"]
  /\ UNCHANGED <<now, failures, order, wallet>>

PauseListing(i) ==
  /\ item[i].listing \notin {"SOLD", "RESERVED"}
  /\ item' = [item EXCEPT ![i].listing = "ARCHIVED"]
  /\ UNCHANGED <<now, failures, order, wallet>>

ResumeListing(i) ==
  /\ item[i].quantity > item[i].reserved
  /\ item[i].listing # "HELD"
  /\ item' = [item EXCEPT ![i].listing = "ACTIVE", ![i].sold = FALSE]
  /\ UNCHANGED <<now, failures, order, wallet>>

\* assertInvariants, the part over listings, orders and returns.
StockValid(rec) ==
  /\ rec.reserved <= rec.quantity
  /\ rec.quantity <= rec.initial
  /\ rec.sold <=> rec.quantity = 0
ReservedMatchesIntents(it, or) ==
  \A i \in Items : it[i].reserved = ReservedCount(or, i)
PaymentMatchesStatus(rec) ==
  /\ rec.txn \in {"AWAITING_SHIPMENT", "SHIPPED", "DELIVERED", "BUYER_REVIEWED",
                  "COMPLETED", "CANCEL_REQUESTED"} => rec.payment = "CAPTURED"
  /\ rec.txn = "REFUNDED" => rec.payment = "REFUNDED"
ReturnMatchesOrder(rec) ==
  /\ rec.returnCase = "IN_TRANSIT" => /\ rec.txn = "CANCEL_REQUESTED"
                                      /\ rec.payment = "CAPTURED"
                                      /\ rec.shipment = "RETURNING"
  /\ rec.returnCase = "REFUND_COMPLETED" => rec.txn = "REFUNDED"
AssertInvariants(it, or) ==
  /\ \A i \in Items : StockValid(it[i])
  /\ ReservedMatchesIntents(it, or)
  /\ \A o \in Orders : PaymentMatchesStatus(or[o]) /\ ReturnMatchesOrder(or[o])

\* The units of a listing that left the stock and did not come back.
Out(i) == {o \in Orders : /\ order[o].item = i
                          /\ order[o].intent = "COMMITTED"
                          /\ order[o].txn # "REFUNDED"}

\* An edit that leaves the stock fields alone is refused only by the policy.
EditedItem(i, e) ==
  [item[i] EXCEPT !.price = e.price, !.shipping = e.shipping,
                  !.initial = e.initial, !.quantity = e.quantity,
                  !.sold = e.quantity = 0,
                  !.cut = e.initial < e.quantity + Cardinality(Out(i)),
                  !.listing = IF e.quantity = 0 THEN "SOLD"
                              ELSE IF e.warned THEN "HELD" ELSE "ACTIVE",
                  !.moderation = IF e.warned THEN "HELD" ELSE "APPROVED"]

UpdateListing(i, e) ==
  /\ item[i].listing \in {"ACTIVE", "HELD", "ARCHIVED"}
  /\ \/ e.initial = item[i].initial /\ e.quantity = item[i].quantity
     \/ ReservedCount(order, i) = 0
  /\ item[i].reserved <= e.quantity /\ e.quantity <= e.initial
  /\ AssertInvariants([item EXCEPT ![i] = EditedItem(i, e)], order)
  /\ item' = [item EXCEPT ![i] = EditedItem(i, e)]
  /\ UNCHANGED <<now, failures, order, wallet>>

-----------------------------------------------------------------------------
(* Wallets, failures and the clock.                                        *)

Deposit(a, n) ==
  /\ wallet[a].available + n <= MaxBalance
  /\ wallet' = [wallet EXCEPT ![a].available = @ + n]
  /\ UNCHANGED <<now, failures, item, order>>

Withdraw(a, n) ==
  /\ wallet[a].available >= n
  /\ wallet' = [wallet EXCEPT ![a].available = @ - n]
  /\ UNCHANGED <<now, failures, item, order>>

InjectFailure(f) ==
  /\ failures' = failures \cup {f}
  /\ UNCHANGED <<now, item, order, wallet>>

\* advanceClock releases every reservation that the new time makes overdue.
AdvanceClock ==
  /\ now < MaxNow
  /\ now' = now + 1
  /\ Release(order, wallet, Overdue(now + 1), "EXPIRED")
  /\ UNCHANGED failures

\* importState accepts an export of this state whose clock is later; nothing
\* is released until a command looks at the reservations.
RestoreLaterClock ==
  /\ now < MaxNow
  /\ AssertInvariants(item, order)
  /\ now' = now + 1
  /\ UNCHANGED <<failures, item, order, wallet>>

-----------------------------------------------------------------------------
Purchase ==
  \/ \E b \in Buyers, i \in Items, o \in Orders : StartPurchase(b, i, o)
  \/ \E o \in Orders, c \in Coupons, p \in PointUses :
       \/ ConfirmTooLate(o, c, p)
       \/ ConfirmDeclined(o, c, p)
       \/ ConfirmCaptured(o, c, p)

Fulfil(o) == \/ ShipOrder(o) \/ ShipmentFails(o) \/ MarkDelivered(o)
             \/ BuyerReviews(o) \/ SellerReviews(o)

Undo(o) == \/ CancelReservation(o) \/ CancelCaptured(o) \/ RequestCancellation(o)
           \/ RequestReturn(o) \/ ApproveReturn(o) \/ ApproveRefund(o)
           \/ DeclineRequest(o) \/ ReceiveHeldReturn(o) \/ ReceiveSettledReturn(o)

Listing(i) == \/ \E approve \in BOOLEAN : ReviewListing(i, approve)
              \/ PauseListing(i) \/ ResumeListing(i)
              \/ \E e \in Edits : UpdateListing(i, e)

Environment ==
  \/ \E a \in Actors, n \in Amounts : Deposit(a, n) \/ Withdraw(a, n)
  \/ \E f \in Faults : InjectFailure(f)
  \/ AdvanceClock
  \/ RestoreLaterClock

Next ==
  \/ Purchase
  \/ \E o \in Orders : Fulfil(o) \/ Undo(o)
  \/ \E i \in Items : Listing(i)
  \/ Environment

Spec == Init /\ [][Next]_vars

-----------------------------------------------------------------------------
(* Properties.                                                             *)

\* Types of the state: amounts, balances and stock are never negative.
OrdersTypeOK == order \in [Orders -> OrderRecord]
ItemsTypeOK  == item \in [Items -> ItemRecord]
TypeOK ==
  /\ now \in 0 .. MaxNow
  /\ failures \subseteq Faults
  /\ ItemsTypeOK
  /\ OrdersTypeOK
  /\ wallet \in [Actors -> WalletRecord]

CapturedStatus == {"AWAITING_SHIPMENT", "SHIPPED", "DELIVERED", "BUYER_REVIEWED",
                   "COMPLETED", "CANCEL_REQUESTED"}

\* The money of the order has been neither captured for the seller nor returned.
InEscrow(rec) ==
  \/ rec.txn \in {"PAYMENT_PENDING", "AWAITING_SHIPMENT", "SHIPPED", "DELIVERED",
                 "BUYER_REVIEWED"}
  \/ rec.txn = "CANCEL_REQUESTED" /\ ~rec.settled

\* Where the parcel may be at each stage of the trade.  A declined request puts it
\* back in transit unless the order was DELIVERED, so a completed order whose return
\* was declined has a parcel under way again; a request after that leaves it so.
ParcelAt(rec, stage) ==
  /\ stage = "SHIPPED" => rec.shipment = "IN_TRANSIT"
  /\ stage = "DELIVERED" => rec.shipment = "DELIVERED"
  /\ stage = "COMPLETED" => \/ rec.shipment = "DELIVERED"
                            \/ rec.shipment = "IN_TRANSIT" /\ rec.returnCase # "NONE"
ShipmentFollows(rec) ==
  /\ rec.intent # "COMMITTED" => rec.shipment = "PENDING"
  /\ rec.txn = "AWAITING_SHIPMENT" => rec.shipment \in {"PENDING", "EXCEPTION"}
  /\ rec.txn = "BUYER_REVIEWED" => rec.shipment = "DELIVERED"
  /\ ParcelAt(rec, rec.txn)
  /\ rec.txn = "CANCEL_REQUESTED" =>
       \/ rec.shipment = "RETURNING" /\ rec.returnCase = "IN_TRANSIT"
       \/ ParcelAt(rec, rec.previous)
  /\ rec.returnCase = "REFUND_COMPLETED" => rec.shipment = "RETURNED"
  /\ rec.shipment = "RETURNED" => rec.txn = "REFUNDED"

\* Intent, transaction, payment and return case of one order agree.
StatusesAgree(rec) ==
  /\ rec.buyer \in Buyers /\ rec.item \in Items /\ rec.total > 0 /\ rec.intent # "NONE"
  /\ rec.intent = "ACTIVE" <=> rec.txn = "PAYMENT_PENDING"
  /\ rec.intent \in {"RELEASED", "EXPIRED"} <=> rec.txn = "CANCELED"
  /\ rec.intent = "COMMITTED" <=> rec.payment \in {"CAPTURED", "REFUNDED"}
  /\ rec.payment = "CAPTURED" <=> rec.txn \in CapturedStatus
  /\ rec.payment = "REFUNDED" <=> rec.txn = "REFUNDED"
  /\ rec.returnCase # "NONE" => rec.intent = "COMMITTED"
  /\ rec.settled => rec.txn \in {"COMPLETED", "CANCEL_REQUESTED", "REFUNDED"}
  /\ rec.txn = "COMPLETED" => rec.settled
  /\ rec.txn = "CANCEL_REQUESTED" =>
       /\ rec.previous \in {"SHIPPED", "DELIVERED", "COMPLETED"}
       /\ rec.settled <=> rec.previous = "COMPLETED"
       /\ rec.settled => rec.returnCase # "NONE"
  /\ rec.settled /\ rec.txn = "REFUNDED" => rec.returnCase = "REFUND_COMPLETED"

\* The engine's own check of one order, and the only orders it fails on.
CheckedUnlessOverruled(rec) ==
  \/ PaymentMatchesStatus(rec) /\ ReturnMatchesOrder(rec)
  \/ rec.overruled /\ rec.returnCase = "IN_TRANSIT"

\* Six records that different commands write tell the same story about one order.
OrderConsistent(rec) ==
  /\ StatusesAgree(rec)
  /\ ShipmentFollows(rec)
  /\ CheckedUnlessOverruled(rec)
  /\ rec.held = IF InEscrow(rec) THEN rec.total ELSE 0

\* In every state each order is unallocated or its records agree: an order that
\* is paid for but not settled has its whole total on hold, one that is settled,
\* canceled or refunded has nothing on hold, money that reached the seller comes
\* back only with a completed return, and the parcel is where the trade says.  The
\* engine's own check of the order (assertInvariants, without which importState
\* takes no export) passes too, unless an operator decided on it again after
\* approving its return: resolveCancellation does not look for returns under way.
OrdersConsistent ==
  \A o \in Orders : order[o] = Unallocated \/ OrderConsistent(order[o])

\* The engine never promises more units than it has: a listing's reserved count
\* is the number of its active reservations, and the stock covers them all,
\* whatever buyers, clock, cancellations, returns and edits do in between -- unless
\* the last edit left room for fewer units than are on hand or with buyers: the
\* cap of a later restock may then take a unit that is reserved, and the listing
\* fails the engine's own check.
NoOversell ==
  \A i \in Items : /\ item[i].reserved = ReservedCount(order, i)
                   /\ ~item[i].cut => StockValid(item[i])

\* Every unit is on hand or with exactly one paid and not refunded order: the seller's
\* edits apart, no command changes their sum.  Capture moves one unit, and cancelOrder,
\* resolveCancellation and confirmReturnReceived between them put it back once, unless
\* the last edit left no room for it.
UnitsConserved ==
  [][\A i \in Items :
       \/ item[i].cut
       \/ \E e \in Edits : UpdateListing(i, e)
       \/ (item[i].quantity + Cardinality(Out(i)))' = item[i].quantity + Cardinality(Out(i))]_vars

\* A buyer has at most one active reservation of a listing, overdue ones included,
\* so activeIntentFor's first match is the only one.
OneReservationPerBuyer ==
  \A o1, o2 \in Orders :
    /\ order[o1].intent = "ACTIVE" /\ order[o2].intent = "ACTIVE"
    /\ order[o1].buyer = order[o2].buyer /\ order[o1].item = order[o2].item
    => o1 = o2

\* The held balance of a wallet is the sum of what the ledger holds for its orders,
\* so the cap of releaseWalletHold by heldBalance never cuts a refund short.
HeldBalanceIsSumOfHolds ==
  \A a \in Actors :
    wallet[a].held = MapThenSumSet(LAMBDA o : order[o].held,
                                   {o \in Orders : order[o].buyer = a})

\* What the platform kept of an order that is settled: the fee and what the buyer
\* paid for shipping, less the discounts it granted.
PlatformShare(rec) ==
  IF rec.settled /\ rec.txn # "REFUNDED" THEN rec.total - (rec.price - Fee(rec.price)) ELSE 0

Money == MapThenSumSet(LAMBDA a : wallet[a].available + wallet[a].held, Actors)
         + MapThenSumSet(LAMBDA o : PlatformShare(order[o]), Orders)

\* No command but a deposit or a withdrawal creates or destroys money: purchase,
\* re-quote, settlement with its fee, cancellation, and the returns before and
\* after settlement only move it between wallets, holds and the platform.
MoneyConserved ==
  [][\/ \E a \in Actors, n \in Amounts : Deposit(a, n) \/ Withdraw(a, n)
     \/ Money' = Money]_vars

\* Points spent on an order that stands are exactly the points missing from its
\* buyer: they leave at capture and come back with every kind of refund.
PointsConserved ==
  \A b \in Buyers :
    wallet[b].points
      + MapThenSumSet(LAMBDA o : order[o].points,
                      {o \in Orders : order[o].buyer = b /\ order[o].payment = "CAPTURED"})
    = OpeningPoints

\* No wallet is overdrawn, not the seller's by a return that comes after the money
\* was withdrawn, nor the buyer's by a quote that grew.
NoneOverdrawn == \A a \in Actors : wallet[a].available >= 0 /\ wallet[a].points >= 0

\* The wallets and the orders tell the same story, through every quote, re-quote,
\* capture, release and refund of orders that share one wallet: what is held is
\* what the ledger holds for them, the points that are missing are theirs, and
\* nobody pays with money that is not there.
WalletsMatchOrders == HeldBalanceIsSumOfHolds /\ PointsConserved /\ NoneOverdrawn

\* Nothing touches an order again once it is canceled or refunded, not even the
\* arrival of a parcel that was already on its way back.
ClosedOrdersStayClosed ==
  [][\A o \in Orders : order[o].txn \in {"CANCELED", "REFUNDED"} => order'[o] = order[o]]_vars

Stage(rec) ==
  IF rec.intent = "NONE" THEN "NONE"
  ELSE IF rec.held > 0 THEN "HELD"
  ELSE IF rec.payment = "CAPTURED" THEN "PAID" ELSE "RETURNED"

EscrowOfOrders == INSTANCE Escrow WITH stage <- [o \in Orders |-> Stage(order[o])]

\* The trade implements the escrow: the money of an order is held once and leaves
\* the hold once, to the seller or back to the buyer.
EscrowHonoured == EscrowOfOrders!Spec
=============================================================================
