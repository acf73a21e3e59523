------------------------------ MODULE Auction ------------------------------
(***************************************************************************)
(* An auction of the sandbox engine (src/app/domain/sandboxEngine.ts): the *)
(* bids and the money they put on hold, the settlement that walks down the *)
(* bids when the clock passes the end, and the order it opens, which is    *)
(* paid at once and not, as a fixed-price order, when the seller reviews.  *)
(*                                                                         *)
(* One listing; a bidder's other purchases and auctions are represented by *)
(* deposits and withdrawals, which move the balance a bid can count on.    *)
(* Bids rise by at least 100, so the ranking of settleExpiredAuction is    *)
(* the reverse of the order in which they were placed.                     *)
(***************************************************************************)
EXTENDS Integers, Sequences, FiniteSets, FiniteSetsExt

CONSTANTS
  Buyers,          \* the buyer actors
  Seller,          \* the owner of the listing
  StartPrice,      \* item.currentBid ?? item.price before the first bid
  Step,            \* the least raise: 100
  BidAmounts,      \* amounts a buyer may offer (bounds the run)
  SeededBids,      \* state.bids of the scenario: auction_outbid seeds one, without a hold
  Stock,           \* units of the listing
  ShippingCosts,   \* shippingCostFor under each shippingFee the seller may choose
  OpeningShipping, \* the one chosen when the listing is created
  OpeningBalance,  \* a buyer's openingBalance
  Amounts,         \* amounts of a deposit or withdrawal
  MaxBalance,      \* bound: no deposit takes a wallet above it
  EndsAt,          \* auctionEndsAt
  MaxNow           \* bound of the virtual clock

Actors == Buyers \cup {Seller}
Bid == [bidder : Buyers, amount : Nat \ {0}]

ASSUME AuctionAssumption ==
  /\ Seller \notin Buyers /\ IsFiniteSet(Buyers)
  /\ StartPrice \in Nat /\ Step \in Nat \ {0} /\ BidAmounts \subseteq Nat \ {0}
  /\ SeededBids \in Seq(Bid)
  /\ Stock \in Nat \ {0}
  /\ ShippingCosts \subseteq Nat /\ IsFiniteSet(ShippingCosts)
  /\ OpeningShipping \in ShippingCosts
  /\ OpeningBalance \in Nat /\ Amounts \subseteq Nat \ {0} /\ MaxBalance \in Nat
  /\ EndsAt \in Nat \ {0} /\ MaxNow \in Nat

VARIABLES
  now,         \* state.now
  paymentFails,\* "payment" is among state.pendingFailures
  listing,     \* the item: status, quantity, sold, shipping
  bids,        \* state.bids of the item, in the order they were placed
  hold,        \* hold[b]: the ledger balance of auctionHoldReference(item, b)
  wallet,      \* wallet[a]: availableBalance, heldBalance
  order        \* the transaction of the item, its payment and its return case

auctionVars == <<now, paymentFails, listing, bids, hold, wallet, order>>

OrderStatus == {"NONE", "AWAITING_SHIPMENT", "SHIPPED", "DELIVERED", "BUYER_REVIEWED",
                "COMPLETED", "CANCEL_REQUESTED", "REFUNDED"}
ReturnStatus == {"NONE", "REQUESTED", "IN_TRANSIT", "DECLINED", "REFUND_COMPLETED"}

NoOrder == [status |-> "NONE", previous |-> "NONE", returnCase |-> "NONE",
            buyer |-> Seller, price |-> 0, total |-> 0]

AuctionInit ==
  /\ now = 0
  /\ paymentFails = FALSE
  /\ listing = [status |-> "ACTIVE", quantity |-> Stock, sold |-> FALSE,
                shipping |-> OpeningShipping]
  /\ bids = SeededBids
  /\ hold = [b \in Buyers |-> 0]
  /\ wallet = [a \in Actors |->
                 [available |-> IF a = Seller THEN 0 ELSE OpeningBalance, held |-> 0]]
  /\ order = NoOrder

-----------------------------------------------------------------------------
(* Bidding.                                                                *)

CurrentBid == IF bids = <<>> THEN StartPrice ELSE bids[Len(bids)].amount
Leader     == bids[Len(bids)].bidder

Ended(t) == EndsAt <= t

\* releaseWalletHold: never more than the ledger holds for the reference, nor
\* more than the wallet holds at all.
Least(x, y) == IF x < y THEN x ELSE y
Released(b, amount) == Least(amount, Least(hold[b], wallet[b].held))

\* Variant: only the new bidder's own hold is given back.
OutbidKeepsHold(b, c) == IF c = b THEN Released(b, hold[b]) ELSE 0

\* What a new bid by b takes off the hold of c: b's own hold goes entirely, the
\* hold of the bidder who led goes up to the leading bid plus today's shipping.
Outbid(b, c) ==
  IF c = b THEN Released(b, hold[b])
  ELSE IF bids # <<>> /\ c = Leader THEN Released(c, CurrentBid + listing.shipping)
  ELSE 0

NewHold(b, amount, c) ==
  hold[c] - Outbid(b, c) + (IF c = b THEN amount + listing.shipping ELSE 0)

\* placeBid looks at the end and the stock, never at the listing's status.
PlaceBid(b, amount) ==
  /\ ~Ended(now)
  /\ ~listing.sold /\ listing.quantity > 0
  /\ amount >= CurrentBid + Step
  /\ amount + listing.shipping <= wallet[b].available + hold[b]
  /\ bids' = Append(bids, [bidder |-> b, amount |-> amount])
  /\ hold' = [c \in Buyers |-> NewHold(b, amount, c)]
  /\ wallet' = [a \in Actors |-> IF a = Seller THEN wallet[a] ELSE
                  [available |-> wallet[a].available - (NewHold(b, amount, a) - hold[a]),
                   held      |-> wallet[a].held + (NewHold(b, amount, a) - hold[a])]]
  /\ UNCHANGED <<now, paymentFails, listing, order>>

-----------------------------------------------------------------------------
(* Settlement.                                                             *)

Total(k) == bids[k].amount + listing.shipping

\* The k-th bid can be charged.  Releasing the holds of the bids above it moves
\* money from held to available, so the sum does not depend on the walk.  The
\* injected failure is consumed by the first candidate, the highest bid.
Payable(k) ==
  LET b == bids[k].bidder IN
  /\ wallet[b].available + hold[b] >= Total(k)
  /\ ~(paymentFails /\ k = Len(bids))

Candidates == {k \in DOMAIN bids : Payable(k)}
WinningBid == Max(Candidates)

Fee(price) == price \div 10

\* The candidates the walk passes over before it selects one, and is out.
PassedOver == {k \in DOMAIN bids : \A c \in Candidates : c < k}
PassedOverBidders == {bids[k].bidder : k \in PassedOver}

\* Nobody can be charged, or nobody bid: the listing is archived.
CloseUnsold ==
  /\ Candidates = {}
  /\ listing' = [listing EXCEPT !.status = "ARCHIVED"]
  /\ hold' = [b \in Buyers |-> IF b \in PassedOverBidders THEN 0 ELSE hold[b]]
  /\ wallet' = [a \in Actors |-> IF a \notin PassedOverBidders THEN wallet[a] ELSE
                  [available |-> wallet[a].available + hold[a],
                   held      |-> wallet[a].held - hold[a]]]
  /\ order' = order

\* The money of a settlement: the passed over and the winner get their holds
\* back, the winner pays, the seller receives the price less the fee.
SettledWallet(k) ==
  LET winner == bids[k].bidder
      freed  == PassedOverBidders \cup {winner}
  IN [a \in Actors |->
        IF a = Seller
        THEN [wallet[a] EXCEPT !.available = @ + bids[k].amount - Fee(bids[k].amount)]
        ELSE IF a \notin freed THEN wallet[a]
        ELSE [available |-> wallet[a].available + hold[a]
                            - (IF a = winner THEN Total(k) ELSE 0),
              held      |-> wallet[a].held - hold[a]]]

SettledHold(k) ==
  [b \in Buyers |-> IF b \in PassedOverBidders \cup {bids[k].bidder} THEN 0 ELSE hold[b]]

OrderOf(k) ==
  [NoOrder EXCEPT !.status = "AWAITING_SHIPMENT", !.buyer = bids[k].bidder,
                  !.price = bids[k].amount, !.total = Total(k)]

Sell ==
  /\ Candidates # {}
  /\ listing' = [listing EXCEPT !.status = "SOLD", !.quantity = @ - 1, !.sold = TRUE]
  /\ hold' = SettledHold(WinningBid)
  /\ wallet' = SettledWallet(WinningBid)
  /\ order' = OrderOf(WinningBid)

\* Variant: the settlement does not ask whether the item has a transaction.
SettleAgain ==
  /\ CloseUnsold \/ Sell
  /\ paymentFails' = (paymentFails /\ bids = <<>>)
  /\ UNCHANGED bids

\* settleExpiredAuction of an auction that has ended and has no transaction.
Settle ==
  /\ order.status = "NONE"
  /\ CloseUnsold \/ Sell
  /\ paymentFails' = (paymentFails /\ bids = <<>>)
  /\ UNCHANGED bids

\* closeAuction by an administrator, and advanceClock(0).
CloseAuction ==
  /\ Ended(now)
  /\ Settle
  /\ UNCHANGED now

AdvanceClock ==
  /\ now < MaxNow
  /\ now' = now + 1
  /\ \/ Ended(now + 1) /\ Settle
     \/ /\ ~Ended(now + 1) \/ order.status # "NONE"
        /\ UNCHANGED <<paymentFails, listing, bids, hold, wallet, order>>

-----------------------------------------------------------------------------
(* The order of a settled auction.  Its payment was captured at settlement *)
(* and nothing is held under the transaction, so cancelOrder of an unshipped *)
(* order, the approval of a cancellation without a return case and the     *)
(* seller's review are refused; what is left are the steps below.          *)

ShipOrder ==
  /\ order.status = "AWAITING_SHIPMENT"
  /\ order' = [order EXCEPT !.status = "SHIPPED"]
  /\ UNCHANGED <<now, paymentFails, listing, bids, hold, wallet>>

MarkDelivered ==
  /\ order.status = "SHIPPED"
  /\ order' = [order EXCEPT !.status = "DELIVERED"]
  /\ UNCHANGED <<now, paymentFails, listing, bids, hold, wallet>>

\* What the ledger holds under the transaction: HOLD and CAPTURE are one step.
HeldForOrder == 0

\* reviewOrder: the review that completes the pair captures what is held.
ReviewAllowed(actor) ==
  /\ actor = order.buyer => order.status = "DELIVERED"
  /\ actor = Seller => /\ order.status = "BUYER_REVIEWED"
                       /\ HeldForOrder >= order.total
                       /\ wallet[Seller].available + order.price >= Fee(order.price)

ReviewOrder(actor) ==
  /\ order.status # "NONE" /\ actor \in {order.buyer, Seller}
  /\ ReviewAllowed(actor)
  /\ order' = [order EXCEPT !.status = IF actor = Seller THEN "COMPLETED"
                                       ELSE "BUYER_REVIEWED"]
  /\ UNCHANGED <<now, paymentFails, listing, bids, hold, wallet>>

\* cancelOrder of a parcel on its way files a request for an operator.
RequestCancellation ==
  /\ order.status \in {"SHIPPED", "DELIVERED"}
  /\ order' = [order EXCEPT !.previous = order.status, !.status = "CANCEL_REQUESTED"]
  /\ UNCHANGED <<now, paymentFails, listing, bids, hold, wallet>>

RequestReturn ==
  /\ order.status \in {"DELIVERED", "COMPLETED"}
  /\ order.returnCase \in {"NONE", "DECLINED", "REFUND_COMPLETED"}
  /\ order' = [order EXCEPT !.previous = order.status, !.status = "CANCEL_REQUESTED",
                            !.returnCase = "REQUESTED"]
  /\ UNCHANGED <<now, paymentFails, listing, bids, hold, wallet>>

ApproveReturn ==
  /\ order.status = "CANCEL_REQUESTED" /\ order.returnCase = "REQUESTED"
  /\ order' = [order EXCEPT !.returnCase = "IN_TRANSIT"]
  /\ UNCHANGED <<now, paymentFails, listing, bids, hold, wallet>>

DeclineRequest ==
  /\ order.status = "CANCEL_REQUESTED"
  /\ order' = [order EXCEPT !.status = order.previous,
                 !.returnCase = IF @ = "REQUESTED" THEN "DECLINED" ELSE @]
  /\ UNCHANGED <<now, paymentFails, listing, bids, hold, wallet>>

\* Variant: the seller keeps the price of a returned parcel.
ReceiveReturnFromPlatform ==
  /\ order.returnCase = "IN_TRANSIT"
  /\ wallet' = [wallet EXCEPT ![order.buyer].available = @ + order.total]
  /\ order' = [order EXCEPT !.status = "REFUNDED", !.returnCase = "REFUND_COMPLETED"]
  /\ listing' = [listing EXCEPT !.quantity = Least(Stock, @ + 1), !.sold = FALSE,
                                !.status = "ACTIVE"]
  /\ UNCHANGED <<now, paymentFails, bids, hold>>

\* confirmReturnReceived finds the SALE of the settlement and reverses it.
ConfirmReturnReceived ==
  LET net == order.price - Fee(order.price) IN
  /\ order.returnCase = "IN_TRANSIT"
  /\ wallet[Seller].available >= net
  /\ wallet' = [wallet EXCEPT ![Seller].available = @ - net,
                              ![order.buyer].available = @ + order.total]
  /\ order' = [order EXCEPT !.status = "REFUNDED", !.returnCase = "REFUND_COMPLETED"]
  /\ listing' = [listing EXCEPT !.quantity = Least(Stock, @ + 1), !.sold = FALSE,
                                !.status = "ACTIVE"]
  /\ UNCHANGED <<now, paymentFails, bids, hold>>

-----------------------------------------------------------------------------
(* The seller's listing, the wallets and the injected failure.             *)

\* updateListing of the shipping fee: allowed while bids stand.
EditShipping(s) ==
  /\ listing.status \in {"ACTIVE", "ARCHIVED"}
  /\ listing' = [listing EXCEPT !.shipping = s, !.sold = listing.quantity = 0,
                   !.status = IF listing.quantity = 0 THEN "SOLD" ELSE "ACTIVE"]
  /\ UNCHANGED <<now, paymentFails, bids, hold, wallet, order>>

PauseListing ==
  /\ listing.status # "SOLD"
  /\ listing' = [listing EXCEPT !.status = "ARCHIVED"]
  /\ UNCHANGED <<now, paymentFails, bids, hold, wallet, order>>

ResumeListing ==
  /\ listing.quantity > 0
  /\ listing' = [listing EXCEPT !.status = "ACTIVE", !.sold = FALSE]
  /\ UNCHANGED <<now, paymentFails, bids, hold, wallet, order>>

Deposit(a, n) ==
  /\ wallet[a].available + n <= MaxBalance
  /\ wallet' = [wallet EXCEPT ![a].available = @ + n]
  /\ UNCHANGED <<now, paymentFails, listing, bids, hold, order>>

Withdraw(a, n) ==
  /\ wallet[a].available >= n
  /\ wallet' = [wallet EXCEPT ![a].available = @ - n]
  /\ UNCHANGED <<now, paymentFails, listing, bids, hold, order>>

InjectFailure ==
  /\ paymentFails' = TRUE
  /\ UNCHANGED <<now, listing, bids, hold, wallet, order>>

-----------------------------------------------------------------------------
AuctionNext ==
  \/ \E b \in Buyers, amount \in BidAmounts : PlaceBid(b, amount)
  \/ CloseAuction \/ AdvanceClock
  \/ ShipOrder \/ MarkDelivered \/ RequestCancellation \/ RequestReturn
  \/ ApproveReturn \/ DeclineRequest \/ ConfirmReturnReceived
  \/ \E a \in Actors : ReviewOrder(a)
  \/ \E s \in ShippingCosts : EditShipping(s)
  \/ PauseListing \/ ResumeListing
  \/ \E a \in Actors, n \in Amounts : Deposit(a, n) \/ Withdraw(a, n)
  \/ InjectFailure

AuctionSpec == AuctionInit /\ [][AuctionNext]_auctionVars

-----------------------------------------------------------------------------
(* Properties.                                                             *)

\* Types of the state; no balance, hold or stock is ever negative.
AuctionTypeOK ==
  /\ now \in Nat /\ paymentFails \in BOOLEAN
  /\ listing \in [status : {"ACTIVE", "ARCHIVED", "SOLD"}, quantity : 0 .. Stock,
                  sold : BOOLEAN, shipping : ShippingCosts]
  /\ bids \in Seq(Bid)
  /\ hold \in [Buyers -> Nat]
  /\ wallet \in [Actors -> [available : Nat, held : Nat]]
  /\ order \in [status : OrderStatus, previous : OrderStatus, returnCase : ReturnStatus,
                buyer : Actors, price : Nat, total : Nat]

MaxShipping == Max(ShippingCosts)

\* The bids the engine tied money to, unlike the one a scenario seeds.
OwnBids == Len(bids) > Len(SeededBids)

\* While the auction runs, the money behind its leading bid is on hold, whatever
\* the bidder spends, withdraws or bids elsewhere, and whatever the seller edits.
LeaderCovered ==
  ~Ended(now) /\ OwnBids => hold[Leader] >= CurrentBid

\* An overtaken bid gives its money back at once and settlement gives back the
\* rest: nobody but the leader of a running auction has the amount of a bid on
\* hold.  What may stay behind is a shipping charge the seller has since lowered.
NoBidLeftOnHold ==
  \A b \in Buyers :
    Ended(now) \/ bids = <<>> \/ b # Leader => hold[b] <= MaxShipping

\* Holds follow the bids: the two above.
HoldsFollowBids == LeaderCovered /\ NoBidLeftOnHold

\* An auction is sold once, and to one of its bids: the order is opened with
\* buyer and price of the same bid, although the settlement walks down the bids
\* reassigning six variables; further clock ticks and closeAuction calls, also
\* after a return has put the unit back on sale, open no second order.
SoldOnce ==
  [][IF order.status = "NONE"
     THEN order'.status # "NONE" =>
            \E k \in DOMAIN bids : /\ bids[k].bidder = order'.buyer
                                   /\ bids[k].amount = order'.price
     ELSE /\ order'.buyer = order.buyer
          /\ order'.price = order.price /\ order'.total = order.total
          /\ order.status = "REFUNDED" => order'.status = "REFUNDED"]_auctionVars

PlatformShare ==
  IF order.status \in {"NONE", "REFUNDED"} THEN 0
  ELSE order.total - (order.price - Fee(order.price))

Money == MapThenSumSet(LAMBDA a : wallet[a].available + wallet[a].held, Actors)
         + PlatformShare

\* Bidding, outbidding, settlement with its fee, failed settlement and return only
\* move money; deposits and withdrawals alone change how much there is.
MoneyConserved ==
  [][\/ \E a \in Actors, n \in Amounts : Deposit(a, n) \/ Withdraw(a, n)
     \/ Money' = Money]_auctionVars
=============================================================================
