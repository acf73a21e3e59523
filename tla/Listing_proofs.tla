--------------------------- MODULE Listing_proofs ---------------------------
(* What Auction and BackgroundEdit promise of a listing, for every value of *)
(* the constants.  The auction: types, wallets that hold what the bids hold, *)
(* HoldsFollowBids, SoldOnce, MoneyConserved.  The pictures: types,         *)
(* PreviewMatchesChoice and OnlyApprovedIsListed.                           *)
EXTENDS Auction, BackgroundEdit, Sums, TLAPS, FiniteSetTheorems

(* The auction.  What the wallets hold is what the ledger holds for the    *)
(* bids; an order opens after the end, of a unit that was there, and a     *)
(* parcel is on its way back only of an order that was paid and not        *)
(* refunded.                                                               *)
WalletsHoldBids ==
  /\ \A b \in Buyers : wallet[b].held = hold[b]
  /\ wallet[Seller].held = 0

OrderFits ==
  /\ order.status = "NONE" => order.returnCase = "NONE" /\ listing.quantity = Stock
  /\ order.status # "NONE" =>
       Ended(now) /\ order.buyer \in Buyers /\ order.price <= order.total
  /\ order.returnCase = "IN_TRANSIT" => order.status \notin {"NONE", "REFUNDED"}
  /\ order.status = "CANCEL_REQUESTED" => order.previous \in {"SHIPPED", "DELIVERED", "COMPLETED"}

(* The hold of the leader is at most the leading bid with the dearest      *)
(* shipping, so the next bid leaves of it only what shipping became cheaper. *)
LeaderBounded == bids # <<>> => hold[Leader] <= CurrentBid + MaxShipping

AuctionIInv == AuctionTypeOK /\ WalletsHoldBids /\ OrderFits
BidsIInv == HoldsFollowBids /\ LeaderBounded

(* The constants in arithmetic.                                            *)
LEMMA AuctionFacts ==
  /\ Seller \notin Buyers /\ Seller \in Actors /\ Buyers \subseteq Actors
  /\ IsFiniteSet(Actors)
  /\ StartPrice \in Nat /\ Step \in Nat /\ Step > 0 /\ Stock \in Nat /\ Stock > 0
  /\ BidAmounts \subseteq Nat \ {0} /\ Amounts \subseteq Nat
  /\ EndsAt \in Nat /\ EndsAt > 0
  /\ MaxShipping \in Nat /\ \A s \in ShippingCosts : s \in Nat /\ s <= MaxShipping
<1>1. ShippingCosts # {} /\ \A s \in ShippingCosts : s \in Int
  BY AuctionAssumption
<1>2. MaxShipping \in ShippingCosts /\ \A s \in ShippingCosts : s <= MaxShipping
  BY <1>1, AuctionAssumption, GreatestElement DEF MaxShipping
<1>3. IsFiniteSet(Actors)
  BY AuctionAssumption, FS_AddElement DEF Actors
<1> QED BY <1>2, <1>3, AuctionAssumption DEF Actors

(* The fee is part of the price.                                           *)
LEMMA FeeFacts ==
  ASSUME NEW price \in Nat
  PROVE  Fee(price) \in Nat /\ Fee(price) <= price
BY DEF Fee

(* What is read of the bids, and what a settlement selects of them.        *)
LEMMA BidFacts ==
  ASSUME AuctionTypeOK
  PROVE  /\ Len(bids) \in Nat
         /\ bids # <<>> => /\ Len(bids) \in DOMAIN bids
                           /\ Leader \in Buyers /\ CurrentBid \in Nat
         /\ CurrentBid \in Nat
         /\ \A k \in DOMAIN bids : /\ bids[k].bidder \in Buyers
                                   /\ bids[k].amount \in Nat \ {0}
                                   /\ Total(k) \in Nat /\ Total(k) >= bids[k].amount
<1>1. bids \in Seq(Bid) /\ listing.shipping \in Nat
  BY AuctionFacts DEF AuctionTypeOK
<1>2. \A k \in DOMAIN bids : bids[k] \in Bid
  BY <1>1
<1>3. Len(bids) \in Nat /\ (bids # <<>> => Len(bids) \in DOMAIN bids)
  BY <1>1
<1> QED BY <1>1, <1>2, <1>3, AuctionFacts DEF Bid, Leader, CurrentBid, Total

LEMMA WinnerFacts ==
  ASSUME AuctionTypeOK, Candidates # {}
  PROVE  /\ WinningBid \in DOMAIN bids /\ Payable(WinningBid)
         /\ \A k \in DOMAIN bids : k > WinningBid => k \in PassedOver
<1>1. DOMAIN bids = 1 .. Len(bids) /\ Len(bids) \in Nat /\ Candidates \subseteq DOMAIN bids
  <2>1. DOMAIN bids = 1 .. Len(bids) /\ Len(bids) \in Nat
    BY DEF AuctionTypeOK
  <2>2. Candidates \subseteq DOMAIN bids
    BY DEF Candidates
  <2> QED BY <2>1, <2>2
<1>2. IsFiniteSet(Candidates) /\ \A k \in Candidates : k \in Int
  <2>1. IsFiniteSet(1 .. Len(bids))
    BY <1>1, FS_Interval
  <2>2. IsFiniteSet(Candidates)
    BY <1>1, <2>1, FS_Subset
  <2> QED BY <1>1, <2>2
<1>3. WinningBid \in Candidates /\ \A k \in Candidates : k <= WinningBid
  BY <1>2, GreatestElement DEF WinningBid
<1>4. ASSUME NEW k \in DOMAIN bids, k > WinningBid PROVE k \in PassedOver
  <2>1. \A c \in Candidates : c < k
    BY <1>1, <1>2, <1>3, <1>4
  <2> QED BY <2>1 DEF PassedOver
<1> QED BY <1>1, <1>3, <1>4 DEF Candidates

(* A settlement releases the hold of the leader, whoever wins.             *)
LEMMA LeaderIsFreed ==
  ASSUME AuctionTypeOK, bids # <<>>
  PROVE  /\ Candidates = {} => Leader \in PassedOverBidders
         /\ Candidates # {} =>
              Leader \in PassedOverBidders \cup {bids[WinningBid].bidder}
<1>1. Len(bids) \in DOMAIN bids /\ \A k \in DOMAIN bids : k \in Int /\ k <= Len(bids)
  BY DEF AuctionTypeOK
<1>2. CASE Candidates = {}
  BY <1>1, <1>2 DEF PassedOverBidders, PassedOver, Leader
<1>3. CASE Candidates # {}
  <2>1. WinningBid \in DOMAIN bids
    BY <1>3, WinnerFacts
  <2>2. CASE WinningBid = Len(bids)
    BY <1>3, <2>2 DEF Leader
  <2>3. CASE WinningBid # Len(bids)
    <3>1. Len(bids) > WinningBid
      BY <1>1, <2>1, <2>3
    <3>2. Len(bids) \in PassedOver
      BY <1>1, <1>3, <3>1, WinnerFacts
    <3> QED BY <1>3, <3>2 DEF PassedOverBidders, Leader
  <2> QED BY <2>2, <2>3
<1> QED BY <1>2, <1>3

(* The steps that change neither money nor bids nor stock.                 *)
Quiet ==
  \/ ShipOrder \/ MarkDelivered \/ RequestCancellation \/ RequestReturn
  \/ ApproveReturn \/ DeclineRequest
  \/ \E a \in Actors : ReviewOrder(a)

Edits ==
  \/ \E s \in ShippingCosts : EditShipping(s)
  \/ PauseListing \/ ResumeListing \/ InjectFailure

LEMMA InitFits == AuctionInit => AuctionIInv
<1> SUFFICES ASSUME AuctionInit PROVE AuctionIInv
  OBVIOUS
<1>1. AuctionTypeOK
  <2>1. bids \in Seq(Bid) /\ now \in Nat /\ paymentFails \in BOOLEAN
    BY AuctionAssumption DEF AuctionInit
  <2>2. listing \in [status : {"ACTIVE", "ARCHIVED", "SOLD"}, quantity : 0 .. Stock,
                     sold : BOOLEAN, shipping : ShippingCosts]
    BY AuctionAssumption DEF AuctionInit
  <2>3. /\ hold \in [Buyers -> Nat]
        /\ wallet \in [Actors -> [available : Nat, held : Nat]]
    BY AuctionAssumption DEF AuctionInit
  <2>4. order \in [status : OrderStatus, previous : OrderStatus, returnCase : ReturnStatus,
                   buyer : Actors, price : Nat, total : Nat]
    BY AuctionFacts DEF AuctionInit, NoOrder, OrderStatus, ReturnStatus
  <2> QED BY <2>1, <2>2, <2>3, <2>4 DEF AuctionTypeOK
<1>2. WalletsHoldBids
  BY AuctionFacts DEF AuctionInit, WalletsHoldBids
<1>3. OrderFits
  BY DEF AuctionInit, OrderFits, NoOrder
<1> QED BY <1>1, <1>2, <1>3 DEF AuctionIInv

(* They concern an order that stands, and it stays the same sale.          *)
LEMMA QuietFacts ==
  ASSUME AuctionIInv, Quiet
  PROVE  /\ UNCHANGED <<now, paymentFails, listing, bids, hold, wallet>>
         /\ order.status \notin {"NONE", "REFUNDED"} /\ order'.status \notin {"NONE", "REFUNDED"}
         /\ order'.buyer = order.buyer /\ order'.price = order.price /\ order'.total = order.total
         /\ order'.status = "CANCEL_REQUESTED" =>
              order'.previous \in {"SHIPPED", "DELIVERED", "COMPLETED"}
         /\ order' \in [status : OrderStatus, previous : OrderStatus, returnCase : ReturnStatus,
                        buyer : Actors, price : Nat, total : Nat]
<1>1. AuctionTypeOK /\ WalletsHoldBids /\ OrderFits
  BY DEF AuctionIInv
<1>2. UNCHANGED <<now, paymentFails, listing, bids, hold, wallet>>
  BY DEF Quiet, ShipOrder, MarkDelivered, RequestCancellation, RequestReturn,
         ApproveReturn, DeclineRequest, ReviewOrder
<1>3. /\ order.status \notin {"NONE", "REFUNDED"} /\ order'.status \notin {"NONE", "REFUNDED"}
      /\ order'.buyer = order.buyer /\ order'.price = order.price /\ order'.total = order.total
      /\ order'.status = "CANCEL_REQUESTED" =>
           order'.previous \in {"SHIPPED", "DELIVERED", "COMPLETED"}
      /\ order' \in [status : OrderStatus, previous : OrderStatus, returnCase : ReturnStatus,
                     buyer : Actors, price : Nat, total : Nat]
  <2> USE <1>1 DEF AuctionTypeOK, OrderFits, OrderStatus, ReturnStatus
  <2>1. CASE ShipOrder \/ MarkDelivered \/ RequestCancellation
    BY <2>1 DEF ShipOrder, MarkDelivered, RequestCancellation
  <2>2. CASE RequestReturn \/ ApproveReturn
    BY <2>2 DEF RequestReturn, ApproveReturn
  <2>3. CASE DeclineRequest
    BY <2>3 DEF DeclineRequest
  <2>4. ASSUME NEW a \in Actors, ReviewOrder(a)
        PROVE  /\ order.status \in {"DELIVERED", "BUYER_REVIEWED"}
               /\ order' = [order EXCEPT !.status = order'.status]
               /\ order'.status \in {"COMPLETED", "BUYER_REVIEWED"}
    BY <2>4 DEF ReviewOrder, ReviewAllowed
  <2>5. CASE \E a \in Actors : ReviewOrder(a)
    BY <2>4, <2>5
  <2> QED BY <2>1, <2>2, <2>3, <2>5 DEF Quiet
<1> QED BY <1>2, <1>3

LEMMA QuietFits ==
  ASSUME AuctionIInv, Quiet
  PROVE  AuctionIInv'
<1>1. AuctionTypeOK /\ WalletsHoldBids /\ OrderFits
  BY DEF AuctionIInv
<1>2. AuctionTypeOK'
  BY <1>1, QuietFacts DEF AuctionTypeOK
<1>3. WalletsHoldBids'
  BY <1>1, QuietFacts DEF WalletsHoldBids
<1>4. OrderFits'
  BY <1>1, QuietFacts DEF OrderFits, Ended
<1> QED BY <1>2, <1>3, <1>4 DEF AuctionIInv

LEMMA EditsFit ==
  ASSUME AuctionIInv, Edits
  PROVE  AuctionIInv'
<1>1. AuctionTypeOK /\ WalletsHoldBids /\ OrderFits
  BY DEF AuctionIInv
<1>2. /\ UNCHANGED <<now, bids, hold, wallet, order>>
      /\ listing'.quantity = listing.quantity
      /\ paymentFails' \in BOOLEAN
      /\ listing' \in [status : {"ACTIVE", "ARCHIVED", "SOLD"}, quantity : 0 .. Stock,
                       sold : BOOLEAN, shipping : ShippingCosts]
  BY <1>1 DEF Edits, EditShipping, PauseListing, ResumeListing, InjectFailure, AuctionTypeOK
<1>3. AuctionTypeOK' /\ WalletsHoldBids' /\ OrderFits'
  BY <1>1, <1>2 DEF AuctionTypeOK, WalletsHoldBids, OrderFits, Ended
<1> QED BY <1>3 DEF AuctionIInv

(* Money from outside moves only what is available.                        *)
LEMMA OutsideMoneyFits ==
  ASSUME AuctionIInv, NEW a \in Actors, NEW n \in Amounts, Deposit(a, n) \/ Withdraw(a, n)
  PROVE  AuctionIInv'
<1>1. AuctionTypeOK /\ WalletsHoldBids /\ OrderFits
  BY DEF AuctionIInv
<1>2. n \in Nat
  BY AuctionFacts
<1>3. /\ wallet' \in [Actors -> [available : Nat, held : Nat]]
      /\ \A x \in Actors : wallet'[x].held = wallet[x].held
  <2>1. wallet \in [Actors -> [available : Nat, held : Nat]]
    BY <1>1 DEF AuctionTypeOK
  <2>2. PICK m \in Nat : wallet' = [wallet EXCEPT ![a].available = m]
    <3>1. wallet[a].available \in Nat
      BY <2>1
    <3>2. CASE Deposit(a, n)
      <4>1. wallet' = [wallet EXCEPT ![a].available = wallet[a].available + n]
        BY <3>2 DEF Deposit
      <4>2. wallet[a].available + n \in Nat
        BY <1>2, <3>1
      <4> QED BY <4>1, <4>2
    <3>3. CASE Withdraw(a, n)
      <4>1. wallet' = [wallet EXCEPT ![a].available = wallet[a].available - n]
        BY <3>3 DEF Withdraw
      <4>2. wallet[a].available - n \in Nat
        BY <1>2, <3>1, <3>3 DEF Withdraw
      <4> QED BY <4>1, <4>2
    <3> QED BY <3>2, <3>3
  <2> QED BY <2>1, <2>2
<1>4. UNCHANGED <<now, paymentFails, listing, bids, hold, order>>
  BY DEF Deposit, Withdraw
<1>5. AuctionTypeOK' /\ WalletsHoldBids' /\ OrderFits'
  BY <1>1, <1>3, <1>4, AuctionFacts DEF AuctionTypeOK, WalletsHoldBids, OrderFits, Ended
<1> QED BY <1>5 DEF AuctionIInv

(* What a bid releases, since the wallets hold what the ledger holds.      *)
LEMMA OutbidFacts ==
  ASSUME AuctionIInv, NEW b \in Buyers, NEW amount \in BidAmounts, NEW c \in Buyers
  PROVE  /\ hold[c] \in Nat /\ Outbid(b, c) \in 0 .. hold[c]
         /\ NewHold(b, amount, c) \in Nat
         /\ c = b => NewHold(b, amount, c) = amount + listing.shipping
         /\ c # b => NewHold(b, amount, c) <= hold[c]
         /\ c # b /\ bids # <<>> /\ c = Leader
              => \/ NewHold(b, amount, c) = 0
                 \/ NewHold(b, amount, c) = hold[c] - (CurrentBid + listing.shipping)
<1>1. AuctionTypeOK /\ WalletsHoldBids
  BY DEF AuctionIInv
<1>2. hold[c] \in Nat /\ wallet[c].held = hold[c] /\ listing.shipping \in Nat
  BY <1>1, AuctionFacts DEF AuctionTypeOK, WalletsHoldBids
<1>3. CurrentBid \in Nat /\ amount \in Nat
  BY <1>1, BidFacts, AuctionFacts
<1>4. \A x \in Nat : Released(c, x) = IF x < hold[c] THEN x ELSE hold[c]
  BY <1>2 DEF Released, Least
<1>5. CASE c = b
  <2>1. Outbid(b, c) = hold[c]
    BY <1>2, <1>4, <1>5 DEF Outbid
  <2> QED BY <1>2, <1>3, <1>5, <2>1 DEF NewHold
<1>6. CASE c # b /\ bids # <<>> /\ c = Leader
  <2> DEFINE x == CurrentBid + listing.shipping
  <2>1. x \in Nat /\ Outbid(b, c) = IF x < hold[c] THEN x ELSE hold[c]
    BY <1>2, <1>3, <1>4, <1>6 DEF Outbid
  <2> QED BY <1>2, <1>3, <1>6, <2>1 DEF NewHold
<1>7. CASE c # b /\ ~(bids # <<>> /\ c = Leader)
  <2>1. Outbid(b, c) = 0
    BY <1>7 DEF Outbid
  <2> QED BY <1>2, <1>3, <1>7, <2>1 DEF NewHold
<1> QED BY <1>5, <1>6, <1>7

PurseIn(w, a) == w[a].available + w[a].held

(* A bid moves money between what is available and what is held.           *)
LEMMA BidFits ==
  ASSUME AuctionIInv, NEW b \in Buyers, NEW amount \in BidAmounts, PlaceBid(b, amount)
  PROVE  /\ AuctionIInv'
         /\ \A a \in Actors : PurseIn(wallet', a) = PurseIn(wallet, a)
<1>1. AuctionTypeOK /\ WalletsHoldBids /\ OrderFits
  BY DEF AuctionIInv
<1>2. amount \in Nat /\ amount > 0 /\ listing.shipping \in Nat
  BY <1>1, AuctionFacts DEF AuctionTypeOK
<1>3. \A a \in Actors : wallet[a].available \in Nat /\ wallet[a].held \in Nat
  BY <1>1 DEF AuctionTypeOK
<1>4. ASSUME NEW c \in Buyers
      PROVE  /\ hold'[c] = NewHold(b, amount, c)
             /\ wallet'[c] = [available |-> wallet[c].available - (NewHold(b, amount, c) - hold[c]),
                              held |-> wallet[c].held + (NewHold(b, amount, c) - hold[c])]
  BY AuctionFacts DEF PlaceBid
<1>5. ASSUME NEW c \in Buyers
      PROVE  /\ hold'[c] \in Nat /\ wallet'[c] \in [available : Nat, held : Nat]
             /\ wallet'[c].held = hold'[c]
             /\ wallet'[c].available + wallet'[c].held = wallet[c].available + wallet[c].held
  <2>1. /\ hold[c] \in Nat /\ NewHold(b, amount, c) \in Nat
        /\ c = b => NewHold(b, amount, c) = amount + listing.shipping
        /\ c # b => NewHold(b, amount, c) <= hold[c]
    BY OutbidFacts
  <2>2. wallet[c].held = hold[c] /\ wallet[c].available \in Nat
    BY <1>1, <1>3, AuctionFacts DEF WalletsHoldBids
  <2>3. NewHold(b, amount, c) - hold[c] <= wallet[c].available
    <3>1. CASE c = b
      BY <1>2, <2>1, <2>2, <3>1 DEF PlaceBid
    <3>2. CASE c # b
      BY <2>1, <2>2, <3>2
    <3> QED BY <3>1, <3>2
  <2>4. /\ wallet[c].available - (NewHold(b, amount, c) - hold[c]) \in Nat
        /\ wallet[c].held + (NewHold(b, amount, c) - hold[c]) = NewHold(b, amount, c)
    BY <2>1, <2>2, <2>3
  <2>5. wallet'[c] = [available |-> wallet[c].available - (NewHold(b, amount, c) - hold[c]),
                      held |-> NewHold(b, amount, c)]
    BY <1>4, <2>4
  <2>6. hold'[c] = NewHold(b, amount, c)
    BY <1>4
  <2> QED BY <2>1, <2>2, <2>4, <2>5, <2>6
<1>6. wallet'[Seller] = wallet[Seller] /\ wallet[Seller] \in [available : Nat, held : Nat]
  BY <1>1, AuctionFacts DEF PlaceBid, AuctionTypeOK
<1>7. hold' \in [Buyers -> Nat] /\ wallet' \in [Actors -> [available : Nat, held : Nat]]
  <2>1. \A a \in Actors : wallet'[a] \in [available : Nat, held : Nat]
    BY <1>5, <1>6 DEF Actors
  <2>2. DOMAIN wallet' = Actors /\ wallet' = [a \in DOMAIN wallet' |-> wallet'[a]]
    BY DEF PlaceBid
  <2>3. DOMAIN hold' = Buyers /\ hold' = [c \in DOMAIN hold' |-> hold'[c]]
    BY DEF PlaceBid
  <2> QED BY <1>5, <2>1, <2>2, <2>3
<1>8. bids' \in Seq(Bid)
  <2>1. [bidder |-> b, amount |-> amount] \in Bid
    BY <1>2 DEF Bid
  <2> QED BY <1>1, <2>1 DEF PlaceBid, AuctionTypeOK
<1>9. UNCHANGED <<now, paymentFails, listing, order>>
  BY DEF PlaceBid
<1>10. AuctionTypeOK'
  BY <1>1, <1>7, <1>8, <1>9 DEF AuctionTypeOK
<1>11. WalletsHoldBids'
  BY <1>1, <1>5, <1>6 DEF WalletsHoldBids
<1>12. OrderFits'
  BY <1>1, <1>9 DEF OrderFits, Ended
<1>13. \A a \in Actors : PurseIn(wallet', a) = PurseIn(wallet, a)
  BY <1>5, <1>6 DEF PurseIn, Actors
<1> QED BY <1>10, <1>11, <1>12, <1>13 DEF AuctionIInv

(* A settlement without a winner gives the holds of the bids back.         *)
LEMMA UnsoldFits ==
  ASSUME AuctionIInv, CloseUnsold, paymentFails' \in BOOLEAN, UNCHANGED bids,
         order.status = "NONE", now' \in Nat
  PROVE  /\ AuctionIInv'
         /\ \A a \in Actors : PurseIn(wallet', a) = PurseIn(wallet, a)
<1>1. AuctionTypeOK /\ WalletsHoldBids /\ OrderFits
  BY DEF AuctionIInv
<1>2. \A a \in Actors : wallet[a].available \in Nat /\ wallet[a].held \in Nat
  BY <1>1 DEF AuctionTypeOK
<1>3. PassedOverBidders \subseteq Buyers
  BY <1>1, BidFacts DEF PassedOverBidders, PassedOver
<1>4. ASSUME NEW c \in Buyers
      PROVE  /\ hold'[c] = IF c \in PassedOverBidders THEN 0 ELSE hold[c]
             /\ wallet'[c] = IF c \notin PassedOverBidders THEN wallet[c] ELSE
                  [available |-> wallet[c].available + hold[c], held |-> wallet[c].held - hold[c]]
  BY AuctionFacts DEF CloseUnsold
<1>5. ASSUME NEW c \in Buyers
      PROVE  /\ hold'[c] \in Nat /\ wallet'[c] \in [available : Nat, held : Nat]
             /\ wallet'[c].held = hold'[c]
             /\ wallet'[c].available + wallet'[c].held = wallet[c].available + wallet[c].held
  <2>1. hold[c] \in Nat /\ wallet[c].held = hold[c] /\ wallet[c].available \in Nat
        /\ wallet[c] \in [available : Nat, held : Nat]
    BY <1>1, <1>2, AuctionFacts DEF AuctionTypeOK, WalletsHoldBids
  <2>2. CASE c \in PassedOverBidders
    <3>1. hold'[c] = 0 /\ wallet'[c] = [available |-> wallet[c].available + hold[c],
                                        held |-> wallet[c].held - hold[c]]
      BY <1>4, <2>2
    <3> QED BY <2>1, <3>1
  <2>3. CASE c \notin PassedOverBidders
    BY <1>4, <2>1, <2>3
  <2> QED BY <2>2, <2>3
<1>6. wallet'[Seller] = wallet[Seller] /\ wallet[Seller] \in [available : Nat, held : Nat]
  BY <1>1, <1>3, AuctionFacts DEF CloseUnsold, AuctionTypeOK
<1>7. hold' \in [Buyers -> Nat] /\ wallet' \in [Actors -> [available : Nat, held : Nat]]
  <2>1. \A a \in Actors : wallet'[a] \in [available : Nat, held : Nat]
    BY <1>5, <1>6 DEF Actors
  <2>2. DOMAIN wallet' = Actors /\ wallet' = [a \in DOMAIN wallet' |-> wallet'[a]]
    BY DEF CloseUnsold
  <2>3. DOMAIN hold' = Buyers /\ hold' = [c \in DOMAIN hold' |-> hold'[c]]
    BY DEF CloseUnsold
  <2> QED BY <1>5, <2>1, <2>2, <2>3
<1>8. /\ listing' \in [status : {"ACTIVE", "ARCHIVED", "SOLD"}, quantity : 0 .. Stock,
                       sold : BOOLEAN, shipping : ShippingCosts]
      /\ listing'.quantity = listing.quantity /\ order' = order
  BY <1>1 DEF CloseUnsold, AuctionTypeOK
<1>9. AuctionTypeOK'
  BY <1>1, <1>7, <1>8 DEF AuctionTypeOK
<1>10. WalletsHoldBids'
  BY <1>1, <1>5, <1>6 DEF WalletsHoldBids
<1>11. OrderFits'
  BY <1>1, <1>8 DEF OrderFits
<1>12. \A a \in Actors : PurseIn(wallet', a) = PurseIn(wallet, a)
  BY <1>5, <1>6 DEF PurseIn, Actors
<1> QED BY <1>9, <1>10, <1>11, <1>12 DEF AuctionIInv

(* The winner gets back what was held for the bids, and pays; the seller   *)
(* gets the price without the fee.                                         *)
LEMMA SaleFits ==
  ASSUME AuctionIInv, Sell, paymentFails' \in BOOLEAN, UNCHANGED bids,
         order.status = "NONE", now' \in Nat, Ended(now)'
  PROVE  /\ AuctionIInv'
         /\ order'.status = "AWAITING_SHIPMENT" /\ order'.buyer \in Buyers
         /\ WinningBid \in DOMAIN bids
         /\ order'.buyer = bids[WinningBid].bidder /\ order'.price = bids[WinningBid].amount
         /\ \A a \in Actors \ {order'.buyer, Seller} : PurseIn(wallet', a) = PurseIn(wallet, a)
         /\ PurseIn(wallet', order'.buyer) = PurseIn(wallet, order'.buyer) - order'.total
         /\ PurseIn(wallet', Seller) = PurseIn(wallet, Seller) + (order'.price - Fee(order'.price))
<1> DEFINE k == WinningBid
           winner == bids[k].bidder
           price == bids[k].amount
           freed == PassedOverBidders \cup {winner}
<1>1. AuctionTypeOK /\ WalletsHoldBids /\ OrderFits
  BY DEF AuctionIInv
<1>2. /\ k \in DOMAIN bids /\ winner \in Buyers /\ price \in Nat /\ price > 0
      /\ Total(k) \in Nat /\ price <= Total(k) /\ Payable(k)
  BY <1>1, BidFacts, WinnerFacts DEF Sell
<1>3. Fee(price) \in Nat /\ price - Fee(price) \in Nat
  BY <1>2, FeeFacts
<1>4. \A a \in Actors : wallet[a].available \in Nat /\ wallet[a].held \in Nat
                        /\ wallet[a] \in [available : Nat, held : Nat]
  BY <1>1 DEF AuctionTypeOK
<1>5. /\ order' = OrderOf(k) /\ order'.status = "AWAITING_SHIPMENT"
      /\ order'.buyer = winner /\ order'.price = price /\ order'.total = Total(k)
      /\ order'.returnCase = "NONE" /\ order'.previous = "NONE"
  BY DEF Sell, OrderOf, NoOrder
<1>6. /\ hold' = [b \in Buyers |-> IF b \in freed THEN 0 ELSE hold[b]]
      /\ wallet' = [a \in Actors |->
           IF a = Seller THEN [wallet[a] EXCEPT !.available = @ + price - Fee(price)]
           ELSE IF a \notin freed THEN wallet[a]
           ELSE [available |-> wallet[a].available + hold[a] - (IF a = winner THEN Total(k) ELSE 0),
                 held |-> wallet[a].held - hold[a]]]
  BY DEF Sell, SettledHold, SettledWallet
<1> HIDE DEF k, winner, price, freed
<1>7. ASSUME NEW c \in Buyers
      PROVE  /\ hold'[c] \in Nat /\ wallet'[c] \in [available : Nat, held : Nat]
             /\ wallet'[c].held = hold'[c]
             /\ wallet'[c].available + wallet'[c].held
                  = wallet[c].available + wallet[c].held - (IF c = winner THEN Total(k) ELSE 0)
  <2>1. /\ hold[c] \in Nat /\ wallet[c].held = hold[c] /\ wallet[c].available \in Nat
        /\ wallet[c] \in [available : Nat, held : Nat]
    BY <1>1, <1>4, AuctionFacts DEF AuctionTypeOK, WalletsHoldBids
  <2>2. c \in Actors /\ c # Seller
    BY AuctionFacts
  <2>3. CASE c \in freed /\ c = winner
    <3>1. hold'[c] = 0 /\ wallet'[c] = [available |-> wallet[c].available + hold[c] - Total(k),
                                        held |-> wallet[c].held - hold[c]]
      BY <1>6, <2>2, <2>3
    <3>2. wallet[c].available + hold[c] >= Total(k)
      BY <1>2, <2>3 DEF Payable, winner
    <3> QED BY <1>2, <2>1, <2>3, <3>1, <3>2
  <2>4. CASE c \in freed /\ c # winner
    <3>1. hold'[c] = 0 /\ wallet'[c] = [available |-> wallet[c].available + hold[c] - 0,
                                        held |-> wallet[c].held - hold[c]]
      BY <1>6, <2>2, <2>4
    <3> QED BY <2>1, <2>4, <3>1
  <2>5. CASE c \notin freed
    <3>1. hold'[c] = hold[c] /\ wallet'[c] = wallet[c]
      BY <1>6, <2>2, <2>5
    <3>2. c # winner
      BY <2>5 DEF freed
    <3> QED BY <2>1, <3>1, <3>2
  <2> QED BY <2>3, <2>4, <2>5
<1>8. /\ wallet'[Seller] \in [available : Nat, held : Nat]
      /\ wallet'[Seller].held = wallet[Seller].held
      /\ wallet'[Seller].available = wallet[Seller].available + (price - Fee(price))
  <2>1. wallet'[Seller] = [wallet[Seller] EXCEPT !.available = wallet[Seller].available + price - Fee(price)]
    BY <1>6, AuctionFacts
  <2>2. wallet[Seller].available + price - Fee(price) = wallet[Seller].available + (price - Fee(price))
        /\ wallet[Seller].available + (price - Fee(price)) \in Nat
        /\ wallet[Seller] \in [available : Nat, held : Nat]
    BY <1>2, <1>3, <1>4, AuctionFacts
  <2> QED BY <2>1, <2>2
<1>9. hold' \in [Buyers -> Nat] /\ wallet' \in [Actors -> [available : Nat, held : Nat]]
  <2>1. \A a \in Actors : wallet'[a] \in [available : Nat, held : Nat]
    BY <1>7, <1>8 DEF Actors
  <2>2. DOMAIN wallet' = Actors /\ wallet' = [a \in DOMAIN wallet' |-> wallet'[a]]
    BY <1>6
  <2>3. DOMAIN hold' = Buyers /\ hold' = [c \in DOMAIN hold' |-> hold'[c]]
    BY <1>6
  <2> QED BY <1>7, <2>1, <2>2, <2>3
<1>10. /\ listing' \in [status : {"ACTIVE", "ARCHIVED", "SOLD"}, quantity : 0 .. Stock,
                        sold : BOOLEAN, shipping : ShippingCosts]
  <2>1. listing.quantity = Stock /\ Stock - 1 \in 0 .. Stock
    BY <1>1, AuctionFacts DEF OrderFits
  <2>2. listing' = [listing EXCEPT !.status = "SOLD", !.quantity = Stock - 1, !.sold = TRUE]
    BY <2>1 DEF Sell
  <2> QED BY <1>1, <2>1, <2>2 DEF AuctionTypeOK
<1>11. order' \in [status : OrderStatus, previous : OrderStatus, returnCase : ReturnStatus,
                   buyer : Actors, price : Nat, total : Nat]
  BY <1>2, <1>5, AuctionFacts DEF OrderOf, NoOrder, OrderStatus, ReturnStatus, winner, price
<1>12. AuctionTypeOK'
  BY <1>1, <1>9, <1>10, <1>11 DEF AuctionTypeOK
<1>13. WalletsHoldBids'
  BY <1>1, <1>7, <1>8 DEF WalletsHoldBids
<1>14. OrderFits'
  BY <1>2, <1>5 DEF OrderFits
<1>15. \A a \in Actors \ {winner, Seller} : PurseIn(wallet', a) = PurseIn(wallet, a)
  <2> SUFFICES ASSUME NEW a \in Actors, a # winner, a # Seller PROVE PurseIn(wallet', a) = PurseIn(wallet, a)
    OBVIOUS
  <2>1. a \in Buyers
    BY DEF Actors
  <2>2. wallet'[a].available + wallet'[a].held = wallet[a].available + wallet[a].held - 0
    BY <1>7, <2>1
  <2> QED BY <1>4, <2>2 DEF PurseIn
<1>16. PurseIn(wallet', winner) = PurseIn(wallet, winner) - Total(k)
  <2>1. ASSUME NEW c \in Buyers, c = winner
        PROVE  PurseIn(wallet', c) = PurseIn(wallet, c) - Total(k)
    <3>1. wallet[c].available \in Nat /\ wallet[c].held \in Nat
      BY <1>4, AuctionFacts
    <3>2. wallet'[c].available + wallet'[c].held = wallet[c].available + wallet[c].held - Total(k)
      BY <1>7, <2>1
    <3> QED BY <3>1, <3>2, <1>2 DEF PurseIn
  <2> QED BY <1>2, <2>1
<1>17. PurseIn(wallet', Seller) = PurseIn(wallet, Seller) + (price - Fee(price))
  <2>1. wallet[Seller].available \in Nat /\ wallet[Seller].held \in Nat
    BY <1>4, AuctionFacts
  <2> QED BY <1>3, <1>8, <2>1 DEF PurseIn
<1> QED BY <1>2, <1>5, <1>12, <1>13, <1>14, <1>15, <1>16, <1>17 DEF AuctionIInv, k, winner, price

(* A parcel that is back undoes the sale.                                  *)
LEMMA ReturnFits ==
  ASSUME AuctionIInv, ConfirmReturnReceived
  PROVE  /\ AuctionIInv'
         /\ order.status \notin {"NONE", "REFUNDED"} /\ order.buyer \in Buyers
         /\ order'.status = "REFUNDED" /\ order'.buyer = order.buyer
         /\ order'.price = order.price /\ order'.total = order.total
         /\ \A a \in Actors \ {order.buyer, Seller} : PurseIn(wallet', a) = PurseIn(wallet, a)
         /\ PurseIn(wallet', order.buyer) = PurseIn(wallet, order.buyer) + order.total
         /\ PurseIn(wallet', Seller) = PurseIn(wallet, Seller) - (order.price - Fee(order.price))
<1> DEFINE net == order.price - Fee(order.price)
           buyer == order.buyer
<1>1. AuctionTypeOK /\ WalletsHoldBids /\ OrderFits
  BY DEF AuctionIInv
<1>2. /\ order.status \notin {"NONE", "REFUNDED"} /\ buyer \in Buyers /\ Ended(now)
      /\ order.returnCase = "IN_TRANSIT"
  BY <1>1 DEF ConfirmReturnReceived, OrderFits
<1>3. order.total \in Nat /\ order.price \in Nat /\ net \in Nat
  <2>1. order.total \in Nat /\ order.price \in Nat
    BY <1>1 DEF AuctionTypeOK
  <2> QED BY <2>1, FeeFacts
<1>4. \A a \in Actors : /\ wallet[a] \in [available : Nat, held : Nat]
                        /\ wallet[a].available \in Nat /\ wallet[a].held \in Nat
  BY <1>1 DEF AuctionTypeOK
<1>5. /\ wallet[Seller].available >= net
      /\ wallet' = [wallet EXCEPT ![Seller].available = @ - net,
                                  ![buyer].available = @ + order.total]
      /\ order' = [order EXCEPT !.status = "REFUNDED", !.returnCase = "REFUND_COMPLETED"]
      /\ listing' = [listing EXCEPT !.quantity = Least(Stock, @ + 1), !.sold = FALSE,
                                    !.status = "ACTIVE"]
      /\ UNCHANGED <<now, paymentFails, bids, hold>>
  BY DEF ConfirmReturnReceived
<1> HIDE DEF net, buyer
<1>6. buyer \in Actors /\ Seller \in Actors /\ buyer # Seller
  BY <1>2, AuctionFacts
<1>7. /\ wallet'[Seller] = [wallet[Seller] EXCEPT !.available = wallet[Seller].available - net]
      /\ wallet'[buyer] = [wallet[buyer] EXCEPT !.available = wallet[buyer].available + order.total]
      /\ \A a \in Actors : a # Seller /\ a # buyer => wallet'[a] = wallet[a]
      /\ DOMAIN wallet' = Actors
  BY <1>1, <1>5, <1>6 DEF AuctionTypeOK
<1>8. /\ wallet'[Seller] \in [available : Nat, held : Nat]
      /\ wallet'[Seller].held = wallet[Seller].held
      /\ wallet'[Seller].available = wallet[Seller].available - net
  BY <1>3, <1>4, <1>5, <1>6, <1>7
<1>9. /\ wallet'[buyer] \in [available : Nat, held : Nat]
      /\ wallet'[buyer].held = wallet[buyer].held
      /\ wallet'[buyer].available = wallet[buyer].available + order.total
  BY <1>3, <1>4, <1>6, <1>7
<1>10. wallet' \in [Actors -> [available : Nat, held : Nat]]
  <2>1. \A a \in Actors : wallet'[a] \in [available : Nat, held : Nat]
    BY <1>4, <1>7, <1>8, <1>9
  <2>2. wallet' = [a \in DOMAIN wallet' |-> wallet'[a]]
    BY <1>5
  <2> QED BY <1>7, <2>1, <2>2
<1>11. listing' \in [status : {"ACTIVE", "ARCHIVED", "SOLD"}, quantity : 0 .. Stock,
                     sold : BOOLEAN, shipping : ShippingCosts]
  <2>1. listing.quantity \in 0 .. Stock
    BY <1>1 DEF AuctionTypeOK
  <2>2. Least(Stock, listing.quantity + 1) \in 0 .. Stock
    BY <2>1, AuctionFacts DEF Least
  <2>3. listing' = [listing EXCEPT !.quantity = Least(Stock, listing.quantity + 1), !.sold = FALSE,
                                   !.status = "ACTIVE"]
    BY <1>5
  <2> QED BY <1>1, <2>2, <2>3 DEF AuctionTypeOK
<1>12. order' \in [status : OrderStatus, previous : OrderStatus, returnCase : ReturnStatus,
                   buyer : Actors, price : Nat, total : Nat]
  BY <1>1, <1>5 DEF AuctionTypeOK, OrderStatus, ReturnStatus
<1>13. /\ order'.status = "REFUNDED" /\ order'.returnCase = "REFUND_COMPLETED"
       /\ order'.buyer = order.buyer /\ order'.price = order.price /\ order'.total = order.total
  BY <1>1, <1>5 DEF AuctionTypeOK
<1>14. AuctionTypeOK'
  BY <1>1, <1>5, <1>10, <1>11, <1>12 DEF AuctionTypeOK
<1>15. WalletsHoldBids'
  <2>1. \A a \in Actors : wallet'[a].held = wallet[a].held
    BY <1>7, <1>8, <1>9
  <2> QED BY <1>1, <1>5, <2>1, AuctionFacts DEF WalletsHoldBids
<1>16. OrderFits'
  BY <1>1, <1>2, <1>5, <1>13 DEF OrderFits, Ended, buyer
<1>17. \A a \in Actors \ {buyer, Seller} : PurseIn(wallet', a) = PurseIn(wallet, a)
  BY <1>7 DEF PurseIn
<1>18. PurseIn(wallet', Seller) = PurseIn(wallet, Seller) - net
  <2>1. wallet[Seller].available \in Nat /\ wallet[Seller].held \in Nat
    BY <1>4, <1>6
  <2> QED BY <1>3, <1>8, <2>1 DEF PurseIn
<1>19. PurseIn(wallet', buyer) = PurseIn(wallet, buyer) + order.total
  <2>1. wallet[buyer].available \in Nat /\ wallet[buyer].held \in Nat
    BY <1>4, <1>6
  <2> QED BY <1>3, <1>9, <2>1 DEF PurseIn
<1> QED BY <1>2, <1>13, <1>14, <1>15, <1>16, <1>17, <1>18, <1>19 DEF AuctionIInv, net, buyer

(* The settlement, by an administrator or by the clock.                    *)
LEMMA SettlementFits ==
  ASSUME AuctionIInv, Settle, now' \in Nat, Ended(now)'
  PROVE  AuctionIInv'
<1>1. paymentFails' \in BOOLEAN /\ UNCHANGED bids /\ order.status = "NONE"
  <2>1. paymentFails \in BOOLEAN
    BY DEF AuctionIInv, AuctionTypeOK
  <2> QED BY <2>1 DEF Settle
<1> QED BY <1>1, UnsoldFits, SaleFits DEF Settle

LEMMA ClockFits ==
  ASSUME AuctionIInv, CloseAuction \/ AdvanceClock
  PROVE  AuctionIInv'
<1>1. AuctionTypeOK /\ WalletsHoldBids /\ OrderFits /\ now \in Nat /\ MaxNow \in Nat
  BY AuctionAssumption DEF AuctionIInv, AuctionTypeOK
<1>2. CASE CloseAuction
  BY <1>1, <1>2, SettlementFits DEF CloseAuction, Ended
<1>3. CASE AdvanceClock /\ Ended(now + 1) /\ Settle
  BY <1>1, <1>3, SettlementFits DEF AdvanceClock, Ended
<1>4. CASE AdvanceClock /\ UNCHANGED <<paymentFails, listing, bids, hold, wallet, order>>
  <2>1. now' = now + 1 /\ now' \in Nat
    BY <1>1, <1>4 DEF AdvanceClock
  <2>2. Ended(now) => Ended(now')
    BY <1>1, <2>1, AuctionFacts DEF Ended
  <2>3. AuctionTypeOK' /\ WalletsHoldBids' /\ OrderFits'
    BY <1>1, <1>4, <2>1, <2>2 DEF AuctionTypeOK, WalletsHoldBids, OrderFits
  <2> QED BY <2>3 DEF AuctionIInv
<1> QED BY <1>2, <1>3, <1>4 DEF AdvanceClock

LEMMA AuctionFits == AuctionIInv /\ [AuctionNext]_auctionVars => AuctionIInv'
<1> SUFFICES ASSUME AuctionIInv, [AuctionNext]_auctionVars PROVE AuctionIInv'
  OBVIOUS
<1>1. CASE UNCHANGED auctionVars
  BY <1>1 DEF auctionVars, AuctionIInv, AuctionTypeOK, WalletsHoldBids, OrderFits, Ended
<1>2. CASE AuctionNext
  BY <1>2, BidFits, ClockFits, QuietFits, ReturnFits, EditsFit, OutsideMoneyFits
     DEF AuctionNext, Quiet, Edits
<1> QED BY <1>1, <1>2

(* Wallets, holds and order keep their types for any bidders, bids and     *)
(* amounts: no settlement overdraws a wallet, and what a wallet holds is   *)
(* what the ledger holds for the bids.                                     *)
THEOREM AuctionTypeCorrect == AuctionSpec => [](AuctionTypeOK /\ WalletsHoldBids)
<1>1. AuctionIInv => AuctionTypeOK /\ WalletsHoldBids
  BY DEF AuctionIInv
<1> QED BY <1>1, InitFits, AuctionFits, PTL DEF AuctionSpec

(* Who has money on hold.                                                  *)
LEMMA BidsBegin == AuctionInit => BidsIInv
<1> SUFFICES ASSUME AuctionInit PROVE BidsIInv
  OBVIOUS
<1>1. AuctionTypeOK
  BY InitFits DEF AuctionIInv
<1>2. /\ MaxShipping \in Nat /\ CurrentBid \in Nat /\ (bids # <<>> => Leader \in Buyers)
      /\ Len(bids) \in Nat
  BY <1>1, AuctionFacts, BidFacts
<1>3. ~OwnBids
  BY <1>2 DEF OwnBids, AuctionInit
<1>4. \A b \in Buyers : hold[b] = 0
  BY DEF AuctionInit
<1> QED BY <1>2, <1>3, <1>4 DEF BidsIInv, HoldsFollowBids, LeaderCovered, NoBidLeftOnHold, LeaderBounded

LEMMA BidKeepsHolds ==
  ASSUME AuctionIInv, BidsIInv, NEW b \in Buyers, NEW amount \in BidAmounts, PlaceBid(b, amount)
  PROVE  BidsIInv'
<1>1. AuctionTypeOK /\ AuctionTypeOK' /\ bids \in Seq(Bid)
  BY BidFits DEF AuctionIInv, AuctionTypeOK
<1>2. /\ MaxShipping \in Nat /\ CurrentBid \in Nat /\ amount \in Nat
      /\ listing.shipping \in Nat /\ listing.shipping <= MaxShipping
  BY <1>1, AuctionFacts, BidFacts DEF AuctionTypeOK
<1>3. \A c \in Buyers : hold'[c] = NewHold(b, amount, c)
  BY DEF PlaceBid
<1>4. bids' # <<>> /\ Leader' = b /\ CurrentBid' = amount
  <2>1. [bidder |-> b, amount |-> amount] \in Bid
    BY <1>2, AuctionFacts DEF Bid
  <2>2. bids' = Append(bids, [bidder |-> b, amount |-> amount]) /\ Len(bids) \in Nat
    BY <1>1 DEF PlaceBid
  <2>3. bids' # <<>> /\ bids'[Len(bids')] = [bidder |-> b, amount |-> amount]
    BY <1>1, <2>1, <2>2
  <2> QED BY <2>3 DEF Leader, CurrentBid
<1>5. hold'[b] = amount + listing.shipping
  BY <1>3, OutbidFacts
<1>6. ~Ended(now) /\ now' = now
  BY DEF PlaceBid
<1>7. ASSUME NEW c \in Buyers, c # b
      PROVE  hold'[c] <= MaxShipping
  <2>1. /\ hold[c] \in Nat /\ NewHold(b, amount, c) \in Nat /\ NewHold(b, amount, c) <= hold[c]
        /\ bids # <<>> /\ c = Leader
              => \/ NewHold(b, amount, c) = 0
                 \/ NewHold(b, amount, c) = hold[c] - (CurrentBid + listing.shipping)
    BY <1>7, OutbidFacts
  <2>2. CASE bids = <<>> \/ c # Leader
    <3>1. hold[c] <= MaxShipping
      BY <2>2 DEF BidsIInv, HoldsFollowBids, NoBidLeftOnHold
    <3> QED BY <1>2, <1>3, <2>1, <3>1
  <2>3. CASE bids # <<>> /\ c = Leader
    <3>1. hold[c] <= CurrentBid + MaxShipping
      BY <2>3 DEF BidsIInv, LeaderBounded
    <3>2. NewHold(b, amount, c) <= MaxShipping
      BY <1>2, <2>1, <2>3, <3>1
    <3> QED BY <1>3, <3>2
  <2> QED BY <2>2, <2>3
<1>8. LeaderCovered'
  BY <1>2, <1>4, <1>5 DEF LeaderCovered
<1>9. NoBidLeftOnHold'
  BY <1>4, <1>6, <1>7, AuctionFacts DEF NoBidLeftOnHold, Ended, MaxShipping
<1>10. LeaderBounded'
  BY <1>2, <1>4, <1>5 DEF LeaderBounded, MaxShipping
<1> QED BY <1>8, <1>9, <1>10 DEF BidsIInv, HoldsFollowBids

LEMMA SettlementKeepsHolds ==
  ASSUME AuctionIInv, BidsIInv, Settle, Ended(now)'
  PROVE  BidsIInv'
<1>1. AuctionTypeOK /\ UNCHANGED bids /\ MaxShipping \in Nat /\ CurrentBid \in Nat
  BY AuctionFacts, BidFacts DEF AuctionIInv, Settle
<1>2. ASSUME NEW c \in Buyers
      PROVE  /\ hold[c] \in Nat
             /\ hold'[c] = 0 \/ hold'[c] = hold[c]
             /\ bids # <<>> /\ c = Leader => hold'[c] = 0
  <2>1. hold[c] \in Nat
    BY <1>1 DEF AuctionTypeOK
  <2>2. CASE CloseUnsold
    BY <1>1, <2>1, <2>2, LeaderIsFreed DEF CloseUnsold
  <2>3. CASE Sell
    BY <1>1, <2>1, <2>3, LeaderIsFreed DEF Sell, SettledHold
  <2> QED BY <2>1, <2>2, <2>3 DEF Settle
<1>3. ASSUME NEW c \in Buyers PROVE hold'[c] <= MaxShipping
  <2>1. CASE bids # <<>> /\ c = Leader
    BY <1>1, <1>2, <2>1
  <2>2. CASE ~(bids # <<>> /\ c = Leader)
    <3>1. hold[c] <= MaxShipping
      BY <2>2 DEF BidsIInv, HoldsFollowBids, NoBidLeftOnHold
    <3> QED BY <1>1, <1>2, <3>1
  <2> QED BY <2>1, <2>2
<1>4. LeaderCovered'
  BY DEF LeaderCovered
<1>5. NoBidLeftOnHold'
  BY <1>3 DEF NoBidLeftOnHold, MaxShipping
<1>6. LeaderBounded'
  <2>1. bids # <<>> => hold'[Leader] <= CurrentBid + MaxShipping
    BY <1>1, <1>2, BidFacts
  <2>2. Leader' = Leader /\ CurrentBid' = CurrentBid
    BY <1>1 DEF Leader, CurrentBid
  <2> QED BY <1>1, <2>1, <2>2 DEF LeaderBounded, MaxShipping
<1> QED BY <1>4, <1>5, <1>6 DEF BidsIInv, HoldsFollowBids

LEMMA BidsKept ==
  ASSUME BidsIInv, UNCHANGED <<bids, hold>>, Ended(now)' <=> Ended(now)
  PROVE  BidsIInv'
BY DEF BidsIInv, HoldsFollowBids, LeaderCovered, NoBidLeftOnHold, LeaderBounded, OwnBids,
       Leader, CurrentBid, MaxShipping

LEMMA ClockKeepsHolds ==
  ASSUME AuctionIInv, BidsIInv, CloseAuction \/ AdvanceClock
  PROVE  BidsIInv'
<1>1. now \in Nat /\ EndsAt \in Nat /\ OrderFits
  BY AuctionFacts DEF AuctionIInv, AuctionTypeOK
<1>2. CASE CloseAuction
  BY <1>2, SettlementKeepsHolds DEF CloseAuction, Ended
<1>3. CASE AdvanceClock /\ Ended(now + 1) /\ Settle
  BY <1>3, SettlementKeepsHolds DEF AdvanceClock, Ended
<1>4. CASE AdvanceClock /\ UNCHANGED <<paymentFails, listing, bids, hold, wallet, order>>
           /\ (~Ended(now + 1) \/ order.status # "NONE")
  <2>1. Ended(now') <=> Ended(now)
    BY <1>1, <1>4 DEF AdvanceClock, Ended, OrderFits
  <2> QED BY <1>4, <2>1, BidsKept DEF Ended
<1> QED BY <1>2, <1>3, <1>4 DEF AdvanceClock

LEMMA BidsStep == AuctionIInv /\ BidsIInv /\ [AuctionNext]_auctionVars => BidsIInv'
<1> SUFFICES ASSUME AuctionIInv, BidsIInv, [AuctionNext]_auctionVars PROVE BidsIInv'
  OBVIOUS
<1>1. CASE UNCHANGED <<now, bids, hold>>
  BY <1>1, BidsKept DEF Ended
<1>2. ASSUME NEW b \in Buyers, NEW amount \in BidAmounts, PlaceBid(b, amount) PROVE BidsIInv'
  BY <1>2, BidKeepsHolds
<1>3. CASE CloseAuction \/ AdvanceClock
  BY <1>3, ClockKeepsHolds
<1>4. CASE Quiet
  BY <1>1, <1>4 DEF Quiet, ShipOrder, MarkDelivered, RequestCancellation, RequestReturn,
                    ApproveReturn, DeclineRequest, ReviewOrder
<1>5. CASE ConfirmReturnReceived \/ Edits
  BY <1>1, <1>5 DEF ConfirmReturnReceived, Edits, EditShipping, PauseListing, ResumeListing,
                    InjectFailure
<1>6. ASSUME NEW a \in Actors, NEW n \in Amounts, Deposit(a, n) \/ Withdraw(a, n) PROVE BidsIInv'
  BY <1>1, <1>6 DEF Deposit, Withdraw
<1> QED BY <1>1, <1>2, <1>3, <1>4, <1>5, <1>6 DEF AuctionNext, auctionVars, Quiet, Edits

(* While the auction runs the leading bid has its money on hold, and nobody *)
(* else has the amount of a bid on hold, for any bidders and bids and       *)
(* whatever the seller does to the shipping meanwhile.                      *)
THEOREM HoldsAlwaysFollowBids == AuctionSpec => []HoldsFollowBids
<1>1. BidsIInv => HoldsFollowBids
  BY DEF BidsIInv
<1> QED BY <1>1, InitFits, AuctionFits, BidsBegin, BidsStep, PTL DEF AuctionSpec

(* The clock and the administrator settle an auction, or leave it alone.   *)
LEMMA ClockSettles ==
  ASSUME AuctionIInv, CloseAuction \/ AdvanceClock
  PROVE  \/ Settle /\ now' \in Nat /\ Ended(now)'
         \/ UNCHANGED <<paymentFails, listing, bids, hold, wallet, order>>
BY DEF AuctionIInv, AuctionTypeOK, CloseAuction, AdvanceClock, Ended

LEMMA SettlementCases ==
  ASSUME AuctionIInv, Settle
  PROVE  /\ paymentFails' \in BOOLEAN /\ UNCHANGED bids /\ order.status = "NONE"
         /\ CloseUnsold \/ Sell
BY DEF AuctionIInv, AuctionTypeOK, Settle

(* The order opens once, by a settlement, of the bid it selects.           *)
OneSale ==
  IF order.status = "NONE"
  THEN order'.status # "NONE" =>
         \E k \in DOMAIN bids : /\ bids[k].bidder = order'.buyer
                                /\ bids[k].amount = order'.price
  ELSE /\ order'.buyer = order.buyer
       /\ order'.price = order.price /\ order'.total = order.total
       /\ order.status = "REFUNDED" => order'.status = "REFUNDED"

LEMMA OneSaleStep == AuctionIInv /\ [AuctionNext]_auctionVars => OneSale
<1> SUFFICES ASSUME AuctionIInv, [AuctionNext]_auctionVars PROVE OneSale
  OBVIOUS
<1>1. CASE UNCHANGED order
  BY <1>1 DEF OneSale
<1>2. CASE Quiet
  BY <1>2, QuietFacts DEF OneSale
<1>3. CASE CloseAuction \/ AdvanceClock
  <2>1. CASE Settle /\ now' \in Nat /\ Ended(now)'
    <3>1. /\ paymentFails' \in BOOLEAN /\ UNCHANGED bids /\ order.status = "NONE"
          /\ CloseUnsold \/ Sell
      BY <2>1, SettlementCases
    <3>2. CASE CloseUnsold
      BY <1>1, <3>2 DEF CloseUnsold
    <3>3. CASE Sell
      <4>1. /\ WinningBid \in DOMAIN bids
            /\ order'.buyer = bids[WinningBid].bidder /\ order'.price = bids[WinningBid].amount
        BY <2>1, <3>1, <3>3, SaleFits
      <4> QED BY <3>1, <4>1 DEF OneSale
    <3> QED BY <3>1, <3>2, <3>3
  <2> QED BY <1>1, <1>3, <2>1, ClockSettles
<1>4. CASE ConfirmReturnReceived
  BY <1>4, ReturnFits DEF OneSale
<1>5. CASE Edits \/ \E b \in Buyers, amount \in BidAmounts : PlaceBid(b, amount)
  BY <1>1, <1>5 DEF Edits, EditShipping, PauseListing, ResumeListing, InjectFailure, PlaceBid
<1>6. ASSUME NEW a \in Actors, NEW n \in Amounts, Deposit(a, n) \/ Withdraw(a, n) PROVE OneSale
  BY <1>1, <1>6 DEF Deposit, Withdraw
<1> QED BY <1>1, <1>2, <1>3, <1>4, <1>5, <1>6 DEF AuctionNext, auctionVars, Quiet, Edits

(* An auction is sold once, at most, and to one of its bids with the price *)
(* of that bid, for any bids, balances and stock.                          *)
THEOREM SoldToABid == AuctionSpec => SoldOnce
<1>1. AuctionIInv /\ [AuctionNext]_auctionVars => [OneSale]_auctionVars
  BY OneSaleStep
<1> QED BY <1>1, InitFits, AuctionFits, PTL DEF AuctionSpec, SoldOnce, OneSale

(* Money.  The purses are added up over the actors.                        *)
AuctionPurses(w) == [a \in Actors |-> PurseIn(w, a)]
AuctionMoney(w, or) ==
  SumFunctionOnSet(AuctionPurses(w), Actors)
    + (IF or.status \in {"NONE", "REFUNDED"} THEN 0 ELSE or.total - (or.price - Fee(or.price)))

LEMMA AuctionMoneyCounted == Money = AuctionMoney(wallet, order)
<1> DEFINE purses == [a \in Actors |-> wallet[a].available + wallet[a].held]
<1>1. MapThenSumSet(LAMBDA a : wallet[a].available + wallet[a].held, Actors)
        = SumFunctionOnSet(purses, Actors)
  BY DEF MapThenSumSet, SumFunctionOnSet, FoldFunctionOnSet, MapThenFoldSet
<1>2. purses = AuctionPurses(wallet)
  BY DEF AuctionPurses, PurseIn
<1> HIDE DEF purses
<1> QED BY <1>1, <1>2 DEF Money, AuctionMoney, PlatformShare

PursesCounted(w) == \A a \in Actors : PurseIn(w, a) \in Int

LEMMA PursesKept ==
  ASSUME NEW v, NEW w, \A a \in Actors : PurseIn(w, a) = PurseIn(v, a)
  PROVE  SumFunctionOnSet(AuctionPurses(w), Actors) = SumFunctionOnSet(AuctionPurses(v), Actors)
<1>1. AuctionPurses(w) = AuctionPurses(v)
  BY DEF AuctionPurses
<1> QED BY <1>1

(* What a buyer and the seller gain or lose, the sum does.                 *)
LEMMA TwoPursesChanged ==
  ASSUME NEW v, NEW w, NEW b \in Actors, b # Seller, NEW m \in Int, NEW n \in Int,
         PursesCounted(v), PursesCounted(w),
         \A a \in Actors \ {b, Seller} : PurseIn(w, a) = PurseIn(v, a),
         PurseIn(w, b) = PurseIn(v, b) + m,
         PurseIn(w, Seller) = PurseIn(v, Seller) + n
  PROVE  /\ SumFunctionOnSet(AuctionPurses(v), Actors) \in Int
         /\ SumFunctionOnSet(AuctionPurses(w), Actors)
              = SumFunctionOnSet(AuctionPurses(v), Actors) + (m + n)
<1> DEFINE f == AuctionPurses(v)
           h == AuctionPurses(w)
           g == [a \in Actors |-> IF a = b THEN h[a] ELSE f[a]]
<1>1. IsFiniteSet(Actors) /\ Seller \in Actors
  BY AuctionFacts
<1>2. \A a \in Actors : f[a] = PurseIn(v, a) /\ h[a] = PurseIn(w, a) /\ f[a] \in Int /\ h[a] \in Int
  BY DEF AuctionPurses, PursesCounted
<1>3. \A a \in Actors : g[a] = IF a = b THEN h[a] ELSE f[a]
  OBVIOUS
<1> HIDE DEF f, g, h
<1>4. \A a \in Actors : g[a] \in Int
  BY <1>2, <1>3
<1>5. SumFunctionOnSet(g, Actors) = SumFunctionOnSet(f, Actors) + (g[b] - f[b])
  <2>1. \A a \in Actors : f[a] \in Int /\ g[a] \in Int
    BY <1>2, <1>4
  <2>2. \A a \in Actors \ {b} : f[a] = g[a]
    BY <1>3
  <2> QED BY <1>1, <2>1, <2>2, SumOneChanged
<1>6. SumFunctionOnSet(h, Actors) = SumFunctionOnSet(g, Actors) + (h[Seller] - g[Seller])
  <2>1. \A a \in Actors : g[a] \in Int /\ h[a] \in Int
    BY <1>2, <1>4
  <2>2. \A a \in Actors \ {Seller} : g[a] = h[a]
    BY <1>2, <1>3
  <2> QED BY <1>1, <2>1, <2>2, SumOneChanged
<1>7. SumFunctionOnSet(f, Actors) \in Int
  BY <1>1, <1>2, SumType
<1>8. g[b] = f[b] + m /\ g[Seller] = f[Seller] /\ h[Seller] = f[Seller] + n
      /\ f[b] \in Int /\ f[Seller] \in Int
  BY <1>1, <1>2, <1>3
<1> QED BY <1>5, <1>6, <1>7, <1>8 DEF f, h

LEMMA PursesAreCounted ==
  ASSUME AuctionTypeOK
  PROVE  PursesCounted(wallet)
BY DEF AuctionTypeOK, PursesCounted, PurseIn

(* The winner pays the seller and the platform.                            *)
LEMMA SaleKeepsMoney ==
  ASSUME AuctionIInv, Sell, paymentFails' \in BOOLEAN, UNCHANGED bids,
         order.status = "NONE", now' \in Nat, Ended(now)'
  PROVE  AuctionMoney(wallet', order') = AuctionMoney(wallet, order)
<1> DEFINE net == order'.price - Fee(order'.price)
<1>1. /\ AuctionIInv' /\ order'.buyer \in Buyers
      /\ order'.status = "AWAITING_SHIPMENT"
      /\ \A a \in Actors \ {order'.buyer, Seller} : PurseIn(wallet', a) = PurseIn(wallet, a)
      /\ PurseIn(wallet', order'.buyer) = PurseIn(wallet, order'.buyer) - order'.total
      /\ PurseIn(wallet', Seller) = PurseIn(wallet, Seller) + net
  BY SaleFits
<1>2. AuctionTypeOK /\ AuctionTypeOK'
  BY <1>1 DEF AuctionIInv
<1>3. PursesCounted(wallet) /\ PursesCounted(wallet')
  <2>1. AuctionTypeOK' => PursesCounted(wallet')
    BY DEF AuctionTypeOK, PursesCounted, PurseIn
  <2> QED BY <1>2, <2>1, PursesAreCounted
<1>4. order'.total \in Nat /\ net \in Int
  <2>1. order'.total \in Nat /\ order'.price \in Nat
    BY <1>2 DEF AuctionTypeOK
  <2> QED BY <2>1, FeeFacts
<1>5. order'.buyer \in Actors /\ order'.buyer # Seller /\ Seller \in Actors
  BY <1>1, AuctionFacts
<1> DEFINE m == 0 - order'.total
<1>6. m \in Int /\ PurseIn(wallet', order'.buyer) = PurseIn(wallet, order'.buyer) + m
  BY <1>1, <1>3, <1>4, <1>5 DEF PursesCounted
<1> DEFINE before == SumFunctionOnSet(AuctionPurses(wallet), Actors)
           after == SumFunctionOnSet(AuctionPurses(wallet'), Actors)
<1>7. before \in Int /\ after = before + (m + net)
  <2> HIDE DEF m, net
  <2> QED BY <1>1, <1>3, <1>4, <1>5, <1>6, TwoPursesChanged
<1>8. AuctionMoney(wallet, order) = before + 0
  BY DEF AuctionMoney
<1>9. AuctionMoney(wallet', order') = after + (order'.total - net)
  BY <1>1 DEF AuctionMoney
<1> HIDE DEF before, after, net
<1> QED BY <1>4, <1>7, <1>8, <1>9

(* A return gives back what the sale took.                                 *)
LEMMA ReturnKeepsMoney ==
  ASSUME AuctionIInv, ConfirmReturnReceived
  PROVE  AuctionMoney(wallet', order') = AuctionMoney(wallet, order)
<1> DEFINE net == order.price - Fee(order.price)
<1>1. /\ AuctionIInv' /\ order.buyer \in Buyers
      /\ order.status \notin {"NONE", "REFUNDED"} /\ order'.status = "REFUNDED"
      /\ \A a \in Actors \ {order.buyer, Seller} : PurseIn(wallet', a) = PurseIn(wallet, a)
      /\ PurseIn(wallet', order.buyer) = PurseIn(wallet, order.buyer) + order.total
      /\ PurseIn(wallet', Seller) = PurseIn(wallet, Seller) - net
  BY ReturnFits
<1>2. AuctionTypeOK /\ AuctionTypeOK'
  BY <1>1 DEF AuctionIInv
<1>3. PursesCounted(wallet) /\ PursesCounted(wallet')
  <2>1. AuctionTypeOK' => PursesCounted(wallet')
    BY DEF AuctionTypeOK, PursesCounted, PurseIn
  <2> QED BY <1>2, <2>1, PursesAreCounted
<1>4. order.total \in Nat /\ net \in Int
  <2>1. order.total \in Nat /\ order.price \in Nat
    BY <1>2 DEF AuctionTypeOK
  <2> QED BY <2>1, FeeFacts
<1>5. order.buyer \in Actors /\ order.buyer # Seller /\ Seller \in Actors
  BY <1>1, AuctionFacts
<1> DEFINE n == 0 - net
<1>6. n \in Int /\ PurseIn(wallet', Seller) = PurseIn(wallet, Seller) + n
  <2> HIDE DEF net
  <2> QED BY <1>1, <1>3, <1>4, <1>5 DEF PursesCounted
<1> DEFINE before == SumFunctionOnSet(AuctionPurses(wallet), Actors)
           after == SumFunctionOnSet(AuctionPurses(wallet'), Actors)
<1>7. before \in Int /\ after = before + (order.total + n)
  <2> HIDE DEF n, net
  <2> QED BY <1>1, <1>3, <1>4, <1>5, <1>6, TwoPursesChanged
<1>8. AuctionMoney(wallet, order) = before + (order.total - net)
  BY <1>1 DEF AuctionMoney
<1>9. AuctionMoney(wallet', order') = after + 0
  BY <1>1 DEF AuctionMoney
<1> HIDE DEF before, after, net
<1> QED BY <1>4, <1>7, <1>8, <1>9

(* The orders of the auction are the same money, or none.                  *)
SameOrder ==
  /\ \/ order' = order
     \/ /\ order.status \notin {"NONE", "REFUNDED"} /\ order'.status \notin {"NONE", "REFUNDED"}
        /\ order'.price = order.price /\ order'.total = order.total

LEMMA MoneyOfSameOrder ==
  ASSUME SameOrder, \A a \in Actors : PurseIn(wallet', a) = PurseIn(wallet, a)
  PROVE  AuctionMoney(wallet', order') = AuctionMoney(wallet, order)
<1>1. SumFunctionOnSet(AuctionPurses(wallet'), Actors) = SumFunctionOnSet(AuctionPurses(wallet), Actors)
  BY PursesKept
<1> QED BY <1>1 DEF AuctionMoney, SameOrder

LEMMA AuctionMoneyStep ==
  AuctionIInv /\ [AuctionNext]_auctionVars =>
    \/ \E a \in Actors, n \in Amounts : Deposit(a, n) \/ Withdraw(a, n)
    \/ AuctionMoney(wallet', order') = AuctionMoney(wallet, order)
<1> SUFFICES ASSUME AuctionIInv, [AuctionNext]_auctionVars,
                    ~ \E a \in Actors, n \in Amounts : Deposit(a, n) \/ Withdraw(a, n)
             PROVE  AuctionMoney(wallet', order') = AuctionMoney(wallet, order)
  OBVIOUS
<1>1. CASE UNCHANGED <<wallet, order>>
  BY <1>1
<1>2. CASE Quiet
  BY <1>2, QuietFacts, MoneyOfSameOrder DEF SameOrder
<1>3. CASE CloseAuction \/ AdvanceClock
  <2>1. CASE Settle /\ now' \in Nat /\ Ended(now)'
    <3>1. /\ paymentFails' \in BOOLEAN /\ UNCHANGED bids /\ order.status = "NONE"
          /\ CloseUnsold \/ Sell
      BY <2>1, SettlementCases
    <3>2. CASE CloseUnsold
      <4>1. \A a \in Actors : PurseIn(wallet', a) = PurseIn(wallet, a)
        BY <2>1, <3>1, <3>2, UnsoldFits
      <4>2. SameOrder
        BY <3>2 DEF CloseUnsold, SameOrder
      <4> QED BY <4>1, <4>2, MoneyOfSameOrder
    <3>3. CASE Sell
      BY <2>1, <3>1, <3>3, SaleKeepsMoney
    <3> QED BY <3>1, <3>2, <3>3
  <2> QED BY <1>1, <1>3, <2>1, ClockSettles
<1>4. CASE ConfirmReturnReceived
  BY <1>4, ReturnKeepsMoney
<1>5. CASE Edits
  BY <1>1, <1>5 DEF Edits, EditShipping, PauseListing, ResumeListing, InjectFailure
<1>6. ASSUME NEW b \in Buyers, NEW amount \in BidAmounts, PlaceBid(b, amount)
      PROVE  AuctionMoney(wallet', order') = AuctionMoney(wallet, order)
  <2>1. \A a \in Actors : PurseIn(wallet', a) = PurseIn(wallet, a)
    BY <1>6, BidFits
  <2>2. SameOrder
    BY <1>6 DEF PlaceBid, SameOrder
  <2> QED BY <2>1, <2>2, MoneyOfSameOrder
<1> QED BY <1>1, <1>2, <1>3, <1>4, <1>5, <1>6 DEF AuctionNext, auctionVars, Quiet, Edits

(* Bids, settlements and returns only move money between the wallets and   *)
(* the platform, for any bidders, bids, fees and balances: nothing is lost *)
(* or created when the walk of the settlement passes bids over.            *)
THEOREM AuctionMoneyConserved == AuctionSpec => MoneyConserved
<1> DEFINE Counted == Money = AuctionMoney(wallet, order)
           Moved == \/ \E a \in Actors, n \in Amounts : Deposit(a, n) \/ Withdraw(a, n)
                    \/ Money' = Money
<1>1. Counted
  BY AuctionMoneyCounted
<1>2. AuctionIInv /\ Counted /\ Counted' /\ [AuctionNext]_auctionVars => [Moved]_auctionVars
  <2> SUFFICES ASSUME AuctionIInv, Counted, Counted', [AuctionNext]_auctionVars PROVE Moved
    OBVIOUS
  <2> HIDE DEF Money
  <2>1. Money' = AuctionMoney(wallet', order')
    BY DEF AuctionMoney, AuctionPurses, PurseIn
  <2> QED BY <2>1, AuctionMoneyStep
<1> QED BY <1>1, <1>2, InitFits, AuctionFits, PTL DEF AuctionSpec, MoneyConserved

-----------------------------------------------------------------------------
(* The pictures of the listing.                                            *)

(* A picture stays a picture when a background is laid over it, and a fresh *)
(* shot has no background.                                                  *)
LEMMA PictureFacts ==
    /\ \A p \in Pictures, s \in Styles : Composite(p, s) \in Pictures
    /\ \A n \in Shots : Shot(n) \in Pictures /\ Shot(n).layers = <<>>
    /\ 1 \in Shots
    /\ \A p \in Pictures : p.shot \in Nat /\ (p.shot < MaxShots => p.shot + 1 \in Shots)
<1>1. \A p \in Pictures, s \in Styles : Composite(p, s) \in Pictures
  <2> SUFFICES ASSUME NEW p \in Pictures, NEW s \in Styles
               PROVE  Composite(p, s) \in Pictures
    OBVIOUS
  <2>1. p.layers \in Seq(Styles) /\ Append(p.layers, s) \in Seq(Styles)
    BY DEF Pictures
  <2> QED
    BY <2>1 DEF Pictures, Composite
<1>2. \A n \in Shots : Shot(n) \in Pictures /\ Shot(n).layers = <<>>
  BY DEF Pictures, Shot
<1>3. 1 \in Shots
  BY BoundsAssumption DEF Shots
<1>4. \A p \in Pictures : p.shot \in Nat /\ (p.shot < MaxShots => p.shot + 1 \in Shots)
  BY BoundsAssumption DEF Pictures, Shots
<1> QED
  BY <1>1, <1>2, <1>3, <1>4

(* A job that the panel starts is a job.                                    *)
LEMMA JobFacts ==
    ASSUME style \in Styles, NEW k \in Kinds, NEW p \in Pictures, NEW a \in BOOLEAN
    PROVE  /\ Job(k, p, a) \in Jobs
           /\ \A local \in BOOLEAN : [Job(k, p, a) EXCEPT !.local = local] \in Jobs
BY DEF Job, Jobs

(* The types, and that an approved choice is a choice: saving starts a job  *)
(* with it.                                                                 *)
TypeIInv ==
    /\ TypeOK
    /\ phase = "approved" => selected # None

(* What happens to the form and to the adoptions on their way keeps types.  *)
LEMMA AdoptedTypes ==
    ASSUME TypeOK, NEW j, NEW others, Adopted(j, others),
           j.picture \in Pictures, others \subseteq late
    PROVE  /\ item' \in Pictures
           /\ late' \subseteq Adoptions
<1>1. CASE j.aimed
  <2>1. \A l \in Adoptions : [l EXCEPT !.aimed = FALSE] \in Adoptions
    BY DEF Adoptions
  <2> QED
    BY <1>1, <2>1 DEF TypeOK, Adopted
<1>2. CASE ~j.aimed
  BY <1>2 DEF TypeOK, Adopted
<1> QED
  BY <1>1, <1>2

LEMMA BlankTypes ==
    ASSUME NEW ph \in Phases, Blank(ph)
    PROVE  /\ phase' \in Phases
           /\ preview' \in Pictures \cup {None}
           /\ selected' \in Pictures \cup {None}
           /\ output' \in Outputs \cup {None}
BY DEF Blank

(* A job that makes a picture, or will once the front picture is restored.  *)
Making == {"restore", "mask", "background", "compose"}

(* PreviewMatchesChoice with what it rests on: only a panel in "preview" or *)
(* "approved" has a preview, so that a new style, which is chosen nowhere   *)
(* else without throwing the preview away, meets none; and a job that is    *)
(* still current works on the picture and in the style the panel is at.     *)
PreviewIInv ==
    /\ PreviewMatchesChoice
    /\ phase \in {"idle", "processing", "error"} => preview = None
    /\ job # None /\ job.current /\ job.kind \in Making
         => job.picture = source /\ job.style = style

(* OnlyApprovedIsListed with what it rests on: every picture that can still *)
(* reach the form is an original or was approved, be it with a panel that   *)
(* is gone, with the job of this one, or the source that is restored.       *)
ListedIInv ==
    /\ OnlyApprovedIsListed
    /\ Agreed(source)
    /\ \A l \in late : Agreed(l.picture)
    /\ job # None /\ (job.adopts \/ job.kind = "approve") => Agreed(job.picture)

-----------------------------------------------------------------------------
(* Types                                                                    *)

(* The form and the mounting keep the types.                                *)
LEMMA FormTypes ==
    ASSUME TypeIInv, Mount \/ Unmount \/ TakeFrontAgain \/ LateAdoption
                     \/ LateAdoptionFails \/ AdoptOriginal
    PROVE  TypeIInv'
<1>1. CASE Mount
  <2>1. mounts' \in Nat /\ style' \in Styles
    BY <1>1, StylesAssumption DEF TypeIInv, TypeOK, Mount
  <2>2. /\ phase' \in Phases
        /\ phase' # "approved"
        /\ preview' \in Pictures \cup {None}
        /\ selected' \in Pictures \cup {None}
        /\ output' \in Outputs \cup {None}
    BY <1>1 DEF Mount, Blank, Phases
  <2> QED
    BY <1>1, <2>1, <2>2 DEF TypeIInv, TypeOK, Mount
<1>2. CASE Unmount
  <2>1. Outliving \subseteq Adoptions
    BY DEF TypeIInv, TypeOK, Outliving, Jobs, Adoptions
  <2> QED
    BY <1>2, <2>1 DEF TypeIInv, TypeOK, Unmount, Blank, Phases
<1>3. CASE TakeFrontAgain
  <2>1. item' \in Pictures
    BY <1>3, PictureFacts DEF TypeIInv, TypeOK, TakeFrontAgain
  <2>2. late' \subseteq Adoptions
    BY <1>3 DEF TypeIInv, TypeOK, TakeFrontAgain, Adoptions
  <2> QED
    BY <1>3, <2>1, <2>2 DEF TypeIInv, TypeOK, TakeFrontAgain, panel
<1>4. CASE LateAdoption
  <2>1. PICK l \in late :
           /\ Adopted(l, late \ {l})
           /\ behind' = (behind \/ (open /\ l.aimed))
           /\ dirty' = (dirty \/ (open /\ l.aimed))
           /\ job' = IF l.aimed /\ job # None THEN [job EXCEPT !.aimed = FALSE] ELSE job
    BY <1>4 DEF LateAdoption
  <2>2. l \in Adoptions
    BY <2>1 DEF TypeIInv, TypeOK
  <2>3. item' \in Pictures /\ late' \subseteq Adoptions
    BY <2>1, <2>2, AdoptedTypes DEF TypeIInv, Adoptions
  <2>4. job' \in Jobs \cup {None}
    BY <2>1 DEF TypeIInv, TypeOK, Jobs
  <2>5. behind' \in BOOLEAN /\ dirty' \in BOOLEAN
    BY <2>1
  <2> QED
    BY <1>4, <2>3, <2>4, <2>5 DEF TypeIInv, TypeOK, LateAdoption
<1>5. CASE LateAdoptionFails
  BY <1>5 DEF TypeIInv, TypeOK, LateAdoptionFails, panel
<1>6. CASE AdoptOriginal
  <2>1. job' \in Jobs \cup {None}
    BY <1>6 DEF TypeIInv, TypeOK, AdoptOriginal, Jobs
  <2>2. /\ phase' \in Phases
        /\ preview' \in Pictures \cup {None}
        /\ selected' \in Pictures \cup {None}
        /\ output' \in Outputs \cup {None}
    BY <1>6 DEF TypeIInv, TypeOK, AdoptOriginal, Blank, Phases
  <2> QED
    BY <1>6, <2>1, <2>2 DEF TypeIInv, TypeOK, AdoptOriginal, Blank
<1> QED
  BY <1>1, <1>2, <1>3, <1>4, <1>5, <1>6

(* So do the seller's buttons.                                              *)
LEMMA SellerTypes ==
    ASSUME TypeIInv, SellerActs
    PROVE  TypeIInv'
<1>1. ASSUME NEW local \in BOOLEAN, GeneratePreview(local)
      PROVE  TypeIInv'
  <2>1. job' \in Jobs \cup {None}
    <3>1. (output = "composite") \in BOOLEAN
      OBVIOUS
    <3>2. /\ [Job("restore", source, output = "composite") EXCEPT !.local = local] \in Jobs
          /\ [Job("mask", source, FALSE) EXCEPT !.local = local] \in Jobs
      BY <3>1, JobFacts DEF TypeIInv, TypeOK, Kinds
    <3> QED
      BY <1>1, <3>2 DEF GeneratePreview
  <2>2. /\ phase' \in Phases
        /\ preview' \in Pictures \cup {None}
        /\ selected' \in Pictures \cup {None}
        /\ output' \in Outputs \cup {None}
        /\ dirty' \in BOOLEAN
        /\ fallback' \in BOOLEAN
    BY <1>1 DEF TypeIInv, TypeOK, GeneratePreview, Blank, Phases
  <2> QED
    BY <1>1, <2>1, <2>2 DEF TypeIInv, TypeOK, GeneratePreview, Blank
<1>2. CASE ChangeStyle
  BY <1>2 DEF TypeIInv, TypeOK, ChangeStyle, Blank, Phases
<1>3. CASE SelectOriginal
  <2>1. dirty' \in BOOLEAN
    BY <1>3 DEF SelectOriginal
  <2> QED
    BY <1>3, <2>1 DEF TypeIInv, TypeOK, SelectOriginal, SelectOutput, Phases, Outputs
<1>4. CASE SelectComposite
  BY <1>4 DEF TypeIInv, TypeOK, SelectComposite, SelectOutput, Phases, Outputs
<1>5. CASE Approve
  <2>1. job' \in Jobs \cup {None}
    BY <1>5, JobFacts DEF TypeIInv, TypeOK, Approve, Kinds
  <2> QED
    BY <1>5, <2>1 DEF TypeIInv, TypeOK, Approve
<1>6. CASE RevokeApproval
  <2>1. (output = "composite") \in BOOLEAN /\ "revoke" \in Kinds
    BY DEF Kinds
  <2>2. job' \in Jobs \cup {None}
    BY <1>6, <2>1, JobFacts DEF TypeIInv, TypeOK, RevokeApproval
  <2> QED
    BY <1>6, <2>2 DEF TypeIInv, TypeOK, RevokeApproval
<1>7. CASE SaveApproved
  <2>1. selected \in Pictures
    BY <1>7 DEF TypeIInv, TypeOK, SaveApproved
  <2>2. job' \in Jobs \cup {None}
    BY <1>7, <2>1, JobFacts DEF TypeIInv, TypeOK, SaveApproved, Kinds
  <2> QED
    BY <1>7, <2>2 DEF TypeIInv, TypeOK, SaveApproved
<1> QED
  BY <1>1, <1>2, <1>3, <1>4, <1>5, <1>6, <1>7 DEF SellerActs

(* And so do the ends of what was asked for.                                *)
LEMMA AnswersTypes ==
    ASSUME TypeIInv, Answers
    PROVE  TypeIInv'
<1>1. CASE RestoredThenGenerates
  <2>1. job \in Jobs /\ job.picture \in Pictures /\ late \subseteq late
    BY <1>1 DEF TypeIInv, TypeOK, RestoredThenGenerates, Jobs
  <2>2. item' \in Pictures /\ late' \subseteq Adoptions /\ behind' \in BOOLEAN
    <3>1. CASE job.adopts
      <4>1. Adopted(job, late) /\ behind' = (behind \/ job.aimed)
        BY <1>1, <3>1 DEF RestoredThenGenerates
      <4>2. behind' \in BOOLEAN
        BY <4>1
      <4> QED
        BY <4>1, <4>2, <2>1, AdoptedTypes DEF TypeIInv
    <3>2. CASE ~job.adopts
      BY <1>1, <3>2 DEF TypeIInv, TypeOK, RestoredThenGenerates
    <3> QED
      BY <3>1, <3>2
  <2>3. job' \in Jobs
    BY <1>1, <2>1 DEF RestoredThenGenerates, Jobs, Kinds
  <2> QED
    BY <1>1, <2>2, <2>3 DEF TypeIInv, TypeOK, RestoredThenGenerates, Blank, Phases
<1>2. CASE StageDone
  <2>1. job' \in Jobs \cup {None}
    BY <1>2 DEF TypeIInv, TypeOK, StageDone, NextStage, Jobs, Kinds
  <2> QED
    BY <1>2, <2>1 DEF TypeIInv, TypeOK, StageDone
<1>3. CASE Composed
  <2>1. Composite(job.picture, job.style) \in Pictures
    BY <1>3, PictureFacts DEF TypeIInv, TypeOK, Composed, Jobs
  <2>2. job' = None
    BY <1>3 DEF Composed
  <2>3. /\ phase' \in Phases
        /\ preview' \in Pictures \cup {None}
        /\ selected' \in Pictures \cup {None}
        /\ output' \in Outputs \cup {None}
        /\ dirty' \in BOOLEAN
        /\ phase' = "approved" => selected' # None
    BY <1>3, <2>1 DEF TypeIInv, TypeOK, Composed, PreviewReady, Phases
  <2> QED
    BY <1>3, <2>2, <2>3 DEF TypeIInv, TypeOK, Composed
<1>4. CASE GenerationFails
  <2>1. fallback' \in BOOLEAN
    BY <1>4 DEF TypeIInv, TypeOK, GenerationFails
  <2> QED
    BY <1>4, <2>1 DEF TypeIInv, TypeOK, GenerationFails, Blank, Phases
<1>5. CASE Approved
  <2>1. job \in Jobs /\ job.picture \in Pictures /\ late \subseteq late
    BY <1>5 DEF TypeIInv, TypeOK, Approved, Jobs
  <2>2. item' \in Pictures /\ late' \subseteq Adoptions
    BY <1>5, <2>1, AdoptedTypes DEF TypeIInv, Approved
  <2>3. behind' \in BOOLEAN
    BY <1>5 DEF Approved
  <2> QED
    BY <1>5, <2>2, <2>3 DEF TypeIInv, TypeOK, Approved, CanApprove, Phases
<1>6. CASE RevokeDone
  <2>1. job \in Jobs /\ job.picture \in Pictures /\ late \subseteq late
    BY <1>6 DEF TypeIInv, TypeOK, RevokeDone, Jobs
  <2>2. item' \in Pictures /\ late' \subseteq Adoptions /\ behind' \in BOOLEAN
    <3>1. CASE job.adopts
      <4>1. Adopted(job, late) /\ behind' = (behind \/ job.aimed)
        BY <1>6, <3>1 DEF RevokeDone
      <4>2. behind' \in BOOLEAN
        BY <4>1
      <4> QED
        BY <4>1, <4>2, <2>1, AdoptedTypes DEF TypeIInv
    <3>2. CASE ~job.adopts
      BY <1>6, <3>2 DEF TypeIInv, TypeOK, RevokeDone
    <3> QED
      BY <3>1, <3>2
  <2> QED
    BY <1>6, <2>2 DEF TypeIInv, TypeOK, RevokeDone, Revoked, Phases
<1>7. CASE TransitionFails
  BY <1>7 DEF TypeIInv, TypeOK, TransitionFails
<1>8. CASE Saved
  BY <1>8 DEF TypeIInv, TypeOK, Saved
<1> QED
  BY <1>1, <1>2, <1>3, <1>4, <1>5, <1>6, <1>7, <1>8 DEF Answers

(* Every value stays of its type, whatever the seller clicks and in which   *)
(* order the providers answer (BackgroundEditPanel.tsx).                    *)
THEOREM TypeCorrect == Spec => []TypeIInv
<1>1. Init => TypeIInv
  <2> SUFFICES ASSUME Init PROVE TypeIInv
    OBVIOUS
  <2>1. Shot(1) \in Pictures
    BY PictureFacts
  <2>2. {} \subseteq Adoptions /\ {} \subseteq Pictures /\ 0 \in Nat
    OBVIOUS
  <2> QED
    BY <2>1, <2>2, StylesAssumption DEF Init, TypeIInv, TypeOK, Phases
<1>2. TypeIInv /\ [Next]_vars => TypeIInv'
  <2> SUFFICES ASSUME TypeIInv, [Next]_vars PROVE TypeIInv'
    OBVIOUS
  <2>1. CASE Next
    BY <2>1, FormTypes, SellerTypes, AnswersTypes DEF Next
  <2>2. CASE UNCHANGED vars
    BY <2>2 DEF TypeIInv, TypeOK, vars, panel
  <2> QED
    BY <2>1, <2>2
<1> QED
  BY <1>1, <1>2, PTL DEF Spec

-----------------------------------------------------------------------------
(* The comparison shows what it claims to show                              *)

(* The steps of the form and of the adoptions on their way leave the        *)
(* comparison alone, or take it away.                                       *)
LEMMA PreviewForm ==
    ASSUME TypeIInv, PreviewIInv,
           Mount \/ Unmount \/ TakeFrontAgain \/ LateAdoption
             \/ LateAdoptionFails \/ AdoptOriginal
    PROVE  PreviewIInv'
<1>1. CASE Mount
  BY <1>1 DEF PreviewIInv, PreviewMatchesChoice, Mount, Blank
<1>2. CASE Unmount
  BY <1>2 DEF PreviewIInv, PreviewMatchesChoice, Unmount, Blank
<1>3. CASE TakeFrontAgain \/ LateAdoptionFails
  BY <1>3 DEF PreviewIInv, PreviewMatchesChoice, TakeFrontAgain, LateAdoptionFails, panel
<1>4. CASE LateAdoption
  <2>1. \/ job' = job
        \/ /\ job # None
           /\ job'.kind = job.kind /\ job'.picture = job.picture
           /\ job'.style = job.style /\ job'.current = job.current
    BY <1>4 DEF TypeIInv, TypeOK, LateAdoption, Jobs
  <2> QED
    BY <1>4, <2>1 DEF PreviewIInv, PreviewMatchesChoice, LateAdoption
<1>5. CASE AdoptOriginal
  <2>1. CASE behind /\ ~InTransition /\ phase # "approved"
    <3>1. job' = None \/ ~job'.current
      BY <1>5, <2>1 DEF TypeIInv, TypeOK, AdoptOriginal, Jobs
    <3> QED
      BY <1>5, <2>1, <3>1 DEF PreviewIInv, PreviewMatchesChoice, AdoptOriginal, Blank
  <2>2. CASE ~(behind /\ ~InTransition /\ phase # "approved")
    BY <1>5, <2>2 DEF PreviewIInv, PreviewMatchesChoice, AdoptOriginal
  <2> QED
    BY <2>1, <2>2
<1> QED
  BY <1>1, <1>2, <1>3, <1>4, <1>5

(* A job is started for the picture and the style of the panel, and a new   *)
(* style is chosen only when no job runs and no preview is left.            *)
LEMMA PreviewSeller ==
    ASSUME TypeIInv, PreviewIInv, SellerActs
    PROVE  PreviewIInv'
<1>1. ASSUME NEW local \in BOOLEAN, GeneratePreview(local)
      PROVE  PreviewIInv'
  <2>1. job'.picture = source /\ job'.style = style
    BY <1>1 DEF GeneratePreview, Job
  <2> QED
    BY <1>1, <2>1 DEF PreviewIInv, PreviewMatchesChoice, GeneratePreview, Blank
<1>2. CASE ChangeStyle
  <2>1. phase \in {"idle", "preview", "error"}
    BY <1>2 DEF TypeIInv, TypeOK, Phases, ChangeStyle
  <2>2. job' = None /\ preview' = None
    BY <1>2, <2>1 DEF PreviewIInv, ChangeStyle, Clickable, Blank
  <2> QED
    BY <1>2, <2>2 DEF PreviewIInv, PreviewMatchesChoice, ChangeStyle
<1>3. CASE SelectOriginal \/ SelectComposite
  BY <1>3 DEF PreviewIInv, PreviewMatchesChoice, SelectOriginal, SelectComposite,
              SelectOutput, Clickable
<1>4. CASE Approve \/ RevokeApproval \/ SaveApproved
  <2>1. job'.kind \notin Making
    BY <1>4 DEF Approve, RevokeApproval, SaveApproved, Job, Making
  <2> QED
    BY <1>4, <2>1 DEF PreviewIInv, PreviewMatchesChoice, Approve, RevokeApproval,
                      SaveApproved
<1> QED
  BY <1>1, <1>2, <1>3, <1>4 DEF SellerActs

(* A current job ends with the composite the panel is waiting for.          *)
LEMMA PreviewAnswers ==
    ASSUME TypeIInv, PreviewIInv, Answers
    PROVE  PreviewIInv'
<1>1. CASE RestoredThenGenerates
  <2>1. /\ job # None /\ job.kind \in Making
        /\ job'.picture = job.picture /\ job'.style = job.style /\ job'.current = job.current
    BY <1>1 DEF TypeIInv, TypeOK, RestoredThenGenerates, Jobs, Making
  <2> QED
    BY <1>1, <2>1 DEF PreviewIInv, PreviewMatchesChoice, RestoredThenGenerates, Blank
<1>2. CASE StageDone
  <2>1. \/ job' = None
        \/ /\ job # None /\ job.kind \in Making
           /\ job'.picture = job.picture /\ job'.style = job.style
           /\ job'.current = job.current
    BY <1>2 DEF TypeIInv, TypeOK, StageDone, Jobs, Making, NextStage
  <2> QED
    BY <1>2, <2>1 DEF PreviewIInv, PreviewMatchesChoice, StageDone
<1>3. CASE Composed
  <2>1. IsCurrent => job.picture = source /\ job.style = style
    BY <1>3 DEF PreviewIInv, Composed, IsCurrent, Making
  <2> QED
    BY <1>3, <2>1 DEF PreviewIInv, PreviewMatchesChoice, Composed, PreviewReady
<1>4. CASE GenerationFails
  BY <1>4 DEF PreviewIInv, PreviewMatchesChoice, GenerationFails, Blank
<1>5. CASE Approved
  BY <1>5 DEF PreviewIInv, PreviewMatchesChoice, Approved, CanApprove
<1>6. CASE RevokeDone
  BY <1>6 DEF PreviewIInv, PreviewMatchesChoice, RevokeDone, Revoked
<1>7. CASE TransitionFails \/ Saved
  BY <1>7 DEF PreviewIInv, PreviewMatchesChoice, TransitionFails, Saved
<1> QED
  BY <1>1, <1>2, <1>3, <1>4, <1>5, <1>6, <1>7 DEF Answers

(* The composite that is compared with the original was made of that        *)
(* original and in the style that is ticked, for any number of pictures,    *)
(* styles and mounts (requestIdRef and isCurrent of BackgroundEditPanel).   *)
THEOREM PreviewIsOfTheChoice == Spec => []PreviewMatchesChoice
<1>1. Init => PreviewIInv
  BY DEF Init, PreviewIInv, PreviewMatchesChoice
<1>2. TypeIInv /\ PreviewIInv /\ [Next]_vars => PreviewIInv'
  <2> SUFFICES ASSUME TypeIInv, PreviewIInv, [Next]_vars PROVE PreviewIInv'
    OBVIOUS
  <2>1. CASE Next
    BY <2>1, PreviewForm, PreviewSeller, PreviewAnswers DEF Next
  <2>2. CASE UNCHANGED vars
    BY <2>2 DEF PreviewIInv, PreviewMatchesChoice, vars, panel
  <2> QED
    BY <2>1, <2>2
<1>3. PreviewIInv => PreviewMatchesChoice
  BY DEF PreviewIInv
<1> QED
  BY <1>1, <1>2, <1>3, TypeCorrect, PTL DEF Spec

-----------------------------------------------------------------------------
(* Only what was approved is listed                                         *)

(* An adoption lists its own picture or none.                               *)
LEMMA AdoptedAgreed ==
    ASSUME TypeIInv, ListedIInv, NEW j, NEW others, Adopted(j, others),
           Agreed(j.picture), others \subseteq late
    PROVE  Agreed(item') /\ \A l \in late' : Agreed(l.picture)
<1>1. \A l \in late : Agreed([l EXCEPT !.aimed = FALSE].picture)
  BY DEF TypeIInv, TypeOK, Adoptions, ListedIInv
<1>2. CASE j.aimed
  BY <1>1, <1>2 DEF Adopted
<1>3. CASE ~j.aimed
  BY <1>3 DEF Adopted, ListedIInv, OnlyApprovedIsListed
<1> QED
  BY <1>2, <1>3

(* With nothing newly approved, a step keeps the listing clean when the     *)
(* pictures that can reach the form were there before.                      *)
LEMMA ListedFrame ==
    ASSUME ListedIInv, agreed' = agreed,
           Agreed(item'), Agreed(source'), \A l \in late' : Agreed(l.picture),
           job' # None /\ (job'.adopts \/ job'.kind = "approve") => Agreed(job'.picture)
    PROVE  ListedIInv'
BY DEF ListedIInv, OnlyApprovedIsListed, Agreed

(* The steps of the form keep the listing clean.                            *)
LEMMA ListedForm ==
    ASSUME TypeIInv, ListedIInv,
           Mount \/ Unmount \/ TakeFrontAgain \/ LateAdoption
             \/ LateAdoptionFails \/ AdoptOriginal
    PROVE  ListedIInv'
<1>1. CASE Mount
  BY <1>1, ListedFrame DEF ListedIInv, OnlyApprovedIsListed, Mount
<1>2. CASE Unmount
  <2>1. \A l \in Outliving : Agreed(l.picture)
    BY DEF Outliving, ListedIInv
  <2> QED
    BY <1>2, <2>1, ListedFrame DEF ListedIInv, OnlyApprovedIsListed, Unmount
<1>3. CASE TakeFrontAgain
  <2>1. Agreed(item')
    BY <1>3, PictureFacts DEF TypeIInv, TypeOK, TakeFrontAgain, Agreed
  <2>2. \A l \in late : Agreed([l EXCEPT !.aimed = FALSE].picture)
    BY DEF TypeIInv, TypeOK, Adoptions, ListedIInv
  <2> QED
    BY <1>3, <2>1, <2>2, ListedFrame DEF ListedIInv, TakeFrontAgain, panel
<1>4. CASE LateAdoption
  <2>1. PICK l \in late :
           /\ Adopted(l, late \ {l})
           /\ job' = IF l.aimed /\ job # None THEN [job EXCEPT !.aimed = FALSE] ELSE job
    BY <1>4 DEF LateAdoption
  <2>2. Agreed(item') /\ \A m \in late' : Agreed(m.picture)
    BY <2>1, AdoptedAgreed DEF ListedIInv
  <2>3. \/ job' = job
        \/ /\ job # None /\ job'.kind = job.kind
           /\ job'.adopts = job.adopts /\ job'.picture = job.picture
    BY <2>1 DEF TypeIInv, TypeOK, Jobs
  <2> QED
    BY <1>4, <2>2, <2>3, ListedFrame DEF ListedIInv, LateAdoption
<1>5. CASE LateAdoptionFails
  BY <1>5, ListedFrame DEF ListedIInv, OnlyApprovedIsListed, LateAdoptionFails, panel
<1>6. CASE AdoptOriginal
  <2>1. \/ job' = job
        \/ job' = None
        \/ /\ job # None /\ job'.kind = job.kind
           /\ job'.adopts = job.adopts /\ job'.picture = job.picture
    BY <1>6 DEF TypeIInv, TypeOK, AdoptOriginal, Jobs
  <2>2. Agreed(source')
    BY <1>6 DEF ListedIInv, OnlyApprovedIsListed, AdoptOriginal
  <2> QED
    BY <1>6, <2>1, <2>2, ListedFrame DEF ListedIInv, OnlyApprovedIsListed, AdoptOriginal
<1> QED
  BY <1>1, <1>2, <1>3, <1>4, <1>5, <1>6

(* Of the seller's buttons, one hands over a picture that is not an         *)
(* original, and that is the one that approves it.                          *)
LEMMA ListedSeller ==
    ASSUME TypeIInv, ListedIInv, SellerActs
    PROVE  ListedIInv'
<1>1. ASSUME NEW local \in BOOLEAN, GeneratePreview(local)
      PROVE  ListedIInv'
  <2>1. job'.picture = source
    BY <1>1 DEF GeneratePreview, Job
  <2> QED
    BY <1>1, <2>1, ListedFrame DEF ListedIInv, OnlyApprovedIsListed, GeneratePreview
<1>2. CASE ChangeStyle \/ SelectOriginal \/ SelectComposite
  BY <1>2, ListedFrame DEF ListedIInv, OnlyApprovedIsListed, ChangeStyle, SelectOriginal,
                           SelectComposite
<1>3. CASE Approve
  <2>1. job'.picture = selected /\ selected \in agreed'
    BY <1>3 DEF Approve, Job
  <2>2. agreed \subseteq agreed'
    BY <1>3 DEF Approve
  <2> QED
    BY <1>3, <2>1, <2>2 DEF Approve, ListedIInv, OnlyApprovedIsListed, Agreed
<1>4. CASE RevokeApproval
  <2>1. job'.picture = source
    BY <1>4 DEF RevokeApproval, Job
  <2> QED
    BY <1>4, <2>1, ListedFrame DEF ListedIInv, OnlyApprovedIsListed, RevokeApproval
<1>5. CASE SaveApproved
  <2>1. ~job'.adopts /\ job'.kind = "save"
    BY <1>5 DEF SaveApproved, Job
  <2> QED
    BY <1>5, <2>1, ListedFrame DEF ListedIInv, OnlyApprovedIsListed, SaveApproved
<1> QED
  BY <1>1, <1>2, <1>3, <1>4, <1>5 DEF SellerActs

(* What comes back lists the picture of its job, if anything.               *)
LEMMA ListedAnswers ==
    ASSUME TypeIInv, ListedIInv, Answers
    PROVE  ListedIInv'
<1>1. CASE RestoredThenGenerates \/ RevokeDone
  <2>1. Agreed(item') /\ \A l \in late' : Agreed(l.picture)
    <3>1. CASE job.adopts
      <4>1. Adopted(job, late) /\ job # None
        BY <1>1, <3>1 DEF RestoredThenGenerates, RevokeDone
      <4>2. Agreed(job.picture) /\ late \subseteq late
        BY <3>1, <4>1 DEF ListedIInv
      <4> QED
        BY <4>1, <4>2, AdoptedAgreed
    <3>2. CASE ~job.adopts
      BY <1>1, <3>2 DEF RestoredThenGenerates, RevokeDone, ListedIInv, OnlyApprovedIsListed
    <3> QED
      BY <3>1, <3>2
  <2>2. job' = None \/ (~job'.adopts /\ job'.kind = "mask")
    BY <1>1 DEF TypeIInv, TypeOK, Jobs, RestoredThenGenerates, RevokeDone
  <2> QED
    BY <1>1, <2>1, <2>2, ListedFrame DEF ListedIInv, RestoredThenGenerates, RevokeDone
<1>2. CASE StageDone
  <2>1. \/ job' = None
        \/ /\ job # None /\ job'.kind \in {"background", "compose"}
           /\ job'.adopts = job.adopts /\ job'.picture = job.picture
    BY <1>2 DEF TypeIInv, TypeOK, StageDone, Jobs, NextStage
  <2> QED
    BY <1>2, <2>1, ListedFrame DEF ListedIInv, OnlyApprovedIsListed, StageDone
<1>3. CASE Composed \/ GenerationFails \/ TransitionFails \/ Saved
  BY <1>3, ListedFrame DEF ListedIInv, OnlyApprovedIsListed, Composed, GenerationFails,
                           TransitionFails, Saved
<1>4. CASE Approved
  <2>1. job # None /\ Adopted(job, late)
    BY <1>4 DEF Approved
  <2>2. Agreed(job.picture) /\ late \subseteq late
    BY <1>4, <2>1 DEF Approved, ListedIInv
  <2> QED
    BY <1>4, <2>1, <2>2, AdoptedAgreed, ListedFrame DEF ListedIInv, Approved
<1> QED
  BY <1>1, <1>2, <1>3, <1>4 DEF Answers

(* No generated picture is in the listing unless the seller approved that   *)
(* very picture, whichever panel it was that asked and whatever failed.     *)
THEOREM OnlyApprovedPictures == Spec => []OnlyApprovedIsListed
<1>1. Init => ListedIInv
  BY PictureFacts DEF Init, ListedIInv, OnlyApprovedIsListed, Agreed
<1>2. TypeIInv /\ ListedIInv /\ [Next]_vars => ListedIInv'
  <2> SUFFICES ASSUME TypeIInv, ListedIInv, [Next]_vars PROVE ListedIInv'
    OBVIOUS
  <2>1. CASE Next
    BY <2>1, ListedForm, ListedSeller, ListedAnswers DEF Next
  <2>2. CASE UNCHANGED vars
    BY <2>2, ListedFrame DEF ListedIInv, OnlyApprovedIsListed, vars, panel
  <2> QED
    BY <2>1, <2>2
<1>3. ListedIInv => OnlyApprovedIsListed
  BY DEF ListedIInv
<1> QED
  BY <1>1, <1>2, <1>3, TypeCorrect, PTL DEF Spec

=============================================================================
