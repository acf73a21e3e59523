----------------------------- MODULE MCAuction -----------------------------
(* Small instances of Auction for TLC.                                     *)
EXTENDS Auction, TLC

CONSTANTS b1, b2

\* The bid the scenario auction_outbid seeds for buyer_01.
OneSeededBid == <<[bidder |-> b1, amount |-> 10]>>
=============================================================================
