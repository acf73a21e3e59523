--------------------------- MODULE MCMarketplace ---------------------------
(* Small instances of Marketplace for TLC.                                 *)
EXTENDS Marketplace, TLC

\* A listing of two identical units, and a shelf with one more single listing.
PairCatalog == [i \in Items |-> [price |-> 10, shipping |-> 2, stock |-> 2]]
SingleCatalog == [i \in Items |-> [price |-> 10, shipping |-> 2, stock |-> 1]]

TwoOrOne == {[price |-> 10, shipping |-> 2, initial |-> 2, quantity |-> 2, warned |-> FALSE],
             [price |-> 10, shipping |-> 2, initial |-> 1, quantity |-> 1, warned |-> FALSE]}
\* Bound: once the seller has changed the stock the clock stands still, and goods come
\* back by a cancellation that is granted, not by a parcel.
Changed == \E i \in Items : item[i].initial # Catalog[i].stock \/ item[i].cut
ChangedEarly == Changed => /\ now = 0
                           /\ \A i \in Items : item[i].listing # "ARCHIVED"
                           /\ \A o \in Orders : order[o].returnCase = "NONE"
EditPair == {[price |-> 13, shipping |-> 3, initial |-> 1, quantity |-> 1, warned |-> FALSE],
             [price |-> 10, shipping |-> 2, initial |-> 2, quantity |-> 2, warned |-> TRUE]}

\* Listings are as they were listed; money is where it was but for what was paid.
ListedAsBefore == \A i \in Items : /\ item[i].price = Catalog[i].price
                                  /\ item[i].initial = Catalog[i].stock
                                  /\ item[i].moderation = "APPROVED"
                                  /\ item[i].quantity + Cardinality(Out(i)) = Catalog[i].stock
Paid(b) == MapThenSumSet(LAMBDA o : order[o].total,
             {o \in Orders : /\ order[o].buyer = b
                            /\ order[o].settled /\ order[o].txn # "REFUNDED"})
NoMoneyMoved ==
  /\ \A b \in Buyers : wallet[b].available + wallet[b].held + Paid(b) = OpeningBalance
  /\ Money = Cardinality(Buyers) * OpeningBalance

\* Bound: one thing at a time of edited listings, moved money, a delivery fault
\* and a second order, which comes before the second tick.
SecondOrder == Cardinality({o \in Orders : order[o] # Unallocated}) > 1
OneThingAtATime ==
  /\ SecondOrder => now <= 1 /\ "delivery" \notin failures /\ ListedAsBefore /\ NoMoneyMoved
  /\ "delivery" \in failures => ListedAsBefore /\ NoMoneyMoved
  /\ ListedAsBefore \/ NoMoneyMoved

\* Buyers and orders are interchangeable.
Interchangeable == Permutations(Buyers) \cup Permutations(Orders)
=============================================================================
