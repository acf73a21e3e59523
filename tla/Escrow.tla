------------------------------- MODULE Escrow -------------------------------
(***************************************************************************)
(* What the engine promises about the money of an order, with nothing of   *)
(* how a trade is carried out: it is held when the order is made, and from *)
(* there it goes once, to the seller or back to the buyer; after the       *)
(* seller was paid only a return gives it back, and money that was given   *)
(* back never moves again.  One command of the engine may move the money   *)
(* of several orders (every overdue reservation is released together).     *)
(***************************************************************************)
CONSTANT Orders

VARIABLE stage  \* stage[o]: where the money of order o is

Stages == {"NONE", "HELD", "PAID", "RETURNED"}

Moves == {<<"NONE", "HELD">>, <<"HELD", "PAID">>,
          <<"HELD", "RETURNED">>, <<"PAID", "RETURNED">>}

Init == stage = [o \in Orders |-> "NONE"]

Next == /\ stage' \in [Orders -> Stages]
        /\ \A o \in Orders : \/ stage'[o] = stage[o]
                             \/ <<stage[o], stage'[o]>> \in Moves

Spec == Init /\ [][Next]_stage
=============================================================================
