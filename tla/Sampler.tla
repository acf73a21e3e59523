---- MODULE Sampler ----
(***************************************************************************)
(* What the frame processor promises of the paid calls it makes: one call  *)
(* at a time, each for a frame that arrived after the one judged before,   *)
(* never more than the session's budget, and none once it is closed.       *)
(***************************************************************************)
EXTENDS Naturals

CONSTANTS Frames, MaxCalls

VARIABLES busy, judged, used, over

Init == busy = FALSE /\ judged = 0 /\ used = 0 /\ over = FALSE

Begin ==
    /\ ~busy /\ ~over /\ used < MaxCalls
    /\ judged' \in Frames /\ judged' > judged
    /\ busy' = TRUE /\ used' = used + 1 /\ UNCHANGED over

End == busy /\ busy' = FALSE /\ UNCHANGED <<judged, used, over>>

Close == over' = TRUE /\ busy' = FALSE /\ UNCHANGED <<judged, used>>

Next == Begin \/ End \/ Close

Spec == Init /\ [][Next]_<<busy, judged, used, over>>
====
