---- MODULE MCLiveGuidance ----
(* A small instance of LiveGuidance for TLC. *)
EXTENDS LiveGuidance

AllEvents == EventKinds
====
