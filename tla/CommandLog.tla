----------------------------- MODULE CommandLog -----------------------------
(***************************************************************************)
(* What executors that share a store promise about commands, with nothing  *)
(* of how: the state of the sandbox is the sequence of the commands that   *)
(* took effect, one after the other; an idempotency key is settled once,   *)
(* by one request, and a command takes effect only while it settles its    *)
(* key.  Whatever is retried, raced, lost or previewed, nothing else ever  *)
(* changes the state.                                                      *)
(***************************************************************************)
EXTENDS Naturals, Sequences

CONSTANTS Calls, Keys, NoCall

VARIABLES
  log,      \* the commands that took effect, oldest first
  settled   \* settled[k]: the call whose outcome the key k stands for

Init == /\ log = << >>
        /\ settled = [k \in Keys |-> NoCall]

\* The call c settles k by taking effect.
TakeEffect(k, c) == /\ settled[k] = NoCall
                    /\ settled' = [settled EXCEPT ![k] = c]
                    /\ log' = Append(log, c)

\* The call c settles k with a failure or a preview: the state is as it was.
Settle(k, c) == /\ settled[k] = NoCall
                /\ settled' = [settled EXCEPT ![k] = c]
                /\ UNCHANGED log

Next == \E k \in Keys, c \in Calls : TakeEffect(k, c) \/ Settle(k, c)

Spec == Init /\ [][Next]_<<log, settled>>
=============================================================================
