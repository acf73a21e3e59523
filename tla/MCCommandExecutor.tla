------------------------- MODULE MCCommandExecutor -------------------------
(* Small instances of CommandExecutor for TLC.                             *)
EXTENDS CommandExecutor, FiniteSets, TLC

CONSTANT Breaker \* the call whose effect may break the state

\* Its effect fails the check unless it comes first.
BreaksLater == {s \in UNION {[1 .. n -> Calls] : n \in 2 .. Cardinality(Calls)} :
                  s[Len(s)] = Breaker}

\* The other calls, keys, inputs and executors are each interchangeable.
Interchangeable == Permutations(Calls \ {Breaker}) \cup Permutations(Keys)
                     \cup Permutations(Inputs) \cup Permutations(Executors)

\* Bound: at most one of the calls names the version it expects, and not the
\* breaker, which is committed and not a preview.
OneExpects ==
  /\ Cardinality({c \in Calls : /\ req[c].kind # "none"
                                /\ req[c].expected # AnyVersion}) <= 1
  /\ req[Breaker].kind # "none" =>
       req[Breaker].expected = AnyVersion /\ req[Breaker].kind # "preview"
=============================================================================
