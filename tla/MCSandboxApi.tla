---------------------------- MODULE MCSandboxApi ----------------------------
(* Replays of one action and of two, whose keys other requests use as well. *)
EXTENDS SandboxApi
CONSTANTS k1, k2
ReplayBatches == {<<k1>>, <<k2, k1>>}

(* The replays sent: a scenario to start from where it is used, a batch of two
   that loads a scenario, and an import by itself. *)
Sends(call) ==
    call.kind \in ReplayKinds =>
        /\ call.start = Fixture => call.base = None /\ ~call.fromStored
        /\ call.kind = "reload" => call.batch = <<k2, k1>>
        /\ call.kind = "import" => call.batch = <<k1>>

ReplaysSent == \A r \in Requests : At(r, "idle") \/ Sends(Call(r))
=============================================================================
