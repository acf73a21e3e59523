----------------------- MODULE CommandExecutor_proofs -----------------------
(***************************************************************************)
(* Proofs about CommandExecutor for any number of executors, calls, keys   *)
(* and inputs.  The inductive invariant is                                 *)
(*     IInv == TypeInv /\ WorkInv /\ HistoryInv                            *)
(* where WorkInv says what the state is that a call holds across an await: *)
(* an earlier durable state, or one command on top of one; and HistoryInv  *)
(* what live engines and durable state are to each other and to the calls. *)
(***************************************************************************)
EXTENDS CommandExecutor, TLAPS, SequenceTheorems

\* The stages in which a call holds a command record.
Holding == {"fetch", "refresh", "putPreview", "write", "orphan", "reply"}

StoreOK ==
  /\ stored \in States
  /\ record \in [Keys -> Record \cup {NoRecord}]
  /\ preview \in [Calls -> [status : PreviewStatuses, base : Versions]]

LocalOK ==
  /\ pc \in [Calls -> Stages]
  /\ seen \in [Calls -> PreviewStatuses]
  /\ held \in [Calls -> Record \cup {NoRecord}]
  /\ work \in [Calls -> States]
  /\ reply \in [Calls -> Replies]
  /\ answer \in [Calls -> Answer]
  /\ \A c \in Calls : pc[c] \in Holding => held[c] \in Record

RequestsOK ==
  /\ req \in [Calls -> Request \cup {NoRequest}]
  /\ \A c \in Calls : pc[c] # "idle" => req[c] \in Request
  /\ \A c \in Calls : pc[c] = "readPreview" => req[c].target \in Calls

\* The state w is an earlier durable state with the effect of c on top.
IsOneOnTop(w, before, c) ==
  /\ before <= Len(stored) /\ Len(w) = before + 1 /\ w[before + 1] = c
  /\ \A n \in 1 .. before : w[n] = stored[n]

WorkOK(c) ==
  /\ Writing(c) =>
       /\ held[c].by = c
       /\ IF Mode(c) = "commit" /\ held[c].status = "OK"
          THEN IsOneOnTop(work[c], held[c].before, c) /\ Expects(c, held[c].before)
          ELSE /\ IsPrefixOf(work[c], stored)
               /\ Mode(c) = "commit" => Len(work[c]) = held[c].before
  /\ pc[c] = "putPreview" => held[c].by = c /\ Mode(c) = "preview"
  /\ pc[c] = "refresh" => IsPrefixOf(work[c], stored)
  /\ pc[c] = "reply" /\ reply[c] = "written" => IsPrefixOf(work[c], stored)

WorkInv == \A c \in Calls : WorkOK(c)

HistoryInv ==
  /\ LiveIsCommitted
  /\ ExpectedVersionHonoured
  /\ \A n \in 1 .. Len(stored) : pc[stored[n]] # "idle"

TypeInv == StoreOK /\ LocalOK /\ RequestsOK /\ live \in [Executors -> States]

\* An answer of the right kind leaves the call holding nothing.
LEMMA FinishOK ==
  ASSUME LocalOK, NEW c \in Calls, NEW status \in Errors \cup {"OK"},
         NEW of \in Calls \cup {NoCall}, NEW version \in Versions,
         Finish(c, status, of, version)
  PROVE  LocalOK' /\ pc' = [pc EXCEPT ![c] = "done"]
<1>1. pc' \in [Calls -> Stages] /\ pc' = [pc EXCEPT ![c] = "done"]
  BY DEF LocalOK, Finish, GoTo, Stages
<1>2. answer' \in [Calls -> Answer]
  BY DEF LocalOK, Finish, Answer
<1>3. /\ seen' \in [Calls -> PreviewStatuses] /\ held' \in [Calls -> Record \cup {NoRecord}]
      /\ reply' \in [Calls -> Replies]
  BY DEF LocalOK, Finish, Forget, PreviewStatuses, Replies
<1>4. work' \in [Calls -> States]
  <2>1. << >> \in States
    BY DEF States
  <2> QED BY <2>1 DEF LocalOK, Finish, Forget
<1>5. \A d \in Calls : pc'[d] \in Holding => held'[d] \in Record
  BY DEF LocalOK, Finish, GoTo, Forget, Holding
<1> QED BY <1>1, <1>2, <1>3, <1>4, <1>5 DEF LocalOK

COROLLARY FailOK ==
  ASSUME LocalOK, NEW c \in Calls, NEW status \in Errors, Fail(c, status)
  PROVE  LocalOK' /\ pc' = [pc EXCEPT ![c] = "done"]
BY FinishOK DEF Fail, Versions

COROLLARY GiveResultOK ==
  ASSUME LocalOK, NEW c \in Calls, NEW r \in Record, GiveResult(c, r)
  PROVE  LocalOK' /\ pc' = [pc EXCEPT ![c] = "done"]
<1>1. r.status \in Errors \cup {"OK"} /\ r.by \in Calls \cup {NoCall} /\ r.after \in Versions
  BY DEF Record, Errors
<1> QED BY <1>1, FinishOK DEF GiveResult

\* What the store says leaves the call with a record.
LEMMA StoreSaysOK ==
  ASSUME LocalOK, NEW c \in Calls, Writing(c), NEW said \in Replies, NEW r \in Record,
         StoreSays(c, said, r)
  PROVE  LocalOK' /\ (pc[c] = "orphan" => pc' = [pc EXCEPT ![c] = "done"])
                  /\ (pc[c] # "orphan" => pc' = [pc EXCEPT ![c] = "reply"])
<1>1. << >> \in States
  BY DEF States
<1>2. CASE pc[c] = "orphan"
  BY <1>1, <1>2 DEF LocalOK, StoreSays, GoTo, Forget, Stages, Holding, PreviewStatuses, Replies
<1>3. CASE pc[c] # "orphan"
  BY <1>3 DEF LocalOK, StoreSays, GoTo, Stages, Holding, Replies
<1> QED BY <1>2, <1>3

\* Requests of calls already made never change.
LEMMA RequestsKept ==
  ASSUME RequestsOK, NEW c \in Calls, pc \in [Calls -> Stages], pc[c] # "idle", req' = req,
         NEW stage, stage # "readPreview", pc' = [pc EXCEPT ![c] = stage]
  PROVE  RequestsOK'
BY DEF RequestsOK

\* An import leaves the live engines states.
LEMMA ImportOK ==
  ASSUME live \in [Executors -> States], NEW c \in Calls, NEW state \in States, Import(c, state)
  PROVE  live' \in [Executors -> States]
BY DEF Import

LEMMA TypeStep ==
  ASSUME TypeInv, [Next]_vars
  PROVE  TypeInv'
<1> USE DEF TypeInv
<1>1. ASSUME NEW c \in Calls, Submit(c) PROVE TypeInv'
  <2>1. PICK kind \in Kinds, e \in Executors, k \in Keys, i \in Inputs,
             expected \in Expected, target \in KnownPreviews \cup {NoCall} :
          /\ pc[c] = "idle"
          /\ (kind = "commitPreview") <=> (target # NoCall)
          /\ kind = "commitPreview" => i = req[target].input
          /\ req' = [req EXCEPT ![c] = [kind |-> kind, executor |-> e, key |-> k, input |-> i,
                                        expected |-> expected, target |-> target]]
          /\ \/ /\ kind = "commitPreview"
                /\ GoTo(c, "readPreview")
                /\ UNCHANGED <<seen, held, work, reply, answer>>
             \/ /\ kind # "commitPreview" /\ expected \in {AnyVersion, Len(live[e])}
                /\ GoTo(c, "lookup")
                /\ UNCHANGED <<seen, held, work, reply, answer>>
             \/ /\ kind # "commitPreview" /\ expected \notin {AnyVersion, Len(live[e])}
                /\ Fail(c, "STATE_CONFLICT")
          /\ UNCHANGED <<store, live>>
    BY <1>1 DEF Submit
  <2>2. target \in Calls \cup {NoCall}
    BY DEF KnownPreviews, LocalOK, Answer
  <2>3. req' \in [Calls -> Request \cup {NoRequest}] /\ req'[c] \in Request
    BY <2>1, <2>2 DEF RequestsOK, Request
  <2>4. LocalOK' /\ \E stage : pc' = [pc EXCEPT ![c] = stage]
    <3>1. CASE Fail(c, "STATE_CONFLICT")
      BY <3>1, FailOK DEF Errors
    <3>2. CASE GoTo(c, "readPreview") /\ UNCHANGED <<seen, held, work, reply, answer>>
      BY <3>2 DEF LocalOK, GoTo, Stages, Holding
    <3>3. CASE GoTo(c, "lookup") /\ UNCHANGED <<seen, held, work, reply, answer>>
      BY <3>3 DEF LocalOK, GoTo, Stages, Holding
    <3> QED BY <2>1, <3>1, <3>2, <3>3
  <2>5. \A d \in Calls \ {c} : pc'[d] = pc[d] /\ req'[d] = req[d]
    BY <2>1, <2>4 DEF LocalOK, RequestsOK
  <2>6. pc'[c] = "readPreview" => req'[c].target \in Calls
    <3>1. pc'[c] = "readPreview" => kind = "commitPreview"
      BY <2>1 DEF LocalOK, GoTo, Fail, Finish
    <3>2. req'[c].target = target
      BY <2>1 DEF RequestsOK
    <3> QED BY <2>1, <2>2, <3>1, <3>2
  <2>7. RequestsOK'
    BY <2>3, <2>5, <2>6 DEF RequestsOK
  <2> QED BY <2>1, <2>4, <2>7 DEF StoreOK, store
<1>2. ASSUME NEW c \in Calls, ReadPreview(c) PROVE TypeInv'
  <2>1. CASE Fail(c, "PREVIEW_NOT_FOUND")
    BY <1>2, <2>1, FailOK, RequestsKept DEF ReadPreview, store, StoreOK, Errors, LocalOK
  <2>2. CASE ~Fail(c, "PREVIEW_NOT_FOUND")
    <3> DEFINE status == preview[req[c].target].status
    <3>1. /\ seen' = [seen EXCEPT ![c] = status]
          /\ status # "NONE"
          /\ pc' = [pc EXCEPT ![c] = "findSaved"] /\ pc[c] = "readPreview"
          /\ UNCHANGED <<held, work, reply, answer, store, live, req>>
      BY <1>2, <2>2 DEF ReadPreview, GoTo
    <3>2. req[c] \in Request
      BY <3>1 DEF RequestsOK
    <3>3. status \in PreviewStatuses
      BY <3>1 DEF RequestsOK, StoreOK
    <3>4. RequestsOK'
      BY <3>1, RequestsKept DEF LocalOK
    <3>5. LocalOK'
      BY <3>1, <3>3 DEF LocalOK, Stages, Holding
    <3> QED BY <3>1, <3>4, <3>5 DEF StoreOK, store
  <2> QED BY <2>1, <2>2
<1>3. ASSUME NEW c \in Calls, ReadSaved(c) PROVE TypeInv'
  BY <1>3, RequestsKept DEF ReadSaved, GoTo, Existing, RequestsOK, Request, StoreOK, LocalOK,
                            Stages, Holding, store
<1>4. ASSUME NEW c \in Calls, AnswerSavedCommit(c) PROVE TypeInv'
  BY <1>4, FailOK, GiveResultOK, RequestsKept
     DEF AnswerSavedCommit, StoreOK, LocalOK, Errors, store
<1>5. ASSUME NEW c \in Calls, AcceptPreview(c) PROVE TypeInv'
  <2>1. CASE Fail(c, "PREVIEW_EXPIRED") \/ Fail(c, "STATE_CONFLICT")
    BY <1>5, <2>1, FailOK, RequestsKept DEF AcceptPreview, StoreOK, LocalOK, Errors, store
  <2>2. CASE GoTo(c, "lookup") /\ Forget(c) /\ UNCHANGED answer
    <3>1. << >> \in States
      BY DEF States
    <3>2. LocalOK'
      BY <2>2, <3>1 DEF LocalOK, GoTo, Forget, Stages, Holding, PreviewStatuses, Replies
    <3>3. RequestsOK'
      BY <1>5, <2>2, RequestsKept DEF AcceptPreview, GoTo, LocalOK
    <3> QED BY <1>5, <3>2, <3>3 DEF AcceptPreview, StoreOK, store
  <2> QED BY <1>5, <2>1, <2>2 DEF AcceptPreview
<1>6. ASSUME NEW c \in Calls, ReadRecord(c) PROVE TypeInv'
  BY <1>6, RequestsKept DEF ReadRecord, GoTo, Existing, RequestsOK, Request, StoreOK, LocalOK,
                            Stages, Holding, store
<1>7. ASSUME NEW c \in Calls, UseRecord(c) PROVE TypeInv'
  <2>1. held[c] \in Record /\ pc[c] # "idle"
    BY <1>7 DEF UseRecord, LocalOK
  <2>2. CASE Fail(c, "IDEMPOTENCY_CONFLICT") \/ GiveResult(c, held[c])
    BY <1>7, <2>1, <2>2, FailOK, GiveResultOK, RequestsKept
       DEF UseRecord, StoreOK, LocalOK, Errors, store
  <2>3. CASE GoTo(c, "fetch") /\ UNCHANGED <<seen, held, work, reply, answer>>
    <3>1. LocalOK'
      BY <2>1, <2>3 DEF LocalOK, GoTo, Stages, Holding
    <3>2. RequestsOK'
      BY <1>7, <2>1, <2>3, RequestsKept DEF UseRecord, GoTo, LocalOK
    <3> QED BY <1>7, <3>1, <3>2 DEF UseRecord, StoreOK, store
  <2> QED BY <1>7, <2>2, <2>3 DEF UseRecord
<1>8. ASSUME NEW c \in Calls, Fetch(c) PROVE TypeInv'
  BY <1>8, RequestsKept DEF Fetch, GoTo, StoreOK, LocalOK, Stages, Holding, store
<1>9. ASSUME NEW c \in Calls, Refresh(c) PROVE TypeInv'
  <2>1. held[c] \in Record /\ pc[c] # "idle" /\ work[c] \in States
    BY <1>9 DEF Refresh, LocalOK, Holding
  <2>2. live' \in [Executors -> States]
    BY <1>9, <2>1, ImportOK DEF Refresh
  <2>3. LocalOK' /\ RequestsOK'
    BY <1>9, <2>1, GiveResultOK, RequestsKept DEF Refresh, LocalOK
  <2> QED BY <1>9, <2>2, <2>3 DEF Refresh, StoreOK, store
<1>10. ASSUME NEW c \in Calls, Execute(c) PROVE TypeInv'
  <2>1. pc[c] = "proceed" /\ req[c] \in Request
    BY <1>10 DEF Execute, RequestsOK
  <2>2. Live(c) \in States /\ Version(c) \in Nat /\ Append(Live(c), c) \in States
    BY <2>1 DEF Live, Version, Request, States
  <2>3. PICK status \in Outcomes(c) :
          /\ held' = [held EXCEPT ![c] = CommandRecord(c, status)]
          /\ work' = [work EXCEPT ![c] = IF status = "OK" THEN Append(Live(c), c) ELSE Live(c)]
    BY <1>10 DEF Execute
  <2>4. CommandRecord(c, status) \in Record
    BY <2>2, <2>3 DEF CommandRecord, Record, Outcomes, Versions
  <2>5. LocalOK'
    BY <1>10, <2>2, <2>3, <2>4 DEF Execute, LocalOK, GoTo, Stages, Holding
  <2>6. RequestsOK'
    BY <1>10, <2>1, RequestsKept DEF Execute, GoTo, LocalOK
  <2> QED BY <1>10, <2>5, <2>6 DEF Execute, StoreOK, store
<1>11. ASSUME NEW c \in Calls, DryRun(c) PROVE TypeInv'
  <2>1. pc[c] = "proceed" /\ req[c] \in Request
    BY <1>11 DEF DryRun, RequestsOK
  <2>2. CASE Fail(c, "REFUSED")
    BY <1>11, <2>1, <2>2, FailOK, RequestsKept DEF DryRun, StoreOK, LocalOK, Errors, store
  <2>3. CASE ~Fail(c, "REFUSED")
    <3> DEFINE r == [by |-> c, status |-> "OK", before |-> Version(c), after |-> Version(c)]
    <3>1. Version(c) \in Nat
      BY <2>1 DEF Version, Live, Request, States
    <3>2. r \in Record
      BY <3>1 DEF Record, Versions
    <3>3. /\ held' = [held EXCEPT ![c] = r] /\ pc' = [pc EXCEPT ![c] = "putPreview"]
          /\ UNCHANGED <<seen, work, reply, answer, store, live, req>>
      BY <1>11, <2>3 DEF DryRun, GoTo
    <3>4. LocalOK'
      BY <3>2, <3>3 DEF LocalOK, Stages, Holding
    <3>5. RequestsOK'
      BY <2>1, <3>3, RequestsKept DEF LocalOK
    <3> QED BY <3>3, <3>4, <3>5 DEF StoreOK, store
  <2> QED BY <2>2, <2>3
<1>12. ASSUME NEW c \in Calls, IssuePreview(c) PROVE TypeInv'
  <2>1. pc[c] = "putPreview" /\ req[c] \in Request
    BY <1>12 DEF IssuePreview, RequestsOK
  <2>2. Live(c) \in States
    BY <2>1 DEF Live, Request
  <2>3. LocalOK'
    BY <1>12, <2>2 DEF IssuePreview, LocalOK, GoTo, Stages, Holding
  <2>4. RequestsOK'
    BY <1>12, RequestsKept DEF IssuePreview, GoTo, LocalOK
  <2> QED BY <1>12, <2>3, <2>4 DEF IssuePreview, StoreOK, store
<1>13. ASSUME NEW c \in Calls, StoreFindsRecord(c) PROVE TypeInv'
  <2>1. pc[c] # "idle" /\ req[c] \in Request /\ held[c] \in Record /\ Writing(c)
    BY <1>13 DEF StoreFindsRecord, Writing, LocalOK, RequestsOK, Holding
  <2>2. Existing(c) \in Record
    BY <1>13, <2>1 DEF StoreFindsRecord, Existing, StoreOK, Request
  <2>3. PICK said \in Replies, r \in Record : StoreSays(c, said, r)
    BY <1>13, <2>1, <2>2 DEF StoreFindsRecord, Replies
  <2>4. LocalOK' /\ RequestsOK'
    BY <2>1, <2>3, StoreSaysOK, RequestsKept DEF LocalOK, StoreSays
  <2> QED BY <1>13, <2>3, <2>4 DEF StoreFindsRecord, StoreSays, StoreOK, store
<1>14. ASSUME NEW c \in Calls, StoreRejects(c) PROVE TypeInv'
  <2>1. pc[c] # "idle" /\ held[c] \in Record /\ Writing(c) /\ "conflict" \in Replies
    BY <1>14 DEF StoreRejects, Writing, LocalOK, Holding, Replies
  <2>2. StoreSays(c, "conflict", held[c])
    BY <1>14 DEF StoreRejects
  <2>3. LocalOK' /\ RequestsOK'
    BY <2>1, <2>2, StoreSaysOK, RequestsKept DEF LocalOK, StoreSays
  <2> QED BY <1>14, <2>2, <2>3 DEF StoreRejects, StoreSays, StoreOK, store
<1>15. ASSUME NEW c \in Calls, StoreWrites(c) PROVE TypeInv'
  <2>1. /\ pc[c] # "idle" /\ held[c] \in Record /\ Writing(c) /\ "written" \in Replies
        /\ req[c] \in Request /\ work[c] \in States
    BY <1>15 DEF StoreWrites, Writing, LocalOK, RequestsOK, Holding, Replies
  <2>2. StoreSays(c, "written", held[c])
    BY <1>15 DEF StoreWrites
  <2>3. LocalOK' /\ RequestsOK'
    BY <2>1, <2>2, StoreSaysOK, RequestsKept DEF LocalOK, StoreSays
  <2>4. preview' \in [Calls -> [status : PreviewStatuses, base : Versions]]
    <3>1. CASE req[c].kind = "execute"
      BY <1>15, <3>1 DEF StoreWrites, StoreOK
    <3>2. CASE req[c].kind = "preview"
      <4>1. preview' = [preview EXCEPT ![c] = [status |-> "PENDING", base |-> held[c].before]]
        BY <1>15, <3>2 DEF StoreWrites
      <4>2. [status |-> "PENDING", base |-> held[c].before]
              \in [status : PreviewStatuses, base : Versions]
        BY <2>1 DEF Record, PreviewStatuses
      <4> QED BY <4>1, <4>2 DEF StoreOK
    <3>3. CASE req[c].kind = "commitPreview"
      <4>1. preview' = [preview EXCEPT ![req[c].target].status = "COMMITTED"]
        BY <1>15, <3>3 DEF StoreWrites
      <4> QED BY <4>1 DEF StoreOK, PreviewStatuses
    <3> QED BY <2>1, <3>1, <3>2, <3>3, ConstantsAssumption DEF Request
  <2>5. record' \in [Keys -> Record \cup {NoRecord}] /\ stored' \in States
    BY <1>15, <2>1 DEF StoreWrites, StoreOK
  <2> QED BY <2>2, <2>3, <2>4, <2>5 DEF StoreSays, StoreOK
<1>16. ASSUME NEW c \in Calls, Publish(c) PROVE TypeInv'
  <2>1. pc[c] = "reply" /\ held[c] \in Record /\ work[c] \in States
    BY <1>16 DEF Publish, LocalOK, Holding
  <2>2. live' \in [Executors -> States]
    BY <1>16, <2>1, ImportOK DEF Publish
  <2>3. CASE \/ Fail(c, "IDEMPOTENCY_CONFLICT") \/ Fail(c, "STATE_CONFLICT")
             \/ Fail(c, "INVALID_STATE") \/ GiveResult(c, held[c])
    <3>1. LocalOK' /\ pc' = [pc EXCEPT ![c] = "done"]
      BY <2>1, <2>3, FailOK, GiveResultOK DEF Errors
    <3> QED BY <1>16, <2>1, <2>2, <3>1, RequestsKept DEF Publish, StoreOK, store, LocalOK
  <2>4. CASE GoTo(c, "fetch") /\ UNCHANGED <<seen, held, work, reply, answer>>
    <3>1. LocalOK'
      BY <2>1, <2>4 DEF LocalOK, GoTo, Stages, Holding
    <3>2. RequestsOK'
      BY <1>16, <2>1, <2>4, RequestsKept DEF Publish, GoTo, LocalOK
    <3> QED BY <1>16, <2>2, <3>1, <3>2 DEF Publish, StoreOK, store
  <2> QED BY <1>16, <2>3, <2>4 DEF Publish, AnswerOvertaken
<1>17. ASSUME NEW c \in Calls, StoreFails(c) PROVE TypeInv'
  BY <1>17, FailOK, RequestsKept DEF StoreFails, StoreOK, Errors, LocalOK, store
<1>18. ASSUME NEW e \in Executors, Restart(e) PROVE TypeInv'
  <2> DEFINE InFlight(c) == pc[c] \notin {"idle", "done", "orphan"} /\ req[c].executor = e
             Sent(c) == InFlight(c) /\ pc[c] = "write"
             Keep(c) == ~InFlight(c) \/ Sent(c)
  <2>1. /\ live' = [live EXCEPT ![e] = IF stored \in Flawed THEN << >> ELSE stored]
        /\ pc' = [c \in Calls |-> IF Sent(c) THEN "orphan"
                                  ELSE IF InFlight(c) THEN "done" ELSE pc[c]]
        /\ answer' = [c \in Calls |-> IF InFlight(c) THEN [NoAnswer EXCEPT !.status = "LOST"]
                                                     ELSE answer[c]]
        /\ seen' = [c \in Calls |-> IF Keep(c) THEN seen[c] ELSE "NONE"]
        /\ held' = [c \in Calls |-> IF Keep(c) THEN held[c] ELSE NoRecord]
        /\ work' = [c \in Calls |-> IF Keep(c) THEN work[c] ELSE << >>]
        /\ reply' = [c \in Calls |-> IF Keep(c) THEN reply[c] ELSE "none"]
        /\ UNCHANGED <<store, req>>
    BY <1>18 DEF Restart
  <2>2. live' \in [Executors -> States]
    <3>1. << >> \in States
      BY DEF States
    <3> QED BY <2>1, <3>1 DEF StoreOK
  <2>3. /\ pc' \in [Calls -> Stages]
        /\ \A c \in Calls : /\ pc'[c] # "idle" => pc[c] # "idle"
                           /\ pc'[c] = "readPreview" => pc[c] = "readPreview"
    BY <2>1 DEF LocalOK, Stages
  <2>4. answer' \in [Calls -> Answer]
    <3>1. [NoAnswer EXCEPT !.status = "LOST"] \in Answer
      BY DEF NoAnswer, Answer, Errors, Versions
    <3> QED BY <2>1, <3>1 DEF LocalOK
  <2>5. seen' \in [Calls -> PreviewStatuses] /\ reply' \in [Calls -> Replies]
    BY <2>1 DEF LocalOK, PreviewStatuses, Replies
  <2>6. held' \in [Calls -> Record \cup {NoRecord}]
    BY <2>1 DEF LocalOK
  <2>7. work' \in [Calls -> States]
    <3>1. << >> \in States
      BY DEF States
    <3> QED BY <2>1, <3>1 DEF LocalOK
  <2>8. \A c \in Calls : pc'[c] \in Holding => held'[c] \in Record
    <3>1. \A c \in Calls : pc'[c] \in Holding => Keep(c) /\ pc[c] \in Holding
      BY <2>1 DEF Holding
    <3> QED BY <2>1, <3>1 DEF LocalOK
  <2>9. LocalOK'
    BY <2>3, <2>4, <2>5, <2>6, <2>7, <2>8 DEF LocalOK
  <2>10. RequestsOK'
    BY <2>1, <2>3 DEF RequestsOK
  <2> QED BY <2>1, <2>2, <2>9, <2>10 DEF StoreOK, store
<1>19. CASE UNCHANGED vars
  BY <1>19 DEF vars, StoreOK, LocalOK, RequestsOK
<1> QED
  BY <1>1, <1>2, <1>3, <1>4, <1>5, <1>6, <1>7, <1>8, <1>9, <1>10, <1>11, <1>12, <1>13, <1>14,
     <1>15, <1>16, <1>17, <1>18, <1>19 DEF Next, Step

LEMMA TypeInit == Init => TypeInv
<1> SUFFICES ASSUME Init PROVE TypeInv
  OBVIOUS
<1>1. << >> \in States
  BY DEF States
<1>2. StoreOK
  BY <1>1 DEF Init, StoreOK, PreviewStatuses, Versions
<1>3. NoAnswer \in Answer
  BY DEF NoAnswer, Answer, Versions
<1>4. LocalOK
  BY <1>1, <1>3 DEF Init, LocalOK, Stages, Holding, PreviewStatuses, Replies
<1>5. RequestsOK
  BY DEF Init, RequestsOK
<1> QED BY <1>1, <1>2, <1>4, <1>5 DEF Init, TypeInv

(* Type correctness: whatever calls, failures and restarts interleave,     *)
(* every variable of executors and store holds a value of its kind.        *)
THEOREM TypeCorrect == Spec => []TypeOK
<1>1. TypeInv => TypeOK
  BY DEF TypeInv, TypeOK, StoreOK, LocalOK, RequestsOK
<1>2. Spec => []TypeInv
  BY TypeInit, TypeStep, PTL DEF Spec
<1> QED BY <1>1, <1>2, PTL

-----------------------------------------------------------------------------
(* What a call holds.                                                      *)

\* A step of one call leaves what the others hold alone.
LEMMA OthersKeep ==
  ASSUME TypeInv, NEW c \in Calls, Step(c), NEW d \in Calls, d # c
  PROVE  /\ pc'[d] = pc[d] /\ req'[d] = req[d] /\ held'[d] = held[d]
         /\ work'[d] = work[d] /\ reply'[d] = reply[d] /\ answer'[d] = answer[d]
<1> USE DEF TypeInv, LocalOK, RequestsOK, GoTo, Forget
<1>1. CASE Submit(c)
  BY <1>1 DEF Submit, Fail, Finish
<1>2. CASE ReadPreview(c) \/ ReadSaved(c) \/ AnswerSavedCommit(c) \/ AcceptPreview(c)
  BY <1>2 DEF ReadPreview, ReadSaved, AnswerSavedCommit, AcceptPreview, Fail, Finish, GiveResult
<1>3. CASE ReadRecord(c) \/ UseRecord(c) \/ Fetch(c) \/ Refresh(c)
  BY <1>3 DEF ReadRecord, UseRecord, Fetch, Refresh, Fail, Finish, GiveResult
<1>4. CASE Execute(c) \/ DryRun(c) \/ IssuePreview(c)
  BY <1>4 DEF Execute, DryRun, IssuePreview, Fail, Finish
<1>5. CASE StoreFindsRecord(c) \/ StoreRejects(c) \/ StoreWrites(c)
  BY <1>5 DEF StoreFindsRecord, StoreRejects, StoreWrites, StoreSays
<1>6. CASE Publish(c) \/ StoreFails(c)
  BY <1>6 DEF Publish, StoreFails, AnswerOvertaken, Fail, Finish, GiveResult
<1> QED BY <1>1, <1>2, <1>3, <1>4, <1>5, <1>6 DEF Step

\* A longer history keeps what a call holds what it was.
LEMMA WorkKept ==
  ASSUME TypeInv, TypeInv', IsPrefixOf(stored, stored'), NEW c \in Calls, WorkOK(c),
         pc'[c] = pc[c], req'[c] = req[c], held'[c] = held[c],
         work'[c] = work[c], reply'[c] = reply[c]
  PROVE  WorkOK(c)'
<1>1. /\ Len(stored) \in Nat /\ Len(stored') \in Nat /\ Len(work[c]) \in Nat
      /\ \A n \in 1 .. Len(stored) : stored'[n] = stored[n]
      /\ Len(stored) <= Len(stored')
  <2>1. stored \in Seq(Calls) /\ stored' \in Seq(Calls) /\ work[c] \in Seq(Calls)
    BY DEF TypeInv, StoreOK, LocalOK, States
  <2> QED BY <2>1 DEF IsPrefixOf
<1>2. IsPrefixOf(work[c], stored) => IsPrefixOf(work'[c], stored')
  BY <1>1 DEF IsPrefixOf
<1>3. ASSUME Writing(c), IsOneOnTop(work[c], held[c].before, c)
      PROVE  IsOneOnTop(work[c], held[c].before, c)'
  <2>1. held[c].before \in Nat
    BY <1>3 DEF TypeInv, LocalOK, Writing, Holding, Record, Versions
  <2> QED BY <1>1, <1>3, <2>1 DEF IsOneOnTop
<1>4. Writing(c)' = Writing(c) /\ Mode(c)' = Mode(c)
      /\ Expects(c, held[c].before)' = Expects(c, held[c].before)
  BY DEF Writing, Mode, Expects
<1> QED BY <1>2, <1>3, <1>4 DEF WorkOK

\* A call that holds no state to write or to publish.
LEMMA NothingHeld ==
  ASSUME NEW c \in Calls, pc'[c] \notin {"write", "orphan", "putPreview", "refresh", "reply"}
  PROVE  WorkOK(c)'
BY DEF WorkOK, Writing

(* The compare-and-swap: a write leaves the durable state as it is, or     *)
(* puts the effect of its own call on top.                                 *)
LEMMA WriteAddsOne ==
  ASSUME TypeInv, NEW c \in Calls, WorkOK(c), StoreWrites(c)
  PROVE  /\ held[c].by = c
         /\ IF Mode(c) = "commit" /\ held[c].status = "OK"
            THEN /\ Expects(c, Len(stored)) /\ held[c].before = Len(stored)
                 /\ stored' = Append(stored, c)
            ELSE stored' = stored
<1>1. /\ work[c] \in Seq(Calls) /\ stored \in Seq(Calls) /\ held[c] \in Record
      /\ stored' = work[c] /\ Writing(c) /\ Base(c) = Len(stored)
  BY DEF TypeInv, StoreOK, LocalOK, States, StoreWrites, AtBase, Writing, Holding
<1>2. held[c].by = c
  BY <1>1 DEF WorkOK
<1>3. CASE Mode(c) = "commit" /\ held[c].status = "OK"
  <2>1. Base(c) = held[c].before
    BY <1>3 DEF Base
  <2>2. IsOneOnTop(work[c], Len(stored), c) /\ Expects(c, Len(stored))
    BY <1>1, <1>3, <2>1 DEF WorkOK
  <2>3. work[c] = Append(stored, c)
    <3>1. Len(work[c]) = Len(Append(stored, c)) /\ Append(stored, c) \in Seq(Calls)
      BY <1>1, <2>2 DEF IsOneOnTop
    <3>2. \A n \in 1 .. Len(work[c]) : work[c][n] = Append(stored, c)[n]
      BY <1>1, <2>2 DEF IsOneOnTop
    <3> QED BY <1>1, <3>1, <3>2, SeqEqual
  <2> QED BY <1>1, <1>2, <1>3, <2>1, <2>2, <2>3
<1>4. CASE ~(Mode(c) = "commit" /\ held[c].status = "OK")
  <2>1. IsPrefixOf(work[c], stored) /\ (Mode(c) = "commit" => Len(work[c]) = held[c].before)
    BY <1>1, <1>4 DEF WorkOK
  <2>2. Len(work[c]) = Len(stored)
    BY <1>1, <2>1 DEF Base, Mode
  <2>3. work[c] = stored
    BY <1>1, <2>1, <2>2, SeqEqual DEF IsPrefixOf
  <2> QED BY <1>1, <1>2, <1>4, <2>3
<1> QED BY <1>3, <1>4

\* Nothing else changes the store.
LEMMA OnlyWritesChange ==
  ASSUME [Next]_vars
  PROVE  UNCHANGED store \/ \E c \in Calls : StoreWrites(c)
<1>1. ASSUME NEW c \in Calls, Step(c), ~StoreWrites(c) PROVE UNCHANGED store
  BY <1>1 DEF Step, Submit, ReadPreview, ReadSaved, AnswerSavedCommit, AcceptPreview,
       ReadRecord, UseRecord, Fetch, Refresh, Execute, DryRun, IssuePreview,
       StoreFindsRecord, StoreRejects, Publish, StoreFails
<1>2. ASSUME NEW e \in Executors, Restart(e) PROVE UNCHANGED store
  BY <1>2 DEF Restart
<1>3. UNCHANGED vars => UNCHANGED store
  BY DEF vars, store
<1> QED BY <1>1, <1>2, <1>3 DEF Next

\* The durable state only grows.
LEMMA StoredGrows ==
  ASSUME TypeInv, WorkInv, [Next]_vars
  PROVE  IsPrefixOf(stored, stored')
<1>1. stored \in Seq(Calls) /\ Len(stored) \in Nat
  BY DEF TypeInv, StoreOK, States
<1>2. stored' = stored => IsPrefixOf(stored, stored')
  BY <1>1 DEF IsPrefixOf
<1>3. ASSUME NEW c \in Calls, StoreWrites(c) PROVE IsPrefixOf(stored, stored')
  <2>1. stored' = Append(stored, c) => IsPrefixOf(stored, stored')
    BY <1>1 DEF IsPrefixOf
  <2> QED BY <1>2, <1>3, <2>1, WriteAddsOne DEF WorkInv
<1> QED BY <1>2, <1>3, OnlyWritesChange DEF store

IInv == TypeInv /\ WorkInv /\ HistoryInv

\* What a call takes from the live engine is an earlier durable state.
LEMMA LiveIsPrefix ==
  ASSUME IInv, NEW c \in Calls, pc[c] # "idle"
  PROVE  /\ IsPrefixOf(Live(c), stored) /\ Live(c) \in Seq(Calls)
         /\ stored \in Seq(Calls) /\ Version(c) \in Nat /\ Version(c) = Len(Live(c))
<1>1. req[c].executor \in Executors
  BY DEF IInv, TypeInv, RequestsOK, Request
<1> QED BY <1>1 DEF IInv, HistoryInv, LiveIsCommitted, Live, Version, TypeInv, StoreOK, States

LEMMA WorkStepOfCall ==
  ASSUME IInv, TypeInv', NEW c \in Calls, Step(c)
  PROVE  WorkOK(c)'
<1> USE DEF IInv
<1>1. CASE \/ Submit(c) \/ ReadPreview(c) \/ ReadSaved(c) \/ AnswerSavedCommit(c)
           \/ AcceptPreview(c) \/ ReadRecord(c) \/ UseRecord(c) \/ Refresh(c)
           \/ Publish(c) \/ StoreFails(c)
  <2>1. pc'[c] \in {"readPreview", "findSaved", "accept", "lookup", "proceed", "fetch", "done"}
    BY <1>1 DEF TypeInv, LocalOK, GoTo, Fail, GiveResult, Finish, Submit, ReadPreview, ReadSaved,
         AnswerSavedCommit, AcceptPreview, ReadRecord, UseRecord, Refresh, Publish, StoreFails,
         AnswerOvertaken
  <2> QED BY <2>1, NothingHeld
<1>2. CASE Fetch(c)
  <2>1. pc'[c] = "refresh" /\ work'[c] = stored /\ stored' = stored /\ stored \in Seq(Calls)
    BY <1>2 DEF Fetch, TypeInv, StoreOK, LocalOK, States, GoTo, store
  <2> QED BY <2>1 DEF WorkOK, Writing, IsPrefixOf
<1>3. CASE Execute(c)
  <2>1. /\ IsPrefixOf(Live(c), stored) /\ Live(c) \in Seq(Calls) /\ stored \in Seq(Calls)
        /\ Version(c) \in Nat /\ Version(c) = Len(Live(c))
    BY <1>3, LiveIsPrefix DEF Execute
  <2>2. PICK status \in Outcomes(c) :
          /\ held' = [held EXCEPT ![c] = CommandRecord(c, status)]
          /\ work' = [work EXCEPT ![c] = IF status = "OK" THEN Append(Live(c), c) ELSE Live(c)]
    BY <1>3 DEF Execute
  <2>3. /\ held'[c].by = c /\ held'[c].status = status /\ held'[c].before = Version(c)
        /\ work'[c] = IF status = "OK" THEN Append(Live(c), c) ELSE Live(c)
        /\ pc'[c] = "write" /\ stored' = stored /\ req' = req /\ Mode(c) = "commit"
    BY <1>3, <2>2 DEF Execute, CommandRecord, TypeInv, LocalOK, GoTo, store
  <2>4. CASE status = "OK"
    <3>1. IsOneOnTop(work'[c], Version(c), c)
      BY <2>1, <2>3, <2>4 DEF IsOneOnTop, IsPrefixOf
    <3>2. Expects(c, Version(c))
      BY <2>2, <2>4 DEF Outcomes
    <3> QED BY <2>3, <2>4, <3>1, <3>2 DEF WorkOK, Mode, Expects, IsOneOnTop
  <2>5. CASE status # "OK"
    <3>1. IsPrefixOf(work'[c], stored') /\ Len(work'[c]) = held'[c].before
      BY <2>1, <2>3, <2>5
    <3> QED BY <2>3, <2>5, <3>1 DEF WorkOK
  <2> QED BY <2>4, <2>5
<1>4. CASE DryRun(c)
  <2>1. \/ pc'[c] = "done"
        \/ pc'[c] = "putPreview" /\ held'[c].by = c /\ Mode(c)' = "preview"
    BY <1>4 DEF DryRun, Mode, TypeInv, LocalOK, GoTo, Fail, Finish
  <2> QED BY <2>1 DEF WorkOK, Writing
<1>5. CASE IssuePreview(c)
  <2>1. IsPrefixOf(Live(c), stored)
    BY <1>5, LiveIsPrefix DEF IssuePreview
  <2>2. /\ pc'[c] = "write" /\ work'[c] = Live(c) /\ stored' = stored
        /\ held'[c].by = c /\ Mode(c)' = "preview"
    BY <1>5 DEF IssuePreview, WorkInv, WorkOK, Mode, TypeInv, LocalOK, GoTo, store
  <2> QED BY <2>1, <2>2 DEF WorkOK
<1>6. CASE StoreFindsRecord(c) \/ StoreRejects(c)
  <2>1. \/ pc'[c] = "done"
        \/ pc'[c] = "reply" /\ reply'[c] # "written"
    BY <1>6 DEF StoreFindsRecord, StoreRejects, StoreSays, TypeInv, LocalOK, GoTo
  <2> QED BY <2>1 DEF WorkOK, Writing
<1>7. CASE StoreWrites(c)
  <2>1. \/ pc'[c] = "done"
        \/ pc'[c] = "reply" /\ work'[c] = stored' /\ stored' \in Seq(Calls)
    BY <1>7 DEF StoreWrites, StoreSays, TypeInv, StoreOK, LocalOK, States, GoTo
  <2> QED BY <2>1 DEF WorkOK, Writing, IsPrefixOf
<1> QED BY <1>1, <1>2, <1>3, <1>4, <1>5, <1>6, <1>7 DEF Step

LEMMA WorkStep ==
  ASSUME IInv, [Next]_vars
  PROVE  WorkInv'
<1> USE DEF IInv
<1>1. TypeInv' /\ IsPrefixOf(stored, stored')
  BY TypeStep, StoredGrows
<1>2. ASSUME NEW c \in Calls, Step(c), NEW d \in Calls PROVE WorkOK(d)'
  <2>1. CASE d = c
    BY <1>1, <1>2, <2>1, WorkStepOfCall
  <2>2. CASE d # c
    BY <1>1, <1>2, <2>2, OthersKeep, WorkKept DEF WorkInv
  <2> QED BY <2>1, <2>2
<1>3. ASSUME NEW e \in Executors, Restart(e), NEW d \in Calls PROVE WorkOK(d)'
  <2>1. stored' = stored /\ req' = req
    BY <1>3 DEF Restart, store
  <2>2. \/ pc'[d] = "done"
        \/ /\ pc'[d] = pc[d] \/ (pc[d] = "write" /\ pc'[d] = "orphan")
           /\ held'[d] = held[d] /\ work'[d] = work[d] /\ reply'[d] = reply[d]
    BY <1>3 DEF Restart, TypeInv, LocalOK
  <2>3. CASE pc'[d] = "done"
    BY <2>3, NothingHeld
  <2>4. CASE pc'[d] = pc[d] /\ held'[d] = held[d] /\ work'[d] = work[d] /\ reply'[d] = reply[d]
    BY <1>1, <2>1, <2>4, WorkKept DEF WorkInv
  <2>5. CASE /\ pc[d] = "write" /\ pc'[d] = "orphan"
             /\ held'[d] = held[d] /\ work'[d] = work[d] /\ reply'[d] = reply[d]
    BY <2>1, <2>5 DEF WorkInv, WorkOK, Writing, Mode, Expects, IsOneOnTop
  <2> QED BY <2>2, <2>3, <2>4, <2>5
<1>4. ASSUME UNCHANGED vars, NEW d \in Calls PROVE WorkOK(d)'
  BY <1>1, <1>4, WorkKept DEF vars, WorkInv
<1> QED BY <1>2, <1>3, <1>4 DEF Next, WorkInv

-----------------------------------------------------------------------------
(* What live engines and durable state are to each other.                  *)

\* A call that was made stays made, and asks for what it asked.
LEMMA MadeStaysMade ==
  ASSUME TypeInv, [Next]_vars
  PROVE  \A d \in Calls : pc[d] # "idle" => pc'[d] # "idle" /\ req'[d] = req[d]
<1>1. ASSUME NEW c \in Calls, Step(c), NEW d \in Calls, pc[d] # "idle"
      PROVE  pc'[d] # "idle" /\ req'[d] = req[d]
  <2>1. CASE d = c
    <3>1. pc[c] # "idle" => req' = req /\ ~Submit(c)
      BY <1>1 DEF Step, Submit, ReadPreview, ReadSaved, AnswerSavedCommit, AcceptPreview,
           ReadRecord, UseRecord, Fetch, Refresh, Execute, DryRun, IssuePreview,
           StoreFindsRecord, StoreRejects, StoreWrites, StoreSays, Publish, StoreFails
    <3>2. pc'[c] # "idle"
      BY <1>1, <2>1, <3>1 DEF TypeInv, LocalOK, GoTo, Fail, GiveResult, Finish, Step,
           ReadPreview, ReadSaved, AnswerSavedCommit, AcceptPreview, ReadRecord, UseRecord,
           Fetch, Refresh, Execute, DryRun, IssuePreview, StoreFindsRecord, StoreRejects,
           StoreWrites, StoreSays, Publish, AnswerOvertaken, StoreFails
    <3> QED BY <1>1, <2>1, <3>1, <3>2
  <2>2. CASE d # c
    BY <1>1, <2>2, OthersKeep
  <2> QED BY <2>1, <2>2
<1>2. ASSUME NEW e \in Executors, Restart(e), NEW d \in Calls, pc[d] # "idle"
      PROVE  pc'[d] # "idle" /\ req'[d] = req[d]
  BY <1>2 DEF Restart
<1> QED BY <1>1, <1>2 DEF Next, vars

LEMMA HistoryStep ==
  ASSUME IInv, [Next]_vars
  PROVE  HistoryInv'
<1> USE DEF IInv
<1>1. TypeInv' /\ WorkInv' /\ IsPrefixOf(stored, stored')
  BY TypeStep, WorkStep, StoredGrows
<1>2. /\ stored \in Seq(Calls) /\ stored' \in Seq(Calls)
      /\ live \in [Executors -> Seq(Calls)] /\ live' \in [Executors -> Seq(Calls)]
      /\ Len(stored) \in Nat /\ Len(stored') \in Nat /\ Len(stored) <= Len(stored')
      /\ \A n \in 1 .. Len(stored) : stored'[n] = stored[n]
  <2>1. /\ stored \in Seq(Calls) /\ stored' \in Seq(Calls)
        /\ live \in [Executors -> Seq(Calls)] /\ live' \in [Executors -> Seq(Calls)]
    BY <1>1 DEF TypeInv, StoreOK, States
  <2> QED BY <1>1, <2>1 DEF IsPrefixOf
<1>3. LiveIsCommitted'
  <2>1. ASSUME NEW s \in Seq(Calls), IsPrefixOf(s, stored) PROVE IsPrefixOf(s, stored')
    BY <1>2, <2>1 DEF IsPrefixOf
  <2>2. \A e \in Executors : live'[e] = live[e] => IsPrefixOf(live'[e], stored')
    BY <1>2, <2>1 DEF HistoryInv, LiveIsCommitted
  <2>3. ASSUME NEW c \in Calls, Refresh(c) \/ Publish(c), ~UNCHANGED live
        PROVE  Import(c, work[c]) /\ IsPrefixOf(work[c], stored) /\ work[c] \in Seq(Calls)
    BY <2>3 DEF Refresh, Publish, Publishes, WorkInv, WorkOK, TypeInv, LocalOK, States
  <2>4. ASSUME NEW c \in Calls, Refresh(c) \/ Publish(c) PROVE LiveIsCommitted'
    <3>1. CASE UNCHANGED live
      BY <2>2, <3>1 DEF LiveIsCommitted
    <3>2. CASE ~UNCHANGED live
      <4>1. \A e \in Executors : live'[e] = live[e] \/ live'[e] = work[c]
        BY <1>2, <2>3, <2>4, <3>2 DEF Import
      <4> QED BY <2>1, <2>2, <2>3, <2>4, <3>2, <4>1 DEF LiveIsCommitted
    <3> QED BY <3>1, <3>2
  <2>5. ASSUME NEW c \in Calls, Step(c), ~(Refresh(c) \/ Publish(c)) PROVE live' = live
    BY <2>5 DEF Step, Submit, ReadPreview, ReadSaved, AnswerSavedCommit, AcceptPreview,
         ReadRecord, UseRecord, Fetch, Execute, DryRun, IssuePreview,
         StoreFindsRecord, StoreRejects, StoreWrites, StoreSays, StoreFails
  <2>6. ASSUME NEW e \in Executors, Restart(e) PROVE LiveIsCommitted'
    <3>1. /\ stored' = stored
          /\ live' = [live EXCEPT ![e] = IF stored \in Flawed THEN << >> ELSE stored]
      BY <2>6 DEF Restart, store
    <3>2. \A f \in Executors : live'[f] \in {live[f], stored, << >>}
      BY <1>2, <3>1
    <3>3. IsPrefixOf(<< >>, stored')
      BY <1>2 DEF IsPrefixOf
    <3> QED BY <1>1, <2>2, <3>1, <3>2, <3>3 DEF LiveIsCommitted
  <2> QED BY <2>2, <2>4, <2>5, <2>6 DEF Next, vars, LiveIsCommitted
<1>4. \A d \in Calls : pc[d] # "idle" => pc'[d] # "idle" /\ req'[d] = req[d]
  BY MadeStaysMade
<1>5. \/ stored' = stored
      \/ \E c \in Calls : /\ stored' = Append(stored, c)
                          /\ pc[c] # "idle" /\ Expects(c, Len(stored))
  <2>1. ASSUME NEW c \in Calls, StoreWrites(c)
        PROVE  \/ stored' = stored
               \/ /\ stored' = Append(stored, c)
                  /\ pc[c] # "idle" /\ Expects(c, Len(stored))
    BY <2>1, WriteAddsOne DEF WorkInv, StoreWrites, Writing
  <2> QED BY <2>1, OnlyWritesChange DEF store
<1>6. \A n \in 1 .. Len(stored) : /\ stored[n] \in Calls /\ stored'[n] = stored[n]
                                  /\ pc[stored[n]] # "idle" /\ Expects(stored[n], n - 1)
  BY <1>2 DEF HistoryInv, ExpectedVersionHonoured
<1>7. ASSUME NEW n \in 1 .. Len(stored')
      PROVE  pc'[stored'[n]] # "idle" /\ Expects(stored[n], n - 1)'
  <2>1. CASE n \in 1 .. Len(stored)
    BY <1>4, <1>6, <2>1 DEF Expects
  <2>2. CASE n \notin 1 .. Len(stored)
    <3>1. PICK c \in Calls : /\ stored' = Append(stored, c)
                             /\ pc[c] # "idle" /\ Expects(c, Len(stored))
      BY <1>5, <1>7, <2>2
    <3>2. stored'[n] = c /\ n - 1 = Len(stored)
      BY <1>2, <1>7, <2>2, <3>1
    <3> QED BY <1>4, <3>1, <3>2 DEF Expects
  <2> QED BY <2>1, <2>2
<1> QED BY <1>3, <1>7 DEF HistoryInv, ExpectedVersionHonoured

LEMMA StartsRight == Init => IInv
<1> SUFFICES ASSUME Init PROVE IInv
  OBVIOUS
<1>1. TypeInv
  BY TypeInit
<1>2. WorkInv
  BY DEF Init, WorkInv, WorkOK, Writing
<1>3. HistoryInv
  BY DEF Init, HistoryInv, LiveIsCommitted, ExpectedVersionHonoured, IsPrefixOf
<1> QED BY <1>1, <1>2, <1>3 DEF IInv

LEMMA Invariant == Spec => []IInv
<1>1. IInv /\ [Next]_vars => IInv'
  BY TypeStep, WorkStep, HistoryStep DEF IInv
<1> QED BY <1>1, StartsRight, PTL DEF Spec

(* Every live engine is at an earlier state of the durable history: no     *)
(* reader ever sees the effect of a command whose commit lost.             *)
THEOREM LiveEnginesCommitted == Spec => []LiveIsCommitted
<1>1. IInv => LiveIsCommitted
  BY DEF IInv, HistoryInv
<1> QED BY <1>1, Invariant, PTL

(* The version is compared when a call is validated, by the bus awaits     *)
(* later, and by the store: whatever happened in between, a command takes  *)
(* effect on the version its caller named.                                 *)
THEOREM VersionsHonoured == Spec => []ExpectedVersionHonoured
<1>1. IInv => ExpectedVersionHonoured
  BY DEF IInv, HistoryInv
<1> QED BY <1>1, Invariant, PTL

(* No step takes a live engine back: imports of late answers are refused,  *)
(* and a reload finds a durable state at least as new, unless that state   *)
(* fails the check and the reload goes on with the seeded scenario.        *)
THEOREM LiveOnlyMovesOn == Spec => LiveNeverGoesBack
<1> DEFINE Falls(e) == stored \in Flawed /\ Restart(e)
           MovesOn(e) == Len(live[e]) <= Len(live'[e]) \/ Falls(e)
<1>1. ASSUME IInv, [Next]_vars PROVE \A e \in Executors : MovesOn(e)
  <2>1. /\ live \in [Executors -> Seq(Calls)]
        /\ \A e \in Executors : Len(live[e]) \in Nat
    BY <1>1 DEF IInv, TypeInv, States
  <2>2. live' = live => \A e \in Executors : Len(live[e]) <= Len(live'[e])
    BY <2>1
  <2>3. ASSUME NEW c \in Calls, Import(c, work[c])
        PROVE  \A e \in Executors : Len(live[e]) <= Len(live'[e])
    <3>1. work[c] \in Seq(Calls)
      BY <1>1 DEF IInv, TypeInv, LocalOK, States
    <3>2. Len(work[c]) \in Nat
      BY <3>1
    <3>3. \A e \in Executors : \/ live'[e] = live[e]
                               \/ live'[e] = work[c] /\ ~(Len(work[c]) < Len(live[e]))
      BY <2>1, <2>3 DEF Import, Refused, Version, Live
    <3> QED BY <2>1, <3>2, <3>3
  <2>4. ASSUME NEW c \in Calls, Step(c)
        PROVE  live' = live \/ Import(c, work[c])
    BY <2>4 DEF Step, Submit, ReadPreview, ReadSaved, AnswerSavedCommit, AcceptPreview,
         ReadRecord, UseRecord, Fetch, Refresh, Execute, DryRun, IssuePreview,
         StoreFindsRecord, StoreRejects, StoreWrites, StoreSays, Publish, StoreFails
  <2>5. ASSUME NEW f \in Executors, Restart(f)
        PROVE  \A e \in Executors : MovesOn(e)
    <3>1. live' = [live EXCEPT ![f] = IF stored \in Flawed THEN << >> ELSE stored]
      BY <2>5 DEF Restart
    <3>2. Len(live[f]) <= Len(stored)
      BY <1>1 DEF IInv, HistoryInv, LiveIsCommitted, IsPrefixOf
    <3>3. \A e \in Executors : e # f => live'[e] = live[e]
      BY <2>1, <3>1
    <3>4. stored \notin Flawed => live'[f] = stored
      BY <2>1, <3>1
    <3>5. MovesOn(f)
      BY <2>5, <3>2, <3>4
    <3> QED BY <2>1, <3>3, <3>5
  <2> QED BY <1>1, <2>2, <2>3, <2>4, <2>5 DEF Next, vars
<1>2. IInv /\ [Next]_vars => [\A e \in Executors : MovesOn(e)]_vars
  BY <1>1
<1> QED BY <1>2, Invariant, PTL DEF Spec, LiveNeverGoesBack

-----------------------------------------------------------------------------
(* States that fail the check.                                             *)

\* No live engine is at one, and a command that is to be written was run on none.
LiveSound == \A e \in Executors : live[e] \notin Flawed
RunOnSound(c) ==
  /\ Writing(c) /\ Mode(c) = "commit" /\ held[c].status = "OK"
  /\ held[c].before = Len(stored)
  => stored \notin Flawed
SoundInv == LiveSound /\ \A c \in Calls : RunOnSound(c)

LEMMA LiveSoundStep ==
  ASSUME TypeInv, LiveSound, [Next]_vars
  PROVE  LiveSound'
<1>1. live \in [Executors -> States] /\ << >> \notin Flawed
  BY ConstantsAssumption DEF TypeInv
<1>2. ASSUME NEW c \in Calls, Import(c, work[c]) PROVE LiveSound'
  BY <1>1, <1>2 DEF Import, Refused, LiveSound
<1>3. ASSUME NEW c \in Calls, Step(c) PROVE live' = live \/ Import(c, work[c])
  BY <1>3 DEF Step, Submit, ReadPreview, ReadSaved, AnswerSavedCommit, AcceptPreview,
       ReadRecord, UseRecord, Fetch, Refresh, Execute, DryRun, IssuePreview,
       StoreFindsRecord, StoreRejects, StoreWrites, StoreSays, Publish, StoreFails
<1>4. ASSUME NEW e \in Executors, Restart(e) PROVE LiveSound'
  BY <1>1, <1>4 DEF Restart, LiveSound
<1> QED BY <1>2, <1>3, <1>4 DEF Next, vars, LiveSound

LEMMA SoundStep ==
  ASSUME IInv, SoundInv, [Next]_vars
  PROVE  SoundInv'
<1>1. LiveSound'
  BY LiveSoundStep DEF IInv, SoundInv
<1>2. /\ TypeInv /\ WorkInv /\ TypeInv' /\ Len(stored) \in Nat /\ stored \in Seq(Calls)
      /\ \A c \in Calls : RunOnSound(c)
  BY TypeStep DEF IInv, SoundInv, TypeInv, StoreOK, States
<1>3. stored' = stored \/ Len(stored') = Len(stored) + 1
  <2>1. ASSUME NEW c \in Calls, StoreWrites(c)
        PROVE  stored' = stored \/ Len(stored') = Len(stored) + 1
    BY <1>2, <2>1, WriteAddsOne DEF WorkInv
  <2> QED BY <2>1, OnlyWritesChange DEF store
<1>4. ASSUME NEW c \in Calls, Writing(c), Writing(c)', held'[c] = held[c], req'[c] = req[c]
      PROVE  RunOnSound(c)'
  <2>1. CASE stored' = stored
    BY <1>2, <1>4, <2>1 DEF RunOnSound, Mode
  <2>2. CASE Len(stored') = Len(stored) + 1
    <3>1. ASSUME Mode(c) = "commit", held[c].status = "OK" PROVE held[c].before <= Len(stored)
      BY <1>2, <1>4, <3>1 DEF WorkInv, WorkOK, IsOneOnTop
    <3> QED BY <1>2, <1>4, <2>2, <3>1 DEF RunOnSound, Mode, TypeInv, LocalOK, Record, Versions
  <2> QED BY <1>3, <2>1, <2>2
<1>5. ASSUME NEW c \in Calls, Execute(c) PROVE RunOnSound(c)'
  <2>1. /\ IsPrefixOf(Live(c), stored) /\ Live(c) \in Seq(Calls)
        /\ stored \in Seq(Calls) /\ Version(c) \in Nat /\ Version(c) = Len(Live(c))
    BY <1>5, LiveIsPrefix DEF Execute
  <2>2. held'[c].before = Version(c) /\ stored' = stored
    BY <1>2, <1>5 DEF Execute, CommandRecord, store, TypeInv, LocalOK
  <2>3. Live(c) \notin Flawed
    <3>1. req[c].executor \in Executors
      BY <1>5 DEF Execute, IInv, TypeInv, RequestsOK, Request
    <3> QED BY <3>1 DEF SoundInv, LiveSound, Live
  <2>4. Len(Live(c)) = Len(stored) => Live(c) = stored
    BY <2>1, SeqEqual DEF IsPrefixOf
  <2> QED BY <2>1, <2>2, <2>3, <2>4 DEF RunOnSound
<1>6. ASSUME NEW c \in Calls, Step(c), ~Execute(c), Writing(c)', ~Writing(c)
      PROVE  Mode(c)' = "preview"
  <2>1. IssuePreview(c)
    BY <1>2, <1>6 DEF Step, Submit, ReadPreview, ReadSaved, AnswerSavedCommit, AcceptPreview,
         ReadRecord, UseRecord, Fetch, Refresh, DryRun, StoreFindsRecord, StoreRejects,
         StoreWrites, StoreSays, Publish, StoreFails, GoTo, Fail, Finish, GiveResult,
         AnswerOvertaken, Writing, TypeInv, LocalOK
  <2> QED BY <1>2, <2>1 DEF IssuePreview, WorkInv, WorkOK, Mode
<1>7. ASSUME NEW c \in Calls, Step(c), Writing(c)', Writing(c) PROVE FALSE
  BY <1>2, <1>7 DEF Step, Submit, ReadPreview, ReadSaved, AnswerSavedCommit, AcceptPreview,
       ReadRecord, UseRecord, Fetch, Refresh, Execute, DryRun, IssuePreview, StoreFindsRecord,
       StoreRejects, StoreWrites, StoreSays, Publish, StoreFails, GoTo, Fail, Finish,
       Writing, TypeInv, LocalOK
<1>8. ASSUME NEW c \in Calls, Step(c), NEW d \in Calls PROVE RunOnSound(d)'
  <2>1. CASE d = c
    BY <1>5, <1>6, <1>7, <1>8, <2>1 DEF RunOnSound
  <2>2. CASE d # c
    <3>1. pc'[d] = pc[d] /\ held'[d] = held[d] /\ req'[d] = req[d]
      BY <1>2, <1>8, <2>2, OthersKeep
    <3>2. Writing(d)' => Writing(d)
      BY <3>1 DEF Writing
    <3> QED BY <1>4, <3>1, <3>2 DEF RunOnSound
  <2> QED BY <2>1, <2>2
<1>9. ASSUME NEW e \in Executors, Restart(e), NEW d \in Calls PROVE RunOnSound(d)'
  <2>1. Writing(d)' => Writing(d) /\ held'[d] = held[d] /\ req'[d] = req[d]
    BY <1>2, <1>9 DEF Restart, Writing, TypeInv, LocalOK
  <2> QED BY <1>4, <2>1 DEF RunOnSound
<1>10. ASSUME UNCHANGED vars, NEW d \in Calls PROVE RunOnSound(d)'
  <2>1. Writing(d)' => Writing(d) /\ held'[d] = held[d] /\ req'[d] = req[d]
    BY <1>10 DEF vars, Writing
  <2> QED BY <1>4, <2>1 DEF RunOnSound
<1> QED BY <1>1, <1>8, <1>9, <1>10 DEF Next, SoundInv

LEMMA Soundness == Spec => [](IInv /\ SoundInv)
<1>1. Init => SoundInv
  BY ConstantsAssumption DEF Init, SoundInv, LiveSound, RunOnSound, Writing
<1>2. IInv /\ SoundInv /\ [Next]_vars => (IInv /\ SoundInv)'
  BY SoundStep, TypeStep, WorkStep, HistoryStep DEF IInv
<1> QED BY <1>1, <1>2, StartsRight, PTL DEF Spec

(* No live engine is ever at a state that fails the check, whatever was    *)
(* committed: the copies of it that cloneEngine imports never fail.        *)
THEOREM LiveNeverFlawed == Spec => []LiveSound
<1>1. SoundInv => LiveSound
  BY DEF SoundInv
<1> QED BY <1>1, Soundness, PTL

FlawStays == stored \in Flawed => stored' = stored

(* A command whose effect fails the check is the last one: the state is    *)
(* durable, no engine can import it, and so none can commit on top of it.  *)
THEOREM FlawIsFinal == Spec => [][FlawStays]_vars
<1>1. ASSUME IInv, SoundInv, [Next]_vars, stored \in Flawed PROVE stored' = stored
  <2>1. ASSUME NEW c \in Calls, StoreWrites(c) PROVE stored' = stored
    <3>1. Writing(c) /\ WorkOK(c) /\ RunOnSound(c) /\ TypeInv
      BY <1>1, <2>1 DEF StoreWrites, IInv, WorkInv, SoundInv
    <3> QED BY <1>1, <2>1, <3>1, WriteAddsOne DEF RunOnSound
  <2> QED BY <1>1, <2>1, OnlyWritesChange DEF store
<1>2. IInv /\ SoundInv /\ [Next]_vars => [FlawStays]_vars
  BY <1>1 DEF FlawStays
<1> QED BY <1>2, Soundness, PTL DEF Spec

-----------------------------------------------------------------------------

(* Executors and store implement one log of commands, each settling its    *)
(* key once: no update is lost and no retry takes effect again.            *)
THEOREM ExecutorsImplementLog == Spec => ImplementsLog
<1> DEFINE settled == [k \in Keys |-> IF record[k] = NoRecord THEN NoCall ELSE record[k].by]
<1>1. Init => Log!Init
  BY DEF Init, Log!Init
<1>2. ASSUME IInv, [Next]_vars PROVE [Log!Next]_<<stored, settled>>
  <2>1. ASSUME NEW c \in Calls, StoreWrites(c) PROVE Log!Next
    <3>1. held[c].by = c /\ (stored' = stored \/ stored' = Append(stored, c))
      BY <1>2, <2>1, WriteAddsOne DEF IInv, WorkInv
    <3> DEFINE k == req[c].key
    <3>2. /\ k \in Keys /\ held[c] \in Record /\ record[k] = NoRecord
          /\ record' = [record EXCEPT ![k] = held[c]]
          /\ record \in [Keys -> Record \cup {NoRecord}]
      BY <1>2, <2>1 DEF IInv, TypeInv, StoreOK, LocalOK, RequestsOK, StoreWrites, Writing,
                        Existing, Holding, Request
    <3>3. settled[k] = NoCall /\ settled' = [settled EXCEPT ![k] = c]
      BY <3>1, <3>2, NoRecordAssumption
    <3>4. Log!TakeEffect(k, c) \/ Log!Settle(k, c)
      BY <3>1, <3>3 DEF Log!TakeEffect, Log!Settle
    <3> QED BY <3>2, <3>4 DEF Log!Next
  <2>2. UNCHANGED store => UNCHANGED <<stored, settled>>
    BY DEF store
  <2> QED BY <1>2, <2>1, <2>2, OnlyWritesChange
<1> QED BY <1>1, <1>2, Invariant, PTL DEF Spec, ImplementsLog, Log!Spec

-----------------------------------------------------------------------------
(***************************************************************************)
(* What callers of CommandExecutor are told, and what becomes of previews. *)
(* The books of the system are the command records.  BookInv relates them  *)
(* to the durable history (a record of a success names the effect, every   *)
(* effect is recorded) and to the calls: one that has not written is in no *)
(* record, one that answers from a record holds the record of its key, and *)
(* what was answered agrees with the books for ever.                       *)
(***************************************************************************)

\* The result of a commit that succeeded.
Success(r) == Mode(r.by) = "commit" /\ r.status = "OK"

RecordOK(k) ==
  record[k] # NoRecord =>
    /\ req[record[k].by].key = k /\ pc[record[k].by] # "idle"
    /\ Success(record[k]) => /\ record[k].after \in 1 .. Len(stored)
                             /\ stored[record[k].after] = record[k].by

EffectOK(n) ==
  /\ Existing(stored[n]) # NoRecord
  /\ Existing(stored[n]).by = stored[n] /\ Success(Existing(stored[n]))

Unwritten(c) == \A k \in Keys : record[k] # NoRecord => record[k].by # c

AnswerOK(c) ==
  Mode(c) = "commit" =>
    /\ answer[c].status = "OK" =>
         /\ Existing(c) # NoRecord /\ Existing(c).by = answer[c].of
         /\ answer[c].version \in 1 .. Len(stored) /\ stored[answer[c].version] = answer[c].of
    /\ answer[c].status = "INVALID_STATE" => TookEffect(c)
    /\ answer[c].status \in Errors \ {"INVALID_STATE", "UNAVAILABLE", "LOST"} => ~TookEffect(c)

\* The record the call holds is the one of its key, and of the same request.
HoldsSaved(c) == held[c] = Existing(c) /\ SameRequest(c, held[c].by)

ReplyOK(c) ==
  /\ reply[c] \in {"mismatch", "conflict", "duplicate"} => Unwritten(c)
  /\ reply[c] = "duplicate" /\ Mode(c) = "commit" => HoldsSaved(c)
  /\ reply[c] = "written" => held[c] = Existing(c) /\ held[c].by = c
  /\ reply[c] = "written" /\ Mode(c) = "commit" /\ held[c].status = "OK" =>
       Len(work[c]) = held[c].after

CallOK(c) ==
  /\ pc[c] \notin {"reply", "done"} => Unwritten(c)
  /\ pc[c] \in {"readPreview", "findSaved", "accept"} => req[c].kind = "commitPreview"
  /\ pc[c] \in {"accept", "proceed"} /\ held[c] # NoRecord => held[c] = Existing(c)
  /\ pc[c] \in {"fetch", "refresh"} => HoldsSaved(c)
  /\ pc[c] = "refresh" /\ Success(held[c]) => held[c].after <= Len(work[c])
  /\ Writing(c) /\ Mode(c) = "commit" /\ held[c].status = "OK" =>
       held[c].after = held[c].before + 1
  /\ pc[c] = "orphan" => answer[c].status = "LOST"
  /\ pc[c] = "reply" => ReplyOK(c)
  /\ pc[c] = "done" => AnswerOK(c)

RecordsInv == \A k \in Keys : RecordOK(k)
EffectsInv == \A n \in 1 .. Len(stored) : EffectOK(n)
CallsInv == \A c \in Calls : CallOK(c)
BookInv == RecordsInv /\ EffectsInv /\ CallsInv
AInv == IInv /\ BookInv

LEMMA AnswersAreCalls == CallsInv => AnswersTellTheTruth
BY DEF CallsInv, CallOK, AnswerOK, AnswersTellTheTruth

\* An effect is in the books.
LEMMA EffectRecorded ==
  ASSUME AInv, NEW c \in Calls, TookEffect(c)
  PROVE  /\ pc[c] # "idle" /\ Existing(c) # NoRecord
         /\ Existing(c).by = c /\ Success(Existing(c))
BY DEF AInv, IInv, HistoryInv, BookInv, EffectsInv, EffectOK, TookEffect

LEMMA UnwrittenHasNoEffect ==
  ASSUME AInv, NEW c \in Calls, Unwritten(c)
  PROVE  ~TookEffect(c)
<1> SUFFICES ASSUME TookEffect(c) PROVE FALSE
  OBVIOUS
<1>1. pc[c] # "idle" /\ Existing(c) # NoRecord /\ Existing(c).by = c
  BY EffectRecorded
<1>2. req[c].key \in Keys
  BY <1>1 DEF AInv, IInv, TypeInv, RequestsOK, Request
<1> QED BY <1>1, <1>2 DEF Unwritten, Existing

-----------------------------------------------------------------------------
(* The answers.                                                            *)

LEMMA DoneIsAnswered ==
  ASSUME NEW c \in Calls, pc'[c] = "done", AnswerOK(c)'
  PROVE  CallOK(c)'
BY DEF CallOK, Writing

LEMMA AfterFail ==
  ASSUME AInv, NEW c \in Calls, UNCHANGED <<store, req>>,
         NEW status \in Errors \ {"INVALID_STATE"}, Fail(c, status),
         Unwritten(c) \/ status = "UNAVAILABLE"
  PROVE  CallOK(c)'
<1>1. pc'[c] = "done" /\ answer'[c].status = status
  BY DEF Fail, Finish, GoTo, AInv, IInv, TypeInv, LocalOK
<1>2. status # "UNAVAILABLE" => ~TookEffect(c)
  BY UnwrittenHasNoEffect
<1>3. AnswerOK(c)'
  BY <1>1, <1>2 DEF AnswerOK, TookEffect, Errors, store
<1> QED BY <1>1, <1>3, DoneIsAnswered

LEMMA AfterResult ==
  ASSUME AInv, NEW c \in Calls, pc[c] # "idle", UNCHANGED <<store, req>>,
         held[c] \in Record, GiveResult(c, held[c]),
         Mode(c) = "commit" => held[c] = Existing(c) /\ Mode(held[c].by) = "commit"
  PROVE  CallOK(c)'
<1>1. /\ pc'[c] = "done" /\ answer'[c].status = held[c].status
      /\ answer'[c].of = held[c].by /\ answer'[c].version = held[c].after
  BY DEF GiveResult, Finish, GoTo, AInv, IInv, TypeInv, LocalOK
<1>2. ASSUME Mode(c) = "commit", held[c].status = "OK"
      PROVE  /\ Existing(c) # NoRecord /\ Existing(c).by = held[c].by
             /\ held[c].after \in 1 .. Len(stored) /\ stored[held[c].after] = held[c].by
  <2>1. req[c].key \in Keys
    BY DEF AInv, IInv, TypeInv, RequestsOK, Request
  <2>2. Existing(c) = held[c] /\ held[c] # NoRecord /\ Success(held[c])
    BY <1>2, NoRecordAssumption DEF Success
  <2> QED BY <2>1, <2>2 DEF AInv, BookInv, RecordsInv, RecordOK, Existing
<1>3. ASSUME Mode(c) = "commit", held[c].status # "OK" PROVE ~TookEffect(c)
  BY <1>3, EffectRecorded DEF Success
<1>4. held[c].status \in {"OK", "REFUSED", "STATE_CONFLICT"}
  BY DEF Record
<1>5. AnswerOK(c)'
  <2>1. Mode(c)' = Mode(c) /\ Existing(c)' = Existing(c) /\ TookEffect(c)' = TookEffect(c)
        /\ stored' = stored
    BY DEF Mode, Existing, TookEffect, store
  <2> QED BY <1>1, <1>2, <1>3, <1>4, <2>1 DEF AnswerOK, Errors
<1> QED BY <1>1, <1>5, DoneIsAnswered

-----------------------------------------------------------------------------
(* The calls that do not move.                                             *)

\* The books only grow, and not by a record or an effect of d.
BooksGrowWithout(d) ==
  /\ \A k \in Keys : \/ record'[k] = record[k]
                     \/ record[k] = NoRecord /\ record'[k].by # d
  /\ IsPrefixOf(stored, stored')
  /\ \A n \in 1 .. Len(stored') : n > Len(stored) => stored'[n] # d

LEMMA CallKept ==
  ASSUME AInv, TypeInv', NEW c \in Calls, BooksGrowWithout(c),
         \A d \in Calls : pc[d] # "idle" => req'[d] = req[d],
         pc'[c] = pc[c], req'[c] = req[c], held'[c] = held[c], work'[c] = work[c],
         reply'[c] = reply[c], answer'[c] = answer[c]
  PROVE  CallOK(c)'
<1>1. CallOK(c)
  BY DEF AInv, BookInv, CallsInv
<1>2. Unwritten(c) => Unwritten(c)'
  BY DEF Unwritten, BooksGrowWithout
<1>3. Mode(c)' = Mode(c) /\ Writing(c)' = Writing(c)
  BY DEF Mode, Writing
<1>4. ASSUME pc[c] # "idle", Existing(c) # NoRecord
      PROVE  /\ Existing(c)' = Existing(c) /\ req'[Existing(c).by] = req[Existing(c).by]
             /\ SameRequest(c, Existing(c).by)' = SameRequest(c, Existing(c).by)
  <2>1. req[c].key \in Keys
    BY <1>4 DEF AInv, IInv, TypeInv, RequestsOK, Request
  <2>2. Existing(c) \in Record
    BY <1>4, <2>1 DEF AInv, IInv, TypeInv, StoreOK, Existing
  <2>3. pc[Existing(c).by] # "idle" /\ Existing(c).by \in Calls
    BY <1>4, <2>1, <2>2 DEF AInv, BookInv, RecordsInv, RecordOK, Existing, Record
  <2>4. Existing(c)' = Existing(c)
    BY <1>4, <2>1 DEF BooksGrowWithout, Existing
  <2> QED BY <2>3, <2>4 DEF SameRequest, Mode
<1>5. /\ Len(stored) \in Nat /\ Len(stored') \in Nat /\ Len(stored) <= Len(stored')
      /\ \A n \in 1 .. Len(stored) : stored'[n] = stored[n]
      /\ \A n \in 1 .. Len(stored') : n > Len(stored) => stored'[n] # c
  <2>1. stored \in Seq(Calls) /\ stored' \in Seq(Calls)
    BY DEF AInv, IInv, TypeInv, StoreOK, States
  <2> QED BY <2>1 DEF BooksGrowWithout, IsPrefixOf
<1>6. TookEffect(c)' = TookEffect(c)
  BY <1>5 DEF TookEffect
<1>7. AnswerOK(c) /\ pc[c] = "done" => AnswerOK(c)'
  BY <1>3, <1>4, <1>5, <1>6 DEF AnswerOK
<1>8. ASSUME pc[c] \in Holding PROVE held[c] # NoRecord
  BY <1>8, NoRecordAssumption DEF AInv, IInv, TypeInv, LocalOK
<1>10. ASSUME pc[c] \in Holding, HoldsSaved(c)
       PROVE  HoldsSaved(c)' /\ Success(held[c])' = Success(held[c])
  <2>1. pc[c] # "idle" /\ held[c] = Existing(c) /\ Existing(c) # NoRecord
    BY <1>8, <1>10 DEF HoldsSaved, Holding
  <2>2. /\ held'[c] = Existing(c)' /\ held'[c] = held[c]
        /\ SameRequest(c, held[c].by)' = SameRequest(c, held[c].by)
        /\ req'[held[c].by] = req[held[c].by]
    BY <1>4, <2>1
  <2> QED BY <1>10, <2>1, <2>2 DEF HoldsSaved, Success, Mode
<1>9. ReplyOK(c) /\ pc[c] = "reply" => ReplyOK(c)'
  BY <1>2, <1>3, <1>4, <1>8, <1>10 DEF ReplyOK, Holding
<1> QED BY <1>1, <1>2, <1>3, <1>4, <1>7, <1>8, <1>9, <1>10 DEF CallOK, Holding

-----------------------------------------------------------------------------
(* The call that moves.                                                    *)

LEMMA CallMoves ==
  ASSUME AInv, NEW c \in Calls, Step(c), ~StoreWrites(c)
  PROVE  CallOK(c)'
<1>1. CallOK(c) /\ TypeInv /\ WorkOK(c)
  BY DEF AInv, IInv, WorkInv, BookInv, CallsInv
<1>2. UNCHANGED store => Unwritten(c)' = Unwritten(c)
  BY DEF Unwritten, store
<1>3. CASE Submit(c)
  <2>1. pc[c] = "idle" /\ UNCHANGED store /\ Unwritten(c)
    BY <1>1, <1>3 DEF Submit, CallOK
  <2>2. CASE pc'[c] = "readPreview"
    <3>1. req'[c].kind = "commitPreview"
      BY <1>1, <1>3, <2>2 DEF Submit, TypeInv, LocalOK, RequestsOK, GoTo, Fail, Finish
    <3> QED BY <1>2, <2>1, <2>2, <3>1 DEF CallOK, Writing
  <2>3. CASE pc'[c] = "lookup"
    BY <1>2, <2>1, <2>3 DEF CallOK, Writing
  <2>4. CASE Fail(c, "STATE_CONFLICT")
    <3>1. pc'[c] = "done" /\ answer'[c].status = "STATE_CONFLICT"
      BY <1>1, <2>4 DEF Fail, Finish, GoTo, TypeInv, LocalOK
    <3>2. ~TookEffect(c)'
      BY <2>1, UnwrittenHasNoEffect DEF TookEffect, store
    <3> QED BY <3>1, <3>2, DoneIsAnswered DEF AnswerOK
  <2> QED BY <1>1, <1>3, <2>2, <2>3, <2>4 DEF Submit, GoTo, TypeInv, LocalOK
<1>4. CASE ReadPreview(c)
  <2>1. CASE Fail(c, "PREVIEW_NOT_FOUND")
    BY <1>1, <1>4, <2>1, AfterFail DEF ReadPreview, CallOK, Errors
  <2>2. CASE ~Fail(c, "PREVIEW_NOT_FOUND")
    <3>1. pc'[c] = "findSaved" /\ pc[c] = "readPreview" /\ UNCHANGED <<store, req>>
      BY <1>1, <1>4, <2>2 DEF ReadPreview, TypeInv, LocalOK, GoTo
    <3> QED BY <1>1, <1>2, <3>1 DEF CallOK, Writing
  <2> QED BY <2>1, <2>2
<1>5. CASE ReadSaved(c)
  <2>1. /\ pc'[c] = "accept" /\ pc[c] = "findSaved" /\ UNCHANGED <<store, req>>
        /\ held'[c] = Existing(c)
    BY <1>1, <1>5 DEF ReadSaved, TypeInv, LocalOK, GoTo
  <2> QED BY <1>1, <1>2, <2>1 DEF CallOK, Writing, Existing, store
<1>6. CASE AnswerSavedCommit(c)
  <2>1. pc[c] = "accept" /\ held[c] \in Record /\ held[c] = Existing(c) /\ Unwritten(c)
    BY <1>1, <1>6 DEF AnswerSavedCommit, CallOK, TypeInv, LocalOK
  <2>2. CASE Fail(c, "IDEMPOTENCY_CONFLICT")
    BY <1>6, <2>1, <2>2, AfterFail DEF AnswerSavedCommit, Errors
  <2>3. CASE GiveResult(c, held[c])
    BY <1>6, <2>1, <2>3, AfterResult DEF AnswerSavedCommit
  <2> QED BY <1>6, <2>2, <2>3 DEF AnswerSavedCommit
<1>7. CASE AcceptPreview(c)
  <2>1. pc[c] = "accept" /\ Unwritten(c) /\ UNCHANGED <<store, req>>
    BY <1>1, <1>7 DEF AcceptPreview, CallOK
  <2>2. CASE Fail(c, "PREVIEW_EXPIRED") \/ Fail(c, "STATE_CONFLICT")
    BY <2>1, <2>2, AfterFail DEF Errors
  <2>3. CASE GoTo(c, "lookup")
    <3>1. pc'[c] = "lookup"
      BY <1>1, <2>3 DEF GoTo, TypeInv, LocalOK
    <3> QED BY <1>2, <2>1, <3>1 DEF CallOK, Writing
  <2> QED BY <1>7, <2>2, <2>3 DEF AcceptPreview
<1>8. CASE ReadRecord(c)
  <2>1. /\ pc'[c] = "proceed" /\ pc[c] = "lookup" /\ UNCHANGED <<store, req>>
        /\ held'[c] = Existing(c)
    BY <1>1, <1>8 DEF ReadRecord, TypeInv, LocalOK, GoTo
  <2> QED BY <1>1, <1>2, <2>1 DEF CallOK, Writing, Existing, store
<1>9. CASE UseRecord(c)
  <2>1. /\ pc[c] = "proceed" /\ held[c] \in Record /\ held[c] = Existing(c) /\ Unwritten(c)
        /\ UNCHANGED <<store, req>>
    BY <1>1, <1>9 DEF UseRecord, CallOK, TypeInv, LocalOK
  <2>2. CASE Fail(c, "IDEMPOTENCY_CONFLICT")
    BY <2>1, <2>2, AfterFail DEF Errors
  <2>3. CASE SameRequest(c, held[c].by) /\ GiveResult(c, held[c])
    BY <2>1, <2>3, AfterResult DEF SameRequest
  <2>4. CASE SameRequest(c, held[c].by) /\ GoTo(c, "fetch") /\ UNCHANGED held
    <3>1. pc'[c] = "fetch" /\ held'[c] = held[c]
      BY <1>1, <2>4 DEF GoTo, TypeInv, LocalOK
    <3>2. HoldsSaved(c)'
      BY <2>1, <2>4, <3>1 DEF HoldsSaved, Existing, SameRequest, Mode, store
    <3> QED BY <1>2, <2>1, <3>1, <3>2 DEF CallOK, Writing
  <2> QED BY <1>9, <2>2, <2>3, <2>4 DEF UseRecord
<1>10. CASE Fetch(c)
  <2>1. /\ pc[c] = "fetch" /\ pc'[c] = "refresh" /\ work'[c] = stored
        /\ held'[c] = held[c] /\ UNCHANGED <<store, req>>
    BY <1>1, <1>10 DEF Fetch, TypeInv, LocalOK, GoTo
  <2>2. HoldsSaved(c) /\ Unwritten(c) /\ held[c] \in Record
    BY <1>1, <2>1 DEF CallOK, TypeInv, LocalOK, Holding
  <2>3. HoldsSaved(c)'
    BY <2>1, <2>2 DEF HoldsSaved, Existing, SameRequest, Mode, store
  <2>4. ASSUME Success(held[c]) PROVE held[c].after <= Len(stored)
    <3>1. req[c].key \in Keys
      BY <1>1, <2>1 DEF TypeInv, RequestsOK, Request
    <3>2. held[c].after \in 1 .. Len(stored)
      BY <2>2, <2>4, <3>1, NoRecordAssumption
         DEF HoldsSaved, Existing, AInv, BookInv, RecordsInv, RecordOK
    <3> QED BY <3>2
  <2>5. Success(held[c])' => held'[c].after <= Len(work'[c])
    BY <2>1, <2>4 DEF Success, Mode
  <2> QED BY <1>2, <2>1, <2>2, <2>3, <2>5 DEF CallOK, Writing
<1>11. CASE Refresh(c)
  <2>1. /\ pc[c] = "refresh" /\ held[c] \in Record /\ HoldsSaved(c)
        /\ GiveResult(c, held[c]) /\ UNCHANGED <<store, req>>
    BY <1>1, <1>11 DEF Refresh, CallOK, TypeInv, LocalOK, Holding
  <2> QED BY <2>1, AfterResult DEF HoldsSaved, SameRequest
<1>12. CASE Execute(c)
  <2>1. PICK status \in Outcomes(c) : held' = [held EXCEPT ![c] = CommandRecord(c, status)]
    BY <1>12 DEF Execute
  <2>2. /\ pc[c] = "proceed" /\ pc'[c] = "write" /\ UNCHANGED <<store, req>>
        /\ held'[c].status = "OK" => held'[c].after = held'[c].before + 1
    BY <1>1, <1>12, <2>1 DEF Execute, CommandRecord, TypeInv, LocalOK, GoTo
  <2> QED BY <1>1, <1>2, <2>2 DEF CallOK
<1>13. CASE DryRun(c)
  <2>1. pc[c] = "proceed" /\ Unwritten(c) /\ UNCHANGED <<store, req>>
    BY <1>1, <1>13 DEF DryRun, CallOK
  <2>2. CASE Fail(c, "REFUSED")
    BY <2>1, <2>2, AfterFail DEF Errors
  <2>3. CASE GoTo(c, "putPreview")
    <3>1. pc'[c] = "putPreview"
      BY <1>1, <2>3 DEF GoTo, TypeInv, LocalOK
    <3> QED BY <1>2, <2>1, <3>1 DEF CallOK, Writing
  <2> QED BY <1>13, <2>2, <2>3 DEF DryRun
<1>14. CASE IssuePreview(c)
  <2>1. /\ pc[c] = "putPreview" /\ pc'[c] = "write" /\ UNCHANGED <<store, req>>
        /\ Mode(c)' # "commit"
    BY <1>1, <1>14 DEF IssuePreview, TypeInv, LocalOK, GoTo, WorkOK, Mode
  <2> QED BY <1>1, <1>2, <2>1 DEF CallOK
<1>15. CASE StoreFindsRecord(c) \/ StoreRejects(c)
  <2>1. Writing(c) /\ UNCHANGED <<store, req>> /\ Unwritten(c)
    BY <1>1, <1>15 DEF StoreFindsRecord, StoreRejects, StoreSays, Writing, CallOK
  <2>2. CASE pc[c] = "orphan"
    <3>1. pc'[c] = "done" /\ answer'[c].status = "LOST"
      BY <1>1, <1>15, <2>2 DEF StoreFindsRecord, StoreRejects, StoreSays, TypeInv, LocalOK,
                              GoTo, CallOK
    <3> QED BY <3>1, DoneIsAnswered DEF AnswerOK
  <2>3. CASE pc[c] # "orphan"
    <3>1. /\ pc'[c] = "reply" /\ reply'[c] \in {"mismatch", "conflict", "duplicate"}
          /\ reply'[c] = "duplicate" /\ Mode(c) = "commit" =>
               held'[c] = Existing(c) /\ SameRequest(c, Existing(c).by)
      BY <1>1, <1>15, <2>3 DEF StoreFindsRecord, StoreRejects, StoreSays, TypeInv, LocalOK, GoTo
    <3>2. ReplyOK(c)'
      BY <1>2, <2>1, <3>1 DEF ReplyOK, HoldsSaved, Existing, SameRequest, Mode, store
    <3> QED BY <3>1, <3>2 DEF CallOK, Writing
  <2> QED BY <2>2, <2>3
<1>16. CASE Publish(c)
  <2>1. /\ pc[c] = "reply" /\ ReplyOK(c) /\ held[c] \in Record /\ UNCHANGED <<store, req>>
        /\ req[c].key \in Keys
    BY <1>1, <1>16 DEF Publish, CallOK, TypeInv, LocalOK, RequestsOK, Request, Holding
  <2>2. CASE reply[c] \in {"mismatch", "conflict"}
    <3>1. Fail(c, "IDEMPOTENCY_CONFLICT") \/ Fail(c, "STATE_CONFLICT")
      BY <1>16, <2>2 DEF Publish
    <3> QED BY <2>1, <2>2, <3>1, AfterFail DEF ReplyOK, Errors
  <2>3. CASE reply[c] = "duplicate" /\ Mode(c) = "commit"
    <3>1. pc'[c] = "fetch" /\ held'[c] = held[c]
      BY <1>1, <1>16, <2>3 DEF Publish, GoTo, TypeInv, LocalOK
    <3>2. HoldsSaved(c)' /\ Unwritten(c)'
      BY <1>2, <2>1, <2>3, <3>1 DEF ReplyOK, HoldsSaved, Existing, SameRequest, Mode, store
    <3> QED BY <3>1, <3>2 DEF CallOK, Writing
  <2>4. CASE reply[c] = "duplicate" /\ Mode(c) = "preview"
    <3>1. GiveResult(c, held[c])
      BY <1>16, <2>4 DEF Publish
    <3> QED BY <2>1, <2>4, <3>1, AfterResult
  <2>5. CASE reply[c] = "written"
    <3>1. held[c] = Existing(c) /\ held[c].by = c
      BY <2>1, <2>5 DEF ReplyOK
    <3>2. CASE GiveResult(c, held[c])
      BY <2>1, <3>1, <3>2, AfterResult
    <3>3. CASE Fail(c, "INVALID_STATE") /\ Publishes(c)
      <4>1. pc'[c] = "done" /\ answer'[c].status = "INVALID_STATE"
        BY <1>1, <3>3 DEF Fail, Finish, GoTo, TypeInv, LocalOK
      <4>2. held[c].after \in 1 .. Len(stored) /\ stored[held[c].after] = c
        BY <2>1, <3>1, <3>3, NoRecordAssumption
           DEF Publishes, Success, Existing, AInv, BookInv, RecordsInv, RecordOK
      <4>3. TookEffect(c)'
        BY <2>1, <4>2 DEF TookEffect, store
      <4> QED BY <4>1, <4>3, DoneIsAnswered DEF AnswerOK
    <3> QED BY <1>16, <2>5, <3>2, <3>3 DEF Publish, AnswerOvertaken
  <2> QED BY <1>16, <2>2, <2>3, <2>4, <2>5 DEF Publish
<1>17. CASE StoreFails(c)
  BY <1>17, AfterFail DEF StoreFails, Errors
<1> QED
  BY <1>3, <1>4, <1>5, <1>6, <1>7, <1>8, <1>9, <1>10, <1>11, <1>12, <1>13, <1>14, <1>15,
     <1>16, <1>17 DEF Step

-----------------------------------------------------------------------------
(* A write.                                                                *)

\* What a write does to the books, in one place.
LEMMA WriteEntersBooks ==
  ASSUME AInv, NEW c \in Calls, StoreWrites(c)
  PROVE  /\ req' = req /\ req[c].key \in Keys /\ record[req[c].key] = NoRecord
         /\ record' = [record EXCEPT ![req[c].key] = held[c]]
         /\ held[c] \in Record /\ held[c].by = c /\ Writing(c) /\ Unwritten(c)
         /\ IF Success(held[c])
            THEN stored' = Append(stored, c) /\ held[c].after = Len(stored) + 1
            ELSE stored' = stored
         /\ stored \in Seq(Calls)
         /\ record \in [Keys -> Record \cup {NoRecord}]
<1>1. /\ Writing(c) /\ req' = req /\ record[req[c].key] = NoRecord
      /\ record' = [record EXCEPT ![req[c].key] = held[c]]
  BY DEF StoreWrites, StoreSays, Existing
<1>2. /\ req[c].key \in Keys /\ held[c] \in Record /\ stored \in Seq(Calls)
      /\ record \in [Keys -> Record \cup {NoRecord}]
  BY <1>1 DEF AInv, IInv, TypeInv, StoreOK, LocalOK, RequestsOK, Request, States, Writing, Holding
<1>3. /\ held[c].by = c
      /\ IF Mode(c) = "commit" /\ held[c].status = "OK"
         THEN held[c].before = Len(stored) /\ stored' = Append(stored, c)
         ELSE stored' = stored
  BY WriteAddsOne DEF AInv, IInv, WorkInv
<1>4. /\ Unwritten(c)
      /\ Mode(c) = "commit" /\ held[c].status = "OK" => held[c].after = held[c].before + 1
  BY <1>1 DEF AInv, BookInv, CallsInv, CallOK, Writing
<1> QED BY <1>1, <1>2, <1>3, <1>4 DEF Success

LEMMA WriteKeepsBooks ==
  ASSUME AInv, [Next]_vars, NEW c \in Calls, StoreWrites(c)
  PROVE  RecordsInv' /\ EffectsInv'
<1> DEFINE key == req[c].key
<1>1. /\ req' = req /\ key \in Keys /\ record[key] = NoRecord
      /\ record' = [record EXCEPT ![key] = held[c]]
      /\ held[c] \in Record /\ held[c].by = c
      /\ IF Success(held[c])
         THEN stored' = Append(stored, c) /\ held[c].after = Len(stored) + 1
         ELSE stored' = stored
      /\ stored \in Seq(Calls) /\ record \in [Keys -> Record \cup {NoRecord}]
  BY WriteEntersBooks
<1>2. \A d \in Calls : pc[d] # "idle" => pc'[d] # "idle"
  BY MadeStaysMade DEF AInv, IInv
<1>3. pc[c] # "idle"
  BY DEF StoreWrites, Writing
<1>4. \A n \in 1 .. Len(stored) : n \in 1 .. Len(stored') /\ stored'[n] = stored[n]
  BY <1>1
<1>5. \A r \in Record : Success(r)' = Success(r)
  BY <1>1 DEF Success, Mode
<1>6. ASSUME NEW k \in Keys PROVE RecordOK(k)'
  <2>1. CASE k = key
    <3>1. record'[k] = held[c]
      BY <1>1, <2>1
    <3>2. Success(held[c]) => held[c].after \in 1 .. Len(stored') /\ stored'[held[c].after] = c
      BY <1>1
    <3> QED BY <1>1, <1>2, <1>3, <1>5, <2>1, <3>1, <3>2 DEF RecordOK, Success, Mode
  <2>2. CASE k # key /\ record[k] # NoRecord
    <3>1. record'[k] = record[k] /\ record[k] \in Record /\ record[k].by \in Calls
      BY <1>1, <2>2 DEF Record
    <3>2. RecordOK(k)
      BY DEF AInv, BookInv, RecordsInv
    <3> QED BY <1>1, <1>2, <1>4, <1>5, <2>2, <3>1, <3>2 DEF RecordOK, Success, Mode
  <2>3. CASE k # key /\ record[k] = NoRecord
    BY <1>1, <2>3 DEF RecordOK
  <2> QED BY <2>1, <2>2, <2>3
<1>7. ASSUME NEW n \in 1 .. Len(stored') PROVE EffectOK(n)'
  <2>1. CASE n \in 1 .. Len(stored)
    <3>1. EffectOK(n) /\ stored'[n] = stored[n] /\ stored[n] \in Calls
      BY <1>1, <1>4, <2>1 DEF AInv, BookInv, EffectsInv
    <3>2. Existing(stored[n])' = Existing(stored[n])
      BY <1>1, <3>1 DEF EffectOK, Existing
    <3> QED BY <1>1, <3>1, <3>2 DEF EffectOK, Existing, Success, Mode
  <2>2. CASE n \notin 1 .. Len(stored)
    <3>1. Success(held[c]) /\ stored'[n] = c
      BY <1>1, <1>7, <2>2
    <3>2. record'[key] = held[c] /\ held[c] # NoRecord
      BY <1>1, NoRecordAssumption
    <3> QED BY <1>1, <3>1, <3>2 DEF EffectOK, Existing, Success, Mode
  <2> QED BY <2>1, <2>2
<1> QED BY <1>6, <1>7 DEF RecordsInv, EffectsInv

LEMMA WriterOK ==
  ASSUME AInv, NEW c \in Calls, StoreWrites(c)
  PROVE  CallOK(c)'
<1>1. TypeInv /\ CallOK(c) /\ WorkOK(c)
  BY DEF AInv, IInv, WorkInv, BookInv, CallsInv
<1>2. CASE pc[c] = "orphan"
  <2>1. pc'[c] = "done" /\ answer'[c].status = "LOST"
    BY <1>1, <1>2 DEF StoreWrites, StoreSays, GoTo, TypeInv, LocalOK, CallOK
  <2> QED BY <2>1, DoneIsAnswered DEF AnswerOK
<1>3. CASE pc[c] # "orphan"
  <2>1. /\ pc'[c] = "reply" /\ reply'[c] = "written" /\ held'[c] = held[c] /\ work'[c] = work[c]
    BY <1>1, <1>3 DEF StoreWrites, StoreSays, GoTo, TypeInv, LocalOK
  <2>2. /\ req' = req /\ req[c].key \in Keys /\ held[c] \in Record /\ held[c].by = c
        /\ record' = [record EXCEPT ![req[c].key] = held[c]] /\ Writing(c)
        /\ record \in [Keys -> Record \cup {NoRecord}]
    BY WriteEntersBooks
  <2>3. held'[c] = Existing(c)' /\ held'[c].by = c
    BY <2>1, <2>2 DEF Existing
  <2>4. Mode(c) = "commit" /\ held[c].status = "OK" => Len(work[c]) = held[c].after
    BY <1>1, <2>2 DEF WorkOK, CallOK, IsOneOnTop
  <2>5. ReplyOK(c)'
    BY <2>1, <2>2, <2>3, <2>4 DEF ReplyOK, Mode
  <2> QED BY <2>1, <2>5 DEF CallOK, Writing
<1> QED BY <1>2, <1>3

-----------------------------------------------------------------------------
(* The books and the calls agree for ever.                                 *)

LEMMA BookStep ==
  ASSUME AInv, [Next]_vars
  PROVE  BookInv'
<1>1. TypeInv' /\ IsPrefixOf(stored, stored')
  BY TypeStep, StoredGrows DEF AInv, IInv
<1>2. \A d \in Calls : pc[d] # "idle" => pc'[d] # "idle" /\ req'[d] = req[d]
  BY MadeStaysMade DEF AInv, IInv
<1>3. ASSUME UNCHANGED store PROVE RecordsInv' /\ EffectsInv'
  <2>1. ASSUME NEW k \in Keys PROVE RecordOK(k)'
    <3>1. record[k] # NoRecord => record[k].by \in Calls
      BY DEF AInv, IInv, TypeInv, StoreOK, Record
    <3>2. RecordOK(k)
      BY DEF AInv, BookInv, RecordsInv
    <3> QED BY <1>2, <1>3, <3>1, <3>2 DEF RecordOK, Success, Mode, store
  <2>2. ASSUME NEW n \in 1 .. Len(stored) PROVE EffectOK(n)'
    <3>1. EffectOK(n) /\ stored[n] \in Calls /\ pc[stored[n]] # "idle"
      BY <2>2 DEF AInv, BookInv, EffectsInv, IInv, HistoryInv, TypeInv, StoreOK, States
    <3>2. req'[stored[n]] = req[stored[n]]
      BY <1>2, <3>1
    <3> QED BY <1>3, <3>1, <3>2 DEF EffectOK, Existing, Success, Mode, store
  <2> QED BY <1>3, <2>1, <2>2 DEF RecordsInv, EffectsInv, store
<1>4. ASSUME UNCHANGED store, NEW d \in Calls PROVE BooksGrowWithout(d)
  BY <1>1, <1>4 DEF BooksGrowWithout, store, AInv, IInv, TypeInv, StoreOK, States
<1>5. ASSUME NEW c \in Calls, StoreWrites(c), NEW d \in Calls, d # c PROVE BooksGrowWithout(d)
  <2>1. /\ req[c].key \in Keys /\ record[req[c].key] = NoRecord
        /\ record' = [record EXCEPT ![req[c].key] = held[c]] /\ held[c].by = c
        /\ stored' = stored \/ stored' = Append(stored, c)
        /\ stored \in Seq(Calls) /\ record \in [Keys -> Record \cup {NoRecord}]
    BY <1>5, WriteEntersBooks DEF AInv
  <2>2. \A n \in 1 .. Len(stored') : n > Len(stored) => stored'[n] # d
    BY <1>5, <2>1
  <2>3. \A k \in Keys : \/ record'[k] = record[k]
                        \/ record[k] = NoRecord /\ record'[k].by # d
    BY <1>5, <2>1
  <2> QED BY <1>1, <2>2, <2>3 DEF BooksGrowWithout
<1>6. ASSUME NEW c \in Calls, Step(c) PROVE RecordsInv' /\ EffectsInv' /\ CallsInv'
  <2>1. UNCHANGED store \/ StoreWrites(c)
    BY <1>6 DEF Step, Submit, ReadPreview, ReadSaved, AnswerSavedCommit, AcceptPreview,
         ReadRecord, UseRecord, Fetch, Refresh, Execute, DryRun, IssuePreview,
         StoreFindsRecord, StoreRejects, Publish, StoreFails
  <2>2. CallOK(c)'
    BY <1>6, CallMoves, WriterOK
  <2>3. ASSUME NEW d \in Calls, d # c PROVE CallOK(d)'
    <3>1. BooksGrowWithout(d)
      BY <1>4, <1>5, <2>1, <2>3
    <3> QED BY <1>1, <1>2, <1>6, <2>3, <3>1, OthersKeep, CallKept DEF AInv, IInv
  <2> QED BY <1>3, <2>1, <2>2, <2>3, WriteKeepsBooks DEF CallsInv
<1>7. ASSUME NEW e \in Executors, Restart(e), NEW d \in Calls PROVE CallOK(d)'
  <2>1. UNCHANGED store /\ req' = req
    BY <1>7 DEF Restart
  <2>2. \/ /\ pc'[d] = pc[d] /\ held'[d] = held[d] /\ work'[d] = work[d]
           /\ reply'[d] = reply[d] /\ answer'[d] = answer[d]
        \/ pc'[d] = "done" /\ answer'[d].status = "LOST"
        \/ /\ pc[d] = "write" /\ pc'[d] = "orphan" /\ answer'[d].status = "LOST"
           /\ held'[d] = held[d]
    BY <1>7 DEF Restart, NoAnswer
  <2>3. CASE /\ pc'[d] = pc[d] /\ held'[d] = held[d] /\ work'[d] = work[d]
             /\ reply'[d] = reply[d] /\ answer'[d] = answer[d]
    BY <1>1, <1>2, <1>4, <2>1, <2>3, CallKept
  <2>4. CASE pc'[d] = "done" /\ answer'[d].status = "LOST"
    BY <2>4, DoneIsAnswered DEF AnswerOK
  <2>5. CASE /\ pc[d] = "write" /\ pc'[d] = "orphan" /\ answer'[d].status = "LOST"
             /\ held'[d] = held[d]
    <3>1. CallOK(d)
      BY DEF AInv, BookInv, CallsInv
    <3> QED BY <2>1, <2>5, <3>1 DEF CallOK, Writing, Unwritten, Mode, store
  <2> QED BY <2>2, <2>3, <2>4, <2>5
<1>8. ASSUME NEW e \in Executors, Restart(e) PROVE BookInv'
  BY <1>3, <1>7, <1>8 DEF Restart, BookInv, CallsInv
<1>9. CASE UNCHANGED vars
  BY <1>1, <1>2, <1>3, <1>4, <1>9, CallKept DEF vars, store, BookInv, CallsInv
<1> QED BY <1>6, <1>8, <1>9 DEF Next, BookInv

LEMMA Books == Spec => []AInv
<1>1. Init => BookInv
  BY DEF Init, BookInv, RecordsInv, RecordOK, EffectsInv, CallsInv, CallOK, Unwritten, Writing
<1>2. AInv /\ [Next]_vars => AInv'
  BY TypeStep, WorkStep, HistoryStep, BookStep DEF AInv, IInv
<1>3. Init => AInv
  BY <1>1, StartsRight DEF AInv
<1> QED BY <1>2, <1>3, PTL DEF Spec

(* What a caller is told is true, and stays true: a success is the         *)
(* recorded result of the key and durable at the version it names, and a   *)
(* refusal is a promise that the command never takes effect.               *)
THEOREM AnswersStayTrue == Spec => []AnswersTellTheTruth
<1>1. AInv => AnswersTellTheTruth
  BY AnswersAreCalls DEF AInv, BookInv
<1> QED BY <1>1, Books, PTL

-----------------------------------------------------------------------------
(* Reading one's own writes.                                               *)

LEMMA ImportShows ==
  ASSUME IInv, NEW c \in Calls, pc[c] # "idle", NEW state \in States, Import(c, state),
         state \notin Flawed
  PROVE  Len(state) <= Len(live'[req[c].executor])
<1>1. req[c].executor \in Executors
  BY DEF IInv, TypeInv, RequestsOK, Request
<1>2. /\ live \in [Executors -> Seq(Calls)] /\ state \in Seq(Calls)
      /\ Len(state) \in Nat /\ Len(live[req[c].executor]) \in Nat
  BY <1>1 DEF IInv, TypeInv, States
<1> QED BY <1>1, <1>2 DEF Import, Refused, Version, Live

(* A success of execute is readable on the executor that answers it, in    *)
(* the very step that answers, also when the result is a saved one of a    *)
(* command another executor ran, unless the durable state it would refresh *)
(* from fails the check: then the saved success is answered all the same.  *)
THEOREM SuccessAlwaysReadable == Spec => SuccessIsReadable
<1> DEFINE Shown(c) ==
             /\ pc[c] # "done" /\ pc'[c] = "done"
             /\ req'[c].kind = "execute" /\ answer'[c].status = "OK"
             => \/ answer'[c].version <= Len(live'[req[c].executor])
                \/ pc[c] = "refresh" /\ work[c] \in Flawed
<1>1. ASSUME AInv, [Next]_vars, NEW c \in Calls PROVE Shown(c)
  <2> SUFFICES ASSUME pc[c] # "done", pc'[c] = "done",
                      req'[c].kind = "execute", answer'[c].status = "OK",
                      pc[c] = "refresh" => work[c] \notin Flawed
               PROVE  answer'[c].version <= Len(live'[req[c].executor])
    OBVIOUS
  <2>1. CallOK(c) /\ TypeInv /\ IInv
    BY <1>1 DEF AInv, IInv, BookInv, CallsInv
  <2>2. Step(c)
    <3>1. ASSUME NEW d \in Calls, Step(d), d # c PROVE FALSE
      BY <2>1, <3>1, OthersKeep
    <3>2. ASSUME NEW e \in Executors, Restart(e) PROVE FALSE
      BY <2>1, <3>2 DEF Restart, NoAnswer, CallOK
    <3>3. ~UNCHANGED vars
      BY DEF vars
    <3> QED BY <1>1, <3>1, <3>2, <3>3 DEF Next
  <2>3. ASSUME NEW status \in Errors, Fail(c, status) PROVE FALSE
    BY <2>1, <2>3 DEF Fail, Finish, TypeInv, LocalOK, Errors
  <2>4. GiveResult(c, held[c]) => answer'[c].version = held[c].after /\ held[c].status = "OK"
    BY <2>1 DEF GiveResult, Finish, TypeInv, LocalOK
  <2>5. ~(Submit(c) \/ ReadPreview(c) \/ ReadSaved(c) \/ ReadRecord(c) \/ Fetch(c) \/ Execute(c)
            \/ IssuePreview(c) \/ StoreFails(c))
    BY <2>1, <2>3 DEF Submit, ReadPreview, ReadSaved, ReadRecord, Fetch, Execute, IssuePreview,
         StoreFails, GoTo, TypeInv, LocalOK, Errors
  <2>6. ~(AcceptPreview(c) \/ DryRun(c))
    BY <2>1, <2>3 DEF AcceptPreview, DryRun, GoTo, TypeInv, LocalOK, Errors
  <2>7. ~AnswerSavedCommit(c)
    BY <2>1 DEF AnswerSavedCommit, CallOK
  <2>8. ~(StoreFindsRecord(c) \/ StoreRejects(c) \/ StoreWrites(c))
    BY <2>1 DEF StoreFindsRecord, StoreRejects, StoreWrites, StoreSays, Writing, CallOK,
                GoTo, TypeInv, LocalOK
  <2>9. CASE UseRecord(c)
    <3>1. GiveResult(c, held[c]) /\ ~Behind(c, held[c]) /\ live' = live /\ held[c] \in Record
      BY <2>1, <2>3, <2>9 DEF UseRecord, GoTo, TypeInv, LocalOK, Errors
    <3>2. Version(c) \in Nat /\ held[c].after \in Nat
      BY <2>1, <2>9, <3>1, LiveIsPrefix DEF UseRecord, Record, Versions
    <3> QED BY <2>4, <3>1, <3>2 DEF Behind, Version, Live
  <2>10. CASE Refresh(c)
    <3>1. /\ GiveResult(c, held[c]) /\ req' = req /\ pc[c] = "refresh"
          /\ held[c] \in Record /\ HoldsSaved(c) /\ work[c] \in States
      BY <2>1, <2>10 DEF Refresh, CallOK, TypeInv, LocalOK, Holding
    <3>2. held[c].after <= Len(work[c])
      BY <2>1, <2>4, <3>1 DEF CallOK, HoldsSaved, SameRequest, Success, Mode
    <3>3. Import(c, work[c])
      BY <2>10, <3>2 DEF Refresh
    <3>4. Len(work[c]) <= Len(live'[req[c].executor])
      <4>1. work[c] \notin Flawed /\ pc[c] # "idle"
        BY <3>1
      <4> QED BY <2>1, <3>1, <3>3, <4>1, ImportShows
    <3>5. held[c].after \in Nat /\ Len(work[c]) \in Nat
          /\ Len(live'[req[c].executor]) \in Nat
      <4>1. TypeInv' /\ req[c].executor \in Executors
        BY <1>1, <2>1, <3>1, TypeStep DEF RequestsOK, Request, TypeInv
      <4> QED BY <3>1, <4>1 DEF Record, Versions, States, TypeInv
    <3> QED BY <2>4, <3>1, <3>2, <3>4, <3>5
  <2>11. CASE Publish(c)
    <3>1. /\ pc[c] = "reply" /\ held[c] \in Record /\ work[c] \in States
          /\ ReplyOK(c) /\ req' = req /\ Mode(c) = "commit"
      BY <2>1, <2>11 DEF Publish, CallOK, TypeInv, LocalOK, Holding, Mode
    <3>2. GiveResult(c, held[c]) /\ reply[c] = "written"
      BY <2>1, <2>3, <2>11, <3>1 DEF Publish, AnswerOvertaken, GoTo, TypeInv, LocalOK, Errors
    <3>3. Publishes(c) /\ Len(work[c]) = held[c].after
      BY <2>4, <3>1, <3>2 DEF Publishes, ReplyOK
    <3>4. Import(c, work[c])
      BY <2>11, <3>3 DEF Publish
    <3>5. work[c] \notin Flawed /\ pc[c] # "idle"
      <4>1. ~AnswerOvertaken(c)
        BY <2>3 DEF AnswerOvertaken, Errors
      <4> QED BY <2>11, <3>1, <3>2, <3>3, <4>1 DEF Publish, Refused
    <3> QED BY <2>1, <2>4, <3>1, <3>2, <3>3, <3>4, <3>5, ImportShows
  <2> QED BY <2>2, <2>5, <2>6, <2>7, <2>8, <2>9, <2>10, <2>11 DEF Step
<1>2. AInv /\ [Next]_vars => [\A c \in Calls : Shown(c)]_vars
  BY <1>1
<1> QED BY <1>2, Books, PTL DEF Spec, SuccessIsReadable

-----------------------------------------------------------------------------
(* Previews.                                                               *)

\* A stored preview is in the books, and only commits of previews name one.
PreviewInv ==
  /\ PreviewCommitsOnce
  /\ \A c \in Calls : preview[c].status # "NONE" => ~Unwritten(c)
  /\ \A c \in Calls : pc[c] # "idle" =>
       /\ req[c].target \in Calls \cup {NoCall}
       /\ req[c].kind = "commitPreview" <=> req[c].target # NoCall

LEMMA PreviewWrite ==
  ASSUME AInv, PreviewInv, [Next]_vars, NEW c \in Calls, StoreWrites(c)
  PROVE  PreviewInv'
<1> DEFINE target == req[c].target
<1>1. /\ req' = req /\ held[c] \in Record /\ held[c].by = c
      /\ req[c].key \in Keys /\ record[req[c].key] = NoRecord /\ Unwritten(c)
      /\ record' = [record EXCEPT ![req[c].key] = held[c]]
      /\ stored \in Seq(Calls) /\ record \in [Keys -> Record \cup {NoRecord}]
      /\ IF Success(held[c]) THEN stored' = Append(stored, c) ELSE stored' = stored
  BY WriteEntersBooks
<1>2. /\ pc[c] # "idle" /\ target \in Calls \cup {NoCall} /\ NoCall \notin Calls
      /\ req[c].kind = "commitPreview" <=> target # NoCall
      /\ req[c].kind \in {"execute", "preview", "commitPreview"}
  <2>1. pc[c] # "idle" /\ req[c] \in Request
    BY DEF StoreWrites, Writing, AInv, IInv, TypeInv, RequestsOK
  <2> QED BY <2>1, ConstantsAssumption DEF PreviewInv, Request
<1>3. preview \in [Calls -> [status : PreviewStatuses, base : Versions]]
  BY DEF AInv, IInv, TypeInv, StoreOK
<1>4. \A n \in 1 .. Len(stored) :
        /\ stored[n] \in Calls
        /\ req[stored[n]].target # NoCall => preview[req[stored[n]].target].status = "COMMITTED"
        /\ req[stored[n]].target \in Calls \cup {NoCall}
  BY <1>1 DEF PreviewInv, PreviewCommitsOnce, AInv, IInv, HistoryInv
<1>5. \A m, n \in 1 .. Len(stored) :
        req[stored[m]].target # NoCall /\ req[stored[m]].target = req[stored[n]].target => m = n
  BY DEF PreviewInv, PreviewCommitsOnce
<1>6. ~Unwritten(c)'
  BY <1>1, NoRecordAssumption DEF Unwritten
<1>7. \A d \in Calls : ~Unwritten(d) => ~Unwritten(d)'
  BY <1>1 DEF Unwritten
<1>8. \A d \in Calls : pc'[d] # "idle" => /\ req'[d].target \in Calls \cup {NoCall}
                                          /\ req'[d].kind = "commitPreview" <=> req'[d].target # NoCall
  <2>1. ASSUME NEW d \in Calls, pc'[d] # "idle" PROVE pc[d] # "idle"
    <3>1. StoreSays(c, "written", held[c]) /\ TypeInv
      BY DEF StoreWrites, AInv, IInv
    <3> QED BY <1>2, <2>1, <3>1 DEF StoreSays, GoTo, TypeInv, LocalOK
  <2> QED BY <1>1, <2>1 DEF PreviewInv
<1>9. CASE req[c].kind = "execute"
  <2>1. preview' = preview /\ target = NoCall
    BY <1>2, <1>9 DEF StoreWrites
  <2>2. PreviewCommitsOnce'
    <3>1. CASE stored' = stored
      BY <1>1, <1>4, <1>5, <2>1, <3>1 DEF PreviewCommitsOnce
    <3>2. CASE stored' = Append(stored, c)
      <4>1. \A n \in 1 .. Len(stored') :
              \/ n \in 1 .. Len(stored) /\ stored'[n] = stored[n]
              \/ req[stored'[n]].target = NoCall
        BY <1>1, <2>1, <3>2
      <4> QED BY <1>1, <1>4, <1>5, <2>1, <4>1 DEF PreviewCommitsOnce
    <3> QED BY <1>1, <3>1, <3>2
  <2> QED BY <1>7, <1>8, <2>1, <2>2 DEF PreviewInv
<1>10. CASE req[c].kind = "preview"
  <2>1. /\ preview' = [preview EXCEPT ![c] = [status |-> "PENDING", base |-> held[c].before]]
        /\ stored' = stored
    BY <1>1, <1>10 DEF StoreWrites, Success, Mode
  <2>2. \A n \in 1 .. Len(stored) : req[stored[n]].target # c
    BY <1>1, <1>2, <1>4 DEF PreviewInv
  <2>3. PreviewCommitsOnce'
    BY <1>1, <1>3, <1>4, <1>5, <2>1, <2>2 DEF PreviewCommitsOnce
  <2>4. \A d \in Calls : preview'[d].status # "NONE" => d = c \/ preview[d].status # "NONE"
    BY <1>3, <2>1
  <2> QED BY <1>6, <1>7, <1>8, <2>3, <2>4 DEF PreviewInv
<1>11. CASE req[c].kind = "commitPreview"
  <2>1. /\ preview' = [preview EXCEPT ![target].status = "COMMITTED"]
        /\ preview[target].status = "PENDING" /\ target \in Calls /\ target # NoCall
    BY <1>2, <1>11 DEF StoreWrites, PreviewPending
  <2>2. \A n \in 1 .. Len(stored) : req[stored[n]].target # target
    BY <1>4, <2>1
  <2>3. \A d \in Calls : /\ preview[d].status = "COMMITTED" => preview'[d].status = "COMMITTED"
                         /\ preview'[d].status # "NONE" => preview[d].status # "NONE"
    BY <1>3, <2>1
  <2>4. preview'[target].status = "COMMITTED"
    BY <1>3, <2>1
  <2>5. PreviewCommitsOnce'
    <3>1. CASE stored' = stored
      BY <1>1, <1>4, <1>5, <2>3, <3>1 DEF PreviewCommitsOnce
    <3>2. CASE stored' = Append(stored, c)
      <4>1. \A n \in 1 .. Len(stored') :
              \/ n \in 1 .. Len(stored) /\ stored'[n] = stored[n]
              \/ n = Len(stored) + 1 /\ stored'[n] = c
        BY <1>1, <3>2
      <4> QED BY <1>1, <1>4, <1>5, <2>2, <2>3, <2>4, <4>1 DEF PreviewCommitsOnce
    <3> QED BY <1>1, <3>1, <3>2
  <2> QED BY <1>7, <1>8, <2>3, <2>5 DEF PreviewInv
<1> QED BY <1>2, <1>9, <1>10, <1>11

LEMMA PreviewStep ==
  ASSUME AInv, PreviewInv, [Next]_vars
  PROVE  PreviewInv'
<1>1. \A d \in Calls : pc[d] # "idle" => req'[d] = req[d]
  BY MadeStaysMade DEF AInv, IInv
<1>2. ASSUME UNCHANGED store PROVE PreviewInv'
  <2>1. \A n \in 1 .. Len(stored) : stored[n] \in Calls /\ req'[stored[n]] = req[stored[n]]
    BY <1>1 DEF AInv, IInv, HistoryInv, TypeInv, StoreOK, States
  <2>2. PreviewCommitsOnce'
    BY <1>2, <2>1 DEF PreviewInv, PreviewCommitsOnce, store
  <2>3. \A c \in Calls : preview'[c].status # "NONE" => ~Unwritten(c)'
    BY <1>2 DEF PreviewInv, Unwritten, store
  <2>4. ASSUME NEW c \in Calls, pc'[c] # "idle", pc[c] = "idle" PROVE Submit(c)
    <3>1. ASSUME NEW d \in Calls, Step(d) PROVE d = c
      BY <2>4, <3>1, OthersKeep DEF AInv, IInv
    <3>2. ASSUME NEW e \in Executors, Restart(e) PROVE FALSE
      BY <2>4, <3>2 DEF Restart
    <3>3. Step(c)
      BY <2>4, <3>1, <3>2 DEF Next, vars
    <3> QED BY <2>4, <3>3 DEF Step, ReadPreview, ReadSaved, AnswerSavedCommit, AcceptPreview,
              ReadRecord, UseRecord, Fetch, Refresh, Execute, DryRun, IssuePreview,
              StoreFindsRecord, StoreRejects, StoreWrites, Writing, Publish, StoreFails
  <2>5. ASSUME NEW c \in Calls, Submit(c)
        PROVE  /\ req'[c].target \in Calls \cup {NoCall}
               /\ req'[c].kind = "commitPreview" <=> req'[c].target # NoCall
    <3>1. PICK kind \in Kinds, target \in KnownPreviews \cup {NoCall} :
            /\ (kind = "commitPreview") <=> (target # NoCall)
            /\ req'[c].kind = kind /\ req'[c].target = target
      BY <2>5 DEF Submit, AInv, IInv, TypeInv, RequestsOK
    <3>2. target \in Calls \cup {NoCall}
      BY DEF KnownPreviews, AInv, IInv, TypeInv, LocalOK, Answer
    <3> QED BY <3>1, <3>2
  <2> QED BY <1>1, <2>2, <2>3, <2>4, <2>5 DEF PreviewInv
<1> QED BY <1>2, PreviewWrite, OnlyWritesChange

(* However many commits of a preview race, retry or lose their answers,    *)
(* under whatever keys, the preview takes effect at most once.             *)
THEOREM PreviewsCommitOnce == Spec => []PreviewCommitsOnce
<1>1. Init => AInv /\ PreviewInv
  <2>1. Init => PreviewInv
    BY DEF Init, PreviewInv, PreviewCommitsOnce
  <2>2. Init => AInv
    BY StartsRight DEF Init, AInv, BookInv, RecordsInv, RecordOK, EffectsInv, CallsInv, CallOK,
                       Unwritten, Writing
  <2> QED BY <2>1, <2>2
<1>2. AInv /\ PreviewInv /\ [Next]_vars => (AInv /\ PreviewInv)'
  BY TypeStep, WorkStep, HistoryStep, BookStep, PreviewStep DEF AInv, IInv
<1>3. PreviewInv => PreviewCommitsOnce
  BY DEF PreviewInv
<1> QED BY <1>1, <1>2, <1>3, PTL DEF Spec
=============================================================================
