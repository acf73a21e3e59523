-------------------------- MODULE CommandExecutor --------------------------
(***************************************************************************)
(* The command executors (src/app/domain/commandExecutor.ts) over the      *)
(* store they share (src/app/domain/sandboxStore.ts): a command is         *)
(* validated against the live engine, looked up by its idempotency key,    *)
(* run on a copy of the engine, committed with a compare-and-swap on the   *)
(* state version together with its record, and only then published to the  *)
(* live engine.  A preview runs on a copy that is thrown away and can be   *)
(* committed later.                                                        *)
(*                                                                         *)
(* Everything between two awaits is one action, and so is each operation   *)
(* of the store: calls on one executor interleave at every await, and      *)
(* several executors (tabs, requests) share the store.  A state is the     *)
(* sequence of the calls whose effects it carries and its version is the   *)
(* length of that sequence: an operation that succeeds adds one effect.    *)
(* What the command, its payload and its actor are, is one input.  Which   *)
(* states a command leaves that the engine's own check refuses is a        *)
(* parameter: ExportsAccepted of Marketplace_proofs says where such states *)
(* come from.                                                              *)
(***************************************************************************)
EXTENDS Naturals, Sequences

CONSTANTS
  Executors,   \* executors, each with its live engine
  Calls,       \* the calls clients make, retries being calls of their own
  Keys,        \* idempotency keys
  Inputs,      \* command, payload and actor: what payloadHash tells apart
  Kinds,       \* the operations clients call (bounds the run)
  Expected,    \* the expectedStateVersions they send
  AnyVersion,  \* no expectedStateVersion
  Flawed,      \* the states that fail assertInvariants, which importState refuses
  NoCall,      \* no call
  NoRecord     \* getCommand found nothing

ASSUME ConstantsAssumption ==
  /\ Kinds \subseteq {"execute", "preview", "commitPreview"}
  /\ AnyVersion \notin Nat /\ Expected \subseteq Nat \cup {AnyVersion}
  /\ NoCall \notin Calls
  /\ Flawed \subseteq Seq(Calls) /\ << >> \notin Flawed

Versions == Nat
States == Seq(Calls)

Request == [kind : Kinds, executor : Executors, key : Keys, input : Inputs,
            expected : Expected, target : Calls \cup {NoCall}]
NoRequest == [kind |-> "none"]

\* SandboxCommandRecord: the call that wrote it, its outcome, stateVersionBefore, -After.
Record == [by : Calls, status : {"OK", "REFUSED", "STATE_CONFLICT"},
           before : Versions, after : Versions]
ASSUME NoRecordAssumption == NoRecord \notin Record

Errors == {"REFUSED", "STATE_CONFLICT", "IDEMPOTENCY_CONFLICT", "INVALID_STATE",
           "PREVIEW_NOT_FOUND", "PREVIEW_EXPIRED", "UNAVAILABLE", "LOST"}
\* What the caller gets: of is the call whose result it is (a retry: the first one).
Answer == [status : Errors \cup {"OK", "NONE"}, of : Calls \cup {NoCall}, version : Versions]
NoAnswer == [status |-> "NONE", of |-> NoCall, version |-> 0]

PreviewStatuses == {"NONE", "PENDING", "COMMITTED"}

Replies == {"none", "written", "duplicate", "mismatch", "conflict"}

\* Where a call waits: for the store to answer, for its continuation to run, or done.
Stages == {"idle", "readPreview", "findSaved", "accept", "lookup", "proceed", "fetch",
           "refresh", "putPreview", "write", "orphan", "reply", "done"}

VARIABLES
  stored,   \* sandbox_states: the durable state
  record,   \* record[k]: sandbox_command_records
  preview,  \* preview[c]: [status, base] of the preview the call c created
  live,     \* live[e]: the live engine of an executor
  req,      \* req[c]: what the call asks for
  pc,       \* pc[c]: the stage of the call
  seen,     \* seen[c]: the status of the preview commitPreview read
  held,     \* held[c]: the command record the call holds across an await
  work,     \* work[c]: the state the call holds across an await
  reply,    \* reply[c]: what the store said to the write
  answer    \* answer[c]: what the caller got

store == <<stored, record, preview>>
vars == <<stored, record, preview, live, req, pc, seen, held, work, reply, answer>>

Mode(c) == IF req[c].kind = "preview" THEN "preview" ELSE "commit"
\* payloadHash, command and mode agree.
SameRequest(c, d) == Mode(c) = Mode(d) /\ req[c].input = req[d].input

Live(c) == live[req[c].executor]
Version(c) == Len(Live(c))
Existing(c) == record[req[c].key]
Expects(c, version) == req[c].expected \in {AnyVersion, version}

\* The previews a client may name: those an answer gave it.
KnownPreviews == {answer[d].of : d \in {d \in Calls : /\ pc[d] = "done"
                                                      /\ req[d].kind = "preview"
                                                      /\ answer[d].status = "OK"}}

-----------------------------------------------------------------------------
Init ==
  /\ stored = << >>
  /\ record = [k \in Keys |-> NoRecord]
  /\ preview = [c \in Calls |-> [status |-> "NONE", base |-> 0]]
  /\ live = [e \in Executors |-> << >>]
  /\ req = [c \in Calls |-> NoRequest]
  /\ pc = [c \in Calls |-> "idle"]
  /\ seen = [c \in Calls |-> "NONE"]
  /\ held = [c \in Calls |-> NoRecord]
  /\ work = [c \in Calls |-> << >>]
  /\ reply = [c \in Calls |-> "none"]
  /\ answer = [c \in Calls |-> NoAnswer]

GoTo(c, stage) == pc' = [pc EXCEPT ![c] = stage]

\* The call holds nothing any more.
Forget(c) == /\ seen' = [seen EXCEPT ![c] = "NONE"]
             /\ held' = [held EXCEPT ![c] = NoRecord]
             /\ work' = [work EXCEPT ![c] = << >>]
             /\ reply' = [reply EXCEPT ![c] = "none"]

Finish(c, status, of, version) ==
  /\ GoTo(c, "done")
  /\ answer' = [answer EXCEPT ![c] = [status |-> status, of |-> of, version |-> version]]
  /\ Forget(c)

Fail(c, status) == Finish(c, status, NoCall, 0)

\* The result a command record keeps.
GiveResult(c, r) == Finish(c, r.status, r.by, r.after)

-----------------------------------------------------------------------------
(* execute, preview and commitPreview up to their first await.  A commit   *)
(* of a preview runs the payload of the preview; its version is validated  *)
(* later.                                                                  *)
Submit(c) ==
  \E kind \in Kinds, e \in Executors, k \in Keys, i \in Inputs,
     expected \in Expected, target \in KnownPreviews \cup {NoCall} :
    /\ pc[c] = "idle"
    /\ (kind = "commitPreview") <=> (target # NoCall)
    /\ kind = "commitPreview" => i = req[target].input
    /\ req' = [req EXCEPT ![c] = [kind |-> kind, executor |-> e, key |-> k, input |-> i,
                                  expected |-> expected, target |-> target]]
    /\ \/ /\ kind = "commitPreview"
          /\ GoTo(c, "readPreview")
          /\ UNCHANGED <<seen, held, work, reply, answer>>
       \/ /\ kind # "commitPreview" /\ expected \in {AnyVersion, Len(live[e])}
          /\ GoTo(c, "lookup")
          /\ UNCHANGED <<seen, held, work, reply, answer>>
       \/ /\ kind # "commitPreview" /\ expected \notin {AnyVersion, Len(live[e])}
          /\ Fail(c, "STATE_CONFLICT")
    /\ UNCHANGED <<store, live>>

(* commitPreview: the preview and the record of the key are read one after *)
(* the other, and the checks are made on what was read.                    *)
ReadPreview(c) ==
  LET status == preview[req[c].target].status IN
  /\ pc[c] = "readPreview"
  /\ \/ status = "NONE" /\ Fail(c, "PREVIEW_NOT_FOUND")
     \/ /\ status # "NONE"
        /\ seen' = [seen EXCEPT ![c] = status]
        /\ GoTo(c, "findSaved")
        /\ UNCHANGED <<held, work, reply, answer>>
  /\ UNCHANGED <<store, live, req>>

ReadSaved(c) ==
  /\ pc[c] = "findSaved"
  /\ held' = [held EXCEPT ![c] = Existing(c)]
  /\ GoTo(c, "accept")
  /\ UNCHANGED <<store, live, req, seen, work, reply, answer>>

\* A commit recorded under the key answers at once, the live engine left as it is.
AnswerSavedCommit(c) ==
  /\ pc[c] = "accept"
  /\ held[c] # NoRecord /\ Mode(held[c].by) = "commit"
  /\ \/ SameRequest(c, held[c].by) /\ GiveResult(c, held[c])
     \/ ~SameRequest(c, held[c].by) /\ Fail(c, "IDEMPOTENCY_CONFLICT")
  /\ UNCHANGED <<store, live, req>>

\* No record, or one of another command, which the next look-up will find.
AcceptPreview(c) ==
  LET current == preview[req[c].target].base = Version(c) /\ Expects(c, Version(c)) IN
  /\ pc[c] = "accept"
  /\ held[c] # NoRecord => ~SameRequest(c, held[c].by)
  /\ \/ seen[c] # "PENDING" /\ Fail(c, "PREVIEW_EXPIRED")
     \/ seen[c] = "PENDING" /\ ~current /\ Fail(c, "STATE_CONFLICT")
     \/ /\ seen[c] = "PENDING" /\ current
        /\ GoTo(c, "lookup")
        /\ Forget(c) /\ UNCHANGED answer
  /\ UNCHANGED <<store, live, req>>

-----------------------------------------------------------------------------
(* existingResult: the record of the key, and what to do with it.          *)
ReadRecord(c) ==
  /\ pc[c] = "lookup"
  /\ held' = [held EXCEPT ![c] = Existing(c)]
  /\ GoTo(c, "proceed")
  /\ UNCHANGED <<store, live, req, seen, work, reply, answer>>

\* The live engine is behind a saved result.  The possible bug lets it be one behind.
BehindByTwo(c, r) == r.after > Version(c) + 1
Behind(c, r) == r.after > Version(c)

UseRecord(c) ==
  LET r == held[c] IN
  /\ pc[c] = "proceed" /\ r # NoRecord
  /\ \/ ~SameRequest(c, r.by) /\ Fail(c, "IDEMPOTENCY_CONFLICT")
     \/ SameRequest(c, r.by) /\ ~Behind(c, r) /\ GiveResult(c, r)
     \/ /\ SameRequest(c, r.by) /\ Behind(c, r)
        /\ GoTo(c, "fetch")
        /\ UNCHANGED <<seen, held, work, reply, answer>>
  /\ UNCHANGED <<store, live, req>>

\* The durable state is read ...
Fetch(c) ==
  /\ pc[c] = "fetch"
  /\ work' = [work EXCEPT ![c] = stored]
  /\ GoTo(c, "refresh")
  /\ UNCHANGED <<store, live, req, seen, held, reply, answer>>

\* importState refuses a state that is older than the live one or fails its check.
Refused(c, state) == Len(state) < Version(c) \/ state \in Flawed

\* A state that is refused leaves the live engine as it was.  The possible bug
\* takes any state.
ImportAny(c, state) == live' = [live EXCEPT ![req[c].executor] = state]
Import(c, state) ==
  live' = [live EXCEPT ![req[c].executor] = IF Refused(c, state) THEN @ ELSE state]

\* ... and imported before the caller gets the saved result, which it gets all the
\* same if the import is refused.
Refresh(c) ==
  /\ pc[c] = "refresh"
  /\ IF Len(work[c]) >= held[c].after THEN Import(c, work[c]) ELSE UNCHANGED live
  /\ GiveResult(c, held[c])
  /\ UNCHANGED <<store, req>>

-----------------------------------------------------------------------------
\* What the bus says of the operation.  The possible bug relies on the version
\* compared when the call was validated.
OutcomesUnchecked(c) == {"OK", "REFUSED"}
Outcomes(c) == IF Expects(c, Version(c)) THEN {"OK", "REFUSED"} ELSE {"STATE_CONFLICT"}

\* commandRecord.
CommandRecord(c, status) ==
  [by |-> c, status |-> status, before |-> Version(c),
   after |-> IF status = "OK" THEN Version(c) + 1 ELSE Version(c)]

(* The operation runs on a copy of the live engine; the bus compares the   *)
(* expected version again, with the copy.  A failure is recorded too, with *)
(* the live state and not the copy it may have touched.  The copy is made  *)
(* by importing the live state, which was imported itself: cloneEngine     *)
(* fails on no state that a live engine can have (LiveNeverFlawed).        *)
Execute(c) ==
  /\ pc[c] = "proceed" /\ held[c] = NoRecord /\ Mode(c) = "commit"
  /\ \E status \in Outcomes(c) :
       /\ held' = [held EXCEPT ![c] = CommandRecord(c, status)]
       /\ work' = [work EXCEPT ![c] = IF status = "OK" THEN Append(Live(c), c) ELSE Live(c)]
  /\ GoTo(c, "write")
  /\ UNCHANGED <<store, live, req, seen, reply, answer>>

(* preview: the copy is thrown away; a refusal is answered and not         *)
(* recorded.  The version and the state that go with the write are those   *)
(* of the live engine one await later.                                     *)
DryRun(c) ==
  /\ pc[c] = "proceed" /\ held[c] = NoRecord /\ Mode(c) = "preview"
  /\ \/ Fail(c, "REFUSED")
     \/ /\ held' = [held EXCEPT ![c] = [by |-> c, status |-> "OK",
                                        before |-> Version(c), after |-> Version(c)]]
        /\ GoTo(c, "putPreview")
        /\ UNCHANGED <<seen, work, reply, answer>>
  /\ UNCHANGED <<store, live, req>>

IssuePreview(c) ==
  /\ pc[c] = "putPreview"
  /\ work' = [work EXCEPT ![c] = Live(c)]
  /\ GoTo(c, "write")
  /\ UNCHANGED <<store, live, req, seen, held, reply, answer>>

-----------------------------------------------------------------------------
(* commitCommand and putPreviewAndCommand: one transaction of the store.   *)

\* The version the store must be at: expectedStateVersion.
Base(c) == IF Mode(c) = "preview" THEN Len(work[c]) ELSE held[c].before

Writing(c) == pc[c] \in {"write", "orphan"}

\* The compare-and-swap.  The possible bug refuses only versions of the future.
AtBaseOrNewer(c) == Base(c) <= Len(stored)
AtBase(c) == Base(c) = Len(stored)

\* A preview is still to be committed.  The possible bug asks that it exists.
PreviewKnown(c) ==
  req[c].kind = "commitPreview" => preview[req[c].target].status # "NONE"
PreviewPending(c) ==
  req[c].kind = "commitPreview" => preview[req[c].target].status = "PENDING"

\* An answer to an executor that is gone is heard by nobody.
StoreSays(c, said, r) ==
  /\ IF pc[c] = "orphan"
     THEN GoTo(c, "done") /\ Forget(c)
     ELSE /\ GoTo(c, "reply")
          /\ reply' = [reply EXCEPT ![c] = said]
          /\ held' = [held EXCEPT ![c] = r]
          /\ UNCHANGED <<seen, work>>
  /\ UNCHANGED <<live, req, answer>>

\* The key is taken.  preview answers a duplicate with its own result.
StoreFindsRecord(c) ==
  /\ Writing(c) /\ Existing(c) # NoRecord
  /\ \/ /\ SameRequest(c, Existing(c).by)
        /\ StoreSays(c, "duplicate", IF Mode(c) = "preview" THEN held[c] ELSE Existing(c))
     \/ /\ ~SameRequest(c, Existing(c).by)
        /\ StoreSays(c, "mismatch", held[c])
  /\ UNCHANGED store

StoreRejects(c) ==
  /\ Writing(c) /\ Existing(c) = NoRecord
  /\ ~(AtBase(c) /\ PreviewPending(c))
  /\ StoreSays(c, "conflict", held[c])
  /\ UNCHANGED store

StoreWrites(c) ==
  /\ Writing(c) /\ Existing(c) = NoRecord /\ AtBase(c) /\ PreviewPending(c)
  /\ stored' = work[c]
  /\ record' = [record EXCEPT ![req[c].key] = held[c]]
  /\ preview' = CASE req[c].kind = "execute" -> preview
                  [] req[c].kind = "preview" ->
                       [preview EXCEPT ![c] = [status |-> "PENDING", base |-> held[c].before]]
                  [] req[c].kind = "commitPreview" ->
                       [preview EXCEPT ![req[c].target].status = "COMMITTED"]
  /\ StoreSays(c, "written", held[c])

\* The state is published after the write only.  The possible bug publishes
\* whatever the store said.
PublishesAnyway(c) == Mode(c) = "commit" /\ held[c].by = c /\ held[c].status = "OK"
Publishes(c) == /\ Mode(c) = "commit" /\ reply[c] = "written"
                /\ held[c].status = "OK"

\* A live engine that moved past the state, or a state that fails the check: the
\* command is durable, and the engine keeps its own.  The possible bug hands on
\* the error of importState.
AnswerOvertakenAsConflict(c) == Fail(c, "STATE_CONFLICT")
AnswerOvertaken(c) == Fail(c, "INVALID_STATE")

Publish(c) ==
  /\ pc[c] = "reply"
  /\ \/ reply[c] = "mismatch" /\ Fail(c, "IDEMPOTENCY_CONFLICT")
     \/ reply[c] = "conflict" /\ Fail(c, "STATE_CONFLICT")
     \/ /\ reply[c] = "duplicate" /\ Mode(c) = "commit"
        /\ GoTo(c, "fetch")
        /\ UNCHANGED <<seen, held, work, reply, answer>>
     \/ /\ reply[c] = "duplicate" /\ Mode(c) = "preview"
        /\ GiveResult(c, held[c])
     \/ /\ reply[c] = "written"
        /\ IF Publishes(c) /\ Refused(c, work[c])
           THEN AnswerOvertaken(c) ELSE GiveResult(c, held[c])
  /\ IF Publishes(c) THEN Import(c, work[c]) ELSE UNCHANGED live
  /\ UNCHANGED <<store, req>>

-----------------------------------------------------------------------------
(* The store cannot be reached, or its answer is lost after the write: the *)
(* call says so and the live engine is left as it is.                      *)
StoreFails(c) ==
  /\ pc[c] \in {"readPreview", "findSaved", "lookup", "fetch", "putPreview", "write", "reply"}
  /\ Fail(c, "UNAVAILABLE")
  /\ UNCHANGED <<store, live, req>>

(* A tab is reloaded, or a request builds its engine from the store.  The  *)
(* calls in flight are lost; a write already sent may still arrive.  A     *)
(* durable state that fails the check is refused, and the tab goes on with *)
(* the scenario it was seeded with.                                        *)
Restart(e) ==
  LET InFlight(c) == /\ pc[c] \notin {"idle", "done", "orphan"}
                     /\ req[c].executor = e
      Sent(c) == InFlight(c) /\ pc[c] = "write"
      Keep(c) == ~InFlight(c) \/ Sent(c)
  IN
  /\ live' = [live EXCEPT ![e] = IF stored \in Flawed THEN << >> ELSE stored]
  /\ pc' = [c \in Calls |-> IF Sent(c) THEN "orphan" ELSE IF InFlight(c) THEN "done" ELSE pc[c]]
  /\ answer' = [c \in Calls |-> IF InFlight(c) THEN [NoAnswer EXCEPT !.status = "LOST"]
                                               ELSE answer[c]]
  /\ seen' = [c \in Calls |-> IF Keep(c) THEN seen[c] ELSE "NONE"]
  /\ held' = [c \in Calls |-> IF Keep(c) THEN held[c] ELSE NoRecord]
  /\ work' = [c \in Calls |-> IF Keep(c) THEN work[c] ELSE << >>]
  /\ reply' = [c \in Calls |-> IF Keep(c) THEN reply[c] ELSE "none"]
  /\ UNCHANGED <<store, req>>

Step(c) ==
  \/ Submit(c) \/ ReadPreview(c) \/ ReadSaved(c) \/ AnswerSavedCommit(c) \/ AcceptPreview(c)
  \/ ReadRecord(c) \/ UseRecord(c) \/ Fetch(c) \/ Refresh(c)
  \/ Execute(c) \/ DryRun(c) \/ IssuePreview(c)
  \/ StoreFindsRecord(c) \/ StoreRejects(c) \/ StoreWrites(c) \/ Publish(c) \/ StoreFails(c)

Next == (\E c \in Calls : Step(c)) \/ (\E e \in Executors : Restart(e))

Spec == Init /\ [][Next]_vars

-----------------------------------------------------------------------------
(* Every variable holds a value of its kind, and a call that was made has  *)
(* a request.                                                              *)
TypeOK ==
  /\ stored \in States
  /\ record \in [Keys -> Record \cup {NoRecord}]
  /\ preview \in [Calls -> [status : PreviewStatuses, base : Versions]]
  /\ live \in [Executors -> States]
  /\ req \in [Calls -> Request \cup {NoRequest}]
  /\ pc \in [Calls -> Stages]
  /\ seen \in [Calls -> PreviewStatuses]
  /\ held \in [Calls -> Record \cup {NoRecord}]
  /\ work \in [Calls -> States]
  /\ reply \in [Calls -> Replies]
  /\ answer \in [Calls -> Answer]
  /\ \A c \in Calls : pc[c] # "idle" => req[c] \in Request

IsPrefixOf(s, t) == Len(s) <= Len(t) /\ \A n \in 1 .. Len(s) : s[n] = t[n]

TookEffect(c) == \E n \in 1 .. Len(stored) : stored[n] = c

(* Readers of a live engine see committed states only: whatever commits,   *)
(* loses its answer, is retried or reloaded, a live engine is at an        *)
(* earlier state of the durable history, never on a branch of its own.     *)
LiveIsCommitted == \A e \in Executors : IsPrefixOf(live[e], stored)

(* The executors and the store together are one log of commands: a key is  *)
(* settled once, a command takes effect exactly when it settles its key,   *)
(* and no write overwrites the effect of another (no lost update).         *)
Log == INSTANCE CommandLog WITH
         log <- stored,
         settled <- [k \in Keys |-> IF record[k] = NoRecord THEN NoCall ELSE record[k].by]
ImplementsLog == Log!Spec

(* A caller can trust the answer to a command: a success is the recorded   *)
(* result and the durable state carries it at the version the answer       *)
(* names; INVALID_STATE says the command is durable though the live engine *)
(* could not take it, because it is newer already or the state fails its   *)
(* check; any other refusal means it took no effect and never will.  Only  *)
(* UNAVAILABLE and a lost call leave it open.                              *)
AnswersTellTheTruth ==
  \A c \in Calls : pc[c] = "done" /\ Mode(c) = "commit" =>
    LET a == answer[c] IN
    /\ a.status = "OK" => /\ Existing(c) # NoRecord /\ Existing(c).by = a.of
                          /\ a.version \in 1 .. Len(stored) /\ stored[a.version] = a.of
    /\ a.status = "INVALID_STATE" => TookEffect(c)
    /\ a.status \in Errors \ {"INVALID_STATE", "UNAVAILABLE", "LOST"} => ~TookEffect(c)

(* A command sent with an expectedStateVersion took effect on that version *)
(* and no other, though it is checked awaits before the commit.            *)
ExpectedVersionHonoured ==
  \A n \in 1 .. Len(stored) : Expects(stored[n], n - 1)

(* A preview is committed at most once, whatever keys its commits carry,   *)
(* and no command takes effect through a preview the store does not know   *)
(* as committed.                                                           *)
PreviewCommitsOnce ==
  \A m, n \in 1 .. Len(stored) :
    LET t == req[stored[m]].target IN
    t # NoCall => /\ preview[t].status = "COMMITTED"
                  /\ t = req[stored[n]].target => m = n

(* A live engine never goes back to an older state, in whichever order     *)
(* commits, refreshes and reloads reach it, except for a reload over a     *)
(* durable state that fails the check.                                     *)
LiveNeverGoesBack ==
  [][\A e \in Executors :
       Len(live[e]) <= Len(live'[e]) \/ (stored \in Flawed /\ Restart(e))]_vars

(* When a command is answered with success, the live engine it was sent to *)
(* shows it: a retry that reached an executor behind the store refreshes   *)
(* it first (commandExecutor.ts:173-175).  The one exception is a saved    *)
(* result when the durable state read for the refresh fails the check: the *)
(* refusal of the import is dropped there.                                 *)
SuccessIsReadable ==
  [][\A c \in Calls :
       /\ pc[c] # "done" /\ pc'[c] = "done"
       /\ req'[c].kind = "execute" /\ answer'[c].status = "OK"
       => \/ answer'[c].version <= Len(live'[req[c].executor])
          \/ pc[c] = "refresh" /\ work[c] \in Flawed]_vars
=============================================================================
