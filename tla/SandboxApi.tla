----------------------------- MODULE SandboxApi -----------------------------
(***************************************************************************)
(* The HTTP API of the sandbox over D1: the commit, preview, reset, seed,  *)
(* replay and state routes, each request served by an executor and engine  *)
(* of its own, all sharing one D1SandboxStateStore.                        *)
(*                                                                         *)
(* Every call of the store is a step of its own; the requests interleave   *)
(* between them, any call may fail, and an answer may be lost after its    *)
(* write took effect.  A D1 batch runs its statements in one transaction,  *)
(* but each statement asks its own WHERE: the model keeps them apart.      *)
(* A state is its version and the commands and edits it was built from.    *)
(***************************************************************************)
EXTENDS Naturals, Sequences, FiniteSets, SequencesExt

CONSTANTS
    Requests,   \* requests being served at the same time
    Keys,       \* idempotency keys
    Picky,      \* keys whose command the domain refuses before an edit
    Edits,      \* edits an operator makes in a state before uploading it
    Batches,    \* the keys of a replay's records, in order (an action sent twice in
                \* one batch is answered from the record of the first)
    None,       \* no record
    MaxSent,    \* bound on the requests sent
    MaxFaults   \* bound on failing store calls and lost answers

(* A state of the sandbox: its version, and what it was built from. *)
States == [ver : Nat, ops : SUBSET (Keys \cup Edits)]

ASSUME ApiAssumption ==
    /\ Picky \subseteq Keys
    /\ Edits \cap Keys = {}
    /\ None \notin States \cup Nat
    /\ Batches \subseteq Seq(Keys)
    /\ \A batch \in Batches : batch # <<>> /\ IsInjective(batch)
    /\ MaxSent \in Nat /\ MaxFaults \in Nat

VARIABLES
    state,      \* the row of sandbox_states, or None
    rows,       \* sandbox_command_records
    previews,   \* sandbox_preview_records
    req,        \* per request: what it is doing
    sent,       \* requests sent so far
    told,       \* the ok answers clients received for commands
    applied,    \* per key: how often its effect was written into the state
    overwritten,  \* a write replaced a state by one not made from it, and of no
                  \* version of its own to tell them apart
    faults

vars == <<state, rows, previews, req, sent, told, applied, overwritten, faults>>

-----------------------------------------------------------------------------
Seed == [ver |-> 0, ops |-> {}]

(* createSeededEngine of any scenario or seed but the default loads it. *)
Fixture == [ver |-> 1, ops |-> {}]

Idle == [phase |-> "idle"]

Call(r) == req[r].call

At(r, phase) == req[r].phase = phase

Is(r, kind) == Call(r).kind = kind

(* A replay may open with a control command: one that loads or resets a
   scenario, or one that imports a state. *)
ReplayKinds == {"replay", "reload", "import"}

Replays(r) == Call(r).kind \in ReplayKinds

Named(key) == {row \in rows : row.key = key}

(* The command record of a call: same key, payload, command and mode. *)
Same(row, call) == row.cmd = call.kind

Exact(recorded, call) == \E row \in recorded : row.key = call.key /\ Same(row, call)

(* The domain's verdict on a command depends on the state alone. *)
Works(key, s) == key \in Picky => s.ops \cap Edits # {}

(* The command of a replay's action, what is left of the state for the ones
   after a control command, the versions up to an action, and the commands the
   batch brings into the state.  The state imported is of the version at hand,
   the oldest that is accepted, and takes its place in it. *)
Act(call, i) == IF i = 1 THEN call.kind ELSE "replay"

Ground(call, s) == IF call.kind = "replay" THEN s ELSE [s EXCEPT !.ops = {}]

Moved(call, i) == IF call.kind = "import" THEN i - 1 ELSE i

Effects(call) == {call.batch[i] : i \in {j \in DOMAIN call.batch : Act(call, j) # "import"}}

(* The working copy after a command; a refused one leaves the state. *)
After(call, s) ==
    CASE call.kind = "reset"   -> [ver |-> s.ver + 1, ops |-> {call.key}]
      [] call.kind = "commit"  -> IF Works(call.key, s)
                                  THEN [ver |-> s.ver + 1, ops |-> s.ops \cup {call.key}]
                                  ELSE s
      [] call.kind = "preview" -> s
      [] call.kind \in ReplayKinds -> [ver |-> s.ver + Moved(call, Len(call.batch)),
                                       ops |-> Ground(call, s).ops \cup Effects(call)]

Accepted(call, s) == call.kind = "commit" => Works(call.key, s)

RowFor(call, s) ==
    [key |-> call.key, cmd |-> call.kind, ok |-> Accepted(call, s), ver |-> After(call, s).ver]

ReplayRows(call, s) ==
    {[key |-> call.batch[i], cmd |-> Act(call, i), ok |-> TRUE, ver |-> s.ver + Moved(call, i)] :
        i \in DOMAIN call.batch}

(* The records of a replay's actions, and whether they are all there. *)
RecordsOf(call, recorded) ==
    {row \in recorded : \E i \in DOMAIN call.batch :
                           row.key = call.batch[i] /\ row.cmd = Act(call, i)}

Recorded(call, recorded) ==
    \A i \in DOMAIN call.batch :
        \E row \in recorded : row.key = call.batch[i] /\ row.cmd = Act(call, i)

AnyNamed(call) == \E i \in DOMAIN call.batch : Named(call.batch[i]) # {}

-----------------------------------------------------------------------------
Init ==
    /\ state = None
    /\ rows = {}
    /\ previews = {}
    /\ req = [r \in Requests |-> Idle]
    /\ sent = 0
    /\ told = {}
    /\ applied = [key \in Keys |-> 0]
    /\ overwritten = FALSE
    /\ faults = 0

(* What an operator uploads: the state as it was read, edited; from a copy
   that has run on the version is the next one. *)
Edited(edit, runs) ==
    LET s == IF state = None THEN Seed ELSE state
    IN [ver |-> IF runs THEN s.ver + 1 ELSE s.ver, ops |-> s.ops \cup {edit}]

Seen == IF state = None THEN None ELSE state.ver

(* A seeding creates its scenario, and a replay starts from the stored state,
   from a scenario or from a base in its body. *)
Calls ==
    [kind : {"preview"}, key : Keys]
    \cup [kind : {"reset"}, key : Keys, start : {Seed, Fixture}]
    \cup [kind : {"commit"}, key : Keys, preview : {p.id : p \in previews}]
    \cup [kind : {"put"}, body : {Edited(e, runs) : e \in Edits, runs \in BOOLEAN},
          expected : {Seen}]
    \cup [kind : ReplayKinds, batch : Batches, fromStored : BOOLEAN, start : {Seed, Fixture},
          base : {None} \cup {Edited(e, FALSE) : e \in Edits}]

Send(r) ==
    /\ At(r, "idle")
    /\ sent < MaxSent
    /\ sent' = sent + 1
    /\ \E call \in Calls :
          req' = [req EXCEPT ![r] = [phase |-> "read", call |-> call, id |-> sent + 1,
                                     known |-> None, engine |-> Seed, preview |-> None]]
    /\ UNCHANGED <<state, rows, previews, told, applied, overwritten, faults>>

Goes(r, phase) == req' = [req EXCEPT ![r].phase = phase]

Ends(r) == req' = [req EXCEPT ![r] = Idle]

Stores == <<state, rows, previews, applied, overwritten>>

-----------------------------------------------------------------------------
(* The reads of a request.                                                 *)

(* store.get; commit and preview want a record, reset and seed create one. *)
ReadState(r) ==
    /\ At(r, "read")
    /\ \/ /\ state = None
          /\ Is(r, "commit") \/ Is(r, "preview")
          /\ Ends(r)
       \/ /\ state = None
          /\ Is(r, "reset")
          /\ req' = [req EXCEPT ![r].engine = Call(r).start, ![r].phase = "create"]
       \/ /\ state # None
          /\ Is(r, "commit") \/ Is(r, "preview") \/ Is(r, "reset")
          /\ req' = [req EXCEPT ![r].engine = state,
                                ![r].phase = IF Is(r, "commit") THEN "preview" ELSE "lookup"]
       \/ /\ Is(r, "put")
          /\ IF state # None /\ (Call(r).expected = None \/ Call(r).body.ver < state.ver)
             THEN Ends(r) ELSE Goes(r, "upload")
       \/ /\ Replays(r)
          /\ req' = [req EXCEPT ![r].known = state, ![r].phase = "lookup"]
    /\ UNCHANGED <<Stores, sent, told, faults>>

(* commitPreview reads the preview before it looks the key up. *)
ReadPreview(r) ==
    /\ At(r, "preview")
    /\ \E p \in previews :
          /\ p.id = Call(r).preview
          /\ req' = [req EXCEPT ![r].preview = p, ![r].phase = "lookup"]
    /\ UNCHANGED <<Stores, sent, told, faults>>

(* What a client is told of its commands; found are those of a replay that
   ran, and whose records were then found to be there already. *)
Answers(of, found) ==
    {[key |-> row.key, cmd |-> row.cmd, ver |-> row.ver, found |-> found] : row \in of}

(* A client is told what the record of its command says. *)
TellRecorded(row) == told' = IF row.ok THEN told \cup Answers({row}, FALSE) ELSE told

(* Variant: the record of another command answers the key. *)
AnswerByKey(r) ==
    /\ Ends(r)
    /\ \E row \in Named(Call(r).key) : TellRecorded([row EXCEPT !.cmd = Call(r).kind])

(* A recorded key is answered with its record, or refused when the record is
   of something else. *)
AnswerFromRecord(r) ==
    /\ Ends(r)
    /\ \E row \in Named(Call(r).key) :
          IF Same(row, Call(r)) THEN TellRecorded(row) ELSE UNCHANGED told

(* getCommand, and past it the command runs on a copy of the engine. *)
Lookup(r) ==
    /\ At(r, "lookup")
    /\ ~Replays(r)
    /\ \/ /\ Named(Call(r).key) # {}
          /\ AnswerFromRecord(r)
       \/ /\ Named(Call(r).key) = {}
          /\ IF \/ Is(r, "commit") /\ req[r].preview.status # "PENDING"
                \/ Is(r, "commit") /\ req[r].preview.base # req[r].engine.ver
                \/ Is(r, "preview") /\ ~Works(Call(r).key, req[r].engine)
             THEN Ends(r)
             ELSE Goes(r, "write")
          /\ UNCHANGED told
    /\ UNCHANGED <<Stores, sent, faults>>

(* The replay route asks for all its keys, and runs the batch in private on
   the base it chose, which a base in its body replaces unless it is older;
   nothing is written unless every action succeeds. *)
LookupBatch(r) ==
    LET call == Call(r)
        existing == IF call.fromStored THEN req[r].known ELSE None
        begin == IF existing # None THEN existing ELSE call.start
        base == IF call.base # None THEN call.base ELSE begin
        runs == \A i \in DOMAIN call.batch :
                    Act(call, i) = "replay" => Works(call.batch[i], Ground(call, base))
        meets == req[r].known = None \/ req[r].known.ver = base.ver
    IN
    /\ At(r, "lookup")
    /\ Replays(r)
    /\ IF AnyNamed(call) \/ base.ver < begin.ver \/ ~runs \/ (existing = None /\ ~meets)
       THEN Ends(r)
       ELSE req' = [req EXCEPT ![r].engine = base,
                               ![r].phase = IF existing = None THEN "base" ELSE "check"]
    /\ told' = IF Recorded(call, rows) THEN told \cup Answers(RecordsOf(call, rows), FALSE) ELSE told
    /\ UNCHANGED <<Stores, sent, faults>>

(* commitReplay asks for the version first, *)
CheckVersion(r) ==
    /\ At(r, "check")
    /\ IF state = None \/ state.ver # req[r].engine.ver THEN Ends(r) ELSE Goes(r, "records")
    /\ UNCHANGED <<Stores, sent, told, faults>>

(* and then for the records, as it does once more after a batch that inserted
   none.  Finding all of them it answers ok, and the route answers with the
   results of its own run. *)
CheckRecords(r) ==
    /\ At(r, "records") \/ At(r, "raced")
    /\ IF At(r, "raced") \/ AnyNamed(Call(r)) THEN Ends(r) ELSE Goes(r, "write")
    /\ told' = IF Recorded(Call(r), rows)
               THEN told \cup Answers(ReplayRows(Call(r), req[r].engine), TRUE) ELSE told
    /\ UNCHANGED <<Stores, sent, faults>>

-----------------------------------------------------------------------------
(* The writes.  A lost answer leaves the write in place and ends the       *)
(* request; the reads a write starts with only refuse it earlier.          *)

Loses(lost) ==
    /\ lost => faults < MaxFaults
    /\ faults' = IF lost THEN faults + 1 ELSE faults

(* Variant: an expected version is only not to be newer. *)
PutLandsOnNewer(record, expected) ==
    \/ state = None
    \/ expected = None /\ state.ver <= record.ver
    \/ expected # None /\ state.ver >= expected

(* put without force *)
PutLands(record, expected) ==
    \/ state = None
    \/ expected = None /\ state.ver <= record.ver
    \/ expected # None /\ state.ver = expected

Put(record, expected, blind) ==
    /\ state' = IF PutLands(record, expected) THEN record ELSE state
    /\ overwritten' = (overwritten \/ (blind /\ state # None /\ state' # state))

Upload(r, lost) ==
    /\ At(r, "upload")
    /\ Put(Call(r).body, Call(r).expected, Call(r).expected = None)
    /\ Loses(lost)
    /\ Ends(r)
    /\ UNCHANGED <<rows, previews, sent, told, applied>>

(* A reset or seed of a sandbox that was not there creates it first, with
   version 0 expected; the seed route creates its scenario. *)
Create(r, lost) ==
    /\ At(r, "create")
    /\ Put(req[r].engine, 0, FALSE)
    /\ Loses(lost)
    /\ IF lost \/ ~PutLands(req[r].engine, 0) THEN Ends(r) ELSE Goes(r, "lookup")
    /\ UNCHANGED <<rows, previews, sent, told, applied>>

(* The base of a replay that does not start from the stored state.  It replaces
   a stored state of its version, and a scenario is not made from that. *)
WriteBase(r, lost) ==
    LET expected == IF req[r].known = None THEN None ELSE req[r].known.ver
    IN
    /\ At(r, "base")
    /\ Put(req[r].engine, expected, expected = None \/ req[r].engine = Fixture)
    /\ Loses(lost)
    /\ IF lost \/ ~PutLands(req[r].engine, expected) THEN Ends(r) ELSE Goes(r, "check")
    /\ UNCHANGED <<rows, previews, sent, told, applied>>

(* The statements of a batch.  The command row goes in if the version is the
   expected one, the key is free and the preview still pending; the state is
   replaced if its version is the expected one and a row of this very command
   is there, which is the row of an identical request, too. *)
PreviewPending(r) ==
    Is(r, "commit") => \E p \in previews : p.id = Call(r).preview /\ p.status = "PENDING"

RowGoesIn(r) ==
    /\ state # None
    /\ state.ver = req[r].engine.ver
    /\ Named(Call(r).key) = {}
    /\ PreviewPending(r)

(* Variant: the state is replaced whatever its version is by now. *)
StateGoesInAnyway(r, recorded) == Exact(recorded, Call(r))

StateGoesIn(r, recorded) ==
    /\ state = None \/ state.ver = req[r].engine.ver
    /\ Exact(recorded, Call(r))

PreviewsAfter(r, recorded) ==
    IF ~Exact(recorded, Call(r)) THEN previews
    ELSE IF Is(r, "preview")
    THEN previews \cup {[id |-> req[r].id, base |-> req[r].engine.ver, status |-> "PENDING"]}
    ELSE {IF Is(r, "commit") /\ p.id = Call(r).preview THEN [p EXCEPT !.status = "COMMITTED"] ELSE p :
            p \in previews}

(* Which keys a write brings into the state. *)
Counted(keys) ==
    applied' = [key \in Keys |-> IF key \in keys THEN applied[key] + 1 ELSE applied[key]]

(* commitCommand and putPreviewAndCommand *)
WriteCommand(r, lost) ==
    LET call == Call(r)
        row == RowFor(call, req[r].engine)
        recorded == IF RowGoesIn(r) THEN rows \cup {row} ELSE rows
        effect == StateGoesIn(r, recorded)
    IN
    /\ At(r, "write")
    /\ ~Replays(r)
    /\ rows' = recorded
    /\ state' = IF effect THEN After(call, req[r].engine) ELSE state
    /\ previews' = PreviewsAfter(r, recorded)
    /\ Counted(IF effect /\ ~Is(r, "preview") /\ row.ok THEN {call.key} ELSE {})
    /\ Loses(lost)
    /\ Ends(r)
    /\ IF lost THEN UNCHANGED told
       ELSE IF RowGoesIn(r) THEN TellRecorded(row)
       ELSE IF Exact(rows, call) THEN \E old \in Named(call.key) : TellRecorded(old)
       ELSE UNCHANGED told
    /\ UNCHANGED <<sent, overwritten>>

(* The read a write starts with finds the key recorded since the look-up. *)
FoundBeforeWrite(r) ==
    /\ At(r, "write")
    /\ ~Replays(r)
    /\ Named(Call(r).key) # {}
    /\ AnswerFromRecord(r)
    /\ UNCHANGED <<Stores, sent, faults>>

(* Variant: one INSERT per action instead of one for the batch. *)
BatchRowsOneByOne(r) ==
    IF state # None /\ state.ver = req[r].engine.ver
    THEN {row \in ReplayRows(Call(r), req[r].engine) : Named(row.key) = {}}
    ELSE {}

(* One INSERT ... SELECT writes all rows of a replay or none. *)
BatchRows(r) ==
    IF /\ state # None
       /\ state.ver = req[r].engine.ver
       /\ ~AnyNamed(Call(r))
    THEN ReplayRows(Call(r), req[r].engine)
    ELSE {}

(* commitReplay: the state follows if it is still the expected version and
   all rows of the batch are there.  An import alone leaves the version. *)
WriteReplay(r, lost) ==
    LET call == Call(r)
        recorded == rows \cup BatchRows(r)
        effect == state.ver = req[r].engine.ver /\ Recorded(call, recorded)
        new == After(call, req[r].engine)
    IN
    /\ At(r, "write")
    /\ Replays(r)
    /\ rows' = recorded
    /\ state' = IF effect THEN new ELSE state
    /\ overwritten' = (overwritten \/ (effect /\ new.ver = state.ver /\ new # state))
    /\ Counted(IF effect THEN Effects(call) ELSE {})
    /\ Loses(lost)
    /\ IF lost \/ BatchRows(r) # {} THEN Ends(r) ELSE Goes(r, "raced")
    /\ told' = IF lost THEN told ELSE told \cup Answers(BatchRows(r), FALSE)
    /\ UNCHANGED <<previews, sent>>

(* A store call fails, or the worker restarts: the request ends there. *)
Fails(r) ==
    /\ ~At(r, "idle")
    /\ faults < MaxFaults
    /\ faults' = faults + 1
    /\ Ends(r)
    /\ UNCHANGED <<Stores, sent, told>>

-----------------------------------------------------------------------------
Serve(r) ==
    \/ ReadState(r)
    \/ ReadPreview(r)
    \/ Lookup(r)
    \/ LookupBatch(r)
    \/ CheckVersion(r)
    \/ CheckRecords(r)
    \/ FoundBeforeWrite(r)
    \/ \E lost \in BOOLEAN :
          \/ Upload(r, lost)
          \/ Create(r, lost)
          \/ WriteBase(r, lost)
          \/ WriteCommand(r, lost)
          \/ WriteReplay(r, lost)

Next == \E r \in Requests : Send(r) \/ Serve(r) \/ Fails(r)

Spec == Init /\ [][Next]_vars

-----------------------------------------------------------------------------
Stages == {"read", "preview", "lookup", "create", "upload", "base", "check", "records", "write",
           "raced"}
Commands == {"preview", "commit", "reset"} \cup ReplayKinds

(* What the commands recorded may discard is what the sandbox was built from. *)
Discards == {"reset", "reload", "import"}

Previews == [id : 1 .. MaxSent, base : Nat, status : {"PENDING", "COMMITTED"}]

CallSet ==
    [kind : {"preview"}, key : Keys]
    \cup [kind : {"reset"}, key : Keys, start : {Seed, Fixture}]
    \cup [kind : {"commit"}, key : Keys, preview : 1 .. MaxSent]
    \cup [kind : {"put"}, body : States, expected : Nat \cup {None}]
    \cup [kind : ReplayKinds, batch : Batches, fromStored : BOOLEAN, start : {Seed, Fixture},
          base : States \cup {None}]

Serving ==
    [phase : Stages, call : CallSet, id : 1 .. MaxSent, known : States \cup {None},
     engine : States, preview : Previews \cup {None}]

TypeOK ==
    /\ state \in States \cup {None}
    /\ rows \subseteq [key : Keys, cmd : Commands, ok : BOOLEAN, ver : Nat]
    /\ previews \subseteq Previews
    /\ req \in [Requests -> Serving \cup {Idle}]
    /\ sent \in 0 .. MaxSent
    /\ applied \in [Keys -> Nat] /\ overwritten \in BOOLEAN
    /\ faults \in 0 .. MaxFaults

(* However a command is raced, retried or cut off, its effect is written into
   the sandbox at most once. *)
AppliedOnce == \A key \in Keys : applied[key] <= 1

(* What a client was told is recorded, as the command it sent; and with the
   version it was told, unless its replay ran to the end and found that another
   request had recorded the same actions meanwhile. *)
AnswersAreRecorded ==
    \A answer \in told :
        \E row \in rows :
            /\ row.ok /\ row.key = answer.key /\ row.cmd = answer.cmd
            /\ row.ver = answer.ver \/ (answer.found /\ answer.cmd \in ReplayKinds)

(* The actions of a replay are recorded together or not at all, also when one
   of their keys is taken meanwhile. *)
ReplaysAreWhole ==
    \A row \in rows : row.cmd \in ReplayKinds =>
        \E batch \in Batches :
            /\ row.key \in ToSet(batch)
            /\ \A key \in ToSet(batch) :
                  \E other \in rows : other.key = key /\ other.cmd \in ReplayKinds

(* The sandbox only moves on: no write takes its version back, and none loses
   a command it was built from, unless a reset, a loaded scenario or an import
   is recorded with it.  This ends where versions end telling states apart: when
   a creating write lands on a sandbox that another request created meanwhile,
   when the scenario a replay starts from replaces a sandbox of version 1, or
   when a replay does nothing but import a state of the version it finds. *)
CommandsAreKept ==
    [][state # None =>
          /\ state'.ver >= state.ver
          /\ \/ state.ops \cap Keys \subseteq state'.ops
             \/ \E row \in rows' \ rows : row.cmd \in Discards
             \/ overwritten']_vars

=============================================================================
