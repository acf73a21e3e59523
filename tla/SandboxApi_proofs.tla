------------------------- MODULE SandboxApi_proofs -------------------------
(***************************************************************************)
(* What SandboxApi promises for any requests, keys and batches: its types, *)
(* AppliedOnce, AnswersAreRecorded, ReplaysAreWhole and CommandsAreKept.   *)
(***************************************************************************)
EXTENDS SandboxApi, TLAPS

(* The state a request would work on: the seed before there is one. *)
Stored == IF state = None THEN Seed ELSE state

CommandsOf(s) == s.ops \cap Keys

(* A copy of the state fits what is stored: it is not newer, and of the same
   version it has the same commands (the edits may differ). *)
Fits(copy) ==
    /\ copy.ver <= Stored.ver
    /\ copy.ver = Stored.ver /\ ~overwritten => CommandsOf(copy) = CommandsOf(Stored)

(* What the upload of an edited state expects of the one it replaces. *)
Replaced(call) ==
    [ver |-> IF call.expected = None THEN 0 ELSE call.expected, ops |-> call.body.ops]

CopiesOf(r) ==
    (IF At(r, "create") \/ At(r, "base") THEN {} ELSE {req[r].engine})
    \cup (IF req[r].known = None THEN {} ELSE {req[r].known})
    \cup (IF Replays(r) /\ Call(r).base # None THEN {Call(r).base} ELSE {})
    \cup (IF Is(r, "put") THEN {Replaced(Call(r))} ELSE {})

Busy == {r \in Requests : req[r] # Idle}

(* A scenario that is about to be put fits nothing yet. *)
CopiesFit(r) ==
    /\ \A copy \in CopiesOf(r) : Fits(copy)
    /\ At(r, "create") => req[r].engine \in {Seed, Fixture}
    /\ At(r, "base") => req[r].engine \in {Seed, Fixture} \/ Fits(req[r].engine)
    /\ Is(r, "put") => Replaced(Call(r)).ver <= Call(r).body.ver

CopiesIInv ==
    /\ Fits(Seed)
    /\ \A r \in Busy : CopiesFit(r)

(* The sandbox moves on: to a later version, or to other edits in the same. *)
MovesOn ==
    /\ Stored.ver <= Stored'.ver
    /\ overwritten => overwritten'
    /\ (Stored'.ver = Stored.ver /\ ~overwritten') => CommandsOf(Stored)' = CommandsOf(Stored)

(* The commands the sandbox was built from stay in it. *)
Keeps ==
    \/ CommandsOf(Stored) \subseteq Stored'.ops
    \/ \E row \in rows' \ rows : row.cmd \in Discards
    \/ overwritten'

(* How far a request has got. *)
StageOf(r) ==
    /\ At(r, "upload") => Is(r, "put")
    /\ Is(r, "put") => At(r, "read") \/ At(r, "upload")
    /\ req[r].phase \in {"base", "check", "records", "raced"} => Replays(r)
    /\ At(r, "create") => Is(r, "reset")
    /\ req[r].phase \in {"check", "records", "write", "raced", "preview"} => state # None
    /\ req[r].known # None => state # None
    /\ At(r, "lookup") /\ ~Replays(r) => state # None
    /\ At(r, "base") /\ req[r].known # None => req[r].engine.ver = req[r].known.ver

StagesIInv ==
    /\ rows # {} => state # None
    /\ \A r \in Busy : StageOf(r)

KeysOf(r) ==
    IF Is(r, "put") THEN {}
    ELSE IF Replays(r) THEN ToSet(Call(r).batch) ELSE {Call(r).key}

(* The commands whose effect is written with their row, and found in it. *)
Written == {"reset", "reload", "replay"}

(* Once the effect of a key is in the state, no request that would write it
   again is at the version that is stored. *)
OnceIInv ==
    /\ AppliedOnce
    /\ \A row \in rows : row.cmd \in Written => applied[row.key] >= 1
    /\ \A key \in Keys : applied[key] >= 1 =>
          /\ state # None
          /\ Named(key) # {}
          /\ \A r \in Busy :
                At(r, "write") /\ key \in KeysOf(r) => req[r].engine.ver < state.ver

(* Replays are recorded only when all their actions succeeded. *)
RecordsIInv ==
    /\ AnswersAreRecorded
    /\ ReplaysAreWhole
    /\ \A row \in rows : row.cmd \in ReplayKinds => row.ok

-----------------------------------------------------------------------------
(* The seed is a state, and a state has a version and operations. *)
LEMMA StateFacts ==
    /\ Seed \in States /\ Seed.ver = 0 /\ CommandsOf(Seed) = {}
    /\ Fixture \in States /\ Fixture.ver = 1 /\ CommandsOf(Fixture) = {}
    /\ Stored = IF state = None THEN Seed ELSE state
    /\ \A s \in States : s # None /\ s.ver \in Nat /\ s.ops \subseteq Keys \cup Edits
    /\ \A n \in Nat, ops \in SUBSET (Keys \cup Edits) : [ver |-> n, ops |-> ops] \in States
BY ApiAssumption DEF Seed, Fixture, States, CommandsOf, Stored

(* What a call of each kind carries. *)
LEMMA CallFacts ==
    ASSUME NEW call \in CallSet
    PROVE  /\ call.kind \in {"preview", "reset", "commit", "put"} \cup ReplayKinds
           /\ call.kind \in {"preview", "reset", "commit"} => call.key \in Keys
           /\ call.kind = "reset" => call.start \in {Seed, Fixture}
           /\ call.kind = "commit" => call.preview \in 1 .. MaxSent
           /\ call.kind = "put" => call.body \in States /\ call.expected \in Nat \cup {None}
           /\ call.kind \in ReplayKinds => /\ call.batch \in Batches
                                           /\ call.fromStored \in BOOLEAN
                                           /\ call.start \in {Seed, Fixture}
                                           /\ call.base \in States \cup {None}
BY DEF CallSet, ReplayKinds

(* A batch names keys, and at least one. *)
LEMMA BatchFacts ==
    ASSUME NEW batch \in Batches
    PROVE  /\ batch \in Seq(Keys) /\ Len(batch) \in Nat /\ Len(batch) >= 1
           /\ DOMAIN batch = 1 .. Len(batch)
           /\ ToSet(batch) \subseteq Keys
           /\ \A i \in DOMAIN batch : batch[i] \in ToSet(batch)
           /\ \A key \in ToSet(batch) : \E i \in DOMAIN batch : key = batch[i]
BY ApiAssumption DEF ToSet

(* What a replay's actions do to the version, and bring into the state. *)
LEMMA EffectFacts ==
    ASSUME NEW call \in CallSet, call.kind \in ReplayKinds
    PROVE  /\ \A i \in DOMAIN call.batch : Moved(call, i) \in Nat
           /\ Moved(call, Len(call.batch)) \in Nat
           /\ Effects(call) \subseteq ToSet(call.batch) /\ Effects(call) \subseteq Keys
           /\ Effects(call) # {} => Moved(call, Len(call.batch)) >= 1
           /\ call.kind # "import" => /\ Effects(call) = ToSet(call.batch)
                                      /\ Moved(call, Len(call.batch)) >= 1
           /\ \A i \in DOMAIN call.batch :
                 Act(call, i) \in ReplayKinds /\ (Act(call, i) # "import" => call.batch[i] \in Effects(call))
           /\ Moved(call, Len(call.batch)) = 0 \/ Moved(call, Len(call.batch)) >= 1
<1>1. /\ DOMAIN call.batch = 1 .. Len(call.batch) /\ Len(call.batch) \in Nat
      /\ Len(call.batch) >= 1
      /\ \A i \in DOMAIN call.batch : call.batch[i] \in ToSet(call.batch)
      /\ \A key \in ToSet(call.batch) : \E i \in DOMAIN call.batch : key = call.batch[i]
      /\ ToSet(call.batch) \subseteq Keys
  BY CallFacts, BatchFacts
<1>2. /\ \A i \in DOMAIN call.batch : Moved(call, i) \in Nat
      /\ Moved(call, Len(call.batch)) \in Nat
  BY <1>1 DEF Moved
<1>3. Effects(call) \subseteq ToSet(call.batch)
  BY <1>1 DEF Effects
<1>4. ASSUME Effects(call) # {}
      PROVE  Moved(call, Len(call.batch)) >= 1
  <2>1. PICK i \in DOMAIN call.batch : Act(call, i) # "import"
    BY <1>4 DEF Effects
  <2>2. CASE call.kind = "import"
    <3>1. i # 1 /\ i \in 1 .. Len(call.batch)
      BY <1>1, <2>1, <2>2 DEF Act
    <3> QED
      BY <1>1, <2>2, <3>1 DEF Moved
  <2>3. CASE call.kind # "import"
    BY <1>1, <2>3 DEF Moved
  <2> QED
    BY <2>2, <2>3
<1>5. \A i \in DOMAIN call.batch :
        Act(call, i) \in ReplayKinds /\ (Act(call, i) # "import" => call.batch[i] \in Effects(call))
  BY DEF Act, Effects, ReplayKinds
<1>6. ASSUME call.kind # "import"
      PROVE  Effects(call) = ToSet(call.batch) /\ Moved(call, Len(call.batch)) >= 1
  <2>1. \A i \in DOMAIN call.batch : Act(call, i) # "import"
    BY <1>6 DEF Act
  <2> QED
    BY <1>1, <1>3, <1>5, <1>6, <2>1 DEF Moved
<1>7. Moved(call, Len(call.batch)) = 0 \/ Moved(call, Len(call.batch)) >= 1
  BY <1>2
<1> QED
  BY <1>1, <1>2, <1>3, <1>4, <1>5, <1>6, <1>7

(* A request that is not idle carries a call, copies and a stage. *)
LEMMA RequestFacts ==
    ASSUME TypeOK, NEW r \in Requests, req[r] # Idle \/ ~At(r, "idle")
    PROVE  /\ req[r] \in Serving /\ req[r] # Idle
           /\ req[r] = [phase |-> req[r].phase, call |-> req[r].call, id |-> req[r].id,
                        known |-> req[r].known, engine |-> req[r].engine,
                        preview |-> req[r].preview]
           /\ req[r].phase \in Stages /\ ~At(r, "idle")
           /\ Call(r) \in CallSet
           /\ req[r].id \in 1 .. MaxSent
           /\ req[r].known \in States \cup {None}
           /\ req[r].engine \in States
           /\ req[r].preview \in Previews \cup {None}
<1>1. req[r] \in Serving
  BY DEF TypeOK, At, Idle
<1> QED
  BY <1>1 DEF Serving, Call, Stages, At, Idle

(* A request that moves on keeps what it carries. *)
LEMMA GoesOn ==
    ASSUME TypeOK, NEW r \in Requests, req[r] # Idle, NEW phase \in Stages, Goes(r, phase)
    PROVE  /\ req' = [req EXCEPT ![r] = [req[r] EXCEPT !.phase = phase]]
           /\ req'[r] \in Serving /\ req' \in [Requests -> Serving \cup {Idle}]
           /\ req'[r].phase = phase
           /\ req'[r].call = req[r].call /\ req'[r].id = req[r].id
           /\ req'[r].known = req[r].known /\ req'[r].engine = req[r].engine
           /\ req'[r].preview = req[r].preview
<1>1. req[r] \in Serving /\ req \in [Requests -> Serving \cup {Idle}]
  BY RequestFacts DEF TypeOK
<1>2. req' = [req EXCEPT ![r] = [req[r] EXCEPT !.phase = phase]]
  BY <1>1 DEF Goes
<1>3. [req[r] EXCEPT !.phase = phase] \in Serving
  BY <1>1 DEF Serving
<1> QED
  BY <1>1, <1>2, <1>3 DEF Serving

(* A request that ends is idle. *)
LEMMA EndsIdle ==
    ASSUME TypeOK, NEW r \in Requests, Ends(r)
    PROVE  req'[r] = Idle /\ req' \in [Requests -> Serving \cup {Idle}]
BY DEF TypeOK, Ends

(* The working copy after a command is a state that is not older. *)
LEMMA AfterIsAState ==
    ASSUME NEW call \in CallSet, call.kind # "put", NEW s \in States
    PROVE  After(call, s) \in States /\ After(call, s).ver >= s.ver
<1> s = [ver |-> s.ver, ops |-> s.ops] /\ s.ver \in Nat /\ s.ops \subseteq Keys \cup Edits
  BY DEF States
<1>1. CASE call.kind = "reset"
  BY <1>1, CallFacts, StateFacts DEF After, ReplayKinds
<1>2. CASE call.kind = "commit"
  BY <1>2, CallFacts, StateFacts DEF After, ReplayKinds
<1>3. CASE call.kind = "preview"
  BY <1>3 DEF After, ReplayKinds
<1>4. CASE call.kind \in ReplayKinds
  <2> DEFINE moved == Moved(call, Len(call.batch))
             ops == Ground(call, s).ops \cup Effects(call)
  <2>1. After(call, s) = [ver |-> s.ver + moved, ops |-> ops]
    BY <1>4 DEF After, ReplayKinds
  <2>2. moved \in Nat /\ Effects(call) \subseteq Keys
    BY <1>4, EffectFacts
  <2>3. Ground(call, s).ops \subseteq s.ops
    BY DEF Ground
  <2> HIDE DEF moved
  <2>4. s.ver + moved \in Nat /\ s.ver + moved >= s.ver /\ ops \in SUBSET (Keys \cup Edits)
    BY <2>2, <2>3
  <2> HIDE DEF ops
  <2> QED
    BY <2>1, <2>4, StateFacts
<1> QED
  BY <1>1, <1>2, <1>3, <1>4, CallFacts

-----------------------------------------------------------------------------
(* What an operator uploads is a state, of the version it was read at or the
   next one, built from the same commands. *)
LEMMA EditedIsAState ==
    ASSUME TypeOK, NEW edit \in Edits, NEW runs \in BOOLEAN
    PROVE  /\ Edited(edit, runs) \in States
           /\ Edited(edit, runs).ver = IF runs THEN Stored.ver + 1 ELSE Stored.ver
           /\ CommandsOf(Edited(edit, runs)) = CommandsOf(Stored)
<1> Stored \in States
  BY StateFacts DEF TypeOK
<1> Edited(edit, runs) = [ver |-> IF runs THEN Stored.ver + 1 ELSE Stored.ver,
                          ops |-> Stored.ops \cup {edit}]
  BY DEF Edited, Stored
<1>1. Stored.ver \in Nat /\ Stored.ops \cup {edit} \subseteq Keys \cup Edits
  BY StateFacts
<1>2. (Stored.ops \cup {edit}) \cap Keys = Stored.ops \cap Keys
  BY ApiAssumption
<1> QED
  BY <1>1, <1>2, StateFacts DEF CommandsOf

(* What clients send: commands, uploads and replays. *)
Fresh == [kind : {"preview"}, key : Keys] \cup [kind : {"reset"}, key : Keys, start : {Seed, Fixture}]

Commits == [kind : {"commit"}, key : Keys, preview : {p.id : p \in previews}]

Uploads ==
    [kind : {"put"}, body : {Edited(e, runs) : e \in Edits, runs \in BOOLEAN}, expected : {Seen}]

ReplaysSent ==
    [kind : ReplayKinds, batch : Batches, fromStored : BOOLEAN, start : {Seed, Fixture},
     base : {None} \cup {Edited(e, FALSE) : e \in Edits}]

(* The calls a client may make are of the set of calls. *)
LEMMA CallsAreCalls ==
    ASSUME TypeOK
    PROVE  Calls \subseteq CallSet
<1>1. {p.id : p \in previews} \subseteq 1 .. MaxSent
  BY DEF TypeOK, Previews
<1>2. \A runs \in BOOLEAN : {Edited(e, runs) : e \in Edits} \subseteq States
  BY EditedIsAState
<1>3. Seen \in Nat \cup {None}
  BY StateFacts DEF Seen, TypeOK
<1>4. Calls = Fresh \cup Commits \cup Uploads \cup ReplaysSent
  BY DEF Calls, Fresh, Commits, Uploads, ReplaysSent
<1>5. Fresh \subseteq CallSet
  BY DEF CallSet, Fresh
<1>6. Commits \subseteq CallSet
  <2>1. Commits \subseteq [kind : {"commit"}, key : Keys, preview : 1 .. MaxSent]
    BY <1>1 DEF Commits
  <2> QED
    BY <2>1 DEF CallSet
<1>7. Uploads \subseteq CallSet
  <2>1. Uploads \subseteq [kind : {"put"}, body : States, expected : Nat \cup {None}]
    BY <1>3, EditedIsAState DEF Uploads
  <2> QED
    BY <2>1 DEF CallSet
<1>8. ReplaysSent \subseteq CallSet
  <2>1. ReplaysSent \subseteq [kind : ReplayKinds, batch : Batches, fromStored : BOOLEAN,
                               start : {Seed, Fixture}, base : States \cup {None}]
    BY <1>2 DEF ReplaysSent
  <2> QED
    BY <2>1 DEF CallSet
<1> QED
  BY <1>4, <1>5, <1>6, <1>7, <1>8

(* What a replay and an upload that a client makes carry. *)
LEMMA CallsCarry ==
    ASSUME NEW call \in Calls
    PROVE  /\ call.kind \in ReplayKinds => call.base \in {None} \cup {Edited(e, FALSE) : e \in Edits}
           /\ call.kind = "put" =>
                 /\ call.expected = Seen
                 /\ \E e \in Edits, runs \in BOOLEAN : call.body = Edited(e, runs)
<1>1. Calls = Fresh \cup Commits \cup Uploads \cup ReplaysSent
  BY DEF Calls, Fresh, Commits, Uploads, ReplaysSent
<1> DEFINE Bases == {None} \cup {Edited(e, FALSE) : e \in Edits}
           IsUpload(upload) == /\ upload.kind = "put" /\ upload.expected = Seen
                               /\ \E e \in Edits, runs \in BOOLEAN : upload.body = Edited(e, runs)
<1>2. \A fresh \in Fresh \cup Commits : fresh.kind # "put" /\ fresh.kind \notin ReplayKinds
  BY DEF Fresh, Commits, ReplayKinds
<1>3. \A upload \in Uploads : IsUpload(upload) /\ upload.kind \notin ReplayKinds
  BY DEF Uploads, ReplayKinds
<1>4. \A replay \in ReplaysSent : replay.kind # "put" /\ replay.base \in Bases
  BY DEF ReplaysSent, ReplayKinds
<1>5. (call.kind \in ReplayKinds => call.base \in Bases) /\ (call.kind = "put" => IsUpload(call))
  <2> HIDE DEF Bases, IsUpload
  <2>1. call \in Fresh \/ call \in Commits \/ call \in Uploads \/ call \in ReplaysSent
    BY <1>1
  <2> QED
    BY <2>1, <1>2, <1>3, <1>4
<1> QED
  BY <1>5

(* A request that is sent has the types of one. *)
LEMMA SendTypes ==
    ASSUME TypeOK, NEW r \in Requests, Send(r)
    PROVE  TypeOK'
<1>1. PICK call \in Calls :
        req' = [req EXCEPT ![r] = [phase |-> "read", call |-> call, id |-> sent + 1,
                                   known |-> None, engine |-> Seed, preview |-> None]]
  BY DEF Send
<1>2. sent + 1 \in 1 .. MaxSent /\ sent' \in 0 .. MaxSent
  BY ApiAssumption DEF Send, TypeOK
<1>3. [phase |-> "read", call |-> call, id |-> sent + 1,
       known |-> None, engine |-> Seed, preview |-> None] \in Serving
  BY <1>2, CallsAreCalls, StateFacts DEF Serving, Stages
<1>4. req' \in [Requests -> Serving \cup {Idle}]
  BY <1>1, <1>3 DEF TypeOK
<1> QED
  BY <1>2, <1>4 DEF Send, TypeOK

(* What a read may carry away: the state, the seed, or a copy it has. *)
LEMMA ReadStateTypes ==
    ASSUME TypeOK, NEW r \in Requests, ReadState(r)
    PROVE  TypeOK'
<1> USE RequestFacts
<1>1. req[r] # Idle /\ req[r] \in Serving
  BY DEF ReadState, At, Idle
<1>2. CASE Ends(r)
  BY <1>2, EndsIdle DEF ReadState, Stores, TypeOK
<1>3. CASE Goes(r, "upload")
  BY <1>1, <1>3, GoesOn DEF ReadState, Stores, TypeOK, Stages
<1>6. CASE /\ Is(r, "reset")
           /\ req' = [req EXCEPT ![r].engine = Call(r).start, ![r].phase = "create"]
  <2>0. Call(r).start \in States
    BY <1>1, <1>6, CallFacts, StateFacts DEF Is
  <2>1. req' = [req EXCEPT ![r] = [req[r] EXCEPT !.engine = Call(r).start, !.phase = "create"]]
    BY <1>6
  <2>2. [req[r] EXCEPT !.engine = Call(r).start, !.phase = "create"] \in Serving
    BY <1>1, <2>0 DEF Serving, Stages
  <2>3. req' \in [Requests -> Serving \cup {Idle}]
    BY <2>1, <2>2 DEF TypeOK
  <2> QED
    BY <2>3 DEF ReadState, Stores, TypeOK
<1>4. CASE /\ state # None
           /\ req' = [req EXCEPT ![r].engine = state,
                                 ![r].phase = IF Is(r, "commit") THEN "preview" ELSE "lookup"]
  <2> DEFINE stage == IF Is(r, "commit") THEN "preview" ELSE "lookup"
  <2>1. req' = [req EXCEPT ![r] = [req[r] EXCEPT !.engine = state, !.phase = stage]]
    BY <1>4
  <2>2. [req[r] EXCEPT !.engine = state, !.phase = stage] \in Serving
    BY <1>1, <1>4 DEF Serving, Stages, TypeOK
  <2>3. req' \in [Requests -> Serving \cup {Idle}]
    BY <2>1, <2>2 DEF TypeOK
  <2> QED
    BY <2>3 DEF ReadState, Stores, TypeOK
<1>5. CASE req' = [req EXCEPT ![r].known = state, ![r].phase = "lookup"]
  <2>1. req' = [req EXCEPT ![r] = [req[r] EXCEPT !.known = state, !.phase = "lookup"]]
    BY <1>5
  <2>2. [req[r] EXCEPT !.known = state, !.phase = "lookup"] \in Serving
    BY <1>1 DEF Serving, Stages, TypeOK
  <2>3. req' \in [Requests -> Serving \cup {Idle}]
    BY <2>1, <2>2 DEF TypeOK
  <2> QED
    BY <2>3 DEF ReadState, Stores, TypeOK
<1> QED
  BY <1>2, <1>3, <1>4, <1>5, <1>6 DEF ReadState

LEMMA ReadPreviewTypes ==
    ASSUME TypeOK, NEW r \in Requests, ReadPreview(r)
    PROVE  TypeOK'
<1>1. req[r] # Idle /\ req[r] \in Serving
  BY RequestFacts DEF ReadPreview, At, Idle
<1>2. PICK p \in previews : req' = [req EXCEPT ![r].preview = p, ![r].phase = "lookup"]
  BY DEF ReadPreview
<1>3. req' = [req EXCEPT ![r] = [req[r] EXCEPT !.preview = p, !.phase = "lookup"]]
  BY <1>2
<1>4. [req[r] EXCEPT !.preview = p, !.phase = "lookup"] \in Serving
  BY <1>1 DEF Serving, Stages, TypeOK
<1>5. req' \in [Requests -> Serving \cup {Idle}]
  BY <1>3, <1>4 DEF TypeOK
<1> QED
  BY <1>5 DEF ReadPreview, Stores, TypeOK

LEMMA LookupTypes ==
    ASSUME TypeOK, NEW r \in Requests, Lookup(r) \/ FoundBeforeWrite(r)
    PROVE  TypeOK'
<1>1. req[r] # Idle
  BY DEF Lookup, FoundBeforeWrite, At, Idle
<1>2. Ends(r) \/ Goes(r, "write")
  BY DEF Lookup, FoundBeforeWrite, AnswerFromRecord
<1>3. req' \in [Requests -> Serving \cup {Idle}]
  BY <1>1, <1>2, EndsIdle, GoesOn DEF Stages
<1> QED
  BY <1>3 DEF Lookup, FoundBeforeWrite, Stores, TypeOK

LEMMA LookupBatchTypes ==
    ASSUME TypeOK, NEW r \in Requests, LookupBatch(r)
    PROVE  TypeOK'
<1> DEFINE existing == IF Call(r).fromStored THEN req[r].known ELSE None
           begin == IF existing # None THEN existing ELSE Call(r).start
           base == IF Call(r).base # None THEN Call(r).base ELSE begin
           stage == IF existing = None THEN "base" ELSE "check"
<1>1. req[r] # Idle /\ req[r] \in Serving /\ Call(r) \in CallSet /\ Replays(r)
  BY RequestFacts DEF LookupBatch, At, Idle
<1>2. base \in States
  BY <1>1, RequestFacts, CallFacts, StateFacts DEF Replays
<1>3. Ends(r) \/ req' = [req EXCEPT ![r].engine = base, ![r].phase = stage]
  BY DEF LookupBatch
<1>4. CASE Ends(r)
  BY <1>4, EndsIdle DEF LookupBatch, Stores, TypeOK
<1>5. CASE req' = [req EXCEPT ![r].engine = base, ![r].phase = stage]
  <2> HIDE DEF base, existing, begin
  <2>1. req' = [req EXCEPT ![r] = [req[r] EXCEPT !.engine = base, !.phase = stage]]
    BY <1>5
  <2>2. [req[r] EXCEPT !.engine = base, !.phase = stage] \in Serving
    BY <1>1, <1>2 DEF Serving, Stages
  <2>3. req' \in [Requests -> Serving \cup {Idle}]
    BY <2>1, <2>2 DEF TypeOK
  <2> QED
    BY <2>3 DEF LookupBatch, Stores, TypeOK
<1> QED
  BY <1>3, <1>4, <1>5

LEMMA CheckTypes ==
    ASSUME TypeOK, NEW r \in Requests, CheckVersion(r) \/ CheckRecords(r)
    PROVE  TypeOK'
<1>0. req[r].phase \in {"check", "records", "raced"}
  BY DEF CheckVersion, CheckRecords, At
<1>1. req[r] # Idle
  BY <1>0 DEF Idle
<1>2. Ends(r) \/ Goes(r, "records") \/ Goes(r, "write")
  BY Zenon DEF CheckVersion, CheckRecords
<1>3. req' \in [Requests -> Serving \cup {Idle}]
  BY <1>1, <1>2, EndsIdle, GoesOn DEF Stages
<1> QED
  BY <1>3 DEF CheckVersion, CheckRecords, Stores, TypeOK

(* What a write of a record leaves is a state, and a note of the overwriting. *)
LEMMA PutTypes ==
    ASSUME TypeOK, NEW record \in States, NEW expected, NEW blind \in BOOLEAN,
           Put(record, expected, blind)
    PROVE  state' \in States \cup {None} /\ overwritten' \in BOOLEAN
<1>1. state' \in States \cup {None}
  BY DEF Put, TypeOK
<1>2. overwritten' \in BOOLEAN
  BY Zenon DEF Put
<1> QED
  BY <1>1, <1>2

LEMMA FaultsAreCounted ==
    ASSUME TypeOK, NEW lost \in BOOLEAN, Loses(lost)
    PROVE  faults' \in 0 .. MaxFaults
BY ApiAssumption DEF Loses, TypeOK

LEMMA UploadTypes ==
    ASSUME TypeOK, StagesIInv, NEW r \in Requests, NEW lost \in BOOLEAN, Upload(r, lost)
    PROVE  TypeOK'
<1>1. req[r] # Idle /\ Call(r) \in CallSet
  BY RequestFacts DEF Upload, At, Idle
<1>2. Call(r).body \in States
  BY <1>1, CallFacts DEF Upload, StagesIInv, StageOf, Busy, Is
<1>3. state' \in States \cup {None} /\ overwritten' \in BOOLEAN
  BY <1>2, PutTypes DEF Upload
<1> QED
  BY <1>3, EndsIdle, FaultsAreCounted DEF Upload, TypeOK

LEMMA CreateTypes ==
    ASSUME TypeOK, NEW r \in Requests, NEW lost \in BOOLEAN, Create(r, lost) \/ WriteBase(r, lost)
    PROVE  TypeOK'
<1>1. req[r] # Idle /\ req[r].engine \in States
  BY RequestFacts DEF Create, WriteBase, At, Idle
<1>2. PICK expected : \E blind \in BOOLEAN : Put(req[r].engine, expected, blind)
  <2>1. CASE Create(r, lost)
    <3>1. Put(req[r].engine, 0, FALSE) /\ FALSE \in BOOLEAN
      BY <2>1 DEF Create
    <3> QED
      BY Zenon, <3>1
  <2>2. CASE WriteBase(r, lost)
    <3> DEFINE expected == IF req[r].known = None THEN None ELSE req[r].known.ver
               blind == expected = None \/ req[r].engine = Fixture
    <3>1. Put(req[r].engine, expected, blind) /\ blind \in BOOLEAN
      BY <2>2 DEF WriteBase
    <3> HIDE DEF expected, blind
    <3> QED
      BY Zenon, <3>1
  <2> QED
    BY <2>1, <2>2
<1>3. state' \in States \cup {None} /\ overwritten' \in BOOLEAN
  BY <1>1, <1>2, PutTypes
<1>4. Ends(r) \/ Goes(r, "lookup") \/ Goes(r, "check")
  BY DEF Create, WriteBase
<1>5. req' \in [Requests -> Serving \cup {Idle}]
  BY <1>1, <1>4, EndsIdle, GoesOn DEF Stages
<1>6. faults' \in 0 .. MaxFaults
  BY FaultsAreCounted DEF Create, WriteBase
<1> QED
  BY <1>3, <1>5, <1>6 DEF Create, WriteBase, TypeOK

(* The row of a command has the type of one. *)
LEMMA RowForTypes ==
    ASSUME NEW call \in CallSet, call.kind \notin {"put"} \cup ReplayKinds, NEW s \in States
    PROVE  RowFor(call, s) \in [key : Keys, cmd : Commands, ok : BOOLEAN, ver : Nat]
<1>1. After(call, s).ver \in Nat
  BY AfterIsAState, StateFacts
<1>2. Accepted(call, s) \in BOOLEAN
  BY Zenon DEF Accepted
<1>3. call.key \in Keys /\ call.kind \in Commands
  BY CallFacts DEF Commands
<1> QED
  BY <1>1, <1>2, <1>3 DEF RowFor

(* The rows of a replay have one row for every key of its batch. *)
LEMMA ReplayRowsTypes ==
    ASSUME NEW call \in CallSet, call.kind \in ReplayKinds, NEW s \in States
    PROVE  /\ ReplayRows(call, s) \subseteq [key : Keys, cmd : Commands, ok : BOOLEAN, ver : Nat]
           /\ \A row \in ReplayRows(call, s) :
                 /\ row.cmd \in ReplayKinds /\ row.ok /\ row.key \in ToSet(call.batch)
                 /\ row.cmd # "import" => row.key \in Effects(call)
                 /\ \E i \in DOMAIN call.batch : row.key = call.batch[i] /\ row.cmd = Act(call, i)
           /\ \A key \in ToSet(call.batch) : \E row \in ReplayRows(call, s) : row.key = key
           /\ Recorded(call, ReplayRows(call, s))
           /\ "import" = call.kind => \E row \in ReplayRows(call, s) : row.cmd = "import"
           /\ "reload" = call.kind => \E row \in ReplayRows(call, s) : row.cmd = "reload"
<1>1. call.batch \in Batches
  BY CallFacts
<1>2. \A i \in DOMAIN call.batch : call.batch[i] \in Keys /\ s.ver + Moved(call, i) \in Nat
  BY <1>1, BatchFacts, StateFacts, EffectFacts
<1> DEFINE Row(i) == [key |-> call.batch[i], cmd |-> Act(call, i), ok |-> TRUE,
                      ver |-> s.ver + Moved(call, i)]
<1>3. ReplayRows(call, s) = {Row(i) : i \in DOMAIN call.batch}
  BY DEF ReplayRows
<1>4. \A i \in DOMAIN call.batch :
        /\ Row(i) \in [key : Keys, cmd : Commands, ok : BOOLEAN, ver : Nat]
        /\ Row(i).key = call.batch[i] /\ Row(i).cmd = Act(call, i) /\ Row(i).ok
        /\ Act(call, i) \in ReplayKinds
        /\ Act(call, i) # "import" => call.batch[i] \in Effects(call)
  BY <1>2, EffectFacts DEF Commands
<1> HIDE DEF Row
<1>5. \A row \in ReplayRows(call, s) : \E i \in DOMAIN call.batch : row = Row(i)
  BY <1>3
<1>6. ReplayRows(call, s) \subseteq [key : Keys, cmd : Commands, ok : BOOLEAN, ver : Nat]
  BY <1>4, <1>5
<1>7. \A row \in ReplayRows(call, s) :
        /\ row.cmd \in ReplayKinds /\ row.ok /\ row.key \in ToSet(call.batch)
        /\ row.cmd # "import" => row.key \in Effects(call)
        /\ \E i \in DOMAIN call.batch : row.key = call.batch[i] /\ row.cmd = Act(call, i)
  BY <1>1, <1>4, <1>5, BatchFacts
<1>8. \A key \in ToSet(call.batch) : \E row \in ReplayRows(call, s) : row.key = key
  BY <1>1, <1>3, <1>4, BatchFacts
<1>9. Recorded(call, ReplayRows(call, s))
  BY <1>3, <1>4 DEF Recorded
<1>10. 1 \in DOMAIN call.batch /\ Act(call, 1) = call.kind
  BY <1>1, BatchFacts DEF Act
<1>11. \E row \in ReplayRows(call, s) : row.cmd = call.kind
  BY <1>3, <1>4, <1>10
<1> QED
  BY <1>6, <1>7, <1>8, <1>9, <1>11

LEMMA PreviewsAfterTypes ==
    ASSUME TypeOK, NEW r \in Requests, req[r] # Idle, NEW recorded
    PROVE  PreviewsAfter(r, recorded) \subseteq Previews
<1>1. req[r].id \in 1 .. MaxSent /\ req[r].engine.ver \in Nat
  BY RequestFacts, StateFacts
<1>2. [id |-> req[r].id, base |-> req[r].engine.ver, status |-> "PENDING"] \in Previews
  BY <1>1 DEF Previews
<1>3. previews \subseteq Previews
  BY DEF TypeOK
<1>4. \A p \in Previews : [p EXCEPT !.status = "COMMITTED"] \in Previews
  BY DEF Previews
<1> QED
  BY <1>2, <1>3, <1>4 DEF PreviewsAfter

LEMMA WriteCommandTypes ==
    ASSUME TypeOK, StagesIInv, NEW r \in Requests, NEW lost \in BOOLEAN, WriteCommand(r, lost)
    PROVE  TypeOK'
<1> DEFINE row == RowFor(Call(r), req[r].engine)
           recorded == IF RowGoesIn(r) THEN rows \cup {row} ELSE rows
<1>1. req[r] # Idle /\ Call(r) \in CallSet /\ req[r].engine \in States /\ At(r, "write")
  BY RequestFacts DEF WriteCommand, At, Idle
<1>2. Call(r).kind \notin {"put"} \cup ReplayKinds
  BY <1>1 DEF WriteCommand, StagesIInv, StageOf, Busy, Is, At, Replays
<1>3. row \in [key : Keys, cmd : Commands, ok : BOOLEAN, ver : Nat]
  BY <1>1, <1>2, RowForTypes
<1>4. rows' \subseteq [key : Keys, cmd : Commands, ok : BOOLEAN, ver : Nat]
  BY <1>3 DEF WriteCommand, TypeOK
<1>5. state' \in States \cup {None}
  <2>1. After(Call(r), req[r].engine) \in States
    BY <1>1, <1>2, AfterIsAState
  <2> QED
    BY <2>1 DEF WriteCommand, TypeOK
<1>6. previews' \subseteq Previews
  BY <1>1, PreviewsAfterTypes DEF WriteCommand
<1>7. applied' \in [Keys -> Nat]
  BY DEF WriteCommand, Counted, TypeOK
<1> QED
  BY <1>4, <1>5, <1>6, <1>7, EndsIdle, FaultsAreCounted DEF WriteCommand, TypeOK

LEMMA WriteReplayTypes ==
    ASSUME TypeOK, NEW r \in Requests, NEW lost \in BOOLEAN, WriteReplay(r, lost)
    PROVE  TypeOK'
<1>1. /\ req[r] # Idle /\ Call(r) \in CallSet /\ req[r].engine \in States
      /\ Call(r).kind \in ReplayKinds
  BY RequestFacts DEF WriteReplay, At, Idle, Replays
<1>2. rows' \subseteq [key : Keys, cmd : Commands, ok : BOOLEAN, ver : Nat]
  BY <1>1, ReplayRowsTypes DEF WriteReplay, BatchRows, TypeOK
<1>3. state' \in States \cup {None}
  <2>1. After(Call(r), req[r].engine) \in States
    BY <1>1, AfterIsAState DEF ReplayKinds
  <2> QED
    BY <2>1 DEF WriteReplay, TypeOK
<1>4. applied' \in [Keys -> Nat]
  BY DEF WriteReplay, Counted, TypeOK
<1>5. overwritten' \in BOOLEAN
  BY Zenon DEF WriteReplay
<1>6. Ends(r) \/ Goes(r, "raced")
  BY DEF WriteReplay
<1>7. req' \in [Requests -> Serving \cup {Idle}]
  BY <1>1, <1>6, EndsIdle, GoesOn DEF Stages
<1> QED
  BY <1>2, <1>3, <1>4, <1>5, <1>7, FaultsAreCounted DEF WriteReplay, TypeOK

LEMMA FailsTypes ==
    ASSUME TypeOK, NEW r \in Requests, Fails(r)
    PROVE  TypeOK'
BY EndsIdle, ApiAssumption DEF Fails, Stores, TypeOK

(* A step of a request leaves what the others are doing. *)
LEMMA OthersStay ==
    ASSUME TypeOK, NEW r \in Requests, Send(r) \/ Serve(r) \/ Fails(r)
    PROVE  \A q \in Requests \ {r} : req'[q] = req[q]
<1> USE DEF TypeOK
<1>1. CASE Send(r)
  BY <1>1 DEF Send
<1>2. CASE Fails(r)
  BY <1>2 DEF Fails, Ends
<1>3. CASE ReadState(r)
  BY <1>3 DEF ReadState, Ends, Goes
<1>4. CASE ReadPreview(r)
  BY <1>4 DEF ReadPreview
<1>5. CASE Lookup(r) \/ FoundBeforeWrite(r)
  BY <1>5 DEF Lookup, FoundBeforeWrite, AnswerFromRecord, Ends, Goes
<1>6. CASE LookupBatch(r) \/ CheckVersion(r) \/ CheckRecords(r)
  BY <1>6 DEF LookupBatch, CheckVersion, CheckRecords, Ends, Goes
<1>7. ASSUME NEW lost \in BOOLEAN,
             Upload(r, lost) \/ Create(r, lost) \/ WriteBase(r, lost)
      PROVE  \A q \in Requests \ {r} : req'[q] = req[q]
  BY <1>7 DEF Upload, Create, WriteBase, Ends, Goes
<1>8. ASSUME NEW lost \in BOOLEAN, WriteCommand(r, lost) \/ WriteReplay(r, lost)
      PROVE  \A q \in Requests \ {r} : req'[q] = req[q]
  BY <1>8 DEF WriteCommand, WriteReplay, Ends, Goes
<1> QED
  BY <1>1, <1>2, <1>3, <1>4, <1>5, <1>6, <1>7, <1>8 DEF Serve

(* The steps of a request that change nothing that is stored. *)
Reads(r) ==
    \/ ReadState(r) \/ ReadPreview(r) \/ Lookup(r) \/ LookupBatch(r)
    \/ CheckVersion(r) \/ CheckRecords(r) \/ FoundBeforeWrite(r)

(* Only a request that is busy is served. *)
LEMMA ServesTheBusy ==
    ASSUME NEW r \in Requests, Serve(r) \/ Fails(r)
    PROVE  req[r] # Idle
<1>0. ~At(r, "idle") => req[r] # Idle
  BY DEF At, Idle
<1>1. CASE Reads(r) \/ Fails(r)
  <2>1. Fails(r) \/ req[r].phase \in Stages
    BY <1>1 DEF Reads, ReadState, ReadPreview, Lookup, LookupBatch, CheckVersion, CheckRecords,
                FoundBeforeWrite, At, Stages
  <2> QED
    BY <1>0, <2>1 DEF Fails, At, Stages
<1>2. ASSUME NEW lost \in BOOLEAN,
             \/ Upload(r, lost) \/ Create(r, lost) \/ WriteBase(r, lost)
             \/ WriteCommand(r, lost) \/ WriteReplay(r, lost)
      PROVE  req[r] # Idle
  <2>1. req[r].phase \in Stages
    BY <1>2 DEF Upload, Create, WriteBase, WriteCommand, WriteReplay, At, Stages
  <2> QED
    BY <1>0, <2>1 DEF At, Stages
<1> QED
  BY <1>1, <1>2 DEF Serve, Reads

(* What a read leaves a request with: nothing, or its call and copies that
   it had, of the state, or the seed. *)
LEMMA ReadsCarry ==
    ASSUME TypeOK, NEW r \in Requests, req[r] # Idle, Reads(r) \/ Fails(r)
    PROVE  /\ state' = state /\ rows' = rows /\ previews' = previews
           /\ applied' = applied /\ overwritten' = overwritten
           /\ \/ req'[r] = Idle
              \/ /\ req'[r].call = req[r].call
                 /\ req'[r].known \in {req[r].known, state}
                 /\ \/ req'[r].engine \in CopiesOf(r) \cup {Stored, Seed}
                    \/ req'[r].phase \in {"create", "base"} /\ req'[r].engine = Fixture
<1>0. /\ req[r] \in Serving /\ req \in [Requests -> Serving \cup {Idle}]
      /\ (~At(r, "create") /\ ~At(r, "base")) \/ Fails(r)
      /\ ~At(r, "create") /\ ~At(r, "base") => req[r].engine \in CopiesOf(r)
  BY RequestFacts DEF CopiesOf, TypeOK, Reads, ReadState, ReadPreview, Lookup, LookupBatch,
                      CheckVersion, CheckRecords, FoundBeforeWrite, At
<1>1. /\ state' = state /\ rows' = rows /\ previews' = previews
      /\ applied' = applied /\ overwritten' = overwritten
  BY DEF Reads, ReadState, ReadPreview, Lookup, LookupBatch, CheckVersion, CheckRecords,
         FoundBeforeWrite, Fails, Stores
<1>2. CASE Ends(r)
  BY <1>1, <1>2, EndsIdle
<1>3. ASSUME NEW phase \in Stages, Goes(r, phase), Reads(r)
      PROVE  /\ req'[r].call = req[r].call
             /\ req'[r].known \in {req[r].known, state}
             /\ req'[r].engine \in CopiesOf(r) \cup {Stored, Seed}
  <2>1. req[r].engine \in CopiesOf(r)
    BY <1>0, <1>3 DEF Reads, ReadState, ReadPreview, Lookup, LookupBatch, CheckVersion,
                      CheckRecords, FoundBeforeWrite, At
  <2> QED
    BY <1>0, <1>3, <2>1, GoesOn
<1>4. CASE ReadState(r) /\ ~Ends(r)
  <2>0. req[r].engine \in CopiesOf(r)
    BY <1>0, <1>4 DEF ReadState, At
  <2>1. CASE Goes(r, "upload")
    BY <1>1, <1>3, <1>4, <2>1 DEF Stages, Reads
  <2>4. CASE /\ Is(r, "reset")
             /\ req' = [req EXCEPT ![r].engine = Call(r).start, ![r].phase = "create"]
    <3>1. req'[r] = [req[r] EXCEPT !.engine = Call(r).start, !.phase = "create"]
      BY <1>0, <2>4
    <3>2. Call(r).start \in {Seed, Fixture}
      BY <2>4, RequestFacts, CallFacts DEF Is
    <3> QED
      BY <1>0, <1>1, <3>1, <3>2 DEF Serving
  <2>2. CASE /\ state # None
             /\ req' = [req EXCEPT ![r].engine = state,
                                   ![r].phase = IF Is(r, "commit") THEN "preview" ELSE "lookup"]
    <3> DEFINE stage == IF Is(r, "commit") THEN "preview" ELSE "lookup"
    <3>1. req'[r] = [req[r] EXCEPT !.engine = state, !.phase = stage]
      BY <1>0, <2>2
    <3>2. /\ req'[r].engine = state /\ req'[r].call = req[r].call
          /\ req'[r].known = req[r].known
      BY <1>0, <3>1 DEF Serving
    <3>3. Stored = state
      BY <2>2 DEF Stored
    <3> QED
      BY <1>1, <3>2, <3>3
  <2>3. CASE req' = [req EXCEPT ![r].known = state, ![r].phase = "lookup"]
    <3>1. req'[r] = [req[r] EXCEPT !.known = state, !.phase = "lookup"]
      BY <1>0, <2>3
    <3>2. /\ req'[r].known = state /\ req'[r].call = req[r].call
          /\ req'[r].engine = req[r].engine
      BY <1>0, <3>1 DEF Serving
    <3> QED
      BY <1>1, <2>0, <3>2
  <2> QED
    BY <1>4, <2>1, <2>2, <2>3, <2>4 DEF ReadState
<1>5. CASE ReadPreview(r)
  <2>0. req[r].engine \in CopiesOf(r)
    BY <1>0, <1>5 DEF ReadPreview, At
  <2>1. PICK p \in previews : req' = [req EXCEPT ![r].preview = p, ![r].phase = "lookup"]
    BY <1>5 DEF ReadPreview
  <2>2. req'[r] = [req[r] EXCEPT !.preview = p, !.phase = "lookup"]
    BY <1>0, <2>1
  <2> QED
    BY <1>0, <1>1, <2>0, <2>2 DEF Serving
<1>6. CASE /\ Lookup(r) \/ CheckVersion(r) \/ CheckRecords(r) \/ FoundBeforeWrite(r) \/ Fails(r)
           /\ ~Ends(r)
  BY <1>1, <1>3, <1>6 DEF Lookup, CheckVersion, CheckRecords, FoundBeforeWrite, Fails,
                          AnswerFromRecord, Stages, Reads
<1>7. CASE LookupBatch(r) /\ ~Ends(r)
  <2> DEFINE existing == IF Call(r).fromStored THEN req[r].known ELSE None
             begin == IF existing # None THEN existing ELSE Call(r).start
             base == IF Call(r).base # None THEN Call(r).base ELSE begin
             stage == IF existing = None THEN "base" ELSE "check"
  <2>1. req' = [req EXCEPT ![r].engine = base, ![r].phase = stage]
    BY <1>7 DEF LookupBatch
  <2>2. req'[r] = [req[r] EXCEPT !.engine = base, !.phase = stage]
    BY <1>0, <2>1
  <2>3. base \in CopiesOf(r) \cup {Seed} \/ (stage = "base" /\ base = Fixture)
    <3>1. Call(r).start \in {Seed, Fixture} /\ Replays(r)
      BY <1>7, RequestFacts, CallFacts DEF LookupBatch, Replays
    <3> QED
      BY <3>1 DEF CopiesOf
  <2> HIDE DEF base, stage
  <2> QED
    BY <1>0, <1>1, <2>2, <2>3 DEF Serving
<1> QED
  BY <1>1, <1>2, <1>4, <1>5, <1>6, <1>7 DEF Reads

-----------------------------------------------------------------------------
(* What a write does to the state: a record put, or a command run on a copy. *)
LEMMA WritesAre ==
    ASSUME TypeOK, StagesIInv, NEW r \in Requests, NEW lost \in BOOLEAN,
           \/ Upload(r, lost) \/ Create(r, lost) \/ WriteBase(r, lost)
           \/ WriteCommand(r, lost) \/ WriteReplay(r, lost)
    PROVE  /\ state' = state \/ state' \in States
           /\ req'[r] = Idle \/ (Create(r, lost) /\ Goes(r, "lookup") /\ state' # None)
                             \/ (WriteBase(r, lost) /\ Goes(r, "check") /\ state' # None)
                             \/ (WriteReplay(r, lost) /\ Goes(r, "raced") /\ state' # None)
           /\ req'[r] # Idle /\ ~WriteReplay(r, lost) => state' = req[r].engine
<1>1. req[r] # Idle /\ Call(r) \in CallSet /\ req[r].engine \in States
  BY RequestFacts DEF Upload, Create, WriteBase, WriteCommand, WriteReplay, At, Idle
<1>2. StageOf(r)
  BY <1>1 DEF StagesIInv, Busy
<1>3. CASE Upload(r, lost)
  <2>1. Call(r).body \in States
    BY <1>1, <1>2, <1>3, CallFacts DEF Upload, StageOf, Is
  <2> QED
    BY <1>3, <2>1, EndsIdle DEF Upload, Put
<1>4. CASE Create(r, lost)
  <2>1. PutLands(req[r].engine, 0) => state' = req[r].engine
    BY <1>4 DEF Create, Put
  <2>2. state' = state \/ state' = req[r].engine
    BY <1>4 DEF Create, Put
  <2>3. Ends(r) \/ (Goes(r, "lookup") /\ PutLands(req[r].engine, 0))
    BY <1>4 DEF Create
  <2> QED
    BY <1>1, <1>4, <2>1, <2>2, <2>3, EndsIdle, StateFacts
<1>5. CASE WriteBase(r, lost)
  <2> DEFINE expected == IF req[r].known = None THEN None ELSE req[r].known.ver
  <2>1. PutLands(req[r].engine, expected) => state' = req[r].engine
    BY <1>5 DEF WriteBase, Put
  <2>2. state' = state \/ state' = req[r].engine
    BY <1>5 DEF WriteBase, Put
  <2>3. Ends(r) \/ (Goes(r, "check") /\ PutLands(req[r].engine, expected))
    BY <1>5 DEF WriteBase
  <2> QED
    BY <1>1, <1>5, <2>1, <2>2, <2>3, EndsIdle, StateFacts
<1>6. CASE WriteCommand(r, lost) \/ WriteReplay(r, lost)
  <2>1. state' = state \/ state' = After(Call(r), req[r].engine)
    BY <1>6 DEF WriteCommand, WriteReplay
  <2>2. Call(r).kind # "put"
    BY <1>2, <1>6 DEF WriteCommand, WriteReplay, StageOf, At, Is
  <2>3. state # None
    BY <1>2, <1>6 DEF WriteCommand, WriteReplay, StageOf, At
  <2>4. After(Call(r), req[r].engine) \in States
    BY <1>1, <2>2, AfterIsAState
  <2>5. req'[r] = Idle \/ (WriteReplay(r, lost) /\ Goes(r, "raced"))
    BY <1>6, EndsIdle DEF WriteCommand, WriteReplay
  <2> QED
    BY <1>6, <2>1, <2>3, <2>4, <2>5, StateFacts
<1> QED
  BY <1>3, <1>4, <1>5, <1>6

(* A row goes in where there is a state only. *)
LEMMA RowsNeedAState ==
    ASSUME TypeOK, StagesIInv, NEW r \in Requests, Send(r) \/ Serve(r) \/ Fails(r)
    PROVE  /\ rows \subseteq rows'
           /\ rows' # rows => state # None
           /\ state # None => state' # None
<1>1. CASE Send(r) \/ Fails(r)
  BY <1>1 DEF Send, Fails, Stores
<1>2. CASE Reads(r)
  BY <1>2 DEF Reads, ReadState, ReadPreview, Lookup, LookupBatch, CheckVersion, CheckRecords,
              FoundBeforeWrite, Stores
<1>3. ASSUME NEW lost \in BOOLEAN,
             \/ Upload(r, lost) \/ Create(r, lost) \/ WriteBase(r, lost)
             \/ WriteCommand(r, lost) \/ WriteReplay(r, lost)
      PROVE  /\ rows \subseteq rows'
             /\ rows' # rows => state # None
             /\ state # None => state' # None
  <2>1. state # None => state' # None
    BY <1>3, WritesAre, StateFacts
  <2>2. rows \subseteq rows' /\ (rows' # rows => state # None)
    <3>1. CASE Upload(r, lost) \/ Create(r, lost) \/ WriteBase(r, lost)
      BY <3>1 DEF Upload, Create, WriteBase
    <3>2. CASE WriteCommand(r, lost)
      BY <3>2 DEF WriteCommand, RowGoesIn
    <3>3. CASE WriteReplay(r, lost)
      BY <3>3 DEF WriteReplay, BatchRows
    <3> QED
      BY <1>3, <3>1, <3>2, <3>3
  <2> QED
    BY <2>1, <2>2
<1> QED
  BY <1>1, <1>2, <1>3 DEF Serve, Reads

(* How far the request that moves has got afterwards. *)
LEMMA StageMoves ==
    ASSUME TypeOK, StagesIInv, NEW r \in Requests, Send(r) \/ Serve(r) \/ Fails(r)
    PROVE  req'[r] = Idle \/ StageOf(r)'
<1>0. req \in [Requests -> Serving \cup {Idle}]
  BY DEF TypeOK
<1>1. CASE Send(r)
  BY <1>0, <1>1 DEF Send, StageOf, At, Is, Call
<1>2. CASE Fails(r)
  BY <1>2, EndsIdle DEF Fails
<1>3. ASSUME req[r] # Idle, StageOf(r), ReadState(r), ~Ends(r)
      PROVE  StageOf(r)'
  <2> req[r] \in Serving
    BY <1>3, RequestFacts
  <2>1. CASE /\ Is(r, "reset")
             /\ req' = [req EXCEPT ![r].engine = Call(r).start, ![r].phase = "create"]
    <3>1. req'[r] = [req[r] EXCEPT !.engine = Call(r).start, !.phase = "create"]
      BY <1>0, <2>1
    <3>2. /\ req'[r].phase = "create" /\ req'[r].call = req[r].call
          /\ req'[r].known = req[r].known
      BY <3>1 DEF Serving
    <3>3. state' = state
      BY <1>3 DEF ReadState, Stores
    <3> QED
      BY <1>3, <2>1, <3>2, <3>3 DEF StageOf, At, Is, Call
  <2>2. CASE Is(r, "put") /\ Goes(r, "upload")
    BY <1>3, <2>2, GoesOn DEF ReadState, Stores, StageOf, At, Is, Call, Stages, Replays
  <2>3. CASE /\ state # None
             /\ Is(r, "commit") \/ Is(r, "preview") \/ Is(r, "reset")
             /\ req' = [req EXCEPT ![r].engine = state,
                                   ![r].phase = IF Is(r, "commit") THEN "preview" ELSE "lookup"]
    <3> DEFINE stage == IF Is(r, "commit") THEN "preview" ELSE "lookup"
    <3>1. req'[r] = [req[r] EXCEPT !.engine = state, !.phase = stage]
      BY <1>0, <2>3
    <3>2. req'[r].phase = stage /\ req'[r].call = req[r].call
      BY <3>1 DEF Serving
    <3>3. state' # None
      BY <1>3, <2>3 DEF ReadState, Stores
    <3> QED
      BY <2>3, <3>2, <3>3 DEF StageOf, At, Is, Call, Replays
  <2>4. CASE Replays(r) /\ req' = [req EXCEPT ![r].known = state, ![r].phase = "lookup"]
    <3>1. req'[r] = [req[r] EXCEPT !.known = state, !.phase = "lookup"]
      BY <1>0, <2>4
    <3>2. req'[r].phase = "lookup" /\ req'[r].call = req[r].call /\ req'[r].known = state
      BY <3>1 DEF Serving
    <3>3. state' = state
      BY <1>3 DEF ReadState, Stores
    <3>4. ~Is(r, "put")
      BY <2>4 DEF Replays, ReplayKinds, Is
    <3> QED
      BY <2>4, <3>2, <3>3, <3>4 DEF StageOf, At, Is, Call, Replays
  <2> QED
    BY <1>3, <2>1, <2>2, <2>3, <2>4 DEF ReadState
<1>4. ASSUME req[r] # Idle, StageOf(r), ReadPreview(r)
      PROVE  StageOf(r)'
  <2>1. PICK p \in previews : req' = [req EXCEPT ![r].preview = p, ![r].phase = "lookup"]
    BY <1>4 DEF ReadPreview
  <2>2. req'[r] = [req[r] EXCEPT !.preview = p, !.phase = "lookup"]
    BY <1>0, <2>1
  <2>3. /\ req'[r].phase = "lookup" /\ req'[r].call = req[r].call
        /\ req'[r].known = req[r].known
    BY <1>4, <2>2, RequestFacts DEF Serving
  <2>4. state' = state /\ state # None /\ ~Is(r, "put")
    BY <1>4 DEF ReadPreview, Stores, StageOf, At
  <2> QED
    BY <1>4, <2>3, <2>4 DEF StageOf, At, Is, Call, Replays
<1>5. ASSUME req[r] # Idle, StageOf(r), Lookup(r), ~Ends(r)
      PROVE  StageOf(r)'
  <2>1. Goes(r, "write") /\ state' = state
    BY <1>5 DEF Lookup, AnswerFromRecord, Stores
  <2> QED
    BY <1>5, <2>1, GoesOn DEF Lookup, StageOf, At, Is, Call, Stages, Replays
<1>6. ASSUME req[r] # Idle, StageOf(r), LookupBatch(r), ~Ends(r)
      PROVE  StageOf(r)'
  <2> DEFINE existing == IF Call(r).fromStored THEN req[r].known ELSE None
             begin == IF existing # None THEN existing ELSE Call(r).start
             base == IF Call(r).base # None THEN Call(r).base ELSE begin
             stage == IF existing = None THEN "base" ELSE "check"
  <2>1. /\ req' = [req EXCEPT ![r].engine = base, ![r].phase = stage]
        /\ existing = None => (req[r].known = None \/ req[r].known.ver = base.ver)
        /\ Replays(r) /\ ~Is(r, "put")
        /\ state' = state
    BY <1>6 DEF LookupBatch, Stores, Replays, ReplayKinds, Is
  <2> HIDE DEF base
  <2>2. req'[r] = [req[r] EXCEPT !.engine = base, !.phase = stage]
    BY <1>0, <2>1
  <2>3. /\ req'[r].phase = stage /\ req'[r].call = req[r].call
        /\ req'[r].known = req[r].known /\ req'[r].engine = base
    BY <1>6, <2>2, RequestFacts DEF Serving
  <2> QED
    BY <1>6, <2>1, <2>3 DEF StageOf, At, Is, Call, Replays
<1>9. ASSUME req[r] # Idle, StageOf(r), CheckVersion(r) \/ CheckRecords(r), ~Ends(r)
      PROVE  StageOf(r)'
  <2>1. /\ Goes(r, "records") \/ Goes(r, "write")
        /\ state' = state /\ state # None /\ Replays(r) /\ ~Is(r, "put")
    BY <1>9 DEF CheckVersion, CheckRecords, Stores, StageOf, At, Replays, ReplayKinds, Is
  <2> QED
    BY <1>9, <2>1, GoesOn DEF StageOf, At, Is, Call, Stages, Replays
<1>7. ASSUME NEW lost \in BOOLEAN, req[r] # Idle, StageOf(r),
             \/ Upload(r, lost) \/ Create(r, lost) \/ WriteBase(r, lost)
             \/ WriteCommand(r, lost) \/ WriteReplay(r, lost),
             req'[r] # Idle
      PROVE  StageOf(r)'
  <2>1. state' # None /\ \/ Create(r, lost) /\ Goes(r, "lookup")
                         \/ WriteBase(r, lost) /\ Goes(r, "check")
                         \/ WriteReplay(r, lost) /\ Goes(r, "raced")
    BY <1>7, WritesAre
  <2>2. ~Is(r, "put") /\ (WriteBase(r, lost) \/ WriteReplay(r, lost) => Replays(r))
    BY <1>7, <2>1 DEF Create, WriteBase, WriteReplay, StageOf, At
  <2> QED
    BY <1>7, <2>1, <2>2, GoesOn DEF StageOf, At, Is, Call, Stages, Replays
<1>8. CASE Serve(r)
  <2>1. req[r] # Idle
    BY <1>8, ServesTheBusy
  <2>2. StageOf(r)
    BY <2>1 DEF StagesIInv, Busy
  <2>3. CASE FoundBeforeWrite(r) \/ Ends(r)
    BY <2>3, EndsIdle DEF FoundBeforeWrite, AnswerFromRecord
  <2> QED
    BY <1>3, <1>4, <1>5, <1>6, <1>7, <1>8, <1>9, <2>1, <2>2, <2>3 DEF Serve
<1> QED
  BY <1>1, <1>2, <1>8

LEMMA StagesStep ==
    ASSUME TypeOK, StagesIInv, NEW r \in Requests, Send(r) \/ Serve(r) \/ Fails(r)
    PROVE  StagesIInv'
<1>1. rows' # {} => state' # None
  BY RowsNeedAState DEF StagesIInv
<1>2. ASSUME NEW q \in Requests, req'[q] # Idle
      PROVE  StageOf(q)'
  <2>1. CASE q = r
    BY <1>2, <2>1, StageMoves
  <2>2. CASE q # r
    <3>1. req'[q] = req[q]
      BY <2>2, OthersStay
    <3>2. StageOf(q)
      BY <1>2, <3>1 DEF StagesIInv, Busy
    <3> QED
      BY <3>1, <3>2, RowsNeedAState DEF StageOf, At, Is, Call, Replays
  <2> QED
    BY <2>1, <2>2
<1> QED
  BY <1>1, <1>2 DEF StagesIInv, Busy

LEMMA TypeStep ==
    ASSUME TypeOK, StagesIInv, NEW r \in Requests, Send(r) \/ Serve(r) \/ Fails(r)
    PROVE  TypeOK'
BY SendTypes, ReadStateTypes, ReadPreviewTypes, LookupTypes, LookupBatchTypes, CheckTypes, UploadTypes,
   CreateTypes, WriteCommandTypes, WriteReplayTypes, FailsTypes DEF Serve

LEMMA TypeInit ==
    ASSUME Init
    PROVE  TypeOK /\ StagesIInv
<1>0. 0 \in 0 .. MaxSent /\ 0 \in 0 .. MaxFaults
  BY ApiAssumption
<1>1. TypeOK
  <2>1. state \in States \cup {None} /\ overwritten \in BOOLEAN
    BY DEF Init
  <2>2. req \in [Requests -> Serving \cup {Idle}] /\ applied \in [Keys -> Nat]
    BY DEF Init
  <2> QED
    BY <1>0, <2>1, <2>2 DEF Init, TypeOK
<1>2. StagesIInv
  BY <1>1 DEF Init, StagesIInv, Busy
<1> QED
  BY <1>1, <1>2

(* A step that changes nothing keeps the types and the stages. *)
LEMMA TypeStutters ==
    ASSUME TypeOK, StagesIInv, UNCHANGED vars
    PROVE  TypeOK' /\ StagesIInv'
<1>1. TypeOK'
  BY DEF vars, TypeOK
<1>2. StagesIInv'
  BY DEF vars, StagesIInv, StageOf, Busy, At, Is, Call, Replays
<1> QED
  BY <1>1, <1>2

(* The stored rows and the requests keep their types, and no request is past
   the look-up, and no row is there, without a state. *)
THEOREM TypeCorrect == Spec => [](TypeOK /\ StagesIInv)
<1>1. TypeOK /\ StagesIInv /\ [Next]_vars => TypeOK' /\ StagesIInv'
  BY TypeStep, StagesStep, TypeStutters DEF Next
<1> QED
  BY TypeInit, <1>1, PTL DEF Spec

-----------------------------------------------------------------------------
(* A record that replaces one it was made from, or that is put with a note that
   it was not, moves the sandbox on. *)
LEMMA PutMoves ==
    ASSUME TypeOK, NEW record \in States, NEW expected \in Nat \cup {None}, NEW blind \in BOOLEAN,
           Put(record, expected, blind),
           expected = None => blind,
           expected # None => expected <= record.ver,
           state = None /\ record.ver = 0 /\ ~overwritten => CommandsOf(record) = {},
           state # None /\ state.ver = expected /\ ~blind /\ ~overwritten =>
                \/ CommandsOf(record) = CommandsOf(Stored)
                \/ CommandsOf(Stored) = {} /\ record.ver # expected
    PROVE  MovesOn /\ Keeps
<1>1. /\ Stored \in States /\ Stored.ver \in Nat /\ record.ver \in Nat /\ record # None
      /\ CommandsOf(Stored) \subseteq Stored.ops /\ CommandsOf(record) \subseteq record.ops
  BY StateFacts DEF TypeOK, CommandsOf
<1>0. /\ overwritten => overwritten'
      /\ blind /\ state # None /\ state' # state => overwritten'
  BY Zenon DEF Put
<1>2. CASE ~PutLands(record, expected)
  <2>1. state' = state
    BY <1>2 DEF Put
  <2> QED
    BY <1>0, <1>1, <2>1 DEF MovesOn, Keeps, Stored, CommandsOf, Seed
<1>3. CASE PutLands(record, expected)
  <2>1. state' = record /\ Stored' = record
    BY <1>1, <1>3 DEF Put, Stored
  <2>3. CASE state = None
    <3>1. Stored.ver = 0 /\ CommandsOf(Stored) = {}
      BY <2>3, StateFacts
    <3> QED
      BY <1>0, <1>1, <2>1, <2>3, <3>1 DEF MovesOn, Keeps, CommandsOf
  <2>4. CASE state # None /\ blind
    <3>1. Stored.ver <= record.ver
      BY <1>1, <1>3, <2>4, ApiAssumption DEF PutLands, Stored
    <3> QED
      BY <1>0, <1>1, <2>1, <2>4, <3>1 DEF MovesOn, Keeps, Stored, CommandsOf
  <2>5. CASE state # None /\ ~blind
    <3>1. Stored.ver = expected /\ state.ver = expected /\ expected # None
      BY <1>3, <2>5 DEF PutLands, Stored
    <3> QED
      BY <1>0, <1>1, <2>1, <2>5, <3>1 DEF MovesOn, Keeps, CommandsOf
  <2> QED
    BY <2>3, <2>4, <2>5
<1> QED
  BY <1>2, <1>3

(* A command run on a copy of what is stored moves the sandbox on, unless it
   only imports a state, which is noted. *)
LEMMA AfterMoves ==
    ASSUME TypeOK, NEW call \in CallSet, call.kind # "put", NEW engine \in States,
           Fits(engine), state # None, state.ver = engine.ver,
           state' = After(call, engine), overwritten => overwritten',
           After(call, engine).ver = engine.ver /\ call.kind = "import" /\ state' # state => overwritten'
    PROVE  /\ MovesOn
           /\ call.kind \notin Discards => Keeps
<1>1. /\ Stored \in States /\ Stored.ver \in Nat /\ engine.ver \in Nat /\ Stored = state
      /\ Stored' = After(call, engine)
  BY AfterIsAState, StateFacts DEF TypeOK, Stored
<1>2. ~overwritten => CommandsOf(engine) = CommandsOf(Stored)
  BY <1>1 DEF Fits
<1>3. CASE After(call, engine) = engine
  BY <1>1, <1>2, <1>3 DEF MovesOn, Keeps, CommandsOf
<1>4. CASE call.kind = "reset"
  <2>1. After(call, engine).ver = engine.ver + 1
    BY <1>4 DEF After, ReplayKinds
  <2> QED
    BY <1>1, <1>4, <2>1 DEF MovesOn, Discards
<1>5. CASE call.kind = "commit" /\ After(call, engine) # engine
  <2>1. /\ After(call, engine).ver = engine.ver + 1
        /\ engine.ops \subseteq After(call, engine).ops
    BY <1>5 DEF After, ReplayKinds
  <2> QED
    BY <1>1, <1>2, <2>1 DEF MovesOn, Keeps, CommandsOf
<1>6. CASE call.kind \in ReplayKinds
  <2> DEFINE moved == Moved(call, Len(call.batch))
  <2>1. /\ After(call, engine).ver = engine.ver + moved
        /\ After(call, engine).ops = Ground(call, engine).ops \cup Effects(call)
    BY <1>6 DEF After, ReplayKinds
  <2>2. /\ moved \in Nat /\ (moved = 0 \/ moved >= 1)
        /\ call.kind # "import" => moved >= 1
    BY <1>6, EffectFacts
  <2> HIDE DEF moved
  <2>3. CASE moved >= 1
    <3>1. MovesOn
      BY <1>1, <2>1, <2>2, <2>3 DEF MovesOn
    <3>2. call.kind \notin Discards => engine.ops \subseteq After(call, engine).ops
      BY <1>6, <2>1 DEF Ground, Discards, ReplayKinds
    <3> QED
      BY <1>1, <1>2, <3>1, <3>2 DEF Keeps, CommandsOf
  <2>4. CASE moved = 0
    <3>1. call.kind = "import" /\ After(call, engine).ver = engine.ver /\ Stored'.ver = Stored.ver
      BY <1>1, <2>1, <2>2, <2>4
    <3> QED
      BY <1>1, <3>1 DEF MovesOn, Discards
  <2> QED
    BY <2>2, <2>3, <2>4
<1>7. call.kind = "preview" => After(call, engine) = engine
  BY DEF After, ReplayKinds
<1> QED
  BY <1>3, <1>4, <1>5, <1>6, <1>7, CallFacts

(* A request that would write a key again is at an older version, so the row
   of a reset that stands does not let another one of its key write. *)
LEMMA AtTheVersion ==
    ASSUME OnceIInv, TypeOK, NEW r \in Requests, req[r] # Idle, At(r, "write"),
           state # None, state.ver = req[r].engine.ver, NEW key \in KeysOf(r) \cap Keys
    PROVE  applied[key] = 0
<1>1. applied[key] \in Nat
  BY DEF TypeOK
<1>2. state.ver \in Nat
  BY StateFacts DEF TypeOK
<1>3. ~(applied[key] >= 1)
  BY <1>1, <1>2 DEF OnceIInv, Busy, At
<1> QED
  BY <1>1, <1>3

(* So the rows of a replay whose effect is written are its own, unless they are
   all of imports. *)
LEMMA ReplayRowsAreNew ==
    ASSUME OnceIInv, TypeOK, StagesIInv, NEW r \in Requests, NEW lost \in BOOLEAN, req[r] # Idle,
           WriteReplay(r, lost), state.ver = req[r].engine.ver,
           Recorded(Call(r), rows \cup BatchRows(r)), BatchRows(r) = {}
    PROVE  Call(r).kind = "import" /\ Effects(Call(r)) = {}
<1> DEFINE call == Call(r)
<1>1. /\ At(r, "write") /\ call.kind \in ReplayKinds /\ call \in CallSet
      /\ state # None /\ KeysOf(r) = ToSet(call.batch)
  BY RequestFacts DEF WriteReplay, StagesIInv, StageOf, Busy, At, Is, KeysOf, Replays, ReplayKinds
<1>2. ASSUME NEW i \in DOMAIN call.batch, Act(call, i) # "import"
      PROVE  FALSE
  <2>1. PICK row \in rows : row.key = call.batch[i] /\ row.cmd = Act(call, i)
    BY <1>2 DEF Recorded
  <2>2. Act(call, i) \in Written
    BY <1>1, <1>2, EffectFacts DEF Written, ReplayKinds
  <2>3. applied[call.batch[i]] >= 1
    BY <2>1, <2>2 DEF OnceIInv
  <2>4. call.batch[i] \in KeysOf(r) \cap Keys
    BY <1>1, CallFacts, BatchFacts
  <2>5. applied[call.batch[i]] = 0
    BY <1>1, <2>4, AtTheVersion
  <2> QED
    BY <2>3, <2>5
<1>3. Effects(call) = {}
  BY <1>2 DEF Effects
<1>4. call.kind = "import"
  <2>1. 1 \in DOMAIN call.batch
    BY <1>1, CallFacts, BatchFacts
  <2> QED
    BY <1>2, <2>1 DEF Act
<1> QED
  BY <1>3, <1>4

(* Every step moves the sandbox on and keeps what it was built from. *)
LEMMA StepMoves ==
    ASSUME TypeOK, StagesIInv, CopiesIInv, OnceIInv,
           NEW r \in Requests, Send(r) \/ Serve(r) \/ Fails(r)
    PROVE  MovesOn /\ Keeps
<1>1. CASE state' = state /\ overwritten' = overwritten
  <2>1. Stored' = Stored /\ Stored.ver \in Nat
    BY <1>1, StateFacts DEF Stored, TypeOK
  <2> QED
    BY <1>1, <2>1 DEF MovesOn, Keeps, CommandsOf
<1>2. CASE Send(r) \/ Fails(r) \/ Reads(r)
  BY <1>1, <1>2 DEF Send, Fails, Reads, ReadState, ReadPreview, Lookup, LookupBatch, CheckVersion,
                    CheckRecords, FoundBeforeWrite, Stores
<1>3. ASSUME NEW lost \in BOOLEAN, req[r] # Idle, Upload(r, lost)
      PROVE  MovesOn /\ Keeps
  <2>1. Is(r, "put") /\ CopiesFit(r)
    BY <1>3 DEF Upload, StagesIInv, StageOf, Busy, CopiesIInv
  <2>2. /\ Call(r).body \in States /\ Call(r).expected \in Nat \cup {None}
        /\ Fits(Replaced(Call(r))) /\ Replaced(Call(r)).ver <= Call(r).body.ver
    BY <1>3, <2>1, RequestFacts, CallFacts DEF CopiesFit, CopiesOf, Is
  <2> DEFINE base == IF Call(r).expected = None THEN 0 ELSE Call(r).expected
           blind == Call(r).expected = None
  <2>3. /\ base \in Nat /\ Replaced(Call(r)) = [ver |-> base, ops |-> Call(r).body.ops]
        /\ base <= Call(r).body.ver /\ Call(r).body.ver \in Nat
        /\ CommandsOf(Replaced(Call(r))) = CommandsOf(Call(r).body)
    BY <2>2, StateFacts DEF Replaced, CommandsOf
  <2>4. Put(Call(r).body, Call(r).expected, blind) /\ blind \in BOOLEAN
    BY <1>3 DEF Upload
  <2>5. state = None /\ Call(r).body.ver = 0 /\ ~overwritten => CommandsOf(Call(r).body) = {}
    <3>1. state = None => Stored.ver = 0 /\ CommandsOf(Stored) = {}
      BY StateFacts
    <3> QED
      BY <2>2, <2>3, <3>1 DEF Fits
  <2>6. state # None /\ state.ver = Call(r).expected /\ ~blind /\ ~overwritten
            => CommandsOf(Call(r).body) = CommandsOf(Stored)
    <3>1. state # None => Stored = state
      BY DEF Stored
    <3> QED
      BY <2>2, <2>3, <3>1 DEF Fits
  <2>7. /\ Call(r).expected = None => blind
        /\ Call(r).expected # None => Call(r).expected <= Call(r).body.ver
    BY <2>3
  <2> HIDE DEF blind, base
  <2> QED
    BY <2>2, <2>4, <2>5, <2>6, <2>7, PutMoves
<1>4. ASSUME NEW lost \in BOOLEAN, req[r] # Idle, Create(r, lost)
      PROVE  MovesOn /\ Keeps
  <2>1. req[r].engine \in States /\ req[r].engine \in {Seed, Fixture} /\ Fits(Seed)
    BY <1>4, RequestFacts DEF CopiesIInv, CopiesFit, Busy, Create
  <2>2. /\ 0 # None /\ 0 \in Nat /\ 0 <= req[r].engine.ver /\ FALSE \in BOOLEAN
        /\ CommandsOf(req[r].engine) = {}
    BY <2>1, StateFacts, ApiAssumption
  <2>3. state # None /\ state.ver = 0 /\ ~overwritten => CommandsOf(Stored) = {}
    <3>1. state # None => Stored = state
      BY DEF Stored
    <3> QED
      BY <2>1, <3>1, StateFacts DEF Fits
  <2>4. Put(req[r].engine, 0, FALSE)
    BY <1>4 DEF Create
  <2> QED
    BY <2>1, <2>2, <2>3, <2>4, PutMoves
<1>5. ASSUME NEW lost \in BOOLEAN, req[r] # Idle, WriteBase(r, lost)
      PROVE  MovesOn /\ Keeps
  <2> DEFINE expected == IF req[r].known = None THEN None ELSE req[r].known.ver
             blind == expected = None \/ req[r].engine = Fixture
  <2>1. /\ req[r].engine \in States
        /\ req[r].engine \in {Seed, Fixture} \/ Fits(req[r].engine)
        /\ req[r].known \in States \cup {None} /\ Fits(Seed)
    BY <1>5, RequestFacts DEF CopiesIInv, CopiesFit, WriteBase, Busy
  <2>2. req[r].known # None => req[r].engine.ver = req[r].known.ver
    BY <1>5 DEF WriteBase, StagesIInv, StageOf, Busy
  <2>3. /\ expected \in Nat \cup {None} /\ req[r].engine.ver \in Nat
        /\ expected # None => expected = req[r].engine.ver
    BY <2>1, <2>2, StateFacts, ApiAssumption
  <2>4. Put(req[r].engine, expected, blind) /\ blind \in BOOLEAN /\ (expected = None => blind)
    BY <1>5 DEF WriteBase
  <2>5. req[r].engine # Fixture => Fits(req[r].engine)
    BY <2>1
  <2>6. state = None /\ req[r].engine.ver = 0 /\ ~overwritten => CommandsOf(req[r].engine) = {}
    <3>1. state = None => Stored.ver = 0 /\ CommandsOf(Stored) = {}
      BY StateFacts
    <3> QED
      BY <2>5, <3>1, StateFacts DEF Fits
  <2>7. state # None /\ state.ver = expected /\ ~blind /\ ~overwritten
            => CommandsOf(req[r].engine) = CommandsOf(Stored)
    <3>1. state # None => Stored = state
      BY DEF Stored
    <3>2. ~blind => expected # None /\ Fits(req[r].engine)
      BY <2>5
    <3> QED
      BY <2>3, <3>1, <3>2 DEF Fits
  <2> HIDE DEF expected, blind
  <2>8. expected # None => expected <= req[r].engine.ver
    BY <2>3
  <2> QED
    BY <2>1, <2>3, <2>4, <2>6, <2>7, <2>8, PutMoves
<1>6. ASSUME NEW lost \in BOOLEAN, req[r] # Idle, WriteCommand(r, lost) \/ WriteReplay(r, lost)
      PROVE  MovesOn /\ Keeps
  <2>1. /\ At(r, "write") /\ ~Is(r, "put") /\ state # None /\ Call(r) \in CallSet
        /\ req[r].engine \in States /\ Fits(req[r].engine)
    BY <1>6, RequestFacts DEF WriteCommand, WriteReplay, StagesIInv, StageOf, Busy, At,
                              CopiesIInv, CopiesFit, CopiesOf
  <2>4. overwritten => overwritten'
    BY <1>6 DEF WriteCommand, WriteReplay
  <2>2. \/ state' = state /\ overwritten' = overwritten
        \/ state' = After(Call(r), req[r].engine) /\ state.ver = req[r].engine.ver
    <3>1. CASE WriteCommand(r, lost)
      BY <2>1, <3>1 DEF WriteCommand, StateGoesIn
    <3>2. CASE WriteReplay(r, lost)
      <4> DEFINE effect == state.ver = req[r].engine.ver /\ Recorded(Call(r), rows \cup BatchRows(r))
      <4>1. CASE effect
        BY <3>2, <4>1 DEF WriteReplay
      <4>2. CASE ~effect
        <5>1. state' = state
          BY <3>2, <4>2 DEF WriteReplay
        <5>2. overwritten' = overwritten
          <6>1. overwritten' = (overwritten \/ (effect /\ After(Call(r), req[r].engine).ver = state.ver
                                                     /\ After(Call(r), req[r].engine) # state))
            BY <3>2 DEF WriteReplay
          <6> HIDE DEF effect
          <6> QED
            BY Zenon, <4>2, <6>1 DEF TypeOK
        <5> QED
          BY <5>1, <5>2
      <4> QED
        BY <4>1, <4>2
    <3> QED
      BY <1>6, <3>1, <3>2
  <2>3. CASE state' = After(Call(r), req[r].engine) /\ state.ver = req[r].engine.ver
    <3>0. After(Call(r), req[r].engine).ver = req[r].engine.ver /\ Is(r, "import") /\ state' # state
            => overwritten'
      <4>1. SUFFICES ASSUME After(Call(r), req[r].engine).ver = req[r].engine.ver, Is(r, "import"),
                            state' # state
                     PROVE  overwritten'
        OBVIOUS
      <4>2. WriteReplay(r, lost)
        BY <1>6, <4>1 DEF WriteCommand, Replays, ReplayKinds, Is
      <4>3. Recorded(Call(r), rows \cup BatchRows(r))
        BY <4>1, <4>2 DEF WriteReplay
      <4> QED
        BY <2>3, <4>1, <4>2, <4>3 DEF WriteReplay
    <3>1. MovesOn /\ (Call(r).kind \notin Discards => Keeps)
      BY <2>1, <2>3, <2>4, <3>0, AfterMoves DEF Is
    <3>3. CASE Call(r).kind \in {"reload", "import"} /\ state' # state
      <4>1. WriteReplay(r, lost) /\ Call(r).kind \in ReplayKinds
        BY <1>6, <3>3 DEF WriteCommand, Replays, ReplayKinds
      <4>2. Recorded(Call(r), rows \cup BatchRows(r)) /\ rows' = rows \cup BatchRows(r)
        BY <3>3, <4>1 DEF WriteReplay
      <4>3. CASE BatchRows(r) = {}
        <5>1. Is(r, "import") /\ Effects(Call(r)) = {}
          BY <1>6, <2>3, <4>1, <4>2, <4>3, ReplayRowsAreNew DEF Is
        <5>2. Moved(Call(r), Len(Call(r).batch)) = 0
          <6>1. PICK n \in Nat : n = Len(Call(r).batch) /\ DOMAIN Call(r).batch = 1 .. n /\ n >= 1
            BY <2>1, <4>1, CallFacts, BatchFacts
          <6>2. ASSUME n # 1
                PROVE  FALSE
            <7>0. 2 \in 1 .. n /\ 2 # 1
              <8>1. n \in Nat /\ n >= 1 /\ n # 1
                BY <6>1, <6>2
              <8> QED
                BY <8>1
            <7>1. 2 \in DOMAIN Call(r).batch
              BY <6>1, <7>0
            <7>2. Act(Call(r), 2) = "replay"
              BY <7>0 DEF Act
            <7>3. Call(r).batch[2] \in Effects(Call(r))
              BY <2>1, <4>1, <7>1, <7>2, EffectFacts
            <7> QED
              BY <5>1, <7>3
          <6>3. n = 1
            BY <6>2
          <6> QED
            BY <5>1, <6>1, <6>3 DEF Moved, Is
        <5>3. After(Call(r), req[r].engine).ver = req[r].engine.ver + 0
          BY <4>1, <5>2 DEF After, ReplayKinds
        <5>4. overwritten'
          BY <2>1, <3>0, <3>3, <5>1, <5>3, StateFacts
        <5> QED
          BY <3>1, <5>4 DEF Keeps
      <4>4. CASE BatchRows(r) # {}
        <5>1. BatchRows(r) = ReplayRows(Call(r), req[r].engine) /\ ~AnyNamed(Call(r))
          BY <4>4 DEF BatchRows
        <5>2. PICK row \in BatchRows(r) : row.cmd = Call(r).kind
          BY <2>1, <3>3, <4>1, <5>1, ReplayRowsTypes
        <5>3. row \notin rows
          <6>1. \E i \in DOMAIN Call(r).batch : row.key = Call(r).batch[i]
            BY <2>1, <4>1, <5>1, ReplayRowsTypes
          <6> QED
            BY <5>1, <6>1 DEF AnyNamed, Named
        <5> QED
          BY <3>1, <3>3, <4>2, <5>2, <5>3 DEF Keeps, Discards
      <4> QED
        BY <4>3, <4>4
    <3>2. CASE Is(r, "reset") /\ state' # state
      <4> DEFINE row == RowFor(Call(r), req[r].engine)
                 recorded == IF RowGoesIn(r) THEN rows \cup {row} ELSE rows
      <4>1. WriteCommand(r, lost) /\ Call(r).key \in KeysOf(r) \cap Keys
        BY <1>6, <2>1, <3>2, CallFacts DEF WriteReplay, Is, KeysOf, Replays, ReplayKinds
      <4>2. applied[Call(r).key] = 0
        BY <1>6, <2>1, <2>3, <4>1, AtTheVersion
      <4>3. Exact(recorded, Call(r)) /\ rows' = recorded
        BY <3>2, <4>1 DEF WriteCommand, StateGoesIn
      <4>4. ~Exact(rows, Call(r))
        BY <3>2, <4>2 DEF OnceIInv, Exact, Same, Is, Written
      <4>5. RowGoesIn(r)
        BY <4>3, <4>4
      <4>6. row.key = Call(r).key /\ row.cmd = "reset"
        BY <3>2 DEF RowFor, Is
      <4>7. row \in rows' \ rows
        BY <4>3, <4>5, <4>6 DEF RowGoesIn, Named
      <4> QED
        BY <3>1, <4>6, <4>7 DEF Keeps, Discards
    <3>4. CASE state' = state
      <4>1. Stored' = Stored
        BY <3>4 DEF Stored
      <4> QED
        BY <3>1, <4>1 DEF Keeps, CommandsOf
    <3> QED
      BY <2>1, <3>1, <3>2, <3>3, <3>4 DEF Is, Discards
  <2> QED
    BY <1>1, <2>1, <2>2, <2>3
<1> QED
  BY <1>2, <1>3, <1>4, <1>5, <1>6, ServesTheBusy DEF Serve, Reads

(* Copies that fit what was stored fit what is stored after it moved on. *)
LEMMA FitsOn ==
    ASSUME TypeOK, TypeOK', MovesOn, NEW copy, copy.ver \in Nat, Fits(copy)
    PROVE  copy.ver <= Stored'.ver
           /\ (copy.ver = Stored'.ver /\ ~overwritten' => CommandsOf(copy) = CommandsOf(Stored)')
<1>1. Stored.ver \in Nat /\ Stored'.ver \in Nat
  BY StateFacts DEF TypeOK, Stored
<1> QED
  BY <1>1 DEF MovesOn, Fits

(* A replay that ran goes on with its base. *)
LEMMA BatchGoesOn ==
    ASSUME NEW r \in Requests, LookupBatch(r), ~Ends(r)
    PROVE  \E base : \E stage \in {"base", "check"} :
              req' = [req EXCEPT ![r].engine = base, ![r].phase = stage]
<1> DEFINE existing == IF Call(r).fromStored THEN req[r].known ELSE None
           begin == IF existing # None THEN existing ELSE Call(r).start
           base == IF Call(r).base # None THEN Call(r).base ELSE begin
           stage == IF existing = None THEN "base" ELSE "check"
<1>1. req' = [req EXCEPT ![r].engine = base, ![r].phase = stage]
  BY DEF LookupBatch
<1>2. stage \in {"base", "check"}
  OBVIOUS
<1> HIDE DEF base, stage
<1> QED
  BY <1>1, <1>2

(* A read that has a sandbox created leaves the scenario to create it with. *)
LEMMA CreatesAreReads ==
    ASSUME TypeOK, NEW r \in Requests, req[r] # Idle, Reads(r) \/ Fails(r),
           req'[r].phase = "create"
    PROVE  req'[r].engine \in {Seed, Fixture}
<1>0. req[r] \in Serving /\ req \in [Requests -> Serving \cup {Idle}]
  BY RequestFacts DEF TypeOK
<1>1. ~Ends(r) /\ \A phase \in Stages \ {"create"} : ~Goes(r, phase)
  <2>1. ~Ends(r)
    BY <1>0, EndsIdle DEF Idle
  <2>2. ASSUME NEW phase \in Stages \ {"create"}, Goes(r, phase)
        PROVE  FALSE
    BY <2>2, GoesOn
  <2> QED
    BY <2>1, <2>2
<1>2. ReadState(r)
  <2>1. ~ReadPreview(r)
    <3>1. SUFFICES ASSUME ReadPreview(r) PROVE FALSE
      OBVIOUS
    <3>2. PICK p \in previews : req' = [req EXCEPT ![r].preview = p, ![r].phase = "lookup"]
      BY <3>1 DEF ReadPreview
    <3>3. req'[r].phase = "lookup"
      BY <1>0, <3>2 DEF Serving
    <3> QED
      BY <3>3
  <2>2. ~LookupBatch(r)
    <3>1. SUFFICES ASSUME LookupBatch(r) PROVE FALSE
      OBVIOUS
    <3>2. PICK base : \E stage \in {"base", "check"} :
            req' = [req EXCEPT ![r].engine = base, ![r].phase = stage]
      BY <1>1, <3>1, BatchGoesOn
    <3>3. PICK stage \in {"base", "check"} :
            req' = [req EXCEPT ![r].engine = base, ![r].phase = stage]
      BY <3>2
    <3>4. req'[r].phase = stage
      BY <1>0, <3>3 DEF Serving
    <3> QED
      BY <3>4
  <2>3. ~Lookup(r) /\ ~CheckVersion(r) /\ ~CheckRecords(r) /\ ~FoundBeforeWrite(r) /\ ~Fails(r)
    BY <1>1 DEF Lookup, CheckVersion, CheckRecords, FoundBeforeWrite, Fails, AnswerFromRecord, Stages
  <2> QED
    BY <2>1, <2>2, <2>3 DEF Reads
<1>3. CASE /\ Is(r, "reset")
           /\ req' = [req EXCEPT ![r].engine = Call(r).start, ![r].phase = "create"]
  <2>1. req'[r].engine = Call(r).start
    BY <1>0, <1>3 DEF Serving
  <2> QED
    BY <1>3, <2>1, RequestFacts, CallFacts DEF Is
<1>4. CASE req' = [req EXCEPT ![r].engine = state,
                              ![r].phase = IF Is(r, "commit") THEN "preview" ELSE "lookup"]
  <2> DEFINE stage == IF Is(r, "commit") THEN "preview" ELSE "lookup"
  <2>1. req'[r].phase = stage
    BY <1>0, <1>4 DEF Serving
  <2> QED
    BY <2>1
<1>5. CASE req' = [req EXCEPT ![r].known = state, ![r].phase = "lookup"]
  <2>1. req'[r].phase = "lookup"
    BY <1>0, <1>5 DEF Serving
  <2> QED
    BY <2>1
<1> QED
  BY <1>1, <1>2, <1>3, <1>4, <1>5 DEF ReadState, Stages

(* The copies of a request that is sent, or that reads, fit the sandbox. *)
LEMMA NewCopiesFit ==
    ASSUME TypeOK, StagesIInv, CopiesIInv,
           NEW r \in Requests, Send(r) \/ Serve(r) \/ Fails(r), req'[r] # Idle
    PROVE  \/ /\ CopiesOf(r)' \subseteq CopiesOf(r) \cup {Stored'}
              /\ req[r] # Idle /\ req'[r].call = req[r].call
              /\ req'[r].phase \notin {"create", "base"}
           \/ state' = state /\ overwritten' = overwritten /\ CopiesFit(r)'
<1>0. /\ req \in [Requests -> Serving \cup {Idle}] /\ Stored \in States /\ Stored.ver \in Nat
      /\ Fits(Stored) /\ Fits(Seed)
  BY StateFacts DEF TypeOK, CopiesIInv, Fits
<1>1. CASE Send(r)
  <2>1. PICK call \in Calls :
          req' = [req EXCEPT ![r] = [phase |-> "read", call |-> call, id |-> sent + 1,
                                     known |-> None, engine |-> Seed, preview |-> None]]
    BY <1>1 DEF Send
  <2>2. /\ req'[r].call = call /\ req'[r].known = None /\ req'[r].engine = Seed
        /\ req'[r].phase = "read"
        /\ state' = state /\ overwritten' = overwritten
    BY <1>0, <1>1, <2>1 DEF Send
  <2>3. CopiesOf(r)' = {Seed}
              \cup (IF call.kind \in ReplayKinds /\ call.base # None THEN {call.base} ELSE {})
              \cup (IF call.kind = "put" THEN {Replaced(call)} ELSE {})
    BY <2>2 DEF CopiesOf, Is, Call, Replaced, Replays, At
  <2>4. call.kind \in ReplayKinds /\ call.base # None => Fits(call.base)
    <3>1. call.kind \in ReplayKinds => call.base \in {None} \cup {Edited(e, FALSE) : e \in Edits}
      BY CallsCarry
    <3>2. \A e \in Edits : Fits(Edited(e, FALSE))
      BY <1>0, EditedIsAState DEF Fits
    <3> QED
      BY <3>1, <3>2
  <2>5. call.kind = "put" => Fits(Replaced(call)) /\ Replaced(call).ver <= call.body.ver
    <3>1. SUFFICES ASSUME call.kind = "put"
                   PROVE  Fits(Replaced(call)) /\ Replaced(call).ver <= call.body.ver
      OBVIOUS
    <3>2. call.expected = Seen /\ \E e \in Edits, runs \in BOOLEAN : call.body = Edited(e, runs)
      BY <3>1, CallsCarry
    <3>3. /\ call.body \in States /\ CommandsOf(call.body) = CommandsOf(Stored)
          /\ Stored.ver <= call.body.ver
      BY <1>0, <3>2, EditedIsAState
    <3>4. Replaced(call).ver = Stored.ver
      BY <3>2, StateFacts, ApiAssumption DEF Replaced, Seen, Stored, Seed, TypeOK
    <3>5. CommandsOf(Replaced(call)) = CommandsOf(Stored)
      BY <3>3 DEF Replaced, CommandsOf
    <3> QED
      BY <1>0, <3>3, <3>4, <3>5 DEF Fits
  <2>6. \A copy \in CopiesOf(r)' : Fits(copy)
    BY <1>0, <2>3, <2>4, <2>5
  <2>7. \A copy : Fits(copy) => Fits(copy)'
    BY <2>2 DEF Fits, Stored, CommandsOf
  <2>8. Is(r, "put")' => Replaced(Call(r))'.ver <= Call(r)'.body.ver
    BY <2>2, <2>5 DEF Is, Call, Replaced
  <2>9. ~At(r, "create")' /\ ~At(r, "base")'
    BY <2>2 DEF At
  <2> QED
    BY <2>2, <2>6, <2>7, <2>8, <2>9 DEF CopiesFit
<1>2. CASE req[r] # Idle /\ (Reads(r) \/ Fails(r))
  <2>1. /\ state' = state /\ overwritten' = overwritten
        /\ req'[r].call = req[r].call
        /\ req'[r].known \in {req[r].known, state}
        /\ \/ req'[r].engine \in CopiesOf(r) \cup {Stored, Seed}
           \/ req'[r].phase \in {"create", "base"} /\ req'[r].engine = Fixture
    BY <1>2, ReadsCarry
  <2>2. CopiesFit(r)
    BY <1>2 DEF CopiesIInv, Busy
  <2>3. CopiesOf(r)' \subseteq CopiesOf(r) \cup {Stored, Seed}
    BY <2>1 DEF CopiesOf, Is, Call, Replaced, Stored, Replays, At
  <2>4. \A copy : Fits(copy) => Fits(copy)'
    BY <2>1 DEF Fits, Stored, CommandsOf
  <2>5. \A copy \in CopiesOf(r)' : Fits(copy)'
    BY <1>0, <2>2, <2>3, <2>4 DEF CopiesFit
  <2>6. Is(r, "put")' => Replaced(Call(r))'.ver <= Call(r)'.body.ver
    BY <2>1, <2>2 DEF Is, Call, Replaced, CopiesFit
  <2>7. At(r, "create")' => req'[r].engine \in {Seed, Fixture}
    BY <1>2, CreatesAreReads DEF At
  <2>8. At(r, "base")' => req'[r].engine \in {Seed, Fixture} \/ Fits(req'[r].engine)
    BY <1>0, <2>1, <2>2 DEF CopiesFit
  <2>9. At(r, "base")' => req'[r].engine \in {Seed, Fixture} \/ Fits(req[r].engine)'
    BY <2>4, <2>8
  <2> QED
    BY <2>1, <2>5, <2>6, <2>7, <2>9 DEF CopiesFit
<1>3. ASSUME NEW lost \in BOOLEAN, req[r] # Idle,
             \/ Upload(r, lost) \/ Create(r, lost) \/ WriteBase(r, lost)
             \/ WriteCommand(r, lost) \/ WriteReplay(r, lost)
      PROVE  /\ CopiesOf(r)' \subseteq CopiesOf(r) \cup {Stored'}
             /\ req'[r].call = req[r].call /\ req'[r].phase \notin {"create", "base"}
  <2>1. /\ state' # None
        /\ \/ Goes(r, "lookup") /\ state' = req[r].engine
           \/ Goes(r, "check") /\ state' = req[r].engine
           \/ Goes(r, "raced") /\ WriteReplay(r, lost)
    <3>1. ~(Create(r, lost) /\ WriteReplay(r, lost)) /\ ~(WriteBase(r, lost) /\ WriteReplay(r, lost))
      BY DEF Create, WriteBase, WriteReplay, At
    <3> QED
      BY <1>3, <3>1, WritesAre
  <2>2. /\ req'[r].call = req[r].call /\ req'[r].known = req[r].known
        /\ req'[r].engine = req[r].engine /\ req'[r].phase \in {"lookup", "check", "raced"}
    BY <1>3, <2>1, GoesOn DEF Stages
  <2>3. req[r].engine \in CopiesOf(r) \cup {Stored'}
    BY <2>1 DEF CopiesOf, WriteReplay, At, Stored
  <2> QED
    BY <2>2, <2>3 DEF CopiesOf, Is, Call, Replaced, Replays, At
<1> QED
  BY <1>1, <1>2, <1>3, ServesTheBusy DEF Serve, Reads

(* A copy has a version. *)
LEMMA CopiesHaveVersions ==
    ASSUME TypeOK, NEW r \in Requests, req[r] # Idle, NEW copy \in CopiesOf(r)
    PROVE  copy.ver \in Nat
<1>1. /\ req[r].engine.ver \in Nat
      /\ req[r].known # None => req[r].known.ver \in Nat
  BY RequestFacts, StateFacts
<1>2. Replays(r) /\ Call(r).base # None => Call(r).base.ver \in Nat
  BY RequestFacts, CallFacts, StateFacts DEF Replays
<1>3. Is(r, "put") => Replaced(Call(r)).ver \in Nat
  BY RequestFacts, CallFacts DEF Is, Replaced
<1> QED
  BY <1>1, <1>2, <1>3 DEF CopiesOf

LEMMA CopiesStep ==
    ASSUME TypeOK, TypeOK', StagesIInv, CopiesIInv, OnceIInv,
           NEW r \in Requests, Send(r) \/ Serve(r) \/ Fails(r)
    PROVE  CopiesIInv'
<1>0. MovesOn
  BY StepMoves
<1>1. \A copy : copy.ver \in Nat /\ Fits(copy) => Fits(copy)'
  BY <1>0, FitsOn DEF Fits
<1>2. Fits(Seed)'
  BY <1>1, StateFacts DEF CopiesIInv, Seed
<1>3. ASSUME NEW q \in Requests, req[q] # Idle,
             CopiesOf(q)' \subseteq CopiesOf(q) \cup {Stored'}, req'[q].call = req[q].call,
             req'[q].phase \notin {"create", "base"} \/ req'[q] = req[q]
      PROVE  CopiesFit(q)'
  <2>1. CopiesFit(q)
    BY <1>3 DEF CopiesIInv, Busy
  <2>2. \A copy \in CopiesOf(q)' : Fits(copy)'
    <3>1. Fits(Stored)'
      BY StateFacts DEF Fits, TypeOK, Stored
    <3>2. \A copy \in CopiesOf(q) : Fits(copy)'
      BY <1>1, <1>3, <2>1, CopiesHaveVersions DEF CopiesFit
    <3> QED
      BY <1>3, <3>1, <3>2
  <2>4. At(q, "create")' => req'[q].engine \in {Seed, Fixture}
    BY <1>3, <2>1 DEF CopiesFit, At
  <2>5. At(q, "base")' => req'[q].engine \in {Seed, Fixture} \/ Fits(req[q].engine)'
    <3>1. req[q].engine.ver \in Nat
      BY <1>3, RequestFacts, StateFacts
    <3> QED
      BY <1>1, <1>3, <2>1, <3>1 DEF CopiesFit, At
  <2>3. Is(q, "put")' => Replaced(Call(q))'.ver <= Call(q)'.body.ver
    BY <1>3, <2>1 DEF Is, Call, Replaced, CopiesFit
  <2> QED
    BY <2>2, <2>3, <2>4, <2>5 DEF CopiesFit
<1>4. ASSUME NEW q \in Requests, req'[q] # Idle
      PROVE  CopiesFit(q)'
  <2>1. CASE q = r
    BY <1>3, <1>4, <2>1, NewCopiesFit
  <2>2. CASE q # r
    <3>1. req'[q] = req[q]
      BY <2>2, OthersStay
    <3>2. CopiesOf(q)' = CopiesOf(q)
      BY <3>1 DEF CopiesOf, Is, Call, Replaced, Replays, At
    <3> QED
      BY <1>3, <1>4, <3>1, <3>2
  <2> QED
    BY <2>1, <2>2
<1> QED
  BY <1>2, <1>4 DEF CopiesIInv, Busy

-----------------------------------------------------------------------------
(* What a step has to leave for every key to have been written once. *)
LEMMA OnceMoves ==
    ASSUME TypeOK, TypeOK', StagesIInv, CopiesIInv, OnceIInv, MovesOn,
           NEW r \in Requests, Send(r) \/ Serve(r) \/ Fails(r),
           NEW keys \in SUBSET Keys, Counted(keys),
           keys # {} => state # None /\ Stored.ver < Stored'.ver,
           \A key \in keys : applied[key] = 0 /\ \E row \in rows' : row.key = key,
           \A row \in rows' \ rows : row.cmd \in Written => row.key \in keys,
           \/ req'[r] = Idle \/ ~At(r, "write")'
           \/ keys = {} /\ \A key \in KeysOf(r)' : ~(applied[key] >= 1)
    PROVE  OnceIInv'
<1>1. /\ applied \in [Keys -> Nat]
      /\ \A key \in Keys : applied'[key] = IF key \in keys THEN applied[key] + 1 ELSE applied[key]
      /\ \A row \in rows' : row.key \in Keys
  BY DEF TypeOK, Counted
<1>2. /\ rows \subseteq rows' /\ (state # None => state' # None)
      /\ Stored.ver \in Nat /\ Stored'.ver \in Nat /\ Stored.ver <= Stored'.ver
  BY RowsNeedAState, StateFacts DEF MovesOn, TypeOK, Stored
<1>3. AppliedOnce'
  BY <1>1 DEF OnceIInv, AppliedOnce
<1>4. \A row \in rows' : row.cmd \in Written => applied'[row.key] >= 1
  BY <1>1 DEF OnceIInv
<1>5. ASSUME NEW key \in Keys, applied'[key] >= 1
      PROVE  /\ state' # None
             /\ \E row \in rows' : row.key = key
  BY <1>1, <1>2, <1>5 DEF OnceIInv, Named
<1>6. ASSUME NEW key \in Keys, applied'[key] >= 1, NEW q \in Requests, req'[q] # Idle,
             At(q, "write")', key \in KeysOf(q)'
      PROVE  req'[q].engine.ver < Stored'.ver
  <2>1. CASE q = r
    BY <1>1, <1>6, <2>1
  <2>2. CASE q # r
    <3>1. req'[q] = req[q] /\ KeysOf(q)' = KeysOf(q) /\ At(q, "write")
      BY <1>6, <2>2, OthersStay DEF KeysOf, Is, Call, Replays, At
    <3>2. req[q].engine.ver \in Nat /\ req[q].engine.ver <= Stored.ver
      <4>1. req[q] # Idle /\ req[q].engine \in CopiesOf(q)
        BY <1>6, <3>1 DEF CopiesOf, At
      <4> QED
        BY <4>1, CopiesHaveVersions DEF CopiesIInv, CopiesFit, Busy, Fits
    <3>3. CASE key \in keys
      BY <1>2, <3>1, <3>2, <3>3
    <3>4. CASE key \notin keys
      <4>1. applied[key] >= 1
        BY <1>1, <1>6, <3>4
      <4>2. state # None /\ req[q].engine.ver < state.ver
        BY <1>6, <3>1, <4>1 DEF OnceIInv, Busy
      <4>3. Stored = state
        BY <4>2 DEF Stored
      <4> QED
        BY <1>2, <3>1, <3>2, <4>2, <4>3
    <3> QED
      BY <3>3, <3>4
  <2> QED
    BY <2>1, <2>2
<1>7. state' # None => Stored' = state'
  BY DEF Stored
<1> QED
  BY <1>3, <1>4, <1>5, <1>6, <1>7 DEF OnceIInv, Named, Busy

(* A step that counts nothing and leaves the rows. *)
LEMMA NothingCounted ==
    ASSUME TypeOK, applied' = applied
    PROVE  Counted({})
<1>1. applied = [key \in Keys |-> applied[key]]
  BY DEF TypeOK
<1> QED
  BY <1>1 DEF Counted

(* A look-up lets no key pass whose effect is in the state. *)
LEMMA OnceAfterReads ==
    ASSUME TypeOK, StagesIInv, OnceIInv, NEW r \in Requests, req[r] # Idle,
           Reads(r) \/ Fails(r),
           NEW key \in KeysOf(r)', req'[r] # Idle, At(r, "write")'
    PROVE  ~(applied[key] >= 1)
<1>0. /\ req \in [Requests -> Serving \cup {Idle}] /\ req'[r].call = req[r].call
      /\ StageOf(r) /\ Call(r) \in CallSet
  BY ReadsCarry, RequestFacts DEF TypeOK, StagesIInv, Busy
<1>1. key \in KeysOf(r)
  BY <1>0 DEF KeysOf, Is, Call, Replays
<1>8. req'[r].phase = "write"
  BY DEF At
<1>2. \A k \in Keys : applied[k] >= 1 => Named(k) # {}
  BY DEF OnceIInv
<1>3. CASE ReadState(r) /\ ~Ends(r)
  <2>1. CASE Goes(r, "upload")
    BY <1>8, <2>1, GoesOn DEF Stages
  <2>2. CASE req' = [req EXCEPT ![r].engine = Call(r).start, ![r].phase = "create"]
    BY <1>0, <1>8, <2>2, RequestFacts DEF Serving
  <2>3. CASE req' = [req EXCEPT ![r].engine = state,
                                ![r].phase = IF Is(r, "commit") THEN "preview" ELSE "lookup"]
    <3> DEFINE stage == IF Is(r, "commit") THEN "preview" ELSE "lookup"
    <3>1. req'[r].phase = stage
      BY <1>0, <2>3, RequestFacts DEF Serving
    <3> QED
      BY <1>8, <3>1
  <2>4. CASE req' = [req EXCEPT ![r].known = state, ![r].phase = "lookup"]
    BY <1>0, <1>8, <2>4, RequestFacts DEF Serving
  <2> QED
    BY <1>3, <2>1, <2>2, <2>3, <2>4 DEF ReadState
<1>4. CASE ReadPreview(r)
  <2>1. PICK p \in previews : req' = [req EXCEPT ![r].preview = p, ![r].phase = "lookup"]
    BY <1>4 DEF ReadPreview
  <2>2. req'[r].phase = "lookup"
    BY <1>0, <2>1, RequestFacts DEF Serving
  <2> QED
    BY <1>8, <2>2
<1>5. CASE Lookup(r) /\ ~Ends(r)
  <2>1. Named(Call(r).key) = {} /\ ~Replays(r) /\ ~Is(r, "put")
    BY <1>0, <1>5 DEF Lookup, AnswerFromRecord, StageOf, At
  <2>2. key = Call(r).key /\ key \in Keys
    BY <1>0, <1>1, <2>1, CallFacts DEF KeysOf, Is, Replays
  <2> QED
    BY <1>2, <2>1, <2>2
<1>6. CASE LookupBatch(r) /\ ~Ends(r)
  <2>1. PICK base : \E stage \in {"base", "check"} :
          req' = [req EXCEPT ![r].engine = base, ![r].phase = stage]
    BY <1>6, BatchGoesOn
  <2>2. PICK stage \in {"base", "check"} :
          req' = [req EXCEPT ![r].engine = base, ![r].phase = stage]
    BY <2>1
  <2>3. req'[r].phase = stage
    BY <1>0, <2>2, RequestFacts DEF Serving
  <2> QED
    BY <1>8, <2>3
<1>9. CASE CheckRecords(r) /\ ~Ends(r)
  <2>1. ~AnyNamed(Call(r)) /\ Replays(r)
    BY <1>0, <1>9 DEF CheckRecords, StageOf, At
  <2>2. key \in ToSet(Call(r).batch) /\ Call(r).batch \in Batches
    BY <1>0, <1>1, <2>1, CallFacts DEF KeysOf, Is, Replays, ReplayKinds
  <2>3. Named(key) = {} /\ key \in Keys
    BY <2>1, <2>2, BatchFacts DEF AnyNamed
  <2> QED
    BY <1>2, <2>3
<1>10. CASE CheckVersion(r) /\ ~Ends(r)
  BY <1>8, <1>10, GoesOn DEF CheckVersion, Stages
<1>7. CASE FoundBeforeWrite(r) \/ Fails(r) \/ Ends(r)
  BY <1>7, EndsIdle DEF FoundBeforeWrite, Fails, AnswerFromRecord
<1> QED
  BY <1>3, <1>4, <1>5, <1>6, <1>7, <1>9, <1>10 DEF Reads

(* The effect of a command is written when none of its key was. *)
LEMMA OnceAfterCommand ==
    ASSUME TypeOK, TypeOK', StagesIInv, CopiesIInv, OnceIInv, MovesOn,
           NEW r \in Requests, NEW lost \in BOOLEAN, req[r] # Idle, WriteCommand(r, lost)
    PROVE  OnceIInv'
<1> DEFINE call == Call(r)
           row == RowFor(call, req[r].engine)
           recorded == IF RowGoesIn(r) THEN rows \cup {row} ELSE rows
           effect == StateGoesIn(r, recorded)
           keys == IF effect /\ ~Is(r, "preview") /\ row.ok THEN {call.key} ELSE {}
<1>1. /\ At(r, "write") /\ call.kind \in {"preview", "reset", "commit"} /\ call.key \in Keys
      /\ call \in CallSet /\ state # None /\ req[r].engine \in States
      /\ KeysOf(r) = {call.key}
  BY RequestFacts, CallFacts
     DEF WriteCommand, StagesIInv, StageOf, Busy, At, Is, KeysOf, Replays, ReplayKinds
<1>2. /\ rows' = recorded /\ Counted(keys) /\ req'[r] = Idle
      /\ state' = IF effect THEN After(call, req[r].engine) ELSE state
  BY EndsIdle DEF WriteCommand
<1>3. row.key = call.key /\ row.cmd = call.kind /\ row.ok = Accepted(call, req[r].engine)
  BY DEF RowFor
<1>4. ASSUME keys # {}
      PROVE  /\ Stored.ver < Stored'.ver
             /\ applied[call.key] = 0
             /\ \E old \in rows' : old.key = call.key
  <2>1. /\ effect /\ call.kind \in {"reset", "commit"} /\ Accepted(call, req[r].engine)
        /\ state.ver = req[r].engine.ver
    BY <1>1, <1>3, <1>4 DEF StateGoesIn, Is
  <2>2. After(call, req[r].engine).ver = req[r].engine.ver + 1
    BY <2>1 DEF After, Accepted, ReplayKinds
  <2>3. Stored.ver < Stored'.ver
    <3>1. state' = After(call, req[r].engine) /\ After(call, req[r].engine) \in States
      BY <1>1, <1>2, <2>1, AfterIsAState
    <3> QED
      BY <1>1, <2>1, <2>2, <3>1, StateFacts DEF Stored
  <2>4. \E old \in rows' : old.key = call.key
    BY <1>2, <2>1 DEF StateGoesIn, Exact
  <2> QED
    BY <1>1, <2>1, <2>3, <2>4, AtTheVersion
<1>5. \A new \in rows' \ rows : new.cmd \in Written => new.key \in keys
  <2>1. SUFFICES ASSUME RowGoesIn(r), row.cmd = "reset" PROVE row.key \in keys
    BY <1>1, <1>2, <1>3 DEF Written
  <2>2. row \in recorded /\ Exact(recorded, call)
    BY <1>3, <2>1 DEF Exact, Same
  <2>3. effect
    BY <2>1, <2>2 DEF StateGoesIn, RowGoesIn
  <2>4. row.ok /\ ~Is(r, "preview")
    BY <1>3, <2>1 DEF Accepted, Is
  <2> QED
    BY <1>3, <2>3, <2>4
<1>6. keys \in SUBSET Keys /\ \A key \in keys : key = call.key
  BY <1>1
<1> HIDE DEF keys
<1>7. Serve(r)
  BY DEF Serve
<1> QED
  BY <1>1, <1>2, <1>4, <1>5, <1>6, <1>7, OnceMoves

LEMMA OnceAfterReplay ==
    ASSUME TypeOK, TypeOK', StagesIInv, CopiesIInv, OnceIInv, MovesOn,
           NEW r \in Requests, NEW lost \in BOOLEAN, req[r] # Idle, WriteReplay(r, lost)
    PROVE  OnceIInv'
<1> DEFINE call == Call(r)
           recorded == rows \cup BatchRows(r)
           effect == state.ver = req[r].engine.ver /\ Recorded(call, recorded)
           moved == Moved(call, Len(call.batch))
           keys == IF effect THEN Effects(call) ELSE {}
<1>1. /\ At(r, "write") /\ call.kind \in ReplayKinds /\ call.batch \in Batches
      /\ call \in CallSet /\ state # None /\ req[r].engine \in States
      /\ KeysOf(r) = ToSet(call.batch) /\ ToSet(call.batch) \subseteq Keys
      /\ Effects(call) \subseteq ToSet(call.batch)
  <2>1. At(r, "write") /\ call.kind \in ReplayKinds /\ call \in CallSet /\ state # None
    BY RequestFacts DEF WriteReplay, StagesIInv, StageOf, Busy, At, Replays
  <2>2. KeysOf(r) = ToSet(call.batch)
    BY <2>1 DEF KeysOf, Is, Replays, ReplayKinds
  <2> QED
    BY <2>1, <2>2, RequestFacts, CallFacts, BatchFacts, EffectFacts
<1>2. /\ rows' = recorded /\ Counted(keys)
      /\ state' = IF effect THEN After(call, req[r].engine) ELSE state
      /\ req'[r] = Idle \/ ~At(r, "write")'
  <2>1. Ends(r) \/ Goes(r, "raced")
    BY DEF WriteReplay
  <2>2. req'[r] = Idle \/ req'[r].phase = "raced"
    BY <2>1, EndsIdle, GoesOn DEF Stages
  <2> QED
    BY <2>2 DEF WriteReplay, At
<1>3. ASSUME effect, Effects(call) # {}
      PROVE  /\ Stored.ver < Stored'.ver
             /\ \A key \in Effects(call) :
                   applied[key] = 0 /\ \E row \in rows' : row.key = key
  <2>1. After(call, req[r].engine).ver = req[r].engine.ver + moved
    BY <1>1 DEF After, ReplayKinds
  <2>2. After(call, req[r].engine) \in States /\ state' = After(call, req[r].engine)
    BY <1>1, <1>2, <1>3, AfterIsAState DEF ReplayKinds
  <2>3. moved \in Nat /\ moved >= 1
    BY <1>1, <1>3, EffectFacts
  <2>4. Stored = state /\ Stored' = state' /\ state.ver = req[r].engine.ver
    BY <1>1, <1>3, <2>2, StateFacts DEF Stored
  <2>5. Stored.ver < Stored'.ver
    <3> HIDE DEF moved
    <3> QED
      BY <1>1, <2>1, <2>2, <2>3, <2>4, StateFacts
  <2>6. ASSUME NEW key \in Effects(call)
        PROVE  applied[key] = 0 /\ \E row \in rows' : row.key = key
    <3>1. \E row \in rows' : row.key = key
      BY <1>1, <1>2, <1>3, BatchFacts DEF Recorded
    <3>2. applied[key] = 0
      BY <1>1, <2>4, AtTheVersion
    <3> QED
      BY <3>1, <3>2
  <2> QED
    BY <2>5, <2>6
<1>4. \A new \in rows' \ rows : new.cmd \in Written => new.key \in keys
  <2>1. SUFFICES ASSUME NEW new \in BatchRows(r), new.cmd \in Written
                 PROVE  new.key \in keys
    BY <1>2
  <2>2. BatchRows(r) = ReplayRows(call, req[r].engine) /\ state.ver = req[r].engine.ver
    BY <2>1 DEF BatchRows
  <2>3. Recorded(call, recorded) /\ new.key \in Effects(call)
    BY <1>1, <2>1, <2>2, ReplayRowsTypes DEF Written, Recorded
  <2> QED
    BY <2>2, <2>3
<1>5. keys \in SUBSET Keys
  BY <1>1
<1>6. keys # {} => Stored.ver < Stored'.ver
  BY <1>3
<1>9. keys # {} => state # None
  BY <1>1
<1>7. \A key \in keys : applied[key] = 0 /\ \E row \in rows' : row.key = key
  BY <1>3
<1> HIDE DEF keys, effect
<1>8. Serve(r)
  BY DEF Serve
<1> QED
  BY <1>1, <1>2, <1>4, <1>5, <1>6, <1>7, <1>8, <1>9, OnceMoves

LEMMA OnceStep ==
    ASSUME TypeOK, TypeOK', StagesIInv, CopiesIInv, OnceIInv, MovesOn,
           NEW r \in Requests, Send(r) \/ Serve(r) \/ Fails(r)
    PROVE  OnceIInv'
<1>0. req \in [Requests -> Serving \cup {Idle}]
  BY DEF TypeOK
<1>1. ASSUME applied' = applied, rows' = rows,
             \/ req'[r] = Idle \/ ~At(r, "write")'
             \/ \A key \in KeysOf(r)' : ~(applied[key] >= 1)
      PROVE  OnceIInv'
  <2>1. Counted({}) /\ rows' \ rows = {}
    BY <1>1, NothingCounted
  <2> QED
    BY <1>1, <2>1, OnceMoves
<1>2. CASE Send(r)
  <2>1. req'[r].phase = "read" /\ applied' = applied /\ rows' = rows
    BY <1>0, <1>2 DEF Send
  <2> QED
    BY <1>1, <2>1 DEF At
<1>3. CASE req[r] # Idle /\ (Reads(r) \/ Fails(r))
  <2>1. applied' = applied /\ rows' = rows
    BY <1>3, ReadsCarry
  <2> QED
    BY <1>1, <1>3, <2>1, OnceAfterReads
<1>4. ASSUME NEW lost \in BOOLEAN, req[r] # Idle,
             Upload(r, lost) \/ Create(r, lost) \/ WriteBase(r, lost)
      PROVE  OnceIInv'
  <2>1. applied' = applied /\ rows' = rows
    BY <1>4 DEF Upload, Create, WriteBase
  <2>2. CASE Goes(r, "lookup") \/ Goes(r, "check")
    <3>1. ~At(r, "write")'
      BY <1>4, <2>2, GoesOn DEF Stages, At
    <3> QED
      BY <1>1, <2>1, <3>1
  <2>3. CASE req'[r] = Idle
    BY <1>1, <2>1, <2>3
  <2>4. Ends(r) \/ Goes(r, "lookup") \/ Goes(r, "check")
    BY <1>4 DEF Upload, Create, WriteBase
  <2> QED
    BY <2>2, <2>3, <2>4, EndsIdle
<1> QED
  BY <1>2, <1>3, <1>4, OnceAfterCommand, OnceAfterReplay, ServesTheBusy DEF Serve, Reads

-----------------------------------------------------------------------------
(* What is told is taken from an ok row. *)
LEMMA TellsWhatTheyAre ==
    ASSUME AnswersAreRecorded, rows \subseteq rows', NEW known, NEW found,
           \A row \in known : \E other \in rows' :
              /\ other.ok /\ other.key = row.key /\ other.cmd = row.cmd
              /\ other.ver = row.ver \/ (found /\ row.cmd \in ReplayKinds),
           told' = told \cup Answers(known, found)
    PROVE  AnswersAreRecorded'
<1> DEFINE Stands(answer, row) ==
             /\ row.ok /\ row.key = answer.key /\ row.cmd = answer.cmd
             /\ row.ver = answer.ver \/ (answer.found /\ answer.cmd \in ReplayKinds)
<1>1. ASSUME NEW answer \in told'
      PROVE  \E row \in rows' : Stands(answer, row)
  <2>1. CASE answer \in told
    BY <2>1 DEF AnswersAreRecorded
  <2>2. CASE answer \notin told
    <3>1. PICK row \in known :
            answer = [key |-> row.key, cmd |-> row.cmd, ver |-> row.ver, found |-> found]
      BY <1>1, <2>2 DEF Answers
    <3> QED
      BY <3>1
  <2> QED
    BY <2>1, <2>2
<1> QED
  BY <1>1 DEF AnswersAreRecorded

(* So is what is told of the rows there are. *)
LEMMA TellsWhatIsThere ==
    ASSUME AnswersAreRecorded, rows \subseteq rows', NEW known \in SUBSET rows',
           \A row \in known : row.ok, NEW found, told' = told \cup Answers(known, found)
    PROVE  AnswersAreRecorded'
BY TellsWhatTheyAre

(* And of a single one. *)
LEMMA TellsWhatIsRecorded ==
    ASSUME AnswersAreRecorded, NEW row, TellRecorded(row), rows \subseteq rows', row \in rows'
    PROVE  AnswersAreRecorded'
<1>1. CASE told' = told
  BY <1>1 DEF AnswersAreRecorded
<1>2. CASE row.ok /\ told' = told \cup Answers({row}, FALSE)
  BY <1>2, TellsWhatIsThere
<1> QED
  BY <1>1, <1>2 DEF TellRecorded

(* Clients are told what is in the records only. *)
LEMMA AnswersStep ==
    ASSUME TypeOK, StagesIInv, RecordsIInv, NEW r \in Requests, Send(r) \/ Serve(r) \/ Fails(r)
    PROVE  AnswersAreRecorded'
<1>0. rows \subseteq rows' /\ AnswersAreRecorded /\ \A row \in rows : row.cmd \in ReplayKinds => row.ok
  BY RowsNeedAState DEF RecordsIInv
<1>1. CASE told' = told
  BY <1>0, <1>1 DEF AnswersAreRecorded
<1>2. CASE Send(r) \/ Fails(r) \/ ReadState(r) \/ ReadPreview(r) \/ CheckVersion(r)
  BY <1>1, <1>2 DEF Send, Fails, ReadState, ReadPreview, CheckVersion
<1>3. CASE Lookup(r) \/ FoundBeforeWrite(r)
  <2>1. CASE AnswerFromRecord(r)
    <3>1. PICK row \in rows : TellRecorded(row) \/ told' = told
      BY <2>1 DEF AnswerFromRecord, Named
    <3> QED
      BY <1>0, <1>1, <3>1, TellsWhatIsRecorded
  <2> QED
    BY <1>1, <1>3, <2>1 DEF Lookup, FoundBeforeWrite
<1>4. CASE LookupBatch(r)
  <2> DEFINE recorded == RecordsOf(Call(r), rows)
  <2>1. told' = told \/ told' = told \cup Answers(recorded, FALSE)
    BY <1>4 DEF LookupBatch
  <2>2. Call(r).kind \in ReplayKinds /\ recorded \subseteq rows /\ recorded \subseteq rows'
    BY <1>0, <1>4 DEF LookupBatch, RecordsOf, Replays
  <2>3. \A row \in recorded : row.cmd \in ReplayKinds
    BY <2>2 DEF RecordsOf, Act, ReplayKinds
  <2> HIDE DEF recorded
  <2> QED
    BY <1>0, <1>1, <2>1, <2>2, <2>3, TellsWhatIsThere
<1>8. CASE CheckRecords(r) /\ told' # told
  <2> DEFINE new == ReplayRows(Call(r), req[r].engine)
  <2>1. Recorded(Call(r), rows) /\ told' = told \cup Answers(new, TRUE)
    BY <1>8 DEF CheckRecords
  <2>2. Call(r) \in CallSet /\ Call(r).kind \in ReplayKinds /\ req[r].engine \in States
    BY <1>8, RequestFacts DEF CheckRecords, StagesIInv, StageOf, Busy, At, Replays
  <2>3. \A row \in new :
           /\ row.cmd \in ReplayKinds
           /\ \E i \in DOMAIN Call(r).batch : row.key = Call(r).batch[i] /\ row.cmd = Act(Call(r), i)
    BY <2>2, ReplayRowsTypes
  <2>4. \A row \in new : \E other \in rows : other.key = row.key /\ other.cmd = row.cmd
    BY <2>1, <2>3 DEF Recorded
  <2> HIDE DEF new
  <2>5. \A row \in new : \E other \in rows' : other.ok /\ other.key = row.key /\ other.cmd = row.cmd
    BY <1>0, <2>3, <2>4
  <2> QED
    BY <1>0, <2>1, <2>3, <2>5, TellsWhatTheyAre
<1>5. ASSUME NEW lost \in BOOLEAN, Upload(r, lost) \/ Create(r, lost) \/ WriteBase(r, lost)
      PROVE  AnswersAreRecorded'
  BY <1>1, <1>5 DEF Upload, Create, WriteBase
<1>6. ASSUME NEW lost \in BOOLEAN, WriteCommand(r, lost)
      PROVE  AnswersAreRecorded'
  <2> DEFINE row == RowFor(Call(r), req[r].engine)
  <2>1. CASE told' = told
    BY <1>1, <2>1
  <2>2. CASE RowGoesIn(r) /\ TellRecorded(row)
    <3>1. row \in rows'
      BY <1>6, <2>2 DEF WriteCommand
    <3> QED
      BY <1>0, <2>2, <3>1, TellsWhatIsRecorded
  <2>3. CASE \E old \in Named(Call(r).key) : TellRecorded(old)
    <3>1. PICK old \in rows : TellRecorded(old)
      BY <2>3 DEF Named
    <3> QED
      BY <1>0, <3>1, TellsWhatIsRecorded
  <2> QED
    BY <1>6, <2>1, <2>2, <2>3 DEF WriteCommand
<1>7. ASSUME NEW lost \in BOOLEAN, req[r] # Idle, WriteReplay(r, lost)
      PROVE  AnswersAreRecorded'
  <2>1. /\ BatchRows(r) \subseteq rows'
        /\ \/ told' = told
           \/ told' = told \cup Answers(BatchRows(r), FALSE)
    BY <1>7 DEF WriteReplay
  <2>2. \A row \in BatchRows(r) : row.ok
    BY <1>7, RequestFacts, ReplayRowsTypes DEF BatchRows, WriteReplay, Replays
  <2> QED
    BY <1>0, <1>1, <2>1, <2>2, TellsWhatIsThere
<1> QED
  BY <1>1, <1>2, <1>3, <1>4, <1>5, <1>6, <1>7, <1>8, ServesTheBusy DEF Serve

(* The rows of replays come a whole batch at a time, all of them ok. *)
LEMMA RecordsStep ==
    ASSUME TypeOK, StagesIInv, RecordsIInv, NEW r \in Requests, Send(r) \/ Serve(r) \/ Fails(r)
    PROVE  RecordsIInv'
<1>1. AnswersAreRecorded'
  BY AnswersStep
<1>2. CASE \A row \in rows' \ rows : row.cmd \notin ReplayKinds
  <2>1. rows \subseteq rows'
    BY RowsNeedAState
  <2> QED
    BY <1>1, <1>2, <2>1 DEF RecordsIInv, ReplaysAreWhole
<1>3. CASE rows' = rows
  BY <1>2, <1>3
<1>4. CASE Send(r) \/ Fails(r) \/ Reads(r)
  BY <1>3, <1>4 DEF Send, Fails, Reads, ReadState, ReadPreview, Lookup, LookupBatch,
                    CheckVersion, CheckRecords, FoundBeforeWrite, Stores
<1>5. ASSUME NEW lost \in BOOLEAN, Upload(r, lost) \/ Create(r, lost) \/ WriteBase(r, lost)
      PROVE  RecordsIInv'
  BY <1>3, <1>5 DEF Upload, Create, WriteBase
<1>6. ASSUME NEW lost \in BOOLEAN, WriteCommand(r, lost)
      PROVE  RecordsIInv'
  BY <1>2, <1>6 DEF WriteCommand, RowFor, Replays
<1>7. ASSUME NEW lost \in BOOLEAN, req[r] # Idle, WriteReplay(r, lost)
      PROVE  RecordsIInv'
  <2>1. CASE BatchRows(r) = {}
    BY <1>3, <1>7, <2>1 DEF WriteReplay
  <2>2. CASE BatchRows(r) # {}
    <3> DEFINE new == ReplayRows(Call(r), req[r].engine)
               batch == Call(r).batch
    <3>1. rows' = rows \cup new /\ batch \in Batches
      BY <1>7, <2>2, RequestFacts, CallFacts DEF WriteReplay, BatchRows, Replays
    <3>2. /\ \A row \in new : row.cmd \in ReplayKinds /\ row.ok /\ row.key \in ToSet(batch)
          /\ \A key \in ToSet(batch) : \E row \in new : row.key = key
      BY <1>7, RequestFacts, ReplayRowsTypes DEF WriteReplay, Replays
    <3> HIDE DEF new, batch
    <3>3. \A key \in ToSet(batch) : \E row \in rows' : row.key = key /\ row.cmd \in ReplayKinds
      BY <3>1, <3>2
    <3>4. ReplaysAreWhole'
      <4>1. ASSUME NEW row \in rows', row.cmd \in ReplayKinds
            PROVE  \E some \in Batches :
                      /\ row.key \in ToSet(some)
                      /\ \A key \in ToSet(some) :
                            \E other \in rows' : other.key = key /\ other.cmd \in ReplayKinds
        <5>1. CASE row \in new
          BY <3>1, <3>2, <3>3, <5>1
        <5>2. CASE row \in rows
          BY <3>1, <4>1, <5>2 DEF RecordsIInv, ReplaysAreWhole
        <5> QED
          BY <3>1, <4>1, <5>1, <5>2
      <4> QED
        BY <4>1 DEF ReplaysAreWhole
    <3>5. \A row \in rows' : row.cmd \in ReplayKinds => row.ok
      BY <3>1, <3>2 DEF RecordsIInv
    <3> QED
      BY <1>1, <3>4, <3>5 DEF RecordsIInv
  <2> QED
    BY <2>1, <2>2
<1> QED
  BY <1>4, <1>5, <1>6, <1>7, ServesTheBusy DEF Serve, Reads

-----------------------------------------------------------------------------
LEMMA RecordsInit ==
    ASSUME Init
    PROVE  CopiesIInv /\ OnceIInv /\ RecordsIInv
<1>1. Busy = {} /\ Stored = Seed
  BY DEF Init, Busy, Stored
<1>2. CopiesIInv
  BY <1>1, StateFacts DEF CopiesIInv, Fits
<1>3. OnceIInv
  BY DEF Init, OnceIInv, AppliedOnce
<1>4. RecordsIInv
  BY DEF Init, RecordsIInv, AnswersAreRecorded, ReplaysAreWhole
<1> QED
  BY <1>2, <1>3, <1>4

(* A step that changes nothing keeps the copies, the keys and the records. *)
LEMMA RecordsStutter ==
    ASSUME CopiesIInv, OnceIInv, RecordsIInv, UNCHANGED vars
    PROVE  CopiesIInv' /\ OnceIInv' /\ RecordsIInv'
<1>1. CopiesIInv'
  BY DEF vars, CopiesIInv, CopiesFit, CopiesOf, Fits, Stored, CommandsOf, Busy, Is, Call,
         Replaced, Replays, At
<1>2. OnceIInv'
  BY DEF vars, OnceIInv, AppliedOnce, Busy, KeysOf, Is, Call, Named, Replays, At
<1>3. RecordsIInv'
  BY DEF vars, RecordsIInv, AnswersAreRecorded, ReplaysAreWhole
<1> QED
  BY <1>1, <1>2, <1>3

(* The copies fit, every key was written once, and the records are whole. *)
LEMMA Records == Spec => [](CopiesIInv /\ OnceIInv /\ RecordsIInv)
<1> DEFINE IInv == CopiesIInv /\ OnceIInv /\ RecordsIInv
<1>1. TypeOK /\ TypeOK' /\ StagesIInv /\ IInv /\ [Next]_vars => IInv'
  <2>1. ASSUME TypeOK, TypeOK', StagesIInv, IInv,
               NEW r \in Requests, Send(r) \/ Serve(r) \/ Fails(r)
        PROVE  IInv'
    BY <2>1, StepMoves, CopiesStep, OnceStep, RecordsStep
  <2> QED
    BY <2>1, RecordsStutter DEF Next
<1> QED
  BY RecordsInit, <1>1, TypeCorrect, PTL DEF Spec

(* However the requests of the API are raced, cut off or sent again, the
   effect of a command is written into the sandbox at most once. *)
THEOREM WrittenOnce == Spec => []AppliedOnce
<1>1. OnceIInv => AppliedOnce
  BY DEF OnceIInv
<1> QED
  BY <1>1, Records, PTL

(* Every ok answer a client got is in the records as the command it sent, and
   with the version it was told, unless its replay found the same actions
   recorded by another request after it had run. *)
THEOREM AnswersStand == Spec => []AnswersAreRecorded
<1>1. RecordsIInv => AnswersAreRecorded
  BY DEF RecordsIInv
<1> QED
  BY <1>1, Records, PTL

(* The actions of a replay are recorded together or not at all. *)
THEOREM ReplaysStand == Spec => []ReplaysAreWhole
<1>1. RecordsIInv => ReplaysAreWhole
  BY DEF RecordsIInv
<1> QED
  BY <1>1, Records, PTL

(* No write takes the version of the sandbox back, and none loses a command
   it was built from, unless a reset, a loaded scenario or an import is recorded
   with it, until a write replaces a state by one not made from it and of its
   version: a creating write on a sandbox that is there by now, the scenario of
   a replay on a sandbox of version 1, a replay that does nothing but import. *)
THEOREM NothingIsLost == Spec => CommandsAreKept
<1> DEFINE Kept == state # None =>
                     /\ state'.ver >= state.ver
                     /\ \/ state.ops \cap Keys \subseteq state'.ops
                        \/ \E row \in rows' \ rows : row.cmd \in Discards
                        \/ overwritten'
<1>1. ASSUME TypeOK, TypeOK', StagesIInv, CopiesIInv, OnceIInv,
             NEW r \in Requests, Send(r) \/ Serve(r) \/ Fails(r), state # None
      PROVE  Kept
  <2>1. MovesOn /\ Keeps
    BY <1>1, StepMoves
  <2>2. /\ Stored = state /\ Stored' = state'
        /\ state.ver \in Nat /\ state'.ver \in Nat
    BY <1>1, RowsNeedAState, StateFacts DEF Stored, TypeOK
  <2>3. state'.ver >= state.ver
    BY <2>1, <2>2 DEF MovesOn
  <2> QED
    BY <2>1, <2>2, <2>3 DEF Keeps, CommandsOf
<1>2. ASSUME TypeOK, UNCHANGED vars, state # None
      PROVE  Kept
  <2>1. state.ver \in Nat
    BY <1>2, StateFacts DEF TypeOK
  <2> QED
    BY <1>2, <2>1 DEF vars
<1>3. TypeOK /\ TypeOK' /\ StagesIInv /\ CopiesIInv /\ OnceIInv /\ [Next]_vars => [Kept]_vars
  BY <1>1, <1>2 DEF Next
<1>4. Spec => [][Kept]_vars
  BY <1>3, TypeCorrect, Records, PTL DEF Spec
<1> QED
  BY <1>4 DEF CommandsAreKept

=============================================================================
