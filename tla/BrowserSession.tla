--------------------------- MODULE BrowserSession ---------------------------
(***************************************************************************)
(* What the browser keeps of the sandbox: the provider of MercariContext,  *)
(* its command executor and the IndexedDbSandboxStateStore they share.     *)
(*                                                                         *)
(* A tab holds a live engine.  A command given through the interface acts  *)
(* on it at once and queues a write on localPersistChain; a command given  *)
(* through the agent interface works on a copy, is written first and       *)
(* published afterwards.  All tabs write the same IndexedDB database, and  *)
(* each has a memory store that takes over an operation IndexedDB refuses. *)
(* A write is guarded by a version number only: the model keeps the set of *)
(* commands a state was built from, so that two states of one version are  *)
(* told apart.                                                             *)
(***************************************************************************)
EXTENDS Naturals, Sequences

CONSTANTS
    Tabs,        \* open pages of the application
    AgentTabs,   \* those an agent drives as well
    UiOps,       \* commands given through the interface, each once
    None,        \* no record, no version
    Keys,        \* idempotency keys of agent commands; a key names its command
    MaxJobs,     \* bound on the writes waiting in a tab's chain
    MaxIdle,     \* bound on interface events that change nothing of the state
    MaxFaults,   \* bound on failing IndexedDB operations
    MaxLoads     \* bound on page loads after the first

ASSUME BrowserAssumption ==
    /\ AgentTabs \subseteq Tabs
    /\ None \notin Nat /\ None \notin [ver : Nat, ops : SUBSET (UiOps \cup Keys)]
    /\ UiOps \cap Keys = {}
    /\ {MaxJobs, MaxIdle, MaxFaults, MaxLoads} \subseteq Nat
    /\ MaxJobs > 0

VARIABLES
    idb,        \* the IndexedDB database: one state record and the command rows
    txq,        \* IndexedDB transactions in the order they were created
    page,       \* per tab: "loading", "restoring" or "ready" (sandboxHydratedRef)
    db,         \* per tab: the result of database(): "open" or "null"
    fallback,   \* per tab: the MemorySandboxStateStore behind the store
    live,       \* per tab: the engine's state
    saved,      \* per tab: localPersistedStateVersionRef
    timer,      \* per tab: a debounced write is pending (persistTimerRef)
    chain,      \* per tab: the writes on localPersistChain, the first one running
    call,       \* per tab: the agent command in progress
    rejected,   \* per tab: volatileRejectedKeys
    done,       \* interface commands given so far
    answered,   \* keys an agent command was answered ok under
    disturbed,  \* tabs whose saved state may differ from the live one, see below
    repeated,   \* tabs in which a command was answered from its record
    idle,       \* interface events that changed nothing, counted for the bound
    faults, loads

shared == <<idb, txq>>
local == <<page, db, fallback, live, saved, timer, chain, call, rejected>>
bookkeeping == <<done, answered, disturbed, repeated, idle, faults, loads>>
browserVars == <<idb, txq, page, db, fallback, live, saved, timer, chain, call,
          rejected, done, answered, disturbed, repeated, idle, faults, loads>>

-----------------------------------------------------------------------------
(* The stores.  IndexedDB and the memory store keep the same records and   *)
(* follow the same rules.                                                  *)

States == [ver : Nat, ops : SUBSET (UiOps \cup Keys)]

Seed == [ver |-> 0, ops |-> {}]

Rows == [key : Keys, ver : Nat, ok : BOOLEAN]

EmptyStore == [state |-> None, rows |-> {}]

VersionIn(store) == IF store.state = None THEN 0 ELSE store.state.ver

RowsOf(store, key) == {row \in store.rows : row.key = key}

(* put *)
PutAllowed(store, state, expected) ==
    IF expected = None
    THEN store.state = None \/ state.ver >= store.state.ver
    ELSE expected = VersionIn(store)

(* commitCommand and putPreviewAndCommand past the duplicate check *)
Writable(store, expected) == expected = VersionIn(store)

-----------------------------------------------------------------------------
(* The chain of writes of a tab and the transactions they create.          *)

Idle == [phase |-> "idle"]

(* A job reads localPersistedStateVersionRef when it starts. *)
Expected(job, version) ==
    IF version = None THEN (IF job.kind = "put" THEN None ELSE job.before) ELSE version

RequestOf(t, job, version) ==
    [tab |-> t, by |-> "chain", kind |-> job.kind, state |-> job.state,
     expected |-> Expected(job, version)]

PutJob(state) == [kind |-> "put", state |-> state, before |-> state.ver]

(* Joining the chain: the job starts at once when nothing runs. *)
Enqueue(t, job) ==
    /\ chain' = [chain EXCEPT ![t] = Append(@, job)]
    /\ txq' = IF chain[t] = <<>> THEN Append(txq, RequestOf(t, job, saved[t])) ELSE txq

Writing(t) == call[t].phase = "writing"

(* An interface write that starts while an agent command is being written
   is built on a state that command does not know of. *)
Overlap(t) == IF Writing(t) THEN {t} ELSE {}

Room(t) == Len(chain[t]) < MaxJobs

-----------------------------------------------------------------------------
BrowserInit ==
    /\ idb = EmptyStore
    /\ txq = <<>>
    /\ page = [t \in Tabs |-> "loading"]
    /\ db = [t \in Tabs |-> "null"]
    /\ fallback = [t \in Tabs |-> EmptyStore]
    /\ live = [t \in Tabs |-> Seed]
    /\ saved = [t \in Tabs |-> None]
    /\ timer = [t \in Tabs |-> FALSE]
    /\ chain = [t \in Tabs |-> <<>>]
    /\ call = [t \in Tabs |-> Idle]
    /\ rejected = [t \in Tabs |-> {}]
    /\ done = {}
    /\ answered = {}
    /\ disturbed = {}
    /\ repeated = {}
    /\ idle = 0
    /\ faults = 0
    /\ loads = 0

(* The first effect of a page: open the database, read the record, import it
   and write the state back.  A record that cannot be read counts as none;
   then the page starts from the seed. *)
Load(t, opens, reads) ==
    LET record == IF opens /\ reads THEN idb.state ELSE None
        state == IF record = None THEN Seed ELSE record
        version == IF record = None THEN None ELSE record.ver
    IN
    /\ page[t] = "loading"
    /\ (opens /\ reads) \/ faults < MaxFaults
    /\ page' = [page EXCEPT ![t] = "restoring"]
    /\ db' = [db EXCEPT ![t] = IF opens THEN "open" ELSE "null"]
    /\ live' = [live EXCEPT ![t] = state]
    /\ saved' = [saved EXCEPT ![t] = version]
    /\ chain' = [chain EXCEPT ![t] = <<PutJob(state)>>]
    /\ txq' = Append(txq, RequestOf(t, PutJob(state), version))
    /\ faults' = IF opens /\ reads THEN faults ELSE faults + 1
    /\ disturbed' = IF opens /\ reads THEN disturbed \ {t} ELSE disturbed \cup {t}
    /\ repeated' = repeated \ {t}
    /\ UNCHANGED <<idb, fallback, timer, call, rejected, done, answered, idle, loads>>

(* Readiness includes the initial write. *)
Hydrated(t) ==
    /\ page[t] = "restoring"
    /\ chain[t] = <<>>
    /\ page' = [page EXCEPT ![t] = "ready"]
    /\ UNCHANGED <<shared, db, fallback, live, saved, timer, chain, call,
                   rejected, bookkeeping>>

(* The transactions of the other tabs, in their order. *)
WithoutTab(t) ==
    LET kept[i \in 0 .. Len(txq)] ==
            IF i = 0 THEN <<>>
            ELSE IF txq[i].tab = t THEN kept[i - 1] ELSE Append(kept[i - 1], txq[i])
    IN kept[Len(txq)]

(* The page is closed and opened again: its memory is gone, and so are the
   transactions that had not completed. *)
Reload(t) ==
    /\ loads < MaxLoads
    /\ page[t] # "loading"
    /\ page' = [page EXCEPT ![t] = "loading"]
    /\ db' = [db EXCEPT ![t] = "null"]
    /\ fallback' = [fallback EXCEPT ![t] = EmptyStore]
    /\ live' = [live EXCEPT ![t] = Seed]
    /\ saved' = [saved EXCEPT ![t] = None]
    /\ timer' = [timer EXCEPT ![t] = FALSE]
    /\ chain' = [chain EXCEPT ![t] = <<>>]
    /\ call' = [call EXCEPT ![t] = Idle]
    /\ rejected' = [rejected EXCEPT ![t] = {}]
    /\ txq' = WithoutTab(t)
    /\ loads' = loads + 1
    /\ UNCHANGED <<idb, done, answered, disturbed, repeated, idle, faults>>

-----------------------------------------------------------------------------
(* Commands of the interface act on the live engine at once (runUiCommand)
   and queue their record with the state they left (persistAgentCommand): a
   command of the market is a new version, while a like or an item that is
   opened changes the items under the old one (advanceViewState). *)
UiCommand(t, op, counted) ==
    LET version == IF counted THEN live[t].ver + 1 ELSE live[t].ver
        state == [ver |-> version, ops |-> live[t].ops \cup {op}]
    IN
    /\ page[t] = "ready"
    /\ op \notin done
    /\ Room(t)
    /\ live' = [live EXCEPT ![t] = state]
    /\ timer' = [timer EXCEPT ![t] = FALSE]
    /\ Enqueue(t, [kind |-> "command", state |-> state, before |-> live[t].ver])
    /\ done' = done \cup {op}
    /\ disturbed' = disturbed \cup Overlap(t)
    /\ UNCHANGED <<idb, page, db, fallback, saved, call, rejected, answered, repeated,
                   idle, faults, loads>>

(* A refused command leaves the state alone and is recorded all the same. *)
UiRefusal(t) ==
    /\ page[t] = "ready"
    /\ idle < MaxIdle
    /\ Room(t)
    /\ timer' = [timer EXCEPT ![t] = FALSE]
    /\ Enqueue(t, [kind |-> "command", state |-> live[t], before |-> live[t].ver])
    /\ disturbed' = disturbed \cup Overlap(t)
    /\ idle' = idle + 1
    /\ UNCHANGED <<idb, page, db, fallback, live, saved, call, rejected, done, answered,
                   repeated, faults, loads>>

(* A change of the view only, of which a state keeps no more than a revision
   number: bumpStateVersion arms the debounced write. *)
ViewChange(t) ==
    /\ page[t] = "ready"
    /\ ~timer[t]
    /\ idle < MaxIdle
    /\ timer' = [timer EXCEPT ![t] = TRUE]
    /\ idle' = idle + 1
    /\ UNCHANGED <<shared, page, db, fallback, live, saved, chain, call, rejected, done,
                   answered, disturbed, repeated, faults, loads>>

(* persistSandboxStateNow *)
DebouncedWrite(t) ==
    /\ timer[t]
    /\ Room(t)
    /\ timer' = [timer EXCEPT ![t] = FALSE]
    /\ Enqueue(t, PutJob(live[t]))
    /\ disturbed' = disturbed \cup Overlap(t)
    /\ UNCHANGED <<idb, page, db, fallback, live, saved, call, rejected, done, answered,
                   repeated, idle, faults, loads>>

-----------------------------------------------------------------------------
(* Commands of the agent interface.  They wait for the writes already in the
   chain, which a mutation first extends with the debounced one. *)
AgentCall(t, kind, key) ==
    LET flush == kind = "mutate" /\ timer[t]
    IN
    /\ page[t] = "ready"
    /\ call[t] = Idle
    /\ flush => Room(t)
    /\ IF flush
       THEN /\ Enqueue(t, PutJob(live[t]))
            /\ timer' = [timer EXCEPT ![t] = FALSE]
       ELSE UNCHANGED <<chain, txq, timer>>
    /\ call' = [call EXCEPT ![t] = [phase |-> "waiting", kind |-> kind, key |-> key,
                                    wait |-> Len(chain'[t]), ok |-> TRUE]]
    /\ UNCHANGED <<idb, page, db, fallback, live, saved, rejected, bookkeeping>>

(* await localPersistChainRef.current *)
ChainAwaited(t) ==
    /\ call[t].phase = "waiting"
    /\ call[t].wait = 0
    /\ call' = [call EXCEPT ![t].phase = "lookup"]
    /\ UNCHANGED <<shared, page, db, fallback, live, saved, timer, chain, rejected, bookkeeping>>

Finish(t) == call' = [call EXCEPT ![t] = Idle]

(* Variant: the version of an answer is not noted. *)
NoteKeyOnly(t, key, version) ==
    /\ answered' = answered \cup {key}
    /\ UNCHANGED saved

(* runAgentMutation after an ok answer notes the answer's version. *)
NoteAnswer(t, key, version) ==
    /\ answered' = answered \cup {key}
    /\ saved' = [saved EXCEPT ![t] = version]

Broken(t, fails) == fails => db[t] = "open" /\ faults < MaxFaults

Faulted(fails) == IF fails THEN faults + 1 ELSE faults

(* The store an operation of the tab reaches: IndexedDB, or the memory store
   when the database did not open or the operation fails. *)
Reached(t, fails) == IF db[t] = "open" /\ ~fails THEN idb ELSE fallback[t]

Persistent(t, fails) == db[t] = "open" /\ ~fails

(* Variant: volatileRejectedKeys is not consulted. *)
BlockedNever(t, key) == FALSE

Blocked(t, key) == key \in rejected[t]

(* existingResult: a key whose commit was volatile stays refused. *)
RefusedBefore(t) ==
    /\ call[t].phase = "lookup"
    /\ call[t].kind = "mutate"
    /\ Blocked(t, call[t].key)
    /\ Finish(t)
    /\ UNCHANGED <<shared, page, db, fallback, live, saved, timer, chain, rejected, bookkeeping>>

(* existingResult: a recorded key answers with its record, after the live
   engine caught up with it. *)
AnsweredFromRecord(t, fails) ==
    /\ call[t].phase = "lookup"
    /\ call[t].kind = "mutate"
    /\ ~Blocked(t, call[t].key)
    /\ Broken(t, fails)
    /\ \E row \in RowsOf(Reached(t, fails), call[t].key) :
          /\ live' = IF row.ver > live[t].ver /\ VersionIn(Reached(t, fails)) >= row.ver
                     THEN [live EXCEPT ![t] = Reached(t, fails).state] ELSE live
          /\ IF row.ok THEN NoteAnswer(t, row.key, row.ver) ELSE UNCHANGED <<answered, saved>>
          /\ repeated' = IF row.ok THEN repeated \cup {t} ELSE repeated
    /\ faults' = Faulted(fails)
    /\ Finish(t)
    /\ UNCHANGED <<shared, page, db, fallback, timer, chain, rejected, done, disturbed, idle, loads>>

Worked(t, ok) ==
    IF call[t].kind = "mutate" /\ ok
    THEN [ver |-> live[t].ver + 1, ops |-> live[t].ops \cup {call[t].key}]
    ELSE live[t]

(* A new command runs on a copy of the live engine, ok or not, and its write
   is requested; a preview that is not ok writes nothing. *)
RunOnCopy(t, fails, ok) ==
    /\ call[t].phase = "lookup"
    /\ call[t].kind = "mutate" => /\ ~Blocked(t, call[t].key)
                                 /\ RowsOf(Reached(t, fails), call[t].key) = {}
    /\ Broken(t, fails)
    /\ IF call[t].kind = "preview" /\ ~ok
       THEN /\ Finish(t)
            /\ UNCHANGED txq
       ELSE /\ call' = [call EXCEPT ![t].phase = "writing"]
            /\ txq' = Append(txq, [tab |-> t, by |-> "agent", kind |-> call[t].kind,
                                   key |-> call[t].key, ok |-> ok, state |-> Worked(t, ok),
                                   expected |-> live[t].ver])
    /\ faults' = Faulted(fails)
    /\ UNCHANGED <<idb, page, db, fallback, live, saved, timer, chain, rejected, done,
                   answered, disturbed, repeated, idle, loads>>

-----------------------------------------------------------------------------
(* Transactions complete in the order they were created.                   *)

(* The store reached holds this afterwards. *)
Written(t, fails, store) ==
    IF db[t] = "open" /\ ~fails
    THEN idb' = store /\ UNCHANGED fallback
    ELSE fallback' = [fallback EXCEPT ![t] = store] /\ UNCHANGED idb

(* A failure touches the tab it happens to, a write every other tab. *)
Disturbance(t, fails) ==
    (IF fails THEN {t} ELSE {}) \cup (IF idb' # idb THEN Tabs \ {t} ELSE {})

(* Variant: a write that leaves the version alone ends the chain. *)
FollowingIfMoved(t, version) ==
    IF Len(chain[t]) > 1 /\ version # saved[t]
    THEN <<RequestOf(t, chain[t][2], version)>> ELSE <<>>

(* What the chain requests next. *)
Following(t, version) ==
    IF Len(chain[t]) > 1 THEN <<RequestOf(t, chain[t][2], version)>> ELSE <<>>

(* An agent command waits for one write less. *)
Awaited(t) ==
    call' = IF call[t].phase = "waiting" /\ call[t].wait > 0
            THEN [call EXCEPT ![t].wait = @ - 1] ELSE call

(* The running write of a chain completes, and the next one starts with the
   version it left. *)
ChainWriteCompletes(fails) ==
    LET request == Head(txq)
        t == request.tab
        store == Reached(t, fails)
        allowed == IF request.kind = "put"
                   THEN PutAllowed(store, request.state, request.expected)
                   ELSE Writable(store, request.expected)
        version == IF allowed THEN request.state.ver ELSE saved[t]
    IN
    /\ txq # <<>>
    /\ request.by = "chain"
    /\ Broken(t, fails)
    /\ Written(t, fails, IF allowed THEN [store EXCEPT !.state = request.state] ELSE store)
    /\ saved' = [saved EXCEPT ![t] = version]
    /\ chain' = [chain EXCEPT ![t] = Tail(@)]
    /\ txq' = Tail(txq) \o Following(t, version)
    /\ Awaited(t)
    /\ faults' = Faulted(fails)
    /\ disturbed' = disturbed \cup Disturbance(t, fails)
                              \cup (IF Len(chain[t]) > 1 THEN Overlap(t) ELSE {})
    /\ UNCHANGED <<page, db, live, timer, rejected, done, answered, repeated, idle, loads>>

(* commitCommand of an agent command, and what executeInternal makes of it:
   a commit that is not persistent is refused and its key blocked, a
   persistent one is published unless the live engine has moved past it. *)
MutationCompletes(fails) ==
    LET request == Head(txq)
        t == request.tab
        store == Reached(t, fails)
        persistent == Persistent(t, fails)
        known == RowsOf(store, request.key)
        allowed == known = {} /\ Writable(store, request.expected)
        row == [key |-> request.key, ver |-> request.state.ver, ok |-> request.ok]
        refused == (allowed \/ known # {}) /\ ~persistent
        published == allowed /\ persistent /\ request.ok /\ request.state.ver >= live[t].ver
        earlier == {old \in known : persistent /\ old.ok}
    IN
    /\ txq # <<>>
    /\ request.by = "agent" /\ request.kind = "mutate"
    /\ Broken(t, fails)
    /\ Written(t, fails, IF allowed THEN [state |-> request.state, rows |-> store.rows \cup {row}]
                                   ELSE store)
    /\ rejected' = IF refused THEN [rejected EXCEPT ![t] = @ \cup {request.key}] ELSE rejected
    /\ live' = IF published THEN [live EXCEPT ![t] = request.state]
               ELSE IF known # {} /\ persistent /\ VersionIn(store) > live[t].ver
                    THEN [live EXCEPT ![t] = store.state]
                    ELSE live
    /\ IF published
       THEN NoteAnswer(t, request.key, request.state.ver)
       ELSE IF earlier # {}
            THEN \E old \in earlier : NoteAnswer(t, old.key, old.ver)
            ELSE UNCHANGED <<answered, saved>>
    /\ Finish(t)
    /\ txq' = Tail(txq)
    /\ faults' = Faulted(fails)
    /\ disturbed' = disturbed \cup Disturbance(t, fails)
    /\ repeated' = IF earlier # {} THEN repeated \cup {t} ELSE repeated
    /\ UNCHANGED <<page, db, timer, chain, done, idle, loads>>

(* putPreviewAndCommand writes the state of the live engine along with the
   preview; when IndexedDB fails it does not use the memory store. *)
PreviewCompletes(fails) ==
    LET request == Head(txq)
        t == request.tab
        store == Reached(t, FALSE)
        allowed == ~fails /\ Writable(store, request.expected)
    IN
    /\ txq # <<>>
    /\ request.by = "agent" /\ request.kind = "preview"
    /\ Broken(t, fails)
    /\ Written(t, FALSE, IF allowed THEN [store EXCEPT !.state = request.state] ELSE store)
    /\ Finish(t)
    /\ txq' = Tail(txq)
    /\ faults' = Faulted(fails)
    /\ disturbed' = disturbed \cup Disturbance(t, fails)
    /\ UNCHANGED <<page, db, live, saved, timer, chain, rejected, done, answered, repeated,
                   idle, loads>>

-----------------------------------------------------------------------------
Lookup(t) ==
    \/ RefusedBefore(t)
    \/ \E fails \in BOOLEAN : AnsweredFromRecord(t, fails)
    \/ \E fails, ok \in BOOLEAN : RunOnCopy(t, fails, ok)

Completion ==
    \E fails \in BOOLEAN :
        \/ ChainWriteCompletes(fails)
        \/ MutationCompletes(fails)
        \/ PreviewCompletes(fails)

BrowserNext ==
    \/ \E t \in Tabs, opens, reads \in BOOLEAN : Load(t, opens, reads)
    \/ \E t \in Tabs : Hydrated(t)
    \/ \E t \in Tabs : Reload(t)
    \/ \E t \in Tabs, op \in UiOps, counted \in BOOLEAN : UiCommand(t, op, counted)
    \/ \E t \in Tabs : UiRefusal(t)
    \/ \E t \in Tabs : ViewChange(t)
    \/ \E t \in Tabs : DebouncedWrite(t)
    \/ \E t \in AgentTabs, key \in Keys : AgentCall(t, "mutate", key)
    \/ \E t \in AgentTabs : AgentCall(t, "preview", None)
    \/ \E t \in Tabs : ChainAwaited(t)
    \/ \E t \in Tabs : Lookup(t)
    \/ Completion

(* The browser completes the transactions it began, and the continuations
   that wait for them run. *)
BrowserFairness ==
    /\ \A t \in Tabs : WF_browserVars(\E opens, reads \in BOOLEAN : Load(t, opens, reads))
    /\ \A t \in Tabs : WF_browserVars(Hydrated(t)) /\ WF_browserVars(DebouncedWrite(t))
    /\ \A t \in Tabs : WF_browserVars(ChainAwaited(t)) /\ WF_browserVars(Lookup(t))
    /\ WF_browserVars(Completion)

BrowserSpec == BrowserInit /\ [][BrowserNext]_browserVars /\ BrowserFairness

-----------------------------------------------------------------------------
BrowserTypeOK ==
    /\ idb.state \in States \cup {None} /\ idb.rows \subseteq Rows
    /\ \A t \in Tabs :
          /\ page[t] \in {"loading", "restoring", "ready"}
          /\ db[t] \in {"open", "null"}
          /\ fallback[t].state \in States \cup {None} /\ fallback[t].rows \subseteq Rows
          /\ live[t] \in States
          /\ saved[t] \in Nat \cup {None}
          /\ timer[t] \in BOOLEAN
          /\ Len(chain[t]) <= MaxJobs
          /\ \A i \in 1 .. Len(chain[t]) : chain[t][i].state \in States
          /\ call[t].phase \in {"idle", "waiting", "lookup", "writing"}
          /\ call[t].phase = "waiting" => call[t].wait \in 0 .. Len(chain[t])
          /\ rejected[t] \subseteq Keys
    /\ \A i \in 1 .. Len(txq) : txq[i].tab \in Tabs /\ txq[i].state \in States
    /\ done \subseteq UiOps /\ answered \subseteq Keys
    /\ disturbed \subseteq Tabs /\ repeated \subseteq Tabs
    /\ idle \in 0 .. MaxIdle /\ faults \in 0 .. MaxFaults /\ loads \in 0 .. MaxLoads

(* An agent command that was answered ok is recorded in IndexedDB, whatever
   failed in between: no answer rests on the memory store. *)
OkIsRecorded ==
    \A key \in answered : \E row \in idb.rows : row.key = key /\ row.ok

(* A commit refused for being volatile stays out of sight: unless the command
   was carried out after all, neither the live state of the tab nor the
   database is built on it. *)
RefusedStaysOut ==
    \A t \in Tabs : \A key \in rejected[t] :
        RowsOf(idb, key) = {} =>
            /\ key \notin live[t].ops
            /\ idb.state # None => key \notin idb.state.ops

(* What an agent was answered holds, whatever fails between the answer of the
   store and the answer of the tab: ok is on disk, refused is nowhere. *)
AnswersHold == OkIsRecorded /\ RefusedStaysOut

Settled(t) ==
    /\ page[t] = "ready"
    /\ chain[t] = <<>>
    /\ ~timer[t]
    /\ call[t] = Idle

(* What a settled tab shows is what the database holds.  Four things can part
   the two, and nothing else does: a failing operation, a write of another
   tab, an interface write that starts while an agent command is written, and
   an answer repeated from its record. *)
SettledIsSaved ==
    \A t \in Tabs :
        Settled(t) /\ t \notin disturbed \cup repeated => idb.state = live[t]

(* The work of a tab that none of them happened to reaches the database. *)
WorkIsSaved ==
    \A t \in Tabs :
        page[t] = "ready" /\ live[t] # idb.state
            ~> live[t] = idb.state \/ t \in disturbed \cup repeated \/ page[t] # "ready"

(* A command sent again under its key is answered from its record and does
   nothing more: a tab that only repeats commands goes on saving its work. *)
RepeatsAreHarmless ==
    \A t \in Tabs : Settled(t) /\ t \notin disturbed => idb.state = live[t]
=============================================================================
