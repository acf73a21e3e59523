# A formal model of furima-sandbox

furima-sandbox is a flea-market ("furima") simulator for people and agents: a
deterministic domain engine with virtual buyers, sellers, operators, wallets and
a virtual clock, a command layer that makes each command atomic, idempotent and
durable, and on top of them a web application, an HTTP API, a guided photo
capture with live guidance, and a Python photo assistant. This directory holds
TLA+ models of its core, the TLC runs that check them, and theorems about them
that TLAPS proves.

`PROJECT.json` is the index: the components, the runs, for every definition the
source lines it models, for every checked property a bug in the code that it
would catch, the hazards, the findings and the theorems.

## 1. Inventory

### Sandbox engine (`src/app/domain/sandboxEngine.ts`)
One aggregate (`SandboxEngineState`): items with stock and moderation, purchase
intents, transactions, payments, shipments, return cases, wallets with a ledger,
bids, reviews, the virtual `now`, `pendingFailures` and a `stateVersion`. Each
public method is one synchronous command: it checks its guards, changes several of
these records, and commits events. Commands never overlap inside the engine. What
is hard is the order in which buyers, the seller, operators, the clock and the
fault injection come: reservations expire but are released lazily, a checkout can
reprice and then fail, three handlers refund and restock, returns happen before
and after settlement, sellers edit stock while orders are out, and a state can be
exported and imported with a later clock. `importState` takes only states that
pass the engine's own check (`assertInvariants`). An auction holds the leader's
money, and its settlement walks down the bids past declined payments and winners
who are short of money. It is correct if nothing is sold twice, units and money
are conserved, the five records of an order stay in step, a closed order stays
closed, every hold belongs to a leading bid or to an order, and what it exports
can be imported.

### Command executor (`commandExecutor.ts`) and bus (`commandBus.ts`)
The executor validates a command, looks up its idempotency record, runs it on a
copy of the engine, writes state and record with a compare-and-swap, and only
then publishes the copy to the live engine. Copying, publishing and refreshing go
through `importState`, which may refuse. Every step is asynchronous, so the
commands of one tab, of several tabs and of HTTP requests interleave; answers
get lost and are retried. The bus is made afresh for each command.
Correct: a command takes effect at most once, a saved result is what happened,
the live engine never runs ahead of the store, a preview is committed at most
once.

### Browser (`MercariContext.tsx`, `sandboxIdbStore.ts`)
A tab owns an engine, an executor and a store. Commands of the interface change
the engine at once and are written behind it, through a debounce and a chain of
promises; commands of an agent are written first and published afterwards. Tabs
share an IndexedDB database, each with a memory store as its fallback, and the
only guard of a write is a version number the tab remembers.
Correct: an answer says what is on disk, a refused command stays out, what the
tab shows is saved in the end.

### HTTP API (`src/app/api/sandbox/*`, D1 store in `sandboxStore.ts`)
Each request builds an engine from the stored record and makes one executor
call; reset, seed and state uploads `put` a state; the replay route writes a base
state and then a batch of commands. A D1 batch is one transaction whose
statements each have their own conditions; its answer may get lost.
Correct: a key is applied once, answers are in the records, a replay is
recorded whole, and no write undoes a command it has not seen.

### Guided capture (`src/app/features/guided-capture`)
The controller `useGuidedCaptureController` keeps one session: slots with
pictures, a queue of pictures to be assessed, a measurement and its analysis,
approvals, and what the live guidance says. Assessments and analyses answer
late, the seller retakes, removes, goes back and restarts meanwhile, and React may
run an update after the next handler has read the state. The camera
is a dialog of its own (`GuidedCaptureCamera`): it asks the browser for a stream,
which may take as long as a permission prompt, and hands it to the adapter of the
moment. The adapter is made anew by every connection, its operations queue, and
the controller connects by itself, at most three times, when it hears of a loss.
Correct: what was thrown away stays out, an accepted picture is not written
over, what is handed to the listing was reviewed, the queue never stands still;
a camera is on only in the open dialog, what is shown of the connection is under
way, and who hands the guided camera over learns whether it is shared.

### Live guidance (`liveKitAdapter.ts`, `services/listing_photo_assistant`)
The Python Agent samples the camera track, asks a vision model, and publishes
advice (lossy) and state (reliable) to the browser, fenced by shot, session and
sequence number. Rooms break on either side, packets are refused or lost, and the
seller changes slots at any time. Correct: advice that a change of slot, a hidden
page or a broken Room has silenced is not seen again, nothing from before a fence
comes after it, a resync ends the wait for one, frames are judged one at a time
within the budget and none is left behind.

### Background edit (`src/app/features/background-edit`, `ListingView.tsx`)
A panel that makes a composite of the front photo and a chosen background and
hands the one the seller approves to the listing. Making and adopting are
asynchronous, the panel can be closed, the photo retaken and the style changed.
Correct: a preview is of the photo and style that are chosen, and the listing
never contains a composite nobody approved.

### Listing media store, worker, database schema
Blobs in IndexedDB, request forwarding, tables.

## 2. Modules

| module | models |
| --- | --- |
| `Marketplace` | the fixed-price trade of the engine, one action per command outcome |
| `Escrow` | what the trade promises about the money of each order |
| `Auction` | bids, holds, settlement and what follows it |
| `CommandExecutor` | the executors and the store they share, one action per stretch of code between two awaits |
| `CommandLog` | what they promise: a log of commands, each settling its key once |
| `BrowserSession` | tabs, their engines, executors, chains of writes and stores, over one IndexedDB |
| `SandboxApi` | the HTTP routes over D1, one action per request to the database |
| `CaptureSession` | the capture controller: pictures, measurement, approvals, handoff |
| `LiveGuidance` | browser and Agent around two Rooms: advice, state, control |
| `FrameProcessor` | the Agent's track subscriber and one-place frame slot |
| `Sampler` | what they promise: one judgement at a time, ever newer, within a budget |
| `BackgroundEdit` | the background panel and the adoption of its picture |
| `LiveCamera` | the guided camera dialog and the listing's own camera, connections with their automatic retries, and the queue in which the camera is shared |
| `MC*` | small instances for TLC: catalogues, edits, symmetry, constraints |
| `Marketplace_proofs` | types, orders, stock, exports, reservations, closed orders, refinement of `Escrow`, wallets and money |
| `Listing_proofs` | the auction: types, holds and bids, one sale, money; the background edit: types, previews, what is listed |
| `Sums` | lemmas on sums over finite sets |
| `CommandExecutor_proofs` | types, history, states that fail the check, refinement of `CommandLog`, answers, reading one's writes, previews |
| `SandboxApi_proofs` | types, keys applied once, answers and replays recorded, commands kept |
| `Sessions_proofs` | the capture session: types, where pictures are, what is accepted and handed over; the browser's tabs: types, answers, what a settled tab shows |
| `LiveGuidance_proofs` | types, advice that is current and fresh |
| `LiveCamera_proofs` | types, the camera goes dark, what is shown of the connection; the frames of `FrameProcessor` and their refinement of `Sampler` |

Three modules look at the executor: `CommandExecutor` takes its awaits apart and
abstracts the store; `BrowserSession` and `SandboxApi` take the two stores apart,
and keep of the executor the steps between which the store can change.

### How `Marketplace` corresponds to the engine
* `item[i]` is the `MercariItem` with its stock (`initial`, `quantity`,
  `reserved`, `sold`), `listing` (`listingStatus`) and `moderation`.
* `order[o]` joins the purchase intent, transaction, payment, shipment and return
  case that `startPurchase` and `requestReturn` create together. `held` is what
  the wallet ledger holds for the transaction (`heldAmountForReference`);
  `settled` says that CAPTURE and SALE are in the ledger; `expires` is the
  intent's deadline. One return case per order suffices: `requestReturn` refuses
  a second one while one is open, and every handler looks at the open one.
* `wallet[a]` has the balances and points; the ledger itself is abstracted to
  the per-order `held` and `settled`.
* `now` counts ticks of the virtual clock, `failures` is `pendingFailures`.
* Two fields are history. `cut` of a listing: its last edit left room for fewer
  units than are on hand and with buyers. `overruled` of an order: an operator
  decided on it again after approving its return. They are what the properties
  except, and each of the exceptions is a state the code reaches.

An action is one outcome of one command with all it changes: lazily releasing
overdue reservations is part of `StartPurchase` and `AdvanceClock`, repricing is
part of the confirmation that `purchaseItem` performs after it, and a payment
failure, a confirmation after the deadline and a capture are three actions.
Commands that are refused without a change are not actions. Orders are
identifiers not yet allocated until `StartPurchase` uses them.
`UpdateListing` changes price, shipping cost and stock.
`RestoreLaterClock` is `importState` of this state's own export with a later
`now` and nothing released, which the engine accepts if its check passes
(`AssertInvariants`, part of the guard); `tests/domain-engine.test.mjs` does it.

Deliberately left out: auctions (module `Auction`), the refusal of `confirmPurchase` with
STATE_CONFLICT after its quote was updated while the stock is less than what is
reserved (unreachable while the stock of the listing is valid, so all but the
listings `NoOversell` excepts), event and notification lists,
texts, the actors' identity checks (each action is taken by an actor who may),
relisting, scenarios, and imports of states other than an export of this one.

### How `Auction` corresponds to the engine
One listing, its `bids` in the order they were placed (bids rise, so the code's
sort by amount is this order reversed), one `hold` per bidder (the ledger is kept
by `auctionHoldReference(item, bidder)`), the wallets and the one order that
settlement opens. `PlaceBid` releases the hold that is outbid and takes the new
one. `Settle` is `closeAuctionItem` with its walk down the bids: the first
bidder who can pay wins, those before it are passed over and lose their holds,
and if none can pay the listing ends unsold (`CloseUnsold`). An injected payment
failure is consumed by the highest bid. The order then passes the
same fulfilment, cancellation and return handlers as a fixed-price order, which
is why they are here again: an auction's order is captured at once and has no
hold, and the handlers behave differently for it.

### How `CommandExecutor` corresponds to the code
* A state is the sequence of the calls whose effects it carries, and its version
  is its length: an operation that succeeds adds one effect. (An engine method
  may add more than one version; nothing compares versions except for equality
  and order.) What the command, its payload and its actor are is one *input*:
  what `payloadHash` and `command` tell apart.
* `Flawed` are the states that fail `assertInvariants`. Which they are is a
  constant; `ExportsAccepted` says which commands of the trade lead to one.
  `Refused` is `importState`'s answer to a state that is flawed or older than the
  live one: after it `Publish` answers INVALID_STATE, `Refresh` goes on as if
  nothing had happened, `Restart` leaves the seeded scenario. `cloneEngine` imports
  the live state, which is never flawed (`LiveNeverFlawed`), so its failure is no
  branch of `Execute` and `DryRun`.
* `stored`, `record[k]`, `preview[c]` are the store: `sandbox_states`, the
  command record of an idempotency key, and the preview a call created.
  `live[e]` is the engine of an executor.
* A call is at a stage `pc[c]`, and holds across an await what the code holds in
  its locals: `held` the record it read or will write, `work` the state it read
  or will write, `seen` the preview it read, `reply` what the store said.
* `Submit` is a call up to its first await, with `validate`. `ReadPreview`,
  `ReadSaved`, `AnswerSavedCommit`, `AcceptPreview` are `commitPreview` up to
  `executeInternal`; `ReadRecord`, `UseRecord`, `Fetch`, `Refresh` are
  `existingResult` and the refresh after a duplicate; `Execute`, `DryRun`,
  `IssuePreview` run the operation; `StoreFindsRecord`, `StoreRejects`,
  `StoreWrites` are the transaction of the store; `Publish` is what follows it.
* `StoreFails` is every exception of the store, before or after it wrote.
  `Restart` is a reload of a tab, or a request that builds its engine from the
  store; a write already sent may still arrive (stage `orphan`).

The store's operation is one step. The memory store is synchronous there and
IndexedDB uses one transaction; D1 reads first and checks again in its batch,
statement by statement, which is `SandboxApi`'s subject. Left out: expiry of
records and previews (24 hours of real time, one of virtual time), identifier
and principal checks (refusals before any effect). The refusal of volatile
commits, `put` and the interface's commands are in `BrowserSession`, `put` of
the HTTP API and `commitReplay` in `SandboxApi`: the properties of
`CommandExecutor` speak of a sandbox that is changed through executors only.

### How `BrowserSession` corresponds to the code
A state is its version and the set of commands it was built from, because two
tabs can build two states of one version; the code compares versions only. A tab
has its `page` (loading, restoring, ready), its `live` engine, `saved`
(`localPersistedStateVersionRef`), a `timer` (the debounce), a `chain` of writes
(`localPersistChain`), at most one agent `call`, and the keys `rejected`
(`volatileRejectedKeys`). `txq` is the queue of IndexedDB transactions, which run
in the order they were created (external). A failing operation goes to the
tab's memory `fallback`, as `fallbackFrom` does. A command of the interface counts
as a version or, like a view change or a like, only as a change of the interface
(`uiRevision`); both are written behind it. `MercariContext`'s remote state
is off in the code (`REMOTE_STATE_ENABLED`) and left out.

### How `SandboxApi` corresponds to the code
A request has a phase, one per answer of D1 it waits for; between two phases any
other request may run its statements. A D1 batch is one step whose statements
(`RowGoesIn`, `StateGoesIn`, `PreviewsAfter`) have the conditions of the SQL. A
failing or lost answer is `UNAVAILABLE` before or after the write. `Upload` is
PUT of the state route, `Create` the first write of a reset or seed of a sandbox
that has no state, `WriteBase` and `WriteReplay` the replay route. A replay starts
from the stored state, from the seed (version 0), from any other scenario, which
`createSeededEngine` leaves at version 1 (`Fixture`), or from a base in its body; its
first action may load or reset a scenario or import a state. `CheckVersion` and
`CheckRecords` are the reads of `commitReplay` before its batch, and after a batch
that inserted nothing: finding all its records there it answers ok, and the route
answers with the versions of its own run.

### How `CaptureSession` corresponds to the code
`slots`, `phase`, `activeSlot`, `draft`, `measurement` and `background` are the
controller's state, all its updates applied; `ref` is what `stateRef` has of slots
and active slot, which is what the handlers read. `updateState` sets it inside the
updater: at once when React's queue is empty, else when React renders (`Defers`,
`Render`). A click of the user is a React event and finds the queue rendered
(`Acts`): that is assumed of React. `waiting` is the queue of `recordMedia`, `job`
the picture being assessed, `requests` the fences of `captureRequestsRef`, `calls`
the analyses that may still answer. `ProcessMedia` and `AssessmentAnswers` are the
two halves of `processMedia` around its await; `fresh` says that the generation
has not moved since. `discarded`, `stale`, `drawn`, `edits` and `seen` are history
the properties speak about.

### How `LiveGuidance` and `FrameProcessor` correspond to the code
asyncio runs one task at a time and hands its locks out in order, so the Agent
is a queue of coroutines waiting for the transport's lock (`tasks`), the packet
its holder publishes (`sending`), and the frame the provider is judging
(`inference`), which runs outside the lock. State packets of a Room arrive in
order or, when it breaks, not at all; advice may be lost or overtaken; both are
external, and what the clock finds expired counts as lost. The browser is the
controller's guidance state and the adapter's sequence numbers.
What the controller accepts it keeps, one advice for each slot (`held`,
`guidanceCandidatesRef`), and `GuidanceHysteresis` with a memory of its own (`primary`)
and a timer decides what is `shown`. Which advice wins, its priority, the times
it enters and clears and the device's own checks are left open: `Selects` lets any
advice at hand, the one before or none be shown, at every call of `applyGuidance`
(`ApplyGuidance` is the timer's and the device's). So what the properties say holds
for every choice of the selector. `Silences` is where the code empties all three;
`AdvanceSlot`, the acceptance of a photo, blanks the camera only, and
`RetryConnection` empties what is held and leaves the camera. `slotRef` is the active
slot as `stateRef` has it, see `CaptureSession`.
The link has two states besides what LiveKit reports: "signal", its signalling
dropped, which `liveKitRoomAdapter.ts` reports as connecting, so that no resync is
asked for, and "closing", the Room being left for a new connection. It is assumed
that React renders a report of the connection before the next one comes.
History are the sequence number of the last fence (`fencedAt`), the one seen when
guidance was last silenced (`silencedAt`), and whether the slot has changed since (`moved`).
`FrameProcessor` is the detail below `TakeFrame`: the slot, the worker that ends
when the slot is empty and is started again by the next frame, the cadence and
the budget.

### How `BackgroundEdit` corresponds to the code
`phase`, `preview`, `selected`, `output` are the reducer's state, `style`,
`source`, `dirty`, `fallback` the panel's, `item` the front picture of the listing
form. A picture is the photograph it was made of and the backgrounds laid over
it, in order. What `isSubmitting` guards is the one `job` of a panel; an adoption
asked for by a panel that is gone is in `late` and still lands. That `ListingView`
also puts the picture into the session's front slot is `ReplaceFront` of
`CaptureSession`.

### How `LiveCamera` corresponds to the code
A dialog, a request for the camera, a session and a connection are numbers:
`requestIdRef` with `mountedRef` is `request`, `connectGenerationRef` is `newest`,
and connection `c` has the `LiveKitAdapter` `adapter[c]`. `status` is what the
controller keeps of the connection: what it shows, the attempts, the timer.
`call[c]` is where `connect` of controller and HTTP adapter awaits: the leaving of
the adapter before, the health of the service, the token, the Room, the cleanup
after a failure. `adapter[a].queue` is the promise chain `enqueueCameraOperation`,
whose operations share a stream or leave the Room; `at` is the await its head has
come to. Who waits for a leave goes on when it is done, so an entry says who that
is. `Reported` is `reportConnectionState`, which every adapter ever made may call:
the HTTP adapter passes the news of all of them on. `live` are the camera tracks
that have not ended; a track ends when the dialog stops it, when the port stops it
after unpublishing or a failed publish, or with a Room the SDK gives up. `plain`
says that the dialog is the listing's own camera (`isCameraOpen` of
`ListingView`), which hands its stream over when it is granted. Besides,
`ListingView`'s effects hand the stream of either camera over again whenever the
connection turns to connected (`Turned`); their operations carry no dialog (`by`),
for nobody hears how they end. It is assumed that React renders a report of the
connection before the next one comes. `told` is the message that the camera is not
shared, from when it is set; that other messages may take its place on the screen
later (`GuidedCaptureCamera.tsx:392`ff) is left out. The torch, the picture taken,
the phases of the session and the resync (`LiveGuidance`) are left out.

## 3. What is checked

The properties, and the behaviour each is about, are commented in the modules.

| run | shows |
| --- | --- |
| `race` | two buyers, one unit, three orders, two ticks, edits of the stock up and down: `NoOversell`, `UnitsConserved`, closed orders stay closed, `EscrowHonoured` (refinement of `Escrow`) |
| `trade` | one buyer, two orders, stock of two, coupons, points, payment and delivery faults, deposits, withdrawals, edits of price, shipping and stock: the records of an order agree with its parcel and pass the engine's check, one reservation per buyer, wallets match orders and are never overdrawn, money is conserved through settlement and the returns after it |
| `auction` | two bidders and a seeded bid, two ticks, balances that cannot cover every bid: holds follow the leading bid and the order, the listing is sold once, money is conserved |
| `executor` | two executors, three calls of any kind, three keys, lost answers, restarts, one call after which no engine may import the state: `ImplementsLog` (refinement of `CommandLog`), answers tell the truth, expected versions are honoured, previews commit once, live engines hold committed states, never go back, and show what a success reports |
| `browser` | two tabs, one with an agent, commands that count as a version and that do not, one failing operation, one reload: ok answers are on disk, refused commands stay out, a settled tab shows what is saved, work is saved in the end |
| `browser_repeats` | expects a violation, see section 5 |
| `api` | three requests, two at a time, of any kind over two keys, one fault: a key is applied once, answers are recorded, replays are whole, commands are kept |
| `capture_session` | two image slots, four pictures, one measurement, updates that React defers: thrown-away pictures stay out, accepted ones are kept, the handoff was reviewed, the queue drains |
| `live_guidance` | two slots, three events of ten kinds, two judged frames: what is silenced is not seen again, advice is fresh, a resync that arrives ends the wait |
| `frames` | two tracks, seven frames, a budget of three: nothing is left, the slot moves on, `ImplementsSampler` (refinement of `Sampler`) |
| `background` | two photos, two styles, two layers, three mounts: a preview matches the choice, only an approved composite is listed |
| `camera` | two requests for either camera, two connections, five events, one automatic retry: the camera goes dark, what is shown of the connection is so, a camera its guided dialog hands over is shared or the seller is told |

**Bounds.** Stock bugs need two orders of one listing and a unit contested
between them; `race` has one unit and three orders, so a unit can be sold,
returned and sold again while another reservation is overdue; the seller raises
the stock to two and lowers it to one while orders are out, and then the clock
stands still and goods come back by granted cancellations only (`ChangedEarly`;
the theorems have no such bound). The records of an
order do not depend on other orders except through stock, the shared wallet and
points, for which two orders are enough. Two ticks with a life of one tick let a
reservation be live, overdue at its deadline and overdue past it. Prices are
chosen with a fee that is not a whole fraction of the total. In the auction two
bidders and three amounts outbid each other and themselves; the opening balance
of 48 just covers the top bid with the dearer shipping, so that a withdrawal, a
raised shipping cost or a declined payment makes a winner fail and the walk go
on.

For the executors, three calls are a command, its retry and a rival between them,
or a preview and two commits of it; three keys let each have its own; two
executors let one be behind the store. Every call may be lost, fail or restart at
every await. The effect of one call, `Breaker`, fails the check unless it comes
first. `OneExpects` lets at most one of the three calls name the version it
expects, not the breaker, which is no preview either, and there is one input, so a
key used for a second payload is left to the theorems, which have none of the
bounds. In the browser two tabs and one key suffice for a write between a command
and its retry; the chain holds two writes, one running and one waiting, which is
where the expected version is stale. In the API two requests at a time are enough
for any pair of statements to interleave, and three in all for one that meets what
they left, or what a lost answer left. `ReplaysSent` bounds the replays: a
scenario only where it is the base, two actions when the first loads a scenario,
an import by itself.

Two image slots are enough for the active slot to move on, to be complete and to
go back; four pictures fill both and retake both. Three events are a break, a
change of slot and a second one of either before the first is over; two judged
frames are one before and one after. Seven frames and a budget of three leave
frames to be replaced, judged, and dropped when the budget ends. Two layers are
a composite of a composite, which the code can produce (section 5).

In `trade`, `OneThingAtATime` lets edits, deposits and withdrawals, the delivery
fault and a second order happen in different behaviours; any one of them meets
all that the other actions do.

Two requests for the camera are one that is late and one that counts; two
connections are one that is there and one that replaces it (that a third changes
nothing for `CameraGoesDark` and `ShownIsSo` is proved); five events are, say, a
start, an open dialog, a drop of the signal, a break and a stop. One automatic
retry, for the three of the code, is what it takes to spend them. `MaxNow`,
`MaxBalance`, `Amounts`, `Edits`, `Coupons`, `PointUses`, `BidAmounts`, `MaxJobs`,
`MaxIdle`, `MaxFaults`, `MaxLoads`, `MaxSent`, `MaxPhotos`, `MaxMeasured`,
`MaxReports`, `MaxEvents`, `MaxCalls`, `MaxFrames`, `MaxSwitches`, `MaxShots`,
`MaxLayers`, `MaxMounts`, `MaxStreams`, `MaxConnects`, `MaxRetries`,
`OneThingAtATime`, `ChangedEarly`, `OneExpects` and `ReplaysSent` are all the
bounds (`MaxCalls` is the code's own budget as well).

**Symmetry** over buyers and orders, and over executors, calls, keys and inputs:
no definition names one but `Breaker`, which is left out of it. The runs with
liveness properties use none.
**Deadlock** is not checked: every instance really
ends, when orders are closed and the clock is at its bound, when every call is
answered, when the events of the run are used up and nothing is on its way.

**Fairness** is assumed only of what the program or its runtime does by itself;
users, failures, the network's losses and arriving frames are never fair.

* `LiveGuidance`: the Agent's event loop runs its tasks and answers a control
  packet (`HandleControl`, `RunTask`); a publish ends, one way or the other; a
  state packet in an unbroken Room arrives; the SDK reconnects and a broken Room
  comes back. `ResyncAnswered` needs the last two only because a broken
  connection releases it from its promise. Advice need not arrive.
* `FrameProcessor`: the interval passes, the worker runs and its provider call
  returns or raises, and the processor is closed once its subscriber is.
* `CaptureSession`: the promise queue goes on (`ProcessMedia`), and an assessment
  answers or fails (the service answers 504 after 20 seconds,
  `analyze_shot.py:26`).
* `BrowserSession`: per tab the load, the hydration, the timer, an awaited chain
  and a lookup; and that IndexedDB completes the transactions it has queued.
* `LiveCamera`: the SDK settles the operation at the head of an adapter's queue,
  one way or the other (`OperationStep`). Permission, tokens, health and joining a
  Room may take for ever.
* `Marketplace`, `Auction`, `CommandExecutor`, `SandboxApi`, `BackgroundEdit`
  assume none. Every step of the engine or of the panel is a click somebody may
  never make, and a call or request passes its stages once and waits for nobody.

## 4. What is proved

Every theorem holds for all values of the constants, so for any number of
actors, records, messages and steps and for every amount; the runs show the same
properties on small instances. `PROJECT.json` lists the theorems with what each
one says.

**Marketplace** (`Marketplace_proofs`, with `Sums`)

* `TradeTypesAlwaysOK`, `TypesAlwaysOK`: no count, balance or amount below zero.
* `OrdersAlwaysConsistent`: intent, transaction, payment, shipment, return case and
  hold of an order stay in step, and the engine's check of it fails only on an
  order that was decided on again after its return was approved.
* `NeverOversold`, `UnitsAlwaysConserved`: for any edits, except on a listing whose
  last edit left no room for all its units (see section 5).
* `ExportsAccepted`: a state with no such listing and no such order passes the
  engine's check, so its export can be imported.
* `ClosedOrdersNeverReopen`, `EscrowAlwaysHonoured`: an order that was canceled or
  refunded is never touched again, and the marketplace implements `Escrow`.
* `ReservationsStaySingle`: one active reservation per buyer and listing.
* `WalletsAlwaysMatch`, `MoneyAlwaysConserved`: holds and points of a wallet are
  those of its orders, and only deposits and withdrawals change the money.

**Auction** (`Listing_proofs`, with `Sums`)

* `AuctionTypeCorrect`: no balance, hold or stock below zero, and what a wallet
  holds is what the ledger holds for its bids.
* `HoldsAlwaysFollowBids`: the leading bid is covered, and no other has its amount
  on hold.
* `SoldToABid`, `AuctionMoneyConserved`: one order at most, of one of the bids, and
  only deposits and withdrawals change the money.

**Command executor** (`CommandExecutor_proofs`)

* `TypeCorrect`; `LiveEnginesCommitted`, `LiveOnlyMovesOn`: a live engine is at an
  earlier state of the durable history and never goes back, unless it is loaded
  over a durable state that fails the check.
* `LiveNeverFlawed`, `FlawIsFinal`: a live engine never has a state that fails the
  check, and nothing is committed on top of one.
* `VersionsHonoured`: a command takes effect on the version its caller named.
* `ExecutorsImplementLog`: executors and store implement `CommandLog`, with the
  durable state as the log and the author of a key's record as what settles it.
* `AnswersStayTrue`: a success is recorded and durable at the version it names,
  INVALID_STATE says the command is durable though its executor could not show it,
  any other refusal never takes effect, from the answer on and for ever.
* `SuccessAlwaysReadable`: who is told of a success of `execute` can read it there,
  except a saved one when the durable state fails the check.
* `PreviewsCommitOnce`: a preview takes effect at most once.

**HTTP API** (`SandboxApi_proofs`): `TypeCorrect`, `WrittenOnce`, `AnswersStand`,
`ReplaysStand`, `NothingIsLost`, the last an action property. A replay that found
its actions recorded by another request may be told versions no record has, and
three kinds of write land where versions do not tell states apart: both are
exceptions the properties name, and disagreements of section 5.

**Guided capture** (`Sessions_proofs`): `TypeCorrect`,
`PhotosAreInTheirPlaces`, `ThrownAwayPictures`, `AcceptedPicturesAreKept` (an
action property), `HandoffIsReviewed`.

**Browser** (`Sessions_proofs`)

* `BrowserTypeCorrect`: types and bounds; no agent command waits for more writes
  than its chain holds.
* `AnswersAlwaysHold`: ok is in IndexedDB, and a commit refused for being volatile
  is in no state on screen or on disk unless the command was carried out after all.
* `SettledIsAlwaysSaved`: a tab with nothing left to write shows what the database
  holds, unless something the property names came between.

**Live guidance** (`LiveGuidance_proofs`): `TypeCorrect`, `ShownAdviceIsCurrent` (for
every choice the selector may make), `FreshAdvice`.

**Background edit** (`Listing_proofs`): `TypeCorrect`, `PreviewIsOfTheChoice`,
`OnlyApprovedPictures`.

**Camera and frames** (`LiveCamera_proofs`): `CameraAlwaysGoesDark`,
`CameraTypesCorrect`, `ShownStaysSo`; `FramesTypeCorrect`, `NothingEverLeft` (no
frame without a worker that will look again, and nothing kept once the budget is
spent) and `ProcessorImplementsSampler`.

The only assumptions are on the constants, and TLC evaluates them in every run:
actors, listings and markers such as "none" are told apart, amounts, bounds and
deadlines are numbers, buyers, orders and the shipping costs of an auction are
finite sets, the seller does not bid, the slots of a capture
are in an order without repetition, a batch of a replay is not empty (the route
refuses that) and names no key twice (an action sent twice in one batch gets the
first one's record, or is refused), and the first style and the first shot exist.
In the browser, an interface command is no key, the chain has room for one write,
and "no record" is neither a version nor a state.

### The arguments

*Orders and stock.* `OrdersConsistent` alone is inductive only together with the
types of what the guards read, hence `TradeInv == TradeTypeOK /\
OrdersConsistent`: each action preserves it because the action's guard on `txn`
and `payment` pins down, through `OrderConsistent`, what the other records are.
Stock needs more: `StockInv` adds that the reserved count is the number of active
reservations, and that on-hand units and units out with paid orders together are
at most the initial quantity, unless the last edit was short; a restock is then
never cut by its cap. An edit that leaves more room again ends the exception.
Lemmas about cardinalities say how `Active` and `Out` change when one order
changes and when a set of reservations is released. For the refinement, every
action leaves each order as it is or `Advances` it along the escrow's moves, by
`TradeInv`; a closed order has no move. Reservations are single because no action
but `StartPurchase` makes one active, and that one looks for another of the same
buyer and listing after it has released what is overdue.

*Money.* `MoneyInv` adds `BooksMatch` to `TradeInv`: the held balance of a wallet is
the sum of the holds of its orders, and its points and the points spent in paid
orders are what it opened with. A command writes one order and pays between
buyer, seller and platform what it takes from the hold (`PaidBy`, `OneOrderPaid`),
or releases a set of orders (`ReleaseBooked`); in both cases the change of the
sum is the change of the wallet. That an order's hold is never more than what its
wallet has held (`HeldIsThere`) is what keeps a release from going below zero, and
that `StartPurchase` counts the overdue holds it will release is sound because
they are part of that sum. The sums are folds, defined by recursion over subsets;
since the library's induction theorems cannot be used, `Sums` proves what one
changed summand, a changed subset and the difference of two functions do to a
sum by the smallest subset that would be a counterexample.

*Auction.* `AuctionIInv` joins to the types what no guard of the code says but
every release relies on: the held balance of a bidder is the ledger's hold
(`WalletsHoldBids`), so the two caps of `releaseWalletHold` are one, and a bid takes
from what is available at most what is there (`OutbidFacts`). `OrderFits` says that
an order opens after the end only, of a full stock, and that a parcel on its way
back is of an order that was paid and not refunded. `HoldsFollowBids` is not
inductive: a new bid takes off the former leader the leading bid plus *today's*
shipping, so one needs that the leader's hold is at most the leading bid with the
dearest shipping (`LeaderBounded`). At the settlement whoever led is passed over or
wins (`LeaderIsFreed`), which is all that is left on hold but old shipping charges.
A sale and a return change two purses and the platform's share by amounts that
cancel (`TwoPursesChanged`, from `Sums` twice); all other steps change no purse.

*Executors.* The invariant is `IInv == TypeInv /\ WorkInv /\ HistoryInv`.
`WorkInv` says what a call holds across an await: when it is writing, the effect
of its own command on top of an earlier durable state as long as the version it
will compare, and that version is the one the caller expects, or else an earlier
durable state as it was; when it refreshes or publishes, an earlier durable state.
The compare-and-swap then leaves the durable state as it is or appends one effect
(`WriteAddsOne`), so histories only grow (`StoredGrows`) and what the other calls
hold remains what it was (`WorkKept`). `HistoryInv` adds that the live engines are
prefixes of the durable state and that its calls have been made, so their requests
no longer change. `SoundInv` adds that live engines are never at a flawed state,
since only `Import` moves them, and that a command which is about to write a
success was run on such an engine; so over a flawed state no command takes
effect. None of this can be said of the durable state alone: before a write what
keeps it right is in the call's locals.

Answers need the books: `BookInv` says that the record of a success names the
effect and its place in the history, that every effect is in the record of its
key, that a call which has not written is in no record, and that a call which
answers from a record holds the record of its key and of the same request. A
call that fails before its write then has no effect and, being done, never will
(`UnwrittenHasNoEffect`); an answer from a record says what the record says
(`AfterResult`). A preview that is stored is in the books, so a preview call
cannot store it again after it was committed (`PreviewWrite`).

*API.* A request works on a copy of the state it read some statements ago.
`CopiesIInv` says that every copy `Fits` what is stored: it is not newer, and of
the same version it was built from the same commands, unless a write landed where
versions do not tell states apart (`overwritten`, the exception that
`CommandsAreKept` names). The version a statement compares then tells whether the
copy is still current, so each write `MovesOn` and `Keeps`. `OnceIInv` adds that
once the effect of a key is in the state every request that could write it again
is at an older version; `RecordsIInv` that only replays all of whose actions
succeeded are recorded; `StagesIInv` what each phase of a request already knows.

*Capture.* `PhotosIInv` follows every picture: the ones in slots, in the queue and
in the assessment that may still count were recorded and not thrown away, and no
two places share one. `MeasuringIInv` says the same of analyses and the draft. An
answer that is late finds its generation gone, and what it would have written is
nowhere else. A new photo takes a slot that is open in `ref`, so an acceptance that
`ref` has is safe from it, and an answer is taken only for its own photo.
`ReadyIInv`: in the phase "ready" the session is what the user saw
when approving, because every step that changes it leaves the phase, the edit of
the front picture aside.

*Browser.* `BooksIInv` says that every state that can still reach the screen or the
disk, be it stored, shown, queued or in a transaction, is built from recorded
commands, the command of its own transaction aside, and that whatever stands in a
memory store has its key refused; records are never deleted, so an answer once
true stays true. `AllGood` holds for each tab apart: `Lined` ties the queue of
transactions to the tab (one of its chain exactly when something waits there, one
of its agent command only while that is written), and `InStep`, for a tab nothing
happened to, says that the version noted is the database's, that the last job of
the chain carries what the tab shows, and that an agent command in the queue is
built on the live state; so every write of such a tab is let through, and the
chain ends at what the tab shows. A step of one tab leaves the others apart
(`Apart`): what they asked for keeps its order in the queue, and if the database
moved they count as disturbed. That a reload takes the tab's transactions out of
the queue and leaves the order of the rest (`WithoutTabFacts`) is shown by a least
counterexample, since the recursive function that filters the queue has to be
shown to exist first.

*Guidance.* `CurrentIInv` says of all the advice at hand, held, remembered by the
selector or shown, that it was accepted after the last silence; the selector only
ever takes from that. `AdviceIInv`: advice numbered above the last fence is of the shot the
Agent is at and of a frame taken after the fence. For that `FrameIInv` says of the
frame at the provider, and of every judged frame in the queue of coroutines, that
its generations are not ahead, and that one which still has both was taken after
the fence; so the check of the generations after the provider's answer, and again
under the lock, is enough.

*Background.* `PreviewIInv` adds that only a panel with a preview or an approval has a
picture to show, and that a job that is still current works on the present source
and style; `ListedIInv` that every picture that can still reach the form, by this
panel's job, a panel that is gone or the source that is restored, is an original
or was approved.

*Camera.* That live tracks are the dialog's own is inductive
once three things are known of a request that has no answer yet: it was made, so
its number is no other's; it counts only while the dialog is open, because both
ways of losing the dialog or its effect forget it; and while it counts the dialog
has no stream, because asking ends the one before. The steps of connections end
tracks and start none. `ShownIsSo` follows every connection there ever was:
`ShownIInv` says that the newest one is of the session, that news of a session are
suppressed only while its start leaves the Room before, that a leave a connection
waits for names that connection, and that a Room which is not out is listened to
or about to be left, so that its loss is heard of or already under way.

*Frames.* The invariant joins the types with what each state
of the worker means: who sleeps or judges holds a frame no older than the one
judged last, a worker that ends has found the slot empty in the same step, and
an arriving frame starts a worker when there is none; a spent budget empties the
slot and the hand together. The refinement then maps taking a frame to `Begin`,
the end of the call to `End` and the processor's close to `Close`; everything
else is a stutter. It needs the invariant that the frame in the slot is newer
than every frame judged.

### Only model-checked

Liveness (`ResyncAnswered`, `SlotMovesOn`, `QueueDrains`, `WorkIsSaved`,
`SharedOrTold`) is out of the prover's reach. Every invariant and action property
the passing runs check is stated by a theorem.

## 5. Disagreements found

One run expects a violation.

* `browser_repeats`: a command an agent sends again answers with the version it
  had the first time, and the tab takes that version for the one it saved last
  (`MercariContext.tsx:1255`). Every later command of the interface is refused
  by the store and lost with the page. `docs/api/browser-api.md:97` says that
  sending a commit again only uses its result again.

Met while modelling, in the models as the code has it, and worth a reviewer's
decision:

* Engine. A second approval of a return refunds before the parcel is back
  (`sandboxEngine.ts:1349`), and a decline after the approval gives the order its
  old status back; either way the return case stays IN_TRANSIT, and
  `assertInvariants` (2418ff) no longer passes (`overruled`). `importState`
  refuses the export of such a sandbox (2261) until the parcel is received, if it
  still can be. A rejected listing can be resumed (1985), and a listing archived
  or held during a reservation is active again when that is released (617). A
  restock, whether granted or of a return, is capped at the edited initial
  quantity and takes away a unit that a live reservation has (1369, `cut`), and
  then the reserved count exceeds what is on hand, which `assertInvariants`
  excludes (2324). Declining a return of a completed order leaves its shipment in
  transit (1376). A bidder who was passed over and told so may be charged later, a
  seller's review is refused for ever once an auction's order is settled (1250),
  and a seeded bid has no hold (2074).
* Executor. When the effect of a command fails the check, it commits, the publish
  is refused, and the caller is told INVALID_STATE of a command that is durable
  (`commandExecutor.ts:252`); its retry is answered with a success the live engine
  does not show, since the refused refresh is dropped (179). From then on every
  command gets a conflict, a reload shows the seeded scenario instead of the
  stored state, and in the API `engineFromRecord` throws for every request
  (`runtime.ts:304`). A command with an expected version, sent again as it was, is turned
  away by its own success (`commandExecutor.ts:163`). A preview may be committed
  on a version newer than the one it was computed for (347). The loser of two
  previews with one key is given a preview that does not exist (316); in D1 the
  loser of two identical ones leaves a preview row behind. `commitPreview`
  answers from a saved record without the refresh that `existingResult` makes,
  so `SuccessIsReadable` is stated for `execute` only; and a commit of a preview
  that the domain refuses uses the preview up.
* Stores. `put` compares the stored version with the expected one and not with
  the version it writes, so in the browser the durable version can go back; two
  tabs can write two states of one version over each other. After a commit to
  the memory fallback at version 0 and a recovery of the database the tab gets
  CONFLICT for ever. A key refused as volatile is blocked for the executor's life,
  but `commitPreview` does not look at the blocked keys. A preview's write to D1
  reverts an upload of the same version.
* API. A replay that ran on a newer base while an identical one was recorded is
  answered ok (`sandboxStore.ts:506`, 530) with the versions of its own run, which no
  record has (`replay/route.ts:149`). A replay from any scenario but the default
  puts that scenario at version 1 over whatever is stored at version 1, and the
  command in it is lost (136). A replay that only imports a state leaves the version,
  so that it and a command made from the same version do not see each other (the
  statement at `sandboxStore.ts:525` compares versions).
* Live guidance. A state packet is reliable so that a client "can recover after
  a lossy packet is missed" (`live_agent.py:1073`), but the advice that follows
  it may overtake it, and the older state is then dropped: the browser waits
  until something else comes (`Overtaken` in `ResyncAnswered`). When only the
  signalling drops, `liveKitRoomAdapter.ts:15` reports connecting: the controller
  then waits for the answer to a resync, and the adapter, which asks for one after
  "reconnecting" only, sends none. After a photo was accepted the advice at hand is
  kept (`useGuidedCaptureController.ts:528`), so the advice for the slot before may be
  back on the camera with the timer; and `retryConnection` (402) leaves the old
  advice on the camera until the old Room is left.
* Frames. "Coalesce pending frames to the newest" (`live_agent.py:171`): the
  frame a worker holds while it sleeps (`_drain` takes it before it waits for
  the interval) is not replaced by a newer one.
* Camera. Every connection reports that it is connecting, and the controller takes
  that for a lost connection and sets the retry timer
  (`useGuidedCaptureController.ts:970`ff, `liveKitAdapter.ts:259`): a connection
  that takes longer than half a second is left for another one, and the
  "connected" of one that was left resets the attempts. A session stopped, or
  connected again, while the token is on its way leaves the adapter before it
  joins: it then joins all the same, and nobody leaves that Room
  (`httpAdapter.ts:151`; the runbook's FM-08, `listing-photo-assistant.md:86`, has
  the Room released). Leaving a Room, or failing to publish, stops the very track
  the dialog shows (`liveKitRoomAdapter.ts:95`, 116), so the picture freezes in a
  dialog that stays "ready", while the messages promise that manual capture goes
  on. Whenever the connection turns to connected `ListingView` hands the camera over
  again (`ListingView.tsx:345`, 351), and drops its failure: a failure then ends the
  track, the dialog stays "ready", and nobody is told, as nobody is of the listing's
  own camera (321). The comment there (355) says that it keeps local capture usable.
* Capture. The final review is not always offered before the handoff
  (`GuidedCapturePanel.tsx:517`). "Serialize assessment so each image receives the
  next reducer slot" (`useGuidedCaptureController.ts:549`): the next photo of the
  queue reads `stateRef`, and if React has not run the acceptance of the one before
  it takes the same slot and replaces it. The edit of a front photo that was deleted
  or taken again meanwhile lands on the front that is there by then
  (`ListingView.tsx:606`, controller 792), in "ready" too, and is handed over in its place.
* Background. After leaving and entering the photos step again, what the panel
  takes for the original is the composite, and that goes to the mask provider;
  `docs/wiki/Listing-Flow.md:55` says only the original does. Making a new
  preview, or revoking, starts from an approved picture without the reducer's
  revocation.

## 6. Not modelled

* Of the engine: drafts, relisting, follows, profiles, messages, notifications,
  support, reports and policy checks, which read the trade and do not change it;
  scenarios other than their first state; imports of foreign states.
* The quality analysis on the device (`GuidedCaptureCamera.tsx:327`ff with
  `core/scheduler.ts`): it judges frames of the video element one at a time and
  its advice only competes for display with the Agent's, and `LiveGuidance` leaves
  open who wins. For the same reason the priorities and times of
  `core/guidanceSelector.ts` are left out.
* `core/captureReducer.ts` and `core/cameraController.ts`: a second implementation
  of the session and the camera, kept as a library and not used by the
  application; a model of it would be of code that does not run.
* The publisher that `start_agent_runtime` uses when it gets no transport
  factory (`live_agent.py:1373`ff): `agent.py` always passes one.
* The bus's cache of results: one bus per command leaves it nothing to do for
  commands; the long-lived bus of the context serves reads and view changes.
* A single failing read of IndexedDB at start, which the tab cannot tell from an
  empty database (`MercariContext.tsx:702`).
* Expiry of records and previews (a day of real time), schema upgrades and the
  legacy `localStorage` record.
* Pixels: mask validation, composition, measurement markers, image routes;
  tokens; views; catalogue data; the worker. Computation or I/O without state
  that outlives a call.

## 7. Plan

Every safety property of the runs is proved, so what is left widens the model: the
quality analysis on the device with its frame scheduler, and the mutations of the
engine that only read the trade, where they keep state of their own.
