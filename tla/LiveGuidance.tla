---- MODULE LiveGuidance ----
(***************************************************************************)
(* Live guidance of one capture session: the Python Agent (the guidance    *)
(* state machine, the transport adapter and the runtime that owns the      *)
(* selected shot), the browser (LiveKitAdapter and the guidance part of    *)
(* useGuidedCaptureController), and the two Room connections between them. *)
(*                                                                         *)
(* asyncio runs one task at a time and asyncio.Lock is first come, first   *)
(* served, so the Agent is its queue `tasks` of coroutines waiting for the *)
(* transport's lock and `sending`, the packet whose publish the lock's     *)
(* holder awaits.  The model of a provider runs outside the lock.          *)
(*                                                                         *)
(* The controller keeps the advice it accepts, one for each slot, and a    *)
(* selector with a memory of its own decides what of it the camera shows,  *)
(* now or when a timer wakes it.  Which advice wins (priorities, the       *)
(* device's own checks, the times it enters and clears) is left open.      *)
(*                                                                         *)
(* External: the Rooms.  Reliable packets arrive in order or, when a Room  *)
(* breaks, not at all; advice may be lost or overtaken (and what the       *)
(* clocks find expired counts as lost).                                    *)
(***************************************************************************)
EXTENDS Integers, Sequences, FiniteSets

CONSTANTS
    Shots,          \* the slots of a session (SESSION_SLOTS)
    FirstShot,      \* "front"
    Codes,          \* the finite guidance codes
    None,
    Events,         \* the kinds of event this instance lets happen
    MaxEvents,      \* bound: how many of them happen
    MaxCalls        \* max_inference_calls of the session's processor

EventKinds == {"select", "advance", "page", "break", "signal", "retry", "rejoin",
               "agent_break", "publish_fails", "send_fails"}

ASSUME GuidanceAssumption ==
    /\ FirstShot \in Shots
    /\ None \notin Shots \cup Codes
    /\ Events \subseteq EventKinds
    /\ MaxEvents \in Nat /\ MaxCalls \in Nat

VARIABLES
    \* the controller and the adapter in the browser
    active,         \* state.activeSlot
    slotRef,        \* stateRef.activeSlot, behind it until React renders
    awaiting,       \* awaitingResyncRef
    seen,           \* transportSequenceRef
    latest,         \* LiveKitAdapter.latestSequence
    needsResync,    \* LiveKitAdapter.needsResync
    link,           \* connectionState of the browser's Room; "signal" is the
                    \* SDK's signalReconnecting, "closing" a Room on its way out
    hidden,         \* document.visibilityState
    held,           \* guidanceCandidatesRef: the Agent's advice at hand
    primary,        \* GuidanceHysteresis.active if it is the Agent's, or None
    shown,          \* primaryGuidance of the Agent, or None
    silencedAt,     \* history: seen when guidance was last silenced
    moved,          \* history: the slot has changed since
    \* the Agent
    sequence,       \* GuidanceStateMachine._sequence
    shot,           \* the shot of state machine and transport
    lastCode,       \* the code of _last_key, or None
    current,        \* AgentRuntime.current_shot
    connected,      \* GuidanceTransportAdapter._connected
    gens,           \* the three generations of the transport
    inference,      \* the frame the provider is judging, or None
    calls,          \* inference_count of the processor
    tasks, sending,
    room,           \* the Agent's Room: "up" or "down"
    fencedAt,       \* sequence of the last shot change or reconnection packet
    \* the Rooms
    toAgent, toBrowser, advice,
    happened        \* how many events have happened, bounded by MaxEvents

screen == <<held, primary, shown, silencedAt, moved>>
browser == <<active, slotRef, awaiting, seen, latest, needsResync, link, hidden, screen>>
machine == <<sequence, shot, lastCode, fencedAt>>
transport == <<connected, gens, inference, tasks, sending>>
agent == <<machine, transport, current, calls, room>>
rooms == <<toAgent, toBrowser, advice>>
vars == <<browser, agent, rooms, happened>>

Advice == [seq : Nat, shot : Shots, code : Codes, since : Nat]
State == [seq : Nat, shot : Shots \cup {None}]
Control == [type : {"set_shot"}, shot : Shots] \cup [type : {"resync"}]
Fence == [con : Nat, shot : Nat, frame : Nat]
Frame == [shot : Shots, gens : Fence, since : Nat]
Task == [type : {"set_shot"}, shot : Shots, before : Shots]
        \cup [type : {"resync", "disconnected", "reconnected"}]
        \cup [type : {"frame"}, shot : Shots]
        \cup [type : {"result"}, of : Frame, code : Codes]
Packet == [kind : {"shot", "resync", "reconnect"}, event : State]
          \cup [kind : {"frame_state"}, event : State, shot : Shots]
          \cup [kind : {"advice"}, event : Advice]

TypeOK ==
    /\ active \in Shots /\ slotRef \in Shots
    /\ awaiting \in BOOLEAN /\ hidden \in BOOLEAN
    /\ seen \in Nat /\ latest \in Nat /\ needsResync \in BOOLEAN
    /\ link \in {"connected", "signal", "reconnecting", "closing", "disconnected"}
    /\ held \subseteq Advice
    /\ primary \in Advice \cup {None} /\ shown \in Advice \cup {None}
    /\ silencedAt \in Nat /\ moved \in BOOLEAN
    /\ sequence \in Nat /\ fencedAt \in 0..sequence
    /\ shot \in Shots \cup {None} /\ lastCode \in Codes \cup {None}
    /\ current \in Shots /\ connected \in BOOLEAN /\ gens \in Fence
    /\ inference \in Frame \cup {None} /\ calls \in 0..MaxCalls
    /\ tasks \in Seq(Task) /\ sending \in Packet \cup {None}
    /\ room \in {"up", "down"}
    /\ toAgent \in Seq(Control) /\ toBrowser \in Seq(State)
    /\ advice \subseteq Advice
    /\ happened \in 0..MaxEvents

Init ==
    /\ active = FirstShot /\ slotRef = FirstShot
    /\ awaiting = FALSE /\ seen = 0 /\ latest = 0
    /\ needsResync = FALSE /\ link = "connected" /\ hidden = FALSE
    /\ held = {} /\ primary = None /\ shown = None
    /\ silencedAt = 0 /\ moved = FALSE
    /\ sequence = 0 /\ shot = None /\ lastCode = None /\ fencedAt = 0
    /\ current = FirstShot /\ connected = TRUE
    /\ gens = [con |-> 0, shot |-> 0, frame |-> 0]
    /\ inference = None /\ calls = 0 /\ tasks = <<>> /\ sending = None
    /\ room = "up"
    /\ toAgent = <<>> /\ toBrowser = <<>> /\ advice = {} /\ happened = 0

(* One more of the events of kind k, if the instance has them. *)
Happens(k) == k \in Events /\ happened < MaxEvents /\ happened' = happened + 1

----------------------------------------------------------------------------
(* The browser.                                                            *)

(* sendGuidanceRpc: refused unless the Room is connected. *)
SendControl(c) ==
    toAgent' = IF link = "connected" THEN Append(toAgent, c) ELSE toAgent

SetShotControl(s) == [type |-> "set_shot", shot |-> s]

(* Variant: the advice accepted so far is kept. *)
ResetSelector == primary' = None /\ UNCHANGED held

(* resetGuidance, which leaves what is on the camera. *)
ResetGuidance == primary' = None /\ held' = {}

(* ... and the camera cleared: nothing numbered up to n is to be seen again. *)
Silences(n) ==
    /\ ResetGuidance
    /\ shown' = None /\ silencedAt' = n /\ moved' = FALSE

(* React runs an update at once if none is queued, else when it renders. *)
SlotFollows == slotRef' = active' \/ UNCHANGED slotRef

RenderSlot ==
    /\ slotRef # active /\ slotRef' = active
    /\ UNCHANGED <<active, awaiting, seen, latest, needsResync, link, hidden, screen,
                   agent, rooms, happened>>

(* selectSlot and setActiveShot. *)
SelectSlot(s) ==
    /\ Happens("select")
    /\ active' = s /\ slotRef' = s /\ awaiting' = TRUE
    /\ Silences(seen)
    /\ SendControl(SetShotControl(s))
    /\ UNCHANGED <<seen, latest, needsResync, link, hidden, agent, toBrowser, advice>>

(* processMedia takes a photo for slot s, and tells the Agent nothing. *)
TakePhoto(s) ==
    /\ Happens("advance")
    /\ active' = s /\ SlotFollows
    /\ Silences(seen)
    /\ UNCHANGED <<awaiting, seen, latest, needsResync, link, hidden, agent, rooms>>

(* It moves on to slot s when the photo is accepted, and clears the camera, *)
(* but neither the advice it holds nor the selector nor its timer.         *)
AdvanceSlot(s) ==
    /\ Happens("advance")
    /\ active' = s /\ SlotFollows
    /\ shown' = None /\ moved' = TRUE
    /\ UNCHANGED <<awaiting, seen, latest, needsResync, link, hidden, held, primary,
                   silencedAt, agent, rooms>>

(* applyGuidance: the selector keeps what it shows, takes one of the advice *)
(* at hand, or shows none of it, the expired ones being out of question.   *)
Selects(candidates) ==
    /\ held' = candidates
    /\ primary' \in {primary, None} \cup candidates
    /\ shown' = primary'

(* Its timer, or a check of the device (reportLocalGuidance). *)
ApplyGuidance ==
    /\ Selects(held)
    /\ UNCHANGED <<active, slotRef, awaiting, seen, latest, needsResync, link, hidden,
                   silencedAt, moved, agent, rooms, happened>>

(* onVisibilityChange, both ways. *)
HidePage ==
    /\ ~hidden /\ Happens("page")
    /\ hidden' = TRUE /\ awaiting' = TRUE
    /\ Silences(seen)
    /\ UNCHANGED <<active, slotRef, seen, latest, needsResync, link, agent, rooms>>

ShowPage ==
    /\ hidden
    /\ hidden' = FALSE
    /\ IF link = "connected"
       THEN /\ awaiting' = TRUE /\ ResetGuidance /\ UNCHANGED shown
            /\ SendControl(SetShotControl(slotRef))
       ELSE Selects(held) /\ UNCHANGED <<awaiting, toAgent>>
    /\ UNCHANGED <<active, slotRef, seen, latest, needsResync, link, silencedAt, moved,
                   agent, toBrowser, advice, happened>>

(* What the controller does on a report of any connection but "connected". *)
Cuts == awaiting' = TRUE /\ Silences(seen)

(* The browser's Room breaks: what it had not received may be gone. *)
BreakLink(to) ==
    /\ \/ link \in {"connected", "signal"}
       \/ link = "reconnecting" /\ to = "disconnected"
    /\ Happens("break")
    /\ link' = to /\ needsResync' = TRUE
    /\ Cuts
    /\ toBrowser' \in {toBrowser, <<>>} /\ advice' \in {advice, {}}
    /\ UNCHANGED <<active, slotRef, seen, latest, hidden, agent, toAgent>>

(* Only its signalling does: reported as "connecting", it asks for no       *)
(* resync, and data keeps coming.                                          *)
DropSignal ==
    /\ link = "connected" /\ Happens("signal")
    /\ link' = "signal"
    /\ Cuts
    /\ UNCHANGED <<active, slotRef, seen, latest, needsResync, hidden, agent, rooms>>

(* The SDK restores the Room: handleConnectionState and                    *)
(* resyncAfterReconnect, whose send may fail.                              *)
SdkReconnects ==
    /\ link \in {"reconnecting", "signal"}
    /\ link' = "connected"
    /\ Cuts
    /\ \/ /\ needsResync' = FALSE
          /\ toAgent' = IF needsResync THEN Append(toAgent, [type |-> "resync"]) ELSE toAgent
          /\ UNCHANGED happened
       \/ needsResync /\ Happens("send_fails") /\ UNCHANGED <<needsResync, toAgent>>
    /\ UNCHANGED <<active, slotRef, seen, latest, hidden, agent, toBrowser, advice>>

(* retryConnection with a Room in use, and connect when the retry timer of  *)
(* a "connecting" report goes off: the old Room is left first, and only     *)
(* then does its report clear the camera.                                  *)
RetryConnection ==
    /\ link \in {"connected", "signal", "reconnecting"} /\ Happens("retry")
    /\ link' = "closing"
    /\ awaiting' = TRUE /\ ResetGuidance
    /\ UNCHANGED <<active, slotRef, seen, latest, needsResync, hidden, shown, silencedAt,
                   moved, agent, rooms>>

RetryTimer ==
    /\ link = "signal"
    /\ link' = "closing"
    /\ UNCHANGED <<active, slotRef, awaiting, seen, latest, needsResync, hidden, screen,
                   agent, rooms, happened>>

OldRoomLeft ==
    /\ link = "closing"
    /\ link' = "disconnected"
    /\ Cuts
    /\ UNCHANGED <<active, slotRef, seen, latest, needsResync, hidden, agent, rooms, happened>>

(* connect of the controller: a new adapter and a new Room for the same     *)
(* session.                                                                *)
Rejoin ==
    /\ link = "disconnected" /\ "rejoin" \in Events
    /\ link' = "connected" /\ needsResync' = FALSE /\ latest' = 0
    /\ Cuts
    /\ toBrowser' = <<>> /\ advice' = {} /\ toAgent' \in {toAgent, <<>>}
    /\ UNCHANGED <<active, slotRef, seen, hidden, agent, happened>>

(* handleData, whatever the adapter's state. *)
Hears == link \in {"connected", "signal"}

(* reportState. *)
ReceiveState ==
    /\ Hears /\ toBrowser # <<>>
    /\ LET e == Head(toBrowser) IN
       /\ toBrowser' = Tail(toBrowser)
       /\ latest' = IF e.seq > latest THEN e.seq ELSE latest
       /\ IF e.seq > latest /\ e.seq > seen
          THEN /\ seen' = e.seq /\ awaiting' = FALSE
               /\ Silences(e.seq)
               /\ active' = IF e.shot = None THEN active ELSE e.shot
               /\ SlotFollows
          ELSE UNCHANGED <<seen, awaiting, screen, active, slotRef>>
    /\ UNCHANGED <<needsResync, link, hidden, agent, toAgent, advice, happened>>

(* reportGuidance. *)
Accepts(a) == ~awaiting /\ a.shot = slotRef /\ a.seq > seen

ReceiveAdvice(a) ==
    /\ Hears /\ a \in advice
    /\ advice' = advice \ {a}
    /\ latest' = IF a.seq > latest THEN a.seq ELSE latest
    /\ IF a.seq > latest /\ Accepts(a)
       THEN /\ seen' = a.seq
            /\ Selects({c \in held : c.shot # a.shot} \cup {a})
            /\ moved' = (moved \/ slotRef # active)
       ELSE UNCHANGED <<seen, held, primary, shown, moved>>
    /\ UNCHANGED <<active, slotRef, awaiting, needsResync, link, hidden, silencedAt,
                   agent, toAgent, toBrowser, happened>>

LoseAdvice(a) ==
    /\ a \in advice /\ advice' = advice \ {a}
    /\ UNCHANGED <<browser, agent, toAgent, toBrowser, happened>>

BrowserStep ==
    \/ \E s \in Shots : SelectSlot(s) \/ TakePhoto(s) \/ AdvanceSlot(s)
    \/ RenderSlot \/ ApplyGuidance
    \/ HidePage \/ ShowPage
    \/ \E to \in {"reconnecting", "disconnected"} : BreakLink(to)
    \/ DropSignal \/ SdkReconnects
    \/ RetryConnection \/ RetryTimer \/ OldRoomLeft \/ Rejoin
    \/ ReceiveState \/ \E a \in advice : ReceiveAdvice(a) \/ LoseAdvice(a)

----------------------------------------------------------------------------
(* The Agent.                                                              *)

(* attach_control and _attach_guidance_lifecycle: events become tasks. *)
RoomEvent(kind) == tasks' = Append(tasks, [type |-> kind])

(* handle_control: the runtime's shot is set when the message arrives, the  *)
(* transport's when the lock is free; set_shot remembers the one before.   *)
HandleControl ==
    /\ room = "up" /\ toAgent # <<>>
    /\ LET c == Head(toAgent) IN
       /\ toAgent' = Tail(toAgent)
       /\ \/ /\ c.type = "set_shot"
             /\ tasks' = Append(tasks, [type |-> "set_shot", shot |-> c.shot,
                                       before |-> current])
             /\ current' = c.shot
          \/ /\ c.type = "resync"
             /\ RoomEvent("resync") /\ UNCHANGED current
    /\ UNCHANGED <<browser, machine, connected, gens, inference, sending, calls,
                   room, toBrowser, advice, happened>>

BreakRoom ==
    /\ room = "up" /\ Happens("agent_break")
    /\ room' = "down" /\ RoomEvent("disconnected")
    /\ toAgent' \in {toAgent, <<>>}
    /\ UNCHANGED <<browser, machine, connected, gens, inference, sending,
                   current, calls, toBrowser, advice>>

RestoreRoom ==
    /\ room = "down"
    /\ room' = "up" /\ RoomEvent("reconnected")
    /\ UNCHANGED <<browser, machine, connected, gens, inference, sending,
                   current, calls, rooms, happened>>

FrameInHand ==
    \/ inference # None
    \/ \E i \in DOMAIN tasks : tasks[i].type \in {"frame", "result"}
    \/ sending # None /\ sending.kind \in {"frame_state", "advice"}

(* The processor starts its next call: one at a time, within the budget. *)
TakeFrame ==
    /\ ~FrameInHand /\ calls < MaxCalls
    /\ calls' = calls + 1
    /\ tasks' = Append(tasks, [type |-> "frame", shot |-> current])
    /\ UNCHANGED <<browser, machine, connected, gens, inference, sending,
                   current, room, rooms, happened>>

(* The provider answers; process_frame waits for the lock again. *)
ProviderAnswers(code) ==
    /\ inference # None
    /\ inference' = None
    /\ tasks' = Append(tasks, [type |-> "result", of |-> inference, code |-> code])
    /\ UNCHANGED <<browser, machine, connected, gens, sending, current, calls,
                   room, rooms, happened>>

ProviderFails ==
    /\ inference # None /\ inference' = None
    /\ UNCHANGED <<browser, machine, connected, gens, tasks, sending, current,
                   calls, room, rooms, happened>>

(* The generations after an event that must fence what is in flight. *)
Cut(g) == [g EXCEPT !.con = @ + 1, !.frame = @ + 1]

(* A state event takes the next sequence number; reported is its shot. *)
Announce(kind, reported) ==
    /\ sequence' = sequence + 1
    /\ sending' = [kind |-> kind, event |-> [seq |-> sequence + 1, shot |-> reported]]

(* GuidanceStateMachine.set_shot as both callers use it: the shot differs. *)
ChangeShot(s) ==
    /\ shot' = s /\ lastCode' = None /\ fencedAt' = sequence + 1
    /\ gens' = [gens EXCEPT !.shot = @ + 1]

Keep == UNCHANGED <<sequence, shot, lastCode, fencedAt, connected, gens, sending>>

(* set_shot: refused while disconnected, silent when the shot is the same;  *)
(* a refusal puts the runtime's shot back to the transport's, or to the one *)
(* before when that has none.                                              *)
RunSetShot(s, before) ==
    /\ IF connected /\ s # shot
       THEN ChangeShot(s) /\ Announce("shot", s) /\ UNCHANGED connected
       ELSE Keep
    /\ current' = IF connected THEN current ELSE IF shot = None THEN before ELSE shot
    /\ UNCHANGED inference

(* Variant: nothing to report before a shot is selected. *)
ResyncSelected ==
    /\ IF connected /\ shot # None
       THEN Announce("resync", shot) /\ UNCHANGED <<shot, lastCode, fencedAt, connected, gens>>
       ELSE Keep
    /\ UNCHANGED <<current, inference>>

(* resync *)
RunResync ==
    /\ IF connected
       THEN Announce("resync", shot) /\ UNCHANGED <<shot, lastCode, fencedAt, connected, gens>>
       ELSE Keep
    /\ UNCHANGED <<current, inference>>

MarkDisconnected ==
    /\ connected' = FALSE
    /\ gens' = IF connected THEN Cut(gens) ELSE gens
    /\ UNCHANGED <<machine, sending, current, inference>>

(* on_reconnected: raises if it is connected already. *)
OnReconnected ==
    /\ IF ~connected
       THEN /\ gens' = [gens EXCEPT !.con = @ + 1]
            /\ Announce("reconnect", shot) /\ fencedAt' = sequence + 1
            /\ UNCHANGED <<shot, lastCode, connected>>
       ELSE Keep
    /\ UNCHANGED <<current, inference>>

(* process_frame up to the provider call: it announces a shot the runtime   *)
(* selected meanwhile, and raises while disconnected.                      *)
StartInference(s, g, since) ==
    /\ gens' = [g EXCEPT !.frame = @ + 1]
    /\ inference' = [shot |-> s, gens |-> [g EXCEPT !.frame = @ + 1], since |-> since]

ProcessFrame(s) ==
    /\ \/ ~connected /\ Keep /\ UNCHANGED inference
       \/ /\ connected /\ s = shot
          /\ StartInference(s, gens, sequence)
          /\ UNCHANGED <<machine, connected, sending>>
       \/ /\ connected /\ s # shot
          /\ ChangeShot(s) /\ UNCHANGED <<connected, inference>>
          /\ sequence' = sequence + 1
          /\ sending' = [kind |-> "frame_state", shot |-> s,
                         event |-> [seq |-> sequence + 1, shot |-> s]]
    /\ UNCHANGED current

(* Variant: the result is only compared with the shot. *)
ValidForShot(f) == connected /\ f.shot = shot

(* process_frame after the provider: every fence must still hold. *)
StillValid(f) == connected /\ f.gens = gens /\ f.shot = shot

(* emit repeats no advice of the same shot and code. *)
ProcessResult(f, code) ==
    /\ IF StillValid(f) /\ code # lastCode
       THEN /\ sequence' = sequence + 1 /\ lastCode' = code
            /\ sending' = [kind |-> "advice",
                           event |-> [seq |-> sequence + 1, shot |-> f.shot,
                                      code |-> code, since |-> f.since]]
            /\ UNCHANGED <<shot, fencedAt, connected, gens>>
       ELSE Keep
    /\ UNCHANGED <<current, inference>>

RunTask ==
    /\ sending = None /\ tasks # <<>>
    /\ LET t == Head(tasks) IN
       \/ t.type = "set_shot" /\ RunSetShot(t.shot, t.before)
       \/ t.type = "resync" /\ RunResync
       \/ t.type = "disconnected" /\ MarkDisconnected
       \/ t.type = "reconnected" /\ OnReconnected
       \/ t.type = "frame" /\ ProcessFrame(t.shot)
       \/ t.type = "result" /\ ProcessResult(t.of, t.code)
    /\ tasks' = Tail(tasks)
    /\ UNCHANGED <<browser, calls, room, rooms, happened>>

(* The awaited publish_data returns: the packet is on its way to the        *)
(* browser, unless that is cut off.                                        *)
Deliver(p) ==
    IF ~Hears THEN UNCHANGED <<toBrowser, advice>>
    ELSE IF p.kind = "advice"
         THEN advice' = advice \cup {p.event} /\ UNCHANGED toBrowser
         ELSE toBrowser' = Append(toBrowser, p.event) /\ UNCHANGED advice

PublishSucceeds ==
    /\ sending # None /\ room = "up"
    /\ sending' = None /\ Deliver(sending)
    /\ connected' = (connected \/ sending.kind = "reconnect")
    /\ IF sending.kind = "frame_state"
       THEN StartInference(sending.shot, gens, sequence)
       ELSE UNCHANGED <<gens, inference>>
    /\ UNCHANGED <<browser, machine, tasks, current, calls, room, toAgent, happened>>

(* _publish raises: a reliable packet's loss fences the transport, and the  *)
(* runtime takes the transport's shot.                                     *)
PublishFails ==
    /\ sending # None
    /\ IF room = "down" THEN UNCHANGED happened ELSE Happens("publish_fails")
    /\ sending' = None
    /\ IF sending.kind = "advice" THEN UNCHANGED <<connected, gens>>
       ELSE connected' = FALSE /\ gens' = Cut(gens)
    /\ current' = IF sending.kind = "shot" THEN shot ELSE current
    /\ UNCHANGED <<browser, machine, inference, tasks, calls, room, rooms>>

AgentStep ==
    \/ HandleControl \/ BreakRoom \/ RestoreRoom
    \/ TakeFrame \/ \E c \in Codes : ProviderAnswers(c)
    \/ ProviderFails
    \/ RunTask \/ PublishSucceeds \/ PublishFails

Next == BrowserStep \/ AgentStep

(* The event loops keep running and a connected Room delivers; nothing says *)
(* that frames, the user or the network act.                               *)
Fairness ==
    /\ WF_vars(HandleControl) /\ WF_vars(RunTask)
    /\ WF_vars(PublishSucceeds \/ PublishFails)
    /\ WF_vars(ReceiveState)
    /\ WF_vars(SdkReconnects) /\ WF_vars(RestoreRoom)

Spec == Init /\ [][Next]_vars /\ Fairness

----------------------------------------------------------------------------
(* Properties.                                                             *)

(* Advice that was silenced is not seen again: neither the advice at hand   *)
(* nor the selector's memory nor its timer brings back what was accepted    *)
(* before a change of slot by the seller or the Agent, a new photo, a       *)
(* hidden page or a broken Room, and what is seen is for the selected slot  *)
(* unless the slot has changed without silencing (resetGuidance,            *)
(* applyGuidance, reportState, reportGuidance, reportConnectionState).      *)
ShownIsCurrent ==
    shown # None =>
        /\ shown.seq > silencedAt
        /\ shown.shot = active \/ moved
        /\ link # "reconnecting" /\ link # "disconnected"

(* A frame taken before a shot change or before a reconnection never speaks *)
(* after it: advice numbered above that packet was begun above it, for the *)
(* shot it announced (the generations of process_frame).                   *)
AdviceIsFresh ==
    \A a \in advice \cup (IF shown = None THEN {} ELSE {shown}) :
        a.seq > fencedAt => a.since >= fencedAt /\ a.shot = shot

(* Advice numbered above a reliable packet reached the browser before it:   *)
(* the adapter, with one counter for both, will discard the packet.        *)
Overtaken == \E i \in DOMAIN toBrowser : toBrowser[i].seq <= latest

ResyncOnItsWay ==
    /\ link = "connected" /\ connected
    /\ \E i \in DOMAIN toAgent : toAgent[i].type = "resync"

(* A resync on its way ends the browser's wait, unless the Agent is fenced, *)
(* the browser's Room breaks or advice overtakes the answer                *)
(* (resyncAfterReconnect, handle_control, resync, handleData).             *)
ResyncAnswered ==
    ResyncOnItsWay ~> (~awaiting \/ ~connected \/ link # "connected" \/ Overtaken)

====
