---- MODULE LiveGuidance_proofs ----
(***************************************************************************)
(* What LiveGuidance promises for every set of shots and codes, and for    *)
(* any number of events and frames: its types, ShownIsCurrent and          *)
(* AdviceIsFresh.                                                          *)
(***************************************************************************)
EXTENDS LiveGuidance, TLAPS

(* What the browser has of the Agent's advice.                             *)
OnHand == held \cup ({primary, shown} \ {None})

(* Advice that was numbered: in the browser, on its way, or being          *)
(* published.                                                              *)
Numbered ==
    advice \cup OnHand
           \cup (IF sending # None /\ sending.kind = "advice" THEN {sending.event} ELSE {})

(* Frames that may still speak: at the provider, or judged and waiting for  *)
(* the lock.                                                               *)
Judged == {tasks[i].of : i \in {j \in DOMAIN tasks : tasks[j].type = "result"}}

InFlight == (IF inference = None THEN {} ELSE {inference}) \cup Judged

(* Advice numbered above the last fence was begun above it; the same of a   *)
(* frame that still has the generations of the connection and of the shot,  *)
(* and no frame has later ones.                                            *)
AdviceIInv ==
    \A a \in Numbered :
        /\ a.seq <= sequence
        /\ a.seq > fencedAt => a.since >= fencedAt /\ a.shot = shot

FrameIInv ==
    \A f \in InFlight :
        /\ f.gens.con <= gens.con /\ f.gens.shot <= gens.shot
        /\ f.gens.con = gens.con /\ f.gens.shot = gens.shot => f.since >= fencedAt

----------------------------------------------------------------------------
(* Types.                                                                  *)

(* The values that the steps build.                                        *)
LEMMA RecordFacts ==
    /\ [type |-> "resync"] \in Control
    /\ \A s \in Shots : SetShotControl(s) \in Control
    /\ \A k \in {"resync", "disconnected", "reconnected"} : [type |-> k] \in Task
    /\ \A s, t \in Shots : [type |-> "set_shot", shot |-> s, before |-> t] \in Task
    /\ \A s \in Shots : [type |-> "frame", shot |-> s] \in Task
    /\ \A f \in Frame, c \in Codes : [type |-> "result", of |-> f, code |-> c] \in Task
    /\ \A k \in {"shot", "resync", "reconnect"}, e \in State :
           [kind |-> k, event |-> e] \in Packet
    /\ \A e \in State, s \in Shots :
           [kind |-> "frame_state", event |-> e, shot |-> s] \in Packet
    /\ \A e \in Advice : [kind |-> "advice", event |-> e] \in Packet
    /\ \A n \in Nat, s \in Shots \cup {None} : [seq |-> n, shot |-> s] \in State
    /\ \A n, m \in Nat, s \in Shots, c \in Codes :
           [seq |-> n, shot |-> s, code |-> c, since |-> m] \in Advice
<1>1. [type |-> "resync"] \in Control
  BY DEF Control
<1>2. \A s \in Shots : SetShotControl(s) \in Control
  BY DEF SetShotControl, Control
<1>3. \A k \in {"resync", "disconnected", "reconnected"} : [type |-> k] \in Task
  BY DEF Task
<1>4. \A s, t \in Shots : [type |-> "set_shot", shot |-> s, before |-> t] \in Task
  BY DEF Task
<1>5. \A s \in Shots : [type |-> "frame", shot |-> s] \in Task
  BY DEF Task
<1>6. \A f \in Frame, c \in Codes : [type |-> "result", of |-> f, code |-> c] \in Task
  BY DEF Task
<1>7. \A k \in {"shot", "resync", "reconnect"}, e \in State :
        [kind |-> k, event |-> e] \in Packet
  BY DEF Packet
<1>8. \A e \in State, s \in Shots :
        [kind |-> "frame_state", event |-> e, shot |-> s] \in Packet
  BY DEF Packet
<1>9. \A e \in Advice : [kind |-> "advice", event |-> e] \in Packet
  BY DEF Packet
<1>10. \A n \in Nat, s \in Shots \cup {None} : [seq |-> n, shot |-> s] \in State
  BY DEF State
<1>11. \A n, m \in Nat, s \in Shots, c \in Codes :
         [seq |-> n, shot |-> s, code |-> c, since |-> m] \in Advice
  BY DEF Advice
<1> QED
  BY <1>1, <1>2, <1>3, <1>4, <1>5, <1>6, <1>7, <1>8, <1>9, <1>10, <1>11

(* What the records of a queue and of a packet hold.                       *)
LEMMA FieldFacts ==
    /\ \A t \in Task :
         /\ t.type = "set_shot" => t.shot \in Shots /\ t.before \in Shots
         /\ t.type = "frame" => t.shot \in Shots
         /\ t.type = "result" => t.of \in Frame /\ t.code \in Codes
    /\ \A p \in Packet :
         /\ p.kind = "frame_state" => p.shot \in Shots
         /\ p.kind = "advice" => p.event \in Advice
         /\ p.kind # "advice" => p.event \in State
    /\ \A c \in Control : c.type = "set_shot" => c.shot \in Shots
    /\ \A e \in State : e.seq \in Nat /\ e.shot \in Shots \cup {None}
    /\ \A a \in Advice : /\ a.seq \in Nat /\ a.since \in Nat
                         /\ a.shot \in Shots /\ a.code \in Codes
    /\ \A f \in Frame : f.shot \in Shots /\ f.gens \in Fence /\ f.since \in Nat
    /\ \A g \in Fence : g.con \in Nat /\ g.shot \in Nat /\ g.frame \in Nat
<1>1. \A t \in Task :
         /\ t.type = "set_shot" => t.shot \in Shots /\ t.before \in Shots
         /\ t.type = "frame" => t.shot \in Shots
         /\ t.type = "result" => t.of \in Frame /\ t.code \in Codes
  BY DEF Task
<1>2. \A p \in Packet :
         /\ p.kind = "frame_state" => p.shot \in Shots
         /\ p.kind = "advice" => p.event \in Advice
         /\ p.kind # "advice" => p.event \in State
  BY DEF Packet
<1>3. \A c \in Control : c.type = "set_shot" => c.shot \in Shots
  BY DEF Control
<1>4. \A e \in State : e.seq \in Nat /\ e.shot \in Shots \cup {None}
  BY DEF State
<1>5. \A a \in Advice : /\ a.seq \in Nat /\ a.since \in Nat
                        /\ a.shot \in Shots /\ a.code \in Codes
  BY DEF Advice
<1>6. \A f \in Frame : f.shot \in Shots /\ f.gens \in Fence /\ f.since \in Nat
  BY DEF Frame
<1>7. \A g \in Fence : g.con \in Nat /\ g.shot \in Nat /\ g.frame \in Nat
  BY DEF Fence
<1> QED
  BY <1>1, <1>2, <1>3, <1>4, <1>5, <1>6, <1>7

(* The generations that the transport moves on to.                         *)
LEMMA FenceFacts ==
    ASSUME NEW g \in Fence
    PROVE  /\ Cut(g) \in Fence
           /\ Cut(g).con = g.con + 1 /\ Cut(g).shot = g.shot
           /\ [g EXCEPT !.shot = @ + 1] \in Fence
           /\ [g EXCEPT !.shot = @ + 1].con = g.con
           /\ [g EXCEPT !.shot = @ + 1].shot = g.shot + 1
           /\ [g EXCEPT !.con = @ + 1] \in Fence
           /\ [g EXCEPT !.con = @ + 1].con = g.con + 1
           /\ [g EXCEPT !.con = @ + 1].shot = g.shot
           /\ [g EXCEPT !.frame = @ + 1] \in Fence
           /\ [g EXCEPT !.frame = @ + 1].con = g.con
           /\ [g EXCEPT !.frame = @ + 1].shot = g.shot
<1>1. /\ Cut(g) \in Fence
      /\ Cut(g).con = g.con + 1 /\ Cut(g).shot = g.shot
  <2> DEFINE h == [g EXCEPT !.con = g.con + 1]
  <2>1. h \in Fence /\ h.con = g.con + 1 /\ h.shot = g.shot /\ h.frame = g.frame
    BY DEF Fence
  <2>2. Cut(g) = [h EXCEPT !.frame = g.frame + 1]
    BY DEF Cut
  <2>3. g.frame + 1 \in Nat
    BY DEF Fence
  <2> HIDE DEF h
  <2> QED
    BY <2>1, <2>2, <2>3 DEF Fence
<1>2. /\ [g EXCEPT !.shot = @ + 1] \in Fence
      /\ [g EXCEPT !.shot = @ + 1].con = g.con
      /\ [g EXCEPT !.shot = @ + 1].shot = g.shot + 1
  BY DEF Fence
<1>3. /\ [g EXCEPT !.con = @ + 1] \in Fence
      /\ [g EXCEPT !.con = @ + 1].con = g.con + 1
      /\ [g EXCEPT !.con = @ + 1].shot = g.shot
  BY DEF Fence
<1>4. /\ [g EXCEPT !.frame = @ + 1] \in Fence
      /\ [g EXCEPT !.frame = @ + 1].con = g.con
      /\ [g EXCEPT !.frame = @ + 1].shot = g.shot
  BY DEF Fence
<1> QED
  BY <1>1, <1>2, <1>3, <1>4

(* The parts of TypeOK, browser, Agent and Rooms.                          *)
BrowserOK ==
    /\ active \in Shots /\ slotRef \in Shots
    /\ awaiting \in BOOLEAN /\ hidden \in BOOLEAN
    /\ seen \in Nat /\ latest \in Nat /\ needsResync \in BOOLEAN
    /\ link \in {"connected", "signal", "reconnecting", "closing", "disconnected"}
    /\ held \subseteq Advice
    /\ primary \in Advice \cup {None} /\ shown \in Advice \cup {None}
    /\ silencedAt \in Nat /\ moved \in BOOLEAN

MachineOK ==
    /\ sequence \in Nat /\ fencedAt \in 0..sequence
    /\ shot \in Shots \cup {None} /\ lastCode \in Codes \cup {None}

TransportOK ==
    /\ connected \in BOOLEAN /\ gens \in Fence
    /\ inference \in Frame \cup {None}
    /\ sending \in Packet \cup {None}

RoomsOK ==
    /\ toAgent \in Seq(Control) /\ toBrowser \in Seq(State)
    /\ advice \subseteq Advice

LEMMA TypeParts ==
    TypeOK <=> /\ BrowserOK /\ MachineOK /\ TransportOK /\ RoomsOK
               /\ current \in Shots /\ calls \in 0..MaxCalls
               /\ tasks \in Seq(Task) /\ room \in {"up", "down"}
               /\ happened \in 0..MaxEvents
BY DEF TypeOK, BrowserOK, MachineOK, TransportOK, RoomsOK

(* An event is counted.                                                    *)
LEMMA HappensTypes ==
    ASSUME happened \in 0..MaxEvents, NEW k, Happens(k)
    PROVE  happened' \in 0..MaxEvents
BY GuidanceAssumption DEF Happens

(* The browser leaves the Agent alone, and the Agent the browser.          *)
LEMMA AgentAlone ==
    BrowserStep => UNCHANGED agent
BY DEF BrowserStep, SelectSlot, TakePhoto, AdvanceSlot, RenderSlot, ApplyGuidance,
       HidePage, ShowPage, BreakLink, DropSignal, SdkReconnects, RetryConnection,
       RetryTimer, OldRoomLeft, Rejoin, ReceiveState, ReceiveAdvice, LoseAdvice

LEMMA BrowserAlone ==
    AgentStep => UNCHANGED browser
BY DEF AgentStep, HandleControl, BreakRoom, RestoreRoom, TakeFrame, ProviderAnswers,
       ProviderFails, RunTask, PublishSucceeds, PublishFails

LEMMA BrowserTypes ==
    ASSUME TypeOK, BrowserStep
    PROVE  TypeOK'
<1> BrowserOK /\ RoomsOK /\ happened \in 0..MaxEvents
  BY TypeParts
<1>1. UNCHANGED agent => /\ MachineOK' /\ TransportOK'
                         /\ current' \in Shots /\ calls' \in 0..MaxCalls
                         /\ tasks' \in Seq(Task) /\ room' \in {"up", "down"}
  BY TypeParts DEF agent, machine, transport, MachineOK, TransportOK
<1>2. ASSUME UNCHANGED agent, BrowserOK', RoomsOK', happened' \in 0..MaxEvents
      PROVE  TypeOK'
  BY <1>1, <1>2 DEF TypeOK, BrowserOK, MachineOK, TransportOK, RoomsOK
<1>3. \A c \in Control : SendControl(c) => toAgent' \in Seq(Control)
  BY DEF SendControl, RoomsOK
<1>4. ASSUME NEW s \in Shots, SelectSlot(s) PROVE TypeOK'
  <2>1. toAgent' \in Seq(Control)
    BY <1>3, <1>4, RecordFacts DEF SelectSlot
  <2>2. BrowserOK'
    BY <1>4 DEF SelectSlot, Silences, ResetGuidance, BrowserOK
  <2> QED
    BY <1>2, <1>4, <2>1, <2>2, HappensTypes DEF SelectSlot, RoomsOK
<1>5. ASSUME NEW s \in Shots, TakePhoto(s) \/ AdvanceSlot(s) PROVE TypeOK'
  <2>1. BrowserOK'
    BY <1>5 DEF TakePhoto, AdvanceSlot, SlotFollows, Silences, ResetGuidance, BrowserOK
  <2> QED
    BY <1>2, <1>5, <2>1, HappensTypes DEF TakePhoto, AdvanceSlot, RoomsOK, rooms
<1>6. CASE RenderSlot \/ ApplyGuidance
  <2>1. BrowserOK'
    BY <1>6 DEF RenderSlot, ApplyGuidance, Selects, screen, BrowserOK
  <2> QED
    BY <1>2, <1>6, <2>1 DEF RenderSlot, ApplyGuidance, RoomsOK, rooms
<1>7. CASE HidePage
  <2>1. BrowserOK'
    BY <1>7 DEF HidePage, Silences, ResetGuidance, BrowserOK
  <2> QED
    BY <1>2, <1>7, <2>1, HappensTypes DEF HidePage, RoomsOK, rooms
<1>8. CASE ShowPage
  <2>1. toAgent' \in Seq(Control)
    BY <1>3, <1>8, RecordFacts DEF ShowPage, BrowserOK, RoomsOK
  <2>2. BrowserOK'
    BY <1>8 DEF ShowPage, ResetGuidance, Selects, BrowserOK
  <2> QED
    BY <1>2, <1>8, <2>1, <2>2 DEF ShowPage, RoomsOK
<1>9. ASSUME NEW to \in {"reconnecting", "disconnected"}, BreakLink(to) PROVE TypeOK'
  <2>1. <<>> \in Seq(State) /\ toBrowser' \in {toBrowser, <<>>} /\ advice' \in {advice, {}}
    BY <1>9 DEF BreakLink
  <2>2. BrowserOK'
    BY <1>9 DEF BreakLink, Cuts, Silences, ResetGuidance, BrowserOK
  <2> QED
    BY <1>2, <1>9, <2>1, <2>2, HappensTypes DEF BreakLink, RoomsOK
<1>10. CASE DropSignal \/ RetryConnection
  <2>1. BrowserOK'
    BY <1>10 DEF DropSignal, RetryConnection, Cuts, Silences, ResetGuidance, BrowserOK
  <2> QED
    BY <1>2, <1>10, <2>1, HappensTypes DEF DropSignal, RetryConnection, RoomsOK, rooms
<1>11. CASE RetryTimer \/ OldRoomLeft
  <2>1. BrowserOK'
    BY <1>11 DEF RetryTimer, OldRoomLeft, Cuts, Silences, ResetGuidance, screen, BrowserOK
  <2> QED
    BY <1>2, <1>11, <2>1 DEF RetryTimer, OldRoomLeft, RoomsOK, rooms
<1>12. CASE SdkReconnects
  <2>1. toAgent' \in Seq(Control) /\ needsResync' \in BOOLEAN /\ happened' \in 0..MaxEvents
    <3>1. CASE /\ needsResync' = FALSE
               /\ toAgent' = IF needsResync THEN Append(toAgent, [type |-> "resync"])
                             ELSE toAgent
               /\ UNCHANGED happened
      <4>1. [type |-> "resync"] \in Control
        BY RecordFacts
      <4>2. toAgent' \in Seq(Control)
        BY <3>1, <4>1 DEF RoomsOK
      <4> QED
        BY <3>1, <4>2
    <3>2. CASE Happens("send_fails") /\ UNCHANGED <<needsResync, toAgent>>
      BY <3>2, HappensTypes DEF BrowserOK, RoomsOK
    <3> QED
      BY <1>12, <3>1, <3>2 DEF SdkReconnects
  <2>2. BrowserOK'
    BY <1>12, <2>1 DEF SdkReconnects, Cuts, Silences, ResetGuidance, BrowserOK
  <2> QED
    BY <1>2, <1>12, <2>1, <2>2 DEF SdkReconnects, RoomsOK
<1>13. CASE Rejoin
  <2>1. <<>> \in Seq(Control) /\ <<>> \in Seq(State)
    OBVIOUS
  <2>2. RoomsOK' /\ UNCHANGED <<agent, happened>>
    BY <1>13, <2>1 DEF Rejoin, RoomsOK
  <2>3. BrowserOK'
    BY <1>13 DEF Rejoin, Cuts, Silences, ResetGuidance, BrowserOK
  <2> QED
    BY <1>2, <2>2, <2>3
<1>14. CASE ReceiveState
  <2>1. Head(toBrowser) \in State /\ toBrowser' \in Seq(State)
    BY <1>14 DEF ReceiveState, RoomsOK
  <2>2. Head(toBrowser).seq \in Nat /\ Head(toBrowser).shot \in Shots \cup {None}
    BY <2>1, FieldFacts
  <2>3. BrowserOK'
    BY <1>14, <2>2
       DEF ReceiveState, SlotFollows, Silences, ResetGuidance, screen, BrowserOK
  <2> QED
    BY <1>2, <1>14, <2>1, <2>3 DEF ReceiveState, RoomsOK
<1>15. ASSUME NEW a \in advice, ReceiveAdvice(a) PROVE TypeOK'
  <2>1. a \in Advice /\ a.seq \in Nat
    BY FieldFacts DEF RoomsOK
  <2>2. BrowserOK'
    BY <1>15, <2>1 DEF ReceiveAdvice, Selects, BrowserOK
  <2> QED
    BY <1>2, <1>15, <2>2 DEF ReceiveAdvice, RoomsOK
<1>16. ASSUME NEW a \in advice, LoseAdvice(a) PROVE TypeOK'
  BY <1>2, <1>16 DEF LoseAdvice, BrowserOK, RoomsOK, browser, screen
<1> QED
  BY <1>4, <1>5, <1>6, <1>7, <1>8, <1>9, <1>10, <1>11, <1>12, <1>13, <1>14, <1>15, <1>16
     DEF BrowserStep

(* A step of the Agent that leaves the browser and all but its own queue    *)
(* alone keeps the types if the queue gets a task.                         *)
LEMMA TaskAppended ==
    ASSUME tasks \in Seq(Task), NEW t \in Task, tasks' = Append(tasks, t)
    PROVE  tasks' \in Seq(Task)
OBVIOUS

(* The events of the Agent's Room, and the frames.                         *)
LEMMA EventTypes ==
    ASSUME TypeOK,
           \/ HandleControl \/ BreakRoom \/ RestoreRoom \/ TakeFrame
           \/ \E c \in Codes : ProviderAnswers(c)
           \/ ProviderFails
    PROVE  TypeOK'
<1> /\ BrowserOK /\ MachineOK /\ TransportOK /\ RoomsOK
    /\ current \in Shots /\ calls \in 0..MaxCalls
    /\ tasks \in Seq(Task) /\ happened \in 0..MaxEvents
  BY TypeParts
<1>1. CASE HandleControl
  <2>1. Head(toAgent) \in Control /\ toAgent' \in Seq(Control)
    BY <1>1 DEF HandleControl, RoomsOK
  <2>2. tasks' \in Seq(Task) /\ current' \in Shots
    <3>1. CASE Head(toAgent).type = "set_shot"
               /\ tasks' = Append(tasks, [type |-> "set_shot", shot |-> Head(toAgent).shot,
                                          before |-> current])
               /\ current' = Head(toAgent).shot
      <4>1. Head(toAgent).shot \in Shots
        BY <2>1, <3>1, FieldFacts
      <4>2. [type |-> "set_shot", shot |-> Head(toAgent).shot, before |-> current] \in Task
        BY <4>1, RecordFacts
      <4> QED
        BY <3>1, <4>1, <4>2, TaskAppended
    <3>2. CASE RoomEvent("resync") /\ UNCHANGED current
      BY <3>2, RecordFacts, TaskAppended DEF RoomEvent
    <3> QED
      BY <1>1, <3>1, <3>2 DEF HandleControl
  <2> QED
    BY <1>1, <2>1, <2>2
       DEF HandleControl, TypeOK, browser, screen, machine, BrowserOK, MachineOK, TransportOK, RoomsOK
<1>2. CASE BreakRoom
  <2>1. tasks' \in Seq(Task)
    BY <1>2, RecordFacts, TaskAppended DEF BreakRoom, RoomEvent
  <2>2. toAgent' \in Seq(Control)
    <3>1. <<>> \in Seq(Control) /\ toAgent' \in {toAgent, <<>>}
      BY <1>2 DEF BreakRoom
    <3> QED
      BY <3>1 DEF RoomsOK
  <2> QED
    BY <1>2, <2>1, <2>2, HappensTypes
       DEF BreakRoom, TypeOK, browser, screen, machine, BrowserOK, MachineOK, TransportOK, RoomsOK
<1>3. CASE RestoreRoom
  <2>1. tasks' \in Seq(Task)
    BY <1>3, RecordFacts, TaskAppended DEF RestoreRoom, RoomEvent
  <2> QED
    BY <1>3, <2>1
       DEF RestoreRoom, TypeOK, browser, screen, machine, rooms, BrowserOK, MachineOK,
           TransportOK, RoomsOK
<1>4. CASE TakeFrame
  <2>1. [type |-> "frame", shot |-> current] \in Task
    BY RecordFacts
  <2>2. tasks' \in Seq(Task)
    BY <1>4, <2>1, TaskAppended DEF TakeFrame
  <2>3. calls' \in 0..MaxCalls
    BY <1>4, GuidanceAssumption DEF TakeFrame
  <2> QED
    BY <1>4, <2>2, <2>3
       DEF TakeFrame, TypeOK, browser, screen, machine, rooms, BrowserOK, MachineOK,
           TransportOK, RoomsOK
<1>5. ASSUME NEW c \in Codes, ProviderAnswers(c)
      PROVE  TypeOK'
  <2>1. [type |-> "result", of |-> inference, code |-> c] \in Task
    BY <1>5, RecordFacts DEF ProviderAnswers, TransportOK
  <2>2. tasks' \in Seq(Task)
    BY <1>5, <2>1, TaskAppended DEF ProviderAnswers
  <2> QED
    BY <1>5, <2>2
       DEF ProviderAnswers, TypeOK, browser, screen, machine, rooms, BrowserOK, MachineOK,
           TransportOK, RoomsOK
<1>6. CASE ProviderFails
  BY <1>6
     DEF ProviderFails, TypeOK, browser, screen, machine, rooms, BrowserOK, MachineOK,
         TransportOK, RoomsOK
<1> QED
  BY <1>1, <1>2, <1>3, <1>4, <1>5, <1>6

(* A shot that is taken over, and a state that is announced.               *)
LEMMA AnnounceTypes ==
    ASSUME sequence \in Nat, NEW k \in {"shot", "resync", "reconnect"},
           NEW s \in Shots \cup {None}, Announce(k, s)
    PROVE  sequence' \in Nat /\ sequence' = sequence + 1 /\ sending' \in Packet
<1>1. [seq |-> sequence + 1, shot |-> s] \in State
  BY DEF State
<1> QED
  BY <1>1, RecordFacts DEF Announce

LEMMA ChangeShotTypes ==
    ASSUME MachineOK, TransportOK, NEW s \in Shots, ChangeShot(s), sequence' = sequence + 1
    PROVE  MachineOK' /\ gens' \in Fence
<1>1. gens' \in Fence
  BY FenceFacts DEF ChangeShot, TransportOK
<1> QED
  BY <1>1 DEF ChangeShot, MachineOK

(* The coroutines that hold the lock.                                      *)
LEMMA RunTypes ==
    ASSUME TypeOK, RunTask
    PROVE  TypeOK'
<1> /\ BrowserOK /\ MachineOK /\ TransportOK /\ RoomsOK
    /\ current \in Shots /\ tasks \in Seq(Task)
  BY TypeParts
<1> DEFINE t == Head(tasks)
<1>1. t \in Task /\ tasks' \in Seq(Task)
  BY DEF RunTask
<1>2. ASSUME MachineOK', TransportOK', current' \in Shots
      PROVE  TypeOK'
  BY <1>1, <1>2 DEF RunTask, TypeOK, browser, screen, rooms, BrowserOK, MachineOK, TransportOK, RoomsOK
<1>3. Keep => MachineOK' /\ connected' \in BOOLEAN /\ gens' \in Fence
                         /\ sending' \in Packet \cup {None}
  BY DEF Keep, MachineOK, TransportOK
<1>4. CASE t.type = "set_shot" /\ RunSetShot(t.shot, t.before)
  <2>1. t.shot \in Shots /\ t.before \in Shots
    BY <1>1, <1>4, FieldFacts
  <2>2. current' \in Shots
    BY <1>4, <2>1 DEF RunSetShot, MachineOK
  <2>3. CASE connected /\ t.shot # shot
    <3>1. ChangeShot(t.shot) /\ Announce("shot", t.shot) /\ UNCHANGED <<connected, inference>>
      BY <1>4, <2>3 DEF RunSetShot
    <3>2. sequence' = sequence + 1 /\ sending' \in Packet
      BY <2>1, <3>1, AnnounceTypes DEF MachineOK
    <3>3. MachineOK' /\ gens' \in Fence
      BY <2>1, <3>1, <3>2, ChangeShotTypes
    <3> QED
      BY <1>2, <2>2, <3>1, <3>2, <3>3 DEF TransportOK
  <2>4. CASE ~(connected /\ t.shot # shot)
    BY <1>2, <1>3, <1>4, <2>2, <2>4 DEF RunSetShot, TransportOK
  <2> QED
    BY <2>3, <2>4
<1>5. CASE t.type = "resync" /\ RunResync
  <2>1. CASE connected
    <3>1. /\ Announce("resync", shot)
          /\ UNCHANGED <<shot, lastCode, fencedAt, connected, gens, current, inference>>
      BY <1>5, <2>1 DEF RunResync
    <3>2. sequence' \in Nat /\ sequence' = sequence + 1 /\ sending' \in Packet
      BY <3>1, AnnounceTypes DEF MachineOK
    <3> QED
      BY <1>2, <3>1, <3>2 DEF MachineOK, TransportOK
  <2>2. CASE ~connected
    BY <1>2, <1>3, <1>5, <2>2 DEF RunResync, TransportOK
  <2> QED
    BY <2>1, <2>2
<1>6. CASE t.type = "disconnected" /\ MarkDisconnected
  <2>1. gens' \in Fence
    BY <1>6, FenceFacts DEF MarkDisconnected, TransportOK
  <2> QED
    BY <1>2, <1>6, <2>1 DEF MarkDisconnected, machine, MachineOK, TransportOK
<1>7. CASE t.type = "reconnected" /\ OnReconnected
  <2>1. CASE ~connected
    <3>1. /\ gens' = [gens EXCEPT !.con = @ + 1]
          /\ Announce("reconnect", shot) /\ fencedAt' = sequence + 1
          /\ UNCHANGED <<shot, lastCode, connected, current, inference>>
      BY <1>7, <2>1 DEF OnReconnected
    <3>2. sequence' \in Nat /\ sequence' = sequence + 1 /\ sending' \in Packet
      BY <3>1, AnnounceTypes DEF MachineOK
    <3>3. gens' \in Fence
      BY <3>1, FenceFacts DEF TransportOK
    <3> QED
      BY <1>2, <3>1, <3>2, <3>3 DEF MachineOK, TransportOK
  <2>2. CASE connected
    BY <1>2, <1>3, <1>7, <2>2 DEF OnReconnected, TransportOK
  <2> QED
    BY <2>1, <2>2
<1>8. CASE t.type = "frame" /\ ProcessFrame(t.shot)
  <2>1. t.shot \in Shots
    BY <1>1, <1>8, FieldFacts
  <2>2. CASE Keep /\ UNCHANGED inference
    BY <1>2, <1>3, <1>8, <2>2 DEF ProcessFrame, TransportOK
  <2>3. CASE /\ StartInference(t.shot, gens, sequence)
             /\ UNCHANGED <<machine, connected, sending>>
    <3>1. gens' \in Fence /\ inference' \in Frame
      BY <2>1, <2>3, FenceFacts DEF StartInference, Frame, MachineOK, TransportOK
    <3> QED
      BY <1>2, <1>8, <2>3, <3>1 DEF ProcessFrame, machine, MachineOK, TransportOK
  <2>4. CASE /\ ChangeShot(t.shot) /\ UNCHANGED <<connected, inference>>
             /\ sequence' = sequence + 1
             /\ sending' = [kind |-> "frame_state", shot |-> t.shot,
                            event |-> [seq |-> sequence + 1, shot |-> t.shot]]
    <3>1. [seq |-> sequence + 1, shot |-> t.shot] \in State
      BY <2>1, RecordFacts DEF MachineOK
    <3>2. sending' \in Packet
      BY <2>1, <2>4, <3>1 DEF Packet
    <3>3. MachineOK' /\ gens' \in Fence
      BY <2>1, <2>4, ChangeShotTypes
    <3> QED
      BY <1>2, <1>8, <2>4, <3>2, <3>3 DEF ProcessFrame, TransportOK
  <2> QED
    BY <1>8, <2>2, <2>3, <2>4 DEF ProcessFrame
<1>9. CASE t.type = "result" /\ ProcessResult(t.of, t.code)
  <2>1. t.of \in Frame /\ t.code \in Codes
    BY <1>1, <1>9, FieldFacts
  <2>2. CASE StillValid(t.of) /\ t.code # lastCode
    <3>1. [seq |-> sequence + 1, shot |-> t.of.shot, code |-> t.code,
           since |-> t.of.since] \in Advice
      BY <2>1 DEF MachineOK, Frame, Advice
    <3>2. sending' \in Packet
      BY <1>9, <2>2, <3>1, RecordFacts DEF ProcessResult
    <3>3. MachineOK'
      BY <1>9, <2>1, <2>2 DEF ProcessResult, MachineOK
    <3> QED
      BY <1>2, <1>9, <2>2, <3>2, <3>3 DEF ProcessResult, TransportOK
  <2>3. CASE ~(StillValid(t.of) /\ t.code # lastCode)
    BY <1>2, <1>3, <1>9, <2>3 DEF ProcessResult, TransportOK
  <2> QED
    BY <2>2, <2>3
<1> QED
  BY <1>4, <1>5, <1>6, <1>7, <1>8, <1>9 DEF RunTask

(* A shot that is being announced is the transport's: when the publish      *)
(* fails, the runtime takes it.                                            *)
ShotAnnounced ==
    sending # None /\ sending.kind = "shot" => shot \in Shots

LEMMA AnnouncedStep ==
    ASSUME TypeOK, ShotAnnounced, [Next]_vars
    PROVE  ShotAnnounced'
<1>1. CASE RunTask
  <2>1. Head(tasks) \in Task
    BY <1>1 DEF RunTask, TypeOK
  <2>2. CASE Keep
    BY <2>2 DEF Keep, ShotAnnounced
  <2>3. CASE sending' = None
    BY <2>3 DEF ShotAnnounced
  <2>4. CASE sending'.kind # "shot"
    BY <2>4 DEF ShotAnnounced
  <2>5. CASE shot' \in Shots
    BY <2>5 DEF ShotAnnounced
  <2>6. Keep \/ sending' = None \/ sending'.kind # "shot" \/ shot' \in Shots
    BY <1>1, <2>1, FieldFacts
       DEF RunTask, RunSetShot, ChangeShot, Announce, RunResync, MarkDisconnected,
           OnReconnected, ProcessFrame, StartInference, ProcessResult
  <2> QED
    BY <2>2, <2>3, <2>4, <2>5, <2>6
<1>2. CASE PublishSucceeds \/ PublishFails
  BY <1>2 DEF PublishSucceeds, PublishFails, ShotAnnounced
<1>3. CASE HandleControl \/ BreakRoom \/ RestoreRoom \/ TakeFrame
           \/ (\E c \in Codes : ProviderAnswers(c)) \/ ProviderFails
  <2>1. UNCHANGED <<machine, sending>>
    BY <1>3 DEF HandleControl, BreakRoom, RestoreRoom, TakeFrame, ProviderAnswers,
                ProviderFails
  <2> QED
    BY <2>1 DEF machine, ShotAnnounced
<1>4. CASE BrowserStep \/ UNCHANGED vars
  <2>1. UNCHANGED agent
    BY <1>4, AgentAlone DEF vars
  <2> QED
    BY <2>1 DEF agent, machine, transport, ShotAnnounced
<1> QED
  BY <1>1, <1>2, <1>3, <1>4 DEF Next, AgentStep

(* The end of a publish.                                                   *)
LEMMA PublishTypes ==
    ASSUME TypeOK, ShotAnnounced, PublishSucceeds \/ PublishFails
    PROVE  TypeOK'
<1> /\ BrowserOK /\ MachineOK /\ TransportOK /\ RoomsOK
    /\ current \in Shots /\ tasks \in Seq(Task) /\ happened \in 0..MaxEvents
  BY TypeParts
<1>1. CASE PublishSucceeds
  <2>1. sending \in Packet
    BY <1>1 DEF PublishSucceeds, TransportOK
  <2>2. toBrowser' \in Seq(State) /\ advice' \subseteq Advice
    <3>1. sending.kind = "advice" => sending.event \in Advice
      BY <2>1, FieldFacts
    <3>2. sending.kind # "advice" => sending.event \in State
      BY <2>1, FieldFacts
    <3>3. CASE sending.kind = "advice"
      BY <1>1, <3>1, <3>3 DEF PublishSucceeds, Deliver, RoomsOK
    <3>4. CASE sending.kind # "advice"
      <4>1. \/ UNCHANGED <<toBrowser, advice>>
            \/ toBrowser' = Append(toBrowser, sending.event) /\ UNCHANGED advice
        BY <1>1, <3>4 DEF PublishSucceeds, Deliver
      <4> QED
        BY <3>2, <3>4, <4>1 DEF RoomsOK
    <3> QED
      BY <3>3, <3>4
  <2>3. gens' \in Fence /\ inference' \in Frame \cup {None}
    <3>1. CASE sending.kind = "frame_state"
      <4>1. sending.shot \in Shots
        BY <2>1, <3>1, FieldFacts
      <4>2. gens' \in Fence /\ inference' \in Frame
        <5>1. StartInference(sending.shot, gens, sequence)
          BY <1>1, <3>1 DEF PublishSucceeds
        <5>2. [gens EXCEPT !.frame = @ + 1] \in Fence
          BY FenceFacts DEF TransportOK
        <5> QED
          BY <4>1, <5>1, <5>2 DEF StartInference, Frame, MachineOK
      <4> QED
        BY <4>2
    <3>2. CASE sending.kind # "frame_state"
      BY <1>1, <3>2 DEF PublishSucceeds, TransportOK
    <3> QED
      BY <3>1, <3>2
  <2>4. connected' \in BOOLEAN
    BY <1>1 DEF PublishSucceeds
  <2> QED
    BY <1>1, <2>2, <2>3, <2>4
       DEF PublishSucceeds, TypeOK, browser, screen, machine, BrowserOK, MachineOK,
           TransportOK, RoomsOK
<1>2. CASE PublishFails
  <2>1. gens' \in Fence /\ connected' \in BOOLEAN
    BY <1>2, FenceFacts DEF PublishFails, TransportOK
  <2>2. current' \in Shots
    BY <1>2 DEF PublishFails, ShotAnnounced
  <2>3. happened' \in 0..MaxEvents
    BY <1>2, HappensTypes DEF PublishFails
  <2> QED
    BY <1>2, <2>1, <2>2, <2>3
       DEF PublishFails, TypeOK, browser, screen, machine, rooms, BrowserOK, MachineOK,
           TransportOK, RoomsOK
<1> QED
  BY <1>1, <1>2

(* Every value stays of its type, whichever Room breaks and whatever is     *)
(* lost (LiveKitAdapter, the controller, GuidanceTransportAdapter and the  *)
(* runtime).                                                               *)
THEOREM TypeCorrect == Spec => [](TypeOK /\ ShotAnnounced)
<1>1. Init => TypeOK /\ ShotAnnounced
  <2> SUFFICES ASSUME Init PROVE TypeOK /\ ShotAnnounced
    OBVIOUS
  <2>1. BrowserOK /\ MachineOK
    <3>1. 0 \in Nat /\ 0 \in 0..0
      OBVIOUS
    <3> QED
      BY <3>1, GuidanceAssumption DEF Init, BrowserOK, MachineOK
  <2>2. TransportOK
    BY DEF Init, TransportOK, Fence
  <2>3. RoomsOK /\ tasks \in Seq(Task)
    BY DEF Init, RoomsOK
  <2>4. current \in Shots /\ calls \in 0..MaxCalls /\ room \in {"up", "down"}
        /\ happened \in 0..MaxEvents
    BY GuidanceAssumption DEF Init
  <2>5. ShotAnnounced
    BY DEF Init, ShotAnnounced
  <2> QED
    BY <2>1, <2>2, <2>3, <2>4, <2>5, TypeParts
<1>2. TypeOK /\ ShotAnnounced /\ [Next]_vars => TypeOK' /\ ShotAnnounced'
  <2> SUFFICES ASSUME TypeOK, ShotAnnounced, [Next]_vars PROVE TypeOK'
    BY AnnouncedStep
  <2>1. CASE BrowserStep
    BY <2>1, BrowserTypes
  <2>2. CASE AgentStep
    BY <2>2, EventTypes, RunTypes, PublishTypes DEF AgentStep
  <2>3. CASE UNCHANGED vars
    BY <2>3 DEF TypeOK, vars, browser, screen, agent, machine, transport, rooms
  <2> QED
    BY <2>1, <2>2, <2>3 DEF Next
<1> QED
  BY <1>1, <1>2, PTL DEF Spec

----------------------------------------------------------------------------
(* What is shown is current.                                               *)

(* Not only what the camera shows: whatever the selector may yet show was    *)
(* accepted after the last silence, and a Room that is gone leaves none.    *)
CurrentIInv ==
    /\ silencedAt <= seen
    /\ \A c \in OnHand : /\ silencedAt < c.seq /\ c.seq <= seen
                         /\ c.shot = active \/ moved
    /\ link = "reconnecting" \/ link = "disconnected" => OnHand = {}

(* The browser's advice after a silence, and after a selection.            *)
LEMMA SilenceFacts ==
    ASSUME NEW n, Silences(n)
    PROVE  OnHand' = {} /\ silencedAt' = n
BY DEF Silences, ResetGuidance, OnHand

LEMMA SelectionFacts ==
    ASSUME NEW S, Selects(S), S \subseteq Advice
    PROVE  OnHand' \subseteq S \cup OnHand
BY DEF Selects, OnHand

(* What is left of it when nothing is accepted.                            *)
LEMMA FewerOnHand ==
    ASSUME CurrentIInv, OnHand' \subseteq OnHand, UNCHANGED <<silencedAt, seen>>,
           moved' \/ UNCHANGED <<moved, active>>,
           link' = "reconnecting" \/ link' = "disconnected" => UNCHANGED link
    PROVE  CurrentIInv'
BY DEF CurrentIInv

LEMMA Silenced ==
    ASSUME TypeOK, Silences(seen), UNCHANGED seen
    PROVE  CurrentIInv'
BY SilenceFacts DEF CurrentIInv, TypeOK

LEMMA CurrentStep ==
    ASSUME TypeOK, CurrentIInv, [Next]_vars
    PROVE  CurrentIInv'
<1>1. ASSUME NEW s \in Shots, SelectSlot(s) \/ TakePhoto(s)
      PROVE  CurrentIInv'
  BY <1>1, Silenced DEF SelectSlot, TakePhoto
<1>2. CASE \/ HidePage \/ DropSignal \/ SdkReconnects \/ OldRoomLeft \/ Rejoin
           \/ \E to \in {"reconnecting", "disconnected"} : BreakLink(to)
  BY <1>2, Silenced DEF HidePage, DropSignal, SdkReconnects, OldRoomLeft, Rejoin,
                        BreakLink, Cuts
<1>3. ASSUME NEW s \in Shots, AdvanceSlot(s)
      PROVE  CurrentIInv'
  BY <1>3, FewerOnHand DEF AdvanceSlot, OnHand
<1>4. CASE RenderSlot \/ RetryTimer
  BY <1>4, FewerOnHand DEF RenderSlot, RetryTimer, screen, OnHand
<1>5. CASE ApplyGuidance
  <2>1. OnHand' \subseteq OnHand
    BY <1>5, SelectionFacts DEF ApplyGuidance, OnHand, TypeOK
  <2> QED
    BY <1>5, <2>1, FewerOnHand DEF ApplyGuidance
<1>6. CASE ShowPage
  <2>1. OnHand' \subseteq OnHand
    BY <1>6, SelectionFacts DEF ShowPage, ResetGuidance, OnHand, TypeOK
  <2> QED
    BY <1>6, <2>1, FewerOnHand DEF ShowPage
<1>7. CASE RetryConnection
  BY <1>7, FewerOnHand DEF RetryConnection, ResetGuidance, OnHand
<1>8. CASE ReceiveState
  <2>1. Head(toBrowser).seq \in Nat
    BY <1>8, FieldFacts DEF ReceiveState, TypeOK
  <2>2. \/ Silences(Head(toBrowser).seq) /\ seen' = Head(toBrowser).seq
        \/ UNCHANGED <<seen, screen, active, link>>
    BY <1>8 DEF ReceiveState
  <2>3. CASE Silences(Head(toBrowser).seq) /\ seen' = Head(toBrowser).seq
    BY <2>1, <2>3, SilenceFacts DEF CurrentIInv
  <2>4. CASE UNCHANGED <<seen, screen, active, link>>
    BY <2>4, FewerOnHand DEF screen, OnHand
  <2> QED
    BY <2>2, <2>3, <2>4
<1>9. ASSUME NEW a \in advice, ReceiveAdvice(a)
      PROVE  CurrentIInv'
  <2>1. a \in Advice /\ a.seq \in Nat /\ OnHand \subseteq Advice
    BY FieldFacts DEF TypeOK, OnHand
  <2>2. CASE a.seq > latest /\ Accepts(a)
    <3>1. /\ seen' = a.seq /\ a.seq > seen /\ a.shot = slotRef
          /\ Selects({c \in held : c.shot # a.shot} \cup {a})
          /\ moved' = (moved \/ slotRef # active)
          /\ UNCHANGED <<silencedAt, active, link>> /\ Hears
      BY <1>9, <2>2 DEF ReceiveAdvice, Accepts
    <3>2. OnHand' \subseteq OnHand \cup {a}
      BY <2>1, <3>1, SelectionFacts DEF OnHand
    <3>3. silencedAt \in Nat /\ seen \in Nat /\ \A c \in OnHand : c.seq \in Nat
      BY <2>1, FieldFacts DEF TypeOK
    <3>4. silencedAt' <= seen'
      BY <2>1, <3>1, <3>3 DEF CurrentIInv
    <3>5. a.seq > seen /\ seen' = a.seq /\ silencedAt' = silencedAt /\ active' = active
      BY <3>1
    <3>6. /\ silencedAt <= seen
          /\ \A c \in OnHand : /\ silencedAt < c.seq /\ c.seq <= seen
                               /\ c.shot = active \/ moved
      BY DEF CurrentIInv
    <3>7. a.shot = active' \/ moved'
      BY <3>1
    <3>8. \A c \in OnHand : c.shot = active' \/ moved'
      BY <3>1, <3>6
    <3>9. silencedAt' < a.seq /\ a.seq <= seen'
      BY <2>1, <3>3, <3>5, <3>6
    <3>10. \A c \in OnHand : silencedAt' < c.seq /\ c.seq <= seen'
      BY <2>1, <3>3, <3>5, <3>6
    <3>11. \A c \in OnHand' : /\ silencedAt' < c.seq /\ c.seq <= seen'
                              /\ c.shot = active' \/ moved'
      BY <3>2, <3>7, <3>8, <3>9, <3>10
    <3> QED
      BY <3>1, <3>4, <3>11 DEF CurrentIInv, Hears
  <2>3. CASE ~(a.seq > latest /\ Accepts(a))
    BY <1>9, <2>3, FewerOnHand DEF ReceiveAdvice, OnHand
  <2> QED
    BY <2>2, <2>3
<1>10. CASE AgentStep \/ UNCHANGED vars \/ \E a \in advice : LoseAdvice(a)
  <2>1. UNCHANGED browser
    BY <1>10, BrowserAlone DEF LoseAdvice, vars
  <2> QED
    BY <2>1, FewerOnHand DEF browser, screen, OnHand
<1> QED
  BY <1>1, <1>2, <1>3, <1>4, <1>5, <1>6, <1>7, <1>8, <1>9, <1>10 DEF Next, BrowserStep

(* Advice that was silenced is not seen again, whether it was shown, at      *)
(* hand, or the selector's; what is shown is for the selected slot unless   *)
(* that changed without a silence; and no broken Room leaves any.           *)
THEOREM ShownAdviceIsCurrent == Spec => []ShownIsCurrent
<1>1. Init => CurrentIInv
  BY DEF Init, CurrentIInv, OnHand
<1>2. TypeOK /\ CurrentIInv /\ [Next]_vars => CurrentIInv'
  BY CurrentStep
<1>3. TypeOK /\ CurrentIInv => ShownIsCurrent
  <2> SUFFICES ASSUME TypeOK, CurrentIInv, shown # None
               PROVE  /\ shown.seq > silencedAt
                      /\ shown.shot = active \/ moved
                      /\ link # "reconnecting" /\ link # "disconnected"
    BY DEF ShownIsCurrent
  <2>1. shown \in OnHand /\ shown.seq \in Nat /\ silencedAt \in Nat
    BY FieldFacts DEF TypeOK, OnHand
  <2> QED
    BY <2>1 DEF CurrentIInv
<1> QED
  BY <1>1, <1>2, <1>3, TypeCorrect, PTL DEF Spec

----------------------------------------------------------------------------
(* Advice is fresh.                                                        *)

(* Results leave the queue from its head, and join it with the frame that   *)
(* the provider judged.                                                    *)
LEMMA JudgedFacts ==
    ASSUME tasks \in Seq(Task)
    PROVE  /\ Judged \subseteq Frame
           /\ tasks # <<>> /\ tasks' = Tail(tasks) => Judged' \subseteq Judged
           /\ tasks # <<>> /\ Head(tasks).type = "result" => Head(tasks).of \in Judged
           /\ \A t \in Task : tasks' = Append(tasks, t) =>
                Judged' \subseteq Judged \cup (IF t.type = "result" THEN {t.of} ELSE {})
<1>1. Judged \subseteq Frame
  <2>1. \A i \in DOMAIN tasks : tasks[i] \in Task
    OBVIOUS
  <2> QED
    BY <2>1, FieldFacts DEF Judged
<1>2. ASSUME tasks # <<>>, tasks' = Tail(tasks)
      PROVE  Judged' \subseteq Judged
  <2>1. \A i \in DOMAIN tasks' : i + 1 \in DOMAIN tasks /\ tasks'[i] = tasks[i + 1]
    BY <1>2
  <2> QED
    BY <2>1 DEF Judged
<1>3. ASSUME tasks # <<>>, Head(tasks).type = "result"
      PROVE  Head(tasks).of \in Judged
  <2>1. 1 \in DOMAIN tasks /\ Head(tasks) = tasks[1]
    BY <1>3
  <2> QED
    BY <1>3, <2>1 DEF Judged
<1>4. ASSUME NEW t \in Task, tasks' = Append(tasks, t)
      PROVE  Judged' \subseteq Judged \cup (IF t.type = "result" THEN {t.of} ELSE {})
  <2>1. \A i \in DOMAIN tasks' : \/ i \in DOMAIN tasks /\ tasks'[i] = tasks[i]
                                 \/ tasks'[i] = t
    BY <1>4
  <2> QED
    BY <2>1 DEF Judged
<1> QED
  BY <1>1, <1>2, <1>3, <1>4

(* A frame in flight stays behind the fence it was taken behind: the        *)
(* generations never go back, and one of them moves with every new fence.  *)
LEMMA FramesKept ==
    ASSUME TypeOK, FrameIInv, gens' \in Fence,
           gens.con <= gens'.con, gens.shot <= gens'.shot,
           \/ fencedAt' = fencedAt
           \/ gens.con < gens'.con \/ gens.shot < gens'.shot,
           \A f \in InFlight' \ InFlight :
               /\ f.gens.con <= gens'.con /\ f.gens.shot <= gens'.shot
               /\ f.since >= fencedAt'
    PROVE  FrameIInv'
<1> SUFFICES ASSUME NEW f \in InFlight'
             PROVE  /\ f.gens.con <= gens'.con /\ f.gens.shot <= gens'.shot
                    /\ f.gens.con = gens'.con /\ f.gens.shot = gens'.shot
                         => f.since >= fencedAt'
  BY DEF FrameIInv
<1>1. CASE f \notin InFlight
  BY <1>1
<1>2. CASE f \in InFlight
  <2>1. f \in Frame
    BY <1>2, JudgedFacts DEF InFlight, TypeOK
  <2>2. /\ f.gens.con \in Nat /\ f.gens.shot \in Nat /\ f.since \in Nat
        /\ gens.con \in Nat /\ gens.shot \in Nat
        /\ gens'.con \in Nat /\ gens'.shot \in Nat
    BY <2>1, FieldFacts DEF TypeOK
  <2>3. /\ f.gens.con <= gens.con /\ f.gens.shot <= gens.shot
        /\ f.gens.con = gens.con /\ f.gens.shot = gens.shot => f.since >= fencedAt
    BY <1>2 DEF FrameIInv
  <2> QED
    BY <2>2, <2>3
<1> QED
  BY <1>1, <1>2

(* Advice keeps what it was numbered with while no new fence is set.        *)
LEMMA AdviceKept ==
    ASSUME TypeOK, TypeOK', AdviceIInv, UNCHANGED <<fencedAt, shot>>, sequence <= sequence',
           \A a \in Numbered' \ Numbered :
               a.seq <= sequence' /\ a.since >= fencedAt /\ a.shot = shot
    PROVE  AdviceIInv'
<1> SUFFICES ASSUME NEW a \in Numbered'
             PROVE  /\ a.seq <= sequence'
                    /\ a.seq > fencedAt' => a.since >= fencedAt' /\ a.shot = shot'
  BY DEF AdviceIInv
<1>1. CASE a \in Numbered
  <2>1. a \in Advice
    BY <1>1, FieldFacts DEF Numbered, OnHand, TypeOK
  <2>2. a.seq \in Nat /\ sequence \in Nat /\ sequence' \in Nat
    BY <2>1, FieldFacts DEF TypeOK
  <2> QED
    BY <1>1, <2>2 DEF AdviceIInv
<1>2. CASE a \notin Numbered
  BY <1>2
<1> QED
  BY <1>1, <1>2

(* A new fence is numbered above all advice there is.                      *)
LEMMA AdviceFenced ==
    ASSUME TypeOK, AdviceIInv, fencedAt' = sequence + 1, sequence' = sequence + 1,
           Numbered' \subseteq Numbered
    PROVE  AdviceIInv'
<1> SUFFICES ASSUME NEW a \in Numbered
             PROVE  a.seq <= sequence + 1 /\ ~(a.seq > sequence + 1)
  BY DEF AdviceIInv
<1>1. a \in Advice
  BY FieldFacts DEF Numbered, OnHand, TypeOK
<1>2. a.seq \in Nat /\ sequence \in Nat /\ a.seq <= sequence
  BY <1>1, FieldFacts DEF TypeOK, AdviceIInv
<1> QED
  BY <1>2

(* The steps in which no frame and no advice is begun: all that is numbered *)
(* or in flight was so before.                                             *)
LEMMA FreshnessFrame ==
    ASSUME TypeOK, TypeOK', AdviceIInv, FrameIInv, UNCHANGED machine,
           gens.con <= gens'.con, gens.shot <= gens'.shot,
           Numbered' \subseteq Numbered, InFlight' \subseteq InFlight
    PROVE  AdviceIInv' /\ FrameIInv'
<1>1. UNCHANGED <<sequence, fencedAt, shot>> /\ sequence <= sequence' /\ gens' \in Fence
  BY DEF machine, TypeOK
<1>2. AdviceIInv'
  BY <1>1, AdviceKept
<1>3. FrameIInv'
  BY <1>1, FramesKept
<1> QED
  BY <1>2, <1>3

LEMMA FreshnessBrowser ==
    ASSUME TypeOK, TypeOK', AdviceIInv, FrameIInv, BrowserStep
    PROVE  AdviceIInv' /\ FrameIInv'
<1>1. UNCHANGED agent
  BY AgentAlone
<1>2. advice' \subseteq advice /\ OnHand' \subseteq OnHand \cup advice
  <2>1. ASSUME NEW s \in Shots, SelectSlot(s) \/ TakePhoto(s) \/ AdvanceSlot(s)
        PROVE  advice' = advice /\ OnHand' \subseteq OnHand
    BY <2>1, SilenceFacts DEF SelectSlot, TakePhoto, AdvanceSlot, rooms, OnHand
  <2>2. ASSUME NEW to, BreakLink(to)
        PROVE  advice' \subseteq advice /\ OnHand' = {}
    BY <2>2, SilenceFacts DEF BreakLink, Cuts
  <2>3. CASE HidePage \/ DropSignal \/ SdkReconnects \/ OldRoomLeft \/ Rejoin
    BY <2>3, SilenceFacts DEF HidePage, DropSignal, SdkReconnects, OldRoomLeft, Rejoin,
                              Cuts, rooms
  <2>4. CASE RenderSlot \/ RetryTimer \/ RetryConnection
    BY <2>4 DEF RenderSlot, RetryTimer, RetryConnection, ResetGuidance, screen, rooms, OnHand
  <2>5. CASE ApplyGuidance
    BY <2>5, SelectionFacts DEF ApplyGuidance, rooms, OnHand, TypeOK
  <2>6. CASE ShowPage
    BY <2>6, SelectionFacts DEF ShowPage, ResetGuidance, OnHand, TypeOK
  <2>7. CASE ReceiveState
    <3>1. Silences(Head(toBrowser).seq) \/ UNCHANGED screen
      BY <2>7 DEF ReceiveState
    <3> QED
      BY <2>7, <3>1, SilenceFacts DEF ReceiveState, screen, OnHand
  <2>8. ASSUME NEW a \in advice, ReceiveAdvice(a)
        PROVE  advice' \subseteq advice /\ OnHand' \subseteq OnHand \cup advice
    <3>1. {c \in held : c.shot # a.shot} \cup {a} \subseteq Advice
      BY DEF TypeOK
    <3>2. \/ Selects({c \in held : c.shot # a.shot} \cup {a})
          \/ UNCHANGED <<held, primary, shown>>
      BY <2>8 DEF ReceiveAdvice
    <3>3. OnHand' \subseteq OnHand \cup advice
      BY <3>1, <3>2, SelectionFacts DEF OnHand
    <3> QED
      BY <2>8, <3>3 DEF ReceiveAdvice
  <2>9. ASSUME NEW a \in advice, LoseAdvice(a)
        PROVE  advice' \subseteq advice /\ OnHand' = OnHand
    BY <2>9 DEF LoseAdvice, browser, screen, OnHand
  <2> QED
    BY <2>1, <2>2, <2>3, <2>4, <2>5, <2>6, <2>7, <2>8, <2>9 DEF BrowserStep
<1>3. UNCHANGED <<machine, gens, inference, tasks, sending>>
  BY <1>1 DEF agent, transport
<1>4. Numbered' \subseteq Numbered /\ InFlight' \subseteq InFlight
  BY <1>2, <1>3 DEF Numbered, InFlight, Judged
<1>5. gens.con \in Nat /\ gens.shot \in Nat
  BY FieldFacts DEF TypeOK
<1> QED
  BY <1>3, <1>4, <1>5, FreshnessFrame

LEMMA FreshnessEvents ==
    ASSUME TypeOK, TypeOK', AdviceIInv, FrameIInv,
           \/ HandleControl \/ BreakRoom \/ RestoreRoom \/ TakeFrame
           \/ \E c \in Codes : ProviderAnswers(c)
           \/ ProviderFails
    PROVE  AdviceIInv' /\ FrameIInv'
<1> gens.con \in Nat /\ gens.shot \in Nat /\ tasks \in Seq(Task)
  BY FieldFacts DEF TypeOK
<1>1. UNCHANGED <<machine, gens, sending, held, primary, shown, advice>>
  BY DEF HandleControl, BreakRoom, RestoreRoom, TakeFrame, ProviderAnswers,
         ProviderFails, browser, screen, rooms
<1>2. Numbered' \subseteq Numbered
  BY <1>1 DEF Numbered, OnHand
<1>3. CASE HandleControl \/ BreakRoom \/ RestoreRoom \/ TakeFrame
  <2>1. PICK t \in Task : tasks' = Append(tasks, t) /\ t.type # "result"
    <3>1. CASE HandleControl
      <4>1. Head(toAgent) \in Control
        BY <3>1 DEF HandleControl, TypeOK
      <4>2. CASE Head(toAgent).type = "set_shot"
                 /\ tasks' = Append(tasks, [type |-> "set_shot",
                                            shot |-> Head(toAgent).shot,
                                            before |-> current])
        <5>1. Head(toAgent).shot \in Shots /\ current \in Shots
          BY <4>1, <4>2, FieldFacts DEF TypeOK
        <5>2. [type |-> "set_shot", shot |-> Head(toAgent).shot, before |-> current] \in Task
          BY <5>1, RecordFacts
        <5> QED
          BY <4>2, <5>2
      <4>3. CASE RoomEvent("resync")
        BY <4>3, RecordFacts DEF RoomEvent
      <4> QED
        BY <3>1, <4>2, <4>3 DEF HandleControl
    <3>2. CASE BreakRoom \/ RestoreRoom
      BY <3>2, RecordFacts DEF BreakRoom, RestoreRoom, RoomEvent
    <3>3. CASE TakeFrame
      <4>1. [type |-> "frame", shot |-> current] \in Task
        BY RecordFacts DEF TypeOK
      <4> QED
        BY <3>3, <4>1 DEF TakeFrame
    <3> QED
      BY <1>3, <3>1, <3>2, <3>3
  <2>2. Judged' \subseteq Judged
    BY <2>1, JudgedFacts
  <2>3. UNCHANGED inference
    BY <1>3 DEF HandleControl, BreakRoom, RestoreRoom, TakeFrame
  <2>4. InFlight' \subseteq InFlight
    BY <2>2, <2>3 DEF InFlight
  <2> QED
    BY <1>1, <1>2, <2>4, FreshnessFrame
<1>4. ASSUME NEW c \in Codes, ProviderAnswers(c)
      PROVE  AdviceIInv' /\ FrameIInv'
  <2>1. inference # None /\ inference' = None
        /\ tasks' = Append(tasks, [type |-> "result", of |-> inference, code |-> c])
    BY <1>4 DEF ProviderAnswers
  <2>2. [type |-> "result", of |-> inference, code |-> c] \in Task
    BY <2>1, RecordFacts DEF TypeOK
  <2>3. Judged' \subseteq Judged \cup {inference}
    BY <2>1, <2>2, JudgedFacts
  <2>4. InFlight' \subseteq InFlight
    BY <2>1, <2>3 DEF InFlight
  <2> QED
    BY <1>1, <1>2, <2>4, FreshnessFrame
<1>5. CASE ProviderFails
  <2>1. InFlight' \subseteq InFlight
    BY <1>5 DEF ProviderFails, InFlight, Judged
  <2> QED
    BY <1>1, <1>2, <2>1, FreshnessFrame
<1> QED
  BY <1>3, <1>4, <1>5

(* A frame that begins now is behind the last fence.                        *)
LEMMA BegunFresh ==
    ASSUME TypeOK, NEW s, StartInference(s, gens, sequence)
    PROVE  /\ gens' \in Fence
           /\ gens'.con = gens.con /\ gens'.shot = gens.shot
           /\ inference'.gens = gens' /\ inference'.since >= fencedAt
<1>1. gens \in Fence /\ sequence >= fencedAt
  BY DEF TypeOK
<1> QED
  BY <1>1, FenceFacts DEF StartInference

LEMMA FreshnessRun ==
    ASSUME TypeOK, TypeOK', AdviceIInv, FrameIInv, RunTask
    PROVE  AdviceIInv' /\ FrameIInv'
<1> DEFINE t == Head(tasks)
<1> /\ gens.con \in Nat /\ gens.shot \in Nat
    /\ gens \in Fence /\ gens' \in Fence /\ sequence \in Nat /\ fencedAt \in Nat
    /\ tasks \in Seq(Task)
  BY FieldFacts DEF TypeOK
<1>1. sending = None /\ tasks # <<>> /\ tasks' = Tail(tasks) /\ UNCHANGED <<OnHand, advice>>
  BY DEF RunTask, browser, screen, rooms, OnHand
<1>2. Judged' \subseteq Judged
  BY <1>1, JudgedFacts
<1>3. UNCHANGED inference => InFlight' \subseteq InFlight
  BY <1>2 DEF InFlight
<1>4. sending' = None \/ sending'.kind # "advice" => Numbered' \subseteq Numbered
  BY <1>1 DEF Numbered
<1>5. Keep /\ UNCHANGED inference => AdviceIInv' /\ FrameIInv'
  BY <1>1, <1>3, <1>4, FreshnessFrame DEF Keep, machine
<1>6. ASSUME NEW s, ChangeShot(s), sequence' = sequence + 1, UNCHANGED inference,
             sending'.kind # "advice"
      PROVE  AdviceIInv' /\ FrameIInv'
  <2>1. fencedAt' = sequence + 1 /\ gens'.con = gens.con /\ gens'.shot = gens.shot + 1
    BY <1>6, FenceFacts DEF ChangeShot
  <2> QED
    BY <1>3, <1>4, <1>6, <2>1, AdviceFenced, FramesKept
<1>7. CASE t.type = "set_shot" /\ RunSetShot(t.shot, t.before)
  <2>1. CASE connected /\ t.shot # shot
    <3>1. ChangeShot(t.shot) /\ sequence' = sequence + 1 /\ UNCHANGED inference
          /\ sending'.kind # "advice"
      BY <1>7, <2>1 DEF RunSetShot, Announce
    <3> QED
      BY <3>1, <1>6
  <2>2. CASE ~(connected /\ t.shot # shot)
    BY <1>5, <1>7, <2>2 DEF RunSetShot
  <2> QED
    BY <2>1, <2>2
<1>8. CASE t.type = "resync" /\ RunResync
  <2>1. CASE connected
    <3>1. /\ sequence' = sequence + 1 /\ sending'.kind # "advice"
          /\ UNCHANGED <<shot, fencedAt, gens, inference>>
      BY <1>8, <2>1 DEF RunResync, Announce
    <3>2. AdviceIInv'
      BY <1>4, <3>1, AdviceKept
    <3>3. FrameIInv'
      BY <1>3, <3>1, FramesKept
    <3> QED
      BY <3>2, <3>3
  <2>2. CASE ~connected
    BY <1>5, <1>8, <2>2 DEF RunResync
  <2> QED
    BY <2>1, <2>2
<1>9. CASE t.type = "disconnected" /\ MarkDisconnected
  <2>1. UNCHANGED <<machine, sending, inference>>
        /\ (gens' = gens \/ (gens'.con = gens.con + 1 /\ gens'.shot = gens.shot))
    BY <1>9, FenceFacts DEF MarkDisconnected
  <2>2. gens.con <= gens'.con /\ gens.shot <= gens'.shot
    BY <2>1
  <2> QED
    BY <1>1, <1>3, <1>4, <2>1, <2>2, FreshnessFrame
<1>10. CASE t.type = "reconnected" /\ OnReconnected
  <2>1. CASE ~connected
    <3>1. /\ gens' = [gens EXCEPT !.con = @ + 1]
          /\ sequence' = sequence + 1 /\ sending'.kind # "advice" /\ fencedAt' = sequence + 1
          /\ UNCHANGED <<shot, inference>>
      BY <1>10, <2>1 DEF OnReconnected, Announce
    <3>2. gens'.con = gens.con + 1 /\ gens'.shot = gens.shot
      BY <3>1, FenceFacts
    <3> QED
      BY <1>3, <1>4, <3>1, <3>2, AdviceFenced, FramesKept
  <2>2. CASE connected
    BY <1>5, <1>10, <2>2 DEF OnReconnected
  <2> QED
    BY <2>1, <2>2
<1>11. CASE t.type = "frame" /\ ProcessFrame(t.shot)
  <2>1. CASE Keep /\ UNCHANGED inference
    BY <1>5, <2>1
  <2>2. CASE StartInference(t.shot, gens, sequence) /\ UNCHANGED <<machine, connected, sending>>
    <3>1. /\ gens'.con = gens.con /\ gens'.shot = gens.shot
          /\ inference'.gens = gens' /\ inference'.since >= fencedAt
      BY <2>2, BegunFresh
    <3>2. InFlight' \subseteq InFlight \cup {inference'}
      BY <1>2 DEF InFlight
    <3>3. UNCHANGED <<sequence, shot, fencedAt>>
      BY <2>2 DEF machine
    <3>4. AdviceIInv'
      BY <1>1, <1>4, <2>2, <3>3, AdviceKept
    <3>5. \A f \in InFlight' \ InFlight :
            /\ f.gens.con <= gens'.con /\ f.gens.shot <= gens'.shot
            /\ f.since >= fencedAt'
      BY <3>1, <3>2, <3>3
    <3> QED
      BY <3>1, <3>3, <3>4, <3>5, FramesKept
  <2>3. CASE /\ ChangeShot(t.shot) /\ UNCHANGED <<connected, inference>>
             /\ sequence' = sequence + 1
             /\ sending' = [kind |-> "frame_state", shot |-> t.shot,
                            event |-> [seq |-> sequence + 1, shot |-> t.shot]]
    BY <1>6, <2>3
  <2> QED
    BY <1>11, <2>1, <2>2, <2>3 DEF ProcessFrame
<1>12. CASE t.type = "result" /\ ProcessResult(t.of, t.code)
  <2>1. CASE StillValid(t.of) /\ t.code # lastCode
    <3>1. /\ sequence' = sequence + 1
          /\ sending' = [kind |-> "advice",
                         event |-> [seq |-> sequence + 1, shot |-> t.of.shot,
                                    code |-> t.code, since |-> t.of.since]]
          /\ UNCHANGED <<shot, fencedAt, gens, inference>>
      BY <1>12, <2>1 DEF ProcessResult
    <3>2. t.of \in InFlight
      BY <1>1, <1>12, JudgedFacts DEF InFlight
    <3>3. t.of.gens = gens /\ t.of.shot = shot
      BY <2>1 DEF StillValid
    <3>4. t.of.since >= fencedAt
      BY <3>2, <3>3 DEF FrameIInv
    <3>5. sending'.event.seq = sequence + 1 /\ sending'.event.since = t.of.since
          /\ sending'.event.shot = t.of.shot
      BY <3>1
    <3>6. Numbered' \subseteq Numbered \cup {sending'.event}
      BY <1>1 DEF Numbered
    <3>7. \A a \in Numbered' \ Numbered :
            a.seq <= sequence' /\ a.since >= fencedAt /\ a.shot = shot
      BY <3>1, <3>3, <3>4, <3>5, <3>6
    <3>8. AdviceIInv'
      BY <3>1, <3>7, AdviceKept
    <3>9. FrameIInv'
      BY <1>3, <3>1, FramesKept
    <3> QED
      BY <3>8, <3>9
  <2>2. CASE ~(StillValid(t.of) /\ t.code # lastCode)
    BY <1>5, <1>12, <2>2 DEF ProcessResult
  <2> QED
    BY <2>1, <2>2
<1> QED
  BY <1>7, <1>8, <1>9, <1>10, <1>11, <1>12 DEF RunTask

LEMMA FreshnessPublish ==
    ASSUME TypeOK, TypeOK', AdviceIInv, FrameIInv, PublishSucceeds \/ PublishFails
    PROVE  AdviceIInv' /\ FrameIInv'
<1> /\ gens.con \in Nat /\ gens.shot \in Nat /\ gens \in Fence /\ gens' \in Fence
    /\ sequence \in Nat
  BY FieldFacts DEF TypeOK
<1>1. UNCHANGED <<machine, OnHand, tasks>> /\ sending # None /\ sending' = None
  BY DEF PublishSucceeds, PublishFails, browser, screen, OnHand
<1>2. Numbered' \subseteq Numbered
  <2>1. \/ advice' = advice
        \/ sending.kind = "advice" /\ advice' = advice \cup {sending.event}
    BY DEF PublishSucceeds, PublishFails, Deliver, rooms
  <2> QED
    BY <1>1, <2>1 DEF Numbered
<1>3. Judged' = Judged
  BY <1>1 DEF Judged
<1>4. CASE PublishSucceeds /\ sending.kind = "frame_state"
  <2>1. StartInference(sending.shot, gens, sequence)
    BY <1>4 DEF PublishSucceeds
  <2>2. /\ gens'.con = gens.con /\ gens'.shot = gens.shot
        /\ inference'.gens = gens' /\ inference'.since >= fencedAt
    BY <2>1, BegunFresh
  <2>3. InFlight' \subseteq InFlight \cup {inference'}
    BY <1>3 DEF InFlight
  <2>4. UNCHANGED <<sequence, shot, fencedAt>>
    BY <1>1 DEF machine
  <2>5. \A f \in InFlight' \ InFlight :
          /\ f.gens.con <= gens'.con /\ f.gens.shot <= gens'.shot
          /\ f.since >= fencedAt'
    BY <2>2, <2>3, <2>4
  <2>6. AdviceIInv'
    BY <1>2, <2>4, AdviceKept
  <2> QED
    BY <2>2, <2>4, <2>5, <2>6, FramesKept
<1>5. CASE ~(PublishSucceeds /\ sending.kind = "frame_state")
  <2>1. UNCHANGED inference
        /\ (gens' = gens \/ (gens'.con = gens.con + 1 /\ gens'.shot = gens.shot))
    BY <1>5, FenceFacts DEF PublishSucceeds, PublishFails
  <2>2. InFlight' \subseteq InFlight
    BY <1>3, <2>1 DEF InFlight
  <2>3. gens.con <= gens'.con /\ gens.shot <= gens'.shot
    BY <2>1
  <2> QED
    BY <1>1, <1>2, <2>2, <2>3, FreshnessFrame
<1> QED
  BY <1>4, <1>5

(* A frame taken before a shot change or before a reconnection never speaks *)
(* after it, however late the provider answers or a publish returns (the    *)
(* generations of process_frame).                                          *)
THEOREM FreshAdvice == Spec => []AdviceIsFresh
<1>1. Init => AdviceIInv /\ FrameIInv
  <2> SUFFICES ASSUME Init PROVE AdviceIInv /\ FrameIInv
    OBVIOUS
  <2>1. Numbered = {} /\ InFlight = {}
    BY DEF Init, Numbered, OnHand, InFlight, Judged
  <2> QED
    BY <2>1 DEF AdviceIInv, FrameIInv
<1>2. TypeOK /\ TypeOK' /\ AdviceIInv /\ FrameIInv /\ [Next]_vars => AdviceIInv' /\ FrameIInv'
  <2> SUFFICES ASSUME TypeOK, TypeOK', AdviceIInv, FrameIInv, [Next]_vars
               PROVE  AdviceIInv' /\ FrameIInv'
    OBVIOUS
  <2>1. CASE BrowserStep
    BY <2>1, FreshnessBrowser
  <2>2. CASE AgentStep
    BY <2>2, FreshnessEvents, FreshnessRun, FreshnessPublish DEF AgentStep
  <2>3. CASE UNCHANGED vars
    <3>1. UNCHANGED <<machine, gens, inference, tasks, sending, OnHand, advice>>
      BY <2>3 DEF vars, browser, screen, agent, transport, rooms, OnHand
    <3>2. Numbered' = Numbered /\ InFlight' = InFlight
      BY <3>1 DEF Numbered, InFlight, Judged
    <3>3. gens.con \in Nat /\ gens.shot \in Nat
      BY FieldFacts DEF TypeOK
    <3> QED
      BY <3>1, <3>2, <3>3, FreshnessFrame
  <2> QED
    BY <2>1, <2>2, <2>3 DEF Next
<1>3. AdviceIInv => AdviceIsFresh
  BY DEF AdviceIInv, Numbered, OnHand, AdviceIsFresh
<1> QED
  BY <1>1, <1>2, <1>3, TypeCorrect, PTL DEF Spec

====
