----------------------------- MODULE LiveCamera -----------------------------
(***************************************************************************)
(* The camera and the Room it is shared in: the dialog that is open, which *)
(* is the guided capture's (GuidedCaptureCamera) or the listing's own      *)
(* (ListingView), the controller's connection with its automatic retries   *)
(* (useGuidedCaptureController), the HTTP adapter that makes one           *)
(* LiveKitAdapter per connection, and the adapter's queue of camera        *)
(* operations.  What the Agent says over the Room is in LiveGuidance.      *)
(*                                                                         *)
(* Everything runs on the browser's one thread; between two awaits nothing *)
(* else happens.  A connection is numbered, and its LiveKitAdapter has its *)
(* number; a camera stream has the number of the request it answers.       *)
(*                                                                         *)
(* External: getUserMedia, the video element, the token service and the    *)
(* LiveKit SDK, each of which may answer late or fail.  LiveKit's          *)
(* LocalVideoTrack.stop stops the camera track it was made of.             *)
(***************************************************************************)
EXTENDS Integers, Sequences, FiniteSets

CONSTANTS
    MaxStreams,     \* bound: requests for the camera
    MaxConnects,    \* bound: connections, automatic ones included
    MaxEvents,      \* bound: what seller and network do besides
    MaxRetries      \* automatic retries of scheduleReconnect (3 in the code)

ASSUME LiveCameraAssumption ==
    /\ MaxStreams \in Nat /\ MaxConnects \in Nat /\ MaxEvents \in Nat
    /\ MaxRetries \in Nat

None == 0
Streams == 1..MaxStreams
Connects == 1..MaxConnects

VARIABLES
    \* the dialog
    dialog,         \* the dialog that is open, or None
    dialogs,        \* how many there have been
    plain,          \* it is the listing's own camera (isCameraOpen of ListingView)
    starting,       \* its effect's timer is set
    asked,          \* getUserMedia requests without an answer
    requests,       \* how many there have been
    request,        \* requestIdRef: the request that counts, or None
    own,            \* streamRef
    playing,        \* play() of `own` is awaited
    camera,         \* cameraState
    told,           \* cameraMessage says that the camera is not shared
    live,           \* the streams whose track has not ended
    \* the controller
    session,        \* sessionIdRef, or None
    sessions,
    status,         \* what the seller is shown, with the automatic retries
    newest,         \* the connection connectGenerationRef stands for, or None
    suppress,       \* suppressConnectionEventsRef
    \* the HTTP adapter
    current,        \* liveKitAdapter, or None
    call,           \* call[c]: how far connect number c has come
    connects,       \* how many there have been
    \* the LiveKitAdapters and their Rooms
    adapter,
    happened        \* bounded by MaxEvents

dialogVars == <<dialog, dialogs, plain, starting, asked, requests, request, own, playing, camera>>
sessionVars == <<session, sessions>>
controllerVars == <<sessionVars, status, newest, suppress>>
httpVars == <<current, call, connects>>
vars == <<dialogVars, told, live, controllerVars, httpVars, adapter, happened>>

(* connectionState ("waiting" is connecting or reconnecting), with          *)
(* reconnectAttemptRef and whether reconnectTimerRef is set.                *)
Status == [shown : {"waiting", "connected", "disconnected"},
           attempts : 0..MaxRetries, timer : BOOLEAN]

(* One operation of an adapter's queue: share a stream for a guided dialog  *)
(* or, where nobody hears how it ends, for ListingView (None); or leave the *)
(* Room for a connection that replaces it ("next"), for the one whose       *)
(* attempt failed ("failed"), for a session that starts or stops.           *)
Op == [op : {"publish"}, stream : Streams, by : Nat]
      \cup [op : {"leave"}, why : {"next", "failed", "start", "stop"}, for : Nat]

Adapter == [state : {"connecting", "connected", "reconnecting", "disconnected"},
            listening : BOOLEAN,                         \* unsubscribe is not empty
            queue : Seq(Op),
            at : {"idle", "unpublishing", "publishing", "leaving"},
            room : {"out", "joining", "in", "reconnecting", "signal"},
            track : Streams \cup {None}]                 \* publishedCameraTrack

TypeOK ==
    /\ dialog \in 0..dialogs /\ dialogs \in Nat /\ plain \in BOOLEAN /\ starting \in BOOLEAN
    /\ asked \subseteq Streams /\ requests \in 0..MaxStreams
    /\ request \in Streams \cup {None} /\ own \in Streams \cup {None}
    /\ playing \in BOOLEAN /\ camera \in {"requesting", "ready", "error"}
    /\ told \in BOOLEAN /\ live \subseteq Streams
    /\ session \in 0..sessions /\ sessions \in Nat
    /\ status \in Status
    /\ newest \in Connects \cup {None} /\ suppress \in BOOLEAN
    /\ current \in Connects \cup {None} /\ connects \in 0..MaxConnects
    /\ call \in [Connects -> [at : {"no", "leaving", "health", "token", "joining", "cleanup", "over"},
                              session : Nat]]
    /\ adapter \in [Connects -> Adapter]
    /\ happened \in 0..MaxEvents

NewAdapter == [state |-> "disconnected", listening |-> FALSE, queue |-> <<>>,
               at |-> "idle", room |-> "out", track |-> None]

Init ==
    /\ dialog = None /\ dialogs = 0 /\ plain = FALSE /\ starting = FALSE
    /\ asked = {} /\ requests = 0 /\ request = None
    /\ own = None /\ playing = FALSE /\ camera = "requesting" /\ told = FALSE /\ live = {}
    /\ session = None /\ sessions = 0
    /\ status = [shown |-> "disconnected", attempts |-> 0, timer |-> FALSE]
    /\ newest = None /\ suppress = FALSE
    /\ current = None /\ connects = 0
    /\ call = [c \in Connects |-> [at |-> "no", session |-> None]]
    /\ adapter = [a \in Connects |-> NewAdapter]
    /\ happened = 0

Happens == happened < MaxEvents /\ happened' = happened + 1

----------------------------------------------------------------------------
(* What the controller makes of a connection's news.                       *)

(* scheduleReconnect of the session that is open. *)
ScheduleReconnect(st) ==
    IF st.timer THEN st
    ELSE IF st.attempts >= MaxRetries THEN [st EXCEPT !.shown = "disconnected"]
    ELSE [shown |-> "waiting", attempts |-> st.attempts + 1, timer |-> TRUE]

(* reportConnectionState, which every adapter ever made may call; what is   *)
(* neither "connected" nor "reconnecting" counts as a lost connection.      *)
Reported(st, news) ==
    IF session = None \/ suppress THEN st
    ELSE CASE news = "connected" -> [shown |-> "connected", attempts |-> 0, timer |-> FALSE]
           [] news = "reconnecting" -> [st EXCEPT !.shown = "waiting"]
           [] news = "connecting" -> ScheduleReconnect([st EXCEPT !.shown = "waiting"])
           [] news = "disconnected" -> ScheduleReconnect([st EXCEPT !.shown = "disconnected"])

(* setState and report tell the same of a failure, one after the other.     *)
ReportedTwice(st) == Reported(Reported(st, "disconnected"), "disconnected")

(* connect's continuations ignore all but the newest attempt.               *)
Counts(c) == newest = c /\ session = call[c].session
Caught(st, c) ==
    IF Counts(c) THEN ScheduleReconnect([st EXCEPT !.shown = "disconnected"]) ELSE st

----------------------------------------------------------------------------
(* The camera is handed to the adapter of the moment.                      *)

HandOver(as, s, by) ==
    [as EXCEPT ![current].queue = Append(@, [op |-> "publish", stream |-> s, by |-> by])]

(* What the effects of ListingView hold: the listing's own camera from the  *)
(* moment it is granted, the guided one from its first hand-over on and     *)
(* only while it is not ended.                                              *)
Offered == own # None /\ (plain \/ (~playing /\ own \in live))

(* They hand it over whenever the connection turns to "connected", and let  *)
(* nobody know how it went.                                                 *)
Turned(st, as) ==
    IF /\ st.shown = "connected" /\ status.shown # "connected"
       /\ Offered /\ current # None
    THEN HandOver(as, own, None)
    ELSE as

----------------------------------------------------------------------------
(* Connections.                                                            *)

(* LiveKitAdapter.disconnect: no more listening, and its Room is left after *)
(* the operations that wait already.                                        *)
Leaving(as, a, why, who) ==
    [as EXCEPT ![a].listening = FALSE,
                    ![a].queue = Append(@, [op |-> "leave", why |-> why, for |-> who])]

(* connect of controller and HTTP adapter up to its first await: the        *)
(* adapter of the connection before is left first.                          *)
Connect(s, as) ==
    /\ connects < MaxConnects
    /\ connects' = connects + 1 /\ newest' = connects + 1
    /\ call' = [call EXCEPT ![connects + 1] =
                    [at |-> IF current = None THEN "health" ELSE "leaving", session |-> s]]
    /\ current' = None
    /\ adapter' = IF current = None THEN as
                  ELSE Leaving(as, current, "next", connects + 1)

(* start, from the panel in phase "idle", which the listing's own camera    *)
(* covers: the Room of an earlier session that is still there is left       *)
(* before the session connects.                                             *)
Start ==
    /\ session = None /\ ~plain /\ Happens
    /\ sessions' = sessions + 1 /\ session' = sessions + 1
    /\ status' = [status EXCEPT !.shown = "waiting", !.timer = FALSE]
    /\ IF current = None
       THEN Connect(sessions + 1, adapter) /\ suppress' = FALSE
       ELSE /\ newest' = None /\ suppress' = TRUE /\ current' = None
            /\ adapter' = Leaving(adapter, current, "start", sessions + 1)
            /\ UNCHANGED <<connects, call>>
    /\ UNCHANGED <<dialogVars, told, live>>

(* retryConnection: the seller asks for it, or the device is online again.  *)
RetryConnection ==
    /\ session # None /\ Happens
    /\ Connect(session, adapter)
    /\ status' = [shown |-> "waiting", attempts |-> 0, timer |-> FALSE]
    /\ UNCHANGED <<dialogVars, told, live, sessionVars, suppress>>

(* The timer of scheduleReconnect. *)
TimerFires ==
    /\ status.timer
    /\ Connect(session, adapter)
    /\ status' = [status EXCEPT !.shown = "waiting", !.timer = FALSE]
    /\ UNCHANGED <<dialogVars, told, live, sessionVars, suppress, happened>>

(* handleOffline. *)
GoOffline ==
    /\ session # None /\ Happens
    /\ status' = Reported(status, "disconnected")
    /\ UNCHANGED <<dialogVars, told, live, sessionVars, newest, suppress, httpVars, adapter>>

(* stop of the controller, and disconnect of the HTTP adapter. *)
StopSession ==
    /\ session # None /\ Happens
    /\ session' = None /\ newest' = None
    /\ status' = [shown |-> "disconnected", attempts |-> 0, timer |-> FALSE]
    /\ current' = None
    /\ adapter' = IF current = None THEN adapter ELSE Leaving(adapter, current, "stop", None)
    /\ UNCHANGED <<sessions, suppress, call, connects>>

(* The service's health is asked first; then the connection gets an adapter *)
(* of its own, which says that it is connecting.                            *)
HealthAnswers(c) ==
    /\ call[c].at = "health"
    /\ call' = [call EXCEPT ![c].at = "token"]
    /\ current' = c
    /\ adapter' = [adapter EXCEPT ![c].state = "connecting"]
    /\ status' = Reported(status, "connecting")
    /\ UNCHANGED <<dialogVars, told, live, sessionVars, newest, suppress, connects, happened>>

(* Variant: nobody catches the failed request. *)
HealthFailsUnheard(c) ==
    /\ call[c].at = "health"
    /\ call' = [call EXCEPT ![c].at = "over"]
    /\ UNCHANGED <<dialogVars, told, live, controllerVars, current, connects, adapter, happened>>

HealthFails(c) ==
    /\ call[c].at = "health"
    /\ call' = [call EXCEPT ![c].at = "over"]
    /\ status' = Caught(status, c)
    /\ UNCHANGED <<dialogVars, told, live, sessionVars, newest, suppress, current,
                   connects, adapter, happened>>

(* The token is there: whoever has left this adapter meanwhile, it listens  *)
(* to its Room and joins it.                                                *)
TokenArrives(c) ==
    /\ call[c].at = "token"
    /\ call' = [call EXCEPT ![c].at = "joining"]
    /\ adapter' = [adapter EXCEPT ![c].listening = TRUE, ![c].room = "joining",
                                  ![c].state = "connecting"]
    /\ status' = Reported(status, "connecting")
    /\ UNCHANGED <<dialogVars, told, live, sessionVars, newest, suppress, current, connects, happened>>

(* To leave a Room that is being joined is to give up joining it.          *)
BeingLeft(a) == \E i \in DOMAIN adapter[a].queue : adapter[a].queue[i].op = "leave"

Joins(c) ==
    /\ call[c].at = "joining" /\ adapter[c].room = "joining" /\ ~BeingLeft(c)
    /\ call' = [call EXCEPT ![c].at = "over"]
    /\ status' = IF Counts(c) THEN [shown |-> "connected", attempts |-> 0, timer |-> FALSE]
                 ELSE Reported(status, "connected")
    /\ adapter' = Turned(status', [adapter EXCEPT ![c].room = "in", ![c].state = "connected"])
    /\ UNCHANGED <<dialogVars, told, live, sessionVars, newest, suppress, current, connects, happened>>

(* No token, or no Room: one that is left while it is joined rejects too.   *)
(* The adapter says so, and is left before the controller hears of it.      *)
JoinFails(c) ==
    /\ call[c].at \in {"token", "joining"}
    /\ call' = [call EXCEPT ![c].at = "cleanup"]
    /\ adapter' = [Leaving(adapter, c, "failed", c) EXCEPT ![c].state = "disconnected", ![c].room = "out"]
    /\ status' = ReportedTwice(status)
    /\ UNCHANGED <<dialogVars, told, live, sessionVars, newest, suppress, current, connects, happened>>

----------------------------------------------------------------------------
(* The SDK's news of a Room that is listened to.                           *)

Breaks(a) ==
    /\ adapter[a].listening /\ adapter[a].room \in {"in", "signal"} /\ Happens
    /\ adapter' = [adapter EXCEPT ![a].room = "reconnecting", ![a].state = "reconnecting"]
    /\ status' = Reported(status, "reconnecting")
    /\ UNCHANGED <<dialogVars, told, live, sessionVars, newest, suppress, httpVars>>

(* A drop of the signalling alone is mapped to "connecting", and that is a  *)
(* lost connection to the controller.                                       *)
SignalDrops(a) ==
    /\ adapter[a].listening /\ adapter[a].room = "in" /\ Happens
    /\ adapter' = [adapter EXCEPT ![a].room = "signal", ![a].state = "connecting"]
    /\ status' = Reported(status, "connecting")
    /\ UNCHANGED <<dialogVars, told, live, sessionVars, newest, suppress, httpVars>>

Recovers(a) ==
    /\ adapter[a].listening /\ adapter[a].room \in {"reconnecting", "signal"}
    /\ status' = Reported(status, "connected")
    /\ adapter' = Turned(status', [adapter EXCEPT ![a].room = "in", ![a].state = "connected"])
    /\ UNCHANGED <<dialogVars, told, live, sessionVars, newest, suppress, httpVars, happened>>

(* The SDK may end the tracks of a Room that it gives up. *)
IsLost(a) ==
    /\ adapter[a].listening /\ adapter[a].room \in {"in", "reconnecting", "signal"}
    /\ Happens
    /\ adapter' = [adapter EXCEPT ![a].room = "out", ![a].state = "disconnected"]
    /\ status' = Reported(status, "disconnected")
    /\ live' \in {live, live \ {adapter[a].track}}
    /\ UNCHANGED <<dialogVars, told, sessionVars, newest, suppress, httpVars>>

----------------------------------------------------------------------------
(* enqueueCameraOperation: an adapter's operations one after the other.    *)

First(a, op) == adapter[a].queue # <<>> /\ Head(adapter[a].queue).op = op
Sharing(a) == Head(adapter[a].queue).stream
At(a, stage) == adapter' = [adapter EXCEPT ![a].at = stage]

(* The operation is over, the next may begin, whether it threw or not.      *)
After(a, new) == [adapter EXCEPT ![a] = [new EXCEPT !.at = "idle", !.queue = Tail(@)]]
Over(a, new) == adapter' = After(a, new)

(* publishCameraStream threw: a guided dialog that handed the stream over   *)
(* says so if it is still there.                                            *)
Tell(a) ==
    LET by == Head(adapter[a].queue).by IN told' = (told \/ (by # None /\ dialog = by))

(* What is shared already need not be shared again. *)
BeginSharing(a) ==
    IF adapter[a].track = Sharing(a) THEN Over(a, adapter[a])
    ELSE At(a, IF adapter[a].track = None THEN "publishing" ELSE "unpublishing")

(* Variant: without a Room the operation returns instead of throwing. *)
BeginPublishQuietly(a) ==
    /\ First(a, "publish") /\ adapter[a].at = "idle"
    /\ IF adapter[a].state # "connected"
       THEN Over(a, adapter[a])
       ELSE BeginSharing(a)
    /\ UNCHANGED <<dialogVars, told, live, controllerVars, httpVars, happened>>

BeginPublish(a) ==
    /\ First(a, "publish") /\ adapter[a].at = "idle"
    /\ \/ /\ adapter[a].state # "connected"
          /\ Over(a, adapter[a]) /\ Tell(a)
       \/ /\ adapter[a].state = "connected"
          /\ BeginSharing(a)
          /\ UNCHANGED told
    /\ UNCHANGED <<dialogVars, live, controllerVars, httpVars, happened>>

(* unpublishPublishedCameraTrack ends the track, whether the Room let go of *)
(* it or not.                                                               *)
Unpublishes(a, ok) ==
    LET without == [adapter[a] EXCEPT !.track = None] IN
    /\ adapter[a].at = "unpublishing"
    /\ live' = live \ {adapter[a].track}
    /\ \/ /\ First(a, "leave")
          /\ adapter' = [adapter EXCEPT ![a] = [without EXCEPT !.at = "leaving"]]
          /\ UNCHANGED told
       \/ /\ First(a, "publish") /\ ok
          /\ adapter' = [adapter EXCEPT ![a] = [without EXCEPT !.at = "publishing"]]
          /\ UNCHANGED told
       \/ /\ First(a, "publish") /\ ~ok
          /\ Over(a, without) /\ Tell(a)
    /\ UNCHANGED <<dialogVars, controllerVars, httpVars, happened>>

Publishes(a) ==
    /\ adapter[a].at = "publishing" /\ adapter[a].room # "out"
    /\ Over(a, [adapter[a] EXCEPT !.track = Sharing(a)])
    /\ UNCHANGED <<dialogVars, told, live, controllerVars, httpVars, happened>>

(* A track that cannot be published is ended, on the seller's screen too.   *)
PublishFails(a) ==
    /\ adapter[a].at = "publishing"
    /\ live' = live \ {Sharing(a)}
    /\ Over(a, adapter[a]) /\ Tell(a)
    /\ UNCHANGED <<dialogVars, controllerVars, httpVars, happened>>

BeginLeave(a) ==
    /\ First(a, "leave") /\ adapter[a].at = "idle"
    /\ At(a, IF adapter[a].track = None THEN "leaving" ELSE "unpublishing")
    /\ UNCHANGED <<dialogVars, told, live, controllerVars, httpVars, happened>>

(* The Room is left, the adapter says so, and whoever left it goes on.      *)
Leaves(a) ==
    LET why == Head(adapter[a].queue).why
        who == Head(adapter[a].queue).for
        gone == [adapter[a] EXCEPT !.state = "disconnected", !.room = "out"]
        heard == Reported(status, "disconnected")
    IN
    /\ adapter[a].at = "leaving"
    /\ \/ /\ why = "next"
          /\ call' = [call EXCEPT ![who].at = "health"]
          /\ status' = heard
          /\ Over(a, gone)
          /\ UNCHANGED <<newest, suppress, current, connects>>
       \/ /\ why = "failed"
          /\ call' = [call EXCEPT ![who].at = "over"]
          /\ current' = IF current = a THEN None ELSE current
          /\ status' = Caught(heard, who)
          /\ Over(a, gone)
          /\ UNCHANGED <<newest, suppress, connects>>
       \/ /\ why = "stop"
          /\ status' = ReportedTwice(status)
          /\ Over(a, gone)
          /\ UNCHANGED <<newest, suppress, httpVars>>
       \/ /\ why = "start" /\ who # session
          /\ suppress' = FALSE
          /\ status' = ReportedTwice(status)
          /\ Over(a, gone)
          /\ UNCHANGED <<newest, httpVars>>
       \/ /\ why = "start" /\ who = session
          /\ suppress' = FALSE
          /\ Connect(session, After(a, gone))
          /\ status' = [ReportedTwice(status) EXCEPT !.shown = "waiting"]
    /\ UNCHANGED <<dialogVars, told, live, sessionVars, happened>>

----------------------------------------------------------------------------
(* The dialog.                                                             *)

(* stopStream; a play() that is awaited rejects when its stream goes.       *)
StopStream ==
    /\ live' = live \ {own} /\ own' = None /\ playing' = FALSE

(* requestCamera up to getUserMedia. *)
RequestCamera ==
    /\ requests < MaxStreams
    /\ requests' = requests + 1 /\ request' = requests + 1
    /\ asked' = asked \cup {requests + 1}
    /\ StopStream
    /\ camera' = "requesting" /\ told' = FALSE /\ starting' = FALSE
    /\ UNCHANGED <<dialog, dialogs, plain, controllerVars, httpVars, adapter>>

(* Only the guided camera needs a session. *)
OpenCamera ==
    /\ dialog = None /\ Happens
    /\ plain' \in {TRUE, session = None}
    /\ dialog' = dialogs + 1 /\ dialogs' = dialogs + 1
    /\ starting' = TRUE /\ camera' = "requesting" /\ told' = FALSE
    /\ UNCHANGED <<asked, requests, request, own, playing, live, controllerVars, httpVars, adapter>>

(* The effect's cleanup: no request that is under way counts any more.      *)
CleanUp == request' = None /\ StopStream

(* The other camera is chosen: the effect runs again. *)
FlipCamera ==
    /\ dialog # None /\ Happens
    /\ CleanUp /\ starting' = TRUE
    /\ UNCHANGED <<dialog, dialogs, plain, asked, requests, camera, told, controllerVars, httpVars, adapter>>

CloseDialog ==
    /\ dialog' = None /\ plain' = FALSE /\ CleanUp /\ starting' = FALSE
    /\ camera' = "requesting" /\ told' = FALSE
    /\ UNCHANGED <<dialogs, asked, requests>>

CloseCamera ==
    /\ dialog # None /\ Happens /\ CloseDialog
    /\ UNCHANGED <<controllerVars, httpVars, adapter>>

(* handleStop closes the camera; a page that is hidden for good stops the   *)
(* session and leaves the dialog open.                                      *)
Stop == ~plain /\ StopSession /\ CloseDialog
HidePage == StopSession /\ UNCHANGED <<dialogVars, told, live>>

EffectTimer == starting /\ RequestCamera /\ UNCHANGED happened
RetryCamera ==
    dialog # None /\ ~plain /\ camera = "error" /\ ~starting /\ Happens /\ RequestCamera

(* A stream that is there is played; the listing's own is handed over now.  *)
Plays(s) ==
    /\ own' = s /\ live' = live \cup {s} /\ playing' = TRUE
    /\ adapter' = IF plain /\ current # None THEN HandOver(adapter, s, None) ELSE adapter

(* Variant: only whether the dialog is there is asked, not which request    *)
(* the stream answers.                                                      *)
CameraGrantedWhileOpen(s) ==
    /\ s \in asked /\ asked' = asked \ {s}
    /\ IF dialog # None
       THEN Plays(s)
       ELSE UNCHANGED <<own, live, playing, adapter>>
    /\ UNCHANGED <<dialog, dialogs, plain, starting, requests, request, camera, told,
                   controllerVars, httpVars, happened>>

(* A stream nobody waits for any more is ended at once. *)
CameraGranted(s) ==
    /\ s \in asked /\ asked' = asked \ {s}
    /\ IF s = request
       THEN Plays(s)
       ELSE UNCHANGED <<own, live, playing, adapter>>
    /\ UNCHANGED <<dialog, dialogs, plain, starting, requests, request, camera, told,
                   controllerVars, httpVars, happened>>

CameraDenied(s) ==
    /\ s \in asked /\ asked' = asked \ {s}
    /\ camera' = IF s = request THEN "error" ELSE camera
    /\ UNCHANGED <<dialog, dialogs, plain, starting, requests, request, own, playing, told, live,
                   controllerVars, httpVars, adapter, happened>>

(* The picture is there: a guided stream is handed over, and without an     *)
(* adapter the seller is told that the camera is not shared.                *)
CameraPlays ==
    /\ playing /\ playing' = FALSE /\ camera' = "ready"
    /\ \/ plain /\ UNCHANGED <<told, adapter>>
       \/ ~plain /\ current = None /\ told' = TRUE /\ UNCHANGED adapter
       \/ ~plain /\ current # None /\ adapter' = HandOver(adapter, own, dialog) /\ UNCHANGED told
    /\ UNCHANGED <<dialog, dialogs, plain, starting, asked, requests, request, own, live,
                   controllerVars, httpVars, happened>>

PlayFails ==
    /\ playing /\ StopStream /\ camera' = "error"
    /\ UNCHANGED <<dialog, dialogs, plain, starting, asked, requests, request, told,
                   controllerVars, httpVars, adapter, happened>>

----------------------------------------------------------------------------
DialogStep ==
    \/ OpenCamera \/ FlipCamera \/ CloseCamera \/ EffectTimer \/ RetryCamera
    \/ \E s \in Streams : CameraGranted(s) \/ CameraDenied(s)
    \/ CameraPlays \/ PlayFails

ControllerStep ==
    \/ Start \/ RetryConnection \/ TimerFires \/ GoOffline \/ Stop \/ HidePage

ConnectionStep(c) ==
    \/ HealthAnswers(c) \/ HealthFails(c) \/ TokenArrives(c) \/ Joins(c) \/ JoinFails(c)
    \/ Breaks(c) \/ SignalDrops(c) \/ Recovers(c) \/ IsLost(c)

OperationStep(a) ==
    \/ BeginPublish(a) \/ Publishes(a) \/ PublishFails(a)
    \/ \E ok \in BOOLEAN : Unpublishes(a, ok)
    \/ BeginLeave(a) \/ Leaves(a)

Next ==
    \/ DialogStep \/ ControllerStep
    \/ \E c \in Connects : ConnectionStep(c) \/ OperationStep(c)

(* The SDK answers every operation of the queue, one way or the other.      *)
Fairness == \A a \in Connects : WF_vars(OperationStep(a))

Spec == Init /\ [][Next]_vars /\ Fairness

----------------------------------------------------------------------------
(* Properties.                                                             *)

(* However often the seller closes, opens and turns the camera while the    *)
(* browser still asks for permission, a camera is on only as the stream of  *)
(* the dialog that is open: a stream that arrives late is ended at once.    *)
CameraGoesDark == live \subseteq {own} /\ (dialog = None => own = None)

(* Whatever old connections report into a session, connecting and           *)
(* reconnecting are shown only while something is under way that ends them, *)
(* and a connection only while some Room is joined or a start, which heeds  *)
(* no news until the Room before is left, is about to connect anew.         *)
Starting ==
    \E a \in Connects : \E i \in DOMAIN adapter[a].queue :
        LET op == adapter[a].queue[i] IN op.op = "leave" /\ op.why = "start" /\ op.for = session
UnderWay ==
    \/ status.timer \/ Starting
    \/ newest # None /\ call[newest].at # "over"
    \/ \E a \in Connects : adapter[a].listening /\ adapter[a].room = "reconnecting"
ShownIsSo ==
    /\ session # None /\ status.shown = "waiting" => UnderWay
    /\ status.shown = "connected" =>
         Starting \/ \E a \in Connects : adapter[a].listening /\ adapter[a].room = "in"

(* A camera that its guided dialog hands over comes to be shared in a Room, *)
(* or the dialog says that it is not, whatever operations before it failed  *)
(* and however often ListingView hands the same stream over besides.  (How  *)
(* ListingView's own hand-overs end, nobody is told.)                       *)
Handed(s) ==
    \E a \in Connects : \E i \in DOMAIN adapter[a].queue :
        LET op == adapter[a].queue[i] IN op.op = "publish" /\ op.stream = s /\ op.by # None
SharedOrTold ==
    \A s \in Streams :
        Handed(s) ~> (own # s \/ told \/ \E a \in Connects : adapter[a].track = s)
=============================================================================
