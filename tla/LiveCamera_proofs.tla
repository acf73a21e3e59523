------------------------- MODULE LiveCamera_proofs -------------------------
(* For any number of requests, connections and events: the camera goes     *)
(* dark with its dialog, and what the seller is shown of the connection is *)
(* so.  The first needs the dialog alone; the second the types of all      *)
(* parts, what one step does to the adapters' queues and Rooms, and what    *)
(* joins session, newest connection and suppressed news (ShownIInv).       *)
EXTENDS LiveCamera, FrameProcessor, TLAPS

cameraVars == <<dialog, dialogs, starting, asked, requests, request, own, live>>

(* What the dialog asks of the browser: answers are awaited only for        *)
(* requests that were made, and one counts only while the dialog is open.   *)
AskedInv ==
    /\ requests \in Nat /\ dialogs \in Nat
    /\ asked \subseteq Streams
    /\ starting => dialog # None
    /\ request # None => dialog # None

(* A stream is the dialog's own only once its request has been answered.    *)
OwnInv ==
    /\ None \notin live
    /\ request \in asked => own = None

DarkInv == AskedInv /\ OwnInv /\ CameraGoesDark

LEMMA InitDark == Init => DarkInv
  BY DEF Init, DarkInv, AskedInv, OwnInv, CameraGoesDark, None

(* A request ends the stream of the one before.                            *)
LEMMA RequestDark ==
  ASSUME DarkInv, RequestCamera, dialog # None
  PROVE  DarkInv'
<1>1. dialog' = dialog /\ dialogs' = dialogs /\ own' = None /\ starting' = FALSE /\ live' = live \ {own}
  BY DEF RequestCamera, StopStream
<1>2. requests' = requests + 1 /\ asked' = asked \cup {requests + 1} /\ requests < MaxStreams
  BY DEF RequestCamera
<1>3. requests + 1 \in Streams
  BY <1>2, LiveCameraAssumption DEF DarkInv, AskedInv, Streams
<1>4. AskedInv'
  BY <1>1, <1>2, <1>3 DEF DarkInv, AskedInv
<1>5. OwnInv'
  BY <1>1 DEF DarkInv, OwnInv
<1>6. CameraGoesDark'
  BY <1>1 DEF DarkInv, CameraGoesDark
<1> QED BY <1>4, <1>5, <1>6 DEF DarkInv

(* After the cleanup no request counts and no stream is left.              *)
LEMMA CleanUpDark ==
  ASSUME DarkInv, CleanUp, asked' = asked, requests' = requests,
         dialogs' = dialogs, starting' => dialog' # None
  PROVE  DarkInv'
<1>1. own' = None /\ request' = None /\ live' = live \ {own}
  BY DEF CleanUp, StopStream
<1>2. AskedInv'
  BY <1>1 DEF DarkInv, AskedInv
<1>3. OwnInv' /\ CameraGoesDark'
  BY <1>1 DEF DarkInv, OwnInv, CameraGoesDark
<1> QED BY <1>2, <1>3 DEF DarkInv

(* The stream that counts becomes the dialog's, any other never goes live. *)
LEMMA GrantedDark ==
  ASSUME DarkInv, NEW s \in Streams, CameraGranted(s)
  PROVE  DarkInv'
<1>1. s # None /\ s \in asked /\ asked' = asked \ {s}
      /\ UNCHANGED <<dialog, dialogs, starting, requests, request>>
  BY LiveCameraAssumption DEF CameraGranted, Streams, None
<1>2. AskedInv'
  BY <1>1 DEF DarkInv, AskedInv
<1>3. CASE s = request
  <2>1. own' = s /\ live' = live \cup {s}
    BY <1>3 DEF CameraGranted, Plays
  <2>2. own = None /\ live = {}
    BY <1>1, <1>3 DEF DarkInv, OwnInv, CameraGoesDark
  <2>3. dialog # None
    BY <1>1, <1>3 DEF DarkInv, AskedInv
  <2>4. OwnInv' /\ CameraGoesDark'
    BY <1>1, <1>3, <2>1, <2>2, <2>3 DEF OwnInv, CameraGoesDark
  <2> QED BY <1>2, <2>4 DEF DarkInv
<1>4. CASE s # request
  <2>1. own' = own /\ live' = live
    BY <1>4 DEF CameraGranted
  <2> QED BY <1>1, <1>2, <2>1 DEF DarkInv, OwnInv, CameraGoesDark
<1> QED BY <1>3, <1>4

(* Whoever ends tracks, the SDK or a stop, makes nothing live.             *)
LEMMA EndedDark ==
  ASSUME DarkInv, live' \subseteq live, asked' \subseteq asked,
         UNCHANGED <<dialog, dialogs, starting, requests, request, own>>
  PROVE  DarkInv'
  BY DEF DarkInv, AskedInv, OwnInv, CameraGoesDark

LEMMA DialogDark == DarkInv /\ DialogStep => DarkInv'
<1> SUFFICES ASSUME DarkInv, DialogStep PROVE DarkInv'
  OBVIOUS
<1>1. CASE OpenCamera
  <2>1. dialog = None /\ starting' = TRUE /\ UNCHANGED <<asked, requests, request, own, live>>
    BY <1>1 DEF OpenCamera
  <2>2. request = None /\ own = None
    BY <2>1 DEF DarkInv, AskedInv, CameraGoesDark
  <2>3. dialog' = dialogs + 1 /\ dialogs' = dialogs + 1
    BY <1>1 DEF OpenCamera
  <2>4. AskedInv'
    BY <2>1, <2>3 DEF DarkInv, AskedInv, None
  <2>5. OwnInv' /\ CameraGoesDark'
    BY <2>1, <2>2 DEF DarkInv, OwnInv, CameraGoesDark
  <2> QED BY <2>4, <2>5 DEF DarkInv
<1>2. CASE FlipCamera
  BY <1>2, CleanUpDark DEF FlipCamera
<1>3. CASE CloseCamera
  BY <1>3, CleanUpDark DEF CloseCamera, CloseDialog
<1>4. CASE EffectTimer
  BY <1>4, RequestDark DEF EffectTimer, DarkInv, AskedInv
<1>5. CASE RetryCamera
  BY <1>5, RequestDark DEF RetryCamera
<1>6. ASSUME NEW s \in Streams, CameraGranted(s) PROVE DarkInv'
  BY <1>6, GrantedDark
<1>7. ASSUME NEW s \in Streams, CameraDenied(s) PROVE DarkInv'
  BY <1>7, EndedDark DEF CameraDenied
<1>8. CASE CameraPlays
  BY <1>8, EndedDark DEF CameraPlays
<1>9. CASE PlayFails
  <2>1. own' = None /\ live' = live \ {own} /\ UNCHANGED <<dialog, dialogs, starting, asked, requests, request>>
    BY <1>9 DEF PlayFails, StopStream
  <2> QED BY <2>1 DEF DarkInv, AskedInv, OwnInv, CameraGoesDark
<1> QED
  BY <1>1, <1>2, <1>3, <1>4, <1>5, <1>6, <1>7, <1>8, <1>9 DEF DialogStep

LEMMA ControllerDark == DarkInv /\ ControllerStep => DarkInv'
<1> SUFFICES ASSUME DarkInv, ControllerStep PROVE DarkInv'
  OBVIOUS
<1>1. CASE Start \/ RetryConnection \/ TimerFires \/ GoOffline \/ HidePage
  <2>1. UNCHANGED cameraVars
    BY <1>1 DEF Start, RetryConnection, TimerFires, GoOffline, HidePage, dialogVars, cameraVars
  <2> QED BY <2>1, EndedDark DEF cameraVars
<1>2. CASE Stop
  BY <1>2, CleanUpDark DEF Stop, CloseDialog
<1> QED BY <1>1, <1>2 DEF ControllerStep

LEMMA ConnectionDark ==
  ASSUME DarkInv, NEW c \in Connects, ConnectionStep(c) \/ OperationStep(c)
  PROVE  DarkInv'
<1>1. UNCHANGED <<dialog, dialogs, starting, asked, requests, request, own>>
  <2>1. CASE ConnectionStep(c)
    BY <2>1 DEF ConnectionStep, HealthAnswers, HealthFails, TokenArrives, Joins, JoinFails,
       Breaks, SignalDrops, Recovers, IsLost, dialogVars
  <2>2. CASE OperationStep(c)
    BY <2>2 DEF OperationStep, BeginPublish, Unpublishes, Publishes, PublishFails,
       BeginLeave, Leaves, dialogVars
  <2> QED BY <2>1, <2>2
<1>2. live' \subseteq live
  <2>1. CASE ConnectionStep(c)
    BY <2>1 DEF ConnectionStep, HealthAnswers, HealthFails, TokenArrives, Joins, JoinFails,
       Breaks, SignalDrops, Recovers, IsLost
  <2>2. CASE OperationStep(c)
    BY <2>2 DEF OperationStep, BeginPublish, Unpublishes, Publishes, PublishFails,
       BeginLeave, Leaves
  <2> QED BY <2>1, <2>2
<1> QED BY <1>1, <1>2, EndedDark

(* The camera is on only as the stream of the dialog that is open, however  *)
(* late the browser grants it and whatever connections do meanwhile.        *)
THEOREM CameraAlwaysGoesDark == Spec => []CameraGoesDark
<1>1. DarkInv /\ [Next]_vars => DarkInv'
  <2> SUFFICES ASSUME DarkInv, [Next]_vars PROVE DarkInv'
    OBVIOUS
  <2>1. CASE Next
    BY <2>1, DialogDark, ControllerDark, ConnectionDark DEF Next
  <2>2. CASE UNCHANGED vars
    BY <2>2, EndedDark DEF vars, dialogVars
  <2> QED BY <2>1, <2>2
<1>2. DarkInv => CameraGoesDark
  BY DEF DarkInv
<1> QED BY InitDark, <1>1, <1>2, PTL DEF Spec

-----------------------------------------------------------------------------
(* An operation of the queue that has begun is its first, and of its kind. *)
QueueRuns(a) ==
    /\ adapter[a].at # "idle" => adapter[a].queue # <<>>
    /\ adapter[a].at = "publishing" => First(a, "publish")
    /\ adapter[a].at = "leaving" => First(a, "leave")

(* The three parts of TypeOK; a picture is awaited of a stream only.       *)
DialogTypes ==
    /\ dialog \in 0..dialogs /\ dialogs \in Nat /\ plain \in BOOLEAN /\ starting \in BOOLEAN
    /\ asked \subseteq Streams /\ requests \in 0..MaxStreams
    /\ request \in Streams \cup {None} /\ own \in Streams \cup {None}
    /\ playing \in BOOLEAN /\ camera \in {"requesting", "ready", "error"}
    /\ told \in BOOLEAN /\ live \subseteq Streams
    /\ happened \in 0..MaxEvents
    /\ playing => own # None

ControllerTypes ==
    /\ session \in 0..sessions /\ sessions \in Nat
    /\ status \in Status
    /\ newest \in Connects \cup {None} /\ suppress \in BOOLEAN
    /\ current \in Connects \cup {None} /\ connects \in 0..MaxConnects
    /\ call \in [Connects -> [at : {"no", "leaving", "health", "token", "joining", "cleanup", "over"},
                              session : Nat]]

AdapterTypes == adapter \in [Connects -> Adapter] /\ \A a \in Connects : QueueRuns(a)

CameraTypeInv == DialogTypes /\ ControllerTypes /\ AdapterTypes

(* An adapter that goes on as it was, or is to be left after what it does. *)
Stays(old, new) ==
    /\ new.at = old.at /\ new.room = old.room
    /\ \/ new.queue = old.queue /\ new.listening = old.listening
       \/ \E why \in {"next", "failed", "start", "stop"}, who \in Nat :
             /\ why \in {"start", "failed"} => who # None
             /\ new.queue = Append(old.queue, [op |-> "leave", why |-> why, for |-> who])

(* A start or a failed attempt that leaves a Room names its session or     *)
(* connection.                                                             *)
NamedIn(queue) ==
    \A i \in DOMAIN queue :
        queue[i].op = "leave" /\ queue[i].why \in {"start", "failed"} => queue[i].for # None
LeavesNamed(a) == NamedIn(adapter[a].queue)

(* A Room that is not out yet is listened to, or about to be left.         *)
HeardOrLeft(a) == adapter[a].room # "out" => adapter[a].listening \/ BeingLeft(a)

(* The newest connection is of the session, an automatic retry too; and the *)
(* news of a session are kept from it only while its start is leaving the  *)
(* Room before.                                                            *)
SessionInv ==
    /\ status.timer => session # None
    /\ session = None => status.shown = "disconnected"
    /\ newest # None => session # None /\ call[newest].session = session
    /\ suppress /\ session # None => Starting

ShownIInv ==
    /\ SessionInv /\ ShownIsSo
    /\ \A a \in Connects : LeavesNamed(a) /\ HeardOrLeft(a)

(* The operation that a session's start waits for.                         *)
IsStart(op) == op.op = "leave" /\ op.why = "start" /\ op.for = session

(* A queue that keeps such an operation.                                   *)
QueueKeeps(x) ==
    \/ adapter'[x].queue = adapter[x].queue
    \/ \E o \in Op : adapter'[x].queue = Append(adapter[x].queue, o)
    \/ /\ adapter[x].queue # <<>> /\ ~IsStart(Head(adapter[x].queue))
       /\ adapter'[x].queue = Tail(adapter[x].queue)
-----------------------------------------------------------------------------
(* What an automatic retry, or the news of a connection, makes of what the *)
(* seller is shown: waiting only with a timer that is set.                 *)
LEMMA ScheduleFacts ==
  ASSUME NEW st \in Status
  PROVE  /\ ScheduleReconnect(st) \in Status
         /\ ScheduleReconnect(st).shown = "waiting" => ScheduleReconnect(st).timer
         /\ st.shown # "connected" => ScheduleReconnect(st).shown # "connected"
<1>1. CASE st.timer
  BY <1>1 DEF ScheduleReconnect
<1>2. CASE ~st.timer /\ st.attempts >= MaxRetries
  <2>1. ScheduleReconnect(st) = [st EXCEPT !.shown = "disconnected"]
    BY <1>2 DEF ScheduleReconnect
  <2> QED BY <2>1 DEF Status
<1>3. CASE ~st.timer /\ ~(st.attempts >= MaxRetries)
  <2>1. ScheduleReconnect(st) = [shown |-> "waiting", attempts |-> st.attempts + 1, timer |-> TRUE]
    BY <1>3 DEF ScheduleReconnect
  <2>2. st.attempts + 1 \in 0..MaxRetries
    BY <1>3, LiveCameraAssumption DEF Status
  <2> QED BY <2>1, <2>2 DEF Status
<1> QED BY <1>1, <1>2, <1>3

Hidden == session = None \/ suppress

LEMMA ReportedFacts ==
  ASSUME NEW st \in Status,
         NEW news \in {"connected", "reconnecting", "connecting", "disconnected"}
  PROVE  /\ Reported(st, news) \in Status
         /\ Hidden => Reported(st, news) = st
         /\ ~Hidden /\ news = "connected" =>
               Reported(st, news).shown = "connected" /\ ~Reported(st, news).timer
         /\ ~Hidden /\ news = "reconnecting" =>
               Reported(st, news).shown = "waiting" /\ Reported(st, news).timer = st.timer
         /\ ~Hidden /\ news \in {"connecting", "disconnected"} =>
               /\ Reported(st, news).shown # "connected"
               /\ Reported(st, news).shown = "waiting" => Reported(st, news).timer
<1> DEFINE waiting == [st EXCEPT !.shown = "waiting"]
           lost == [st EXCEPT !.shown = "disconnected"]
           connected == [shown |-> "connected", attempts |-> 0, timer |-> FALSE]
<1>1. /\ waiting \in Status /\ waiting.shown = "waiting" /\ waiting.timer = st.timer
      /\ lost \in Status /\ lost.shown = "disconnected"
      /\ connected \in Status
  BY LiveCameraAssumption DEF Status
<1> HIDE DEF waiting, lost
<1>2. CASE Hidden
  BY <1>2 DEF Hidden, Reported
<1>3. CASE ~Hidden
  <2>1. CASE news = "connected"
    BY <1>1, <1>3, <2>1 DEF Hidden, Reported
  <2>2. CASE news = "reconnecting"
    <3>1. Reported(st, news) = waiting
      BY <1>3, <2>2 DEF Hidden, Reported, waiting
    <3> QED BY <1>1, <1>3, <2>2, <3>1
  <2>3. CASE news = "connecting"
    <3>1. Reported(st, news) = ScheduleReconnect(waiting)
      BY <1>3, <2>3 DEF Hidden, Reported, waiting
    <3> QED BY <1>1, <1>3, <2>3, <3>1, ScheduleFacts
  <2>4. CASE news = "disconnected"
    <3>1. Reported(st, news) = ScheduleReconnect(lost)
      BY <1>3, <2>4 DEF Hidden, Reported, lost
    <3> QED BY <1>1, <1>3, <2>4, <3>1, ScheduleFacts
  <2> QED BY <2>1, <2>2, <2>3, <2>4
<1> QED BY <1>2, <1>3

LEMMA ReportedTwiceFacts ==
  ASSUME NEW st \in Status
  PROVE  /\ ReportedTwice(st) \in Status
         /\ Hidden => ReportedTwice(st) = st
         /\ ~Hidden => /\ ReportedTwice(st).shown # "connected"
                       /\ ReportedTwice(st).shown = "waiting" => ReportedTwice(st).timer
BY ReportedFacts DEF ReportedTwice

LEMMA CaughtFacts ==
  ASSUME NEW st \in Status, NEW c
  PROVE  /\ Caught(st, c) \in Status
         /\ \/ ~Counts(c) /\ Caught(st, c) = st
            \/ /\ Counts(c)
               /\ Caught(st, c).shown # "connected"
               /\ Caught(st, c).shown = "waiting" => Caught(st, c).timer
<1> DEFINE lost == [st EXCEPT !.shown = "disconnected"]
<1>1. lost \in Status /\ lost.shown = "disconnected"
  BY DEF Status
<1>2. \/ ~Counts(c) /\ Caught(st, c) = st
      \/ Counts(c) /\ Caught(st, c) = ScheduleReconnect(lost)
  BY DEF Caught
<1> HIDE DEF lost
<1> QED BY <1>1, <1>2, ScheduleFacts

(* What goes into a queue and out of it.                                   *)
LEMMA QueueFacts ==
  ASSUME NEW q \in Seq(Op), NEW o \in Op
  PROVE  /\ Append(q, o) \in Seq(Op) /\ Append(q, o) # <<>>
         /\ \A i \in DOMAIN q : i \in DOMAIN Append(q, o) /\ Append(q, o)[i] = q[i]
         /\ Len(q) + 1 \in DOMAIN Append(q, o) /\ Append(q, o)[Len(q) + 1] = o
         /\ q # <<>> => Head(Append(q, o)) = Head(q)
         /\ q # <<>> => /\ Tail(q) \in Seq(Op) /\ Head(q) \in Op
                        /\ \A i \in DOMAIN q : i = 1 \/ (i - 1 \in DOMAIN Tail(q) /\ Tail(q)[i - 1] = q[i])
                        /\ Head(q) = q[1]
<1>1. Append(q, o) \in Seq(Op) /\ Append(q, o) # <<>>
  OBVIOUS
<1>2. /\ DOMAIN q = 1 .. Len(q) /\ Len(q) \in Nat
      /\ DOMAIN Append(q, o) = 1 .. (Len(q) + 1)
      /\ \A i \in 1 .. Len(q) : Append(q, o)[i] = q[i]
      /\ Append(q, o)[Len(q) + 1] = o
  OBVIOUS
<1>3. q # <<>> => Head(Append(q, o)) = Head(q) /\ Head(q) = q[1] /\ Head(q) \in Op
  OBVIOUS
<1>4. q # <<>> => Tail(q) \in Seq(Op)
  OBVIOUS
<1>5. q # <<>> => \A i \in DOMAIN q : i = 1 \/ (i - 1 \in DOMAIN Tail(q) /\ Tail(q)[i - 1] = q[i])
  BY <1>2
<1> QED BY <1>1, <1>2, <1>3, <1>4, <1>5

(* An adapter that is to be left keeps what it does, and no longer listens. *)
LEMMA LeavingFacts ==
  ASSUME NEW as \in [Connects -> Adapter], NEW a \in Connects,
         NEW why \in {"next", "failed", "start", "stop"}, NEW who \in Nat,
         why \in {"start", "failed"} => who # None
  PROVE  LET op == [op |-> "leave", why |-> why, for |-> who]
             new == Leaving(as, a, why, who)
         IN  /\ new \in [Connects -> Adapter]
             /\ \A x \in Connects \ {a} : new[x] = as[x]
             /\ ~new[a].listening /\ new[a].queue = Append(as[a].queue, op)
             /\ new[a].room = as[a].room /\ new[a].at = as[a].at
             /\ new[a].state = as[a].state /\ new[a].track = as[a].track
             /\ as[a].queue \in Seq(Op) /\ op \in Op
             /\ Stays(as[a], new[a])
<1> DEFINE op == [op |-> "leave", why |-> why, for |-> who]
           left == [as[a] EXCEPT !.listening = FALSE, !.queue = Append(@, op)]
<1>1. op \in Op
  BY DEF Op
<1>2. as[a] \in Adapter /\ as[a].queue \in Seq(Op)
  BY DEF Adapter
<1>3. left \in Adapter /\ Append(as[a].queue, op) \in Seq(Op)
  <2> HIDE DEF op
  <2>1. Append(as[a].queue, op) \in Seq(Op)
    BY <1>1, <1>2, QueueFacts
  <2> QED BY <1>2, <2>1 DEF Adapter
<1>4. Leaving(as, a, why, who) = [as EXCEPT ![a] = left]
  BY DEF Leaving
<1>5. /\ ~left.listening /\ left.queue = Append(as[a].queue, op)
      /\ left.room = as[a].room /\ left.at = as[a].at
      /\ left.state = as[a].state /\ left.track = as[a].track
  BY <1>2 DEF Adapter
<1>6. Stays(as[a], left)
  BY <1>5 DEF Stays
<1> HIDE DEF left
<1> QED BY <1>1, <1>2, <1>3, <1>4, <1>5, <1>6

(* An operation that is over leaves the queue, and nothing else changes.   *)
LEMMA AfterFacts ==
  ASSUME AdapterTypes, NEW a \in Connects, NEW new \in Adapter, new.queue # <<>>
  PROVE  /\ After(a, new) \in [Connects -> Adapter]
         /\ \A x \in Connects \ {a} : After(a, new)[x] = adapter[x]
         /\ After(a, new)[a].at = "idle" /\ After(a, new)[a].queue = Tail(new.queue)
         /\ After(a, new)[a].listening = new.listening /\ After(a, new)[a].room = new.room
<1> DEFINE over == [new EXCEPT !.at = "idle", !.queue = Tail(@)]
<1>1. Tail(new.queue) \in Seq(Op)
  BY DEF Adapter
<1>2. over \in Adapter /\ over.at = "idle" /\ over.queue = Tail(new.queue)
      /\ over.listening = new.listening /\ over.room = new.room
  BY <1>1 DEF Adapter
<1>3. After(a, new) = [adapter EXCEPT ![a] = over]
  BY DEF After
<1> HIDE DEF over
<1> QED BY <1>2, <1>3 DEF AdapterTypes

LEMMA TypesAre == CameraTypeInv => TypeOK
BY DEF CameraTypeInv, DialogTypes, ControllerTypes, AdapterTypes, TypeOK

(* A camera that is handed over is one more operation of a queue.           *)
Grows(old, new) ==
    /\ new.at = old.at
    /\ \/ new.queue = old.queue
       \/ \E o \in Op : o.op = "publish" /\ new.queue = Append(old.queue, o)
SameRoom(old, new) == new.room = old.room /\ new.listening = old.listening
HandedOver(as, new) ==
    /\ new \in [Connects -> Adapter]
    /\ \A x \in Connects : Grows(as[x], new[x]) /\ SameRoom(as[x], new[x])

LEMMA HandOverFacts ==
  ASSUME NEW as \in [Connects -> Adapter], NEW s \in Streams, NEW by \in Nat,
         current \in Connects
  PROVE  HandedOver(as, HandOver(as, s, by))
<1> DEFINE op == [op |-> "publish", stream |-> s, by |-> by]
           new == [as[current] EXCEPT !.queue = Append(@, op)]
<1>1. op \in Op /\ op.op = "publish"
  BY DEF Op
<1>2. as[current] \in Adapter /\ as[current].queue \in Seq(Op)
  BY DEF Adapter
<1>3. HandOver(as, s, by) = [as EXCEPT ![current] = new]
  BY DEF HandOver
<1> HIDE DEF op
<1>4. Append(as[current].queue, op) \in Seq(Op)
  BY <1>1, <1>2, QueueFacts
<1>5. /\ new \in Adapter /\ new.queue = Append(as[current].queue, op)
      /\ new.at = as[current].at /\ new.room = as[current].room
      /\ new.listening = as[current].listening
  BY <1>2, <1>4 DEF Adapter
<1> HIDE DEF new
<1>6. /\ HandOver(as, s, by) \in [Connects -> Adapter] /\ HandOver(as, s, by)[current] = new
      /\ \A x \in Connects \ {current} : HandOver(as, s, by)[x] = as[x]
  BY <1>3, <1>5
<1>7. Grows(as[current], new) /\ SameRoom(as[current], new)
  BY <1>1, <1>5 DEF Grows, SameRoom
<1>8. \A x \in Connects \ {current} : Grows(as[x], as[x]) /\ SameRoom(as[x], as[x])
  BY DEF Grows, SameRoom
<1> QED BY <1>6, <1>7, <1>8 DEF HandedOver

(* So is one that is handed over when the connection has come back.         *)
LEMMA TurnedFacts ==
  ASSUME DialogTypes, ControllerTypes, NEW as \in [Connects -> Adapter], NEW st
  PROVE  HandedOver(as, Turned(st, as))
<1>1. CASE Turned(st, as) = as
  BY <1>1 DEF HandedOver, Grows, SameRoom
<1>2. CASE current # None /\ own # None /\ Turned(st, as) = HandOver(as, own, None)
  <2>1. current \in Connects /\ own \in Streams /\ None \in Nat
    BY <1>2 DEF DialogTypes, ControllerTypes, None
  <2> QED BY <1>2, <2>1, HandOverFacts
<1> QED BY <1>1, <1>2 DEF Turned, Offered

(* Operations run on where the queue has only grown.                       *)
LEMMA CalmRuns ==
  ASSUME AdapterTypes, adapter' \in [Connects -> Adapter],
         \A x \in Connects :
            /\ adapter'[x].at = adapter[x].at
            /\ \/ adapter'[x].queue = adapter[x].queue
               \/ \E o \in Op : adapter'[x].queue = Append(adapter[x].queue, o)
  PROVE  AdapterTypes'
<1>1. ASSUME NEW x \in Connects PROVE QueueRuns(x)'
  <2>1. adapter[x].queue \in Seq(Op) /\ QueueRuns(x)
    BY DEF AdapterTypes, Adapter
  <2>2. CASE adapter'[x].queue = adapter[x].queue
    BY <2>1, <2>2 DEF QueueRuns, First
  <2>3. ASSUME NEW o \in Op, adapter'[x].queue = Append(adapter[x].queue, o)
        PROVE  QueueRuns(x)'
    BY <2>1, <2>3, QueueFacts DEF QueueRuns, First
  <2> QED BY <2>2, <2>3
<1> QED BY <1>1 DEF AdapterTypes

LEMMA GrowsRuns ==
  ASSUME AdapterTypes, adapter' \in [Connects -> Adapter],
         \A x \in Connects : Grows(adapter[x], adapter'[x])
  PROVE  AdapterTypes'
BY CalmRuns DEF Grows

LEMMA StaysRuns ==
  ASSUME AdapterTypes, adapter' \in [Connects -> Adapter],
         \A x \in Connects : Stays(adapter[x], adapter'[x])
  PROVE  AdapterTypes'
<1>1. \A why \in {"next", "failed", "start", "stop"}, who \in Nat :
        [op |-> "leave", why |-> why, for |-> who] \in Op
  BY DEF Op
<1> QED BY <1>1, CalmRuns DEF Stays

(* A connection that begins is the newest, and is under way; the adapter   *)
(* before it is left.                                                      *)
LEMMA ConnectFacts ==
  ASSUME ControllerTypes, NEW s \in Nat, NEW as \in [Connects -> Adapter], Connect(s, as)
  PROVE  /\ connects' \in 0..MaxConnects /\ current' = None
         /\ newest' \in Connects /\ newest' # None /\ newest' <= connects'
         /\ call' \in [Connects -> [at : {"no", "leaving", "health", "token", "joining", "cleanup", "over"},
                                    session : Nat]]
         /\ call'[newest'].at # "over" /\ call'[newest'].session = s
         /\ adapter' \in [Connects -> Adapter]
         /\ \A x \in Connects : Stays(as[x], adapter'[x])
<1>1. /\ connects \in 0..MaxConnects /\ connects < MaxConnects /\ MaxConnects \in Nat
      /\ current \in Connects \cup {None}
  BY LiveCameraAssumption DEF ControllerTypes, Connect
<1>2. connects + 1 \in Connects /\ connects + 1 # None /\ connects + 1 <= connects'
      /\ connects' \in 0..MaxConnects /\ newest' = connects + 1 /\ current' = None
  BY <1>1 DEF Connects, None, Connect
<1> DEFINE new == [at |-> IF current = None THEN "health" ELSE "leaving", session |-> s]
<1>3. call' = [call EXCEPT ![connects + 1] = new]
  BY DEF Connect
<1>4. /\ new \in [at : {"no", "leaving", "health", "token", "joining", "cleanup", "over"},
                  session : Nat]
      /\ new.at # "over" /\ new.session = s
  OBVIOUS
<1> HIDE DEF new
<1>5. /\ call' \in [Connects -> [at : {"no", "leaving", "health", "token", "joining", "cleanup", "over"},
                                 session : Nat]]
      /\ call'[connects + 1] = new
  BY <1>2, <1>3, <1>4 DEF ControllerTypes
<1>6. adapter' \in [Connects -> Adapter] /\ \A x \in Connects : Stays(as[x], adapter'[x])
  <2>1. CASE current = None
    BY <2>1 DEF Connect, Stays
  <2>2. CASE current # None
    <3>1. adapter' = Leaving(as, current, "next", connects + 1) /\ current \in Connects
      BY <1>1, <2>2 DEF Connect
    <3>2. connects + 1 \in Nat
      BY <1>1
    <3>3. \A x \in Connects : Stays(as[x], as[x])
      BY DEF Stays
    <3>4. \A x \in Connects \ {current} : adapter'[x] = as[x]
      BY <3>1 DEF Leaving
    <3>5. adapter' \in [Connects -> Adapter] /\ Stays(as[current], adapter'[current])
      <4>1. Leaving(as, current, "next", connects + 1) \in [Connects -> Adapter]
        BY <3>1, <3>2, LeavingFacts
      <4>2. Stays(as[current], Leaving(as, current, "next", connects + 1)[current])
        BY <3>1, <3>2, LeavingFacts
      <4> QED BY <3>1, <4>1, <4>2
    <3> QED BY <3>3, <3>4, <3>5
  <2> QED BY <2>1, <2>2
<1> QED BY <1>2, <1>4, <1>5, <1>6

LEMMA HappensFacts ==
  ASSUME happened \in 0..MaxEvents, Happens \/ UNCHANGED happened
  PROVE  happened' \in 0..MaxEvents
BY LiveCameraAssumption DEF Happens

LEMMA StreamFacts == None \notin Streams /\ None \notin Connects /\ Streams \subseteq Nat
                     /\ Connects \subseteq Nat /\ None = 0
BY LiveCameraAssumption DEF Streams, Connects, None

(* The dialog keeps its types, and what it hands over is a stream.         *)
LEMMA DialogTypesStep ==
  ASSUME DialogTypes, [Next]_vars
  PROVE  DialogTypes'
<1> USE StreamFacts
<1>1. CASE UNCHANGED vars
  BY <1>1 DEF vars, dialogVars, DialogTypes
<1>2. ASSUME UNCHANGED <<dialogVars, told>>, live' \subseteq live, happened' \in 0..MaxEvents
      PROVE  DialogTypes'
  BY <1>2 DEF dialogVars, DialogTypes
<1>3. ASSUME RequestCamera, happened' \in 0..MaxEvents
      PROVE  DialogTypes'
  <2>1. requests + 1 \in Streams /\ requests + 1 \in 0..MaxStreams
    BY <1>3, LiveCameraAssumption DEF RequestCamera, DialogTypes, Streams
  <2> QED BY <1>3, <2>1 DEF RequestCamera, StopStream, DialogTypes
<1>4. CASE OpenCamera
  <2>1. dialogs + 1 \in Nat /\ dialogs + 1 \in 0..(dialogs + 1)
    BY DEF DialogTypes
  <2> QED BY <1>4, <2>1, HappensFacts DEF OpenCamera, DialogTypes
<1>5. CASE FlipCamera
  BY <1>5, HappensFacts DEF FlipCamera, CleanUp, StopStream, DialogTypes
<1>6. ASSUME CloseDialog, happened' \in 0..MaxEvents
      PROVE  DialogTypes'
  <2>1. None \in 0..dialogs
    BY DEF DialogTypes
  <2> QED BY <1>6, <2>1 DEF CloseDialog, CleanUp, StopStream, DialogTypes
<1>7. CASE CloseCamera
  BY <1>6, <1>7, HappensFacts DEF CloseCamera, DialogTypes
<1>8. CASE EffectTimer \/ RetryCamera
  BY <1>3, <1>8, HappensFacts DEF EffectTimer, RetryCamera, DialogTypes
<1>9. ASSUME NEW s \in Streams, CameraGranted(s) \/ CameraDenied(s)
      PROVE  DialogTypes'
  <2>1. CASE CameraGranted(s) /\ s = request
    <3>1. /\ own' = s /\ live' = live \cup {s} /\ playing' = TRUE /\ asked' \subseteq asked
          /\ UNCHANGED <<dialog, dialogs, plain, starting, requests, request, camera, told, happened>>
      BY <2>1 DEF CameraGranted, Plays
    <3> QED BY <3>1 DEF DialogTypes
  <2>2. CASE CameraGranted(s) /\ s # request
    <3>1. /\ own' = own /\ live' = live /\ playing' = playing /\ asked' \subseteq asked
          /\ UNCHANGED <<dialog, dialogs, plain, starting, requests, request, camera, told, happened>>
      BY <2>2 DEF CameraGranted
    <3> QED BY <3>1 DEF DialogTypes
  <2>3. CASE CameraDenied(s)
    BY <2>3 DEF CameraDenied, DialogTypes
  <2> QED BY <1>9, <2>1, <2>2, <2>3
<1>10. CASE CameraPlays
  BY <1>10 DEF CameraPlays, DialogTypes
<1>11. CASE PlayFails
  BY <1>11 DEF PlayFails, StopStream, DialogTypes
<1>12. CASE Start \/ RetryConnection \/ TimerFires \/ GoOffline \/ HidePage
  <2>1. happened' \in 0..MaxEvents
    BY <1>12, HappensFacts DEF DialogTypes, Start, RetryConnection, TimerFires, GoOffline,
       HidePage, StopSession
  <2> QED BY <1>2, <1>12, <2>1 DEF Start, RetryConnection, TimerFires, GoOffline, HidePage
<1>13. CASE Stop
  BY <1>6, <1>13, HappensFacts DEF Stop, StopSession, DialogTypes
<1>14. ASSUME NEW c \in Connects, ConnectionStep(c) PROVE DialogTypes'
  <2>1. happened' \in 0..MaxEvents
    BY <1>14, HappensFacts DEF DialogTypes, ConnectionStep, HealthAnswers, HealthFails,
       TokenArrives, Joins, JoinFails, Breaks, SignalDrops, Recovers, IsLost
  <2> QED BY <1>2, <1>14, <2>1 DEF ConnectionStep, HealthAnswers, HealthFails, TokenArrives,
       Joins, JoinFails, Breaks, SignalDrops, Recovers, IsLost
<1>15. ASSUME NEW a \in Connects, OperationStep(a) PROVE DialogTypes'
  <2>1. happened' \in 0..MaxEvents /\ UNCHANGED dialogVars /\ live' \subseteq live
    BY <1>15 DEF DialogTypes, OperationStep, BeginPublish, Unpublishes, Publishes, PublishFails,
       BeginLeave, Leaves
  <2>2. told' \in BOOLEAN
    <3>1. told' = told \/ Tell(a)
      BY <1>15 DEF OperationStep, BeginPublish, Unpublishes, Publishes, PublishFails,
         BeginLeave, Leaves
    <3>2. Tell(a) => told' \in BOOLEAN
      BY Zenon DEF Tell
    <3> QED BY <3>1, <3>2 DEF DialogTypes
  <2> QED BY <2>1, <2>2 DEF dialogVars, DialogTypes
<1>16. CASE DialogStep
  BY <1>4, <1>5, <1>7, <1>8, <1>9, <1>10, <1>11, <1>16 DEF DialogStep
<1>17. CASE ControllerStep
  BY <1>12, <1>13, <1>17 DEF ControllerStep
<1> QED BY <1>1, <1>14, <1>15, <1>16, <1>17 DEF Next

(* The status keeps its type whatever the SDK and the timers say.          *)
LEMMA ControllerTypesStep ==
  ASSUME ControllerTypes, AdapterTypes, [Next]_vars
  PROVE  ControllerTypes'
<1> USE StreamFacts
<1>0. /\ status \in Status /\ session \in Nat /\ sessions \in Nat
      /\ adapter \in [Connects -> Adapter]
  BY DEF ControllerTypes, AdapterTypes
<1>1. CASE UNCHANGED vars
  BY <1>1 DEF vars, controllerVars, sessionVars, httpVars, ControllerTypes
<1>2. ASSUME UNCHANGED <<controllerVars, httpVars>>
      PROVE  ControllerTypes'
  BY <1>2 DEF controllerVars, sessionVars, httpVars, ControllerTypes
<1>3. CASE DialogStep
  BY <1>2, <1>3 DEF DialogStep, OpenCamera, FlipCamera, CloseCamera, EffectTimer, RetryCamera,
     RequestCamera, CameraGranted, CameraDenied, CameraPlays, PlayFails
<1>4. CASE Start
  <2>1. /\ session' = sessions + 1 /\ sessions' = sessions + 1
        /\ status' = [status EXCEPT !.shown = "waiting", !.timer = FALSE]
    BY <1>4 DEF Start
  <2>2. status' \in Status /\ session' \in 0..sessions' /\ sessions' \in Nat /\ sessions + 1 \in Nat
    <3>1. [status EXCEPT !.shown = "waiting", !.timer = FALSE] \in Status
      BY <1>0 DEF Status
    <3> QED BY <1>0, <2>1, <3>1
  <2>3. CASE Connect(sessions + 1, adapter) /\ suppress' = FALSE
    BY <1>0, <2>2, <2>3, ConnectFacts DEF ControllerTypes
  <2>4. CASE /\ newest' = None /\ suppress' = TRUE /\ current' = None
             /\ UNCHANGED <<connects, call>>
    BY <2>2, <2>4 DEF ControllerTypes
  <2> QED BY <1>4, <2>3, <2>4 DEF Start
<1>5. CASE RetryConnection \/ TimerFires
  <2>1. Connect(session, adapter) /\ UNCHANGED <<session, sessions, suppress>>
    BY <1>5 DEF RetryConnection, TimerFires, sessionVars
  <2>2. status' \in Status
    <3>1. [shown |-> "waiting", attempts |-> 0, timer |-> FALSE] \in Status
      BY LiveCameraAssumption DEF Status
    <3>2. [status EXCEPT !.shown = "waiting", !.timer = FALSE] \in Status
      BY <1>0 DEF Status
    <3> QED BY <1>5, <3>1, <3>2 DEF RetryConnection, TimerFires
  <2> QED BY <1>0, <2>1, <2>2, ConnectFacts DEF ControllerTypes
<1>6. CASE GoOffline
  BY <1>0, <1>6, ReportedFacts DEF GoOffline, sessionVars, httpVars, ControllerTypes
<1>7. ASSUME StopSession PROVE ControllerTypes'
  <2>1. [shown |-> "disconnected", attempts |-> 0, timer |-> FALSE] \in Status
    BY LiveCameraAssumption DEF Status
  <2> QED BY <1>0, <1>7, <2>1 DEF StopSession, ControllerTypes
<1>8. ASSUME NEW c \in Connects, ConnectionStep(c) PROVE ControllerTypes'
  <2>1. ASSUME status' \in Status, UNCHANGED <<sessionVars, newest, suppress, connects>>,
               current' \in {current, c},
               \/ call' = call
               \/ \E stage \in {"token", "joining", "cleanup", "over"} :
                     call' = [call EXCEPT ![c].at = stage]
        PROVE  ControllerTypes'
    BY <2>1 DEF sessionVars, ControllerTypes
  <2>2. CASE HealthAnswers(c)
    BY <1>0, <2>1, <2>2, ReportedFacts DEF HealthAnswers
  <2>3. CASE HealthFails(c)
    BY <1>0, <2>1, <2>3, CaughtFacts DEF HealthFails
  <2>4. CASE TokenArrives(c)
    BY <1>0, <2>1, <2>4, ReportedFacts DEF TokenArrives
  <2>5. CASE Joins(c)
    <3>1. [shown |-> "connected", attempts |-> 0, timer |-> FALSE] \in Status
      BY LiveCameraAssumption DEF Status
    <3> QED BY <1>0, <2>1, <2>5, <3>1, ReportedFacts DEF Joins
  <2>6. CASE JoinFails(c)
    BY <1>0, <2>1, <2>6, ReportedTwiceFacts DEF JoinFails
  <2>7. CASE Breaks(c) \/ SignalDrops(c) \/ Recovers(c) \/ IsLost(c)
    BY <1>0, <2>1, <2>7, ReportedFacts DEF Breaks, SignalDrops, Recovers, IsLost, httpVars
  <2> QED BY <1>8, <2>2, <2>3, <2>4, <2>5, <2>6, <2>7 DEF ConnectionStep
<1>9. ASSUME NEW a \in Connects, Leaves(a) PROVE ControllerTypes'
  <2> DEFINE who == Head(adapter[a].queue).for
             heard == Reported(status, "disconnected")
  <2>1. /\ heard \in Status /\ ReportedTwice(status) \in Status
        /\ Caught(heard, who) \in Status
        /\ [ReportedTwice(status) EXCEPT !.shown = "waiting"] \in Status
    <3>1. heard \in Status /\ ReportedTwice(status) \in Status
      BY <1>0, ReportedFacts, ReportedTwiceFacts
    <3>2. [ReportedTwice(status) EXCEPT !.shown = "waiting"] \in Status
      BY <3>1 DEF Status
    <3> QED BY <3>1, <3>2, CaughtFacts
  <2>2. ASSUME status' \in Status, UNCHANGED <<sessionVars, newest, connects>>,
               suppress' \in BOOLEAN, current' \in {current, None},
               \/ call' = call
               \/ \E stage \in {"health", "over"} : call' = [call EXCEPT ![who].at = stage]
        PROVE  ControllerTypes'
    BY <2>2 DEF sessionVars, ControllerTypes
  <2>3. CASE ~(Head(adapter[a].queue).why = "start" /\ who = session)
    <3>1. /\ status' \in {heard, Caught(heard, who), ReportedTwice(status)}
          /\ UNCHANGED <<sessionVars, newest, connects>>
          /\ suppress' \in {suppress, FALSE} /\ current' \in {current, None}
          /\ \/ call' = call
             \/ \E stage \in {"health", "over"} : call' = [call EXCEPT ![who].at = stage]
      BY <1>9, <2>3 DEF Leaves, httpVars
    <3>2. suppress' \in BOOLEAN
      BY <3>1 DEF ControllerTypes
    <3> HIDE DEF heard, who
    <3> QED BY <2>1, <2>2, <3>1, <3>2
  <2>4. CASE /\ suppress' = FALSE /\ Connect(session, After(a, [adapter[a] EXCEPT !.state = "disconnected", !.room = "out"]))
             /\ status' = [ReportedTwice(status) EXCEPT !.shown = "waiting"]
    <3> DEFINE gone == [adapter[a] EXCEPT !.state = "disconnected", !.room = "out"]
    <3>1. gone \in Adapter /\ gone.queue # <<>>
      <4>1. adapter[a] \in Adapter /\ adapter[a].queue # <<>>
        BY <1>9 DEF AdapterTypes, Leaves, QueueRuns
      <4> QED BY <4>1 DEF Adapter
    <3>2. After(a, gone) \in [Connects -> Adapter]
      BY <1>9, <3>1, AfterFacts
    <3>3. UNCHANGED sessionVars
      BY <1>9 DEF Leaves
    <3> HIDE DEF gone
    <3>4. Connect(session, After(a, gone))
      BY <2>4 DEF gone
    <3> QED BY <1>0, <2>1, <2>4, <3>2, <3>3, <3>4, ConnectFacts DEF ControllerTypes, sessionVars
  <2> QED BY <1>9, <2>3, <2>4 DEF Leaves
<1>10. ASSUME NEW a \in Connects, OperationStep(a), ~Leaves(a) PROVE ControllerTypes'
  BY <1>2, <1>10 DEF OperationStep, BeginPublish, Unpublishes, Publishes, PublishFails, BeginLeave
<1>11. CASE ControllerStep
  BY <1>4, <1>5, <1>6, <1>7, <1>11 DEF ControllerStep, Stop, HidePage
<1> QED BY <1>1, <1>3, <1>8, <1>9, <1>10, <1>11 DEF Next

(* A step of a connection changes what its adapter says and hears only.    *)
LEMMA NewsTypes ==
  ASSUME DialogTypes, ControllerTypes, AdapterTypes,
         NEW c \in Connects, ConnectionStep(c), ~JoinFails(c)
  PROVE  /\ AdapterTypes'
         /\ \A x \in Connects : Grows(adapter[x], adapter'[x])
         /\ \A x \in Connects \ {c} : SameRoom(adapter[x], adapter'[x])
<1>1. /\ adapter \in [Connects -> Adapter] /\ adapter[c] \in Adapter
  BY DEF AdapterTypes
<1> DEFINE Says(new) == [adapter EXCEPT ![c] = new]
<1>2. ASSUME NEW new \in Adapter, new.queue = adapter[c].queue, new.at = adapter[c].at,
             HandedOver(Says(new), adapter')
      PROVE  /\ AdapterTypes'
             /\ \A x \in Connects : Grows(adapter[x], adapter'[x])
             /\ \A x \in Connects \ {c} : SameRoom(adapter[x], adapter'[x])
  <2>1. /\ Says(new) \in [Connects -> Adapter] /\ Says(new)[c] = new
        /\ \A x \in Connects \ {c} : Says(new)[x] = adapter[x]
    BY <1>1, <1>2
  <2> HIDE DEF Says
  <2>2. adapter' \in [Connects -> Adapter] /\ \A x \in Connects : Grows(adapter[x], adapter'[x])
    BY <1>2, <2>1 DEF HandedOver, Grows
  <2>3. \A x \in Connects \ {c} : SameRoom(adapter[x], adapter'[x])
    BY <1>2, <2>1 DEF HandedOver
  <2> QED BY <2>2, <2>3, GrowsRuns
<1>8. ASSUME NEW new \in Adapter PROVE HandedOver(Says(new), Says(new))
  <2>1. Says(new) \in [Connects -> Adapter]
    BY <1>1
  <2> QED BY <2>1 DEF HandedOver, Grows, SameRoom
<1> HIDE DEF Says
<1>3. CASE HealthAnswers(c)
  <2> DEFINE new == [adapter[c] EXCEPT !.state = "connecting"]
  <2>1. new \in Adapter /\ new.queue = adapter[c].queue /\ new.at = adapter[c].at
    BY <1>1 DEF Adapter
  <2>2. adapter' = Says(new)
    BY <1>3 DEF HealthAnswers, Says
  <2> HIDE DEF new
  <2> QED BY <1>2, <1>8, <2>1, <2>2
<1>4. CASE HealthFails(c)
  <2>1. adapter' = adapter
    BY <1>4 DEF HealthFails
  <2> QED BY <1>1, <2>1, GrowsRuns DEF Grows, SameRoom
<1>5. CASE TokenArrives(c)
  <2> DEFINE new == [adapter[c] EXCEPT !.listening = TRUE, !.room = "joining", !.state = "connecting"]
  <2>1. new \in Adapter /\ new.queue = adapter[c].queue /\ new.at = adapter[c].at
    BY <1>1 DEF Adapter
  <2>2. adapter' = Says(new)
    BY <1>5 DEF TokenArrives, Says
  <2> HIDE DEF new
  <2> QED BY <1>2, <1>8, <2>1, <2>2
<1>6. ASSUME NEW room \in {"in", "reconnecting", "signal", "out"},
             NEW state \in {"connected", "reconnecting", "connecting", "disconnected"},
             \/ adapter' = [adapter EXCEPT ![c].room = room, ![c].state = state]
             \/ adapter' = Turned(status', [adapter EXCEPT ![c].room = room, ![c].state = state])
      PROVE  /\ AdapterTypes'
             /\ \A x \in Connects : Grows(adapter[x], adapter'[x])
             /\ \A x \in Connects \ {c} : SameRoom(adapter[x], adapter'[x])
  <2> DEFINE new == [adapter[c] EXCEPT !.room = room, !.state = state]
  <2>1. new \in Adapter /\ new.queue = adapter[c].queue /\ new.at = adapter[c].at
    BY <1>1 DEF Adapter
  <2>2. [adapter EXCEPT ![c].room = room, ![c].state = state] = Says(new)
    BY DEF Says
  <2> HIDE DEF new
  <2>3. Says(new) \in [Connects -> Adapter]
    BY <1>1, <2>1 DEF Says
  <2>4. HandedOver(Says(new), adapter')
    <3>1. adapter' = Says(new) \/ adapter' = Turned(status', Says(new))
      BY <1>6, <2>2
    <3>2. HandedOver(Says(new), Says(new))
      BY <1>8, <2>1
    <3>3. HandedOver(Says(new), Turned(status', Says(new)))
      BY <2>3, TurnedFacts
    <3> QED BY <3>1, <3>2, <3>3
  <2> QED BY <1>2, <2>1, <2>4
<1>7. CASE Joins(c) \/ Breaks(c) \/ SignalDrops(c) \/ Recovers(c) \/ IsLost(c)
  BY <1>6, <1>7 DEF Joins, Breaks, SignalDrops, Recovers, IsLost
<1> QED BY <1>3, <1>4, <1>5, <1>7 DEF ConnectionStep

(* An adapter whose connection failed is to be left.                       *)
LEMMA JoinFailsFacts ==
  ASSUME AdapterTypes, NEW c \in Connects, JoinFails(c)
  PROVE  /\ adapter' \in [Connects -> Adapter]
         /\ \A x \in Connects \ {c} : adapter'[x] = adapter[x]
         /\ adapter'[c].room = "out"
         /\ adapter'[c].queue = Append(adapter[c].queue, [op |-> "leave", why |-> "failed", for |-> c])
         /\ AdapterTypes'
<1> DEFINE left == Leaving(adapter, c, "failed", c)
           new == [left[c] EXCEPT !.state = "disconnected", !.room = "out"]
           op == [op |-> "leave", why |-> "failed", for |-> c]
<1>1. adapter \in [Connects -> Adapter] /\ c \in Nat
  BY StreamFacts DEF AdapterTypes
<1>2. /\ left \in [Connects -> Adapter] /\ \A x \in Connects \ {c} : left[x] = adapter[x]
      /\ left[c].queue = Append(adapter[c].queue, op) /\ left[c].at = adapter[c].at
      /\ op \in Op
  BY <1>1, StreamFacts, LeavingFacts
<1>3. adapter' = [left EXCEPT ![c].state = "disconnected", ![c].room = "out"]
  BY DEF JoinFails
<1> HIDE DEF left
<1>4. adapter' = [left EXCEPT ![c] = new] /\ left[c] \in Adapter
  BY <1>2, <1>3
<1>5. new \in Adapter /\ new.queue = left[c].queue /\ new.at = left[c].at /\ new.room = "out"
  BY <1>4 DEF Adapter
<1> HIDE DEF new, op
<1>6. /\ adapter' \in [Connects -> Adapter] /\ adapter'[c] = new
      /\ \A x \in Connects \ {c} : adapter'[x] = adapter[x]
  BY <1>2, <1>4, <1>5
<1>7. AdapterTypes'
  BY <1>2, <1>5, <1>6, CalmRuns
<1> QED BY <1>2, <1>5, <1>6, <1>7 DEF op

(* What an operation of the queue other than leaving does to an adapter.   *)
Operates(a) ==
    /\ AdapterTypes'
    /\ \A x \in Connects \ {a} : adapter'[x] = adapter[x]
    /\ adapter'[a].room = adapter[a].room /\ adapter'[a].listening = adapter[a].listening
    /\ \/ adapter'[a].queue = adapter[a].queue
       \/ First(a, "publish") /\ adapter'[a].queue = Tail(adapter[a].queue)

LEMMA StageOperates ==
  ASSUME AdapterTypes, NEW a \in Connects, NEW new \in Adapter,
         adapter' = [adapter EXCEPT ![a] = new],
         new.queue = adapter[a].queue, new.room = adapter[a].room,
         new.listening = adapter[a].listening, adapter[a].queue # <<>>,
         new.at = "publishing" => First(a, "publish"),
         new.at = "leaving" => First(a, "leave")
  PROVE  Operates(a)
<1>1. /\ adapter' \in [Connects -> Adapter] /\ adapter'[a] = new
      /\ \A x \in Connects \ {a} : adapter'[x] = adapter[x]
  BY DEF AdapterTypes
<1>2. ASSUME NEW x \in Connects PROVE QueueRuns(x)'
  BY <1>1 DEF AdapterTypes, QueueRuns, First
<1> QED BY <1>1, <1>2 DEF Operates, AdapterTypes

LEMMA OverOperates ==
  ASSUME AdapterTypes, NEW a \in Connects, NEW new \in Adapter, Over(a, new),
         new.queue = adapter[a].queue, new.room = adapter[a].room,
         new.listening = adapter[a].listening, First(a, "publish")
  PROVE  Operates(a)
<1>0. new.queue # <<>>
  BY DEF First
<1>1. /\ adapter' \in [Connects -> Adapter]
      /\ \A x \in Connects \ {a} : adapter'[x] = adapter[x]
      /\ adapter'[a].at = "idle" /\ adapter'[a].queue = Tail(adapter[a].queue)
      /\ adapter'[a].listening = adapter[a].listening /\ adapter'[a].room = adapter[a].room
  BY <1>0, AfterFacts DEF Over
<1>2. ASSUME NEW x \in Connects PROVE QueueRuns(x)'
  BY <1>1 DEF AdapterTypes, QueueRuns, First
<1> QED BY <1>1, <1>2 DEF Operates, AdapterTypes

LEMMA OperationFacts ==
  ASSUME AdapterTypes, NEW a \in Connects, OperationStep(a), ~Leaves(a)
  PROVE  Operates(a)
<1>0. adapter \in [Connects -> Adapter] /\ adapter[a] \in Adapter /\ QueueRuns(a)
  BY DEF AdapterTypes
<1>1. ASSUME NEW stage \in {"unpublishing", "publishing", "leaving"}, At(a, stage),
             adapter[a].queue # <<>>,
             stage = "publishing" => First(a, "publish"), stage = "leaving" => First(a, "leave")
      PROVE  Operates(a)
  <2> DEFINE new == [adapter[a] EXCEPT !.at = stage]
  <2>1. /\ new \in Adapter /\ new.queue = adapter[a].queue /\ new.room = adapter[a].room
        /\ new.listening = adapter[a].listening /\ new.at = stage
    BY <1>0 DEF Adapter
  <2>2. adapter' = [adapter EXCEPT ![a] = new]
    BY <1>1 DEF At
  <2> HIDE DEF new
  <2> QED BY <1>1, <2>1, <2>2, StageOperates
<1>2. CASE BeginPublish(a)
  <2>1. First(a, "publish") /\ adapter[a].queue # <<>>
    BY <1>2 DEF BeginPublish, First
  <2>2. \/ Over(a, adapter[a])
        \/ At(a, "publishing") \/ At(a, "unpublishing")
    BY <1>2 DEF BeginPublish, BeginSharing
  <2> QED BY <1>0, <1>1, <2>1, <2>2, OverOperates
<1>3. CASE BeginLeave(a)
  <2>1. First(a, "leave") /\ adapter[a].queue # <<>>
    BY <1>3 DEF BeginLeave, First
  <2>2. At(a, "leaving") \/ At(a, "unpublishing")
    BY <1>3 DEF BeginLeave
  <2> QED BY <1>1, <2>1, <2>2
<1>4. ASSUME NEW ok \in BOOLEAN, Unpublishes(a, ok) PROVE Operates(a)
  <2> DEFINE without == [adapter[a] EXCEPT !.track = None]
             With(stage) == [without EXCEPT !.at = stage]
  <2>1. /\ without \in Adapter /\ without.queue = adapter[a].queue
        /\ without.room = adapter[a].room /\ without.listening = adapter[a].listening
    BY <1>0 DEF Adapter
  <2>2. \/ First(a, "leave") /\ adapter' = [adapter EXCEPT ![a] = With("leaving")]
        \/ First(a, "publish") /\ adapter' = [adapter EXCEPT ![a] = With("publishing")]
        \/ First(a, "publish") /\ Over(a, without)
    BY <1>4 DEF Unpublishes
  <2> HIDE DEF without
  <2>3. \A stage \in {"leaving", "publishing"} :
          /\ With(stage) \in Adapter /\ With(stage).queue = adapter[a].queue
          /\ With(stage).room = adapter[a].room /\ With(stage).listening = adapter[a].listening
          /\ With(stage).at = stage
    BY <2>1 DEF Adapter
  <2>4. adapter[a].queue # <<>>
    BY <2>2 DEF First
  <2> HIDE DEF With
  <2>5. CASE First(a, "leave") /\ adapter' = [adapter EXCEPT ![a] = With("leaving")]
    BY <2>3, <2>4, <2>5, StageOperates
  <2>6. CASE First(a, "publish") /\ adapter' = [adapter EXCEPT ![a] = With("publishing")]
    BY <2>3, <2>4, <2>6, StageOperates
  <2>7. CASE First(a, "publish") /\ Over(a, without)
    BY <2>1, <2>7, OverOperates
  <2> QED BY <2>2, <2>5, <2>6, <2>7
<1>5. CASE Publishes(a)
  <2> DEFINE new == [adapter[a] EXCEPT !.track = Sharing(a)]
  <2>1. First(a, "publish")
    BY <1>0, <1>5 DEF Publishes, QueueRuns
  <2>2. Sharing(a) \in Streams
    <3>1. Head(adapter[a].queue) \in Op /\ Head(adapter[a].queue).op = "publish"
      BY <1>0, <2>1 DEF First, Adapter
    <3> QED BY <3>1 DEF Sharing, Op
  <2>3. /\ new \in Adapter /\ new.queue = adapter[a].queue
        /\ new.room = adapter[a].room /\ new.listening = adapter[a].listening
    BY <1>0, <2>2 DEF Adapter
  <2>4. Over(a, new)
    BY <1>5 DEF Publishes
  <2> HIDE DEF new
  <2> QED BY <2>1, <2>3, <2>4, OverOperates
<1>6. CASE PublishFails(a)
  <2>1. First(a, "publish") /\ Over(a, adapter[a])
    BY <1>0, <1>6 DEF PublishFails, QueueRuns
  <2> QED BY <1>0, <2>1, OverOperates
<1> QED BY <1>2, <1>3, <1>4, <1>5, <1>6 DEF OperationStep

(* The Room is left: the adapter is out of it, its next operation may      *)
(* begin, and a start that waited for it connects.                         *)
LEMMA LeavesFacts ==
  ASSUME AdapterTypes, ControllerTypes, NEW a \in Connects, Leaves(a)
  PROVE  LET op == Head(adapter[a].queue)
             new == After(a, [adapter[a] EXCEPT !.state = "disconnected", !.room = "out"])
         IN  /\ First(a, "leave") /\ op \in Op
             /\ new \in [Connects -> Adapter]
             /\ \A x \in Connects \ {a} : new[x] = adapter[x]
             /\ new[a].room = "out" /\ new[a].queue = Tail(adapter[a].queue)
             /\ \/ adapter' = new
                \/ op.why = "start" /\ op.for = session /\ Connect(session, new)
             /\ \A x \in Connects : Stays(new[x], adapter'[x])
             /\ AdapterTypes'
<1> DEFINE op == Head(adapter[a].queue)
           gone == [adapter[a] EXCEPT !.state = "disconnected", !.room = "out"]
           new == After(a, gone)
<1>1. /\ adapter[a] \in Adapter /\ adapter[a].queue # <<>> /\ First(a, "leave")
  BY DEF AdapterTypes, Leaves, QueueRuns
<1>2. /\ gone \in Adapter /\ gone.queue = adapter[a].queue /\ gone.room = "out"
  BY <1>1 DEF Adapter
<1>3. op \in Op
  BY <1>1 DEF Adapter
<1>4. \/ adapter' = new
      \/ op.why = "start" /\ op.for = session /\ Connect(session, new)
  BY DEF Leaves, Over
<1> HIDE DEF gone
<1>5. /\ new \in [Connects -> Adapter]
      /\ \A x \in Connects \ {a} : new[x] = adapter[x]
      /\ new[a].at = "idle" /\ new[a].room = "out" /\ new[a].queue = Tail(adapter[a].queue)
  BY <1>1, <1>2, AfterFacts
<1> HIDE DEF new
<1>6. adapter' \in [Connects -> Adapter] /\ \A x \in Connects : Stays(new[x], adapter'[x])
  <2>1. CASE adapter' = new
    BY <1>5, <2>1 DEF Stays
  <2>2. CASE Connect(session, new)
    <3>1. session \in Nat
      BY DEF ControllerTypes
    <3> QED BY <1>5, <2>2, <3>1, ConnectFacts
  <2> QED BY <1>4, <2>1, <2>2
<1>7. ASSUME NEW x \in Connects PROVE QueueRuns(x)'
  <2>1. Stays(new[x], adapter'[x]) /\ new[x].queue \in Seq(Op)
    BY <1>5, <1>6 DEF Adapter
  <2>2. CASE x = a
    BY <1>5, <2>1, <2>2 DEF QueueRuns, First, Stays
  <2>3. CASE x # a
    <3>1. new[x] = adapter[x] /\ QueueRuns(x)
      BY <1>5, <2>3 DEF AdapterTypes
    <3>2. CASE adapter'[x].queue = adapter[x].queue
      BY <2>1, <3>1, <3>2 DEF QueueRuns, First, Stays
    <3>3. ASSUME NEW o \in Op, adapter'[x].queue = Append(adapter[x].queue, o)
          PROVE  QueueRuns(x)'
      BY <2>1, <3>1, <3>3, QueueFacts DEF QueueRuns, First, Stays
    <3>4. \A why \in {"next", "failed", "start", "stop"}, who \in Nat :
            [op |-> "leave", why |-> why, for |-> who] \in Op
      BY DEF Op
    <3> QED BY <2>1, <3>1, <3>2, <3>3, <3>4 DEF Stays
  <2> QED BY <2>2, <2>3
<1> QED BY <1>1, <1>3, <1>4, <1>5, <1>6, <1>7 DEF new, gone, AdapterTypes

(* A step of the controller leaves adapters, or begins a connection.       *)
LEMMA ControllerStays ==
  ASSUME AdapterTypes, ControllerTypes, ControllerStep
  PROVE  /\ AdapterTypes'
         /\ \A x \in Connects : Stays(adapter[x], adapter'[x])
<1>0. /\ adapter \in [Connects -> Adapter] /\ session \in Nat /\ sessions + 1 \in Nat
      /\ sessions + 1 # 0
      /\ current \in Connects \cup {None}
  BY DEF AdapterTypes, ControllerTypes
<1>1. ASSUME adapter' \in [Connects -> Adapter], \A x \in Connects : Stays(adapter[x], adapter'[x])
      PROVE  AdapterTypes'
  BY <1>1, StaysRuns
<1>2. CASE adapter' = adapter
  BY <1>0, <1>1, <1>2 DEF Stays
<1>3. ASSUME NEW s \in Nat, Connect(s, adapter)
      PROVE  adapter' \in [Connects -> Adapter] /\ \A x \in Connects : Stays(adapter[x], adapter'[x])
  BY <1>0, <1>3, ConnectFacts
<1>4. ASSUME NEW why \in {"start", "stop"}, NEW who \in Nat, why = "start" => who # None,
             current # None,
             adapter' = Leaving(adapter, current, why, who)
      PROVE  adapter' \in [Connects -> Adapter] /\ \A x \in Connects : Stays(adapter[x], adapter'[x])
  <2>1. current \in Connects
    BY <1>0, <1>4
  <2>2. adapter' \in [Connects -> Adapter] /\ Stays(adapter[current], adapter'[current])
    <3>1. /\ Leaving(adapter, current, why, who) \in [Connects -> Adapter]
          /\ Stays(adapter[current], Leaving(adapter, current, why, who)[current])
      BY <1>0, <1>4, <2>1, LeavingFacts
    <3> QED BY <1>4, <3>1
  <2>3. \A x \in Connects \ {current} : adapter'[x] = adapter[x]
    BY <1>0, <1>4 DEF Leaving
  <2>4. \A x \in Connects \ {current} : Stays(adapter[x], adapter'[x])
    BY <2>3 DEF Stays
  <2> QED BY <2>2, <2>4
<1>5. CASE Start
  BY <1>0, <1>1, <1>3, <1>4, <1>5, StreamFacts DEF Start
<1>6. CASE RetryConnection \/ TimerFires
  BY <1>0, <1>1, <1>3, <1>6 DEF RetryConnection, TimerFires
<1>7. CASE GoOffline
  BY <1>2, <1>7 DEF GoOffline
<1>8. CASE Stop \/ HidePage
  BY <1>1, <1>2, <1>4, <1>8, StreamFacts DEF Stop, HidePage, StopSession
<1> QED BY <1>5, <1>6, <1>7, <1>8 DEF ControllerStep

(* The dialog leaves connections alone, and hands its camera over at most. *)
LEMMA DialogStays ==
  ASSUME DialogTypes, ControllerTypes, AdapterTypes, DialogStep
  PROVE  /\ UNCHANGED <<controllerVars, httpVars>>
         /\ HandedOver(adapter, adapter')
<1>1. UNCHANGED <<controllerVars, httpVars>>
  BY DEF DialogStep, OpenCamera, FlipCamera, CloseCamera, EffectTimer, RetryCamera, RequestCamera,
     CameraGranted, CameraDenied, CameraPlays, PlayFails
<1>2. \/ adapter' = adapter
      \/ current # None /\ playing /\ adapter' = HandOver(adapter, own, dialog)
      \/ current # None /\ \E s \in Streams : adapter' = HandOver(adapter, s, None)
  BY DEF DialogStep, OpenCamera, FlipCamera, CloseCamera, EffectTimer, RetryCamera, RequestCamera,
     CameraGranted, Plays, CameraDenied, CameraPlays, PlayFails
<1>3. adapter \in [Connects -> Adapter] /\ current \in Connects \cup {None}
      /\ dialog \in Nat /\ None \in Nat /\ (playing => own \in Streams)
  BY DEF AdapterTypes, ControllerTypes, DialogTypes, None
<1>4. HandedOver(adapter, adapter')
  <2>1. CASE adapter' = adapter
    BY <1>3, <2>1 DEF HandedOver, Grows, SameRoom
  <2>2. CASE current # None /\ playing /\ adapter' = HandOver(adapter, own, dialog)
    BY <1>3, <2>2, HandOverFacts
  <2>3. CASE current # None /\ \E s \in Streams : adapter' = HandOver(adapter, s, None)
    BY <1>3, <2>3, HandOverFacts
  <2> QED BY <1>2, <2>1, <2>2, <2>3
<1> QED BY <1>1, <1>4

LEMMA AdapterTypesStep ==
  ASSUME CameraTypeInv, [Next]_vars
  PROVE  AdapterTypes'
<1> USE DEF CameraTypeInv
<1>1. CASE UNCHANGED adapter
  BY <1>1 DEF AdapterTypes, QueueRuns, First
<1>2. CASE DialogStep
  BY <1>2, DialogStays, GrowsRuns DEF HandedOver
<1>3. CASE ControllerStep
  BY <1>3, ControllerStays
<1>4. ASSUME NEW c \in Connects, ConnectionStep(c) PROVE AdapterTypes'
  BY <1>4, NewsTypes, JoinFailsFacts
<1>5. ASSUME NEW a \in Connects, OperationStep(a) PROVE AdapterTypes'
  BY <1>5, OperationFacts, LeavesFacts DEF Operates
<1> QED BY <1>1, <1>2, <1>3, <1>4, <1>5 DEF Next, vars

LEMMA CameraTypeInit == Init => CameraTypeInv
<1> SUFFICES ASSUME Init PROVE CameraTypeInv
  OBVIOUS
<1>0. 0 \in 0..0 /\ 0 \in 0..MaxStreams /\ 0 \in 0..MaxEvents /\ 0 \in 0..MaxConnects
      /\ 0 \in 0..MaxRetries
  BY LiveCameraAssumption
<1>1. DialogTypes
  BY <1>0 DEF Init, DialogTypes, None
<1>2. ControllerTypes
  <2>1. [shown |-> "disconnected", attempts |-> 0, timer |-> FALSE] \in Status
    BY <1>0 DEF Status
  <2>2. call \in [Connects -> [at : {"no", "leaving", "health", "token", "joining", "cleanup", "over"},
                              session : Nat]]
    BY DEF Init, None
  <2> QED BY <1>0, <2>1, <2>2 DEF Init, ControllerTypes, None
<1>3. AdapterTypes
  <2>1. <<>> \in Seq(Op)
    OBVIOUS
  <2>2. NewAdapter \in Adapter /\ NewAdapter.at = "idle"
    BY <2>1 DEF NewAdapter, Adapter
  <2> QED BY <2>2 DEF Init, AdapterTypes, QueueRuns
<1> QED BY <1>1, <1>2, <1>3 DEF CameraTypeInv

(* Dialog, controller, connections and adapters keep their types; a picture *)
(* is awaited of a stream only, and an operation that has begun is the     *)
(* first of its adapter's queue.                                           *)
THEOREM CameraTypesCorrect == Spec => [](TypeOK /\ CameraTypeInv)
<1>1. CameraTypeInv /\ [Next]_vars => CameraTypeInv'
  BY DialogTypesStep, ControllerTypesStep, AdapterTypesStep DEF CameraTypeInv
<1> QED BY CameraTypeInit, TypesAre, <1>1, PTL DEF Spec

-----------------------------------------------------------------------------
(* What is shown after a step.                                             *)

(* An operation stays in a queue that others join, or leave before it.     *)
LEMMA KeptInQueue ==
  ASSUME AdapterTypes, NEW x \in Connects, NEW i \in DOMAIN adapter[x].queue,
         \/ adapter'[x].queue = adapter[x].queue
         \/ \E o \in Op : adapter'[x].queue = Append(adapter[x].queue, o)
         \/ adapter[x].queue # <<>> /\ adapter'[x].queue = Tail(adapter[x].queue)
  PROVE  \/ \E j \in DOMAIN adapter'[x].queue : adapter'[x].queue[j] = adapter[x].queue[i]
         \/ adapter[x].queue[i] = Head(adapter[x].queue)
            /\ adapter'[x].queue = Tail(adapter[x].queue)
<1>1. adapter[x].queue \in Seq(Op)
  BY DEF AdapterTypes, Adapter
<1>2. Op # {}
  <2>1. [op |-> "leave", why |-> "stop", for |-> 0] \in Op
    BY DEF Op
  <2> QED BY <2>1
<1>3. CASE \E o \in Op : adapter'[x].queue = Append(adapter[x].queue, o)
  BY <1>1, <1>3, QueueFacts
<1>4. CASE adapter[x].queue # <<>> /\ adapter'[x].queue = Tail(adapter[x].queue)
  <2>1. i = 1 \/ (i - 1 \in DOMAIN Tail(adapter[x].queue)
                  /\ Tail(adapter[x].queue)[i - 1] = adapter[x].queue[i])
    BY <1>1, <1>2, <1>4, QueueFacts
  <2>2. Head(adapter[x].queue) = adapter[x].queue[1]
    BY <1>1, <1>2, <1>4, QueueFacts
  <2> QED BY <1>4, <2>1, <2>2
<1> QED BY <1>3, <1>4

(* A start that waits goes on waiting until its own operation is over.     *)
LEMMA StartingStays ==
  ASSUME AdapterTypes, Starting, session' = session, \A x \in Connects : QueueKeeps(x)
  PROVE  Starting'
<1>1. PICK a \in Connects : \E i \in DOMAIN adapter[a].queue : IsStart(adapter[a].queue[i])
  BY DEF Starting, IsStart
<1>2. PICK i \in DOMAIN adapter[a].queue : IsStart(adapter[a].queue[i])
  BY <1>1
<1>3. QueueKeeps(a)
  OBVIOUS
<1>4. \E j \in DOMAIN adapter'[a].queue : adapter'[a].queue[j] = adapter[a].queue[i]
  BY <1>2, <1>3, KeptInQueue DEF QueueKeeps, IsStart
<1> QED BY <1>2, <1>4 DEF Starting, IsStart

(* A Room stays listened to, or about to be left, and what leaves it named. *)
Quiet(x) ==
    /\ adapter'[x].room = adapter[x].room /\ adapter'[x].listening = adapter[x].listening
    /\ \/ adapter'[x].queue = adapter[x].queue
       \/ \E o \in Op : o.op = "publish" /\ adapter'[x].queue = Append(adapter[x].queue, o)
       \/ First(x, "publish") /\ adapter'[x].queue = Tail(adapter[x].queue)

LEMMA QuietKeeps ==
  ASSUME AdapterTypes, NEW x \in Connects, Quiet(x)
  PROVE  /\ QueueKeeps(x)
         /\ BeingLeft(x) => BeingLeft(x)'
         /\ HeardOrLeft(x) => HeardOrLeft(x)'
<1>1. QueueKeeps(x)
  BY DEF Quiet, QueueKeeps, First, IsStart
<1>2. BeingLeft(x) => BeingLeft(x)'
  <2>1. SUFFICES ASSUME BeingLeft(x) PROVE BeingLeft(x)'
    OBVIOUS
  <2>2. PICK i \in DOMAIN adapter[x].queue : adapter[x].queue[i].op = "leave"
    BY <2>1 DEF BeingLeft
  <2>3. \E j \in DOMAIN adapter'[x].queue : adapter'[x].queue[j] = adapter[x].queue[i]
    BY <2>2, KeptInQueue DEF Quiet, First
  <2> QED BY <2>2, <2>3 DEF BeingLeft
<1> QED BY <1>1, <1>2 DEF HeardOrLeft, Quiet

LEMMA StaysKeeps ==
  ASSUME AdapterTypes, NEW x \in Connects, Stays(adapter[x], adapter'[x])
  PROVE  /\ QueueKeeps(x)
         /\ HeardOrLeft(x) => HeardOrLeft(x)'
<1>1. \A why \in {"next", "failed", "start", "stop"}, who \in Nat :
        [op |-> "leave", why |-> why, for |-> who] \in Op
  BY DEF Op
<1>2. CASE adapter'[x].queue = adapter[x].queue /\ adapter'[x].listening = adapter[x].listening
  BY <1>2 DEF Stays, QueueKeeps, HeardOrLeft, BeingLeft
<1>3. ASSUME NEW why \in {"next", "failed", "start", "stop"}, NEW who \in Nat,
             adapter'[x].queue = Append(adapter[x].queue, [op |-> "leave", why |-> why, for |-> who])
      PROVE  QueueKeeps(x) /\ BeingLeft(x)'
  <2> DEFINE o == [op |-> "leave", why |-> why, for |-> who]
  <2>1. o \in Op /\ o.op = "leave" /\ adapter[x].queue \in Seq(Op)
    BY <1>1 DEF AdapterTypes, Adapter
  <2>2. adapter'[x].queue = Append(adapter[x].queue, o)
    BY <1>3
  <2> HIDE DEF o
  <2>3. BeingLeft(x)'
    BY <2>1, <2>2, QueueFacts DEF BeingLeft
  <2> QED BY <2>1, <2>2, <2>3 DEF QueueKeeps
<1> QED BY <1>2, <1>3 DEF Stays, HeardOrLeft

(* Whatever joins a queue or leaves it, the operations in it are named.    *)
LEMMA NamedKeeps ==
  ASSUME NEW q \in Seq(Op), NamedIn(q)
  PROVE  /\ q # <<>> => NamedIn(Tail(q))
         /\ \A o \in Op : (o.op = "leave" /\ o.why \in {"start", "failed"} => o.for # None)
                          => NamedIn(Append(q, o))
<1>1. ASSUME q # <<>> PROVE NamedIn(Tail(q))
  <2>1. \A j \in DOMAIN Tail(q) : j + 1 \in DOMAIN q /\ Tail(q)[j] = q[j + 1]
    BY <1>1
  <2> QED BY <2>1 DEF NamedIn
<1>2. ASSUME NEW o \in Op, o.op = "leave" /\ o.why \in {"start", "failed"} => o.for # None
      PROVE  NamedIn(Append(q, o))
  <2>1. \A j \in DOMAIN Append(q, o) :
          (j \in DOMAIN q /\ Append(q, o)[j] = q[j]) \/ Append(q, o)[j] = o
    OBVIOUS
  <2> QED BY <1>2, <2>1 DEF NamedIn
<1> QED BY <1>1, <1>2

LEMMA NamedStays ==
  ASSUME NEW old \in Adapter, NEW new \in Adapter, Stays(old, new), NamedIn(old.queue)
  PROVE  NamedIn(new.queue)
<1>1. old.queue \in Seq(Op)
  BY DEF Adapter
<1>2. ASSUME NEW why \in {"next", "failed", "start", "stop"}, NEW who \in Nat,
             why \in {"start", "failed"} => who # None
      PROVE  NamedIn(Append(old.queue, [op |-> "leave", why |-> why, for |-> who]))
  <2> DEFINE o == [op |-> "leave", why |-> why, for |-> who]
  <2>1. o \in Op /\ (o.op = "leave" /\ o.why \in {"start", "failed"} => o.for # None)
    BY <1>2 DEF Op
  <2> HIDE DEF o
  <2>2. NamedIn(Append(old.queue, o))
    BY <1>1, <2>1, NamedKeeps
  <2> QED BY <2>2 DEF o
<1> QED BY <1>2 DEF Stays

(* A step that neither connects nor stops keeps what is shown true: it is  *)
(* hidden from the session, says what there is, or leaves things alone.    *)
LEMMA NewsShown ==
  ASSUME AdapterTypes, ControllerTypes, SessionInv, ShownIsSo,
         session' = session, newest' = newest, suppress' => suppress,
         newest # None => call'[newest].session = call[newest].session,
         \A x \in Connects : QueueKeeps(x),
         \/ Hidden /\ status' = status
         \/ /\ session # None /\ status'.shown # "connected"
            /\ status'.shown = "waiting" => status'.timer
         \/ /\ session # None /\ status'.shown = "connected"
            /\ \E a \in Connects : adapter'[a].listening /\ adapter'[a].room = "in"
         \/ /\ session # None /\ status'.shown = "waiting"
            /\ \E a \in Connects : adapter'[a].listening /\ adapter'[a].room = "reconnecting"
         \/ /\ status' = status /\ \A x \in Connects : Quiet(x)
            /\ newest # None /\ call[newest].at # "over" => call'[newest].at # "over"
  PROVE  SessionInv' /\ ShownIsSo'
<1>1. Starting => Starting'
  BY StartingStays
<1>2. SessionInv'
  <2>1. status'.timer => session' # None
    BY DEF SessionInv
  <2>2. session' = None => status'.shown = "disconnected"
    BY DEF SessionInv
  <2>3. newest' # None => session' # None /\ call'[newest'].session = session'
    BY DEF SessionInv
  <2>4. suppress' /\ session' # None => Starting'
    BY <1>1 DEF SessionInv
  <2> QED BY <2>1, <2>2, <2>3, <2>4 DEF SessionInv
<1>3. ShownIsSo'
  <2>1. CASE Hidden /\ status' = status
    BY <1>1, <2>1 DEF Hidden, SessionInv, ShownIsSo, UnderWay
  <2>2. CASE /\ session # None /\ status'.shown # "connected"
             /\ status'.shown = "waiting" => status'.timer
    BY <2>2 DEF ShownIsSo, UnderWay
  <2>3. CASE /\ session # None /\ status'.shown = "connected"
             /\ \E a \in Connects : adapter'[a].listening /\ adapter'[a].room = "in"
    BY <2>3 DEF ShownIsSo
  <2>4. CASE /\ session # None /\ status'.shown = "waiting"
             /\ \E a \in Connects : adapter'[a].listening /\ adapter'[a].room = "reconnecting"
    BY <2>4 DEF ShownIsSo, UnderWay
  <2>5. CASE /\ status' = status /\ \A x \in Connects : Quiet(x)
             /\ newest # None /\ call[newest].at # "over" => call'[newest].at # "over"
    <3>1. \A x \in Connects : /\ adapter'[x].listening = adapter[x].listening
                              /\ adapter'[x].room = adapter[x].room
      BY <2>5 DEF Quiet
    <3> QED BY <1>1, <2>5, <3>1 DEF ShownIsSo, UnderWay
  <2> QED BY <2>1, <2>2, <2>3, <2>4, <2>5
<1> QED BY <1>2, <1>3

LEMMA GrowsKeeps ==
  ASSUME AdapterTypes, NEW x \in Connects, Grows(adapter[x], adapter'[x]), LeavesNamed(x)
  PROVE  /\ QueueKeeps(x) /\ LeavesNamed(x)'
         /\ BeingLeft(x) => BeingLeft(x)'
<1>1. adapter[x].queue \in Seq(Op) /\ NamedIn(adapter[x].queue)
  BY DEF AdapterTypes, Adapter, LeavesNamed
<1>2. QueueKeeps(x)
  BY DEF Grows, QueueKeeps
<1>3. LeavesNamed(x)'
  BY <1>1, NamedKeeps DEF Grows, LeavesNamed
<1>4. BeingLeft(x) => BeingLeft(x)'
  <2> SUFFICES ASSUME NEW i \in DOMAIN adapter[x].queue, adapter[x].queue[i].op = "leave"
               PROVE  BeingLeft(x)'
    BY DEF BeingLeft
  <2>1. CASE adapter'[x].queue = adapter[x].queue
    BY <2>1 DEF BeingLeft
  <2>2. ASSUME NEW o \in Op, adapter'[x].queue = Append(adapter[x].queue, o)
        PROVE  BeingLeft(x)'
    BY <1>1, <2>2, QueueFacts DEF BeingLeft
  <2> QED BY <2>1, <2>2 DEF Grows
<1> QED BY <1>2, <1>3, <1>4

(* Where nothing is heard and nothing happens to a Room, nothing is shown. *)
LEMMA FrameShown ==
  ASSUME CameraTypeInv, ShownIInv, AdapterTypes',
         UNCHANGED <<status, session, newest, suppress, call>>,
         \A x \in Connects : Quiet(x)
  PROVE  ShownIInv'
<1> USE DEF CameraTypeInv, ShownIInv
<1>1. \A x \in Connects : QueueKeeps(x) /\ (HeardOrLeft(x) => HeardOrLeft(x)')
  BY QuietKeeps
<1>2. SessionInv' /\ ShownIsSo'
  BY <1>1, NewsShown
<1>3. ASSUME NEW x \in Connects PROVE LeavesNamed(x)'
  <2>1. adapter[x].queue \in Seq(Op) /\ NamedIn(adapter[x].queue)
    BY DEF AdapterTypes, Adapter, LeavesNamed
  <2> QED BY <2>1, NamedKeeps DEF Quiet, First, LeavesNamed
<1> QED BY <1>1, <1>2, <1>3

(* A connection that begins is what the seller waits for.                  *)
LEMMA ConnectShown ==
  ASSUME session' # None, status'.shown = "waiting", newest' # None,
         call'[newest'].at # "over", call'[newest'].session = session',
         suppress' => Starting'
  PROVE  SessionInv' /\ ShownIsSo'
BY DEF SessionInv, ShownIsSo, UnderWay

(* A Room that is joined, or comes back, is in, whatever is handed over.    *)
LEMMA Recovered ==
  ASSUME DialogTypes, ControllerTypes, AdapterTypes, NEW c \in Connects,
         Joins(c) \/ Recovers(c)
  PROVE  adapter'[c].room = "in" /\ adapter'[c].listening = adapter[c].listening
<1> DEFINE back == [adapter EXCEPT ![c].room = "in", ![c].state = "connected"]
<1>1. back \in [Connects -> Adapter] /\ back[c].room = "in" /\ back[c].listening = adapter[c].listening
  BY DEF AdapterTypes, Adapter
<1>2. adapter' = Turned(status', back)
  BY DEF Joins, Recovers
<1> HIDE DEF back
<1> QED BY <1>1, <1>2, TurnedFacts DEF HandedOver, SameRoom

(* What a step of a connection does to its Room, and what it listens to.   *)
LEMMA RoomFacts ==
  ASSUME DialogTypes, ControllerTypes, AdapterTypes, NEW c \in Connects, ConnectionStep(c), ~JoinFails(c)
  PROVE  \/ HealthAnswers(c) /\ adapter'[c].room = adapter[c].room
            /\ adapter'[c].listening = adapter[c].listening
         \/ HealthFails(c) /\ adapter' = adapter
         \/ TokenArrives(c) /\ adapter'[c].listening
         \/ Joins(c) /\ adapter'[c].room = "in" /\ adapter'[c].listening = adapter[c].listening
            /\ adapter[c].room = "joining"
         \/ Breaks(c) /\ adapter'[c].room = "reconnecting" /\ adapter'[c].listening
         \/ SignalDrops(c) /\ adapter'[c].room = "signal" /\ adapter'[c].listening
         \/ Recovers(c) /\ adapter'[c].room = "in" /\ adapter'[c].listening
         \/ IsLost(c) /\ adapter'[c].room = "out"
<1>1. adapter \in [Connects -> Adapter] /\ adapter[c] \in Adapter
  BY DEF AdapterTypes
<1>2. CASE HealthAnswers(c)
  BY <1>1, <1>2 DEF HealthAnswers, Adapter
<1>3. CASE HealthFails(c)
  BY <1>3 DEF HealthFails
<1>4. CASE TokenArrives(c)
  BY <1>1, <1>4 DEF TokenArrives, Adapter
<1>5. CASE Joins(c)
  BY <1>5, Recovered DEF Joins
<1>6. CASE Breaks(c)
  BY <1>1, <1>6 DEF Breaks, Adapter
<1>9. CASE SignalDrops(c)
  BY <1>1, <1>9 DEF SignalDrops, Adapter
<1>7. CASE Recovers(c)
  BY <1>7, Recovered DEF Recovers
<1>8. CASE IsLost(c)
  BY <1>1, <1>8 DEF IsLost, Adapter
<1> QED BY <1>2, <1>3, <1>4, <1>5, <1>6, <1>7, <1>8, <1>9 DEF ConnectionStep

(* Rooms and queues after the news of a connection.                        *)
LEMMA NewsRooms ==
  ASSUME CameraTypeInv, NEW c \in Connects, ConnectionStep(c),
         \A x \in Connects : LeavesNamed(x) /\ HeardOrLeft(x)
  PROVE  \A x \in Connects : QueueKeeps(x) /\ LeavesNamed(x)' /\ HeardOrLeft(x)'
<1> USE DEF CameraTypeInv
<1>1. CASE JoinFails(c)
  <2> DEFINE o == [op |-> "leave", why |-> "failed", for |-> c]
  <2>1. /\ \A x \in Connects \ {c} : adapter'[x] = adapter[x]
        /\ adapter'[c].room = "out" /\ adapter'[c].queue = Append(adapter[c].queue, o)
    BY <1>1, JoinFailsFacts
  <2>2. o \in Op /\ o.for # None
    BY StreamFacts DEF Op
  <2>3. adapter[c].queue \in Seq(Op) /\ NamedIn(adapter[c].queue)
    BY DEF AdapterTypes, Adapter, LeavesNamed
  <2> HIDE DEF o
  <2>4. LeavesNamed(c)' /\ QueueKeeps(c) /\ HeardOrLeft(c)'
    BY <2>1, <2>2, <2>3, NamedKeeps DEF LeavesNamed, QueueKeeps, HeardOrLeft
  <2>5. \A x \in Connects \ {c} : QueueKeeps(x) /\ LeavesNamed(x)' /\ HeardOrLeft(x)'
    BY <2>1 DEF LeavesNamed, QueueKeeps, HeardOrLeft, BeingLeft
  <2> QED BY <2>4, <2>5
<1>2. CASE ~JoinFails(c)
  <2>1. /\ \A x \in Connects : Grows(adapter[x], adapter'[x])
        /\ \A x \in Connects \ {c} : SameRoom(adapter[x], adapter'[x])
    BY <1>2, NewsTypes
  <2>5. \A x \in Connects : QueueKeeps(x) /\ LeavesNamed(x)' /\ (BeingLeft(x) => BeingLeft(x)')
    BY <2>1, GrowsKeeps
  <2>2. \A x \in Connects \ {c} : QueueKeeps(x) /\ LeavesNamed(x)' /\ HeardOrLeft(x)'
    BY <2>1, <2>5 DEF HeardOrLeft, SameRoom
  <2>3. QueueKeeps(c) /\ LeavesNamed(c)' /\ (BeingLeft(c) => BeingLeft(c)')
    BY <2>5
  <2>4. HeardOrLeft(c)'
    BY <1>2, <2>3, RoomFacts DEF HeardOrLeft
  <2> QED BY <2>2, <2>3, <2>4
<1> QED BY <1>1, <1>2

(* What the news of a connection makes of what is shown.                   *)
LEMMA ConnectionShown ==
  ASSUME CameraTypeInv, ShownIInv, NEW c \in Connects, ConnectionStep(c)
  PROVE  ShownIInv'
<1> USE DEF CameraTypeInv, ShownIInv
<1>0. status \in Status /\ c # None /\ newest \in Connects \cup {None}
      /\ call \in [Connects -> [at : {"no", "leaving", "health", "token", "joining", "cleanup", "over"},
                                session : Nat]]
  BY StreamFacts DEF ControllerTypes
<1>1. \A x \in Connects : QueueKeeps(x) /\ LeavesNamed(x)' /\ HeardOrLeft(x)'
  BY NewsRooms
<1>2. UNCHANGED <<session, newest, suppress>>
  BY DEF ConnectionStep, HealthAnswers, HealthFails, TokenArrives, Joins, JoinFails,
     Breaks, SignalDrops, Recovers, IsLost, sessionVars
<1>3. newest # None => call'[newest].session = call[newest].session
  <2>1. \/ call' = call
        \/ \E stage \in {"token", "joining", "cleanup", "over"} :
              call' = [call EXCEPT ![c].at = stage]
    BY DEF ConnectionStep, HealthAnswers, HealthFails, TokenArrives, Joins, JoinFails,
       Breaks, SignalDrops, Recovers, IsLost, httpVars
  <2> QED BY <1>0, <2>1
<1>4. ASSUME Counts(c) PROVE session # None
  BY <1>0, <1>4 DEF Counts, SessionInv
<1>5. ASSUME \/ Hidden /\ status' = status
             \/ /\ session # None /\ status'.shown # "connected"
                /\ status'.shown = "waiting" => status'.timer
             \/ /\ session # None /\ status'.shown = "connected"
                /\ adapter'[c].listening /\ adapter'[c].room = "in"
             \/ /\ session # None /\ status'.shown = "waiting"
                /\ adapter'[c].listening /\ adapter'[c].room = "reconnecting"
      PROVE  SessionInv' /\ ShownIsSo'
  BY <1>1, <1>2, <1>3, <1>5, NewsShown
<1>6. ASSUME JoinFails(c) PROVE SessionInv' /\ ShownIsSo'
  BY <1>0, <1>5, <1>6, ReportedTwiceFacts DEF JoinFails, Hidden
<1>7. ASSUME HealthAnswers(c) \/ TokenArrives(c) PROVE SessionInv' /\ ShownIsSo'
  BY <1>0, <1>5, <1>7, ReportedFacts DEF HealthAnswers, TokenArrives, Hidden
<1>8. ASSUME Breaks(c) \/ SignalDrops(c) \/ Recovers(c) \/ IsLost(c)
      PROVE  SessionInv' /\ ShownIsSo'
  <2>1. adapter[c] \in Adapter /\ adapter \in [Connects -> Adapter]
    BY DEF AdapterTypes
  <2>2. CASE Breaks(c)
    <3>1. adapter'[c].room = "reconnecting" /\ adapter'[c].listening
      BY <2>1, <2>2 DEF Breaks, Adapter
    <3> QED BY <1>0, <1>5, <2>2, <3>1, ReportedFacts DEF Breaks, Hidden
  <2>3. CASE SignalDrops(c) \/ IsLost(c)
    BY <1>0, <1>5, <2>3, ReportedFacts DEF SignalDrops, IsLost, Hidden
  <2>4. CASE Recovers(c) /\ ~JoinFails(c)
    <3>1. adapter'[c].room = "in" /\ adapter'[c].listening
      <4>1. adapter[c].listening
        BY <2>4 DEF Recovers
      <4> QED BY <2>4, <4>1, Recovered
    <3>2. status' = Reported(status, "connected")
      BY <2>4 DEF Recovers
    <3> QED BY <1>0, <1>5, <3>1, <3>2, ReportedFacts DEF Hidden
  <2>5. CASE JoinFails(c)
    BY <1>6, <2>5
  <2> QED BY <1>8, <2>2, <2>3, <2>4, <2>5
<1>9. ASSUME Joins(c) PROVE SessionInv' /\ ShownIsSo'
  <2>1. CASE JoinFails(c)
    BY <1>6, <2>1
  <2>2. CASE ~JoinFails(c)
    <3>1. adapter'[c].room = "in" /\ adapter'[c].listening
      <4>1. adapter[c].listening
        BY <1>9 DEF Joins, HeardOrLeft
      <4> QED BY <1>9, <4>1, Recovered
    <3>2. CASE Counts(c)
      BY <1>4, <1>5, <1>9, <3>1, <3>2 DEF Joins
    <3>3. CASE ~Counts(c)
      BY <1>0, <1>5, <1>9, <3>1, <3>3, ReportedFacts DEF Joins, Hidden
    <3> QED BY <3>2, <3>3
  <2> QED BY <2>1, <2>2
<1>10. ASSUME HealthFails(c) PROVE SessionInv' /\ ShownIsSo'
  <2>1. adapter' = adapter /\ call' = [call EXCEPT ![c].at = "over"] /\ status' = Caught(status, c)
    BY <1>10 DEF HealthFails
  <2>2. CASE Counts(c)
    BY <1>0, <1>4, <1>5, <2>1, <2>2, CaughtFacts
  <2>3. CASE ~Counts(c)
    <3>1. status' = status
      BY <1>0, <2>1, <2>3, CaughtFacts
    <3>2. newest # c
      BY <1>0, <2>3 DEF Counts, SessionInv
    <3>3. newest # None /\ call[newest].at # "over" => call'[newest].at # "over"
      BY <1>0, <2>1, <3>2
    <3>4. \A x \in Connects : Quiet(x)
      BY <2>1 DEF Quiet
    <3> QED BY <1>1, <1>2, <1>3, <3>1, <3>3, <3>4, NewsShown
  <2> QED BY <2>2, <2>3
<1> QED BY <1>1, <1>6, <1>7, <1>8, <1>9, <1>10 DEF ConnectionStep

(* A Room that is left: the session is told, unless its start waits for    *)
(* that and connects now.                                                  *)
LEMMA LeavesShown ==
  ASSUME CameraTypeInv, ShownIInv, NEW a \in Connects, Leaves(a)
  PROVE  ShownIInv'
<1> USE DEF CameraTypeInv, ShownIInv
<1> DEFINE op == Head(adapter[a].queue)
           gone == [adapter[a] EXCEPT !.state = "disconnected", !.room = "out"]
           new == After(a, gone)
           heard == Reported(status, "disconnected")
<1>0. /\ status \in Status /\ newest \in Connects \cup {None} /\ session \in Nat
      /\ call \in [Connects -> [at : {"no", "leaving", "health", "token", "joining", "cleanup", "over"},
                                session : Nat]]
  BY DEF ControllerTypes
<1>1. /\ First(a, "leave") /\ op \in Op
      /\ new \in [Connects -> Adapter]
      /\ \A x \in Connects \ {a} : new[x] = adapter[x]
      /\ new[a].room = "out" /\ new[a].queue = Tail(adapter[a].queue)
      /\ \/ adapter' = new
         \/ op.why = "start" /\ op.for = session /\ Connect(session, new)
      /\ \A x \in Connects : Stays(new[x], adapter'[x])
      /\ AdapterTypes'
  BY LeavesFacts
<1>2. /\ adapter[a].queue \in Seq(Op) /\ adapter[a].queue # <<>> /\ NamedIn(adapter[a].queue)
      /\ op.op = "leave"
  BY <1>1 DEF AdapterTypes, Adapter, LeavesNamed, First
<1>3. op.why \in {"start", "failed"} => op.for # None
  <2>1. 1 \in DOMAIN adapter[a].queue /\ adapter[a].queue[1] = op
    BY <1>2
  <2> QED BY <1>2, <2>1 DEF NamedIn
<1>4. session' = session
  BY DEF Leaves, sessionVars
<1>5. \/ /\ ~(op.why = "start" /\ op.for = session)
         /\ adapter' = new /\ newest' = newest
         /\ suppress' \in {suppress, FALSE}
         /\ \/ call' = call
            \/ \E stage \in {"health", "over"} : call' = [call EXCEPT ![op.for].at = stage]
         /\ \/ status' \in {heard, ReportedTwice(status)}
            \/ op.why = "failed" /\ status' = Caught(heard, op.for)
      \/ /\ Connect(session, new) /\ op.why = "start" /\ op.for = session /\ suppress' = FALSE
         /\ status' = [ReportedTwice(status) EXCEPT !.shown = "waiting"]
  <2>1. Leaves(a)
    OBVIOUS
  <2> QED BY <2>1 DEF Leaves, Over, httpVars
<1> HIDE DEF new, gone, op, heard
<1>6. ASSUME NEW x \in Connects PROVE LeavesNamed(x)' /\ HeardOrLeft(x)'
  <2>1. new[x] \in Adapter /\ adapter'[x] \in Adapter /\ Stays(new[x], adapter'[x])
    BY <1>1 DEF AdapterTypes
  <2>2. NamedIn(new[x].queue)
    BY <1>1, <1>2, NamedKeeps DEF LeavesNamed
  <2>3. LeavesNamed(x)'
    BY <2>1, <2>2, NamedStays DEF LeavesNamed
  <2>4. CASE x = a
    BY <1>1, <2>1, <2>3, <2>4 DEF Stays, HeardOrLeft
  <2>5. CASE x # a
    BY <1>1, <2>1, <2>3, <2>5, StaysKeeps
  <2> QED BY <2>4, <2>5
<1>7. heard \in Status /\ ReportedTwice(status) \in Status
  BY <1>0, ReportedFacts, ReportedTwiceFacts DEF heard
<1>8. CASE /\ ~(op.why = "start" /\ op.for = session)
           /\ adapter' = new /\ newest' = newest
           /\ suppress' \in {suppress, FALSE}
           /\ \/ call' = call
              \/ \E stage \in {"health", "over"} : call' = [call EXCEPT ![op.for].at = stage]
           /\ \/ status' \in {heard, ReportedTwice(status)}
              \/ op.why = "failed" /\ status' = Caught(heard, op.for)
  <2>1. ASSUME NEW x \in Connects PROVE QueueKeeps(x)
    <3>1. ~IsStart(Head(adapter[a].queue))
      BY <1>8 DEF IsStart, op
    <3>2. CASE x = a
      BY <1>1, <1>2, <1>8, <3>1, <3>2 DEF QueueKeeps
    <3>3. CASE x # a
      BY <1>1, <1>8, <3>3 DEF QueueKeeps
    <3> QED BY <3>2, <3>3
  <2>2. newest # None => call'[newest].session = call[newest].session
    BY <1>0, <1>8
  <2>3. suppress' => suppress
    BY <1>8
  <2> DEFINE Fits(st) == \/ Hidden /\ st = status
                         \/ /\ session # None /\ st.shown # "connected"
                            /\ st.shown = "waiting" => st.timer
  <2>4. Fits(heard) /\ Fits(ReportedTwice(status))
    BY <1>0, ReportedFacts, ReportedTwiceFacts DEF Hidden, heard
  <2>5. ASSUME op.why = "failed" PROVE Fits(Caught(heard, op.for))
    <3>1. CASE ~Counts(op.for) /\ Caught(heard, op.for) = heard
      BY <2>4, <3>1
    <3>2. CASE /\ Counts(op.for)
               /\ Caught(heard, op.for).shown # "connected"
               /\ Caught(heard, op.for).shown = "waiting" => Caught(heard, op.for).timer
      BY <1>3, <2>5, <3>2 DEF Counts, SessionInv
    <3> QED BY <1>7, <3>1, <3>2, CaughtFacts
  <2>6. Fits(status')
    BY <1>8, <2>4, <2>5
  <2>7. SessionInv' /\ ShownIsSo'
    BY <1>4, <1>8, <2>1, <2>2, <2>3, <2>6, NewsShown
  <2> QED BY <1>6, <2>7
<1>9. CASE /\ Connect(session, new) /\ op.why = "start" /\ op.for = session /\ suppress' = FALSE
           /\ status' = [ReportedTwice(status) EXCEPT !.shown = "waiting"]
  <2>1. session' # None
    BY <1>3, <1>4, <1>9
  <2>2. newest' # None /\ call'[newest'].at # "over" /\ call'[newest'].session = session
    BY <1>0, <1>1, <1>9, ConnectFacts
  <2>3. status'.shown = "waiting"
    BY <1>7, <1>9 DEF Status
  <2>4. SessionInv' /\ ShownIsSo'
    BY <1>4, <1>9, <2>1, <2>2, <2>3, ConnectShown
  <2> QED BY <1>6, <2>4
<1> QED BY <1>5, <1>8, <1>9


(* What the seller and the timers make of what is shown.                   *)
LEMMA ControllerShown ==
  ASSUME CameraTypeInv, ShownIInv, ControllerStep
  PROVE  ShownIInv'
<1> USE DEF CameraTypeInv, ShownIInv
<1>0. /\ status \in Status /\ session \in Nat /\ sessions \in Nat
      /\ adapter \in [Connects -> Adapter] /\ current \in Connects \cup {None}
  BY DEF ControllerTypes, AdapterTypes
<1>1. AdapterTypes' /\ \A x \in Connects : Stays(adapter[x], adapter'[x])
  BY ControllerStays
<1>2. ASSUME NEW x \in Connects PROVE QueueKeeps(x) /\ LeavesNamed(x)' /\ HeardOrLeft(x)'
  <2>1. adapter[x] \in Adapter /\ adapter'[x] \in Adapter
    BY <1>1 DEF AdapterTypes
  <2> QED BY <1>1, <2>1, StaysKeeps, NamedStays DEF LeavesNamed
<1>3. ASSUME session' = session PROVE Starting => Starting'
  BY <1>2, <1>3, StartingStays
<1>4. CASE Start
  <2>1. /\ session' = sessions + 1 /\ session' # None /\ session' \in Nat
        /\ status' = [status EXCEPT !.shown = "waiting", !.timer = FALSE]
    BY <1>0, <1>4 DEF Start, None
  <2>2. status'.shown = "waiting"
    BY <1>0, <2>1 DEF Status
  <2>3. CASE current = None
    <3>1. Connect(session', adapter) /\ suppress' = FALSE
      BY <1>4, <2>1, <2>3 DEF Start
    <3>2. newest' # None /\ call'[newest'].at # "over" /\ call'[newest'].session = session'
      BY <1>0, <2>1, <3>1, ConnectFacts
    <3> QED BY <1>2, <2>1, <2>2, <3>1, <3>2, ConnectShown
  <2>4. CASE current # None
    <3> DEFINE o == [op |-> "leave", why |-> "start", for |-> session']
    <3>1. newest' = None /\ adapter' = Leaving(adapter, current, "start", session')
      BY <1>4, <2>1, <2>4 DEF Start
    <3>2. current \in Connects /\ adapter[current].queue \in Seq(Op) /\ o \in Op
          /\ adapter'[current].queue = Append(adapter[current].queue, o)
      BY <1>0, <2>1, <2>4, <3>1, LeavingFacts
    <3>3. o.op = "leave" /\ o.why = "start" /\ o.for = session'
      OBVIOUS
    <3> HIDE DEF o
    <3>4. Starting'
      BY <3>2, <3>3, QueueFacts DEF Starting
    <3>5. SessionInv' /\ ShownIsSo'
      BY <2>1, <2>2, <3>1, <3>4 DEF SessionInv, ShownIsSo, UnderWay
    <3> QED BY <1>2, <3>5
  <2> QED BY <2>3, <2>4
<1>5. CASE RetryConnection \/ TimerFires
  <2>1. /\ Connect(session, adapter) /\ session' = session /\ session # None
        /\ suppress' = suppress
    BY <1>5 DEF RetryConnection, TimerFires, sessionVars, SessionInv
  <2>2. status'.shown = "waiting"
    <3>1. [status EXCEPT !.shown = "waiting", !.timer = FALSE].shown = "waiting"
      BY <1>0 DEF Status
    <3>2. CASE RetryConnection
      BY <3>2 DEF RetryConnection
    <3>3. CASE TimerFires
      BY <3>1, <3>3 DEF TimerFires
    <3> QED BY <1>5, <3>2, <3>3
  <2>3. newest' # None /\ call'[newest'].at # "over" /\ call'[newest'].session = session'
    BY <1>0, <2>1, ConnectFacts
  <2>4. suppress' => Starting'
    BY <1>3, <2>1 DEF SessionInv
  <2>5. SessionInv' /\ ShownIsSo'
    BY <2>1, <2>2, <2>3, <2>4, ConnectShown
  <2> QED BY <1>2, <2>5
<1>6. CASE GoOffline
  <2>1. /\ status' = Reported(status, "disconnected")
        /\ UNCHANGED <<session, newest, suppress, call>>
    BY <1>6 DEF GoOffline, sessionVars, httpVars
  <2>2. SessionInv' /\ ShownIsSo'
    BY <1>0, <1>2, <1>6, <2>1, ReportedFacts, NewsShown DEF Hidden, GoOffline
  <2> QED BY <1>2, <2>2
<1>7. CASE Stop \/ HidePage
  <2>1. /\ session' = None /\ newest' = None
        /\ status' = [shown |-> "disconnected", attempts |-> 0, timer |-> FALSE]
    BY <1>7 DEF Stop, HidePage, StopSession
  <2>2. SessionInv' /\ ShownIsSo'
    BY <2>1 DEF SessionInv, ShownIsSo
  <2> QED BY <1>2, <2>2
<1> QED BY <1>4, <1>5, <1>6, <1>7 DEF ControllerStep

LEMMA ShownStep ==
  ASSUME CameraTypeInv, ShownIInv, [Next]_vars
  PROVE  ShownIInv'
<1> USE DEF CameraTypeInv
<1>1. AdapterTypes'
  BY AdapterTypesStep
<1>2. CASE UNCHANGED <<status, session, newest, suppress, call, adapter>>
  BY <1>1, <1>2, FrameShown DEF Quiet
<1>3. CASE DialogStep
  <2>1. UNCHANGED <<status, session, newest, suppress, call>>
    BY <1>3, DialogStays DEF controllerVars, sessionVars, httpVars
  <2>2. \A x \in Connects : Quiet(x)
    BY <1>3, DialogStays DEF HandedOver, Grows, SameRoom, Quiet
  <2> QED BY <1>1, <2>1, <2>2, FrameShown
<1>4. ASSUME NEW a \in Connects, OperationStep(a), ~Leaves(a) PROVE ShownIInv'
  <2>1. UNCHANGED <<status, session, newest, suppress, call>>
    BY <1>4 DEF OperationStep, BeginPublish, Unpublishes, Publishes, PublishFails, BeginLeave,
       controllerVars, sessionVars, httpVars
  <2>2. Operates(a)
    BY <1>4, OperationFacts
  <2>3. \A x \in Connects : Quiet(x)
    BY <2>2 DEF Operates, Quiet
  <2> QED BY <1>1, <2>1, <2>3, FrameShown
<1>5. CASE UNCHANGED vars
  BY <1>2, <1>5 DEF vars, controllerVars, sessionVars, httpVars
<1> QED BY <1>3, <1>4, <1>5, ControllerShown, ConnectionShown, LeavesShown DEF Next

LEMMA ShownInit == Init => ShownIInv
<1> SUFFICES ASSUME Init PROVE ShownIInv
  OBVIOUS
<1>1. /\ session = None /\ newest = None /\ suppress = FALSE
      /\ status = [shown |-> "disconnected", attempts |-> 0, timer |-> FALSE]
  BY DEF Init
<1>2. ASSUME NEW a \in Connects PROVE adapter[a].room = "out" /\ adapter[a].queue = <<>>
  BY DEF Init, NewAdapter
<1>3. SessionInv /\ ShownIsSo
  BY <1>1 DEF SessionInv, ShownIsSo
<1>4. \A a \in Connects : LeavesNamed(a) /\ HeardOrLeft(a)
  BY <1>2 DEF LeavesNamed, NamedIn, HeardOrLeft
<1> QED BY <1>3, <1>4 DEF ShownIInv

(* Whatever old connections still report into a session, and however the   *)
(* seller, the timers and the network interleave, the seller is shown that *)
(* the connection is on its way only while something is under way, and that *)
(* it is there only while a Room is joined or a start is about to connect. *)
THEOREM ShownStaysSo == Spec => []ShownIsSo
<1>1. CameraTypeInv /\ ShownIInv /\ [Next]_vars => ShownIInv'
  BY ShownStep
<1>2. ShownIInv => ShownIsSo
  BY DEF ShownIInv
<1> QED BY ShownInit, CameraTypesCorrect, <1>1, <1>2, PTL DEF Spec

-----------------------------------------------------------------------------
(* What the frames of the camera become at the Agent: types, nothing is    *)
(* left behind, and the calls of the provider are those of the Sampler.    *)

(* What the worker has in hand goes with its state, and frames are taken    *)
(* up in the order they came.                                              *)
HandInv ==
    /\ held # NoFrame <=> worker \in {"sleeping", "inferring"}
    /\ worker = "inferring" => held = started
    /\ worker = "sleeping" => held > started
    /\ slot # NoFrame => slot > started /\ slot > held

(* A spent budget leaves the worker its last call and its report.           *)
BudgetInv ==
    /\ exhausted <=> count >= MaxCalls
    /\ exhausted => worker \in {"inferring", "reporting", "none"}
    /\ worker = "reporting" => exhausted /\ reported = 0
    /\ reported = 1 => exhausted /\ worker = "none"

(* Closing takes the worker away for good.                                  *)
ClosedInv ==
    closed => slot = NoFrame /\ worker = "none" /\ held = NoFrame

FramesIInv == FramesTypeOK /\ HandInv /\ BudgetInv /\ ClosedInv /\ NothingLeft

LEMMA InitFrames == FramesInit => FramesIInv
<1> SUFFICES ASSUME FramesInit PROVE FramesIInv OBVIOUS
<1> USE ProcessorAssumption DEF FramesInit, NoFrame
<1>1. FramesTypeOK
  <2>1. streams \subseteq Tracks /\ stopped \in BOOLEAN /\ worker \in WorkerStates
    BY DEF WorkerStates
  <2>2. due \in BOOLEAN /\ exhausted \in BOOLEAN /\ closed \in BOOLEAN
    OBVIOUS
  <2>3. /\ arrived \in 0..MaxFrames /\ switches \in 0..MaxSwitches
        /\ slot \in 0..arrived /\ held \in 0..arrived
        /\ last \in 0..arrived /\ started \in 0..arrived
        /\ count \in 0..MaxCalls /\ reported \in 0..1
    OBVIOUS
  <2> QED BY <2>1, <2>2, <2>3 DEF FramesTypeOK
<1>2. HandInv /\ ClosedInv /\ NothingLeft
  BY DEF HandInv, ClosedInv, NothingLeft, NothingStranded, BudgetEnds
<1>3. BudgetInv
  BY DEF BudgetInv
<1> QED BY <1>1, <1>2, <1>3 DEF FramesIInv

(* The two ways a call begins, from the slot and after a sleep, begin it    *)
(* alike.                                                                  *)
LEMMA CallBegins ==
  ASSUME NEW frame \in 0 .. arrived, FramesIInv, StartInference(frame),
         frame # NoFrame, frame > started, ~exhausted, ~closed,
         worker \in {"ready", "sleeping"},
         slot' = NoFrame \/ (slot' = slot /\ slot > frame),
         UNCHANGED <<subscriber, reported, closed, last, arrived>>
  PROVE  FramesIInv'
<1> USE ProcessorAssumption DEF NoFrame
<1>1. FramesTypeOK'
  <2>1. count' \in 0 .. MaxCalls
    BY DEF FramesIInv, FramesTypeOK, BudgetInv, StartInference
  <2>2. worker' \in WorkerStates /\ due' \in BOOLEAN
    BY DEF StartInference, WorkerStates
  <2>4. exhausted' \in BOOLEAN
    <3>1. (count + 1 >= MaxCalls) \in BOOLEAN
      OBVIOUS
    <3> QED BY <3>1, Zenon DEF StartInference
  <2>3. arrived' = arrived /\ held' = frame /\ started' = frame
        /\ slot' \in 0 .. arrived /\ last' \in 0 .. arrived
    BY DEF FramesIInv, FramesTypeOK, StartInference
  <2> QED
    BY <2>1, <2>2, <2>3, <2>4 DEF FramesIInv, FramesTypeOK, subscriber
<1>2. HandInv'
  BY DEF FramesIInv, FramesTypeOK, HandInv, StartInference, subscriber
<1>3. BudgetInv'
  BY DEF FramesIInv, FramesTypeOK, BudgetInv, StartInference, subscriber
<1>4. ClosedInv'
  BY DEF FramesIInv, ClosedInv, StartInference, subscriber
<1>5. NothingLeft'
  BY DEF StartInference, NothingLeft, NothingStranded, BudgetEnds
<1> QED BY <1>1, <1>2, <1>3, <1>4, <1>5 DEF FramesIInv

LEMMA NextFrames == FramesIInv /\ [FramesNext]_frameVars => FramesIInv'
<1> SUFFICES ASSUME FramesIInv, [FramesNext]_frameVars PROVE FramesIInv' OBVIOUS
<1> USE ProcessorAssumption
<1>1. ASSUME NEW t \in Tracks, TrackSubscribed(t) \/ TrackUnsubscribed(t) PROVE FramesIInv'
  BY <1>1 DEF FramesIInv, FramesTypeOK, HandInv, BudgetInv, ClosedInv, NothingLeft,
     NothingStranded, BudgetEnds, TrackSubscribed, TrackUnsubscribed, processor, NoFrame
<1>2. ASSUME NEW t \in Tracks, FrameArrives(t) PROVE FramesIInv'
  <2>1. FramesTypeOK'
    BY <1>2 DEF FramesIInv, FramesTypeOK, FrameArrives, EnsureWorker, subscriber, WorkerStates
  <2>2. HandInv'
    BY <1>2 DEF FramesIInv, FramesTypeOK, HandInv, FrameArrives, EnsureWorker, NoFrame, WorkerStates
  <2>3. BudgetInv' /\ ClosedInv' /\ NothingLeft'
    BY <1>2 DEF FramesIInv, FramesTypeOK, BudgetInv, ClosedInv, NothingLeft, NothingStranded,
       BudgetEnds, FrameArrives, EnsureWorker, NoFrame
  <2> QED BY <2>1, <2>2, <2>3 DEF FramesIInv
<1>3. CASE StopSubscriber \/ IntervalPasses
  <2>1. UNCHANGED <<slot, worker, held, count, exhausted, reported, closed, last,
                    started, arrived, switches>>
    BY <1>3 DEF StopSubscriber, IntervalPasses, subscriber, processor
  <2>2. streams' \subseteq Tracks /\ stopped' \in BOOLEAN /\ due' \in BOOLEAN
    BY <1>3 DEF FramesIInv, FramesTypeOK, StopSubscriber, IntervalPasses, subscriber, processor
  <2> QED
    BY <2>1, <2>2 DEF FramesIInv, FramesTypeOK, HandInv, BudgetInv, ClosedInv, NothingLeft,
       NothingStranded, BudgetEnds
<1>9. CASE CloseProcessor
  <2>1. FramesTypeOK'
    BY <1>9 DEF FramesIInv, FramesTypeOK, CloseProcessor, subscriber, NoFrame, WorkerStates
  <2>2. HandInv' /\ ClosedInv' /\ NothingLeft'
    BY <1>9 DEF HandInv, ClosedInv, NothingLeft, NothingStranded, BudgetEnds,
       CloseProcessor, NoFrame
  <2>3. BudgetInv'
    BY <1>9 DEF FramesIInv, BudgetInv, CloseProcessor
  <2> QED BY <2>1, <2>2, <2>3 DEF FramesIInv
<1>4. CASE TakeFrame
  <2>1. slot \in 0 .. arrived /\ slot # NoFrame /\ slot > started /\ slot > held
        /\ ~exhausted /\ ~closed /\ held = NoFrame
    BY <1>4 DEF TakeFrame, FramesIInv, FramesTypeOK, HandInv, BudgetInv, ClosedInv
  <2>2. CASE due
    BY <1>4, <2>1, <2>2, CallBegins DEF TakeFrame
  <2>3. CASE ~due
    BY <1>4, <2>1, <2>3 DEF TakeFrame, FramesIInv, FramesTypeOK, HandInv, BudgetInv, ClosedInv,
       NothingLeft, NothingStranded, BudgetEnds, subscriber, NoFrame, WorkerStates
  <2> QED BY <2>2, <2>3
<1>5. CASE WakeUp
  BY <1>5, CallBegins DEF WakeUp, FramesIInv, FramesTypeOK, HandInv, BudgetInv, ClosedInv, NoFrame
<1>6. CASE WorkerEnds \/ ReportBudget
  BY <1>6 DEF FramesIInv, FramesTypeOK, HandInv, BudgetInv, ClosedInv, NothingLeft,
     NothingStranded, BudgetEnds, WorkerEnds, ReportBudget, subscriber, NoFrame,
     WorkerStates
<1>7. CASE CallSucceeds \/ CallFails
  BY <1>7 DEF FramesIInv, FramesTypeOK, HandInv, BudgetInv, ClosedInv, NothingLeft,
     NothingStranded, BudgetEnds, CallSucceeds, CallFails, AfterCall, subscriber,
     NoFrame, WorkerStates
<1>8. CASE UNCHANGED frameVars
  BY <1>8 DEF FramesIInv, FramesTypeOK, HandInv, BudgetInv, ClosedInv, NothingLeft,
     NothingStranded, BudgetEnds, frameVars, subscriber, processor
<1> QED
  BY <1>1, <1>2, <1>3, <1>4, <1>5, <1>6, <1>7, <1>8, <1>9 DEF FramesNext, Worker

THEOREM AlwaysFrames == FramesSpec => []FramesIInv
<1>1. FramesIInv /\ [FramesNext]_frameVars => FramesIInv' BY NextFrames
<1> QED BY InitFrames, <1>1, PTL DEF FramesSpec

(* The variables keep their types: the budget is never overdrawn, and its   *)
(* end is reported at most once.                                           *)
THEOREM FramesTypeCorrect == FramesSpec => []FramesTypeOK
<1>1. FramesIInv => FramesTypeOK BY DEF FramesIInv
<1> QED BY AlwaysFrames, <1>1, PTL

(* No frame is stranded in the slot, and a spent budget is final.           *)
THEOREM NothingEverLeft == FramesSpec => []NothingLeft
<1>1. FramesIInv => NothingLeft BY DEF FramesIInv
<1> QED BY AlwaysFrames, <1>1, PTL

(* The processor implements the abstract sampler.                           *)
THEOREM ProcessorImplementsSampler == FramesSpec => ImplementsSampler
<1>1. FramesInit => Calls!Init
  BY DEF FramesInit, Calls!Init, NoFrame
<1>2. FramesIInv /\ FramesIInv' /\ [FramesNext]_frameVars
      => [Calls!Next]_<<worker = "inferring", started, count, closed>>
  <2> DEFINE Shown == <<worker = "inferring", started, count, closed>>
  <2> SUFFICES ASSUME FramesIInv, FramesIInv', [FramesNext]_frameVars PROVE Calls!Next \/ UNCHANGED Shown
    OBVIOUS
  <2>1. ASSUME NEW frame, StartInference(frame), worker # "inferring", ~closed,
               closed' = closed, ~exhausted, arrived' = arrived,
               frame \in 1 .. arrived, frame > started
        PROVE  Calls!Begin
    <3>1. started' = frame /\ count' = count + 1 /\ worker' = "inferring"
      BY <2>1 DEF StartInference
    <3>2. frame \in 1 .. MaxFrames
      BY <2>1, ProcessorAssumption DEF FramesIInv, FramesTypeOK
    <3>3. count < MaxCalls
      BY <2>1, ProcessorAssumption DEF FramesIInv, FramesTypeOK, BudgetInv
    <3> QED BY <2>1, <3>1, <3>2, <3>3 DEF Calls!Begin
  <2>2. CASE TakeFrame /\ due
    <3>1. slot \in 1 .. arrived /\ slot > started /\ ~exhausted /\ ~closed
          /\ worker = "ready"
      BY <2>2 DEF TakeFrame, FramesIInv, FramesTypeOK, HandInv, BudgetInv, ClosedInv, NoFrame
    <3> QED BY <2>1, <2>2, <3>1 DEF TakeFrame, Calls!Next
  <2>3. CASE WakeUp
    <3>1. held \in 1 .. arrived /\ held > started /\ ~exhausted /\ ~closed
      BY <2>3 DEF WakeUp, FramesIInv, FramesTypeOK, HandInv, BudgetInv, ClosedInv, NoFrame
    <3> QED BY <2>1, <2>3, <3>1 DEF WakeUp, Calls!Next
  <2>4. CASE CallSucceeds \/ CallFails
    <3>1. worker = "inferring" /\ worker' # "inferring"
          /\ UNCHANGED <<started, count, closed>>
      BY <2>4 DEF CallSucceeds, CallFails, AfterCall
    <3> QED BY <3>1 DEF Calls!Next, Calls!End
  <2>5. CASE CloseProcessor
    <3>1. worker' = "none" /\ closed' = TRUE /\ UNCHANGED <<started, count>>
      BY <2>5 DEF CloseProcessor
    <3> QED BY <3>1 DEF Calls!Next, Calls!Close
  <2>6. ASSUME NEW t \in Tracks,
               TrackSubscribed(t) \/ TrackUnsubscribed(t) \/ FrameArrives(t)
        PROVE  UNCHANGED Shown
    BY <2>6 DEF TrackSubscribed, TrackUnsubscribed, FrameArrives, EnsureWorker,
       processor
  <2>7. CASE StopSubscriber \/ IntervalPasses \/ WorkerEnds \/ ReportBudget
             \/ (TakeFrame /\ ~due) \/ UNCHANGED frameVars
    BY <2>7 DEF StopSubscriber, IntervalPasses, WorkerEnds, ReportBudget, TakeFrame,
       processor, frameVars
  <2> QED
    BY <2>2, <2>3, <2>4, <2>5, <2>6, <2>7 DEF FramesNext, Worker
<1> QED
  BY AlwaysFrames, <1>1, <1>2, PTL DEF FramesSpec, ImplementsSampler, Calls!Spec

=============================================================================
