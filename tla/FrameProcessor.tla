---- MODULE FrameProcessor ----
(***************************************************************************)
(* The Agent's camera input: CameraVideoTrackSubscriber feeds the frames of *)
(* the subscribed camera tracks to a LatestFrameProcessor, which keeps the  *)
(* newest in a LatestFrameSlot and has one worker task judge them, no       *)
(* faster than its cadence and no more often than its budget.              *)
(*                                                                         *)
(* A frame is the number of its arrival.  Time is `due`: the next call is   *)
(* allowed.  The worker yields only where _drain awaits: while it sleeps,   *)
(* while the provider judges and while it reports the spent budget.        *)
(***************************************************************************)
EXTENDS Integers, FiniteSets

CONSTANTS
    Tracks,         \* the camera tracks a participant publishes in turn
    MaxCalls,       \* max_inference_calls
    MaxFrames,      \* bound: the frames that arrive
    MaxSwitches     \* bound: how often tracks come

ASSUME ProcessorAssumption ==
    MaxCalls \in Nat \ {0} /\ MaxFrames \in Nat /\ MaxSwitches \in Nat

NoFrame == 0

VARIABLES
    streams,        \* _stream_tasks, by track
    stopped,        \* CameraVideoTrackSubscriber._closed
    slot,           \* LatestFrameSlot._frame
    worker,         \* the state of _worker_task
    held,           \* the frame the worker took from the slot
    due,            \* the clock has reached _next_inference_at
    count,          \* _inference_count
    exhausted,      \* _budget_exhausted
    reported,       \* how often the budget's end was reported
    closed,         \* LatestFrameProcessor._closed
    last,           \* _last_frame: the newest frame with a result
    started,        \* the frame of the latest provider call
    arrived,        \* frames accepted so far, bounded by MaxFrames
    switches        \* tracks subscribed so far, bounded by MaxSwitches

subscriber == <<streams, stopped, switches>>
processor == <<worker, held, due, count, exhausted, reported, closed, last, started>>
frameVars == <<subscriber, processor, slot, arrived>>

WorkerStates == {"none", "ready", "sleeping", "inferring", "reporting"}

FramesTypeOK ==
    /\ streams \subseteq Tracks /\ stopped \in BOOLEAN
    /\ arrived \in 0..MaxFrames /\ switches \in 0..MaxSwitches
    /\ slot \in 0..arrived /\ held \in 0..arrived
    /\ last \in 0..arrived /\ started \in 0..arrived
    /\ worker \in WorkerStates
    /\ due \in BOOLEAN /\ exhausted \in BOOLEAN /\ closed \in BOOLEAN
    /\ count \in 0..MaxCalls /\ reported \in 0..1

FramesInit ==
    /\ streams = {} /\ stopped = FALSE /\ switches = 0
    /\ slot = NoFrame /\ worker = "none" /\ held = NoFrame /\ due = TRUE
    /\ count = 0 /\ exhausted = FALSE /\ reported = 0 /\ closed = FALSE
    /\ last = NoFrame /\ started = NoFrame /\ arrived = 0

----------------------------------------------------------------------------
(* The subscriber.                                                         *)

(* track_subscribed: one stream per track, none once it is stopped. *)
TrackSubscribed(t) ==
    /\ ~stopped /\ t \notin streams /\ switches < MaxSwitches
    /\ streams' = streams \cup {t} /\ switches' = switches + 1
    /\ UNCHANGED <<stopped, processor, slot, arrived>>

(* track_unsubscribed, or the end of the stream. *)
TrackUnsubscribed(t) ==
    /\ t \in streams /\ streams' = streams \ {t}
    /\ UNCHANGED <<stopped, switches, processor, slot, arrived>>

EnsureWorker == worker' = IF worker = "none" THEN "ready" ELSE worker

(* submit_nowait: a frame is refused once the processor is closed or its    *)
(* budget spent; otherwise it replaces the one in the slot, and there is a  *)
(* worker for it.  The budget is checked here; the two later checks of it   *)
(* repeat this one.                                                        *)
FrameArrives(t) ==
    /\ t \in streams /\ arrived < MaxFrames
    /\ ~closed /\ ~exhausted
    /\ arrived' = arrived + 1 /\ slot' = arrived + 1
    /\ EnsureWorker
    /\ UNCHANGED <<subscriber, held, due, count, exhausted, reported, closed,
                   last, started>>

(* stop of the subscriber: its streams are cancelled first. *)
StopSubscriber ==
    /\ ~stopped /\ stopped' = TRUE /\ streams' = {}
    /\ UNCHANGED <<switches, processor, slot, arrived>>

(* Variant: the slot is closed and the worker left running. *)
CloseWithoutCancel ==
    /\ stopped /\ ~closed
    /\ closed' = TRUE /\ slot' = NoFrame
    /\ UNCHANGED <<subscriber, worker, held, due, count, exhausted, reported, last,
                   started, arrived>>

(* Then aclose of the processor closes the slot and cancels the worker      *)
(* wherever it awaits.                                                     *)
CloseProcessor ==
    /\ stopped /\ ~closed
    /\ closed' = TRUE /\ slot' = NoFrame /\ worker' = "none" /\ held' = NoFrame
    /\ UNCHANGED <<subscriber, due, count, exhausted, reported, last, started, arrived>>

----------------------------------------------------------------------------
(* The worker: _drain.                                                     *)

(* The call itself: counted when it starts, and the last one of the budget  *)
(* closes the door to further frames at once.                              *)
StartInference(frame) ==
    /\ worker' = "inferring" /\ held' = frame /\ started' = frame
    /\ count' = count + 1
    /\ exhausted' = (count + 1 >= MaxCalls)
    /\ due' = FALSE

TakeFrame ==
    /\ worker = "ready" /\ slot # NoFrame
    /\ slot' = NoFrame
    /\ IF due THEN StartInference(slot)
       ELSE /\ worker' = "sleeping" /\ held' = slot
            /\ UNCHANGED <<started, count, exhausted, due>>
    /\ UNCHANGED <<subscriber, reported, closed, last, arrived>>

WorkerEnds ==
    /\ worker = "ready" /\ slot = NoFrame
    /\ worker' = "none"
    /\ UNCHANGED <<subscriber, held, due, count, exhausted, reported, closed,
                   last, started, slot, arrived>>

(* Variant: only a call that succeeded allows the next. *)
IntervalPassesAfterSuccess ==
    /\ ~due /\ worker # "inferring" /\ started = last /\ due' = TRUE
    /\ UNCHANGED <<subscriber, worker, held, count, exhausted, reported, closed,
                   last, started, slot, arrived>>

(* The clock reaches _next_inference_at. *)
IntervalPasses ==
    /\ ~due /\ worker # "inferring" /\ due' = TRUE
    /\ UNCHANGED <<subscriber, worker, held, count, exhausted, reported, closed,
                   last, started, slot, arrived>>

(* The sleep is over: the frame taken before it is judged. *)
WakeUp ==
    /\ worker = "sleeping" /\ due
    /\ StartInference(held)
    /\ UNCHANGED <<subscriber, reported, closed, last, slot, arrived>>

(* Variant: the worker ends after each call. *)
AfterCallAlone ==
    /\ held' = NoFrame
    /\ IF exhausted
       THEN slot' = NoFrame /\ worker' = "reporting"
       ELSE worker' = "none" /\ UNCHANGED slot

(* After a call: look for the next frame, or report the spent budget.       *)
AfterCall ==
    /\ held' = NoFrame
    /\ IF exhausted
       THEN slot' = NoFrame /\ worker' = "reporting"
       ELSE worker' = "ready" /\ UNCHANGED slot

CallSucceeds ==
    /\ worker = "inferring"
    /\ last' = held /\ AfterCall
    /\ due' \in BOOLEAN
    /\ UNCHANGED <<subscriber, count, exhausted, reported, closed, started, arrived>>

(* A failure starts the cooldown: the next call is not due. *)
CallFails ==
    /\ worker = "inferring"
    /\ AfterCall
    /\ UNCHANGED <<subscriber, due, count, exhausted, reported, closed, last,
                   started, arrived>>

ReportBudget ==
    /\ worker = "reporting"
    /\ worker' = "none" /\ reported' = reported + 1
    /\ UNCHANGED <<subscriber, held, due, count, exhausted, closed, last, started,
                   slot, arrived>>

Worker ==
    \/ TakeFrame \/ WorkerEnds \/ WakeUp
    \/ CallSucceeds \/ CallFails \/ ReportBudget

FramesNext ==
    \/ \E t \in Tracks : TrackSubscribed(t) \/ TrackUnsubscribed(t) \/ FrameArrives(t)
    \/ StopSubscriber \/ CloseProcessor
    \/ IntervalPasses \/ Worker

(* The event loop runs what is runnable, the clock advances and every       *)
(* provider call returns or times out.                                     *)
FramesFairness ==
    /\ WF_frameVars(IntervalPasses) /\ WF_frameVars(Worker) /\ WF_frameVars(CloseProcessor)

FramesSpec == FramesInit /\ [][FramesNext]_frameVars /\ FramesFairness

----------------------------------------------------------------------------
(* Properties.                                                             *)

(* A frame in the slot always has a worker that will look again: no wake-up *)
(* is lost between a worker that finds the slot empty and a frame that      *)
(* finds the worker still there (_ensure_worker, _drain).                  *)
NothingStranded == slot # NoFrame => worker # "none"

(* A spent budget is final: nothing waits, nothing is in hand once its      *)
(* report is out, and it is reported once (_notify_budget_exhausted).      *)
BudgetEnds ==
    (exhausted /\ worker # "inferring") => slot = NoFrame /\ held = NoFrame

NothingLeft == NothingStranded /\ BudgetEnds

(* The calls are those the abstract sampler may make.                       *)
Calls == INSTANCE Sampler WITH
    Frames <- 1..MaxFrames, busy <- worker = "inferring", judged <- started, used <- count, over <- closed

ImplementsSampler == Calls!Spec

(* Every frame leaves the slot: judged, replaced by a newer one, or dropped *)
(* when the budget or the session ends.                                    *)
SlotMovesOn == \A f \in 1..MaxFrames : slot = f ~> slot # f

====
