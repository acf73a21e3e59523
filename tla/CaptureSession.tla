--------------------------- MODULE CaptureSession ---------------------------
(* The photographs and the measurement of a guided capture session, as the *)
(* browser's controller keeps them: useGuidedCaptureController.ts with the *)
(* panel and the listing form that call it.  A listing needs a picture in  *)
(* every image slot, each accepted by an assessment, and a measurement the *)
(* user approved.  Pictures are queued and assessed one at a time by a     *)
(* service that answers later; a measurement picture is analysed on the    *)
(* side.  Answers may arrive after the user has thrown the picture away,   *)
(* has measured by hand, or has closed the session.                        *)
(*                                                                         *)
(* A request's generation is compared with one counter that only grows, so *)
(* a request carries fresh, TRUE while the counter has not moved since it  *)
(* was made.  What the guidance shows is in module LiveGuidance.           *)
(*                                                                         *)
(* The handlers do not read React's state, slots and activeSlot, but       *)
(* stateRef, ref here, which an update reaches only when React runs it: at *)
(* once if no update is queued, else when it renders.                      *)
EXTENDS Integers, Sequences, FiniteSets

CONSTANTS
  ImageOrder,     \* the image slots in the order they are taken
  Measurement,    \* the fourth slot
  Sizes,          \* measurements the editor accepts
  NoSize,         \* a measurement that is missing, or not filled in
  MaxPhotos,      \* bound: pictures recorded or edited
  MaxMeasured,    \* bound: measurement pictures
  MaxReports      \* bound: steps of the connection and of the Agent

Images == {ImageOrder[k] : k \in DOMAIN ImageOrder}
Slots == Images \cup {Measurement}
Front == ImageOrder[1]

ASSUME SlotsAreDistinct ==
  /\ ImageOrder \in Seq(Images) /\ ImageOrder # <<>>
  /\ Measurement \notin Images
  /\ Cardinality(Images) = Len(ImageOrder)

ASSUME SizesAreNumbers == NoSize \notin Sizes

ASSUME BoundsAreNumbers ==
  MaxPhotos \in Nat /\ MaxMeasured \in Nat /\ MaxReports \in Nat

VARIABLES
  phase,        \* of the session; "idle" is no session
  activeSlot,
  slots,        \* slot -> its status and its picture, 0 is none
  draft,        \* the measurement the editor shows
  measurement,  \* the measurement the user approved
  background,   \* whether an edited front picture was adopted
  ref,          \* stateRef: the active slot and the slots the handlers read
  waiting,      \* captureQueueRef: pictures not yet looked at
  job,          \* the picture being assessed, NoJob if none
  requests,     \* captureRequestsRef: image slot -> picture asked about
  measuring,    \* measurementRequestRef: the analysis that may still answer
  calls,        \* analyses that have not answered
  adopting,     \* the front picture whose edit is being prepared
  recorded, measured, reports,        \* counters, bounded
  discarded,    \* pictures the user threw away, or of closed sessions
  stale,        \* measurement pictures thrown away or replaced
  drawn,        \* the measurement picture the draft was drawn from
  edits,        \* pictures that are edits of a front picture
  seen          \* what the user saw when approving the capture

shown == <<phase, activeSlot, slots, draft, measurement, background>>
work == <<waiting, job, requests, measuring, calls, adopting>>
counters == <<recorded, measured, reports>>
history == <<discarded, stale, drawn, edits, seen>>
vars == <<shown, ref, work, counters, history>>

Statuses == {"pending", "active", "captured", "approved"}
Phases == {"idle", "connecting", "capturing", "measurement", "review",
           "ready", "fallback"}
Photos == 1..MaxPhotos
NoJob == [slot |-> Front, photo |-> 0, fresh |-> FALSE]
Empty == [s \in Slots |-> [status |-> "pending", photo |-> 0]]
NothingSeen == [photos |-> [s \in Images |-> 0], size |-> NoSize]

Init ==
  /\ phase = "idle" /\ activeSlot = Front /\ slots = Empty
  /\ draft = NoSize /\ measurement = NoSize /\ background = FALSE
  /\ ref = [slot |-> Front, slots |-> Empty]
  /\ waiting = <<>> /\ job = NoJob /\ requests = [s \in Images |-> 0]
  /\ measuring = 0 /\ calls = {} /\ adopting = 0
  /\ recorded = 0 /\ measured = 0 /\ reports = 0
  /\ discarded = {} /\ stale = {} /\ drawn = 0 /\ edits = {}
  /\ seen = NothingSeen

-----------------------------------------------------------------------------
(* The slots *)

Done(sl, s) == sl[s].status \in {"captured", "approved"}
AllCaptured(sl) == \A s \in Images : Done(sl, s)
AllApproved(sl) == \A s \in Images : sl[s].status = "approved"

\* nextPendingCaptureSlot, as the set of the slots it may return.
NextPending(sl) ==
  {ImageOrder[k] : k \in {j \in DOMAIN ImageOrder :
     ~Done(sl, ImageOrder[j]) /\ \A i \in 1..(j - 1) : Done(sl, ImageOrder[i])}}

DemoteApprovals(sl) ==
  [s \in Slots |->
     IF s # Measurement /\ sl[s].status = "approved"
     THEN [sl[s] EXCEPT !.status = "captured"] ELSE sl[s]]

WorkflowPhase(s) == IF s = Measurement THEN "measurement" ELSE "capturing"

\* captureGenerationRef moves on: what was asked before is no longer current.
Outdated ==
  /\ waiting' = [k \in DOMAIN waiting |-> [waiting[k] EXCEPT !.fresh = FALSE]]
  /\ job' = [job EXCEPT !.fresh = FALSE]

Selectable(s) ==
  /\ phase # "idle"
  /\ slots[s].status # "approved"
  /\ \/ slots[s].status = "captured"
     \/ s = Measurement /\ AllCaptured(slots)
     \/ s \in NextPending(slots)

EditorShown ==
  /\ phase # "idle"
  /\ AllCaptured(slots)
  /\ slots[Measurement].status # "approved"

ReviewShown == phase = "review" /\ measurement \in Sizes

-----------------------------------------------------------------------------
(* React's state and the copy of it the handlers read *)

Rendered == ref = [slot |-> activeSlot, slots |-> slots]

Renders == ref' = [slot |-> activeSlot', slots |-> slots']

\* An update made outside of React's events: run at once, or queued.
Defers == ref' = ref \/ (Rendered /\ Renders)

\* A user's event finds the queue rendered and is rendered itself.
Acts == Rendered /\ Renders

Render ==
  /\ ~Rendered
  /\ ref' = [slot |-> activeSlot, slots |-> slots]
  /\ UNCHANGED <<shown, work, counters, history>>

-----------------------------------------------------------------------------
(* The session *)

\* Whatever was recorded so far belongs to no session any more.
Forget ==
  /\ Outdated
  /\ requests' = [s \in Images |-> 0]
  /\ measuring' = 0
  /\ discarded' = 1..recorded
  /\ stale' = 1..measured
  /\ drawn' = 0
  /\ draft' = NoSize /\ measurement' = NoSize /\ background' = FALSE
  /\ activeSlot' = Front
  /\ Renders
  /\ UNCHANGED <<calls, adopting, counters, edits, seen>>

Start ==
  /\ phase = "idle"
  /\ phase' = "connecting"
  /\ slots' = [Empty EXCEPT ![Front].status = "active"]
  /\ Forget

Stop ==
  /\ phase # "idle"
  /\ phase' = "idle"
  /\ slots' = Empty
  /\ Forget

Report ==
  /\ phase # "idle"
  /\ reports < MaxReports
  /\ reports' = reports + 1
  /\ Defers
  /\ UNCHANGED <<draft, measurement, background, work, recorded, measured,
                 history>>

ConnectionUp ==
  /\ phase \in {"fallback", "connecting"}
  /\ phase' = WorkflowPhase(activeSlot)
  /\ UNCHANGED <<activeSlot, slots>>
  /\ Report

ConnectionDown ==
  /\ phase \notin {"review", "ready"}
  /\ phase' = "fallback"
  /\ UNCHANGED <<activeSlot, slots>>
  /\ Report

\* The Agent's reliable state decides the active slot.
ReportState(s) ==
  /\ activeSlot' = s
  /\ phase' = IF s # Measurement /\ slots[s].status = "approved"
              THEN "review" ELSE WorkflowPhase(s)
  /\ slots' = [slots EXCEPT ![s].status = IF @ = "pending" THEN "active" ELSE @]
  /\ Report

SelectSlot(s) ==
  /\ Selectable(s)
  /\ activeSlot' = s
  /\ phase' = WorkflowPhase(s)
  /\ slots' = [slots EXCEPT ![s].status = IF s = Measurement THEN @ ELSE "active"]
  /\ Acts
  /\ UNCHANGED <<draft, measurement, background, work, counters, history>>

-----------------------------------------------------------------------------
(* Pictures *)

\* The listing form records every picture; with no session it is dropped.
RecordMedia ==
  /\ phase # "idle" /\ recorded < MaxPhotos
  /\ recorded' = recorded + 1
  /\ waiting' = Append(waiting, [photo |-> recorded + 1, fresh |-> TRUE])
  /\ UNCHANGED <<shown, ref, job, requests, measuring, calls, adopting, measured,
                 reports, history>>

\* Variant: whatever slot is shown, filled or not.
TargetShown == IF ref.slot \in Images THEN {ref.slot} ELSE NextPending(ref.slots)

\* The slot the next picture is for.
Target ==
  IF ref.slot \in Images /\ ~Done(ref.slots, ref.slot)
  THEN {ref.slot} ELSE NextPending(ref.slots)

Dropped ==
  /\ ~Head(waiting).fresh \/ phase = "idle" \/ Target = {}
  /\ UNCHANGED <<shown, ref, job, requests>>

Assessed(s) ==
  LET p == Head(waiting).photo IN
  /\ Head(waiting).fresh /\ phase # "idle"
  /\ job' = [slot |-> s, photo |-> p, fresh |-> TRUE]
  /\ requests' = [requests EXCEPT ![s] = p]
  /\ slots' = [slots EXCEPT ![s] = [status |-> "active", photo |-> p]]
  /\ activeSlot' = s
  /\ phase' = "capturing"
  /\ Defers
  /\ UNCHANGED <<draft, measurement, background>>

\* One picture at a time: the queue is a chain of promises.
ProcessMedia ==
  /\ job = NoJob
  /\ waiting # <<>>
  /\ waiting' = Tail(waiting)
  /\ Dropped \/ \E s \in Target : Assessed(s)
  /\ UNCHANGED <<measuring, calls, adopting, counters, history>>

\* Variant: only the picture of the slot is compared.
IsCurrentByPhoto == ref.slots[job.slot].photo \in {job.photo, 0}

IsCurrentRequest ==
  /\ job.fresh
  /\ requests[job.slot] = job.photo
  /\ ref.slots[job.slot].photo \in {job.photo, 0}

Accepted ==
  LET taken == [slots EXCEPT ![job.slot] = [status |-> "captured", photo |-> job.photo]]
      next == NextPending(taken)
  IN /\ slots' = taken
     /\ IF next = {}
        THEN activeSlot' = Measurement /\ phase' = "measurement"
        ELSE activeSlot' \in next /\ phase' = "capturing"

\* A picture that is refused stays in its slot, and so does one that could
\* not be looked at.
Refused ==
  /\ slots' = [slots EXCEPT ![job.slot] = [status |-> "active", photo |-> job.photo]]
  /\ activeSlot' = job.slot
  /\ phase' = "capturing"

IsSlotsPicture == slots[job.slot].photo \in {job.photo, 0}

\* The update looks at the slot again when React runs it.
Judged ==
  /\ IF IsSlotsPicture
     THEN Accepted \/ Refused
     ELSE UNCHANGED <<slots, activeSlot, phase>>
  /\ Defers

\* Variant: an answer that is no longer current never settles its task.
AssessmentAnswersIfCurrent ==
  /\ job # NoJob
  /\ IsCurrentRequest
  /\ Judged
  /\ requests' = [requests EXCEPT ![job.slot] = 0]
  /\ job' = NoJob
  /\ UNCHANGED <<draft, measurement, background, waiting, measuring, calls,
                 adopting, counters, history>>

AssessmentAnswers ==
  /\ job # NoJob
  /\ IF IsCurrentRequest
     THEN /\ Judged
          /\ requests' = [requests EXCEPT ![job.slot] = 0]
     ELSE UNCHANGED <<slots, activeSlot, phase, ref, requests>>
  /\ job' = NoJob
  /\ UNCHANGED <<draft, measurement, background, waiting, measuring, calls,
                 adopting, counters, history>>

RemoveMedia(s) ==
  /\ phase # "idle"
  /\ slots[s].photo # 0
  /\ Outdated
  /\ requests' = [requests EXCEPT ![s] = 0]
  /\ measuring' = 0
  /\ slots' = [slots EXCEPT ![s] = [status |-> "active", photo |-> 0]]
  /\ activeSlot' = s
  /\ phase' = "capturing"
  /\ Acts
  /\ background' = (background /\ s # Front)
  /\ discarded' = discarded \cup {slots[s].photo}
  /\ stale' = stale \cup calls
  /\ UNCHANGED <<draft, measurement, calls, adopting, counters, drawn, edits, seen>>

\* applyApprovedBackground looks the front picture up and prepares the edit ...
AdoptBackground ==
  /\ phase = "ready" /\ adopting = 0
  /\ adopting' = slots[Front].photo
  /\ UNCHANGED <<shown, waiting, job, requests, measuring, calls, counters, history>>
  /\ Acts

\* ... and puts it in the front slot when it is ready: replaceMedia and
\* approveBackground.
ReplaceFront ==
  /\ adopting # 0 /\ recorded < MaxPhotos
  /\ recorded' = recorded + 1
  /\ adopting' = 0
  /\ Outdated
  /\ requests' = [requests EXCEPT ![Front] = 0]
  /\ edits' = edits \cup {recorded + 1}
  /\ slots' = IF phase # "idle" /\ Done(slots, Front)
              THEN [slots EXCEPT ![Front].photo = recorded + 1] ELSE slots
  /\ background' = (background \/ (phase = "ready" /\ slots[Front].status = "approved"))
  /\ UNCHANGED <<phase, activeSlot, draft, measurement, measuring, calls,
                 measured, reports, discarded, stale, drawn, seen>>
  /\ Defers

-----------------------------------------------------------------------------
(* The measurement *)

RecordMeasurement ==
  /\ \/ EditorShown
     \/ activeSlot = Measurement /\ phase \notin {"idle", "ready"}
  /\ AllCaptured(slots)
  /\ measured < MaxMeasured
  /\ measured' = measured + 1
  /\ measuring' = measured + 1
  /\ calls' = calls \cup {measured + 1}
  /\ stale' = 1..measured
  /\ slots' = [DemoteApprovals(slots) EXCEPT ![Measurement].status = "active"]
  /\ activeSlot' = Measurement
  /\ phase' = "measurement"
  /\ draft' = NoSize /\ measurement' = NoSize /\ drawn' = 0
  /\ Acts
  /\ UNCHANGED <<background, waiting, job, requests, adopting, recorded, reports,
                 discarded, edits, seen>>

\* The analysis may suggest a size, none, or fail.
Drafted(c, size) ==
  /\ draft' = size /\ drawn' = c
  /\ slots' = [slots EXCEPT ![Measurement].status = "captured"]

NotDrafted ==
  /\ slots' = [slots EXCEPT ![Measurement].status = "active"]
  /\ UNCHANGED <<draft, drawn>>

IsCurrentMeasurement(c) == measuring = c

MeasurementAnswers(c) ==
  /\ c \in calls
  /\ calls' = calls \ {c}
  /\ IF IsCurrentMeasurement(c)
     THEN /\ NotDrafted \/ \E size \in Sizes \cup {NoSize} : Drafted(c, size)
          /\ activeSlot' = Measurement
          /\ phase' = "measurement"
          /\ measuring' = 0
          /\ Defers
     ELSE UNCHANGED <<slots, draft, drawn, activeSlot, phase, ref, measuring>>
  /\ UNCHANGED <<measurement, background, waiting, job, requests, adopting,
                 counters, discarded, stale, edits, seen>>

RetakeMeasurement ==
  /\ \/ phase \in {"review", "ready"}
     \/ activeSlot = Measurement /\ phase # "idle"
  /\ AllCaptured(slots)
  /\ measuring' = 0
  /\ stale' = 1..measured
  /\ slots' = [DemoteApprovals(slots) EXCEPT ![Measurement].status = "pending"]
  /\ activeSlot' = Measurement
  /\ phase' = "measurement"
  /\ draft' = NoSize /\ measurement' = NoSize /\ drawn' = 0
  /\ Acts
  /\ UNCHANGED <<background, waiting, job, requests, calls, adopting, counters,
                 discarded, edits, seen>>

UpdateMeasurement(size) ==
  /\ EditorShown
  /\ draft' = size
  /\ slots' = [slots EXCEPT ![Measurement].status = "captured"]
  /\ phase' = "measurement"
  /\ UNCHANGED <<activeSlot, measurement, background, work, counters, history>>
  /\ Acts

ApproveMeasurement ==
  /\ EditorShown
  /\ draft \in Sizes
  /\ measurement' = draft
  /\ slots' = [slots EXCEPT ![Measurement].status = "approved"]
  /\ activeSlot' = Measurement
  /\ phase' = "review"
  /\ Acts
  /\ UNCHANGED <<draft, background, work, counters, history>>

ApproveCapture ==
  /\ ReviewShown
  /\ AllCaptured(slots)
  /\ slots' = [s \in Slots |->
                 IF s \in Images THEN [slots[s] EXCEPT !.status = "approved"]
                 ELSE slots[s]]
  /\ phase' = "ready"
  /\ activeSlot' = Measurement
  /\ seen' = [photos |-> [s \in Images |-> slots[s].photo], size |-> measurement]
  /\ Acts
  /\ UNCHANGED <<draft, measurement, background, work, counters, discarded,
                 stale, drawn, edits>>

\* Variant: accepted pictures are enough.
HandoffOfCaptured == phase # "idle" /\ AllCaptured(slots) /\ measurement \in Sizes

\* getListingHandoff: what the listing form may publish.
Handoff ==
  /\ phase = "ready"
  /\ AllApproved(slots)
  /\ measurement \in Sizes

-----------------------------------------------------------------------------
Next ==
  \/ Start \/ Stop \/ Render
  \/ ConnectionUp \/ ConnectionDown
  \/ \E s \in Slots : ReportState(s) \/ SelectSlot(s)
  \/ RecordMedia \/ ProcessMedia \/ AssessmentAnswers
  \/ \E s \in Images : RemoveMedia(s)
  \/ AdoptBackground \/ ReplaceFront
  \/ RecordMeasurement
  \/ \E c \in 1..MaxMeasured : MeasurementAnswers(c)
  \/ RetakeMeasurement
  \/ \E size \in Sizes \cup {NoSize} : UpdateMeasurement(size)
  \/ ApproveMeasurement \/ ApproveCapture

(* The queue goes on by itself, and a request to the assessment service    *)
(* is answered or fails in the end.                                        *)
Fairness == WF_vars(ProcessMedia) /\ WF_vars(AssessmentAnswers)

Spec == Init /\ [][Next]_vars /\ Fairness

-----------------------------------------------------------------------------
(* Properties *)

SlotRecords == [status : Statuses, photo : 0..MaxPhotos]
Refs == [slot : Slots, slots : [Slots -> SlotRecords]]
Tickets == [photo : Photos, fresh : BOOLEAN]
Jobs == [slot : Images, photo : 0..MaxPhotos, fresh : BOOLEAN]
Reviews == [photos : [Images -> 0..MaxPhotos], size : Sizes \cup {NoSize}]

TypeOK ==
  /\ phase \in Phases /\ activeSlot \in Slots
  /\ slots \in [Slots -> SlotRecords]
  /\ slots[Measurement].photo = 0
  /\ draft \in Sizes \cup {NoSize} /\ measurement \in Sizes \cup {NoSize}
  /\ background \in BOOLEAN
  /\ ref \in Refs
  /\ waiting \in Seq(Tickets)
  /\ job \in Jobs
  /\ requests \in [Images -> 0..MaxPhotos]
  /\ measuring \in calls \cup {0} /\ calls \subseteq 1..measured
  /\ adopting \in 0..MaxPhotos
  /\ recorded \in 0..MaxPhotos /\ measured \in 0..MaxMeasured
  /\ reports \in 0..MaxReports
  /\ discarded \subseteq Photos /\ stale \subseteq 1..measured
  /\ drawn \in 0..measured /\ edits \subseteq Photos
  /\ seen \in Reviews

(* What the user threw away stays away: no late answer puts a deleted     *)
(* picture back in a slot, and no late analysis of a replaced or discarded *)
(* measurement picture becomes the draft.                                  *)
ThrownAwayStaysOut ==
  /\ \A s \in Images : slots[s].photo \notin discarded
  /\ drawn \notin stale

(* What the listing publishes is what the user saw in the final review:    *)
(* the same picture in every slot, and the same measurement.  The front    *)
(* alone may be an adopted edit instead, and nothing ties that edit to the *)
(* front picture it takes the place of.                                    *)
HandoffWasReviewed ==
  Handoff =>
    /\ \A s \in Images :
         \/ slots[s].photo = seen.photos[s]
         \/ s = Front /\ slots[s].photo \in edits
    /\ measurement = seen.size

(* A picture the controller has on record as accepted is never written     *)
(* over by another photograph: it leaves its slot when the user deletes it *)
(* or closes the session, and the front picture for an edit.  An           *)
(* acceptance React has not run yet is not on record, and the next picture *)
(* of the queue may take its slot.                                         *)
AcceptedIsKept ==
  [][\A s \in Images :
       Done(slots, s) /\ Done(ref.slots, s) =>
         \/ slots'[s].photo \in {slots[s].photo, 0}
         \/ s = Front /\ slots'[s].photo \in edits']_vars

(* Every picture recorded is looked at or dropped in the end, whatever     *)
(* happens to the session meanwhile: the queue is empty again and again,   *)
(* for the instance records finitely many pictures.                        *)
QueueDrains == []<>(job = NoJob /\ waiting = <<>>)

=============================================================================
