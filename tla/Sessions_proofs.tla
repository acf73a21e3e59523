--------------------------- MODULE Sessions_proofs ---------------------------
(* The two sessions of the browser.  First what CaptureSession promises for *)
(* every order of slots, every set of measurements and every bound: its     *)
(* types, ThrownAwayStaysOut, AcceptedIsKept and HandoffWasReviewed.  Then  *)
(* what BrowserSession promises for every set of tabs, commands and keys    *)
(* and every number of faults and reloads: its types, AnswersHold and       *)
(* SettledIsSaved.  The two share no variable.                              *)
EXTENDS CaptureSession, BrowserSession, TLAPS, WellFoundedInduction

-----------------------------------------------------------------------------
(* The guided capture.                                                      *)

(* Where a picture can be.  A picture of a slot, of the queue or of the     *)
(* assessment that may still count was recorded and not thrown away, and no *)
(* two of these places share one, the assessment and its own slot aside.    *)
SlotsHoldGoodPhotos ==
  \A s \in Images :
    /\ slots[s].photo <= recorded
    /\ slots[s].photo \notin discarded
    /\ Done(slots, s) => slots[s].photo # 0

SlotsShareNoPhoto ==
  \A s, t \in Images :
    slots[s].photo = slots[t].photo /\ slots[s].photo # 0 => s = t

QueueHoldsNewPhotos ==
  \A k \in DOMAIN waiting :
    /\ waiting[k].photo <= recorded
    /\ waiting[k].fresh =>
         /\ waiting[k].photo \notin discarded
         /\ waiting[k].photo # job.photo
         /\ \A s \in Images : slots[s].photo # waiting[k].photo

QueueHasNoRepeats ==
  \A k, l \in DOMAIN waiting : waiting[k].photo = waiting[l].photo => k = l

JobHoldsItsPhoto ==
  /\ job.photo <= recorded
  /\ job.fresh =>
       /\ job.photo # 0
       /\ job.photo \notin discarded
       /\ \A s \in Images : slots[s].photo = job.photo => s = job.slot

PhotosIInv ==
  /\ SlotsHoldGoodPhotos
  /\ SlotsShareNoPhoto
  /\ QueueHoldsNewPhotos
  /\ QueueHasNoRepeats
  /\ JobHoldsItsPhoto
  /\ discarded \subseteq 1..recorded

(* The analysis that may still answer is of a picture that counts, and the  *)
(* draft is not of an analysis that has yet to answer.                      *)
MeasuringIInv ==
  /\ drawn \notin stale
  /\ measuring \notin stale
  /\ drawn \notin calls

(* While the session is ready, the user has seen what it holds: the phase   *)
(* alone decides, for nothing but the final approval leads there.           *)
ReadyIInv ==
  phase = "ready" =>
    /\ \A s \in Images :
         \/ slots[s].photo = seen.photos[s]
         \/ s = Front /\ slots[s].photo \in edits
    /\ measurement = seen.size

-----------------------------------------------------------------------------
(* Slots, their records and the queue                                       *)

(* The front slot is an image slot, the measurement is none, and the next   *)
(* pending slots are image slots that wait for a picture.                   *)
LEMMA SlotFacts ==
  /\ Front \in Images
  /\ Images \subseteq Slots
  /\ Measurement \in Slots /\ Measurement \notin Images
  /\ \A s \in Slots : s = Measurement \/ s \in Images
  /\ \A sl : \A s \in NextPending(sl) : s \in Images /\ ~Done(sl, s)
<1>1. 1 \in DOMAIN ImageOrder
  BY SlotsAreDistinct
<1>2. Front \in Images
  BY <1>1 DEF Front, Images
<1>3. \A sl : \A s \in NextPending(sl) : s \in Images /\ ~Done(sl, s)
  BY DEF NextPending, Images
<1> QED
  BY <1>2, <1>3, SlotsAreDistinct DEF Slots

SlotsOK(sl) ==
  /\ sl \in [Slots -> SlotRecords]
  /\ sl[Measurement].photo = 0

(* A slot that gets a record, and nothing else.                             *)
LEMMA SlotGets ==
  ASSUME NEW sl, SlotsOK(sl), NEW s \in Images, NEW st \in Statuses, NEW p \in 0..MaxPhotos
  PROVE  LET new == [sl EXCEPT ![s] = [status |-> st, photo |-> p]] IN
         /\ SlotsOK(new)
         /\ new[s].status = st /\ new[s].photo = p
         /\ \A t \in Slots \ {s} : new[t] = sl[t]
BY SlotFacts DEF SlotsOK, SlotRecords

(* A slot whose status changes keeps its picture, and the others theirs.    *)
LEMMA SlotTurns ==
  ASSUME NEW sl, SlotsOK(sl), NEW s \in Slots, NEW st \in Statuses
  PROVE  LET new == [sl EXCEPT ![s].status = st] IN
         /\ SlotsOK(new)
         /\ new[s].status = st /\ new[s].photo = sl[s].photo
         /\ \A t \in Slots \ {s} : new[t] = sl[t]
BY SlotFacts DEF SlotsOK, SlotRecords

(* Taking approvals back changes no picture and fills no slot.              *)
LEMMA Demoted ==
  ASSUME NEW sl, SlotsOK(sl)
  PROVE  /\ SlotsOK(DemoteApprovals(sl))
         /\ \A s \in Slots : /\ DemoteApprovals(sl)[s].photo = sl[s].photo
                             /\ Done(DemoteApprovals(sl), s) => Done(sl, s)
<1>1. \A s \in Slots : sl[s] \in SlotRecords
  BY DEF SlotsOK
<1>2. \A r \in SlotRecords : /\ [r EXCEPT !.status = "captured"] \in SlotRecords
                             /\ [r EXCEPT !.status = "captured"].photo = r.photo
                             /\ [r EXCEPT !.status = "captured"].status = "captured"
  BY DEF SlotRecords, Statuses
<1>3. \A s \in Slots : /\ DemoteApprovals(sl)[s] \in SlotRecords
                       /\ DemoteApprovals(sl)[s].photo = sl[s].photo
                       /\ Done(DemoteApprovals(sl), s) => Done(sl, s)
  BY <1>1, <1>2 DEF DemoteApprovals, Done
<1> QED
  BY <1>1, <1>3, SlotFacts DEF SlotsOK, DemoteApprovals

LEMMA EmptySlots ==
  /\ SlotsOK(Empty)
  /\ \A s \in Slots : Empty[s].photo = 0 /\ ~Done(Empty, s)
BY SlotFacts, BoundsAreNumbers DEF SlotsOK, Empty, SlotRecords, Statuses, Done

(* A moved generation leaves the pictures where they are, none fresh.       *)
LEMMA OutdatedKeeps ==
  ASSUME waiting \in Seq(Tickets), job \in Jobs, Outdated
  PROVE  /\ waiting' \in Seq(Tickets) /\ DOMAIN waiting' = DOMAIN waiting
         /\ \A k \in DOMAIN waiting :
              waiting'[k].photo = waiting[k].photo /\ ~waiting'[k].fresh
         /\ job' \in Jobs
         /\ job'.photo = job.photo /\ job'.slot = job.slot /\ ~job'.fresh
<1>1. \A k \in DOMAIN waiting : waiting[k] \in Tickets
  OBVIOUS
<1>2. \A w \in Tickets : /\ [w EXCEPT !.fresh = FALSE] \in Tickets
                         /\ [w EXCEPT !.fresh = FALSE].photo = w.photo
                         /\ ~[w EXCEPT !.fresh = FALSE].fresh
  BY DEF Tickets
<1>3. /\ DOMAIN waiting = 1..Len(waiting) /\ Len(waiting) \in Nat
      /\ waiting' = [k \in 1..Len(waiting) |-> [waiting[k] EXCEPT !.fresh = FALSE]]
  BY DEF Outdated
<1>4. waiting' \in Seq(Tickets) /\ DOMAIN waiting' = DOMAIN waiting
  BY <1>1, <1>2, <1>3
<1>5. \A k \in DOMAIN waiting :
        waiting'[k].photo = waiting[k].photo /\ ~waiting'[k].fresh
  BY <1>1, <1>2, <1>3
<1>6. /\ job' \in Jobs
      /\ job'.photo = job.photo /\ job'.slot = job.slot /\ ~job'.fresh
  BY DEF Outdated, Jobs
<1> QED
  BY <1>4, <1>5, <1>6

(* What the handlers read is what it was, or React's state.                 *)
LEMMA RefIsCopied ==
  ASSUME Next
  PROVE  ref' = ref \/ Renders
<1>1. CASE Start \/ Stop \/ Render
  BY <1>1 DEF Start, Stop, Forget, Render, Renders, shown
<1>2. CASE ConnectionUp \/ ConnectionDown \/ \E s \in Slots : ReportState(s) \/ SelectSlot(s)
  BY <1>2 DEF ConnectionUp, ConnectionDown, ReportState, SelectSlot, Report, Defers, Acts
<1>3. CASE RecordMedia \/ ProcessMedia
  BY <1>3 DEF RecordMedia, ProcessMedia, Dropped, Assessed, Defers
<1>4. CASE AssessmentAnswers
  BY <1>4 DEF AssessmentAnswers, Judged, Defers
<1>5. CASE (\E s \in Images : RemoveMedia(s)) \/ AdoptBackground \/ ReplaceFront
  BY <1>5 DEF RemoveMedia, AdoptBackground, ReplaceFront, Defers, Acts
<1>6. CASE RecordMeasurement \/ RetakeMeasurement
           \/ (\E c \in 1..MaxMeasured : MeasurementAnswers(c))
  BY <1>6 DEF RecordMeasurement, RetakeMeasurement, MeasurementAnswers, Defers, Acts
<1>7. CASE \/ \E size \in Sizes \cup {NoSize} : UpdateMeasurement(size)
           \/ ApproveMeasurement \/ ApproveCapture
  BY <1>7 DEF UpdateMeasurement, ApproveMeasurement, ApproveCapture, Acts
<1> QED
  BY <1>1, <1>2, <1>3, <1>4, <1>5, <1>6, <1>7 DEF Next

-----------------------------------------------------------------------------
(* Types                                                                    *)

LEMMA RefTypes ==
  ASSUME TypeOK, Next
  PROVE  SlotsOK(slots') /\ activeSlot' \in Slots => ref' \in Refs
BY RefIsCopied DEF TypeOK, Renders, Refs, SlotsOK

(* What a closed or a new session forgets.                                  *)
LEMMA ForgetTypes ==
  ASSUME TypeOK, Next, Forget, SlotsOK(slots'), phase' \in Phases
  PROVE  TypeOK'
<1>1. waiting' \in Seq(Tickets) /\ job' \in Jobs
  BY OutdatedKeeps DEF TypeOK, Forget
<1>2. requests' \in [Images -> 0..MaxPhotos]
  BY BoundsAreNumbers DEF Forget
<1>3. discarded' \subseteq Photos
  BY BoundsAreNumbers DEF TypeOK, Forget, Photos
<1>4. measuring' \in calls' \cup {0} /\ drawn' \in 0..measured'
  BY BoundsAreNumbers DEF TypeOK, Forget, counters
<1>5. ref' \in Refs
  BY RefTypes, SlotFacts DEF Forget
<1> QED
  BY <1>1, <1>2, <1>3, <1>4, <1>5, SlotFacts DEF TypeOK, Forget, SlotsOK, counters

(* Starting, stopping, the connection, the Agent and the choice of a slot.  *)
LEMMA SessionTypes ==
  ASSUME TypeOK, Next,
         \/ Start \/ Stop \/ Render \/ ConnectionUp \/ ConnectionDown
         \/ \E s \in Slots : ReportState(s) \/ SelectSlot(s)
  PROVE  TypeOK'
<1> SlotsOK(slots)
  BY DEF TypeOK, SlotsOK
<1> SlotsOK(slots') /\ activeSlot' \in Slots => ref' \in Refs
  BY RefTypes
<1>1. CASE Start
  <2>1. SlotsOK(slots')
    <3>1. Front \in Slots /\ "active" \in Statuses
      BY SlotFacts DEF Statuses
    <3>2. SlotsOK([Empty EXCEPT ![Front].status = "active"])
      BY <3>1, EmptySlots, SlotTurns
    <3> QED
      BY <1>1, <3>2 DEF Start
  <2> QED
    BY <1>1, <2>1, ForgetTypes DEF Start, Phases
<1>2. CASE Stop
  BY <1>2, EmptySlots, ForgetTypes DEF Stop, Phases
<1>3. CASE ConnectionUp \/ ConnectionDown
  <2>1. phase' \in Phases
    BY <1>3 DEF ConnectionUp, ConnectionDown, WorkflowPhase, Phases
  <2>2. Report /\ UNCHANGED <<activeSlot, slots>>
    BY <1>3 DEF ConnectionUp, ConnectionDown
  <2> QED
    BY <2>1, <2>2, BoundsAreNumbers DEF TypeOK, Report, work, history
<1>4. ASSUME NEW s \in Slots, ReportState(s)
      PROVE  TypeOK'
  <2> DEFINE st == IF slots[s].status = "pending" THEN "active" ELSE slots[s].status
  <2>1. st \in Statuses
    BY DEF TypeOK, SlotRecords, Statuses
  <2>2. slots' = [slots EXCEPT ![s].status = st]
    BY <1>4 DEF ReportState
  <2>3. SlotsOK(slots')
    BY <2>1, <2>2, SlotTurns
  <2>4. phase' \in Phases
    BY <1>4 DEF ReportState, WorkflowPhase, Phases
  <2> QED
    BY <1>4, <2>3, <2>4, BoundsAreNumbers
       DEF TypeOK, ReportState, Report, work, history, SlotsOK
<1>5. ASSUME NEW s \in Slots, SelectSlot(s)
      PROVE  TypeOK'
  <2> DEFINE st == IF s = Measurement THEN slots[s].status ELSE "active"
  <2>1. st \in Statuses
    BY DEF TypeOK, SlotRecords, Statuses
  <2>2. slots' = [slots EXCEPT ![s].status = st]
    BY <1>5 DEF SelectSlot
  <2>3. SlotsOK(slots')
    BY <2>1, <2>2, SlotTurns
  <2>4. phase' \in Phases
    BY <1>5 DEF SelectSlot, WorkflowPhase, Phases
  <2> QED
    BY <1>5, <2>3, <2>4 DEF TypeOK, SelectSlot, work, counters, history, SlotsOK
<1>6. CASE Render
  BY <1>6, RefTypes DEF TypeOK, Render, shown, work, counters, history
<1> QED
  BY <1>1, <1>2, <1>3, <1>4, <1>5, <1>6

(* Recording, queueing, assessing, removing and replacing pictures.         *)
LEMMA PictureTypes ==
  ASSUME TypeOK, Next,
         \/ RecordMedia \/ ProcessMedia \/ AssessmentAnswers
         \/ \E s \in Images : RemoveMedia(s)
         \/ AdoptBackground \/ ReplaceFront
  PROVE  TypeOK'
<1> SlotsOK(slots)
  BY DEF TypeOK, SlotsOK
<1> SlotsOK(slots') /\ activeSlot' \in Slots => ref' \in Refs
  BY RefTypes
<1>1. CASE RecordMedia
  <2>1. [photo |-> recorded + 1, fresh |-> TRUE] \in Tickets
    BY <1>1, BoundsAreNumbers DEF TypeOK, RecordMedia, Tickets, Photos
  <2>2. waiting' \in Seq(Tickets) /\ recorded' \in 0..MaxPhotos
    BY <1>1, <2>1, BoundsAreNumbers DEF TypeOK, RecordMedia
  <2> QED
    BY <1>1, <2>2 DEF TypeOK, RecordMedia, shown, history
<1>2. CASE ProcessMedia
  <2>1. waiting' \in Seq(Tickets) /\ Head(waiting) \in Tickets
    BY <1>2 DEF TypeOK, ProcessMedia
  <2>2. CASE Dropped
    BY <1>2, <2>1, <2>2 DEF TypeOK, ProcessMedia, Dropped, shown, counters, history
  <2>3. ASSUME NEW s \in Target, Assessed(s)
        PROVE  TypeOK'
    <3>1. s \in Images
      BY SlotFacts DEF Target
    <3>2. Head(waiting).photo \in Photos /\ Head(waiting).photo \in 0..MaxPhotos
      BY <2>1, BoundsAreNumbers DEF Tickets, Photos
    <3>3. SlotsOK(slots')
      BY <2>3, <3>1, <3>2, SlotGets DEF Assessed, Statuses
    <3>4. job' \in Jobs /\ requests' \in [Images -> 0..MaxPhotos]
      BY <2>3, <3>1, <3>2 DEF TypeOK, Assessed, Jobs
    <3> QED
      BY <1>2, <2>1, <2>3, <3>1, <3>3, <3>4, SlotFacts
         DEF TypeOK, ProcessMedia, Assessed, counters, history, SlotsOK, Phases
  <2> QED
    BY <1>2, <2>2, <2>3 DEF ProcessMedia
<1>3. CASE AssessmentAnswers
  <2>1. job.slot \in Images /\ job.photo \in 0..MaxPhotos
    BY DEF TypeOK, Jobs
  <2>2. /\ SlotsOK(slots')
        /\ activeSlot' \in Slots
        /\ phase' \in Phases
        /\ requests' \in [Images -> 0..MaxPhotos]
    <3>1. CASE IsCurrentRequest /\ IsSlotsPicture /\ Accepted
      <4>1. SlotsOK(slots')
        BY <3>1, <2>1, SlotGets DEF Accepted, Statuses
      <4>2. activeSlot' \in Slots /\ phase' \in Phases
        BY <3>1, SlotFacts DEF Accepted, Phases
      <4> QED
        BY <1>3, <3>1, <4>1, <4>2, <2>1, BoundsAreNumbers DEF TypeOK, AssessmentAnswers
    <3>2. CASE IsCurrentRequest /\ IsSlotsPicture /\ Refused
      <4>1. SlotsOK(slots')
        BY <3>2, <2>1, SlotGets DEF Refused, Statuses
      <4>2. activeSlot' \in Slots /\ phase' \in Phases
        BY <3>2, <2>1, SlotFacts DEF Refused, Phases
      <4> QED
        BY <1>3, <3>2, <4>1, <4>2, <2>1, BoundsAreNumbers DEF TypeOK, AssessmentAnswers
    <3>3. CASE ~(IsCurrentRequest /\ IsSlotsPicture)
      BY <1>3, <3>3, <2>1, BoundsAreNumbers
         DEF TypeOK, AssessmentAnswers, Judged, IsSlotsPicture
    <3> QED
      BY <1>3, <3>1, <3>2, <3>3 DEF AssessmentAnswers, Judged, IsSlotsPicture
  <2>3. job' \in Jobs
    BY <1>3, SlotFacts, BoundsAreNumbers DEF AssessmentAnswers, NoJob, Jobs
  <2> QED
    BY <1>3, <2>2, <2>3 DEF TypeOK, AssessmentAnswers, counters, history, SlotsOK
<1>4. ASSUME NEW s \in Images, RemoveMedia(s)
      PROVE  TypeOK'
  <2>1. SlotsOK(slots')
    <3>1. "active" \in Statuses /\ 0 \in 0..MaxPhotos
      BY BoundsAreNumbers DEF Statuses
    <3>2. SlotsOK([slots EXCEPT ![s] = [status |-> "active", photo |-> 0]])
      BY <3>1, SlotGets
    <3> QED
      BY <1>4, <3>2 DEF RemoveMedia
  <2>2. waiting' \in Seq(Tickets) /\ job' \in Jobs
    BY <1>4, OutdatedKeeps DEF TypeOK, RemoveMedia
  <2>3. requests' \in [Images -> 0..MaxPhotos] /\ background' \in BOOLEAN
    BY <1>4, BoundsAreNumbers DEF TypeOK, RemoveMedia
  <2>4. slots[s].photo \in Photos
    BY <1>4, BoundsAreNumbers, SlotFacts DEF TypeOK, RemoveMedia, SlotRecords, Photos
  <2> QED
    BY <1>4, <2>1, <2>2, <2>3, <2>4, SlotFacts
       DEF TypeOK, RemoveMedia, counters, SlotsOK, Phases
<1>5. CASE AdoptBackground
  <2>1. adopting' \in 0..MaxPhotos
    BY <1>5, SlotFacts DEF TypeOK, AdoptBackground, SlotRecords
  <2> QED
    BY <1>5, <2>1 DEF TypeOK, AdoptBackground, shown, counters, history
<1>6. CASE ReplaceFront
  <2>1. recorded + 1 \in Photos /\ recorded + 1 \in 0..MaxPhotos /\ 0 \in 0..MaxPhotos
    BY <1>6, BoundsAreNumbers DEF TypeOK, ReplaceFront, Photos
  <2>2. SlotsOK(slots')
    BY <1>6, <2>1, SlotFacts DEF SlotsOK, SlotRecords, ReplaceFront
  <2>3. waiting' \in Seq(Tickets) /\ job' \in Jobs
    BY <1>6, OutdatedKeeps DEF TypeOK, ReplaceFront
  <2>4. requests' \in [Images -> 0..MaxPhotos] /\ background' \in BOOLEAN
    BY <1>6, <2>1 DEF TypeOK, ReplaceFront
  <2> QED
    BY <1>6, <2>1, <2>2, <2>3, <2>4 DEF TypeOK, ReplaceFront, SlotsOK
<1> QED
  BY <1>1, <1>2, <1>3, <1>4, <1>5, <1>6

(* Measuring, by picture or by hand, and the approvals.                     *)
LEMMA MeasurementTypes ==
  ASSUME TypeOK, Next,
         \/ RecordMeasurement
         \/ \E c \in 1..MaxMeasured : MeasurementAnswers(c)
         \/ RetakeMeasurement
         \/ \E size \in Sizes \cup {NoSize} : UpdateMeasurement(size)
         \/ ApproveMeasurement \/ ApproveCapture
  PROVE  TypeOK'
<1> SlotsOK(slots)
  BY DEF TypeOK, SlotsOK
<1> SlotsOK(slots') /\ activeSlot' \in Slots => ref' \in Refs
  BY RefTypes
<1>1. CASE RecordMeasurement
  <2>1. SlotsOK(slots')
    BY <1>1, Demoted, SlotTurns, SlotFacts DEF RecordMeasurement, Statuses
  <2>2. /\ measured' \in 0..MaxMeasured
        /\ measuring' \in calls' \cup {0} /\ calls' \subseteq 1..measured'
        /\ stale' \subseteq 1..measured' /\ drawn' \in 0..measured'
    BY <1>1, BoundsAreNumbers DEF TypeOK, RecordMeasurement
  <2> QED
    BY <1>1, <2>1, <2>2, SlotFacts DEF TypeOK, RecordMeasurement, SlotsOK, Phases
<1>2. ASSUME NEW c \in 1..MaxMeasured, MeasurementAnswers(c)
      PROVE  TypeOK'
  <2>1. /\ SlotsOK(slots')
        /\ draft' \in Sizes \cup {NoSize}
        /\ drawn' \in 0..measured
        /\ activeSlot' \in Slots
        /\ phase' \in Phases
        /\ measuring' \in calls' \cup {0}
    <3>1. CASE IsCurrentMeasurement(c) /\ NotDrafted
      <4>1. SlotsOK(slots')
        BY <3>1, SlotTurns, SlotFacts DEF NotDrafted, Statuses
      <4> QED
        BY <1>2, <3>1, <4>1, SlotFacts DEF TypeOK, MeasurementAnswers, NotDrafted, Phases
    <3>2. CASE IsCurrentMeasurement(c) /\ \E size \in Sizes \cup {NoSize} : Drafted(c, size)
      <4>1. c \in 0..measured
        BY <1>2, BoundsAreNumbers DEF TypeOK, MeasurementAnswers
      <4>2. PICK size \in Sizes \cup {NoSize} : Drafted(c, size)
        BY <3>2
      <4>3. /\ slots' = [slots EXCEPT ![Measurement].status = "captured"]
            /\ draft' \in Sizes \cup {NoSize} /\ drawn' = c
        BY <4>2 DEF Drafted
      <4>4. SlotsOK(slots')
        BY <4>3, SlotTurns, SlotFacts DEF Statuses
      <4> QED
        BY <1>2, <3>2, <4>1, <4>3, <4>4, SlotFacts DEF TypeOK, MeasurementAnswers, Phases
    <3>3. CASE ~IsCurrentMeasurement(c)
      BY <1>2, <3>3 DEF TypeOK, MeasurementAnswers, IsCurrentMeasurement
    <3> QED
      BY <1>2, <3>1, <3>2, <3>3 DEF MeasurementAnswers
  <2> QED
    BY <1>2, <2>1 DEF TypeOK, MeasurementAnswers, counters, SlotsOK
<1>3. CASE RetakeMeasurement
  <2>1. SlotsOK(slots')
    BY <1>3, Demoted, SlotTurns, SlotFacts DEF RetakeMeasurement, Statuses
  <2>2. drawn' \in 0..measured /\ stale' \subseteq 1..measured
    BY <1>3, BoundsAreNumbers DEF TypeOK, RetakeMeasurement
  <2> QED
    BY <1>3, <2>1, <2>2, SlotFacts
       DEF TypeOK, RetakeMeasurement, counters, SlotsOK, Phases
<1>4. ASSUME NEW size \in Sizes \cup {NoSize}, UpdateMeasurement(size)
      PROVE  TypeOK'
  <2>1. SlotsOK(slots')
    BY <1>4, SlotTurns, SlotFacts DEF UpdateMeasurement, Statuses
  <2> QED
    BY <1>4, <2>1 DEF TypeOK, UpdateMeasurement, work, counters, history, SlotsOK, Phases
<1>5. CASE ApproveMeasurement
  <2>1. SlotsOK(slots')
    BY <1>5, SlotTurns, SlotFacts DEF ApproveMeasurement, Statuses
  <2> QED
    BY <1>5, <2>1, SlotFacts
       DEF TypeOK, ApproveMeasurement, work, counters, history, SlotsOK, Phases
<1>6. CASE ApproveCapture
  <2>1. SlotsOK(slots')
    BY <1>6, SlotFacts DEF ApproveCapture, SlotsOK, SlotRecords, Statuses
  <2>2. seen' \in Reviews
    <3>1. \A s \in Images : slots[s].photo \in 0..MaxPhotos
      BY SlotFacts DEF TypeOK, SlotRecords
    <3> QED
      BY <1>6, <3>1 DEF TypeOK, ApproveCapture, Reviews
  <2> QED
    BY <1>6, <2>1, <2>2, SlotFacts
       DEF TypeOK, ApproveCapture, work, counters, SlotsOK, Phases
<1> QED
  BY <1>1, <1>2, <1>3, <1>4, <1>5, <1>6

(* Every value stays of its type, whatever is recorded, removed, answered   *)
(* or closed, and in which order (useGuidedCaptureController.ts).           *)
THEOREM TypeCorrect == Spec => []TypeOK
<1>1. Init => TypeOK
  <2> SUFFICES ASSUME Init PROVE TypeOK
    OBVIOUS
  <2>1. SlotsOK(slots) /\ activeSlot \in Slots
    BY EmptySlots, SlotFacts DEF Init
  <2>2. job \in Jobs /\ requests \in [Images -> 0..MaxPhotos]
    BY SlotFacts, BoundsAreNumbers DEF Init, NoJob, Jobs
  <2>3. seen \in Reviews
    BY BoundsAreNumbers DEF Init, NothingSeen, Reviews
  <2>4. waiting \in Seq(Tickets)
    BY DEF Init
  <2>5. 0 \in 0..MaxPhotos /\ 0 \in 0..MaxMeasured /\ 0 \in 0..MaxReports /\ 0 \in 0..0
    BY BoundsAreNumbers
  <2>6. ref \in Refs
    BY <2>1, SlotFacts DEF Init, Refs, SlotsOK
  <2> QED
    BY <2>1, <2>2, <2>3, <2>4, <2>5, <2>6 DEF Init, TypeOK, SlotsOK, Phases
<1>2. TypeOK /\ [Next]_vars => TypeOK'
  <2> SUFFICES ASSUME TypeOK, [Next]_vars PROVE TypeOK'
    OBVIOUS
  <2>1. CASE Next
    BY <2>1, SessionTypes, PictureTypes, MeasurementTypes DEF Next
  <2>2. CASE UNCHANGED vars
    BY <2>2 DEF TypeOK, vars, shown, work, counters, history
  <2> QED
    BY <2>1, <2>2
<1> QED
  BY <1>1, <1>2, PTL DEF Spec

-----------------------------------------------------------------------------
(* What is thrown away stays out                                            *)

(* Pictures are numbers.                                                    *)
LEMMA PhotosAreNumbers ==
  ASSUME TypeOK
  PROVE  /\ job.photo \in Nat
         /\ \A s \in Images : slots[s].photo \in Nat
         /\ \A k \in DOMAIN waiting : waiting[k].photo \in Nat
<1>1. job.photo \in Nat
  BY BoundsAreNumbers DEF TypeOK, Jobs
<1>2. \A s \in Images : slots[s].photo \in Nat
  BY SlotFacts, BoundsAreNumbers DEF TypeOK, SlotRecords
<1>3. \A k \in DOMAIN waiting : waiting[k].photo \in Nat
  <2>1. \A k \in DOMAIN waiting : waiting[k] \in Tickets
    BY DEF TypeOK
  <2> QED
    BY <2>1, BoundsAreNumbers DEF Tickets, Photos
<1> QED
  BY <1>1, <1>2, <1>3

(* Steps that move no picture: statuses may change, but no slot without a   *)
(* picture gets filled.                                                     *)
LEMMA PhotosFrame ==
  ASSUME PhotosIInv,
         UNCHANGED <<waiting, job, recorded, discarded>>,
         \A s \in Images : /\ slots'[s].photo = slots[s].photo
                           /\ Done(slots', s) => Done(slots, s)
  PROVE  PhotosIInv'
BY DEF PhotosIInv, SlotsHoldGoodPhotos, SlotsShareNoPhoto, QueueHoldsNewPhotos,
       QueueHasNoRepeats, JobHoldsItsPhoto

(* What a closed or a new session leaves behind cannot come back.           *)
LEMMA PhotosForgotten ==
  ASSUME TypeOK, PhotosIInv, Forget,
         \A s \in Images : slots'[s].photo = 0 /\ ~Done(slots', s)
  PROVE  PhotosIInv'
<1>1. UNCHANGED recorded /\ discarded' = 1..recorded /\ recorded \in Nat
  BY BoundsAreNumbers DEF TypeOK, Forget, counters
<1>2. /\ DOMAIN waiting' = DOMAIN waiting
      /\ \A k \in DOMAIN waiting :
           waiting'[k].photo = waiting[k].photo /\ ~waiting'[k].fresh
      /\ job'.photo = job.photo /\ ~job'.fresh
  BY OutdatedKeeps DEF TypeOK, Forget
<1> QED
  BY <1>1, <1>2
     DEF PhotosIInv, SlotsHoldGoodPhotos, SlotsShareNoPhoto, QueueHoldsNewPhotos,
         QueueHasNoRepeats, JobHoldsItsPhoto

(* Every step but those below moves no picture.                             *)
LEMMA PhotosStay ==
  ASSUME TypeOK, PhotosIInv,
         \/ Render \/ ConnectionUp \/ ConnectionDown
         \/ \E s \in Slots : ReportState(s) \/ SelectSlot(s)
         \/ AdoptBackground
         \/ RecordMeasurement
         \/ \E c \in 1..MaxMeasured : MeasurementAnswers(c)
         \/ RetakeMeasurement
         \/ \E size \in Sizes \cup {NoSize} : UpdateMeasurement(size)
         \/ ApproveMeasurement \/ ApproveCapture
  PROVE  PhotosIInv'
<1> SlotsOK(slots)
  BY DEF TypeOK, SlotsOK
<1>1. CASE Render \/ ConnectionUp \/ ConnectionDown \/ AdoptBackground
  BY <1>1, PhotosFrame
     DEF Render, ConnectionUp, ConnectionDown, Report, AdoptBackground, shown, work, counters, history
<1>2. ASSUME NEW s \in Slots, ReportState(s)
      PROVE  PhotosIInv'
  <2> DEFINE st == IF slots[s].status = "pending" THEN "active" ELSE slots[s].status
  <2>1. st \in Statuses /\ (st \in {"captured", "approved"} => Done(slots, s))
    BY DEF TypeOK, SlotRecords, Statuses, Done
  <2>2. slots' = [slots EXCEPT ![s].status = st]
    BY <1>2 DEF ReportState
  <2>3. \A t \in Images : /\ slots'[t].photo = slots[t].photo
                          /\ Done(slots', t) => Done(slots, t)
    BY <2>1, <2>2, SlotTurns, SlotFacts DEF Done
  <2> QED
    BY <1>2, <2>3, PhotosFrame DEF ReportState, Report, work, history
<1>3. ASSUME NEW s \in Slots, SelectSlot(s)
      PROVE  PhotosIInv'
  <2> DEFINE st == IF s = Measurement THEN slots[s].status ELSE "active"
  <2>1. st \in Statuses /\ (st \in {"captured", "approved"} => Done(slots, s))
    BY DEF TypeOK, SlotRecords, Statuses, Done
  <2>2. slots' = [slots EXCEPT ![s].status = st]
    BY <1>3 DEF SelectSlot
  <2>3. \A t \in Images : /\ slots'[t].photo = slots[t].photo
                          /\ Done(slots', t) => Done(slots, t)
    BY <2>1, <2>2, SlotTurns, SlotFacts DEF Done
  <2> QED
    BY <1>3, <2>3, PhotosFrame DEF SelectSlot, work, counters, history
<1>4. CASE RecordMeasurement \/ RetakeMeasurement
  <2>1. PICK st \in Statuses :
          slots' = [DemoteApprovals(slots) EXCEPT ![Measurement].status = st]
    BY <1>4 DEF RecordMeasurement, RetakeMeasurement, Statuses
  <2>2. \A t \in Images : slots'[t] = DemoteApprovals(slots)[t]
    BY <2>1, Demoted, SlotTurns, SlotFacts
  <2>3. \A t \in Images : /\ slots'[t].photo = slots[t].photo
                          /\ Done(slots', t) => Done(slots, t)
    BY <2>2, Demoted, SlotFacts DEF Done
  <2> QED
    BY <1>4, <2>3, PhotosFrame DEF RecordMeasurement, RetakeMeasurement, counters
<1>5. CASE \/ \E c \in 1..MaxMeasured : MeasurementAnswers(c)
           \/ \E size \in Sizes \cup {NoSize} : UpdateMeasurement(size)
           \/ ApproveMeasurement
  <2>1. \/ slots' = slots
        \/ \E st \in Statuses : slots' = [slots EXCEPT ![Measurement].status = st]
    BY <1>5 DEF MeasurementAnswers, NotDrafted, Drafted, UpdateMeasurement,
                ApproveMeasurement, Statuses
  <2>2. \A t \in Images : slots'[t] = slots[t]
    <3>1. ASSUME NEW st \in Statuses,
                 slots' = [slots EXCEPT ![Measurement].status = st]
          PROVE  \A t \in Images : slots'[t] = slots[t]
      BY <3>1, SlotTurns, SlotFacts
    <3> QED
      BY <2>1, <3>1
  <2>3. UNCHANGED <<waiting, job, recorded, discarded>>
    BY <1>5 DEF MeasurementAnswers, UpdateMeasurement, ApproveMeasurement, work,
                counters, history
  <2> QED
    BY <2>2, <2>3, PhotosFrame DEF Done
<1>6. CASE ApproveCapture
  <2>1. \A t \in Images : slots'[t].photo = slots[t].photo /\ Done(slots, t)
    BY <1>6, SlotFacts DEF ApproveCapture, AllCaptured, SlotsOK, SlotRecords
  <2> QED
    BY <1>6, <2>1, PhotosFrame DEF ApproveCapture, work, counters
<1> QED
  BY <1>1, <1>2, <1>3, <1>4, <1>5, <1>6

(* A picture that is recorded is newer than all there are.                  *)
LEMMA PhotosRecorded ==
  ASSUME TypeOK, PhotosIInv, RecordMedia
  PROVE  PhotosIInv'
<1> DEFINE n == Len(waiting)
<1>1. /\ n \in Nat /\ DOMAIN waiting = 1..n /\ DOMAIN waiting' = 1..(n + 1)
      /\ \A k \in 1..n : waiting'[k] = waiting[k]
      /\ waiting'[n + 1].photo = recorded + 1
  BY DEF TypeOK, RecordMedia
<1>2. /\ recorded \in Nat /\ recorded' = recorded + 1
      /\ UNCHANGED <<slots, job, discarded>>
  BY BoundsAreNumbers DEF TypeOK, RecordMedia, shown, history
<1>3. /\ job.photo \in Nat
      /\ \A s \in Images : slots[s].photo \in Nat
      /\ \A k \in 1..n : waiting[k].photo \in Nat
  BY <1>1, PhotosAreNumbers
<1>4. SlotsHoldGoodPhotos' /\ SlotsShareNoPhoto' /\ discarded' \subseteq 1..recorded'
  BY <1>2, <1>3 DEF PhotosIInv, SlotsHoldGoodPhotos, SlotsShareNoPhoto
<1>5. QueueHoldsNewPhotos'
  <2> SUFFICES ASSUME NEW k \in DOMAIN waiting'
               PROVE  /\ waiting'[k].photo <= recorded'
                      /\ waiting'[k].fresh =>
                           /\ waiting'[k].photo \notin discarded'
                           /\ waiting'[k].photo # job'.photo
                           /\ \A s \in Images : slots'[s].photo # waiting'[k].photo
    BY DEF QueueHoldsNewPhotos
  <2>1. CASE k \in 1..n
    BY <1>1, <1>2, <1>3, <2>1 DEF PhotosIInv, QueueHoldsNewPhotos
  <2>2. CASE k = n + 1
    BY <1>1, <1>2, <1>3, <2>2 DEF PhotosIInv, SlotsHoldGoodPhotos, JobHoldsItsPhoto
  <2> QED
    BY <1>1, <2>1, <2>2
<1>6. QueueHasNoRepeats'
  <2>1. \A k \in 1..n : waiting'[k].photo # recorded + 1
    BY <1>1, <1>2, <1>3 DEF PhotosIInv, QueueHoldsNewPhotos
  <2> QED
    BY <1>1, <2>1 DEF PhotosIInv, QueueHasNoRepeats
<1>7. JobHoldsItsPhoto'
  BY <1>2, <1>3 DEF PhotosIInv, JobHoldsItsPhoto
<1> QED
  BY <1>4, <1>5, <1>6, <1>7 DEF PhotosIInv

(* The picture that is assessed comes from the head of the queue, and goes  *)
(* to a slot that waits for one.                                            *)
LEMMA TargetWaits ==
  ASSUME NEW s \in Target
  PROVE  s \in Images /\ ~Done(ref.slots, s)
BY SlotFacts DEF Target

LEMMA PhotosProcessed ==
  ASSUME TypeOK, PhotosIInv, ProcessMedia
  PROVE  PhotosIInv'
<1> DEFINE n == Len(waiting)
<1>1. /\ n \in Nat /\ n > 0
      /\ DOMAIN waiting = 1..n /\ DOMAIN waiting' = 1..(n - 1)
      /\ Head(waiting) = waiting[1]
      /\ \A k \in 1..(n - 1) : waiting'[k] = waiting[k + 1] /\ k + 1 \in 1..n /\ k + 1 # 1
  BY DEF TypeOK, ProcessMedia
<1>2. UNCHANGED <<recorded, discarded>> /\ job.photo = 0 /\ ~job.fresh
  BY DEF ProcessMedia, counters, history, NoJob
<1>3. QueueHasNoRepeats'
  <2> SUFFICES ASSUME NEW k \in 1..(n - 1), NEW l \in 1..(n - 1),
                      waiting'[k].photo = waiting'[l].photo
               PROVE  k = l
    BY <1>1 DEF QueueHasNoRepeats
  <2>1. waiting[k + 1].photo = waiting[l + 1].photo
    BY <1>1
  <2>2. k + 1 = l + 1
    BY <1>1, <2>1 DEF PhotosIInv, QueueHasNoRepeats
  <2> QED
    BY <2>2
<1>4. CASE Dropped
  <2>1. UNCHANGED <<slots, job>>
    BY <1>4 DEF Dropped, shown
  <2>2. QueueHoldsNewPhotos'
    BY <1>1, <1>2, <2>1 DEF PhotosIInv, QueueHoldsNewPhotos
  <2> QED
    BY <1>2, <1>3, <2>1, <2>2
       DEF PhotosIInv, SlotsHoldGoodPhotos, SlotsShareNoPhoto, JobHoldsItsPhoto
<1>5. ASSUME NEW s \in Target, Assessed(s)
      PROVE  PhotosIInv'
  <2> DEFINE p == waiting[1].photo
  <2>1. s \in Images
    BY TargetWaits
  <2>2. /\ p <= recorded /\ p \in Nat /\ p # 0 /\ p \notin discarded
        /\ \A t \in Images : slots[t].photo # p
    <3>1. waiting[1] \in Tickets /\ waiting[1].fresh
      BY <1>1, <1>5 DEF TypeOK, Assessed
    <3>2. p \in Nat /\ p # 0
      BY <3>1, BoundsAreNumbers DEF Tickets, Photos
    <3> QED
      BY <1>1, <3>1, <3>2 DEF PhotosIInv, QueueHoldsNewPhotos
  <2>3. /\ slots'[s].photo = p /\ slots'[s].status = "active"
        /\ \A t \in Images \ {s} : slots'[t] = slots[t]
        /\ job'.slot = s /\ job'.photo = p /\ job'.fresh
    BY <1>1, <1>5, <2>1, SlotFacts DEF TypeOK, Assessed
  <2>4. \A k \in 1..(n - 1) : waiting'[k].photo # p
    BY <1>1 DEF PhotosIInv, QueueHasNoRepeats
  <2>5. SlotsHoldGoodPhotos'
    BY <1>2, <2>2, <2>3 DEF PhotosIInv, SlotsHoldGoodPhotos, Done
  <2>6. SlotsShareNoPhoto'
    BY <2>2, <2>3 DEF PhotosIInv, SlotsShareNoPhoto
  <2>7. QueueHoldsNewPhotos'
    BY <1>1, <1>2, <2>3, <2>4 DEF PhotosIInv, QueueHoldsNewPhotos
  <2>8. JobHoldsItsPhoto'
    BY <1>2, <2>2, <2>3 DEF JobHoldsItsPhoto
  <2> QED
    BY <1>2, <1>3, <2>5, <2>6, <2>7, <2>8 DEF PhotosIInv
<1> QED
  BY <1>4, <1>5 DEF ProcessMedia

(* An answer that counts puts the assessed picture in its own slot, where   *)
(* there is none or this one already.                                       *)
LEMMA PhotosAnswered ==
  ASSUME TypeOK, PhotosIInv, AssessmentAnswers
  PROVE  PhotosIInv'
<1>1. UNCHANGED <<waiting, recorded, discarded>> /\ job'.photo = 0 /\ ~job'.fresh
  BY DEF AssessmentAnswers, NoJob, counters, history
<1>2. JobHoldsItsPhoto' /\ discarded' \subseteq 1..recorded'
  BY <1>1, BoundsAreNumbers DEF PhotosIInv, TypeOK, JobHoldsItsPhoto
<1>3. \A k \in DOMAIN waiting : waiting[k].photo # 0
  <2>1. \A k \in DOMAIN waiting : waiting[k] \in Tickets
    BY DEF TypeOK
  <2> QED
    BY <2>1, BoundsAreNumbers DEF Tickets, Photos
<1>4. CASE ~(IsCurrentRequest /\ IsSlotsPicture)
  <2>1. UNCHANGED slots
    BY <1>4 DEF AssessmentAnswers, Judged, IsSlotsPicture
  <2> QED
    BY <1>1, <1>2, <1>3, <2>1
       DEF PhotosIInv, SlotsHoldGoodPhotos, SlotsShareNoPhoto, QueueHoldsNewPhotos,
           QueueHasNoRepeats
<1>5. CASE IsCurrentRequest /\ IsSlotsPicture
  <2>1. job.slot \in Images
    BY DEF TypeOK, Jobs
  <2>2. /\ job.photo <= recorded /\ job.photo # 0 /\ job.photo \notin discarded
        /\ \A t \in Images : slots[t].photo = job.photo => t = job.slot
    BY <1>5 DEF PhotosIInv, JobHoldsItsPhoto, IsCurrentRequest
  <2>3. PICK st \in Statuses :
          slots' = [slots EXCEPT ![job.slot] = [status |-> st, photo |-> job.photo]]
    BY <1>5 DEF AssessmentAnswers, Judged, IsSlotsPicture, Accepted, Refused, Statuses
  <2>4. /\ slots'[job.slot].photo = job.photo
        /\ \A t \in Images \ {job.slot} : slots'[t] = slots[t]
    BY <2>1, <2>3, SlotFacts DEF TypeOK
  <2>5. SlotsHoldGoodPhotos' /\ SlotsShareNoPhoto'
    BY <1>1, <2>1, <2>2, <2>4 DEF PhotosIInv, SlotsHoldGoodPhotos, SlotsShareNoPhoto, Done
  <2>6. QueueHoldsNewPhotos' /\ QueueHasNoRepeats'
    BY <1>1, <1>3, <2>1, <2>4 DEF PhotosIInv, QueueHoldsNewPhotos, QueueHasNoRepeats
  <2> QED
    BY <1>2, <2>5, <2>6, <1>1 DEF PhotosIInv
<1> QED
  BY <1>4, <1>5

(* A picture that is removed was in no other place that counts.             *)
LEMMA PhotosRemoved ==
  ASSUME TypeOK, PhotosIInv, NEW s \in Images, RemoveMedia(s)
  PROVE  PhotosIInv'
<1> DEFINE p == slots[s].photo
<1>1. /\ p # 0 /\ p \in Nat /\ p <= recorded /\ recorded \in Nat
      /\ \A t \in Images \ {s} : slots[t].photo # p
  BY PhotosAreNumbers, BoundsAreNumbers
     DEF TypeOK, RemoveMedia, PhotosIInv, SlotsHoldGoodPhotos, SlotsShareNoPhoto
<1>2. /\ slots'[s].photo = 0 /\ slots'[s].status = "active"
      /\ \A t \in Images \ {s} : slots'[t] = slots[t]
  BY SlotFacts DEF TypeOK, RemoveMedia
<1>3. UNCHANGED recorded /\ discarded' = discarded \cup {p}
  BY DEF RemoveMedia, counters
<1>4. /\ DOMAIN waiting' = DOMAIN waiting
      /\ \A k \in DOMAIN waiting :
           waiting'[k].photo = waiting[k].photo /\ ~waiting'[k].fresh
      /\ job'.photo = job.photo /\ ~job'.fresh
  BY OutdatedKeeps DEF TypeOK, RemoveMedia
<1>5. discarded' \subseteq 1..recorded'
  <2>1. p \in 1..recorded
    BY <1>1
  <2> QED
    BY <1>3, <2>1 DEF PhotosIInv
<1>6. SlotsHoldGoodPhotos'
  <2>1. slots'[s].photo <= recorded' /\ slots'[s].photo \notin discarded' /\ ~Done(slots', s)
    BY <1>1, <1>2, <1>3, <1>5 DEF Done
  <2>2. \A t \in Images \ {s} :
          /\ slots'[t].photo <= recorded' /\ slots'[t].photo \notin discarded'
          /\ Done(slots', t) => slots'[t].photo # 0
    BY <1>1, <1>2, <1>3 DEF PhotosIInv, SlotsHoldGoodPhotos, Done
  <2> QED
    BY <2>1, <2>2 DEF SlotsHoldGoodPhotos
<1>7. SlotsShareNoPhoto'
  BY <1>1, <1>2 DEF PhotosIInv, SlotsShareNoPhoto
<1>8. QueueHoldsNewPhotos' /\ QueueHasNoRepeats' /\ JobHoldsItsPhoto'
  BY <1>3, <1>4 DEF PhotosIInv, QueueHoldsNewPhotos, QueueHasNoRepeats, JobHoldsItsPhoto
<1> QED
  BY <1>5, <1>6, <1>7, <1>8 DEF PhotosIInv

(* An edit of the front picture is newer than all there are.                *)
LEMMA PhotosReplaced ==
  ASSUME TypeOK, PhotosIInv, ReplaceFront
  PROVE  PhotosIInv'
<1>1. /\ recorded \in Nat /\ recorded' = recorded + 1 /\ UNCHANGED discarded
      /\ \A t \in Images : slots[t].photo \in Nat
  BY PhotosAreNumbers, BoundsAreNumbers DEF TypeOK, ReplaceFront
<1>2. /\ \/ slots' = slots
         \/ /\ slots'[Front].photo = recorded + 1
            /\ Done(slots, Front)
            /\ slots'[Front].status = slots[Front].status
      /\ \A t \in Images \ {Front} : slots'[t] = slots[t]
  BY SlotFacts DEF TypeOK, SlotRecords, ReplaceFront
<1>3. /\ DOMAIN waiting' = DOMAIN waiting
      /\ \A k \in DOMAIN waiting :
           waiting'[k].photo = waiting[k].photo /\ ~waiting'[k].fresh
      /\ job'.photo = job.photo /\ ~job'.fresh
  BY OutdatedKeeps DEF TypeOK, ReplaceFront
<1>4. discarded' \subseteq 1..recorded'
  BY <1>1 DEF PhotosIInv
<1>5. SlotsHoldGoodPhotos' /\ SlotsShareNoPhoto'
  <2>1. recorded + 1 \notin discarded /\ \A t \in Images : slots[t].photo # recorded + 1
    BY <1>1 DEF PhotosIInv, SlotsHoldGoodPhotos
  <2>2. \A t \in Images : slots[t].photo <= recorded + 1
    BY <1>1 DEF PhotosIInv, SlotsHoldGoodPhotos
  <2> QED
    BY <1>1, <1>2, <2>1, <2>2 DEF PhotosIInv, SlotsHoldGoodPhotos, SlotsShareNoPhoto, Done
<1>6. QueueHoldsNewPhotos' /\ QueueHasNoRepeats' /\ JobHoldsItsPhoto'
  BY <1>1, <1>3, PhotosAreNumbers
     DEF PhotosIInv, QueueHoldsNewPhotos, QueueHasNoRepeats, JobHoldsItsPhoto
<1> QED
  BY <1>4, <1>5, <1>6 DEF PhotosIInv

(* No place that counts ever holds a picture that was thrown away, or one   *)
(* that another place holds.                                                *)
THEOREM PhotosAreInTheirPlaces == Spec => []PhotosIInv
<1>1. Init => PhotosIInv
  <2> SUFFICES ASSUME Init PROVE PhotosIInv
    OBVIOUS
  <2>1. \A s \in Images : slots[s].photo = 0 /\ ~Done(slots, s)
    BY EmptySlots, SlotFacts DEF Init
  <2> QED
    BY <2>1 DEF Init, NoJob, PhotosIInv, SlotsHoldGoodPhotos, SlotsShareNoPhoto,
                QueueHoldsNewPhotos, QueueHasNoRepeats, JobHoldsItsPhoto
<1>2. TypeOK /\ PhotosIInv /\ [Next]_vars => PhotosIInv'
  <2> SUFFICES ASSUME TypeOK, PhotosIInv, [Next]_vars PROVE PhotosIInv'
    OBVIOUS
  <2>1. CASE Start
    <3>1. \A s \in Images : slots'[s].photo = 0 /\ ~Done(slots', s)
      BY <2>1, EmptySlots, SlotFacts DEF Start, SlotsOK, SlotRecords, Done
    <3> QED
      BY <2>1, <3>1, PhotosForgotten DEF Start
  <2>2. CASE Stop
    <3>1. \A s \in Images : slots'[s].photo = 0 /\ ~Done(slots', s)
      BY <2>2, EmptySlots, SlotFacts DEF Stop, Done
    <3> QED
      BY <2>2, <3>1, PhotosForgotten DEF Stop
  <2>3. CASE UNCHANGED vars
    BY <2>3, PhotosFrame DEF vars, shown, work, counters, history, Done
  <2> QED
    BY <2>1, <2>2, <2>3, PhotosStay, PhotosRecorded, PhotosProcessed, PhotosAnswered,
       PhotosRemoved, PhotosReplaced DEF Next
<1> QED
  BY <1>1, <1>2, TypeCorrect, PTL DEF Spec

(* A picture that stateRef has as accepted leaves its slot when the user    *)
(* deletes it or closes the session, or the front for an edit, and never    *)
(* for another photograph (isCurrentRequest and the choice of the slot of a *)
(* new picture).                                                            *)
THEOREM AcceptedPicturesAreKept == Spec => AcceptedIsKept
<1> DEFINE KeptIn(s) == \/ slots'[s].photo \in {slots[s].photo, 0}
                        \/ s = Front /\ slots'[s].photo \in edits'
           Kept == \A s \in Images : Done(slots, s) /\ Done(ref.slots, s) => KeptIn(s)
<1>1. TypeOK /\ PhotosIInv /\ [Next]_vars => [Kept]_vars
  <2> SUFFICES ASSUME TypeOK, PhotosIInv, Next,
                      NEW s \in Images, Done(slots, s), Done(ref.slots, s)
               PROVE  KeptIn(s)
    OBVIOUS
  <2> SlotsOK(slots) /\ s \in Slots /\ s # Measurement
    BY SlotFacts DEF TypeOK, SlotsOK
  <2>1. CASE Start \/ Stop
    BY <2>1, EmptySlots, SlotFacts DEF Start, Stop, SlotsOK, SlotRecords
  <2>2. CASE Render \/ ConnectionUp \/ ConnectionDown \/ RecordMedia \/ AdoptBackground
    BY <2>2 DEF Render, ConnectionUp, ConnectionDown, RecordMedia, AdoptBackground, shown
  <2>3. ASSUME NEW t \in Slots, ReportState(t) \/ SelectSlot(t)
        PROVE  slots'[s].photo = slots[s].photo
    BY <2>3 DEF SlotsOK, SlotRecords, ReportState, SelectSlot
  <2>4. CASE ProcessMedia
    <3>1. CASE Dropped
      BY <3>1 DEF Dropped, shown
    <3>2. ASSUME NEW t \in Target, Assessed(t)
          PROVE  slots'[s].photo = slots[s].photo
      <4>1. t # s /\ t \in Images
        BY TargetWaits
      <4> QED
        BY <3>2, <4>1, SlotFacts DEF SlotsOK, Assessed
    <3> QED
      BY <2>4, <3>1, <3>2 DEF ProcessMedia
  <2>5. CASE AssessmentAnswers
    <3>1. CASE ~(IsCurrentRequest /\ IsSlotsPicture)
      BY <2>5, <3>1 DEF AssessmentAnswers, Judged, IsSlotsPicture
    <3>2. CASE IsCurrentRequest /\ IsSlotsPicture
      <4>1. slots[s].photo # 0
        BY DEF PhotosIInv, SlotsHoldGoodPhotos
      <4>2. job.slot \in Images
        BY DEF TypeOK, Jobs
      <4>3. PICK st \in Statuses :
              slots' = [slots EXCEPT ![job.slot] = [status |-> st, photo |-> job.photo]]
        BY <2>5, <3>2 DEF AssessmentAnswers, Judged, IsSlotsPicture, Accepted, Refused, Statuses
      <4>4. job.slot = s => slots[s].photo = job.photo
        BY <3>2, <4>1 DEF IsSlotsPicture
      <4> QED
        BY <4>2, <4>3, <4>4, SlotFacts DEF SlotsOK
    <3> QED
      BY <3>1, <3>2
  <2>6. ASSUME NEW t \in Images, RemoveMedia(t)
        PROVE  slots'[s].photo \in {slots[s].photo, 0}
    BY <2>6, SlotFacts DEF SlotsOK, RemoveMedia
  <2>7. CASE ReplaceFront
    BY <2>7, SlotFacts DEF SlotsOK, SlotRecords, ReplaceFront
  <2>8. CASE RecordMeasurement \/ RetakeMeasurement
    <3>1. PICK st \in Statuses :
            slots' = [DemoteApprovals(slots) EXCEPT ![Measurement].status = st]
      BY <2>8 DEF RecordMeasurement, RetakeMeasurement, Statuses
    <3>2. slots'[s] = DemoteApprovals(slots)[s]
      BY <3>1, Demoted, SlotTurns, SlotFacts
    <3> QED
      BY <3>2, Demoted
  <2>9. CASE \/ \E c \in 1..MaxMeasured : MeasurementAnswers(c)
             \/ \E size \in Sizes \cup {NoSize} : UpdateMeasurement(size)
             \/ ApproveMeasurement
    <3>1. \/ slots' = slots
          \/ \E st \in Statuses : slots' = [slots EXCEPT ![Measurement].status = st]
      BY <2>9 DEF MeasurementAnswers, NotDrafted, Drafted, UpdateMeasurement,
                  ApproveMeasurement, Statuses
    <3>2. ASSUME NEW st \in Statuses,
                 slots' = [slots EXCEPT ![Measurement].status = st]
          PROVE  slots'[s] = slots[s]
      BY <3>2, SlotTurns, SlotFacts
    <3> QED
      BY <3>1, <3>2
  <2>10. CASE ApproveCapture
    BY <2>10 DEF ApproveCapture, SlotsOK, SlotRecords
  <2> QED
    BY <2>1, <2>2, <2>3, <2>4, <2>5, <2>6, <2>7, <2>8, <2>9, <2>10 DEF Next
<1>2. Spec => [][Kept]_vars
  BY <1>1, TypeCorrect, PhotosAreInTheirPlaces, PTL DEF Spec
<1> QED
  BY <1>2 DEF AcceptedIsKept

(* The draft, and the analysis that may still make one, are of measurement  *)
(* pictures that count.                                                     *)
LEMMA MeasuringStep ==
  ASSUME TypeOK, MeasuringIInv, [Next]_vars
  PROVE  MeasuringIInv'
<1>1. /\ measured \in Nat /\ calls \subseteq 1..measured /\ stale \subseteq 1..measured
      /\ measuring \in calls \cup {0}
  BY BoundsAreNumbers DEF TypeOK
<1>2. CASE Start \/ Stop
  BY <1>1, <1>2 DEF Start, Stop, Forget, MeasuringIInv, counters
<1>3. CASE \/ Render \/ ConnectionUp \/ ConnectionDown
           \/ \E s \in Slots : ReportState(s) \/ SelectSlot(s)
           \/ RecordMedia \/ ProcessMedia \/ AssessmentAnswers
           \/ AdoptBackground \/ ReplaceFront
           \/ \E size \in Sizes \cup {NoSize} : UpdateMeasurement(size)
           \/ ApproveMeasurement \/ ApproveCapture
           \/ UNCHANGED vars
  <2>1. UNCHANGED <<measuring, calls, stale, drawn>>
    BY <1>3 DEF Render, ConnectionUp, ConnectionDown, ReportState, Report, SelectSlot,
                RecordMedia, ProcessMedia, AssessmentAnswers, AdoptBackground,
                ReplaceFront, UpdateMeasurement, ApproveMeasurement, ApproveCapture,
                vars, work, history
  <2> QED
    BY <2>1 DEF MeasuringIInv
<1>4. ASSUME NEW s \in Images, RemoveMedia(s)
      PROVE  MeasuringIInv'
  BY <1>1, <1>4 DEF RemoveMedia, MeasuringIInv
<1>5. CASE RecordMeasurement
  BY <1>1, <1>5 DEF RecordMeasurement, MeasuringIInv
<1>6. ASSUME NEW c \in 1..MaxMeasured, MeasurementAnswers(c)
      PROVE  MeasuringIInv'
  <2>1. CASE IsCurrentMeasurement(c) /\ NotDrafted
    BY <1>1, <1>6, <2>1 DEF MeasurementAnswers, NotDrafted, MeasuringIInv
  <2>2. CASE IsCurrentMeasurement(c) /\ \E size \in Sizes \cup {NoSize} : Drafted(c, size)
    BY <1>1, <1>6, <2>2
       DEF MeasurementAnswers, Drafted, IsCurrentMeasurement, MeasuringIInv
  <2>3. CASE ~IsCurrentMeasurement(c)
    BY <1>6, <2>3 DEF MeasurementAnswers, MeasuringIInv
  <2> QED
    BY <1>6, <2>1, <2>2, <2>3 DEF MeasurementAnswers
<1>7. CASE RetakeMeasurement
  BY <1>1, <1>7 DEF RetakeMeasurement, MeasuringIInv
<1> QED
  BY <1>2, <1>3, <1>4, <1>5, <1>6, <1>7 DEF Next

(* No late answer puts a deleted picture back into a slot, and no late      *)
(* analysis of a replaced measurement picture becomes the draft.            *)
THEOREM ThrownAwayPictures == Spec => []ThrownAwayStaysOut
<1>1. Init => MeasuringIInv
  BY DEF Init, MeasuringIInv
<1>2. TypeOK /\ MeasuringIInv /\ [Next]_vars => MeasuringIInv'
  BY MeasuringStep
<1>3. PhotosIInv /\ MeasuringIInv => ThrownAwayStaysOut
  BY DEF PhotosIInv, SlotsHoldGoodPhotos, MeasuringIInv, ThrownAwayStaysOut
<1> QED
  BY <1>1, <1>2, <1>3, TypeCorrect, PhotosAreInTheirPlaces, PTL DEF Spec

-----------------------------------------------------------------------------
(* What is handed over was reviewed                                         *)

(* Of all steps, the final approval alone makes the session ready, and      *)
(* while it is ready one other step changes a picture: the edit of the      *)
(* front.                                                                   *)
LEMMA ReadyStep ==
  ASSUME TypeOK, ReadyIInv, [Next]_vars
  PROVE  ReadyIInv'
<1> SlotsOK(slots)
  BY DEF TypeOK, SlotsOK
<1>1. CASE \/ Start \/ Stop \/ ConnectionUp \/ ConnectionDown
           \/ \E s \in Slots : ReportState(s) \/ SelectSlot(s)
           \/ \E s \in Images : RemoveMedia(s)
           \/ RecordMeasurement \/ RetakeMeasurement
           \/ \E size \in Sizes \cup {NoSize} : UpdateMeasurement(size)
           \/ ApproveMeasurement
  <2>1. phase' # "ready"
    BY <1>1 DEF Start, Stop, ConnectionUp, ConnectionDown, ReportState, SelectSlot,
                WorkflowPhase, RemoveMedia, RecordMeasurement, RetakeMeasurement,
                UpdateMeasurement, ApproveMeasurement
  <2> QED
    BY <2>1 DEF ReadyIInv
<1>2. CASE Render \/ RecordMedia \/ AdoptBackground \/ UNCHANGED vars
  BY <1>2 DEF Render, RecordMedia, AdoptBackground, vars, shown, history, ReadyIInv
<1>3. CASE ProcessMedia
  <2>1. CASE Dropped
    BY <1>3, <2>1 DEF ProcessMedia, Dropped, shown, history, ReadyIInv
  <2>2. CASE \E s \in Target : Assessed(s)
    BY <2>2 DEF Assessed, ReadyIInv
  <2> QED
    BY <1>3, <2>1, <2>2 DEF ProcessMedia
<1>4. CASE AssessmentAnswers
  <2>1. CASE IsCurrentRequest
    <3>1. CASE IsSlotsPicture
      BY <1>4, <2>1, <3>1
         DEF AssessmentAnswers, Judged, IsSlotsPicture, Accepted, Refused, ReadyIInv
    <3>2. CASE ~IsSlotsPicture
      BY <1>4, <2>1, <3>2
         DEF AssessmentAnswers, Judged, IsSlotsPicture, history, ReadyIInv
    <3> QED
      BY <3>1, <3>2
  <2>2. CASE ~IsCurrentRequest
    BY <1>4, <2>2 DEF AssessmentAnswers, history, ReadyIInv
  <2> QED
    BY <2>1, <2>2
<1>5. CASE ReplaceFront
  <2>1. /\ \A s \in Images \ {Front} : slots'[s] = slots[s]
        /\ slots'[Front].photo = slots[Front].photo \/ slots'[Front].photo \in edits'
        /\ edits \subseteq edits'
    BY <1>5, SlotFacts DEF ReplaceFront, SlotsOK, SlotRecords
  <2> QED
    BY <1>5, <2>1, SlotFacts DEF ReplaceFront, ReadyIInv
<1>6. ASSUME NEW c \in 1..MaxMeasured, MeasurementAnswers(c)
      PROVE  ReadyIInv'
  <2>1. CASE IsCurrentMeasurement(c)
    BY <1>6, <2>1 DEF MeasurementAnswers, ReadyIInv
  <2>2. CASE ~IsCurrentMeasurement(c)
    BY <1>6, <2>2 DEF MeasurementAnswers, ReadyIInv
  <2> QED
    BY <2>1, <2>2
<1>7. CASE ApproveCapture
  <2>1. \A s \in Images : slots'[s].photo = seen'.photos[s]
    BY <1>7, SlotFacts DEF ApproveCapture, SlotsOK, SlotRecords
  <2>2. measurement' = seen'.size
    BY <1>7 DEF ApproveCapture
  <2> QED
    BY <2>1, <2>2 DEF ReadyIInv
<1> QED
  BY <1>1, <1>2, <1>3, <1>4, <1>5, <1>6, <1>7 DEF Next

(* The listing gets the pictures and the measurement that were on the       *)
(* screen when the capture was approved, an edit of the front picture aside *)
(* (getListingHandoff).                                                     *)
THEOREM HandoffIsReviewed == Spec => []HandoffWasReviewed
<1>1. Init => ReadyIInv
  BY DEF Init, ReadyIInv
<1>2. TypeOK /\ ReadyIInv /\ [Next]_vars => ReadyIInv'
  BY ReadyStep
<1>3. ReadyIInv => HandoffWasReviewed
  BY DEF ReadyIInv, HandoffWasReviewed, Handoff
<1> QED
  BY <1>1, <1>2, <1>3, TypeCorrect, PTL DEF Spec

-----------------------------------------------------------------------------
(* The browser session.                                                     *)

(* What a store holds, what waits in a chain and what a transaction        *)
(* carries.                                                                *)
Store == [state : States \cup {None}, rows : SUBSET Rows]
WriteJob == [kind : {"put", "command"}, state : States, before : Nat]
ChainRequest == [tab : Tabs, by : {"chain"}, kind : {"put", "command"}, state : States,
                 expected : Nat \cup {None}]
AgentRequest ==
  {x \in [tab : Tabs, by : {"agent"}, kind : {"mutate", "preview"}, key : Keys \cup {None},
          ok : BOOLEAN, state : States, expected : Nat] : x.kind = "mutate" => x.key \in Keys}
(* The agent commands in progress; a mutation has a key.                   *)
AgentCalls ==
  {c \in [phase : {"waiting", "lookup", "writing"}, kind : {"mutate", "preview"},
          key : Keys \cup {None}, wait : Nat, ok : BOOLEAN] : c.kind = "mutate" => c.key \in Keys}
Requests == ChainRequest \cup AgentRequest

(* The types of what each tab keeps and of what the tabs share, as         *)
(* function and sequence sets.                                             *)
TabsIInv ==
  /\ page \in [Tabs -> {"loading", "restoring", "ready"}]
  /\ db \in [Tabs -> {"open", "null"}]
  /\ fallback \in [Tabs -> Store]
  /\ live \in [Tabs -> States]
  /\ saved \in [Tabs -> Nat \cup {None}]
  /\ timer \in [Tabs -> BOOLEAN]
  /\ chain \in [Tabs -> Seq(WriteJob)]
  /\ call \in [Tabs -> {Idle} \cup AgentCalls]
  /\ rejected \in [Tabs -> SUBSET Keys]

SharedIInv ==
  /\ txq \in Seq(Requests)
  /\ idb \in Store
  /\ done \subseteq UiOps /\ answered \subseteq Keys
  /\ disturbed \subseteq Tabs /\ repeated \subseteq Tabs
  /\ idle \in Nat /\ faults \in Nat /\ loads \in Nat

(* The keys with a command row in the database.                            *)
Recorded == {row.key : row \in idb.rows}

(* The keys whose commands went into a state.                              *)
Within(state, keys) == state.ops \cap Keys \subseteq keys

(* A state that a transaction carries was built from recorded commands     *)
(* only, the command of the transaction itself aside.                      *)
Covered(x, keys) ==
  \/ Within(x.state, keys)
  \/ x.by = "agent" /\ x.kind = "mutate" /\ Within(x.state, keys \cup {x.key})

(* An ok answer is on disk; whatever stands in a memory store is refused;  *)
(* and every state that can still reach the screen or the disk, be it      *)
(* stored, shown, queued or in a transaction, is built from recorded       *)
(* commands.                                                               *)
BooksIInv ==
  /\ OkIsRecorded
  /\ \A t \in Tabs : \A row \in fallback[t].rows : row.key \in rejected[t]
  /\ idb.state # None => Within(idb.state, Recorded)
  /\ \A t \in Tabs : Within(live[t], Recorded)
  /\ \A t \in Tabs : \A i \in DOMAIN chain[t] : Within(chain[t][i].state, Recorded)
  /\ \A i \in DOMAIN txq : Covered(txq[i], Recorded)

(* Transaction i of a queue is one of tab t, asked for by its chain or by  *)
(* its agent command; a tab has at most one of each.                       *)
Of(q, i, t, by) == q[i].tab = t /\ q[i].by = by

Asked(q, t, by) == \E i \in DOMAIN q : Of(q, i, t, by)

OneOfEach(q, t) ==
  \A i, j \in DOMAIN q : q[i].tab = t /\ q[j].tab = t /\ q[i].by = q[j].by => i = j

(* The queue of transactions and the tab agree: the chain has a            *)
(* transaction exactly when something waits in it, an agent transaction    *)
(* belongs to a command that is being written, and a page that loads has   *)
(* neither.                                                                *)
Lined(q, t, c, k, p) ==
  /\ OneOfEach(q, t)
  /\ c # <<>> <=> Asked(q, t, "chain")
  /\ Asked(q, t, "agent") => k.phase = "writing"
  /\ p = "loading" => c = <<>> /\ k.phase = "idle"

StateVersion(d) == IF d = None THEN 0 ELSE d.ver

(* An agent command is built on what the tab shows, and nothing of the tab *)
(* is asked for after it.                                                  *)
Built(q, i, t, l) ==
  /\ q[i].expected = l.ver
  /\ q[i].kind = "mutate" /\ q[i].ok => q[i].state.ver = l.ver + 1
  /\ ~(q[i].kind = "mutate" /\ q[i].ok) => q[i].state = l
  /\ \A j \in DOMAIN q : q[j].tab = t => j <= i

(* A tab in step with the database: with an empty chain the database holds *)
(* what the tab shows under the version the tab noted; otherwise the last  *)
(* job of the chain carries what the tab shows, the noted version is the   *)
(* one of the database, so the running write is let through, and an agent  *)
(* command in the queue is built on the live state.  s = None, nothing     *)
(* noted, is the tab that found no record and writes its first.            *)
InStep(q, t, d, c, l, s) ==
  /\ StateVersion(d) <= l.ver
  /\ \A i \in DOMAIN c : c[i].state.ver <= l.ver
  /\ c = <<>> => d = l /\ s = l.ver
  /\ c # <<>> => c[Len(c)].state = l
  /\ s = None => d = None /\ c[1].kind = "put"
  /\ s # None => s = StateVersion(d)
  /\ \A i \in DOMAIN q : Of(q, i, t, "chain") => q[i] = RequestOf(t, c[1], s)
  /\ \A i \in DOMAIN q : Of(q, i, t, "agent") => Built(q, i, t, l)

(* The tabs SettledIsSaved speaks of: nothing that can part a tab from the *)
(* database happened since they loaded.                                    *)
Undisturbed(t) == page[t] # "loading" /\ t \notin disturbed \cup repeated

LinedIInv == \A t \in Tabs : Lined(txq, t, chain[t], call[t], page[t])
StepIInv == \A t \in Tabs :
   Undisturbed(t) => db[t] = "open" /\ InStep(txq, t, idb.state, chain[t], live[t], saved[t])

(* The constants.                                                          *)
LEMMA BrowserFacts ==
  /\ None \notin Nat /\ None \notin States /\ UiOps \cap Keys = {} /\ AgentTabs \subseteq Tabs
  /\ Seed \in States /\ Seed.ver = 0 /\ Seed.ops = {} /\ EmptyStore \in Store
BY BrowserAssumption DEF States, Seed, EmptyStore, Store

-----------------------------------------------------------------------------
(* The queue of transactions.  Same: the requests of a tab are the same in  *)
(* two queues, and in the same order.                                      *)
Same(q, r, u) ==
  \E g \in [DOMAIN r -> Nat] :
    /\ \A i \in DOMAIN r : r[i].tab = u => g[i] \in DOMAIN q /\ q[g[i]] = r[i]
    /\ \A i, j \in DOMAIN r : r[i].tab = u /\ r[j].tab = u /\ i < j => g[i] < g[j]
    /\ \A k \in DOMAIN q : q[k].tab = u => \E i \in DOMAIN r : r[i].tab = u /\ g[i] = k

(* Keeping the order of a tab composes; an append and a removal of a       *)
(* request of another tab keep it.                                         *)
LEMMA SameTransitive ==
  ASSUME NEW p, NEW q, NEW r, NEW u, Same(p, q, u), Same(q, r, u),
         DOMAIN p \subseteq Nat, DOMAIN q \subseteq Nat, DOMAIN r \subseteq Nat
  PROVE  Same(p, r, u)
<1>1. PICK g \in [DOMAIN q -> Nat] :
         /\ \A i \in DOMAIN q : q[i].tab = u => g[i] \in DOMAIN p /\ p[g[i]] = q[i]
         /\ \A i, j \in DOMAIN q : q[i].tab = u /\ q[j].tab = u /\ i < j => g[i] < g[j]
         /\ \A k \in DOMAIN p : p[k].tab = u => \E i \in DOMAIN q : q[i].tab = u /\ g[i] = k
  BY DEF Same
<1>2. PICK h \in [DOMAIN r -> Nat] :
         /\ \A i \in DOMAIN r : r[i].tab = u => h[i] \in DOMAIN q /\ q[h[i]] = r[i]
         /\ \A i, j \in DOMAIN r : r[i].tab = u /\ r[j].tab = u /\ i < j => h[i] < h[j]
         /\ \A k \in DOMAIN q : q[k].tab = u => \E i \in DOMAIN r : r[i].tab = u /\ h[i] = k
  BY DEF Same
<1> DEFINE f == [i \in DOMAIN r |-> IF r[i].tab = u THEN g[h[i]] ELSE 0]
<1>3. f \in [DOMAIN r -> Nat]
  BY <1>1, <1>2
<1>4. \A i \in DOMAIN r : r[i].tab = u => f[i] = g[h[i]] /\ h[i] \in DOMAIN q /\ q[h[i]].tab = u
  BY <1>2
<1> HIDE DEF f
<1>5. \A i \in DOMAIN r : r[i].tab = u => f[i] \in DOMAIN p /\ p[f[i]] = r[i]
  BY <1>1, <1>2, <1>4
<1>6. ASSUME NEW i \in DOMAIN r, NEW j \in DOMAIN r, r[i].tab = u, r[j].tab = u, i < j
      PROVE  f[i] < f[j]
  BY <1>1, <1>2, <1>4, <1>6
<1>7. ASSUME NEW k \in DOMAIN p, p[k].tab = u
      PROVE  \E i \in DOMAIN r : r[i].tab = u /\ f[i] = k
  <2>1. PICK j \in DOMAIN q : q[j].tab = u /\ g[j] = k
    BY <1>1, <1>7
  <2>2. PICK i \in DOMAIN r : r[i].tab = u /\ h[i] = j
    BY <1>2, <2>1
  <2> QED BY <1>4, <2>1, <2>2
<1> QED BY <1>3, <1>5, <1>6, <1>7 DEF Same

LEMMA SameAppend ==
  ASSUME NEW S, NEW q \in Seq(S), NEW x \in S, NEW u, x.tab # u
  PROVE  Same(q, Append(q, x), u)
<1> DEFINE r == Append(q, x)
           g == [i \in DOMAIN r |-> i]
<1>1. /\ DOMAIN r = 1 .. Len(q) + 1 /\ DOMAIN q = 1 .. Len(q) /\ Len(q) \in Nat
      /\ \A i \in 1 .. Len(q) : r[i] = q[i]
      /\ r[Len(q) + 1] = x
  OBVIOUS
<1>2. g \in [DOMAIN r -> Nat] /\ \A i \in DOMAIN r : g[i] = i
  BY <1>1
<1> HIDE DEF r, g
<1>3. \A i \in DOMAIN r : r[i].tab = u => i \in DOMAIN q /\ q[i] = r[i]
  BY <1>1
<1>4. \A k \in DOMAIN q : k \in DOMAIN r /\ r[k] = q[k]
  BY <1>1
<1>5. Same(q, r, u)
  BY <1>2, <1>3, <1>4 DEF Same
<1> QED BY <1>5 DEF r

LEMMA SameTail ==
  ASSUME NEW S, NEW q \in Seq(S), q # <<>>, NEW u, Head(q).tab # u
  PROVE  Same(q, Tail(q), u)
<1> DEFINE r == Tail(q)
           g == [i \in DOMAIN r |-> i + 1]
<1>1. /\ DOMAIN r = 1 .. Len(q) - 1 /\ DOMAIN q = 1 .. Len(q) /\ Len(q) \in Nat
      /\ \A i \in 1 .. Len(q) - 1 : r[i] = q[i + 1]
      /\ q[1].tab # u
  OBVIOUS
<1>2. g \in [DOMAIN r -> Nat] /\ \A i \in DOMAIN r : g[i] = i + 1
  BY <1>1
<1> HIDE DEF r, g
<1>3. \A i \in DOMAIN r : i \in Nat /\ g[i] \in DOMAIN q /\ q[g[i]] = r[i]
  BY <1>1, <1>2
<1>4. ASSUME NEW k \in DOMAIN q, q[k].tab = u
      PROVE  \E i \in DOMAIN r : r[i].tab = u /\ g[i] = k
  <2>1. k - 1 \in DOMAIN r
    BY <1>1, <1>4
  <2>2. g[k - 1] = k /\ r[k - 1].tab = u
    BY <1>1, <1>2, <1>4, <2>1
  <2> QED BY <2>1, <2>2
<1>5. \A i, j \in DOMAIN r : i < j => g[i] < g[j]
  BY <1>2, <1>3
<1>6. Same(q, r, u)
  BY <1>2, <1>3, <1>4, <1>5 DEF Same
<1> QED BY <1>6 DEF r

(* A set of numbers that is not empty has a least one.                     *)
LEMMA LeastNumber ==
  ASSUME NEW S \in SUBSET Nat, S # {}
  PROVE  \E x \in S : \A y \in S : x <= y
<1> DEFINE R == OpToRel(<, Nat)
<1>1. IsWellFoundedOn(R, Nat)
  BY NatLessThanWellFounded
<1> HIDE DEF R
<1>2. PICK x \in S : \A y \in S : ~ (<<y, x>> \in R)
  BY <1>1, WFMin
<1>3. ASSUME NEW y \in S, y < x PROVE FALSE
  <2>1. <<y, x>> \in R
    BY <1>3 DEF R, OpToRel
  <2> QED BY <1>2, <2>1
<1> QED BY <1>3

(* What is left of the first n transactions without those of a tab.        *)
KeptUpTo(f, n, t) ==
  f = [i \in 0 .. n |->
         IF i = 0 THEN <<>> ELSE IF txq[i].tab = t THEN f[i - 1] ELSE Append(f[i - 1], txq[i])]

(* The recursive function of WithoutTab: its values, that it exists, and   *)
(* with it what is left of the queue.                                      *)
LEMMA KeptValues ==
  ASSUME NEW f, NEW n \in Nat, NEW t, KeptUpTo(f, n, t)
  PROVE  /\ f[0] = <<>>
         /\ \A i \in 1 .. n :
              f[i] = IF txq[i].tab = t THEN f[i - 1] ELSE Append(f[i - 1], txq[i])
<1> DEFINE Value(i) ==
      IF i = 0 THEN <<>> ELSE IF txq[i].tab = t THEN f[i - 1] ELSE Append(f[i - 1], txq[i])
<1>1. \A i \in 0 .. n : f[i] = Value(i)
  BY Zenon DEF KeptUpTo
<1> HIDE DEF Value
<1>2. 0 \in 0 .. n /\ \A i \in 1 .. n : i \in 0 .. n /\ i # 0
  OBVIOUS
<1>3. f[0] = Value(0) /\ \A i \in 1 .. n : f[i] = Value(i)
  BY <1>1, <1>2
<1> QED BY <1>2, <1>3 DEF Value

LEMMA KeptExists ==
  ASSUME NEW t, NEW n \in Nat
  PROVE  \E f : KeptUpTo(f, n, t)
<1> DEFINE S == {k \in Nat : ~ \E f : KeptUpTo(f, k, t)}
<1>1. SUFFICES ASSUME S # {} PROVE FALSE
  OBVIOUS
<1>2. PICK k \in S : \A y \in S : k <= y
  <2> HIDE DEF S
  <2>1. S \in SUBSET Nat
    BY DEF S
  <2> QED BY <1>1, <2>1, LeastNumber
<1>3. CASE k = 0
  <2> DEFINE f == [i \in 0 .. 0 |-> <<>>]
  <2>1. KeptUpTo(f, 0, t)
    BY DEF KeptUpTo
  <2> QED BY <1>2, <1>3, <2>1
<1>4. CASE k # 0
  <2>1. k - 1 \in Nat /\ k - 1 \notin S
    BY <1>2, <1>4
  <2>2. PICK f : KeptUpTo(f, k - 1, t)
    BY <2>1
  <2> DEFINE g == [i \in 0 .. k |->
                     IF i = 0 THEN <<>>
                     ELSE IF txq[i].tab = t THEN f[i - 1] ELSE Append(f[i - 1], txq[i])]
  <2>3. \A i \in 0 .. k - 1 : g[i] = f[i]
    <3>1. /\ f[0] = <<>>
          /\ \A i \in 1 .. k - 1 :
               f[i] = IF txq[i].tab = t THEN f[i - 1] ELSE Append(f[i - 1], txq[i])
      BY <2>1, <2>2, KeptValues
    <3>2. \A i \in 0 .. k - 1 : i \in 0 .. k /\ (i = 0 \/ i \in 1 .. k - 1)
      BY <2>1
    <3> QED BY <3>1, <3>2
  <2>4. \A i \in 0 .. k : i # 0 => i - 1 \in 0 .. k - 1
    BY <2>1
  <2>5. g = [i \in 0 .. k |->
               IF i = 0 THEN <<>>
               ELSE IF txq[i].tab = t THEN g[i - 1] ELSE Append(g[i - 1], txq[i])]
    BY <2>3, <2>4
  <2> HIDE DEF g
  <2>6. KeptUpTo(g, k, t)
    BY <2>5 DEF KeptUpTo
  <2> QED BY <1>2, <2>6
<1> QED BY <1>3, <1>4

(* The tab itself has nothing left, the others have what they had.         *)
LEMMA WithoutTabFacts ==
  ASSUME NEW S, txq \in Seq(S), NEW t
  PROVE  /\ WithoutTab(t) \in Seq(S)
         /\ \A i \in DOMAIN WithoutTab(t) :
              WithoutTab(t)[i].tab # t /\ \E k \in DOMAIN txq : txq[k] = WithoutTab(t)[i]
         /\ \A u : u # t => Same(txq, WithoutTab(t), u)
<1> DEFINE kept == CHOOSE f : KeptUpTo(f, Len(txq), t)
<1>1. Len(txq) \in Nat /\ DOMAIN txq = 1 .. Len(txq) /\ \A i \in DOMAIN txq : txq[i] \in S
  OBVIOUS
<1>2. KeptUpTo(kept, Len(txq), t) /\ WithoutTab(t) = kept[Len(txq)]
  <2>1. KeptUpTo(kept, Len(txq), t)
    BY <1>1, KeptExists
  <2>2. WithoutTab(t) = kept[Len(txq)]
    BY DEF WithoutTab, KeptUpTo
  <2> QED BY <2>1, <2>2
<1> HIDE DEF kept
<1>3. /\ kept[0] = <<>>
      /\ \A i \in 1 .. Len(txq) :
           kept[i] = IF txq[i].tab = t THEN kept[i - 1] ELSE Append(kept[i - 1], txq[i])
  BY <1>1, <1>2, KeptValues
<1> DEFINE Right(n, r, g) ==
      /\ r \in Seq(S) /\ g \in [DOMAIN r -> 1 .. n]
      /\ \A i \in DOMAIN r : r[i] = txq[g[i]] /\ r[i].tab # t
      /\ \A i, j \in DOMAIN r : i < j => g[i] < g[j]
      /\ \A k \in 1 .. n : txq[k].tab # t => \E i \in DOMAIN r : g[i] = k
    Wrong == {n \in 0 .. Len(txq) : ~ \E g : Right(n, kept[n], g)}
<1>4. Wrong = {}
  <2> SUFFICES ASSUME Wrong # {} PROVE FALSE
    OBVIOUS
  <2>1. PICK n \in Wrong : \A y \in Wrong : n <= y
    <3>1. Wrong \in SUBSET Nat
      BY <1>1
    <3> HIDE DEF Wrong
    <3> QED BY <3>1, LeastNumber
  <2>2. n \in Nat /\ n \in 0 .. Len(txq)
    BY <1>1, <2>1
  <2>3. CASE n = 0
    <3> DEFINE g == [i \in {} |-> 0]
    <3>1. Right(0, <<>>, g)
      BY <1>1
    <3> QED BY <1>3, <2>1, <2>3, <3>1
  <2>4. CASE n # 0
    <3>1. n - 1 \in 0 .. Len(txq) /\ n - 1 \notin Wrong /\ n \in DOMAIN txq
      <4>1. n - 1 \in 0 .. Len(txq) /\ n - 1 \in Nat /\ n \in DOMAIN txq /\ ~ (n <= n - 1)
        BY <1>1, <2>2, <2>4
      <4> HIDE DEF Wrong
      <4> QED BY <2>1, <4>1
    <3>2. PICK g : Right(n - 1, kept[n - 1], g)
      BY <3>1
    <3> DEFINE q == kept[n - 1]
    <3> HIDE DEF Wrong, Right
    <3>3. CASE txq[n].tab = t
      <4>1. kept[n] = q
        BY <1>1, <1>3, <3>1, <3>3
      <4>2. Right(n, q, g)
        BY <1>1, <2>2, <2>4, <3>1, <3>2, <3>3 DEF Right
      <4> QED BY <2>1, <4>1, <4>2 DEF Wrong
    <3>4. CASE txq[n].tab # t
      <4> DEFINE r == Append(q, txq[n])
                 h == [i \in 1 .. Len(q) + 1 |-> IF i = Len(q) + 1 THEN n ELSE g[i]]
      <4>1. kept[n] = r
        BY <1>1, <1>3, <3>1, <3>4
      <4>2. q \in Seq(S) /\ txq[n] \in S /\ Len(q) \in Nat /\ DOMAIN q = 1 .. Len(q)
        BY <1>1, <3>1, <3>2 DEF Right
      <4>3. /\ r \in Seq(S) /\ DOMAIN r = 1 .. Len(q) + 1
            /\ \A i \in 1 .. Len(q) : r[i] = q[i]
            /\ r[Len(q) + 1] = txq[n]
        BY <4>2
      <4>4. /\ g \in [1 .. Len(q) -> 1 .. n - 1]
            /\ \A i \in 1 .. Len(q) : q[i] = txq[g[i]] /\ q[i].tab # t
            /\ \A i, j \in 1 .. Len(q) : i < j => g[i] < g[j]
            /\ \A k \in 1 .. n - 1 : txq[k].tab # t => \E i \in 1 .. Len(q) : g[i] = k
        BY <3>2, <4>2 DEF Right
      <4>5. /\ h[Len(q) + 1] = n /\ \A i \in 1 .. Len(q) : h[i] = g[i]
            /\ DOMAIN h = 1 .. Len(q) + 1 /\ h = [i \in DOMAIN h |-> h[i]]
        BY <4>2
      <4> HIDE DEF r, h, q
      <4>6. \A i \in 1 .. Len(q) + 1 : i = Len(q) + 1 \/ i \in 1 .. Len(q)
        BY <4>2
      <4>7. h \in [DOMAIN r -> 1 .. n]
        <5>1. \A i \in 1 .. Len(q) + 1 : h[i] \in 1 .. n
          BY <2>2, <2>4, <4>4, <4>5, <4>6
        <5> QED BY <4>3, <4>5, <5>1
      <4>8. \A i \in DOMAIN r : r[i] = txq[h[i]] /\ r[i].tab # t
        BY <3>4, <4>3, <4>4, <4>5, <4>6
      <4>9. ASSUME NEW i \in DOMAIN r, NEW j \in DOMAIN r, i < j PROVE h[i] < h[j]
        <5>1. i \in 1 .. Len(q)
          BY <4>2, <4>3, <4>9
        <5>2. g[i] \in 1 .. n - 1
          BY <4>4, <5>1
        <5>3. CASE j = Len(q) + 1
          BY <2>2, <4>5, <5>1, <5>2, <5>3
        <5>4. CASE j \in 1 .. Len(q)
          BY <4>4, <4>5, <4>9, <5>1, <5>4
        <5> QED BY <4>3, <4>6, <5>3, <5>4
      <4>10. ASSUME NEW k \in 1 .. n, txq[k].tab # t PROVE \E i \in DOMAIN r : h[i] = k
        <5>1. CASE k = n
          BY <4>2, <4>3, <4>5, <5>1
        <5>2. CASE k # n
          <6>1. k \in 1 .. n - 1
            BY <2>2, <5>2
          <6>2. PICK i \in 1 .. Len(q) : g[i] = k
            BY <4>4, <4>10, <6>1
          <6>3. i \in DOMAIN r /\ h[i] = k
            BY <4>2, <4>3, <4>5, <6>2
          <6> QED BY <6>3
        <5> QED BY <5>1, <5>2
      <4>11. Right(n, r, h)
        BY <4>3, <4>7, <4>8, <4>9, <4>10 DEF Right
      <4> QED BY <2>1, <4>1, <4>11 DEF Wrong
    <3> QED BY <3>3, <3>4
  <2> QED BY <2>3, <2>4
<1> DEFINE r == kept[Len(txq)]
<1>5. PICK g : Right(Len(txq), r, g)
  <2>1. Len(txq) \in 0 .. Len(txq)
    BY <1>1
  <2> QED BY <1>4, <2>1
<1>6. g \in [DOMAIN r -> Nat] /\ \A i \in DOMAIN r : g[i] \in DOMAIN txq
  BY <1>1, <1>5
<1>7. ASSUME NEW u, u # t PROVE Same(txq, r, u)
  <2>1. \A i \in DOMAIN r : g[i] \in DOMAIN txq /\ txq[g[i]] = r[i]
    BY <1>5, <1>6
  <2>2. \A i, j \in DOMAIN r : i < j => g[i] < g[j]
    BY <1>5
  <2>3. \A k \in DOMAIN txq : txq[k].tab = u => \E i \in DOMAIN r : r[i].tab = u /\ g[i] = k
    BY <1>1, <1>5, <1>7
  <2> HIDE DEF r, Right
  <2> QED BY <1>6, <2>1, <2>2, <2>3 DEF Same
<1>8. r \in Seq(S) /\ \A i \in DOMAIN r : r[i].tab # t /\ \E k \in DOMAIN txq : txq[k] = r[i]
  BY <1>5, <1>6
<1> QED BY <1>2, <1>7, <1>8

-----------------------------------------------------------------------------
(* What the steps compute has the kinds above.                             *)
TypeIInv == TabsIInv /\ SharedIInv

(* The fields of states, stores, requests and jobs, and what the operators *)
(* that build them return.                                                 *)
LEMMA StateFacts ==
  /\ \A s \in States : s.ver \in Nat /\ s.ops \subseteq UiOps \cup Keys /\ s # None
  /\ \A s \in States, x \in UiOps \cup Keys :
       [ver |-> s.ver + 1, ops |-> s.ops \cup {x}] \in States
BY BrowserFacts DEF States

\* What a command of the interface leaves, whether or not it is a new version.
LEMMA CommandedFacts ==
  ASSUME NEW s \in States, NEW op \in UiOps, NEW counted \in BOOLEAN
  PROVE  LET state == [ver |-> IF counted THEN s.ver + 1 ELSE s.ver, ops |-> s.ops \cup {op}]
         IN  state \in States /\ s.ver <= state.ver
<1>1. s.ver \in Nat /\ s.ops \cup {op} \subseteq UiOps \cup Keys
  BY StateFacts
<1> DEFINE ver == IF counted THEN s.ver + 1 ELSE s.ver
<1>2. ver \in Nat /\ s.ver <= ver
  BY <1>1
<1> HIDE DEF ver
<1> QED BY <1>1, <1>2, BrowserFacts DEF States

LEMMA StoreFacts ==
  ASSUME NEW store \in Store
  PROVE  /\ store.state \in States \cup {None} /\ store.rows \subseteq Rows
         /\ VersionIn(store) \in Nat /\ VersionIn(store) = StateVersion(store.state)
         /\ \A s \in States : [store EXCEPT !.state = s] \in Store
                             /\ [store EXCEPT !.state = s].rows = store.rows
                             /\ [store EXCEPT !.state = s].state = s
         /\ \A s \in States, row \in Rows : [state |-> s, rows |-> store.rows \cup {row}] \in Store
BY StateFacts DEF Store, VersionIn, StateVersion

LEMMA RequestFacts ==
  ASSUME NEW t \in Tabs, NEW entry \in WriteJob, NEW v \in Nat \cup {None}
  PROVE  /\ RequestOf(t, entry, v) \in ChainRequest /\ RequestOf(t, entry, v) \in Requests
         /\ RequestOf(t, entry, v).tab = t /\ RequestOf(t, entry, v).by = "chain"
         /\ RequestOf(t, entry, v).state = entry.state /\ RequestOf(t, entry, v).kind = entry.kind
         /\ RequestOf(t, entry, v).expected = Expected(entry, v)
BY DEF RequestOf, Expected, ChainRequest, WriteJob, Requests

LEMMA PutJobFacts ==
  ASSUME NEW s \in States
  PROVE  PutJob(s) \in WriteJob /\ PutJob(s).state = s /\ PutJob(s).kind = "put"
BY StateFacts DEF PutJob, WriteJob

(* The values of a tab, taken out of the function sets.                    *)
LEMMA TabFacts ==
  ASSUME TypeIInv, NEW t \in Tabs
  PROVE  /\ page[t] \in {"loading", "restoring", "ready"} /\ db[t] \in {"open", "null"}
         /\ fallback[t] \in Store /\ live[t] \in States /\ saved[t] \in Nat \cup {None}
         /\ timer[t] \in BOOLEAN /\ chain[t] \in Seq(WriteJob)
         /\ call[t] \in {Idle} \cup AgentCalls /\ rejected[t] \subseteq Keys
         /\ \A fails : Reached(t, fails) \in Store
         /\ \A key, fails : RowsOf(Reached(t, fails), key) \subseteq Rows
<1>1. /\ page[t] \in {"loading", "restoring", "ready"} /\ db[t] \in {"open", "null"}
      /\ fallback[t] \in Store /\ live[t] \in States /\ saved[t] \in Nat \cup {None}
      /\ timer[t] \in BOOLEAN /\ chain[t] \in Seq(WriteJob)
      /\ call[t] \in {Idle} \cup AgentCalls /\ rejected[t] \subseteq Keys
  BY DEF TypeIInv, TabsIInv
<1>2. \A fails : Reached(t, fails) \in Store
  BY <1>1 DEF Reached, TypeIInv, SharedIInv
<1>3. \A key, fails : RowsOf(Reached(t, fails), key) \subseteq Rows
  BY <1>2, StoreFacts DEF RowsOf
<1> QED BY <1>1, <1>2, <1>3

(* A write that joins the chain keeps chain and queue well typed.          *)
LEMMA EnqueueTypes ==
  ASSUME TypeIInv, NEW t \in Tabs, NEW entry \in WriteJob, Enqueue(t, entry)
  PROVE  chain' \in [Tabs -> Seq(WriteJob)] /\ txq' \in Seq(Requests)
<1>1. chain[t] \in Seq(WriteJob) /\ saved[t] \in Nat \cup {None}
  BY TabFacts
<1>2. Append(chain[t], entry) \in Seq(WriteJob)
  BY <1>1
<1>3. chain' \in [Tabs -> Seq(WriteJob)]
  BY <1>2 DEF Enqueue, TypeIInv, TabsIInv
<1>4. RequestOf(t, entry, saved[t]) \in Requests /\ txq \in Seq(Requests)
  BY <1>1, RequestFacts DEF TypeIInv, SharedIInv
<1>5. txq' \in Seq(Requests)
  BY <1>4 DEF Enqueue
<1> QED BY <1>3, <1>5

(* Idle is none of the agent commands, and a step of a command changes one *)
(* field.                                                                  *)
LEMMA CallFacts ==
  /\ Idle.phase = "idle"
  /\ \A c \in AgentCalls :
       /\ c.phase \in {"waiting", "lookup", "writing"} /\ c # Idle
       /\ c.kind \in {"mutate", "preview"} /\ c.key \in Keys \cup {None} /\ c.wait \in Nat
       /\ c.kind = "mutate" => c.key \in Keys
       /\ c.phase # "idle"
       /\ \A w \in Nat : [c EXCEPT !.wait = w] \in AgentCalls
                         /\ [c EXCEPT !.wait = w].phase = c.phase
       /\ \A p \in {"lookup", "writing"} : [c EXCEPT !.phase = p] \in AgentCalls
                                          /\ [c EXCEPT !.phase = p].phase = p
<1>1. Idle.phase = "idle"
  BY DEF Idle
<1>2. ASSUME NEW c \in AgentCalls
      PROVE  /\ c.phase \in {"waiting", "lookup", "writing"}
             /\ c.kind \in {"mutate", "preview"} /\ c.key \in Keys \cup {None} /\ c.wait \in Nat
             /\ c.kind = "mutate" => c.key \in Keys
             /\ c.phase # "idle"
             /\ \A w \in Nat : [c EXCEPT !.wait = w] \in AgentCalls
                               /\ [c EXCEPT !.wait = w].phase = c.phase
             /\ \A p \in {"lookup", "writing"} : [c EXCEPT !.phase = p] \in AgentCalls
                                                /\ [c EXCEPT !.phase = p].phase = p
  BY DEF AgentCalls
<1>3. \A c \in AgentCalls : c # Idle
  BY <1>1, <1>2
<1> QED BY <1>1, <1>2, <1>3

(* Types: loading, hydration, reload.                                      *)
LEMMA PageTypes ==
  ASSUME TypeIInv, NEW t \in Tabs,
         \/ \E opens, reads \in BOOLEAN : Load(t, opens, reads)
         \/ Hydrated(t) \/ Reload(t)
  PROVE  TypeIInv'
<1>1. TabsIInv /\ SharedIInv
  BY DEF TypeIInv
<1>2. ASSUME NEW opens \in BOOLEAN, NEW reads \in BOOLEAN, Load(t, opens, reads)
      PROVE  TypeIInv'
  <2> DEFINE record == IF opens /\ reads THEN idb.state ELSE None
             state == IF record = None THEN Seed ELSE record
             version == IF record = None THEN None ELSE record.ver
  <2>1. idb.state \in States \cup {None}
    BY <1>1, StoreFacts DEF SharedIInv
  <2>2. state \in States /\ version \in Nat \cup {None}
    BY <2>1, BrowserFacts, StateFacts
  <2> HIDE DEF record
  <2>3. RequestOf(t, PutJob(state), version) \in Requests /\ PutJob(state) \in WriteJob
    <3> HIDE DEF state, version
    <3> QED BY <2>2, PutJobFacts, RequestFacts
  <2>4. TabsIInv'
    <3>1. /\ page' = [page EXCEPT ![t] = "restoring"]
          /\ db' = [db EXCEPT ![t] = IF opens THEN "open" ELSE "null"]
          /\ live' = [live EXCEPT ![t] = state]
          /\ saved' = [saved EXCEPT ![t] = version]
          /\ chain' = [chain EXCEPT ![t] = <<PutJob(state)>>]
          /\ UNCHANGED <<fallback, timer, call, rejected>>
      BY <1>2 DEF Load, record
    <3>2. <<PutJob(state)>> \in Seq(WriteJob)
      BY <2>3
    <3> HIDE DEF state, version
    <3> QED BY <1>1, <2>2, <3>1, <3>2 DEF TabsIInv
  <2>5. SharedIInv'
    <3>1. /\ txq' = Append(txq, RequestOf(t, PutJob(state), version))
          /\ faults' \in {faults, faults + 1}
          /\ disturbed' \subseteq disturbed \cup {t} /\ repeated' \subseteq repeated
          /\ UNCHANGED <<idb, done, answered, idle, loads>>
      BY <1>2 DEF Load, record
    <3> HIDE DEF state, version
    <3>2. txq' \in Seq(Requests)
      BY <1>1, <2>3, <3>1 DEF SharedIInv
    <3> QED BY <1>1, <3>1, <3>2 DEF SharedIInv
  <2> QED BY <2>4, <2>5 DEF TypeIInv
<1>3. CASE Hydrated(t)
  BY <1>1, <1>3 DEF Hydrated, TypeIInv, TabsIInv, SharedIInv, shared, bookkeeping
<1>4. CASE Reload(t)
  <2>1. TabsIInv'
    <3>1. <<>> \in Seq(WriteJob)
      OBVIOUS
    <3> QED BY <1>1, <1>4, <3>1, BrowserFacts DEF Reload, TabsIInv
  <2>2. txq' \in Seq(Requests)
    BY <1>1, <1>4, WithoutTabFacts DEF Reload, SharedIInv
  <2>3. SharedIInv'
    BY <1>1, <1>4, <2>2 DEF Reload, SharedIInv
  <2> QED BY <2>1, <2>3 DEF TypeIInv
<1> QED BY <1>2, <1>3, <1>4

(* Types: the events of the interface.                                     *)
LEMMA UiTypes ==
  ASSUME TypeIInv, NEW t \in Tabs,
         \/ \E op \in UiOps, counted \in BOOLEAN : UiCommand(t, op, counted)
         \/ UiRefusal(t) \/ ViewChange(t) \/ DebouncedWrite(t)
  PROVE  TypeIInv'
<1>1. TabsIInv /\ SharedIInv /\ live[t] \in States /\ live[t].ver \in Nat
  BY TabFacts, StateFacts DEF TypeIInv
<1>2. ASSUME NEW op \in UiOps, NEW counted \in BOOLEAN,
                    UiCommand(t, op, counted) PROVE TypeIInv'
  <2> DEFINE state == [ver |-> IF counted THEN live[t].ver + 1 ELSE live[t].ver,
                       ops |-> live[t].ops \cup {op}]
             entry == [kind |-> "command", state |-> state, before |-> live[t].ver]
  <2>1. state \in States
    BY <1>1, CommandedFacts
  <2>2. entry \in WriteJob
    BY <1>1, <2>1 DEF WriteJob
  <2>3. /\ Enqueue(t, entry) /\ live' = [live EXCEPT ![t] = state]
        /\ timer' = [timer EXCEPT ![t] = FALSE]
        /\ done' = done \cup {op} /\ disturbed' = disturbed \cup Overlap(t)
        /\ UNCHANGED <<idb, page, db, fallback, saved, call, rejected, answered, repeated,
                       idle, faults, loads>>
    BY <1>2 DEF UiCommand
  <2> HIDE DEF state, entry
  <2>4. chain' \in [Tabs -> Seq(WriteJob)] /\ txq' \in Seq(Requests)
    BY <2>2, <2>3, EnqueueTypes
  <2>5. TabsIInv'
    BY <1>1, <2>1, <2>3, <2>4 DEF TabsIInv
  <2>6. SharedIInv'
    BY <1>1, <2>3, <2>4 DEF SharedIInv, Overlap
  <2> QED BY <2>5, <2>6 DEF TypeIInv
<1>3. CASE UiRefusal(t)
  <2> DEFINE entry == [kind |-> "command", state |-> live[t], before |-> live[t].ver]
  <2>1. entry \in WriteJob
    BY <1>1 DEF WriteJob
  <2>2. Enqueue(t, entry)
    BY <1>3 DEF UiRefusal
  <2> HIDE DEF entry
  <2>3. chain' \in [Tabs -> Seq(WriteJob)] /\ txq' \in Seq(Requests)
    BY <2>1, <2>2, EnqueueTypes
  <2>4. TabsIInv'
    BY <1>1, <1>3, <2>3 DEF UiRefusal, TabsIInv
  <2>5. SharedIInv'
    BY <1>1, <1>3, <2>3 DEF UiRefusal, SharedIInv, Overlap
  <2> QED BY <2>4, <2>5 DEF TypeIInv
<1>4. CASE ViewChange(t)
  BY <1>1, <1>4 DEF ViewChange, TypeIInv, TabsIInv, SharedIInv, shared
<1>5. CASE DebouncedWrite(t)
  <2>1. Enqueue(t, PutJob(live[t])) /\ PutJob(live[t]) \in WriteJob
    BY <1>1, <1>5, PutJobFacts DEF DebouncedWrite
  <2>2. chain' \in [Tabs -> Seq(WriteJob)] /\ txq' \in Seq(Requests)
    BY <2>1, EnqueueTypes
  <2> QED BY <1>1, <1>5, <2>2 DEF DebouncedWrite, TypeIInv, TabsIInv, SharedIInv, Overlap
<1> QED BY <1>2, <1>3, <1>4, <1>5

(* Types: an agent command is given.                                       *)
LEMMA AgentCallTypes ==
  ASSUME TypeIInv, NEW t \in Tabs, NEW kind, NEW key, AgentCall(t, kind, key),
         (kind = "mutate" /\ key \in Keys) \/ (kind = "preview" /\ key = None)
  PROVE  TypeIInv'
<1>1. TabsIInv /\ SharedIInv /\ live[t] \in States
  BY TabFacts DEF TypeIInv
<1>2. chain' \in [Tabs -> Seq(WriteJob)] /\ txq' \in Seq(Requests) /\ timer' \in [Tabs -> BOOLEAN]
  <2>1. CASE kind = "mutate" /\ timer[t]
    <3>1. /\ Enqueue(t, PutJob(live[t])) /\ PutJob(live[t]) \in WriteJob
          /\ timer' = [timer EXCEPT ![t] = FALSE]
      BY <1>1, <2>1, PutJobFacts DEF AgentCall
    <3>2. timer' \in [Tabs -> BOOLEAN]
      BY <1>1, <3>1 DEF TabsIInv
    <3> QED BY <3>1, <3>2, EnqueueTypes
  <2>2. CASE ~(kind = "mutate" /\ timer[t])
    BY <1>1, <2>2 DEF AgentCall, TabsIInv, SharedIInv
  <2> QED BY <2>1, <2>2
<1>3. /\ call' = [call EXCEPT ![t] = [phase |-> "waiting", kind |-> kind, key |-> key,
                                      wait |-> Len(chain'[t]), ok |-> TRUE]]
      /\ UNCHANGED <<idb, page, db, fallback, live, saved, rejected, done, answered, disturbed,
                     repeated, idle, faults, loads>>
  BY DEF AgentCall, bookkeeping
<1>4. [phase |-> "waiting", kind |-> kind, key |-> key, wait |-> Len(chain'[t]), ok |-> TRUE]
        \in AgentCalls
  <2>1. Len(chain'[t]) \in Nat
    BY <1>2
  <2> QED BY <2>1 DEF AgentCalls
<1>5. call' \in [Tabs -> {Idle} \cup AgentCalls]
  BY <1>1, <1>3, <1>4 DEF TabsIInv
<1> QED BY <1>1, <1>2, <1>3, <1>5 DEF TypeIInv, TabsIInv, SharedIInv

(* What a look-up reads and what it makes of the live engine.              *)
LEMMA RecordTypes ==
  ASSUME TypeIInv, NEW t \in Tabs, NEW fails \in BOOLEAN, AnsweredFromRecord(t, fails)
  PROVE  TypeIInv'
<1>1. TabsIInv /\ SharedIInv
  BY DEF TypeIInv
<1>2. PICK row \in RowsOf(Reached(t, fails), call[t].key) :
        /\ live' = IF row.ver > live[t].ver /\ VersionIn(Reached(t, fails)) >= row.ver
                   THEN [live EXCEPT ![t] = Reached(t, fails).state] ELSE live
        /\ IF row.ok THEN NoteAnswer(t, row.key, row.ver) ELSE UNCHANGED <<answered, saved>>
        /\ repeated' = IF row.ok THEN repeated \cup {t} ELSE repeated
  BY DEF AnsweredFromRecord
<1>3. row.key \in Keys /\ row.ver \in Nat /\ row.ok \in BOOLEAN
  <2>1. row \in Rows
    BY TabFacts
  <2> QED BY <2>1 DEF Rows
<1>4. live' \in [Tabs -> States]
  <2>1. CASE row.ver > live[t].ver /\ VersionIn(Reached(t, fails)) >= row.ver
    <3>1. live[t].ver \in Nat /\ Reached(t, fails).state \in States \cup {None}
          /\ VersionIn(Reached(t, fails)) \in Nat
      BY TabFacts, StateFacts, StoreFacts
    <3>2. VersionIn(Reached(t, fails)) > 0
      BY <1>3, <2>1, <3>1
    <3>3. Reached(t, fails).state \in States
      BY <3>1, <3>2 DEF VersionIn
    <3> QED BY <1>1, <1>2, <2>1, <3>3 DEF TabsIInv
  <2>2. CASE ~(row.ver > live[t].ver /\ VersionIn(Reached(t, fails)) >= row.ver)
    BY <1>1, <1>2, <2>2 DEF TabsIInv
  <2> QED BY <2>1, <2>2
<1>5. saved' \in [Tabs -> Nat \cup {None}] /\ answered' \subseteq Keys
  <2>1. CASE row.ok
    <3>1. answered' = answered \cup {row.key} /\ saved' = [saved EXCEPT ![t] = row.ver]
      BY <1>2, <2>1 DEF NoteAnswer
    <3>2. saved \in [Tabs -> Nat \cup {None}] /\ answered \subseteq Keys
      BY <1>1 DEF TabsIInv, SharedIInv
    <3> QED BY <1>3, <3>1, <3>2
  <2>2. CASE ~row.ok
    BY <1>1, <1>2, <2>2 DEF TabsIInv, SharedIInv
  <2> QED BY <2>1, <2>2
<1>6. /\ repeated' \subseteq repeated \cup {t} /\ faults' \in {faults, faults + 1}
      /\ call' = [call EXCEPT ![t] = Idle]
      /\ UNCHANGED <<idb, txq, page, db, fallback, timer, chain, rejected, done, disturbed, idle, loads>>
  BY <1>2 DEF AnsweredFromRecord, Finish, Faulted, shared
<1>7. TabsIInv'
  BY <1>1, <1>4, <1>5, <1>6 DEF TabsIInv
<1>8. SharedIInv'
  BY <1>1, <1>5, <1>6 DEF SharedIInv
<1> QED BY <1>7, <1>8 DEF TypeIInv

(* The transaction a new command asks for.                                 *)
AgentWrite(t, ok) ==
  [tab |-> t, by |-> "agent", kind |-> call[t].kind, key |-> call[t].key, ok |-> ok,
   state |-> Worked(t, ok), expected |-> live[t].ver]

LEMMA WriteFacts ==
  ASSUME TypeIInv, NEW t \in Tabs, NEW ok \in BOOLEAN, call[t] \in AgentCalls
  PROVE  /\ AgentWrite(t, ok) \in Requests
         /\ call[t].kind = "mutate" /\ ok =>
              /\ Worked(t, ok).ver = live[t].ver + 1
              /\ Worked(t, ok).ops = live[t].ops \cup {call[t].key}
         /\ ~(call[t].kind = "mutate" /\ ok) => Worked(t, ok) = live[t]
<1>1. live[t] \in States /\ live[t].ver \in Nat
  BY TabFacts, StateFacts
<1>2. /\ call[t].kind \in {"mutate", "preview"} /\ call[t].key \in Keys \cup {None}
      /\ call[t].kind = "mutate" => call[t].key \in Keys
  BY CallFacts
<1>3. Worked(t, ok) \in States
  BY <1>1, <1>2, StateFacts DEF Worked
<1>4. AgentWrite(t, ok) \in Requests
  BY <1>1, <1>2, <1>3 DEF AgentWrite, AgentRequest, Requests
<1> QED BY <1>4 DEF Worked

(* Types: an agent command goes on.                                        *)
LEMMA LookupTypes ==
  ASSUME TypeIInv, NEW t \in Tabs, ChainAwaited(t) \/ Lookup(t)
  PROVE  TypeIInv'
<1>1. TabsIInv /\ SharedIInv
  BY DEF TypeIInv
<1>2. CASE ChainAwaited(t)
  <2>1. call[t] \in AgentCalls
    BY <1>2, TabFacts, CallFacts DEF ChainAwaited
  <2>2. call' = [call EXCEPT ![t] = [call[t] EXCEPT !.phase = "lookup"]]
    BY <1>2 DEF ChainAwaited
  <2>3. call' \in [Tabs -> {Idle} \cup AgentCalls]
    BY <1>1, <2>1, <2>2, CallFacts DEF TabsIInv
  <2> QED BY <1>1, <1>2, <2>3 DEF ChainAwaited, TypeIInv, TabsIInv, SharedIInv, shared, bookkeeping
<1>3. CASE RefusedBefore(t)
  BY <1>1, <1>3 DEF RefusedBefore, Finish, TypeIInv, TabsIInv, SharedIInv, shared, bookkeeping
<1>4. ASSUME NEW fails \in BOOLEAN, NEW ok \in BOOLEAN, RunOnCopy(t, fails, ok)
      PROVE  TypeIInv'
  <2>1. call[t] \in AgentCalls
    BY <1>4, TabFacts, CallFacts DEF RunOnCopy
  <2>2. AgentWrite(t, ok) \in Requests
    BY <2>1, WriteFacts
  <2>3. /\ call' \in [Tabs -> {Idle} \cup AgentCalls] /\ txq' \in Seq(Requests)
    <3>1. CASE call[t].kind = "preview" /\ ~ok
      BY <1>1, <1>4, <3>1 DEF RunOnCopy, Finish, TabsIInv, SharedIInv
    <3>2. CASE ~(call[t].kind = "preview" /\ ~ok)
      <4>1. /\ call' = [call EXCEPT ![t] = [call[t] EXCEPT !.phase = "writing"]]
            /\ txq' = Append(txq, AgentWrite(t, ok))
        BY <1>4, <3>2 DEF RunOnCopy, AgentWrite
      <4>2. call' \in [Tabs -> {Idle} \cup AgentCalls]
        BY <1>1, <2>1, <4>1, CallFacts DEF TabsIInv
      <4>3. txq' \in Seq(Requests)
        BY <1>1, <2>2, <4>1 DEF SharedIInv
      <4> QED BY <4>2, <4>3
    <3> QED BY <3>1, <3>2
  <2>4. /\ faults' \in {faults, faults + 1}
        /\ UNCHANGED <<idb, page, db, fallback, live, saved, timer, chain, rejected, done,
                       answered, disturbed, repeated, idle, loads>>
    BY <1>4 DEF RunOnCopy, Faulted
  <2> QED BY <1>1, <2>3, <2>4 DEF TypeIInv, TabsIInv, SharedIInv
<1> QED BY <1>2, <1>3, <1>4, RecordTypes DEF Lookup


-----------------------------------------------------------------------------
(* A write changes the store it reaches and no other.                      *)
LEMMA WrittenTypes ==
  ASSUME TypeIInv, NEW t \in Tabs, NEW fails \in BOOLEAN, NEW store \in Store,
         Written(t, fails, store)
  PROVE  /\ idb' \in Store /\ fallback' \in [Tabs -> Store]
         /\ Persistent(t, fails) => idb' = store /\ fallback' = fallback
         /\ ~Persistent(t, fails) =>
              /\ idb' = idb /\ fallback'[t] = store
              /\ \A u \in Tabs \ {t} : fallback'[u] = fallback[u]
<1>1. idb \in Store /\ fallback \in [Tabs -> Store]
  BY DEF TypeIInv, TabsIInv, SharedIInv
<1>2. CASE Persistent(t, fails)
  BY <1>1, <1>2 DEF Written, Persistent
<1>3. CASE ~Persistent(t, fails)
  BY <1>1, <1>3 DEF Written, Persistent
<1> QED BY <1>2, <1>3

(* The rest of a chain, and a queue with nothing or one more at its end.   *)
LEMMA TailFacts ==
  ASSUME NEW S, NEW c \in Seq(S), c # <<>>
  PROVE  /\ Len(c) \in Nat /\ Len(c) > 0 /\ Tail(c) \in Seq(S) /\ c[1] \in S
         /\ Tail(c) = <<>> <=> ~(Len(c) > 1)
         /\ Tail(c) # <<>> => Tail(c)[1] = c[2] /\ c[2] \in S /\ Tail(c)[1] \in S
<1>1. Len(c) \in Nat /\ Len(c) > 0 /\ Tail(c) \in Seq(S) /\ Len(Tail(c)) = Len(c) - 1 /\ c[1] \in S
  OBVIOUS
<1>2. Tail(c) = <<>> <=> Len(Tail(c)) = 0
  BY <1>1
<1>3. ASSUME Len(c) > 1 PROVE Tail(c)[1] = c[2] /\ c[2] \in S
  BY <1>1, <1>3
<1> QED BY <1>1, <1>2, <1>3

LEMMA AppendOne ==
  ASSUME NEW S, NEW q \in Seq(S)
  PROVE  q \o <<>> = q /\ \A x \in S : q \o <<x>> = Append(q, x) /\ Append(q, x) \in Seq(S)
<1>1. ASSUME NEW x \in S PROVE q \o <<x>> = Append(q, x) /\ Append(q, x) \in Seq(S)
  OBVIOUS
<1> QED BY <1>1

(* What the chain of a tab asks for next, and the queue then.              *)
LEMMA FollowingFacts ==
  ASSUME NEW t \in Tabs, chain[t] \in Seq(WriteJob), chain[t] # <<>>,
         NEW v \in Nat \cup {None}, NEW q \in Seq(Requests)
  PROVE  /\ Tail(chain[t]) \in Seq(WriteJob)
         /\ Tail(chain[t]) = <<>> => q \o Following(t, v) = q
         /\ Tail(chain[t]) # <<>> =>
              /\ Tail(chain[t])[1] \in WriteJob
              /\ RequestOf(t, Tail(chain[t])[1], v) \in Requests
              /\ q \o Following(t, v) = Append(q, RequestOf(t, Tail(chain[t])[1], v))
         /\ q \o Following(t, v) \in Seq(Requests)
         /\ Len(chain[t]) > 1 <=> Tail(chain[t]) # <<>>
<1> DEFINE c == chain[t]
<1>1. /\ Len(c) \in Nat /\ Len(c) > 0 /\ Tail(c) \in Seq(WriteJob)
      /\ Tail(c) = <<>> <=> ~(Len(c) > 1)
      /\ Tail(c) # <<>> => Tail(c)[1] = c[2] /\ Tail(c)[1] \in WriteJob
  BY TailFacts
<1> HIDE DEF c
<1>2. CASE Tail(c) = <<>>
  <2>1. Following(t, v) = <<>>
    BY <1>1, <1>2 DEF Following, c
  <2>2. q \o Following(t, v) = q
    BY <2>1, AppendOne
  <2> QED BY <1>1, <1>2, <2>2 DEF c
<1>3. CASE Tail(c) # <<>>
  <2> DEFINE x == RequestOf(t, Tail(c)[1], v)
  <2>1. x \in Requests
    BY <1>1, <1>3, RequestFacts
  <2>2. Following(t, v) = <<x>>
    BY <1>1, <1>3 DEF Following, c
  <2> HIDE DEF x
  <2>3. q \o Following(t, v) = Append(q, x) /\ Append(q, x) \in Seq(Requests)
    BY <2>1, <2>2, AppendOne
  <2> QED BY <1>1, <1>3, <2>1, <2>3 DEF c, x
<1> QED BY <1>2, <1>3

(* A write that completes leaves the phase of the agent command alone.     *)
LEMMA AwaitedFacts ==
  ASSUME TypeIInv, NEW t \in Tabs, Awaited(t)
  PROVE  /\ call' \in [Tabs -> {Idle} \cup AgentCalls]
         /\ \A u \in Tabs : call'[u].phase = call[u].phase
<1>1. call \in [Tabs -> {Idle} \cup AgentCalls]
  BY DEF TypeIInv, TabsIInv
<1>2. CASE call[t].phase = "waiting" /\ call[t].wait > 0
  <2>1. call[t] \in AgentCalls /\ call[t].wait \in Nat
    BY <1>1, <1>2, CallFacts
  <2>2. call' = [call EXCEPT ![t] = [call[t] EXCEPT !.wait = call[t].wait - 1]]
    BY <1>2 DEF Awaited
  <2>3. /\ [call[t] EXCEPT !.wait = call[t].wait - 1] \in AgentCalls
        /\ [call[t] EXCEPT !.wait = call[t].wait - 1].phase = call[t].phase
    <3>1. call[t].wait - 1 \in Nat
      BY <1>2, <2>1
    <3>2. \A w \in Nat : [call[t] EXCEPT !.wait = w] \in AgentCalls
                         /\ [call[t] EXCEPT !.wait = w].phase = call[t].phase
      BY <2>1, CallFacts
    <3> QED BY <3>1, <3>2
  <2> QED BY <1>1, <2>2, <2>3
<1>3. CASE ~(call[t].phase = "waiting" /\ call[t].wait > 0)
  BY <1>1, <1>3 DEF Awaited
<1> QED BY <1>2, <1>3

(* The write of a chain that completes.                                    *)
ChainAllowed(fails) ==
  LET store == Reached(Head(txq).tab, fails)
  IN  IF Head(txq).kind = "put"
      THEN PutAllowed(store, Head(txq).state, Head(txq).expected)
      ELSE Writable(store, Head(txq).expected)

ChainVersion(fails) ==
  IF ChainAllowed(fails) THEN Head(txq).state.ver ELSE saved[Head(txq).tab]

ChainStore(fails) ==
  LET store == Reached(Head(txq).tab, fails)
  IN  IF ChainAllowed(fails) THEN [store EXCEPT !.state = Head(txq).state] ELSE store

(* The first transaction in the queue.                                     *)
LEMMA HeadFacts ==
  ASSUME TypeIInv, txq # <<>>
  PROVE  /\ Head(txq) \in Requests /\ Tail(txq) \in Seq(Requests)
         /\ Head(txq).tab \in Tabs /\ Head(txq).state \in States
         /\ Head(txq) = txq[1] /\ 1 \in DOMAIN txq
         /\ Head(txq).by = "chain" => Head(txq) \in ChainRequest
         /\ Head(txq).by = "agent" => Head(txq) \in AgentRequest
<1>1. txq \in Seq(Requests)
  BY DEF TypeIInv, SharedIInv
<1>2. Head(txq) \in Requests /\ Tail(txq) \in Seq(Requests) /\ Head(txq) = txq[1] /\ 1 \in DOMAIN txq
  BY <1>1
<1> QED BY <1>2 DEF Requests, ChainRequest, AgentRequest

(* ChainWriteCompletes, with the LETs of the action spelled out.           *)
LEMMA ChainStep ==
  ASSUME TypeIInv, LinedIInv, NEW fails \in BOOLEAN, ChainWriteCompletes(fails),
         NEW t, t = Head(txq).tab
  PROVE  /\ txq # <<>> /\ Head(txq).by = "chain" /\ t \in Tabs /\ Head(txq) \in ChainRequest
         /\ chain[t] \in Seq(WriteJob) /\ chain[t] # <<>>
         /\ ChainVersion(fails) \in Nat \cup {None} /\ ChainStore(fails) \in Store
         /\ Broken(t, fails) /\ Written(t, fails, ChainStore(fails))
         /\ saved' = [saved EXCEPT ![t] = ChainVersion(fails)]
         /\ chain' = [chain EXCEPT ![t] = Tail(chain[t])]
         /\ txq' = Tail(txq) \o Following(t, ChainVersion(fails))
         /\ Awaited(t)
         /\ disturbed' = disturbed \cup Disturbance(t, fails)
                                   \cup (IF Len(chain[t]) > 1 THEN Overlap(t) ELSE {})
         /\ faults' \in {faults, faults + 1}
         /\ UNCHANGED <<page, db, live, timer, rejected, done, answered, repeated, idle, loads>>
<1>1. txq # <<>> /\ Head(txq).by = "chain" /\ Broken(t, fails) /\ Awaited(t)
  BY DEF ChainWriteCompletes
<1>2. t \in Tabs /\ Head(txq) \in ChainRequest /\ Head(txq).state \in States
  BY <1>1, HeadFacts
<1>3. chain[t] \in Seq(WriteJob) /\ chain[t] # <<>>
  <2>1. Asked(txq, t, "chain")
    BY <1>1, HeadFacts DEF Asked, Of
  <2> QED BY <1>2, <2>1, TabFacts DEF LinedIInv, Lined
<1>4. ChainVersion(fails) \in Nat \cup {None} /\ ChainStore(fails) \in Store
  <2>1. Head(txq).state.ver \in Nat /\ saved[t] \in Nat \cup {None} /\ Reached(t, fails) \in Store
    BY <1>2, TabFacts, StateFacts
  <2>2. [Reached(t, fails) EXCEPT !.state = Head(txq).state] \in Store
    BY <1>2, <2>1, StoreFacts
  <2> QED BY <2>1, <2>2 DEF ChainVersion, ChainStore
<1>5. /\ Written(t, fails, ChainStore(fails))
      /\ saved' = [saved EXCEPT ![t] = ChainVersion(fails)]
      /\ txq' = Tail(txq) \o Following(t, ChainVersion(fails))
  BY DEF ChainWriteCompletes, ChainVersion, ChainStore, ChainAllowed
<1>6. /\ chain' = [chain EXCEPT ![t] = Tail(chain[t])]
      /\ disturbed' = disturbed \cup Disturbance(t, fails)
                                \cup (IF Len(chain[t]) > 1 THEN Overlap(t) ELSE {})
      /\ faults' \in {faults, faults + 1}
      /\ UNCHANGED <<page, db, live, timer, rejected, done, answered, repeated, idle, loads>>
  BY DEF ChainWriteCompletes, Faulted
<1> QED BY <1>1, <1>2, <1>3, <1>4, <1>5, <1>6

LEMMA DisturbanceType ==
  ASSUME NEW t \in Tabs, NEW fails
  PROVE  Disturbance(t, fails) \subseteq Tabs /\ Overlap(t) \subseteq Tabs
BY DEF Disturbance, Overlap

(* Types: a chain write completes.                                         *)
LEMMA ChainTypes ==
  ASSUME TypeIInv, LinedIInv, NEW fails \in BOOLEAN, ChainWriteCompletes(fails),
         NEW t, t = Head(txq).tab
  PROVE  TypeIInv'
<1>1. TabsIInv /\ SharedIInv
  BY DEF TypeIInv
<1>2. /\ t \in Tabs /\ chain[t] \in Seq(WriteJob) /\ chain[t] # <<>> /\ txq # <<>>
      /\ ChainVersion(fails) \in Nat \cup {None} /\ ChainStore(fails) \in Store
      /\ Written(t, fails, ChainStore(fails))
      /\ txq' = Tail(txq) \o Following(t, ChainVersion(fails))
  BY ChainStep
<1>3. idb' \in Store /\ fallback' \in [Tabs -> Store]
  BY <1>2, WrittenTypes
<1>4. txq' \in Seq(Requests) /\ Tail(chain[t]) \in Seq(WriteJob)
  BY <1>2, HeadFacts, FollowingFacts
<1>5. call' \in [Tabs -> {Idle} \cup AgentCalls]
  BY <1>2, ChainStep, AwaitedFacts
<1>6. /\ saved' = [saved EXCEPT ![t] = ChainVersion(fails)]
      /\ chain' = [chain EXCEPT ![t] = Tail(chain[t])]
      /\ faults' \in {faults, faults + 1}
      /\ UNCHANGED <<page, db, live, timer, rejected, done, answered, repeated, idle, loads>>
  BY ChainStep
<1>7. TabsIInv'
  BY <1>1, <1>2, <1>3, <1>4, <1>5, <1>6 DEF TabsIInv
<1>8. SharedIInv'
  <2>1. disturbed' \subseteq Tabs
    <3>1. Disturbance(t, fails) \subseteq Tabs /\ Overlap(t) \subseteq Tabs
      BY <1>2, DisturbanceType
    <3>2. disturbed' = disturbed \cup Disturbance(t, fails)
                                  \cup (IF Len(chain[t]) > 1 THEN Overlap(t) ELSE {})
      BY ChainStep
    <3> QED BY <1>1, <3>1, <3>2 DEF SharedIInv
  <2>2. faults' \in Nat /\ idle' \in Nat /\ loads' \in Nat
    BY <1>1, <1>6 DEF SharedIInv
  <2> QED BY <1>1, <1>3, <1>4, <1>6, <2>1, <2>2 DEF SharedIInv
<1> QED BY <1>7, <1>8 DEF TypeIInv

-----------------------------------------------------------------------------
(* The commit of an agent command that completes.                          *)
Known(fails) == RowsOf(Reached(Head(txq).tab, fails), Head(txq).key)

Commits(fails) ==
  Known(fails) = {} /\ Writable(Reached(Head(txq).tab, fails), Head(txq).expected)

CommitRow == [key |-> Head(txq).key, ver |-> Head(txq).state.ver, ok |-> Head(txq).ok]

CommitStore(fails) ==
  LET store == Reached(Head(txq).tab, fails)
  IN  IF Commits(fails) THEN [state |-> Head(txq).state, rows |-> store.rows \cup {CommitRow}]
      ELSE store

Published(fails) ==
  /\ Commits(fails) /\ Persistent(Head(txq).tab, fails) /\ Head(txq).ok
  /\ Head(txq).state.ver >= live[Head(txq).tab].ver

Earlier(fails) == {old \in Known(fails) : Persistent(Head(txq).tab, fails) /\ old.ok}

CommitLive(fails) ==
  LET t == Head(txq).tab
  IN  IF Published(fails) THEN Head(txq).state
      ELSE IF /\ Known(fails) # {} /\ Persistent(t, fails)
              /\ VersionIn(Reached(t, fails)) > live[t].ver
           THEN Reached(t, fails).state
           ELSE live[t]

(* MutationCompletes, with the LETs of the action spelled out.             *)
LEMMA CommitStep ==
  ASSUME TypeIInv, LinedIInv, NEW fails \in BOOLEAN, MutationCompletes(fails),
         NEW t, t = Head(txq).tab
  PROVE  /\ txq # <<>> /\ Head(txq).by = "agent" /\ Head(txq).kind = "mutate"
         /\ t \in Tabs /\ Head(txq) \in AgentRequest /\ Head(txq).state \in States
         /\ Head(txq).key \in Keys /\ CommitRow \in Rows /\ Known(fails) \subseteq Rows
         /\ CommitStore(fails) \in Store /\ CommitLive(fails) \in States
         /\ Broken(t, fails) /\ Written(t, fails, CommitStore(fails))
         /\ rejected' = IF (Commits(fails) \/ Known(fails) # {}) /\ ~Persistent(t, fails)
                        THEN [rejected EXCEPT ![t] = rejected[t] \cup {Head(txq).key}] ELSE rejected
         /\ live' = [live EXCEPT ![t] = CommitLive(fails)]
         /\ \/ Published(fails) /\ NoteAnswer(t, Head(txq).key, Head(txq).state.ver)
            \/ ~Published(fails) /\ \E old \in Earlier(fails) : NoteAnswer(t, old.key, old.ver)
            \/ ~Published(fails) /\ Earlier(fails) = {} /\ UNCHANGED <<answered, saved>>
         /\ call' = [call EXCEPT ![t] = Idle]
         /\ txq' = Tail(txq)
         /\ faults' \in {faults, faults + 1}
         /\ disturbed' = disturbed \cup Disturbance(t, fails)
         /\ repeated' = IF Earlier(fails) # {} THEN repeated \cup {t} ELSE repeated
         /\ UNCHANGED <<page, db, timer, chain, done, idle, loads>>
<1>1. txq # <<>> /\ Head(txq).by = "agent" /\ Head(txq).kind = "mutate" /\ Broken(t, fails)
  BY DEF MutationCompletes
<1>2. t \in Tabs /\ Head(txq) \in AgentRequest /\ Head(txq).state \in States
  BY <1>1, HeadFacts
<1>3. Head(txq).key \in Keys /\ CommitRow \in Rows /\ Known(fails) \subseteq Rows
  <2>1. Head(txq).key \in Keys /\ Head(txq).ok \in BOOLEAN /\ Head(txq).state.ver \in Nat
    BY <1>1, <1>2, StateFacts DEF AgentRequest
  <2>2. Known(fails) \subseteq Rows
    BY <1>2, TabFacts DEF Known
  <2> QED BY <2>1, <2>2 DEF CommitRow, Rows
<1>4. Reached(t, fails) \in Store
  BY <1>2, TabFacts
<1>5. CommitStore(fails) \in Store
  BY <1>2, <1>3, <1>4, StoreFacts DEF CommitStore
<1>6. CommitLive(fails) \in States
  <2>1. live[t] \in States /\ live[t].ver \in Nat /\ Reached(t, fails).state \in States \cup {None}
    BY <1>2, <1>4, TabFacts, StateFacts, StoreFacts
  <2>2. VersionIn(Reached(t, fails)) > live[t].ver => Reached(t, fails).state # None
    BY <2>1 DEF VersionIn
  <2> QED BY <1>2, <2>1, <2>2 DEF CommitLive
<1>7. /\ Written(t, fails, CommitStore(fails))
      /\ rejected' = IF (Commits(fails) \/ Known(fails) # {}) /\ ~Persistent(t, fails)
                     THEN [rejected EXCEPT ![t] = rejected[t] \cup {Head(txq).key}] ELSE rejected
  BY DEF MutationCompletes, CommitStore, Commits, Known, CommitRow
<1>8. live' = [live EXCEPT ![t] = CommitLive(fails)]
  <2>1. live' = IF Published(fails) THEN [live EXCEPT ![t] = Head(txq).state]
                ELSE IF /\ Known(fails) # {} /\ Persistent(t, fails)
                        /\ VersionIn(Reached(t, fails)) > live[t].ver
                     THEN [live EXCEPT ![t] = Reached(t, fails).state]
                     ELSE live
    BY DEF MutationCompletes, Published, Commits, Known
  <2>2. live = [live EXCEPT ![t] = live[t]]
    BY <1>2 DEF TypeIInv, TabsIInv
  <2> QED BY <2>1, <2>2 DEF CommitLive
<1>9. \/ Published(fails) /\ NoteAnswer(t, Head(txq).key, Head(txq).state.ver)
      \/ ~Published(fails) /\ \E old \in Earlier(fails) : NoteAnswer(t, old.key, old.ver)
      \/ ~Published(fails) /\ Earlier(fails) = {} /\ UNCHANGED <<answered, saved>>
  <2>1. IF Published(fails) THEN NoteAnswer(t, Head(txq).key, Head(txq).state.ver)
        ELSE IF Earlier(fails) # {}
             THEN \E old \in Earlier(fails) : NoteAnswer(t, old.key, old.ver)
             ELSE UNCHANGED <<answered, saved>>
    BY DEF MutationCompletes, Published, Commits, Known, Earlier
  <2> QED BY <2>1
<1>10. /\ call' = [call EXCEPT ![t] = Idle]
       /\ txq' = Tail(txq)
       /\ faults' \in {faults, faults + 1}
       /\ disturbed' = disturbed \cup Disturbance(t, fails)
       /\ UNCHANGED <<page, db, timer, chain, done, idle, loads>>
  BY DEF MutationCompletes, Faulted, Finish
<1>11. repeated' = IF Earlier(fails) # {} THEN repeated \cup {t} ELSE repeated
  BY DEF MutationCompletes, Earlier, Known
<1> QED BY <1>1, <1>2, <1>3, <1>5, <1>6, <1>7, <1>8, <1>9, <1>10, <1>11

(* Types: the commit of an agent command completes.                        *)
LEMMA CommitTypes ==
  ASSUME TypeIInv, LinedIInv, NEW fails \in BOOLEAN, MutationCompletes(fails),
         NEW t, t = Head(txq).tab
  PROVE  TypeIInv'
<1>1. TabsIInv /\ SharedIInv
  BY DEF TypeIInv
<1>2. /\ t \in Tabs /\ txq # <<>> /\ Head(txq).key \in Keys
      /\ Known(fails) \subseteq Rows /\ Head(txq).state \in States
      /\ CommitStore(fails) \in Store /\ Written(t, fails, CommitStore(fails))
      /\ CommitLive(fails) \in States
  BY CommitStep
<1>3. idb' \in Store /\ fallback' \in [Tabs -> Store]
  BY <1>2, WrittenTypes
<1>4. rejected' \in [Tabs -> SUBSET Keys]
  <2>1. rejected[t] \cup {Head(txq).key} \subseteq Keys
    BY <1>2, TabFacts
  <2>2. rejected' = rejected \/ rejected' = [rejected EXCEPT ![t] = rejected[t] \cup {Head(txq).key}]
    BY CommitStep
  <2> QED BY <1>1, <2>1, <2>2 DEF TabsIInv
<1>5. saved' \in [Tabs -> Nat \cup {None}] /\ answered' \subseteq Keys
  <2>1. CASE NoteAnswer(t, Head(txq).key, Head(txq).state.ver)
    <3>1. Head(txq).state.ver \in Nat
      BY <1>2, StateFacts
    <3> QED BY <1>1, <1>2, <2>1, <3>1 DEF NoteAnswer, TabsIInv, SharedIInv
  <2>2. ASSUME NEW old \in Earlier(fails), NoteAnswer(t, old.key, old.ver)
        PROVE  saved' \in [Tabs -> Nat \cup {None}] /\ answered' \subseteq Keys
    <3>1. old.key \in Keys /\ old.ver \in Nat
      BY <1>2, <2>2 DEF Earlier, Rows
    <3> QED BY <1>1, <2>2, <3>1 DEF NoteAnswer, TabsIInv, SharedIInv
  <2>3. CASE UNCHANGED <<answered, saved>>
    BY <1>1, <2>3 DEF TabsIInv, SharedIInv
  <2> QED BY <2>1, <2>2, <2>3, CommitStep
<1>6. /\ live' = [live EXCEPT ![t] = CommitLive(fails)]
      /\ call' = [call EXCEPT ![t] = Idle]
      /\ txq' = Tail(txq)
      /\ faults' \in {faults, faults + 1}
      /\ disturbed' = disturbed \cup Disturbance(t, fails)
      /\ UNCHANGED <<page, db, timer, chain, done, idle, loads>>
  BY CommitStep
<1>7. repeated' \subseteq Tabs
  <2>1. repeated' \subseteq repeated \cup {t}
    BY CommitStep
  <2> QED BY <1>1, <1>2, <2>1 DEF SharedIInv
<1>8. TabsIInv'
  BY <1>1, <1>2, <1>3, <1>4, <1>5, <1>6 DEF TabsIInv
<1>9. SharedIInv'
  <2>1. disturbed' \subseteq Tabs
    BY <1>1, <1>2, <1>6, DisturbanceType DEF SharedIInv
  <2>2. faults' \in Nat /\ idle' \in Nat /\ loads' \in Nat
    BY <1>1, <1>6 DEF SharedIInv
  <2>3. txq' \in Seq(Requests)
    BY <1>2, <1>6, HeadFacts
  <2> QED BY <1>1, <1>3, <1>5, <1>6, <1>7, <2>1, <2>2, <2>3 DEF SharedIInv
<1> QED BY <1>8, <1>9 DEF TypeIInv

(* The write of a preview that completes.                                  *)
PreviewWrites(fails) == ~fails /\ Writable(Reached(Head(txq).tab, FALSE), Head(txq).expected)

PreviewStore(fails) ==
  LET store == Reached(Head(txq).tab, FALSE)
  IN  IF PreviewWrites(fails) THEN [store EXCEPT !.state = Head(txq).state] ELSE store

(* PreviewCompletes, with the LETs of the action spelled out.              *)
LEMMA PreviewStep ==
  ASSUME TypeIInv, LinedIInv, NEW fails \in BOOLEAN, PreviewCompletes(fails),
         NEW t, t = Head(txq).tab
  PROVE  /\ txq # <<>> /\ Head(txq).by = "agent" /\ Head(txq).kind = "preview"
         /\ t \in Tabs /\ Head(txq) \in AgentRequest /\ Head(txq).state \in States
         /\ PreviewStore(fails) \in Store
         /\ Broken(t, fails) /\ Written(t, FALSE, PreviewStore(fails))
         /\ call' = [call EXCEPT ![t] = Idle]
         /\ txq' = Tail(txq)
         /\ faults' \in {faults, faults + 1}
         /\ disturbed' = disturbed \cup Disturbance(t, fails)
         /\ UNCHANGED <<page, db, live, saved, timer, chain, rejected, done, answered, repeated,
                        idle, loads>>
<1>1. txq # <<>> /\ Head(txq).by = "agent" /\ Head(txq).kind = "preview" /\ Broken(t, fails)
  BY DEF PreviewCompletes
<1>2. t \in Tabs /\ Head(txq) \in AgentRequest /\ Head(txq).state \in States
  BY <1>1, HeadFacts
<1>3. PreviewStore(fails) \in Store
  <2>1. Reached(t, FALSE) \in Store
    BY <1>2, TabFacts
  <2> QED BY <1>2, <2>1, StoreFacts DEF PreviewStore
<1>4. Written(t, FALSE, PreviewStore(fails))
  BY DEF PreviewCompletes, PreviewStore, PreviewWrites
<1>5. /\ call' = [call EXCEPT ![t] = Idle]
      /\ txq' = Tail(txq)
      /\ faults' \in {faults, faults + 1}
      /\ disturbed' = disturbed \cup Disturbance(t, fails)
      /\ UNCHANGED <<page, db, live, saved, timer, chain, rejected, done, answered, repeated,
                     idle, loads>>
  BY DEF PreviewCompletes, Faulted, Finish
<1> QED BY <1>1, <1>2, <1>3, <1>4, <1>5

(* Types: the write of a preview completes.                                *)
LEMMA PreviewTypes ==
  ASSUME TypeIInv, LinedIInv, NEW fails \in BOOLEAN, PreviewCompletes(fails),
         NEW t, t = Head(txq).tab
  PROVE  TypeIInv'
<1>1. TabsIInv /\ SharedIInv
  BY DEF TypeIInv
<1>2. /\ t \in Tabs /\ txq # <<>>
      /\ PreviewStore(fails) \in Store /\ Written(t, FALSE, PreviewStore(fails))
  BY PreviewStep
<1>3. idb' \in Store /\ fallback' \in [Tabs -> Store]
  BY <1>2, WrittenTypes
<1>4. /\ call' = [call EXCEPT ![t] = Idle]
      /\ txq' = Tail(txq)
      /\ faults' \in {faults, faults + 1}
      /\ disturbed' = disturbed \cup Disturbance(t, fails)
      /\ UNCHANGED <<page, db, live, saved, timer, chain, rejected, done, answered, repeated,
                     idle, loads>>
  BY PreviewStep
<1>5. TabsIInv'
  BY <1>1, <1>2, <1>3, <1>4 DEF TabsIInv
<1>6. SharedIInv'
  <2>1. disturbed' \subseteq Tabs
    BY <1>1, <1>2, <1>4, DisturbanceType DEF SharedIInv
  <2>2. faults' \in Nat /\ idle' \in Nat /\ loads' \in Nat
    BY <1>1, <1>4 DEF SharedIInv
  <2>3. txq' \in Seq(Requests)
    BY <1>2, <1>4, HeadFacts
  <2> QED BY <1>1, <1>3, <1>4, <2>1, <2>2, <2>3 DEF SharedIInv
<1> QED BY <1>5, <1>6 DEF TypeIInv

-----------------------------------------------------------------------------
(* What a tab has in the queue, when the queue changes.                    *)
LEMMA SameAsked ==
  ASSUME NEW q, NEW r, NEW u, Same(q, r, u), DOMAIN r \subseteq Nat
  PROVE  /\ \A by : Asked(r, u, by) <=> Asked(q, u, by)
         /\ OneOfEach(q, u) => OneOfEach(r, u)
         /\ \A i \in DOMAIN r : r[i].tab = u => \E k \in DOMAIN q : q[k] = r[i]
<1>1. PICK g \in [DOMAIN r -> Nat] :
         /\ \A i \in DOMAIN r : r[i].tab = u => g[i] \in DOMAIN q /\ q[g[i]] = r[i]
         /\ \A i, j \in DOMAIN r : r[i].tab = u /\ r[j].tab = u /\ i < j => g[i] < g[j]
         /\ \A k \in DOMAIN q : q[k].tab = u => \E i \in DOMAIN r : r[i].tab = u /\ g[i] = k
  BY DEF Same
<1>2. ASSUME NEW by PROVE Asked(r, u, by) <=> Asked(q, u, by)
  <2>1. ASSUME NEW i \in DOMAIN r, Of(r, i, u, by) PROVE Asked(q, u, by)
    BY <1>1, <2>1 DEF Asked, Of
  <2>2. ASSUME NEW k \in DOMAIN q, Of(q, k, u, by) PROVE Asked(r, u, by)
    <3>1. PICK i \in DOMAIN r : r[i].tab = u /\ g[i] = k
      BY <1>1, <2>2 DEF Of
    <3>2. Of(r, i, u, by)
      BY <1>1, <2>2, <3>1 DEF Of
    <3> QED BY <3>2 DEF Asked
  <2> QED BY <2>1, <2>2 DEF Asked
<1>3. ASSUME OneOfEach(q, u), NEW i \in DOMAIN r, NEW j \in DOMAIN r,
             r[i].tab = u, r[j].tab = u, r[i].by = r[j].by
      PROVE  i = j
  <2>1. /\ g[i] \in DOMAIN q /\ g[j] \in DOMAIN q /\ q[g[i]] = r[i] /\ q[g[j]] = r[j]
    BY <1>1, <1>3
  <2>2. g[i] = g[j]
    BY <1>3, <2>1 DEF OneOfEach
  <2>3. i \in Nat /\ j \in Nat /\ g[i] \in Nat /\ g[j] \in Nat
    BY <1>1
  <2>4. ~(i < j) /\ ~(j < i)
    <3>1. i < j => g[i] < g[j]
      BY <1>1, <1>3
    <3>2. j < i => g[j] < g[i]
      BY <1>1, <1>3
    <3> QED BY <2>2, <2>3, <3>1, <3>2
  <2> QED BY <2>3, <2>4
<1>4. OneOfEach(q, u) => OneOfEach(r, u)
  BY <1>3 DEF OneOfEach
<1>5. \A i \in DOMAIN r : r[i].tab = u => \E k \in DOMAIN q : q[k] = r[i]
  BY <1>1
<1> QED BY <1>2, <1>4, <1>5

(* What a tab knows of the queue is not touched by the requests of other   *)
(* tabs.                                                                   *)
LEMMA SameLined ==
  ASSUME NEW q, NEW r, NEW u, Same(q, r, u), DOMAIN r \subseteq Nat,
         NEW c, NEW k, NEW p, NEW l, Lined(q, u, c, k, p), k.phase = l.phase
  PROVE  Lined(r, u, c, l, p)
BY SameAsked DEF Lined

LEMMA SameInStep ==
  ASSUME NEW q, NEW r, NEW u, Same(q, r, u), DOMAIN r \subseteq Nat, DOMAIN q \subseteq Nat,
         NEW d, NEW c, NEW l, NEW s, InStep(q, u, d, c, l, s)
  PROVE  InStep(r, u, d, c, l, s)
<1>1. PICK g \in [DOMAIN r -> Nat] :
         /\ \A i \in DOMAIN r : r[i].tab = u => g[i] \in DOMAIN q /\ q[g[i]] = r[i]
         /\ \A i, j \in DOMAIN r : r[i].tab = u /\ r[j].tab = u /\ i < j => g[i] < g[j]
         /\ \A k \in DOMAIN q : q[k].tab = u => \E i \in DOMAIN r : r[i].tab = u /\ g[i] = k
  BY DEF Same
<1>2. ASSUME NEW i \in DOMAIN r, Of(r, i, u, "chain") PROVE r[i] = RequestOf(u, c[1], s)
  <2>1. g[i] \in DOMAIN q /\ q[g[i]] = r[i] /\ Of(q, g[i], u, "chain")
    BY <1>1, <1>2 DEF Of
  <2> QED BY <2>1 DEF InStep
<1>3. ASSUME NEW i \in DOMAIN r, Of(r, i, u, "agent") PROVE Built(r, i, u, l)
  <2>1. g[i] \in DOMAIN q /\ q[g[i]] = r[i] /\ Of(q, g[i], u, "agent") /\ r[i].tab = u
    BY <1>1, <1>3 DEF Of
  <2>2. Built(q, g[i], u, l)
    BY <2>1 DEF InStep
  <2>3. ASSUME NEW j \in DOMAIN r, r[j].tab = u PROVE j <= i
    <3>1. g[j] \in DOMAIN q /\ q[g[j]].tab = u
      BY <1>1, <2>3
    <3>2. g[j] <= g[i]
      BY <2>2, <3>1 DEF Built
    <3>3. i < j => g[i] < g[j]
      BY <1>1, <2>1, <2>3
    <3>4. i \in Nat /\ j \in Nat /\ g[i] \in Nat /\ g[j] \in Nat
      BY <1>1
    <3> QED BY <3>2, <3>3, <3>4
  <2> QED BY <2>1, <2>2, <2>3 DEF Built
<1> QED BY <1>2, <1>3 DEF InStep

(* A request of a kind the tab has none of joins the queue, and the first  *)
(* one leaves it.                                                          *)
LEMMA AppendAsked ==
  ASSUME NEW S, NEW q \in Seq(S), NEW x \in S, NEW t, x.tab = t, ~Asked(q, t, x.by)
  PROVE  /\ \A by : Asked(Append(q, x), t, by) <=> by = x.by \/ Asked(q, t, by)
         /\ OneOfEach(q, t) => OneOfEach(Append(q, x), t)
         /\ \A i \in DOMAIN Append(q, x) :
              \/ i \in DOMAIN q /\ Append(q, x)[i] = q[i]
              \/ i = Len(q) + 1 /\ Append(q, x)[i] = x
         /\ \A i \in DOMAIN Append(q, x) : i <= Len(q) + 1
<1> DEFINE r == Append(q, x)
<1>1. /\ DOMAIN r = 1 .. Len(q) + 1 /\ DOMAIN q = 1 .. Len(q) /\ Len(q) \in Nat
      /\ \A i \in 1 .. Len(q) : r[i] = q[i]
      /\ r[Len(q) + 1] = x
  OBVIOUS
<1> HIDE DEF r
<1>2. Len(q) + 1 \in DOMAIN r /\ \A i \in DOMAIN q : i \in DOMAIN r /\ r[i] = q[i]
  BY <1>1
<1>3. \A i \in DOMAIN r : \/ i \in DOMAIN q /\ r[i] = q[i]
                          \/ i = Len(q) + 1 /\ r[i] = x
  BY <1>1
<1>4. ASSUME NEW by PROVE Asked(r, t, by) <=> by = x.by \/ Asked(q, t, by)
  BY <1>1, <1>2, <1>3 DEF Asked, Of
<1>5. ASSUME OneOfEach(q, t), NEW i \in DOMAIN r, NEW j \in DOMAIN r,
             r[i].tab = t, r[j].tab = t, r[i].by = r[j].by
      PROVE  i = j
  BY <1>3, <1>5 DEF OneOfEach, Asked, Of
<1>6. OneOfEach(q, t) => OneOfEach(r, t)
  BY <1>5 DEF OneOfEach
<1>7. \A i \in DOMAIN r : i <= Len(q) + 1
  BY <1>1
<1> QED BY <1>3, <1>4, <1>6, <1>7 DEF r

LEMMA TailAsked ==
  ASSUME NEW S, NEW q \in Seq(S), q # <<>>, NEW t, q[1].tab = t, OneOfEach(q, t)
  PROVE  /\ \A by : Asked(Tail(q), t, by) <=> by # q[1].by /\ Asked(q, t, by)
         /\ OneOfEach(Tail(q), t)
         /\ \A i \in DOMAIN Tail(q) : i \in Nat /\ i + 1 \in DOMAIN q /\ Tail(q)[i] = q[i + 1]
<1> DEFINE r == Tail(q)
<1>1. /\ DOMAIN r = 1 .. Len(q) - 1 /\ DOMAIN q = 1 .. Len(q) /\ Len(q) \in Nat
      /\ \A i \in 1 .. Len(q) - 1 : r[i] = q[i + 1]
      /\ 1 \in DOMAIN q
  OBVIOUS
<1> HIDE DEF r
<1>2. \A i \in DOMAIN r : i \in Nat /\ i + 1 \in DOMAIN q /\ r[i] = q[i + 1] /\ i + 1 # 1
  BY <1>1
<1>3. ASSUME NEW by PROVE Asked(r, t, by) <=> by # q[1].by /\ Asked(q, t, by)
  <2>1. ASSUME NEW i \in DOMAIN r, Of(r, i, t, by) PROVE by # q[1].by /\ Asked(q, t, by)
    <3>1. i + 1 \in DOMAIN q /\ r[i] = q[i + 1] /\ i + 1 # 1
      BY <1>2
    <3>2. q[i + 1].tab = t /\ q[i + 1].by = by
      BY <2>1, <3>1 DEF Of
    <3>3. Asked(q, t, by)
      BY <3>1, <3>2 DEF Asked, Of
    <3>4. by # q[1].by
      BY <1>1, <3>1, <3>2 DEF OneOfEach
    <3> QED BY <3>3, <3>4
  <2>2. ASSUME NEW k \in DOMAIN q, Of(q, k, t, by), by # q[1].by PROVE Asked(r, t, by)
    <3>1. k # 1
      BY <2>2 DEF Of
    <3>2. k - 1 \in DOMAIN r /\ r[k - 1] = q[k]
      <4>1. k - 1 \in 1 .. Len(q) - 1 /\ (k - 1) + 1 = k
        BY <1>1, <3>1
      <4> QED BY <1>1, <4>1
    <3> QED BY <2>2, <3>2 DEF Asked, Of
  <2> QED BY <2>1, <2>2 DEF Asked
<1>4. ASSUME NEW i \in DOMAIN r, NEW j \in DOMAIN r,
             r[i].tab = t, r[j].tab = t, r[i].by = r[j].by
      PROVE  i = j
  <2>1. i + 1 = j + 1
    BY <1>2, <1>4 DEF OneOfEach
  <2> QED BY <1>2, <2>1
<1>5. OneOfEach(r, t)
  BY <1>4 DEF OneOfEach
<1> QED BY <1>2, <1>3, <1>5 DEF r

-----------------------------------------------------------------------------
(* The tabs, one by one: a step keeps what is true of the tab it is about,  *)
(* and leaves the others apart.                                            *)
Good(u) ==
  /\ Lined(txq, u, chain[u], call[u], page[u])
  /\ Undisturbed(u) => /\ db[u] = "open"
                       /\ InStep(txq, u, idb.state, chain[u], live[u], saved[u])

AllGood == \A u \in Tabs : Good(u)

(* A step leaves tab u apart: its requests and its chain stay, and it is   *)
(* undisturbed afterwards only if it was before and neither it nor the     *)
(* database moved.                                                         *)
Apart(u) ==
  /\ Same(txq, txq', u)
  /\ chain'[u] = chain[u]
  /\ page'[u] = "loading" => page[u] = "loading" /\ call'[u].phase = call[u].phase
  /\ call[u].phase = "writing" => call'[u].phase = "writing"
  /\ Undisturbed(u)' =>
       /\ Undisturbed(u) /\ idb' = idb
       /\ db'[u] = db[u] /\ live'[u] = live[u] /\ saved'[u] = saved[u]

LEMMA SameSelf == ASSUME NEW S, NEW q \in Seq(S), NEW u PROVE Same(q, q, u)
<1> DEFINE g == [i \in DOMAIN q |-> i]
<1>1. DOMAIN q \subseteq Nat
  OBVIOUS
<1>2. g \in [DOMAIN q -> Nat] /\ \A i \in DOMAIN q : g[i] = i
  BY <1>1
<1> HIDE DEF g
<1> QED BY <1>2 DEF Same

(* What a step leaves apart stays in step.                                 *)
LEMMA ApartGood ==
  ASSUME TypeIInv, TypeIInv', NEW u \in Tabs, Good(u), Apart(u)
  PROVE  Good(u)'
<1>1. DOMAIN txq \subseteq Nat /\ DOMAIN txq' \subseteq Nat
  <2>1. txq \in Seq(Requests) /\ txq' \in Seq(Requests)
    BY DEF TypeIInv, SharedIInv
  <2> QED BY <2>1
<1>2. /\ \A by : Asked(txq', u, by) <=> Asked(txq, u, by)
      /\ OneOfEach(txq, u) => OneOfEach(txq', u)
  BY <1>1, SameAsked DEF Apart
<1>3. Lined(txq', u, chain'[u], call'[u], page'[u])
  BY <1>2 DEF Good, Lined, Apart
<1>4. ASSUME Undisturbed(u)'
      PROVE  db'[u] = "open" /\ InStep(txq', u, idb'.state, chain'[u], live'[u], saved'[u])
  <2>1. db[u] = "open" /\ InStep(txq, u, idb.state, chain[u], live[u], saved[u])
    BY <1>4 DEF Good, Apart
  <2>2. InStep(txq', u, idb.state, chain[u], live[u], saved[u])
    BY <1>1, <2>1, SameInStep DEF Apart
  <2> QED BY <1>4, <2>1, <2>2 DEF Apart
<1> QED BY <1>3, <1>4 DEF Good

(* A tab whose queue does not change.                                      *)
LEMMA QueueSame ==
  ASSUME TypeIInv, NEW u, txq' = txq
  PROVE  Same(txq, txq', u)
<1>1. txq \in Seq(Requests)
  BY DEF TypeIInv, SharedIInv
<1>2. Same(txq, txq, u)
  BY <1>1, SameSelf
<1> QED BY <1>2

(* A loaded tab shows what it read and writes it back.                     *)
LEMMA LoadGood ==
  ASSUME TypeIInv, TypeIInv', AllGood, NEW t \in Tabs,
         NEW opens \in BOOLEAN, NEW reads \in BOOLEAN, Load(t, opens, reads)
  PROVE  AllGood'
<1> DEFINE record == IF opens /\ reads THEN idb.state ELSE None
           state == IF record = None THEN Seed ELSE record
           version == IF record = None THEN None ELSE record.ver
           x == RequestOf(t, PutJob(state), version)
<1>1. TabsIInv /\ SharedIInv /\ idb.state \in States \cup {None}
  BY StoreFacts DEF TypeIInv, SharedIInv
<1>2. state \in States /\ version \in Nat \cup {None} /\ state.ver \in Nat
  BY <1>1, BrowserFacts, StateFacts
<1>3. /\ page[t] = "loading"
      /\ page' = [page EXCEPT ![t] = "restoring"]
      /\ db' = [db EXCEPT ![t] = IF opens THEN "open" ELSE "null"]
      /\ live' = [live EXCEPT ![t] = state]
      /\ saved' = [saved EXCEPT ![t] = version]
      /\ chain' = [chain EXCEPT ![t] = <<PutJob(state)>>]
      /\ txq' = Append(txq, x)
      /\ disturbed' = IF opens /\ reads THEN disturbed \ {t} ELSE disturbed \cup {t}
      /\ repeated' = repeated \ {t}
      /\ idb' = idb /\ call' = call
  BY DEF Load
<1>4. opens /\ reads => record = idb.state
  OBVIOUS
<1>5. /\ record = None => state = Seed /\ version = None
      /\ record # None => state = record /\ version = record.ver
  OBVIOUS
<1> HIDE DEF record, state, version
<1>6. PutJob(state) \in WriteJob /\ PutJob(state).state = state /\ PutJob(state).kind = "put"
      /\ x \in Requests /\ x.tab = t /\ x.by = "chain" /\ x = RequestOf(t, PutJob(state), version)
  <2>1. PutJob(state) \in WriteJob /\ PutJob(state).state = state /\ PutJob(state).kind = "put"
    BY <1>2, PutJobFacts
  <2>2. \A entry \in WriteJob : LET y == RequestOf(t, entry, version)
                             IN  y \in Requests /\ y.tab = t /\ y.by = "chain"
    BY <1>2, RequestFacts
  <2> QED BY <2>1, <2>2
<1> HIDE DEF x
<1>7. txq \in Seq(Requests)
  BY <1>1 DEF SharedIInv
<1>8. ASSUME NEW u \in Tabs \ {t} PROVE Good(u)'
  <2>1. Same(txq, txq', u)
    BY <1>3, <1>6, <1>7, <1>8, SameAppend
  <2>2. Apart(u)
    BY <1>1, <1>3, <1>8, <2>1 DEF Apart, Undisturbed, TabsIInv
  <2> QED BY <1>8, <2>2, ApartGood DEF AllGood
<1>9. Good(t)'
  <2>1. Lined(txq, t, chain[t], call[t], page[t])
    BY DEF AllGood, Good
  <2>2. /\ ~Asked(txq, t, "chain") /\ ~Asked(txq, t, "agent") /\ OneOfEach(txq, t)
        /\ call[t].phase = "idle"
    BY <1>3, <2>1, CallFacts DEF Lined
  <2>3. /\ \A by : Asked(txq', t, by) <=> by = "chain"
        /\ OneOfEach(txq', t)
        /\ \A i \in DOMAIN txq' : txq'[i] = x \/ (i \in DOMAIN txq /\ txq'[i] = txq[i])
    <3>1. /\ \A by : Asked(txq', t, by) <=> by = "chain" \/ Asked(txq, t, by)
          /\ OneOfEach(txq', t)
          /\ \A i \in DOMAIN txq' : txq'[i] = x \/ (i \in DOMAIN txq /\ txq'[i] = txq[i])
      <4>1. ~Asked(txq, t, x.by)
        BY <1>6, <2>2
      <4>2. /\ \A by : Asked(Append(txq, x), t, by) <=> by = x.by \/ Asked(txq, t, by)
            /\ OneOfEach(Append(txq, x), t)
            /\ \A i \in DOMAIN Append(txq, x) :
                 \/ i \in DOMAIN txq /\ Append(txq, x)[i] = txq[i]
                 \/ i = Len(txq) + 1 /\ Append(txq, x)[i] = x
        BY <1>6, <1>7, <2>2, <4>1, AppendAsked
      <4> QED BY <1>3, <1>6, <4>2
    <3>2. ASSUME NEW by, Asked(txq, t, by) PROVE FALSE
      <4>1. PICK i \in DOMAIN txq : txq[i].tab = t /\ txq[i].by = by
        BY <3>2 DEF Asked, Of
      <4>2. txq[i].by \in {"chain", "agent"}
        BY <1>7 DEF Requests, ChainRequest, AgentRequest
      <4> QED BY <2>2, <3>2, <4>1, <4>2
    <3> QED BY <3>1, <3>2
  <2>4. /\ page'[t] = "restoring" /\ chain'[t] = <<PutJob(state)>> /\ call'[t] = call[t]
        /\ live'[t] = state /\ saved'[t] = version
        /\ db'[t] = IF opens THEN "open" ELSE "null"
    BY <1>1, <1>3 DEF TabsIInv
  <2>5. Lined(txq', t, chain'[t], call'[t], page'[t])
    BY <2>3, <2>4 DEF Lined
  <2>6. ASSUME Undisturbed(t)'
        PROVE  db'[t] = "open" /\ InStep(txq', t, idb'.state, chain'[t], live'[t], saved'[t])
    <3>1. opens /\ reads
      BY <1>3, <2>6 DEF Undisturbed
    <3>2. record = idb.state
      BY <1>4, <3>1
    <3> DEFINE c == <<PutJob(state)>>
    <3>3. c # <<>> /\ DOMAIN c = {1} /\ Len(c) = 1 /\ c[1] = PutJob(state)
      OBVIOUS
    <3> HIDE DEF c
    <3>4. /\ StateVersion(idb.state) <= state.ver
          /\ version = None => idb.state = None
          /\ version # None => version = StateVersion(idb.state)
      BY <1>1, <1>2, <1>5, <3>2, BrowserFacts, StateFacts DEF StateVersion
    <3>5. \A i \in DOMAIN txq' : Of(txq', i, t, "chain") => txq'[i] = RequestOf(t, c[1], version)
      BY <1>6, <2>2, <2>3, <3>3 DEF Asked, Of
    <3>6. \A i \in DOMAIN txq' : ~Of(txq', i, t, "agent")
      BY <2>3 DEF Asked
    <3>7. \A i \in DOMAIN c : c[i].state.ver <= state.ver
      BY <1>2, <1>6, <3>3
    <3>8. InStep(txq', t, idb.state, c, state, version)
      BY <1>6, <3>3, <3>4, <3>5, <3>6, <3>7 DEF InStep
    <3> QED BY <1>3, <2>4, <3>1, <3>8 DEF c
  <2> QED BY <2>5, <2>6 DEF Good
<1> QED BY <1>8, <1>9 DEF AllGood

(* A page that is closed takes its transactions along.                     *)
LEMMA ReloadGood ==
  ASSUME TypeIInv, TypeIInv', AllGood, NEW t \in Tabs, Hydrated(t) \/ Reload(t)
  PROVE  AllGood'
<1>1. TabsIInv /\ SharedIInv
  BY DEF TypeIInv
<1>2. CASE Hydrated(t)
  <2> SUFFICES ASSUME NEW u \in Tabs PROVE Good(u)'
    BY DEF AllGood
  <2>1. Same(txq, txq', u)
    BY <1>2, QueueSame DEF Hydrated, shared
  <2>2. Apart(u)
    BY <1>1, <1>2, <2>1 DEF Hydrated, Apart, Undisturbed, TabsIInv, shared, bookkeeping
  <2> QED BY <2>2, ApartGood DEF AllGood
<1>3. CASE Reload(t)
  <2>1. /\ WithoutTab(t) \in Seq(Requests)
        /\ \A i \in DOMAIN WithoutTab(t) : WithoutTab(t)[i].tab # t
        /\ \A u : u # t => Same(txq, WithoutTab(t), u)
    BY <1>1, WithoutTabFacts DEF SharedIInv
  <2>2. ASSUME NEW u \in Tabs \ {t} PROVE Good(u)'
    <3>1. Apart(u)
      BY <1>1, <1>3, <2>1, <2>2 DEF Reload, Apart, Undisturbed, TabsIInv
    <3> QED BY <2>2, <3>1, ApartGood DEF AllGood
  <2>3. Good(t)'
    <3>1. /\ page'[t] = "loading" /\ chain'[t] = <<>> /\ call'[t] = Idle /\ txq' = WithoutTab(t)
      BY <1>1, <1>3 DEF Reload, TabsIInv
    <3>2. OneOfEach(txq', t) /\ \A by : ~Asked(txq', t, by)
      BY <2>1, <3>1 DEF OneOfEach, Asked, Of
    <3>3. Lined(txq', t, chain'[t], call'[t], page'[t])
      BY <3>1, <3>2, CallFacts DEF Lined
    <3> QED BY <3>1, <3>3 DEF Good, Undisturbed
  <2> QED BY <2>2, <2>3 DEF AllGood
<1> QED BY <1>2, <1>3

-----------------------------------------------------------------------------
(* A chain with one more job.                                              *)
LEMMA AppendJob ==
  ASSUME NEW S, NEW c \in Seq(S), NEW x \in S
  PROVE  /\ Append(c, x) \in Seq(S) /\ Append(c, x) # <<>>
         /\ Append(c, x)[Len(Append(c, x))] = x
         /\ c = <<>> => Append(c, x)[1] = x
         /\ c # <<>> => Append(c, x)[1] = c[1]
         /\ \A i \in DOMAIN Append(c, x) : Append(c, x)[i] = x \/ (i \in DOMAIN c /\ Append(c, x)[i] = c[i])
<1> DEFINE r == Append(c, x)
<1>1. /\ r \in Seq(S) /\ Len(r) = Len(c) + 1 /\ Len(c) \in Nat
      /\ DOMAIN r = 1 .. Len(c) + 1 /\ DOMAIN c = 1 .. Len(c)
      /\ \A i \in 1 .. Len(c) : r[i] = c[i]
      /\ r[Len(c) + 1] = x
  OBVIOUS
<1>2. c = <<>> <=> Len(c) = 0
  OBVIOUS
<1> HIDE DEF r
<1>3. r # <<>>
  <2>1. SUFFICES ASSUME r = <<>> PROVE FALSE
    OBVIOUS
  <2>2. Len(r) = 0
    BY <2>1
  <2> QED BY <1>1, <2>2
<1>4. r[Len(r)] = x /\ (c = <<>> => r[1] = x)
  BY <1>1, <1>2
<1>5. c # <<>> => r[1] = c[1]
  <2>1. c # <<>> => 1 \in 1 .. Len(c)
    BY <1>1, <1>2
  <2> QED BY <1>1, <2>1
<1>6. \A i \in DOMAIN r : r[i] = x \/ (i \in DOMAIN c /\ r[i] = c[i])
  BY <1>1
<1> QED BY <1>1, <1>3, <1>4, <1>5, <1>6 DEF r

(* The queue after a write joined a chain.                                 *)
Joined(q, t, c, x) == IF c = <<>> THEN Append(q, x) ELSE q

(* Joining the chain keeps one transaction of it in the queue, the one of  *)
(* its first job.                                                          *)
LEMMA JoinedAsked ==
  ASSUME NEW q \in Seq(Requests), NEW t, NEW c \in Seq(WriteJob), NEW x \in Requests, x.tab = t, x.by = "chain",
         OneOfEach(q, t), c # <<>> <=> Asked(q, t, "chain")
  PROVE  /\ OneOfEach(Joined(q, t, c, x), t)
         /\ Asked(Joined(q, t, c, x), t, "chain")
         /\ Asked(Joined(q, t, c, x), t, "agent") <=> Asked(q, t, "agent")
         /\ \A i \in DOMAIN Joined(q, t, c, x) :
              \/ i \in DOMAIN q /\ Joined(q, t, c, x)[i] = q[i]
              \/ c = <<>> /\ Joined(q, t, c, x)[i] = x
<1>1. CASE c = <<>>
  <2>1. ~Asked(q, t, x.by)
    BY <1>1
  <2>2. /\ \A by : Asked(Append(q, x), t, by) <=> by = x.by \/ Asked(q, t, by)
        /\ OneOfEach(Append(q, x), t)
        /\ \A i \in DOMAIN Append(q, x) :
             \/ i \in DOMAIN q /\ Append(q, x)[i] = q[i]
             \/ i = Len(q) + 1 /\ Append(q, x)[i] = x
    BY <2>1, AppendAsked
  <2> QED BY <1>1, <2>2 DEF Joined
<1>2. CASE c # <<>>
  BY <1>2 DEF Joined
<1> QED BY <1>1, <1>2

(* A tab in step without an agent command in the queue stays in step when  *)
(* its new live state joins the chain.                                     *)
LEMMA JoinedInStep ==
  ASSUME NEW q \in Seq(Requests), NEW t \in Tabs, NEW c \in Seq(WriteJob), NEW entry \in WriteJob,
         NEW d \in States \cup {None}, NEW l \in States, NEW s \in Nat \cup {None},
         l.ver <= entry.state.ver, OneOfEach(q, t), c # <<>> <=> Asked(q, t, "chain"),
         ~Asked(q, t, "agent"), InStep(q, t, d, c, l, s)
  PROVE  InStep(Joined(q, t, c, RequestOf(t, entry, s)), t, d, Append(c, entry), entry.state, s)
<1> DEFINE x == RequestOf(t, entry, s)
           r == Joined(q, t, c, x)
           e == Append(c, entry)
<1>1. x \in Requests /\ x.tab = t /\ x.by = "chain" /\ x = RequestOf(t, entry, s)
  BY RequestFacts
<1> HIDE DEF x
<1>2. /\ ~Asked(r, t, "agent")
      /\ \A i \in DOMAIN r : \/ i \in DOMAIN q /\ r[i] = q[i]
                             \/ c = <<>> /\ r[i] = x
  <2>1. /\ Asked(Joined(q, t, c, x), t, "agent") <=> Asked(q, t, "agent")
        /\ \A i \in DOMAIN Joined(q, t, c, x) :
             \/ i \in DOMAIN q /\ Joined(q, t, c, x)[i] = q[i]
             \/ c = <<>> /\ Joined(q, t, c, x)[i] = x
    <3> HIDE DEF r
    <3>1. OneOfEach(q, t) /\ (c # <<>> <=> Asked(q, t, "chain"))
      OBVIOUS
    <3> QED BY <1>1, <3>1, JoinedAsked
  <2> QED BY <2>1
<1>3. /\ e # <<>> /\ e[Len(e)] = entry
      /\ c = <<>> => e[1] = entry
      /\ c # <<>> => e[1] = c[1]
      /\ \A i \in DOMAIN e : e[i] = entry \/ (i \in DOMAIN c /\ e[i] = c[i])
  BY AppendJob
<1> HIDE DEF r, e
<1>4. /\ l.ver \in Nat /\ entry.state \in States /\ entry.state.ver \in Nat /\ StateVersion(d) \in Nat
      /\ \A i \in DOMAIN c : c[i].state.ver \in Nat
  <2>1. entry.state \in States /\ \A i \in DOMAIN c : c[i] \in WriteJob
    <3>1. entry.state \in States
      BY DEF WriteJob
    <3>2. \A i \in DOMAIN c : c[i] \in WriteJob
      OBVIOUS
    <3> QED BY <3>1, <3>2
  <2>2. \A i \in DOMAIN c : c[i].state \in States
    BY <2>1 DEF WriteJob
  <2> QED BY <2>1, <2>2, StateFacts DEF StateVersion
<1>5. StateVersion(d) <= entry.state.ver
  BY <1>4 DEF InStep
<1>6. ASSUME NEW i \in DOMAIN e PROVE e[i].state.ver <= entry.state.ver
  <2>1. CASE e[i] = entry
    BY <1>4, <2>1
  <2>2. CASE i \in DOMAIN c /\ e[i] = c[i]
    <3>1. c[i].state.ver <= l.ver /\ c[i].state.ver \in Nat
      BY <1>4, <2>2 DEF InStep
    <3> QED BY <1>4, <2>2, <3>1
  <2> QED BY <1>3, <2>1, <2>2
<1>7. /\ s = None => d = None /\ e[1].kind = "put"
      /\ s # None => s = StateVersion(d)
  <2>1. c = <<>> => s # None
    BY <1>4, BrowserFacts DEF InStep
  <2> QED BY <1>3, <2>1 DEF InStep
<1>8. ASSUME NEW i \in DOMAIN r, Of(r, i, t, "chain") PROVE r[i] = RequestOf(t, e[1], s)
  <2>1. CASE c = <<>> /\ r[i] = x
    BY <1>1, <1>3, <2>1
  <2>2. CASE i \in DOMAIN q /\ r[i] = q[i]
    <3>1. Of(q, i, t, "chain")
      BY <1>8, <2>2 DEF Of
    <3>2. c # <<>>
      BY <2>2, <3>1 DEF Asked
    <3> QED BY <1>3, <2>2, <3>1, <3>2 DEF InStep
  <2> QED BY <1>2, <2>1, <2>2
<1>9. \A i \in DOMAIN r : Of(r, i, t, "agent") => Built(r, i, t, entry.state)
  BY <1>2 DEF Asked
<1>10. InStep(r, t, d, e, entry.state, s)
  BY <1>3, <1>5, <1>6, <1>7, <1>8, <1>9 DEF InStep
<1> QED BY <1>10 DEF r, e, x

(* Whatever joins the chain of a tab keeps every tab in step; an agent     *)
(* command being written counts as a disturbance.                          *)
LEMMA EnqueueGood ==
  ASSUME TypeIInv, TypeIInv', AllGood, NEW t \in Tabs, NEW entry \in WriteJob, Enqueue(t, entry),
         page[t] # "loading", UNCHANGED <<page, idb, db, saved, repeated>>,
         live'[t] = entry.state, live[t].ver <= entry.state.ver,
         \A u \in Tabs \ {t} : live'[u] = live[u] /\ call'[u] = call[u],
         disturbed \subseteq disturbed', Writing(t) => t \in disturbed',
         Writing(t) => call'[t].phase = "writing"
  PROVE  AllGood'
<1> DEFINE x == RequestOf(t, entry, saved[t])
<1>1. /\ txq \in Seq(Requests) /\ chain[t] \in Seq(WriteJob) /\ saved[t] \in Nat \cup {None}
      /\ idb.state \in States \cup {None} /\ live[t] \in States
  BY TabFacts, StoreFacts DEF TypeIInv, SharedIInv
<1>2. x \in Requests /\ x.tab = t /\ x.by = "chain"
  BY <1>1, RequestFacts
<1>3. /\ txq' = Joined(txq, t, chain[t], x)
      /\ chain'[t] = Append(chain[t], entry)
      /\ \A u \in Tabs \ {t} : chain'[u] = chain[u]
  BY DEF Enqueue, Joined, TypeIInv, TabsIInv
<1> HIDE DEF x
<1>4. ASSUME NEW u \in Tabs \ {t} PROVE Good(u)'
  <2>1. Same(txq, txq', u)
    <3>1. CASE chain[t] = <<>>
      BY <1>1, <1>2, <1>3, <1>4, <3>1, SameAppend DEF Joined
    <3>2. CASE chain[t] # <<>>
      BY <1>3, <3>2, QueueSame DEF Joined
    <3> QED BY <3>1, <3>2
  <2>2. Apart(u)
    BY <1>3, <1>4, <2>1 DEF Apart, Undisturbed
  <2> QED BY <1>4, <2>2, ApartGood DEF AllGood
<1>5. Good(t)'
  <2>1. Lined(txq, t, chain[t], call[t], page[t])
    BY DEF AllGood, Good
  <2>2. /\ OneOfEach(txq', t) /\ Asked(txq', t, "chain")
        /\ Asked(txq', t, "agent") <=> Asked(txq, t, "agent")
    BY <1>1, <1>2, <1>3, <2>1, JoinedAsked DEF Lined
  <2>3. Lined(txq', t, chain'[t], call'[t], page'[t])
    <3>1. chain'[t] # <<>>
      BY <1>1, <1>3, AppendJob
    <3> QED BY <2>1, <2>2, <3>1 DEF Lined, Writing
  <2>4. ASSUME Undisturbed(t)'
        PROVE  db'[t] = "open" /\ InStep(txq', t, idb'.state, chain'[t], live'[t], saved'[t])
    <3>1. Undisturbed(t) /\ ~Writing(t)
      BY <2>4 DEF Undisturbed
    <3>2. db[t] = "open" /\ InStep(txq, t, idb.state, chain[t], live[t], saved[t])
      BY <3>1 DEF AllGood, Good
    <3>3. ~Asked(txq, t, "agent") /\ OneOfEach(txq, t) /\ (chain[t] # <<>> <=> Asked(txq, t, "chain"))
      BY <2>1, <3>1 DEF Lined, Writing
    <3>4. InStep(txq', t, idb.state, chain'[t], entry.state, saved[t])
      BY <1>1, <1>3, <3>2, <3>3, JoinedInStep DEF x
    <3> QED BY <3>2, <3>4
  <2> QED BY <2>3, <2>4 DEF Good
<1> QED BY <1>4, <1>5 DEF AllGood


(* In step: the events of the interface.                                   *)
LEMMA UiGood ==
  ASSUME TypeIInv, TypeIInv', AllGood, NEW t \in Tabs,
         \/ \E op \in UiOps, counted \in BOOLEAN : UiCommand(t, op, counted)
         \/ UiRefusal(t) \/ ViewChange(t) \/ (DebouncedWrite(t) /\ page[t] # "loading")
  PROVE  AllGood'
<1>1. TabsIInv /\ live[t] \in States /\ live[t].ver \in Nat
  BY TabFacts, StateFacts DEF TypeIInv
<1>2. disturbed \subseteq disturbed \cup Overlap(t) /\ (Writing(t) => t \in disturbed \cup Overlap(t))
  BY DEF Overlap
<1>3. ASSUME NEW op \in UiOps, NEW counted \in BOOLEAN,
                    UiCommand(t, op, counted) PROVE AllGood'
  <2> DEFINE state == [ver |-> IF counted THEN live[t].ver + 1 ELSE live[t].ver,
                       ops |-> live[t].ops \cup {op}]
             entry == [kind |-> "command", state |-> state, before |-> live[t].ver]
  <2>1. state \in States /\ live[t].ver <= state.ver
    BY <1>1, CommandedFacts
  <2>2. /\ page[t] = "ready" /\ Enqueue(t, entry)
        /\ live' = [live EXCEPT ![t] = state]
        /\ disturbed' = disturbed \cup Overlap(t)
        /\ UNCHANGED <<page, idb, db, saved, repeated, call>>
    BY <1>3 DEF UiCommand
  <2> HIDE DEF state
  <2>3. entry \in WriteJob /\ entry.state = state
    BY <1>1, <2>1 DEF WriteJob
  <2> HIDE DEF entry
  <2>4. live'[t] = state /\ \A u \in Tabs \ {t} : live'[u] = live[u] /\ call'[u] = call[u]
    BY <1>1, <2>2 DEF TabsIInv
  <2>5. Writing(t) => call'[t].phase = "writing"
    BY <2>2 DEF Writing
  <2> QED BY <1>2, <2>1, <2>2, <2>3, <2>4, <2>5, EnqueueGood
<1>4. CASE UiRefusal(t)
  <2> DEFINE entry == [kind |-> "command", state |-> live[t], before |-> live[t].ver]
  <2>1. entry \in WriteJob /\ entry.state = live[t]
    BY <1>1 DEF WriteJob
  <2>2. /\ page[t] = "ready" /\ Enqueue(t, entry)
        /\ disturbed' = disturbed \cup Overlap(t)
        /\ UNCHANGED <<page, idb, db, live, saved, repeated, call>>
    BY <1>4 DEF UiRefusal
  <2> HIDE DEF entry
  <2>3. Writing(t) => call'[t].phase = "writing"
    BY <2>2 DEF Writing
  <2>4. live'[t] = entry.state /\ live[t].ver <= entry.state.ver
    BY <1>1, <2>1, <2>2
  <2> QED BY <1>2, <2>1, <2>2, <2>3, <2>4, EnqueueGood
<1>5. CASE ViewChange(t)
  <2> SUFFICES ASSUME NEW u \in Tabs PROVE Good(u)'
    BY DEF AllGood
  <2>1. Same(txq, txq', u)
    BY <1>5, QueueSame DEF ViewChange, shared
  <2>2. Apart(u)
    BY <1>5, <2>1 DEF ViewChange, Apart, Undisturbed, shared
  <2> QED BY <2>2, ApartGood DEF AllGood
<1>6. CASE DebouncedWrite(t) /\ page[t] # "loading"
  <2>1. PutJob(live[t]) \in WriteJob /\ PutJob(live[t]).state = live[t]
    BY <1>1, PutJobFacts
  <2>2. /\ Enqueue(t, PutJob(live[t]))
        /\ disturbed' = disturbed \cup Overlap(t)
        /\ UNCHANGED <<page, idb, db, live, saved, repeated, call>>
    BY <1>6 DEF DebouncedWrite
  <2>3. Writing(t) => call'[t].phase = "writing"
    BY <2>2 DEF Writing
  <2>4. live'[t] = PutJob(live[t]).state /\ live[t].ver <= PutJob(live[t]).state.ver
    BY <1>1, <2>1, <2>2
  <2> QED BY <1>2, <1>6, <2>1, <2>2, <2>3, <2>4, EnqueueGood
<1> QED BY <1>3, <1>4, <1>5, <1>6

(* In step: an agent command is given.                                     *)
LEMMA AgentCallGood ==
  ASSUME TypeIInv, TypeIInv', AllGood, NEW t \in Tabs, NEW kind, NEW key, AgentCall(t, kind, key)
  PROVE  AllGood'
<1>1. TabsIInv /\ live[t] \in States /\ live[t].ver \in Nat
  BY TabFacts, StateFacts DEF TypeIInv
<1>2. /\ page[t] = "ready" /\ call[t] = Idle
      /\ call' = [call EXCEPT ![t] = [phase |-> "waiting", kind |-> kind, key |-> key,
                                      wait |-> Len(chain'[t]), ok |-> TRUE]]
      /\ UNCHANGED <<idb, page, db, fallback, live, saved, disturbed, repeated>>
  BY DEF AgentCall, bookkeeping
<1>3. /\ call[t].phase = "idle" /\ ~Writing(t)
      /\ \A u \in Tabs \ {t} : call'[u] = call[u]
  BY <1>1, <1>2, CallFacts DEF Writing, TabsIInv
<1>4. CASE kind = "mutate" /\ timer[t]
  <2>1. PutJob(live[t]) \in WriteJob /\ PutJob(live[t]).state = live[t]
    BY <1>1, PutJobFacts
  <2>2. Enqueue(t, PutJob(live[t]))
    BY <1>4 DEF AgentCall
  <2>3. live'[t] = PutJob(live[t]).state /\ live[t].ver <= PutJob(live[t]).state.ver
    BY <1>1, <1>2, <2>1
  <2> QED BY <1>2, <1>3, <2>1, <2>2, <2>3, EnqueueGood
<1>5. CASE ~(kind = "mutate" /\ timer[t])
  <2> SUFFICES ASSUME NEW u \in Tabs PROVE Good(u)'
    BY DEF AllGood
  <2>1. chain' = chain /\ txq' = txq
    BY <1>5 DEF AgentCall
  <2>2. Same(txq, txq', u)
    BY <2>1, QueueSame
  <2>3. Apart(u)
    <3>1. call[u].phase = "writing" => call'[u].phase = "writing"
      BY <1>3
    <3>2. page'[u] = "loading" => page[u] = "loading" /\ call'[u].phase = call[u].phase
      BY <1>2, <1>3
    <3> QED BY <1>2, <2>1, <2>2, <3>1, <3>2 DEF Apart, Undisturbed
  <2> QED BY <2>3, ApartGood DEF AllGood
<1> QED BY <1>4, <1>5

(* A command of the tab is built on what the tab shows.                    *)
LEMMA AgentWriteGood ==
  ASSUME TypeIInv, TypeIInv', AllGood, NEW t \in Tabs, NEW ok \in BOOLEAN,
         call[t].phase = "lookup", call[t] \in AgentCalls,
         txq' = Append(txq, AgentWrite(t, ok)), call'[t].phase = "writing",
         \A u \in Tabs \ {t} : call'[u] = call[u],
         UNCHANGED <<page, idb, db, live, saved, chain, disturbed, repeated>>
  PROVE  AllGood'
<1> DEFINE x == AgentWrite(t, ok)
<1>1. txq \in Seq(Requests)
  BY DEF TypeIInv, SharedIInv
<1>2. /\ x \in Requests /\ x.tab = t /\ x.by = "agent" /\ x.kind = call[t].kind /\ x.ok = ok
      /\ x.state = Worked(t, ok) /\ x.expected = live[t].ver
      /\ txq' = Append(txq, x)
  BY WriteFacts DEF AgentWrite
<1>3. /\ call[t].kind = "mutate" /\ ok => Worked(t, ok).ver = live[t].ver + 1
      /\ ~(call[t].kind = "mutate" /\ ok) => Worked(t, ok) = live[t]
  BY WriteFacts
<1> HIDE DEF x
<1>4. ASSUME NEW u \in Tabs \ {t} PROVE Good(u)'
  <2>1. Same(txq, txq', u)
    BY <1>1, <1>2, <1>4, SameAppend
  <2>2. Apart(u)
    BY <1>4, <2>1 DEF Apart, Undisturbed
  <2> QED BY <1>4, <2>2, ApartGood DEF AllGood
<1>5. Good(t)'
  <2>1. Lined(txq, t, chain[t], call[t], page[t])
    BY DEF AllGood, Good
  <2>2. ~Asked(txq, t, "agent") /\ OneOfEach(txq, t) /\ page[t] # "loading"
    BY <2>1 DEF Lined
  <2>3. /\ \A by : Asked(txq', t, by) <=> by = "agent" \/ Asked(txq, t, by)
        /\ OneOfEach(txq', t)
        /\ \A i \in DOMAIN txq' : \/ i \in DOMAIN txq /\ txq'[i] = txq[i]
                                  \/ i = Len(txq) + 1 /\ txq'[i] = x
        /\ \A i \in DOMAIN txq' : i <= Len(txq) + 1
    <3>1. ~Asked(txq, t, x.by)
      BY <1>2, <2>2
    <3>2. /\ \A by : Asked(Append(txq, x), t, by) <=> by = x.by \/ Asked(txq, t, by)
          /\ OneOfEach(Append(txq, x), t)
          /\ \A i \in DOMAIN Append(txq, x) :
               \/ i \in DOMAIN txq /\ Append(txq, x)[i] = txq[i]
               \/ i = Len(txq) + 1 /\ Append(txq, x)[i] = x
          /\ \A i \in DOMAIN Append(txq, x) : i <= Len(txq) + 1
      BY <1>1, <1>2, <2>2, <3>1, AppendAsked
    <3> QED BY <1>2, <3>2
  <2>4. Lined(txq', t, chain'[t], call'[t], page'[t])
    BY <2>1, <2>2, <2>3 DEF Lined
  <2>5. ASSUME Undisturbed(t)'
        PROVE  db'[t] = "open" /\ InStep(txq', t, idb'.state, chain'[t], live'[t], saved'[t])
    <3>1. db[t] = "open" /\ InStep(txq, t, idb.state, chain[t], live[t], saved[t])
      BY <2>5 DEF Undisturbed, AllGood, Good
    <3>2. ASSUME NEW i \in DOMAIN txq', Of(txq', i, t, "chain")
          PROVE  txq'[i] = RequestOf(t, chain[t][1], saved[t])
      BY <1>2, <2>3, <3>1, <3>2 DEF Of, InStep
    <3>3. ASSUME NEW i \in DOMAIN txq', Of(txq', i, t, "agent")
          PROVE  Built(txq', i, t, live[t])
      <4>1. i = Len(txq) + 1 /\ txq'[i] = x
        BY <2>2, <2>3, <3>3 DEF Asked, Of
      <4>2. /\ txq'[i].expected = live[t].ver
            /\ txq'[i].kind = "mutate" /\ txq'[i].ok => txq'[i].state.ver = live[t].ver + 1
            /\ ~(txq'[i].kind = "mutate" /\ txq'[i].ok) => txq'[i].state = live[t]
        BY <1>2, <1>3, <4>1
      <4>3. \A j \in DOMAIN txq' : txq'[j].tab = t => j <= i
        BY <2>3, <4>1
      <4> QED BY <4>2, <4>3 DEF Built
    <3> QED BY <3>1, <3>2, <3>3 DEF InStep
  <2> QED BY <2>4, <2>5 DEF Good
<1> QED BY <1>4, <1>5 DEF AllGood


(* A record is found in the database only, and the tab that shows at least *)
(* what the database holds does not move because of it.                    *)
LEMMA RecordFacts ==
  ASSUME TypeIInv, BooksIInv, NEW t \in Tabs, NEW fails \in BOOLEAN, AnsweredFromRecord(t, fails)
  PROVE  /\ Reached(t, fails) = idb
         /\ \E row \in idb.rows :
              /\ row.key = call[t].key /\ row \in Rows
              /\ live' = IF row.ver > live[t].ver /\ VersionIn(idb) >= row.ver
                         THEN [live EXCEPT ![t] = idb.state] ELSE live
              /\ IF row.ok THEN NoteAnswer(t, row.key, row.ver) ELSE UNCHANGED <<answered, saved>>
              /\ repeated' = IF row.ok THEN repeated \cup {t} ELSE repeated
<1>1. PICK row \in RowsOf(Reached(t, fails), call[t].key) :
        /\ live' = IF row.ver > live[t].ver /\ VersionIn(Reached(t, fails)) >= row.ver
                   THEN [live EXCEPT ![t] = Reached(t, fails).state] ELSE live
        /\ IF row.ok THEN NoteAnswer(t, row.key, row.ver) ELSE UNCHANGED <<answered, saved>>
        /\ repeated' = IF row.ok THEN repeated \cup {t} ELSE repeated
  BY DEF AnsweredFromRecord
<1>2. row \in Reached(t, fails).rows /\ row.key = call[t].key /\ row \in Rows
  BY TabFacts DEF RowsOf
<1>3. call[t].key \notin rejected[t]
  BY DEF AnsweredFromRecord, Blocked
<1>4. Reached(t, fails) = idb
  <2>1. CASE db[t] = "open" /\ ~fails
    BY <2>1 DEF Reached
  <2>2. CASE ~(db[t] = "open" /\ ~fails)
    <3>1. row \in fallback[t].rows
      BY <1>2, <2>2 DEF Reached
    <3> QED BY <1>2, <1>3, <3>1 DEF BooksIInv
  <2> QED BY <2>1, <2>2
<1> QED BY <1>1, <1>2, <1>4

(* In step: a command is answered from its record.                         *)
LEMMA RecordGood ==
  ASSUME TypeIInv, TypeIInv', AllGood, BooksIInv, NEW t \in Tabs, NEW fails \in BOOLEAN,
         AnsweredFromRecord(t, fails)
  PROVE  AllGood'
<1>1. PICK row \in idb.rows :
        /\ row \in Rows
        /\ live' = IF row.ver > live[t].ver /\ VersionIn(idb) >= row.ver
                   THEN [live EXCEPT ![t] = idb.state] ELSE live
        /\ IF row.ok THEN NoteAnswer(t, row.key, row.ver) ELSE UNCHANGED <<answered, saved>>
        /\ repeated' = IF row.ok THEN repeated \cup {t} ELSE repeated
  BY RecordFacts
<1>2. /\ call[t].phase = "lookup" /\ call' = [call EXCEPT ![t] = Idle]
      /\ UNCHANGED <<idb, txq, page, db, chain, disturbed>>
  BY DEF AnsweredFromRecord, Finish, shared
<1>3. TabsIInv /\ \A u \in Tabs \ {t} : call'[u] = call[u] /\ live'[u] = live[u] /\ saved'[u] = saved[u]
  <2>1. TabsIInv
    BY DEF TypeIInv
  <2>2. \A u \in Tabs \ {t} : saved'[u] = saved[u]
    BY <1>1, <2>1 DEF NoteAnswer, TabsIInv
  <2>3. \A u \in Tabs \ {t} : call'[u] = call[u] /\ live'[u] = live[u]
    BY <1>1, <1>2, <2>1 DEF TabsIInv
  <2> QED BY <2>1, <2>2, <2>3
<1>4. ASSUME NEW u \in Tabs \ {t} PROVE Good(u)'
  <2>1. Same(txq, txq', u)
    BY <1>2, QueueSame
  <2>2. Apart(u)
    BY <1>1, <1>2, <1>3, <1>4, <2>1 DEF Apart, Undisturbed
  <2> QED BY <1>4, <2>2, ApartGood DEF AllGood
<1>5. Good(t)'
  <2>1. page[t] # "loading"
    BY <1>2 DEF AllGood, Good, Lined
  <2>2. ASSUME Undisturbed(t)'
        PROVE  /\ Undisturbed(t) /\ idb' = idb
               /\ db'[t] = db[t] /\ live'[t] = live[t] /\ saved'[t] = saved[t]
    <3>1. ~row.ok /\ Undisturbed(t)
      BY <1>1, <1>2, <2>2 DEF Undisturbed
    <3>2. StateVersion(idb.state) <= live[t].ver
      BY <3>1 DEF AllGood, Good, InStep
    <3>3. /\ VersionIn(idb) = StateVersion(idb.state) /\ VersionIn(idb) \in Nat
          /\ live[t].ver \in Nat /\ row.ver \in Nat
      BY <1>1, TabFacts, StateFacts, StoreFacts DEF Rows, TypeIInv, SharedIInv
    <3>4. ~(row.ver > live[t].ver /\ VersionIn(idb) >= row.ver)
      BY <3>2, <3>3
    <3> QED BY <1>1, <1>2, <3>1, <3>4
  <2>3. Same(txq, txq', t)
    BY <1>2, QueueSame
  <2>4. Apart(t)
    BY <1>2, <2>1, <2>2, <2>3 DEF Apart
  <2> QED BY <2>4, ApartGood DEF AllGood
<1> QED BY <1>4, <1>5 DEF AllGood

(* In step: an agent command goes on.                                      *)
LEMMA LookupGood ==
  ASSUME TypeIInv, TypeIInv', AllGood, BooksIInv, NEW t \in Tabs, ChainAwaited(t) \/ Lookup(t)
  PROVE  AllGood'
<1>1. TabsIInv
  BY DEF TypeIInv
<1>2. ASSUME call[t].phase \in {"waiting", "lookup"}, txq' = txq,
             \A u \in Tabs \ {t} : call'[u] = call[u],
             UNCHANGED <<page, idb, db, live, saved, chain, disturbed, repeated>>
      PROVE  AllGood'
  <2> SUFFICES ASSUME NEW u \in Tabs PROVE Good(u)'
    BY DEF AllGood
  <2>1. Same(txq, txq', u)
    BY <1>2, QueueSame
  <2>2. page[t] # "loading"
    BY <1>2 DEF AllGood, Good, Lined
  <2>3. Apart(u)
    BY <1>2, <2>1, <2>2 DEF Apart, Undisturbed
  <2> QED BY <2>3, ApartGood DEF AllGood
<1>3. CASE ChainAwaited(t)
  BY <1>1, <1>2, <1>3 DEF ChainAwaited, shared, bookkeeping, TabsIInv
<1>4. CASE RefusedBefore(t)
  BY <1>1, <1>2, <1>4 DEF RefusedBefore, Finish, shared, bookkeeping, TabsIInv
<1>5. ASSUME NEW fails \in BOOLEAN, NEW ok \in BOOLEAN, RunOnCopy(t, fails, ok)
      PROVE  AllGood'
  <2>1. /\ call[t].phase = "lookup" /\ call[t] \in AgentCalls
        /\ UNCHANGED <<page, idb, db, live, saved, chain, disturbed, repeated>>
    BY <1>5, TabFacts, CallFacts DEF RunOnCopy
  <2>2. CASE call[t].kind = "preview" /\ ~ok
    <3>1. call' = [call EXCEPT ![t] = Idle] /\ txq' = txq
      BY <1>5, <2>2 DEF RunOnCopy, Finish
    <3> QED BY <1>1, <1>2, <2>1, <3>1 DEF TabsIInv
  <2>3. CASE ~(call[t].kind = "preview" /\ ~ok)
    <3>1. /\ call' = [call EXCEPT ![t] = [call[t] EXCEPT !.phase = "writing"]]
          /\ txq' = Append(txq, AgentWrite(t, ok))
      BY <1>5, <2>3 DEF RunOnCopy, AgentWrite
    <3>2. call'[t].phase = "writing" /\ \A u \in Tabs \ {t} : call'[u] = call[u]
      BY <1>1, <2>1, <3>1, CallFacts DEF TabsIInv
    <3> QED BY <2>1, <3>1, <3>2, AgentWriteGood
  <2> QED BY <2>2, <2>3
<1> QED BY <1>3, <1>4, <1>5, RecordGood DEF Lookup

-----------------------------------------------------------------------------
(* The completions.                                                        *)

(* A completion leaves the other tabs apart: if it wrote the database,     *)
(* they are disturbed.                                                     *)
LEMMA CompletionApart ==
  ASSUME TypeIInv, TypeIInv', AllGood, txq # <<>>, NEW t, t = Head(txq).tab,
         NEW fails, NEW u \in Tabs \ {t}, Same(Tail(txq), txq', u),
         disturbed \cup Disturbance(t, fails) \subseteq disturbed', repeated \subseteq repeated',
         chain'[u] = chain[u], call'[u].phase = call[u].phase, page' = page, db' = db,
         live'[u] = live[u], saved'[u] = saved[u]
  PROVE  Good(u)'
<1>1. txq \in Seq(Requests) /\ txq' \in Seq(Requests)
  BY DEF TypeIInv, SharedIInv
<1>2. DOMAIN txq \subseteq Nat /\ DOMAIN Tail(txq) \subseteq Nat /\ DOMAIN txq' \subseteq Nat
  <2>1. Tail(txq) \in Seq(Requests)
    BY HeadFacts
  <2> QED BY <1>1, <2>1
<1>3. Same(txq, Tail(txq), u)
  BY <1>1, SameTail
<1>4. Same(txq, txq', u)
  BY <1>2, <1>3, SameTransitive
<1>5. u \notin disturbed' => idb' = idb
  BY DEF Disturbance
<1>6. Apart(u)
  BY <1>4, <1>5 DEF Apart, Undisturbed
<1> QED BY <1>6, ApartGood DEF AllGood

(* What the head of the queue says of its tab.                             *)
LEMMA HeadGood ==
  ASSUME TypeIInv, AllGood, txq # <<>>, NEW t, t = Head(txq).tab
  PROVE  /\ t \in Tabs /\ LinedIInv /\ OneOfEach(Tail(txq), t)
         /\ \A by : Asked(Tail(txq), t, by) <=> by # Head(txq).by /\ Asked(txq, t, by)
         /\ \A i \in DOMAIN Tail(txq) : i \in Nat /\ i + 1 \in DOMAIN txq /\ Tail(txq)[i] = txq[i + 1]
         /\ Head(txq).by = "chain" => chain[t] # <<>>
         /\ Head(txq).by = "agent" => Writing(t) /\ page[t] # "loading"
<1>1. /\ t \in Tabs /\ Head(txq) = txq[1] /\ 1 \in DOMAIN txq /\ txq \in Seq(Requests)
  BY HeadFacts DEF TypeIInv, SharedIInv
<1>2. Lined(txq, t, chain[t], call[t], page[t]) /\ LinedIInv
  BY <1>1 DEF AllGood, Good, LinedIInv
<1>3. /\ OneOfEach(Tail(txq), t)
      /\ \A by : Asked(Tail(txq), t, by) <=> by # txq[1].by /\ Asked(txq, t, by)
      /\ \A i \in DOMAIN Tail(txq) : i \in Nat /\ i + 1 \in DOMAIN txq /\ Tail(txq)[i] = txq[i + 1]
  <2>1. txq[1].tab = t /\ OneOfEach(txq, t)
    BY <1>1, <1>2 DEF Lined
  <2> QED BY <1>1, <2>1, TailAsked
<1>4. Asked(txq, t, Head(txq).by)
  BY <1>1 DEF Asked, Of
<1>5. Head(txq).by = "agent" => Writing(t) /\ page[t] # "loading"
  <2>1. call[t].phase = "writing" => call[t].phase # "idle"
    OBVIOUS
  <2> QED BY <1>2, <1>4, <2>1 DEF Lined, Writing
<1> QED BY <1>1, <1>2, <1>3, <1>4, <1>5 DEF Lined

(* In a tab in step, the running write of the chain is always let through. *)
LEMMA ChainLetThrough ==
  ASSUME TypeIInv, AllGood, NEW fails \in BOOLEAN, ChainWriteCompletes(fails),
         NEW t, t = Head(txq).tab, Undisturbed(t), ~fails
  PROVE  /\ ChainVersion(fails) = chain[t][1].state.ver /\ chain[t][1] \in WriteJob
         /\ idb'.state = chain[t][1].state
<1>1. LinedIInv /\ txq # <<>> /\ Head(txq).by = "chain" /\ t \in Tabs
  <2>1. txq # <<>> /\ Head(txq).by = "chain"
    BY DEF ChainWriteCompletes
  <2> QED BY <2>1, HeadGood
<1>2. /\ chain[t] \in Seq(WriteJob) /\ chain[t] # <<>> /\ chain[t][1] \in WriteJob
      /\ saved[t] \in Nat \cup {None}
  <2>1. chain[t] \in Seq(WriteJob) /\ chain[t] # <<>>
    BY <1>1, ChainStep
  <2> QED BY <1>1, <2>1, TailFacts, TabFacts
<1>3. db[t] = "open" /\ InStep(txq, t, idb.state, chain[t], live[t], saved[t])
  BY <1>1 DEF AllGood, Good
<1>4. Reached(t, fails) = idb /\ idb \in Store /\ Persistent(t, fails)
  BY <1>3 DEF Reached, Persistent, TypeIInv, SharedIInv
<1>5. Head(txq) = RequestOf(t, chain[t][1], saved[t])
  <2>1. 1 \in DOMAIN txq /\ Head(txq) = txq[1] /\ Of(txq, 1, t, "chain")
    BY <1>1, HeadFacts DEF Of
  <2> QED BY <1>3, <2>1 DEF InStep
<1>6. /\ Head(txq).state = chain[t][1].state /\ Head(txq).kind = chain[t][1].kind
      /\ Head(txq).expected = Expected(chain[t][1], saved[t])
      /\ Head(txq).state \in States
  <2>1. Head(txq).state \in States
    BY <1>1, HeadFacts
  <2> DEFINE entry == chain[t][1]
             v == saved[t]
  <2>2. entry \in WriteJob /\ v \in Nat \cup {None} /\ Head(txq) = RequestOf(t, entry, v)
    BY <1>2, <1>5
  <2> HIDE DEF entry, v
  <2>3. /\ RequestOf(t, entry, v).state = entry.state /\ RequestOf(t, entry, v).kind = entry.kind
        /\ RequestOf(t, entry, v).expected = Expected(entry, v)
    BY <1>1, <2>2, RequestFacts
  <2>4. /\ Head(txq).state = entry.state /\ Head(txq).kind = entry.kind
        /\ Head(txq).expected = Expected(entry, v)
    BY <2>2, <2>3
  <2> QED BY <2>1, <2>4 DEF entry, v
<1>7. ChainAllowed(fails)
  <2>1. CASE saved[t] = None
    <3>1. idb.state = None /\ Head(txq).kind = "put"
      BY <1>3, <1>6, <2>1 DEF InStep
    <3>2. Head(txq).expected = None
      BY <1>6, <2>1, <3>1 DEF Expected
    <3> QED BY <1>4, <3>1, <3>2 DEF ChainAllowed, PutAllowed
  <2>2. CASE saved[t] # None
    <3>1. Head(txq).expected = saved[t]
      BY <1>6, <2>2 DEF Expected
    <3>2. saved[t] = VersionIn(idb)
      BY <1>3, <1>4, <2>2, StoreFacts DEF InStep
    <3> QED BY <1>4, <2>2, <3>1, <3>2 DEF ChainAllowed, PutAllowed, Writable
  <2> QED BY <2>1, <2>2
<1>8. idb' = ChainStore(fails)
  <2>1. Written(t, fails, ChainStore(fails)) /\ ChainStore(fails) \in Store
    BY <1>1, ChainStep
  <2> QED BY <1>1, <1>4, <2>1, WrittenTypes
<1>9. ChainStore(fails).state = Head(txq).state
  BY <1>4, <1>6, <1>7, StoreFacts DEF ChainStore
<1> QED BY <1>2, <1>6, <1>7, <1>8, <1>9 DEF ChainVersion


(* The queue of a tab after its running write completed.                   *)
LEMMA ChainQueue ==
  ASSUME TypeIInv, TypeIInv', AllGood, NEW fails \in BOOLEAN, ChainWriteCompletes(fails),
         NEW t, t = Head(txq).tab
  PROVE  /\ OneOfEach(txq', t)
         /\ Asked(txq', t, "chain") <=> Tail(chain[t]) # <<>>
         /\ Asked(txq', t, "agent") <=> Asked(txq, t, "agent")
         /\ \A i \in DOMAIN txq' :
              \/ i \in DOMAIN Tail(txq) /\ txq'[i] = Tail(txq)[i]
              \/ /\ Tail(chain[t]) # <<>>
                 /\ txq'[i] = RequestOf(t, Tail(chain[t])[1], ChainVersion(fails))
         /\ Tail(chain[t]) = <<>> => txq' = Tail(txq)
         /\ \A u \in Tabs \ {t} : Same(Tail(txq), txq', u)
<1>1. txq # <<>> /\ Head(txq).by = "chain"
  BY DEF ChainWriteCompletes
<1>2. /\ t \in Tabs /\ LinedIInv /\ OneOfEach(Tail(txq), t)
      /\ \A by : Asked(Tail(txq), t, by) <=> by # "chain" /\ Asked(txq, t, by)
  BY <1>1, HeadGood
<1>3. /\ chain[t] \in Seq(WriteJob) /\ chain[t] # <<>> /\ ChainVersion(fails) \in Nat \cup {None}
      /\ txq' = Tail(txq) \o Following(t, ChainVersion(fails))
  BY <1>2, ChainStep
<1>4. Tail(txq) \in Seq(Requests)
  BY <1>1, HeadFacts
<1>5. CASE Tail(chain[t]) = <<>>
  <2>1. txq' = Tail(txq)
    BY <1>2, <1>3, <1>4, <1>5, FollowingFacts
  <2>2. \A u : Same(Tail(txq), txq', u)
    BY <1>4, <2>1, SameSelf
  <2> QED BY <1>2, <1>5, <2>1, <2>2
<1>6. CASE Tail(chain[t]) # <<>>
  <2> DEFINE x == RequestOf(t, Tail(chain[t])[1], ChainVersion(fails))
  <2>1. Tail(chain[t])[1] \in WriteJob /\ txq' = Append(Tail(txq), x)
    BY <1>2, <1>3, <1>4, <1>6, FollowingFacts
  <2>2. x \in Requests /\ x.tab = t /\ x.by = "chain" /\ x = RequestOf(t, Tail(chain[t])[1], ChainVersion(fails))
    <3> DEFINE entry == Tail(chain[t])[1]
               v == ChainVersion(fails)
    <3>1. entry \in WriteJob /\ v \in Nat \cup {None} /\ x = RequestOf(t, entry, v)
      BY <1>3, <2>1
    <3> HIDE DEF x, entry, v
    <3>2. x \in Requests /\ x.tab = t /\ x.by = "chain"
      BY <1>2, <3>1, RequestFacts
    <3> QED BY <3>1, <3>2 DEF entry, v
  <2> HIDE DEF x
  <2>3. ~Asked(Tail(txq), t, x.by)
    BY <1>2, <2>2
  <2>4. /\ \A by : Asked(txq', t, by) <=> by = x.by \/ Asked(Tail(txq), t, by)
        /\ OneOfEach(txq', t)
        /\ \A i \in DOMAIN txq' :
             \/ i \in DOMAIN Tail(txq) /\ txq'[i] = Tail(txq)[i]
             \/ i = Len(Tail(txq)) + 1 /\ txq'[i] = x
    <3> DEFINE q == Tail(txq)
    <3>1. q \in Seq(Requests) /\ ~Asked(q, t, x.by) /\ OneOfEach(q, t)
      BY <1>2, <1>4, <2>3
    <3> HIDE DEF q
    <3>2. /\ \A by : Asked(Append(q, x), t, by) <=> by = x.by \/ Asked(q, t, by)
          /\ OneOfEach(Append(q, x), t)
          /\ \A i \in DOMAIN Append(q, x) :
               \/ i \in DOMAIN q /\ Append(q, x)[i] = q[i]
               \/ i = Len(q) + 1 /\ Append(q, x)[i] = x
      <4>1. x \in Requests /\ x.tab = t
        BY <2>2
      <4> QED BY <3>1, <4>1, AppendAsked
    <3> QED BY <2>1, <3>2 DEF q
  <2>5. ASSUME NEW u \in Tabs \ {t} PROVE Same(Tail(txq), txq', u)
    BY <1>4, <2>1, <2>2, <2>5, SameAppend
  <2> QED BY <1>2, <1>6, <2>2, <2>4, <2>5
<1> QED BY <1>5, <1>6

(* In step: a chain write of an undisturbed tab completes, and the next    *)
(* one carries the version it left.                                        *)
LEMMA ChainInStep ==
  ASSUME TypeIInv, TypeIInv', AllGood, NEW fails \in BOOLEAN, ChainWriteCompletes(fails),
         NEW t, t = Head(txq).tab, Undisturbed(t)'
  PROVE  db'[t] = "open" /\ InStep(txq', t, idb'.state, chain'[t], live'[t], saved'[t])
<1> DEFINE c == chain[t]
           l == live[t]
           v == ChainVersion(fails)
<1>1. txq # <<>> /\ Head(txq).by = "chain" /\ t \in Tabs /\ LinedIInv
  <2>1. txq # <<>> /\ Head(txq).by = "chain"
    BY DEF ChainWriteCompletes
  <2> QED BY <2>1, HeadGood
<1>2. /\ c \in Seq(WriteJob) /\ c # <<>>
      /\ saved' = [saved EXCEPT ![t] = v] /\ chain' = [chain EXCEPT ![t] = Tail(c)]
      /\ disturbed' = disturbed \cup Disturbance(t, fails)
                                \cup (IF Len(c) > 1 THEN Overlap(t) ELSE {})
      /\ UNCHANGED <<page, db, live, repeated>>
  BY <1>1, ChainStep
<1>3. /\ ~fails /\ Undisturbed(t) /\ (Len(c) > 1 => ~Writing(t))
      /\ chain'[t] = Tail(c) /\ saved'[t] = v /\ live'[t] = l
  <2>1. t \notin disturbed' /\ t \notin repeated' /\ page'[t] # "loading"
    BY DEF Undisturbed
  <2>2. ~fails
    BY <1>2, <2>1 DEF Disturbance
  <2>3. Len(c) > 1 => ~Writing(t)
    BY <1>2, <2>1 DEF Overlap
  <2>4. Undisturbed(t)
    BY <1>2, <2>1 DEF Undisturbed
  <2>5. chain'[t] = Tail(c) /\ saved'[t] = v /\ live'[t] = l
    BY <1>1, <1>2 DEF TypeIInv, TabsIInv
  <2> QED BY <2>2, <2>3, <2>4, <2>5
<1>4. v = c[1].state.ver /\ idb'.state = c[1].state /\ c[1] \in WriteJob
  BY <1>3, ChainLetThrough
<1>5. db[t] = "open" /\ InStep(txq, t, idb.state, c, l, saved[t])
  BY <1>1, <1>3 DEF AllGood, Good
<1>6. c[1].state \in States /\ c[1].state.ver \in Nat /\ l \in States /\ l.ver \in Nat
  <2>1. c[1].state \in States
    BY <1>4 DEF WriteJob
  <2> QED BY <1>1, <2>1, TabFacts, StateFacts
<1>7. /\ Len(c) \in Nat /\ Len(c) > 0 /\ DOMAIN c = 1 .. Len(c)
      /\ Len(Tail(c)) = Len(c) - 1 /\ DOMAIN Tail(c) = 1 .. Len(c) - 1
      /\ \A i \in 1 .. Len(c) - 1 : Tail(c)[i] = c[i + 1]
      /\ Tail(c) = <<>> <=> Len(c) = 1
  <2> HIDE DEF c
  <2>1. /\ Len(c) \in Nat /\ Len(c) > 0 /\ (Tail(c) = <<>> <=> ~(Len(c) > 1))
    BY <1>2, TailFacts
  <2>2. /\ DOMAIN c = 1 .. Len(c)
        /\ Len(Tail(c)) = Len(c) - 1 /\ DOMAIN Tail(c) = 1 .. Len(c) - 1
        /\ \A i \in 1 .. Len(c) - 1 : Tail(c)[i] = c[i + 1]
    BY <1>2
  <2> QED BY <2>1, <2>2
<1>8. /\ Asked(txq', t, "agent") <=> Asked(txq, t, "agent")
      /\ \A i \in DOMAIN txq' :
           \/ i \in DOMAIN Tail(txq) /\ txq'[i] = Tail(txq)[i]
           \/ Tail(c) # <<>> /\ txq'[i] = RequestOf(t, Tail(c)[1], v)
      /\ Tail(c) = <<>> => txq' = Tail(txq)
  BY ChainQueue
<1>9. /\ \A i \in DOMAIN Tail(txq) : i \in Nat /\ i + 1 \in DOMAIN txq /\ Tail(txq)[i] = txq[i + 1]
      /\ ~Asked(Tail(txq), t, "chain")
  BY <1>1, HeadGood
<1> HIDE DEF c, l, v
<1>10. StateVersion(idb'.state) <= l.ver /\ idb'.state # None /\ StateVersion(idb'.state) = v
  <2>1. 1 \in DOMAIN c
    BY <1>7
  <2>2. c[1].state.ver <= l.ver
    BY <1>5, <2>1 DEF InStep
  <2>3. c[1].state # None
    BY <1>6, StateFacts
  <2> QED BY <1>4, <2>2, <2>3 DEF StateVersion
<1>11. ASSUME NEW i \in DOMAIN Tail(c) PROVE Tail(c)[i].state.ver <= l.ver
  <2>1. i + 1 \in DOMAIN c /\ Tail(c)[i] = c[i + 1]
    BY <1>7, <1>11
  <2> QED BY <1>5, <2>1 DEF InStep
<1>12. /\ Tail(c) = <<>> => idb'.state = l /\ v = l.ver
       /\ Tail(c) # <<>> => Tail(c)[Len(Tail(c))].state = l
  <2>1. c[Len(c)].state = l
    BY <1>2, <1>5 DEF InStep
  <2>2. CASE Tail(c) = <<>>
    BY <1>4, <1>7, <2>1, <2>2
  <2>3. CASE Tail(c) # <<>>
    <3>1. Len(c) - 1 \in 1 .. Len(c) - 1 /\ (Len(c) - 1) + 1 = Len(c)
      BY <1>7, <2>3
    <3>2. Tail(c)[Len(c) - 1] = c[Len(c)]
      BY <1>7, <3>1
    <3> QED BY <1>7, <2>1, <2>3, <3>2
  <2> QED BY <2>2, <2>3
<1>13. v # None
  BY <1>4, <1>6, BrowserFacts
<1>14. ASSUME NEW i \in DOMAIN txq', Of(txq', i, t, "chain")
       PROVE  txq'[i] = RequestOf(t, Tail(c)[1], v)
  BY <1>8, <1>9, <1>14 DEF Asked, Of
<1>15. ASSUME NEW i \in DOMAIN txq', Of(txq', i, t, "agent")
       PROVE  Built(txq', i, t, l)
  <2>1. Asked(txq, t, "agent")
    BY <1>8, <1>15 DEF Asked
  <2>2. Writing(t)
    BY <1>1, <2>1 DEF LinedIInv, Lined, Writing
  <2>3. Tail(c) = <<>> /\ txq' = Tail(txq)
    BY <1>3, <1>7, <1>8, <2>2
  <2>4. i \in Nat /\ i + 1 \in DOMAIN txq /\ txq'[i] = txq[i + 1] /\ Of(txq, i + 1, t, "agent")
    BY <1>9, <1>15, <2>3 DEF Of
  <2>5. Built(txq, i + 1, t, l)
    BY <1>5, <2>4 DEF InStep
  <2>6. ASSUME NEW j \in DOMAIN txq', txq'[j].tab = t PROVE j <= i
    <3>1. j \in Nat /\ j + 1 \in DOMAIN txq /\ txq[j + 1].tab = t
      BY <1>9, <2>3, <2>6
    <3>2. j + 1 <= i + 1
      BY <2>5, <3>1 DEF Built
    <3> QED BY <2>4, <3>1, <3>2
  <2> QED BY <2>4, <2>5, <2>6 DEF Built
<1>16. InStep(txq', t, idb'.state, Tail(c), l, v)
  BY <1>10, <1>11, <1>12, <1>13, <1>14, <1>15 DEF InStep
<1> QED BY <1>2, <1>3, <1>5, <1>16

(* In step: a chain write completes.                                       *)
LEMMA ChainGood ==
  ASSUME TypeIInv, TypeIInv', AllGood, NEW fails \in BOOLEAN, ChainWriteCompletes(fails),
         NEW t, t = Head(txq).tab
  PROVE  AllGood'
<1>1. txq # <<>> /\ Head(txq).by = "chain"
  BY DEF ChainWriteCompletes
<1>2. t \in Tabs /\ LinedIInv /\ Lined(txq, t, chain[t], call[t], page[t])
  <2>1. t \in Tabs /\ LinedIInv
    BY <1>1, HeadGood
  <2> QED BY <2>1 DEF LinedIInv
<1>3. /\ chain' = [chain EXCEPT ![t] = Tail(chain[t])]
      /\ saved' = [saved EXCEPT ![t] = ChainVersion(fails)]
      /\ disturbed' = disturbed \cup Disturbance(t, fails)
                                \cup (IF Len(chain[t]) > 1 THEN Overlap(t) ELSE {})
      /\ UNCHANGED <<page, db, live, repeated>>
      /\ Awaited(t)
  BY <1>2, ChainStep
<1>4. \A u \in Tabs : call'[u].phase = call[u].phase
  BY <1>2, <1>3, AwaitedFacts
<1>5. /\ OneOfEach(txq', t)
      /\ Asked(txq', t, "chain") <=> Tail(chain[t]) # <<>>
      /\ Asked(txq', t, "agent") <=> Asked(txq, t, "agent")
      /\ \A u \in Tabs \ {t} : Same(Tail(txq), txq', u)
  BY ChainQueue
<1>6. /\ chain'[t] = Tail(chain[t])
      /\ \A u \in Tabs \ {t} : chain'[u] = chain[u] /\ saved'[u] = saved[u]
  BY <1>2, <1>3 DEF TypeIInv, TabsIInv
<1>7. chain[t] # <<>>
  BY <1>1, HeadGood
<1>8. Undisturbed(t)' => db'[t] = "open" /\ InStep(txq', t, idb'.state, chain'[t], live'[t], saved'[t])
  BY ChainInStep
<1>9. ASSUME NEW u \in Tabs \ {t} PROVE Good(u)'
  <2>1. disturbed \cup Disturbance(t, fails) \subseteq disturbed' /\ repeated \subseteq repeated'
    BY <1>3
  <2> QED BY <1>1, <1>3, <1>4, <1>5, <1>6, <1>9, <2>1, CompletionApart
<1>10. Good(t)'
  <2>1. Lined(txq', t, chain'[t], call'[t], page'[t])
    BY <1>2, <1>3, <1>4, <1>5, <1>6, <1>7 DEF Lined
  <2> QED BY <1>8, <2>1 DEF Good
<1> QED BY <1>9, <1>10 DEF AllGood


(* An agent command of a tab in step is written onto what the tab shows.   *)
LEMMA AgentHead ==
  ASSUME TypeIInv, AllGood, txq # <<>>, NEW t, t = Head(txq).tab, Head(txq).by = "agent",
         Undisturbed(t)
  PROVE  /\ chain[t] = <<>> /\ db[t] = "open" /\ idb.state = live[t] /\ saved[t] = live[t].ver
         /\ VersionIn(idb) = live[t].ver /\ Head(txq).expected = live[t].ver
         /\ Head(txq).kind = "mutate" /\ Head(txq).ok => Head(txq).state.ver = live[t].ver + 1
         /\ ~(Head(txq).kind = "mutate" /\ Head(txq).ok) => Head(txq).state = live[t]
         /\ \A by : ~Asked(Tail(txq), t, by)
<1>1. /\ t \in Tabs /\ Head(txq) = txq[1] /\ 1 \in DOMAIN txq /\ txq \in Seq(Requests)
      /\ Tail(txq) \in Seq(Requests) /\ idb \in Store
  BY HeadFacts DEF TypeIInv, SharedIInv
<1>2. /\ db[t] = "open" /\ InStep(txq, t, idb.state, chain[t], live[t], saved[t])
      /\ Lined(txq, t, chain[t], call[t], page[t])
  BY <1>1 DEF AllGood, Good
<1>3. Built(txq, 1, t, live[t])
  BY <1>1, <1>2 DEF InStep, Of
<1>4. chain[t] = <<>>
  <2>1. SUFFICES ASSUME chain[t] # <<>> PROVE FALSE
    OBVIOUS
  <2>2. PICK i \in DOMAIN txq : txq[i].tab = t /\ txq[i].by = "chain"
    BY <1>2, <2>1 DEF Lined, Asked, Of
  <2>3. i <= 1
    BY <1>3, <2>2 DEF Built
  <2>4. i = 1
    BY <1>1, <2>2, <2>3
  <2> QED BY <1>1, <2>2, <2>4
<1>5. ASSUME NEW by, Asked(Tail(txq), t, by) PROVE FALSE
  <2>1. PICK i \in DOMAIN Tail(txq) : Tail(txq)[i].tab = t
    BY <1>5 DEF Asked, Of
  <2>2. i \in Nat /\ i + 1 \in DOMAIN txq /\ Tail(txq)[i] = txq[i + 1]
    BY HeadGood
  <2>3. i + 1 <= 1
    BY <1>3, <2>1, <2>2 DEF Built
  <2>4. i # 0
    BY <1>1
  <2> QED BY <2>2, <2>3, <2>4
<1>6. idb.state = live[t] /\ saved[t] = live[t].ver
  BY <1>2, <1>4 DEF InStep
<1>7. VersionIn(idb) = live[t].ver
  <2>1. live[t] # None
    BY <1>1, TabFacts, StateFacts
  <2> QED BY <1>6, <2>1 DEF VersionIn
<1> QED BY <1>1, <1>2, <1>3, <1>4, <1>5, <1>6, <1>7 DEF Built

(* The tab of an agent command that is over.                               *)
LEMMA AgentDone ==
  ASSUME TypeIInv, TypeIInv', AllGood, txq # <<>>, NEW t, t = Head(txq).tab,
         Head(txq).by = "agent",
         txq' = Tail(txq), chain' = chain, call' = [call EXCEPT ![t] = Idle],
         UNCHANGED <<page, db>>, disturbed \subseteq disturbed', repeated \subseteq repeated',
         Undisturbed(t)' => idb'.state = live'[t] /\ saved'[t] = live'[t].ver
  PROVE  Good(t)'
<1>1. /\ t \in Tabs /\ LinedIInv /\ OneOfEach(Tail(txq), t) /\ page[t] # "loading"
      /\ \A by : Asked(Tail(txq), t, by) <=> by # "agent" /\ Asked(txq, t, by)
  BY HeadGood
<1>2. Lined(txq, t, chain[t], call[t], page[t])
  BY <1>1 DEF LinedIInv
<1>3. call'[t].phase = "idle"
  BY <1>1, CallFacts DEF TypeIInv, TabsIInv
<1>4. Lined(txq', t, chain'[t], call'[t], page'[t])
  BY <1>1, <1>2, <1>3 DEF Lined
<1>5. ASSUME Undisturbed(t)'
      PROVE  db'[t] = "open" /\ InStep(txq', t, idb'.state, chain'[t], live'[t], saved'[t])
  <2>1. Undisturbed(t)
    BY <1>5 DEF Undisturbed
  <2>2. chain[t] = <<>> /\ db[t] = "open" /\ \A by : ~Asked(Tail(txq), t, by)
    BY <2>1, AgentHead
  <2>3. live'[t] \in States /\ live'[t].ver \in Nat /\ live'[t] # None /\ live'[t].ver # None
    <3>1. live'[t] \in States
      BY <1>1 DEF TypeIInv, TabsIInv
    <3> QED BY <3>1, StateFacts, BrowserFacts
  <2>4. idb'.state = live'[t] /\ saved'[t] = live'[t].ver
    BY <1>5
  <2>5. StateVersion(idb'.state) = live'[t].ver
    BY <2>3, <2>4 DEF StateVersion
  <2>6. chain'[t] = <<>> /\ DOMAIN chain'[t] = {}
    BY <2>2
  <2>7. \A i \in DOMAIN txq' : ~Of(txq', i, t, "chain") /\ ~Of(txq', i, t, "agent")
    BY <2>2 DEF Asked
  <2>8. InStep(txq', t, idb'.state, chain'[t], live'[t], saved'[t])
    BY <2>3, <2>4, <2>5, <2>6, <2>7 DEF InStep
  <2> QED BY <2>2, <2>8
<1> QED BY <1>4, <1>5 DEF Good

(* In step: the commit of an agent command completes.                      *)
LEMMA CommitGood ==
  ASSUME TypeIInv, TypeIInv', AllGood, NEW fails \in BOOLEAN, MutationCompletes(fails),
         NEW t, t = Head(txq).tab
  PROVE  AllGood'
<1>1. txq # <<>> /\ Head(txq).by = "agent" /\ Head(txq).kind = "mutate"
  BY DEF MutationCompletes
<1>2. t \in Tabs /\ LinedIInv
  BY <1>1, HeadGood
<1>3. /\ Head(txq).state \in States /\ Head(txq).ok \in BOOLEAN
      /\ CommitStore(fails) \in Store /\ Written(t, fails, CommitStore(fails))
      /\ live' = [live EXCEPT ![t] = CommitLive(fails)]
      /\ call' = [call EXCEPT ![t] = Idle]
      /\ txq' = Tail(txq)
      /\ disturbed' = disturbed \cup Disturbance(t, fails)
      /\ repeated' = IF Earlier(fails) # {} THEN repeated \cup {t} ELSE repeated
      /\ UNCHANGED <<page, db, chain>>
  <2>1. Head(txq) \in AgentRequest
    BY <1>2, CommitStep
  <2>2. Head(txq).ok \in BOOLEAN
    BY <2>1 DEF AgentRequest
  <2> QED BY <1>2, <2>2, CommitStep
<1>4. \/ Published(fails) /\ saved' = [saved EXCEPT ![t] = Head(txq).state.ver]
      \/ ~Published(fails) /\ \E old \in Earlier(fails) : saved' = [saved EXCEPT ![t] = old.ver]
      \/ ~Published(fails) /\ Earlier(fails) = {} /\ saved' = saved
  BY <1>2, CommitStep DEF NoteAnswer
<1>5. TabsIInv
  BY DEF TypeIInv
<1>6. ASSUME NEW u \in Tabs \ {t} PROVE Good(u)'
  <2>1. chain'[u] = chain[u] /\ call'[u] = call[u] /\ live'[u] = live[u]
    BY <1>3, <1>5, <1>6 DEF TabsIInv
  <2>2. saved'[u] = saved[u]
    BY <1>4, <1>5, <1>6 DEF TabsIInv
  <2>3. Same(Tail(txq), txq', u)
    <3>1. Tail(txq) \in Seq(Requests)
      BY <1>1, HeadFacts
    <3> QED BY <1>3, <3>1, SameSelf
  <2>4. disturbed \cup Disturbance(t, fails) \subseteq disturbed' /\ repeated \subseteq repeated'
    BY <1>3
  <2> QED BY <1>1, <1>3, <1>6, <2>1, <2>2, <2>3, <2>4, CompletionApart
<1>7. ASSUME Undisturbed(t)' PROVE idb'.state = live'[t] /\ saved'[t] = live'[t].ver
  <2>1. ~fails /\ Undisturbed(t) /\ Earlier(fails) = {}
    BY <1>3, <1>7 DEF Undisturbed, Disturbance
  <2>2. /\ db[t] = "open" /\ idb.state = live[t] /\ saved[t] = live[t].ver
        /\ VersionIn(idb) = live[t].ver /\ Head(txq).expected = live[t].ver
        /\ Head(txq).ok => Head(txq).state.ver = live[t].ver + 1
        /\ ~Head(txq).ok => Head(txq).state = live[t]
    BY <1>1, <2>1, AgentHead
  <2>3. Reached(t, fails) = idb /\ Persistent(t, fails) /\ live[t].ver \in Nat
    BY <1>2, <2>1, <2>2, TabFacts, StateFacts DEF Reached, Persistent
  <2>4. idb' = CommitStore(fails)
    BY <1>2, <1>3, <2>3, WrittenTypes
  <2>5. live'[t] = CommitLive(fails)
    BY <1>2, <1>3, <1>5 DEF TabsIInv
  <2>6. Commits(fails) <=> Known(fails) = {}
    BY <2>2, <2>3 DEF Commits, Writable
  <2>7. CASE Published(fails)
    <3>1. CommitLive(fails) = Head(txq).state /\ CommitStore(fails).state = Head(txq).state
      BY <2>7 DEF CommitLive, CommitStore, Published
    <3>2. saved'[t] = Head(txq).state.ver
      BY <1>2, <1>4, <1>5, <2>7 DEF TabsIInv
    <3> QED BY <2>4, <2>5, <3>1, <3>2
  <2>8. CASE ~Published(fails)
    <3>1. CommitLive(fails) = live[t]
      <4>1. ~(VersionIn(Reached(t, fails)) > live[t].ver)
        BY <2>2, <2>3
      <4> QED BY <2>8, <4>1 DEF CommitLive
    <3>2. saved'[t] = saved[t]
      BY <1>4, <2>1, <2>8
    <3>3. CommitStore(fails).state = live[t]
      <4>1. CASE Commits(fails)
        <5>1. ~Head(txq).ok
          BY <2>2, <2>3, <2>8, <4>1 DEF Published
        <5> QED BY <2>2, <4>1, <5>1 DEF CommitStore
      <4>2. CASE ~Commits(fails)
        BY <2>2, <2>3, <4>2 DEF CommitStore
      <4> QED BY <4>1, <4>2
    <3> QED BY <2>2, <2>4, <2>5, <3>1, <3>2, <3>3
  <2> QED BY <2>7, <2>8
<1>8. Good(t)'
  <2>1. disturbed \subseteq disturbed' /\ repeated \subseteq repeated'
    BY <1>3
  <2> QED BY <1>1, <1>3, <1>7, <2>1, AgentDone
<1> QED BY <1>6, <1>8 DEF AllGood

(* In step: the write of a preview completes.                              *)
LEMMA PreviewGood ==
  ASSUME TypeIInv, TypeIInv', AllGood, NEW fails \in BOOLEAN, PreviewCompletes(fails),
         NEW t, t = Head(txq).tab
  PROVE  AllGood'
<1>1. txq # <<>> /\ Head(txq).by = "agent" /\ Head(txq).kind = "preview"
  BY DEF PreviewCompletes
<1>2. t \in Tabs /\ LinedIInv
  BY <1>1, HeadGood
<1>3. /\ Head(txq).state \in States
      /\ PreviewStore(fails) \in Store /\ Written(t, FALSE, PreviewStore(fails))
      /\ call' = [call EXCEPT ![t] = Idle]
      /\ txq' = Tail(txq)
      /\ disturbed' = disturbed \cup Disturbance(t, fails)
      /\ UNCHANGED <<page, db, live, saved, chain, repeated>>
  BY <1>2, PreviewStep
<1>4. ASSUME NEW u \in Tabs \ {t} PROVE Good(u)'
  <2>1. call'[u] = call[u]
    BY <1>3, <1>4 DEF TypeIInv, TabsIInv
  <2>2. Same(Tail(txq), txq', u)
    <3>1. Tail(txq) \in Seq(Requests)
      BY <1>1, HeadFacts
    <3> QED BY <1>3, <3>1, SameSelf
  <2>3. disturbed \cup Disturbance(t, fails) \subseteq disturbed' /\ repeated \subseteq repeated'
    BY <1>3
  <2> QED BY <1>1, <1>3, <1>4, <2>1, <2>2, <2>3, CompletionApart
<1>5. ASSUME Undisturbed(t)' PROVE idb'.state = live'[t] /\ saved'[t] = live'[t].ver
  <2>1. ~fails /\ Undisturbed(t)
    BY <1>3, <1>5 DEF Undisturbed, Disturbance
  <2>2. /\ db[t] = "open" /\ idb.state = live[t] /\ saved[t] = live[t].ver
        /\ VersionIn(idb) = live[t].ver /\ Head(txq).expected = live[t].ver
        /\ Head(txq).state = live[t]
    BY <1>1, <2>1, AgentHead
  <2>3. Reached(t, FALSE) = idb /\ Persistent(t, FALSE) /\ idb \in Store
    BY <2>2 DEF Reached, Persistent, TypeIInv, SharedIInv
  <2>4. idb' = PreviewStore(fails)
    BY <1>2, <1>3, <2>3, WrittenTypes
  <2>5. PreviewStore(fails).state = live[t]
    BY <1>3, <2>2, <2>3, StoreFacts DEF PreviewStore
  <2> QED BY <1>3, <2>2, <2>4, <2>5
<1>6. Good(t)'
  <2>1. disturbed \subseteq disturbed' /\ repeated \subseteq repeated'
    BY <1>3
  <2> QED BY <1>1, <1>3, <1>5, <2>1, AgentDone
<1> QED BY <1>4, <1>6 DEF AllGood

-----------------------------------------------------------------------------
(* The records and the states built on them.                               *)

(* The records only grow, so what was built from recorded commands still   *)
(* is: what is new has to be looked at.                                    *)
LEMMA BooksStep ==
  ASSUME BooksIInv, idb.rows \subseteq idb'.rows,
         \A key \in answered' : key \in answered \/ \E row \in idb'.rows : row.key = key /\ row.ok,
         \A u \in Tabs : \A row \in fallback'[u].rows : row.key \in rejected'[u],
         idb'.state # None => Within(idb'.state, Recorded'),
         \A u \in Tabs : live'[u] = live[u] \/ Within(live'[u], Recorded'),
         \A u \in Tabs : \A i \in DOMAIN chain'[u] : Within(chain'[u][i].state, Recorded'),
         \A i \in DOMAIN txq' : Covered(txq'[i], Recorded)
  PROVE  BooksIInv'
<1>1. Recorded \subseteq Recorded'
  BY DEF Recorded
<1>2. OkIsRecorded'
  BY DEF BooksIInv, OkIsRecorded
<1>3. \A u \in Tabs : Within(live'[u], Recorded')
  BY <1>1 DEF BooksIInv, Within
<1>4. \A i \in DOMAIN txq' : Covered(txq'[i], Recorded')
  BY <1>1 DEF Covered, Within
<1> QED BY <1>2, <1>3, <1>4 DEF BooksIInv

(* Steps that write no store: only what is new in the tabs and in the      *)
(* queue has to be looked at.                                              *)
LEMMA BooksQuiet ==
  ASSUME BooksIInv, idb' = idb, answered' = answered,
         \A u \in Tabs : fallback'[u].rows \subseteq fallback[u].rows \/ fallback'[u].rows = {},
         \A u \in Tabs : rejected'[u] = rejected[u] \/ fallback'[u].rows = {},
         \A u \in Tabs : Within(live'[u], Recorded),
         \A u \in Tabs : \A i \in DOMAIN chain'[u] : Within(chain'[u][i].state, Recorded),
         \A i \in DOMAIN txq' : Covered(txq'[i], Recorded)
  PROVE  BooksIInv'
<1>1. Recorded' = Recorded
  BY DEF Recorded
<1>2. \A u \in Tabs : \A row \in fallback'[u].rows : row.key \in rejected'[u]
  BY DEF BooksIInv
<1>3. idb'.state # None => Within(idb'.state, Recorded')
  BY <1>1 DEF BooksIInv
<1>4. idb.rows \subseteq idb'.rows
  OBVIOUS
<1> QED BY <1>1, <1>2, <1>3, <1>4, BooksStep

LEMMA AppendAll ==
  ASSUME NEW S, NEW q \in Seq(S), NEW x \in S
  PROVE  \A i \in DOMAIN Append(q, x) : Append(q, x)[i] = x \/ (i \in DOMAIN q /\ Append(q, x)[i] = q[i])
OBVIOUS

(* Books: a write joins a chain.                                           *)
LEMMA EnqueueBooks ==
  ASSUME TypeIInv, BooksIInv, NEW t \in Tabs, NEW entry \in WriteJob, Enqueue(t, entry),
         Within(entry.state, Recorded), live'[t] = entry.state \/ live'[t] = live[t],
         \A u \in Tabs \ {t} : live'[u] = live[u],
         UNCHANGED <<idb, fallback, rejected, answered>>
  PROVE  BooksIInv'
<1> DEFINE x == RequestOf(t, entry, saved[t])
<1>1. /\ txq \in Seq(Requests) /\ chain[t] \in Seq(WriteJob) /\ saved[t] \in Nat \cup {None}
  BY TabFacts DEF TypeIInv, SharedIInv
<1>2. x \in Requests /\ x.state = entry.state
  BY <1>1, RequestFacts
<1>3. /\ chain' = [chain EXCEPT ![t] = Append(chain[t], entry)]
      /\ txq' = IF chain[t] = <<>> THEN Append(txq, x) ELSE txq
  BY DEF Enqueue
<1> HIDE DEF x
<1>4. \A i \in DOMAIN txq' : Covered(txq'[i], Recorded)
  <2>1. Covered(x, Recorded)
    BY <1>2 DEF Covered
  <2>2. \A i \in DOMAIN Append(txq, x) :
          Append(txq, x)[i] = x \/ (i \in DOMAIN txq /\ Append(txq, x)[i] = txq[i])
    BY <1>1, <1>2, AppendAll
  <2> QED BY <1>3, <2>1, <2>2 DEF BooksIInv
<1>5. \A u \in Tabs : \A i \in DOMAIN chain'[u] : Within(chain'[u][i].state, Recorded)
  <2>1. \A i \in DOMAIN Append(chain[t], entry) :
          \/ Append(chain[t], entry)[i] = entry
          \/ i \in DOMAIN chain[t] /\ Append(chain[t], entry)[i] = chain[t][i]
    BY <1>1, AppendAll
  <2>2. chain'[t] = Append(chain[t], entry) /\ \A u \in Tabs \ {t} : chain'[u] = chain[u]
    BY <1>3 DEF TypeIInv, TabsIInv
  <2>3. \A i \in DOMAIN chain'[t] : Within(chain'[t][i].state, Recorded)
    BY <2>1, <2>2 DEF BooksIInv
  <2>4. \A u \in Tabs \ {t} : \A i \in DOMAIN chain'[u] : Within(chain'[u][i].state, Recorded)
    BY <2>2 DEF BooksIInv
  <2> QED BY <2>3, <2>4
<1>6. \A u \in Tabs : Within(live'[u], Recorded)
  BY DEF BooksIInv
<1> QED BY <1>4, <1>5, <1>6, BooksQuiet

(* Books: loading, hydration, reload.                                      *)
LEMMA PageBooks ==
  ASSUME TypeIInv, BooksIInv, NEW t \in Tabs,
         \/ \E opens, reads \in BOOLEAN : Load(t, opens, reads)
         \/ Hydrated(t) \/ Reload(t)
  PROVE  BooksIInv'
<1>1. TabsIInv /\ SharedIInv
  BY DEF TypeIInv
<1>2. ASSUME NEW opens \in BOOLEAN, NEW reads \in BOOLEAN, Load(t, opens, reads)
      PROVE  BooksIInv'
  <2> DEFINE record == IF opens /\ reads THEN idb.state ELSE None
             state == IF record = None THEN Seed ELSE record
             version == IF record = None THEN None ELSE record.ver
             x == RequestOf(t, PutJob(state), version)
  <2>1. idb.state \in States \cup {None} /\ txq \in Seq(Requests)
    BY <1>1, StoreFacts DEF SharedIInv
  <2>2. state \in States /\ version \in Nat \cup {None} /\ Within(state, Recorded)
    BY <2>1, BrowserFacts, StateFacts DEF BooksIInv, Within
  <2>3. /\ live' = [live EXCEPT ![t] = state]
        /\ chain' = [chain EXCEPT ![t] = <<PutJob(state)>>]
        /\ txq' = Append(txq, x)
        /\ UNCHANGED <<idb, fallback, rejected, answered>>
    BY <1>2 DEF Load
  <2> HIDE DEF record, state, version
  <2>4. PutJob(state).state = state /\ x \in Requests /\ x.state = state
    BY <2>2, PutJobFacts, RequestFacts
  <2> HIDE DEF x
  <2>5. \A i \in DOMAIN txq' : Covered(txq'[i], Recorded)
    <3>1. Covered(x, Recorded)
      BY <2>2, <2>4 DEF Covered
    <3>2. \A i \in DOMAIN Append(txq, x) :
            Append(txq, x)[i] = x \/ (i \in DOMAIN txq /\ Append(txq, x)[i] = txq[i])
      BY <2>1, <2>4, AppendAll
    <3> QED BY <2>3, <3>1, <3>2 DEF BooksIInv
  <2>6. \A u \in Tabs : Within(live'[u], Recorded)
    BY <1>1, <2>2, <2>3 DEF BooksIInv, TabsIInv
  <2>7. \A u \in Tabs : \A i \in DOMAIN chain'[u] : Within(chain'[u][i].state, Recorded)
    <3>1. chain'[t] = <<PutJob(state)>> /\ \A u \in Tabs \ {t} : chain'[u] = chain[u]
      BY <1>1, <2>3 DEF TabsIInv
    <3>2. \A i \in DOMAIN chain'[t] : chain'[t][i] = PutJob(state)
      BY <3>1
    <3>3. \A i \in DOMAIN chain'[t] : Within(chain'[t][i].state, Recorded)
      BY <2>2, <2>4, <3>2
    <3> QED BY <3>1, <3>3 DEF BooksIInv
  <2> QED BY <2>3, <2>5, <2>6, <2>7, BooksQuiet
<1>3. CASE Hydrated(t)
  BY <1>3 DEF Hydrated, shared, bookkeeping, BooksIInv, Recorded, OkIsRecorded
<1>4. CASE Reload(t)
  <2>1. /\ idb' = idb /\ answered' = answered /\ txq' = WithoutTab(t)
        /\ fallback'[t].rows = {} /\ live'[t].ops = {} /\ chain'[t] = <<>>
        /\ \A u \in Tabs \ {t} : /\ fallback'[u] = fallback[u] /\ rejected'[u] = rejected[u]
                                 /\ live'[u] = live[u] /\ chain'[u] = chain[u]
    BY <1>1, <1>4, BrowserFacts DEF Reload, TabsIInv, EmptyStore
  <2>2. \A i \in DOMAIN txq' : \E k \in DOMAIN txq : txq[k] = txq'[i]
    BY <1>1, <2>1, WithoutTabFacts DEF SharedIInv
  <2>3. \A i \in DOMAIN txq' : Covered(txq'[i], Recorded)
    BY <2>2 DEF BooksIInv
  <2>4. \A u \in Tabs : Within(live'[u], Recorded)
    BY <2>1 DEF BooksIInv, Within
  <2>5. \A u \in Tabs : \A i \in DOMAIN chain'[u] : Within(chain'[u][i].state, Recorded)
    BY <2>1 DEF BooksIInv
  <2>6. /\ \A u \in Tabs : fallback'[u].rows \subseteq fallback[u].rows \/ fallback'[u].rows = {}
        /\ \A u \in Tabs : rejected'[u] = rejected[u] \/ fallback'[u].rows = {}
    BY <2>1
  <2> QED BY <2>1, <2>3, <2>4, <2>5, <2>6, BooksQuiet
<1> QED BY <1>2, <1>3, <1>4

(* Books: the events of the interface and new agent commands.              *)
LEMMA UiBooks ==
  ASSUME TypeIInv, BooksIInv, NEW t \in Tabs,
         \/ \E op \in UiOps, counted \in BOOLEAN : UiCommand(t, op, counted)
         \/ UiRefusal(t) \/ ViewChange(t) \/ DebouncedWrite(t)
         \/ \E kind, key : AgentCall(t, kind, key)
  PROVE  BooksIInv'
<1>1. TabsIInv /\ live[t] \in States /\ live[t].ver \in Nat /\ Within(live[t], Recorded)
  BY TabFacts, StateFacts DEF TypeIInv, BooksIInv
<1>2. ASSUME NEW op \in UiOps, NEW counted \in BOOLEAN,
                    UiCommand(t, op, counted) PROVE BooksIInv'
  <2> DEFINE state == [ver |-> IF counted THEN live[t].ver + 1 ELSE live[t].ver,
                       ops |-> live[t].ops \cup {op}]
             entry == [kind |-> "command", state |-> state, before |-> live[t].ver]
  <2>1. state \in States /\ Within(state, Recorded)
    <3>1. state \in States
      BY <1>1, CommandedFacts
    <3>2. state.ops = live[t].ops \cup {op}
      OBVIOUS
    <3> QED BY <1>1, <3>1, <3>2, StateFacts, BrowserFacts DEF Within
  <2>2. /\ Enqueue(t, entry) /\ live' = [live EXCEPT ![t] = state]
        /\ UNCHANGED <<idb, fallback, rejected, answered>>
    BY <1>2 DEF UiCommand
  <2> HIDE DEF state
  <2>3. entry \in WriteJob /\ entry.state = state
    BY <1>1, <2>1 DEF WriteJob
  <2> HIDE DEF entry
  <2>4. live'[t] = state /\ \A u \in Tabs \ {t} : live'[u] = live[u]
    BY <1>1, <2>2 DEF TabsIInv
  <2> QED BY <2>1, <2>2, <2>3, <2>4, EnqueueBooks
<1>3. CASE UiRefusal(t)
  <2> DEFINE entry == [kind |-> "command", state |-> live[t], before |-> live[t].ver]
  <2>1. entry \in WriteJob /\ entry.state = live[t]
    BY <1>1 DEF WriteJob
  <2>2. Enqueue(t, entry) /\ UNCHANGED <<live, idb, fallback, rejected, answered>>
    BY <1>3 DEF UiRefusal
  <2> HIDE DEF entry
  <2> QED BY <1>1, <2>1, <2>2, EnqueueBooks
<1>4. CASE ViewChange(t)
  BY <1>4 DEF ViewChange, shared, BooksIInv, Recorded, OkIsRecorded
<1>5. CASE DebouncedWrite(t)
  <2>1. PutJob(live[t]) \in WriteJob /\ PutJob(live[t]).state = live[t]
    BY <1>1, PutJobFacts
  <2>2. Enqueue(t, PutJob(live[t])) /\ UNCHANGED <<live, idb, fallback, rejected, answered>>
    BY <1>5 DEF DebouncedWrite
  <2> QED BY <1>1, <2>1, <2>2, EnqueueBooks
<1>6. ASSUME NEW kind, NEW key, AgentCall(t, kind, key) PROVE BooksIInv'
  <2>1. UNCHANGED <<live, idb, fallback, rejected, answered>>
    BY <1>6 DEF AgentCall, bookkeeping
  <2>2. CASE kind = "mutate" /\ timer[t]
    <3>1. PutJob(live[t]) \in WriteJob /\ PutJob(live[t]).state = live[t]
      BY <1>1, PutJobFacts
    <3>2. Enqueue(t, PutJob(live[t]))
      BY <1>6, <2>2 DEF AgentCall
    <3> QED BY <1>1, <2>1, <3>1, <3>2, EnqueueBooks
  <2>3. CASE ~(kind = "mutate" /\ timer[t])
    <3>1. chain' = chain /\ txq' = txq
      BY <1>6, <2>3 DEF AgentCall
    <3> QED BY <2>1, <3>1 DEF BooksIInv, Recorded, OkIsRecorded
  <2> QED BY <2>2, <2>3
<1> QED BY <1>2, <1>3, <1>4, <1>5, <1>6


(* Books: an agent command goes on.                                        *)
LEMMA LookupBooks ==
  ASSUME TypeIInv, BooksIInv, NEW t \in Tabs, ChainAwaited(t) \/ Lookup(t)
  PROVE  BooksIInv'
<1>1. TabsIInv /\ SharedIInv
  BY DEF TypeIInv
<1>2. CASE ChainAwaited(t)
  BY <1>2 DEF ChainAwaited, shared, bookkeeping, BooksIInv, Recorded, OkIsRecorded
<1>3. CASE RefusedBefore(t)
  BY <1>3 DEF RefusedBefore, shared, bookkeeping, BooksIInv, Recorded, OkIsRecorded
<1>4. ASSUME NEW fails \in BOOLEAN, AnsweredFromRecord(t, fails) PROVE BooksIInv'
  <2>1. PICK row \in idb.rows :
          /\ row \in Rows
          /\ live' = IF row.ver > live[t].ver /\ VersionIn(idb) >= row.ver
                     THEN [live EXCEPT ![t] = idb.state] ELSE live
          /\ IF row.ok THEN NoteAnswer(t, row.key, row.ver) ELSE UNCHANGED <<answered, saved>>
    BY <1>4, RecordFacts
  <2>2. UNCHANGED <<idb, txq, fallback, chain, rejected>>
    BY <1>4 DEF AnsweredFromRecord, shared
  <2>3. Recorded' = Recorded
    BY <2>2 DEF Recorded
  <2>4. \A key \in answered' : key \in answered \/ \E old \in idb'.rows : old.key = key /\ old.ok
    BY <2>1, <2>2 DEF NoteAnswer
  <2>5. \A u \in Tabs : live'[u] = live[u] \/ Within(live'[u], Recorded')
    <3>1. CASE row.ver > live[t].ver /\ VersionIn(idb) >= row.ver
      <4>1. idb.state # None
        <5>1. row.ver \in Nat /\ live[t].ver \in Nat
          BY <2>1, TabFacts, StateFacts DEF Rows
        <5> QED BY <3>1, <5>1 DEF VersionIn
      <4>2. Within(idb.state, Recorded')
        BY <2>3, <4>1 DEF BooksIInv
      <4> QED BY <1>1, <2>1, <3>1, <4>2 DEF TabsIInv
    <3>2. CASE ~(row.ver > live[t].ver /\ VersionIn(idb) >= row.ver)
      BY <2>1, <3>2
    <3> QED BY <3>1, <3>2
  <2>6. /\ \A u \in Tabs : \A old \in fallback'[u].rows : old.key \in rejected'[u]
        /\ idb'.state # None => Within(idb'.state, Recorded')
        /\ \A u \in Tabs : \A i \in DOMAIN chain'[u] : Within(chain'[u][i].state, Recorded')
        /\ \A i \in DOMAIN txq' : Covered(txq'[i], Recorded)
    BY <2>2, <2>3 DEF BooksIInv
  <2>7. idb.rows \subseteq idb'.rows
    BY <2>2
  <2> QED BY <2>4, <2>5, <2>6, <2>7, BooksStep
<1>5. ASSUME NEW fails \in BOOLEAN, NEW ok \in BOOLEAN, RunOnCopy(t, fails, ok) PROVE BooksIInv'
  <2>1. call[t] \in AgentCalls /\ UNCHANGED <<idb, answered, fallback, rejected, live, chain>>
    BY <1>5, TabFacts, CallFacts DEF RunOnCopy
  <2> DEFINE x == AgentWrite(t, ok)
  <2>2. x \in Requests /\ Covered(x, Recorded)
    <3>1. x \in Requests
      BY <2>1, WriteFacts
    <3>2. x.state = Worked(t, ok) /\ x.by = "agent" /\ x.kind = call[t].kind /\ x.key = call[t].key
      BY DEF AgentWrite
    <3>3. Within(live[t], Recorded)
      BY DEF BooksIInv
    <3>4. CASE call[t].kind = "mutate" /\ ok
      <4>1. Worked(t, ok).ops = live[t].ops \cup {call[t].key}
        BY <2>1, <3>4, WriteFacts
      <4>2. Within(x.state, Recorded \cup {x.key})
        BY <3>2, <3>3, <4>1 DEF Within
      <4> QED BY <3>1, <3>2, <3>4, <4>2 DEF Covered
    <3>5. CASE ~(call[t].kind = "mutate" /\ ok)
      <4>1. Worked(t, ok) = live[t]
        BY <2>1, <3>5, WriteFacts
      <4> QED BY <3>1, <3>2, <3>3, <4>1 DEF Covered
    <3> QED BY <3>4, <3>5
  <2>3. txq' = txq \/ txq' = Append(txq, x)
    BY <1>5 DEF RunOnCopy, AgentWrite
  <2> HIDE DEF x
  <2>4. \A i \in DOMAIN txq' : Covered(txq'[i], Recorded)
    <3>1. \A i \in DOMAIN Append(txq, x) :
            Append(txq, x)[i] = x \/ (i \in DOMAIN txq /\ Append(txq, x)[i] = txq[i])
      BY <1>1, <2>2, AppendAll DEF SharedIInv
    <3> QED BY <2>2, <2>3, <3>1 DEF BooksIInv
  <2>5. /\ \A u \in Tabs : Within(live'[u], Recorded)
        /\ \A u \in Tabs : \A i \in DOMAIN chain'[u] : Within(chain'[u][i].state, Recorded)
    BY <2>1 DEF BooksIInv
  <2> QED BY <2>1, <2>4, <2>5, BooksQuiet
<1> QED BY <1>2, <1>3, <1>4, <1>5 DEF Lookup

(* The store a write reaches, and what is left in the queue.               *)
LEMMA CompletionBooks ==
  ASSUME TypeIInv, BooksIInv, txq # <<>>, NEW t, t = Head(txq).tab, NEW fails \in BOOLEAN,
         NEW store \in Store, Written(t, fails, store),
         Reached(t, fails).rows \subseteq store.rows,
         \A row \in store.rows : \/ row \in Reached(t, fails).rows
                                 \/ Persistent(t, fails) \/ row.key \in rejected'[t],
         Persistent(t, fails) => store.state = None \/ Within(store.state, {row.key : row \in store.rows}),
         rejected[t] \subseteq rejected'[t], \A u \in Tabs \ {t} : rejected'[u] = rejected[u]
  PROVE  /\ idb.rows \subseteq idb'.rows
         /\ \A u \in Tabs : \A row \in fallback'[u].rows : row.key \in rejected'[u]
         /\ idb'.state # None => Within(idb'.state, Recorded')
         /\ Persistent(t, fails) => idb' = store /\ Reached(t, fails) = idb
<1>1. t \in Tabs
  BY HeadFacts
<1>2. CASE Persistent(t, fails)
  <2>1. idb' = store /\ fallback' = fallback
    BY <1>1, <1>2, WrittenTypes
  <2>2. Reached(t, fails) = idb
    BY <1>2 DEF Reached, Persistent
  <2>3. \A u \in Tabs : \A row \in fallback'[u].rows : row.key \in rejected'[u]
    BY <1>1, <2>1 DEF BooksIInv
  <2>4. idb'.state # None => Within(idb'.state, Recorded')
    BY <1>2, <2>1 DEF Recorded
  <2> QED BY <2>1, <2>2, <2>3, <2>4
<1>3. CASE ~Persistent(t, fails)
  <2>1. /\ idb' = idb /\ fallback'[t] = store
        /\ \A u \in Tabs \ {t} : fallback'[u] = fallback[u]
    BY <1>1, <1>3, WrittenTypes
  <2>2. Reached(t, fails) = fallback[t]
    BY <1>3 DEF Reached, Persistent
  <2>3. \A row \in fallback'[t].rows : row.key \in rejected'[t]
    BY <1>1, <1>3, <2>1, <2>2 DEF BooksIInv
  <2>4. \A u \in Tabs \ {t} : \A row \in fallback'[u].rows : row.key \in rejected'[u]
    BY <2>1 DEF BooksIInv
  <2>5. idb'.state # None => Within(idb'.state, Recorded')
    BY <2>1 DEF BooksIInv, Recorded
  <2> QED BY <1>3, <2>1, <2>3, <2>4, <2>5
<1> QED BY <1>2, <1>3

LEMMA TailCovered ==
  ASSUME TypeIInv, BooksIInv, txq # <<>>
  PROVE  /\ Covered(Head(txq), Recorded)
         /\ \A i \in DOMAIN Tail(txq) : Covered(Tail(txq)[i], Recorded)
<1>1. txq \in Seq(Requests)
  BY DEF TypeIInv, SharedIInv
<1>2. /\ 1 \in DOMAIN txq /\ Head(txq) = txq[1]
      /\ \A i \in DOMAIN Tail(txq) : i + 1 \in DOMAIN txq /\ Tail(txq)[i] = txq[i + 1]
  BY <1>1
<1> QED BY <1>2 DEF BooksIInv

(* Books: a chain write completes.                                         *)
LEMMA ChainBooks ==
  ASSUME TypeIInv, LinedIInv, BooksIInv, NEW fails \in BOOLEAN, ChainWriteCompletes(fails),
         NEW t, t = Head(txq).tab
  PROVE  BooksIInv'
<1>1. /\ txq # <<>> /\ Head(txq).by = "chain" /\ t \in Tabs
      /\ chain[t] \in Seq(WriteJob) /\ chain[t] # <<>>
      /\ ChainVersion(fails) \in Nat \cup {None} /\ ChainStore(fails) \in Store
      /\ Written(t, fails, ChainStore(fails))
      /\ chain' = [chain EXCEPT ![t] = Tail(chain[t])]
      /\ txq' = Tail(txq) \o Following(t, ChainVersion(fails))
      /\ UNCHANGED <<live, rejected, answered>>
  BY ChainStep
<1>2. Within(Head(txq).state, Recorded) /\ Head(txq).state \in States
  BY <1>1, TailCovered, HeadFacts DEF Covered
<1>3. Reached(t, fails) \in Store
  BY <1>1, TabFacts
<1>4. /\ ChainStore(fails).rows = Reached(t, fails).rows
      /\ ChainStore(fails).state \in {Head(txq).state, Reached(t, fails).state}
  BY <1>2, <1>3, StoreFacts DEF ChainStore
<1>5. Persistent(t, fails) =>
        \/ ChainStore(fails).state = None
        \/ Within(ChainStore(fails).state, {row.key : row \in ChainStore(fails).rows})
  <2>1. SUFFICES ASSUME Persistent(t, fails), ChainStore(fails).state # None
                 PROVE  Within(ChainStore(fails).state, {row.key : row \in ChainStore(fails).rows})
    OBVIOUS
  <2>2. Reached(t, fails) = idb
    BY <2>1 DEF Reached, Persistent
  <2>3. Within(ChainStore(fails).state, Recorded)
    BY <1>2, <1>4, <2>1, <2>2 DEF BooksIInv
  <2> QED BY <1>4, <2>2, <2>3 DEF Recorded
<1>6. /\ idb.rows \subseteq idb'.rows
      /\ \A u \in Tabs : \A row \in fallback'[u].rows : row.key \in rejected'[u]
      /\ idb'.state # None => Within(idb'.state, Recorded')
  BY <1>1, <1>4, <1>5, CompletionBooks
<1>7. \A u \in Tabs : \A i \in DOMAIN chain'[u] : Within(chain'[u][i].state, Recorded')
  <2>1. /\ chain'[t] = Tail(chain[t]) /\ \A u \in Tabs \ {t} : chain'[u] = chain[u]
    BY <1>1 DEF TypeIInv, TabsIInv
  <2>2. \A i \in DOMAIN Tail(chain[t]) : i + 1 \in DOMAIN chain[t] /\ Tail(chain[t])[i] = chain[t][i + 1]
    <3> DEFINE c == chain[t]
    <3>1. c \in Seq(WriteJob) /\ c # <<>>
      BY <1>1
    <3> HIDE DEF c
    <3>2. \A i \in DOMAIN Tail(c) : i + 1 \in DOMAIN c /\ Tail(c)[i] = c[i + 1]
      BY <3>1
    <3> QED BY <3>2 DEF c
  <2>3. Recorded \subseteq Recorded'
    BY <1>6 DEF Recorded
  <2>4. \A u \in Tabs : \A i \in DOMAIN chain[u] : Within(chain[u][i].state, Recorded')
    BY <2>3 DEF BooksIInv, Within
  <2>5. \A i \in DOMAIN chain'[t] : Within(chain'[t][i].state, Recorded')
    BY <1>1, <2>1, <2>2, <2>4
  <2>6. \A u \in Tabs \ {t} : \A i \in DOMAIN chain'[u] : Within(chain'[u][i].state, Recorded')
    BY <2>1, <2>4
  <2> QED BY <2>5, <2>6
<1>8. \A i \in DOMAIN txq' : Covered(txq'[i], Recorded)
  <2>1. \A i \in DOMAIN Tail(txq) : Covered(Tail(txq)[i], Recorded)
    BY <1>1, TailCovered
  <2>2. Tail(txq) \in Seq(Requests)
    BY <1>1, HeadFacts
  <2>3. CASE Tail(chain[t]) = <<>>
    <3>1. txq' = Tail(txq)
      BY <1>1, <2>2, <2>3, FollowingFacts
    <3> QED BY <2>1, <3>1
  <2>4. CASE Tail(chain[t]) # <<>>
    <3> DEFINE entry == Tail(chain[t])[1]
               v == ChainVersion(fails)
               x == RequestOf(t, entry, v)
    <3>1. entry \in WriteJob /\ x \in Requests /\ txq' = Append(Tail(txq), x)
      BY <1>1, <2>2, <2>4, FollowingFacts
    <3>2. Within(entry.state, Recorded)
      <4> DEFINE c == chain[t]
      <4>1. c \in Seq(WriteJob) /\ c # <<>> /\ Tail(c) # <<>>
        BY <1>1, <2>4
      <4> HIDE DEF c
      <4>2. 2 \in DOMAIN c /\ Tail(c)[1] = c[2]
        <5>1. Len(c) \in Nat /\ Len(c) > 1 /\ Tail(c)[1] = c[2]
          BY <4>1, TailFacts
        <5> QED BY <4>1, <5>1
      <4> QED BY <1>1, <4>2 DEF BooksIInv, c
    <3>3. x.state = entry.state
      BY DEF RequestOf
    <3> HIDE DEF x, entry
    <3>4. Covered(x, Recorded)
      BY <3>2, <3>3 DEF Covered
    <3> DEFINE q == Tail(txq)
    <3>5. q \in Seq(Requests) /\ txq' = Append(q, x) /\ \A i \in DOMAIN q : Covered(q[i], Recorded)
      BY <2>1, <2>2, <3>1
    <3> HIDE DEF q
    <3>6. \A i \in DOMAIN Append(q, x) :
            Append(q, x)[i] = x \/ (i \in DOMAIN q /\ Append(q, x)[i] = q[i])
      BY <3>1, <3>5, AppendAll
    <3> QED BY <3>4, <3>5, <3>6
  <2> QED BY <2>3, <2>4
<1> QED BY <1>1, <1>6, <1>7, <1>8, BooksStep


(* Books: a commit completes; it records its own command along with the    *)
(* state that command is in, or, in a memory store, has its key refused.   *)
LEMMA CommitBooks ==
  ASSUME TypeIInv, LinedIInv, BooksIInv, NEW fails \in BOOLEAN, MutationCompletes(fails),
         NEW t, t = Head(txq).tab
  PROVE  BooksIInv'
<1>1. /\ txq # <<>> /\ t \in Tabs /\ Head(txq).state \in States
      /\ CommitStore(fails) \in Store /\ Written(t, fails, CommitStore(fails))
      /\ live' = [live EXCEPT ![t] = CommitLive(fails)]
      /\ txq' = Tail(txq) /\ chain' = chain
  BY CommitStep
<1>2. rejected' = IF (Commits(fails) \/ Known(fails) # {}) /\ ~Persistent(t, fails)
                  THEN [rejected EXCEPT ![t] = rejected[t] \cup {Head(txq).key}] ELSE rejected
  BY CommitStep
<1>3. Reached(t, fails) \in Store
  BY <1>1, TabFacts
<1>4. /\ Commits(fails) =>
           /\ CommitStore(fails).state = Head(txq).state
           /\ CommitStore(fails).rows = Reached(t, fails).rows \cup {CommitRow}
      /\ ~Commits(fails) => CommitStore(fails) = Reached(t, fails)
  BY DEF CommitStore
<1>5. CommitRow.key = Head(txq).key /\ CommitRow.ok = Head(txq).ok
  BY DEF CommitRow
<1>6. /\ rejected[t] \subseteq rejected'[t] /\ \A u \in Tabs \ {t} : rejected'[u] = rejected[u]
      /\ Commits(fails) /\ ~Persistent(t, fails) => Head(txq).key \in rejected'[t]
  BY <1>1, <1>2 DEF TypeIInv, TabsIInv
<1>7. \A row \in CommitStore(fails).rows :
        row \in Reached(t, fails).rows \/ Persistent(t, fails) \/ row.key \in rejected'[t]
  BY <1>4, <1>5, <1>6
<1>8. Within(Head(txq).state, Recorded \cup {Head(txq).key})
  BY <1>1, TailCovered DEF Covered, Within
<1>9. Persistent(t, fails) =>
        \/ CommitStore(fails).state = None
        \/ Within(CommitStore(fails).state, {row.key : row \in CommitStore(fails).rows})
  <2>1. SUFFICES ASSUME Persistent(t, fails), CommitStore(fails).state # None
                 PROVE  Within(CommitStore(fails).state, {row.key : row \in CommitStore(fails).rows})
    OBVIOUS
  <2>2. Reached(t, fails) = idb
    BY <2>1 DEF Reached, Persistent
  <2>3. CASE Commits(fails)
    <3>1. {row.key : row \in CommitStore(fails).rows} = Recorded \cup {Head(txq).key}
      BY <1>4, <1>5, <2>2, <2>3 DEF Recorded
    <3> QED BY <1>4, <1>8, <2>3, <3>1
  <2>4. CASE ~Commits(fails)
    BY <1>4, <2>1, <2>2, <2>4 DEF BooksIInv, Recorded
  <2> QED BY <2>3, <2>4
<1>10. Reached(t, fails).rows \subseteq CommitStore(fails).rows
  BY <1>4
<1>11. /\ idb.rows \subseteq idb'.rows
       /\ \A u \in Tabs : \A row \in fallback'[u].rows : row.key \in rejected'[u]
       /\ idb'.state # None => Within(idb'.state, Recorded')
       /\ Persistent(t, fails) => idb' = CommitStore(fails) /\ Reached(t, fails) = idb
  BY <1>1, <1>6, <1>7, <1>9, <1>10, CompletionBooks
<1>12. Recorded \subseteq Recorded'
  BY <1>11 DEF Recorded
<1>13. \A key \in answered' : key \in answered \/ \E row \in idb'.rows : row.key = key /\ row.ok
  <2>1. CASE Published(fails) /\ NoteAnswer(t, Head(txq).key, Head(txq).state.ver)
    <3>1. answered' = answered \cup {Head(txq).key} /\ Commits(fails) /\ Persistent(t, fails) /\ Head(txq).ok
      BY <1>1, <2>1 DEF NoteAnswer, Published
    <3>2. CommitRow \in idb'.rows
      BY <1>4, <1>11, <3>1
    <3> QED BY <1>5, <3>1, <3>2
  <2>2. CASE \E old \in Earlier(fails) : NoteAnswer(t, old.key, old.ver)
    <3>1. PICK old \in Earlier(fails) : answered' = answered \cup {old.key}
      BY <2>2 DEF NoteAnswer
    <3>2. old \in Reached(t, fails).rows /\ Persistent(t, fails) /\ old.ok
      BY <1>1, <3>1 DEF Earlier, Known, RowsOf
    <3>3. old \in idb'.rows
      BY <1>11, <3>2
    <3> QED BY <3>1, <3>2, <3>3
  <2>3. CASE UNCHANGED <<answered, saved>>
    BY <2>3
  <2> QED BY <2>1, <2>2, <2>3, CommitStep
<1>14. \A u \in Tabs : live'[u] = live[u] \/ Within(live'[u], Recorded')
  <2>1. live'[t] = CommitLive(fails) /\ \A u \in Tabs \ {t} : live'[u] = live[u]
    BY <1>1 DEF TypeIInv, TabsIInv
  <2>2. CASE Published(fails)
    <3>1. CommitLive(fails) = idb'.state
      BY <1>1, <1>4, <1>11, <2>2 DEF Published, CommitLive
    <3>2. idb'.state # None
      BY <1>1, <2>2, <3>1, StateFacts DEF CommitLive
    <3> QED BY <1>11, <2>1, <3>1, <3>2
  <2>3. CASE ~Published(fails) /\ CommitLive(fails) # live[t]
    <3>1. /\ Persistent(t, fails) /\ VersionIn(Reached(t, fails)) > live[t].ver
          /\ CommitLive(fails) = Reached(t, fails).state
      BY <1>1, <2>3 DEF CommitLive
    <3>2. CommitLive(fails) = idb.state /\ VersionIn(idb) > live[t].ver /\ live[t].ver \in Nat
      BY <1>1, <1>11, <3>1, TabFacts, StateFacts
    <3>3. idb.state # None
      BY <3>2 DEF VersionIn
    <3>4. Within(idb.state, Recorded')
      BY <1>12, <3>3 DEF BooksIInv, Within
    <3> QED BY <2>1, <3>2, <3>4
  <2> QED BY <2>1, <2>2, <2>3
<1>15. \A u \in Tabs : \A i \in DOMAIN chain'[u] : Within(chain'[u][i].state, Recorded')
  BY <1>1, <1>12 DEF BooksIInv, Within
<1>16. \A i \in DOMAIN txq' : Covered(txq'[i], Recorded)
  BY <1>1, TailCovered
<1> QED BY <1>11, <1>13, <1>14, <1>15, <1>16, BooksStep

(* Books: the write of a preview completes.                                *)
LEMMA PreviewBooks ==
  ASSUME TypeIInv, LinedIInv, BooksIInv, NEW fails \in BOOLEAN, PreviewCompletes(fails),
         NEW t, t = Head(txq).tab
  PROVE  BooksIInv'
<1>1. /\ txq # <<>> /\ t \in Tabs /\ Head(txq).state \in States /\ Head(txq).kind = "preview"
      /\ PreviewStore(fails) \in Store /\ Written(t, FALSE, PreviewStore(fails))
      /\ txq' = Tail(txq) /\ UNCHANGED <<live, chain, rejected, answered>>
  BY PreviewStep
<1>2. Reached(t, FALSE) \in Store
  BY <1>1, TabFacts
<1>3. /\ PreviewStore(fails).rows = Reached(t, FALSE).rows
      /\ PreviewStore(fails).state \in {Head(txq).state, Reached(t, FALSE).state}
  BY <1>1, <1>2, StoreFacts DEF PreviewStore
<1>4. Within(Head(txq).state, Recorded)
  BY <1>1, TailCovered DEF Covered
<1>5. Persistent(t, FALSE) =>
        \/ PreviewStore(fails).state = None
        \/ Within(PreviewStore(fails).state, {row.key : row \in PreviewStore(fails).rows})
  <2>1. SUFFICES ASSUME Persistent(t, FALSE), PreviewStore(fails).state # None
                 PROVE  Within(PreviewStore(fails).state, {row.key : row \in PreviewStore(fails).rows})
    OBVIOUS
  <2>2. Reached(t, FALSE) = idb
    BY <2>1 DEF Reached, Persistent
  <2>3. Within(PreviewStore(fails).state, Recorded)
    BY <1>3, <1>4, <2>1, <2>2 DEF BooksIInv
  <2> QED BY <1>3, <2>2, <2>3 DEF Recorded
<1>6. /\ idb.rows \subseteq idb'.rows
      /\ \A u \in Tabs : \A row \in fallback'[u].rows : row.key \in rejected'[u]
      /\ idb'.state # None => Within(idb'.state, Recorded')
  BY <1>1, <1>3, <1>5, CompletionBooks
<1>7. Recorded \subseteq Recorded'
  BY <1>6 DEF Recorded
<1>8. \A u \in Tabs : \A i \in DOMAIN chain'[u] : Within(chain'[u][i].state, Recorded')
  BY <1>1, <1>7 DEF BooksIInv, Within
<1>9. \A i \in DOMAIN txq' : Covered(txq'[i], Recorded)
  BY <1>1, TailCovered
<1> QED BY <1>1, <1>6, <1>8, <1>9, BooksStep

-----------------------------------------------------------------------------
(* The timer runs in a tab that is ready.                                  *)
TimerIInv == \A t \in Tabs : timer[t] => page[t] = "ready"

LEMMA TimerStep ==
  ASSUME TypeIInv, LinedIInv, TimerIInv, BrowserNext
  PROVE  TimerIInv'
<1>1. timer \in [Tabs -> BOOLEAN] /\ page \in [Tabs -> {"loading", "restoring", "ready"}]
  BY DEF TypeIInv, TabsIInv
<1>2. ASSUME NEW t \in Tabs, NEW opens \in BOOLEAN, NEW reads \in BOOLEAN, Load(t, opens, reads)
      PROVE  TimerIInv'
  BY <1>1, <1>2 DEF TimerIInv, Load
<1>3. ASSUME NEW t \in Tabs, Hydrated(t) PROVE TimerIInv'
  BY <1>1, <1>3 DEF TimerIInv, Hydrated
<1>4. ASSUME NEW t \in Tabs, Reload(t) PROVE TimerIInv'
  BY <1>1, <1>4 DEF TimerIInv, Reload
<1>5. ASSUME NEW t \in Tabs, NEW op \in UiOps, NEW counted \in BOOLEAN,
                    UiCommand(t, op, counted) PROVE TimerIInv'
  BY <1>1, <1>5 DEF TimerIInv, UiCommand
<1>6. ASSUME NEW t \in Tabs, UiRefusal(t) \/ ViewChange(t) \/ DebouncedWrite(t) PROVE TimerIInv'
  BY <1>1, <1>6 DEF TimerIInv, UiRefusal, ViewChange, DebouncedWrite
<1>7. ASSUME NEW t \in Tabs, NEW kind, NEW key, AgentCall(t, kind, key) PROVE TimerIInv'
  BY <1>1, <1>7 DEF TimerIInv, AgentCall
<1>8. ASSUME NEW t \in Tabs, ChainAwaited(t) \/ Lookup(t) PROVE TimerIInv'
  BY <1>8 DEF TimerIInv, ChainAwaited, Lookup, RefusedBefore, AnsweredFromRecord, RunOnCopy
<1>9. ASSUME Completion PROVE TimerIInv'
  BY <1>9 DEF TimerIInv, Completion, ChainWriteCompletes, MutationCompletes, PreviewCompletes
<1> QED BY <1>2, <1>3, <1>4, <1>5, <1>6, <1>7, <1>8, <1>9, BrowserFacts DEF BrowserNext

(* The bounds of the model: what a command waits for is in the chain.      *)
Waits(t) ==
  /\ Len(chain[t]) <= MaxJobs
  /\ call[t].phase = "waiting" => call[t].wait \in 0 .. Len(chain[t])

BoundsIInv ==
  /\ \A t \in Tabs : Waits(t)
  /\ idle <= MaxIdle /\ faults <= MaxFaults /\ loads <= MaxLoads

LEMMA BoundFacts == MaxJobs \in Nat /\ MaxJobs > 0 /\ {MaxIdle, MaxFaults, MaxLoads} \subseteq Nat
BY BrowserAssumption

(* A failure is counted within its bound.                                  *)
LEMMA FaultsBound ==
  ASSUME TypeIInv, BoundsIInv, NEW t \in Tabs, NEW fails \in BOOLEAN, Broken(t, fails),
         faults' = Faulted(fails)
  PROVE  faults' <= MaxFaults
<1>1. faults \in Nat /\ faults <= MaxFaults /\ MaxFaults \in Nat
  BY BoundFacts DEF TypeIInv, SharedIInv, BoundsIInv
<1> QED BY <1>1 DEF Broken, Faulted

(* A write that joins the chain leaves room for it, and who waits for the  *)
(* whole chain waits for no more.                                          *)
LEMMA EnqueueWaits ==
  ASSUME TypeIInv, BoundsIInv, NEW t \in Tabs, NEW entry \in WriteJob, Enqueue(t, entry), Room(t),
         NEW u \in Tabs, call'[u] = call[u] \/ (u = t /\ call'[t].wait = Len(chain'[t]))
  PROVE  Waits(u)'
<1>1. chain[t] \in Seq(WriteJob) /\ MaxJobs \in Nat
  BY TabFacts, BoundFacts
<1>2. /\ chain'[t] = Append(chain[t], entry)
      /\ \A v \in Tabs \ {t} : chain'[v] = chain[v]
  BY DEF Enqueue, TypeIInv, TabsIInv
<1>3. Len(chain'[t]) = Len(chain[t]) + 1 /\ Len(chain[t]) \in Nat
  BY <1>1, <1>2
<1>4. Len(chain'[t]) <= MaxJobs
  BY <1>1, <1>3 DEF Room
<1>5. call[u].phase = "waiting" => call[u].wait \in 0 .. Len(chain[u])
  BY DEF BoundsIInv, Waits
<1>6. CASE u = t
  BY <1>3, <1>4, <1>5, <1>6 DEF Waits
<1>7. CASE u # t
  BY <1>2, <1>7 DEF BoundsIInv, Waits
<1> QED BY <1>6, <1>7

LEMMA BoundsStep ==
  ASSUME TypeIInv, TypeIInv', LinedIInv, BoundsIInv, BrowserNext
  PROVE  BoundsIInv'
<1>1. TabsIInv /\ SharedIInv
  BY DEF TypeIInv
<1>2. /\ \A u \in Tabs : Waits(u) /\ Len(chain[u]) \in Nat
      /\ idle \in Nat /\ faults \in Nat /\ loads \in Nat
      /\ idle <= MaxIdle /\ faults <= MaxFaults /\ loads <= MaxLoads
      /\ MaxJobs \in Nat /\ MaxJobs > 0 /\ MaxIdle \in Nat /\ MaxFaults \in Nat /\ MaxLoads \in Nat
  <2>1. \A u \in Tabs : chain[u] \in Seq(WriteJob)
    BY <1>1 DEF TabsIInv
  <2>2. \A u \in Tabs : Len(chain[u]) \in Nat
    BY <2>1
  <2> QED BY <1>1, <2>2, BoundFacts DEF BoundsIInv, SharedIInv
<1>3. ASSUME NEW t \in Tabs, NEW opens \in BOOLEAN, NEW reads \in BOOLEAN, Load(t, opens, reads)
      PROVE  BoundsIInv'
  <2>1. PICK entry : chain' = [chain EXCEPT ![t] = <<entry>>]
    BY <1>3 DEF Load
  <2>2. /\ page[t] = "loading" /\ UNCHANGED <<call, idle, loads>>
        /\ (opens /\ reads) \/ faults < MaxFaults
        /\ faults' = IF opens /\ reads THEN faults ELSE faults + 1
    BY <1>3 DEF Load
  <2>3. call[t].phase # "waiting"
    BY <2>2 DEF LinedIInv, Lined
  <2>4. Len(chain'[t]) = 1 /\ \A u \in Tabs \ {t} : chain'[u] = chain[u]
    BY <1>1, <2>1 DEF TabsIInv
  <2>5. \A u \in Tabs : Waits(u)'
    <3> SUFFICES ASSUME NEW u \in Tabs PROVE Waits(u)'
      OBVIOUS
    <3>1. call'[u] = call[u]
      BY <2>2
    <3>2. CASE u = t
      <4>1. call'[u].phase # "waiting"
        BY <2>3, <3>1, <3>2
      <4>2. Len(chain'[u]) <= MaxJobs
        <5>1. MaxJobs \in Nat /\ MaxJobs > 0
          BY <1>2
        <5>2. Len(chain'[u]) = 1
          BY <2>4, <3>2
        <5> QED BY <5>1, <5>2
      <4> QED BY <4>1, <4>2 DEF Waits
    <3>3. CASE u # t
      BY <1>2, <2>4, <3>1, <3>3 DEF Waits
    <3> QED BY <3>2, <3>3
  <2>6. faults' <= MaxFaults
    BY <1>2, <2>2
  <2> QED BY <1>2, <2>2, <2>5, <2>6 DEF BoundsIInv
<1>4. ASSUME NEW t \in Tabs, Hydrated(t) \/ RefusedBefore(t) \/ ChainAwaited(t) PROVE BoundsIInv'
  <2>1. UNCHANGED <<chain, idle, faults, loads>>
    BY <1>4 DEF Hydrated, RefusedBefore, ChainAwaited, shared, bookkeeping
  <2>2. \/ call' = call
        \/ call' = [call EXCEPT ![t] = Idle]
        \/ call' = [call EXCEPT ![t] = [call[t] EXCEPT !.phase = "lookup"]] /\ call[t].phase = "waiting"
    BY <1>4 DEF Hydrated, RefusedBefore, ChainAwaited, Finish
  <2>3. \A u \in Tabs : call'[u] = call[u] \/ call'[u].phase # "waiting"
    <3>1. CASE call' = call
      BY <3>1
    <3>2. CASE call' = [call EXCEPT ![t] = Idle]
      BY <1>1, <3>2, CallFacts DEF TabsIInv
    <3>3. CASE call' = [call EXCEPT ![t] = [call[t] EXCEPT !.phase = "lookup"]] /\ call[t].phase = "waiting"
      <4>1. call[t] \in AgentCalls
        BY <3>3, TabFacts, CallFacts
      <4>2. [call[t] EXCEPT !.phase = "lookup"].phase # "waiting"
        BY <4>1 DEF AgentCalls
      <4> HIDE DEF AgentCalls
      <4>3. \A u \in Tabs \ {t} : call'[u] = call[u]
        BY <1>1, <3>3 DEF TabsIInv
      <4>4. call'[t] = [call[t] EXCEPT !.phase = "lookup"]
        BY <1>1, <3>3 DEF TabsIInv
      <4> QED BY <4>2, <4>3, <4>4
    <3> QED BY <2>2, <3>1, <3>2, <3>3
  <2>4. \A u \in Tabs : Waits(u)'
    BY <1>2, <2>1, <2>3 DEF Waits
  <2> QED BY <1>2, <2>1, <2>4 DEF BoundsIInv
<1>5. ASSUME NEW t \in Tabs, Reload(t) PROVE BoundsIInv'
  <2>1. /\ chain'[t] = <<>> /\ call'[t].phase # "waiting"
        /\ \A u \in Tabs \ {t} : chain'[u] = chain[u] /\ call'[u] = call[u]
        /\ loads' = loads + 1 /\ loads < MaxLoads /\ UNCHANGED <<idle, faults>>
    BY <1>1, <1>5, CallFacts DEF Reload, TabsIInv
  <2>2. Len(chain'[t]) = 0
    BY <2>1
  <2>3. \A u \in Tabs : Waits(u)'
    BY <1>2, <2>1, <2>2 DEF Waits
  <2>4. loads' <= MaxLoads
    BY <1>2, <2>1
  <2> QED BY <1>2, <2>1, <2>3, <2>4 DEF BoundsIInv
<1>6. ASSUME NEW t \in Tabs, NEW op \in UiOps, NEW counted \in BOOLEAN,
                    UiCommand(t, op, counted) PROVE BoundsIInv'
  <2> DEFINE state == [ver |-> IF counted THEN live[t].ver + 1 ELSE live[t].ver,
                       ops |-> live[t].ops \cup {op}]
             entry == [kind |-> "command", state |-> state, before |-> live[t].ver]
  <2>1. entry \in WriteJob
    <3>1. live[t] \in States
      BY TabFacts
    <3>2. state \in States /\ live[t].ver \in Nat
      BY <3>1, CommandedFacts, StateFacts
    <3> QED BY <3>2 DEF WriteJob
  <2>2. Enqueue(t, entry) /\ Room(t) /\ UNCHANGED <<call, idle, faults, loads>>
    BY <1>6 DEF UiCommand
  <2> HIDE DEF entry
  <2>3. \A u \in Tabs : Waits(u)'
    BY <2>1, <2>2, EnqueueWaits
  <2> QED BY <1>2, <2>2, <2>3 DEF BoundsIInv
<1>7. ASSUME NEW t \in Tabs, UiRefusal(t) PROVE BoundsIInv'
  <2> DEFINE entry == [kind |-> "command", state |-> live[t], before |-> live[t].ver]
  <2>1. entry \in WriteJob
    <3>1. live[t] \in States /\ live[t].ver \in Nat
      BY TabFacts, StateFacts
    <3> QED BY <3>1 DEF WriteJob
  <2>2. /\ Enqueue(t, entry) /\ Room(t) /\ UNCHANGED <<call, faults, loads>>
        /\ idle < MaxIdle /\ idle' = idle + 1
    BY <1>7 DEF UiRefusal
  <2> HIDE DEF entry
  <2>3. \A u \in Tabs : Waits(u)'
    BY <2>1, <2>2, EnqueueWaits
  <2>4. idle' <= MaxIdle
    BY <1>2, <2>2
  <2> QED BY <1>2, <2>2, <2>3, <2>4 DEF BoundsIInv
<1>8. ASSUME NEW t \in Tabs, ViewChange(t) PROVE BoundsIInv'
  <2>1. UNCHANGED <<chain, call, faults, loads>> /\ idle < MaxIdle /\ idle' = idle + 1
    BY <1>8 DEF ViewChange
  <2>2. idle' <= MaxIdle
    BY <1>2, <2>1
  <2> QED BY <1>2, <2>1, <2>2 DEF BoundsIInv, Waits
<1>9. ASSUME NEW t \in Tabs, DebouncedWrite(t) PROVE BoundsIInv'
  <2>1. PutJob(live[t]) \in WriteJob
    BY TabFacts, PutJobFacts
  <2>2. Enqueue(t, PutJob(live[t])) /\ Room(t) /\ UNCHANGED <<call, idle, faults, loads>>
    BY <1>9 DEF DebouncedWrite
  <2>3. \A u \in Tabs : Waits(u)'
    BY <2>1, <2>2, EnqueueWaits
  <2> QED BY <1>2, <2>2, <2>3 DEF BoundsIInv
<1>10. ASSUME NEW t \in Tabs, NEW kind, NEW key, AgentCall(t, kind, key) PROVE BoundsIInv'
  <2>1. /\ call' = [call EXCEPT ![t] = [phase |-> "waiting", kind |-> kind, key |-> key,
                                        wait |-> Len(chain'[t]), ok |-> TRUE]]
        /\ UNCHANGED <<idle, faults, loads>>
    BY <1>10 DEF AgentCall, bookkeeping
  <2>2. call'[t].wait = Len(chain'[t]) /\ \A u \in Tabs \ {t} : call'[u] = call[u]
    BY <1>1, <2>1 DEF TabsIInv
  <2>3. CASE kind = "mutate" /\ timer[t]
    <3>1. Enqueue(t, PutJob(live[t])) /\ Room(t) /\ PutJob(live[t]) \in WriteJob
      BY <1>10, <2>3, TabFacts, PutJobFacts DEF AgentCall
    <3>2. \A u \in Tabs : Waits(u)'
      BY <2>2, <3>1, EnqueueWaits
    <3> QED BY <1>2, <2>1, <3>2 DEF BoundsIInv
  <2>4. CASE ~(kind = "mutate" /\ timer[t])
    <3>1. chain' = chain
      BY <1>10, <2>4 DEF AgentCall
    <3>2. \A u \in Tabs : Waits(u)'
      BY <1>2, <2>2, <3>1 DEF Waits
    <3> QED BY <1>2, <2>1, <3>2 DEF BoundsIInv
  <2> QED BY <2>3, <2>4
<1>11. ASSUME NEW t \in Tabs, NEW fails \in BOOLEAN,
              AnsweredFromRecord(t, fails) \/ \E ok \in BOOLEAN : RunOnCopy(t, fails, ok)
       PROVE  BoundsIInv'
  <2>1. /\ Broken(t, fails) /\ faults' = Faulted(fails) /\ UNCHANGED <<chain, idle, loads>>
    BY <1>11 DEF AnsweredFromRecord, RunOnCopy
  <2>2. \A u \in Tabs : call'[u] = call[u] \/ call'[u].phase # "waiting"
    <3>1. \/ call' = [call EXCEPT ![t] = Idle]
          \/ call' = [call EXCEPT ![t] = [call[t] EXCEPT !.phase = "writing"]]
      BY <1>11 DEF AnsweredFromRecord, RunOnCopy, Finish
    <3>2. call[t] \in AgentCalls
      BY <1>11, TabFacts, CallFacts DEF AnsweredFromRecord, RunOnCopy
    <3>3. CASE call' = [call EXCEPT ![t] = Idle]
      BY <1>1, <3>3, CallFacts DEF TabsIInv
    <3>4. CASE call' = [call EXCEPT ![t] = [call[t] EXCEPT !.phase = "writing"]]
      <4>1. [call[t] EXCEPT !.phase = "writing"].phase # "waiting"
        BY <3>2 DEF AgentCalls
      <4>2. \A u \in Tabs \ {t} : call'[u] = call[u]
        BY <1>1, <3>4 DEF TabsIInv
      <4>3. call'[t] = [call[t] EXCEPT !.phase = "writing"]
        BY <1>1, <3>4 DEF TabsIInv
      <4> QED BY <4>1, <4>2, <4>3
    <3> QED BY <3>1, <3>3, <3>4
  <2>3. \A u \in Tabs : Waits(u)'
    BY <1>2, <2>1, <2>2 DEF Waits
  <2> QED BY <1>2, <2>1, <2>3, FaultsBound DEF BoundsIInv
<1>12. ASSUME NEW fails \in BOOLEAN, ChainWriteCompletes(fails), NEW t, t = Head(txq).tab
       PROVE  BoundsIInv'
  <2>1. /\ t \in Tabs /\ chain[t] \in Seq(WriteJob) /\ chain[t] # <<>>
        /\ chain' = [chain EXCEPT ![t] = Tail(chain[t])]
        /\ Broken(t, fails) /\ Awaited(t) /\ UNCHANGED <<idle, loads>>
    BY <1>12, ChainStep
  <2>2. faults' = Faulted(fails)
    BY <1>12 DEF ChainWriteCompletes
  <2>3. Len(chain'[t]) = Len(chain[t]) - 1 /\ Len(chain[t]) > 0
        /\ \A u \in Tabs \ {t} : chain'[u] = chain[u]
    <3> DEFINE c == chain[t]
    <3>1. c \in Seq(WriteJob) /\ c # <<>>
      BY <2>1
    <3> HIDE DEF c
    <3>2. Len(Tail(c)) = Len(c) - 1 /\ Len(c) > 0
      BY <3>1
    <3> QED BY <1>1, <2>1, <3>2 DEF c, TabsIInv
  <2>4. call[t].phase = "waiting" =>
          call[t].wait \in Nat /\ call[t].wait <= Len(chain[t])
    BY <1>2, <2>1 DEF Waits
  <2>5. \A u \in Tabs \ {t} : call'[u] = call[u]
    BY <1>1, <2>1 DEF Awaited, TabsIInv
  <2>6. Waits(t)'
    <3>1. CASE call[t].phase = "waiting" /\ call[t].wait > 0
      <4>1. call'[t].wait = call[t].wait - 1
        <5>1. call[t] \in AgentCalls
          BY <2>1, <3>1, TabFacts, CallFacts
        <5>2. call' = [call EXCEPT ![t] = [call[t] EXCEPT !.wait = call[t].wait - 1]]
          BY <2>1, <3>1 DEF Awaited
        <5>3. [call[t] EXCEPT !.wait = call[t].wait - 1].wait = call[t].wait - 1
          BY <5>1 DEF AgentCalls
        <5> QED BY <1>1, <2>1, <5>2, <5>3 DEF TabsIInv
      <4> QED BY <1>2, <2>1, <2>3, <2>4, <3>1, <4>1 DEF Waits
    <3>2. CASE ~(call[t].phase = "waiting" /\ call[t].wait > 0)
      <4>1. call' = call
        BY <2>1, <3>2 DEF Awaited
      <4> QED BY <1>2, <2>1, <2>3, <2>4, <3>2, <4>1 DEF Waits
    <3> QED BY <3>1, <3>2
  <2>7. \A u \in Tabs : Waits(u)'
    BY <1>2, <2>3, <2>5, <2>6 DEF Waits
  <2>8. faults' <= MaxFaults
    BY <2>1, <2>2, FaultsBound
  <2> QED BY <1>2, <2>1, <2>7, <2>8 DEF BoundsIInv
<1>13. ASSUME NEW fails \in BOOLEAN, MutationCompletes(fails) \/ PreviewCompletes(fails),
              NEW t, t = Head(txq).tab
       PROVE  BoundsIInv'
  <2>1. /\ t \in Tabs /\ Broken(t, fails) /\ call' = [call EXCEPT ![t] = Idle]
        /\ UNCHANGED <<chain, idle, loads>>
    BY <1>13, CommitStep, PreviewStep
  <2>2. faults' = Faulted(fails)
    BY <1>13 DEF MutationCompletes, PreviewCompletes
  <2>3. \A u \in Tabs : call'[u] = call[u] \/ call'[u].phase # "waiting"
    BY <1>1, <2>1, CallFacts DEF TabsIInv
  <2>4. \A u \in Tabs : Waits(u)'
    BY <1>2, <2>1, <2>3 DEF Waits
  <2>5. faults' <= MaxFaults
    BY <2>1, <2>2, FaultsBound
  <2> QED BY <1>2, <2>1, <2>4, <2>5 DEF BoundsIInv
<1>14. ASSUME Completion PROVE BoundsIInv'
  BY <1>12, <1>13, <1>14 DEF Completion
<1>15. ASSUME NEW t \in Tabs, Lookup(t) PROVE BoundsIInv'
  BY <1>4, <1>11, <1>15 DEF Lookup
<1> QED BY <1>3, <1>4, <1>5, <1>6, <1>7, <1>8, <1>9, <1>10, <1>14, <1>15, BrowserFacts DEF BrowserNext

-----------------------------------------------------------------------------
(* The inductive invariant.                                                *)
BrowserIInv == TypeIInv /\ AllGood /\ BooksIInv /\ TimerIInv /\ BoundsIInv

(* It holds at first, every step keeps it, and so it always holds.         *)
LEMMA BrowserStart == BrowserInit => BrowserIInv
<1> SUFFICES ASSUME BrowserInit PROVE BrowserIInv
  OBVIOUS
<1>1. TypeIInv
  BY BrowserFacts DEF BrowserInit, TypeIInv, TabsIInv, SharedIInv
<1>2. AllGood
  <2> SUFFICES ASSUME NEW t \in Tabs PROVE Good(t)
    BY DEF AllGood
  <2>1. txq = <<>> /\ chain[t] = <<>> /\ page[t] = "loading" /\ call[t] = Idle /\ DOMAIN txq = {}
    BY DEF BrowserInit
  <2> QED BY <2>1, CallFacts DEF Good, Lined, OneOfEach, Asked, Undisturbed
<1>3. BooksIInv
  <2>1. /\ answered = {} /\ idb.state = None /\ txq = <<>> /\ DOMAIN txq = {}
        /\ \A t \in Tabs : /\ fallback[t].rows = {} /\ live[t].ops = {}
                           /\ chain[t] = <<>> /\ DOMAIN chain[t] = {}
    BY DEF BrowserInit, EmptyStore, Seed
  <2> QED BY <2>1 DEF BooksIInv, OkIsRecorded, Within
<1>4. TimerIInv
  BY DEF BrowserInit, TimerIInv
<1>5. BoundsIInv
  <2>1. /\ idle = 0 /\ faults = 0 /\ loads = 0
        /\ \A t \in Tabs : chain[t] = <<>> /\ call[t] = Idle /\ Len(chain[t]) = 0
    BY DEF BrowserInit
  <2> QED BY <2>1, CallFacts, BoundFacts DEF BoundsIInv, Waits
<1> QED BY <1>1, <1>2, <1>3, <1>4, <1>5 DEF BrowserIInv

LEMMA BrowserStep == BrowserIInv /\ [BrowserNext]_browserVars => BrowserIInv'
<1> SUFFICES ASSUME BrowserIInv, [BrowserNext]_browserVars PROVE BrowserIInv'
  OBVIOUS
<1>1. TypeIInv /\ AllGood /\ BooksIInv /\ TimerIInv /\ BoundsIInv /\ LinedIInv
  BY DEF BrowserIInv, AllGood, Good, LinedIInv
<1>2. ASSUME NEW t \in Tabs,
             \/ \E opens, reads \in BOOLEAN : Load(t, opens, reads)
             \/ Hydrated(t) \/ Reload(t)
      PROVE  TypeIInv' /\ AllGood' /\ BooksIInv'
  <2>1. TypeIInv'
    BY <1>1, <1>2, PageTypes
  <2>2. AllGood'
    BY <1>1, <1>2, <2>1, LoadGood, ReloadGood
  <2> QED BY <1>1, <1>2, <2>1, <2>2, PageBooks
<1>3. ASSUME NEW t \in Tabs,
             \/ \E op \in UiOps, counted \in BOOLEAN : UiCommand(t, op, counted)
             \/ UiRefusal(t) \/ ViewChange(t) \/ DebouncedWrite(t)
      PROVE  TypeIInv' /\ AllGood' /\ BooksIInv'
  <2>1. TypeIInv'
    BY <1>1, <1>3, UiTypes
  <2>2. DebouncedWrite(t) => page[t] # "loading"
    <3>1. DebouncedWrite(t) => page[t] = "ready"
      BY <1>1 DEF DebouncedWrite, TimerIInv
    <3> QED BY <3>1
  <2>3. AllGood'
    BY <1>1, <1>3, <2>1, <2>2, UiGood
  <2>4. BooksIInv'
    BY <1>1, <1>3, UiBooks
  <2> QED BY <2>1, <2>3, <2>4
<1>4. ASSUME NEW t \in Tabs, NEW kind, NEW key, AgentCall(t, kind, key),
             (kind = "mutate" /\ key \in Keys) \/ (kind = "preview" /\ key = None)
      PROVE  TypeIInv' /\ AllGood' /\ BooksIInv'
  <2>1. TypeIInv'
    BY <1>1, <1>4, AgentCallTypes
  <2>2. AllGood'
    BY <1>1, <1>4, <2>1, AgentCallGood
  <2>3. BooksIInv'
    BY <1>1, <1>4, UiBooks
  <2> QED BY <2>1, <2>2, <2>3
<1>5. ASSUME NEW t \in Tabs, ChainAwaited(t) \/ Lookup(t)
      PROVE  TypeIInv' /\ AllGood' /\ BooksIInv'
  <2>1. TypeIInv'
    BY <1>1, <1>5, LookupTypes
  <2>2. AllGood'
    BY <1>1, <1>5, <2>1, LookupGood
  <2> QED BY <1>1, <1>5, <2>1, <2>2, LookupBooks
<1>6. ASSUME NEW fails \in BOOLEAN, ChainWriteCompletes(fails)
      PROVE  TypeIInv' /\ AllGood' /\ BooksIInv'
  <2>1. TypeIInv'
    BY <1>1, <1>6, ChainTypes
  <2> QED BY <1>1, <1>6, <2>1, ChainGood, ChainBooks
<1>7. ASSUME NEW fails \in BOOLEAN, MutationCompletes(fails)
      PROVE  TypeIInv' /\ AllGood' /\ BooksIInv'
  <2>1. TypeIInv'
    BY <1>1, <1>7, CommitTypes
  <2> QED BY <1>1, <1>7, <2>1, CommitGood, CommitBooks
<1>8. ASSUME NEW fails \in BOOLEAN, PreviewCompletes(fails)
      PROVE  TypeIInv' /\ AllGood' /\ BooksIInv'
  <2>1. TypeIInv'
    BY <1>1, <1>8, PreviewTypes
  <2> QED BY <1>1, <1>8, <2>1, PreviewGood, PreviewBooks
<1>9. CASE BrowserNext
  <2>1. TypeIInv' /\ AllGood' /\ BooksIInv'
    BY <1>2, <1>3, <1>4, <1>5, <1>6, <1>7, <1>8, <1>9, BrowserFacts DEF BrowserNext, Completion
  <2>2. TimerIInv'
    BY <1>1, <1>9, TimerStep
  <2>3. BoundsIInv'
    BY <1>1, <1>9, <2>1, BoundsStep
  <2> QED BY <2>1, <2>2, <2>3 DEF BrowserIInv
<1>10. CASE UNCHANGED browserVars
  BY <1>1, <1>10 DEF browserVars, BrowserIInv, TypeIInv, TabsIInv, SharedIInv, AllGood, Good,
     Undisturbed, BooksIInv, OkIsRecorded, Recorded, TimerIInv, BoundsIInv, Waits
<1> QED BY <1>9, <1>10

LEMMA BrowserAlways == BrowserSpec => []BrowserIInv
BY BrowserStart, BrowserStep, PTL DEF BrowserSpec

(* What the tabs keep, what they share and the transactions between them   *)
(* always have their types, and the model stays within its bounds: no      *)
(* agent command waits for more writes than its chain holds.               *)
THEOREM BrowserTypeCorrect == BrowserSpec => []BrowserTypeOK
<1>1. BrowserIInv => BrowserTypeOK
  <2> SUFFICES ASSUME BrowserIInv PROVE BrowserTypeOK
    OBVIOUS
  <2>1. TypeIInv /\ TabsIInv /\ SharedIInv /\ BoundsIInv
    BY DEF BrowserIInv, TypeIInv
  <2>2. ASSUME NEW t \in Tabs
        PROVE  /\ page[t] \in {"loading", "restoring", "ready"}
               /\ db[t] \in {"open", "null"}
               /\ fallback[t].state \in States \cup {None} /\ fallback[t].rows \subseteq Rows
               /\ live[t] \in States
               /\ saved[t] \in Nat \cup {None}
               /\ timer[t] \in BOOLEAN
               /\ Len(chain[t]) <= MaxJobs
               /\ \A i \in 1 .. Len(chain[t]) : chain[t][i].state \in States
               /\ call[t].phase \in {"idle", "waiting", "lookup", "writing"}
               /\ call[t].phase = "waiting" => call[t].wait \in 0 .. Len(chain[t])
               /\ rejected[t] \subseteq Keys
    <3>1. fallback[t] \in Store /\ chain[t] \in Seq(WriteJob) /\ call[t] \in {Idle} \cup AgentCalls
      BY <2>1, TabFacts
    <3>2. fallback[t].state \in States \cup {None} /\ fallback[t].rows \subseteq Rows
      BY <3>1, StoreFacts
    <3>3. \A i \in 1 .. Len(chain[t]) : chain[t][i].state \in States
      <4>1. \A i \in 1 .. Len(chain[t]) : chain[t][i] \in WriteJob
        BY <3>1
      <4> QED BY <4>1 DEF WriteJob
    <3>4. call[t].phase \in {"idle", "waiting", "lookup", "writing"}
      BY <3>1, CallFacts
    <3> QED BY <2>1, <3>2, <3>3, <3>4, TabFacts DEF BoundsIInv, Waits
  <2>3. \A i \in 1 .. Len(txq) : txq[i].tab \in Tabs /\ txq[i].state \in States
    <3>1. \A i \in 1 .. Len(txq) : txq[i] \in Requests
      BY <2>1 DEF SharedIInv
    <3> QED BY <3>1 DEF Requests, ChainRequest, AgentRequest
  <2>4. idb.state \in States \cup {None} /\ idb.rows \subseteq Rows
    BY <2>1, StoreFacts DEF SharedIInv
  <2>5. idle \in 0 .. MaxIdle /\ faults \in 0 .. MaxFaults /\ loads \in 0 .. MaxLoads
    BY <2>1, BoundFacts DEF SharedIInv, BoundsIInv
  <2> QED BY <2>1, <2>2, <2>3, <2>4, <2>5 DEF BrowserTypeOK, SharedIInv
<1> QED BY <1>1, BrowserAlways, PTL

(* What an agent was answered holds, for any number of tabs, commands,     *)
(* faults and reloads: ok is recorded in IndexedDB, and a commit refused   *)
(* for being volatile is in no state on screen or on disk, unless the      *)
(* command was carried out after all (commitCommand and executeInternal).  *)
THEOREM AnswersAlwaysHold == BrowserSpec => []AnswersHold
<1>1. BrowserIInv => AnswersHold
  <2> SUFFICES ASSUME BrowserIInv PROVE AnswersHold
    OBVIOUS
  <2>1. BooksIInv
    BY DEF BrowserIInv
  <2>2. RefusedStaysOut
    <3> SUFFICES ASSUME NEW t \in Tabs, NEW key \in rejected[t], RowsOf(idb, key) = {}
                 PROVE  /\ key \notin live[t].ops
                        /\ idb.state # None => key \notin idb.state.ops
      BY DEF RefusedStaysOut
    <3>1. key \in Keys
      BY TabFacts DEF BrowserIInv
    <3>2. key \notin Recorded
      BY DEF RowsOf, Recorded
    <3> QED BY <2>1, <3>1, <3>2 DEF BooksIInv, Within
  <2> QED BY <2>1, <2>2 DEF AnswersHold, BooksIInv
<1> QED BY <1>1, BrowserAlways, PTL

(* A tab with nothing left to write shows what the database holds, unless  *)
(* an operation failed, another tab wrote, an interface write overlapped   *)
(* an agent command or an answer was repeated since it loaded              *)
(* (localPersistChain and localPersistedStateVersionRef).                  *)
THEOREM SettledIsAlwaysSaved == BrowserSpec => []SettledIsSaved
<1>1. BrowserIInv => SettledIsSaved
  <2> SUFFICES ASSUME BrowserIInv, NEW t \in Tabs, Settled(t), t \notin disturbed \cup repeated
               PROVE  idb.state = live[t]
    BY DEF SettledIsSaved
  <2>1. page[t] # "loading" /\ chain[t] = <<>>
    BY DEF Settled
  <2>2. Undisturbed(t)
    BY <2>1 DEF Undisturbed
  <2> QED BY <2>1, <2>2 DEF BrowserIInv, AllGood, Good, InStep
<1> QED BY <1>1, BrowserAlways, PTL

=============================================================================
