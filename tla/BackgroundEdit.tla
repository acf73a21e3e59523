--------------------------- MODULE BackgroundEdit ---------------------------
(* The background assistant of the guided capture                          *)
(* (src/app/features/background-edit/): a panel that is mounted while the   *)
(* photos step shows a finished session, makes composites of the front      *)
(* picture, and hands what the seller approves to the listing form          *)
(* (applyApprovedBackground of ListingView.tsx).                            *)
(*                                                                          *)
(* Generating, adopting, restoring and saving are asynchronous, one at a    *)
(* time in a mounted panel (isSubmitting); an adoption that is being        *)
(* prepared outlives the panel that asked for it.  The session's own slot   *)
(* is CaptureSession's.                                                     *)
EXTENDS Naturals, Sequences, FiniteSets

CONSTANTS
    Styles,       \* backgrounds the seller can choose (BackgroundStyleId)
    FirstStyle,   \* the one chosen at first
    MaxShots,     \* bound: front pictures taken
    MaxLayers,    \* bound: backgrounds laid over one picture
    MaxMounts,    \* bound: times the panel is mounted
    None          \* no picture, no job

ASSUME StylesAssumption == FirstStyle \in Styles
ASSUME NoneAssumption == None \notin Styles
ASSUME BoundsAssumption == MaxShots \in Nat \ {0}

VARIABLES
    item,       \* the front picture of the listing form (sourceFile of the front item)
    late,       \* adoptions asked for by panels that are gone: [picture, aimed]
    mounts,     \* how often the panel was mounted
    open,       \* the panel is mounted
    style,      \* styleId
    phase,      \* phase of the reducer
    preview,    \* previewBlob
    selected,   \* selectedBlob; approvedBlob too when phase is "approved"
    output,     \* selectedOutput
    source,     \* sourceOriginal: the picture the panel works on
    behind,     \* sourceOriginal is not the front picture any more (another File)
    dirty,      \* the adoption effect is due: one of its dependencies changed
    fallback,   \* fallbackAvailable
    job,        \* what isSubmitting waits for
    agreed      \* history: the pictures the seller pressed "approve" on

panel == <<open, style, phase, preview, selected, output, source, behind, dirty, fallback, job>>
vars == <<item, late, mounts, panel, agreed>>

-----------------------------------------------------------------------------
(* Pictures: which shot, and the backgrounds laid over it, oldest first.    *)

Shots == 1 .. MaxShots
Pictures == [shot : Shots, layers : Seq(Styles)]
Shot(n) == [shot |-> n, layers |-> <<>>]
Composite(p, s) == [p EXCEPT !.layers = Append(@, s)]

Phases == {"idle", "processing", "preview", "approved", "error"}
Outputs == {"original", "composite"}

(* A job: saving; adopting the selected picture; restoring the source, alone *)
(* or before a new generation; generating.  "aimed": the front item it was   *)
(* started for is still there; "current": requestIdRef is still its own.     *)
Kinds == {"save", "approve", "revoke", "restore", "mask", "background", "compose"}
Job(k, p, a) == [kind |-> k, picture |-> p, adopts |-> a, style |-> style,
                 local |-> FALSE, aimed |-> TRUE, current |-> TRUE]

Init ==
    /\ item = Shot(1)
    /\ late = {}
    /\ mounts = 0
    /\ open = FALSE
    /\ style = FirstStyle
    /\ phase = "idle"
    /\ preview = None
    /\ selected = None
    /\ output = None
    /\ source = Shot(1)
    /\ behind = FALSE
    /\ dirty = FALSE
    /\ fallback = FALSE
    /\ job = None
    /\ agreed = {}

-----------------------------------------------------------------------------
(* backgroundEditReducer.ts                                                 *)

\* createInitialBackgroundEditState, RESET and, with an error, PROCESSING_FAILED.
Blank(ph) ==
    /\ phase' = ph
    /\ preview' = None
    /\ selected' = None
    /\ output' = None

\* PREVIEW_READY
PreviewReady(p) ==
    /\ phase' = "preview"
    /\ preview' = p
    /\ selected' = None
    /\ output' = None

\* SELECT_OUTPUT
SelectOutput(out, p) ==
    /\ phase \notin {"processing", "approved"}
    /\ out = "composite" => phase = "preview" /\ preview = p
    /\ phase' = "preview"
    /\ selected' = p
    /\ output' = out
    /\ UNCHANGED preview

\* APPROVE
CanApprove ==
    /\ phase = "preview"
    /\ selected # None
    /\ output = "composite" => selected = preview

\* REVOKE_APPROVAL
Revoked ==
    /\ phase' = IF preview # None THEN "preview" ELSE "idle"
    /\ selected' = None
    /\ output' = None
    /\ UNCHANGED preview

-----------------------------------------------------------------------------
(* The listing form                                                         *)

\* setMedia of applyApprovedBackground: the item that was the front item when
\* the seller pressed the button, if it is still in the form, gets the picture.
\* Every other adoption on its way was meant for an item that is now gone.
\* The session's front slot, which the handler replaces whether or not the item
\* is still in the form, is the state of CaptureSession (ReplaceFront).
Adopted(j, others) ==
    IF j.aimed
    THEN /\ item' = j.picture
         /\ late' = {[l EXCEPT !.aimed = FALSE] : l \in others}
    ELSE /\ item' = item
         /\ late' = others

\* The panel is mounted when the photos step shows a session that is ready:
\* useState(() => original) takes the front picture as it is then.
Mount ==
    /\ ~open
    /\ mounts < MaxMounts
    /\ mounts' = mounts + 1
    /\ open' = TRUE
    /\ style' = FirstStyle
    /\ Blank("idle")
    /\ source' = item
    /\ behind' = FALSE
    /\ dirty' = FALSE
    /\ fallback' = FALSE
    /\ job' = None
    /\ UNCHANGED <<item, late, agreed>>

\* What an adoption or a restoration still does when its panel is gone.
Outliving ==
    IF job # None /\ job.adopts
    THEN {[picture |-> job.picture, aimed |-> job.aimed]}
    ELSE {}

\* Another step of the form, a new measurement, a removed picture or the end of
\* the session takes the panel away, and what it knew with it.
Unmount ==
    /\ open
    /\ open' = FALSE
    /\ late' = late \cup Outliving
    /\ job' = None
    /\ Blank("idle")
    /\ behind' = FALSE
    /\ dirty' = FALSE
    /\ fallback' = FALSE
    /\ UNCHANGED <<item, mounts, style, source, agreed>>

\* The front picture is removed and taken again, which ends the ready phase.
TakeFrontAgain ==
    /\ ~open
    /\ item.shot < MaxShots
    /\ item' = Shot(item.shot + 1)
    /\ late' = {[l EXCEPT !.aimed = FALSE] : l \in late}
    /\ UNCHANGED <<mounts, panel, agreed>>

\* An adoption whose panel is gone gets its picture ready.
LateAdoption ==
    \E l \in late :
        /\ Adopted(l, late \ {l})
        /\ behind' = (behind \/ (open /\ l.aimed))
        /\ dirty' = (dirty \/ (open /\ l.aimed))
        /\ job' = IF l.aimed /\ job # None THEN [job EXCEPT !.aimed = FALSE] ELSE job
        /\ UNCHANGED <<mounts, open, style, phase, preview, selected, output,
                       source, fallback, agreed>>

\* prepareListingMedia of such an adoption fails; nobody is told.
LateAdoptionFails ==
    \E l \in late :
        /\ late' = late \ {l}
        /\ UNCHANGED <<item, mounts, panel, agreed>>

-----------------------------------------------------------------------------
(* BackgroundEditPanel.tsx.  The seller presses a button of the last render, *)
(* so with the effects of the last changes run.                              *)

Clickable == open /\ ~dirty /\ job = None

\* transition is approvalTransitionRef: set while an approval is applied or
\* withdrawn.
InTransition == job # None /\ job.kind \in {"approve", "revoke", "restore"}

\* The effect that takes over a front picture that was changed elsewhere.  The
\* request on its way is no longer current.
AdoptOriginal ==
    /\ open
    /\ dirty
    /\ dirty' = FALSE
    /\ IF behind /\ ~InTransition /\ phase # "approved"
       THEN /\ source' = item
            /\ behind' = FALSE
            /\ fallback' = FALSE
            /\ job' = IF job = None THEN None ELSE [job EXCEPT !.current = FALSE]
            /\ Blank("idle")
       ELSE UNCHANGED <<source, behind, fallback, job, phase, preview, selected, output>>
    /\ UNCHANGED <<item, late, mounts, open, style, agreed>>

\* generatePreview: an approved picture is withdrawn first; the source goes
\* back to the listing only if a composite was approved (revokeApprovedFront).
GeneratePreview(local) ==
    /\ Clickable
    /\ phase # "processing"
    /\ local => fallback
    /\ Len(source.layers) < MaxLayers
    /\ IF phase = "approved"
       THEN /\ job' = [Job("restore", source, output = "composite") EXCEPT !.local = local]
            /\ UNCHANGED <<phase, preview, selected, output, dirty, fallback>>
       ELSE /\ job' = [Job("mask", source, FALSE) EXCEPT !.local = local]
            /\ fallback' = FALSE
            /\ Blank("processing")
            /\ dirty' = TRUE
    /\ UNCHANGED <<item, late, mounts, open, style, source, behind, agreed>>

\* The front picture is restored, and the generation goes on with REVOKE_APPROVAL
\* and START_PROCESSING.  (Nothing but the end of the panel can supersede it yet.)
RestoredThenGenerates ==
    /\ open
    /\ job # None /\ job.kind = "restore"
    /\ IF job.adopts THEN Adopted(job, late) /\ behind' = (behind \/ job.aimed)
                     ELSE UNCHANGED <<item, late, behind>>
    /\ dirty' = TRUE
    /\ job' = [job EXCEPT !.kind = "mask", !.adopts = FALSE]
    /\ fallback' = FALSE
    /\ Blank("processing")
    /\ UNCHANGED <<mounts, open, style, source, agreed>>

\* Variant: nobody asks.
IsCurrentForEver == TRUE

\* A generation that is no longer current stops after the await it is in; the
\* panel becomes usable again.
IsCurrent == job.current

\* The mask, then the background, are there.
NextStage == [mask |-> "background", background |-> "compose"]
StageDone ==
    /\ open
    /\ job # None /\ job.kind \in DOMAIN NextStage
    /\ job' = IF IsCurrent THEN [job EXCEPT !.kind = NextStage[job.kind]] ELSE None
    /\ UNCHANGED <<item, late, mounts, open, style, phase, preview, selected,
                   output, source, behind, dirty, fallback, agreed>>

\* composeBackgroundPreview: the composite of the source the generation began
\* with, in the style it began with.
Composed ==
    /\ open
    /\ job # None /\ job.kind = "compose"
    /\ job' = None
    /\ IF IsCurrent
       THEN PreviewReady(Composite(job.picture, job.style)) /\ dirty' = TRUE
       ELSE UNCHANGED <<phase, preview, selected, output, dirty>>
    /\ UNCHANGED <<item, late, mounts, open, style, source, behind, fallback, agreed>>

\* A provider answers with an error or times out.
GenerationFails ==
    /\ open
    /\ job # None /\ job.kind \in {"mask", "background", "compose"}
    /\ job' = None
    /\ IF IsCurrent
       THEN /\ Blank("error")
            /\ fallback' = (job.kind = "background" /\ ~job.local)
            /\ dirty' = TRUE
       ELSE UNCHANGED <<phase, preview, selected, output, fallback, dirty>>
    /\ UNCHANGED <<item, late, mounts, open, style, source, behind, agreed>>

\* changeStyle: a preview in the old style is thrown away.
ChangeStyle ==
    /\ Clickable
    /\ phase \notin {"processing", "approved"}
    /\ \E s \in Styles \ {style} :
        /\ style' = s
        /\ IF phase \in {"preview", "error"}
           THEN Blank("idle") /\ dirty' = TRUE
           ELSE UNCHANGED <<phase, preview, selected, output, dirty>>
    /\ UNCHANGED <<item, late, mounts, open, source, behind, fallback, job, agreed>>

\* selectOriginal, selectComposite
SelectOriginal ==
    /\ Clickable
    /\ phase \in {"preview", "error"}
    /\ SelectOutput("original", source)
    /\ dirty' = (phase # "preview")
    /\ UNCHANGED <<item, late, mounts, open, style, source, behind, fallback, job, agreed>>

SelectComposite ==
    /\ Clickable
    /\ phase = "preview"
    /\ preview # None
    /\ SelectOutput("composite", preview)
    /\ UNCHANGED <<item, late, mounts, open, style, source, behind, dirty, fallback, job, agreed>>

\* Variant: the picture handed over is the preview that is shown, if there is one.
ApproveWhatIsShown ==
    /\ Clickable
    /\ phase = "preview"
    /\ selected # None
    /\ job' = Job("approve", IF preview # None THEN preview ELSE selected, TRUE)
    /\ agreed' = agreed \cup {selected}
    /\ UNCHANGED <<item, late, mounts, open, style, phase, preview, selected,
                   output, source, behind, dirty, fallback>>

\* approve: the selected picture is handed to the form.
Approve ==
    /\ Clickable
    /\ phase = "preview"
    /\ selected # None
    /\ job' = Job("approve", selected, TRUE)
    /\ agreed' = agreed \cup {selected}
    /\ UNCHANGED <<item, late, mounts, open, style, phase, preview, selected,
                   output, source, behind, dirty, fallback>>

\* The form has it: APPROVE, which the reducer ignores if the choice is gone.
Approved ==
    /\ open
    /\ job # None /\ job.kind = "approve"
    /\ Adopted(job, late)
    /\ behind' = (behind \/ job.aimed)
    /\ dirty' = TRUE
    /\ job' = None
    /\ phase' = IF CanApprove THEN "approved" ELSE phase
    /\ UNCHANGED <<mounts, open, style, preview, selected, output, source, fallback, agreed>>

\* revokeApproval
RevokeApproval ==
    /\ Clickable
    /\ phase = "approved"
    /\ job' = Job("revoke", source, output = "composite")
    /\ UNCHANGED <<item, late, mounts, open, style, phase, preview, selected,
                   output, source, behind, dirty, fallback, agreed>>

RevokeDone ==
    /\ open
    /\ job # None /\ job.kind = "revoke"
    /\ IF job.adopts THEN Adopted(job, late) /\ behind' = (behind \/ job.aimed)
                     ELSE UNCHANGED <<item, late, behind>>
    /\ job' = None
    /\ dirty' = TRUE
    /\ Revoked
    /\ UNCHANGED <<mounts, open, style, source, fallback, agreed>>

\* The picture cannot be prepared for the form: APPROVAL_FAILED, nothing else.
TransitionFails ==
    /\ open
    /\ InTransition /\ job.adopts
    /\ job' = None
    /\ UNCHANGED <<item, late, mounts, open, style, phase, preview, selected,
                   output, source, behind, dirty, fallback, agreed>>

\* saveApproved, and its end, whether or not the file was saved.
SaveApproved ==
    /\ Clickable
    /\ phase = "approved"
    /\ job' = Job("save", selected, FALSE)
    /\ UNCHANGED <<item, late, mounts, open, style, phase, preview, selected,
                   output, source, behind, dirty, fallback, agreed>>

Saved ==
    /\ open
    /\ job # None /\ job.kind = "save"
    /\ job' = None
    /\ UNCHANGED <<item, late, mounts, open, style, phase, preview, selected,
                   output, source, behind, dirty, fallback, agreed>>

SellerActs ==
    \/ \E local \in BOOLEAN : GeneratePreview(local)
    \/ ChangeStyle
    \/ SelectOriginal
    \/ SelectComposite
    \/ Approve
    \/ RevokeApproval
    \/ SaveApproved

Answers ==
    \/ RestoredThenGenerates
    \/ StageDone
    \/ Composed
    \/ GenerationFails
    \/ Approved
    \/ RevokeDone
    \/ TransitionFails
    \/ Saved

Next ==
    \/ Mount \/ Unmount \/ TakeFrontAgain
    \/ LateAdoption \/ LateAdoptionFails
    \/ AdoptOriginal
    \/ SellerActs
    \/ Answers

Spec == Init /\ [][Next]_vars

-----------------------------------------------------------------------------
(* Properties                                                               *)

Jobs == [kind : Kinds, picture : Pictures, adopts : BOOLEAN, style : Styles,
         local : BOOLEAN, aimed : BOOLEAN, current : BOOLEAN]

Adoptions == [picture : Pictures, aimed : BOOLEAN]

TypeOK ==
    /\ item \in Pictures
    /\ late \subseteq Adoptions
    /\ mounts \in Nat
    /\ open \in BOOLEAN
    /\ style \in Styles
    /\ phase \in Phases
    /\ preview \in Pictures \cup {None}
    /\ selected \in Pictures \cup {None}
    /\ output \in Outputs \cup {None}
    /\ source \in Pictures
    /\ behind \in BOOLEAN
    /\ dirty \in BOOLEAN
    /\ fallback \in BOOLEAN
    /\ job \in Jobs \cup {None}
    /\ agreed \subseteq Pictures

(* The comparison the seller decides on shows what it claims to show: the    *)
(* composite next to the original is made of that original and of the style  *)
(* that is ticked, however long the providers took, whatever was clicked in  *)
(* the meantime and whatever the form did to the front picture.  This is     *)
(* what requestIdRef and isCurrent are for.                                  *)
PreviewMatchesChoice ==
    preview # None => preview = Composite(source, style)

(* No generated picture is in the listing unless the seller approved that    *)
(* very picture ("承認前は出品に反映しない"): not when an approval fails half  *)
(* way, is withdrawn while something is generated, or comes through after     *)
(* the panel that asked for it is gone.                                       *)
Agreed(p) == p.layers # <<>> => p \in agreed
OnlyApprovedIsListed == Agreed(item)

=============================================================================
