-------------------------- MODULE SuggestionPanel --------------------------
(***************************************************************************)
(* The picture of a new memory and the panel of suggested photos           *)
(* (NewMemoryViewController.swift), over what ImageSuggestionProvider      *)
(* promises (SuggestionService).  Each time the text has been edited its   *)
(* photos are asked for; the answers come in any order, and each has the   *)
(* main queue fill the panel.  The user takes a photo from the panel or,   *)
(* when the panel is out of the way, one from the library.  The provider   *)
(* may take the app down, and the page with it.                            *)
(***************************************************************************)
EXTENDS Integers, Sequences

CONSTANTS
    Requests, Assets, Words, PhrasesOf, TagsOf,  \* those of SuggestionService
    Slots,        \* imageSuggestionViews.count
    Library,      \* pictures the user may pick
    Placeholder,  \* the picture "Tap to Select Image"
    NoImage,
    NoRequest

ASSUME SlotsAssumption == Slots \in Nat \ {0}
ASSUME PicturesAssumption ==
    NoImage \notin Assets \cup Library \cup {Placeholder} /\ Placeholder \notin Assets \cup Library
ASSUME NoRequestAssumption == NoRequest \notin Requests

VARIABLES
    status, answer, died,  \* those of SuggestionService
    typing,                \* the text is being edited
    mainQueue,             \* blocks waiting to fill the panel, each with its photos
    panelHidden,           \* imageSuggestionView.isHidden
    imageSuggestionViews,  \* the photo in each slot of the panel
    newMemoryImage,        \* the picture of the memory
    picking,               \* the image picker is presented
    finger,                \* the slot being touched, 0 for none
    stage,                 \* what became of the memory
    saved,                 \* the picture handed to the list
    latest,                \* history: the request made last
    overtaken,             \* history: an older one was answered after it
    aimed,                 \* history: the photo the finger came down on
    refilled,              \* history: the panel was filled since
    choice,                \* history: what the user took last
    slip                   \* history: why the picture may be another

serviceVars == <<status, answer, died>>
panelVars == <<panelHidden, imageSuggestionViews>>
pictureVars == <<newMemoryImage, choice, slip>>
touchVars == <<finger, aimed, refilled>>
vars == <<serviceVars, typing, mainQueue, panelVars, pictureVars, picking, touchVars,
          stage, saved, latest, overtaken>>

Service == INSTANCE SuggestionService

Pictures == Assets \cup Library \cup {Placeholder, NoImage}

\* Mutant: prefix(6) keeps one photo more than there are slots.
Offers_OneMore(S) ==
    {images \in UNION {[1..n -> S] : n \in 0..Slots + 1} :
        /\ \A i, j \in DOMAIN images : images[i] = images[j] => i = j
        /\ Len(images) = Slots + 1 \/ \A a \in S : \E i \in DOMAIN images : images[i] = a}

\* What suggestions.prefix(6) may be for an answer of the photos S, in any order.
Offers(S) ==
    {images \in UNION {[1..n -> S] : n \in 0..Slots} :
        /\ \A i, j \in DOMAIN images : images[i] = images[j] => i = j
        /\ Len(images) = Slots \/ \A a \in S : \E i \in DOMAIN images : images[i] = a}

\* Mutant: the slots beyond the last photo keep theirs.
Filled_Upto(images) ==
    [i \in 1..Slots |-> IF i <= Len(images) THEN images[i] ELSE imageSuggestionViews[i]]

\* The panel filled with images: the slots beyond the last are emptied.
Filled(images) == [i \in 1..Slots |-> IF i <= Len(images) THEN images[i] ELSE NoImage]

\* Rows of photos that fit into the panel.
Rows == UNION {[1..n -> Assets] : n \in 0..Slots}

TypeOK ==
    /\ status \in [Requests -> {"new", "asked", "answered"}]
    /\ answer \in [Requests -> SUBSET Assets]
    /\ died \in BOOLEAN
    /\ typing \in BOOLEAN /\ picking \in BOOLEAN
    /\ panelHidden \in BOOLEAN /\ refilled \in BOOLEAN
    /\ mainQueue \in Seq(Rows)
    /\ imageSuggestionViews \in [1..Slots -> Assets \cup {NoImage}]
    /\ newMemoryImage \in Pictures /\ choice \in Pictures /\ aimed \in Pictures
    /\ saved \in Pictures
    /\ finger \in 0..Slots
    /\ stage \in {"editing", "saved", "cancelled"}
    /\ latest \in Requests \cup {NoRequest}
    /\ overtaken \in BOOLEAN
    /\ slip \in {"none", "refilled", "empty slot"}

Init ==
    /\ Service!Init
    /\ typing = FALSE
    /\ mainQueue = <<>>
    /\ panelHidden = TRUE
    /\ imageSuggestionViews = [i \in 1..Slots |-> NoImage]
    /\ newMemoryImage = Placeholder /\ choice = Placeholder /\ slip = "none"
    /\ picking = FALSE
    /\ finger = 0 /\ aimed = NoImage /\ refilled = FALSE
    /\ stage = "editing" /\ saved = NoImage
    /\ latest = NoRequest /\ overtaken = FALSE

-----------------------------------------------------------------------------
Running == ~died
Editing == Running /\ stage = "editing" /\ ~picking

(* The text. *)

TextViewDidBeginEditing ==
    /\ Editing /\ ~typing
    /\ typing' = TRUE
    /\ UNCHANGED <<serviceVars, mainQueue, panelVars, pictureVars, picking, touchVars, stage,
                   saved, latest, overtaken>>

\* The photos of the text are asked for.
Suggest(r) ==
    /\ Service!Ask(r)
    /\ latest' = r
    /\ overtaken' = FALSE

TextViewDidEndEditing(r) ==
    /\ Editing /\ typing
    /\ typing' = FALSE
    /\ Suggest(r)
    /\ UNCHANGED <<mainQueue, panelVars, pictureVars, picking, touchVars, stage, saved>>

-----------------------------------------------------------------------------
(* The answers. *)

\* Mutant: an answer without photos is not worth a block.
ProcessImageSuggestions_SomeOnly(r) ==
    /\ Service!Answer(r)
    /\ \E images \in Offers(answer'[r]) :
           mainQueue' = IF images = <<>> THEN mainQueue ELSE Append(mainQueue, images)
    /\ overtaken' = (r # latest /\ (overtaken \/ status[latest] = "answered"))
    /\ UNCHANGED <<typing, panelVars, pictureVars, picking, touchVars, stage, saved, latest>>

\* processImageSuggestions, on the thread of the answer.
ProcessImageSuggestions(r) ==
    /\ Service!Answer(r)
    /\ \E images \in Offers(answer'[r]) : mainQueue' = Append(mainQueue, images)
    /\ overtaken' = (r # latest /\ (overtaken \/ status[latest] = "answered"))
    /\ UNCHANGED <<typing, panelVars, pictureVars, picking, touchVars, stage, saved, latest>>

\* Mutant: the panel comes up for an answer without photos, too.
FillPanel_Always ==
    /\ Running /\ mainQueue # <<>>
    /\ mainQueue' = Tail(mainQueue)
    /\ panelHidden' = FALSE
    /\ imageSuggestionViews' = Filled(Head(mainQueue))
    /\ refilled' = TRUE
    /\ UNCHANGED <<serviceVars, typing, pictureVars, picking, finger, aimed, stage, saved,
                   latest, overtaken>>

\* Its block on the main queue, which may find the controller gone.  A finger
\* may be on the panel.
FillPanel ==
    /\ Running /\ mainQueue # <<>>
    /\ mainQueue' = Tail(mainQueue)
    /\ \/ /\ panelHidden' = (Head(mainQueue) = <<>>)
          /\ imageSuggestionViews' = Filled(Head(mainQueue))
       \/ stage # "editing" /\ UNCHANGED panelVars
    /\ refilled' = TRUE
    /\ UNCHANGED <<serviceVars, typing, pictureVars, picking, finger, aimed, stage, saved,
                   latest, overtaken>>

-----------------------------------------------------------------------------
(* The panel, which lies over the picture. *)

TouchSuggestion(i) ==
    /\ Editing /\ ~panelHidden /\ finger = 0
    /\ finger' = i
    /\ aimed' = imageSuggestionViews[i]
    /\ refilled' = FALSE
    /\ UNCHANGED <<serviceVars, typing, mainQueue, panelVars, pictureVars, picking, stage,
                   saved, latest, overtaken>>

\* Mutant: the slot after the one tapped.
SuggestionTapped_Next ==
    /\ Running /\ finger # 0
    /\ newMemoryImage' = imageSuggestionViews[IF finger = Slots THEN 1 ELSE finger + 1]
    /\ panelHidden' = TRUE
    /\ finger' = 0
    /\ choice' = IF aimed = NoImage THEN choice ELSE aimed
    /\ slip' = IF refilled THEN "refilled" ELSE IF aimed = NoImage THEN "empty slot" ELSE "none"
    /\ UNCHANGED <<serviceVars, typing, mainQueue, imageSuggestionViews, picking, aimed,
                   refilled, stage, saved, latest, overtaken>>

\* suggestion1Tapped to suggestion6Tapped.  An empty slot can be tapped, too.
SuggestionTapped ==
    /\ Running /\ finger # 0
    /\ newMemoryImage' = imageSuggestionViews[finger]
    /\ panelHidden' = TRUE
    /\ finger' = 0
    /\ choice' = IF aimed = NoImage THEN choice ELSE aimed
    /\ slip' = IF refilled THEN "refilled" ELSE IF aimed = NoImage THEN "empty slot" ELSE "none"
    /\ UNCHANGED <<serviceVars, typing, mainQueue, imageSuggestionViews, picking, aimed,
                   refilled, stage, saved, latest, overtaken>>

\* The finger slides away, or the panel goes from under it.
TouchCancelled ==
    /\ Running /\ finger # 0
    /\ finger' = 0
    /\ UNCHANGED <<serviceVars, typing, mainQueue, panelVars, pictureVars, picking, aimed,
                   refilled, stage, saved, latest, overtaken>>

-----------------------------------------------------------------------------
(* The library. *)

\* The picker takes the keyboard away: the text has been edited.
UIImageTapped ==
    /\ Editing /\ panelHidden /\ finger = 0
    /\ picking' = TRUE
    /\ typing' = FALSE
    /\ IF typing THEN \E r \in Requests : Suggest(r)
                 ELSE UNCHANGED <<serviceVars, latest, overtaken>>
    /\ UNCHANGED <<mainQueue, panelVars, pictureVars, touchVars, stage, saved>>

DidFinishPicking(pickedImage) ==
    /\ Running /\ picking
    /\ picking' = FALSE
    /\ newMemoryImage' = pickedImage
    /\ choice' = pickedImage /\ slip' = "none"
    /\ UNCHANGED <<serviceVars, typing, mainQueue, panelVars, touchVars, stage, saved, latest,
                   overtaken>>

PickerDidCancel ==
    /\ Running /\ picking
    /\ picking' = FALSE
    /\ UNCHANGED <<serviceVars, typing, mainQueue, panelVars, pictureVars, touchVars, stage,
                   saved, latest, overtaken>>

-----------------------------------------------------------------------------
(* The end of it. *)

\* prepare: the memory gets the picture, or none if it is still the placeholder.
Save ==
    /\ Editing /\ finger = 0
    /\ stage' = "saved"
    /\ saved' = IF newMemoryImage = Placeholder THEN NoImage ELSE newMemoryImage
    /\ UNCHANGED <<serviceVars, typing, mainQueue, panelVars, pictureVars, picking, touchVars,
                   latest, overtaken>>

Cancel ==
    /\ Editing /\ finger = 0
    /\ stage' = "cancelled"
    /\ UNCHANGED <<serviceVars, typing, mainQueue, panelVars, pictureVars, picking, touchVars,
                   saved, latest, overtaken>>

\* The app dies of a reply (see ImageSuggestions).
AppDies ==
    /\ Service!Die
    /\ UNCHANGED <<typing, mainQueue, panelVars, pictureVars, picking, touchVars, stage, saved,
                   latest, overtaken>>

Next ==
    \/ TextViewDidBeginEditing
    \/ \E r \in Requests : TextViewDidEndEditing(r) \/ ProcessImageSuggestions(r)
    \/ FillPanel
    \/ \E i \in 1..Slots : TouchSuggestion(i)
    \/ SuggestionTapped \/ TouchCancelled
    \/ UIImageTapped \/ \E pickedImage \in Library : DidFinishPicking(pickedImage)
    \/ PickerDidCancel
    \/ Save \/ Cancel
    \/ AppDies

Spec == Init /\ [][Next]_vars

\* Requests are answered (see ImageSuggestions) and the main queue runs its
\* blocks, for as long as the app lives.
Fairness ==
    /\ \A r \in Requests : WF_vars(ProcessImageSuggestions(r))
    /\ WF_vars(FillPanel)

FairSpec == Spec /\ Fairness

-----------------------------------------------------------------------------
\* The panel holds photos of the answer to r, and all of them if they fit.
Shows(r) ==
    LET shown == {imageSuggestionViews[i] : i \in 1..Slots} IN
    /\ shown \subseteq answer[r] \cup {NoImage}
    /\ NoImage \in shown => answer[r] \subseteq shown

(* When all is answered the panel holds the photos of the text as it is,    *)
(* with none left over from an earlier text, unless an earlier request was  *)
(* answered after the last one.                                             *)
PanelIsForText ==
    /\ latest # NoRequest /\ status[latest] = "answered" /\ mainQueue = <<>>
    /\ stage = "editing"
    => overtaken \/ Shows(latest)

(* A panel that shows has something to tap in its first slot, and all it    *)
(* offers answers one and the same text.                                    *)
PanelOffersPhotos ==
    ~panelHidden =>
        /\ imageSuggestionViews[1] # NoImage
        /\ \E r \in Requests :
               \A i \in 1..Slots : imageSuggestionViews[i] \in answer[r] \cup {NoImage}

(* The memory is saved with the picture the user took last, or with none if *)
(* they took none: a photo is never lost or another one - unless the panel  *)
(* was filled anew under the finger, or an empty slot was tapped, the only  *)
(* way to be rid of the panel without taking a photo, which leaves none.    *)
SavedPictureIsChoice ==
    stage = "saved" =>
        \/ saved = IF choice = Placeholder THEN NoImage ELSE choice
        \/ slip = "refilled"
        \/ slip = "empty slot" /\ saved = NoImage

(* The photos of every text get to the panel, unless it is edited again, an *)
(* earlier request is answered after it, the memory is done, or the app     *)
(* dies of a reply.                                                         *)
TextGetsItsPhotos ==
    \A r \in Requests :
        latest = r ~> \/ latest # r \/ overtaken \/ stage # "editing" \/ died
                      \/ status[r] = "answered" /\ Shows(r)
=============================================================================
