----------------------- MODULE SuggestionPanel_proofs -----------------------
(***************************************************************************)
(* For any texts, photos and number of slots: the panel at rest is for the *)
(* last text, what it offers answers one text, and the memory is saved     *)
(* with the picture the user took.  Photos reach the panel through the     *)
(* main queue, so the inductive invariant follows them: each block holds   *)
(* photos of one answer (QueueIsAnswers), the panel too (PanelIsAnswer),   *)
(* and the last block, or the panel if there is none, is for the last text *)
(* (LatestIsLast).  The picture follows the finger: what is under it is    *)
(* what it came down on until the panel is filled anew (TouchedIsAimed).   *)
(***************************************************************************)
EXTENDS SuggestionPanel, TLAPS

QueueIsAnswers ==
    \A k \in DOMAIN mainQueue :
        \E r \in Requests : status[r] = "answered" /\ mainQueue[k] \in Offers(answer[r])

PanelIsAnswer ==
    ~panelHidden =>
        /\ imageSuggestionViews[1] # NoImage
        /\ \E r \in Requests :
               /\ status[r] = "answered"
               /\ \A i \in 1..Slots : imageSuggestionViews[i] \in answer[r] \cup {NoImage}

LatestIsLast ==
    latest # NoRequest /\ status[latest] = "answered" /\ ~overtaken /\ stage = "editing" =>
        IF mainQueue = <<>> THEN Shows(latest)
        ELSE mainQueue[Len(mainQueue)] \in Offers(answer[latest])

PictureIsChoice ==
    \/ newMemoryImage = choice
    \/ slip = "refilled"
    \/ slip = "empty slot" /\ newMemoryImage = NoImage

TouchedIsAimed == finger # 0 /\ ~refilled => imageSuggestionViews[finger] = aimed

\* Nothing is under way on the screen once the memory is done.
DoneIsDone == stage # "editing" => finger = 0 /\ ~picking

Consistent ==
    /\ TypeOK
    /\ QueueIsAnswers /\ PanelIsAnswer /\ LatestIsLast
    /\ PictureIsChoice /\ TouchedIsAimed /\ DoneIsDone /\ SavedPictureIsChoice

-----------------------------------------------------------------------------
\* What prefix(6) leaves of an answer.
LEMMA OfferFacts ==
  ASSUME NEW S, NEW images \in Offers(S)
  PROVE  /\ images \in Seq(S) /\ Len(images) \in 0..Slots /\ DOMAIN images = 1..Len(images)
         /\ \A i \in 1..Len(images) : images[i] \in S
         /\ Len(images) = Slots \/ \A a \in S : \E i \in 1..Len(images) : images[i] = a
         /\ S \subseteq Assets => images \in Rows
<1>1. PICK n \in 0..Slots : images \in [1..n -> S]
  BY DEF Offers
<1>2. n \in Nat
  BY <1>1, SlotsAssumption
<1>3. images \in Seq(S) /\ Len(images) = n /\ DOMAIN images = 1..n
  BY <1>1, <1>2
<1>4. Len(images) = Slots \/ \A a \in S : \E i \in DOMAIN images : images[i] = a
  BY DEF Offers
<1>5. S \subseteq Assets => images \in [1..n -> Assets]
  BY <1>1
<1> QED
  BY <1>1, <1>3, <1>4, <1>5 DEF Rows

\* A panel filled with them shows them.
LEMMA FilledShows ==
  ASSUME NEW S, NEW images \in Offers(S), S \subseteq Assets,
         NEW views, views = Filled(images)
  PROVE  /\ views \in [1..Slots -> Assets \cup {NoImage}]
         /\ \A i \in 1..Slots : views[i] \in S \cup {NoImage}
         /\ images # <<>> => views[1] # NoImage
         /\ NoImage \in {views[i] : i \in 1..Slots} => S \subseteq {views[i] : i \in 1..Slots}
<1>1. /\ Len(images) \in 0..Slots
      /\ \A i \in 1..Len(images) : images[i] \in S
      /\ Len(images) = Slots \/ \A a \in S : \E i \in 1..Len(images) : images[i] = a
  BY OfferFacts
<1>2. Slots \in Nat \ {0} /\ NoImage \notin S
  BY SlotsAssumption, PicturesAssumption
<1>3. \A i \in 1..Slots : views[i] = IF i <= Len(images) THEN images[i] ELSE NoImage
  BY DEF Filled
<1>4. \A i \in 1..Slots : views[i] \in S \cup {NoImage}
  BY <1>1, <1>2, <1>3
<1>5. views \in [1..Slots -> Assets \cup {NoImage}]
  BY <1>4 DEF Filled
<1>6. images # <<>> => views[1] # NoImage
  <2>1. images # <<>> => Len(images) > 0
    BY <1>1, OfferFacts
  <2> QED
    BY <1>1, <1>2, <1>3, <2>1
<1>7. ASSUME NoImage \in {views[i] : i \in 1..Slots}, NEW a \in S
      PROVE  \E i \in 1..Slots : views[i] = a
  <2>1. Len(images) # Slots
    BY <1>1, <1>2, <1>3, <1>7
  <2>2. PICK i \in 1..Len(images) : images[i] = a
    BY <1>1, <2>1
  <2>3. i \in 1..Slots /\ views[i] = a
    BY <1>1, <1>2, <1>3, <2>2
  <2> QED
    BY <2>3
<1> QED
  BY <1>4, <1>5, <1>6, <1>7

-----------------------------------------------------------------------------
\* An answer, its photos and its block.
LEMMA AnswerFacts ==
  ASSUME TypeOK, NEW r \in Requests, ProcessImageSuggestions(r)
  PROVE  /\ status[r] = "asked" /\ status' = [status EXCEPT ![r] = "answered"]
         /\ \E S \in SUBSET Assets : answer' = [answer EXCEPT ![r] = S]
         /\ answer'[r] \in SUBSET Assets
         /\ \E images \in Offers(answer'[r]) :
                images \in Rows /\ mainQueue' = Append(mainQueue, images)
         /\ overtaken' = (r # latest /\ (overtaken \/ status[latest] = "answered"))
         /\ UNCHANGED <<typing, panelVars, pictureVars, picking, touchVars, stage, saved, latest>>
         /\ UNCHANGED died
<1>1. /\ UNCHANGED died /\ status[r] = "asked" /\ status' = [status EXCEPT ![r] = "answered"]
      /\ \E S \in SUBSET Assets : answer' = [answer EXCEPT ![r] = S]
  BY DEF ProcessImageSuggestions, Service!Answer
<1>2. answer'[r] \in SUBSET Assets
  BY <1>1 DEF TypeOK
<1>3. \E images \in Offers(answer'[r]) : mainQueue' = Append(mainQueue, images)
  BY DEF ProcessImageSuggestions
<1> QED
  BY <1>1, <1>2, <1>3, OfferFacts DEF ProcessImageSuggestions

\* A block of the main queue.
LEMMA BlockFacts ==
  ASSUME TypeOK, QueueIsAnswers, FillPanel
  PROVE  /\ mainQueue # <<>> /\ Head(mainQueue) = mainQueue[1]
         /\ mainQueue' = Tail(mainQueue) /\ mainQueue' \in Seq(Rows)
         /\ Len(mainQueue) \in Nat /\ Len(mainQueue') = Len(mainQueue) - 1
         /\ \A k \in 1..Len(mainQueue) - 1 : mainQueue'[k] = mainQueue[k + 1]
         /\ \E r \in Requests : /\ status[r] = "answered" /\ answer[r] \subseteq Assets
                                /\ Head(mainQueue) \in Offers(answer[r])
<1>1. mainQueue \in Seq(Rows) /\ mainQueue # <<>> /\ mainQueue' = Tail(mainQueue)
  BY DEF FillPanel, TypeOK
<1>2. /\ Head(mainQueue) = mainQueue[1] /\ mainQueue' \in Seq(Rows)
      /\ Len(mainQueue) \in Nat /\ Len(mainQueue) > 0 /\ Len(mainQueue') = Len(mainQueue) - 1
      /\ \A k \in 1..Len(mainQueue) - 1 : mainQueue'[k] = mainQueue[k + 1]
  BY <1>1
<1>3. PICK r \in Requests : status[r] = "answered" /\ mainQueue[1] \in Offers(answer[r])
  BY <1>1, <1>2 DEF QueueIsAnswers
<1>4. answer[r] \subseteq Assets
  BY DEF TypeOK
<1> QED
  BY <1>1, <1>2, <1>3, <1>4

\* Asking.
LEMMA SuggestFacts ==
  ASSUME NEW r \in Requests, Suggest(r)
  PROVE  /\ status[r] = "new" /\ status' = [status EXCEPT ![r] = "asked"]
         /\ answer' = answer /\ latest' = r /\ overtaken' = FALSE /\ died' = died
BY DEF Suggest, Service!Ask

LEMMA TypeStep ==
  ASSUME TypeOK, QueueIsAnswers, Next
  PROVE  TypeOK'
<1> USE DEF serviceVars, panelVars, pictureVars, touchVars
<1>1. CASE TextViewDidBeginEditing
  BY <1>1 DEF TypeOK, TextViewDidBeginEditing
<1>2. ASSUME NEW r \in Requests, TextViewDidEndEditing(r)
      PROVE  TypeOK'
  BY <1>2, SuggestFacts DEF TypeOK, TextViewDidEndEditing
<1>3. ASSUME NEW r \in Requests, ProcessImageSuggestions(r)
      PROVE  TypeOK'
  <2>1. /\ status' \in [Requests -> {"new", "asked", "answered"}]
        /\ answer' \in [Requests -> SUBSET Assets]
    BY <1>3, AnswerFacts DEF TypeOK
  <2>2. mainQueue' \in Seq(Rows)
    <3>1. PICK images \in Offers(answer'[r]) :
            images \in Rows /\ mainQueue' = Append(mainQueue, images)
      BY <1>3, AnswerFacts
    <3>2. mainQueue \in Seq(Rows)
      BY DEF TypeOK
    <3> QED
      BY <3>1, <3>2
  <2>3. overtaken' \in BOOLEAN
    BY <1>3, AnswerFacts
  <2>4. UNCHANGED <<typing, panelVars, pictureVars, picking, touchVars, stage, saved, latest, died>>
    BY <1>3, AnswerFacts
  <2> QED
    BY <2>1, <2>2, <2>3, <2>4 DEF TypeOK
<1>4. CASE FillPanel
  <2>1. mainQueue' \in Seq(Rows)
    BY <1>4, BlockFacts
  <2>2. panelHidden' \in BOOLEAN
    BY <1>4 DEF FillPanel, TypeOK
  <2>3. imageSuggestionViews' \in [1..Slots -> Assets \cup {NoImage}]
    <3>1. Filled(Head(mainQueue)) \in [1..Slots -> Assets \cup {NoImage}]
      BY <1>4, BlockFacts, FilledShows
    <3> QED
      BY <1>4, <3>1 DEF FillPanel, TypeOK
  <2>4. /\ refilled' = TRUE
        /\ UNCHANGED <<serviceVars, typing, pictureVars, picking, finger, aimed, stage, saved,
                       latest, overtaken>>
    BY <1>4 DEF FillPanel
  <2> QED
    BY <2>1, <2>2, <2>3, <2>4 DEF TypeOK
<1>5. ASSUME NEW i \in 1..Slots, TouchSuggestion(i)
      PROVE  TypeOK'
  <2>1. imageSuggestionViews[i] \in Pictures
    BY DEF TypeOK, Pictures
  <2>2. finger' \in 0..Slots
    BY <1>5, SlotsAssumption DEF TouchSuggestion
  <2> QED
    BY <1>5, <2>1, <2>2 DEF TypeOK, TouchSuggestion
<1>6. CASE SuggestionTapped
  <2>1. finger \in 1..Slots /\ 0 \in 0..Slots
    <3>1. finger \in 0..Slots /\ finger # 0
      BY <1>6 DEF SuggestionTapped, TypeOK
    <3> QED
      BY <3>1, SlotsAssumption
  <2>3. imageSuggestionViews[finger] \in Pictures
    BY <2>1 DEF TypeOK, Pictures
  <2>2. choice' \in Pictures /\ slip' \in {"none", "refilled", "empty slot"}
    BY <1>6 DEF SuggestionTapped, TypeOK
  <2> QED
    BY <1>6, <2>1, <2>2, <2>3 DEF TypeOK, SuggestionTapped
<1>7. CASE TouchCancelled
  <2>1. 0 \in 0..Slots
    BY SlotsAssumption
  <2> QED
    BY <1>7, <2>1 DEF TypeOK, TouchCancelled
<1>8. CASE UIImageTapped
  <2>1. CASE typing
    <3>1. PICK r \in Requests : Suggest(r)
      BY <1>8, <2>1 DEF UIImageTapped
    <3> QED
      BY <1>8, <3>1, SuggestFacts DEF TypeOK, UIImageTapped
  <2>2. CASE ~typing
    BY <1>8, <2>2 DEF TypeOK, UIImageTapped
  <2> QED
    BY <2>1, <2>2
<1>9. ASSUME NEW p \in Library, DidFinishPicking(p)
      PROVE  TypeOK'
  BY <1>9 DEF TypeOK, DidFinishPicking, Pictures
<1>10. CASE PickerDidCancel
  BY <1>10 DEF TypeOK, PickerDidCancel
<1>11. CASE Save
  <2>1. saved' \in Pictures /\ stage' = "saved"
    BY <1>11 DEF TypeOK, Save, Pictures
  <2> QED
    BY <1>11, <2>1 DEF TypeOK, Save
<1>12. CASE Cancel
  BY <1>12 DEF TypeOK, Cancel
<1>13. CASE AppDies
  <2>1. /\ died' = TRUE /\ UNCHANGED <<status, answer>>
        /\ UNCHANGED <<typing, mainQueue, panelVars, pictureVars, picking, touchVars, stage, saved,
                       latest, overtaken>>
    BY <1>13 DEF AppDies, Service!Die
  <2>2. died' \in BOOLEAN
    BY <2>1
  <2> QED
    BY <2>1, <2>2 DEF TypeOK
<1> QED
  BY <1>1, <1>2, <1>3, <1>4, <1>5, <1>6, <1>7, <1>8, <1>9, <1>10, <1>11, <1>12, <1>13 DEF Next

-----------------------------------------------------------------------------
Panel == QueueIsAnswers /\ PanelIsAnswer /\ LatestIsLast

\* A request that is made leaves what was answered as it was.
LEMMA PanelSuggest ==
  ASSUME TypeOK, Panel, NEW r \in Requests, Suggest(r),
         UNCHANGED <<mainQueue, panelHidden, imageSuggestionViews, stage>>
  PROVE  Panel'
<1>1. /\ status[r] = "new" /\ status' = [status EXCEPT ![r] = "asked"] /\ status'[r] = "asked"
      /\ answer' = answer /\ latest' = r
  BY SuggestFacts DEF TypeOK
<1>2. \A q \in Requests : status[q] = "answered" => status'[q] = "answered"
  BY <1>1 DEF TypeOK
<1>3. \A S : Offers(S)' = Offers(S)
  BY DEF Offers
<1>4. QueueIsAnswers'
  BY <1>1, <1>2, <1>3 DEF Panel, QueueIsAnswers, Offers
<1>5. PanelIsAnswer'
  BY <1>1, <1>2 DEF Panel, PanelIsAnswer
<1>6. LatestIsLast'
  BY <1>1 DEF LatestIsLast
<1> QED
  BY <1>4, <1>5, <1>6 DEF Panel

LEMMA PanelAnswer ==
  ASSUME TypeOK, Panel, NEW r \in Requests, ProcessImageSuggestions(r)
  PROVE  Panel'
<1>1. /\ status[r] = "asked" /\ status' = [status EXCEPT ![r] = "answered"]
      /\ overtaken' = (r # latest /\ (overtaken \/ status[latest] = "answered"))
      /\ UNCHANGED <<panelHidden, imageSuggestionViews, stage, latest>>
  BY AnswerFacts DEF panelVars
<1>2. /\ \A q \in Requests : status[q] = "answered" => status'[q] = "answered" /\ q # r
      /\ status'[r] = "answered"
      /\ \A q \in Requests \ {r} : status'[q] = status[q]
  BY <1>1 DEF TypeOK
<1>3. \A q \in Requests \ {r} : answer'[q] = answer[q]
  <2>1. PICK S \in SUBSET Assets : answer' = [answer EXCEPT ![r] = S]
    BY AnswerFacts
  <2> QED
    BY <2>1 DEF TypeOK
<1>4. PICK images \in Offers(answer'[r]) :
        images \in Rows /\ mainQueue' = Append(mainQueue, images)
  BY AnswerFacts
<1>5. /\ Len(mainQueue') = Len(mainQueue) + 1 /\ Len(mainQueue) \in Nat
      /\ DOMAIN mainQueue' = 1..Len(mainQueue) + 1 /\ DOMAIN mainQueue = 1..Len(mainQueue)
      /\ mainQueue'[Len(mainQueue')] = images /\ mainQueue' # <<>>
      /\ \A k \in 1..Len(mainQueue) : mainQueue'[k] = mainQueue[k]
  <2>1. mainQueue \in Seq(Rows)
    BY DEF TypeOK
  <2> QED
    BY <1>4, <2>1
<1>6. QueueIsAnswers'
  <2> SUFFICES ASSUME NEW k \in 1..Len(mainQueue) + 1
               PROVE  \E q \in Requests : /\ status'[q] = "answered"
                                          /\ mainQueue'[k] \in Offers(answer'[q])
    BY <1>5 DEF QueueIsAnswers
  <2>1. CASE k = Len(mainQueue) + 1
    BY <1>2, <1>4, <1>5, <2>1
  <2>2. CASE k \in 1..Len(mainQueue)
    <3>1. PICK q \in Requests : status[q] = "answered" /\ mainQueue[k] \in Offers(answer[q])
      BY <1>5, <2>2 DEF Panel, QueueIsAnswers
    <3>2. q # r /\ answer'[q] = answer[q] /\ status'[q] = "answered"
      BY <1>2, <1>3, <3>1
    <3> QED
      BY <1>5, <2>2, <3>1, <3>2
  <2> QED
    BY <1>5, <2>1, <2>2
<1>7. PanelIsAnswer'
  BY <1>1, <1>2, <1>3 DEF Panel, PanelIsAnswer
<1>8. LatestIsLast'
  <2> SUFFICES ASSUME latest # NoRequest, status'[latest] = "answered", ~overtaken'
               PROVE  mainQueue'[Len(mainQueue')] \in Offers(answer'[latest])
    BY <1>1, <1>5 DEF LatestIsLast, Offers
  <2>1. latest \in Requests
    BY DEF TypeOK
  <2>2. latest = r
    BY <1>1, <1>2, <2>1
  <2> QED
    BY <1>4, <1>5, <2>2
<1> QED
  BY <1>6, <1>7, <1>8 DEF Panel

LEMMA PanelFill ==
  ASSUME TypeOK, Panel, FillPanel
  PROVE  Panel'
<1>1. /\ UNCHANGED <<status, answer, stage, latest, overtaken>>
      /\ \/ /\ panelHidden' = (Head(mainQueue) = <<>>)
            /\ imageSuggestionViews' = Filled(Head(mainQueue))
         \/ stage # "editing" /\ UNCHANGED <<panelHidden, imageSuggestionViews>>
  BY DEF FillPanel, serviceVars, panelVars
<1>2. /\ mainQueue # <<>> /\ Head(mainQueue) = mainQueue[1] /\ mainQueue \in Seq(Rows)
      /\ mainQueue' \in Seq(Rows) /\ Len(mainQueue) \in Nat
      /\ Len(mainQueue') = Len(mainQueue) - 1
      /\ \A k \in 1..Len(mainQueue) - 1 : mainQueue'[k] = mainQueue[k + 1]
  BY BlockFacts DEF Panel, TypeOK
<1>3. QueueIsAnswers'
  <2> SUFFICES ASSUME NEW k \in 1..Len(mainQueue) - 1
               PROVE  \E q \in Requests : /\ status[q] = "answered"
                                          /\ mainQueue'[k] \in Offers(answer[q])
    BY <1>1, <1>2 DEF QueueIsAnswers
  <2>1. k + 1 \in DOMAIN mainQueue
    BY <1>2
  <2> QED
    BY <1>2, <2>1 DEF Panel, QueueIsAnswers
<1>4. CASE stage # "editing" /\ UNCHANGED <<panelHidden, imageSuggestionViews>>
  BY <1>1, <1>3, <1>4 DEF Panel, PanelIsAnswer, LatestIsLast
<1>5. CASE /\ panelHidden' = (Head(mainQueue) = <<>>)
           /\ imageSuggestionViews' = Filled(Head(mainQueue))
  <2>1. PICK q \in Requests : /\ status[q] = "answered" /\ answer[q] \subseteq Assets
                              /\ Head(mainQueue) \in Offers(answer[q])
    BY BlockFacts DEF Panel
  <2>2. PanelIsAnswer'
    <3>1. /\ \A i \in 1..Slots : imageSuggestionViews'[i] \in answer[q] \cup {NoImage}
          /\ Head(mainQueue) # <<>> => imageSuggestionViews'[1] # NoImage
      BY <1>5, <2>1, FilledShows
    <3> QED
      BY <1>1, <1>5, <2>1, <3>1 DEF PanelIsAnswer
  <2>3. LatestIsLast'
    <3> SUFFICES ASSUME latest # NoRequest, status[latest] = "answered", ~overtaken,
                        stage = "editing"
                 PROVE  IF mainQueue' = <<>> THEN Shows(latest)'
                        ELSE mainQueue'[Len(mainQueue')] \in Offers(answer[latest])
      BY <1>1 DEF LatestIsLast, Offers, Shows
    <3>1. mainQueue[Len(mainQueue)] \in Offers(answer[latest])
      BY <1>2 DEF Panel, LatestIsLast
    <3>2. CASE Len(mainQueue) = 1
      <4>1. latest \in Requests /\ answer[latest] \subseteq Assets
        BY DEF TypeOK
      <4>2. Head(mainQueue) \in Offers(answer[latest])
        BY <1>2, <3>1, <3>2
      <4>3. /\ \A i \in 1..Slots : imageSuggestionViews'[i] \in answer[latest] \cup {NoImage}
            /\ NoImage \in {imageSuggestionViews'[i] : i \in 1..Slots} =>
                 answer[latest] \subseteq {imageSuggestionViews'[i] : i \in 1..Slots}
        BY <1>5, <4>1, <4>2, FilledShows
      <4>4. mainQueue' = <<>>
        BY <1>2, <3>2
      <4> QED
        BY <1>1, <4>3, <4>4 DEF Shows
    <3>3. CASE Len(mainQueue) > 1
      <4>1. mainQueue' # <<>> /\ mainQueue'[Len(mainQueue')] = mainQueue[Len(mainQueue)]
        BY <1>2, <3>3
      <4> QED
        BY <3>1, <4>1
    <3> QED
      BY <1>2, <3>2, <3>3
  <2> QED
    BY <1>3, <2>2, <2>3 DEF Panel
<1> QED
  BY <1>1, <1>4, <1>5

\* Every other step leaves the panel alone, hides it or ends the editing.
LEMMA PanelStep ==
  ASSUME TypeOK, Panel, Next
  PROVE  Panel'
<1> USE DEF serviceVars, panelVars, pictureVars, touchVars
<1>1. ASSUME UNCHANGED <<status, answer, mainQueue, imageSuggestionViews, latest, overtaken>>,
             panelHidden' \/ panelHidden' = panelHidden,
             stage' = stage \/ stage' # "editing"
      PROVE  Panel'
  BY <1>1 DEF Panel, QueueIsAnswers, PanelIsAnswer, LatestIsLast, Shows
<1>2. CASE TextViewDidBeginEditing \/ TouchCancelled \/ PickerDidCancel \/ AppDies
  BY <1>1, <1>2 DEF Service!Die, TextViewDidBeginEditing, TouchCancelled, PickerDidCancel, AppDies
<1>3. ASSUME NEW r \in Requests, TextViewDidEndEditing(r)
      PROVE  Panel'
  BY <1>3, PanelSuggest DEF TextViewDidEndEditing
<1>4. ASSUME NEW r \in Requests, ProcessImageSuggestions(r)
      PROVE  Panel'
  BY <1>4, PanelAnswer
<1>5. CASE FillPanel
  BY <1>5, PanelFill
<1>6. ASSUME NEW i \in 1..Slots, TouchSuggestion(i)
      PROVE  Panel'
  BY <1>1, <1>6 DEF TouchSuggestion
<1>7. CASE SuggestionTapped
  BY <1>1, <1>7 DEF SuggestionTapped
<1>8. CASE UIImageTapped
  <2>1. CASE typing
    <3>1. PICK r \in Requests : Suggest(r)
      BY <1>8, <2>1 DEF UIImageTapped
    <3> QED
      BY <1>8, <3>1, PanelSuggest DEF UIImageTapped
  <2>2. CASE ~typing
    BY <1>1, <1>8, <2>2 DEF UIImageTapped
  <2> QED
    BY <2>1, <2>2
<1>9. ASSUME NEW p \in Library, DidFinishPicking(p)
      PROVE  Panel'
  BY <1>1, <1>9 DEF DidFinishPicking
<1>10. CASE Save
  BY <1>1, <1>10 DEF Save
<1>11. CASE Cancel
  BY <1>1, <1>11 DEF Cancel
<1> QED
  BY <1>2, <1>3, <1>4, <1>5, <1>6, <1>7, <1>8, <1>9, <1>10, <1>11 DEF Next

-----------------------------------------------------------------------------
Picture == PictureIsChoice /\ TouchedIsAimed /\ DoneIsDone /\ SavedPictureIsChoice

\* What a tap takes is what the finger came down on, or it slipped.
LEMMA PictureTap ==
  ASSUME TypeOK, Picture, SuggestionTapped
  PROVE  Picture'
<1>1. /\ finger # 0 /\ newMemoryImage' = imageSuggestionViews[finger] /\ finger' = 0
      /\ choice' = IF aimed = NoImage THEN choice ELSE aimed
      /\ slip' = IF refilled THEN "refilled"
                 ELSE IF aimed = NoImage THEN "empty slot" ELSE "none"
      /\ UNCHANGED <<stage, picking, saved>>
  BY DEF SuggestionTapped
<1>2. ~refilled => newMemoryImage' = aimed
  BY <1>1 DEF Picture, TouchedIsAimed
<1>3. stage = "editing"
  BY <1>1 DEF Picture, DoneIsDone
<1>4. PictureIsChoice'
  BY <1>1, <1>2 DEF PictureIsChoice
<1> QED
  BY <1>1, <1>3, <1>4 DEF Picture, TouchedIsAimed, DoneIsDone, SavedPictureIsChoice

LEMMA PictureSave ==
  ASSUME TypeOK, Picture, Save
  PROVE  Picture'
<1>1. /\ finger = 0 /\ ~picking /\ stage' = "saved"
      /\ saved' = IF newMemoryImage = Placeholder THEN NoImage ELSE newMemoryImage
      /\ UNCHANGED <<newMemoryImage, choice, slip, picking, finger, refilled, aimed,
                     imageSuggestionViews>>
  BY DEF Save, Editing, pictureVars, touchVars, panelVars
<1>2. NoImage # Placeholder
  BY PicturesAssumption
<1>3. SavedPictureIsChoice'
  BY <1>1, <1>2 DEF Picture, PictureIsChoice, SavedPictureIsChoice
<1> QED
  BY <1>1, <1>3 DEF Picture, PictureIsChoice, TouchedIsAimed, DoneIsDone

LEMMA PictureStep ==
  ASSUME TypeOK, Picture, Next
  PROVE  Picture'
<1> USE DEF serviceVars, panelVars, pictureVars, touchVars
<1>1. ASSUME UNCHANGED <<newMemoryImage, choice, slip, stage, saved>>,
             finger' = 0 \/ UNCHANGED <<finger, aimed, refilled, imageSuggestionViews>>,
             picking' => picking \/ stage = "editing"
      PROVE  Picture'
  <2>1. PictureIsChoice' /\ SavedPictureIsChoice'
    BY <1>1 DEF Picture, PictureIsChoice, SavedPictureIsChoice
  <2>2. TouchedIsAimed'
    BY <1>1 DEF Picture, TouchedIsAimed
  <2>3. DoneIsDone'
    BY <1>1 DEF Picture, DoneIsDone
  <2> QED
    BY <2>1, <2>2, <2>3 DEF Picture
<1>2. CASE TextViewDidBeginEditing \/ TouchCancelled \/ PickerDidCancel \/ AppDies
  BY <1>1, <1>2 DEF Service!Die, TextViewDidBeginEditing, TouchCancelled, PickerDidCancel, AppDies
<1>3. ASSUME NEW r \in Requests, TextViewDidEndEditing(r) \/ ProcessImageSuggestions(r)
      PROVE  Picture'
  BY <1>1, <1>3 DEF TextViewDidEndEditing, ProcessImageSuggestions
<1>4. CASE FillPanel
  <2>1. /\ refilled' = TRUE
        /\ UNCHANGED <<newMemoryImage, choice, slip, stage, saved, finger, aimed, picking>>
    BY <1>4 DEF FillPanel
  <2> QED
    BY <2>1 DEF Picture, PictureIsChoice, TouchedIsAimed, DoneIsDone, SavedPictureIsChoice
<1>5. ASSUME NEW i \in 1..Slots, TouchSuggestion(i)
      PROVE  Picture'
  <2>1. /\ stage = "editing" /\ finger' = i /\ aimed' = imageSuggestionViews[i]
        /\ UNCHANGED <<newMemoryImage, choice, slip, stage, saved, imageSuggestionViews, picking>>
    BY <1>5 DEF TouchSuggestion, Editing
  <2> QED
    BY <2>1 DEF Picture, PictureIsChoice, TouchedIsAimed, DoneIsDone, SavedPictureIsChoice
<1>6. CASE SuggestionTapped
  BY <1>6, PictureTap
<1>7. CASE UIImageTapped
  BY <1>1, <1>7 DEF UIImageTapped, Editing
<1>8. ASSUME NEW p \in Library, DidFinishPicking(p)
      PROVE  Picture'
  <2>1. /\ newMemoryImage' = p /\ choice' = p /\ ~picking' /\ picking
        /\ UNCHANGED <<stage, saved, finger, aimed, refilled, imageSuggestionViews>>
    BY <1>8 DEF DidFinishPicking
  <2> QED
    BY <2>1 DEF Picture, PictureIsChoice, TouchedIsAimed, DoneIsDone, SavedPictureIsChoice
<1>9. CASE Save
  BY <1>9, PictureSave
<1>10. CASE Cancel
  <2>1. /\ finger = 0 /\ ~picking /\ stage' = "cancelled"
        /\ UNCHANGED <<newMemoryImage, choice, slip, picking, finger, saved>>
    BY <1>10 DEF Cancel, Editing
  <2> QED
    BY <2>1 DEF Picture, PictureIsChoice, TouchedIsAimed, DoneIsDone, SavedPictureIsChoice
<1> QED
  BY <1>2, <1>3, <1>4, <1>5, <1>6, <1>7, <1>8, <1>9, <1>10 DEF Next

-----------------------------------------------------------------------------
LEMMA ConsistentStep ==
  ASSUME Consistent, [Next]_vars
  PROVE  Consistent'
<1>1. CASE Next
  <2>1. TypeOK /\ Panel /\ Picture
    BY DEF Consistent, Panel, Picture
  <2>2. TypeOK' /\ Panel' /\ Picture'
    BY <1>1, <2>1, TypeStep, PanelStep, PictureStep DEF Panel
  <2> QED
    BY <2>2 DEF Consistent, Panel, Picture
<1>2. CASE UNCHANGED vars
  <2>1. TypeOK'
    BY <1>2 DEF vars, serviceVars, panelVars, pictureVars, touchVars, Consistent, TypeOK
  <2>2. QueueIsAnswers' /\ PanelIsAnswer' /\ LatestIsLast'
    BY <1>2 DEF vars, serviceVars, panelVars, pictureVars, touchVars, Consistent,
                QueueIsAnswers, PanelIsAnswer, LatestIsLast, Shows
  <2>3. PictureIsChoice' /\ TouchedIsAimed' /\ DoneIsDone' /\ SavedPictureIsChoice'
    BY <1>2 DEF vars, serviceVars, panelVars, pictureVars, touchVars, Consistent,
                PictureIsChoice, TouchedIsAimed, DoneIsDone, SavedPictureIsChoice
  <2> QED
    BY <2>1, <2>2, <2>3 DEF Consistent
<1> QED
  BY <1>1, <1>2

(* The inductive invariant: everything Consistent says holds always. *)
THEOREM ConsistentAlways == Spec => []Consistent
<1>1. Init => Consistent
  <2> SUFFICES ASSUME Init PROVE Consistent
    OBVIOUS
  <2>1. /\ mainQueue = <<>> /\ panelHidden = TRUE /\ latest = NoRequest /\ finger = 0
        /\ picking = FALSE /\ stage = "editing" /\ newMemoryImage = choice
    BY DEF Init
  <2>2. TypeOK
    <3>1. 0 \in 0..Slots /\ mainQueue \in Seq(Rows)
      BY <2>1, SlotsAssumption
    <3>2. /\ status \in [Requests -> {"new", "asked", "answered"}]
          /\ answer \in [Requests -> SUBSET Assets]
      BY DEF Init, Service!Init
    <3>3. /\ typing \in BOOLEAN /\ picking \in BOOLEAN /\ panelHidden \in BOOLEAN
          /\ refilled \in BOOLEAN /\ overtaken \in BOOLEAN /\ died \in BOOLEAN
      BY DEF Init, Service!Init
    <3>4. /\ imageSuggestionViews \in [1..Slots -> Assets \cup {NoImage}]
          /\ newMemoryImage \in Pictures /\ choice \in Pictures /\ aimed \in Pictures
          /\ saved \in Pictures
      BY DEF Init, Pictures
    <3>5. latest \in Requests \cup {NoRequest} /\ slip = "none"
      BY DEF Init
    <3> QED
      BY <2>1, <3>1, <3>2, <3>3, <3>4, <3>5 DEF TypeOK
  <2>3. QueueIsAnswers /\ PanelIsAnswer /\ LatestIsLast
    BY <2>1 DEF QueueIsAnswers, PanelIsAnswer, LatestIsLast
  <2>4. PictureIsChoice /\ TouchedIsAimed /\ DoneIsDone /\ SavedPictureIsChoice
    BY <2>1 DEF PictureIsChoice, TouchedIsAimed, DoneIsDone, SavedPictureIsChoice
  <2> QED
    BY <2>2, <2>3, <2>4 DEF Consistent
<1> QED
  BY <1>1, ConsistentStep, PTL DEF Spec

(* The types. *)
THEOREM TypeCorrect == Spec => []TypeOK
<1>1. Consistent => TypeOK
  BY DEF Consistent
<1> QED
  BY <1>1, ConsistentAlways, PTL

(* The panel at rest is for the last text. *)
THEOREM PanelIsForTextAlways == Spec => []PanelIsForText
<1>1. Consistent => PanelIsForText
  BY DEF Consistent, LatestIsLast, PanelIsForText
<1> QED
  BY <1>1, ConsistentAlways, PTL

(* A panel that shows offers photos of one text. *)
THEOREM PanelOffersPhotosAlways == Spec => []PanelOffersPhotos
<1>1. Consistent => PanelOffersPhotos
  BY DEF Consistent, PanelIsAnswer, PanelOffersPhotos
<1> QED
  BY <1>1, ConsistentAlways, PTL

(* The memory is saved with the picture the user took. *)
THEOREM SavedPictureIsChoiceAlways == Spec => []SavedPictureIsChoice
<1>1. Consistent => SavedPictureIsChoice
  BY DEF Consistent
<1> QED
  BY <1>1, ConsistentAlways, PTL
-----------------------------------------------------------------------------
(* What the panel makes of the provider's promise. *)

\* The panel asks and is answered as SuggestionService has it.
UsesService == Service!Spec

\* A photo has a tag in common with the key phrases of a text that was answered.
Suggested(picture) ==
    \E r \in Requests : status[r] = "answered" /\ Service!Relevant(r, picture)

\* A picture of the user's own, none, or a photo the provider found.
Fitting(picture) == picture \in Library \cup {Placeholder, NoImage} \/ Suggested(picture)

AnswersAreRelevant == \A r \in Requests : \A a \in answer[r] : Service!Relevant(r, a)

PicturesFit ==
    /\ Fitting(newMemoryImage) /\ Fitting(saved) /\ saved # Placeholder
    /\ \A i \in 1..Slots : Fitting(imageSuggestionViews[i])

\* A panel that shows offers photos relevant to one and the same text.
PanelIsRelevant ==
    ~panelHidden =>
        \E r \in Requests :
            /\ status[r] = "answered"
            /\ \A i \in 1..Slots :
                   imageSuggestionViews[i] # NoImage => Service!Relevant(r, imageSuggestionViews[i])

\* Which steps are the provider's.
LEMMA ServiceStep ==
  ASSUME TypeOK, [Next]_vars
  PROVE  [Service!Next]_(Service!vars)
<1> USE DEF serviceVars, Service!vars, Service!Next
<1>1. ASSUME NEW r \in Requests, Suggest(r) PROVE Service!Next
  BY <1>1 DEF Suggest
<1>2. ASSUME NEW r \in Requests, TextViewDidEndEditing(r) \/ ProcessImageSuggestions(r)
      PROVE  Service!Next
  BY <1>1, <1>2 DEF TextViewDidEndEditing, ProcessImageSuggestions
<1>3. CASE UIImageTapped
  BY <1>1, <1>3 DEF UIImageTapped
<1>4. TextViewDidBeginEditing \/ FillPanel \/ SuggestionTapped \/ TouchCancelled
      \/ PickerDidCancel \/ Save \/ Cancel \/ UNCHANGED vars => UNCHANGED serviceVars
  BY DEF TextViewDidBeginEditing, FillPanel, SuggestionTapped, TouchCancelled, PickerDidCancel,
         Save, Cancel, vars
<1>5. /\ \A i \in 1..Slots : TouchSuggestion(i) => UNCHANGED serviceVars
      /\ \A p \in Library : DidFinishPicking(p) => UNCHANGED serviceVars
  BY DEF TouchSuggestion, DidFinishPicking
<1>6. AppDies => Service!Next
  BY DEF AppDies
<1> QED
  BY <1>2, <1>3, <1>4, <1>5, <1>6 DEF Next

(* The panel uses the provider by what SuggestionService promises and no    *)
(* more: each text is asked for once, and answered once.  Implements of     *)
(* ImageSuggestions_proofs shows that the provider keeps this promise; the  *)
(* panel's theorems need nothing else of it.                                *)
THEOREM PanelUsesService == Spec => UsesService
<1>1. Init => Service!Init
  BY DEF Init
<1> QED
  BY <1>1, ServiceStep, TypeCorrect, PTL DEF Spec, UsesService, Service!Spec

\* A service step forgets no answer, and answers what is relevant.
LEMMA RelevantStep ==
  ASSUME TypeOK, AnswersAreRelevant, [Service!Next]_(Service!vars)
  PROVE  /\ AnswersAreRelevant'
         /\ \A p : Fitting(p) => Fitting(p)'
<1> USE DEF Service!vars
<1>0. status \in [Requests -> {"new", "asked", "answered"}] /\ answer \in [Requests -> SUBSET Assets]
  BY DEF TypeOK
<1>1. ASSUME NEW r \in Requests, Service!Ask(r)
      PROVE  /\ UNCHANGED answer
             /\ \A q \in Requests : status[q] = "answered" => status'[q] = "answered"
  BY <1>0, <1>1 DEF Service!Ask
<1>2. ASSUME NEW r \in Requests, Service!Answer(r)
      PROVE  /\ AnswersAreRelevant'
             /\ \A q \in Requests : status[q] = "answered" => status'[q] = "answered"
  <2>1. PICK S \in SUBSET {a \in Assets : Service!Relevant(r, a)} :
            answer' = [answer EXCEPT ![r] = S]
    BY <1>2 DEF Service!Answer
  <2>2. AnswersAreRelevant'
    <3>1. \A q \in Requests : answer'[q] = IF q = r THEN S ELSE answer[q]
      BY <1>0, <2>1
    <3> QED
      BY <2>1, <3>1 DEF AnswersAreRelevant, Service!Relevant
  <2> QED
    BY <1>0, <1>2, <2>2 DEF Service!Answer
<1>3. /\ AnswersAreRelevant'
      /\ \A q \in Requests : status[q] = "answered" => status'[q] = "answered"
  BY <1>1, <1>2 DEF Service!Die, Service!Next, AnswersAreRelevant, Service!Relevant
<1> QED
  BY <1>3 DEF Fitting, Suggested, Service!Relevant

\* A block fills the panel with photos of one answer.
LEMMA FillFits ==
  ASSUME Consistent, AnswersAreRelevant, PicturesFit, FillPanel
  PROVE  \A i \in 1..Slots : Fitting(imageSuggestionViews'[i])
<1>1. PICK r \in Requests : /\ status[r] = "answered" /\ answer[r] \subseteq Assets
                            /\ Head(mainQueue) \in Offers(answer[r])
  BY BlockFacts DEF Consistent
<1>2. CASE imageSuggestionViews' = Filled(Head(mainQueue))
  <2>1. \A i \in 1..Slots : imageSuggestionViews'[i] \in answer[r] \cup {NoImage}
    BY <1>1, <1>2, FilledShows
  <2> QED
    BY <1>1, <2>1 DEF Fitting, Suggested, AnswersAreRelevant
<1>3. CASE UNCHANGED imageSuggestionViews
  BY <1>3 DEF PicturesFit
<1> QED
  BY <1>2, <1>3 DEF FillPanel, panelVars

LEMMA FitStep ==
  ASSUME Consistent, AnswersAreRelevant, PicturesFit, [Next]_vars
  PROVE  AnswersAreRelevant' /\ PicturesFit'
<1>0. TypeOK /\ AnswersAreRelevant' /\ \A p : Fitting(p) => Fitting(p)'
  BY ServiceStep, RelevantStep DEF Consistent
<1> USE DEF serviceVars, panelVars, pictureVars, touchVars
<1>1. ASSUME Fitting(newMemoryImage'), Fitting(saved'), saved' # Placeholder,
             \A i \in 1..Slots : Fitting(imageSuggestionViews'[i])
      PROVE  PicturesFit'
  BY <1>0, <1>1 DEF PicturesFit, Fitting, Suggested
<1>2. /\ Fitting(newMemoryImage) /\ Fitting(saved) /\ Fitting(NoImage) /\ saved # Placeholder
      /\ \A p \in Library : Fitting(p)
      /\ \A i \in 1..Slots : Fitting(imageSuggestionViews[i])
  BY DEF PicturesFit, Fitting
<1>3. CASE FillPanel
  <2>1. \A i \in 1..Slots : Fitting(imageSuggestionViews'[i])
    BY <1>3, FillFits
  <2>2. UNCHANGED <<newMemoryImage, saved>>
    BY <1>3 DEF FillPanel
  <2> QED
    BY <1>0, <1>1, <1>2, <2>1, <2>2
<1>4. CASE SuggestionTapped
  <2>1. finger \in 1..Slots
    <3>1. finger \in 0..Slots
      BY <1>0 DEF TypeOK
    <3>2. finger # 0
      BY <1>4 DEF SuggestionTapped
    <3> QED
      BY <3>1, <3>2, SlotsAssumption
  <2>2. newMemoryImage' = imageSuggestionViews[finger] /\ UNCHANGED <<imageSuggestionViews, saved>>
    BY <1>4 DEF SuggestionTapped
  <2> QED
    BY <1>0, <1>1, <1>2, <2>1, <2>2
<1>5. ASSUME NEW picked \in Library, DidFinishPicking(picked)
      PROVE  PicturesFit'
  <2>1. newMemoryImage' = picked /\ UNCHANGED <<imageSuggestionViews, saved>>
    BY <1>5 DEF DidFinishPicking
  <2> QED
    BY <1>0, <1>1, <1>2, <2>1
<1>6. CASE Save
  <2>1. saved' \in {NoImage, newMemoryImage} /\ UNCHANGED <<imageSuggestionViews, newMemoryImage>>
    BY <1>6 DEF Save
  <2>2. saved' # Placeholder
    BY <1>6, PicturesAssumption DEF Save
  <2> QED
    BY <1>0, <1>1, <1>2, <2>1, <2>2
<1>7. CASE UNCHANGED <<newMemoryImage, saved, imageSuggestionViews>>
  BY <1>0, <1>1, <1>2, <1>7
<1>8. TextViewDidBeginEditing \/ TouchCancelled \/ UIImageTapped \/ PickerDidCancel \/ Cancel
      \/ AppDies \/ UNCHANGED vars => UNCHANGED <<newMemoryImage, saved, imageSuggestionViews>>
  BY DEF TextViewDidBeginEditing, TouchCancelled, UIImageTapped, PickerDidCancel, Cancel, AppDies,
         vars
<1>9. /\ \A r \in Requests : TextViewDidEndEditing(r) \/ ProcessImageSuggestions(r)
             => UNCHANGED <<newMemoryImage, saved, imageSuggestionViews>>
      /\ \A i \in 1..Slots : TouchSuggestion(i)
             => UNCHANGED <<newMemoryImage, saved, imageSuggestionViews>>
  BY DEF TextViewDidEndEditing, ProcessImageSuggestions, TouchSuggestion
<1> QED
  BY <1>0, <1>3, <1>4, <1>5, <1>6, <1>7, <1>8, <1>9 DEF Next

LEMMA FitsAlways == Spec => [](Consistent /\ AnswersAreRelevant /\ PicturesFit)
<1>1. Init => AnswersAreRelevant /\ PicturesFit
  BY PicturesAssumption DEF Init, Service!Init, AnswersAreRelevant, PicturesFit, Fitting
<1> QED
  BY <1>1, FitStep, ConsistentAlways, PTL DEF Spec

(* Every photo of a panel that shows is relevant to the same text: with the *)
(* blocks of several answers in the queue, the panel never shows a mixture. *)
THEOREM PanelIsAlwaysRelevant == Spec => []PanelIsRelevant
<1>1. Consistent /\ AnswersAreRelevant => PanelIsRelevant
  BY DEF Consistent, PanelIsAnswer, AnswersAreRelevant, PanelIsRelevant
<1> QED
  BY <1>1, FitsAlways, PTL

(* A memory's picture is the user's own or was suggested for a text of      *)
(* theirs, also if the panel was filled anew under the finger.              *)
SavedPictureFits == stage = "saved" => saved \in Library \cup {NoImage} \/ Suggested(saved)

(* No photo the provider did not find gets into a memory.                   *)
THEOREM SavedPictureAlwaysFits == Spec => []SavedPictureFits
<1>1. PicturesFit => SavedPictureFits
  BY DEF PicturesFit, Fitting, SavedPictureFits
<1> QED
  BY <1>1, FitsAlways, PTL
=============================================================================
