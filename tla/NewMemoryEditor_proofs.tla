----------------------- MODULE NewMemoryEditor_proofs -----------------------
(***************************************************************************)
(* For any answers of Azure, of any length, and any number of requests:    *)
(* every score is between 0 and 100, and the face shown for the memory is  *)
(* the face tapped.  The score is in range because the sum it is the mean  *)
(* of never exceeds 100 for each sentence (SumBounded).  What makes        *)
(* SavedAsTapped inductive is that, with no reply unseen, the enlarged     *)
(* face is the one the sentiment falls on, and that this stays so from the *)
(* touch on it to the reading of the sentiment, unless a reply comes.      *)
(***************************************************************************)
EXTENDS NewMemoryEditor, TLAPS

\* No request is answered twice, and each answer queues one block.
Counted == pending + refreshes <= asks /\ (scored => pending > 0)

\* With no reply unseen, the enlarged face is that of the sentiment.
EnlargedIsCurrent ==
    Editing /\ refreshes = 0 /\ ~scored => enlarged = 0 \/ enlarged = FaceOf(sentiment)

\* From the touch on, the sentiment is of the face touched unless a reply came.
TouchedIsCurrent ==
    /\ tap.face = 0 => Idle
    /\ tap.face # 0 /\ ~tap.raced => FaceOf(sentiment) = tap.face

\* Each sentence adds at most 100 to the sum.
SumBounded == total <= 100 * count

Consistent ==
    TypeOK /\ Counted /\ SumBounded /\ ScoreInRange /\ EnlargedIsCurrent
           /\ TouchedIsCurrent /\ SavedAsTapped /\ BlurOnlyUnderPopup /\ blurs <= asks

\* A sentence scores between 0 and 100.
LEMMA MixedInRange == \A c \in Confidences : Mixed(c) \in 0..100
<1> SUFFICES ASSUME NEW c \in Confidences PROVE Mixed(c) \in 0..100
  OBVIOUS
<1>1. c.positive \in 0..100 /\ c.negative \in 0..100 /\ c.positive + c.negative <= 100
  BY ConfidencesAssumption
<1> QED
  BY <1>1 DEF Mixed

\* The mean of numbers up to 100 is one.
LEMMA MeanInRange ==
  ASSUME NEW n \in Nat, n > 0, NEW sum \in Nat, sum <= 100 * n
  PROVE  Score(sum, n) \in 0..100
<1> DEFINE q == sum \div n
<1>1. q \in Int /\ n * q <= sum /\ sum < n * q + n
  OBVIOUS
<1>2. q >= 0
  BY <1>1
<1>3. q <= 100
  BY <1>1
<1> QED
  BY <1>1, <1>2, <1>3 DEF Score

\* The value a face stands for falls on that face.
LEMMA ValueOnFace ==
  \A f \in Faces : FaceValue(f) \in 0..100 /\ FaceOf(FaceValue(f)) = f
<1> SUFFICES ASSUME NEW f \in Faces
             PROVE  FaceValue(f) \in 0..100 /\ FaceOf(FaceValue(f)) = f
  OBVIOUS
<1>1. f = 1 \/ f = 2 \/ f = 3 \/ f = 4 \/ f = 5
  BY DEF Faces
<1> QED
  BY <1>1 DEF FaceValue, FaceOf, Faces

\* Every sentiment falls on a face or on none.
LEMMA FaceInRange == \A s \in Int : FaceOf(s) \in Faces \cup {0}
BY DEF FaceOf, Faces

\* Where the sentiment falls on a face, the list shows that face.
LEMMA EmojiIsFace == \A s \in Int : FaceOf(s) # 0 => SentimentEmoji(s) = FaceOf(s)
BY DEF FaceOf, SentimentEmoji

\* What a step that leaves the sentiment and the memory alone has to keep.
LEMMA ScreenStep ==
  ASSUME Consistent, UNCHANGED <<analysisVars, tap, saved>>, TypeOK',
         stage' \in {stage, "cancelled", "crashed"},
         BlurOnlyUnderPopup', blurs' <= asks
  PROVE  Consistent'
BY DEF Consistent, Counted, SumBounded, ScoreInRange, EnlargedIsCurrent, TouchedIsCurrent,
       SavedAsTapped, Editing, Idle, analysisVars

\* What a step of the other thread has to keep, which leaves the screen alone.
LEMMA ReplyStep ==
  ASSUME Consistent, UNCHANGED <<pageVars, asks, enlarged, stage, saved>>,
         TypeOK', Counted', SumBounded', ScoreInRange', EnlargedIsCurrent', TouchedIsCurrent'
  PROVE  Consistent'
BY DEF Consistent, SavedAsTapped, BlurOnlyUnderPopup, pageVars

LEMMA ConsistentStep ==
  ASSUME Consistent, [Next]_vars
  PROVE  Consistent'
<1> USE MaxAsksAssumption, MaxSentencesAssumption DEF Consistent
<1>0. TypeOK /\ asks \in Nat /\ blurs \in Nat
  BY DEF TypeOK
<1>1. CASE BeginTitle \/ EndTitle \/ BeginContent \/ EndContent \/ Cancel
  <2>1. UNCHANGED <<blurs, popup, reappeared, analysisVars, tap, saved>>
        /\ stage' \in {stage, "cancelled"}
    BY <1>1 DEF BeginTitle, EndTitle, BeginContent, EndContent, Cancel, pageVars, memoryVars
  <2>2. focus' \in {"none", "title", "content"} /\ saveEnabled' \in BOOLEAN
    BY <1>1 DEF BeginTitle, EndTitle, BeginContent, EndContent, Cancel, pageVars, TypeOK
  <2>3. TypeOK'
    BY <2>1, <2>2 DEF TypeOK, analysisVars
  <2>4. BlurOnlyUnderPopup' /\ blurs' <= asks
    BY <2>1 DEF BlurOnlyUnderPopup
  <2> QED
    BY <2>1, <2>3, <2>4, ScreenStep
<1>2. CASE PickImage \/ Reappear
  <2>1. popup' \in BOOLEAN /\ reappeared' \in BOOLEAN /\ focus' \in {"none", "title", "content"}
    <3>1. CASE PickImage
      BY <3>1 DEF PickImage, TypeOK
    <3>2. CASE Reappear
      <4>1. popup' = FALSE /\ reappeared' = (blurs > 0) /\ UNCHANGED focus
        BY <3>2 DEF Reappear
      <4>2. popup' \in BOOLEAN /\ reappeared' \in BOOLEAN
        <5>1. (blurs > 0) \in BOOLEAN /\ FALSE \in BOOLEAN
          OBVIOUS
        <5> QED
          BY <4>1, <5>1, Zenon
      <4> QED
        BY <4>1, <4>2 DEF TypeOK
    <3> QED
      BY <1>2, <3>1, <3>2
  <2>2. UNCHANGED <<saveEnabled, blurs, analysisVars, tap, saved, stage>>
    BY <1>2 DEF PickImage, Reappear, memoryVars
  <2>3. TypeOK'
    BY <2>1, <2>2 DEF TypeOK, analysisVars
  <2>4. BlurOnlyUnderPopup' /\ blurs' <= asks
    <3>1. CASE PickImage
      BY <1>0, <2>2, <3>1 DEF PickImage, BlurOnlyUnderPopup
    <3>2. CASE Reappear
      <4>1. blurs' = blurs /\ (reappeared' <=> blurs > 0)
        BY <3>2 DEF Reappear
      <4> QED
        BY <1>0, <4>1 DEF BlurOnlyUnderPopup
    <3> QED
      BY <1>2, <3>1, <3>2
  <2> QED
    BY <2>2, <2>3, <2>4, ScreenStep
<1>3. CASE BringUpSavePopUpView
  <2>1. /\ asks < MaxAsks /\ asks' = asks + 1 /\ pending' = pending + 1 /\ blurs' = blurs + 1
        /\ UNCHANGED <<focus, total, count, sentiment, scored, refreshes, enlarged, memoryVars>>
    BY <1>3 DEF BringUpSavePopUpView
  <2>2. popup' = TRUE /\ saveEnabled' = FALSE /\ reappeared' = FALSE
    BY <1>3 DEF BringUpSavePopUpView
  <2>3. /\ asks' \in 0..MaxAsks /\ pending' \in 0..MaxAsks /\ blurs' \in 0..MaxAsks
        /\ blurs' <= asks' /\ Counted'
    BY <2>1 DEF TypeOK, Counted
  <2>4. TypeOK'
    BY <2>1, <2>2, <2>3 DEF TypeOK, memoryVars
  <2>5. SumBounded' /\ ScoreInRange' /\ EnlargedIsCurrent' /\ TouchedIsCurrent' /\ SavedAsTapped'
    BY <2>1 DEF SumBounded, ScoreInRange, EnlargedIsCurrent, TouchedIsCurrent, SavedAsTapped,
                Editing, Idle, memoryVars
  <2>6. BlurOnlyUnderPopup'
    BY <2>2 DEF BlurOnlyUnderPopup
  <2> QED
    BY <2>3, <2>4, <2>5, <2>6
<1>4. CASE TapOutside \/ TapPopup
  <2>1. PICK tag \in {0, 1} : TouchesEnded(tag)
    BY <1>4 DEF TapOutside, TapPopup
  <2>2. popup' = (popup /\ tag # 1) /\ saveEnabled' = TRUE /\ blurs' = 0 /\ reappeared' = FALSE
        /\ UNCHANGED <<focus, analysisVars, tap, stage, saved>>
    BY <2>1 DEF TouchesEnded, memoryVars
  <2>3. popup' \in BOOLEAN /\ saveEnabled' \in BOOLEAN /\ reappeared' \in BOOLEAN
    BY <2>2
  <2>3a. blurs' \in 0..MaxAsks /\ UNCHANGED <<focus, analysisVars, tap, stage, saved>>
    BY <2>2
  <2>4. TypeOK'
    BY <2>3, <2>3a DEF TypeOK, analysisVars
  <2>5. BlurOnlyUnderPopup' /\ blurs' <= asks
    BY <1>0, <2>2 DEF BlurOnlyUnderPopup
  <2> QED
    BY <2>2, <2>4, <2>5, ScreenStep
<1>5. ASSUME NEW c \in Confidences, ScoreSentence(c)
      PROVE  Consistent'
  <2>1. /\ count < MaxSentences /\ count' = count + 1 /\ total' = total + Mixed(c)
        /\ UNCHANGED <<pageVars, asks, pending, sentiment, scored, refreshes, enlarged,
                       tap, stage, saved>>
    BY <1>5 DEF ScoreSentence, memoryVars
  <2>2. total \in Nat /\ count \in 0..MaxSentences /\ Mixed(c) \in 0..100
    BY MixedInRange DEF TypeOK
  <2>3. total' \in Nat /\ count' \in 0..MaxSentences /\ SumBounded'
    BY <2>1, <2>2 DEF SumBounded
  <2>4. TypeOK'
    BY <2>1, <2>3 DEF TypeOK, pageVars
  <2>5. Counted' /\ ScoreInRange' /\ EnlargedIsCurrent' /\ TouchedIsCurrent'
    BY <2>1 DEF Counted, ScoreInRange, EnlargedIsCurrent, TouchedIsCurrent, Editing, Idle
  <2> QED
    BY <2>1, <2>3, <2>4, <2>5, ReplyStep
<1>6. CASE AnalysisReplies
  <2>1. /\ count > 0 /\ pending > 0 /\ sentiment' = Score(total, count)
        /\ scored' = TRUE /\ total' = 0 /\ count' = 0
        /\ tap' = [tap EXCEPT !.raced = tap.face # 0]
        /\ UNCHANGED <<pageVars, asks, pending, refreshes, enlarged, stage, saved>>
    BY <1>6 DEF AnalysisReplies, Reading
  <2>2. sentiment' \in 0..100
    BY <2>1, MeanInRange DEF TypeOK, SumBounded
  <2>3. tap' \in [face: Faces \cup {0}, overridden: BOOLEAN, raced: BOOLEAN]
    BY <2>1 DEF TypeOK
  <2>4. TypeOK'
    BY <2>1, <2>2, <2>3 DEF TypeOK, pageVars
  <2>5. Counted' /\ SumBounded' /\ ScoreInRange' /\ EnlargedIsCurrent'
    BY <2>1, <2>2 DEF Counted, SumBounded, ScoreInRange, EnlargedIsCurrent
  <2>6. TouchedIsCurrent'
    <3>1. CASE tap.face = 0
      <4>1. tap = NoTap
        BY <3>1 DEF TouchedIsCurrent, Idle
      <4>2. tap' = NoTap
        BY <2>1, <4>1 DEF NoTap
      <4> QED
        BY <4>2 DEF TouchedIsCurrent, Idle, NoTap
    <3>2. CASE tap.face # 0
      <4>1. tap'.face # 0 /\ tap'.raced
        BY <2>1, <3>2 DEF TypeOK
      <4> QED
        BY <4>1 DEF TouchedIsCurrent
    <3> QED
      BY <3>1, <3>2
  <2> QED
    BY <2>1, <2>4, <2>5, <2>6, ReplyStep
<1>7. CASE AnalysisTraps
  <2>1. UNCHANGED <<pageVars, analysisVars, tap, saved>> /\ stage' = "crashed"
    BY <1>7 DEF AnalysisTraps
  <2>2. TypeOK'
    BY <2>1 DEF TypeOK, analysisVars, pageVars
  <2>3. BlurOnlyUnderPopup' /\ blurs' <= asks
    BY <2>1 DEF BlurOnlyUnderPopup, pageVars
  <2> QED
    BY <2>1, <2>2, <2>3, ScreenStep
<1>8. CASE EnqueueRefresh
  <2>1. /\ scored /\ scored' = FALSE /\ pending' = pending - 1 /\ refreshes' = refreshes + 1
        /\ UNCHANGED <<pageVars, asks, total, count, sentiment, enlarged, tap, stage, saved>>
    BY <1>8 DEF EnqueueRefresh, memoryVars
  <2>2. pending' \in 0..MaxAsks /\ refreshes' \in 1..MaxAsks /\ Counted'
    BY <2>1 DEF TypeOK, Counted
  <2>2a. scored' \in BOOLEAN
    BY <2>1
  <2>2b. UNCHANGED <<pageVars, asks, total, count, sentiment, enlarged, tap, stage, saved>>
    BY <2>1
  <2>3. TypeOK'
    BY <2>2, <2>2a, <2>2b DEF TypeOK, pageVars
  <2>4. SumBounded' /\ ScoreInRange' /\ EnlargedIsCurrent' /\ TouchedIsCurrent'
    BY <2>1, <2>2 DEF SumBounded, ScoreInRange, EnlargedIsCurrent, TouchedIsCurrent, Idle
  <2> QED
    BY <2>1, <2>2, <2>3, <2>4, ReplyStep
<1>9. CASE Refresh
  <2>1. /\ refreshes > 0 /\ refreshes' = refreshes - 1 /\ enlarged' = FaceOf(sentiment)
        /\ UNCHANGED <<pageVars, asks, pending, total, count, sentiment, scored, tap, stage, saved>>
    BY <1>9 DEF Refresh, memoryVars
  <2>2. refreshes' \in 0..MaxAsks /\ enlarged' \in Faces \cup {0}
    BY <2>1, FaceInRange DEF TypeOK
  <2>3. TypeOK'
    BY <2>1, <2>2 DEF TypeOK, pageVars
  <2> QED
    BY <2>1, <2>2, <2>3 DEF Counted, SumBounded, ScoreInRange, EnlargedIsCurrent,
          TouchedIsCurrent, SavedAsTapped, BlurOnlyUnderPopup, Idle, pageVars, TypeOK
<1>10. ASSUME NEW f \in Faces, NEW overridden \in BOOLEAN, TouchFace(f, overridden)
       PROVE  Consistent'
  <2> DEFINE kept == ~overridden /\ enlarged = f
  <2>1. /\ Editing /\ sentiment' = IF kept THEN sentiment ELSE FaceValue(f)
        /\ tap' = [face |-> f, overridden |-> overridden,
                   raced |-> kept /\ (scored \/ refreshes > 0)]
        /\ UNCHANGED <<pageVars, asks, pending, total, count, scored, refreshes, enlarged,
                       stage, saved>>
    BY <1>10 DEF TouchFace
  <2>2. FaceValue(f) \in 0..100 /\ FaceOf(FaceValue(f)) = f /\ f # 0
    BY ValueOnFace DEF Faces
  <2>3. tap'.face = f /\ (tap'.raced <=> kept /\ (scored \/ refreshes > 0))
    BY <2>1
  <2>4. tap' \in [face: Faces \cup {0}, overridden: BOOLEAN, raced: BOOLEAN]
    BY <2>1
  <2>5. TypeOK'
    BY <2>1, <2>2, <2>4 DEF TypeOK, pageVars
  <2>6. ScoreInRange' /\ Counted' /\ SumBounded'
    BY <2>1, <2>2 DEF ScoreInRange, Counted, SumBounded
  <2>7. EnlargedIsCurrent'
    BY <2>2, <2>3 DEF EnlargedIsCurrent, Editing, Idle, NoTap
  <2>8. TouchedIsCurrent'
    <3>1. ~tap'.raced => FaceOf(sentiment') = f
      <4>1. CASE kept /\ ~tap'.raced
        BY <2>1, <2>2, <2>3, <4>1 DEF EnlargedIsCurrent, TypeOK
      <4>2. CASE ~kept
        BY <2>1, <2>2, <4>2
      <4> QED
        BY <4>1, <4>2
    <3> QED
      BY <2>2, <2>3, <3>1 DEF TouchedIsCurrent
  <2> QED
    BY <2>1, <2>5, <2>6, <2>7, <2>8, ReplyStep
<1>11. CASE MakeMemory
  <2>1. /\ stage = "editing" /\ tap.face # 0 /\ stage' = "saved" /\ tap' = NoTap
        /\ saved' = [sentiment |-> sentiment, face |-> tap.face, raced |-> tap.raced]
        /\ sentiment' = IF tap.overridden THEN sentiment ELSE FaceValue(tap.face)
        /\ UNCHANGED <<pageVars, asks, pending, total, count, scored, refreshes, enlarged>>
    BY <1>11 DEF MakeMemory
  <2>2. tap.face \in Faces /\ tap.raced \in BOOLEAN /\ sentiment \in Int
    BY <2>1 DEF TypeOK
  <2>3. FaceValue(tap.face) \in 0..100
    BY <2>2, ValueOnFace
  <2>4. saved' \in [sentiment: Int, face: Faces \cup {0}, raced: BOOLEAN]
    BY <2>1, <2>2
  <2>5. tap' \in [face: Faces \cup {0}, overridden: BOOLEAN, raced: BOOLEAN]
    BY <2>1 DEF NoTap
  <2>6. TypeOK'
    BY <2>1, <2>2, <2>3, <2>4, <2>5 DEF TypeOK, pageVars
  <2>7. SavedAsTapped'
    <3>1. ~tap.raced => SentimentEmoji(sentiment) = tap.face
      BY <2>1, <2>2, EmojiIsFace DEF TouchedIsCurrent, Faces
    <3> QED
      BY <2>1, <3>1 DEF SavedAsTapped
  <2>8. Counted' /\ SumBounded' /\ ScoreInRange' /\ EnlargedIsCurrent' /\ TouchedIsCurrent'
    BY <2>1, <2>3 DEF Counted, SumBounded, ScoreInRange, EnlargedIsCurrent, TouchedIsCurrent,
                      Editing, Idle, NoTap
  <2>9. BlurOnlyUnderPopup' /\ blurs' <= asks'
    BY <2>1 DEF BlurOnlyUnderPopup, pageVars
  <2> QED
    BY <2>6, <2>7, <2>8, <2>9
<1>12. CASE UNCHANGED vars
  <2>1. UNCHANGED <<pageVars, analysisVars, tap, stage, saved>>
    BY <1>12 DEF vars, memoryVars
  <2>2. TypeOK' /\ BlurOnlyUnderPopup' /\ blurs' <= asks
    BY <2>1 DEF TypeOK, BlurOnlyUnderPopup, pageVars, analysisVars
  <2> QED
    BY <2>1, <2>2, ScreenStep
<1> QED
  BY <1>1, <1>2, <1>3, <1>4, <1>5, <1>6, <1>7, <1>8, <1>9, <1>10, <1>11, <1>12 DEF Next

(* The inductive invariant: everything Consistent says holds always. *)
THEOREM ConsistentAlways == Spec => []Consistent
<1>1. Init => Consistent
  <2> SUFFICES ASSUME Init PROVE Consistent
    OBVIOUS
  <2>1. saved \in [sentiment: Int, face: Faces \cup {0}, raced: BOOLEAN]
    BY DEF Init, Unsaved, Unset
  <2>2. tap \in [face: Faces \cup {0}, overridden: BOOLEAN, raced: BOOLEAN]
    BY DEF Init, NoTap
  <2>3. TypeOK
    <3>1. 0 \in 0..MaxAsks /\ 0 \in 0..MaxSentences
      BY MaxAsksAssumption, MaxSentencesAssumption
    <3>2. /\ popup \in BOOLEAN /\ saveEnabled \in BOOLEAN /\ reappeared \in BOOLEAN
          /\ scored \in BOOLEAN
      BY DEF Init
    <3> QED
      BY <2>1, <2>2, <3>1, <3>2 DEF Init, TypeOK, Unset
  <2>4. blurs = 0 /\ asks = 0 /\ pending = 0 /\ refreshes = 0 /\ enlarged = 0 /\ stage = "editing"
        /\ total = 0 /\ count = 0 /\ sentiment = Unset /\ ~scored /\ tap = NoTap
    BY DEF Init
  <2>5. TouchedIsCurrent
    BY <2>4 DEF TouchedIsCurrent, Idle, NoTap
  <2> QED
    BY <2>3, <2>4, <2>5 DEF Consistent, Counted, SumBounded, ScoreInRange, EnlargedIsCurrent,
                            SavedAsTapped, BlurOnlyUnderPopup
<1> QED
  BY <1>1, ConsistentStep, PTL DEF Spec

(* The types. *)
THEOREM TypeCorrect == Spec => []TypeOK
<1>1. Consistent => TypeOK
  BY DEF Consistent
<1> QED
  BY <1>1, ConsistentAlways, PTL

(* Every score is between 0 and 100, whatever the sentences are. *)
THEOREM ScoreInRangeAlways == Spec => []ScoreInRange
<1>1. Consistent => ScoreInRange
  BY DEF Consistent
<1> QED
  BY <1>1, ConsistentAlways, PTL

(* The list shows the memory with the face tapped, unless a reply wrote the *)
(* sentiment unseen: for any replies, at any moment of editing and tapping.  *)
THEOREM SavedAsTappedAlways == Spec => []SavedAsTapped
<1>1. Consistent => SavedAsTapped
  BY DEF Consistent
<1> QED
  BY <1>1, ConsistentAlways, PTL

(* No touch leaves a blur behind: one without its pop up is there only when *)
(* the page came back from another tab, and until the next touch.           *)
THEOREM NoTouchLeavesABlur == Spec => []BlurOnlyUnderPopup
<1>1. Consistent => BlurOnlyUnderPopup
  BY DEF Consistent
<1> QED
  BY <1>1, ConsistentAlways, PTL
-----------------------------------------------------------------------------
(* The score that is stored. *)

\* A face is enlarged, or about to be, only for a sentiment that was scored, and
\* from the touch on the sentiment is no longer the -5 either.
ScoredBeforeShown ==
    enlarged # 0 \/ refreshes > 0 \/ scored \/ tap.face # 0 => sentiment # Unset

\* The memory handed to the list has a score, and not the -5 it starts from.
SavedScoreInRange == stage = "saved" => saved.sentiment \in 0..100

LEMMA SavedScoreStep ==
  ASSUME Consistent, ScoredBeforeShown, SavedScoreInRange, [Next]_vars
  PROVE  ScoredBeforeShown' /\ SavedScoreInRange'
<1>1. CASE /\ UNCHANGED <<sentiment, enlarged, refreshes, scored, tap, saved>>
           /\ stage' \in {stage, "cancelled", "crashed"}
  BY <1>1 DEF ScoredBeforeShown, SavedScoreInRange
<1>2. CASE AnalysisReplies
  <2>1. /\ sentiment' = Score(total, count) /\ count > 0
        /\ UNCHANGED <<saved, stage>>
    BY <1>2 DEF AnalysisReplies
  <2>2. sentiment' \in 0..100
    BY <2>1, MeanInRange, MaxSentencesAssumption DEF Consistent, TypeOK, SumBounded
  <2> QED
    BY <2>1, <2>2 DEF ScoredBeforeShown, SavedScoreInRange, Unset
<1>3. CASE Refresh
  <2>1. sentiment # Unset /\ UNCHANGED <<sentiment, saved, stage>>
    BY <1>3 DEF Refresh, ScoredBeforeShown, memoryVars
  <2> QED
    BY <2>1 DEF ScoredBeforeShown, SavedScoreInRange
<1>4. CASE EnqueueRefresh
  <2>1. sentiment # Unset /\ UNCHANGED <<sentiment, saved, stage>>
    BY <1>4 DEF EnqueueRefresh, ScoredBeforeShown, memoryVars
  <2> QED
    BY <2>1 DEF ScoredBeforeShown, SavedScoreInRange
<1>5. ASSUME NEW f \in Faces, NEW overridden \in BOOLEAN, TouchFace(f, overridden)
      PROVE  ScoredBeforeShown' /\ SavedScoreInRange'
  <2>1. FaceValue(f) \in 0..100 /\ f # 0
    BY ValueOnFace DEF Faces
  <2>2. /\ sentiment' = FaceValue(f) \/ (sentiment' = sentiment /\ enlarged = f)
        /\ UNCHANGED <<saved, stage>>
    BY <1>5 DEF TouchFace
  <2> QED
    BY <2>1, <2>2 DEF ScoredBeforeShown, SavedScoreInRange, Unset
<1>6. CASE MakeMemory
  <2>1. tap.face \in Faces /\ tap.face # 0 /\ saved'.sentiment = sentiment
        /\ (sentiment' = sentiment \/ sentiment' = FaceValue(tap.face))
    BY <1>6 DEF MakeMemory, Consistent, TypeOK
  <2>2. sentiment \in 0..100
    BY <2>1 DEF ScoredBeforeShown, Consistent, ScoreInRange
  <2>3. FaceValue(tap.face) \in 0..100
    BY <2>1, ValueOnFace
  <2> QED
    BY <2>1, <2>2, <2>3 DEF ScoredBeforeShown, SavedScoreInRange, Unset
<1>7. BeginTitle \/ EndTitle \/ BeginContent \/ EndContent \/ PickImage \/ Reappear \/ Cancel
      \/ BringUpSavePopUpView \/ AnalysisTraps \/ UNCHANGED vars
        => /\ UNCHANGED <<sentiment, enlarged, refreshes, scored, tap, saved>>
           /\ stage' \in {stage, "cancelled", "crashed"}
  BY DEF BeginTitle, EndTitle, BeginContent, EndContent, PickImage, Reappear, Cancel,
         BringUpSavePopUpView, AnalysisTraps, vars, analysisVars, memoryVars
<1>8. TapOutside \/ TapPopup
        => UNCHANGED <<sentiment, enlarged, refreshes, scored, tap, saved, stage>>
  BY DEF TapOutside, TapPopup, TouchesEnded, analysisVars, memoryVars
<1>9. \A c \in Confidences : ScoreSentence(c)
        => UNCHANGED <<sentiment, enlarged, refreshes, scored, tap, saved, stage>>
  BY DEF ScoreSentence, memoryVars
<1> QED
  BY <1>1, <1>2, <1>3, <1>4, <1>5, <1>6, <1>7, <1>8, <1>9 DEF Next

(* A memory is never stored with the -5 that says there is no score yet,    *)
(* although a face tapped while it is enlarged takes over whatever the      *)
(* sentiment is by then: no face is enlarged before a reply has set it.     *)
THEOREM SavedScoreAlwaysInRange == Spec => []SavedScoreInRange
<1>1. Init => ScoredBeforeShown /\ SavedScoreInRange
  BY DEF Init, ScoredBeforeShown, SavedScoreInRange, NoTap
<1> QED
  BY <1>1, SavedScoreStep, ConsistentAlways, PTL DEF Spec
=============================================================================
