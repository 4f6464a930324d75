-------------------------- MODULE NewMemoryEditor --------------------------
(***************************************************************************)
(* Writing one memory (NewMemoryViewController.swift): the title and text  *)
(* fields, the Save button, the pop up with its five faces over a blur,    *)
(* and the sentiment, which two threads write - the face the user taps and *)
(* the replies of Azure, one for each time the pop up was brought up.  The *)
(* score of a reply (SentimentAnalyzer.swift) is the mean of the scores of *)
(* its sentences.  It is computed on URLSession's thread, which serves one *)
(* reply at a time: it sets the sentiment and then has the main thread     *)
(* enlarge the face it falls on.  The tap tells an enlarged face, whose    *)
(* sentiment it takes over, from the others, which stand for a fixed one;  *)
(* it reads the sentiment after encoding two pictures, and a reply may     *)
(* come before that.                                                       *)
(***************************************************************************)
EXTENDS Integers

CONSTANTS
    Confidences,  \* what Azure may say of a sentence, in hundredths
    MaxSentences, \* bound: sentences of a reply
    MaxAsks       \* bound: times the pop up is brought up

ASSUME ConfidencesAssumption ==
    Confidences \subseteq {c \in [positive: 0..100, negative: 0..100] :
                              c.positive + c.negative <= 100}
ASSUME MaxSentencesAssumption == MaxSentences \in Nat
ASSUME MaxAsksAssumption == MaxAsks \in Nat

VARIABLES
    focus,       \* the field being edited
    saveEnabled, \* saveMemoryBarButton.isEnabled
    blurs,       \* views with tag 1 over the base view
    popup,       \* newMemorySavePopUpView shows
    reappeared,  \* history: the page came back under a blur that is still there
    asks,        \* requests sent so far
    pending,     \* requests whose reply is not dealt with
    total,       \* of the reply being scored: its sentences' scores so far
    count,       \* and their number
    sentiment,   \* newMemorySentiment
    scored,      \* the reply has set it, its block is not queued yet
    refreshes,   \* blocks waiting on the main queue to enlarge a face
    enlarged,    \* the face in font 65, 0 for none
    tap,         \* the touch on a face the main thread is at
    stage,       \* what became of the memory
    saved        \* the memory handed to the list

pageVars == <<focus, saveEnabled, blurs, popup, reappeared>>
analysisVars == <<asks, pending, total, count, sentiment, scored, refreshes, enlarged>>
memoryVars == <<tap, stage, saved>>
vars == <<pageVars, analysisVars, memoryVars>>

Faces == 1..5

\* What a face stands for.
FaceValue(f) == 20 * f - 10

\* Mutant: the last range takes 100 in.
FaceOf_Hundred(s) == IF s \in 0..100 THEN s \div 20 + 1 ELSE 0

\* The face a sentiment falls on.  80..<100 is the last range: 100 falls on none.
FaceOf(s) == IF s \in 0..99 THEN s \div 20 + 1 ELSE 0

\* The face the list shows for a memory of sentiment s: the ends are open.
SentimentEmoji(s) == IF s < 20 THEN 1 ELSE IF s >= 80 THEN 5 ELSE s \div 20 + 1

\* Scores.mixed: Int((positive - negative + 1) * 50), of hundredths.
Mixed(c) == ((c.positive - c.negative + 100) * 50) \div 100

\* Mutant: the sum is not divided.
Score_Sum(sum, sentences) == sum

\* SentimentAnalysisResult.score, Int() rounding towards zero.
Score(sum, sentences) == sum \div sentences

Unset == -5
NoTap == [face |-> 0, overridden |-> FALSE, raced |-> FALSE]
Unsaved == [sentiment |-> Unset, face |-> 0, raced |-> FALSE]

TypeOK ==
    /\ focus \in {"none", "title", "content"}
    /\ saveEnabled \in BOOLEAN /\ popup \in BOOLEAN /\ reappeared \in BOOLEAN
    /\ blurs \in 0..MaxAsks /\ asks \in 0..MaxAsks
    /\ pending \in 0..MaxAsks /\ refreshes \in 0..MaxAsks
    /\ total \in Nat /\ count \in 0..MaxSentences
    /\ sentiment \in Int /\ scored \in BOOLEAN
    /\ enlarged \in Faces \cup {0}
    /\ tap \in [face: Faces \cup {0}, overridden: BOOLEAN, raced: BOOLEAN]
    /\ stage \in {"editing", "saved", "cancelled", "crashed"}
    /\ saved \in [sentiment: Int, face: Faces \cup {0}, raced: BOOLEAN]

Init ==
    /\ focus = "none" /\ saveEnabled = FALSE /\ blurs = 0 /\ popup = FALSE
    /\ reappeared = FALSE
    /\ asks = 0 /\ pending = 0 /\ total = 0 /\ count = 0
    /\ sentiment = Unset /\ scored = FALSE /\ refreshes = 0 /\ enlarged = 0
    /\ tap = NoTap /\ stage = "editing" /\ saved = Unsaved

-----------------------------------------------------------------------------
\* The main thread runs one handler to its end before the next.
Idle == tap = NoTap
Editing == stage = "editing" /\ Idle

(* Fields, which a blur covers.  Going from one to the other ends the first. *)

BeginTitle ==
    /\ Editing /\ blurs = 0 /\ focus # "title"
    /\ focus' = "title"
    /\ saveEnabled' = FALSE
    /\ UNCHANGED <<blurs, popup, reappeared, analysisVars, memoryVars>>

EndTitle ==
    /\ Editing /\ focus = "title"
    /\ focus' = "none"
    /\ saveEnabled' = TRUE
    /\ UNCHANGED <<blurs, popup, reappeared, analysisVars, memoryVars>>

BeginContent ==
    /\ Editing /\ blurs = 0 /\ focus # "content"
    /\ focus' = "content"
    /\ saveEnabled' = (saveEnabled \/ focus = "title")
    /\ UNCHANGED <<blurs, popup, reappeared, analysisVars, memoryVars>>

EndContent ==
    /\ Editing /\ focus = "content"
    /\ focus' = "none"
    /\ UNCHANGED <<saveEnabled, blurs, popup, reappeared, analysisVars, memoryVars>>

\* Back from the image picker; viewDidAppear, if the picker covered the screen.
\* No blur is up then: it would cover the picture that was tapped.
PickImage ==
    /\ Editing /\ blurs = 0
    /\ focus' = IF focus = "content" THEN "none" ELSE focus
    /\ popup' \in {popup, FALSE}
    /\ UNCHANGED <<saveEnabled, blurs, reappeared, analysisVars, memoryVars>>

\* viewDidAppear, on the way back from another tab: the page is pushed under the
\* tab bar.  The pop up goes, a blur that was up with it stays.
Reappear ==
    /\ Editing
    /\ popup' = FALSE
    /\ reappeared' = (blurs > 0)
    /\ UNCHANGED <<focus, saveEnabled, blurs, analysisVars, memoryVars>>

-----------------------------------------------------------------------------
(* The pop up. *)

BringUpSavePopUpView ==
    /\ Editing /\ saveEnabled
    /\ asks < MaxAsks
    /\ asks' = asks + 1
    /\ pending' = pending + 1
    /\ popup' = TRUE
    /\ blurs' = blurs + 1
    /\ reappeared' = FALSE
    /\ saveEnabled' = FALSE
    /\ UNCHANGED <<focus, total, count, sentiment, scored, refreshes, enlarged, memoryVars>>

\* Mutant: only one blur is taken away.
TouchesEnded_OneBlur(tag) ==
    /\ popup' = (popup /\ tag # 1)
    /\ blurs' = IF blurs > 0 THEN blurs - 1 ELSE 0
    /\ reappeared' = FALSE
    /\ saveEnabled' = TRUE
    /\ UNCHANGED <<focus, analysisVars, memoryVars>>

\* touchesEnded, by the tag of the view under the finger: every blur goes and
\* Save is enabled, but the pop up goes only for a touch on a blur.
TouchesEnded(tag) ==
    /\ popup' = (popup /\ tag # 1)
    /\ blurs' = 0
    /\ reappeared' = FALSE
    /\ saveEnabled' = TRUE
    /\ UNCHANGED <<focus, analysisVars, memoryVars>>

\* A blur, as long as there is one, lies over everything but the pop up.
TapOutside == Editing /\ TouchesEnded(IF blurs > 0 THEN 1 ELSE 0)

TapPopup == Editing /\ popup /\ TouchesEnded(0)

-----------------------------------------------------------------------------
(* The sentiment: the replies. *)

\* URLSession's thread, at the reply that has its turn.
Reading == stage # "crashed" /\ pending > 0 /\ ~scored

\* One round of the reduce over the sentences of the reply.
ScoreSentence(c) ==
    /\ Reading
    /\ count < MaxSentences
    /\ total' = total + Mixed(c)
    /\ count' = count + 1
    /\ UNCHANGED <<pageVars, asks, pending, sentiment, scored, refreshes, enlarged, memoryVars>>

\* The reply has no more sentences.  The main thread may be at a tap meanwhile.
AnalysisReplies ==
    /\ Reading /\ count > 0
    /\ sentiment' = Score(total, count)
    /\ scored' = TRUE
    /\ total' = 0 /\ count' = 0
    /\ tap' = [tap EXCEPT !.raced = tap.face # 0]
    /\ UNCHANGED <<pageVars, asks, pending, refreshes, enlarged, stage, saved>>

\* try! result.get() of a failure, and Int(0.0 / 0.0) of a reply without sentences.
AnalysisTraps ==
    /\ Reading /\ count = 0
    /\ stage' = "crashed"
    /\ UNCHANGED <<pageVars, analysisVars, tap, saved>>

\* DispatchQueue.main.async, the next line of the same thread.
EnqueueRefresh ==
    /\ stage # "crashed" /\ scored
    /\ scored' = FALSE
    /\ pending' = pending - 1
    /\ refreshes' = refreshes + 1
    /\ UNCHANGED <<pageVars, asks, total, count, sentiment, enlarged, memoryVars>>

\* Mutant: the faces keep their size from one reply to the next.
Refresh_AddsOnly ==
    /\ stage # "crashed" /\ Idle /\ refreshes > 0
    /\ refreshes' = refreshes - 1
    /\ enlarged' = IF enlarged = 0 THEN FaceOf(sentiment) ELSE enlarged
    /\ UNCHANGED <<pageVars, asks, pending, total, count, sentiment, scored, memoryVars>>

\* On the main queue: all faces small, then the one the sentiment falls on by now.
Refresh ==
    /\ stage # "crashed" /\ Idle /\ refreshes > 0
    /\ refreshes' = refreshes - 1
    /\ enlarged' = FaceOf(sentiment)
    /\ UNCHANGED <<pageVars, asks, pending, total, count, sentiment, scored, memoryVars>>

-----------------------------------------------------------------------------
(* The sentiment: the tap.  A face has two connections for the same touch,  *)
(* in no order the code fixes: the override, which sets the sentiment, and  *)
(* the segue, whose prepare does so too unless the face is enlarged, then   *)
(* encodes two pictures, and then reads the sentiment.                      *)

\* A reply not shown yet may have set the sentiment prepare leaves as it is.
TouchFace(f, overridden) ==
    /\ Editing /\ popup
    /\ LET kept == ~overridden /\ enlarged = f
       IN  /\ sentiment' = IF kept THEN sentiment ELSE FaceValue(f)
           /\ tap' = [face |-> f, overridden |-> overridden,
                      raced |-> kept /\ (scored \/ refreshes > 0)]
    /\ UNCHANGED <<pageVars, asks, pending, total, count, scored, refreshes, enlarged,
                   stage, saved>>

\* prepare's last line, and the override if it comes second.
MakeMemory ==
    /\ stage = "editing" /\ tap.face # 0
    /\ saved' = [sentiment |-> sentiment, face |-> tap.face, raced |-> tap.raced]
    /\ sentiment' = IF tap.overridden THEN sentiment ELSE FaceValue(tap.face)
    /\ stage' = "saved"
    /\ tap' = NoTap
    /\ UNCHANGED <<pageVars, asks, pending, total, count, scored, refreshes, enlarged>>

Cancel ==
    /\ Editing
    /\ stage' = "cancelled"
    /\ UNCHANGED <<pageVars, analysisVars, tap, saved>>

Next ==
    \/ BeginTitle \/ EndTitle \/ BeginContent \/ EndContent \/ PickImage \/ Reappear
    \/ BringUpSavePopUpView \/ TapOutside \/ TapPopup
    \/ \E c \in Confidences : ScoreSentence(c)
    \/ AnalysisReplies \/ AnalysisTraps \/ EnqueueRefresh \/ Refresh
    \/ \E f \in Faces, overridden \in BOOLEAN : TouchFace(f, overridden)
    \/ MakeMemory \/ Cancel

Spec == Init /\ [][Next]_vars

-----------------------------------------------------------------------------
(* "A value between 0 and 100": whatever Azure says of however many         *)
(* sentences, no reply sets the sentiment to anything else.                 *)
ScoreInRange == sentiment \in 0..100 \cup {Unset}

(* The list shows the saved memory with the face the user tapped, never     *)
(* with another reply's nor with that of the -5 it starts from, whichever   *)
(* of the two connections comes first, although editor and list cut the     *)
(* scores differently - unless a reply wrote the sentiment unseen: between  *)
(* the touch and the reading of it, or before, its face not enlarged yet    *)
(* when the user tapped the old one.                                        *)
SavedAsTapped ==
    stage = "saved" => SentimentEmoji(saved.sentiment) = saved.face \/ saved.raced

(* No touch leaves a blur behind: whatever was touched, and however often   *)
(* the pop up was brought up, where there is a blur there is the pop up,    *)
(* unless the page came back from another tab, which hides the pop up       *)
(* alone; and then the next touch takes every blur away.                    *)
BlurOnlyUnderPopup == blurs > 0 => popup \/ reappeared

(* "Disable the Save button while editing." *)
SaveDisabledWhileEditing == focus = "title" => ~saveEnabled

(* "to dismiss SavePopUpView on tap outside the view and remove blur" *)
TapOutsideDismisses == [][TapOutside => ~popup']_vars
=============================================================================
