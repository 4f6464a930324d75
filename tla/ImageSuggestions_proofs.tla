---------------------- MODULE ImageSuggestions_proofs ----------------------
(***************************************************************************)
(* For any number of requests and any finite library: the group counts the *)
(* photos still under way, an answer holds exactly the relevant photos     *)
(* that got through, and the provider implements the safety part of        *)
(* SuggestionService.                                                      *)
(*                                                                         *)
(* None of the three is inductive.  That an answer is exact rests on what  *)
(* the array holds at every moment (ImagesAre), which rests on the lock    *)
(* (LockHeld); on the group reaching zero only when every photo has left,  *)
(* hence on the count; on one request having its turn at a time            *)
(* (OneTurn); and on each request being queued once (QueuedOnce).          *)
(***************************************************************************)
EXTENDS ImageSuggestions, FiniteSetTheorems, TLAPS

Busy(a) == step[a] \in {"loading", "tagging", "recording", "adding", "appending", "leaving"}

\* The request that has its turn is the one that is running.
OneTurn == \A r \in Requests : stage[r] = "running" <=> current = r

\* The queue holds requests that are queued, each once.
QueuedOnce ==
    /\ \A i \in 1..Len(blockedQueue) : stage[blockedQueue[i]] = "queued"
    /\ \A i, j \in 1..Len(blockedQueue) : blockedQueue[i] = blockedQueue[j] => i = j

\* Between two turns no photo is under way.
QuietBetweenTurns == current = NoRequest => toAsk = {} /\ \A a \in Assets : ~Busy(a)

AskedOnce == \A a \in toAsk : step[a] = "idle"

\* The array is in the hands of one photo, which read it as it is.
LockHeld ==
    \A a \in Assets :
        /\ imagesLock = a <=> step[a] = "appending"
        /\ step[a] = "appending" => copy[a] = images
        /\ step[a] \in {"appending", "leaving"} => Relevant(current, a)

SeenAre ==
    current # NoRequest => seen[current] = toAsk \cup {a \in Assets : step[a] \notin {"idle", "failed"}}

ImagesAre ==
    current # NoRequest =>
        images = {a \in Assets : step[a] \in {"leaving", "left"} /\ Relevant(current, a)}

\* Nothing is known of a request before its turn, nor answered before its end.
NoAnswerYet ==
    \A r \in Requests :
        /\ stage[r] # "answered" => answer[r] = {}
        /\ stage[r] \in {"new", "phrases", "queued"} => seen[r] = {}

Consistent ==
    /\ TypeOK
    /\ OneTurn /\ QueuedOnce /\ QuietBetweenTurns /\ AskedOnce
    /\ LockHeld /\ SeenAre /\ ImagesAre /\ NoAnswerYet
    /\ GroupCountsOutstanding
    /\ AnswerExact

-----------------------------------------------------------------------------
(* Counting. *)

LEMMA OutstandingFinite ==
  IsFiniteSet(Outstanding) /\ Cardinality(Outstanding) \in Nat
BY FiniteAssumption, FS_Subset, FS_CardinalityType DEF Outstanding

\* A photo that enters adds one, one that leaves takes one away.
LEMMA CountUp ==
  ASSUME NEW a \in Assets, a \notin Outstanding, Outstanding' = Outstanding \cup {a}
  PROVE  Cardinality(Outstanding') = Cardinality(Outstanding) + 1
BY OutstandingFinite, FS_AddElement

LEMMA CountDown ==
  ASSUME NEW a \in Assets, a \in Outstanding, Outstanding' = Outstanding \ {a}
  PROVE  /\ Cardinality(Outstanding') = Cardinality(Outstanding) - 1
         /\ Cardinality(Outstanding') \in Nat
<1>1. IsFiniteSet(Outstanding') /\ Cardinality(Outstanding') = Cardinality(Outstanding) - 1
  BY OutstandingFinite, FS_RemoveElement
<1> QED
  BY <1>1, FS_CardinalityType

\* Where one photo's thread goes, the others stay.
LEMMA Moves ==
  ASSUME TypeOK, NEW a \in Assets, NEW there \in STRING, Goto(a, there)
  PROVE  /\ step'[a] = there
         /\ \A b \in Assets \ {a} : step'[b] = step[b]
BY DEF TypeOK, Goto

-----------------------------------------------------------------------------
(* The calls of relevantImage, which touch no photo. *)

\* A request that is not running changes its stage; no photo moves.
LEMMA RequestSteps ==
  ASSUME Consistent, NEW r \in Requests,
         Ask(r) \/ PhrasesArrive(r) \/ PhrasesFail(r)
  PROVE  Consistent'
<1> USE DEF Consistent
<1>0. /\ UNCHANGED <<current, toAsk, step, group, images, imagesLock, copy, answer, seen>>
      /\ stage[r] \in {"new", "phrases"}
      /\ stage' \in [Requests -> {"new", "phrases", "queued", "running", "answered"}]
      /\ stage'[r] \in {"phrases", "queued", "answered"}
      /\ \A q \in Requests \ {r} : stage'[q] = stage[q]
  BY DEF Ask, PhrasesArrive, PhrasesFail, TypeOK, photoVars
<1>1. TypeOK'
  <2>1. tagMemory' = tagMemory /\ crashed' = crashed
    BY DEF Ask, PhrasesArrive, PhrasesFail, photoVars
  <2>2. blockedQueue' = blockedQueue \/ blockedQueue' = Append(blockedQueue, r)
    BY DEF Ask, PhrasesArrive, PhrasesFail
  <2>3. blockedQueue' \in Seq(Requests)
    BY <2>2 DEF TypeOK
  <2> QED
    BY <1>0, <2>1, <2>3 DEF TypeOK
<1>2. OneTurn'
  BY <1>0 DEF OneTurn
<1>3. QueuedOnce'
  <2>1. CASE PhrasesArrive(r)
    <3>1. /\ blockedQueue' = Append(blockedQueue, r)
          /\ stage'[r] = "queued"
      BY <2>1 DEF PhrasesArrive, TypeOK
    <3>2. /\ Len(blockedQueue') = Len(blockedQueue) + 1
          /\ blockedQueue'[Len(blockedQueue) + 1] = r
          /\ \A i \in 1..Len(blockedQueue) : blockedQueue'[i] = blockedQueue[i]
                                           /\ blockedQueue[i] \in Requests
      BY <3>1 DEF TypeOK
    <3>3. \A i \in 1..Len(blockedQueue) : blockedQueue[i] # r
      BY <1>0 DEF QueuedOnce
    <3>4. Len(blockedQueue) \in Nat
      BY DEF TypeOK
    <3> QED
      BY <1>0, <3>1, <3>2, <3>3, <3>4 DEF QueuedOnce
  <2>2. CASE Ask(r) \/ PhrasesFail(r)
    <3>1. blockedQueue' = blockedQueue
      BY <2>2 DEF Ask, PhrasesFail
    <3>2. \A i \in 1..Len(blockedQueue) : blockedQueue[i] \in Requests \ {r}
      BY <1>0 DEF QueuedOnce, TypeOK
    <3> QED
      BY <1>0, <3>1, <3>2 DEF QueuedOnce
  <2> QED
    BY <2>1, <2>2
<1>4. QuietBetweenTurns' /\ AskedOnce' /\ SeenAre'
  BY <1>0 DEF QuietBetweenTurns, AskedOnce, SeenAre, Busy
<1>5. LockHeld' /\ ImagesAre'
  BY <1>0 DEF LockHeld, ImagesAre, Relevant
<1>6. NoAnswerYet'
  BY <1>0 DEF NoAnswerYet
<1>7. GroupCountsOutstanding'
  BY <1>0 DEF GroupCountsOutstanding, Outstanding
<1>8. AnswerExact'
  BY <1>0 DEF AnswerExact, NoAnswerYet
<1> QED
  BY <1>1, <1>2, <1>3, <1>4, <1>5, <1>6, <1>7, <1>8

\* A trap ends the app and leaves the rest as it was.
LEMMA TrapStep ==
  ASSUME Consistent,
         (\E r \in Requests : PhrasesTrap(r)) \/ \E a \in Assets : PhotoTraps(a)
  PROVE  /\ Consistent'
         /\ crashed' = TRUE /\ ~crashed
         /\ UNCHANGED <<stage, blockedQueue, current, answer, photoVars>>
<1>1. /\ crashed' = TRUE /\ ~crashed
      /\ UNCHANGED <<stage, blockedQueue, current, answer, photoVars>>
  BY DEF PhrasesTrap, PhotoTraps, DataTraps, TagTraps, Crash, Running
<1> QED
  BY <1>1 DEF photoVars, Consistent, TypeOK, OneTurn, QueuedOnce, QuietBetweenTurns, AskedOnce,
         LockHeld, SeenAre, ImagesAre, NoAnswerYet, GroupCountsOutstanding, Outstanding,
         AnswerExact, Busy, Relevant

\* A turn begins with the first of the queue and a clean slate.
LEMMA StartStep ==
  ASSUME Consistent, NEW found \in SUBSET Assets, Start(found)
  PROVE  Consistent'
<1> USE DEF Consistent
<1> DEFINE r == Head(blockedQueue)
<1>0. /\ current = NoRequest /\ r \in Requests /\ stage[r] = "queued"
      /\ blockedQueue \in Seq(Requests) /\ blockedQueue # <<>>
      /\ blockedQueue' = Tail(blockedQueue)
      /\ toAsk' = found /\ step' = [a \in Assets |-> "idle"]
      /\ group' = 0 /\ images' = {}
      /\ UNCHANGED <<imagesLock, copy, tagMemory, answer>>
  BY DEF Start, TypeOK, QueuedOnce
<1>0a. UNCHANGED crashed
  BY DEF Start
<1>1. /\ seen' = [seen EXCEPT ![r] = found]
      /\ stage' = [stage EXCEPT ![r] = IF found = {} THEN "answered" ELSE "running"]
      /\ current' = IF found = {} THEN NoRequest ELSE r
  BY DEF Start
<1>2. /\ \A q \in Requests \ {r} : stage'[q] = stage[q] /\ seen'[q] = seen[q]
      /\ seen'[r] = found
      /\ stage'[r] = IF found = {} THEN "answered" ELSE "running"
  BY <1>0, <1>1 DEF TypeOK
<1>3. TypeOK'
  BY <1>0, <1>0a, <1>1 DEF TypeOK
<1>4. OneTurn'
  BY <1>0, <1>1, <1>2, NoneAssumption DEF OneTurn
<1>5. QueuedOnce'
  <2>1. /\ Len(blockedQueue') = Len(blockedQueue) - 1
        /\ Len(blockedQueue) \in Nat /\ Len(blockedQueue) >= 1
        /\ \A i \in 1..Len(blockedQueue') : blockedQueue'[i] = blockedQueue[i + 1]
        /\ r = blockedQueue[1]
    BY <1>0
  <2>2. \A i \in 1..Len(blockedQueue') : blockedQueue'[i] \in Requests /\ blockedQueue'[i] # r
    BY <1>0, <2>1 DEF QueuedOnce
  <2>3. \A i \in 1..Len(blockedQueue') : stage'[blockedQueue'[i]] = "queued"
    BY <2>1, <2>2, <1>2 DEF QueuedOnce
  <2>4. \A i, j \in 1..Len(blockedQueue') : blockedQueue'[i] = blockedQueue'[j] => i = j
    BY <2>1 DEF QueuedOnce
  <2> QED
    BY <2>3, <2>4 DEF QueuedOnce
<1>6. QuietBetweenTurns' /\ AskedOnce'
  BY <1>0, <1>1, NoneAssumption DEF QuietBetweenTurns, AskedOnce, Busy
<1>7. LockHeld'
  BY <1>0 DEF LockHeld, QuietBetweenTurns, Busy
<1>8. SeenAre' /\ ImagesAre'
  BY <1>0, <1>1, <1>2 DEF SeenAre, ImagesAre
<1>9. NoAnswerYet'
  BY <1>0, <1>2 DEF NoAnswerYet
<1>10. GroupCountsOutstanding'
  <2>1. Outstanding' = {}
    BY <1>0 DEF Outstanding
  <2> QED
    BY <1>0, <2>1, FS_EmptySet DEF GroupCountsOutstanding
<1>11. AnswerExact'
  BY <1>0, <1>2 DEF AnswerExact, NoAnswerYet
<1> QED
  BY <1>3, <1>4, <1>5, <1>6, <1>7, <1>8, <1>9, <1>10, <1>11

\* A turn ends when no photo is under way, so each seen photo has left, and
\* those in the array are the relevant ones.
LEMMA FinishStep ==
  ASSUME Consistent, Finish
  PROVE  Consistent'
<1> USE DEF Consistent
<1>0. /\ current \in Requests /\ toAsk = {} /\ group = 0
      /\ answer' = [answer EXCEPT ![current] = images]
      /\ stage' = [stage EXCEPT ![current] = "answered"]
      /\ current' = NoRequest
      /\ UNCHANGED <<blockedQueue, toAsk, step, group, images, imagesLock, copy, tagMemory, seen>>
  BY DEF Finish, TypeOK, photoVars
<1>0a. UNCHANGED crashed
  BY DEF Finish
<1>1. Outstanding = {}
  BY <1>0, OutstandingFinite, FS_EmptySet DEF GroupCountsOutstanding
<1>2. \A a \in Assets : ~Busy(a) /\ step[a] \in {"idle", "left", "failed"}
  BY <1>1 DEF Outstanding, Busy, TypeOK
<1>3. images = {a \in seen[current] : Relevant(current, a)}
  BY <1>0, <1>2, NoneAssumption DEF ImagesAre, SeenAre
<1>4. /\ \A q \in Requests \ {current} : stage'[q] = stage[q] /\ answer'[q] = answer[q]
      /\ stage'[current] = "answered" /\ answer'[current] = images
  BY <1>0 DEF TypeOK
<1>5. TypeOK'
  BY <1>0, <1>0a DEF TypeOK
<1>6. OneTurn'
  BY <1>0, <1>4, NoneAssumption DEF OneTurn
<1>7. QueuedOnce'
  <2>1. \A i \in 1..Len(blockedQueue) : blockedQueue[i] \in Requests \ {current}
    BY <1>0 DEF QueuedOnce, OneTurn, TypeOK
  <2> QED
    BY <1>0, <1>4, <2>1 DEF QueuedOnce
<1>8. QuietBetweenTurns' /\ AskedOnce'
  BY <1>0, <1>2 DEF QuietBetweenTurns, AskedOnce, Busy
<1>9. LockHeld'
  BY <1>0, <1>2 DEF LockHeld
<1>10. SeenAre' /\ ImagesAre'
  BY <1>0 DEF SeenAre, ImagesAre
<1>11. NoAnswerYet'
  BY <1>0, <1>4 DEF NoAnswerYet
<1>12. GroupCountsOutstanding'
  BY <1>0 DEF GroupCountsOutstanding, Outstanding
<1>13. AnswerExact'
  <2> SUFFICES ASSUME NEW r \in Requests, stage'[r] = "answered"
               PROVE  answer'[r] = {a \in seen'[r] : Relevant(r, a)'}
    BY DEF AnswerExact
  <2>1. CASE r = current
    BY <2>1, <1>0, <1>3, <1>4 DEF Relevant
  <2>2. CASE r # current
    BY <2>2, <1>0, <1>4 DEF AnswerExact, Relevant
  <2> QED
    BY <2>1, <2>2
<1> QED
  BY <1>5, <1>6, <1>7, <1>8, <1>9, <1>10, <1>11, <1>12, <1>13

-----------------------------------------------------------------------------
(* The threads of the photos, within a turn.  Every one of them leaves the  *)
(* requests alone, which PhotoFrame says once for all.                      *)

LEMMA PhotoFrame ==
  ASSUME Consistent, TypeOK', UNCHANGED requestVars, current \in Requests,
         \A q \in Requests \ {current} : seen'[q] = seen[q]
  PROVE  OneTurn' /\ QueuedOnce' /\ QuietBetweenTurns' /\ NoAnswerYet' /\ AnswerExact'
<1> USE DEF Consistent, requestVars
<1>1. stage[current] = "running"
  BY DEF OneTurn
<1>2. OneTurn' /\ QueuedOnce'
  BY DEF OneTurn, QueuedOnce
<1>3. QuietBetweenTurns'
  BY NoneAssumption DEF QuietBetweenTurns
<1>4. NoAnswerYet'
  BY <1>1 DEF NoAnswerYet
<1>5. AnswerExact'
  BY <1>1 DEF AnswerExact, Relevant
<1> QED
  BY <1>2, <1>3, <1>4, <1>5

\* A photo that is under way, or still to be asked for, belongs to a request.
LEMMA DuringATurn ==
  ASSUME Consistent, NEW a \in Assets, Busy(a) \/ a \in toAsk
  PROVE  current \in Requests
BY DEF Consistent, TypeOK, QuietBetweenTurns

\* Entering the group.
LEMMA RequestDataStep ==
  ASSUME Consistent, NEW a \in Assets, RequestData(a)
  PROVE  Consistent'
<1> USE DEF Consistent
<1>0. /\ a \in toAsk /\ step[a] = "idle" /\ current \in Requests
      /\ group' = group + 1 /\ toAsk' = toAsk \ {a}
      /\ UNCHANGED <<requestVars, images, imagesLock, copy, tagMemory, seen>>
  BY DuringATurn DEF RequestData, AskedOnce
<1>1. step'[a] = "loading" /\ \A b \in Assets \ {a} : step'[b] = step[b]
  BY DEF RequestData, TypeOK
<1>2. TypeOK'
  BY <1>0 DEF RequestData, TypeOK, requestVars
<1>3. OneTurn' /\ QueuedOnce' /\ QuietBetweenTurns' /\ NoAnswerYet' /\ AnswerExact'
  BY <1>0, <1>2, PhotoFrame
<1>4. AskedOnce'
  BY <1>0, <1>1 DEF AskedOnce, TypeOK
<1>5. LockHeld'
  BY <1>0, <1>1 DEF LockHeld, Relevant, requestVars
<1>6. SeenAre'
  BY <1>0, <1>1 DEF SeenAre, requestVars, TypeOK
<1>7. ImagesAre'
  BY <1>0, <1>1 DEF ImagesAre, Relevant, requestVars
<1>8. GroupCountsOutstanding'
  <2>1. a \notin Outstanding /\ Outstanding' = Outstanding \cup {a}
    BY <1>0, <1>1 DEF Outstanding
  <2> QED
    BY <1>0, <2>1, CountUp DEF GroupCountsOutstanding
<1> QED
  BY <1>2, <1>3, <1>4, <1>5, <1>6, <1>7, <1>8

\* Leaving the group, in failure.
LEMMA GiveUpStep ==
  ASSUME Consistent, NEW a \in Assets, DataMissing(a) \/ TagFails(a)
  PROVE  Consistent'
<1> USE DEF Consistent
<1>0. /\ step[a] \in {"loading", "tagging"}
      /\ GiveUp(a)
  BY DEF DataMissing, TagFails
<1>1. /\ current \in Requests
      /\ group' = group - 1
      /\ seen' = [seen EXCEPT ![current] = @ \ {a}]
      /\ UNCHANGED <<requestVars, toAsk, images, imagesLock, copy, tagMemory>>
      /\ a \notin toAsk
  BY <1>0, DuringATurn DEF GiveUp, Busy, AskedOnce
<1>2. step'[a] = "failed" /\ \A b \in Assets \ {a} : step'[b] = step[b]
  BY <1>0 DEF GiveUp, Goto, TypeOK
<1>3. /\ a \in Outstanding /\ Outstanding' = Outstanding \ {a}
      /\ group' = Cardinality(Outstanding') /\ group' \in Nat
  <2>1. a \in Outstanding /\ Outstanding' = Outstanding \ {a}
    BY <1>0, <1>2 DEF Outstanding
  <2> QED
    BY <1>1, <2>1, CountDown DEF GroupCountsOutstanding
<1>4. TypeOK'
  BY <1>0, <1>1, <1>3 DEF GiveUp, Goto, TypeOK, requestVars
<1>5. OneTurn' /\ QueuedOnce' /\ QuietBetweenTurns' /\ NoAnswerYet' /\ AnswerExact'
  <2>1. \A q \in Requests \ {current} : seen'[q] = seen[q]
    BY <1>1 DEF TypeOK
  <2> QED
    BY <1>1, <1>4, <2>1, PhotoFrame
<1>6. AskedOnce'
  BY <1>1, <1>2 DEF AskedOnce, TypeOK
<1>7. LockHeld'
  BY <1>0, <1>1, <1>2 DEF LockHeld, Relevant, requestVars
<1>8. SeenAre'
  BY <1>1, <1>2 DEF SeenAre, requestVars, TypeOK
<1>9. ImagesAre'
  BY <1>0, <1>1, <1>2 DEF ImagesAre, Relevant, requestVars
<1> QED
  BY <1>3, <1>4, <1>5, <1>6, <1>7, <1>8, <1>9 DEF GroupCountsOutstanding

\* On to the next stage, the array untouched.
LEMMA OnwardStep ==
  ASSUME Consistent, NEW a \in Assets, DataArrives(a) \/ TagArrives(a) \/ Record(a)
  PROVE  Consistent'
<1> USE DEF Consistent
<1>0. /\ step[a] \in {"loading", "tagging", "recording"}
      /\ UNCHANGED <<requestVars, toAsk, group, images, imagesLock, copy, seen>>
      /\ tagMemory' \in SUBSET Assets
  BY DEF DataArrives, TagArrives, Record, TypeOK
<1>1. PICK there \in {"tagging", "recording", "adding"} : Goto(a, there)
  BY DEF DataArrives, TagArrives, Record
<1>2. step'[a] = there /\ \A b \in Assets \ {a} : step'[b] = step[b]
  BY <1>1 DEF Goto, TypeOK
<1>3. current \in Requests /\ a \notin toAsk
  BY <1>0, DuringATurn DEF Busy, AskedOnce
<1>4. TypeOK'
  BY <1>0, <1>1 DEF Goto, TypeOK, requestVars
<1>5. OneTurn' /\ QueuedOnce' /\ QuietBetweenTurns' /\ NoAnswerYet' /\ AnswerExact'
  BY <1>0, <1>3, <1>4, PhotoFrame
<1>6. AskedOnce'
  BY <1>0, <1>2, <1>3 DEF AskedOnce, TypeOK
<1>7. LockHeld'
  BY <1>0, <1>2 DEF LockHeld, Relevant, requestVars
<1>8. SeenAre'
  BY <1>0, <1>2 DEF SeenAre, requestVars
<1>9. ImagesAre'
  BY <1>0, <1>2 DEF ImagesAre, Relevant, requestVars
<1>10. GroupCountsOutstanding'
  <2>1. Outstanding' = Outstanding
    BY <1>0, <1>2 DEF Outstanding
  <2> QED
    BY <1>0, <2>1 DEF GroupCountsOutstanding
<1> QED
  BY <1>4, <1>5, <1>6, <1>7, <1>8, <1>9, <1>10

\* Taking the lock and reading the array.
LEMMA LockStep ==
  ASSUME Consistent, NEW a \in Assets, LockImages(a)
  PROVE  Consistent'
<1> USE DEF Consistent
<1>0. /\ step[a] = "adding" /\ Relevant(current, a)
      /\ imagesLock = NoAsset /\ imagesLock' = a
      /\ copy' = [copy EXCEPT ![a] = images]
      /\ UNCHANGED <<requestVars, toAsk, group, images, tagMemory, seen>>
      /\ Goto(a, "appending")
  BY DEF LockImages
<1>1. step'[a] = "appending" /\ \A b \in Assets \ {a} : step'[b] = step[b]
  BY <1>0 DEF Goto, TypeOK
<1>2. current \in Requests /\ a \notin toAsk
  BY <1>0, DuringATurn DEF Busy, AskedOnce
<1>3. TypeOK'
  BY <1>0 DEF Goto, TypeOK, requestVars
<1>4. OneTurn' /\ QueuedOnce' /\ QuietBetweenTurns' /\ NoAnswerYet' /\ AnswerExact'
  BY <1>0, <1>2, <1>3, PhotoFrame
<1>5. AskedOnce'
  BY <1>0, <1>1, <1>2 DEF AskedOnce, TypeOK
<1>6. LockHeld'
  <2>1. \A b \in Assets : step[b] # "appending"
    BY <1>0, NoneAssumption DEF LockHeld
  <2>2. copy'[a] = images
    BY <1>0 DEF TypeOK
  <2> QED
    BY <1>0, <1>1, <2>1, <2>2 DEF LockHeld, Relevant, requestVars
<1>7. SeenAre'
  BY <1>0, <1>1 DEF SeenAre, requestVars
<1>8. ImagesAre'
  BY <1>0, <1>1 DEF ImagesAre, Relevant, requestVars
<1>9. GroupCountsOutstanding'
  <2>1. Outstanding' = Outstanding
    BY <1>0, <1>1 DEF Outstanding
  <2> QED
    BY <1>0, <2>1 DEF GroupCountsOutstanding
<1> QED
  BY <1>3, <1>4, <1>5, <1>6, <1>7, <1>8, <1>9

\* Writing the array, which nobody else wrote since it was read.
LEMMA AppendStep ==
  ASSUME Consistent, NEW a \in Assets, AppendImage(a)
  PROVE  Consistent'
<1> USE DEF Consistent
<1>0. /\ step[a] = "appending"
      /\ images' = copy[a] \cup {a} /\ imagesLock' = NoAsset
      /\ UNCHANGED <<requestVars, toAsk, group, copy, tagMemory, seen>>
      /\ Goto(a, "leaving")
  BY DEF AppendImage
<1>1. step'[a] = "leaving" /\ \A b \in Assets \ {a} : step'[b] = step[b]
  BY <1>0 DEF Goto, TypeOK
<1>2. /\ images' = images \cup {a} /\ Relevant(current, a)
      /\ \A b \in Assets \ {a} : step[b] # "appending"
  BY <1>0 DEF LockHeld
<1>3. current \in Requests /\ a \notin toAsk
  BY <1>0, DuringATurn DEF Busy, AskedOnce
<1>4. TypeOK'
  BY <1>0, <1>2 DEF Goto, TypeOK, requestVars
<1>5. OneTurn' /\ QueuedOnce' /\ QuietBetweenTurns' /\ NoAnswerYet' /\ AnswerExact'
  BY <1>0, <1>3, <1>4, PhotoFrame
<1>6. AskedOnce'
  BY <1>0, <1>1, <1>3 DEF AskedOnce, TypeOK
<1>7. LockHeld'
  BY <1>0, <1>1, <1>2, NoneAssumption DEF LockHeld, Relevant, requestVars
<1>8. SeenAre'
  BY <1>0, <1>1 DEF SeenAre, requestVars
<1>9. ImagesAre'
  BY <1>0, <1>1, <1>2 DEF ImagesAre, Relevant, requestVars
<1>10. GroupCountsOutstanding'
  <2>1. Outstanding' = Outstanding
    BY <1>0, <1>1 DEF Outstanding
  <2> QED
    BY <1>0, <2>1 DEF GroupCountsOutstanding
<1> QED
  BY <1>4, <1>5, <1>6, <1>7, <1>8, <1>9, <1>10

\* Leaving the group, added or irrelevant.
LEMMA LeaveStep ==
  ASSUME Consistent, NEW a \in Assets, Leave(a)
  PROVE  Consistent'
<1> USE DEF Consistent
<1>0. /\ step[a] = "leaving" \/ (step[a] = "adding" /\ ~Relevant(current, a))
      /\ group' = group - 1
      /\ UNCHANGED <<requestVars, toAsk, images, imagesLock, copy, tagMemory, seen>>
      /\ Goto(a, "left")
  BY DEF Leave
<1>1. step'[a] = "left" /\ \A b \in Assets \ {a} : step'[b] = step[b]
  BY <1>0 DEF Goto, TypeOK
<1>2. current \in Requests /\ a \notin toAsk
  BY <1>0, DuringATurn DEF Busy, AskedOnce
<1>3. group' = Cardinality(Outstanding') /\ group' \in Nat
  <2>1. a \in Outstanding /\ Outstanding' = Outstanding \ {a}
    BY <1>0, <1>1 DEF Outstanding
  <2> QED
    BY <1>0, <2>1, CountDown DEF GroupCountsOutstanding
<1>4. TypeOK'
  BY <1>0, <1>3 DEF Goto, TypeOK, requestVars
<1>5. OneTurn' /\ QueuedOnce' /\ QuietBetweenTurns' /\ NoAnswerYet' /\ AnswerExact'
  BY <1>0, <1>2, <1>4, PhotoFrame
<1>6. AskedOnce'
  BY <1>0, <1>1, <1>2 DEF AskedOnce, TypeOK
<1>7. LockHeld'
  BY <1>0, <1>1 DEF LockHeld, Relevant, requestVars
<1>8. SeenAre'
  BY <1>0, <1>1 DEF SeenAre, requestVars
<1>9. ImagesAre'
  <2>1. Relevant(current, a) <=> step[a] = "leaving"
    BY <1>0 DEF LockHeld
  <2> QED
    BY <1>0, <1>1, <2>1 DEF ImagesAre, Relevant, requestVars
<1> QED
  BY <1>3, <1>4, <1>5, <1>6, <1>7, <1>8, <1>9 DEF GroupCountsOutstanding

-----------------------------------------------------------------------------
(* The inductive invariant: everything Consistent says holds always. *)
THEOREM ConsistentAlways == Spec => []Consistent
<1>1. Init => Consistent
  <2> SUFFICES ASSUME Init PROVE Consistent
    OBVIOUS
  <2>1. TypeOK
    <3>1. /\ tagMemory \in SUBSET Assets /\ toAsk \in SUBSET Assets /\ images \in SUBSET Assets
          /\ stage \in [Requests -> {"new", "phrases", "queued", "running", "answered"}]
          /\ step \in [Assets -> {"idle", "loading", "tagging", "recording", "adding",
                                  "appending", "leaving", "left", "failed"}]
      BY DEF Init
    <3>2. /\ copy \in [Assets -> SUBSET Assets]
          /\ answer \in [Requests -> SUBSET Assets] /\ seen \in [Requests -> SUBSET Assets]
      BY DEF Init
    <3>3. crashed \in BOOLEAN
      BY DEF Init
    <3>4. blockedQueue \in Seq(Requests) /\ group \in Nat
      BY DEF Init
    <3>5. current \in Requests \cup {NoRequest} /\ imagesLock \in Assets \cup {NoAsset}
      BY DEF Init
    <3> QED
      BY <3>1, <3>2, <3>3, <3>4, <3>5 DEF TypeOK
  <2>2. GroupCountsOutstanding
    <3>1. Outstanding = {}
      BY DEF Init, Outstanding
    <3> QED
      BY <3>1, FS_EmptySet DEF Init, GroupCountsOutstanding
  <2>3. LockHeld
    BY NoneAssumption DEF Init, LockHeld
  <2> QED
    BY <2>1, <2>2, <2>3, NoneAssumption
       DEF Init, Consistent, OneTurn, QueuedOnce, QuietBetweenTurns, AskedOnce, SeenAre,
           ImagesAre, NoAnswerYet, AnswerExact, Busy
<1>2. Consistent /\ [Next]_vars => Consistent'
  <2> SUFFICES ASSUME Consistent, [Next]_vars PROVE Consistent'
    OBVIOUS
  <2>1. CASE UNCHANGED vars
    BY <2>1 DEF vars, Consistent, TypeOK, OneTurn, QueuedOnce, QuietBetweenTurns, AskedOnce,
         LockHeld, SeenAre, ImagesAre, NoAnswerYet, GroupCountsOutstanding, Outstanding,
         AnswerExact, Busy, Relevant
  <2>2. ASSUME NEW a \in Assets, PhotoStep(a) PROVE Consistent'
    BY <2>2, GiveUpStep, OnwardStep, LockStep, AppendStep, LeaveStep DEF PhotoStep
  <2>3. ((\E r \in Requests : PhrasesTrap(r)) \/ \E a \in Assets : PhotoTraps(a)) => Consistent'
    BY TrapStep
  <2>4. (\E r \in Requests : Ask(r) \/ PhrasesArrive(r) \/ PhrasesFail(r)) => Consistent'
    BY RequestSteps
  <2> QED
    BY <2>1, <2>2, <2>3, <2>4, StartStep, RequestDataStep, FinishStep DEF Next, Quiet
<1> QED
  BY <1>1, <1>2, PTL DEF Spec

(* The types. *)
THEOREM TypeCorrect == Spec => []TypeOK
<1>1. Consistent => TypeOK
  BY DEF Consistent
<1> QED
  BY <1>1, ConsistentAlways, PTL

(* The group's count is the number of photos under way: it never goes below *)
(* zero, and wait returns when the last photo has left, not before.         *)
THEOREM GroupIsCounted == Spec => []GroupCountsOutstanding
<1>1. Consistent => GroupCountsOutstanding
  BY DEF Consistent
<1> QED
  BY <1>1, ConsistentAlways, PTL

(* An answer holds the relevant photos that got through, all and only. *)
THEOREM AnswersAreExact == Spec => []AnswerExact
<1>1. Consistent => AnswerExact
  BY DEF Consistent
<1> QED
  BY <1>1, ConsistentAlways, PTL

-----------------------------------------------------------------------------
(* Progress.  Nothing here speaks of fairness: that a request can always go *)
(* on, and only so often before it is answered, are facts about states and  *)
(* single steps.                                                            *)

\* A queued request is in the queue.
QueuedIsInQueue ==
    \A r \in Requests :
        stage[r] = "queued" => \E i \in 1..Len(blockedQueue) : blockedQueue[i] = r

\* The guards of Start, of PhotoStep(a) and of Finish.
MayStart == current = NoRequest /\ blockedQueue # <<>>
MayStep(a) ==
    \/ step[a] \in {"loading", "tagging", "recording", "appending", "leaving"}
    \/ step[a] = "adding" /\ (imagesLock = NoAsset \/ ~Relevant(current, a))
MayFinish == current # NoRequest /\ toAsk = {} /\ group = 0

\* As long as the app lives and a request waits for its turn or has it, the queue, the loop over
\* the photos, a photo's thread or the end of the turn can go on.
NobodyIsStuck ==
    Running /\ (\E r \in Requests : stage[r] \in {"queued", "running"}) =>
        MayStart \/ toAsk # {} \/ (\E a \in Assets : MayStep(a)) \/ MayFinish

\* The steps a photo has at most before it in this turn.
StepsLeft(a) ==
    CASE a \in toAsk           -> 7
      [] step[a] = "loading"   -> 6
      [] step[a] = "tagging"   -> 5
      [] step[a] = "recording" -> 4
      [] step[a] = "adding"    -> 3
      [] step[a] = "appending" -> 2
      [] step[a] = "leaving"   -> 1
      [] OTHER                 -> 0

Ahead == {p \in Assets \X (1..7) : p[2] <= StepsLeft(p[1])}

\* Each step of a turn brings its end nearer.
TurnComesToItsEnd ==
    [][current # NoRequest /\ current' = current /\ ~UNCHANGED photoVars =>
           Cardinality(Ahead') < Cardinality(Ahead)]_vars

-----------------------------------------------------------------------------
(* A request enters the queue when it becomes queued and leaves it when its *)
(* turn begins.                                                             *)
LEMMA QueueStep ==
  ASSUME Consistent, QueuedIsInQueue, [Next]_vars
  PROVE  QueuedIsInQueue'
<1> USE DEF Consistent
<1>1. CASE UNCHANGED <<stage, blockedQueue>>
  BY <1>1 DEF QueuedIsInQueue
<1>2. ASSUME NEW r \in Requests, Ask(r) \/ PhrasesFail(r)
      PROVE  QueuedIsInQueue'
  <2>1. /\ blockedQueue' = blockedQueue
        /\ stage'[r] \in {"phrases", "answered"}
        /\ \A q \in Requests \ {r} : stage'[q] = stage[q]
    BY <1>2 DEF Ask, PhrasesFail, TypeOK
  <2> QED
    BY <2>1 DEF QueuedIsInQueue
<1>3. ASSUME NEW r \in Requests, PhrasesArrive(r)
      PROVE  QueuedIsInQueue'
  <2>1. /\ blockedQueue' = Append(blockedQueue, r)
        /\ \A q \in Requests \ {r} : stage'[q] = stage[q]
    BY <1>3 DEF PhrasesArrive, TypeOK
  <2>2. /\ Len(blockedQueue') = Len(blockedQueue) + 1 /\ Len(blockedQueue) \in Nat
        /\ blockedQueue'[Len(blockedQueue) + 1] = r
        /\ \A i \in 1..Len(blockedQueue) : blockedQueue'[i] = blockedQueue[i]
    BY <2>1 DEF TypeOK
  <2> QED
    BY <2>1, <2>2 DEF QueuedIsInQueue
<1>4. ASSUME NEW found \in SUBSET Assets, Start(found)
      PROVE  QueuedIsInQueue'
  <2> DEFINE r == Head(blockedQueue)
  <2>1. /\ blockedQueue \in Seq(Requests) /\ blockedQueue # <<>>
        /\ blockedQueue' = Tail(blockedQueue)
        /\ stage' = [stage EXCEPT ![r] = IF found = {} THEN "answered" ELSE "running"]
    BY <1>4 DEF Start, TypeOK
  <2>2. /\ r \in Requests /\ r = blockedQueue[1]
        /\ Len(blockedQueue) \in Nat /\ Len(blockedQueue') = Len(blockedQueue) - 1
        /\ \A i \in 1..Len(blockedQueue') : blockedQueue'[i] = blockedQueue[i + 1]
    BY <2>1
  <2>3. stage'[r] # "queued" /\ \A q \in Requests \ {r} : stage'[q] = stage[q]
    BY <2>1, <2>2 DEF TypeOK
  <2> SUFFICES ASSUME NEW q \in Requests, stage'[q] = "queued"
               PROVE  \E i \in 1..Len(blockedQueue') : blockedQueue'[i] = q
    BY DEF QueuedIsInQueue
  <2>4. PICK i \in 1..Len(blockedQueue) : blockedQueue[i] = q
    BY <2>3 DEF QueuedIsInQueue
  <2>5. i # 1 /\ i - 1 \in 1..Len(blockedQueue') /\ blockedQueue'[i - 1] = q
    BY <2>2, <2>3, <2>4
  <2> QED
    BY <2>5
<1>5. CASE Finish
  <2>1. /\ blockedQueue' = blockedQueue
        /\ stage' = [stage EXCEPT ![current] = "answered"]
    BY <1>5 DEF Finish
  <2>2. \A q \in Requests : stage'[q] = "queued" => stage[q] = "queued"
    BY <2>1 DEF TypeOK
  <2> QED
    BY <2>1, <2>2 DEF QueuedIsInQueue
<1>6. (\E a \in Assets : RequestData(a) \/ PhotoStep(a)) \/ Quiet \/ UNCHANGED vars
        => UNCHANGED <<stage, blockedQueue>>
  BY DEF RequestData, PhotoStep, DataMissing, DataArrives, TagFails, TagArrives, Record,
         LockImages, AppendImage, Leave, GiveUp, Quiet, vars, requestVars
<1> QED
  BY <1>1, <1>2, <1>3, <1>4, <1>5, <1>6, TrapStep DEF Next

(* No deadlock: neither the blocking wait on the serial queue nor the lock  *)
(* of the array ever leaves a request that was queued without a thread that *)
(* can go on.  Whoever holds the lock can append; and if no photo is under  *)
(* way the count is zero, and the wait returns.                             *)
THEOREM NobodyIsEverStuck == Spec => []NobodyIsStuck
<1>1. Init => QueuedIsInQueue
  BY DEF Init, QueuedIsInQueue
<1>2. Consistent /\ QueuedIsInQueue => NobodyIsStuck
  <2> SUFFICES ASSUME Consistent, QueuedIsInQueue,
                      NEW r \in Requests, stage[r] \in {"queued", "running"},
                      toAsk = {}, ~MayFinish
               PROVE  MayStart \/ \E a \in Assets : MayStep(a)
    BY DEF NobodyIsStuck
  <2> USE DEF Consistent
  <2>1. CASE current = NoRequest
    <3>1. stage[r] = "queued"
      BY <2>1, NoneAssumption DEF OneTurn
    <3>2. blockedQueue # <<>>
      BY <3>1 DEF QueuedIsInQueue
    <3> QED
      BY <2>1, <3>2 DEF MayStart
  <2>2. CASE current # NoRequest
    <3>1. Outstanding # {}
      BY <2>2, FS_EmptySet DEF MayFinish, GroupCountsOutstanding
    <3>2. PICK a \in Assets : Busy(a)
      BY <3>1 DEF Outstanding, Busy
    <3>3. CASE step[a] # "adding" \/ imagesLock = NoAsset
      BY <3>2, <3>3 DEF Busy, MayStep
    <3>4. CASE imagesLock # NoAsset
      <4>1. imagesLock \in Assets /\ step[imagesLock] = "appending"
        BY <3>4 DEF TypeOK, LockHeld
      <4> QED
        BY <4>1 DEF MayStep
    <3> QED
      BY <3>3, <3>4
  <2> QED
    BY <2>1, <2>2
<1>3. Consistent /\ QueuedIsInQueue /\ [Next]_vars => QueuedIsInQueue'
  BY QueueStep
<1> QED
  BY <1>1, <1>2, <1>3, ConsistentAlways, PTL DEF Spec

-----------------------------------------------------------------------------
(* How many steps a turn takes. *)

\* At most seven for each photo.
LEMMA AheadBounded ==
  /\ IsFiniteSet(Ahead)
  /\ Cardinality(Ahead) \in Nat
  /\ Cardinality(Ahead) <= Cardinality(Assets) * 7
<1>1. IsFiniteSet(1..7) /\ Cardinality(1..7) = 7
  <2>1. 1 \in Int /\ 7 \in Int
    OBVIOUS
  <2>2. IsFiniteSet(1..7) /\ Cardinality(1..7) = IF 1 > 7 THEN 0 ELSE 7 - 1 + 1
    BY <2>1, FS_Interval, Zenon
  <2> QED
    BY <2>2
<1>2. IsFiniteSet(Assets \X (1..7)) /\ Cardinality(Assets \X (1..7)) = Cardinality(Assets) * 7
  BY <1>1, FiniteAssumption, FS_Product
<1>3. Ahead \in SUBSET (Assets \X (1..7))
  BY DEF Ahead
<1> QED
  BY <1>2, <1>3, FS_Subset, FS_CardinalityType

\* One photo comes nearer to its end and the others stay where they are.
LEMMA OneStepLess ==
  ASSUME NEW a \in Assets, StepsLeft(a) \in 1..7, StepsLeft(a)' \in 0..7,
         StepsLeft(a)' < StepsLeft(a),
         \A b \in Assets \ {a} : StepsLeft(b)' = StepsLeft(b)
  PROVE  Cardinality(Ahead') < Cardinality(Ahead)
<1>1. Ahead' \in SUBSET Ahead
  <2> SUFFICES ASSUME NEW b \in Assets, NEW k \in 1..7, k <= StepsLeft(b)'
               PROVE  k <= StepsLeft(b)
    BY DEF Ahead
  <2>1. CASE b = a
    BY <2>1
  <2>2. CASE b # a
    BY <2>2
  <2> QED
    BY <2>1, <2>2
<1>2. <<a, StepsLeft(a)>> \in Ahead /\ <<a, StepsLeft(a)>> \notin Ahead'
  BY DEF Ahead
<1>3. Cardinality(Ahead') <= Cardinality(Ahead) /\ Cardinality(Ahead') # Cardinality(Ahead)
  BY <1>1, <1>2, AheadBounded, FS_Subset
<1>4. Cardinality(Ahead') \in Nat
  BY <1>1, AheadBounded, FS_Subset, FS_CardinalityType
<1> QED
  BY <1>3, <1>4, AheadBounded

(* The loop and the threads of a turn can only go on: each of their steps   *)
(* brings the end of the turn nearer, whatever comes back, in any order.    *)
(* As the work ahead is at most seven steps for each photo (AheadBounded),  *)
(* a turn is over after so many, and the next of the queue has its own.     *)
THEOREM TurnsEnd == Spec => TurnComesToItsEnd
<1> DEFINE Nearer == current # NoRequest /\ current' = current /\ ~UNCHANGED photoVars =>
                         Cardinality(Ahead') < Cardinality(Ahead)
<1>1. Consistent /\ [Next]_vars => [Nearer]_vars
  <2> SUFFICES ASSUME Consistent, Next, current # NoRequest, current' = current,
                      ~UNCHANGED photoVars
               PROVE  Cardinality(Ahead') < Cardinality(Ahead)
    OBVIOUS
  <2> USE DEF Consistent
  <2>1. (\E a \in Assets : RequestData(a)) \/ \E a \in Assets : PhotoStep(a)
    <3>1. ~ \E r \in Requests : Ask(r) \/ PhrasesArrive(r) \/ PhrasesFail(r)
      BY DEF Ask, PhrasesArrive, PhrasesFail
    <3>1a. ~ \E r \in Requests : PhrasesTrap(r)
      BY TrapStep
    <3>1b. ~ \E a \in Assets : PhotoTraps(a)
      BY TrapStep
    <3>2. ~ \E found \in SUBSET Assets : Start(found)
      BY DEF Start
    <3>3. ~Finish
      BY DEF Finish
    <3>4. ~Quiet
      BY DEF Quiet, vars, photoVars
    <3> QED
      BY <3>1, <3>1a, <3>1b, <3>2, <3>3, <3>4 DEF Next
  <2>2. ASSUME NEW a \in Assets, RequestData(a)
        PROVE  Cardinality(Ahead') < Cardinality(Ahead)
    <3>1. /\ a \in toAsk /\ step[a] = "idle"
          /\ toAsk' = toAsk \ {a} /\ step'[a] = "loading"
      BY <2>2 DEF RequestData, AskedOnce, TypeOK
    <3>2. \A b \in Assets \ {a} : step'[b] = step[b] /\ (b \in toAsk' <=> b \in toAsk)
      BY <2>2 DEF RequestData, TypeOK
    <3>3. \A b \in Assets \ {a} : StepsLeft(b)' = StepsLeft(b)
      BY <3>2 DEF StepsLeft
    <3>4. /\ StepsLeft(a) \in 1..7 /\ StepsLeft(a)' \in 0..7
          /\ StepsLeft(a)' < StepsLeft(a)
      BY <3>1 DEF StepsLeft
    <3> QED
      BY <3>3, <3>4, OneStepLess
  <2>3. ASSUME NEW a \in Assets, PhotoStep(a)
        PROVE  Cardinality(Ahead') < Cardinality(Ahead)
    <3>1. toAsk' = toAsk /\ Busy(a) /\ a \notin toAsk
      <4>1. toAsk' = toAsk /\ Busy(a)
        BY <2>3 DEF PhotoStep, DataMissing, DataArrives, TagFails, TagArrives, Record,
           LockImages, AppendImage, Leave, GiveUp, Busy
      <4> QED
        BY <4>1 DEF Busy, AskedOnce
    <3>2. \A b \in Assets \ {a} : step'[b] = step[b]
      BY <2>3 DEF PhotoStep, DataMissing, DataArrives, TagFails, TagArrives, Record,
         LockImages, AppendImage, Leave, GiveUp, Goto, TypeOK
    <3>3. \A b \in Assets \ {a} : StepsLeft(b)' = StepsLeft(b)
      BY <3>1, <3>2 DEF StepsLeft
    <3>4. \/ step[a] = "loading" /\ step'[a] \in {"adding", "tagging", "failed"}
          \/ step[a] = "tagging" /\ step'[a] \in {"recording", "failed"}
          \/ step[a] = "recording" /\ step'[a] = "adding"
          \/ step[a] = "adding" /\ step'[a] \in {"appending", "left"}
          \/ step[a] = "appending" /\ step'[a] = "leaving"
          \/ step[a] = "leaving" /\ step'[a] = "left"
      BY <2>3 DEF PhotoStep, DataMissing, DataArrives, TagFails, TagArrives, Record,
         LockImages, AppendImage, Leave, GiveUp, Goto, TypeOK
    <3>5. /\ StepsLeft(a) \in 1..7 /\ StepsLeft(a)' \in 0..7
          /\ StepsLeft(a)' < StepsLeft(a)
      BY <3>1, <3>4 DEF StepsLeft
    <3> QED
      BY <3>3, <3>5, OneStepLess
  <2> QED
    BY <2>1, <2>2, <2>3
<1> QED
  BY <1>1, ConsistentAlways, PTL DEF Spec, TurnComesToItsEnd

-----------------------------------------------------------------------------
(* The provider implements the safety part of SuggestionService: a request  *)
(* is answered once, and with relevant photos only.                         *)
THEOREM Implements == Spec => ServiceSafety
<1> DEFINE status == [r \in Requests |-> CASE stage[r] = "new" -> "new"
                                          [] stage[r] = "answered" -> "answered"
                                          [] OTHER -> "asked"]
<1>1. Init => Service!Init
  BY DEF Init, Service!Init
<1>2. Consistent /\ Consistent' /\ [Next]_vars => [Service!Next]_(Service!vars)
  <2> SUFFICES ASSUME Consistent, Consistent', [Next]_vars
               PROVE  Service!Next \/ UNCHANGED <<status, answer, crashed>>
    BY DEF Service!vars
  <2> USE DEF Consistent, TypeOK
  <2>1. ASSUME NEW r \in Requests, Ask(r)
        PROVE  Service!Next
    <3>1. /\ status[r] = "new" /\ status' = [status EXCEPT ![r] = "asked"]
          /\ ~crashed /\ UNCHANGED <<answer, crashed>>
      BY <2>1 DEF Ask, Running
    <3> QED
      BY <3>1 DEF Service!Next, Service!Ask
  <2>2. ASSUME NEW r \in Requests, PhrasesArrive(r)
        PROVE  UNCHANGED <<status, answer, crashed>>
    BY <2>2 DEF PhrasesArrive
  <2>3. ASSUME NEW r \in Requests, PhrasesFail(r)
        PROVE  Service!Next
    <3>1. /\ status[r] = "asked" /\ status' = [status EXCEPT ![r] = "answered"]
          /\ ~crashed /\ UNCHANGED crashed
      BY <2>3 DEF PhrasesFail, Running
    <3>2. answer' = [answer EXCEPT ![r] = {}]
      BY <2>3 DEF PhrasesFail, NoAnswerYet
    <3> QED
      BY <3>1, <3>2 DEF Service!Next, Service!Answer
  <2>4. ASSUME NEW found \in SUBSET Assets, Start(found)
        PROVE  Service!Next \/ UNCHANGED <<status, answer, crashed>>
    <3> DEFINE r == Head(blockedQueue)
    <3>1. r \in Requests /\ stage[r] = "queued"
      BY <2>4 DEF Start, QueuedOnce
    <3>2. CASE found = {}
      <4>1. /\ status[r] = "asked" /\ status' = [status EXCEPT ![r] = "answered"]
            /\ ~crashed /\ UNCHANGED crashed
        BY <2>4, <3>1, <3>2 DEF Start, Running
      <4>2. answer' = [answer EXCEPT ![r] = {}]
        BY <2>4, <3>1 DEF Start, NoAnswerYet
      <4> QED
        BY <3>1, <4>1, <4>2 DEF Service!Next, Service!Answer
    <3>3. CASE found # {}
      BY <2>4, <3>1, <3>3 DEF Start
    <3> QED
      BY <3>2, <3>3
  <2>5. CASE Finish
    <3>1. current \in Requests /\ stage[current] = "running"
      BY <2>5 DEF Finish, OneTurn
    <3>2. /\ status[current] = "asked" /\ status' = [status EXCEPT ![current] = "answered"]
          /\ ~crashed /\ UNCHANGED crashed
      BY <2>5, <3>1 DEF Finish, Running
    <3>3. answer' = [answer EXCEPT ![current] = images]
      BY <2>5 DEF Finish
    <3>4. images \in SUBSET {a \in Assets : Service!Relevant(current, a)}
      BY <3>1, NoneAssumption DEF ImagesAre, Relevant, Service!Relevant
    <3> QED
      BY <3>1, <3>2, <3>3, <3>4 DEF Service!Next, Service!Answer
  <2>6. CASE UNCHANGED requestVars
    BY <2>6 DEF requestVars
  <2>7. (\E a \in Assets : RequestData(a) \/ PhotoStep(a)) \/ Quiet \/ UNCHANGED vars
          => UNCHANGED requestVars
    BY DEF RequestData, PhotoStep, DataMissing, DataArrives, TagFails, TagArrives, Record,
           LockImages, AppendImage, Leave, GiveUp, Quiet, vars, requestVars
  <2>8. ASSUME (\E r \in Requests : PhrasesTrap(r)) \/ \E a \in Assets : PhotoTraps(a)
        PROVE  Service!Next
    <3>1. ~crashed /\ crashed' = TRUE /\ UNCHANGED <<status, answer>>
      BY <2>8, TrapStep
    <3> QED
      BY <3>1 DEF Service!Next, Service!Die
  <2> QED
    BY <2>1, <2>2, <2>3, <2>4, <2>5, <2>6, <2>7, <2>8 DEF Next
<1> QED
  BY <1>1, <1>2, ConsistentAlways, PTL DEF Spec, Service!Spec, ServiceSafety
=============================================================================
