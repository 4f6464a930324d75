-------------------------- MODULE ImageSuggestions --------------------------
(***************************************************************************)
(* ImageSuggestionProvider, ImageTagMemory and the part of ComputerVision  *)
(* they see.  A request waits for its key phrases, then for its turn on a  *)
(* serial queue.  There it asks for the data of every photo of the last    *)
(* day, counts the photos it waits for in a DispatchGroup, and blocks its  *)
(* queue until the count is back to zero.  Each photo comes back on a      *)
(* thread of its own, is tagged by Azure unless its tags are remembered,   *)
(* and adds itself to the array of the request under a lock.               *)
(*                                                                         *)
(* What comes back is data, an error, or something the code unwraps by     *)
(* force and cannot: then the app dies, and every request with it.  Only   *)
(* the tags outlive it, in the user defaults.                              *)
(***************************************************************************)
EXTENDS Integers, Sequences, FiniteSets

CONSTANTS
    Requests, Assets, Words, PhrasesOf, TagsOf,  \* those of SuggestionService
    NoRequest, NoAsset

ASSUME PhrasesAssumption == PhrasesOf \in [Requests -> SUBSET Words]
ASSUME TagsAssumption == TagsOf \in [Assets -> SUBSET Words]
ASSUME FiniteAssumption == IsFiniteSet(Assets)
ASSUME NoneAssumption == NoRequest \notin Requests /\ NoAsset \notin Assets

VARIABLES
    stage,        \* how far each request has come
    blockedQueue, \* requests waiting for their turn
    current,      \* the request that has its turn
    toAsk,        \* its photos not asked for yet
    step,         \* where each of its photos is
    group,        \* the count of its DispatchGroup
    images,       \* the array of the photos it has found
    imagesLock,   \* the photo whose thread holds the lock of that array
    copy,         \* the array as each photo's thread read it
    tagMemory,    \* photos whose tags are remembered
    answer,       \* the photos given to the callback of each request
    crashed,      \* a forced unwrap has ended the app
    seen          \* history: photos of each request that did not fail

vars == <<stage, blockedQueue, current, toAsk, step, group, images, imagesLock, copy,
          tagMemory, answer, crashed, seen>>
requestVars == <<stage, blockedQueue, current, answer, crashed>>
photoVars == <<toAsk, step, group, images, imagesLock, copy, tagMemory, seen>>

Service == INSTANCE SuggestionService WITH
    status <- [r \in Requests |-> CASE stage[r] = "new" -> "new"
                                    [] stage[r] = "answered" -> "answered"
                                    [] OTHER -> "asked"],
    died <- crashed

Relevant(r, a) == PhrasesOf[r] \cap TagsOf[a] # {}

\* Photos whose thread has not left the group.
Outstanding == {a \in Assets : step[a] \in {"loading", "tagging", "recording", "adding",
                                            "appending", "leaving"}}

TypeOK ==
    /\ stage \in [Requests -> {"new", "phrases", "queued", "running", "answered"}]
    /\ blockedQueue \in Seq(Requests)
    /\ current \in Requests \cup {NoRequest}
    /\ toAsk \in SUBSET Assets
    /\ step \in [Assets -> {"idle", "loading", "tagging", "recording", "adding",
                            "appending", "leaving", "left", "failed"}]
    /\ group \in Nat
    /\ images \in SUBSET Assets
    /\ imagesLock \in Assets \cup {NoAsset}
    /\ copy \in [Assets -> SUBSET Assets]
    /\ tagMemory \in SUBSET Assets
    /\ answer \in [Requests -> SUBSET Assets]
    /\ crashed \in BOOLEAN
    /\ seen \in [Requests -> SUBSET Assets]

Init ==
    /\ stage = [r \in Requests |-> "new"]
    /\ blockedQueue = <<>>
    /\ current = NoRequest
    /\ toAsk = {}
    /\ step = [a \in Assets |-> "idle"]
    /\ group = 0
    /\ images = {}
    /\ imagesLock = NoAsset
    /\ copy = [a \in Assets |-> {}]
    /\ tagMemory \in SUBSET Assets
    /\ answer = [r \in Requests |-> {}]
    /\ crashed = FALSE
    /\ seen = [r \in Requests |-> {}]

-----------------------------------------------------------------------------
Running == ~crashed

Crash ==
    /\ crashed' = TRUE
    /\ UNCHANGED <<stage, blockedQueue, current, answer, photoVars>>

-----------------------------------------------------------------------------
(* relevantImage: the key phrases of the text first. *)

Ask(r) ==
    /\ Running /\ stage[r] = "new"
    /\ stage' = [stage EXCEPT ![r] = "phrases"]
    /\ UNCHANGED <<blockedQueue, current, answer, crashed, photoVars>>

PhrasesArrive(r) ==
    /\ Running /\ stage[r] = "phrases"
    /\ stage' = [stage EXCEPT ![r] = "queued"]
    /\ blockedQueue' = Append(blockedQueue, r)
    /\ UNCHANGED <<current, answer, crashed, photoVars>>

\* Mutant: a failed request is never called back.
PhrasesFail_Silent(r) ==
    /\ Running /\ stage[r] = "phrases"
    /\ stage' = [stage EXCEPT ![r] = "queued"]
    /\ UNCHANGED <<blockedQueue, current, answer, crashed, photoVars>>

\* process([]), there and then.
PhrasesFail(r) ==
    /\ Running /\ stage[r] = "phrases"
    /\ stage' = [stage EXCEPT ![r] = "answered"]
    /\ UNCHANGED <<blockedQueue, current, answer, crashed, photoVars>>

\* documents.first! of a reply that decodes but lists no document.
PhrasesTrap(r) == Running /\ stage[r] = "phrases" /\ Crash

-----------------------------------------------------------------------------
(* image(matching:), on blockedQueue. *)

\* The photos of the last day, whichever they are.  Without any, process([]).
Start(found) ==
    /\ Running
    /\ current = NoRequest
    /\ blockedQueue # <<>>
    /\ LET r == Head(blockedQueue) IN
       /\ seen' = [seen EXCEPT ![r] = found]
       /\ stage' = [stage EXCEPT ![r] = IF found = {} THEN "answered" ELSE "running"]
       /\ current' = IF found = {} THEN NoRequest ELSE r
    /\ blockedQueue' = Tail(blockedQueue)
    /\ toAsk' = found
    /\ step' = [a \in Assets |-> "idle"]
    /\ group' = 0
    /\ images' = {}
    /\ UNCHANGED <<imagesLock, copy, tagMemory, answer, crashed>>

\* One turn of the loop: enter the group, ask for the data.
RequestData(a) ==
    /\ Running
    /\ a \in toAsk
    /\ group' = group + 1
    /\ toAsk' = toAsk \ {a}
    /\ step' = [step EXCEPT ![a] = "loading"]
    /\ UNCHANGED <<requestVars, images, imagesLock, copy, tagMemory, seen>>

\* group.wait() returns, and process(images).
Finish ==
    /\ Running
    /\ current # NoRequest
    /\ toAsk = {}
    /\ group = 0
    /\ answer' = [answer EXCEPT ![current] = images]
    /\ stage' = [stage EXCEPT ![current] = "answered"]
    /\ current' = NoRequest
    /\ UNCHANGED <<blockedQueue, crashed, photoVars>>

-----------------------------------------------------------------------------
(* The threads of the photos. *)

Goto(a, there) == step' = [step EXCEPT ![a] = there]

\* group.leave() on the way out of a failure.
GiveUp(a) ==
    /\ Goto(a, "failed")
    /\ group' = group - 1
    /\ seen' = [seen EXCEPT ![current] = @ \ {a}]
    /\ UNCHANGED <<requestVars, toAsk, images, imagesLock, copy, tagMemory>>

DataMissing(a) == step[a] = "loading" /\ GiveUp(a)

\* Remembered tags spare the call to Azure.
DataArrives(a) ==
    /\ step[a] = "loading"
    /\ Goto(a, IF a \in tagMemory THEN "adding" ELSE "tagging")
    /\ UNCHANGED <<requestVars, toAsk, group, images, imagesLock, copy, tagMemory, seen>>

\* UIImage(data:)! of data that is no picture, or, with no tags remembered,
\* jpegData()! of a picture without one.
DataTraps(a) == step[a] = "loading" /\ Crash

\* Mutant: the failure path returns without leaving the group.
TagFails_StaysInGroup(a) ==
    /\ step[a] = "tagging"
    /\ Goto(a, "failed")
    /\ seen' = [seen EXCEPT ![current] = @ \ {a}]
    /\ UNCHANGED <<requestVars, toAsk, group, images, imagesLock, copy, tagMemory>>

\* Mutant: the failure path leaves the group twice.
TagFails_LeavesTwice(a) ==
    /\ step[a] = "tagging"
    /\ Goto(a, "failed")
    /\ group' = group - 2
    /\ seen' = [seen EXCEPT ![current] = @ \ {a}]
    /\ UNCHANGED <<requestVars, toAsk, images, imagesLock, copy, tagMemory>>

TagFails(a) == step[a] = "tagging" /\ GiveUp(a)

\* String(data:encoding:)! of a reply that is not UTF-8.
TagTraps(a) == step[a] = "tagging" /\ Crash

TagArrives(a) ==
    /\ step[a] = "tagging"
    /\ Goto(a, "recording")
    /\ UNCHANGED <<requestVars, toAsk, group, images, imagesLock, copy, tagMemory, seen>>

\* On concurrentQueue: the tags are remembered, under a lock of their own.
Record(a) ==
    /\ step[a] = "recording"
    /\ Goto(a, "adding")
    /\ tagMemory' = tagMemory \cup {a}
    /\ UNCHANGED <<requestVars, toAsk, group, images, imagesLock, copy, seen>>

\* Mutant: images.append without the lock.
LockImages_NoLock(a) ==
    /\ step[a] = "adding" /\ Relevant(current, a)
    /\ imagesLock' = a
    /\ copy' = [copy EXCEPT ![a] = images]
    /\ Goto(a, "appending")
    /\ UNCHANGED <<requestVars, toAsk, group, images, tagMemory, seen>>

\* addImage: images.append under imagesLock, the array read ...
LockImages(a) ==
    /\ step[a] = "adding" /\ Relevant(current, a)
    /\ imagesLock = NoAsset
    /\ imagesLock' = a
    /\ copy' = [copy EXCEPT ![a] = images]
    /\ Goto(a, "appending")
    /\ UNCHANGED <<requestVars, toAsk, group, images, tagMemory, seen>>

\* ... and written.
AppendImage(a) ==
    /\ step[a] = "appending"
    /\ images' = copy[a] \cup {a}
    /\ imagesLock' = NoAsset
    /\ Goto(a, "leaving")
    /\ UNCHANGED <<requestVars, toAsk, group, copy, tagMemory, seen>>

\* defer { group.leave() }, for a photo that was added or has no tag in common.
Leave(a) ==
    /\ \/ step[a] = "leaving"
       \/ step[a] = "adding" /\ ~Relevant(current, a)
    /\ Goto(a, "left")
    /\ group' = group - 1
    /\ UNCHANGED <<requestVars, toAsk, images, imagesLock, copy, tagMemory, seen>>

PhotoStep(a) ==
    /\ Running
    /\ \/ DataMissing(a) \/ DataArrives(a) \/ TagFails(a) \/ TagArrives(a)
       \/ Record(a) \/ LockImages(a) \/ AppendImage(a) \/ Leave(a)

PhotoTraps(a) == Running /\ (DataTraps(a) \/ TagTraps(a))

-----------------------------------------------------------------------------
\* The app is gone; or everything asked was answered, and nobody asks any more.
Quiet == (crashed \/ \A r \in Requests : stage[r] = "answered") /\ UNCHANGED vars

Next ==
    \/ \E r \in Requests : Ask(r) \/ PhrasesArrive(r) \/ PhrasesFail(r) \/ PhrasesTrap(r)
    \/ \E found \in SUBSET Assets : Start(found)
    \/ \E a \in Assets : RequestData(a)
    \/ \E a \in Assets : PhotoStep(a) \/ PhotoTraps(a)
    \/ Finish
    \/ Quiet

Spec == Init /\ [][Next]_vars

\* URLSession and PhotoKit end each request with data or an error, and every
\* queue runs what it is given, for as long as the app lives.
Fairness ==
    /\ \A r \in Requests : WF_vars(PhrasesArrive(r) \/ PhrasesFail(r))
    /\ WF_vars(\E found \in SUBSET Assets : Start(found))
    /\ \A a \in Assets : WF_vars(RequestData(a)) /\ WF_vars(PhotoStep(a))
    /\ WF_vars(Finish)

FairSpec == Spec /\ Fairness

-----------------------------------------------------------------------------
(* The DispatchGroup.  Every path out of a photo's callbacks leaves the     *)
(* group exactly once - no data, no tags, no tag in common, or added -      *)
(* so that its count is the number of photos still under way: one leave too *)
(* many traps, one too few blocks the queue for good.                       *)
GroupCountsOutstanding == group = Cardinality(Outstanding)

(* The answer.  When a request is answered, every photo that got through is *)
(* in the array if and only if it has a tag in common with the text: none   *)
(* is lost by two threads appending at once, none comes after the answer,   *)
(* none is left over from the request before.                               *)
AnswerExact ==
    \A r \in Requests :
        stage[r] = "answered" => answer[r] = {a \in seen[r] : Relevant(r, a)}

(* The provider implements the promise: each request is answered once, with *)
(* relevant photos only ...                                                 *)
ServiceSafety == Service!Spec

(* ... and in the end it is answered, whichever requests fail on the way,   *)
(* unless a forced unwrap ends the app.  This has ServiceSafety in it,      *)
(* which stands alone to be proved.                                         *)
ServicePromise == Service!FairSpec
=============================================================================
