------------------------- MODULE MemoryStore_proofs -------------------------
(***************************************************************************)
(* For any accounts and any documents: the types, what explains an orphan  *)
(* picture and a lost one, and that a deleted memory stays deleted.        *)
(*                                                                         *)
(* OrphansExplained and LossesExplained are not inductive.  The first      *)
(* needs to know that an upload still under way for a document that is     *)
(* gone was overtaken; the second, that a delete in flight for a document  *)
(* that is stored was sent by another account, which in turn needs each    *)
(* document to be in at most one diary and names never to be handed out    *)
(* twice.  Consistent puts these facts together.                           *)
(***************************************************************************)
EXTENDS MemoryStore, TLAPS

\* A document is in one diary at most.
OneDiaryEach ==
    \A u, v \in Users, d \in DocIDs : d \in docs[u] /\ d \in docs[v] => u = v

\* Nothing is known of a name that was not handed out.
FreshIsUnknown ==
    \A d \in DocIDs \ used :
        /\ \A u \in Users : d \notin docs[u]
        /\ d \notin images
        /\ d \notin pictured
        /\ upload[d] = "none"
        /\ deleting[d] = 0

UploadOfGoneIsOvertaken ==
    \A d \in DocIDs : upload[d] # "none" /\ d \notin Stored => "overtaken" \in mishap[d]

DeleteOfStoredIsForeign ==
    \A d \in DocIDs : deleting[d] > 0 /\ d \in Stored => "foreign" \in mishap[d]

Consistent ==
    /\ TypeOK
    /\ OneDiaryEach
    /\ FreshIsUnknown
    /\ UploadOfGoneIsOvertaken
    /\ DeleteOfStoredIsForeign
    /\ OrphansExplained
    /\ LossesExplained

-----------------------------------------------------------------------------
(* Every call and answer of MemoryStore keeps the types. *)
THEOREM TypeCorrect == Spec => []TypeOK
<1>1. Init => TypeOK
  BY DEF Init, TypeOK
<1>2. TypeOK /\ [Next]_vars => TypeOK'
  <2> SUFFICES ASSUME TypeOK, [Next]_vars PROVE TypeOK'
    OBVIOUS
  <2> USE DEF TypeOK, Mishaps, Blame, UploadImage, ReplaceMemory
  <2>1. CASE \E u \in Users : SignIn(u)
    BY <2>1 DEF SignIn
  <2>2. CASE SignOut
    BY <2>2 DEF SignOut
  <2>3. ASSUME NEW d \in DocIDs, NEW picture \in BOOLEAN, SaveNewMemory(d, picture)
        PROVE  TypeOK'
    BY <2>3, NoUserAssumption DEF SaveNewMemory
  <2>4. ASSUME NEW d \in DocIDs, DeleteMemory(d) PROVE TypeOK'
    BY <2>4, NoUserAssumption DEF DeleteMemory
  <2>5. ASSUME NEW d \in DocIDs, StorageAnswers(d) PROVE TypeOK'
    <3>1. CASE ClearDone(d)    BY <3>1 DEF ClearDone
    <3>2. CASE PutDone(d)      BY <3>2 DEF PutDone
    <3>3. CASE PutFailed(d)    BY <3>3 DEF PutFailed
    <3>4. CASE DeleteDone(d)   BY <3>4 DEF DeleteDone
    <3>5. CASE DeleteFailed(d) BY <3>5 DEF DeleteFailed
    <3> QED BY <2>5, <3>1, <3>2, <3>3, <3>4, <3>5 DEF StorageAnswers
  <2>6. CASE Killed
    BY <2>6 DEF Killed
  <2>7. CASE UNCHANGED vars
    BY <2>7 DEF vars
  <2> QED
    BY <2>1, <2>2, <2>3, <2>4, <2>5, <2>6, <2>7 DEF Next
<1> QED
  BY <1>1, <1>2, PTL DEF Spec

-----------------------------------------------------------------------------
(* One lemma per kind of step: each keeps Consistent. *)

\* The signed in account is no part of Consistent.
LEMMA AccountSteps ==
  ASSUME Consistent, SignOut \/ \E u \in Users : SignIn(u), TypeOK'
  PROVE  Consistent'
BY DEF Consistent, SignIn, SignOut, OneDiaryEach, FreshIsUnknown, UploadOfGoneIsOvertaken,
       DeleteOfStoredIsForeign, OrphansExplained, OrphanExplained, LossesExplained,
       LossExplained, Stored

\* Saving stores a fresh name, so only the saved document changes, and it is
\* stored with an upload under way if it has a picture.
LEMMA SaveStep ==
  ASSUME Consistent, TypeOK',
         NEW d \in DocIDs, NEW picture \in BOOLEAN, SaveNewMemory(d, picture)
  PROVE  Consistent'
<1> USE DEF Consistent, SaveNewMemory, ReplaceMemory, UploadImage
<1>0. currentUser \in Users
  BY DEF TypeOK
<1>1. docs' = [docs EXCEPT ![currentUser] = @ \cup {d}]
  OBVIOUS
<1>2. Stored' = Stored \cup {d}
  BY <1>0, <1>1 DEF Stored, TypeOK
<1>3. \A e \in DocIDs : e # d => upload'[e] = upload[e]
  BY DEF TypeOK
<1>4. picture => upload'[d] = "clearing"
  BY DEF TypeOK
<1>5. upload[d] = "none" /\ deleting[d] = 0 /\ d \notin pictured /\ d \notin images
  BY DEF FreshIsUnknown
<1>6. OneDiaryEach'
  BY <1>0, <1>1 DEF OneDiaryEach, FreshIsUnknown, TypeOK
<1>7. FreshIsUnknown'
  BY <1>0, <1>1, <1>3 DEF FreshIsUnknown, TypeOK
<1>8. UploadOfGoneIsOvertaken'
  BY <1>2, <1>3 DEF UploadOfGoneIsOvertaken
<1>9. DeleteOfStoredIsForeign'
  BY <1>2, <1>5 DEF DeleteOfStoredIsForeign
<1>10. OrphansExplained'
  BY <1>2 DEF OrphansExplained, OrphanExplained
<1>11. LossesExplained'
  BY <1>2, <1>3, <1>4, <1>5 DEF LossesExplained, LossExplained
<1> QED
  BY <1>6, <1>7, <1>8, <1>9, <1>10, <1>11

\* Deleting takes the document out of the diary it is in, or out of none.
LEMMA DeleteStep ==
  ASSUME Consistent, TypeOK', NEW d \in DocIDs, DeleteMemory(d)
  PROVE  Consistent'
<1> USE DEF Consistent, DeleteMemory, Blame
<1>0. currentUser \in Users
  BY DEF TypeOK
<1>1. docs' = [docs EXCEPT ![currentUser] = @ \ {d}]
  OBVIOUS
<1>2. \A e \in DocIDs : e # d => (e \in Stored' <=> e \in Stored)
  BY <1>0, <1>1 DEF Stored, TypeOK
<1>3. d \in Stored' <=> d \in Stored \ docs[currentUser]
  BY <1>0, <1>1 DEF Stored, TypeOK, OneDiaryEach
<1>4. \A e \in DocIDs : e # d => deleting'[e] = deleting[e] /\ mishap'[e] = mishap[e]
  BY DEF TypeOK
<1>5. deleting'[d] = deleting[d] + 1 /\ deleting'[d] > 0
  BY DEF TypeOK
<1>6. /\ mishap[d] \subseteq mishap'[d]
      /\ upload[d] # "none" => "overtaken" \in mishap'[d]
      /\ d \in Stored \ docs[currentUser] => "foreign" \in mishap'[d]
  BY DEF TypeOK
<1>7. OneDiaryEach'
  BY <1>0, <1>1 DEF OneDiaryEach, TypeOK
<1>8. FreshIsUnknown'
  BY <1>0, <1>1, <1>4 DEF FreshIsUnknown, TypeOK
<1>9. UploadOfGoneIsOvertaken'
  BY <1>2, <1>4, <1>6 DEF UploadOfGoneIsOvertaken
<1>10. DeleteOfStoredIsForeign'
  BY <1>2, <1>3, <1>4, <1>6 DEF DeleteOfStoredIsForeign
<1>11. OrphansExplained'
  BY <1>2, <1>4, <1>5 DEF OrphansExplained, OrphanExplained
<1>12. LossesExplained'
  BY <1>2, <1>3, <1>4, <1>6 DEF LossesExplained, LossExplained
<1> QED
  BY <1>7, <1>8, <1>9, <1>10, <1>11, <1>12

\* The answers of Storage and the death of the app change no document.
LEMMA AnswerStep ==
  ASSUME Consistent, TypeOK', NEW d \in DocIDs, StorageAnswers(d)
  PROVE  Consistent'
<1> USE DEF Consistent, OneDiaryEach, FreshIsUnknown, UploadOfGoneIsOvertaken,
            DeleteOfStoredIsForeign, OrphansExplained, OrphanExplained, LossesExplained,
            LossExplained, Stored, Blame, TypeOK
<1>1. CASE ClearDone(d)
  BY <1>1 DEF ClearDone
<1>2. CASE PutDone(d)
  BY <1>2 DEF PutDone
<1>3. CASE PutFailed(d)
  BY <1>3 DEF PutFailed
<1>4. CASE DeleteDone(d)
  BY <1>4 DEF DeleteDone
<1>5. CASE DeleteFailed(d)
  BY <1>5 DEF DeleteFailed
<1> QED
  BY <1>1, <1>2, <1>3, <1>4, <1>5 DEF StorageAnswers

LEMMA KilledStep ==
  ASSUME Consistent, TypeOK', Killed
  PROVE  Consistent'
<1> USE DEF Consistent, Killed
<1>1. Stored' = Stored
  BY DEF Stored
<1>2. \A d \in DocIDs :
        /\ upload'[d] = "none" /\ deleting'[d] = 0
        /\ mishap[d] \subseteq mishap'[d]
        /\ upload[d] # "none" => "uploadLost" \in mishap'[d]
        /\ deleting[d] > 0 => "deleteLost" \in mishap'[d]
  OBVIOUS
<1>3. OneDiaryEach' /\ FreshIsUnknown'
  BY <1>2 DEF OneDiaryEach, FreshIsUnknown
<1>4. UploadOfGoneIsOvertaken' /\ DeleteOfStoredIsForeign'
  BY <1>1, <1>2 DEF UploadOfGoneIsOvertaken, DeleteOfStoredIsForeign
<1>5. OrphansExplained'
  BY <1>1, <1>2 DEF OrphansExplained, OrphanExplained
<1>6. LossesExplained'
  BY <1>1, <1>2 DEF LossesExplained, LossExplained
<1> QED
  BY <1>3, <1>4, <1>5, <1>6

(* The inductive invariant: everything Consistent says holds always. *)
THEOREM ConsistentAlways == Spec => []Consistent
<1>1. Init => Consistent
  BY DEF Init, Consistent, TypeOK, OneDiaryEach, FreshIsUnknown, UploadOfGoneIsOvertaken,
         DeleteOfStoredIsForeign, OrphansExplained, OrphanExplained, LossesExplained,
         LossExplained, Stored
<1>2. TypeOK' /\ Consistent /\ [Next]_vars => Consistent'
  <2> SUFFICES ASSUME TypeOK', Consistent, [Next]_vars PROVE Consistent'
    OBVIOUS
  <2>1. CASE UNCHANGED vars
    BY <2>1 DEF vars, Consistent, TypeOK, OneDiaryEach, FreshIsUnknown,
         UploadOfGoneIsOvertaken, DeleteOfStoredIsForeign, OrphansExplained,
         OrphanExplained, LossesExplained, LossExplained, Stored
  <2> QED
    BY <2>1, AccountSteps, SaveStep, DeleteStep, AnswerStep, KilledStep DEF Next
<1> QED
  BY <1>1, <1>2, TypeCorrect, PTL DEF Spec

(* A picture without a memory is about to go, or a mishap explains it. *)
THEOREM OrphansAreExplained == Spec => []OrphansExplained
<1>1. Consistent => OrphansExplained
  BY DEF Consistent
<1> QED
  BY <1>1, ConsistentAlways, PTL

(* A memory saved with a picture has it, or a mishap explains why not. *)
THEOREM LossesAreExplained == Spec => []LossesExplained
<1>1. Consistent => LossesExplained
  BY DEF Consistent
<1> QED
  BY <1>1, ConsistentAlways, PTL

(* No step stores a document under a name that was used before. *)
THEOREM NothingComesBack == Spec => DeletedStaysDeleted
<1> DEFINE Stays == \A d \in used : d \in Stored' => \E u \in Users : d \in docs[u] /\ d \in docs'[u]
<1>1. TypeOK /\ [Next]_vars => [Stays]_vars
  <2> SUFFICES ASSUME TypeOK, Next PROVE Stays
    OBVIOUS
  <2>1. ASSUME NEW d \in DocIDs, NEW picture \in BOOLEAN, SaveNewMemory(d, picture)
        PROVE  Stays
    BY <2>1 DEF SaveNewMemory, ReplaceMemory, Stored, TypeOK
  <2>2. ASSUME NEW d \in DocIDs, DeleteMemory(d)
        PROVE  Stays
    BY <2>2 DEF DeleteMemory, Stored, TypeOK
  <2>3. CASE UNCHANGED docs
    BY <2>3 DEF Stored
  <2>4. (\E u \in Users : SignIn(u)) \/ SignOut \/ Killed
          \/ (\E d \in DocIDs : StorageAnswers(d)) => UNCHANGED docs
    BY DEF SignIn, SignOut, Killed, StorageAnswers, ClearDone, PutDone, PutFailed,
           DeleteDone, DeleteFailed
  <2> QED
    BY <2>1, <2>2, <2>3, <2>4 DEF Next
<1> QED
  BY <1>1, TypeCorrect, PTL DEF Spec, DeletedStaysDeleted
=============================================================================
