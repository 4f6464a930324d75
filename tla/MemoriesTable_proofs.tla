------------------------ MODULE MemoriesTable_proofs ------------------------
(***************************************************************************)
(* Theorems about the list of memories.  The invariants come in layers,    *)
(* each proved with the help of those before it:                           *)
(*                                                                         *)
(*   Typed        the types, and no row selected but under its details;    *)
(*   Filing       names and authors;                                       *)
(*   OneAtATime   array, rows and saves while no gesture overlaps another; *)
(*   Quiet        array and store while the user gives no cause for        *)
(*                trouble at all.                                          *)
(***************************************************************************)
EXTENDS MemoriesTable, TLAPS

\* A row is selected only while its details are open, so no memory is saved as
\* an edit.
Selection ==
    /\ selected # 0 => screen = "details"
    /\ \A s \in saves : s.row = 0

Listed == fetch # "none" => listOwner \in Users

Typed == TypeOK /\ Selection /\ Listed

-----------------------------------------------------------------------------
(* Sequences. *)

LEMMA RemoveAtFacts ==
  ASSUME NEW S, NEW ids \in Seq(S), NEW i \in 1..Len(ids)
  PROVE  /\ RemoveAt(ids, i) \in Seq(S)
         /\ Len(RemoveAt(ids, i)) = Len(ids) - 1
         /\ \A j \in 1..Len(ids) - 1 :
                RemoveAt(ids, i)[j] = IF j < i THEN ids[j] ELSE ids[j + 1]
<1> DEFINE a == SubSeq(ids, 1, i - 1)
           b == SubSeq(ids, i + 1, Len(ids))
<1>1. /\ a \in Seq(S) /\ Len(a) = i - 1
      /\ \A j \in 1..i - 1 : a[j] = ids[j]
  OBVIOUS
<1>2. /\ b \in Seq(S) /\ Len(b) = Len(ids) - i
      /\ \A j \in 1..Len(ids) - i : b[j] = ids[j + i]
  OBVIOUS
<1>3. RemoveAt(ids, i) = a \o b
  BY DEF RemoveAt
<1> HIDE DEF a, b
<1>4. a \o b \in Seq(S) /\ Len(a \o b) = Len(ids) - 1
  <2>1. a \in Seq(S) /\ b \in Seq(S)
    BY <1>1, <1>2
  <2>2. a \o b \in Seq(S) /\ Len(a \o b) = Len(a) + Len(b)
    BY <2>1
  <2> QED
    BY <1>1, <1>2, <2>2
<1>5. ASSUME NEW j \in 1..Len(ids) - 1
      PROVE  (a \o b)[j] = IF j < i THEN ids[j] ELSE ids[j + 1]
  <2>1. (a \o b)[j] = IF j <= Len(a) THEN a[j] ELSE b[j - Len(a)]
    BY <1>1, <1>2
  <2>2. ASSUME j < i PROVE (a \o b)[j] = ids[j]
    BY <1>1, <2>1, <2>2
  <2>3. ASSUME ~(j < i) PROVE (a \o b)[j] = ids[j + 1]
    <3>1. j - (i - 1) \in 1..Len(ids) - i
      BY <2>3
    <3> QED
      BY <1>1, <1>2, <2>1, <2>3, <3>1
  <2> QED
    BY <2>2, <2>3
<1> QED
  BY <1>3, <1>4, <1>5

LEMMA ConsFacts ==
  ASSUME NEW S, NEW ids \in Seq(S), NEW e \in S
  PROVE  /\ Cons(e, ids) \in Seq(S)
         /\ Len(Cons(e, ids)) = Len(ids) + 1
         /\ Cons(e, ids)[1] = e
         /\ \A j \in 1..Len(ids) : Cons(e, ids)[j + 1] = ids[j]
BY DEF Cons

-----------------------------------------------------------------------------
(* The store's own types, over what the list may do to it. *)

LEMMA StoreTypeStep ==
  ASSUME Store!TypeOK, Store!Next
  PROVE  Store!TypeOK'
<1> USE StoreAssumption
    DEF Store!TypeOK, Store!Mishaps, Store!Blame, Store!UploadImage, Store!ReplaceMemory
<1>1. CASE \E u \in Users : Store!SignIn(u)
  BY <1>1 DEF Store!SignIn
<1>2. CASE Store!SignOut
  BY <1>2 DEF Store!SignOut
<1>3. ASSUME NEW d \in DocIDs, NEW picture \in BOOLEAN, Store!SaveNewMemory(d, picture)
      PROVE  Store!TypeOK'
  BY <1>3 DEF Store!SaveNewMemory
<1>4. ASSUME NEW d \in DocIDs, Store!DeleteMemory(d) PROVE Store!TypeOK'
  BY <1>4 DEF Store!DeleteMemory
<1>5. ASSUME NEW d \in DocIDs, Store!StorageAnswers(d) PROVE Store!TypeOK'
  <2>1. CASE Store!ClearDone(d)    BY <2>1 DEF Store!ClearDone
  <2>2. CASE Store!PutDone(d)      BY <2>2 DEF Store!PutDone
  <2>3. CASE Store!PutFailed(d)    BY <2>3 DEF Store!PutFailed
  <2>4. CASE Store!DeleteDone(d)   BY <2>4 DEF Store!DeleteDone
  <2>5. CASE Store!DeleteFailed(d) BY <2>5 DEF Store!DeleteFailed
  <2> QED BY <1>5, <2>1, <2>2, <2>3, <2>4, <2>5 DEF Store!StorageAnswers
<1>6. CASE Store!Killed
  BY <1>6 DEF Store!Killed
<1> QED
  BY <1>1, <1>2, <1>3, <1>4, <1>5, <1>6 DEF Store!Next

-----------------------------------------------------------------------------
(* The types, and that every step is a step of the store or none. *)

\* How far the phrases thread may be.
LEMMA SavingCases ==
  ASSUME TypeOK
  PROVE  \/ saving = Idle /\ saving.step = "idle"
         \/ saving.step = "stored" /\ saving.id \in DocIDs
         \/ saving.step = "inserting" /\ saving.id \in DocIDs /\ saving.copy \in Seq(DocIDs)
<1>1. \/ saving = Idle \/ saving \in [step: {"stored"}, id: DocIDs]
      \/ saving \in [step: {"inserting"}, id: DocIDs, copy: Seq(DocIDs)]
  BY DEF TypeOK
<1> QED
  BY <1>1 DEF Idle

\* Every change of account, whichever way it goes.
ChangesAccount == SignOut \/ \E u \in Users : SignIn(u)

Crossed(s) == [s EXCEPT !.crossed = TRUE]

\* It touches no list and no document, and marks what is still to be stored.
LEMMA AccountStep ==
  ASSUME ChangesAccount
  PROVE  /\ Running /\ UNCHANGED <<docs, used, listVars, viewVars, saving, inserts, clock, written,
                                  lost, crashed>>
         /\ saves' = {Crossed(s) : s \in saves}
         /\ lapse \subseteq lapse' /\ lapse' \subseteq lapse \cup {"leftMidSave", "switch"}
         /\ saves # {} => "leftMidSave" \in lapse'
         /\ fetch # "none" /\ "switch" \notin lapse' => currentUser' \in {NoUser, listOwner}
BY DEF ChangesAccount, Crossed, SignIn, SignOut, LeaveMidSave, MidSave, Store!SignIn, Store!SignOut

LEMMA CrossedFacts ==
  ASSUME Typed, NEW s \in saves
  PROVE  Crossed(s) \in Saves /\ Crossed(s).row = 0 /\ Crossed(s).crossed /\ Crossed(s).date = s.date
<1>1. s \in Saves /\ s.row = 0
  BY DEF Typed, TypeOK, Selection
<1> QED
  BY <1>1 DEF Saves, Crossed

\* Each save is of a new memory.
LEMMA PhrasesStore ==
  ASSUME Typed, NEW s \in saves, PhrasesAnswer(s), currentUser # NoUser
  PROVE  /\ saves' = saves \ {s} /\ UNCHANGED crashed
         /\ \E d \in DocIDs :
                /\ Store!SaveNewMemory(d, s.picture)
                /\ Write(s, d)
                /\ saving' = [step |-> "stored", id |-> d]
BY DEF Typed, Selection, PhrasesAnswer, StoreNew

LEMMA StoreStep ==
  ASSUME Typed, Next
  PROVE  Store!Next \/ UNCHANGED storeVars
<1>1. ASSUME NEW u \in Users, SignIn(u)
      PROVE  Store!Next
  BY <1>1 DEF SignIn, Store!Next
<1>2. CASE SignOut
  BY <1>2 DEF SignOut, Store!Next
<1>3. CASE ViewDidLoad \/ FetchReads \/ FetchAnswers \/ FetchFails
  BY <1>3 DEF ViewDidLoad, FetchReads, FetchAnswers, FetchFails
<1>4. ASSUME NEW i \in 1..Len(rows), DeleteRow(i)
      PROVE  Store!Next \/ UNCHANGED storeVars
  <2>1. CASE i > Len(documentIDs)
    BY <1>4, <2>1 DEF DeleteRow
  <2>2. CASE ~(i > Len(documentIDs))
    <3>1. documentIDs \in Seq(DocIDs) /\ rows \in Seq(DocIDs)
      BY DEF Typed, TypeOK
    <3>2. documentIDs[i] \in DocIDs
      BY <2>2, <3>1
    <3>3. Store!DeleteMemory(documentIDs[i])
      BY <1>4, <2>2 DEF DeleteRow
    <3> QED
      BY <3>2, <3>3 DEF Store!Next
  <2> QED
    BY <2>1, <2>2
<1>5. ASSUME NEW i \in 1..Len(rows), SelectRow(i)
      PROVE  UNCHANGED storeVars
  BY <1>5 DEF SelectRow
<1>6. CASE BackFromDetails \/ Compose \/ Cancel \/ ViewDidAppear \/ AlertTimer
  BY <1>6 DEF BackFromDetails, Compose, Cancel, ViewDidAppear, AlertTimer
<1>7. ASSUME NEW picture \in Pictures, Save(picture)
      PROVE  UNCHANGED storeVars
  BY <1>7 DEF Save
<1>8. ASSUME NEW s \in saves, PhrasesAnswer(s)
      PROVE  Store!Next \/ UNCHANGED storeVars
  <2>1. CASE currentUser = NoUser
    BY <1>8, <2>1 DEF PhrasesAnswer
  <2>2. CASE currentUser # NoUser
    <3>1. s.picture \in BOOLEAN
      BY PicturesAssumption DEF Typed, TypeOK, Saves
    <3> QED
      BY <1>8, <2>2, <3>1, PhrasesStore DEF Store!Next
  <2> QED
    BY <2>1, <2>2
<1>9. ASSUME NEW s \in saves, PhrasesTrap(s)
      PROVE  UNCHANGED storeVars
  BY <1>9 DEF PhrasesTrap
<1>10. CASE InsertReads \/ InsertWrites \/ InsertRows
  BY <1>10 DEF InsertReads, InsertWrites, InsertRows
<1>11. CASE Relaunch
  BY <1>11 DEF Relaunch, Store!Next
<1>12. ASSUME NEW d \in DocIDs, StorageAnswers(d)
       PROVE  Store!Next
  BY <1>12 DEF StorageAnswers, Store!Next
<1> QED
  BY <1>1, <1>2, <1>3, <1>4, <1>5, <1>6, <1>7, <1>8, <1>9, <1>10, <1>11, <1>12 DEF Next

LEMMA TypedStep ==
  ASSUME Typed, Next
  PROVE  Typed'
<1> USE DEF listVars, viewVars, saveVars
<1>1. Store!TypeOK'
  <2>1. Store!TypeOK
    BY DEF Typed, TypeOK
  <2>2. CASE Store!Next
    BY <2>1, <2>2, StoreTypeStep
  <2>3. CASE UNCHANGED storeVars
    BY <2>1, <2>3 DEF storeVars, Store!TypeOK
  <2> QED
    BY <2>2, <2>3, StoreStep
<1>2. currentUser \in Users \cup {NoUser} /\ docs \in [Users -> SUBSET DocIDs]
  BY DEF Typed, TypeOK, Store!TypeOK
<1>3. CASE ChangesAccount
  <2>1. /\ saves' = {Crossed(s) : s \in saves} /\ lapse' \subseteq lapse \cup {"leftMidSave", "switch"}
        /\ UNCHANGED <<listVars, viewVars, saving, inserts, clock, written, lost, crashed>>
    BY <1>3, AccountStep
  <2>2. saves' \in SUBSET Saves /\ \A s \in saves' : s.row = 0
    BY <2>1, CrossedFacts
  <2>3. lapse' \in SUBSET Lapses
    BY <2>1 DEF Typed, TypeOK, Lapses
  <2> QED
    BY <1>1, <2>1, <2>2, <2>3 DEF Typed, TypeOK, Selection, Listed
<1>5. CASE ViewDidLoad
  BY <1>1, <1>2, <1>5 DEF ViewDidLoad, Typed, TypeOK, Selection, Listed
<1>6. CASE FetchReads
  <2>1. /\ fetch' = "read" /\ fetched' \in BoundedSeq(docs[listOwner], MaxSaves)
        /\ UNCHANGED <<storeVars, listOwner, documentIDs, rows, selected, viewVars, saveVars,
                       crashed, lapse>>
    BY <1>6 DEF FetchReads
  <2>2. fetched' \in Seq(DocIDs)
    <3>1. PICK n \in 0..MaxSaves : fetched' \in [1..n -> docs[listOwner]]
      BY <2>1 DEF BoundedSeq, SeqOf
    <3>2. docs[listOwner] \subseteq DocIDs
      BY <1>2, <1>6 DEF FetchReads, Typed, Listed
    <3>3. fetched' \in [1..n -> DocIDs] /\ n \in Nat
      BY <3>1, <3>2, MaxSavesAssumption
    <3> QED
      BY <3>3
  <2>3. TypeOK'
    BY <1>1, <2>1, <2>2 DEF Typed, TypeOK
  <2>4. Selection' /\ Listed'
    BY <2>1, <1>6 DEF Typed, Selection, Listed, FetchReads
  <2> QED
    BY <2>3, <2>4 DEF Typed
<1>7. CASE FetchAnswers
  <2>1. /\ fetch = "read" /\ fetch' = "done" /\ documentIDs' = fetched /\ rows' = fetched /\ selected' = 0
        /\ UNCHANGED <<fetched, listOwner, viewVars, saveVars, crashed, lapse>>
    BY <1>7 DEF FetchAnswers
  <2>2. fetched \in Seq(DocIDs) /\ documentIDs' \in Seq(DocIDs) /\ rows' \in Seq(DocIDs)
    BY <2>1 DEF Typed, TypeOK
  <2>3. selected' \in 0..Len(rows')
    BY <2>1, <2>2
  <2>4. TypeOK'
    BY <1>1, <2>1, <2>2, <2>3 DEF Typed, TypeOK
  <2>5. Selection' /\ Listed'
    BY <2>1 DEF Typed, Selection, Listed
  <2> QED
    BY <2>4, <2>5 DEF Typed
<1>7a. CASE FetchFails
  BY <1>1, <1>7a DEF FetchFails, Typed, TypeOK, Selection, Listed
<1>8. ASSUME NEW i \in 1..Len(rows), SelectRow(i)
      PROVE  Typed'
  BY <1>1, <1>8 DEF SelectRow, Typed, TypeOK, Selection, Listed
<1>9. ASSUME NEW i \in 1..Len(rows), DeleteRow(i)
      PROVE  Typed'
  <2>1. documentIDs \in Seq(DocIDs) /\ rows \in Seq(DocIDs)
    BY DEF Typed, TypeOK
  <2>2. /\ screen = "list"
        /\ UNCHANGED <<fetch, fetched, listOwner, selected, viewVars, saveVars>>
        /\ lapse' = lapse \/ lapse' = lapse \cup {"overlap"}
        /\ \/ UNCHANGED <<documentIDs, rows>> /\ crashed' = "index"
           \/ /\ i \in 1..Len(documentIDs) /\ documentIDs' = RemoveAt(documentIDs, i)
              /\ \/ rows' = RemoveAt(rows, i) /\ UNCHANGED crashed
                 \/ UNCHANGED rows /\ crashed' = "rows"
    BY <1>9, <2>1 DEF DeleteRow, Crash, NoteOverlap
  <2>3. documentIDs' \in Seq(DocIDs)
    BY <2>1, <2>2, RemoveAtFacts
  <2>4. rows' \in Seq(DocIDs)
    BY <2>1, <2>2, RemoveAtFacts
  <2>5. selected = 0
    BY <2>2 DEF Typed, Selection
  <2>6. selected' \in 0..Len(rows')
    BY <2>2, <2>4, <2>5
  <2>7. lapse' \in SUBSET Lapses
    BY <2>2 DEF Typed, TypeOK, Lapses
  <2>8. crashed' \in {"no", "rows", "index", "race", "nouser", "reply"}
    BY <2>2 DEF Typed, TypeOK
  <2>9. TypeOK'
    BY <1>1, <2>2, <2>3, <2>4, <2>6, <2>7, <2>8 DEF Typed, TypeOK
  <2>10. Selection' /\ Listed'
    BY <2>2, <2>5 DEF Typed, Selection, Listed
  <2> QED
    BY <2>9, <2>10 DEF Typed
<1>10. CASE BackFromDetails \/ Compose \/ Cancel
  <2>1. /\ selected' = 0 /\ screen' \in {"list", "compose"}
        /\ UNCHANGED <<fetch, fetched, listOwner, documentIDs, rows, cameBack, alert, saveVars,
                       crashed, lapse>>
    BY <1>10 DEF BackFromDetails, Compose, Cancel, Typed, Selection
  <2>2. selected' \in 0..Len(rows')
    BY <2>1 DEF Typed, TypeOK
  <2>3. TypeOK'
    BY <1>1, <2>1, <2>2 DEF Typed, TypeOK
  <2>4. Selection' /\ Listed'
    BY <2>1 DEF Typed, Selection, Listed
  <2> QED
    BY <2>3, <2>4 DEF Typed
<1>10a. CASE ViewDidAppear \/ AlertTimer
  BY <1>1, <1>10a DEF ViewDidAppear, AlertTimer, Typed, TypeOK, Selection, Listed
<1>11. ASSUME NEW picture \in Pictures, Save(picture)
       PROVE  Typed'
  <2>1. /\ screen = "compose" /\ currentUser # NoUser
        /\ clock < MaxSaves /\ clock' = clock + 1
        /\ saves' = saves \cup {[date |-> clock + 1, author |-> currentUser, row |-> selected,
                                  picture |-> picture, crossed |-> FALSE]}
        /\ cameBack' = TRUE /\ screen' = "list" /\ selected' = 0
        /\ lapse' = lapse \/ lapse' = lapse \cup {"overlap"}
        /\ UNCHANGED <<fetch, fetched, listOwner, documentIDs, rows, alert, saving, inserts,
                       written, lost, crashed>>
    BY <1>11 DEF Save, Touchable, NoteOverlap
  <2>2. selected = 0
    BY <2>1 DEF Typed, Selection
  <2>3. clock' \in 0..MaxSaves /\ clock + 1 \in 1..MaxSaves
    BY <2>1, MaxSavesAssumption DEF Typed, TypeOK
  <2>4. saves' \in SUBSET Saves /\ \A s \in saves' : s.row = 0
    <3> DEFINE new == [date |-> clock + 1, author |-> currentUser, row |-> selected,
                       picture |-> picture, crossed |-> FALSE]
    <3>1. picture \in BOOLEAN /\ currentUser \in Users /\ selected \in Nat
      BY <1>2, <2>1, <2>2, PicturesAssumption
    <3>2. new \in Saves
      BY <2>3, <3>1 DEF Saves
    <3>3. new.row = 0
      BY <2>2
    <3>4. saves' = saves \cup {new}
      BY <2>1
    <3> HIDE DEF new
    <3> QED
      BY <3>2, <3>3, <3>4 DEF Typed, TypeOK, Selection
  <2>5. selected' \in 0..Len(rows')
    BY <2>1 DEF Typed, TypeOK
  <2> QED
    BY <1>1, <2>1, <2>3, <2>4, <2>5 DEF Typed, TypeOK, Selection, Listed, Lapses
<1>12. ASSUME NEW s \in saves, PhrasesAnswer(s)
       PROVE  Typed'
  <2>1. UNCHANGED <<listVars, viewVars, inserts, clock, lost, lapse>>
    BY <1>12 DEF PhrasesAnswer
  <2>2. CASE currentUser = NoUser
    <3>1. crashed' = "nouser" /\ UNCHANGED <<saves, saving, written>>
      BY <1>12, <2>2 DEF PhrasesAnswer, Crash
    <3> QED
      BY <1>1, <2>1, <3>1 DEF Typed, TypeOK, Selection, Listed
  <2>3. CASE currentUser # NoUser
    <3>1. PICK d \in DocIDs : Write(s, d) /\ saving' = [step |-> "stored", id |-> d]
      BY <1>12, <2>3, PhrasesStore
    <3>2. saves' = saves \ {s} /\ UNCHANGED crashed
      BY <1>12, <2>3, PhrasesStore
    <3>3. s \in Saves
      BY DEF Typed, TypeOK
    <3>4. [date |-> s.date, author |-> s.author, crossed |-> s.crossed]
              \in [date: 0..MaxSaves, author: Users \cup {NoUser}, crossed: BOOLEAN]
      BY <3>3 DEF Saves
    <3>5. written' \in [DocIDs -> [date: 0..MaxSaves, author: Users \cup {NoUser}, crossed: BOOLEAN]]
      BY <3>1, <3>4 DEF Typed, TypeOK, Write
    <3> QED
      BY <1>1, <2>1, <3>1, <3>2, <3>5 DEF Typed, TypeOK, Selection, Listed
  <2> QED
    BY <2>2, <2>3
<1>13. ASSUME NEW s \in saves, PhrasesTrap(s)
       PROVE  Typed'
  BY <1>1, <1>13 DEF PhrasesTrap, Crash, Typed, TypeOK, Selection, Listed
<1>14. CASE InsertReads
  <2>1. /\ saving.step = "stored"
        /\ saving' = [step |-> "inserting", id |-> saving.id, copy |-> documentIDs]
        /\ UNCHANGED <<listVars, viewVars, saves, inserts, clock, written, lost, crashed, lapse>>
    BY <1>14 DEF InsertReads
  <2>2. saving' \in [step: {"inserting"}, id: DocIDs, copy: Seq(DocIDs)]
    BY <2>1, SavingCases DEF Typed, TypeOK
  <2> QED
    BY <1>1, <2>1, <2>2 DEF Typed, TypeOK, Selection, Listed
<1>14a. CASE InsertWrites
  <2>1. /\ saving.step = "inserting" /\ saving' = Idle
        /\ documentIDs' = Cons(saving.id, saving.copy) \/ UNCHANGED documentIDs
        /\ inserts' = inserts + 1 \/ UNCHANGED inserts
        /\ UNCHANGED crashed \/ crashed' = "race"
        /\ UNCHANGED <<fetch, fetched, listOwner, rows, selected, viewVars, saves, clock, written,
                       lost, lapse>>
    BY <1>14a DEF InsertWrites, Crash
  <2>2. documentIDs' \in Seq(DocIDs)
    <3>1. saving.id \in DocIDs /\ saving.copy \in Seq(DocIDs)
      BY <2>1, SavingCases DEF Typed
    <3>2. Cons(saving.id, saving.copy) \in Seq(DocIDs)
      BY <3>1, ConsFacts
    <3> QED
      BY <2>1, <3>2 DEF Typed, TypeOK
  <2>3. inserts' \in Nat
    BY <2>1 DEF Typed, TypeOK
  <2> QED
    BY <1>1, <2>1, <2>2, <2>3 DEF Typed, TypeOK, Selection, Listed
<1>15. CASE InsertRows
  <2>1. /\ inserts > 0 /\ inserts' = inserts - 1 /\ alert' = FALSE
        /\ \/ /\ Len(documentIDs) = Len(rows) + 1
              /\ rows' = Cons(documentIDs[1], rows)
              /\ selected' = IF selected > 0 THEN selected + 1 ELSE 0
              /\ UNCHANGED crashed
           \/ crashed' = "rows" /\ UNCHANGED <<rows, selected>>
        /\ UNCHANGED <<fetch, fetched, listOwner, documentIDs, screen, cameBack, saves,
                       saving, clock, written, lost, lapse>>
    BY <1>15 DEF InsertRows, Crash
  <2>2. documentIDs \in Seq(DocIDs) /\ rows \in Seq(DocIDs) /\ selected \in 0..Len(rows)
    BY DEF Typed, TypeOK
  <2>3. rows' \in Seq(DocIDs) /\ selected' \in 0..Len(rows')
    <3>1. CASE UNCHANGED <<rows, selected>>
      BY <2>2, <3>1
    <3>2. CASE Len(documentIDs) = Len(rows) + 1 /\ rows' = Cons(documentIDs[1], rows)
               /\ selected' = IF selected > 0 THEN selected + 1 ELSE 0
      <4>1. documentIDs[1] \in DocIDs
        BY <2>2, <3>2
      <4>2. rows' \in Seq(DocIDs) /\ Len(rows') = Len(rows) + 1
        BY <2>2, <3>2, <4>1, ConsFacts
      <4> QED
        BY <2>2, <3>2, <4>2
    <3> QED
      BY <2>1, <3>1, <3>2
  <2>4. selected' # 0 => selected # 0
    BY <2>1, <2>2
  <2>5. inserts' \in Nat
    BY <2>1 DEF Typed, TypeOK
  <2> QED
    BY <1>1, <2>1, <2>3, <2>4, <2>5 DEF Typed, TypeOK, Selection, Listed
<1>16. CASE Relaunch
  <2>1. /\ fetch' = "none" /\ fetched' = <<>> /\ listOwner' = NoUser
        /\ documentIDs' = <<>> /\ rows' = <<>> /\ selected' = 0
        /\ screen' = "list" /\ cameBack' = FALSE /\ alert' = FALSE
        /\ saves' = {} /\ saving' = Idle /\ inserts' = 0
        /\ lost' = lost \cup {s.date : s \in saves}
        /\ crashed' = "no" /\ lapse' = {}
        /\ UNCHANGED <<clock, written>>
    BY <1>16 DEF Relaunch
  <2>2. lost' \in SUBSET (1..MaxSaves)
    BY <2>1 DEF Typed, TypeOK, Saves
  <2>3. fetched' \in Seq(DocIDs) /\ documentIDs' \in Seq(DocIDs) /\ rows' \in Seq(DocIDs)
        /\ selected' \in 0..Len(rows')
    BY <2>1
  <2> QED
    BY <1>1, <2>1, <2>2, <2>3 DEF Typed, TypeOK, Selection, Listed
<1>17. ASSUME NEW d \in DocIDs, StorageAnswers(d)
       PROVE  Typed'
  BY <1>1, <1>17 DEF StorageAnswers, Typed, TypeOK, Selection, Listed
<1> QED
  BY <1>3, <1>5, <1>6, <1>7, <1>7a, <1>8, <1>9, <1>10, <1>10a, <1>11, <1>12, <1>13,
     <1>14, <1>14a, <1>15, <1>16, <1>17 DEF Next, ChangesAccount
-----------------------------------------------------------------------------
(* The types hold always, and the list is a refinement of the store. *)

LEMMA TypedInit ==
  ASSUME Init
  PROVE  Typed
<1> USE DEF Init
<1>1. Store!TypeOK
  BY DEF Store!Init, Store!TypeOK
<1>2. written \in [DocIDs -> [date: 0..MaxSaves, author: Users \cup {NoUser}, crossed: BOOLEAN]]
  BY MaxSavesAssumption DEF NotWritten
<1>2a. fetched \in Seq(DocIDs) /\ documentIDs \in Seq(DocIDs) /\ rows \in Seq(DocIDs)
       /\ selected \in 0..Len(rows)
  OBVIOUS
<1>2b. inserts \in Nat /\ clock \in 0..MaxSaves
  BY MaxSavesAssumption
<1>3. TypeOK
  BY <1>1, <1>2, <1>2a, <1>2b DEF TypeOK
<1> QED
  BY <1>3 DEF Typed, Selection, Listed

LEMMA TypedAlways == Spec => []Typed
<1>1. Typed /\ UNCHANGED vars => Typed'
  BY DEF vars, storeVars, listVars, viewVars, saveVars, Typed, TypeOK, Selection, Listed,
         Store!TypeOK
<1> QED
  BY <1>1, TypedInit, TypedStep, PTL DEF Spec

(* Type correctness of the list and of the store under it. *)
THEOREM TypeCorrect == Spec => []TypeOK
BY TypedAlways, PTL DEF Typed

(* Every behaviour of the list is one of the store: each handler's calls of *)
(* Firestore and Cloud Storage add up to one step of MemoryStore or none.   *)
THEOREM Implements == Spec => StoreSafety
<1>1. Init => Store!Init
  BY DEF Init
<1>2. Typed /\ [Next]_vars => [Store!Next]_(Store!vars)
  <2>1. CASE Next
    BY <2>1, StoreStep DEF storeVars, Store!vars
  <2>2. CASE UNCHANGED vars
    BY <2>2 DEF vars, storeVars, Store!vars
  <2> QED
    BY <2>1, <2>2
<1> QED
  BY <1>1, <1>2, TypedAlways, PTL DEF Spec, StoreSafety, Store!Spec

-----------------------------------------------------------------------------
(* Names and authors. *)

\* Every name in sight was handed out, and who waits to be stored is signed in
\* or has seen the account change.
Filing ==
    /\ \A u \in Users : docs[u] \subseteq used
    /\ \A d \in DocIDs : written[d].date > 0 => d \in used
    /\ \A s \in saves : s.author = currentUser \/ s.crossed
    /\ (currentUser = NoUser /\ saves # {}) => "leftMidSave" \in lapse
    /\ crashed = "nouser" => "leftMidSave" \in lapse
    /\ FiledUnderItsAuthor

\* Most steps have nothing to do with it.
LEMMA NextFiling ==
  ASSUME Next
  PROVE  \/ ChangesAccount
         \/ \E picture \in Pictures : Save(picture)
         \/ \E i \in 1..Len(rows) : DeleteRow(i)
         \/ \E s \in saves : PhrasesAnswer(s)
         \/ Relaunch
         \/ /\ UNCHANGED <<currentUser, docs, used, saves, clock, written, lapse>>
            /\ crashed' = "nouser" => crashed = "nouser"
<1> USE DEF storeVars, listVars, viewVars, saveVars
<1>1. ViewDidLoad \/ FetchReads \/ FetchAnswers \/ FetchFails
        => UNCHANGED <<currentUser, docs, used, saves, clock, written, lapse, crashed>>
  BY DEF ViewDidLoad, FetchReads, FetchAnswers, FetchFails
<1>2. BackFromDetails \/ Compose \/ Cancel \/ ViewDidAppear \/ AlertTimer
        => UNCHANGED <<currentUser, docs, used, saves, clock, written, lapse, crashed>>
  BY DEF BackFromDetails, Compose, Cancel, ViewDidAppear, AlertTimer
<1>3. ASSUME NEW i \in 1..Len(rows), SelectRow(i)
      PROVE  UNCHANGED <<currentUser, docs, used, saves, clock, written, lapse, crashed>>
  BY <1>3 DEF SelectRow
<1>4. ASSUME NEW s \in saves, PhrasesTrap(s)
      PROVE  UNCHANGED <<currentUser, docs, used, saves, clock, written, lapse>> /\ crashed' = "reply"
  BY <1>4 DEF PhrasesTrap, Crash
<1>5. InsertReads \/ InsertWrites \/ InsertRows
        => /\ UNCHANGED <<currentUser, docs, used, saves, clock, written, lapse>>
           /\ UNCHANGED crashed \/ crashed' \in {"race", "rows"}
  BY DEF InsertReads, InsertWrites, InsertRows, Crash
<1>6. ASSUME NEW d \in DocIDs, StorageAnswers(d)
      PROVE  UNCHANGED <<currentUser, docs, used, saves, clock, written, lapse, crashed>>
  BY <1>6 DEF StorageAnswers, Store!StorageAnswers, Store!ClearDone, Store!PutDone,
              Store!PutFailed, Store!DeleteDone, Store!DeleteFailed
<1> QED
  BY <1>1, <1>2, <1>3, <1>4, <1>5, <1>6 DEF Next, ChangesAccount

LEMMA FilingStep ==
  ASSUME Typed, Filing, Next
  PROVE  Filing'
<1>1. CASE ChangesAccount
  <2>1. /\ UNCHANGED <<docs, used, written, crashed>>
        /\ saves' = {Crossed(s) : s \in saves}
        /\ lapse \subseteq lapse'
        /\ saves # {} => "leftMidSave" \in lapse'
    BY <1>1, AccountStep
  <2>2. \A s \in saves' : s.crossed
    BY <2>1, CrossedFacts
  <2> QED
    BY <2>1, <2>2 DEF Filing, FiledUnderItsAuthor
<1>3. ASSUME NEW picture \in Pictures, Save(picture)
      PROVE  Filing'
  <2>1. /\ UNCHANGED <<currentUser, docs, used, written, crashed>> /\ currentUser # NoUser
        /\ saves' = saves \cup {[date |-> clock + 1, author |-> currentUser, row |-> selected,
                                  picture |-> picture, crossed |-> FALSE]}
        /\ lapse \subseteq lapse'
    BY <1>3 DEF Save, Touchable, NoteOverlap, storeVars
  <2> QED
    BY <2>1 DEF Filing, FiledUnderItsAuthor
<1>4. ASSUME NEW i \in 1..Len(rows), DeleteRow(i)
      PROVE  Filing'
  <2>1. /\ UNCHANGED <<currentUser, used, saves, written>> /\ lapse \subseteq lapse'
        /\ UNCHANGED crashed \/ crashed' \in {"index", "rows"}
        /\ \/ UNCHANGED docs
           \/ docs' = [docs EXCEPT ![currentUser] = @ \ {documentIDs[i]}]
    BY <1>4 DEF DeleteRow, Store!DeleteMemory, NoteOverlap, Crash, storeVars, saveVars
  <2>2. \A u \in Users : docs'[u] \subseteq docs[u]
    BY <2>1 DEF Typed, TypeOK, Store!TypeOK
  <2> QED
    BY <2>1, <2>2 DEF Filing, FiledUnderItsAuthor
<1>5. ASSUME NEW s \in saves, PhrasesAnswer(s)
      PROVE  Filing'
  <2>1. UNCHANGED lapse
    BY <1>5 DEF PhrasesAnswer
  <2>2. CASE currentUser = NoUser
    BY <1>5, <2>1, <2>2 DEF PhrasesAnswer, Crash, storeVars, Filing, FiledUnderItsAuthor
  <2>3. CASE currentUser # NoUser
    <3>1. PICK d \in DocIDs : Store!SaveNewMemory(d, s.picture) /\ Write(s, d)
      BY <1>5, <2>3, PhrasesStore
    <3>2. saves' = saves \ {s} /\ UNCHANGED crashed
      BY <1>5, <2>3, PhrasesStore
    <3>3. /\ d \notin used /\ used' = used \cup {d} /\ UNCHANGED currentUser
          /\ docs' = [docs EXCEPT ![currentUser] = @ \cup {d}]
      BY <3>1 DEF Store!SaveNewMemory, Store!ReplaceMemory
    <3>4. /\ \A e \in DocIDs \ {d} : written'[e] = written[e]
          /\ written'[d].author = s.author /\ written'[d].crossed = s.crossed
      BY <3>1 DEF Write, Typed, TypeOK
    <3>5. currentUser \in Users /\ docs \in [Users -> SUBSET DocIDs]
      BY <2>3 DEF Typed, TypeOK, Store!TypeOK
    <3>6. \A u \in Users : docs'[u] \subseteq used' /\ (u # currentUser => docs'[u] = docs[u])
      BY <3>3, <3>5 DEF Filing
    <3>7. FiledUnderItsAuthor'
      <4> SUFFICES ASSUME NEW u \in Users, NEW e \in docs'[u]
                   PROVE  written'[e].author = u \/ written'[e].crossed
        BY DEF FiledUnderItsAuthor
      <4>1. CASE e = d
        <5>1. u = currentUser
          BY <3>3, <3>6, <4>1 DEF Filing
        <5> QED
          BY <3>4, <4>1, <5>1 DEF Filing
      <4>2. CASE e # d
        <5>1. e \in docs[u] /\ e \in DocIDs
          BY <3>3, <3>5, <4>2
        <5> QED
          BY <3>4, <4>2, <5>1 DEF Filing, FiledUnderItsAuthor
      <4> QED
        BY <4>1, <4>2
    <3> QED
      BY <2>1, <2>3, <3>2, <3>3, <3>4, <3>6, <3>7 DEF Filing
  <2> QED
    BY <2>2, <2>3
<1>6. CASE Relaunch
  BY <1>6 DEF Relaunch, Store!Killed, Filing, FiledUnderItsAuthor
<1>7. CASE /\ UNCHANGED <<currentUser, docs, used, saves, clock, written, lapse>>
           /\ crashed' = "nouser" => crashed = "nouser"
  BY <1>7 DEF Filing, FiledUnderItsAuthor
<1> QED
  BY <1>1, <1>3, <1>4, <1>5, <1>6, <1>7, NextFiling

LEMMA FilingAlways == Spec => [](Typed /\ Filing)
<1>1. Init => Filing
  BY DEF Init, Store!Init, Filing, FiledUnderItsAuthor, NotWritten
<1>2. Filing /\ UNCHANGED vars => Filing'
  BY DEF vars, storeVars, saveVars, Filing, FiledUnderItsAuthor
<1> QED
  BY <1>1, <1>2, FilingStep, TypedAlways, PTL DEF Spec

(* A memory is in the diary of its author, whatever list was on the screen, *)
(* unless the account changed before it was stored, by signing out or by    *)
(* the answer to another request to sign in.                                *)
THEOREM AuthorsKeepTheirMemories == Spec => []FiledUnderItsAuthor
BY FilingAlways, PTL DEF Filing

(* No row is selected when a memory is saved, and a new name is new: what a *)
(* document says never changes.                                             *)
THEOREM WrittenStaysWritten == Spec => SavesNeverOverwrite
<1> DEFINE Stays == \A d \in Written : written'[d] = written[d]
<1>1. Typed /\ Filing /\ [Next]_vars => [Stays]_vars
  <2> SUFFICES ASSUME Typed, Filing, Next PROVE Stays
    OBVIOUS
  <2>1. ASSUME NEW s \in saves, PhrasesAnswer(s) PROVE Stays
    <3>1. CASE currentUser = NoUser
      BY <2>1, <3>1 DEF PhrasesAnswer
    <3>2. CASE currentUser # NoUser
      <4>1. PICK d \in DocIDs : Store!SaveNewMemory(d, s.picture) /\ Write(s, d)
        BY <2>1, <3>2, PhrasesStore
      <4>2. d \notin Written
        BY <4>1 DEF Store!SaveNewMemory, Filing, Written
      <4> QED
        BY <4>1, <4>2 DEF Write, Written, Typed, TypeOK
    <3> QED
      BY <3>1, <3>2
  <2>2. CASE UNCHANGED written
    BY <2>2
  <2>3. /\ ChangesAccount \/ Relaunch => UNCHANGED written
        /\ \A picture \in Pictures : Save(picture) => UNCHANGED written
        /\ \A i \in 1..Len(rows) : DeleteRow(i) => UNCHANGED written
    BY AccountStep DEF Relaunch, Save, DeleteRow, saveVars
  <2> QED
    BY <2>1, <2>2, <2>3, NextFiling
<1> QED
  BY <1>1, FilingAlways, PTL DEF Spec, SavesNeverOverwrite
-----------------------------------------------------------------------------
(* A user who waits for each gesture to be over. *)

\* A save is dated when it is made, and stored with that date.
Dates ==
    /\ \A d \in DocIDs : written[d].date <= clock
    /\ \A s \in saves : s.date <= clock

\* One thing happens at a time: no save before the list is loaded, one save at
\* a time and later than all before it, and one row to insert.
Single ==
    /\ fetch \in {"none", "asked", "read"} =>
           saves = {} /\ saving = Idle /\ inserts = 0 /\ documentIDs = <<>> /\ rows = <<>>
    /\ saving # Idle => saves = {} /\ inserts = 0
    /\ saving.step = "inserting" => saving.copy = documentIDs
    /\ inserts \in {0, 1}
    /\ inserts = 0 => documentIDs = rows
    /\ inserts = 1 => saves = {} /\ documentIDs # <<>> /\ documentIDs = Cons(documentIDs[1], rows)
    /\ \A s, t \in saves : s = t
    /\ \A s \in saves : \A d \in DocIDs : written[d].date < s.date
    /\ crashed \notin {"rows", "index", "race"}

OneAtATime == "overlap" \notin lapse => Single

LEMMA DatesStep ==
  ASSUME Typed, Dates, Next
  PROVE  Dates'
<1>1. clock \in Nat /\ \A d \in DocIDs : written[d].date \in Nat
  BY MaxSavesAssumption DEF Typed, TypeOK
<1>2. \A s \in saves : s.date \in Nat
  BY MaxSavesAssumption DEF Typed, TypeOK, Saves
<1>3. CASE ChangesAccount
  BY <1>3, AccountStep, CrossedFacts DEF Dates
<1>5. ASSUME NEW picture \in Pictures, Save(picture)
      PROVE  Dates'
  BY <1>1, <1>2, <1>5 DEF Save, Dates
<1>6. ASSUME NEW i \in 1..Len(rows), DeleteRow(i)
      PROVE  Dates'
  BY <1>6 DEF DeleteRow, saveVars, Dates
<1>7. ASSUME NEW s \in saves, PhrasesAnswer(s)
      PROVE  Dates'
  <2>1. CASE currentUser = NoUser
    BY <1>7, <2>1 DEF PhrasesAnswer, Dates
  <2>2. CASE currentUser # NoUser
    <3>1. PICK d \in DocIDs : Write(s, d)
      BY <1>7, <2>2, PhrasesStore
    <3>2. saves' = saves \ {s} /\ UNCHANGED clock
      BY <1>7, <2>2, PhrasesStore DEF PhrasesAnswer
    <3> QED
      BY <3>1, <3>2 DEF Write, Dates, Typed, TypeOK
  <2> QED
    BY <2>1, <2>2
<1>8. CASE Relaunch
  BY <1>8 DEF Relaunch, Dates
<1>9. CASE UNCHANGED <<saves, written, clock>>
  BY <1>9 DEF Dates
<1> QED
  BY <1>3, <1>5, <1>6, <1>7, <1>8, <1>9, NextFiling

LEMMA OneAtATimeStep ==
  ASSUME Typed, Dates, OneAtATime, Next
  PROVE  OneAtATime'
<1> SUFFICES ASSUME "overlap" \notin lapse'
             PROVE  Single'
  BY DEF OneAtATime
<1> USE DEF listVars, viewVars, saveVars
<1>1. clock \in Nat /\ \A d \in DocIDs : written[d].date \in Nat
  BY MaxSavesAssumption DEF Typed, TypeOK
<1>2. documentIDs \in Seq(DocIDs) /\ rows \in Seq(DocIDs) /\ inserts \in Nat
  BY DEF Typed, TypeOK
<1>3. ASSUME lapse \subseteq lapse'
      PROVE  Single
  BY <1>3 DEF OneAtATime
<1>4. ASSUME UNCHANGED <<fetch, documentIDs, rows, saves, saving, inserts, written>>,
             lapse \subseteq lapse', crashed' \notin {"rows", "index", "race"}
      PROVE  Single'
  BY <1>3, <1>4 DEF Single
<1>5. CASE ChangesAccount
  <2>1. /\ saves' = {Crossed(s) : s \in saves}
        /\ lapse \subseteq lapse' /\ crashed = "no"
        /\ UNCHANGED <<listVars, saving, inserts, written, crashed>>
    BY <1>5, AccountStep DEF Running
  <2>3. saves = {} => saves' = {}
    BY <2>1
  <2>4. Single
    BY <1>3, <2>1
  <2>5. \A s, t \in saves' : s = t
    BY <2>1, <2>4 DEF Single
  <2>6. \A s \in saves' : \A d \in DocIDs : written[d].date < s.date
    BY <2>1, <2>4, CrossedFacts DEF Single
  <2> QED
    BY <2>1, <2>3, <2>4, <2>5, <2>6 DEF Single
<1>7. CASE ViewDidLoad \/ FetchReads \/ FetchFails
  <2>1. /\ UNCHANGED <<documentIDs, rows, saves, saving, inserts, written, lapse, crashed>>
        /\ fetch \in {"none", "asked", "read"}
    BY <1>7 DEF ViewDidLoad, FetchReads, FetchFails
  <2> QED
    BY <1>3, <2>1 DEF Single
<1>8. CASE FetchAnswers
  <2>1. /\ fetch = "read" /\ fetch' = "done" /\ documentIDs' = fetched /\ rows' = fetched
        /\ UNCHANGED <<saves, saving, inserts, written, lapse, crashed>>
    BY <1>8 DEF FetchAnswers
  <2>2. Idle.step # "inserting"
    BY DEF Idle
  <2> QED
    BY <1>3, <2>1, <2>2 DEF Single
<1>9. ASSUME NEW i \in 1..Len(rows), SelectRow(i)
      PROVE  Single'
  BY <1>4, <1>9 DEF SelectRow, Touchable, Running
<1>10. CASE BackFromDetails \/ Compose \/ Cancel \/ ViewDidAppear \/ AlertTimer
  BY <1>4, <1>10 DEF BackFromDetails, Compose, Cancel, ViewDidAppear, AlertTimer, Touchable, Running
<1>11. ASSUME NEW picture \in Pictures, Save(picture)
       PROVE  Single'
  <2>1. /\ fetch # "none" /\ crashed = "no" /\ ~Busy /\ UNCHANGED lapse
        /\ saves' = saves \cup {[date |-> clock + 1, author |-> currentUser, row |-> selected,
                                  picture |-> picture, crossed |-> FALSE]}
        /\ UNCHANGED <<fetch, documentIDs, rows, saving, inserts, written, crashed>>
    BY <1>11 DEF Save, Touchable, Running, NoteOverlap
  <2>2. /\ fetch \notin {"none", "asked", "read"} /\ saves = {} /\ saving = Idle /\ inserts = 0
    BY <1>2, <2>1 DEF Busy
  <2>3. ASSUME NEW s \in saves', NEW d \in DocIDs
        PROVE  written'[d].date < s.date
    <3>1. s.date = clock + 1
      BY <2>1, <2>2
    <3>2. written[d].date <= clock
      BY DEF Dates
    <3> QED
      BY <1>1, <2>1, <3>1, <3>2
  <2>4. \A s, t \in saves' : s = t
    BY <2>1, <2>2
  <2>5. Single
    BY <1>3, <2>1
  <2> QED
    BY <2>1, <2>2, <2>3, <2>4, <2>5 DEF Single
<1>12. ASSUME NEW i \in 1..Len(rows), DeleteRow(i)
       PROVE  Single'
  <2>1. fetch # "none" /\ crashed = "no" /\ ~Busy /\ UNCHANGED lapse
        /\ UNCHANGED <<fetch, saves, saving, inserts, written>>
    BY <1>12 DEF DeleteRow, Touchable, Running, NoteOverlap
  <2>2. /\ fetch \notin {"none", "asked", "read"} /\ saves = {} /\ saving = Idle /\ inserts = 0
    BY <1>2, <2>1 DEF Busy
  <2>3. Single
    BY <1>3, <2>1
  <2>4. documentIDs = rows
    BY <2>2, <2>3 DEF Single
  <2>5. documentIDs' = RemoveAt(documentIDs, i) /\ rows' = RemoveAt(rows, i) /\ UNCHANGED crashed
    BY <1>2, <1>12, <2>4 DEF DeleteRow
  <2>6. Idle.step # "inserting"
    BY DEF Idle
  <2> QED
    BY <2>1, <2>2, <2>3, <2>4, <2>5, <2>6 DEF Single
<1>13. ASSUME NEW s \in saves, PhrasesAnswer(s)
       PROVE  Single'
  <2>1. UNCHANGED <<listVars, inserts, lapse>> /\ crashed = "no" /\ saving = Idle
    BY <1>13 DEF PhrasesAnswer, Running
  <2>2. CASE currentUser = NoUser
    <3>1. UNCHANGED <<saves, saving, written>> /\ crashed' = "nouser"
      BY <1>13, <2>2 DEF PhrasesAnswer, Crash
    <3> QED
      BY <1>4, <2>1, <3>1
  <2>3. CASE currentUser # NoUser
    <3>1. /\ saves' = saves \ {s} /\ UNCHANGED crashed
          /\ \E d \in DocIDs : saving' = [step |-> "stored", id |-> d]
      BY <1>13, <2>3, PhrasesStore
    <3>2. Single
      BY <1>3, <2>1
    <3>3. saves' = {} /\ inserts = 0 /\ fetch \notin {"none", "asked", "read"}
      BY <1>2, <3>1, <3>2 DEF Single
    <3>4. saving'.step = "stored"
      BY <3>1
    <3> QED
      BY <2>1, <3>1, <3>2, <3>3, <3>4 DEF Single
  <2> QED
    BY <2>2, <2>3
<1>14. ASSUME NEW s \in saves, PhrasesTrap(s)
       PROVE  Single'
  BY <1>4, <1>14 DEF PhrasesTrap, Crash
<1>15. CASE InsertReads
  <2>1. /\ saving.step = "stored"
        /\ saving' = [step |-> "inserting", id |-> saving.id, copy |-> documentIDs]
        /\ UNCHANGED <<listVars, saves, inserts, written, crashed, lapse>>
    BY <1>15 DEF InsertReads
  <2>2. saving # Idle
    BY <2>1 DEF Idle
  <2>3. saving'.copy = documentIDs
    BY <2>1
  <2> QED
    BY <1>3, <2>1, <2>2, <2>3 DEF Single
<1>16. CASE InsertWrites
  <2>1. saving.step = "inserting" /\ UNCHANGED <<saves, fetch, rows, written, lapse>> /\ saving' = Idle
    BY <1>16 DEF InsertWrites
  <2>2. Single /\ saving # Idle
    BY <1>3, <2>1 DEF Idle
  <2>3. saving.copy = documentIDs /\ inserts = 0 /\ saves = {} /\ documentIDs = rows
        /\ fetch \notin {"none", "asked", "read"}
    BY <1>2, <2>1, <2>2 DEF Single
  <2>4. documentIDs' = Cons(saving.id, documentIDs) /\ inserts' = 1 /\ UNCHANGED crashed
    BY <1>16, <2>3 DEF InsertWrites
  <2>5. saving.id \in DocIDs
    BY <2>1, SavingCases DEF Typed
  <2>6. /\ documentIDs' \in Seq(DocIDs) /\ Len(documentIDs') = Len(documentIDs) + 1
        /\ documentIDs'[1] = saving.id
    <3>1. ASSUME NEW e \in DocIDs
          PROVE  /\ Cons(e, documentIDs) \in Seq(DocIDs)
                 /\ Len(Cons(e, documentIDs)) = Len(documentIDs) + 1
                 /\ Cons(e, documentIDs)[1] = e
      BY <1>2, ConsFacts
    <3> QED
      BY <2>4, <2>5, <3>1
  <2>7. documentIDs' # <<>>
    BY <1>2, <2>6
  <2>8. documentIDs' = Cons(documentIDs'[1], rows)
    BY <2>3, <2>4, <2>6
  <2>9. Idle.step # "inserting"
    BY DEF Idle
  <2> QED
    BY <2>1, <2>2, <2>3, <2>4, <2>7, <2>8, <2>9 DEF Single
<1>17. CASE InsertRows
  <2>1. inserts > 0 /\ inserts' = inserts - 1
        /\ UNCHANGED <<fetch, documentIDs, saves, saving, written, lapse>>
    BY <1>17 DEF InsertRows
  <2>2. Single
    BY <1>3, <2>1
  <2>3. inserts = 1 /\ inserts' = 0 /\ documentIDs # <<>> /\ documentIDs = Cons(documentIDs[1], rows)
    BY <1>2, <2>1, <2>2 DEF Single
  <2>4. documentIDs[1] \in DocIDs
    BY <1>2, <2>3
  <2>5. Len(documentIDs) = Len(rows) + 1
    <3>1. Len(Cons(documentIDs[1], rows)) = Len(rows) + 1
      BY <1>2, <2>4, ConsFacts
    <3> QED
      BY <2>3, <3>1
  <2>6. rows' = documentIDs /\ UNCHANGED crashed
    BY <1>17, <2>3, <2>5 DEF InsertRows
  <2>7. fetch \notin {"none", "asked", "read"}
    BY <2>2, <2>3 DEF Single
  <2> QED
    BY <2>1, <2>2, <2>3, <2>6, <2>7 DEF Single
<1>18. CASE Relaunch
  BY <1>18, <1>1 DEF Relaunch, Single, Idle
<1>19. ASSUME NEW d \in DocIDs, StorageAnswers(d)
       PROVE  Single'
  BY <1>4, <1>19 DEF StorageAnswers, Running
<1> QED
  BY <1>5, <1>7, <1>8, <1>9, <1>10, <1>11, <1>12, <1>13, <1>14, <1>15, <1>16, <1>17, <1>18,
     <1>19 DEF Next, ChangesAccount

LEMMA OneAtATimeAlways == Spec => [](Dates /\ OneAtATime)
<1>1. Init => Dates /\ OneAtATime
  BY DEF Init, Dates, OneAtATime, Single, Idle, NotWritten
<1>2. Dates /\ OneAtATime /\ UNCHANGED vars => (Dates /\ OneAtATime)'
  BY DEF vars, listVars, saveVars, Dates, OneAtATime, Single
<1> QED
  BY <1>1, <1>2, DatesStep, OneAtATimeStep, TypedAlways, PTL DEF Spec

(* Waiting is enough: none of the crashes comes without a gesture before an *)
(* earlier one is over, or a sign out before a memory is stored.            *)
THEOREM WaitingIsSafe == Spec => []CrashesExplained
<1>1. Filing /\ OneAtATime => CrashesExplained
  BY DEF Filing, OneAtATime, Single, CrashesExplained
<1> QED
  BY <1>1, FilingAlways, OneAtATimeAlways, PTL

(* A swipe deletes the memory of the row it is on, or came too early. *)
THEOREM SwipeDeletesItsRow == Spec => DeletesTheRowShown
<1> DEFINE Right == \A d \in DocIDs : (d \in Store!Stored /\ d \notin Store!Stored') =>
                        \/ "overlap" \in lapse'
                        \/ \E i \in 1..Len(rows) : rows[i] = d /\ rows' = RemoveAt(rows, i)
<1>1. Typed /\ OneAtATime /\ [Next]_vars => [Right]_vars
  <2> SUFFICES ASSUME Typed, OneAtATime, Next, NEW d \in DocIDs,
                      d \in Store!Stored, d \notin Store!Stored', "overlap" \notin lapse'
               PROVE  \E i \in 1..Len(rows) : rows[i] = d /\ rows' = RemoveAt(rows, i)
    OBVIOUS
  <2>0. docs \in [Users -> SUBSET DocIDs]
    BY DEF Typed, TypeOK, Store!TypeOK
  <2>1. ASSUME NEW s \in saves, PhrasesAnswer(s) PROVE FALSE
    <3>1. CASE currentUser = NoUser
      BY <2>1, <3>1 DEF PhrasesAnswer, storeVars, Store!Stored
    <3>2. CASE currentUser # NoUser
      <4>1. PICK e \in DocIDs : Store!SaveNewMemory(e, s.picture)
        BY <2>1, <3>2, PhrasesStore
      <4>2. docs' = [docs EXCEPT ![currentUser] = @ \cup {e}]
        BY <4>1 DEF Store!SaveNewMemory, Store!ReplaceMemory
      <4>3. \A u \in Users : docs[u] \subseteq docs'[u]
        BY <2>0, <4>2
      <4> QED
        BY <4>3 DEF Store!Stored
    <3> QED
      BY <3>1, <3>2
  <2>2. UNCHANGED docs => FALSE
    BY DEF Store!Stored
  <2>3. /\ ChangesAccount \/ Relaunch => UNCHANGED docs
        /\ \A picture \in Pictures : Save(picture) => UNCHANGED docs
    BY AccountStep DEF Relaunch, Save, Store!Killed, storeVars
  <2>4. PICK i \in 1..Len(rows) : DeleteRow(i)
    BY <2>1, <2>2, <2>3, NextFiling
  <2>5. ~Busy /\ UNCHANGED lapse
    BY <2>4 DEF DeleteRow, NoteOverlap
  <2>6. documentIDs = rows
    BY <2>5 DEF OneAtATime, Single, Busy, Typed, TypeOK
  <2>7. /\ documentIDs \in Seq(DocIDs) /\ rows \in Seq(DocIDs)
    BY DEF Typed, TypeOK
  <2>8. /\ docs' = [docs EXCEPT ![currentUser] = @ \ {documentIDs[i]}]
        /\ rows' = RemoveAt(rows, i)
    BY <2>4, <2>6, <2>7 DEF DeleteRow, Store!DeleteMemory
  <2>9. d = documentIDs[i]
    BY <2>0, <2>8 DEF Store!Stored
  <2> QED
    BY <2>6, <2>8, <2>9
<1> QED
  BY <1>1, TypedAlways, OneAtATimeAlways, PTL DEF Spec, DeletesTheRowShown
-----------------------------------------------------------------------------
(* The list and the store. *)

\* NewestFirst with the dates as an argument.
Ordered(ids, ds, w) ==
    /\ {ids[i] : i \in DOMAIN ids} = ds
    /\ \A i, j \in DOMAIN ids : i < j => w[ids[i]].date > w[ids[j]].date

LEMMA NewestFirstOrdered ==
  ASSUME NEW ids, NEW ds
  PROVE  NewestFirst(ids, ds) <=> Ordered(ids, ds, written)
BY DEF NewestFirst, Ordered

\* The array once the phrases thread is done.
Coming == IF saving = Idle THEN documentIDs ELSE Cons(saving.id, documentIDs)

\* While the user gives no cause for trouble the list is that of the account
\* signed in, and it or its snapshot is the diary in the store.
ListKept ==
    /\ (currentUser # NoUser /\ fetch # "none") => currentUser = listOwner
    /\ fetch = "read" => Ordered(fetched, docs[listOwner], written)
    /\ fetch = "done" => Ordered(Coming, docs[listOwner], written)

Quiet == lapse = {} => ListKept

Dated == [DocIDs -> [date: 0..MaxSaves, author: Users \cup {NoUser}, crossed: BOOLEAN]]

LEMMA OrderedCons ==
  ASSUME NEW ids \in Seq(DocIDs), NEW ds, NEW w, NEW v, NEW d \in DocIDs,
         Ordered(ids, ds, w), d \notin ds,
         \A e \in DocIDs \ {d} : v[e] = w[e],
         \A e \in ds : w[e].date < v[d].date
  PROVE  Ordered(Cons(d, ids), ds \cup {d}, v)
<1> DEFINE new == Cons(d, ids)
<1>1. /\ new \in Seq(DocIDs) /\ Len(new) = Len(ids) + 1 /\ new[1] = d
      /\ \A j \in 1..Len(ids) : new[j + 1] = ids[j]
  BY ConsFacts
<1> HIDE DEF new
<1>2. DOMAIN ids = 1..Len(ids) /\ DOMAIN new = 1..Len(ids) + 1 /\ Len(ids) \in Nat
  BY <1>1
<1>3. \A i \in 1..Len(ids) : ids[i] \in ds /\ ids[i] # d /\ v[ids[i]] = w[ids[i]]
  BY <1>2 DEF Ordered
<1>4. \A j \in 2..Len(ids) + 1 : j - 1 \in 1..Len(ids) /\ new[j] = ids[j - 1]
  <2> TAKE j \in 2..Len(ids) + 1
  <2>1. j - 1 \in 1..Len(ids) /\ (j - 1) + 1 = j
    BY <1>2
  <2> QED
    BY <1>1, <2>1
<1>5. {new[i] : i \in DOMAIN new} = ds \cup {d}
  <2>1. ASSUME NEW i \in 1..Len(ids) + 1 PROVE new[i] \in ds \cup {d}
    <3>1. CASE i = 1
      BY <1>1, <3>1
    <3>2. CASE i # 1
      BY <1>2, <1>3, <1>4, <3>2
    <3> QED
      BY <3>1, <3>2
  <2>2. ASSUME NEW e \in ds PROVE \E i \in 1..Len(ids) + 1 : new[i] = e
    <3>1. PICK k \in 1..Len(ids) : ids[k] = e
      BY <1>2 DEF Ordered
    <3>2. k + 1 \in 1..Len(ids) + 1 /\ new[k + 1] = e
      BY <1>1, <1>2, <3>1
    <3> QED
      BY <3>2
  <2>3. 1 \in 1..Len(ids) + 1 /\ new[1] = d
    BY <1>1, <1>2
  <2> QED
    BY <1>2, <2>1, <2>2, <2>3
<1>6. ASSUME NEW i \in DOMAIN new, NEW j \in DOMAIN new, i < j
      PROVE  v[new[i]].date > v[new[j]].date
  <2>1. j \in 2..Len(ids) + 1
    BY <1>2, <1>6
  <2>2. CASE i = 1
    <3>1. v[new[j]] = w[ids[j - 1]] /\ ids[j - 1] \in ds
      BY <1>3, <1>4, <2>1
    <3>2. w[ids[j - 1]].date < v[d].date
      BY <3>1
    <3> QED
      BY <1>1, <2>2, <3>1, <3>2
  <2>3. CASE i # 1
    <3>1. i \in 2..Len(ids) + 1
      BY <1>2, <2>3
    <3>2. v[new[j]] = w[ids[j - 1]] /\ v[new[i]] = w[ids[i - 1]]
      BY <1>3, <1>4, <2>1, <3>1
    <3>3. w[ids[i - 1]].date > w[ids[j - 1]].date
      <4>1. i - 1 \in DOMAIN ids /\ j - 1 \in DOMAIN ids /\ i - 1 < j - 1
        BY <1>2, <1>4, <1>6, <2>1, <3>1
      <4> QED
        BY <4>1 DEF Ordered
    <3> QED
      BY <3>2, <3>3
  <2> QED
    BY <2>2, <2>3
<1> QED
  BY <1>5, <1>6 DEF Ordered, new

LEMMA OrderedRemove ==
  ASSUME NEW ids \in Seq(DocIDs), NEW ds, NEW w \in Dated, NEW i \in 1..Len(ids),
         Ordered(ids, ds, w)
  PROVE  Ordered(RemoveAt(ids, i), ds \ {ids[i]}, w)
<1> DEFINE new == RemoveAt(ids, i)
           at(j) == IF j < i THEN j ELSE j + 1
<1>1. /\ new \in Seq(DocIDs) /\ Len(new) = Len(ids) - 1
      /\ \A j \in 1..Len(ids) - 1 : new[j] = IF j < i THEN ids[j] ELSE ids[j + 1]
  BY RemoveAtFacts
<1> HIDE DEF new
<1>2. DOMAIN ids = 1..Len(ids) /\ DOMAIN new = 1..Len(ids) - 1 /\ Len(ids) \in Nat
  BY <1>1
<1>3. \A j \in DOMAIN new : at(j) \in DOMAIN ids /\ at(j) # i /\ new[j] = ids[at(j)]
  BY <1>1, <1>2
<1>4. \A j, k \in DOMAIN ids : j # k => ids[j] # ids[k]
  <2> SUFFICES ASSUME NEW j \in DOMAIN ids, NEW k \in DOMAIN ids, j < k
               PROVE  ids[j] # ids[k]
    BY <1>2
  <2>1. w[ids[j]].date > w[ids[k]].date
    BY DEF Ordered
  <2>2. w[ids[j]].date \in Nat /\ w[ids[k]].date \in Nat
    <3>1. ids[j] \in DocIDs /\ ids[k] \in DocIDs
      BY <1>2
    <3> QED
      BY <3>1, MaxSavesAssumption DEF Dated
  <2> QED
    BY <2>1, <2>2
<1>5. \A k \in DOMAIN ids \ {i} : \E j \in DOMAIN new : new[j] = ids[k]
  <2> TAKE k \in DOMAIN ids \ {i}
  <2>1. CASE k < i
    <3>1. k \in DOMAIN new /\ new[k] = ids[k]
      BY <1>1, <1>2, <2>1
    <3> QED
      BY <3>1
  <2>2. CASE ~(k < i)
    <3>1. k - 1 \in DOMAIN new /\ ~(k - 1 < i) /\ (k - 1) + 1 = k
      BY <1>2, <2>2
    <3>2. new[k - 1] = ids[k]
      BY <1>1, <1>2, <3>1
    <3> QED
      BY <3>1, <3>2
  <2> QED
    BY <2>1, <2>2
<1>6. {new[j] : j \in DOMAIN new} = ds \ {ids[i]}
  <2>1. ASSUME NEW j \in DOMAIN new PROVE new[j] \in ds \ {ids[i]}
    <3>1. at(j) \in DOMAIN ids /\ at(j) # i /\ new[j] = ids[at(j)] /\ i \in DOMAIN ids
      BY <1>2, <1>3
    <3> HIDE DEF at
    <3> QED
      BY <1>4, <3>1 DEF Ordered
  <2>2. ASSUME NEW e \in ds \ {ids[i]} PROVE \E j \in DOMAIN new : new[j] = e
    <3>1. PICK k \in DOMAIN ids : ids[k] = e
      BY DEF Ordered
    <3> QED
      BY <1>5, <3>1
  <2> QED
    BY <2>1, <2>2
<1>7. ASSUME NEW j \in DOMAIN new, NEW k \in DOMAIN new, j < k
      PROVE  w[new[j]].date > w[new[k]].date
  <2>1. at(j) \in DOMAIN ids /\ at(k) \in DOMAIN ids /\ at(j) < at(k)
    BY <1>2, <1>3, <1>7
  <2>2. new[j] = ids[at(j)] /\ new[k] = ids[at(k)]
    BY <1>3
  <2> HIDE DEF at
  <2> QED
    BY <2>1, <2>2 DEF Ordered
<1> QED
  BY <1>6, <1>7 DEF Ordered, new

LEMMA QuietStep ==
  ASSUME Typed, Filing, Dates, OneAtATime, Quiet, Next
  PROVE  Quiet'
<1> SUFFICES ASSUME lapse' = {}
             PROVE  ListKept'
  BY DEF Quiet
<1> USE DEF listVars, viewVars, saveVars, storeVars
<1>1. ASSUME lapse \subseteq lapse'
      PROVE  ListKept /\ Single
  BY <1>1 DEF Quiet, OneAtATime
<1>2. /\ currentUser \in Users \cup {NoUser} /\ docs \in [Users -> SUBSET DocIDs]
      /\ documentIDs \in Seq(DocIDs) /\ fetched \in Seq(DocIDs) /\ written \in Dated
      /\ rows \in Seq(DocIDs)
  BY DEF Typed, TypeOK, Store!TypeOK, Dated
<1>3. fetch # "none" => listOwner \in Users
  BY DEF Typed, Listed
<1>4. ASSUME UNCHANGED <<currentUser, docs, fetch, fetched, listOwner, documentIDs, saving, written>>,
             lapse \subseteq lapse'
      PROVE  ListKept'
  BY <1>1, <1>4 DEF ListKept, Coming
<1>5. CASE ChangesAccount
  <2>1. /\ UNCHANGED <<docs, fetch, fetched, listOwner, documentIDs, saving, written>>
        /\ lapse \subseteq lapse'
        /\ fetch # "none" => currentUser' \in {NoUser, listOwner}
    BY <1>5, AccountStep
  <2> QED
    BY <1>1, <2>1 DEF ListKept, Coming
<1>7. CASE ViewDidLoad
  <2>1. /\ fetch' = "asked" /\ listOwner' = currentUser /\ UNCHANGED currentUser
    BY <1>7 DEF ViewDidLoad
  <2> QED
    BY <2>1 DEF ListKept
<1>8. CASE FetchReads
  <2>1. /\ fetch = "asked" /\ fetch' = "read" /\ NewestFirst(fetched', docs[listOwner])
        /\ UNCHANGED <<currentUser, docs, listOwner, written, lapse>>
    BY <1>8 DEF FetchReads
  <2>2. Ordered(fetched', docs[listOwner], written)
    BY <2>1 DEF NewestFirst, Ordered
  <2> QED
    BY <1>1, <2>1, <2>2 DEF ListKept
<1>9. CASE FetchAnswers
  <2>1. /\ fetch = "read" /\ fetch' = "done" /\ documentIDs' = fetched
        /\ UNCHANGED <<currentUser, docs, listOwner, saving, written, lapse>>
    BY <1>9 DEF FetchAnswers
  <2>2. saving = Idle
    BY <1>1, <2>1 DEF Single
  <2> QED
    BY <1>1, <2>1, <2>2 DEF ListKept, Coming
<1>10. CASE FetchFails
  <2>1. /\ fetch = "asked" /\ fetch' = "failed" /\ UNCHANGED <<currentUser, listOwner, lapse>>
    BY <1>10 DEF FetchFails
  <2> QED
    BY <1>1, <2>1 DEF ListKept
<1>11. ASSUME NEW i \in 1..Len(rows), SelectRow(i)
       PROVE  ListKept'
  BY <1>4, <1>11 DEF SelectRow
<1>12. CASE BackFromDetails \/ Compose \/ Cancel \/ ViewDidAppear \/ AlertTimer
  BY <1>4, <1>12 DEF BackFromDetails, Compose, Cancel, ViewDidAppear, AlertTimer
<1>13. ASSUME NEW picture \in Pictures, Save(picture)
       PROVE  ListKept'
  BY <1>4, <1>13 DEF Save, NoteOverlap
<1>14. ASSUME NEW i \in 1..Len(rows), DeleteRow(i)
       PROVE  ListKept'
  <2>1. fetch # "none" /\ currentUser # NoUser /\ ~Busy /\ UNCHANGED lapse
        /\ UNCHANGED <<currentUser, fetch, fetched, listOwner, saving, written>>
    BY <1>14 DEF DeleteRow, Touchable, NoteOverlap, Store!DeleteMemory
  <2>2. saving = Idle /\ documentIDs = rows /\ fetch \notin {"asked", "read"}
    BY <1>1, <2>1 DEF Busy, Single, Typed, TypeOK
  <2>3. currentUser = listOwner
    BY <1>1, <2>1 DEF ListKept
  <2>4. /\ documentIDs' = RemoveAt(documentIDs, i)
        /\ docs' = [docs EXCEPT ![currentUser] = @ \ {documentIDs[i]}]
    BY <1>2, <1>14, <2>2 DEF DeleteRow, Store!DeleteMemory
  <2>5. docs'[listOwner] = docs[listOwner] \ {documentIDs[i]}
    BY <1>2, <1>3, <2>1, <2>3, <2>4
  <2>6. ASSUME fetch = "done"
        PROVE  Ordered(documentIDs', docs'[listOwner], written)
    <3>1. Ordered(documentIDs, docs[listOwner], written) /\ i \in 1..Len(documentIDs)
      BY <1>1, <2>1, <2>2, <2>6 DEF ListKept, Coming
    <3>2. Ordered(RemoveAt(documentIDs, i), docs[listOwner] \ {documentIDs[i]}, written)
      BY <1>2, <3>1, OrderedRemove
    <3> QED
      BY <2>4, <2>5, <3>2
  <2> QED
    BY <2>1, <2>2, <2>3, <2>6 DEF ListKept, Coming
<1>15. ASSUME NEW s \in saves, PhrasesAnswer(s)
       PROVE  ListKept'
  <2>1. UNCHANGED <<fetch, fetched, listOwner, documentIDs, lapse>> /\ saving = Idle
    BY <1>15 DEF PhrasesAnswer
  <2>2. CASE currentUser = NoUser
    BY <1>4, <1>15, <2>1, <2>2 DEF PhrasesAnswer
  <2>3. CASE currentUser # NoUser
    <3>1. PICK d \in DocIDs : /\ Store!SaveNewMemory(d, s.picture) /\ Write(s, d)
                              /\ saving' = [step |-> "stored", id |-> d]
      BY <1>15, <2>3, PhrasesStore
    <3>2. /\ d \notin used /\ UNCHANGED currentUser
          /\ docs' = [docs EXCEPT ![currentUser] = @ \cup {d}]
      BY <3>1 DEF Store!SaveNewMemory, Store!ReplaceMemory
    <3>3. fetch \notin {"none", "asked", "read"}
      BY <1>1, <2>1 DEF Single
    <3>4. currentUser = listOwner /\ currentUser \in Users
      BY <1>1, <1>2, <2>1, <2>3, <3>3 DEF ListKept
    <3>5. docs'[listOwner] = docs[listOwner] \cup {d} /\ d \notin docs[listOwner]
          /\ docs[listOwner] \subseteq DocIDs
      BY <1>2, <3>2, <3>4 DEF Filing
    <3>6. saving' # Idle /\ saving'.id = d
      <4>1. saving'.step # Idle.step
        BY <3>1 DEF Idle
      <4> QED
        BY <3>1, <4>1
    <3>7. /\ \A e \in DocIDs \ {d} : written'[e] = written[e]
          /\ written'[d].date = s.date
      BY <1>2, <3>1 DEF Write, Dated
    <3>8. \A e \in DocIDs : written[e].date < s.date
      BY <1>1, <2>1 DEF Single
    <3>9. ASSUME fetch = "done"
          PROVE  Ordered(Cons(d, documentIDs), docs[listOwner] \cup {d}, written')
      <4>1. Ordered(documentIDs, docs[listOwner], written)
        BY <1>1, <2>1, <3>9 DEF ListKept, Coming
      <4>2. \A e \in docs[listOwner] : written[e].date < written'[d].date
        BY <3>5, <3>7, <3>8
      <4> QED
        BY <1>2, <3>5, <3>7, <4>1, <4>2, OrderedCons
    <3>10. Coming' = Cons(d, documentIDs)
      BY <2>1, <3>6 DEF Coming
    <3> QED
      BY <2>1, <3>2, <3>3, <3>4, <3>5, <3>9, <3>10 DEF ListKept
  <2> QED
    BY <2>2, <2>3
<1>16. ASSUME NEW s \in saves, PhrasesTrap(s)
       PROVE  ListKept'
  BY <1>4, <1>16 DEF PhrasesTrap
<1>17. CASE InsertReads
  <2>1. /\ saving.step = "stored"
        /\ saving' = [step |-> "inserting", id |-> saving.id, copy |-> documentIDs]
        /\ UNCHANGED <<currentUser, docs, fetch, fetched, listOwner, documentIDs, written, lapse>>
    BY <1>17 DEF InsertReads
  <2>2. saving # Idle /\ saving' # Idle /\ saving'.id = saving.id
    <3>1. saving'.step = "inserting" /\ Idle.step = "idle"
      BY <2>1 DEF Idle
    <3> QED
      BY <2>1, <3>1
  <2>3. Coming' = Coming
    BY <2>1, <2>2 DEF Coming
  <2> QED
    BY <1>1, <2>1, <2>3 DEF ListKept
<1>18. CASE InsertWrites
  <2>1. saving.step = "inserting" /\ saving' = Idle
        /\ UNCHANGED <<currentUser, docs, fetch, fetched, listOwner, written, lapse>>
    BY <1>18 DEF InsertWrites
  <2>2. saving # Idle /\ saving.copy = documentIDs
    BY <1>1, <2>1 DEF Single, Idle
  <2>3. documentIDs' = Cons(saving.id, documentIDs)
    BY <1>18, <2>2 DEF InsertWrites
  <2>4. Coming' = Coming
    BY <2>1, <2>2, <2>3 DEF Coming
  <2> QED
    BY <1>1, <2>1, <2>4 DEF ListKept
<1>19. CASE InsertRows
  BY <1>4, <1>19 DEF InsertRows
<1>20. CASE Relaunch
  BY <1>20 DEF Relaunch, ListKept
<1>21. ASSUME NEW d \in DocIDs, StorageAnswers(d)
       PROVE  ListKept'
  BY <1>4, <1>21 DEF StorageAnswers, Store!StorageAnswers, Store!ClearDone, Store!PutDone,
                     Store!PutFailed, Store!DeleteDone, Store!DeleteFailed
<1> QED
  BY <1>5, <1>7, <1>8, <1>9, <1>10, <1>11, <1>12, <1>13, <1>14, <1>15, <1>16, <1>17, <1>18,
     <1>19, <1>20, <1>21 DEF Next, ChangesAccount

(* When all is quiet the table, the array and the diary in the store are the *)
(* same list, newest first, unless the user gave cause for trouble.          *)
THEOREM ListIsTheDiary == Spec => []ListMatchesStore
<1>1. Init => Quiet
  BY DEF Init, Quiet, ListKept
<1>2. Quiet /\ UNCHANGED vars => Quiet'
  BY DEF vars, storeVars, listVars, saveVars, Quiet, ListKept, Coming
<1>3. Typed /\ OneAtATime /\ Quiet => ListMatchesStore
  <2> SUFFICES ASSUME Typed, OneAtATime, Quiet, fetch = "done", ~Busy, lapse = {},
                      currentUser # NoUser
               PROVE  NewestFirst(documentIDs, docs[currentUser]) /\ rows = documentIDs
    BY DEF ListMatchesStore
  <2>1. saving = Idle /\ inserts = 0
    BY DEF Busy, Typed, TypeOK
  <2>2. ListKept /\ Single
    BY DEF Quiet, OneAtATime
  <2>3. Ordered(documentIDs, docs[currentUser], written)
    BY <2>1, <2>2 DEF ListKept, Coming
  <2> QED
    BY <2>1, <2>2, <2>3, NewestFirstOrdered DEF Single
<1>4. Typed /\ Filing /\ Dates /\ OneAtATime /\ Quiet /\ [Next]_vars => Quiet'
  BY <1>2, QuietStep
<1> QED
  BY <1>1, <1>3, <1>4, FilingAlways, OneAtATimeAlways, PTL DEF Spec
-----------------------------------------------------------------------------
(* Every save is stored once, or lost with the app. *)

WaitingAt(t) == {s \in saves : s.date = t}
StoredAt(t) == {d \in DocIDs : written[d].date = t}

\* Each save so far is in one place: it waits for its key phrases, is stored as
\* one document, or died with the app.
EachSaveOnce ==
    \A t \in 1..clock :
        \/ t \in lost /\ WaitingAt(t) = {} /\ StoredAt(t) = {}
        \/ t \notin lost /\ (\E s \in saves : WaitingAt(t) = {s}) /\ StoredAt(t) = {}
        \/ t \notin lost /\ WaitingAt(t) = {} /\ \E d \in DocIDs : StoredAt(t) = {d}

LostBefore == \A t \in lost : t \in 1..clock

\* Who touches a save.
LEMMA NextSaves ==
  ASSUME Next
  PROVE  \/ ChangesAccount
         \/ \E picture \in Pictures : Save(picture)
         \/ \E s \in saves : PhrasesAnswer(s)
         \/ Relaunch
         \/ UNCHANGED <<saves, clock, written, lost>>
<1> USE DEF listVars, viewVars, saveVars
<1>1. ViewDidLoad \/ FetchReads \/ FetchAnswers \/ FetchFails
        => UNCHANGED <<saves, clock, written, lost>>
  BY DEF ViewDidLoad, FetchReads, FetchAnswers, FetchFails
<1>2. BackFromDetails \/ Compose \/ Cancel \/ ViewDidAppear \/ AlertTimer
        => UNCHANGED <<saves, clock, written, lost>>
  BY DEF BackFromDetails, Compose, Cancel, ViewDidAppear, AlertTimer
<1>3. ASSUME NEW i \in 1..Len(rows), SelectRow(i) \/ DeleteRow(i)
      PROVE  UNCHANGED <<saves, clock, written, lost>>
  BY <1>3 DEF SelectRow, DeleteRow
<1>4. ASSUME NEW s \in saves, PhrasesTrap(s)
      PROVE  UNCHANGED <<saves, clock, written, lost>>
  BY <1>4 DEF PhrasesTrap
<1>5. InsertReads \/ InsertWrites \/ InsertRows => UNCHANGED <<saves, clock, written, lost>>
  BY DEF InsertReads, InsertWrites, InsertRows
<1>6. ASSUME NEW d \in DocIDs, StorageAnswers(d)
      PROVE  UNCHANGED <<saves, clock, written, lost>>
  BY <1>6 DEF StorageAnswers
<1> QED
  BY <1>1, <1>2, <1>3, <1>4, <1>5, <1>6 DEF Next, ChangesAccount

LEMMA EachSaveOnceStep ==
  ASSUME Typed, Filing, Dates, LostBefore, EachSaveOnce, Next
  PROVE  LostBefore' /\ EachSaveOnce'
<1>0. /\ clock \in Nat /\ saves \subseteq Saves
      /\ \A s \in saves : s.date \in 1..clock
      /\ \A d \in DocIDs : written[d].date \in 0..clock
  <2>1. saves \subseteq Saves /\ clock \in 0..MaxSaves /\ MaxSaves \in Nat
    BY MaxSavesAssumption DEF Typed, TypeOK
  <2>2. \A s \in saves : s.date \in 1..MaxSaves
    BY <2>1 DEF Saves
  <2>3. \A d \in DocIDs : written[d].date \in 0..MaxSaves
    BY DEF Typed, TypeOK
  <2> QED
    BY <2>1, <2>2, <2>3 DEF Dates
<1>1. CASE UNCHANGED <<saves, clock, written, lost>>
  BY <1>1 DEF LostBefore, EachSaveOnce, WaitingAt, StoredAt
<1>2. CASE ChangesAccount
  <2>1. UNCHANGED <<clock, written, lost>> /\ saves' = {Crossed(s) : s \in saves}
    BY <1>2, AccountStep
  <2>2. \A s \in saves : Crossed(s).date = s.date
    BY CrossedFacts
  <2>3. \A t : StoredAt(t)' = StoredAt(t)
    BY <2>1 DEF StoredAt
  <2>4. ASSUME NEW t
        PROVE  WaitingAt(t)' = {Crossed(s) : s \in WaitingAt(t)}
    BY <2>1, <2>2 DEF WaitingAt
  <2>5. ASSUME NEW t, WaitingAt(t) = {}
        PROVE  WaitingAt(t)' = {}
    BY <2>4, <2>5
  <2>6. ASSUME NEW t, NEW s \in saves, WaitingAt(t) = {s}
        PROVE  \E p \in saves' : WaitingAt(t)' = {p}
    <3>1. WaitingAt(t)' = {Crossed(p) : p \in {s}}
      BY <2>4, <2>6
    <3>2. WaitingAt(t)' = {Crossed(s)} /\ Crossed(s) \in saves'
      BY <2>1, <3>1
    <3> QED
      BY <3>2
  <2>7. ASSUME NEW t \in 1..clock
        PROVE  \/ t \in lost' /\ WaitingAt(t)' = {} /\ StoredAt(t)' = {}
               \/ t \notin lost' /\ (\E s \in saves' : WaitingAt(t)' = {s}) /\ StoredAt(t)' = {}
               \/ t \notin lost' /\ WaitingAt(t)' = {} /\ \E d \in DocIDs : StoredAt(t)' = {d}
    <3>1. lost' = lost /\ StoredAt(t)' = StoredAt(t)
      BY <2>1, <2>3
    <3>2. CASE WaitingAt(t) = {}
      BY <2>5, <3>1, <3>2 DEF EachSaveOnce
    <3>3. CASE \E s \in saves : WaitingAt(t) = {s}
      <4>1. \E p \in saves' : WaitingAt(t)' = {p}
        BY <2>6, <3>3
      <4> QED
        BY <3>1, <3>3, <4>1 DEF EachSaveOnce
    <3> QED
      BY <3>2, <3>3 DEF EachSaveOnce
  <2> QED
    BY <2>1, <2>7 DEF LostBefore, EachSaveOnce
<1>3. ASSUME NEW picture \in Pictures, Save(picture)
      PROVE  LostBefore' /\ EachSaveOnce'
  <2> DEFINE new == [date |-> clock + 1, author |-> currentUser, row |-> selected,
                     picture |-> picture, crossed |-> FALSE]
  <2>1. clock' = clock + 1 /\ UNCHANGED <<written, lost>> /\ saves' = saves \cup {new}
    BY <1>3 DEF Save
  <2>2. LostBefore'
    BY <1>0, <2>1 DEF LostBefore
  <2>3. ASSUME NEW t \in 1..clock
        PROVE  WaitingAt(t)' = WaitingAt(t) /\ StoredAt(t)' = StoredAt(t)
    <3>1. new.date # t
      BY <1>0
    <3> QED
      BY <2>1, <3>1 DEF WaitingAt, StoredAt
  <2>4. ASSUME NEW t, t = clock + 1
        PROVE  t \notin lost' /\ (\E s \in saves' : WaitingAt(t)' = {s}) /\ StoredAt(t)' = {}
    <3>1. \A s \in saves : s.date # t
      BY <1>0, <2>4
    <3>2. \A d \in DocIDs : written[d].date # t
      BY <1>0, <2>4
    <3>3. new.date = t
      BY <2>4
    <3>4. WaitingAt(t)' = {new} /\ new \in saves'
      <4> HIDE DEF new
      <4> QED
        BY <2>1, <3>1, <3>3 DEF WaitingAt
    <3>5. StoredAt(t)' = {}
      BY <2>1, <3>2 DEF StoredAt
    <3>6. t \notin lost'
      BY <1>0, <2>1, <2>4 DEF LostBefore
    <3> HIDE DEF new
    <3> QED
      BY <3>4, <3>5, <3>6
  <2>5. \A t \in 1..clock' : t \in 1..clock \/ t = clock + 1
    BY <1>0, <2>1
  <2>6. ASSUME NEW t \in 1..clock
        PROVE  \/ t \in lost' /\ WaitingAt(t)' = {} /\ StoredAt(t)' = {}
               \/ t \notin lost' /\ (\E s \in saves' : WaitingAt(t)' = {s}) /\ StoredAt(t)' = {}
               \/ t \notin lost' /\ WaitingAt(t)' = {} /\ \E d \in DocIDs : StoredAt(t)' = {d}
    <3> HIDE DEF new
    <3> QED
      BY <2>1, <2>3 DEF EachSaveOnce
  <2> HIDE DEF new
  <2> QED
    BY <2>2, <2>4, <2>5, <2>6 DEF EachSaveOnce
<1>4. ASSUME NEW s \in saves, PhrasesAnswer(s)
      PROVE  LostBefore' /\ EachSaveOnce'
  <2>1. CASE currentUser = NoUser
    BY <1>1, <1>4, <2>1 DEF PhrasesAnswer
  <2>2. CASE currentUser # NoUser
    <3>1. PICK d \in DocIDs : Store!SaveNewMemory(d, s.picture) /\ Write(s, d)
      BY <1>4, <2>2, PhrasesStore
    <3>2. saves' = saves \ {s} /\ UNCHANGED <<clock, lost>>
      BY <1>4, <2>2, PhrasesStore DEF PhrasesAnswer
    <3>3. written[d].date = 0
      BY <1>0, <3>1 DEF Store!SaveNewMemory, Filing
    <3>4. /\ \A e \in DocIDs \ {d} : written'[e] = written[e]
          /\ written'[d].date = s.date
      BY <3>1 DEF Write, Typed, TypeOK
    <3>5. ASSUME NEW t \in 1..clock, t # s.date
          PROVE  WaitingAt(t)' = WaitingAt(t) /\ StoredAt(t)' = StoredAt(t)
                 /\ \A p \in saves : WaitingAt(t) = {p} => p \in saves'
      <4>1. WaitingAt(t)' = WaitingAt(t) /\ s \notin WaitingAt(t)
        BY <3>2, <3>5 DEF WaitingAt
      <4>2. StoredAt(t)' = StoredAt(t)
        BY <3>3, <3>4, <3>5 DEF StoredAt
      <4> QED
        BY <3>2, <4>1, <4>2
    <3>6. s.date \notin lost /\ WaitingAt(s.date) = {s} /\ StoredAt(s.date) = {}
      <4>1. s \in WaitingAt(s.date) /\ s.date \in 1..clock
        BY <1>0 DEF WaitingAt
      <4> QED
        BY <4>1 DEF EachSaveOnce
    <3>7. WaitingAt(s.date)' = {} /\ StoredAt(s.date)' = {d}
      <4>1. \A p \in saves' : p.date # s.date
        BY <3>2, <3>6 DEF WaitingAt
      <4>2. \A e \in DocIDs \ {d} : written'[e].date # s.date
        BY <3>4, <3>6 DEF StoredAt
      <4> QED
        BY <3>4, <4>1, <4>2 DEF WaitingAt, StoredAt
    <3>8. LostBefore'
      BY <3>2 DEF LostBefore
    <3>9. ASSUME NEW t \in 1..clock'
          PROVE  \/ t \in lost' /\ WaitingAt(t)' = {} /\ StoredAt(t)' = {}
                 \/ t \notin lost' /\ (\E p \in saves' : WaitingAt(t)' = {p}) /\ StoredAt(t)' = {}
                 \/ t \notin lost' /\ WaitingAt(t)' = {} /\ \E e \in DocIDs : StoredAt(t)' = {e}
      <4>1. CASE t = s.date
        BY <3>2, <3>6, <3>7, <4>1
      <4>2. CASE t # s.date
        BY <3>2, <3>5, <4>2 DEF EachSaveOnce
      <4> QED
        BY <4>1, <4>2
    <3> QED
      BY <3>8, <3>9 DEF EachSaveOnce
  <2> QED
    BY <2>1, <2>2
<1>5. CASE Relaunch
  <2>1. /\ saves' = {} /\ UNCHANGED <<clock, written>>
        /\ lost' = lost \cup {s.date : s \in saves}
    BY <1>5 DEF Relaunch
  <2>2. LostBefore'
    BY <1>0, <2>1 DEF LostBefore
  <2>3. \A t : WaitingAt(t)' = {} /\ StoredAt(t)' = StoredAt(t)
    BY <2>1 DEF WaitingAt, StoredAt
  <2>4. \A t : t \in lost' <=> t \in lost \/ WaitingAt(t) # {}
    BY <2>1 DEF WaitingAt
  <2> QED
    BY <2>1, <2>2, <2>3, <2>4 DEF EachSaveOnce
<1> QED
  BY <1>1, <1>2, <1>3, <1>4, <1>5, NextSaves

(* What the user saves is never dropped and never stored twice, whatever     *)
(* else they do meanwhile, on whichever list and account, with tags or       *)
(* without: until it is stored it waits for its key phrases, and only the    *)
(* end of the app takes it away.                                             *)
THEOREM SavedOnceOrLost == Spec => []EachSaveOnce
<1>1. Init => LostBefore /\ EachSaveOnce
  BY DEF Init, LostBefore, EachSaveOnce
<1>2. LostBefore /\ EachSaveOnce /\ UNCHANGED vars => (LostBefore /\ EachSaveOnce)'
  BY DEF vars, saveVars, LostBefore, EachSaveOnce, WaitingAt, StoredAt
<1> QED
  BY <1>1, <1>2, EachSaveOnceStep, FilingAlways, OneAtATimeAlways, PTL DEF Spec

-----------------------------------------------------------------------------
(* What MemoryStore promises, under the list.  Its theorems are about any    *)
(* behaviour of MemoryStore, and the list's are behaviours of MemoryStore.   *)

StoreProofs == INSTANCE MemoryStore_proofs

LEMMA StoreProofsAssumptions ==
  StoreProofs!NoUserAssumption /\ StoreProofs!MaxDeletesAssumption
BY StoreAssumption DEF StoreProofs!NoUserAssumption, StoreProofs!MaxDeletesAssumption

LEMMA SameStore == Store!Spec <=> StoreProofs!Spec
<1>1. Store!Init <=> StoreProofs!Init
  BY DEF StoreProofs!Init, Store!Init
<1>2. [Store!Next]_(Store!vars) <=> [StoreProofs!Next]_(StoreProofs!vars)
  BY DEF StoreProofs!Next, Store!Next, StoreProofs!vars, Store!vars,
         StoreProofs!SignIn, Store!SignIn, StoreProofs!SignOut, Store!SignOut,
         StoreProofs!SaveNewMemory, Store!SaveNewMemory,
         StoreProofs!ReplaceMemory, Store!ReplaceMemory,
         StoreProofs!UploadImage, Store!UploadImage,
         StoreProofs!DeleteMemory, Store!DeleteMemory,
         StoreProofs!Blame, Store!Blame, StoreProofs!Stored, Store!Stored,
         StoreProofs!StorageAnswers, Store!StorageAnswers,
         StoreProofs!ClearDone, Store!ClearDone, StoreProofs!PutDone, Store!PutDone,
         StoreProofs!PutFailed, Store!PutFailed, StoreProofs!DeleteDone, Store!DeleteDone,
         StoreProofs!DeleteFailed, Store!DeleteFailed, StoreProofs!Killed, Store!Killed
<1> QED
  BY <1>1, <1>2, PTL DEF StoreProofs!Spec, Store!Spec

\* Both pictures without a memory and memories without their picture.
PicturesExplained == Store!OrphansExplained /\ Store!LossesExplained

(* However the list is used, by whichever accounts: a picture without a      *)
(* memory is about to be deleted, was overtaken by the delete or survived    *)
(* it, and a memory saved with a picture has it, has it under way, or lost   *)
(* it to a failed put or to a swipe of an account that does not own it       *)
(* (deleteMemory and uploadImage, called from the list).                     *)
THEOREM PicturesStayExplained == Spec => []PicturesExplained
<1>1. StoreProofs!Spec => []StoreProofs!OrphansExplained
  BY StoreProofsAssumptions, StoreProofs!OrphansAreExplained, PTL
<1>2. StoreProofs!Spec => []StoreProofs!LossesExplained
  BY StoreProofsAssumptions, StoreProofs!LossesAreExplained, PTL
<1>3. StoreProofs!OrphansExplained /\ StoreProofs!LossesExplained => PicturesExplained
  BY DEF PicturesExplained, StoreProofs!OrphansExplained, Store!OrphansExplained,
         StoreProofs!OrphanExplained, Store!OrphanExplained,
         StoreProofs!LossesExplained, Store!LossesExplained,
         StoreProofs!LossExplained, Store!LossExplained, StoreProofs!Stored, Store!Stored
<1> QED
  BY <1>1, <1>2, <1>3, SameStore, Implements, PTL DEF StoreSafety

(* No step of the list brings a memory back that was deleted, or moves one   *)
(* to another account's diary: the names it saves under are new, and its     *)
(* swipes only take away.                                                    *)
THEOREM DeletedStaysDeletedInTheList == Spec => Store!DeletedStaysDeleted
<1>1. StoreProofs!Spec => StoreProofs!DeletedStaysDeleted
  BY StoreProofsAssumptions, StoreProofs!NothingComesBack, PTL
<1>2. [\A d \in used : d \in StoreProofs!Stored' =>
                            \E u \in Users : d \in docs[u] /\ d \in docs'[u]]_(StoreProofs!vars)
      => [\A d \in used : d \in Store!Stored' =>
                            \E u \in Users : d \in docs[u] /\ d \in docs'[u]]_(Store!vars)
  BY DEF StoreProofs!vars, Store!vars, StoreProofs!Stored, Store!Stored
<1> QED
  BY <1>1, <1>2, SameStore, Implements, PTL
    DEF StoreSafety, StoreProofs!DeletedStaysDeleted, Store!DeletedStaysDeleted
=============================================================================
