--------------------------- MODULE MemoriesTable ---------------------------
(***************************************************************************)
(* The list of memories (MemoriesTableViewViewController.swift) over the   *)
(* store it shows.  The list keeps its own array of document names and     *)
(* tells the table view about each change by hand; the table view keeps    *)
(* what it last loaded and raises an exception when the counts disagree.   *)
(* Both are touched by two threads:                                        *)
(*                                                                         *)
(*   main   gestures, the answer of fetchAll, insertRows and deleteRows;   *)
(*   phrases  the queue on which URLSession calls back with the key        *)
(*          phrases of a memory being saved: it writes the memory to the   *)
(*          store and inserts its name in the array, then has the main     *)
(*          thread insert the row.                                         *)
(*                                                                         *)
(* Between the tap on Save and that row the user can go on.  lapse records *)
(* when they do something the code makes no provision for.                 *)
(***************************************************************************)
EXTENDS Integers, Sequences, SequencesExt

CONSTANTS
    Users, NoUser, DocIDs, MaxDeletes,  \* those of MemoryStore
    Pictures,   \* may a memory carry a picture: a subset of BOOLEAN
    MaxSaves    \* bound: memories saved in a behaviour

ASSUME StoreAssumption == NoUser \notin Users /\ MaxDeletes \in Nat
ASSUME PicturesAssumption == Pictures \subseteq BOOLEAN
ASSUME MaxSavesAssumption == MaxSaves \in Nat

VARIABLES currentUser, docs, used, images, upload, deleting, pictured, mishap

VARIABLES
    fetch,       \* how far the fetchAll of viewDidLoad has come
    fetched,     \* the snapshot it read
    listOwner,   \* history: the account viewDidLoad asked for
    documentIDs, \* the controller's array
    rows,        \* what the table view has loaded
    selected,    \* the selected row, 0 for none
    screen,      \* the controller on top of the navigation stack
    cameBack,    \* cameBackFromUnwind
    alert,       \* "Memory Saved" covers the screen
    saves,       \* memories waiting for their key phrases
    saving,      \* the phrases thread: the callback it is in
    inserts,     \* insertRows waiting for the main thread
    crashed,     \* why the app died
    clock,       \* Date(): the saves so far
    (* history *)
    written,     \* for each document, who saved it and when
    lost,        \* saves that died with the app before they were stored
    lapse        \* what the user did that the code does not provide for

storeVars == <<currentUser, docs, used, images, upload, deleting, pictured, mishap>>
listVars  == <<fetch, fetched, listOwner, documentIDs, rows, selected>>
viewVars  == <<screen, cameBack, alert>>
saveVars  == <<saves, saving, inserts, clock, written, lost>>
vars == <<storeVars, listVars, viewVars, saveVars, crashed, lapse>>

Store == INSTANCE MemoryStore

Lapses ==
    {"overlap",      \* a gesture on the list while an earlier one was not over
     "switch",       \* another account signed in; the list is never reloaded
     "leftMidSave"}  \* the account changed before a memory was stored

Idle == [step |-> "idle"]
Saves == [date: 1..MaxSaves, author: Users, row: Nat, picture: Pictures, crossed: BOOLEAN]
NotWritten == [date |-> 0, author |-> NoUser, crossed |-> FALSE]

TypeOK ==
    /\ Store!TypeOK
    /\ fetch \in {"none", "asked", "read", "done", "failed"}
    /\ fetched \in Seq(DocIDs) /\ documentIDs \in Seq(DocIDs) /\ rows \in Seq(DocIDs)
    /\ listOwner \in Users \cup {NoUser}
    /\ selected \in 0..Len(rows)
    /\ screen \in {"list", "details", "compose"}
    /\ cameBack \in BOOLEAN /\ alert \in BOOLEAN
    /\ saves \in SUBSET Saves
    /\ saving \in {Idle} \cup [step: {"stored"}, id: DocIDs]
                         \cup [step: {"inserting"}, id: DocIDs, copy: Seq(DocIDs)]
    /\ inserts \in Nat /\ clock \in 0..MaxSaves
    /\ crashed \in {"no", "rows", "index", "race", "nouser", "reply"}
    /\ written \in [DocIDs -> [date: 0..MaxSaves, author: Users \cup {NoUser}, crossed: BOOLEAN]]
    /\ lost \in SUBSET (1..MaxSaves)
    /\ lapse \in SUBSET Lapses

Init ==
    /\ Store!Init
    /\ fetch = "none" /\ fetched = <<>> /\ listOwner = NoUser
    /\ documentIDs = <<>> /\ rows = <<>> /\ selected = 0
    /\ screen = "list" /\ cameBack = FALSE /\ alert = FALSE
    /\ saves = {} /\ saving = Idle /\ inserts = 0 /\ clock = 0
    /\ written = [d \in DocIDs |-> NotWritten] /\ lost = {}
    /\ crashed = "no" /\ lapse = {}

-----------------------------------------------------------------------------
Running == crashed = "no"

\* The screen takes touches: someone is signed in, the list was loaded, no
\* alert covers it and no transition is under way.
Touchable == Running /\ currentUser # NoUser /\ fetch # "none" /\ ~alert /\ ~cameBack

\* Something a gesture started is not over yet.
Busy == fetch \in {"asked", "read"} \/ saves # {} \/ saving # Idle \/ inserts > 0

NoteOverlap == lapse' = IF Busy THEN lapse \cup {"overlap"} ELSE lapse

\* order(by: "saveDate", descending: true)
NewestFirst(ids, ds) ==
    /\ {ids[i] : i \in DOMAIN ids} = ds
    /\ \A i, j \in DOMAIN ids : i < j => written[ids[i]].date > written[ids[j]].date

Crash(why) == crashed' = why

-----------------------------------------------------------------------------
(* The account.  Nothing tells the list. *)

\* What is still to be stored will not find the account that tapped Save.
LeaveMidSave ==
    saves' = {[s EXCEPT !.crossed = TRUE] : s \in saves}

MidSave == IF saves # {} THEN {"leftMidSave"} ELSE {}

SignIn(u) ==
    /\ Running /\ u # currentUser
    /\ Store!SignIn(u)
    /\ LeaveMidSave
    /\ lapse' = lapse \cup MidSave
                     \cup (IF fetch # "none" /\ u # listOwner THEN {"switch"} ELSE {})
    /\ UNCHANGED <<listVars, viewVars, saving, inserts, clock, written, lost, crashed>>

SignOut ==
    /\ Running /\ ~alert
    /\ Store!SignOut
    /\ LeaveMidSave
    /\ lapse' = lapse \cup MidSave
    /\ UNCHANGED <<listVars, viewVars, saving, inserts, clock, written, lost, crashed>>

-----------------------------------------------------------------------------
(* Loading the list. *)

\* viewDidLoad, when the tab is opened for the first time.
ViewDidLoad ==
    /\ Running /\ currentUser # NoUser
    /\ fetch = "none"
    /\ fetch' = "asked"
    /\ listOwner' = currentUser
    /\ UNCHANGED <<storeVars, fetched, documentIDs, rows, selected, viewVars, saveVars,
                   crashed, lapse>>

\* getDocuments reads the diary that was asked for, writes of this device included ...
FetchReads ==
    /\ Running /\ fetch = "asked"
    /\ fetch' = "read"
    /\ fetched' \in BoundedSeq(docs[listOwner], MaxSaves)
    /\ NewestFirst(fetched', docs[listOwner])
    /\ UNCHANGED <<storeVars, listOwner, documentIDs, rows, selected, viewVars, saveVars,
                   crashed, lapse>>

\* Mutant: the table view keeps its selection over a reload.
FetchAnswers_KeepsSelection ==
    /\ Running /\ fetch = "read"
    /\ fetch' = "done"
    /\ documentIDs' = fetched
    /\ rows' = fetched
    /\ UNCHANGED <<storeVars, fetched, listOwner, selected, viewVars, saveVars, crashed, lapse>>

\* ... and calls back later, on the main thread.
FetchAnswers ==
    /\ Running /\ fetch = "read"
    /\ fetch' = "done"
    /\ documentIDs' = fetched
    /\ rows' = fetched
    /\ selected' = 0
    /\ UNCHANGED <<storeVars, fetched, listOwner, viewVars, saveVars, crashed, lapse>>

FetchFails ==
    /\ Running /\ fetch = "asked"
    /\ fetch' = "failed"
    /\ UNCHANGED <<storeVars, fetched, listOwner, documentIDs, rows, selected, viewVars,
                   saveVars, crashed, lapse>>

-----------------------------------------------------------------------------
(* Gestures. *)

SelectRow(i) ==
    /\ Touchable /\ screen = "list"
    /\ screen' = "details"
    /\ selected' = i
    /\ UNCHANGED <<storeVars, fetch, fetched, listOwner, documentIDs, rows, cameBack, alert,
                   saveVars, crashed, lapse>>

\* Mutant: viewWillAppear does not deselect.
BackFromDetails_KeepsSelection ==
    /\ Touchable /\ screen = "details"
    /\ screen' = "list"
    /\ UNCHANGED <<storeVars, listVars, cameBack, alert, saveVars, crashed, lapse>>

\* Back to the list: viewWillAppear deselects.
BackFromDetails ==
    /\ Touchable /\ screen = "details"
    /\ screen' = "list"
    /\ selected' = 0
    /\ UNCHANGED <<storeVars, fetch, fetched, listOwner, documentIDs, rows, cameBack, alert,
                   saveVars, crashed, lapse>>

Compose ==
    /\ Touchable /\ screen = "list"
    /\ screen' = "compose"
    /\ UNCHANGED <<storeVars, listVars, cameBack, alert, saveVars, crashed, lapse>>

\* unwindCancel, then viewWillAppear.
Cancel ==
    /\ Touchable /\ screen = "compose"
    /\ screen' = "list"
    /\ selected' = 0
    /\ UNCHANGED <<storeVars, fetch, fetched, listOwner, documentIDs, rows, cameBack, alert,
                   saveVars, crashed, lapse>>

\* unwindToMemories sends the text off for its key phrases; the row selected
\* at that moment decides between a new memory and an edit.  Then viewWillAppear.
Save(picture) ==
    /\ Touchable /\ screen = "compose"
    /\ clock < MaxSaves
    /\ clock' = clock + 1
    /\ saves' = saves \cup {[date |-> clock + 1, author |-> currentUser, row |-> selected,
                             picture |-> picture, crossed |-> FALSE]}
    /\ cameBack' = TRUE
    /\ screen' = "list"
    /\ selected' = 0
    /\ NoteOverlap
    /\ UNCHANGED <<storeVars, fetch, fetched, listOwner, documentIDs, rows, alert, saving,
                   inserts, written, lost, crashed>>

\* viewDidAppear after a save: the alert, and a timer to take it down.
ViewDidAppear ==
    /\ Running /\ cameBack
    /\ cameBack' = FALSE
    /\ alert' = TRUE
    /\ UNCHANGED <<storeVars, listVars, screen, saveVars, crashed, lapse>>

AlertTimer ==
    /\ Running /\ alert
    /\ alert' = FALSE
    /\ UNCHANGED <<storeVars, listVars, screen, cameBack, saveVars, crashed, lapse>>

\* Mutant: the name stays in the array.
DeleteRow_KeepsName(i) ==
    /\ Touchable /\ screen = "list"
    /\ NoteOverlap
    /\ IF i > Len(documentIDs)
       THEN Crash("index") /\ UNCHANGED <<storeVars, rows>>
       ELSE /\ Store!DeleteMemory(documentIDs[i])
            /\ IF Len(documentIDs) = Len(rows) - 1
               THEN rows' = RemoveAt(rows, i) /\ UNCHANGED crashed
               ELSE Crash("rows") /\ UNCHANGED rows
    /\ UNCHANGED <<fetch, fetched, listOwner, documentIDs, selected, viewVars, saveVars>>

\* Mutant: the name to delete is looked up after the removal.
DeleteRow_LooksUpLate(i) ==
    /\ Touchable /\ screen = "list"
    /\ NoteOverlap
    /\ IF i > Len(documentIDs) - 1
       THEN Crash("index") /\ UNCHANGED <<storeVars, documentIDs, rows>>
       ELSE /\ documentIDs' = RemoveAt(documentIDs, i)
            /\ Store!DeleteMemory(documentIDs'[i])
            /\ IF Len(documentIDs) = Len(rows)
               THEN rows' = RemoveAt(rows, i) /\ UNCHANGED crashed
               ELSE Crash("rows") /\ UNCHANGED rows
    /\ UNCHANGED <<fetch, fetched, listOwner, selected, viewVars, saveVars>>

\* Swipe to delete.  The gesture is on what row i shows; the code takes the
\* name at index i of the array, deletes that memory and has the table view
\* drop the row, which it does if the counts agree.
DeleteRow(i) ==
    /\ Touchable /\ screen = "list"
    /\ NoteOverlap
    /\ IF i > Len(documentIDs)
       THEN Crash("index") /\ UNCHANGED <<storeVars, documentIDs, rows>>
       ELSE /\ Store!DeleteMemory(documentIDs[i])
            /\ documentIDs' = RemoveAt(documentIDs, i)
            /\ IF Len(documentIDs) = Len(rows)
               THEN rows' = RemoveAt(rows, i) /\ UNCHANGED crashed
               ELSE Crash("rows") /\ UNCHANGED rows
    /\ UNCHANGED <<fetch, fetched, listOwner, selected, viewVars, saveVars>>

-----------------------------------------------------------------------------
(* The phrases thread.  A failed request has no tags, and goes on all the same. *)

Write(s, d) == written' = [written EXCEPT ![d] =
                             [date |-> s.date, author |-> s.author, crossed |-> s.crossed]]

\* Mutant: the diary is looked up once, when the list is loaded.
StoreNew_ToListOwner(s) ==
    \E d \in DocIDs \ used :
        /\ docs' = [docs EXCEPT ![listOwner] = @ \cup {d}]
        /\ used' = used \cup {d}
        /\ Write(s, d)
        /\ saving' = [step |-> "stored", id |-> d]
        /\ UNCHANGED <<currentUser, images, upload, deleting, pictured, mishap>>

\* The new memory goes to the diary of whoever is signed in by now.
StoreNew(s) ==
    \E d \in DocIDs :
        /\ Store!SaveNewMemory(d, s.picture)
        /\ Write(s, d)
        /\ saving' = [step |-> "stored", id |-> d]

\* The edited memory replaces the one whose name is at that index by now.
StoreEdit(s) ==
    /\ Store!ReplaceMemory(documentIDs[s.row], s.picture)
    /\ Write(s, documentIDs[s.row])
    /\ UNCHANGED saving

\* Mutant: a failed request ends the save.
PhrasesAnswer_NeedsTags(s) ==
    /\ Running /\ saving = Idle
    /\ saves' = saves \ {s}
    /\ \/ IF currentUser = NoUser
          THEN Crash("nouser") /\ UNCHANGED <<storeVars, saving, written>>
          ELSE (IF s.row = 0 THEN StoreNew(s) ELSE StoreEdit(s)) /\ UNCHANGED crashed
       \/ UNCHANGED <<storeVars, saving, written, crashed>>
    /\ UNCHANGED <<listVars, viewVars, inserts, clock, lost, lapse>>

PhrasesAnswer(s) ==
    /\ Running /\ saving = Idle
    /\ IF currentUser = NoUser
       THEN Crash("nouser") /\ UNCHANGED <<storeVars, saves, saving, written>>
       ELSE /\ IF s.row = 0 THEN StoreNew(s) ELSE StoreEdit(s)
            /\ saves' = saves \ {s}
            /\ UNCHANGED crashed
    /\ UNCHANGED <<listVars, viewVars, inserts, clock, lost, lapse>>

\* A reply that lists no document, as for a text Azure cannot work on:
\* documents.first! traps.
PhrasesTrap(s) ==
    /\ Running /\ saving = Idle
    /\ Crash("reply")
    /\ UNCHANGED <<storeVars, listVars, viewVars, saveVars, lapse>>

\* documentIDs.insert(id, at: 0) on this thread: the array is read ...
InsertReads ==
    /\ Running /\ saving.step = "stored"
    /\ saving' = [step |-> "inserting", id |-> saving.id, copy |-> documentIDs]
    /\ UNCHANGED <<storeVars, listVars, viewVars, saves, inserts, clock, written, lost,
                   crashed, lapse>>

\* Mutant: the name goes to the end of the array.
InsertWrites_AtTheEnd ==
    /\ Running /\ saving.step = "inserting"
    /\ saving' = Idle
    /\ documentIDs' = Append(saving.copy, saving.id)
    /\ inserts' = inserts + 1
    /\ UNCHANGED <<storeVars, fetch, fetched, listOwner, rows, selected, viewVars, saves,
                   clock, written, lost, crashed, lapse>>

\* ... and written back.  If the main thread changed it in between, that is a
\* data race: one of the changes is gone, or the app is.
InsertWrites ==
    /\ Running /\ saving.step = "inserting"
    /\ saving' = Idle
    /\ \/ /\ documentIDs' = Cons(saving.id, saving.copy)
          /\ inserts' = inserts + 1
          /\ UNCHANGED crashed
       \/ /\ documentIDs # saving.copy
          /\ inserts' = inserts + 1
          /\ UNCHANGED <<documentIDs, crashed>>
       \/ /\ documentIDs # saving.copy
          /\ Crash("race")
          /\ UNCHANGED <<documentIDs, inserts>>
    /\ UNCHANGED <<storeVars, fetch, fetched, listOwner, rows, selected, viewVars, saves,
                   clock, written, lost, lapse>>

\* On the main thread: dismiss whatever is presented, then insert row 0.  The
\* selected row, if there is one, moves down.
InsertRows ==
    /\ Running /\ inserts > 0
    /\ inserts' = inserts - 1
    /\ alert' = FALSE
    /\ IF Len(documentIDs) = Len(rows) + 1
       THEN /\ rows' = Cons(documentIDs[1], rows)
            /\ selected' = IF selected > 0 THEN selected + 1 ELSE 0
            /\ UNCHANGED crashed
       ELSE Crash("rows") /\ UNCHANGED <<rows, selected>>
    /\ UNCHANGED <<storeVars, fetch, fetched, listOwner, documentIDs, screen, cameBack, saves,
                   saving, clock, written, lost, lapse>>

-----------------------------------------------------------------------------
\* The app is killed, or has crashed, and is started again: the views begin
\* anew, and what waited for its key phrases is gone.
Relaunch ==
    /\ Store!Killed
    /\ fetch' = "none" /\ fetched' = <<>> /\ listOwner' = NoUser
    /\ documentIDs' = <<>> /\ rows' = <<>> /\ selected' = 0
    /\ screen' = "list" /\ cameBack' = FALSE /\ alert' = FALSE
    /\ saves' = {} /\ saving' = Idle /\ inserts' = 0
    /\ lost' = lost \cup {s.date : s \in saves}
    /\ crashed' = "no" /\ lapse' = {}
    /\ UNCHANGED <<clock, written>>

StorageAnswers(d) ==
    /\ Running
    /\ Store!StorageAnswers(d)
    /\ UNCHANGED <<listVars, viewVars, saveVars, crashed, lapse>>

Next ==
    \/ \E u \in Users : SignIn(u)
    \/ SignOut
    \/ ViewDidLoad \/ FetchReads \/ FetchAnswers \/ FetchFails
    \/ \E i \in 1..Len(rows) : SelectRow(i) \/ DeleteRow(i)
    \/ BackFromDetails \/ Compose \/ Cancel
    \/ \E picture \in Pictures : Save(picture)
    \/ ViewDidAppear \/ AlertTimer
    \/ \E s \in saves : PhrasesAnswer(s) \/ PhrasesTrap(s)
    \/ InsertReads \/ InsertWrites \/ InsertRows
    \/ Relaunch
    \/ \E d \in DocIDs : StorageAnswers(d)

Spec == Init /\ [][Next]_vars

\* URLSession ends every request, and the queues run what is put on them.
Fairness ==
    /\ \A t \in 1..MaxSaves : WF_vars(\E s \in saves : s.date = t /\ PhrasesAnswer(s))
    /\ WF_vars(InsertReads) /\ WF_vars(InsertWrites)

FairSpec == Spec /\ Fairness

-----------------------------------------------------------------------------
Written == {d \in DocIDs : written[d].date > 0}

(* The table view's consistency check, the race on the array and the forced *)
(* unwrap of the signed in user can all end the app; each needs the user to *)
(* go on before an earlier gesture is over, or the account to change before *)
(* a memory is stored.  Waiting is enough to be safe from them.             *)
CrashesExplained ==
    /\ crashed \in {"rows", "index", "race"} => "overlap" \in lapse
    /\ crashed = "nouser" => "leftMidSave" \in lapse

(* Array, table and store are three copies of one list, changed in different *)
(* orders on two threads.  When all is quiet and the user has given no cause *)
(* for trouble they agree, order included.                                   *)
ListMatchesStore ==
    (Running /\ fetch = "done" /\ ~Busy /\ lapse = {} /\ currentUser # NoUser) =>
        /\ NewestFirst(documentIDs, docs[currentUser])
        /\ rows = documentIDs

(* A swipe on a row deletes the memory the row shows, not the one that an   *)
(* insertion still on its way has moved to that index - unless the user     *)
(* swiped before a save was over.                                           *)
DeletesTheRowShown ==
    [][\A d \in DocIDs : (d \in Store!Stored /\ d \notin Store!Stored') =>
           \/ "overlap" \in lapse'
           \/ \E i \in 1..Len(rows) : rows[i] = d /\ rows' = RemoveAt(rows, i)]_vars

(* A memory is filed under the account that wrote it, whatever the list on  *)
(* the screen shows, unless the account changed before it was stored: by    *)
(* signing out, or by the late answer to another request to sign in.        *)
FiledUnderItsAuthor ==
    \A u \in Users : \A d \in docs[u] : written[d].author = u \/ written[d].crossed

(* Whatever the list does to the store is a call of MemoryStore as the store *)
(* allows it, so what holds of the store by itself holds under the list: in  *)
(* particular no memory is written over another, and none to the diary of   *)
(* anyone but the account signed in.                                         *)
StoreSafety == Store!Spec

(* unwindToMemories replaces a memory when a row is selected; viewWillAppear *)
(* sees to it that none is when a new memory is saved.                       *)
SavesNeverOverwrite ==
    [][\A d \in Written : written'[d] = written[d]]_vars

(* A memory handed to the phrases thread is stored, also when the request   *)
(* fails, unless the app dies.                                              *)
SaveIsNotDropped ==
    \A t \in 1..MaxSaves :
        (\E s \in saves : s.date = t) ~>
            (crashed # "no" \/ t \in lost \/ \E d \in DocIDs : written[d].date = t)

(* The alert says "Memory Saved": the memory saved last is in the store.    *)
SavedAlertIsTrue == alert => \E d \in DocIDs : written[d].date = clock
=============================================================================
