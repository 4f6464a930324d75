---------------------------- MODULE MemoryCells ----------------------------
(***************************************************************************)
(* The cells of the list and the details of a memory (cellForRowAt and     *)
(* prepare of MemoriesTableViewViewController.swift, MemoryTableViewCell,  *)
(* MemoryDetailsViewController, getMemory and getImage of Firebase.swift). *)
(* A cell that leaves the screen is used again for another row.  Filling   *)
(* one takes two calls, for the document and for the address of its        *)
(* picture, whose answer fills the cell that asked, whatever row it stands *)
(* for by then; a document that cannot be read calls back never.  The      *)
(* picture itself is loaded into the cell's view by Kingfisher, for which  *)
(* the last address set is the one that counts.                            *)
(*                                                                         *)
(* A memory does not change once it is stored, so it is its document here. *)
(***************************************************************************)
EXTENDS Integers

CONSTANTS
    Cells,     \* cells the table view has made
    Docs,      \* documents of the list
    Pictured,  \* those with a picture in Storage
    NoDoc,     \* no document
    MaxAsks    \* bound: calls of cellForRowAt

ASSUME NoDocAssumption == NoDoc \notin Docs
ASSUME PicturedAssumption == Pictured \subseteq Docs
ASSUME MaxAsksAssumption == MaxAsks \in Nat

VARIABLES
    documentIDs, \* the documents in the list; their order plays no part
    stored,      \* the documents in the owner's diary
    account,     \* who is signed in: the list's owner, another user or nobody
    row,         \* the document whose row each cell stands for; none when spare
    requests,    \* calls of getMemory not over yet
    asks,        \* calls of cellForRowAt so far
    memory,      \* what each cell was filled with last
    loading,     \* the document whose picture is being loaded into each cell
    image,       \* the picture each cell shows
    details,     \* the memory handed to the details on the screen
    crashed,     \* the app has ended
    (* history: unseen by the code *)
    last,        \* the last call made for each cell
    mishap       \* what went wrong for each cell since that call

listVars == <<documentIDs, stored, account>>
cellVars == <<memory, loading, image>>
vars == <<listVars, row, requests, asks, cellVars, details, crashed, last, mishap>>

Accounts == {"owner", "other", "nobody"}

Mishaps ==
    {"missing",   \* the document could not be read: no call back
     "overtaken"} \* an older call, for another row, was answered later

Requests == [cell: Cells, doc: Docs, own: BOOLEAN, ask: 1..MaxAsks, step: {"document", "image"}]
Closed == [row |-> NoDoc, memory |-> NoDoc, excused |-> FALSE]

TypeOK ==
    /\ documentIDs \subseteq Docs /\ stored \subseteq Docs
    /\ account \in Accounts /\ crashed \in BOOLEAN
    /\ row \in [Cells -> Docs \cup {NoDoc}]
    /\ requests \subseteq Requests
    /\ asks \in 0..MaxAsks
    /\ memory \in [Cells -> Docs \cup {NoDoc}]
    /\ loading \in [Cells -> Pictured \cup {NoDoc}]
    /\ image \in [Cells -> Pictured \cup {NoDoc}]
    /\ details \in [row: Docs \cup {NoDoc}, memory: Docs \cup {NoDoc}, excused: BOOLEAN]
    /\ last \in [Cells -> 0..asks]
    /\ mishap \in [Cells -> SUBSET Mishaps]

Init ==
    /\ documentIDs = Docs /\ stored = Docs /\ account = "owner"
    /\ row = [c \in Cells |-> NoDoc]
    /\ requests = {} /\ asks = 0
    /\ memory = [c \in Cells |-> NoDoc]
    /\ loading = [c \in Cells |-> NoDoc]
    /\ image = [c \in Cells |-> NoDoc]
    /\ details = Closed /\ crashed = FALSE
    /\ last = [c \in Cells |-> 0]
    /\ mishap = [c \in Cells |-> {}]

Running == ~crashed

Blame(c, what) == mishap' = [mishap EXCEPT ![c] = @ \cup {what}]

-----------------------------------------------------------------------------
(* The table view. *)

\* diariesRef takes the user by force.
Trap == crashed' = TRUE

\* A spare cell, as it is, and a row that has none.
Spare(c, d) == row[c] = NoDoc /\ d \in documentIDs /\ \A b \in Cells : row[b] # d

\* cellForRowAt.  The document is looked for in the diary of whoever is signed
\* in now.
CellForRow(c, d) ==
    /\ Running /\ Spare(c, d) /\ account # "nobody"
    /\ asks < MaxAsks
    /\ asks' = asks + 1
    /\ row' = [row EXCEPT ![c] = d]
    /\ requests' = requests \cup
           {[cell |-> c, doc |-> d, own |-> account = "owner", ask |-> asks + 1,
             step |-> "document"]}
    /\ last' = [last EXCEPT ![c] = asks + 1]
    /\ mishap' = [mishap EXCEPT ![c] = {}]
    /\ UNCHANGED <<listVars, cellVars, details, crashed>>

CellForRowTraps(c, d) ==
    /\ Running /\ Spare(c, d) /\ account = "nobody"
    /\ Trap
    /\ UNCHANGED <<listVars, row, requests, asks, cellVars, details, last, mishap>>

\* The row scrolls off the screen or the table is reloaded.
DidEndDisplaying(c) ==
    /\ Running /\ row[c] # NoDoc
    /\ row' = [row EXCEPT ![c] = NoDoc]
    /\ UNCHANGED <<listVars, requests, asks, cellVars, details, crashed, last, mishap>>

\* commit(.delete), with nothing else under way in the list.
DeleteRow(c) ==
    /\ Running /\ row[c] # NoDoc /\ details = Closed /\ account # "nobody"
    /\ documentIDs' = documentIDs \ {row[c]}
    /\ stored' = IF account = "owner" THEN stored \ {row[c]} ELSE stored
    /\ row' = [row EXCEPT ![c] = NoDoc]
    /\ UNCHANGED <<account, requests, asks, cellVars, details, crashed, last, mishap>>

DeleteRowTraps(c) ==
    /\ Running /\ row[c] # NoDoc /\ details = Closed /\ account = "nobody"
    /\ documentIDs' = documentIDs \ {row[c]}
    /\ Trap
    /\ UNCHANGED <<stored, account, row, requests, asks, cellVars, details, last, mishap>>

\* A call made for this cell, for whatever row, is not over.
Pending(c) == \E r \in requests : r.cell = c

\* Mutant: the details look the row up when they load, in a list that has moved on.
ShowMemoryDetail_ByRow(c) ==
    /\ Running /\ row[c] # NoDoc /\ details = Closed
    /\ \E d \in documentIDs :
           details' = [row |-> row[c], memory |-> d, excused |-> Pending(c) \/ mishap[c] # {}]
    /\ UNCHANGED <<listVars, row, requests, asks, cellVars, crashed, last, mishap>>

\* prepare(for: ShowMemoryDetail): the memory the cell holds, whatever its row.
ShowMemoryDetail(c) ==
    /\ Running /\ row[c] # NoDoc /\ details = Closed
    /\ details' = [row |-> row[c], memory |-> memory[c], excused |-> Pending(c) \/ mishap[c] # {}]
    /\ UNCHANGED <<listVars, row, requests, asks, cellVars, crashed, last, mishap>>

Back ==
    /\ Running /\ details # Closed
    /\ details' = Closed
    /\ UNCHANGED <<listVars, row, requests, asks, cellVars, crashed, last, mishap>>

\* Somebody signs in, or out: the list stays as it is.
SwitchAccount ==
    /\ Running
    /\ account' \in Accounts \ {account}
    /\ UNCHANGED <<documentIDs, stored, row, requests, asks, cellVars, details, crashed, last,
                   mishap>>

-----------------------------------------------------------------------------
(* getMemory and getImage. *)

\* The document is read and well formed: ask for the picture's address.
DocumentRead(r) ==
    /\ Running /\ r \in requests /\ r.step = "document"
    /\ r.own /\ r.doc \in stored
    /\ requests' = (requests \ {r}) \cup {[r EXCEPT !.step = "image"]}
    /\ UNCHANGED <<listVars, row, asks, cellVars, details, crashed, last, mishap>>

\* It is not there, or the read failed: a line in the log and no call back.
DocumentMissing(r) ==
    /\ Running /\ r \in requests /\ r.step = "document"
    /\ requests' = requests \ {r}
    /\ IF r.ask = last[r.cell] THEN Blame(r.cell, "missing") ELSE UNCHANGED mishap
    /\ UNCHANGED <<listVars, row, asks, cellVars, details, crashed, last>>

\* Mutant: the picture shown before stays until the next one is loaded.
SetMemory_KeepsImage(c, d, addressed) ==
    /\ memory' = [memory EXCEPT ![c] = d]
    /\ loading' = [loading EXCEPT ![c] = IF addressed THEN d ELSE NoDoc]
    /\ UNCHANGED image

\* Mutant: the address is made from the name, whether there is a picture or not.
SetMemory_AlwaysLoads(c, d, addressed) ==
    /\ memory' = [memory EXCEPT ![c] = d]
    /\ image' = [image EXCEPT ![c] = NoDoc]
    /\ loading' = [loading EXCEPT ![c] = d]

\* setMemory: the cell shows the memory at once and without a picture, until
\* Kingfisher has loaded it from the address, if there is one.
SetMemory(c, d, addressed) ==
    /\ memory' = [memory EXCEPT ![c] = d]
    /\ image' = [image EXCEPT ![c] = NoDoc]
    /\ loading' = [loading EXCEPT ![c] = IF addressed THEN d ELSE NoDoc]

\* Mutant: no address, no call back.
ImageAnswers_OnlyAddressed(r, addressed) ==
    /\ Running /\ r \in requests /\ r.step = "image"
    /\ addressed /\ r.doc \in Pictured
    /\ requests' = requests \ {r}
    /\ SetMemory(r.cell, r.doc, addressed)
    /\ IF r.doc # row[r.cell] /\ ~\E p \in requests : p.cell = r.cell /\ p.ask = last[r.cell]
       THEN Blame(r.cell, "overtaken")
       ELSE UNCHANGED mishap
    /\ UNCHANGED <<listVars, row, asks, details, crashed, last>>

\* Mutant: a cell is filled once.
ImageAnswers_FillsOnce(r, addressed) ==
    /\ Running /\ r \in requests /\ r.step = "image"
    /\ addressed => r.doc \in Pictured
    /\ requests' = requests \ {r}
    /\ IF memory[r.cell] = NoDoc
       THEN SetMemory(r.cell, r.doc, addressed)
       ELSE UNCHANGED cellVars
    /\ UNCHANGED <<listVars, row, asks, details, crashed, last, mishap>>

\* The answer of getImage, with an address or an error, which is the same as none.
ImageAnswers(r, addressed) ==
    /\ Running /\ r \in requests /\ r.step = "image"
    /\ addressed => r.doc \in Pictured
    /\ requests' = requests \ {r}
    /\ SetMemory(r.cell, r.doc, addressed)
    /\ IF r.doc # row[r.cell] /\ ~\E p \in requests : p.cell = r.cell /\ p.ask = last[r.cell]
       THEN Blame(r.cell, "overtaken")
       ELSE UNCHANGED mishap
    /\ UNCHANGED <<listVars, row, asks, details, crashed, last>>

\* Kingfisher: the picture of the last address set.
ImageLoaded(c) ==
    /\ Running /\ loading[c] # NoDoc
    /\ image' = [image EXCEPT ![c] = loading[c]]
    /\ loading' = [loading EXCEPT ![c] = NoDoc]
    /\ UNCHANGED <<listVars, row, requests, asks, memory, details, crashed, last, mishap>>

ImageFails(c) ==
    /\ Running /\ loading[c] # NoDoc
    /\ loading' = [loading EXCEPT ![c] = NoDoc]
    /\ UNCHANGED <<listVars, row, requests, asks, memory, image, details, crashed, last, mishap>>

-----------------------------------------------------------------------------
Next ==
    \/ \E c \in Cells : \/ \E d \in Docs : CellForRow(c, d) \/ CellForRowTraps(c, d)
                        \/ DidEndDisplaying(c) \/ DeleteRow(c) \/ DeleteRowTraps(c)
                        \/ ShowMemoryDetail(c)
                        \/ ImageLoaded(c) \/ ImageFails(c)
    \/ Back \/ SwitchAccount
    \/ \E r \in requests : \/ DocumentRead(r) \/ DocumentMissing(r)
                           \/ \E addressed \in BOOLEAN : ImageAnswers(r, addressed)

Spec == Init /\ [][Next]_vars

\* Firestore and Storage end each call, and call back.
Fairness ==
    \A n \in 1..MaxAsks :
        WF_vars(\E r \in requests :
                   /\ r.ask = n
                   /\ \/ DocumentRead(r) \/ DocumentMissing(r)
                      \/ \E addressed \in BOOLEAN : ImageAnswers(r, addressed))

FairSpec == Spec /\ Fairness

-----------------------------------------------------------------------------
(* A cell with no call under way shows the memory of the row it stands for *)
(* - however often it was used again, and whatever was answered before -   *)
(* unless that memory could not be read, or an older call of the same cell *)
(* was answered after the last one.                                        *)
CellShowsItsRow ==
    \A c \in Cells :
        row[c] # NoDoc /\ ~Pending(c) /\ mishap[c] = {} => memory[c] = row[c]

(* A cell never shows the picture of one memory with the text of another,  *)
(* nor is one on its way into it.                                          *)
PictureOfTheMemory ==
    \A c \in Cells : image[c] \in {NoDoc, memory[c]} /\ loading[c] \in {NoDoc, memory[c]}

(* The details are of the memory whose row was touched, if its cell had no *)
(* call under way then and nothing had gone wrong for it.                  *)
DetailsOfTheRow == details.memory = details.row \/ details.excused

(* A row that stays on the screen shows its memory in the end, unless it   *)
(* could not be read, an older answer comes last, or the app ends: a row   *)
(* that comes up, or is deleted, with nobody signed in takes it down.      *)
RowFills ==
    \A c \in Cells :
        []<>(row[c] = NoDoc \/ memory[c] = row[c] \/ mishap[c] # {} \/ crashed)
=============================================================================
