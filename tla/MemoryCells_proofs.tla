------------------------- MODULE MemoryCells_proofs -------------------------
(***************************************************************************)
(* For any cells, documents and number of calls: which memory a cell shows *)
(* and whose picture.  CellShowsItsRow becomes inductive by what is true   *)
(* while calls are under way: the last call made for a cell is for the row *)
(* it stands for (LastIsForRow), and as long as nothing went wrong, that   *)
(* call is under way or the cell is filled (Filling).                      *)
(***************************************************************************)
EXTENDS MemoryCells, TLAPS

LastCallPending(c) == \E r \in requests : r.cell = c /\ r.ask = last[c]

LastIsForRow ==
    \A c \in Cells, r \in requests :
        r.cell = c /\ r.ask = last[c] /\ row[c] # NoDoc => r.doc = row[c]

Filling ==
    \A c \in Cells :
        row[c] # NoDoc /\ mishap[c] = {} => memory[c] = row[c] \/ LastCallPending(c)

Counted == \A r \in requests : r.ask <= asks

Consistent ==
    TypeOK /\ Counted /\ LastIsForRow /\ Filling /\ PictureOfTheMemory /\ DetailsOfTheRow

\* The invariant behind the first property of a cell.
LEMMA FillingSuffices == Consistent => CellShowsItsRow
BY DEF Consistent, Filling, LastCallPending, CellShowsItsRow, Pending

LEMMA InitConsistent == Init => Consistent
<1> SUFFICES ASSUME Init PROVE Consistent
  OBVIOUS
<1> USE MaxAsksAssumption, NoDocAssumption
<1>1. TypeOK
  <2>1. crashed \in BOOLEAN /\ account \in Accounts
    BY DEF Init, Accounts
  <2> QED
    BY <2>1 DEF Init, TypeOK, Closed
<1>2. Counted /\ LastIsForRow /\ Filling /\ PictureOfTheMemory /\ DetailsOfTheRow
  BY DEF Init, Counted, LastIsForRow, Filling, PictureOfTheMemory, DetailsOfTheRow, Closed
<1> QED
  BY <1>1, <1>2 DEF Consistent

\* A step that makes no call, ends none and fills no cell.
LEMMA CallsUntouched ==
  ASSUME Consistent, UNCHANGED <<requests, asks, memory, last, mishap>>, TypeOK',
         \A c \in Cells : row'[c] \in {row[c], NoDoc},
         PictureOfTheMemory', DetailsOfTheRow'
  PROVE  Consistent'
<1>1. Counted'
  BY DEF Consistent, Counted
<1>2. LastIsForRow'
  BY DEF Consistent, LastIsForRow
<1>3. Filling'
  BY DEF Consistent, Filling, LastCallPending
<1> QED
  BY <1>1, <1>2, <1>3 DEF Consistent

\* A cell is taken for a row.
LEMMA CellForRowStep ==
  ASSUME Consistent, NEW c \in Cells, NEW d \in Docs, CellForRow(c, d)
  PROVE  Consistent'
<1> USE MaxAsksAssumption, NoDocAssumption DEF Consistent
<1> DEFINE n == [cell |-> c, doc |-> d, own |-> account = "owner", ask |-> asks + 1,
                   step |-> "document"]
<1>1. /\ requests' = requests \cup {n} /\ asks' = asks + 1
      /\ row' = [row EXCEPT ![c] = d] /\ last' = [last EXCEPT ![c] = asks + 1]
      /\ mishap' = [mishap EXCEPT ![c] = {}]
      /\ UNCHANGED <<listVars, cellVars, details, crashed>>
  BY DEF CellForRow
<1>2. asks \in Nat /\ asks < MaxAsks /\ last \in [Cells -> 0..asks]
  BY DEF CellForRow, TypeOK
<1>3. TypeOK'
  <2>1. n \in Requests
    <3>1. (account = "owner") \in BOOLEAN
      OBVIOUS
    <3> QED
      BY <1>2, <3>1 DEF Requests, TypeOK
  <2>2. last' \in [Cells -> 0..asks']
    BY <1>1, <1>2
  <2> QED
    BY <1>1, <1>2, <2>1, <2>2 DEF TypeOK, listVars, cellVars
<1>4. Counted'
  BY <1>1, <1>2 DEF Counted, TypeOK, Requests
<1>5. LastIsForRow'
  <2> SUFFICES ASSUME NEW b \in Cells, NEW r \in requests', r.cell = b, r.ask = last'[b],
                      row'[b] # NoDoc
               PROVE  r.doc = row'[b]
    BY DEF LastIsForRow
  <2>1. CASE b = c
    <3>1. last'[b] = asks + 1 /\ row'[b] = d
      BY <1>1, <2>1 DEF TypeOK
    <3>2. r = n
      BY <1>1, <1>2, <3>1 DEF Counted, TypeOK, Requests
    <3> QED
      BY <3>1, <3>2
  <2>2. CASE b # c
    BY <1>1, <2>2 DEF LastIsForRow, TypeOK
  <2> QED
    BY <2>1, <2>2
<1>6. Filling'
  <2> SUFFICES ASSUME NEW b \in Cells, row'[b] # NoDoc, mishap'[b] = {}
               PROVE  memory'[b] = row'[b] \/ LastCallPending(b)'
    BY DEF Filling
  <2>1. CASE b = c
    <3>1. n \in requests' /\ n.cell = b /\ n.ask = last'[b]
      BY <1>1, <2>1 DEF TypeOK
    <3> QED
      BY <3>1 DEF LastCallPending
  <2>2. CASE b # c
    BY <1>1, <2>2 DEF Filling, LastCallPending, TypeOK, cellVars
  <2> QED
    BY <2>1, <2>2
<1> QED
  BY <1>1, <1>3, <1>4, <1>5, <1>6 DEF PictureOfTheMemory, DetailsOfTheRow, cellVars

\* A call goes on to the picture's address.
LEMMA DocumentReadStep ==
  ASSUME Consistent, NEW r \in requests, DocumentRead(r)
  PROVE  Consistent'
<1> USE DEF Consistent
<1> DEFINE n == [r EXCEPT !.step = "image"]
<1>1. /\ requests' = (requests \ {r}) \cup {n}
      /\ UNCHANGED <<listVars, row, asks, cellVars, details, crashed, last, mishap>>
  BY DEF DocumentRead
<1>2. n \in Requests /\ n.cell = r.cell /\ n.ask = r.ask /\ n.doc = r.doc
  BY DEF TypeOK, Requests
<1>3. TypeOK'
  BY <1>1, <1>2 DEF TypeOK, listVars, cellVars
<1>4. Counted' /\ LastIsForRow'
  <2>1. Counted'
    BY <1>1, <1>2 DEF Counted
  <2>2. ASSUME NEW c \in Cells, NEW p \in requests', p.cell = c, p.ask = last[c], row[c] # NoDoc
        PROVE  p.doc = row[c]
    <3>1. CASE p \in requests
      BY <2>2, <3>1 DEF LastIsForRow
    <3>2. CASE p = n
      BY <1>2, <2>2, <3>2 DEF LastIsForRow
    <3> QED
      BY <1>1, <3>1, <3>2
  <2> QED
    BY <1>1, <2>1, <2>2 DEF LastIsForRow
<1>5. ASSUME NEW c \in Cells, LastCallPending(c)
      PROVE  LastCallPending(c)'
  BY <1>1, <1>2, <1>5 DEF LastCallPending
<1>6. Filling'
  BY <1>1, <1>5 DEF Filling, cellVars
<1> QED
  BY <1>1, <1>3, <1>4, <1>6 DEF PictureOfTheMemory, DetailsOfTheRow, cellVars

\* A call ends without calling back.
LEMMA DocumentMissingStep ==
  ASSUME Consistent, NEW r \in requests, DocumentMissing(r)
  PROVE  Consistent'
<1> USE DEF Consistent
<1>1. /\ requests' = requests \ {r}
      /\ UNCHANGED <<listVars, row, asks, cellVars, details, crashed, last>>
      /\ r.cell \in Cells
  BY DEF DocumentMissing, TypeOK, Requests
<1>2. /\ r.ask = last[r.cell] => mishap'[r.cell] # {}
      /\ \A c \in Cells : mishap'[c] = {} => mishap[c] = {}
      /\ mishap' \in [Cells -> SUBSET Mishaps]
  <2>1. CASE r.ask = last[r.cell]
    <3>1. mishap' = [mishap EXCEPT ![r.cell] = @ \cup {"missing"}]
      BY <2>1 DEF DocumentMissing, Blame
    <3> QED
      BY <1>1, <3>1 DEF TypeOK, Mishaps
  <2>2. CASE r.ask # last[r.cell]
    BY <2>2 DEF DocumentMissing, TypeOK
  <2> QED
    BY <2>1, <2>2
<1>3. TypeOK'
  BY <1>1, <1>2 DEF TypeOK, listVars, cellVars
<1>4. Counted' /\ LastIsForRow'
  BY <1>1 DEF Counted, LastIsForRow
<1>5. Filling'
  BY <1>1, <1>2 DEF Filling, LastCallPending, cellVars
<1> QED
  BY <1>1, <1>3, <1>4, <1>5 DEF PictureOfTheMemory, DetailsOfTheRow, cellVars

\* A call ends by filling the cell it was made for.
LEMMA ImageAnswersStep ==
  ASSUME Consistent, NEW r \in requests, NEW addressed \in BOOLEAN, ImageAnswers(r, addressed)
  PROVE  Consistent'
<1> USE NoDocAssumption, PicturedAssumption DEF Consistent
<1> DEFINE c == r.cell
<1>1. /\ requests' = requests \ {r} /\ c \in Cells /\ r.doc \in Docs
      /\ UNCHANGED <<listVars, row, asks, details, crashed, last>>
      /\ memory' = [memory EXCEPT ![c] = r.doc]
      /\ image' = [image EXCEPT ![c] = NoDoc]
      /\ loading' = [loading EXCEPT ![c] = IF addressed THEN r.doc ELSE NoDoc]
      /\ addressed => r.doc \in Pictured
  BY DEF ImageAnswers, SetMemory, TypeOK, Requests
<1>2. CASE r.doc # row[c] /\ ~LastCallPending(c)
  <2>1. mishap' = [mishap EXCEPT ![c] = @ \cup {"overtaken"}]
    BY <1>2 DEF ImageAnswers, Blame, LastCallPending
  <2>2. TypeOK'
    BY <1>1, <2>1 DEF TypeOK, listVars, Mishaps
  <2>3. Filling'
    BY <1>1, <2>1 DEF Filling, LastCallPending, TypeOK
  <2> QED
    BY <1>1, <2>2, <2>3
    DEF Counted, LastIsForRow, PictureOfTheMemory, DetailsOfTheRow, TypeOK
<1>3. CASE r.doc = row[c] \/ LastCallPending(c)
  <2>1. UNCHANGED mishap
    BY <1>3 DEF ImageAnswers, LastCallPending
  <2>2. TypeOK'
    BY <1>1, <2>1 DEF TypeOK, listVars
  <2>3. Filling'
    <3> SUFFICES ASSUME NEW b \in Cells, row[b] # NoDoc, mishap[b] = {}
                 PROVE  memory'[b] = row[b] \/ LastCallPending(b)'
      BY <1>1, <2>1 DEF Filling
    <3>1. CASE b # c
      BY <1>1, <3>1 DEF Filling, LastCallPending, TypeOK
    <3>2. CASE b = c /\ r.doc = row[c]
      BY <1>1, <3>2 DEF TypeOK
    <3>3. CASE b = c /\ r.doc # row[c]
      <4>1. r.ask # last[c]
        BY <1>1, <3>3 DEF LastIsForRow
      <4> QED
        BY <1>1, <1>3, <3>3, <4>1 DEF LastCallPending
    <3> QED
      BY <3>1, <3>2, <3>3
  <2> QED
    BY <1>1, <2>1, <2>2, <2>3
    DEF Counted, LastIsForRow, PictureOfTheMemory, DetailsOfTheRow, TypeOK
<1> QED
  BY <1>2, <1>3

LEMMA ConsistentStep ==
  ASSUME Consistent, [Next]_vars
  PROVE  Consistent'
<1> USE NoDocAssumption, PicturedAssumption DEF Consistent
<1>1. CASE UNCHANGED vars
  BY <1>1, CallsUntouched
  DEF vars, listVars, cellVars, TypeOK, PictureOfTheMemory, DetailsOfTheRow
<1>2. ASSUME NEW c \in Cells, NEW d \in Docs, CellForRow(c, d)
      PROVE  Consistent'
  BY <1>2, CellForRowStep
<1>3. ASSUME NEW c \in Cells, DidEndDisplaying(c) \/ DeleteRow(c)
      PROVE  Consistent'
  BY <1>3, CallsUntouched
  DEF DidEndDisplaying, DeleteRow, listVars, cellVars, TypeOK, PictureOfTheMemory, DetailsOfTheRow
<1>4. ASSUME NEW c \in Cells, ShowMemoryDetail(c)
      PROVE  Consistent'
  <2>1. /\ row[c] # NoDoc
        /\ details' = [row |-> row[c], memory |-> memory[c],
                       excused |-> Pending(c) \/ mishap[c] # {}]
        /\ UNCHANGED <<listVars, row, requests, asks, cellVars, crashed, last, mishap>>
    BY <1>4 DEF ShowMemoryDetail
  <2>2. DetailsOfTheRow'
    <3>1. Pending(c) \/ mishap[c] # {} \/ memory[c] = row[c]
      BY <2>1, FillingSuffices DEF CellShowsItsRow
    <3> QED
      BY <2>1, <3>1 DEF DetailsOfTheRow
  <2>3. TypeOK'
    <3>1. (Pending(c) \/ mishap[c] # {}) \in BOOLEAN
      OBVIOUS
    <3> QED
      BY <2>1, <3>1 DEF TypeOK, listVars, cellVars
  <2> QED
    BY <2>1, <2>2, <2>3, CallsUntouched DEF cellVars, PictureOfTheMemory
<1>5. CASE Back \/ SwitchAccount
  <2>1. TypeOK' /\ DetailsOfTheRow'
    <3>1. CASE Back
      <4>1. /\ Closed \in [row: Docs \cup {NoDoc}, memory: Docs \cup {NoDoc}, excused: BOOLEAN]
            /\ Closed.memory = Closed.row
        BY DEF Closed
      <4> QED
        BY <3>1, <4>1 DEF Back, listVars, cellVars, TypeOK, DetailsOfTheRow
    <3>2. CASE SwitchAccount
      <4>1. account' \in Accounts
        BY <3>2 DEF SwitchAccount
      <4> QED
        BY <3>2, <4>1 DEF SwitchAccount, cellVars, TypeOK, DetailsOfTheRow
    <3> QED
      BY <1>5, <3>1, <3>2
  <2> QED
    BY <1>5, <2>1, CallsUntouched
    DEF Back, SwitchAccount, listVars, cellVars, PictureOfTheMemory
<1>6. ASSUME NEW c \in Cells, ImageLoaded(c) \/ ImageFails(c)
      PROVE  Consistent'
  BY <1>6, CallsUntouched
  DEF ImageLoaded, ImageFails, listVars, TypeOK, PictureOfTheMemory, DetailsOfTheRow
<1>7. ASSUME NEW r \in requests, DocumentRead(r)
      PROVE  Consistent'
  BY <1>7, DocumentReadStep
<1>8. ASSUME NEW r \in requests, DocumentMissing(r)
      PROVE  Consistent'
  BY <1>8, DocumentMissingStep
<1>9. ASSUME NEW r \in requests, NEW addressed \in BOOLEAN, ImageAnswers(r, addressed)
      PROVE  Consistent'
  BY <1>9, ImageAnswersStep
<1>10. ASSUME NEW c \in Cells,
              DeleteRowTraps(c) \/ \E d \in Docs : CellForRowTraps(c, d)
       PROVE  Consistent'
  <2>1. /\ UNCHANGED <<stored, account, row, requests, asks, cellVars, details, last, mishap>>
        /\ documentIDs' \subseteq Docs /\ crashed' = TRUE
    BY <1>10 DEF DeleteRowTraps, CellForRowTraps, Trap, listVars, TypeOK
  <2>2. crashed' \in BOOLEAN
    BY <2>1
  <2>3. TypeOK'
    BY <2>1, <2>2 DEF cellVars, TypeOK
  <2> QED
    BY <2>1, <2>3, CallsUntouched DEF cellVars, PictureOfTheMemory, DetailsOfTheRow
<1> QED
  BY <1>1, <1>2, <1>3, <1>4, <1>5, <1>6, <1>7, <1>8, <1>9, <1>10 DEF Next

(* The inductive invariant. *)
THEOREM ConsistentAlways == Spec => []Consistent
BY InitConsistent, ConsistentStep, PTL DEF Spec

(* The types. *)
THEOREM TypeCorrect == Spec => []TypeOK
<1>1. Consistent => TypeOK
  BY DEF Consistent
<1> QED
  BY <1>1, ConsistentAlways, PTL

(* A cell with no call under way shows the memory of its row, for any number *)
(* of cells, rows and calls, unless one of the two mishaps befell it.        *)
THEOREM CellsShowTheirRows == Spec => []CellShowsItsRow
BY FillingSuffices, ConsistentAlways, PTL

(* No cell mixes one memory's text with another's picture. *)
THEOREM PicturesMatch == Spec => []PictureOfTheMemory
<1>1. Consistent => PictureOfTheMemory
  BY DEF Consistent
<1> QED
  BY <1>1, ConsistentAlways, PTL

(* The details are of the row touched, unless its cell was not up to date. *)
THEOREM DetailsMatch == Spec => []DetailsOfTheRow
<1>1. Consistent => DetailsOfTheRow
  BY DEF Consistent
<1> QED
  BY <1>1, ConsistentAlways, PTL
-----------------------------------------------------------------------------
(* What RowFills rests on.  That calls do end is the fairness of the cloud; *)
(* that nothing else is needed, and that what is filled stays, is not.      *)

\* A row that nothing went wrong for is filled or waits for a call of its own.
RowsWaitForTheirOwn ==
    \A c \in Cells :
        row[c] # NoDoc /\ mishap[c] = {} =>
            \/ memory[c] = row[c]
            \/ \E r \in requests : r.cell = c /\ r.ask = last[c] /\ r.doc = row[c]

\* Once the last call has filled it, a row that stays shows its memory, or the
\* mishap is on record.
FilledRowsStay ==
    [][\A c \in Cells :
           row[c] # NoDoc /\ row'[c] = row[c] /\ memory[c] = row[c] /\ ~LastCallPending(c) =>
               memory'[c] = row[c] \/ mishap'[c] # {}]_vars

(* A row on the screen never waits for another row's call, however often    *)
(* its cell was used before: it shows its memory, or the last call made for *)
(* the cell is under way and is for this row.                               *)
THEOREM RowsFillOrWait == Spec => []RowsWaitForTheirOwn
<1>1. Consistent => RowsWaitForTheirOwn
  BY DEF Consistent, Filling, LastIsForRow, LastCallPending, RowsWaitForTheirOwn
<1> QED
  BY <1>1, ConsistentAlways, PTL

\* Only the table view makes a call, and for a spare cell.
LEMMA LastCallStaysOver ==
  ASSUME Consistent, [Next]_vars, NEW c \in Cells, row[c] # NoDoc, row'[c] = row[c],
         ~LastCallPending(c)
  PROVE  ~LastCallPending(c)'
<1>1. ASSUME requests' \subseteq requests, UNCHANGED last
      PROVE  ~LastCallPending(c)'
  BY <1>1 DEF LastCallPending
<1>2. ASSUME NEW b \in Cells, NEW d \in Docs, CellForRow(b, d)
      PROVE  ~LastCallPending(c)'
  <2> DEFINE n == [cell |-> b, doc |-> d, own |-> account = "owner", ask |-> asks + 1,
                     step |-> "document"]
  <2>1. b # c
    BY <1>2 DEF CellForRow, Spare
  <2>2. last'[c] = last[c] /\ requests' = requests \cup {n}
    BY <1>2, <2>1 DEF CellForRow, Consistent, TypeOK
  <2>3. n.cell # c
    BY <2>1
  <2> HIDE DEF n
  <2> QED
    BY <2>2, <2>3 DEF LastCallPending
<1>3. ASSUME NEW r \in requests, DocumentRead(r)
      PROVE  ~LastCallPending(c)'
  <2> DEFINE n == [r EXCEPT !.step = "image"]
  <2>1. requests' = (requests \ {r}) \cup {n} /\ UNCHANGED last
    BY <1>3 DEF DocumentRead
  <2>2. n.cell = r.cell /\ n.ask = r.ask
    BY DEF Consistent, TypeOK, Requests
  <2> HIDE DEF n
  <2> QED
    BY <2>1, <2>2 DEF LastCallPending
<1>4. /\ \A b \in Cells : DidEndDisplaying(b) \/ DeleteRow(b) \/ DeleteRowTraps(b)
                          \/ ShowMemoryDetail(b) \/ ImageLoaded(b) \/ ImageFails(b)
             => requests' \subseteq requests /\ UNCHANGED last
      /\ \A b \in Cells, d \in Docs : CellForRowTraps(b, d)
             => requests' \subseteq requests /\ UNCHANGED last
      /\ Back \/ SwitchAccount \/ UNCHANGED vars => requests' \subseteq requests /\ UNCHANGED last
      /\ \A r \in requests, addressed \in BOOLEAN : DocumentMissing(r) \/ ImageAnswers(r, addressed)
             => requests' \subseteq requests /\ UNCHANGED last
  BY DEF DidEndDisplaying, DeleteRow, DeleteRowTraps, CellForRowTraps, ShowMemoryDetail,
         ImageLoaded, ImageFails, Back, SwitchAccount, vars, DocumentMissing, ImageAnswers
<1> QED
  BY <1>1, <1>2, <1>3, <1>4 DEF Next

(* A row once filled by its last call keeps its memory while it stays on    *)
(* the screen: an older call can only take it away as the mishap recorded.  *)
THEOREM FilledStaysFilled == Spec => FilledRowsStay
<1> DEFINE Stays ==
      \A c \in Cells :
          row[c] # NoDoc /\ row'[c] = row[c] /\ memory[c] = row[c] /\ ~LastCallPending(c) =>
              memory'[c] = row[c] \/ mishap'[c] # {}
<1>1. ASSUME Consistent, Consistent', [Next]_vars
      PROVE  [Stays]_vars
  <2> SUFFICES ASSUME NEW c \in Cells, row[c] # NoDoc, row'[c] = row[c], ~LastCallPending(c)
               PROVE  memory'[c] = row[c] \/ mishap'[c] # {}
    OBVIOUS
  <2>1. ~LastCallPending(c)'
    BY <1>1, LastCallStaysOver
  <2> QED
    BY <1>1, <2>1 DEF Consistent, Filling
<1> QED
  BY <1>1, ConsistentAlways, PTL DEF Spec, FilledRowsStay
=============================================================================
