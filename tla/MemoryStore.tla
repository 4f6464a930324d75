---------------------------- MODULE MemoryStore ----------------------------
(***************************************************************************)
(* Where memories live (Firebase.swift).  A memory is a document in the    *)
(* diary of the account that saved it, plus an optional picture, an object *)
(* of Cloud Storage named after the document.  Three things make the pair  *)
(* drift apart, and all three are in the code:                             *)
(*                                                                         *)
(*   - the two are written by independent calls: nothing waits for a       *)
(*     Storage call, and its result is looked at by nobody;                *)
(*   - a picture is uploaded in two calls, a delete and, in its completion *)
(*     handler, a put, so another call can come between them;              *)
(*   - a diary belongs to one account but the path of a picture,           *)
(*     "<documentID>.png", does not name the account.                      *)
(*                                                                         *)
(* Firestore's own writes are one step here: the SDK queues them on disk   *)
(* and shows them to this device's reads at once.  Storage calls are not   *)
(* queued on disk: they are in flight, end in either order, succeed or     *)
(* fail, and are forgotten when the app is killed.                         *)
(***************************************************************************)
EXTENDS Integers

CONSTANTS
    Users,       \* accounts
    NoUser,      \* Auth.auth().currentUser == nil
    DocIDs,      \* document names the SDK can make up
    MaxDeletes   \* bound: calls of deleteMemory in flight for one document

ASSUME NoUserAssumption == NoUser \notin Users
ASSUME MaxDeletesAssumption == MaxDeletes \in Nat

VARIABLES
    currentUser, \* Auth.auth().currentUser
    docs,        \* the documents of each account's "diaries" collection
    used,        \* every document name handed out so far
    images,      \* documents whose picture is in Cloud Storage
    upload,      \* how far uploadImage has come for each document
    deleting,    \* deletes sent by deleteMemory and not yet answered
    (* history: what happened, unseen by the code *)
    pictured,    \* memories that were saved with a picture
    mishap       \* what went wrong for each document

vars == <<currentUser, docs, used, images, upload, deleting, pictured, mishap>>

Mishaps ==
    {"overtaken",   \* deleted while its picture was still being uploaded
     "uploadLost",  \* the put failed, or the app died before it
     "deleteLost",  \* the delete failed, or the app died before it
     "foreign"}     \* deleted by an account that does not own it

Stored == UNION {docs[u] : u \in Users}

TypeOK ==
    /\ currentUser \in Users \cup {NoUser}
    /\ docs \in [Users -> SUBSET DocIDs]
    /\ used \in SUBSET DocIDs
    /\ images \in SUBSET DocIDs
    /\ upload \in [DocIDs -> {"none", "clearing", "putting"}]
    /\ deleting \in [DocIDs -> Nat]
    /\ pictured \in SUBSET DocIDs
    /\ mishap \in [DocIDs -> SUBSET Mishaps]

Init ==
    /\ currentUser = NoUser
    /\ docs = [u \in Users |-> {}]
    /\ used = {}
    /\ images = {}
    /\ upload = [d \in DocIDs |-> "none"]
    /\ deleting = [d \in DocIDs |-> 0]
    /\ pictured = {}
    /\ mishap = [d \in DocIDs |-> {}]

Blame(d, what) == mishap' = [mishap EXCEPT ![d] = @ \cup what]

-----------------------------------------------------------------------------
(* The account.  Auth keeps it over a relaunch. *)

\* The answer to a request to sign in, whoever is signed in by the time it
\* comes: of two requests, the later answer changes the account directly.
SignIn(u) ==
    /\ currentUser' = u
    /\ UNCHANGED <<docs, used, images, upload, deleting, pictured, mishap>>

SignOut ==
    /\ currentUser # NoUser
    /\ currentUser' = NoUser
    /\ UNCHANGED <<docs, used, images, upload, deleting, pictured, mishap>>

-----------------------------------------------------------------------------
(* The calls of the views. *)

\* uploadImage: the old picture is deleted first; the rest is ClearDone.
UploadImage(d) == upload' = [upload EXCEPT ![d] = "clearing"]

\* replaceMemory: the picture, if there is one, then setData.  The document
\* goes to the diary of whoever is signed in now.
ReplaceMemory(d, picture) ==
    /\ IF picture
       THEN UploadImage(d) /\ pictured' = pictured \cup {d}
       ELSE UNCHANGED <<upload, pictured>>
    /\ docs' = [docs EXCEPT ![currentUser] = @ \cup {d}]
    /\ used' = used \cup {d}
    /\ UNCHANGED <<currentUser, images, deleting, mishap>>

\* saveNewMemory: d is a name that was never used.
SaveNewMemory(d, picture) ==
    /\ currentUser # NoUser
    /\ d \notin used
    /\ ReplaceMemory(d, picture)

\* Mutant: deleteMemory forgets the picture.
DeleteMemory_KeepsPicture(d) ==
    /\ currentUser # NoUser
    /\ d \in used
    /\ docs' = [docs EXCEPT ![currentUser] = @ \ {d}]
    /\ UNCHANGED <<currentUser, used, images, upload, deleting, pictured, mishap>>

\* deleteMemory: the document of the account that is signed in now, and the
\* picture of that name, whoever it belongs to.
DeleteMemory(d) ==
    /\ currentUser # NoUser
    /\ d \in used
    /\ deleting[d] < MaxDeletes
    /\ docs' = [docs EXCEPT ![currentUser] = @ \ {d}]
    /\ deleting' = [deleting EXCEPT ![d] = @ + 1]
    /\ Blame(d, (IF upload[d] # "none" THEN {"overtaken"} ELSE {})
                \cup (IF d \in Stored \ docs[currentUser] THEN {"foreign"} ELSE {}))
    /\ UNCHANGED <<currentUser, used, images, upload, pictured>>

-----------------------------------------------------------------------------
(* The answers of Cloud Storage. *)

\* Mutant: the handler goes on only when the delete succeeded, which it does
\* not when there was no picture to delete.
ClearDone_StopsOnError(d) ==
    /\ upload[d] = "clearing"
    /\ images' = images \ {d}
    /\ upload' = [upload EXCEPT ![d] = IF d \in images THEN "putting" ELSE "none"]
    /\ UNCHANGED <<currentUser, docs, used, deleting, pictured, mishap>>

\* Mutant: the answer is taken for that of a delete sent by deleteMemory.
ClearDone_CountsAsDelete(d) ==
    /\ upload[d] = "clearing"
    /\ upload' = [upload EXCEPT ![d] = "putting"]
    /\ images' \in {images, images \ {d}}
    /\ deleting' = [deleting EXCEPT ![d] = @ - 1]
    /\ UNCHANGED <<currentUser, docs, used, pictured, mishap>>

\* The delete of uploadImage ends: there was no picture, it is gone, or it
\* could not be deleted.  The handler ignores which, and puts the new one.
ClearDone(d) ==
    /\ upload[d] = "clearing"
    /\ upload' = [upload EXCEPT ![d] = "putting"]
    /\ images' \in {images, images \ {d}}
    /\ UNCHANGED <<currentUser, docs, used, deleting, pictured, mishap>>

\* Mutant: when the picture is up, its address is written to the document
\* with setData, which makes the document anew if it is gone.
PutDone_WritesDocument(d) ==
    /\ upload[d] = "putting"
    /\ currentUser # NoUser
    /\ upload' = [upload EXCEPT ![d] = "none"]
    /\ images' = images \cup {d}
    /\ docs' = [docs EXCEPT ![currentUser] = @ \cup {d}]
    /\ UNCHANGED <<currentUser, used, deleting, pictured, mishap>>

PutDone(d) ==
    /\ upload[d] = "putting"
    /\ upload' = [upload EXCEPT ![d] = "none"]
    /\ images' = images \cup {d}
    /\ UNCHANGED <<currentUser, docs, used, deleting, pictured, mishap>>

PutFailed(d) ==
    /\ upload[d] = "putting"
    /\ upload' = [upload EXCEPT ![d] = "none"]
    /\ Blame(d, {"uploadLost"})
    /\ UNCHANGED <<currentUser, docs, used, images, deleting, pictured>>

DeleteDone(d) ==
    /\ deleting[d] > 0
    /\ deleting' = [deleting EXCEPT ![d] = @ - 1]
    /\ images' = images \ {d}
    /\ UNCHANGED <<currentUser, docs, used, upload, pictured, mishap>>

DeleteFailed(d) ==
    /\ deleting[d] > 0
    /\ deleting' = [deleting EXCEPT ![d] = @ - 1]
    /\ Blame(d, {"deleteLost"})
    /\ UNCHANGED <<currentUser, docs, used, images, upload, pictured>>

\* The app is killed and started again: every call in flight is forgotten.
Killed ==
    /\ upload' = [d \in DocIDs |-> "none"]
    /\ deleting' = [d \in DocIDs |-> 0]
    /\ mishap' = [d \in DocIDs |-> mishap[d]
                    \cup (IF upload[d] # "none" THEN {"uploadLost"} ELSE {})
                    \cup (IF deleting[d] > 0 THEN {"deleteLost"} ELSE {})]
    /\ UNCHANGED <<currentUser, docs, used, images, pictured>>

-----------------------------------------------------------------------------
StorageAnswers(d) ==
    ClearDone(d) \/ PutDone(d) \/ PutFailed(d) \/ DeleteDone(d) \/ DeleteFailed(d)

Next ==
    \/ \E u \in Users : SignIn(u)
    \/ SignOut
    \/ \E d \in DocIDs, picture \in BOOLEAN : SaveNewMemory(d, picture)
    \/ \E d \in DocIDs : DeleteMemory(d)
    \/ \E d \in DocIDs : StorageAnswers(d)
    \/ Killed

\* The Storage SDK ends every call it made, with an error if need be.
Fairness ==
    \A d \in DocIDs :
        /\ WF_vars(ClearDone(d))
        /\ WF_vars(PutDone(d) \/ PutFailed(d))

Spec == Init /\ [][Next]_vars
FairSpec == Spec /\ Fairness

-----------------------------------------------------------------------------
(* Orphan pictures.  deleteMemory sends the delete of the picture and      *)
(* uploadImage sends its put without looking at one another.  A picture    *)
(* whose memory is gone is about to be deleted, unless its own upload was  *)
(* overtaken by the deletion or the delete never got through.              *)
OrphanExplained(d) ==
    (d \in images /\ d \notin Stored) =>
        (deleting[d] > 0 \/ mishap[d] \cap {"overtaken", "deleteLost"} # {})

OrphansExplained == \A d \in DocIDs : OrphanExplained(d)

(* Lost pictures.  A memory saved with a picture, with no upload under     *)
(* way, has its picture, unless the put was lost or another account        *)
(* deleted the picture through a stale list: the delete that uploadImage   *)
(* sends first never costs a picture by itself.                            *)
LossExplained(d) ==
    (d \in pictured /\ d \in Stored /\ d \notin images /\ upload[d] = "none") =>
        mishap[d] \cap {"uploadLost", "foreign"} # {}

LossesExplained == \A d \in DocIDs : LossExplained(d)

(* A deleted memory stays deleted: no call the code makes, no answer and   *)
(* no restart brings a document back, or moves it to another account.      *)
DeletedStaysDeleted ==
    [][\A d \in used : d \in Stored' => \E u \in Users : d \in docs[u] /\ d \in docs'[u]]_vars

(* The two calls of uploadImage are chained by a completion handler that   *)
(* must run: the picture of a saved memory gets to Storage unless something *)
(* happened to it.                                                         *)
PictureArrives ==
    \A d \in DocIDs : (upload[d] = "clearing") ~> (d \in images \/ mishap[d] # {})
=============================================================================
