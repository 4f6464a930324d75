# Feel Better: a TLA+ verification project

*Feel Better* is an iOS diary. A user writes memories (a title, a text, a
picture, a sentiment), the app scores the text with Azure, suggests photos from
the library, stores the memories in Firebase, lists them, and draws their
trends and keywords on a home screen. The code is 26 Swift files under
`src/Feel Better/Feel Better/` (2387 lines); everything under `Pods/` is vendored.
There are no tests and no written specification, so the properties here come from
the code, its comments and what it tells its user.

Paths below are relative to `src/Feel Better/Feel Better/`.

## 1. Inventory

| Part | State | Operations | Talks to |
| --- | --- | --- | --- |
| Memory store, `Firebase.swift` | documents per account, picture objects (by document name only) | `saveNewMemory`, `replaceMemory`, `deleteMemory`, `uploadImage`, `deleteImage`, `getMemory`, `getImage`, `fetchAll`, `keywords`, `sentiments` | Firestore, Cloud Storage, Auth; called by the table, the cells, the home screen |
| Memories table, `MemoriesTableViewViewController.swift` | `documentIDs`, the table view's rows, selection, `cameBackFromUnwind`, alert | load, select, delete, compose, unwind (save, cancel) | store, text analysis, editor, details |
| Cells and details, `MemoryTableViewCell.swift`, `MemoryDetailsViewController.swift`, `Memories Class.swift` | the memory each (reused) cell shows | `cellForRowAt`, `setMemory`, show details | store |
| Editor, `NewMemoryViewController.swift` | fields, Save button, pop up, blur, sentiment, enlarged face, suggestions, picture | edit, Save, five faces, suggestions, picker | text analysis, suggestions, table |
| Suggestions, `Azure/Computer Vision/ImageSuggestionProvider.swift`, `ImageTagMemory.swift`, `ComputerVision.swift` | serial queue, dispatch group, array under a lock, tag cache on disk | `relevantImage`, `addImage`, tag get/set | PhotoKit, Azure |
| Text analysis, `Azure/Text Analyzer/*` | none | `keyPhrases`, `analyzeSentiment`, score | Azure, through `URLSession` |
| Session, `SignInViewController.swift`, parts of `HomeViewController.swift` | signed in account, the form | sign in, sign up, shake to sign out | Auth |
| Home, `HomeViewController.swift`, `ChartView.swift`, `HomePageTableViewCell.swift` | `trends`, `keywordDictionary` | two queries per appearance, reloads, section order, chart | store |
| Word cloud, `Word Cloud/*` | the picture so far | place a word unless it overlaps | home |
| Delegates, extensions, entity types, storyboard | - | start up, formatting, layout | - |

How they interact: the editor hands a `LocalMemory` to the table through an unwind
segue; the table asks Azure for key phrases, and in that callback, on
`URLSession`'s thread, writes the store and its own array, then queues the row
insertion on the main thread. The suggestions go from a `URLSession` callback to
a serial queue, from there to PhotoKit's and `URLSession`'s threads and a
concurrent queue, and back to the editor on the serial queue.

What is hard, and what makes each part correct:

* **Store.** Two services, no transaction, results ignored, a delete-then-put
  upload, a picture path shared by all accounts. Correct: a picture exists if and
  only if a memory has it, but for mishaps one can name; the deleted stays deleted.
* **Table.** Three copies of one list (store, array, rows) changed in different
  orders on two threads, under a consistency check of UIKit that kills the app; an
  account that can change at any moment. Correct: the copies agree when all is
  quiet; a swipe deletes what it is on; a memory is stored once, under its author,
  over no other.
* **Suggestions.** A blocking wait, counted by hand on five paths; an array
  appended to by many threads; four forced unwraps of what comes back. Correct: exact
  answers, and always an answer, for as long as the app lives.
* **Editor.** A value written by two threads, and written and read by a tap with work in
  between; one touch with two connections in no fixed order; one touch handler with three
  conditions, and a change of tab that undoes part of what it does; a mean cut to an
  integer and read against ranges that differ in two places. Correct: every score within
  its range, the memory listed with the face tapped.
* **Panel of suggestions.** Requests answered in any order into one panel, which may be
  refilled under a finger or come up under the image picker. Correct: the panel is
  for the text as it is; the picture saved is the one chosen last.
* **Cells and details.** Two calls per cell, answered in any order into a cell that
  may stand for another row by then, one path that never calls back, and a
  picture that loads later still. Correct: a cell at rest shows its row's memory,
  with its own picture, and the details are of the row touched.
* **Home and session.** Two queries per appearance and one account that changes
  under them; a table reloaded for some answers and not for others; a request to
  sign in that may outlive its page. Correct: the screen has the account's own
  trends and keywords, in the order the trends ask for.
* **Word cloud.** Pixels found by offsets computed by hand, in buffers that may be padded,
  smaller than the word, or released; rows counted from the top in one place and from the
  bottom in another; bitmaps scaled into sizes that are fractions of a pixel. Correct: no
  word over another, none cut, none left out for nothing.

`PROJECT.json` lists every component with its status and every hazard with its line.

## 2. Modules

| Module | Models | State |
| --- | --- | --- |
| `MemoryStore` | `Firebase.swift`'s writes and the answers of Storage | done |
| `MemoryStore_proofs` | theorems about it | done |
| `MemoriesTable` | the table over the store: each action on the store is a `Store!` action of `MemoryStore`, conjoined with what the table does in the same callback; refines `MemoryStore` | done |
| `MemoriesTable_proofs` | theorems about it, the refinement included | done |
| `SuggestionService` | what `relevantImage` promises: each request answered once, with relevant photos | done |
| `ImageSuggestions` | how it keeps the promise; refines `SuggestionService` through `Service` | done |
| `ImageSuggestions_proofs` | theorems about it, the refinement included | done |
| `NewMemoryEditor` | fields, Save button, pop up, sentiment and its score | done |
| `NewMemoryEditor_proofs` | theorems about it | done |
| `SuggestionPanel` | the editor's picture and panel of suggestions over `SuggestionService`: a request is `Service!Ask`, an answer `Service!Answer` conjoined with what the callback does | done |
| `SuggestionPanel_proofs` | theorems about it | done |
| `MC...` | the constants of the runs | done |
| `MemoryCells` | reused cells, `getMemory` and `getImage`, the details | done |
| `MemoryCells_proofs` | theorems about it | done |
| `HomeScreen` | the home screen's queries, table and chart; the sign page and the account | done |
| `HomeScreen_proofs` | theorems about it | done |
| `WordCloud` | the words tried, compared and joined, pixel by pixel | done |
| `WordCloud_proofs` | theorems about it | done |

Each `Next` has one action per handler, callback or block on a queue. Where the
code's own step is not atomic and the difference shows, it is split: an upload
(`UploadImage`, `ClearDone`, `PutDone`), an array insertion on the other thread
(`InsertReads`, `InsertWrites`), an append under the lock (`LockImages`,
`AppendImage`), a tap that sets a value and reads it back (`TouchFace`, `MakeMemory`) and
the reply that sets it too (`AnalysisReplies`, `EnqueueRefresh`).

### MemoryStore

`docs` are the diaries, `images` the objects in Storage, `upload` the stage of
`uploadImage`, `deleting` the deletes of `deleteMemory` in flight. `pictured` and
`mishap` are history variables: nothing in the code reads them. Firestore writes
are atomic (the SDK queues them on disk and shows them to local reads at once);
Storage calls are in flight until they succeed, fail, or the app dies. `Killed`
forgets all of them. Only this device writes to the diaries. Saving uses a fresh
name, as the SDK does; an edit of an existing memory exists in the code but is not
reachable (see `SavesNeverOverwrite`).

* `OrphansExplained`, `LossesExplained`: pictures without memories and memories
  without their pictures, and every reason there can be for either.
* `DeletedStaysDeleted`: over all steps, a document neither returns nor moves.
* `PictureArrives`: the upload chain ends.

### MemoriesTable

`documentIDs` is the array, `rows` what `UITableView` loaded, `saves` the memories
whose key phrases are awaited, `saving` the callback now running on
`URLSession`'s serial delegate queue, `inserts` the blocks on the main queue.
A disagreement of counts in `insertRows` or `deleteRows`, an index out of range,
the race on the array, the forced unwrap of the account and the trap on a reply
without documents set `crashed`; then only `Relaunch` is possible. `Relaunch` may
also happen at any other moment (the app is killed).

The race on `documentIDs` is undefined behaviour: if the main thread changed the
array between the two steps of the insertion, the model allows losing either
change or crashing.

`lapse` is history: it records that the user acted on the list before an earlier
action was over (`overlap`), that another account signed in over a loaded list
(`switch`), or that the account changed before a memory was stored (`leftMidSave`): the
user signed out, or a second request to sign in was answered late, and `sign` has no
guard against an account that is already there. The code makes no provision for any of the three, and with them
almost anything happens; the properties say that *without* them nothing does, and
which of them each failure needs:

* `CrashesExplained`: which lapse each crash takes. The trap on a reply without
  documents needs none; it is left out of the property and in the model.
* `ListMatchesStore`: store, array and rows agree, order included, when all is quiet.
* `DeletesTheRowShown`: the memory deleted is the one the row shows.
* `FiledUnderItsAuthor`: whose diary a memory goes to.
* `SavesNeverOverwrite`: the edit branch of `unwindToMemories`, which would
  replace whatever is at a remembered index, is never taken, because
  `viewWillAppear` deselects before a memory can be saved.
* `StoreSafety`: the list is a refinement of `MemoryStore`: whatever its handlers do to the
  store in one step adds up to one call or answer of the store, so what is proved of the
  store by itself holds under the list.
* `SaveIsNotDropped`: a memory is stored even if the key phrases fail.

Assumptions about UIKit: `dismiss` runs its completion also when nothing is
presented; touches are not delivered under an alert or during a transition;
inserting row 0 moves the selection down.

### ImageSuggestions

`stage`, `blockedQueue` and `current` follow each request, `step` each photo of
the request that has its turn, `group` is the `DispatchGroup`, `images` and
`imagesLock` the array and its lock, `copy` the array as a thread read it,
`tagMemory` the cache. `seen` is history: the photos that did not fail. Photos
come back in any order and while the loop is still asking; each may fail to load
or to be tagged. What the code unwraps by force may end the app (`crashed`): a reply on
the key phrases without documents (`PhrasesTrap`), data that is no picture or a picture
that cannot be encoded (`DataTraps`), and a reply on the tags that is no text
(`TagTraps`). The tags outlive the app in the user defaults, so a run begins with any of
the photos remembered. Azure gives a photo the same tags each time. The append happens
under the lock although Swift's exclusivity rule is broken by passing `&images`
to two calls at once: the build passes the address, so the lock decides.

### NewMemoryEditor

Azure says of each sentence how positive and how negative it is; `Confidences` are
pairs of hundredths of a sum of at most 100. `total` and `count` are the fold over
the sentences of the reply that has its turn on `URLSession`'s serial delegate queue
(`ScoreSentence`), which `AnalysisReplies` ends with the mean and `AnalysisTraps` with
the crash if there was no sentence or no reply; the block that shows the result is queued
after that, in a step of its own (`EnqueueRefresh`). A touch on a face is two steps of the
main thread: up to what `prepare` and the override set (`TouchFace`), and from where
`prepare` reads the sentiment again, two picture encodings later (`MakeMemory`); in
between only the other thread runs (`Idle`). The override comes before the segue or after
it. `SentimentEmoji` is what the list makes
of the score: its ranges are open at the ends, the editor's (`FaceOf`) are not.
`refreshes` counts the blocks on the main
queue that enlarge a face. `tap.raced` and `saved.raced` are history: the sentiment
saved is a reply's that was not shown, because it came between the touch and the reading or
because its block was not queued, or not run, when an enlarged face left it as it was.
`reappeared` is history as well: the page came back from another tab (`Reappear`) with its
blur up. The 0.5 s animations of the pop up are not modelled: they all
last equally long, so the last request decides. The picker may or may not cover
the screen, so `viewDidAppear` may or may not follow it (`PickImage`). The scores are exact here; the
code computes them in binary floating point, which can cut a sentence's score one lower.

* `ScoreInRange`: "A value between 0 and 100" (`SentimentAnalyzer.swift:56`).
* `SavedAsTapped`: the list shows the memory with the face tapped, unless a reply came
  unseen.
* `BlurOnlyUnderPopup`: no touch leaves a blur without the pop up. `viewDidAppear` does,
  on the way back from another tab; the next touch takes it away.

### SuggestionPanel

`status` and `answer` are `SuggestionService`'s: what `ImageSuggestions` is shown to
implement is all the panel relies on. `mainQueue` are the blocks of
`processImageSuggestions`, each with the photos `prefix(6)` left of its answer, in any
order; `FillPanel` runs one, also while a finger is on the panel (`finger`), while the
image picker is up (`picking`) or after the controller is gone. Going to the picker ends the
editing of the text and so asks for suggestions (`UIImageTapped`). The provider may end the
app (`AppDies`), after which nothing happens. The panel of the storyboard
has no control to dismiss it but its six slots. `latest`, `overtaken`, `aimed`, `refilled`,
`choice` and `slip` are history: the last request and whether an older one was answered
after it; the photo the finger came down on; what the user took last, and why the picture
may be another. A request is made once for each text, so two edits that end in the same text
are two texts here.

* `PanelIsForText`: when all is answered the panel shows photos of the text as it is, and
  all of them if they fit, unless an older request was answered after the last.
* `PanelOffersPhotos`: a panel that shows has something in its first slot, and all
  of it answers one text.
* `SavedPictureIsChoice`: the picture is the one chosen last. The comment over
  `processImageSuggestions` promises "select one or cancel"; what there is of
  cancelling is a tap on an empty slot, which removes the picture chosen before.
* `TextGetsItsPhotos`: the photos of each text arrive, unless it is edited again or the app
  ends.

### MemoryCells

`row` is the document each cell stands for, `requests` the calls of `getMemory`
under way, each in its first step (the document) or its second (the address of
the picture), `memory` what the cell was filled with, `loading` and `image` the
picture on its way and the one shown, `account` who is signed in: the list's owner, another
user, or nobody, for whom `diariesRef` ends the app when a row comes up or is deleted
(`CellForRowTraps`, `DeleteRowTraps`, `crashed`). A memory does not change once stored (see
`SavesNeverOverwrite`), so it is its document; the order of the list plays no
part. Kingfisher is taken at its word: `setImage` drops the old picture at once,
and only the last address set counts. `last` and `mishap` are history: the last
call made for each cell, and whether since then its memory could not be read
(`missing`) or an older call was answered after it (`overtaken`).

* `CellShowsItsRow`: a cell at rest shows its row, however it was used before. The
  two mishaps are what the code does wrong here, and the only ways it can.
* `PictureOfTheMemory`: text and picture are of one memory, at all times.
* `DetailsOfTheRow`: the same for the memory handed to the details, which is the
  cell's and not the row's; a touch while the cell waits is the third way.
* `RowFills`: a row that stays is filled, unless the app ends.

### HomeScreen

`queries` are the queries under way, each with the account and the week it was
made for; it is answered with the diary as it is when the answer is made. A diary is in the
order of `saveDate`, which is the order the queries ask for; a memory's date is when Save
was tapped and it is written at any time after, so it may come before memories written
earlier (`MemoryStored`, `Places`). A memory that waits does not outlive the app
(`launched`).
`trends` and `keywordDictionary` are the two properties whose `didSet` reloads the
table: `needsLayout` is set by a reload and cleared by the next layout, which is
what fills the cells (`shown`). `signing` are the requests to sign in or up, each
with or without the page it holds weakly. `viewWillAppear` runs as part of what
makes the screen appear: a launch, the way back from another tab, or the
dismissal of the full screen sign page, which the first answer brings about
whether it is an account or an error. `ownerOf`, `newest`, `lastAnswer` and
`mishap` are history. A chart without points crashes the app (`DrawChart`), as a
week without memories does in the code.

* `SupportFollowsTrends`: Get Support is on top exactly when the trends are
  negative, although most answers do not reload the table.
* `ChartOnlyBehindLastTrends`: how far the chart may lag behind the trends.
* `HomeIsOwn`: whose data the screen has when all is answered.
* `ScreenMatchesAccount`: the page and the account agree, but for an answer that
  outlives its page and a page UIKit refuses to present.

### WordCloud

`currentImage` is the set of inked pixels, `tries` (history) what became of each word. What a font makes of a
word is a constant: its size, which pixels are inked, and how long the rows of its buffer
are. `Add` computes the offsets of `intersected` as the code does, with the width and not
the row's length, and looks up what is at that offset. `pixels(from:)` returns a pointer
into data nothing retains, so a comparison may also read memory that is used for something
else by then, or none: with `reused` it may answer anything or end the app, as it may past
the end of the buffer. The picture is drawn upside down by Core Graphics (`ReversedY`).

A text's size is a fraction of pixels (`Unit` to a pixel). `draw` makes a bitmap of the size
rounded up, `intersected` compares that bitmap pixel by pixel with the canvas, and `join`
scales it into the size itself, so that its pixels become a little smaller than those of the
canvas. `Touches` says which pixels of the canvas a pixel of the bitmap then touches:
its own and the one to the left of it or above, never further, since less than a pixel is
lost over the whole length (lemma `Squeezed`). Which of the touched pixels end up with any
ink depends on how little of it they get, so `Joined` leaves this open for a bitmap that is
scaled, down to none of them; one that is not scaled is painted as it is. The canvas itself is
in whole pixels, as the image view is in the storyboard (334 by 128); a view stretched to a
fraction is not modelled. A keyword without a single glyph is left out: it has no image,
which traps at once.

* `WordsApart`: a word meets nothing kept before it but in its rim, the pixels that only
  scaling has it reach, a word too large included. Words in whole pixels have no rim. So
  two words may touch in the cloud, and this is how far they may.
* `WordsWhole`: only a word that is too large is cut, or read past the end.
* `DropsExplained`: a word left out had a pixel of its bitmap on ink, or one of three things
  went wrong.

## 3. Runs

| Run | Checks | Bounds | Result |
| --- | --- | --- | --- |
| `store` | types, orphans, losses, deleted stays deleted, `PictureArrives` | 2 accounts, 2 documents, 2 deletes in flight each | holds |
| `table` | types, crashes, list, filing, overwriting, deleting, the store refined | 2 accounts, 2 saves | holds |
| `table_live` | `SaveIsNotDropped` | 1 account, 2 saves | holds |
| `table_alert` | "Memory Saved" is true when shown | 1 account, 2 saves | violated |
| `suggestions` | types, group, answers, the service refined, its liveness included | 2 requests, 3 photos | holds |
| `editor` | types, score, sentiment, blur | 3 requests, replies of 1 or 2 sentences of 5 confidences at the edges | holds |
| `editor_save` | "Disable the Save button while editing." | same | violated |
| `editor_tap` | "to dismiss SavePopUpView on tap outside" | same | violated |
| `panel` | types, panel, picture, `TextGetsItsPhotos` | 3 texts, 3 photos, 2 slots, 1 picture in the library | holds |
| `home` | types, support section, chart, whose data, which screen | 2 accounts, 2 visits, 1 memory each, of this week or the last, 1 tick of a week, 2 requests to sign in | holds |
| `cells` | types, cell, picture, details, `RowFills` | 2 cells, 2 documents, one with a picture, 3 calls; the owner, another user or nobody signed in | holds |
| `word_cloud` | types, apart, whole, left out | 3 by 2 pixels in halves, 3 words in 2 or 3 sizes each, whole or scaled | holds |

Why these bounds are enough to be interesting: a second account is what it takes
to delete someone else's picture or to file a memory wrongly; a second save is
what it takes to overlap a first; two photos race for one array and a third is irrelevant to
one of the requests; a second request meets a filled tag cache and a used
queue; two cells for two documents are used again for either, and three
calls let one be asked for twice while the other waits; a memory turns
the mood of the first trends, a diary of none is the chart without points,
and the week that passes empties a diary that had some; a second account with a
second visit has the answers of one account come under the other, and a second request to
sign in outlives its page. Of the three texts one has more photos than there are slots,
one a single photo and one none, so a panel is filled, shortened and emptied in every
order; of the words one has padded rows, one is wider than the canvas by half a pixel or by
two, one can fill a row, and each can be scaled: half a pixel is lost in one direction or in both.
The canvas is small because every pixel a scaled word touches may be painted or not. The runs of `MemoriesTable` leave pictures out (`Pictures = {FALSE}`):
uploads are `MemoryStore`'s subject and do not touch the list. Deletes in flight
are bounded by `MaxDeletes`, saves by `MaxSaves`, requests of the editor and
calls of the cells by `MaxAsks`, sentences of a reply by `MaxSentences`, memories of a diary, appearances of the home
screen and requests to sign in by `MaxDiary`, `MaxVisits` and `MaxSigns`, the clock
by `MaxTime`; nothing else is bounded. Symmetry is used in safety runs only, over
accounts and documents, which no definition tells apart.

Deadlock is checked everywhere but in `NewMemoryEditor` and `SuggestionPanel`, whose
controller ends, in `MemoryCells`, where the app may, and in `WordCloud`, where all words
have been tried. In `ImageSuggestions` the action `Quiet` stands for the rest after the last
answer or after the app's end, so a blocked queue is a deadlock.

The three violations are findings: the alert comes before the memory is stored
(and may never be); a touch beside the fields enables Save during editing; a touch
on the pop up removes the blur and with it the way to dismiss the pop up.

**Fairness.** `URLSession`, PhotoKit and the Storage SDK end every request with a
result or an error (they have time outs), and queues run the blocks put on them:
weak fairness on answers and blocks for as long as the app lives (`ServicePromise`,
`TextGetsItsPhotos` and `RowFills` are promises up to that), never on gestures, restarts, or on a
request succeeding rather than failing - except in `table_live`, where a failed
request is the same as an answer without tags.

Every property of a passing run has a mutant in the model it was checked against
(`..._KeepsPicture`, `..._AtTheEnd`, and so on, next to the action they change): a
plausible bug of that line with which TLC finds the property violated.

## 4. Proofs

TLAPS proves, for all values of the constants:

* `MemoryStore_proofs`: types, `OrphansExplained`, `LossesExplained`,
  `DeletedStaysDeleted`, from `NoUser \notin Users` and `MaxDeletes \in Nat`. The
  two explanations are not inductive. An orphan needs to know that an upload
  going on for a document that is gone was overtaken; a loss, that a delete in
  flight for a stored document is foreign, and this that a document is in one
  diary at most and a name is used once. `Consistent` is their conjunction, with
  one lemma per kind of step.
* `MemoriesTable_proofs`: types, `StoreSafety`, `FiledUnderItsAuthor`, `SavesNeverOverwrite`,
  `CrashesExplained`, `DeletesTheRowShown`, `ListMatchesStore`, for any accounts, documents,
  pictures and bounds. The argument comes in layers, each using those before. A row is selected only while
  its details are open (`Selection`), so every save takes a new name and every step is one of the
  store. Names in the diaries are used and who waits to be stored is signed in or has
  seen the account change (`Filing`), by signing out or by another signing in. While no gesture overlaps another there is one save at a time, later than
  all memories written, the phrases thread's copy of the array is the array, and rows and array
  differ by at most the row about to be inserted (`Single`): so no count disagrees.
  While there is no lapse at all, the array, with the name the phrases thread is about to
  insert, is the diary in order (`ListKept`), for which two lemmas say what inserting in front
  and removing do to a sequence ordered by date.
  A save is stored exactly once, waits for its key phrases, or is lost with the app (`EachSaveOnce`):
  the dates of those waiting, stored and lost are apart and make up all dates so far. And since the list
  implements the store, `MemoryStore`'s own theorems are used for it as they stand:
  `PicturesExplained` and `DeletedStaysDeleted` hold under the list.
* `ImageSuggestions_proofs`: types, `GroupCountsOutstanding`, `AnswerExact`, and
  that `ImageSuggestions` implements `SuggestionService!Spec`, for any requests and
  any finite library. `AnswerExact` rests on what the array holds at every moment
  (`ImagesAre`), on the lock's holder having read the array as it is (`LockHeld`),
  on the photos seen being those not failed (`SeenAre`), on the count being zero
  only when no photo is under way, and on a request being queued once. The
  refinement takes from it that an answer holds relevant photos only and that a
  request without an answer still has none.
  The safety half of `ServicePromise`'s liveness: as long as the app lives and a request waits, somebody's step is
  possible (`NobodyIsStuck`: neither the wait, the group nor the lock deadlocks), and every step of a
  turn lessens the work ahead of it, at most seven steps for each photo (`TurnComesToItsEnd`, by
  cardinality lemmas on the sets of photos at each stage).
* `NewMemoryEditor_proofs`: types, `ScoreInRange`, `SavedAsTapped`, `BlurOnlyUnderPopup`,
  for any confidences that sum to at most one and any number of sentences and
  requests. The sum so far is between nothing and 100 for each sentence (`SumBounded`),
  so its mean is in range. With no block waiting or about to be queued, the enlarged face is the
  sentiment's (`EnlargedIsCurrent`), and during a tap that nothing raced the sentiment is one that
  falls on the face touched (`TouchedIsCurrent`).
  A face is enlarged only once a reply has set the sentiment (`ScoredBeforeShown`), so no memory is
  saved with the -5 that stands for no score (`SavedScoreInRange`).
* `SuggestionPanel_proofs`: types, `PanelIsForText`, `PanelOffersPhotos`,
  `SavedPictureIsChoice`, for any requests, photos, pictures and number of slots. The
  panel's two rest on every waiting block holding photos of one answer, on the panel holding
  the last block's (`QueueIsAnswers`, `PanelIsAnswer`), and on the last block
  being the last request's when it is answered and not overtaken (`LatestIsLast`); the
  picture's on what the finger came down on being still in its slot unless it was refilled.
  Also that the panel uses the provider by the steps of `SuggestionService` only, from which the
  photos of a panel are all relevant to one text and a picture saved is the user's own or was
  suggested for a text of theirs (`PanelIsRelevant`, `SavedPictureFits`).
* `WordCloud_proofs`: types, `WordsApart`, `WordsWhole`, `DropsExplained`, for any canvas,
  any fraction of a pixel and any drawings. The argument is that an offset determines its pixel: in a
  buffer without padding the alpha read for a pixel of the word is that pixel's, and the canvas's
  pixel at an offset is the one the comparison means when it lies on the canvas. To this comes the
  geometry of `join`: a bitmap squeezed by less than a pixel, whatever its length, reaches no
  further than the next pixel to the left (`Squeezed`), and upside down twice is upright (`CoveredPlace`).
* `HomeScreen_proofs`: types and the four properties above, for any accounts, diaries, scores
  and bounds. The two about the table are inductive as they stand; `HomeIsOwn` takes, for each kind of query, that an
  answer is the last visit's, or is under way, or a mishap is recorded, and that
  the last visit's queries are the account's. The chart's crash on an empty maximum needs an answer
  without points, and that a diary without a memory of the week (`EmptyChart`,
  `OnlyEmptyWeeksAreEmpty`); the diary being in the order asked for is the query's doing, not a
  property of the app.
* `MemoryCells_proofs`: types, `CellShowsItsRow`, `PictureOfTheMemory`,
  `DetailsOfTheRow`, for any cells, documents and bound. `CellShowsItsRow` speaks of
  cells at rest; inductive is that the last call made for a cell is for its row
  (`LastIsForRow`) and that, unless something went wrong, this call is under way
  or the cell is filled (`Filling`). Of `RowFills` it is proved that a row waits for a call of
  its own or is filled (`RowsWaitForTheirOwn`), and stays so (`FilledRowsStay`).

The invariants and action properties that only these modules state (`NobodyIsStuck`,
`EachSaveOnce`, `OnlyEmptyWeeksAreEmpty` and the others that section 3 does not list) are no run's
properties. They hold for all values of the constants; each was checked by TLC on its
component's run before it was proved.

Only model-checked: that what fairness asks for does happen (`ServicePromise`, `PictureArrives`,
`SaveIsNotDropped`, `TextGetsItsPhotos`, `RowFills`), since liveness under fairness is beyond TLAPS
here. Proved is their safety half, for the provider, the saves and the rows: what is
pending is never dropped, and for the provider somebody can go on and the steps are bounded. `ENABLED` is
likewise out of reach: `NobodyIsStuck` states the actions' guards by hand.

## 5. Plan

1. `HomeScreen` with `MemoriesTable`: one account under both, the memories saved in
   one and counted in the other.
2. Tags that go stale: a photo edited after `ImageTagMemory` has remembered it.

Not planned: request building and decoding, layout and drawing, the delegates, the
entity types and the key path `replaceMemory`, which nothing calls, and everything
vendored.
