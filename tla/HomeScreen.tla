----------------------------- MODULE HomeScreen -----------------------------
(***************************************************************************)
(* The home screen and the page for signing in (HomeViewController.swift,  *)
(* SignInViewController.swift, the queries of Firebase.swift).  Each time  *)
(* the home screen appears it asks for the trends and the keywords of the  *)
(* last week; the two are answered on their own, in any order, also after  *)
(* the next visit has asked again or another account has signed in.  The   *)
(* table that shows them is reloaded by every answer with keywords, but by *)
(* an answer with trends only when its mood turns.  The page is dismissed  *)
(* by the first answer to a request of its own, whatever it says; a second *)
(* tap on its button has a request outlive it.                             *)
(*                                                                         *)
(* The form's two modes, sign in and sign up, differ in the request they   *)
(* send only, and either may succeed or fail here.                         *)
(***************************************************************************)
EXTENDS Integers, Sequences, FiniteSets

CONSTANTS
    Users,        \* accounts
    NoUser,       \* Auth.auth().currentUser == nil
    Scores,       \* sentiments of memories
    Tags,         \* key phrases
    FirstDiaries, \* diaries an account may have when the app is first launched
    Week,         \* ticks of the clock in seven days
    MaxTime, MaxDiary, MaxVisits, MaxSigns \* bounds

ASSUME NoUserAssumption == NoUser \notin Users
ASSUME ScoresAssumption == Scores \subseteq 0..100
ASSUME FirstDiariesAssumption ==
    FirstDiaries \subseteq Seq([date: {0}, sentiment: Scores, tags: SUBSET Tags])
ASSUME BoundsAssumption ==
    /\ Week \in Nat /\ MaxTime \in Nat /\ MaxDiary \in Nat
    /\ MaxVisits \in Nat /\ MaxSigns \in Nat

VARIABLES
    currentUser,       \* Auth.auth().currentUser
    diary,             \* the documents of each account, by saveDate
    clock,
    launched,          \* the clock at the last launch
    screen,            \* what covers the display
    signing,           \* requests to sign in or up, not answered yet
    visit,             \* times the home screen appeared to a user
    queries,           \* queries not answered yet
    trends,
    keywordDictionary,
    needsLayout,       \* reloadData, and no layout since
    shown,             \* what the cells were filled with
    crashed,
    (* history: unseen by the code *)
    ownerOf,           \* whose trends and keywords these are
    newest,            \* the newest visit whose query was answered
    lastAnswer,        \* which of the two was answered last
    mishap             \* what went wrong since the home screen last appeared

authVars == <<currentUser, signing>>
dataVars == <<trends, keywordDictionary, ownerOf, newest, lastAnswer>>
vars == <<authVars, diary, clock, launched, screen, visit, queries, dataVars, needsLayout, shown,
          crashed, mishap>>

Kinds == {"trends", "keywords"}

Mishaps ==
    {"failed",    \* a query of the last visit failed
     "reordered", \* an older visit's answer came after a newer one's
     "late",      \* an answer without its page changed the account
     "refused"}   \* UIKit refused the sign page

\* [Int].isNegative
IsNegative(points) ==
    LET n == Len(points) IN
    \/ n > 0 /\ points[n] < 30
    \/ n > 3 /\ points[n] <= points[n - 1] /\ points[n - 1] <= points[n - 2]

\* The values trends and keywordDictionary start from.
FirstTrends == <<0>>
Sample == [t \in {"sample"} |-> 1]
FirstShown == [negative |-> TRUE, graphPoints |-> FirstTrends, words |-> Sample]

Memories == [date: 0..MaxTime, sentiment: Scores, tags: SUBSET Tags]
Queries == [kind: Kinds, visit: 1..MaxVisits, user: Users, start: Int, end: 0..MaxTime]
IsDictionary(d) == d = Sample \/ (DOMAIN d \subseteq Tags /\ d \in [DOMAIN d -> Nat])

TypeOK ==
    /\ currentUser \in Users \cup {NoUser}
    /\ diary \in [Users -> Seq(Memories)]
    /\ clock \in 0..MaxTime /\ launched \in 0..clock
    /\ screen \in {"launch", "home", "away", "sign"}
    /\ visit \in 0..MaxVisits
    /\ signing \subseteq [user: Users, tap: 1..MaxSigns, paged: BOOLEAN]
    /\ queries \subseteq Queries
    /\ \A q \in queries : q.visit <= visit
    /\ trends \in Seq(0..100)
    /\ IsDictionary(keywordDictionary)
    /\ needsLayout \in BOOLEAN
    /\ shown.negative \in BOOLEAN /\ shown.graphPoints \in Seq(0..100)
    /\ IsDictionary(shown.words)
    /\ crashed \in BOOLEAN
    /\ ownerOf \in [Kinds -> Users \cup {NoUser}]
    /\ newest \in [Kinds -> 0..visit]
    /\ lastAnswer \in Kinds \cup {"none"}
    /\ mishap \subseteq Mishaps

Init ==
    /\ currentUser \in Users \cup {NoUser}
    /\ diary \in [Users -> FirstDiaries]
    /\ clock = 0 /\ launched = 0 /\ visit = 0
    /\ screen = "launch" /\ signing = {} /\ queries = {}
    /\ trends = FirstTrends /\ keywordDictionary = Sample
    /\ needsLayout = TRUE /\ shown = FirstShown
    /\ crashed = FALSE
    /\ ownerOf = [k \in Kinds |-> NoUser] /\ newest = [k \in Kinds |-> 0]
    /\ lastAnswer = "none" /\ mishap = {}

Running == ~crashed

Blame(what) == mishap' = mishap \cup {what}

-----------------------------------------------------------------------------
(* The queries. *)

\* filtered(between:and:) of the diary as it is when the query is answered.
\* In the order of saveDate the documents between two dates follow one another.
Filtered(q) ==
    LET d == diary[q.user]
        early == {i \in DOMAIN d : d[i].date < q.start}
        late == {i \in DOMAIN d : d[i].date > q.end}
    IN  SubSeq(d, Cardinality(early) + 1, Len(d) - Cardinality(late))

\* sentiments(between:and:)
Sentiments(q) == LET found == Filtered(q) IN [i \in DOMAIN found |-> found[i].sentiment]

\* keywords(between:and:)
Keywords(q) ==
    LET found == Filtered(q)
        tagged(t) == {i \in DOMAIN found : t \in found[i].tags}
    IN  [t \in {t \in Tags : tagged(t) # {}} |-> Cardinality(tagged(t))]

\* Mutant: the queries are sent whoever is signed in.
ViewWillAppear_AsksAnyway(user) ==
    /\ visit < MaxVisits
    /\ visit' = visit + 1
    /\ queries' = queries \cup
           [kind: Kinds, visit: {visit + 1}, user: {user}, start: {clock - Week}, end: {clock}]
    /\ screen' = "home"
    /\ mishap' = {}

\* viewWillAppear, by who is signed in.  The sign page may come up or not:
\* UIKit refuses to present while it is dismissing, or before the window is up.
ViewWillAppear(user) ==
    IF user # NoUser
    THEN /\ visit < MaxVisits
         /\ visit' = visit + 1
         /\ queries' = queries \cup
                [kind: Kinds, visit: {visit + 1}, user: {user}, start: {clock - Week}, end: {clock}]
         /\ screen' = "home"
         /\ mishap' = {}
    ELSE /\ \/ screen' = "sign" /\ mishap' = {}
            \/ screen' = "home" /\ mishap' = {"refused"}
         /\ UNCHANGED <<visit, queries>>

\* The first appearance, and the ones after another tab or screen.
Appear ==
    /\ Running /\ screen \in {"launch", "away"}
    /\ ViewWillAppear(currentUser)
    /\ UNCHANGED <<authVars, diary, clock, launched, dataVars, needsLayout, shown, crashed>>

Leave ==
    /\ Running /\ screen = "home"
    /\ screen' = "away"
    /\ UNCHANGED <<authVars, diary, clock, launched, visit, queries, dataVars, needsLayout,
                   shown, crashed, mishap>>

\* Mutant: the table is reloaded when there is something new to order by.
TrendsAnswer_OnLast(q) ==
    /\ Running /\ q \in queries /\ q.kind = "trends"
    /\ queries' = queries \ {q}
    /\ trends' = Sentiments(q)
    /\ needsLayout' = (needsLayout \/ Len(trends) # Len(trends'))
    /\ ownerOf' = [ownerOf EXCEPT !.trends = q.user]
    /\ newest' = [newest EXCEPT !.trends = q.visit]
    /\ lastAnswer' = "trends"
    /\ IF q.visit < newest.trends THEN Blame("reordered") ELSE UNCHANGED mishap
    /\ UNCHANGED <<authVars, diary, clock, launched, screen, visit, keywordDictionary, shown,
                   crashed>>

\* trends and its didSet: the table is reloaded when the mood turns.
TrendsAnswer(q) ==
    /\ Running /\ q \in queries /\ q.kind = "trends"
    /\ queries' = queries \ {q}
    /\ trends' = Sentiments(q)
    /\ needsLayout' = (needsLayout \/ IsNegative(trends) # IsNegative(trends'))
    /\ ownerOf' = [ownerOf EXCEPT !.trends = q.user]
    /\ newest' = [newest EXCEPT !.trends = q.visit]
    /\ lastAnswer' = "trends"
    /\ IF q.visit < newest.trends THEN Blame("reordered") ELSE UNCHANGED mishap
    /\ UNCHANGED <<authVars, diary, clock, launched, screen, visit, keywordDictionary, shown,
                   crashed>>

\* Mutant: the words have the table wait for the trends.
KeywordsAnswer_NoReload(q) ==
    /\ Running /\ q \in queries /\ q.kind = "keywords"
    /\ queries' = queries \ {q}
    /\ keywordDictionary' = Keywords(q)
    /\ ownerOf' = [ownerOf EXCEPT !.keywords = q.user]
    /\ newest' = [newest EXCEPT !.keywords = q.visit]
    /\ lastAnswer' = "keywords"
    /\ IF q.visit < newest.keywords THEN Blame("reordered") ELSE UNCHANGED mishap
    /\ UNCHANGED <<authVars, diary, clock, launched, screen, visit, trends, needsLayout, shown,
                   crashed>>

\* keywordDictionary and its didSet: the table is reloaded, always.
KeywordsAnswer(q) ==
    /\ Running /\ q \in queries /\ q.kind = "keywords"
    /\ queries' = queries \ {q}
    /\ keywordDictionary' = Keywords(q)
    /\ needsLayout' = TRUE
    /\ ownerOf' = [ownerOf EXCEPT !.keywords = q.user]
    /\ newest' = [newest EXCEPT !.keywords = q.visit]
    /\ lastAnswer' = "keywords"
    /\ IF q.visit < newest.keywords THEN Blame("reordered") ELSE UNCHANGED mishap
    /\ UNCHANGED <<authVars, diary, clock, launched, screen, visit, trends, shown, crashed>>

QueryFails(q) ==
    /\ Running /\ q \in queries
    /\ queries' = queries \ {q}
    /\ IF q.visit = visit THEN Blame("failed") ELSE UNCHANGED mishap
    /\ UNCHANGED <<authVars, diary, clock, launched, screen, visit, dataVars, needsLayout, shown,
                   crashed>>

-----------------------------------------------------------------------------
(* The table.  A chart of no points takes the maximum of none by force.     *)

DrawChart(points) == crashed' = (points = <<>>)

\* The layout after reloadData, when the table is on the screen: cellForRowAt
\* of the three sections, the support section on top if the trends are negative.
Layout ==
    /\ Running /\ screen = "home" /\ needsLayout
    /\ needsLayout' = FALSE
    /\ shown' = [negative |-> IsNegative(trends), graphPoints |-> trends,
                 words |-> keywordDictionary]
    /\ DrawChart(trends)
    /\ UNCHANGED <<authVars, diary, clock, launched, screen, visit, queries, dataVars, mishap>>

\* The chart, scrolled away and back, is filled anew; so are the words, but
\* these have not changed since the layout.
ScrollBack ==
    /\ Running /\ screen = "home" /\ ~needsLayout
    /\ shown' = [shown EXCEPT !.graphPoints = trends]
    /\ DrawChart(trends)
    /\ UNCHANGED <<authVars, diary, clock, launched, screen, visit, queries, dataVars,
                   needsLayout, mishap>>

-----------------------------------------------------------------------------
(* The account. *)

\* Mutant: the page comes up and the account stays.
MotionEnded_KeepsAccount ==
    /\ Running /\ screen = "home"
    /\ screen' = "sign"
    /\ mishap' = {}
    /\ UNCHANGED <<authVars, diary, clock, launched, visit, queries, dataVars, needsLayout,
                   shown, crashed>>

\* motionEnded: shaking the home screen signs out.
MotionEnded ==
    /\ Running /\ screen = "home"
    /\ currentUser' = NoUser
    /\ screen' = "sign"
    /\ mishap' = {}
    /\ UNCHANGED <<signing, diary, clock, launched, visit, queries, dataVars, needsLayout, shown,
                   crashed>>

\* sign, with the form filled in for u: nothing keeps the user from a second tap.
Sign(u) ==
    /\ Running /\ screen = "sign"
    /\ \E tap \in (1..MaxSigns) \ {r.tap : r \in signing} :
           signing' = signing \cup {[user |-> u, tap |-> tap, paged |-> TRUE]}
    /\ UNCHANGED <<currentUser, diary, clock, launched, screen, visit, queries, dataVars,
                   needsLayout, shown, crashed, mishap>>

\* The requests still under way lose the page they hold weakly.
Unpaged(requests) == {[r EXCEPT !.paged = FALSE] : r \in requests}

\* Mutant: the page is a sheet, under which the home screen never went away.
Answered_Sheet(r, user) ==
    IF r.paged
    THEN /\ signing' = Unpaged(signing \ {r})
         /\ screen' = "home"
         /\ UNCHANGED <<visit, queries, mishap>>
    ELSE /\ signing' = signing \ {r}
         /\ IF user # currentUser THEN Blame("late") ELSE UNCHANGED mishap
         /\ UNCHANGED <<screen, visit, queries>>

\* dismiss, if the page is still there, and with it the appearance of the
\* home screen under the page.
Answered(r, user) ==
    IF r.paged
    THEN /\ signing' = Unpaged(signing \ {r})
         /\ ViewWillAppear(user)
    ELSE /\ signing' = signing \ {r}
         /\ IF user # currentUser THEN Blame("late") ELSE UNCHANGED mishap
         /\ UNCHANGED <<screen, visit, queries>>

SignSucceeds(r) ==
    /\ Running /\ r \in signing
    /\ currentUser' = r.user
    /\ Answered(r, r.user)
    /\ UNCHANGED <<diary, clock, launched, dataVars, needsLayout, shown, crashed>>

\* The page goes all the same.
SignFails(r) ==
    /\ Running /\ r \in signing
    /\ Answered(r, currentUser)
    /\ UNCHANGED <<currentUser, diary, clock, launched, dataVars, needsLayout, shown, crashed>>

-----------------------------------------------------------------------------
(* The rest of the app. *)

Inserted(s, i, memory) == SubSeq(s, 1, i - 1) \o <<memory>> \o SubSeq(s, i, Len(s))

\* Where in the order of saveDate a memory comes: any place among its equals.
Places(s, date) ==
    {i \in 1..Len(s) + 1 : /\ \A j \in 1..i - 1 : s[j].date <= date
                           /\ \A j \in i..Len(s) : date <= s[j].date}

\* A memory is written for the account signed in when its key phrases arrive, at
\* any time after Save was tapped, which is the date it has.
MemoryStored(score, tags, date) ==
    /\ Running /\ currentUser # NoUser
    /\ Len(diary[currentUser]) < MaxDiary
    /\ \E i \in Places(diary[currentUser], date) :
           diary' = [diary EXCEPT ![currentUser] =
                        Inserted(@, i, [date |-> date, sentiment |-> score, tags |-> tags])]
    /\ UNCHANGED <<authVars, clock, launched, screen, visit, queries, dataVars, needsLayout,
                   shown, crashed, mishap>>

Without(s, i) == SubSeq(s, 1, i - 1) \o SubSeq(s, i + 1, Len(s))

MemoryDeleted(i) ==
    /\ Running /\ screen = "away" /\ currentUser # NoUser
    /\ i \in DOMAIN diary[currentUser]
    /\ diary' = [diary EXCEPT ![currentUser] = Without(@, i)]
    /\ UNCHANGED <<authVars, clock, launched, screen, visit, queries, dataVars, needsLayout,
                   shown, crashed, mishap>>

Tick ==
    /\ clock < MaxTime
    /\ clock' = clock + 1
    /\ UNCHANGED <<authVars, diary, launched, screen, visit, queries, dataVars, needsLayout, shown,
                   crashed, mishap>>

\* The app is killed, or crashed, and launched again; Auth keeps the account.
Relaunch ==
    /\ screen' = "launch" /\ signing' = {} /\ queries' = {}
    /\ trends' = FirstTrends /\ keywordDictionary' = Sample
    /\ needsLayout' = TRUE /\ shown' = FirstShown
    /\ crashed' = FALSE
    /\ ownerOf' = [k \in Kinds |-> NoUser] /\ newest' = [k \in Kinds |-> 0]
    /\ lastAnswer' = "none" /\ mishap' = {}
    /\ launched' = clock
    /\ UNCHANGED <<currentUser, diary, clock, visit>>

Next ==
    \/ Appear \/ Leave \/ Layout \/ ScrollBack \/ MotionEnded \/ Tick \/ Relaunch
    \/ \E q \in queries : TrendsAnswer(q) \/ KeywordsAnswer(q) \/ QueryFails(q)
    \/ \E u \in Users : Sign(u)
    \/ \E r \in signing : SignSucceeds(r) \/ SignFails(r)
    \/ \E score \in Scores, tags \in SUBSET Tags, date \in launched..clock :
           MemoryStored(score, tags, date)
    \/ \E i \in 1..MaxDiary : MemoryDeleted(i)

Spec == Init /\ [][Next]_vars

-----------------------------------------------------------------------------
(* The table is reloaded for new trends only when their mood turns, and a  *)
(* reload fills the cells at the next layout only, with the data as it is  *)
(* by then: still, a table with no layout due has Get Support on top if    *)
(* and only if the trends are negative.                                    *)
SupportFollowsTrends == ~needsLayout => shown.negative = IsNegative(trends)

(* With no layout due, the table shows the keywords it has, and the chart  *)
(* the trends it has - unless the trends were the last to be answered, and *)
(* of the same mood as the points shown: two queries in the other order,   *)
(* and the chart is of an earlier visit.                                   *)
ChartOnlyBehindLastTrends ==
    ~needsLayout =>
        /\ shown.words = keywordDictionary
        /\ shown.graphPoints # trends =>
              lastAnswer = "trends" /\ IsNegative(shown.graphPoints) = IsNegative(trends)

(* When all is answered the home screen has the trends and the keywords of *)
(* the account signed in, whoever was signed in when it appeared before    *)
(* and whatever was still under way then - unless, since it last appeared, *)
(* a query of its own failed, an older one was answered after it, or the   *)
(* account changed under it by the answer to a second tap on the button.   *)
HomeIsOwn ==
    screen = "home" /\ currentUser # NoUser /\ queries = {} /\ mishap = {} =>
        ownerOf = [k \in Kinds |-> currentUser]

(* The sign page is up for nobody's account only, and the home screen for  *)
(* somebody's only, but for the answer that outlives its page and for a    *)
(* page that UIKit refuses.                                                *)
ScreenMatchesAccount ==
    /\ screen = "sign" /\ currentUser # NoUser => "late" \in mishap
    /\ screen = "home" /\ currentUser = NoUser => "refused" \in mishap
=============================================================================
