-------------------------- MODULE HomeScreen_proofs --------------------------
(* Theorems about the home screen: what the table shows of the data it has, *)
(* and whose data that is.                                                  *)
EXTENDS HomeScreen, FiniteSetTheorems, TLAPS

(* A request that still has its page has it on the screen. *)
Requests ==
    \A r \in signing : r.user \in Users /\ (r.paged => screen = "sign")

Counters ==
    /\ visit \in Nat
    /\ newest \in [Kinds -> Nat]
    /\ ownerOf \in [Kinds -> Users \cup {NoUser}]
    /\ DOMAIN shown = {"negative", "graphPoints", "words"}
    /\ \A q \in queries : q.kind \in Kinds /\ q.visit \in 1..visit /\ q.user \in Users

(* The home screen shows the account signed in, or is about to. *)
Settled == screen = "home" /\ currentUser # NoUser /\ mishap = {}

Asked(k) == \E q \in queries : q.kind = k /\ q.visit = visit

Has(k) == ownerOf[k] = currentUser /\ newest[k] = visit

Own ==
    Settled =>
        /\ \A q \in queries : q.visit = visit => q.user = currentUser
        /\ \A k \in Kinds : Asked(k) \/ Has(k)

Known == currentUser \in Users \cup {NoUser}

Consistent ==
    /\ Known /\ Requests /\ Counters /\ Own
    /\ SupportFollowsTrends /\ ChartOnlyBehindLastTrends /\ ScreenMatchesAccount

LEMMA InitConsistent == Init => Consistent
<1> SUFFICES ASSUME Init PROVE Consistent
  OBVIOUS
<1>1. Known /\ Requests /\ Own /\ ScreenMatchesAccount
  BY DEF Init, Known, Requests, Own, Settled, ScreenMatchesAccount
<1>2. Counters
  BY DEF Init, Counters, FirstShown
<1>3. SupportFollowsTrends /\ ChartOnlyBehindLastTrends
  BY DEF Init, SupportFollowsTrends, ChartOnlyBehindLastTrends
<1> QED
  BY <1>1, <1>2, <1>3 DEF Consistent

-----------------------------------------------------------------------------
(* The table. *)

\* A step that touches neither the data nor the table.
LEMMA TableUntouched ==
  ASSUME SupportFollowsTrends, ChartOnlyBehindLastTrends,
         UNCHANGED <<trends, keywordDictionary, needsLayout, shown, lastAnswer>>
  PROVE  SupportFollowsTrends' /\ ChartOnlyBehindLastTrends'
BY DEF SupportFollowsTrends, ChartOnlyBehindLastTrends

LEMMA TableStep ==
  ASSUME Consistent, [Next]_vars
  PROVE  SupportFollowsTrends' /\ ChartOnlyBehindLastTrends'
<1> USE DEF Consistent
<1>1. ASSUME NEW q \in queries, TrendsAnswer(q)
      PROVE  SupportFollowsTrends' /\ ChartOnlyBehindLastTrends'
  <2> DEFINE before == IsNegative(trends)
             after == IsNegative(trends')
  <2>1. ~needsLayout' => ~needsLayout /\ before = after
    BY <1>1 DEF TrendsAnswer
  <2>2. UNCHANGED <<shown, keywordDictionary>> /\ lastAnswer' = "trends"
    BY <1>1 DEF TrendsAnswer
  <2> QED
    BY <2>1, <2>2 DEF SupportFollowsTrends, ChartOnlyBehindLastTrends
<1>2. ASSUME NEW q \in queries, KeywordsAnswer(q)
      PROVE  SupportFollowsTrends' /\ ChartOnlyBehindLastTrends'
  BY <1>2 DEF KeywordsAnswer, SupportFollowsTrends, ChartOnlyBehindLastTrends
<1>3. CASE Layout
  BY <1>3 DEF Layout, SupportFollowsTrends, ChartOnlyBehindLastTrends, dataVars
<1>4. CASE ScrollBack
  <2>1. shown'.graphPoints = trends /\ shown'.words = shown.words
        /\ shown'.negative = shown.negative
    BY <1>4 DEF ScrollBack, Counters
  <2> QED
    BY <1>4, <2>1 DEF ScrollBack, SupportFollowsTrends, ChartOnlyBehindLastTrends, dataVars
<1>5. CASE Relaunch
  BY <1>5 DEF Relaunch, SupportFollowsTrends, ChartOnlyBehindLastTrends
<1>6. ASSUME UNCHANGED <<dataVars, needsLayout, shown>>
      PROVE  SupportFollowsTrends' /\ ChartOnlyBehindLastTrends'
  BY <1>6, TableUntouched DEF dataVars
<1>7. Appear \/ Leave \/ MotionEnded \/ Tick => UNCHANGED <<dataVars, needsLayout, shown>>
  BY DEF Appear, Leave, MotionEnded, Tick
<1>8. \A q \in queries : QueryFails(q) => UNCHANGED <<dataVars, needsLayout, shown>>
  BY DEF QueryFails
<1>9. \A u \in Users : Sign(u) => UNCHANGED <<dataVars, needsLayout, shown>>
  BY DEF Sign
<1>10. \A r \in signing : SignSucceeds(r) \/ SignFails(r)
                             => UNCHANGED <<dataVars, needsLayout, shown>>
  BY DEF SignSucceeds, SignFails
<1>11. \A score \in Scores, tags \in SUBSET Tags, date \in launched..clock :
          MemoryStored(score, tags, date) => UNCHANGED <<dataVars, needsLayout, shown>>
  BY DEF MemoryStored
<1>12. \A i \in 1..MaxDiary : MemoryDeleted(i) => UNCHANGED <<dataVars, needsLayout, shown>>
  BY DEF MemoryDeleted
<1>13. UNCHANGED vars => UNCHANGED <<dataVars, needsLayout, shown>>
  BY DEF vars
<1> QED
  BY <1>1, <1>2, <1>3, <1>4, <1>5, <1>6, <1>7, <1>8, <1>9, <1>10, <1>11, <1>12, <1>13 DEF Next
-----------------------------------------------------------------------------
(* The account, the screen and the queries. *)

Account == Requests /\ Counters /\ Own /\ ScreenMatchesAccount

\* An appearance of the home screen, on its own or below a dismissed page.
LEMMA AppearStep ==
  ASSUME Account, NEW user \in Users \cup {NoUser}, ViewWillAppear(user),
         currentUser' = user,
         \A r \in signing' : r.user \in Users /\ ~r.paged,
         UNCHANGED <<newest, ownerOf, shown>>
  PROVE  Account'
<1> USE NoUserAssumption DEF Account
<1>1. CASE user # NoUser
  <2>1. /\ screen' = "home" /\ mishap' = {} /\ visit' = visit + 1
        /\ queries' = queries \cup [kind: Kinds, visit: {visit + 1}, user: {user},
                                    start: {clock - Week}, end: {clock}]
    BY <1>1 DEF ViewWillAppear
  <2>2. Counters'
    BY <1>1, <2>1 DEF Counters
  <2>3. \A k \in Kinds : Asked(k)'
    <3> SUFFICES ASSUME NEW k \in Kinds PROVE Asked(k)'
      OBVIOUS
    <3> DEFINE q == [kind |-> k, visit |-> visit + 1, user |-> user, start |-> clock - Week,
                     end |-> clock]
    <3>1. q \in queries'
      BY <2>1
    <3> QED
      BY <2>1, <3>1 DEF Asked
  <2>4. \A q \in queries' : q.visit = visit' => q.user = currentUser'
    BY <2>1 DEF Counters
  <2> QED
    BY <1>1, <2>1, <2>2, <2>3, <2>4 DEF Own, Requests, ScreenMatchesAccount
<1>2. CASE user = NoUser
  <2>1. /\ UNCHANGED <<visit, queries>>
        /\ \/ screen' = "sign"
           \/ screen' = "home" /\ mishap' = {"refused"}
    BY <1>2 DEF ViewWillAppear
  <2>2. Counters'
    BY <2>1 DEF Counters
  <2> QED
    BY <1>2, <2>1, <2>2 DEF Own, Settled, Requests, ScreenMatchesAccount
<1> QED
  BY <1>1, <1>2

\* A step that touches none of it, but may leave the screen for another one.
LEMMA AccountUntouched ==
  ASSUME Account, UNCHANGED <<authVars, visit, queries, newest, ownerOf, mishap>>,
         screen' = screen \/ (screen = "home" /\ screen' = "away"),
         DOMAIN shown' = DOMAIN shown
  PROVE  Account'
BY DEF Account, authVars, Requests, Counters, Own, Settled, Asked, Has, ScreenMatchesAccount

\* An answer, to the last visit's query or to an older one.
LEMMA AnswerStep ==
  ASSUME Account, NEW q \in queries, queries' = queries \ {q},
         \/ /\ ownerOf' = [ownerOf EXCEPT ![q.kind] = q.user]
            /\ newest' = [newest EXCEPT ![q.kind] = q.visit]
            /\ IF q.visit < newest[q.kind] THEN mishap' = mishap \cup {"reordered"}
                                           ELSE UNCHANGED mishap
         \/ /\ UNCHANGED <<ownerOf, newest>>
            /\ IF q.visit = visit THEN mishap' = mishap \cup {"failed"} ELSE UNCHANGED mishap,
         UNCHANGED <<authVars, screen, visit, shown>>
  PROVE  Account'
<1> USE DEF Account, authVars
<1>1. q.kind \in Kinds /\ q.visit \in 1..visit /\ q.user \in Users /\ visit \in Nat
  BY DEF Counters
<1>2. Counters'
  <2>1. newest' \in [Kinds -> Nat] /\ ownerOf' \in [Kinds -> Users \cup {NoUser}]
    BY <1>1 DEF Counters
  <2> QED
    BY <2>1 DEF Counters
<1>3. Requests' /\ ScreenMatchesAccount'
  BY DEF Requests, ScreenMatchesAccount
<1>4. Own'
  <2> SUFFICES ASSUME Settled' PROVE Own'
    BY DEF Own
  <2>1. Settled /\ UNCHANGED mishap
    BY DEF Settled
  <2>2. \A p \in queries : p.visit = visit => p.user = currentUser
    BY <2>1 DEF Own
  <2>3. ASSUME NEW k \in Kinds PROVE Asked(k)' \/ Has(k)'
    <3>1. CASE k # q.kind
      <4>1. newest'[k] = newest[k] /\ ownerOf'[k] = ownerOf[k]
        BY <3>1, <2>3 DEF Counters
      <4>2. Asked(k) => Asked(k)'
        BY <3>1 DEF Asked
      <4> QED
        BY <2>1, <2>3, <4>1, <4>2 DEF Own, Has
    <3>2. CASE k = q.kind /\ q.visit = visit
      <4>1. newest'[k] = visit /\ ownerOf'[k] = q.user
        BY <2>1, <3>2, <1>1 DEF Counters, Settled
      <4> QED
        BY <4>1, <3>2, <2>2 DEF Has
    <3>3. CASE k = q.kind /\ q.visit # visit
      <4>1. CASE Asked(k)
        BY <4>1, <3>3 DEF Asked
      <4>2. CASE Has(k)
        <5>1. q.visit < newest[k]
          BY <4>2, <3>3, <1>1 DEF Has
        <5>2. UNCHANGED <<ownerOf, newest>>
          BY <5>1, <3>3, <2>1 DEF Settled
        <5> QED
          BY <4>2, <5>2 DEF Has
      <4> QED
        BY <4>1, <4>2, <2>1, <2>3 DEF Own
    <3> QED
      BY <3>1, <3>2, <3>3
  <2> QED
    BY <2>2, <2>3 DEF Own
<1> QED
  BY <1>2, <1>3, <1>4

\* An answer to a request to sign in.
LEMMA SignStep ==
  ASSUME Account, NEW r \in signing, NEW user \in Users \cup {NoUser}, Answered(r, user),
         currentUser' = user, user = r.user \/ user = currentUser,
         UNCHANGED <<newest, ownerOf, shown>>
  PROVE  Account'
<1> USE DEF Account
<1>1. CASE r.paged
  <2>1. ViewWillAppear(user)
    BY <1>1 DEF Answered
  <2>2. \A p \in signing' : p.user \in Users /\ ~p.paged
    <3> SUFFICES ASSUME NEW p \in signing, NEW n, n = [p EXCEPT !.paged = FALSE]
                 PROVE  n.user \in Users /\ ~n.paged
      BY <1>1 DEF Answered, Unpaged
    <3> QED
      BY DEF Requests
  <2> QED
    BY <2>1, <2>2, AppearStep
<1>2. CASE ~r.paged
  <2>1. /\ signing' = signing \ {r} /\ UNCHANGED <<screen, visit, queries>>
        /\ IF user # currentUser THEN mishap' = mishap \cup {"late"} ELSE UNCHANGED mishap
    BY <1>2 DEF Answered, Blame
  <2>2. user = NoUser => user = currentUser
    BY NoUserAssumption DEF Requests
  <2>3. Counters' /\ Requests'
    BY <2>1 DEF Counters, Requests
  <2>4. CASE user = currentUser
    BY <2>1, <2>3, <2>4 DEF Own, Settled, Asked, Has, ScreenMatchesAccount
  <2>5. CASE user # currentUser
    BY <2>1, <2>2, <2>3, <2>5 DEF Own, Settled, ScreenMatchesAccount
  <2> QED
    BY <2>4, <2>5
<1> QED
  BY <1>1, <1>2

LEMMA AccountStep ==
  ASSUME Consistent, [Next]_vars
  PROVE  Account'
<1>0. Account /\ currentUser \in Users \cup {NoUser}
  BY DEF Consistent, Account, Known
<1>1. CASE Appear
  <2>1. \A r \in signing' : r.user \in Users /\ ~r.paged
    BY <1>0, <1>1 DEF Appear, authVars, Account, Requests
  <2> QED
    BY <1>0, <1>1, <2>1, AppearStep DEF Appear, authVars, dataVars
<1>2. CASE Leave \/ Layout \/ ScrollBack \/ Tick \/ UNCHANGED vars
  <2>1. DOMAIN shown' = DOMAIN shown
    BY <1>0, <1>2 DEF Leave, Layout, ScrollBack, Tick, vars, Account, Counters
  <2> QED
    BY <1>0, <1>2, <2>1, AccountUntouched DEF Leave, Layout, ScrollBack, Tick, vars, dataVars
<1>3. CASE MotionEnded
  BY <1>0, <1>3 DEF MotionEnded, dataVars, Account, Requests, Counters, Own, Settled,
                    ScreenMatchesAccount
<1>4. CASE Relaunch
  <2>1. Requests' /\ Own' /\ ScreenMatchesAccount'
    BY <1>4 DEF Relaunch, Requests, Own, Settled, ScreenMatchesAccount
  <2>2. Counters'
    BY <1>0, <1>4 DEF Relaunch, FirstShown, Account, Counters
  <2> QED
    BY <2>1, <2>2 DEF Account
<1>5. ASSUME NEW q \in queries, TrendsAnswer(q) \/ KeywordsAnswer(q) \/ QueryFails(q)
      PROVE  Account'
  <2>1. CASE TrendsAnswer(q)
    BY <1>0, <2>1, AnswerStep DEF TrendsAnswer, Blame
  <2>2. CASE KeywordsAnswer(q)
    BY <1>0, <2>2, AnswerStep DEF KeywordsAnswer, Blame
  <2>3. CASE QueryFails(q)
    BY <1>0, <2>3, AnswerStep DEF QueryFails, Blame, dataVars
  <2> QED
    BY <1>5, <2>1, <2>2, <2>3
<1>6. ASSUME NEW u \in Users, Sign(u)
      PROVE  Account'
  <2>1. PICK tap : signing' = signing \cup {[user |-> u, tap |-> tap, paged |-> TRUE]}
    BY <1>6 DEF Sign
  <2>2. Requests'
    BY <1>0, <1>6, <2>1 DEF Sign, Account, Requests
  <2> QED
    BY <1>0, <1>6, <2>2 DEF Sign, dataVars, Account, Counters, Own, Settled, Asked, Has,
                           ScreenMatchesAccount
<1>7. ASSUME NEW r \in signing, SignSucceeds(r) \/ SignFails(r)
      PROVE  Account'
  <2>1. CASE SignSucceeds(r)
    <3>1. r.user \in Users
      BY <1>0 DEF Account, Requests
    <3> QED
      BY <1>0, <2>1, <3>1, SignStep DEF SignSucceeds, dataVars
  <2>2. CASE SignFails(r)
    BY <1>0, <2>2, SignStep DEF SignFails, dataVars
  <2> QED
    BY <1>7, <2>1, <2>2
<1>8. ASSUME NEW score \in Scores, NEW tags \in SUBSET Tags, NEW date \in launched..clock,
             MemoryStored(score, tags, date)
      PROVE  Account'
  BY <1>0, <1>8, AccountUntouched DEF MemoryStored, dataVars
<1>9. ASSUME NEW i \in 1..MaxDiary, MemoryDeleted(i)
      PROVE  Account'
  BY <1>0, <1>9, AccountUntouched DEF MemoryDeleted, dataVars
<1> QED
  BY <1>1, <1>2, <1>3, <1>4, <1>5, <1>6, <1>7, <1>8, <1>9 DEF Next

LEMMA KnownStep ==
  ASSUME Consistent, [Next]_vars
  PROVE  Known'
<1> USE DEF Consistent, Known
<1>1. CASE Appear \/ Leave \/ Layout \/ ScrollBack \/ MotionEnded \/ Tick \/ Relaunch \/ UNCHANGED vars
  BY <1>1 DEF Appear, Leave, Layout, ScrollBack, MotionEnded, Tick, Relaunch, vars, authVars
<1>2. ASSUME NEW q \in queries, TrendsAnswer(q) \/ KeywordsAnswer(q) \/ QueryFails(q)
      PROVE  Known'
  BY <1>2 DEF TrendsAnswer, KeywordsAnswer, QueryFails, authVars
<1>3. ASSUME NEW u \in Users, Sign(u)
      PROVE  Known'
  BY <1>3 DEF Sign
<1>4. ASSUME NEW r \in signing, SignSucceeds(r) \/ SignFails(r)
      PROVE  Known'
  BY <1>4 DEF SignSucceeds, SignFails, Requests
<1>5. ASSUME NEW score \in Scores, NEW tags \in SUBSET Tags, NEW date \in launched..clock,
             MemoryStored(score, tags, date)
      PROVE  Known'
  BY <1>5 DEF MemoryStored, authVars
<1>6. ASSUME NEW i \in 1..MaxDiary, MemoryDeleted(i)
      PROVE  Known'
  BY <1>6 DEF MemoryDeleted, authVars
<1> QED
  BY <1>1, <1>2, <1>3, <1>4, <1>5, <1>6 DEF Next

(* The inductive invariant, for any accounts, diaries and bounds. *)
THEOREM ConsistentAlways == Spec => []Consistent
<1>1. Consistent /\ [Next]_vars => Consistent'
  BY TableStep, AccountStep, KnownStep DEF Consistent, Account
<1> QED
  BY <1>1, InitConsistent, PTL DEF Spec

(* With no layout due, Get Support is on top iff the trends are negative.   *)
THEOREM SupportAlwaysFollows == Spec => []SupportFollowsTrends
<1>1. Consistent => SupportFollowsTrends
  BY DEF Consistent
<1> QED
  BY <1>1, ConsistentAlways, PTL

(* The table lags behind its data only where the trends came last and kept  *)
(* their mood.                                                              *)
THEOREM ChartLagsOnlyThere == Spec => []ChartOnlyBehindLastTrends
<1>1. Consistent => ChartOnlyBehindLastTrends
  BY DEF Consistent
<1> QED
  BY <1>1, ConsistentAlways, PTL

(* All answered, the home screen has the data of the account signed in.  An *)
(* answer that is still to come cannot replace it unnoticed: for each kind  *)
(* the last visit's query is under way, or its answer is the newest.        *)
THEOREM HomeIsAlwaysOwn == Spec => []HomeIsOwn
<1>1. Consistent => HomeIsOwn
  <2> SUFFICES ASSUME Consistent, Settled, queries = {}
               PROVE  ownerOf = [k \in Kinds |-> currentUser]
    BY DEF HomeIsOwn, Settled
  <2>1. \A k \in Kinds : ownerOf[k] = currentUser
    BY DEF Consistent, Own, Asked, Has
  <2>2. ownerOf \in [Kinds -> Users \cup {NoUser}]
    BY DEF Consistent, Counters
  <2> QED
    BY <2>1, <2>2
<1> QED
  BY <1>1, ConsistentAlways, PTL

(* The sign page is up for nobody's account, the home screen for somebody's. *)
THEOREM ScreenAlwaysMatches == Spec => []ScreenMatchesAccount
<1>1. Consistent => ScreenMatchesAccount
  BY DEF Consistent
<1> QED
  BY <1>1, ConsistentAlways, PTL
-----------------------------------------------------------------------------
(* The types. *)

RequestType == [user: Users, tap: 1..MaxSigns, paged: BOOLEAN]

AccountTypes ==
    /\ currentUser \in Users \cup {NoUser}
    /\ diary \in [Users -> Seq(Memories)]
    /\ clock \in 0..MaxTime /\ launched \in 0..clock
    /\ screen \in {"launch", "home", "away", "sign"}
    /\ signing \subseteq RequestType

QueryTypes ==
    /\ visit \in 0..MaxVisits
    /\ queries \subseteq Queries
    /\ \A q \in queries : q.visit <= visit
    /\ ownerOf \in [Kinds -> Users \cup {NoUser}]
    /\ newest \in [Kinds -> 0..visit]
    /\ lastAnswer \in Kinds \cup {"none"}
    /\ mishap \subseteq Mishaps

TableTypes ==
    /\ trends \in Seq(0..100)
    /\ IsDictionary(keywordDictionary)
    /\ needsLayout \in BOOLEAN
    /\ shown.negative \in BOOLEAN /\ shown.graphPoints \in Seq(0..100)
    /\ IsDictionary(shown.words)
    /\ crashed \in BOOLEAN

LEMMA TypeParts == TypeOK <=> AccountTypes /\ QueryTypes /\ TableTypes
BY DEF TypeOK, AccountTypes, QueryTypes, TableTypes, RequestType

\* What a query finds is made of memories of the diary.
LEMMA FilteredType ==
  ASSUME AccountTypes, NEW q, q.user \in Users
  PROVE  Filtered(q) \in Seq(Memories)
<1> DEFINE d == diary[q.user]
           early == {i \in DOMAIN d : d[i].date < q.start}
           late == {i \in DOMAIN d : d[i].date > q.end}
<1>1. d \in Seq(Memories)
  BY DEF AccountTypes
<1>2. early \subseteq 1..Len(d) /\ late \subseteq 1..Len(d) /\ Len(d) \in Nat
  BY <1>1
<1>3. IsFiniteSet(1..Len(d))
  BY <1>2, FS_Interval
<1>4. IsFiniteSet(early) /\ IsFiniteSet(late)
  BY <1>2, <1>3, FS_Subset
<1>5. Cardinality(early) \in Nat /\ Cardinality(late) \in Nat
  BY <1>4, FS_CardinalityType
<1>6. Filtered(q) = SubSeq(d, Cardinality(early) + 1, Len(d) - Cardinality(late))
  BY DEF Filtered
<1> HIDE DEF d, early, late
<1>7. ASSUME NEW m \in Nat, NEW n \in Nat
      PROVE  SubSeq(d, m + 1, Len(d) - n) \in Seq(Memories)
  BY <1>1, <1>2
<1> QED
  BY <1>5, <1>6, <1>7

LEMMA SentimentsType ==
  ASSUME AccountTypes, NEW q, q.user \in Users
  PROVE  Sentiments(q) \in Seq(0..100)
<1>1. Filtered(q) \in Seq(Memories)
  BY FilteredType
<1>2. PICK found \in Seq(Memories) : found = Filtered(q)
  BY <1>1
<1>3. \A i \in 1..Len(found) : found[i] \in Memories
  OBVIOUS
<1>4. \A m \in Memories : m.sentiment \in 0..100
  BY ScoresAssumption DEF Memories
<1>5. \A i \in 1..Len(found) : found[i].sentiment \in 0..100
  BY <1>3, <1>4
<1>6. DOMAIN found = 1..Len(found) /\ Len(found) \in Nat
  OBVIOUS
<1>7. Sentiments(q) = [i \in 1..Len(found) |-> found[i].sentiment]
  BY <1>2, <1>6 DEF Sentiments
<1>8. Sentiments(q) \in [1..Len(found) -> 0..100]
  BY <1>5, <1>7
<1>9. ASSUME NEW n \in Nat, NEW f \in [1..n -> 0..100] PROVE f \in Seq(0..100)
  OBVIOUS
<1> QED
  BY <1>6, <1>8, <1>9

LEMMA KeywordsType ==
  ASSUME AccountTypes, NEW q, q.user \in Users
  PROVE  IsDictionary(Keywords(q))
<1>1. Filtered(q) \in Seq(Memories)
  BY FilteredType
<1>2. PICK found \in Seq(Memories) : found = Filtered(q)
  BY <1>1
<1> DEFINE tagged(t) == {i \in DOMAIN found : t \in found[i].tags}
           used == {t \in Tags : tagged(t) # {}}
<1>3. ASSUME NEW t PROVE Cardinality(tagged(t)) \in Nat
  <2>1. IsFiniteSet(1..Len(found))
    BY FS_Interval
  <2>2. IsFiniteSet(tagged(t))
    BY <2>1, FS_Subset
  <2> QED
    BY <2>2, FS_CardinalityType
<1>4. Keywords(q) = [t \in used |-> Cardinality(tagged(t))]
  BY <1>2 DEF Keywords
<1>5. used \subseteq Tags
  OBVIOUS
<1> HIDE DEF tagged, used
<1>6. DOMAIN Keywords(q) = used /\ Keywords(q) \in [used -> Nat]
  BY <1>3, <1>4
<1> QED
  BY <1>5, <1>6 DEF IsDictionary

\* What a memory put into a sequence makes of it.
LEMMA InsertedFacts ==
  ASSUME NEW T, NEW s \in Seq(T), NEW k \in 1..Len(s) + 1, NEW m \in T
  PROVE  /\ Inserted(s, k, m) \in Seq(T)
         /\ DOMAIN Inserted(s, k, m) = 1..Len(s) + 1
         /\ \A i \in 1..Len(s) + 1 :
                Inserted(s, k, m)[i] = IF i < k THEN s[i] ELSE IF i = k THEN m ELSE s[i - 1]
<1> DEFINE head == SubSeq(s, 1, k - 1)
           tail == SubSeq(s, k, Len(s))
           first == head \o <<m>>
<1>1. head \in Seq(T) /\ Len(head) = k - 1 /\ \A i \in 1..k - 1 : head[i] = s[i]
  OBVIOUS
<1>2. /\ tail \in Seq(T) /\ Len(tail) = Len(s) - k + 1
      /\ \A i \in 1..Len(s) - k + 1 : tail[i] = s[i + k - 1]
  OBVIOUS
<1>3. Inserted(s, k, m) = first \o tail
  BY DEF Inserted
<1> HIDE DEF head, tail
<1>4. /\ first \in Seq(T) /\ Len(first) = k
      /\ \A i \in 1..k : first[i] = IF i < k THEN head[i] ELSE m
  BY <1>1
<1> HIDE DEF first
<1>5. first \o tail \in Seq(T) /\ DOMAIN (first \o tail) = 1..Len(s) + 1
  <2>1. first \o tail \in Seq(T) /\ Len(first \o tail) = Len(first) + Len(tail)
    <3>1. first \in Seq(T) /\ tail \in Seq(T)
      BY <1>2, <1>4
    <3> QED
      BY <3>1
  <2>2. Len(first) + Len(tail) = Len(s) + 1
    BY <1>2, <1>4
  <2>3. DOMAIN (first \o tail) = 1..Len(first \o tail)
    BY <2>1
  <2> QED
    BY <2>1, <2>2, <2>3
<1>6. ASSUME NEW i \in 1..Len(s) + 1
      PROVE  (first \o tail)[i] = IF i < k THEN s[i] ELSE IF i = k THEN m ELSE s[i - 1]
  <2>1. (first \o tail)[i] = IF i <= Len(first) THEN first[i] ELSE tail[i - Len(first)]
    BY <1>2, <1>4
  <2>2. CASE i <= k
    BY <1>1, <1>4, <2>1, <2>2
  <2>3. CASE ~(i <= k)
    <3>1. i - k \in 1..Len(s) - k + 1 /\ i - k + k - 1 = i - 1
      BY <2>3
    <3> QED
      BY <1>2, <1>4, <2>1, <2>3, <3>1
  <2> QED
    BY <2>2, <2>3
<1> QED
  BY <1>3, <1>5, <1>6

LEMMA AccountTypesStep ==
  ASSUME TypeOK, [Next]_vars
  PROVE  AccountTypes'
<1>0. AccountTypes
  BY TypeParts
<1> USE DEF authVars
<1>1. CASE Appear
  <2>1. UNCHANGED <<authVars, diary, clock, launched>> /\ screen' \in {"home", "sign"}
    BY <1>1 DEF Appear, ViewWillAppear
  <2> QED
    BY <1>0, <2>1 DEF AccountTypes
<1>2. CASE Leave \/ Layout \/ ScrollBack \/ UNCHANGED vars
  <2>1. UNCHANGED <<authVars, diary, clock, launched>> /\ screen' \in {"away", screen}
    BY <1>2 DEF Leave, Layout, ScrollBack, vars
  <2> QED
    BY <1>0, <2>1 DEF AccountTypes
<1>3. CASE MotionEnded
  BY <1>0, <1>3 DEF MotionEnded, AccountTypes
<1>4. CASE Tick
  <2>1. clock' \in 0..MaxTime /\ launched' \in 0..clock'
    BY <1>0, <1>4, BoundsAssumption DEF Tick, AccountTypes
  <2> QED
    BY <1>0, <1>4, <2>1 DEF Tick, AccountTypes
<1>5. CASE Relaunch
  <2>1. launched' \in 0..clock'
    BY <1>0, <1>5, BoundsAssumption DEF Relaunch, AccountTypes
  <2> QED
    BY <1>0, <1>5, <2>1 DEF Relaunch, AccountTypes
<1>6. ASSUME NEW q \in queries, TrendsAnswer(q) \/ KeywordsAnswer(q) \/ QueryFails(q)
      PROVE  AccountTypes'
  BY <1>0, <1>6 DEF TrendsAnswer, KeywordsAnswer, QueryFails, AccountTypes
<1>7. ASSUME NEW u \in Users, Sign(u)
      PROVE  AccountTypes'
  <2>1. PICK tap \in 1..MaxSigns :
            signing' = signing \cup {[user |-> u, tap |-> tap, paged |-> TRUE]}
    BY <1>7 DEF Sign
  <2>2. [user |-> u, tap |-> tap, paged |-> TRUE] \in RequestType
    BY DEF RequestType
  <2>2a. signing' \subseteq RequestType
    BY <1>0, <2>1, <2>2 DEF AccountTypes
  <2> QED
    BY <1>0, <1>7, <2>2a DEF Sign, AccountTypes
<1>8. ASSUME NEW r \in signing, SignSucceeds(r) \/ SignFails(r)
      PROVE  AccountTypes'
  <2>1. \A p \in signing : [p EXCEPT !.paged = FALSE] \in RequestType
    BY <1>0 DEF AccountTypes, RequestType
  <2>2. /\ signing' = signing \ {r} \/ signing' = Unpaged(signing \ {r})
        /\ screen' \in {screen, "home", "sign"}
        /\ currentUser' \in {r.user, currentUser} /\ UNCHANGED <<diary, clock, launched>>
    BY <1>8 DEF SignSucceeds, SignFails, Answered, ViewWillAppear
  <2>3. signing' \subseteq RequestType
    BY <1>0, <2>1, <2>2 DEF Unpaged, AccountTypes
  <2>4. r.user \in Users
    BY <1>0 DEF AccountTypes, RequestType
  <2> QED
    BY <1>0, <2>2, <2>3, <2>4 DEF AccountTypes
<1>9. ASSUME NEW score \in Scores, NEW tags \in SUBSET Tags, NEW date \in launched..clock,
             MemoryStored(score, tags, date)
      PROVE  AccountTypes'
  <2> DEFINE m == [date |-> date, sentiment |-> score, tags |-> tags]
             d == diary[currentUser]
  <2>1. m \in Memories
    BY <1>0, BoundsAssumption DEF AccountTypes, Memories
  <2>2. /\ currentUser # NoUser /\ UNCHANGED <<authVars, clock, launched, screen>>
        /\ \E i \in Places(d, date) : diary' = [diary EXCEPT ![currentUser] = Inserted(d, i, m)]
    BY <1>9 DEF MemoryStored
  <2>3. PICK i \in Places(d, date) : diary' = [diary EXCEPT ![currentUser] = Inserted(d, i, m)]
    BY <2>2
  <2>4. d \in Seq(Memories)
    BY <1>0, <2>2 DEF AccountTypes
  <2> HIDE DEF d, m
  <2>5. Inserted(d, i, m) \in Seq(Memories)
    BY <2>1, <2>4, InsertedFacts DEF Places
  <2>6. diary' \in [Users -> Seq(Memories)]
    BY <1>0, <2>3, <2>5 DEF AccountTypes
  <2> QED
    BY <1>0, <2>2, <2>6 DEF AccountTypes
<1>10. ASSUME NEW i \in 1..MaxDiary, MemoryDeleted(i)
       PROVE  AccountTypes'
  <2>1. /\ currentUser # NoUser /\ i \in DOMAIN diary[currentUser]
        /\ diary' = [diary EXCEPT ![currentUser] = Without(@, i)]
        /\ UNCHANGED <<authVars, clock, launched, screen>>
    BY <1>10 DEF MemoryDeleted
  <2>2. ASSUME NEW s \in Seq(Memories), NEW j \in 1..Len(s)
        PROVE  Without(s, j) \in Seq(Memories)
    <3>1. SubSeq(s, 1, j - 1) \in Seq(Memories) /\ SubSeq(s, j + 1, Len(s)) \in Seq(Memories)
      OBVIOUS
    <3> QED
      BY <3>1 DEF Without
  <2>3. diary[currentUser] \in Seq(Memories) /\ i \in 1..Len(diary[currentUser])
    BY <1>0, <2>1 DEF AccountTypes
  <2>4. Without(diary[currentUser], i) \in Seq(Memories)
    BY <2>2, <2>3
  <2>5. diary' \in [Users -> Seq(Memories)]
    BY <1>0, <2>1, <2>4 DEF AccountTypes
  <2> QED
    BY <1>0, <2>1, <2>5 DEF AccountTypes
<1> QED
  BY <1>1, <1>2, <1>3, <1>4, <1>5, <1>6, <1>7, <1>8, <1>9, <1>10 DEF Next

\* An appearance asks for the week up to now, or not at all.
LEMMA AskedTypes ==
  ASSUME AccountTypes, QueryTypes, NEW user \in Users \cup {NoUser}, ViewWillAppear(user),
         UNCHANGED <<ownerOf, newest, lastAnswer>>
  PROVE  QueryTypes'
<1>1. CASE user # NoUser
  <2>1. /\ visit < MaxVisits /\ visit' = visit + 1 /\ mishap' = {}
        /\ queries' = queries \cup
               [kind: Kinds, visit: {visit + 1}, user: {user}, start: {clock - Week}, end: {clock}]
    BY <1>1 DEF ViewWillAppear
  <2>2. visit \in Nat /\ visit + 1 \in 1..MaxVisits /\ clock - Week \in Int /\ clock \in 0..MaxTime
    BY <2>1, BoundsAssumption DEF AccountTypes, QueryTypes
  <2>3. [kind: Kinds, visit: {visit + 1}, user: {user}, start: {clock - Week}, end: {clock}]
            \subseteq Queries
    BY <1>1, <2>2 DEF Queries
  <2>4. queries' \subseteq Queries
    BY <2>1, <2>3 DEF QueryTypes
  <2>5. \A q \in queries' : q.visit <= visit'
    BY <2>1, <2>2, BoundsAssumption DEF QueryTypes, Queries
  <2>6. visit' \in 0..MaxVisits /\ newest' \in [Kinds -> 0..visit']
    BY <2>1, <2>2, BoundsAssumption DEF QueryTypes
  <2> QED
    BY <2>1, <2>4, <2>5, <2>6 DEF QueryTypes, Mishaps
<1>2. CASE user = NoUser
  BY <1>2 DEF ViewWillAppear, QueryTypes, Mishaps
<1> QED
  BY <1>1, <1>2

LEMMA QueryTypesStep ==
  ASSUME TypeOK, [Next]_vars
  PROVE  QueryTypes'
<1>0. AccountTypes /\ QueryTypes
  BY TypeParts
<1> USE DEF dataVars
<1>1. CASE Appear
  <2>1. currentUser \in Users \cup {NoUser}
    BY <1>0 DEF AccountTypes
  <2> QED
    BY <1>0, <1>1, <2>1, AskedTypes DEF Appear
<1>2. CASE Leave \/ Layout \/ ScrollBack \/ Tick \/ MotionEnded \/ UNCHANGED vars
  <2>1. UNCHANGED <<visit, queries, ownerOf, newest, lastAnswer>> /\ mishap' \in {mishap, {}}
    BY <1>2 DEF Leave, Layout, ScrollBack, Tick, MotionEnded, vars
  <2> QED
    BY <1>0, <2>1 DEF QueryTypes
<1>3. CASE Relaunch
  <2>1. newest' \in [Kinds -> 0..visit'] /\ visit' = visit
    BY <1>0, <1>3, BoundsAssumption DEF Relaunch, QueryTypes
  <2> QED
    BY <1>0, <1>3, <2>1 DEF Relaunch, QueryTypes
<1>4. ASSUME NEW q \in queries, TrendsAnswer(q) \/ KeywordsAnswer(q) \/ QueryFails(q)
      PROVE  QueryTypes'
  <2>1. q.kind \in Kinds /\ q.user \in Users /\ q.visit \in 0..visit
    BY <1>0, BoundsAssumption DEF QueryTypes, Queries
  <2>2. /\ UNCHANGED visit /\ queries' = queries \ {q}
        /\ mishap' \in {mishap, mishap \cup {"reordered"}, mishap \cup {"failed"}}
    BY <1>4 DEF TrendsAnswer, KeywordsAnswer, QueryFails, Blame
  <2>3. /\ ownerOf' \in {ownerOf, [ownerOf EXCEPT ![q.kind] = q.user]}
        /\ newest' \in {newest, [newest EXCEPT ![q.kind] = q.visit]}
        /\ lastAnswer' \in {lastAnswer, "trends", "keywords"}
    BY <1>4 DEF TrendsAnswer, KeywordsAnswer, QueryFails
  <2>4. /\ ownerOf' \in [Kinds -> Users \cup {NoUser}]
        /\ newest' \in [Kinds -> 0..visit]
    BY <1>0, <2>1, <2>3 DEF QueryTypes
  <2> QED
    BY <1>0, <2>2, <2>3, <2>4 DEF QueryTypes, Mishaps, Kinds
<1>5. ASSUME NEW u \in Users, Sign(u)
      PROVE  QueryTypes'
  BY <1>0, <1>5 DEF Sign, QueryTypes
<1>6. ASSUME NEW r \in signing, SignSucceeds(r) \/ SignFails(r)
      PROVE  QueryTypes'
  <2>1. PICK user \in Users \cup {NoUser} : Answered(r, user)
    BY <1>0, <1>6 DEF SignSucceeds, SignFails, AccountTypes, RequestType
  <2>2. UNCHANGED <<ownerOf, newest, lastAnswer>>
    BY <1>6 DEF SignSucceeds, SignFails
  <2>3. CASE r.paged
    BY <1>0, <2>1, <2>2, <2>3, AskedTypes DEF Answered
  <2>4. CASE ~r.paged
    <3>1. UNCHANGED <<visit, queries>> /\ mishap' \in {mishap, mishap \cup {"late"}}
      BY <2>1, <2>4 DEF Answered, Blame
    <3> QED
      BY <1>0, <2>2, <3>1 DEF QueryTypes, Mishaps
  <2> QED
    BY <2>3, <2>4
<1>7. ASSUME NEW score \in Scores, NEW tags \in SUBSET Tags, NEW date \in launched..clock,
             MemoryStored(score, tags, date)
      PROVE  QueryTypes'
  BY <1>0, <1>7 DEF MemoryStored, QueryTypes
<1>8. ASSUME NEW i \in 1..MaxDiary, MemoryDeleted(i)
      PROVE  QueryTypes'
  BY <1>0, <1>8 DEF MemoryDeleted, QueryTypes
<1> QED
  BY <1>1, <1>2, <1>3, <1>4, <1>5, <1>6, <1>7, <1>8 DEF Next

LEMMA TableTypesStep ==
  ASSUME TypeOK, [Next]_vars
  PROVE  TableTypes'
<1>0. AccountTypes /\ QueryTypes /\ TableTypes
  BY TypeParts
<1> USE DEF dataVars
<1>0a. trends \in Seq(0..100) /\ shown.graphPoints \in Seq(0..100)
  BY <1>0 DEF TableTypes
<1>0b. shown.negative \in BOOLEAN /\ needsLayout \in BOOLEAN
  BY <1>0 DEF TableTypes
<1>0c. IsDictionary(keywordDictionary) /\ IsDictionary(shown.words)
  BY <1>0 DEF TableTypes
<1>1. ASSUME UNCHANGED <<trends, keywordDictionary, needsLayout, shown, crashed>>
      PROVE  TableTypes'
  BY <1>0, <1>1 DEF TableTypes, IsDictionary
<1>2. \A points : IsNegative(points) \in BOOLEAN
  BY DEF IsNegative
<1>3. ASSUME NEW q \in queries, TrendsAnswer(q)
      PROVE  TableTypes'
  <2>1. q.user \in Users
    BY <1>0 DEF QueryTypes, Queries
  <2>2. trends' = Sentiments(q) /\ UNCHANGED <<keywordDictionary, shown, crashed>>
        /\ needsLayout' = (needsLayout \/ IsNegative(trends) # IsNegative(trends'))
    BY <1>3 DEF TrendsAnswer
  <2>3. trends' \in Seq(0..100)
    BY <1>0, <2>1, <2>2, SentimentsType
  <2>4. needsLayout' \in BOOLEAN
    BY <2>2
  <2> QED
    BY <1>0, <2>2, <2>3, <2>4 DEF TableTypes, IsDictionary
<1>4. ASSUME NEW q \in queries, KeywordsAnswer(q)
      PROVE  TableTypes'
  <2>1. q.user \in Users
    BY <1>0 DEF QueryTypes, Queries
  <2>2. keywordDictionary' = Keywords(q) /\ UNCHANGED <<trends, shown, crashed>>
        /\ needsLayout' = TRUE
    BY <1>4 DEF KeywordsAnswer
  <2>3. IsDictionary(keywordDictionary)'
    <3>1. IsDictionary(Keywords(q))
      BY <1>0, <2>1, KeywordsType
    <3> QED
      BY <2>2, <3>1 DEF IsDictionary
  <2> QED
    BY <1>0, <2>2, <2>3 DEF TableTypes, IsDictionary
<1>5. CASE Layout \/ ScrollBack
  <2>1. UNCHANGED <<trends, keywordDictionary>> /\ crashed' = (trends = <<>>)
    BY <1>5 DEF Layout, ScrollBack, DrawChart
  <2>2. CASE Layout
    <3>1. shown' = [negative |-> IsNegative(trends), graphPoints |-> trends,
                    words |-> keywordDictionary] /\ needsLayout' = FALSE
      BY <2>2 DEF Layout
    <3>2. shown'.negative = IsNegative(trends) /\ shown'.graphPoints = trends
          /\ shown'.words = keywordDictionary
      BY <3>1
    <3>3. crashed' \in BOOLEAN
      BY <2>1
    <3>4. shown'.negative \in BOOLEAN
      BY <1>2, <3>2
    <3>4a. needsLayout' \in BOOLEAN
      BY <3>1
    <3>5. shown'.graphPoints \in Seq(0..100) /\ trends' \in Seq(0..100)
      BY <1>0a, <2>1, <3>2
    <3>6. IsDictionary(shown'.words) /\ IsDictionary(keywordDictionary')
      BY <1>0c, <2>1, <3>2
    <3> QED
      BY <3>3, <3>4, <3>4a, <3>5, <3>6 DEF TableTypes, IsDictionary
  <2>3. CASE ScrollBack
    <3>1. shown' = [shown EXCEPT !.graphPoints = trends] /\ UNCHANGED needsLayout
      BY <2>3 DEF ScrollBack
    <3>2. shown'.negative = shown.negative /\ shown'.words = shown.words
      BY <3>1
    <3>3. shown'.graphPoints \in Seq(0..100)
      BY <1>0, <3>1 DEF TableTypes
    <3>4. crashed' \in BOOLEAN
      BY <2>1
    <3>4a. shown'.negative \in BOOLEAN
      BY <1>0b, <3>2
    <3>4b. needsLayout' \in BOOLEAN
      BY <1>0b, <3>1
    <3>5. trends' \in Seq(0..100)
      BY <1>0a, <2>1
    <3>6. IsDictionary(shown'.words) /\ IsDictionary(keywordDictionary')
      BY <1>0c, <2>1, <3>2
    <3> QED
      BY <3>3, <3>4, <3>4a, <3>4b, <3>5, <3>6 DEF TableTypes, IsDictionary
  <2> QED
    BY <1>5, <2>2, <2>3
<1>6. CASE Relaunch
  <2>1. /\ trends' = FirstTrends /\ keywordDictionary' = Sample /\ needsLayout' = TRUE
        /\ shown' = FirstShown /\ crashed' = FALSE
    BY <1>6 DEF Relaunch
  <2>2. FirstShown.negative = TRUE /\ FirstShown.graphPoints = FirstTrends /\ FirstShown.words = Sample
    BY DEF FirstShown
  <2>3. FirstTrends \in Seq(0..100) /\ IsDictionary(Sample)
    BY DEF FirstTrends, IsDictionary
  <2> QED
    BY <2>1, <2>2, <2>3 DEF TableTypes, IsDictionary
<1>7. Appear \/ Leave \/ MotionEnded \/ Tick
        => UNCHANGED <<trends, keywordDictionary, needsLayout, shown, crashed>>
  BY DEF Appear, Leave, MotionEnded, Tick
<1>8. /\ \A q \in queries : QueryFails(q)
             => UNCHANGED <<trends, keywordDictionary, needsLayout, shown, crashed>>
      /\ \A u \in Users : Sign(u)
             => UNCHANGED <<trends, keywordDictionary, needsLayout, shown, crashed>>
      /\ \A r \in signing : SignSucceeds(r) \/ SignFails(r)
             => UNCHANGED <<trends, keywordDictionary, needsLayout, shown, crashed>>
  BY DEF QueryFails, Sign, SignSucceeds, SignFails
<1>9. /\ \A score \in Scores, tags \in SUBSET Tags, date \in launched..clock :
             MemoryStored(score, tags, date)
             => UNCHANGED <<trends, keywordDictionary, needsLayout, shown, crashed>>
      /\ \A i \in 1..MaxDiary : MemoryDeleted(i)
             => UNCHANGED <<trends, keywordDictionary, needsLayout, shown, crashed>>
  BY DEF MemoryStored, MemoryDeleted
<1>10. UNCHANGED vars => UNCHANGED <<trends, keywordDictionary, needsLayout, shown, crashed>>
  BY DEF vars
<1> QED
  BY <1>1, <1>3, <1>4, <1>5, <1>6, <1>7, <1>8, <1>9, <1>10 DEF Next

(* Type correctness, for any accounts, diaries and bounds: what a query     *)
(* finds in a diary is made of the diary's own memories.                    *)
THEOREM TypeCorrect == Spec => []TypeOK
<1>1. Init => TypeOK
  <2> SUFFICES ASSUME Init PROVE AccountTypes /\ QueryTypes /\ TableTypes
    BY TypeParts
  <2>1. AccountTypes
    <3>1. FirstDiaries \subseteq Seq(Memories)
      <4> DEFINE First == [date: {0}, sentiment: Scores, tags: SUBSET Tags]
      <4>1. First \subseteq Memories
        BY BoundsAssumption DEF Memories
      <4>2. FirstDiaries \subseteq Seq(First)
        BY FirstDiariesAssumption
      <4> HIDE DEF First
      <4>3. ASSUME NEW s \in Seq(First) PROVE s \in Seq(Memories)
        <5>1. s \in [1..Len(s) -> Memories] /\ Len(s) \in Nat
          BY <4>1
        <5> QED
          BY <5>1
      <4> QED
        BY <4>2, <4>3
    <3> QED
      BY <3>1, BoundsAssumption DEF Init, AccountTypes
  <2>2. QueryTypes
    BY BoundsAssumption DEF Init, QueryTypes
  <2>3. TableTypes
    <3>1. FirstShown.negative = TRUE /\ FirstShown.graphPoints = FirstTrends
          /\ FirstShown.words = Sample
      BY DEF FirstShown
    <3>2. FirstTrends \in Seq(0..100) /\ IsDictionary(Sample)
      BY DEF FirstTrends, IsDictionary
    <3> QED
      BY <3>1, <3>2 DEF Init, TableTypes
  <2> QED
    BY <2>1, <2>2, <2>3
<1>2. TypeOK /\ [Next]_vars => TypeOK'
  <2> SUFFICES ASSUME TypeOK, [Next]_vars PROVE AccountTypes' /\ QueryTypes' /\ TableTypes'
    BY TypeParts DEF TypeOK, AccountTypes, QueryTypes, TableTypes, RequestType
  <2> QED
    BY AccountTypesStep, QueryTypesStep, TableTypesStep
<1> QED
  BY <1>1, <1>2, PTL DEF Spec
-----------------------------------------------------------------------------
(* The week.  A query takes the documents between two counts of the diary;  *)
(* that these are the memories of its week needs the diary to be in the     *)
(* order of saveDate, in which the query asks for them: a memory written    *)
(* late takes its place among the others.                                   *)

Dated(d, now) ==
    /\ \A i \in DOMAIN d : d[i].date <= now
    /\ \A i, j \in DOMAIN d : i <= j => d[i].date <= d[j].date

DiariesInOrder == \A u \in Users : Dated(diary[u], clock)

\* The places in the diary of the memories a query is about.
InWeek(q) == {i \in DOMAIN diary[q.user] : diary[q.user][i].date \in q.start..q.end}

\* The first places of a sequence, as far as a set of places goes.
LEMMA Prefix ==
  ASSUME NEW n \in Nat, NEW S \in SUBSET (1..n),
         \A i \in S, j \in 1..n : j <= i => j \in S
  PROVE  Cardinality(S) \in Nat /\ S = 1..Cardinality(S)
<1>1. IsFiniteSet(1..n)
  BY FS_Interval
<1>2. IsFiniteSet(S)
  BY <1>1, FS_Subset
<1> DEFINE k == Cardinality(S)
<1>3. k \in Nat
  BY <1>2, FS_CardinalityType
<1>4. ASSUME NEW i \in S PROVE i \in 1..k
  <2>1. i \in 1..n /\ 1..i \in SUBSET S
    OBVIOUS
  <2>2. Cardinality(1..i) <= k
    BY <1>2, <2>1, FS_Subset
  <2>3. Cardinality(1..i) = i
    BY <2>1, FS_Interval
  <2> QED
    BY <1>3, <2>1, <2>2, <2>3
<1>5. IsFiniteSet(1..k) /\ Cardinality(1..k) = k
  BY <1>3, FS_Interval
<1>6. S \in SUBSET (1..k)
  BY <1>4
<1>7. S = 1..k
  BY <1>5, <1>6, FS_Subset
<1> QED
  BY <1>3, <1>7

\* The last ones.
LEMMA Suffix ==
  ASSUME NEW n \in Nat, NEW S \in SUBSET (1..n),
         \A i \in S, j \in 1..n : i <= j => j \in S
  PROVE  Cardinality(S) \in 0..n /\ S = (n - Cardinality(S) + 1)..n
<1>1. IsFiniteSet(1..n) /\ Cardinality(1..n) = n
  BY FS_Interval
<1>2. IsFiniteSet(S) /\ Cardinality(S) <= n
  BY <1>1, FS_Subset
<1> DEFINE k == Cardinality(S)
<1>3. k \in 0..n
  BY <1>2, FS_CardinalityType
<1>4. ASSUME NEW i \in S PROVE i \in (n - k + 1)..n
  <2>1. i \in 1..n /\ i..n \in SUBSET S
    OBVIOUS
  <2>2. Cardinality(i..n) <= k
    BY <1>2, <2>1, FS_Subset
  <2>3. Cardinality(i..n) = n - i + 1
    BY <2>1, FS_Interval
  <2> QED
    BY <1>3, <2>1, <2>2, <2>3
<1>5. IsFiniteSet((n - k + 1)..n) /\ Cardinality((n - k + 1)..n) = k
  <2>1. ASSUME NEW a \in Int, a = n - k + 1
        PROVE  IsFiniteSet(a..n) /\ Cardinality(a..n) = k
    <3>1. /\ IsFiniteSet(a..n)
          /\ Cardinality(a..n) = IF a > n THEN 0 ELSE n - a + 1
      BY FS_Interval
    <3> QED
      BY <1>3, <2>1, <3>1
  <2>2. n - k + 1 \in Int
    BY <1>3
  <2> QED
    BY <2>1, <2>2
<1>6. S \in SUBSET ((n - k + 1)..n)
  BY <1>4
<1>7. S = (n - k + 1)..n
  BY <1>5, <1>6, FS_Subset
<1> QED
  BY <1>3, <1>7

LEMMA FilteredIsTheWeek ==
  ASSUME AccountTypes, DiariesInOrder, NEW q \in Queries
  PROVE  \E m, n \in Int :
             /\ InWeek(q) = m..n
             /\ Filtered(q) = SubSeq(diary[q.user], m, n)
<1> DEFINE d == diary[q.user]
           early == {i \in DOMAIN d : d[i].date < q.start}
           late == {i \in DOMAIN d : d[i].date > q.end}
<1>1. /\ d \in Seq(Memories) /\ Dated(d, clock)
      /\ q.start \in Int /\ q.end \in Nat
  BY BoundsAssumption DEF AccountTypes, DiariesInOrder, Queries
<1>2. Len(d) \in Nat /\ DOMAIN d = 1..Len(d)
  BY <1>1
<1>3. \A i \in 1..Len(d) : d[i].date \in Nat
  <2>1. \A i \in 1..Len(d) : d[i] \in Memories
    BY <1>1
  <2>2. \A r \in Memories : r.date \in Nat
    BY BoundsAssumption DEF Memories
  <2> QED
    BY <2>1, <2>2
<1>4. \A i, j \in 1..Len(d) : i <= j => d[i].date <= d[j].date
  BY <1>1, <1>2 DEF Dated
<1>5. Filtered(q) = SubSeq(d, Cardinality(early) + 1, Len(d) - Cardinality(late))
  BY DEF Filtered
<1>6. InWeek(q) = {i \in 1..Len(d) : i \notin early /\ i \notin late}
  BY <1>1, <1>2, <1>3 DEF InWeek
<1>7. Cardinality(early) \in Nat /\ early = 1..Cardinality(early)
  <2>1. early \in SUBSET (1..Len(d))
    BY <1>2
  <2>2. ASSUME NEW i \in early, NEW j \in 1..Len(d), j <= i PROVE j \in early
    BY <1>1, <1>2, <1>3, <1>4, <2>2
  <2> HIDE DEF early
  <2> QED
    BY <1>2, <2>1, <2>2, Prefix
<1>8. Cardinality(late) \in 0..Len(d) /\ late = (Len(d) - Cardinality(late) + 1)..Len(d)
  <2>1. late \in SUBSET (1..Len(d))
    BY <1>2
  <2>2. ASSUME NEW i \in late, NEW j \in 1..Len(d), i <= j PROVE j \in late
    BY <1>1, <1>2, <1>3, <1>4, <2>2
  <2> HIDE DEF late
  <2> QED
    BY <1>2, <2>1, <2>2, Suffix
<1> DEFINE m == Cardinality(early) + 1
           n == Len(d) - Cardinality(late)
<1>9. m \in Int /\ n \in Int /\ InWeek(q) = m..n
  <2> HIDE DEF early, late
  <2>0. m \in Int /\ n \in Int
    BY <1>2, <1>7, <1>8
  <2>1. ASSUME NEW i \in m..n PROVE i \in InWeek(q)
    BY <1>2, <1>6, <1>7, <1>8, <2>1
  <2>2. ASSUME NEW i \in InWeek(q) PROVE i \in m..n
    BY <1>2, <1>6, <1>7, <1>8, <2>2
  <2>3. InWeek(q) = m..n
    <3> HIDE DEF m, n
    <3> QED
      BY <2>0, <2>1, <2>2
  <2> QED
    BY <2>0, <2>3
<1> HIDE DEF m, n
<1>10. Filtered(q) = SubSeq(d, m, n)
  BY <1>5 DEF m, n
<1> QED
  BY <1>9, <1>10

\* What Without leaves of a sequence.
LEMMA WithoutFacts ==
  ASSUME NEW T, NEW s \in Seq(T), NEW k \in 1..Len(s)
  PROVE  /\ DOMAIN Without(s, k) = 1..Len(s) - 1
         /\ \A i \in 1..Len(s) - 1 : Without(s, k)[i] = s[IF i < k THEN i ELSE i + 1]
<1> DEFINE head == SubSeq(s, 1, k - 1)
           tail == SubSeq(s, k + 1, Len(s))
<1>1. head \in Seq(T) /\ Len(head) = k - 1 /\ \A i \in 1..k - 1 : head[i] = s[i]
  OBVIOUS
<1>2. tail \in Seq(T) /\ Len(tail) = Len(s) - k /\ \A i \in 1..Len(s) - k : tail[i] = s[i + k]
  OBVIOUS
<1>3. Without(s, k) = head \o tail
  BY DEF Without
<1> HIDE DEF head, tail
<1>4. DOMAIN (head \o tail) = 1..Len(s) - 1
  BY <1>1, <1>2
<1>5. ASSUME NEW i \in 1..Len(s) - 1
      PROVE  (head \o tail)[i] = s[IF i < k THEN i ELSE i + 1]
  <2>1. (head \o tail)[i] = IF i <= Len(head) THEN head[i] ELSE tail[i - Len(head)]
    BY <1>1, <1>2
  <2>2. CASE i < k
    BY <1>1, <2>1, <2>2
  <2>3. CASE ~(i < k)
    <3>1. i - (k - 1) \in 1..Len(s) - k
      BY <2>3
    <3> QED
      BY <1>1, <1>2, <2>1, <2>3, <3>1
  <2> QED
    BY <2>2, <2>3
<1> QED
  BY <1>3, <1>4, <1>5

LEMMA DiariesStep ==
  ASSUME AccountTypes, DiariesInOrder, [Next]_vars
  PROVE  DiariesInOrder'
<1>0. /\ diary \in [Users -> Seq(Memories)] /\ clock \in Nat
      /\ \A u \in Users : Dated(diary[u], clock)
  BY BoundsAssumption DEF AccountTypes, DiariesInOrder
<1>0a. \A r \in Memories : r.date \in Nat
  BY BoundsAssumption DEF Memories
<1>1. ASSUME UNCHANGED <<diary, clock>> PROVE DiariesInOrder'
  BY <1>1, <1>0 DEF DiariesInOrder, Dated
<1>2. CASE Tick
  <2>1. UNCHANGED diary /\ clock' = clock + 1
    BY <1>2 DEF Tick
  <2>2. ASSUME NEW u \in Users PROVE Dated(diary[u], clock + 1)
    <3>1. diary[u] \in Seq(Memories)
      BY <1>0
    <3>2. \A i \in DOMAIN diary[u] : diary[u][i].date \in Nat
      BY <1>0a, <3>1
    <3> QED
      BY <1>0, <3>2 DEF Dated
  <2> QED
    BY <2>1, <2>2 DEF DiariesInOrder, Dated
<1>3. ASSUME NEW score \in Scores, NEW tags \in SUBSET Tags, NEW date \in launched..clock,
             MemoryStored(score, tags, date)
      PROVE  DiariesInOrder'
  <2> DEFINE d == diary[currentUser]
             m == [date |-> date, sentiment |-> score, tags |-> tags]
  <2>1. /\ currentUser \in Users /\ UNCHANGED clock
        /\ \E k \in Places(d, date) : diary' = [diary EXCEPT ![currentUser] = Inserted(d, k, m)]
    BY <1>3 DEF MemoryStored, AccountTypes
  <2>2. PICK k \in Places(d, date) : diary' = [diary EXCEPT ![currentUser] = Inserted(d, k, m)]
    BY <2>1
  <2>3. d \in Seq(Memories) /\ Dated(d, clock)
    BY <1>0, <2>1
  <2>4. m \in Memories /\ m.date = date /\ date <= clock /\ date \in Int
    BY <1>0, BoundsAssumption DEF AccountTypes, Memories
  <2>5. \A u \in Users \ {currentUser} : diary'[u] = diary[u]
    BY <1>0, <2>2
  <2>6. diary'[currentUser] = Inserted(d, k, m)
    BY <1>0, <2>1, <2>2
  <2> HIDE DEF d, m
  <2>7. /\ k \in 1..Len(d) + 1 /\ Len(d) \in Nat
        /\ \A j \in 1..k - 1 : d[j].date <= date
        /\ \A j \in k..Len(d) : date <= d[j].date
    BY <2>3 DEF Places
  <2>8. Dated(Inserted(d, k, m), clock)
    <3> DEFINE w == Inserted(d, k, m)
               at(i) == IF i < k THEN d[i].date ELSE IF i = k THEN date ELSE d[i - 1].date
    <3>1. DOMAIN w = 1..Len(d) + 1 /\ \A i \in 1..Len(d) + 1 : w[i].date = at(i)
      <4>1. /\ DOMAIN w = 1..Len(d) + 1
            /\ \A i \in 1..Len(d) + 1 :
                   w[i] = IF i < k THEN d[i] ELSE IF i = k THEN m ELSE d[i - 1]
        <5>1. d \in Seq(Memories) /\ k \in 1..Len(d) + 1 /\ m \in Memories
          BY <2>3, <2>4, <2>7
        <5> QED
          BY <5>1, InsertedFacts
      <4> HIDE DEF w
      <4> QED
        BY <2>4, <4>1
    <3>2. /\ \A i \in 1..Len(d) : d[i].date \in Nat /\ d[i].date <= clock
          /\ \A i, j \in 1..Len(d) : i <= j => d[i].date <= d[j].date
      BY <1>0a, <2>3 DEF Dated
    <3>3. ASSUME NEW i \in 1..Len(d) + 1 PROVE at(i) <= clock
      BY <2>4, <2>7, <3>2
    <3>4. ASSUME NEW i \in 1..Len(d) + 1, NEW j \in 1..Len(d) + 1, i <= j
          PROVE  at(i) <= at(j)
      <4>1. CASE j < k
        BY <2>7, <3>2, <3>4, <4>1
      <4>2. CASE j = k
        BY <2>4, <2>7, <3>4, <4>2
      <4>3. CASE j > k /\ i > k
        BY <2>7, <3>2, <3>4, <4>3
      <4>4. CASE j > k /\ i = k
        BY <2>7, <3>4, <4>4
      <4>5. CASE j > k /\ i < k
        BY <2>7, <3>2, <3>4, <4>5
      <4> QED
        BY <2>7, <4>1, <4>2, <4>3, <4>4, <4>5
    <3> HIDE DEF w, at
    <3>5. Dated(w, clock)
      BY <3>1, <3>3, <3>4 DEF Dated
    <3> QED
      BY <3>5 DEF w
  <2> QED
    BY <1>0, <2>1, <2>5, <2>6, <2>8 DEF DiariesInOrder, Dated
<1>4. ASSUME NEW k \in 1..MaxDiary, MemoryDeleted(k)
      PROVE  DiariesInOrder'
  <2> DEFINE d == diary[currentUser]
  <2>1. /\ currentUser \in Users /\ UNCHANGED clock /\ k \in DOMAIN d
        /\ diary' = [diary EXCEPT ![currentUser] = Without(d, k)]
    BY <1>4 DEF MemoryDeleted, AccountTypes
  <2>2. Dated(Without(d, k), clock)
    <3>1. d \in Seq(Memories) /\ Dated(d, clock) /\ k \in 1..Len(d)
      BY <1>0, <2>1
    <3> HIDE DEF d
    <3> DEFINE w == Without(d, k)
    <3>2. /\ DOMAIN w = 1..Len(d) - 1
          /\ \A i \in 1..Len(d) - 1 : w[i] = d[IF i < k THEN i ELSE i + 1]
      BY <3>1, WithoutFacts
    <3> HIDE DEF w
    <3>3. \A i, j \in 1..Len(d) : i <= j => d[i].date <= d[j].date
      BY <3>1 DEF Dated
    <3>4. \A i \in 1..Len(d) : d[i].date <= clock
      BY <3>1 DEF Dated
    <3>5. \A i \in DOMAIN w : w[i].date <= clock
      BY <3>1, <3>2, <3>4
    <3>6. ASSUME NEW i \in DOMAIN w, NEW j \in DOMAIN w, i <= j
          PROVE  w[i].date <= w[j].date
      <4> DEFINE at(l) == IF l < k THEN l ELSE l + 1
      <4>1. at(i) \in 1..Len(d) /\ at(j) \in 1..Len(d) /\ at(i) <= at(j)
        BY <3>1, <3>2, <3>6
      <4>2. w[i] = d[at(i)] /\ w[j] = d[at(j)]
        BY <3>2
      <4> HIDE DEF at
      <4> QED
        BY <3>3, <4>1, <4>2
    <3> QED
      BY <3>5, <3>6 DEF w, Dated
  <2>3. \A u \in Users \ {currentUser} : diary'[u] = diary[u]
    BY <1>0, <2>1
  <2>4. diary'[currentUser] = Without(d, k)
    BY <1>0, <2>1
  <2> HIDE DEF d
  <2> QED
    BY <1>0, <2>1, <2>2, <2>3, <2>4 DEF DiariesInOrder, Dated
<1>5. Appear \/ Leave \/ Layout \/ ScrollBack \/ MotionEnded \/ Relaunch \/ UNCHANGED vars
        => UNCHANGED <<diary, clock>>
  BY DEF Appear, Leave, Layout, ScrollBack, MotionEnded, Relaunch, vars
<1>6. /\ \A q \in queries : TrendsAnswer(q) \/ KeywordsAnswer(q) \/ QueryFails(q)
             => UNCHANGED <<diary, clock>>
      /\ \A u \in Users : Sign(u) => UNCHANGED <<diary, clock>>
      /\ \A r \in signing : SignSucceeds(r) \/ SignFails(r) => UNCHANGED <<diary, clock>>
  BY DEF TrendsAnswer, KeywordsAnswer, QueryFails, Sign, SignSucceeds, SignFails
<1> QED
  BY <1>1, <1>2, <1>3, <1>4, <1>5, <1>6 DEF Next

LEMMA InitDiaries == Init => DiariesInOrder
<1> SUFFICES ASSUME Init, NEW u \in Users PROVE Dated(diary[u], clock)
  BY DEF DiariesInOrder
<1> DEFINE First == [date: {0}, sentiment: Scores, tags: SUBSET Tags]
<1>1. diary[u] \in Seq(First) /\ clock = 0
  BY FirstDiariesAssumption DEF Init
<1>2. \A r \in First : r.date = 0
  OBVIOUS
<1> HIDE DEF First
<1>3. \A i \in DOMAIN diary[u] : diary[u][i].date = 0
  BY <1>1, <1>2
<1> QED
  BY <1>1, <1>3 DEF Dated

LEMMA DiariesAlways == Spec => [](AccountTypes /\ DiariesInOrder /\ QueryTypes)
<1>1. TypeOK => AccountTypes /\ QueryTypes
  BY TypeParts
<1>2. AccountTypes /\ DiariesInOrder /\ [Next]_vars => DiariesInOrder'
  BY DiariesStep
<1> QED
  BY <1>1, <1>2, InitDiaries, TypeCorrect, PTL DEF Spec

-----------------------------------------------------------------------------
(* The empty chart. *)

\* The chart is drawn of points, or the app has crashed of it.
EmptyChart ==
    /\ crashed => trends = <<>>
    /\ ownerOf["trends"] = NoUser => trends = FirstTrends

\* The trends run dry only by the answer about a week without memories.
OnlyEmptyWeeksAreEmpty ==
    [][trends # <<>> /\ trends' = <<>> =>
           \E q \in queries : q.kind = "trends" /\ InWeek(q) = {}]_vars

LEMMA EmptyChartStep ==
  ASSUME Counters, EmptyChart, [Next]_vars
  PROVE  EmptyChart'
<1> USE DEF EmptyChart
<1>1. CASE UNCHANGED <<crashed, trends, ownerOf>>
  BY <1>1
<1>2. CASE Layout \/ ScrollBack
  BY <1>2 DEF Layout, ScrollBack, DrawChart, dataVars
<1>3. ASSUME NEW q \in queries, TrendsAnswer(q) PROVE EmptyChart'
  <2>1. q.user \in Users /\ ownerOf'["trends"] = q.user
    BY <1>3 DEF TrendsAnswer, Counters, Kinds
  <2>2. ~crashed'
    BY <1>3 DEF TrendsAnswer, Running
  <2> QED
    BY <2>1, <2>2, NoUserAssumption
<1>4. ASSUME NEW q \in queries, KeywordsAnswer(q) PROVE EmptyChart'
  <2>1. ownerOf'["trends"] = ownerOf["trends"] /\ UNCHANGED <<crashed, trends>>
    BY <1>4 DEF KeywordsAnswer, Counters, Kinds
  <2> QED
    BY <2>1
<1>5. CASE Relaunch
  BY <1>5 DEF Relaunch
<1>6. Appear \/ Leave \/ MotionEnded \/ Tick \/ UNCHANGED vars
        => UNCHANGED <<crashed, trends, ownerOf>>
  BY DEF Appear, Leave, MotionEnded, Tick, vars, dataVars
<1>7. /\ \A q \in queries : QueryFails(q) => UNCHANGED <<crashed, trends, ownerOf>>
      /\ \A u \in Users : Sign(u) => UNCHANGED <<crashed, trends, ownerOf>>
      /\ \A r \in signing : SignSucceeds(r) \/ SignFails(r)
                               => UNCHANGED <<crashed, trends, ownerOf>>
      /\ \A score \in Scores, tags \in SUBSET Tags, date \in launched..clock :
             MemoryStored(score, tags, date) => UNCHANGED <<crashed, trends, ownerOf>>
      /\ \A i \in 1..MaxDiary : MemoryDeleted(i) => UNCHANGED <<crashed, trends, ownerOf>>
  BY DEF QueryFails, Sign, SignSucceeds, SignFails, MemoryStored, MemoryDeleted, dataVars
<1> QED
  BY <1>1, <1>2, <1>3, <1>4, <1>5, <1>6, <1>7 DEF Next

(* The chart takes the maximum of its points by force (ChartView.swift): it *)
(* crashes of an empty one only, and never of the points the screen starts  *)
(* with, however long the answers take.                                     *)
THEOREM CrashNeedsAnEmptyChart == Spec => []EmptyChart
<1>1. Init => EmptyChart
  BY DEF Init, EmptyChart
<1>2. Consistent => Counters
  BY DEF Consistent
<1> QED
  BY <1>1, <1>2, EmptyChartStep, ConsistentAlways, PTL DEF Spec

\* An empty window of the diary holds no memory of the week.
LEMMA EmptyWindow ==
  ASSUME AccountTypes, DiariesInOrder, NEW q \in Queries, Sentiments(q) = <<>>
  PROVE  InWeek(q) = {}
<1>1. PICK m \in Int, n \in Int : InWeek(q) = m..n /\ Filtered(q) = SubSeq(diary[q.user], m, n)
  BY FilteredIsTheWeek
<1>2. diary[q.user] \in Seq(Memories) /\ q.user \in Users
  BY DEF AccountTypes, Queries
<1>3. m..n \subseteq 1..Len(diary[q.user]) /\ Len(diary[q.user]) \in Nat
  <2>1. DOMAIN diary[q.user] = 1..Len(diary[q.user]) /\ Len(diary[q.user]) \in Nat
    BY <1>2
  <2>2. InWeek(q) \subseteq DOMAIN diary[q.user]
    BY DEF InWeek
  <2> QED
    BY <1>1, <2>1, <2>2
<1>4. Filtered(q) \in Seq(Memories) /\ DOMAIN Filtered(q) = {}
  <2>1. Filtered(q) \in Seq(Memories)
    BY <1>2, FilteredType
  <2>2. DOMAIN Sentiments(q) = DOMAIN Filtered(q)
    BY DEF Sentiments
  <2> QED
    BY <2>1, <2>2
<1>5. SUFFICES ASSUME m <= n PROVE FALSE
  BY <1>1
<1>6. m \in 1..Len(diary[q.user]) /\ n \in 1..Len(diary[q.user])
  BY <1>3, <1>5
<1>7. Len(SubSeq(diary[q.user], m, n)) = n - m + 1
  BY <1>2, <1>5, <1>6
<1>8. Len(Filtered(q)) = 0
  BY <1>4
<1> QED
  BY <1>1, <1>5, <1>7, <1>8

(* The crash needs a week without memories: an answer leaves the chart no   *)
(* points only if its account had saved none in the week it was about.      *)
THEOREM EmptyChartIsAnEmptyWeek == Spec => OnlyEmptyWeeksAreEmpty
<1> DEFINE Step == trends # <<>> /\ trends' = <<>> =>
                       \E q \in queries : q.kind = "trends" /\ InWeek(q) = {}
<1>1. ASSUME AccountTypes, DiariesInOrder, QueryTypes, [Next]_vars
      PROVE  [Step]_vars
  <2>1. ASSUME NEW q \in queries, TrendsAnswer(q) PROVE Step
    <3>1. trends' = Sentiments(q) /\ q.kind = "trends" /\ q \in Queries
      BY <1>1, <2>1 DEF TrendsAnswer, QueryTypes
    <3> QED
      BY <1>1, <3>1, EmptyWindow
  <2>2. CASE Relaunch
    BY <2>2 DEF Relaunch, FirstTrends
  <2>3. CASE UNCHANGED trends
    BY <2>3
  <2>4. Appear \/ Leave \/ Layout \/ ScrollBack \/ MotionEnded \/ Tick \/ UNCHANGED vars
          => UNCHANGED trends
    BY DEF Appear, Leave, Layout, ScrollBack, MotionEnded, Tick, vars, dataVars
  <2>5. /\ \A q \in queries : KeywordsAnswer(q) \/ QueryFails(q) => UNCHANGED trends
        /\ \A u \in Users : Sign(u) => UNCHANGED trends
        /\ \A r \in signing : SignSucceeds(r) \/ SignFails(r) => UNCHANGED trends
        /\ \A score \in Scores, tags \in SUBSET Tags, date \in launched..clock :
               MemoryStored(score, tags, date) => UNCHANGED trends
        /\ \A i \in 1..MaxDiary : MemoryDeleted(i) => UNCHANGED trends
    BY DEF KeywordsAnswer, QueryFails, Sign, SignSucceeds, SignFails, MemoryStored,
           MemoryDeleted, dataVars
  <2> QED
    BY <1>1, <2>1, <2>2, <2>3, <2>4, <2>5 DEF Next
<1> QED
  BY <1>1, DiariesAlways, PTL DEF Spec, OnlyEmptyWeeksAreEmpty
=============================================================================
