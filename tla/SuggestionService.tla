------------------------- MODULE SuggestionService -------------------------
(***************************************************************************)
(* What ImageSuggestionProvider.relevantImage promises its caller: each    *)
(* request is answered, once, with photos that have a tag in common with   *)
(* the key phrases of its text - unless the app dies first, as it does of  *)
(* some of the replies the provider gets.                                  *)
(***************************************************************************)
CONSTANTS
    Requests,   \* calls of relevantImage
    Assets,     \* photos of the library
    Words,
    PhrasesOf,  \* the key phrases Azure finds in the text of a request
    TagsOf      \* the tags Azure gives a photo

\* PhrasesOf \in [Requests -> SUBSET Words], TagsOf \in [Assets -> SUBSET Words]

VARIABLES
    status,     \* how far each request has come
    answer,     \* the photos given to its callback
    died        \* the app is gone, and its requests with it

vars == <<status, answer, died>>

\* keyPhrases.intersection(tags) is not empty
Relevant(r, a) == PhrasesOf[r] \cap TagsOf[a] # {}

Init ==
    /\ status = [r \in Requests |-> "new"]
    /\ answer = [r \in Requests |-> {}]
    /\ died = FALSE

Ask(r) ==
    /\ ~died
    /\ status[r] = "new"
    /\ status' = [status EXCEPT ![r] = "asked"]
    /\ UNCHANGED <<answer, died>>

Answer(r) ==
    /\ ~died
    /\ status[r] = "asked"
    /\ status' = [status EXCEPT ![r] = "answered"]
    /\ \E S \in SUBSET {a \in Assets : Relevant(r, a)} : answer' = [answer EXCEPT ![r] = S]
    /\ UNCHANGED died

Die ==
    /\ ~died
    /\ died' = TRUE
    /\ UNCHANGED <<status, answer>>

Next == (\E r \in Requests : Ask(r) \/ Answer(r)) \/ Die

Spec == Init /\ [][Next]_vars
FairSpec == Spec /\ \A r \in Requests : WF_vars(Answer(r))
=============================================================================
