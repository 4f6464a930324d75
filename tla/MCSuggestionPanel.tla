------------------------- MODULE MCSuggestionPanel -------------------------
(* Three texts over three photos and two slots: a text with more photos     *)
(* than slots, one with a single photo, and one with none; an older answer  *)
(* can come after one or two newer ones.                                    *)
EXTENDS SuggestionPanel

CONSTANTS long, short, dull, p1, p2, p3

MCRequests == {long, short, dull}
MCAssets == {p1, p2, p3}
MCWords == {"lake", "cat"}
MCPhrasesOf == [r \in MCRequests |-> CASE r = long -> {"lake", "cat"} [] r = short -> {"cat"}
                                       [] r = dull -> {}]
MCTagsOf == [a \in MCAssets |-> IF a = p1 THEN {"cat"} ELSE {"lake"}]
=============================================================================
