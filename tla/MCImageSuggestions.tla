------------------------- MODULE MCImageSuggestions -------------------------
(* Two requests share one serial queue and three photos: a photo for each   *)
(* text and one for both, so that answers differ and two threads append.    *)
EXTENDS ImageSuggestions

CONSTANTS r1, r2, a1, a2, a3, sea, hill, none

MCRequests == {r1, r2}
MCAssets == {a1, a2, a3}
MCWords == {sea, hill}
MCPhrasesOf == [r \in MCRequests |-> IF r = r1 THEN {sea} ELSE {hill, sea}]
MCTagsOf == [a \in MCAssets |-> CASE a = a1 -> {sea}
                                  [] a = a2 -> {sea, hill}
                                  [] OTHER -> {hill}]
=============================================================================
