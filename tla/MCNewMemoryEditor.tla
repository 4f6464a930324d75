------------------------- MODULE MCNewMemoryEditor -------------------------
(* Sentences that score 0, 19, 20, 99 and 100: with one or two of them to a *)
(* reply, both ends, two faces' edges and the values beyond the last range; *)
(* three requests, so that two replies can be under way over an enlarged    *)
(* face.                                                                    *)
EXTENDS NewMemoryEditor

MCConfidences == {[positive |-> p, negative |-> 100 - p] : p \in {0, 20, 99, 100}}
                     \cup {[positive |-> 10, negative |-> 71]}
=============================================================================
