-------------------------- MODULE MCMemoriesTable --------------------------
(* Two saves are enough for one to overlap the other, and for a list with a *)
(* row to swipe while the next save is on its way.                          *)
EXTENDS MemoriesTable, TLC

CONSTANTS alice, bob, d1, d2, nobody

OneUser == {alice}
TwoUsers == {alice, bob}
TwoDocs == {d1, d2}
NoPictures == {FALSE}

Symmetry == Permutations(Users) \cup Permutations(DocIDs)
=============================================================================
