---------------------------- MODULE MCHomeScreen ----------------------------
(* A tick of the clock is a week.  Two new accounts, whose memories turn   *)
(* the mood of the first trends, with a key phrase or without.             *)
EXTENDS HomeScreen, TLC

CONSTANTS alice, bob, nobody, walk

TwoUsers == {alice, bob}
MCScores == {60}
MCTags == {walk}
NewDiaries == {<<>>}

Symmetry == Permutations(Users)
=============================================================================
