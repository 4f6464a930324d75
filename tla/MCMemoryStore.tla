--------------------------- MODULE MCMemoryStore ---------------------------
(* Two accounts and two documents: enough for a document that another      *)
(* account can reach, and for one that goes through every stage while the  *)
(* other stays put.                                                        *)
EXTENDS MemoryStore

CONSTANTS alice, bob, d1, d2, nobody

MCUsers == {alice, bob}
MCDocIDs == {d1, d2}

=============================================================================
