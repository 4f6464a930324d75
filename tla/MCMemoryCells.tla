--------------------------- MODULE MCMemoryCells ---------------------------
(* Two cells for two documents, one of them with a picture, and three calls: *)
(* each cell can be used again for either document.                          *)
EXTENDS MemoryCells

CONSTANTS c1, c2, d1, d2, none

TwoCells == {c1, c2}
TwoDocs == {d1, d2}
MCPictured == {d1}
=============================================================================
