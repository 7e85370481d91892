--------------------------- MODULE MCPrefetchLoop ---------------------------
(* Halves of 3 and batches of up to more than three of them, so that every *)
(* remainder comes after no turn, one and several.                         *)
EXTENDS PrefetchLoop

MCSizes == 0..11
=============================================================================
