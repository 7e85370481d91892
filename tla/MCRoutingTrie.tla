--------------------------- MODULE MCRoutingTrie ---------------------------
(* The 8-4-4-... trie scaled to 4-2-2: as in the code the width of the     *)
(* first table is the first mask that lpm cannot hold.                     *)
EXTENDS RoutingTrie

Prefix(ipv4, mask) == [ipv4 |-> ipv4, mask |-> mask]

(* The default route and prefixes of the first table, at its ends.         *)
ShortPrefixes == {Prefix(0, 0), Prefix(0, 2), Prefix(128, 2), Prefix(80, 4), Prefix(240, 4)}

(* Below entry 5 of the first table: with and without a turn of the loop,  *)
(* at the first entry of the last table and at others.                     *)
LongPrefixes ==
  {Prefix(80, 5), Prefix(88, 5), Prefix(80, 6), Prefix(84, 7), Prefix(84, 8), Prefix(87, 8)}

MCPrefixes == ShortPrefixes \union LongPrefixes \union {Prefix(0, 4), Prefix(4, 6)}
MCPorts == {1, 6}
=============================================================================
