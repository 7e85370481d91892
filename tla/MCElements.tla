----------------------------- MODULE MCElements -----------------------------
(* Three flows.  The hashes of a and c fall into the last of four buckets. *)
(* Bytes have one bit, so that a word has eight and the sums carry.        *)
EXTENDS Elements

MCHash == [a |-> 3, b |-> 5, c |-> 7]

MCContent ==
  [a |-> [mem |-> <<1, 1, 1, 1, 1, 1, 1, 1, 0, 1, 1>>, size |-> 11],
   b |-> [mem |-> <<0, 0, 0, 0, 0, 0, 0, 0>>, size |-> 8],
   c |-> [mem |-> <<1, 0, 1>>, size |-> 3]]

MCRuleSets == {[a |-> 0, b |-> 0, c |-> None], [a |-> 1, b |-> 0, c |-> 2]}

(* Zeroed by chance, and with leftovers in the last bucket and before it.  *)
MCGarbage == {[b \in 0..3 |-> 0], [b \in 0..3 |-> IF b = 0 THEN 0 ELSE 4 - b]}

MCKinds == Measurements \union Routings \union Checksums \union Mergeds \union Others
=============================================================================
