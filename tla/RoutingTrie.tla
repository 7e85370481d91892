---------------------------- MODULE RoutingTrie ----------------------------
(***************************************************************************)
(* The routing table of the routing elements (src/elements/routing.c): a   *)
(* first table indexed by the first bits of an address and, below it,      *)
(* tables of a few bits each.  A rule is written to every entry its prefix *)
(* covers in the one table where it ends.                                  *)
(*                                                                         *)
(* An entry is named by the indexes that lead to it, <<i>> in the first    *)
(* table, <<i, j>> in the table below it, ...; a table by the entry that   *)
(* points to it.  Addresses are in host order.                             *)
(***************************************************************************)
EXTENDS Integers, Sequences, FiniteSets

CONSTANTS
  AddrBits,   (* 32                                                        *)
  FirstBits,  (* 8: fst_tbl has 2^FirstBits entries                        *)
  HopBits,    (* 4: a table below has 2^HopBits entries                    *)
  LpmBits,    (* 3: width of _routing_tbl_entry_t.lpm                      *)
  PortCount,  (* ELEMENT_MAX_PORT_COUNT                                    *)
  Prefixes,   (* the prefixes a file may list                              *)
  Ports,      (* and the ports                                             *)
  MaxAdds     (* bound: different lines of the file                        *)

(* 2^n, as a recursive function.                                           *)
Pow2[n \in Nat] == IF n = 0 THEN 1 ELSE 2 * Pow2[n - 1]

ASSUME RoutingAssumption ==
  /\ AddrBits \in Nat /\ FirstBits \in 1..AddrBits /\ HopBits \in Nat \ {0} /\ LpmBits \in Nat \ {0}
  /\ (AddrBits - FirstBits) % HopBits = 0
  /\ PortCount \in Nat \ {0} /\ Ports \subseteq Nat /\ MaxAdds \in Nat
  /\ \A p \in Prefixes :
       /\ p.mask \in 0..AddrBits /\ p.ipv4 \in 0..(Pow2[AddrBits] - 1)
       /\ p.ipv4 % Pow2[AddrBits - p.mask] = 0

(* lpm holds the masks below FirstBits, and all within a table below.      *)
ASSUME LpmAssumption == FirstBits <= Pow2[LpmBits] /\ HopBits < Pow2[LpmBits]

VARIABLES
  rules,   (* entry -> [port, lpm], for the entries with port_valid set    *)
  tables,  (* the entries with tbl_valid set                               *)
  added    (* history: the [prefix, port] added so far                     *)

vars == <<rules, tables, added>>

Levels == 1 + (AddrBits - FirstBits) \div HopBits
Addresses == 0..(Pow2[AddrBits] - 1)

Init == rules = <<>> /\ tables = {} /\ added = {}

----------------------------------------------------------------------------
(* Bits of ipv4 left below the table at depth d (0 is the first).          *)
Remaining(d) == AddrBits - FirstBits - d * HopBits

(* ipv4 >> Remaining(d), after the bits above have been masked off.        *)
Chunk(ipv4, d) ==
  (IF d = 0 THEN ipv4 ELSE ipv4 % Pow2[Remaining(d - 1)]) \div Pow2[Remaining(d)]

(* The entry that a walk along ipv4 visits at depth d.                     *)
Entry(ipv4, d) == [j \in 1..(d + 1) |-> Chunk(ipv4, j - 1)]

(* Mutant: the loop makes one turn more.                                   *)
OneTooMany(bits, mask) == Pow2[bits - mask] + 1

(* How many entries of a table a prefix covers that leaves "mask" of the   *)
(* "bits" that index it.                                                   *)
Span(bits, mask) == Pow2[bits - mask]

(* Mutant: a rule always replaces the one that was there.                  *)
AlwaysReplaces(loc, mask) == TRUE

(* The entry has no port yet, or that of a shorter prefix.                 *)
Replaces(loc, mask) == loc \notin DOMAIN rules \/ rules[loc].lpm < mask

(* The loop that writes a rule to consecutive entries of one table; lpm is *)
(* a bit field, and the port is masked.                                    *)
Fill(tbl, index, bits, mask, port) ==
  LET locs == {Append(tbl, index + i) : i \in 0..(Span(bits, mask) - 1)}
      rule == [port |-> port % PortCount, lpm |-> mask % Pow2[LpmBits]]
  IN rules' = [loc \in DOMAIN rules \union locs |->
                 IF loc \in locs /\ Replaces(loc, mask) THEN rule ELSE rules[loc]]

(* routing_entry_add, for the first table.  The index has as many bits as  *)
(* the mask; with no bits the code shifts by 32, which leaves ipv4, 0.     *)
AddShort(p, port) ==
  /\ p.mask <= FirstBits
  /\ Fill(<<>>, p.ipv4 \div Pow2[AddrBits - p.mask], FirstBits, p.mask, port)
  /\ UNCHANGED tables

(* Mutant: only the last entry on the way is marked as having a table.     *)
OnlyLast(ipv4, d) == {Entry(ipv4, d)}

(* The entries that get a table on the way to the one at depth d.          *)
Opened(ipv4, d) == {Entry(ipv4, j) : j \in 0..d}

(* ... and for those below: d entries are passed in the loop.  The last    *)
(* index is taken from what the loop left of ipv4, with a shift it has     *)
(* already consumed.                                                       *)
AddLong(p, port) ==
  LET d == (p.mask - FirstBits - 1) \div HopBits
      left == p.ipv4 % Pow2[Remaining(d)]
  IN /\ p.mask > FirstBits
     /\ tables' = tables \union Opened(p.ipv4, d)
     /\ Fill(Entry(p.ipv4, d), left \div Pow2[Remaining(d)], HopBits,
             p.mask - FirstBits - d * HopBits, port)

(* A line of the file.                                                     *)
RoutingEntryAdd(p, port) ==
  /\ [prefix |-> p, port |-> port] \in added \/ Cardinality(added) < MaxAdds
  /\ AddShort(p, port) \/ AddLong(p, port)
  /\ added' = added \union {[prefix |-> p, port |-> port]}

(* The depths at which a walk along ipv4 comes to an entry with a port.    *)
Hits(ipv4) ==
  {d \in 0..(Levels - 1) : /\ \A j \in 0..(d - 1) : Entry(ipv4, j) \in tables
                           /\ Entry(ipv4, d) \in DOMAIN rules}

(* Mutant: the walk keeps the first port it comes to.                      *)
FirstHit(ipv4) ==
  {rules[Entry(ipv4, d)].port : d \in {d \in Hits(ipv4) : \A e \in Hits(ipv4) : e >= d}}

(* routing_entry_find: the last port on the walk, {} if there is none.     *)
RoutingEntryFind(ipv4) ==
  {rules[Entry(ipv4, d)].port : d \in {d \in Hits(ipv4) : \A e \in Hits(ipv4) : e <= d}}

Next == \E p \in Prefixes, port \in Ports : RoutingEntryAdd(p, port)

Spec == Init /\ [][Next]_vars

----------------------------------------------------------------------------
(* Reference: longest prefix match over the rules added.                   *)

Matches(p, ipv4) == ipv4 \div Pow2[AddrBits - p.mask] = p.ipv4 \div Pow2[AddrBits - p.mask]

(* The ports that may be found: a prefix may have been added with several. *)
Longest(ipv4) ==
  LET match == {r \in added : Matches(r.prefix, ipv4)}
  IN {r.port % PortCount : r \in {r \in match : \A q \in match : q.prefix.mask <= r.prefix.mask}}

(* The walk finds a route if there is one, and one of the longest prefix.  *)
Right(ipv4) ==
  /\ RoutingEntryFind(ipv4) \subseteq Longest(ipv4)
  /\ RoutingEntryFind(ipv4) = {} => Longest(ipv4) = {}

(* The index of the table a prefix ends in, or what should be its index.   *)
EndsAt(p) ==
  IF p.mask <= FirstBits THEN Chunk(p.ipv4, 0)
  ELSE Chunk(p.ipv4, 1 + (p.mask - FirstBits - 1) \div HopBits)

(* Prefixes that the code puts where a walk finds them: those of exactly   *)
(* FirstBits, and those that end at the first entry of a table.            *)
WellPlaced(p) == p.mask = FirstBits \/ EndsAt(p) = 0

AllWellPlaced == \A r \in added : WellPlaced(r.prefix)

(* The mask FirstBits, 8, does not fit lpm and is recorded as 0.           *)
LpmWraps ==
  \E r, q \in added : r.prefix.mask = FirstBits /\ q.prefix.mask \in 1..(FirstBits - 1)

----------------------------------------------------------------------------
(* Properties.                                                             *)

(* Types.  No index leaves its table, although that of a short prefix is   *)
(* not scaled to the table, and no table hangs below the last bits of an   *)
(* address, where a walk would shift by less than nothing.                 *)
TypeOK ==
  /\ \A loc \in DOMAIN rules :
       /\ Len(loc) \in 1..Levels
       /\ \A j \in 1..Len(loc) : loc[j] \in 0..(Pow2[IF j = 1 THEN FirstBits ELSE HopBits] - 1)
       /\ rules[loc] \in [port : 0..(PortCount - 1), lpm : 0..(Pow2[LpmBits] - 1)]
  /\ \A loc \in tables : Len(loc) \in 1..(Levels - 1)

(* Whatever is added, in whatever order, no rule and no table is cut off   *)
(* from the first table: walks and routing_release reach all of them.      *)
Connected ==
  \A loc \in DOMAIN rules \union tables : \A j \in 1..(Len(loc) - 1) : SubSeq(loc, 1, j) \in tables

(* Rules that end where the code expects them give the longest prefix      *)
(* match, in every order of adding them and with every overlap.            *)
LongestMatchIfPlaced ==
  AllWellPlaced /\ ~LpmWraps => \A ipv4 \in Addresses : Right(ipv4)

(* routing.c:132, "find the correct entry to push the rule into": an       *)
(* address with a rule longer than the first table finds some route.       *)
LongRuleFound ==
  \A r \in added : r.prefix.mask > FirstBits =>
    \A ipv4 \in Addresses : Matches(r.prefix, ipv4) => RoutingEntryFind(ipv4) # {}

(* routing.c:114, the port is replaced if "the longest prefix match is     *)
(* smaller than this one": among well placed rules the longest wins.       *)
LongestWins == AllWellPlaced => \A ipv4 \in Addresses : Right(ipv4)

=============================================================================
