------------------------------ MODULE Elements ------------------------------
(***************************************************************************)
(* What the elements compute: measurement, routing and checksum, each in   *)
(* its naive, batching, bp, bpp and prefetching form, the merged elements  *)
(* that do all three, and fastpass.  The repository compares the speed of  *)
(* these forms, which only means something if they do the same work.       *)
(*                                                                         *)
(* One element is given batches that are cut in any way.  A packet is its  *)
(* flow; its hash, the entry that its destination finds and its bytes are  *)
(* functions of the flow.  A flow finds an entry of its own.               *)
(* What is stored behind the end of hashes is taken to be kept (see        *)
(* PrefetchLoop).                                                          *)
(***************************************************************************)
EXTENDS Checksum, FiniteSets

CONSTANTS
  Flows,      (* the flows of the traffic                                  *)
  FastFlow,   (* the flow with the signature of the fastpass               *)
  Hash,       (* util_hash_ret, by flow                                    *)
  Content,    (* bytes and size of a packet, by flow                       *)
  RuleSets,   (* the ports of the entries found, by flow; None without one *)
  None,
  TblSize,    (* buckets asked of resize                                   *)
  Garbage,    (* tables as the allocator hands them out                    *)
  Half,       (* MM_SIZE_HALF, MPO_SIZE_HALF, MPF_SIZE_HALF: 8             *)
  MergedHalf, (* MP_SIZE_HALF: 16                                          *)
  MaxTmp,     (* length of tmp: 256                                        *)
  Wrap,       (* 2^32: buckets and entries count in uint32_t               *)
  Kinds,      (* elements of the run: see Elements                         *)
  MaxBatch,   (* bound: packets of a batch                                 *)
  MaxPkts     (* bound: packets in all                                     *)

Measurements == {"naive_measurement", "batching_measurement", "bp_measurement",
                 "bpp_measurement", "measurement", "measurement_no_prefetching"}
Routings  == {"naive_routing", "batching_routing", "bp_routing", "bpp_routing", "routing"}
Checksums == {"naive_checksum", "batching_checksum", "bp_checksum", "bpp_checksum", "checksum"}
Mergeds   == {"merged", "merged_opt", "merged_fastpass"}
Naives    == {"naive_measurement", "naive_routing", "naive_checksum"}
Others    == {"fastpass", "identity"}

ASSUME KindsAssumption ==
  Kinds \subseteq Measurements \union Routings \union Checksums \union Mergeds \union Others

ASSUME ElementsAssumption ==
  /\ IsFiniteSet(Flows) /\ FastFlow \in Flows /\ Hash \in [Flows -> Nat]
  /\ RuleSets \subseteq [Flows -> 0..3 \union {None}] /\ None \notin 0..3
  /\ TblSize \in Nat \ {0} /\ Half \in Nat \ {0} /\ MergedHalf \in Nat \ {0}
  /\ Wrap \in Nat \ {0} /\ MaxPkts \in Nat

(* A packet has its bytes, and what is read behind them, in memory.        *)
ASSUME ContentAssumption ==
  \A f \in Flows :
    /\ Content[f].size \in Nat
    /\ \A k \in 1..BytesRead(Content[f].size) : Content[f].mem[k] \in 0..(Byte - 1)

(* A batch larger than tmp would be written behind it; builds stay below.  *)
ASSUME TmpAssumption == MaxBatch \in 0..MaxTmp

VARIABLES
  kind, rules, (* the element, and what its table has been loaded with     *)
  base,        (* tbl when the first batch arrives                         *)
  el,          (* the counters of the element: see Counters                *)
  out,         (* packets dispatched, by port                              *)
  status,      (* "running", "crashed" or "released"                       *)
  total,       (* the count printed at release                             *)
  given        (* history: packets given                                   *)

vars == <<kind, rules, base, el, out, status, total, given>>

(* ge_pow2_64.                                                             *)
GePow2(n) == CHOOSE p \in {Pow(2, k) : k \in 0..n} : p >= n /\ p < 2 * n

Buckets == 0..(GePow2(TblSize) - 1)

ASSUME GarbageAssumption == Garbage \subseteq [Buckets -> 0..(Wrap - 1)]

NoRules == [f \in Flows |-> None]

(* tbl; ent->count by flow; port_count of the merged elements; the sum of  *)
(* checksums; packets of the fast flow and others that were told apart.    *)
Counters ==
  [tbl : [Buckets -> 0..(Wrap - 1)], hits : [Flows -> 0..(Wrap - 1)],
   ports : Nat, sum : Nat, fast : Nat, slow : Nat]

(* The tables that measurement_resize allocates are not zeroed, those of   *)
(* the merged elements are.                                                *)
Init ==
  /\ kind \in Kinds
  /\ rules \in IF kind \in Routings \union Mergeds THEN RuleSets ELSE {NoRules}
  /\ base \in IF kind \in Measurements THEN Garbage ELSE {[b \in Buckets |-> 0]}
  /\ el = [tbl |-> base, hits |-> [f \in Flows |-> 0], ports |-> 0, sum |-> 0, fast |-> 0, slow |-> 0]
  /\ out = [port \in 0..3 |-> <<>>]
  /\ status = "running" /\ total = 0 /\ given = <<>>

----------------------------------------------------------------------------
(* Measurement.                                                            *)

(* out & (tbl_size - 1), of a size that is a power of two.                 *)
Bucket(f) == Hash[f] % GePow2(TblSize)

(* Mutant: a counter wider than the table it counts in.                    *)
BumpWide(tbl, b) == [tbl EXCEPT ![b] = @ + 1]

Bump(tbl, b) == [tbl EXCEPT ![b] = (@ + 1) % Wrap]

BumpFlow(tbl, f) == Bump(tbl, Bucket(f))

(* What an element makes of a batch: its counters, and what it dispatches. *)
Result(e, port, pkts) == [el |-> e, sent |-> << [port |-> port, pkts |-> pkts] >>]

naive_measurement_process(e, pkts) ==
  Result([e EXCEPT !.tbl = BumpFlow(@, pkts[1])], 0, <<pkts[1]>>)

batching_measurement_process(e, pkts) ==
  Result([e EXCEPT !.tbl = FoldLeft(BumpFlow, @, pkts)], 0, pkts)

(* Two loops: the first leaves the buckets in tmp, the second counts.      *)
bp_measurement_process(e, pkts) ==
  LET tmp == [i \in 1..Len(pkts) |-> Bucket(pkts[i])]
  IN Result([e EXCEPT !.tbl = FoldLeft(Bump, @, tmp)], 0, pkts)

(* The same behind a loop that prefetches the headers.                     *)
bpp_measurement_process(e, pkts) ==
  LET tmp == [i \in 1..Len(pkts) |-> Bucket(pkts[i])]
  IN Result([e EXCEPT !.tbl = FoldLeft(Bump, @, tmp)], 0, pkts)

measurement_process_no_prefetching(e, pkts) == batching_measurement_process(e, pkts)

(* Mutant: the loop takes one turn too few, and what is left begins behind *)
(* the turn that was not taken.                                            *)
GroupsSkipOne(pkts, half) ==
  LET turns == IF Len(pkts) <= half THEN 0 ELSE (Len(pkts) - half - 1) \div half
  IN [g \in 1..(turns + 1) |->
        IF g <= turns THEN SubSeq(pkts, (g - 1) * half + 1, g * half)
        ELSE SubSeq(pkts, (turns + 1) * half + 1, Len(pkts))]

(* The groups that the loop of PrefetchLoop executes at once: full halves, *)
(* and behind the loop up to two of them.                                  *)
Groups(pkts, half) ==
  LET turns == IF Len(pkts) <= half THEN 0 ELSE (Len(pkts) - half - 1) \div half
  IN [g \in 1..(turns + 1) |->
        SubSeq(pkts, (g - 1) * half + 1, IF g <= turns THEN g * half ELSE Len(pkts))]

(* Each group leaves its buckets in hashes and is counted from there.      *)
CountGroup(tbl, group) ==
  LET hashes == [j \in 1..Len(group) |-> Bucket(group[j])] IN FoldLeft(Bump, tbl, hashes)

measurement_process_prefetching(e, pkts) ==
  Result([e EXCEPT !.tbl = FoldLeft(CountGroup, @, Groups(pkts, Half))], 0, pkts)

----------------------------------------------------------------------------
(* Routing.                                                                *)

(* What is done with the entry that routing_entry_find returns, if any.    *)
RouteOne(e, f) ==
  IF rules[f] = None THEN e
  ELSE [e EXCEPT !.hits[f] = (@ + 1) % Wrap, !.ports = @ + rules[f]]

(* Mutant: port_count is kept from one batch to the next.                  *)
RouteBatchKeepsPort(e, pkts) ==
  LET r == FoldLeft(RouteOne, e, pkts) IN Result(r, r.ports, pkts)

(* port_count starts at 0 for each batch, and is the port in the end.      *)
RouteBatch(e, pkts) ==
  LET r == FoldLeft(RouteOne, [e EXCEPT !.ports = 0], pkts)
  IN Result([r EXCEPT !.ports = 0], r.ports, pkts)

naive_routing_process(e, pkts) == RouteBatch(e, <<pkts[1]>>)

batching_routing_process(e, pkts) == RouteBatch(e, pkts)

bp_routing_process(e, pkts) == RouteBatch(e, pkts)

bpp_routing_process(e, pkts) == RouteBatch(e, pkts)

routing_process(e, pkts) == RouteBatch(e, pkts)

----------------------------------------------------------------------------
(* Checksum.                                                               *)

Checksum16 == [f \in Flows |-> checksum(Content[f].mem, Content[f].size)]

SumOne(e, f) == [e EXCEPT !.sum = @ + Checksum16[f]]

naive_checksum_process(e, pkts) == Result(SumOne(e, pkts[1]), 0, <<pkts[1]>>)

batching_checksum_process(e, pkts) == Result(FoldLeft(SumOne, e, pkts), 0, pkts)

bp_checksum_process(e, pkts) == Result(FoldLeft(SumOne, e, pkts), 0, pkts)

bpp_checksum_process(e, pkts) == Result(FoldLeft(SumOne, e, pkts), 0, pkts)

checksum_process(e, pkts) == Result(FoldLeft(SumOne, e, pkts), 0, pkts)

----------------------------------------------------------------------------
(* All three at once, and the fast path.                                   *)

(* Packets are gathered one behind the other, in the order of the batch.   *)
Only(pkts, flows) ==
  FoldLeft(LAMBDA s, f : IF f \in flows THEN Append(s, f) ELSE s, <<>>, pkts)

(* is_fast.                                                                *)
FastFlows == {FastFlow}
SlowFlows == Flows \ FastFlows

MergedGroup(e, group) ==
  LET r == FoldLeft(SumOne, FoldLeft(RouteOne, e, group), group)
  IN [r EXCEPT !.tbl = CountGroup(@, group)]

merged_process(e, pkts) ==
  Result(FoldLeft(MergedGroup, e, Groups(pkts, MergedHalf)), 0, pkts)

merged_opt_process(e, pkts) ==
  Result(FoldLeft(MergedGroup, e, Groups(pkts, Half)), 0, pkts)

(* Every packet is summed; those that are not fast are gathered in slow,   *)
(* routed and counted.                                                     *)
FastpassGroup(e, group) ==
  LET slow == Only(group, SlowFlows)
      r == FoldLeft(RouteOne, FoldLeft(SumOne, e, group), slow)
  IN [r EXCEPT !.tbl = CountGroup(@, slow), !.slow = @ + Len(slow),
               !.fast = @ + Len(group) - Len(slow)]

merged_fastpass_process(e, pkts) ==
  Result(FoldLeft(FastpassGroup, e, Groups(pkts, Half)), 0, pkts)

(* Fast packets leave on port 1 before the slow ones leave on port 0, each *)
(* batch even when it is empty.  Its checksum_count is a uint32_t, and its *)
(* port stays 0, which is all that is ever added to it.                    *)
fastpass_process(e, pkts) ==
  LET fast == Only(pkts, FastFlows)
      slow == Only(pkts, SlowFlows)
      r == FoldLeft(SumOne, e, pkts)
  IN [el |-> [r EXCEPT !.fast = (@ + Len(fast)) % Wrap, !.sum = @ % Wrap],
      sent |-> << [port |-> 1, pkts |-> fast], [port |-> 0, pkts |-> slow] >>]

identity_process(e, pkts) == Result(e, 0, pkts)

----------------------------------------------------------------------------
(* ele->process.                                                           *)
Processed(e, pkts) ==
  CASE kind = "naive_measurement"    -> naive_measurement_process(e, pkts)
    [] kind = "batching_measurement" -> batching_measurement_process(e, pkts)
    [] kind = "bp_measurement"       -> bp_measurement_process(e, pkts)
    [] kind = "bpp_measurement"      -> bpp_measurement_process(e, pkts)
    [] kind = "measurement"          -> measurement_process_prefetching(e, pkts)
    [] kind = "measurement_no_prefetching" -> measurement_process_no_prefetching(e, pkts)
    [] kind = "naive_routing"        -> naive_routing_process(e, pkts)
    [] kind = "batching_routing"     -> batching_routing_process(e, pkts)
    [] kind = "bp_routing"           -> bp_routing_process(e, pkts)
    [] kind = "bpp_routing"          -> bpp_routing_process(e, pkts)
    [] kind = "routing"              -> routing_process(e, pkts)
    [] kind = "naive_checksum"       -> naive_checksum_process(e, pkts)
    [] kind = "batching_checksum"    -> batching_checksum_process(e, pkts)
    [] kind = "bp_checksum"          -> bp_checksum_process(e, pkts)
    [] kind = "bpp_checksum"         -> bpp_checksum_process(e, pkts)
    [] kind = "checksum"             -> checksum_process(e, pkts)
    [] kind = "merged"               -> merged_process(e, pkts)
    [] kind = "merged_opt"           -> merged_opt_process(e, pkts)
    [] kind = "merged_fastpass"      -> merged_fastpass_process(e, pkts)
    [] kind = "fastpass"             -> fastpass_process(e, pkts)
    [] kind = "identity"             -> identity_process(e, pkts)

(* A batch of any packets.  The naive elements read one packet whatever    *)
(* the size and are only run on batches of one (paper-benchmarks.sh).      *)
(* Ports 0 and 1 lead somewhere; to dispatch on another one is a call      *)
(* through a null pointer, or through whatever lies behind ports.          *)
Batch(pkts) ==
  /\ status = "running" /\ Len(given) + Len(pkts) <= MaxPkts
  /\ kind \in Naives => Len(pkts) = 1
  /\ LET r == Processed(el, pkts) IN
     /\ el' = r.el
     /\ IF \E k \in 1..Len(r.sent) : r.sent[k].port > 1
        THEN status' = "crashed" /\ UNCHANGED out
        ELSE /\ out' = [port \in DOMAIN out |->
                 FoldLeft(LAMBDA s, b : IF b.port = port THEN s \o b.pkts ELSE s, out[port], r.sent)]
             /\ UNCHANGED status
  /\ given' = given \o pkts
  /\ UNCHANGED <<kind, rules, base, total>>

(* Sum of the buckets of B.                                                *)
SumOf(tbl, B) == MapThenSumSet(LAMBDA b : tbl[b], B)

(* Mutant: the loop goes to the last bucket.                               *)
AllBuckets == Buckets

(* i < tbl_size - 1: the loop of measurement_release leaves one out.       *)
MeasurementBuckets == {b \in Buckets : b < GePow2(TblSize) - 1}

(* The releases that print a count add up the table first.                 *)
Release ==
  /\ status = "running"
  /\ status' = "released"
  /\ total' = IF kind \in Measurements THEN SumOf(el.tbl, MeasurementBuckets)
              ELSE IF kind \in Mergeds THEN SumOf(el.tbl, Buckets)
              ELSE el.fast
  /\ UNCHANGED <<kind, rules, base, el, out, given>>

Next == Release \/ \E n \in 0..MaxBatch : \E pkts \in [1..n -> Flows] : Batch(pkts)

Spec == Init /\ [][Next]_vars

----------------------------------------------------------------------------
(* Properties.                                                             *)

(* Types.                                                                  *)
TypeOK ==
  /\ kind \in Kinds /\ rules \in RuleSets \union {NoRules} /\ el \in Counters
  /\ out \in [0..3 -> Seq(Flows)] /\ given \in Seq(Flows)
  /\ status \in {"running", "crashed", "released"} /\ total \in Nat

(* The packets that are counted and routed; how often a flow is, and how   *)
(* often any flow of a bucket.                                             *)
Counted == IF kind = "merged_fastpass" THEN Only(given, SlowFlows) ELSE given
Times(s, f) == Cardinality({i \in 1..Len(s) : s[i] = f})
InBucket(s, b) == Cardinality({i \in 1..Len(s) : Bucket(s[i]) = b})

Measures == kind \in Measurements \union Mergeds
Routes   == kind \in Routings \union Mergeds
Sums     == kind \in Checksums \union Mergeds \union {"fastpass"}

(* Every form of an element does the work of every other one: however the  *)
(* packets are cut into batches and the batches into groups, each packet   *)
(* is counted once in the bucket of its hash and once at the entry it      *)
(* finds; with a fast path each packet goes one way.                       *)
SameWork ==
  /\ Measures => \A b \in Buckets :
       el.tbl[b] = (base[b] + InBucket(Counted, b)) % Wrap
  /\ Routes => \A f \in Flows :
       el.hits[f] = IF rules[f] = None THEN 0 ELSE Times(Counted, f) % Wrap
  /\ kind = "merged_fastpass" => el.fast + el.slow = Len(given) /\ el.slow = Len(Counted)

(* Every packet is summed once, and its checksum is the one's complement   *)
(* sum of its bytes (ChecksumRight, over all buffers of these lengths).    *)
SumsRight ==
  /\ kind = "checksum" /\ given = <<>> => ChecksumRight
  /\ Sums => LET sum == SumOf([f \in Flows |-> Times(given, f) * Checksum16[f]], Flows)
             IN el.sum = IF kind = "fastpass" THEN sum % Wrap ELSE sum

(* All packets leave in their order, on port 0; on port 1 those of the     *)
(* fast path, and those of naive_routing whose rule names it.  The other   *)
(* routing elements send a whole batch to the sum of its ports.  So no     *)
(* packet of port 1 is ever left on port 0, but those of port 0 go with    *)
(* it; a packet of a farther port always takes its batch out of the ports  *)
(* of the element, and nothing else does but a second packet of port 1.    *)
PassedOn ==
  LET Port(f) == IF rules[f] = None THEN 0 ELSE rules[f]
      One == {f \in Flows : Port(f) = 1}
      Far == {f \in Flows : Port(f) > 1}
  IN
  CASE kind = "fastpass" ->
         out[0] = Only(given, SlowFlows) /\ out[1] = Only(given, FastFlows)
    [] kind = "naive_routing" ->
         out[1] = Only(given, One) /\ (status = "crashed" <=> Only(given, Far) # <<>>)
    [] kind \in Routings \ {"naive_routing"} ->
         IF status = "crashed"
         THEN Only(given, Far) # <<>> \/ Len(Only(given, One)) > 1
         ELSE /\ Only(given, Far) = <<>>
              /\ Only(out[0], One) = <<>> /\ Only(out[1], One) = Only(given, One)
              /\ Len(out[0]) + Len(out[1]) = Len(given)
              /\ Only(given, One) = <<>> => out[0] = given
    [] OTHER -> out[0] = given

(* The count printed at release is that of the packets that went through   *)
(* the table (and of what the table held before, which nobody zeroed),     *)
(* without those of the last bucket in the case of a measurement element.  *)
TotalReported ==
  status = "released" /\ Measures =>
    LET last == GePow2(TblSize) - 1
        missed == IF kind \in Measurements THEN el.tbl[last] ELSE 0
    IN (total + missed) % Wrap = (SumOf(base, Buckets) + Len(Counted)) % Wrap

=============================================================================
