---------------------------- MODULE PrefetchLoop ----------------------------
(***************************************************************************)
(* The loop by which fastpass, measurement, merged, merged_opt and         *)
(* merged_fastpass go over a batch: while half of a window of packets is   *)
(* executed, the other half is fetched, and what is left at the end is     *)
(* executed from the batch itself.                                         *)
(*                                                                         *)
(* A packet is named by its place in the batch, 0 .. size - 1; a larger    *)
(* number is what lies behind the batch, -1 what nobody wrote.  hashes is  *)
(* taken to keep what is stored behind its end, over the window that the   *)
(* last part of the loop does not use any more.                            *)
(***************************************************************************)
EXTENDS Integers, Sequences, FiniteSets

CONSTANTS
  HalfWindow, (* MM_SIZE_HALF and its likes: 8                             *)
  MaxFast,    (* MAX_FASTPASS_PACKETS: length of fast and slow             *)
  Variants,   (* elements of the run: see Looping                          *)
  Sizes       (* bound: sizes of a batch                                   *)

(* hashing: measurement, merged and merged_opt.  The names of this module  *)
(* are its own, so that ElementsProofs can speak of the loop beside the    *)
(* elements.                                                               *)
Looping == {"hashing", "fastpass", "merged_fastpass"}

ASSUME HalfAssumption == HalfWindow \in Nat \ {0} /\ Variants \subseteq Looping

(* The batch size is set by the build, MAX_FASTPASS_PACKETS is 256.        *)
ASSUME FastpassAssumption == MaxFast \in Nat /\ Sizes \subseteq 0..MaxFast

VARIABLES
  variant, size, (* the element, the batch                                 *)
  isFast,     (* packets of the fast flow                                  *)
  pc,         (* where the element stands                                  *)
  fetched,    (* i: the first packet not fetched                           *)
  window,     (* p: the window                                             *)
  prefetched, (* packets prefetched                                        *)
  todo,       (* what is left of the group that is being executed          *)
  executed,   (* packets executed, in order                                *)
  hashed,     (* most entries of hashes in use at once                     *)
  split,      (* fast and slow of fastpass, with their lengths             *)
  dispatched  (* batches dispatched, by port                               *)

loopVars == <<variant, size, isFast, pc, fetched, window, prefetched, todo, executed,
              hashed, split, dispatched>>

MaxOf(a, b) == IF a >= b THEN a ELSE b

LoopInit ==
  /\ variant \in Variants /\ size \in Sizes
  /\ isFast \in [0..(size - 1) -> IF variant = "hashing" THEN {FALSE} ELSE BOOLEAN]
  /\ pc = "fetch" /\ fetched = 0
  /\ window = [j \in 0..(2 * HalfWindow - 1) |-> -1]
  /\ prefetched = {} /\ todo = <<>> /\ executed = <<>> /\ hashed = 0
  /\ split = [fast |-> [k \in 0..(MaxFast - 1) |-> -1], nfast |-> 0,
              slow |-> [k \in 0..(MaxFast - 1) |-> -1], nslow |-> 0]
  /\ dispatched = [port \in 0..1 |-> <<>>]

----------------------------------------------------------------------------
(* The first loop, which does not look at size.                            *)
FetchFirst ==
  /\ pc = "fetch"
  /\ window' = [j \in DOMAIN window |-> IF j < HalfWindow THEN j ELSE window[j]]
  /\ prefetched' = 0..(HalfWindow - 1)
  /\ fetched' = HalfWindow /\ pc' = "loop"
  /\ UNCHANGED <<variant, size, isFast, todo, executed, hashed, split, dispatched>>

(* Mutant: a fast packet stays in slow.                                    *)
SplitKeepsSlow(s, k) ==
  [fast |-> [s.fast EXCEPT ![s.nfast] = k], nfast |-> s.nfast + (IF isFast[k] THEN 1 ELSE 0),
   slow |-> [s.slow EXCEPT ![s.nslow] = k], nslow |-> s.nslow + 1]

(* The packet is written to both arrays, and one of them takes it back.    *)
SplitOne(s, k) ==
  [fast |-> [s.fast EXCEPT ![s.nfast] = k], nfast |-> s.nfast + (IF isFast[k] THEN 1 ELSE 0),
   slow |-> [s.slow EXCEPT ![s.nslow] = k], nslow |-> s.nslow + (IF isFast[k] THEN 0 ELSE 1)]

(* Hashes kept while the packets of a group are executed.                  *)
HashesOf(group) ==
  CASE variant = "hashing"         -> Len(group)
    [] variant = "merged_fastpass" -> Cardinality({k \in 1..Len(group) : ~isFast[group[k]]})
    [] variant = "fastpass"        -> 0

(* A turn of the loop: the second half is fetched, as far as the batch     *)
(* goes, and the first is to be executed.                                  *)
Turn ==
  /\ pc = "loop" /\ fetched < size - HalfWindow
  /\ window' = [j \in DOMAIN window |->
                  LET k == fetched + j - HalfWindow
                  IN IF j >= HalfWindow /\ k < size THEN k ELSE window[j]]
  /\ prefetched' = prefetched \union {k \in fetched..(fetched + HalfWindow - 1) : k < size}
  /\ todo' = [j \in 1..HalfWindow |-> window'[j - 1]]
  /\ hashed' = MaxOf(hashed, HashesOf(todo'))
  /\ pc' = "half"
  /\ UNCHANGED <<variant, size, isFast, fetched, executed, split, dispatched>>

(* What is done with a packet.                                             *)
Execute ==
  /\ pc \in {"half", "rest"} /\ todo # <<>>
  /\ executed' = Append(executed, Head(todo))
  /\ split' = IF variant = "fastpass" THEN SplitOne(split, Head(todo)) ELSE split
  /\ todo' = Tail(todo)
  /\ UNCHANGED <<variant, size, isFast, pc, fetched, window, prefetched, hashed, dispatched>>

(* p[j] = p[j + Half], behind the first half.                              *)
MoveWindow ==
  /\ pc = "half" /\ todo = <<>>
  /\ window' = [j \in DOMAIN window |-> IF j < HalfWindow THEN window[j + HalfWindow] ELSE window[j]]
  /\ fetched' = fetched + HalfWindow
  /\ pc' = "loop"
  /\ UNCHANGED <<variant, size, isFast, prefetched, todo, executed, hashed, split, dispatched>>

(* Mutant: the last part runs one packet too far.                          *)
RestOneMore ==
  [j \in 1..MaxOf(0, size - (fetched - HalfWindow) + 1) |-> fetched - HalfWindow + j - 1]

(* Mutant: the loop ends a turn early, the last part begins there.         *)
RestFromEarlier ==
  LET from == MaxOf(0, fetched - 2 * HalfWindow) IN [j \in 1..(size - from) |-> from + j - 1]

(* The packets from the half that was fetched and not executed.            *)
Rest == [j \in 1..MaxOf(0, size - (fetched - HalfWindow)) |-> fetched - HalfWindow + j - 1]

(* The part behind the loop.                                               *)
StartRest ==
  /\ pc = "loop" /\ fetched >= size - HalfWindow
  /\ todo' = Rest
  /\ hashed' = MaxOf(hashed, HashesOf(Rest))
  /\ pc' = "rest"
  /\ UNCHANGED <<variant, size, isFast, fetched, window, prefetched, executed, split, dispatched>>

(* The dispatch.                                                           *)
Finish ==
  /\ pc = "rest" /\ todo = <<>>
  /\ dispatched' = IF variant = "fastpass"
            THEN [port \in 0..1 |->
                    IF port = 1 THEN [k \in 1..split.nfast |-> split.fast[k - 1]]
                    ELSE [k \in 1..split.nslow |-> split.slow[k - 1]]]
            ELSE [dispatched EXCEPT ![0] = [k \in 1..size |-> k - 1]]
  /\ pc' = "done"
  /\ UNCHANGED <<variant, size, isFast, fetched, window, prefetched, todo, executed, hashed, split>>

LoopNext == FetchFirst \/ Turn \/ Execute \/ MoveWindow \/ StartRest \/ Finish

LoopSpec == LoopInit /\ [][LoopNext]_loopVars

----------------------------------------------------------------------------
(* Properties.                                                             *)

(* Types.                                                                  *)
LoopTypeOK ==
  /\ variant \in Variants /\ size \in Sizes /\ isFast \in [0..(size - 1) -> BOOLEAN]
  /\ pc \in {"fetch", "loop", "half", "rest", "done"} /\ fetched \in Nat
  /\ window \in [0..(2 * HalfWindow - 1) -> Int]
  /\ todo \in Seq(0..(size - 1)) /\ executed \in Seq(0..(size - 1)) /\ hashed \in Nat
  /\ split.nfast \in 0..size /\ split.nslow \in 0..size

(* Each packet is executed once and in order, whichever of the window and  *)
(* the batch it is taken from and whatever the size is to the window; none *)
(* that lies behind the batch is, although the first loop fetches those.   *)
ExecutedInOrder ==
  /\ executed = [k \in 1..Len(executed) |-> k - 1]
  /\ pc = "done" => Len(executed) = size

(* The group behind the loop is never longer than two halves: slow of      *)
(* merged_fastpass holds that much.                                        *)
RestFits == pc = "loop" /\ fetched >= size - HalfWindow => Len(Rest) <= 2 * HalfWindow

(* hashes has room for one half.  It is overrun by the group behind the    *)
(* loop, by one half at most, and by exactly the batches larger than that  *)
(* if every packet is stored (merged_fastpass stores slow ones only, and   *)
(* fastpass none).  slow has room for two halves and is never overrun.     *)
OverrunExactly ==
  /\ RestFits
  /\ hashed <= 2 * HalfWindow
  /\ hashed > HalfWindow => pc \in {"rest", "done"} /\ size > HalfWindow /\ variant # "fastpass"
  /\ variant = "hashing" /\ pc = "done" /\ size > HalfWindow => hashed > HalfWindow

(* fastpass dispatches each packet on its own port, once and in order,     *)
(* although every packet is written to both arrays.                        *)
SplitInOrder ==
  pc = "done" /\ variant = "fastpass" =>
    \A port \in 0..1 :
      /\ \A j, k \in 1..Len(dispatched[port]) :
           j < k => dispatched[port][j] < dispatched[port][k]
      /\ {dispatched[port][k] : k \in 1..Len(dispatched[port])}
           = {k \in 0..(size - 1) : isFast[k] <=> port = 1}

=============================================================================
