------------------------------ MODULE Datapath ------------------------------
(***************************************************************************)
(* The receive datapath of rxer_test: the stream of packet slots           *)
(* (include/dataplane.h), the pipeline (src/pipeline.c) and the elements   *)
(* in it: the buffered and the bypass wrapper, and what is wrapped.        *)
(*                                                                         *)
(* A burst of mbufs takes free slots from the ring of the stream, travels  *)
(* down the pipeline by nested process calls, depth first, and whatever    *)
(* reaches a drop_mbuf gives its slot back to the ring.  A buffered        *)
(* element keeps the last of what it was given until a later packet, or    *)
(* its release, pushes it on.                                              *)
(*                                                                         *)
(* One thread does all of this, up to the release of the pipeline when it  *)
(* ends.  (The console may also exit under it: what that does to pipeline  *)
(* and stream is in Lifecycle, and what is said here is said until then.)  *)
(* An element calls only the next one, so the calls that have not returned *)
(* are a set of elements, of which the last is running; a step is one turn *)
(* of its loop.                                                            *)
(*                                                                         *)
(* What an element computes over a packet is left out; what it does with   *)
(* the batch is one of:                                                    *)
(*   forward   all of it goes on (timer, checksum, routing, measurement)   *)
(*   naive     only pkts[0] goes on (the naive_ elements)                  *)
(*   fastpass  the flow it looks for goes to its own drop_mbuf on port 1,  *)
(*             the rest goes on                                            *)
(*   drop      drop_mbuf                                                   *)
(***************************************************************************)
EXTENDS Integers, Sequences, FiniteSets, Functions

CONSTANTS
  Pipelines,  (* the pipelines that pipeline_build may build               *)
  RingSize,   (* LARGEST_BUFFER: the size given to rx_stream_create        *)
  RxBurst,    (* RX_BURST                                                  *)
  RecordTimes, (* values of record_time: 1 gives benchmark_loop an end     *)
  MaxPkts     (* bound: packets received                                   *)

Wraps == {"buffered", "bypass", "only"}
Works == {"forward", "naive", "fastpass", "drop"}
Element == [wrap : Wraps, size : Nat \ {0}, work : Works]

(* The last element of a pipeline is its only drop.  A naive element gets  *)
(* batches of one: the elements up to it are of size 1 (those not wrapped  *)
(* are given that size) and none of them is a fastpass, whose batches may  *)
(* be empty.                                                               *)
WellBuilt(p) ==
  /\ p \in Seq(Element) /\ p # <<>>
  /\ \A k \in 1..Len(p) : p[k].work = "drop" <=> k = Len(p)
  /\ \A j, k \in 1..Len(p) :
       p[k].work = "naive" /\ j <= k => p[j].size = 1 /\ p[j].work # "fastpass"
  /\ \A k \in 1..Len(p) : p[k].work = "naive" => p[1].wrap # "only"

ASSUME DatapathAssumption ==
  /\ \A p \in Pipelines : WellBuilt(p)
  /\ RingSize \in Nat \ {0, 1} /\ RxBurst \in 1..(RingSize - 1) /\ MaxPkts \in Nat

VARIABLES
  pipe,          (* the pipeline, built once                               *)
  ring,          (* rx_packet_stream.ring: the free slots                  *)
  slot,          (* rx_packet_stream.pkts: what mtop filled in, with the   *)
                 (* order of arrival for the packet                        *)
  queue_length,  (* rx_packet_stream.queue_length                          *)
  buf,           (* buffered_element_t.buffer, by element                  *)
  active,        (* the elements whose process has not returned            *)
  given,         (* what such a process still has to take from its batch   *)
  released,      (* the elements that pipeline_release has come to         *)
  received,      (* packets given a slot: the next one is received + 1     *)
  dropped,       (* history: what drop_mbuf released                       *)
  status         (* "running", or why the thread ends: "short", "done"     *)

stream == <<ring, slot, queue_length, received>>
vars == <<pipe, stream, buf, active, given, released, dropped, status>>

Slots == 0..(RingSize - 1)
Capacity == RingSize - 1   (* an rte_ring keeps one of its entries unused  *)
Packet == [id : 0..MaxPkts, fast : BOOLEAN]
Depths == 1..Len(pipe)

(* Mutant: the ring takes one slot less than an rte_ring does.             *)
EnqueueOneShort(r, pkts) ==
  LET room == Capacity - 1 - Len(r)
  IN r \o (IF Len(pkts) <= room THEN pkts ELSE SubSeq(pkts, 1, room))

(* rte_ring_sp_enqueue of one slot after the other: a full ring refuses,   *)
(* which no caller looks at.                                               *)
Enqueue(r, pkts) ==
  LET room == Capacity - Len(r)
  IN r \o (IF Len(pkts) <= room THEN pkts ELSE SubSeq(pkts, 1, room))

(* rx_stream_create: the slot that the full ring refuses is never used.    *)
Init ==
  /\ pipe \in Pipelines
  /\ ring = Enqueue(<<>>, [i \in 1..RingSize |-> i - 1])
  /\ slot = [p \in Slots |-> [id |-> 0, fast |-> FALSE]]
  /\ queue_length = 0 /\ received = 0
  /\ buf = [k \in Depths |-> <<>>]
  /\ active = {} /\ given = [k \in Depths |-> <<>>]
  /\ released = 0 /\ dropped = <<>> /\ status = "running"

----------------------------------------------------------------------------
(* What the processes do to the stream and to each other.                  *)

(* Mutant: the queue shrinks by one, whatever the batch.                   *)
ReleaseCountsOne(pkts) ==
  /\ ring' = Enqueue(ring, pkts)
  /\ queue_length' = queue_length - 1
  /\ dropped' = dropped \o [i \in 1..Len(pkts) |-> slot[pkts[i]]]

(* drop_mbuf_process: rx_stream_release_pkts on the batch.                 *)
ReleasePkts(pkts) ==
  /\ ring' = Enqueue(ring, pkts)
  /\ queue_length' = queue_length - Len(pkts)
  /\ dropped' = dropped \o [i \in 1..Len(pkts) |-> slot[pkts[i]]]

(* process of the k-th element is called on pkts, while left is what the   *)
(* calls that have not returned, those of acts, still have to take.        *)
Process(k, pkts, left, acts) ==
  /\ given' = [left EXCEPT ![k] = pkts]
  /\ active' = acts \union {k}

(* The increasing enumeration of a finite set of numbers.                  *)
Listing(S) ==
  {e \in [1..Cardinality(S) -> S] : \A i, j \in DOMAIN e : i < j => e[i] < e[j]}

(* The packets of the batch that are fast, or not, in order.               *)
Class(pkts, fast) ==
  {[i \in DOMAIN e |-> pkts[e[i]]] :
     e \in Listing({i \in 1..Len(pkts) : slot[pkts[i]].fast = fast})}

(* process of what the k-th element wraps.                                 *)
Work(k, pkts, left, acts) ==
  \/ /\ pipe[k].work = "forward"
     /\ Process(k + 1, pkts, left, acts)
     /\ UNCHANGED <<ring, queue_length, dropped>>
  \/ /\ pipe[k].work = "naive"
     /\ Process(k + 1, <<pkts[1]>>, left, acts)
     /\ UNCHANGED <<ring, queue_length, dropped>>
  \/ /\ pipe[k].work = "fastpass"
     /\ \E fst \in Class(pkts, TRUE), slw \in Class(pkts, FALSE) :
          ReleasePkts(fst) /\ Process(k + 1, slw, left, acts)
  \/ /\ pipe[k].work = "drop"
     /\ ReleasePkts(pkts)
     /\ given' = left /\ active' = acts

----------------------------------------------------------------------------
(* The loops of the wrappers.                                              *)

Idle == active = {}

(* The call that runs is the innermost one.                                *)
Runs(k) == k \in active /\ \A j \in active : j <= k

Rest(k, n) == [given EXCEPT ![k] = SubSeq(@, n + 1, Len(@))]

(* Mutant: the buffer takes one packet more than it is long.               *)
FullTooLate(k) == Len(buf[k]) > pipe[k].size

Full(k) == Len(buf[k]) = pipe[k].size

(* Mutant: the packet that finds the buffer full overtakes it.             *)
FlushOvertaken(k) ==
  /\ pipe[k].wrap = "buffered" /\ given[k] # <<>> /\ Full(k)
  /\ Work(k, SubSeq(given[k], 1, 1), Rest(k, 1), active)
  /\ UNCHANGED buf

(* buffered_element_process: a full buffer is processed before the next    *)
(* packet starts it again.  (size is set to 0 when the call returns; until *)
(* then nothing looks at it.)                                              *)
Flush(k) ==
  /\ pipe[k].wrap = "buffered" /\ given[k] # <<>> /\ Full(k)
  /\ Work(k, buf[k], given, active)
  /\ buf' = [buf EXCEPT ![k] = <<>>]

(* ... a packet is put into the buffer,                                    *)
Put(k) ==
  /\ pipe[k].wrap = "buffered" /\ given[k] # <<>> /\ ~Full(k)
  /\ buf' = [buf EXCEPT ![k] = @ \o SubSeq(given[k], 1, 1)]
  /\ given' = Rest(k, 1)
  /\ UNCHANGED <<ring, queue_length, dropped, active>>

(* ... and the loop ends.                                                  *)
Return(k) ==
  /\ pipe[k].wrap = "buffered" /\ given[k] = <<>>
  /\ active' = active \ {k}
  /\ UNCHANGED <<ring, queue_length, dropped, buf, given>>

(* bypass_element_process: a chunk of notify_size while more than that is  *)
(* left.                                                                   *)
Chunk(k) ==
  /\ pipe[k].wrap = "bypass" /\ Len(given[k]) > pipe[k].size
  /\ Work(k, SubSeq(given[k], 1, pipe[k].size), Rest(k, pipe[k].size), active)
  /\ UNCHANGED buf

(* Mutant: what is left after the chunks is not processed.                 *)
RemainderForgotten(k) ==
  /\ pipe[k].wrap = "bypass" => Len(given[k]) <= pipe[k].size
  /\ pipe[k].wrap # "buffered"
  /\ IF pipe[k].wrap = "bypass" /\ Len(given[k]) < pipe[k].size
     THEN /\ given' = Rest(k, Len(given[k])) /\ active' = active \ {k}
          /\ UNCHANGED <<ring, queue_length, dropped>>
     ELSE Work(k, given[k], Rest(k, Len(given[k])), active \ {k})
  /\ UNCHANGED buf

(* ... and all that is left, be it nothing, as the last thing it does; so  *)
(* does the process of an element that nothing wraps.                      *)
LastChunk(k) ==
  /\ pipe[k].wrap = "bypass" => Len(given[k]) <= pipe[k].size
  /\ pipe[k].wrap # "buffered"
  /\ Work(k, given[k], Rest(k, Len(given[k])), active \ {k})
  /\ UNCHANGED buf

Step ==
  /\ \E k \in Depths : Runs(k) /\ (Flush(k) \/ Put(k) \/ Return(k) \/ Chunk(k) \/ LastChunk(k))
  /\ UNCHANGED <<pipe, slot, released, received, status>>

----------------------------------------------------------------------------
(* benchmark_loop and the exit.                                            *)

HasFastpass == \E k \in Depths : pipe[k].work = "fastpass"

(* rx_stream_mtop: the n oldest free slots take the n packets, whose       *)
(* fast[i] tells whether packet i belongs to the flow of the fastpass.     *)
Mtop(n, fast) ==
  /\ ring' = SubSeq(ring, n + 1, Len(ring))
  /\ queue_length' = queue_length + n
  /\ slot' = [p \in Slots |->
       IF \E i \in 1..n : ring[i] = p
       THEN LET i == CHOOSE i \in 1..n : ring[i] = p
            IN [id |-> received + i, fast |-> fast[i]]
       ELSE slot[p]]

(* One turn of benchmark_loop, up to the first process.                    *)
Burst(n) ==
  /\ status = "running" /\ Idle /\ received + n <= MaxPkts
  /\ n <= Len(ring)
  /\ \E fast \in [1..n -> IF HasFastpass THEN BOOLEAN ELSE {FALSE}] : Mtop(n, fast)
  /\ Process(1, SubSeq(ring, 1, n), given, active)
  /\ received' = received + n
  /\ UNCHANGED <<pipe, buf, released, dropped, status>>

(* mtop finds the ring short and calls rte_exit, whose atexit handler is   *)
(* release_resources.                                                      *)
Short(n) ==
  /\ status = "running" /\ Idle /\ received + n <= MaxPkts
  /\ n > Len(ring)
  /\ status' = "short"
  /\ UNCHANGED <<pipe, stream, buf, active, given, released, dropped>>

(* With a record_time of 1 the loop ends behind the burst that takes it    *)
(* beyond num_packets, of which there is at least one; rxer then releases  *)
(* the pipeline.                                                           *)
LoopEnds ==
  /\ status = "running" /\ Idle
  /\ 1 \in RecordTimes /\ received > 1
  /\ status' = "done"
  /\ UNCHANGED <<pipe, stream, buf, active, given, released, dropped>>

(* Mutant: the elements are released from the last to the first.           *)
NextFromLast == Len(pipe) - released

(* pipeline_release goes from the first to the last.                       *)
NextToRelease == released + 1

(* release of an element: a buffered one processes what it holds.          *)
ReleaseElement ==
  /\ status # "running" /\ Idle /\ released < Len(pipe)
  /\ released' = released + 1
  /\ LET k == NextToRelease IN
       IF pipe[k].wrap = "buffered" /\ buf[k] # <<>>
       THEN /\ Work(k, buf[k], given, active)
            /\ buf' = [buf EXCEPT ![k] = <<>>]
       ELSE UNCHANGED <<ring, queue_length, dropped, given, active, buf>>
  /\ UNCHANGED <<pipe, slot, received, status>>

Next ==
  \/ Step
  \/ \E n \in 1..RxBurst : Burst(n) \/ Short(n)
  \/ LoopEnds
  \/ ReleaseElement

Spec == Init /\ [][Next]_vars

----------------------------------------------------------------------------
(* Properties.                                                             *)

(* Types; no element buffers more than its notify_size.                    *)
TypeOK ==
  /\ pipe \in Pipelines
  /\ ring \in Seq(Slots) /\ slot \in [Slots -> Packet]
  /\ queue_length \in Int /\ received \in 0..MaxPkts
  /\ buf \in [Depths -> Seq(Slots)]
  /\ \A k \in Depths : Len(buf[k]) <= IF pipe[k].wrap = "buffered" THEN pipe[k].size ELSE 0
  /\ active \in SUBSET Depths /\ given \in [Depths -> Seq(Slots)]
  /\ released \in 0..Len(pipe) /\ dropped \in Seq(Packet)
  /\ status \in {"running", "short", "done"}

(* Where slots are: in the ring, or held in a buffer or a call.            *)
Piles == {<<"ring", 0>>} \union ({"buf", "given"} \X Depths)
Pile == [x \in Piles |->
  IF x[1] = "ring" THEN ring ELSE IF x[1] = "buf" THEN buf[x[2]] ELSE given[x[2]]]
Places == UNION {{x} \X (1..Len(Pile[x])) : x \in Piles}
Held == {q \in Places : q[1] # <<"ring", 0>>}
At(q) == Pile[q[1]][q[2]]

(* A slot that the ring took at first is in one place, never in two and    *)
(* never lost, however bursts fall on the buffers: a slot that leaked      *)
(* could not be told from a busy one, a slot in the ring twice would give  *)
(* one packet_t to two packets.  It holds of naive elements because they   *)
(* only see batches of one.                                                *)
SlotsConserved == [q \in Places |-> At(q)] \in Bijection(Places, 0..(Capacity - 1))

(* queue_length, which mtop and drop_mbuf update apart from each other, is *)
(* the number of packets in the pipeline (and so never fails the assert of *)
(* rx_stream_release_pkts).                                                *)
QueueLengthHeld == queue_length = Cardinality(Held)

(* Packets leave the pipeline once each and in the order of arrival,       *)
(* except that those of the fast path may overtake those of the slow path. *)
Leaves(a, b) == a.id < b.id \/ (a.id > b.id /\ a.fast /\ ~b.fast)
InOrder == \A i, j \in 1..Len(dropped) : i < j => Leaves(dropped[i], dropped[j])

(* The slots that a pipeline can hold on to between two bursts.            *)
BufferRoom ==
  UNION {{k} \X (1..pipe[k].size) : k \in {k \in Depths : pipe[k].wrap = "buffered"}}

(* A ring with room for all the buffers and one burst is never found       *)
(* short: the exit of rx_stream_mtop is for pipelines that are too long.   *)
SlotsSuffice == Cardinality(BufferRoom) + RxBurst <= Capacity => status # "short"

(* When the thread ends, on a ring that is short or behind its loop, no    *)
(* call enters an element that it has released, and the packets still      *)
(* buffered are pushed through the rest of the pipeline before it is gone: *)
(* each one received is dropped.                                           *)
DrainedOnExit ==
  /\ \A k \in active : k > released
  /\ released = Len(pipe) /\ Idle =>
       Held = {} /\ {dropped[i].id : i \in 1..Len(dropped)} = 1..received

=============================================================================
