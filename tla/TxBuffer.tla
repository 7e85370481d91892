------------------------------ MODULE TxBuffer ------------------------------
(***************************************************************************)
(* The transmit side of a port: packet_send (include/dataplane.h), the     *)
(* buffer in front of the NIC and the callback that puts back into it what *)
(* the NIC did not take (src/dataplane.c).                                 *)
(*                                                                         *)
(* The buffer and its flush are DPDK's.  A flush offers the whole buffer   *)
(* to the NIC, empties it, and hands the unsent rest to the callback,      *)
(* which buffers it again packet by packet, in the array it comes from.    *)
(* If the NIC took nothing of a full buffer, the last of them fills it     *)
(* again and flushes it once more, from inside the callback: a flush       *)
(* returns when a packet of a full buffer was taken.                       *)
(***************************************************************************)
EXTENDS Integers, Sequences

CONSTANTS
  BufSize,   (* MAX_PKT_BURST: size of tx_buffer                           *)
  TxDesc,    (* TX_DESC: descriptors of the transmit ring                  *)
  TxPool,    (* mbufs in tx_pool                                           *)
  MaxSent    (* bound: packets handed to packet_send                       *)

ASSUME TxAssumption ==
  /\ BufSize \in Nat \ {0} /\ TxDesc \in Nat \ {0} /\ TxPool \in Nat /\ MaxSent \in Nat

(* 256 and 1024 against 16383.                                             *)
ASSUME TxPoolAssumption == BufSize + TxDesc <= TxPool

VARIABLES
  pkts,      (* tx_buffer.pkts; packets are numbered as packet_send got them *)
  length,    (* tx_buffer.length                                           *)
  pc,        (* "idle", or "flush" while a flush is to offer the buffer    *)
  nic,       (* packets in the transmit ring, oldest first                 *)
  done,      (* descriptors of packets sent and not yet reclaimed          *)
  wire,      (* packets the NIC has sent, oldest first                     *)
  free,      (* mbufs free in tx_pool                                      *)
  sent       (* packets handed to packet_send                              *)

vars == <<pkts, length, pc, nic, done, wire, free, sent>>

MinOf(a, b) == IF a <= b THEN a ELSE b

Init ==
  /\ pkts = [i \in 1..BufSize |-> 0] /\ length = 0 /\ pc = "idle"
  /\ nic = <<>> /\ done = 0 /\ wire = <<>>
  /\ free = TxPool /\ sent = 0

(* Mutant: the buffer is flushed by the packet after the one that fills it. *)
FlushWhenOver(n) == IF n > BufSize THEN "flush" ELSE "idle"

(* rte_eth_tx_buffer flushes the buffer when a packet fills it.            *)
FlushWhenFull(n) == IF n < BufSize THEN "idle" ELSE "flush"

(* packet_send: an mbuf from the pool, without a look whether there is     *)
(* one, into the buffer.                                                   *)
PacketSend ==
  /\ pc = "idle" /\ sent < MaxSent /\ free > 0
  /\ sent' = sent + 1
  /\ free' = free - 1
  /\ pkts' = [pkts EXCEPT ![length + 1] = sent']
  /\ length' = length + 1
  /\ pc' = FlushWhenFull(length')
  /\ UNCHANGED <<nic, done, wire>>

(* rte_eth_tx_buffer_flush called by the loop: after an ack, or at the end. *)
Flush ==
  /\ pc = "idle" /\ length > 0
  /\ pc' = "flush"
  /\ UNCHANGED <<pkts, length, nic, done, wire, free, sent>>

(* Mutant: what the NIC did not take is forgotten.                         *)
ForgetUnsent(taken) == UNCHANGED pkts /\ length' = 0 /\ pc' = "idle"

(* Mutant: everything offered to the NIC is put back.                      *)
RebufferAll(taken) ==
  UNCHANGED <<pkts, length>> /\ pc' = FlushWhenFull(length)

(* dataplane_rebuffer_tx_callback on all but the first "taken".            *)
Rebuffer(taken) ==
  LET unsent == length - taken IN
  /\ pkts' = [i \in 1..BufSize |-> IF i <= unsent THEN pkts[taken + i] ELSE pkts[i]]
  /\ length' = unsent
  /\ pc' = FlushWhenFull(unsent)

(* rte_eth_tx_burst inside a flush: the driver reclaims the descriptors of *)
(* sent packets, frees their mbufs and takes what fits.                    *)
TxBurst ==
  LET taken == MinOf(length, TxDesc - Len(nic)) IN
  /\ pc = "flush"
  /\ nic' = nic \o SubSeq(pkts, 1, taken)
  /\ done' = 0 /\ free' = free + done
  /\ Rebuffer(taken)
  /\ UNCHANGED <<wire, sent>>

NicSends ==
  /\ nic # <<>> /\ Len(wire) < MaxSent
  /\ wire' = Append(wire, Head(nic))
  /\ nic' = Tail(nic)
  /\ done' = done + 1
  /\ UNCHANGED <<pkts, length, pc, free, sent>>

Next == PacketSend \/ Flush \/ TxBurst \/ NicSends

(* The flush runs on, and the NIC sends what it has taken.                 *)
Spec == Init /\ [][Next]_vars /\ WF_vars(TxBurst) /\ WF_vars(NicSends)

----------------------------------------------------------------------------
(* Properties.                                                             *)

(* Types; the array is never written past its end.                         *)
TypeOK ==
  /\ pkts \in [1..BufSize -> 0..MaxSent] /\ length \in 0..BufSize
  /\ pc \in {"idle", "flush"} /\ (pc = "idle" => length < BufSize)
  /\ nic \in Seq(1..MaxSent) /\ done \in Nat /\ Len(nic) + done <= TxDesc
  /\ wire \in Seq(1..MaxSent) /\ free \in Nat /\ sent \in 0..MaxSent

(* However little the NIC takes at a time, packets reach it once each and  *)
(* in the order of packet_send: the callback moves the unsent ones to the  *)
(* front of the array they are read from, and new ones go behind them.     *)
Fifo == wire \o nic \o SubSeq(pkts, 1, length) = [i \in 1..sent |-> i]

(* packet_send never finds the pool empty (it would write through a null   *)
(* pointer): mbufs are in the buffer, in the transmit ring or free.        *)
PoolSuffices == pc = "idle" => free > 0

(* Every mbuf is free, in the buffer, or at a descriptor of the NIC.       *)
MbufsConserved == free + length + Len(nic) + done = TxPool

(* Fifo place by place, and MbufsConserved: what a step preserves.         *)
IInv ==
  /\ TypeOK /\ MbufsConserved
  /\ Len(wire) + Len(nic) + length = sent
  /\ \A i \in 1..Len(wire) : wire[i] = i
  /\ \A i \in 1..Len(nic) : nic[i] = Len(wire) + i
  /\ \A i \in 1..length : pkts[i] = Len(wire) + Len(nic) + i

(* A flush returns, however often it has to start over on a full NIC.      *)
FlushReturns == pc = "flush" ~> pc = "idle"

=============================================================================
