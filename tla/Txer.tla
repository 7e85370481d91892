-------------------------------- MODULE Txer --------------------------------
(***************************************************************************)
(* txer.c at the level of packets: the pool, the transmit buffer and NIC   *)
(* it sends through, and the acks of rxer_test.c, which go through a       *)
(* buffer and a NIC of the same sizes.  Fll has the protocol between the   *)
(* two with NICs that take everything and a cable that loses; here nothing *)
(* is lost, and a NIC may be too full to take what is flushed.             *)
(*                                                                         *)
(* The generator's side of the port is TxBuffer itself, the receiver's is  *)
(* its instance Ack, whose packets are numbered too: number k is the k-th  *)
(* message, and the first is the reset.                                    *)
(***************************************************************************)
EXTENDS TxBuffer, FiniteSets

CONSTANTS
  WndSize,      (* FLL_WND_SIZE                                            *)
  RxBurst,      (* RX_BURST of rxer_test.c                                 *)
  PoolSize,     (* packet_count                                            *)
  Repeat,       (* REPEAT: passes over the pool                            *)
  SizeofPacket  (* sizeof(struct packet_t): 64                             *)

Total == PoolSize * Repeat

ASSUME TxerAssumption ==
  /\ WndSize \in Nat \ {0} /\ RxBurst \in Nat \ {0}
  /\ PoolSize \in Nat \ 0..2 /\ Repeat \in Nat \ {0}

(* 64, and enough to scale the last index out of any pool.                 *)
ASSUME ScaleAssumption == SizeofPacket \in Nat \ 0..2

(* 256 against 1<<14.                                                      *)
ASSUME BurstAssumption == BufSize <= WndSize

(* The bound of TxBuffer leaves room for all packets, and for an ack of    *)
(* each and the reset.                                                     *)
ASSUME MaxSentAssumption == MaxSent > Total

VARIABLES
  spc,      (* where txer stands                                           *)
  drawn,    (* slots of the pool that packets_pool_zipfian has filled      *)
  cur,      (* pool->cur, as a slot; PoolSize is pool->end                 *)
  repeat,   (* passes left                                                 *)
  batch,    (* pkts: what is left of the batch                             *)
  size,     (* batch_size                                                  *)
  burst,    (* burst_size                                                  *)
  wnd,      (* wnd_s and wnd_e                                             *)
  looked,   (* messages looked at                                          *)
  taken,    (* history: slot of each packet handed to packet_send          *)
  rpc,      (* where benchmark_loop stands                                 *)
  received, (* packets processed, and the last_ack of fll                  *)
  seqs,     (* seq of each message                                         *)
  ackPkts, ackLength, ackPc, ackNic, ackDone, ackWire, ackFree, ackSent

generator == <<spc, drawn, cur, repeat, batch, size, burst, wnd, looked, taken>>
receiver  == <<rpc, received, seqs>>
ackVars   == <<ackPkts, ackLength, ackPc, ackNic, ackDone, ackWire, ackFree, ackSent>>
txerVars  == <<vars, generator, receiver, ackVars>>

Ack == INSTANCE TxBuffer WITH
  pkts <- ackPkts, length <- ackLength, pc <- ackPc, nic <- ackNic,
  done <- ackDone, wire <- ackWire, free <- ackFree, sent <- ackSent

TxerInit ==
  /\ Init /\ Ack!Init
  /\ spc = "prepare" /\ drawn = {} /\ cur = 0 /\ repeat = Repeat
  /\ batch = <<>> /\ size = 0 /\ burst = BufSize /\ wnd = [s |-> 0, e |-> 0]
  /\ looked = 0 /\ taken = <<>>
  /\ rpc = "boot" /\ received = 0 /\ seqs = <<>>

----------------------------------------------------------------------------
(* The generator.                                                          *)

(* Mutant: the index is scaled once, as it is meant.                       *)
ScaledOnce(idx) == idx

(* packets_pool_at scales the index by the bytes of a slot, and pointer    *)
(* arithmetic again by those of a packet_t: slots of the pool, and beyond. *)
PoolAt(idx) == SizeofPacket * idx

(* packets_pool_zipfian from the first to the last slot: up to the slot    *)
(* before "end", or to the end of the pool.  The assertion on the count    *)
(* ends the program.                                                       *)
PacketsPoolZipfian ==
  LET from  == 0
      to    == PoolSize - 1
      last  == PoolAt(to - 1)
      slots == {i \in PoolAt(from)..(PoolSize - 1) : i < last \/ last < PoolAt(from)}
  IN
  /\ spc = "prepare"
  /\ drawn' = slots
  /\ spc' = IF Cardinality(slots) = to - from + 1 THEN "batch" ELSE "aborted"
  /\ UNCHANGED <<vars, cur, repeat, batch, size, burst, wnd, looked, taken, receiver, ackVars>>

(* packets_pool_next_batch.                                                *)
NextBatch ==
  LET n == MinOf(burst, PoolSize - cur) IN
  /\ spc = "batch" /\ n \in 1..(PoolSize - cur)
  /\ batch' = [k \in 1..n |-> cur + k - 1]
  /\ size' = n /\ cur' = cur + n
  /\ spc' = "send"
  /\ UNCHANGED <<vars, drawn, repeat, burst, wnd, looked, taken, receiver, ackVars>>

(* Mutant: the pool is not reset between two passes.                       *)
EndPassNoReset ==
  /\ spc = "batch" /\ cur = PoolSize
  /\ repeat' = repeat - 1
  /\ spc' = IF repeat' = 0 THEN "flush" ELSE "batch"
  /\ UNCHANGED <<vars, drawn, cur, batch, size, burst, wnd, looked, taken, receiver, ackVars>>

(* It returns 0 at the end of the pool.                                    *)
EndPass ==
  /\ spc = "batch" /\ cur = PoolSize
  /\ cur' = 0 /\ repeat' = repeat - 1
  /\ spc' = IF repeat' = 0 THEN "flush" ELSE "batch"
  /\ UNCHANGED <<vars, drawn, batch, size, burst, wnd, looked, taken, receiver, ackVars>>

SendOne ==
  /\ spc = "send" /\ batch # <<>>
  /\ PacketSend
  /\ taken' = Append(taken, Head(batch))
  /\ batch' = Tail(batch)
  /\ UNCHANGED <<spc, drawn, cur, repeat, size, burst, wnd, looked, receiver, ackVars>>

(* fll_pkts_sent, once the last packet_send has returned.                  *)
PktsSent ==
  /\ spc = "send" /\ batch = <<>> /\ pc = "idle"
  /\ wnd' = [wnd EXCEPT !.e = @ + size]
  /\ spc' = "poll"
  /\ UNCHANGED <<vars, drawn, cur, repeat, batch, size, burst, looked, taken, receiver, ackVars>>

(* fll_sender_ack on the next message that has arrived.  One turn takes at *)
(* most 32; it is left open how many of those on the wire rx_burst returns.*)
SenderAck ==
  /\ spc = "poll" /\ looked < Len(ackWire)
  /\ looked' = looked + 1
  /\ LET k == ackWire[looked'] IN
     wnd' = IF k = 1 THEN [s |-> seqs[k], e |-> seqs[k]] ELSE [wnd EXCEPT !.s = seqs[k] + 1]
  /\ UNCHANGED <<vars, spc, drawn, cur, repeat, batch, size, burst, taken, receiver, ackVars>>

(* Mutant: nothing is sent before the window is open for a full burst.     *)
FullBurstsOnly(w) == IF w.s + WndSize < w.e + BufSize THEN 0 ELSE w.s + WndSize - w.e

(* fll_num_pkts_to_send.                                                   *)
NumPktsToSend(w) == IF w.s + WndSize < w.e THEN 0 ELSE w.s + WndSize - w.e

(* burst_size_is_zero, behind the messages: what the window allows.        *)
Poll ==
  /\ spc = "poll"
  /\ burst' = MinOf(NumPktsToSend(wnd), BufSize)
  /\ spc' = IF burst' = 0 THEN "poll" ELSE "batch"
  /\ UNCHANGED <<vars, drawn, cur, repeat, batch, size, wnd, looked, taken, receiver, ackVars>>

(* The last flush, whatever the NIC takes of it.                           *)
LastFlush ==
  /\ spc = "flush"
  /\ IF length = 0 THEN UNCHANGED vars ELSE Flush
  /\ spc' = "free"
  /\ UNCHANGED <<drawn, cur, repeat, batch, size, burst, wnd, looked, taken, receiver, ackVars>>

(* rte_free(buffer), with what has been put back into it.                  *)
FreeBuffer ==
  /\ spc = "free" /\ pc = "idle"
  /\ spc' = "done"
  /\ UNCHANGED <<vars, drawn, cur, repeat, batch, size, burst, wnd, looked, taken, receiver, ackVars>>

----------------------------------------------------------------------------
(* The receiver.                                                           *)

(* packet_send of a message.                                               *)
SendMessage(seq) ==
  /\ Ack!PacketSend
  /\ seqs' = Append(seqs, seq)
  /\ rpc' = "flush"

(* fll_pkt_reset.                                                          *)
SendReset ==
  /\ rpc = "boot"
  /\ SendMessage(0)
  /\ UNCHANGED <<vars, generator, received>>

(* rx_burst, the pipeline and fll_pkt_ack.                                 *)
ProcessBurst ==
  /\ rpc = "rx"
  /\ \E n \in 1..MinOf(RxBurst, Len(wire) - received) :
       received' = received + n /\ SendMessage(received')
  /\ UNCHANGED <<vars, generator>>

(* rte_eth_tx_buffer_flush, which may find that packet_send has flushed.   *)
FlushMessage ==
  /\ rpc = "flush" /\ ackPc = "idle"
  /\ IF ackLength = 0 THEN UNCHANGED ackVars ELSE Ack!Flush
  /\ rpc' = "flushed"
  /\ UNCHANGED <<vars, generator, received, seqs>>

(* The flush returns.                                                      *)
Flushed ==
  /\ rpc = "flushed" /\ ackPc = "idle"
  /\ rpc' = "rx"
  /\ UNCHANGED <<vars, generator, received, seqs, ackVars>>

----------------------------------------------------------------------------
Others == UNCHANGED <<generator, receiver>>

TxNic  == (TxBurst \/ NicSends) /\ Others /\ UNCHANGED ackVars
AckNic == (Ack!TxBurst \/ Ack!NicSends) /\ Others /\ UNCHANGED vars

GeneratorNext ==
  PacketsPoolZipfian \/ NextBatch \/ EndPass \/ SendOne \/ PktsSent \/ SenderAck \/ Poll
  \/ LastFlush \/ FreeBuffer

ReceiverNext == SendReset \/ ProcessBurst \/ FlushMessage \/ Flushed

TxerNext == GeneratorNext \/ ReceiverNext \/ TxNic \/ AckNic

(* Both loops poll on cores of their own, a flush runs on, and the NICs    *)
(* send what they have taken.                                              *)
TxerFairness ==
  /\ WF_txerVars(GeneratorNext) /\ WF_txerVars(ReceiverNext)
  /\ WF_txerVars(TxBurst /\ TxNic) /\ WF_txerVars(NicSends /\ TxNic)
  /\ WF_txerVars(Ack!TxBurst /\ AckNic) /\ WF_txerVars(Ack!NicSends /\ AckNic)

TxerSpec == TxerInit /\ [][TxerNext]_txerVars /\ TxerFairness

----------------------------------------------------------------------------
(* Properties.                                                             *)

TxerTypeOK ==
  /\ TypeOK /\ Ack!TypeOK
  /\ spc \in {"prepare", "aborted", "batch", "send", "poll", "flush", "free", "done"}
  /\ rpc \in {"boot", "rx", "flush", "flushed"}
  /\ drawn \subseteq 0..(PoolSize - 1) /\ cur \in 0..PoolSize /\ repeat \in 0..Repeat
  /\ batch \in Seq(0..(PoolSize - 1)) /\ size \in 0..BufSize /\ burst \in 0..BufSize
  /\ wnd \in [s : Nat, e : Nat] /\ looked \in 0..Len(ackWire) /\ Len(taken) = sent
  /\ received \in 0..Len(wire) /\ Len(seqs) = ackSent

(* Packet by packet, what leaves the NIC is the pool from end to end, pass *)
(* after pass, and every slot of it has been drawn from the distribution:  *)
(* packets_pool_zipfian stops at a slot that its scaling puts far behind   *)
(* the pool, and its assertion only holds because of that.                 *)
InPoolOrder ==
  /\ spc # "aborted"
  /\ \A k \in 1..Len(wire) : taken[wire[k]] = (k - 1) % PoolSize /\ taken[wire[k]] \in drawn

(* Nothing moves any more but the poll: the window is closed, its packets  *)
(* are processed or in the generator's tx_buffer, and the last ack is in   *)
(* the receiver's, which only a further burst would flush.                 *)
StuckOnAck ==
  /\ spc = "poll" /\ NumPktsToSend(wnd) = 0 /\ pc = "idle" /\ nic = <<>>
  /\ received = Len(wire) /\ rpc = "rx" /\ ackPc = "idle"
  /\ ackNic = <<>> /\ looked = Len(ackWire) /\ ackLength > 0

(* An ack that a full NIC refuses never ends the transmission.  The ring   *)
(* then holds TX_DESC older acks, and the window they open when they get   *)
(* out is enough to fill and flush the generator's buffer: either it is as *)
(* large as that, or its own ring, of the same size, cannot have taken all *)
(* of the buffer the last time.                                            *)
NeverStuckOnAck == ~StuckOnAck

(* The generator ends, and all packets are processed but those that the    *)
(* last flush could not get rid of, less than a tx_buffer holds.           *)
Delivered ==
  <>(spc = "done" /\ received + length = Total /\ length < BufSize)

=============================================================================
