-------------------------------- MODULE Fll --------------------------------
(***************************************************************************)
(* The flow control loop between the traffic generator (txer.c, the        *)
(* "master") and the device under test (rxer_test.c, the "slave"):         *)
(* include/fll.h and the two polling loops that call it.                   *)
(*                                                                         *)
(* The generator counts the packets it hands to packet_send (wnd_e), the   *)
(* receiver returns the running count of the packets it processed, and the *)
(* generator sends a further burst while wnd_e stays below the last count  *)
(* plus the window.  Nothing is ever retransmitted and no timer runs.      *)
(*                                                                         *)
(* A data packet carries nothing the receiver looks at, so the data path   *)
(* is three counters: packets in the generator's tx_buffer, on the cable,  *)
(* and in the receive ring of the receiver's NIC.  The return path is a    *)
(* FIFO of resets and acks.  The NIC of the generator is taken to accept   *)
(* whatever a flush offers it (TxBuffer models the case where it does not).*)
(***************************************************************************)
EXTENDS Integers, Sequences

CONSTANTS
  WndSize,         (* FLL_WND_SIZE                                         *)
  MaxPktBurst,     (* MAX_PKT_BURST: largest burst, size of tx_buffer      *)
  SenderRxBurst,   (* RX_BURST of txer.c                                   *)
  ReceiverRxBurst, (* RX_BURST of rxer_test.c                              *)
  RxDesc,          (* RX_DESC: receive ring of the receiver's NIC          *)
  PoolSize,        (* packet_count of txer.c                               *)
  Repeat,          (* REPEAT: passes over the pool                         *)
  MaxRestarts,     (* bound: crashes of the receiver                       *)
  MaxDataLost,     (* bound: data packets the cable loses                  *)
  MaxAckLost       (* bound: resets and acks the cable loses               *)

ASSUME SizesAssumption ==
  /\ WndSize \in Nat \ {0} /\ MaxPktBurst \in Nat \ {0}
  /\ SenderRxBurst \in Nat \ {0} /\ ReceiverRxBurst \in Nat \ {0}
  /\ RxDesc \in Nat \ {0} /\ PoolSize \in Nat \ {0} /\ Repeat \in Nat

(* The first burst is MAX_PKT_BURST whatever the window: 256 against 1<<14. *)
ASSUME WindowAssumption == MaxPktBurst <= WndSize

ASSUME BoundsAssumption ==
  MaxRestarts \in Nat /\ MaxDataLost \in Nat /\ MaxAckLost \in Nat

VARIABLES
  spc,        (* where the generator's loop stands                         *)
  sent,       (* packets taken from the pool so far, over all passes       *)
  burst_size, (* what the next packets_pool_next_batch may take            *)
  wnd_s,      (* fll_t.wnd_s of the generator                              *)
  wnd_e,      (* fll_t.wnd_e of the generator                              *)
  npkts,      (* messages of the last rx_burst still to be looked at       *)
  tx_buffer,  (* data packets waiting in the generator's tx_buffer         *)
  cable,      (* data packets on the cable                                 *)
  rx_ring,    (* data packets in the receive ring of the receiver's NIC    *)
  acks,       (* resets and acks sent and not yet looked at, oldest first  *)
  arrived,    (* how many of them, after the npkts first, have arrived     *)
  rpc,        (* the receiver: "down", "booted" or "running"               *)
  last_ack,   (* fll_t.last_ack of the receiver                            *)
  restarts, dataLost, ackLost, (* what the bounds count                    *)
  hist        (* history, read by no action: see HistType                  *)

sender   == <<spc, sent, burst_size, wnd_s, wnd_e, npkts, tx_buffer>>
receiver == <<rpc, last_ack, restarts>>
vars == <<sender, cable, rx_ring, acks, arrived, receiver, dataLost, ackLost, hist>>

Total == PoolSize * Repeat
MinOf(a, b) == IF a <= b THEN a ELSE b

(* Data packets handed to packet_send, not lost and not yet processed.     *)
InFlight == tx_buffer + cable + rx_ring

(* Messages.  "at" is history: how many packets all incarnations of the    *)
(* receiver had processed when the message was sent.                       *)
Message == [reset : BOOLEAN, seq : Nat, at : Nat]

(* received: packets processed by all incarnations of the receiver.        *)
(* seen, mark: "at" of the last message and of the last reset processed.   *)
(* slack: packets that the receiver had been counting since that reset but *)
(* that the generator's restarted wnd_e does not count.                    *)
(* resets: resets the generator processed.                                 *)
HistType == [received : Nat, seen : Nat, mark : Nat, slack : Nat, resets : Nat]

Init ==
  /\ spc = "send" /\ sent = 0 /\ burst_size = MaxPktBurst
  /\ wnd_s = 0 /\ wnd_e = 0 /\ npkts = 0 /\ tx_buffer = 0
  /\ cable = 0 /\ rx_ring = 0 /\ acks = <<>> /\ arrived = 0
  /\ rpc = "down" /\ last_ack = 0
  /\ restarts = 0 /\ dataLost = 0 /\ ackLost = 0
  /\ hist = [received |-> 0, seen |-> 0, mark |-> 0, slack |-> 0, resets |-> 0]

----------------------------------------------------------------------------
(* The generator.                                                          *)

(* Mutant: the tx_buffer is flushed one packet after it is full.           *)
FlushTooLate(n) ==
  /\ tx_buffer' = (tx_buffer + n) % (MaxPktBurst + 1)
  /\ cable' = cable + (tx_buffer + n) - tx_buffer'

(* packet_send, n times: the tx_buffer is flushed whenever it fills.       *)
PacketSend(n) ==
  /\ tx_buffer' = (tx_buffer + n) % MaxPktBurst
  /\ cable' = cable + (tx_buffer + n) - tx_buffer'

(* packets_pool_next_batch: a batch ends at the end of the pool, where the *)
(* pool is reset and the next pass begins.                                 *)
NextBatch == MinOf(burst_size, PoolSize - (sent % PoolSize))

SendBatch ==
  /\ spc = "send" /\ sent < Total
  /\ PacketSend(NextBatch)
  /\ sent' = sent + NextBatch
  /\ wnd_e' = wnd_e + NextBatch
  /\ spc' = "poll"
  /\ UNCHANGED <<burst_size, wnd_s, npkts, rx_ring, acks, arrived, receiver, dataLost, ackLost, hist>>

(* burst_size_is_zero: rx_burst returns what has arrived.                  *)
PollAcks ==
  /\ spc = "poll"
  /\ npkts' = MinOf(SenderRxBurst, arrived)
  /\ arrived' = arrived - npkts'
  /\ spc' = "drain"
  /\ UNCHANGED <<sent, burst_size, wnd_s, wnd_e, tx_buffer, cable, rx_ring, acks, receiver, dataLost, ackLost, hist>>

(* Mutant: the count of an ack is taken for an increment.                  *)
AckAsIncrement(m) == wnd_s + m.seq

(* fll_ack: the window now starts after packet seq.                        *)
AckedUpTo(m) == m.seq + 1

(* Mutant: a reset leaves wnd_e alone.                                     *)
KeepEnd(m) == wnd_e

(* The reset branch of fll_sender_ack restarts both counters alike.        *)
ResetEnd(m) == m.seq

(* fll_sender_ack on one received packet.                                  *)
SenderAck ==
  LET m == Head(acks) IN
  /\ spc = "drain" /\ npkts > 0
  /\ npkts' = npkts - 1
  /\ acks' = Tail(acks)
  /\ IF m.reset
     THEN /\ wnd_s' = m.seq /\ wnd_e' = ResetEnd(m)
          /\ hist' = [hist EXCEPT !.seen = m.at, !.mark = m.at, !.resets = @ + 1,
                                  !.slack = InFlight + hist.received - m.at]
     ELSE /\ wnd_s' = AckedUpTo(m) /\ UNCHANGED wnd_e
          /\ hist' = [hist EXCEPT !.seen = m.at]
  /\ UNCHANGED <<spc, sent, burst_size, tx_buffer, cable, rx_ring, arrived, receiver, dataLost, ackLost>>

(* Mutant: the window is one packet longer than its size.                  *)
NumPktsToSendPlusOne ==
  LET end == wnd_s + WndSize + 1 IN IF end < wnd_e THEN 0 ELSE end - wnd_e

(* fll_num_pkts_to_send: the comparison keeps the unsigned difference from *)
(* wrapping when wnd_e is past the window.                                 *)
NumPktsToSend ==
  LET end == wnd_s + WndSize IN IF end < wnd_e THEN 0 ELSE end - wnd_e

(* Mutant: a closed window still lets one packet through.                  *)
OpenWindowAtLeastOne ==
  /\ spc = "drain" /\ npkts = 0
  /\ burst_size' = IF NumPktsToSend = 0 THEN 1 ELSE MinOf(NumPktsToSend, MaxPktBurst)
  /\ spc' = "send"
  /\ UNCHANGED <<sent, wnd_s, wnd_e, npkts, tx_buffer, cable, rx_ring, acks, arrived, receiver, dataLost, ackLost, hist>>

(* The end of the loop body: poll again while there is nothing to send.    *)
OpenWindow ==
  /\ spc = "drain" /\ npkts = 0
  /\ burst_size' = MinOf(NumPktsToSend, MaxPktBurst)
  /\ spc' = IF burst_size' = 0 THEN "poll" ELSE "send"
  /\ UNCHANGED <<sent, wnd_s, wnd_e, npkts, tx_buffer, cable, rx_ring, acks, arrived, receiver, dataLost, ackLost, hist>>

(* After the last pass the rest of the tx_buffer is flushed.               *)
FinalFlush ==
  /\ spc = "send" /\ sent = Total
  /\ cable' = cable + tx_buffer
  /\ tx_buffer' = 0
  /\ spc' = "done"
  /\ UNCHANGED <<sent, burst_size, wnd_s, wnd_e, npkts, rx_ring, acks, arrived, receiver, dataLost, ackLost, hist>>

----------------------------------------------------------------------------
(* The receiver.                                                           *)

(* packet_send and flush of a reset or an ack, which the cable may lose.   *)
Transmit(m) ==
  \/ acks' = Append(acks, m) /\ UNCHANGED ackLost
  \/ ackLost < MaxAckLost /\ ackLost' = ackLost + 1 /\ UNCHANGED acks

(* port_configure starts the device: from here the NIC takes packets.      *)
Boot ==
  /\ rpc = "down"
  /\ rpc' = "booted"
  /\ UNCHANGED <<sender, cable, rx_ring, acks, arrived, last_ack, restarts, dataLost, ackLost, hist>>

(* Seconds later benchmark_loop creates its fll and announces itself.      *)
SendReset ==
  /\ rpc = "booted"
  /\ rpc' = "running"
  /\ last_ack' = 0
  /\ Transmit([reset |-> TRUE, seq |-> 0, at |-> hist.received])
  /\ UNCHANGED <<sender, cable, rx_ring, arrived, restarts, dataLost, hist>>

(* Mutant: an ack carries the size of the burst, not the running count.    *)
BurstOnly(n) == n

(* fll_pkt_ack: the running count, which becomes the ack's seq.            *)
RunningCount(n) == last_ack + n

(* One turn of benchmark_loop: a burst through the pipeline, then its ack. *)
ProcessBurst ==
  LET n == MinOf(rx_ring, ReceiverRxBurst) IN
  /\ rpc = "running" /\ rx_ring > 0
  /\ rx_ring' = rx_ring - n
  /\ last_ack' = RunningCount(n)
  /\ hist' = [hist EXCEPT !.received = @ + n]
  /\ Transmit([reset |-> FALSE, seq |-> last_ack', at |-> hist'.received])
  /\ UNCHANGED <<sender, cable, arrived, rpc, restarts, dataLost>>

(* rte_exit in any thread, or the operator, ends the process.              *)
Crash ==
  /\ rpc # "down" /\ restarts < MaxRestarts
  /\ restarts' = restarts + 1
  /\ rpc' = "down" /\ last_ack' = 0 /\ rx_ring' = 0
  /\ UNCHANGED <<sender, cable, acks, arrived, dataLost, ackLost, hist>>

----------------------------------------------------------------------------
(* The cable.                                                              *)

(* A data packet reaches the NIC, which drops it when it is not started or *)
(* has no free descriptor (imissed).                                       *)
DataArrives ==
  /\ cable > 0
  /\ cable' = cable - 1
  /\ rx_ring' = IF rpc # "down" /\ rx_ring < RxDesc THEN rx_ring + 1 ELSE rx_ring
  /\ UNCHANGED <<sender, acks, arrived, receiver, dataLost, ackLost, hist>>

DataLost ==
  /\ cable > 0 /\ dataLost < MaxDataLost
  /\ cable' = cable - 1
  /\ dataLost' = dataLost + 1
  /\ UNCHANGED <<sender, rx_ring, acks, arrived, receiver, ackLost, hist>>

AckArrives ==
  /\ npkts + arrived < Len(acks)
  /\ arrived' = arrived + 1
  /\ UNCHANGED <<sender, cable, rx_ring, acks, receiver, dataLost, ackLost, hist>>

----------------------------------------------------------------------------
SenderNext == SendBatch \/ PollAcks \/ SenderAck \/ OpenWindow \/ FinalFlush
ReceiverNext == Boot \/ SendReset \/ ProcessBurst \/ Crash
CableNext == DataArrives \/ DataLost \/ AckArrives
Next == SenderNext \/ ReceiverNext \/ CableNext

Spec == Init /\ [][Next]_vars

(* Both loops poll without blocking on cores of their own, the receiver is *)
(* started (again), and the cable delivers what it does not lose.          *)
Fairness ==
  /\ WF_vars(SenderNext)
  /\ WF_vars(Boot) /\ WF_vars(SendReset) /\ WF_vars(ProcessBurst)
  /\ WF_vars(DataArrives) /\ WF_vars(AckArrives)

FairSpec == Spec /\ Fairness

----------------------------------------------------------------------------
(* Properties.                                                             *)

(* Types, and the counters that index into the queue of acks.              *)
TypeOK ==
  /\ spc \in {"send", "poll", "drain", "done"} /\ rpc \in {"down", "booted", "running"}
  /\ sent \in 0..Total /\ burst_size \in 0..MaxPktBurst
  /\ wnd_s \in Nat /\ wnd_e \in Nat
  /\ npkts \in Nat /\ arrived \in Nat /\ acks \in Seq(Message)
  /\ npkts + arrived <= Len(acks)
  /\ tx_buffer \in 0..(MaxPktBurst - 1) /\ cable \in Nat /\ rx_ring \in 0..RxDesc
  /\ last_ack \in Nat
  /\ restarts \in 0..MaxRestarts /\ dataLost \in 0..MaxDataLost /\ ackLost \in 0..MaxAckLost
  /\ hist \in HistType

(* The loop bounds what is in flight between the two programs, however     *)
(* messages are delayed or lost: by one window and one packet (an ack      *)
(* reopens wnd_size + 1 packets) for each time the generator started       *)
(* counting, because a reset forgets what is still in flight.  That is one *)
(* more than the comment of fll.h says: wnd_size - in_flight.              *)
InFlightBound == InFlight <= (hist.resets + 1) * (WndSize + 1)

(* While no reset or ack is lost the generator never passes the end of its *)
(* window, across resets and restarts of the receiver: the guard of        *)
(* fll_num_pkts_to_send only matters after a lost reset.                   *)
WithinWindow == ackLost = 0 => wnd_e <= wnd_s + WndSize

(* Acks are absolute and fll_ack stores them unconditionally: the window   *)
(* still only moves back when the generator processes a reset, unless a    *)
(* message was lost.                                                       *)
WindowNeverRetreats ==
  [][ackLost = 0 => wnd_s' >= wnd_s \/ hist'.resets > hist.resets]_vars

(* Everything of the generator's window is lost or stuck in its tx_buffer, *)
(* and no message is on its way: the loop has no timer and no              *)
(* retransmission.                                                         *)
Wedged ==
  /\ spc \in {"poll", "drain"} /\ NumPktsToSend = 0 /\ acks = <<>>
  /\ cable = 0 /\ rx_ring = 0 /\ rpc = "running"

(* A wedged loop stays wedged until the receiver is restarted: no step of  *)
(* the generator sends or flushes anything that could free it.             *)
WedgedUntilRestart == [][Wedged => Wedged' \/ restarts' > restarts]_vars

(* With at most WndSize - MaxPktBurst data packets lost, no message lost   *)
(* and room in the NIC, the generator sends its whole pool and ends, even  *)
(* if the receiver starts late or is restarted.                            *)
Completes == <>(spc = "done")

============================================================================
