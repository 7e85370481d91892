---------------------------- MODULE FllInvariant ----------------------------
(* The inductive invariant behind Fll's bound on the packets in flight.    *)
EXTENDS Fll

(* What a generator that processed its last reset at "mark" may conclude   *)
(* from a count "seq" sent at "at": seq packets were processed since.      *)
HonestSince(m, mark) == m.seq + mark <= m.at

AcksHonest ==
  /\ last_ack + hist.mark <= hist.received
  /\ \A i \in 1..Len(acks) : HonestSince(acks[i], hist.mark)

(* ... and the same once one of the resets on their way is processed.      *)
ResetsHonest ==
  \A i \in 1..Len(acks) : acks[i].reset =>
    /\ acks[i].seq = 0
    /\ last_ack + acks[i].at <= hist.received
    /\ \A j \in (i+1)..Len(acks) : HonestSince(acks[j], acks[i].at)

(* Messages arrive in the order the receiver sent them.                    *)
AcksOrdered ==
  /\ hist.mark <= hist.seen /\ hist.seen <= hist.received
  /\ \A i \in 1..Len(acks) : hist.seen <= acks[i].at /\ acks[i].at <= hist.received
  /\ \A i, j \in 1..Len(acks) : i < j => acks[i].at <= acks[j].at

(* The end of the window, in packets processed by the receiver.            *)
WindowHonest ==
  /\ wnd_s + hist.mark <= hist.seen + 1
  /\ wnd_e + hist.mark <= hist.seen + 1 + WndSize
  /\ spc = "send" => wnd_e + burst_size + hist.mark <= hist.seen + 1 + WndSize

(* Every packet in flight or processed is counted by wnd_e, or by slack.   *)
Conserved == InFlight + hist.received <= wnd_e + hist.mark + hist.slack

SlackBound == hist.slack <= hist.resets * (WndSize + 1)

IInv ==
  /\ TypeOK /\ AcksHonest /\ ResetsHonest /\ AcksOrdered
  /\ WindowHonest /\ Conserved /\ SlackBound

(* A burst to be sent is within the credit: wnd_s and wnd_e are the same   *)
(* as when it was computed.                                                *)
BurstInCredit == spc = "send" => burst_size <= NumPktsToSend

(* Credit and what is in flight share one window and one packet for each   *)
(* time the generator started counting.                                    *)
CreditBounded ==
  /\ NumPktsToSend \in Nat /\ InFlight \in Nat /\ hist.resets \in Nat
  /\ InFlight + NumPktsToSend <= (hist.resets + 1) * (WndSize + 1)

----------------------------------------------------------------------------
(* The loop of the two programs implements the abstract window.  The       *)
(* generator's credit is what fll_num_pkts_to_send would return.           *)
Credit == INSTANCE CreditWindow WITH
  Window <- WndSize, inflight <- InFlight, credit <- NumPktsToSend, starts <- hist.resets + 1

(* Every step of Fll is one of the abstract window or invisible to it: no  *)
(* packet is sent without credit (not even by the burst computed before    *)
(* the acks of the next poll), and no ack, however late, doubled by a      *)
(* restart or out of an earlier count, grants more than is left of it.     *)
ImplementsWindow == Credit!Spec
============================================================================
