----------------------------- MODULE FllProofs -----------------------------
(* IInv is inductive, for all sizes and all bounds, and bounds what is in  *)
(* flight; Fll implements the window of credits; and LosslessInv, with it, *)
(* keeps the generator's window from moving back and from being overrun.   *)
EXTENDS FllInvariant, TLAPS

USE DEF MinOf

----------------------------------------------------------------------------
(* Arithmetic of the two wrap-around counters.                             *)

(* The tx_buffer never holds a full burst, and what leaves it is whole.    *)
LEMMA BufferSplit ==
  ASSUME NEW n \in Nat, NEW b \in Nat \ {0}
  PROVE  n % b \in 0..(b-1) /\ n % b <= n
<1>1. n % b \in 0..(b-1)
  OBVIOUS
<1>2. n \div b \in Nat /\ n = b * (n \div b) + (n % b)
  OBVIOUS
<1>3. b * (n \div b) >= 0
  BY <1>2
<1> QED
  BY <1>1, <1>2, <1>3

(* A batch that stops at the end of the pool does not pass the last pass.  *)
LEMMA PoolEnd ==
  ASSUME NEW s \in Nat, NEW p \in Nat \ {0}, NEW r \in Nat, s < p * r
  PROVE  p - (s % p) \in 1..p /\ s + (p - (s % p)) <= p * r
<1>1. s % p \in 0..(p-1)
  OBVIOUS
<1>2. PICK q \in Nat : s = p * q + (s % p)
  <2>1. s \div p \in Nat /\ s = p * (s \div p) + (s % p)
    OBVIOUS
  <2> QED BY <2>1
<1>3. q < r
  <2> SUFFICES ASSUME q >= r PROVE FALSE
    OBVIOUS
  <2>1. PICK d \in Nat : q = r + d
    OBVIOUS
  <2>2. p * q = p * r + p * d /\ p * d >= 0
    BY <2>1
  <2> QED BY <2>2, <1>1, <1>2
<1>4. PICK e \in Nat : r = (q + 1) + e
  BY <1>3
<1>5. p * r = p * q + p + p * e /\ p * e >= 0
  BY <1>4
<1> QED
  BY <1>1, <1>2, <1>5

LEMMA TotalType == Total \in Nat
  BY SizesAssumption DEF Total

(* A batch is at most the burst and at most what is left.                  *)
LEMMA BatchBounds ==
  ASSUME sent \in Nat, burst_size \in Nat, sent < Total
  PROVE  /\ NextBatch \in Nat
         /\ NextBatch <= burst_size
         /\ sent + NextBatch <= Total
<1>1. /\ PoolSize - (sent % PoolSize) \in 1..PoolSize
      /\ sent + (PoolSize - (sent % PoolSize)) <= Total
  BY PoolEnd, SizesAssumption DEF Total
<1>2. CASE burst_size <= PoolSize - (sent % PoolSize)
  BY <1>1, <1>2, TotalType DEF NextBatch
<1>3. CASE ~(burst_size <= PoolSize - (sent % PoolSize))
  BY <1>1, <1>3, TotalType DEF NextBatch
<1> QED BY <1>2, <1>3

(* The window arithmetic never goes below zero.                            *)
LEMMA WindowType ==
  ASSUME wnd_s \in Nat, wnd_e \in Nat
  PROVE  /\ NumPktsToSend \in Nat
         /\ NumPktsToSend > 0 => wnd_e + NumPktsToSend = wnd_s + WndSize
  BY SizesAssumption DEF NumPktsToSend

----------------------------------------------------------------------------
(* The queue of messages under the two operations on it.                   *)

(* Looking at the oldest message shifts the others.                        *)
LEMMA TailFacts ==
  ASSUME acks \in Seq(Message), acks # <<>>
  PROVE  /\ Head(acks) = acks[1] /\ Head(acks) \in Message
         /\ Tail(acks) \in Seq(Message) /\ Len(Tail(acks)) = Len(acks) - 1
         /\ Len(acks) \in Nat \ {0}
         /\ \A i \in 1..Len(Tail(acks)) : Tail(acks)[i] = acks[i + 1]
  OBVIOUS

(* Sending puts the new message last, or loses it.                         *)
LEMMA AppendFacts ==
  ASSUME acks \in Seq(Message), NEW m \in Message
  PROVE  /\ Append(acks, m) \in Seq(Message) /\ Len(Append(acks, m)) = Len(acks) + 1
         /\ Append(acks, m)[Len(acks) + 1] = m
         /\ \A i \in 1..Len(acks) : Append(acks, m)[i] = acks[i]
  OBVIOUS

(* The invariant speaks of the messages one by one.                        *)
LEMMA MessageType ==
  ASSUME acks \in Seq(Message), NEW i \in 1..Len(acks)
  PROVE  acks[i] \in Message /\ acks[i].seq \in Nat /\ acks[i].at \in Nat
<1>1. acks[i] \in Message
  OBVIOUS
<1> QED BY <1>1 DEF Message

(* What Transmit of an honest message m leaves true of the queue, where    *)
(* "received" and "ack" are the receiver's counters after the step.        *)
LEMMA TransmitPreserves ==
  ASSUME IInv, NEW m \in Message, Transmit(m),
         NEW received \in Nat, NEW ack \in Nat,
         m.at = received, hist.received <= received,
         m.reset => m.seq = 0,
         m.seq <= ack,
         ack + hist.mark <= received,
         \A i \in 1..Len(acks) : acks[i].reset => ack + acks[i].at <= received,
         m.reset => ack = 0
  PROVE  /\ acks' \in Seq(Message) /\ Len(acks') >= Len(acks)
         /\ ackLost' \in 0..MaxAckLost
         /\ \A i \in 1..Len(acks') : HonestSince(acks'[i], hist.mark)
         /\ \A i \in 1..Len(acks') : acks'[i].reset =>
              /\ acks'[i].seq = 0
              /\ ack + acks'[i].at <= received
              /\ \A j \in (i+1)..Len(acks') : HonestSince(acks'[j], acks'[i].at)
         /\ \A i \in 1..Len(acks') : hist.seen <= acks'[i].at /\ acks'[i].at <= received
         /\ \A i, j \in 1..Len(acks') : i < j => acks'[i].at <= acks'[j].at
<1>0. /\ acks \in Seq(Message) /\ Len(acks) \in Nat /\ ackLost \in 0..MaxAckLost
      /\ hist.mark \in Nat /\ hist.seen \in Nat /\ hist.received \in Nat
      /\ hist.seen <= hist.received
      /\ m.seq \in Nat /\ m.at \in Nat
  BY DEF IInv, TypeOK, HistType, AcksOrdered, Message
<1>1. CASE acks' = Append(acks, m) /\ UNCHANGED ackLost
  <2>1. /\ acks' \in Seq(Message) /\ Len(acks') = Len(acks) + 1
        /\ acks'[Len(acks) + 1] = m
        /\ \A i \in 1..Len(acks) : acks'[i] = acks[i]
    BY <1>0, <1>1, AppendFacts
  <2>2. \A i \in 1..Len(acks') : i \in 1..Len(acks) \/ i = Len(acks) + 1
    BY <1>0, <2>1
  <2>3. \A i \in 1..Len(acks') : HonestSince(acks'[i], hist.mark)
    <3>1. HonestSince(m, hist.mark)
      BY <1>0 DEF HonestSince
    <3> QED BY <2>1, <2>2, <3>1 DEF IInv, AcksHonest
  <2>4. \A i \in 1..Len(acks') : hist.seen <= acks'[i].at /\ acks'[i].at <= received
    <3> SUFFICES ASSUME NEW i \in 1..Len(acks')
                 PROVE  hist.seen <= acks'[i].at /\ acks'[i].at <= received
      OBVIOUS
    <3>1. CASE i \in 1..Len(acks)
      BY <1>0, <2>1, <3>1, MessageType, SMTT(40) DEF IInv, AcksOrdered
    <3>2. CASE i = Len(acks) + 1
      BY <1>0, <2>1, <3>2
    <3> QED BY <2>2, <3>1, <3>2
  <2>5. \A i, j \in 1..Len(acks') : i < j => acks'[i].at <= acks'[j].at
    <3> SUFFICES ASSUME NEW i \in 1..Len(acks'), NEW j \in 1..Len(acks'), i < j
                 PROVE  acks'[i].at <= acks'[j].at
      OBVIOUS
    <3>1. i \in 1..Len(acks)
      BY <1>0, <2>1
    <3>2. CASE j \in 1..Len(acks)
      BY <2>1, <3>1, <3>2 DEF IInv, AcksOrdered
    <3>3. CASE j = Len(acks) + 1
      BY <2>1, <2>4, <3>1, <3>3
    <3> QED BY <2>2, <3>2, <3>3
  <2>6. ASSUME NEW i \in 1..Len(acks'), acks'[i].reset
        PROVE  /\ acks'[i].seq = 0
               /\ ack + acks'[i].at <= received
               /\ \A j \in (i+1)..Len(acks') : HonestSince(acks'[j], acks'[i].at)
    <3>1. CASE i \in 1..Len(acks)
      <4>1. acks'[i] = acks[i] /\ acks[i].reset /\ acks[i].at \in Nat
        BY <2>1, <2>6, <3>1, <1>0, MessageType
      <4>2. acks[i].seq = 0 /\ ack + acks[i].at <= received
        BY <4>1, <3>1 DEF IInv, ResetsHonest
      <4>3. HonestSince(m, acks[i].at)
        BY <1>0, <4>1, <4>2, SMTT(40) DEF HonestSince
      <4>4. ASSUME NEW j \in (i+1)..Len(acks') PROVE HonestSince(acks'[j], acks[i].at)
        <5>1. CASE j \in (i+1)..Len(acks)
          BY <5>1, <4>1, <3>1, <2>1, <1>0 DEF IInv, ResetsHonest
        <5>2. CASE j = Len(acks) + 1
          BY <5>2, <4>3, <2>1
        <5>3. j \in (i+1)..Len(acks) \/ j = Len(acks) + 1
          BY <2>1, <1>0, <3>1
        <5> QED BY <5>1, <5>2, <5>3
      <4> QED BY <4>1, <4>2, <4>4
    <3>2. CASE i = Len(acks) + 1
      <4>1. acks'[i] = m /\ (i+1)..Len(acks') = {}
        BY <3>2, <2>1, <1>0
      <4> QED BY <4>1, <2>6, <1>0, SMTT(40)
    <3> QED BY <2>2, <3>1, <3>2
  <2>7. Len(acks') >= Len(acks) /\ ackLost' \in 0..MaxAckLost
    BY <1>0, <1>1, <2>1
  <2>8. \A i \in 1..Len(acks') : acks'[i].reset =>
          /\ acks'[i].seq = 0
          /\ ack + acks'[i].at <= received
          /\ \A j \in (i+1)..Len(acks') : HonestSince(acks'[j], acks'[i].at)
    BY <2>6
  <2> QED BY <2>1, <2>3, <2>4, <2>5, <2>7, <2>8, Zenon
<1>2. CASE ackLost < MaxAckLost /\ ackLost' = ackLost + 1 /\ UNCHANGED acks
  <2>1. ackLost' \in 0..MaxAckLost
    BY <1>0, <1>2, BoundsAssumption
  <2>2. acks' = acks
    BY <1>2
  <2>3. \A i \in 1..Len(acks) : HonestSince(acks[i], hist.mark)
    BY DEF IInv, AcksHonest
  <2>4. \A i \in 1..Len(acks) : acks[i].reset =>
          /\ acks[i].seq = 0
          /\ ack + acks[i].at <= received
          /\ \A j \in (i+1)..Len(acks) : HonestSince(acks[j], acks[i].at)
    BY DEF IInv, ResetsHonest
  <2>5. \A i \in 1..Len(acks) : hist.seen <= acks[i].at /\ acks[i].at <= received
    BY <1>0, MessageType DEF IInv, AcksOrdered
  <2>6. \A i, j \in 1..Len(acks) : i < j => acks[i].at <= acks[j].at
    BY DEF IInv, AcksOrdered
  <2>7. Len(acks) >= Len(acks)
    BY <1>0
  <2>8. acks \in Seq(Message)
    BY <1>0
  <2> QED BY <2>1, <2>2, <2>3, <2>4, <2>5, <2>6, <2>7, <2>8, Zenon
<1> QED BY <1>1, <1>2 DEF Transmit

----------------------------------------------------------------------------
(* The initial states, and one lemma per action.                           *)

LEMMA InitIInv == Init => IInv
<1> SUFFICES ASSUME Init PROVE IInv
  OBVIOUS
<1> USE DEF Init
<1>1. TypeOK
  BY TotalType, SizesAssumption, BoundsAssumption DEF TypeOK, HistType
<1>2. AcksHonest /\ ResetsHonest /\ AcksOrdered
  BY DEF AcksHonest, ResetsHonest, AcksOrdered
<1>3. WindowHonest
  BY SizesAssumption, WindowAssumption DEF WindowHonest
<1>4. Conserved /\ SlackBound
  BY SizesAssumption DEF Conserved, InFlight, SlackBound
<1> QED BY <1>1, <1>2, <1>3, <1>4 DEF IInv

(* The invariants about messages only look at acks, hist and last_ack.     *)
LEMMA MessagesUntouched ==
  ASSUME IInv, UNCHANGED <<acks, hist, last_ack>>
  PROVE  AcksHonest' /\ ResetsHonest' /\ AcksOrdered' /\ SlackBound'
<1>1. AcksHonest'
  BY DEF IInv, AcksHonest
<1>2. ResetsHonest'
  BY DEF IInv, ResetsHonest
<1>3. AcksOrdered'
  BY DEF IInv, AcksOrdered
<1>4. SlackBound'
  BY DEF IInv, SlackBound
<1> QED BY <1>1, <1>2, <1>3, <1>4

(* The numbers in a state that satisfies the invariant.                    *)
LEMMA CountTypes ==
  ASSUME TypeOK
  PROVE  /\ hist.received \in Nat /\ hist.seen \in Nat /\ hist.mark \in Nat
         /\ hist.slack \in Nat /\ hist.resets \in Nat
         /\ wnd_s \in Nat /\ wnd_e \in Nat /\ burst_size \in Nat
         /\ tx_buffer \in Nat /\ cable \in Nat /\ rx_ring \in Nat
         /\ WndSize \in Nat /\ MaxPktBurst \in Nat \ {0}
         /\ sent \in Nat /\ npkts \in Nat /\ arrived \in Nat /\ last_ack \in Nat
  BY SizesAssumption, TotalType DEF TypeOK, HistType

(* A batch moves as many packets into the generator's counter as it puts   *)
(* in flight, and stays within the burst that the window allowed.          *)
LEMMA SendBatchStep == IInv /\ SendBatch => IInv'
<1> SUFFICES ASSUME IInv, SendBatch PROVE IInv'
  OBVIOUS
<1>0. TypeOK
  BY DEF IInv
<1>1. /\ NextBatch \in Nat /\ NextBatch <= burst_size /\ sent + NextBatch <= Total
  BY <1>0, BatchBounds, CountTypes DEF SendBatch
<1>2. /\ tx_buffer' \in 0..(MaxPktBurst - 1) /\ cable' \in Nat
      /\ tx_buffer' + cable' = tx_buffer + cable + NextBatch
  <2>1. (tx_buffer + NextBatch) % MaxPktBurst \in 0..(MaxPktBurst - 1)
        /\ (tx_buffer + NextBatch) % MaxPktBurst <= tx_buffer + NextBatch
    <3>1. tx_buffer + NextBatch \in Nat /\ MaxPktBurst \in Nat \ {0}
      BY <1>0, <1>1, CountTypes
    <3> QED BY <3>1, BufferSplit
  <2> QED BY <2>1, <1>0, <1>1, CountTypes DEF SendBatch, PacketSend
<1>3. TypeOK'
  BY <1>0, <1>1, <1>2, TotalType DEF SendBatch, TypeOK, receiver
<1>4. AcksHonest' /\ ResetsHonest' /\ AcksOrdered' /\ SlackBound'
  BY MessagesUntouched DEF SendBatch, receiver
<1>5. WindowHonest'
  BY <1>0, <1>1, CountTypes DEF IInv, WindowHonest, SendBatch
<1>6. Conserved'
  BY <1>0, <1>1, <1>2, CountTypes DEF IInv, Conserved, InFlight, SendBatch
<1> QED BY <1>3, <1>4, <1>5, <1>6 DEF IInv

LEMMA PollAcksStep == IInv /\ PollAcks => IInv'
<1> SUFFICES ASSUME IInv, PollAcks PROVE IInv'
  OBVIOUS
<1>0. TypeOK
  BY DEF IInv
<1>1. acks \in Seq(Message) /\ Len(acks) \in Nat
  BY <1>0 DEF TypeOK
<1>2. npkts' \in Nat /\ arrived' \in Nat /\ npkts' + arrived' <= Len(acks)
  BY <1>0, <1>1, CountTypes, SizesAssumption DEF PollAcks, TypeOK
<1>3. TypeOK'
  BY <1>0, <1>2 DEF PollAcks, TypeOK, receiver
<1>4. AcksHonest' /\ ResetsHonest' /\ AcksOrdered' /\ SlackBound'
  BY MessagesUntouched DEF PollAcks, receiver
<1>5. WindowHonest' /\ Conserved'
  BY DEF IInv, WindowHonest, Conserved, InFlight, PollAcks
<1> QED BY <1>3, <1>4, <1>5 DEF IInv

(* The burst computed from the window keeps wnd_e within it.               *)
LEMMA OpenWindowStep == IInv /\ OpenWindow => IInv'
<1> SUFFICES ASSUME IInv, OpenWindow PROVE IInv'
  OBVIOUS
<1>0. TypeOK
  BY DEF IInv
<1>1. NumPktsToSend \in Nat /\ (NumPktsToSend > 0 => wnd_e + NumPktsToSend = wnd_s + WndSize)
  BY <1>0, CountTypes, WindowType
<1>2. burst_size' \in 0..MaxPktBurst /\ burst_size' <= NumPktsToSend
  BY <1>0, <1>1, CountTypes DEF OpenWindow
<1>3. TypeOK'
  BY <1>0, <1>2 DEF OpenWindow, TypeOK, receiver
<1>4. AcksHonest' /\ ResetsHonest' /\ AcksOrdered' /\ SlackBound'
  BY MessagesUntouched DEF OpenWindow, receiver
<1>5. WindowHonest'
  BY <1>0, <1>1, <1>2, CountTypes DEF IInv, WindowHonest, OpenWindow
<1>6. Conserved'
  BY DEF IInv, Conserved, InFlight, OpenWindow
<1> QED BY <1>3, <1>4, <1>5, <1>6 DEF IInv

LEMMA FinalFlushStep == IInv /\ FinalFlush => IInv'
<1> SUFFICES ASSUME IInv, FinalFlush PROVE IInv'
  OBVIOUS
<1>0. TypeOK
  BY DEF IInv
<1>1. cable' \in Nat /\ tx_buffer' \in 0..(MaxPktBurst - 1) /\ InFlight' = InFlight
  BY <1>0, CountTypes DEF FinalFlush, InFlight
<1>2. TypeOK'
  BY <1>0, <1>1 DEF FinalFlush, TypeOK, receiver
<1>3. AcksHonest' /\ ResetsHonest' /\ AcksOrdered' /\ SlackBound'
  BY MessagesUntouched DEF FinalFlush, receiver
<1>4. WindowHonest' /\ Conserved'
  BY <1>1 DEF IInv, WindowHonest, Conserved, FinalFlush
<1> QED BY <1>2, <1>3, <1>4 DEF IInv

(* The oldest message is honest, and the rest of the queue stays so: after *)
(* a reset the counts are measured from the reset.                         *)
LEMMA SenderAckStep == IInv /\ SenderAck => IInv'
<1> SUFFICES ASSUME IInv, SenderAck PROVE IInv'
  OBVIOUS
<1> DEFINE m == Head(acks)
<1>0. TypeOK
  BY DEF IInv
<1>c. /\ hist.received \in Nat /\ hist.seen \in Nat /\ hist.mark \in Nat
      /\ hist.slack \in Nat /\ hist.resets \in Nat
      /\ wnd_s \in Nat /\ wnd_e \in Nat /\ last_ack \in Nat /\ WndSize \in Nat
      /\ InFlight \in Nat
  BY <1>0, CountTypes DEF InFlight
<1>1. /\ acks \in Seq(Message) /\ acks # <<>>
      /\ npkts \in Nat \ {0} /\ arrived \in Nat /\ npkts + arrived <= Len(acks)
  <2>1. acks \in Seq(Message) /\ npkts > 0 /\ npkts + arrived <= Len(acks)
    BY <1>0 DEF TypeOK, SenderAck
  <2> QED BY <2>1, <1>0, CountTypes, SMTT(40)
<1>2. /\ m = acks[1] /\ m \in Message /\ 1 \in 1..Len(acks)
      /\ acks' \in Seq(Message) /\ Len(acks') = Len(acks) - 1 /\ Len(acks) \in Nat \ {0}
      /\ \A i \in 1..Len(acks') : acks'[i] = acks[i + 1] /\ i + 1 \in 1..Len(acks)
  BY <1>1, TailFacts DEF SenderAck
<1>3. /\ m.seq \in Nat /\ m.at \in Nat
      /\ HonestSince(m, hist.mark) /\ hist.seen <= m.at /\ m.at <= hist.received
      /\ \A i \in 1..Len(acks') : m.at <= acks'[i].at
  <2>1. \A i \in 1..Len(acks') : 1 < i + 1
    BY <1>2
  <2> QED BY <1>2, <2>1, <1>1, MessageType DEF IInv, AcksHonest, AcksOrdered
<1>h. /\ wnd_s + hist.mark <= hist.seen + 1 /\ wnd_e + hist.mark <= hist.seen + 1 + WndSize
      /\ InFlight + hist.received <= wnd_e + hist.mark + hist.slack
      /\ hist.mark <= hist.seen
  BY DEF IInv, WindowHonest, Conserved, AcksOrdered
<1>4. /\ hist'.received = hist.received /\ hist'.seen = m.at
      /\ hist' \in HistType
      /\ m.reset => /\ hist'.mark = m.at /\ hist'.resets = hist.resets + 1
                    /\ hist'.slack = InFlight + hist.received - m.at
      /\ ~m.reset => /\ hist'.mark = hist.mark /\ hist'.resets = hist.resets
                     /\ hist'.slack = hist.slack
  <2>0. hist \in HistType /\ InFlight \in Nat
    BY <1>0, CountTypes DEF TypeOK, InFlight
  <2>1. CASE m.reset
    <3>1. InFlight + hist.received - m.at \in Nat
      <4> HIDE DEF m
      <4> QED BY <1>3, <1>c
    <3>2. hist' = [hist EXCEPT !.seen = m.at, !.mark = m.at, !.resets = @ + 1,
                               !.slack = InFlight + hist.received - m.at]
      BY <2>1 DEF SenderAck
    <3> HIDE DEF m
    <3>3. hist' = [received |-> hist.received, seen |-> m.at, mark |-> m.at,
                   slack |-> InFlight + hist.received - m.at, resets |-> hist.resets + 1]
      BY <2>0, <3>2 DEF HistType
    <3>4. hist' \in HistType
      BY <3>1, <3>3, <1>3, <1>c, SMTT(40) DEF HistType
    <3> QED BY <2>1, <3>3, <3>4
  <2>2. CASE ~m.reset
    BY <2>0, <2>2, <1>3 DEF SenderAck, HistType
  <2> QED BY <2>1, <2>2
<1>5. /\ m.reset => m.seq = 0 /\ wnd_s' = 0 /\ wnd_e' = 0
      /\ ~m.reset => wnd_s' = m.seq + 1 /\ wnd_e' = wnd_e
  BY <1>2 DEF IInv, ResetsHonest, SenderAck, AckedUpTo, ResetEnd
<1>6. TypeOK'
  <2>1. wnd_s' \in Nat /\ wnd_e' \in Nat
    BY <1>3, <1>5, <1>c, SMTT(40)
  <2>2. npkts' \in Nat /\ npkts' + arrived' <= Len(acks')
    BY <1>1, <1>2 DEF SenderAck
  <2> QED BY <1>0, <1>2, <1>4, <2>1, <2>2 DEF SenderAck, TypeOK, receiver
<1>7. /\ last_ack' = last_ack /\ last_ack \in Nat /\ InFlight' = InFlight
      /\ hist.mark <= hist.seen
  BY <1>0, CountTypes DEF SenderAck, InFlight, receiver, IInv, AcksOrdered
<1>8. AcksHonest'
  <2>1. CASE m.reset
    <3>1. last_ack + m.at <= hist.received
      BY <1>2, <2>1 DEF IInv, ResetsHonest
    <3>2. \A j \in 1..Len(acks') : HonestSince(acks'[j], m.at)
      <4>1. \A j \in (1+1)..Len(acks) : HonestSince(acks[j], m.at)
        BY <1>2, <2>1 DEF IInv, ResetsHonest
      <4>2. \A j \in 1..Len(acks') : j + 1 \in (1+1)..Len(acks)
        BY <1>2
      <4> QED BY <4>1, <4>2, <1>2
    <3> QED BY <3>1, <3>2, <1>4, <1>7, <2>1 DEF AcksHonest
  <2>2. CASE ~m.reset
    <3>1. \A j \in 1..Len(acks') : HonestSince(acks'[j], hist.mark)
      BY <1>2 DEF IInv, AcksHonest
    <3> QED BY <3>1, <1>4, <1>7, <2>2 DEF IInv, AcksHonest
  <2> QED BY <2>1, <2>2
<1>9. ResetsHonest'
  <2> SUFFICES ASSUME NEW i \in 1..Len(acks'), acks'[i].reset
               PROVE  /\ acks'[i].seq = 0
                      /\ last_ack + acks'[i].at <= hist.received
                      /\ \A j \in (i+1)..Len(acks') : HonestSince(acks'[j], acks'[i].at)
    BY <1>4, <1>7 DEF ResetsHonest
  <2>1. /\ acks[i+1].seq = 0
        /\ last_ack + acks[i+1].at <= hist.received
        /\ \A j \in ((i+1)+1)..Len(acks) : HonestSince(acks[j], acks[i+1].at)
    BY <1>2 DEF IInv, ResetsHonest
  <2>2. \A j \in (i+1)..Len(acks') : j \in 1..Len(acks') /\ j + 1 \in ((i+1)+1)..Len(acks)
    BY <1>2
  <2> QED BY <1>2, <2>1, <2>2
<1>10. AcksOrdered'
  <2>1. hist'.mark <= hist'.seen /\ hist'.seen <= hist'.received
    <3>1. CASE m.reset
      <4> HIDE DEF m
      <4> QED BY <3>1, <1>3, <1>4
    <3>2. CASE ~m.reset
      <4> HIDE DEF m
      <4> QED BY <3>2, <1>3, <1>4, <1>h, <1>c, SMTT(40)
    <3> QED BY <3>1, <3>2
  <2>2. \A i \in 1..Len(acks') : hist'.seen <= acks'[i].at /\ acks'[i].at <= hist'.received
    BY <1>2, <1>3, <1>4 DEF IInv, AcksOrdered
  <2>3. \A i, j \in 1..Len(acks') : i < j => acks'[i].at <= acks'[j].at
    <3> SUFFICES ASSUME NEW i \in 1..Len(acks'), NEW j \in 1..Len(acks'), i < j
                 PROVE  acks'[i].at <= acks'[j].at
      OBVIOUS
    <3>1. i + 1 \in 1..Len(acks) /\ j + 1 \in 1..Len(acks) /\ i + 1 < j + 1
      BY <1>2
    <3> QED BY <3>1, <1>2 DEF IInv, AcksOrdered
  <2> QED BY <2>1, <2>2, <2>3 DEF AcksOrdered
<1>11. WindowHonest'
  <2>1. spc' # "send" /\ WndSize \in Nat
    BY SizesAssumption DEF SenderAck
  <2>2. CASE m.reset
    BY <2>1, <2>2, <1>3, <1>4, <1>5 DEF WindowHonest
  <2>3. CASE ~m.reset
    <3> HIDE DEF m
    <3>1. m.seq + hist.mark <= m.at
      BY <1>3 DEF HonestSince
    <3>2. /\ wnd_s' = m.seq + 1 /\ wnd_e' = wnd_e
          /\ hist'.mark = hist.mark /\ hist'.seen = m.at
      BY <2>3, <1>4, <1>5
    <3>3. wnd_s' + hist'.mark <= hist'.seen + 1
      BY <3>1, <3>2, <1>3, <1>c, SMTT(40)
    <3>4. wnd_e' + hist'.mark <= hist'.seen + 1 + WndSize
      <4>1. wnd_e + hist.mark <= hist.seen + 1 + WndSize /\ hist.seen <= m.at /\ m.at \in Nat
        BY <1>3, <1>h
      <4> QED BY <4>1, <3>2, <1>c
    <3> QED BY <2>1, <3>3, <3>4 DEF WindowHonest
  <2> QED BY <2>2, <2>3
<1>12. Conserved'
  <2>1. CASE m.reset
    <3> HIDE DEF m
    <3> QED BY <2>1, <1>c, <1>3, <1>4, <1>5, <1>7 DEF Conserved
  <2>2. CASE ~m.reset
    BY <2>2, <1>4, <1>5, <1>7 DEF IInv, Conserved
  <2> QED BY <2>1, <2>2
<1>13. SlackBound'
  <2>1. CASE m.reset
    <3> HIDE DEF m
    <3>0. hist'.slack = InFlight + hist.received - m.at
      BY <2>1, <1>4
    <3>1. hist'.slack <= hist.slack + (WndSize + 1) /\ hist'.slack \in Int
      <4>1. /\ wnd_e + hist.mark <= hist.seen + 1 + WndSize
            /\ InFlight + hist.received <= wnd_e + hist.mark + hist.slack
            /\ hist.seen <= m.at /\ m.at \in Nat
        BY <1>3, <1>h
      <4>2. InFlight + hist.received <= hist.seen + 1 + WndSize + hist.slack
        BY <4>1, <1>c
      <4> QED BY <3>0, <4>1, <4>2, <1>c
    <3>2. (hist.resets + 1) * (WndSize + 1) = hist.resets * (WndSize + 1) + (WndSize + 1)
      BY <1>c
    <3>3. hist.resets * (WndSize + 1) \in Nat
      BY <1>c
    <3>4. hist.slack <= hist.resets * (WndSize + 1)
      BY DEF IInv, SlackBound
    <3>5. hist'.slack <= (hist.resets + 1) * (WndSize + 1)
      BY <3>1, <3>2, <3>3, <3>4, <1>c
    <3> QED BY <2>1, <3>5, <1>4 DEF SlackBound
  <2>2. CASE ~m.reset
    BY <2>2, <1>4 DEF IInv, SlackBound
  <2> QED BY <2>1, <2>2
<1> QED BY <1>6, <1>8, <1>9, <1>10, <1>11, <1>12, <1>13 DEF IInv

(* The cable and the NIC only take packets out of flight.                  *)
LEMMA DataArrivesStep == IInv /\ DataArrives => IInv'
<1> SUFFICES ASSUME IInv, DataArrives PROVE IInv'
  OBVIOUS
<1>0. TypeOK
  BY DEF IInv
<1>1. TypeOK'
  BY <1>0, SizesAssumption DEF DataArrives, TypeOK, sender, receiver
<1>2. AcksHonest' /\ ResetsHonest' /\ AcksOrdered' /\ SlackBound'
  BY MessagesUntouched DEF DataArrives, sender, receiver
<1>3. WindowHonest'
  BY DEF IInv, WindowHonest, DataArrives, sender
<1>4. Conserved'
  BY <1>0, CountTypes DEF IInv, Conserved, InFlight, DataArrives, sender
<1> QED BY <1>1, <1>2, <1>3, <1>4 DEF IInv

LEMMA DataLostStep == IInv /\ DataLost => IInv'
<1> SUFFICES ASSUME IInv, DataLost PROVE IInv'
  OBVIOUS
<1>0. TypeOK
  BY DEF IInv
<1>1. TypeOK'
  BY <1>0, BoundsAssumption DEF DataLost, TypeOK, sender, receiver
<1>2. AcksHonest' /\ ResetsHonest' /\ AcksOrdered' /\ SlackBound'
  BY MessagesUntouched DEF DataLost, sender, receiver
<1>3. WindowHonest'
  BY DEF IInv, WindowHonest, DataLost, sender
<1>4. Conserved'
  BY <1>0, CountTypes DEF IInv, Conserved, InFlight, DataLost, sender
<1> QED BY <1>1, <1>2, <1>3, <1>4 DEF IInv

LEMMA AckArrivesStep == IInv /\ AckArrives => IInv'
<1> SUFFICES ASSUME IInv, AckArrives PROVE IInv'
  OBVIOUS
<1>0. TypeOK
  BY DEF IInv
<1>1. TypeOK'
  BY <1>0, CountTypes DEF AckArrives, TypeOK, sender, receiver
<1>2. AcksHonest' /\ ResetsHonest' /\ AcksOrdered' /\ SlackBound'
  BY MessagesUntouched DEF AckArrives, sender, receiver
<1>3. WindowHonest'
  BY DEF IInv, WindowHonest, AckArrives, sender
<1>4. Conserved'
  BY <1>0, CountTypes DEF IInv, Conserved, InFlight, AckArrives, sender
<1> QED BY <1>1, <1>2, <1>3, <1>4 DEF IInv

LEMMA BootStep == IInv /\ Boot => IInv'
<1> SUFFICES ASSUME IInv, Boot PROVE IInv'
  OBVIOUS
<1>0. TypeOK
  BY DEF IInv
<1>1. TypeOK'
  BY <1>0, CountTypes DEF Boot, TypeOK, sender, receiver
<1>2. AcksHonest' /\ ResetsHonest' /\ AcksOrdered' /\ SlackBound'
  BY MessagesUntouched DEF Boot, sender, receiver
<1>3. WindowHonest'
  BY DEF IInv, WindowHonest, Boot, sender
<1>4. Conserved'
  BY <1>0, CountTypes DEF IInv, Conserved, InFlight, Boot, sender
<1> QED BY <1>1, <1>2, <1>3, <1>4 DEF IInv

(* A restarted receiver counts from zero, which claims less.               *)
LEMMA CrashStep == IInv /\ Crash => IInv'
<1> SUFFICES ASSUME IInv, Crash PROVE IInv'
  OBVIOUS
<1>0. TypeOK
  BY DEF IInv
<1>1. TypeOK'
  BY <1>0, SizesAssumption, BoundsAssumption DEF Crash, TypeOK, sender
<1>2. /\ last_ack' = 0 /\ UNCHANGED <<acks, hist>> /\ last_ack \in Nat
      /\ hist.mark \in Nat /\ hist.received \in Nat
      /\ last_ack + hist.mark <= hist.received
  BY <1>0, CountTypes DEF Crash, IInv, AcksHonest
<1>3. AcksHonest'
  BY <1>2 DEF IInv, AcksHonest
<1>4. ResetsHonest'
  <2> SUFFICES ASSUME NEW i \in 1..Len(acks), acks[i].reset
               PROVE  /\ acks[i].seq = 0
                      /\ 0 + acks[i].at <= hist.received
                      /\ \A j \in (i+1)..Len(acks) : HonestSince(acks[j], acks[i].at)
    BY <1>2 DEF ResetsHonest
  <2>1. /\ acks[i].seq = 0 /\ last_ack + acks[i].at <= hist.received
        /\ \A j \in (i+1)..Len(acks) : HonestSince(acks[j], acks[i].at)
    BY DEF IInv, ResetsHonest
  <2>2. acks[i].at \in Nat
    BY <1>0, MessageType DEF TypeOK
  <2> QED BY <2>1, <2>2, <1>2
<1>5. AcksOrdered' /\ SlackBound' /\ WindowHonest'
  BY <1>2 DEF IInv, AcksOrdered, SlackBound, WindowHonest, Crash, sender
<1>6. Conserved'
  BY <1>0, CountTypes DEF IInv, Conserved, InFlight, Crash, sender
<1> QED BY <1>1, <1>3, <1>4, <1>5, <1>6 DEF IInv

LEMMA SendResetStep == IInv /\ SendReset => IInv'
<1> SUFFICES ASSUME IInv, SendReset PROVE IInv'
  OBVIOUS
<1> DEFINE m == [reset |-> TRUE, seq |-> 0, at |-> hist.received]
<1>0. TypeOK
  BY DEF IInv
<1>1. /\ hist.received \in Nat /\ last_ack \in Nat /\ hist.mark \in Nat
      /\ last_ack' = 0 /\ hist' = hist
      /\ m \in Message /\ m.at = hist.received /\ m.seq = 0 /\ Transmit(m)
  BY <1>0, CountTypes DEF SendReset, Message
<1>2. 0 + hist.mark <= hist.received
  BY <1>1 DEF IInv, AcksHonest
<1>3. \A i \in 1..Len(acks) : acks[i].reset => 0 + acks[i].at <= hist.received
  BY <1>0, <1>1, MessageType DEF IInv, AcksOrdered, TypeOK
<1>4. /\ acks' \in Seq(Message) /\ Len(acks') >= Len(acks)
      /\ ackLost' \in 0..MaxAckLost
      /\ \A i \in 1..Len(acks') : HonestSince(acks'[i], hist.mark)
      /\ \A i \in 1..Len(acks') : acks'[i].reset =>
           /\ acks'[i].seq = 0
           /\ 0 + acks'[i].at <= hist.received
           /\ \A j \in (i+1)..Len(acks') : HonestSince(acks'[j], acks'[i].at)
      /\ \A i \in 1..Len(acks') : hist.seen <= acks'[i].at /\ acks'[i].at <= hist.received
      /\ \A i, j \in 1..Len(acks') : i < j => acks'[i].at <= acks'[j].at
  <2> HIDE DEF m
  <2>1. hist.received <= hist.received /\ m.seq <= 0 /\ 0 \in Nat
    BY <1>1
  <2> QED BY <1>1, <1>2, <1>3, <2>1, TransmitPreserves
<1> HIDE DEF m
<1>5. TypeOK'
  <2>1. npkts + arrived <= Len(acks')
    BY <1>0, <1>4, CountTypes, SMTT(40) DEF TypeOK
  <2> QED BY <1>0, <1>1, <1>4, <2>1 DEF SendReset, TypeOK, sender
<1>6. AcksHonest' /\ ResetsHonest' /\ AcksOrdered'
  BY <1>1, <1>2, <1>4 DEF IInv, AcksHonest, ResetsHonest, AcksOrdered
<1>7. SlackBound' /\ WindowHonest' /\ Conserved'
  BY <1>1 DEF IInv, SlackBound, WindowHonest, Conserved, InFlight, SendReset, sender
<1> QED BY <1>5, <1>6, <1>7 DEF IInv

(* The packets a burst takes out of flight are those its ack counts.       *)
LEMMA ProcessBurstStep == IInv /\ ProcessBurst => IInv'
<1> SUFFICES ASSUME IInv, ProcessBurst PROVE IInv'
  OBVIOUS
<1> DEFINE n == MinOf(rx_ring, ReceiverRxBurst)
           received == hist.received + n
           m == [reset |-> FALSE, seq |-> last_ack + n, at |-> received]
<1>0. TypeOK
  BY DEF IInv
<1>1. /\ n \in Nat /\ n <= rx_ring
      /\ rx_ring' = rx_ring - n /\ last_ack' = last_ack + n
  BY <1>0, CountTypes, SizesAssumption DEF ProcessBurst, RunningCount
<1>2. /\ hist' = [hist EXCEPT !.received = received]
      /\ hist' \in HistType /\ hist'.received = received
      /\ hist'.seen = hist.seen /\ hist'.mark = hist.mark
      /\ hist'.slack = hist.slack /\ hist'.resets = hist.resets
  <2> HIDE DEF n
  <2>1. hist \in HistType /\ received \in Nat
    <3>1. hist \in HistType
      BY <1>0 DEF TypeOK
    <3>2. hist.received \in Nat
      BY <1>0, CountTypes
    <3> QED BY <1>1, <3>1, <3>2
  <2>2. hist' = [hist EXCEPT !.received = received]
    BY DEF ProcessBurst, n
  <2> HIDE DEF received
  <2> QED BY <2>1, <2>2 DEF HistType
<1>3. /\ Transmit(m) /\ UNCHANGED <<sender, cable, arrived, rpc, restarts, dataLost>>
  <2>1. hist'.received = received /\ last_ack' = last_ack + n
    BY <1>1, <1>2
  <2>2. Transmit([reset |-> FALSE, seq |-> last_ack', at |-> hist'.received])
    BY DEF ProcessBurst
  <2> HIDE DEF n, received
  <2> QED BY <2>1, <2>2 DEF ProcessBurst
<1> HIDE DEF n
<1>4. /\ hist.received \in Nat /\ last_ack \in Nat /\ hist.mark \in Nat
      /\ rx_ring \in Nat /\ tx_buffer \in Nat /\ cable \in Nat
  BY <1>0, CountTypes
<1>5. /\ received \in Nat /\ hist.received <= received /\ last_ack + n \in Nat
      /\ m \in Message /\ m.at = received /\ m.seq = last_ack + n /\ ~m.reset
  BY <1>1, <1>4 DEF Message
<1>6. /\ (last_ack + n) + hist.mark <= received
      /\ \A i \in 1..Len(acks) : acks[i].reset => (last_ack + n) + acks[i].at <= received
  <2>1. last_ack + hist.mark <= hist.received
    BY DEF IInv, AcksHonest
  <2>2. \A i \in 1..Len(acks) : acks[i].reset => last_ack + acks[i].at <= hist.received
    BY DEF IInv, ResetsHonest
  <2>3. \A i \in 1..Len(acks) : acks[i].at \in Nat
    BY <1>0, MessageType DEF TypeOK
  <2>4. (last_ack + n) + hist.mark <= received
    BY <1>1, <1>4, <2>1
  <2>5. ASSUME NEW i \in 1..Len(acks), acks[i].reset
        PROVE  (last_ack + n) + acks[i].at <= received
    <3>1. last_ack + acks[i].at <= hist.received /\ acks[i].at \in Nat
      BY <2>2, <2>3, <2>5
    <3> QED BY <1>1, <1>4, <3>1, SMTT(40)
  <2> QED BY <2>4, <2>5
<1>7. /\ acks' \in Seq(Message) /\ Len(acks') >= Len(acks)
      /\ ackLost' \in 0..MaxAckLost
      /\ \A i \in 1..Len(acks') : HonestSince(acks'[i], hist.mark)
      /\ \A i \in 1..Len(acks') : acks'[i].reset =>
           /\ acks'[i].seq = 0
           /\ (last_ack + n) + acks'[i].at <= received
           /\ \A j \in (i+1)..Len(acks') : HonestSince(acks'[j], acks'[i].at)
      /\ \A i \in 1..Len(acks') : hist.seen <= acks'[i].at /\ acks'[i].at <= received
      /\ \A i, j \in 1..Len(acks') : i < j => acks'[i].at <= acks'[j].at
  <2> HIDE DEF m, received
  <2>1. m.seq <= last_ack + n
    BY <1>5
  <2> QED BY <1>3, <1>5, <1>6, <2>1, TransmitPreserves
<1> HIDE DEF m
<1>8. TypeOK'
  <2>1. npkts + arrived <= Len(acks') /\ rx_ring' \in 0..RxDesc
    BY <1>0, <1>1, <1>7, CountTypes, SizesAssumption DEF TypeOK
  <2> QED BY <1>0, <1>1, <1>2, <1>3, <1>5, <1>7, <2>1 DEF TypeOK, sender
<1>9. AcksHonest' /\ ResetsHonest' /\ AcksOrdered'
  <2> HIDE DEF received
  <2>1. hist.mark <= hist.seen /\ hist.seen <= received
    <3>1. hist.mark <= hist.seen /\ hist.seen <= hist.received
      BY DEF IInv, AcksOrdered
    <3>2. hist.seen \in Nat /\ hist.received \in Nat
      BY <1>0, CountTypes
    <3> QED BY <1>5, <3>1, <3>2
  <2> QED BY <1>1, <1>2, <1>6, <1>7, <2>1 DEF AcksHonest, ResetsHonest, AcksOrdered
<1>10. SlackBound' /\ WindowHonest'
  BY <1>2, <1>3 DEF IInv, SlackBound, WindowHonest, sender
<1>11. Conserved'
  <2>1. InFlight' + received = InFlight + hist.received
    BY <1>1, <1>3, <1>4 DEF InFlight, sender
  <2> QED BY <1>2, <1>3, <2>1 DEF IInv, Conserved, sender
<1> QED BY <1>8, <1>9, <1>10, <1>11 DEF IInv

----------------------------------------------------------------------------
(* Every reachable state satisfies the invariant.                          *)
THEOREM Invariance == Spec => []IInv
<1>1. IInv /\ [Next]_vars => IInv'
  <2> SUFFICES ASSUME IInv, [Next]_vars PROVE IInv'
    OBVIOUS
  <2>1. CASE SenderNext
    BY <2>1, SendBatchStep, PollAcksStep, SenderAckStep, OpenWindowStep, FinalFlushStep DEF SenderNext
  <2>2. CASE ReceiverNext
    BY <2>2, BootStep, SendResetStep, ProcessBurstStep, CrashStep DEF ReceiverNext
  <2>3. CASE CableNext
    BY <2>3, DataArrivesStep, DataLostStep, AckArrivesStep DEF CableNext
  <2>4. CASE UNCHANGED vars
    BY <2>4 DEF vars, sender, receiver, IInv, TypeOK, AcksHonest, ResetsHonest,
       AcksOrdered, WindowHonest, Conserved, SlackBound, InFlight
  <2> QED BY <2>1, <2>2, <2>3, <2>4 DEF Next
<1> QED BY <1>1, InitIInv, PTL DEF Spec

(* The types hold, and with them the counters that index the queue of      *)
(* acks.                                                                   *)
THEOREM TypeCorrect == Spec => []TypeOK
<1>1. IInv => TypeOK
  BY DEF IInv
<1> QED BY <1>1, Invariance, PTL

(* One window and one packet per count the generator started.              *)
THEOREM InFlightIsBounded == Spec => []InFlightBound
<1>1. IInv => InFlightBound
  <2> SUFFICES ASSUME IInv PROVE InFlightBound
    OBVIOUS
  <2>1. /\ hist.received \in Nat /\ hist.seen \in Nat /\ hist.mark \in Nat
        /\ hist.slack \in Nat /\ hist.resets \in Nat /\ WndSize \in Nat
        /\ wnd_e \in Nat /\ InFlight \in Nat
    BY CountTypes DEF IInv, InFlight
  <2>2. InFlight <= (WndSize + 1) + hist.slack
    <3>1. /\ hist.seen <= hist.received
          /\ wnd_e + hist.mark <= hist.seen + 1 + WndSize
          /\ InFlight + hist.received <= wnd_e + hist.mark + hist.slack
      BY DEF IInv, AcksOrdered, WindowHonest, Conserved
    <3> QED BY <2>1, <3>1
  <2>3. /\ (hist.resets + 1) * (WndSize + 1) = hist.resets * (WndSize + 1) + (WndSize + 1)
        /\ hist.resets * (WndSize + 1) \in Nat
    BY <2>1
  <2>4. hist.slack <= hist.resets * (WndSize + 1)
    BY DEF IInv, SlackBound
  <2> QED BY <2>1, <2>2, <2>3, <2>4 DEF InFlightBound
<1> QED BY <1>1, Invariance, PTL

----------------------------------------------------------------------------
(* The refinement of CreditWindow.                                         *)

LEMMA CreditBound == IInv => CreditBounded
<1> SUFFICES ASSUME IInv PROVE CreditBounded
  OBVIOUS
<1>1. /\ hist.received \in Nat /\ hist.seen \in Nat /\ hist.mark \in Nat
      /\ hist.slack \in Nat /\ hist.resets \in Nat /\ WndSize \in Nat
      /\ wnd_s \in Nat /\ wnd_e \in Nat /\ InFlight \in Nat
  BY CountTypes, SizesAssumption DEF IInv, InFlight, TypeOK
<1>2. NumPktsToSend \in Nat
  BY <1>1 DEF NumPktsToSend
<1>3. InFlight + NumPktsToSend <= (WndSize + 1) + hist.slack
  <2>1. /\ hist.seen <= hist.received
        /\ wnd_s + hist.mark <= hist.seen + 1
        /\ wnd_e + hist.mark <= hist.seen + 1 + WndSize
        /\ InFlight + hist.received <= wnd_e + hist.mark + hist.slack
    BY DEF IInv, AcksOrdered, WindowHonest, Conserved
  <2>2. CASE wnd_s + WndSize < wnd_e
    BY <1>1, <2>1, <2>2 DEF NumPktsToSend
  <2>3. CASE ~(wnd_s + WndSize < wnd_e)
    <3>1. NumPktsToSend = wnd_s + WndSize - wnd_e
      BY <1>1, <2>3 DEF NumPktsToSend
    <3> QED BY <1>1, <2>1, <3>1
  <2> QED BY <2>2, <2>3
<1>4. /\ (hist.resets + 1) * (WndSize + 1) = hist.resets * (WndSize + 1) + (WndSize + 1)
      /\ hist.resets * (WndSize + 1) \in Nat
  BY <1>1
<1>5. hist.slack <= hist.resets * (WndSize + 1)
  BY DEF IInv, SlackBound
<1> QED BY <1>1, <1>2, <1>3, <1>4, <1>5 DEF CreditBounded

LEMMA BurstInCreditInit == Init => BurstInCredit
  BY SizesAssumption, WindowAssumption DEF Init, BurstInCredit, NumPktsToSend

(* Only OpenWindow enters "send", and nothing moves the window there.      *)
LEMMA BurstInCreditStep ==
  ASSUME IInv, BurstInCredit, [Next]_vars
  PROVE  BurstInCredit'
<1>1. NumPktsToSend \in Nat
  BY CreditBound DEF CreditBounded
<1>2. CASE SendBatch
  BY <1>2 DEF SendBatch, BurstInCredit
<1>3. CASE PollAcks
  BY <1>3 DEF PollAcks, BurstInCredit
<1>4. CASE SenderAck
  BY <1>4 DEF SenderAck, BurstInCredit
<1>5. CASE OpenWindow
  <2>1. MinOf(NumPktsToSend, MaxPktBurst) <= NumPktsToSend
    BY <1>1, SizesAssumption
  <2>2. NumPktsToSend' = NumPktsToSend
    BY <1>5 DEF OpenWindow, NumPktsToSend
  <2> QED BY <1>5, <2>1, <2>2 DEF OpenWindow, BurstInCredit
<1>6. CASE FinalFlush
  BY <1>6 DEF FinalFlush, BurstInCredit
<1>7. CASE ReceiverNext \/ CableNext \/ UNCHANGED vars
  <2>1. UNCHANGED sender
    BY <1>7 DEF ReceiverNext, CableNext, Boot, SendReset, ProcessBurst, Crash,
       DataArrives, DataLost, AckArrives, vars
  <2> QED BY <2>1 DEF sender, BurstInCredit, NumPktsToSend
<1> QED BY <1>2, <1>3, <1>4, <1>5, <1>6, <1>7 DEF Next, SenderNext

(* A step that leaves the flight and the starts alone grants credit.       *)
LEMMA GrantStep ==
  ASSUME CreditBounded', InFlight' = InFlight, hist'.resets = hist.resets
  PROVE  Credit!Grant
BY DEF Credit!Grant, CreditBounded

(* A step that leaves the window and the starts alone, and moves packets   *)
(* nearer to the end of their way, stutters or lets packets leave.         *)
LEMMA LeaveStep ==
  ASSUME InFlight' \in 0..InFlight, InFlight \in Nat,
         wnd_s' = wnd_s, wnd_e' = wnd_e, hist'.resets = hist.resets
  PROVE  [Credit!Next]_Credit!vars
<1>1. NumPktsToSend' = NumPktsToSend
  BY DEF NumPktsToSend
<1>2. CASE InFlight' = InFlight
  BY <1>1, <1>2 DEF Credit!vars
<1>3. CASE InFlight' # InFlight
  <2>1. InFlight' \in 0..(InFlight - 1)
    BY <1>3
  <2> QED BY <1>1, <2>1 DEF Credit!Leave, Credit!Next
<1> QED BY <1>2, <1>3

(* packet_send of n packets adds n to the flight, flushed or not.          *)
LEMMA PacketSendInFlight ==
  ASSUME TypeOK, NEW n \in Nat, PacketSend(n), rx_ring' = rx_ring
  PROVE  InFlight' = InFlight + n
<1>1. tx_buffer \in Nat /\ cable \in Nat /\ rx_ring \in Nat
  BY SizesAssumption DEF TypeOK
<1>2. (tx_buffer + n) % MaxPktBurst \in Nat
  BY <1>1, SizesAssumption, BufferSplit
<1> HIDE SizesAssumption
<1> QED BY <1>1, <1>2 DEF PacketSend, InFlight

(* Each action of the generator is a step of the window, or none.          *)
LEMMA SenderRefines ==
  ASSUME IInv, BurstInCredit, SenderNext, CreditBounded'
  PROVE  [Credit!Next]_Credit!vars
<1>1. /\ NumPktsToSend \in Nat /\ InFlight \in Nat /\ hist.resets \in Nat
  BY CreditBound DEF CreditBounded
<1>2. CASE SendBatch
  <2>1. /\ sent \in Nat /\ burst_size \in Nat /\ sent < Total /\ TypeOK
        /\ wnd_s \in Nat /\ wnd_e \in Nat /\ WndSize \in Nat
    BY <1>2, TotalType, SizesAssumption DEF SendBatch, IInv, TypeOK
  <2>2. NextBatch \in Nat /\ NextBatch <= burst_size
    BY <2>1, BatchBounds
  <2>3. InFlight' = InFlight + NextBatch
    BY <1>2, <2>1, <2>2, PacketSendInFlight DEF SendBatch
  <2>4. NextBatch <= NumPktsToSend
    BY <1>1, <1>2, <2>1, <2>2 DEF SendBatch, BurstInCredit
  <2>5. NumPktsToSend' = NumPktsToSend - NextBatch
    <3>1. wnd_s' = wnd_s /\ wnd_e' = wnd_e + NextBatch
      BY <1>2 DEF SendBatch
    <3> HIDE DEF NextBatch
    <3> QED BY <2>1, <2>2, <2>4, <3>1 DEF NumPktsToSend
  <2>6. hist' = hist
    BY <1>2 DEF SendBatch
  <2>7. CASE NextBatch = 0
    BY <1>1, <2>3, <2>5, <2>6, <2>7 DEF Credit!vars
  <2>8. CASE NextBatch # 0
    <3>1. NextBatch \in 1..NumPktsToSend
      BY <1>1, <2>2, <2>4, <2>8
    <3> QED BY <2>3, <2>5, <2>6, <3>1 DEF Credit!Send, Credit!Next
  <2> QED BY <2>7, <2>8
<1>3. CASE PollAcks
  <2>1. InFlight' = InFlight /\ wnd_s' = wnd_s /\ wnd_e' = wnd_e /\ hist' = hist
    BY <1>3 DEF PollAcks, InFlight
  <2> QED BY <1>1, <2>1, LeaveStep
<1>4. CASE SenderAck
  <2>1. InFlight' = InFlight
    BY <1>4 DEF SenderAck, InFlight
  <2>2. CASE Head(acks).reset
    <3>0. hist \in HistType
      BY DEF IInv, TypeOK
    <3>1. /\ wnd_s' = Head(acks).seq /\ wnd_e' = Head(acks).seq
          /\ hist'.resets = hist.resets + 1
      BY <1>4, <2>2, <3>0 DEF SenderAck, ResetEnd, HistType
    <3>2. Head(acks).seq \in Nat
      <4>1. acks \in Seq(Message) /\ npkts \in Nat /\ arrived \in Nat /\ npkts + arrived <= Len(acks)
        BY DEF IInv, TypeOK
      <4>2. npkts > 0
        BY <1>4 DEF SenderAck
      <4>3. acks # <<>>
        BY <4>1, <4>2
      <4>4. Head(acks) \in Message
        BY <4>1, <4>3
      <4> QED BY <4>4 DEF Message
    <3>3. NumPktsToSend' = WndSize
      BY <3>1, <3>2, SizesAssumption DEF NumPktsToSend
    <3> QED BY <1>1, <2>1, <3>1, <3>3 DEF Credit!StartOver, Credit!Next
  <2>3. CASE ~Head(acks).reset
    <3>0. hist \in HistType
      BY DEF IInv, TypeOK
    <3>1. hist'.resets = hist.resets
      BY <1>4, <2>3, <3>0 DEF SenderAck, HistType
    <3> QED BY <2>1, <3>1, GrantStep DEF Credit!Next
  <2> QED BY <2>2, <2>3
<1>5. CASE OpenWindow
  <2>1. InFlight' = InFlight /\ wnd_s' = wnd_s /\ wnd_e' = wnd_e /\ hist' = hist
    BY <1>5 DEF OpenWindow, InFlight
  <2> QED BY <1>1, <2>1, LeaveStep
<1>6. CASE FinalFlush
  <2>1. wnd_s' = wnd_s /\ wnd_e' = wnd_e /\ hist' = hist
    BY <1>6 DEF FinalFlush
  <2>2. tx_buffer \in Nat /\ cable \in Nat /\ rx_ring \in Nat
    BY SizesAssumption DEF IInv, TypeOK
  <2>3. InFlight' = InFlight
    BY <1>6, <2>2 DEF FinalFlush, InFlight
  <2> QED BY <1>1, <2>1, <2>3, LeaveStep
<1> QED BY <1>2, <1>3, <1>4, <1>5, <1>6 DEF SenderNext

(* What has passed through the cable and the ring was in flight before.    *)
LEMMA FlightShrinks ==
  ASSUME NEW t \in Nat, NEW c \in Nat, NEW r \in Nat, NEW d \in Nat, NEW s \in Nat,
         d + s <= c + r
  PROVE  t + d + s \in 0..(t + c + r)
OBVIOUS

(* The receiver and the cable only let packets leave.                      *)
LEMMA OthersRefine ==
  ASSUME IInv, ReceiverNext \/ CableNext
  PROVE  [Credit!Next]_Credit!vars
<1>1. /\ tx_buffer \in Nat /\ cable \in Nat /\ rx_ring \in Nat /\ InFlight \in Nat
      /\ RxDesc \in Nat
  BY SizesAssumption, CreditBound DEF IInv, TypeOK, CreditBounded
<1>2. wnd_s' = wnd_s /\ wnd_e' = wnd_e /\ tx_buffer' = tx_buffer
  BY DEF ReceiverNext, CableNext, Boot, SendReset, ProcessBurst, Crash,
     DataArrives, DataLost, AckArrives, sender
<1>3. hist'.resets = hist.resets
  <2>1. hist \in HistType
    BY DEF IInv, TypeOK
  <2>2. CASE ProcessBurst
    BY <2>1, <2>2 DEF ProcessBurst, HistType
  <2>3. CASE ~ProcessBurst
    BY <2>3 DEF ReceiverNext, CableNext, Boot, SendReset, Crash, DataArrives, DataLost, AckArrives
  <2> QED BY <2>2, <2>3
<1>4. cable' + rx_ring' <= cable + rx_ring /\ cable' \in Nat /\ rx_ring' \in Nat
  <2>1. CASE Boot \/ SendReset \/ AckArrives
    BY <1>1, <2>1 DEF Boot, SendReset, AckArrives, receiver
  <2>2. CASE ProcessBurst
    BY <1>1, <2>2, SizesAssumption DEF ProcessBurst
  <2>3. CASE Crash
    BY <1>1, <2>3 DEF Crash
  <2>4. CASE DataArrives
    BY <1>1, <2>4 DEF DataArrives
  <2>5. CASE DataLost
    BY <1>1, <2>5 DEF DataLost
  <2> QED BY <2>1, <2>2, <2>3, <2>4, <2>5 DEF ReceiverNext, CableNext
<1>5. InFlight' \in 0..InFlight
  <2>2. /\ InFlight = tx_buffer + cable + rx_ring
        /\ InFlight' = tx_buffer + cable' + rx_ring'
    BY <1>2 DEF InFlight
  <2> QED BY <1>1, <1>4, <2>2, FlightShrinks
<1> QED BY <1>1, <1>2, <1>3, <1>5, LeaveStep

(* The loop of the two programs implements the abstract window, for every  *)
(* size, burst, ring and pool, and whatever is lost or restarted.          *)
THEOREM WindowImplemented == Spec => ImplementsWindow
<1>1. Init => Credit!Init
  BY SizesAssumption DEF Init, Credit!Init, InFlight, NumPktsToSend
<1>2. IInv /\ BurstInCredit /\ [Next]_vars => BurstInCredit'
  BY BurstInCreditStep
<1>3. IInv /\ BurstInCredit /\ CreditBounded' /\ [Next]_vars => [Credit!Next]_Credit!vars
  <2> SUFFICES ASSUME IInv, BurstInCredit, CreditBounded', [Next]_vars
               PROVE  [Credit!Next]_Credit!vars
    OBVIOUS
  <2>1. CASE SenderNext
    BY <2>1, SenderRefines
  <2>2. CASE ReceiverNext \/ CableNext
    BY <2>2, OthersRefine
  <2>3. CASE UNCHANGED vars
    BY <2>3 DEF vars, sender, receiver, Credit!vars, InFlight, NumPktsToSend
  <2> QED BY <2>1, <2>2, <2>3 DEF Next
<1> QED BY <1>1, <1>2, <1>3, Invariance, CreditBound, BurstInCreditInit, PTL
        DEF Spec, ImplementsWindow, Credit!Spec

----------------------------------------------------------------------------
(* What holds while no reset and no ack is lost: the window never moves    *)
(* back and is never overrun, for any number of restarts; and, with or     *)
(* without loss, a window that is lost as a whole stays lost.              *)

(* The oldest message does not move the window back.                       *)
FirstAbove == acks # <<>> => acks[1].reset \/ wnd_s <= acks[1].seq + 1

(* Counts rise along the queue, up to the next reset.                      *)
CountsRise == \A i \in 1..(Len(acks) - 1) : acks[i + 1].reset \/ acks[i].seq <= acks[i + 1].seq

(* A running receiver goes on from the count that it sent last.            *)
LastBelow ==
  rpc = "running" => IF acks = <<>> THEN wnd_s <= last_ack + 1 ELSE acks[Len(acks)].seq <= last_ack

WindowKept ==
  /\ wnd_e <= wnd_s + WndSize
  /\ spc = "send" => wnd_e + burst_size <= wnd_s + WndSize

LosslessInv == ackLost = 0 => FirstAbove /\ CountsRise /\ LastBelow /\ WindowKept

LEMMA InitLossless == Init => LosslessInv
  BY SizesAssumption, WindowAssumption
  DEF Init, LosslessInv, FirstAbove, CountsRise, LastBelow, WindowKept

(* What only concerns the window, for steps that leave the messages alone. *)
LEMMA QueueUntouched ==
  ASSUME LosslessInv, ackLost = 0, UNCHANGED <<acks, wnd_s, last_ack, rpc>>
  PROVE  FirstAbove' /\ CountsRise' /\ LastBelow'
<1>1. FirstAbove'
  BY DEF LosslessInv, FirstAbove
<1>2. CountsRise'
  BY DEF LosslessInv, CountsRise
<1>3. LastBelow'
  BY DEF LosslessInv, LastBelow
<1> QED BY <1>1, <1>2, <1>3

(* Sending a batch or computing the next one stays within the window.      *)
LEMMA LoopLossless ==
  ASSUME TypeOK, LosslessInv, SendBatch \/ PollAcks \/ OpenWindow \/ FinalFlush
  PROVE  LosslessInv'
<1> SUFFICES ASSUME ackLost' = 0 PROVE (FirstAbove /\ CountsRise /\ LastBelow /\ WindowKept)'
  BY DEF LosslessInv
<1>1. ackLost = 0 /\ UNCHANGED <<acks, wnd_s, last_ack, rpc>>
  BY DEF SendBatch, PollAcks, OpenWindow, FinalFlush, receiver
<1>2. FirstAbove' /\ CountsRise' /\ LastBelow'
  BY <1>1, QueueUntouched
<1>3. WindowKept
  BY <1>1 DEF LosslessInv
<1>4. WindowKept'
  <2>1. CASE SendBatch
    <3>1. NextBatch \in Nat /\ NextBatch <= burst_size
      BY <2>1, BatchBounds, CountTypes DEF SendBatch
    <3> QED BY <2>1, <3>1, <1>3, CountTypes DEF SendBatch, WindowKept
  <2>2. CASE PollAcks
    BY <2>2, <1>3 DEF PollAcks, WindowKept
  <2>3. CASE OpenWindow
    <3>1. NumPktsToSend \in Nat /\ (NumPktsToSend > 0 => wnd_e + NumPktsToSend = wnd_s + WndSize)
      BY CountTypes, WindowType
    <3>2. burst_size' \in Nat /\ burst_size' <= NumPktsToSend
      BY <2>3, <3>1, CountTypes DEF OpenWindow
    <3>3. spc' = "send" => burst_size' # 0
      BY <2>3 DEF OpenWindow
    <3> QED BY <2>3, <3>1, <3>2, <3>3, <1>3, CountTypes DEF OpenWindow, WindowKept
  <2>4. CASE FinalFlush
    BY <2>4, <1>3 DEF FinalFlush, WindowKept
  <2> QED BY <2>1, <2>2, <2>3, <2>4
<1> QED BY <1>2, <1>4

(* The oldest message hands its place to one that is no older than itself. *)
LEMMA AckLossless ==
  ASSUME TypeOK, LosslessInv, SenderAck
  PROVE  LosslessInv'
<1> SUFFICES ASSUME ackLost' = 0 PROVE (FirstAbove /\ CountsRise /\ LastBelow /\ WindowKept)'
  BY DEF LosslessInv
<1> DEFINE m == Head(acks)
<1>0. ackLost = 0 /\ FirstAbove /\ CountsRise /\ LastBelow /\ WindowKept
  BY DEF SenderAck, LosslessInv
<1>1. acks \in Seq(Message) /\ acks # <<>>
  <2>1. acks \in Seq(Message) /\ npkts > 0 /\ npkts + arrived <= Len(acks)
        /\ npkts \in Nat /\ arrived \in Nat
    BY DEF TypeOK, SenderAck
  <2>2. Len(acks) # 0
    BY <2>1
  <2> QED BY <2>1, <2>2
<1>2. /\ m = acks[1] /\ m \in Message /\ m.seq \in Nat
      /\ acks' \in Seq(Message) /\ Len(acks') = Len(acks) - 1 /\ Len(acks) \in Nat \ {0}
      /\ \A i \in 1..Len(acks') : acks'[i] = acks[i + 1]
  <2>1. acks' = Tail(acks)
    BY DEF SenderAck
  <2>2. m \in Message
    BY <1>1, TailFacts
  <2> QED BY <1>1, <2>1, <2>2, TailFacts DEF Message
<1>3. /\ m.reset => wnd_s' = m.seq /\ wnd_e' = m.seq
      /\ ~m.reset => wnd_s' = m.seq + 1 /\ wnd_e' = wnd_e /\ wnd_s <= m.seq + 1
      /\ spc' = "drain" /\ rpc' = rpc /\ last_ack' = last_ack
  BY <1>0, <1>1, <1>2 DEF SenderAck, ResetEnd, AckedUpTo, FirstAbove, receiver
<1> HIDE DEF m
<1>4. wnd_s' \in Nat /\ wnd_s' <= m.seq + 1
  BY <1>2, <1>3
<1>5. FirstAbove'
  <2> SUFFICES ASSUME acks' # <<>> PROVE acks'[1].reset \/ wnd_s' <= acks'[1].seq + 1
    BY DEF FirstAbove
  <2>1. Len(acks') >= 1
    BY <1>2
  <2>2. acks'[1] = acks[2] /\ 1 \in 1..(Len(acks) - 1)
    BY <1>2, <2>1
  <2>3. acks[2].reset \/ m.seq <= acks[2].seq
    BY <1>0, <1>2, <2>2 DEF CountsRise
  <2>4. acks'[1].seq \in Nat
    <3>1. acks'[1] \in Message
      BY <1>2, <2>1
    <3> QED BY <3>1 DEF Message
  <2> QED BY <1>2, <1>4, <2>2, <2>3, <2>4
<1>6. CountsRise'
  <2> SUFFICES ASSUME NEW i \in 1..(Len(acks') - 1) PROVE acks'[i + 1].reset \/ acks'[i].seq <= acks'[i + 1].seq
    BY DEF CountsRise
  <2>1. i \in 1..Len(acks') /\ i + 1 \in 1..Len(acks') /\ i + 1 \in 1..(Len(acks) - 1)
    BY <1>2
  <2> QED BY <1>0, <1>2, <2>1 DEF CountsRise
<1>7. LastBelow'
  <2> SUFFICES ASSUME rpc = "running"
               PROVE  IF acks' = <<>> THEN wnd_s' <= last_ack + 1 ELSE acks'[Len(acks')].seq <= last_ack
    BY <1>3 DEF LastBelow
  <2>1. acks[Len(acks)].seq <= last_ack /\ last_ack \in Nat
    BY <1>0, <1>1, CountTypes DEF LastBelow
  <2>2. CASE acks' = <<>>
    <3>1. Len(acks) = 1
      BY <1>2, <2>2
    <3> QED BY <1>2, <1>4, <2>1, <2>2, <3>1
  <2>3. CASE acks' # <<>>
    <3>1. Len(acks') \in 1..Len(acks') /\ Len(acks') + 1 = Len(acks)
      BY <1>2, <2>3
    <3>2. acks'[Len(acks')] = acks[Len(acks)]
      BY <1>2, <3>1
    <3> QED BY <2>1, <2>3, <3>2
  <2> QED BY <2>2, <2>3
<1>8. WindowKept'
  <2>1. wnd_s \in Nat /\ wnd_e \in Nat /\ WndSize \in Nat
    BY CountTypes
  <2>2. CASE m.reset
    BY <1>2, <1>3, <2>1, <2>2 DEF WindowKept
  <2>3. CASE ~m.reset
    <3>1. wnd_e <= wnd_s + WndSize /\ wnd_s <= m.seq + 1
      BY <1>0, <1>3, <2>3 DEF WindowKept
    <3> QED BY <1>2, <1>3, <2>1, <2>3, <3>1 DEF WindowKept
  <2> QED BY <2>2, <2>3
<1> QED BY <1>5, <1>6, <1>7, <1>8

(* A message that is not lost goes behind one it does not contradict.      *)
LEMMA TransmitLossless ==
  ASSUME TypeOK, LosslessInv, NEW m \in Message, Transmit(m), ackLost' = 0,
         UNCHANGED <<wnd_s, wnd_e, spc, burst_size>>,
         m.reset \/ (rpc = "running" /\ last_ack <= m.seq),
         m.seq <= last_ack'
  PROVE  (FirstAbove /\ CountsRise /\ LastBelow /\ WindowKept)'
<1>1. ackLost \in Nat
  BY BoundsAssumption DEF TypeOK
<1>2. ackLost = 0 /\ acks' = Append(acks, m)
  BY <1>1 DEF Transmit
<1>3. FirstAbove /\ CountsRise /\ LastBelow /\ WindowKept
  BY <1>2 DEF LosslessInv
<1>4. /\ acks' \in Seq(Message) /\ Len(acks') = Len(acks) + 1 /\ Len(acks) \in Nat
      /\ acks'[Len(acks) + 1] = m
      /\ \A i \in 1..Len(acks) : acks'[i] = acks[i]
  BY <1>2, AppendFacts DEF TypeOK
<1>5. /\ m.seq \in Nat /\ last_ack \in Nat /\ wnd_s \in Nat
      /\ \A i \in 1..Len(acks) : acks[i].seq \in Nat
  BY CountTypes, MessageType DEF TypeOK, Message
<1>6. FirstAbove'
  <2>1. CASE acks = <<>>
    <3>1. acks'[1] = m
      BY <1>4, <2>1
    <3>2. m.reset \/ wnd_s <= m.seq + 1
      BY <1>3, <1>5, <2>1 DEF LastBelow
    <3> QED BY <3>1, <3>2 DEF FirstAbove
  <2>2. CASE acks # <<>>
    <3>1. 1 \in 1..Len(acks)
      BY <1>4, <2>2 DEF TypeOK
    <3>2. acks'[1] = acks[1]
      BY <1>4, <3>1
    <3> QED BY <1>3, <2>2, <3>2 DEF FirstAbove
  <2> QED BY <2>1, <2>2
<1>7. CountsRise'
  <2> SUFFICES ASSUME NEW i \in 1..(Len(acks') - 1) PROVE acks'[i + 1].reset \/ acks'[i].seq <= acks'[i + 1].seq
    BY DEF CountsRise
  <2>1. i \in 1..Len(acks) /\ acks'[i] = acks[i]
    BY <1>4
  <2>2. CASE i = Len(acks)
    <3>1. acks'[i + 1] = m
      BY <1>4, <2>2
    <3>2. acks # <<>>
      BY <2>1
    <3>3. m.reset \/ acks[i].seq <= last_ack
      BY <1>3, <2>2, <3>2 DEF LastBelow
    <3> QED BY <1>5, <2>1, <3>1, <3>3
  <2>3. CASE i # Len(acks)
    <3>1. i + 1 \in 1..Len(acks) /\ i \in 1..(Len(acks) - 1)
      BY <1>4, <2>1, <2>3
    <3> QED BY <1>3, <1>4, <2>1, <3>1 DEF CountsRise
  <2> QED BY <2>2, <2>3
<1>8. LastBelow'
  <2>1. acks' # <<>> /\ acks'[Len(acks')] = m
    BY <1>4
  <2> QED BY <2>1 DEF LastBelow
<1>9. WindowKept'
  BY <1>3 DEF WindowKept
<1> QED BY <1>6, <1>7, <1>8, <1>9

LEMMA ReceiverLossless ==
  ASSUME TypeOK, LosslessInv, ReceiverNext
  PROVE  LosslessInv'
<1> SUFFICES ASSUME ackLost' = 0 PROVE (FirstAbove /\ CountsRise /\ LastBelow /\ WindowKept)'
  BY DEF LosslessInv
<1>1. CASE Boot \/ Crash
  <2>1. /\ ackLost = 0 /\ rpc' # "running"
        /\ UNCHANGED <<acks, wnd_s, wnd_e, spc, burst_size>>
    BY <1>1 DEF Boot, Crash, sender
  <2> QED BY <2>1 DEF LosslessInv, FirstAbove, CountsRise, LastBelow, WindowKept
<1>2. CASE SendReset
  <2> DEFINE m == [reset |-> TRUE, seq |-> 0, at |-> hist.received]
  <2>1. m \in Message /\ m.reset /\ m.seq = 0
    BY CountTypes DEF Message
  <2>2. Transmit(m) /\ last_ack' = 0 /\ UNCHANGED <<wnd_s, wnd_e, spc, burst_size>>
    BY <1>2 DEF SendReset, sender
  <2> HIDE DEF m
  <2> QED BY <2>1, <2>2, TransmitLossless
<1>3. CASE ProcessBurst
  <2> DEFINE n == MinOf(rx_ring, ReceiverRxBurst)
             m == [reset |-> FALSE, seq |-> last_ack', at |-> hist'.received]
  <2>1. n \in Nat /\ last_ack' = last_ack + n /\ last_ack \in Nat
    BY <1>3, CountTypes, SizesAssumption DEF ProcessBurst, RunningCount
  <2>2. hist'.received = hist.received + n /\ hist.received \in Nat
    <3> HIDE DEF n
    <3>1. hist \in HistType /\ hist' = [hist EXCEPT !.received = @ + n]
      BY <1>3 DEF ProcessBurst, TypeOK, n
    <3> QED BY <3>1 DEF HistType
  <2>3. Transmit(m) /\ rpc = "running" /\ UNCHANGED <<wnd_s, wnd_e, spc, burst_size>>
    BY <1>3 DEF ProcessBurst, sender
  <2> HIDE DEF n
  <2>4. m \in Message /\ m.seq = last_ack' /\ last_ack <= m.seq
    BY <2>1, <2>2 DEF Message
  <2> HIDE DEF m
  <2>5. last_ack' \in Nat
    BY <2>1
  <2> QED BY <2>3, <2>4, <2>5, TransmitLossless
<1> QED BY <1>1, <1>2, <1>3 DEF ReceiverNext

LEMMA LosslessStep == TypeOK /\ LosslessInv /\ [Next]_vars => LosslessInv'
<1> SUFFICES ASSUME TypeOK, LosslessInv, [Next]_vars PROVE LosslessInv'
  OBVIOUS
<1>1. CASE SenderNext
  BY <1>1, LoopLossless, AckLossless DEF SenderNext
<1>2. CASE ReceiverNext
  BY <1>2, ReceiverLossless
<1>3. CASE CableNext \/ UNCHANGED vars
  <2>1. UNCHANGED <<acks, wnd_s, wnd_e, spc, burst_size, rpc, last_ack, ackLost>>
    BY <1>3 DEF CableNext, DataArrives, DataLost, AckArrives, vars, sender, receiver
  <2> QED BY <2>1 DEF LosslessInv, FirstAbove, CountsRise, LastBelow, WindowKept
<1> QED BY <1>1, <1>2, <1>3 DEF Next

(* Without lost messages the queue of acks and the window agree in every   *)
(* behaviour, across all restarts of the receiver.                         *)
THEOREM LosslessInvariance == Spec => []LosslessInv
BY InitLossless, LosslessStep, TypeCorrect, PTL DEF Spec

(* Without lost messages fll_num_pkts_to_send never finds the generator    *)
(* past the end of its window.                                             *)
THEOREM WindowNotOverrun == Spec => []WithinWindow
<1>1. LosslessInv => WithinWindow
  BY DEF LosslessInv, WindowKept, WithinWindow
<1> QED BY <1>1, LosslessInvariance, PTL

(* fll_ack stores whatever count it is given; without lost messages that   *)
(* never moves the window back, except at a reset.                         *)
THEOREM WindowMovesOn == Spec => WindowNeverRetreats
<1> DEFINE Moves == ackLost = 0 => wnd_s' >= wnd_s \/ hist'.resets > hist.resets
<1>1. TypeOK /\ LosslessInv /\ [Next]_vars => [Moves]_vars
  <2> SUFFICES ASSUME TypeOK, LosslessInv, Next, ackLost = 0
               PROVE  wnd_s' >= wnd_s \/ hist'.resets > hist.resets
    OBVIOUS
  <2>1. CASE SenderAck
    <3>1. acks # <<>> /\ Head(acks) = acks[1]
      <4>1. acks \in Seq(Message) /\ npkts > 0 /\ npkts + arrived <= Len(acks)
            /\ npkts \in Nat /\ arrived \in Nat
        BY <2>1 DEF TypeOK, SenderAck
      <4>2. Len(acks) # 0
        BY <4>1
      <4> QED BY <4>1, <4>2, TailFacts
    <3>2. CASE Head(acks).reset
      <4>1. hist'.resets = hist.resets + 1
        <5>1. hist \in HistType
          BY DEF TypeOK
        <5>2. hist' = [hist EXCEPT !.seen = Head(acks).at, !.mark = Head(acks).at, !.resets = @ + 1,
                                   !.slack = InFlight + hist.received - Head(acks).at]
          BY <2>1, <3>2 DEF SenderAck
        <5> QED BY <5>1, <5>2 DEF HistType
      <4> QED BY <4>1, CountTypes
    <3>3. CASE ~Head(acks).reset
      <4>1. wnd_s' = acks[1].seq + 1
        BY <2>1, <3>1, <3>3 DEF SenderAck, AckedUpTo
      <4>2. wnd_s <= acks[1].seq + 1
        BY <3>1, <3>3 DEF LosslessInv, FirstAbove
      <4>3. acks[1].seq \in Nat
        <5>1. acks \in Seq(Message) /\ Head(acks) \in Message
          BY <3>1, TailFacts DEF TypeOK
        <5> QED BY <3>1, <5>1 DEF Message
      <4> QED BY <4>1, <4>2, <4>3, CountTypes
    <3> QED BY <3>2, <3>3
  <2>2. CASE ~SenderAck
    <3>1. wnd_s' = wnd_s
      BY <2>2 DEF Next, SenderNext, SendBatch, PollAcks, OpenWindow, FinalFlush, ReceiverNext, Boot,
         SendReset, ProcessBurst, Crash, CableNext, DataArrives, DataLost, AckArrives, sender
    <3> QED BY <3>1, CountTypes
  <2> QED BY <2>1, <2>2
<1> QED BY <1>1, LosslessInvariance, TypeCorrect, PTL DEF Spec, WindowNeverRetreats

(* A loop that has lost its whole window takes no step that frees it, at   *)
(* any size of it: only a restart of the receiver does.                    *)
THEOREM WedgedStays == Spec => WedgedUntilRestart
<1>1. TypeOK /\ [Next]_vars => [Wedged => Wedged' \/ restarts' > restarts]_vars
  <2> SUFFICES ASSUME TypeOK, Next, Wedged PROVE Wedged' \/ restarts' > restarts
    OBVIOUS
  <2> USE DEF Wedged
  <2>0. npkts = 0 /\ arrived = 0
    <3>1. npkts \in Nat /\ arrived \in Nat /\ npkts + arrived <= 0
      BY DEF TypeOK
    <3> QED BY <3>1
  <2>1. CASE PollAcks
    BY <2>1 DEF PollAcks, receiver, NumPktsToSend
  <2>2. CASE OpenWindow
    <3>1. burst_size' = 0
      BY <2>2, CountTypes DEF OpenWindow
    <3> QED BY <2>2, <3>1 DEF OpenWindow, receiver, NumPktsToSend
  <2>3. CASE Crash
    BY <2>3, CountTypes DEF Crash, TypeOK
  <2>4. ~SendBatch /\ ~FinalFlush /\ ~SenderAck
    BY <2>0 DEF SendBatch, FinalFlush, SenderAck
  <2>5. ~Boot /\ ~SendReset /\ ~ProcessBurst
    BY DEF Boot, SendReset, ProcessBurst
  <2>6. ~DataArrives /\ ~DataLost /\ ~AckArrives
    BY <2>0 DEF DataArrives, DataLost, AckArrives
  <2> QED BY <2>1, <2>2, <2>3, <2>4, <2>5, <2>6 DEF Next, SenderNext, ReceiverNext, CableNext
<1> QED BY <1>1, TypeCorrect, PTL DEF Spec, WedgedUntilRestart

============================================================================
