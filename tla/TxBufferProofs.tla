--------------------------- MODULE TxBufferProofs ---------------------------
(* IInv is inductive for all sizes with a pool that covers buffer and NIC; *)
(* packets stay in order and the pool is never found empty.                *)
EXTENDS TxBuffer, SequenceTheorems, TLAPS

USE DEF MinOf

----------------------------------------------------------------------------
(* What the NIC takes is a prefix of the buffer and fits its ring.         *)
LEMMA TakenBounds ==
  ASSUME IInv, NEW taken, taken = MinOf(length, TxDesc - Len(nic))
  PROVE  taken \in 0..length /\ Len(nic) + taken <= TxDesc
<1>1. length \in Nat /\ Len(nic) \in Nat /\ done \in Nat /\ Len(nic) + done <= TxDesc
  BY LenProperties DEF IInv, TypeOK
<1> QED
  BY <1>1, TxAssumption

LEMMA InitIInv == Init => IInv
<1> SUFFICES ASSUME Init PROVE IInv
  OBVIOUS
<1>1. TypeOK
  BY TxAssumption DEF Init, TypeOK
<1>2. MbufsConserved
  BY TxAssumption DEF Init, MbufsConserved
<1> QED
  BY <1>1, <1>2 DEF Init, IInv

LEMMA PacketSendStep == IInv /\ PacketSend => IInv'
<1> SUFFICES ASSUME IInv, PacketSend PROVE IInv'
  OBVIOUS
<1>1. /\ length \in 0..(BufSize - 1) /\ sent \in Nat /\ free \in Nat /\ free > 0
      /\ Len(wire) \in Nat /\ Len(nic) \in Nat /\ done \in Nat /\ BufSize \in Nat /\ MaxSent \in Nat
  BY TxAssumption, LenProperties DEF IInv, TypeOK, PacketSend
<1>2. \A i \in 1..BufSize : pkts'[i] = IF i = length + 1 THEN sent + 1 ELSE pkts[i]
  BY <1>1 DEF IInv, TypeOK, PacketSend
<1>3. TypeOK'
  <2>1. pkts' \in [1..BufSize -> 0..MaxSent] /\ sent' \in 0..MaxSent
    BY <1>1 DEF IInv, TypeOK, PacketSend
  <2>2. length' \in 0..BufSize /\ pc' \in {"idle", "flush"} /\ (pc' = "idle" => length' < BufSize)
    BY <1>1 DEF PacketSend, FlushWhenFull
  <2> QED
    BY <1>1, <2>1, <2>2 DEF IInv, TypeOK, PacketSend
<1>4. MbufsConserved'
  BY <1>1 DEF IInv, MbufsConserved, PacketSend
<1>5. Len(wire') + Len(nic') + length' = sent'
  BY <1>1 DEF IInv, PacketSend
<1>6. \A i \in 1..length' : pkts'[i] = Len(wire') + Len(nic') + i
  <2> SUFFICES ASSUME NEW i \in 1..(length + 1) PROVE pkts'[i] = Len(wire) + Len(nic) + i
    BY DEF PacketSend
  <2>1. CASE i = length + 1
    BY <1>1, <1>2, <2>1 DEF IInv
  <2>2. CASE i # length + 1
    BY <1>1, <1>2, <2>2 DEF IInv
  <2> QED BY <2>1, <2>2
<1> QED
  BY <1>3, <1>4, <1>5, <1>6 DEF IInv, PacketSend

LEMMA FlushStep == IInv /\ Flush => IInv'
  BY DEF IInv, TypeOK, MbufsConserved, Flush

LEMMA TxBurstStep == IInv /\ TxBurst => IInv'
<1> SUFFICES ASSUME IInv, TxBurst PROVE IInv'
  OBVIOUS
<1> DEFINE taken == MinOf(length, TxDesc - Len(nic))
           batch == SubSeq(pkts, 1, taken)
<1>1. taken \in 0..length /\ Len(nic) + taken <= TxDesc
  BY TakenBounds
<1>2. /\ length \in 0..BufSize /\ sent \in Nat /\ free \in Nat /\ done \in Nat /\ TxPool \in Nat
      /\ Len(wire) \in Nat /\ Len(nic) \in Nat /\ BufSize \in Nat \ {0} /\ MaxSent \in Nat
      /\ nic \in Seq(1..MaxSent) /\ pkts \in [1..BufSize -> 0..MaxSent] /\ sent <= MaxSent
  BY TxAssumption, LenProperties DEF IInv, TypeOK
<1>3. /\ nic' = nic \o batch /\ done' = 0 /\ free' = free + done
      /\ pkts' = [i \in 1..BufSize |-> IF i <= length - taken THEN pkts[taken + i] ELSE pkts[i]]
      /\ length' = length - taken /\ pc' = FlushWhenFull(length - taken)
      /\ wire' = wire /\ sent' = sent
  BY DEF TxBurst, Rebuffer
<1> HIDE DEF taken
<1>bounds. taken \in Nat /\ length \in Nat /\ Len(nic) \in Nat /\ Len(wire) \in Nat /\ taken <= length
  BY <1>1, <1>2
<1>4. \A i \in 1..taken : pkts[i] \in 1..MaxSent /\ pkts[i] = Len(wire) + Len(nic) + i
  BY <1>1, <1>2 DEF IInv
<1>5. batch \in Seq(1..MaxSent) /\ Len(batch) = taken /\ \A i \in 1..taken : batch[i] = pkts[i]
  BY <1>1, <1>4, SubSeqProperties
<1> HIDE DEF batch
<1>6. /\ nic' \in Seq(1..MaxSent) /\ Len(nic') = Len(nic) + taken
      /\ \A i \in 1..Len(nic) : nic'[i] = nic[i]
      /\ \A i \in 1..taken : nic'[Len(nic) + i] = batch[i]
  <2>1. /\ nic \o batch \in Seq(1..MaxSent) /\ Len(nic \o batch) = Len(nic) + Len(batch)
        /\ \A i \in 1..Len(nic) + Len(batch) :
             (nic \o batch)[i] = IF i <= Len(nic) THEN nic[i] ELSE batch[i - Len(nic)]
    BY <1>2, <1>5, ConcatProperties
  <2> QED
    BY <2>1, <1>1, <1>2, <1>3, <1>5
<1>7. \A i \in 1..length' : pkts'[i] = pkts[taken + i] /\ taken + i \in 1..length
  BY <1>1, <1>2, <1>3
<1>lens. /\ Len(nic') = Len(nic) + taken /\ length' = length - taken /\ wire' = wire /\ sent' = sent
       /\ done' = 0 /\ free' = free + done
  BY <1>3, <1>6
<1>nats. free \in Nat /\ done \in Nat /\ TxPool \in Nat
  BY <1>2
<1>8. TypeOK'
  <2>1. pkts' \in [1..BufSize -> 0..MaxSent]
    <3> SUFFICES ASSUME NEW i \in 1..BufSize
                 PROVE  (IF i <= length - taken THEN pkts[taken + i] ELSE pkts[i]) \in 0..MaxSent
      BY <1>3
    <3> QED BY <1>1, <1>2
  <2>2. length' \in 0..BufSize /\ pc' \in {"idle", "flush"} /\ (pc' = "idle" => length' < BufSize)
    BY <1>1, <1>2, <1>3 DEF FlushWhenFull
  <2>3. done' \in Nat /\ free' \in Nat /\ Len(nic') + done' <= TxDesc
    BY <1>1, <1>2, <1>3, <1>6, TxAssumption
  <2> QED
    BY <2>1, <2>2, <2>3, <1>3, <1>6 DEF IInv, TypeOK
<1>9. MbufsConserved'
  <2>1. free + length + Len(nic) + done = TxPool
    BY DEF IInv, MbufsConserved
  <2>2. free' + length' + Len(nic') + done' = TxPool
    BY <2>1, <1>bounds, <1>lens, <1>nats
  <2> QED BY <2>2 DEF MbufsConserved
<1>10. Len(wire') + Len(nic') + length' = sent'
  <2>1. Len(wire) + Len(nic) + length = sent
    BY DEF IInv
  <2> QED BY <2>1, <1>bounds, <1>lens
<1>11. \A i \in 1..Len(nic') : nic'[i] = Len(wire') + i
  <2> SUFFICES ASSUME NEW i \in 1..(Len(nic) + taken) PROVE nic'[i] = Len(wire) + i
    BY <1>3, <1>6
  <2>1. CASE i <= Len(nic)
    BY <2>1, <1>2, <1>6 DEF IInv
  <2>2. CASE i > Len(nic)
    <3> DEFINE j == i - Len(nic)
    <3>1. j \in 1..taken /\ i = Len(nic) + j
      BY <2>2, <1>bounds
    <3>2. nic'[Len(nic) + j] = pkts[j] /\ pkts[j] = Len(wire) + Len(nic) + j
      BY <3>1, <1>4, <1>5, <1>6
    <3> QED BY <3>1, <3>2, <1>bounds
  <2>3. i \in Int /\ Len(nic) \in Int
    BY <1>bounds
  <2> QED BY <2>1, <2>2, <2>3
<1>12. \A i \in 1..length' : pkts'[i] = Len(wire') + Len(nic') + i
  <2>1. \A i \in 1..length : pkts[i] = Len(wire) + Len(nic) + i
    BY DEF IInv
  <2> SUFFICES ASSUME NEW i \in 1..length' PROVE pkts'[i] = Len(wire') + Len(nic') + i
    OBVIOUS
  <2>2. pkts'[i] = Len(wire) + Len(nic) + (taken + i)
    BY <2>1, <1>7
  <2>3. i \in Nat
    BY <1>bounds, <1>3
  <2> QED BY <2>2, <2>3, <1>bounds, <1>3, <1>6
<1> QED
  BY <1>3, <1>8, <1>9, <1>10, <1>11, <1>12 DEF IInv

LEMMA NicSendsStep == IInv /\ NicSends => IInv'
<1> SUFFICES ASSUME IInv, NicSends PROVE IInv'
  OBVIOUS
<1>1. /\ nic \in Seq(1..MaxSent) /\ wire \in Seq(1..MaxSent) /\ nic # <<>>
      /\ Len(wire) \in Nat /\ Len(nic) \in Nat \ {0} /\ done \in Nat /\ length \in Nat
      /\ free \in Nat /\ TxDesc \in Nat
  BY TxAssumption, EmptySeq, LenProperties DEF IInv, TypeOK, NicSends
<1>2. /\ Head(nic) \in 1..MaxSent /\ Head(nic) = nic[1]
      /\ nic' \in Seq(1..MaxSent) /\ Len(nic') = Len(nic) - 1
      /\ \A i \in 1..Len(nic') : nic'[i] = nic[i + 1]
  <2>1. /\ Head(nic) \in 1..MaxSent /\ Tail(nic) \in Seq(1..MaxSent)
        /\ Len(Tail(nic)) = Len(nic) - 1 /\ \A i \in 1..Len(Tail(nic)) : Tail(nic)[i] = nic[i + 1]
    BY <1>1, HeadTailProperties
  <2>2. Head(nic) = nic[1]
    BY <1>1
  <2>3. nic' = Tail(nic)
    BY DEF NicSends
  <2> QED BY <2>1, <2>2, <2>3
<1>3. /\ wire' \in Seq(1..MaxSent) /\ Len(wire') = Len(wire) + 1
      /\ \A i \in 1..Len(wire) : wire'[i] = wire[i]
      /\ wire'[Len(wire) + 1] = Head(nic)
  BY <1>1, <1>2, AppendProperties DEF NicSends
<1>4. TypeOK'
  BY <1>1, <1>2, <1>3 DEF IInv, TypeOK, NicSends
<1>5. MbufsConserved'
  BY <1>1, <1>2 DEF IInv, MbufsConserved, NicSends
<1>6. Len(wire') + Len(nic') + length' = sent'
  BY <1>1, <1>2, <1>3 DEF IInv, NicSends
<1>7. \A i \in 1..Len(wire') : wire'[i] = i
  <2> SUFFICES ASSUME NEW i \in 1..(Len(wire) + 1) PROVE wire'[i] = i
    BY <1>3
  <2>1. CASE i = Len(wire) + 1
    BY <2>1, <1>1, <1>2, <1>3 DEF IInv
  <2>2. CASE i # Len(wire) + 1
    <3>1. i \in 1..Len(wire)
      BY <2>2, <1>1
    <3> QED BY <3>1, <1>3 DEF IInv
  <2> QED BY <2>1, <2>2
<1>8. \A i \in 1..Len(nic') : nic'[i] = Len(wire') + i
  BY <1>1, <1>2, <1>3 DEF IInv
<1>9. \A i \in 1..length' : pkts'[i] = Len(wire') + Len(nic') + i
  BY <1>1, <1>2, <1>3 DEF IInv, NicSends
<1> QED
  BY <1>4, <1>5, <1>6, <1>7, <1>8, <1>9 DEF IInv

----------------------------------------------------------------------------
(* The inductive invariant holds of every behaviour, for every size.       *)
THEOREM Invariance == Spec => []IInv
<1>1. IInv /\ [Next]_vars => IInv'
  <2> SUFFICES ASSUME IInv, [Next]_vars PROVE IInv'
    OBVIOUS
  <2>1. CASE PacketSend BY <2>1, PacketSendStep
  <2>2. CASE Flush BY <2>2, FlushStep
  <2>3. CASE TxBurst BY <2>3, TxBurstStep
  <2>4. CASE NicSends BY <2>4, NicSendsStep
  <2>5. CASE UNCHANGED vars
    BY <2>5 DEF IInv, TypeOK, MbufsConserved, vars
  <2> QED BY <2>1, <2>2, <2>3, <2>4, <2>5 DEF Next
<1> QED
  BY <1>1, InitIInv, PTL DEF Spec

(* The types of the transmit side, for every size.                         *)
THEOREM TypeCorrect == Spec => []TypeOK
<1>1. IInv => TypeOK
  BY DEF IInv
<1> QED
  BY <1>1, Invariance, PTL

(* An idle buffer is not full, and the pool covers the rest.               *)
LEMMA IInvPoolSuffices == IInv => PoolSuffices
<1> SUFFICES ASSUME IInv, pc = "idle" PROVE free > 0
  BY DEF PoolSuffices
<1>1. /\ length \in Nat /\ length < BufSize /\ Len(nic) \in Nat /\ done \in Nat
      /\ Len(nic) + done <= TxDesc /\ free \in Nat
  BY LenProperties DEF IInv, TypeOK
<1>2. free + length + Len(nic) + done = TxPool
  BY DEF IInv, MbufsConserved
<1> QED
  BY <1>1, <1>2, TxAssumption, TxPoolAssumption

(* packet_send never finds tx_pool empty, with a pool as large as          *)
(* port_configure makes it against the buffer and the transmit ring.       *)
THEOREM PoolNeverEmpty == Spec => []PoolSuffices
BY IInvPoolSuffices, Invariance, PTL

(* From place by place to one sequence.                                    *)
LEMMA IInvFifo == IInv => Fifo
<1> SUFFICES ASSUME IInv PROVE Fifo
  OBVIOUS
<1> DEFINE rest == SubSeq(pkts, 1, length)
           all == wire \o nic \o rest
           count == [i \in 1..sent |-> i]
<1>1. /\ wire \in Seq(1..MaxSent) /\ nic \in Seq(1..MaxSent) /\ length \in Nat /\ sent \in Nat
      /\ Len(wire) \in Nat /\ Len(nic) \in Nat /\ MaxSent \in Nat /\ sent <= MaxSent
      /\ Len(wire) + Len(nic) + length = sent
  BY TxAssumption, LenProperties DEF IInv, TypeOK
<1>2. \A i \in 1..length : pkts[i] \in 1..MaxSent /\ pkts[i] = Len(wire) + Len(nic) + i
  BY <1>1 DEF IInv
<1>3. rest \in Seq(1..MaxSent) /\ Len(rest) = length /\ \A i \in 1..length : rest[i] = pkts[i]
  BY <1>1, <1>2, SubSeqProperties
<1> HIDE DEF rest
<1>4. /\ wire \o nic \in Seq(1..MaxSent) /\ Len(wire \o nic) = Len(wire) + Len(nic)
      /\ \A i \in 1..(Len(wire) + Len(nic)) :
           (wire \o nic)[i] = IF i <= Len(wire) THEN wire[i] ELSE nic[i - Len(wire)]
  BY <1>1, ConcatProperties
<1>5. \A i \in 1..(Len(wire) + Len(nic)) : (wire \o nic)[i] = i
  <2> SUFFICES ASSUME NEW i \in 1..(Len(wire) + Len(nic)) PROVE (wire \o nic)[i] = i
    OBVIOUS
  <2>1. CASE i <= Len(wire)
    BY <2>1, <1>1, <1>4 DEF IInv
  <2>2. CASE i > Len(wire)
    <3> DEFINE j == i - Len(wire)
    <3>1. j \in 1..Len(nic) /\ i = Len(wire) + j /\ ~(i <= Len(wire))
      BY <2>2, <1>1
    <3>2. nic[j] = Len(wire) + j
      BY <3>1 DEF IInv
    <3>3. (wire \o nic)[i] = nic[j]
      BY <3>1, <1>4
    <3> QED BY <3>1, <3>2, <3>3
  <2>3. i \in Int /\ Len(wire) \in Int
    BY <1>1
  <2> QED BY <2>1, <2>2, <2>3
<1> DEFINE front == wire \o nic
<1>6. front \in Seq(1..MaxSent) /\ Len(front) = Len(wire) + Len(nic) /\ \A i \in 1..Len(front) : front[i] = i
  BY <1>1, <1>4, <1>5
<1>7. all = front \o rest
  OBVIOUS
<1> HIDE DEF front, all
<1>8. /\ all \in Seq(1..MaxSent) /\ Len(all) = sent
      /\ \A i \in 1..sent : all[i] = IF i <= Len(front) THEN front[i] ELSE rest[i - Len(front)]
  <2>1. /\ front \o rest \in Seq(1..MaxSent) /\ Len(front \o rest) = Len(front) + Len(rest)
        /\ \A i \in 1..(Len(front) + Len(rest)) :
             (front \o rest)[i] = IF i <= Len(front) THEN front[i] ELSE rest[i - Len(front)]
    BY <1>3, <1>6, ConcatProperties
  <2>2. Len(front) + Len(rest) = sent
    BY <1>1, <1>3, <1>6
  <2> QED BY <2>1, <2>2, <1>7
<1>9. \A i \in 1..sent : all[i] = i
  <2> SUFFICES ASSUME NEW i \in 1..sent PROVE all[i] = i
    OBVIOUS
  <2>1. CASE i <= Len(front)
    BY <2>1, <1>1, <1>6, <1>8
  <2>2. CASE i > Len(front)
    <3> DEFINE j == i - Len(front)
    <3>1. j \in 1..length /\ i = Len(front) + j /\ ~(i <= Len(front))
      BY <2>2, <1>1, <1>6
    <3>2. rest[j] = pkts[j] /\ pkts[j] = Len(wire) + Len(nic) + j
      BY <3>1, <1>2, <1>3
    <3>3. all[i] = rest[j]
      BY <3>1, <1>8
    <3> QED BY <3>1, <3>2, <3>3, <1>6
  <2>3. i \in Int /\ Len(front) \in Int
    BY <1>1, <1>6
  <2> QED BY <2>1, <2>2, <2>3
<1>10. count \in Seq(1..MaxSent) /\ Len(count) = sent /\ \A i \in 1..sent : count[i] = i
  <2>1. \A i \in 1..sent : i \in 1..MaxSent
    BY <1>1
  <2>2. count \in [1..sent -> 1..MaxSent]
    BY <2>1
  <2>3. count \in Seq(1..MaxSent)
    BY <2>2, <1>1, SeqDef
  <2>4. Len(count) \in Nat /\ DOMAIN count = 1..Len(count) /\ DOMAIN count = 1..sent
    BY <2>2, <2>3, LenProperties
  <2> HIDE DEF count
  <2>5. Len(count) = sent
    <3>1. 1..Len(count) = 1..sent /\ Len(count) \in Nat /\ sent \in Nat
      BY <2>4, <1>1
    <3> QED BY <3>1
  <2> QED BY <2>3, <2>5 DEF count
<1> HIDE DEF count
<1>11. all = count
  BY <1>8, <1>9, <1>10, SeqEqual
<1> QED
  BY <1>11 DEF all, rest, count, Fifo

(* Packets reach the NIC once each and in the order of packet_send,        *)
(* however little of the buffer it takes each time.                        *)
THEOREM InOrderOnTheWire == Spec => []Fifo
BY IInvFifo, Invariance, PTL

=============================================================================
