------------------------------ MODULE TxerProofs ------------------------------
(* A whole program around the transmit buffer takes no step that the       *)
(* buffer alone could not: what TxBufferProofs shows of the buffer holds   *)
(* of txer.c on its pool, its polls of the acks and its exit.              *)
(* The receiver sends its messages through a buffer of the same kind, so   *)
(* the same is shown of that one; the two, the window and the messages     *)
(* together show that the transmission never ends in an ack that a full    *)
(* NIC has refused.                                                        *)
EXTENDS Txer, TxBufferProofs, FiniteSetTheorems

(* Every step of txer.c and rxer_test.c is one of the generator's buffer   *)
(* or leaves it alone.                                                     *)
LEMMA StepOfBuffer == TxerNext => [Next]_vars
<1> SUFFICES ASSUME TxerNext PROVE [Next]_vars
  OBVIOUS
<1>1. CASE PacketsPoolZipfian \/ NextBatch \/ EndPass \/ PktsSent \/ SenderAck \/ Poll \/ FreeBuffer
  BY <1>1 DEF PacketsPoolZipfian, NextBatch, EndPass, PktsSent, SenderAck, Poll, FreeBuffer
<1>2. CASE SendOne
  BY <1>2 DEF SendOne, Next
<1>3. CASE LastFlush
  BY <1>3 DEF LastFlush, Next
<1>4. CASE ReceiverNext
  BY <1>4 DEF ReceiverNext, SendReset, ProcessBurst, FlushMessage, Flushed
<1>5. CASE TxNic
  BY <1>5 DEF TxNic, Next
<1>6. CASE AckNic
  BY <1>6 DEF AckNic
<1> QED
  BY <1>1, <1>2, <1>3, <1>4, <1>5, <1>6 DEF TxerNext, GeneratorNext

(* What is shown of the buffer holds of it in the program.                 *)
LEMMA TxerStep == IInv /\ [TxerNext]_txerVars => IInv'
<1> SUFFICES ASSUME IInv, [TxerNext]_txerVars PROVE IInv'
  OBVIOUS
<1>1. [Next]_vars
  BY StepOfBuffer DEF txerVars
<1>2. CASE Next
  BY <1>2, PacketSendStep, FlushStep, TxBurstStep, NicSendsStep DEF Next
<1>3. CASE UNCHANGED vars
  BY <1>3 DEF IInv, TypeOK, MbufsConserved, vars
<1> QED
  BY <1>1, <1>2, <1>3

(* The inductive invariant of the buffer, in the program.                  *)
THEOREM TxerInvariance == TxerSpec => []IInv
<1>1. TxerInit => IInv
  BY InitIInv DEF TxerInit
<1> QED
  BY <1>1, TxerStep, PTL DEF TxerSpec

(* The generator's packets leave once each and in the order in which the   *)
(* loop hands them over, whatever the window, the acks and the NICs do.    *)
THEOREM TxerInOrder == TxerSpec => []Fifo
BY TxerInvariance, IInvFifo, PTL

(* The generator never finds tx_pool empty, at any length of its run.      *)
THEOREM TxerPoolNeverEmpty == TxerSpec => []PoolSuffices
BY TxerInvariance, IInvPoolSuffices, PTL

----------------------------------------------------------------------------
(* The packets on the wire are those of the pool, pass after pass.         *)

(* The place of the k-th packet in a pass, from the passes before it.      *)
LEMMA PlaceInPass ==
  ASSUME NEW n \in Nat, NEW p \in Nat \ {0}, NEW q \in Nat, NEW r \in 0..(p - 1), n = q * p + r
  PROVE  n % p = r
<1>1. n % p \in 0..(p - 1)
  OBVIOUS
<1>2. PICK d \in Nat : n = p * d + (n % p)
  <2>1. n \div p \in Nat /\ n = p * (n \div p) + (n % p)
    OBVIOUS
  <2> QED BY <2>1
<1>3. p * d + (n % p) = p * q + r
  BY <1>2
<1>4. CASE d = q
  BY <1>1, <1>3, <1>4
<1>5. CASE d < q
  <2>1. PICK e \in Nat : q = d + 1 + e
    BY <1>5
  <2>2. p * q = p * d + p + p * e /\ p * e >= 0
    BY <2>1
  <2>3. p * d \in Nat
    OBVIOUS
  <2> QED BY <1>1, <1>3, <2>2, <2>3
<1>6. CASE q < d
  <2>1. PICK e \in Nat : d = q + 1 + e
    BY <1>6
  <2>2. p * d = p * q + p + p * e /\ p * e >= 0
    BY <2>1
  <2>3. p * q \in Nat
    OBVIOUS
  <2> QED BY <1>1, <1>3, <2>2, <2>3
<1> QED BY <1>4, <1>5, <1>6

(* The batch is what lies behind the packets sent and before cur, which is *)
(* as far into its pass as they are.                                       *)
BatchBeforeCur ==
  /\ cur \in 0..PoolSize /\ batch \in Seq(0..(PoolSize - 1)) /\ Len(batch) <= cur
  /\ \A j \in 1..Len(batch) : batch[j] = cur - Len(batch) + j - 1
  /\ spc # "send" => batch = <<>>
  /\ \E passes \in Nat : sent + Len(batch) = passes * PoolSize + cur

TakenInOrder ==
  /\ taken \in Seq(0..(PoolSize - 1)) /\ Len(taken) = sent
  /\ \A k \in 1..sent : taken[k] = (k - 1) % PoolSize

AllDrawn == spc # "aborted" /\ (spc = "prepare" => sent = 0) /\ (spc # "prepare" => drawn = 0..(PoolSize - 1))

PoolInv == BatchBeforeCur /\ TakenInOrder /\ AllDrawn

(* The pool, its cursor and the batch agree at first,                      *)
LEMMA InitPool == TxerInit => PoolInv
<1> SUFFICES ASSUME TxerInit PROVE PoolInv
  OBVIOUS
<1>1. PoolSize \in Nat \ {0}
  BY TxerAssumption
<1>2. sent = 0 /\ cur = 0 /\ batch = <<>> /\ taken = <<>> /\ spc = "prepare"
  BY DEF TxerInit, Init
<1>3. sent + Len(batch) = 0 * PoolSize + cur
  BY <1>1, <1>2
<1> QED BY <1>1, <1>2, <1>3 DEF PoolInv, BatchBeforeCur, TakenInOrder, AllDrawn

(* The slot at which the fill is to end lies behind the pool: all of it is *)
(* filled, and the assertion on the count holds.                           *)
LEMMA ZipfianStep ==
  ASSUME PoolInv, PacketsPoolZipfian
  PROVE  PoolInv'
<1> DEFINE from  == 0
           to    == PoolSize - 1
           last  == PoolAt(to - 1)
           slots == {i \in PoolAt(from)..(PoolSize - 1) : i < last \/ last < PoolAt(from)}
<1>1. PoolSize \in Nat \ 0..2 /\ SizeofPacket \in Nat \ 0..2
  BY TxerAssumption, ScaleAssumption
<1>2. PoolAt(0) = 0 /\ last >= PoolSize /\ last \in Nat
  <2>1. PICK a \in Nat : PoolSize = 3 + a
    BY <1>1
  <2>2. PICK b \in Nat : SizeofPacket = 3 + b
    BY <1>1
  <2>3. /\ SizeofPacket * (PoolSize - 1 - 1) = 3 + 3 * a + b + b * a
        /\ b * a \in Nat /\ SizeofPacket * 0 = 0
    BY <2>1, <2>2
  <2> QED BY <2>1, <2>2, <2>3 DEF PoolAt
<1>3. slots = 0..(PoolSize - 1)
  <2> HIDE DEF last
  <2> QED BY <1>1, <1>2
<1>4. Cardinality(slots) = to - from + 1
  <2>1. Cardinality(0..(PoolSize - 1)) = PoolSize
    <3>1. 0 \in Int /\ PoolSize - 1 \in Int /\ ~(0 > PoolSize - 1) /\ PoolSize - 1 - 0 + 1 = PoolSize
      BY <1>1
    <3>2. Cardinality(0..(PoolSize - 1)) = IF 0 > PoolSize - 1 THEN 0 ELSE PoolSize - 1 - 0 + 1
      BY <3>1, FS_Interval, Zenon
    <3> QED BY <3>1, <3>2
  <2>2. to - from + 1 = PoolSize
    BY <1>1
  <2> HIDE DEF slots, to, from
  <2> QED BY <1>3, <2>1, <2>2
<1>5. drawn' = slots /\ spc' = "batch" /\ spc = "prepare"
  <2>1. /\ spc = "prepare" /\ drawn' = slots
        /\ spc' = IF Cardinality(slots) = to - from + 1 THEN "batch" ELSE "aborted"
    BY DEF PacketsPoolZipfian
  <2> HIDE DEF slots, to, from
  <2> QED BY <1>4, <2>1
<1>6. UNCHANGED <<cur, batch, taken, sent>>
  BY DEF PacketsPoolZipfian, vars
<1> HIDE DEF slots
<1> QED BY <1>3, <1>5, <1>6 DEF PoolInv, BatchBeforeCur, TakenInOrder, AllDrawn

(* A batch takes cur on by its own length.                                 *)
LEMMA NextBatchPool ==
  ASSUME PoolInv, NextBatch, sent \in Nat
  PROVE  PoolInv'
<1> DEFINE n == MinOf(burst, PoolSize - cur)
<1>1. /\ spc = "batch" /\ spc' = "send" /\ n \in 1..(PoolSize - cur)
      /\ batch' = [k \in 1..n |-> cur + k - 1] /\ cur' = cur + n
      /\ UNCHANGED <<drawn, taken, sent>>
  BY DEF NextBatch, vars
<1> HIDE DEF n
<1>2. PoolSize \in Nat \ {0} /\ cur \in 0..PoolSize /\ batch = <<>>
  BY <1>1, TxerAssumption DEF PoolInv, BatchBeforeCur
<1>3. /\ batch' \in Seq(0..(PoolSize - 1)) /\ Len(batch') = n
      /\ \A k \in 1..n : batch'[k] = cur + k - 1
  <2>1. \A k \in 1..n : cur + k - 1 \in 0..(PoolSize - 1)
    BY <1>1, <1>2
  <2> QED BY <1>1, <2>1
<1>4. BatchBeforeCur'
  <2>1. PICK passes \in Nat : sent + Len(batch) = passes * PoolSize + cur
    BY DEF PoolInv, BatchBeforeCur
  <2>2. passes * PoolSize \in Nat
    BY <1>2
  <2>3. sent' + Len(batch') = passes * PoolSize + cur'
    BY <1>1, <1>2, <1>3, <2>1, <2>2
  <2> QED BY <1>1, <1>2, <1>3, <2>3 DEF BatchBeforeCur
<1>5. TakenInOrder' /\ AllDrawn'
  BY <1>1 DEF PoolInv, TakenInOrder, AllDrawn
<1> QED BY <1>4, <1>5 DEF PoolInv

(* A reset of the pool is one pass more.                                   *)
LEMMA EndPassPool ==
  ASSUME PoolInv, EndPass, sent \in Nat
  PROVE  PoolInv'
<1>1. /\ spc = "batch" /\ cur = PoolSize /\ cur' = 0
      /\ spc' \in {"flush", "batch"} /\ UNCHANGED <<batch, drawn, taken, sent>>
  BY DEF EndPass, vars
<1>2. PoolSize \in Nat \ {0} /\ batch = <<>>
  BY <1>1, TxerAssumption DEF PoolInv, BatchBeforeCur
<1>3. BatchBeforeCur'
  <2>1. PICK passes \in Nat : sent + Len(batch) = passes * PoolSize + cur
    BY DEF PoolInv, BatchBeforeCur
  <2>2. (passes + 1) * PoolSize = passes * PoolSize + PoolSize /\ passes * PoolSize \in Nat
    BY <1>2
  <2>3. sent' + Len(batch') = (passes + 1) * PoolSize + cur' /\ passes + 1 \in Nat
    BY <1>1, <1>2, <2>1, <2>2
  <2> QED BY <1>1, <1>2, <2>3 DEF BatchBeforeCur
<1>4. TakenInOrder' /\ AllDrawn'
  BY <1>1 DEF PoolInv, TakenInOrder, AllDrawn
<1> QED BY <1>3, <1>4 DEF PoolInv

(* What is handed to packet_send is at the place of its pass.              *)
LEMMA SendOnePool ==
  ASSUME PoolInv, SendOne, sent \in Nat
  PROVE  PoolInv'
<1>1. /\ spc = "send" /\ batch # <<>> /\ batch' = Tail(batch)
      /\ taken' = Append(taken, Head(batch)) /\ sent' = sent + 1
      /\ UNCHANGED <<spc, drawn, cur>>
  BY DEF SendOne, PacketSend
<1>2. /\ PoolSize \in Nat \ {0} /\ cur \in 0..PoolSize /\ batch \in Seq(0..(PoolSize - 1))
      /\ Len(batch) <= cur /\ \A j \in 1..Len(batch) : batch[j] = cur - Len(batch) + j - 1
  BY TxerAssumption DEF PoolInv, BatchBeforeCur
<1>3. /\ Len(batch) \in Nat \ {0} /\ Head(batch) = batch[1] /\ Head(batch) \in 0..(PoolSize - 1)
      /\ Tail(batch) \in Seq(0..(PoolSize - 1)) /\ Len(Tail(batch)) = Len(batch) - 1
      /\ \A j \in 1..Len(Tail(batch)) : Tail(batch)[j] = batch[j + 1]
  BY <1>1, <1>2
<1>4. PICK passes \in Nat : sent + Len(batch) = passes * PoolSize + cur
  BY DEF PoolInv, BatchBeforeCur
<1>5. PICK before \in Nat : before = passes * PoolSize
  BY <1>2
<1>6. BatchBeforeCur'
  <2>1. sent' + Len(batch') = passes * PoolSize + cur'
    <3>1. sent + Len(batch) = before + cur
      BY <1>4, <1>5
    <3>2. sent' + Len(batch') = sent + Len(batch)
      BY <1>1, <1>3
    <3>3. cur' = cur
      BY <1>1
    <3> QED BY <1>5, <3>1, <3>2, <3>3
  <2>2. \A j \in 1..Len(batch') : batch'[j] = cur' - Len(batch') + j - 1
    BY <1>1, <1>2, <1>3
  <2>3. /\ cur' \in 0..PoolSize /\ batch' \in Seq(0..(PoolSize - 1)) /\ Len(batch') <= cur'
        /\ spc' # "send" => batch' = <<>>
    BY <1>1, <1>2, <1>3
  <2>4. \E q \in Nat : sent' + Len(batch') = q * PoolSize + cur'
    BY <2>1
  <2> QED BY <2>2, <2>3, <2>4 DEF BatchBeforeCur
<1>7. Head(batch) = sent % PoolSize
  <2>1. Head(batch) = cur - Len(batch)
    BY <1>2, <1>3
  <2>2. sent = passes * PoolSize + Head(batch)
    <3>1. sent + Len(batch) = before + cur
      BY <1>4, <1>5
    <3>2. sent = before + Head(batch)
      BY <1>2, <1>3, <2>1, <3>1
    <3> QED BY <1>5, <3>2
  <2> QED BY <1>2, <1>3, <2>2, PlaceInPass
<1>8. TakenInOrder'
  <2>1. /\ taken \in Seq(0..(PoolSize - 1)) /\ Len(taken) = sent
        /\ \A k \in 1..sent : taken[k] = (k - 1) % PoolSize
    BY DEF PoolInv, TakenInOrder
  <2>2. /\ taken' \in Seq(0..(PoolSize - 1)) /\ Len(taken') = sent + 1
        /\ taken'[sent + 1] = Head(batch) /\ \A k \in 1..sent : taken'[k] = taken[k]
    BY <1>1, <1>3, <2>1
  <2>3. ASSUME NEW k \in 1..(sent + 1) PROVE taken'[k] = (k - 1) % PoolSize
    <3>1. CASE k = sent + 1
      <4>1. k - 1 = sent
        BY <3>1
      <4> QED BY <1>7, <2>2, <3>1, <4>1
    <3>2. CASE k # sent + 1
      <4>1. k \in 1..sent
        BY <3>2
      <4> QED BY <2>1, <2>2, <4>1
    <3> QED BY <3>1, <3>2
  <2> QED BY <1>1, <2>2, <2>3 DEF TakenInOrder
<1>9. AllDrawn'
  BY <1>1 DEF PoolInv, AllDrawn
<1> QED BY <1>6, <1>8, <1>9 DEF PoolInv

(* A sequence over S holds elements of S.                                  *)
LEMMA PlaceInRange ==
  ASSUME NEW S, NEW s \in Seq(S), NEW k \in 1..Len(s)
  PROVE  s[k] \in S
  OBVIOUS

(* ... and after every step.                                               *)
LEMMA PoolStep == IInv /\ PoolInv /\ [TxerNext]_txerVars => PoolInv'
<1> SUFFICES ASSUME IInv, PoolInv, [TxerNext]_txerVars PROVE PoolInv'
  OBVIOUS
<1>0. sent \in Nat
  BY TxAssumption DEF IInv, TypeOK
<1>1. CASE PacketsPoolZipfian
  BY <1>1, ZipfianStep
<1>2. CASE NextBatch \/ EndPass \/ SendOne
  BY <1>0, <1>2, NextBatchPool, EndPassPool, SendOnePool
<1>3. CASE PktsSent \/ SenderAck \/ Poll \/ LastFlush \/ FreeBuffer
  <2>1. /\ UNCHANGED <<cur, batch, taken, sent, drawn>> /\ spc # "prepare"
        /\ spc' \notin {"prepare", "aborted"} /\ (spc' # "send" => batch = <<>>)
    BY <1>3 DEF PktsSent, SenderAck, Poll, LastFlush, FreeBuffer, vars, Flush, PoolInv, BatchBeforeCur
  <2> QED BY <2>1 DEF PoolInv, BatchBeforeCur, TakenInOrder, AllDrawn
<1>4. CASE ReceiverNext \/ TxNic \/ AckNic \/ UNCHANGED txerVars
  <2>1. UNCHANGED <<spc, cur, batch, taken, sent, drawn>>
    BY <1>4 DEF ReceiverNext, SendReset, ProcessBurst, FlushMessage, Flushed, TxNic, AckNic,
       Others, TxBurst, NicSends, vars, generator, txerVars
  <2> QED BY <2>1 DEF PoolInv, BatchBeforeCur, TakenInOrder, AllDrawn
<1> QED BY <1>1, <1>2, <1>3, <1>4 DEF TxerNext, GeneratorNext

(* In every behaviour the wire carries the pool from end to end, pass      *)
(* after pass, whatever the bursts, the window and the NICs are, and every *)
(* slot has been filled: packets_pool_zipfian never fails its assertion.   *)
THEOREM TxerPoolOrder == TxerSpec => []InPoolOrder
<1>1. IInv /\ PoolInv => InPoolOrder
  <2> SUFFICES ASSUME IInv, PoolInv, NEW k \in 1..Len(wire)
               PROVE  taken[wire[k]] = (k - 1) % PoolSize /\ taken[wire[k]] \in drawn
    BY DEF InPoolOrder, PoolInv, AllDrawn
  <2>1. wire[k] = k /\ k \in 1..sent
    BY TxAssumption DEF IInv, TypeOK
  <2>2. taken[k] = (k - 1) % PoolSize /\ taken[k] \in 0..(PoolSize - 1)
    <3>1. taken \in Seq(0..(PoolSize - 1)) /\ Len(taken) = sent /\ taken[k] = (k - 1) % PoolSize
      BY <2>1 DEF PoolInv, TakenInOrder
    <3>2. taken \in Seq(0..(PoolSize - 1)) /\ k \in 1..Len(taken)
      BY <2>1, <3>1
    <3>3. taken[k] \in 0..(PoolSize - 1)
      BY <3>2, PlaceInRange
    <3> QED BY <3>1, <3>3
  <2>3. drawn = 0..(PoolSize - 1)
    BY <2>1 DEF PoolInv, AllDrawn
  <2> QED BY <2>1, <2>2, <2>3
<1>2. TxerInit => IInv
  BY InitIInv DEF TxerInit
<1> QED BY <1>1, <1>2, InitPool, PoolStep, TxerStep, PTL DEF TxerSpec

----------------------------------------------------------------------------
(* The transmission never ends in an ack that a full NIC has refused.      *)

(* The types that TxerTypeOK has and that the invariants above have not.   *)
GeneratorTypes ==
  /\ spc \in {"prepare", "batch", "send", "poll", "flush", "free", "done"}
  /\ repeat \in 0..Repeat /\ (spc \in {"prepare", "batch", "send", "poll"} => repeat > 0)
  /\ size \in 0..BufSize /\ burst \in 0..BufSize
  /\ wnd \in [s : Nat, e : Nat] /\ looked \in Nat
  /\ drawn \subseteq 0..(PoolSize - 1)

(* Each message is one of more packets than the one before it.             *)
Messages ==
  /\ rpc \in {"boot", "rx", "flush", "flushed"} /\ received \in 0..Len(wire)
  /\ rpc = "boot" <=> ackSent = 0
  /\ seqs \in Seq(Nat) /\ Len(seqs) = ackSent
  /\ ackSent > 0 => seqs[1] = 0
  /\ \A a, b \in 1..ackSent : a < b => seqs[b] - seqs[a] >= b - a
  /\ received = IF ackSent = 0 THEN 0 ELSE seqs[ackSent]

(* What the start of the window is after m messages.                       *)
StartAfter(m) == IF m <= 1 THEN 0 ELSE seqs[m] + 1

(* What is to be added to the end of the window next, at most.             *)
Pending ==
  CASE spc \in {"prepare", "batch"} -> burst
    [] spc = "send"                 -> size
    [] OTHER                        -> 0

(* Packets of the batch count as sent from the moment it is taken.         *)
Sending == IF spc = "send" THEN size ELSE 0

(* Packets sent before the reset was looked at: the window forgets them.   *)
Forgotten == sent + Len(batch) - wnd.e - Sending

Window ==
  /\ looked <= Len(ackWire)
  /\ wnd.s = StartAfter(looked)
  /\ wnd.e + Pending <= wnd.s + WndSize
  /\ IF looked = 0 THEN Forgotten = 0 ELSE Forgotten > 0
  /\ spc = "send" => size > 0
  /\ spc = "poll" /\ looked = 0 => wnd.e > 0

(* Before the last flush only a full buffer is flushed, so what the NIC    *)
(* leaves of it is at least what does not fit its ring.                    *)
Buffered ==
  spc \notin {"free", "done"} =>
    /\ pc = "flush" => length = BufSize
    /\ Len(wire) + Len(nic) > 0 => BufSize <= length + TxDesc

(* The packets that can have been sent when m messages were looked at.     *)
Credit(m) == WndSize + (IF m = 0 THEN 0 ELSE Forgotten + StartAfter(m))

(* When the receiver's NIC refused a message, its ring was full of others  *)
(* that were not looked at: the packets processed were then within what    *)
(* the ones before these allowed, and so were those in tx_buffer.          *)
Refused ==
  rpc \in {"flushed", "rx"} /\ ackPc = "idle" /\ ackLength > 0 /\ spc \notin {"free", "done"} =>
    LET before == ackSent - ackLength - TxDesc IN
    /\ before >= 0
    /\ received <= Credit(before)
    /\ received + BufSize <= Credit(before) + TxDesc

(* What TxBufferProofs shows, of the receiver's side of its port.          *)
AckP == INSTANCE TxBufferProofs WITH
  pkts <- ackPkts, length <- ackLength, pc <- ackPc, nic <- ackNic,
  done <- ackDone, wire <- ackWire, free <- ackFree, sent <- ackSent

(* TxBufferProofs on the receiver's variables speaks of the same buffer.   *)
LEMMA AckSame == (Ack!IInv <=> AckP!IInv) /\ (Ack!IInv' <=> AckP!IInv')
  BY DEF Ack!IInv, AckP!IInv, Ack!TypeOK, AckP!TypeOK, Ack!MbufsConserved, AckP!MbufsConserved

(* The receiver's buffer starts as that one does.                          *)
LEMMA AckInit == Ack!Init => Ack!IInv
<1>1. Ack!Init => AckP!Init
  BY DEF Ack!Init, AckP!Init
<1> QED  BY <1>1, AckP!InitIInv, AckSame, TxAssumption, TxPoolAssumption

(* Every step of the program is one of the receiver's buffer or leaves it  *)
(* alone.                                                                  *)
LEMMA AckStep == Ack!IInv /\ [TxerNext]_txerVars => Ack!IInv'
<1> SUFFICES ASSUME Ack!IInv, [TxerNext]_txerVars PROVE Ack!IInv'
  OBVIOUS
<1>1. CASE SendReset \/ ProcessBurst
  <2>1. AckP!PacketSend
    BY <1>1 DEF SendReset, ProcessBurst, SendMessage, Ack!PacketSend, AckP!PacketSend,
                Ack!FlushWhenFull, AckP!FlushWhenFull
  <2> QED  BY <2>1, AckP!PacketSendStep, AckSame, TxAssumption, TxPoolAssumption
<1>2. CASE FlushMessage /\ ackLength # 0
  <2>1. AckP!Flush
    BY <1>2 DEF FlushMessage, Ack!Flush, AckP!Flush
  <2> QED  BY <2>1, AckP!FlushStep, AckSame, TxAssumption, TxPoolAssumption
<1>3. CASE AckNic
  <2>1. AckP!TxBurst \/ AckP!NicSends
    BY <1>3 DEF AckNic, Ack!TxBurst, AckP!TxBurst, Ack!Rebuffer, AckP!Rebuffer, Ack!FlushWhenFull,
                AckP!FlushWhenFull, Ack!NicSends, AckP!NicSends, Ack!MinOf, AckP!MinOf
  <2> QED  BY <2>1, AckP!TxBurstStep, AckP!NicSendsStep, AckSame, TxAssumption, TxPoolAssumption
<1>4. CASE UNCHANGED ackVars
  BY <1>4 DEF ackVars, Ack!IInv, Ack!TypeOK, Ack!MbufsConserved
<1>5. (FlushMessage /\ ackLength = 0) \/ Flushed \/ GeneratorNext \/ TxNic \/ UNCHANGED txerVars
      => UNCHANGED ackVars
  BY DEF FlushMessage, Flushed, GeneratorNext, PacketsPoolZipfian, NextBatch, EndPass, SendOne,
         PktsSent, SenderAck, Poll, LastFlush, FreeBuffer, TxNic, txerVars
<1> QED
  BY <1>1, <1>2, <1>3, <1>4, <1>5 DEF TxerNext, ReceiverNext

AckInv == IInv /\ PoolInv /\ Ack!IInv /\ GeneratorTypes /\ Messages /\ Window /\ Buffered /\ Refused

(* What the arithmetic needs of it.                                        *)
Numbers ==
  /\ BufSize \in Nat \ {0} /\ TxDesc \in Nat \ {0} /\ WndSize \in Nat \ {0} /\ BufSize <= WndSize
  /\ length \in 0..BufSize /\ (pc = "idle" => length < BufSize) /\ sent \in Nat
  /\ Len(wire) \in Nat /\ Len(nic) \in 0..TxDesc /\ Len(wire) + Len(nic) + length = sent
  /\ ackLength \in 0..BufSize /\ ackSent \in Nat
  /\ Len(ackWire) \in Nat /\ Len(ackNic) \in 0..TxDesc
  /\ Len(ackWire) + Len(ackNic) + ackLength = ackSent
  /\ Len(batch) \in Nat /\ (spc # "send" => Len(batch) = 0)
  /\ size \in 0..BufSize /\ burst \in 0..BufSize /\ wnd.s \in Nat /\ wnd.e \in Nat
  /\ looked \in 0..Len(ackWire) /\ received \in 0..Len(wire)

(* The invariant has these numbers.                                        *)
LEMMA Counts == AckInv => Numbers
<1> SUFFICES ASSUME AckInv PROVE Numbers
  OBVIOUS
<1>1. BufSize \in Nat \ {0} /\ TxDesc \in Nat \ {0} /\ WndSize \in Nat \ {0} /\ BufSize <= WndSize
  BY TxAssumption, TxerAssumption, BurstAssumption
<1>2. /\ length \in 0..BufSize /\ (pc = "idle" => length < BufSize) /\ sent \in Nat
      /\ Len(wire) \in Nat /\ Len(nic) \in 0..TxDesc /\ Len(wire) + Len(nic) + length = sent
  BY <1>1, TxAssumption DEF AckInv, IInv, TypeOK
<1>3. /\ ackLength \in 0..BufSize /\ ackSent \in Nat
      /\ Len(ackWire) \in Nat /\ Len(ackNic) \in 0..TxDesc
      /\ Len(ackWire) + Len(ackNic) + ackLength = ackSent
  BY <1>1, TxAssumption DEF AckInv, Ack!IInv, Ack!TypeOK
<1>4. Len(batch) \in Nat /\ (spc # "send" => Len(batch) = 0)
  BY DEF AckInv, PoolInv, BatchBeforeCur
<1>5. /\ size \in 0..BufSize /\ burst \in 0..BufSize /\ wnd.s \in Nat /\ wnd.e \in Nat
      /\ looked \in 0..Len(ackWire) /\ received \in 0..Len(wire)
  BY <1>3 DEF AckInv, GeneratorTypes, Messages, Window
<1> QED  BY <1>1, <1>2, <1>3, <1>4, <1>5 DEF Numbers

(* A message opens the window as far as the ones before it and its         *)
(* distance from them.                                                     *)
LEMMA StartGrows ==
  ASSUME AckInv, NEW m \in 0..ackSent, NEW n \in 0..ackSent, m <= n
  PROVE  /\ StartAfter(m) \in Nat /\ StartAfter(n) \in Nat
         /\ StartAfter(m) <= StartAfter(n)
         /\ n >= 2 => StartAfter(n) - StartAfter(m) >= n - m
<1>0. Numbers
  BY Counts
<1>1. /\ \A a \in 1..ackSent : seqs[a] \in Nat
      /\ \A a, b \in 1..ackSent : a < b => seqs[b] - seqs[a] >= b - a
      /\ ackSent \in Nat /\ (ackSent > 0 => seqs[1] = 0)
  <2>1. Messages /\ ackSent \in Nat
    BY <1>0 DEF Numbers, AckInv
  <2> QED  BY <2>1 DEF Messages
<1>2. CASE n <= 1
  BY <1>1, <1>2 DEF StartAfter
<1>3. CASE n >= 2 /\ m <= 1
  <2>1. seqs[1] = 0 /\ seqs[n] \in Nat /\ seqs[n] - seqs[1] >= n - 1
    BY <1>1, <1>3
  <2> QED  BY <1>3, <2>1 DEF StartAfter
<1>4. CASE n >= 2 /\ m >= 2
  <2>1. seqs[m] \in Nat /\ seqs[n] \in Nat /\ (m < n => seqs[n] - seqs[m] >= n - m)
    BY <1>1, <1>4
  <2>2. CASE m = n
    BY <1>4, <2>1, <2>2 DEF StartAfter
  <2>3. CASE m < n
    BY <1>4, <2>1, <2>3 DEF StartAfter
  <2> QED  BY <2>2, <2>3
<1> QED  BY <1>1, <1>2, <1>3, <1>4

(* What the window forgets is a number of packets, not none after a look.  *)
LEMMA ForgottenNat ==
  ASSUME AckInv
  PROVE  Forgotten \in Nat /\ (looked > 0 => Forgotten > 0)
<1>0. Numbers
  BY Counts
<1>1. Forgotten \in Int
  <2>1. sent \in Nat /\ Len(batch) \in Nat /\ wnd.e \in Nat /\ size \in Nat
    BY <1>0 DEF Numbers
  <2> QED  BY <2>1 DEF Forgotten, Sending
<1>2. IF looked = 0 THEN Forgotten = 0 ELSE Forgotten > 0
  BY DEF AckInv, Window
<1> HIDE DEF Forgotten
<1> QED  BY <1>1, <1>2

(* More messages never allow less.                                         *)
LEMMA CreditGrows ==
  ASSUME AckInv, NEW m \in 0..ackSent, NEW n \in 0..ackSent, m <= n
  PROVE  Credit(m) \in Nat /\ WndSize <= Credit(m) /\ Credit(m) <= Credit(n)
<1>0. Numbers
  BY Counts
<1>1. WndSize \in Nat /\ m \in Nat /\ n \in Nat
  BY <1>0 DEF Numbers
<1>2. StartAfter(m) \in Nat /\ StartAfter(n) \in Nat /\ StartAfter(m) <= StartAfter(n)
  BY StartGrows
<1>3. Forgotten \in Nat
  BY ForgottenNat
<1> QED  BY <1>1, <1>2, <1>3 DEF Credit

(* The generator never sends past the credit of what it has looked at.     *)
LEMMA SentInCredit ==
  ASSUME AckInv
  PROVE  sent <= Credit(looked)
<1> DEFINE first == wnd.s
           last  == wnd.e
           count == Len(batch)
<1>0. Numbers
  BY Counts
<1>1. first = StartAfter(looked) /\ last + Pending <= first + WndSize
  BY DEF AckInv, Window
<1>2. looked = 0 => Forgotten = 0 /\ StartAfter(looked) = 0
  BY DEF AckInv, Window, StartAfter
<1>3. /\ first \in Nat /\ last \in Nat /\ count \in Nat /\ sent \in Nat /\ WndSize \in Nat
      /\ size \in Nat /\ burst \in Nat
  BY <1>0 DEF Numbers
<1>4. Forgotten \in Nat
  BY ForgottenNat
<1>5. Forgotten = sent + count - last - Sending
  BY DEF Forgotten
<1> HIDE DEF first, last, count
<1>6. Pending \in Nat /\ Sending \in Nat /\ Sending <= Pending
  BY <1>3 DEF Pending, Sending
<1>7. sent <= first + WndSize + Forgotten
  BY <1>1, <1>3, <1>4, <1>5, <1>6
<1>8. CASE looked = 0
  BY <1>1, <1>2, <1>3, <1>7, <1>8 DEF Credit
<1>9. CASE looked # 0
  BY <1>1, <1>3, <1>4, <1>7, <1>9 DEF Credit
<1> QED  BY <1>8, <1>9

(* The generator is stuck with all messages looked at but those refused,   *)
(* of which there are as many in the ring as its own NIC took at most.     *)
LEMMA NotStuck == AckInv => NeverStuckOnAck
<1> SUFFICES ASSUME AckInv, StuckOnAck PROVE FALSE
  BY DEF NeverStuckOnAck
<1>0. Numbers
  BY Counts
<1> DEFINE out == Len(ackWire)
           before == out - TxDesc
<1>1. /\ spc = "poll" /\ NumPktsToSend(wnd) = 0 /\ pc = "idle" /\ nic = <<>>
      /\ received = Len(wire) /\ rpc = "rx" /\ ackPc = "idle"
      /\ ackNic = <<>> /\ looked = out /\ ackLength > 0
  BY DEF StuckOnAck
<1>2. Len(nic) = 0 /\ Len(ackNic) = 0
  BY <1>1
<1>3. ackSent - ackLength = out
  BY <1>2, <1>0 DEF Numbers
<1>4. before >= 0 /\ received <= Credit(before) /\ received + BufSize <= Credit(before) + TxDesc
  <2>1. LET b == ackSent - ackLength - TxDesc IN
        b >= 0 /\ received <= Credit(b) /\ received + BufSize <= Credit(b) + TxDesc
    BY <1>1 DEF AckInv, Refused
  <2> QED  BY <1>3, <2>1
<1>5. sent = wnd.e + Forgotten
  BY <1>1, <1>0 DEF Numbers, Forgotten, Sending
<1>6. wnd.e >= wnd.s + WndSize
  <2>1. wnd.e \in Nat /\ wnd.s \in Nat /\ WndSize \in Nat
    BY <1>0 DEF Numbers
  <2>2. NumPktsToSend(wnd) = 0
    BY <1>1
  <2> QED  BY <2>1, <2>2 DEF NumPktsToSend
<1>7. received >= StartAfter(out) + WndSize + Forgotten - BufSize + 1
  <2>1. wnd.s = StartAfter(out)
    BY <1>1 DEF AckInv, Window
  <2>2. received = sent - length /\ length < BufSize
    BY <1>1, <1>2, <1>0 DEF Numbers
  <2>3. /\ sent \in Nat /\ wnd.e \in Nat /\ wnd.s \in Nat /\ WndSize \in Nat /\ BufSize \in Nat
        /\ length \in Nat /\ Forgotten \in Nat
    BY <1>0, ForgottenNat DEF Numbers
  <2> HIDE DEF out
  <2> QED  BY <1>5, <1>6, <2>1, <2>2, <2>3
<1>8. out \in 0..ackSent /\ before \in 0..ackSent /\ before <= out /\ out >= 1
  <2>1. /\ Len(ackWire) \in Nat /\ ackLength \in Nat /\ ackSent \in Nat /\ TxDesc \in Nat \ {0}
        /\ ackSent - ackLength = Len(ackWire)
    BY <1>0, <1>3 DEF Numbers
  <2> QED  BY <1>4, <2>1
<1>9. /\ StartAfter(before) \in Nat /\ StartAfter(out) \in Nat
      /\ StartAfter(before) <= StartAfter(out)
      /\ out >= 2 => StartAfter(out) - StartAfter(before) >= TxDesc
  <2>1. /\ StartAfter(before) \in Nat /\ StartAfter(out) \in Nat
        /\ StartAfter(before) <= StartAfter(out)
        /\ out >= 2 => StartAfter(out) - StartAfter(before) >= out - before
    BY <1>8, StartGrows
  <2>2. Len(ackWire) \in Nat /\ TxDesc \in Nat
    BY <1>0 DEF Numbers
  <2>3. out - before = TxDesc
    BY <2>2
  <2> QED  BY <2>1, <2>3
<1>10. Forgotten \in Nat /\ Forgotten >= 1
  BY <1>1, <1>8, ForgottenNat
<1>11. /\ WndSize \in Nat /\ BufSize \in Nat /\ TxDesc \in Nat \ {0} /\ received \in Nat
       /\ out \in Nat /\ before = out - TxDesc
  BY <1>0 DEF Numbers
<1> HIDE DEF out, before
<1>12. CASE before = 0
  <2>1. Credit(before) = WndSize
    BY <1>11, <1>12 DEF Credit
  <2>2. out = TxDesc /\ StartAfter(before) = 0
    BY <1>11, <1>12 DEF StartAfter
  <2> QED  BY <1>4, <1>7, <1>8, <1>9, <1>10, <1>11, <2>1, <2>2
<1>13. CASE before # 0
  <2>1. Credit(before) = WndSize + (Forgotten + StartAfter(before))
    BY <1>13 DEF Credit
  <2>2. before \in Nat /\ out >= 2
    BY <1>8, <1>11, <1>13
  <2> QED  BY <1>4, <1>7, <1>9, <1>10, <1>11, <2>1, <2>2
<1> QED  BY <1>12, <1>13

(* What the parts of the program leave alone.                              *)
LEMMA Frames ==
  /\ GeneratorNext => UNCHANGED <<receiver, ackVars>>
  /\ ReceiverNext => UNCHANGED <<generator, vars>>
  /\ TxNic => UNCHANGED <<generator, receiver, ackVars, sent>>
  /\ AckNic => UNCHANGED <<generator, receiver, vars, ackSent>>
BY DEF GeneratorNext, PacketsPoolZipfian, NextBatch, EndPass, SendOne, PktsSent, SenderAck, Poll,
       LastFlush, FreeBuffer, ReceiverNext, SendReset, ProcessBurst, FlushMessage, Flushed, generator,
       TxNic, AckNic, Others, TxBurst, NicSends, Ack!TxBurst, Ack!NicSends

(* What has left a NIC is never taken back.                                *)
LEMMA WiresGrow ==
  ASSUME AckInv, [TxerNext]_txerVars
  PROVE  Len(wire) <= Len(wire') /\ Len(ackWire) <= Len(ackWire')
<1>0. wire \in Seq(1..MaxSent) /\ ackWire \in Seq(1..MaxSent)
  BY DEF AckInv, IInv, TypeOK, Ack!IInv, Ack!TypeOK
<1>1. wire' = wire \/ \E e : wire' = Append(wire, e)
  <2>1. [Next]_vars
    BY StepOfBuffer DEF txerVars
  <2> QED  BY <2>1 DEF Next, PacketSend, Flush, TxBurst, NicSends, vars
<1>2. ackWire' = ackWire \/ \E e : ackWire' = Append(ackWire, e)
  BY Frames DEF TxerNext, txerVars, ReceiverNext, SendReset, ProcessBurst, SendMessage, Ack!PacketSend,
     FlushMessage, Ack!Flush, Flushed, AckNic, Ack!TxBurst, Ack!NicSends, ackVars
<1>3. wire' = wire \/ Len(wire') = Len(wire) + 1
  BY <1>0, <1>1
<1>4. ackWire' = ackWire \/ Len(ackWire') = Len(ackWire) + 1
  BY <1>0, <1>2
<1>5. Len(wire) \in Nat /\ Len(ackWire) \in Nat
  BY <1>0
<1> QED  BY <1>3, <1>4, <1>5

(* The messages stay in order through every step,                          *)
LEMMA MessagesStep ==
  ASSUME AckInv, [TxerNext]_txerVars
  PROVE  Messages'
<1>0. Numbers
  BY Counts
<1>1. /\ rpc \in {"boot", "rx", "flush", "flushed"} /\ (rpc = "boot" <=> ackSent = 0)
      /\ seqs \in Seq(Nat) /\ Len(seqs) = ackSent /\ (ackSent > 0 => seqs[1] = 0)
      /\ \A a, b \in 1..ackSent : a < b => seqs[b] - seqs[a] >= b - a
      /\ received = IF ackSent = 0 THEN 0 ELSE seqs[ackSent]
  BY DEF AckInv, Messages
<1>2. ackSent \in Nat /\ received \in Nat /\ Len(wire) \in Nat /\ received <= Len(wire)
  BY <1>0 DEF Numbers
<1>3. CASE SendReset
  <2>1. /\ rpc = "boot" /\ rpc' = "flush" /\ ackSent' = ackSent + 1 /\ seqs' = Append(seqs, 0)
        /\ received' = received /\ wire' = wire
    BY <1>3 DEF SendReset, SendMessage, Ack!PacketSend, vars
  <2>2. ackSent = 0 /\ seqs' \in Seq(Nat) /\ Len(seqs') = 1 /\ seqs'[1] = 0
    BY <1>1, <2>1
  <2> QED  BY <1>1, <1>2, <2>1, <2>2 DEF Messages
<1>4. CASE ProcessBurst
  <2>1. PICK n \in 1..MinOf(RxBurst, Len(wire) - received) :
          received' = received + n /\ SendMessage(received')
    BY <1>4 DEF ProcessBurst
  <2>2. /\ rpc = "rx" /\ rpc' = "flush" /\ ackSent' = ackSent + 1
        /\ seqs' = Append(seqs, received') /\ wire' = wire
    BY <1>4, <2>1 DEF ProcessBurst, SendMessage, Ack!PacketSend, vars
  <2>3. n \in Nat \ {0} /\ n <= Len(wire) - received
    BY <1>2, <2>1, TxerAssumption DEF MinOf
  <2>4. received' \in Nat /\ received' \in 0..Len(wire') /\ received' > received
    BY <1>2, <2>1, <2>2, <2>3
  <2>5. /\ seqs' \in Seq(Nat) /\ Len(seqs') = ackSent + 1 /\ seqs'[ackSent + 1] = received'
        /\ \A a \in 1..ackSent : seqs'[a] = seqs[a] /\ seqs[a] \in Nat
    <3>1. seqs \in Seq(Nat) /\ Len(seqs) = ackSent /\ received' \in Nat
      BY <1>1, <2>4
    <3>2. seqs' = Append(seqs, received')
      BY <2>2
    <3>3. seqs' \in Seq(Nat) /\ Len(seqs') = ackSent + 1 /\ seqs'[ackSent + 1] = received'
      BY <1>2, <3>1, <3>2
    <3>4. ASSUME NEW a \in 1..ackSent PROVE seqs'[a] = seqs[a] /\ seqs[a] \in Nat
      <4>1. a \in 1..Len(seqs)
        BY <3>1
      <4>2. seqs[a] \in Nat
        BY <3>1, <4>1, PlaceInRange
      <4>3. seqs'[a] = seqs[a]
        BY <3>1, <3>2, <4>1, AppendProperties
      <4> QED  BY <4>2, <4>3
    <3> QED  BY <3>3, <3>4
  <2>6. ackSent > 0 /\ received = seqs[ackSent]
    BY <1>1, <1>2, <2>2
  <2>7. ASSUME NEW a \in 1..(ackSent + 1), NEW b \in 1..(ackSent + 1), a < b
        PROVE  seqs'[b] - seqs'[a] >= b - a
    <3>1. CASE b # ackSent + 1
      BY <1>1, <1>2, <2>5, <2>7, <3>1
    <3>2. CASE b = ackSent + 1
      <4> DEFINE x == seqs[a]
                 r == received
                 q == received'
      <4>1. a \in 1..ackSent /\ a \in Nat
        BY <1>2, <2>7, <3>2
      <4>2. seqs'[a] = x /\ x \in Nat /\ seqs'[b] = q
        BY <2>5, <3>2, <4>1
      <4>3. r - x >= ackSent - a
        <5>1. a # ackSent => seqs[ackSent] - seqs[a] >= ackSent - a
          BY <1>1, <1>2, <4>1
        <5>2. a = ackSent => r - x = 0
          BY <2>6, <4>2
        <5> QED  BY <1>2, <2>6, <4>1, <5>1, <5>2
      <4>4. r \in Nat /\ q \in Nat /\ q > r
        BY <1>2, <2>4
      <4> HIDE DEF x, r, q
      <4>5. q - x >= b - a
        BY <1>2, <3>2, <4>1, <4>2, <4>3, <4>4
      <4> QED  BY <4>2, <4>5
    <3> QED  BY <3>1, <3>2
  <2>8. ackSent' > 0 /\ (rpc' = "boot" <=> ackSent' = 0) /\ received' = seqs'[ackSent']
    BY <1>2, <2>2, <2>5
  <2>9. seqs'[1] = 0
    BY <1>1, <1>2, <2>5, <2>6
  <2> QED  BY <2>2, <2>4, <2>5, <2>7, <2>8, <2>9 DEF Messages
<1>5. CASE FlushMessage \/ Flushed
  <2>1. /\ rpc # "boot" /\ rpc' \in {"flushed", "rx"}
        /\ UNCHANGED <<received, seqs, ackSent, wire>>
    BY <1>5 DEF FlushMessage, Flushed, Ack!Flush, ackVars, vars
  <2> QED  BY <1>1, <1>2, <2>1 DEF Messages
<1>6. CASE UNCHANGED <<rpc, received, seqs, ackSent>>
  BY <1>1, <1>2, <1>6, WiresGrow DEF Messages
<1>7. GeneratorNext \/ TxNic \/ AckNic \/ UNCHANGED txerVars => UNCHANGED <<rpc, received, seqs, ackSent>>
  BY Frames DEF receiver, ackVars, txerVars
<1> QED  BY <1>3, <1>4, <1>5, <1>6, <1>7 DEF TxerNext, ReceiverNext

(* The packets that a batch takes are no more than the burst, and at least *)
(* one.                                                                    *)
LEMMA BatchTaken ==
  ASSUME AckInv, NextBatch
  PROVE  /\ size' \in 1..burst /\ Len(batch') = size'
         /\ spc = "batch" /\ spc' = "send"
         /\ UNCHANGED <<vars, repeat, burst, wnd, looked, drawn>>
<1> DEFINE n == MinOf(burst, PoolSize - cur)
<1>1. /\ n \in 1..(PoolSize - cur) /\ batch' = [k \in 1..n |-> cur + k - 1] /\ size' = n
      /\ spc = "batch" /\ spc' = "send" /\ UNCHANGED <<vars, repeat, burst, wnd, looked, drawn>>
  BY DEF NextBatch
<1>2. cur \in Nat /\ PoolSize \in Nat /\ burst \in Nat
  BY TxerAssumption DEF AckInv, PoolInv, BatchBeforeCur, GeneratorTypes
<1>3. n <= burst
  BY <1>2 DEF MinOf
<1> HIDE DEF n
<1> QED  BY <1>1, <1>2, <1>3

(* ... the generator keeps its types,                                      *)
LEMMA GeneratorTypesStep ==
  ASSUME AckInv, [TxerNext]_txerVars
  PROVE  GeneratorTypes'
<1>0. Numbers
  BY Counts
<1>1. /\ spc \in {"prepare", "batch", "send", "poll", "flush", "free", "done"}
      /\ repeat \in 0..Repeat /\ (spc \in {"prepare", "batch", "send", "poll"} => repeat > 0)
      /\ size \in 0..BufSize /\ burst \in 0..BufSize /\ Repeat \in Nat /\ BufSize \in Nat
      /\ wnd \in [s : Nat, e : Nat] /\ looked \in Nat /\ drawn \subseteq 0..(PoolSize - 1)
  BY <1>0, TxerAssumption DEF AckInv, GeneratorTypes, Numbers
<1>2. CASE PacketsPoolZipfian
  <2>1. spc = "prepare" /\ spc' \in {"batch", "aborted"} /\ UNCHANGED <<repeat, size, burst, wnd, looked>>
    BY <1>2 DEF PacketsPoolZipfian
  <2>2. spc' # "aborted" /\ drawn' = 0..(PoolSize - 1)
    BY <1>2, <2>1, ZipfianStep DEF AckInv, PoolInv, AllDrawn
  <2> QED  BY <1>1, <2>1, <2>2 DEF GeneratorTypes
<1>3. CASE NextBatch
  <2>1. /\ size' \in 1..burst /\ spc = "batch" /\ spc' = "send"
        /\ UNCHANGED <<repeat, burst, wnd, looked, drawn>>
    BY <1>3, BatchTaken
  <2>2. size' \in 0..BufSize
    BY <1>1, <2>1
  <2> QED  BY <1>1, <2>1, <2>2 DEF GeneratorTypes
<1>4. CASE EndPass
  <2>1. /\ spc = "batch" /\ repeat' = repeat - 1 /\ spc' = IF repeat' = 0 THEN "flush" ELSE "batch"
        /\ UNCHANGED <<size, burst, wnd, looked, drawn>>
    BY <1>4 DEF EndPass
  <2>2. repeat' \in 0..Repeat
    BY <1>1, <2>1
  <2> QED  BY <1>1, <2>1, <2>2 DEF GeneratorTypes
<1>5. CASE SendOne \/ LastFlush \/ FreeBuffer
  BY <1>1, <1>5 DEF SendOne, LastFlush, FreeBuffer, GeneratorTypes
<1>6. CASE PktsSent
  BY <1>1, <1>6 DEF PktsSent, GeneratorTypes
<1>7. CASE SenderAck
  <2> DEFINE k == ackWire[looked + 1]
  <2>1. /\ spc = "poll" /\ looked < Len(ackWire) /\ looked' = looked + 1
        /\ wnd' = IF k = 1 THEN [s |-> seqs[k], e |-> seqs[k]] ELSE [wnd EXCEPT !.s = seqs[k] + 1]
        /\ UNCHANGED <<spc, repeat, size, burst, drawn>>
    BY <1>7 DEF SenderAck
  <2>2. Len(ackWire) \in Nat /\ ackSent \in Nat /\ Len(ackWire) <= ackSent
    <3>1. Len(ackWire) \in Nat /\ ackSent \in Nat /\ ackLength \in Nat /\ Len(ackNic) \in Nat
          /\ Len(ackWire) + Len(ackNic) + ackLength = ackSent
      BY <1>0 DEF Numbers
    <3> QED  BY <3>1
  <2>3. k = looked + 1 /\ k \in 1..ackSent
    <3>1. \A i \in 1..Len(ackWire) : ackWire[i] = i
      BY DEF AckInv, Ack!IInv
    <3>2. looked + 1 \in 1..Len(ackWire)
      BY <1>1, <2>1, <2>2
    <3> QED  BY <2>2, <3>1, <3>2
  <2>4. seqs[k] \in Nat
    <3>1. seqs \in Seq(Nat) /\ k \in 1..Len(seqs)
      BY <2>3 DEF AckInv, Messages
    <3> HIDE DEF k
    <3> QED  BY <3>1, PlaceInRange
  <2> HIDE DEF k
  <2>5. wnd' \in [s : Nat, e : Nat]
    BY <1>1, <2>1, <2>4, SMTT(40)
  <2> QED  BY <1>1, <2>1, <2>5 DEF GeneratorTypes
<1>8. CASE Poll
  <2>1. /\ spc = "poll" /\ burst' = MinOf(NumPktsToSend(wnd), BufSize)
        /\ spc' \in {"poll", "batch"} /\ UNCHANGED <<repeat, size, wnd, looked, drawn>>
    BY <1>8 DEF Poll
  <2>2. NumPktsToSend(wnd) \in Nat
    <3>1. wnd.s \in Nat /\ wnd.e \in Nat /\ WndSize \in Nat
      BY <1>0 DEF Numbers
    <3> QED  BY <3>1 DEF NumPktsToSend
  <2>3. burst' \in 0..BufSize
    BY <1>1, <2>1, <2>2 DEF MinOf
  <2> QED  BY <1>1, <2>1, <2>3 DEF GeneratorTypes
<1>9. CASE UNCHANGED generator
  BY <1>1, <1>9 DEF GeneratorTypes, generator
<1>10. ReceiverNext \/ TxNic \/ AckNic \/ UNCHANGED txerVars => UNCHANGED generator
  BY Frames DEF txerVars
<1> QED
  BY <1>2, <1>3, <1>4, <1>5, <1>6, <1>7, <1>8, <1>9, <1>10 DEF TxerNext, GeneratorNext

(* A message that was sent stays what it is.                               *)
LEMMA SeqsKept ==
  ASSUME AckInv, [TxerNext]_txerVars
  PROVE  /\ ackSent <= ackSent' /\ ackSent' \in Nat
         /\ \A m \in 0..ackSent : StartAfter(m)' = StartAfter(m)
<1>0. ackSent \in Nat /\ seqs \in Seq(Nat) /\ Len(seqs) = ackSent
  BY Counts DEF Numbers, AckInv, Messages
<1>1. CASE SendReset \/ ProcessBurst
  <2>1. PICK e : seqs' = Append(seqs, e) /\ ackSent' = ackSent + 1
    BY <1>1 DEF SendReset, ProcessBurst, SendMessage, Ack!PacketSend
  <2>2. ASSUME NEW k \in 1..ackSent PROVE seqs'[k] = seqs[k]
    <3>1. k \in 1..Len(seqs)
      BY <1>0
    <3> QED  BY <1>0, <2>1, <3>1, AppendProperties
  <2>3. ASSUME NEW m \in 0..ackSent PROVE StartAfter(m)' = StartAfter(m)
    <3>1. ~(m <= 1) => m \in 1..ackSent
      BY <1>0
    <3> QED  BY <2>2, <3>1 DEF StartAfter
  <2> QED  BY <1>0, <2>1, <2>3
<1>2. CASE UNCHANGED <<seqs, ackSent>>
  BY <1>0, <1>2 DEF StartAfter
<1>3. GeneratorNext \/ FlushMessage \/ Flushed \/ TxNic \/ AckNic \/ UNCHANGED txerVars
      => UNCHANGED <<seqs, ackSent>>
  BY Frames DEF FlushMessage, Ack!Flush, Flushed, receiver, ackVars, txerVars
<1> QED  BY <1>1, <1>2, <1>3 DEF TxerNext, ReceiverNext

(* What the next message does to the window.                               *)
LEMMA NextAck ==
  ASSUME AckInv, SenderAck
  PROVE  /\ spc = "poll" /\ looked' = looked + 1 /\ looked + 1 \in 1..ackSent
         /\ UNCHANGED <<vars, spc, batch, size, burst>>
         /\ wnd'.s = StartAfter(looked + 1)
         /\ wnd'.e = IF looked = 0 THEN 0 ELSE wnd.e
<1>0. Numbers
  BY Counts
<1> DEFINE k == ackWire[looked + 1]
<1>1. /\ spc = "poll" /\ looked < Len(ackWire) /\ looked' = looked + 1
      /\ wnd' = IF k = 1 THEN [s |-> seqs[k], e |-> seqs[k]] ELSE [wnd EXCEPT !.s = seqs[k] + 1]
      /\ UNCHANGED <<vars, spc, batch, size, burst>>
  BY DEF SenderAck
<1>2. looked \in Nat /\ looked + 1 \in 1..Len(ackWire) /\ looked + 1 \in 1..ackSent
  <2>1. looked \in Nat /\ Len(ackWire) \in Nat /\ Len(ackNic) \in Nat /\ ackLength \in Nat /\ ackSent \in Nat
        /\ Len(ackWire) + Len(ackNic) + ackLength = ackSent
    BY <1>0 DEF Numbers
  <2> QED  BY <1>1, <2>1
<1>3. k = looked + 1
  <2>1. \A i \in 1..Len(ackWire) : ackWire[i] = i
    BY DEF AckInv, Ack!IInv
  <2> QED  BY <1>2, <2>1
<1>4. wnd \in [s : Nat, e : Nat] /\ seqs[1] = 0
  <2>1. ackSent > 0
    BY <1>0, <1>2 DEF Numbers
  <2> QED  BY <2>1 DEF AckInv, GeneratorTypes, Messages
<1> HIDE DEF k
<1>5. CASE looked = 0
  BY <1>1, <1>2, <1>3, <1>4, <1>5 DEF StartAfter
<1>6. CASE looked # 0
  BY <1>1, <1>2, <1>3, <1>4, <1>6 DEF StartAfter
<1> QED  BY <1>5, <1>6

(* Only the reset makes the window forget, and it forgets a packet.        *)
LEMMA ForgottenStep ==
  ASSUME AckInv, [TxerNext]_txerVars
  PROVE  /\ looked' = looked \/ looked' = looked + 1
         /\ IF looked = 0 /\ looked' = 1 THEN Forgotten' > 0 ELSE Forgotten' = Forgotten
<1>0. Numbers
  BY Counts
<1>1. /\ sent \in Nat /\ Len(batch) \in Nat /\ wnd.e \in Nat /\ size \in Nat /\ looked \in Nat
      /\ (spc # "send" => Len(batch) = 0)
  BY <1>0 DEF Numbers
<1>2. CASE PacketsPoolZipfian \/ EndPass \/ Poll \/ LastFlush \/ FreeBuffer
  <2>1. spc # "send" /\ spc' # "send" /\ UNCHANGED <<sent, batch, wnd, looked>>
    BY <1>2 DEF PacketsPoolZipfian, EndPass, Poll, LastFlush, FreeBuffer, Flush, vars
  <2> QED  BY <1>1, <2>1 DEF Forgotten, Sending
<1>3. CASE NextBatch
  <2>1. /\ Len(batch') = size' /\ size' \in Nat /\ spc = "batch" /\ spc' = "send"
        /\ UNCHANGED <<sent, wnd, looked>>
    BY <1>0, <1>3, BatchTaken DEF vars, Numbers
  <2> QED  BY <1>1, <2>1 DEF Forgotten, Sending
<1>4. CASE SendOne
  <2>1. /\ spc = "send" /\ batch # <<>> /\ batch' = Tail(batch) /\ sent' = sent + 1
        /\ UNCHANGED <<spc, wnd, size, looked>>
    BY <1>4 DEF SendOne, PacketSend
  <2>2. Len(batch') = Len(batch) - 1
    BY <2>1 DEF AckInv, PoolInv, BatchBeforeCur
  <2> DEFINE last == wnd.e
             count == Len(batch)
  <2>3. Forgotten = sent + count - last - size /\ Forgotten' = sent + 1 + (count - 1) - last - size
    BY <2>1, <2>2 DEF Forgotten, Sending
  <2>4. last \in Nat /\ count \in Nat /\ looked' = looked
    BY <1>1, <2>1
  <2> HIDE DEF last, count
  <2> QED  BY <1>1, <2>3, <2>4
<1>5. CASE PktsSent
  <2>1. /\ spc = "send" /\ batch = <<>> /\ batch' = batch /\ spc' = "poll"
        /\ wnd' = [wnd EXCEPT !.e = @ + size] /\ UNCHANGED <<sent, looked>>
    BY <1>5 DEF PktsSent, vars
  <2>2. wnd'.e = wnd.e + size
    BY <2>1 DEF AckInv, GeneratorTypes
  <2> QED  BY <1>1, <2>1, <2>2 DEF Forgotten, Sending
<1>6. CASE SenderAck
  <2> DEFINE last == wnd.e
             later == wnd'.e
  <2>1. /\ looked' = looked + 1 /\ spc = "poll" /\ spc' = "poll" /\ UNCHANGED <<sent, batch>>
        /\ later = IF looked = 0 THEN 0 ELSE last
    BY <1>6, NextAck DEF vars
  <2>2. Forgotten = sent + 0 - last - 0 /\ Forgotten' = sent + 0 - later - 0
    BY <1>1, <2>1 DEF Forgotten, Sending
  <2>3. looked = 0 => Forgotten = 0 /\ last > 0
    BY <2>1 DEF AckInv, Window
  <2>4. last \in Nat
    BY <1>1
  <2> HIDE DEF last, later
  <2> QED  BY <1>1, <2>1, <2>2, <2>3, <2>4
<1>7. CASE UNCHANGED <<generator, sent>>
  BY <1>1, <1>7 DEF generator, Forgotten, Sending
<1>8. ReceiverNext \/ TxNic \/ AckNic \/ UNCHANGED txerVars => UNCHANGED <<generator, sent>>
  BY Frames DEF txerVars, vars
<1> QED
  BY <1>2, <1>3, <1>4, <1>5, <1>6, <1>7, <1>8 DEF TxerNext, GeneratorNext

(* A window that has room for more has room for less.                      *)
LEMMA RoomForLess ==
  ASSUME NEW first \in Nat, NEW last \in Nat, NEW wnd_size \in Nat, NEW more \in Nat, NEW less \in Nat,
         less <= more, last + more <= first + wnd_size
  PROVE  last + less <= first + wnd_size
OBVIOUS

(* ... the window stays at what the messages say,                          *)
LEMMA WindowStep ==
  ASSUME AckInv, [TxerNext]_txerVars
  PROVE  Window'
<1>0. Numbers
  BY Counts
<1> DEFINE first  == wnd.s
           last   == wnd.e
           first1 == wnd'.s
           last1  == wnd'.e
           Moved  == /\ first1 = StartAfter(looked')
                     /\ last1 + Pending' <= first1 + WndSize
                     /\ spc' = "send" => size' > 0
                     /\ spc' = "poll" /\ looked' = 0 => last1 > 0
<1>1. /\ looked <= Len(ackWire) /\ first = StartAfter(looked) /\ last + Pending <= first + WndSize
      /\ (IF looked = 0 THEN Forgotten = 0 ELSE Forgotten > 0)
      /\ (spc = "send" => size > 0) /\ (spc = "poll" /\ looked = 0 => last > 0)
  BY DEF AckInv, Window
<1>2. /\ first \in Nat /\ last \in Nat /\ size \in Nat /\ burst \in Nat /\ looked \in Nat
      /\ WndSize \in Nat \ {0} /\ BufSize \in Nat /\ Len(ackWire) \in Nat /\ looked \in 0..ackSent
      /\ ackSent \in Nat
  <2>1. /\ looked \in 0..Len(ackWire) /\ ackSent \in Nat /\ Len(ackWire) \in Nat /\ Len(ackNic) \in Nat
        /\ ackLength \in Nat /\ Len(ackWire) + Len(ackNic) + ackLength = ackSent
    BY <1>0 DEF Numbers
  <2>2. looked \in 0..ackSent
    BY <2>1
  <2> QED  BY <1>0, <2>1, <2>2 DEF Numbers
<1>3. ASSUME PacketsPoolZipfian \/ EndPass \/ LastFlush \/ FreeBuffer PROVE Moved
  <2>1. /\ UNCHANGED <<wnd, looked, size, burst>>
        /\ spc' \in {"aborted", "flush", "free", "done"} \/ (spc \in {"prepare", "batch"} /\ spc' = "batch")
    BY <1>3 DEF PacketsPoolZipfian, EndPass, LastFlush, FreeBuffer
  <2>2. first1 = first /\ last1 = last
    BY <2>1
  <2>3. Pending' <= Pending /\ Pending' \in Nat /\ Pending \in Nat
    <3>1. Pending \in Nat
      BY <1>2 DEF Pending
    <3>2. CASE spc' \in {"aborted", "flush", "free", "done"}
      BY <3>1, <3>2 DEF Pending
    <3>3. CASE spc \in {"prepare", "batch"} /\ spc' = "batch"
      BY <1>2, <2>1, <3>3 DEF Pending
    <3> QED  BY <2>1, <3>2, <3>3
  <2> HIDE DEF first, last, first1, last1
  <2>4. last1 + Pending' <= first1 + WndSize /\ looked' = looked
    <3>1. first \in Nat /\ last \in Nat /\ WndSize \in Nat /\ last + Pending <= first + WndSize
      BY <1>1, <1>2
    <3>2. last + Pending' <= first + WndSize
      BY <2>3, <3>1, RoomForLess
    <3> QED  BY <2>1, <2>2, <3>2
  <2> QED  BY <1>1, <2>1, <2>2, <2>4
<1>4. ASSUME NextBatch PROVE Moved
  <2>1. /\ UNCHANGED <<wnd, looked>> /\ spc = "batch" /\ spc' = "send" /\ size' \in 1..burst
    BY <1>4, BatchTaken
  <2>2. first1 = first /\ last1 = last /\ Pending' = size' /\ Pending = burst
    BY <2>1 DEF Pending
  <2> HIDE DEF first, last, first1, last1
  <2>3. last1 + Pending' <= first1 + WndSize
    <3>1. size' \in Nat /\ size' <= burst /\ last + burst <= first + WndSize
      BY <1>1, <1>2, <2>1, <2>2
    <3>2. first \in Nat /\ last \in Nat /\ burst \in Nat /\ WndSize \in Nat
      BY <1>2
    <3>3. last + size' <= first + WndSize
      BY <3>1, <3>2, RoomForLess
    <3> QED  BY <2>2, <3>3
  <2>4. looked' = looked /\ size' > 0
    BY <1>2, <2>1
  <2> QED  BY <1>1, <2>1, <2>2, <2>3, <2>4
<1>5. ASSUME PktsSent PROVE Moved
  <2>1. /\ spc = "send" /\ wnd' = [wnd EXCEPT !.e = @ + size] /\ spc' = "poll"
        /\ UNCHANGED <<looked, size>>
    BY <1>5 DEF PktsSent
  <2>2. wnd \in [s : Nat, e : Nat]
    BY DEF AckInv, GeneratorTypes
  <2>3. first1 = first /\ last1 = last + size /\ Pending = size /\ Pending' = 0
    BY <2>1, <2>2 DEF Pending
  <2> HIDE DEF first, last, first1, last1
  <2>4. last1 + Pending' <= first1 + WndSize
    <3>1. last + size <= first + WndSize
      BY <1>1, <2>3
    <3> QED  BY <1>2, <2>3, <3>1
  <2>5. looked' = looked /\ last1 > 0
    <3>1. last \in Nat /\ size \in Nat /\ size > 0
      BY <1>1, <1>2, <2>1
    <3> QED  BY <2>1, <2>3, <3>1
  <2> QED  BY <1>1, <2>1, <2>3, <2>4, <2>5
<1>6. ASSUME SenderAck PROVE Moved
  <2>1. /\ spc = "poll" /\ spc' = "poll" /\ looked' = looked + 1 /\ looked + 1 \in 1..ackSent
        /\ first1 = StartAfter(looked + 1) /\ last1 = IF looked = 0 THEN 0 ELSE last
    BY <1>6, NextAck
  <2>2. StartAfter(looked + 1) \in Nat /\ StartAfter(looked) <= StartAfter(looked + 1)
    <3>1. looked + 1 \in 0..ackSent /\ looked <= looked + 1
      BY <1>2, <2>1
    <3> QED  BY <1>2, <3>1, StartGrows
  <2>3. Pending = 0 /\ Pending' = 0
    BY <2>1 DEF Pending
  <2> HIDE DEF first, last, first1, last1
  <2>4. last1 + Pending' <= first1 + WndSize
    <3>1. last <= first + WndSize /\ first \in Nat /\ last \in Nat /\ WndSize \in Nat
      BY <1>1, <1>2, <2>3
    <3>2. first1 \in Nat /\ first <= first1
      BY <1>1, <2>1, <2>2
    <3> QED  BY <2>1, <2>3, <3>1, <3>2
  <2>5. looked' # 0
    BY <1>2, <2>1
  <2> QED  BY <2>1, <2>4, <2>5
<1>7. ASSUME Poll PROVE Moved
  <2>1. /\ spc = "poll" /\ burst' = MinOf(NumPktsToSend(wnd), BufSize)
        /\ spc' \in {"poll", "batch"} /\ UNCHANGED <<wnd, looked>>
    BY <1>7 DEF Poll
  <2>2. NumPktsToSend(wnd) = IF first + WndSize < last THEN 0 ELSE first + WndSize - last
    BY DEF NumPktsToSend
  <2>3. first1 = first /\ last1 = last /\ Pending = 0 /\ Pending' \in {0, burst'}
    BY <2>1 DEF Pending
  <2> HIDE DEF first, last, first1, last1
  <2>4. last <= first + WndSize
    BY <1>1, <1>2, <2>3
  <2>5. burst' \in Nat /\ last + burst' <= first + WndSize
    BY <1>2, <2>1, <2>2, <2>4 DEF MinOf
  <2> QED  BY <1>1, <1>2, <2>1, <2>3, <2>4, <2>5
<1>8. ASSUME SendOne \/ UNCHANGED generator PROVE Moved
  <2>1. UNCHANGED <<spc, wnd, looked, size, burst>>
    BY <1>8 DEF SendOne, generator
  <2>2. first1 = first /\ last1 = last /\ Pending' = Pending
    BY <2>1 DEF Pending
  <2> HIDE DEF first, last, first1, last1
  <2> QED  BY <1>1, <2>1, <2>2
<1>9. ReceiverNext \/ TxNic \/ AckNic \/ UNCHANGED txerVars => UNCHANGED generator
  BY Frames DEF txerVars
<1>10. Moved
  <2>1. \/ PacketsPoolZipfian \/ EndPass \/ LastFlush \/ FreeBuffer
        \/ NextBatch \/ PktsSent \/ SenderAck \/ Poll \/ SendOne \/ UNCHANGED generator
    BY <1>9 DEF TxerNext, GeneratorNext
  <2> HIDE DEF Moved
  <2> QED
    BY <2>1, <1>3, <1>4, <1>5, <1>6, <1>7, <1>8
<1>11. looked' <= Len(ackWire') /\ looked' \in 0..ackSent
  <2>1. CASE SenderAck
    <3>1. looked < Len(ackWire) /\ UNCHANGED ackVars /\ looked' = looked + 1 /\ looked + 1 \in 1..ackSent
      BY <2>1, NextAck DEF SenderAck
    <3> QED  BY <1>2, <3>1 DEF ackVars
  <2>2. CASE looked' = looked
    <3>1. Len(ackWire) <= Len(ackWire')
      BY WiresGrow
    <3>2. Len(ackWire') \in Nat
      <4>1. Ack!IInv'
        BY AckStep DEF AckInv
      <4> QED  BY <4>1 DEF Ack!IInv, Ack!TypeOK
    <3> QED  BY <1>1, <1>2, <2>2, <3>1, <3>2
  <2>3. ~SenderAck => looked' = looked
    BY Frames DEF TxerNext, GeneratorNext, PacketsPoolZipfian, NextBatch, EndPass, SendOne, PktsSent,
       Poll, LastFlush, FreeBuffer, generator, txerVars
  <2> QED  BY <2>1, <2>2, <2>3
<1>12. StartAfter(looked)' = StartAfter(looked')
  <2>1. \A m \in 0..ackSent : (IF m <= 1 THEN 0 ELSE seqs'[m] + 1) = IF m <= 1 THEN 0 ELSE seqs[m] + 1
    BY SeqsKept DEF StartAfter
  <2> QED  BY <1>11, <2>1 DEF StartAfter
<1>13. IF looked' = 0 THEN Forgotten' = 0 ELSE Forgotten' > 0
  <2>1. /\ looked' = looked \/ looked' = looked + 1
        /\ IF looked = 0 /\ looked' = 1 THEN Forgotten' > 0 ELSE Forgotten' = Forgotten
    BY ForgottenStep
  <2>2. Forgotten \in Nat
    BY ForgottenNat
  <2> QED  BY <1>1, <1>2, <2>1, <2>2
<1> QED  BY <1>10, <1>11, <1>12, <1>13 DEF Window

(* ... the buffer keeps what the NIC did not take,                         *)
LEMMA BufferedStep ==
  ASSUME AckInv, [TxerNext]_txerVars
  PROVE  Buffered'
<1>0. Numbers
  BY Counts
<1>1. /\ length \in 0..BufSize /\ BufSize \in Nat /\ TxDesc \in Nat /\ Len(nic) \in 0..TxDesc
      /\ Len(wire) \in Nat
  BY <1>0 DEF Numbers
<1>2. spc \notin {"free", "done"} =>
        (pc = "flush" => length = BufSize) /\ (Len(wire) + Len(nic) > 0 => BufSize <= length + TxDesc)
  BY DEF AckInv, Buffered
<1>3. CASE LastFlush \/ FreeBuffer
  BY <1>3 DEF LastFlush, FreeBuffer, Buffered
<1>4. CASE SendOne
  <2>1. /\ spc' = spc /\ length' = length + 1 /\ pc' = FlushWhenFull(length') /\ pc = "idle"
        /\ UNCHANGED <<nic, wire>>
    BY <1>4 DEF SendOne, PacketSend
  <2>2. length < BufSize
    BY <1>0, <2>1 DEF Numbers
  <2> QED  BY <1>1, <1>2, <2>1, <2>2 DEF Buffered, FlushWhenFull
<1>5. CASE TxNic /\ TxBurst
  <2> DEFINE n == MinOf(length, TxDesc - Len(nic))
  <2>1. pc = "flush" /\ length' = length - n /\ pc' = FlushWhenFull(length - n) /\ spc' = spc
    BY <1>5 DEF TxNic, TxBurst, Rebuffer, Others, generator
  <2>2. n \in Nat /\ n <= length /\ n <= TxDesc
    BY <1>1 DEF MinOf
  <2> HIDE DEF n
  <2>3. length' \in Nat /\ length' + n = length
    BY <1>1, <2>1, <2>2
  <2>4. ASSUME spc \notin {"free", "done"}
        PROVE  (pc' = "flush" => length' = BufSize) /\ BufSize <= length' + TxDesc
    BY <1>1, <1>2, <2>1, <2>2, <2>3, <2>4 DEF FlushWhenFull
  <2> QED  BY <2>1, <2>4 DEF Buffered
<1>6. CASE TxNic /\ NicSends
  <2>1. /\ nic # <<>> /\ wire' = Append(wire, Head(nic)) /\ nic' = Tail(nic)
        /\ UNCHANGED <<length, pc, spc>>
    BY <1>6 DEF TxNic, NicSends, Others, generator
  <2>2. nic \in Seq(1..MaxSent) /\ wire \in Seq(1..MaxSent)
    BY DEF AckInv, IInv, TypeOK
  <2>3. Len(wire') = Len(wire) + 1 /\ Len(nic') = Len(nic) - 1 /\ Len(nic) > 0
    BY <2>1, <2>2
  <2> QED  BY <1>1, <1>2, <2>1, <2>3 DEF Buffered
<1>7. CASE UNCHANGED vars /\ (spc' \in {"free", "done"} <=> spc \in {"free", "done"})
  BY <1>2, <1>7 DEF Buffered, vars
<1>8. PacketsPoolZipfian \/ NextBatch \/ EndPass \/ PktsSent \/ SenderAck \/ Poll
      => UNCHANGED vars /\ spc \notin {"free", "done"} /\ spc' \notin {"free", "done"}
  BY DEF PacketsPoolZipfian, NextBatch, EndPass, PktsSent, SenderAck, Poll
<1>9. ReceiverNext \/ AckNic \/ UNCHANGED txerVars => UNCHANGED <<vars, spc>>
  BY Frames DEF txerVars, generator
<1>10. TxNic => (TxNic /\ TxBurst) \/ (TxNic /\ NicSends)
  BY DEF TxNic
<1> QED
  BY <1>3, <1>4, <1>5, <1>6, <1>7, <1>8, <1>9, <1>10 DEF TxerNext, GeneratorNext

(* Credit is never taken back.                                             *)
LEMMA CreditKept ==
  ASSUME AckInv, [TxerNext]_txerVars, NEW m \in 0..ackSent
  PROVE  Credit(m)' \in Nat /\ Credit(m) <= Credit(m)'
<1>1. StartAfter(m)' = StartAfter(m) /\ StartAfter(m) \in Nat /\ Forgotten \in Nat
  BY SeqsKept, StartGrows, ForgottenNat
<1>2. /\ looked' = looked \/ looked' = looked + 1
      /\ IF looked = 0 /\ looked' = 1 THEN Forgotten' > 0 ELSE Forgotten' = Forgotten
  BY ForgottenStep
<1>3. looked = 0 => Forgotten = 0
  BY DEF AckInv, Window
<1>4. Forgotten' \in Int
  <2>1. GeneratorTypes' /\ IInv' /\ PoolInv'
    BY GeneratorTypesStep, TxerStep, PoolStep DEF AckInv
  <2>2. sent' \in Nat /\ Len(batch') \in Nat /\ wnd'.e \in Nat /\ size' \in Nat
    <3>1. sent' \in Nat
      BY <2>1, TxAssumption DEF IInv, TypeOK
    <3>2. Len(batch') \in Nat
      BY <2>1 DEF PoolInv, BatchBeforeCur
    <3>3. wnd'.e \in Nat /\ size' \in Nat
      BY <2>1, TxAssumption DEF GeneratorTypes
    <3> QED  BY <3>1, <3>2, <3>3
  <2> QED  BY <2>2 DEF Forgotten, Sending
<1>5. Forgotten' \in Nat /\ Forgotten <= Forgotten'
  BY <1>1, <1>2, <1>3, <1>4
<1>6. WndSize \in Nat
  BY TxerAssumption
<1> QED  BY <1>1, <1>5, <1>6 DEF Credit

(* ... and a refused message leaves the generator something to send.       *)
LEMMA RefusedStep ==
  ASSUME AckInv, [TxerNext]_txerVars
  PROVE  Refused'
<1>0. Numbers
  BY Counts
<1> DEFINE Holds(m) == /\ m = ackSent' - ackLength' - TxDesc
                       /\ received' <= Credit(m)'
                       /\ received' + BufSize <= Credit(m)' + TxDesc
<1> SUFFICES ASSUME rpc' \in {"flushed", "rx"}, ackPc' = "idle", ackLength' > 0,
                    spc' \notin {"free", "done"}
             PROVE  \E m \in Nat : Holds(m)
  BY DEF Refused, Credit, StartAfter
<1>1. /\ ackSent \in Nat /\ ackLength \in 0..BufSize /\ BufSize \in Nat /\ TxDesc \in Nat \ {0}
      /\ received \in Nat /\ WndSize \in Nat /\ BufSize <= WndSize /\ Len(ackWire) \in Nat
      /\ looked \in 0..Len(ackWire)
  BY <1>0 DEF Numbers
<1>2. CASE AckNic /\ Ack!TxBurst
  <2> DEFINE n == Ack!MinOf(ackLength, TxDesc - Len(ackNic))
  <2>1. PICK m \in Nat : m = Len(ackWire)
    BY <1>1
  <2>2. ackLength' = ackLength - n /\ UNCHANGED <<ackSent, spc, received>>
    BY <1>2 DEF AckNic, Ack!TxBurst, Ack!Rebuffer, Others, generator, receiver
  <2>3. n = TxDesc - Len(ackNic) /\ Len(ackNic) \in Nat /\ m + Len(ackNic) + ackLength = ackSent
    <3>1. Len(ackNic) \in 0..TxDesc /\ m + Len(ackNic) + ackLength = ackSent
      BY <1>0, <2>1 DEF Numbers
    <3>2. ackLength - n > 0
      BY <2>2
    <3> QED  BY <1>1, <3>1, <3>2 DEF Ack!MinOf
  <2> HIDE DEF n
  <2>4. ackSent' - ackLength' - TxDesc = m /\ m \in 0..ackSent
    BY <1>1, <2>1, <2>2, <2>3
  <2>5. sent <= Credit(m) /\ WndSize <= Credit(m) /\ Credit(m) \in Nat
    <3>1. looked \in 0..ackSent /\ looked <= m
      BY <1>1, <2>1, <2>4
    <3>2. sent <= Credit(looked) /\ Credit(looked) <= Credit(m)
      BY <2>4, <3>1, SentInCredit, CreditGrows
    <3>3. Credit(looked) \in Nat /\ Credit(m) \in Nat /\ WndSize <= Credit(m)
      BY <2>4, <3>1, CreditGrows
    <3>4. sent \in Nat
      BY <1>0 DEF Numbers
    <3> QED  BY <3>2, <3>3, <3>4
  <2>6. received <= Credit(m) /\ received + BufSize <= Credit(m) + TxDesc
    <3> DEFINE out == Len(wire)
               ring == Len(nic)
    <3>1. /\ sent \in Nat /\ length \in Nat /\ out \in Nat /\ ring \in Nat
          /\ out + ring + length = sent /\ received <= out
      BY <1>0 DEF Numbers
    <3>2. out + ring > 0 => BufSize <= length + TxDesc
      BY <2>2 DEF AckInv, Buffered
    <3> HIDE DEF out, ring
    <3>3. CASE out + ring > 0
      BY <1>1, <2>5, <3>1, <3>2, <3>3
    <3>4. CASE ~(out + ring > 0)
      BY <1>1, <2>5, <3>1, <3>4
    <3> QED  BY <3>3, <3>4
  <2>7. Credit(m)' \in Nat /\ Credit(m) <= Credit(m)'
    BY <2>4, CreditKept
  <2>8. received' = received
    BY <2>2
  <2>9. received' <= Credit(m)'
    BY <1>1, <2>5, <2>6, <2>7, <2>8
  <2>10. received' + BufSize <= Credit(m)' + TxDesc
    <3>1. received \in Nat /\ BufSize \in Nat /\ TxDesc \in Nat
      BY <1>1
    <3> QED  BY <2>5, <2>6, <2>7, <2>8, <3>1
  <2>11. Holds(m)
    BY <2>4, <2>9, <2>10
  <2> QED  BY <2>1, <2>11
<1>3. CASE /\ UNCHANGED <<received, ackSent, ackLength, ackPc>> /\ spc \notin {"free", "done"}
           /\ rpc \in {"flushed", "rx"}
  <2>1. PICK m \in Int : m = ackSent - ackLength - TxDesc
    BY <1>1
  <2>2. m >= 0 /\ received <= Credit(m) /\ received + BufSize <= Credit(m) + TxDesc
    BY <1>3, <2>1 DEF AckInv, Refused
  <2>3. m \in Nat /\ m \in 0..ackSent
    BY <1>1, <2>1, <2>2
  <2>4. Credit(m)' \in Nat /\ Credit(m) <= Credit(m)' /\ Credit(m) \in Nat
    BY <2>3, CreditKept, CreditGrows
  <2>5. Holds(m)
    BY <1>1, <1>3, <2>1, <2>2, <2>4
  <2> QED  BY <2>3, <2>5
<1>4. ~(SendReset \/ ProcessBurst \/ FlushMessage)
  BY DEF SendReset, ProcessBurst, SendMessage, FlushMessage, Ack!Flush, ackVars
<1>5. Flushed => UNCHANGED <<received, ackSent, ackLength, ackPc, spc>> /\ rpc = "flushed"
  BY Frames DEF ReceiverNext, generator, Flushed, ackVars
<1>6. GeneratorNext => /\ UNCHANGED <<received, ackSent, ackLength, ackPc, rpc>>
                       /\ spc \notin {"free", "done"}
  <2>1. GeneratorNext => UNCHANGED <<received, ackSent, ackLength, ackPc, rpc>>
    BY Frames DEF receiver, ackVars
  <2>2. GeneratorNext => spc \notin {"free", "done"}
    BY DEF GeneratorNext, PacketsPoolZipfian, NextBatch, EndPass, SendOne, PktsSent, SenderAck, Poll,
           LastFlush, FreeBuffer
  <2> QED  BY <2>1, <2>2
<1>7. TxNic \/ UNCHANGED txerVars => UNCHANGED <<received, ackSent, ackLength, ackPc, rpc, spc>>
  BY Frames DEF txerVars, generator, receiver, ackVars
<1>8. AckNic => \/ AckNic /\ Ack!TxBurst
                \/ UNCHANGED <<received, ackSent, ackLength, ackPc, rpc, spc>>
  BY DEF AckNic, Ack!NicSends, Others, generator, receiver
<1> HIDE DEF Holds
<1> QED
  BY <1>2, <1>3, <1>4, <1>5, <1>6, <1>7, <1>8 DEF TxerNext, ReceiverNext

(* The invariant holds at first,                                           *)
LEMMA InitAck == TxerInit => AckInv
<1> SUFFICES ASSUME TxerInit PROVE AckInv
  OBVIOUS
<1>1. /\ sent = 0 /\ length = 0 /\ pc = "idle" /\ nic = <<>> /\ wire = <<>>
      /\ ackSent = 0 /\ ackLength = 0 /\ ackWire = <<>>
      /\ spc = "prepare" /\ drawn = {} /\ repeat = Repeat /\ batch = <<>> /\ size = 0 /\ burst = BufSize
      /\ wnd = [s |-> 0, e |-> 0] /\ looked = 0 /\ rpc = "boot" /\ received = 0 /\ seqs = <<>>
  BY DEF TxerInit, Init, Ack!Init
<1>2. BufSize \in Nat \ {0} /\ Repeat \in Nat \ {0} /\ WndSize \in Nat /\ BufSize <= WndSize
  BY TxAssumption, TxerAssumption, BurstAssumption
<1>3. IInv /\ PoolInv /\ Ack!IInv
  BY InitIInv, InitPool, AckInit DEF TxerInit
<1>4. GeneratorTypes
  BY <1>1, <1>2 DEF GeneratorTypes
<1>5. Messages
  BY <1>1 DEF Messages
<1>6. Window
  <2>1. Pending = BufSize /\ Sending = 0 /\ StartAfter(looked) = 0 /\ Forgotten = 0
    BY <1>1 DEF Pending, Sending, StartAfter, Forgotten
  <2> QED  BY <1>1, <1>2, <2>1 DEF Window
<1>7. Buffered /\ Refused
  BY <1>1 DEF Buffered, Refused
<1> QED  BY <1>3, <1>4, <1>5, <1>6, <1>7 DEF AckInv

(* ... and through every step.                                             *)
LEMMA AckInvStep == AckInv /\ [TxerNext]_txerVars => AckInv'
<1> SUFFICES ASSUME AckInv, [TxerNext]_txerVars PROVE AckInv'
  OBVIOUS
<1>1. IInv' /\ PoolInv' /\ Ack!IInv'
  BY TxerStep, PoolStep, AckStep DEF AckInv
<1>2. GeneratorTypes' /\ Messages' /\ Window' /\ Buffered' /\ Refused'
  BY GeneratorTypesStep, MessagesStep, WindowStep, BufferedStep, RefusedStep
<1> QED  BY <1>1, <1>2 DEF AckInv

(* The two buffers, the window and the messages, together.                 *)
THEOREM AckInvariance == TxerSpec => []AckInv
BY InitAck, AckInvStep, PTL DEF TxerSpec

(* What the fields of both programs hold; no message is looked at that has *)
(* not arrived, no packet is processed that has not.                       *)
THEOREM TxerTypeCorrect == TxerSpec => []TxerTypeOK
<1>1. AckInv => TxerTypeOK
  <2> SUFFICES ASSUME AckInv PROVE TxerTypeOK
    OBVIOUS
  <2>1. TypeOK /\ Ack!TypeOK
    BY DEF AckInv, IInv, Ack!IInv
  <2>2. looked \in 0..Len(ackWire) /\ received \in 0..Len(wire)
    BY Counts DEF Numbers
  <2> QED
    BY <2>1, <2>2 DEF AckInv, PoolInv, BatchBeforeCur, TakenInOrder, GeneratorTypes, Messages, TxerTypeOK
<1> QED  BY <1>1, AckInvariance, PTL

(* An ack that a full NIC refuses never ends the transmission, for every   *)
(* size of window, buffer, ring, burst and pool, as long as a buffer fits  *)
(* the window: when the ring is full of older acks, the credit that those  *)
(* bring is enough for one more full buffer or one more full ring.         *)
THEOREM TxerNeverStuck == TxerSpec => []NeverStuckOnAck
BY NotStuck, AckInvariance, PTL

=============================================================================
