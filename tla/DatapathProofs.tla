--------------------------- MODULE DatapathProofs ---------------------------
(***************************************************************************)
(* Proofs about the receive datapath, for every pipeline, ring and burst.  *)
(*                                                                         *)
(* The inductive invariant has four parts:                                 *)
(*   Core     the types; which calls have something left to take and which *)
(*            elements are already released; what reaches a naive element  *)
(*            comes in batches of one                                      *)
(*   Slotted  no slot is lost or in two piles, and queue_length counts     *)
(*            those outside the ring                                       *)
(*   Order    the packets in the pipeline are in the order of arrival, the *)
(*            dropped ones left before them, none is unaccounted for       *)
(*   SlotsSuffice itself, as it speaks of a step of the past               *)
(*                                                                         *)
(* Whatever the code does is, to the slots, one of two things: the first n *)
(* of one pile go to the end of another (Moves), or a fastpass deals them  *)
(* to two (Splits).  Both are treated once, for piles in general.          *)
(***************************************************************************)
EXTENDS Datapath, FiniteSetTheorems, TLAPS

(* The pile of free slots, and the piles of slots in the pipeline.         *)
Ring == <<"ring", 0>>
HeldPiles == {"buf", "given"} \X Depths

(* A call that has returned has nothing left to take; a released element   *)
(* is not called and holds nothing; nothing is released while it runs.     *)
Calls ==
  /\ \A k \in Depths : k \notin active => given[k] = <<>>
  /\ \A k \in active : k > released
  /\ \A k \in Depths : k <= released => buf[k] = <<>>
  /\ status = "running" => released = 0

(* Up to a naive element batches are of one, or on their way to be cut:    *)
(* the first element may be given more, a buffered one may have put it.    *)
Singles ==
  \A k \in active, n \in Depths : k <= n /\ pipe[n].work = "naive" =>
    IF pipe[k].wrap = "buffered" THEN k > 1 => Len(given[k]) <= 1
    ELSE Len(given[k]) >= 1 /\ (k > 1 => Len(given[k]) = 1)

(* What needs nothing else to hold.                                        *)
Core == TypeOK /\ Calls /\ Singles

----------------------------------------------------------------------------

(* What the proofs need of a well built pipeline.                          *)
LEMMA Pipe ==
  ASSUME TypeOK
  PROVE  /\ Len(pipe) \in Nat \ {0} /\ Depths = 1..Len(pipe)
         /\ \A k \in Depths : pipe[k] \in Element
         /\ \A k \in Depths : pipe[k].work # "drop" => k + 1 \in Depths
         /\ \A j, k \in Depths :
              pipe[k].work = "naive" /\ j <= k => pipe[j].size = 1 /\ pipe[j].work # "fastpass"
         /\ \A k \in Depths : pipe[k].work = "naive" => pipe[1].wrap # "only"
<1>1. WellBuilt(pipe)
  BY DatapathAssumption DEF TypeOK
<1>2. pipe \in Seq(Element) /\ pipe # <<>>
  BY <1>1 DEF WellBuilt
<1>3. Len(pipe) \in Nat \ {0} /\ DOMAIN pipe = 1..Len(pipe)
  BY <1>2
<1>4. \A k \in Depths : pipe[k] \in Element
  BY <1>2, <1>3 DEF Depths
<1>5. \A k \in Depths : pipe[k].work # "drop" => k + 1 \in Depths
  <2>1. \A k \in Depths : pipe[k].work = "drop" <=> k = Len(pipe)
    BY <1>1 DEF WellBuilt, Depths
  <2>2. Len(pipe) \in Nat \ {0} /\ Depths = 1..Len(pipe)
    BY <1>3 DEF Depths
  <2> QED
    BY <2>1, <2>2
<1>6. \A j, k \in Depths :
        pipe[k].work = "naive" /\ j <= k => pipe[j].size = 1 /\ pipe[j].work # "fastpass"
  BY <1>1 DEF WellBuilt, Depths
<1>7. \A k \in Depths : pipe[k].work = "naive" => pipe[1].wrap # "only"
  BY <1>1 DEF WellBuilt, Depths
<1> QED
  BY <1>3, <1>4, <1>5, <1>6, <1>7 DEF Depths

(* The first n of a sequence, and what remains of it.                      *)
LEMMA First ==
  ASSUME NEW S, NEW s \in Seq(S), NEW n \in 0..Len(s)
  PROVE  /\ SubSeq(s, 1, n) \in Seq(S) /\ Len(SubSeq(s, 1, n)) = n
         /\ \A i \in 1..n : SubSeq(s, 1, n)[i] = s[i]
OBVIOUS

LEMMA Remaining ==
  ASSUME NEW S, NEW s \in Seq(S), NEW n \in 0..Len(s)
  PROVE  /\ SubSeq(s, n + 1, Len(s)) \in Seq(S)
         /\ Len(SubSeq(s, n + 1, Len(s))) = Len(s) - n
         /\ \A i \in 1..(Len(s) - n) : SubSeq(s, n + 1, Len(s))[i] = s[i + n]
OBVIOUS

(* What a concatenation holds, place by place.                             *)
LEMMA Concat ==
  ASSUME NEW s \in Seq(Slots), NEW t \in Seq(Slots), NEW c, c = s \o t
  PROVE  /\ c \in Seq(Slots) /\ Len(c) = Len(s) + Len(t)
         /\ \A i \in 1..Len(s) : c[i] = s[i]
         /\ \A i \in 1..Len(t) : c[Len(s) + i] = t[i]
OBVIOUS

(* The piles are the ring, the buffers and what the calls were given.      *)
LEMMA PileIs ==
  ASSUME TypeOK
  PROVE  /\ Pile \in [Piles -> Seq(Slots)]
         /\ Ring \in Piles /\ Pile[Ring] = ring
         /\ \A k \in Depths : /\ <<"buf", k>> \in Piles /\ Pile[<<"buf", k>>] = buf[k]
                              /\ <<"given", k>> \in Piles /\ Pile[<<"given", k>>] = given[k]
BY DEF TypeOK, Pile, Piles, Ring

(* Only a buffered element buffers, and no more than its notify_size.      *)
LEMMA NoBuffer ==
  ASSUME TypeOK, NEW k \in Depths
  PROVE  /\ buf[k] \in Seq(Slots) /\ Len(buf[k]) \in Nat
         /\ IF pipe[k].wrap = "buffered" THEN Len(buf[k]) <= pipe[k].size ELSE buf[k] = <<>>
<1>1. buf[k] \in Seq(Slots) /\ Len(buf[k]) \in Nat
  BY DEF TypeOK
<1>2. Len(buf[k]) <= IF pipe[k].wrap = "buffered" THEN pipe[k].size ELSE 0
  BY DEF TypeOK
<1>3. Len(buf[k]) <= 0 => buf[k] = <<>>
  BY <1>1
<1> QED
  BY <1>1, <1>2, <1>3

(* The piles after a step that keeps the types.                            *)
LEMMA PileBecomes ==
  ASSUME TypeOK', Depths' = Depths
  PROVE  /\ Piles' = Piles /\ Pile' \in [Piles -> Seq(Slots)] /\ Pile'[Ring] = ring'
         /\ \A k \in Depths : Pile'[<<"buf", k>>] = buf'[k] /\ Pile'[<<"given", k>>] = given'[k]
BY DEF TypeOK, Pile, Piles, Ring

(* The k-th element works on the first n of pile x, its buffer or its      *)
(* batch; acts are the calls that have not returned.                       *)
Working(k, x, n, acts) ==
  /\ k \in Depths /\ x \in {<<"buf", k>>, <<"given", k>>} /\ n \in 0..Len(Pile[x])
  /\ \A j \in active : j <= k
  /\ acts \subseteq active /\ active \ {k} \subseteq acts
  /\ x = <<"given", k>> =>
       buf[k] = <<>> /\ pipe[k].wrap # "buffered" /\ (k \in acts => n < Len(given[k]))
  /\ k \notin acts => (x = <<"given", k>> /\ n = Len(given[k])) \/ given[k] = <<>>
  /\ \A m \in Depths : k <= m /\ pipe[m].work = "naive" => n = 1
  /\ Work(k, SubSeq(Pile[x], 1, n), IF x = <<"given", k>> THEN Rest(k, n) ELSE given, acts)
  /\ buf' = IF x = <<"buf", k>> THEN [buf EXCEPT ![k] = SubSeq(@, n + 1, Len(@))] ELSE buf
  /\ \A j \in acts : j > released'
  /\ \/ released' = released /\ released < k
     \/ released' = k /\ buf'[k] = <<>> /\ released = k - 1 /\ status # "running"
  /\ UNCHANGED <<pipe, slot, received, status>>

(* Arithmetic about one, for batches of one.                               *)
LEMMA JustOne ==
  ASSUME NEW n \in Nat, n >= 1, n <= 1
  PROVE  n = 1
OBVIOUS

LEMMA NotOne ==
  ASSUME NEW n \in Nat, 1 < n
  PROVE  n # 1
OBVIOUS

(* All of a sequence is its first Len(s) elements.                         *)
LEMMA WholeFirst ==
  ASSUME NEW S, NEW s \in Seq(S)
  PROVE  SubSeq(s, 1, Len(s)) = s /\ SubSeq(s, Len(s) + 1, Len(s)) = <<>>
OBVIOUS

(* A buffered element that finds its buffer full works on all of it,       *)
LEMMA FlushWorks ==
  ASSUME Core, NEW k \in Depths, Runs(k), Flush(k),
         UNCHANGED <<pipe, slot, released, received, status>>
  PROVE  Working(k, <<"buf", k>>, Len(buf[k]), active)
<1>1. buf[k] \in Seq(Slots) /\ Len(buf[k]) = pipe[k].size /\ pipe[k].wrap = "buffered"
  BY DEF Core, TypeOK, Flush, Full
<1>2. Pile[<<"buf", k>>] = buf[k]
  BY PileIs DEF Core
<1>3. SubSeq(buf[k], 1, Len(buf[k])) = buf[k] /\ SubSeq(buf[k], Len(buf[k]) + 1, Len(buf[k])) = <<>>
  BY <1>1, WholeFirst
<1>4. \A m \in Depths : k <= m /\ pipe[m].work = "naive" => Len(buf[k]) = 1
  BY <1>1, Pipe DEF Core
<1>5. <<"buf", k>> # <<"given", k>> /\ Len(buf[k]) \in 0..Len(buf[k])
  BY <1>1
<1>6. \A j \in active : j <= k /\ j > released
  BY DEF Runs, Core, Calls
<1>7. k \in active
  BY DEF Runs
<1>8. Work(k, SubSeq(buf[k], 1, Len(buf[k])), given, active) /\ buf' = [buf EXCEPT ![k] = SubSeq(@, Len(buf[k]) + 1, Len(@))]
  BY <1>3 DEF Flush
<1> QED
  BY <1>1, <1>2, <1>4, <1>5, <1>6, <1>7, <1>8 DEF Working

(* ... a bypass element works on a chunk,                                  *)
LEMMA ChunkWorks ==
  ASSUME Core, NEW k \in Depths, Runs(k), Chunk(k),
         UNCHANGED <<pipe, slot, released, received, status>>
  PROVE  Working(k, <<"given", k>>, pipe[k].size, active)
<1>1. /\ given[k] \in Seq(Slots) /\ pipe[k].size < Len(given[k]) /\ pipe[k].wrap = "bypass"
      /\ pipe[k].size \in Nat \ {0}
  BY Pipe DEF Core, TypeOK, Chunk, Element
<1>2. Pile[<<"given", k>>] = given[k]
  BY PileIs DEF Core
<1>3. buf[k] = <<>>
  BY <1>1, NoBuffer DEF Core
<1>4. \A m \in Depths : k <= m /\ pipe[m].work = "naive" => pipe[k].size = 1
  BY <1>1, Pipe DEF Core
<1>5. <<"buf", k>> # <<"given", k>> /\ pipe[k].size \in 0..Len(given[k])
  BY <1>1
<1>6. \A j \in active : j <= k /\ j > released
  BY DEF Runs, Core, Calls
<1>7. k \in active
  BY DEF Runs
<1>8. Work(k, SubSeq(given[k], 1, pipe[k].size), Rest(k, pipe[k].size), active) /\ UNCHANGED buf
  BY DEF Chunk
<1> QED
  BY <1>1, <1>2, <1>3, <1>4, <1>5, <1>6, <1>7, <1>8 DEF Working

(* ... and on the last one as it returns; so does a bare element,          *)
LEMMA LastChunkWorks ==
  ASSUME Core, NEW k \in Depths, Runs(k), LastChunk(k),
         UNCHANGED <<pipe, slot, released, received, status>>
  PROVE  Working(k, <<"given", k>>, Len(given[k]), active \ {k})
<1>1. /\ given[k] \in Seq(Slots) /\ pipe[k].wrap # "buffered" /\ Len(given[k]) \in Nat
      /\ pipe[k].wrap = "bypass" => Len(given[k]) <= pipe[k].size
  BY DEF Core, TypeOK, LastChunk
<1>2. Pile[<<"given", k>>] = given[k]
  BY PileIs DEF Core
<1>3. buf[k] = <<>>
  BY <1>1, NoBuffer DEF Core
<1>4. ASSUME NEW m \in Depths, k <= m, pipe[m].work = "naive"
      PROVE  Len(given[k]) = 1
  <2>1. Len(given[k]) >= 1 /\ (k > 1 => Len(given[k]) = 1)
    BY <1>1, <1>4 DEF Core, Singles, Runs
  <2>2. pipe[k].size = 1 /\ pipe[1].wrap # "only" /\ pipe[k].wrap \in Wraps
    BY <1>4, Pipe DEF Core, Element
  <2>3. k = 1 => pipe[k].wrap = "bypass"
    BY <1>1, <2>2 DEF Wraps
  <2>4. k \in 1..Len(pipe) /\ Len(pipe) \in Nat
    BY Pipe DEF Core
  <2>5. CASE k = 1
    <3>1. Len(given[k]) <= 1
      BY <1>1, <2>2, <2>3, <2>5
    <3>2. Len(given[k]) \in Nat /\ Len(given[k]) >= 1
      BY <1>1, <2>1
    <3> QED
      BY <3>1, <3>2, JustOne
  <2>6. CASE k > 1
    BY <2>1, <2>6
  <2> QED
    BY <2>4, <2>5, <2>6
<1>5. <<"buf", k>> # <<"given", k>> /\ Len(given[k]) \in 0..Len(given[k])
  BY <1>1
<1>6. \A j \in active : j <= k /\ j > released
  BY DEF Runs, Core, Calls
<1>7. k \in active
  BY DEF Runs
<1>8. Work(k, SubSeq(given[k], 1, Len(given[k])), Rest(k, Len(given[k])), active \ {k}) /\ UNCHANGED buf
  BY <1>1, WholeFirst DEF LastChunk
<1> QED
  BY <1>1, <1>2, <1>3, <1>4, <1>5, <1>6, <1>7, <1>8 DEF Working

(* ... and release works on what is buffered, unless that is nothing.      *)
LEMMA ReleaseWorks ==
  ASSUME Core, ReleaseElement
  PROVE  \/ Working(released', <<"buf", released'>>, Len(buf[released']), active)
         \/ /\ status # "running" /\ released' = released + 1 /\ released < Len(pipe)
            /\ buf[released'] = <<>> /\ Idle
            /\ UNCHANGED <<pipe, stream, buf, active, given, dropped, status>>
<1> DEFINE k == released'
<1>1. /\ k = released + 1 /\ k \in Depths /\ released \in Nat
      /\ status # "running" /\ active = {}
  BY Pipe DEF Core, TypeOK, ReleaseElement, Idle
<1>2. buf[k] \in Seq(Slots) /\ Len(buf[k]) \in 0..Len(buf[k]) /\ Pile[<<"buf", k>>] = buf[k]
  <2>1. Pile[<<"buf", k>>] = buf[k]
    BY <1>1, PileIs DEF Core
  <2>2. buf[k] \in Seq(Slots) /\ Len(buf[k]) \in Nat
    BY <1>1, NoBuffer DEF Core
  <2> QED
    BY <2>1, <2>2
<1>3. CASE ~(pipe[k].wrap = "buffered" /\ buf[k] # <<>>)
  <2>1. buf[k] = <<>>
    BY <1>1, <1>3, NoBuffer DEF Core
  <2> QED
    BY <1>1, <1>3, <2>1 DEF ReleaseElement, NextToRelease, stream
<1>4. CASE pipe[k].wrap = "buffered" /\ buf[k] # <<>>
  <2>1. SubSeq(buf[k], 1, Len(buf[k])) = buf[k] /\ SubSeq(buf[k], Len(buf[k]) + 1, Len(buf[k])) = <<>>
    BY <1>2, WholeFirst
  <2>2. \A m \in Depths : k <= m /\ pipe[m].work = "naive" => Len(buf[k]) = 1
    <3>1. Len(buf[k]) <= pipe[k].size /\ Len(buf[k]) >= 1
      BY <1>1, <1>2, <1>4, NoBuffer DEF Core
    <3>2. \A m \in Depths : k <= m /\ pipe[m].work = "naive" => pipe[k].size = 1
      BY <1>1, Pipe DEF Core
    <3>3. Len(buf[k]) \in Nat
      BY <1>2
    <3>4. pipe[k].size = 1 => Len(buf[k]) = 1
      BY <3>1, <3>3, JustOne
    <3> QED
      BY <3>2, <3>4
  <2>3. <<"buf", k>> # <<"given", k>> /\ given[k] = <<>>
    BY <1>1 DEF Core, Calls
  <2>4. /\ Work(k, SubSeq(buf[k], 1, Len(buf[k])), given, active)
        /\ buf' = [buf EXCEPT ![k] = SubSeq(@, Len(buf[k]) + 1, Len(@))]
        /\ UNCHANGED <<pipe, slot, received, status>>
    BY <1>1, <1>4, <2>1 DEF ReleaseElement, NextToRelease
  <2>5. buf'[k] = <<>>
    BY <1>1, <2>1, <2>4 DEF Core, TypeOK
  <2>6. Working(k, <<"buf", k>>, Len(buf[k]), active)
    BY <1>1, <1>2, <2>2, <2>3, <2>4, <2>5 DEF Working
  <2> QED
    BY <2>6
<1> QED
  BY <1>3, <1>4

----------------------------------------------------------------------------

(* The increasing enumeration of a set of positions reaches each of them.  *)
LEMMA ListingIs ==
  ASSUME NEW n \in Nat, NEW S \in SUBSET (1..n), NEW e \in Listing(S)
  PROVE  /\ Cardinality(S) \in 0..n /\ e \in [1..Cardinality(S) -> S]
         /\ \A i, j \in 1..Cardinality(S) : i < j => e[i] < e[j]
         /\ \A p \in S : \E i \in 1..Cardinality(S) : e[i] = p
<1>1. IsFiniteSet(1..n) /\ Cardinality(1..n) = n
  BY FS_Interval
<1>2. IsFiniteSet(S) /\ Cardinality(S) <= n /\ Cardinality(S) \in Nat
  BY <1>1, FS_Subset, FS_CardinalityType
<1> DEFINE c == Cardinality(S)
<1>3. e \in [1..c -> S] /\ \A i, j \in 1..c : i < j => e[i] < e[j]
  BY DEF Listing
<1>4. e \in Injection(1..c, S)
  <2>1. \A i \in 1..c : e[i] \in 1..n
    BY <1>3
  <2>2. \A i, j \in 1..c : e[i] = e[j] => i = j
    BY <1>2, <1>3, <2>1
  <2> QED
    BY <1>3, <2>2 DEF Injection, IsInjective
<1>5. IsFiniteSet(1..c) /\ Cardinality(1..c) = c
  BY <1>2, FS_Interval
<1>6. e \in Surjection(1..c, S)
  BY <1>2, <1>4, <1>5, FS_Injection
<1>7. \A p \in S : \E i \in 1..c : e[i] = p
  BY <1>6 DEF Surjection
<1> QED
  BY <1>2, <1>3, <1>7

(* c is the part of the batch whose fast is b.                             *)
Part(pkts, b, c) ==
  /\ c \in Seq(Slots) /\ Len(c) \in 0..Len(pkts)
  /\ \E e \in [1..Len(c) -> 1..Len(pkts)] :
       /\ \A i \in 1..Len(c) : c[i] = pkts[e[i]] /\ slot[c[i]].fast = b
       /\ \A i, j \in 1..Len(c) : i < j => e[i] < e[j]
       /\ \A p \in 1..Len(pkts) :
            slot[pkts[p]].fast = b => \E i \in 1..Len(c) : e[i] = p

(* What Class picks is such a part.                                        *)
LEMMA ClassIs ==
  ASSUME NEW pkts \in Seq(Slots), NEW b \in BOOLEAN, NEW c \in Class(pkts, b)
  PROVE  Part(pkts, b, c)
<1> DEFINE S == {i \in 1..Len(pkts) : slot[pkts[i]].fast = b}
<1>1. PICK e \in Listing(S) : c = [i \in DOMAIN e |-> pkts[e[i]]]
  BY DEF Class
<1>2. Len(pkts) \in Nat /\ S \in SUBSET (1..Len(pkts))
  OBVIOUS
<1> DEFINE m == Cardinality(S)
<1> HIDE DEF m
<1>3. /\ m \in 0..Len(pkts) /\ e \in [1..m -> S]
      /\ \A i, j \in 1..m : i < j => e[i] < e[j]
      /\ \A p \in S : \E i \in 1..m : e[i] = p
  BY <1>1, <1>2, ListingIs DEF m
<1>4. DOMAIN e = 1..m /\ m \in Nat /\ \A i \in 1..m : e[i] \in 1..Len(pkts)
  BY <1>2, <1>3
<1>5. c = [i \in 1..m |-> pkts[e[i]]] /\ \A i \in 1..m : pkts[e[i]] \in Slots
  BY <1>1, <1>4
<1>6. c \in Seq(Slots) /\ Len(c) = m
  BY <1>4, <1>5
<1>7. e \in [1..Len(c) -> 1..Len(pkts)]
  BY <1>3, <1>4, <1>6
<1>8. \A i \in 1..m : c[i] = pkts[e[i]] /\ slot[c[i]].fast = b
  BY <1>3, <1>5
<1>9. \A i, j \in 1..Len(c) : i < j => e[i] < e[j]
  BY <1>3, <1>6
<1>10. \A p \in 1..Len(pkts) : slot[pkts[p]].fast = b => \E i \in 1..Len(c) : e[i] = p
  BY <1>3, <1>6
<1> HIDE DEF S
<1> QED
  BY <1>3, <1>6, <1>7, <1>8, <1>9, <1>10 DEF Part

(* The ring keeps its type, and takes all that it has room for.            *)
LEMMA EnqueueType ==
  ASSUME NEW r \in Seq(Slots), NEW pkts \in Seq(Slots)
  PROVE  /\ Enqueue(r, pkts) \in Seq(Slots)
         /\ Len(r) + Len(pkts) <= Capacity => Enqueue(r, pkts) = r \o pkts
<1>1. Capacity \in Nat /\ Len(r) \in Nat /\ Len(pkts) \in Nat
  BY DatapathAssumption DEF Capacity
<1>2. Len(r) + Len(pkts) <= Capacity => Enqueue(r, pkts) = r \o pkts
  <2>1. Len(r) + Len(pkts) <= Capacity => Len(pkts) <= Capacity - Len(r)
    BY <1>1
  <2> QED
    BY <2>1 DEF Enqueue
<1>3. CASE Len(pkts) <= Capacity - Len(r)
  BY <1>2, <1>3 DEF Enqueue
<1>4. CASE ~(Len(pkts) <= Capacity - Len(r))
  <2>1. SubSeq(pkts, 1, Capacity - Len(r)) \in Seq(Slots)
    BY <1>1, <1>4
  <2> QED
    BY <1>2, <1>4, <2>1 DEF Enqueue
<1> QED
  BY <1>3, <1>4

(* rx_stream_release_pkts keeps the types.                                 *)
LEMMA ReleaseTypes ==
  ASSUME TypeOK, NEW pkts \in Seq(Slots), ReleasePkts(pkts)
  PROVE  ring' \in Seq(Slots) /\ queue_length' \in Int /\ dropped' \in Seq(Packet)
<1>1. ring \in Seq(Slots) /\ queue_length \in Int /\ dropped \in Seq(Packet) /\ slot \in [Slots -> Packet]
  BY DEF TypeOK
<1>2. ring' \in Seq(Slots)
  BY <1>1, EnqueueType DEF ReleasePkts
<1>3. [i \in 1..Len(pkts) |-> slot[pkts[i]]] \in Seq(Packet)
  BY <1>1
<1> QED
  BY <1>1, <1>2, <1>3 DEF ReleasePkts

(* What the calls still have to take once a step has taken its batch.      *)
LEMMA LeftType ==
  ASSUME Core, NEW k, NEW x, NEW n, NEW acts, Working(k, x, n, acts)
  PROVE  LET left == IF x = <<"given", k>> THEN Rest(k, n) ELSE given
         IN /\ left \in [Depths -> Seq(Slots)]
            /\ \A j \in Depths : j # k => left[j] = given[j]
            /\ k \notin acts => left[k] = <<>>
            /\ IF x = <<"given", k>>
               THEN left[k] = SubSeq(given[k], n + 1, Len(given[k])) ELSE left[k] = given[k]
<1>1. given \in [Depths -> Seq(Slots)] /\ k \in Depths
  BY DEF Core, TypeOK, Working
<1>2. CASE x = <<"given", k>>
  <2>1. n \in 0..Len(given[k])
    BY <1>1, <1>2, PileIs DEF Core, Working
  <2>2. given[k] \in Seq(Slots) /\ Len(given[k]) \in Nat
    BY <1>1
  <2>3. SubSeq(given[k], n + 1, Len(given[k])) \in Seq(Slots)
    BY <2>1, <2>2, Remaining
  <2>4. Rest(k, n) = [given EXCEPT ![k] = SubSeq(given[k], n + 1, Len(given[k]))]
    BY DEF Rest
  <2>5. k \notin acts => SubSeq(given[k], n + 1, Len(given[k])) = <<>>
    <3>1. SubSeq(given[k], Len(given[k]) + 1, Len(given[k])) = <<>>
      BY <2>2, WholeFirst
    <3>2. given[k] = <<>> => n = Len(given[k])
      BY <2>1
    <3> QED
      BY <3>1, <3>2, <1>2 DEF Working
  <2> QED
    BY <1>1, <1>2, <2>3, <2>4, <2>5
<1>3. CASE x # <<"given", k>>
  BY <1>1, <1>3 DEF Working
<1> QED
  BY <1>2, <1>3

(* What Working does to the calls: a batch goes to the next element.       *)
LEMMA WorkCalls ==
  ASSUME Core, NEW k, NEW x, NEW n, NEW acts, Working(k, x, n, acts)
  PROVE  LET left == IF x = <<"given", k>> THEN Rest(k, n) ELSE given
         IN /\ ring' \in Seq(Slots) /\ queue_length' \in Int /\ dropped' \in Seq(Packet)
            /\ \/ pipe[k].work = "drop" /\ given' = left /\ active' = acts
               \/ /\ pipe[k].work # "drop" /\ active' = acts \union {k + 1}
                  /\ \E pkts \in Seq(Slots) :
                       /\ given' = [left EXCEPT ![k + 1] = pkts]
                       /\ pipe[k].work # "fastpass" => Len(pkts) = n
<1> DEFINE left == IF x = <<"given", k>> THEN Rest(k, n) ELSE given
           pkts == SubSeq(Pile[x], 1, n)
<1>1. Pile[x] \in Seq(Slots) /\ n \in 0..Len(Pile[x])
  BY PileIs DEF Core, Working
<1>2. pkts \in Seq(Slots) /\ Len(pkts) = n
  BY <1>1, First
<1>3. Work(k, pkts, left, acts)
  BY DEF Working
<1>4. ring \in Seq(Slots) /\ queue_length \in Int /\ dropped \in Seq(Packet) /\ TypeOK
  BY DEF Core, TypeOK
<1> HIDE DEF left, pkts
<1>5. CASE pipe[k].work = "forward"
  BY <1>2, <1>3, <1>4, <1>5 DEF Work, Process, left
<1>6. CASE pipe[k].work = "naive"
  <2>1. n = 1
    BY <1>6 DEF Working, Depths
  <2>2. <<pkts[1]>> \in Seq(Slots) /\ Len(<<pkts[1]>>) = 1
    BY <1>2, <2>1
  <2> QED
    BY <1>3, <1>4, <1>6, <2>1, <2>2 DEF Work, Process, left
<1>7. CASE pipe[k].work = "fastpass"
  <2>1. PICK fst \in Class(pkts, TRUE), slw \in Class(pkts, FALSE) :
          ReleasePkts(fst) /\ Process(k + 1, slw, left, acts)
    BY <1>3, <1>7 DEF Work
  <2>2. fst \in Seq(Slots) /\ slw \in Seq(Slots)
    BY <1>2, ClassIs DEF Part
  <2> QED
    BY <1>4, <1>7, <2>1, <2>2, ReleaseTypes DEF Process, left
<1>8. CASE pipe[k].work = "drop"
  BY <1>2, <1>3, <1>4, <1>8, ReleaseTypes DEF Work, left
<1> QED
  BY <1>3, <1>5, <1>6, <1>7, <1>8 DEF Work

(* The types, the calls and the batches of one hold through such a step.   *)
LEMMA WorkCore ==
  ASSUME Core, NEW k, NEW x, NEW n, NEW acts, Working(k, x, n, acts)
  PROVE  Core'
<1> DEFINE left == IF x = <<"given", k>> THEN Rest(k, n) ELSE given
<1>1. /\ k \in Depths /\ Depths = 1..Len(pipe) /\ Len(pipe) \in Nat /\ acts \subseteq active
      /\ active \subseteq Depths /\ UNCHANGED <<pipe, slot, received, status>> /\ Depths' = Depths
  BY Pipe DEF Core, TypeOK, Working, Depths
<1>2. /\ left \in [Depths -> Seq(Slots)] /\ \A j \in Depths : j # k => left[j] = given[j]
      /\ k \notin acts => left[k] = <<>>
  BY LeftType
<1>3. \A j \in Depths : j \notin acts => left[j] = <<>>
  BY <1>2 DEF Core, Calls, Working
<1>4. /\ ring' \in Seq(Slots) /\ queue_length' \in Int /\ dropped' \in Seq(Packet)
      /\ \/ pipe[k].work = "drop" /\ given' = left /\ active' = acts
         \/ /\ pipe[k].work # "drop" /\ active' = acts \union {k + 1}
            /\ \E pkts \in Seq(Slots) :
                 /\ given' = [left EXCEPT ![k + 1] = pkts]
                 /\ pipe[k].work # "fastpass" => Len(pkts) = n
  BY WorkCalls
<1>5. pipe[k].work # "drop" => k + 1 \in Depths
  BY <1>1, Pipe DEF Core
<1> HIDE DEF left
<1>6. /\ buf' \in [Depths -> Seq(Slots)]
      /\ \A j \in Depths : Len(buf'[j]) <= Len(buf[j])
      /\ \A j \in Depths : buf[j] = <<>> => buf'[j] = <<>>
  <2>1. CASE x = <<"buf", k>>
    <3>1. n \in 0..Len(buf[k]) /\ buf \in [Depths -> Seq(Slots)]
      BY <1>1, <2>1, PileIs DEF Core, TypeOK, Working
    <3>2. buf' = [buf EXCEPT ![k] = SubSeq(buf[k], n + 1, Len(buf[k]))]
      BY <2>1 DEF Working
    <3>3. /\ buf[k] \in Seq(Slots) /\ SubSeq(buf[k], n + 1, Len(buf[k])) \in Seq(Slots)
          /\ Len(SubSeq(buf[k], n + 1, Len(buf[k]))) = Len(buf[k]) - n
      BY <1>1, <3>1, Remaining
    <3>4. Len(buf[k]) \in Nat /\ Len(buf[k]) - n <= Len(buf[k])
      BY <3>1, <3>3
    <3>5. buf[k] = <<>> => SubSeq(buf[k], n + 1, Len(buf[k])) = <<>>
      BY <3>1, <3>3
    <3>6. \A j \in Depths : Len(buf[j]) \in Nat
      BY <3>1
    <3> QED
      BY <1>1, <3>1, <3>2, <3>3, <3>4, <3>5, <3>6
  <2>2. CASE x # <<"buf", k>>
    <3>1. buf' = buf /\ buf \in [Depths -> Seq(Slots)]
      BY <2>2 DEF Core, TypeOK, Working
    <3>2. \A j \in Depths : Len(buf[j]) \in Nat
      BY <3>1
    <3> QED
      BY <3>1, <3>2
  <2> QED
    BY <2>1, <2>2
<1>7. given' \in [Depths -> Seq(Slots)] /\ active' \subseteq Depths
  BY <1>1, <1>2, <1>4, <1>5
<1>8. released' \in 0..Len(pipe)
  BY <1>1 DEF Core, TypeOK, Working
<1>9. TypeOK'
  <2>1. /\ (pipe \in Pipelines)' /\ slot' \in [Slots -> Packet] /\ received' \in 0..MaxPkts
        /\ status' \in {"running", "short", "done"}
    BY <1>1 DEF Core, TypeOK
  <2>2. \A j \in Depths : Len(buf'[j]) <= IF pipe[j].wrap = "buffered" THEN pipe[j].size ELSE 0
    <3> SUFFICES ASSUME NEW j \in Depths
                 PROVE  Len(buf'[j]) <= IF pipe[j].wrap = "buffered" THEN pipe[j].size ELSE 0
      OBVIOUS
    <3> DEFINE room == IF pipe[j].wrap = "buffered" THEN pipe[j].size ELSE 0
    <3>1. room \in Nat /\ Len(buf[j]) <= room
      BY Pipe DEF Core, TypeOK, Element
    <3>2. Len(buf'[j]) \in Nat /\ Len(buf[j]) \in Nat /\ Len(buf'[j]) <= Len(buf[j])
      BY <1>6 DEF Core, TypeOK
    <3> HIDE DEF room
    <3>3. Len(buf'[j]) <= room
      BY <3>1, <3>2
    <3> QED
      BY <3>3 DEF room
  <2> QED
    BY <1>1, <1>4, <1>6, <1>7, <1>8, <2>1, <2>2 DEF TypeOK, Depths
<1>10. Calls'
  <2>1. \A j \in Depths : j \notin active' => given'[j] = <<>>
    BY <1>1, <1>2, <1>3, <1>4, <1>5
  <2>2. \A j \in active' : j > released'
    <3>1. k + 1 > released' /\ k \in Nat
      BY SMTT(30), <1>1, <1>8 DEF Core, TypeOK, Working
    <3> QED
      BY <1>4, <3>1 DEF Working
  <2>3. \A j \in Depths : j <= released' => buf'[j] = <<>>
    <3>1. CASE released' = released
      BY <1>6, <3>1 DEF Core, Calls
    <3>2. CASE released' = k /\ buf'[k] = <<>> /\ released = k - 1
      BY <1>1, <1>6, <3>2 DEF Core, Calls
    <3> QED
      BY <3>1, <3>2 DEF Working
  <2>4. status' = "running" => released' = 0
    BY <1>1 DEF Core, Calls, Working
  <2> QED
    BY <1>1, <2>1, <2>2, <2>3, <2>4 DEF Calls
<1>11. Singles'
  <2> SUFFICES ASSUME NEW j \in active', NEW m \in Depths, j <= m, pipe[m].work = "naive"
               PROVE  IF pipe[j].wrap = "buffered" THEN j > 1 => Len(given'[j]) <= 1
                      ELSE Len(given'[j]) >= 1 /\ (j > 1 => Len(given'[j]) = 1)
    BY <1>1 DEF Singles
  <2>1. j \in Depths /\ j \in Nat /\ m \in Nat /\ k \in Nat
    BY <1>1, <1>7
  <2>2. CASE pipe[k].work # "drop" /\ j = k + 1
    <3>1. k <= m /\ k <= j
      BY <2>1, <2>2
    <3>2. n = 1 /\ pipe[k].work # "fastpass"
      BY <1>1, <2>1, <3>1, Pipe DEF Core, Working
    <3>3. Len(given'[j]) = 1
      BY <1>2, <1>4, <2>2, <3>2, <2>1
    <3> QED
      BY <3>3
  <2>3. CASE ~(pipe[k].work # "drop" /\ j = k + 1)
    <3>1. j \in acts /\ given'[j] = left[j]
      BY <1>2, <1>4, <2>1, <2>3
    <3>2. CASE j = k
      <4>1. CASE x = <<"given", k>>
        <5>1. n = 1 /\ 1 < Len(given[k]) /\ Len(given[k]) \in Nat /\ k \in active
          BY <1>1, <2>1, <3>1, <3>2, <4>1 DEF Working, Core, TypeOK
        <5>2. ~(k > 1)
          <6>1. pipe[k].wrap # "buffered"
            BY <4>1 DEF Working
          <6>2. k > 1 => Len(given[k]) = 1
            BY <5>1, <6>1, <3>2 DEF Core, Singles
          <6>3. Len(given[k]) # 1
            BY <5>1, NotOne
          <6> QED
            BY <6>2, <6>3
        <5>3. Len(left[k]) = Len(given[k]) - n
          <6>1. left[k] = SubSeq(given[k], n + 1, Len(given[k]))
            BY <4>1, LeftType DEF left
          <6>2. given[k] \in Seq(Slots) /\ n \in 0..Len(given[k])
            BY <1>1, <5>1 DEF Core, TypeOK
          <6> QED
            BY <6>1, <6>2, Remaining
        <5>4. Len(left[k]) >= 1 /\ ~(k > 1 /\ TRUE)
          BY <5>1, <5>2, <5>3
        <5> QED
          BY <3>1, <3>2, <5>2, <5>4
      <4>2. CASE x # <<"given", k>>
        <5>1. left[k] = given[k]
          BY <4>2, LeftType DEF left
        <5> QED
          BY <1>1, <2>1, <3>1, <3>2, <5>1 DEF Core, Singles
      <4> QED
        BY <4>1, <4>2
    <3>3. CASE j # k
      BY <1>1, <1>2, <2>1, <3>1, <3>3 DEF Core, Singles
    <3> QED
      BY <3>2, <3>3
  <2> QED
    BY <2>2, <2>3
<1> QED
  BY <1>9, <1>10, <1>11 DEF Core

(* The other steps.                                                        *)
PutOrReturn(k) == k \in Depths /\ Runs(k) /\ (Put(k) \/ Return(k))

Exits ==
  /\ UNCHANGED <<pipe, stream, buf, active, given, dropped>> /\ Idle
  /\ \/ status = "running" /\ released' = released /\ status' \in {"short", "done"}
     \/ /\ status # "running" /\ UNCHANGED status
        /\ released' = released + 1 /\ released < Len(pipe) /\ buf[released'] = <<>>

(* Every step is one that works on a batch, one that only moves a packet   *)
(* into a buffer or returns, a burst, or one of the exits.                 *)
LEMMA Steps ==
  ASSUME Core, [Next]_vars
  PROVE  \/ \E k, x, n, acts : Working(k, x, n, acts)
         \/ \E k \in Depths :
              PutOrReturn(k) /\ UNCHANGED <<pipe, slot, released, received, status>>
         \/ \E n \in 1..RxBurst : Burst(n)
         \/ Exits
         \/ UNCHANGED vars
<1>1. ASSUME NEW k \in Depths, Runs(k), UNCHANGED <<pipe, slot, released, received, status>>,
             Flush(k) \/ Put(k) \/ Return(k) \/ Chunk(k) \/ LastChunk(k)
      PROVE  (\E x, n, acts : Working(k, x, n, acts)) \/ PutOrReturn(k)
  BY <1>1, FlushWorks, ChunkWorks, LastChunkWorks DEF PutOrReturn
<1>2. ASSUME Step
      PROVE  \/ \E k, x, n, acts : Working(k, x, n, acts)
             \/ \E k \in Depths :
                  PutOrReturn(k) /\ UNCHANGED <<pipe, slot, released, received, status>>
  <2>1. PICK k \in Depths : Runs(k) /\ (Flush(k) \/ Put(k) \/ Return(k) \/ Chunk(k) \/ LastChunk(k))
    BY <1>2 DEF Step
  <2>2. UNCHANGED <<pipe, slot, released, received, status>>
    BY <1>2 DEF Step
  <2> QED
    BY <1>1, <2>1, <2>2
<1>3. ASSUME ReleaseElement
      PROVE  (\E k, x, n, acts : Working(k, x, n, acts)) \/ Exits
  BY <1>3, ReleaseWorks DEF Exits
<1>4. ASSUME LoopEnds \/ \E n \in 1..RxBurst : Short(n)
      PROVE  Exits
  BY <1>4 DEF LoopEnds, Short, Exits
<1> QED
  BY <1>2, <1>3, <1>4 DEF Next

(* The types, the calls and the batches of one hold at first,              *)
LEMMA CoreInit == Init => Core
<1> SUFFICES ASSUME Init PROVE Core
  OBVIOUS
<1>1. Capacity \in Nat /\ RingSize \in Nat \ {0, 1}
  BY DatapathAssumption DEF Capacity
<1>2. ring \in Seq(Slots)
  <2>1. <<>> \in Seq(Slots) /\ [i \in 1..RingSize |-> i - 1] \in Seq(Slots)
    BY <1>1 DEF Slots
  <2> QED
    BY <2>1, EnqueueType DEF Init
<1>3. [id |-> 0, fast |-> FALSE] \in Packet
  BY DatapathAssumption DEF Packet
<1>4. WellBuilt(pipe) /\ pipe \in Pipelines
  BY DatapathAssumption DEF Init
<1>5. \A k \in Depths : pipe[k].size \in Nat
  <2>1. pipe \in Seq(Element)
    BY <1>4 DEF WellBuilt
  <2>2. \A k \in Depths : pipe[k] \in Element
    BY <2>1 DEF Depths
  <2> QED
    BY <2>2 DEF Element
<1>6. Len(pipe) \in Nat
  BY <1>4 DEF WellBuilt
<1>7. \A k \in Depths : Len(buf[k]) <= IF pipe[k].wrap = "buffered" THEN pipe[k].size ELSE 0
  BY <1>5 DEF Init
<1>8. TypeOK
  BY <1>1, <1>2, <1>3, <1>4, <1>6, <1>7, DatapathAssumption DEF Init, TypeOK
<1>9. Calls /\ Singles
  BY <1>6 DEF Init, Calls, Singles, Depths
<1> QED
  BY <1>8, <1>9 DEF Core

(* ... through Put and Return,                                             *)
LEMMA PutCore ==
  ASSUME Core, NEW k \in Depths, PutOrReturn(k), UNCHANGED <<pipe, slot, released, received, status>>
  PROVE  Core'
<1>1. k \in active /\ pipe[k].wrap = "buffered" /\ Depths' = Depths
  BY DEF PutOrReturn, Runs, Put, Return, Depths
<1>2. /\ buf[k] \in Seq(Slots) /\ given[k] \in Seq(Slots)
      /\ buf \in [Depths -> Seq(Slots)] /\ given \in [Depths -> Seq(Slots)]
  BY DEF Core, TypeOK
<1>3. CASE Return(k)
  <2>1. TypeOK'
    BY <1>1, <1>3 DEF Return, Core, TypeOK, Depths
  <2>2. Calls'
    BY <1>1, <1>3 DEF Return, Core, Calls, Depths
  <2>3. Singles'
    BY <1>1, <1>3 DEF Return, Core, Singles, Depths
  <2> QED
    BY <2>1, <2>2, <2>3 DEF Core
<1>4. CASE Put(k)
  <2>1. Len(given[k]) \in Nat \ {0} /\ 1 \in 0..Len(given[k])
    BY <1>2, <1>4 DEF Put
  <2>2. /\ SubSeq(given[k], 1, 1) \in Seq(Slots) /\ Len(SubSeq(given[k], 1, 1)) = 1
        /\ SubSeq(given[k], 2, Len(given[k])) \in Seq(Slots)
        /\ Len(SubSeq(given[k], 2, Len(given[k]))) = Len(given[k]) - 1
    <3>1. SubSeq(given[k], 1, 1) \in Seq(Slots) /\ Len(SubSeq(given[k], 1, 1)) = 1
      BY <1>2, <2>1, First
    <3>2. /\ SubSeq(given[k], 1 + 1, Len(given[k])) \in Seq(Slots)
          /\ Len(SubSeq(given[k], 1 + 1, Len(given[k]))) = Len(given[k]) - 1
      BY <1>2, <2>1, Remaining
    <3> QED
      BY <3>1, <3>2
  <2>3. given' = [given EXCEPT ![k] = SubSeq(given[k], 2, Len(given[k]))] /\ buf' = [buf EXCEPT ![k] = buf[k] \o SubSeq(given[k], 1, 1)]
    BY <1>4 DEF Put, Rest
  <2>4. UNCHANGED <<pipe, ring, slot, queue_length, active, released, received, dropped, status>>
    BY <1>4 DEF Put
  <2>5. buf[k] \o SubSeq(given[k], 1, 1) \in Seq(Slots) /\ Len(buf[k] \o SubSeq(given[k], 1, 1)) <= pipe[k].size
    <3>1. Len(buf[k]) \in Nat /\ pipe[k].size \in Nat /\ Len(buf[k]) <= pipe[k].size /\ Len(buf[k]) # pipe[k].size
      <4>1. Len(buf[k]) \in Nat /\ Len(buf[k]) <= pipe[k].size
        BY <1>1, <1>2 DEF Core, TypeOK
      <4>2. pipe[k].size \in Nat
        BY <1>1, Pipe DEF Core, Element
      <4>3. Len(buf[k]) # pipe[k].size
        BY <1>4 DEF Put, Full
      <4> QED
        BY <4>1, <4>2, <4>3
    <3>2. Len(buf[k] \o SubSeq(given[k], 1, 1)) = Len(buf[k]) + 1
      BY <1>2, <2>2
    <3> QED
      BY <1>2, <2>2, <3>1, <3>2
  <2>6. TypeOK'
    <3>1. \A j \in Depths : Len(buf'[j]) <= IF pipe[j].wrap = "buffered" THEN pipe[j].size ELSE 0
      <4> SUFFICES ASSUME NEW j \in Depths
                   PROVE  Len(buf'[j]) <= IF pipe[j].wrap = "buffered" THEN pipe[j].size ELSE 0
        OBVIOUS
      <4>1. CASE j = k
        BY <1>1, <1>2, <2>3, <2>5, <4>1
      <4>2. CASE j # k
        BY <1>2, <2>3, <4>2 DEF Core, TypeOK
      <4> QED
        BY <4>1, <4>2
    <3> QED
      BY <1>1, <1>2, <2>2, <2>3, <2>4, <2>5, <3>1 DEF Core, TypeOK, Depths
  <2>7. Calls'
    <3>1. \A j \in Depths : j # k => given'[j] = given[j] /\ buf'[j] = buf[j]
      BY <1>2, <2>3
    <3>2. ~(k <= released)
      BY <1>1, Pipe DEF Core, TypeOK, Calls
    <3> QED
      BY <1>1, <2>4, <3>1, <3>2 DEF Core, Calls
  <2>8. Singles'
    <3>1. \A j \in Depths : j # k => given'[j] = given[j]
      BY <1>2, <2>3
    <3>2. Len(given'[k]) = Len(given[k]) - 1
      BY <1>2, <2>2, <2>3
    <3>3. Len(given[k]) <= 1 => Len(given'[k]) <= 1
      BY <2>1, <3>2
    <3> QED
      BY <1>1, <2>4, <3>1, <3>3 DEF Core, TypeOK, Singles, Depths
  <2> QED
    BY <2>6, <2>7, <2>8 DEF Core
<1> QED
  BY <1>3, <1>4 DEF PutOrReturn

(* ... through a burst,                                                    *)
LEMMA BurstCore ==
  ASSUME Core, NEW n \in 1..RxBurst, Burst(n)
  PROVE  Core'
<1>1. PICK fast \in [1..n -> BOOLEAN] : Mtop(n, fast)
  BY DEF Burst
<1>2. /\ n \in Nat \ {0} /\ n \in 0..Len(ring) /\ ring \in Seq(Slots) /\ received \in Nat
      /\ received + n <= MaxPkts /\ MaxPkts \in Nat /\ Depths' = Depths /\ 1 \in Depths
  <2>1. ring \in Seq(Slots) /\ Len(ring) \in Nat /\ received \in Nat
    BY DatapathAssumption DEF Core, TypeOK
  <2>2. n <= Len(ring) /\ received + n <= MaxPkts /\ pipe' = pipe
    BY DEF Burst
  <2>3. n \in Nat \ {0} /\ MaxPkts \in Nat
    BY DatapathAssumption
  <2>4. Depths' = Depths /\ 1 \in Depths
    BY <2>2, Pipe DEF Depths, Core
  <2> QED
    BY <2>1, <2>2, <2>3, <2>4
<1>3. SubSeq(ring, 1, n) \in Seq(Slots) /\ Len(SubSeq(ring, 1, n)) = n
  BY <1>2, First
<1>4. ring' \in Seq(Slots) /\ queue_length' \in Int /\ received' \in 0..MaxPkts
  <2>1. SubSeq(ring, n + 1, Len(ring)) \in Seq(Slots)
    BY <1>2, Remaining
  <2>2. ring' \in Seq(Slots) /\ queue_length' \in Int
    BY <1>1, <1>2, <2>1 DEF Mtop, Core, TypeOK
  <2>3. received' = received + n
    BY DEF Burst
  <2> QED
    BY <1>2, <2>2, <2>3
<1>5. slot' \in [Slots -> Packet]
  <2>1. \A i \in 1..n : [id |-> received + i, fast |-> fast[i]] \in Packet
    BY <1>2 DEF Packet
  <2>2. \A p \in Slots : (\E i \in 1..n : ring[i] = p) => (CHOOSE i \in 1..n : ring[i] = p) \in 1..n
    OBVIOUS
  <2> QED
    BY <1>1, <2>1, <2>2 DEF Mtop, Core, TypeOK
<1>6. /\ given' = [given EXCEPT ![1] = SubSeq(ring, 1, n)] /\ active' = {1} /\ active = {}
      /\ UNCHANGED <<pipe, buf, released, dropped, status>> /\ status = "running"
  BY DEF Burst, Process, Idle
<1>7. TypeOK'
  BY <1>2, <1>3, <1>4, <1>5, <1>6 DEF Core, TypeOK, Depths
<1>8. Calls'
  BY <1>2, <1>6 DEF Core, TypeOK, Calls, Depths
<1>9. Singles'
  <2>1. Len(given'[1]) >= 1
    BY <1>2, <1>3, <1>6 DEF Core, TypeOK
  <2> QED
    BY <1>6, <2>1 DEF Singles
<1> QED
  BY <1>7, <1>8, <1>9 DEF Core

(* ... and through every step.                                             *)
LEMMA CoreStep ==
  ASSUME Core, [Next]_vars
  PROVE  Core'
<1>1. ASSUME Exits PROVE Core'
  <2>1. /\ UNCHANGED <<pipe, ring, slot, queue_length, received, buf, active, given, dropped>>
        /\ active = {} /\ Depths' = Depths /\ released \in Nat /\ Len(pipe) \in Nat
    BY <1>1, Pipe DEF Exits, stream, Idle, Depths, Core, TypeOK
  <2>2. TypeOK'
    BY <1>1, <2>1 DEF Exits, Core, TypeOK, Depths
  <2>3. Calls'
    BY <1>1, <2>1 DEF Exits, Core, Calls, Depths
  <2>4. Singles'
    BY <2>1 DEF Singles
  <2> QED
    BY <2>2, <2>3, <2>4 DEF Core
<1>2. ASSUME UNCHANGED vars PROVE Core'
  BY <1>2 DEF vars, stream, Core, TypeOK, Calls, Singles, Depths
<1> QED
  BY <1>1, <1>2, Steps, WorkCore, PutCore, BurstCore

----------------------------------------------------------------------------
(* Conservation, of piles in general.                                      *)

(* No slot is in two places, ...                                           *)
Distinct(P) ==
  \A x, y \in DOMAIN P : \A i \in 1..Len(P[x]), j \in 1..Len(P[y]) :
    P[x][i] = P[y][j] => x = y /\ i = j

(* ... and each of the slots that the ring took at first is in one.        *)
Conserved(P) ==
  /\ \A x \in DOMAIN P : \A i \in 1..Len(P[x]) : P[x][i] \in 0..(Capacity - 1)
  /\ Distinct(P)
  /\ \A p \in 0..(Capacity - 1) : \E x \in DOMAIN P : \E i \in 1..Len(P[x]) : P[x][i] = p

(* The first n of pile x go to the end of pile y.                          *)
Moves(P, Q, x, y, n) ==
  /\ DOMAIN Q = DOMAIN P /\ x \in DOMAIN P /\ y \in DOMAIN P /\ x # y
  /\ \A z \in DOMAIN P : P[z] \in Seq(Slots) /\ Q[z] \in Seq(Slots)
  /\ n \in 0..Len(P[x])
  /\ Q[x] = SubSeq(P[x], n + 1, Len(P[x]))
  /\ Q[y] = P[y] \o SubSeq(P[x], 1, n)
  /\ \A z \in DOMAIN P \ {x, y} : Q[z] = P[z]

(* Moves, place by place.                                                  *)
LEMMA MovesIs ==
  ASSUME NEW P, NEW Q, NEW x, NEW y, NEW n, Moves(P, Q, x, y, n)
  PROVE  /\ n \in Nat /\ \A z \in DOMAIN P : Len(P[z]) \in Nat /\ Len(Q[z]) \in Nat
         /\ Len(Q[x]) = Len(P[x]) - n /\ \A i \in 1..Len(Q[x]) : Q[x][i] = P[x][i + n]
         /\ Len(Q[y]) = Len(P[y]) + n /\ \A i \in 1..Len(P[y]) : Q[y][i] = P[y][i]
         /\ \A i \in 1..n : Q[y][Len(P[y]) + i] = P[x][i]
<1>1. P[x] \in Seq(Slots) /\ P[y] \in Seq(Slots) /\ n \in 0..Len(P[x])
  BY DEF Moves
<1>2. Len(Q[x]) = Len(P[x]) - n /\ \A i \in 1..Len(Q[x]) : Q[x][i] = P[x][i + n]
  BY <1>1, Remaining DEF Moves
<1> DEFINE f == SubSeq(P[x], 1, n)
<1>3. f \in Seq(Slots) /\ Len(f) = n /\ \A i \in 1..n : f[i] = P[x][i]
  BY <1>1, First
<1>4. Q[y] = P[y] \o f
  BY DEF Moves
<1> HIDE DEF f
<1>5. /\ Len(Q[y]) = Len(P[y]) + Len(f)
      /\ \A i \in 1..Len(P[y]) : Q[y][i] = P[y][i]
      /\ \A i \in 1..Len(f) : Q[y][Len(P[y]) + i] = f[i]
  <2>1. P[y] \in Seq(Slots) /\ f \in Seq(Slots) /\ Q[y] = P[y] \o f
    BY <1>1, <1>3, <1>4
  <2> QED
    BY ONLY <2>1, Concat
<1>6. \A i \in 1..n : Q[y][Len(P[y]) + i] = P[x][i]
  BY <1>3, <1>5
<1>7. n \in Nat /\ \A z \in DOMAIN P : Len(P[z]) \in Nat /\ Len(Q[z]) \in Nat
  BY <1>1 DEF Moves
<1> QED
  BY <1>2, <1>3, <1>5, <1>6, <1>7

(* Where that leaves the slots.                                            *)
Moved(P, Q, x, y, n) ==
  /\ Len(Q[x]) = Len(P[x]) - n /\ \A i \in 1..Len(Q[x]) : Q[x][i] = P[x][i + n]
  /\ Len(Q[y]) = Len(P[y]) + n /\ \A i \in 1..n : Q[y][Len(P[y]) + i] = P[x][i]

LEMMA MovesMoved ==
  ASSUME NEW P, NEW Q, NEW x, NEW y, NEW n, Moves(P, Q, x, y, n)
  PROVE  Moved(P, Q, x, y, n)
BY MovesIs DEF Moved

(* Where the i-th of pile z came from.                                     *)
FromPile(P, x, y, z, i) == IF z = y /\ i > Len(P[y]) THEN x ELSE z
FromPlace(P, x, y, n, z, i) ==
  IF z = y /\ i > Len(P[y]) THEN i - Len(P[y]) ELSE IF z = x THEN i + n ELSE i

(* Every place after a move holds what one place held before.              *)
LEMMA MovesFrom ==
  ASSUME NEW P, NEW Q, NEW x, NEW y, NEW n, Moves(P, Q, x, y, n),
         NEW z \in DOMAIN P, NEW i \in 1..Len(Q[z])
  PROVE  /\ FromPile(P, x, y, z, i) \in DOMAIN P
         /\ FromPlace(P, x, y, n, z, i) \in 1..Len(P[FromPile(P, x, y, z, i)])
         /\ Q[z][i] = P[FromPile(P, x, y, z, i)][FromPlace(P, x, y, n, z, i)]
<1>1. /\ n \in Nat /\ \A w \in DOMAIN P : Len(P[w]) \in Nat /\ Len(Q[w]) \in Nat
      /\ Len(Q[x]) = Len(P[x]) - n /\ \A j \in 1..Len(Q[x]) : Q[x][j] = P[x][j + n]
      /\ Len(Q[y]) = Len(P[y]) + n /\ \A j \in 1..Len(P[y]) : Q[y][j] = P[y][j]
      /\ \A j \in 1..n : Q[y][Len(P[y]) + j] = P[x][j]
  BY MovesIs
<1>2. x \in DOMAIN P /\ y \in DOMAIN P /\ x # y /\ n <= Len(P[x]) /\ \A w \in DOMAIN P \ {x, y} : Q[w] = P[w]
  BY DEF Moves
<1>3. CASE z = x
  <2>1. FromPile(P, x, y, z, i) = x /\ FromPlace(P, x, y, n, z, i) = i + n
    BY <1>2, <1>3 DEF FromPile, FromPlace
  <2>2. i + n \in 1..Len(P[x])
    BY <1>1, <1>2, <1>3
  <2> QED
    BY <1>1, <1>2, <1>3, <2>1, <2>2
<1>4. CASE z = y /\ i > Len(P[y])
  <2>1. FromPile(P, x, y, z, i) = x /\ FromPlace(P, x, y, n, z, i) = i - Len(P[y])
    BY <1>4 DEF FromPile, FromPlace
  <2>2. i - Len(P[y]) \in 1..n /\ i - Len(P[y]) \in 1..Len(P[x])
    BY <1>1, <1>2, <1>4
  <2>3. Q[y][Len(P[y]) + (i - Len(P[y]))] = P[x][i - Len(P[y])]
    BY <1>1, <2>2
  <2>4. Len(P[y]) + (i - Len(P[y])) = i
    BY <1>1, <1>2
  <2> QED
    BY <1>2, <1>4, <2>1, <2>2, <2>3, <2>4
<1>5. CASE z = y /\ ~(i > Len(P[y]))
  <2>1. FromPile(P, x, y, z, i) = z /\ FromPlace(P, x, y, n, z, i) = i
    BY <1>2, <1>5 DEF FromPile, FromPlace
  <2>2. i \in 1..Len(P[y])
    BY <1>1, <1>2, <1>5
  <2> QED
    BY <1>1, <1>2, <1>5, <2>1, <2>2
<1>6. CASE z \notin {x, y}
  <2>1. FromPile(P, x, y, z, i) = z /\ FromPlace(P, x, y, n, z, i) = i
    BY <1>6 DEF FromPile, FromPlace
  <2> QED
    BY <1>2, <1>6, <2>1
<1> QED
  BY <1>3, <1>4, <1>5, <1>6

(* A move neither loses nor doubles a slot.                                *)
LEMMA MovesConserve ==
  ASSUME NEW P, NEW Q, NEW x, NEW y, NEW n, Moves(P, Q, x, y, n), Conserved(P)
  PROVE  Conserved(Q)
<1>1. /\ n \in Nat /\ \A w \in DOMAIN P : Len(P[w]) \in Nat /\ Len(Q[w]) \in Nat
      /\ Len(Q[x]) = Len(P[x]) - n /\ \A j \in 1..Len(Q[x]) : Q[x][j] = P[x][j + n]
      /\ Len(Q[y]) = Len(P[y]) + n /\ \A j \in 1..Len(P[y]) : Q[y][j] = P[y][j]
      /\ \A j \in 1..n : Q[y][Len(P[y]) + j] = P[x][j]
  BY SMTT(30), MovesIs
<1>2. /\ x \in DOMAIN P /\ y \in DOMAIN P /\ x # y /\ n <= Len(P[x]) /\ DOMAIN Q = DOMAIN P
      /\ \A w \in DOMAIN P \ {x, y} : Q[w] = P[w]
  BY DEF Moves
<1> DEFINE X(z, i) == FromPile(P, x, y, z, i)
           I(z, i) == FromPlace(P, x, y, n, z, i)
<1>3. \A z \in DOMAIN P : \A i \in 1..Len(Q[z]) :
        X(z, i) \in DOMAIN P /\ I(z, i) \in 1..Len(P[X(z, i)]) /\ Q[z][i] = P[X(z, i)][I(z, i)]
  BY MovesFrom
<1>4. ASSUME NEW z \in DOMAIN P, NEW w \in DOMAIN P, NEW i \in 1..Len(Q[z]), NEW j \in 1..Len(Q[w]),
             X(z, i) = X(w, j), I(z, i) = I(w, j)
      PROVE  z = w /\ i = j
  <2>1. i \in Nat /\ j \in Nat /\ i >= 1 /\ j >= 1
    BY <1>1
  <2> DEFINE px == Len(P[x]) py == Len(P[y])
  <2>2. px \in Nat /\ py \in Nat /\ (z = y => i <= py + n) /\ (w = y => j <= py + n)
    BY <1>1, <1>2
  <2> HIDE DEF px, py
  <2>3. (IF z = y /\ i > py THEN x ELSE z) = (IF w = y /\ j > py THEN x ELSE w)
    BY <1>4 DEF FromPile, py
  <2>4. (IF z = y /\ i > py THEN i - py ELSE IF z = x THEN i + n ELSE i)
          = (IF w = y /\ j > py THEN j - py ELSE IF w = x THEN j + n ELSE j)
    BY <1>4 DEF FromPlace, py
  <2>5. CASE (z = y /\ i > py) /\ (w = y /\ j > py)
    BY <2>1, <2>2, <2>4, <2>5
  <2>6. CASE (z = y /\ i > py) /\ ~(w = y /\ j > py)
    <3>1. w = x /\ i - py = j + n
      BY <1>2, <2>3, <2>4, <2>6
    <3> QED
      BY <1>1, <2>1, <2>2, <2>6, <3>1
  <2>7. CASE ~(z = y /\ i > py) /\ (w = y /\ j > py)
    <3>1. z = x /\ j - py = i + n
      BY <1>2, <2>3, <2>4, <2>7
    <3> QED
      BY <1>1, <2>1, <2>2, <2>7, <3>1
  <2>8. CASE ~(z = y /\ i > py) /\ ~(w = y /\ j > py)
    <3>1. z = w /\ (IF z = x THEN i + n = j + n ELSE i = j)
      BY <2>3, <2>4, <2>8
    <3> QED
      BY <1>1, <2>1, <3>1
  <2> QED
    BY <2>5, <2>6, <2>7, <2>8
<1> HIDE DEF X, I
<1>5. \A z \in DOMAIN Q : \A i \in 1..Len(Q[z]) : Q[z][i] \in 0..(Capacity - 1)
  <2> SUFFICES ASSUME NEW z \in DOMAIN P, NEW i \in 1..Len(Q[z])
               PROVE  Q[z][i] \in 0..(Capacity - 1)
    BY <1>2
  <2>1. PICK u \in DOMAIN P : \E g \in 1..Len(P[u]) : Q[z][i] = P[u][g]
    BY <1>3
  <2> QED
    BY <2>1 DEF Conserved
<1>6. Distinct(Q)
  <2>0. DOMAIN Q = DOMAIN P
    BY <1>2
  <2> SUFFICES ASSUME NEW z \in DOMAIN P, NEW w \in DOMAIN P, NEW i \in 1..Len(Q[z]), NEW j \in 1..Len(Q[w]),
                      Q[z][i] = Q[w][j]
               PROVE  z = w /\ i = j
    BY <2>0 DEF Distinct
  <2>1. X(z, i) = X(w, j) /\ I(z, i) = I(w, j)
    <3>1. PICK u, g : /\ u \in DOMAIN P /\ g \in 1..Len(P[u])
                      /\ u = X(z, i) /\ g = I(z, i) /\ Q[z][i] = P[u][g]
      BY <1>3
    <3>2. PICK v, h : /\ v \in DOMAIN P /\ h \in 1..Len(P[v])
                      /\ v = X(w, j) /\ h = I(w, j) /\ Q[w][j] = P[v][h]
      BY <1>3
    <3>3. P[u][g] = P[v][h]
      BY <3>1, <3>2
    <3>4. u = v /\ g = h
      BY <3>1, <3>2, <3>3 DEF Conserved, Distinct
    <3> QED
      BY <3>1, <3>2, <3>4
  <2> QED
    BY <1>4, <2>1
<1>7. ASSUME NEW z \in DOMAIN P, NEW i \in 1..Len(P[z])
      PROVE  \E w \in DOMAIN P : \E j \in 1..Len(Q[w]) : Q[w][j] = P[z][i]
  <2>1. CASE z = x /\ i <= n
    <3>1. Len(P[y]) + i \in 1..Len(Q[y]) /\ i \in 1..n
      BY <1>1, <1>2, <2>1
    <3>2. Q[y][Len(P[y]) + i] = P[x][i]
      BY <1>1, <3>1
    <3> QED
      BY <1>2, <2>1, <3>1, <3>2
  <2>2. CASE z = x /\ ~(i <= n)
    <3>1. i - n \in 1..Len(Q[x]) /\ (i - n) + n = i
      BY <1>1, <1>2, <2>2
    <3>2. Q[x][i - n] = P[x][(i - n) + n]
      BY <1>1, <3>1
    <3> QED
      BY <1>2, <2>2, <3>1, <3>2
  <2>3. CASE z = y
    <3>1. i \in 1..Len(Q[y]) /\ i \in 1..Len(P[y])
      BY <1>1, <1>2, <2>3
    <3> QED
      BY <1>1, <1>2, <2>3, <3>1
  <2>4. CASE z \notin {x, y}
    BY <1>2, <2>4
  <2> QED
    BY <2>1, <2>2, <2>3, <2>4
<1>8. \A p \in 0..(Capacity - 1) : \E w \in DOMAIN Q : \E j \in 1..Len(Q[w]) : Q[w][j] = p
  <2> SUFFICES ASSUME NEW p \in 0..(Capacity - 1)
               PROVE  \E w \in DOMAIN Q : \E j \in 1..Len(Q[w]) : Q[w][j] = p
    OBVIOUS
  <2>1. PICK z \in DOMAIN P : \E i \in 1..Len(P[z]) : P[z][i] = p
    BY DEF Conserved
  <2>2. PICK i \in 1..Len(P[z]) : P[z][i] = p
    BY <2>1
  <2>3. \E w \in DOMAIN P : \E j \in 1..Len(Q[w]) : Q[w][j] = P[z][i]
    BY <1>7
  <2>4. DOMAIN Q = DOMAIN P
    BY <1>2
  <2> QED
    BY <2>2, <2>3, <2>4
<1> QED
  BY <1>5, <1>6, <1>8 DEF Conserved

(* The first n of pile x are dealt to the ends of piles y and z: e and d   *)
(* tell which of them go where.                                            *)
Splits(P, Q, x, y, z, n, a, e, b, d) ==
  /\ DOMAIN Q = DOMAIN P /\ x \in DOMAIN P /\ y \in DOMAIN P /\ z \in DOMAIN P
  /\ x # y /\ x # z /\ y # z
  /\ \A w \in DOMAIN P : P[w] \in Seq(Slots) /\ Q[w] \in Seq(Slots)
  /\ n \in 0..Len(P[x]) /\ a \in Nat /\ b \in Nat
  /\ e \in [1..a -> 1..n] /\ d \in [1..b -> 1..n]
  /\ \A i, j \in 1..a : e[i] = e[j] => i = j
  /\ \A i, j \in 1..b : d[i] = d[j] => i = j
  /\ \A i \in 1..a, j \in 1..b : e[i] # d[j]
  /\ \A p \in 1..n : (\E i \in 1..a : e[i] = p) \/ (\E i \in 1..b : d[i] = p)
  /\ Len(Q[x]) = Len(P[x]) - n /\ \A i \in 1..Len(Q[x]) : Q[x][i] = P[x][i + n]
  /\ Len(Q[y]) = Len(P[y]) + a /\ \A i \in 1..Len(P[y]) : Q[y][i] = P[y][i]
  /\ \A i \in 1..a : Q[y][Len(P[y]) + i] = P[x][e[i]]
  /\ Len(Q[z]) = Len(P[z]) + b /\ \A i \in 1..Len(P[z]) : Q[z][i] = P[z][i]
  /\ \A i \in 1..b : Q[z][Len(P[z]) + i] = P[x][d[i]]
  /\ \A w \in DOMAIN P \ {x, y, z} : Q[w] = P[w]

(* Place i of pile w is filled from place g of pile u.                     *)
Filled(P, x, y, z, n, a, e, b, d, w, i, u, g) ==
  \/ w = x /\ u = x /\ g = i + n
  \/ w = y /\ i <= Len(P[y]) /\ u = y /\ g = i
  \/ w = y /\ i > Len(P[y]) /\ u = x /\ i - Len(P[y]) \in 1..a /\ g = e[i - Len(P[y])]
  \/ w = z /\ i <= Len(P[z]) /\ u = z /\ g = i
  \/ w = z /\ i > Len(P[z]) /\ u = x /\ i - Len(P[z]) \in 1..b /\ g = d[i - Len(P[z])]
  \/ w \notin {x, y, z} /\ u = w /\ g = i

(* The types in Splits.                                                    *)
LEMMA SplitsTypes ==
  ASSUME NEW P, NEW Q, NEW x, NEW y, NEW z, NEW n, NEW a, NEW e, NEW b, NEW d,
         Splits(P, Q, x, y, z, n, a, e, b, d)
  PROVE  /\ DOMAIN Q = DOMAIN P /\ x \in DOMAIN P /\ y \in DOMAIN P /\ z \in DOMAIN P
         /\ x # y /\ x # z /\ y # z
         /\ n \in 0..Len(P[x]) /\ n \in Nat /\ a \in Nat /\ b \in Nat
         /\ \A v \in DOMAIN P : Len(P[v]) \in Nat /\ Len(Q[v]) \in Nat
         /\ \A i \in 1..a : e[i] \in 1..n
         /\ \A i \in 1..b : d[i] \in 1..n
<1>1. \A v \in DOMAIN P : Len(P[v]) \in Nat /\ Len(Q[v]) \in Nat
  BY SMTT(30) DEF Splits
<1>2. x \in DOMAIN P /\ n \in 0..Len(P[x])
  BY DEF Splits
<1>3. n \in Nat
  BY <1>1, <1>2
<1>4. (\A i \in 1..a : e[i] \in 1..n) /\ (\A i \in 1..b : d[i] \in 1..n)
  BY DEF Splits
<1>5. /\ DOMAIN Q = DOMAIN P /\ x \in DOMAIN P /\ y \in DOMAIN P /\ z \in DOMAIN P
      /\ x # y /\ x # z /\ y # z /\ a \in Nat /\ b \in Nat
  BY DEF Splits
<1> QED
  BY <1>1, <1>2, <1>3, <1>4, <1>5

(* Every place after a split is filled from one place before.              *)
LEMMA SplitsFilled ==
  ASSUME NEW P, NEW Q, NEW x, NEW y, NEW z, NEW n, NEW a, NEW e, NEW b, NEW d,
         Splits(P, Q, x, y, z, n, a, e, b, d),
         NEW w \in DOMAIN P, NEW i \in 1..Len(Q[w])
  PROVE  \E u, g : /\ u \in DOMAIN P /\ g \in 1..Len(P[u]) /\ Q[w][i] = P[u][g]
                   /\ Filled(P, x, y, z, n, a, e, b, d, w, i, u, g)
<1>1. /\ x \in DOMAIN P /\ y \in DOMAIN P /\ z \in DOMAIN P /\ x # y /\ x # z /\ y # z
      /\ n \in 0..Len(P[x]) /\ n \in Nat /\ a \in Nat /\ b \in Nat
      /\ \A v \in DOMAIN P : Len(P[v]) \in Nat /\ Len(Q[v]) \in Nat
      /\ \A j \in 1..a : e[j] \in 1..n
      /\ \A j \in 1..b : d[j] \in 1..n
  BY SplitsTypes
<1>2. /\ Len(Q[x]) = Len(P[x]) - n /\ \A j \in 1..Len(Q[x]) : Q[x][j] = P[x][j + n]
  BY DEF Splits
<1>3. /\ Len(Q[y]) = Len(P[y]) + a /\ \A j \in 1..Len(P[y]) : Q[y][j] = P[y][j]
      /\ \A j \in 1..a : Q[y][Len(P[y]) + j] = P[x][e[j]]
  BY DEF Splits
<1>4. /\ Len(Q[z]) = Len(P[z]) + b /\ \A j \in 1..Len(P[z]) : Q[z][j] = P[z][j]
      /\ \A j \in 1..b : Q[z][Len(P[z]) + j] = P[x][d[j]]
  BY DEF Splits
<1>5. CASE w = x
  <2>1. i + n \in 1..Len(P[x])
    BY <1>1, <1>2, <1>5
  <2> QED
    BY <1>1, <1>2, <1>5, <2>1 DEF Filled
<1>6. CASE w = y
  <2>1. CASE i <= Len(P[y])
    <3>1. i \in 1..Len(P[y])
      BY <1>1, <1>6, <2>1
    <3> QED
      BY <1>1, <1>3, <1>6, <2>1, <3>1 DEF Filled
  <2>2. CASE i > Len(P[y])
    <3>1. i - Len(P[y]) \in 1..a /\ Len(P[y]) + (i - Len(P[y])) = i
      BY <1>1, <1>3, <1>6, <2>2
    <3>2. e[i - Len(P[y])] \in 1..Len(P[x])
      BY <1>1, <3>1
    <3>3. Q[y][Len(P[y]) + (i - Len(P[y]))] = P[x][e[i - Len(P[y])]]
      BY <1>3, <3>1
    <3> QED
      BY <1>1, <1>6, <2>2, <3>1, <3>2, <3>3 DEF Filled
  <2> QED
    BY <1>1, <1>6, <2>1, <2>2
<1>7. CASE w = z
  <2>1. CASE i <= Len(P[z])
    <3>1. i \in 1..Len(P[z])
      BY <1>1, <1>7, <2>1
    <3> QED
      BY <1>1, <1>4, <1>7, <2>1, <3>1 DEF Filled
  <2>2. CASE i > Len(P[z])
    <3>1. i - Len(P[z]) \in 1..b /\ Len(P[z]) + (i - Len(P[z])) = i
      BY <1>1, <1>4, <1>7, <2>2
    <3>2. d[i - Len(P[z])] \in 1..Len(P[x])
      BY <1>1, <3>1
    <3>3. Q[z][Len(P[z]) + (i - Len(P[z]))] = P[x][d[i - Len(P[z])]]
      BY <1>4, <3>1
    <3> QED
      BY <1>1, <1>7, <2>2, <3>1, <3>2, <3>3 DEF Filled
  <2> QED
    BY <1>1, <1>7, <2>1, <2>2
<1>8. CASE w \notin {x, y, z}
  <2>1. Q[w] = P[w]
    BY <1>8 DEF Splits
  <2> QED
    BY <1>8, <2>1 DEF Filled
<1> QED
  BY <1>5, <1>6, <1>7, <1>8

(* A split neither loses nor doubles a slot.                               *)
LEMMA SplitsConserve ==
  ASSUME NEW P, NEW Q, NEW x, NEW y, NEW z, NEW n, NEW a, NEW e, NEW b, NEW d,
         Splits(P, Q, x, y, z, n, a, e, b, d), Conserved(P)
  PROVE  Conserved(Q)
<1>1. /\ x \in DOMAIN P /\ y \in DOMAIN P /\ z \in DOMAIN P /\ x # y /\ x # z /\ y # z
      /\ n \in 0..Len(P[x]) /\ n \in Nat /\ a \in Nat /\ b \in Nat
      /\ DOMAIN Q = DOMAIN P
      /\ \A v \in DOMAIN P : Len(P[v]) \in Nat /\ Len(Q[v]) \in Nat
  BY SplitsTypes
<1>2. ASSUME NEW w \in DOMAIN P, NEW i \in 1..Len(Q[w]), NEW v \in DOMAIN P, NEW j \in 1..Len(Q[v]),
             NEW u, NEW g \in Int,
             Filled(P, x, y, z, n, a, e, b, d, w, i, u, g),
             Filled(P, x, y, z, n, a, e, b, d, v, j, u, g)
      PROVE  w = v /\ i = j
  <2> DEFINE py == Len(P[y]) pz == Len(P[z])
  <2>1. py \in Nat /\ pz \in Nat /\ i \in Int /\ j \in Int /\ i >= 1 /\ j >= 1
    BY <1>1
  <2>2. \/ w = x /\ u = x /\ g = i + n
        \/ w = y /\ i <= py /\ u = y /\ g = i
        \/ w = y /\ i > py /\ u = x /\ i - py \in 1..a /\ g = e[i - py]
        \/ w = z /\ i <= pz /\ u = z /\ g = i
        \/ w = z /\ i > pz /\ u = x /\ i - pz \in 1..b /\ g = d[i - pz]
        \/ w \notin {x, y, z} /\ u = w /\ g = i
    BY <1>2 DEF Filled
  <2>3. \/ v = x /\ u = x /\ g = j + n
        \/ v = y /\ j <= py /\ u = y /\ g = j
        \/ v = y /\ j > py /\ u = x /\ j - py \in 1..a /\ g = e[j - py]
        \/ v = z /\ j <= pz /\ u = z /\ g = j
        \/ v = z /\ j > pz /\ u = x /\ j - pz \in 1..b /\ g = d[j - pz]
        \/ v \notin {x, y, z} /\ u = v /\ g = j
    BY <1>2 DEF Filled
  <2> HIDE DEF py, pz
  <2>4. /\ \A p \in 1..a : e[p] \in 1..n
        /\ \A p \in 1..b : d[p] \in 1..n
        /\ \A p, q \in 1..a : e[p] = e[q] => p = q
        /\ \A p, q \in 1..b : d[p] = d[q] => p = q
        /\ \A p \in 1..a, q \in 1..b : e[p] # d[q]
    BY DEF Splits
  <2>5. CASE u # x
    <3>1. \/ w = y /\ u = y /\ g = i
          \/ w = z /\ u = z /\ g = i
          \/ w \notin {x, y, z} /\ u = w /\ g = i
      BY <2>2, <2>5
    <3>2. \/ v = y /\ u = y /\ g = j
          \/ v = z /\ u = z /\ g = j
          \/ v \notin {x, y, z} /\ u = v /\ g = j
      BY <2>3, <2>5
    <3> QED
      BY <1>1, <3>1, <3>2
  <2>6. CASE u = x /\ g > n
    <3>1. g \notin 1..n
      BY <1>1, <2>6
    <3>2. (\A p \in 1..a : g # e[p]) /\ (\A p \in 1..b : g # d[p])
      BY <2>4, <3>1
    <3>3. w = x /\ g = i + n
      BY <1>1, <2>2, <2>6, <3>2
    <3>4. v = x /\ g = j + n
      BY <1>1, <2>3, <2>6, <3>2
    <3> QED
      BY <1>1, <2>1, <3>3, <3>4
  <2>7. CASE u = x /\ ~(g > n)
    <3>1. \/ w = y /\ i - py \in 1..a /\ g = e[i - py]
          \/ w = z /\ i - pz \in 1..b /\ g = d[i - pz]
      <4>1. ~(w = x /\ g = i + n)
        BY <1>1, <2>1, <2>7
      <4> QED
        BY <1>1, <2>2, <2>7, <4>1
    <3>2. \/ v = y /\ j - py \in 1..a /\ g = e[j - py]
          \/ v = z /\ j - pz \in 1..b /\ g = d[j - pz]
      <4>1. ~(v = x /\ g = j + n)
        BY <1>1, <2>1, <2>7, SMTT(40)
      <4> QED
        BY <1>1, <2>3, <2>7, <4>1
    <3>3. CASE w = y /\ v = y /\ i - py \in 1..a /\ j - py \in 1..a /\ e[i - py] = e[j - py]
      <4>1. i - py = j - py
        BY <2>4, <3>3
      <4> QED
        BY <2>1, <3>3, <4>1
    <3>4. CASE w = z /\ v = z /\ i - pz \in 1..b /\ j - pz \in 1..b /\ d[i - pz] = d[j - pz]
      <4>1. i - pz = j - pz
        BY <2>4, <3>4
      <4> QED
        BY <2>1, <3>4, <4>1
    <3>5. ~(w = y /\ v = z) /\ ~(w = z /\ v = y)
      BY <1>1, <2>4, <3>1, <3>2
    <3> QED
      BY <1>1, <3>1, <3>2, <3>3, <3>4, <3>5
  <2> QED
    BY <2>5, <2>6, <2>7
<1>3. \A w \in DOMAIN Q : \A i \in 1..Len(Q[w]) : Q[w][i] \in 0..(Capacity - 1)
  <2> SUFFICES ASSUME NEW w \in DOMAIN P, NEW i \in 1..Len(Q[w])
               PROVE  Q[w][i] \in 0..(Capacity - 1)
    BY <1>1
  <2>1. PICK u \in DOMAIN P : \E g \in 1..Len(P[u]) : Q[w][i] = P[u][g]
    BY SplitsFilled
  <2> QED
    BY <2>1 DEF Conserved
<1>4. Distinct(Q)
  <2> SUFFICES ASSUME NEW w \in DOMAIN P, NEW v \in DOMAIN P, NEW i \in 1..Len(Q[w]), NEW j \in 1..Len(Q[v]),
                      Q[w][i] = Q[v][j]
               PROVE  w = v /\ i = j
    BY <1>1 DEF Distinct
  <2>1. PICK u, g : /\ u \in DOMAIN P /\ g \in 1..Len(P[u]) /\ Q[w][i] = P[u][g]
                    /\ Filled(P, x, y, z, n, a, e, b, d, w, i, u, g)
    BY SplitsFilled
  <2>2. PICK t, h : /\ t \in DOMAIN P /\ h \in 1..Len(P[t]) /\ Q[v][j] = P[t][h]
                    /\ Filled(P, x, y, z, n, a, e, b, d, v, j, t, h)
    BY SplitsFilled
  <2>3. P[u][g] = P[t][h]
    BY <2>1, <2>2
  <2>4. u = t /\ g = h
    BY <2>1, <2>2, <2>3 DEF Conserved, Distinct
  <2>5. g \in Int
    BY <1>1, <2>1
  <2> QED
    BY <1>2, <2>1, <2>2, <2>4, <2>5
<1>5. ASSUME NEW u \in DOMAIN P, NEW g \in 1..Len(P[u])
      PROVE  \E w \in DOMAIN P : \E i \in 1..Len(Q[w]) : Q[w][i] = P[u][g]
  <2>1. CASE u = x /\ g <= n
    <3>1. g \in 1..n
      BY <1>1, <2>1
    <3>2. (\E i \in 1..a : e[i] = g) \/ (\E i \in 1..b : d[i] = g)
      BY <3>1 DEF Splits
    <3>3. ASSUME NEW i \in 1..a, e[i] = g
          PROVE  \E w \in DOMAIN P : \E j \in 1..Len(Q[w]) : Q[w][j] = P[u][g]
      <4>1. Len(Q[y]) = Len(P[y]) + a /\ Q[y][Len(P[y]) + i] = P[x][e[i]]
        BY DEF Splits
      <4>2. Len(P[y]) + i \in 1..Len(Q[y])
        BY <1>1, <4>1
      <4> QED
        BY <1>1, <2>1, <3>3, <4>1, <4>2
    <3>4. ASSUME NEW i \in 1..b, d[i] = g
          PROVE  \E w \in DOMAIN P : \E j \in 1..Len(Q[w]) : Q[w][j] = P[u][g]
      <4>1. Len(Q[z]) = Len(P[z]) + b /\ Q[z][Len(P[z]) + i] = P[x][d[i]]
        BY DEF Splits
      <4>2. Len(P[z]) + i \in 1..Len(Q[z])
        BY <1>1, <4>1, SMTT(40)
      <4> QED
        BY <1>1, <2>1, <3>4, <4>1, <4>2
    <3> QED
      BY <3>2, <3>3, <3>4
  <2>2. CASE u = x /\ ~(g <= n)
    <3>1. Len(Q[x]) = Len(P[x]) - n /\ \A j \in 1..Len(Q[x]) : Q[x][j] = P[x][j + n]
      BY DEF Splits
    <3>2. g - n \in 1..Len(Q[x]) /\ (g - n) + n = g
      BY <1>1, <2>2, <3>1
    <3>3. Q[x][g - n] = P[x][(g - n) + n]
      BY <3>1, <3>2
    <3> QED
      BY <1>1, <2>2, <3>2, <3>3
  <2>3. CASE u = y
    <3>1. Len(Q[y]) = Len(P[y]) + a /\ \A j \in 1..Len(P[y]) : Q[y][j] = P[y][j]
      BY DEF Splits
    <3>2. g \in 1..Len(Q[y]) /\ g \in 1..Len(P[y])
      BY <1>1, <2>3, <3>1
    <3> QED
      BY <1>1, <2>3, <3>1, <3>2
  <2>4. CASE u = z
    <3>1. Len(Q[z]) = Len(P[z]) + b /\ \A j \in 1..Len(P[z]) : Q[z][j] = P[z][j]
      BY DEF Splits
    <3>2. g \in 1..Len(Q[z]) /\ g \in 1..Len(P[z])
      BY <1>1, <2>4, <3>1
    <3> QED
      BY <1>1, <2>4, <3>1, <3>2
  <2>5. CASE u \notin {x, y, z}
    <3>1. Q[u] = P[u]
      BY <2>5 DEF Splits
    <3> QED
      BY <3>1
  <2> QED
    BY <2>1, <2>2, <2>3, <2>4, <2>5
<1>6. \A p \in 0..(Capacity - 1) : \E w \in DOMAIN Q : \E j \in 1..Len(Q[w]) : Q[w][j] = p
  <2> SUFFICES ASSUME NEW p \in 0..(Capacity - 1)
               PROVE  \E w \in DOMAIN Q : \E j \in 1..Len(Q[w]) : Q[w][j] = p
    OBVIOUS
  <2>1. PICK u \in DOMAIN P : \E i \in 1..Len(P[u]) : P[u][i] = p
    BY DEF Conserved
  <2>2. PICK g \in 1..Len(P[u]) : P[u][g] = p
    BY <2>1
  <2>3. \E w \in DOMAIN P : \E j \in 1..Len(Q[w]) : Q[w][j] = P[u][g]
    BY <1>5
  <2> QED
    BY <1>1, <2>2, <2>3
<1> QED
  BY <1>3, <1>4, <1>6 DEF Conserved

(* No more slots than there are fit in a pile and another one.             *)
LEMMA Room ==
  ASSUME NEW P, NEW x \in DOMAIN P, NEW y \in DOMAIN P, x # y, Conserved(P),
         Len(P[x]) \in Nat, Len(P[y]) \in Nat
  PROVE  Len(P[y]) + Len(P[x]) <= Capacity
<1> DEFINE l == Len(P[y])
           m == Len(P[y]) + Len(P[x])
           f == [i \in 1..m |-> IF i <= l THEN P[y][i] ELSE P[x][i - l]]
<1>1. l \in Nat /\ m \in Nat /\ Capacity \in Nat
  BY DatapathAssumption DEF Capacity
<1>2. \A i \in 1..m : \/ i <= l /\ i \in 1..l
                      \/ ~(i <= l) /\ i - l \in 1..Len(P[x])
  BY <1>1
<1>3. \A i \in 1..m : f[i] \in 0..(Capacity - 1)
  BY <1>2 DEF Conserved
<1>4. ASSUME NEW i \in 1..m, NEW j \in 1..m, f[i] = f[j] PROVE i = j
  <2>1. CASE i <= l /\ j <= l
    BY <1>2, <1>4, <2>1 DEF Conserved, Distinct
  <2>2. CASE i <= l /\ ~(j <= l)
    BY <1>2, <1>4, <2>2 DEF Conserved, Distinct
  <2>3. CASE ~(i <= l) /\ j <= l
    BY <1>2, <1>4, <2>3 DEF Conserved, Distinct
  <2>4. CASE ~(i <= l) /\ ~(j <= l)
    <3>1. i - l = j - l
      BY <1>2, <1>4, <2>4 DEF Conserved, Distinct
    <3> QED
      BY <1>1, <3>1
  <2> QED
    BY <2>1, <2>2, <2>3, <2>4
<1>5. f \in Injection(1..m, 0..(Capacity - 1))
  <2>1. f \in [1..m -> 0..(Capacity - 1)]
    BY <1>3
  <2> HIDE DEF f
  <2> QED
    BY <1>4, <2>1 DEF Injection, IsInjective
<1>6. /\ IsFiniteSet(0..(Capacity - 1)) /\ Cardinality(0..(Capacity - 1)) = Capacity
      /\ Cardinality(1..m) = m
  <2>1. 0 \in Int /\ Capacity - 1 \in Int /\ 1 \in Int /\ m \in Int
    BY <1>1
  <2>2. IsFiniteSet(0..(Capacity - 1)) /\ Cardinality(0..(Capacity - 1)) = IF 0 > Capacity - 1 THEN 0 ELSE Capacity - 1 - 0 + 1
    BY <2>1, FS_Interval
  <2>3. Cardinality(1..m) = IF 1 > m THEN 0 ELSE m - 1 + 1
    BY <2>1, FS_Interval
  <2> HIDE DEF m
  <2> QED
    BY <1>1, <2>2, <2>3
<1>7. Cardinality(1..m) <= Cardinality(0..(Capacity - 1))
  BY <1>5, <1>6, FS_Injection
<1> QED
  BY <1>6, <1>7

(* A place is a pile and a position in it.                                 *)
LEMMA PlacesIs ==
  /\ \A x \in Piles : \A i \in 1..Len(Pile[x]) : <<x, i>> \in Places /\ At(<<x, i>>) = Pile[x][i]
  /\ \A q \in Places : \E x \in Piles : \E i \in 1..Len(Pile[x]) : q = <<x, i>>
BY DEF Places, At

(* SlotsConserved, which counts places, is Conserved of the piles.         *)
LEMMA SlotsConservedIs == SlotsConserved <=> Conserved(Pile)
<1> DEFINE f == [q \in Places |-> At(q)]
           T == 0..(Capacity - 1)
<1>1. DOMAIN Pile = Piles
  BY DEF Pile
<1>2. ASSUME SlotsConserved PROVE Conserved(Pile)
  <2>1. f \in [Places -> T] /\ (\A q, r \in Places : f[q] = f[r] => q = r) /\ \A p \in T : \E q \in Places : f[q] = p
    BY <1>2 DEF SlotsConserved, Bijection, Injection, Surjection, IsInjective
  <2>2. \A x \in Piles : \A i \in 1..Len(Pile[x]) : <<x, i>> \in Places /\ f[<<x, i>>] = Pile[x][i]
    BY PlacesIs
  <2> HIDE DEF f
  <2>3. \A x \in Piles : \A i \in 1..Len(Pile[x]) : Pile[x][i] \in T
    <3> SUFFICES ASSUME NEW x \in Piles, NEW i \in 1..Len(Pile[x]) PROVE Pile[x][i] \in T
      OBVIOUS
    <3>1. PICK q \in Places : f[q] = Pile[x][i]
      BY <2>2
    <3> QED
      BY <2>1, <3>1
  <2>4. Distinct(Pile)
    <3> SUFFICES ASSUME NEW x \in Piles, NEW y \in Piles, NEW i \in 1..Len(Pile[x]), NEW j \in 1..Len(Pile[y]),
                        Pile[x][i] = Pile[y][j]
                 PROVE  x = y /\ i = j
      BY <1>1 DEF Distinct
    <3>1. PICK q \in Places : q = <<x, i>> /\ f[q] = Pile[x][i]
      BY <2>2
    <3>2. PICK r \in Places : r = <<y, j>> /\ f[r] = Pile[y][j]
      BY <2>2
    <3>3. q = r
      BY <2>1, <3>1, <3>2
    <3> QED
      BY <3>1, <3>2, <3>3
  <2>5. \A p \in T : \E x \in Piles : \E i \in 1..Len(Pile[x]) : Pile[x][i] = p
    BY <2>1, <2>2, PlacesIs
  <2> QED
    BY <1>1, <2>3, <2>4, <2>5 DEF Conserved
<1>3. ASSUME Conserved(Pile) PROVE SlotsConserved
  <2>1. \A q \in Places : f[q] \in T
    BY <1>1, <1>3, PlacesIs DEF Conserved
  <2>2. ASSUME NEW q \in Places, NEW r \in Places, f[q] = f[r] PROVE q = r
    <3>1. PICK x \in Piles : \E i \in 1..Len(Pile[x]) : q = <<x, i>>
      BY PlacesIs
    <3>2. PICK i \in 1..Len(Pile[x]) : q = <<x, i>>
      BY <3>1
    <3>3. PICK y \in Piles : \E j \in 1..Len(Pile[y]) : r = <<y, j>>
      BY PlacesIs
    <3>4. PICK j \in 1..Len(Pile[y]) : r = <<y, j>>
      BY <3>3
    <3>5. Pile[x][i] = Pile[y][j]
      BY <2>2, <3>2, <3>4, PlacesIs
    <3>6. x = y /\ i = j
      BY <1>1, <1>3, <3>5 DEF Conserved, Distinct
    <3> QED
      BY <3>2, <3>4, <3>6
  <2>3. \A p \in T : \E q \in Places : f[q] = p
    <3> SUFFICES ASSUME NEW p \in T PROVE \E q \in Places : f[q] = p
      OBVIOUS
    <3>1. PICK x \in Piles : \E i \in 1..Len(Pile[x]) : Pile[x][i] = p
      BY <1>1, <1>3 DEF Conserved
    <3>2. PICK i \in 1..Len(Pile[x]) : Pile[x][i] = p
      BY <3>1
    <3>3. <<x, i>> \in Places /\ f[<<x, i>>] = p
      BY <3>2, PlacesIs
    <3> QED
      BY <3>3
  <2>4. f \in [Places -> T]
    BY <2>1
  <2> HIDE DEF f
  <2>5. f \in Bijection(Places, T)
    BY <2>2, <2>3, <2>4 DEF Bijection, Injection, Surjection, IsInjective
  <2> QED
    BY <2>5 DEF SlotsConserved, f
<1> QED
  BY <1>2, <1>3

----------------------------------------------------------------------------
(* The steps as moves of piles.                                            *)

(* queue_length counts the slots outside the ring.                         *)
Count == queue_length = Capacity - Len(ring)

(* What such a step does to the piles: all n go on to the next element,   *)
Forwards(k, x, n) ==
  LET to == <<"given", k + 1>>
  IN /\ pipe[k].work \notin {"fastpass", "drop"}
     /\ to \in HeldPiles /\ Pile[to] = <<>> /\ Moves(Pile, Pile', x, to, n)
     /\ UNCHANGED <<ring, queue_length, dropped>>

(* ... or they go back to the ring,                                        *)
Drops(k, x, n) ==
  /\ pipe[k].work = "drop" /\ <<"given", k + 1>> \notin Piles
  /\ Moves(Pile, Pile', x, Ring, n)
  /\ queue_length' = queue_length - n
  /\ dropped' = dropped \o [i \in 1..n |-> slot[Pile[x][i]]]

(* ... or the fast ones do and the slow ones go on.                        *)
Sorts(k, x, n, a, e, b, d) ==
  LET to == <<"given", k + 1>>
  IN /\ pipe[k].work = "fastpass" /\ to \in HeldPiles /\ Pile[to] = <<>>
     /\ Splits(Pile, Pile', x, Ring, to, n, a, e, b, d)
     /\ queue_length' = queue_length - a
     /\ dropped' = dropped \o [i \in 1..a |-> slot[Pile[x][e[i]]]]
     /\ \A i \in 1..a : slot[Pile[x][e[i]]].fast
     /\ \A i \in 1..b : ~slot[Pile[x][d[i]]].fast
     /\ \A i, j \in 1..a : i < j => e[i] < e[j]
     /\ \A i, j \in 1..b : i < j => d[i] < d[j]

(* Every step that works does one of the three; a drop and a fastpass find *)
(* room in the ring for what they give back, as no slot is in two places.  *)
LEMMA WorkMoves ==
  ASSUME Core, Conserved(Pile), NEW k, NEW x, NEW n, NEW acts, Working(k, x, n, acts)
  PROVE  Forwards(k, x, n) \/ Drops(k, x, n) \/ \E a, e, b, d : Sorts(k, x, n, a, e, b, d)
<1> DEFINE left == IF x = <<"given", k>> THEN Rest(k, n) ELSE given
           pkts == SubSeq(Pile[x], 1, n)
           to == <<"given", k + 1>>
<1>1. /\ TypeOK /\ TypeOK' /\ k \in Depths /\ x \in {<<"buf", k>>, <<"given", k>>} /\ n \in 0..Len(Pile[x])
      /\ pipe' = pipe /\ slot' = slot /\ Depths' = Depths /\ Piles' = Piles
  BY WorkCore DEF Core, Working, Depths, Piles
<1>2. /\ Pile \in [Piles -> Seq(Slots)] /\ Ring \in Piles /\ Pile[Ring] = ring
      /\ \A j \in Depths : /\ <<"buf", j>> \in Piles /\ Pile[<<"buf", j>>] = buf[j]
                           /\ <<"given", j>> \in Piles /\ Pile[<<"given", j>>] = given[j]
  BY <1>1, PileIs
<1>3. /\ Pile' \in [Piles -> Seq(Slots)] /\ Pile'[Ring] = ring'
      /\ \A j \in Depths : Pile'[<<"buf", j>>] = buf'[j] /\ Pile'[<<"given", j>>] = given'[j]
  BY <1>1, PileBecomes
<1>4. /\ x \in Piles /\ x \in HeldPiles /\ x # Ring /\ x # to
      /\ \A w \in Piles : w = Ring \/ \E j \in Depths : w \in {<<"buf", j>>, <<"given", j>>}
  BY <1>1 DEF Piles, HeldPiles, Ring, Depths
<1>5. Pile[x] \in Seq(Slots) /\ pkts \in Seq(Slots) /\ Len(pkts) = n /\ n \in Nat
      /\ \A i \in 1..n : pkts[i] = Pile[x][i]
  BY <1>1, <1>2, <1>4, First
(* the caller keeps the rest of its pile                                    *)
<1>6. /\ left \in [Depths -> Seq(Slots)] /\ \A j \in Depths : j # k => left[j] = given[j]
      /\ IF x = <<"given", k>>
         THEN left[k] = SubSeq(given[k], n + 1, Len(given[k])) ELSE left[k] = given[k]
  BY LeftType
<1>7. /\ \A j \in Depths : <<"buf", j>> # x => buf'[j] = buf[j]
      /\ x = <<"buf", k>> => buf'[k] = SubSeq(buf[k], n + 1, Len(buf[k]))
  BY <1>1 DEF Working, TypeOK
<1>8. Work(k, pkts, left, acts)
  BY DEF Working
<1>9. pipe[k].work # "drop" => /\ k + 1 \in Depths /\ to \in HeldPiles /\ to \in Piles
                               /\ Pile[to] = <<>> /\ given[k + 1] = <<>>
  <2>1. k \in Nat
    BY <1>1 DEF Depths
  <2>2. k + 1 \notin active
    BY <2>1 DEF Working, Core, TypeOK, Depths
  <2>3. pipe[k].work # "drop" => k + 1 \in Depths
    BY <1>1, Pipe
  <2>4. pipe[k].work # "drop" => given[k + 1] = <<>>
    BY <2>2, <2>3 DEF Core, Calls
  <2> QED
    BY <1>2, <2>3, <2>4 DEF HeldPiles
<1> HIDE DEF left, pkts
<1>10. ASSUME given' = [left EXCEPT ![k + 1] = given'[k + 1]] \/ given' = left
       PROVE  /\ Pile'[x] = SubSeq(Pile[x], n + 1, Len(Pile[x]))
              /\ \A w \in Piles \ {x, Ring, to} : Pile'[w] = Pile[w]
  <2>1. \A j \in Depths : j # k + 1 => given'[j] = left[j]
    BY <1>6, <1>10
  <2>2. k # k + 1
    BY <1>1 DEF Depths
  <2>3. Pile'[x] = SubSeq(Pile[x], n + 1, Len(Pile[x]))
    BY <1>1, <1>2, <1>3, <1>6, <1>7, <2>1, <2>2
  <2>4. ASSUME NEW w \in Piles \ {x, Ring, to} PROVE Pile'[w] = Pile[w]
    <3>1. PICK j \in Depths : w \in {<<"buf", j>>, <<"given", j>>}
      BY <1>4
    <3>2. CASE w = <<"buf", j>>
      BY <1>2, <1>3, <1>7, <3>2
    <3>3. CASE w = <<"given", j>>
      <4>1. j # k + 1
        BY <3>3
      <4>2. CASE j = k
        <5>1. x # <<"given", k>>
          BY <3>3, <4>2
        <5> QED
          BY <1>1, <1>2, <1>3, <1>6, <2>1, <3>3, <4>1, <4>2, <5>1
      <4>3. CASE j # k
        BY <1>2, <1>3, <1>6, <2>1, <3>3, <4>1, <4>3
      <4> QED
        BY <4>2, <4>3
    <3> QED
      BY <3>1, <3>2, <3>3
  <2> QED
    BY <2>3, <2>4
<1>11. ring \in Seq(Slots) /\ slot \in [Slots -> Packet] /\ DOMAIN Pile = Piles
  BY <1>1, <1>2 DEF TypeOK
<1>12. DOMAIN Pile' = Piles
  BY <1>3
<1>13. \A w \in Piles : Pile[w] \in Seq(Slots) /\ Pile'[w] \in Seq(Slots)
  BY <1>2, <1>3
<1>14. CASE pipe[k].work \in {"forward", "naive"}
  <2>1. given' = [left EXCEPT ![k + 1] = pkts] /\ UNCHANGED <<ring, queue_length, dropped>>
    <3>1. CASE pipe[k].work = "forward"
      BY <1>8, <3>1 DEF Work, Process
    <3>2. CASE pipe[k].work = "naive"
      <4>1. n = 1
        BY <1>1, <3>2 DEF Working, Depths
      <4>2. pkts = <<pkts[1]>>
        BY <1>5, <4>1
      <4> QED
        BY <1>8, <3>2, <4>2 DEF Work, Process
    <3> QED
      BY <1>14, <3>1, <3>2
  <2>2. given'[k + 1] = pkts
    BY <1>6, <1>9, <1>14, <2>1
  <2>3. /\ Pile'[x] = SubSeq(Pile[x], n + 1, Len(Pile[x]))
        /\ \A w \in Piles \ {x, Ring, to} : Pile'[w] = Pile[w]
    BY <1>10, <2>1, <2>2
  <2>4. Pile'[Ring] = Pile[Ring]
    BY <1>2, <1>3, <2>1
  <2>5. Pile'[to] = Pile[to] \o pkts
    <3>1. Pile'[to] = pkts /\ Pile[to] = <<>>
      BY <1>3, <1>9, <1>14, <2>2
    <3> QED
      BY <1>5, <3>1
  <2>6. Moves(Pile, Pile', x, to, n)
    BY <1>1, <1>4, <1>9, <1>11, <1>12, <1>13, <1>14, <2>3, <2>4, <2>5 DEF Moves, pkts
  <2> HIDE DEF to
  <2>7. Forwards(k, x, n)
    BY <1>9, <1>14, <2>1, <2>6 DEF Forwards, to
  <2> QED
    BY <2>7
(* a drop gives them back, and the ring has room                            *)
<1>15. ASSUME NEW rel \in Seq(Slots), Len(rel) \in 0..n, ReleasePkts(rel)
       PROVE  ring' = ring \o rel
  <2>1. Len(ring) + Len(Pile[x]) <= Capacity
    <3>1. Ring \in DOMAIN Pile /\ x \in DOMAIN Pile /\ x # Ring
      BY <1>2, <1>4, <1>11
    <3>2. Len(Pile[x]) \in Nat /\ Len(Pile[Ring]) \in Nat
      BY <1>2, <1>5, <1>11
    <3>3. Len(Pile[Ring]) + Len(Pile[x]) <= Capacity
      BY <3>1, <3>2, Room
    <3> QED
      BY <1>2, <3>3
  <2>2. Len(ring) \in Nat /\ Len(Pile[x]) \in Nat /\ n <= Len(Pile[x]) /\ Len(rel) \in Nat /\ Len(rel) <= n
    BY <1>1, <1>5, <1>11, <1>15
  <2>3. Capacity \in Nat
    BY DatapathAssumption DEF Capacity
  <2>4. Len(ring) + Len(rel) <= Capacity
    BY <1>5, <2>1, <2>2, <2>3
  <2> QED
    BY <1>11, <1>15, <2>4, EnqueueType DEF ReleasePkts
<1>16. CASE pipe[k].work = "drop"
  <2>1. ReleasePkts(pkts) /\ given' = left
    BY <1>8, <1>16 DEF Work
  <2>2. ring' = ring \o pkts
    BY <1>5, <1>15, <2>1
  <2>3. /\ Pile'[x] = SubSeq(Pile[x], n + 1, Len(Pile[x]))
        /\ \A w \in Piles \ {x, Ring, to} : Pile'[w] = Pile[w]
    BY <1>10, <2>1
  <2>4. to \notin Piles
    <3>1. k = Len(pipe) /\ Len(pipe) \in Nat
      BY <1>1, <1>16, DatapathAssumption DEF TypeOK, WellBuilt, Depths
    <3>2. k + 1 \notin Depths
      BY <3>1 DEF Depths
    <3> QED
      BY <3>2 DEF Piles
  <2>5. Pile'[Ring] = Pile[Ring] \o SubSeq(Pile[x], 1, n)
    BY <1>2, <1>3, <2>2 DEF pkts
  <2>6. Moves(Pile, Pile', x, Ring, n)
    BY <1>1, <1>2, <1>4, <1>11, <1>12, <1>13, <2>3, <2>4, <2>5 DEF Moves
  <2>7. queue_length' = queue_length - n /\ dropped' = dropped \o [i \in 1..n |-> slot[pkts[i]]]
    BY <1>5, <2>1 DEF ReleasePkts
  <2>8. [i \in 1..n |-> slot[pkts[i]]] = [i \in 1..n |-> slot[Pile[x][i]]]
    BY <1>5
  <2> QED
    BY <1>16, <2>4, <2>6, <2>7, <2>8 DEF Drops
(* a fastpass gives back the fast ones                                      *)
<1>17. CASE pipe[k].work = "fastpass"
  <2>1. PICK fst \in Class(pkts, TRUE), slw \in Class(pkts, FALSE) :
          ReleasePkts(fst) /\ given' = [left EXCEPT ![k + 1] = slw]
    BY <1>8, <1>17 DEF Work, Process
  <2>2. /\ fst \in Seq(Slots) /\ Len(fst) \in 0..n
        /\ \E e \in [1..Len(fst) -> 1..n] :
             /\ \A i \in 1..Len(fst) : fst[i] = pkts[e[i]] /\ slot[fst[i]].fast = TRUE
             /\ \A i, j \in 1..Len(fst) : i < j => e[i] < e[j]
             /\ \A p \in 1..n : slot[pkts[p]].fast = TRUE => \E i \in 1..Len(fst) : e[i] = p
    <3>1. pkts \in Seq(Slots) /\ TRUE \in BOOLEAN
      BY <1>5
    <3>2. Part(pkts, TRUE, fst)
      BY <3>1, ClassIs
    <3>3. Len(pkts) = n
      BY <1>5
    <3> QED
      BY <3>2, <3>3 DEF Part
  <2>3. /\ slw \in Seq(Slots) /\ Len(slw) \in 0..n
        /\ \E d \in [1..Len(slw) -> 1..n] :
             /\ \A i \in 1..Len(slw) : slw[i] = pkts[d[i]] /\ slot[slw[i]].fast = FALSE
             /\ \A i, j \in 1..Len(slw) : i < j => d[i] < d[j]
             /\ \A p \in 1..n : slot[pkts[p]].fast = FALSE => \E i \in 1..Len(slw) : d[i] = p
    <3>1. pkts \in Seq(Slots) /\ FALSE \in BOOLEAN
      BY <1>5
    <3>2. Part(pkts, FALSE, slw)
      BY <3>1, ClassIs
    <3>3. Len(pkts) = n
      BY <1>5
    <3> QED
      BY <3>2, <3>3 DEF Part
  <2> DEFINE a == Len(fst) b == Len(slw)
  <2>4. PICK e \in [1..a -> 1..n] :
             /\ \A i \in 1..a : fst[i] = pkts[e[i]] /\ slot[fst[i]].fast = TRUE
             /\ \A i, j \in 1..a : i < j => e[i] < e[j]
             /\ \A p \in 1..n : slot[pkts[p]].fast = TRUE => \E i \in 1..a : e[i] = p
    BY <2>2
  <2>5. PICK d \in [1..b -> 1..n] :
             /\ \A i \in 1..b : slw[i] = pkts[d[i]] /\ slot[slw[i]].fast = FALSE
             /\ \A i, j \in 1..b : i < j => d[i] < d[j]
             /\ \A p \in 1..n : slot[pkts[p]].fast = FALSE => \E i \in 1..b : d[i] = p
    BY <2>3
  <2>6. ring' = ring \o fst
    BY <1>15, <2>1, <2>2
  <2>7. given'[k + 1] = slw
    BY <1>6, <1>9, <1>17, <2>1
  <2>8. /\ Pile'[x] = SubSeq(Pile[x], n + 1, Len(Pile[x]))
        /\ \A w \in Piles \ {x, Ring, to} : Pile'[w] = Pile[w]
    BY <1>10, <2>1, <2>7
  <2>9. a \in Nat /\ b \in Nat
    BY <2>2, <2>3
  <2>10. /\ \A i \in 1..a : e[i] \in 1..n /\ fst[i] = Pile[x][e[i]]
         /\ \A i \in 1..b : d[i] \in 1..n /\ slw[i] = Pile[x][d[i]]
    BY <1>5, <2>4, <2>5
  <2>11. /\ Len(Pile'[x]) = Len(Pile[x]) - n
         /\ \A i \in 1..Len(Pile'[x]) : Pile'[x][i] = Pile[x][i + n]
    <3> DEFINE r == SubSeq(Pile[x], n + 1, Len(Pile[x]))
    <3>1. Len(r) = Len(Pile[x]) - n /\ \A i \in 1..(Len(Pile[x]) - n) : r[i] = Pile[x][i + n]
      BY <1>1, <1>5, Remaining
    <3>2. Pile'[x] = r
      BY <2>8
    <3> HIDE DEF r
    <3> QED
      BY <3>1, <3>2
  <2>12. /\ Len(Pile'[Ring]) = Len(Pile[Ring]) + a
         /\ \A i \in 1..Len(Pile[Ring]) : Pile'[Ring][i] = Pile[Ring][i]
         /\ \A i \in 1..a : Pile'[Ring][Len(Pile[Ring]) + i] = Pile[x][e[i]]
    <3>1. /\ Len(ring') = Len(ring) + Len(fst)
          /\ \A i \in 1..Len(ring) : ring'[i] = ring[i]
          /\ \A i \in 1..Len(fst) : ring'[Len(ring) + i] = fst[i]
      BY ONLY <1>11, <2>2, <2>6, Concat
    <3> QED
      BY <1>2, <1>3, <2>10, <3>1
  <2>13. /\ Len(Pile'[to]) = Len(Pile[to]) + b
         /\ \A i \in 1..Len(Pile[to]) : Pile'[to][i] = Pile[to][i]
         /\ \A i \in 1..b : Pile'[to][Len(Pile[to]) + i] = Pile[x][d[i]]
    <3>1. Pile'[to] = slw /\ Len(Pile[to]) = 0
      BY <1>3, <1>9, <1>17, <2>7
    <3>2. \A i \in 1..b : 0 + i = i
      BY <2>9
    <3> QED
      BY <2>9, <2>10, <3>1, <3>2
  <2>14. /\ \A i, j \in 1..a : e[i] = e[j] => i = j
         /\ \A i, j \in 1..b : d[i] = d[j] => i = j
    <3>1. \A i, j \in 1..a : i < j \/ j < i \/ i = j
      BY <2>9
    <3>2. \A i, j \in 1..b : i < j \/ j < i \/ i = j
      BY <2>9
    <3>3. (\A i \in 1..a : e[i] \in Int) /\ (\A i \in 1..b : d[i] \in Int)
      BY <1>5, <2>10
    <3>4. \A i, j \in 1..a : e[i] = e[j] => i = j
      BY <2>4, <3>1, <3>3
    <3>5. \A i, j \in 1..b : d[i] = d[j] => i = j
      BY <2>5, <3>2, <3>3
    <3> QED
      BY <3>4, <3>5
  <2>15. \A i \in 1..a, j \in 1..b : e[i] # d[j]
    <3> SUFFICES ASSUME NEW i \in 1..a, NEW j \in 1..b, e[i] = d[j] PROVE FALSE
      OBVIOUS
    <3>1. slot[pkts[e[i]]].fast = TRUE /\ slot[pkts[d[j]]].fast = FALSE
      BY <2>4, <2>5
    <3> QED
      BY <3>1
  <2>16. \A p \in 1..n : (\E i \in 1..a : e[i] = p) \/ (\E i \in 1..b : d[i] = p)
    <3>1. \A p \in 1..n : slot[pkts[p]].fast \in BOOLEAN
      BY <1>5, <1>11 DEF Packet
    <3> QED
      BY <2>4, <2>5, <3>1
  <2>17. Splits(Pile, Pile', x, Ring, to, n, a, e, b, d)
    <3>1. to # Ring /\ to \in Piles
      BY <1>9, <1>17 DEF Ring
    <3>2. \A w \in DOMAIN Pile \ {x, Ring, to} : Pile'[w] = Pile[w]
      BY <1>11, <2>8
    <3>3. e \in [1..a -> 1..n] /\ d \in [1..b -> 1..n]
      BY <2>4, <2>5
    <3>4. /\ DOMAIN Pile' = DOMAIN Pile /\ x \in DOMAIN Pile /\ Ring \in DOMAIN Pile /\ to \in DOMAIN Pile
          /\ x # Ring /\ x # to /\ Ring # to /\ n \in 0..Len(Pile[x])
          /\ \A w \in DOMAIN Pile : Pile[w] \in Seq(Slots) /\ Pile'[w] \in Seq(Slots)
      BY <1>1, <1>2, <1>4, <1>11, <1>12, <1>13, <3>1
    <3> HIDE DEF a, b, to
    <3> QED
      BY <2>9, <2>11, <2>12, <2>13, <2>14, <2>15, <2>16, <3>2, <3>3, <3>4 DEF Splits
  <2>18. queue_length' = queue_length - a /\ dropped' = dropped \o [i \in 1..a |-> slot[fst[i]]]
    BY <2>1 DEF ReleasePkts
  <2>19. [i \in 1..a |-> slot[fst[i]]] = [i \in 1..a |-> slot[Pile[x][e[i]]]]
    BY <2>10
  <2>20. (\A i \in 1..a : slot[Pile[x][e[i]]].fast) /\ (\A i \in 1..b : ~slot[Pile[x][d[i]]].fast)
    BY <2>4, <2>5, <2>10
  <2>21. (\A i, j \in 1..a : i < j => e[i] < e[j]) /\ (\A i, j \in 1..b : i < j => d[i] < d[j])
    BY <2>4, <2>5
  <2> HIDE DEF a, b, to
  <2>22. Sorts(k, x, n, a, e, b, d)
    BY <1>9, <1>17, <2>17, <2>18, <2>19, <2>20, <2>21 DEF to, Sorts
  <2> QED
    BY <2>22
<1>18. pipe[k].work \in Works
  BY <1>1, Pipe DEF Element
<1> QED
  BY <1>14, <1>16, <1>17, <1>18 DEF Works

(* Put moves one packet from the batch to the buffer.                      *)
LEMMA PutMoves ==
  ASSUME Core, NEW k \in Depths, Runs(k), Put(k), UNCHANGED <<pipe, slot, released, received, status>>
  PROVE  Moves(Pile, Pile', <<"given", k>>, <<"buf", k>>, 1)
<1> DEFINE x == <<"given", k>>  y == <<"buf", k>>
<1>1. TypeOK /\ TypeOK' /\ Depths' = Depths
  BY PutCore DEF Core, PutOrReturn, Depths
<1>2. /\ Pile \in [Piles -> Seq(Slots)] /\ Ring \in Piles /\ Pile[Ring] = ring
      /\ \A j \in Depths : /\ <<"buf", j>> \in Piles /\ Pile[<<"buf", j>>] = buf[j]
                           /\ <<"given", j>> \in Piles /\ Pile[<<"given", j>>] = given[j]
  BY <1>1, PileIs
<1>3. /\ Pile' \in [Piles -> Seq(Slots)] /\ Pile'[Ring] = ring'
      /\ \A j \in Depths : Pile'[<<"buf", j>>] = buf'[j] /\ Pile'[<<"given", j>>] = given'[j]
  BY <1>1, PileBecomes
<1>4. /\ \A j \in Depths : j # k => buf'[j] = buf[j] /\ given'[j] = given[j]
      /\ buf'[k] = buf[k] \o SubSeq(given[k], 1, 1)
      /\ given'[k] = SubSeq(given[k], 1 + 1, Len(given[k]))
      /\ ring' = ring /\ given[k] # <<>> /\ given[k] \in Seq(Slots)
  BY <1>1 DEF Put, Rest, TypeOK
<1>5. 1 \in 0..Len(given[k])
  BY <1>4
<1>6. \A w \in Piles \ {x, y} : Pile'[w] = Pile[w]
  <2> SUFFICES ASSUME NEW w \in Piles \ {x, y} PROVE Pile'[w] = Pile[w]
    OBVIOUS
  <2>1. w = Ring \/ \E j \in Depths : w \in {<<"buf", j>>, <<"given", j>>}
    BY DEF Piles, Ring
  <2>2. CASE w = Ring
    BY <1>2, <1>3, <1>4, <2>2
  <2>3. ASSUME NEW j \in Depths, w = <<"buf", j>>
        PROVE  Pile'[w] = Pile[w]
    <3>1. j # k
      BY <2>3
    <3> QED
      BY <1>2, <1>3, <1>4, <2>3, <3>1
  <2>4. ASSUME NEW j \in Depths, w = <<"given", j>>
        PROVE  Pile'[w] = Pile[w]
    <3>1. j # k
      BY <2>4
    <3> QED
      BY <1>2, <1>3, <1>4, <2>4, <3>1
  <2> QED
    BY <2>1, <2>2, <2>3, <2>4
<1>7. x # y /\ x \in Piles /\ y \in Piles /\ DOMAIN Pile = Piles /\ DOMAIN Pile' = Piles
  BY <1>2, <1>3
<1>8. Pile[x] = given[k] /\ Pile[y] = buf[k] /\ Pile'[x] = given'[k] /\ Pile'[y] = buf'[k]
  BY <1>2, <1>3
<1>9. \A z \in Piles : Pile[z] \in Seq(Slots) /\ Pile'[z] \in Seq(Slots)
  BY <1>2, <1>3
<1> HIDE DEF x, y
<1>10. Moves(Pile, Pile', x, y, 1)
  BY <1>4, <1>5, <1>6, <1>7, <1>8, <1>9 DEF Moves
<1> QED
  BY <1>10 DEF x, y

(* A burst moves n slots from the ring to the first element.               *)
LEMMA BurstMoves ==
  ASSUME Core, NEW n \in 1..RxBurst, Burst(n)
  PROVE  /\ Moves(Pile, Pile', Ring, <<"given", 1>>, n) /\ Pile[<<"given", 1>>] = <<>>
         /\ queue_length' = queue_length + n /\ UNCHANGED <<pipe, dropped>>
<1> DEFINE y == <<"given", 1>>
<1>1. TypeOK /\ TypeOK' /\ Depths' = Depths /\ 1 \in Depths /\ UNCHANGED <<pipe, dropped>>
  <2>1. TypeOK /\ TypeOK'
    BY BurstCore DEF Core
  <2>2. Len(pipe) \in Nat \ {0} /\ Depths = 1..Len(pipe)
    BY <2>1, Pipe
  <2>3. 1 \in Depths
    BY <2>2
  <2> QED
    BY <2>1, <2>3 DEF Burst, Depths
<1>2. /\ Pile \in [Piles -> Seq(Slots)] /\ Ring \in Piles /\ Pile[Ring] = ring
      /\ \A j \in Depths : /\ <<"buf", j>> \in Piles /\ Pile[<<"buf", j>>] = buf[j]
                           /\ <<"given", j>> \in Piles /\ Pile[<<"given", j>>] = given[j]
  BY <1>1, PileIs
<1>3. /\ Pile' \in [Piles -> Seq(Slots)] /\ Pile'[Ring] = ring'
      /\ \A j \in Depths : Pile'[<<"buf", j>>] = buf'[j] /\ Pile'[<<"given", j>>] = given'[j]
  BY <1>1, PileBecomes
<1>4. ring' = SubSeq(ring, n + 1, Len(ring)) /\ queue_length' = queue_length + n
  BY DEF Burst, Mtop
<1>5. /\ \A j \in Depths : j # 1 => given'[j] = given[j]
      /\ given'[1] = SubSeq(ring, 1, n) /\ buf' = buf
      /\ given[1] = <<>> /\ ring \in Seq(Slots)
  BY <1>1 DEF Burst, Process, Idle, Core, Calls, TypeOK
<1>6. n \in 0..Len(ring) /\ n \in Nat /\ n \in Int
  BY <1>5, DatapathAssumption DEF Burst
<1>7. SubSeq(ring, 1, n) \in Seq(Slots)
  BY <1>5, <1>6, First
<1>8. given'[1] = given[1] \o SubSeq(ring, 1, n)
  BY <1>5, <1>7
<1>9. \A w \in Piles \ {Ring, y} : Pile'[w] = Pile[w]
  <2> SUFFICES ASSUME NEW w \in Piles \ {Ring, y} PROVE Pile'[w] = Pile[w]
    OBVIOUS
  <2>1. PICK j \in Depths : w \in {<<"buf", j>>, <<"given", j>>}
    BY DEF Piles, Ring
  <2>2. CASE w = <<"buf", j>>
    BY <1>2, <1>3, <1>5, <2>2
  <2>3. CASE w = <<"given", j>>
    <3>1. j # 1
      BY <2>3
    <3> QED
      BY <1>2, <1>3, <1>5, <2>3, <3>1
  <2> QED
    BY <2>1, <2>2, <2>3
<1>10. /\ Ring # y /\ Ring \in Piles /\ y \in Piles /\ DOMAIN Pile = Piles /\ DOMAIN Pile' = Piles
       /\ Pile[y] = given[1] /\ Pile'[y] = given'[1]
  BY <1>1, <1>2, <1>3 DEF Ring
<1>11. \A z \in Piles : Pile[z] \in Seq(Slots) /\ Pile'[z] \in Seq(Slots)
  BY <1>2, <1>3
<1> HIDE DEF y
<1>12. Moves(Pile, Pile', Ring, y, n)
  BY <1>2, <1>3, <1>4, <1>6, <1>8, <1>9, <1>10, <1>11 DEF Moves
<1> QED
  BY <1>1, <1>4, <1>5, <1>10, <1>12 DEF y

(* Every step but those leaves the piles alone.                            *)
Still == Pile' = Pile /\ UNCHANGED <<pipe, ring, slot, queue_length, received, buf, given, dropped>>

LEMMA StillIs ==
  ASSUME UNCHANGED <<pipe, ring, slot, queue_length, received, buf, given, dropped>>
  PROVE  Still
BY DEF Still, Pile, Piles, Depths

(* Steps again, for the piles.                                             *)
LEMMA MoveSteps ==
  ASSUME Core, [Next]_vars
  PROVE  \/ \E k, x, n, acts : Working(k, x, n, acts)
         \/ \E k \in Depths :
              Runs(k) /\ Put(k) /\ UNCHANGED <<pipe, slot, released, received, status>>
         \/ \E n \in 1..RxBurst : Burst(n)
         \/ Still
<1>1. ASSUME NEW k \in Depths, PutOrReturn(k), UNCHANGED <<pipe, slot, released, received, status>>
      PROVE  (Runs(k) /\ Put(k)) \/ Still
  BY <1>1, StillIs DEF PutOrReturn, Return
<1>2. Exits \/ UNCHANGED vars => Still
  BY StillIs DEF Exits, vars, stream
<1> QED
  BY <1>1, <1>2, Steps

(* What keeps the slots, as it is carried from step to step.               *)
Slotted == Conserved(Pile) /\ Count

(* Conservation and the queue length hold through every step,              *)
LEMMA SlottedStep ==
  ASSUME Core, Slotted, [Next]_vars
  PROVE  Slotted'
<1>0. Conserved(Pile) /\ Count
  BY DEF Slotted
<1>1. Capacity \in Nat /\ queue_length \in Int /\ Len(ring) \in Nat /\ Pile[Ring] = ring /\ TypeOK /\ TypeOK'
  BY CoreStep, PileIs, DatapathAssumption, SMTT(40) DEF Core, TypeOK, Capacity
<1>2. Len(ring') \in Nat /\ queue_length' \in Int /\ (Depths' = Depths => Pile'[Ring] = ring')
  BY <1>1, PileBecomes, SMTT(40) DEF TypeOK
<1>3. ASSUME NEW k, NEW x, NEW n, NEW acts, Working(k, x, n, acts) PROVE Slotted'
  <2> DEFINE to == <<"given", k + 1>>
  <2>1. Depths' = Depths
    BY <1>3 DEF Working, Depths
  <2>2. CASE Forwards(k, x, n)
    <3>1. Moves(Pile, Pile', x, to, n) /\ UNCHANGED <<ring, queue_length>>
      BY <2>2 DEF Forwards
    <3> QED
      BY <1>0, <3>1, MovesConserve DEF Slotted, Count
  <2>3. CASE Drops(k, x, n)
    <3>1. Moves(Pile, Pile', x, Ring, n)
      BY <2>3 DEF Drops
    <3>2. queue_length' = queue_length - n
      BY <2>3 DEF Drops
    <3>3. Conserved(Pile')
      BY <1>0, <3>1, MovesConserve
    <3>4. Len(Pile'[Ring]) = Len(Pile[Ring]) + n /\ n \in Nat
      BY <3>1, MovesIs
    <3>5. Count'
      BY <1>0, <1>1, <1>2, <2>1, <3>2, <3>4 DEF Count, Capacity
    <3> QED
      BY <3>3, <3>5 DEF Slotted
  <2>4. ASSUME NEW a, NEW e, NEW b, NEW d, Sorts(k, x, n, a, e, b, d)
        PROVE  Slotted'
    <3>1. Splits(Pile, Pile', x, Ring, to, n, a, e, b, d)
      BY <2>4 DEF Sorts
    <3>2. queue_length' = queue_length - a
      BY <2>4 DEF Sorts
    <3>3. Conserved(Pile')
      BY <1>0, <3>1, SplitsConserve
    <3>4. Len(Pile'[Ring]) = Len(Pile[Ring]) + a /\ a \in Nat
      BY <3>1 DEF Splits
    <3>5. Count'
      BY <1>0, <1>1, <1>2, <2>1, <3>2, <3>4 DEF Count, Capacity
    <3> QED
      BY <3>3, <3>5 DEF Slotted
  <2> QED
    BY <1>0, <1>3, <2>2, <2>3, <2>4, WorkMoves
<1>4. ASSUME NEW k \in Depths, Runs(k), Put(k), UNCHANGED <<pipe, slot, released, received, status>>
      PROVE  Slotted'
  <2>1. Conserved(Pile')
    BY <1>0, <1>4, PutMoves, MovesConserve
  <2> QED
    BY <1>0, <1>4, <2>1 DEF Put, Slotted, Count
<1>5. ASSUME NEW n \in 1..RxBurst, Burst(n) PROVE Slotted'
  <2>0. PICK y : Moves(Pile, Pile', Ring, y, n)
    BY <1>5, BurstMoves
  <2>1. queue_length' = queue_length + n /\ Depths' = Depths
    BY <1>5, BurstMoves DEF Depths
  <2>2. Conserved(Pile')
    BY <1>0, <2>0, MovesConserve
  <2>3. Len(Pile'[Ring]) = Len(Pile[Ring]) - n /\ n \in Nat
    <3>1. n \in 0..Len(Pile[Ring]) /\ Pile[Ring] \in Seq(Slots)
      BY <2>0 DEF Moves
    <3>2. Len(SubSeq(Pile[Ring], n + 1, Len(Pile[Ring]))) = Len(Pile[Ring]) - n
      BY <3>1, Remaining
    <3>3. Pile'[Ring] = SubSeq(Pile[Ring], n + 1, Len(Pile[Ring]))
      BY <2>0 DEF Moves
    <3> QED
      BY <3>1, <3>2, <3>3
  <2>4. Count'
    BY SMTT(30), <1>0, <1>1, <1>2, <2>1, <2>3 DEF Count, Capacity
  <2> QED
    BY <2>2, <2>4 DEF Slotted
<1>6. ASSUME Still PROVE Slotted'
  BY <1>0, <1>6 DEF Still, Slotted, Count
<1> QED
  BY <1>3, <1>4, <1>5, <1>6, MoveSteps

(* ... and at first, when the ring has all slots but the one it refused.   *)
LEMMA SlottedInit == Init => Slotted
<1> SUFFICES ASSUME Init PROVE Slotted
  OBVIOUS
<1> DEFINE all == [i \in 1..RingSize |-> i - 1]
           C == Capacity
<1>1. RingSize \in Nat \ {0, 1} /\ C \in Nat /\ C = RingSize - 1
  BY DatapathAssumption DEF Capacity
<1>2. all \in Seq(Slots) /\ Len(all) = RingSize /\ Len(<<>>) = 0
  BY <1>1 DEF Slots
<1>3. ring = <<>> \o SubSeq(all, 1, C)
  <2>1. C - Len(<<>>) = C /\ ~(Len(all) <= C)
    BY <1>1, <1>2
  <2> QED
    BY <2>1 DEF Init, Enqueue
<1>4. C \in 0..Len(all)
  BY <1>1, <1>2
<1>5. /\ SubSeq(all, 1, C) \in Seq(Slots) /\ Len(SubSeq(all, 1, C)) = C
      /\ \A i \in 1..C : SubSeq(all, 1, C)[i] = all[i]
  BY <1>2, <1>4, First
<1>6. ring = SubSeq(all, 1, C)
  BY <1>3, <1>5
<1>7. Len(ring) = C /\ \A i \in 1..C : ring[i] = i - 1
  BY <1>1, <1>5, <1>6
<1>8. /\ DOMAIN Pile = Piles /\ Ring \in Piles /\ Pile[Ring] = ring
      /\ \A w \in Piles : w = Ring \/ Pile[w] = <<>>
  <2>1. Core
    BY CoreInit
  <2>2. TypeOK
    BY <2>1 DEF Core
  <2>3. \A j \in Depths : Pile[<<"buf", j>>] = <<>> /\ Pile[<<"given", j>>] = <<>>
    BY <2>2, PileIs DEF Init
  <2>4. \A w \in Piles : w = Ring \/ \E j \in Depths : w \in {<<"buf", j>>, <<"given", j>>}
    BY DEF Piles, Ring
  <2> QED
    BY ZenonT(40), <2>2, <2>3, <2>4, PileIs
<1> HIDE DEF C, all
<1>9. \A w \in Piles : \A i \in 1..Len(Pile[w]) : w = Ring /\ i \in 1..C /\ Pile[w][i] = i - 1
  <2> SUFFICES ASSUME NEW w \in Piles, NEW i \in 1..Len(Pile[w])
               PROVE  w = Ring /\ i \in 1..C /\ Pile[w][i] = i - 1
    OBVIOUS
  <2>1. w = Ring
    BY <1>8
  <2> QED
    BY <1>7, <1>8, <2>1
<1>10. \A w \in DOMAIN Pile : \A i \in 1..Len(Pile[w]) : Pile[w][i] \in 0..(C - 1)
  BY <1>1, <1>8, <1>9
<1>11. Distinct(Pile)
  <2> SUFFICES ASSUME NEW w \in Piles, NEW v \in Piles, NEW i \in 1..Len(Pile[w]), NEW j \in 1..Len(Pile[v]),
                      Pile[w][i] = Pile[v][j]
               PROVE  w = v /\ i = j
    BY <1>8 DEF Distinct
  <2>1. w = Ring /\ v = Ring /\ i \in 1..C /\ j \in 1..C /\ i - 1 = j - 1
    BY <1>9
  <2> QED
    BY <1>1, <2>1
<1>12. \A p \in 0..(C - 1) : \E w \in DOMAIN Pile : \E i \in 1..Len(Pile[w]) : Pile[w][i] = p
  <2> SUFFICES ASSUME NEW p \in 0..(C - 1)
               PROVE  \E i \in 1..Len(Pile[Ring]) : Pile[Ring][i] = p
    BY <1>8
  <2>1. p + 1 \in 1..C /\ (p + 1) - 1 = p
    BY <1>1
  <2> QED
    BY <1>7, <1>8, <2>1
<1>13. Count
  BY <1>1, <1>7 DEF Count, Init, C
<1> QED
  BY <1>10, <1>11, <1>12, <1>13 DEF Slotted, Conserved, C
----------------------------------------------------------------------------
(* The order of the packets.                                               *)

(* What is in pile x has overtaken, or is in front of, what is in pile y.  *)
Ahead(x, y) == x[2] > y[2] \/ (x[2] = y[2] /\ x[1] = "buf" /\ y[1] = "given")

(* The packets in the pipeline are in the order of arrival.                *)
InLine ==
  \A x, y \in HeldPiles : \A i \in 1..Len(Pile[x]), j \in 1..Len(Pile[y]) :
    Ahead(x, y) \/ (x = y /\ i < j) => slot[Pile[x][i]].id < slot[Pile[y][j]].id

(* What was dropped may have been dropped before all that is still there.  *)
DroppedFirst ==
  \A l \in 1..Len(dropped), x \in HeldPiles : \A i \in 1..Len(Pile[x]) :
    Leaves(dropped[l], slot[Pile[x][i]])

(* Behind a fastpass there are none of its packets.                        *)
SlowBehind ==
  \A x \in HeldPiles, m \in Depths : m < x[2] /\ pipe[m].work = "fastpass" =>
    \A i \in 1..Len(Pile[x]) : ~slot[Pile[x][i]].fast

(* All of them have been received, and what has been received is there or  *)
(* was dropped.                                                            *)
Numbered ==
  /\ \A x \in HeldPiles : \A i \in 1..Len(Pile[x]) : slot[Pile[x][i]].id \in 1..received
  /\ \A l \in 1..Len(dropped) : dropped[l].id \in 1..received

Accounted ==
  \A id \in 1..received :
    \/ \E l \in 1..Len(dropped) : dropped[l].id = id
    \/ \E x \in HeldPiles : \E i \in 1..Len(Pile[x]) : slot[Pile[x][i]].id = id

(* The types of what is held.                                              *)
LEMMA HeldIs ==
  ASSUME TypeOK
  PROVE  /\ HeldPiles \subseteq Piles /\ Ring \notin HeldPiles
         /\ \A x \in HeldPiles : x[1] \in {"buf", "given"} /\ x[2] \in Depths /\ x[2] \in Nat
         /\ \A x \in HeldPiles : Len(Pile[x]) \in Nat
         /\ \A x \in HeldPiles : \A i \in 1..Len(Pile[x]) :
              slot[Pile[x][i]].id \in Nat /\ slot[Pile[x][i]].fast \in BOOLEAN
         /\ Len(dropped) \in Nat
         /\ \A l \in 1..Len(dropped) : dropped[l].id \in Nat /\ dropped[l].fast \in BOOLEAN
         /\ received \in Nat
<1>1. /\ HeldPiles \subseteq Piles /\ Ring \notin HeldPiles
      /\ \A x \in HeldPiles : x[1] \in {"buf", "given"} /\ x[2] \in Depths /\ x[2] \in Nat
  BY DEF HeldPiles, Piles, Ring, Depths
<1>2. Pile \in [Piles -> Seq(Slots)]
  BY PileIs
<1>3. \A x \in HeldPiles : Len(Pile[x]) \in Nat /\ \A i \in 1..Len(Pile[x]) : Pile[x][i] \in Slots
  BY <1>1, <1>2
<1>4. slot \in [Slots -> Packet] /\ dropped \in Seq(Packet) /\ received \in Nat
  BY DatapathAssumption DEF TypeOK
<1>5. \A q \in Packet : q.id \in Nat /\ q.fast \in BOOLEAN
  BY DatapathAssumption DEF Packet
<1> QED
  BY <1>1, <1>3, <1>4, <1>5

(* Where the i-th of pile w was before n of pile x were taken, of which    *)
(* d[1], ..., d[b] went on to pile to.                                     *)
Source(x, to, n, b, d, w, i, u, g) ==
  \/ w = x /\ u = x /\ g = i + n
  \/ w = to /\ w # x /\ i \in 1..b /\ u = x /\ g = d[i] /\ g \in 1..n
  \/ w \notin {x, to} /\ u = w /\ g = i

(* ... and e[1], ..., e[a] of them were dropped: what the three kinds of   *)
(* work have in common.                                                    *)
Passes(k, x, n, a, e, b, d) ==
  LET to == <<"given", k + 1>>
  IN /\ k \in Depths /\ x \in {<<"buf", k>>, <<"given", k>>} /\ n \in 0..Len(Pile[x])
     /\ a \in Nat /\ b \in Nat
     /\ \A i \in 1..a : e[i] \in 1..n
     /\ \A i \in 1..b : d[i] \in 1..n
     /\ \A i, j \in 1..a : i < j => e[i] < e[j]
     /\ \A i, j \in 1..b : i < j => d[i] < d[j]
     /\ \A i \in 1..a, j \in 1..b : e[i] # d[j]
     /\ dropped' = dropped \o [i \in 1..a |-> slot[Pile[x][e[i]]]]
     /\ \/ a = 0 /\ pipe[k].work # "fastpass"
        \/ b = 0 /\ k = Len(pipe) /\ pipe[k].work # "fastpass"
        \/ /\ pipe[k].work = "fastpass"
           /\ \A i \in 1..a : slot[Pile[x][e[i]]].fast
           /\ \A i \in 1..b : ~slot[Pile[x][d[i]]].fast
     /\ \A w \in HeldPiles : \A i \in 1..Len(Pile'[w]) :
          \E u \in HeldPiles : \E g \in 1..Len(Pile[u]) :
            Pile'[w][i] = Pile[u][g] /\ Source(x, to, n, b, d, w, i, u, g)
     /\ \A u \in HeldPiles : \A g \in 1..Len(Pile[u]) :
          \/ u = x /\ \E i \in 1..a : e[i] = g
          \/ \E w \in HeldPiles : \E i \in 1..Len(Pile'[w]) : Pile'[w][i] = Pile[u][g]
     /\ \A y \in HeldPiles : y \notin {x, to} /\ Pile[y] # <<>> =>
          IF y[2] > k THEN Ahead(y, x) /\ Ahead(y, to) ELSE Ahead(x, y) /\ Ahead(to, y)
     /\ Ahead(to, x)

(* Between an element that works and the next one no packet is held: the   *)
(* next one has nothing left to take, as only the innermost call runs, and *)
(* a batch is taken past the element's own buffer only when that is empty. *)
LEMMA NoneBetween ==
  ASSUME Core, NEW k, NEW x, NEW n, NEW acts, Working(k, x, n, acts)
  PROVE  /\ Ahead(<<"given", k + 1>>, x)
         /\ \A y \in HeldPiles : y \notin {x, <<"given", k + 1>>} /\ Pile[y] # <<>> =>
              IF y[2] > k THEN Ahead(y, x) /\ Ahead(y, <<"given", k + 1>>)
              ELSE Ahead(x, y) /\ Ahead(<<"given", k + 1>>, y)
<1>1. /\ k \in Nat /\ x \in {<<"buf", k>>, <<"given", k>>} /\ TypeOK
      /\ x = <<"given", k>> => buf[k] = <<>>
      /\ k \in Depths
  BY DEF Working, Core, Depths
<1>2. Ahead(<<"given", k + 1>>, x)
  BY <1>1 DEF Ahead
<1>3. ASSUME NEW y \in HeldPiles, y \notin {x, <<"given", k + 1>>}, Pile[y] # <<>>
      PROVE  IF y[2] > k THEN Ahead(y, x) /\ Ahead(y, <<"given", k + 1>>)
             ELSE Ahead(x, y) /\ Ahead(<<"given", k + 1>>, y)
  <2>1. PICK m \in Depths : y = <<"buf", m>> \/ y = <<"given", m>>
    BY DEF HeldPiles
  <2>2. m \in Nat
    BY DEF Depths
  <2>3. Pile[<<"buf", k>>] = buf[k] /\ \A j \in Depths : Pile[<<"given", j>>] = given[j]
    BY <1>1, PileIs
  <2>4. CASE m > k
    <3>1. given[m] = <<>>
      BY <1>1, <2>2, <2>4 DEF Working, Core, Calls, TypeOK
    <3>2. y = <<"buf", m>>
      BY <1>3, <2>1, <2>3, <3>1
    <3> QED
      BY <1>1, <2>2, <2>4, <3>2 DEF Ahead
  <2>5. CASE m < k
    BY <1>1, <2>1, <2>2, <2>5 DEF Ahead
  <2>6. CASE m = k
    <3>1. x = <<"buf", k>> /\ y = <<"given", k>>
      BY <1>1, <1>3, <2>1, <2>3, <2>6
    <3> QED
      BY <1>1, <3>1 DEF Ahead
  <2> QED
    BY <1>1, <2>2, <2>4, <2>5, <2>6
<1> QED
  BY <1>2, <1>3

(* What is forwarded passes on in order,                                   *)
LEMMA ForwardsPass ==
  ASSUME Core, NEW k, NEW x, NEW n, NEW acts, Working(k, x, n, acts), Forwards(k, x, n)
  PROVE  \E a, e, b, d : Passes(k, x, n, a, e, b, d)
<1> DEFINE to == <<"given", k + 1>>
           e == <<>>
           d == [i \in 1..n |-> i]
<1>1. /\ k \in Depths /\ x \in {<<"buf", k>>, <<"given", k>>} /\ n \in 0..Len(Pile[x]) /\ TypeOK
      /\ x \in HeldPiles
  BY DEF Working, Core, HeldPiles
<1>2. /\ to \in HeldPiles /\ Pile[to] = <<>> /\ Moves(Pile, Pile', x, to, n) /\ dropped' = dropped
      /\ pipe[k].work # "fastpass"
  BY DEF Forwards
<1>3. HeldPiles \subseteq Piles /\ DOMAIN Pile = Piles /\ \A w \in HeldPiles : Len(Pile[w]) \in Nat
  BY <1>1, HeldIs, PileIs
<1>4. /\ n \in Nat /\ x # to /\ Len(Pile[to]) = 0 /\ n <= Len(Pile[x])
  BY <1>1, <1>2, <1>3 DEF Moves
<1>5. \A i \in 1..n : d[i] = i /\ d[i] \in 1..n
  OBVIOUS
<1>6. dropped' = dropped \o [i \in 1..0 |-> slot[Pile[x][e[i]]]]
  <2>1. dropped \in Seq(Packet)
    BY <1>1 DEF TypeOK
  <2>2. [i \in 1..0 |-> slot[Pile[x][e[i]]]] = <<>>
    OBVIOUS
  <2> QED
    BY <1>2, <2>1, <2>2
<1> HIDE DEF to, e, d
<1>7. ASSUME NEW w \in HeldPiles, NEW i \in 1..Len(Pile'[w])
      PROVE  \E u \in HeldPiles : \E g \in 1..Len(Pile[u]) :
               Pile'[w][i] = Pile[u][g] /\ Source(x, to, n, n, d, w, i, u, g)
  <2> DEFINE u == FromPile(Pile, x, to, w, i)
             g == FromPlace(Pile, x, to, n, w, i)
  <2>1. g \in 1..Len(Pile[u]) /\ Pile'[w][i] = Pile[u][g]
    BY <1>2, <1>3, MovesFrom
  <2>2. Len(Pile'[w]) \in Nat /\ Len(Pile'[to]) = 0 + n
    BY <1>2, <1>3, <1>4, MovesIs
  <2>3. i \in Nat /\ i > 0
    BY <2>2
  <2>4. CASE w = to
    <3>1. u = x /\ g = i - 0
      BY <1>4, <2>3, <2>4 DEF FromPile, FromPlace
    <3>2. g = i /\ i \in 1..n
      BY <1>4, <2>2, <2>3, <2>4, <3>1
    <3>3. g = d[i] /\ g \in 1..n
      BY <1>5, <3>2
    <3> HIDE DEF u, g
    <3> QED
      BY <1>1, <1>4, <2>1, <2>4, <3>1, <3>2, <3>3 DEF Source
  <2>5. CASE w = x
    <3>1. u = x /\ g = i + n
      BY <1>4, <2>5 DEF FromPile, FromPlace
    <3> HIDE DEF u, g
    <3> QED
      BY <1>1, <2>1, <2>5, <3>1 DEF Source
  <2>6. CASE w \notin {x, to}
    <3>1. u = w /\ g = i
      BY <2>6 DEF FromPile, FromPlace
    <3> HIDE DEF u, g
    <3> QED
      BY <2>1, <2>6, <3>1 DEF Source
  <2> QED
    BY <2>4, <2>5, <2>6
<1>8. ASSUME NEW u \in HeldPiles, NEW g \in 1..Len(Pile[u])
      PROVE  \E w \in HeldPiles : \E i \in 1..Len(Pile'[w]) : Pile'[w][i] = Pile[u][g]
  <2>1. /\ Len(Pile'[x]) = Len(Pile[x]) - n /\ \A j \in 1..Len(Pile'[x]) : Pile'[x][j] = Pile[x][j + n]
        /\ Len(Pile'[to]) = Len(Pile[to]) + n /\ \A j \in 1..n : Pile'[to][Len(Pile[to]) + j] = Pile[x][j]
    <3>1. Moved(Pile, Pile', x, to, n)
      BY <1>2, MovesMoved
    <3> QED
      BY <3>1 DEF Moved
  <2>2. Len(Pile'[to]) = n /\ \A j \in 1..n : Pile'[to][j] = Pile[x][j]
    <3>1. \A j \in 1..n : 0 + j = j
      BY <1>4
    <3> QED
      BY <1>4, <2>1, <3>1
  <2>3. CASE u = x /\ g <= n
    <3>1. g \in 1..n
      BY <1>3, <1>4, <2>3
    <3> QED
      BY <1>2, <2>2, <2>3, <3>1
  <2>4. CASE u = x /\ ~(g <= n)
    <3>1. g - n \in 1..Len(Pile'[x]) /\ (g - n) + n = g
      BY <1>3, <1>4, <2>1, <2>4
    <3>2. Pile'[x][g - n] = Pile[x][g]
      BY <2>1, <3>1
    <3> QED
      BY <2>4, <3>1, <3>2
  <2>5. CASE u = to
    BY <1>3, <1>4, <2>5
  <2>6. CASE u \notin {x, to}
    <3>1. Pile'[u] = Pile[u]
      BY <1>2, <1>3, <2>6 DEF Moves
    <3> QED
      BY <3>1
  <2> QED
    BY <2>3, <2>4, <2>5, <2>6
<1>9. Ahead(to, x) /\ \A y \in HeldPiles : y \notin {x, to} /\ Pile[y] # <<>> =>
        IF y[2] > k THEN Ahead(y, x) /\ Ahead(y, to) ELSE Ahead(x, y) /\ Ahead(to, y)
  BY NoneBetween DEF to
<1>10. /\ \A i, j \in 1..n : i < j => d[i] < d[j]
       /\ \A i \in 1..0 : FALSE
  BY <1>4, <1>5
<1>11. Passes(k, x, n, 0, e, n, d)
  BY <1>1, <1>2, <1>4, <1>5, <1>6, <1>7, <1>8, <1>9, <1>10 DEF Passes, to
<1> QED
  BY <1>11

(* ... what is dropped was in front of all that is held,                   *)
LEMMA DropsPass ==
  ASSUME Core, NEW k, NEW x, NEW n, NEW acts, Working(k, x, n, acts), Drops(k, x, n)
  PROVE  \E a, e, b, d : Passes(k, x, n, a, e, b, d)
<1> DEFINE to == <<"given", k + 1>>
           e == [i \in 1..n |-> i]
           d == <<>>
<1>1. /\ k \in Depths /\ x \in {<<"buf", k>>, <<"given", k>>} /\ n \in 0..Len(Pile[x]) /\ TypeOK
      /\ x \in HeldPiles
  BY DEF Working, Core, HeldPiles
<1>2. /\ to \notin Piles /\ Moves(Pile, Pile', x, Ring, n) /\ pipe[k].work # "fastpass"
      /\ dropped' = dropped \o [i \in 1..n |-> slot[Pile[x][i]]]
  BY DEF Drops
<1>3. /\ HeldPiles \subseteq Piles /\ Ring \notin HeldPiles /\ DOMAIN Pile = Piles
      /\ \A w \in HeldPiles : Len(Pile[w]) \in Nat
  BY <1>1, HeldIs, PileIs
<1>4. n \in Nat /\ n <= Len(Pile[x])
  BY <1>1, <1>3
<1>5. \A i \in 1..n : e[i] = i /\ e[i] \in 1..n
  OBVIOUS
<1>6. dropped' = dropped \o [i \in 1..n |-> slot[Pile[x][e[i]]]]
  <2>1. [i \in 1..n |-> slot[Pile[x][e[i]]]] = [i \in 1..n |-> slot[Pile[x][i]]]
    OBVIOUS
  <2> QED
    BY <1>2, <2>1
<1> HIDE DEF to, e, d
<1>7. ASSUME NEW w \in HeldPiles, NEW i \in 1..Len(Pile'[w])
      PROVE  \E u \in HeldPiles : \E g \in 1..Len(Pile[u]) :
               Pile'[w][i] = Pile[u][g] /\ Source(x, to, n, 0, d, w, i, u, g)
  <2> DEFINE u == FromPile(Pile, x, Ring, w, i)
             g == FromPlace(Pile, x, Ring, n, w, i)
  <2>1. g \in 1..Len(Pile[u]) /\ Pile'[w][i] = Pile[u][g]
    BY <1>2, <1>3, MovesFrom
  <2>2. w # Ring /\ w # to
    BY <1>2, <1>3
  <2>3. CASE w = x
    <3>1. u = x /\ g = i + n
      BY <2>2, <2>3 DEF FromPile, FromPlace
    <3> HIDE DEF u, g
    <3> QED
      BY <1>1, <2>1, <2>3, <3>1 DEF Source
  <2>4. CASE w # x
    <3>1. u = w /\ g = i
      BY <2>2, <2>4 DEF FromPile, FromPlace
    <3> HIDE DEF u, g
    <3> QED
      BY <2>1, <2>2, <2>4, <3>1 DEF Source
  <2> QED
    BY <2>3, <2>4
<1>8. ASSUME NEW u \in HeldPiles, NEW g \in 1..Len(Pile[u])
      PROVE  \/ u = x /\ \E i \in 1..n : e[i] = g
             \/ \E w \in HeldPiles : \E i \in 1..Len(Pile'[w]) : Pile'[w][i] = Pile[u][g]
  <2>1. Len(Pile'[x]) = Len(Pile[x]) - n /\ \A j \in 1..Len(Pile'[x]) : Pile'[x][j] = Pile[x][j + n]
    BY <1>2, MovesIs
  <2>2. CASE u = x /\ g <= n
    <3>1. g \in 1..n
      BY <1>3, <1>4, <2>2
    <3> QED
      BY <1>5, <2>2, <3>1
  <2>3. CASE u = x /\ ~(g <= n)
    <3>1. g - n \in 1..Len(Pile'[x]) /\ (g - n) + n = g
      BY <1>3, <1>4, <2>1, <2>3
    <3>2. Pile'[x][g - n] = Pile[x][g]
      BY <2>1, <3>1
    <3> QED
      BY <2>3, <3>1, <3>2
  <2>4. CASE u # x
    <3>1. Pile'[u] = Pile[u]
      BY <1>2, <1>3, <2>4 DEF Moves
    <3> QED
      BY <3>1
  <2> QED
    BY <2>2, <2>3, <2>4
<1>9. Ahead(to, x) /\ \A y \in HeldPiles : y \notin {x, to} /\ Pile[y] # <<>> =>
        IF y[2] > k THEN Ahead(y, x) /\ Ahead(y, to) ELSE Ahead(x, y) /\ Ahead(to, y)
  BY NoneBetween DEF to
<1>10. /\ \A i, j \in 1..n : i < j => e[i] < e[j]
       /\ \A i \in 1..0 : FALSE
  BY <1>4, <1>5
<1>11. k = Len(pipe)
  BY <1>1, DatapathAssumption DEF Drops, TypeOK, WellBuilt, Depths
<1>12. Passes(k, x, n, n, e, 0, d)
  BY <1>1, <1>2, <1>4, <1>5, <1>6, <1>7, <1>8, <1>9, <1>10, <1>11 DEF Passes, to
<1> QED
  BY <1>12

(* ... and a fastpass keeps the order in both of its parts.                *)
LEMMA SortsPass ==
  ASSUME Core, NEW k, NEW x, NEW n, NEW acts, Working(k, x, n, acts),
         NEW a, NEW e, NEW b, NEW d, Sorts(k, x, n, a, e, b, d)
  PROVE  Passes(k, x, n, a, e, b, d)
<1> DEFINE to == <<"given", k + 1>>
<1>1. /\ k \in Depths /\ x \in {<<"buf", k>>, <<"given", k>>} /\ n \in 0..Len(Pile[x]) /\ TypeOK
      /\ x \in HeldPiles
  BY DEF Working, Core, HeldPiles
<1>2. /\ to \in HeldPiles /\ Pile[to] = <<>> /\ Splits(Pile, Pile', x, Ring, to, n, a, e, b, d)
      /\ dropped' = dropped \o [i \in 1..a |-> slot[Pile[x][e[i]]]]
      /\ pipe[k].work = "fastpass"
      /\ \A i \in 1..a : slot[Pile[x][e[i]]].fast
      /\ \A i \in 1..b : ~slot[Pile[x][d[i]]].fast
      /\ \A i, j \in 1..a : i < j => e[i] < e[j]
      /\ \A i, j \in 1..b : i < j => d[i] < d[j]
  BY DEF Sorts
<1>3. /\ HeldPiles \subseteq Piles /\ Ring \notin HeldPiles /\ DOMAIN Pile = Piles
      /\ \A w \in HeldPiles : Len(Pile[w]) \in Nat
  BY <1>1, HeldIs, PileIs
<1>4. /\ n \in Nat /\ x # to /\ Len(Pile[to]) = 0 /\ n <= Len(Pile[x]) /\ a \in Nat /\ b \in Nat
      /\ (\A i \in 1..a : e[i] \in 1..n) /\ (\A i \in 1..b : d[i] \in 1..n)
  <2>1. Splits(Pile, Pile', x, Ring, to, n, a, e, b, d)
    BY <1>2
  <2>2. n \in Nat /\ x # to /\ a \in Nat /\ b \in Nat
    BY <1>1, <1>3, <2>1 DEF Splits
  <2>3. (\A i \in 1..a : e[i] \in 1..n) /\ (\A i \in 1..b : d[i] \in 1..n)
    BY <2>1 DEF Splits
  <2> QED
    BY <1>1, <1>2, <1>3, <2>2, <2>3
<1> HIDE DEF to
<1>5. /\ Len(Pile'[x]) = Len(Pile[x]) - n /\ \A i \in 1..Len(Pile'[x]) : Pile'[x][i] = Pile[x][i + n]
      /\ \A w \in DOMAIN Pile \ {x, Ring, to} : Pile'[w] = Pile[w]
      /\ \A i \in 1..a, j \in 1..b : e[i] # d[j]
      /\ \A p \in 1..n : (\E i \in 1..a : e[i] = p) \/ (\E i \in 1..b : d[i] = p)
  BY <1>2 DEF Splits
<1>6. Len(Pile'[to]) = b /\ \A i \in 1..b : Pile'[to][i] = Pile[x][d[i]]
  <2>1. Len(Pile'[to]) = Len(Pile[to]) + b /\ \A i \in 1..b : Pile'[to][Len(Pile[to]) + i] = Pile[x][d[i]]
    BY <1>2 DEF Splits
  <2>2. \A i \in 1..b : 0 + i = i
    BY <1>4
  <2> QED
    BY <1>4, <2>1, <2>2
<1>7. ASSUME NEW w \in HeldPiles, NEW i \in 1..Len(Pile'[w])
      PROVE  \E u \in HeldPiles : \E g \in 1..Len(Pile[u]) :
               Pile'[w][i] = Pile[u][g] /\ Source(x, to, n, b, d, w, i, u, g)
  <2>1. CASE w = to
    <3>1. i \in 1..b /\ d[i] \in 1..n /\ d[i] \in 1..Len(Pile[x])
      BY <1>1, <1>3, <1>4, <1>6, <2>1
    <3> QED
      BY <1>1, <1>4, <1>6, <2>1, <3>1 DEF Source
  <2>2. CASE w = x
    <3>1. i + n \in 1..Len(Pile[x])
      BY <1>1, <1>3, <1>4, <1>5, <2>2
    <3> QED
      BY <1>1, <1>5, <2>2, <3>1 DEF Source
  <2>3. CASE w \notin {x, to}
    BY <1>3, <1>5, <2>3 DEF Source
  <2> QED
    BY <2>1, <2>2, <2>3
<1>8. ASSUME NEW u \in HeldPiles, NEW g \in 1..Len(Pile[u])
      PROVE  \/ u = x /\ \E i \in 1..a : e[i] = g
             \/ \E w \in HeldPiles : \E i \in 1..Len(Pile'[w]) : Pile'[w][i] = Pile[u][g]
  <2>1. CASE u = x /\ g <= n
    <3>1. g \in 1..n
      BY <1>3, <1>4, <2>1
    <3>2. CASE \E i \in 1..a : e[i] = g
      BY <2>1, <3>2
    <3>3. CASE \E i \in 1..b : d[i] = g
      <4>1. PICK i \in 1..b : d[i] = g
        BY <3>3
      <4>2. i \in 1..Len(Pile'[to]) /\ Pile'[to][i] = Pile[u][g]
        BY <1>6, <2>1, <4>1
      <4> QED
        BY <1>2, <4>2
    <3> QED
      BY <1>5, <3>1, <3>2, <3>3
  <2>2. CASE u = x /\ ~(g <= n)
    <3>1. g - n \in 1..Len(Pile'[x]) /\ (g - n) + n = g
      BY <1>3, <1>4, <1>5, <2>2
    <3>2. Pile'[x][g - n] = Pile[x][g]
      BY <1>5, <3>1
    <3> QED
      BY <2>2, <3>1, <3>2
  <2>3. CASE u = to
    BY <1>3, <1>4, <2>3
  <2>4. CASE u \notin {x, to}
    <3>1. Pile'[u] = Pile[u]
      BY <1>3, <1>5, <2>4
    <3> QED
      BY <3>1
  <2> QED
    BY <2>1, <2>2, <2>3, <2>4
<1>9. Ahead(to, x) /\ \A y \in HeldPiles : y \notin {x, to} /\ Pile[y] # <<>> =>
        IF y[2] > k THEN Ahead(y, x) /\ Ahead(y, to) ELSE Ahead(x, y) /\ Ahead(to, y)
  BY NoneBetween DEF to
<1> QED
  BY <1>1, <1>2, <1>4, <1>5, <1>7, <1>8, <1>9 DEF Passes, to

(* So does every step that works.                                          *)
LEMMA WorkPasses ==
  ASSUME Core, Slotted, NEW k, NEW x, NEW n, NEW acts, Working(k, x, n, acts)
  PROVE  \E a, e, b, d : Passes(k, x, n, a, e, b, d)
<1>1. ASSUME NEW a, NEW e, NEW b, NEW d, Sorts(k, x, n, a, e, b, d)
      PROVE  Passes(k, x, n, a, e, b, d)
  BY <1>1, SortsPass
<1> QED
  BY <1>1, WorkMoves, ForwardsPass, DropsPass DEF Slotted

(* Two piles are not ahead of each other.                                  *)
LEMMA AheadIsOneWay ==
  ASSUME NEW x \in HeldPiles, NEW y \in HeldPiles, Ahead(x, y)
  PROVE  ~Ahead(y, x) /\ x # y
<1>1. x[2] \in Nat /\ y[2] \in Nat
  BY DEF HeldPiles, Depths
<1> QED
  BY <1>1 DEF Ahead

(* The five parts of Order hold through such a step: the line,             *)
LEMMA PassesInLine ==
  ASSUME TypeOK, InLine, NEW k, NEW x, NEW n, NEW a, NEW e, NEW b, NEW d, Passes(k, x, n, a, e, b, d),
         UNCHANGED <<pipe, slot>>
  PROVE  InLine'
<1> DEFINE to == <<"given", k + 1>>
<1>1. /\ n \in 0..Len(Pile[x]) /\ x \in HeldPiles /\ b \in Nat
      /\ \A i \in 1..b : d[i] \in 1..n
      /\ \A i, j \in 1..b : i < j => d[i] < d[j]
      /\ Ahead(to, x)
      /\ \A y \in HeldPiles : y \notin {x, to} /\ Pile[y] # <<>> =>
           IF y[2] > k THEN Ahead(y, x) /\ Ahead(y, to) ELSE Ahead(x, y) /\ Ahead(to, y)
  <2>1. n \in 0..Len(Pile[x]) /\ x \in HeldPiles /\ b \in Nat
    BY DEF Passes, HeldPiles
  <2>2. (\A i \in 1..b : d[i] \in 1..n) /\ \A i, j \in 1..b : i < j => d[i] < d[j]
    BY DEF Passes
  <2>3. Ahead(to, x)
    BY SMTT(40) DEF Passes
  <2>4. \A y \in HeldPiles : y \notin {x, to} /\ Pile[y] # <<>> =>
           IF y[2] > k THEN Ahead(y, x) /\ Ahead(y, to) ELSE Ahead(x, y) /\ Ahead(to, y)
    BY Zenon DEF Passes
  <2> QED
    BY <2>1, <2>2, <2>3, <2>4, SMTT(40)
<1>2. \A w \in HeldPiles : \A i \in 1..Len(Pile'[w]) :
        \E u \in HeldPiles : \E g \in 1..Len(Pile[u]) :
          Pile'[w][i] = Pile[u][g] /\ Source(x, to, n, b, d, w, i, u, g)
  BY DEF Passes
<1> HIDE DEF to
<1>3. Depths' = Depths /\ HeldPiles' = HeldPiles
  BY DEF Depths, HeldPiles
<1>4. (\A w \in HeldPiles : Len(Pile[w]) \in Nat) /\ n \in Nat
  BY <1>1, HeldIs
<1>5. ASSUME NEW w \in HeldPiles, NEW v \in HeldPiles, NEW i \in Int, i > 0, NEW j \in Int, j > 0,
             Ahead(w, v) \/ (w = v /\ i < j),
             NEW u \in HeldPiles, NEW g \in 1..Len(Pile[u]), Source(x, to, n, b, d, w, i, u, g),
             NEW t \in HeldPiles, NEW h \in 1..Len(Pile[t]), Source(x, to, n, b, d, v, j, t, h)
      PROVE  Ahead(u, t) \/ (u = t /\ g < h)
  <2>1. g \in Int /\ h \in Int /\ g > 0 /\ h > 0 /\ Pile[u] # <<>> /\ Pile[t] # <<>>
    BY <1>4
  <2>2. CASE w = x
    <3>1. u = x /\ g = i + n
      BY <2>2, <1>5 DEF Source
    <3>2. CASE v = x
      <4>1. t = x /\ h = j + n /\ i < j
        BY <1>5, <2>2, <3>2, AheadIsOneWay DEF Source
      <4> QED
        BY <1>4, <1>5, <3>1, <4>1
    <3>3. CASE v = to /\ v # x
      BY <1>1, <1>5, <2>2, <3>3, AheadIsOneWay
    <3>4. CASE v \notin {x, to}
      <4>1. t = v
        BY <1>5, <3>4 DEF Source
      <4> QED
        BY <1>5, <2>2, <3>1, <3>4, <4>1
    <3> QED
      BY <3>2, <3>3, <3>4
  <2>3. CASE w = to /\ w # x
    <3>1. u = x /\ i \in 1..b /\ g = d[i] /\ g \in 1..n
      BY <1>5, <2>3 DEF Source
    <3>2. CASE v = x
      <4>1. t = x /\ h = j + n
        BY <1>5, <3>2 DEF Source
      <4>2. g <= n /\ n < h
        BY <1>4, <1>5, <3>1, <4>1
      <4> QED
        BY <1>4, <2>1, <3>1, <4>1, <4>2
    <3>3. CASE v = to /\ v # x
      <4>1. t = x /\ j \in 1..b /\ h = d[j]
        BY <1>5, <3>3 DEF Source
      <4>2. i < j
        BY <1>5, <2>3, <3>3, AheadIsOneWay
      <4> QED
        BY <1>1, <3>1, <4>1, <4>2
    <3>4. CASE v \notin {x, to}
      <4>1. t = v
        BY <1>5, <3>4 DEF Source
      <4>2. Ahead(to, v) /\ ~Ahead(v, to)
        BY <1>5, <2>3, <3>4, AheadIsOneWay
      <4>3. Ahead(x, v)
        BY <1>1, <2>1, <3>4, <4>1, <4>2
      <4> QED
        BY <3>1, <4>1, <4>3
    <3> QED
      BY <3>2, <3>3, <3>4
  <2>4. CASE w \notin {x, to}
    <3>1. u = w /\ g = i
      BY <1>5, <2>4 DEF Source
    <3>2. CASE v = x
      <4>1. t = x
        BY <1>5, <3>2 DEF Source
      <4> QED
        BY <1>5, <2>4, <3>1, <3>2, <4>1
    <3>3. CASE v = to /\ v # x
      <4>1. t = x
        BY <1>5, <3>3 DEF Source
      <4>2. Ahead(w, to) /\ ~Ahead(to, w)
        BY <1>5, <2>4, <3>3, AheadIsOneWay
      <4>3. Ahead(w, x)
        BY <1>1, <2>1, <2>4, <3>1, <4>2
      <4> QED
        BY <3>1, <4>1, <4>3
    <3>4. CASE v \notin {x, to}
      <4>1. t = v /\ h = j
        BY <1>5, <3>4 DEF Source
      <4> QED
        BY <1>5, <3>1, <4>1
    <3> QED
      BY <3>2, <3>3, <3>4
  <2> QED
    BY <2>2, <2>3, <2>4
<1> SUFFICES ASSUME NEW w \in HeldPiles, NEW v \in HeldPiles,
                    NEW i \in 1..Len(Pile'[w]), NEW j \in 1..Len(Pile'[v]),
                    Ahead(w, v) \/ (w = v /\ i < j)
             PROVE  slot[Pile'[w][i]].id < slot[Pile'[v][j]].id
  BY <1>3 DEF InLine
<1>6. PICK u \in HeldPiles : \E g \in 1..Len(Pile[u]) :
        Pile'[w][i] = Pile[u][g] /\ Source(x, to, n, b, d, w, i, u, g)
  BY <1>2
<1>7. PICK g \in 1..Len(Pile[u]) :
        Pile'[w][i] = Pile[u][g] /\ Source(x, to, n, b, d, w, i, u, g)
  BY <1>6
<1>8. PICK t \in HeldPiles : \E h \in 1..Len(Pile[t]) :
        Pile'[v][j] = Pile[t][h] /\ Source(x, to, n, b, d, v, j, t, h)
  BY <1>2
<1>9. PICK h \in 1..Len(Pile[t]) :
        Pile'[v][j] = Pile[t][h] /\ Source(x, to, n, b, d, v, j, t, h)
  BY <1>8
<1>10. i \in Int /\ i > 0 /\ j \in Int /\ j > 0
  OBVIOUS
<1>11. Ahead(u, t) \/ (u = t /\ g < h)
  BY <1>5, <1>7, <1>9, <1>10
<1>12. slot[Pile[u][g]].id < slot[Pile[t][h]].id
  BY <1>11 DEF InLine
<1> QED
  BY <1>7, <1>9, <1>12

(* ... the slow ones behind a fastpass,                                    *)
LEMMA PassesSlowBehind ==
  ASSUME TypeOK, SlowBehind, NEW k, NEW x, NEW n, NEW a, NEW e, NEW b, NEW d, Passes(k, x, n, a, e, b, d),
         UNCHANGED <<pipe, slot>>
  PROVE  SlowBehind'
<1> DEFINE to == <<"given", k + 1>>
<1>1. /\ x \in HeldPiles /\ k \in Depths /\ k \in Nat /\ x[2] = k
      /\ pipe[k].work = "fastpass" => \A i \in 1..b : ~slot[Pile[x][d[i]]].fast
  BY DEF Passes, HeldPiles, Depths
<1>2. \A w \in HeldPiles : \A i \in 1..Len(Pile'[w]) :
        \E u \in HeldPiles : \E g \in 1..Len(Pile[u]) :
          Pile'[w][i] = Pile[u][g] /\ Source(x, to, n, b, d, w, i, u, g)
  BY DEF Passes
<1>3. Depths' = Depths /\ HeldPiles' = HeldPiles
  BY DEF Depths, HeldPiles
<1> SUFFICES ASSUME NEW w \in HeldPiles, NEW m \in Depths, m < w[2], pipe[m].work = "fastpass",
                    NEW i \in 1..Len(Pile'[w])
             PROVE  ~slot[Pile'[w][i]].fast
  BY <1>3 DEF SlowBehind
<1>4. PICK u \in HeldPiles : \E g \in 1..Len(Pile[u]) :
        Pile'[w][i] = Pile[u][g] /\ Source(x, to, n, b, d, w, i, u, g)
  BY <1>2
<1>5. PICK g \in 1..Len(Pile[u]) :
        Pile'[w][i] = Pile[u][g] /\ Source(x, to, n, b, d, w, i, u, g)
  BY <1>4
<1>6. CASE u = w
  BY <1>5, <1>6 DEF SlowBehind
<1>7. CASE u # w
  <2>1. w = to /\ u = x /\ i \in 1..b /\ g = d[i]
    BY <1>5, <1>7 DEF Source
  <2>2. m \in Nat /\ m < k + 1
    BY <2>1 DEF Depths
  <2>3. CASE m < k
    BY <1>1, <1>5, <2>1, <2>3 DEF SlowBehind
  <2>4. CASE m = k
    BY <1>1, <1>5, <2>1, <2>4
  <2> QED
    BY <1>1, <2>2, <2>3, <2>4
<1> QED
  BY <1>6, <1>7, SMTT(40)

(* What such a step adds to dropped.                                       *)
LEMMA PassesDropped ==
  ASSUME TypeOK, NEW k, NEW x, NEW n, NEW a, NEW e, NEW b, NEW d, Passes(k, x, n, a, e, b, d)
  PROVE  /\ a \in Nat /\ x \in HeldPiles /\ x[2] = k
         /\ \A q \in 1..a : e[q] \in 1..Len(Pile[x]) /\ e[q] <= n
         /\ Len(dropped') = Len(dropped) + a
         /\ \A l \in 1..Len(dropped) : dropped'[l] = dropped[l]
         /\ \A l \in 1..Len(dropped') : l \notin 1..Len(dropped) =>
              l - Len(dropped) \in 1..a /\ dropped'[l] = slot[Pile[x][e[l - Len(dropped)]]]
         /\ \A q \in 1..a : \E l \in 1..Len(dropped') : dropped'[l] = slot[Pile[x][e[q]]]
<1>1. /\ a \in Nat /\ x \in HeldPiles /\ x[2] = k /\ n \in 0..Len(Pile[x])
      /\ \A q \in 1..a : e[q] \in 1..n
  BY DEF Passes, HeldPiles
<1>2. Pile[x] \in Seq(Slots) /\ dropped \in Seq(Packet) /\ slot \in [Slots -> Packet]
  BY <1>1, PileIs, HeldIs DEF TypeOK
<1>3. Len(Pile[x]) \in Nat /\ n \in Nat /\ n <= Len(Pile[x])
  BY <1>1, <1>2
<1>4. \A q \in 1..a : e[q] \in 1..Len(Pile[x]) /\ e[q] <= n
  BY <1>1, <1>3
<1> DEFINE f == [q \in 1..a |-> slot[Pile[x][e[q]]]]
<1>5. f \in Seq(Packet) /\ Len(f) = a /\ \A q \in 1..a : f[q] = slot[Pile[x][e[q]]]
  BY <1>1, <1>2, <1>4, SMTT(40)
<1>6. dropped' = dropped \o f
  BY DEF Passes
<1> HIDE DEF f
<1>7. /\ Len(dropped') = Len(dropped) + Len(f) /\ Len(dropped) \in Nat
      /\ \A l \in 1..Len(dropped) : dropped'[l] = dropped[l]
      /\ \A q \in 1..Len(f) : dropped'[Len(dropped) + q] = f[q]
  <2> DEFINE s == dropped
             c == dropped'
  <2>1. s \in Seq(Packet) /\ f \in Seq(Packet) /\ c = s \o f
    BY <1>2, <1>5, <1>6
  <2> HIDE DEF s, c
  <2>2. /\ Len(c) = Len(s) + Len(f) /\ Len(s) \in Nat
        /\ \A l \in 1..Len(s) : c[l] = s[l]
        /\ \A q \in 1..Len(f) : c[Len(s) + q] = f[q]
    BY ONLY <2>1
  <2> QED
    BY <2>2 DEF s, c
<1>8. ASSUME NEW l \in 1..Len(dropped'), l \notin 1..Len(dropped)
      PROVE  l - Len(dropped) \in 1..a /\ dropped'[l] = slot[Pile[x][e[l - Len(dropped)]]]
  <2>1. l - Len(dropped) \in 1..a /\ Len(dropped) + (l - Len(dropped)) = l
    BY <1>1, <1>5, <1>7, <1>8
  <2> QED
    BY <1>5, <1>7, <2>1
<1>9. ASSUME NEW q \in 1..a
      PROVE  \E l \in 1..Len(dropped') : dropped'[l] = slot[Pile[x][e[q]]]
  <2>1. Len(dropped) + q \in 1..Len(dropped')
    BY <1>1, <1>5, <1>7
  <2> QED
    BY <1>5, <1>7, <2>1
<1> QED
  BY <1>1, <1>4, <1>5, <1>7, <1>8, <1>9, SMTT(40)

(* ... the order of what is dropped,                                       *)
LEMMA PassesInOrder ==
  ASSUME TypeOK, InLine, DroppedFirst, InOrder,
         NEW k, NEW x, NEW n, NEW a, NEW e, NEW b, NEW d, Passes(k, x, n, a, e, b, d)
  PROVE  InOrder'
<1>1. /\ a \in Nat /\ x \in HeldPiles
      /\ \A q \in 1..a : e[q] \in 1..Len(Pile[x])
      /\ Len(dropped') = Len(dropped) + a
      /\ \A l \in 1..Len(dropped) : dropped'[l] = dropped[l]
      /\ \A l \in 1..Len(dropped') : l \notin 1..Len(dropped) =>
           l - Len(dropped) \in 1..a /\ dropped'[l] = slot[Pile[x][e[l - Len(dropped)]]]
  BY PassesDropped
<1>2. \A q, r \in 1..a : q < r => e[q] < e[r]
  BY DEF Passes
<1>3. Len(dropped) \in Nat
  BY HeldIs
<1> SUFFICES ASSUME NEW l \in 1..Len(dropped'), NEW m \in 1..Len(dropped'), l < m
             PROVE  Leaves(dropped'[l], dropped'[m])
  BY DEF InOrder
<1>4. l \in Int /\ m \in Int /\ l > 0
  BY <1>1, <1>3
<1>5. CASE m \in 1..Len(dropped)
  <2>1. l \in 1..Len(dropped)
    BY <1>3, <1>4, <1>5
  <2> QED
    BY <1>1, <1>5, <2>1 DEF InOrder
<1>6. CASE m \notin 1..Len(dropped) /\ l \in 1..Len(dropped)
  BY <1>1, <1>6 DEF DroppedFirst
<1>7. CASE m \notin 1..Len(dropped) /\ l \notin 1..Len(dropped)
  <2>1. l - Len(dropped) < m - Len(dropped)
    BY <1>3, <1>4
  <2> DEFINE q == l - Len(dropped)
             r == m - Len(dropped)
  <2>2. q \in 1..a /\ r \in 1..a /\ q < r
    BY <1>1, <1>7, <2>1
  <2>3. dropped'[l] = slot[Pile[x][e[q]]] /\ dropped'[m] = slot[Pile[x][e[r]]]
    BY <1>1, <1>7
  <2> HIDE DEF q, r
  <2>4. e[q] < e[r] /\ e[q] \in 1..Len(Pile[x]) /\ e[r] \in 1..Len(Pile[x])
    BY <1>1, <1>2, <2>2
  <2>5. slot[Pile[x][e[q]]].id < slot[Pile[x][e[r]]].id
    BY <1>1, <2>4 DEF InLine
  <2> QED
    BY <2>3, <2>5 DEF Leaves
<1> QED
  BY <1>5, <1>6, <1>7

(* ... what is dropped may leave before what is held: a drop is the        *)
(* deepest element, and behind a fastpass all are slow,                    *)
LEMMA PassesDroppedFirst ==
  ASSUME TypeOK, InLine, DroppedFirst, SlowBehind,
         NEW k, NEW x, NEW n, NEW a, NEW e, NEW b, NEW d, Passes(k, x, n, a, e, b, d),
         UNCHANGED <<pipe, slot>>
  PROVE  DroppedFirst'
<1> DEFINE to == <<"given", k + 1>>
<1>1. /\ a \in Nat /\ x \in HeldPiles
      /\ \A q \in 1..a : e[q] \in 1..Len(Pile[x]) /\ e[q] <= n
      /\ \A l \in 1..Len(dropped) : dropped'[l] = dropped[l]
      /\ \A l \in 1..Len(dropped') : l \notin 1..Len(dropped) =>
           l - Len(dropped) \in 1..a /\ dropped'[l] = slot[Pile[x][e[l - Len(dropped)]]]
  <2>1. a \in Nat /\ x \in HeldPiles
    BY PassesDropped
  <2>2. \A q \in 1..a : e[q] \in 1..Len(Pile[x]) /\ e[q] <= n
    BY PassesDropped
  <2>3. \A l \in 1..Len(dropped) : dropped'[l] = dropped[l]
    BY PassesDropped
  <2>4. \A l \in 1..Len(dropped') : l \notin 1..Len(dropped) =>
           l - Len(dropped) \in 1..a /\ dropped'[l] = slot[Pile[x][e[l - Len(dropped)]]]
    BY PassesDropped
  <2> QED
    BY <2>1, <2>2, <2>3, <2>4
<1>2. \A w \in HeldPiles : \A i \in 1..Len(Pile'[w]) :
        \E u \in HeldPiles : \E g \in 1..Len(Pile[u]) :
          Pile'[w][i] = Pile[u][g] /\ Source(x, to, n, b, d, w, i, u, g)
  BY DEF Passes
<1>3. Depths' = Depths /\ HeldPiles' = HeldPiles
  BY DEF Depths, HeldPiles
<1>4. /\ b \in Nat /\ n \in 0..Len(Pile[x]) /\ k \in Depths
      /\ \A q \in 1..a, j \in 1..b : e[q] # d[j]
      /\ \/ a = 0 /\ pipe[k].work # "fastpass"
         \/ b = 0 /\ k = Len(pipe) /\ pipe[k].work # "fastpass"
         \/ /\ pipe[k].work = "fastpass"
            /\ \A i \in 1..a : slot[Pile[x][e[i]]].fast
            /\ \A i \in 1..b : ~slot[Pile[x][d[i]]].fast
  BY DEF Passes
<1>5. \A y \in HeldPiles : y \notin {x, to} /\ Pile[y] # <<>> =>
        IF y[2] > k THEN Ahead(y, x) /\ Ahead(y, to) ELSE Ahead(x, y) /\ Ahead(to, y)
  BY Zenon DEF Passes
<1>6. /\ \A w \in HeldPiles : Len(Pile[w]) \in Nat /\ w[2] \in Depths
      /\ \A w \in HeldPiles : \A i \in 1..Len(Pile[w]) : slot[Pile[w][i]].id \in Nat
  BY HeldIs
<1> HIDE DEF to
<1>7. ASSUME NEW q \in 1..a, NEW w \in HeldPiles, NEW i \in 1..Len(Pile'[w]), i \in Int, i > 0
      PROVE  Leaves(slot[Pile[x][e[q]]], slot[Pile'[w][i]])
  <2>1. PICK u \in HeldPiles : \E g \in 1..Len(Pile[u]) :
          Pile'[w][i] = Pile[u][g] /\ Source(x, to, n, b, d, w, i, u, g)
    BY <1>2
  <2>2. PICK g \in 1..Len(Pile[u]) :
          Pile'[w][i] = Pile[u][g] /\ Source(x, to, n, b, d, w, i, u, g)
    BY <2>1
  <2> DEFINE p == e[q]
  <2>3. p \in 1..Len(Pile[x]) /\ p <= n /\ n \in Nat /\ Len(Pile[x]) \in Nat /\ Len(Pile[u]) \in Nat
    BY <1>1, <1>4, <1>6
  <2> HIDE DEF p
  <2>4. CASE u = x /\ g = i + n
    <3>1. p < g
      BY <1>7, <2>3, <2>4
    <3>2. slot[Pile[x][p]].id < slot[Pile[x][g]].id
      BY <1>1, <2>2, <2>3, <2>4, <3>1 DEF InLine
    <3> QED
      BY <2>2, <2>4, <3>2 DEF Leaves, p
  <2>5. CASE i \in 1..b /\ u = x /\ g = d[i]
    <3>1. g # p /\ slot[Pile[x][p]].fast /\ ~slot[Pile[x][g]].fast
      <4>1. a # 0 /\ b # 0
        BY <1>1, <1>4, <2>5
      <4> QED
        BY <1>4, <2>5, <4>1 DEF p
    <3>2. p < g \/ g < p
      BY <2>3, <3>1
    <3>3. \/ slot[Pile[x][p]].id < slot[Pile[x][g]].id
          \/ slot[Pile[x][g]].id < slot[Pile[x][p]].id
      BY <1>1, <2>2, <2>3, <2>5, <3>2 DEF InLine
    <3>4. slot[Pile[x][p]].id \in Nat /\ slot[Pile[x][g]].id \in Nat
      BY <1>1, <1>6, <2>2, <2>3, <2>5
    <3>5. slot[Pile[x][g]].id < slot[Pile[x][p]].id => slot[Pile[x][p]].id > slot[Pile[x][g]].id
      BY <3>4
    <3> QED
      BY <2>2, <2>5, <3>1, <3>3, <3>5 DEF Leaves, p
  <2>6. CASE w \notin {x, to} /\ u = w /\ g = i
    <3>1. Pile[u] # <<>>
      BY <2>3
    <3>2. CASE u[2] > k
      <4>1. Ahead(u, x)
        BY <1>5, <2>6, <3>1, <3>2
      <4>2. k # Len(pipe)
        BY <1>6, <3>2 DEF Depths
      <4>3. a # 0
        BY <1>1
      <4>4. pipe[k].work = "fastpass" /\ slot[Pile[x][p]].fast
        BY <1>4, <4>2, <4>3 DEF p
      <4>5. k < u[2]
        BY <1>4, <1>6, <3>2 DEF Depths
      <4>6. ~slot[Pile[u][g]].fast
        BY <1>4, <4>4, <4>5 DEF SlowBehind
      <4>7. slot[Pile[u][g]].id < slot[Pile[x][p]].id
        BY <1>1, <2>3, <4>1 DEF InLine
      <4>8. slot[Pile[x][p]].id \in Nat /\ slot[Pile[u][g]].id \in Nat
        BY <1>1, <1>6, <2>2, <2>3
      <4>9. slot[Pile[x][p]].id > slot[Pile[u][g]].id
        BY <4>7, <4>8
      <4> QED
        BY <2>2, <4>4, <4>6, <4>9 DEF Leaves, p
    <3>3. CASE ~(u[2] > k)
      <4>1. Ahead(x, u)
        BY <1>5, <2>6, <3>1, <3>3
      <4>2. slot[Pile[x][p]].id < slot[Pile[u][g]].id
        BY <1>1, <2>3, <4>1 DEF InLine
      <4> QED
        BY <2>2, <4>2 DEF Leaves, p
    <3> QED
      BY <3>2, <3>3
  <2> QED
    BY <2>2, <2>4, <2>5, <2>6 DEF Source
<1>8. ASSUME NEW l \in 1..Len(dropped), NEW w \in HeldPiles, NEW i \in 1..Len(Pile'[w])
      PROVE  Leaves(dropped[l], slot[Pile'[w][i]])
  <2>1. PICK u \in HeldPiles : \E g \in 1..Len(Pile[u]) : Pile'[w][i] = Pile[u][g]
    BY <1>2
  <2> QED
    BY <2>1 DEF DroppedFirst
<1> SUFFICES ASSUME NEW l \in 1..Len(dropped'), NEW w \in HeldPiles, NEW i \in 1..Len(Pile'[w])
             PROVE  Leaves(dropped'[l], slot[Pile'[w][i]])
  BY <1>3 DEF DroppedFirst, Leaves
<1>9. i \in Int /\ i > 0
  OBVIOUS
<1>10. CASE l \in 1..Len(dropped)
  BY <1>1, <1>8, <1>10
<1>11. CASE l \notin 1..Len(dropped)
  <2> DEFINE q == l - Len(dropped)
  <2>1. q \in 1..a /\ dropped'[l] = slot[Pile[x][e[q]]]
    BY <1>1, <1>11
  <2> HIDE DEF q
  <2> QED
    BY <1>7, <1>9, <2>1
<1> QED
  BY <1>10, <1>11

(* ... and the numbers.                                                    *)
LEMMA PassesNumbered ==
  ASSUME TypeOK, Numbered, Accounted,
         NEW k, NEW x, NEW n, NEW a, NEW e, NEW b, NEW d, Passes(k, x, n, a, e, b, d),
         UNCHANGED <<pipe, slot, received>>
  PROVE  Numbered' /\ Accounted'
<1>1. /\ a \in Nat /\ x \in HeldPiles
      /\ \A q \in 1..a : e[q] \in 1..Len(Pile[x])
      /\ Len(dropped') = Len(dropped) + a
      /\ \A l \in 1..Len(dropped) : dropped'[l] = dropped[l]
      /\ \A l \in 1..Len(dropped') : l \notin 1..Len(dropped) =>
           l - Len(dropped) \in 1..a /\ dropped'[l] = slot[Pile[x][e[l - Len(dropped)]]]
      /\ \A q \in 1..a : \E l \in 1..Len(dropped') : dropped'[l] = slot[Pile[x][e[q]]]
  BY PassesDropped
<1>2. /\ \A w \in HeldPiles : \A i \in 1..Len(Pile'[w]) :
           \E u \in HeldPiles : \E g \in 1..Len(Pile[u]) : Pile'[w][i] = Pile[u][g]
      /\ \A u \in HeldPiles : \A g \in 1..Len(Pile[u]) :
          \/ u = x /\ \E i \in 1..a : e[i] = g
          \/ \E w \in HeldPiles : \E i \in 1..Len(Pile'[w]) : Pile'[w][i] = Pile[u][g]
  <2>1. \A w \in HeldPiles : \A i \in 1..Len(Pile'[w]) :
          \E u \in HeldPiles : \E g \in 1..Len(Pile[u]) : Pile'[w][i] = Pile[u][g]
    <3>1. \A w \in HeldPiles : \A i \in 1..Len(Pile'[w]) :
            \E u \in HeldPiles : \E g \in 1..Len(Pile[u]) :
              Pile'[w][i] = Pile[u][g] /\ Source(x, <<"given", k + 1>>, n, b, d, w, i, u, g)
      BY Zenon DEF Passes
    <3> SUFFICES ASSUME NEW w \in HeldPiles, NEW i \in 1..Len(Pile'[w])
                 PROVE  \E u \in HeldPiles : \E g \in 1..Len(Pile[u]) : Pile'[w][i] = Pile[u][g]
      OBVIOUS
    <3>2. PICK u \in HeldPiles : \E g \in 1..Len(Pile[u]) :
            Pile'[w][i] = Pile[u][g] /\ Source(x, <<"given", k + 1>>, n, b, d, w, i, u, g)
      BY ONLY <3>1, w \in HeldPiles, i \in 1..Len(Pile'[w])
    <3> QED
      BY ONLY <3>2, u \in HeldPiles
  <2>2. \A u \in HeldPiles : \A g \in 1..Len(Pile[u]) :
          \/ u = x /\ \E i \in 1..a : e[i] = g
          \/ \E w \in HeldPiles : \E i \in 1..Len(Pile'[w]) : Pile'[w][i] = Pile[u][g]
    BY Zenon DEF Passes
  <2> QED
    BY <2>1, <2>2
<1>3. Depths' = Depths /\ HeldPiles' = HeldPiles /\ Len(dropped) \in Nat
  BY HeldIs DEF Depths, HeldPiles
<1>4. Numbered'
  <2>1. ASSUME NEW w \in HeldPiles, NEW i \in 1..Len(Pile'[w])
        PROVE  slot[Pile'[w][i]].id \in 1..received
    <3>1. PICK u \in HeldPiles : \E g \in 1..Len(Pile[u]) : Pile'[w][i] = Pile[u][g]
      BY <1>2
    <3> QED
      BY <3>1 DEF Numbered
  <2>2. ASSUME NEW l \in 1..Len(dropped') PROVE dropped'[l].id \in 1..received
    <3>1. CASE l \in 1..Len(dropped)
      BY <1>1, <3>1 DEF Numbered
    <3>2. CASE l \notin 1..Len(dropped)
      <4> DEFINE q == l - Len(dropped)
      <4>1. q \in 1..a /\ dropped'[l] = slot[Pile[x][e[q]]]
        BY <1>1, <3>2
      <4> HIDE DEF q
      <4> QED
        BY <1>1, <4>1 DEF Numbered
    <3> QED
      BY <3>1, <3>2
  <2> QED
    BY <1>3, <2>1, <2>2 DEF Numbered
<1>5. Accounted'
  <2> SUFFICES ASSUME NEW id \in 1..received
               PROVE  \/ \E l \in 1..Len(dropped') : dropped'[l].id = id
                      \/ \E w \in HeldPiles : \E i \in 1..Len(Pile'[w]) : slot[Pile'[w][i]].id = id
    BY <1>3 DEF Accounted
  <2>1. CASE \E l \in 1..Len(dropped) : dropped[l].id = id
    <3>1. PICK l \in 1..Len(dropped) : dropped[l].id = id
      BY <2>1
    <3>2. l \in 1..Len(dropped')
      BY <1>1, <1>3
    <3> QED
      BY <1>1, <3>1, <3>2
  <2>2. CASE \E u \in HeldPiles : \E g \in 1..Len(Pile[u]) : slot[Pile[u][g]].id = id
    <3>1. PICK u \in HeldPiles : \E g \in 1..Len(Pile[u]) : slot[Pile[u][g]].id = id
      BY <2>2
    <3>2. PICK g \in 1..Len(Pile[u]) : slot[Pile[u][g]].id = id
      BY <3>1
    <3>3. CASE u = x /\ \E q \in 1..a : e[q] = g
      BY <1>1, <3>2, <3>3
    <3>4. CASE \E w \in HeldPiles : \E i \in 1..Len(Pile'[w]) : Pile'[w][i] = Pile[u][g]
      BY <3>2, <3>4
    <3> QED
      BY <1>2, <3>3, <3>4
  <2> QED
    BY <2>1, <2>2 DEF Accounted
<1> QED
  BY <1>4, <1>5

(* What keeps the packets in order, as it is carried from step to step.    *)
Order == InLine /\ DroppedFirst /\ InOrder /\ SlowBehind /\ Numbered /\ Accounted

(* Order holds through every step that works,                              *)
LEMMA WorkOrder ==
  ASSUME Core, Slotted, Order, NEW k, NEW x, NEW n, NEW acts, Working(k, x, n, acts)
  PROVE  Order'
<1>1. TypeOK /\ UNCHANGED <<pipe, slot, received>>
  BY DEF Core, Working
<1>2. PICK a, e, b, d : Passes(k, x, n, a, e, b, d)
  BY WorkPasses
<1>3. InLine' /\ SlowBehind'
  BY <1>1, <1>2, PassesInLine, PassesSlowBehind DEF Order
<1>4. DroppedFirst' /\ InOrder'
  BY <1>1, <1>2, PassesDroppedFirst, PassesInOrder DEF Order
<1>5. Numbered' /\ Accounted'
  BY <1>1, <1>2, PassesNumbered DEF Order
<1> QED
  BY <1>3, <1>4, <1>5 DEF Order

(* Where the i-th of pile w was before the first of pile x was put onto    *)
(* the l of pile y.                                                        *)
PutSource(x, y, l, w, i, u, g) ==
  \/ w = y /\ i <= l /\ u = y /\ g = i
  \/ w = y /\ i = l + 1 /\ u = x /\ g = 1
  \/ w = x /\ u = x /\ g = i + 1
  \/ w \notin {x, y} /\ u = w /\ g = i

(* Where the packets were before Put, and where they went.                 *)
LEMMA PutSources ==
  ASSUME TypeOK, NEW x \in HeldPiles, NEW y \in HeldPiles, NEW n \in {1}, Moves(Pile, Pile', x, y, n)
  PROVE  /\ \A w \in HeldPiles : \A i \in 1..Len(Pile'[w]) :
              \E u \in HeldPiles : \E g \in 1..Len(Pile[u]) :
                Pile'[w][i] = Pile[u][g] /\ PutSource(x, y, Len(Pile[y]), w, i, u, g)
         /\ \A u \in HeldPiles : \A g \in 1..Len(Pile[u]) :
              \E w \in HeldPiles : \E i \in 1..Len(Pile'[w]) : Pile'[w][i] = Pile[u][g]
<1>1. HeldPiles \subseteq Piles /\ DOMAIN Pile = Piles /\ \A w \in HeldPiles : Len(Pile[w]) \in Nat
  BY HeldIs, PileIs
<1>2. x # y /\ n \in Nat /\ n = 1 /\ n <= Len(Pile[x])
  BY <1>1 DEF Moves
<1> DEFINE l == Len(Pile[y])
<1>3. l \in Nat
  BY <1>1
<1> HIDE DEF l
<1>4. Moved(Pile, Pile', x, y, n)
  BY MovesMoved
<1>5. /\ Len(Pile'[x]) = Len(Pile[x]) - n /\ \A j \in 1..Len(Pile'[x]) : Pile'[x][j] = Pile[x][j + n]
      /\ Len(Pile'[y]) = l + n /\ \A j \in 1..n : Pile'[y][l + j] = Pile[x][j]
  BY <1>4 DEF Moved, l
<1>6. \A j \in 1..l : Pile'[y][j] = Pile[y][j]
  BY MovesIs DEF l
<1>7. \A w \in HeldPiles : w \notin {x, y} => Pile'[w] = Pile[w]
  BY <1>1 DEF Moves
<1>8. ASSUME NEW w \in HeldPiles, NEW i \in 1..Len(Pile'[w])
      PROVE  \E u \in HeldPiles : \E g \in 1..Len(Pile[u]) :
               Pile'[w][i] = Pile[u][g] /\ PutSource(x, y, l, w, i, u, g)
  <2>1. CASE w = y /\ i <= l
    <3>1. i \in 1..l /\ i \in 1..Len(Pile[y])
      BY <1>2, <1>3, <1>5, <2>1 DEF l
    <3> QED
      BY <1>6, <2>1, <3>1 DEF PutSource
  <2>2. CASE w = y /\ ~(i <= l)
    <3>1. i = l + n /\ n \in 1..n /\ n \in 1..Len(Pile[x])
      BY <1>1, <1>2, <1>3, <1>5, <2>2
    <3>2. Pile'[w][i] = Pile[x][n]
      BY <1>5, <2>2, <3>1
    <3> QED
      BY <1>2, <2>2, <3>1, <3>2 DEF PutSource
  <2>3. CASE w = x
    <3>1. i + n \in 1..Len(Pile[x]) /\ Pile'[w][i] = Pile[x][i + n]
      BY <1>1, <1>2, <1>5, <2>3
    <3> QED
      BY <1>2, <2>3, <3>1 DEF PutSource
  <2>4. CASE w \notin {x, y}
    BY <1>7, <2>4 DEF PutSource
  <2> QED
    BY <2>1, <2>2, <2>3, <2>4
<1>9. ASSUME NEW u \in HeldPiles, NEW g \in 1..Len(Pile[u])
      PROVE  \E w \in HeldPiles : \E i \in 1..Len(Pile'[w]) : Pile'[w][i] = Pile[u][g]
  <2>1. CASE u = x /\ g = n
    <3>1. l + g \in 1..Len(Pile'[y]) /\ g \in 1..n
      BY <1>2, <1>3, <1>5, <2>1
    <3> QED
      BY <1>5, <2>1, <3>1
  <2>2. CASE u = x /\ g # n
    <3>1. g - n \in 1..Len(Pile'[x]) /\ (g - n) + n = g
      BY <1>1, <1>2, <1>5, <2>2
    <3>2. Pile'[x][g - n] = Pile[x][g]
      BY <1>5, <3>1
    <3> QED
      BY <2>2, <3>1, <3>2
  <2>3. CASE u = y
    <3>1. g \in 1..l /\ g \in 1..Len(Pile'[y])
      BY <1>2, <1>3, <1>5, <2>3 DEF l
    <3> QED
      BY <1>6, <2>3, <3>1
  <2>4. CASE u \notin {x, y}
    BY <1>7, <2>4
  <2> QED
    BY <2>1, <2>2, <2>3, <2>4
<1> QED
  BY <1>8, <1>9 DEF l

(* ... through Put, for the buffer of an element is right ahead of its     *)
(* batch,                                                                  *)
LEMMA PutOrder ==
  ASSUME Core, Order, NEW k \in Depths, Runs(k), Put(k),
         UNCHANGED <<pipe, slot, released, received, status>>
  PROVE  Order'
<1> DEFINE x == <<"given", k>>
           y == <<"buf", k>>
           l == Len(Pile[y])
<1>1. TypeOK /\ x \in HeldPiles /\ y \in HeldPiles /\ x[2] = y[2] /\ Moves(Pile, Pile', x, y, 1)
  BY PutMoves DEF Core, HeldPiles
<1>2. Depths' = Depths /\ HeldPiles' = HeldPiles /\ UNCHANGED <<pipe, slot, received, dropped>>
  BY DEF Depths, HeldPiles, Put
<1>3. \A w \in HeldPiles : w \notin {x, y} => ((Ahead(w, y) => Ahead(w, x)) /\ (Ahead(y, w) => Ahead(x, w)))
  <2> SUFFICES ASSUME NEW w \in HeldPiles, w \notin {x, y}
               PROVE  (Ahead(w, y) => Ahead(w, x)) /\ (Ahead(y, w) => Ahead(x, w))
    OBVIOUS
  <2>1. PICK m \in Depths : w = <<"buf", m>> \/ w = <<"given", m>>
    BY DEF HeldPiles
  <2>2. m \in Nat /\ k \in Nat /\ m # k
    BY <2>1 DEF Depths
  <2> QED
    BY <2>1, <2>2 DEF Ahead
<1>4. Ahead(y, x) /\ ~Ahead(x, y)
  BY DEF Ahead, Depths
<1>5. /\ \A w \in HeldPiles : \A i \in 1..Len(Pile'[w]) :
           \E u \in HeldPiles : \E g \in 1..Len(Pile[u]) :
             Pile'[w][i] = Pile[u][g] /\ PutSource(x, y, l, w, i, u, g)
      /\ \A u \in HeldPiles : \A g \in 1..Len(Pile[u]) :
           \E w \in HeldPiles : \E i \in 1..Len(Pile'[w]) : Pile'[w][i] = Pile[u][g]
  <2> HIDE DEF x, y
  <2> QED
    BY <1>1, PutSources
<1>6. l \in Nat
  BY <1>1, HeldIs
<1> HIDE DEF x, y, l
<1>7. InLine'
  <2>1. ASSUME NEW w \in HeldPiles, NEW v \in HeldPiles, NEW i \in Int, i > 0, NEW j \in Int, j > 0,
               Ahead(w, v) \/ (w = v /\ i < j),
               NEW u, NEW g, PutSource(x, y, l, w, i, u, g),
               NEW t, NEW h, PutSource(x, y, l, v, j, t, h)
        PROVE  Ahead(u, t) \/ (u = t /\ g < h)
    <3>1. ~Ahead(x, x) /\ ~Ahead(y, y)
      BY <1>1, AheadIsOneWay
    <3>2. CASE w = x
      <4>1. u = x /\ g = i + 1
        BY <1>1, <1>4, <2>1, <3>2 DEF PutSource
      <4>2. CASE v = x
        <5>1. t = x /\ h = j + 1 /\ i < j
          BY <1>1, <1>4, <2>1, <3>1, <3>2, <4>2 DEF PutSource
        <5> QED
          BY <2>1, <4>1, <5>1
      <4>3. CASE v = y
        BY <1>4, <2>1, <3>1, <3>2, <4>3
      <4>4. CASE v \notin {x, y}
        <5>1. t = v /\ Ahead(x, v)
          BY <2>1, <3>2, <4>4 DEF PutSource
        <5> QED
          BY <4>1, <5>1
      <4> QED
        BY <4>2, <4>3, <4>4
    <3>3. CASE w = y
      <4>1. \/ u = y /\ g = i /\ i <= l
            \/ u = x /\ g = 1 /\ i = l + 1
        BY <1>1, <1>4, <2>1, <3>1, <3>3 DEF PutSource
      <4>2. CASE v = x
        <5>1. t = x /\ h = j + 1 /\ h > 1
          BY <1>1, <1>4, <2>1, <3>1, <4>2 DEF PutSource
        <5> QED
          BY <1>4, <4>1, <5>1
      <4>3. CASE v = y
        <5>1. \/ t = y /\ h = j /\ j <= l
              \/ t = x /\ h = 1 /\ j = l + 1
          BY <1>1, <1>4, <2>1, <3>1, <4>3 DEF PutSource
        <5>2. i < j
          BY <2>1, <3>1, <3>3, <4>3
        <5> QED
          BY <1>4, <1>6, <2>1, <4>1, <5>1, <5>2
      <4>4. CASE v \notin {x, y}
        <5>1. t = v /\ Ahead(y, v) /\ Ahead(x, v)
          BY <1>3, <2>1, <3>3, <4>4 DEF PutSource
        <5> QED
          BY <4>1, <5>1
      <4> QED
        BY <4>2, <4>3, <4>4
    <3>4. CASE w \notin {x, y}
      <4>1. u = w /\ g = i
        BY <2>1, <3>4 DEF PutSource
      <4>2. CASE v \in {x, y}
        <5>1. Ahead(w, x) \/ Ahead(w, y)
          BY <2>1, <3>4, <4>2
        <5>2. CASE v = x
          <6>1. t = x
            BY <1>1, <1>4, <2>1, <3>1, <5>2 DEF PutSource
          <6> QED
            BY <2>1, <3>4, <4>1, <5>2, <6>1
        <5>3. CASE v = y
          <6>1. t \in {x, y} /\ Ahead(w, y) /\ Ahead(w, x)
            BY <1>3, <2>1, <3>4, <5>3 DEF PutSource
          <6> QED
            BY <4>1, <6>1
        <5> QED
          BY <4>2, <5>2, <5>3
      <4>3. CASE v \notin {x, y}
        <5>1. t = v /\ h = j
          BY <2>1, <4>3 DEF PutSource
        <5> QED
          BY <2>1, <4>1, <5>1
      <4> QED
        BY <4>2, <4>3
    <3> QED
      BY <3>2, <3>3, <3>4
  <2> SUFFICES ASSUME NEW w \in HeldPiles, NEW v \in HeldPiles,
                      NEW i \in 1..Len(Pile'[w]), NEW j \in 1..Len(Pile'[v]),
                      Ahead(w, v) \/ (w = v /\ i < j)
               PROVE  slot[Pile'[w][i]].id < slot[Pile'[v][j]].id
    BY <1>2 DEF InLine
  <2>2. PICK u \in HeldPiles : \E g \in 1..Len(Pile[u]) :
          Pile'[w][i] = Pile[u][g] /\ PutSource(x, y, l, w, i, u, g)
    BY <1>5
  <2>3. PICK g \in 1..Len(Pile[u]) :
          Pile'[w][i] = Pile[u][g] /\ PutSource(x, y, l, w, i, u, g)
    BY <2>2
  <2>4. PICK t \in HeldPiles : \E h \in 1..Len(Pile[t]) :
          Pile'[v][j] = Pile[t][h] /\ PutSource(x, y, l, v, j, t, h)
    BY <1>5
  <2>5. PICK h \in 1..Len(Pile[t]) :
          Pile'[v][j] = Pile[t][h] /\ PutSource(x, y, l, v, j, t, h)
    BY <2>4
  <2>6. i \in Int /\ i > 0 /\ j \in Int /\ j > 0
    OBVIOUS
  <2>7. Ahead(u, t) \/ (u = t /\ g < h)
    BY <2>1, <2>3, <2>5, <2>6
  <2>8. slot[Pile[u][g]].id < slot[Pile[t][h]].id
    BY <2>7 DEF InLine, Order
  <2> QED
    BY <2>3, <2>5, <2>8
<1>8. \A w \in HeldPiles : \A i \in 1..Len(Pile'[w]) :
        \E u \in HeldPiles : \E g \in 1..Len(Pile[u]) : Pile'[w][i] = Pile[u][g] /\ u[2] = w[2]
  <2> SUFFICES ASSUME NEW w \in HeldPiles, NEW i \in 1..Len(Pile'[w])
               PROVE  \E u \in HeldPiles : \E g \in 1..Len(Pile[u]) : Pile'[w][i] = Pile[u][g] /\ u[2] = w[2]
    OBVIOUS
  <2>1. PICK u \in HeldPiles : \E g \in 1..Len(Pile[u]) :
          Pile'[w][i] = Pile[u][g] /\ PutSource(x, y, l, w, i, u, g)
    BY <1>5
  <2>2. u = w \/ (u \in {x, y} /\ w \in {x, y})
    BY <2>1 DEF PutSource
  <2>3. u[2] = w[2]
    BY <1>1, <2>2
  <2> QED
    BY <2>1, <2>3
<1>9. DroppedFirst' /\ InOrder'
  <2>1. ASSUME NEW m \in 1..Len(dropped), NEW w \in HeldPiles, NEW i \in 1..Len(Pile'[w])
        PROVE  Leaves(dropped[m], slot[Pile'[w][i]])
    <3>1. PICK u \in HeldPiles : \E g \in 1..Len(Pile[u]) : Pile'[w][i] = Pile[u][g]
      BY <1>8
    <3> QED
      BY <3>1 DEF Order, DroppedFirst
  <2>2. DroppedFirst'
    BY <1>2, <2>1 DEF DroppedFirst, Leaves
  <2> QED
    BY <1>2, <2>2 DEF Order, InOrder, Leaves
<1>10. SlowBehind'
  <2> SUFFICES ASSUME NEW w \in HeldPiles, NEW m \in Depths, m < w[2], pipe[m].work = "fastpass",
                      NEW i \in 1..Len(Pile'[w])
               PROVE  ~slot[Pile'[w][i]].fast
    BY <1>2 DEF SlowBehind
  <2>1. PICK u \in HeldPiles : \E g \in 1..Len(Pile[u]) : Pile'[w][i] = Pile[u][g] /\ u[2] = w[2]
    BY <1>8
  <2> QED
    BY <2>1 DEF Order, SlowBehind
<1>11. Numbered'
  <2>1. ASSUME NEW w \in HeldPiles, NEW i \in 1..Len(Pile'[w])
        PROVE  slot[Pile'[w][i]].id \in 1..received
    <3>1. PICK u \in HeldPiles : \E g \in 1..Len(Pile[u]) : Pile'[w][i] = Pile[u][g]
      BY <1>8
    <3> QED
      BY <3>1 DEF Order, Numbered
  <2> QED
    BY <1>2, <2>1 DEF Order, Numbered
<1>12. Accounted'
  <2> SUFFICES ASSUME NEW id \in 1..received
               PROVE  \/ \E m \in 1..Len(dropped) : dropped[m].id = id
                      \/ \E w \in HeldPiles : \E i \in 1..Len(Pile'[w]) : slot[Pile'[w][i]].id = id
    BY <1>2 DEF Accounted
  <2>1. CASE \E u \in HeldPiles : \E g \in 1..Len(Pile[u]) : slot[Pile[u][g]].id = id
    <3>1. PICK u \in HeldPiles : \E g \in 1..Len(Pile[u]) : slot[Pile[u][g]].id = id
      BY <2>1
    <3>2. PICK g \in 1..Len(Pile[u]) : slot[Pile[u][g]].id = id
      BY <3>1
    <3>3. \E w \in HeldPiles : \E i \in 1..Len(Pile'[w]) : Pile'[w][i] = Pile[u][g]
      BY <1>5
    <3> QED
      BY <3>2, <3>3
  <2> QED
    BY <2>1 DEF Order, Accounted
<1> QED
  BY <1>7, <1>9, <1>10, <1>11, <1>12 DEF Order

(* A burst is behind everything else, in slots that nothing else is in.    *)
LEMMA BurstSlots ==
  ASSUME Core, Slotted, Numbered, NEW n \in 1..RxBurst, Burst(n)
  PROVE  LET y == <<"given", 1>>
         IN /\ y \in HeldPiles /\ Len(Pile'[y]) = n /\ n \in Nat /\ received' = received + n
            /\ \A i \in 1..n : slot'[Pile'[y][i]].id = received + i
            /\ \A w \in HeldPiles : w # y => Pile'[w] = Pile[w]
            /\ \A w \in HeldPiles : \A i \in 1..Len(Pile[w]) : slot'[Pile[w][i]] = slot[Pile[w][i]]
            /\ \A w \in HeldPiles : Pile[w] # <<>> => Ahead(w, y)
            /\ Pile[y] = <<>>
<1> DEFINE y == <<"given", 1>>
<1>1. TypeOK /\ Conserved(Pile)
  BY DEF Core, Slotted
<1>2. y \in HeldPiles /\ Len(pipe) \in Nat
  <2>1. Len(pipe) \in Nat \ {0} /\ Depths = 1..Len(pipe)
    BY <1>1, Pipe
  <2> QED
    BY <2>1 DEF HeldPiles
<1>3. HeldPiles \subseteq Piles /\ Ring \notin HeldPiles /\ DOMAIN Pile = Piles /\ Pile[Ring] = ring /\ Ring \in Piles
  BY <1>1, HeldIs, PileIs
<1>4. /\ \A k \in Depths : Pile[<<"given", k>>] = <<>>
      /\ \A w \in HeldPiles : Pile[w] # <<>> => \E k \in Depths : w = <<"buf", k>>
  <2>1. \A k \in Depths : Pile[<<"given", k>>] = <<>>
    BY <1>1, PileIs DEF Core, Calls, Burst, Idle
  <2> QED
    BY <2>1 DEF HeldPiles
<1>5. \A w \in HeldPiles : Pile[w] # <<>> => Ahead(w, y)
  <2> SUFFICES ASSUME NEW w \in HeldPiles, Pile[w] # <<>> PROVE Ahead(w, y)
    OBVIOUS
  <2>1. PICK k \in Depths : w = <<"buf", k>>
    BY <1>4
  <2>2. k \in Nat /\ k >= 1
    BY DEF Depths
  <2> QED
    BY <2>1, <2>2 DEF Ahead
<1>6. Moves(Pile, Pile', Ring, y, n) /\ Pile[y] = <<>>
  BY BurstMoves
<1> HIDE DEF y
<1>7. \A w \in HeldPiles : w # y => Pile'[w] = Pile[w]
  BY <1>3, <1>6 DEF Moves
<1>8. n \in 0..Len(ring) /\ Len(ring) \in Nat /\ n \in Nat
  <2>1. n \in 0..Len(ring)
    BY <1>3, <1>6 DEF Moves
  <2>2. Len(ring) \in Nat
    BY <1>1 DEF TypeOK
  <2> QED
    BY <2>1, <2>2
<1>9. Len(Pile'[y]) = n /\ \A i \in 1..n : Pile'[y][i] = ring[i]
  <2>1. Moved(Pile, Pile', Ring, y, n)
    BY <1>6, MovesMoved
  <2>2. Len(Pile'[y]) = Len(Pile[y]) + n /\ \A i \in 1..n : Pile'[y][Len(Pile[y]) + i] = Pile[Ring][i]
    BY <2>1 DEF Moved
  <2>3. Len(Pile[y]) = 0
    BY <1>6
  <2>4. \A i \in 1..n : 0 + i = i
    BY <1>8
  <2> QED
    BY <1>3, <1>8, <2>2, <2>3, <2>4
<1>10. PICK fast : slot' = [p \in Slots |->
         IF \E i \in 1..n : ring[i] = p
         THEN LET i == CHOOSE i \in 1..n : ring[i] = p
              IN [id |-> received + i, fast |-> fast[i]]
         ELSE slot[p]]
  BY DEF Burst, Mtop
<1>11. ring \in Seq(Slots) /\ slot \in [Slots -> Packet]
  BY <1>1 DEF TypeOK
<1>12. \A i, j \in 1..Len(ring) : ring[i] = ring[j] => i = j
  BY <1>1, <1>3 DEF Conserved, Distinct
<1>13. ASSUME NEW i \in 1..n PROVE slot'[ring[i]].id = received + i
  <2> DEFINE c == CHOOSE j \in 1..n : ring[j] = ring[i]
  <2>1. c \in 1..n /\ ring[c] = ring[i]
    OBVIOUS
  <2>2. i \in 1..Len(ring) /\ c \in 1..Len(ring)
    BY <1>8, <2>1
  <2>3. c = i
    BY <1>12, <2>1, <2>2
  <2>4. ring[i] \in Slots
    BY <1>11, <2>2
  <2>5. slot'[ring[i]] = [id |-> received + c, fast |-> fast[c]]
    BY <1>10, <2>4
  <2> HIDE DEF c
  <2> QED
    BY <2>3, <2>5
<1>14. ASSUME NEW w \in HeldPiles, NEW i \in 1..Len(Pile[w])
       PROVE  slot'[Pile[w][i]] = slot[Pile[w][i]]
  <2>1. Pile[w][i] \in Slots
    <3>1. Pile[w] \in Seq(Slots)
      BY <1>1, <1>3, PileIs
    <3> QED
      BY <3>1
  <2>2. ~ \E j \in 1..n : ring[j] = Pile[w][i]
    <3> SUFFICES ASSUME NEW j \in 1..n, ring[j] = Pile[w][i] PROVE FALSE
      OBVIOUS
    <3>1. j \in 1..Len(Pile[Ring]) /\ Pile[Ring][j] = Pile[w][i]
      BY <1>3, <1>8
    <3>2. w = Ring
      BY <1>1, <1>3, <3>1 DEF Conserved, Distinct
    <3> QED
      BY <1>3, <3>2
  <2> QED
    BY <1>10, <2>1, <2>2
<1>15. received' = received + n
  BY DEF Burst
<1>16. \A i \in 1..n : slot'[Pile'[y][i]].id = received + i
  BY <1>9, <1>13
<1> QED
  BY <1>2, <1>5, <1>6, <1>7, <1>8, <1>9, <1>14, <1>15, <1>16 DEF y

(* ... through a burst,                                                    *)
LEMMA BurstOrder ==
  ASSUME Core, Slotted, Order, NEW n \in 1..RxBurst, Burst(n)
  PROVE  Order'
<1> DEFINE y == <<"given", 1>>
<1>1. TypeOK /\ Depths' = Depths /\ HeldPiles' = HeldPiles /\ UNCHANGED <<pipe, dropped>>
  BY DEF Core, Burst, Depths, HeldPiles
<1>2. /\ y \in HeldPiles /\ Len(Pile'[y]) = n /\ n \in Nat /\ received' = received + n
      /\ \A i \in 1..n : slot'[Pile'[y][i]].id = received + i
  BY BurstSlots DEF Order
<1>3. /\ \A w \in HeldPiles : w # y => Pile'[w] = Pile[w]
      /\ \A w \in HeldPiles : \A i \in 1..Len(Pile[w]) : slot'[Pile[w][i]] = slot[Pile[w][i]]
  BY BurstSlots DEF Order
<1>4. (\A w \in HeldPiles : Pile[w] # <<>> => Ahead(w, y)) /\ Pile[y] = <<>>
  BY BurstSlots DEF Order
<1>5. y[2] = 1
  OBVIOUS
<1>6. received \in Nat /\ (\A w \in HeldPiles : Len(Pile[w]) \in Nat) /\ ~Ahead(y, y)
  BY <1>1, <1>2, HeldIs, AheadIsOneWay
<1> HIDE DEF y
<1>7. \A w \in HeldPiles : \A i \in 1..Len(Pile[w]) : slot[Pile[w][i]].id \in 1..received
  BY DEF Order, Numbered
<1>8. InLine'
  <2> SUFFICES ASSUME NEW w \in HeldPiles, NEW v \in HeldPiles,
                      NEW i \in 1..Len(Pile'[w]), NEW j \in 1..Len(Pile'[v]),
                      Ahead(w, v) \/ (w = v /\ i < j)
               PROVE  slot'[Pile'[w][i]].id < slot'[Pile'[v][j]].id
    BY <1>1 DEF InLine
  <2>1. CASE w # y /\ v # y
    BY SMTT(30), <1>3, <2>1 DEF Order, InLine
  <2>2. CASE w # y /\ v = y
    <3>1. slot'[Pile'[w][i]].id \in 1..received
      BY <1>3, <1>7, <2>2
    <3>2. slot'[Pile'[v][j]].id = received + j /\ j \in 1..n
      BY <1>2, <2>2
    <3> QED
      BY <1>2, <1>6, <3>1, <3>2, SMTT(40)
  <2>3. CASE w = y /\ v = y
    <3>1. slot'[Pile'[w][i]].id = received + i /\ slot'[Pile'[v][j]].id = received + j /\ i < j
      BY <1>2, <1>6, <2>3
    <3> QED
      BY <1>2, <1>6, <2>3, <3>1
  <2>4. CASE w = y /\ v # y
    <3>1. Pile[v] # <<>>
      BY <1>3, <2>4
    <3>2. Ahead(v, y) /\ ~Ahead(y, v)
      BY <1>2, <1>4, <3>1, AheadIsOneWay
    <3> QED
      BY <2>4, <3>2
  <2> QED
    BY <2>1, <2>2, <2>3, <2>4
<1>9. DroppedFirst'
  <2> SUFFICES ASSUME NEW l \in 1..Len(dropped), NEW w \in HeldPiles, NEW i \in 1..Len(Pile'[w])
               PROVE  Leaves(dropped[l], slot'[Pile'[w][i]])
    BY <1>1 DEF DroppedFirst, Leaves
  <2>1. CASE w # y
    BY <1>3, <2>1 DEF Order, DroppedFirst
  <2>2. CASE w = y
    <3>1. dropped[l].id \in 1..received
      BY DEF Order, Numbered
    <3>2. slot'[Pile'[w][i]].id = received + i /\ i \in 1..n
      BY <1>2, <2>2
    <3>3. dropped[l].id < slot'[Pile'[w][i]].id
      BY <1>2, <1>6, <3>1, <3>2
    <3> QED
      BY <3>3 DEF Leaves
  <2> QED
    BY <2>1, <2>2
<1>10. InOrder'
  BY <1>1 DEF Order, InOrder, Leaves
<1>11. SlowBehind'
  <2> SUFFICES ASSUME NEW w \in HeldPiles, NEW m \in Depths, m < w[2], pipe[m].work = "fastpass",
                      NEW i \in 1..Len(Pile'[w])
               PROVE  ~slot'[Pile'[w][i]].fast
    BY <1>1 DEF SlowBehind
  <2>1. w # y
    BY <1>5 DEF Depths
  <2> QED
    BY <1>3, <2>1 DEF Order, SlowBehind
<1>12. Numbered'
  <2>1. ASSUME NEW w \in HeldPiles, NEW i \in 1..Len(Pile'[w])
        PROVE  slot'[Pile'[w][i]].id \in 1..(received + n)
    <3>1. CASE w # y
      <4>1. slot'[Pile'[w][i]].id \in 1..received
        BY <1>3, <1>7, <3>1
      <4> QED
        BY <1>2, <1>6, <4>1
    <3>2. CASE w = y
      <4>1. slot'[Pile'[w][i]].id = received + i /\ i \in 1..n
        BY <1>2, <3>2
      <4> QED
        BY <1>2, <1>6, <4>1
    <3> QED
      BY <3>1, <3>2
  <2>2. ASSUME NEW l \in 1..Len(dropped) PROVE dropped[l].id \in 1..(received + n)
    <3>1. dropped[l].id \in 1..received
      BY DEF Order, Numbered
    <3> QED
      BY <1>2, <1>6, <3>1
  <2> QED
    BY <1>1, <1>2, <2>1, <2>2 DEF Numbered
<1>13. Accounted'
  <2> SUFFICES ASSUME NEW id \in 1..(received + n)
               PROVE  \/ \E l \in 1..Len(dropped) : dropped[l].id = id
                      \/ \E w \in HeldPiles : \E i \in 1..Len(Pile'[w]) : slot'[Pile'[w][i]].id = id
    BY <1>1, <1>2 DEF Accounted
  <2>1. CASE id <= received
    <3>1. id \in 1..received
      BY <1>2, <1>6, <2>1
    <3>2. CASE \E w \in HeldPiles : \E i \in 1..Len(Pile[w]) : slot[Pile[w][i]].id = id
      <4>1. PICK w \in HeldPiles : \E i \in 1..Len(Pile[w]) : slot[Pile[w][i]].id = id
        BY <3>2
      <4>2. PICK i \in 1..Len(Pile[w]) : slot[Pile[w][i]].id = id
        BY <4>1
      <4>3. w # y
        BY <1>4, <4>2
      <4> QED
        BY <1>3, <4>2, <4>3
    <3> QED
      BY <3>1, <3>2 DEF Order, Accounted
  <2>2. CASE ~(id <= received)
    <3>1. id - received \in 1..n /\ received + (id - received) = id
      BY <1>2, <1>6, <2>2
    <3>2. slot'[Pile'[y][id - received]].id = id
      BY <1>2, <3>1
    <3> QED
      BY <1>2, <3>1, <3>2
  <2> QED
    BY <2>1, <2>2
<1> QED
  BY <1>8, <1>9, <1>10, <1>11, <1>12, <1>13 DEF Order

(* ... and through every step.                                             *)
LEMMA OrderStep ==
  ASSUME Core, Slotted, Order, [Next]_vars
  PROVE  Order'
<1>1. ASSUME Still PROVE Order'
  <2>1. Pile' = Pile /\ UNCHANGED <<pipe, slot, received, dropped>> /\ HeldPiles' = HeldPiles /\ Depths' = Depths
    BY <1>1 DEF Still, HeldPiles, Depths
  <2> QED
    BY <2>1 DEF Order, InLine, DroppedFirst, InOrder, SlowBehind, Numbered, Accounted, Leaves
<1> QED
  BY <1>1, MoveSteps, WorkOrder, PutOrder, BurstOrder

(* At first there is nothing to be in order.                               *)
LEMMA OrderInit == Init => Order
<1> SUFFICES ASSUME Init PROVE Order
  OBVIOUS
<1>1. TypeOK
  BY CoreInit DEF Core
<1>2. \A w \in HeldPiles : Pile[w] = <<>>
  <2> SUFFICES ASSUME NEW w \in HeldPiles PROVE Pile[w] = <<>>
    OBVIOUS
  <2>1. PICK k \in Depths : w = <<"buf", k>> \/ w = <<"given", k>>
    BY DEF HeldPiles
  <2>2. Pile[w] = buf[k] \/ Pile[w] = given[k]
    BY <1>1, <2>1, PileIs
  <2>3. buf[k] = <<>> /\ given[k] = <<>>
    BY DEF Init
  <2> QED
    BY <2>2, <2>3
<1>3. dropped = <<>> /\ received = 0
  BY DEF Init
<1> QED
  BY <1>2, <1>3 DEF Order, InLine, DroppedFirst, InOrder, SlowBehind, Numbered, Accounted
----------------------------------------------------------------------------
(* How many there are.                                                     *)

(* The ring and what is held share the slots.                              *)
LEMMA HeldCount ==
  ASSUME Core, Slotted
  PROVE  IsFiniteSet(Held) /\ Cardinality(Held) = Capacity - Len(ring)
<1> DEFINE T == 0..(Capacity - 1)
           f == [q \in Places |-> At(q)]
           R == {<<Ring, i>> : i \in 1..Len(ring)}
           g == [i \in 1..Len(ring) |-> <<Ring, i>>]
<1>1. Capacity \in Nat /\ Len(ring) \in Nat /\ Ring \in Piles /\ Pile[Ring] = ring
  BY PileIs, DatapathAssumption DEF Core, TypeOK, Capacity
<1>2. f \in Bijection(Places, T)
  BY SlotsConservedIs DEF Slotted, SlotsConserved
<1>3. IsFiniteSet(T) /\ Cardinality(T) = Capacity
  <2>1. 0 \in Int /\ Capacity - 1 \in Int
    BY <1>1
  <2>2. IsFiniteSet(T) /\ Cardinality(T) = IF 0 > Capacity - 1 THEN 0 ELSE Capacity - 1 - 0 + 1
    BY <2>1, FS_Interval
  <2> QED
    BY <1>1, <2>2
<1> HIDE DEF T, f
<1>4. f \in Injection(Places, T) /\ f \in Surjection(Places, T)
  BY <1>2 DEF Bijection
<1>5. IsFiniteSet(Places) /\ Cardinality(Places) = Capacity
  BY <1>3, <1>4, FS_Injection
<1>6. IsFiniteSet(1..Len(ring)) /\ Cardinality(1..Len(ring)) = Len(ring)
  <2> DEFINE l == Len(ring)
  <2>1. 1 \in Int /\ l \in Int /\ l \in Nat
    BY <1>1
  <2>2. IsFiniteSet(1..l) /\ Cardinality(1..l) = IF 1 > l THEN 0 ELSE l - 1 + 1
    BY <2>1, FS_Interval
  <2> HIDE DEF l
  <2>3. Cardinality(1..l) = l
    BY <2>1, <2>2
  <2> QED
    BY <2>2, <2>3 DEF l
<1>7. g \in Surjection(1..Len(ring), R) /\ g \in Injection(1..Len(ring), R)
  BY DEF Surjection, Injection, IsInjective
<1> HIDE DEF g
<1>8. IsFiniteSet(R) /\ Cardinality(R) = Len(ring)
  BY <1>6, <1>7, FS_Surjection
<1>9. R \subseteq Places /\ Held = Places \ R
  <2>1. \A q \in R : q \in Places /\ q[1] = Ring
    BY <1>1, PlacesIs
  <2>2. ASSUME NEW q \in Places, q[1] = Ring PROVE q \in R
    <3>1. PICK x \in Piles : \E i \in 1..Len(Pile[x]) : q = <<x, i>>
      BY PlacesIs
    <3> QED
      BY <1>1, <2>2, <3>1
  <2> HIDE DEF R
  <2> QED
    BY <2>1, <2>2 DEF Held, Ring
<1>10. Places \cap R = R
  BY <1>9
<1> HIDE DEF R
<1> QED
  <2>1. IsFiniteSet(Places \ R) /\ Cardinality(Places \ R) = Cardinality(Places) - Cardinality(Places \cap R)
    BY <1>5, FS_Difference
  <2> QED
    BY <1>5, <1>8, <1>9, <1>10, <2>1

(* The buffers of a pipeline have finitely many places.                    *)
LEMMA RoomIsFinite ==
  ASSUME TypeOK
  PROVE  IsFiniteSet(BufferRoom)
<1> DEFINE B == {k \in Depths : pipe[k].wrap = "buffered"}
           S == {{k} \X (1..pipe[k].size) : k \in B}
           f == [k \in B |-> {k} \X (1..pipe[k].size)]
<1>1. Len(pipe) \in Nat /\ \A k \in Depths : pipe[k].size \in Nat
  BY Pipe DEF Element
<1>2. IsFiniteSet(B)
  <2>1. IsFiniteSet(Depths)
    BY <1>1, FS_Interval DEF Depths
  <2>2. B \in SUBSET Depths
    OBVIOUS
  <2> QED
    BY <2>1, <2>2, FS_Subset
<1>3. \A k \in B : IsFiniteSet({k} \X (1..pipe[k].size))
  <2> SUFFICES ASSUME NEW k \in B PROVE IsFiniteSet({k} \X (1..pipe[k].size))
    OBVIOUS
  <2>1. 1 \in Int /\ pipe[k].size \in Int
    BY <1>1
  <2>2. IsFiniteSet({k}) /\ IsFiniteSet(1..pipe[k].size)
    BY <2>1, FS_Singleton, FS_Interval
  <2> QED
    BY <2>2, FS_Product
<1>4. f \in Surjection(B, S)
  BY DEF Surjection
<1> HIDE DEF f
<1>5. IsFiniteSet(S)
  BY <1>2, <1>4, FS_Surjection
<1>6. \A s \in S : IsFiniteSet(s)
  BY <1>3
<1>7. BufferRoom = UNION S
  BY DEF BufferRoom
<1> HIDE DEF S
<1> QED
  BY <1>5, <1>6, <1>7, FS_UNION

(* Between two bursts all that is held is in buffers.                      *)
LEMMA IdleRoom ==
  ASSUME Core, Slotted, Idle
  PROVE  Cardinality(Held) <= Cardinality(BufferRoom)
<1> DEFINE f == [q \in Held |-> <<q[1][2], q[2]>>]
<1>1. TypeOK
  BY DEF Core
<1>2. ASSUME NEW q \in Held
      PROVE  \E k \in Depths, i \in Nat : /\ q = <<<<"buf", k>>, i>> /\ pipe[k].wrap = "buffered"
                                          /\ i \in 1..pipe[k].size
  <2>1. PICK x \in Piles : \E i \in 1..Len(Pile[x]) : q = <<x, i>>
    BY PlacesIs DEF Held
  <2>2. PICK i \in 1..Len(Pile[x]) : q = <<x, i>>
    BY <2>1
  <2>3. x # <<"ring", 0>>
    BY <2>2 DEF Held
  <2>4. PICK k \in Depths : x = <<"buf", k>> \/ x = <<"given", k>>
    BY <2>3 DEF Piles
  <2>5. given[k] = <<>> /\ Pile[<<"given", k>>] = given[k] /\ Pile[<<"buf", k>>] = buf[k]
    BY <1>1, PileIs DEF Core, Calls, Idle
  <2>6. x = <<"buf", k>>
    BY <2>2, <2>4, <2>5
  <2>7. /\ Len(buf[k]) \in Nat
        /\ IF pipe[k].wrap = "buffered" THEN Len(buf[k]) <= pipe[k].size ELSE buf[k] = <<>>
    BY <1>1, NoBuffer
  <2>8. pipe[k].wrap = "buffered"
    BY <2>2, <2>5, <2>6, <2>7
  <2>9. i \in 1..Len(buf[k]) /\ pipe[k].size \in Nat
    BY <1>1, <2>2, <2>5, <2>6, Pipe DEF Element
  <2>10. i \in Nat /\ i \in 1..pipe[k].size
    BY <2>7, <2>8, <2>9
  <2> QED
    BY <2>2, <2>6, <2>8, <2>10
<1>3. f \in Injection(Held, BufferRoom)
  <2>1. \A q \in Held : <<q[1][2], q[2]>> \in BufferRoom
    <3> SUFFICES ASSUME NEW q \in Held PROVE <<q[1][2], q[2]>> \in BufferRoom
      OBVIOUS
    <3>1. PICK k \in Depths, i \in Nat : /\ q = <<<<"buf", k>>, i>> /\ pipe[k].wrap = "buffered"
                                         /\ i \in 1..pipe[k].size
      BY <1>2
    <3>2. <<q[1][2], q[2]>> = <<k, i>>
      BY <3>1
    <3>3. <<k, i>> \in {k} \X (1..pipe[k].size)
      BY <3>1
    <3>4. <<k, i>> \in BufferRoom
      BY <3>1, <3>3 DEF BufferRoom
    <3> QED
      BY <3>2, <3>4
  <2>2. ASSUME NEW q \in Held, NEW r \in Held, <<q[1][2], q[2]>> = <<r[1][2], r[2]>> PROVE q = r
    <3>1. PICK k \in Depths, i \in Nat : q = <<<<"buf", k>>, i>>
      BY <1>2
    <3>2. PICK m \in Depths, j \in Nat : r = <<<<"buf", m>>, j>>
      BY <1>2
    <3> QED
      BY <2>2, <3>1, <3>2
  <2>3. f \in [Held -> BufferRoom]
    BY <2>1
  <2>4. \A q, r \in Held : f[q] = f[r] => q = r
    BY <2>2
  <2> HIDE DEF f
  <2> QED
    BY <2>3, <2>4 DEF Injection, IsInjective
<1> HIDE DEF f
<1> QED
  BY <1>1, <1>3, RoomIsFinite, FS_Injection

(* The ring is found short only when buffers and burst exceed it.          *)
LEMMA RingSufficesStep ==
  ASSUME Core, Slotted, SlotsSuffice, [Next]_vars
  PROVE  SlotsSuffice'
<1>1. pipe' = pipe
  BY DEF Next, vars, stream, Step, Burst, Short, LoopEnds, ReleaseElement
<1>2. BufferRoom' = BufferRoom
  BY <1>1 DEF BufferRoom, Depths
<1>3. status' # status => status' # "short" \/ \E n \in 1..RxBurst : Short(n)
  BY DEF Next, vars, stream, Step, Burst, Short, LoopEnds, ReleaseElement
<1>4. ASSUME NEW n \in 1..RxBurst, Short(n)
      PROVE  ~(Cardinality(BufferRoom) + RxBurst <= Capacity)
  <2>1. Idle /\ n > Len(ring)
    BY <1>4 DEF Short
  <2>2. Capacity - Len(ring) <= Cardinality(BufferRoom)
    BY <2>1, HeldCount, IdleRoom
  <2>3. Capacity \in Nat /\ Len(ring) \in Nat /\ RxBurst \in Nat /\ n \in Nat /\ n <= RxBurst
    BY DatapathAssumption DEF Capacity, Core, TypeOK
  <2>4. Cardinality(BufferRoom) \in Nat
    BY RoomIsFinite, FS_CardinalityType DEF Core
  <2> QED
    BY <2>1, <2>2, <2>3, <2>4
<1> QED
  BY <1>2, <1>3, <1>4 DEF SlotsSuffice, Capacity

----------------------------------------------------------------------------

(* The inductive invariant.                                                *)
IInv == Core /\ Slotted /\ Order /\ SlotsSuffice

(* The inductive invariant holds in every reachable state, whatever the    *)
(* pipelines, the ring and the bursts.                                     *)
THEOREM Invariance == Spec => []IInv
<1>1. Init => IInv
  BY CoreInit, SlottedInit, OrderInit DEF IInv, SlotsSuffice, Init
<1>2. IInv /\ [Next]_vars => IInv'
  BY CoreStep, SlottedStep, OrderStep, RingSufficesStep DEF IInv
<1> QED
  BY <1>1, <1>2, PTL DEF Spec

(* The variables of the datapath keep their types and no element buffers   *)
(* more than its notify_size.                                              *)
THEOREM TypeCorrect == Spec => []TypeOK
<1>1. IInv => TypeOK
  BY DEF IInv, Core
<1> QED
  BY <1>1, Invariance, PTL

(* No slot of the stream is lost or in two places.                         *)
THEOREM SlotsNeverLost == Spec => []SlotsConserved
<1>1. IInv => SlotsConserved
  BY SlotsConservedIs DEF IInv, Slotted
<1> QED
  BY <1>1, Invariance, PTL

(* queue_length is the number of packets in the pipeline.                  *)
THEOREM QueueLengthRight == Spec => []QueueLengthHeld
<1>1. IInv => QueueLengthHeld
  BY HeldCount DEF IInv, Slotted, Count, QueueLengthHeld
<1> QED
  BY <1>1, Invariance, PTL

(* Packets leave in the order of arrival, the fast ones perhaps earlier,   *)
(* and none of them twice.                                                 *)
THEOREM OrderKept == Spec => []InOrder
<1>1. IInv => InOrder
  BY DEF IInv, Order
<1> QED
  BY <1>1, Invariance, PTL

(* A ring with room for every buffer and one burst is never short.         *)
THEOREM RingSuffices == Spec => []SlotsSuffice
<1>1. IInv => SlotsSuffice
  BY DEF IInv
<1> QED
  BY <1>1, Invariance, PTL

(* When the receive thread ends, by itself or on a short ring, no call     *)
(* enters a released element; when all are released, every packet that was *)
(* received has been dropped.                                              *)
THEOREM ExitDrains == Spec => []DrainedOnExit
<1>1. ASSUME IInv PROVE DrainedOnExit
  <2>1. \A k \in active : k > released
    BY <1>1 DEF IInv, Core, Calls
  <2>2. ASSUME released = Len(pipe), Idle
        PROVE  Held = {} /\ {dropped[i].id : i \in 1..Len(dropped)} = 1..received
    <3>1. TypeOK /\ \A k \in Depths : given[k] = <<>> /\ buf[k] = <<>>
      BY <1>1, <2>2, Pipe DEF IInv, Core, Calls, Idle, Depths
    <3>2. \A w \in HeldPiles : Pile[w] = <<>>
      <4> SUFFICES ASSUME NEW w \in HeldPiles PROVE Pile[w] = <<>>
        OBVIOUS
      <4>1. PICK k \in Depths : w = <<"buf", k>> \/ w = <<"given", k>>
        BY DEF HeldPiles
      <4> QED
        BY <3>1, <4>1, PileIs
    <3>3. Held = {}
      <4> SUFFICES ASSUME NEW q \in Held PROVE FALSE
        OBVIOUS
      <4>1. PICK x \in Piles : \E i \in 1..Len(Pile[x]) : q = <<x, i>>
        BY PlacesIs DEF Held
      <4>2. x \in HeldPiles
        BY <4>1 DEF Held, Piles, HeldPiles
      <4> QED
        BY <3>2, <4>1, <4>2
    <3>4. \A id \in 1..received : \E i \in 1..Len(dropped) : dropped[i].id = id
      BY <1>1, <3>2 DEF IInv, Order, Accounted
    <3>5. \A i \in 1..Len(dropped) : dropped[i].id \in 1..received
      BY <1>1 DEF IInv, Order, Numbered
    <3> QED
      BY <3>3, <3>4, <3>5
  <2> QED
    BY <2>1, <2>2 DEF DrainedOnExit
<1> QED
  BY <1>1, Invariance, PTL

=============================================================================
