------------------------- MODULE RoutingTrieProofs -------------------------
(***************************************************************************)
(* Proofs about the routing table, for every width of addresses, tables    *)
(* and lpm, every set of prefixes and every order of adding them.          *)
(*                                                                         *)
(* The inductive invariant IInv ties what is in the tables to the rules    *)
(* added: the way of every rule has its tables and every entry it covers   *)
(* has a port (Reached), what is in an entry was written by a rule added   *)
(* for it (FromRules), and, unless lpm has wrapped, by one with the most   *)
(* of the bits that index the table (LeavesLeast).  It needs to know of a  *)
(* prefix only how many turns the loop makes for it, which the first half  *)
(* of the module derives from shifts and masks.                            *)
(*                                                                         *)
(* For the longest prefix match two facts about numbers join it: a prefix  *)
(* that ends where the code expects it covers the entries of its depth     *)
(* that the addresses matching it visit, and no others (CoversMatching),   *)
(* and of two masks the larger ends deeper or has more bits in the same    *)
(* table (DepthGrows).                                                     *)
(*                                                                         *)
(* What holds for every power, depth or length is proved by induction on   *)
(* it (SetInduction), as a fact about a set of numbers.                    *)
(***************************************************************************)
EXTENDS RoutingTrie, WellFoundedInduction, TLAPS

----------------------------------------------------------------------------
(* Induction.                                                              *)

(* A set of naturals with an element has a least one.                      *)
LEMMA Least ==
  ASSUME NEW T, T \subseteq Nat, T # {}
  PROVE  \E m \in T : \A k \in T : m <= k
<1> DEFINE R == {ss \in Nat \X Nat : ss[1] < ss[2]}
<1>1. IsWellFoundedOn(R, Nat)
  BY NatLessThanWellFounded DEF OpToRel
<1>2. \A a, b \in Nat : a < b => <<a, b>> \in R
  OBVIOUS
<1> HIDE DEF R
<1>3. PICK m \in T : \A k \in T : ~(<<k, m>> \in R)
  BY <1>1, WFMin
<1>4. \A k \in T : ~(k < m) /\ k \in Nat /\ m \in Nat
  BY <1>2, <1>3
<1> QED
  BY <1>3, <1>4

(* What holds of 0, and of the next number of each, holds of all.          *)
LEMMA SetInduction ==
  ASSUME NEW T, 0 \in T, \A n \in Nat : n \in T => n + 1 \in T
  PROVE  \A n \in Nat : n \in T
<1> SUFFICES ASSUME NEW n \in Nat, n \notin T PROVE FALSE
  OBVIOUS
<1> DEFINE F == {k \in Nat : k \notin T}
<1>1. PICK m \in F : \A k \in F : m <= k
  <2>1. F # {} /\ F \subseteq Nat
    OBVIOUS
  <2> QED
    BY <2>1, Least
<1>2. m # 0
  OBVIOUS
<1>3. m - 1 \in Nat /\ m - 1 \notin F
  BY <1>1, <1>2
<1> QED
  BY <1>3

(* Powers of two: the recursive function exists, and is what its equation  *)
(* says.                                                                   *)
LEMMA PowExists ==
  \E f \in [Nat -> Nat \ {0}] : f[0] = 1 /\ \A n \in Nat : f[n + 1] = 2 * f[n]
<1> DEFINE Upto(n, g) == /\ g \in [0..n -> Nat \ {0}] /\ g[0] = 1
                         /\ \A k \in 0..n : k # n => g[k + 1] = 2 * g[k]
           T == {n \in Nat : \E g : Upto(n, g)}
<1>1. 0 \in T
  <2>1. Upto(0, [k \in 0..0 |-> 1])
    OBVIOUS
  <2> QED
    BY <2>1
<1>2. ASSUME NEW n \in Nat, n \in T PROVE n + 1 \in T
  <2>1. PICK g : Upto(n, g)
    BY <1>2
  <2> DEFINE h == [k \in 0..(n + 1) |-> IF k = n + 1 THEN 2 * g[n] ELSE g[k]]
  <2>2. \A k \in 0..(n + 1) : k = n + 1 \/ k \in 0..n
    OBVIOUS
  <2>3. \A k \in 0..n : g[k] \in Nat \ {0} /\ h[k] = g[k] /\ k # n + 1
    BY <2>1
  <2>4. h[n + 1] = 2 * g[n] /\ 2 * g[n] \in Nat \ {0}
    BY <2>1
  <2>5. h \in [0..(n + 1) -> Nat \ {0}]
    BY <2>2, <2>3, <2>4
  <2>6. \A k \in 0..(n + 1) : k # n + 1 => h[k + 1] = 2 * h[k]
    <3> SUFFICES ASSUME NEW k \in 0..n PROVE h[k + 1] = 2 * h[k]
      BY <2>2
    <3>1. CASE k = n
      BY <2>3, <2>4, <3>1
    <3>2. CASE k # n
      BY <2>1, <2>3, <3>2
    <3> QED
      BY <3>1, <3>2
  <2>7. h[0] = 1
    BY <2>1
  <2>8. Upto(n + 1, h)
    BY <2>5, <2>6, <2>7
  <2>9. n + 1 \in Nat
    OBVIOUS
  <2> HIDE DEF Upto
  <2> QED
    BY <2>8, <2>9
<1>3. \A n \in Nat : \E g : Upto(n, g)
  <2> HIDE DEF Upto
  <2>1. \A n \in Nat : n \in T
    <3> HIDE DEF T
    <3> QED
      BY <1>1, <1>2, SetInduction
  <2> QED
    BY <2>1
<1> DEFINE g(n) == CHOOSE x : Upto(n, x)
<1>4. \A n \in Nat : Upto(n, g(n))
  <2> HIDE DEF Upto
  <2> QED
    BY <1>3
<1>5. \A n \in Nat : g(n) \in [0..n -> Nat \ {0}] /\ g(n)[0] = 1
                     /\ \A k \in 0..n : k # n => g(n)[k + 1] = 2 * g(n)[k]
  <2> HIDE DEF g
  <2> QED
    BY <1>4
<1> HIDE DEF g, Upto, T
(* Longer ones go on from shorter ones.                                    *)
<1>6. ASSUME NEW n \in Nat PROVE g(n + 1)[n] = g(n)[n]
  <2> DEFINE S == {k \in Nat : k <= n => g(n + 1)[k] = g(n)[k]}
  <2>1. 0 \in S
    <3>1. g(n)[0] = 1 /\ g(n + 1)[0] = 1
      BY <1>5
    <3> QED
      BY <3>1
  <2>2. ASSUME NEW k \in Nat, k \in S PROVE k + 1 \in S
    <3>1. CASE k + 1 <= n
      <4>1. k \in 0..n /\ k # n /\ k \in 0..(n + 1) /\ k # n + 1 /\ n + 1 \in Nat
        BY <3>1
      <4>2. g(n)[k + 1] = 2 * g(n)[k] /\ g(n + 1)[k + 1] = 2 * g(n + 1)[k]
        BY <1>5, <4>1
      <4> QED
        BY <2>2, <3>1, <4>2
    <3> QED
      BY <3>1
  <2>3. \A k \in Nat : k \in S
    <3> HIDE DEF S
    <3> QED
      BY <2>1, <2>2, SetInduction
  <2> QED
    BY <2>3
<1> DEFINE f == [n \in Nat |-> g(n)[n]]
<1>7. f \in [Nat -> Nat \ {0}] /\ f[0] = 1
  BY <1>5
<1>8. ASSUME NEW n \in Nat PROVE f[n + 1] = 2 * f[n]
  <2>1. g(n + 1)[n + 1] = 2 * g(n + 1)[n]
    <3>1. n + 1 \in Nat /\ n \in 0..(n + 1) /\ n # n + 1
      OBVIOUS
    <3> QED
      BY <1>5, <3>1
  <2> QED
    BY <1>6, <2>1
<1> QED
  BY <1>7, <1>8

(* Powers as the module defines them: positive, and doubling.              *)
LEMMA PowFacts ==
  /\ Pow2 \in [Nat -> Nat \ {0}] /\ Pow2[0] = 1
  /\ \A n \in Nat : Pow2[n + 1] = 2 * Pow2[n]
<1> DEFINE Is(f) == f = [n \in Nat |-> IF n = 0 THEN 1 ELSE 2 * f[n - 1]]
<1>1. PICK f \in [Nat -> Nat \ {0}] : f[0] = 1 /\ \A n \in Nat : f[n + 1] = 2 * f[n]
  BY PowExists
<1>2. Is(f)
  <2>1. ASSUME NEW n \in Nat PROVE f[n] = IF n = 0 THEN 1 ELSE 2 * f[n - 1]
    <3>1. CASE n # 0
      <4>1. n - 1 \in Nat /\ (n - 1) + 1 = n
        BY <3>1
      <4> QED
        BY <1>1, <3>1, <4>1
    <3> QED
      BY <1>1, <3>1
  <2> QED
    BY <2>1
<1>3. Is(Pow2)
  <2>1. Pow2 = CHOOSE h : Is(h)
    BY DEF Pow2
  <2> HIDE DEF Is
  <2> QED
    BY <1>2, <2>1
<1>4. \A n \in Nat : Pow2[n] = IF n = 0 THEN 1 ELSE 2 * Pow2[n - 1]
  BY <1>3
<1>5. Pow2 = f
  <2> DEFINE S == {n \in Nat : Pow2[n] = f[n]}
  <2>1. 0 \in S
    BY <1>1, <1>4
  <2>2. ASSUME NEW n \in Nat, n \in S PROVE n + 1 \in S
    <3>1. Pow2[n + 1] = 2 * Pow2[(n + 1) - 1] /\ (n + 1) - 1 = n
      BY <1>4
    <3> QED
      BY <1>1, <2>2, <3>1
  <2>3. \A n \in Nat : n \in S
    <3> HIDE DEF S
    <3> QED
      BY <2>1, <2>2, SetInduction
  <2>4. \A n \in Nat : Pow2[n] = f[n]
    BY <2>3
  <2> QED
    BY <1>1, <1>3, <2>4
<1> QED
  BY <1>1, <1>5

(* 2^(m + n) = 2^m * 2^n.                                                  *)
LEMMA PowAdd ==
  ASSUME NEW a \in Nat, NEW b \in Nat
  PROVE  Pow2[a + b] = Pow2[a] * Pow2[b]
<1> DEFINE S == {n \in Nat : Pow2[a + n] = Pow2[a] * Pow2[n]}
<1>1. 0 \in S
  <2>1. Pow2[a] \in Nat /\ Pow2[0] = 1 /\ a + 0 = a
    BY PowFacts
  <2> QED
    BY <2>1
<1>2. ASSUME NEW n \in Nat, n \in S PROVE n + 1 \in S
  <2>1. Pow2[(a + n) + 1] = 2 * Pow2[a + n] /\ Pow2[n + 1] = 2 * Pow2[n]
    BY PowFacts
  <2>2. Pow2[a] \in Nat /\ Pow2[n] \in Nat /\ Pow2[a + n] = Pow2[a] * Pow2[n]
    BY <1>2, PowFacts
  <2>3. 2 * (Pow2[a] * Pow2[n]) = Pow2[a] * (2 * Pow2[n])
    BY <2>2
  <2>4. (a + n) + 1 = a + (n + 1)
    OBVIOUS
  <2> QED
    BY <2>1, <2>2, <2>3, <2>4
<1>3. \A n \in Nat : n \in S
  <2> HIDE DEF S
  <2> QED
    BY <1>1, <1>2, SetInduction
<1> QED
  BY <1>3

(* A power is the product of a smaller one and what is left.               *)
LEMMA PowSplit ==
  ASSUME NEW n \in Nat, NEW a \in 0..n
  PROVE  /\ Pow2[n - a] \in Nat \ {0} /\ Pow2[a] \in Nat \ {0} /\ Pow2[n] \in Nat \ {0}
         /\ Pow2[n] = Pow2[n - a] * Pow2[a]
<1>1. PICK k \in Nat : k = n - a
  OBVIOUS
<1>2. n = k + a /\ a \in Nat
  BY <1>1
<1>3. Pow2[k + a] = Pow2[k] * Pow2[a]
  BY <1>2, PowAdd
<1> QED
  BY <1>1, <1>2, <1>3, PowFacts

(* A larger exponent does not make the power smaller.                      *)
LEMMA PowMono ==
  ASSUME NEW a \in Nat, NEW b \in Nat, a <= b
  PROVE  Pow2[a] <= Pow2[b]
<1>1. b - a \in Nat /\ a + (b - a) = b
  OBVIOUS
<1>2. Pow2[b] = Pow2[a] * Pow2[b - a]
  BY <1>1, PowAdd
<1>3. Pow2[a] \in Nat /\ Pow2[b - a] \in Nat \ {0}
  BY <1>1, PowFacts
<1> DEFINE x == Pow2[a]  y == Pow2[b - a]
<1>4. x \in Nat /\ y \in Nat \ {0}
  BY <1>3
<1> HIDE DEF x, y
<1>5. x <= x * y
  BY <1>4
<1> QED
  BY <1>2, <1>5 DEF x, y

----------------------------------------------------------------------------
(* Division.                                                               *)

(* Quotient and remainder are what the division of Nat says they are,      *)
LEMMA Division ==
  ASSUME NEW x \in Nat, NEW k \in Nat \ {0}
  PROVE  /\ x \div k \in Nat /\ x % k \in 0..(k - 1)
         /\ x = k * (x \div k) + (x % k)
OBVIOUS

(* ... and nothing else is.                                                *)
LEMMA DivisionIs ==
  ASSUME NEW x \in Nat, NEW k \in Nat \ {0}, NEW q \in Nat, NEW r \in 0..(k - 1), x = k * q + r
  PROVE  x \div k = q /\ x % k = r
OBVIOUS

(* A number below b * c holds b fewer than c times.                        *)
LEMMA DivBelow ==
  ASSUME NEW x \in Nat, NEW k \in Nat \ {0}, NEW m \in Nat, x < k * m
  PROVE  x \div k < m
OBVIOUS

(* Dividing by b goes on from dividing by b * h.                           *)
LEMMA DivDiv ==
  ASSUME NEW x \in Nat, NEW b \in Nat \ {0}, NEW h \in Nat \ {0}
  PROVE  /\ b * h \in Nat \ {0}
         /\ (x % (b * h)) \div b \in 0..(h - 1)
         /\ x \div b = h * (x \div (b * h)) + ((x % (b * h)) \div b)
<1>1. PICK a \in Nat \ {0} : a = b * h
  <2>1. b * h \in Nat \ {0}
    OBVIOUS
  <2> QED
    BY <2>1
<1>2. PICK q \in Nat, r \in 0..(a - 1) : q = x \div a /\ r = x % a /\ x = a * q + r
  BY Division
<1>3. PICK s \in Nat, t \in 0..(b - 1) : s = r \div b /\ r = b * s + t
  <2>1. r \in Nat
    OBVIOUS
  <2> QED
    BY <2>1, Division
<1>4. s < h
  <2>1. r \in Nat /\ r < b * h
    BY <1>1
  <2> QED
    BY <1>3, <2>1, DivBelow
<1>5. x = b * (h * q + s) + t
  <2>1. x = (b * h) * q + (b * s + t)
    BY <1>1, <1>2, <1>3
  <2>2. (b * h) * q = b * (h * q) /\ b * (h * q + s) = b * (h * q) + b * s
    OBVIOUS
  <2>3. (b * h) * q \in Int /\ b * s \in Int /\ t \in Int
    OBVIOUS
  <2> QED
    BY <2>1, <2>2, <2>3
<1>6. h * q + s \in Nat
  OBVIOUS
<1>7. x \div b = h * q + s
  BY <1>5, <1>6, DivisionIs
<1>8. /\ a \in Nat \ {0} /\ (x % a) \div b \in 0..(h - 1)
      /\ x \div b = h * (x \div a) + ((x % a) \div b)
  <2>1. s \in 0..(h - 1)
    BY <1>4
  <2>2. (x % a) \div b = s /\ x \div a = q
    BY <1>2, <1>3, Zenon
  <2> QED
    BY <1>7, <2>1, <2>2, Zenon
<1> QED
  BY <1>1, <1>8, Zenon

(* A number in base h has its digits.                                      *)
LEMMA DigitsAre ==
  ASSUME NEW h \in Nat \ {0}, NEW q \in Nat, NEW p \in Nat, NEW s \in 0..(h - 1), NEW t \in 0..(h - 1)
  PROVE  h * q + s = h * p + t <=> q = p /\ s = t
<1>1. ASSUME h * q + s = h * p + t PROVE q = p /\ s = t
  <2>1. PICK x \in Nat : x = h * q + s
    OBVIOUS
  <2>2. x \div h = q /\ x % h = s
    BY <2>1, DivisionIs
  <2>3. x \div h = p /\ x % h = t
    BY <1>1, <2>1, DivisionIs
  <2> QED
    BY <2>2, <2>3
<1> QED
  BY <1>1

----------------------------------------------------------------------------
(* The tables.                                                             *)

(* How many tables may hang below each other under the first.              *)
Hops == (AddrBits - FirstBits) \div HopBits

(* What the assumptions say about the constants.                           *)
LEMMA Sizes ==
  /\ AddrBits \in Nat /\ FirstBits \in Nat \ {0} /\ HopBits \in Nat \ {0}
  /\ Hops \in Nat /\ AddrBits - FirstBits = HopBits * Hops /\ Levels = 1 + Hops
  /\ PortCount \in Nat \ {0} /\ LpmBits \in Nat
<1>1. /\ AddrBits \in Nat /\ FirstBits \in Nat \ {0} /\ HopBits \in Nat \ {0}
      /\ AddrBits - FirstBits \in Nat /\ (AddrBits - FirstBits) % HopBits = 0
  BY RoutingAssumption
<1>2. /\ Hops \in Nat
      /\ AddrBits - FirstBits = HopBits * Hops + ((AddrBits - FirstBits) % HopBits)
  BY <1>1, Division DEF Hops
<1>3. AddrBits - FirstBits = HopBits * Hops
  BY <1>1, <1>2
<1> QED
  BY <1>1, <1>2, <1>3, RoutingAssumption DEF Levels, Hops

(* The bits left below the table at depth d, from the deepest upwards.     *)
LEMMA RemainingIs ==
  ASSUME NEW d \in 0..Hops
  PROVE  /\ Remaining(d) \in Nat /\ Remaining(0) = AddrBits - FirstBits
         /\ d < Hops => Remaining(d) = Remaining(d + 1) + HopBits
<1>1. Remaining(d) = HopBits * Hops - d * HopBits
  BY Sizes DEF Remaining
<1>2. HopBits * Hops - d * HopBits = HopBits * (Hops - d)
  BY Sizes
<1>3. HopBits * (Hops - d) \in Nat
  <2>1. Hops - d \in Nat
    BY Sizes
  <2> QED
    BY <2>1, Sizes
<1>4. Remaining(0) = AddrBits - FirstBits
  BY Sizes DEF Remaining
<1>5. ASSUME d < Hops PROVE Remaining(d) = Remaining(d + 1) + HopBits
  <2>1. (d + 1) * HopBits = d * HopBits + HopBits
    BY Sizes
  <2>2. d * HopBits \in Int /\ AddrBits \in Int /\ FirstBits \in Int /\ HopBits \in Int
    BY Sizes
  <2> QED
    BY <2>1, <2>2 DEF Remaining
<1> QED
  BY <1>1, <1>2, <1>3, <1>4, <1>5

(* What is left below one table is what is left below the next one and the *)
(* bits of that.                                                           *)
LEMMA RemainingPow ==
  ASSUME NEW d \in 0..Hops
  PROVE  /\ Pow2[Remaining(d)] \in Nat \ {0}
         /\ d < Hops => /\ Pow2[Remaining(d + 1)] \in Nat \ {0}
                        /\ Pow2[Remaining(d)] = Pow2[Remaining(d + 1)] * Pow2[HopBits]
<1>1. Pow2[Remaining(d)] \in Nat \ {0}
  BY RemainingIs, PowFacts
<1>2. ASSUME d < Hops
      PROVE  /\ Pow2[Remaining(d + 1)] \in Nat \ {0}
             /\ Pow2[Remaining(d)] = Pow2[Remaining(d + 1)] * Pow2[HopBits]
  <2>1. d + 1 \in 0..Hops
    BY <1>2, Sizes
  <2>2. Remaining(d + 1) \in Nat
    BY <2>1, RemainingIs
  <2> QED
    BY <1>2, <2>2, RemainingIs, PowAdd, PowFacts, Sizes
<1> QED
  BY <1>1, <1>2

(* The addresses that find an entry, one depth after the other.            *)
LEMMA ChunkIs ==
  ASSUME NEW x \in Nat, NEW d \in 0..Hops, d < Hops
  PROVE  /\ Chunk(x, d + 1) \in 0..(Pow2[HopBits] - 1)
         /\ x \div Pow2[Remaining(d + 1)]
              = Pow2[HopBits] * (x \div Pow2[Remaining(d)]) + Chunk(x, d + 1)
<1>1. Chunk(x, d + 1) = (x % Pow2[Remaining(d)]) \div Pow2[Remaining(d + 1)]
  <2>1. d + 1 # 0 /\ (d + 1) - 1 = d
    OBVIOUS
  <2> QED
    BY <2>1 DEF Chunk
<1>2. Pow2[HopBits] \in Nat \ {0}
  BY PowFacts, Sizes
<1>3. /\ Pow2[Remaining(d + 1)] \in Nat \ {0}
      /\ Pow2[Remaining(d)] = Pow2[Remaining(d + 1)] * Pow2[HopBits]
  BY RemainingPow
<1> DEFINE b == Pow2[Remaining(d + 1)]  h == Pow2[HopBits]
<1> HIDE DEF b, h
<1>4. b \in Nat \ {0} /\ h \in Nat \ {0} /\ Pow2[Remaining(d)] = b * h
  BY <1>2, <1>3 DEF b, h
<1>5. /\ (x % (b * h)) \div b \in 0..(h - 1)
      /\ x \div b = h * (x \div (b * h)) + ((x % (b * h)) \div b)
  BY <1>4, DivDiv
<1>6. Chunk(x, d + 1) = (x % (b * h)) \div b
  BY <1>1, <1>4 DEF b
<1>7. /\ Chunk(x, d + 1) \in 0..(h - 1)
      /\ x \div b = h * (x \div (b * h)) + Chunk(x, d + 1)
  BY <1>5, <1>6
<1>8. x \div b = h * (x \div Pow2[Remaining(d)]) + Chunk(x, d + 1)
  BY <1>4, <1>7
<1> QED
  BY <1>7, <1>8 DEF b, h

(* The first index stays in the first table.                               *)
LEMMA FirstChunkIs ==
  ASSUME NEW x \in Addresses
  PROVE  /\ x \in Nat /\ Chunk(x, 0) = x \div Pow2[AddrBits - FirstBits]
         /\ Chunk(x, 0) \in 0..(Pow2[FirstBits] - 1)
<1>1. x \in Nat /\ x < Pow2[AddrBits]
  BY Sizes, PowFacts DEF Addresses
<1>2. Pow2[AddrBits] = Pow2[AddrBits - FirstBits] * Pow2[FirstBits]
  <2>1. AddrBits - FirstBits \in Nat /\ FirstBits \in Nat /\ (AddrBits - FirstBits) + FirstBits = AddrBits
    BY RoutingAssumption
  <2> QED
    BY <2>1, PowAdd
<1>3. Pow2[AddrBits - FirstBits] \in Nat \ {0} /\ Pow2[FirstBits] \in Nat
  BY PowFacts, RoutingAssumption
<1>4. x \div Pow2[AddrBits - FirstBits] < Pow2[FirstBits]
  BY <1>1, <1>2, <1>3, DivBelow
<1>5. x \div Pow2[AddrBits - FirstBits] \in Nat
  BY <1>1, <1>3, Division
<1>6. Chunk(x, 0) = x \div Pow2[AddrBits - FirstBits]
  <2>1. Remaining(0) = AddrBits - FirstBits
    BY RemainingIs, Sizes
  <2> QED
    BY <2>1 DEF Chunk
<1> QED
  BY <1>1, <1>3, <1>4, <1>5, <1>6

(* The entries that an address visits.                                     *)
LEMMA EntryIs ==
  ASSUME NEW x \in Addresses, NEW d \in 0..Hops
  PROVE  /\ Entry(x, d) \in Seq(Nat) /\ Len(Entry(x, d)) = d + 1
         /\ \A j \in 1..(d + 1) :
              /\ Entry(x, d)[j] = Chunk(x, j - 1)
              /\ Entry(x, d)[j] \in 0..(Pow2[IF j = 1 THEN FirstBits ELSE HopBits] - 1)
         /\ d < Hops => Entry(x, d + 1) = Append(Entry(x, d), Chunk(x, d + 1))
         /\ \A j \in 1..(d + 1) : SubSeq(Entry(x, d), 1, j) = Entry(x, j - 1)
<1>1. Hops \in Nat /\ d \in Nat /\ d + 1 \in Nat
  BY Sizes
<1>2. ASSUME NEW j \in 1..(d + 1)
      PROVE  /\ Chunk(x, j - 1) \in 0..(Pow2[IF j = 1 THEN FirstBits ELSE HopBits] - 1)
             /\ Chunk(x, j - 1) \in Nat
  <2>1. CASE j = 1
    BY <2>1, FirstChunkIs, PowFacts, Sizes
  <2>2. CASE j # 1
    <3>1. j - 2 \in 0..Hops /\ j - 2 < Hops /\ (j - 2) + 1 = j - 1
      BY <1>1, <2>2
    <3>2. Chunk(x, (j - 2) + 1) \in 0..(Pow2[HopBits] - 1)
      BY <3>1, ChunkIs, FirstChunkIs
    <3> QED
      BY <2>2, <3>1, <3>2, PowFacts, Sizes
  <2> QED
    BY <2>1, <2>2
<1>3. Entry(x, d) = [j \in 1..(d + 1) |-> Chunk(x, j - 1)]
  BY DEF Entry
<1>4. Entry(x, d) \in Seq(Nat) /\ Len(Entry(x, d)) = d + 1
  <2>1. Entry(x, d) \in [1..(d + 1) -> Nat]
    BY <1>2, <1>3
  <2> QED
    BY <1>1, <2>1
<1>5. \A j \in 1..(d + 1) : Entry(x, d)[j] = Chunk(x, j - 1)
  BY <1>3
<1>6. ASSUME d < Hops PROVE Entry(x, d + 1) = Append(Entry(x, d), Chunk(x, d + 1))
  <2>1. Append(Entry(x, d), Chunk(x, d + 1)) = [j \in 1..(d + 2) |-> IF j = d + 2 THEN Chunk(x, d + 1) ELSE Entry(x, d)[j]]
    BY <1>1, <1>4
  <2>2. Entry(x, d + 1) = [j \in 1..(d + 2) |-> Chunk(x, j - 1)]
    BY <1>1 DEF Entry
  <2>3. \A j \in 1..(d + 2) : Chunk(x, j - 1) = IF j = d + 2 THEN Chunk(x, d + 1) ELSE Entry(x, d)[j]
    BY <1>1, <1>5
  <2> QED
    BY <2>1, <2>2, <2>3
<1>7. ASSUME NEW j \in 1..(d + 1) PROVE SubSeq(Entry(x, d), 1, j) = Entry(x, j - 1)
  <2>1. SubSeq(Entry(x, d), 1, j) = [i \in 1..j |-> Entry(x, d)[i]]
    BY <1>1, <1>4
  <2>2. Entry(x, j - 1) = [i \in 1..j |-> Chunk(x, i - 1)]
    BY <1>1 DEF Entry
  <2>3. \A i \in 1..j : Entry(x, d)[i] = Chunk(x, i - 1)
    BY <1>1, <1>5
  <2> QED
    BY <2>1, <2>2, <2>3
<1> QED
  BY <1>2, <1>4, <1>5, <1>6, <1>7

(* Two sequences that are the same with an element more were the same.     *)
LEMMA SameAppend ==
  ASSUME NEW u \in Seq(Nat), NEW v \in Seq(Nat), Len(u) = Len(v), NEW a, NEW b,
         Append(u, a) = Append(v, b)
  PROVE  u = v /\ a = b
<1>1. /\ Append(u, a)[Len(u) + 1] = a /\ Append(v, b)[Len(v) + 1] = b
      /\ \A i \in 1..Len(u) : Append(u, a)[i] = u[i] /\ Append(v, b)[i] = v[i]
  BY SMTT(30)
<1>2. \A i \in 1..Len(u) : u[i] = v[i]
  BY <1>1
<1>3. u = v
  BY <1>2, SMTT(30)
<1>4. a = b
  BY <1>1, ZenonT(30)
<1> QED
  BY <1>3, <1>4

(* Two addresses visit the same entry when their bits down to it agree.    *)
LEMMA SameEntry ==
  ASSUME NEW x \in Addresses, NEW y \in Addresses, NEW d \in 0..Hops
  PROVE  Entry(x, d) = Entry(y, d) <=> x \div Pow2[Remaining(d)] = y \div Pow2[Remaining(d)]
<1> DEFINE Agree(n) == Entry(x, n) = Entry(y, n) <=> x \div Pow2[Remaining(n)] = y \div Pow2[Remaining(n)]
           T == {n \in Nat : n <= Hops => Agree(n)}
<1>0. Hops \in Nat /\ x \in Nat /\ y \in Nat
  BY Sizes, FirstChunkIs
<1>1. 0 \in T
  <2>1. /\ Entry(x, 0) = <<Chunk(x, 0)>> /\ Entry(y, 0) = <<Chunk(y, 0)>>
    <3>1. 0 \in 0..Hops
      BY <1>0
    <3>2. /\ Entry(x, 0) \in Seq(Nat) /\ Len(Entry(x, 0)) = 1 /\ Entry(x, 0)[1] = Chunk(x, 0)
          /\ Entry(y, 0) \in Seq(Nat) /\ Len(Entry(y, 0)) = 1 /\ Entry(y, 0)[1] = Chunk(y, 0)
      <4>1. /\ Entry(x, 0) \in Seq(Nat) /\ Len(Entry(x, 0)) = 0 + 1
            /\ \A j \in 1..(0 + 1) : Entry(x, 0)[j] = Chunk(x, j - 1)
        BY <3>1, EntryIs
      <4>2. /\ Entry(y, 0) \in Seq(Nat) /\ Len(Entry(y, 0)) = 0 + 1
            /\ \A j \in 1..(0 + 1) : Entry(y, 0)[j] = Chunk(y, j - 1)
        BY <3>1, EntryIs
      <4>3. 1 \in 1..(0 + 1) /\ 1 - 1 = 0 /\ 0 + 1 = 1
        OBVIOUS
      <4> QED
        BY <4>1, <4>2, <4>3
    <3> QED
      BY <3>2
  <2>2. Agree(0)
    BY <2>1 DEF Chunk
  <2> QED
    BY <2>2
<1>2. ASSUME NEW n \in Nat, n \in T PROVE n + 1 \in T
  <2> SUFFICES ASSUME n + 1 <= Hops PROVE Agree(n + 1)
    OBVIOUS
  <2>1. n \in 0..Hops /\ n < Hops /\ n + 1 \in 0..Hops
    BY <1>0
  <2>2. Agree(n)
    BY <1>2, <2>1
  <2>3. Entry(x, n + 1) = Entry(y, n + 1) <=> Entry(x, n) = Entry(y, n) /\ Chunk(x, n + 1) = Chunk(y, n + 1)
    <3>1. /\ Entry(x, n + 1) = Append(Entry(x, n), Chunk(x, n + 1))
          /\ Entry(y, n + 1) = Append(Entry(y, n), Chunk(y, n + 1))
          /\ Entry(x, n) \in Seq(Nat) /\ Entry(y, n) \in Seq(Nat)
          /\ Len(Entry(x, n)) = Len(Entry(y, n))
      BY <2>1, EntryIs
    <3>2. PICK u, v, a, b : u = Entry(x, n) /\ v = Entry(y, n) /\ a = Chunk(x, n + 1) /\ b = Chunk(y, n + 1)
      OBVIOUS
    <3>3. u \in Seq(Nat) /\ v \in Seq(Nat) /\ Len(u) = Len(v)
      BY <3>1, <3>2
    <3>4. ASSUME Append(u, a) = Append(v, b) PROVE u = v /\ a = b
      BY <3>3, <3>4, SameAppend, SMTT(40)
    <3> QED
      BY <3>1, <3>2, <3>4
  <2> DEFINE h == Pow2[HopBits]
             q(z) == z \div Pow2[Remaining(n)]
             s(z) == Chunk(z, n + 1)
  <2>4. h \in Nat \ {0} /\ Pow2[Remaining(n)] \in Nat \ {0}
    BY <2>1, PowFacts, Sizes, RemainingPow
  <2>5. /\ q(x) \in Nat /\ q(y) \in Nat
        /\ s(x) \in 0..(h - 1) /\ s(y) \in 0..(h - 1)
        /\ x \div Pow2[Remaining(n + 1)] = h * q(x) + s(x)
        /\ y \div Pow2[Remaining(n + 1)] = h * q(y) + s(y)
    <3>1. q(x) \in Nat /\ q(y) \in Nat
      BY <1>0, <2>4, Division
    <3> QED
      BY <1>0, <2>1, <3>1, ChunkIs
  <2>6. Entry(x, n) = Entry(y, n) <=> q(x) = q(y)
    BY <2>2
  <2> HIDE DEF h, q, s
  <2>7. h * q(x) + s(x) = h * q(y) + s(y) <=> q(x) = q(y) /\ s(x) = s(y)
    BY <2>4, <2>5, DigitsAre
  <2> QED
    BY <2>3, <2>5, <2>6, <2>7 DEF s
<1>3. \A n \in Nat : n \in T
  <2> HIDE DEF T
  <2> QED
    BY <1>1, <1>2, SetInduction
<1> QED
  BY <1>0, <1>3

----------------------------------------------------------------------------
(* What a prefix covers.                                                   *)

(* It ends below the first table: after how many turns of the loop.        *)
Below(p) == p.mask > FirstBits
Turns(p) == (p.mask - FirstBits - 1) \div HopBits

(* The depth of the table where it ends, that table, how many bits index   *)
(* it and how many of them are left of the mask.                           *)
DepthOf(p) == IF Below(p) THEN Turns(p) + 1 ELSE 0
Table(p)   == IF Below(p) THEN Entry(p.ipv4, Turns(p)) ELSE <<>>
Bits(p)    == IF Below(p) THEN HopBits ELSE FirstBits
Left(p)    == IF Below(p) THEN p.mask - FirstBits - Turns(p) * HopBits ELSE p.mask

(* The first entry that the loop writes, and all of them.                  *)
First(p)   == IF Below(p) THEN 0 ELSE p.ipv4 \div Pow2[AddrBits - p.mask]
Covered(p) == {Append(Table(p), First(p) + i) : i \in 0..(Pow2[Bits(p) - Left(p)] - 1)}

(* The entries that get a table.                                           *)
Way(p) == IF Below(p) THEN Opened(p.ipv4, Turns(p)) ELSE {}

(* What the assumptions say about a prefix.                                *)
LEMMA PrefixIs ==
  ASSUME NEW p \in Prefixes
  PROVE  /\ p.mask \in 0..AddrBits /\ p.ipv4 \in Addresses /\ p.ipv4 \in Nat
         /\ p.ipv4 % Pow2[AddrBits - p.mask] = 0
BY RoutingAssumption, Sizes, PowFacts DEF Addresses

(* A prefix below the first table ends after fewer turns than there are    *)
(* tables, with at least one bit left for the last; one that does not has  *)
(* its whole mask left.                                                    *)
LEMMA TurnsAre ==
  ASSUME NEW p \in Prefixes
  PROVE  /\ Below(p) => /\ Turns(p) \in 0..Hops /\ Turns(p) < Hops
                        /\ Left(p) \in 1..HopBits
                        /\ AddrBits - p.mask = Remaining(Turns(p) + 1) + (HopBits - Left(p))
                        /\ p.mask = FirstBits + Turns(p) * HopBits + Left(p)
         /\ ~Below(p) => Left(p) = p.mask /\ p.mask \in 0..FirstBits
<1>1. p.mask \in 0..AddrBits
  BY PrefixIs
<1>2. CASE Below(p)
  <2> DEFINE m == p.mask - FirstBits - 1  t == Turns(p)
  <2>1. m \in Nat /\ m < HopBits * Hops
    BY <1>1, <1>2, Sizes DEF Below
  <2>2. t \in Nat /\ m = HopBits * t + (m % HopBits) /\ m % HopBits \in 0..(HopBits - 1) /\ t < Hops
    BY <2>1, Sizes, Division, DivBelow DEF Turns
  <2>3. Left(p) = p.mask - FirstBits - t * HopBits
    BY <1>2 DEF Left
  <2>4. HopBits * t = t * HopBits /\ t * HopBits \in Nat /\ (t + 1) * HopBits = t * HopBits + HopBits
    BY <2>2, Sizes
  <2>5. Left(p) = (m % HopBits) + 1
    BY <1>1, <2>2, <2>3, <2>4, Sizes
  <2>6. Left(p) \in 1..HopBits
    BY <2>2, <2>5, Sizes
  <2>7. Remaining(t + 1) = AddrBits - FirstBits - t * HopBits - HopBits
    BY <2>4, Sizes DEF Remaining
  <2>8. p.mask = FirstBits + t * HopBits + Left(p)
    BY <1>1, <2>3, <2>4, Sizes
  <2>9. AddrBits - p.mask = Remaining(t + 1) + (HopBits - Left(p))
    BY <1>1, <2>3, <2>4, <2>7, Sizes
  <2>10. t \in 0..Hops
    BY <2>2, Sizes
  <2> QED
    BY <1>2, <2>2, <2>6, <2>8, <2>9, <2>10
<1>3. CASE ~Below(p)
  BY <1>1, <1>3, Sizes DEF Below, Left
<1> QED
  BY <1>2, <1>3

(* The entries that the loop writes are within one table.                  *)
LEMMA TableIs ==
  ASSUME NEW p \in Prefixes
  PROVE  /\ Table(p) \in Seq(Nat) /\ Len(Table(p)) = DepthOf(p) /\ DepthOf(p) \in 0..Hops
         /\ First(p) \in Nat /\ Bits(p) \in Nat /\ Left(p) \in 0..Bits(p)
         /\ First(p) + Pow2[Bits(p) - Left(p)] <= Pow2[Bits(p)]
         /\ Pow2[Bits(p) - Left(p)] \in Nat \ {0}
<1>1. /\ p.mask \in 0..AddrBits /\ p.ipv4 \in Addresses /\ p.ipv4 \in Nat
      /\ Bits(p) \in Nat /\ Left(p) \in 0..Bits(p)
  BY PrefixIs, TurnsAre, Sizes DEF Bits
<1>2. Pow2[Bits(p) - Left(p)] \in Nat \ {0} /\ Pow2[Bits(p)] \in Nat
  BY <1>1, PowFacts
<1>3. CASE Below(p)
  <2>1. Turns(p) \in 0..Hops /\ Turns(p) + 1 \in 0..Hops /\ DepthOf(p) = Turns(p) + 1
    BY <1>3, TurnsAre, Sizes DEF DepthOf
  <2>2. Table(p) \in Seq(Nat) /\ Len(Table(p)) = Turns(p) + 1
    BY <1>1, <1>3, <2>1, EntryIs DEF Table
  <2>3. Pow2[Bits(p) - Left(p)] <= Pow2[Bits(p)] /\ First(p) = 0
    BY <1>1, <1>3, PowMono DEF First
  <2> QED
    BY <1>1, <1>2, <2>1, <2>2, <2>3
<1>4. CASE ~Below(p)
  <2>1. Table(p) = <<>> /\ DepthOf(p) = 0 /\ 0 \in 0..Hops
    BY <1>4, Sizes DEF Table, DepthOf
  <2>2. /\ Left(p) = p.mask /\ p.mask \in 0..FirstBits /\ Bits(p) = FirstBits
        /\ First(p) = p.ipv4 \div Pow2[AddrBits - p.mask]
    BY <1>4, TurnsAre DEF Bits, First
  <2> DEFINE a == Pow2[p.mask]  b == Pow2[FirstBits - p.mask]
  <2>4. a \in Nat \ {0} /\ b \in Nat \ {0} /\ Pow2[FirstBits] = b * a
    BY <2>2, Sizes, PowSplit
  <2>5. First(p) \in Nat /\ First(p) < a
    <3>1. Pow2[AddrBits] = Pow2[AddrBits - p.mask] * a /\ Pow2[AddrBits - p.mask] \in Nat \ {0}
      BY <1>1, Sizes, PowSplit
    <3>2. p.ipv4 < Pow2[AddrBits]
      BY <1>1, PowFacts, Sizes DEF Addresses
    <3> DEFINE k == Pow2[AddrBits - p.mask]
    <3> HIDE DEF k, a
    <3>3. p.ipv4 < k * a /\ k \in Nat \ {0} /\ a \in Nat
      BY <2>4, <3>1, <3>2 DEF k
    <3>4. p.ipv4 \div k < a /\ p.ipv4 \div k \in Nat
      BY <1>1, <3>3, DivBelow, Division
    <3> QED
      BY <2>2, <3>4 DEF k
  <2> HIDE DEF a, b
  <2>6. First(p) + b <= b * a
    <3>1. (a - 1) * (b - 1) >= 0
      BY <2>4
    <3>2. (a - 1) * (b - 1) = b * a - a - b + 1
      BY <2>4
    <3>3. b * a \in Nat
      BY <2>4
    <3> QED
      BY <2>4, <2>5, <3>1, <3>2, <3>3
  <2> QED
    BY <1>1, <1>2, <2>1, <2>2, <2>4, <2>5, <2>6 DEF b
<1> QED
  BY <1>3, <1>4

(* The entries covered are entries of the table, and all on the way to     *)
(* them get one.                                                           *)
LEMMA CoveredAre ==
  ASSUME NEW p \in Prefixes, NEW loc \in Covered(p)
  PROVE  /\ loc \in Seq(Nat) /\ Len(loc) = DepthOf(p) + 1 /\ DepthOf(p) \in 0..Hops
         /\ \A j \in 1..Len(loc) : loc[j] \in 0..(Pow2[IF j = 1 THEN FirstBits ELSE HopBits] - 1)
         /\ \A j \in 1..(Len(loc) - 1) : SubSeq(loc, 1, j) \in Way(p)
<1>1. PICK i \in 0..(Pow2[Bits(p) - Left(p)] - 1) : loc = Append(Table(p), First(p) + i)
  BY DEF Covered
<1>2. /\ Table(p) \in Seq(Nat) /\ Len(Table(p)) = DepthOf(p) /\ DepthOf(p) \in 0..Hops
      /\ First(p) + i \in Nat /\ First(p) + i < Pow2[Bits(p)] /\ Pow2[Bits(p)] \in Nat
  <2>1. /\ Table(p) \in Seq(Nat) /\ Len(Table(p)) = DepthOf(p) /\ DepthOf(p) \in 0..Hops
        /\ First(p) \in Nat /\ Bits(p) \in Nat
        /\ First(p) + Pow2[Bits(p) - Left(p)] <= Pow2[Bits(p)]
        /\ Pow2[Bits(p) - Left(p)] \in Nat \ {0}
    BY TableIs
  <2>2. Pow2[Bits(p)] \in Nat
    BY <2>1, PowFacts
  <2> QED
    BY <2>1, <2>2, SMTT(30)
<1>3. /\ loc \in Seq(Nat) /\ Len(loc) = DepthOf(p) + 1 /\ DepthOf(p) \in Nat
      /\ loc[DepthOf(p) + 1] = First(p) + i
      /\ \A j \in 1..DepthOf(p) : loc[j] = Table(p)[j]
  BY <1>1, <1>2, Sizes
<1>4. CASE Below(p)
  <2>1. /\ Turns(p) \in 0..Hops /\ p.ipv4 \in Addresses /\ Table(p) = Entry(p.ipv4, Turns(p))
        /\ DepthOf(p) = Turns(p) + 1 /\ Turns(p) \in Nat /\ Bits(p) = HopBits
    <3>1. Turns(p) \in 0..Hops
      BY <1>4, TurnsAre
    <3>2. p.ipv4 \in Addresses
      BY PrefixIs
    <3>3. Table(p) = Entry(p.ipv4, Turns(p)) /\ DepthOf(p) = Turns(p) + 1 /\ Bits(p) = HopBits
      BY <1>4 DEF Table, DepthOf, Bits
    <3>4. Turns(p) \in Nat
      BY <3>1, Sizes
    <3> QED
      BY <3>1, <3>2, <3>3, <3>4
  <2>2. /\ \A j \in 1..(Turns(p) + 1) : Table(p)[j] \in 0..(Pow2[IF j = 1 THEN FirstBits ELSE HopBits] - 1)
        /\ \A j \in 1..(Turns(p) + 1) : SubSeq(Table(p), 1, j) = Entry(p.ipv4, j - 1)
    BY <2>1, EntryIs, SMTT(40)
  <2>3. \A j \in 1..Len(loc) : loc[j] \in 0..(Pow2[IF j = 1 THEN FirstBits ELSE HopBits] - 1)
    <3> SUFFICES ASSUME NEW j \in 1..Len(loc)
                 PROVE  loc[j] \in 0..(Pow2[IF j = 1 THEN FirstBits ELSE HopBits] - 1)
      OBVIOUS
    <3>1. CASE j \in 1..(Turns(p) + 1)
      BY <1>3, <2>1, <2>2, <3>1
    <3>2. CASE j = Turns(p) + 2
      BY <1>2, <1>3, <2>1, <3>2, SMTT(30)
    <3> QED
      BY <1>3, <2>1, <3>1, <3>2
  <2>4. ASSUME NEW j \in 1..(Len(loc) - 1) PROVE SubSeq(loc, 1, j) \in Way(p)
    <3>1. j \in 1..(Turns(p) + 1) /\ j - 1 \in 0..Turns(p)
      BY <1>3, <2>1
    <3>2. SubSeq(loc, 1, j) = SubSeq(Table(p), 1, j)
      <4>1. SubSeq(loc, 1, j) = [k \in 1..j |-> loc[k]] /\ SubSeq(Table(p), 1, j) = [k \in 1..j |-> Table(p)[k]]
        BY <1>2, <1>3, <2>1, <3>1
      <4>2. \A k \in 1..j : loc[k] = Table(p)[k]
        BY <1>3, <2>1, <3>1
      <4> QED
        BY <4>1, <4>2
    <3> QED
      BY <1>4, <2>2, <3>1, <3>2 DEF Way, Opened
  <2> QED
    BY <1>2, <1>3, <2>3, <2>4
<1>5. CASE ~Below(p)
  <2>1. DepthOf(p) = 0 /\ Bits(p) = FirstBits
    BY <1>5 DEF DepthOf, Bits
  <2> QED
    BY <1>2, <1>3, <2>1
<1> QED
  BY <1>4, <1>5

(* Each table on the way hangs below one on the way.                       *)
LEMMA WayIs ==
  ASSUME NEW p \in Prefixes, NEW loc \in Way(p)
  PROVE  /\ Len(loc) \in 1..(Levels - 1)
         /\ \A j \in 1..(Len(loc) - 1) : SubSeq(loc, 1, j) \in Way(p)
<1>1. Below(p) /\ \E d \in 0..Turns(p) : loc = Entry(p.ipv4, d)
  BY DEF Way, Opened
<1>2. PICK d \in 0..Turns(p) : loc = Entry(p.ipv4, d)
  BY <1>1
<1>3. Turns(p) \in Nat /\ Turns(p) < Hops /\ d \in 0..Hops /\ Hops \in Nat /\ p.ipv4 \in Addresses
  BY <1>1, TurnsAre, Sizes, PrefixIs
<1>4. Len(loc) = d + 1 /\ \A j \in 1..(d + 1) : SubSeq(loc, 1, j) = Entry(p.ipv4, j - 1)
  BY <1>2, <1>3, EntryIs, ZenonT(40)
<1>5. \A j \in 1..(d + 1) : j - 1 \in 0..Turns(p)
  BY <1>3
<1>6. Way(p) = {Entry(p.ipv4, e) : e \in 0..Turns(p)}
  BY <1>1 DEF Way, Opened
<1>7. Len(loc) \in 1..(Levels - 1)
  BY <1>3, <1>4, Sizes
<1>8. ASSUME NEW j \in 1..(Len(loc) - 1) PROVE SubSeq(loc, 1, j) \in Way(p)
  BY <1>3, <1>4, <1>5, <1>6
<1> QED
  BY <1>7, <1>8

----------------------------------------------------------------------------
(* The invariant.                                                          *)

(* What is written to the entries that the prefix of r covers.             *)
RuleOf(r) == [port |-> r.port % PortCount, lpm |-> Left(r.prefix) % Pow2[LpmBits]]

(* Every entry on the way of a rule added has a table, and every one that  *)
(* it covers has a port.                                                   *)
Reached ==
  \A r \in added : Way(r.prefix) \subseteq tables /\ Covered(r.prefix) \subseteq DOMAIN rules

(* No rule added for the entry leaves less of it open.                     *)
LeavesLeast(r, loc) ==
  \A q \in added : loc \in Covered(q.prefix) => Left(q.prefix) <= Left(r.prefix)

(* What is in an entry is from a rule added, and, as long as no mask has   *)
(* been recorded that lpm does not hold, from one of the longest.          *)
FromRules ==
  \A loc \in DOMAIN rules : \E r \in added :
    /\ loc \in Covered(r.prefix) /\ rules[loc] = RuleOf(r)
    /\ ~LpmWraps => LeavesLeast(r, loc)

(* There is no table but on the way of a rule added.                       *)
FromWays == \A loc \in tables : \E r \in added : loc \in Way(r.prefix)

(* The inductive invariant.                                                *)
IInv == added \subseteq [prefix : Prefixes, port : Ports] /\ Reached /\ FromRules /\ FromWays

(* The table starts empty.                                                 *)
LEMMA InitIInv == Init => IInv
BY DEF Init, IInv, Reached, FromRules, FromWays

(* A line of the file, in these terms.                                     *)
LEMMA AddIs ==
  ASSUME NEW p \in Prefixes, NEW port \in Ports, RoutingEntryAdd(p, port)
  PROVE  /\ tables' = tables \union Way(p)
         /\ rules' = [loc \in DOMAIN rules \union Covered(p) |->
                        IF loc \in Covered(p) /\ Replaces(loc, Left(p))
                        THEN RuleOf([prefix |-> p, port |-> port]) ELSE rules[loc]]
         /\ added' = added \union {[prefix |-> p, port |-> port]}
<1>1. CASE Below(p)
  <2> DEFINE d == (p.mask - FirstBits - 1) \div HopBits
             left == p.ipv4 % Pow2[Remaining(d)]
  <2>1. AddLong(p, port) /\ d = Turns(p)
    BY <1>1, Sizes, PrefixIs DEF RoutingEntryAdd, AddShort, Below, Turns
  <2>2. left \div Pow2[Remaining(d)] = 0
    <3>1. Pow2[Remaining(d)] \in Nat \ {0} /\ p.ipv4 \in Nat
      BY <1>1, <2>1, TurnsAre, PrefixIs, RemainingPow
    <3>2. left \in 0..(Pow2[Remaining(d)] - 1)
      BY <3>1, Division
    <3> DEFINE k == Pow2[Remaining(d)]
    <3>3. k \in Nat \ {0} /\ left \in 0..(k - 1)
      BY <3>1, <3>2
    <3> HIDE DEF k, left
    <3>4. left = k * 0 + left /\ left \in Nat
      BY <3>3
    <3>5. left \div k = 0
      BY <3>3, <3>4, DivisionIs
    <3> QED
      BY <3>5 DEF k
  <2>3. /\ tables' = tables \union Opened(p.ipv4, d)
        /\ Fill(Entry(p.ipv4, d), left \div Pow2[Remaining(d)], HopBits, p.mask - FirstBits - d * HopBits, port)
    BY <2>1 DEF AddLong
  <2> HIDE DEF d, left
  <2>4. Fill(Table(p), First(p), Bits(p), Left(p), port)
    BY <1>1, <2>1, <2>2, <2>3 DEF Table, First, Bits, Left
  <2>5. Way(p) = Opened(p.ipv4, d)
    BY <1>1, <2>1 DEF Way
  <2> QED
    BY <2>3, <2>4, <2>5 DEF Fill, Span, Covered, RuleOf, RoutingEntryAdd
<1>2. CASE ~Below(p)
  <2>1. AddShort(p, port)
    BY <1>2 DEF RoutingEntryAdd, AddLong, Below
  <2>2. Fill(Table(p), First(p), Bits(p), Left(p), port)
    BY <1>2, <2>1 DEF AddShort, Table, First, Bits, Left
  <2>3. tables' = tables /\ Way(p) = {}
    BY <1>2, <2>1 DEF AddShort, Way
  <2> QED
    BY <2>2, <2>3 DEF Fill, Span, Covered, RuleOf, RoutingEntryAdd
<1> QED
  BY <1>1, <1>2

(* lpm holds the mask that is recorded, except for FirstBits.              *)
LEMMA LpmHolds ==
  ASSUME NEW p \in Prefixes
  PROVE  /\ Left(p) \in Nat /\ Pow2[LpmBits] \in Nat \ {0}
         /\ Left(p) % Pow2[LpmBits] \in Nat /\ Left(p) % Pow2[LpmBits] <= Left(p)
         /\ Below(p) \/ p.mask # FirstBits => Left(p) % Pow2[LpmBits] = Left(p)
<1>1. Left(p) \in Nat /\ Pow2[LpmBits] \in Nat \ {0}
  BY TurnsAre, Sizes, PowFacts
<1> DEFINE x == Left(p)  k == Pow2[LpmBits]
<1>2. Below(p) \/ p.mask # FirstBits => x < k
  BY TurnsAre, LpmAssumption, Sizes, <1>1
<1> HIDE DEF x, k
<1>3. x \in Nat /\ k \in Nat \ {0}
  BY <1>1 DEF x, k
<1>4. x % k \in 0..(k - 1) /\ x = k * (x \div k) + (x % k) /\ x \div k \in Nat
  BY <1>3, Division
<1>5. x % k <= x
  <2>1. k * (x \div k) \in Nat
    BY <1>3, <1>4
  <2> QED
    BY <1>3, <1>4, <2>1
<1>6. ASSUME x < k PROVE x % k = x
  <2>1. x = k * 0 + x /\ x \in 0..(k - 1)
    BY <1>3, <1>6
  <2> QED
    BY <1>3, <2>1, DivisionIs
<1>7. x % k \in Nat
  BY <1>3, <1>4
<1> QED
  BY <1>2, <1>3, <1>5, <1>6, <1>7 DEF x, k

(* A rule that is replaced, or is not there, leaves no less open than the  *)
(* one that is written.                                                    *)
LEMMA ReplacedLeavesMore ==
  ASSUME IInv, NEW p \in Prefixes, NEW port \in Ports, RoutingEntryAdd(p, port), ~LpmWraps',
         NEW loc \in Covered(p), Replaces(loc, Left(p)),
         NEW q \in added, loc \in Covered(q.prefix)
  PROVE  Left(q.prefix) <= Left(p)
<1> DEFINE n == [prefix |-> p, port |-> port]
<1>1. n \in added' /\ added \subseteq added'
  <2>1. added' = added \union {n}
    BY AddIs, ZenonT(40)
  <2> QED
    BY <2>1
<1>2. ~LpmWraps
  BY <1>1 DEF LpmWraps
<1>3. loc \in DOMAIN rules
  BY DEF IInv, Reached
<1>4. PICK r \in added : /\ loc \in Covered(r.prefix) /\ rules[loc] = RuleOf(r)
                         /\ LeavesLeast(r, loc)
  BY <1>2, <1>3 DEF IInv, FromRules
<1>5. p \in Prefixes /\ q.prefix \in Prefixes /\ r.prefix \in Prefixes
  BY DEF IInv
<1>6. /\ Left(q.prefix) <= Left(r.prefix)
      /\ Left(r.prefix) % Pow2[LpmBits] < Left(p)
  BY <1>3, <1>4 DEF LeavesLeast, Replaces, RuleOf
<1>7. Left(p) \in Nat /\ Left(q.prefix) \in Nat /\ Left(r.prefix) \in Nat
  BY <1>5, LpmHolds
<1>8. CASE Below(r.prefix) \/ r.prefix.mask # FirstBits
  BY <1>5, <1>6, <1>7, <1>8, LpmHolds
<1>9. CASE ~Below(r.prefix) /\ r.prefix.mask = FirstBits
  <2>1. DepthOf(p) = DepthOf(r.prefix)
    <3>1. Len(loc) = DepthOf(p) + 1 /\ DepthOf(p) \in 0..Hops
      BY <1>5, CoveredAre
    <3>2. Len(loc) = DepthOf(r.prefix) + 1 /\ DepthOf(r.prefix) \in 0..Hops
      BY <1>4, <1>5, CoveredAre
    <3> QED
      BY <3>1, <3>2
  <2>2. ~Below(p)
    <3>1. ASSUME Below(p) PROVE FALSE
      <4>1. Turns(p) \in 0..Hops /\ DepthOf(p) = Turns(p) + 1 /\ DepthOf(r.prefix) = 0
        BY <1>9, <3>1, TurnsAre DEF DepthOf
      <4>2. Turns(p) \in Nat
        BY <4>1, Sizes
      <4>3. Turns(p) + 1 = 0
        BY <2>1, <4>1
      <4> QED
        BY <4>2, <4>3
    <3> QED
      BY <3>1
  <2>3. Left(p) = p.mask /\ p.mask \in 0..FirstBits /\ Left(r.prefix) = FirstBits
    BY <1>5, <1>9, <2>2, TurnsAre
  <2>4. p.mask \notin 1..(FirstBits - 1)
    <3>1. n.prefix = p /\ r \in added'
      BY <1>1
    <3> QED
      BY <1>1, <1>9, <3>1 DEF LpmWraps
  <2>5. Left(r.prefix) % Pow2[LpmBits] \in Nat
    BY <1>5, LpmHolds
  <2> QED
    BY <1>6, <1>7, <2>3, <2>4, <2>5, Sizes
<1> QED
  BY <1>8, <1>9

(* A line of the file keeps the invariant.                                 *)
LEMMA AddStep ==
  ASSUME IInv, NEW p \in Prefixes, NEW port \in Ports, RoutingEntryAdd(p, port)
  PROVE  IInv'
<1> DEFINE n == [prefix |-> p, port |-> port]
<1>1. /\ tables' = tables \union Way(p)
      /\ rules' = [loc \in DOMAIN rules \union Covered(p) |->
                     IF loc \in Covered(p) /\ Replaces(loc, Left(p)) THEN RuleOf(n) ELSE rules[loc]]
      /\ added' = added \union {n}
  BY AddIs
<1>2. n.prefix = p /\ n.port = port
  OBVIOUS
<1>3. DOMAIN rules' = DOMAIN rules \union Covered(p)
  BY <1>1
<1>4. added' \subseteq [prefix : Prefixes, port : Ports]
  BY <1>1 DEF IInv
<1>5. Reached'
  <2> SUFFICES ASSUME NEW r \in added'
               PROVE  Way(r.prefix) \subseteq tables' /\ Covered(r.prefix) \subseteq DOMAIN rules'
    BY DEF Reached, Way, Covered, Below, Opened, Turns, Entry, Chunk, Remaining, Table, First, Bits, Left
  <2>1. CASE r = n
    BY <1>1, <1>2, <1>3, <2>1
  <2>2. CASE r \in added
    BY <1>1, <1>3, <2>2 DEF IInv, Reached
  <2> QED
    BY <1>1, <2>1, <2>2
<1>6. FromWays'
  <2> SUFFICES ASSUME NEW loc \in tables' PROVE \E r \in added' : loc \in Way(r.prefix)
    BY DEF FromWays
  <2>1. CASE loc \in Way(p)
    BY <1>1, <1>2, <2>1
  <2>2. CASE loc \in tables
    BY <1>1, <2>2 DEF IInv, FromWays
  <2> QED
    BY <1>1, <2>1, <2>2
<1>7. LpmWraps => LpmWraps'
  BY <1>1 DEF LpmWraps
<1>8. FromRules'
  <2> SUFFICES ASSUME NEW loc \in DOMAIN rules'
               PROVE  \E r \in added' : /\ loc \in Covered(r.prefix) /\ rules'[loc] = RuleOf(r)
                                        /\ ~LpmWraps' => LeavesLeast(r, loc)'
    BY DEF FromRules
  <2>1. CASE loc \in Covered(p) /\ Replaces(loc, Left(p))
    <3>1. rules'[loc] = RuleOf(n)
      BY <1>1, <1>3, <2>1
    <3>2. ASSUME ~LpmWraps', NEW q \in added', loc \in Covered(q.prefix)
          PROVE  Left(q.prefix) <= Left(n.prefix)
      <4>1. CASE q = n
        BY <1>2, <4>1, LpmHolds
      <4>2. CASE q \in added
        BY <1>2, <2>1, <3>2, <4>2, ReplacedLeavesMore
      <4> QED
        BY <1>1, <4>1, <4>2
    <3>3. ~LpmWraps' => LeavesLeast(n, loc)'
      BY <3>2 DEF LeavesLeast
    <3> QED
      BY <1>1, <1>2, <2>1, <3>1, <3>3
  <2>2. CASE ~(loc \in Covered(p) /\ Replaces(loc, Left(p)))
    <3>1. loc \in DOMAIN rules /\ rules'[loc] = rules[loc]
      BY <1>1, <1>3, <2>2 DEF Replaces
    <3>2. PICK r \in added : /\ loc \in Covered(r.prefix) /\ rules[loc] = RuleOf(r)
                             /\ ~LpmWraps => LeavesLeast(r, loc)
      BY <3>1 DEF IInv, FromRules
    <3>3. ASSUME ~LpmWraps', NEW q \in added', loc \in Covered(q.prefix)
          PROVE  Left(q.prefix) <= Left(r.prefix)
      <4>1. CASE q = n
        <5>1. ~(Left(r.prefix) % Pow2[LpmBits] < Left(p))
          BY <1>2, <2>2, <3>1, <3>2, <3>3, <4>1 DEF Replaces, RuleOf
        <5>2. r.prefix \in Prefixes
          BY DEF IInv
        <5> QED
          BY <1>2, <4>1, <5>1, <5>2, LpmHolds
      <4>2. CASE q \in added
        BY <1>7, <3>2, <3>3, <4>2 DEF LeavesLeast
      <4> QED
        BY <1>1, <4>1, <4>2
    <3>4. ~LpmWraps' => LeavesLeast(r, loc)'
      BY <3>3 DEF LeavesLeast
    <3> QED
      BY <1>1, <3>1, <3>2, <3>4
  <2> QED
    BY <2>1, <2>2
<1> QED
  BY <1>4, <1>5, <1>6, <1>8 DEF IInv

(* What is in the tables comes from the rules added, each rule where its   *)
(* prefix ends, and from the longest of them.                              *)
THEOREM Invariance == Spec => []IInv
<1>1. Init => IInv
  BY InitIInv
<1>2. IInv /\ [Next]_vars => IInv'
  <2> SUFFICES ASSUME IInv, [Next]_vars PROVE IInv'
    OBVIOUS
  <2>1. CASE Next
    BY <2>1, AddStep DEF Next
  <2>2. CASE UNCHANGED vars
    BY <2>2 DEF vars, IInv, Reached, FromRules, FromWays, LpmWraps, LeavesLeast
  <2> QED
    BY <2>1, <2>2
<1> QED
  BY <1>1, <1>2, PTL DEF Spec

(* A rule's entries are within the tables it ends in, and its own values in*)
(* the fields of the entry.                                                *)
LEMMA IInvTypeOK == IInv => TypeOK
<1> SUFFICES ASSUME IInv PROVE TypeOK
  OBVIOUS
<1>1. ASSUME NEW loc \in DOMAIN rules
      PROVE  /\ Len(loc) \in 1..Levels
             /\ \A j \in 1..Len(loc) : loc[j] \in 0..(Pow2[IF j = 1 THEN FirstBits ELSE HopBits] - 1)
             /\ rules[loc] \in [port : 0..(PortCount - 1), lpm : 0..(Pow2[LpmBits] - 1)]
  <2>1. PICK r \in added : loc \in Covered(r.prefix) /\ rules[loc] = RuleOf(r)
    BY DEF IInv, FromRules
  <2>2. r.prefix \in Prefixes /\ r.port \in Nat
    BY RoutingAssumption DEF IInv
  <2>3. /\ Len(loc) = DepthOf(r.prefix) + 1 /\ DepthOf(r.prefix) \in 0..Hops
        /\ \A j \in 1..Len(loc) : loc[j] \in 0..(Pow2[IF j = 1 THEN FirstBits ELSE HopBits] - 1)
    BY <2>1, <2>2, CoveredAre
  <2>4. r.port % PortCount \in 0..(PortCount - 1)
    BY <2>2, Sizes, Division
  <2>5. Left(r.prefix) % Pow2[LpmBits] \in 0..(Pow2[LpmBits] - 1)
    BY <2>2, LpmHolds, Division
  <2>6. Len(loc) \in 1..Levels
    BY <2>3, Sizes
  <2> QED
    BY <2>1, <2>3, <2>4, <2>5, <2>6 DEF RuleOf
<1>2. ASSUME NEW loc \in tables PROVE Len(loc) \in 1..(Levels - 1)
  <2>1. PICK r \in added : loc \in Way(r.prefix)
    BY DEF IInv, FromWays
  <2> QED
    BY <2>1, WayIs DEF IInv
<1> QED
  BY <1>1, <1>2 DEF TypeOK

(* No index leaves its table and no table hangs too deep, whatever is      *)
(* added (TypeOK).                                                         *)
THEOREM TypeCorrect == Spec => []TypeOK
BY Invariance, IInvTypeOK, PTL

(* What hangs below an entry is from a rule whose way that entry is on.    *)
LEMMA IInvConnected == IInv => Connected
<1> SUFFICES ASSUME IInv, NEW loc \in DOMAIN rules \union tables, NEW j \in 1..(Len(loc) - 1)
             PROVE  SubSeq(loc, 1, j) \in tables
  BY DEF Connected
<1>1. CASE loc \in DOMAIN rules
  <2>1. PICK r \in added : loc \in Covered(r.prefix)
    BY <1>1 DEF IInv, FromRules
  <2>2. SubSeq(loc, 1, j) \in Way(r.prefix)
    BY <2>1, CoveredAre DEF IInv
  <2> QED
    BY <2>2 DEF IInv, Reached
<1>2. CASE loc \in tables
  <2>1. PICK r \in added : loc \in Way(r.prefix)
    BY <1>2 DEF IInv, FromWays
  <2>2. SubSeq(loc, 1, j) \in Way(r.prefix)
    BY <2>1, WayIs DEF IInv
  <2> QED
    BY <2>2 DEF IInv, Reached
<1> QED
  BY <1>1, <1>2

(* No rule and no table is ever cut off.                                   *)
THEOREM AlwaysConnected == Spec => []Connected
BY Invariance, IInvConnected, PTL

----------------------------------------------------------------------------
(* Longest prefix match.                                                   *)

(* Quotients below w, and of zero, in terms of the dividend.               *)
LEMMA DivSmall ==
  ASSUME NEW y \in Nat, NEW b \in Nat \ {0}, NEW w \in Nat \ {0}
  PROVE  /\ y \div b < w <=> y < b * w
         /\ y \div b = 0 <=> y < b
         /\ b <= b * w /\ b * w \in Nat \ {0}
<1>1. PICK q \in Nat, r \in 0..(b - 1) : y \div b = q /\ y = b * q + r
  BY Division
<1>2. b <= b * w /\ b * w \in Nat \ {0}
  OBVIOUS
<1>3. ASSUME q < w PROVE y < b * w
  <2>1. b * (q + 1) <= b * w
    BY <1>3
  <2>2. b * (q + 1) = b * q + b /\ b * q \in Nat
    OBVIOUS
  <2> QED
    BY <1>1, <1>2, <2>1, <2>2
<1>4. ASSUME y < b * w PROVE q < w
  BY <1>1, <1>4, DivBelow
<1>5. ASSUME q = 0 PROVE y < b
  BY <1>1, <1>5
<1>6. ASSUME y < b PROVE q = 0
  <2>1. y < b * 1
    BY <1>6
  <2>2. q < 1
    BY <1>1, <2>1, DivBelow
  <2> QED
    BY <2>2
<1>7. (q < w <=> y < b * w) /\ (q = 0 <=> y < b)
  BY <1>3, <1>4, <1>5, <1>6
<1> QED
  BY <1>1, <1>2, <1>7, Zenon

(* Below the first table, in numbers: a1 entries of the last table, of     *)
(* which w are covered of w * v.                                           *)
InBlock(x, y, a0, a1, w, v) ==
  x \div (a1 * w) = y \div (a1 * w) <=> x \div a0 = y \div a0 /\ (x % a0) \div a1 < w

(* The last index of y is the first of its table.                          *)
AtItsStart(y, a0, a1) == (y % a0) \div a1 = 0

(* Below the first table, y at its start: x is in the block that y begins  *)
(* just when it agrees with y above and has a low digit below w.           *)
LEMMA MatchBelow ==
  ASSUME NEW x \in Nat, NEW y \in Nat, NEW a1 \in Nat \ {0}, NEW w \in Nat \ {0}, NEW v \in Nat \ {0},
         NEW a0 \in Nat, a0 = a1 * (w * v), AtItsStart(y, a0, a1)
  PROVE  InBlock(x, y, a0, a1, w, v)
<1>1. PICK c \in Nat \ {0} : c = a1 * w
  <2>1. a1 * w \in Nat \ {0}
    OBVIOUS
  <2> QED
    BY <2>1
<1>2. a0 = c * v /\ a0 \in Nat \ {0}
  <2>1. a1 * (w * v) = (a1 * w) * v
    OBVIOUS
  <2>2. c * v \in Nat \ {0}
    OBVIOUS
  <2> QED
    BY <1>1, <2>1, <2>2
<1>3. PICK qx \in Nat, rx \in Nat, qy \in Nat, ry \in Nat :
        qx = x \div a0 /\ rx = x % a0 /\ qy = y \div a0 /\ ry = y % a0
  <2>1. x \div a0 \in Nat /\ x % a0 \in 0..(a0 - 1)
    BY <1>2, Division
  <2>2. y \div a0 \in Nat /\ y % a0 \in 0..(a0 - 1)
    BY <1>2, Division
  <2>3. \A r \in 0..(a0 - 1) : r \in Nat
    BY <1>2
  <2> QED
    BY <2>1, <2>2, <2>3, Zenon
<1>4. PICK sx \in 0..(v - 1), sy \in 0..(v - 1) :
        sx = rx \div c /\ sy = ry \div c /\ x \div c = v * qx + sx /\ y \div c = v * qy + sy
  <2>1. \A z \in Nat : /\ (z % (c * v)) \div c \in 0..(v - 1)
                       /\ z \div c = v * (z \div (c * v)) + ((z % (c * v)) \div c)
    <3> SUFFICES ASSUME NEW z \in Nat
                 PROVE  /\ (z % (c * v)) \div c \in 0..(v - 1)
                        /\ z \div c = v * (z \div (c * v)) + ((z % (c * v)) \div c)
      OBVIOUS
    <3> QED
      BY ONLY c \in Nat \ {0}, z \in Nat, DivDiv, Zenon
  <2>2. /\ rx \div c \in 0..(v - 1) /\ x \div c = v * qx + (rx \div c)
        /\ ry \div c \in 0..(v - 1) /\ y \div c = v * qy + (ry \div c)
    BY <1>2, <1>3, <2>1, Zenon
  <2> QED
    BY <2>2, Zenon
<1>5. sy = 0
  <2>1. ry \div a1 = 0
    BY <1>3, Zenon DEF AtItsStart
  <2>2. ry < a1 /\ a1 <= c
    BY <1>1, <2>1, DivSmall
  <2>3. ry < c
    BY <2>2
  <2> QED
    BY <1>4, <2>3, DivSmall
<1>6. sx = 0 <=> rx \div a1 < w
  <2>1. rx \div c = 0 <=> rx < c
    BY DivSmall
  <2>2. rx \div a1 < w <=> rx < a1 * w
    BY DivSmall
  <2> QED
    BY <1>1, <1>4, <2>1, <2>2, Zenon
<1>7. v * qx + sx = v * qy + sy <=> qx = qy /\ sx = sy
  BY DigitsAre
<1>8. x \div c = y \div c <=> qx = qy /\ rx \div a1 < w
  BY <1>4, <1>5, <1>6, <1>7, Zenon
<1> QED
  BY <1>1, <1>3, <1>8, Zenon DEF InBlock

(* Of some depths one is the deepest.                                      *)
LEMMA Largest ==
  ASSUME NEW n \in Nat, NEW T, T \subseteq 0..n, T # {}
  PROVE  \E m \in T : \A k \in T : k <= m
<1> DEFINE U == {n - k : k \in T}
<1>1. U \subseteq Nat /\ U # {}
  <2>1. \A k \in T : n - k \in Nat
    OBVIOUS
  <2> QED
    BY <2>1, Zenon
<1>2. PICK u \in U : \A k \in U : u <= k
  <2> HIDE DEF U
  <2> QED
    BY <1>1, Least
<1>3. PICK m \in T : u = n - m
  BY <1>2
<1>4. \A k \in T : n - m <= n - k
  BY <1>2, <1>3
<1>5. \A k \in T : k <= m
  BY <1>4
<1> QED
  BY <1>5

(* A prefix that ends where the code expects it covers, of the entries of  *)
(* its depth, those of the addresses that match it.                        *)
LEMMA CoversMatching ==
  ASSUME NEW p \in Prefixes, WellPlaced(p), NEW x \in Addresses
  PROVE  Entry(x, DepthOf(p)) \in Covered(p) <=> Matches(p, x)
<1> DEFINE y == p.ipv4
<1>1. x \in Nat /\ y \in Nat /\ y \in Addresses /\ p.mask \in 0..AddrBits
  BY PrefixIs, FirstChunkIs
<1>2. CASE Below(p)
  <2> DEFINE t == Turns(p)
             a0 == Pow2[Remaining(t)]  a1 == Pow2[Remaining(t + 1)]
             w == Pow2[HopBits - Left(p)]  v == Pow2[Left(p)]
  <2>1. /\ t \in 0..Hops /\ t < Hops /\ Left(p) \in 1..HopBits
        /\ AddrBits - p.mask = Remaining(t + 1) + (HopBits - Left(p))
        /\ DepthOf(p) = t + 1 /\ t + 1 \in 0..Hops /\ Table(p) = Entry(y, t) /\ First(p) = 0
        /\ Bits(p) = HopBits
    BY <1>2, TurnsAre, Sizes DEF DepthOf, Table, First, Bits
  <2>2. /\ a0 \in Nat \ {0} /\ a1 \in Nat \ {0} /\ a0 = a1 * Pow2[HopBits]
    BY <2>1, RemainingPow
  <2>3. w \in Nat \ {0} /\ v \in Nat \ {0} /\ Pow2[HopBits] = w * v
    BY <2>1, Sizes, PowSplit
  <2>4. Pow2[AddrBits - p.mask] = a1 * w
    <3>1. Remaining(t + 1) \in Nat /\ HopBits - Left(p) \in Nat
      BY <2>1, RemainingIs, Sizes
    <3> QED
      BY <2>1, <3>1, PowAdd
  <2>5. /\ Chunk(x, t + 1) = (x % a0) \div a1 /\ Chunk(y, t + 1) = (y % a0) \div a1
    <3>1. t + 1 # 0 /\ (t + 1) - 1 = t
      BY <2>1
    <3> QED
      BY <3>1 DEF Chunk
  <2>6. Chunk(y, t + 1) = 0
    <3>1. EndsAt(p) = Chunk(y, 1 + t)
      BY <1>1, <1>2, Sizes DEF EndsAt, Below, Turns
    <3>2. EndsAt(p) = 0
      BY <1>1, <1>2, Sizes DEF WellPlaced, Below
    <3>3. 1 + t = t + 1
      BY <2>1
    <3> QED
      BY <3>1, <3>2, <3>3
  <2>7. x \div a0 = y \div a0 <=> Entry(x, t) = Entry(y, t)
    BY <1>1, <2>1, SameEntry
  <2>8. Entry(x, t + 1) \in Covered(p) <=> Entry(x, t) = Entry(y, t) /\ Chunk(x, t + 1) < w
    <3>1. /\ Entry(x, t + 1) = Append(Entry(x, t), Chunk(x, t + 1))
          /\ Entry(x, t) \in Seq(Nat) /\ Entry(y, t) \in Seq(Nat) /\ Len(Entry(x, t)) = Len(Entry(y, t))
      <4>1. /\ Entry(x, t + 1) = Append(Entry(x, t), Chunk(x, t + 1))
            /\ Entry(x, t) \in Seq(Nat) /\ Len(Entry(x, t)) = t + 1
        BY <2>1, EntryIs, ZenonT(40)
      <4>2. Entry(y, t) \in Seq(Nat) /\ Len(Entry(y, t)) = t + 1
        BY <1>1, <2>1, EntryIs, SMTT(30)
      <4> QED
        BY <4>1, <4>2
    <3>2. Chunk(x, t + 1) \in Nat
      BY <1>1, <2>1, ChunkIs, PowFacts, Sizes
    <3>3. Covered(p) = {Append(Entry(y, t), 0 + i) : i \in 0..(w - 1)}
      BY <2>1 DEF Covered
    <3>4. ASSUME Entry(x, t + 1) \in Covered(p) PROVE Entry(x, t) = Entry(y, t) /\ Chunk(x, t + 1) < w
      <4>1. PICK i \in 0..(w - 1) : Entry(x, t + 1) = Append(Entry(y, t), 0 + i)
        BY <3>3, <3>4
      <4>2. PICK e, f, c : e = Entry(x, t) /\ f = Entry(y, t) /\ c = Chunk(x, t + 1)
        OBVIOUS
      <4>3. e \in Seq(Nat) /\ f \in Seq(Nat) /\ Len(e) = Len(f) /\ Append(e, c) = Append(f, 0 + i)
        BY <3>1, <4>1, <4>2
      <4>4. e = f /\ c = 0 + i
        BY <4>3, SameAppend
      <4> QED
        BY <2>3, <4>2, <4>4
    <3>5. ASSUME Entry(x, t) = Entry(y, t), Chunk(x, t + 1) < w PROVE Entry(x, t + 1) \in Covered(p)
      <4>1. Chunk(x, t + 1) \in 0..(w - 1) /\ 0 + Chunk(x, t + 1) = Chunk(x, t + 1)
        BY <2>3, <3>2, <3>5
      <4>2. Entry(x, t + 1) = Append(Entry(y, t), 0 + Chunk(x, t + 1))
        BY <3>1, <3>5, <4>1
      <4> QED
        BY <3>3, <4>1, <4>2
    <3> QED
      BY <3>4, <3>5
  <2>9. Matches(p, x) <=> x \div Pow2[AddrBits - p.mask] = y \div Pow2[AddrBits - p.mask]
    BY DEF Matches
  <2>10. (y % a0) \div a1 = 0
    BY <2>5, <2>6
  <2> HIDE DEF t, a0, a1, w, v, y
  <2>11. x \div (a1 * w) = y \div (a1 * w) <=> x \div a0 = y \div a0 /\ (x % a0) \div a1 < w
    <3>1. a0 = a1 * (w * v)
      BY <2>2, <2>3
    <3>2. x \in Nat /\ y \in Nat
      BY <1>1
    <3>3. a1 \in Nat \ {0} /\ w \in Nat \ {0} /\ v \in Nat \ {0} /\ a0 \in Nat
      BY <2>2, <2>3
    <3>4. AtItsStart(y, a0, a1)
      BY <2>10 DEF AtItsStart
    <3>5. InBlock(x, y, a0, a1, w, v)
      BY ONLY <3>1, <3>2, <3>3, <3>4, MatchBelow
    <3> QED
      BY <3>5 DEF InBlock
  <2> QED
    BY <2>1, <2>4, <2>5, <2>7, <2>8, <2>9, <2>11, Zenon
<1>3. CASE ~Below(p)
  <2> DEFINE a1 == Pow2[AddrBits - FirstBits]  w == Pow2[FirstBits - p.mask]
  <2>1. /\ DepthOf(p) = 0 /\ Table(p) = <<>> /\ Bits(p) = FirstBits
        /\ Left(p) = p.mask /\ p.mask \in 0..FirstBits
        /\ First(p) = y \div Pow2[AddrBits - p.mask]
    BY <1>3, TurnsAre DEF DepthOf, Table, First, Bits
  <2>2. Entry(x, 0) = <<x \div a1>> /\ x \div a1 \in Nat
    <3>1. 0 \in 0..Hops
      BY Sizes
    <3>2. /\ Entry(x, 0) \in Seq(Nat) /\ Len(Entry(x, 0)) = 0 + 1
          /\ \A j \in 1..(0 + 1) : Entry(x, 0)[j] = Chunk(x, j - 1)
      BY <3>1, EntryIs
    <3>3. 1 \in 1..(0 + 1) /\ 1 - 1 = 0 /\ 0 + 1 = 1
      OBVIOUS
    <3>4. Chunk(x, 0) = x \div a1 /\ Chunk(x, 0) \in Nat
      BY FirstChunkIs, PowFacts, Sizes
    <3>5. Entry(x, 0) \in Seq(Nat) /\ Len(Entry(x, 0)) = 1 /\ Entry(x, 0)[1] = Chunk(x, 0)
      BY <3>2, <3>3
    <3> HIDE DEF a1
    <3> QED
      BY <3>4, <3>5
  <2>3. Covered(p) = {Append(<<>>, First(p) + i) : i \in 0..(w - 1)}
    BY <2>1 DEF Covered
  <2>4. a1 \in Nat \ {0} /\ w \in Nat \ {0} /\ Pow2[AddrBits - p.mask] = a1 * w
    <3>1. AddrBits - FirstBits \in Nat /\ FirstBits - p.mask \in Nat
          /\ AddrBits - p.mask = (AddrBits - FirstBits) + (FirstBits - p.mask)
      BY <2>1, Sizes, RoutingAssumption, SMTT(30)
    <3> QED
      BY <3>1, PowAdd, PowFacts
  <2>5. Matches(p, x) <=> x \div Pow2[AddrBits - p.mask] = First(p)
    BY <2>1 DEF Matches
  <2>6. CASE p.mask = FirstBits
    <3>1. w = 1 /\ Pow2[AddrBits - p.mask] = a1
      <4>1. FirstBits - p.mask = 0
        BY <2>6, Sizes
      <4> QED
        BY <2>6, <4>1, PowFacts
    <3>2. First(p) \in Nat
      BY TableIs
    <3>3. Covered(p) = {<<First(p)>>}
      <4>1. Covered(p) = {Append(<<>>, First(p) + 0)}
        BY <2>3, <3>1
      <4>2. Append(<<>>, First(p) + 0) = <<First(p)>>
        BY <3>2
      <4> QED
        BY <4>1, <4>2
    <3>4. Matches(p, x) <=> x \div a1 = First(p)
      BY <2>5, <3>1, Zenon
    <3>5. <<x \div a1>> \in Covered(p) <=> x \div a1 = First(p)
      <4> HIDE DEF a1
      <4> QED
        BY <3>3
    <3> QED
      BY <2>1, <2>2, <3>4, <3>5, Zenon
  <2>7. CASE p.mask # FirstBits
    <3>1. y \div a1 = 0
      <4>1. EndsAt(p) = 0
        BY <2>7 DEF WellPlaced
      <4>2. EndsAt(p) = Chunk(y, 0)
        BY <2>1, Sizes DEF EndsAt
      <4>3. Chunk(y, 0) = y \div a1
        BY <1>1, FirstChunkIs
      <4> QED
        BY <4>1, <4>2, <4>3, Zenon
    <3> DEFINE c == Pow2[AddrBits - p.mask]
    <3>2. c = a1 * w
      BY <2>4
    <3> HIDE DEF a1, w, c, y
    <3>3. y < a1 /\ a1 <= c /\ c \in Nat \ {0}
      BY <1>1, <2>4, <3>1, <3>2, DivSmall
    <3>4. First(p) = 0
      <4>1. y < c
        BY <1>1, <2>4, <3>3
      <4>2. y \div c = 0
        BY <1>1, <3>3, <4>1, DivSmall
      <4> QED
        BY <2>1, <4>2 DEF c
    <3>5. Matches(p, x) <=> x \div c = 0
      BY <2>5, <3>4 DEF c
    <3>6. x \div c = 0 <=> x < c
      BY <1>1, <3>3, DivSmall
    <3>7. x \div a1 < w <=> x < a1 * w
      BY <1>1, <2>4, DivSmall
    <3>8. <<x \div a1>> \in Covered(p) <=> x \div a1 < w
      <4>1. PICK q \in Nat : q = x \div a1
        BY <2>2
      <4>2. \A i \in 0..(w - 1) : Append(<<>>, 0 + i) = <<i>>
        BY <2>4
      <4>3. Covered(p) = {<<i>> : i \in 0..(w - 1)}
        BY <2>3, <3>4, <4>2
      <4>4. <<q>> \in Covered(p) <=> q \in 0..(w - 1)
        BY <4>3
      <4>5. q \in 0..(w - 1) <=> q < w
        BY <2>4
      <4> QED
        BY <4>1, <4>4, <4>5, Zenon
    <3> QED
      BY <2>1, <2>2, <3>2, <3>5, <3>6, <3>7, <3>8, Zenon
  <2> QED
    BY <2>6, <2>7
<1> QED
  BY <1>2, <1>3

(* Every table on the way to an entry with a port is there.                *)
LEMMA HitsAre ==
  ASSUME IInv, NEW x \in Addresses
  PROVE  Hits(x) = {d \in 0..Hops : Entry(x, d) \in DOMAIN rules}
<1>1. Levels - 1 = Hops /\ Hops \in Nat
  BY Sizes
<1>2. ASSUME NEW d \in 0..Hops, Entry(x, d) \in DOMAIN rules, NEW j \in 0..(d - 1)
      PROVE  Entry(x, j) \in tables
  <2>1. j + 1 \in 1..(d + 1) /\ j + 1 \in 1..((d + 1) - 1) /\ (j + 1) - 1 = j
    BY <1>1
  <2>2. Len(Entry(x, d)) = d + 1 /\ SubSeq(Entry(x, d), 1, j + 1) = Entry(x, j)
    <3>1. /\ Len(Entry(x, d)) = d + 1
          /\ \A i \in 1..(d + 1) : SubSeq(Entry(x, d), 1, i) = Entry(x, i - 1)
      BY EntryIs
    <3>2. SubSeq(Entry(x, d), 1, j + 1) = Entry(x, (j + 1) - 1)
      BY <2>1, <3>1
    <3> QED
      BY <2>1, <3>1, <3>2
  <2>3. SubSeq(Entry(x, d), 1, j + 1) \in tables
    BY <1>2, <2>1, <2>2, IInvConnected DEF Connected
  <2> QED
    BY <2>2, <2>3
<1> QED
  BY <1>1, <1>2 DEF Hits

(* Depths grow with masks.                                                 *)
LEMMA DepthGrows ==
  ASSUME NEW p \in Prefixes, NEW q \in Prefixes
  PROVE  /\ DepthOf(p) < DepthOf(q) => p.mask <= q.mask
         /\ DepthOf(p) = DepthOf(q) /\ Left(p) <= Left(q) => p.mask <= q.mask
<1>1. /\ Below(p) => Turns(p) \in Nat /\ Left(p) \in 1..HopBits /\ p.mask = FirstBits + Turns(p) * HopBits + Left(p)
      /\ ~Below(p) => Left(p) = p.mask /\ p.mask \in 0..FirstBits
  BY TurnsAre, Sizes
<1>2. /\ Below(q) => Turns(q) \in Nat /\ Left(q) \in 1..HopBits /\ q.mask = FirstBits + Turns(q) * HopBits + Left(q)
      /\ ~Below(q) => Left(q) = q.mask /\ q.mask \in 0..FirstBits
  BY TurnsAre, Sizes
<1>3. /\ DepthOf(p) = IF Below(p) THEN Turns(p) + 1 ELSE 0
      /\ DepthOf(q) = IF Below(q) THEN Turns(q) + 1 ELSE 0
  BY DEF DepthOf
<1>4. HopBits \in Nat /\ FirstBits \in Nat
  BY Sizes
<1>5. CASE Below(p) /\ Below(q)
  <2>1. Turns(p) * HopBits \in Nat /\ Turns(q) * HopBits \in Nat
    BY <1>1, <1>2, <1>4, <1>5
  <2>2. ASSUME DepthOf(p) < DepthOf(q) PROVE p.mask <= q.mask
    <3>1. Turns(p) + 1 <= Turns(q)
      BY <1>1, <1>2, <1>3, <1>5, <2>2
    <3>2. Turns(p) * HopBits + HopBits <= Turns(q) * HopBits
      <4>1. PICK k \in Nat : Turns(q) = Turns(p) + 1 + k
        <5>1. Turns(q) - (Turns(p) + 1) \in Nat
          BY <1>1, <1>2, <1>5, <3>1
        <5> QED
          BY <1>1, <1>2, <1>5, <5>1
      <4>2. (Turns(p) + 1 + k) * HopBits = Turns(p) * HopBits + HopBits + k * HopBits /\ k * HopBits \in Nat
        BY <1>1, <1>4, <1>5
      <4> QED
        BY <1>4, <2>1, <4>1, <4>2
    <3> QED
      BY <1>1, <1>2, <1>4, <1>5, <2>1, <3>2
  <2>3. ASSUME DepthOf(p) = DepthOf(q), Left(p) <= Left(q) PROVE p.mask <= q.mask
    <3>1. Turns(p) = Turns(q)
      BY <1>1, <1>2, <1>3, <1>5, <2>3
    <3> QED
      BY <1>1, <1>2, <1>4, <1>5, <2>1, <2>3, <3>1
  <2> QED
    BY <2>2, <2>3
<1>6. CASE ~Below(p) /\ Below(q)
  <2>1. Turns(q) * HopBits \in Nat
    BY <1>2, <1>4, <1>6
  <2> QED
    BY <1>1, <1>2, <1>4, <1>6, <2>1
<1>7. CASE ~Below(q)
  BY <1>1, <1>2, <1>3, <1>7
<1> QED
  BY <1>5, <1>6, <1>7

(* A rule added that matches is found, or one deeper.                      *)
LEMMA MatchIsHit ==
  ASSUME IInv, AllWellPlaced, NEW x \in Addresses, NEW r \in added
  PROVE  /\ DepthOf(r.prefix) \in 0..Hops
         /\ Matches(r.prefix, x) => /\ DepthOf(r.prefix) \in Hits(x)
                                    /\ Entry(x, DepthOf(r.prefix)) \in Covered(r.prefix)
<1>1. r.prefix \in Prefixes /\ WellPlaced(r.prefix)
  BY DEF IInv, AllWellPlaced
<1>2. DepthOf(r.prefix) \in 0..Hops
  BY <1>1, TableIs
<1>3. ASSUME Matches(r.prefix, x) PROVE Entry(x, DepthOf(r.prefix)) \in Covered(r.prefix)
  BY <1>1, <1>3, CoversMatching
<1>4. Covered(r.prefix) \subseteq DOMAIN rules
  BY DEF IInv, Reached
<1> QED
  BY <1>2, <1>3, <1>4, HitsAre

(* What the deepest hit holds is from a rule that matches, and none of the *)
(* others that match is longer.                                            *)
LEMMA DeepestIsLongest ==
  ASSUME IInv, AllWellPlaced, ~LpmWraps, NEW x \in Addresses,
         NEW d \in Hits(x), \A e \in Hits(x) : e <= d
  PROVE  rules[Entry(x, d)].port \in Longest(x)
<1> DEFINE loc == Entry(x, d)
           match == {r \in added : Matches(r.prefix, x)}
<1>1. d \in 0..Hops /\ loc \in DOMAIN rules
  BY HitsAre
<1>2. PICK r \in added : /\ loc \in Covered(r.prefix) /\ rules[loc] = RuleOf(r)
                         /\ LeavesLeast(r, loc)
  BY <1>1 DEF IInv, FromRules
<1>3. r.prefix \in Prefixes /\ WellPlaced(r.prefix)
  BY DEF IInv, AllWellPlaced
<1>4. DepthOf(r.prefix) = d
  <2>1. Len(loc) = DepthOf(r.prefix) + 1 /\ DepthOf(r.prefix) \in 0..Hops
    BY <1>2, <1>3, CoveredAre
  <2>2. Len(loc) = d + 1
    BY <1>1, EntryIs
  <2> QED
    BY <1>1, <2>1, <2>2
<1>5. r \in match
  BY <1>2, <1>3, <1>4, CoversMatching
<1>6. ASSUME NEW q \in match PROVE q.prefix.mask <= r.prefix.mask
  <2>1. /\ DepthOf(q.prefix) \in 0..Hops /\ DepthOf(q.prefix) \in Hits(x)
        /\ Entry(x, DepthOf(q.prefix)) \in Covered(q.prefix)
    BY MatchIsHit
  <2>2. q.prefix \in Prefixes
    BY DEF IInv
  <2>3. DepthOf(q.prefix) <= d
    BY <2>1
  <2>4. CASE DepthOf(q.prefix) = d
    <3>1. Left(q.prefix) <= Left(r.prefix)
      BY <1>2, <2>1, <2>4 DEF LeavesLeast
    <3> QED
      BY <1>3, <1>4, <2>2, <2>4, <3>1, DepthGrows
  <2>5. CASE DepthOf(q.prefix) # d
    <3>1. DepthOf(q.prefix) < DepthOf(r.prefix)
      BY <1>1, <1>4, <2>1, <2>3, <2>5, Sizes
    <3> QED
      BY <1>3, <2>2, <3>1, DepthGrows
  <2> QED
    BY <2>4, <2>5
<1>7. rules[loc].port = r.port % PortCount
  BY <1>2 DEF RuleOf
<1> QED
  BY <1>5, <1>6, <1>7 DEF Longest

(* The last port on the walk is one of a longest match.                    *)
LEMMA IInvLongestMatch == IInv => LongestMatchIfPlaced
<1> SUFFICES ASSUME IInv, AllWellPlaced, ~LpmWraps, NEW x \in Addresses PROVE Right(x)
  BY DEF LongestMatchIfPlaced
<1>1. RoutingEntryFind(x) \subseteq Longest(x)
  BY DeepestIsLongest DEF RoutingEntryFind
<1>2. ASSUME Longest(x) # {} PROVE RoutingEntryFind(x) # {}
  <2>1. PICK r \in added : Matches(r.prefix, x)
    BY <1>2 DEF Longest
  <2>2. DepthOf(r.prefix) \in Hits(x)
    BY <2>1, MatchIsHit
  <2>3. Hits(x) \subseteq 0..Hops /\ Hops \in Nat
    BY HitsAre, Sizes
  <2>4. PICK d \in Hits(x) : \A e \in Hits(x) : e <= d
    BY <2>2, <2>3, Largest
  <2> QED
    BY <2>4 DEF RoutingEntryFind
<1> QED
  BY <1>1, <1>2 DEF Right

(* For every width of addresses, tables and lpm, and all prefixes that end *)
(* where the code expects them, in every order of adding them, a walk      *)
(* finds the longest prefix that matches.                                  *)
THEOREM FindsLongestMatch == Spec => []LongestMatchIfPlaced
BY Invariance, IInvLongestMatch, PTL
=============================================================================
