--------------------------- MODULE ElementsProofs ---------------------------
(* What every element computes, for all flows, hashes, tables, routes and  *)
(* windows, however its packets are cut into batches (Elements).  And, for *)
(* every window and every batch: each packet is executed once and in       *)
(* order, the arrays that groups are copied to hold them, and fastpass     *)
(* splits a batch in order (PrefetchLoop).                                 *)
EXTENDS Elements, PrefetchLoop, SequenceTheorems, FiniteSetTheorems, WellFoundedInduction, TLAPS

----------------------------------------------------------------------------
(* Induction and recursion.                                                *)

(* What holds of 0, and of the next number of each, holds of all.          *)
LEMMA SetInduction ==
  ASSUME NEW T, 0 \in T, \A n \in Nat : n \in T => n + 1 \in T
  PROVE  \A n \in Nat : n \in T
<1> DEFINE R == {ss \in Nat \X Nat : ss[1] < ss[2]}
           F == {k \in Nat : k \notin T}
<1>1. IsWellFoundedOn(R, Nat)
  BY NatLessThanWellFounded DEF OpToRel
<1>2. \A a, b \in Nat : a < b => <<a, b>> \in R
  OBVIOUS
<1> HIDE DEF R
<1> SUFFICES ASSUME F # {} PROVE FALSE
  OBVIOUS
<1>3. PICK m \in F : \A k \in F : ~(<<k, m>> \in R)
  BY <1>1, WFMin
<1>4. m # 0
  OBVIOUS
<1>5. m - 1 \in Nat /\ m - 1 < m /\ (m - 1) + 1 = m
  BY <1>4
<1>6. m - 1 \in F
  BY <1>5
<1> QED
  BY <1>2, <1>3, <1>5, <1>6

(* The states of a loop of N turns.                                        *)
Loop(f, N, start, g) == f = [n \in 0..N |-> IF n = 0 THEN start ELSE g[<<n, f[n - 1]>>]]

(* They exist, if the n-th turn goes from any of Q[n - 1] to one of Q[n].  *)
LEMMA Turns ==
  ASSUME NEW N \in Nat, NEW Q, NEW start \in Q[0], NEW g,
         \A n \in 1..N : \A x \in Q[n - 1] : g[<<n, x>>] \in Q[n]
  PROVE  \E f : Loop(f, N, start, g) /\ \A n \in 0..N : f[n] \in Q[n]
<1> DEFINE Upto(n, f) == /\ f = [k \in 0..n |-> IF k = 0 THEN start ELSE g[<<k, f[k - 1]>>]]
                         /\ \A k \in 0..n : f[k] \in Q[k]
           T == {n \in Nat : n <= N => \E f : Upto(n, f)}
<1>1. 0 \in T
  <2>1. Upto(0, [k \in 0..0 |-> start])
    OBVIOUS
  <2> QED
    BY <2>1
<1>2. ASSUME NEW n \in Nat, n \in T PROVE n + 1 \in T
  <2> SUFFICES ASSUME n + 1 <= N PROVE \E f : Upto(n + 1, f)
    OBVIOUS
  <2>1. PICK f : Upto(n, f)
    BY <1>2
  <2>2. g[<<n + 1, f[n]>>] \in Q[n + 1]
    <3>1. n + 1 \in 1..N /\ (n + 1) - 1 = n /\ f[n] \in Q[n]
      BY <2>1
    <3> QED
      BY <3>1
  <2> DEFINE h == [k \in 0..(n + 1) |-> IF k = n + 1 THEN g[<<n + 1, f[n]>>] ELSE f[k]]
  <2>3. \A k \in 0..(n + 1) : k = n + 1 \/ k \in 0..n
    OBVIOUS
  <2>4. \A k \in 0..n : h[k] = f[k] /\ k # n + 1
    OBVIOUS
  <2>5. h[n + 1] = g[<<n + 1, f[n]>>] /\ h = [k \in 0..(n + 1) |-> h[k]]
    OBVIOUS
  <2> HIDE DEF h
  <2>6. \A k \in 0..(n + 1) : h[k] \in Q[k]
    BY <2>1, <2>2, <2>3, <2>4, <2>5
  <2>7. ASSUME NEW k \in 0..(n + 1) PROVE h[k] = IF k = 0 THEN start ELSE g[<<k, h[k - 1]>>]
    <3>1. CASE k = n + 1
      <4>1. k - 1 = n /\ n \in 0..n /\ k # 0
        BY <3>1
      <4> QED
        BY <2>4, <2>5, <3>1, <4>1
    <3>2. CASE k = 0
      <4>1. 0 \in 0..n /\ f[0] = start
        BY <2>1
      <4> QED
        BY <2>4, <3>2, <4>1
    <3>3. CASE k # n + 1 /\ k # 0
      <4>1. k \in 0..n /\ k - 1 \in 0..n
        BY <3>3
      <4>2. f[k] = g[<<k, f[k - 1]>>]
        BY <2>1, <3>3, <4>1
      <4> QED
        BY <2>4, <3>3, <4>1, <4>2
    <3> QED
      BY <3>1, <3>2, <3>3
  <2>8. Upto(n + 1, h)
    BY <2>5, <2>6, <2>7
  <2> QED
    BY <2>8
<1>3. \A n \in Nat : n \in T
  <2> HIDE DEF T
  <2> QED
    BY <1>1, <1>2, SetInduction
<1>4. N \in T
  BY <1>3
<1>5. PICK f : Upto(N, f)
  BY <1>4
<1> QED
  BY <1>5 DEF Loop

(* What every turn keeps holds at the end.                                 *)
LEMMA TurnsKeep ==
  ASSUME NEW N \in Nat, NEW Q, NEW f, f[0] \in Q[0],
         \A n \in 1..N : f[n - 1] \in Q[n - 1] => f[n] \in Q[n]
  PROVE  f[N] \in Q[N]
<1> DEFINE T == {n \in Nat : n <= N => f[n] \in Q[n]}
<1>1. 0 \in T
  OBVIOUS
<1>2. ASSUME NEW n \in Nat, n \in T PROVE n + 1 \in T
  <2> SUFFICES ASSUME n + 1 <= N PROVE f[n + 1] \in Q[n + 1]
    OBVIOUS
  <2>1. n + 1 \in 1..N /\ (n + 1) - 1 = n /\ f[n] \in Q[n]
    BY <1>2
  <2> QED
    BY <2>1
<1>3. \A n \in Nat : n \in T
  <2> HIDE DEF T
  <2> QED
    BY <1>1, <1>2, SetInduction
<1> QED
  BY <1>3

(* Powers.                                                                 *)
LEMMA PowIs ==
  ASSUME NEW b \in Nat
  PROVE  /\ Pow(b, 0) = 1
         /\ \A n \in Nat : Pow(b, n) \in Nat /\ Pow(b, n + 1) = b * Pow(b, n)
<1> DEFINE Is(f, n) == f = [k \in 0..n |-> IF k = 0 THEN 1 ELSE b * f[k - 1]]
           c(n) == CHOOSE f : Is(f, n)
<1>1. ASSUME NEW n \in Nat PROVE Is(c(n), n)
  <2> DEFINE Q == [k \in 0..n |-> Nat]
             g == [p \in (1..n) \X Nat |-> b * p[2]]
  <2>1. PICK f : Loop(f, n, 1, g) /\ \A k \in 0..n : f[k] \in Q[k]
    <3>1. 1 \in Q[0] /\ \A k \in 1..n : \A x \in Q[k - 1] : g[<<k, x>>] \in Q[k]
      OBVIOUS
    <3> HIDE DEF Q, g
    <3> QED
      BY <3>1, Turns
  <2>2. ASSUME NEW k \in 0..n PROVE f[k] = IF k = 0 THEN 1 ELSE b * f[k - 1]
    <3>1. f[k] = IF k = 0 THEN 1 ELSE g[<<k, f[k - 1]>>]
      BY <2>1 DEF Loop
    <3>2. CASE k # 0
      <4>1. k \in 1..n /\ k - 1 \in 0..n
        BY <3>2
      <4>2. f[k - 1] \in Nat
        BY <2>1, <4>1
      <4> QED
        BY <3>1, <3>2, <4>1, <4>2
    <3> QED
      BY <3>1, <3>2
  <2>3. Is(f, n)
    <3>1. f = [k \in 0..n |-> f[k]]
      BY <2>1 DEF Loop
    <3> QED
      BY <2>2, <3>1
  <2> HIDE DEF Is
  <2> QED
    BY <2>3
<1>2. \A n \in Nat : Pow(b, n) = c(n)[n]
  BY DEF Pow
<1> HIDE DEF c
<1>3. \A n \in Nat : \A k \in 0..n : c(n)[k] = IF k = 0 THEN 1 ELSE b * c(n)[k - 1]
  BY <1>1
<1>4. ASSUME NEW n \in Nat PROVE \A m \in Nat : m <= n => c(n)[m] = c(m)[m] /\ c(m)[m] \in Nat
  <2> DEFINE T == {m \in Nat : m <= n => c(m)[m] \in Nat /\ \A k \in Nat : k >= m => c(k)[m] = c(m)[m]}
  <2>1. 0 \in T
    <3>1. \A k \in Nat : 0 \in 0..k
      OBVIOUS
    <3>2. \A k \in Nat : c(k)[0] = 1
      BY <1>3, <3>1
    <3> QED
      BY <3>2
  <2>2. ASSUME NEW m \in Nat, m \in T PROVE m + 1 \in T
    <3> SUFFICES ASSUME m + 1 <= n
                 PROVE  c(m + 1)[m + 1] \in Nat /\ \A k \in Nat : k >= m + 1 => c(k)[m + 1] = c(m + 1)[m + 1]
      OBVIOUS
    <3>1. c(m)[m] \in Nat /\ \A k \in Nat : k >= m => c(k)[m] = c(m)[m]
      BY <2>2
    <3>2. ASSUME NEW k \in Nat, k >= m + 1 PROVE c(k)[m + 1] = b * c(m)[m]
      <4>1. m + 1 \in 0..k /\ m + 1 # 0 /\ (m + 1) - 1 = m /\ k >= m
        BY <3>2
      <4>2. c(k)[m + 1] = b * c(k)[(m + 1) - 1]
        BY <1>3, <4>1
      <4> QED
        BY <3>1, <4>1, <4>2
    <3>3. c(m + 1)[m + 1] = b * c(m)[m]
      BY <3>2
    <3> QED
      BY <3>1, <3>2, <3>3
  <2>3. \A m \in Nat : m \in T
    <3> HIDE DEF T
    <3> QED
      BY <2>1, <2>2, SetInduction
  <2> QED
    BY <2>3
<1>5. Pow(b, 0) = 1
  <2>1. c(0)[0] = 1
    BY <1>3
  <2> QED
    BY <1>2, <2>1
<1>6. ASSUME NEW n \in Nat PROVE Pow(b, n) \in Nat /\ Pow(b, n + 1) = b * Pow(b, n)
  <2>1. n + 1 \in Nat /\ n <= n + 1 /\ n <= n /\ n + 1 \in 0..(n + 1) /\ n + 1 # 0 /\ (n + 1) - 1 = n
    OBVIOUS
  <2>2. c(n + 1)[n + 1] = b * c(n + 1)[n]
    BY <1>3, <2>1
  <2>3. c(n + 1)[n] = c(n)[n] /\ c(n)[n] \in Nat
    BY <1>4, <2>1
  <2> QED
    BY <1>2, <2>1, <2>2, <2>3
<1> QED
  BY <1>5, <1>6

----------------------------------------------------------------------------
(* FoldLeft.                                                               *)

(* The largest of a set of numbers.                                        *)
LEMMA MaxIs ==
  ASSUME NEW n \in Nat, NEW S \in SUBSET (1..n), n \in S
  PROVE  Max(S) = n
<1>1. \A x \in S : n >= x
  OBVIOUS
<1>2. \A y \in S : (\A x \in S : y >= x) => y = n
  OBVIOUS
<1> QED
  BY <1>1, <1>2 DEF Max

(* What FoldLeft leaves of each set of places of s.                        *)
Folding(it, n, first, s, g) ==
  it = [S \in SUBSET (1..n) |-> IF S = {} THEN first ELSE g[<<it[S \ {Max(S)}], s[Max(S)]>>]]

(* g goes from one thing of U to another, over an entry of s.              *)
Foldable(U, Y, g, first, N, s) ==
  g \in [U \X Y -> U] /\ first \in U /\ N \in Nat /\ \A k \in 1..N : s[k] \in Y

(* There is one, of the things of U.                                       *)
Foldings(n, first, s, g, U) ==
  \E it : Folding(it, n, first, s, g) /\ \A S \in SUBSET (1..n) : it[S] \in U

(* It exists, and is of the set of things that g works on.                 *)
LEMMA FoldExists ==
  ASSUME NEW U, NEW Y, NEW g, NEW first, NEW N \in Nat, NEW s, Foldable(U, Y, g, first, N, s)
  PROVE  /\ \A S \in SUBSET (1..N) : S # {} => Max(S) \in S
         /\ Foldings(N, first, s, g, U)
<1> USE DEF Foldable
<1> DEFINE Upto(it, n) == Folding(it, n, first, s, g) /\ \A S \in SUBSET (1..n) : it[S] \in U
           T == {n \in Nat : n <= N => (\A S \in SUBSET (1..n) : S # {} => Max(S) \in S) /\ \E it : Upto(it, n)}
<1>1. 0 \in T
  <2> DEFINE it == [S \in SUBSET (1..0) |-> first]
  <2>1. \A S \in SUBSET (1..0) : S = {}
    OBVIOUS
  <2>2. Folding(it, 0, first, s, g)
    <3>1. \A S \in SUBSET (1..0) : first = IF S = {} THEN first ELSE g[<<it[S \ {Max(S)}], s[Max(S)]>>]
      BY <2>1
    <3> QED
      BY <3>1 DEF Folding
  <2>3. \A S \in SUBSET (1..0) : it[S] \in U
    OBVIOUS
  <2> HIDE DEF it
  <2> QED
    BY <2>1, <2>2, <2>3
<1>2. ASSUME NEW n \in Nat, n \in T PROVE n + 1 \in T
  <2> SUFFICES ASSUME n + 1 <= N
               PROVE  (\A S \in SUBSET (1..(n + 1)) : S # {} => Max(S) \in S) /\ \E it : Upto(it, n + 1)
    OBVIOUS
  <2>1. /\ \A S \in SUBSET (1..n) : S # {} => Max(S) \in S
        /\ \E it : Upto(it, n)
    BY <1>2
  <2>2. PICK it : Upto(it, n)
    BY <2>1
  <2>3. ASSUME NEW S \in SUBSET (1..(n + 1)), n + 1 \notin S PROVE S \in SUBSET (1..n)
    BY <2>3
  <2>4. ASSUME NEW S \in SUBSET (1..(n + 1)), n + 1 \in S PROVE Max(S) = n + 1 /\ S \ {n + 1} \in SUBSET (1..n)
    <3>1. Max(S) = n + 1
      BY <2>4, MaxIs
    <3> QED
      BY <3>1
  <2> DEFINE next == [S \in SUBSET (1..(n + 1)) |-> IF n + 1 \in S THEN g[<<it[S \ {n + 1}], s[n + 1]>>] ELSE it[S]]
  <2>5. \A S \in SUBSET (1..n) : S \in SUBSET (1..(n + 1)) /\ n + 1 \notin S /\ next[S] = it[S] /\ it[S] \in U
    <3>1. \A S \in SUBSET (1..n) : S \in SUBSET (1..(n + 1)) /\ n + 1 \notin S
      OBVIOUS
    <3> QED
      BY <2>2, <3>1
  <2>6. ASSUME NEW S \in SUBSET (1..(n + 1))
        PROVE  /\ next[S] \in U
               /\ next[S] = IF S = {} THEN first ELSE g[<<next[S \ {Max(S)}], s[Max(S)]>>]
               /\ S # {} => Max(S) \in S
    <3>1. CASE n + 1 \in S
      <4>1. Max(S) = n + 1 /\ S \ {n + 1} \in SUBSET (1..n) /\ S # {}
        BY <2>4, <3>1
      <4>2. next[S] = g[<<it[S \ {n + 1}], s[n + 1]>>]
        BY <3>1
      <4>3. next[S \ {n + 1}] = it[S \ {n + 1}] /\ it[S \ {n + 1}] \in U
        <5>1. PICK R \in SUBSET (1..n) : R = S \ {n + 1}
          BY <4>1
        <5> HIDE DEF next
        <5> QED
          BY <2>5, <5>1
      <4>4. s[n + 1] \in Y
        <5>1. n + 1 \in 1..N
          OBVIOUS
        <5> QED
          BY <5>1
      <4> HIDE DEF next
      <4> QED
        BY <3>1, <4>1, <4>2, <4>3, <4>4
    <3>2. CASE n + 1 \notin S
      <4>1. S \in SUBSET (1..n) /\ S \ {Max(S)} \in SUBSET (1..n)
        BY <2>3, <3>2
      <4>2. it[S] = IF S = {} THEN first ELSE g[<<it[S \ {Max(S)}], s[Max(S)]>>]
        BY <2>2, <4>1 DEF Folding
      <4>3. next[S] = it[S] /\ next[S \ {Max(S)}] = it[S \ {Max(S)}] /\ it[S] \in U
        BY <2>5, <4>1
      <4> HIDE DEF next
      <4> QED
        BY <2>1, <4>1, <4>2, <4>3
    <3> QED
      BY <3>1, <3>2
  <2>7. next = [S \in SUBSET (1..(n + 1)) |-> next[S]]
    OBVIOUS
  <2> HIDE DEF next
  <2>8. Upto(next, n + 1)
    BY <2>6, <2>7 DEF Folding
  <2> QED
    BY <2>6, <2>8
<1>3. \A n \in Nat : n \in T
  <2> HIDE DEF T
  <2> QED
    BY <1>1, <1>2, SetInduction
<1>4. N \in T
  BY <1>3
<1> QED
  BY <1>4 DEF Foldings

(* r is what n turns, one for each entry of s, make of first.               *)
Folded(r, n, first, s, g, U) ==
  \E h \in [0..n -> U] : h[0] = first /\ (\A k \in 1..n : h[k] = g[<<h[k - 1], s[k]>>]) /\ r = h[n]

(* An iteration that is what FoldLeft takes one for.                       *)
LEMMA FoldTurns ==
  ASSUME NEW U, NEW Y, NEW g, NEW first, NEW N \in Nat, NEW s, Foldable(U, Y, g, first, N, s),
         NEW c, c[{}] = first,
         \A S \in SUBSET (1..N) : S # {} /\ c[S \ {Max(S)}] \in U => c[S] = g[<<c[S \ {Max(S)}], s[Max(S)]>>]
  PROVE  Folded(c[1..N], N, first, s, g, U)
<1> DEFINE h == [k \in 0..N |-> c[1..k]]
           Q == [k \in 0..N |-> U]
<1>0. first \in U /\ (\A k \in 1..N : s[k] \in Y) /\ \A x \in U : \A y \in Y : g[<<x, y>>] \in U
  BY DEF Foldable
<1>1. h[0] = first
  <2>1. 1..0 = {}
    OBVIOUS
  <2> QED
    BY <2>1
<1>2. ASSUME NEW k \in 1..N, h[k - 1] \in U PROVE h[k] = g[<<h[k - 1], s[k]>>] /\ h[k] \in U
  <2>0. k \in Nat /\ k <= N /\ k >= 1
    OBVIOUS
  <2>1. 1..k \in SUBSET (1..N) /\ 1..k # {} /\ k \in 1..k /\ (1..k) \ {k} = 1..(k - 1) /\ k - 1 \in 0..N
        /\ k \in 0..N /\ 1..k \in SUBSET (1..k)
    <3> HIDE DEF h
    <3> QED
      BY <2>0
  <2>2. Max(1..k) = k
    <3>1. PICK S : S = 1..k
      OBVIOUS
    <3> QED
      BY <2>0, <2>1, <3>1, MaxIs
  <2>3. c[1..k] = g[<<c[1..(k - 1)], s[k]>>]
    BY <1>2, <2>1, <2>2
  <2> QED
    BY <1>0, <1>2, <2>1, <2>3
<1>3. ASSUME NEW m \in 0..N PROVE h[m] \in U
  <2> DEFINE R == [k \in 0..m |-> U]
  <2>1. h[0] \in R[0]
    BY <1>0, <1>1
  <2>2. ASSUME NEW k \in 1..m, h[k - 1] \in R[k - 1] PROVE h[k] \in R[k]
    <3>1. k \in 1..N /\ k - 1 \in 0..m /\ k \in 0..m
      OBVIOUS
    <3>2. R[k - 1] = U /\ R[k] = U
      BY <3>1
    <3> HIDE DEF h, R
    <3> QED
      BY <1>2, <2>2, <3>1, <3>2
  <2>3. h[m] \in R[m]
    <3> HIDE DEF h, R
    <3>1. m \in Nat /\ \A k \in 1..m : h[k - 1] \in R[k - 1] => h[k] \in R[k]
      BY <2>2
    <3> QED
      BY <2>1, <3>1, TurnsKeep
  <2> QED
    BY <2>3
<1>4. h \in [0..N -> U] /\ c[1..N] = h[N]
  BY <1>3
<1>5. \A k \in 1..N : h[k] = g[<<h[k - 1], s[k]>>]
  <2>1. \A k \in 1..N : k - 1 \in 0..N
    OBVIOUS
  <2> HIDE DEF h
  <2> QED
    BY <1>2, <1>3, <2>1
<1> HIDE DEF h
<1> QED
  BY <1>1, <1>4, <1>5 DEF Folded

(* Each turn goes from one of Q to the next.                               *)
Keeps(Q, N, s, g, U) == \A k \in 1..N : \A x \in U : x \in Q[k - 1] => g[<<x, s[k]>>] \in Q[k]

(* What each turn keeps holds of the result.                               *)
LEMMA FoldKeeps ==
  ASSUME NEW U, NEW g, NEW first, NEW N \in Nat, NEW s, NEW r, Folded(r, N, first, s, g, U),
         NEW Q, first \in Q[0], Keeps(Q, N, s, g, U)
  PROVE  r \in Q[N] /\ r \in U
<1>1. PICK h \in [0..N -> U] : h[0] = first /\ (\A k \in 1..N : h[k] = g[<<h[k - 1], s[k]>>]) /\ r = h[N]
  BY DEF Folded
<1>2. \A k \in 1..N : k - 1 \in 0..N
  OBVIOUS
<1>3. h[0] \in Q[0] /\ \A k \in 1..N : h[k - 1] \in Q[k - 1] => h[k] \in Q[k]
  BY <1>1, <1>2 DEF Keeps
<1>4. h[N] \in Q[N]
  BY <1>3, TurnsKeep
<1> QED
  BY <1>1, <1>4

----------------------------------------------------------------------------
(* Arithmetic.                                                             *)

(* Quotient and remainder are what the division of Nat says they are,      *)
LEMMA Division ==
  ASSUME NEW x \in Nat, NEW k \in Nat \ {0}
  PROVE  /\ x \div k \in Nat /\ x % k \in 0..(k - 1)
         /\ x = k * (x \div k) + (x % k)
OBVIOUS

(* ... and nothing else is.                                                *)
LEMMA DivisionIs ==
  ASSUME NEW x \in Nat, NEW k \in Nat \ {0}, NEW q \in Nat, NEW r \in 0..(k - 1), x = k * q + r
  PROVE  x \div k = q /\ x % k = r
OBVIOUS

(* A number below b * c holds b fewer than c times.                        *)
LEMMA DivBelow ==
  ASSUME NEW x \in Nat, NEW k \in Nat \ {0}, NEW m \in Nat, x < k * m
  PROVE  x \div k < m
OBVIOUS

(* A counter that wraps around counts on as if it had not before.          *)
LEMMA Wraps ==
  ASSUME NEW x \in Nat, NEW y \in Nat, NEW k \in Nat \ {0}
  PROVE  ((x % k) + y) % k = (x + y) % k /\ x % k \in 0..(k - 1)
<1>1. PICK q \in Nat, r \in 0..(k - 1) : q = x \div k /\ r = x % k /\ x = k * q + r
  BY Division
<1>2. PICK p \in Nat, t \in 0..(k - 1) : t = (r + y) % k /\ r + y = k * p + t
  <2>1. r + y \in Nat
    OBVIOUS
  <2> QED
    BY <2>1, Division
<1>3. x + y = k * (q + p) + t
  <2>1. k * (q + p) = k * q + k * p /\ k * q \in Nat /\ k * p \in Nat
    OBVIOUS
  <2> QED
    BY <1>1, <1>2, <2>1
<1>4. x + y \in Nat /\ q + p \in Nat
  OBVIOUS
<1>5. (x + y) % k = t
  BY <1>3, <1>4, DivisionIs
<1> QED
  BY <1>1, <1>2, <1>5

(* ge_pow2_64 finds the power of two it is to find.                        *)
LEMMA GePow2Is == GePow2(TblSize) \in Nat \ {0} /\ \E k \in Nat : GePow2(TblSize) = Pow(2, k)
<1> DEFINE T == {n \in Nat : n = 0 \/ \E k \in 0..n : Pow(2, k) >= n /\ Pow(2, k) < 2 * n}
<1>0. Pow(2, 0) = 1 /\ \A k \in Nat : Pow(2, k) \in Nat /\ Pow(2, k + 1) = 2 * Pow(2, k)
  BY PowIs
<1>1. 0 \in T
  OBVIOUS
<1>2. ASSUME NEW n \in Nat, n \in T PROVE n + 1 \in T
  <2>1. CASE n = 0
    <3>1. 0 \in 0..(n + 1)
      OBVIOUS
    <3> QED
      BY <1>0, <2>1, <3>1
  <2>2. CASE n # 0
    <3>1. PICK k \in 0..n : Pow(2, k) >= n /\ Pow(2, k) < 2 * n
      BY <1>2, <2>2
    <3>2. PICK p \in Nat : p = Pow(2, k) /\ Pow(2, k + 1) = 2 * p
      BY <1>0
    <3>3. CASE p >= n + 1
      <4>1. k \in 0..(n + 1) /\ p < 2 * (n + 1)
        BY <3>1, <3>2
      <4> QED
        BY <3>2, <3>3, <4>1
    <3>4. CASE ~(p >= n + 1)
      <4>1. k + 1 \in 0..(n + 1) /\ 2 * p >= n + 1 /\ 2 * p < 2 * (n + 1)
        BY <2>2, <3>1, <3>2, <3>4
      <4> QED
        BY <3>2, <4>1
    <3> QED
      BY <3>3, <3>4
  <2> QED
    BY <2>1, <2>2
<1>3. \A n \in Nat : n \in T
  <2> HIDE DEF T
  <2> QED
    BY <1>1, <1>2, SetInduction
<1>4. TblSize \in Nat \ {0}
  BY ElementsAssumption
<1>5. \E p \in {Pow(2, k) : k \in 0..TblSize} : p >= TblSize /\ p < 2 * TblSize
  BY <1>3, <1>4
<1>6. GePow2(TblSize) \in {Pow(2, k) : k \in 0..TblSize} /\ GePow2(TblSize) >= TblSize
  BY <1>5 DEF GePow2
<1>7. PICK k \in 0..TblSize : GePow2(TblSize) = Pow(2, k)
  BY <1>6
<1>8. k \in Nat
  BY <1>4
<1> QED
  BY <1>0, <1>4, <1>6, <1>7, <1>8

LEMMA BucketType == \A f \in Flows : Bucket(f) \in Buckets
<1> SUFFICES ASSUME NEW f \in Flows PROVE Hash[f] % GePow2(TblSize) \in 0..(GePow2(TblSize) - 1)
  BY DEF Bucket, Buckets
<1>1. Hash[f] \in Nat
  BY ElementsAssumption
<1> QED
  BY <1>1, GePow2Is, Division

----------------------------------------------------------------------------
(* Sums over sets.                                                         *)

(* it is what MapThenSumSet makes of each part of S: of any order in which *)
(* the elements are chosen, one of those it may be.                        *)
Summing(it, S, g) ==
  it = [s \in SUBSET S |-> IF s = {} THEN 0
                           ELSE g[CHOOSE x \in s : TRUE] + it[s \ {CHOOSE x \in s : TRUE}]]

(* What matters of it.                                                     *)
Adds(it, S, g) ==
  /\ it[{}] = 0
  /\ \A s \in SUBSET S : it[s] \in Nat /\ \A x \in s : it[s] = g[x] + it[s \ {x}]

(* The parts of a finite set, by their size.                               *)
LEMMA Parts ==
  ASSUME NEW S, IsFiniteSet(S)
  PROVE  \A s \in SUBSET S :
           /\ IsFiniteSet(s) /\ Cardinality(s) \in Nat /\ (s = {} <=> Cardinality(s) = 0)
           /\ \A x \in s : s \ {x} \in SUBSET S /\ Cardinality(s \ {x}) = Cardinality(s) - 1
<1> SUFFICES ASSUME NEW s \in SUBSET S
             PROVE  /\ IsFiniteSet(s) /\ Cardinality(s) \in Nat /\ (s = {} <=> Cardinality(s) = 0)
                    /\ \A x \in s : s \ {x} \in SUBSET S /\ Cardinality(s \ {x}) = Cardinality(s) - 1
  OBVIOUS
<1>1. IsFiniteSet(s)
  BY FS_Subset
<1>2. \A x \in s : Cardinality(s \ {x}) = Cardinality(s) - 1
  BY <1>1, FS_RemoveElement
<1> QED
  BY <1>1, <1>2, FS_CardinalityType, FS_EmptySet

LEMMA SummingExists ==
  ASSUME NEW S, IsFiniteSet(S), NEW g \in [S -> Nat]
  PROVE  \E it : Summing(it, S, g)
<1> DEFINE c(s) == CHOOSE x \in s : TRUE
           P(n) == {s \in SUBSET S : Cardinality(s) <= n}
           Upto(it, n) == /\ it = [s \in P(n) |-> IF s = {} THEN 0 ELSE g[c(s)] + it[s \ {c(s)}]]
                          /\ \A s \in P(n) : it[s] \in Nat
           T == {n \in Nat : \E it : Upto(it, n)}
<1>0. \A s \in SUBSET S : s # {} => c(s) \in s /\ g[c(s)] \in Nat
  OBVIOUS
<1>1. \A s \in SUBSET S :
        /\ Cardinality(s) \in Nat /\ (s = {} <=> Cardinality(s) = 0)
        /\ \A x \in s : s \ {x} \in SUBSET S /\ Cardinality(s \ {x}) = Cardinality(s) - 1
  BY Parts
<1> HIDE DEF c
<1>2. 0 \in T
  <2> DEFINE it == [s \in P(0) |-> 0]
  <2>1. \A s \in P(0) : s = {} /\ 0 \in Nat /\ it[s] = 0
    BY <1>1
  <2>2. it = [s \in P(0) |-> IF s = {} THEN 0 ELSE g[c(s)] + it[s \ {c(s)}]]
    <3> HIDE DEF P
    <3> QED
      BY <2>1
  <2>3. Upto(it, 0)
    BY <2>1, <2>2
  <2> HIDE DEF it, Upto
  <2> QED
    BY <2>3
<1>3. ASSUME NEW n \in Nat, n \in T PROVE n + 1 \in T
  <2>1. PICK it : Upto(it, n)
    BY <1>3
  <2> DEFINE next == [s \in P(n + 1) |-> IF s = {} THEN 0 ELSE g[c(s)] + it[s \ {c(s)}]]
  <2>2. \A s \in P(n + 1) : s # {} => s \ {c(s)} \in P(n) /\ it[s \ {c(s)}] \in Nat
    <3> SUFFICES ASSUME NEW s \in P(n + 1), s # {} PROVE s \ {c(s)} \in P(n)
      BY <2>1
    <3>1. c(s) \in s /\ s \in SUBSET S /\ Cardinality(s) \in Nat /\ Cardinality(s) <= n + 1
      BY <1>0, <1>1
    <3>2. s \ {c(s)} \in SUBSET S /\ Cardinality(s \ {c(s)}) = Cardinality(s) - 1
      BY <1>1, <3>1
    <3> QED
      BY <3>1, <3>2
  <2>3. \A s \in P(n) : s \in P(n + 1) /\ next[s] = it[s]
    <3> SUFFICES ASSUME NEW s \in P(n) PROVE s \in P(n + 1) /\ next[s] = it[s]
      OBVIOUS
    <3>1. s \in P(n + 1)
      BY <1>1
    <3>2. it[s] = IF s = {} THEN 0 ELSE g[c(s)] + it[s \ {c(s)}]
      <4> HIDE DEF P
      <4> QED
        BY <2>1
    <3> HIDE DEF P
    <3> QED
      BY <3>1, <3>2
  <2>4. \A s \in P(n + 1) : /\ next[s] = IF s = {} THEN 0 ELSE g[c(s)] + next[s \ {c(s)}]
                            /\ next[s] \in Nat
    <3> SUFFICES ASSUME NEW s \in P(n + 1)
                 PROVE  /\ next[s] = IF s = {} THEN 0 ELSE g[c(s)] + next[s \ {c(s)}]
                        /\ next[s] \in Nat
      OBVIOUS
    <3>1. s \in SUBSET S
      OBVIOUS
    <3>2. next[s] = IF s = {} THEN 0 ELSE g[c(s)] + it[s \ {c(s)}]
      <4> HIDE DEF P
      <4> QED
        OBVIOUS
    <3> HIDE DEF next, P
    <3> QED
      BY <1>0, <2>2, <2>3, <3>1, <3>2
  <2>5. next = [s \in P(n + 1) |-> next[s]]
    <3> HIDE DEF P
    <3> QED
      OBVIOUS
  <2>6. Upto(next, n + 1)
    <3> HIDE DEF next, P
    <3> QED
      BY <2>4, <2>5
  <2> HIDE DEF next, Upto
  <2> QED
    BY <2>6
<1>4. \A n \in Nat : n \in T
  <2> HIDE DEF T
  <2> QED
    BY <1>2, <1>3, SetInduction
<1>5. Cardinality(S) \in Nat
  BY FS_CardinalityType
<1>6. PICK it : Upto(it, Cardinality(S))
  BY <1>4, <1>5
<1>7. P(Cardinality(S)) = SUBSET S
  <2>1. \A s \in SUBSET S : Cardinality(s) <= Cardinality(S)
    BY FS_Subset
  <2> QED
    BY <2>1
<1>8. it = [s \in SUBSET S |-> IF s = {} THEN 0 ELSE g[c(s)] + it[s \ {c(s)}]]
  <2> HIDE DEF P
  <2> QED
    BY <1>6, <1>7
<1> QED
  BY <1>8 DEF Summing, c

(* The order does not matter.                                              *)
LEMMA SummingAdds ==
  ASSUME NEW S, IsFiniteSet(S), NEW g \in [S -> Nat], NEW it, Summing(it, S, g)
  PROVE  Adds(it, S, g)
<1> DEFINE c(s) == CHOOSE x \in s : TRUE
           Right(s) == it[s] \in Nat /\ \A x \in s : it[s] = g[x] + it[s \ {x}]
           T == {n \in Nat : \A s \in SUBSET S : Cardinality(s) <= n => Right(s)}
<1>0. \A s \in SUBSET S : (s # {} => c(s) \in s) /\ \A x \in s : g[x] \in Nat
  OBVIOUS
<1>1. \A s \in SUBSET S :
        /\ Cardinality(s) \in Nat /\ (s = {} <=> Cardinality(s) = 0)
        /\ \A x \in s : s \ {x} \in SUBSET S /\ Cardinality(s \ {x}) = Cardinality(s) - 1
  BY Parts
<1>2. \A s \in SUBSET S : it[s] = IF s = {} THEN 0 ELSE g[c(s)] + it[s \ {c(s)}]
  BY DEF Summing
<1> HIDE DEF c
<1>3. it[{}] = 0
  BY <1>2
<1>8. \A s \in SUBSET S : s = {} => Right(s)
  BY <1>3
<1>4. 0 \in T
  <2>1. ASSUME NEW s \in SUBSET S, Cardinality(s) <= 0 PROVE s = {}
    BY <1>1, <2>1
  <2> QED
    BY <1>3, <2>1
<1>5. ASSUME NEW n \in Nat, n \in T PROVE n + 1 \in T
  <2> SUFFICES ASSUME NEW s \in SUBSET S, Cardinality(s) <= n + 1, s # {} PROVE Right(s)
    <3> HIDE DEF Right
    <3> QED
      BY <1>8
  <2>0. \A r \in SUBSET S : Cardinality(r) <= n => it[r] \in Nat /\ \A x \in r : it[r] = g[x] + it[r \ {x}]
    BY <1>5
  <2>1. c(s) \in s /\ g[c(s)] \in Nat
    BY <1>0
  <2>2. \A x \in s : s \ {x} \in SUBSET S /\ Cardinality(s \ {x}) <= n
    BY <1>1
  <2>3. it[s] = g[c(s)] + it[s \ {c(s)}] /\ it[s \ {c(s)}] \in Nat /\ it[s] \in Nat
    BY <1>2, <2>0, <2>1, <2>2
  <2>4. ASSUME NEW x \in s PROVE it[s] = g[x] + it[s \ {x}]
    <3>1. CASE x = c(s)
      BY <2>3, <3>1
    <3>2. CASE x # c(s)
      <4>1. x \in s \ {c(s)} /\ c(s) \in s \ {x} /\ (s \ {c(s)}) \ {x} = (s \ {x}) \ {c(s)}
        BY <2>1, <3>2
      <4>2. it[s \ {c(s)}] = g[x] + it[(s \ {c(s)}) \ {x}]
        <5>1. PICK r \in SUBSET S : r = s \ {c(s)} /\ Cardinality(r) <= n
          BY <2>1, <2>2
        <5> QED
          BY <2>0, <4>1, <5>1
      <4>3. it[s \ {x}] = g[c(s)] + it[(s \ {x}) \ {c(s)}]
        <5>1. PICK r \in SUBSET S : r = s \ {x} /\ Cardinality(r) <= n
          BY <2>2
        <5> QED
          BY <2>0, <4>1, <5>1
      <4>4. PICK d : d = (s \ {x}) \ {c(s)} /\ d \in SUBSET S /\ it[d] \in Nat
        <5>1. (s \ {x}) \ {c(s)} \in SUBSET S
          OBVIOUS
        <5>2. Cardinality((s \ {x}) \ {c(s)}) <= n
          <6>1. PICK r \in SUBSET S : r = s \ {x} /\ Cardinality(r) <= n /\ c(s) \in r
            BY <2>2, <4>1
          <6>2. Cardinality(r \ {c(s)}) = Cardinality(r) - 1 /\ Cardinality(r) \in Nat
            BY <1>1, <6>1
          <6> QED
            BY <6>1, <6>2
        <5> QED
          BY <2>0, <5>1, <5>2
      <4>5. g[x] \in Nat
        BY <1>0
      <4> QED
        BY <2>1, <2>3, <4>1, <4>2, <4>3, <4>4, <4>5
    <3> QED
      BY <3>1, <3>2
  <2> QED
    BY <2>3, <2>4
<1>6. \A n \in Nat : n \in T
  <2> HIDE DEF T
  <2> QED
    BY <1>4, <1>5, SetInduction
<1>7. ASSUME NEW s \in SUBSET S PROVE Right(s)
  <2>1. Cardinality(s) \in Nat /\ Cardinality(s) <= Cardinality(s)
    BY <1>1
  <2>2. Cardinality(s) \in T
    BY <1>6, <2>1
  <2> QED
    BY <2>1, <2>2
<1> QED
  BY <1>3, <1>7 DEF Adds

(* What holds of {} and is handed on to a set by a smaller one holds of S. *)
LEMMA PartsInduction ==
  ASSUME NEW S, IsFiniteSet(S), NEW T, {} \in T,
         \A s \in SUBSET S : \A x \in s : s \ {x} \in T => s \in T
  PROVE  S \in T
<1> DEFINE N == {n \in Nat : \A s \in SUBSET S : Cardinality(s) = n => s \in T}
<1>1. \A s \in SUBSET S :
        /\ Cardinality(s) \in Nat /\ (s = {} <=> Cardinality(s) = 0)
        /\ \A x \in s : s \ {x} \in SUBSET S /\ Cardinality(s \ {x}) = Cardinality(s) - 1
  BY Parts
<1>2. 0 \in N
  BY <1>1
<1>3. ASSUME NEW n \in Nat, n \in N PROVE n + 1 \in N
  <2> SUFFICES ASSUME NEW s \in SUBSET S, Cardinality(s) = n + 1 PROVE s \in T
    OBVIOUS
  <2>1. PICK x \in s : s \ {x} \in SUBSET S /\ Cardinality(s \ {x}) = n
    BY <1>1
  <2> QED
    BY <1>3, <2>1
<1>4. \A n \in Nat : n \in N
  <2> HIDE DEF N
  <2> QED
    BY <1>2, <1>3, SetInduction
<1>5. Cardinality(S) \in N
  <2>1. Cardinality(S) \in Nat
    BY <1>1
  <2> HIDE DEF N
  <2> QED
    BY <1>4, <2>1
<1> QED
  BY <1>5

(* Sums of the same numbers are the same.                                  *)
LEMMA SumsSame ==
  ASSUME NEW S, NEW g, NEW it, Adds(it, S, g), NEW S2, NEW g2, NEW it2, Adds(it2, S2, g2),
         NEW B \in SUBSET S, B \in SUBSET S2, IsFiniteSet(B), \A x \in B : g[x] = g2[x]
  PROVE  it[B] = it2[B]
<1> DEFINE T == {s \in SUBSET B : it[s] = it2[s]}
<1>1. {} \in T
  BY DEF Adds
<1>2. ASSUME NEW s \in SUBSET B, NEW x \in s, s \ {x} \in T PROVE s \in T
  <2>1. it[s] = g[x] + it[s \ {x}] /\ it2[s] = g2[x] + it2[s \ {x}]
    BY DEF Adds
  <2> QED
    BY <1>2, <2>1
<1>3. B \in T
  <2> HIDE DEF T
  <2> QED
    BY <1>1, <1>2, PartsInduction
<1> QED
  BY <1>3

(* Sums of sums.                                                           *)
LEMMA SumsAdd ==
  ASSUME NEW S, IsFiniteSet(S), NEW g, NEW it, Adds(it, S, g), NEW g2, NEW it2, Adds(it2, S, g2),
         NEW g3, NEW it3, Adds(it3, S, g3),
         \A x \in S : g[x] \in Nat /\ g2[x] \in Nat /\ g3[x] = g[x] + g2[x]
  PROVE  it3[S] = it[S] + it2[S]
<1> DEFINE T == {s \in SUBSET S : it3[s] = it[s] + it2[s]}
<1>1. {} \in T
  <2>1. it[{}] = 0 /\ it2[{}] = 0 /\ it3[{}] = 0
    BY DEF Adds
  <2> QED
    BY <2>1
<1>2. ASSUME NEW s \in SUBSET S, NEW x \in s, s \ {x} \in T PROVE s \in T
  <2>1. PICK r \in SUBSET S : r = s \ {x} /\ it3[r] = it[r] + it2[r]
    BY <1>2
  <2>2. it[s] = g[x] + it[r] /\ it2[s] = g2[x] + it2[r] /\ it3[s] = g3[x] + it3[r] /\ it[r] \in Nat /\ it2[r] \in Nat
    BY <2>1 DEF Adds
  <2>3. it3[s] = it[s] + it2[s]
    BY <2>1, <2>2
  <2> QED
    BY <2>3
<1>3. S \in T
  <2> HIDE DEF T
  <2> QED
    BY <1>1, <1>2, PartsInduction
<1> QED
  BY <1>3

(* The sums of the model are sums.                                         *)
LEMMA SumOfAdds ==
  ASSUME NEW B, IsFiniteSet(B), NEW tbl, \A b \in B : tbl[b] \in Nat
  PROVE  \E it : Adds(it, B, [b \in B |-> tbl[b]]) /\ SumOf(tbl, B) = it[B]
<1> DEFINE g == [b \in B |-> tbl[b]]
           Is(it) == it = [s \in SUBSET B |-> IF s = {} THEN 0
                             ELSE tbl[CHOOSE x \in s : TRUE] + it[s \ {CHOOSE x \in s : TRUE}]]
           c == CHOOSE it : Is(it)
<1>1. SumOf(tbl, B) = c[B]
  BY DEF SumOf, MapThenSumSet, MapThenFoldSet
<1>2. \A s \in SUBSET B : s # {} => g[CHOOSE x \in s : TRUE] = tbl[CHOOSE x \in s : TRUE]
  OBVIOUS
<1>3. g \in [B -> Nat]
  OBVIOUS
<1> HIDE DEF g
<1>4. \A it : Is(it) <=> Summing(it, B, g)
  BY <1>2 DEF Summing
<1>5. \E it : Summing(it, B, g)
  BY <1>3, SummingExists
<1>6. Is(c)
  <2> HIDE DEF Is
  <2> QED
    BY <1>4, <1>5
<1>7. Summing(c, B, g)
  <2> HIDE DEF Is, c
  <2> QED
    BY <1>4, <1>6
<1> HIDE DEF c
<1>8. Adds(c, B, g)
  BY <1>3, <1>7, SummingAdds
<1> QED
  BY <1>1, <1>8 DEF g

LEMMA LoadAdds ==
  ASSUME NEW mem, NEW o \in Nat, NEW n \in Nat, \A k \in 1..n : mem[o + k] \in Nat
  PROVE  \E it : Adds(it, 1..n, [k \in 1..n |-> mem[o + k] * Pow(Byte, k - 1)]) /\ Load(mem, o, n) = it[1..n]
<1> DEFINE g == [k \in 1..n |-> mem[o + k] * Pow(Byte, k - 1)]
           m(k) == mem[o + k] * Pow(Byte, k - 1)
           Is(it) == it = [s \in SUBSET (1..n) |-> IF s = {} THEN 0
                             ELSE m(CHOOSE x \in s : TRUE) + it[s \ {CHOOSE x \in s : TRUE}]]
           c == CHOOSE it : Is(it)
<1>1. Load(mem, o, n) = c[1..n]
  BY DEF Load, MapThenSumSet, MapThenFoldSet
<1>2. \A s \in SUBSET (1..n) : s # {} => g[CHOOSE x \in s : TRUE] = m(CHOOSE x \in s : TRUE)
  OBVIOUS
<1>3. g \in [1..n -> Nat] /\ IsFiniteSet(1..n)
  <2>1. ASSUME NEW k \in 1..n PROVE mem[o + k] * Pow(Byte, k - 1) \in Nat
    <3>1. k - 1 \in Nat /\ Byte \in Nat
      BY ByteAssumption
    <3>2. Pow(Byte, k - 1) \in Nat
      BY <3>1, PowIs
    <3> QED
      BY <3>2
  <2> QED
    BY <2>1, FS_Interval
<1> HIDE DEF g, m
<1>4. \A it : Is(it) <=> Summing(it, 1..n, g)
  BY <1>2, SMTT(30) DEF Summing
<1>5. \E it : Summing(it, 1..n, g)
  BY <1>3, SummingExists
<1>6. Is(c)
  <2> HIDE DEF Is
  <2> QED
    BY <1>4, <1>5
<1>7. Summing(c, 1..n, g)
  <2> HIDE DEF Is, c
  <2> QED
    BY <1>4, <1>6
<1> HIDE DEF c
<1>8. Adds(c, 1..n, g)
  BY <1>3, <1>7, SummingAdds
<1> QED
  BY <1>1, <1>8 DEF g

----------------------------------------------------------------------------
(* The checksum.                                                           *)

LEMMA ByteIs == Byte \in Nat /\ Byte >= 2 /\ Byte # 0
BY ByteAssumption

(* The numbers of n bytes: two of them are nowhere the same.               *)
LEMMA BytePow ==
  /\ \A n \in Nat : Pow(Byte, n) \in Nat \ {0} /\ Pow(Byte, n + 1) = Byte * Pow(Byte, n) /\ (n # 0 => Pow(Byte, n) >= 2)
  /\ Pow(Byte, 0) = 1 /\ Pow(Byte, 1) = Byte
  /\ \A n \in Nat : Pow(Byte, n + 2) = Pow(Byte, 2) * Pow(Byte, n)
  /\ Pow(Byte, 4) = Pow(Byte, 2) * Pow(Byte, 2) /\ Pow(Byte, 8) = Pow(Byte, 4) * Pow(Byte, 4)
<1>1. Pow(Byte, 0) = 1 /\ \A n \in Nat : Pow(Byte, n) \in Nat /\ Pow(Byte, n + 1) = Byte * Pow(Byte, n)
  BY ByteIs, PowIs
<1> DEFINE T == {n \in Nat : Pow(Byte, n) \in Nat \ {0} /\ (n # 0 => Pow(Byte, n) >= 2)}
<1>2. 0 \in T
  BY <1>1
<1>3. ASSUME NEW n \in Nat, n \in T PROVE n + 1 \in T
  <2>1. PICK p \in Nat \ {0} : p = Pow(Byte, n)
    BY <1>3
  <2>2. PICK b \in Nat : b = Byte /\ b >= 2
    BY ByteIs
  <2>3. b * p >= 2 /\ b * p \in Nat
    <3>1. PICK c \in Nat : b = c + 2
      <4>1. b - 2 \in Nat /\ b = (b - 2) + 2
        BY <2>2
      <4> QED
        BY <4>1
    <3>2. (c + 2) * p = c * p + 2 * p /\ c * p \in Nat
      OBVIOUS
    <3> QED
      BY <3>1, <3>2
  <2> QED
    BY <1>1, <2>1, <2>2, <2>3
<1>4. \A n \in Nat : n \in T
  <2> HIDE DEF T
  <2> QED
    BY <1>2, <1>3, SetInduction
<1>5. Pow(Byte, 1) = Byte /\ Pow(Byte, 2) = Byte * Byte
  <2>1. Pow(Byte, 0 + 1) = Byte * Pow(Byte, 0) /\ Pow(Byte, 1 + 1) = Byte * Pow(Byte, 1)
    BY <1>1
  <2> QED
    BY <1>1, <2>1, ByteIs
<1>6. ASSUME NEW n \in Nat PROVE Pow(Byte, n + 2) = Pow(Byte, 2) * Pow(Byte, n)
  <2>1. Pow(Byte, (n + 1) + 1) = Byte * Pow(Byte, n + 1) /\ Pow(Byte, n + 1) = Byte * Pow(Byte, n) /\ (n + 1) + 1 = n + 2
    BY <1>1
  <2>2. PICK p \in Nat : p = Pow(Byte, n)
    BY <1>1
  <2>3. PICK b \in Nat : b = Byte
    BY ByteIs
  <2>4. b * (b * p) = (b * b) * p
    OBVIOUS
  <2> QED
    BY <1>5, <2>1, <2>2, <2>3, <2>4
<1>7. Pow(Byte, 4) = Pow(Byte, 2) * Pow(Byte, 2)
  <2>1. Pow(Byte, 2 + 2) = Pow(Byte, 2) * Pow(Byte, 2)
    BY <1>6
  <2> QED
    BY <2>1
<1>8. Pow(Byte, 8) = Pow(Byte, 4) * Pow(Byte, 4)
  <2>1. Pow(Byte, 6) = Pow(Byte, 2) * Pow(Byte, 4)
    <3>1. Pow(Byte, 4 + 2) = Pow(Byte, 2) * Pow(Byte, 4)
      BY <1>6
    <3> QED
      BY <3>1
  <2>2. Pow(Byte, 8) = Pow(Byte, 2) * Pow(Byte, 6)
    <3>1. Pow(Byte, 6 + 2) = Pow(Byte, 2) * Pow(Byte, 6)
      BY <1>6
    <3> QED
      BY <3>1
  <2>3. PICK p \in Nat : p = Pow(Byte, 2)
    BY <1>1
  <2>4. p * (p * (p * p)) = (p * p) * (p * p)
    OBVIOUS
  <2> QED
    BY <1>7, <2>1, <2>2, <2>3, <2>4
<1> QED
  BY <1>1, <1>4, <1>5, <1>6, <1>7, <1>8

LEMMA BytePowType == \A n \in Nat : Pow(Byte, n) \in Nat \ {0} /\ Pow(Byte, n) \in Int
<1> SUFFICES ASSUME NEW n \in Nat PROVE Pow(Byte, n) \in Nat \ {0}
  OBVIOUS
<1> QED
  BY BytePow

(* What the one's complement sum of two bytes does not tell apart.         *)
Ones == Pow(Byte, 2) - 1
Same(x, y) == \E q \in Int : x = y + q * Ones

LEMMA OnesType == Ones \in Nat /\ Ones >= 1
<1>1. Pow(Byte, 2) \in Nat /\ Pow(Byte, 2) >= 2
  BY BytePow
<1> QED
  BY <1>1 DEF Ones

LEMMA SameAdd ==
  ASSUME NEW a \in Int, NEW b \in Int, NEW c \in Int, NEW d \in Int, Same(a, b), Same(c, d)
  PROVE  Same(a + c, b + d)
<1>1. PICK q \in Int, p \in Int : a = b + q * Ones /\ c = d + p * Ones
  BY DEF Same
<1>2. PICK m \in Int : m = Ones
  BY OnesType
<1>3. a + c = (b + d) + (q + p) * m /\ q + p \in Int
  BY <1>1, <1>2
<1> QED
  BY <1>2, <1>3 DEF Same

LEMMA SameTimes ==
  ASSUME NEW a \in Int, NEW b \in Int, NEW c \in Int, Same(a, b)
  PROVE  Same(c * a, c * b)
<1>1. PICK q \in Int : a = b + q * Ones
  BY DEF Same
<1>2. PICK m \in Int : m = Ones
  BY OnesType
<1>3. c * a = c * b + (c * q) * m /\ c * q \in Int
  BY <1>1, <1>2
<1> QED
  BY <1>2, <1>3 DEF Same

LEMMA SameTrans ==
  ASSUME NEW a \in Int, NEW b \in Int, NEW c \in Int, Same(a, b)
  PROVE  (Same(b, c) => Same(a, c)) /\ Same(b, a) /\ Same(a, a)
<1>1. PICK q \in Int : a = b + q * Ones
  BY DEF Same
<1>2. PICK m \in Int : m = Ones
  BY OnesType
<1>3. ASSUME Same(b, c) PROVE Same(a, c)
  <2>1. PICK p \in Int : b = c + p * Ones
    BY <1>3 DEF Same
  <2>2. a = c + (q + p) * m /\ q + p \in Int
    BY <1>1, <1>2, <2>1
  <2> QED
    BY <1>2, <2>2 DEF Same
<1>4. b = a + (-q) * m /\ -q \in Int /\ a = a + 0 * m
  BY <1>1, <1>2
<1> QED
  BY <1>2, <1>3, <1>4 DEF Same

(* Its remainders.                                                         *)
LEMMA SameRemainder ==
  ASSUME NEW a \in Nat, NEW b \in Nat, Same(a, b)
  PROVE  a % Ones = b % Ones
<1>1. PICK q \in Int : a = b + q * Ones
  BY DEF Same
<1>2. PICK m \in Nat \ {0} : m = Ones
  BY OnesType
<1>3. PICK p \in Nat, r \in 0..(m - 1) : b = m * p + r /\ r = b % m
  BY Division
<1>4. a = m * (p + q) + r
  BY <1>1, <1>2, <1>3
<1>5. p + q \in Nat
  <2> SUFFICES ASSUME p + q <= -1 PROVE FALSE
    OBVIOUS
  <2>1. m * (p + q) <= -m
    OBVIOUS
  <2> QED
    BY <1>4, <2>1
<1>6. a % m = r
  BY <1>4, <1>5, DivisionIs
<1> QED
  BY <1>2, <1>3, <1>6

(* Only the parity of a byte's place matters.                              *)
LEMMA SameParity ==
  ASSUME NEW n \in Nat
  PROVE  Same(Pow(Byte, n), Pow(Byte, n % 2))
<1> DEFINE T == {k \in Nat : \A j \in {k, k + 1} : Same(Pow(Byte, j), Pow(Byte, j % 2))}
<1>0. \A k \in Nat : Pow(Byte, k) \in Int
  BY BytePow
<1>1. 0 \in T
  <2>1. \A j \in {0, 1} : j % 2 = j /\ Pow(Byte, j) = Pow(Byte, j) + 0 * Ones
    BY <1>0, OnesType
  <2> QED
    BY <2>1 DEF Same
<1>2. ASSUME NEW k \in Nat, k \in T PROVE k + 1 \in T
  <2>1. Same(Pow(Byte, k + 2), Pow(Byte, k))
    <3>1. PICK p \in Int : p = Pow(Byte, k)
      BY <1>0
    <3>2. PICK m \in Int : m = Pow(Byte, 2)
      BY <1>0
    <3>3. m * p = p + p * (m - 1)
      OBVIOUS
    <3>4. Pow(Byte, k + 2) = m * p
      BY <3>1, <3>2, BytePow
    <3> QED
      BY <3>1, <3>2, <3>3, <3>4 DEF Same, Ones
  <2>2. (k + 2) % 2 = k % 2 /\ k % 2 \in Nat /\ k + 2 \in Nat
    OBVIOUS
  <2>3. Same(Pow(Byte, k + 2), Pow(Byte, (k + 2) % 2))
    <3>1. Same(Pow(Byte, k), Pow(Byte, k % 2))
      BY <1>2
    <3> QED
      BY <1>0, <2>1, <2>2, <3>1, SameTrans
  <2>4. (k + 1) + 1 = k + 2 /\ k + 1 \in {k, k + 1}
    OBVIOUS
  <2> QED
    BY <1>2, <2>3, <2>4
<1>3. \A k \in Nat : k \in T
  <2> HIDE DEF T
  <2> QED
    BY <1>1, <1>2, SetInduction
<1> QED
  BY <1>3

(* sum += s; if (sum < s) sum++ is addition where the carry comes back.    *)
LEMMA AddCarryIs ==
  ASSUME NEW n \in Nat, NEW sum \in 0..(Pow(Byte, n) - 1), NEW s \in 0..(Pow(Byte, n) - 1)
  PROVE  /\ AddCarry(n, sum, s) \in 0..(Pow(Byte, n) - 1)
         /\ AddCarry(n, sum, s) = sum + s \/ AddCarry(n, sum, s) = sum + s - (Pow(Byte, n) - 1)
         /\ AddCarry(n, sum, s) = 0 <=> sum = 0 /\ s = 0
<1>1. PICK p \in Nat \ {0} : p = Pow(Byte, n)
  BY BytePow
<1>2. PICK t : t = (sum + s) % p
  OBVIOUS
<1>3. AddCarry(n, sum, s) = IF t < s THEN t + 1 ELSE t
  BY <1>1, <1>2 DEF AddCarry
<1>4. CASE sum + s < p
  <2>1. sum + s = p * 0 + (sum + s) /\ sum + s \in 0..(p - 1) /\ sum + s \in Nat
    BY <1>1, <1>4
  <2>2. t = sum + s
    BY <1>2, <2>1, DivisionIs
  <2> QED
    BY <1>1, <1>3, <2>1, <2>2
<1>5. CASE ~(sum + s < p)
  <2>1. sum + s = p * 1 + (sum + s - p) /\ sum + s - p \in 0..(p - 1) /\ sum + s \in Nat
    BY <1>1, <1>5
  <2>2. t = sum + s - p
    BY <1>2, <2>1, DivisionIs
  <2>3. t < s
    BY <1>1, <2>2
  <2> QED
    BY <1>1, <1>3, <1>5, <2>2, <2>3
<1> QED
  BY <1>4, <1>5

(* The bytes at the places before the n-th, and what they add up to: it    *)
(* are the sums of them, each with the weight that it has in a word of two.*)
Bytes(mem, n) == \A k \in 1..n : mem[k] \in 0..(Byte - 1)
Weights(mem, n) == [k \in 1..n |-> mem[k] * Pow(Byte, (k - 1) % 2)]

(* sum stands for the first n of them.                                     *)
Stands(sum, mem, it, n) ==
  /\ sum \in 0..(Pow(Byte, 8) - 1)
  /\ Same(sum, it[1..n])
  /\ sum = 0 <=> \A k \in 1..n : mem[k] = 0

(* What is loaded stands for n bytes behind the first o.                   *)
LEMMA LoadIs ==
  ASSUME NEW mem, NEW N \in Nat, Bytes(mem, N), NEW it, Adds(it, 1..N, Weights(mem, N)),
         NEW o \in Nat, o % 2 = 0, NEW n \in Nat, o + n <= N
  PROVE  /\ Load(mem, o, n) \in 0..(Pow(Byte, n) - 1)
         /\ Same(it[1..o] + Load(mem, o, n), it[1..(o + n)]) /\ it[1..o] \in Nat /\ it[1..(o + n)] \in Nat
         /\ Load(mem, o, n) = 0 <=> \A k \in 1..n : mem[o + k] = 0
<1>1. \A k \in 1..n : mem[o + k] \in 0..(Byte - 1) /\ mem[o + k] \in Nat
  <2> SUFFICES ASSUME NEW k \in 1..n PROVE mem[o + k] \in 0..(Byte - 1)
    BY ByteIs
  <2>1. o + k \in 1..N
    OBVIOUS
  <2> QED
    BY <2>1 DEF Bytes
<1> DEFINE lg == [k \in 1..n |-> mem[o + k] * Pow(Byte, k - 1)]
<1>2. PICK lo : Adds(lo, 1..n, lg) /\ Load(mem, o, n) = lo[1..n]
  BY <1>1, LoadAdds
<1> DEFINE T == {j \in Nat : j <= n =>
                   /\ lo[1..j] \in 0..(Pow(Byte, j) - 1)
                   /\ Same(it[1..o] + lo[1..j], it[1..(o + j)])
                   /\ lo[1..j] = 0 <=> \A k \in 1..j : mem[o + k] = 0}
<1>3. it[1..o] \in Nat /\ \A j \in 0..n : it[1..(o + j)] \in Nat /\ lo[1..j] \in Nat
  <2>1. 1..o \in SUBSET (1..N) /\ \A j \in 0..n : 1..(o + j) \in SUBSET (1..N) /\ 1..j \in SUBSET (1..n)
    OBVIOUS
  <2> QED
    BY <1>2, <2>1 DEF Adds
<1>4. 0 \in T
  <2>1. 1..0 = {} /\ o + 0 = o
    OBVIOUS
  <2>2. lo[1..0] = 0
    BY <1>2, <2>1 DEF Adds
  <2>3. it[1..o] + lo[1..0] = it[1..(o + 0)] + 0 * Ones
    BY <1>3, <2>1, <2>2, OnesType
  <2>4. Same(it[1..o] + lo[1..0], it[1..(o + 0)])
    BY <2>3 DEF Same
  <2>5. lo[1..0] \in 0..(Pow(Byte, 0) - 1) /\ \A k \in 1..0 : mem[o + k] = 0
    BY <2>1, <2>2, BytePow
  <2> QED
    BY <2>2, <2>4, <2>5
<1>5. ASSUME NEW j \in Nat, j \in T PROVE j + 1 \in T
  <2> SUFFICES ASSUME j + 1 <= n
               PROVE  /\ lo[1..(j + 1)] \in 0..(Pow(Byte, j + 1) - 1)
                      /\ Same(it[1..o] + lo[1..(j + 1)], it[1..(o + (j + 1))])
                      /\ lo[1..(j + 1)] = 0 <=> \A k \in 1..(j + 1) : mem[o + k] = 0
    BY SMTT(30)
  <2>1. /\ lo[1..j] \in 0..(Pow(Byte, j) - 1)
        /\ Same(it[1..o] + lo[1..j], it[1..(o + j)])
        /\ lo[1..j] = 0 <=> \A k \in 1..j : mem[o + k] = 0
    BY <1>5
  <2>2. /\ j + 1 \in 1..n /\ o + (j + 1) \in 1..N /\ (1..(j + 1)) \ {j + 1} = 1..j
        /\ (1..(o + (j + 1))) \ {o + (j + 1)} = 1..(o + j) /\ 1..(j + 1) \in SUBSET (1..n)
        /\ 1..(o + (j + 1)) \in SUBSET (1..N) /\ j + 1 \in 1..(j + 1) /\ o + (j + 1) \in 1..(o + (j + 1))
        /\ j \in 0..n /\ j + 1 \in 0..n
    OBVIOUS
  <2>3. PICK m \in Nat : m = mem[o + (j + 1)] /\ m <= Byte - 1
    <3>1. mem[o + (j + 1)] \in 0..(Byte - 1) /\ Byte \in Nat
      BY <1>1, <2>2, ByteIs
    <3> QED
      BY <3>1
  <2>4. lo[1..(j + 1)] = m * Pow(Byte, j) + lo[1..j]
    <3>1. lo[1..(j + 1)] = lg[j + 1] + lo[(1..(j + 1)) \ {j + 1}]
      <4> HIDE DEF lg
      <4> QED
        BY <1>2, <2>2 DEF Adds
    <3>2. (j + 1) - 1 = j
      OBVIOUS
    <3>3. lg[j + 1] = m * Pow(Byte, j)
      BY <2>2, <2>3, <3>2
    <3> QED
      BY <2>2, <3>1, <3>3
  <2>5. it[1..(o + (j + 1))] = m * Pow(Byte, j % 2) + it[1..(o + j)]
    <3>1. it[1..(o + (j + 1))] = Weights(mem, N)[o + (j + 1)] + it[(1..(o + (j + 1))) \ {o + (j + 1)}]
      BY <2>2 DEF Adds
    <3>2. ((o + (j + 1)) - 1) % 2 = j % 2
      OBVIOUS
    <3>3. Weights(mem, N)[o + (j + 1)] = m * Pow(Byte, j % 2)
      BY <2>2, <2>3, <3>2 DEF Weights
    <3> QED
      BY <2>2, <3>1, <3>3
  <2>6. PICK p \in Nat \ {0}, b \in Nat \ {0}, l \in Nat :
          p = Pow(Byte, j) /\ b = Byte /\ l = lo[1..j] /\ Pow(Byte, j + 1) = b * p /\ l <= p - 1
    <3>1. Pow(Byte, j) \in Nat \ {0} /\ Pow(Byte, j + 1) = Byte * Pow(Byte, j) /\ Byte \in Nat \ {0}
      BY BytePow, ByteIs
    <3>2. lo[1..j] \in Nat /\ lo[1..j] <= Pow(Byte, j) - 1
      BY <2>1, <3>1
    <3> QED
      BY <3>1, <3>2
  <2>7. lo[1..(j + 1)] \in 0..(Pow(Byte, j + 1) - 1)
    <3>0. m <= b - 1
      BY <2>3, <2>6
    <3>1. PICK c \in Nat : b = m + 1 + c
      <4>1. b - (m + 1) \in Nat /\ b = m + 1 + (b - (m + 1))
        BY <3>0
      <4> QED
        BY <4>1
    <3>2. (m + 1 + c) * p = m * p + p + c * p /\ c * p \in Nat /\ m * p \in Nat
      OBVIOUS
    <3>3. b * p = m * p + p + c * p /\ b * p \in Nat
      BY <3>1, <3>2
    <3>4. lo[1..(j + 1)] = m * p + l
      BY <2>4, <2>6
    <3>5. m * p + l \in Nat /\ m * p + l <= b * p - 1
      <4>1. l <= p - 1
        BY <2>6
      <4> QED
        BY <3>2, <3>3, <4>1
    <3> QED
      BY <2>6, <3>3, <3>4, <3>5
  <2>8. Same(it[1..o] + lo[1..(j + 1)], it[1..(o + (j + 1))])
    <3>1. Same(m * Pow(Byte, j), m * Pow(Byte, j % 2))
      <4>1. j % 2 \in Nat
        OBVIOUS
      <4>2. Pow(Byte, j) \in Int /\ Pow(Byte, j % 2) \in Int /\ m \in Int
        BY <4>1, BytePowType
      <4> QED
        BY <4>2, SameTimes, SameParity
    <3>2. PICK x \in Int, y \in Int, u \in Int, v \in Int :
            /\ x = it[1..o] + lo[1..j] /\ y = it[1..(o + j)] /\ u = m * Pow(Byte, j) /\ v = m * Pow(Byte, j % 2)
      <4>1. j % 2 \in Nat
        OBVIOUS
      <4>2. Pow(Byte, j) \in Int /\ Pow(Byte, j % 2) \in Int /\ m \in Int
        BY <4>1, BytePowType
      <4>3. m * Pow(Byte, j) \in Int /\ m * Pow(Byte, j % 2) \in Int
        BY <4>2
      <4>4. it[1..o] \in Int /\ lo[1..j] \in Int /\ it[1..(o + j)] \in Int
        BY <1>3, <2>2
      <4>5. it[1..o] + lo[1..j] \in Int
        BY <4>4
      <4> QED
        BY <4>3, <4>4, <4>5
    <3>3. Same(x + u, y + v)
      BY <2>1, <3>1, <3>2, SameAdd
    <3>4. it[1..o] + lo[1..(j + 1)] = x + u
      <4>1. PICK a \in Int, c \in Int : a = it[1..o] /\ c = lo[1..j]
        BY <1>3, <2>2
      <4>2. lo[1..(j + 1)] = u + c /\ x = a + c
        BY <2>4, <3>2, <4>1
      <4>3. it[1..o] + lo[1..(j + 1)] = a + (u + c)
        BY <4>1, <4>2
      <4>4. a + (u + c) = (a + c) + u
        OBVIOUS
      <4> QED
        BY <4>2, <4>3, <4>4
    <3>5. it[1..(o + (j + 1))] = y + v
      <4>1. it[1..(o + (j + 1))] = v + y
        BY <2>5, <3>2
      <4> QED
        BY <4>1
    <3> QED
      BY <3>3, <3>4, <3>5
  <2>9. lo[1..(j + 1)] = 0 <=> \A k \in 1..(j + 1) : mem[o + k] = 0
    <3>1. (\A k \in 1..(j + 1) : mem[o + k] = 0) <=> m = 0 /\ \A k \in 1..j : mem[o + k] = 0
      <4>1. \A k \in 1..(j + 1) : k = j + 1 \/ k \in 1..j
        OBVIOUS
      <4>2. \A k \in 1..j : k \in 1..(j + 1)
        OBVIOUS
      <4> QED
        BY <2>2, <2>3, <4>1, <4>2
    <3>2. m * p + l = 0 <=> m = 0 /\ l = 0
      <4>1. m * p >= m /\ m * p \in Nat /\ (m = 0 => m * p = 0)
        OBVIOUS
      <4> QED
        BY <4>1
    <3> QED
      BY <2>1, <2>4, <2>6, <3>1, <3>2
  <2> QED
    BY <2>7, <2>8, <2>9
<1>6. \A j \in Nat : j \in T
  <2> HIDE DEF T
  <2> QED
    BY <1>4, <1>5, SetInduction
<1>7. n \in T
  BY <1>6
<1>8. n \in 0..n
  OBVIOUS
<1>9. PICK l : l = lo[1..n]
  OBVIOUS
<1>10. /\ l \in 0..(Pow(Byte, n) - 1)
       /\ Same(it[1..o] + l, it[1..(o + n)])
       /\ l = 0 <=> \A k \in 1..n : mem[o + k] = 0
  BY <1>7, <1>9
<1>11. it[1..o] \in Nat /\ it[1..(o + n)] \in Nat
  BY <1>3, <1>8
<1>12. Load(mem, o, n) = l
  BY <1>2, <1>9
<1> QED
  BY <1>10, <1>11, <1>12

(* It is less than a word, and so is every sum with it.                    *)
LEMMA LoadFits ==
  ASSUME NEW mem, NEW N \in Nat, Bytes(mem, N), NEW it, Adds(it, 1..N, Weights(mem, N)),
         NEW o \in Nat, o % 2 = 0, NEW n \in {1, 2, 4, 8}, o + n <= N
  PROVE  /\ Load(mem, o, n) \in 0..(Pow(Byte, 8) - 1)
         /\ \A sum \in 0..(Pow(Byte, 8) - 1) : AddCarry(8, sum, Load(mem, o, n)) \in 0..(Pow(Byte, 8) - 1)
<1>1. PICK l : l = Load(mem, o, n)
  OBVIOUS
<1>2. l \in 0..(Pow(Byte, n) - 1)
  BY <1>1, LoadIs
<1>3. l \in 0..(Pow(Byte, 8) - 1)
  <2>1. PICK b \in Nat \ {0} : b = Byte
    BY ByteIs
  <2>2. Pow(Byte, 1) = b /\ Pow(Byte, 2) = b * b /\ Pow(Byte, 4) = (b * b) * (b * b) /\ Pow(Byte, 8) = Pow(Byte, 4) * Pow(Byte, 4)
    <3>1. Pow(Byte, 1 + 1) = Byte * Pow(Byte, 1)
      BY BytePow
    <3>2. Pow(Byte, 2) = b * b
      BY <2>1, <3>1, BytePow
    <3> QED
      BY <2>1, <3>2, BytePow
  <2>3. \A x \in Nat \ {0} : x <= x * x
    OBVIOUS
  <2>4. Pow(Byte, 1) <= Pow(Byte, 2) /\ Pow(Byte, 2) <= Pow(Byte, 4) /\ Pow(Byte, 4) <= Pow(Byte, 8)
    BY <2>1, <2>2, <2>3, BytePow
  <2>5. Pow(Byte, 1) \in Nat /\ Pow(Byte, 2) \in Nat /\ Pow(Byte, 4) \in Nat /\ Pow(Byte, 8) \in Nat
    BY BytePow
  <2>6. Pow(Byte, n) \in Nat /\ Pow(Byte, n) <= Pow(Byte, 8)
    BY <2>4, <2>5
  <2>7. l \in Nat /\ l <= Pow(Byte, n) - 1
    BY <1>2, <2>6
  <2> QED
    BY <2>5, <2>6, <2>7
<1>4. ASSUME NEW sum \in 0..(Pow(Byte, 8) - 1) PROVE AddCarry(8, sum, l) \in 0..(Pow(Byte, 8) - 1)
  <2>1. PICK e \in Nat : e = 8
    OBVIOUS
  <2>2. sum \in 0..(Pow(Byte, e) - 1) /\ l \in 0..(Pow(Byte, e) - 1)
    BY <1>3, <2>1
  <2>3. AddCarry(e, sum, l) \in 0..(Pow(Byte, e) - 1)
    BY <2>2, AddCarryIs
  <2> QED
    BY <2>1, <2>3
<1> QED
  BY <1>1, <1>3, <1>4

(* Adding it to what stands for the bytes before stands for all of them.   *)
LEMMA CarryOn ==
  ASSUME NEW mem, NEW N \in Nat, Bytes(mem, N), NEW it, Adds(it, 1..N, Weights(mem, N)),
         NEW o \in Nat, o % 2 = 0, NEW n \in {1, 2, 4, 8}, o + n <= N,
         NEW sum, Stands(sum, mem, it, o)
  PROVE  Stands(AddCarry(8, sum, Load(mem, o, n)), mem, it, o + n)
<1>1. PICK l : l = Load(mem, o, n)
  OBVIOUS
<1>2. /\ l \in 0..(Pow(Byte, n) - 1)
      /\ Same(it[1..o] + l, it[1..(o + n)]) /\ it[1..o] \in Nat /\ it[1..(o + n)] \in Nat
      /\ l = 0 <=> \A k \in 1..n : mem[o + k] = 0
  <2>1. PICK m \in Nat : m = n
    OBVIOUS
  <2>2. o + m <= N
    BY <2>1
  <2>3. /\ Load(mem, o, m) \in 0..(Pow(Byte, m) - 1)
        /\ Same(it[1..o] + Load(mem, o, m), it[1..(o + m)]) /\ it[1..o] \in Nat /\ it[1..(o + m)] \in Nat
        /\ Load(mem, o, m) = 0 <=> \A k \in 1..m : mem[o + k] = 0
    BY <2>2, LoadIs
  <2> QED
    BY <1>1, <2>1, <2>3
<1>3. l \in 0..(Pow(Byte, 8) - 1)
  BY <1>1, LoadFits
<1>4. sum \in 0..(Pow(Byte, 8) - 1) /\ Same(sum, it[1..o]) /\ (sum = 0 <=> \A k \in 1..o : mem[k] = 0)
  BY DEF Stands
<1>5. PICK r : r = AddCarry(8, sum, l)
  OBVIOUS
<1>6. /\ r \in 0..(Pow(Byte, 8) - 1)
      /\ r = sum + l \/ r = sum + l - (Pow(Byte, 8) - 1)
      /\ r = 0 <=> sum = 0 /\ l = 0
  <2>1. /\ AddCarry(8, sum, l) \in 0..(Pow(Byte, 8) - 1)
        /\ AddCarry(8, sum, l) = sum + l \/ AddCarry(8, sum, l) = sum + l - (Pow(Byte, 8) - 1)
        /\ AddCarry(8, sum, l) = 0 <=> sum = 0 /\ l = 0
    <3>1. PICK e \in Nat : e = 8
      OBVIOUS
    <3>2. sum \in 0..(Pow(Byte, e) - 1) /\ l \in 0..(Pow(Byte, e) - 1)
      BY <1>3, <1>4, <3>1
    <3>3. /\ AddCarry(e, sum, l) \in 0..(Pow(Byte, e) - 1)
          /\ AddCarry(e, sum, l) = sum + l \/ AddCarry(e, sum, l) = sum + l - (Pow(Byte, e) - 1)
          /\ AddCarry(e, sum, l) = 0 <=> sum = 0 /\ l = 0
      BY <3>2, AddCarryIs
    <3> QED
      BY <3>1, <3>3
  <2> QED
    BY <1>5, <2>1
<1>7. PICK p \in Int, x \in Int, y \in Int : p = Pow(Byte, 8) - 1 /\ x = it[1..o] /\ y = it[1..(o + n)]
  <2>1. Pow(Byte, 8) \in Nat
    BY BytePow
  <2> QED
    BY <1>2, <2>1
<1>8. sum \in Int /\ l \in Int /\ r \in Int
  BY <1>3, <1>4, <1>6
<1>9. Same(sum + l, y)
  <2>1. Same(l, l)
    <3>1. l = l + 0 * Ones
      BY <1>8, OnesType
    <3> QED
      BY <3>1 DEF Same
  <2>2. Same(sum + l, x + l)
    BY <1>4, <1>7, <1>8, <2>1, SameAdd
  <2>3. Same(x + l, y) /\ x + l \in Int /\ sum + l \in Int
    BY <1>2, <1>7, <1>8
  <2> QED
    BY <1>7, <2>2, <2>3, SameTrans
<1>10. Same(r, y)
  <2>1. CASE r = sum + l
    BY <1>9, <2>1
  <2>2. CASE r = sum + l - p
    <3>1. PICK q \in Int : p = q * Ones
      <4>1. PICK w \in Int : w = Pow(Byte, 2)
        BY BytePow, SMTT(30)
      <4>2. p = (w * w) * (w * w) - 1
        BY <1>7, <4>1, BytePow
      <4>3. (w * w) * (w * w) - 1 = ((w * w + 1) * (w + 1)) * (w - 1)
        OBVIOUS
      <4>4. (w * w + 1) * (w + 1) \in Int
        OBVIOUS
      <4> QED
        BY <4>1, <4>2, <4>3, <4>4 DEF Ones
    <3>2. PICK m \in Int : m = Ones
      BY OnesType
    <3>3. r = (sum + l) + (-q) * m /\ -q \in Int
      BY <1>8, <2>2, <3>1, <3>2
    <3>4. Same(r, sum + l)
      BY <3>2, <3>3 DEF Same
    <3>5. sum + l \in Int
      BY <1>8
    <3> QED
      BY <1>7, <1>8, <1>9, <3>4, <3>5, SameTrans
  <2> QED
    BY <1>6, <1>7, <2>1, <2>2
<1>11. (sum = 0 /\ l = 0) <=> \A k \in 1..(o + n) : mem[k] = 0
  <2>1. \A k \in 1..(o + n) : k \in 1..o \/ (k - o \in 1..n /\ k = o + (k - o))
    OBVIOUS
  <2>2. (\A k \in 1..o : k \in 1..(o + n)) /\ \A k \in 1..n : o + k \in 1..(o + n)
    OBVIOUS
  <2> QED
    BY <1>2, <1>4, <2>1, <2>2
<1> QED
  BY <1>1, <1>5, <1>6, <1>7, <1>10, <1>11 DEF Stands

(* The loop over whole words takes its turns.                              *)
LEMMA WordsStand ==
  ASSUME NEW mem, NEW N \in Nat, Bytes(mem, N), NEW it, Adds(it, 1..N, Weights(mem, N)),
         NEW nbytes \in Nat, 8 * (nbytes \div 8) <= N
  PROVE  Stands(Words(mem, nbytes), mem, it, 8 * (nbytes \div 8))
<1> DEFINE n == nbytes \div 8
           U == 0..(Pow(Byte, 8) - 1)
           Y == 0..(n - 1)
           s == [w \in 1..n |-> w - 1]
           Round(sum, w) == AddCarry(8, sum, Load(mem, 8 * w, 8))
           g == [p \in U \X Y |-> Round(p[1], p[2])]
           Is(c) == c = [S \in SUBSET (1..n) |-> IF S = {} THEN 0 ELSE Round(c[S \ {Max(S)}], s[Max(S)])]
           c == CHOOSE x : Is(x)
<1>0. n \in Nat /\ 8 * n <= N
  OBVIOUS
<1>1. Words(mem, nbytes) = c[1..n]
  <2>1. DOMAIN s = 1..n
    OBVIOUS
  <2> QED
    BY <2>1 DEF Words, FoldLeft, MapThenFoldSet
<1> HIDE DEF n
<1>2. ASSUME NEW sum \in U, NEW w \in Y PROVE Round(sum, w) \in U
  <2>1. PICK o \in Nat, e \in {1, 2, 4, 8} : o = 8 * w /\ o % 2 = 0 /\ e = 8 /\ o + e <= N
    BY <1>0
  <2>2. AddCarry(8, sum, Load(mem, o, e)) \in 0..(Pow(Byte, 8) - 1)
    BY <2>1, LoadFits
  <2> QED
    BY <2>1, <2>2
<1>3. \A k \in 1..n : s[k] \in Y /\ s[k] = k - 1
  BY <1>0
<1>4. 0 \in U
  <2>1. Pow(Byte, 8) \in Nat \ {0}
    BY BytePowType
  <2> QED
    BY <2>1
<1> HIDE DEF s, U, Y, Round
<1>5. g \in [U \X Y -> U] /\ \A x \in U : \A y \in Y : g[<<x, y>>] = Round(x, y)
  BY <1>2
<1> HIDE DEF g
<1>6. Foldable(U, Y, g, 0, n, s)
  BY <1>0, <1>3, <1>4, <1>5 DEF Foldable
<1>7. (\A S \in SUBSET (1..n) : S # {} => Max(S) \in S) /\ Foldings(n, 0, s, g, U)
  <2> HIDE DEF c
  <2> QED
    BY <1>0, <1>6, FoldExists
<1>8. \E x : Is(x)
  <2>1. PICK x : Folding(x, n, 0, s, g) /\ \A S \in SUBSET (1..n) : x[S] \in U
    BY <1>7 DEF Foldings
  <2>2. ASSUME NEW S \in SUBSET (1..n), S # {}
        PROVE  g[<<x[S \ {Max(S)}], s[Max(S)]>>] = Round(x[S \ {Max(S)}], s[Max(S)])
    BY <1>3, <1>5, <1>7, <2>1, <2>2
  <2>3. Is(x)
    BY <2>1, <2>2 DEF Folding
  <2> QED
    BY <2>3
<1>9. Is(c)
  BY <1>8
<1> HIDE DEF c
<1>10. c[{}] = 0 /\ \A S \in SUBSET (1..n) : S # {} => c[S] = Round(c[S \ {Max(S)}], s[Max(S)])
  BY <1>9
<1>11. ASSUME NEW S \in SUBSET (1..n), S # {}, c[S \ {Max(S)}] \in U
       PROVE  c[S] = g[<<c[S \ {Max(S)}], s[Max(S)]>>]
  BY <1>3, <1>5, <1>7, <1>10, <1>11
<1>12. Folded(c[1..n], n, 0, s, g, U)
  BY <1>0, <1>6, <1>10, <1>11, FoldTurns
<1> DEFINE Q == [k \in 0..n |-> {x \in U : Stands(x, mem, it, 8 * k)}]
<1>13. 0 \in Q[0]
  <2>1. Same(0, it[1..0]) /\ \A k \in 1..0 : mem[k] = 0
    <3>1. it[1..0] = 0 /\ 0 = 0 + 0 * Ones
      <4>1. 1..0 = {}
        OBVIOUS
      <4> QED
        BY <4>1, OnesType DEF Adds
    <3> QED
      BY <3>1 DEF Same
  <2>2. Stands(0, mem, it, 8 * 0)
    <3>1. PICK z \in Nat : z = 8 * 0 /\ z = 0
      OBVIOUS
    <3>2. Stands(0, mem, it, z)
      BY <1>4, <2>1, <3>1 DEF Stands, U
    <3> QED
      BY <3>1, <3>2
  <2>3. 0 \in 0..n
    BY <1>0
  <2> QED
    BY <1>4, <2>2, <2>3
<1>14. ASSUME NEW k \in 1..n, NEW x \in U, x \in Q[k - 1] PROVE g[<<x, s[k]>>] \in Q[k]
  <2>1. k - 1 \in 0..n /\ k \in 0..n /\ k - 1 \in Nat
    BY <1>0
  <2>2. Stands(x, mem, it, 8 * (k - 1))
    BY <1>14, <2>1
  <2>3. g[<<x, s[k]>>] = Round(x, k - 1) /\ g[<<x, s[k]>>] \in U
    BY <1>2, <1>3, <1>5
  <2>4. PICK o \in Nat, e \in {1, 2, 4, 8} : o = 8 * (k - 1) /\ o % 2 = 0 /\ e = 8 /\ o + e <= N /\ o + e = 8 * k
    BY <1>0, <2>1
  <2>5. Stands(AddCarry(8, x, Load(mem, o, e)), mem, it, o + e)
    BY <2>2, <2>4, CarryOn
  <2>6. Stands(Round(x, k - 1), mem, it, 8 * k)
    BY <2>4, <2>5 DEF Round
  <2> QED
    BY <2>1, <2>3, <2>6
<1>15. c[1..n] \in Q[n]
  <2> HIDE DEF Q
  <2> QED
    <3>1. Keeps(Q, n, s, g, U)
      BY <1>14 DEF Keeps
    <3> QED
      BY <1>0, <1>12, <1>13, <3>1, FoldKeeps
<1>16. n \in 0..n
  BY <1>0
<1> QED
  BY <1>1, <1>15, <1>16 DEF n

(* One part of the tail.                                                   *)
AddPart(mem, sum, part) == IF part.n = 0 THEN sum ELSE AddCarry(8, sum, Load(mem, part.o, part.n))

(* The parts of the tail that there are follow each other.                 *)
LEMMA TailStands ==
  ASSUME NEW mem, NEW nbytes \in Nat, Bytes(mem, BytesRead(nbytes)),
         NEW it, Adds(it, 1..BytesRead(nbytes), Weights(mem, BytesRead(nbytes))),
         NEW sum, Stands(sum, mem, it, 8 * (nbytes \div 8))
  PROVE  Stands(Tail8(mem, nbytes, sum), mem, it, BytesRead(nbytes))
<1> DEFINE N == BytesRead(nbytes)
           rem == nbytes % 8
           at == nbytes - rem
           n4 == IF rem >= 4 THEN 4 ELSE 0
           n2 == IF rem % 4 >= 2 THEN 2 ELSE 0
           n1 == IF rem # 0 THEN 1 ELSE 0
           s == << [o |-> at, n |-> n4], [o |-> at + n4, n |-> n2], [o |-> at + n4 + n2, n |-> n1] >>
           U == 0..(Pow(Byte, 8) - 1)
           Y == {s[1], s[2], s[3]}
           g == [p \in U \X Y |-> AddPart(mem, p[1], p[2])]
           Is(c) == c = [S \in SUBSET (1..3) |-> IF S = {} THEN sum ELSE AddPart(mem, c[S \ {Max(S)}], s[Max(S)])]
           c == CHOOSE x : Is(x)
           upto == [k \in 0..3 |-> IF k = 0 THEN at ELSE IF k = 1 THEN at + n4 ELSE IF k = 2 THEN at + n4 + n2 ELSE N]
<1>1. Tail8(mem, nbytes, sum) = c[1..3]
  <2>1. DOMAIN s = 1..3
    OBVIOUS
  <2> QED
    BY <2>1 DEF Tail8, AddPart, FoldLeft, MapThenFoldSet
<1>2. /\ rem \in 0..7 /\ at = 8 * (nbytes \div 8) /\ at \in Nat /\ at % 2 = 0 /\ N = at + n4 + n2 + n1 /\ N \in Nat
  <2>1. nbytes \div 8 \in Nat /\ rem \in 0..7 /\ nbytes = 8 * (nbytes \div 8) + rem
    OBVIOUS
  <2>2. N = at + n4 + n2 + n1
    <3>1. rem = 0 \/ rem = 1 \/ rem = 2 \/ rem = 3 \/ rem = 4 \/ rem = 5 \/ rem = 6 \/ rem = 7
      BY <2>1
    <3>2. nbytes = at + rem
      BY <2>1
    <3>3. N = IF rem \in {2, 4, 6} THEN nbytes + 1 ELSE nbytes
      BY DEF BytesRead
    <3> QED
      BY <3>1, <3>2, <3>3
  <2> QED
    BY <2>1, <2>2
<1>3. n4 \in {0, 4} /\ n2 \in {0, 2} /\ n1 \in {0, 1}
  OBVIOUS
<1>4. /\ \A k \in 0..3 : upto[k] \in Nat /\ upto[k] <= N
      /\ \A k \in 1..3 : /\ s[k].o = upto[k - 1] /\ upto[k] = upto[k - 1] + s[k].n
                         /\ s[k].o % 2 = 0 /\ s[k].n \in {0, 1, 2, 4} /\ s[k].o \in Nat /\ s[k].o + s[k].n <= N
                         /\ s[k] \in Y
      /\ upto[0] = 8 * (nbytes \div 8) /\ upto[3] = N
  <2> HIDE DEF N, rem, n4, n2, n1
  <2>1. (at + n4) % 2 = 0 /\ (at + n4 + n2) % 2 = 0 /\ at + n4 \in Nat /\ at + n4 + n2 \in Nat
    BY <1>2, <1>3
  <2>2. \A k \in 1..3 : k = 1 \/ k = 2 \/ k = 3
    OBVIOUS
  <2>3. upto[0] = at /\ upto[1] = at + n4 /\ upto[2] = at + n4 + n2 /\ upto[3] = N
    OBVIOUS
  <2>4. s[1] = [o |-> at, n |-> n4] /\ s[2] = [o |-> at + n4, n |-> n2] /\ s[3] = [o |-> at + n4 + n2, n |-> n1]
    OBVIOUS
  <2>5. \A k \in 0..3 : k = 0 \/ k = 1 \/ k = 2 \/ k = 3
    OBVIOUS
  <2>6. at + n4 <= N /\ at + n4 + n2 <= N /\ at <= N
    BY <1>2, <1>3
  <2>7. \A k \in 0..3 : upto[k] \in Nat /\ upto[k] <= N
    <3> HIDE DEF upto, s, at
    <3> QED
      BY <1>2, <2>1, <2>3, <2>5, <2>6
  <2>8. ASSUME NEW k \in 1..3
        PROVE  /\ s[k].o = upto[k - 1] /\ upto[k] = upto[k - 1] + s[k].n
               /\ s[k].o % 2 = 0 /\ s[k].n \in {0, 1, 2, 4} /\ s[k].o \in Nat /\ s[k].o + s[k].n <= N
               /\ s[k] \in Y
    <3>1. s[1].o = at /\ s[1].n = n4 /\ s[2].o = at + n4 /\ s[2].n = n2 /\ s[3].o = at + n4 + n2 /\ s[3].n = n1
      BY <2>4
    <3>2. 1 - 1 = 0 /\ 2 - 1 = 1 /\ 3 - 1 = 2
      OBVIOUS
    <3>3. s[1] \in Y /\ s[2] \in Y /\ s[3] \in Y
      OBVIOUS
    <3> HIDE DEF upto, s, at, Y
    <3>4. CASE k = 1
      BY <1>2, <1>3, <2>3, <2>6, <3>1, <3>2, <3>3, <3>4
    <3>5. CASE k = 2
      BY <1>2, <1>3, <2>1, <2>3, <2>6, <3>1, <3>2, <3>3, <3>5
    <3>6. CASE k = 3
      <4>1. s[3].o = at + n4 + n2 /\ s[3].n = n1 /\ upto[2] = at + n4 + n2 /\ upto[3] = N
        BY <2>3, <3>1
      <4>2. N = (at + n4 + n2) + n1 /\ n1 \in {0, 1, 2, 4}
        BY <1>2, <1>3
      <4>3. (at + n4 + n2) % 2 = 0 /\ at + n4 + n2 \in Nat /\ (at + n4 + n2) + n1 <= N
        BY <1>2, <2>1, <4>2
      <4>4. 3 - 1 = 2
        OBVIOUS
      <4> QED
        BY <3>3, <3>6, <4>1, <4>2, <4>3, <4>4
    <3> QED
      BY <2>2, <3>4, <3>5, <3>6
  <2> QED
    BY <1>2, <2>3, <2>7, <2>8
<1> HIDE DEF N, rem, at, n4, n2, n1, s, Y, upto
<1>5. ASSUME NEW k \in 1..3, NEW x \in U
      PROVE  /\ AddPart(mem, x, s[k]) \in U
             /\ Stands(x, mem, it, upto[k - 1]) => Stands(AddPart(mem, x, s[k]), mem, it, upto[k])
  <2>1. CASE s[k].n = 0
    <3>1. upto[k - 1] \in Nat /\ upto[k] = upto[k - 1]
      <4>1. k - 1 \in 0..3
        OBVIOUS
      <4>2. upto[k - 1] \in Nat /\ upto[k] = upto[k - 1] + s[k].n
        BY <1>4, <4>1
      <4> QED
        BY <2>1, <4>2
    <3> QED
      BY <2>1, <3>1 DEF AddPart
  <2>2. CASE s[k].n # 0
    <3>1. PICK o \in Nat, e \in {1, 2, 4, 8} :
            o = s[k].o /\ e = s[k].n /\ o % 2 = 0 /\ o + e <= N /\ o = upto[k - 1] /\ o + e = upto[k]
      BY <1>4, <2>2
    <3>2. AddPart(mem, x, s[k]) = AddCarry(8, x, Load(mem, o, e))
      BY <2>2, <3>1 DEF AddPart
    <3>3. Bytes(mem, N) /\ Adds(it, 1..N, Weights(mem, N)) /\ N \in Nat
      BY <1>2 DEF N
    <3>4. AddCarry(8, x, Load(mem, o, e)) \in U
      BY <3>1, <3>3, LoadFits
    <3>5. Stands(x, mem, it, o) => Stands(AddCarry(8, x, Load(mem, o, e)), mem, it, o + e)
      BY <3>1, <3>3, CarryOn
    <3> QED
      BY <3>1, <3>2, <3>4, <3>5
  <2> QED
    BY <2>1, <2>2
<1>6. sum \in U
  BY DEF Stands
<1> HIDE DEF U
<1>7. \A x \in U : \A y \in Y : AddPart(mem, x, y) \in U
  <2>1. \A y \in Y : y = s[1] \/ y = s[2] \/ y = s[3]
    BY DEF Y
  <2>2. 1 \in 1..3 /\ 2 \in 1..3 /\ 3 \in 1..3
    OBVIOUS
  <2> QED
    BY <1>5, <2>1, <2>2
<1>8. g \in [U \X Y -> U] /\ \A x \in U : \A y \in Y : g[<<x, y>>] = AddPart(mem, x, y)
  BY <1>7
<1> HIDE DEF g
<1>9. Foldable(U, Y, g, sum, 3, s)
  BY <1>4, <1>6, <1>8 DEF Foldable
<1>10. (\A S \in SUBSET (1..3) : S # {} => Max(S) \in S) /\ Foldings(3, sum, s, g, U)
  <2>1. PICK e \in Nat : e = 3
    OBVIOUS
  <2>2. Foldable(U, Y, g, sum, e, s)
    BY <1>9, <2>1
  <2>3. (\A S \in SUBSET (1..e) : S # {} => Max(S) \in S) /\ Foldings(e, sum, s, g, U)
    <3> HIDE DEF c
    <3> QED
      BY <2>2, FoldExists
  <2> QED
    BY <2>1, <2>3
<1>11. \E x : Is(x)
  <2>1. PICK x : Folding(x, 3, sum, s, g) /\ \A S \in SUBSET (1..3) : x[S] \in U
    BY <1>10 DEF Foldings
  <2>2. ASSUME NEW S \in SUBSET (1..3), S # {}
        PROVE  g[<<x[S \ {Max(S)}], s[Max(S)]>>] = AddPart(mem, x[S \ {Max(S)}], s[Max(S)])
    BY <1>4, <1>8, <1>10, <2>1, <2>2
  <2>3. Is(x)
    BY <2>1, <2>2 DEF Folding
  <2> QED
    BY <2>3
<1>12. Is(c)
  BY <1>11
<1> HIDE DEF c
<1>13. c[{}] = sum /\ \A S \in SUBSET (1..3) : S # {} => c[S] = AddPart(mem, c[S \ {Max(S)}], s[Max(S)])
  BY <1>12
<1>14. ASSUME NEW S \in SUBSET (1..3), S # {}, c[S \ {Max(S)}] \in U
       PROVE  c[S] = g[<<c[S \ {Max(S)}], s[Max(S)]>>]
  BY <1>4, <1>8, <1>10, <1>13, <1>14
<1>15. Folded(c[1..3], 3, sum, s, g, U)
  <2>1. PICK e \in Nat : e = 3
    OBVIOUS
  <2>2. Foldable(U, Y, g, sum, e, s) /\ c[{}] = sum
        /\ \A S \in SUBSET (1..e) : S # {} /\ c[S \ {Max(S)}] \in U => c[S] = g[<<c[S \ {Max(S)}], s[Max(S)]>>]
    BY <1>9, <1>13, <1>14, <2>1
  <2>3. Folded(c[1..e], e, sum, s, g, U)
    BY <2>2, FoldTurns
  <2> QED
    BY <2>1, <2>3
<1> DEFINE Q == [k \in 0..3 |-> {x \in U : Stands(x, mem, it, upto[k])}]
<1>16. sum \in Q[0]
  <2>1. 0 \in 0..3
    OBVIOUS
  <2> QED
    BY <1>4, <1>6, <2>1
<1>17. Keeps(Q, 3, s, g, U)
  <2> SUFFICES ASSUME NEW k \in 1..3, NEW x \in U, x \in Q[k - 1] PROVE g[<<x, s[k]>>] \in Q[k]
    BY DEF Keeps
  <2>1. k - 1 \in 0..3 /\ k \in 0..3
    OBVIOUS
  <2>2. Stands(x, mem, it, upto[k - 1]) /\ s[k] \in Y
    BY <1>4, <2>1
  <2>3. g[<<x, s[k]>>] = AddPart(mem, x, s[k]) /\ g[<<x, s[k]>>] \in U /\ Stands(AddPart(mem, x, s[k]), mem, it, upto[k])
    BY <1>5, <1>7, <1>8, <2>2
  <2> QED
    BY <2>1, <2>3
<1>18. c[1..3] \in Q[3]
  <2>1. PICK e \in Nat : e = 3
    OBVIOUS
  <2>2. Folded(c[1..e], e, sum, s, g, U) /\ Keeps(Q, e, s, g, U)
    BY <1>15, <1>17, <2>1
  <2>3. c[1..e] \in Q[e]
    <3> HIDE DEF Q
    <3> QED
      BY <1>16, <2>2, FoldKeeps
  <2> QED
    BY <2>1, <2>3
<1>19. 3 \in 0..3
  OBVIOUS
<1> QED
  BY <1>1, <1>4, <1>18, <1>19 DEF N

(* From eight bytes to two: the sum stays the same to the carries, and     *)
(* only 0 becomes 0.                                                       *)
LEMMA FoldDownIs ==
  ASSUME NEW sum \in 0..(Pow(Byte, 8) - 1)
  PROVE  FoldDown(sum) \in 0..(Pow(Byte, 2) - 1) /\ Same(FoldDown(sum), sum) /\ (FoldDown(sum) = 0 <=> sum = 0)
<1>1. PICK b \in Nat \ {0}, p \in Nat \ {0}, w \in Nat \ {0} :
        b = Pow(Byte, 2) /\ p = Pow(Byte, 4) /\ w = Pow(Byte, 8) /\ p = b * b /\ w = p * p
  <2>1. 2 \in Nat /\ 4 \in Nat /\ 8 \in Nat
    OBVIOUS
  <2>2. Pow(Byte, 2) \in Nat \ {0} /\ Pow(Byte, 4) \in Nat \ {0} /\ Pow(Byte, 8) \in Nat \ {0}
    BY <2>1, BytePowType
  <2> QED
    BY <2>2, BytePow
<1>2. PICK m \in Int : m = Ones /\ m = b - 1
  BY <1>1, OnesType DEF Ones
<1>3. PICK lo \in 0..(p - 1), hi \in 0..(p - 1) : lo = sum % p /\ hi = sum \div p /\ sum = p * hi + lo
  <2>1. sum \in Nat /\ sum < p * p
    BY <1>1
  <2>2. sum \div p < p /\ sum \div p \in Nat /\ sum % p \in 0..(p - 1) /\ sum = p * (sum \div p) + (sum % p)
    BY <2>1, Division, DivBelow
  <2> QED
    BY <2>2
<1>4. PICK t : t = AddCarry(4, lo, hi)
  OBVIOUS
<1>5. t \in 0..(p - 1) /\ (t = lo + hi \/ t = lo + hi - (p - 1)) /\ (t = 0 <=> lo = 0 /\ hi = 0)
  <2>1. PICK e \in Nat : e = 4
    OBVIOUS
  <2>2. lo \in 0..(Pow(Byte, e) - 1) /\ hi \in 0..(Pow(Byte, e) - 1)
    BY <1>1, <2>1
  <2>3. /\ AddCarry(e, lo, hi) \in 0..(Pow(Byte, e) - 1)
        /\ AddCarry(e, lo, hi) = lo + hi \/ AddCarry(e, lo, hi) = lo + hi - (Pow(Byte, e) - 1)
        /\ AddCarry(e, lo, hi) = 0 <=> lo = 0 /\ hi = 0
    BY <2>2, AddCarryIs
  <2> QED
    BY <1>1, <1>4, <2>1, <2>3
<1>6. PICK lo2 \in 0..(b - 1), hi2 \in 0..(b - 1) : lo2 = t % b /\ hi2 = t \div b /\ t = b * hi2 + lo2
  <2>1. t \in Nat /\ t < b * b
    BY <1>1, <1>5
  <2>2. t \div b < b /\ t \div b \in Nat /\ t % b \in 0..(b - 1) /\ t = b * (t \div b) + (t % b)
    BY <2>1, Division, DivBelow
  <2> QED
    BY <2>2
<1>7. PICK r : r = AddCarry(2, lo2, hi2)
  OBVIOUS
<1>8. r \in 0..(b - 1) /\ (r = lo2 + hi2 \/ r = lo2 + hi2 - (b - 1)) /\ (r = 0 <=> lo2 = 0 /\ hi2 = 0)
  <2>1. PICK e \in Nat : e = 2
    OBVIOUS
  <2>2. lo2 \in 0..(Pow(Byte, e) - 1) /\ hi2 \in 0..(Pow(Byte, e) - 1)
    BY <1>1, <2>1
  <2>3. /\ AddCarry(e, lo2, hi2) \in 0..(Pow(Byte, e) - 1)
        /\ AddCarry(e, lo2, hi2) = lo2 + hi2 \/ AddCarry(e, lo2, hi2) = lo2 + hi2 - (Pow(Byte, e) - 1)
        /\ AddCarry(e, lo2, hi2) = 0 <=> lo2 = 0 /\ hi2 = 0
    BY <2>2, AddCarryIs
  <2> QED
    BY <1>1, <1>7, <2>1, <2>3
<1>9. FoldDown(sum) = r
  BY <1>1, <1>3, <1>4, <1>6, <1>7 DEF FoldDown
<1>10. lo \in Int /\ hi \in Int /\ lo2 \in Int /\ hi2 \in Int /\ r \in Int /\ t \in Int
  BY <1>5, <1>8
<1>11. \E q \in Int : r = t + q * m
  <2>1. r = t - hi2 * m \/ r = t - (hi2 + 1) * m
    BY <1>2, <1>6, <1>8, <1>10
  <2>2. PICK q \in Int : r = t - q * m
    <3>1. hi2 + 1 \in Int /\ hi2 \in Int
      OBVIOUS
    <3> QED
      BY <2>1, <3>1
  <2>3. r = t + (-q) * m /\ -q \in Int
    BY <1>10, <2>2
  <2> QED
    BY <2>3
<1>12. \E q \in Int : t = sum + q * m
  <2>1. p - 1 = (b + 1) * m
    BY <1>1, <1>2
  <2>2. t = sum - hi * (p - 1) \/ t = sum - (hi + 1) * (p - 1)
    <3>1. p * hi = hi * (p - 1) + hi /\ (hi + 1) * (p - 1) = hi * (p - 1) + (p - 1)
      OBVIOUS
    <3>2. PICK x \in Int, y \in Int : x = hi * (p - 1) /\ y = (hi + 1) * (p - 1)
      OBVIOUS
    <3>3. sum = x + hi + lo /\ y = x + (p - 1)
      BY <1>3, <3>1, <3>2
    <3> QED
      BY <1>5, <3>2, <3>3
  <2>3. PICK q \in Int : t = sum - q * (p - 1)
    <3>1. hi + 1 \in Int /\ hi \in Int
      OBVIOUS
    <3> QED
      BY <2>2, <3>1
  <2>4. (-q) * (b + 1) \in Int /\ -(q * ((b + 1) * m)) = ((-q) * (b + 1)) * m
    OBVIOUS
  <2>5. sum \in Int /\ q * ((b + 1) * m) \in Int
    BY <1>3
  <2>6. t = sum + ((-q) * (b + 1)) * m
    <3>1. t = sum - q * ((b + 1) * m)
      BY <2>1, <2>3
    <3> QED
      BY <2>4, <2>5, <3>1
  <2> QED
    BY <2>4, <2>6
<1>13. Same(r, sum)
  <2>1. Same(r, t) /\ Same(t, sum)
    BY <1>2, <1>11, <1>12 DEF Same
  <2>2. sum \in Int
    BY <1>3
  <2> QED
    BY <1>10, <2>1, <2>2, SameTrans
<1>14. sum = 0 <=> lo = 0 /\ hi = 0
  <2>1. p * hi >= hi /\ p * hi \in Nat
    OBVIOUS
  <2> QED
    BY <1>3, <2>1
<1>15. t = 0 <=> lo2 = 0 /\ hi2 = 0
  <2>1. b * hi2 >= hi2 /\ b * hi2 \in Nat
    OBVIOUS
  <2> QED
    BY <1>6, <2>1
<1> QED
  BY <1>1, <1>5, <1>8, <1>9, <1>13, <1>14, <1>15

(* The complement of checksum stands for all bytes read.                   *)
LEMMA ChecksumIs ==
  ASSUME NEW mem, NEW nbytes \in Nat, Bytes(mem, BytesRead(nbytes)),
         NEW it, Adds(it, 1..BytesRead(nbytes), Weights(mem, BytesRead(nbytes)))
  PROVE  /\ checksum(mem, nbytes) \in 0..(Pow(Byte, 2) - 1)
         /\ Same(Pow(Byte, 2) - 1 - checksum(mem, nbytes), it[1..BytesRead(nbytes)])
         /\ it[1..BytesRead(nbytes)] \in Nat
         /\ Pow(Byte, 2) - 1 - checksum(mem, nbytes) = 0 <=> \A k \in 1..BytesRead(nbytes) : mem[k] = 0
<1>1. BytesRead(nbytes) \in Nat /\ 8 * (nbytes \div 8) <= BytesRead(nbytes)
  <2>1. nbytes \div 8 \in Nat /\ nbytes % 8 \in 0..7 /\ nbytes = 8 * (nbytes \div 8) + (nbytes % 8)
    OBVIOUS
  <2> QED
    BY <2>1 DEF BytesRead
<1>2. PICK w : w = Words(mem, nbytes) /\ Stands(w, mem, it, 8 * (nbytes \div 8))
  BY <1>1, WordsStand
<1>3. PICK s : s = Tail8(mem, nbytes, w) /\ Stands(s, mem, it, BytesRead(nbytes))
  BY <1>2, TailStands
<1>4. /\ s \in 0..(Pow(Byte, 8) - 1) /\ Same(s, it[1..BytesRead(nbytes)])
      /\ s = 0 <=> \A k \in 1..BytesRead(nbytes) : mem[k] = 0
  BY <1>3 DEF Stands
<1>5. PICK f : f = FoldDown(s) /\ checksum(mem, nbytes) = Pow(Byte, 2) - 1 - f
  BY <1>2, <1>3 DEF checksum
<1>6. f \in 0..(Pow(Byte, 2) - 1) /\ Same(f, s) /\ (f = 0 <=> s = 0)
  BY <1>4, <1>5, FoldDownIs
<1>7. it[1..BytesRead(nbytes)] \in Nat
  BY DEF Adds
<1>8. Pow(Byte, 2) \in Nat /\ Pow(Byte, 8) \in Nat
  BY BytePowType
<1>9. f \in Int /\ s \in Int
  BY <1>4, <1>6, <1>8
<1>10. Same(f, it[1..BytesRead(nbytes)])
  BY <1>4, <1>6, <1>7, <1>9, SameTrans
<1>11. Pow(Byte, 2) - 1 - checksum(mem, nbytes) = f /\ checksum(mem, nbytes) \in 0..(Pow(Byte, 2) - 1)
  BY <1>5, <1>6, <1>8
<1> QED
  BY <1>4, <1>6, <1>7, <1>10, <1>11

LEMMA OnesAdds ==
  ASSUME NEW mem, NEW n \in Nat, Bytes(mem, n)
  PROVE  \E it : Adds(it, 1..n, Weights(mem, n)) /\ OnesSum(mem, n) = it[1..n] % Ones
<1> DEFINE g == Weights(mem, n)
           m(k) == mem[k] * Pow(Byte, (k - 1) % 2)
           Is(it) == it = [s \in SUBSET (1..n) |-> IF s = {} THEN 0
                             ELSE m(CHOOSE x \in s : TRUE) + it[s \ {CHOOSE x \in s : TRUE}]]
           c == CHOOSE it : Is(it)
<1>1. OnesSum(mem, n) = c[1..n] % Ones
  BY DEF OnesSum, MapThenSumSet, MapThenFoldSet, Ones
<1>2. \A s \in SUBSET (1..n) : s # {} => g[CHOOSE x \in s : TRUE] = m(CHOOSE x \in s : TRUE)
  BY DEF Weights
<1>3. g \in [1..n -> Nat] /\ IsFiniteSet(1..n)
  <2>1. ASSUME NEW k \in 1..n PROVE mem[k] * Pow(Byte, (k - 1) % 2) \in Nat
    <3>1. (k - 1) % 2 \in Nat
      OBVIOUS
    <3>2. Pow(Byte, (k - 1) % 2) \in Nat /\ mem[k] \in Nat
      BY <3>1, BytePowType, ByteIs DEF Bytes
    <3> QED
      BY <3>2
  <2>2. g \in [1..n -> Nat]
    BY <2>1 DEF Weights
  <2>3. IsFiniteSet(1..n)
    <3>1. 1 \in Int /\ n \in Int
      OBVIOUS
    <3> HIDE DEF g
    <3> QED
      BY <3>1, FS_Interval
  <2> QED
    BY <2>2, <2>3
<1> HIDE DEF g, m
<1>4. \A it : Is(it) <=> Summing(it, 1..n, g)
  BY <1>2 DEF Summing
<1>5. \E it : Summing(it, 1..n, g)
  BY <1>3, SummingExists
<1>6. Is(c)
  <2> HIDE DEF Is
  <2> QED
    BY <1>4, <1>5
<1>7. Summing(c, 1..n, g)
  <2> HIDE DEF Is, c
  <2> QED
    BY <1>4, <1>6
<1> HIDE DEF c
<1>8. Adds(c, 1..n, g)
  BY <1>3, <1>7, SummingAdds
<1> QED
  BY <1>1, <1>8 DEF g

(* The checksum is right for buffers of every length and bytes of every    *)
(* width: no carry of lib/checksum.c is lost.                              *)
THEOREM ChecksumRightHolds == ChecksumRight
<1> SUFFICES ASSUME NEW nbytes \in Lengths, NEW mem \in Memory(BytesRead(nbytes))
             PROVE  LET sum == Pow(Byte, 2) - 1 - checksum(mem, nbytes) IN
                    /\ sum % (Pow(Byte, 2) - 1) = OnesSum(mem, BytesRead(nbytes))
                    /\ sum = 0 <=> \A k \in DOMAIN mem : mem[k] = 0
  BY DEF ChecksumRight
<1>1. nbytes \in Nat /\ BytesRead(nbytes) \in Nat
  BY ByteAssumption DEF BytesRead
<1>2. Bytes(mem, BytesRead(nbytes)) /\ DOMAIN mem = 1..BytesRead(nbytes)
  BY DEF Memory, Bytes
<1>3. PICK it : Adds(it, 1..BytesRead(nbytes), Weights(mem, BytesRead(nbytes)))
                /\ OnesSum(mem, BytesRead(nbytes)) = it[1..BytesRead(nbytes)] % Ones
  BY <1>1, <1>2, OnesAdds
<1>4. PICK c : c = checksum(mem, nbytes)
  OBVIOUS
<1>5. PICK sum : sum = Pow(Byte, 2) - 1 - c
  OBVIOUS
<1>6. PICK all : all = it[1..BytesRead(nbytes)]
  OBVIOUS
<1>7. /\ c \in 0..(Pow(Byte, 2) - 1)
      /\ Same(sum, all) /\ all \in Nat
      /\ sum = 0 <=> \A k \in 1..BytesRead(nbytes) : mem[k] = 0
  BY <1>1, <1>2, <1>3, <1>4, <1>5, <1>6, ChecksumIs
<1>8. sum \in Nat
  <2>1. Pow(Byte, 2) \in Nat
    BY BytePowType
  <2> QED
    BY <1>5, <1>7, <2>1
<1>9. sum % Ones = all % Ones
  BY <1>7, <1>8, SameRemainder
<1> QED
  BY <1>2, <1>3, <1>4, <1>5, <1>6, <1>7, <1>9 DEF Ones

(* The checksums of the traffic are numbers of two bytes.                  *)
LEMMA ChecksumType == Checksum16 \in [Flows -> Nat]
<1> SUFFICES ASSUME NEW f \in Flows PROVE checksum(Content[f].mem, Content[f].size) \in Nat
  BY DEF Checksum16
<1>1. PICK nbytes \in Nat : nbytes = Content[f].size
  BY ContentAssumption
<1>2. PICK mem : mem = Content[f].mem
  OBVIOUS
<1>3. Bytes(mem, BytesRead(nbytes)) /\ BytesRead(nbytes) \in Nat
  BY <1>1, <1>2, ContentAssumption DEF Bytes, BytesRead
<1>4. PICK it : Adds(it, 1..BytesRead(nbytes), Weights(mem, BytesRead(nbytes)))
  BY <1>3, OnesAdds
<1>5. checksum(mem, nbytes) \in 0..(Pow(Byte, 2) - 1)
  BY <1>1, <1>3, <1>4, ChecksumIs
<1>6. Pow(Byte, 2) \in Nat
  BY BytePowType
<1> QED
  BY <1>1, <1>2, <1>5, <1>6

----------------------------------------------------------------------------
(* What the elements count in.                                             *)

Tables == [Buckets -> 0..(Wrap - 1)]

LEMMA WrapIs == Wrap \in Nat \ {0} /\ \A n \in Nat : n % Wrap \in 0..(Wrap - 1)
BY ElementsAssumption, Division

LEMMA TablesAre ==
  ASSUME NEW e \in Counters
  PROVE  /\ e.tbl \in Tables /\ e.hits \in [Flows -> 0..(Wrap - 1)]
         /\ e.ports \in Nat /\ e.sum \in Nat /\ e.fast \in Nat /\ e.slow \in Nat
BY DEF Counters, Tables

LEMMA BumpIs ==
  ASSUME NEW t \in Tables, NEW b \in Buckets
  PROVE  /\ Bump(t, b) \in Tables
         /\ \A c \in Buckets : Bump(t, b)[c] = IF c = b THEN (t[c] + 1) % Wrap ELSE t[c]
<1>1. t[b] \in Nat
  BY WrapIs DEF Tables
<1>2. (t[b] + 1) % Wrap \in 0..(Wrap - 1)
  BY <1>1, WrapIs
<1> QED
  BY <1>2 DEF Bump, Tables

LEMMA BumpFlowIs ==
  ASSUME NEW t \in Tables, NEW f \in Flows
  PROVE  /\ BumpFlow(t, f) \in Tables
         /\ \A c \in Buckets : BumpFlow(t, f)[c] = IF c = Bucket(f) THEN (t[c] + 1) % Wrap ELSE t[c]
BY BumpIs, BucketType DEF BumpFlow

LEMMA RouteOneIs ==
  ASSUME NEW e \in Counters, NEW f \in Flows, rules \in [Flows -> 0..3 \union {None}]
  PROVE  /\ RouteOne(e, f) \in Counters
         /\ RouteOne(e, f).tbl = e.tbl /\ RouteOne(e, f).sum = e.sum
         /\ RouteOne(e, f).fast = e.fast /\ RouteOne(e, f).slow = e.slow
         /\ RouteOne(e, f).ports = IF rules[f] = None THEN e.ports ELSE e.ports + rules[f]
         /\ \A h \in Flows : RouteOne(e, f).hits[h] =
              IF h = f /\ rules[f] # None THEN (e.hits[h] + 1) % Wrap ELSE e.hits[h]
<1>1. CASE rules[f] = None
  BY <1>1 DEF RouteOne
<1>2. CASE rules[f] # None
  <2>1. rules[f] \in Nat
    BY <1>2
  <2>2. e.hits \in [Flows -> 0..(Wrap - 1)] /\ e.hits[f] \in Nat /\ (e.hits[f] + 1) % Wrap \in 0..(Wrap - 1)
    BY TablesAre, WrapIs
  <2>3. RouteOne(e, f) = [e EXCEPT !.hits = [e.hits EXCEPT ![f] = (@ + 1) % Wrap], !.ports = @ + rules[f]]
    BY <1>2 DEF RouteOne, Counters
  <2>4. e.ports + rules[f] \in Nat
    BY <2>1, TablesAre
  <2>5. [e.hits EXCEPT ![f] = (@ + 1) % Wrap] \in [Flows -> 0..(Wrap - 1)]
    BY <2>2
  <2>6. RouteOne(e, f) \in Counters
    BY <2>3, <2>4, <2>5 DEF Counters
  <2> QED
    BY <1>2, <2>2, <2>3, <2>6 DEF Counters
<1> QED
  BY <1>1, <1>2

LEMMA SumOneIs ==
  ASSUME NEW e \in Counters, NEW f \in Flows
  PROVE  /\ SumOne(e, f) \in Counters
         /\ SumOne(e, f).tbl = e.tbl /\ SumOne(e, f).hits = e.hits /\ SumOne(e, f).ports = e.ports
         /\ SumOne(e, f).fast = e.fast /\ SumOne(e, f).slow = e.slow
         /\ SumOne(e, f).sum = e.sum + Checksum16[f]
<1>1. e.sum + Checksum16[f] \in Nat
  BY TablesAre, ChecksumType
<1> QED
  BY <1>1 DEF SumOne, Counters

----------------------------------------------------------------------------
(* The folds of the elements take their turns, one for each entry.         *)

LEMMA BumpFold ==
  ASSUME NEW t \in Tables, NEW s \in Seq(Buckets)
  PROVE  Folded(FoldLeft(Bump, t, s), Len(s), t, s, [p \in Tables \X Buckets |-> Bump(p[1], p[2])], Tables)
<1> DEFINE g == [p \in Tables \X Buckets |-> Bump(p[1], p[2])]
           Is(c) == c = [S \in SUBSET (DOMAIN s) |->
                           IF S = {} THEN t ELSE Bump(c[S \ {Max(S)}], s[Max(S)])]
           c == CHOOSE x : Is(x)
<1>1. g \in [Tables \X Buckets -> Tables] /\ \A x \in Tables : \A y \in Buckets : g[<<x, y>>] = Bump(x, y)
  BY BumpIs
<1>2. Len(s) \in Nat /\ DOMAIN s = 1..Len(s) /\ \A k \in 1..Len(s) : s[k] \in Buckets
  OBVIOUS
<1>3. FoldLeft(Bump, t, s) = c[1..Len(s)]
  BY <1>2 DEF FoldLeft, MapThenFoldSet
<1> HIDE DEF g
<1>4. Foldable(Tables, Buckets, g, t, Len(s), s)
  BY <1>1, <1>2 DEF Foldable
<1>5. (\A S \in SUBSET (1..Len(s)) : S # {} => Max(S) \in S) /\ Foldings(Len(s), t, s, g, Tables)
  <2> HIDE DEF c
  <2> QED
    BY <1>2, <1>4, FoldExists
<1>6. \E x : Is(x)
  <2>1. PICK x : Folding(x, Len(s), t, s, g) /\ \A S \in SUBSET (1..Len(s)) : x[S] \in Tables
    BY <1>5 DEF Foldings
  <2>2. ASSUME NEW S \in SUBSET (1..Len(s)), S # {}
        PROVE  g[<<x[S \ {Max(S)}], s[Max(S)]>>] = Bump(x[S \ {Max(S)}], s[Max(S)])
    BY <1>1, <1>2, <1>5, <2>1, <2>2
  <2>3. Is(x)
    BY <1>2, <2>1, <2>2 DEF Folding
  <2> QED
    BY <2>3
<1>7. Is(c)
  BY <1>6
<1> HIDE DEF c
<1>8. c[{}] = t /\ \A S \in SUBSET (1..Len(s)) : S # {} => c[S] = Bump(c[S \ {Max(S)}], s[Max(S)])
  BY <1>2, <1>7
<1>9. ASSUME NEW S \in SUBSET (1..Len(s)), S # {}, c[S \ {Max(S)}] \in Tables
      PROVE  c[S] = g[<<c[S \ {Max(S)}], s[Max(S)]>>]
  BY <1>1, <1>2, <1>5, <1>8, <1>9
<1>10. Folded(c[1..Len(s)], Len(s), t, s, g, Tables)
  BY <1>2, <1>4, <1>8, <1>9, FoldTurns
<1> QED
  BY <1>3, <1>10 DEF g

LEMMA BumpFlowFold ==
  ASSUME NEW t \in Tables, NEW s \in Seq(Flows)
  PROVE  Folded(FoldLeft(BumpFlow, t, s), Len(s), t, s, [p \in Tables \X Flows |-> BumpFlow(p[1], p[2])], Tables)
<1> DEFINE g == [p \in Tables \X Flows |-> BumpFlow(p[1], p[2])]
           Is(c) == c = [S \in SUBSET (DOMAIN s) |->
                           IF S = {} THEN t ELSE BumpFlow(c[S \ {Max(S)}], s[Max(S)])]
           c == CHOOSE x : Is(x)
<1>1. g \in [Tables \X Flows -> Tables] /\ \A x \in Tables : \A y \in Flows : g[<<x, y>>] = BumpFlow(x, y)
  BY BumpFlowIs
<1>2. Len(s) \in Nat /\ DOMAIN s = 1..Len(s) /\ \A k \in 1..Len(s) : s[k] \in Flows
  OBVIOUS
<1>3. FoldLeft(BumpFlow, t, s) = c[1..Len(s)]
  BY <1>2 DEF FoldLeft, MapThenFoldSet
<1> HIDE DEF g
<1>4. Foldable(Tables, Flows, g, t, Len(s), s)
  BY <1>1, <1>2 DEF Foldable
<1>5. (\A S \in SUBSET (1..Len(s)) : S # {} => Max(S) \in S) /\ Foldings(Len(s), t, s, g, Tables)
  <2> HIDE DEF c
  <2> QED
    BY <1>2, <1>4, FoldExists
<1>6. \E x : Is(x)
  <2>1. PICK x : Folding(x, Len(s), t, s, g) /\ \A S \in SUBSET (1..Len(s)) : x[S] \in Tables
    BY <1>5 DEF Foldings
  <2>2. ASSUME NEW S \in SUBSET (1..Len(s)), S # {}
        PROVE  g[<<x[S \ {Max(S)}], s[Max(S)]>>] = BumpFlow(x[S \ {Max(S)}], s[Max(S)])
    BY <1>1, <1>2, <1>5, <2>1, <2>2
  <2>3. Is(x)
    BY <1>2, <2>1, <2>2 DEF Folding
  <2> QED
    BY <2>3
<1>7. Is(c)
  BY <1>6
<1> HIDE DEF c
<1>8. c[{}] = t /\ \A S \in SUBSET (1..Len(s)) : S # {} => c[S] = BumpFlow(c[S \ {Max(S)}], s[Max(S)])
  BY <1>2, <1>7
<1>9. ASSUME NEW S \in SUBSET (1..Len(s)), S # {}, c[S \ {Max(S)}] \in Tables
      PROVE  c[S] = g[<<c[S \ {Max(S)}], s[Max(S)]>>]
  BY <1>1, <1>2, <1>5, <1>8, <1>9
<1>10. Folded(c[1..Len(s)], Len(s), t, s, g, Tables)
  BY <1>2, <1>4, <1>8, <1>9, FoldTurns
<1> QED
  BY <1>3, <1>10 DEF g

LEMMA RouteFold ==
  ASSUME NEW t \in Counters, NEW s \in Seq(Flows),
         rules \in [Flows -> 0..3 \union {None}]
  PROVE  Folded(FoldLeft(RouteOne, t, s), Len(s), t, s, [p \in Counters \X Flows |-> RouteOne(p[1], p[2])], Counters)
<1> DEFINE g == [p \in Counters \X Flows |-> RouteOne(p[1], p[2])]
           Is(c) == c = [S \in SUBSET (DOMAIN s) |->
                           IF S = {} THEN t ELSE RouteOne(c[S \ {Max(S)}], s[Max(S)])]
           c == CHOOSE x : Is(x)
<1>1. g \in [Counters \X Flows -> Counters] /\ \A x \in Counters : \A y \in Flows : g[<<x, y>>] = RouteOne(x, y)
  BY RouteOneIs
<1>2. Len(s) \in Nat /\ DOMAIN s = 1..Len(s) /\ \A k \in 1..Len(s) : s[k] \in Flows
  OBVIOUS
<1>3. FoldLeft(RouteOne, t, s) = c[1..Len(s)]
  BY <1>2 DEF FoldLeft, MapThenFoldSet
<1> HIDE DEF g
<1>4. Foldable(Counters, Flows, g, t, Len(s), s)
  BY <1>1, <1>2 DEF Foldable
<1>5. (\A S \in SUBSET (1..Len(s)) : S # {} => Max(S) \in S) /\ Foldings(Len(s), t, s, g, Counters)
  <2> HIDE DEF c
  <2> QED
    BY <1>2, <1>4, FoldExists
<1>6. \E x : Is(x)
  <2>1. PICK x : Folding(x, Len(s), t, s, g) /\ \A S \in SUBSET (1..Len(s)) : x[S] \in Counters
    BY <1>5 DEF Foldings
  <2>2. ASSUME NEW S \in SUBSET (1..Len(s)), S # {}
        PROVE  g[<<x[S \ {Max(S)}], s[Max(S)]>>] = RouteOne(x[S \ {Max(S)}], s[Max(S)])
    BY <1>1, <1>2, <1>5, <2>1, <2>2
  <2>3. Is(x)
    BY <1>2, <2>1, <2>2 DEF Folding
  <2> QED
    BY <2>3
<1>7. Is(c)
  BY <1>6
<1> HIDE DEF c
<1>8. c[{}] = t /\ \A S \in SUBSET (1..Len(s)) : S # {} => c[S] = RouteOne(c[S \ {Max(S)}], s[Max(S)])
  BY <1>2, <1>7
<1>9. ASSUME NEW S \in SUBSET (1..Len(s)), S # {}, c[S \ {Max(S)}] \in Counters
      PROVE  c[S] = g[<<c[S \ {Max(S)}], s[Max(S)]>>]
  BY <1>1, <1>2, <1>5, <1>8, <1>9
<1>10. Folded(c[1..Len(s)], Len(s), t, s, g, Counters)
  BY <1>2, <1>4, <1>8, <1>9, FoldTurns
<1> QED
  BY <1>3, <1>10 DEF g

LEMMA SumFold ==
  ASSUME NEW t \in Counters, NEW s \in Seq(Flows)
  PROVE  Folded(FoldLeft(SumOne, t, s), Len(s), t, s, [p \in Counters \X Flows |-> SumOne(p[1], p[2])], Counters)
<1> DEFINE g == [p \in Counters \X Flows |-> SumOne(p[1], p[2])]
           Is(c) == c = [S \in SUBSET (DOMAIN s) |->
                           IF S = {} THEN t ELSE SumOne(c[S \ {Max(S)}], s[Max(S)])]
           c == CHOOSE x : Is(x)
<1>1. g \in [Counters \X Flows -> Counters] /\ \A x \in Counters : \A y \in Flows : g[<<x, y>>] = SumOne(x, y)
  BY SumOneIs
<1>2. Len(s) \in Nat /\ DOMAIN s = 1..Len(s) /\ \A k \in 1..Len(s) : s[k] \in Flows
  OBVIOUS
<1>3. FoldLeft(SumOne, t, s) = c[1..Len(s)]
  BY <1>2 DEF FoldLeft, MapThenFoldSet
<1> HIDE DEF g
<1>4. Foldable(Counters, Flows, g, t, Len(s), s)
  BY <1>1, <1>2 DEF Foldable
<1>5. (\A S \in SUBSET (1..Len(s)) : S # {} => Max(S) \in S) /\ Foldings(Len(s), t, s, g, Counters)
  <2> HIDE DEF c
  <2> QED
    BY <1>2, <1>4, FoldExists
<1>6. \E x : Is(x)
  <2>1. PICK x : Folding(x, Len(s), t, s, g) /\ \A S \in SUBSET (1..Len(s)) : x[S] \in Counters
    BY <1>5 DEF Foldings
  <2>2. ASSUME NEW S \in SUBSET (1..Len(s)), S # {}
        PROVE  g[<<x[S \ {Max(S)}], s[Max(S)]>>] = SumOne(x[S \ {Max(S)}], s[Max(S)])
    BY <1>1, <1>2, <1>5, <2>1, <2>2
  <2>3. Is(x)
    BY <1>2, <2>1, <2>2 DEF Folding
  <2> QED
    BY <2>3
<1>7. Is(c)
  BY <1>6
<1> HIDE DEF c
<1>8. c[{}] = t /\ \A S \in SUBSET (1..Len(s)) : S # {} => c[S] = SumOne(c[S \ {Max(S)}], s[Max(S)])
  BY <1>2, <1>7
<1>9. ASSUME NEW S \in SUBSET (1..Len(s)), S # {}, c[S \ {Max(S)}] \in Counters
      PROVE  c[S] = g[<<c[S \ {Max(S)}], s[Max(S)]>>]
  BY <1>1, <1>2, <1>5, <1>8, <1>9
<1>10. Folded(c[1..Len(s)], Len(s), t, s, g, Counters)
  BY <1>2, <1>4, <1>8, <1>9, FoldTurns
<1> QED
  BY <1>3, <1>10 DEF g

----------------------------------------------------------------------------
(* Counting packets.                                                       *)

(* How many of the first n packets are of the flows F, and how many of all.*)
CountUpto(s, n, F) == Cardinality({i \in 1..n : s[i] \in F})
HowMany(s, F) == CountUpto(s, Len(s), F)

LEMMA CountNone ==
  ASSUME NEW s, NEW F
  PROVE  CountUpto(s, 0, F) = 0
<1>1. {i \in 1..0 : s[i] \in F} = {}
  OBVIOUS
<1> QED
  BY <1>1, FS_EmptySet DEF CountUpto

LEMMA CountType ==
  ASSUME NEW s, NEW F, NEW n \in Nat
  PROVE  IsFiniteSet({i \in 1..n : s[i] \in F}) /\ CountUpto(s, n, F) \in Nat
<1>1. 1 \in Int /\ n \in Int
  OBVIOUS
<1>2. IsFiniteSet(1..n)
  BY <1>1, FS_Interval
<1>3. {i \in 1..n : s[i] \in F} \subseteq 1..n
  OBVIOUS
<1>4. IsFiniteSet({i \in 1..n : s[i] \in F})
  BY <1>2, <1>3, FS_Subset
<1> QED
  BY <1>4, FS_CardinalityType DEF CountUpto

LEMMA CountStep ==
  ASSUME NEW s, NEW F, NEW n \in Nat
  PROVE  CountUpto(s, n + 1, F) = CountUpto(s, n, F) + IF s[n + 1] \in F THEN 1 ELSE 0
<1> DEFINE A == {i \in 1..n : s[i] \in F}
           B == {i \in 1..(n + 1) : s[i] \in F}
<1>1. n + 1 \notin A
  OBVIOUS
<1>2. \A i \in 1..(n + 1) : i \in 1..n \/ i = n + 1
  OBVIOUS
<1>3. CASE s[n + 1] \in F
  <2>1. B = A \union {n + 1}
    BY <1>2, <1>3
  <2>2. Cardinality(A \union {n + 1}) = Cardinality(A) + 1
    <3>1. IsFiniteSet(A)
      BY CountType
    <3> HIDE DEF A
    <3> QED
      BY <1>1, <3>1, FS_AddElement
  <2> QED
    BY <1>3, <2>1, <2>2 DEF CountUpto
<1>4. CASE s[n + 1] \notin F
  <2>1. B = A
    BY <1>2, <1>4
  <2> QED
    BY <1>4, <2>1, CountType DEF CountUpto
<1> QED
  BY <1>3, <1>4

(* t is what stands behind the first m packets of s.                       *)
LEMMA CountBehind ==
  ASSUME NEW s, NEW t, NEW F, NEW m \in Nat, NEW n \in Nat, \A k \in 1..n : t[k] = s[m + k]
  PROVE  CountUpto(s, m + n, F) = CountUpto(s, m, F) + CountUpto(t, n, F)
<1> DEFINE T == {k \in Nat : k <= n => CountUpto(s, m + k, F) = CountUpto(s, m, F) + CountUpto(t, k, F)}
<1>1. 0 \in T
  <2>1. m + 0 = m /\ CountUpto(t, 0, F) = 0 /\ CountUpto(s, m, F) \in Nat
    <3>1. CountUpto(t, 0, F) = 0
      BY CountNone
    <3>2. CountUpto(s, m, F) \in Nat
      BY CountType
    <3> QED
      BY <3>1, <3>2
  <2>2. CountUpto(s, m + 0, F) = CountUpto(s, m, F) + CountUpto(t, 0, F)
    BY <2>1
  <2> QED
    BY <2>2
<1>2. ASSUME NEW k \in Nat, k \in T PROVE k + 1 \in T
  <2> SUFFICES ASSUME k + 1 <= n
               PROVE  CountUpto(s, m + (k + 1), F) = CountUpto(s, m, F) + CountUpto(t, k + 1, F)
    OBVIOUS
  <2>1. CountUpto(s, m + k, F) = CountUpto(s, m, F) + CountUpto(t, k, F)
    BY <1>2
  <2>2. t[k + 1] = s[(m + k) + 1] /\ (m + k) + 1 = m + (k + 1) /\ m + k \in Nat
    <3>1. k + 1 \in 1..n /\ m + (k + 1) = (m + k) + 1
      OBVIOUS
    <3> QED
      BY <3>1
  <2>3. PICK d \in Nat : d = IF t[k + 1] \in F THEN 1 ELSE 0
    OBVIOUS
  <2>4. CountUpto(s, (m + k) + 1, F) = CountUpto(s, m + k, F) + d
    BY <2>2, <2>3, CountStep
  <2>5. CountUpto(t, k + 1, F) = CountUpto(t, k, F) + d /\ CountUpto(t, k, F) \in Nat /\ CountUpto(s, m, F) \in Nat
    BY <2>3, CountStep, CountType
  <2>6. PICK x \in Nat, y \in Nat : x = CountUpto(t, k, F) /\ y = CountUpto(s, m, F)
    BY <2>5
  <2> QED
    BY <2>1, <2>2, <2>4, <2>5, <2>6
<1>3. \A k \in Nat : k \in T
  <2> HIDE DEF T
  <2> QED
    BY <1>1, <1>2, SetInduction
<1>4. n \in T
  BY <1>3
<1> QED
  BY <1>4

(* The packets of u are those of s and those of t.                         *)
Joined(s, t, u) == \A F \in SUBSET Flows : HowMany(u, F) = HowMany(s, F) + HowMany(t, F)

LEMMA HowManyType ==
  ASSUME NEW s \in Seq(Flows), NEW F
  PROVE  HowMany(s, F) \in Nat
<1>1. Len(s) \in Nat
  OBVIOUS
<1> QED
  BY <1>1, CountType DEF HowMany

LEMMA JoinedConcat ==
  ASSUME NEW s \in Seq(Flows), NEW t \in Seq(Flows)
  PROVE  Joined(s, t, s \o t)
<1> SUFFICES ASSUME NEW F \in SUBSET Flows PROVE HowMany(s \o t, F) = HowMany(s, F) + HowMany(t, F)
  BY DEF Joined
<1>1. PICK u \in Seq(Flows) : u = s \o t
  BY ConcatProperties
<1>2. PICK m \in Nat, n \in Nat : m = Len(s) /\ n = Len(t) /\ Len(u) = m + n
  BY <1>1
<1>3. \A k \in 1..n : t[k] = u[m + k]
  BY <1>1, <1>2
<1>4. \A k \in 1..m : s[k] = u[0 + k]
  BY <1>1, <1>2
<1>5. CountUpto(u, m + n, F) = CountUpto(u, m, F) + CountUpto(t, n, F)
  BY <1>3, CountBehind
<1>6. CountUpto(u, 0 + m, F) = CountUpto(u, 0, F) + CountUpto(s, m, F)
  <2>1. PICK z \in Nat : z = 0
    OBVIOUS
  <2>2. \A k \in 1..m : s[k] = u[z + k]
    BY <1>4, <2>1
  <2> QED
    BY <2>1, <2>2, CountBehind
<1>7. 0 + m = m /\ CountUpto(u, 0, F) = 0 /\ CountUpto(s, m, F) \in Nat
  <2>1. CountUpto(u, 0, F) = 0
    BY CountNone
  <2>2. CountUpto(s, m, F) \in Nat
    BY CountType
  <2> QED
    BY <2>1, <2>2
<1> QED
  BY <1>1, <1>2, <1>5, <1>6, <1>7 DEF HowMany

(* What is cut off a batch behind the first a packets.                     *)
LEMMA JoinedCut ==
  ASSUME NEW s \in Seq(Flows), NEW a \in Nat, NEW b \in Nat, a <= b, b <= Len(s)
  PROVE  /\ SubSeq(s, 1, a) \in Seq(Flows) /\ SubSeq(s, a + 1, b) \in Seq(Flows) /\ SubSeq(s, 1, b) \in Seq(Flows)
         /\ Joined(SubSeq(s, 1, a), SubSeq(s, a + 1, b), SubSeq(s, 1, b))
<1>1. /\ SubSeq(s, 1, a) \in Seq(Flows) /\ SubSeq(s, a + 1, b) \in Seq(Flows)
  <2>1. (\A k \in 1..a : s[k] \in Flows) /\ \A k \in (a + 1)..b : s[k] \in Flows
    BY ElementOfSeq
  <2>2. 1 \in Int /\ a \in Int /\ a + 1 \in Int /\ b \in Int
    OBVIOUS
  <2> QED
    BY <2>1, <2>2, SubSeqProperties
<1>2. SubSeq(s, 1, a) \o SubSeq(s, a + 1, b) = SubSeq(s, 1, b)
  <2>1. Len(s) \in Nat
    OBVIOUS
  <2>2. 1 \in 1..(Len(s) + 1) /\ a \in (1 - 1)..Len(s) /\ b \in a..Len(s)
    BY <2>1
  <2> QED
    BY <2>2, ConcatAdjacentSubSeq
<1> QED
  BY <1>1, <1>2, JoinedConcat, ConcatProperties

LEMMA HowManySets ==
  ASSUME NEW s \in Seq(Flows)
  PROVE  /\ HowMany(s, {}) = 0 /\ HowMany(s, Flows) = Len(s)
         /\ \A F, G : F \intersect G = {} => HowMany(s, F \union G) = HowMany(s, F) + HowMany(s, G)
<1>0. Len(s) \in Nat /\ \A i \in 1..Len(s) : s[i] \in Flows
  BY ElementOfSeq
<1>1. HowMany(s, {}) = 0
  <2>1. {i \in 1..Len(s) : s[i] \in {}} = {}
    OBVIOUS
  <2> QED
    BY <2>1, FS_EmptySet DEF HowMany, CountUpto
<1>2. HowMany(s, Flows) = Len(s)
  <2>1. {i \in 1..Len(s) : s[i] \in Flows} = 1..Len(s)
    BY <1>0
  <2>2. Cardinality(1..Len(s)) = Len(s)
    <3>1. PICK n \in Nat : n = Len(s)
      BY <1>0
    <3>2. 1 \in Int /\ n \in Int /\ (1 > n \/ n - 1 + 1 = n) /\ (1 > n => n = 0)
      OBVIOUS
    <3>3. Cardinality(1..n) = IF 1 > n THEN 0 ELSE n - 1 + 1
      BY <3>2, FS_Interval
    <3> QED
      BY <3>1, <3>2, <3>3
  <2> QED
    BY <2>1, <2>2 DEF HowMany, CountUpto
<1>3. ASSUME NEW F, NEW G, F \intersect G = {} PROVE HowMany(s, F \union G) = HowMany(s, F) + HowMany(s, G)
  <2> DEFINE A == {i \in 1..Len(s) : s[i] \in F}
             B == {i \in 1..Len(s) : s[i] \in G}
             C == {i \in 1..Len(s) : s[i] \in F \union G}
  <2>1. IsFiniteSet(A) /\ IsFiniteSet(B)
    BY <1>0, CountType
  <2>2. C = A \union B /\ A \intersect B = {}
    BY <1>3
  <2>3. Cardinality(A) \in Nat /\ Cardinality(B) \in Nat
    <3> HIDE DEF A, B
    <3> QED
      BY <2>1, FS_CardinalityType
  <2>4. Cardinality(A \union B) = Cardinality(A) + Cardinality(B)
    <3>1. Cardinality(A \union B) = Cardinality(A) + Cardinality(B) - Cardinality(A \intersect B)
      <4> HIDE DEF A, B
      <4> QED
        BY <2>1, FS_Union
    <3>2. Cardinality(A \intersect B) = 0
      BY <2>2, FS_EmptySet
    <3> HIDE DEF A, B
    <3> QED
      BY <2>3, <3>1, <3>2
  <2> QED
    BY <2>2, <2>4 DEF HowMany, CountUpto
<1> QED
  BY <1>1, <1>2, <1>3

LEMMA HowManyOne ==
  ASSUME NEW f \in Flows
  PROVE  <<f>> \in Seq(Flows) /\ \A F : HowMany(<<f>>, F) = IF f \in F THEN 1 ELSE 0
<1> SUFFICES ASSUME NEW F PROVE HowMany(<<f>>, F) = IF f \in F THEN 1 ELSE 0
  OBVIOUS
<1>1. Len(<<f>>) = 1 /\ <<f>>[1] = f
  OBVIOUS
<1> DEFINE s == <<f>>
<1> HIDE DEF s
<1>2. PICK z \in Nat : z = 0 /\ z + 1 = 1
  OBVIOUS
<1>3. CountUpto(s, z + 1, F) = CountUpto(s, z, F) + IF s[z + 1] \in F THEN 1 ELSE 0
  BY CountStep
<1>4. CountUpto(s, z, F) = 0
  BY <1>2, CountNone
<1> QED
  BY <1>1, <1>2, <1>3, <1>4 DEF HowMany, s

----------------------------------------------------------------------------
(* What is made of packets, one part of a batch after the other.           *)

(* A relation of what is there before, what is there after, and the        *)
(* packets it was made of, that does not depend on how those are cut.      *)
Hands(Rel, U) ==
  /\ \A x \in U : <<x, x, <<>> >> \in Rel
  /\ \A x, y, z \in U : \A s, t, u \in Seq(Flows) :
       <<x, y, s>> \in Rel /\ <<y, z, t>> \in Rel /\ Joined(s, t, u) => <<x, z, u>> \in Rel

(* The ends of N parts of a batch.                                         *)
Cut(E, N, s) ==
  /\ E[0] = 0 /\ E[N] = Len(s)
  /\ \A k \in 0..N : E[k] \in Nat
  /\ \A k \in 1..N : E[k - 1] <= E[k] /\ E[k] <= Len(s)

(* Each turn makes something of the next part.                             *)
Makes(Rel, U, N, v, g, E, s) ==
  \A k \in 1..N : \A x \in U : <<x, g[<<x, v[k]>>], SubSeq(s, E[k - 1] + 1, E[k])>> \in Rel

LEMMA FoldHands ==
  ASSUME NEW U, NEW g, NEW first \in U, NEW N \in Nat, NEW v, NEW r, Folded(r, N, first, v, g, U),
         NEW Rel, Hands(Rel, U), NEW s \in Seq(Flows), NEW E, Cut(E, N, s), Makes(Rel, U, N, v, g, E, s)
  PROVE  <<first, r, s>> \in Rel /\ r \in U
<1>1. PICK h \in [0..N -> U] : h[0] = first /\ (\A k \in 1..N : h[k] = g[<<h[k - 1], v[k]>>]) /\ r = h[N]
  BY DEF Folded
<1> DEFINE P(k) == SubSeq(s, 1, E[k])
           Q == [k \in 0..N |-> {x \in U : <<first, x, P(k)>> \in Rel}]
<1>2. \A k \in 1..N : k \in 0..N /\ k - 1 \in 0..N
  OBVIOUS
<1>3. Len(s) \in Nat
  OBVIOUS
<1>4. h[0] \in Q[0]
  <2>1. P(0) = <<>>
    BY DEF Cut
  <2>2. 0 \in 0..N /\ first \in U /\ <<first, first, <<>> >> \in Rel
    BY DEF Hands
  <2> HIDE DEF P
  <2> QED
    BY <1>1, <2>1, <2>2
<1>5. ASSUME NEW k \in 1..N, h[k - 1] \in Q[k - 1] PROVE h[k] \in Q[k]
  <2>1. PICK a \in Nat, b \in Nat : a = E[k - 1] /\ b = E[k] /\ a <= b /\ b <= Len(s)
    BY <1>2 DEF Cut
  <2>2. PICK s1 \in Seq(Flows), s2 \in Seq(Flows), s3 \in Seq(Flows) :
          s1 = SubSeq(s, 1, a) /\ s2 = SubSeq(s, a + 1, b) /\ s3 = SubSeq(s, 1, b) /\ Joined(s1, s2, s3)
    BY <2>1, JoinedCut
  <2>3. PICK y \in U : y = h[k - 1] /\ <<first, y, s1>> \in Rel
    BY <1>2, <1>5, <2>1, <2>2
  <2>4. PICK z \in U : z = h[k] /\ <<y, z, s2>> \in Rel
    BY <1>1, <1>2, <2>1, <2>2, <2>3 DEF Makes
  <2>5. <<first, z, s3>> \in Rel
    <3>1. Joined(s1, s2, s3)
      BY <2>2
    <3>2. <<first, y, s1>> \in Rel
      BY <2>3
    <3>3. <<y, z, s2>> \in Rel
      BY <2>4
    <3> QED
      BY <3>1, <3>2, <3>3 DEF Hands
  <2> QED
    BY <1>2, <2>1, <2>2, <2>4, <2>5
<1>6. h[N] \in Q[N]
  <2> HIDE DEF Q
  <2> QED
    BY <1>4, <1>5, TurnsKeep
<1>7. N \in 0..N /\ P(N) = s
  <2>1. P(N) = SubSeq(s, 1, Len(s))
    BY DEF Cut
  <2>2. SubSeq(s, 1, Len(s)) = s
    OBVIOUS
  <2> QED
    BY <2>1, <2>2
<1> QED
  BY <1>1, <1>6, <1>7

(* The same of turns that each take one packet.                            *)
Each(Rel, U, g, v, s) == \A k \in 1..Len(s) : \A x \in U : <<x, g[<<x, v[k]>>], <<s[k]>> >> \in Rel

LEMMA FoldEach ==
  ASSUME NEW U, NEW g, NEW first \in U, NEW s \in Seq(Flows), NEW v, NEW r, Folded(r, Len(s), first, v, g, U),
         NEW Rel, Hands(Rel, U), Each(Rel, U, g, v, s)
  PROVE  <<first, r, s>> \in Rel /\ r \in U
<1> DEFINE E == [k \in 0..Len(s) |-> k]
<1>1. PICK n \in Nat : n = Len(s)
  OBVIOUS
<1>2. Cut(E, n, s)
  BY <1>1 DEF Cut
<1>3. Makes(Rel, U, n, v, g, E, s)
  <2> SUFFICES ASSUME NEW k \in 1..n, NEW x \in U
               PROVE  <<x, g[<<x, v[k]>>], SubSeq(s, E[k - 1] + 1, E[k])>> \in Rel
    BY DEF Makes
  <2>1. E[k - 1] + 1 = k /\ E[k] = k
    BY <1>1
  <2>2. SubSeq(s, k, k) = <<s[k]>>
    <3>1. k \in 1..Len(s) /\ k \in k..Len(s) /\ k + 1 \in Int /\ k \in Int /\ k < k + 1
      BY <1>1
    <3>2. SubSeq(s, k, k) = <<s[k]>> \o SubSeq(s, k + 1, k) /\ SubSeq(s, k + 1, k) = <<>>
      BY <3>1, SubSeqRecursiveFirst, SubSeqEmpty
    <3>3. PICK t \in Seq(Flows) : t = <<s[k]>>
      <4>1. s[k] \in Flows
        BY <3>1, ElementOfSeq
      <4> QED
        BY <4>1, HowManyOne
    <3>4. t \o <<>> = t
      BY ConcatEmptySeq
    <3> QED
      BY <3>2, <3>3, <3>4
  <2> HIDE DEF E
  <2> QED
    BY <1>1, <2>1, <2>2 DEF Each
<1> HIDE DEF E
<1> QED
  BY <1>1, <1>2, <1>3, FoldHands

----------------------------------------------------------------------------
(* Measurement: what the loops make of a table.                            *)

(* The flows of a bucket.                                                  *)
Of(b) == {f \in Flows : Bucket(f) = b}

(* t2 is t1 with the packets of s counted.                                 *)
Measured(t1, t2, s) ==
  t2 \in Tables /\ \A b \in Buckets : t2[b] = (t1[b] + HowMany(s, Of(b))) % Wrap

MeasuredRel == {x \in Tables \X Tables \X Seq(Flows) : Measured(x[1], x[2], x[3])}

LEMMA TimesIs ==
  ASSUME NEW s \in Seq(Flows)
  PROVE  /\ \A b : InBucket(s, b) = HowMany(s, Of(b))
         /\ \A f : Times(s, f) = HowMany(s, {f})
<1>1. \A i \in 1..Len(s) : s[i] \in Flows
  BY ElementOfSeq
<1>2. ASSUME NEW b PROVE InBucket(s, b) = HowMany(s, Of(b))
  <2>1. {i \in 1..Len(s) : Bucket(s[i]) = b} = {i \in 1..Len(s) : s[i] \in Of(b)}
    BY <1>1 DEF Of
  <2> QED
    BY <2>1 DEF InBucket, HowMany, CountUpto
<1>3. ASSUME NEW f PROVE Times(s, f) = HowMany(s, {f})
  <2>1. {i \in 1..Len(s) : s[i] = f} = {i \in 1..Len(s) : s[i] \in {f}}
    OBVIOUS
  <2> QED
    BY <2>1 DEF Times, HowMany, CountUpto
<1> QED
  BY <1>2, <1>3

(* Counting on.                                                            *)
LEMMA CountsOn ==
  ASSUME NEW c \in Nat, NEW x \in Nat, NEW d \in Nat
  PROVE  (((x + c) % Wrap) + d) % Wrap = (x + (c + d)) % Wrap /\ (x + c) % Wrap \in 0..(Wrap - 1)
<1>1. PICK y \in Nat : y = x + c /\ y + d = x + (c + d)
  OBVIOUS
<1>2. ((y % Wrap) + d) % Wrap = (y + d) % Wrap /\ y % Wrap \in 0..(Wrap - 1)
  BY WrapIs, Wraps
<1> QED
  BY <1>1, <1>2

LEMMA CountsNone ==
  ASSUME NEW x \in 0..(Wrap - 1)
  PROVE  x = (x + 0) % Wrap
<1>1. Wrap \in Nat \ {0} /\ x \in Nat /\ x = Wrap * 0 + x
  BY WrapIs
<1>2. x % Wrap = x
  BY <1>1, DivisionIs
<1> QED
  BY <1>1, <1>2

LEMMA NoneJoined == <<>> \in Seq(Flows) /\ \A F : HowMany(<<>>, F) = 0
<1>1. PICK z \in Nat : z = 0
  OBVIOUS
<1>2. Len(<<>>) = 0
  OBVIOUS
<1> QED
  BY <1>2, CountNone DEF HowMany

LEMMA MeasuredHands == Hands(MeasuredRel, Tables)
<1>0. \A t \in Tables : \A b \in Buckets : t[b] \in Nat /\ t[b] \in 0..(Wrap - 1)
  BY WrapIs DEF Tables
<1>1. ASSUME NEW t \in Tables PROVE <<t, t, <<>> >> \in MeasuredRel
  <2>1. \A b \in Buckets : t[b] = (t[b] + HowMany(<<>>, Of(b))) % Wrap
    BY <1>0, NoneJoined, CountsNone
  <2> QED
    BY <2>1, NoneJoined DEF MeasuredRel, Measured
<1>2. ASSUME NEW x \in Tables, NEW y \in Tables, NEW z \in Tables,
             NEW s \in Seq(Flows), NEW t \in Seq(Flows), NEW u \in Seq(Flows),
             <<x, y, s>> \in MeasuredRel, <<y, z, t>> \in MeasuredRel, Joined(s, t, u)
      PROVE  <<x, z, u>> \in MeasuredRel
  <2>1. Measured(x, y, s) /\ Measured(y, z, t)
    BY <1>2 DEF MeasuredRel
  <2>2. ASSUME NEW b \in Buckets PROVE z[b] = (x[b] + HowMany(u, Of(b))) % Wrap
    <3>1. PICK c \in Nat, d \in Nat : c = HowMany(s, Of(b)) /\ d = HowMany(t, Of(b))
      BY HowManyType
    <3>2. HowMany(u, Of(b)) = c + d
      BY <1>2, <3>1 DEF Joined, Of
    <3>3. y[b] = (x[b] + c) % Wrap /\ z[b] = (y[b] + d) % Wrap
      BY <2>1, <3>1 DEF Measured
    <3>4. (((x[b] + c) % Wrap) + d) % Wrap = (x[b] + (c + d)) % Wrap
      BY <1>0, CountsOn
    <3> QED
      BY <3>2, <3>3, <3>4
  <2>3. Measured(x, z, u)
    BY <2>2 DEF Measured
  <2> QED
    BY <2>3 DEF MeasuredRel
<1> QED
  BY <1>1, <1>2 DEF Hands

LEMMA BumpFlowMeasured ==
  ASSUME NEW t \in Tables, NEW f \in Flows
  PROVE  <<t, BumpFlow(t, f), <<f>> >> \in MeasuredRel
<1>0. \A b \in Buckets : t[b] \in Nat /\ t[b] \in 0..(Wrap - 1)
  BY WrapIs DEF Tables
<1>1. /\ BumpFlow(t, f) \in Tables
      /\ \A b \in Buckets : BumpFlow(t, f)[b] = IF b = Bucket(f) THEN (t[b] + 1) % Wrap ELSE t[b]
  BY BumpFlowIs
<1>2. <<f>> \in Seq(Flows) /\ \A b : HowMany(<<f>>, Of(b)) = IF b = Bucket(f) THEN 1 ELSE 0
  BY HowManyOne DEF Of
<1>3. \A b \in Buckets : t[b] = (t[b] + 0) % Wrap
  BY <1>0, CountsNone
<1>4. \A b \in Buckets : BumpFlow(t, f)[b] = (t[b] + HowMany(<<f>>, Of(b))) % Wrap
  BY <1>1, <1>2, <1>3
<1> QED
  BY <1>1, <1>2, <1>4 DEF MeasuredRel, Measured

(* The loops that count packets, and those that count their buckets.       *)
LEMMA BumpFlowMeasures ==
  ASSUME NEW t \in Tables, NEW s \in Seq(Flows)
  PROVE  <<t, FoldLeft(BumpFlow, t, s), s>> \in MeasuredRel
<1> DEFINE g == [p \in Tables \X Flows |-> BumpFlow(p[1], p[2])]
<1>1. Folded(FoldLeft(BumpFlow, t, s), Len(s), t, s, g, Tables)
  BY BumpFlowFold
<1>2. Each(MeasuredRel, Tables, g, s, s)
  <2> SUFFICES ASSUME NEW k \in 1..Len(s), NEW x \in Tables
               PROVE  <<x, g[<<x, s[k]>>], <<s[k]>> >> \in MeasuredRel
    BY DEF Each
  <2>1. PICK f \in Flows : f = s[k]
    BY ElementOfSeq
  <2>2. g[<<x, f>>] = BumpFlow(x, f)
    OBVIOUS
  <2> HIDE DEF g
  <2> QED
    BY <2>1, <2>2, BumpFlowMeasured
<1> HIDE DEF g
<1> QED
  BY <1>1, <1>2, MeasuredHands, FoldEach

LEMMA BumpMeasures ==
  ASSUME NEW t \in Tables, NEW s \in Seq(Flows), NEW v, v = [i \in 1..Len(s) |-> Bucket(s[i])]
  PROVE  <<t, FoldLeft(Bump, t, v), s>> \in MeasuredRel
<1> DEFINE g == [p \in Tables \X Buckets |-> Bump(p[1], p[2])]
<1>1. v \in Seq(Buckets) /\ Len(v) = Len(s) /\ \A i \in 1..Len(s) : v[i] = Bucket(s[i])
  <2>1. \A i \in 1..Len(s) : Bucket(s[i]) \in Buckets
    BY ElementOfSeq, BucketType
  <2> QED
    BY <2>1
<1>2. Folded(FoldLeft(Bump, t, v), Len(s), t, v, g, Tables)
  BY <1>1, BumpFold
<1>3. Each(MeasuredRel, Tables, g, v, s)
  <2> SUFFICES ASSUME NEW k \in 1..Len(s), NEW x \in Tables
               PROVE  <<x, g[<<x, v[k]>>], <<s[k]>> >> \in MeasuredRel
    BY DEF Each
  <2>1. PICK f \in Flows : f = s[k]
    BY ElementOfSeq
  <2>2. g[<<x, Bucket(f)>>] = BumpFlow(x, f)
    BY BucketType DEF BumpFlow
  <2> HIDE DEF g
  <2> QED
    BY <1>1, <2>1, <2>2, BumpFlowMeasured
<1> HIDE DEF g
<1> QED
  BY <1>2, <1>3, MeasuredHands, FoldEach

LEMMA CountGroupMeasures ==
  ASSUME NEW t \in Tables, NEW s \in Seq(Flows)
  PROVE  <<t, CountGroup(t, s), s>> \in MeasuredRel
BY BumpMeasures DEF CountGroup

----------------------------------------------------------------------------
(* Routing and checksum: what the loops make of the counters.              *)

(* The flows that find an entry.                                           *)
Ruled == {f \in Flows : rules[f] # None}

(* e2 is e1 with the packets of s counted at the entries they find.        *)
Routed(e1, e2, s) ==
  /\ e2.tbl = e1.tbl /\ e2.sum = e1.sum /\ e2.fast = e1.fast /\ e2.slow = e1.slow
  /\ \A f \in Flows : e2.hits[f] = (e1.hits[f] + HowMany(s, {f} \intersect Ruled)) % Wrap

RoutedRel == {x \in Counters \X Counters \X Seq(Flows) : Routed(x[1], x[2], x[3])}

LEMMA RoutedHands == Hands(RoutedRel, Counters)
<1>0. \A e \in Counters : \A f \in Flows : e.hits[f] \in Nat /\ e.hits[f] \in 0..(Wrap - 1)
  BY WrapIs, TablesAre
<1>1. ASSUME NEW e \in Counters PROVE <<e, e, <<>> >> \in RoutedRel
  <2>1. \A f \in Flows : e.hits[f] = (e.hits[f] + HowMany(<<>>, {f} \intersect Ruled)) % Wrap
    BY <1>0, NoneJoined, CountsNone
  <2> QED
    BY <2>1, NoneJoined DEF RoutedRel, Routed
<1>2. ASSUME NEW x \in Counters, NEW y \in Counters, NEW z \in Counters,
             NEW s \in Seq(Flows), NEW t \in Seq(Flows), NEW u \in Seq(Flows),
             <<x, y, s>> \in RoutedRel, <<y, z, t>> \in RoutedRel, Joined(s, t, u)
      PROVE  <<x, z, u>> \in RoutedRel
  <2>1. Routed(x, y, s) /\ Routed(y, z, t)
    BY <1>2 DEF RoutedRel
  <2>2. ASSUME NEW f \in Flows PROVE z.hits[f] = (x.hits[f] + HowMany(u, {f} \intersect Ruled)) % Wrap
    <3>0. PICK F \in SUBSET Flows : F = {f} \intersect Ruled
      OBVIOUS
    <3>1. PICK c \in Nat, d \in Nat : c = HowMany(s, F) /\ d = HowMany(t, F)
      BY HowManyType
    <3>2. HowMany(u, F) = c + d
      BY <1>2, <3>1 DEF Joined
    <3>3. y.hits[f] = (x.hits[f] + c) % Wrap /\ z.hits[f] = (y.hits[f] + d) % Wrap
      BY <2>1, <3>0, <3>1 DEF Routed
    <3>4. (((x.hits[f] + c) % Wrap) + d) % Wrap = (x.hits[f] + (c + d)) % Wrap
      BY <1>0, CountsOn
    <3> QED
      BY <3>0, <3>2, <3>3, <3>4
  <2>3. Routed(x, z, u)
    BY <2>1, <2>2 DEF Routed
  <2> QED
    BY <2>3 DEF RoutedRel
<1> QED
  BY <1>1, <1>2 DEF Hands

LEMMA RouteOneRouted ==
  ASSUME NEW e \in Counters, NEW f \in Flows, rules \in [Flows -> 0..3 \union {None}]
  PROVE  <<e, RouteOne(e, f), <<f>> >> \in RoutedRel
<1>0. \A h \in Flows : e.hits[h] \in Nat /\ e.hits[h] \in 0..(Wrap - 1)
  BY WrapIs, TablesAre
<1>1. PICK r \in Counters :
        /\ r = RouteOne(e, f) /\ r.tbl = e.tbl /\ r.sum = e.sum /\ r.fast = e.fast /\ r.slow = e.slow
        /\ \A h \in Flows : r.hits[h] = IF h = f /\ rules[f] # None THEN (e.hits[h] + 1) % Wrap ELSE e.hits[h]
  BY RouteOneIs
<1>2. <<f>> \in Seq(Flows) /\ \A h \in Flows : HowMany(<<f>>, {h} \intersect Ruled) = IF h = f /\ rules[f] # None THEN 1 ELSE 0
  BY HowManyOne DEF Ruled
<1>3. \A h \in Flows : e.hits[h] = (e.hits[h] + 0) % Wrap
  BY <1>0, CountsNone
<1>4. \A h \in Flows : r.hits[h] = (e.hits[h] + HowMany(<<f>>, {h} \intersect Ruled)) % Wrap
  BY <1>1, <1>2, <1>3
<1>5. Routed(e, r, <<f>>)
  BY <1>1, <1>4 DEF Routed
<1> QED
  BY <1>1, <1>2, <1>5 DEF RoutedRel

LEMMA RouteRoutes ==
  ASSUME NEW e \in Counters, NEW s \in Seq(Flows), rules \in [Flows -> 0..3 \union {None}]
  PROVE  <<e, FoldLeft(RouteOne, e, s), s>> \in RoutedRel
<1> DEFINE g == [p \in Counters \X Flows |-> RouteOne(p[1], p[2])]
<1>1. Folded(FoldLeft(RouteOne, e, s), Len(s), e, s, g, Counters)
  BY RouteFold
<1>2. Each(RoutedRel, Counters, g, s, s)
  <2> SUFFICES ASSUME NEW k \in 1..Len(s), NEW x \in Counters
               PROVE  <<x, g[<<x, s[k]>>], <<s[k]>> >> \in RoutedRel
    BY DEF Each
  <2>1. PICK f \in Flows : f = s[k]
    BY ElementOfSeq
  <2>2. g[<<x, f>>] = RouteOne(x, f)
    OBVIOUS
  <2> HIDE DEF g
  <2> QED
    BY <2>1, <2>2, RouteOneRouted
<1> HIDE DEF g
<1> QED
  BY <1>1, <1>2, RoutedHands, FoldEach

(* The checksums of packets.                                               *)
Weighed(s) == SumOf([f \in Flows |-> Times(s, f) * Checksum16[f]], Flows)

LEMMA Distributes ==
  ASSUME NEW a \in Nat, NEW b \in Nat, NEW c \in Nat
  PROVE  (a + b) * c = a * c + b * c /\ a * c \in Nat /\ 1 * c = c /\ 0 * c = 0
OBVIOUS

LEMMA WeighedAdds ==
  ASSUME NEW s \in Seq(Flows)
  PROVE  /\ \A f \in Flows : Times(s, f) * Checksum16[f] \in Nat
         /\ \E it : Adds(it, Flows, [f \in Flows |-> Times(s, f) * Checksum16[f]]) /\ Weighed(s) = it[Flows]
         /\ Weighed(s) \in Nat
<1>1. ASSUME NEW f \in Flows PROVE Times(s, f) * Checksum16[f] \in Nat
  <2>1. PICK a \in Nat, c \in Nat : a = Times(s, f) /\ c = Checksum16[f]
    BY TimesIs, HowManyType, ChecksumType
  <2> QED
    BY <2>1, Distributes
<1> DEFINE g == [f \in Flows |-> Times(s, f) * Checksum16[f]]
<1>2. (\A f \in Flows : g[f] \in Nat) /\ g = [f \in Flows |-> g[f]] /\ IsFiniteSet(Flows)
  BY <1>1, ElementsAssumption
<1>3. Weighed(s) = SumOf(g, Flows)
  BY DEF Weighed
<1> HIDE DEF g
<1>4. PICK it : Adds(it, Flows, g) /\ SumOf(g, Flows) = it[Flows]
  BY <1>2, SumOfAdds
<1>5. it[Flows] \in Nat
  BY <1>4 DEF Adds
<1> QED
  BY <1>1, <1>3, <1>4, <1>5 DEF g

LEMMA WeighedJoined ==
  ASSUME NEW s \in Seq(Flows), NEW t \in Seq(Flows), NEW u \in Seq(Flows), Joined(s, t, u)
  PROVE  Weighed(u) = Weighed(s) + Weighed(t)
<1> DEFINE g(x) == [f \in Flows |-> Times(x, f) * Checksum16[f]]
<1>1. PICK a : Adds(a, Flows, g(s)) /\ Weighed(s) = a[Flows]
  BY WeighedAdds
<1>2. PICK b : Adds(b, Flows, g(t)) /\ Weighed(t) = b[Flows]
  BY WeighedAdds
<1>3. PICK c : Adds(c, Flows, g(u)) /\ Weighed(u) = c[Flows]
  BY WeighedAdds
<1>4. ASSUME NEW f \in Flows PROVE g(s)[f] \in Nat /\ g(t)[f] \in Nat /\ g(u)[f] = g(s)[f] + g(t)[f]
  <2>1. PICK i \in Nat, j \in Nat, w \in Nat : i = Times(s, f) /\ j = Times(t, f) /\ w = Checksum16[f]
    BY TimesIs, HowManyType, ChecksumType
  <2>2. Times(u, f) = i + j
    <3>1. HowMany(u, {f}) = HowMany(s, {f}) + HowMany(t, {f})
      BY DEF Joined
    <3>2. Times(u, f) = HowMany(u, {f}) /\ Times(s, f) = HowMany(s, {f}) /\ Times(t, f) = HowMany(t, {f})
      BY TimesIs
    <3> QED
      BY <2>1, <3>1, <3>2
  <2>3. (i + j) * w = i * w + j * w /\ i * w \in Nat /\ j * w \in Nat
    BY Distributes
  <2> QED
    BY <2>1, <2>2, <2>3
<1>5. IsFiniteSet(Flows)
  BY ElementsAssumption
<1> HIDE DEF g
<1>6. c[Flows] = a[Flows] + b[Flows]
  BY <1>1, <1>2, <1>3, <1>4, <1>5, SumsAdd
<1> QED
  BY <1>1, <1>2, <1>3, <1>6

LEMMA WeighedNone == Weighed(<<>>) = 0
<1>1. Weighed(<<>>) \in Nat
  BY NoneJoined, WeighedAdds
<1>2. Joined(<<>>, <<>>, <<>>)
  BY NoneJoined DEF Joined
<1>3. Weighed(<<>>) = Weighed(<<>>) + Weighed(<<>>)
  BY <1>2, NoneJoined, WeighedJoined
<1> QED
  BY <1>1, <1>3

LEMMA WeighedOne ==
  ASSUME NEW f \in Flows
  PROVE  Weighed(<<f>>) = Checksum16[f]
<1> DEFINE s == <<f>>
           g == [h \in Flows |-> Times(s, h) * Checksum16[h]]
<1>1. PICK it : Adds(it, Flows, g) /\ Weighed(s) = it[Flows]
  BY HowManyOne, WeighedAdds
<1>2. ASSUME NEW h \in Flows PROVE g[h] = IF h = f THEN Checksum16[f] ELSE 0
  <2>1. Times(s, h) = IF h = f THEN 1 ELSE 0
    <3>1. s \in Seq(Flows) /\ HowMany(s, {h}) = IF h = f THEN 1 ELSE 0
      BY HowManyOne
    <3> HIDE DEF s
    <3>2. Times(s, h) = HowMany(s, {h})
      BY <3>1, TimesIs
    <3> QED
      BY <3>1, <3>2
  <2>2. PICK w \in Nat : w = Checksum16[h] /\ 1 * w = w /\ 0 * w = 0
    BY ChecksumType, Distributes
  <2> QED
    BY <2>1, <2>2
<1>3. Checksum16[f] \in Nat /\ IsFiniteSet(Flows)
  BY ChecksumType, ElementsAssumption
<1> HIDE DEF s, g
<1> DEFINE T == {B \in SUBSET Flows : it[B] = IF f \in B THEN Checksum16[f] ELSE 0}
<1>4. {} \in T
  BY <1>1 DEF Adds
<1>5. ASSUME NEW B \in SUBSET Flows, NEW x \in B, B \ {x} \in T PROVE B \in T
  <2>1. it[B] = g[x] + it[B \ {x}]
    BY <1>1 DEF Adds
  <2>2. it[B \ {x}] = IF f \in B \ {x} THEN Checksum16[f] ELSE 0
    BY <1>5
  <2>3. g[x] = IF x = f THEN Checksum16[f] ELSE 0
    BY <1>2
  <2> QED
    BY <1>3, <2>1, <2>2, <2>3
<1>6. Flows \in T
  <2> HIDE DEF T
  <2> QED
    BY <1>3, <1>4, <1>5, PartsInduction
<1> QED
  BY <1>1, <1>6 DEF s

(* e2 is e1 with the checksums of s added.                                 *)
Summed(e1, e2, s) ==
  /\ e2.tbl = e1.tbl /\ e2.hits = e1.hits /\ e2.ports = e1.ports
  /\ e2.fast = e1.fast /\ e2.slow = e1.slow /\ e2.sum = e1.sum + Weighed(s)

SummedRel == {x \in Counters \X Counters \X Seq(Flows) : Summed(x[1], x[2], x[3])}

LEMMA SummedHands == Hands(SummedRel, Counters)
<1>0. \A e \in Counters : e.sum \in Nat
  BY TablesAre
<1>1. ASSUME NEW e \in Counters PROVE <<e, e, <<>> >> \in SummedRel
  <2>1. e.sum = e.sum + Weighed(<<>>)
    BY <1>0, WeighedNone
  <2>2. Summed(e, e, <<>>)
    BY <2>1 DEF Summed
  <2> QED
    BY <2>2, NoneJoined DEF SummedRel
<1>2. ASSUME NEW x \in Counters, NEW y \in Counters, NEW z \in Counters,
             NEW s \in Seq(Flows), NEW t \in Seq(Flows), NEW u \in Seq(Flows),
             <<x, y, s>> \in SummedRel, <<y, z, t>> \in SummedRel, Joined(s, t, u)
      PROVE  <<x, z, u>> \in SummedRel
  <2>1. Summed(x, y, s) /\ Summed(y, z, t)
    BY <1>2 DEF SummedRel
  <2>2. PICK a \in Nat, b \in Nat : a = Weighed(s) /\ b = Weighed(t)
    BY WeighedAdds
  <2>3. Weighed(u) = a + b
    BY <1>2, <2>2, WeighedJoined
  <2>4. Summed(x, z, u)
    BY <1>0, <2>1, <2>2, <2>3 DEF Summed
  <2> QED
    BY <2>4 DEF SummedRel
<1> QED
  BY <1>1, <1>2 DEF Hands

LEMMA SumOneSums ==
  ASSUME NEW e \in Counters, NEW f \in Flows
  PROVE  Summed(e, SumOne(e, f), <<f>>)
<1>1. Weighed(<<f>>) = Checksum16[f]
  BY WeighedOne
<1>2. PICK r \in Counters :
        /\ r = SumOne(e, f) /\ r.tbl = e.tbl /\ r.hits = e.hits /\ r.ports = e.ports
        /\ r.fast = e.fast /\ r.slow = e.slow /\ r.sum = e.sum + Checksum16[f]
  BY SumOneIs
<1> QED
  BY <1>1, <1>2 DEF Summed

LEMMA SumSums ==
  ASSUME NEW e \in Counters, NEW s \in Seq(Flows)
  PROVE  <<e, FoldLeft(SumOne, e, s), s>> \in SummedRel
<1> DEFINE g == [p \in Counters \X Flows |-> SumOne(p[1], p[2])]
<1>1. Folded(FoldLeft(SumOne, e, s), Len(s), e, s, g, Counters)
  BY SumFold
<1>2. Each(SummedRel, Counters, g, s, s)
  <2> SUFFICES ASSUME NEW k \in 1..Len(s), NEW x \in Counters
               PROVE  <<x, g[<<x, s[k]>>], <<s[k]>> >> \in SummedRel
    BY DEF Each
  <2>1. PICK f \in Flows : f = s[k]
    BY ElementOfSeq
  <2>2. g[<<x, f>>] = SumOne(x, f)
    OBVIOUS
  <2>3. SumOne(x, f) \in Counters /\ Summed(x, SumOne(x, f), <<f>>)
    BY SumOneIs, SumOneSums
  <2>4. <<f>> \in Seq(Flows)
    BY HowManyOne
  <2> HIDE DEF g
  <2> QED
    BY <2>1, <2>2, <2>3, <2>4 DEF SummedRel
<1> HIDE DEF g
<1> QED
  BY <1>1, <1>2, SummedHands, FoldEach

----------------------------------------------------------------------------
(* Packets that are gathered one behind the other.                         *)

LEMMA FoldedOne ==
  ASSUME NEW U, NEW g, NEW first, NEW v, NEW r, NEW n, n = 1, Folded(r, n, first, v, g, U)
  PROVE  r = g[<<first, v[1]>>]
<1>1. PICK h \in [0..n -> U] : h[0] = first /\ (\A k \in 1..n : h[k] = g[<<h[k - 1], v[k]>>]) /\ r = h[n]
  BY DEF Folded
<1>2. h[1] = g[<<h[1 - 1], v[1]>>] /\ 1 - 1 = 0 /\ r = h[1]
  BY <1>1
<1> QED
  BY <1>1, <1>2

(* What gathers the packets of F.                                          *)
Gather(F) == [p \in Seq(Flows) \X Flows |-> IF p[2] \in F THEN Append(p[1], p[2]) ELSE p[1]]

LEMMA OnlyFold ==
  ASSUME NEW s \in Seq(Flows),
         NEW F
  PROVE  Folded(Only(s, F), Len(s), <<>>, s, Gather(F), Seq(Flows))
<1> DEFINE g == Gather(F)
           Is(c) == c = [S \in SUBSET (DOMAIN s) |->
                           IF S = {} THEN <<>> ELSE (IF s[Max(S)] \in F THEN Append(c[S \ {Max(S)}], s[Max(S)]) ELSE c[S \ {Max(S)}])]
           c == CHOOSE x : Is(x)
<1>1. g \in [Seq(Flows) \X Flows -> Seq(Flows)] /\ \A x \in Seq(Flows) : \A y \in Flows : g[<<x, y>>] = IF y \in F THEN Append(x, y) ELSE x
  BY AppendProperties DEF Gather
<1>2. Len(s) \in Nat /\ DOMAIN s = 1..Len(s) /\ \A k \in 1..Len(s) : s[k] \in Flows
  OBVIOUS
<1>3. Only(s, F) = c[1..Len(s)]
  BY <1>2 DEF Only, FoldLeft, MapThenFoldSet
<1> HIDE DEF g
<1>4. Foldable(Seq(Flows), Flows, g, <<>>, Len(s), s)
  BY <1>1, <1>2, NoneJoined DEF Foldable
<1>5. (\A S \in SUBSET (1..Len(s)) : S # {} => Max(S) \in S) /\ Foldings(Len(s), <<>>, s, g, Seq(Flows))
  <2> HIDE DEF c
  <2> QED
    BY <1>2, <1>4, FoldExists
<1>6. \E x : Is(x)
  <2>1. PICK x : Folding(x, Len(s), <<>>, s, g) /\ \A S \in SUBSET (1..Len(s)) : x[S] \in Seq(Flows)
    BY <1>5 DEF Foldings
  <2>2. ASSUME NEW S \in SUBSET (1..Len(s)), S # {}
        PROVE  g[<<x[S \ {Max(S)}], s[Max(S)]>>] = (IF s[Max(S)] \in F THEN Append(x[S \ {Max(S)}], s[Max(S)]) ELSE x[S \ {Max(S)}])
    BY <1>1, <1>2, <1>5, <2>1, <2>2
  <2>3. Is(x)
    BY <1>2, <2>1, <2>2 DEF Folding
  <2> QED
    BY <2>3
<1>7. Is(c)
  BY <1>6
<1> HIDE DEF c
<1>8. c[{}] = <<>> /\ \A S \in SUBSET (1..Len(s)) : S # {} => c[S] = (IF s[Max(S)] \in F THEN Append(c[S \ {Max(S)}], s[Max(S)]) ELSE c[S \ {Max(S)}])
  BY <1>2, <1>7
<1>9. ASSUME NEW S \in SUBSET (1..Len(s)), S # {}, c[S \ {Max(S)}] \in Seq(Flows)
      PROVE  c[S] = g[<<c[S \ {Max(S)}], s[Max(S)]>>]
  BY <1>1, <1>2, <1>5, <1>8, <1>9
<1>10. Folded(c[1..Len(s)], Len(s), <<>>, s, g, Seq(Flows))
  BY <1>2, <1>4, <1>8, <1>9, FoldTurns
<1> QED
  BY <1>3, <1>10 DEF g

LEMMA GatherIs ==
  ASSUME NEW F, NEW x \in Seq(Flows), NEW f \in Flows
  PROVE  /\ Gather(F)[<<x, f>>] = IF f \in F THEN x \o <<f>> ELSE x
         /\ Gather(F)[<<x, f>>] \in Seq(Flows)
<1>1. Append(x, f) = x \o <<f>> /\ Append(x, f) \in Seq(Flows)
  BY AppendProperties, AppendIsConcat
<1>2. Gather(F)[<<x, f>>] = IF f \in F THEN Append(x, f) ELSE x
  BY DEF Gather
<1> QED
  BY <1>1, <1>2

Regroups(x, y, w) == (x \o y) \o w = x \o (y \o w)

LEMMA Gathered ==
  ASSUME NEW x \in Seq(Flows), NEW y \in Seq(Flows), NEW w \in Seq(Flows)
  PROVE  Regroups(x, y, w)
BY ConcatAssociative DEF Regroups

LEMMA OnlyOne ==
  ASSUME NEW f \in Flows, NEW F
  PROVE  Only(<<f>>, F) = IF f \in F THEN <<f>> ELSE <<>>
<1> DEFINE s == <<f>>
<1>1. s \in Seq(Flows) /\ Len(s) = 1 /\ s[1] = f
  BY HowManyOne
<1> HIDE DEF s
<1>2. PICK n : n = 1 /\ Folded(Only(s, F), n, <<>>, s, Gather(F), Seq(Flows))
  BY <1>1, OnlyFold
<1>3. Only(s, F) = Gather(F)[<< <<>>, f>>]
  BY <1>1, <1>2, FoldedOne
<1>4. Gather(F)[<< <<>>, f>>] = IF f \in F THEN <<>> \o <<f>> ELSE <<>>
  BY NoneJoined, GatherIs
<1>5. <<>> \o s = s
  BY <1>1, ConcatEmptySeq
<1> QED
  BY <1>3, <1>4, <1>5 DEF s

(* What is gathered of a batch follows what was gathered before.           *)
LEMMA OnlyConcat ==
  ASSUME NEW s \in Seq(Flows), NEW t \in Seq(Flows), NEW F
  PROVE  /\ Only(s, F) \in Seq(Flows) /\ Only(s \o t, F) = Only(s, F) \o Only(t, F)
<1> DEFINE g == Gather(F)
           U == Seq(Flows)
<1>0. /\ s \o t \in Seq(Flows) /\ Len(s \o t) = Len(s) + Len(t)
      /\ \A i \in 1..(Len(s) + Len(t)) : (s \o t)[i] = IF i <= Len(s) THEN s[i] ELSE t[i - Len(s)]
  BY ConcatProperties
<1>1. PICK m \in Nat, n \in Nat : m = Len(s) /\ n = Len(t)
  OBVIOUS
<1> DEFINE u == s \o t
<1> HIDE DEF u
<1>2. /\ u \in Seq(Flows) /\ Len(u) = m + n
      /\ \A k \in 1..m : u[k] = s[k] /\ s[k] \in Flows
      /\ \A k \in 1..n : u[m + k] = t[k] /\ t[k] \in Flows
  <2>1. \A k \in 1..m : k \in 1..(m + n) /\ k <= m
    OBVIOUS
  <2>2. \A k \in 1..n : m + k \in 1..(m + n) /\ ~(m + k <= m) /\ (m + k) - m = k
    OBVIOUS
  <2>3. (\A k \in 1..m : s[k] \in Flows) /\ \A k \in 1..n : t[k] \in Flows
    BY <1>1, ElementOfSeq
  <2> QED
    BY <1>0, <1>1, <2>1, <2>2, <2>3 DEF u
<1>3. PICK a \in [0..m -> U] : a[0] = <<>> /\ (\A k \in 1..m : a[k] = g[<<a[k - 1], s[k]>>]) /\ Only(s, F) = a[m]
  BY <1>1, OnlyFold DEF Folded
<1>4. PICK b \in [0..n -> U] : b[0] = <<>> /\ (\A k \in 1..n : b[k] = g[<<b[k - 1], t[k]>>]) /\ Only(t, F) = b[n]
  BY <1>1, OnlyFold DEF Folded
<1>5. PICK c \in [0..(m + n) -> U] :
        c[0] = <<>> /\ (\A k \in 1..(m + n) : c[k] = g[<<c[k - 1], u[k]>>]) /\ Only(u, F) = c[m + n]
  <2>1. Folded(Only(u, F), m + n, <<>>, u, g, U)
    BY <1>2, OnlyFold
  <2> QED
    BY <2>1 DEF Folded
<1>6. ASSUME NEW x \in Seq(Flows), NEW f \in Flows PROVE g[<<x, f>>] = IF f \in F THEN x \o <<f>> ELSE x
  BY GatherIs
<1> HIDE DEF g, U
<1>7. c[m] = a[m]
  <2> DEFINE T == {k \in Nat : k <= m => c[k] = a[k]}
  <2>1. 0 \in T
    BY <1>3, <1>5
  <2>2. ASSUME NEW k \in Nat, k \in T PROVE k + 1 \in T
    <3> SUFFICES ASSUME k + 1 <= m PROVE c[k + 1] = a[k + 1]
      OBVIOUS
    <3>1. k + 1 \in 1..m /\ k + 1 \in 1..(m + n) /\ (k + 1) - 1 = k /\ c[k] = a[k]
      BY <2>2
    <3>2. c[k + 1] = g[<<c[k], u[k + 1]>>]
      BY <1>5, <3>1
    <3>3. a[k + 1] = g[<<a[k], s[k + 1]>>]
      BY <1>3, <3>1
    <3>4. u[k + 1] = s[k + 1]
      BY <1>2, <3>1
    <3> QED
      BY <3>1, <3>2, <3>3, <3>4
  <2>3. \A k \in Nat : k \in T
    <3> HIDE DEF T
    <3> QED
      BY <2>1, <2>2, SetInduction
  <2> QED
    BY <2>3
<1>8. \A k \in Nat : k <= n => c[m + k] = a[m] \o b[k]
  <2> DEFINE T == {k \in Nat : k <= n => c[m + k] = a[m] \o b[k]}
  <2>0. m \in 0..m /\ a[m] \in U
    BY <1>3
  <2>1. 0 \in T
    <3>1. m + 0 = m /\ a[m] \o <<>> = a[m]
      BY <2>0, ConcatEmptySeq DEF U
    <3> QED
      BY <1>4, <1>7, <3>1
  <2>2. ASSUME NEW k \in Nat, k \in T PROVE k + 1 \in T
    <3> SUFFICES ASSUME k + 1 <= n PROVE c[m + (k + 1)] = a[m] \o b[k + 1]
      OBVIOUS
    <3>1. /\ k + 1 \in 1..n /\ m + (k + 1) \in 1..(m + n) /\ (k + 1) - 1 = k /\ (m + (k + 1)) - 1 = m + k
          /\ k \in 0..n /\ c[m + k] = a[m] \o b[k]
      BY <2>2
    <3>2. PICK f \in Flows : f = t[k + 1] /\ u[m + (k + 1)] = f
      BY <1>2, <3>1
    <3>3. PICK x \in Seq(Flows), y \in Seq(Flows) : x = a[m] /\ y = b[k]
      BY <1>4, <2>0, <3>1 DEF U
    <3>4. x \o y \in Seq(Flows) /\ c[m + k] = x \o y
      BY <3>1, <3>3, ConcatProperties
    <3>5. b[k + 1] = IF f \in F THEN y \o <<f>> ELSE y
      <4>1. b[k + 1] = g[<<b[k], t[k + 1]>>]
        BY <1>4, <3>1
      <4>2. b[k + 1] = g[<<y, f>>]
        BY <3>2, <3>3, <4>1
      <4> QED
        BY <1>6, <4>2
    <3>6. c[m + (k + 1)] = IF f \in F THEN (x \o y) \o <<f>> ELSE x \o y
      <4>1. c[m + (k + 1)] = g[<<x \o y, f>>]
        BY <1>5, <3>1, <3>2, <3>4
      <4> QED
        BY <1>6, <3>4, <4>1
    <3>7. (x \o y) \o <<f>> = x \o (y \o <<f>>)
      <4> DEFINE w == <<f>>
      <4>1. w \in Seq(Flows)
        BY HowManyOne
      <4> HIDE DEF w
      <4>2. Regroups(x, y, w)
        BY <4>1, Gathered
      <4> QED
        BY <4>2 DEF w, Regroups
    <3> QED
      BY <3>3, <3>5, <3>6, <3>7
  <2>3. \A k \in Nat : k \in T
    <3> HIDE DEF T
    <3> QED
      BY <2>1, <2>2, SetInduction
  <2> QED
    BY <2>3
<1>9. Only(s, F) \in Seq(Flows)
  BY <1>3 DEF U
<1>10. c[m + n] = a[m] \o b[n]
  BY <1>8
<1> QED
  BY <1>3, <1>4, <1>5, <1>9, <1>10 DEF u

(* How many are gathered.                                                  *)
LEMMA OnlyCounts ==
  ASSUME NEW s \in Seq(Flows), NEW F \in SUBSET Flows
  PROVE  /\ Only(s, F) \in Seq(Flows) /\ Len(Only(s, F)) = HowMany(s, F)
         /\ \A G \in SUBSET Flows : HowMany(Only(s, F), G) = HowMany(s, G \intersect F)
<1> DEFINE Rel == {p \in Seq(Flows) \X Seq(Flows) \X Seq(Flows) :
                     \A G \in SUBSET Flows : HowMany(p[2], G) = HowMany(p[1], G) + HowMany(p[3], G \intersect F)}
<1>0. \A x \in Seq(Flows) : \A G : HowMany(x, G) \in Nat
  BY HowManyType
<1>1. Hands(Rel, Seq(Flows))
  <2>1. ASSUME NEW x \in Seq(Flows) PROVE <<x, x, <<>> >> \in Rel
    <3>1. ASSUME NEW G \in SUBSET Flows PROVE HowMany(x, G) = HowMany(x, G) + HowMany(<<>>, G \intersect F)
      <4>1. HowMany(x, G) \in Nat /\ HowMany(<<>>, G \intersect F) = 0
        BY <1>0, NoneJoined
      <4> QED
        BY <4>1
    <3> QED
      BY <3>1, NoneJoined
  <2>2. ASSUME NEW x \in Seq(Flows), NEW y \in Seq(Flows), NEW z \in Seq(Flows),
               NEW p \in Seq(Flows), NEW q \in Seq(Flows), NEW r \in Seq(Flows),
               <<x, y, p>> \in Rel, <<y, z, q>> \in Rel, Joined(p, q, r)
        PROVE  <<x, z, r>> \in Rel
    <3>1. ASSUME NEW G \in SUBSET Flows PROVE HowMany(z, G) = HowMany(x, G) + HowMany(r, G \intersect F)
      <4>1. PICK H \in SUBSET Flows : H = G \intersect F
        OBVIOUS
      <4>2. HowMany(r, H) = HowMany(p, H) + HowMany(q, H)
        BY <2>2 DEF Joined
      <4>3. HowMany(y, G) = HowMany(x, G) + HowMany(p, H) /\ HowMany(z, G) = HowMany(y, G) + HowMany(q, H)
        BY <2>2, <4>1
      <4>4. HowMany(x, G) \in Nat /\ HowMany(p, H) \in Nat /\ HowMany(q, H) \in Nat
        BY <1>0
      <4> QED
        BY <4>1, <4>2, <4>3, <4>4
    <3> QED
      BY <3>1
  <2> HIDE DEF Rel
  <2> QED
    BY <2>1, <2>2 DEF Hands
<1>2. \A k \in 1..Len(s) : \A x \in Seq(Flows) : <<x, Gather(F)[<<x, s[k]>>], <<s[k]>> >> \in Rel
  <2> SUFFICES ASSUME NEW k \in 1..Len(s), NEW x \in Seq(Flows)
               PROVE  <<x, Gather(F)[<<x, s[k]>>], <<s[k]>> >> \in Rel
    OBVIOUS
  <2>1. PICK f \in Flows : f = s[k]
    BY ElementOfSeq
  <2>2. PICK y \in Seq(Flows) : y = Gather(F)[<<x, f>>] /\ y = IF f \in F THEN x \o <<f>> ELSE x
    BY GatherIs
  <2>3. <<f>> \in Seq(Flows) /\ \A G : HowMany(<<f>>, G) = IF f \in G THEN 1 ELSE 0
    BY HowManyOne
  <2>4. ASSUME NEW G \in SUBSET Flows PROVE HowMany(y, G) = HowMany(x, G) + HowMany(<<f>>, G \intersect F)
    <3>1. CASE f \in F
      <4>1. Joined(x, <<f>>, x \o <<f>>)
        BY <2>3, JoinedConcat
      <4>2. HowMany(y, G) = HowMany(x, G) + HowMany(<<f>>, G)
        BY <2>2, <3>1, <4>1 DEF Joined
      <4> QED
        BY <2>3, <3>1, <4>2
    <3>2. CASE f \notin F
      BY <1>0, <2>2, <2>3, <3>2
    <3> QED
      BY <3>1, <3>2
  <2> QED
    BY <2>1, <2>2, <2>3, <2>4
<1> DEFINE z == <<>>
           g == Gather(F)
           r == Only(s, F)
           U == Seq(Flows)
<1>3. z \in Seq(Flows) /\ Folded(r, Len(s), z, s, g, U) /\ \A G : HowMany(z, G) = 0
  BY NoneJoined, OnlyFold
<1> HIDE DEF z, g, r
<1>4. <<z, r, s>> \in Rel /\ r \in Seq(Flows)
  <2>1. Each(Rel, U, g, s, s)
    BY <1>2 DEF g, Each
  <2>2. Hands(Rel, U) /\ z \in U /\ Folded(r, Len(s), z, s, g, U)
    BY <1>1, <1>3
  <2> HIDE DEF Rel, U
  <2>3. <<z, r, s>> \in Rel /\ r \in U
    BY <2>1, <2>2, FoldEach
  <2> QED
    BY <2>3 DEF U
<1>5. ASSUME NEW G \in SUBSET Flows PROVE HowMany(r, G) = HowMany(s, G \intersect F)
  <2>1. HowMany(r, G) = HowMany(z, G) + HowMany(s, G \intersect F)
    BY <1>4
  <2>2. HowMany(z, G) = 0 /\ HowMany(s, G \intersect F) \in Nat
    BY <1>0, <1>3
  <2> QED
    BY <2>1, <2>2
<1>6. Len(r) = HowMany(s, F)
  <2>1. HowMany(r, Flows) = Len(r)
    BY <1>4, HowManySets
  <2>2. Flows \intersect F = F
    OBVIOUS
  <2> QED
    BY <1>5, <2>1, <2>2
<1> QED
  BY <1>4, <1>5, <1>6 DEF r

----------------------------------------------------------------------------
(* The groups of the prefetching loops.                                    *)

LEMMA Halves ==
  ASSUME NEW half \in Nat, NEW k \in Nat, NEW t \in Nat, k <= t
  PROVE  k * half <= t * half /\ k * half \in Nat
<1>1. PICK d \in Nat : t = k + d
  <2>1. t = k + (t - k) /\ t - k \in Nat
    OBVIOUS
  <2> QED
    BY <2>1
<1>2. PICK a \in Nat, b \in Nat : a = k * half /\ b = d * half
  OBVIOUS
<1>3. (k + d) * half = k * half + d * half
  BY Distributes
<1> QED
  BY <1>1, <1>2, <1>3

(* The ends of the groups.                                                 *)
Turning(n, half) == IF n <= half THEN 0 ELSE (n - half - 1) \div half
Ends(n, half) == [k \in 0..(Turning(n, half) + 1) |-> IF k <= Turning(n, half) THEN k * half ELSE n]

(* Groups cuts the batch into parts, whatever its size is to the half of   *)
(* the window.                                                             *)
LEMMA GroupsAre ==
  ASSUME NEW s \in Seq(Flows), NEW half \in Nat \ {0}, NEW n, n = Len(s)
  PROVE  /\ Groups(s, half) \in Seq(Seq(Flows)) /\ Len(Groups(s, half)) = Turning(n, half) + 1
         /\ Cut(Ends(n, half), Turning(n, half) + 1, s)
         /\ \A k \in 1..(Turning(n, half) + 1) :
              Groups(s, half)[k] = SubSeq(s, Ends(n, half)[k - 1] + 1, Ends(n, half)[k])
<1> DEFINE t == Turning(n, half)
           E == Ends(n, half)
<1>1. n \in Nat
  OBVIOUS
<1>2. t \in Nat /\ t * half <= n
  <2>1. CASE n <= half
    BY <1>1, <2>1 DEF Turning
  <2>2. CASE ~(n <= half)
    <3>1. PICK x \in Nat : x = n - half - 1
      <4>1. n - half - 1 \in Nat
        BY <1>1, <2>2
      <4> QED
        BY <4>1
    <3>2. PICK q \in Nat : q = x \div half /\ half * q <= x
      <4>1. x \div half \in Nat /\ x % half \in 0..(half - 1) /\ x = half * (x \div half) + (x % half)
        BY Division
      <4>2. PICK q \in Nat, r \in 0..(half - 1) : q = x \div half /\ x = half * q + r
        BY <4>1
      <4>3. half * q \in Nat
        OBVIOUS
      <4> QED
        BY <4>2, <4>3
    <3>3. half * q = q * half
      OBVIOUS
    <3> QED
      BY <1>1, <2>2, <3>1, <3>2, <3>3 DEF Turning
  <2> QED
    BY <2>1, <2>2
<1>3. E = [k \in 0..(t + 1) |-> IF k <= t THEN k * half ELSE n]
  BY DEF Ends
<1> DEFINE G == Groups(s, half)
<1>4. G = [k \in 1..(t + 1) |-> SubSeq(s, (k - 1) * half + 1, IF k <= t THEN k * half ELSE n)]
  BY DEF Groups, Turning
<1> HIDE DEF t, E, G
<1>6. E[0] = 0 /\ E[t + 1] = n
  <2>1. 0 \in 0..(t + 1) /\ 0 <= t /\ t + 1 \in 0..(t + 1) /\ ~(t + 1 <= t) /\ 0 * half = 0
    BY <1>2
  <2> QED
    BY <1>3, <2>1
<1>7. ASSUME NEW k \in 0..t PROVE E[k] = k * half /\ E[k] \in Nat /\ E[k] <= n
  <2>1. k \in Nat /\ k <= t /\ k \in 0..(t + 1)
    BY <1>2
  <2>2. k * half <= t * half /\ k * half \in Nat /\ t * half \in Nat
    BY <1>2, <2>1, Halves
  <2>3. PICK a \in Nat, b \in Nat : a = k * half /\ b = t * half /\ a <= b
    BY <2>2
  <2> QED
    BY <1>1, <1>2, <1>3, <2>1, <2>3
<1>8. ASSUME NEW k \in 0..(t + 1) PROVE E[k] \in Nat /\ E[k] <= n
  <2>1. k \in 0..t \/ k = t + 1
    BY <1>2
  <2> QED
    BY <1>1, <1>6, <1>7, <2>1
<1>9. ASSUME NEW k \in 1..(t + 1) PROVE E[k - 1] = (k - 1) * half /\ E[k - 1] <= E[k] /\ E[k] <= n
                                        /\ E[k] = IF k <= t THEN k * half ELSE n
  <2>1. k - 1 \in 0..t /\ k \in 0..(t + 1) /\ k - 1 \in Nat /\ k \in Nat /\ k - 1 <= k
    BY <1>2
  <2>2. E[k] = IF k <= t THEN k * half ELSE n
    BY <1>3, <2>1
  <2>3. E[k - 1] = (k - 1) * half /\ E[k - 1] <= n /\ E[k] <= n
    BY <1>7, <1>8, <2>1
  <2>4. (k - 1) * half <= k * half
    BY <2>1, Halves
  <2> QED
    BY <2>2, <2>3, <2>4
<1>10. Cut(E, t + 1, s)
  BY <1>1, <1>6, <1>8, <1>9 DEF Cut
<1>11. ASSUME NEW k \in 1..(t + 1)
       PROVE  G[k] = SubSeq(s, E[k - 1] + 1, E[k]) /\ G[k] \in Seq(Flows)
  <2>1. G[k] = SubSeq(s, E[k - 1] + 1, E[k])
    BY <1>4, <1>9
  <2>2. k - 1 \in 0..(t + 1) /\ k \in 0..(t + 1)
    BY <1>2
  <2>3. PICK a \in Nat, b \in Nat : a = E[k - 1] /\ b = E[k] /\ a <= b /\ b <= Len(s)
    BY <1>8, <1>9, <2>2
  <2>4. SubSeq(s, a + 1, b) \in Seq(Flows)
    BY <2>3, JoinedCut
  <2> QED
    BY <2>1, <2>3, <2>4
<1>12. G \in Seq(Seq(Flows)) /\ Len(G) = t + 1
  <2> DEFINE V == Seq(Flows)
  <2>1. \A k \in 1..(t + 1) : G[k] \in V
    BY <1>11
  <2>2. G = [k \in 1..(t + 1) |-> G[k]]
    BY <1>4
  <2> HIDE DEF V
  <2>3. G \in [1..(t + 1) -> V]
    BY <2>1, <2>2
  <2>4. t + 1 \in Nat
    BY <1>2
  <2>5. G \in Seq(V) /\ Len(G) = t + 1
    BY <2>3, <2>4
  <2> QED
    BY <2>5 DEF V
<1> QED
  BY <1>10, <1>11, <1>12 DEF t, E, G

LEMMA CountGroupFold ==
  ASSUME NEW t \in Tables, NEW s \in Seq(Seq(Flows))
  PROVE  Folded(FoldLeft(CountGroup, t, s), Len(s), t, s, [p \in Tables \X Seq(Flows) |-> CountGroup(p[1], p[2])], Tables)
<1> DEFINE g == [p \in Tables \X Seq(Flows) |-> CountGroup(p[1], p[2])]
           Is(c) == c = [S \in SUBSET (DOMAIN s) |->
                           IF S = {} THEN t ELSE CountGroup(c[S \ {Max(S)}], s[Max(S)])]
           c == CHOOSE x : Is(x)
<1>1. g \in [Tables \X Seq(Flows) -> Tables] /\ \A x \in Tables : \A y \in Seq(Flows) : g[<<x, y>>] = CountGroup(x, y)
  BY CountGroupMeasures DEF MeasuredRel
<1>2. Len(s) \in Nat /\ DOMAIN s = 1..Len(s) /\ \A k \in 1..Len(s) : s[k] \in Seq(Flows)
  OBVIOUS
<1>3. FoldLeft(CountGroup, t, s) = c[1..Len(s)]
  BY <1>2 DEF FoldLeft, MapThenFoldSet
<1> HIDE DEF g
<1>4. Foldable(Tables, Seq(Flows), g, t, Len(s), s)
  BY <1>1, <1>2 DEF Foldable
<1>5. (\A S \in SUBSET (1..Len(s)) : S # {} => Max(S) \in S) /\ Foldings(Len(s), t, s, g, Tables)
  <2> HIDE DEF c
  <2> QED
    BY <1>2, <1>4, FoldExists
<1>6. \E x : Is(x)
  <2>1. PICK x : Folding(x, Len(s), t, s, g) /\ \A S \in SUBSET (1..Len(s)) : x[S] \in Tables
    BY <1>5 DEF Foldings
  <2>2. ASSUME NEW S \in SUBSET (1..Len(s)), S # {}
        PROVE  g[<<x[S \ {Max(S)}], s[Max(S)]>>] = CountGroup(x[S \ {Max(S)}], s[Max(S)])
    BY <1>1, <1>2, <1>5, <2>1, <2>2
  <2>3. Is(x)
    BY <1>2, <2>1, <2>2 DEF Folding
  <2> QED
    BY <2>3
<1>7. Is(c)
  BY <1>6
<1> HIDE DEF c
<1>8. c[{}] = t /\ \A S \in SUBSET (1..Len(s)) : S # {} => c[S] = CountGroup(c[S \ {Max(S)}], s[Max(S)])
  BY <1>2, <1>7
<1>9. ASSUME NEW S \in SUBSET (1..Len(s)), S # {}, c[S \ {Max(S)}] \in Tables
      PROVE  c[S] = g[<<c[S \ {Max(S)}], s[Max(S)]>>]
  BY <1>1, <1>2, <1>5, <1>8, <1>9
<1>10. Folded(c[1..Len(s)], Len(s), t, s, g, Tables)
  BY <1>2, <1>4, <1>8, <1>9, FoldTurns
<1> QED
  BY <1>3, <1>10 DEF g

(* However a batch is cut into groups, the table is what it would be.      *)
LEMMA CountGroupsMeasure ==
  ASSUME NEW t \in Tables, NEW s \in Seq(Flows), NEW half \in Nat \ {0}
  PROVE  <<t, FoldLeft(CountGroup, t, Groups(s, half)), s>> \in MeasuredRel
<1> DEFINE g == [p \in Tables \X Seq(Flows) |-> CountGroup(p[1], p[2])]
           v == Groups(s, half)
<1>1. PICK n \in Nat : n = Len(s)
  OBVIOUS
<1> DEFINE E == Ends(n, half)
           N == Len(v)
<1>2. v \in Seq(Seq(Flows)) /\ N \in Nat /\ Cut(E, N, s) /\ \A k \in 1..N : v[k] = SubSeq(s, E[k - 1] + 1, E[k])
  <2>1. v \in Seq(Seq(Flows))
    BY <1>1, GroupsAre
  <2>2. N = Turning(n, half) + 1
    BY <1>1, GroupsAre
  <2>3. Turning(n, half) + 1 \in Nat
    BY <2>1, <2>2
  <2>4. Cut(E, Turning(n, half) + 1, s)
    BY <1>1, GroupsAre
  <2>5. \A k \in 1..(Turning(n, half) + 1) : v[k] = SubSeq(s, E[k - 1] + 1, E[k])
    BY <1>1, GroupsAre
  <2> QED
    BY <2>1, <2>2, <2>3, <2>4, <2>5
<1>3. Folded(FoldLeft(CountGroup, t, v), N, t, v, g, Tables)
  BY <1>2, CountGroupFold
<1>4. \A x \in Tables : \A q \in Seq(Flows) : <<x, g[<<x, q>>], q>> \in MeasuredRel
  <2>1. \A x \in Tables : \A q \in Seq(Flows) : g[<<x, q>>] = CountGroup(x, q)
    OBVIOUS
  <2> HIDE DEF g
  <2> QED
    BY <2>1, CountGroupMeasures
<1> HIDE DEF g, v, E
<1>5. Makes(MeasuredRel, Tables, N, v, g, E, s)
  <2>1. \A k \in 1..N : v[k] \in Seq(Flows)
    BY <1>2, ElementOfSeq
  <2> QED
    BY <1>2, <1>4, <2>1 DEF Makes
<1> HIDE DEF N
<1> QED
  BY <1>2, <1>3, <1>5, MeasuredHands, FoldHands DEF v

----------------------------------------------------------------------------
(* The work of an element.                                                 *)

(* The flows whose packets it counts in its table and at their entries,    *)
(* whether it sums, and the flows whose packets it counts as fast or slow. *)
Job(counted, routed, sums, fast, slow) ==
  [counted |-> counted, routed |-> routed, sums |-> sums, fast |-> fast, slow |-> slow]

Jobs == [counted : SUBSET Flows, routed : SUBSET Flows, sums : BOOLEAN, fast : SUBSET Flows, slow : SUBSET Flows]

(* e2 is e1 with that done to the packets of s.                            *)
Did(w, e1, e2, s) ==
  /\ \A b \in Buckets : e2.tbl[b] = (e1.tbl[b] + HowMany(s, Of(b) \intersect w.counted)) % Wrap
  /\ \A f \in Flows : e2.hits[f] = (e1.hits[f] + HowMany(s, {f} \intersect w.routed)) % Wrap
  /\ e2.sum = e1.sum + IF w.sums THEN Weighed(s) ELSE 0
  /\ e2.fast = e1.fast + HowMany(s, w.fast) /\ e2.slow = e1.slow + HowMany(s, w.slow)

DidRel(w) == {x \in Counters \X Counters \X Seq(Flows) : Did(w, x[1], x[2], x[3])}

LEMMA JobIs ==
  ASSUME NEW c \in SUBSET Flows, NEW r \in SUBSET Flows, NEW sums \in BOOLEAN,
         NEW fast \in SUBSET Flows, NEW slow \in SUBSET Flows
  PROVE  /\ Job(c, r, sums, fast, slow) \in Jobs
         /\ Job(c, r, sums, fast, slow).counted = c /\ Job(c, r, sums, fast, slow).routed = r
         /\ Job(c, r, sums, fast, slow).sums = sums
         /\ Job(c, r, sums, fast, slow).fast = fast /\ Job(c, r, sums, fast, slow).slow = slow
BY DEF Job, Jobs

LEMMA EntriesAre ==
  ASSUME NEW e \in Counters
  PROVE  /\ \A b \in Buckets : e.tbl[b] \in Nat /\ e.tbl[b] \in 0..(Wrap - 1)
         /\ \A f \in Flows : e.hits[f] \in Nat /\ e.hits[f] \in 0..(Wrap - 1)
         /\ e.sum \in Nat /\ e.fast \in Nat /\ e.slow \in Nat /\ e.ports \in Nat
BY TablesAre, WrapIs DEF Tables

(* One part of a count that goes on behind another.                        *)
LEMMA CountsJoined ==
  ASSUME NEW s \in Seq(Flows), NEW t \in Seq(Flows), NEW u \in Seq(Flows), Joined(s, t, u),
         NEW F \in SUBSET Flows, NEW x \in Nat, NEW y, NEW z,
         y = (x + HowMany(s, F)) % Wrap, z = (y + HowMany(t, F)) % Wrap
  PROVE  z = (x + HowMany(u, F)) % Wrap
<1>1. PICK c \in Nat, d \in Nat : c = HowMany(s, F) /\ d = HowMany(t, F)
  BY HowManyType
<1>2. HowMany(u, F) = c + d
  BY <1>1 DEF Joined
<1>3. (((x + c) % Wrap) + d) % Wrap = (x + (c + d)) % Wrap
  BY CountsOn
<1> QED
  BY <1>1, <1>2, <1>3

LEMMA AddsJoined ==
  ASSUME NEW s \in Seq(Flows), NEW t \in Seq(Flows), NEW u \in Seq(Flows), Joined(s, t, u),
         NEW F \in SUBSET Flows, NEW x \in Nat, NEW y, NEW z,
         y = x + HowMany(s, F), z = y + HowMany(t, F)
  PROVE  z = x + HowMany(u, F)
<1>1. PICK c \in Nat, d \in Nat : c = HowMany(s, F) /\ d = HowMany(t, F)
  BY HowManyType
<1>2. HowMany(u, F) = c + d
  BY <1>1 DEF Joined
<1> QED
  BY <1>1, <1>2

LEMMA DidHands ==
  ASSUME NEW w \in Jobs
  PROVE  Hands(DidRel(w), Counters)
<1>0. w.fast \in SUBSET Flows /\ w.slow \in SUBSET Flows
  BY DEF Jobs
<1>1. ASSUME NEW e \in Counters PROVE <<e, e, <<>> >> \in DidRel(w)
  <2>1. \A b \in Buckets : e.tbl[b] = (e.tbl[b] + HowMany(<<>>, Of(b) \intersect w.counted)) % Wrap
    BY EntriesAre, NoneJoined, CountsNone
  <2>2. \A f \in Flows : e.hits[f] = (e.hits[f] + HowMany(<<>>, {f} \intersect w.routed)) % Wrap
    BY EntriesAre, NoneJoined, CountsNone
  <2>3. e.sum = e.sum + IF w.sums THEN Weighed(<<>>) ELSE 0
    BY EntriesAre, WeighedNone
  <2>4. e.fast = e.fast + HowMany(<<>>, w.fast) /\ e.slow = e.slow + HowMany(<<>>, w.slow)
    <3>1. HowMany(<<>>, w.fast) = 0 /\ HowMany(<<>>, w.slow) = 0
      BY NoneJoined
    <3> QED
      BY <3>1, EntriesAre
  <2>5. Did(w, e, e, <<>>)
    BY <2>1, <2>2, <2>3, <2>4 DEF Did
  <2> QED
    BY <2>5, NoneJoined DEF DidRel
<1>2. ASSUME NEW x \in Counters, NEW y \in Counters, NEW z \in Counters,
             NEW s \in Seq(Flows), NEW t \in Seq(Flows), NEW u \in Seq(Flows),
             <<x, y, s>> \in DidRel(w), <<y, z, t>> \in DidRel(w), Joined(s, t, u)
      PROVE  <<x, z, u>> \in DidRel(w)
  <2>1. Did(w, x, y, s) /\ Did(w, y, z, t)
    BY <1>2 DEF DidRel
  <2>2. ASSUME NEW b \in Buckets PROVE z.tbl[b] = (x.tbl[b] + HowMany(u, Of(b) \intersect w.counted)) % Wrap
    <3>1. PICK F \in SUBSET Flows : F = Of(b) \intersect w.counted
      BY DEF Of
    <3>2. y.tbl[b] = (x.tbl[b] + HowMany(s, F)) % Wrap /\ z.tbl[b] = (y.tbl[b] + HowMany(t, F)) % Wrap
      BY <2>1, <3>1 DEF Did
    <3>3. PICK i \in Nat, j \in Nat, k \in Nat : i = x.tbl[b] /\ j = y.tbl[b] /\ k = z.tbl[b]
      BY EntriesAre
    <3>4. j = (i + HowMany(s, F)) % Wrap /\ k = (j + HowMany(t, F)) % Wrap
      BY <3>2, <3>3
    <3>5. k = (i + HowMany(u, F)) % Wrap
      BY <1>2, <3>4, CountsJoined
    <3> QED
      BY <3>1, <3>3, <3>5
  <2>3. ASSUME NEW f \in Flows PROVE z.hits[f] = (x.hits[f] + HowMany(u, {f} \intersect w.routed)) % Wrap
    <3>1. PICK F \in SUBSET Flows : F = {f} \intersect w.routed
      OBVIOUS
    <3>2. y.hits[f] = (x.hits[f] + HowMany(s, F)) % Wrap /\ z.hits[f] = (y.hits[f] + HowMany(t, F)) % Wrap
      BY <2>1, <3>1 DEF Did
    <3>3. PICK i \in Nat, j \in Nat, k \in Nat : i = x.hits[f] /\ j = y.hits[f] /\ k = z.hits[f]
      BY EntriesAre
    <3>4. j = (i + HowMany(s, F)) % Wrap /\ k = (j + HowMany(t, F)) % Wrap
      BY <3>2, <3>3
    <3>5. k = (i + HowMany(u, F)) % Wrap
      BY <1>2, <3>4, CountsJoined
    <3> QED
      BY <3>1, <3>3, <3>5
  <2>4. z.sum = x.sum + IF w.sums THEN Weighed(u) ELSE 0
    <3>1. PICK c \in Nat, d \in Nat : c = Weighed(s) /\ d = Weighed(t)
      BY WeighedAdds
    <3>2. Weighed(u) = c + d
      BY <1>2, <3>1, WeighedJoined
    <3>3. y.sum = (x.sum + IF w.sums THEN c ELSE 0) /\ z.sum = (y.sum + IF w.sums THEN d ELSE 0)
      BY <2>1, <3>1 DEF Did
    <3>4. x.sum \in Nat
      BY EntriesAre
    <3> QED
      BY <3>2, <3>3, <3>4
  <2>5. z.fast = x.fast + HowMany(u, w.fast)
    <3>1. y.fast = x.fast + HowMany(s, w.fast) /\ z.fast = y.fast + HowMany(t, w.fast) /\ x.fast \in Nat
      BY <2>1, EntriesAre DEF Did
    <3> QED
      BY <1>0, <1>2, <3>1, AddsJoined
  <2>6. z.slow = x.slow + HowMany(u, w.slow)
    <3>1. y.slow = x.slow + HowMany(s, w.slow) /\ z.slow = y.slow + HowMany(t, w.slow) /\ x.slow \in Nat
      BY <2>1, EntriesAre DEF Did
    <3> QED
      BY <1>0, <1>2, <3>1, AddsJoined
  <2>7. Did(w, x, z, u)
    BY <2>2, <2>3, <2>4, <2>5, <2>6 DEF Did
  <2> QED
    BY <2>7 DEF DidRel
<1> QED
  BY <1>1, <1>2 DEF Hands

(* Work that is left out changes nothing.                                  *)
LEMMA LeftOut ==
  ASSUME NEW e \in Counters, NEW s \in Seq(Flows)
  PROVE  /\ \A b \in Buckets : e.tbl[b] = (e.tbl[b] + HowMany(s, Of(b) \intersect {})) % Wrap
         /\ \A f \in Flows : e.hits[f] = (e.hits[f] + HowMany(s, {f} \intersect {})) % Wrap
         /\ e.sum = e.sum + 0
         /\ e.fast = e.fast + HowMany(s, {}) /\ e.slow = e.slow + HowMany(s, {})
<1>1. HowMany(s, {}) = 0 /\ \A X : X \intersect {} = {}
  BY HowManySets
<1>2. e.sum \in Nat /\ e.fast \in Nat /\ e.slow \in Nat
  BY EntriesAre
<1>3. \A b \in Buckets : e.tbl[b] = (e.tbl[b] + 0) % Wrap
  BY EntriesAre, CountsNone
<1>4. \A f \in Flows : e.hits[f] = (e.hits[f] + 0) % Wrap
  BY EntriesAre, CountsNone
<1> QED
  BY <1>1, <1>2, <1>3, <1>4

(* The three kinds of work by themselves.                                  *)
LEMMA DidMeasure ==
  ASSUME NEW e \in Counters, NEW s \in Seq(Flows), NEW t, <<e.tbl, t, s>> \in MeasuredRel
  PROVE  <<e, [e EXCEPT !.tbl = t], s>> \in DidRel(Job(Flows, {}, FALSE, {}, {}))
<1> DEFINE r == [e EXCEPT !.tbl = t]
           w == Job(Flows, {}, FALSE, {}, {})
<1>1. t \in Tables /\ Measured(e.tbl, t, s)
  BY DEF MeasuredRel
<1>2. /\ r \in Counters /\ r.tbl = t /\ r.hits = e.hits /\ r.sum = e.sum /\ r.fast = e.fast /\ r.slow = e.slow
  BY <1>1 DEF Counters, Tables
<1>3. w.counted = Flows /\ w.routed = {} /\ ~w.sums /\ w.fast = {} /\ w.slow = {}
  BY DEF Job
<1>4. \A b \in Buckets : t[b] = (e.tbl[b] + HowMany(s, Of(b) \intersect Flows)) % Wrap
  <2>1. \A b \in Buckets : Of(b) \intersect Flows = Of(b)
    BY DEF Of
  <2> QED
    BY <1>1, <2>1 DEF Measured
<1> HIDE DEF r, w
<1>5. Did(w, e, r, s)
  BY <1>2, <1>3, <1>4, LeftOut DEF Did
<1>6. <<e, r, s>> \in DidRel(w)
  BY <1>2, <1>5 DEF DidRel
<1> QED
  BY <1>6 DEF r, w

LEMMA DidRoute ==
  ASSUME NEW e \in Counters, NEW r \in Counters, NEW s \in Seq(Flows), Routed(e, r, s)
  PROVE  <<e, r, s>> \in DidRel(Job({}, Ruled, FALSE, {}, {}))
<1> DEFINE w == Job({}, Ruled, FALSE, {}, {})
<1>1. w.counted = {} /\ w.routed = Ruled /\ ~w.sums /\ w.fast = {} /\ w.slow = {}
  BY DEF Job
<1> HIDE DEF w
<1>2. Did(w, e, r, s)
  BY <1>1, LeftOut DEF Did, Routed
<1>3. <<e, r, s>> \in DidRel(w)
  BY <1>2 DEF DidRel
<1> QED
  BY <1>3 DEF w

LEMMA DidSum ==
  ASSUME NEW e \in Counters, NEW r \in Counters, NEW s \in Seq(Flows), Summed(e, r, s)
  PROVE  <<e, r, s>> \in DidRel(Job({}, {}, TRUE, {}, {}))
<1> DEFINE w == Job({}, {}, TRUE, {}, {})
<1>1. w.counted = {} /\ w.routed = {} /\ w.sums /\ w.fast = {} /\ w.slow = {}
  BY DEF Job
<1> HIDE DEF w
<1>2. Did(w, e, r, s)
  BY <1>1, LeftOut DEF Did, Summed
<1>3. <<e, r, s>> \in DidRel(w)
  BY <1>2 DEF DidRel
<1> QED
  BY <1>3 DEF w

(* A group of the merged elements.                                         *)
MergedJob == Job(Flows, Ruled, TRUE, {}, {})

LEMMA MergedGroupDid ==
  ASSUME NEW e \in Counters, NEW s \in Seq(Flows), rules \in [Flows -> 0..3 \union {None}]
  PROVE  <<e, MergedGroup(e, s), s>> \in DidRel(MergedJob)
<1> DEFINE w == MergedJob
<1>1. PICK r1 \in Counters : r1 = FoldLeft(RouteOne, e, s) /\ Routed(e, r1, s)
  <2>1. <<e, FoldLeft(RouteOne, e, s), s>> \in RoutedRel
    BY RouteRoutes
  <2> QED
    BY <2>1 DEF RoutedRel
<1>2. PICK r2 \in Counters : r2 = FoldLeft(SumOne, r1, s) /\ Summed(r1, r2, s)
  <2>1. <<r1, FoldLeft(SumOne, r1, s), s>> \in SummedRel
    BY SumSums
  <2> QED
    BY <2>1 DEF SummedRel
<1>3. PICK t \in Tables : t = CountGroup(r2.tbl, s) /\ Measured(r2.tbl, t, s)
  <2>1. r2.tbl \in Tables
    BY TablesAre
  <2>2. <<r2.tbl, CountGroup(r2.tbl, s), s>> \in MeasuredRel
    BY <2>1, CountGroupMeasures
  <2> QED
    BY <2>2 DEF MeasuredRel
<1>4. MergedGroup(e, s) = [r2 EXCEPT !.tbl = t]
  BY <1>1, <1>2, <1>3 DEF MergedGroup
<1> DEFINE r == [r2 EXCEPT !.tbl = t]
<1>5. /\ r \in Counters /\ r.tbl = t /\ r.hits = r2.hits /\ r.sum = r2.sum /\ r.fast = r2.fast /\ r.slow = r2.slow
  BY DEF Counters, Tables
<1>6. w.counted = Flows /\ w.routed = Ruled /\ w.sums /\ w.fast = {} /\ w.slow = {}
  BY DEF Job, MergedJob
<1> HIDE DEF r, w
<1>7. \A b \in Buckets : r.tbl[b] = (e.tbl[b] + HowMany(s, Of(b) \intersect Flows)) % Wrap
  <2>1. \A b \in Buckets : Of(b) \intersect Flows = Of(b)
    BY DEF Of
  <2>2. r2.tbl = e.tbl
    BY <1>1, <1>2 DEF Routed, Summed
  <2> QED
    BY <1>3, <1>5, <2>1, <2>2 DEF Measured
<1>8. \A f \in Flows : r.hits[f] = (e.hits[f] + HowMany(s, {f} \intersect Ruled)) % Wrap
  BY <1>1, <1>2, <1>5 DEF Routed, Summed
<1>9. r.sum = e.sum + Weighed(s) /\ r.fast = e.fast /\ r.slow = e.slow
  BY <1>1, <1>2, <1>5 DEF Routed, Summed
<1>10. Did(w, e, r, s)
  <2>1. \A b \in Buckets : r.tbl[b] = (e.tbl[b] + HowMany(s, Of(b) \intersect w.counted)) % Wrap
    BY <1>6, <1>7
  <2>2. \A f \in Flows : r.hits[f] = (e.hits[f] + HowMany(s, {f} \intersect w.routed)) % Wrap
    BY <1>6, <1>8
  <2>3. r.sum = e.sum + IF w.sums THEN Weighed(s) ELSE 0
    BY <1>6, <1>9
  <2>4. r.fast = e.fast + HowMany(s, w.fast) /\ r.slow = e.slow + HowMany(s, w.slow)
    <3>1. e.fast = e.fast + HowMany(s, {}) /\ e.slow = e.slow + HowMany(s, {})
      BY LeftOut
    <3> QED
      BY <1>6, <1>9, <3>1
  <2> QED
    BY <2>1, <2>2, <2>3, <2>4 DEF Did
<1>11. <<e, r, s>> \in DidRel(w)
  BY <1>5, <1>10 DEF DidRel
<1> QED
  BY <1>4, <1>11 DEF r, w

(* A group of merged_fastpass.                                             *)
FastpassJob == Job(SlowFlows, Ruled \intersect SlowFlows, TRUE, FastFlows, SlowFlows)

LEMMA FastAndSlow ==
  /\ FastFlows \in SUBSET Flows /\ SlowFlows \in SUBSET Flows
  /\ \A s \in Seq(Flows) : HowMany(s, FastFlows) + HowMany(s, SlowFlows) = Len(s)
<1>1. FastFlows \in SUBSET Flows /\ SlowFlows \in SUBSET Flows
      /\ FastFlows \union SlowFlows = Flows /\ FastFlows \intersect SlowFlows = {}
  BY ElementsAssumption DEF FastFlows, SlowFlows
<1>2. ASSUME NEW s \in Seq(Flows) PROVE HowMany(s, FastFlows) + HowMany(s, SlowFlows) = Len(s)
  <2>1. HowMany(s, FastFlows \union SlowFlows) = HowMany(s, FastFlows) + HowMany(s, SlowFlows)
    BY <1>1, HowManySets
  <2>2. HowMany(s, Flows) = Len(s)
    BY HowManySets
  <2> QED
    BY <1>1, <2>1, <2>2
<1> QED
  BY <1>1, <1>2

LEMMA FastpassGroupDid ==
  ASSUME NEW e \in Counters, NEW s \in Seq(Flows), rules \in [Flows -> 0..3 \union {None}]
  PROVE  <<e, FastpassGroup(e, s), s>> \in DidRel(FastpassJob)
<1> DEFINE w == FastpassJob
<1>0. PICK q \in Seq(Flows) : q = Only(s, SlowFlows) /\ Len(q) = HowMany(s, SlowFlows)
                              /\ \A G \in SUBSET Flows : HowMany(q, G) = HowMany(s, G \intersect SlowFlows)
  <2>1. /\ Only(s, SlowFlows) \in Seq(Flows) /\ Len(Only(s, SlowFlows)) = HowMany(s, SlowFlows)
        /\ \A G \in SUBSET Flows : HowMany(Only(s, SlowFlows), G) = HowMany(s, G \intersect SlowFlows)
    BY OnlyCounts, FastAndSlow
  <2> QED
    BY <2>1
<1>1. PICK r1 \in Counters : r1 = FoldLeft(SumOne, e, s) /\ Summed(e, r1, s)
  <2>1. <<e, FoldLeft(SumOne, e, s), s>> \in SummedRel
    BY SumSums
  <2> QED
    BY <2>1 DEF SummedRel
<1>2. PICK r2 \in Counters : r2 = FoldLeft(RouteOne, r1, q) /\ Routed(r1, r2, q)
  <2>1. <<r1, FoldLeft(RouteOne, r1, q), q>> \in RoutedRel
    BY RouteRoutes
  <2> QED
    BY <2>1 DEF RoutedRel
<1>3. PICK t \in Tables : t = CountGroup(r2.tbl, q) /\ Measured(r2.tbl, t, q)
  <2>1. r2.tbl \in Tables
    BY TablesAre
  <2>2. <<r2.tbl, CountGroup(r2.tbl, q), q>> \in MeasuredRel
    BY <2>1, CountGroupMeasures
  <2> QED
    BY <2>2 DEF MeasuredRel
<1>4. PICK c \in Nat, d \in Nat :
        c = HowMany(s, FastFlows) /\ d = Len(q) /\ d = HowMany(s, SlowFlows) /\ Len(s) = c + d
  BY <1>0, FastAndSlow, HowManyType
<1> DEFINE r == [r2 EXCEPT !.tbl = t, !.slow = @ + d, !.fast = @ + c]
<1>5. r2.fast = e.fast /\ r2.slow = e.slow /\ r2.fast \in Nat /\ r2.slow \in Nat
  BY <1>1, <1>2, EntriesAre DEF Routed, Summed
<1>6. FastpassGroup(e, s) = r
  <2>1. r2.fast + Len(s) - Len(q) = r2.fast + c
    <3>1. Len(s) = c + d /\ Len(q) = d
      BY <1>4
    <3>2. PICK a \in Nat : a = r2.fast
      BY <1>5
    <3>3. a + (c + d) - d = a + c
      OBVIOUS
    <3> QED
      BY <3>1, <3>2, <3>3
  <2>2. FastpassGroup(e, s) = [r2 EXCEPT !.tbl = t, !.slow = r2.slow + Len(q), !.fast = r2.fast + Len(s) - Len(q)]
    BY <1>0, <1>1, <1>2, <1>3, SMTT(30) DEF FastpassGroup
  <2> QED
    BY <1>4, <2>1, <2>2
<1>7. /\ r \in Counters /\ r.tbl = t /\ r.hits = r2.hits /\ r.sum = r2.sum
      /\ r.fast = r2.fast + c /\ r.slow = r2.slow + d
  <2>1. r2.fast + c \in Nat /\ r2.slow + d \in Nat
    BY <1>5
  <2> QED
    BY <2>1 DEF Counters, Tables
<1>8. w.counted = SlowFlows /\ w.routed = Ruled \intersect SlowFlows /\ w.sums /\ w.fast = FastFlows /\ w.slow = SlowFlows
  BY DEF Job, FastpassJob
<1> HIDE DEF r, w
<1>9. \A b \in Buckets : r.tbl[b] = (e.tbl[b] + HowMany(s, Of(b) \intersect SlowFlows)) % Wrap
  <2>1. \A b \in Buckets : HowMany(q, Of(b)) = HowMany(s, Of(b) \intersect SlowFlows)
    BY <1>0 DEF Of
  <2> QED
    BY <1>1, <1>2, <1>3, <1>7, <2>1 DEF Measured, Routed, Summed
<1>10. \A f \in Flows : r.hits[f] = (e.hits[f] + HowMany(s, {f} \intersect (Ruled \intersect SlowFlows))) % Wrap
  <2>1. ASSUME NEW f \in Flows
        PROVE  HowMany(q, {f} \intersect Ruled) = HowMany(s, {f} \intersect (Ruled \intersect SlowFlows))
    <3>1. ({f} \intersect Ruled) \intersect SlowFlows = {f} \intersect (Ruled \intersect SlowFlows)
      OBVIOUS
    <3>2. {f} \intersect Ruled \in SUBSET Flows
      OBVIOUS
    <3> QED
      BY <1>0, <3>1, <3>2
  <2> QED
    BY <1>1, <1>2, <1>7, <2>1 DEF Routed, Summed
<1>11. r.sum = e.sum + Weighed(s)
  BY <1>1, <1>2, <1>7 DEF Routed, Summed
<1>12. Did(w, e, r, s)
  BY <1>4, <1>5, <1>7, <1>8, <1>9, <1>10, <1>11 DEF Did
<1>13. <<e, r, s>> \in DidRel(w)
  BY <1>7, <1>12 DEF DidRel
<1> QED
  BY <1>6, <1>13 DEF r, w

LEMMA MergedFold ==
  ASSUME NEW t \in Counters, NEW s \in Seq(Seq(Flows)),
         rules \in [Flows -> 0..3 \union {None}]
  PROVE  Folded(FoldLeft(MergedGroup, t, s), Len(s), t, s, [p \in Counters \X Seq(Flows) |-> MergedGroup(p[1], p[2])], Counters)
<1> DEFINE g == [p \in Counters \X Seq(Flows) |-> MergedGroup(p[1], p[2])]
           Is(c) == c = [S \in SUBSET (DOMAIN s) |->
                           IF S = {} THEN t ELSE MergedGroup(c[S \ {Max(S)}], s[Max(S)])]
           c == CHOOSE x : Is(x)
<1>1. g \in [Counters \X Seq(Flows) -> Counters] /\ \A x \in Counters : \A y \in Seq(Flows) : g[<<x, y>>] = MergedGroup(x, y)
  BY MergedGroupDid DEF DidRel
<1>2. Len(s) \in Nat /\ DOMAIN s = 1..Len(s) /\ \A k \in 1..Len(s) : s[k] \in Seq(Flows)
  OBVIOUS
<1>3. FoldLeft(MergedGroup, t, s) = c[1..Len(s)]
  BY <1>2 DEF FoldLeft, MapThenFoldSet
<1> HIDE DEF g
<1>4. Foldable(Counters, Seq(Flows), g, t, Len(s), s)
  BY <1>1, <1>2 DEF Foldable
<1>5. (\A S \in SUBSET (1..Len(s)) : S # {} => Max(S) \in S) /\ Foldings(Len(s), t, s, g, Counters)
  <2> HIDE DEF c
  <2> QED
    BY <1>2, <1>4, FoldExists
<1>6. \E x : Is(x)
  <2>1. PICK x : Folding(x, Len(s), t, s, g) /\ \A S \in SUBSET (1..Len(s)) : x[S] \in Counters
    BY <1>5 DEF Foldings
  <2>2. ASSUME NEW S \in SUBSET (1..Len(s)), S # {}
        PROVE  g[<<x[S \ {Max(S)}], s[Max(S)]>>] = MergedGroup(x[S \ {Max(S)}], s[Max(S)])
    BY <1>1, <1>2, <1>5, <2>1, <2>2
  <2>3. Is(x)
    BY <1>2, <2>1, <2>2 DEF Folding
  <2> QED
    BY <2>3
<1>7. Is(c)
  BY <1>6
<1> HIDE DEF c
<1>8. c[{}] = t /\ \A S \in SUBSET (1..Len(s)) : S # {} => c[S] = MergedGroup(c[S \ {Max(S)}], s[Max(S)])
  BY <1>2, <1>7
<1>9. ASSUME NEW S \in SUBSET (1..Len(s)), S # {}, c[S \ {Max(S)}] \in Counters
      PROVE  c[S] = g[<<c[S \ {Max(S)}], s[Max(S)]>>]
  BY <1>1, <1>2, <1>5, <1>8, <1>9
<1>10. Folded(c[1..Len(s)], Len(s), t, s, g, Counters)
  BY <1>2, <1>4, <1>8, <1>9, FoldTurns
<1> QED
  BY <1>3, <1>10 DEF g

LEMMA FastpassFold ==
  ASSUME NEW t \in Counters, NEW s \in Seq(Seq(Flows)),
         rules \in [Flows -> 0..3 \union {None}]
  PROVE  Folded(FoldLeft(FastpassGroup, t, s), Len(s), t, s, [p \in Counters \X Seq(Flows) |-> FastpassGroup(p[1], p[2])], Counters)
<1> DEFINE g == [p \in Counters \X Seq(Flows) |-> FastpassGroup(p[1], p[2])]
           Is(c) == c = [S \in SUBSET (DOMAIN s) |->
                           IF S = {} THEN t ELSE FastpassGroup(c[S \ {Max(S)}], s[Max(S)])]
           c == CHOOSE x : Is(x)
<1>1. g \in [Counters \X Seq(Flows) -> Counters] /\ \A x \in Counters : \A y \in Seq(Flows) : g[<<x, y>>] = FastpassGroup(x, y)
  BY FastpassGroupDid DEF DidRel
<1>2. Len(s) \in Nat /\ DOMAIN s = 1..Len(s) /\ \A k \in 1..Len(s) : s[k] \in Seq(Flows)
  OBVIOUS
<1>3. FoldLeft(FastpassGroup, t, s) = c[1..Len(s)]
  BY <1>2 DEF FoldLeft, MapThenFoldSet
<1> HIDE DEF g
<1>4. Foldable(Counters, Seq(Flows), g, t, Len(s), s)
  BY <1>1, <1>2 DEF Foldable
<1>5. (\A S \in SUBSET (1..Len(s)) : S # {} => Max(S) \in S) /\ Foldings(Len(s), t, s, g, Counters)
  <2> HIDE DEF c
  <2> QED
    BY <1>2, <1>4, FoldExists
<1>6. \E x : Is(x)
  <2>1. PICK x : Folding(x, Len(s), t, s, g) /\ \A S \in SUBSET (1..Len(s)) : x[S] \in Counters
    BY <1>5 DEF Foldings
  <2>2. ASSUME NEW S \in SUBSET (1..Len(s)), S # {}
        PROVE  g[<<x[S \ {Max(S)}], s[Max(S)]>>] = FastpassGroup(x[S \ {Max(S)}], s[Max(S)])
    BY <1>1, <1>2, <1>5, <2>1, <2>2
  <2>3. Is(x)
    BY <1>2, <2>1, <2>2 DEF Folding
  <2> QED
    BY <2>3
<1>7. Is(c)
  BY <1>6
<1> HIDE DEF c
<1>8. c[{}] = t /\ \A S \in SUBSET (1..Len(s)) : S # {} => c[S] = FastpassGroup(c[S \ {Max(S)}], s[Max(S)])
  BY <1>2, <1>7
<1>9. ASSUME NEW S \in SUBSET (1..Len(s)), S # {}, c[S \ {Max(S)}] \in Counters
      PROVE  c[S] = g[<<c[S \ {Max(S)}], s[Max(S)]>>]
  BY <1>1, <1>2, <1>5, <1>8, <1>9
<1>10. Folded(c[1..Len(s)], Len(s), t, s, g, Counters)
  BY <1>2, <1>4, <1>8, <1>9, FoldTurns
<1> QED
  BY <1>3, <1>10 DEF g

(* However a batch is cut into groups, the same work is done.              *)
LEMMA GroupsDid ==
  ASSUME NEW e \in Counters, NEW s \in Seq(Flows), NEW half \in Nat \ {0}, NEW r, NEW w \in Jobs,
         NEW g, \A x \in Counters : \A q \in Seq(Flows) : <<x, g[<<x, q>>], q>> \in DidRel(w),
         NEW v, v = Groups(s, half), Folded(r, Len(v), e, v, g, Counters)
  PROVE  <<e, r, s>> \in DidRel(w)
<1>1. PICK n \in Nat : n = Len(s)
  OBVIOUS
<1> DEFINE E == Ends(n, half)
           N == Len(v)
<1>2. v \in Seq(Seq(Flows)) /\ N \in Nat /\ Cut(E, N, s) /\ \A k \in 1..N : v[k] = SubSeq(s, E[k - 1] + 1, E[k])
  <2>1. v \in Seq(Seq(Flows))
    BY <1>1, GroupsAre
  <2>2. N = Turning(n, half) + 1
    BY <1>1, GroupsAre
  <2>3. Turning(n, half) + 1 \in Nat
    BY <2>1, <2>2
  <2>4. Cut(E, Turning(n, half) + 1, s)
    BY <1>1, GroupsAre
  <2>5. \A k \in 1..(Turning(n, half) + 1) : v[k] = SubSeq(s, E[k - 1] + 1, E[k])
    BY <1>1, GroupsAre
  <2> QED
    BY <2>1, <2>2, <2>3, <2>4, <2>5
<1> HIDE DEF E
<1>3. Makes(DidRel(w), Counters, N, v, g, E, s)
  <2>1. \A k \in 1..N : v[k] \in Seq(Flows)
    BY <1>2, ElementOfSeq
  <2> QED
    BY <1>2, <2>1 DEF Makes
<1>4. Hands(DidRel(w), Counters)
  BY DidHands
<1> HIDE DEF N
<1> QED
  BY <1>2, <1>3, <1>4, FoldHands DEF N

----------------------------------------------------------------------------
(* What each element makes of a batch.                                     *)

TypedRules == rules \in [Flows -> 0..3 \union {None}]

JobOf ==
  IF kind \in Measurements THEN Job(Flows, {}, FALSE, {}, {})
  ELSE IF kind \in Routings THEN Job({}, Ruled, FALSE, {}, {})
  ELSE IF kind \in Checksums THEN Job({}, {}, TRUE, {}, {})
  ELSE IF kind \in {"merged", "merged_opt"} THEN MergedJob
  ELSE IF kind = "merged_fastpass" THEN FastpassJob
  ELSE Job({}, {}, FALSE, {}, {})

(* Where the entry that is found sends a packet.                           *)
PortOf(f) == IF rules[f] = None THEN 0 ELSE rules[f]

(* A batch that leaves as it came.                                         *)
SentOn(r, port, pkts) == r.sent = << [port |-> port, pkts |-> pkts] >>

LEMMA ResultIs ==
  ASSUME NEW e, NEW port, NEW pkts
  PROVE  Result(e, port, pkts).el = e /\ SentOn(Result(e, port, pkts), port, pkts)
BY DEF Result, SentOn

LEMMA SingleIs ==
  ASSUME NEW s \in Seq(Flows), Len(s) = 1
  PROVE  s[1] \in Flows /\ s = <<s[1]>>
<1>1. s[1] \in Flows
  BY ElementOfSeq
<1> QED
  BY <1>1

LEMMA MeasurementDid ==
  ASSUME NEW e \in Counters, NEW pkts \in Seq(Flows), kind \in Measurements,
         kind \in Naives => Len(pkts) = 1
  PROVE  /\ <<e, Processed(e, pkts).el, pkts>> \in DidRel(Job(Flows, {}, FALSE, {}, {}))
         /\ SentOn(Processed(e, pkts), 0, pkts)
<1>0. e.tbl \in Tables
  BY TablesAre
<1>1. SUFFICES \E t : /\ <<e.tbl, t, pkts>> \in MeasuredRel
                      /\ Processed(e, pkts) = Result([e EXCEPT !.tbl = t], 0, pkts)
  <2>1. PICK t : /\ <<e.tbl, t, pkts>> \in MeasuredRel
                 /\ Processed(e, pkts) = Result([e EXCEPT !.tbl = t], 0, pkts)
    BY <1>1
  <2>2. <<e, [e EXCEPT !.tbl = t], pkts>> \in DidRel(Job(Flows, {}, FALSE, {}, {}))
    BY <2>1, DidMeasure
  <2> DEFINE r == [e EXCEPT !.tbl = t]
  <2>3. Processed(e, pkts) = Result(r, 0, pkts) /\ <<e, r, pkts>> \in DidRel(Job(Flows, {}, FALSE, {}, {}))
    BY <2>1, <2>2
  <2> HIDE DEF r
  <2>4. Processed(e, pkts).el = r /\ SentOn(Processed(e, pkts), 0, pkts)
    BY <2>3, ResultIs
  <2> QED
    BY <2>3, <2>4
<1>2. CASE kind = "naive_measurement"
  <2>1. pkts[1] \in Flows /\ pkts = <<pkts[1]>>
    BY <1>2, SingleIs DEF Naives
  <2>2. Processed(e, pkts) = Result([e EXCEPT !.tbl = BumpFlow(e.tbl, pkts[1])], 0, <<pkts[1]>>)
    BY <1>2 DEF Processed, naive_measurement_process
  <2>3. <<e.tbl, BumpFlow(e.tbl, pkts[1]), <<pkts[1]>> >> \in MeasuredRel
    BY <1>0, <2>1, BumpFlowMeasured
  <2> QED
    BY <2>1, <2>2, <2>3
<1>3. CASE kind \in {"batching_measurement", "measurement_no_prefetching"}
  <2>1. Processed(e, pkts) = Result([e EXCEPT !.tbl = FoldLeft(BumpFlow, e.tbl, pkts)], 0, pkts)
    BY <1>3 DEF Processed, batching_measurement_process, measurement_process_no_prefetching
  <2> QED
    BY <1>0, <2>1, BumpFlowMeasures
<1>4. CASE kind \in {"bp_measurement", "bpp_measurement"}
  <2> DEFINE v == [i \in 1..Len(pkts) |-> Bucket(pkts[i])]
  <2>1. Processed(e, pkts) = Result([e EXCEPT !.tbl = FoldLeft(Bump, e.tbl, v)], 0, pkts)
    BY <1>4 DEF Processed, bp_measurement_process, bpp_measurement_process
  <2>2. <<e.tbl, FoldLeft(Bump, e.tbl, v), pkts>> \in MeasuredRel
    BY <1>0, BumpMeasures
  <2> QED
    BY <2>1, <2>2
<1>5. CASE kind = "measurement"
  <2>1. Processed(e, pkts) = Result([e EXCEPT !.tbl = FoldLeft(CountGroup, e.tbl, Groups(pkts, Half))], 0, pkts)
    BY <1>5 DEF Processed, measurement_process_prefetching
  <2>2. <<e.tbl, FoldLeft(CountGroup, e.tbl, Groups(pkts, Half)), pkts>> \in MeasuredRel
    BY <1>0, CountGroupsMeasure, ElementsAssumption
  <2> QED
    BY <2>1, <2>2
<1> QED
  BY <1>2, <1>3, <1>4, <1>5 DEF Measurements

(* The packets whose rule names port 1, and those that go farther.         *)
PortOne == {f \in Flows : PortOf(f) = 1}
PortFar == {f \in Flows : PortOf(f) > 1}

(* y is x with the ports of the packets of s added, as far as it matters.  *)
PortsGrow(x, y, s) ==
  /\ y >= x + HowMany(s, PortOne) + 2 * HowMany(s, PortFar)
  /\ HowMany(s, PortFar) = 0 => y = x + HowMany(s, PortOne)

PortsRel == {x \in Counters \X Counters \X Seq(Flows) : PortsGrow(x[1].ports, x[2].ports, x[3])}

LEMMA PortsHands == Hands(PortsRel, Counters)
<1>0. PortOne \in SUBSET Flows /\ PortFar \in SUBSET Flows
  BY DEF PortOne, PortFar
<1>1. ASSUME NEW e \in Counters PROVE <<e, e, <<>> >> \in PortsRel
  <2>1. e.ports \in Nat /\ <<>> \in Seq(Flows) /\ HowMany(<<>>, PortOne) = 0 /\ HowMany(<<>>, PortFar) = 0
    BY EntriesAre, NoneJoined
  <2>2. PortsGrow(e.ports, e.ports, <<>>)
    BY <2>1 DEF PortsGrow
  <2> QED
    BY <2>1, <2>2 DEF PortsRel
<1>2. ASSUME NEW x \in Counters, NEW y \in Counters, NEW z \in Counters,
             NEW s \in Seq(Flows), NEW t \in Seq(Flows), NEW u \in Seq(Flows),
             <<x, y, s>> \in PortsRel, <<y, z, t>> \in PortsRel, Joined(s, t, u)
      PROVE  <<x, z, u>> \in PortsRel
  <2>1. PortsGrow(x.ports, y.ports, s) /\ PortsGrow(y.ports, z.ports, t)
    BY <1>2 DEF PortsRel
  <2>2. x.ports \in Nat /\ y.ports \in Nat /\ z.ports \in Nat
    BY EntriesAre
  <2>3. PICK a \in Nat, b \in Nat, c \in Nat, d \in Nat :
          a = HowMany(s, PortOne) /\ b = HowMany(t, PortOne) /\ c = HowMany(s, PortFar) /\ d = HowMany(t, PortFar)
    BY HowManyType
  <2>4. HowMany(u, PortOne) = a + b /\ HowMany(u, PortFar) = c + d
    BY <1>0, <1>2, <2>3 DEF Joined
  <2>5. PICK k \in Nat, l \in Nat, m \in Nat : k = x.ports /\ l = y.ports /\ m = z.ports
    BY <2>2
  <2>6. /\ l >= k + a + 2 * c /\ (c = 0 => l = k + a)
        /\ m >= l + b + 2 * d /\ (d = 0 => m = l + b)
    BY <2>1, <2>3, <2>5 DEF PortsGrow
  <2>7. m >= k + (a + b) + 2 * (c + d) /\ (c + d = 0 => m = k + (a + b))
    BY <2>6
  <2>8. PortsGrow(x.ports, z.ports, u)
    BY <2>4, <2>5, <2>7 DEF PortsGrow
  <2> QED
    BY <2>8 DEF PortsRel
<1> QED
  BY <1>1, <1>2 DEF Hands

LEMMA RouteOnePorts ==
  ASSUME NEW e \in Counters, NEW f \in Flows, TypedRules
  PROVE  <<e, RouteOne(e, f), <<f>> >> \in PortsRel
<1>1. PICK r \in Counters : r = RouteOne(e, f) /\ r.ports = IF rules[f] = None THEN e.ports ELSE e.ports + rules[f]
  BY RouteOneIs DEF TypedRules
<1>2. PortOf(f) \in Nat /\ r.ports = e.ports + PortOf(f) /\ e.ports \in Nat
  <2>1. e.ports \in Nat /\ (rules[f] # None => rules[f] \in Nat)
    BY EntriesAre DEF TypedRules
  <2> QED
    BY <1>1, <2>1 DEF PortOf
<1>3. /\ <<f>> \in Seq(Flows)
      /\ HowMany(<<f>>, PortOne) = IF PortOf(f) = 1 THEN 1 ELSE 0
      /\ HowMany(<<f>>, PortFar) = IF PortOf(f) > 1 THEN 1 ELSE 0
  BY HowManyOne DEF PortOne, PortFar
<1>4. PortsGrow(e.ports, r.ports, <<f>>)
  BY <1>2, <1>3 DEF PortsGrow
<1> QED
  BY <1>1, <1>3, <1>4 DEF PortsRel

LEMMA PortsSummed ==
  ASSUME NEW e \in Counters, NEW s \in Seq(Flows), TypedRules
  PROVE  PortsGrow(e.ports, FoldLeft(RouteOne, e, s).ports, s)
<1> DEFINE g == [p \in Counters \X Flows |-> RouteOne(p[1], p[2])]
<1>1. Folded(FoldLeft(RouteOne, e, s), Len(s), e, s, g, Counters)
  BY RouteFold DEF TypedRules
<1>2. Each(PortsRel, Counters, g, s, s)
  <2> SUFFICES ASSUME NEW k \in 1..Len(s), NEW x \in Counters
               PROVE  <<x, g[<<x, s[k]>>], <<s[k]>> >> \in PortsRel
    BY DEF Each
  <2>1. PICK f \in Flows : f = s[k]
    BY ElementOfSeq
  <2>2. g[<<x, f>>] = RouteOne(x, f)
    OBVIOUS
  <2> HIDE DEF g
  <2> QED
    BY <2>1, <2>2, RouteOnePorts
<1> HIDE DEF g
<1>3. <<e, FoldLeft(RouteOne, e, s), s>> \in PortsRel
  BY <1>1, <1>2, PortsHands, FoldEach
<1> QED
  BY <1>3 DEF PortsRel

(* port_count in the end.                                                  *)
LEMMA PortsAre ==
  ASSUME NEW e \in Counters, NEW pkts \in Seq(Flows), TypedRules, e.ports = 0
  PROVE  LET r == FoldLeft(RouteOne, e, pkts) IN
         /\ r \in Counters /\ Routed(e, r, pkts) /\ r.ports \in Nat
         /\ Len(pkts) = 1 => r.ports = PortOf(pkts[1])
         /\ PortsGrow(0, r.ports, pkts)
<1> DEFINE r == FoldLeft(RouteOne, e, pkts)
           g == [p \in Counters \X Flows |-> RouteOne(p[1], p[2])]
<1>1. <<e, r, pkts>> \in RoutedRel
  BY RouteRoutes DEF TypedRules
<1>2. r \in Counters /\ Routed(e, r, pkts) /\ r.ports \in Nat
  BY <1>1, EntriesAre DEF RoutedRel
<1>3. Folded(r, Len(pkts), e, pkts, g, Counters)
  BY RouteFold DEF TypedRules
<1>4. \A x \in Counters : \A f \in Flows :
        /\ g[<<x, f>>] \in Counters
        /\ g[<<x, f>>].ports = IF rules[f] = None THEN x.ports ELSE x.ports + rules[f]
  <2>1. \A x \in Counters : \A f \in Flows : g[<<x, f>>] = RouteOne(x, f)
    OBVIOUS
  <2> HIDE DEF g
  <2>2. ASSUME NEW x \in Counters, NEW f \in Flows
        PROVE  /\ RouteOne(x, f) \in Counters
               /\ RouteOne(x, f).ports = IF rules[f] = None THEN x.ports ELSE x.ports + rules[f]
    BY RouteOneIs DEF TypedRules
  <2> QED
    BY <2>1, <2>2
<1> HIDE DEF r, g
<1>5. ASSUME Len(pkts) = 1 PROVE r.ports = PortOf(pkts[1])
  <2>1. r = g[<<e, pkts[1]>>]
    BY <1>3, <1>5, FoldedOne
  <2>2. pkts[1] \in Flows
    BY <1>5, SingleIs
  <2>3. r.ports = IF rules[pkts[1]] = None THEN e.ports ELSE e.ports + rules[pkts[1]]
    BY <1>4, <2>1, <2>2
  <2>4. rules[pkts[1]] # None => rules[pkts[1]] \in Nat
    BY <2>2 DEF TypedRules
  <2> QED
    BY <2>3, <2>4 DEF PortOf
<1>6. PortsGrow(0, r.ports, pkts)
  BY PortsSummed DEF r
<1> QED
  BY <1>2, <1>5, <1>6 DEF r

LEMMA RoutingDid ==
  ASSUME NEW e \in Counters, NEW pkts \in Seq(Flows), kind \in Routings, TypedRules,
         kind \in Naives => Len(pkts) = 1
  PROVE  /\ <<e, Processed(e, pkts).el, pkts>> \in DidRel(Job({}, Ruled, FALSE, {}, {}))
         /\ \E port \in Nat :
              /\ SentOn(Processed(e, pkts), port, pkts)
              /\ Len(pkts) = 1 => port = PortOf(pkts[1])
              /\ PortsGrow(0, port, pkts)
<1>1. Processed(e, pkts) = RouteBatch(e, pkts)
  <2>1. CASE kind = "naive_routing"
    <3>1. pkts = <<pkts[1]>>
      BY <2>1, SingleIs DEF Naives
    <3>2. Processed(e, pkts) = RouteBatch(e, <<pkts[1]>>)
      BY <2>1 DEF Processed, naive_routing_process
    <3> QED
      BY <3>1, <3>2
  <2>2. CASE kind # "naive_routing"
    BY <2>2 DEF Routings, Processed, batching_routing_process, bp_routing_process, bpp_routing_process, routing_process
  <2> QED
    BY <2>1, <2>2
<1> DEFINE e0 == [e EXCEPT !.ports = 0]
           r == FoldLeft(RouteOne, e0, pkts)
           e1 == [r EXCEPT !.ports = 0]
<1>2. /\ e0 \in Counters /\ e0.ports = 0 /\ e0.tbl = e.tbl /\ e0.hits = e.hits /\ e0.sum = e.sum
      /\ e0.fast = e.fast /\ e0.slow = e.slow
  BY DEF Counters
<1>3. Processed(e, pkts) = Result(e1, r.ports, pkts)
  BY <1>1 DEF RouteBatch
<1> HIDE DEF e0
<1>4. /\ r \in Counters /\ Routed(e0, r, pkts) /\ r.ports \in Nat
      /\ Len(pkts) = 1 => r.ports = PortOf(pkts[1])
      /\ PortsGrow(0, r.ports, pkts)
  BY <1>2, PortsAre
<1> HIDE DEF r
<1>5. /\ e1 \in Counters /\ e1.tbl = r.tbl /\ e1.hits = r.hits /\ e1.sum = r.sum
      /\ e1.fast = r.fast /\ e1.slow = r.slow
  BY <1>4 DEF Counters
<1> HIDE DEF e1
<1>6. Routed(e, e1, pkts)
  BY <1>2, <1>4, <1>5 DEF Routed
<1>7. <<e, e1, pkts>> \in DidRel(Job({}, Ruled, FALSE, {}, {}))
  BY <1>5, <1>6, DidRoute
<1>8. Processed(e, pkts).el = e1 /\ SentOn(Processed(e, pkts), r.ports, pkts)
  BY <1>3, ResultIs
<1> QED
  BY <1>4, <1>7, <1>8

LEMMA ChecksumDid ==
  ASSUME NEW e \in Counters, NEW pkts \in Seq(Flows), kind \in Checksums,
         kind \in Naives => Len(pkts) = 1
  PROVE  /\ <<e, Processed(e, pkts).el, pkts>> \in DidRel(Job({}, {}, TRUE, {}, {}))
         /\ SentOn(Processed(e, pkts), 0, pkts)
<1>1. PICK r \in Counters : Summed(e, r, pkts) /\ Processed(e, pkts) = Result(r, 0, pkts)
  <2>1. CASE kind = "naive_checksum"
    <3>1. pkts[1] \in Flows /\ pkts = <<pkts[1]>>
      BY <2>1, SingleIs DEF Naives
    <3>2. Processed(e, pkts) = Result(SumOne(e, pkts[1]), 0, <<pkts[1]>>)
      BY <2>1 DEF Processed, naive_checksum_process
    <3>3. SumOne(e, pkts[1]) \in Counters
      BY <3>1, SumOneIs
    <3>4. Summed(e, SumOne(e, pkts[1]), <<pkts[1]>>)
      BY <3>1, SumOneSums
    <3> QED
      BY <3>1, <3>2, <3>3, <3>4
  <2>2. CASE kind # "naive_checksum"
    <3>1. Processed(e, pkts) = Result(FoldLeft(SumOne, e, pkts), 0, pkts)
      BY <2>2 DEF Checksums, Processed, batching_checksum_process, bp_checksum_process, bpp_checksum_process, checksum_process
    <3>2. <<e, FoldLeft(SumOne, e, pkts), pkts>> \in SummedRel
      BY SumSums
    <3> QED
      BY <3>1, <3>2 DEF SummedRel
  <2> QED
    BY <2>1, <2>2
<1>2. <<e, r, pkts>> \in DidRel(Job({}, {}, TRUE, {}, {}))
  BY <1>1, DidSum
<1>3. Processed(e, pkts).el = r /\ SentOn(Processed(e, pkts), 0, pkts)
  BY <1>1, ResultIs
<1> QED
  BY <1>2, <1>3

LEMMA MergedDid ==
  ASSUME NEW e \in Counters, NEW pkts \in Seq(Flows), kind \in Mergeds, TypedRules
  PROVE  /\ <<e, Processed(e, pkts).el, pkts>> \in DidRel(IF kind = "merged_fastpass" THEN FastpassJob ELSE MergedJob)
         /\ SentOn(Processed(e, pkts), 0, pkts)
<1>0. MergedJob \in Jobs /\ FastpassJob \in Jobs
  <2>1. Ruled \in SUBSET Flows /\ Ruled \intersect SlowFlows \in SUBSET Flows
    BY DEF Ruled
  <2>2. MergedJob \in Jobs
    BY <2>1, JobIs DEF MergedJob
  <2>3. FastpassJob \in Jobs
    BY <2>1, FastAndSlow, JobIs DEF FastpassJob
  <2> QED
    BY <2>2, <2>3
<1>1. CASE kind = "merged_fastpass"
  <2> DEFINE v == Groups(pkts, Half)
             r == FoldLeft(FastpassGroup, e, v)
             g == [p \in Counters \X Seq(Flows) |-> FastpassGroup(p[1], p[2])]
  <2>1. Processed(e, pkts) = Result(r, 0, pkts)
    BY <1>1 DEF Processed, merged_fastpass_process
  <2>2. Half \in Nat \ {0} /\ v \in Seq(Seq(Flows))
    BY ElementsAssumption, GroupsAre
  <2>3. Folded(r, Len(v), e, v, g, Counters)
    BY <2>2, FastpassFold DEF TypedRules
  <2>4. \A x \in Counters : \A q \in Seq(Flows) : <<x, g[<<x, q>>], q>> \in DidRel(FastpassJob)
    <3>1. \A x \in Counters : \A q \in Seq(Flows) : g[<<x, q>>] = FastpassGroup(x, q)
      OBVIOUS
    <3> HIDE DEF g
    <3> QED
      BY <3>1, FastpassGroupDid DEF TypedRules
  <2>5. <<e, r, pkts>> \in DidRel(FastpassJob)
    <3> HIDE DEF g, r
    <3> QED
      BY <1>0, <2>2, <2>3, <2>4, GroupsDid
  <2> HIDE DEF r
  <2> QED
    BY <1>1, <2>1, <2>5, ResultIs
<1>2. ASSUME NEW half \in Nat \ {0}, kind # "merged_fastpass",
             Processed(e, pkts) = Result(FoldLeft(MergedGroup, e, Groups(pkts, half)), 0, pkts)
      PROVE  /\ <<e, Processed(e, pkts).el, pkts>> \in DidRel(MergedJob)
             /\ SentOn(Processed(e, pkts), 0, pkts)
  <2> DEFINE v == Groups(pkts, half)
             r == FoldLeft(MergedGroup, e, v)
             g == [p \in Counters \X Seq(Flows) |-> MergedGroup(p[1], p[2])]
  <2>2. v \in Seq(Seq(Flows))
    BY GroupsAre
  <2>3. Folded(r, Len(v), e, v, g, Counters)
    BY <2>2, MergedFold DEF TypedRules
  <2>4. \A x \in Counters : \A q \in Seq(Flows) : <<x, g[<<x, q>>], q>> \in DidRel(MergedJob)
    <3>1. \A x \in Counters : \A q \in Seq(Flows) : g[<<x, q>>] = MergedGroup(x, q)
      OBVIOUS
    <3> HIDE DEF g
    <3> QED
      BY <3>1, MergedGroupDid DEF TypedRules
  <2>5. <<e, r, pkts>> \in DidRel(MergedJob)
    <3> HIDE DEF g, r
    <3> QED
      BY <1>0, <2>2, <2>3, <2>4, GroupsDid
  <2>6. Processed(e, pkts) = Result(r, 0, pkts)
    BY <1>2
  <2> HIDE DEF r
  <2> QED
    BY <2>5, <2>6, ResultIs
<1>3. CASE kind = "merged"
  <2>1. Processed(e, pkts) = Result(FoldLeft(MergedGroup, e, Groups(pkts, MergedHalf)), 0, pkts) /\ MergedHalf \in Nat \ {0}
    BY <1>3, ElementsAssumption DEF Processed, merged_process
  <2> QED
    BY <1>2, <1>3, <2>1
<1>4. CASE kind = "merged_opt"
  <2>1. Processed(e, pkts) = Result(FoldLeft(MergedGroup, e, Groups(pkts, Half)), 0, pkts) /\ Half \in Nat \ {0}
    BY <1>4, ElementsAssumption DEF Processed, merged_opt_process
  <2> QED
    BY <1>2, <1>4, <2>1
<1> QED
  BY <1>1, <1>3, <1>4 DEF Mergeds

----------------------------------------------------------------------------
(* Dispatch.                                                               *)

(* What is on a port behind what was sent there.                           *)
Dispatched(t, port, v) == FoldLeft(LAMBDA s, b : IF b.port = port THEN s \o b.pkts ELSE s, t, v)

Sends == [port : Nat, pkts : Seq(Flows)]

(* What is done on a port with what is sent.                               *)
Adding(port) ==
  [p \in Seq(Flows) \X Sends |-> IF p[2].port = port THEN p[1] \o p[2].pkts ELSE p[1]]

LEMMA DispatchFold ==
  ASSUME NEW t \in Seq(Flows), NEW s \in Seq(Sends),
         NEW port
  PROVE  Folded(Dispatched(t, port, s), Len(s), t, s, Adding(port), Seq(Flows))
<1> DEFINE g == Adding(port)
           Is(c) == c = [S \in SUBSET (DOMAIN s) |->
                           IF S = {} THEN t ELSE (IF s[Max(S)].port = port THEN c[S \ {Max(S)}] \o s[Max(S)].pkts ELSE c[S \ {Max(S)}])]
           c == CHOOSE x : Is(x)
<1>1. g \in [Seq(Flows) \X Sends -> Seq(Flows)] /\ \A x \in Seq(Flows) : \A y \in Sends : g[<<x, y>>] = IF y.port = port THEN x \o y.pkts ELSE x
  <2>1. ASSUME NEW x \in Seq(Flows), NEW y \in Sends PROVE x \o y.pkts \in Seq(Flows)
    BY ConcatProperties DEF Sends
  <2> QED
    BY <2>1 DEF Adding
<1>2. Len(s) \in Nat /\ DOMAIN s = 1..Len(s) /\ \A k \in 1..Len(s) : s[k] \in Sends
  OBVIOUS
<1>3. Dispatched(t, port, s) = c[1..Len(s)]
  BY <1>2 DEF Dispatched, FoldLeft, MapThenFoldSet
<1> HIDE DEF g
<1>4. Foldable(Seq(Flows), Sends, g, t, Len(s), s)
  BY <1>1, <1>2 DEF Foldable
<1>5. (\A S \in SUBSET (1..Len(s)) : S # {} => Max(S) \in S) /\ Foldings(Len(s), t, s, g, Seq(Flows))
  <2> HIDE DEF c
  <2> QED
    BY <1>2, <1>4, FoldExists
<1>6. \E x : Is(x)
  <2>1. PICK x : Folding(x, Len(s), t, s, g) /\ \A S \in SUBSET (1..Len(s)) : x[S] \in Seq(Flows)
    BY <1>5 DEF Foldings
  <2>2. ASSUME NEW S \in SUBSET (1..Len(s)), S # {}
        PROVE  g[<<x[S \ {Max(S)}], s[Max(S)]>>] = (IF s[Max(S)].port = port THEN x[S \ {Max(S)}] \o s[Max(S)].pkts ELSE x[S \ {Max(S)}])
    BY <1>1, <1>2, <1>5, <2>1, <2>2
  <2>3. Is(x)
    BY <1>2, <2>1, <2>2 DEF Folding
  <2> QED
    BY <2>3
<1>7. Is(c)
  BY <1>6
<1> HIDE DEF c
<1>8. c[{}] = t /\ \A S \in SUBSET (1..Len(s)) : S # {} => c[S] = (IF s[Max(S)].port = port THEN c[S \ {Max(S)}] \o s[Max(S)].pkts ELSE c[S \ {Max(S)}])
  BY <1>2, <1>7
<1>9. ASSUME NEW S \in SUBSET (1..Len(s)), S # {}, c[S \ {Max(S)}] \in Seq(Flows)
      PROVE  c[S] = g[<<c[S \ {Max(S)}], s[Max(S)]>>]
  <2>1. PICK x \in Seq(Flows), y \in Sends : x = c[S \ {Max(S)}] /\ y = s[Max(S)]
    BY <1>2, <1>5, <1>9
  <2>2. c[S] = IF y.port = port THEN x \o y.pkts ELSE x
    BY <1>8, <1>9, <2>1
  <2>3. g[<<x, y>>] = IF y.port = port THEN x \o y.pkts ELSE x
    BY <1>1
  <2> QED
    BY <2>1, <2>2, <2>3
<1>10. Folded(c[1..Len(s)], Len(s), t, s, g, Seq(Flows))
  BY <1>2, <1>4, <1>8, <1>9, FoldTurns
<1> QED
  BY <1>3, <1>10 DEF g

(* What one of them leaves.                                                *)
SentOne(t, port, p, s) ==
  Dispatched(t, port, << [port |-> p, pkts |-> s] >>) = IF p = port THEN t \o s ELSE t

LEMMA DispatchOne ==
  ASSUME NEW t \in Seq(Flows), NEW port, NEW p \in Nat, NEW s \in Seq(Flows)
  PROVE  SentOne(t, port, p, s)
<1> DEFINE y == [port |-> p, pkts |-> s]
           v == <<y>>
<1>1. y \in Sends /\ y.port = p /\ y.pkts = s
  BY DEF Sends
<1> HIDE DEF y
<1>2. v \in Seq(Sends) /\ Len(v) = 1 /\ v[1] = y
  BY <1>1
<1> HIDE DEF v
<1>3. PICK n : n = 1 /\ Folded(Dispatched(t, port, v), n, t, v, Adding(port), Seq(Flows))
  BY <1>2, DispatchFold
<1>4. Dispatched(t, port, v) = Adding(port)[<<t, y>>]
  BY <1>2, <1>3, FoldedOne
<1>5. Adding(port)[<<t, y>>] = IF p = port THEN t \o s ELSE t
  BY <1>1 DEF Adding
<1> QED
  BY <1>4, <1>5 DEF v, y, SentOne

LEMMA DispatchTwo ==
  ASSUME NEW t \in Seq(Flows), NEW s1 \in Seq(Flows), NEW s0 \in Seq(Flows)
  PROVE  LET v == << [port |-> 1, pkts |-> s1], [port |-> 0, pkts |-> s0] >> IN
         /\ Dispatched(t, 1, v) = t \o s1 /\ Dispatched(t, 0, v) = t \o s0
         /\ Dispatched(t, 2, v) = t /\ Dispatched(t, 3, v) = t
<1> DEFINE y1 == [port |-> 1, pkts |-> s1]
           y0 == [port |-> 0, pkts |-> s0]
           v == <<y1, y0>>
<1>1. y1 \in Sends /\ y1.port = 1 /\ y1.pkts = s1 /\ y0 \in Sends /\ y0.port = 0 /\ y0.pkts = s0
  BY DEF Sends
<1> HIDE DEF y1, y0
<1>2. v \in Seq(Sends) /\ Len(v) = 2 /\ v[1] = y1 /\ v[2] = y0
  BY <1>1
<1> HIDE DEF v
<1>3. ASSUME NEW port \in 0..3
      PROVE  Dispatched(t, port, v) = IF port = 1 THEN t \o s1 ELSE IF port = 0 THEN t \o s0 ELSE t
  <2>1. PICK n \in Nat : n = 2 /\ Folded(Dispatched(t, port, v), n, t, v, Adding(port), Seq(Flows))
    BY <1>2, DispatchFold
  <2>2. PICK h \in [0..n -> Seq(Flows)] :
          /\ h[0] = t /\ (\A k \in 1..n : h[k] = Adding(port)[<<h[k - 1], v[k]>>])
          /\ Dispatched(t, port, v) = h[n]
    BY <2>1 DEF Folded
  <2>3. 1 \in 1..n /\ 2 \in 1..n /\ 1 - 1 = 0 /\ 2 - 1 = 1 /\ 1 \in 0..n
    BY <2>1
  <2>4. h[1] = Adding(port)[<<t, y1>>] /\ h[2] = Adding(port)[<<h[1], y0>>] /\ h[1] \in Seq(Flows)
    BY <1>2, <2>2, <2>3
  <2>5. h[1] = IF port = 1 THEN t \o s1 ELSE t
    BY <1>1, <2>4 DEF Adding
  <2>6. h[2] = IF port = 0 THEN h[1] \o s0 ELSE h[1]
    BY <1>1, <2>4 DEF Adding
  <2> QED
    BY <2>1, <2>2, <2>5, <2>6
<1>4. Dispatched(t, 1, v) = t \o s1 /\ Dispatched(t, 0, v) = t \o s0
  BY <1>3
<1>5. Dispatched(t, 2, v) = t /\ Dispatched(t, 3, v) = t
  BY <1>3
<1> QED
  BY <1>4, <1>5 DEF v, y1, y0

(* What Batch puts on the ports.                                           *)
LEMMA BatchSends ==
  ASSUME NEW pkts, Batch(pkts)
  PROVE  LET r == Processed(el, pkts) IN
         /\ el' = r.el
         /\ IF \E k \in 1..Len(r.sent) : r.sent[k].port > 1
            THEN status' = "crashed" /\ out' = out
            ELSE status' = status /\ out' = [port \in DOMAIN out |-> Dispatched(out[port], port, r.sent)]
<1> DEFINE r == Processed(el, pkts)
<1>1. el' = r.el
  BY DEF Batch
<1>2. IF \E k \in 1..Len(r.sent) : r.sent[k].port > 1
      THEN status' = "crashed" /\ UNCHANGED out
      ELSE /\ out' = [port \in DOMAIN out |-> Dispatched(out[port], port, r.sent)]
           /\ UNCHANGED status
  BY DEF Batch, Dispatched
<1> QED
  BY <1>1, <1>2

LEMMA FastpassDid ==
  ASSUME NEW e \in Counters, NEW pkts \in Seq(Flows), kind = "fastpass"
  PROVE  /\ Processed(e, pkts).el \in Counters
         /\ Processed(e, pkts).el.sum = (e.sum + Weighed(pkts)) % Wrap
         /\ Processed(e, pkts).sent = << [port |-> 1, pkts |-> Only(pkts, FastFlows)],
                                         [port |-> 0, pkts |-> Only(pkts, SlowFlows)] >>
<1>1. PICK r \in Counters : r = FoldLeft(SumOne, e, pkts) /\ Summed(e, r, pkts)
  <2>1. <<e, FoldLeft(SumOne, e, pkts), pkts>> \in SummedRel
    BY SumSums
  <2> QED
    BY <2>1 DEF SummedRel
<1>2. PICK n \in Nat : n = Len(Only(pkts, FastFlows))
  <2>1. Only(pkts, FastFlows) \in Seq(Flows)
    BY OnlyCounts, FastAndSlow
  <2> QED
    BY <2>1
<1>3. r.fast + n \in Nat /\ r.sum \in Nat
  BY <1>2, EntriesAre
<1>4. (r.fast + n) % Wrap \in Nat /\ r.sum % Wrap \in Nat
  <2>1. ASSUME NEW a \in Nat PROVE a % Wrap \in Nat
    <3>1. Wrap \in Nat \ {0} /\ a % Wrap \in 0..(Wrap - 1)
      BY WrapIs
    <3> QED
      BY <3>1
  <2> QED
    BY <1>3, <2>1
<1>5. Processed(e, pkts) =
        [el |-> [r EXCEPT !.fast = (r.fast + n) % Wrap, !.sum = r.sum % Wrap],
         sent |-> << [port |-> 1, pkts |-> Only(pkts, FastFlows)], [port |-> 0, pkts |-> Only(pkts, SlowFlows)] >>]
  BY <1>1, <1>2 DEF Processed, fastpass_process
<1> DEFINE x == [r EXCEPT !.fast = (r.fast + n) % Wrap, !.sum = r.sum % Wrap]
<1>6. x \in Counters /\ x.sum = r.sum % Wrap
  BY <1>4 DEF Counters
<1>7. r.sum = e.sum + Weighed(pkts)
  BY <1>1 DEF Summed
<1> HIDE DEF x
<1>8. Processed(e, pkts) =
        [el |-> x,
         sent |-> << [port |-> 1, pkts |-> Only(pkts, FastFlows)], [port |-> 0, pkts |-> Only(pkts, SlowFlows)] >>]
  BY <1>5 DEF x
<1> QED
  BY <1>6, <1>7, <1>8

----------------------------------------------------------------------------
(* The count that is printed.                                              *)

LEMMA BucketsAre ==
  /\ IsFiniteSet(Buckets) /\ GePow2(TblSize) - 1 \in Buckets
  /\ MeasurementBuckets = Buckets \ {GePow2(TblSize) - 1} /\ IsFiniteSet(MeasurementBuckets)
<1>1. PICK n \in Nat : n = GePow2(TblSize) - 1
  <2>1. GePow2(TblSize) - 1 \in Nat
    BY GePow2Is
  <2> QED
    BY <2>1
<1>2. Buckets = 0..n
  BY <1>1 DEF Buckets
<1>3. MeasurementBuckets = Buckets \ {n} /\ n \in Buckets
  BY <1>1, <1>2 DEF MeasurementBuckets
<1>4. 0 \in Int /\ n \in Int
  OBVIOUS
<1>5. IsFiniteSet(0..n)
  BY <1>4, FS_Interval
<1>6. IsFiniteSet(Buckets \ {n})
  BY <1>2, <1>5, FS_Subset
<1> QED
  BY <1>1, <1>2, <1>3, <1>5, <1>6

LEMMA TableSum ==
  ASSUME NEW t \in Tables
  PROVE  /\ \E it : Adds(it, Buckets, [b \in Buckets |-> t[b]]) /\ SumOf(t, Buckets) = it[Buckets]
         /\ SumOf(t, Buckets) \in Nat /\ SumOf(t, MeasurementBuckets) \in Nat
         /\ SumOf(t, MeasurementBuckets) + t[GePow2(TblSize) - 1] = SumOf(t, Buckets)
<1>1. \A b \in Buckets : t[b] \in Nat
  BY WrapIs DEF Tables
<1>2. PICK last \in Buckets : last = GePow2(TblSize) - 1 /\ MeasurementBuckets = Buckets \ {last}
  BY BucketsAre
<1> DEFINE g == [b \in Buckets |-> t[b]]
           M == MeasurementBuckets
           g2 == [b \in M |-> t[b]]
<1>3. PICK it : Adds(it, Buckets, g) /\ SumOf(t, Buckets) = it[Buckets]
  BY <1>1, BucketsAre, SumOfAdds
<1>4. PICK it2 : Adds(it2, M, g2) /\ SumOf(t, M) = it2[M]
  <2>1. \A b \in M : t[b] \in Nat
    BY <1>1, <1>2
  <2> QED
    BY <2>1, BucketsAre, SumOfAdds
<1>5. it[M] = it2[M]
  <2>1. M \in SUBSET Buckets /\ M \in SUBSET M /\ IsFiniteSet(M) /\ \A x \in M : g[x] = g2[x]
    BY <1>2, BucketsAre
  <2> HIDE DEF g, g2, M
  <2> QED
    BY <1>3, <1>4, <2>1, SumsSame
<1>6. it[Buckets] = t[last] + it[M] /\ it[M] \in Nat /\ it[Buckets] \in Nat /\ t[last] \in Nat
  <2>1. g[last] = t[last]
    OBVIOUS
  <2>2. Buckets \in SUBSET Buckets /\ M \in SUBSET Buckets /\ Buckets \ {last} = M
    BY <1>2
  <2>3. it[Buckets] = g[last] + it[Buckets \ {last}] /\ it[M] \in Nat /\ it[Buckets] \in Nat
    BY <1>3, <2>2 DEF Adds
  <2> QED
    BY <1>1, <2>1, <2>2, <2>3
<1>7. SumOf(t, M) \in Nat /\ SumOf(t, M) + t[last] = SumOf(t, Buckets)
  BY <1>3, <1>4, <1>5, <1>6
<1> QED
  BY <1>2, <1>3, <1>6, <1>7

(* One more bucket of a table that wraps around.                           *)
OneMore(a, b, c, d, e) ==
  b % Wrap = (a + d) % Wrap => (((e + c) % Wrap) + b) % Wrap = ((e + a) + (c + d)) % Wrap

LEMMA OneMoreBucket ==
  ASSUME NEW a \in Nat, NEW b \in Nat, NEW c \in Nat, NEW d \in Nat, NEW e \in Nat
  PROVE  OneMore(a, b, c, d, e)
<1> SUFFICES ASSUME b % Wrap = (a + d) % Wrap
             PROVE  (((e + c) % Wrap) + b) % Wrap = ((e + a) + (c + d)) % Wrap
  BY DEF OneMore
<1>1. PICK x \in Nat : x = e + c
  OBVIOUS
<1>2. PICK y \in Nat : y = a + d
  OBVIOUS
<1>3. ((x % Wrap) + b) % Wrap = (x + b) % Wrap
  BY WrapIs, Wraps
<1>4. ((b % Wrap) + x) % Wrap = (b + x) % Wrap
  BY WrapIs, Wraps
<1>5. ((y % Wrap) + x) % Wrap = (y + x) % Wrap
  BY WrapIs, Wraps
<1>6. x + b = b + x /\ y + x = (e + a) + (c + d)
  BY <1>1, <1>2
<1> QED
  BY <1>1, <1>2, <1>3, <1>4, <1>5, <1>6

LEMMA TableTotal ==
  ASSUME NEW t1 \in Tables, NEW t2 \in Tables, NEW s \in Seq(Flows), Measured(t1, t2, s)
  PROVE  SumOf(t2, Buckets) % Wrap = (SumOf(t1, Buckets) + Len(s)) % Wrap
<1> DEFINE g1 == [b \in Buckets |-> t1[b]]
           g2 == [b \in Buckets |-> t2[b]]
           In(B) == {f \in Flows : Bucket(f) \in B}
<1>1. PICK i1 : Adds(i1, Buckets, g1) /\ SumOf(t1, Buckets) = i1[Buckets]
  BY TableSum
<1>2. PICK i2 : Adds(i2, Buckets, g2) /\ SumOf(t2, Buckets) = i2[Buckets]
  BY TableSum
<1>3. \A b \in Buckets : g1[b] = t1[b] /\ g2[b] = t2[b] /\ t1[b] \in Nat
  BY WrapIs DEF Tables
<1> HIDE DEF g1, g2
<1> DEFINE T == {B \in SUBSET Buckets : i2[B] % Wrap = (i1[B] + HowMany(s, In(B))) % Wrap}
<1>4. {} \in T
  <2>1. i1[{}] = 0 /\ i2[{}] = 0 /\ In({}) = {}
    BY <1>1, <1>2 DEF Adds
  <2>2. HowMany(s, {}) = 0
    BY HowManySets
  <2>3. HowMany(s, In({})) = 0
    BY <2>1, <2>2
  <2>4. i1[{}] + HowMany(s, In({})) = 0
    BY <2>1, <2>3
  <2>5. i2[{}] = i1[{}] + HowMany(s, In({}))
    BY <2>1, <2>4
  <2>6. i2[{}] % Wrap = (i1[{}] + HowMany(s, In({}))) % Wrap
    BY <2>5
  <2> QED
    BY <2>6
<1>5. ASSUME NEW B \in SUBSET Buckets, NEW x \in B, B \ {x} \in T PROVE B \in T
  <2>1. PICK A \in SUBSET Buckets : A = B \ {x} /\ i2[A] % Wrap = (i1[A] + HowMany(s, In(A))) % Wrap
    BY <1>5
  <2>2. x \in Buckets
    OBVIOUS
  <2>3. i1[B] = t1[x] + i1[A] /\ i2[B] = t2[x] + i2[A] /\ i1[A] \in Nat /\ i2[A] \in Nat
    <3>1. B \in SUBSET Buckets /\ A \in SUBSET Buckets /\ x \in B /\ A = B \ {x}
      BY <2>1
    <3>2. i1[B] = g1[x] + i1[A] /\ i1[A] \in Nat
      BY <1>1, <3>1 DEF Adds
    <3>3. i2[B] = g2[x] + i2[A] /\ i2[A] \in Nat
      BY <1>2, <3>1 DEF Adds
    <3> QED
      BY <1>3, <2>2, <3>2, <3>3
  <2>4. HowMany(s, In(B)) = HowMany(s, Of(x)) + HowMany(s, In(A))
    <3>1. In(B) = Of(x) \union In(A) /\ Of(x) \intersect In(A) = {}
      BY <2>1 DEF Of
    <3> HIDE DEF In
    <3> QED
      BY <3>1, HowManySets
  <2>5. PICK c \in Nat, d \in Nat : c = HowMany(s, Of(x)) /\ d = HowMany(s, In(A))
    BY HowManyType
  <2>6. t2[x] = (t1[x] + c) % Wrap
    BY <2>2, <2>5 DEF Measured
  <2>7. PICK a \in Nat, b \in Nat, e \in Nat : a = i1[A] /\ b = i2[A] /\ e = t1[x]
    BY <1>3, <2>2, <2>3
  <2>8. b % Wrap = (a + d) % Wrap
    BY <2>1, <2>5, <2>7
  <2>9. (((e + c) % Wrap) + b) % Wrap = ((e + a) + (c + d)) % Wrap
    <3>1. OneMore(a, b, c, d, e)
      BY OneMoreBucket
    <3> QED
      BY <2>8, <3>1 DEF OneMore
  <2>10. i2[B] % Wrap = (i1[B] + HowMany(s, In(B))) % Wrap
    <3>1. i2[B] = ((e + c) % Wrap) + b /\ i1[B] = e + a /\ HowMany(s, In(B)) = c + d
      BY <2>3, <2>4, <2>5, <2>6, <2>7
    <3> QED
      BY <2>9, <3>1
  <2> QED
    BY <2>10
<1>6. Buckets \in T
  <2> HIDE DEF T
  <2> QED
    BY <1>4, <1>5, BucketsAre, PartsInduction
<1>7. In(Buckets) = Flows
  BY BucketType
<1>8. HowMany(s, Flows) = Len(s)
  BY HowManySets
<1> QED
  BY <1>1, <1>2, <1>6, <1>7, <1>8

----------------------------------------------------------------------------
(* The invariant.                                                          *)

LEMMA JobOfIs == JobOf \in Jobs
<1>1. {} \in SUBSET Flows /\ Flows \in SUBSET Flows /\ Ruled \in SUBSET Flows
      /\ Ruled \intersect SlowFlows \in SUBSET Flows /\ FALSE \in BOOLEAN /\ TRUE \in BOOLEAN
  BY DEF Ruled
<1>2. Job(Flows, {}, FALSE, {}, {}) \in Jobs
  BY <1>1, JobIs
<1>3. Job({}, Ruled, FALSE, {}, {}) \in Jobs
  BY <1>1, JobIs
<1>4. Job({}, {}, TRUE, {}, {}) \in Jobs
  BY <1>1, JobIs
<1>5. Job({}, {}, FALSE, {}, {}) \in Jobs
  BY <1>1, JobIs
<1>6. MergedJob \in Jobs
  BY <1>1, JobIs DEF MergedJob
<1>7. FastpassJob \in Jobs
  BY <1>1, FastAndSlow, JobIs DEF FastpassJob
<1> QED
  BY <1>2, <1>3, <1>4, <1>5, <1>6, <1>7 DEF JobOf

(* The kinds are told apart.                                               *)
LEMMA KindsApart ==
  /\ kind \in Measurements => kind \notin Routings \union Checksums \union Mergeds \union Others
  /\ kind \in Routings => kind \notin Checksums \union Mergeds \union Others
  /\ kind \in Checksums => kind \notin Mergeds \union Others
  /\ kind \in Mergeds => kind \notin Others
BY DEF Measurements, Routings, Checksums, Mergeds, Others

LEMMA IdentityDid ==
  ASSUME NEW e \in Counters, NEW pkts \in Seq(Flows), kind = "identity"
  PROVE  /\ <<e, Processed(e, pkts).el, pkts>> \in DidRel(Job({}, {}, FALSE, {}, {}))
         /\ SentOn(Processed(e, pkts), 0, pkts)
<1>1. Processed(e, pkts) = Result(e, 0, pkts)
  BY DEF Processed, identity_process
<1>2. PICK w : w = Job({}, {}, FALSE, {}, {})
  OBVIOUS
<1>3. w.counted = {} /\ w.routed = {} /\ w.sums = FALSE /\ w.fast = {} /\ w.slow = {}
  BY <1>2 DEF Job
<1>4. Did(w, e, e, pkts)
  BY <1>3, LeftOut DEF Did
<1>5. <<e, e, pkts>> \in DidRel(w)
  BY <1>4 DEF DidRel
<1>6. Result(e, 0, pkts).el = e /\ SentOn(Result(e, 0, pkts), 0, pkts)
  BY ResultIs
<1> QED
  BY <1>1, <1>2, <1>5, <1>6

(* Where a batch is sent.                                                  *)
PortIs(port, pkts) ==
  /\ kind \notin Routings => port = 0
  /\ kind \in Routings /\ Len(pkts) = 1 => port = PortOf(pkts[1])
  /\ kind \in Routings => PortsGrow(0, port, pkts)

LEMMA BatchDid ==
  ASSUME NEW e \in Counters, NEW pkts \in Seq(Flows), kind \in Kinds, kind # "fastpass", TypedRules,
         kind \in Naives => Len(pkts) = 1
  PROVE  /\ <<e, Processed(e, pkts).el, pkts>> \in DidRel(JobOf)
         /\ \E port \in Nat : SentOn(Processed(e, pkts), port, pkts) /\ PortIs(port, pkts)
<1>0. kind \in Measurements \/ kind \in Routings \/ kind \in Checksums \/ kind \in Mergeds \/ kind = "identity"
  BY KindsAssumption DEF Others
<1>1. CASE kind \in Measurements
  <2>1. JobOf = Job(Flows, {}, FALSE, {}, {}) /\ kind \notin Routings
    BY <1>1, KindsApart DEF JobOf
  <2>2. /\ <<e, Processed(e, pkts).el, pkts>> \in DidRel(Job(Flows, {}, FALSE, {}, {}))
        /\ SentOn(Processed(e, pkts), 0, pkts)
    BY <1>1, MeasurementDid
  <2> QED
    BY <2>1, <2>2 DEF PortIs
<1>2. CASE kind \in Routings
  <2>1. JobOf = Job({}, Ruled, FALSE, {}, {})
    BY <1>2, KindsApart DEF JobOf
  <2>2. <<e, Processed(e, pkts).el, pkts>> \in DidRel(Job({}, Ruled, FALSE, {}, {}))
    BY <1>2, RoutingDid
  <2>3. \E port \in Nat :
          /\ SentOn(Processed(e, pkts), port, pkts)
          /\ Len(pkts) = 1 => port = PortOf(pkts[1])
          /\ PortsGrow(0, port, pkts)
    BY <1>2, RoutingDid
  <2> QED
    BY <1>2, <2>1, <2>2, <2>3 DEF PortIs
<1>3. CASE kind \in Checksums
  <2>1. JobOf = Job({}, {}, TRUE, {}, {}) /\ kind \notin Routings
    BY <1>3, KindsApart DEF JobOf
  <2>2. /\ <<e, Processed(e, pkts).el, pkts>> \in DidRel(Job({}, {}, TRUE, {}, {}))
        /\ SentOn(Processed(e, pkts), 0, pkts)
    BY <1>3, ChecksumDid
  <2> QED
    BY <2>1, <2>2 DEF PortIs
<1>4. CASE kind \in Mergeds
  <2>1. kind \notin Measurements /\ kind \notin Routings /\ kind \notin Checksums
    BY <1>4, KindsApart
  <2>2. JobOf = IF kind = "merged_fastpass" THEN FastpassJob ELSE MergedJob
    BY <1>4, <2>1 DEF JobOf, Mergeds
  <2>3. /\ <<e, Processed(e, pkts).el, pkts>> \in DidRel(IF kind = "merged_fastpass" THEN FastpassJob ELSE MergedJob)
        /\ SentOn(Processed(e, pkts), 0, pkts)
    BY <1>4, MergedDid
  <2> QED
    BY <2>1, <2>2, <2>3 DEF PortIs
<1>5. CASE kind = "identity"
  <2>1. kind \in Others
    BY <1>5 DEF Others
  <2>2. kind \notin Measurements /\ kind \notin Routings /\ kind \notin Checksums /\ kind \notin Mergeds
    BY <2>1, KindsApart
  <2>3. JobOf = Job({}, {}, FALSE, {}, {})
    BY <1>5, <2>2 DEF JobOf
  <2>4. /\ <<e, Processed(e, pkts).el, pkts>> \in DidRel(Job({}, {}, FALSE, {}, {}))
        /\ SentOn(Processed(e, pkts), 0, pkts)
    BY <1>5, IdentityDid
  <2> QED
    BY <2>2, <2>3, <2>4 DEF PortIs
<1> QED
  BY <1>0, <1>1, <1>2, <1>3, <1>4, <1>5

(* The counters when the first batch arrives.                              *)
Start == [tbl |-> base, hits |-> [f \in Flows |-> 0], ports |-> 0, sum |-> 0, fast |-> 0, slow |-> 0]

(* What an element has done is its work, on all packets that were given.   *)
WorkDone ==
  /\ kind # "fastpass" => <<Start, el, given>> \in DidRel(JobOf)
  /\ kind = "fastpass" => el.sum = Weighed(given) % Wrap

ElementsInv == TypeOK /\ base \in Tables /\ WorkDone /\ PassedOn /\ TotalReported

LEMMA StartIs ==
  ASSUME base \in Tables
  PROVE  /\ Start \in Counters /\ Start.tbl = base /\ Start.sum = 0 /\ Start.fast = 0 /\ Start.slow = 0
         /\ \A f \in Flows : Start.hits[f] = 0
<1>1. [f \in Flows |-> 0] \in [Flows -> 0..(Wrap - 1)]
  BY WrapIs
<1> QED
  BY <1>1 DEF Start, Counters, Tables

LEMMA RulesAre ==
  ASSUME rules \in RuleSets \union {NoRules}
  PROVE  TypedRules
<1>1. NoRules \in [Flows -> 0..3 \union {None}]
  BY DEF NoRules
<1> QED
  BY <1>1, ElementsAssumption DEF TypedRules

(* Nothing is picked from nothing.                                         *)
LEMMA OnlyNone == \A F \in SUBSET Flows : Only(<<>>, F) = <<>>
<1> SUFFICES ASSUME NEW F \in SUBSET Flows PROVE Only(<<>>, F) = <<>>
  OBVIOUS
<1>1. Only(<<>>, F) \in Seq(Flows) /\ Len(Only(<<>>, F)) = HowMany(<<>>, F)
  BY NoneJoined, OnlyCounts
<1>2. Len(Only(<<>>, F)) = 0
  BY <1>1, NoneJoined
<1> QED
  BY <1>1, <1>2, EmptySeq

(* What PassedOn says of each kind.                                        *)
FastpassPassed == out[0] = Only(given, SlowFlows) /\ out[1] = Only(given, FastFlows)
NaivePassed ==
  out[1] = Only(given, PortOne) /\ (status = "crashed" <=> Only(given, PortFar) # <<>>)
RoutingPassed ==
  IF status = "crashed"
  THEN Only(given, PortFar) # <<>> \/ Len(Only(given, PortOne)) > 1
  ELSE /\ Only(given, PortFar) = <<>>
       /\ Only(out[0], PortOne) = <<>> /\ Only(out[1], PortOne) = Only(given, PortOne)
       /\ Len(out[0]) + Len(out[1]) = Len(given)
       /\ Only(given, PortOne) = <<>> => out[0] = given

LEMMA PassedOnIs ==
  PassedOn <=> /\ kind = "fastpass" => FastpassPassed
               /\ kind = "naive_routing" => NaivePassed
               /\ kind \in Routings \ {"naive_routing"} => RoutingPassed
               /\ kind \notin Routings /\ kind # "fastpass" => out[0] = given
<1>1. "naive_routing" \in Routings /\ "fastpass" \notin Routings
  BY DEF Routings
<1>2. CASE kind = "fastpass"
  BY <1>1, <1>2 DEF PassedOn, FastpassPassed
<1>3. CASE kind = "naive_routing"
  BY <1>1, <1>3 DEF PassedOn, NaivePassed, PortOne, PortFar, PortOf
<1>4. CASE kind \in Routings \ {"naive_routing"}
  BY <1>1, <1>4 DEF PassedOn, RoutingPassed, PortOne, PortFar, PortOf
<1>5. CASE kind \notin Routings /\ kind # "fastpass"
  BY <1>1, <1>5 DEF PassedOn
<1> QED
  BY <1>1, <1>2, <1>3, <1>4, <1>5

(* It holds initially.                                                     *)
LEMMA ElementsInitially == Init => ElementsInv
<1> SUFFICES ASSUME Init PROVE ElementsInv
  OBVIOUS
<1>1. base \in Tables
  <2>1. [b \in Buckets |-> 0] \in Tables
    BY WrapIs DEF Tables
  <2> QED
    BY <2>1, GarbageAssumption DEF Init, Tables
<1>2. el = Start
  BY DEF Init, Start
<1>3. TypeOK
  <2>1. rules \in RuleSets \union {NoRules}
    BY DEF Init
  <2>2. out \in [0..3 -> Seq(Flows)] /\ given \in Seq(Flows)
    BY NoneJoined DEF Init
  <2> QED
    BY <1>1, <1>2, <2>1, <2>2, StartIs DEF Init, TypeOK
<1>4. WorkDone
  <2>1. <<Start, Start, <<>> >> \in DidRel(JobOf)
    BY <1>1, StartIs, JobOfIs, DidHands DEF Hands
  <2>2. 0 = Weighed(<<>>) % Wrap
    BY WeighedNone, WrapIs
  <2>3. el.sum = 0
    BY <1>1, <1>2, StartIs
  <2> QED
    BY <1>2, <2>1, <2>2, <2>3 DEF Init, WorkDone
<1>5. PassedOn
  <2>1. /\ out[0] = <<>> /\ out[1] = <<>> /\ given = <<>> /\ status # "crashed"
        /\ Len(given) = 0 /\ Len(out[0]) = 0 /\ Len(out[1]) = 0
    BY DEF Init
  <2>2. \A F \in SUBSET Flows : Only(given, F) = <<>> /\ Only(out[0], F) = <<>> /\ Only(out[1], F) = <<>>
    BY <2>1, OnlyNone
  <2>3. PortOne \in SUBSET Flows /\ PortFar \in SUBSET Flows
    BY DEF PortOne, PortFar
  <2>4. FastpassPassed /\ NaivePassed /\ RoutingPassed /\ out[0] = given
    BY <2>1, <2>2, <2>3, FastAndSlow DEF FastpassPassed, NaivePassed, RoutingPassed
  <2> QED
    BY <2>4, PassedOnIs
<1>6. TotalReported
  BY DEF Init, TotalReported
<1> QED
  BY <1>1, <1>3, <1>4, <1>5, <1>6 DEF ElementsInv

----------------------------------------------------------------------------
(* A batch keeps it.                                                       *)

LEMMA BatchTyped ==
  ASSUME TypeOK, NEW n \in 0..MaxBatch, NEW pkts \in [1..n -> Flows]
  PROVE  pkts \in Seq(Flows) /\ TypedRules /\ el \in Counters /\ given \in Seq(Flows)
<1>1. n \in Nat
  BY TmpAssumption
<1>2. pkts \in Seq(Flows)
  BY <1>1
<1> QED
  BY <1>2, RulesAre DEF TypeOK

(* An element that is not the fastpass: what a batch leaves, by port.      *)
LEMMA BatchOut ==
  ASSUME TypeOK, NEW pkts \in Seq(Flows), Batch(pkts), kind # "fastpass"
  PROVE  /\ el' \in Counters /\ <<el, el', pkts>> \in DidRel(JobOf)
         /\ \E port \in Nat :
              /\ PortIs(port, pkts)
              /\ port > 1 => status' = "crashed" /\ out' = out
              /\ port <= 1 => /\ status' = status
                              /\ out' = [q \in 0..3 |-> IF q = port THEN out[q] \o pkts ELSE out[q]]
<1>0. el \in Counters /\ TypedRules /\ kind \in Kinds /\ out \in [0..3 -> Seq(Flows)]
  BY RulesAre DEF TypeOK
<1>1. kind \in Naives => Len(pkts) = 1
  BY DEF Batch
<1>2. PICK r : r = Processed(el, pkts)
  OBVIOUS
<1>3. /\ <<el, r.el, pkts>> \in DidRel(JobOf)
      /\ \E port \in Nat : SentOn(r, port, pkts) /\ PortIs(port, pkts)
  BY <1>0, <1>1, <1>2, BatchDid
<1>4. PICK port \in Nat : SentOn(r, port, pkts) /\ PortIs(port, pkts)
  BY <1>3
<1>5. /\ el' = r.el
      /\ IF \E k \in 1..Len(r.sent) : r.sent[k].port > 1
         THEN status' = "crashed" /\ out' = out
         ELSE status' = status /\ out' = [q \in DOMAIN out |-> Dispatched(out[q], q, r.sent)]
  BY <1>2, BatchSends
<1>6. r.sent = << [port |-> port, pkts |-> pkts] >>
  BY <1>4 DEF SentOn
<1>7. Len(r.sent) = 1 /\ r.sent[1].port = port
  BY <1>6
<1>8. (\E k \in 1..Len(r.sent) : r.sent[k].port > 1) <=> port > 1
  BY <1>7
<1>9. ASSUME NEW q \in 0..3
      PROVE  Dispatched(out[q], q, r.sent) = IF q = port THEN out[q] \o pkts ELSE out[q]
  <2>1. PICK t \in Seq(Flows) : t = out[q]
    BY <1>0
  <2>2. SentOne(t, q, port, pkts)
    BY DispatchOne
  <2>3. Dispatched(t, q, r.sent) = IF port = q THEN t \o pkts ELSE t
    BY <1>6, <2>2 DEF SentOne
  <2> QED
    BY <2>1, <2>3
<1>10. port > 1 => status' = "crashed" /\ out' = out
  BY <1>5, <1>8
<1>11. port <= 1 => /\ status' = status
                    /\ out' = [q \in 0..3 |-> IF q = port THEN out[q] \o pkts ELSE out[q]]
  <2>1. SUFFICES ASSUME port <= 1
                 PROVE  /\ status' = status
                        /\ out' = [q \in 0..3 |-> IF q = port THEN out[q] \o pkts ELSE out[q]]
    OBVIOUS
  <2>2. ~(port > 1)
    BY <2>1
  <2>3. status' = status /\ out' = [q \in DOMAIN out |-> Dispatched(out[q], q, r.sent)]
    BY <1>5, <1>8, <2>2
  <2>4. DOMAIN out = 0..3
    BY <1>0
  <2> QED
    BY <1>9, <2>3, <2>4
<1>12. el' \in Counters
  BY <1>3, <1>5 DEF DidRel
<1> QED
  BY <1>3, <1>4, <1>5, <1>10, <1>11, <1>12

(* And the fastpass.                                                       *)
LEMMA FastpassOut ==
  ASSUME TypeOK, NEW pkts \in Seq(Flows), Batch(pkts), kind = "fastpass"
  PROVE  /\ el' \in Counters /\ el'.sum = (el.sum + Weighed(pkts)) % Wrap /\ status' = status
         /\ out' = [q \in 0..3 |-> IF q = 1 THEN out[q] \o Only(pkts, FastFlows)
                                   ELSE IF q = 0 THEN out[q] \o Only(pkts, SlowFlows) ELSE out[q]]
<1>0. el \in Counters /\ out \in [0..3 -> Seq(Flows)]
  BY DEF TypeOK
<1>1. PICK r : r = Processed(el, pkts)
  OBVIOUS
<1>2. PICK s1 \in Seq(Flows), s0 \in Seq(Flows) : s1 = Only(pkts, FastFlows) /\ s0 = Only(pkts, SlowFlows)
  BY FastAndSlow, OnlyCounts
<1>3. /\ r.el \in Counters /\ r.el.sum = (el.sum + Weighed(pkts)) % Wrap
      /\ r.sent = << [port |-> 1, pkts |-> s1], [port |-> 0, pkts |-> s0] >>
  BY <1>0, <1>1, <1>2, FastpassDid
<1>4. /\ el' = r.el
      /\ IF \E k \in 1..Len(r.sent) : r.sent[k].port > 1
         THEN status' = "crashed" /\ out' = out
         ELSE status' = status /\ out' = [q \in DOMAIN out |-> Dispatched(out[q], q, r.sent)]
  BY <1>1, BatchSends
<1>5. ~ \E k \in 1..Len(r.sent) : r.sent[k].port > 1
  <2>1. Len(r.sent) = 2 /\ r.sent[1].port = 1 /\ r.sent[2].port = 0
    BY <1>3
  <2> QED
    BY <2>1
<1>6. status' = status /\ out' = [q \in 0..3 |-> Dispatched(out[q], q, r.sent)]
  BY <1>0, <1>4, <1>5
<1>7. ASSUME NEW q \in 0..3
      PROVE  Dispatched(out[q], q, r.sent) =
               IF q = 1 THEN out[q] \o s1 ELSE IF q = 0 THEN out[q] \o s0 ELSE out[q]
  <2>1. PICK t \in Seq(Flows) : t = out[q]
    BY <1>0
  <2>2. LET v == << [port |-> 1, pkts |-> s1], [port |-> 0, pkts |-> s0] >> IN
         /\ Dispatched(t, 1, v) = t \o s1 /\ Dispatched(t, 0, v) = t \o s0
         /\ Dispatched(t, 2, v) = t /\ Dispatched(t, 3, v) = t
    BY DispatchTwo
  <2>3. /\ Dispatched(t, 1, r.sent) = t \o s1 /\ Dispatched(t, 0, r.sent) = t \o s0
        /\ Dispatched(t, 2, r.sent) = t /\ Dispatched(t, 3, r.sent) = t
    BY <1>3, <2>2
  <2>4. q = 0 \/ q = 1 \/ q = 2 \/ q = 3
    OBVIOUS
  <2> QED
    BY <2>1, <2>3, <2>4
<1> QED
  BY <1>2, <1>3, <1>4, <1>6, <1>7

LEMMA BatchTypeOK ==
  ASSUME TypeOK, NEW pkts \in Seq(Flows), Batch(pkts)
  PROVE  TypeOK'
<1>1. kind' = kind /\ rules' = rules /\ total' = total /\ given' = given \o pkts /\ status = "running"
  BY DEF Batch
<1>2. given' \in Seq(Flows)
  BY <1>1, ConcatProperties DEF TypeOK
<1>3. /\ el' \in Counters /\ status' \in {"running", "crashed", "released"}
      /\ out' \in [0..3 -> Seq(Flows)]
  <2>0. out \in [0..3 -> Seq(Flows)] /\ \A q \in 0..3 : \A t \in Seq(Flows) : out[q] \o t \in Seq(Flows)
    <3>1. out \in [0..3 -> Seq(Flows)]
      BY DEF TypeOK
    <3>2. ASSUME NEW q \in 0..3, NEW t \in Seq(Flows) PROVE out[q] \o t \in Seq(Flows)
      BY <3>1, ConcatProperties
    <3> QED
      BY <3>1, <3>2
  <2>1. CASE kind = "fastpass"
    <3>1. Only(pkts, FastFlows) \in Seq(Flows) /\ Only(pkts, SlowFlows) \in Seq(Flows)
      BY FastAndSlow, OnlyCounts
    <3>2. out' = [q \in 0..3 |-> IF q = 1 THEN out[q] \o Only(pkts, FastFlows)
                                 ELSE IF q = 0 THEN out[q] \o Only(pkts, SlowFlows) ELSE out[q]]
      BY <2>1, FastpassOut
    <3>3. out' \in [0..3 -> Seq(Flows)]
      BY <2>0, <3>1, <3>2
    <3> QED
      BY <1>1, <2>1, <3>3, FastpassOut
  <2>2. CASE kind # "fastpass"
    <3>1. PICK port \in Nat :
              /\ port > 1 => status' = "crashed" /\ out' = out
              /\ port <= 1 => /\ status' = status
                              /\ out' = [q \in 0..3 |-> IF q = port THEN out[q] \o pkts ELSE out[q]]
      BY <2>2, BatchOut
    <3>2. port <= 1 => out' \in [0..3 -> Seq(Flows)]
      BY <2>0, <3>1
    <3>3. port > 1 => out' \in [0..3 -> Seq(Flows)]
      BY <2>0, <3>1
    <3>4. port > 1 \/ port <= 1
      OBVIOUS
    <3>5. el' \in Counters
      BY <2>2, BatchOut
    <3> QED
      BY <1>1, <3>1, <3>2, <3>3, <3>4, <3>5
  <2> QED
    BY <2>1, <2>2
<1> QED
  BY <1>1, <1>2, <1>3 DEF TypeOK

LEMMA BatchWork ==
  ASSUME TypeOK, base \in Tables, WorkDone, NEW pkts \in Seq(Flows), Batch(pkts)
  PROVE  WorkDone'
<1>1. kind' = kind /\ rules' = rules /\ base' = base /\ given' = given \o pkts
  BY DEF Batch
<1>2. el \in Counters /\ given \in Seq(Flows)
  BY DEF TypeOK
<1>3. PICK u \in Seq(Flows) : u = given \o pkts /\ Joined(given, pkts, u)
  <2>1. given \o pkts \in Seq(Flows)
    BY <1>2, ConcatProperties
  <2> QED
    BY <1>2, <2>1, JoinedConcat
<1>4. CASE kind # "fastpass"
  <2>1. PICK w \in Jobs : w = JobOf
    BY JobOfIs
  <2>2. PICK s \in Counters : s = Start
    BY StartIs
  <2>3. <<s, el, given>> \in DidRel(w)
    BY <1>4, <2>1, <2>2 DEF WorkDone
  <2>4. PICK e \in Counters : e = el' /\ <<el, e, pkts>> \in DidRel(w)
    BY <1>4, <2>1, BatchOut
  <2>5. <<s, e, u>> \in DidRel(w)
    BY <1>2, <1>3, <2>3, <2>4, DidHands DEF Hands
  <2>6. JobOf' = w /\ Start' = s
    BY <1>1, <2>1, <2>2 DEF JobOf, Ruled, MergedJob, FastpassJob, Start
  <2>7. <<Start', el', given'>> \in DidRel(JobOf')
    BY <1>1, <1>3, <2>4, <2>5, <2>6
  <2> QED
    BY <1>1, <1>4, <2>7 DEF WorkDone
<1>5. CASE kind = "fastpass"
  <2>1. PICK a \in Nat, b \in Nat : a = Weighed(given) /\ b = Weighed(pkts)
    BY <1>2, WeighedAdds
  <2>2. Weighed(u) = a + b
    BY <1>2, <1>3, <2>1, WeighedJoined
  <2>3. el.sum = a % Wrap
    BY <1>5, <2>1 DEF WorkDone
  <2>4. el'.sum = ((a % Wrap) + b) % Wrap
    BY <1>5, <2>1, <2>3, FastpassOut
  <2>5. ((a % Wrap) + b) % Wrap = (a + b) % Wrap
    BY WrapIs, Wraps
  <2>6. el'.sum = Weighed(given') % Wrap
    BY <1>1, <1>3, <2>2, <2>4, <2>5
  <2> QED
    BY <1>1, <1>5, <2>6 DEF WorkDone
<1> QED
  BY <1>4, <1>5

(* PassedOn of the next state, by kind.                                    *)
LEMMA Apart ==
  PassedOn' <=> /\ kind' = "fastpass" => FastpassPassed'
                /\ kind' = "naive_routing" => NaivePassed'
                /\ kind' \in Routings \ {"naive_routing"} => RoutingPassed'
                /\ kind' \notin Routings /\ kind' # "fastpass" => out'[0] = given'
<1>1. "naive_routing" \in Routings /\ "fastpass" \notin Routings
  BY DEF Routings
<1>2. CASE kind' = "fastpass"
  BY <1>1, <1>2 DEF PassedOn, FastpassPassed
<1>3. CASE kind' = "naive_routing"
  BY <1>1, <1>3 DEF PassedOn, NaivePassed, PortOne, PortFar, PortOf
<1>4. CASE kind' \in Routings \ {"naive_routing"}
  BY <1>1, <1>4 DEF PassedOn, RoutingPassed, PortOne, PortFar, PortOf
<1>5. CASE kind' \notin Routings /\ kind' # "fastpass"
  BY <1>1, <1>5 DEF PassedOn
<1> QED
  BY <1>1, <1>2, <1>3, <1>4, <1>5

LEMMA PortsStay ==
  ASSUME rules' = rules
  PROVE  PortOne' = PortOne /\ PortFar' = PortFar
BY DEF PortOne, PortFar, PortOf

(* Nothing is picked where there is none.                                  *)
LEMMA OnlyEmpty ==
  ASSUME NEW s \in Seq(Flows), NEW F \in SUBSET Flows
  PROVE  /\ Only(s, F) \in Seq(Flows) /\ Len(Only(s, F)) = HowMany(s, F) /\ HowMany(s, F) \in Nat
         /\ Only(s, F) = <<>> <=> HowMany(s, F) = 0
<1>1. Only(s, F) \in Seq(Flows) /\ Len(Only(s, F)) = HowMany(s, F) /\ HowMany(s, F) \in Nat
  BY OnlyCounts, HowManyType
<1> QED
  BY <1>1, EmptySeq

(* A routing element that dispatches a batch on the sum of its ports.      *)
LEMMA BatchRouted ==
  ASSUME TypeOK, PassedOn, NEW pkts \in Seq(Flows), Batch(pkts), kind \in Routings \ {"naive_routing"}
  PROVE  PassedOn'
<1>0. \A x \in Seq(Flows) : \A F : Only(x \o pkts, F) = Only(x, F) \o Only(pkts, F)
  BY OnlyConcat
<1>1. kind' = kind /\ rules' = rules /\ given' = given \o pkts /\ status = "running"
  BY DEF Batch
<1>2. given \in Seq(Flows) /\ out \in [0..3 -> Seq(Flows)] /\ kind # "fastpass"
  BY DEF TypeOK, Routings
<1>3. PICK One \in SUBSET Flows, Far \in SUBSET Flows : One = PortOne /\ Far = PortFar
  BY DEF PortOne, PortFar
<1>4. PICK o \in Seq(Flows), i \in Seq(Flows) : o = out[0] /\ i = out[1]
  BY <1>2
<1>5. /\ Only(given, Far) = <<>> /\ Only(o, One) = <<>> /\ Only(i, One) = Only(given, One)
      /\ Len(o) + Len(i) = Len(given) /\ (Only(given, One) = <<>> => o = given)
  BY <1>1, <1>3, <1>4, PassedOnIs DEF RoutingPassed
<1>6. PICK port \in Nat :
            /\ PortIs(port, pkts)
            /\ port > 1 => status' = "crashed" /\ out' = out
            /\ port <= 1 => /\ status' = status
                            /\ out' = [q \in 0..3 |-> IF q = port THEN out[q] \o pkts ELSE out[q]]
  BY <1>2, BatchOut
<1>7. PICK ones \in Nat, fars \in Nat : ones = HowMany(pkts, One) /\ fars = HowMany(pkts, Far)
  BY HowManyType
<1>8. port >= ones + 2 * fars /\ (fars = 0 => port = ones)
  BY <1>3, <1>6, <1>7 DEF PortIs, PortsGrow
<1>9. \A F : Only(given \o pkts, F) = Only(given, F) \o Only(pkts, F)
  BY <1>0, <1>2
<1>10. /\ Only(pkts, One) \in Seq(Flows) /\ Only(pkts, Far) \in Seq(Flows) /\ Only(given, One) \in Seq(Flows)
       /\ Len(Only(pkts, One)) = ones /\ Len(Only(pkts, Far)) = fars
       /\ Only(pkts, One) = <<>> <=> ones = 0
       /\ Only(pkts, Far) = <<>> <=> fars = 0
  BY <1>2, <1>7, OnlyEmpty
<1>11. Len(Only(given \o pkts, One)) = Len(Only(given, One)) + ones /\ Only(given \o pkts, Far) = Only(pkts, Far)
  <2>1. Only(given \o pkts, One) = Only(given, One) \o Only(pkts, One)
    BY <1>9
  <2>2. Only(given \o pkts, Far) = <<>> \o Only(pkts, Far)
    BY <1>5, <1>9
  <2>3. PICK a \in Seq(Flows), b \in Seq(Flows), c \in Seq(Flows) :
            a = Only(given, One) /\ b = Only(pkts, One) /\ c = Only(pkts, Far)
    BY <1>10
  <2>4. Len(a \o b) = Len(a) + Len(b) /\ <<>> \o c = c
    BY ConcatProperties, ConcatEmptySeq
  <2> QED
    BY <1>10, <2>1, <2>2, <2>3, <2>4
<1>12. RoutingPassed'
  <2>1. PortOne' = One /\ PortFar' = Far
    BY <1>1, <1>3, PortsStay
  <2>2. CASE port > 1
    <3>1. fars # 0 \/ ones > 1
      BY <1>8, <2>2
    <3>2. Len(Only(given, One)) \in Nat
      BY <1>10
    <3>3. Only(given \o pkts, Far) # <<>> \/ Len(Only(given \o pkts, One)) > 1
      BY <1>10, <1>11, <3>1, <3>2
    <3>4. status' = "crashed"
      BY <1>6, <2>2
    <3> QED
      BY <1>1, <2>1, <3>3, <3>4 DEF RoutingPassed
  <2>3. CASE port <= 1
    <3>1. fars = 0 /\ port = ones
      BY <1>8, <2>3
    <3>2. Only(given \o pkts, Far) = <<>>
      BY <1>10, <1>11, <3>1
    <3>3. /\ out'[0] = IF port = 0 THEN o \o pkts ELSE o
          /\ out'[1] = IF port = 1 THEN i \o pkts ELSE i
      <4>1. out' = [q \in 0..3 |-> IF q = port THEN out[q] \o pkts ELSE out[q]]
        BY <1>6, <2>3
      <4>2. 0 \in 0..3 /\ 1 \in 0..3
        OBVIOUS
      <4> QED
        BY <1>4, <4>1, <4>2
    <3>4. /\ Len(o \o pkts) = Len(o) + Len(pkts) /\ Len(i \o pkts) = Len(i) + Len(pkts)
          /\ Len(given \o pkts) = Len(given) + Len(pkts)
          /\ Len(o) \in Nat /\ Len(i) \in Nat /\ Len(pkts) \in Nat /\ Len(given) \in Nat
      BY <1>2, ConcatProperties
    <3>4a. Len(o) + Len(i) = Len(given)
      BY <1>5
    <3>5. port = 0 \/ port = 1
      BY <2>3
    <3>6. Len(out'[0]) + Len(out'[1]) = Len(given \o pkts)
      <4>1. CASE port = 0
        <5>1. out'[0] = o \o pkts /\ out'[1] = i
          BY <3>3, <4>1
        <5>2. Len(out'[0]) = Len(o) + Len(pkts) /\ Len(out'[1]) = Len(i)
          BY <3>4, <5>1
        <5> QED
          BY <3>4, <3>4a, <5>2
      <4>2. CASE port = 1
        <5>1. out'[0] = o /\ out'[1] = i \o pkts
          BY <3>3, <4>2
        <5>2. Len(out'[0]) = Len(o) /\ Len(out'[1]) = Len(i) + Len(pkts)
          BY <3>4, <5>1
        <5> QED
          BY <3>4, <3>4a, <5>2
      <4> QED
        BY <3>5, <4>1, <4>2
    <3>7. Only(o \o pkts, One) = Only(o, One) \o Only(pkts, One) /\ Only(i \o pkts, One) = Only(i, One) \o Only(pkts, One)
      BY <1>0
    <3>8. Only(out'[0], One) = <<>> /\ Only(out'[1], One) = Only(given \o pkts, One)
      <4>1. CASE port = 0
        <5>1. Only(pkts, One) = <<>>
          BY <1>10, <3>1, <4>1
        <5>2. <<>> \o Only(pkts, One) = <<>> /\ Only(given, One) \o <<>> = Only(given, One)
          BY <1>10, <5>1, ConcatEmptySeq
        <5> QED
          BY <1>5, <1>9, <3>3, <3>7, <4>1, <5>1, <5>2
      <4>2. CASE port = 1
        <5>1. out'[0] = o /\ out'[1] = i \o pkts
          BY <3>3, <4>2
        <5>2. Only(i \o pkts, One) = Only(given \o pkts, One)
          BY <1>5, <1>9, <3>7
        <5> QED
          BY <1>5, <5>1, <5>2
      <4> QED
        BY <3>5, <4>1, <4>2
    <3>9. Only(given \o pkts, One) = <<>> => out'[0] = given \o pkts
      <4> SUFFICES ASSUME Only(given \o pkts, One) = <<>> PROVE out'[0] = given \o pkts
        OBVIOUS
      <4>1. Len(Only(given, One)) + ones = 0 /\ Len(Only(given, One)) \in Nat
        BY <1>10, <1>11
      <4>2. ones = 0 /\ Only(given, One) = <<>>
        BY <1>10, <4>1, EmptySeq
      <4> QED
        BY <1>5, <3>1, <3>3, <4>2
    <3>10. status' # "crashed"
      BY <1>1, <1>6, <2>3
    <3> QED
      BY <1>1, <2>1, <3>2, <3>6, <3>8, <3>9, <3>10 DEF RoutingPassed
  <2> QED
    BY <2>2, <2>3
<1> QED
  BY <1>1, <1>2, <1>12, Apart

LEMMA BatchPassedOn ==
  ASSUME TypeOK, PassedOn, NEW pkts \in Seq(Flows), Batch(pkts)
  PROVE  PassedOn'
<1>1. kind' = kind /\ rules' = rules /\ given' = given \o pkts /\ status = "running"
  BY DEF Batch
<1>2. given \in Seq(Flows) /\ out \in [0..3 -> Seq(Flows)]
  BY DEF TypeOK
<1>3. \A F : Only(given \o pkts, F) = Only(given, F) \o Only(pkts, F)
  BY <1>2, OnlyConcat
<1>4. CASE kind = "fastpass"
  <2>1. out[0] = Only(given, SlowFlows) /\ out[1] = Only(given, FastFlows)
    BY <1>4, PassedOnIs DEF FastpassPassed
  <2>2. out'[1] = out[1] \o Only(pkts, FastFlows) /\ out'[0] = out[0] \o Only(pkts, SlowFlows)
    <3>1. out' = [q \in 0..3 |-> IF q = 1 THEN out[q] \o Only(pkts, FastFlows)
                                 ELSE IF q = 0 THEN out[q] \o Only(pkts, SlowFlows) ELSE out[q]]
      BY <1>4, FastpassOut
    <3>2. 0 \in 0..3 /\ 1 \in 0..3
      OBVIOUS
    <3> QED
      BY <3>1, <3>2
  <2>3. out'[0] = Only(given', SlowFlows) /\ out'[1] = Only(given', FastFlows)
    BY <1>1, <1>3, <2>1, <2>2
  <2> QED
    BY <1>1, <1>4, <2>3, Apart DEF FastpassPassed, Routings
<1>5. CASE kind = "naive_routing"
  <2> DEFINE One == PortOne
  <2>1. out[1] = Only(given, One) /\ Only(given, PortFar) = <<>>
    BY <1>1, <1>5, PassedOnIs DEF NaivePassed
  <2>2. kind \in Routings /\ kind \in Naives /\ kind # "fastpass"
    BY <1>5 DEF Routings, Naives
  <2>3. Len(pkts) = 1
    BY <2>2 DEF Batch
  <2>4. PICK f \in Flows : f = pkts[1] /\ pkts = <<f>>
    BY <2>3, SingleIs
  <2>5. PICK port \in Nat :
              /\ PortIs(port, pkts)
              /\ port > 1 => status' = "crashed" /\ out' = out
              /\ port <= 1 => /\ status' = status
                              /\ out' = [q \in 0..3 |-> IF q = port THEN out[q] \o pkts ELSE out[q]]
    BY <2>2, BatchOut
  <2>6. port = PortOf(f)
    BY <2>2, <2>3, <2>4, <2>5 DEF PortIs
  <2>7. Only(pkts, One) = IF port = 1 THEN pkts ELSE <<>>
    <3>1. Only(<<f>>, One) = IF f \in One THEN <<f>> ELSE <<>>
      BY OnlyOne
    <3>2. f \in One <=> PortOf(f) = 1
      BY DEF PortOne
    <3> QED
      BY <2>4, <2>6, <3>1, <3>2
  <2>8. Only(given, One) \in Seq(Flows)
    BY <1>2, OnlyConcat
  <2>9. out'[1] = Only(given \o pkts, One)
    <3>1. Only(given \o pkts, One) = Only(given, One) \o Only(pkts, One)
      BY <1>3
    <3>2. CASE port = 1
      <4>1. out' = [q \in 0..3 |-> IF q = 1 THEN out[q] \o pkts ELSE out[q]]
        BY <2>5, <3>2
      <4>2. 1 \in 0..3
        OBVIOUS
      <4>3. out'[1] = out[1] \o pkts
        BY <4>1, <4>2
      <4> QED
        BY <2>1, <2>7, <3>1, <3>2, <4>3
    <3>3. CASE port # 1
      <4>1. out'[1] = out[1]
        <5>1. CASE port > 1
          BY <2>5, <5>1
        <5>2. CASE port = 0
          BY <1>2, <2>5, <5>2
        <5> QED
          BY <3>3, <5>1, <5>2
      <4>2. Only(given, One) \o <<>> = Only(given, One)
        BY <2>8, ConcatEmptySeq
      <4> QED
        BY <2>1, <2>7, <3>1, <3>3, <4>1, <4>2
    <3> QED
      BY <3>2, <3>3
  <2>10. status' = "crashed" <=> Only(given \o pkts, PortFar) # <<>>
    <3>1. status' = "crashed" <=> port > 1
      <4>1. port > 1 \/ port <= 1
        OBVIOUS
      <4> QED
        BY <1>1, <2>5, <4>1
    <3>2. Only(pkts, PortFar) = IF port > 1 THEN <<f>> ELSE <<>>
      <4>1. Only(<<f>>, PortFar) = IF f \in PortFar THEN <<f>> ELSE <<>>
        BY OnlyOne
      <4>2. f \in PortFar <=> PortOf(f) > 1
        BY DEF PortFar
      <4> QED
        BY <2>4, <2>6, <4>1, <4>2
    <3>3. Only(given \o pkts, PortFar) = Only(pkts, PortFar)
      <4>1. Only(given \o pkts, PortFar) = <<>> \o Only(pkts, PortFar)
        BY <1>3, <2>1
      <4>2. Only(pkts, PortFar) \in Seq(Flows)
        BY OnlyConcat
      <4> QED
        BY <4>1, <4>2, ConcatEmptySeq
    <3> QED
      BY <3>1, <3>2, <3>3
  <2>11. PortOne' = PortOne /\ PortFar' = PortFar
    BY <1>1, PortsStay
  <2>12. NaivePassed'
    BY <1>1, <2>9, <2>10, <2>11 DEF NaivePassed
  <2> QED
    BY <1>1, <1>5, <2>2, <2>12, Apart
<1>6. CASE kind \in Routings \ {"naive_routing"}
  BY <1>6, BatchRouted
<1>7. CASE kind \notin Routings /\ kind # "fastpass"
  <2>1. out[0] = given
    BY <1>7, PassedOnIs
  <2>2. PICK port \in Nat :
              /\ PortIs(port, pkts)
              /\ port <= 1 => /\ status' = status
                              /\ out' = [q \in 0..3 |-> IF q = port THEN out[q] \o pkts ELSE out[q]]
    BY <1>7, BatchOut
  <2>3. port = 0
    BY <1>7, <2>2 DEF PortIs
  <2>4. out'[0] = given'
    BY <1>1, <1>2, <2>1, <2>2, <2>3
  <2> QED
    BY <1>1, <1>7, <2>4, Apart DEF Routings
<1> QED
  BY <1>4, <1>5, <1>6, <1>7

LEMMA BatchKeeps ==
  ASSUME ElementsInv, NEW n \in 0..MaxBatch, NEW pkts \in [1..n -> Flows], Batch(pkts)
  PROVE  ElementsInv'
<1>1. TypeOK /\ base \in Tables /\ WorkDone /\ PassedOn
  BY DEF ElementsInv
<1>2. pkts \in Seq(Flows)
  BY <1>1, BatchTyped
<1>3. TypeOK'
  BY <1>1, <1>2, BatchTypeOK
<1>4. (base \in Tables)'
  BY <1>1 DEF Batch, Tables
<1>5. WorkDone'
  BY <1>1, <1>2, BatchWork
<1>6. PassedOn'
  BY <1>1, <1>2, BatchPassedOn
<1>7. TotalReported'
  <2>1. status = "running" /\ (status' = status \/ status' = "crashed")
    <3>1. status = "running"
      BY DEF Batch
    <3>2. status' = status \/ status' = "crashed"
      <4>1. PICK r : r = Processed(el, pkts)
        OBVIOUS
      <4>2. IF \E k \in 1..Len(r.sent) : r.sent[k].port > 1
            THEN status' = "crashed" /\ out' = out
            ELSE status' = status /\ out' = [q \in DOMAIN out |-> Dispatched(out[q], q, r.sent)]
        BY <4>1, BatchSends
      <4> QED
        BY <4>2
    <3> QED
      BY <3>1, <3>2
  <2>2. status' # "released"
    BY <2>1
  <2> QED
    BY <2>2 DEF TotalReported
<1> QED
  BY <1>3, <1>4, <1>5, <1>6, <1>7 DEF ElementsInv

----------------------------------------------------------------------------
(* What follows from it.                                                   *)

LEMMA CountedIs ==
  ASSUME given \in Seq(Flows)
  PROVE  /\ Counted \in Seq(Flows)
         /\ kind = "merged_fastpass" =>
              \A F \in SUBSET Flows : HowMany(given, F \intersect SlowFlows) = HowMany(Counted, F)
         /\ kind # "merged_fastpass" => Counted = given
<1>1. CASE kind = "merged_fastpass"
  <2>1. Counted = Only(given, SlowFlows)
    BY <1>1 DEF Counted
  <2> QED
    BY <1>1, <2>1, FastAndSlow, OnlyCounts
<1>2. CASE kind # "merged_fastpass"
  BY <1>2 DEF Counted
<1> QED
  BY <1>1, <1>2

LEMMA MeasuredAll ==
  ASSUME TypeOK, base \in Tables, WorkDone, Measures
  PROVE  Measured(base, el.tbl, Counted)
<1>1. given \in Seq(Flows) /\ el \in Counters
  BY DEF TypeOK
<1>2. kind \in Measurements \/ kind \in Mergeds
  BY DEF Measures
<1>3. kind # "fastpass"
  BY <1>2, KindsApart DEF Others, Measurements, Mergeds
<1>4. PICK w : w = JobOf
  OBVIOUS
<1>5. Did(w, Start, el, given)
  BY <1>3, <1>4 DEF WorkDone, DidRel
<1>6. ASSUME NEW b \in Buckets
      PROVE  el.tbl[b] = (base[b] + HowMany(Counted, Of(b))) % Wrap
  <2>1. el.tbl[b] = (base[b] + HowMany(given, Of(b) \intersect w.counted)) % Wrap
    BY <1>5, StartIs DEF Did
  <2>2. Of(b) \in SUBSET Flows /\ Of(b) \intersect Flows = Of(b)
    BY DEF Of
  <2>3. w.counted = IF kind = "merged_fastpass" THEN SlowFlows ELSE Flows
    <3>1. kind \in Measurements => w = Job(Flows, {}, FALSE, {}, {}) /\ kind # "merged_fastpass"
      BY <1>4, KindsApart DEF JobOf, Measurements
    <3>2. kind \in Mergeds => w = IF kind = "merged_fastpass" THEN FastpassJob ELSE MergedJob
      BY <1>4, KindsApart DEF JobOf, Mergeds
    <3> QED
      BY <1>2, <3>1, <3>2 DEF Job, FastpassJob, MergedJob
  <2>4. HowMany(given, Of(b) \intersect w.counted) = HowMany(Counted, Of(b))
    BY <1>1, <2>2, <2>3, CountedIs
  <2> QED
    BY <2>1, <2>4
<1>7. el.tbl \in Tables
  BY <1>1, TablesAre
<1> QED
  BY <1>6, <1>7 DEF Measured

LEMMA RoutedAll ==
  ASSUME TypeOK, base \in Tables, WorkDone, Routes
  PROVE  \A f \in Flows : el.hits[f] = IF rules[f] = None THEN 0 ELSE Times(Counted, f) % Wrap
<1>1. given \in Seq(Flows) /\ Counted \in Seq(Flows)
  BY CountedIs DEF TypeOK
<1>2. kind \in Routings \/ kind \in Mergeds
  BY DEF Routes
<1>3. kind # "fastpass"
  BY <1>2 DEF Routings, Mergeds
<1>4. PICK w : w = JobOf
  OBVIOUS
<1>5. Did(w, Start, el, given)
  BY <1>3, <1>4 DEF WorkDone, DidRel
<1>6. w.routed = IF kind = "merged_fastpass" THEN Ruled \intersect SlowFlows ELSE Ruled
  <2>1. kind \in Routings => w = Job({}, Ruled, FALSE, {}, {}) /\ kind # "merged_fastpass"
    BY <1>4, KindsApart DEF JobOf, Routings
  <2>2. kind \in Mergeds => w = IF kind = "merged_fastpass" THEN FastpassJob ELSE MergedJob
    BY <1>4, KindsApart DEF JobOf, Mergeds
  <2> QED
    BY <1>2, <2>1, <2>2 DEF Job, FastpassJob, MergedJob
<1>7. ASSUME NEW f \in Flows
      PROVE  el.hits[f] = IF rules[f] = None THEN 0 ELSE Times(Counted, f) % Wrap
  <2>1. PICK F \in SUBSET Flows : F = {f} \intersect w.routed
    OBVIOUS
  <2>2. PICK n \in Nat : n = HowMany(given, F)
    BY <1>1, HowManyType
  <2>3. el.hits[f] = (0 + n) % Wrap
    BY <1>5, <2>1, <2>2, StartIs DEF Did
  <2>4. el.hits[f] = n % Wrap
    BY <2>2, <2>3
  <2>5. CASE rules[f] = None
    <3>1. F = {}
      BY <1>6, <2>1, <2>5 DEF Ruled
    <3>2. n = 0
      BY <1>1, <2>2, <3>1, HowManySets
    <3>3. 0 % Wrap = 0
      BY WrapIs
    <3> QED
      BY <2>4, <2>5, <3>2, <3>3
  <2>6. CASE rules[f] # None
    <3>1. F = IF kind = "merged_fastpass" THEN {f} \intersect SlowFlows ELSE {f}
      BY <1>6, <2>1, <2>6 DEF Ruled
    <3>2. n = HowMany(Counted, {f})
      BY <1>1, <2>2, <3>1, CountedIs
    <3>3. Times(Counted, f) = n
      BY <1>1, <3>2, TimesIs
    <3> QED
      BY <2>4, <2>6, <3>3
  <2> QED
    BY <2>5, <2>6
<1> QED
  BY <1>7

LEMMA ApartAll ==
  ASSUME TypeOK, base \in Tables, WorkDone, kind = "merged_fastpass"
  PROVE  el.fast + el.slow = Len(given) /\ el.slow = Len(Counted)
<1>1. given \in Seq(Flows)
  BY DEF TypeOK
<1>2. PICK w : w = JobOf
  OBVIOUS
<1>3. Did(w, Start, el, given)
  BY <1>2 DEF WorkDone, DidRel
<1>4. w = FastpassJob
  BY <1>2, KindsApart DEF JobOf, Mergeds
<1>5. w.fast = FastFlows /\ w.slow = SlowFlows
  BY <1>4 DEF FastpassJob, Job
<1>6. el.fast = 0 + HowMany(given, FastFlows) /\ el.slow = 0 + HowMany(given, SlowFlows)
  BY <1>3, <1>5, StartIs DEF Did
<1>7. HowMany(given, FastFlows) \in Nat /\ HowMany(given, SlowFlows) \in Nat
  BY <1>1, HowManyType
<1>8. HowMany(given, FastFlows) + HowMany(given, SlowFlows) = Len(given)
  BY <1>1, FastAndSlow
<1>9. Len(Counted) = HowMany(given, SlowFlows)
  <2>1. Counted = Only(given, SlowFlows)
    BY DEF Counted
  <2> QED
    BY <1>1, <2>1, FastAndSlow, OnlyCounts
<1> QED
  BY <1>6, <1>7, <1>8, <1>9

LEMMA SameWorkHolds == ElementsInv => SameWork
<1> SUFFICES ASSUME ElementsInv PROVE SameWork
  OBVIOUS
<1>1. TypeOK /\ base \in Tables /\ WorkDone
  BY DEF ElementsInv
<1>2. Measures => \A b \in Buckets : el.tbl[b] = (base[b] + InBucket(Counted, b)) % Wrap
  <2>1. Counted \in Seq(Flows)
    BY <1>1, CountedIs DEF TypeOK
  <2>2. \A b : InBucket(Counted, b) = HowMany(Counted, Of(b))
    BY <2>1, TimesIs
  <2> QED
    BY <1>1, <2>2, MeasuredAll DEF Measured
<1>3. Routes => \A f \in Flows : el.hits[f] = IF rules[f] = None THEN 0 ELSE Times(Counted, f) % Wrap
  BY <1>1, RoutedAll
<1>4. kind = "merged_fastpass" => el.fast + el.slow = Len(given) /\ el.slow = Len(Counted)
  BY <1>1, ApartAll
<1> QED
  BY <1>2, <1>3, <1>4 DEF SameWork

LEMMA SumsRightHolds == ElementsInv => SumsRight
<1> SUFFICES ASSUME ElementsInv PROVE SumsRight
  OBVIOUS
<1>1. TypeOK /\ base \in Tables /\ WorkDone /\ given \in Seq(Flows)
  BY DEF ElementsInv, TypeOK
<1>2. ASSUME Sums
      PROVE  el.sum = IF kind = "fastpass" THEN Weighed(given) % Wrap ELSE Weighed(given)
  <2>1. CASE kind = "fastpass"
    BY <1>1, <2>1 DEF WorkDone
  <2>2. CASE kind # "fastpass"
    <3>1. kind \in Checksums \/ kind \in Mergeds
      BY <1>2, <2>2 DEF Sums
    <3>2. PICK w : w = JobOf
      OBVIOUS
    <3>3. Did(w, Start, el, given)
      BY <1>1, <2>2, <3>2 DEF WorkDone, DidRel
    <3>4. w.sums = TRUE
      <4>1. kind \in Checksums => w = Job({}, {}, TRUE, {}, {})
        BY <3>2, KindsApart DEF JobOf
      <4>2. kind \in Mergeds => w = IF kind = "merged_fastpass" THEN FastpassJob ELSE MergedJob
        BY <3>2, KindsApart DEF JobOf, Mergeds
      <4> QED
        BY <3>1, <4>1, <4>2 DEF Job, FastpassJob, MergedJob
    <3>5. el.sum = 0 + Weighed(given)
      BY <1>1, <3>3, <3>4, StartIs DEF Did
    <3>6. Weighed(given) \in Nat
      BY <1>1, WeighedAdds
    <3> QED
      BY <2>2, <3>5, <3>6
  <2> QED
    BY <2>1, <2>2
<1> QED
  BY <1>2, ChecksumRightHolds DEF SumsRight, Weighed

(* A release reports the table.                                            *)
LEMMA ReleaseReports ==
  ASSUME ElementsInv, Release
  PROVE  total' \in Nat /\ TotalReported'
<1>1. TypeOK /\ base \in Tables /\ WorkDone /\ el \in Counters
  BY DEF ElementsInv, TypeOK
<1>2. el.tbl \in Tables /\ el.fast \in Nat
  BY <1>1, TablesAre
<1>3. PICK whole \in Nat, part \in Nat, last \in Buckets :
         /\ whole = SumOf(el.tbl, Buckets) /\ part = SumOf(el.tbl, MeasurementBuckets)
         /\ last = GePow2(TblSize) - 1
  BY <1>2, TableSum, BucketsAre
<1>4. part + el.tbl[last] = whole
  BY <1>2, <1>3, TableSum
<1>5. total' = IF kind \in Measurements THEN part ELSE IF kind \in Mergeds THEN whole ELSE el.fast
  BY <1>3 DEF Release
<1>6. total' \in Nat
  BY <1>2, <1>3, <1>5
<1>7. ASSUME Measures
      PROVE  (total' + IF kind \in Measurements THEN el.tbl[last] ELSE 0) % Wrap
               = (SumOf(base, Buckets) + Len(Counted)) % Wrap
  <2>1. Counted \in Seq(Flows)
    BY <1>1, CountedIs DEF TypeOK
  <2>2. whole % Wrap = (SumOf(base, Buckets) + Len(Counted)) % Wrap
    <3>1. PICK t \in Tables, s \in Seq(Flows) : t = el.tbl /\ s = Counted
      BY <1>2, <2>1
    <3>2. Measured(base, t, s)
      BY <1>1, <1>7, <3>1, MeasuredAll
    <3>3. PICK b \in Tables : b = base
      BY <1>1
    <3>4. SumOf(t, Buckets) % Wrap = (SumOf(b, Buckets) + Len(s)) % Wrap
      BY <3>2, <3>3, TableTotal
    <3> QED
      BY <1>3, <3>1, <3>3, <3>4
  <2>3. total' + (IF kind \in Measurements THEN el.tbl[last] ELSE 0) = whole
    <3>1. CASE kind \in Measurements
      BY <1>4, <1>5, <3>1
    <3>2. CASE kind \in Mergeds
      BY <1>5, <3>2, KindsApart
    <3> QED
      BY <1>7, <3>1, <3>2 DEF Measures
  <2> QED
    BY <2>2, <2>3
<1>8. TotalReported'
  <2>1. kind' = kind /\ base' = base /\ el' = el /\ given' = given
    BY DEF Release
  <2>2. Counted' = Counted /\ Measures' = Measures
    BY <2>1 DEF Counted, Measures
  <2> QED
    BY <1>3, <1>7, <2>1, <2>2 DEF TotalReported
<1> QED
  BY <1>6, <1>8

LEMMA ReleaseKeeps ==
  ASSUME ElementsInv, Release
  PROVE  ElementsInv'
<1>1. kind' = kind /\ rules' = rules /\ base' = base /\ el' = el /\ out' = out /\ given' = given
      /\ status = "running" /\ status' = "released"
  BY DEF Release
<1>2. TypeOK /\ base \in Tables /\ WorkDone /\ PassedOn
  BY DEF ElementsInv
<1>3. total' \in Nat /\ TotalReported'
  BY ReleaseReports
<1>4. TypeOK'
  BY <1>1, <1>2, <1>3 DEF TypeOK
<1>5. (base \in Tables)'
  BY <1>1, <1>2 DEF Tables
<1>6. WorkDone'
  <2>1. JobOf' = JobOf /\ Start' = Start
    BY <1>1 DEF JobOf, Ruled, MergedJob, FastpassJob, Start
  <2> QED
    BY <1>1, <1>2, <2>1 DEF WorkDone
<1>7. PassedOn'
  BY <1>1, <1>2 DEF PassedOn
<1> QED
  BY <1>3, <1>4, <1>5, <1>6, <1>7 DEF ElementsInv

LEMMA ElementsStutter ==
  ASSUME ElementsInv, UNCHANGED vars
  PROVE  ElementsInv'
<1>1. kind' = kind /\ rules' = rules /\ base' = base /\ el' = el /\ out' = out /\ given' = given
      /\ status' = status /\ total' = total
  BY DEF vars
<1>2. JobOf' = JobOf /\ Start' = Start
  BY <1>1 DEF JobOf, Ruled, MergedJob, FastpassJob, Start
<1>3. WorkDone'
  BY <1>1, <1>2 DEF ElementsInv, WorkDone
<1>4. TypeOK' /\ (base \in Tables)'
  BY <1>1 DEF ElementsInv, TypeOK, Tables
<1>5. PassedOn'
  BY <1>1 DEF ElementsInv, PassedOn
<1>6. TotalReported'
  <2>1. Counted' = Counted /\ Measures' = Measures
    BY <1>1 DEF Counted, Measures
  <2> QED
    BY <1>1, <2>1 DEF ElementsInv, TotalReported
<1> QED
  BY <1>3, <1>4, <1>5, <1>6 DEF ElementsInv

----------------------------------------------------------------------------
(* The theorems.                                                           *)

(* The invariant: what an element has counted, summed and sent is what its *)
(* kind makes of all packets that were given (process of every element).   *)
THEOREM ElementsInductive == Spec => []ElementsInv
<1>1. ElementsInv /\ [Next]_vars => ElementsInv'
  <2> SUFFICES ASSUME ElementsInv, [Next]_vars PROVE ElementsInv'
    OBVIOUS
  <2>1. CASE Release
    BY <2>1, ReleaseKeeps
  <2>2. ASSUME NEW n \in 0..MaxBatch, NEW pkts \in [1..n -> Flows], Batch(pkts) PROVE ElementsInv'
    BY <2>2, BatchKeeps
  <2>3. CASE UNCHANGED vars
    BY <2>3, ElementsStutter
  <2> QED
    BY <2>1, <2>2, <2>3 DEF Next
<1> QED
  BY <1>1, ElementsInitially, PTL DEF Spec

(* Types: the counters of the elements stay in their widths.               *)
THEOREM ElementsTypeCorrect == Spec => []TypeOK
<1>1. ElementsInv => TypeOK
  BY DEF ElementsInv
<1> QED
  BY <1>1, ElementsInductive, PTL

(* All forms of an element do the same work, however the packets are cut   *)
(* into batches and the batches into groups, for all flows, hashes, tables *)
(* and sizes of the group.                                                 *)
THEOREM EveryFormSameWork == Spec => []SameWork
BY SameWorkHolds, ElementsInductive, PTL

(* The packets leave in their order on the port that the code sends to.    *)
THEOREM EveryPacketPassedOn == Spec => []PassedOn
<1>1. ElementsInv => PassedOn
  BY DEF ElementsInv
<1> QED
  BY <1>1, ElementsInductive, PTL

(* The release prints the packets counted, but for the last bucket of a    *)
(* measurement element (measurement_release, merged_release).              *)
THEOREM EveryTotalReported == Spec => []TotalReported
<1>1. ElementsInv => TotalReported
  BY DEF ElementsInv
<1> QED
  BY <1>1, ElementsInductive, PTL

(* Every packet is summed once, with the right sum of its bytes.           *)
THEOREM EverySumRight == Spec => []SumsRight
BY SumsRightHolds, ElementsInductive, PTL

----------------------------------------------------------------------------
(* The loop of the elements that prefetch (PrefetchLoop).                  *)

(* What is executed, and what is left of the group behind it.              *)
InTurn ==
  /\ \A k \in 1..Len(executed) : executed[k] = k - 1
  /\ \A k \in 1..Len(todo) : todo[k] = Len(executed) + k - 1

(* The turns that are taken have full halves, each fetched one turn before *)
(* it is executed, and the loop never leaves more than it fetched.         *)
WindowFetched ==
  /\ pc = "fetch" => executed = <<>>
  /\ pc \in {"fetch", "loop", "done"} => todo = <<>>
  /\ pc = "loop" =>
       /\ Len(executed) = fetched - HalfWindow /\ fetched >= HalfWindow /\ (fetched = HalfWindow \/ fetched < size)
       /\ \A j \in 0..(HalfWindow - 1) : window[j] = fetched - HalfWindow + j
       /\ 0..(fetched - 1) \subseteq prefetched
  /\ pc = "half" =>
       /\ Len(executed) + Len(todo) = fetched /\ fetched >= HalfWindow /\ fetched < size - HalfWindow
       /\ \A j \in 0..(HalfWindow - 1) : window[j + HalfWindow] = fetched + j
       /\ 0..(fetched + HalfWindow - 1) \subseteq prefetched
  /\ pc \in {"rest", "done"} => Len(executed) + Len(todo) = size

HashesBound ==
  /\ hashed <= IF pc \notin {"rest", "done"} \/ size <= HalfWindow THEN HalfWindow ELSE 2 * HalfWindow
  /\ variant = "fastpass" => hashed = 0
  /\ variant = "hashing" /\ pc \in {"rest", "done"} /\ size > HalfWindow => hashed > HalfWindow

(* The first n of an array are the packets of a set, in order.             *)
Kept(arr, n, pkts) ==
  /\ arr \in [0..(MaxFast - 1) -> Int] /\ n \in Nat
  /\ \A a, b \in 0..(n - 1) : a < b => arr[a] < arr[b]
  /\ {arr[a] : a \in 0..(n - 1)} = pkts

OnPort(fast) == {k \in 0..(Len(executed) - 1) : isFast[k] = fast}

SplitKept ==
  IF variant = "fastpass"
  THEN /\ Kept(split.fast, split.nfast, OnPort(TRUE)) /\ Kept(split.slow, split.nslow, OnPort(FALSE))
       /\ split.nfast + split.nslow = Len(executed)
  ELSE split.nfast = 0 /\ split.nslow = 0

LoopInv == LoopTypeOK /\ InTurn /\ WindowFetched /\ HashesBound /\ SplitKept /\ SplitInOrder

----------------------------------------------------------------------------
(* Groups, hashes and arrays.                                              *)

(* The part behind the loop is what is left of the batch, and at most two  *)
(* halves of it.                                                           *)
LEMMA RestLength ==
  ASSUME LoopInv, pc = "loop", fetched >= size - HalfWindow
  PROVE  /\ Rest \in Seq(0..(size - 1)) /\ Len(Rest) = size - (fetched - HalfWindow)
         /\ \A k \in 1..Len(Rest) : Rest[k] = fetched - HalfWindow + k - 1
         /\ Len(Rest) <= 2 * HalfWindow
         /\ size <= HalfWindow => Len(Rest) <= HalfWindow
<1> DEFINE n == size - (fetched - HalfWindow)
<1>1. size \in Nat /\ fetched \in Nat /\ HalfWindow \in Nat
  BY HalfAssumption, FastpassAssumption DEF LoopInv, LoopTypeOK
<1>2. n \in Nat /\ MaxOf(0, n) = n /\ n <= 2 * HalfWindow /\ fetched >= HalfWindow /\ (size <= HalfWindow => n <= HalfWindow)
  BY <1>1 DEF LoopInv, WindowFetched, MaxOf
<1>3. Rest = [j \in 1..n |-> fetched - HalfWindow + j - 1]
  BY <1>2 DEF Rest
<1>4. Rest \in [1..n -> 0..(size - 1)]
  BY <1>1, <1>2, <1>3
<1>5. \A k \in 1..n : Rest[k] = fetched - HalfWindow + k - 1
  BY <1>3
<1>6. n \in Nat
  BY <1>2
<1> HIDE DEF n
<1>7. Rest \in Seq(0..(size - 1)) /\ Len(Rest) = n
  <2> DEFINE group == Rest
             pkts == 0..(size - 1)
  <2> SUFFICES group \in Seq(pkts) /\ Len(group) = n
    OBVIOUS
  <2>1. group \in [1..n -> pkts]
    BY <1>4
  <2> HIDE DEF group, pkts
  <2>2. group \in Seq(pkts)
    BY <1>6, <2>1, SeqDef
  <2>3. DOMAIN group = 1..n /\ DOMAIN group = 1..Len(group) /\ Len(group) \in Nat
    BY <2>1, <2>2, LenProperties
  <2> QED  BY <1>6, <2>2, <2>3
<1> QED  BY <1>2, <1>5, <1>7 DEF n

(* A group keeps at most one hash for each of its packets.                 *)
LEMMA HashesAtMostOne ==
  ASSUME LoopTypeOK, NEW group \in Seq(0..(size - 1))
  PROVE  HashesOf(group) \in Nat /\ HashesOf(group) <= Len(group)
<1> DEFINE S == {k \in 1..Len(group) : ~isFast[group[k]]}
<1>1. Len(group) \in Nat
  OBVIOUS
<1>2. IsFiniteSet(1..Len(group)) /\ Cardinality(1..Len(group)) = Len(group)
  BY <1>1, FS_Interval, SMTT(40)
<1>3. Cardinality(S) \in Nat /\ Cardinality(S) <= Len(group)
  <2>1. S \subseteq 1..Len(group)
    OBVIOUS
  <2> QED  BY <1>2, <2>1, FS_Subset, FS_CardinalityType
<1>4. variant \in {"hashing", "fastpass", "merged_fastpass"}
  BY HalfAssumption DEF LoopTypeOK, Looping
<1> QED  BY <1>1, <1>3, <1>4 DEF HashesOf

(* fastpass keeps none, and the elements that hash every packet one each.  *)
LEMMA HashesByVariant ==
  ASSUME NEW group
  PROVE  /\ variant = "fastpass" => HashesOf(group) = 0
         /\ variant = "hashing" => HashesOf(group) = Len(group)
<1>1. variant = "fastpass" => HashesOf(group) = 0
  BY DEF HashesOf
<1>2. variant = "hashing" => HashesOf(group) = Len(group)
  BY DEF HashesOf
<1> QED  BY <1>1, <1>2

(* An array keeps what is written to it behind what it keeps, when the     *)
(* length is raised, and nothing else when it is not.                      *)
LEMMA KeptAppend ==
  ASSUME NEW arr, NEW n, NEW pkts, Kept(arr, n, pkts), n < MaxFast,
         NEW k \in Int, \A a \in pkts : a < k
  PROVE  /\ Kept([arr EXCEPT ![n] = k], n + 1, pkts \union {k})
         /\ Kept([arr EXCEPT ![n] = k], n, pkts)
<1> DEFINE new == [arr EXCEPT ![n] = k]
<1>1. MaxFast \in Nat /\ n \in Nat /\ n \in 0..(MaxFast - 1) /\ arr \in [0..(MaxFast - 1) -> Int]
  BY FastpassAssumption DEF Kept
<1>2. new \in [0..(MaxFast - 1) -> Int] /\ new[n] = k
  BY <1>1
<1>3. \A a \in 0..(n - 1) : new[a] = arr[a] /\ arr[a] \in pkts
  BY <1>1 DEF Kept
<1>4. \A a, b \in 0..(n - 1) : a < b => new[a] < new[b]
  BY <1>1, <1>3 DEF Kept
<1>5. {new[a] : a \in 0..(n - 1)} = pkts
  <2>1. {new[a] : a \in 0..(n - 1)} = {arr[a] : a \in 0..(n - 1)}
    BY <1>3
  <2> QED  BY <2>1 DEF Kept
<1>6. 0..(n + 1 - 1) = 0..(n - 1) \union {n}
  BY <1>1
<1>7. \A a, b \in 0..(n + 1 - 1) : a < b => new[a] < new[b]
  <2> SUFFICES ASSUME NEW a \in 0..n, NEW b \in 0..n, a < b  PROVE new[a] < new[b]
    BY <1>1
  <2>1. CASE b = n
    BY <1>1, <1>2, <1>3, <2>1
  <2>2. CASE b # n
    BY <1>1, <1>4, <2>2
  <2> QED  BY <2>1, <2>2
<1>8. {new[a] : a \in 0..(n + 1 - 1)} = pkts \union {k}
  BY <1>2, <1>5, <1>6
<1> HIDE DEF new
<1>9. Kept(new, n, pkts)
  <2>1. n \in Nat
    BY <1>1
  <2> QED  BY SMTT(30), <1>2, <1>4, <1>5, <2>1 DEF Kept
<1>10. Kept(new, n + 1, pkts \union {k})
  BY <1>1, <1>2, <1>7, <1>8, SMTT(40) DEF Kept
<1> QED  BY <1>9, <1>10 DEF new

(* Nothing but a packet executed changes what fastpass keeps.              *)
LEMMA SplitSame ==
  ASSUME SplitKept, UNCHANGED <<variant, isFast, executed, split>>
  PROVE  SplitKept'
<1>1. OnPort(TRUE)' = OnPort(TRUE) /\ OnPort(FALSE)' = OnPort(FALSE)
  BY DEF OnPort
<1>2. Kept(split.fast, split.nfast, OnPort(TRUE))' <=> Kept(split.fast, split.nfast, OnPort(TRUE))
  BY <1>1 DEF Kept
<1>3. Kept(split.slow, split.nslow, OnPort(FALSE))' <=> Kept(split.slow, split.nslow, OnPort(FALSE))
  BY <1>1 DEF Kept
<1> QED  BY <1>2, <1>3 DEF SplitKept

----------------------------------------------------------------------------
(* The invariant: the initial states, then each action.                    *)

(* The invariant holds when the loop is entered,                           *)
LEMMA InitLoopInv == LoopInit => LoopInv
<1> SUFFICES ASSUME LoopInit PROVE LoopInv
  OBVIOUS
<1> USE HalfAssumption, FastpassAssumption
<1>1. LoopTypeOK
  <2>1. size \in Nat /\ isFast \in [0..(size - 1) -> BOOLEAN]
    <3>1. size \in Nat
      BY DEF LoopInit
    <3>2. isFast \in [0..(size - 1) -> IF variant = "hashing" THEN {FALSE} ELSE BOOLEAN]
      BY DEF LoopInit
    <3>3. CASE variant = "hashing"
      BY <3>1, <3>2, <3>3
    <3>4. CASE variant # "hashing"
      BY <3>1, <3>2, <3>4
    <3> QED  BY <3>3, <3>4
  <2>2. window \in [0..(2 * HalfWindow - 1) -> Int]
    BY DEF LoopInit
  <2>3. split.nfast = 0 /\ split.nslow = 0
    BY DEF LoopInit
  <2> QED  BY <2>1, <2>2, <2>3 DEF LoopInit, LoopTypeOK
<1>2. InTurn /\ WindowFetched /\ HashesBound /\ SplitInOrder
  BY DEF LoopInit, InTurn, WindowFetched, HashesBound, SplitInOrder
<1>3. SplitKept
  <2>1. executed = <<>> /\ OnPort(TRUE) = {} /\ OnPort(FALSE) = {}
    BY DEF LoopInit, OnPort
  <2>2. split.nfast = 0 /\ split.nslow = 0
        /\ split.fast \in [0..(MaxFast - 1) -> Int] /\ split.slow \in [0..(MaxFast - 1) -> Int]
    BY DEF LoopInit
  <2>3. Len(executed) = 0
    BY <2>1
  <2>4. Kept(split.fast, 0, {}) /\ Kept(split.slow, 0, {})
    BY <2>2 DEF Kept
  <2>5. Kept(split.fast, split.nfast, OnPort(TRUE)) /\ Kept(split.slow, split.nslow, OnPort(FALSE))
    BY <2>1, <2>2, <2>4 DEF Kept
  <2>6. split.nfast = 0 /\ split.nslow = 0 /\ split.nfast + split.nslow = Len(executed)
    BY <2>2, <2>3
  <2> QED  BY <2>5, <2>6, Zenon DEF SplitKept
<1> QED  BY <1>1, <1>2, <1>3 DEF LoopInv

(* ... after the first half is fetched,                                    *)
LEMMA FetchFirstStep == LoopInv /\ FetchFirst => LoopInv'
<1> SUFFICES ASSUME LoopInv, FetchFirst PROVE LoopInv'
  OBVIOUS
<1> USE HalfAssumption, FastpassAssumption
<1>1. LoopTypeOK'
  BY DEF LoopInv, LoopTypeOK, FetchFirst
<1>2. WindowFetched'
  BY DEF LoopInv, LoopTypeOK, WindowFetched, FetchFirst
<1>3. InTurn' /\ HashesBound' /\ SplitInOrder'
  BY DEF LoopInv, InTurn, HashesBound, SplitInOrder, FetchFirst
<1>4. SplitKept'
  BY SplitSame DEF LoopInv, FetchFirst
<1> QED  BY <1>1, <1>2, <1>3, <1>4 DEF LoopInv

(* ... after a turn, which fetches one half and starts to execute another, *)
LEMMA TurnStep == LoopInv /\ Turn => LoopInv'
<1> SUFFICES ASSUME LoopInv, Turn PROVE LoopInv'
  OBVIOUS
<1> USE HalfAssumption, FastpassAssumption
<1>1. size \in Nat /\ fetched \in Nat /\ HalfWindow \in Nat \ {0} /\ window \in [0..(2 * HalfWindow - 1) -> Int]
      /\ fetched >= HalfWindow /\ fetched < size - HalfWindow /\ Len(executed) = fetched - HalfWindow
      /\ \A j \in 0..(HalfWindow - 1) : window[j] = fetched - HalfWindow + j
  BY DEF LoopInv, LoopTypeOK, WindowFetched, Turn
<1>2. /\ window' \in [0..(2 * HalfWindow - 1) -> Int]
      /\ \A j \in 0..(HalfWindow - 1) : window'[j] = fetched - HalfWindow + j /\ window'[j + HalfWindow] = fetched + j
  BY <1>1 DEF Turn
<1>3. /\ todo' \in Seq(0..(size - 1)) /\ Len(todo') = HalfWindow
      /\ \A k \in 1..HalfWindow : todo'[k] = Len(executed) + k - 1
  <2>1. todo' \in [1..HalfWindow -> 0..(size - 1)] /\ \A k \in 1..HalfWindow : todo'[k] = fetched - HalfWindow + k - 1
    BY <1>1, <1>2, SMTT(30) DEF Turn
  <2> QED  BY <1>1, <2>1, SeqDef, LenProperties, SMTT(40)
<1>4. HashesOf(todo') \in Nat /\ HashesOf(todo') <= HalfWindow
  BY <1>3, HashesAtMostOne DEF LoopInv
<1>5. hashed \in Nat /\ hashed <= HalfWindow
  BY DEF LoopInv, LoopTypeOK, HashesBound, Turn
<1>6. hashed' \in Nat /\ hashed' <= HalfWindow
  BY <1>4, <1>5 DEF Turn, MaxOf
<1>7. LoopTypeOK'
  BY <1>2, <1>3, <1>6 DEF LoopInv, LoopTypeOK, Turn
<1>8. WindowFetched'
  BY <1>1, <1>2, <1>3 DEF LoopInv, WindowFetched, Turn
<1>9. InTurn'
  BY <1>1, <1>3 DEF LoopInv, InTurn, Turn
<1>10. HashesBound'
  <2>1. pc' = "half" /\ variant' = variant /\ hashed' = MaxOf(hashed, HashesOf(todo'))
    BY DEF Turn
  <2>2. variant = "fastpass" => hashed' = 0
    BY <2>1, HashesByVariant DEF LoopInv, HashesBound, MaxOf
  <2> QED  BY <1>6, <2>1, <2>2 DEF HashesBound
<1>12. SplitInOrder'
  BY DEF SplitInOrder, Turn
<1>11. SplitKept'
  BY SplitSame DEF LoopInv, Turn
<1> QED  BY <1>7, <1>8, <1>9, <1>10, <1>11, <1>12 DEF LoopInv

(* fastpass writes a packet to both arrays: behind all that they keep.     *)
LEMMA ExecuteStep == LoopInv /\ Execute => LoopInv'
<1> SUFFICES ASSUME LoopInv, Execute PROVE LoopInv'
  OBVIOUS
<1> USE HalfAssumption, FastpassAssumption
<1> DEFINE n == Len(executed)
<1>1. /\ size \in Nat /\ size <= MaxFast /\ fetched \in Nat /\ pc \in {"half", "rest"}
      /\ todo \in Seq(0..(size - 1)) /\ executed \in Seq(0..(size - 1)) /\ todo # <<>>
  BY DEF LoopInv, LoopTypeOK, Execute
<1>2. n \in Nat /\ Head(todo) = n /\ n \in 0..(size - 1) /\ Len(todo) >= 1
  BY <1>1 DEF LoopInv, InTurn
<1>3. /\ executed' \in Seq(0..(size - 1)) /\ Len(executed') = n + 1
      /\ executed'[n + 1] = n /\ \A k \in 1..n : executed'[k] = executed[k]
  BY <1>1, <1>2 DEF Execute
<1>4. /\ todo' \in Seq(0..(size - 1)) /\ Len(todo') = Len(todo) - 1
      /\ \A k \in 1..Len(todo') : todo'[k] = todo[k + 1]
  BY <1>1, <1>2 DEF Execute
<1>5. InTurn'
  <2>1. /\ \A k \in 1..n : executed[k] = k - 1
        /\ \A k \in 1..Len(todo) : todo[k] = n + k - 1
    BY DEF LoopInv, InTurn
  <2>2. \A k \in 1..(n + 1) : executed'[k] = k - 1
    BY <1>2, <1>3, <2>1
  <2>3. \A k \in 1..(Len(todo) - 1) : k + 1 \in 1..Len(todo) /\ todo'[k] = n + 1 + k - 1
    <3>1. Len(todo) \in Nat
      BY <1>1
    <3> QED  BY <1>2, <1>4, <2>1, <3>1
  <2> QED  BY <1>3, <1>4, <2>2, <2>3 DEF InTurn
<1>6. WindowFetched'
  <2>1. Len(todo) \in Nat /\ Len(executed') + Len(todo') = n + Len(todo)
    BY <1>1, <1>2, <1>3, <1>4
  <2>2. UNCHANGED <<pc, fetched, window, prefetched, size>>
    BY DEF Execute
  <2>3. pc = "half" => Len(executed') + Len(todo') = fetched
    BY <2>1 DEF LoopInv, WindowFetched
  <2>4. pc = "rest" => Len(executed') + Len(todo') = size
    BY <2>1 DEF LoopInv, WindowFetched
  <2> QED  BY <1>1, <2>2, <2>3, <2>4 DEF LoopInv, WindowFetched
<1>7. HashesBound' /\ SplitInOrder'
  BY <1>1 DEF LoopInv, HashesBound, SplitInOrder, Execute
<1>8. SplitKept' /\ split'.nfast \in 0..size /\ split'.nslow \in 0..size
  <2>1. CASE variant # "fastpass"
    BY <2>1 DEF LoopInv, LoopTypeOK, SplitKept, Execute
  <2>2. CASE variant = "fastpass"
    <3>1. /\ Kept(split.fast, split.nfast, OnPort(TRUE))
          /\ Kept(split.slow, split.nslow, OnPort(FALSE))
          /\ split.nfast + split.nslow = n
      BY <2>2 DEF LoopInv, SplitKept
    <3>2. /\ split.nfast \in Nat /\ split.nslow \in Nat /\ split.nfast < MaxFast /\ split.nslow < MaxFast
          /\ split.nfast + split.nslow = n
      <4>1. split.nfast \in Nat /\ split.nslow \in Nat
        BY <3>1 DEF Kept
      <4>2. n < MaxFast
        BY <1>1, <1>2
      <4> QED  BY <1>2, <3>1, <4>1, <4>2
    <3>3. /\ \A a \in OnPort(TRUE) : a < n
          /\ \A a \in OnPort(FALSE) : a < n
          /\ n \in Int
      BY <1>2 DEF OnPort
    <3>4. /\ Kept([split.fast EXCEPT ![split.nfast] = n], split.nfast + 1, OnPort(TRUE) \union {n})
          /\ Kept([split.fast EXCEPT ![split.nfast] = n], split.nfast, OnPort(TRUE))
      BY <3>1, <3>2, <3>3, KeptAppend
    <3>5. /\ Kept([split.slow EXCEPT ![split.nslow] = n], split.nslow + 1, OnPort(FALSE) \union {n})
          /\ Kept([split.slow EXCEPT ![split.nslow] = n], split.nslow, OnPort(FALSE))
      BY <3>1, <3>2, <3>3, KeptAppend
    <3>6. isFast[n] \in BOOLEAN /\ isFast' = isFast /\ variant' = variant
      BY <1>2 DEF LoopInv, LoopTypeOK, Execute
    <3>7. \A f \in BOOLEAN : OnPort(f)' = OnPort(f) \union (IF isFast[n] = f THEN {n} ELSE {})
      BY <1>2, <1>3, <3>6 DEF OnPort
    <3>8. /\ split'.fast = [split.fast EXCEPT ![split.nfast] = n]
          /\ split'.slow = [split.slow EXCEPT ![split.nslow] = n]
          /\ split'.nfast = split.nfast + (IF isFast[n] THEN 1 ELSE 0)
          /\ split'.nslow = split.nslow + (IF isFast[n] THEN 0 ELSE 1)
      BY <1>2, <2>2 DEF Execute, SplitOne
    <3>9. split'.nfast + split'.nslow = n + 1
      BY <1>2, <3>1, <3>2, <3>6, <3>8
    <3>10. Kept(split'.fast, split'.nfast, OnPort(TRUE)')
      BY <3>2, <3>4, <3>6, <3>7, <3>8
    <3>11. Kept(split'.slow, split'.nslow, OnPort(FALSE)')
      BY <3>2, <3>5, <3>6, <3>7, <3>8
    <3>12. split'.nfast \in 0..size /\ split'.nslow \in 0..size
      <4>1. split'.nfast \in Nat /\ split'.nslow \in Nat
        BY <3>10, <3>11 DEF Kept
      <4>2. n + 1 <= size /\ n \in Nat
        BY <1>1, <1>2
      <4> QED  BY <1>1, <3>9, <4>1, <4>2
    <3>13. SplitKept'
      BY <1>3, <2>2, <3>6, <3>9, <3>10, <3>11 DEF SplitKept, Kept
    <3> QED  BY <3>12, <3>13
  <2> QED  BY <2>1, <2>2
<1>9. LoopTypeOK'
  BY <1>3, <1>4, <1>8 DEF LoopInv, LoopTypeOK, Execute
<1> QED  BY <1>5, <1>6, <1>7, <1>8, <1>9 DEF LoopInv

(* The half that was fetched meanwhile is the next to be executed.         *)
LEMMA MoveWindowStep == LoopInv /\ MoveWindow => LoopInv'
<1> SUFFICES ASSUME LoopInv, MoveWindow PROVE LoopInv'
  OBVIOUS
<1> USE HalfAssumption, FastpassAssumption
<1>1. /\ size \in Nat /\ fetched \in Nat /\ window \in [0..(2 * HalfWindow - 1) -> Int]
      /\ executed \in Seq(0..(size - 1)) /\ todo = <<>> /\ Len(executed) = fetched
  BY DEF LoopInv, LoopTypeOK, WindowFetched, MoveWindow
<1>2. /\ window' \in [0..(2 * HalfWindow - 1) -> Int] /\ fetched' = fetched + HalfWindow
      /\ \A j \in 0..(HalfWindow - 1) : window'[j] = fetched + j
  <2>1. \A j \in 0..(HalfWindow - 1) : window[j + HalfWindow] = fetched + j
    BY DEF LoopInv, WindowFetched, MoveWindow
  <2>2. \A j \in 0..(HalfWindow - 1) : j \in DOMAIN window /\ j < HalfWindow
    BY <1>1
  <2>3. window' = [j \in 0..(2 * HalfWindow - 1) |-> IF j < HalfWindow THEN window[j + HalfWindow] ELSE window[j]]
    BY <1>1 DEF MoveWindow
  <2>4. \A j \in 0..(2 * HalfWindow - 1) : window[j] \in Int /\ (j < HalfWindow => j + HalfWindow \in 0..(2 * HalfWindow - 1))
    BY <1>1
  <2>5. \A j \in 0..(2 * HalfWindow - 1) : window'[j] \in Int
    BY <2>3, <2>4
  <2>6. \A j \in 0..(HalfWindow - 1) : window'[j] = fetched + j
    BY <1>1, <2>1, <2>2, <2>3
  <2>7. fetched' = fetched + HalfWindow
    BY DEF MoveWindow
  <2> QED  BY <2>3, <2>5, <2>6, <2>7
<1>3. LoopTypeOK'
  BY <1>1, <1>2 DEF LoopInv, LoopTypeOK, MoveWindow
<1>4. WindowFetched'
  <2>1. /\ fetched >= HalfWindow /\ fetched < size - HalfWindow /\ 0..(fetched + HalfWindow - 1) \subseteq prefetched
        /\ UNCHANGED <<size, prefetched, todo, executed>> /\ pc' = "loop"
    BY DEF LoopInv, WindowFetched, MoveWindow
  <2> QED  BY <1>1, <1>2, <2>1 DEF WindowFetched
<1>5. InTurn' /\ HashesBound' /\ SplitInOrder'
  BY DEF LoopInv, InTurn, HashesBound, SplitInOrder, MoveWindow
<1>6. SplitKept'
  BY SplitSame DEF LoopInv, MoveWindow
<1> QED  BY <1>3, <1>4, <1>5, <1>6 DEF LoopInv

(* ... when the copied rest is started,                                    *)
LEMMA StartRestStep == LoopInv /\ StartRest => LoopInv'
<1> SUFFICES ASSUME LoopInv, StartRest PROVE LoopInv'
  OBVIOUS
<1> USE HalfAssumption, FastpassAssumption
<1>1. /\ size \in Nat /\ fetched \in Nat /\ Len(executed) = fetched - HalfWindow
      /\ todo' = Rest /\ pc = "loop" /\ fetched >= size - HalfWindow
  BY DEF LoopInv, LoopTypeOK, WindowFetched, StartRest
<1>2. /\ Rest \in Seq(0..(size - 1)) /\ Len(Rest) = size - (fetched - HalfWindow)
      /\ \A k \in 1..Len(Rest) : Rest[k] = fetched - HalfWindow + k - 1
      /\ Len(Rest) <= 2 * HalfWindow /\ (size <= HalfWindow => Len(Rest) <= HalfWindow)
  BY <1>1, RestLength
<1>3. HashesOf(Rest) \in Nat /\ HashesOf(Rest) <= Len(Rest)
  BY <1>2, HashesAtMostOne DEF LoopInv
<1>4. hashed \in Nat /\ hashed <= HalfWindow
  BY <1>1 DEF LoopInv, LoopTypeOK, HashesBound
<1>5. hashed' \in Nat /\ hashed' <= IF size <= HalfWindow THEN HalfWindow ELSE 2 * HalfWindow
  <2>1. hashed' = MaxOf(hashed, HashesOf(Rest))
    BY DEF StartRest
  <2> QED  BY <1>1, <1>2, <1>3, <1>4, <2>1 DEF MaxOf
<1>6. LoopTypeOK'
  BY <1>1, <1>2, <1>5 DEF LoopInv, LoopTypeOK, StartRest
<1>7. WindowFetched'
  BY <1>1, <1>2 DEF WindowFetched, StartRest
<1>8. InTurn'
  BY <1>1, <1>2 DEF LoopInv, InTurn, StartRest
<1>9. HashesBound'
  <2>1. UNCHANGED <<variant, size>> /\ pc' = "rest" /\ hashed' = MaxOf(hashed, HashesOf(Rest))
    BY DEF StartRest
  <2>2. variant = "fastpass" => hashed' = 0
    BY <2>1, HashesByVariant DEF LoopInv, HashesBound, MaxOf
  <2>3. size > HalfWindow => Len(Rest) > HalfWindow
    BY <1>1, <1>2 DEF LoopInv, WindowFetched
  <2>4. variant = "hashing" /\ size > HalfWindow => hashed' > HalfWindow
    BY <1>2, <1>4, <2>1, <2>3, HashesByVariant DEF MaxOf
  <2> QED  BY <1>5, <2>1, <2>2, <2>4 DEF HashesBound
<1>11. SplitInOrder'
  BY DEF SplitInOrder, StartRest
<1>10. SplitKept'
  BY SplitSame DEF LoopInv, StartRest
<1> QED  BY <1>6, <1>7, <1>8, <1>9, <1>10, <1>11 DEF LoopInv

(* ... when the function returns,                                          *)
LEMMA FinishStep == LoopInv /\ Finish => LoopInv'
<1> SUFFICES ASSUME LoopInv, Finish PROVE LoopInv'
  OBVIOUS
<1> USE HalfAssumption, FastpassAssumption
<1>1. size \in Nat /\ executed \in Seq(0..(size - 1)) /\ Len(executed) = size /\ todo = <<>>
  BY DEF LoopInv, LoopTypeOK, WindowFetched, Finish
<1>2. LoopTypeOK'
  BY DEF LoopInv, LoopTypeOK, Finish
<1>3. InTurn' /\ WindowFetched' /\ HashesBound'
  BY <1>1 DEF LoopInv, InTurn, WindowFetched, HashesBound, Finish
<1>4. SplitKept'
  BY SplitSame DEF LoopInv, Finish
<1>5. SplitInOrder'
  <2> SUFFICES ASSUME variant = "fastpass", NEW port \in 0..1
               PROVE  /\ \A j, k \in 1..Len(dispatched'[port]) : j < k => dispatched'[port][j] < dispatched'[port][k]
                      /\ {dispatched'[port][k] : k \in 1..Len(dispatched'[port])}
                           = {k \in 0..(size - 1) : isFast[k] <=> port = 1}
    BY DEF SplitInOrder, Finish
  <2> DEFINE arr == IF port = 1 THEN split.fast ELSE split.slow
             m == IF port = 1 THEN split.nfast ELSE split.nslow
             mine == OnPort(port = 1)
  <2>1. dispatched'[port] = [k \in 1..m |-> arr[k - 1]]
    BY DEF Finish
  <2>2. Kept(arr, m, mine)
    BY DEF LoopInv, SplitKept
  <2>3. mine = {k \in 0..(size - 1) : isFast[k] <=> port = 1}
    BY <1>1 DEF LoopInv, LoopTypeOK, OnPort
  <2> HIDE DEF arr, m, mine
  <2>4. m \in Nat /\ Len(dispatched'[port]) = m /\ \A k \in 1..m : dispatched'[port][k] = arr[k - 1]
    BY <2>1, <2>2 DEF Kept
  <2>5. \A j, k \in 1..m : j < k => dispatched'[port][j] < dispatched'[port][k]
    <3>1. \A k \in 1..m : k - 1 \in 0..(m - 1)
      BY <2>4
    <3>2. \A a, b \in 0..(m - 1) : a < b => arr[a] < arr[b]
      BY <2>2 DEF Kept
    <3> QED  BY <2>4, <3>1, <3>2
  <2>6. {dispatched'[port][k] : k \in 1..m} = {arr[a] : a \in 0..(m - 1)}
    <3>1. \A k \in 1..m : k - 1 \in 0..(m - 1) /\ dispatched'[port][k] = arr[k - 1]
      BY <2>4
    <3>2. \A a \in 0..(m - 1) : a + 1 \in 1..m /\ arr[a] = dispatched'[port][a + 1]
      BY <2>4
    <3> QED  BY <3>1, <3>2
  <2>7. {dispatched'[port][k] : k \in 1..m} = mine
    BY <2>2, <2>6 DEF Kept
  <2> QED  BY <2>3, <2>4, <2>5, <2>7
<1> QED  BY <1>2, <1>3, <1>4, <1>5 DEF LoopInv

(* ... and so after every step.                                            *)
LEMMA StepLoopInv == LoopInv /\ [LoopNext]_loopVars => LoopInv'
<1> SUFFICES ASSUME LoopInv, [LoopNext]_loopVars PROVE LoopInv'
  OBVIOUS
<1>1. CASE UNCHANGED loopVars
  <2>1. SplitKept'
    BY <1>1, SplitSame DEF LoopInv, loopVars
  <2>2. LoopTypeOK' /\ InTurn'
    BY <1>1 DEF loopVars, LoopInv, LoopTypeOK, InTurn
  <2>3. WindowFetched' /\ HashesBound'
    BY <1>1 DEF loopVars, LoopInv, WindowFetched, HashesBound
  <2>4. SplitInOrder'
    BY <1>1, SMTT(30) DEF loopVars, LoopInv, SplitInOrder
  <2> QED  BY <2>1, <2>2, <2>3, <2>4 DEF LoopInv
<1> QED
  BY <1>1, FetchFirstStep, TurnStep, ExecuteStep, MoveWindowStep, StartRestStep, FinishStep DEF LoopNext

----------------------------------------------------------------------------
(* The properties.                                                         *)

(* The invariant is one.                                                   *)
THEOREM LoopInvariance == LoopSpec => []LoopInv
  BY InitLoopInv, StepLoopInv, PTL DEF LoopSpec

(* What the fields hold, among it that a group is never taken from behind  *)
(* the batch.                                                              *)
THEOREM LoopTypeCorrect == LoopSpec => []LoopTypeOK
<1>1. LoopInv => LoopTypeOK
  BY DEF LoopInv
<1> QED  BY <1>1, LoopInvariance, PTL

(* Each packet is executed once and in order, whatever the window and the  *)
(* size of the batch.                                                      *)
THEOREM EachPacketOnce == LoopSpec => []ExecutedInOrder
<1>1. LoopInv => ExecutedInOrder
  <2> SUFFICES ASSUME LoopInv PROVE ExecutedInOrder
    OBVIOUS
  <2>1. executed \in Seq(0..(size - 1)) /\ \A k \in 1..Len(executed) : executed[k] = k - 1
    BY DEF LoopInv, LoopTypeOK, InTurn
  <2>2. executed = [k \in 1..Len(executed) |-> k - 1]
    BY <2>1
  <2>3. pc = "done" => Len(executed) = size
    BY <2>1 DEF LoopInv, WindowFetched
  <2> QED  BY <2>2, <2>3 DEF ExecutedInOrder
<1> QED  BY <1>1, LoopInvariance, PTL

(* slow of merged_fastpass holds the group behind the loop.                *)
THEOREM RestAlwaysFits == LoopSpec => []RestFits
<1>1. LoopInv => RestFits
  BY RestLength DEF RestFits
<1> QED  BY <1>1, LoopInvariance, PTL

(* hashes is overrun by exactly the batches larger than a half, behind the *)
(* loop and by one half at most; slow never is.                            *)
THEOREM OverrunAlwaysExact == LoopSpec => []OverrunExactly
<1>1. ASSUME LoopInv PROVE OverrunExactly
  <2>1. RestFits
    BY <1>1, RestLength DEF RestFits
  <2>2. hashed \in Nat /\ HalfWindow \in Nat /\ size \in Nat
    BY <1>1, HalfAssumption, FastpassAssumption DEF LoopInv, LoopTypeOK
  <2>3. HashesBound
    BY <1>1 DEF LoopInv
  <2> QED
    BY <2>1, <2>2, <2>3, HalfAssumption DEF HashesBound, OverrunExactly
<1> QED  BY <1>1, LoopInvariance, PTL

(* fastpass dispatches each packet on its own port, once and in order.     *)
THEOREM SplitStaysInOrder == LoopSpec => []SplitInOrder
<1>1. LoopInv => SplitInOrder
  BY DEF LoopInv
<1> QED  BY <1>1, LoopInvariance, PTL

=============================================================================
