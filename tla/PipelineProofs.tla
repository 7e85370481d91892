--------------------------- MODULE PipelineProofs ---------------------------
(***************************************************************************)
(* Proofs about Pipeline: its type invariant, BuiltToDrop and EditsKeepWay *)
(* for every MaxSize, PortCount, set of kinds and set of wrappings.        *)
(*                                                                         *)
(* Only port 0 of an element ever changes (Wired), and as long as elements *)
(* are only added it is that of the element made next (Built): this is the *)
(* inductive invariant.  The properties speak of the way of the packets,   *)
(* which is followed port by port; it is the array exactly if each port is *)
(* that of the next entry (InStep), which an edit is easier compared with. *)
(* What the loop of pipeline_element_insert has done after n turns is      *)
(* LoopInv.                                                                *)
(***************************************************************************)
EXTENDS Pipeline, WellFoundedInduction, TLAPS

----------------------------------------------------------------------------
(* Induction and recursion.                                                *)

(* What holds of 0, and of the next number of each, holds of all.          *)
LEMMA SetInduction ==
  ASSUME NEW T, 0 \in T, \A n \in Nat : n \in T => n + 1 \in T
  PROVE  \A n \in Nat : n \in T
<1> DEFINE R == {ss \in Nat \X Nat : ss[1] < ss[2]}
           F == {k \in Nat : k \notin T}
<1>1. IsWellFoundedOn(R, Nat)
  BY NatLessThanWellFounded DEF OpToRel
<1>2. \A a, b \in Nat : a < b => <<a, b>> \in R
  OBVIOUS
<1> HIDE DEF R
<1> SUFFICES ASSUME F # {} PROVE FALSE
  OBVIOUS
<1>3. PICK m \in F : \A k \in F : ~(<<k, m>> \in R)
  BY <1>1, WFMin
<1>4. m # 0
  OBVIOUS
<1>5. m - 1 \in Nat /\ m - 1 < m /\ (m - 1) + 1 = m
  BY <1>4
<1>6. m - 1 \in F
  BY <1>5
<1> QED
  BY <1>2, <1>3, <1>5, <1>6

(* The states of a loop of N turns.                                        *)
Loop(f, N, start, g) == f = [n \in 0..N |-> IF n = 0 THEN start ELSE g[<<n, f[n - 1]>>]]

(* They exist, if the n-th turn goes from any of Q[n - 1] to one of Q[n].  *)
LEMMA Turns ==
  ASSUME NEW N \in Nat, NEW Q, NEW start \in Q[0], NEW g,
         \A n \in 1..N : \A x \in Q[n - 1] : g[<<n, x>>] \in Q[n]
  PROVE  \E f : Loop(f, N, start, g) /\ \A n \in 0..N : f[n] \in Q[n]
<1> DEFINE Upto(n, f) == /\ f = [k \in 0..n |-> IF k = 0 THEN start ELSE g[<<k, f[k - 1]>>]]
                         /\ \A k \in 0..n : f[k] \in Q[k]
           T == {n \in Nat : n <= N => \E f : Upto(n, f)}
<1>1. 0 \in T
  <2>1. Upto(0, [k \in 0..0 |-> start])
    OBVIOUS
  <2> QED
    BY <2>1
<1>2. ASSUME NEW n \in Nat, n \in T PROVE n + 1 \in T
  <2> SUFFICES ASSUME n + 1 <= N PROVE \E f : Upto(n + 1, f)
    OBVIOUS
  <2>1. PICK f : Upto(n, f)
    BY <1>2
  <2>2. g[<<n + 1, f[n]>>] \in Q[n + 1]
    <3>1. n + 1 \in 1..N /\ (n + 1) - 1 = n /\ f[n] \in Q[n]
      BY <2>1
    <3> QED
      BY <3>1
  <2> DEFINE h == [k \in 0..(n + 1) |-> IF k = n + 1 THEN g[<<n + 1, f[n]>>] ELSE f[k]]
  <2>3. \A k \in 0..(n + 1) : k = n + 1 \/ k \in 0..n
    OBVIOUS
  <2>4. \A k \in 0..n : h[k] = f[k] /\ k # n + 1
    OBVIOUS
  <2>5. h[n + 1] = g[<<n + 1, f[n]>>] /\ h = [k \in 0..(n + 1) |-> h[k]]
    OBVIOUS
  <2> HIDE DEF h
  <2>6. \A k \in 0..(n + 1) : h[k] \in Q[k]
    BY <2>1, <2>2, <2>3, <2>4, <2>5
  <2>7. ASSUME NEW k \in 0..(n + 1) PROVE h[k] = IF k = 0 THEN start ELSE g[<<k, h[k - 1]>>]
    <3>1. CASE k = n + 1
      <4>1. k - 1 = n /\ n \in 0..n /\ k # 0
        BY <3>1
      <4> QED
        BY <2>4, <2>5, <3>1, <4>1
    <3>2. CASE k = 0
      <4>1. 0 \in 0..n /\ f[0] = start
        BY <2>1
      <4> QED
        BY <2>4, <3>2, <4>1
    <3>3. CASE k # n + 1 /\ k # 0
      <4>1. k \in 0..n /\ k - 1 \in 0..n
        BY <3>3
      <4>2. f[k] = g[<<k, f[k - 1]>>]
        BY <2>1, <3>3, <4>1
      <4> QED
        BY <2>4, <3>3, <4>1, <4>2
    <3> QED
      BY <3>1, <3>2, <3>3
  <2>8. Upto(n + 1, h)
    BY <2>5, <2>6, <2>7
  <2> QED
    BY <2>8
<1>3. \A n \in Nat : n \in T
  <2> HIDE DEF T
  <2> QED
    BY <1>1, <1>2, SetInduction
<1>4. N \in T
  BY <1>3
<1>5. PICK f : Upto(N, f)
  BY <1>4
<1> QED
  BY <1>5 DEF Loop

(* What every turn keeps holds at the end.                                 *)
LEMMA TurnsKeep ==
  ASSUME NEW N \in Nat, NEW Q, NEW f, f[0] \in Q[0],
         \A n \in 1..N : f[n - 1] \in Q[n - 1] => f[n] \in Q[n]
  PROVE  f[N] \in Q[N]
<1> DEFINE T == {n \in Nat : n <= N => f[n] \in Q[n]}
<1>1. 0 \in T
  OBVIOUS
<1>2. ASSUME NEW n \in Nat, n \in T PROVE n + 1 \in T
  <2> SUFFICES ASSUME n + 1 <= N PROVE f[n + 1] \in Q[n + 1]
    OBVIOUS
  <2>1. n + 1 \in 1..N /\ (n + 1) - 1 = n /\ f[n] \in Q[n]
    BY <1>2
  <2> QED
    BY <2>1
<1>3. \A n \in Nat : n \in T
  <2> HIDE DEF T
  <2> QED
    BY <1>1, <1>2, SetInduction
<1> QED
  BY <1>3

(* What every turn of pipeline_element_insert keeps holds after its loop.  *)
LEMMA InsertTurnsKeep ==
  ASSUME NEW e, NEW new, NEW pos, NEW turns \in Nat, NEW Q,
         [made |-> new, elements |-> elements, ele |-> e] \in Q[0],
         \A n \in 1..turns : \A x \in Q[n - 1] : ShiftIn(x, pos + n - 1) \in Q[n]
  PROVE  InsertTurns(e, new, pos, turns) \in Q[turns]
<1> DEFINE start == [made |-> new, elements |-> elements, ele |-> e]
           Is(s) == s = [n \in 0..turns |-> IF n = 0 THEN start ELSE ShiftIn(s[n - 1], pos + n - 1)]
           U == UNION {Q[n] : n \in 0..turns}
           g == [p \in (0..turns) \X U |-> ShiftIn(p[2], pos + p[1] - 1)]
<1>1. \A n \in 1..turns : \A x \in Q[n - 1] : g[<<n, x>>] = ShiftIn(x, pos + n - 1)
  <2> SUFFICES ASSUME NEW n \in 1..turns, NEW x \in Q[n - 1] PROVE g[<<n, x>>] = ShiftIn(x, pos + n - 1)
    OBVIOUS
  <2>1. n \in 0..turns /\ n - 1 \in 0..turns
    OBVIOUS
  <2>2. x \in U
    BY <2>1
  <2> QED
    BY <2>1, <2>2
<1> HIDE DEF g, U, start
<1>2. PICK f : Loop(f, turns, start, g) /\ \A n \in 0..turns : f[n] \in Q[n]
  <2>1. start \in Q[0]
    BY DEF start
  <2>2. \A n \in 1..turns : \A x \in Q[n - 1] : g[<<n, x>>] \in Q[n]
    BY <1>1
  <2> QED
    BY <2>1, <2>2, Turns
<1>3. Is(f)
  <2>1. ASSUME NEW n \in 0..turns
        PROVE  f[n] = IF n = 0 THEN start ELSE ShiftIn(f[n - 1], pos + n - 1)
    <3>1. CASE n = 0
      BY <1>2, <3>1 DEF Loop
    <3>2. CASE n # 0
      <4>1. n \in 1..turns /\ f[n - 1] \in Q[n - 1]
        BY <1>2, <3>2
      <4>2. f[n] = g[<<n, f[n - 1]>>]
        BY <1>2, <3>2 DEF Loop
      <4> QED
        BY <1>1, <3>2, <4>1, <4>2
    <3> QED
      BY <3>1, <3>2
  <2> QED
    BY <1>2, <2>1 DEF Loop
<1> DEFINE c == CHOOSE s : Is(s)
<1>4. InsertTurns(e, new, pos, turns) = c[turns]
  BY DEF InsertTurns, start
<1>5. Is(c)
  <2> HIDE DEF Is
  <2> QED
    BY <1>3
<1> HIDE DEF c
<1>6. c[0] \in Q[0]
  BY <1>5 DEF start
<1>7. ASSUME NEW n \in 1..turns, c[n - 1] \in Q[n - 1] PROVE c[n] \in Q[n]
  <2>1. c[n] = ShiftIn(c[n - 1], pos + n - 1)
    BY <1>5
  <2> QED
    BY <1>7, <2>1
<1> QED
  BY <1>4, <1>6, <1>7, TurnsKeep

(* Where Way starts.                                                       *)
WayStart == IF size = 0 THEN <<>> ELSE <<elements[0]>>

(* What every step along the ports keeps holds of Way.                     *)
LEMMA WayKeeps ==
  ASSUME NEW Q, WayStart \in Q[0], MaxSize \in Nat,
         \A n \in 1..MaxSize : \A x \in Q[n - 1] : Further(x) \in Q[n]
  PROVE  Way \in Q[MaxSize]
<1> DEFINE Is(s) == s = [n \in 0..MaxSize |-> IF n = 0 THEN WayStart ELSE Further(s[n - 1])]
           U == UNION {Q[n] : n \in 0..MaxSize}
           g == [p \in (0..MaxSize) \X U |-> Further(p[2])]
<1>1. \A n \in 1..MaxSize : \A x \in Q[n - 1] : g[<<n, x>>] = Further(x)
  <2> SUFFICES ASSUME NEW n \in 1..MaxSize, NEW x \in Q[n - 1] PROVE g[<<n, x>>] = Further(x)
    OBVIOUS
  <2>1. n \in 0..MaxSize /\ n - 1 \in 0..MaxSize
    OBVIOUS
  <2>2. x \in U
    BY <2>1
  <2> QED
    BY <2>1, <2>2
<1> HIDE DEF g, U
<1>2. PICK f : Loop(f, MaxSize, WayStart, g) /\ \A n \in 0..MaxSize : f[n] \in Q[n]
  <2>1. \A n \in 1..MaxSize : \A x \in Q[n - 1] : g[<<n, x>>] \in Q[n]
    BY <1>1
  <2> QED
    BY <2>1, Turns
<1>3. Is(f)
  <2>1. ASSUME NEW n \in 0..MaxSize PROVE f[n] = IF n = 0 THEN WayStart ELSE Further(f[n - 1])
    <3>1. CASE n = 0
      BY <1>2, <3>1 DEF Loop
    <3>2. CASE n # 0
      <4>1. n \in 1..MaxSize /\ f[n - 1] \in Q[n - 1]
        BY <1>2, <3>2
      <4>2. f[n] = g[<<n, f[n - 1]>>]
        BY <1>2, <3>2 DEF Loop
      <4> QED
        BY <1>1, <3>2, <4>1, <4>2
    <3> QED
      BY <3>1, <3>2
  <2> QED
    BY <1>2, <2>1 DEF Loop
<1> DEFINE c == CHOOSE s : Is(s)
<1>4. Way = c[MaxSize]
  BY DEF Way, WayStart
<1>5. Is(c)
  <2> HIDE DEF Is
  <2> QED
    BY <1>3
<1> HIDE DEF c
<1>6. c[0] \in Q[0]
  BY <1>5
<1>7. ASSUME NEW n \in 1..MaxSize, c[n - 1] \in Q[n - 1] PROVE c[n] \in Q[n]
  <2>1. c[n] = Further(c[n - 1])
    BY <1>5
  <2> QED
    BY <1>7, <2>1
<1> QED
  BY <1>4, <1>6, <1>7, TurnsKeep

----------------------------------------------------------------------------
(* The elements.                                                           *)

(* Elements among L of them.                                               *)
ElementsOf(L) == [kind : Kinds, wrap : Ways \union {"buffered"},
                  ports : [PortIds -> (1..L) \union {Null, OwnDrop}],
                  copy  : [PortIds -> (1..L) \union {Null, OwnDrop}]]

(* Only port 0 is ever connected, and to an element that was made; the     *)
(* copy in a wrapper is that of a new element.                             *)
Wired(els) ==
  /\ els \in Seq(ElementsOf(Len(els)))
  /\ \A e \in 1..Len(els) :
       /\ els[e].ports[0] \in (1..Len(els)) \union {Null}
       /\ \A p \in PortIds \ {0} : els[e].ports[p] = OnlyPorts(els[e].kind)[p]
       /\ els[e].copy = OnlyPorts(els[e].kind)

(* Where an element sends its packets.                                     *)
Hop(els, e) == els[e].ports[0]

(* What the assumptions say of the constants; a new element has no port 0. *)
LEMMA Constants ==
  /\ PortCount \in Nat /\ 0 \in PortIds /\ 1 \in PortIds /\ MaxSize \in Nat
  /\ Null \notin 0..MaxSize
  /\ \A kind : OnlyPorts(kind)[0] = Null /\ OnlyPorts(kind) \in [PortIds -> {Null, OwnDrop}]
<1>1. PortCount \in Nat /\ 0 \in PortIds /\ 1 \in PortIds /\ MaxSize \in Nat /\ Null \notin 0..MaxSize
  BY PipelineAssumption DEF PortIds
<1> QED
  BY <1>1 DEF OnlyPorts

(* e->connect of port 0 changes where e sends its packets, and nothing     *)
(* else.                                                                   *)
LEMMA ConnectIs ==
  ASSUME NEW els, Wired(els), NEW e \in 1..Len(els), NEW next \in (1..Len(els)) \union {Null}
  PROVE  /\ Wired(Connect(els, e, 0, next)) /\ Len(Connect(els, e, 0, next)) = Len(els)
         /\ Hop(Connect(els, e, 0, next), e) = next
         /\ \A k \in 1..Len(els) :
              /\ k # e => Hop(Connect(els, e, 0, next), k) = Hop(els, k)
              /\ Connect(els, e, 0, next)[k].kind = els[k].kind
              /\ Connect(els, e, 0, next)[k].wrap = els[k].wrap
<1> DEFINE E == ElementsOf(Len(els))
           c == Connect(els, e, 0, next)
<1>1. els \in Seq(E) /\ els[e] \in E /\ Len(els) \in Nat /\ DOMAIN els = 1..Len(els)
  BY DEF Wired
<1>2. /\ els[e].ports \in [PortIds -> (1..Len(els)) \union {Null, OwnDrop}]
      /\ els[e].kind \in Kinds /\ els[e].wrap \in Ways \union {"buffered"}
      /\ els[e].copy \in [PortIds -> (1..Len(els)) \union {Null, OwnDrop}]
  BY <1>1 DEF ElementsOf
<1> DEFINE new == [els[e] EXCEPT !.ports = [els[e].ports EXCEPT ![0] = next]]
<1>3. c = [els EXCEPT ![e] = new]
  BY DEF Connect
<1>4. new = [kind |-> els[e].kind, wrap |-> els[e].wrap,
             ports |-> [els[e].ports EXCEPT ![0] = next], copy |-> els[e].copy]
  <2>1. ASSUME NEW r \in ElementsOf(Len(els)), NEW y
        PROVE  [r EXCEPT !.ports = y] = [kind |-> r.kind, wrap |-> r.wrap, ports |-> y, copy |-> r.copy]
    BY DEF ElementsOf
  <2> QED
    BY <1>1, <2>1
<1>5. [els[e].ports EXCEPT ![0] = next] \in [PortIds -> (1..Len(els)) \union {Null, OwnDrop}]
  BY <1>2
<1>6. /\ new \in E /\ new.kind = els[e].kind /\ new.wrap = els[e].wrap /\ new.copy = els[e].copy
      /\ new.ports[0] = next /\ \A p \in PortIds \ {0} : new.ports[p] = els[e].ports[p]
  <2>1. new \in E
    BY <1>2, <1>4, <1>5 DEF ElementsOf
  <2>2. new.kind = els[e].kind /\ new.wrap = els[e].wrap /\ new.copy = els[e].copy
    BY <1>4
  <2>3. new.ports = [els[e].ports EXCEPT ![0] = next]
    BY <1>4
  <2>4. new.ports[0] = next /\ \A p \in PortIds \ {0} : new.ports[p] = els[e].ports[p]
    BY <1>2, <2>3, Constants
  <2> QED
    BY <2>1, <2>2, <2>4
<1> HIDE DEF new, E, c
<1>7. /\ c \in Seq(E) /\ Len(c) = Len(els)
      /\ c[e] = new /\ \A k \in 1..Len(els) : k # e => c[k] = els[k]
  BY <1>1, <1>3, <1>6
<1>8. Wired(c)
  <2>1. ASSUME NEW k \in 1..Len(els)
        PROVE  /\ c[k].ports[0] \in (1..Len(els)) \union {Null}
               /\ \A p \in PortIds \ {0} : c[k].ports[p] = OnlyPorts(c[k].kind)[p]
               /\ c[k].copy = OnlyPorts(c[k].kind)
    <3>1. CASE k = e
      BY <1>6, <1>7, <3>1 DEF Wired
    <3>2. CASE k # e
      BY <1>7, <3>2 DEF Wired
    <3> QED
      BY <3>1, <3>2
  <2> QED
    BY <1>7, <2>1 DEF Wired, E
<1> QED
  BY <1>6, <1>7, <1>8 DEF Hop, c

(* A new element leaves those that were made alone and is connected to     *)
(* none.                                                                   *)
LEMMA NewIs ==
  ASSUME NEW els, Wired(els), NEW kind \in Kinds, NEW way \in Ways
  PROVE  LET new == Append(els, NewElement(kind, way))  e == Len(els) + 1 IN
         /\ Wired(new) /\ Len(new) = e /\ Hop(new, e) = Null /\ new[e].kind = kind
         /\ \A k \in 1..Len(els) : new[k] = els[k]
<1> DEFINE e == Len(els) + 1
           x == NewElement(kind, way)
           new == Append(els, x)
<1>1. els \in Seq(ElementsOf(Len(els))) /\ Len(els) \in Nat
  BY DEF Wired
<1>2. ElementsOf(Len(els)) \subseteq ElementsOf(e)
  <2>1. (1..Len(els)) \union {Null, OwnDrop} \subseteq (1..e) \union {Null, OwnDrop}
    BY <1>1
  <2>2. [PortIds -> (1..Len(els)) \union {Null, OwnDrop}] \subseteq [PortIds -> (1..e) \union {Null, OwnDrop}]
    BY <2>1
  <2> QED
    BY <2>2 DEF ElementsOf
<1>3. x \in ElementsOf(e) /\ x.kind = kind /\ x.ports = OnlyPorts(kind) /\ x.copy = OnlyPorts(kind)
  <2>1. WrapOf(kind, way) \in Ways \union {"buffered"}
    BY DEF WrapOf, BypassWrap
  <2>2. OnlyPorts(kind) \in [PortIds -> (1..e) \union {Null, OwnDrop}]
    BY Constants
  <2> QED
    BY <2>1, <2>2 DEF NewElement, ElementsOf
<1>4. els \in Seq(ElementsOf(e))
  BY <1>1, <1>2
<1> HIDE DEF x
<1>5. /\ new \in Seq(ElementsOf(e)) /\ Len(new) = e /\ new[e] = x
      /\ \A k \in 1..Len(els) : new[k] = els[k]
  BY <1>1, <1>3, <1>4
<1>6. ASSUME NEW k \in 1..e
      PROVE  /\ new[k].ports[0] \in (1..e) \union {Null}
             /\ \A p \in PortIds \ {0} : new[k].ports[p] = OnlyPorts(new[k].kind)[p]
             /\ new[k].copy = OnlyPorts(new[k].kind)
  <2>1. CASE k = e
    BY <1>3, <1>5, <2>1, Constants
  <2>2. CASE k # e
    <3>1. k \in 1..Len(els) /\ Len(els) <= e
      BY <1>1, <2>2
    <3>2. /\ els[k].ports[0] \in (1..Len(els)) \union {Null}
          /\ \A p \in PortIds \ {0} : els[k].ports[p] = OnlyPorts(els[k].kind)[p]
          /\ els[k].copy = OnlyPorts(els[k].kind)
      BY <3>1 DEF Wired
    <3>3. new[k] = els[k] /\ (1..Len(els)) \union {Null} \subseteq (1..e) \union {Null}
      BY <1>1, <1>5, <3>1
    <3> QED
      BY <3>2, <3>3
  <2> QED
    BY <2>1, <2>2
<1> HIDE DEF new
<1>7. Wired(new)
  BY <1>5, <1>6 DEF Wired
<1> QED
  BY <1>3, <1>5, <1>7, Constants DEF Hop, new, x

----------------------------------------------------------------------------
(* The invariant.                                                          *)

(* Added elements are connected in the order in which they were made.      *)
Built == AddedOnly => \A e \in Ids : Hop(made, e) = IF e = Len(made) THEN Null ELSE e + 1

(* The inductive invariant.                                                *)
IInv == TypeOK /\ Wired(made) /\ Built

(* The ports say what the array says.                                      *)
InStep ==
  size # 0 => /\ \A i \in 0..(size - 2) : Hop(made, elements[i]) = elements[i + 1]
              /\ Hop(made, elements[size - 1]) = Null

(* An empty pipeline, of no elements.                                      *)
LEMMA InitIInv == Init => IInv
<1> SUFFICES ASSUME Init PROVE IInv
  OBVIOUS
<1>1. made = <<>> /\ Len(made) = 0 /\ Ids = {} /\ size = 0
  BY DEF Init, Ids
<1>2. made \in Seq(Element) /\ made \in Seq(ElementsOf(Len(made)))
  BY <1>1
<1> QED
  BY <1>1, <1>2, Constants DEF Init, IInv, TypeOK, Wired, Built

(* What the invariant says of the types, in terms of the sets themselves.  *)
LEMMA TypeFacts ==
  ASSUME IInv
  PROVE  /\ Wired(made) /\ Len(made) \in Nat /\ Len(made) <= MaxSize /\ MaxSize \in Nat
         /\ size \in Nat /\ size <= Len(made)
         /\ elements \in [0..MaxSize -> (1..Len(made)) \union {Null}]
         /\ \A i \in 0..(size - 1) : elements[i] \in 1..Len(made)
         /\ Null \notin 0..MaxSize
<1>1. Len(made) \in Nat
  BY DEF IInv, Wired
<1>2. \A i \in 0..(size - 1) : elements[i] \in 1..Len(made)
  <2> SUFFICES ASSUME NEW i \in 0..(size - 1) PROVE elements[i] \in 1..Len(made)
    OBVIOUS
  <2>1. i \in 0..MaxSize /\ elements[i] # Null
    BY <1>1, Constants DEF IInv, TypeOK
  <2> QED
    BY <2>1 DEF IInv, TypeOK, Ids
<1> QED
  BY <1>1, <1>2, Constants DEF IInv, TypeOK, Ids

(* A state with the types of the next one.                                 *)
LEMMA NextTypes ==
  ASSUME NEW els, Wired(els), Len(els) <= MaxSize, made' = els,
         size' \in 0..Len(els), elements' \in [0..MaxSize -> (1..Len(els)) \union {Null}],
         \A i \in 0..(size' - 1) : elements'[i] # Null,
         crashed' \in BOOLEAN, op' \in [name : {"create", "add", "insert", "remove"}, pos : 0..MaxSize]
  PROVE  TypeOK' /\ Wired(made)'
<1>1. Element' = ElementsOf(Len(els)) /\ Ids' = 1..Len(els)
  BY DEF Element, ElementsOf, Ids
<1> QED
  BY <1>1 DEF TypeOK, Wired

(* The last entry of the array comes nowhere before: it has no successor.  *)
LEMMA LastOnce ==
  ASSUME IInv, InStep, NEW i \in 0..(size - 2)
  PROVE  elements[i] # elements[size - 1]
<1>1. i + 1 \in 0..(size - 1) /\ size # 0
  BY TypeFacts
<1>2. Hop(made, elements[i]) \in 1..Len(made) /\ Hop(made, elements[size - 1]) = Null
  BY <1>1, TypeFacts DEF InStep
<1> QED
  BY <1>2, TypeFacts

----------------------------------------------------------------------------
(* pipeline_element_add.                                                   *)

(* An addition keeps the ports and the array in step.                      *)
LEMMA AddStep ==
  ASSUME IInv, NEW kind \in Kinds, NEW way \in Ways, ElementAdd(kind, way)
  PROVE  IInv' /\ (InStep => InStep')
<1> DEFINE e == Len(made) + 1
           new == Append(made, NewElement(kind, way))
<1>1. /\ ~crashed /\ e <= MaxSize
      /\ made' = IF size > 0 THEN Connect(new, elements[size - 1], 0, e) ELSE new
      /\ elements' = [elements EXCEPT ![size] = e] /\ size' = size + 1
      /\ op' = [name |-> "add", pos |-> size] /\ UNCHANGED crashed
  BY DEF ElementAdd
<1>2. /\ Wired(new) /\ Len(new) = e /\ Hop(new, e) = Null
      /\ \A k \in 1..Len(made) : new[k] = made[k]
  BY NewIs, TypeFacts
<1>3. /\ Wired(made') /\ Len(made') = e /\ Hop(made', e) = Null
      /\ size > 0 => Hop(made', elements[size - 1]) = e
      /\ \A k \in 1..Len(made) : size = 0 \/ k # elements[size - 1] => Hop(made', k) = Hop(made, k)
  <2>1. CASE size > 0
    <3> DEFINE l == elements[size - 1]
    <3>1. l \in 1..Len(made) /\ l \in 1..Len(new) /\ e \in (1..Len(new)) \union {Null} /\ e # l
          /\ e \in 1..Len(new) /\ Len(made) \in Nat
      BY <1>2, <2>1, TypeFacts
    <3>2. made' = Connect(new, l, 0, e)
      BY <1>1, <2>1
    <3> HIDE DEF l, new
    <3>3. /\ Wired(made') /\ Len(made') = Len(new) /\ Hop(made', l) = e
          /\ \A k \in 1..Len(new) : k # l => Hop(made', k) = Hop(new, k)
      BY <1>2, <3>1, <3>2, ConnectIs
    <3>4. \A k \in 1..Len(made) : k # l => Hop(made', k) = Hop(made, k)
      BY <1>2, <3>1, <3>3 DEF Hop
    <3> QED
      BY <1>2, <2>1, <3>1, <3>3, <3>4 DEF l
  <2>2. CASE ~(size > 0)
    BY <1>1, <1>2, <2>2, TypeFacts DEF Hop
  <2> QED
    BY <2>1, <2>2
<1> HIDE DEF new
<1>4. /\ size \in 0..MaxSize /\ size + 1 \in 0..e
      /\ elements' \in [0..MaxSize -> (1..e) \union {Null}]
      /\ elements'[size] = e /\ \A i \in 0..(size - 1) : elements'[i] = elements[i]
  BY <1>1, TypeFacts
<1>5. \A i \in 0..(size' - 1) : elements'[i] # Null
  <2> SUFFICES ASSUME NEW i \in 0..size PROVE elements'[i] # Null
    BY <1>1, TypeFacts
  <2>1. CASE i = size
    BY <1>1, <1>4, <2>1, TypeFacts
  <2>2. CASE i # size
    <3>1. i \in 0..(size - 1)
      BY <2>2, TypeFacts
    <3> QED
      BY <1>4, <3>1, TypeFacts
  <2> QED
    BY <2>1, <2>2
<1>6. TypeOK' /\ Wired(made)'
  <2>1. op' \in [name : {"create", "add", "insert", "remove"}, pos : 0..MaxSize]
    BY <1>1, <1>4
  <2>2. crashed' \in BOOLEAN
    BY <1>1 DEF IInv, TypeOK
  <2> QED
    BY <1>1, <1>3, <1>4, <1>5, <2>1, <2>2, NextTypes
<1>7. Built'
  <2> SUFFICES ASSUME AddedOnly', NEW k \in Ids'
               PROVE  Hop(made', k) = IF k = Len(made') THEN Null ELSE k + 1
    BY DEF Built, Hop
  <2>1. Ids' = 1..e /\ Len(made) \in Nat
    BY <1>3, TypeFacts DEF Ids
  <2>2. \A j \in 1..e : j <= size + 1 /\ elements'[j - 1] = j
    BY <1>1, <2>1 DEF AddedOnly
  <2>3. size = Len(made)
    <3>1. e <= size + 1
      BY <2>1, <2>2
    <3> QED
      BY <3>1, TypeFacts
  <2>4. AddedOnly
    <3> SUFFICES ASSUME NEW j \in Ids PROVE j <= size /\ elements[j - 1] = j
      BY DEF AddedOnly
    <3>1. j \in 1..e /\ j - 1 \in 0..(size - 1) /\ j <= size
      BY <2>1, <2>3 DEF Ids
    <3> QED
      BY <1>4, <2>2, <3>1
  <2>5. \A j \in 1..Len(made) : Hop(made, j) = IF j = Len(made) THEN Null ELSE j + 1
    BY <2>4 DEF IInv, Built, Ids
  <2>6. CASE k = e
    BY <1>3, <2>6
  <2>7. CASE k # e /\ k = size
    <3>1. elements[size - 1] = k /\ size > 0
      BY <2>1, <2>3, <2>4, <2>7 DEF AddedOnly, Ids
    <3> QED
      BY <1>3, <2>1, <2>3, <2>7, <3>1
  <2>8. CASE k # e /\ k # size
    <3>1. k \in 1..Len(made) /\ size > 0 /\ size \in 1..Len(made)
      BY <2>1, <2>3, <2>8
    <3>2. elements[size - 1] = size
      BY <2>4, <3>1 DEF AddedOnly, Ids
    <3> QED
      BY <1>3, <2>1, <2>3, <2>5, <2>8, <3>1, <3>2
  <2> QED
    BY <2>6, <2>7, <2>8
<1>8. InStep => InStep'
  <2> SUFFICES ASSUME InStep
               PROVE  /\ \A i \in 0..(size' - 2) : Hop(made', elements'[i]) = elements'[i + 1]
                      /\ Hop(made', elements'[size' - 1]) = Null
    BY DEF InStep, Hop
  <2>1. Hop(made', elements'[size' - 1]) = Null
    <3>1. size' - 1 = size
      BY <1>1, TypeFacts
    <3> QED
      BY <1>3, <1>4, <3>1
  <2>2. ASSUME NEW i \in 0..(size' - 2) PROVE Hop(made', elements'[i]) = elements'[i + 1]
    <3>1. i \in 0..(size - 1) /\ size > 0 /\ elements'[i] = elements[i] /\ elements[i] \in 1..Len(made)
      BY <1>1, <1>4, TypeFacts
    <3>2. CASE i = size - 1
      <4>1. i + 1 = size
        BY <3>2, TypeFacts
      <4> QED
        BY <1>3, <1>4, <3>1, <3>2, <4>1
    <3>3. CASE i # size - 1
      <4>1. i \in 0..(size - 2) /\ i + 1 \in 0..(size - 1)
        BY <3>1, <3>3, TypeFacts
      <4>2. elements[i] # elements[size - 1]
        BY <4>1, LastOnce
      <4>3. Hop(made, elements[i]) = elements[i + 1]
        BY <3>1, <4>1 DEF InStep
      <4> QED
        BY <1>3, <1>4, <3>1, <4>1, <4>2, <4>3
    <3> QED
      BY <3>2, <3>3
  <2> QED
    BY <2>1, <2>2
<1> QED
  BY <1>6, <1>7, <1>8 DEF IInv

(* No two entries are the same, or those that follow them would be, up to  *)
(* the last, which LastOnce excludes.                                      *)
LEMMA NoneTwice ==
  ASSUME IInv, InStep, NEW i \in 0..(size - 1), NEW j \in 0..(size - 1), i < j
  PROVE  elements[i] # elements[j]
<1> DEFINE T == {n \in Nat : \A a, b \in 0..(size - 1) : a < b /\ b + n = size - 1 => elements[a] # elements[b]}
<1>0. size \in Nat
  BY TypeFacts
<1>1. 0 \in T
  <2> SUFFICES ASSUME NEW a \in 0..(size - 1), NEW b \in 0..(size - 1), a < b, b + 0 = size - 1
               PROVE  elements[a] # elements[b]
    OBVIOUS
  <2>1. a \in 0..(size - 2) /\ b = size - 1
    BY <1>0
  <2> QED
    BY <2>1, LastOnce
<1>2. ASSUME NEW n \in Nat, n \in T PROVE n + 1 \in T
  <2> SUFFICES ASSUME NEW a \in 0..(size - 1), NEW b \in 0..(size - 1), a < b, b + (n + 1) = size - 1
               PROVE  elements[a] # elements[b]
    OBVIOUS
  <2>1. a + 1 \in 0..(size - 1) /\ b + 1 \in 0..(size - 1) /\ a + 1 < b + 1 /\ (b + 1) + n = size - 1
        /\ a \in 0..(size - 2) /\ b \in 0..(size - 2) /\ size # 0
    BY <1>0
  <2>2. elements[a + 1] # elements[b + 1]
    BY <1>2, <2>1
  <2>3. Hop(made, elements[a]) = elements[a + 1] /\ Hop(made, elements[b]) = elements[b + 1]
    BY <2>1 DEF InStep
  <2> QED
    BY <2>2, <2>3
<1>3. \A n \in Nat : n \in T
  <2> HIDE DEF T
  <2> QED
    BY <1>1, <1>2, SetInduction
<1>4. (size - 1) - j \in Nat /\ j + ((size - 1) - j) = size - 1
  BY <1>0
<1> QED
  BY <1>3, <1>4

----------------------------------------------------------------------------
(* pipeline_element_remove.                                                *)

(* A removal calls null for the first element, and for another leaves the  *)
(* ports and the array in step exactly if that was not wrapped or was the  *)
(* last.                                                                   *)
LEMMA RemoveStep ==
  ASSUME IInv, NEW pos \in 0..(MaxSize - 1), ElementRemove(pos)
  PROVE  /\ IInv' /\ (crashed' <=> pos = 0)
         /\ InStep /\ pos # 0 /\ InStep' => made[elements[pos]].wrap = "only" \/ pos = size - 1
         /\ InStep /\ pos # 0 /\ (made[elements[pos]].wrap = "only" \/ pos = size - 1) => InStep'
<1>0. pos \in Nat /\ pos < size /\ size \in Nat /\ size <= Len(made) /\ Len(made) \in Nat /\ ~crashed
      /\ op' = [name |-> "remove", pos |-> pos]
  BY TypeFacts DEF ElementRemove
<1>1. op' \in [name : {"create", "add", "insert", "remove"}, pos : 0..MaxSize]
  BY <1>0, TypeFacts
<1>2. CASE pos = 0
  <2>1. UNCHANGED <<made, elements, size>> /\ crashed' = TRUE
    BY <1>2 DEF ElementRemove
  <2>2. /\ size' \in 0..Len(made) /\ elements' \in [0..MaxSize -> (1..Len(made)) \union {Null}]
        /\ \A i \in 0..(size' - 1) : elements'[i] # Null
    BY <2>1 DEF IInv, TypeOK, Ids
  <2>3. TypeOK' /\ Wired(made)'
    BY <1>1, <2>1, <2>2, NextTypes, TypeFacts
  <2>4. Built'
    BY <2>1 DEF IInv, Built, AddedOnly, Ids, Hop
  <2> QED
    BY <1>2, <2>1, <2>3, <2>4 DEF IInv
<1>3. CASE pos # 0
  <2> DEFINE l == elements[pos - 1]
             r == elements[pos]
             next == NextOfRemoved(r)
  <2>1. /\ made' = Connect(made, l, 0, next) /\ size' = size - 1 /\ crashed' = FALSE
        /\ elements' = [i \in 0..MaxSize |-> IF i \in pos..(size - 2) THEN elements[i + 1] ELSE elements[i]]
    BY <1>0, <1>3 DEF ElementRemove
  <2>2. pos - 1 \in 0..(size - 1) /\ pos \in 0..(size - 1) /\ l \in 1..Len(made) /\ r \in 1..Len(made)
    BY <1>0, <1>3, TypeFacts
  <2>3. /\ made[r].wrap = "only" => next = Hop(made, r)
        /\ made[r].wrap # "only" => next = Null
        /\ next \in (1..Len(made)) \union {Null}
    <3>1. Wired(made)
      BY TypeFacts
    <3>2. Hop(made, r) \in (1..Len(made)) \union {Null} /\ made[r].copy[0] = Null
      BY <2>2, <3>1, Constants DEF Wired, Hop
    <3> QED
      BY <3>2 DEF NextOfRemoved, PortsField, Hop
  <2> HIDE DEF next
  <2>4. /\ Wired(made') /\ Len(made') = Len(made) /\ Hop(made', l) = next
        /\ \A k \in 1..Len(made) : k # l => Hop(made', k) = Hop(made, k)
    BY <2>1, <2>2, <2>3, ConnectIs, TypeFacts
  <2>5. /\ \A i \in 0..(pos - 1) : elements'[i] = elements[i]
        /\ \A i \in pos..(size - 2) : elements'[i] = elements[i + 1]
    BY <1>0, <2>1, TypeFacts
  <2>6. elements' \in [0..MaxSize -> (1..Len(made)) \union {Null}]
    <3>1. \A i \in 0..MaxSize : i \in pos..(size - 2) => i + 1 \in 0..MaxSize
      BY <1>0, TypeFacts
    <3> QED
      BY <2>1, <3>1, TypeFacts
  <2>7. \A i \in 0..(size' - 1) : elements'[i] # Null
    <3>0. size' - 1 = size - 2
      BY <1>0, <2>1
    <3> SUFFICES ASSUME NEW i \in 0..(size - 2) PROVE elements'[i] # Null
      BY <3>0
    <3>1. i \in 0..(size - 1) /\ i + 1 \in 0..(size - 1) /\ (i \in 0..(pos - 1) \/ i \in pos..(size - 2))
      BY <1>0
    <3> QED
      BY <2>5, <3>1, TypeFacts
  <2>8. TypeOK' /\ Wired(made)'
    <3>1. size' \in 0..Len(made')
      BY <1>0, <2>1, <2>4
    <3> QED
      BY <1>1, <2>1, <2>4, <2>6, <2>7, <3>1, NextTypes, TypeFacts
  <2>9. ~AddedOnly'
    <3>1. Len(made) \in Ids' /\ ~(Len(made) <= size')
      BY <1>0, <2>1, <2>4 DEF Ids
    <3> QED
      BY <3>1 DEF AddedOnly
  <2>10. IInv'
    BY <2>8, <2>9 DEF IInv, Built
  <2>11. ASSUME InStep, pos # size - 1, made[r].wrap # "only" PROVE ~InStep'
    <3>1. pos - 1 \in 0..(size' - 2) /\ pos \in pos..(size - 2) /\ pos + 1 \in 0..(size - 1) /\ size' # 0
          /\ pos - 1 \in 0..(pos - 1) /\ (pos - 1) + 1 = pos
      BY <1>0, <1>3, <2>1, <2>11
    <3>2. elements'[pos - 1] = l /\ elements'[pos] = elements[pos + 1] /\ elements[pos + 1] # Null
      BY <2>5, <3>1, TypeFacts
    <3>3. Hop(made', l) = Null
      BY <2>3, <2>4, <2>11
    <3> QED
      BY <3>1, <3>2, <3>3 DEF InStep, Hop
  <2>12. ASSUME InStep, made[r].wrap = "only" \/ pos = size - 1 PROVE InStep'
    <3>1. \A i \in 0..(size - 1) : i # pos - 1 => Hop(made', elements[i]) = Hop(made, elements[i])
      <4> SUFFICES ASSUME NEW i \in 0..(size - 1), i # pos - 1
                   PROVE  Hop(made', elements[i]) = Hop(made, elements[i])
        OBVIOUS
      <4>1. i < pos - 1 \/ pos - 1 < i
        BY <2>2
      <4>2. elements[i] # l
        BY <2>2, <2>12, <4>1, NoneTwice
      <4> QED
        BY <2>4, <4>2, TypeFacts
    <3>2. size # 0 /\ \A i \in 0..(size - 2) : Hop(made, elements[i]) = elements[i + 1]
      BY <1>0, <2>12 DEF InStep
    <3>3. Hop(made, elements[size - 1]) = Null
      BY <2>12, <3>2 DEF InStep
    <3>4. CASE pos = size - 1
      <4>1. Hop(made, r) = Null
        BY <3>3, <3>4
      <4>2. Hop(made', l) = Null
        BY <2>3, <2>4, <4>1
      <4>3. ASSUME NEW i \in 0..(size' - 2) PROVE Hop(made', elements'[i]) = elements'[i + 1]
        <5>1. i \in 0..(pos - 1) /\ i + 1 \in 0..(pos - 1) /\ i \in 0..(size - 1) /\ i # pos - 1 /\ i \in 0..(size - 2)
          BY <1>0, <2>1, <3>4
        <5> QED
          BY <2>5, <3>1, <3>2, <5>1
      <4>4. Hop(made', elements'[size' - 1]) = Null
        <5>1. size' - 1 = pos - 1 /\ pos - 1 \in 0..(pos - 1)
          BY <1>0, <1>3, <2>1, <3>4
        <5> QED
          BY <2>5, <4>2, <5>1
      <4> QED
        BY <4>3, <4>4 DEF InStep, Hop
    <3>5. CASE pos # size - 1
      <4>1. pos \in 0..(size - 2) /\ pos \in pos..(size - 2)
        BY <1>0, <3>5
      <4>2. Hop(made', l) = elements[pos + 1] /\ elements'[pos] = elements[pos + 1]
        BY <2>3, <2>4, <2>5, <2>12, <3>2, <3>5, <4>1
      <4>3. ASSUME NEW i \in 0..(size' - 2) PROVE Hop(made', elements'[i]) = elements'[i + 1]
        <5>1. i \in Nat /\ i <= size - 3
          BY <1>0, <2>1
        <5>2. CASE i < pos - 1
          <6>1. i \in 0..(pos - 1) /\ i + 1 \in 0..(pos - 1) /\ i \in 0..(size - 1) /\ i # pos - 1 /\ i \in 0..(size - 2)
            BY <1>0, <5>1, <5>2
          <6> QED
            BY <2>5, <3>1, <3>2, <6>1
        <5>3. CASE i = pos - 1
          <6>1. i \in 0..(pos - 1) /\ i + 1 = pos
            BY <1>0, <1>3, <5>3
          <6> QED
            BY <2>5, <4>2, <5>3, <6>1
        <5>4. CASE i >= pos
          <6>1. /\ i \in pos..(size - 2) /\ i + 1 \in pos..(size - 2) /\ i + 1 \in 0..(size - 1)
                /\ i + 1 # pos - 1 /\ i + 1 \in 0..(size - 2)
            BY <1>0, <5>1, <5>4
          <6>2. elements'[i] = elements[i + 1] /\ elements'[i + 1] = elements[(i + 1) + 1]
            BY <2>5, <6>1
          <6>3. Hop(made', elements[i + 1]) = Hop(made, elements[i + 1])
            BY <3>1, <6>1
          <6>4. Hop(made, elements[i + 1]) = elements[(i + 1) + 1]
            BY <3>2, <6>1
          <6> QED
            BY <6>2, <6>3, <6>4
        <5> QED
          BY <1>0, <5>1, <5>2, <5>3, <5>4
      <4>4. Hop(made', elements'[size' - 1]) = Null
        <5>1. /\ size' - 1 = size - 2 /\ size - 2 \in pos..(size - 2) /\ (size - 2) + 1 = size - 1
              /\ size - 1 \in 0..(size - 1) /\ size - 1 # pos - 1
          BY <1>0, <1>3, <2>1, <3>5
        <5>2. elements'[size' - 1] = elements[size - 1]
          BY <2>5, <5>1
        <5> QED
          BY <3>1, <3>3, <5>1, <5>2
      <4> QED
        BY <4>3, <4>4 DEF InStep, Hop
    <3> QED
      BY <3>4, <3>5
  <2> QED
    BY <1>3, <2>1, <2>10, <2>11, <2>12
<1> QED
  BY <1>2, <1>3

----------------------------------------------------------------------------
(* pipeline_element_insert.                                                *)

(* After n turns: what was at pos and behind it has moved up by one, up to *)
(* the element that is taken along.  If the ports said what the array says *)
(* they still do behind the new element, up to the last, which the last    *)
(* turn connects to whatever was behind it in the array.                   *)
LoopInv(x, n, new, pos) ==
  /\ Wired(x.made) /\ Len(x.made) = Len(new)
  /\ x.elements = [i \in 0..MaxSize |-> IF n > 0 /\ i = pos THEN Len(new)
                                        ELSE IF i \in (pos + 1)..(pos + n - 1) THEN elements[i - 1]
                                        ELSE elements[i]]
  /\ x.ele = IF n = 0 THEN Len(new) ELSE elements[pos + n - 1]
  /\ InStep => \A k \in 1..Len(new) :
       Hop(x.made, k) = IF n > 0 /\ k = Len(new) THEN elements[pos]
                        ELSE IF n = size - pos + 1 /\ k = elements[size - 1] THEN elements[size]
                        ELSE Hop(new, k)

(* One turn of the loop keeps LoopInv.                                     *)
LEMMA InsertTurn ==
  ASSUME IInv, NEW new, Wired(new), Len(new) = Len(made) + 1, Len(new) <= MaxSize,
         \A k \in 1..Len(made) : new[k] = made[k],
         NEW pos \in Nat, pos < size, NEW n \in 1..(size - pos + 1),
         NEW x, LoopInv(x, n - 1, new, pos)
  PROVE  LoopInv(ShiftIn(x, pos + n - 1), n, new, pos)
<1> DEFINE i == pos + n - 1
           y == ShiftIn(x, i)
           e == Len(new)
<1>0. /\ size \in Nat /\ size <= Len(made) /\ Len(made) \in Nat /\ MaxSize \in Nat
      /\ i \in Nat /\ i <= size /\ i \in 0..MaxSize /\ e = Len(made) + 1
      /\ elements \in [0..MaxSize -> (1..Len(made)) \union {Null}]
  BY TypeFacts
<1>1. x.elements[i] = elements[i]
  BY <1>0 DEF LoopInv
<1>2. /\ y.made = Connect(x.made, x.ele, 0, elements[i])
      /\ y.elements = [x.elements EXCEPT ![i] = x.ele] /\ y.ele = elements[i]
  BY <1>1 DEF ShiftIn
<1>3. /\ n = 1 => x.ele = e
      /\ n # 1 => /\ x.ele = elements[i - 1] /\ i - 1 \in 0..(size - 1) /\ i - 1 \in 0..MaxSize
                  /\ x.ele \in 1..Len(made)
  <2>1. CASE n = 1
    BY <2>1 DEF LoopInv
  <2>2. CASE n # 1
    <3>1. n - 1 # 0 /\ pos + (n - 1) - 1 = i - 1 /\ i - 1 \in 0..(size - 1) /\ i - 1 \in 0..MaxSize
      BY <1>0, <2>2
    <3>2. x.ele = elements[i - 1]
      BY <3>1 DEF LoopInv
    <3> QED
      BY <2>2, <3>1, <3>2, TypeFacts
  <2> QED
    BY <2>1, <2>2
<1>4. Wired(x.made) /\ Len(x.made) = e /\ x.ele \in 1..e /\ elements[i] \in (1..e) \union {Null}
  BY <1>0, <1>3 DEF LoopInv
<1>5. /\ Wired(y.made) /\ Len(y.made) = e /\ Hop(y.made, x.ele) = elements[i]
      /\ \A k \in 1..e : k # x.ele => Hop(y.made, k) = Hop(x.made, k)
  <2>1. x.ele \in 1..Len(x.made) /\ elements[i] \in (1..Len(x.made)) \union {Null}
    BY <1>4
  <2>2. PICK els, d, next : els = x.made /\ d = x.ele /\ next = elements[i]
    OBVIOUS
  <2>3. /\ Wired(Connect(els, d, 0, next)) /\ Len(Connect(els, d, 0, next)) = Len(els)
        /\ Hop(Connect(els, d, 0, next), d) = next
        /\ \A k \in 1..Len(els) : k # d => Hop(Connect(els, d, 0, next), k) = Hop(els, k)
    <3>1. Wired(els) /\ d \in 1..Len(els) /\ next \in (1..Len(els)) \union {Null}
      BY <1>4, <2>1, <2>2
    <3> QED
      BY <3>1, ConnectIs
  <2> QED
    BY <1>2, <1>4, <2>2, <2>3
<1>6. y.elements = [j \in 0..MaxSize |-> IF n > 0 /\ j = pos THEN e
                                         ELSE IF j \in (pos + 1)..(pos + n - 1) THEN elements[j - 1]
                                         ELSE elements[j]]
  <2>1. x.elements = [j \in 0..MaxSize |-> IF n - 1 > 0 /\ j = pos THEN e
                                           ELSE IF j \in (pos + 1)..(pos + (n - 1) - 1) THEN elements[j - 1]
                                           ELSE elements[j]]
    BY DEF LoopInv
  <2>2. DOMAIN y.elements = 0..MaxSize /\ y.elements = [j \in 0..MaxSize |-> y.elements[j]]
    BY <1>2, <2>1
  <2>3. ASSUME NEW j \in 0..MaxSize
        PROVE  y.elements[j] = IF n > 0 /\ j = pos THEN e
                               ELSE IF j \in (pos + 1)..(pos + n - 1) THEN elements[j - 1]
                               ELSE elements[j]
    <3>1. CASE j = i
      <4>1. y.elements[j] = x.ele
        BY <1>2, <2>1, <3>1
      <4>2. CASE n = 1
        BY <1>3, <3>1, <4>1, <4>2
      <4>3. CASE n # 1
        <5>1. j # pos /\ j \in (pos + 1)..(pos + n - 1)
          BY <3>1, <4>3
        <5> QED
          BY <1>3, <3>1, <4>1, <4>3, <5>1
      <4> QED
        BY <4>2, <4>3
    <3>2. CASE j # i
      <4>1. y.elements[j] = x.elements[j]
        BY <1>2, <2>1, <3>2
      <4>2. /\ (n - 1 > 0 /\ j = pos <=> n > 0 /\ j = pos)
            /\ (j \in (pos + 1)..(pos + (n - 1) - 1) <=> j \in (pos + 1)..(pos + n - 1))
        BY <3>2
      <4> QED
        BY <2>1, <4>1, <4>2
    <3> QED
      BY <3>1, <3>2
  <2> QED
    BY <2>2, <2>3
<1>7. ASSUME InStep, NEW k \in 1..e
      PROVE  Hop(y.made, k) = IF n > 0 /\ k = e THEN elements[pos]
                              ELSE IF n = size - pos + 1 /\ k = elements[size - 1] THEN elements[size]
                              ELSE Hop(new, k)
  <2>1. Hop(x.made, k) = IF n - 1 > 0 /\ k = e THEN elements[pos] ELSE Hop(new, k)
    <3>1. n - 1 # size - pos + 1
      BY <1>0
    <3> QED
      BY <1>7, <3>1 DEF LoopInv
  <2>2. CASE n = 1
    <3>1. x.ele = e /\ i = pos /\ n # size - pos + 1
      BY <1>0, <1>3, <2>2
    <3> QED
      BY <1>5, <2>1, <2>2, <3>1
  <2>3. CASE n # 1
    <3> DEFINE d == elements[i - 1]
    <3>1. x.ele = d /\ i - 1 \in 0..(size - 1) /\ d \in 1..Len(made) /\ d # e
      BY <1>0, <1>3, <2>3, SMTT(40)
    <3>2. k # d => Hop(y.made, k) = Hop(x.made, k)
      BY <1>5, <3>1
    <3>3. Hop(y.made, d) = elements[i]
      BY <1>5, <3>1
    <3>4. CASE n = size - pos + 1
      <4>1. i - 1 = size - 1 /\ i = size
        BY <1>0, <3>4
      <4> QED
        BY <2>1, <2>3, <3>1, <3>2, <3>3, <3>4, <4>1
    <3>5. CASE n # size - pos + 1
      <4>1. i - 1 \in 0..(size - 2) /\ (i - 1) + 1 = i /\ size # 0
        BY <1>0, <2>3, <3>5, SMTT(40)
      <4>2. Hop(made, d) = elements[i]
        BY <1>7, <4>1 DEF InStep
      <4>3. Hop(new, d) = elements[i]
        BY <3>1, <4>2 DEF Hop
      <4> QED
        BY <2>1, <2>3, <3>1, <3>2, <3>3, <3>5, <4>3
    <3> QED
      BY <3>4, <3>5
  <2> QED
    BY <2>2, <2>3
<1>8. n # 0
  OBVIOUS
<1> HIDE DEF y
<1> QED
  BY <1>2, <1>5, <1>6, <1>7, <1>8 DEF LoopInv, y

(* So all of them do.                                                      *)
LEMMA InsertLoopIs ==
  ASSUME IInv, NEW new, Wired(new), Len(new) = Len(made) + 1, Len(new) <= MaxSize,
         \A k \in 1..Len(made) : new[k] = made[k],
         NEW pos \in Nat, pos < size
  PROVE  LoopInv(InsertLoop(Len(new), new, pos), size - pos + 1, new, pos)
<1> DEFINE e == Len(new)
           turns == size - pos + 1
           start == [made |-> new, elements |-> elements, ele |-> e]
           U == [made : Seq(ElementsOf(e)), elements : [0..MaxSize -> (1..e) \union {Null}],
                 ele : (1..e) \union {Null}]
           Q == [n \in 0..turns |-> {x \in U : LoopInv(x, n, new, pos)}]
<1>0. /\ size \in Nat /\ size <= Len(made) /\ Len(made) \in Nat /\ MaxSize \in Nat /\ turns \in Nat
      /\ e = Len(made) + 1 /\ elements \in [0..MaxSize -> (1..Len(made)) \union {Null}]
  BY TypeFacts
<1>1. start \in Q[0]
  <2>1. new \in Seq(ElementsOf(e)) /\ elements \in [0..MaxSize -> (1..e) \union {Null}] /\ e \in (1..e) \union {Null}
    BY <1>0 DEF Wired
  <2>2. start \in U /\ start.made = new /\ start.elements = elements /\ start.ele = e
    BY <2>1
  <2>3. elements = [i \in 0..MaxSize |-> IF 0 > 0 /\ i = pos THEN e
                                         ELSE IF i \in (pos + 1)..(pos + 0 - 1) THEN elements[i - 1]
                                         ELSE elements[i]]
    <3>1. \A i \in 0..MaxSize : i \notin (pos + 1)..(pos + 0 - 1)
      OBVIOUS
    <3> QED
      BY <1>0, <3>1
  <2>4. 0 # size - pos + 1 /\ 0 \in 0..turns
    BY <1>0
  <2> HIDE DEF start
  <2>5. LoopInv(start, 0, new, pos)
    BY <2>2, <2>3, <2>4 DEF LoopInv
  <2> QED
    BY <2>2, <2>4, <2>5
<1>2. ASSUME NEW n \in 1..turns, NEW x \in Q[n - 1] PROVE ShiftIn(x, pos + n - 1) \in Q[n]
  <2>1. n - 1 \in 0..turns /\ n \in 0..turns /\ x \in U /\ LoopInv(x, n - 1, new, pos)
    BY <1>0, <1>2
  <2> DEFINE y == ShiftIn(x, pos + n - 1)
  <2>2. LoopInv(y, n, new, pos)
    BY <1>0, <2>1, InsertTurn
  <2>3. y = [made |-> y.made, elements |-> y.elements, ele |-> y.ele]
    BY DEF ShiftIn
  <2>4. y.made \in Seq(ElementsOf(e))
    BY <2>2 DEF LoopInv, Wired
  <2>5. n # 0 /\ pos + n - 1 \in 0..MaxSize
    BY <1>0
  <2>6. y.ele \in (1..e) \union {Null}
    <3>1. y.ele = elements[pos + n - 1]
      BY <2>2, <2>5 DEF LoopInv
    <3> QED
      BY <1>0, <2>5, <3>1
  <2>7. y.elements \in [0..MaxSize -> (1..e) \union {Null}]
    <3>1. y.elements = [i \in 0..MaxSize |-> IF n > 0 /\ i = pos THEN e
                                             ELSE IF i \in (pos + 1)..(pos + n - 1) THEN elements[i - 1]
                                             ELSE elements[i]]
      BY <2>2 DEF LoopInv
    <3>2. e \in (1..e) \union {Null}
      BY <1>0
    <3>3. \A i \in 0..MaxSize : elements[i] \in (1..e) \union {Null}
      BY <1>0
    <3>4. \A i \in 0..MaxSize : i \in (pos + 1)..(pos + n - 1) => i - 1 \in 0..MaxSize
      BY <1>0
    <3> QED
      BY <3>1, <3>2, <3>3, <3>4
  <2> HIDE DEF y
  <2>8. y \in U
    BY <2>3, <2>4, <2>6, <2>7
  <2> HIDE DEF U
  <2>9. y \in Q[n]
    BY <2>1, <2>2, <2>8
  <2> QED
    BY <2>9 DEF y
<1>3. InsertTurns(e, new, pos, turns) \in Q[turns]
  <2> HIDE DEF Q, turns, e
  <2>1. turns \in Nat /\ start \in Q[0] /\ \A n \in 1..turns : \A x \in Q[n - 1] : ShiftIn(x, pos + n - 1) \in Q[n]
    BY <1>0, <1>1, <1>2
  <2> QED
    BY <2>1, InsertTurnsKeep
<1>4. turns \in 0..turns
  BY <1>0
<1> QED
  BY <1>3, <1>4 DEF InsertLoop

(* An insertion calls null if nothing was left behind the last element,    *)
(* and otherwise leaves the ports and the array in step exactly if it is   *)
(* in front and what was left there is the last element.                   *)
LEMMA InsertStep ==
  ASSUME IInv, NEW kind \in Kinds, NEW way \in Ways, NEW pos \in 0..(MaxSize - 1),
         ElementInsert(kind, way, pos)
  PROVE  /\ IInv' /\ (crashed' <=> elements[size] = Null)
         /\ InStep /\ ~crashed' /\ InStep' => pos = 0 /\ elements[size] = elements[size - 1]
         /\ InStep /\ ~crashed' /\ pos = 0 /\ elements[size] = elements[size - 1] => InStep'
<1> DEFINE e == Len(made) + 1
           new == Append(made, NewElement(kind, way))
           s == InsertLoop(e, new, pos)
           l == elements[size - 1]
           t == elements[size]
<1>0. /\ size \in Nat /\ size <= Len(made) /\ Len(made) \in Nat /\ MaxSize \in Nat /\ e <= MaxSize
      /\ pos \in Nat /\ pos < size /\ ~crashed /\ op' = [name |-> "insert", pos |-> pos]
      /\ elements \in [0..MaxSize -> (1..Len(made)) \union {Null}]
      /\ \A i \in 0..(size - 1) : elements[i] \in 1..Len(made)
      /\ Null \notin 0..MaxSize
  BY TypeFacts DEF ElementInsert
<1>1. /\ elements' = s.elements
      /\ s.ele = Null => crashed' = TRUE /\ made' = s.made /\ size' = size
      /\ s.ele # Null => made' = Connect(s.made, s.ele, 0, Null) /\ size' = size + 1 /\ crashed' = FALSE
  BY <1>0 DEF ElementInsert
<1>2. /\ Wired(new) /\ Len(new) = e /\ Hop(new, e) = Null
      /\ \A k \in 1..Len(made) : new[k] = made[k]
  BY NewIs, TypeFacts
<1>3. LoopInv(s, size - pos + 1, new, pos)
  <2>1. LoopInv(InsertLoop(Len(new), new, pos), size - pos + 1, new, pos)
    <3> HIDE DEF new
    <3> QED
      BY <1>0, <1>2, InsertLoopIs
  <2> QED
    BY <1>2, <2>1
<1> HIDE DEF new, s
<1>4. Wired(s.made) /\ Len(s.made) = e
  BY <1>2, <1>3 DEF LoopInv
<1>5. s.ele = t /\ t \in (1..Len(made)) \union {Null}
  <2>1. size - pos + 1 # 0 /\ pos + (size - pos + 1) - 1 = size /\ size \in 0..MaxSize
    BY <1>0
  <2> QED
    BY <1>0, <1>3, <2>1 DEF LoopInv
<1>6. /\ elements'[pos] = e
      /\ \A i \in (pos + 1)..size : elements'[i] = elements[i - 1]
      /\ \A i \in 0..(pos - 1) : elements'[i] = elements[i]
      /\ elements' \in [0..MaxSize -> (1..e) \union {Null}]
  <2>1. elements' = [i \in 0..MaxSize |-> IF size - pos + 1 > 0 /\ i = pos THEN e
                                          ELSE IF i \in (pos + 1)..(pos + (size - pos + 1) - 1) THEN elements[i - 1]
                                          ELSE elements[i]]
    BY <1>1, <1>2, <1>3 DEF LoopInv
  <2>2. size - pos + 1 > 0 /\ pos + (size - pos + 1) - 1 = size
    BY <1>0
  <2>3. elements' = [i \in 0..MaxSize |-> IF i = pos THEN e ELSE IF i \in (pos + 1)..size THEN elements[i - 1] ELSE elements[i]]
    BY <2>1, <2>2
  <2>4. pos \in 0..MaxSize /\ (pos + 1)..size \subseteq 0..MaxSize /\ 0..(pos - 1) \subseteq 0..MaxSize
    BY <1>0
  <2>5. elements' \in [0..MaxSize -> (1..e) \union {Null}]
    <3>1. \A i \in 0..MaxSize : i \in (pos + 1)..size => i - 1 \in 0..MaxSize
      BY <1>0
    <3>2. e \in (1..e) \union {Null} /\ (1..Len(made)) \union {Null} \subseteq (1..e) \union {Null}
      BY <1>0
    <3>3. \A i \in 0..MaxSize : elements[i] \in (1..e) \union {Null}
      BY <1>0, <3>2
    <3> QED
      BY <2>3, <3>1, <3>2, <3>3
  <2> QED
    BY <1>0, <2>3, <2>4, <2>5
<1>7. \A i \in 0..size : elements'[i] # Null
  <2> SUFFICES ASSUME NEW i \in 0..size PROVE elements'[i] # Null
    OBVIOUS
  <2>1. CASE i = pos
    BY <1>0, <1>6, <2>1
  <2>2. CASE i < pos
    <3>1. i \in 0..(pos - 1) /\ i \in 0..(size - 1)
      BY <1>0, <2>2
    <3> QED
      BY <1>0, <1>6, <3>1
  <2>3. CASE i > pos
    <3>1. i \in (pos + 1)..size /\ i - 1 \in 0..(size - 1)
      BY <1>0, <2>3
    <3> QED
      BY <1>0, <1>6, <3>1
  <2> QED
    BY <1>0, <2>1, <2>2, <2>3
<1>8. op' \in [name : {"create", "add", "insert", "remove"}, pos : 0..MaxSize]
  BY <1>0
<1>9. l \in 1..Len(made) /\ size - 1 \in 0..(size - 1) /\ size # 0 /\ size \in (pos + 1)..size
      /\ elements'[size] = l
  BY <1>0, <1>6
<1>10. CASE t = Null
  <2>1. crashed' = TRUE /\ made' = s.made /\ size' = size
    BY <1>1, <1>5, <1>10
  <2>2. TypeOK' /\ Wired(made)'
    <3>1. size' \in 0..e /\ \A i \in 0..(size' - 1) : elements'[i] # Null
      BY <1>0, <1>7, <2>1
    <3> QED
      BY <1>0, <1>4, <1>6, <1>8, <2>1, <3>1, NextTypes
  <2>3. ~AddedOnly'
    <3>1. e \in Ids' /\ ~(e <= size')
      BY <1>0, <1>4, <2>1 DEF Ids
    <3> QED
      BY <3>1 DEF AddedOnly
  <2> QED
    BY <1>10, <2>1, <2>2, <2>3 DEF IInv, Built
<1>11. CASE t # Null
  <2>1. crashed' = FALSE /\ made' = Connect(s.made, t, 0, Null) /\ size' = size + 1
    BY <1>1, <1>5, <1>11
  <2>2. /\ Wired(made') /\ Len(made') = e /\ Hop(made', t) = Null
        /\ \A k \in 1..e : k # t => Hop(made', k) = Hop(s.made, k)
    <3>1. PICK els, d, next : els = s.made /\ d = t /\ next = Null
      OBVIOUS
    <3>2. Wired(els) /\ Len(els) = e /\ d \in 1..Len(els) /\ next \in (1..Len(els)) \union {Null}
      BY <1>0, <1>4, <1>5, <1>11, <3>1
    <3>3. /\ Wired(Connect(els, d, 0, next)) /\ Len(Connect(els, d, 0, next)) = Len(els)
          /\ Hop(Connect(els, d, 0, next), d) = next
          /\ \A k \in 1..Len(els) : k # d => Hop(Connect(els, d, 0, next), k) = Hop(els, k)
      BY <3>2, ConnectIs
    <3> QED
      BY <2>1, <3>1, <3>2, <3>3
  <2>3. TypeOK' /\ Wired(made)'
    <3>1. size' \in 0..e /\ \A i \in 0..(size' - 1) : elements'[i] # Null
      <4>1. size' - 1 = size
        BY <1>0, <2>1
      <4> QED
        BY <1>0, <1>7, <2>1, <4>1
    <3> QED
      BY <1>0, <1>6, <1>8, <2>1, <2>2, <3>1, NextTypes
  <2>4. ~AddedOnly'
    <3> SUFFICES ASSUME AddedOnly' PROVE FALSE
      OBVIOUS
    <3>1. e \in Ids'
      BY <1>0, <2>2 DEF Ids
    <3>2. e <= size + 1 /\ elements'[e - 1] = e
      BY <2>1, <3>1 DEF AddedOnly
    <3>3. e - 1 = size
      BY <1>0, <3>2
    <3> QED
      BY <1>0, <1>9, <3>2, <3>3
  <2>5. IInv'
    BY <2>3, <2>4 DEF IInv, Built
  <2>6. ASSUME InStep
        PROVE  /\ Hop(s.made, e) = elements[pos] /\ Hop(s.made, l) = t
               /\ \A i \in 0..(size - 2) : Hop(s.made, elements[i]) = elements[i + 1]
    <3>1. /\ size - pos + 1 > 0
          /\ \A k \in 1..e : Hop(s.made, k) = IF k = e THEN elements[pos]
                                              ELSE IF k = l THEN t ELSE Hop(new, k)
      BY <1>0, <1>2, <1>3, <2>6 DEF LoopInv
    <3>2. ASSUME NEW i \in 0..(size - 2) PROVE Hop(s.made, elements[i]) = elements[i + 1]
      <4>1. elements[i] \in 1..Len(made) /\ elements[i] # e /\ elements[i] \in 1..e
        BY <1>0
      <4>2. elements[i] # l
        BY <2>6, LastOnce
      <4>3. Hop(new, elements[i]) = Hop(made, elements[i])
        BY <1>2, <4>1 DEF Hop
      <4>4. Hop(made, elements[i]) = elements[i + 1]
        BY <1>9, <2>6 DEF InStep
      <4> QED
        BY <3>1, <4>1, <4>2, <4>3, <4>4
    <3>3. e \in 1..e /\ l \in 1..e /\ l # e
      BY <1>0, <1>9
    <3> QED
      BY <3>1, <3>2, <3>3
  <2>7. ASSUME InStep, InStep' PROVE pos = 0 /\ t = l
    <3>1. size' # 0 /\ size' - 1 = size /\ size' - 2 = size - 1
      BY <1>0, <2>1
    <3>2. Hop(made', l) = Null /\ \A i \in 0..(size - 1) : Hop(made', elements'[i]) = elements'[i + 1]
      BY <1>9, <2>7, <3>1 DEF InStep, Hop
    <3>3. t = l
      <4>1. l # t => Hop(made', l) = t
        BY <1>0, <1>9, <2>2, <2>6, <2>7
      <4> QED
        BY <1>11, <3>2, <4>1
    <3>4. ASSUME pos # 0 PROVE FALSE
      <4>1. pos - 1 \in 0..(pos - 1) /\ pos - 1 \in 0..(size - 2) /\ pos - 1 \in 0..(size - 1) /\ (pos - 1) + 1 = pos
        BY <1>0, <3>4
      <4>2. Hop(made', elements[pos - 1]) = e
        BY <1>6, <3>2, <4>1
      <4>3. elements[pos - 1] # t
        BY <2>7, <3>3, <4>1, LastOnce
      <4>4. Hop(s.made, elements[pos - 1]) = elements[pos]
        BY <2>6, <2>7, <4>1
      <4>5. elements[pos - 1] \in 1..e /\ elements[pos] # e
        BY <1>0, <4>1
      <4> QED
        BY <2>2, <4>2, <4>3, <4>4, <4>5
    <3> QED
      BY <3>3, <3>4
  <2>8. ASSUME InStep, pos = 0, t = l PROVE InStep'
    <3>1. size' # 0 /\ size' - 1 = size /\ size' - 2 = size - 1
      BY <1>0, <2>1
    <3>2. Hop(made', elements'[size]) = Null
      BY <1>9, <2>2, <2>8
    <3>3. ASSUME NEW i \in 0..(size - 1) PROVE Hop(made', elements'[i]) = elements'[i + 1]
      <4>1. i + 1 \in (pos + 1)..size /\ elements'[i + 1] = elements[i]
        BY <1>0, <1>6, <2>8
      <4>2. CASE i = 0
        <5>1. elements'[i] = e /\ e # t /\ e \in 1..e
          BY <1>0, <1>6, <1>9, <2>8, <4>2
        <5> QED
          BY <2>2, <2>6, <2>8, <4>1, <4>2, <5>1
      <4>3. CASE i # 0
        <5>1. i \in (pos + 1)..size /\ i - 1 \in 0..(size - 2) /\ (i - 1) + 1 = i /\ i - 1 \in 0..(size - 1)
          BY <1>0, <2>8, <4>3
        <5>2. elements'[i] = elements[i - 1]
          BY <1>6, <5>1
        <5>3. elements[i - 1] # t /\ elements[i - 1] \in 1..e
          BY <1>0, <2>8, <5>1, LastOnce
        <5>4. Hop(s.made, elements[i - 1]) = elements[i]
          BY <2>6, <2>8, <5>1
        <5> QED
          BY <2>2, <4>1, <5>2, <5>3, <5>4
      <4> QED
        BY <4>2, <4>3
    <3> QED
      BY <3>1, <3>2, <3>3 DEF InStep, Hop
  <2> QED
    BY <1>11, <2>1, <2>5, <2>7, <2>8
<1> QED
  BY <1>10, <1>11

----------------------------------------------------------------------------
(* The way of the packets.                                                 *)

(* The first n places of the array.                                        *)
Listing(n) == [i \in 1..n |-> elements[i - 1]]

(* Their number, the last of them, and one more of them.                   *)
LEMMA ListedIs ==
  ASSUME IInv
  PROVE  /\ \A n \in 0..size : Listing(n) \in Seq(1..Len(made)) /\ Len(Listing(n)) = n
         /\ Listed = Listing(size) /\ Listed \in Seq(1..Len(made)) /\ Len(Listed) = size
         /\ \A n \in 1..size : Listing(n) # <<>> /\ Last(Listing(n)) = elements[n - 1]
         /\ \A n \in 0..(size - 1) : Append(Listing(n), elements[n]) = Listing(n + 1)
         /\ WayStart = IF size = 0 THEN Listing(0) ELSE Listing(1)
<1>0. size \in Nat /\ \A i \in 0..(size - 1) : elements[i] \in 1..Len(made)
  BY TypeFacts
<1>1. ASSUME NEW n \in 0..size PROVE Listing(n) \in Seq(1..Len(made)) /\ Len(Listing(n)) = n
  <2>1. \A i \in 1..n : i - 1 \in 0..(size - 1)
    BY <1>0
  <2>2. \A i \in 1..n : elements[i - 1] \in 1..Len(made)
    BY <1>0, <2>1
  <2>3. Listing(n) \in [1..n -> 1..Len(made)] /\ n \in Nat
    BY <1>0, <2>2 DEF Listing
  <2> QED
    BY <2>3
<1>2. Listed = Listing(size)
  BY DEF Listed, Listing
<1>3. ASSUME NEW n \in 1..size PROVE Listing(n) # <<>> /\ Last(Listing(n)) = elements[n - 1]
  <2>1. n \in 0..size /\ n \in 1..n
    BY <1>0
  <2>2. Len(Listing(n)) = n /\ Listing(n)[n] = elements[n - 1]
    BY <1>1, <2>1 DEF Listing
  <2> QED
    BY <2>1, <2>2 DEF Last
<1>4. ASSUME NEW n \in 0..(size - 1) PROVE Append(Listing(n), elements[n]) = Listing(n + 1)
  <2>1. n \in 0..size /\ n \in Nat
    BY <1>0
  <2>2. Listing(n) \in Seq(1..Len(made)) /\ Len(Listing(n)) = n
    BY <1>1, <2>1
  <2>3. Append(Listing(n), elements[n]) = [i \in 1..(n + 1) |-> IF i = n + 1 THEN elements[n] ELSE Listing(n)[i]]
    BY <2>1, <2>2
  <2>4. \A i \in 1..(n + 1) : (IF i = n + 1 THEN elements[n] ELSE Listing(n)[i]) = elements[i - 1]
    BY <2>1 DEF Listing
  <2> QED
    BY <2>3, <2>4 DEF Listing
<1>5. WayStart = IF size = 0 THEN Listing(0) ELSE Listing(1)
  <2>1. Listing(0) = <<>>
    BY DEF Listing
  <2>2. Listing(1) = <<elements[0]>>
    BY DEF Listing
  <2> QED
    BY <2>1, <2>2 DEF WayStart
<1>6. size \in 0..size
  BY <1>0
<1> QED
  BY <1>1, <1>2, <1>3, <1>4, <1>5, <1>6

(* If the ports say what the array says, packets go where it says: after n *)
(* steps the way is the first n + 1 places, or all.                        *)
LEMMA InStepIsWay == IInv /\ InStep => Way = Listed
<1> SUFFICES ASSUME IInv, InStep PROVE Way = Listed
  OBVIOUS
<1>0. size \in Nat /\ size <= MaxSize /\ MaxSize \in Nat
  BY TypeFacts
<1> DEFINE At(n) == Listing(IF n + 1 <= size THEN n + 1 ELSE size)
           Q == [n \in 0..MaxSize |-> {At(n)}]
<1>1. WayStart \in Q[0]
  <2>1. 0 \in 0..MaxSize /\ (size = 0 <=> ~(0 + 1 <= size)) /\ 0 + 1 = 1
    BY <1>0
  <2> QED
    BY <2>1, ListedIs
<1>2. ASSUME NEW n \in 1..MaxSize, NEW x \in Q[n - 1] PROVE Further(x) \in Q[n]
  <2>1. n \in 0..MaxSize /\ n - 1 \in 0..MaxSize /\ (n - 1) + 1 = n
    BY <1>0
  <2>2. x = Listing(IF n <= size THEN n ELSE size)
    BY <1>2, <2>1
  <2>3. Further(x) = At(n)
    <3>1. CASE size = 0
      <4>1. x = Listing(0) /\ x = <<>> /\ At(n) = Listing(0)
        BY <2>1, <2>2, <3>1 DEF Listing
      <4> QED
        BY <4>1 DEF Further
    <3>2. CASE size # 0 /\ n + 1 <= size
      <4>1. n \in 1..size /\ n \in 0..(size - 1) /\ n - 1 \in 0..(size - 2)
        BY <1>0, <3>2
      <4>2. x = Listing(n) /\ x # <<>> /\ Last(x) = elements[n - 1]
        <5>1. (IF n <= size THEN n ELSE size) = n
          BY <4>1
        <5>2. x = Listing(n)
          BY <2>2, <5>1
        <5> QED
          BY <4>1, <5>2, ListedIs
      <4>3. Hop(made, elements[n - 1]) = elements[n] /\ elements[n] # Null
        <5>1. Hop(made, elements[n - 1]) = elements[(n - 1) + 1]
          BY <3>2, <4>1 DEF InStep
        <5> QED
          BY <2>1, <4>1, <5>1, TypeFacts
      <4>4. Further(x) = Append(x, elements[n])
        BY <4>2, <4>3 DEF Further, Hop
      <4> QED
        BY <3>2, <4>1, <4>2, <4>4, ListedIs
    <3>3. CASE size # 0 /\ ~(n + 1 <= size)
      <4>1. x = Listing(size) /\ size \in 1..size /\ At(n) = Listing(size)
        <5>1. (IF n <= size THEN n ELSE size) = size
          BY <1>0, <2>1, <3>3
        <5> QED
          BY <1>0, <2>2, <3>3, <5>1
      <4>2. Last(x) = elements[size - 1] /\ Hop(made, elements[size - 1]) = Null
        BY <3>3, <4>1, ListedIs DEF InStep
      <4> QED
        BY <4>1, <4>2 DEF Further, Hop
    <3> QED
      BY <3>1, <3>2, <3>3
  <2> HIDE DEF At
  <2> QED
    BY <2>1, <2>3
<1>3. Way \in Q[MaxSize]
  <2> HIDE DEF Q
  <2> QED
    BY <1>0, <1>1, <1>2, WayKeeps
<1>4. At(MaxSize) = Listing(size) /\ MaxSize \in 0..MaxSize
  BY <1>0
<1> QED
  BY <1>3, <1>4, ListedIs

(* A way of n steps follows the ports, and was cut short only at an end.   *)
Follows(x, n) ==
  /\ x \in Seq(1..Len(made))
  /\ size = 0 => x = <<>>
  /\ size # 0 => /\ x # <<>>
                 /\ \A i \in 1..(Len(x) - 1) : Hop(made, x[i]) = x[i + 1]
                 /\ Len(x) = n + 1 \/ Hop(made, x[Len(x)]) = Null

(* Way follows the ports, for as many steps as there can be elements.      *)
LEMMA WayFollows == IInv => Follows(Way, MaxSize)
<1> SUFFICES ASSUME IInv PROVE Follows(Way, MaxSize)
  OBVIOUS
<1>0. size \in Nat /\ size <= MaxSize /\ MaxSize \in Nat /\ Len(made) \in Nat
  BY TypeFacts
<1> DEFINE Q == [n \in 0..MaxSize |-> {x \in Seq(1..Len(made)) : Follows(x, n)}]
<1>1. WayStart \in Q[0]
  <2>1. CASE size = 0
    <3>1. WayStart = <<>>
      BY <2>1 DEF WayStart
    <3> QED
      BY <1>0, <2>1, <3>1 DEF Follows
  <2>2. CASE size # 0
    <3>1. elements[0] \in 1..Len(made)
      <4>1. 0 \in 0..(size - 1)
        BY <1>0, <2>2
      <4> QED
        BY <4>1, TypeFacts
    <3>2. WayStart = <<elements[0]>> /\ Len(WayStart) = 1
      BY <2>2 DEF WayStart
    <3>3. Follows(WayStart, 0)
      BY <2>2, <3>1, <3>2 DEF Follows
    <3> QED
      BY <1>0, <3>3 DEF Follows
  <2> QED
    BY <2>1, <2>2
<1>2. ASSUME NEW n \in 1..MaxSize, NEW x \in Q[n - 1] PROVE Further(x) \in Q[n]
  <2>1. n \in 0..MaxSize /\ n - 1 \in 0..MaxSize /\ (n - 1) + 1 = n
    BY <1>0
  <2>2. Follows(x, n - 1)
    BY <1>2, <2>1
  <2>3. Follows(Further(x), n)
    <3>1. CASE x = <<>>
      BY <2>2, <3>1 DEF Further, Follows
    <3>2. CASE x # <<>>
      <4>1. x \in Seq(1..Len(made)) /\ Len(x) \in Nat \ {0} /\ size # 0 /\ Last(x) = x[Len(x)] /\ x[Len(x)] \in 1..Len(made)
        BY <2>2, <3>2 DEF Follows, Last
      <4>2. CASE Hop(made, x[Len(x)]) = Null
        <5>1. Further(x) = x
          BY <4>1, <4>2 DEF Further, Hop
        <5> QED
          BY <2>2, <4>1, <4>2, <5>1 DEF Follows
      <4>3. CASE Hop(made, x[Len(x)]) # Null
        <5> DEFINE h == Hop(made, x[Len(x)])
        <5>1. Further(x) = Append(x, h)
          BY <3>2, <4>1, <4>3 DEF Further, Hop
        <5>2. h \in 1..Len(made)
          BY <4>1, <4>3, TypeFacts DEF Wired, Hop
        <5>3. Len(x) = n
          BY <2>1, <2>2, <4>1, <4>3 DEF Follows
        <5> HIDE DEF h
        <5> DEFINE y == Append(x, h)
        <5>4. /\ y \in Seq(1..Len(made)) /\ Len(y) = n + 1 /\ y # <<>> /\ y[n + 1] = h
              /\ \A i \in 1..n : y[i] = x[i]
          BY <4>1, <5>2, <5>3, SMTT(40)
        <5> HIDE DEF y
        <5>5. \A i \in 1..(Len(y) - 1) : Hop(made, y[i]) = y[i + 1]
          <6> SUFFICES ASSUME NEW i \in 1..n PROVE Hop(made, y[i]) = y[i + 1]
            BY <5>4
          <6>1. CASE i = n
            BY <5>3, <5>4, <6>1 DEF h
          <6>2. CASE i # n
            <7>1. i \in 1..(Len(x) - 1) /\ i + 1 \in 1..n
              BY <5>3, <6>2
            <7> QED
              BY <2>2, <4>1, <5>4, <7>1 DEF Follows
          <6> QED
            BY <6>1, <6>2
        <5> QED
          BY <4>1, <5>1, <5>4, <5>5 DEF Follows, y
      <4> QED
        BY <4>2, <4>3
    <3> QED
      BY <3>1, <3>2
  <2>4. Further(x) \in Seq(1..Len(made))
    BY <2>3 DEF Follows
  <2> QED
    BY <2>1, <2>3, <2>4
<1>3. Way \in Q[MaxSize]
  <2> HIDE DEF Q
  <2> QED
    BY <1>0, <1>1, <1>2, WayKeeps
<1> QED
  BY <1>0, <1>3

(* Conversely a way that is the array was cut short at its last entry, and *)
(* each entry before it sends to the next.                                 *)
LEMMA WayIsInStep == IInv /\ Way = Listed => InStep
<1> SUFFICES ASSUME IInv, Way = Listed, size # 0
             PROVE  /\ \A i \in 0..(size - 2) : Hop(made, elements[i]) = elements[i + 1]
                    /\ Hop(made, elements[size - 1]) = Null
  BY DEF InStep
<1>0. size \in Nat /\ size <= MaxSize /\ MaxSize \in Nat
  BY TypeFacts
<1>1. Len(Listed) = size /\ \A i \in 1..size : Listed[i] = elements[i - 1]
  BY ListedIs DEF Listed
<1>2. Follows(Listed, MaxSize)
  BY WayFollows
<1>3. Hop(made, elements[size - 1]) = Null
  <2>1. size \in 1..size /\ size # MaxSize + 1
    BY <1>0
  <2> QED
    BY <1>1, <1>2, <2>1 DEF Follows
<1>4. ASSUME NEW i \in 0..(size - 2) PROVE Hop(made, elements[i]) = elements[i + 1]
  <2>1. i + 1 \in 1..(size - 1) /\ i + 1 \in 1..size /\ (i + 1) + 1 \in 1..size /\ (i + 1) - 1 = i
        /\ ((i + 1) + 1) - 1 = i + 1
    BY <1>0
  <2>2. Hop(made, Listed[i + 1]) = Listed[(i + 1) + 1]
    BY <1>1, <1>2, <2>1 DEF Follows
  <2> QED
    BY <1>1, <2>1, <2>2
<1> QED
  BY <1>3, <1>4

----------------------------------------------------------------------------
(* The theorems.                                                           *)

(* One step keeps the invariant, whatever is done to whatever pipeline.    *)
LEMMA StepIInv == IInv /\ [Next]_vars => IInv'
<1> SUFFICES ASSUME IInv, [Next]_vars PROVE IInv'
  OBVIOUS
<1>1. ASSUME NEW kind \in Kinds, NEW way \in Ways, ElementAdd(kind, way) PROVE IInv'
  BY <1>1, AddStep
<1>2. ASSUME NEW kind \in Kinds, NEW way \in Ways, NEW pos \in 0..(MaxSize - 1), ElementInsert(kind, way, pos)
      PROVE  IInv'
  BY <1>2, InsertStep
<1>3. ASSUME NEW pos \in 0..(MaxSize - 1), ElementRemove(pos) PROVE IInv'
  BY <1>3, RemoveStep
<1>4. CASE UNCHANGED vars
  <2>1. TypeOK'
    BY <1>4 DEF vars, IInv, TypeOK, Ids, Element
  <2>2. Wired(made)' /\ Built'
    BY <1>4 DEF vars, IInv, Wired, Built, AddedOnly, Ids, Hop
  <2> QED
    BY <2>1, <2>2 DEF IInv
<1> QED
  BY <1>1, <1>2, <1>3, <1>4 DEF Next

(* Spec keeps the inductive invariant.                                     *)
THEOREM Invariance == Spec => []IInv
<1> QED
  BY InitIInv, StepIInv, PTL DEF Spec

(* The array holds elements that were made, and none below size is null,   *)
(* after any additions, insertions and removals of src/pipeline.c.         *)
THEOREM TypeCorrect == Spec => []TypeOK
<1>1. IInv => TypeOK
  BY DEF IInv
<1> QED
  BY <1>1, Invariance, PTL

(* The only port but 0 on which an element dispatches is that of a         *)
(* fastpass to the drop of its own.                                        *)
LEMMA DispatchIsConnected ==
  ASSUME IInv, NEW e \in 1..Len(made), NEW p \in DispatchPorts(made[e].kind), p # 0
  PROVE  made[e].ports[p] # Null
<1>1. made[e].kind = "fastpass" /\ p = 1 /\ p \in PortIds \ {0}
  BY Constants DEF DispatchPorts
<1>2. made[e].ports[p] = OnlyPorts(made[e].kind)[p]
  BY <1>1, TypeFacts DEF Wired
<1>3. OnlyPorts(made[e].kind)[p] = OwnDrop
  BY <1>1 DEF OnlyPorts
<1> QED
  BY <1>2, <1>3, TypeFacts DEF OwnDrop

(* However many elements of whatever kinds a program adds, wrapped how it  *)
(* may, ending with a drop: packets pass them in the order of the array    *)
(* and no port on which an element dispatches is unconnected.              *)
THEOREM AlwaysBuiltToDrop == Spec => []BuiltToDrop
<1>1. IInv => BuiltToDrop
  <2> SUFFICES ASSUME IInv, AddedOnly, size > 0, made[Len(made)].kind \in Drops
               PROVE  /\ Way = Listed
                      /\ \A e \in Ids : \A p \in DispatchPorts(made[e].kind) : made[e].ports[p] # Null
    BY DEF BuiltToDrop
  <2>0. size \in Nat /\ Len(made) \in Nat /\ size <= Len(made) /\ Len(made) <= MaxSize /\ Null \notin 0..MaxSize
    BY TypeFacts
  <2>1. size = Len(made) /\ \A i \in 0..(size - 1) : elements[i] = i + 1
    <3>1. \A e \in 1..Len(made) : e <= size /\ elements[e - 1] = e
      BY DEF AddedOnly, Ids
    <3>2. Len(made) \in 1..Len(made)
      BY <2>0
    <3>3. \A i \in 0..(size - 1) : i + 1 \in 1..Len(made) /\ (i + 1) - 1 = i
      BY <2>0
    <3> QED
      BY <2>0, <3>1, <3>2, <3>3
  <2>2. \A e \in 1..Len(made) : Hop(made, e) = IF e = Len(made) THEN Null ELSE e + 1
    BY DEF IInv, Built, Ids
  <2>3. InStep
    <3>1. \A i \in 0..(size - 2) : Hop(made, elements[i]) = elements[i + 1]
      <4> SUFFICES ASSUME NEW i \in 0..(size - 2) PROVE Hop(made, elements[i]) = elements[i + 1]
        OBVIOUS
      <4>1. i \in 0..(size - 1) /\ i + 1 \in 0..(size - 1) /\ i + 1 \in 1..Len(made) /\ i + 1 # Len(made)
        BY <2>0, <2>1
      <4> QED
        BY <2>1, <2>2, <4>1
    <3>2. Hop(made, elements[size - 1]) = Null
      <4>1. size - 1 \in 0..(size - 1) /\ (size - 1) + 1 = Len(made) /\ Len(made) \in 1..Len(made)
        BY <2>0, <2>1
      <4> QED
        BY <2>1, <2>2, <4>1
    <3> QED
      BY <3>1, <3>2 DEF InStep
  <2>4. ASSUME NEW e \in Ids, NEW p \in DispatchPorts(made[e].kind) PROVE made[e].ports[p] # Null
    <3>0. e \in 1..Len(made)
      BY DEF Ids
    <3>1. CASE p # 0
      BY <3>0, <3>1, DispatchIsConnected
    <3>2. CASE p = 0
      <4>1. e # Len(made)
        BY <2>4 DEF DispatchPorts
      <4>2. Hop(made, e) = e + 1
        BY <2>2, <3>0, <4>1
      <4>3. e + 1 \in 0..MaxSize
        BY <2>0, <3>0, <4>1, Constants
      <4> QED
        BY <2>0, <3>2, <4>2, <4>3 DEF Hop
    <3> QED
      BY <3>1, <3>2
  <2> QED
    BY <2>3, <2>4, InStepIsWay
<1> QED
  BY <1>1, Invariance, PTL

(* Each addition, insertion and removal calls through null in exactly the  *)
(* cases of CallsNull, and otherwise leaves the way of the packets and the *)
(* array in step in exactly the cases of KeepsWay, whatever the size of    *)
(* the pipeline and the edits before it.                                   *)
THEOREM EditsKeepWayHolds == Spec => EditsKeepWay
<1> DEFINE A == Way = Listed => /\ crashed' <=> CallsNull
                                /\ ~crashed' => (Way' = Listed' <=> KeepsWay)
<1>1. IInv => (Way = Listed <=> InStep)
  BY InStepIsWay, WayIsInStep
<1>2. (IInv => (Way = Listed <=> InStep))'
  BY <1>1, PTL
<1>3. IInv /\ [Next]_vars => [A]_vars
  <2> SUFFICES ASSUME IInv, Next, Way = Listed
               PROVE  (crashed' <=> CallsNull) /\ (~crashed' => (Way' = Listed' <=> KeepsWay))
    OBVIOUS
  <2>1. InStep /\ (Way' = Listed' <=> InStep')
    <3>1. IInv'
      BY StepIInv
    <3> QED
      BY <1>1, <1>2, <3>1
  <2> HIDE DEF A
  <2>2. ASSUME NEW kind \in Kinds, NEW way \in Ways, ElementAdd(kind, way)
        PROVE  (crashed' <=> CallsNull) /\ (~crashed' => (InStep' <=> KeepsWay))
    <3>1. ~crashed' /\ op'.name = "add"
      BY <2>2 DEF ElementAdd
    <3>2. InStep'
      BY <2>1, <2>2, AddStep
    <3> QED
      BY <3>1, <3>2 DEF CallsNull, KeepsWay
  <2>3. ASSUME NEW kind \in Kinds, NEW way \in Ways, NEW pos \in 0..(MaxSize - 1), ElementInsert(kind, way, pos)
        PROVE  (crashed' <=> CallsNull) /\ (~crashed' => (InStep' <=> KeepsWay))
    <3>1. op'.name = "insert" /\ op'.pos = pos
      BY <2>3 DEF ElementInsert
    <3>2. /\ crashed' <=> elements[size] = Null
          /\ ~crashed' => (InStep' <=> pos = 0 /\ elements[size] = elements[size - 1])
      BY <2>1, <2>3, InsertStep
    <3> QED
      BY <3>1, <3>2 DEF CallsNull, KeepsWay
  <2>4. ASSUME NEW pos \in 0..(MaxSize - 1), ElementRemove(pos)
        PROVE  (crashed' <=> CallsNull) /\ (~crashed' => (InStep' <=> KeepsWay))
    <3>1. op'.name = "remove" /\ op'.pos = pos
      BY <2>4 DEF ElementRemove
    <3>2. /\ crashed' <=> pos = 0
          /\ ~crashed' => (InStep' <=> made[elements[pos]].wrap = "only" \/ pos = size - 1)
      BY <2>1, <2>4, RemoveStep
    <3> QED
      BY <3>1, <3>2 DEF CallsNull, KeepsWay
  <2> QED
    BY <2>1, <2>2, <2>3, <2>4 DEF Next
<1>4. Spec => [][A]_vars
  BY <1>3, Invariance, PTL DEF Spec
<1> QED
  BY <1>4 DEF EditsKeepWay

=============================================================================
