------------------------------ MODULE Checksum ------------------------------
(***************************************************************************)
(* lib/checksum.c: the checksum that the checksum and merged elements add  *)
(* up, at every width a byte may have: a word is eight bytes, an unsigned  *)
(* int four and an unsigned short two, all little-endian.                  *)
(*                                                                         *)
(* mem is the buffer and whatever lies behind it; size says where the      *)
(* buffer ends.                                                            *)
(***************************************************************************)
EXTENDS Integers, Sequences, FiniteSetsExt, SequencesExt

CONSTANTS
  Byte,      (* number of values of a byte: 256                            *)
  Lengths    (* bound: sizes of the buffers that ChecksumRight goes over   *)

ASSUME ByteAssumption == Byte \in Nat \ {0, 1} /\ Lengths \subseteq Nat

(* b^n.  An unsigned integer of n bytes has Pow(Byte, n) values.           *)
Pow(b, n) == LET p[k \in 0..n] == IF k = 0 THEN 1 ELSE b * p[k - 1] IN p[n]

(* The unsigned integer of n bytes behind the first o of mem.              *)
Load(mem, o, n) == MapThenSumSet(LAMBDA k : mem[o + k] * Pow(Byte, k - 1), 1..n)

(* sum += s; if (sum < s) sum++, on integers of n bytes.                   *)
AddCarry(n, sum, s) ==
  LET t == (sum + s) % Pow(Byte, n) IN IF t < s THEN t + 1 ELSE t

(* The loop over whole words.                                              *)
Words(mem, size) ==
  FoldLeft(LAMBDA sum, w : AddCarry(8, sum, Load(mem, 8 * w, 8)), 0,
           [w \in 1..(size \div 8) |-> w - 1])

(* The last bytes.  The last condition is on the size, not on its lowest   *)
(* bit: one byte is added behind the four and the two.                     *)
Tail8(mem, size, sum) ==
  LET rem   == size % 8
      at    == size - rem
      n4    == IF rem >= 4 THEN 4 ELSE 0
      n2    == IF rem % 4 >= 2 THEN 2 ELSE 0
      n1    == IF rem # 0 THEN 1 ELSE 0
      AddTail(s, part) ==
        IF part.n = 0 THEN s ELSE AddCarry(8, s, Load(mem, part.o, part.n))
  IN FoldLeft(AddTail, sum, << [o |-> at, n |-> n4], [o |-> at + n4, n |-> n2],
                               [o |-> at + n4 + n2, n |-> n1] >>)

(* Mutant: the carry of the last fold is lost.                             *)
FoldDownNoCarry(sum) ==
  LET t1 == AddCarry(4, sum % Pow(Byte, 4), sum \div Pow(Byte, 4))
  IN (t1 + t1 \div Pow(Byte, 2)) % Pow(Byte, 2)

(* From eight bytes to four and to two.                                    *)
FoldDown(sum) ==
  LET t1 == AddCarry(4, sum % Pow(Byte, 4), sum \div Pow(Byte, 4))
  IN AddCarry(2, t1 % Pow(Byte, 2), t1 \div Pow(Byte, 2))

checksum(mem, size) == Pow(Byte, 2) - 1 - FoldDown(Tail8(mem, size, Words(mem, size)))

----------------------------------------------------------------------------
(* Properties.                                                             *)

Memory(n) == [1..n -> 0..(Byte - 1)]

(* The one's complement sum of n bytes, two at a time.                     *)
OnesSum(mem, n) ==
  MapThenSumSet(LAMBDA k : mem[k] * Pow(Byte, (k - 1) % 2), 1..n) % (Pow(Byte, 2) - 1)

(* The bytes that the loop and the conditions go over.                     *)
BytesRead(size) == IF size % 8 \in {2, 4, 6} THEN size + 1 ELSE size

(* No carry is lost between the words, the parts of the tail and the two   *)
(* folds: the result is the complement of the one's complement sum of the  *)
(* bytes read, and of its two zeros the one that only zero bytes have.     *)
ChecksumRight ==
  \A size \in Lengths : \A mem \in Memory(BytesRead(size)) :
    LET sum == Pow(Byte, 2) - 1 - checksum(mem, size) IN
    /\ sum % (Pow(Byte, 2) - 1) = OnesSum(mem, BytesRead(size))
    /\ sum = 0 <=> \A k \in DOMAIN mem : mem[k] = 0

(* lib/checksum.c:22 has the tail "less than 8-bytes long" handled: the    *)
(* result does not depend on what lies behind the buffer.                  *)
TailWithinBuffer ==
  \A size \in Lengths : \A mem \in Memory(size) : \A x, y \in 0..(Byte - 1) :
    checksum(Append(mem, x), size) = checksum(Append(mem, y), size)

=============================================================================
