------------------------------- MODULE Varint -------------------------------
(***************************************************************************)
(* The variable-length integers of the voice protocol: operator<< and       *)
(* operator>> for uint64_t (PacketDataStream.h:189-277), the integer types   *)
(* mapped onto them, and pds_int_len of the sample application.              *)
(*                                                                           *)
(* A uint64_t is the sequence of its eight bytes, the most significant one   *)
(* first, so the shifts and masks of the code pick bytes and the arithmetic  *)
(* is exact.  A varint is read at position k of a sequence d of bytes.       *)
(***************************************************************************)
EXTENDS Integers, Sequences

Byte == 0..255
Word == [1..8 -> Byte]

(* ~i, and i < 2^(8 * (8 - n)). *)
Flip(i) == [k \in 1..8 |-> 255 - i[k]]
Zeros(i, n) == \A k \in 1..n : i[k] = 0

(* The top bit is set and ~i < 2^32. *)
Negative(i) == 128 <= i[1] /\ Zeros(Flip(i), 4)

Plain(i) ==
  IF Zeros(i, 7) /\ i[8] < 128      THEN <<i[8]>>
  ELSE IF Zeros(i, 6) /\ i[7] < 64  THEN <<128 + i[7], i[8]>>
  ELSE IF Zeros(i, 5) /\ i[6] < 32  THEN <<192 + i[6], i[7], i[8]>>
  ELSE IF Zeros(i, 4) /\ i[5] < 16  THEN <<224 + i[5], i[6], i[7], i[8]>>
  ELSE IF Zeros(i, 4)               THEN <<240, i[5], i[6], i[7], i[8]>>
  ELSE <<244, i[1], i[2], i[3], i[4], i[5], i[6], i[7], i[8]>>

Encode(v) ==
  IF ~Negative(v) THEN Plain(v)
  ELSE LET i == Flip(v)
       IN IF Zeros(i, 7) /\ i[8] <= 3 THEN <<252 + i[8]>> ELSE <<248>> \o Plain(i)

(* next(): past the end it gives 0. *)
At(d, k) == IF k <= Len(d) THEN d[k] ELSE 0

(* The bytes F8 to FB in front: each one complements what follows. *)
IsSign(d, k) == At(d, k) \in 248..251
Signs(d, k) ==
  CHOOSE n \in 0..Len(d) : ~IsSign(d, k + n) /\ \A j \in 0..(n - 1) : IsSign(d, k + j)

(* The form is in the first byte: the length, and the bits that count.       *)
(* MeasuredLen is the table of pds_int_len, where the form 1110xxxx has 3.   *)
MeasuredLen(b) ==
  CASE b < 128 \/ b >= 252 -> 1
    [] b \in 128..191       -> 2
    [] b \in 192..239       -> 3
    [] b \in 240..243       -> 5
    [] b \in 244..247       -> 9
ReadLen(b) == IF b \in 224..239 THEN 4 ELSE MeasuredLen(b)
LeadBits(b) ==
  CASE b < 128        -> b
    [] b \in 128..191 -> b - 128
    [] b \in 192..223 -> b - 192
    [] b \in 224..239 -> b - 224
    [] OTHER          -> 0

(* Which of the n calls of next() in an expression reads for operand i: they *)
(* are made from left to right, which is what compilers do and the language  *)
(* leaves open; FromTheRight is the other order.                             *)
FromTheRight(n, i) == n + 1 - i
CallOf(n, i) == i

PlainAt(d, k) ==
  LET b == At(d, k)
      n == ReadLen(b) - 1
  IN [size |-> n + 1,
      value |-> [j \in 1..8 |->
        IF b >= 252 THEN (IF j = 8 THEN 255 - (b - 252) ELSE 255)
        ELSE IF 8 - n < j THEN At(d, k + CallOf(n, j - (8 - n)))
        ELSE IF j = 8 - n THEN LeadBits(b) ELSE 0]]

(* The value, and the number of times next() is called for it. *)
Decode(d, k) ==
  LET n == Signs(d, k)
      r == PlainAt(d, k + n)
  IN [value |-> IF n % 2 = 1 THEN Flip(r.value) ELSE r.value, size |-> n + r.size]

----------------------------------------------------------------------------
(* The integer types are widened to uint64_t and cut off again; a double    *)
(* is written as the integer that has its bits.                             *)
IntTypes == {"int", "unsigned", "short", "ushort", "char", "uchar", "uint64", "double"}
Width(t) ==
  CASE t \in {"int", "unsigned", "float"} -> 4
    [] t \in {"short", "ushort"}          -> 2
    [] t \in {"char", "uchar"}            -> 1
    [] t \in {"uint64", "double"}         -> 8
Signed(t) == t \in {"int", "short", "char"}

Widen(t, v) ==
  LET above == 8 - Width(t)
  IN [k \in 1..8 |-> IF above < k THEN v[k - above]
                     ELSE IF Signed(t) /\ 128 <= v[1] THEN 255 ELSE 0]
Narrow(t, v) == [k \in 1..Width(t) |-> v[8 - Width(t) + k]]

----------------------------------------------------------------------------
(* pds_int_len of the varint at k. *)
pds_int_len(d, k) == LET n == Signs(d, k) IN n + MeasuredLen(At(d, k + n))
=============================================================================
