-------------------------- MODULE PacketDataStream --------------------------
(***************************************************************************)
(* One PacketDataStream over a buffer (PacketDataStream.h): the operations   *)
(* that write and read, in any order.  offset counts bytes from 0, data is a *)
(* sequence, so the byte at offset is data[offset + 1].  left() is           *)
(* maxsize - offset; memory beyond maxsize is never touched.                 *)
(***************************************************************************)
EXTENDS Varint, FiniteSets

CONSTANTS
  Samples,   (* values given to operator<<, as words; a type takes its part *)
  Blocks,    (* byte sequences given to append                              *)
  Bytes,     (* single bytes given to append                                *)
  Types,     (* the C++ types written and read                              *)
  Capacity,  (* the msize of the constructor                                *)
  MaxCalls   (* operations in a behaviour                                   *)

ASSUME StreamAssumption ==
  /\ Samples \subseteq Word /\ Blocks \subseteq Seq(Byte) /\ Bytes \subseteq Byte
  /\ Types \subseteq IntTypes \cup {"float"}
  /\ Capacity \in Nat /\ MaxCalls \in Nat

VARIABLES
  data, maxsize, offset, overshoot, ok,
  log,       (* history: values written and not overwritten since           *)
  building,  (* history: only writes so far                                 *)
  needed,    (* history: bytes those writes asked for                       *)
  calls      (* number of operations                                        *)

cursor == <<offset, overshoot, ok>>
history == <<log, building, needed, calls>>
vars == <<data, maxsize, cursor, history>>

left == maxsize - offset

(* setup; the buffer comes from the caller, here filled with 255. *)
Init ==
  /\ data = [k \in 1..Capacity |-> 255]
  /\ maxsize = Capacity /\ offset = 0 /\ overshoot = 0 /\ ok = TRUE
  /\ log = {} /\ building = TRUE /\ needed = 0 /\ calls = 0

----------------------------------------------------------------------------
Called == calls < MaxCalls /\ calls' = calls + 1

(* What append counts when only n bytes of bs fit. *)
AllMissing(bs, n) == IF n < Len(bs) THEN Len(bs) ELSE 0
Missing(bs, n) == Len(bs) - n

(* append, one byte after the other: what does not fit is only counted. *)
WriteBytes(bs, entries) ==
  LET n == IF Len(bs) <= left THEN Len(bs) ELSE left
  IN /\ Called
     /\ data' = [k \in 1..Capacity |->
                   IF offset < k /\ k <= offset + n THEN bs[k - offset] ELSE data[k]]
     /\ offset' = offset + n
     /\ overshoot' = overshoot + Missing(bs, n)
     /\ ok' = (ok /\ n = Len(bs))
     /\ log' = {e \in log : e.end <= offset} \cup (IF n = Len(bs) THEN entries ELSE {})
     /\ needed' = needed + Len(bs)
     /\ UNCHANGED <<maxsize, building>>

(* append of a string that does not fit fills the rest with zeros. *)
Append1(b) == WriteBytes(<<b>>, {})
AppendBlock(bs) ==
  WriteBytes(IF Len(bs) <= left THEN bs ELSE [k \in 1..Len(bs) |-> 0], {})

(* operator<<: a float is appended byte by byte, everything else a varint. *)
Written(t, v) == IF t = "float" THEN v ELSE Encode(Widen(t, v))
Put(t, v) ==
  LET bs == Written(t, v)
  IN WriteBytes(bs, {[at |-> offset, end |-> offset + Len(bs), type |-> t, value |-> v]})

(* The operators for bool go through unsigned int. *)
PutBool(b) == Put("unsigned", <<0, 0, 0, IF b THEN 1 ELSE 0>>)

----------------------------------------------------------------------------
Reads ==
  /\ Called
  /\ building' = FALSE
  /\ UNCHANGED <<data, maxsize, overshoot, log, needed>>

(* operator>> at offset at of the first n bytes of the buffer. *)
ReadAt(t, n, at) ==
  LET d == SubSeq(data, 1, n)
      r == Decode(d, at + 1)
  IN IF t = "float" THEN [value |-> [k \in 1..4 |-> At(d, at + k)], size |-> 4]
     ELSE [value |-> Narrow(t, r.value), size |-> r.size]

(* Each next() past the end makes ok false and moves nothing. *)
Get(t) ==
  LET n == ReadAt(t, maxsize, offset).size
  IN /\ Reads
     /\ offset' = IF n <= left THEN offset + n ELSE maxsize
     /\ ok' = (ok /\ n <= left)

(* skip, dataBlock, and with n = 1 next and next8. *)
Skip(n) ==
  /\ Reads
  /\ offset' = IF n <= left THEN offset + n ELSE offset
  /\ ok' = (ok /\ n <= left)

rewind == Reads /\ offset' = 0 /\ UNCHANGED ok

truncate ==
  /\ Called
  /\ maxsize' = offset
  /\ building' = FALSE
  /\ UNCHANGED <<data, cursor, log, needed>>

Next ==
  \/ \E t \in Types, v \in Samples : Put(t, Narrow(t, v))
  \/ \E b \in BOOLEAN : PutBool(b)
  \/ \E bs \in Blocks : AppendBlock(bs)
  \/ \E b \in Bytes : Append1(b)
  \/ \E t \in Types : Get(t)
  \/ \E n \in 0..Capacity : Skip(n)
  \/ rewind
  \/ truncate

Spec == Init /\ [][Next]_vars

----------------------------------------------------------------------------
(* The cursor stays in the buffer, whatever is called. *)
TypeOK ==
  /\ data \in [1..Capacity -> Byte]
  /\ maxsize \in 0..Capacity /\ offset \in 0..maxsize
  /\ overshoot \in Nat /\ ok \in BOOLEAN /\ building \in BOOLEAN /\ needed \in Nat
  /\ calls \in 0..MaxCalls

(* A value that was written and not overwritten is read back as it was, and  *)
(* the cursor lands where the writer's did, so the next value is found too.  *)
Readable ==
  \A e \in log : e.end <= maxsize =>
    ReadAt(e.type, maxsize, e.at) = [value |-> e.value, size |-> e.end - e.at]

(* A reader that has only the beginning of a value goes past the end, which  *)
(* makes the stream invalid: no value is mistaken for a shorter one.         *)
CutNoticed ==
  \A e \in log : \A n \in e.at..(e.end - 1) : n <= maxsize =>
    ReadAt(e.type, n, e.at).size > n - e.at

(* size() and undersize() of a stream that was only written to tell how      *)
(* large the buffer would have had to be, and isValid() whether it was.      *)
UndersizeExact ==
  building => offset + overshoot = needed /\ ok = (needed <= Capacity)
=============================================================================
