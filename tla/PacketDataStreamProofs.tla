----------------------- MODULE PacketDataStreamProofs -----------------------
(***************************************************************************)
(* Varints are read back for every 64-bit value, and what is in a stream     *)
(* stays readable whatever is called, for every capacity and every value.    *)
(* The second part is about the voice packets of main.cc, which begin with   *)
(* varints: what their readers find in them, for every session, every number *)
(* and every sequence of frames.                                             *)
(***************************************************************************)
EXTENDS PacketDataStream, VoicePacket, SequenceTheorems, WellFoundedInduction, TLAPS

(* Complementing twice gives the value back, in either direction. *)
LEMMA FlipTwice ==
  ASSUME NEW v \in Word
  PROVE  Flip(v) \in Word /\ Flip(Flip(v)) = v
<1>1. \A k \in 1..8 : 255 - v[k] \in Byte /\ 255 - (255 - v[k]) = v[k]
  BY DEF Word, Byte
<1>2. Flip(v) \in Word
  BY <1>1, Zenon DEF Flip, Word
<1>3. Flip(Flip(v)) = [k \in 1..8 |-> v[k]]
  BY <1>1 DEF Flip
<1> QED
  BY <1>2, <1>3 DEF Word

(* The bytes of a word. *)
LEMMA WordBytes ==
  ASSUME NEW v \in Word
  PROVE  /\ v[1] \in Byte /\ v[2] \in Byte /\ v[3] \in Byte /\ v[4] \in Byte
         /\ v[5] \in Byte /\ v[6] \in Byte /\ v[7] \in Byte /\ v[8] \in Byte
BY DEF Word

LEMMA Lengths == \A b \in Byte : b \notin 248..251 => ReadLen(b) \in 1..9
BY DEF ReadLen, MeasuredLen, Byte

(* Bytes are integers, and the integers up to 255 are bytes. *)
LEMMA ByteInt == \A b : b \in Byte <=> b \in Int /\ 0 <= b /\ b <= 255
BY DEF Byte

LEMMA Small == \A b \in Byte : b <= 3 => b \in 0..3
BY DEF Byte

(* operator<< appends between one and nine bytes for a plain value, and the *)
(* first one is not that of a negative value.                               *)
LEMMA PlainForm ==
  ASSUME NEW v \in Word
  PROVE  /\ Plain(v) \in Seq(Byte)
         /\ Len(Plain(v)) \in 1..9
         /\ Plain(v)[1] \notin 248..255
<1> USE WordBytes
<1>1. CASE Zeros(v, 7) /\ v[8] < 128
  <2>1. Plain(v) = <<v[8]>>
    BY <1>1 DEF Plain
  <2> QED BY <2>1, <1>1 DEF Byte
<1>2. CASE ~(Zeros(v, 7) /\ v[8] < 128) /\ Zeros(v, 6) /\ v[7] < 64
  <2>1. Plain(v) = <<128 + v[7], v[8]>>
    BY <1>2 DEF Plain
  <2>2. 128 + v[7] \in 128..191
    BY <1>2 DEF Byte
  <2> QED BY <2>1, <2>2 DEF Byte
<1>3. CASE /\ ~(Zeros(v, 7) /\ v[8] < 128) /\ ~(Zeros(v, 6) /\ v[7] < 64)
           /\ Zeros(v, 5) /\ v[6] < 32
  <2>1. Plain(v) = <<192 + v[6], v[7], v[8]>>
    BY <1>3 DEF Plain
  <2>2. 192 + v[6] \in 192..223
    BY <1>3 DEF Byte
  <2> QED BY <2>1, <2>2 DEF Byte
<1>4. CASE /\ ~(Zeros(v, 7) /\ v[8] < 128) /\ ~(Zeros(v, 6) /\ v[7] < 64)
           /\ ~(Zeros(v, 5) /\ v[6] < 32) /\ Zeros(v, 4) /\ v[5] < 16
  <2>1. Plain(v) = <<224 + v[5], v[6], v[7], v[8]>>
    BY <1>4 DEF Plain
  <2>2. 224 + v[5] \in 224..239
    BY <1>4 DEF Byte
  <2> QED BY <2>1, <2>2 DEF Byte
<1>5. CASE /\ ~(Zeros(v, 7) /\ v[8] < 128) /\ ~(Zeros(v, 6) /\ v[7] < 64)
           /\ ~(Zeros(v, 5) /\ v[6] < 32) /\ ~(Zeros(v, 4) /\ v[5] < 16) /\ Zeros(v, 4)
  <2>1. Plain(v) = <<240, v[5], v[6], v[7], v[8]>>
    BY <1>5 DEF Plain
  <2> QED BY <2>1 DEF Byte
<1>6. CASE /\ ~(Zeros(v, 7) /\ v[8] < 128) /\ ~(Zeros(v, 6) /\ v[7] < 64)
           /\ ~(Zeros(v, 5) /\ v[6] < 32) /\ ~(Zeros(v, 4) /\ v[5] < 16) /\ ~Zeros(v, 4)
  <2>1. Plain(v) = <<244, v[1], v[2], v[3], v[4], v[5], v[6], v[7], v[8]>>
    BY <1>6 DEF Plain
  <2> QED BY <2>1 DEF Byte
<1> QED BY <1>1, <1>2, <1>3, <1>4, <1>5, <1>6

(* The table of first bytes. *)
LEMMA Table ==
  ASSUME NEW b \in Byte
  PROVE  /\ b < 128       => ReadLen(b) = 1 /\ LeadBits(b) = b
         /\ b \in 128..191 => ReadLen(b) = 2 /\ LeadBits(b) = b - 128
         /\ b \in 192..223 => ReadLen(b) = 3 /\ LeadBits(b) = b - 192
         /\ b \in 224..239 => ReadLen(b) = 4 /\ LeadBits(b) = b - 224
         /\ b \in 240..243 => ReadLen(b) = 5 /\ LeadBits(b) = 0
         /\ b \in 244..247 => ReadLen(b) = 9 /\ LeadBits(b) = 0
         /\ 252 <= b       => ReadLen(b) = 1
<1>1. CASE b < 128
  BY <1>1 DEF ReadLen, MeasuredLen, LeadBits, Byte
<1>2. CASE b \in 128..191
  BY <1>2 DEF ReadLen, MeasuredLen, LeadBits, Byte
<1>3. CASE b \in 192..223
  BY <1>3 DEF ReadLen, MeasuredLen, LeadBits, Byte
<1>4. CASE b \in 224..239
  BY <1>4 DEF ReadLen, MeasuredLen, LeadBits, Byte
<1>5. CASE b \in 240..243
  BY <1>5 DEF ReadLen, MeasuredLen, LeadBits, Byte
<1>6. CASE b \in 244..247
  BY <1>6 DEF ReadLen, MeasuredLen, LeadBits, Byte
<1>7. CASE 248 <= b
  BY <1>7 DEF ReadLen, MeasuredLen, LeadBits, Byte
<1> QED BY <1>1, <1>2, <1>3, <1>4, <1>5, <1>6, <1>7 DEF Byte

(* A first byte for n bytes, its bits and the bytes that follow it give the *)
(* value that has them as its last bytes.                                    *)
LEMMA Laid ==
  ASSUME NEW v \in Word, NEW d, NEW k \in Nat, NEW n \in 1..9,
         At(d, k) \in 0..251, ReadLen(At(d, k)) = n
  PROVE  /\ PlainAt(d, k).size = n
         /\ /\ \A j \in 1..8 : j < 9 - n => v[j] = 0
            /\ n < 9 => v[9 - n] = LeadBits(At(d, k))
            /\ \A i \in 1..(n - 1) : At(d, k + i) = v[9 - n + i]
            => PlainAt(d, k).value = v
<1>1. PlainAt(d, k).size = n
  BY DEF PlainAt
<1>2. ASSUME \A j \in 1..8 : j < 9 - n => v[j] = 0,
             n < 9 => v[9 - n] = LeadBits(At(d, k)),
             \A i \in 1..(n - 1) : At(d, k + i) = v[9 - n + i]
      PROVE  PlainAt(d, k).value = v
  <2>1. ASSUME NEW j \in 1..8 PROVE PlainAt(d, k).value[j] = v[j]
    <3>1. CASE 8 - (n - 1) < j
      <4>1. PlainAt(d, k).value[j] = At(d, k + (j - (8 - (n - 1))))
        BY <3>1 DEF PlainAt, CallOf
      <4>2. j - (8 - (n - 1)) \in 1..(n - 1) /\ 9 - n + (j - (8 - (n - 1))) = j
        BY <3>1
      <4> QED BY <4>1, <4>2, <1>2
    <3>2. CASE j = 8 - (n - 1)
      <4>1. PlainAt(d, k).value[j] = LeadBits(At(d, k))
        BY <3>2 DEF PlainAt
      <4> QED BY <4>1, <3>2, <1>2
    <3>3. CASE j < 8 - (n - 1)
      <4>1. PlainAt(d, k).value[j] = 0
        BY <3>3 DEF PlainAt
      <4> QED BY <4>1, <3>3, <1>2
    <3> QED BY <3>1, <3>2, <3>3
  <2> QED BY <2>1 DEF PlainAt, Word
<1> QED BY <1>1, <1>2

(* The bytes of a plain varint at k of d give the value; their number is     *)
(* known from the first one.                                                 *)
LEMMA PlainRead ==
  ASSUME NEW v \in Word, NEW d, NEW k \in Nat,
         At(d, k) = Plain(v)[1]
  PROVE  /\ PlainAt(d, k).size = Len(Plain(v))
         /\ (\A j \in 1..Len(Plain(v)) : At(d, k + j - 1) = Plain(v)[j])
              => PlainAt(d, k).value = v
<1>0. /\ v[1] \in Byte /\ v[2] \in Byte /\ v[3] \in Byte /\ v[4] \in Byte
      /\ v[5] \in Byte /\ v[6] \in Byte /\ v[7] \in Byte /\ v[8] \in Byte
  BY WordBytes
<1>1. CASE Zeros(v, 7) /\ v[8] < 128
  <2>1. Plain(v) = <<v[8]>>
    BY <1>1 DEF Plain
  <2>2. Len(Plain(v)) = 1 /\ At(d, k) = v[8]
    BY <2>1
  <2>3. v[8] \in 0..127
    BY <1>0, <1>1 DEF Byte
  <2>4. ReadLen(At(d, k)) = 1 /\ LeadBits(At(d, k)) = v[8]
    BY <2>2, <2>3, Table DEF Byte
  <2>5. ASSUME \A j \in 1..Len(Plain(v)) : At(d, k + j - 1) = Plain(v)[j]
        PROVE  \A i \in 1..(1 - 1) : At(d, k + i) = v[9 - 1 + i]
    OBVIOUS
  <2>6. (\A j \in 1..8 : j < 9 - 1 => v[j] = 0) /\ v[9 - 1] = v[8]
    BY <1>1 DEF Zeros
  <2> QED BY <2>2, <2>3, <2>4, <2>5, <2>6, Laid
<1>2. CASE ~(Zeros(v, 7) /\ v[8] < 128) /\ Zeros(v, 6) /\ v[7] < 64
  <2>1. Plain(v) = <<128 + v[7], v[8]>>
    BY <1>2 DEF Plain
  <2>2. Len(Plain(v)) = 2 /\ At(d, k) = 128 + v[7]
    BY <2>1
  <2>3. 128 + v[7] \in 128..191 /\ v[7] = (128 + v[7]) - 128
    BY <1>0, <1>2 DEF Byte
  <2>4. ReadLen(At(d, k)) = 2 /\ LeadBits(At(d, k)) = v[7]
    BY <2>2, <2>3, Table DEF Byte
  <2>5. ASSUME \A j \in 1..Len(Plain(v)) : At(d, k + j - 1) = Plain(v)[j]
        PROVE  \A i \in 1..(2 - 1) : At(d, k + i) = v[9 - 2 + i]
    <3>1. At(d, k + 2 - 1) = v[8]
      BY <2>1, <2>5
    <3> QED BY <3>1
  <2>6. (\A j \in 1..8 : j < 9 - 2 => v[j] = 0) /\ v[9 - 2] = v[7]
    BY <1>2 DEF Zeros
  <2> QED BY <2>2, <2>3, <2>4, <2>5, <2>6, Laid
<1>3. CASE ~(Zeros(v, 7) /\ v[8] < 128) /\ ~(Zeros(v, 6) /\ v[7] < 64) /\ Zeros(v, 5) /\ v[6] < 32
  <2>1. Plain(v) = <<192 + v[6], v[7], v[8]>>
    BY <1>3 DEF Plain
  <2>2. Len(Plain(v)) = 3 /\ At(d, k) = 192 + v[6]
    BY <2>1
  <2>3. 192 + v[6] \in 192..223 /\ v[6] = (192 + v[6]) - 192
    BY <1>0, <1>3 DEF Byte
  <2>4. ReadLen(At(d, k)) = 3 /\ LeadBits(At(d, k)) = v[6]
    BY <2>2, <2>3, Table DEF Byte
  <2>5. ASSUME \A j \in 1..Len(Plain(v)) : At(d, k + j - 1) = Plain(v)[j]
        PROVE  \A i \in 1..(3 - 1) : At(d, k + i) = v[9 - 3 + i]
    <3>1. At(d, k + 2 - 1) = v[7] /\ At(d, k + 3 - 1) = v[8]
      BY <2>1, <2>5
    <3> QED BY <3>1
  <2>6. (\A j \in 1..8 : j < 9 - 3 => v[j] = 0) /\ v[9 - 3] = v[6]
    BY <1>3 DEF Zeros
  <2> QED BY <2>2, <2>3, <2>4, <2>5, <2>6, Laid
<1>4. CASE ~(Zeros(v, 7) /\ v[8] < 128) /\ ~(Zeros(v, 6) /\ v[7] < 64) /\ ~(Zeros(v, 5) /\ v[6] < 32)
           /\ Zeros(v, 4) /\ v[5] < 16
  <2>1. Plain(v) = <<224 + v[5], v[6], v[7], v[8]>>
    BY <1>4 DEF Plain
  <2>2. Len(Plain(v)) = 4 /\ At(d, k) = 224 + v[5]
    BY <2>1
  <2>3. 224 + v[5] \in 224..239 /\ v[5] = (224 + v[5]) - 224
    BY <1>0, <1>4 DEF Byte
  <2>4. ReadLen(At(d, k)) = 4 /\ LeadBits(At(d, k)) = v[5]
    BY <2>2, <2>3, Table DEF Byte
  <2>5. ASSUME \A j \in 1..Len(Plain(v)) : At(d, k + j - 1) = Plain(v)[j]
        PROVE  \A i \in 1..(4 - 1) : At(d, k + i) = v[9 - 4 + i]
    <3>1. At(d, k + 2 - 1) = v[6] /\ At(d, k + 3 - 1) = v[7] /\ At(d, k + 4 - 1) = v[8]
      BY <2>1, <2>5
    <3> QED BY <3>1
  <2>6. (\A j \in 1..8 : j < 9 - 4 => v[j] = 0) /\ v[9 - 4] = v[5]
    BY <1>4 DEF Zeros
  <2> QED BY <2>2, <2>3, <2>4, <2>5, <2>6, Laid
<1>5. CASE ~(Zeros(v, 7) /\ v[8] < 128) /\ ~(Zeros(v, 6) /\ v[7] < 64) /\ ~(Zeros(v, 5) /\ v[6] < 32)
           /\ ~(Zeros(v, 4) /\ v[5] < 16) /\ Zeros(v, 4)
  <2>1. Plain(v) = <<240, v[5], v[6], v[7], v[8]>>
    BY <1>5 DEF Plain
  <2>2. Len(Plain(v)) = 5 /\ At(d, k) = 240
    BY <2>1
  <2>3. At(d, k) \in 240..243
    BY <2>2
  <2>4. ReadLen(At(d, k)) = 5 /\ LeadBits(At(d, k)) = 0
    BY <2>2, <2>3, Table DEF Byte
  <2>5. ASSUME \A j \in 1..Len(Plain(v)) : At(d, k + j - 1) = Plain(v)[j]
        PROVE  \A i \in 1..(5 - 1) : At(d, k + i) = v[9 - 5 + i]
    <3>1. At(d, k + 2 - 1) = v[5] /\ At(d, k + 3 - 1) = v[6] /\ At(d, k + 4 - 1) = v[7]
          /\ At(d, k + 5 - 1) = v[8]
      BY <2>1, <2>5
    <3> QED BY <3>1
  <2>6. (\A j \in 1..8 : j < 9 - 5 => v[j] = 0) /\ v[9 - 5] = 0
    BY <1>5 DEF Zeros
  <2> QED BY <2>2, <2>3, <2>4, <2>5, <2>6, Laid
<1>6. CASE ~(Zeros(v, 7) /\ v[8] < 128) /\ ~(Zeros(v, 6) /\ v[7] < 64) /\ ~(Zeros(v, 5) /\ v[6] < 32)
           /\ ~(Zeros(v, 4) /\ v[5] < 16) /\ ~Zeros(v, 4)
  <2>1. Plain(v) = <<244, v[1], v[2], v[3], v[4], v[5], v[6], v[7], v[8]>>
    BY <1>6 DEF Plain
  <2>2. Len(Plain(v)) = 9 /\ At(d, k) = 244
    BY <2>1
  <2>3. At(d, k) \in 244..247
    BY <2>2
  <2>4. ReadLen(At(d, k)) = 9 /\ LeadBits(At(d, k)) = 0
    BY <2>2, <2>3, Table DEF Byte
  <2>5. ASSUME \A j \in 1..Len(Plain(v)) : At(d, k + j - 1) = Plain(v)[j]
        PROVE  \A i \in 1..(9 - 1) : At(d, k + i) = v[9 - 9 + i]
    <3>1. At(d, k + 2 - 1) = v[1] /\ At(d, k + 3 - 1) = v[2] /\ At(d, k + 4 - 1) = v[3]
      BY <2>1, <2>2, <2>5
    <3>2. At(d, k + 5 - 1) = v[4] /\ At(d, k + 6 - 1) = v[5] /\ At(d, k + 7 - 1) = v[6]
      BY <2>1, <2>2, <2>5
    <3>3. At(d, k + 8 - 1) = v[7] /\ At(d, k + 9 - 1) = v[8]
      BY <2>1, <2>2, <2>5
    <3> QED BY <3>1, <3>2, <3>3
  <2>6. \A j \in 1..8 : j < 9 - 9 => v[j] = 0
    OBVIOUS
  <2> QED BY <2>2, <2>3, <2>4, <2>5, <2>6, Laid
<1> QED BY <1>1, <1>2, <1>3, <1>4, <1>5, <1>6

(* Signs is the number of bytes F8 to FB in front. *)
LEMMA SignsIs ==
  ASSUME NEW d, NEW k \in Nat, Len(d) \in Nat, NEW n \in 0..Len(d),
         ~IsSign(d, k + n), \A j \in 0..(n - 1) : IsSign(d, k + j)
  PROVE  Signs(d, k) = n
<1> DEFINE P(m) == ~IsSign(d, k + m) /\ \A j \in 0..(m - 1) : IsSign(d, k + j)
<1>1. Signs(d, k) = CHOOSE m \in 0..Len(d) : P(m)
  BY Zenon DEF Signs
<1> HIDE DEF P
<1>2. P(n)
  BY DEF P
<1>3. Signs(d, k) \in 0..Len(d) /\ P(Signs(d, k))
  BY <1>1, <1>2
<1>4. PICK m \in 0..Len(d) : m = Signs(d, k) /\ P(m)
  BY <1>3
<1>5. CASE m < n
  <2>1. m \in 0..(n - 1)
    BY <1>5
  <2> QED BY <2>1, <1>4 DEF P
<1>6. CASE n < m
  <2>1. n \in 0..(m - 1)
    BY <1>6
  <2> QED BY <2>1, <1>4 DEF P
<1> QED BY <1>4, <1>5, <1>6

(* No sign in front, or exactly one. *)
LEMMA NoSign ==
  ASSUME NEW d, NEW k \in Nat, Len(d) \in Nat, At(d, k) \notin 248..251
  PROVE  Signs(d, k) = 0
<1>1. ~IsSign(d, k + 0)
  BY DEF IsSign
<1> QED BY <1>1, SignsIs

LEMMA OneSign ==
  ASSUME NEW d, NEW k \in Nat, Len(d) \in Nat \ {0},
         At(d, k) = 248, At(d, k + 1) \notin 248..251
  PROVE  Signs(d, k) = 1
<1>1. ~IsSign(d, k + 1) /\ \A j \in 0..(1 - 1) : IsSign(d, k + j)
  BY DEF IsSign
<1> QED BY <1>1, SignsIs

(* operator<< appends bytes. *)
LEMMA EncodeForm ==
  ASSUME NEW v \in Word
  PROVE  Encode(v) \in Seq(Byte) /\ Len(Encode(v)) \in Nat /\ 1 <= Len(Encode(v))
<1>1. CASE ~Negative(v)
  BY <1>1, PlainForm DEF Encode
<1>2. CASE Negative(v)
  <2>1. PICK i \in Word : i = Flip(v)
    BY FlipTwice
  <2>2. CASE Zeros(i, 7) /\ i[8] <= 3
    <3>1. Encode(v) = <<252 + i[8]>>
      BY <1>2, <2>1, <2>2 DEF Encode
    <3>2. 252 + i[8] \in Byte
      BY <2>2, WordBytes DEF Byte
    <3> QED BY <3>1, <3>2
  <2>3. CASE ~(Zeros(i, 7) /\ i[8] <= 3)
    <3>1. Encode(v) = <<248>> \o Plain(i)
      BY <1>2, <2>1, <2>3 DEF Encode
    <3>2. <<248>> \in Seq(Byte) /\ Len(<<248>>) = 1
      BY DEF Byte
    <3>3. Plain(i) \in Seq(Byte) /\ Len(Plain(i)) \in 1..9
      BY PlainForm
    <3>4. Encode(v) \in Seq(Byte)
      BY <3>1, <3>2, <3>3
    <3>5. Len(Encode(v)) = 1 + Len(Plain(i))
      BY <3>1, <3>2, <3>3
    <3> QED BY <3>2, <3>4, <3>5
  <2> QED BY <2>2, <2>3
<1> QED BY <1>1, <1>2

(* Where the bytes that operator<< appends for v lie at k of d, operator>>   *)
(* gives v and ends behind them; where d ends before them, it goes past the  *)
(* end of d.                                                                 *)
LEMMA DecodeEncode ==
  ASSUME NEW v \in Word, NEW d \in Seq(Byte), NEW k \in Nat \ {0}, k <= Len(d),
         \A j \in 1..Len(Encode(v)) : k + j - 1 <= Len(d) => d[k + j - 1] = Encode(v)[j]
  PROVE  /\ k + Len(Encode(v)) - 1 <= Len(d)
              => Decode(d, k) = [value |-> v, size |-> Len(Encode(v))]
         /\ k + Len(Encode(v)) - 1 > Len(d) => k - 1 + Decode(d, k).size > Len(d)
<1>0. Len(d) \in Nat \ {0} /\ Len(Encode(v)) \in Nat /\ 1 <= Len(Encode(v))
  BY EncodeForm
<1>1. At(d, k) = Encode(v)[1]
  <2>1. 1 \in 1..Len(Encode(v))
    BY <1>0
  <2>2. k + 1 - 1 = k
    OBVIOUS
  <2> QED BY <2>1, <2>2 DEF At
<1>2. ASSUME k + Len(Encode(v)) - 1 <= Len(d)
      PROVE  \A j \in 1..Len(Encode(v)) : At(d, k + j - 1) = Encode(v)[j]
  <2>1. ASSUME NEW j \in 1..Len(Encode(v)) PROVE At(d, k + j - 1) = Encode(v)[j]
    <3>1. k + j - 1 <= Len(d)
      BY <1>2, <1>0
    <3> QED BY <3>1 DEF At
  <2> QED BY <2>1
<1>3. CASE ~Negative(v)
  <2>1. Encode(v) = Plain(v) /\ At(d, k) \notin 248..255
    BY <1>3, <1>1, PlainForm DEF Encode
  <2>2. Signs(d, k) = 0
    BY <2>1, <1>0, NoSign
  <2>3. Decode(d, k) = [value |-> PlainAt(d, k).value, size |-> PlainAt(d, k).size]
    <3>1. PlainAt(d, k).size = Len(Encode(v))
      BY <1>1, <2>1, PlainRead
    <3> QED BY <2>2, <3>1, <1>0 DEF Decode
  <2>4. PlainAt(d, k).size = Len(Encode(v))
    BY <1>1, <2>1, PlainRead
  <2>5. ASSUME k + Len(Encode(v)) - 1 <= Len(d) PROVE PlainAt(d, k).value = v
    BY <2>5, <1>1, <1>2, <2>1, PlainRead
  <2>6. Decode(d, k).size = Len(Encode(v))
    BY <2>3, <2>4
  <2> QED BY <2>3, <2>4, <2>5, <2>6, <1>0
<1>4. CASE Negative(v)
  <2>1. PICK i \in Word : i = Flip(v) /\ Flip(i) = v
    BY FlipTwice
  <2>2. CASE Zeros(i, 7) /\ i[8] <= 3
    <3>1. Encode(v) = <<252 + i[8]>>
      BY <1>4, <2>1, <2>2 DEF Encode
    <3>a. i[8] \in Byte /\ i[8] <= 3
      BY <2>2, WordBytes
    <3>2. i[8] \in 0..3
      BY <3>a, Small
    <3>3. At(d, k) = 252 + i[8] /\ Len(Encode(v)) = 1
      BY <3>1, <1>1
    <3>4. Signs(d, k) = 0
      BY <3>2, <3>3, <1>0, NoSign
    <3>b. At(d, k) \in Byte /\ 252 <= At(d, k)
      BY SMTT(30), <3>2, <3>3, ByteInt
    <3>5. ReadLen(At(d, k)) = 1
      BY <3>b, Table
    <3>6. PlainAt(d, k).size = 1
      BY <3>5 DEF PlainAt
    <3>7. PlainAt(d, k).value = v
      <4>1. \A j \in 1..8 : PlainAt(d, k).value[j] = Flip(i)[j]
        BY <2>2, <3>2, <3>3 DEF PlainAt, Flip, Zeros
      <4>2. PlainAt(d, k).value = [j \in 1..8 |-> PlainAt(d, k).value[j]]
        BY DEF PlainAt
      <4> QED BY <4>1, <4>2, <2>1 DEF Word
    <3>8. Decode(d, k) = [value |-> v, size |-> 1]
      BY <3>4, <3>6, <3>7 DEF Decode
    <3> QED BY <3>8, <3>3, <1>0
  <2>3. CASE ~(Zeros(i, 7) /\ i[8] <= 3)
    <3>1. Encode(v) = <<248>> \o Plain(i)
      BY <1>4, <2>1, <2>3 DEF Encode
    <3>2. Plain(i) \in Seq(Byte) /\ Len(Plain(i)) \in 1..9 /\ Plain(i)[1] \notin 248..255
      BY PlainForm
    <3>3. <<248>> \in Seq(Byte)
      BY DEF Byte
    <3>4. /\ Len(Encode(v)) = 1 + Len(Plain(i)) /\ Encode(v)[1] = 248
          /\ \A j \in 1..Len(Plain(i)) : Encode(v)[1 + j] = Plain(i)[j]
      BY <3>1, <3>2, <3>3
    <3>5. CASE k = Len(d)
      <4>1. At(d, k + 1) = 0
        BY <3>5 DEF At
      <4>2. Signs(d, k) = 1
        BY <4>1, <3>4, <1>0, <1>1, OneSign
      <4>3. ReadLen(At(d, k + 1)) = 1
        BY <4>1, Table DEF Byte
      <4>4. PlainAt(d, k + 1).size = 1
        BY <4>3 DEF PlainAt
      <4>5. Decode(d, k).size = 2
        BY <4>2, <4>4 DEF Decode
      <4> QED BY <4>5, <3>5, <3>4, <3>2
    <3>6. CASE k < Len(d)
      <4>1. At(d, k + 1) = Plain(i)[1]
        <5>1. k + 2 - 1 = k + 1 /\ 2 \in 1..Len(Encode(v)) /\ Encode(v)[2] = Plain(i)[1]
          BY <3>4, <3>2
        <5> QED BY <5>1, <3>6 DEF At
      <4>2. Signs(d, k) = 1
        BY <4>1, <3>2, <3>4, <1>0, <1>1, OneSign
      <4>3. PlainAt(d, k + 1).size = Len(Plain(i))
        BY <4>1, PlainRead
      <4>4. Decode(d, k) = [value |-> Flip(PlainAt(d, k + 1).value), size |-> Len(Encode(v))]
        BY <4>2, <4>3, <3>4 DEF Decode
      <4>5. ASSUME k + Len(Encode(v)) - 1 <= Len(d) PROVE PlainAt(d, k + 1).value = i
        <5>1. ASSUME NEW j \in 1..Len(Plain(i)) PROVE At(d, (k + 1) + j - 1) = Plain(i)[j]
          <6>1. 1 + j \in 1..Len(Encode(v)) /\ k + (1 + j) - 1 = (k + 1) + j - 1
            BY <3>4, <3>2
          <6> QED BY <6>1, <4>5, <1>2, <3>4
        <5> QED BY <5>1, <4>1, PlainRead
      <4>6. Decode(d, k).size = Len(Encode(v))
        BY <4>4
      <4> QED BY <4>4, <4>5, <4>6, <2>1, <1>0
    <3> QED BY <3>5, <3>6, <1>0
  <2> QED BY <2>2, <2>3
<1> QED BY <1>3, <1>4

(* The prefix of signs ends: d is finite and the byte after it reads as 0.  *)
LEMMA SignsForm ==
  ASSUME NEW d \in Seq(Byte), NEW k \in Nat \ {0}
  PROVE  Signs(d, k) \in Nat /\ ~IsSign(d, k + Signs(d, k))
<1> DEFINE T == {n \in Nat : ~IsSign(d, k + n)}
<1>1. Len(d) \in Nat /\ Len(d) \in T
  <2>1. Len(d) \in Nat /\ k + Len(d) > Len(d)
    OBVIOUS
  <2>2. At(d, k + Len(d)) = 0
    BY <2>1 DEF At
  <2> QED BY <2>1, <2>2 DEF IsSign
<1>2. PICK n \in T : \A m \in T : ~(<<m, n>> \in OpToRel(<, Nat))
  BY <1>1, NatLessThanWellFounded, WFMin
<1>3. \A m \in T : ~(m < n)
  BY <1>2 DEF OpToRel
<1>4. n \in 0..Len(d)
  BY <1>1, <1>3
<1>5. ~IsSign(d, k + n) /\ \A j \in 0..(n - 1) : IsSign(d, k + j)
  BY <1>3
<1>6. Signs(d, k) = n
  BY <1>1, <1>4, <1>5, SignsIs
<1> QED BY <1>4, <1>5, <1>6

(* Every byte but those of a sign has a length in the table. *)
LEMMA SizeForm ==
  ASSUME NEW d \in Seq(Byte), NEW k \in Nat \ {0}
  PROVE  Decode(d, k).size \in Nat \ {0}
<1>1. PICK b : b = At(d, k + Signs(d, k))
  OBVIOUS
<1>2. PICK n \in Nat : n = Signs(d, k) /\ b \notin 248..251
  BY <1>1, SignsForm DEF IsSign
<1>3. b \in Byte
  <2>1. CASE k + n <= Len(d)
    <3>1. k + n \in 1..Len(d)
      BY <2>1
    <3> QED BY <2>1, <3>1, <1>1, <1>2 DEF At
  <2>2. CASE ~(k + n <= Len(d))
    BY <2>2, <1>1, <1>2, ByteInt DEF At
  <2> QED BY <2>1, <2>2
<1>4. ReadLen(b) \in 1..9
  BY <1>2, <1>3, Lengths
<1>5. Decode(d, k).size = n + (ReadLen(b) - 1 + 1)
  BY <1>1, <1>2 DEF Decode, PlainAt
<1> QED BY <1>4, <1>5

(* At the end of d there is nothing to read. *)
LEMMA DecodeEmpty ==
  ASSUME NEW d \in Seq(Byte), NEW k \in Nat, k = Len(d) + 1
  PROVE  Decode(d, k).size = 1
<1>1. At(d, k) = 0 /\ Len(d) \in Nat
  BY DEF At
<1>2. Signs(d, k) = 0
  BY <1>1, NoSign
<1>3. ReadLen(At(d, k)) = 1
  BY <1>1, Table DEF Byte
<1>4. PlainAt(d, k).size = 1
  BY <1>3 DEF PlainAt
<1> QED BY <1>2, <1>4 DEF Decode

(* A 64-bit value is read back as it was written, for every value: no two    *)
(* forms of the encoding (PacketDataStream.h:189-241) are taken for one       *)
(* another by operator>> (PacketDataStream.h:243-277).                       *)
THEOREM RoundTrip ==
  ASSUME NEW v \in Word
  PROVE  Decode(Encode(v), 1) = [value |-> v, size |-> Len(Encode(v))]
<1>1. Encode(v) \in Seq(Byte) /\ Len(Encode(v)) \in Nat /\ 1 <= Len(Encode(v))
  BY EncodeForm
<1>2. \A j \in 1..Len(Encode(v)) : Encode(v)[1 + j - 1] = Encode(v)[j]
  BY <1>1
<1>3. 1 <= Len(Encode(v)) /\ 1 + Len(Encode(v)) - 1 <= Len(Encode(v)) /\ 1 \in Nat \ {0}
  BY <1>1
<1> QED BY <1>1, <1>2, <1>3, DecodeEncode
-----------------------------------------------------------------------------
USE StreamAssumption DEF StreamAssumption

AllTypes == IntTypes \cup {"float"}

LEMMA Widths == \A t \in AllTypes : Width(t) \in {1, 2, 4, 8}
BY DEF AllTypes, IntTypes, Width

(* A value widened to 64 bits is cut back to itself: the sign is not lost.  *)
LEMMA WidenNarrow ==
  ASSUME NEW t \in AllTypes, NEW v \in [1..Width(t) -> Byte]
  PROVE  Widen(t, v) \in Word /\ Narrow(t, Widen(t, v)) = v
<1>1. PICK w \in {1, 2, 4, 8} : w = Width(t)
  BY Widths
<1>2. v \in [1..w -> Byte] /\ 0 \in Byte /\ 255 \in Byte
  BY <1>1, ByteInt
<1>3. Widen(t, v) = [k \in 1..8 |-> IF 8 - w < k THEN v[k - (8 - w)]
                                    ELSE IF Signed(t) /\ 128 <= v[1] THEN 255 ELSE 0]
  BY <1>1 DEF Widen
<1>4. ASSUME NEW k \in 1..8
      PROVE  (IF 8 - w < k THEN v[k - (8 - w)]
              ELSE IF Signed(t) /\ 128 <= v[1] THEN 255 ELSE 0) \in Byte
  <2>1. CASE 8 - w < k
    <3>1. k - (8 - w) \in 1..w
      BY <2>1
    <3> QED BY ZenonT(60), <2>1, <3>1, <1>2
  <2>2. CASE ~(8 - w < k)
    BY <2>2, <1>2
  <2> QED BY <2>1, <2>2
<1>5. Widen(t, v) \in Word
  BY <1>3, <1>4 DEF Word
<1>6. ASSUME NEW k \in 1..w PROVE Widen(t, v)[8 - w + k] = v[k]
  <2>1. 8 - w + k \in 1..8 /\ 8 - w < 8 - w + k /\ (8 - w + k) - (8 - w) = k
    OBVIOUS
  <2> QED BY <2>1, <1>3
<1>7. Narrow(t, Widen(t, v)) = [k \in 1..w |-> v[k]]
  BY <1>1, <1>6 DEF Narrow
<1> QED BY <1>2, <1>5, <1>7

(* Cutting off a word gives a value of the type. *)
LEMMA NarrowForm ==
  ASSUME NEW t \in AllTypes, NEW v \in Word
  PROVE  Narrow(t, v) \in [1..Width(t) -> Byte]
<1>1. PICK w \in {1, 2, 4, 8} : w = Width(t)
  BY Widths
<1>2. \A k \in 1..w : 8 - w + k \in 1..8
  OBVIOUS
<1>3. \A k \in 1..w : v[8 - w + k] \in Byte
  BY <1>2 DEF Word
<1> QED BY <1>1, <1>3 DEF Narrow

LEMMA Four ==
  ASSUME NEW S, NEW v \in [1..4 -> S]
  PROVE  v \in Seq(S) /\ Len(v) = 4
<1>1. v \in UNION {[1..n -> S] : n \in Nat}
  OBVIOUS
<1>2. v \in Seq(S)
  BY <1>1, SeqDef
<1>3. Len(v) \in Nat /\ 1..4 = 1..Len(v)
  BY <1>2, LenProperties
<1>4. Len(v) = 4
  <2>1. 4 \in 1..Len(v) /\ 5 \notin 1..Len(v)
    BY <1>3
  <2> QED BY <2>1, <1>3
<1> QED BY <1>2, <1>4

(* What operator<< appends for a value of any type is not empty. *)
LEMMA WrittenForm ==
  ASSUME NEW t \in AllTypes, NEW v \in [1..Width(t) -> Byte]
  PROVE  /\ Written(t, v) \in Seq(Byte)
         /\ Len(Written(t, v)) \in Nat /\ 1 <= Len(Written(t, v))
         /\ t = "float" => Len(Written(t, v)) = 4
<1>1. CASE t = "float"
  <2>1. v \in [1..4 -> Byte] /\ Written(t, v) = v
    BY <1>1 DEF Width, Written
  <2>2. v \in Seq(Byte) /\ Len(v) = 4
    BY <2>1, Four
  <2> QED BY <2>1, <2>2
<1>2. CASE t # "float"
  BY <1>2, WidenNarrow, EncodeForm DEF Written
<1> QED BY <1>1, <1>2

(* The first n bytes of the buffer. *)
LEMMA Prefix ==
  ASSUME NEW b \in [1..Capacity -> Byte], NEW n \in 0..Capacity
  PROVE  /\ SubSeq(b, 1, n) \in Seq(Byte) /\ Len(SubSeq(b, 1, n)) = n
         /\ \A j \in 1..n : SubSeq(b, 1, n)[j] = b[j]
<1>1. \A i \in 1..n : b[i] \in Byte
  OBVIOUS
<1>2. /\ SubSeq(b, 1, n) \in Seq(Byte)
      /\ Len(SubSeq(b, 1, n)) = IF 1 <= n THEN n - 1 + 1 ELSE 0
      /\ \A i \in 1..(n - 1 + 1) : SubSeq(b, 1, n)[i] = b[1 + i - 1]
  BY <1>1, SubSeqProperties
<1>3. Len(SubSeq(b, 1, n)) = n
  BY <1>2
<1>4. ASSUME NEW j \in 1..n PROVE SubSeq(b, 1, n)[j] = b[j]
  <2>1. j \in 1..(n - 1 + 1) /\ 1 + j - 1 = j
    OBVIOUS
  <2> QED BY <2>1, <1>2
<1> QED BY <1>2, <1>3, <1>4

(* The bytes of the entry lie in the buffer where its history says. *)
Good(e) ==
  /\ e.type \in AllTypes /\ e.value \in [1..Width(e.type) -> Byte]
  /\ e.at \in Nat /\ e.end = e.at + Len(Written(e.type, e.value)) /\ e.end <= Capacity
  /\ \A j \in 1..Len(Written(e.type, e.value)) :
       data[e.at + j] = Written(e.type, e.value)[j]
Stored == \A e \in log : Good(e)

(* While the stream is only written to, bytes are counted where they went. *)
Asked ==
  building => /\ maxsize = Capacity /\ offset + overshoot = needed
              /\ ok = (overshoot = 0) /\ (overshoot > 0 => offset = maxsize)

IInv == TypeOK /\ Stored /\ Asked

LEMMA ReadBack ==
  ASSUME data \in [1..Capacity -> Byte], NEW e, Good(e), NEW n \in 0..Capacity
  PROVE  /\ e.end <= n => ReadAt(e.type, n, e.at) = [value |-> e.value, size |-> e.end - e.at]
         /\ n \in e.at..(e.end - 1) => ReadAt(e.type, n, e.at).size > n - e.at
<1>1. PICK bs : bs = Written(e.type, e.value)
  OBVIOUS
<1>2. PICK d : d = SubSeq(data, 1, n)
  OBVIOUS
<1>3. d \in Seq(Byte) /\ Len(d) = n /\ \A j \in 1..n : d[j] = data[j]
  BY <1>2, Prefix
<1>4. /\ e.type \in AllTypes /\ e.value \in [1..Width(e.type) -> Byte]
      /\ e.at \in Nat /\ e.end = e.at + Len(bs)
      /\ \A j \in 1..Len(bs) : data[e.at + j] = bs[j]
  BY <1>1 DEF Good
<1>5. bs \in Seq(Byte) /\ Len(bs) \in Nat /\ 1 <= Len(bs)
  BY <1>1, <1>4, WrittenForm
<1>6. CASE e.type = "float"
  <2>1. Len(bs) = 4 /\ bs = e.value
    BY <1>6, <1>1, <1>4, WrittenForm DEF Written
  <2>2. e.value \in [1..4 -> Byte]
    BY <1>4, <1>6 DEF Width
  <2>0. e.end = e.at + 4
    BY <2>1, <1>4
  <2>6. e.at \in Nat /\ e.end = e.at + 4 /\ e.end - e.at = 4
    BY <2>0, <1>4
  <2>3. ReadAt(e.type, n, e.at) = [value |-> [k \in 1..4 |-> At(d, e.at + k)], size |-> 4]
    BY <1>6, <1>2 DEF ReadAt
  <2>4. ReadAt(e.type, n, e.at).size = 4
    BY <2>3
  <2>5. ASSUME e.end <= n PROVE [k \in 1..4 |-> At(d, e.at + k)] = e.value
    <3>1. ASSUME NEW k \in 1..4 PROVE At(d, e.at + k) = e.value[k]
      <4>1. e.at + k \in 1..n
        BY <2>5, <2>6, <1>4
      <4>2. PICK i \in 1..n : i = e.at + k
        BY <4>1
      <4>3. At(d, i) = data[i]
        BY <4>2, <1>3 DEF At
      <4>4. k \in 1..Len(bs)
        BY <2>1
      <4>5. data[e.at + k] = bs[k]
        BY <4>4, <1>4
      <4> QED BY <4>2, <4>3, <4>5, <2>1
    <3> QED BY <3>1, <2>2
  <2>7. n \in e.at..(e.end - 1) => 4 > n - e.at
    BY <2>6, <1>4
  <2> QED BY <2>3, <2>4, <2>5, <2>6, <2>7
<1>7. CASE e.type # "float"
  <2>1. PICK v \in Word : v = Widen(e.type, e.value) /\ Narrow(e.type, v) = e.value
    BY <1>4, WidenNarrow
  <2>2. bs = Encode(v)
    BY <1>1, <1>7, <2>1 DEF Written
  <2>3. ReadAt(e.type, n, e.at) = [value |-> Narrow(e.type, Decode(d, e.at + 1).value),
                                   size |-> Decode(d, e.at + 1).size]
    BY <1>7, <1>2 DEF ReadAt
  <2>4. ReadAt(e.type, n, e.at).size = Decode(d, e.at + 1).size
    BY <2>3
  <2>5. PICK k \in Nat \ {0} : k = e.at + 1
    BY <1>4
  <2>6. ASSUME NEW j \in 1..Len(Encode(v)), k + j - 1 <= Len(d)
        PROVE  d[k + j - 1] = Encode(v)[j]
    <3>1. k + j - 1 = e.at + j /\ e.at + j \in 1..n
      BY <2>5, <2>6, <1>3, <1>4
    <3> QED BY <3>1, <2>2, <1>3, <1>4
  <2>7. ASSUME e.end <= n
        PROVE  ReadAt(e.type, n, e.at) = [value |-> e.value, size |-> e.end - e.at]
    <3>1. k <= Len(d) /\ k + Len(Encode(v)) - 1 <= Len(d) /\ e.end - e.at = Len(bs)
      BY <2>2, <2>5, <2>7, <1>3, <1>4, <1>5
    <3>2. Decode(d, k) = [value |-> v, size |-> Len(Encode(v))]
      BY <3>1, <2>6, <1>3, DecodeEncode
    <3> QED BY <3>1, <3>2, <2>1, <2>2, <2>3, <2>5
  <2>8. ASSUME n \in e.at..(e.end - 1) PROVE Decode(d, k).size > n - e.at
    <3>1. CASE n = e.at
      <4>1. Decode(d, k).size = 1
        BY <3>1, <2>5, <1>3, DecodeEmpty
      <4> QED BY <4>1, <3>1, <1>4
    <3>2. CASE n # e.at
      <4>1. k <= Len(d) /\ k + Len(Encode(v)) - 1 > Len(d)
        BY <3>2, <2>2, <2>5, <2>8, <1>3, <1>4, <1>5
      <4>2. k - 1 + Decode(d, k).size > Len(d)
        BY <4>1, <2>6, <1>3, DecodeEncode
      <4>3. Decode(d, k).size \in Int
        BY <1>3, SizeForm
      <4> QED BY <4>2, <4>3, <2>5, <1>3, <1>4
    <3> QED BY <3>1, <3>2
  <2> QED BY <2>4, <2>5, <2>7, <2>8
<1> QED BY <1>6, <1>7

(* Entries that end where the unchanged part of the buffer ends stay good.  *)
LEMMA GoodKept ==
  ASSUME NEW e, Good(e),
         \A k \in 1..Capacity : k <= e.end => data'[k] = data[k]
  PROVE  Good(e)'
<1>1. PICK bs : bs = Written(e.type, e.value)
  OBVIOUS
<1>2. e.at \in Nat /\ Len(bs) \in Nat /\ e.end = e.at + Len(bs) /\ e.end <= Capacity
  BY <1>1, WrittenForm DEF Good
<1>3. ASSUME NEW j \in 1..Len(bs) PROVE data'[e.at + j] = bs[j]
  <2>1. e.at + j \in 1..Capacity /\ e.at + j <= e.end
    BY <1>2
  <2> QED BY <2>1, <1>1 DEF Good
<1> QED BY <1>1, <1>3 DEF Good

(* Writing bytes: the log keeps what lies before the cursor, and the new     *)
(* entry's bytes are in place when all of them fitted.                       *)
LEMMA WritesKeep ==
  ASSUME IInv, NEW bs \in Seq(Byte), NEW entries, WriteBytes(bs, entries),
         \A e \in entries : /\ e.type \in AllTypes /\ e.value \in [1..Width(e.type) -> Byte]
                            /\ e.at = offset /\ e.end = offset + Len(bs)
                            /\ bs = Written(e.type, e.value)
  PROVE  IInv'
<1>1. PICK n : n = IF Len(bs) <= left THEN Len(bs) ELSE left
  OBVIOUS
<1>2. /\ Len(bs) \in Nat /\ offset \in Nat /\ maxsize \in Nat /\ Capacity \in Nat
      /\ offset <= maxsize /\ maxsize <= Capacity /\ overshoot \in Nat /\ needed \in Nat
  BY DEF IInv, TypeOK
<1>3. n \in Nat /\ n <= Len(bs) /\ offset + n <= maxsize
  BY <1>1, <1>2 DEF left
<1>4. /\ data' = [k \in 1..Capacity |->
                    IF offset < k /\ k <= offset + n THEN bs[k - offset] ELSE data[k]]
      /\ offset' = offset + n /\ overshoot' = overshoot + (Len(bs) - n)
      /\ ok' = (ok /\ n = Len(bs))
      /\ log' = {e \in log : e.end <= offset} \cup (IF n = Len(bs) THEN entries ELSE {})
      /\ needed' = needed + Len(bs)
      /\ maxsize' = maxsize /\ building' = building
      /\ calls < MaxCalls /\ calls' = calls + 1
  BY <1>1 DEF WriteBytes, Missing, Called
<1>5. TypeOK'
  <2>1. ASSUME NEW k \in 1..Capacity
        PROVE  (IF offset < k /\ k <= offset + n THEN bs[k - offset] ELSE data[k]) \in Byte
    <3>1. CASE offset < k /\ k <= offset + n
      <4>1. k - offset \in 1..Len(bs)
        BY <3>1, <1>2, <1>3
      <4> QED BY <3>1, <4>1, ElementOfSeq
    <3>2. CASE ~(offset < k /\ k <= offset + n)
      BY <3>2 DEF IInv, TypeOK
    <3> QED BY <3>1, <3>2
  <2>2. data' \in [1..Capacity -> Byte]
    BY <2>1, <1>4
  <2>3. offset' \in 0..maxsize' /\ maxsize' \in 0..Capacity /\ overshoot' \in Nat /\ needed' \in Nat
    BY <1>2, <1>3, <1>4
  <2>4. ok' \in BOOLEAN /\ building' \in BOOLEAN
    BY <1>4, Zenon DEF IInv, TypeOK
  <2>5. calls' \in 0..MaxCalls
    BY <1>4 DEF IInv, TypeOK
  <2> QED BY <2>2, <2>3, <2>4, <2>5 DEF TypeOK
<1>6. Stored'
  <2>1. ASSUME NEW e \in log, e.end <= offset PROVE Good(e)'
    <3>1. Good(e) /\ e.end \in Int
      BY WrittenForm DEF IInv, Stored, Good
    <3>2. ASSUME NEW k \in 1..Capacity, k <= e.end PROVE data'[k] = data[k]
      <4>1. ~(offset < k)
        BY <2>1, <3>1, <3>2, <1>2
      <4> QED BY <4>1, <1>4
    <3> QED BY <3>1, <3>2, GoodKept
  <2>2. ASSUME NEW e \in entries, n = Len(bs) PROVE Good(e)'
    <3>1. ASSUME NEW j \in 1..Len(bs) PROVE data'[offset + j] = bs[j]
      <4>1. /\ offset + j \in 1..Capacity /\ offset < offset + j /\ offset + j <= offset + n
            /\ (offset + j) - offset = j
        BY <2>2, <1>2, <1>3
      <4> QED BY <4>1, <1>4
    <3>2. e.end <= Capacity
      BY <2>2, <1>2, <1>3
    <3>3. e.at = offset /\ e.end = offset + Len(bs) /\ bs = Written(e.type, e.value)
          /\ e.type \in AllTypes /\ e.value \in [1..Width(e.type) -> Byte]
      BY <2>2
    <3> QED BY <3>1, <3>2, <3>3, <1>2 DEF Good
  <2> QED BY <2>1, <2>2, <1>4 DEF Stored
<1>7. Asked'
  <2>1. ASSUME building
        PROVE  /\ maxsize' = Capacity /\ offset' + overshoot' = needed'
               /\ (overshoot' > 0 => offset' = maxsize')
    <3>1. maxsize = Capacity /\ offset + overshoot = needed /\ (overshoot > 0 => offset = maxsize)
      BY <2>1 DEF IInv, Asked
    <3>2. offset' + overshoot' = needed'
      BY <3>1, <1>2, <1>3, <1>4
    <3>3. overshoot' > 0 => overshoot > 0 \/ n < Len(bs)
      BY <1>2, <1>3, <1>4
    <3>4. overshoot > 0 => n = 0
      BY <3>1, <1>1, <1>2 DEF left
    <3>5. n < Len(bs) => offset + n = maxsize
      BY <1>1, <1>2 DEF left
    <3> QED BY <3>1, <3>2, <3>3, <3>4, <3>5, <1>2, <1>4
  <2>2. ASSUME building PROVE ok' = (overshoot' = 0)
    <3>1. ok = (overshoot = 0)
      BY <2>2 DEF IInv, Asked
    <3>2. overshoot' = 0 <=> (overshoot = 0 /\ n = Len(bs))
      BY <1>2, <1>3, <1>4
    <3> QED BY <3>1, <3>2, <1>4
  <2> QED BY <2>1, <2>2, <1>4 DEF Asked
<1> QED BY <1>5, <1>6, <1>7 DEF IInv

(* Reading and moving the cursor changes neither the bytes nor the log.     *)
LEMMA ReadsKeep ==
  ASSUME IInv, Reads, offset' \in 0..maxsize, ok' \in BOOLEAN
  PROVE  IInv'
<1>1. /\ data' = data /\ maxsize' = maxsize /\ overshoot' = overshoot /\ log' = log
      /\ needed' = needed /\ building' = FALSE /\ calls < MaxCalls /\ calls' = calls + 1
  BY DEF Reads, Called
<1>2. calls' \in 0..MaxCalls
  BY <1>1 DEF IInv, TypeOK
<1>3. TypeOK'
  BY <1>1, <1>2 DEF IInv, TypeOK
<1>4. Stored' /\ Asked'
  BY <1>1 DEF IInv, Stored, Good, Asked
<1> QED BY <1>3, <1>4 DEF IInv

LEMMA Inductive == Spec => []IInv
<1>1. Init => IInv
  <2>1. ASSUME Init PROVE TypeOK
    BY <2>1, ByteInt DEF Init, TypeOK
  <2>2. ASSUME Init PROVE Stored
    BY <2>2 DEF Init, Stored
  <2>3. ASSUME Init PROVE Asked
    <3>1. maxsize = Capacity /\ offset + overshoot = needed /\ overshoot = 0 /\ ok = TRUE
      BY <2>3 DEF Init
    <3>2. ok = (overshoot = 0)
      BY <3>1, Zenon
    <3>3. ~(overshoot > 0)
      BY <3>1
    <3> QED BY <3>1, <3>2, <3>3, Zenon DEF Asked
  <2> QED BY <2>1, <2>2, <2>3 DEF IInv
<1>2. IInv /\ [Next]_vars => IInv'
  <2> SUFFICES ASSUME IInv, [Next]_vars PROVE IInv'
    OBVIOUS
  <2>0. offset \in Nat /\ maxsize \in Nat /\ offset <= maxsize /\ ok \in BOOLEAN
    BY DEF IInv, TypeOK
  <2>1. ASSUME NEW t \in AllTypes, NEW v \in [1..Width(t) -> Byte], Put(t, v) PROVE IInv'
    <3>1. PICK bs : bs = Written(t, v)
      OBVIOUS
    <3>2. bs \in Seq(Byte)
      BY <3>1, WrittenForm
    <3>3. WriteBytes(bs, {[at |-> offset, end |-> offset + Len(bs), type |-> t, value |-> v]})
      BY <2>1, <3>1 DEF Put
    <3>4. \A e \in {[at |-> offset, end |-> offset + Len(bs), type |-> t, value |-> v]} :
            /\ e.type \in AllTypes /\ e.value \in [1..Width(e.type) -> Byte]
            /\ e.at = offset /\ e.end = offset + Len(bs) /\ bs = Written(e.type, e.value)
      BY <2>1, <3>1
    <3> QED BY <3>2, <3>3, <3>4, WritesKeep
  <2>2. ASSUME NEW b \in BOOLEAN, PutBool(b) PROVE IInv'
    <3>1. PICK c \in Byte : c = IF b THEN 1 ELSE 0
      BY ByteInt
    <3>2. <<0, 0, 0, c>> \in [1..Width("unsigned") -> Byte] /\ "unsigned" \in AllTypes
      BY ByteInt DEF Width, AllTypes, IntTypes
    <3>3. Put("unsigned", <<0, 0, 0, c>>)
      BY <2>2, <3>1 DEF PutBool
    <3> QED BY <3>2, <3>3, <2>1
  <2>3. ASSUME NEW bs \in Blocks, AppendBlock(bs) PROVE IInv'
    <3>1. PICK cs : cs = IF Len(bs) <= left THEN bs ELSE [k \in 1..Len(bs) |-> 0]
      OBVIOUS
    <3>2. [k \in 1..Len(bs) |-> 0] \in Seq(Byte) /\ bs \in Seq(Byte)
      BY ByteInt
    <3>3. cs \in Seq(Byte) /\ WriteBytes(cs, {})
      BY <2>3, <3>1, <3>2 DEF AppendBlock
    <3> QED BY <3>3, WritesKeep
  <2>4. ASSUME NEW b \in Bytes, Append1(b) PROVE IInv'
    <3>a. b \in Byte
      OBVIOUS
    <3>1. PICK bs : bs = <<b>>
      OBVIOUS
    <3>c. bs \in Seq(Byte)
      BY <3>a, <3>1
    <3>2. WriteBytes(bs, {})
      BY <2>4, <3>1 DEF Append1
    <3> QED BY <3>2, <3>c, WritesKeep
  <2>5. ASSUME NEW t \in Types, Get(t) PROVE IInv'
    <3>1. PICK n : n = ReadAt(t, maxsize, offset).size
      OBVIOUS
    <3>2. n \in Nat
      <4>1. SubSeq(data, 1, maxsize) \in Seq(Byte)
        BY Prefix DEF IInv, TypeOK
      <4>2. offset + 1 \in Nat \ {0}
        BY <2>0
      <4>3. Decode(SubSeq(data, 1, maxsize), offset + 1).size \in Nat
        BY <4>1, <4>2, SizeForm
      <4> QED BY <4>3, <3>1 DEF ReadAt
    <3>3. Reads /\ offset' \in 0..maxsize
      BY <2>5, <3>1, <3>2, <2>0 DEF Get, left
    <3>4. ok' \in BOOLEAN
      BY <2>5, Zenon DEF Get
    <3> QED BY <3>3, <3>4, ReadsKeep
  <2>6. ASSUME NEW n \in 0..Capacity, Skip(n) PROVE IInv'
    <3>1. Reads /\ offset' \in 0..maxsize
      BY <2>6, <2>0 DEF Skip, left
    <3>2. ok' \in BOOLEAN
      BY <2>6, Zenon DEF Skip
    <3> QED BY <3>1, <3>2, ReadsKeep
  <2>7. CASE rewind
    BY <2>7, <2>0, ReadsKeep DEF rewind
  <2>8. CASE truncate
    <3>1. /\ data' = data /\ maxsize' = offset /\ offset' = offset /\ overshoot' = overshoot
          /\ log' = log /\ needed' = needed /\ building' = FALSE /\ ok' = ok
          /\ calls < MaxCalls /\ calls' = calls + 1
      BY <2>8 DEF truncate, Called, cursor
    <3>2. calls' \in 0..MaxCalls /\ maxsize' \in 0..Capacity /\ offset' \in 0..maxsize'
      BY <3>1 DEF IInv, TypeOK
    <3>3. TypeOK'
      BY <3>1, <3>2 DEF IInv, TypeOK
    <3>4. Stored' /\ Asked'
      BY <3>1 DEF IInv, Stored, Good, Asked
    <3> QED BY <3>3, <3>4 DEF IInv
  <2>9. CASE UNCHANGED vars
    BY <2>9 DEF vars, cursor, history, IInv, TypeOK, Stored, Good, Asked
  <2>10. ASSUME NEW t \in Types, NEW v \in Samples, Put(t, Narrow(t, v)) PROVE IInv'
    <3>1. t \in AllTypes /\ Narrow(t, v) \in [1..Width(t) -> Byte]
      BY NarrowForm DEF AllTypes
    <3> QED BY <3>1, <2>1, <2>10
  <2> QED BY <2>2, <2>3, <2>4, <2>5, <2>6, <2>7, <2>8, <2>9, <2>10 DEF Next
<1> QED BY <1>1, <1>2, PTL DEF Spec

(* The cursor stays in the buffer (append, next, skip and dataBlock of       *)
(* PacketDataStream.h:75-163), whatever is called in whatever order.         *)
THEOREM TypeCorrect == Spec => []TypeOK
BY Inductive, PTL DEF IInv

(* What operator<< wrote and nothing overwrote, operator>> reads, whatever   *)
(* was called in between: for every value, every type and every capacity.    *)
THEOREM ReadableAlways == Spec => []Readable
<1>1. IInv => Readable
  <2> SUFFICES ASSUME IInv, NEW e \in log, e.end <= maxsize
               PROVE  ReadAt(e.type, maxsize, e.at) = [value |-> e.value, size |-> e.end - e.at]
    BY DEF Readable
  <2> QED BY ReadBack DEF IInv, TypeOK, Stored
<1> QED BY <1>1, Inductive, PTL

(* A value cut off anywhere makes the stream of its reader invalid: next()   *)
(* of PacketDataStream.h:118-125 is called past the end.                      *)
THEOREM CutNoticedAlways == Spec => []CutNoticed
<1>1. IInv => CutNoticed
  <2> SUFFICES ASSUME IInv, NEW e \in log, NEW n \in e.at..(e.end - 1), n <= maxsize
               PROVE  ReadAt(e.type, n, e.at).size > n - e.at
    BY DEF CutNoticed
  <2>1. Good(e) /\ e.at \in Nat
    BY DEF IInv, Stored, Good
  <2>2. e.end \in Int
    BY <2>1, WrittenForm DEF Good
  <2>3. n \in 0..Capacity
    BY <2>1, <2>2 DEF IInv, TypeOK
  <2> QED BY <2>1, <2>3, ReadBack DEF IInv, TypeOK
<1> QED BY <1>1, Inductive, PTL

(* size() + undersize() is what the writes needed (PacketDataStream.h:55-73). *)
THEOREM UndersizeExactAlways == Spec => []UndersizeExact
<1>1. IInv => UndersizeExact
  BY DEF IInv, TypeOK, Asked, UndersizeExact
<1> QED BY <1>1, Inductive, PTL

-----------------------------------------------------------------------------
HIDE StreamAssumption DEF StreamAssumption

(* Every set of naturals that is not empty has a least one: the induction of *)
(* the lemmas on sequences and packets.                                      *)
LEMMA NatLeast ==
  ASSUME NEW S \in SUBSET Nat, S # {}
  PROVE  \E n \in S : \A m \in S : n <= m
<1>1. PICK n \in S : \A m \in S : <<m, n>> \notin OpToRel(<, Nat)
  BY WFMin, NatLessThanWellFounded
<1>2. \A m \in S : ~(m < n)
  BY <1>1 DEF OpToRel
<1> QED  BY <1>2

(* b stands in c behind the first n places. *)
PartAt(b, c, n) == n + Len(b) <= Len(c) /\ \A k \in 1..Len(b) : c[n + k] = b[k]

(* Where two sequences are when one is put behind the other. *)
LEMMA Joined ==
  ASSUME NEW S, NEW a \in Seq(S), NEW b \in Seq(S)
  PROVE  /\ a \o b \in Seq(S) /\ Len(a) \in Nat /\ Len(b) \in Nat
         /\ Len(a \o b) = Len(a) + Len(b)
         /\ PartAt(a, a \o b, 0) /\ PartAt(b, a \o b, Len(a))
<1>1. Len(a) \in Nat /\ Len(b) \in Nat
  OBVIOUS
<1>2. PICK c : c = a \o b
  OBVIOUS
<1>3. /\ c \in Seq(S) /\ Len(c) = Len(a) + Len(b)
      /\ \A k \in 1..(Len(a) + Len(b)) : c[k] =
            IF k <= Len(a) THEN a[k] ELSE b[k - Len(a)]
  BY <1>2, ConcatProperties
<1>4. ASSUME NEW k \in 1..Len(b) PROVE c[Len(a) + k] = b[k]
  <2>1. PICK j \in 1..(Len(a) + Len(b)) : j = Len(a) + k /\ ~(j <= Len(a)) /\ j - Len(a) = k
    BY <1>1
  <2> QED BY <2>1, <1>3
<1> QED BY <1>1, <1>2, <1>3, <1>4 DEF PartAt

(* What is in a part is in the whole. *)
LEMMA PartOfPart ==
  ASSUME NEW S, NEW a \in Seq(S), NEW b \in Seq(S), NEW c \in Seq(S),
         NEW m \in Nat, NEW n \in Nat, PartAt(a, b, m), PartAt(b, c, n)
  PROVE  PartAt(a, c, n + m)
<1>1. /\ m + Len(a) <= Len(b) /\ \A k \in 1..Len(a) : b[m + k] = a[k]
      /\ n + Len(b) <= Len(c) /\ \A k \in 1..Len(b) : c[n + k] = b[k]
      /\ Len(a) \in Nat /\ Len(b) \in Nat /\ Len(c) \in Nat
  BY DEF PartAt
<1>2. ASSUME NEW k \in 1..Len(a) PROVE c[(n + m) + k] = a[k]
  <2>1. PICK j \in 1..Len(b) : j = m + k /\ n + j = (n + m) + k
    BY <1>1
  <2>2. c[n + j] = b[j] /\ b[j] = a[k]
    BY <2>1, <1>1
  <2> QED BY <2>1, <2>2
<1> QED BY <1>1, <1>2 DEF PartAt

(* The same for what a sequence begins with. *)
LEMMA PartOfBeginning ==
  ASSUME NEW S, NEW a \in Seq(S), NEW b \in Seq(S), NEW c \in Seq(S),
         NEW m \in Nat, PartAt(a, b, m), PartAt(b, c, 0)
  PROVE  PartAt(a, c, m)
<1>1. PICK z \in Nat : z = 0 /\ z + m = m
  OBVIOUS
<1>2. PartAt(b, c, z)
  BY <1>1
<1>3. PartAt(a, c, z + m)
  BY <1>2, PartOfPart
<1> QED BY <1>1, <1>3

(* A sequence of one. *)
LEMMA Single ==
  ASSUME NEW S, NEW x \in S
  PROVE  <<x>> \in Seq(S) /\ Len(<<x>>) = 1 /\ <<x>>[1] = x
OBVIOUS

(* The recursive function of FlattenSeq exists: f[i] is the concatenation of *)
(* the first i sequences.                                                    *)
LEMMA StepsExist ==
  ASSUME NEW S, NEW n \in Nat \ {0}, NEW s \in [1..n -> Seq(S)]
  PROVE  \E f : f = [i \in 1..n |-> IF i = 1 THEN s[i] ELSE f[i - 1] \o s[i]]
<1> DEFINE Steps(m) == \E f : f = [i \in 1..m |-> IF i = 1 THEN s[i] ELSE f[i - 1] \o s[i]]
<1>1. Steps(1)
  <2>1. PICK f : f = [i \in 1..1 |-> s[1]]
    OBVIOUS
  <2>2. f = [i \in 1..1 |-> IF i = 1 THEN s[i] ELSE f[i - 1] \o s[i]]
    BY <2>1
  <2> QED BY <2>2
<1>2. ASSUME NEW m \in Nat, 1 <= m, m < n, Steps(m) PROVE Steps(m + 1)
  <2>1. PICK f : f = [i \in 1..m |-> IF i = 1 THEN s[i] ELSE f[i - 1] \o s[i]]
    BY <1>2
  <2>2. PICK g : g = [i \in 1..(m + 1) |-> IF i = m + 1 THEN f[m] \o s[m + 1] ELSE f[i]]
    OBVIOUS
  <2>3. ASSUME NEW i \in 1..(m + 1)
        PROVE  g[i] = IF i = 1 THEN s[i] ELSE g[i - 1] \o s[i]
    <3>1. CASE i = m + 1
      <4>1. i # 1 /\ i - 1 = m /\ m \in 1..(m + 1) /\ m # m + 1
        BY <3>1, <1>2
      <4>2. g[m] = f[m] /\ g[i] = f[m] \o s[i]
        BY <3>1, <4>1, <2>2
      <4> QED BY <4>1, <4>2
    <3>2. CASE i # m + 1
      <4>1. i \in 1..m /\ g[i] = f[i]
        BY <3>2, <1>2, <2>2
      <4>2. i # 1 => i - 1 \in 1..(m + 1) /\ i - 1 # m + 1
        BY <4>1, <1>2
      <4>3. i # 1 => g[i - 1] = f[i - 1]
        BY <4>2, <2>2
      <4>4. f[i] = IF i = 1 THEN s[i] ELSE f[i - 1] \o s[i]
        BY <4>1, <2>1
      <4> QED BY <4>1, <4>3, <4>4
    <3> QED BY <3>1, <3>2
  <2>4. g = [i \in 1..(m + 1) |-> IF i = 1 THEN s[i] ELSE g[i - 1] \o s[i]]
    BY <2>2, <2>3
  <2> QED BY <2>4
<1> HIDE DEF Steps
<1>3. \A m \in Nat : 1 <= m /\ m <= n => Steps(m)
  <2>1. PICK Bad \in SUBSET Nat : Bad = {m \in Nat : 1 <= m /\ m <= n /\ ~Steps(m)}
    OBVIOUS
  <2>2. SUFFICES ASSUME Bad # {} PROVE FALSE
    BY <2>1
  <2>3. PICK m \in Bad : \A k \in Bad : m <= k
    BY <2>2, NatLeast
  <2>4. m \in Nat /\ 1 <= m /\ m <= n /\ ~Steps(m)
    BY <2>1
  <2>5. PICK k \in Nat : m = k + 1 /\ 1 <= k /\ k < n
    <3>1. m # 1
      BY <1>1, <2>4
    <3> QED BY <3>1, <2>4
  <2>6. Steps(k)
    BY <2>1, <2>3, <2>5
  <2>7. Steps(k + 1)
    BY <1>2, <2>5, <2>6
  <2> QED BY <2>4, <2>5, <2>7
<1>4. Steps(n)
  BY <1>3
<1> QED BY <1>4, Zenon DEF Steps

(* It gives sequences. *)
LEMMA StepsForm ==
  ASSUME NEW S, NEW n \in Nat \ {0}, NEW s \in [1..n -> Seq(S)], NEW f,
         \A i \in 1..n : f[i] = IF i = 1 THEN s[i] ELSE f[i - 1] \o s[i]
  PROVE  \A i \in 1..n : f[i] \in Seq(S)
<1>2. PICK Bad \in SUBSET Nat : Bad = {m \in Nat : m \in 1..n /\ f[m] \notin Seq(S)}
  OBVIOUS
<1>3. Bad = {}
  <2>1. SUFFICES ASSUME Bad # {} PROVE FALSE
    OBVIOUS
  <2>2. PICK m \in Bad : \A k \in Bad : m <= k
    BY <2>1, NatLeast
  <2>3. m \in 1..n /\ m # 1 /\ f[m] \notin Seq(S)
    BY <1>2
  <2>4. PICK k \in 1..n : k = m - 1
    BY <2>3
  <2>5. f[k] \in Seq(S)
    BY <1>2, <2>2, <2>3, <2>4
  <2>6. f[m] = f[k] \o s[m] /\ s[m] \in Seq(S)
    BY <2>3, <2>4
  <2> QED BY <2>3, <2>5, <2>6, ConcatProperties
<1>4. \A i \in 1..n : i \in Nat
  OBVIOUS
<1> QED BY <1>2, <1>3, <1>4, Zenon

(* f[i] is the concatenation of the first i of the n sequences of s.        *)
Concatenates(S, n, s, f) ==
  /\ s \in [1..n -> Seq(S)] /\ f \in [1..n -> Seq(S)]
  /\ f[1] = s[1] /\ \A i \in 1..n : i # 1 => f[i] = f[i - 1] \o s[i]

(* FlattenSeq is its last value. *)
LEMMA FlattenSteps ==
  ASSUME NEW S, NEW s \in Seq(Seq(S)), s # <<>>
  PROVE  \E n \in Nat \ {0} : \E f :
           n = Len(s) /\ Concatenates(S, n, s, f) /\ FlattenSeq(s) = f[n]
<1>1. PICK n \in Nat \ {0} : n = Len(s)
  BY EmptySeq
<1>2. s \in [1..n -> Seq(S)]
  BY <1>1, LenProperties
<1> DEFINE E(f) == f = [i \in 1..n |-> IF i = 1 THEN s[i] ELSE f[i - 1] \o s[i]]
<1>3. \E f : E(f)
  <2>1. \E f : f = [i \in 1..n |-> IF i = 1 THEN s[i] ELSE f[i - 1] \o s[i]]
    BY <1>2, StepsExist, ZenonT(60)
  <2> QED BY <2>1, Zenon
<1>4. PICK f : f = CHOOSE g : E(g)
  OBVIOUS
<1>5. E(f)
  <2> HIDE DEF E
  <2> QED BY <1>3, <1>4, Zenon
<1>a. PICK g : g = [i \in 1..n |-> IF i = 1 THEN s[i] ELSE f[i - 1] \o s[i]]
  OBVIOUS
<1>b. g = f /\ \A i \in 1..n : g[i] = IF i = 1 THEN s[i] ELSE f[i - 1] \o s[i]
  BY <1>a, <1>5
<1>6. FlattenSeq(s) = f[n]
  BY <1>1, <1>4 DEF FlattenSeq
<1> HIDE DEF E
<1>c. \A i \in 1..n : f[i] = IF i = 1 THEN s[i] ELSE f[i - 1] \o s[i]
  BY <1>b
<1>d. \A i \in 1..n : f[i] \in Seq(S)
  BY <1>2, <1>c, StepsForm
<1>e. f = [i \in 1..n |-> f[i]]
  BY <1>a, <1>b
<1>7. /\ f \in [1..n -> Seq(S)] /\ f[1] = s[1]
      /\ \A i \in 1..n : i # 1 => f[i] = f[i - 1] \o s[i]
  <2>1. 1 \in 1..n
    OBVIOUS
  <2>2. f \in [1..n -> Seq(S)]
    BY <1>d, <1>e, Zenon
  <2> QED BY <1>c, <2>1, <2>2, Zenon
<1>8. Concatenates(S, n, s, f)
  BY <1>2, <1>7 DEF Concatenates
<1> QED BY <1>1, <1>6, <1>8

(* The first sequences of a concatenation are its beginning. *)
LEMMA Beginning ==
  ASSUME NEW S, NEW n \in Nat \ {0}, NEW s, NEW f, Concatenates(S, n, s, f), NEW m \in 1..n
  PROVE  PartAt(f[m], f[n], 0)
<1>0. /\ \A i \in 1..n : s[i] \in Seq(S) /\ f[i] \in Seq(S)
      /\ \A i \in 1..n : i # 1 => f[i] = f[i - 1] \o s[i]
  BY DEF Concatenates
<1>1. PICK Bad \in SUBSET Nat : Bad = {d \in Nat : d < n /\ ~PartAt(f[n - d], f[n], 0)}
  OBVIOUS
<1>2. Bad = {}
  <2>1. SUFFICES ASSUME Bad # {} PROVE FALSE
    OBVIOUS
  <2>2. PICK d \in Bad : \A e \in Bad : d <= e
    BY <2>1, NatLeast
  <2>3. PICK i \in 1..n : i = n - d
    BY <1>1, <2>2
  <2>4. d \in Nat /\ d < n /\ ~PartAt(f[i], f[n], 0)
    BY <1>1, <2>2, <2>3
  <2>5. f[i] \in Seq(S) /\ f[n] \in Seq(S)
    BY <1>0
  <2>6. d # 0
    <3>1. PartAt(f[n], f[n], 0)
      BY <2>5 DEF PartAt
    <3> QED BY <2>3, <2>4, <3>1
  <2>7. PICK j \in 1..n : j = i + 1 /\ j = n - (d - 1) /\ j # 1 /\ j - 1 = i
    BY <2>3, <2>4, <2>6
  <2>8. d - 1 \in Nat /\ d - 1 < n /\ d - 1 \notin Bad
    BY <2>2, <2>4, <2>6
  <2>9. PartAt(f[j], f[n], 0)
    BY <1>1, <2>7, <2>8
  <2>10. f[j] = f[i] \o s[j] /\ s[j] \in Seq(S) /\ f[j] \in Seq(S)
    BY <1>0, <2>7, Zenon
  <2>11. PartAt(f[i], f[j], 0)
    BY <2>5, <2>10, Joined
  <2>12. PartAt(f[i], f[n], 0 + 0)
    <3>1. 0 \in Nat
      OBVIOUS
    <3> QED BY <3>1, <2>5, <2>9, <2>10, <2>11, PartOfPart, Zenon
  <2>13. 0 + 0 = 0
    OBVIOUS
  <2> QED BY <2>4, <2>12, <2>13
<1>3. n - m \in Nat /\ n - m < n /\ n - (n - m) = m /\ n - m \notin Bad
  BY <1>2
<1> QED BY <1>1, <1>3

(* Where the sequences are in their concatenation. *)
LEMMA Parts ==
  ASSUME NEW S, NEW s \in Seq(Seq(S))
  PROVE  /\ FlattenSeq(s) \in Seq(S)
         /\ \E start \in [1..(Len(s) + 1) -> Nat] :
              /\ start[1] = 0 /\ start[Len(s) + 1] = Len(FlattenSeq(s))
              /\ \A i \in 1..Len(s) :
                   /\ start[i + 1] = start[i] + Len(s[i])
                   /\ PartAt(s[i], FlattenSeq(s), start[i])
<1>0. CASE s = <<>>
  <2>1. Len(s) = 0 /\ FlattenSeq(s) = <<>>
    BY <1>0 DEF FlattenSeq
  <2>2. PICK st : st = [i \in 1..1 |-> 0]
    OBVIOUS
  <2>3. st \in [1..(Len(s) + 1) -> Nat] /\ st[1] = 0 /\ st[Len(s) + 1] = Len(FlattenSeq(s))
    BY <2>1, <2>2
  <2> QED BY <2>1, <2>3
<1>1. CASE s # <<>>
  <2>1. PICK n \in Nat \ {0} : \E f :
          n = Len(s) /\ Concatenates(S, n, s, f) /\ FlattenSeq(s) = f[n]
    BY <1>1, FlattenSteps
  <2>2. PICK f :
          n = Len(s) /\ Concatenates(S, n, s, f) /\ FlattenSeq(s) = f[n]
    BY <2>1
  <2>a. /\ \A i \in 1..n : s[i] \in Seq(S) /\ f[i] \in Seq(S)
        /\ \A i \in 1..n : i # 1 => f[i] = f[i - 1] \o s[i]
        /\ f[1] = s[1]
    BY <2>2 DEF Concatenates
  <2>3. ASSUME NEW i \in 1..n
        PROVE  /\ s[i] \in Seq(S) /\ f[i] \in Seq(S)
               /\ Len(s[i]) \in Nat /\ Len(f[i]) \in Nat
    <3>1. s[i] \in Seq(S) /\ f[i] \in Seq(S)
      BY <2>a
    <3> QED BY <3>1
  <2>4. PICK st : st = [i \in 1..(n + 1) |-> IF i = 1 THEN 0 ELSE Len(f[i - 1])]
    OBVIOUS
  <2>5. \A i \in 1..n : st[i + 1] = Len(f[i]) /\ (i # 1 => st[i] = Len(f[i - 1]))
    BY <2>4
  <2>6. st \in [1..(n + 1) -> Nat] /\ st[1] = 0 /\ st[n + 1] = Len(f[n])
    <3>1. ASSUME NEW i \in 1..(n + 1) PROVE (IF i = 1 THEN 0 ELSE Len(f[i - 1])) \in Nat
      BY <2>3
    <3> QED BY <2>4, <3>1
  <2>7. ASSUME NEW i \in 1..n
        PROVE  Len(f[i]) = st[i] + Len(s[i]) /\ PartAt(s[i], f[i], st[i])
    <3>0. s[i] \in Seq(S) /\ f[i] \in Seq(S) /\ Len(s[i]) \in Nat
      BY <2>3
    <3>1. CASE i = 1
      <4>1. f[i] = s[i] /\ st[i] = 0
        BY <3>1, <2>a, <2>6
      <4> QED BY <3>0, <4>1 DEF PartAt
    <3>2. CASE i # 1
      <4>1. PICK j \in 1..n : j = i - 1
        BY <3>2
      <4>2. f[i] = f[j] \o s[i] /\ st[i] = Len(f[j])
        BY <3>2, <4>1, <2>a, <2>5, Zenon
      <4>3. f[j] \in Seq(S)
        BY <2>3
      <4> QED BY <3>0, <4>2, <4>3, Joined
    <3> QED BY <3>1, <3>2
  <2>8. ASSUME NEW i \in 1..n
        PROVE  st[i + 1] = st[i] + Len(s[i]) /\ PartAt(s[i], f[n], st[i])
    <3>1. /\ Len(f[i]) = st[i] + Len(s[i]) /\ st[i + 1] = Len(f[i])
          /\ PartAt(s[i], f[i], st[i])
      BY <2>5, <2>7
    <3>2. s[i] \in Seq(S) /\ f[i] \in Seq(S) /\ f[n] \in Seq(S)
      BY <2>3
    <3>3. st[i] \in Nat
      <4>1. i \in 1..(n + 1)
        OBVIOUS
      <4> QED BY <4>1, <2>6
    <3>4. PartAt(f[i], f[n], 0)
      <4>1. Concatenates(S, n, s, f)
        BY <2>2
      <4> QED BY <4>1, Beginning, Zenon
    <3>5. PartAt(s[i], f[n], 0 + st[i])
      BY <3>1, <3>2, <3>3, <3>4, PartOfPart
    <3>6. 0 + st[i] = st[i]
      BY <3>3
    <3> QED BY <3>1, <3>5, <3>6
  <2>9. FlattenSeq(s) \in Seq(S)
    BY <2>2, <2>3
  <2>10. /\ st \in [1..(Len(s) + 1) -> Nat]
         /\ st[1] = 0 /\ st[Len(s) + 1] = Len(FlattenSeq(s))
    BY <2>2, <2>6
  <2>11. \A i \in 1..Len(s) :
           /\ st[i + 1] = st[i] + Len(s[i])
           /\ PartAt(s[i], FlattenSeq(s), st[i])
    BY <2>2, <2>8
  <2> QED BY <2>9, <2>10, <2>11
<1> QED BY <1>0, <1>1

(* One more sequence goes to the end. *)
LEMMA FlattenAppend ==
  ASSUME NEW S, NEW s \in Seq(Seq(S)), NEW x \in Seq(S)
  PROVE  FlattenSeq(Append(s, x)) = FlattenSeq(s) \o x
<1>1. PICK t \in Seq(Seq(S)) : t = Append(s, x)
  BY AppendProperties
<1>2. /\ t # <<>> /\ Len(t) = Len(s) + 1 /\ Len(s) \in Nat /\ t[Len(s) + 1] = x
      /\ \A i \in 1..Len(s) : t[i] = s[i]
  BY <1>1, AppendProperties
<1>3. PICK n \in Nat \ {0} : \E f :
        n = Len(t) /\ Concatenates(S, n, t, f) /\ FlattenSeq(t) = f[n]
  BY <1>2, FlattenSteps
<1>4. PICK f :
        n = Len(t) /\ Concatenates(S, n, t, f) /\ FlattenSeq(t) = f[n]
  BY <1>3
<1>a. /\ f[1] = t[1] /\ \A i \in 1..n : i # 1 => f[i] = f[i - 1] \o t[i]
  BY <1>4, Zenon DEF Concatenates
<1>5. CASE s = <<>>
  <2>1. FlattenSeq(s) = <<>> /\ Len(s) = 0
    BY <1>5 DEF FlattenSeq
  <2>2. FlattenSeq(t) = x
    BY <2>1, <1>2, <1>4, <1>a
  <2> QED BY <1>1, <2>1, <2>2, ConcatEmptySeq
<1>6. CASE s # <<>>
  <2>1. PICK m \in Nat \ {0} : \E g :
        m = Len(s) /\ Concatenates(S, m, s, g) /\ FlattenSeq(s) = g[m]
    BY <1>6, FlattenSteps
  <2>2. PICK g :
        m = Len(s) /\ Concatenates(S, m, s, g) /\ FlattenSeq(s) = g[m]
    BY <2>1
  <2>b. g[1] = s[1] /\ \A i \in 1..m : i # 1 => g[i] = g[i - 1] \o s[i]
    BY <2>2, Zenon DEF Concatenates
  <2>3. n = m + 1 /\ \A i \in 1..m : i \in 1..n /\ t[i] = s[i]
    BY <1>2, <1>4, <2>2
  <2>4. PICK Bad \in SUBSET Nat : Bad = {k \in Nat : k \in 1..m /\ f[k] # g[k]}
    OBVIOUS
  <2>5. Bad = {}
    <3>1. SUFFICES ASSUME Bad # {} PROVE FALSE
      OBVIOUS
    <3>2. PICK k \in Bad : \A j \in Bad : k <= j
      BY <3>1, NatLeast
    <3>3. k \in 1..m /\ f[k] # g[k]
      BY <2>4, <3>2
    <3>4. k # 1
      BY <1>a, <2>b, <2>3, <3>3
    <3>5. PICK j \in 1..m : j = k - 1 /\ ~(k <= j)
      BY <3>3, <3>4
    <3>6. f[j] = g[j]
      <4>1. j \in Nat /\ j \notin Bad
        BY <3>2, <3>5
      <4> QED BY <4>1, <2>4, Zenon
    <3>7. f[k] = f[j] \o t[k] /\ g[k] = g[j] \o s[k] /\ t[k] = s[k]
      BY <1>a, <2>b, <2>3, <3>3, <3>4, <3>5, Zenon
    <3> QED BY <3>3, <3>6, <3>7
  <2>6. f[m] = g[m]
    <3>1. m \in Nat /\ m \in 1..m
      OBVIOUS
    <3> QED BY <3>1, <2>4, <2>5, Zenon
  <2>7. f[n] = f[m] \o x
    <3>1. n \in 1..n /\ n # 1 /\ n - 1 = m
      BY <2>3
    <3>2. f[n] = f[m] \o t[n]
      BY <3>1, <1>a, Zenon
    <3> QED BY <3>2, <1>2, <1>4
  <2> QED BY <1>1, <1>4, <2>2, <2>6, <2>7
<1> QED BY <1>5, <1>6

(* The lengths that pds_int_len takes from a byte, and those that are read.  *)
LEMMA MeasuredForms ==
  ASSUME NEW b \in Byte, b \notin 248..251
  PROVE  /\ b \in 224..239 => MeasuredLen(b) = 3
         /\ b \notin 224..239 => MeasuredLen(b) = ReadLen(b)
         /\ MeasuredLen(b) \in Nat
<1>1. CASE b < 128
  BY <1>1 DEF ReadLen, MeasuredLen, Byte
<1>2. CASE b \in 128..191
  BY <1>2 DEF ReadLen, MeasuredLen, Byte
<1>3. CASE b \in 192..239
  BY <1>3 DEF ReadLen, MeasuredLen, Byte
<1>4. CASE b \in 240..243
  BY <1>4 DEF ReadLen, MeasuredLen, Byte
<1>5. CASE b \in 244..247
  BY <1>5 DEF ReadLen, MeasuredLen, Byte
<1>6. CASE 252 <= b
  BY <1>6 DEF ReadLen, MeasuredLen, Byte
<1>7. b < 128 \/ b \in 128..191 \/ b \in 192..239 \/ b \in 240..243 \/ b \in 244..247 \/ 252 <= b
  BY DEF Byte
<1> QED BY <1>1, <1>2, <1>3, <1>4, <1>5, <1>6, <1>7

(* The last forms have nothing behind them. *)
LEMMA MeasuredOne == \A b \in Byte : 252 <= b => MeasuredLen(b) = 1
<1>1. ASSUME NEW b \in Byte, 252 <= b PROVE MeasuredLen(b) = 1
  <2>1. b \notin 248..251 /\ b \notin 224..239
    BY <1>1 DEF Byte
  <2>2. MeasuredLen(b) = ReadLen(b)
    BY <2>1, MeasuredForms
  <2> QED BY <2>2, <1>1, Table
<1> QED BY <1>1

(* Only the form 1110xxxx is read as four bytes. *)
LEMMA TableForms ==
  ASSUME NEW b \in Byte, b \notin 248..255
  PROVE  /\ b \in 224..239 => ReadLen(b) = 4
         /\ b \notin 224..239 => ReadLen(b) \in {1, 2, 3, 5, 9}
<1>1. CASE b < 128
  BY <1>1, Table DEF Byte
<1>2. CASE b \in 128..191
  BY <1>2, Table
<1>3. CASE b \in 192..223
  BY <1>3, Table
<1>4. CASE b \in 224..239
  BY <1>4, Table
<1>5. CASE b \in 240..243
  BY <1>5, Table
<1>6. CASE b \in 244..247
  BY <1>6, Table
<1>7. b < 128 \/ b \in 128..191 \/ b \in 192..223 \/ b \in 224..239 \/ b \in 240..243 \/ b \in 244..247
  BY DEF Byte
<1> QED BY <1>1, <1>2, <1>3, <1>4, <1>5, <1>6, <1>7

(* The form 1110xxxx is the one with four bytes. *)
LEMMA PlainFour ==
  ASSUME NEW v \in Word
  PROVE  /\ ReadLen(Plain(v)[1]) = Len(Plain(v)) /\ Plain(v)[1] \in Byte /\ Plain(v)[1] \notin 248..251
         /\ Plain(v)[1] \in 224..239 <=> Len(Plain(v)) = 4
<1>1. Plain(v) \in Seq(Byte) /\ Len(Plain(v)) \in 1..9 /\ Plain(v)[1] \notin 248..255
  BY PlainForm
<1>2. PICK b : b = Plain(v)[1]
  OBVIOUS
<1>3. b \in Byte /\ b \notin 248..255
  BY <1>1, <1>2, ElementOfSeq
<1>4. At(Plain(v), 1) = b /\ 1 \in Nat
  BY <1>1, <1>2 DEF At
<1>5. PlainAt(Plain(v), 1).size = Len(Plain(v))
  BY <1>2, <1>4, PlainRead
<1>6. ReadLen(b) \in Int
  BY <1>3, Lengths
<1>7. ReadLen(b) = Len(Plain(v))
  BY <1>4, <1>5, <1>6, <1>1 DEF PlainAt
<1>8. b \in 224..239 <=> ReadLen(b) = 4
  <2>1. /\ b \in 224..239 => ReadLen(b) = 4
        /\ b \notin 224..239 => ReadLen(b) \in {1, 2, 3, 5, 9}
    BY <1>3, TableForms
  <2> QED BY <2>1
<1> QED BY <1>2, <1>3, <1>7, <1>8

(* pds_int_len finds the length of a varint, but for that form.              *)
LEMMA Measured ==
  ASSUME NEW v \in Word, NEW d \in Seq(Byte), NEW n \in Nat, PartAt(Encode(v), d, n)
  PROVE  pds_int_len(d, n + 1) = IF FourBytes(v) THEN Len(Encode(v)) - 1 ELSE Len(Encode(v))
<1>0. /\ Len(d) \in Nat \ {0} /\ Len(Encode(v)) \in Nat /\ 1 <= Len(Encode(v))
      /\ n + Len(Encode(v)) <= Len(d)
  BY EncodeForm DEF PartAt
<1>1. \A j \in 1..Len(Encode(v)) : At(d, n + j) = Encode(v)[j]
  BY <1>0 DEF At, PartAt
<1>2. At(d, n + 1) = Encode(v)[1]
  BY <1>0, <1>1
<1>3. CASE ~Negative(v)
  <2>1. Encode(v) = Plain(v)
    BY <1>3 DEF Encode
  <2>2. PICK b : b = At(d, n + 1)
    OBVIOUS
  <2>3. /\ b \in Byte /\ b \notin 248..251 /\ ReadLen(b) = Len(Encode(v))
        /\ b \in 224..239 <=> Len(Encode(v)) = 4
    BY <1>2, <2>1, <2>2, PlainFour
  <2>4. Signs(d, n + 1) = 0
    BY <1>0, <2>2, <2>3, NoSign
  <2>5. pds_int_len(d, n + 1) = MeasuredLen(b)
    <3>1. (n + 1) + 0 = n + 1 /\ MeasuredLen(b) \in Int
      BY <2>3, <1>0, MeasuredForms
    <3> QED BY <3>1, <2>2, <2>4 DEF pds_int_len
  <2>6. FourBytes(v) <=> Len(Encode(v)) = 4
    BY <1>3, <2>1 DEF FourBytes
  <2>7. /\ b \in 224..239 => MeasuredLen(b) = 3
        /\ b \notin 224..239 => MeasuredLen(b) = ReadLen(b)
    BY <2>3, MeasuredForms
  <2>8. CASE FourBytes(v)
    <3>1. Len(Encode(v)) = 4 /\ MeasuredLen(b) = 3
      BY <2>3, <2>6, <2>7, <2>8
    <3> QED BY <3>1, <2>5, <2>8
  <2>9. CASE ~FourBytes(v)
    <3>1. MeasuredLen(b) = Len(Encode(v))
      BY <2>3, <2>6, <2>7, <2>9
    <3> QED BY <3>1, <2>5, <2>9
  <2> QED BY <2>8, <2>9
<1>4. CASE Negative(v)
  <2>1. PICK i \in Word : i = Flip(v)
    BY FlipTwice
  <2>2. FourBytes(v) <=> Len(Plain(i)) = 4
    BY <1>4, <2>1 DEF FourBytes
  <2>3. CASE Zeros(i, 7) /\ i[8] <= 3
    <3>1. Encode(v) = <<252 + i[8]>>
      BY <1>4, <2>1, <2>3 DEF Encode
    <3>a. i[8] \in Byte /\ i[8] <= 3
      BY <2>3, WordBytes
    <3>2. i[8] \in 0..3
      BY <3>a, Small
    <3>3. At(d, n + 1) = 252 + i[8] /\ Len(Encode(v)) = 1
      BY <3>1, <1>2
    <3>4. Signs(d, n + 1) = 0
      BY <3>2, <3>3, <1>0, NoSign
    <3>b. PICK b : b = 252 + i[8]
      OBVIOUS
    <3>5. MeasuredLen(252 + i[8]) = 1
      BY <3>2, <3>b, MeasuredOne DEF Byte
    <3>6. pds_int_len(d, n + 1) = 1
      BY <3>3, <3>4, <3>5 DEF pds_int_len
    <3>7. ~FourBytes(v)
      <4>1. Plain(i) = <<i[8]>>
        BY <2>3, <3>2 DEF Plain
      <4> QED BY <2>2, <4>1
    <3> QED BY <3>3, <3>6, <3>7
  <2>4. CASE ~(Zeros(i, 7) /\ i[8] <= 3)
    <3>1. Encode(v) = <<248>> \o Plain(i)
      BY <1>4, <2>1, <2>4 DEF Encode
    <3>2. Plain(i) \in Seq(Byte) /\ Len(Plain(i)) \in 1..9 /\ Plain(i)[1] \notin 248..255
      BY PlainForm
    <3>3. <<248>> \in Seq(Byte)
      BY DEF Byte
    <3>4. /\ Len(Encode(v)) = 1 + Len(Plain(i)) /\ Encode(v)[1] = 248
          /\ Encode(v)[2] = Plain(i)[1]
      BY <3>1, <3>2, <3>3
    <3>5. PICK b : b = At(d, n + 2)
      OBVIOUS
    <3>6. b = Plain(i)[1]
      BY <1>1, <3>2, <3>4, <3>5
    <3>7. /\ b \in Byte /\ b \notin 248..251 /\ ReadLen(b) = Len(Plain(i))
          /\ b \in 224..239 <=> Len(Plain(i)) = 4
      BY <3>6, PlainFour
    <3>8. (n + 1) + 1 = n + 2
      OBVIOUS
    <3>9. Signs(d, n + 1) = 1
      BY <1>0, <1>2, <3>4, <3>5, <3>7, <3>8, OneSign
    <3>10. pds_int_len(d, n + 1) = 1 + MeasuredLen(b)
      BY <3>5, <3>8, <3>9 DEF pds_int_len
    <3>11. /\ b \in 224..239 => MeasuredLen(b) = 3
           /\ b \notin 224..239 => MeasuredLen(b) = ReadLen(b)
      BY <3>7, MeasuredForms
    <3>12. CASE FourBytes(v)
      <4>1. Len(Plain(i)) = 4 /\ MeasuredLen(b) = 3
        BY <2>2, <3>7, <3>11, <3>12
      <4> QED BY <4>1, <3>4, <3>10, <3>12
    <3>13. CASE ~FourBytes(v)
      <4>1. MeasuredLen(b) = Len(Plain(i))
        BY <2>2, <3>7, <3>11, <3>13
      <4> QED BY <4>1, <3>4, <3>10, <3>13
    <3> QED BY <3>12, <3>13
  <2> QED BY <2>3, <2>4
<1> QED BY <1>3, <1>4

(* The frames of a packet with their headers; the first m - 1 are marked.    *)
Mark(i, m) == IF i < m THEN 128 ELSE 0
Headed(fr, m) == [i \in 1..Len(fr) |-> <<Mark(i, m) + Len(fr[i])>> \o fr[i]]

(* A frame follows its header, and the header is a byte. *)
LEMMA HeadedForm ==
  ASSUME NEW fr, FramesTyped(fr), NEW m \in Nat
  PROVE  /\ fr \in Seq(Seq(Byte)) /\ Len(fr) \in Nat
         /\ Headed(fr, m) \in Seq(Seq(Byte)) /\ Len(Headed(fr, m)) = Len(fr)
         /\ \A i \in 1..Len(fr) :
              /\ fr[i] \in Seq(Byte) /\ Len(fr[i]) \in 0..127
              /\ Len(Headed(fr, m)[i]) = 1 + Len(fr[i])
              /\ Headed(fr, m)[i] \in Seq(Byte)
              /\ Headed(fr, m)[i][1] = Mark(i, m) + Len(fr[i])
              /\ PartAt(fr[i], Headed(fr, m)[i], 1)
<1>1. fr \in Seq(Seq(Byte)) /\ \A i \in 1..Len(fr) : Len(fr[i]) < 128
  BY DEF FramesTyped
<1>2. PICK n \in Nat : n = Len(fr)
  BY <1>1
<1>3. PICK h : h = Headed(fr, m)
  OBVIOUS
<1>4. ASSUME NEW i \in 1..n
      PROVE  /\ fr[i] \in Seq(Byte) /\ Len(fr[i]) \in 0..127
             /\ Len(h[i]) = 1 + Len(fr[i]) /\ h[i] \in Seq(Byte)
             /\ h[i][1] = Mark(i, m) + Len(fr[i])
             /\ PartAt(fr[i], h[i], 1)
  <2>1. fr[i] \in Seq(Byte) /\ Len(fr[i]) < 128
    BY <1>1, <1>2, ElementOfSeq
  <2>2. Len(fr[i]) \in 0..127
    <3>1. PICK g \in Seq(Byte) : g = fr[i]
      BY <2>1
    <3>2. Len(g) < 128
      BY <2>1, <3>1, Zenon
    <3>4. PICK k \in Nat : k = Len(g)
      OBVIOUS
    <3>5. k < 128
      BY <3>2, <3>4, Zenon
    <3>6. k \in 0..127
      BY <3>5
    <3>3. Len(g) \in 0..127
      BY <3>4, <3>6, Zenon
    <3> QED BY <3>1, <3>3, Zenon
  <2>3. PICK x \in Byte : x = Mark(i, m) + Len(fr[i])
    <3>1. PICK g \in 0..127 : g = Len(fr[i])
      BY <2>2
    <3>2. Mark(i, m) \in {0, 128}
      BY DEF Mark
    <3>3. PICK y \in {0, 128} : y = Mark(i, m)
      BY <3>2
    <3>4. g + y \in Byte
      BY SMTT(30) DEF Byte
    <3> QED BY <3>1, <3>3, <3>4
  <2>4. h[i] = <<x>> \o fr[i]
    BY <1>2, <1>3, <2>3 DEF Headed
  <2>5. PICK a \in Seq(Byte) : a = <<x>> /\ Len(a) = 1 /\ a[1] = x
    BY Single
  <2>6. /\ h[i] \in Seq(Byte) /\ Len(h[i]) = Len(a) + Len(fr[i])
        /\ PartAt(a, h[i], 0) /\ PartAt(fr[i], h[i], Len(a))
    BY <2>1, <2>4, <2>5, Joined
  <2>7. h[i][1] = x
    BY <2>5, <2>6 DEF PartAt
  <2> QED BY <2>1, <2>2, <2>3, <2>5, <2>6, <2>7
<1>5. h = [i \in 1..n |-> h[i]]
  BY <1>2, <1>3 DEF Headed
<1>6. h \in [1..n -> Seq(Byte)]
  BY <1>4, <1>5
<1>7. h \in Seq(Seq(Byte)) /\ Len(h) = n
  BY <1>6
<1> QED BY <1>1, <1>2, <1>3, <1>4, <1>7

(* at[i] is where the header of frame i is in a packet that has the frames   *)
(* behind its first b bytes (the first byte is at 0).                        *)
Placed(fr, m, d, b, at) ==
  /\ at \in [1..(Len(fr) + 1) -> Nat]
  /\ at[1] = b /\ at[Len(fr) + 1] = b + Len(FlattenSeq(Headed(fr, m)))
  /\ \A i \in 1..Len(fr) :
       /\ at[i + 1] = at[i] + 1 + Len(fr[i]) /\ at[i + 1] <= Len(d)
       /\ d[at[i] + 1] = Mark(i, m) + Len(fr[i])
       /\ PartAt(fr[i], d, at[i] + 1)

(* Every header has its place. *)
LEMMA Walk ==
  ASSUME NEW fr, FramesTyped(fr), NEW m \in Nat, NEW d \in Seq(Byte), NEW b \in Nat,
         PartAt(FlattenSeq(Headed(fr, m)), d, b)
  PROVE  \E at : Placed(fr, m, d, b, at)
<1>1. PICK h : h = Headed(fr, m)
  OBVIOUS
<1>2. PICK n \in Nat : n = Len(fr)
  BY HeadedForm
<1>3. /\ h \in Seq(Seq(Byte)) /\ Len(h) = n
      /\ \A i \in 1..n :
           /\ fr[i] \in Seq(Byte) /\ Len(fr[i]) \in 0..127
           /\ Len(h[i]) = 1 + Len(fr[i]) /\ h[i] \in Seq(Byte)
           /\ h[i][1] = Mark(i, m) + Len(fr[i])
           /\ PartAt(fr[i], h[i], 1)
  <2>1. /\ Headed(fr, m) \in Seq(Seq(Byte)) /\ Len(Headed(fr, m)) = Len(fr)
        /\ \A i \in 1..Len(fr) :
             /\ fr[i] \in Seq(Byte) /\ Len(fr[i]) \in 0..127
             /\ Len(Headed(fr, m)[i]) = 1 + Len(fr[i])
             /\ Headed(fr, m)[i] \in Seq(Byte)
             /\ Headed(fr, m)[i][1] = Mark(i, m) + Len(fr[i])
             /\ PartAt(fr[i], Headed(fr, m)[i], 1)
    BY HeadedForm, Zenon
  <2> QED BY <2>1, <1>1, <1>2, Zenon
<1>4. PICK c \in Seq(Byte) : c = FlattenSeq(h)
  BY <1>3, Parts
<1>5. PICK st \in [1..(n + 1) -> Nat] :
        /\ st[1] = 0 /\ st[n + 1] = Len(c)
        /\ \A i \in 1..n : st[i + 1] = st[i] + Len(h[i]) /\ PartAt(h[i], c, st[i])
  <2>1. h \in Seq(Seq(Byte))
    BY <1>3
  <2>2. \E st \in [1..(Len(h) + 1) -> Nat] :
          /\ st[1] = 0 /\ st[Len(h) + 1] = Len(FlattenSeq(h))
          /\ \A i \in 1..Len(h) :
               st[i + 1] = st[i] + Len(h[i]) /\ PartAt(h[i], FlattenSeq(h), st[i])
    BY <2>1, Parts, ZenonT(60)
  <2>3. Len(h) = n /\ c = FlattenSeq(h)
    BY <1>3, <1>4
  <2> QED BY <2>2, <2>3, Zenon
<1>6. PartAt(c, d, b)
  BY <1>1, <1>4
<1>7. PICK at : at = [i \in 1..(n + 1) |-> b + st[i]]
  OBVIOUS
<1>8. at \in [1..(n + 1) -> Nat] /\ at[1] = b /\ at[n + 1] = b + Len(c)
  BY <1>5, <1>7
<1>9. ASSUME NEW i \in 1..n
      PROVE  /\ at[i + 1] = at[i] + 1 + Len(fr[i]) /\ at[i + 1] <= Len(d)
             /\ d[at[i] + 1] = Mark(i, m) + Len(fr[i])
             /\ PartAt(fr[i], d, at[i] + 1)
  <2>1. PICK s \in Nat : s = st[i] /\ at[i] = b + s /\ at[i + 1] = b + st[i + 1]
    <3>1. i \in 1..(n + 1) /\ i + 1 \in 1..(n + 1)
      OBVIOUS
    <3> QED BY <3>1, <1>5, <1>7
  <2>2. /\ fr[i] \in Seq(Byte) /\ Len(fr[i]) \in 0..127
        /\ Len(h[i]) = 1 + Len(fr[i]) /\ h[i] \in Seq(Byte)
        /\ h[i][1] = Mark(i, m) + Len(fr[i])
        /\ PartAt(fr[i], h[i], 1)
    BY <1>3
  <2>3. st[i + 1] = s + Len(h[i]) /\ PartAt(h[i], c, s)
    BY <1>5, <2>1
  <2>4. PartAt(h[i], d, b + s)
    BY <1>6, <2>2, <2>3, PartOfPart
  <2>5. PartAt(fr[i], d, (b + s) + 1)
    <3>1. b + s \in Nat /\ 1 \in Nat
      OBVIOUS
    <3> QED BY <3>1, <2>2, <2>4, PartOfPart
  <2>6. (b + s) + Len(h[i]) <= Len(d) /\ d[(b + s) + 1] = h[i][1]
    <3>1. 1 \in 1..Len(h[i])
      BY <2>2
    <3> QED BY <3>1, <2>4 DEF PartAt
  <2>7. at[i + 1] = (b + s) + Len(h[i])
    <3>1. PICK l \in Nat : l = Len(h[i])
      BY <2>2
    <3>2. st[i + 1] = s + l /\ at[i + 1] = b + st[i + 1]
      BY <3>1, <2>1, <2>3
    <3>3. b + (s + l) = (b + s) + l
      OBVIOUS
    <3> QED BY <3>1, <3>2, <3>3
  <2>8. at[i + 1] = at[i] + 1 + Len(fr[i])
    <3>0. Len(fr[i]) \in 0..127 /\ Len(h[i]) = 1 + Len(fr[i])
      BY <2>2
    <3>1. PICK l \in 0..127 : l = Len(fr[i]) /\ Len(h[i]) = 1 + l
      BY <3>0, Zenon
    <3>2. (b + s) + (1 + l) = (b + s) + 1 + l
      OBVIOUS
    <3> QED BY <3>1, <3>2, <2>1, <2>7
  <2> QED BY <2>1, <2>2, <2>5, <2>6, <2>7, <2>8
<1> QED BY <1>1, <1>2, <1>4, <1>8, <1>9 DEF Placed

(* What another client sends: the number, the frames, the position.          *)
LEMMA SentForm ==
  ASSUME NEW p \in Packets
  PROVE  /\ p.session \in Word /\ p.number \in Word /\ p.position \in Seq(Byte)
         /\ p.flags \in Byte
         /\ FramesTyped(p.frames) /\ p.frames # <<>> /\ Len(p.frames) \in Nat \ {0}
         /\ Speech(p.frames) = FlattenSeq(Headed(p.frames, Len(p.frames)))
         /\ Speech(p.frames) \in Seq(Byte) /\ AsSent(p) \in Seq(Byte)
         /\ PartAt(Encode(p.number), AsSent(p), 0)
         /\ PartAt(Speech(p.frames), AsSent(p), Len(Encode(p.number)))
<1>1. /\ p.session \in Word /\ p.number \in Word /\ p.position \in Seq(Byte)
      /\ p.flags \in Byte /\ FramesTyped(p.frames) /\ p.frames # <<>>
  <2>1. p.session \in Sessions /\ p.number \in Numbers /\ p.position \in Positions
        /\ p.frames \in Speeches /\ p.flags \in Flags
    BY DEF Packets
  <2>2. /\ Flags \subseteq Byte /\ Sessions \subseteq Word /\ Numbers \subseteq Word
        /\ Positions \subseteq Seq(Byte)
        /\ \A fr \in Speeches : FramesTyped(fr) /\ fr # <<>>
    BY VoiceAssumption
  <2> QED BY <2>1, <2>2, Zenon
<1>2. Len(p.frames) \in Nat \ {0}
  BY <1>1, EmptySeq DEF FramesTyped
<1>3. Speech(p.frames) = FlattenSeq(Headed(p.frames, Len(p.frames)))
  BY Zenon DEF Speech, Headed, Mark
<1>4. Headed(p.frames, Len(p.frames)) \in Seq(Seq(Byte))
  BY <1>1, <1>2, HeadedForm
<1>5. PICK c \in Seq(Byte) : c = Speech(p.frames)
  BY <1>3, <1>4, Parts
<1>6. PICK a \in Seq(Byte) : a = Encode(p.number)
  BY <1>1, EncodeForm
<1>7. /\ a \o c \in Seq(Byte) /\ PartAt(a, a \o c, 0) /\ PartAt(c, a \o c, Len(a))
      /\ Len(a) \in Nat
  BY <1>5, <1>6, Joined
<1>8. PICK e \in Seq(Byte) : e = a \o c
  BY <1>7
<1>9. e \o p.position \in Seq(Byte) /\ PartAt(e, e \o p.position, 0)
  BY <1>1, Joined
<1>10. AsSent(p) = e \o p.position
  BY <1>5, <1>6, <1>8 DEF AsSent
<1>11. 0 \in Nat
  OBVIOUS
<1>12. PartAt(a, AsSent(p), 0)
  <2>1. PartAt(a, e, 0) /\ PartAt(e, AsSent(p), 0) /\ AsSent(p) \in Seq(Byte)
    BY <1>7, <1>8, <1>9, <1>10
  <2> QED BY <2>1, <1>11, PartOfBeginning
<1>13. PartAt(c, AsSent(p), Len(a))
  <2>1. PartAt(c, e, Len(a)) /\ PartAt(e, AsSent(p), 0) /\ AsSent(p) \in Seq(Byte)
    BY <1>7, <1>8, <1>9, <1>10
  <2> QED BY <2>1, <1>7, PartOfBeginning
<1> QED BY <1>1, <1>2, <1>3, <1>5, <1>6, <1>9, <1>10, <1>11, <1>12, <1>13

(* What the server makes of it. *)
LEMMA ServerForm ==
  ASSUME NEW p \in Packets
  PROVE  /\ FromServer(p) \in Seq(Byte) /\ FromServer(p)[1] = p.flags
         /\ Len(FromServer(p)) = 1 + Len(Encode(p.session)) + Len(AsSent(p))
         /\ PartAt(Encode(p.session), FromServer(p), 1)
         /\ PartAt(AsSent(p), FromServer(p), 1 + Len(Encode(p.session)))
<1>1. PICK z \in Seq(Byte) : z = <<p.flags>> /\ Len(z) = 1 /\ z[1] = p.flags
  <2>1. p.flags \in Byte
    BY SentForm
  <2> QED BY <2>1, Single
<1>2. PICK a \in Seq(Byte) : a = Encode(p.session)
  BY SentForm, EncodeForm
<1>3. PICK c \in Seq(Byte) : c = AsSent(p)
  BY SentForm
<1>4. PICK e \in Seq(Byte) : e = z \o a /\ Len(e) = 1 + Len(a) /\ PartAt(z, e, 0)
                             /\ PartAt(a, e, 1) /\ Len(a) \in Nat
  BY <1>1, Joined
<1>5. PICK d \in Seq(Byte) : d = e \o c /\ Len(d) = Len(e) + Len(c) /\ PartAt(e, d, 0)
                             /\ PartAt(c, d, Len(e))
  BY Joined
<1>6. FromServer(p) = d
  BY <1>1, <1>2, <1>3, <1>4, <1>5 DEF FromServer
<1>7. 0 \in Nat /\ 1 \in Nat
  OBVIOUS
<1>8. PartAt(z, d, 0) /\ PartAt(a, d, 1)
  BY <1>4, <1>5, <1>7, PartOfBeginning
<1>9. d[1] = p.flags
  BY <1>1, <1>7, <1>8 DEF PartAt
<1> QED BY <1>2, <1>3, <1>4, <1>5, <1>6, <1>7, <1>8, <1>9

(* What is left of a sequence that ends with c is c exactly if it begins     *)
(* where c does.                                                             *)
CutRight(S, c, d, n, k) ==
  /\ SubSeq(d, k, Len(d)) \in Seq(S)
  /\ k = n + 1 => SubSeq(d, k, Len(d)) = c
  /\ k # n + 1 => SubSeq(d, k, Len(d)) # c

(* So it is in every sequence. *)
LEMMA Cut ==
  ASSUME NEW S, NEW c \in Seq(S), NEW d \in Seq(S), NEW n \in Nat, NEW k \in 1..(n + 1),
         PartAt(c, d, n), Len(d) = n + Len(c)
  PROVE  CutRight(S, c, d, n, k)
<1>1. PICK lc \in Nat : lc = Len(c)
  OBVIOUS
<1>2. PICK ld \in Nat : ld = Len(d) /\ ld = n + lc
  BY <1>1
<1>3. \A i \in k..ld : d[i] \in S
  <2>1. \A i \in k..ld : i \in 1..Len(d)
    BY <1>2
  <2> QED BY <2>1, ElementOfSeq
<1>4. PICK e : e = SubSeq(d, k, ld)
  OBVIOUS
<1>5. /\ e \in Seq(S) /\ Len(e) = IF k <= ld THEN ld - k + 1 ELSE 0
      /\ \A i \in 1..(ld - k + 1) : e[i] = d[k + i - 1]
  <2>1. k \in Int /\ ld \in Int
    OBVIOUS
  <2>2. SubSeq(d, k, ld) \in Seq(S)
    BY <1>3, <2>1, SubSeqProperties, SMTT(30)
  <2>3. Len(SubSeq(d, k, ld)) = IF k <= ld THEN ld - k + 1 ELSE 0
    BY <1>3, <2>1, SubSeqProperties, SMTT(30)
  <2>4. \A i \in 1..(ld - k + 1) : SubSeq(d, k, ld)[i] = d[k + i - 1]
    BY <1>3, <2>1, SubSeqProperties, SMTT(30)
  <2> QED BY <1>4, <2>2, <2>3, <2>4
<1>6. Len(e) = ld - k + 1
  <2>1. k <= ld \/ (~(k <= ld) /\ ld - k + 1 = 0)
    BY <1>2
  <2> QED BY <2>1, <1>5
<1>7. CASE k = n + 1
  <2>1. Len(e) = lc
    BY <1>2, <1>6, <1>7
  <2>2. ASSUME NEW i \in 1..lc PROVE e[i] = c[i]
    <3>1. i \in 1..(ld - k + 1) /\ k + i - 1 = n + i
      BY <1>2, <1>7
    <3>2. d[n + i] = c[i]
      BY <1>1 DEF PartAt
    <3> QED BY <3>1, <3>2, <1>5
  <2>3. e = c
    BY <2>1, <2>2, <1>1, <1>5, SeqEqual
  <2> QED BY <2>3, <1>2, <1>4, <1>5, <1>7 DEF CutRight
<1>8. CASE k # n + 1
  <2>1. Len(e) # lc
    BY <1>2, <1>6, <1>8
  <2> QED BY <2>1, <1>1, <1>2, <1>4, <1>5, <1>8 DEF CutRight
<1> QED BY <1>7, <1>8

(* A packet cut at two places is the same only if the places are. *)
LEMMA SameTail ==
  ASSUME NEW S, NEW x \in S, NEW a \in Seq(S), NEW b \in Seq(S)
  PROVE  <<x>> \o a = <<x>> \o b <=> a = b
<1>1. <<x>> \in Seq(S)
  OBVIOUS
<1> QED BY <1>1, ConcatSimplifications

(* RelayTunnelCallback takes the session out, or one byte less.              *)
LEMMA RelayCuts ==
  ASSUME NEW p \in Packets, NEW d, d = FromServer(p)
  PROVE  <<d[1]>> \o SubSeq(d, 2 + SessionLen(d), Len(d)) = WithoutSession(p)
           <=> ~FourBytes(p.session)
<1>1. /\ d \in Seq(Byte) /\ d[1] = p.flags
      /\ PartAt(Encode(p.session), d, 1)
  BY ServerForm
<1>2. PICK c \in Seq(Byte) : c = AsSent(p)
  BY SentForm
<1>3. PICK L \in Nat : L = Len(Encode(p.session)) /\ 1 <= L
  BY SentForm, EncodeForm
<1>0. PICK n \in Nat : n = 1 + L
  OBVIOUS
<1>4. Len(d) = n + Len(c) /\ PartAt(c, d, n)
  BY <1>0, <1>2, <1>3, ServerForm
<1>5. SessionLen(d) = IF FourBytes(p.session) THEN L - 1 ELSE L
  <2>1. p.session \in Word /\ 1 \in Nat /\ 1 + 1 = 2
    BY SentForm
  <2>2. pds_int_len(d, 1 + 1) = IF FourBytes(p.session) THEN Len(Encode(p.session)) - 1
                                ELSE Len(Encode(p.session))
    BY <1>1, <2>1, Measured
  <2> QED BY <1>3, <2>1, <2>2 DEF SessionLen
<1>6. PICK k \in 1..(n + 1) : k = 2 + SessionLen(d)
  BY <1>0, <1>3, <1>5
<1>7. k = n + 1 <=> ~FourBytes(p.session)
  BY <1>0, <1>3, <1>5, <1>6
<1>9. /\ SubSeq(d, k, Len(d)) \in Seq(Byte)
      /\ k = n + 1 => SubSeq(d, k, Len(d)) = c
      /\ k # n + 1 => SubSeq(d, k, Len(d)) # c
  <2>1. PICK e \in Seq(Byte) : e = d
    BY <1>1
  <2>2. PartAt(c, e, n) /\ Len(e) = n + Len(c)
    BY <1>4, <2>1
  <2>3. /\ SubSeq(e, k, Len(e)) \in Seq(Byte)
        /\ k = n + 1 => SubSeq(e, k, Len(e)) = c
        /\ k # n + 1 => SubSeq(e, k, Len(e)) # c
    <3>1. CutRight(Byte, c, e, n, k)
      BY <2>2, Cut
    <3> QED BY <3>1, Zenon DEF CutRight
  <2> QED BY <2>1, <2>3, Zenon
<1>10. PICK f \in Byte : f = p.flags
  BY SentForm
<1>11. <<f>> \o SubSeq(d, k, Len(d)) = <<f>> \o c <=> SubSeq(d, k, Len(d)) = c
  <2>1. PICK x \in Seq(Byte) : x = SubSeq(d, k, Len(d))
    BY <1>9
  <2> QED BY <2>1, <1>10, SameTail
<1>12. WithoutSession(p) = <<f>> \o c
  BY <1>2, <1>10 DEF WithoutSession
<1> QED BY <1>1, <1>6, <1>7, <1>9, <1>10, <1>11, <1>12

(* A packet's first byte is its own. *)
LEMMA SameHead ==
  ASSUME NEW S, NEW x \in S, NEW y \in S, NEW a \in Seq(S), NEW b \in Seq(S),
         <<x>> \o a = <<y>> \o b
  PROVE  x = y
<1>1. <<x>> \in Seq(S) /\ <<y>> \in Seq(S)
  OBVIOUS
<1>2. (<<x>> \o a)[1] = x /\ (<<y>> \o b)[1] = y
  BY <1>1, ConcatProperties
<1> QED BY <1>2

(* playbackFunction takes one byte out and overwrites the first. *)
LEMMA PlayCuts ==
  ASSUME NEW p \in Packets, NEW d, d = FromServer(p)
  PROVE  WithoutOne(d) = WithoutSession(p) <=> Len(Encode(p.session)) = 1 /\ p.flags = 0
<1>1. d \in Seq(Byte)
  BY ServerForm
<1>2. PICK c \in Seq(Byte) : c = AsSent(p)
  BY SentForm
<1>3. PICK L \in Nat : L = Len(Encode(p.session)) /\ 1 <= L
  BY SentForm, EncodeForm
<1>0. PICK n \in Nat : n = 1 + L
  OBVIOUS
<1>4. Len(d) = n + Len(c) /\ PartAt(c, d, n)
  BY <1>0, <1>2, <1>3, ServerForm
<1>5. PICK k \in 1..(n + 1) : k = 3
  BY <1>0, <1>3
<1>6. k = n + 1 <=> L = 1
  BY <1>0, <1>5
<1>8. /\ SubSeq(d, k, Len(d)) \in Seq(Byte)
      /\ k = n + 1 => SubSeq(d, k, Len(d)) = c
      /\ k # n + 1 => SubSeq(d, k, Len(d)) # c
  <2>1. PICK e \in Seq(Byte) : e = d
    BY <1>1
  <2>2. PartAt(c, e, n) /\ Len(e) = n + Len(c)
    BY <1>4, <2>1
  <2>3. /\ SubSeq(e, k, Len(e)) \in Seq(Byte)
        /\ k = n + 1 => SubSeq(e, k, Len(e)) = c
        /\ k # n + 1 => SubSeq(e, k, Len(e)) # c
    <3>1. CutRight(Byte, c, e, n, k)
      BY <2>2, Cut
    <3> QED BY <3>1, Zenon DEF CutRight
  <2> QED BY <2>1, <2>3, Zenon
<1>9. 0 \in Byte
  BY DEF Byte
<1>10. <<0>> \o SubSeq(d, k, Len(d)) = <<0>> \o c <=> SubSeq(d, k, Len(d)) = c
  <2>1. PICK x \in Seq(Byte) : x = SubSeq(d, k, Len(d))
    BY <1>8
  <2> QED BY <2>1, <1>9, SameTail
<1>11. WithoutOne(d) = <<0>> \o SubSeq(d, k, Len(d))
  BY <1>5 DEF WithoutOne
<1>12. WithoutSession(p) = <<p.flags>> \o c
  BY <1>2 DEF WithoutSession
<1>13. CASE p.flags = 0
  BY <1>3, <1>6, <1>8, <1>10, <1>11, <1>12, <1>13
<1>14. CASE p.flags # 0
  <2>1. PICK x \in Seq(Byte) : x = SubSeq(d, k, Len(d))
    BY <1>8
  <2>2. PICK f \in Byte : f = p.flags
    BY SentForm
  <2>3. <<0>> \o x # <<f>> \o c
    BY <1>9, <1>14, <2>2, SameHead
  <2> QED BY <2>1, <2>2, <2>3, <1>11, <1>12, <1>14
<1> QED BY <1>13, <1>14

(* RelayTunnelCallback (main.cc:300-303) hands on the packet received, with  *)
(* its type and target and without its session, for all sessions but those   *)
(* of the form 1110xxxx, which pds_int_len (main.cc:47-48) takes for three    *)
(* bytes.                                                                    *)
THEOREM RelayedExactAlways == VoiceSpec => []RelayedExact
<1>1. VoiceInit => RelayedExact
  BY DEF VoiceInit, RelayedExact
<1>2. RelayedExact /\ [VoiceNext]_voiceVars => RelayedExact'
  <2> SUFFICES ASSUME RelayedExact, [VoiceNext]_voiceVars PROVE RelayedExact'
    OBVIOUS
  <2>1. ASSUME NEW p \in Packets, RelayPacket(p) PROVE RelayedExact'
    <3>1. PICK d : d = FromServer(p)
      OBVIOUS
    <3>2. PICK r : r = [packet |-> p, data |-> <<d[1]>> \o SubSeq(d, 2 + SessionLen(d), Len(d))]
      OBVIOUS
    <3>3. relayed' = relayed \cup {r}
      BY <2>1, <3>1, <3>2 DEF RelayPacket
    <3>4. r.data = WithoutSession(r.packet) <=> ~FourBytes(r.packet.session)
      BY <3>1, <3>2, RelayCuts
    <3> QED BY <3>3, <3>4 DEF RelayedExact
  <2>2. ASSUME relayed' = relayed PROVE RelayedExact'
    BY <2>2 DEF RelayedExact
  <2>3. CASE BuildPacket
    BY <2>2, <2>3 DEF BuildPacket
  <2>4. ASSUME NEW p \in Packets, Record(p) PROVE RelayedExact'
    BY <2>2, <2>4 DEF Record
  <2>5. ASSUME NEW r \in BOOLEAN, SetRecording(r) PROVE RelayedExact'
    BY <2>2, <2>5 DEF SetRecording
  <2>6. CASE OpenFile
    BY <2>2, <2>6 DEF OpenFile
  <2>7. CASE PlayPacket
    BY <2>2, <2>7 DEF PlayPacket
  <2>8. CASE UNCHANGED voiceVars
    BY <2>2, <2>8 DEF voiceVars
  <2> QED BY <2>1, <2>3, <2>4, <2>5, <2>6, <2>7, <2>8 DEF VoiceNext
<1> QED BY <1>1, <1>2, PTL DEF VoiceSpec

(* Where the value at a place of a packet depends on that at a later place,  *)
(* there are values for all places.                                          *)
Later(N, nx) == nx \in [0..N -> Nat] /\ \A pos \in 0..N : nx[pos] > pos
Solves(V, v0, N, nx, st, f) ==
  /\ f \in [0..N -> V]
  /\ \A pos \in 0..N : f[pos] = st[pos][IF nx[pos] <= N THEN f[nx[pos]] ELSE v0]

(* A recursion whose argument grows up to a bound has a solution. *)
LEMMA Descent ==
  ASSUME NEW V, NEW v0 \in V, NEW N \in Nat, NEW nx, Later(N, nx),
         NEW st \in [0..N -> [V -> V]]
  PROVE  \E f : Solves(V, v0, N, nx, st, f)
<1> USE DEF Later
<1> DEFINE Value(f, pos) == st[pos][IF nx[pos] <= N THEN f[nx[pos]] ELSE v0]
           P(m) == \E f \in [0..N -> V] : \A pos \in 0..N : pos >= m => f[pos] = Value(f, pos)
<1>1. P(N + 1)
  <2>1. PICK f \in [0..N -> V] : f = [pos \in 0..N |-> v0]
    OBVIOUS
  <2>2. \A pos \in 0..N : ~(pos >= N + 1)
    OBVIOUS
  <2> QED BY <2>1, <2>2
<1>2. ASSUME NEW m \in 0..N, P(m + 1) PROVE P(m)
  <2>1. PICK f \in [0..N -> V] : \A pos \in 0..N : pos >= m + 1 => f[pos] = Value(f, pos)
    BY <1>2
  <2>2. Value(f, m) \in V
    OBVIOUS
  <2>3. PICK g \in [0..N -> V] : g = [pos \in 0..N |-> IF pos = m THEN Value(f, m) ELSE f[pos]]
    BY <2>2
  <2>4. ASSUME NEW pos \in 0..N, pos >= m PROVE g[pos] = Value(g, pos)
    <3>1. nx[pos] > pos /\ nx[pos] # m /\ nx[pos] \in Nat
      BY <2>4
    <3>2. nx[pos] <= N => g[nx[pos]] = f[nx[pos]]
      BY <2>3, <3>1
    <3>3. Value(g, pos) = Value(f, pos)
      BY <3>2
    <3>4. CASE pos = m
      BY <3>3, <3>4, <2>3
    <3>5. CASE pos # m
      <4>1. pos >= m + 1 /\ g[pos] = f[pos]
        BY <3>5, <2>3, <2>4
      <4> QED BY <4>1, <3>3, <2>1
    <3> QED BY <3>4, <3>5
  <2> QED BY <2>4
<1> HIDE DEF P
<1>3. PICK Bad \in SUBSET Nat : Bad = {k \in Nat : k <= N + 1 /\ ~P(N + 1 - k)}
  OBVIOUS
<1>4. Bad = {}
  <2>1. SUFFICES ASSUME Bad # {} PROVE FALSE
    OBVIOUS
  <2>2. PICK k \in Bad : \A j \in Bad : k <= j
    BY <2>1, NatLeast
  <2>3. k \in Nat /\ k <= N + 1 /\ ~P(N + 1 - k)
    BY <1>3
  <2>4. k # 0
    BY <1>1, <2>3
  <2>5. PICK m \in 0..N : m = N + 1 - k
    BY <2>3, <2>4
  <2>6. k - 1 \in Nat /\ k - 1 <= N + 1 /\ N + 1 - (k - 1) = m + 1 /\ ~(k <= k - 1)
    BY <2>3, <2>4, <2>5
  <2>7. P(m + 1)
    BY <1>3, <2>2, <2>6
  <2> QED BY <1>2, <2>3, <2>5, <2>7
<1>5. P(0)
  <2>1. N + 1 \in Nat /\ N + 1 <= N + 1 /\ N + 1 - (N + 1) = 0
    OBVIOUS
  <2> QED BY <2>1, <1>3, <1>4
<1>6. \A pos \in 0..N : pos >= 0
  OBVIOUS
<1>7. \E f \in [0..N -> V] : \A pos \in 0..N : f[pos] = Value(f, pos)
  BY <1>5, <1>6 DEF P
<1> QED BY <1>7, Zenon DEF Solves

(* Any such values are of the kind meant. *)
LEMMA DescentForm ==
  ASSUME NEW V, NEW N \in Nat, NEW nx \in [0..N -> Nat],
         \A pos \in 0..N : nx[pos] > pos, NEW f,
         \A pos \in 0..N : (nx[pos] <= N => f[nx[pos]] \in V) => f[pos] \in V
  PROVE  \A pos \in 0..N : f[pos] \in V
<1>1. PICK Bad \in SUBSET Nat : Bad = {k \in Nat : k <= N /\ f[N - k] \notin V}
  OBVIOUS
<1>2. Bad = {}
  <2>1. SUFFICES ASSUME Bad # {} PROVE FALSE
    OBVIOUS
  <2>2. PICK k \in Bad : \A j \in Bad : k <= j
    BY <2>1, NatLeast
  <2>3. PICK pos \in 0..N : pos = N - k /\ f[pos] \notin V /\ k \in Nat
    BY <1>1
  <2>4. ASSUME nx[pos] <= N PROVE f[nx[pos]] \in V
    <3>a. PICK x \in Nat : x = nx[pos] /\ x > pos /\ x <= N
      BY <2>3, <2>4
    <3>b. N - x \in Nat /\ N - x <= N /\ N - (N - x) = x /\ ~(k <= N - x)
      BY <3>a, <2>3
    <3>1. PICK j \in Nat : j = N - nx[pos] /\ j <= N /\ N - j = nx[pos] /\ ~(k <= j)
      BY <3>a, <3>b
    <3>2. f[N - j] \in V
      BY <3>1, <2>2, <1>1
    <3> QED BY <3>1, <3>2
  <2> QED BY <2>3, <2>4
<1>3. ASSUME NEW pos \in 0..N PROVE f[pos] \in V
  <2>1. PICK k \in Nat : k = N - pos /\ k <= N /\ N - k = pos
    OBVIOUS
  <2> QED BY <2>1, <1>1, <1>2
<1> QED BY <1>3

(* What the code reads is a byte, behind the packet too. *)
LEMMA AtByte ==
  ASSUME NEW d \in Seq(Byte), NEW k \in Nat \ {0}
  PROVE  At(d, k) \in Byte
<1>1. CASE k <= Len(d)
  <2>1. k \in 1..Len(d)
    BY <1>1
  <2> QED BY <1>1, <2>1, ElementOfSeq DEF At
<1>2. CASE ~(k <= Len(d))
  BY <1>2 DEF At, Byte
<1> QED BY <1>1, <1>2

(* What scanPacket finds from a header on depends on where its frame ends.   *)
After(d, pos) == pos + 1 + (At(d, pos + 1) % 128)

(* The recursion of scanPacket. *)
LEMMA ScanForm ==
  ASSUME NEW d \in Seq(Byte)
  PROVE  \E from \in [0..Len(d) -> Nat \cup {-1}] :
           /\ \A pos \in 0..Len(d) : from[pos] =
                IF After(d, pos) > Len(d) THEN -1
                ELSE IF At(d, pos + 1) < 128 THEN 1 ELSE Counted(from[After(d, pos)])
           /\ scanPacket(d) =
                LET start == 1 + pds_int_len(d, 2) + pds_int_len(d, 1 + pds_int_len(d, 2) + 1)
                IN IF start > Len(d) THEN -1 ELSE from[start]
<1> DEFINE V == Nat \cup {-1}
           Value(f, pos) == IF Outside(After(d, pos), Len(d)) THEN -1
                            ELSE IF At(d, pos + 1) < 128 THEN 1 ELSE Counted(f[After(d, pos)])
           E(f) == f = [pos \in 0..Len(d) |-> Value(f, pos)]
<1>1. PICK N \in Nat : N = Len(d)
  OBVIOUS
<1>2. \A pos \in 0..N : After(d, pos) \in Nat /\ After(d, pos) > pos
  <2>1. ASSUME NEW pos \in 0..N PROVE After(d, pos) \in Nat /\ After(d, pos) > pos
    <3>0. At(d, pos + 1) \in Byte
      BY AtByte
    <3>1. PICK b \in 0..255 : b = At(d, pos + 1)
      BY <3>0 DEF Byte
    <3>2. b % 128 \in Nat
      OBVIOUS
    <3> QED BY <3>1, <3>2 DEF After
  <2> QED BY <2>1
<1>3. PICK nx \in [0..N -> Nat] : nx = [pos \in 0..N |-> After(d, pos)]
  BY <1>2
<1>4. \A pos \in 0..N : nx[pos] = After(d, pos) /\ nx[pos] > pos
  BY <1>2, <1>3
<1>5. PICK st : st = [pos \in 0..N |-> [v \in V |->
        IF nx[pos] > N THEN -1 ELSE IF At(d, pos + 1) < 128 THEN 1 ELSE Counted(v)]]
  OBVIOUS
<1>6. st \in [0..N -> [V -> V]]
  <2>1. \A v \in V : Counted(v) \in V
    BY DEF Counted
  <2> QED BY <2>1, <1>5
<1>7. ASSUME NEW f, NEW pos \in 0..N,
             nx[pos] <= N => f[nx[pos]] \in V
      PROVE  Value(f, pos) = st[pos][IF nx[pos] <= N THEN f[nx[pos]] ELSE -1] /\ Value(f, pos) \in V
  <2>1. PICK x \in V : x = IF nx[pos] <= N THEN f[nx[pos]] ELSE -1
    BY <1>7
  <2>2. st[pos][x] = IF nx[pos] > N THEN -1 ELSE IF At(d, pos + 1) < 128 THEN 1 ELSE Counted(x)
    BY <1>5
  <2>3. nx[pos] = After(d, pos) /\ nx[pos] \in Nat /\ (nx[pos] > N <=> ~(nx[pos] <= N))
    BY <1>2, <1>4
  <2>4. Value(f, pos) = IF nx[pos] > N THEN -1
                        ELSE IF At(d, pos + 1) < 128 THEN 1 ELSE Counted(f[nx[pos]])
    BY <2>3, <1>1 DEF Outside
  <2>5. Value(f, pos) = st[pos][x]
    BY <2>1, <2>2, <2>3, <2>4
  <2> QED BY <2>1, <2>5, <1>6
<1>8. \E f : E(f)
  <2>1. -1 \in V
    OBVIOUS
  <2>2. PICK f \in [0..N -> V] :
          \A pos \in 0..N : f[pos] = st[pos][IF nx[pos] <= N THEN f[nx[pos]] ELSE -1]
    <3>1. PICK v0 \in V : v0 = -1
      BY <2>1
    <3> HIDE DEF V
    <3>2. Later(N, nx)
      BY <1>4 DEF Later
    <3>3. \E f : Solves(V, v0, N, nx, st, f)
      BY <3>2, <1>6, Descent
    <3> QED BY <3>1, <3>3, Zenon DEF Solves
  <2>3. ASSUME NEW pos \in 0..N PROVE f[pos] = Value(f, pos)
    <3>1. nx[pos] <= N => f[nx[pos]] \in V
      OBVIOUS
    <3> HIDE DEF Value
    <3> QED BY <3>1, <2>2, <1>7
  <2>4. f = [pos \in 0..N |-> Value(f, pos)]
    <3> HIDE DEF Value
    <3> QED BY <2>3
  <2> QED BY <2>4, <1>1
<1>9. PICK from : from = CHOOSE f : E(f)
  OBVIOUS
<1>10. E(from)
  <2> HIDE DEF E
  <2> QED BY <1>8, <1>9, Zenon
<1>11. \A pos \in 0..N : from[pos] = Value(from, pos)
  <2>1. PICK g : g = [pos \in 0..N |-> Value(from, pos)]
    OBVIOUS
  <2>2. from = g
    BY <2>1, <1>1, <1>10
  <2> HIDE DEF Value
  <2> QED BY <2>1, <2>2
<1>12. \A pos \in 0..N : from[pos] \in V
  <2>1. ASSUME NEW pos \in 0..N, nx[pos] <= N => from[nx[pos]] \in V PROVE from[pos] \in V
    <3> HIDE DEF Value, V
    <3> QED BY <2>1, <1>7, <1>11
  <2> HIDE DEF Value, V
  <2> QED BY <2>1, <1>4, DescentForm
<1>13. from \in [0..N -> V]
  <2>1. PICK g : g = [pos \in 0..N |-> Value(from, pos)]
    OBVIOUS
  <2>2. from = g
    BY <2>1, <1>1, <1>10
  <2> HIDE DEF Value, V
  <2> QED BY <2>1, <2>2, <1>12
<1>14. scanPacket(d) =
         LET start == 1 + pds_int_len(d, 2) + pds_int_len(d, 1 + pds_int_len(d, 2) + 1)
         IN IF start > Len(d) THEN -1 ELSE from[start]
  BY <1>9 DEF scanPacket, After
<1>15. \A pos \in 0..N : from[pos] =
         IF After(d, pos) > N THEN -1
         ELSE IF At(d, pos + 1) < 128 THEN 1 ELSE Counted(from[After(d, pos)])
  BY <1>1, <1>11 DEF Outside
<1> HIDE DEF Value, E
<1> QED BY <1>1, <1>13, <1>14, <1>15

(* A header: its mark and the length of the frame.                           *)
LEMMA HeaderParts ==
  ASSUME NEW l \in 0..127, NEW i \in Nat, NEW m \in Nat, NEW h, h = Mark(i, m) + l
  PROVE  h % 128 = l /\ (h < 128 <=> ~(i < m)) /\ h \in Byte
<1>1. CASE i < m
  BY <1>1 DEF Mark, Byte
<1>2. CASE ~(i < m)
  BY <1>2 DEF Mark, Byte
<1> QED BY <1>1, <1>2

(* scanPacket counts the frames of a packet that has them behind b bytes.    *)
LEMMA ScanCounts ==
  ASSUME NEW fr, FramesTyped(fr), fr # <<>>, NEW d \in Seq(Byte), NEW b \in Nat,
         PartAt(FlattenSeq(Headed(fr, Len(fr))), d, b),
         1 + pds_int_len(d, 2) + pds_int_len(d, 1 + pds_int_len(d, 2) + 1) = b
  PROVE  scanPacket(d) = Len(fr)
<1>1. PICK n \in Nat \ {0} : n = Len(fr)
  BY EmptySeq DEF FramesTyped
<1>2. PICK N \in Nat : N = Len(d)
  OBVIOUS
<1>3. \A i \in 1..n : fr[i] \in Seq(Byte) /\ Len(fr[i]) \in 0..127
  BY <1>1, HeadedForm
<1>4. PICK at \in [1..(n + 1) -> Nat] :
        /\ at[1] = b
        /\ \A i \in 1..n :
             /\ at[i + 1] = at[i] + 1 + Len(fr[i]) /\ at[i + 1] <= N
             /\ d[at[i] + 1] = Mark(i, n) + Len(fr[i])
  <2>1. PartAt(FlattenSeq(Headed(fr, n)), d, b)
    BY <1>1
  <2>2. PICK at : Placed(fr, n, d, b, at)
    BY <2>1, Walk
  <2> QED BY <2>2, <1>1, <1>2 DEF Placed
<1>5. PICK from \in [0..N -> Nat \cup {-1}] :
        /\ \A pos \in 0..N : from[pos] =
             IF After(d, pos) > N THEN -1
             ELSE IF At(d, pos + 1) < 128 THEN 1 ELSE Counted(from[After(d, pos)])
        /\ scanPacket(d) = IF b > N THEN -1 ELSE from[b]
  BY <1>2, ScanForm
<1>6. ASSUME NEW i \in 1..n
      PROVE  /\ at[i] \in 0..N /\ After(d, at[i]) = at[i + 1] /\ at[i + 1] \in 0..N
             /\ At(d, at[i] + 1) < 128 <=> i = n
  <2>1. PICK l \in 0..127 : l = Len(fr[i])
    BY <1>3
  <2>2. at[i] \in Nat /\ at[i + 1] = at[i] + 1 + l /\ at[i + 1] <= N
        /\ d[at[i] + 1] = Mark(i, n) + l
    <3>1. i \in 1..(n + 1)
      OBVIOUS
    <3> QED BY <3>1, <2>1, <1>4
  <2>a. PICK x \in Nat : x = at[i]
    BY <2>2
  <2>b. PICK y \in 0..N : y = at[i + 1] /\ y = x + 1 + l
    <3>1. x + 1 + l \in 0..N
      BY <2>2, <2>a
    <3> QED BY <3>1, <2>2, <2>a
  <2>c. x \in 0..N /\ x + 1 <= N
    BY <2>b
  <2>3. PICK q \in Nat : q = at[i] + 1 /\ q <= N
    BY <2>a, <2>c
  <2>4. PICK h : h = At(d, q) /\ h = Mark(i, n) + l
    BY <2>2, <2>3, <1>2 DEF At
  <2>5. h % 128 = l /\ (h < 128 <=> ~(i < n))
    <3>1. i \in Nat /\ n \in Nat
      OBVIOUS
    <3>2. h = Mark(i, n) + l
      BY <2>4
    <3> QED BY <3>1, <3>2, HeaderParts
  <2>6. At(d, at[i] + 1) = h /\ After(d, at[i]) = at[i + 1]
    BY <2>2, <2>3, <2>4, <2>5 DEF After
  <2>7. ~(i < n) <=> i = n
    OBVIOUS
  <2> QED BY <2>a, <2>b, <2>c, <2>5, <2>6, <2>7
<1>7. ASSUME NEW i \in 1..n
      PROVE  from[at[i]] = IF i = n THEN 1 ELSE Counted(from[at[i + 1]])
  <2>1. /\ at[i] \in 0..N /\ After(d, at[i]) = at[i + 1] /\ at[i + 1] \in 0..N
        /\ At(d, at[i] + 1) < 128 <=> i = n
    BY <1>6
  <2>2. PICK pos \in 0..N : pos = at[i] /\ ~(After(d, pos) > N)
    BY <2>1
  <2>3. from[pos] = IF At(d, pos + 1) < 128 THEN 1 ELSE Counted(from[After(d, pos)])
    BY <2>2, <1>5
  <2> QED BY <2>1, <2>2, <2>3
<1>8. PICK Bad \in SUBSET Nat : Bad = {k \in Nat : k < n /\ from[at[n - k]] # k + 1}
  OBVIOUS
<1>9. Bad = {}
  <2>1. SUFFICES ASSUME Bad # {} PROVE FALSE
    OBVIOUS
  <2>2. PICK k \in Bad : \A j \in Bad : k <= j
    BY <2>1, NatLeast
  <2>3. PICK i \in 1..n : i = n - k /\ k \in Nat /\ k < n /\ from[at[i]] # k + 1
    BY <1>8
  <2>4. i # n
    BY <2>3, <1>7
  <2>5. PICK j \in Nat : j = k - 1 /\ j < n /\ n - j = i + 1 /\ ~(k <= j)
    BY <2>3, <2>4
  <2>6. from[at[i + 1]] = k
    <3>1. j \notin Bad
      BY <2>2, <2>5
    <3>2. from[at[n - j]] = j + 1 /\ j + 1 = k
      BY <3>1, <2>3, <2>5, <1>8
    <3> QED BY <3>2, <2>5
  <2>7. from[at[i]] = Counted(k)
    BY <2>4, <2>6, <1>7
  <2> QED BY <2>3, <2>7 DEF Counted
<1>10. from[at[1]] = n
  <2>1. PICK k \in Nat : k = n - 1 /\ k < n /\ n - k = 1 /\ k + 1 = n
    OBVIOUS
  <2> QED BY <2>1, <1>8, <1>9
<1>11. b \in 0..N
  BY <1>4, <1>6
<1> QED BY <1>1, <1>4, <1>5, <1>10, <1>11

(* The pause after a packet is its number of frames. *)
LEMMA Pause ==
  ASSUME NEW p \in Packets, ~FourBytes(p.session), ~FourBytes(p.number)
  PROVE  scanPacket(FromServer(p)) = Len(p.frames)
<1>1. PICK d \in Seq(Byte) : d = FromServer(p)
  BY ServerForm
<1>2. PICK s \in Nat : s = Len(Encode(p.session)) /\ 1 <= s
  BY SentForm, EncodeForm
<1>3. PICK n \in Nat : n = Len(Encode(p.number)) /\ 1 <= n
  BY SentForm, EncodeForm
<1>4. PICK c \in Seq(Byte) : c = AsSent(p)
  BY SentForm
<1>5. PICK a \in Nat : a = 1 + s /\ a + n = 1 + s + n
  OBVIOUS
<1>6. PartAt(Encode(p.session), d, 1) /\ PartAt(c, d, a)
  BY <1>1, <1>2, <1>4, <1>5, ServerForm
<1>7. pds_int_len(d, 2) = s
  <2>1. p.session \in Word /\ 1 \in Nat /\ 1 + 1 = 2
    BY SentForm
  <2>2. pds_int_len(d, 1 + 1) = Len(Encode(p.session))
    BY <1>6, <2>1, Measured
  <2> QED BY <1>2, <2>1, <2>2
<1>8. PICK x \in Seq(Byte) : x = Encode(p.number)
  BY SentForm, EncodeForm
<1>9. PartAt(x, c, 0) /\ PartAt(Speech(p.frames), c, n)
  BY <1>3, <1>4, <1>8, SentForm
<1>10. PartAt(x, d, a)
  <2>1. PICK z \in Nat : z = 0 /\ a + z = a
    OBVIOUS
  <2>2. PartAt(x, c, z)
    BY <1>9, <2>1
  <2>3. PartAt(x, d, a + z)
    BY <1>6, <2>2, PartOfPart
  <2> QED BY <2>1, <2>3
<1>11. pds_int_len(d, a + 1) = n
  <2>1. p.number \in Word /\ PartAt(Encode(p.number), d, a)
    BY <1>8, <1>10, SentForm
  <2> QED BY <1>3, <2>1, Measured
<1>12. PICK b \in Nat : b = a + n
  OBVIOUS
<1>13. PartAt(Speech(p.frames), d, b)
  <2>1. Speech(p.frames) \in Seq(Byte)
    BY SentForm
  <2> QED BY <2>1, <1>6, <1>9, <1>12, PartOfPart
<1>14. FramesTyped(p.frames) /\ p.frames # <<>>
       /\ PartAt(FlattenSeq(Headed(p.frames, Len(p.frames))), d, b)
  BY <1>13, SentForm
<1>15. 1 + pds_int_len(d, 2) + pds_int_len(d, 1 + pds_int_len(d, 2) + 1) = b
  BY <1>5, <1>7, <1>11, <1>12
<1>16. scanPacket(d) = Len(p.frames)
  BY <1>14, <1>15, ScanCounts
<1> QED BY <1>1, <1>16

(* pds_int_len gives a length for whatever it is put before. *)
LEMMA MeasuredType ==
  ASSUME NEW d \in Seq(Byte), NEW k \in Nat \ {0}
  PROVE  pds_int_len(d, k) \in Nat
<1>1. PICK n \in Nat : n = Signs(d, k) /\ ~IsSign(d, k + n)
  BY SignsForm
<1>2. PICK b : b = At(d, k + n)
  OBVIOUS
<1>3. b \in Byte /\ b \notin 248..251
  <2>1. k + n \in Nat \ {0}
    OBVIOUS
  <2> QED BY <2>1, <1>1, <1>2, AtByte DEF IsSign
<1>4. MeasuredLen(b) \in Nat
  BY <1>3, MeasuredForms
<1> QED BY <1>1, <1>2, <1>4 DEF pds_int_len

(* So does scanPacket. *)
LEMMA ScanType ==
  ASSUME NEW d \in Seq(Byte)
  PROVE  scanPacket(d) \in Nat \cup {-1}
<1>1. PICK a \in Nat : a = pds_int_len(d, 2)
  BY MeasuredType
<1>2. PICK c \in Nat : c = pds_int_len(d, 1 + a + 1)
  <2>1. 1 + a + 1 \in Nat \ {0}
    OBVIOUS
  <2> QED BY <2>1, MeasuredType
<1>3. PICK N \in Nat : N = Len(d)
  OBVIOUS
<1>4. PICK s \in Nat : s = 1 + a + c
  OBVIOUS
<1>5. PICK from \in [0..N -> Nat \cup {-1}] :
        scanPacket(d) = IF s > N THEN -1 ELSE from[s]
  BY <1>1, <1>2, <1>3, <1>4, ScanForm
<1>6. s > N \/ s \in 0..N
  OBVIOUS
<1> QED BY <1>5, <1>6

(* The words playMp3 writes its numbers with. *)
LEMMA IntWordForm ==
  ASSUME NEW n \in Nat
  PROVE  IntWord(n) \in Word
<1>1. \A k \in Nat : k % 256 \in Byte
  BY DEF Byte
<1>2. n \div 16777216 \in Nat /\ n \div 65536 \in Nat /\ n \div 256 \in Nat
  OBVIOUS
<1>3. PICK a \in Byte, b \in Byte, c \in Byte, e \in Byte :
        /\ a = (n \div 16777216) % 256 /\ b = (n \div 65536) % 256
        /\ c = (n \div 256) % 256 /\ e = n % 256
  BY <1>1, <1>2
<1>4. IntWord(n) = <<0, 0, 0, 0, a, b, c, e>>
  BY <1>3 DEF IntWord
<1>5. 0 \in Byte
  BY DEF Byte
<1> QED BY <1>4, <1>5 DEF Word

(* What playMp3 sends for the frames fr. *)
Sent(w, fr) == <<0>> \o Encode(w) \o FlattenSeq(Headed(fr, Frames))

(* It is the number, and the frames behind it. *)
LEMMA SentParts ==
  ASSUME NEW w \in Word, NEW fr, FramesTyped(fr)
  PROVE  /\ Sent(w, fr) \in Seq(Byte) /\ Len(Encode(w)) \in Nat \ {0}
         /\ PartAt(Encode(w), Sent(w, fr), 1)
         /\ PartAt(FlattenSeq(Headed(fr, Frames)), Sent(w, fr), 1 + Len(Encode(w)))
         /\ Len(FlattenSeq(Headed(fr, Frames))) \in Nat
         /\ Len(Sent(w, fr)) = 1 + Len(Encode(w)) + Len(FlattenSeq(Headed(fr, Frames)))
<1>1. PICK z \in Seq(Byte) : z = <<0>> /\ Len(z) = 1 /\ z[1] = 0
  <2>1. 0 \in Byte
    BY DEF Byte
  <2> QED BY <2>1, Single
<1>2. PICK a \in Seq(Byte) : a = Encode(w) /\ Len(a) \in Nat \ {0}
  BY EncodeForm
<1>3. PICK c \in Seq(Byte) : c = FlattenSeq(Headed(fr, Frames)) /\ Len(c) \in Nat
  <2>1. Frames \in Nat
    BY VoiceAssumption
  <2>2. Headed(fr, Frames) \in Seq(Seq(Byte))
    BY <2>1, HeadedForm
  <2> QED BY <2>2, Parts
<1>4. PICK e \in Seq(Byte) : e = z \o a /\ Len(e) = 1 + Len(a) /\ PartAt(a, e, 1)
  BY <1>1, Joined
<1>5. PICK d \in Seq(Byte) : d = e \o c /\ Len(d) = Len(e) + Len(c) /\ PartAt(e, d, 0)
                             /\ PartAt(c, d, Len(e))
  BY Joined
<1>6. Sent(w, fr) = d
  BY <1>1, <1>2, <1>3, <1>4, <1>5 DEF Sent
<1>7. PartAt(a, d, 1)
  <2>1. 1 \in Nat
    OBVIOUS
  <2> QED BY <2>1, <1>4, <1>5, PartOfBeginning
<1> QED BY <1>2, <1>3, <1>4, <1>5, <1>6, <1>7

(* What one packet takes from the list. *)
LEMMA Taken ==
  ASSUME FramesTyped(packet_list), seq \in Nat, BuildPacket
  PROVE  \E first, rest : /\ FramesTyped(first) /\ FramesTyped(rest) /\ first # <<>>
           /\ packet_list = first \o rest /\ packet_list' = rest
           /\ Len(packet_list) = Len(first) + Len(rest)
           /\ (Len(first) = Frames \/ (Len(first) < Frames /\ rest = <<>>))
           /\ seq' = seq + Frames
           /\ built' = Append(built, Sent(IntWord(seq + Frames), first))
<1>1. PICK F \in Nat \ {0} : F = Frames
  BY VoiceAssumption
<1>2. PICK l \in Seq(Seq(Byte)) : l = packet_list /\ \A i \in 1..Len(l) : Len(l[i]) < 128
  BY DEF FramesTyped
<1>3. PICK L \in Nat \ {0} : L = Len(l)
  BY <1>2, EmptySeq DEF BuildPacket
<1>4. PICK n \in 1..L : n = (IF L < F THEN L ELSE F)
  OBVIOUS
<1>5. /\ seq' = seq + F /\ packet_list' = SubSeq(l, n + 1, L)
      /\ built' = Append(built, <<0>> \o Encode(IntWord(seq + F)) \o
           FlattenSeq([i \in 1..n |-> <<Head1(i, l[i])>> \o l[i]]))
  <2>1. n = IF Len(packet_list) < Frames THEN Len(packet_list) ELSE Frames
    BY <1>1, <1>2, <1>3, <1>4
  <2> QED BY <2>1, <1>1, <1>2, <1>3 DEF BuildPacket, Popped
<1>6. PICK first : first = SubSeq(l, 1, n)
  OBVIOUS
<1>7. PICK rest : rest = SubSeq(l, n + 1, L)
  OBVIOUS
<1>8. \A i \in 1..L : l[i] \in Seq(Byte)
  BY <1>3, ElementOfSeq
<1>9. /\ first \in Seq(Seq(Byte)) /\ Len(first) = n
      /\ \A i \in 1..n : first[i] = l[i]
  <2>1. \A i \in 1..n : l[i] \in Seq(Byte)
    BY <1>8
  <2>2. /\ SubSeq(l, 1, n) \in Seq(Seq(Byte)) /\ Len(SubSeq(l, 1, n)) = IF 1 <= n THEN n - 1 + 1 ELSE 0
        /\ \A i \in 1..(n - 1 + 1) : SubSeq(l, 1, n)[i] = l[1 + i - 1]
    BY <2>1, SubSeqProperties
  <2>3. n - 1 + 1 = n /\ 1 <= n /\ \A i \in 1..n : 1 + i - 1 = i
    OBVIOUS
  <2> QED BY <2>2, <2>3, <1>6
<1>10. /\ rest \in Seq(Seq(Byte)) /\ Len(rest) = L - n
       /\ \A i \in 1..(L - n) : rest[i] = l[n + i]
  <2>0. PICK m \in Int : m = n + 1
    OBVIOUS
  <2>1. \A i \in m..L : l[i] \in Seq(Byte)
    BY <2>0, <1>8
  <2>2. /\ SubSeq(l, m, L) \in Seq(Seq(Byte))
        /\ Len(SubSeq(l, m, L)) = IF m <= L THEN L - m + 1 ELSE 0
        /\ \A i \in 1..(L - m + 1) : SubSeq(l, m, L)[i] = l[m + i - 1]
    BY <2>1, SubSeqProperties
  <2>3. /\ L - m + 1 = L - n /\ (m <= L \/ (~(m <= L) /\ L - n = 0))
        /\ \A i \in 1..(L - n) : m + i - 1 = n + i
    BY <2>0
  <2> QED BY <2>0, <2>2, <2>3, <1>7
<1>11. FramesTyped(first)
  <2>1. \A i \in 1..n : i \in 1..Len(l)
    BY <1>3
  <2> QED BY <2>1, <1>2, <1>9 DEF FramesTyped
<1>12. FramesTyped(rest)
  <2>1. \A i \in 1..(L - n) : n + i \in 1..Len(l)
    BY <1>3
  <2> QED BY <2>1, <1>2, <1>10 DEF FramesTyped
<1>13. l = first \o rest
  <2>1. PICK j : j = first \o rest
    OBVIOUS
  <2>2. /\ j \in Seq(Seq(Byte)) /\ Len(j) = Len(first) + Len(rest)
        /\ PartAt(first, j, 0) /\ PartAt(rest, j, Len(first))
    BY <2>1, <1>9, <1>10, Joined
  <2>3. Len(j) = L
    BY <2>2, <1>9, <1>10
  <2>4. ASSUME NEW i \in 1..L PROVE j[i] = l[i]
    <3>1. CASE i <= n
      <4>1. i \in 1..n /\ 0 + i = i
        BY <3>1
      <4> QED BY <4>1, <2>2, <1>9 DEF PartAt
    <3>2. CASE ~(i <= n)
      <4>1. PICK k \in 1..(L - n) : k = i - n /\ n + k = i
        BY <3>2
      <4>2. k \in 1..Len(rest) /\ Len(first) = n
        BY <1>9, <1>10
      <4>3. j[n + k] = rest[k]
        BY <4>2, <2>2 DEF PartAt
      <4> QED BY <4>1, <4>3, <1>10
    <3> QED BY <3>1, <3>2
  <2> QED BY <2>1, <2>2, <2>3, <2>4, <1>3, SeqEqual
<1>14. [i \in 1..n |-> <<Head1(i, l[i])>> \o l[i]] = Headed(first, Frames)
  <2>1. \A i \in 1..n : Head1(i, l[i]) = Mark(i, Frames) + Len(first[i])
    BY <1>9 DEF Head1, More, Mark
  <2> QED BY <2>1, <1>9 DEF Headed
<1>15. first # <<>>
  BY <1>9
<1>16. n = F \/ (n < F /\ rest = <<>>)
  BY <1>4, <1>10
<1>17. Len(packet_list) = Len(first) + Len(rest)
  BY <1>2, <1>3, <1>9, <1>10
<1> QED BY <1>1, <1>2, <1>5, <1>7, <1>9, <1>11, <1>12, <1>13, <1>14, <1>15, <1>16, <1>17 DEF Sent

(* The bytes recorded are the packet's, and no frame is too long for its     *)
(* header.                                                                   *)
Recorded == \A i \in 1..Len(file) : file[i].data = FromServer(file[i].packet)
VoiceInv == VoiceTypeOK /\ Recorded /\ FramesTyped(packet_list)

(* Both stay sequences of bytes. *)
LEMMA BuildTyped ==
  ASSUME FramesTyped(packet_list), seq \in Nat, built \in Seq(Seq(Byte)), BuildPacket
  PROVE  FramesTyped(packet_list') /\ packet_list' \in Seq(Seq(Byte)) /\ seq' \in Nat
         /\ built' \in Seq(Seq(Byte))
<1>1. PICK first, rest :
        /\ FramesTyped(first) /\ FramesTyped(rest) /\ packet_list' = rest /\ seq' = seq + Frames
        /\ built' = Append(built, Sent(IntWord(seq + Frames), first))
  BY Taken
<1>2. seq + Frames \in Nat
  BY VoiceAssumption
<1>3. Sent(IntWord(seq + Frames), first) \in Seq(Byte)
  BY <1>1, <1>2, IntWordForm, SentParts
<1>4. built' \in Seq(Seq(Byte))
  BY <1>1, <1>3, AppendProperties
<1> QED BY <1>1, <1>2, <1>4 DEF FramesTyped

(* They are true of every state. *)
LEMMA VoiceInductive == VoiceSpec => []VoiceInv
<1>1. VoiceInit => VoiceInv
  <2>1. ASSUME VoiceInit PROVE VoiceInv
    <3>1. FramesTyped(song) /\ song \in Songs
      BY <2>1, VoiceAssumption DEF VoiceInit
    <3>2. song \in Seq(Seq(Byte))
      BY <3>1 DEF FramesTyped
    <3>3. file = <<>> /\ Len(file) = 0 /\ 0 \in Nat
      BY <2>1 DEF VoiceInit
    <3>4. Recorded
      BY <3>3 DEF Recorded
    <3>5. file \in Seq([packet : Packets, data : Seq(Byte)]) /\ fs \in 0..Len(file)
      BY <2>1, <3>3 DEF VoiceInit
    <3>6. built \in Seq(Seq(Byte)) /\ seq \in Nat /\ received \in Nat
      BY <2>1 DEF VoiceInit
    <3>8. recording \in BOOLEAN
      BY <2>1, Zenon DEF VoiceInit
    <3>7. played = {} /\ relayed = {} /\ packet_list = song
      BY <2>1 DEF VoiceInit
    <3> QED BY <3>1, <3>2, <3>4, <3>5, <3>6, <3>7, <3>8 DEF VoiceInv, VoiceTypeOK
  <2> QED BY <2>1
<1>2. VoiceInv /\ [VoiceNext]_voiceVars => VoiceInv'
  <2> SUFFICES ASSUME VoiceInv, [VoiceNext]_voiceVars PROVE VoiceInv'
    OBVIOUS
  <2>0. Len(file) \in Nat
    BY DEF VoiceInv, VoiceTypeOK
  <2>1. CASE BuildPacket
    <3>1. FramesTyped(packet_list)' /\ packet_list' \in Seq(Seq(Byte)) /\ seq' \in Nat
          /\ built' \in Seq(Seq(Byte))
      BY <2>1, BuildTyped DEF VoiceInv, VoiceTypeOK, FramesTyped
    <3>2. UNCHANGED <<song, recordVars, fs, played, relayed>>
      BY <2>1 DEF BuildPacket
    <3> QED BY <3>1, <3>2 DEF VoiceInv, VoiceTypeOK, Recorded, recordVars
  <2>2. ASSUME NEW p \in Packets, Record(p) PROVE VoiceInv'
    <3>1. received' = received + 1 /\ UNCHANGED <<song, packet_list, seq, built>>
          /\ UNCHANGED <<recording, fs, played, relayed>>
      BY <2>2 DEF Record, songVars
    <3>2. PICK e \in [packet : Packets, data : Seq(Byte)] :
            e = [packet |-> p, data |-> FromServer(p)]
      BY ServerForm
    <3>3. file' = file \/ file' = Append(file, e)
      BY <2>2, <3>2 DEF Record
    <3>4. CASE file' = file
      BY <3>1, <3>4 DEF VoiceInv, VoiceTypeOK, Recorded, FramesTyped
    <3>5. CASE file' = Append(file, e)
      <4>1. file \in Seq([packet : Packets, data : Seq(Byte)])
        BY DEF VoiceInv, VoiceTypeOK
      <4>2. /\ file' \in Seq([packet : Packets, data : Seq(Byte)])
            /\ Len(file') = Len(file) + 1 /\ file'[Len(file) + 1] = e
            /\ \A i \in 1..Len(file) : file'[i] = file[i]
        BY <4>1, <3>5, AppendProperties
      <4>3. fs' \in 0..Len(file')
        BY <2>0, <3>1, <4>2 DEF VoiceInv, VoiceTypeOK
      <4>4. ASSUME NEW i \in 1..Len(file') PROVE file'[i].data = FromServer(file'[i].packet)
        <5>1. i \in 1..Len(file) \/ i = Len(file) + 1
          BY <2>0, <4>2
        <5>2. e.data = FromServer(e.packet)
          BY <3>2
        <5> QED BY <5>1, <5>2, <4>2 DEF VoiceInv, Recorded
      <4> QED BY <3>1, <4>2, <4>3, <4>4 DEF VoiceInv, VoiceTypeOK, Recorded, FramesTyped
    <3> QED BY <3>3, <3>4, <3>5
  <2>3. ASSUME NEW p \in Packets, RelayPacket(p) PROVE VoiceInv'
    <3>1. PICK d \in Seq(Byte) : d = FromServer(p) /\ d[1] = p.flags
      BY ServerForm
    <3>2. PICK e : e = <<d[1]>> \o SubSeq(d, 2 + SessionLen(d), Len(d))
      OBVIOUS
    <3>3. e \in Seq(Byte)
      <4>1. PICK m \in Nat : m = 2 + SessionLen(d) /\ 1 <= m
        <5>1. pds_int_len(d, 2) \in Nat
          BY MeasuredType
        <5> QED BY <5>1 DEF SessionLen
      <4>2. PICK N \in Nat : N = Len(d)
        OBVIOUS
      <4>3. \A i \in m..N : d[i] \in Byte
        <5>1. \A i \in m..N : i \in 1..Len(d)
          BY <4>1, <4>2
        <5> QED BY <5>1, ElementOfSeq
      <4>4. SubSeq(d, m, N) \in Seq(Byte)
        BY <4>3, SubSeqProperties
      <4>5. <<d[1]>> \in Seq(Byte)
        <5>1. d[1] \in Byte
          BY <3>1, SentForm
        <5> QED BY <5>1, Single
      <4> QED BY <4>1, <4>2, <4>4, <4>5, <3>2, ConcatProperties
    <3>4. relayed' = relayed \cup {[packet |-> p, data |-> e]} /\ received' = received + 1
      BY <2>3, <3>1, <3>2 DEF RelayPacket
    <3>5. UNCHANGED <<song, packet_list, seq, built, recording, file, fs, played>>
      BY <2>3 DEF RelayPacket, songVars
    <3>6. relayed' \subseteq [packet : Packets, data : Seq(Byte)]
      BY <3>3, <3>4 DEF VoiceInv, VoiceTypeOK
    <3> QED BY <3>4, <3>5, <3>6 DEF VoiceInv, VoiceTypeOK, Recorded, FramesTyped
  <2>4. ASSUME NEW r \in BOOLEAN, SetRecording(r) PROVE VoiceInv'
    BY <2>4 DEF SetRecording, songVars, VoiceInv, VoiceTypeOK, Recorded, FramesTyped
  <2>5. CASE OpenFile
    BY <2>0, <2>5 DEF OpenFile, songVars, recordVars, VoiceInv, VoiceTypeOK, Recorded, FramesTyped
  <2>6. CASE PlayPacket
    <3>1. PICK e \in [packet : Packets, data : Seq(Byte)] : e = file[fs + 1]
      <4>1. fs + 1 \in 1..Len(file)
        BY <2>0, <2>6 DEF PlayPacket, VoiceInv, VoiceTypeOK
      <4>2. file \in Seq([packet : Packets, data : Seq(Byte)])
        BY DEF VoiceInv, VoiceTypeOK
      <4> QED BY <4>1, <4>2, ElementOfSeq
    <3>2. PICK q : q = [packet |-> e.packet, data |-> WithoutOne(e.data), pause |-> scanPacket(e.data)]
      OBVIOUS
    <3>3. played' = played \cup {q} /\ fs' = fs + 1 /\ fs < Len(file)
          /\ UNCHANGED <<song, packet_list, seq, built, recording, file, received, relayed>>
      BY <2>6, <3>1, <3>2 DEF PlayPacket, songVars, recordVars
    <3>4. WithoutOne(e.data) \in Seq(Byte)
      <4>1. PICK d \in Seq(Byte) : d = e.data
        OBVIOUS
      <4>2. PICK N \in Nat : N = Len(d)
        OBVIOUS
      <4>3. \A i \in 3..N : d[i] \in Byte
        <5>1. \A i \in 3..N : i \in 1..Len(d)
          BY <4>2
        <5> QED BY <5>1, ElementOfSeq
      <4>4. PICK m \in Nat : m = 3
        OBVIOUS
      <4>5. SubSeq(d, m, N) \in Seq(Byte)
        BY <4>3, <4>4, SubSeqProperties
      <4>6. <<0>> \in Seq(Byte)
        <5>1. 0 \in Byte
          BY DEF Byte
        <5> QED BY <5>1, Single
      <4> QED BY <4>1, <4>2, <4>4, <4>5, <4>6, ConcatProperties DEF WithoutOne
    <3>5. scanPacket(e.data) \in Nat \cup {-1}
      BY ScanType
    <3>6. q \in [packet : Packets, data : Seq(Byte), pause : Nat \cup {-1}]
      BY <3>2, <3>4, <3>5
    <3>7. played' \subseteq [packet : Packets, data : Seq(Byte), pause : Nat \cup {-1}]
      BY <3>3, <3>6 DEF VoiceInv, VoiceTypeOK
    <3>8. fs' \in 0..Len(file')
      BY <2>0, <3>3 DEF VoiceInv, VoiceTypeOK
    <3> QED BY <3>3, <3>7, <3>8 DEF VoiceInv, VoiceTypeOK, Recorded, FramesTyped
  <2>7. CASE UNCHANGED voiceVars
    BY <2>7 DEF voiceVars, songVars, recordVars, VoiceInv, VoiceTypeOK, Recorded, FramesTyped
  <2> QED BY <2>1, <2>2, <2>3, <2>4, <2>5, <2>6, <2>7 DEF VoiceNext
<1> QED BY <1>1, <1>2, PTL DEF VoiceSpec

(* The list of playMp3, the file of the recorder, the packets played and     *)
(* relayed keep their types; no place in the file lies behind its end.       *)
THEOREM VoiceTypeCorrect == VoiceSpec => []VoiceTypeOK
BY VoiceInductive, PTL DEF VoiceInv

(* playbackFunction (main.cc:84-114) sends what was recorded, without the     *)
(* session, exactly if the session has one byte and the packet was neither of *)
(* another codec than CELTAlpha nor a whisper; and it pauses for the packet's *)
(* frames, as long as pds_int_len measures session and number rightly.        *)
THEOREM PlayedExactAlways == VoiceSpec => []PlayedExact
<1>1. VoiceInit => PlayedExact
  BY DEF VoiceInit, PlayedExact
<1>2. VoiceInv /\ PlayedExact /\ [VoiceNext]_voiceVars => PlayedExact'
  <2> SUFFICES ASSUME VoiceInv, PlayedExact, [VoiceNext]_voiceVars PROVE PlayedExact'
    OBVIOUS
  <2>1. ASSUME played' = played PROVE PlayedExact'
    BY <2>1 DEF PlayedExact
  <2>2. CASE BuildPacket
    BY <2>1, <2>2 DEF BuildPacket
  <2>3. ASSUME NEW p \in Packets, Record(p) PROVE PlayedExact'
    BY <2>1, <2>3 DEF Record
  <2>4. ASSUME NEW p \in Packets, RelayPacket(p) PROVE PlayedExact'
    BY <2>1, <2>4 DEF RelayPacket
  <2>5. ASSUME NEW r \in BOOLEAN, SetRecording(r) PROVE PlayedExact'
    BY <2>1, <2>5 DEF SetRecording
  <2>6. CASE OpenFile
    BY <2>1, <2>6 DEF OpenFile
  <2>7. CASE UNCHANGED voiceVars
    BY <2>1, <2>7 DEF voiceVars
  <2>8. CASE PlayPacket
    <3>1. fs + 1 \in 1..Len(file)
      BY <2>8 DEF PlayPacket, VoiceInv, VoiceTypeOK
    <3>2. PICK e \in [packet : Packets, data : Seq(Byte)] :
            e = file[fs + 1] /\ e.data = FromServer(e.packet)
      <4>1. file \in Seq([packet : Packets, data : Seq(Byte)])
        BY DEF VoiceInv, VoiceTypeOK
      <4>2. file[fs + 1] \in [packet : Packets, data : Seq(Byte)]
        BY <4>1, <3>1, ElementOfSeq
      <4> QED BY <4>2, <3>1 DEF VoiceInv, Recorded
    <3>3. PICK p \in Packets : p = e.packet
      OBVIOUS
    <3>4. PICK q : q = [packet |-> p, data |-> WithoutOne(e.data), pause |-> scanPacket(e.data)]
      OBVIOUS
    <3>5. played' = played \cup {q}
      BY <2>8, <3>2, <3>3, <3>4 DEF PlayPacket
    <3>6. q.packet = p /\ q.data = WithoutOne(FromServer(p)) /\ q.pause = scanPacket(FromServer(p))
      BY <3>2, <3>3, <3>4
    <3>7. q.data = WithoutSession(q.packet)
            <=> Len(Encode(q.packet.session)) = 1 /\ q.packet.flags = 0
      BY <3>6, PlayCuts
    <3>8. ~FourBytes(q.packet.session) /\ ~FourBytes(q.packet.number)
            => q.pause = Len(q.packet.frames)
      BY <3>6, Pause
    <3> QED BY <3>5, <3>7, <3>8 DEF PlayedExact
  <2> QED BY <2>2, <2>3, <2>4, <2>5, <2>6, <2>7, <2>8 DEF VoiceNext
<1> QED BY <1>1, <1>2, VoiceInductive, PTL DEF VoiceSpec

(* A packet's number is the first thing a reader of it finds. *)
LEMMA NumberRead ==
  ASSUME NEW w \in Word, NEW d \in Seq(Byte), PartAt(Encode(w), d, 1)
  PROVE  Decode(d, 2) = [value |-> w, size |-> Len(Encode(w))]
<1>1. PICK L \in Nat \ {0} : L = Len(Encode(w))
  BY EncodeForm
<1>2. PICK N \in Nat : N = Len(d)
  OBVIOUS
<1>3. 1 + L <= N /\ \A j \in 1..L : d[1 + j] = Encode(w)[j]
  BY <1>1, <1>2 DEF PartAt
<1>4. PICK k \in Nat \ {0} : k = 2 /\ k <= Len(d) /\ k + L - 1 <= Len(d)
  BY <1>2, <1>3
<1>5. ASSUME NEW j \in 1..Len(Encode(w)), k + j - 1 <= Len(d)
      PROVE  d[k + j - 1] = Encode(w)[j]
  <2>1. k + j - 1 = 1 + j /\ j \in 1..L
    BY <1>1, <1>4
  <2> QED BY <2>1, <1>3
<1>6. Decode(d, k) = [value |-> w, size |-> Len(Encode(w))]
  BY <1>1, <1>4, <1>5, DecodeEncode
<1> QED BY <1>4, <1>6

(* The frames a listener finds from the header at pos on. *)
Ahead(d, pos) == IF pos \in 1..Len(d) THEN pos + 1 + (d[pos] % 128) ELSE Len(d) + 2

(* The recursion by which a listener finds them. *)
LEMMA FramesForm ==
  ASSUME NEW d \in Seq(Byte), NEW w \in Word, PartAt(Encode(w), d, 1)
  PROVE  \E from :
           /\ \A pos \in 1..(Len(d) + 1) : from[pos] =
                IF Ahead(d, pos) > Len(d) + 1 THEN <<CutOff>>
                ELSE <<SubSeq(d, pos + 1, Ahead(d, pos) - 1)>>
                       \o (IF d[pos] < 128 THEN <<>> ELSE from[Ahead(d, pos)])
           /\ FramesOf(d) = from[2 + Len(Encode(w))]
<1> DEFINE V == Seq(Seq(Int))
           after(pos) == pos + 1 + (d[pos] % 128)
           Value(f, pos) ==
             IF pos > Len(d) \/ after(pos) > Len(d) + 1 THEN <<CutOff>>
             ELSE <<SubSeq(d, pos + 1, after(pos) - 1)>>
                    \o (IF d[pos] < 128 THEN <<>> ELSE f[after(pos)])
           E(f) == f = [pos \in 1..(Len(d) + 1) |-> Value(f, pos)]
<1>1. PICK N \in Nat : N = Len(d)
  OBVIOUS
<1>2. ASSUME NEW pos \in 0..(N + 1)
      PROVE  /\ Ahead(d, pos) \in Nat /\ Ahead(d, pos) > pos
             /\ pos \in 1..N => Ahead(d, pos) = after(pos)
             /\ pos \notin 1..N => Ahead(d, pos) = N + 2
  <2>1. CASE pos \in 1..N
    <3>0. d[pos] \in Byte
      BY <2>1, <1>1, ElementOfSeq
    <3>1. PICK b \in 0..255 : b = d[pos]
      BY <3>0 DEF Byte
    <3>2. b % 128 \in Nat
      OBVIOUS
    <3> QED BY <3>1, <3>2, <2>1, <1>1 DEF Ahead
  <2>2. CASE pos \notin 1..N
    BY <2>2, <1>1 DEF Ahead
  <2> QED BY <2>1, <2>2
<1>3. PICK nx \in [0..(N + 1) -> Nat] : nx = [pos \in 0..(N + 1) |-> Ahead(d, pos)]
  BY <1>2
<1>4. \A pos \in 0..(N + 1) : nx[pos] = Ahead(d, pos) /\ nx[pos] > pos
  BY <1>2, <1>3
<1>5. PICK one : one = [pos \in 0..(N + 1) |-> <<SubSeq(d, pos + 1, nx[pos] - 1)>>]
  OBVIOUS
<1>6. ASSUME NEW pos \in 0..(N + 1), nx[pos] <= N + 1
      PROVE  one[pos] \in V /\ one[pos] = <<SubSeq(d, pos + 1, nx[pos] - 1)>>
  <2>1. PICK m \in Int : m = pos + 1 /\ 1 <= m
    OBVIOUS
  <2>2. PICK e \in Int : e = nx[pos] - 1 /\ e <= N
    BY <1>6
  <2>3. \A i \in m..e : d[i] \in Int
    <3>1. \A i \in m..e : i \in 1..Len(d)
      BY <2>1, <2>2, <1>1
    <3>2. \A i \in m..e : d[i] \in Byte
      BY <3>1, ElementOfSeq
    <3> QED BY <3>2, ByteInt
  <2>4. SubSeq(d, m, e) \in Seq(Int)
    BY <2>3, SubSeqProperties
  <2>5. <<SubSeq(d, m, e)>> \in V
    BY <2>4, Single
  <2> QED BY <2>1, <2>2, <2>5, <1>5
<1>7. <<CutOff>> \in V
  BY DEF CutOff
<1>8. PICK st : st = [pos \in 0..(N + 1) |-> [v \in V |->
        IF nx[pos] > N + 1 THEN <<CutOff>>
        ELSE one[pos] \o (IF d[pos] < 128 THEN <<>> ELSE v)]]
  OBVIOUS
<1>9. st \in [0..(N + 1) -> [V -> V]]
  <2>1. ASSUME NEW pos \in 0..(N + 1), NEW v \in V
        PROVE  (IF nx[pos] > N + 1 THEN <<CutOff>>
                ELSE one[pos] \o (IF d[pos] < 128 THEN <<>> ELSE v)) \in V
    <3>1. CASE nx[pos] > N + 1
      BY <3>1, <1>7
    <3>2. CASE ~(nx[pos] > N + 1)
      <4>1. nx[pos] <= N + 1
        BY <3>2, <1>3
      <4>2. PICK x : x = (IF d[pos] < 128 THEN <<>> ELSE v)
        OBVIOUS
      <4>3. x \in V
        BY <4>2, EmptySeq
      <4>4. one[pos] \o x \in V
        BY <4>1, <4>3, <1>6, ConcatProperties
      <4> QED BY <3>2, <4>2, <4>4
    <3> QED BY <3>1, <3>2
  <2> HIDE DEF V
  <2> QED BY <2>1, <1>8
<1>10. PICK v0 \in V : v0 = <<CutOff>>
  BY <1>7
<1>11. PICK f : Solves(V, v0, N + 1, nx, st, f)
  <2>1. Later(N + 1, nx) /\ N + 1 \in Nat
    BY <1>4 DEF Later
  <2> HIDE DEF V
  <2> QED BY <2>1, <1>9, Descent
<1>12. ASSUME NEW pos \in 1..(N + 1)
       PROVE  f[pos] = Value(f, pos)
  <2>1. pos \in 0..(N + 1)
    OBVIOUS
  <2>2. nx[pos] <= N + 1 => f[nx[pos]] \in V
    <3>1. nx[pos] <= N + 1 => nx[pos] \in 0..(N + 1)
      BY <2>1, <1>3
    <3> HIDE DEF V
    <3> QED BY <3>1, <1>11 DEF Solves
  <2>3. PICK x \in V : x = IF nx[pos] <= N + 1 THEN f[nx[pos]] ELSE v0
    BY <2>2
  <2>4. f[pos] = st[pos][x]
    BY <2>1, <2>3, <1>11, Zenon DEF Solves
  <2>5. st[pos][x] = IF nx[pos] > N + 1 THEN <<CutOff>>
                     ELSE one[pos] \o (IF d[pos] < 128 THEN <<>> ELSE x)
    <3> HIDE DEF V
    <3> QED BY <2>1, <1>8
  <2>6. nx[pos] = Ahead(d, pos) /\ nx[pos] \in Nat
    BY <2>1, <1>3, <1>4
  <2>a. PICK a : a = after(pos)
    OBVIOUS
  <2>b. PICK k \in Nat : k = nx[pos]
    BY <2>6
  <2>c. (pos \in 1..N => k = a) /\ (pos \notin 1..N => k = N + 2)
    <3> HIDE DEF after
    <3>1. /\ pos \in 1..N => Ahead(d, pos) = after(pos)
          /\ pos \notin 1..N => Ahead(d, pos) = N + 2
      BY <2>1, <1>2
    <3> QED BY <3>1, <2>6, <2>a, <2>b
  <2>d. /\ k > N + 1 => pos > N \/ a > N + 1
        /\ ~(k > N + 1) => ~(pos > N) /\ k = a /\ k <= N + 1
    BY <2>c
  <2>7. CASE nx[pos] > N + 1
    <3>1. pos > Len(d) \/ after(pos) > Len(d) + 1
      BY <2>a, <2>b, <2>d, <2>7, <1>1, Zenon
    <3> QED BY <3>1, <2>4, <2>5, <2>7
  <2>8. CASE ~(nx[pos] > N + 1)
    <3>1. ~(pos > Len(d)) /\ nx[pos] = after(pos) /\ ~(after(pos) > Len(d) + 1) /\ nx[pos] <= N + 1
      BY <2>a, <2>b, <2>d, <2>8, <1>1, Zenon
    <3>2. x = f[after(pos)] /\ one[pos] = <<SubSeq(d, pos + 1, after(pos) - 1)>>
      BY <3>1, <2>1, <2>3, <1>6
    <3> QED BY <3>1, <3>2, <2>4, <2>5, <2>8
  <2> QED BY <2>7, <2>8
<1>13. \E g : E(g)
  <2>1. PICK g : g = [pos \in 1..(N + 1) |-> f[pos]]
    OBVIOUS
  <2>2. ASSUME NEW pos \in 1..(N + 1) PROVE g[pos] = Value(g, pos)
    <3>1. g[pos] = f[pos]
      BY <2>1
    <3>2. CASE pos > Len(d) \/ after(pos) > Len(d) + 1
      BY <3>1, <3>2, <1>12
    <3>3. CASE ~(pos > Len(d) \/ after(pos) > Len(d) + 1)
      <4>1. pos \in 1..N /\ pos \in 0..(N + 1)
        BY <3>3, <1>1
      <4>2. after(pos) \in Nat /\ after(pos) > pos
        BY <4>1, <1>2
      <4>3. after(pos) \in 1..(N + 1)
        BY <4>2, <3>3, <1>1
      <4>4. g[after(pos)] = f[after(pos)]
        BY <4>3, <2>1
      <4>5. f[pos] = Value(f, pos)
        BY <1>12
      <4> QED BY <3>1, <3>3, <4>4, <4>5
    <3> QED BY <3>2, <3>3
  <2>3. g = [pos \in 1..(N + 1) |-> Value(g, pos)]
    <3> HIDE DEF Value
    <3> QED BY <2>1, <2>2
  <2>4. E(g)
    BY <2>3, <1>1
  <2> HIDE DEF E
  <2> QED BY <2>4, Zenon
<1>14. PICK from : from = CHOOSE g : E(g)
  OBVIOUS
<1>15. E(from)
  <2> HIDE DEF E
  <2> QED BY <1>13, <1>14, Zenon
<1>16. \A pos \in 1..(N + 1) : from[pos] = Value(from, pos)
  <2>1. PICK g : g = [pos \in 1..(N + 1) |-> Value(from, pos)]
    OBVIOUS
  <2>2. from = g
    BY <2>1, <1>1, <1>15
  <2> HIDE DEF Value
  <2> QED BY <2>1, <2>2
<1>17. ASSUME NEW pos \in 1..(Len(d) + 1)
       PROVE  from[pos] =
                IF Ahead(d, pos) > Len(d) + 1 THEN <<CutOff>>
                ELSE <<SubSeq(d, pos + 1, Ahead(d, pos) - 1)>>
                       \o (IF d[pos] < 128 THEN <<>> ELSE from[Ahead(d, pos)])
  <2>1. from[pos] = Value(from, pos) /\ pos \in 0..(N + 1)
    <3> HIDE DEF Value
    <3>1. pos \in 1..(N + 1) /\ pos \in 0..(N + 1)
      BY <1>1
    <3> QED BY <3>1, <1>16
  <2>2. CASE pos \in 1..N
    <3>1. Ahead(d, pos) = after(pos) /\ ~(pos > Len(d))
      <4> HIDE DEF after
      <4>1. Ahead(d, pos) = after(pos)
        BY <2>1, <2>2, <1>2
      <4>2. ~(pos > Len(d))
        BY <2>2, <1>1
      <4> QED BY <4>1, <4>2
    <3> QED BY <3>1, <2>1
  <2>3. CASE pos \notin 1..N
    <3>1. Ahead(d, pos) > Len(d) + 1 /\ pos > Len(d)
      BY <2>1, <2>3, <1>1, <1>2
    <3> QED BY <3>1, <2>1
  <2> QED BY <2>2, <2>3
<1>18. FramesOf(d) = from[2 + Decode(d, 2).size]
  BY <1>14 DEF FramesOf
<1>19. Decode(d, 2).size = Len(Encode(w))
  BY NumberRead
<1> HIDE DEF Value, E, after, V
<1> QED BY <1>17, <1>18, <1>19

(* Frames of bytes among frames of integers, of which CutOff is one. *)
LEMMA FramesInt ==
  ASSUME NEW fr \in Seq(Seq(Byte))
  PROVE  fr \in Seq(Seq(Int))
<1>1. \A x \in Seq(Byte) : x \in Seq(Int)
  <2>1. ASSUME NEW x \in Seq(Byte) PROVE x \in Seq(Int)
    <3>1. PICK n \in Nat : n = Len(x)
      OBVIOUS
    <3>2. \A i \in 1..n : x[i] \in Int
      BY <3>1, ElementOfSeq, ByteInt
    <3>3. x = [i \in 1..n |-> x[i]]
      BY <3>1
    <3>4. x \in [1..n -> Int]
      BY <3>2, <3>3
    <3> QED BY <3>4
  <2> QED BY <2>1
<1>2. PICK n \in Nat : n = Len(fr)
  OBVIOUS
<1>3. \A i \in 1..n : fr[i] \in Seq(Int)
  BY <1>1, <1>2, ElementOfSeq
<1>4. fr = [i \in 1..n |-> fr[i]]
  BY <1>2
<1>5. fr \in [1..n -> Seq(Int)]
  BY <1>3, <1>4
<1> QED BY <1>5

(* The part of a packet between two of its headers is a frame. *)
LEMMA FrameCut ==
  ASSUME NEW d \in Seq(Byte), NEW g \in Seq(Byte), NEW a \in Nat, NEW b \in Nat,
         PartAt(g, d, a + 1), b = a + 1 + Len(g)
  PROVE  SubSeq(d, a + 2, b) = g
<1>1. PICK l \in Nat : l = Len(g)
  OBVIOUS
<1>2. PICK N \in Nat : N = Len(d)
  OBVIOUS
<1>3. PICK m \in Nat : m = a + 2 /\ b - m + 1 = l
  BY <1>1
<1>4. a + 1 + l <= N /\ \A k \in 1..l : d[(a + 1) + k] = g[k]
  BY <1>1, <1>2 DEF PartAt
<1>5. \A i \in m..b : d[i] \in Byte
  <2>1. \A i \in m..b : i \in 1..Len(d)
    BY <1>1, <1>2, <1>3, <1>4
  <2> QED BY <2>1, ElementOfSeq
<1>6. PICK s : s = SubSeq(d, m, b)
  OBVIOUS
<1>7. /\ s \in Seq(Byte) /\ Len(s) = IF m <= b THEN b - m + 1 ELSE 0
      /\ \A i \in 1..(b - m + 1) : s[i] = d[m + i - 1]
  BY <1>5, <1>6, SubSeqProperties
<1>8. Len(s) = l
  BY <1>1, <1>3, <1>7
<1>9. ASSUME NEW i \in 1..l PROVE s[i] = g[i]
  <2>1. m + i - 1 = (a + 1) + i
    BY <1>3
  <2>2. s[i] = d[m + i - 1]
    BY <1>3, <1>7
  <2> QED BY <2>1, <2>2, <1>4
<1>10. s = g
  BY <1>1, <1>7, <1>8, <1>9, SeqEqual
<1> QED BY <1>3, <1>6, <1>10

(* What a listener finds in a packet of playMp3. *)
Lacking(fr) == IF Len(fr) < Frames THEN <<CutOff>> ELSE <<>>

(* The frames put in are found again, and CutOff behind them if they do not*)
(* fill the packet.                                                        *)
LEMMA FramesSent ==
  ASSUME NEW w \in Word, NEW fr, FramesTyped(fr), fr # <<>>, Len(fr) <= Frames
  PROVE  FramesOf(Sent(w, fr)) = fr \o Lacking(fr)
<1>1. PICK d \in Seq(Byte) : d = Sent(w, fr)
  BY SentParts
<1>2. PICK b \in Nat : b = 1 + Len(Encode(w))
  BY SentParts
<1>3. PICK m \in Nat \ {0} : m = Frames
  BY VoiceAssumption
<1>4. PICK N \in Nat : N = Len(d)
  OBVIOUS
<1>5. PICK n \in Nat \ {0} : n = Len(fr) /\ n <= m
  BY <1>3, EmptySeq DEF FramesTyped
<1>6. PICK at : Placed(fr, m, d, b, at)
  <2>1. PartAt(FlattenSeq(Headed(fr, m)), d, b)
    BY <1>1, <1>2, <1>3, SentParts
  <2> QED BY <2>1, Walk
<1>7. at[n + 1] = N
  <2>1. at[n + 1] = b + Len(FlattenSeq(Headed(fr, m)))
    BY <1>5, <1>6 DEF Placed
  <2>2. N = b + Len(FlattenSeq(Headed(fr, m)))
    BY <1>1, <1>2, <1>3, <1>4, SentParts
  <2> QED BY <2>1, <2>2
<1>8. /\ at \in [1..(n + 1) -> Nat] /\ at[1] = b
      /\ \A i \in 1..n :
           /\ at[i + 1] = at[i] + 1 + Len(fr[i]) /\ at[i + 1] <= N
           /\ d[at[i] + 1] = Mark(i, m) + Len(fr[i])
           /\ PartAt(fr[i], d, at[i] + 1)
  BY <1>4, <1>5, <1>6 DEF Placed
<1>9. \A i \in 1..n : fr[i] \in Seq(Byte) /\ Len(fr[i]) \in 0..127
  BY <1>5, HeadedForm
<1>10. PICK from :
        /\ \A pos \in 1..(N + 1) : from[pos] =
             IF Ahead(d, pos) > N + 1 THEN <<CutOff>>
             ELSE <<SubSeq(d, pos + 1, Ahead(d, pos) - 1)>>
                    \o (IF d[pos] < 128 THEN <<>> ELSE from[Ahead(d, pos)])
        /\ FramesOf(d) = from[2 + Len(Encode(w))]
  <2>1. PartAt(Encode(w), d, 1)
    BY <1>1, SentParts
  <2> QED BY <2>1, <1>4, FramesForm
<1>11. ASSUME NEW i \in 1..n
       PROVE  from[at[i] + 1] = <<fr[i]>> \o (IF i < m THEN from[at[i + 1] + 1] ELSE <<>>)
  <2>1. PICK l \in 0..127 : l = Len(fr[i])
    BY <1>9
  <2>2. PICK a \in Nat : a = at[i]
    <3>1. i \in 1..(n + 1)
      OBVIOUS
    <3> QED BY <3>1, <1>8
  <2>3. PICK e \in Nat : e = at[i + 1] /\ e = a + 1 + l /\ e <= N
    BY <2>1, <2>2, <1>8
  <2>4. PICK h : h = d[a + 1] /\ h = Mark(i, m) + l
    BY <2>1, <2>2, <1>8
  <2>5. h % 128 = l /\ (h < 128 <=> ~(i < m))
    <3>1. i \in Nat /\ m \in Nat /\ h = Mark(i, m) + l
      BY <2>4
    <3> QED BY <3>1, HeaderParts
  <2>6. PICK pos \in 1..(N + 1) : pos = a + 1 /\ pos \in 1..Len(d) /\ pos + 1 = a + 2
    BY <2>3, <1>4
  <2>7. Ahead(d, pos) = e + 1
    <3>1. Ahead(d, pos) = pos + 1 + (d[pos] % 128)
      BY <2>6 DEF Ahead
    <3>2. Ahead(d, pos) = pos + 1 + l
      BY <3>1, <2>4, <2>5, <2>6
    <3> QED BY <3>2, <2>3, <2>6
  <2>8. from[pos] = <<SubSeq(d, pos + 1, e)>> \o (IF h < 128 THEN <<>> ELSE from[e + 1])
    <3>1. ~(e + 1 > N + 1) /\ e + 1 - 1 = e
      BY <2>3
    <3>2. h = d[pos]
      BY <2>4, <2>6
    <3>3. from[pos] =
             IF Ahead(d, pos) > N + 1 THEN <<CutOff>>
             ELSE <<SubSeq(d, pos + 1, Ahead(d, pos) - 1)>>
                    \o (IF d[pos] < 128 THEN <<>> ELSE from[Ahead(d, pos)])
      BY <2>6, <1>10
    <3>4. PICK q : q = e + 1 /\ q = Ahead(d, pos) /\ ~(q > N + 1) /\ q - 1 = e
      BY <2>7, <3>1
    <3> QED BY <3>2, <3>3, <3>4
  <2>9. SubSeq(d, pos + 1, e) = fr[i]
    <3>1. fr[i] \in Seq(Byte) /\ PartAt(fr[i], d, a + 1) /\ e = a + 1 + Len(fr[i])
      BY <2>1, <2>2, <2>3, <1>8, <1>9
    <3>2. SubSeq(d, a + 2, e) = fr[i]
      BY <3>1, FrameCut
    <3> QED BY <3>2, <2>6
  <2> QED BY <2>2, <2>3, <2>5, <2>6, <2>8, <2>9
<1>12. from[N + 1] = <<CutOff>>
  <2>1. N + 1 \in 1..(N + 1) /\ N + 1 \notin 1..Len(d)
    BY <1>4
  <2>2. Ahead(d, N + 1) > N + 1
    BY <2>1, <1>4 DEF Ahead
  <2> QED BY <2>1, <2>2, <1>10
<1>13. PICK tail \in Seq(Seq(Int)) : tail = Lacking(fr) /\ (n = m => tail = <<>>)
                                     /\ (n < m => tail = <<CutOff>>)
  <2>0. PICK F : F = Seq(Seq(Int))
    OBVIOUS
  <2>1. PICK c \in F, z \in F : c = <<CutOff>> /\ z = <<>>
    <3>1. <<CutOff>> \in Seq(Seq(Int)) /\ <<>> \in Seq(Seq(Int))
      BY DEF CutOff
    <3> QED BY <3>1, <2>0
  <2>a. Lacking(fr) = IF n < m THEN c ELSE z
    BY <2>1, <1>3, <1>5 DEF Lacking
  <2>2. CASE n < m
    <3>1. c \in Seq(Seq(Int)) /\ c = Lacking(fr) /\ c = <<CutOff>> /\ n # m
      BY <2>0, <2>1, <2>2, <2>a
    <3> QED BY <3>1, Zenon
  <2>3. CASE n = m
    <3>1. z \in Seq(Seq(Int)) /\ z = Lacking(fr) /\ z = <<>> /\ ~(n < m)
      BY <2>0, <2>1, <2>3, <2>a
    <3> QED BY <3>1, Zenon
  <2> QED BY <2>2, <2>3, <1>5
<1>14. PICK f \in Seq(Seq(Int)) : f = fr
  BY FramesInt DEF FramesTyped
<1>15. ASSUME NEW i \in 1..n
       PROVE  SubSeq(f, i, n) \o tail = <<fr[i]>> \o (SubSeq(f, i + 1, n) \o tail)
  <2>1. i \in 1..Len(f) /\ n \in i..Len(f) /\ f[i] \in Seq(Int)
    BY <1>5, <1>14, ElementOfSeq
  <2>2. SubSeq(f, i, n) = <<f[i]>> \o SubSeq(f, i + 1, n)
    BY <2>1, SubSeqRecursiveFirst
  <2>3. <<f[i]>> \in Seq(Seq(Int))
    BY <2>1, Single
  <2>4. SubSeq(f, i + 1, n) \in Seq(Seq(Int))
    <3>1. \A k \in (i + 1)..n : k \in 1..Len(f)
      BY <1>5, <1>14
    <3>2. \A k \in (i + 1)..n : f[k] \in Seq(Int)
      BY <3>1, ElementOfSeq
    <3>3. i + 1 \in Int /\ n \in Int
      OBVIOUS
    <3> QED BY <3>2, <3>3, SubSeqProperties
  <2>5. PICK x \in Seq(Seq(Int)) : x = <<f[i]>>
    BY <2>3
  <2>6. PICK y \in Seq(Seq(Int)) : y = SubSeq(f, i + 1, n)
    BY <2>4
  <2>7. (x \o y) \o tail = x \o (y \o tail)
    <3>1. PICK F : F = Seq(Int)
      OBVIOUS
    <3>2. x \in Seq(F) /\ y \in Seq(F) /\ tail \in Seq(F)
      BY <3>1
    <3> QED BY <3>2, ConcatAssociative, SMTT(30)
  <2> QED BY <2>2, <2>5, <2>6, <2>7, <1>14
<1>16. SubSeq(f, n + 1, n) \o tail = tail
  <2>1. SubSeq(f, n + 1, n) = <<>>
    <3>1. n + 1 \in Int /\ n \in Int /\ n < n + 1
      OBVIOUS
    <3> QED BY <3>1, SubSeqEmpty
  <2> QED BY <2>1, ConcatEmptySeq
<1>17. PICK Bad \in SUBSET Nat :
         Bad = {k \in Nat : k < n /\ from[at[n - k] + 1] # SubSeq(f, n - k, n) \o tail}
  OBVIOUS
<1>18. Bad = {}
  <2>1. SUFFICES ASSUME Bad # {} PROVE FALSE
    OBVIOUS
  <2>2. PICK k \in Bad : \A j \in Bad : k <= j
    BY <2>1, NatLeast
  <2>3. PICK i \in 1..n : i = n - k /\ k \in Nat /\ k < n
                          /\ from[at[i] + 1] # SubSeq(f, i, n) \o tail
    BY <1>17
  <2>4. (IF i < m THEN from[at[i + 1] + 1] ELSE <<>>) = SubSeq(f, i + 1, n) \o tail
    <3>1. CASE i = n
      <4>1. CASE n < m
        <5>1. from[at[i + 1] + 1] = <<CutOff>>
          BY <3>1, <1>7, <1>12
        <5> QED BY <3>1, <4>1, <5>1, <1>13, <1>16
      <4>2. CASE n = m
        <5>1. ~(i < m) /\ tail = <<>>
          BY <3>1, <4>2, <1>13
        <5>2. SubSeq(f, i + 1, n) \o tail = tail
          BY <3>1, <1>16
        <5> QED BY <5>1, <5>2
      <4>3. n < m \/ n = m
        BY <1>5
      <4> QED BY <4>1, <4>2, <4>3, Zenon
    <3>2. CASE i # n
      <4>1. PICK j \in Nat : j = k - 1 /\ j < n /\ n - j = i + 1 /\ ~(k <= j)
        BY <3>2, <2>3
      <4>2. j \notin Bad
        BY <2>2, <4>1
      <4>3. from[at[i + 1] + 1] = SubSeq(f, i + 1, n) \o tail
        BY <4>1, <4>2, <1>17
      <4>4. i < m
        BY <3>2, <1>5
      <4> QED BY <4>3, <4>4
    <3> QED BY <3>1, <3>2
  <2>5. from[at[i] + 1] = <<fr[i]>> \o (SubSeq(f, i + 1, n) \o tail)
    BY <2>4, <1>11
  <2> QED BY <2>3, <2>5, <1>15
<1>19. from[b + 1] = SubSeq(f, 1, n) \o tail
  <2>1. PICK k \in Nat : k = n - 1 /\ k < n /\ n - k = 1
    OBVIOUS
  <2>2. k \notin Bad
    BY <1>18
  <2>3. from[at[n - k] + 1] = SubSeq(f, n - k, n) \o tail
    BY <2>1, <2>2, <1>17
  <2> QED BY <2>1, <2>3, <1>8
<1>20. SubSeq(f, 1, n) = f
  BY <1>5, <1>14, SubSeqFull
<1>21. FramesOf(d) = from[b + 1]
  <2>1. 2 + Len(Encode(w)) = b + 1
    <3>1. PICK x \in Nat : x = Len(Encode(w))
      BY SentParts
    <3> QED BY <3>1, <1>2
  <2> QED BY <2>1, <1>10
<1> QED BY <1>1, <1>13, <1>14, <1>19, <1>20, <1>21

(* A listener hears them, and only then waits for another. *)
LEMMA HeardSent ==
  ASSUME NEW w \in Word, NEW fr, FramesTyped(fr), fr # <<>>, Len(fr) <= Frames
  PROVE  /\ Heard(Sent(w, fr)) = fr
         /\ CutOff \in ToSet(FramesOf(Sent(w, fr))) <=> Len(fr) < Frames
<1>1. PICK f \in Seq(Seq(Int)) : f = fr /\ fr \in Seq(Seq(Byte))
  BY FramesInt DEF FramesTyped
<1>2. PICK n \in Nat \ {0} : n = Len(f) /\ n = Len(fr)
  BY <1>1, EmptySeq
<1>3. PICK g : g = FramesOf(Sent(w, fr))
  OBVIOUS
<1>4. \A i \in 1..n : fr[i] \in Seq(Byte) /\ fr[i] # CutOff
  <2>1. ASSUME NEW x \in Seq(Byte) PROVE x # CutOff
    <3>1. SUFFICES ASSUME x = <<-1>> PROVE FALSE
      BY DEF CutOff
    <3>2. Len(x) = 1 /\ x[1] = -1
      BY <3>1
    <3>3. x[1] \in Byte
      <4>1. 1 \in 1..Len(x)
        BY <3>2
      <4> QED BY <4>1, ElementOfSeq
    <3> QED BY <3>2, <3>3, ByteInt
  <2>2. \A i \in 1..n : fr[i] \in Seq(Byte)
    BY <1>1, <1>2, ElementOfSeq
  <2> QED BY <2>1, <2>2
<1>5. CASE Len(fr) < Frames
  <2>1. PICK c \in Seq(Seq(Int)) : c = <<CutOff>> /\ Len(c) = 1 /\ c[1] = CutOff
    <3>1. CutOff \in Seq(Int)
      BY DEF CutOff
    <3> QED BY <3>1, Single
  <2>2. g = f \o c
    BY <1>1, <1>3, <1>5, <2>1, FramesSent DEF Lacking
  <2>3. /\ g \in Seq(Seq(Int)) /\ Len(g) = n + 1
        /\ \A i \in 1..n : g[i] = f[i]
        /\ g[n + 1] = CutOff
    <3>1. /\ g \in Seq(Seq(Int)) /\ Len(g) = n + Len(c)
          /\ PartAt(f, g, 0) /\ PartAt(c, g, n)
      <4>1. PICK T : T = Seq(Int)
        OBVIOUS
      <4>2. f \in Seq(T) /\ c \in Seq(T)
        BY <4>1
      <4>3. /\ f \o c \in Seq(T) /\ Len(f \o c) = Len(f) + Len(c)
            /\ PartAt(f, f \o c, 0) /\ PartAt(c, f \o c, Len(f))
        BY <4>2, Joined
      <4> QED BY <4>1, <4>3, <1>2, <2>2
    <3>2. \A i \in 1..n : 0 + i = i
      OBVIOUS
    <3>3. 1 \in 1..Len(c)
      BY <2>1
    <3> QED BY <1>2, <2>1, <3>1, <3>2, <3>3 DEF PartAt
  <2>4. Last(g) = CutOff
    BY <2>3 DEF Last
  <2>5. Front(g) = f
    <3>1. PICK F : F = Seq(Int)
      OBVIOUS
    <3>2. f \in Seq(F) /\ c \in Seq(F)
      BY <2>1, <3>1
    <3>3. PICK o \in 1..Len(f) : o = 1
      BY <1>2
    <3>4. SubSeq(f \o c, o, Len(f)) = SubSeq(f, o, Len(f))
      <4>1. Len(f) \in 1..Len(f)
        BY <1>2
      <4> QED BY <3>2, <4>1, SubSeqOfConcat1
    <3>5. SubSeq(f, 1, Len(f)) = f
      BY <3>2, SubSeqFull
    <3>6. Len(g) - 1 = Len(f)
      BY <2>3, <1>2
    <3> QED BY <2>2, <3>3, <3>4, <3>5, <3>6 DEF Front
  <2>6. CutOff \in ToSet(g)
    <3>1. n + 1 \in DOMAIN g
      BY <2>3
    <3> QED BY <3>1, <2>3 DEF ToSet
  <2> QED BY <1>1, <1>3, <1>5, <2>4, <2>5, <2>6 DEF Heard
<1>6. CASE ~(Len(fr) < Frames)
  <2>1. g = f
    BY <1>1, <1>3, <1>6, FramesSent, ConcatEmptySeq DEF Lacking
  <2>2. Last(g) # CutOff
    <3>1. n \in 1..n
      OBVIOUS
    <3> QED BY <3>1, <2>1, <1>1, <1>2, <1>4 DEF Last
  <2>3. CutOff \notin ToSet(g)
    <3>1. DOMAIN f = 1..n
      BY <1>2, LenProperties
    <3> QED BY <3>1, <2>1, <1>1, <1>4 DEF ToSet
  <2> QED BY <1>1, <1>3, <1>6, <2>1, <2>2, <2>3 DEF Heard
<1> QED BY <1>5, <1>6

(* What the packets say to a listener. *)
AllHeard == [i \in 1..Len(built) |-> Heard(built[i])]

(* The packets sent so far are full as long as frames are left. *)
SongInv ==
  /\ seq = Frames * Len(built)
  /\ packet_list # <<>> => Len(song) = Frames * Len(built) + Len(packet_list)
  /\ AllHeard \in Seq(Seq(Seq(Byte)))
  /\ SongInOrder
  /\ LateMarkOnly

(* The number of the next packet. *)
LEMMA Multiples ==
  ASSUME NEW f \in Nat, NEW k \in Nat
  PROVE  f * k \in Nat /\ f * (k + 1) = f * k + f
OBVIOUS

(* A packet takes the frames from the front of the list, as many as fit. *)
LEMMA SongStep ==
  ASSUME VoiceInv, SongInv, BuildPacket
  PROVE  SongInv'
<1>1. PICK first, rest :
        /\ FramesTyped(first) /\ FramesTyped(rest) /\ first # <<>>
        /\ packet_list = first \o rest /\ packet_list' = rest
        /\ Len(packet_list) = Len(first) + Len(rest)
        /\ (Len(first) = Frames \/ (Len(first) < Frames /\ rest = <<>>))
        /\ seq' = seq + Frames
        /\ built' = Append(built, Sent(IntWord(seq + Frames), first))
  BY Taken DEF VoiceInv, VoiceTypeOK
<1>2. PICK F \in Nat \ {0} : F = Frames
  BY VoiceAssumption
<1>3. PICK k \in Nat : k = Len(built)
  BY DEF VoiceInv, VoiceTypeOK
<1>4. PICK u \in Nat : u = F * k /\ F * (k + 1) = u + F
  BY Multiples
<1>5. PICK a \in Nat : a = Len(first) /\ first \in Seq(Seq(Byte))
  BY <1>1 DEF FramesTyped
<1>6. PICK r \in Nat : r = Len(rest) /\ rest \in Seq(Seq(Byte))
  BY <1>1 DEF FramesTyped
<1>7. PICK w \in Word : w = IntWord(u + F) /\ built' = Append(built, Sent(w, first))
  <2>1. u + F \in Nat /\ seq + Frames = u + F
    BY <1>2, <1>3, <1>4 DEF SongInv
  <2> QED BY <2>1, <1>1, IntWordForm
<1>8. song \in Seq(Seq(Byte)) /\ song' = song /\ Len(song) = u + a + r
  <2>1. song \in Seq(Seq(Byte))
    BY VoiceAssumption DEF VoiceInv, VoiceTypeOK, FramesTyped
  <2>2. song' = song /\ packet_list # <<>>
    BY DEF BuildPacket
  <2>3. Len(song) = u + Len(packet_list)
    BY <2>2, <1>2, <1>3, <1>4 DEF SongInv
  <2> QED BY <2>1, <2>2, <2>3, <1>1, <1>5, <1>6
<1>9. PICK d \in Seq(Byte) : d = Sent(w, first) /\ built' = Append(built, d)
                             /\ PartAt(Encode(w), d, 1)
  BY <1>1, <1>7, SentParts
<1>10. /\ Len(built') = k + 1 /\ built'[k + 1] = d
       /\ \A i \in 1..k : built'[i] = built[i]
  <2>1. built \in Seq(Seq(Byte))
    BY DEF VoiceInv, VoiceTypeOK
  <2> QED BY <2>1, <1>3, <1>9, AppendProperties
<1>11. /\ Heard(d) = first
       /\ CutOff \in ToSet(FramesOf(d)) <=> a < F
  <2>1. Len(first) <= Frames
    BY <1>1, <1>2, <1>5
  <2> QED BY <2>1, <1>1, <1>2, <1>5, <1>7, <1>9, HeardSent
<1>12. seq' = Frames * Len(built')
  <2>1. seq' = u + F
    BY <1>1, <1>2, <1>3, <1>4 DEF SongInv
  <2> QED BY <2>1, <1>2, <1>4, <1>10
<1>13. packet_list' # <<>> => Len(song') = Frames * Len(built') + Len(packet_list')
  <2>1. ASSUME rest # <<>> PROVE Len(song) = (u + F) + r
    BY <2>1, <1>1, <1>2, <1>5, <1>8
  <2>2. Frames * Len(built') = u + F
    BY <1>2, <1>4, <1>10
  <2> QED BY <2>1, <2>2, <1>1, <1>6, <1>8
<1>14. PICK h \in Seq(Seq(Seq(Byte))) : h = AllHeard /\ Len(h) = k
                                        /\ \A i \in 1..k : h[i] = Heard(built[i])
  <2>1. PICK h : h = [i \in 1..k |-> Heard(built[i])]
    OBVIOUS
  <2>2. h = AllHeard
    BY <2>1, <1>3 DEF AllHeard
  <2>3. h \in Seq(Seq(Seq(Byte)))
    BY <2>2 DEF SongInv
  <2>4. Len(h) = k
    BY <2>1, <2>3, LenProperties
  <2>5. \A i \in 1..k : h[i] = Heard(built[i])
    BY <2>1
  <2> QED BY <2>2, <2>3, <2>4, <2>5, Zenon
<1>15. AllHeard' = Append(h, first)
  <2>1. PICK g : g = AllHeard'
    OBVIOUS
  <2>2. g = [i \in 1..(k + 1) |-> Heard(built'[i])]
    BY <2>1, <1>10 DEF AllHeard
  <2>3. /\ Append(h, first) \in Seq(Seq(Seq(Byte))) /\ Len(Append(h, first)) = k + 1
        /\ \A i \in 1..k : Append(h, first)[i] = h[i]
        /\ Append(h, first)[k + 1] = first
    BY <1>5, <1>14, AppendProperties
  <2>4. ASSUME NEW i \in 1..(k + 1) PROVE Heard(built'[i]) = Append(h, first)[i]
    <3>1. CASE i \in 1..k
      <4>1. built'[i] = built[i]
        BY <3>1, <1>10
      <4> QED BY <3>1, <4>1, <2>3, <1>14
    <3>2. CASE i = k + 1
      BY <3>2, <2>3, <1>10, <1>11
    <3>3. i \in 1..k \/ i = k + 1
      OBVIOUS
    <3> QED BY <3>1, <3>2, <3>3
  <2>5. PICK e : e = Append(h, first) /\ e \in Seq(Seq(Seq(Byte))) /\ Len(e) = k + 1
    BY <2>3
  <2>6. e = [i \in 1..(k + 1) |-> e[i]]
    <3>1. PICK T : T = Seq(Seq(Byte))
      OBVIOUS
    <3>2. e \in Seq(T)
      BY <2>5, <3>1
    <3>3. e \in [1..(k + 1) -> T]
      BY <2>5, <3>2, LenProperties
    <3> QED BY <3>3
  <2> QED BY <2>1, <2>2, <2>4, <2>5, <2>6
<1>16. AllHeard' \in Seq(Seq(Seq(Byte)))
  BY <1>5, <1>14, <1>15, AppendProperties
<1>17. FlattenSeq(AllHeard') \o packet_list' = song'
  <2>1. PICK x \in Seq(Seq(Byte)) : x = FlattenSeq(h)
    BY <1>14, Parts
  <2>2. FlattenSeq(Append(h, first)) = x \o first
    BY <2>1, <1>5, <1>14, FlattenAppend
  <2>3. (x \o first) \o rest = x \o (first \o rest)
    <3>1. PICK T : T = Seq(Byte)
      OBVIOUS
    <3>2. x \in Seq(T) /\ first \in Seq(T) /\ rest \in Seq(T)
      BY <3>1, <1>5, <1>6
    <3> QED BY <3>2, ConcatAssociative
  <2>4. x \o (first \o rest) = song
    BY <2>1, <1>1, <1>14 DEF SongInv, SongInOrder, AllHeard
  <2> QED BY <2>2, <2>3, <2>4, <1>1, <1>8, <1>15
<1>18. \A i \in 1..Len(built') : Decode(built'[i], 2).value = IntWord(Frames * i)
  <2>1. ASSUME NEW i \in 1..(k + 1) PROVE Decode(built'[i], 2).value = IntWord(Frames * i)
    <3>1. CASE i \in 1..k
      BY <3>1, <1>3, <1>10 DEF SongInv, SongInOrder
    <3>2. CASE i = k + 1
      <4>1. Frames * i = u + F
        BY <3>2, <1>2, <1>4
      <4>2. Decode(d, 2).value = w
        BY <1>9, NumberRead
      <4> QED BY <3>2, <4>1, <4>2, <1>7, <1>10
    <3> QED BY <3>1, <3>2
  <2> QED BY <2>1, <1>10
<1>19. SongInOrder'
  BY <1>17, <1>18 DEF SongInOrder, AllHeard
<1>20. LateMarkOnly'
  <2>1. ASSUME NEW i \in 1..(k + 1)
        PROVE  CutOff \in ToSet(FramesOf(built'[i])) <=> Len(song) < Frames * i
    <3>1. CASE i \in 1..k
      BY <3>1, <1>3, <1>10 DEF SongInv, LateMarkOnly
    <3>2. CASE i = k + 1
      <4>1. Frames * i = u + F
        BY <3>2, <1>2, <1>4
      <4>2. a < F <=> u + a + r < u + F
        BY <1>1, <1>2, <1>5, <1>6, EmptySeq
      <4> QED BY <3>2, <4>1, <4>2, <1>8, <1>10, <1>11
    <3> QED BY <3>1, <3>2
  <2> QED BY <2>1, <1>8, <1>10 DEF LateMarkOnly
<1> QED BY <1>12, <1>13, <1>16, <1>19, <1>20 DEF SongInv

(* So it is in every state. *)
LEMMA SongInductive == VoiceSpec => []SongInv
<1>1. VoiceInit => SongInv
  <2> SUFFICES ASSUME VoiceInit PROVE SongInv
    OBVIOUS
  <2>1. built = <<>> /\ Len(built) = 0 /\ seq = 0 /\ packet_list = song
    BY DEF VoiceInit
  <2>2. PICK l \in Nat : l = Len(song) /\ song \in Seq(Seq(Byte))
    BY VoiceAssumption DEF VoiceInit, FramesTyped
  <2>3. Frames * 0 = 0
    BY VoiceAssumption
  <2>4. AllHeard = <<>>
    BY <2>1 DEF AllHeard
  <2>5. FlattenSeq(AllHeard) = <<>>
    BY <2>4 DEF FlattenSeq
  <2>6. FlattenSeq(AllHeard) \o packet_list = song
    BY <2>1, <2>2, <2>5, ConcatEmptySeq
  <2>7. 1..Len(built) = {}
    BY <2>1
  <2>8. SongInOrder
    BY <2>6, <2>7 DEF SongInOrder, AllHeard
  <2>9. LateMarkOnly
    BY <2>7 DEF LateMarkOnly
  <2>10. Len(song) = Frames * Len(built) + Len(packet_list)
    BY <2>1, <2>2, <2>3
  <2> QED BY <2>1, <2>3, <2>4, <2>8, <2>9, <2>10, EmptySeq DEF SongInv
<1>2. VoiceInv /\ SongInv /\ [VoiceNext]_voiceVars => SongInv'
  <2> SUFFICES ASSUME VoiceInv, SongInv, [VoiceNext]_voiceVars PROVE SongInv'
    OBVIOUS
  <2>1. ASSUME UNCHANGED songVars PROVE SongInv'
    <3>1. UNCHANGED <<song, packet_list, seq, built>>
      BY <2>1 DEF songVars
    <3> QED BY <3>1 DEF SongInv, SongInOrder, LateMarkOnly, AllHeard
  <2>2. CASE BuildPacket
    BY <2>2, SongStep
  <2>3. ASSUME NEW p \in Packets, Record(p) \/ RelayPacket(p) PROVE SongInv'
    BY <2>1, <2>3 DEF Record, RelayPacket
  <2>4. ASSUME NEW r \in BOOLEAN, SetRecording(r) PROVE SongInv'
    BY <2>1, <2>4 DEF SetRecording
  <2>5. CASE OpenFile \/ PlayPacket
    BY <2>1, <2>5 DEF OpenFile, PlayPacket
  <2>6. CASE UNCHANGED voiceVars
    BY <2>1, <2>6 DEF voiceVars
  <2> QED BY <2>2, <2>3, <2>4, <2>5, <2>6 DEF VoiceNext
<1> QED BY <1>1, <1>2, VoiceInductive, PTL DEF VoiceSpec

(* A song arrives frame by frame, in order and once, whatever its length and *)
(* the number of frames in a packet; the packets count up by that number     *)
(* (playMp3, main.cc:158).                                                   *)
THEOREM SongInOrderAlways == VoiceSpec => []SongInOrder
BY SongInductive, PTL DEF SongInv

(* Only the last packet of a song can announce a frame that is not there, and *)
(* it does so exactly if the song does not fill it (main.cc:205).             *)
THEOREM LateMarkOnlyAlways == VoiceSpec => []LateMarkOnly
BY SongInductive, PTL DEF SongInv
=============================================================================
