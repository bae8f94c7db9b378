------------------------------ MODULE OCBProofs ------------------------------
(***************************************************************************)
(* Proofs about module OCB, for any block size, any permutation of the      *)
(* blocks and messages of any length.  That the offsets differ rests on      *)
(* FieldAssumption too.                                                      *)
(***************************************************************************)
EXTENDS OCB, TLAPS

LEMMA XORBlock ==
  ASSUME NEW a \in Block, NEW b \in Block
  PROVE  XOR(a, b) \in Block
  BY DEF XOR, Block

LEMMA XORTwice ==
  ASSUME NEW a \in Block, NEW b \in Block
  PROVE  XOR(a, XOR(a, b)) = b
  BY DEF XOR

LEMMA XORCancels ==
  ASSUME NEW a \in Block, NEW b \in Block, NEW c \in Block, XOR(a, b) = XOR(a, c)
  PROVE  b = c
  BY XORTwice

LEMMA XORCancelsLeft ==
  ASSUME NEW a \in Block, NEW b \in Block, NEW c \in Block, XOR(a, c) = XOR(b, c)
  PROVE  a = b
<1>1. XOR(a, c) = XOR(c, a) /\ XOR(b, c) = XOR(c, b)
  BY DEF XOR
<1> QED  BY <1>1, XORCancels

LEMMA BitsAssumption == AES_BLOCK_SIZE * ByteBits \in Nat \ {0}
  BY ConstantsAssumption

LEMMA S2Block ==
  ASSUME NEW b \in Block
  PROVE  S2(b) \in Block
<1>1. ShiftLeft(b) \in Block
  BY BitsAssumption DEF ShiftLeft, Block, Bits
<1>2. Carry(b) \in Block
  BY ConstantsAssumption DEF Carry, Block
<1> QED  BY <1>1, <1>2, XORBlock DEF S2

LEMMA S3Block ==
  ASSUME NEW b \in Block
  PROVE  S3(b) \in Block
  BY S2Block, XORBlock DEF S3

LEMMA LengthBlock ==
  ASSUME NEW len
  PROVE  Length(len) \in Block
  BY DEF Length, Block

LEMMA FirstBlock ==
  ASSUME NEW len
  PROVE  First(len) \in Block
  BY DEF First, Block

LEMMA AESBlock ==
  ASSUME NEW b \in Block
  PROVE  AES[b] \in Block
  BY ConstantsAssumption

(* AESdecrypt undoes AES, and so is a permutation itself. *)
LEMMA Inverse ==
  ASSUME NEW c \in Block
  PROVE  AESdecrypt(c) \in Block /\ AES[AESdecrypt(c)] = c
  BY ConstantsAssumption DEF AESdecrypt

LEMMA Undone ==
  ASSUME NEW b \in Block
  PROVE  AESdecrypt(AES[b]) = b
  BY ConstantsAssumption, Inverse, AESBlock

Masked(d, b) == XOR(d, AES[XOR(d, b)])
Unmasked(d, c) == XOR(d, AESdecrypt(XOR(d, c)))

LEMMA MaskedBlock ==
  ASSUME NEW d \in Block, NEW b \in Block
  PROVE  Masked(d, b) \in Block /\ Unmasked(d, b) \in Block
  BY XORBlock, AESBlock, Inverse DEF Masked, Unmasked

LEMMA UnmaskMasked ==
  ASSUME NEW d \in Block, NEW b \in Block
  PROVE  Unmasked(d, Masked(d, b)) = b
<1>1. XOR(d, Masked(d, b)) = AES[XOR(d, b)]
  BY XORBlock, AESBlock, XORTwice DEF Masked
<1>2. Unmasked(d, Masked(d, b)) = XOR(d, XOR(d, b))
  BY <1>1, Undone, XORBlock DEF Unmasked
<1> QED  BY <1>2, XORTwice

LEMMA UnmaskedDiffer ==
  ASSUME NEW d \in Block, NEW b \in Block, NEW c \in Block, Unmasked(d, b) = Unmasked(d, c)
  PROVE  b = c
<1>1. AESdecrypt(XOR(d, b)) = AESdecrypt(XOR(d, c))
  BY XORBlock, Inverse, XORCancels DEF Unmasked
<1>2. XOR(d, b) = XOR(d, c)
  BY <1>1, XORBlock, Inverse
<1> QED  BY <1>2, XORCancels

(* The rest: pad over what was sent is the rest filled up with pad. *)
LEMMA RestReturns ==
  ASSUME NEW pad \in Block, NEW f, NEW rest \in Block, rest \subseteq f
  PROVE  LET tmp == rest \cup (pad \ f)
         IN /\ XOR(XOR(pad, tmp) \cap f, pad) = tmp
            /\ tmp \cap f = rest
  BY DEF XOR

----------------------------------------------------------------------------
(* The invariant.  LastOffset, Pad and Tmp are d, pad and tmp of the rest.   *)
LastOffset == S2(offsets[Len(msg.body) + 1])
Pad == AES[XOR(Length(msg.len), LastOffset)]
Tmp == Filled(msg.last, Pad)
TagOf(sum) == AES[XOR(S3(LastOffset), sum)]

(* What the sender has computed for its first blocks. *)
History ==
  /\ Len(enc.body) <= Len(msg.body)
  /\ Len(enc.body) + 1 <= Len(offsets) /\ Len(enc.body) + 1 <= Len(sums)
  /\ offsets[1] = AES[nonce] /\ sums[1] = {}
  /\ \A j \in 1..Len(enc.body) :
       /\ offsets[j + 1] = S2(offsets[j])
       /\ sums[j + 1] = XOR(sums[j], msg.body[j])
       /\ enc.body[j] = Masked(offsets[j + 1], msg.body[j])

Encrypting ==
  phase = "encrypt" =>
    /\ Len(offsets) = Len(enc.body) + 1 /\ Len(sums) = Len(enc.body) + 1
    /\ delta = offsets[Len(enc.body) + 1] /\ checksum = sums[Len(enc.body) + 1]

Sent ==
  phase # "encrypt" =>
    /\ Len(enc.body) = Len(msg.body)
    /\ enc.last = Copied(XOR(Pad, Tmp))
    /\ tag = TagOf(XOR(sums[Len(msg.body) + 1], Tmp))

NotReceived == phase \in {"encrypt", "sent"} => dec = Empty

(* At most one block or the rest arrives changed. *)
Same(n) == \A j \in 1..n : wire.body[j] = enc.body[j]
Arrived ==
  phase \in {"decrypt", "done"} =>
    /\ Len(wire.body) = Len(msg.body) /\ wire.last \subseteq First(msg.len)
    /\ \A j, k \in 1..Len(msg.body) :
         wire.body[j] # enc.body[j] /\ wire.body[k] # enc.body[k] => j = k
    /\ ~Same(Len(msg.body)) => wire.last = enc.last
    /\ altered <=> ~Same(Len(msg.body)) \/ wire.last # enc.last

(* The receiver's checksum is the sender's until a changed block has been    *)
(* read, and differs from it ever after.                                     *)
Decrypting ==
  phase = "decrypt" =>
    /\ Len(dec.body) <= Len(msg.body)
    /\ delta = offsets[Len(dec.body) + 1]
    /\ Same(Len(dec.body)) => checksum = sums[Len(dec.body) + 1]
    /\ ~Same(Len(dec.body)) => checksum # sums[Len(dec.body) + 1]
    /\ \A j \in 1..Len(dec.body) : wire.body[j] = enc.body[j] => dec.body[j] = msg.body[j]

IInv ==
  /\ TypeOK /\ History /\ Encrypting /\ Sent /\ NotReceived /\ Arrived /\ Decrypting
  /\ RoundTrip /\ ChangeDetected

LEMMA MessageTyped ==
  ASSUME TypeOK
  PROVE  /\ msg.body \in Seq(Block) /\ msg.last \in Block /\ msg.last \subseteq First(msg.len)
         /\ nonce \in Block /\ Len(msg.body) \in Nat
  BY ConstantsAssumption DEF TypeOK

LEMMA EmptyTyped == Empty \in Parts /\ {} \in Block
  BY DEF Empty, Parts, Block

LEMMA InitInv == Init => IInv
<1> SUFFICES ASSUME Init PROVE IInv
  OBVIOUS
<1>1. nonce \in Block /\ AES[nonce] \in Block
  BY ConstantsAssumption, AESBlock DEF Init
<1>2. <<AES[nonce]>> \in Seq(Block) /\ <<{}>> \in Seq(Block)
  BY <1>1, EmptyTyped
<1>3. altered \in BOOLEAN
  BY Zenon DEF Init
<1>4. enc.last \subseteq First(msg.len) /\ dec.last \subseteq First(msg.len)
  BY DEF Init, Empty
<1>5. TypeOK
  BY <1>1, <1>2, <1>3, <1>4, EmptyTyped DEF Init, TypeOK
<1>6. Len(enc.body) = 0 /\ Len(msg.body) \in Nat
  BY <1>5, MessageTyped DEF Init, Empty
<1>7. /\ Len(offsets) = 1 /\ Len(sums) = 1 /\ offsets[1] = AES[nonce] /\ sums[1] = {}
      /\ delta = offsets[1] /\ checksum = sums[1]
  BY DEF Init
<1>8. History /\ Encrypting
  BY <1>6, <1>7 DEF History, Encrypting
<1> QED
  BY <1>5, <1>8 DEF Init, IInv, Sent, NotReceived, Arrived, Decrypting, RoundTrip, ChangeDetected

(* ocb_encrypt's loop. *)
LEMMA EncryptBlockInv == IInv /\ EncryptBlock => IInv'
<1> SUFFICES ASSUME IInv, EncryptBlock PROVE IInv'
  OBVIOUS
<1> DEFINE n == Len(enc.body) + 1
           p == msg.body[n]
           c == Masked(S2(delta), p)
<1>1. TypeOK /\ History /\ Encrypting /\ NotReceived
  BY DEF IInv
<1>2. /\ phase = "encrypt" /\ phase' = "encrypt" /\ n <= Len(msg.body)
      /\ delta' = S2(delta) /\ checksum' = XOR(checksum, p)
      /\ enc' = [body |-> Append(enc.body, c), last |-> {}]
      /\ offsets' = Append(offsets, S2(delta)) /\ sums' = Append(sums, XOR(checksum, p))
      /\ UNCHANGED <<msg, nonce, tag, wire, dec, computed, altered>>
  BY DEF EncryptBlock, Summed, Masked
<1>3. enc.body \in Seq(Block) /\ offsets \in Seq(Block) /\ sums \in Seq(Block)
      /\ delta \in Block /\ checksum \in Block
  BY <1>1 DEF TypeOK, Parts
<1>4. n \in 1..Len(msg.body) /\ p \in Block
  BY <1>1, <1>2, <1>3, MessageTyped
<1>5. S2(delta) \in Block /\ XOR(checksum, p) \in Block /\ c \in Block
  BY <1>3, <1>4, S2Block, XORBlock, MaskedBlock
<1>6. enc'.body = Append(enc.body, c) /\ enc'.last = {}
  BY <1>2
<1> HIDE DEF c
<1>7. /\ enc' \in Parts /\ offsets' \in Seq(Block) /\ sums' \in Seq(Block)
  BY <1>2, <1>3, <1>5, EmptyTyped DEF Parts
<1>8. TypeOK'
  BY <1>1, <1>2, <1>5, <1>6, <1>7 DEF TypeOK
<1>9. /\ Len(enc'.body) = n /\ enc'.body[n] = c /\ \A j \in 1..(n - 1) : enc'.body[j] = enc.body[j]
  BY <1>3, <1>5, <1>6
<1>10. /\ Len(offsets) = n /\ Len(sums) = n /\ delta = offsets[n] /\ checksum = sums[n]
  BY <1>1, <1>2 DEF Encrypting
<1>11. /\ Len(offsets') = n + 1 /\ offsets'[n + 1] = S2(delta)
       /\ Len(sums') = n + 1 /\ sums'[n + 1] = XOR(checksum, p)
       /\ \A j \in 1..n : offsets'[j] = offsets[j] /\ sums'[j] = sums[j]
  BY <1>2, <1>3, <1>5, <1>10
<1>12. Encrypting'
  BY <1>2, <1>9, <1>11 DEF Encrypting
<1>13. History'
  <2>1. ASSUME NEW j \in 1..n
        PROVE  /\ offsets'[j + 1] = S2(offsets'[j])
               /\ sums'[j + 1] = XOR(sums'[j], msg.body[j])
               /\ enc'.body[j] = Masked(offsets'[j + 1], msg.body[j])
    <3>1. CASE j = n
      BY <3>1, <1>9, <1>10, <1>11 DEF c
    <3>2. CASE j # n
      <4>1. j \in 1..Len(enc.body) /\ j + 1 \in 1..n /\ j \in 1..(n - 1)
        BY <3>2, <1>3
      <4>2. /\ offsets[j + 1] = S2(offsets[j])
            /\ sums[j + 1] = XOR(sums[j], msg.body[j])
            /\ enc.body[j] = Masked(offsets[j + 1], msg.body[j])
        BY <1>1, <4>1 DEF History
      <4> QED  BY <4>1, <4>2, <1>9, <1>11
    <3> QED  BY <3>1, <3>2
  <2>2. 1 \in 1..n
    BY <1>3
  <2>3. offsets'[1] = AES[nonce] /\ sums'[1] = {}
    BY <2>2, <1>1, <1>11 DEF History
  <2> QED  BY <2>1, <2>3, <1>2, <1>9, <1>11 DEF History
<1> QED
  BY <1>1, <1>2, <1>8, <1>12, <1>13
  DEF IInv, Sent, NotReceived, Arrived, Decrypting, RoundTrip, ChangeDetected

(* The rest, on both sides: the values the two share. *)
LEMMA RestTyped ==
  ASSUME TypeOK, History, Len(enc.body) = Len(msg.body)
  PROVE  /\ offsets[Len(msg.body) + 1] \in Block /\ sums[Len(msg.body) + 1] \in Block
         /\ LastOffset \in Block /\ Pad \in Block /\ Tmp \in Block
<1>1. Len(msg.body) + 1 \in 1..Len(offsets) /\ Len(msg.body) + 1 \in 1..Len(sums)
  BY MessageTyped DEF TypeOK, History
<1>2. offsets[Len(msg.body) + 1] \in Block /\ sums[Len(msg.body) + 1] \in Block
  BY <1>1 DEF TypeOK
<1>3. LastOffset \in Block
  BY <1>2, S2Block DEF LastOffset
<1>4. Pad \in Block
  BY <1>3, LengthBlock, XORBlock, AESBlock DEF Pad
<1>5. Tmp \in Block
  BY <1>4, MessageTyped DEF Tmp, Filled, Block
<1> QED  BY <1>2, <1>3, <1>4, <1>5

LEMMA TagBlock ==
  ASSUME LastOffset \in Block, NEW sum \in Block
  PROVE  TagOf(sum) \in Block
  BY S3Block, XORBlock, AESBlock DEF TagOf

LEMMA TagsDiffer ==
  ASSUME LastOffset \in Block, NEW a \in Block, NEW b \in Block, TagOf(a) = TagOf(b)
  PROVE  a = b
<1>1. S3(LastOffset) \in Block
  BY S3Block
<1>2. XOR(S3(LastOffset), a) = XOR(S3(LastOffset), b)
  BY <1>1, XORBlock, ConstantsAssumption DEF TagOf
<1> QED  BY <1>1, <1>2, XORCancels

LEMMA EncryptRestInv == IInv /\ EncryptRest => IInv'
<1> SUFFICES ASSUME IInv, EncryptRest PROVE IInv'
  OBVIOUS
<1> DEFINE n == Len(msg.body)
<1>1. TypeOK /\ History /\ Encrypting /\ NotReceived
  BY DEF IInv
<1>2. /\ phase = "encrypt" /\ phase' = "sent" /\ Len(enc.body) = n
      /\ delta = offsets[n + 1] /\ checksum = sums[n + 1]
      /\ Len(offsets) = n + 1 /\ Len(sums) = n + 1
      /\ UNCHANGED <<msg, nonce, wire, dec, computed, altered>>
  BY <1>1 DEF EncryptRest, Encrypting
<1>3. /\ LastOffset \in Block /\ Pad \in Block /\ Tmp \in Block /\ checksum \in Block
  BY <1>1, <1>2, RestTyped DEF TypeOK
<1>4. LastOffset = S2(delta)
  BY <1>2 DEF LastOffset
<1>5. Pad = AES[XOR(Length(msg.len), S2(delta))] /\ Tmp = Filled(msg.last, Pad)
  BY <1>4 DEF Pad, Tmp
<1>6. /\ enc' = [body |-> enc.body, last |-> Copied(XOR(Pad, Tmp))]
      /\ checksum' = XOR(checksum, Tmp) /\ delta' = S3(LastOffset)
      /\ tag' = AES[XOR(delta', checksum')]
      /\ offsets' = Append(Append(offsets, LastOffset), delta')
      /\ sums' = Append(sums, checksum')
  BY <1>4, <1>5 DEF EncryptRest, Summed
<1>7. /\ delta' \in Block /\ checksum' \in Block /\ tag' \in Block
      /\ Copied(XOR(Pad, Tmp)) \in Block /\ Copied(XOR(Pad, Tmp)) \subseteq First(msg.len)
  <2>1. delta' \in Block /\ checksum' \in Block
    BY <1>3, <1>6, S3Block, XORBlock
  <2>2. tag' \in Block
    BY <2>1, <1>6, XORBlock, AESBlock
  <2>3. XOR(Pad, Tmp) \in Block
    BY <1>3, XORBlock
  <2> QED  BY <2>1, <2>2, <2>3 DEF Copied, Block
<1>8. enc'.body = enc.body /\ enc'.last = Copied(XOR(Pad, Tmp))
  BY <1>6
<1>9. offsets \in Seq(Block) /\ sums \in Seq(Block) /\ enc.body \in Seq(Block) /\ n \in Nat
  BY <1>1, MessageTyped DEF TypeOK, Parts
<1>10. enc' \in Parts /\ offsets' \in Seq(Block) /\ sums' \in Seq(Block)
  <2>1. enc' \in Parts
    BY <1>6, <1>7, <1>9 DEF Parts
  <2>2. Append(offsets, LastOffset) \in Seq(Block)
    BY <1>3, <1>9
  <2> QED  BY <2>1, <2>2, <1>3, <1>6, <1>7, <1>9
<1>11. TypeOK'
  BY <1>1, <1>2, <1>7, <1>8, <1>10 DEF TypeOK
<1>12. /\ \A j \in 1..(n + 1) : offsets'[j] = offsets[j] /\ sums'[j] = sums[j]
       /\ Len(offsets') = n + 3 /\ Len(sums') = n + 2
  BY <1>2, <1>3, <1>6, <1>7, <1>9
<1>13. History'
  <2>1. 1 \in 1..(n + 1)
    BY <1>9
  <2>2. offsets'[1] = AES[nonce] /\ sums'[1] = {}
    BY <2>1, <1>1, <1>12 DEF History
  <2>3. ASSUME NEW j \in 1..n
        PROVE  /\ offsets'[j + 1] = S2(offsets'[j])
               /\ sums'[j + 1] = XOR(sums'[j], msg.body[j])
               /\ enc.body[j] = Masked(offsets'[j + 1], msg.body[j])
    <3>1. j \in 1..Len(enc.body) /\ j \in 1..(n + 1) /\ j + 1 \in 1..(n + 1)
      BY <1>2, <1>9
    <3> QED  BY <3>1, <1>1, <1>12 DEF History
  <2>4. /\ Len(enc'.body) = n /\ msg' = msg /\ nonce' = nonce
        /\ Len(enc'.body) <= Len(msg'.body)
        /\ Len(enc'.body) + 1 <= Len(offsets') /\ Len(enc'.body) + 1 <= Len(sums')
    <3>1. Len(enc'.body) = n /\ msg' = msg /\ nonce' = nonce
      BY <1>2, <1>8
    <3>2. n <= n /\ n + 1 <= n + 3 /\ n + 1 <= n + 2
      BY <1>9
    <3> QED  BY <3>1, <3>2, <1>12
  <2>5. \A j \in 1..Len(enc'.body) :
          /\ offsets'[j + 1] = S2(offsets'[j])
          /\ sums'[j + 1] = XOR(sums'[j], msg'.body[j])
          /\ enc'.body[j] = Masked(offsets'[j + 1], msg'.body[j])
    BY <2>3, <2>4, <1>8
  <2> QED  BY <2>2, <2>4, <2>5 DEF History
<1>14. Sent'
  <2>1. n + 1 \in 1..(n + 1)
    BY <1>9
  <2>2. offsets'[n + 1] = offsets[n + 1] /\ sums'[n + 1] = checksum
    BY <2>1, <1>2, <1>12
  <2>3. LastOffset' = LastOffset
    BY <2>2, <1>2 DEF LastOffset
  <2>4. Pad' = Pad /\ Tmp' = Tmp
    BY <2>3, <1>2 DEF Pad, Tmp, Filled
  <2>5. tag' = AES[XOR(S3(LastOffset), XOR(checksum, Tmp))]
    BY <1>6
  <2> QED  BY <2>2, <2>3, <2>4, <2>5, <1>2, <1>8 DEF Sent, TagOf, Copied
<1> QED
  BY <1>1, <1>2, <1>11, <1>13, <1>14
  DEF IInv, Encrypting, NotReceived, Arrived, Decrypting, RoundTrip, ChangeDetected

LEMMA SameSequence ==
  ASSUME NEW a \in Seq(Block), NEW b \in Seq(Block), Len(a) = Len(b),
         \A j \in 1..Len(b) : a[j] = b[j]
  PROVE  a = b
  OBVIOUS

LEMMA SameParts ==
  ASSUME NEW a \in Parts, NEW b \in Parts, a.body = b.body, a.last = b.last
  PROVE  a = b
  BY DEF Parts

LEMMA EncTyped ==
  ASSUME IInv
  PROVE  /\ TypeOK /\ History /\ enc \in Parts /\ wire \in Parts /\ dec \in Parts
         /\ enc.body \in Seq(Block) /\ enc.last \in Block
         /\ wire.body \in Seq(Block) /\ wire.last \in Block
         /\ dec.body \in Seq(Block) /\ Len(dec.body) \in Nat
         /\ msg.body \in Seq(Block) /\ Len(msg.body) \in Nat
  BY MessageTyped DEF IInv, TypeOK, Parts

(* What may arrive. *)
Possible(w) ==
  /\ w \in Parts /\ Len(w.body) = Len(msg.body) /\ w.last \subseteq First(msg.len)
  /\ \A j, k \in 1..Len(msg.body) :
       w.body[j] # enc.body[j] /\ w.body[k] # enc.body[k] => j = k
  /\ ~(\A j \in 1..Len(msg.body) : w.body[j] = enc.body[j]) => w.last = enc.last

LEMMA ArriveInv ==
  ASSUME NEW w, IInv, Arrive(w), Possible(w)
  PROVE  IInv'
<1>1. TypeOK /\ History /\ Sent /\ NotReceived
  BY DEF IInv
<1>2. /\ phase = "sent" /\ phase' = "decrypt" /\ wire' = w
      /\ delta' = AES[nonce] /\ checksum' = {}
      /\ UNCHANGED <<msg, nonce, enc, tag, dec, computed, offsets, sums>>
  BY DEF Arrive
<1>3. altered' \in BOOLEAN /\ (altered' <=> w # enc)
  BY Zenon DEF Arrive
<1>4. TypeOK'
  <2>1. wire' \in Parts
    BY <1>2 DEF Possible
  <2>2. delta' \in Block /\ checksum' \in Block
    BY <1>1, <1>2, EmptyTyped, MessageTyped, AESBlock
  <2> QED  BY <2>1, <2>2, <1>1, <1>2, <1>3 DEF TypeOK
<1>5. History'
  BY <1>1, <1>2 DEF History
<1>6. Sent'
  BY <1>1, <1>2 DEF Sent, TagOf, LastOffset, Pad, Tmp, Copied, Filled
<1>7. Arrived'
  <2>1. Same(Len(msg.body))' <=> \A j \in 1..Len(msg.body) : w.body[j] = enc.body[j]
    BY <1>2 DEF Same
  <2>2. w = enc <=> Same(Len(msg.body))' /\ w.last = enc.last
    <3>1. Len(enc.body) = Len(msg.body)
      BY <1>1, <1>2 DEF Sent
    <3>2. ASSUME \A j \in 1..Len(msg.body) : w.body[j] = enc.body[j], w.last = enc.last
          PROVE  w = enc
      BY <3>1, <3>2, EncTyped, SameSequence, SameParts DEF Possible, Parts
    <3> QED  BY <2>1, <3>2
  <2>3. altered' <=> ~Same(Len(msg.body))' \/ w.last # enc.last
    BY <2>2, <1>3, Zenon
  <2>4. msg' = msg /\ enc' = enc /\ wire' = w
    BY <1>2
  <2>5. altered' <=> ~Same(Len(msg.body))' \/ wire'.last # enc'.last
    BY <2>3, <2>4, Zenon
  <2>6. /\ Len(wire'.body) = Len(msg'.body)
        /\ wire'.last \subseteq First(msg.len)'
        /\ \A j, k \in 1..Len(msg'.body) :
             wire'.body[j] # enc'.body[j] /\ wire'.body[k] # enc'.body[k] => j = k
    BY <2>4 DEF Possible, First
  <2>7. ~Same(Len(msg.body))' => wire'.last = enc'.last
    BY <2>1, <2>4 DEF Possible
  <2> QED  BY <2>5, <2>6, <2>7, Zenon DEF Arrived
<1>8. Decrypting'
  <2>1. dec' = Empty /\ Len(dec'.body) = 0
    BY <1>1, <1>2 DEF NotReceived, Empty
  <2>3. delta' = offsets'[1] /\ checksum' = sums'[1]
    BY <1>1, <1>2 DEF History
  <2>4. Len(dec'.body) <= Len(msg'.body) /\ Len(dec'.body) + 1 = 1 /\ 1..Len(dec'.body) = {}
    BY <2>1, <1>2, EncTyped
  <2>5. Same(Len(dec.body))'
    BY <2>4, Zenon DEF Same
  <2> QED  BY <2>3, <2>4, <2>5, Zenon DEF Decrypting
<1> QED
  BY <1>2, <1>4, <1>5, <1>6, <1>7, <1>8
  DEF IInv, Encrypting, NotReceived, RoundTrip, ChangeDetected

LEMMA UnchangedInv == IInv /\ Unchanged => IInv'
<1> SUFFICES ASSUME IInv, Unchanged PROVE IInv'
  OBVIOUS
<1>1. Len(enc.body) = Len(msg.body) /\ enc.last \subseteq First(msg.len)
  BY DEF Unchanged, Arrive, IInv, Sent, TypeOK
<1>2. Possible(enc)
  BY <1>1, EncTyped DEF Possible
<1> QED  BY <1>2, ArriveInv DEF Unchanged

LEMMA BlockChangedInv ==
  ASSUME IInv, NEW k \in 1..Len(enc.body), NEW c \in Block, BlockChanged(k, c)
  PROVE  IInv'
<1> DEFINE b == [enc.body EXCEPT ![k] = c]
           w == [body |-> b, last |-> enc.last]
<1>1. Len(enc.body) = Len(msg.body) /\ enc.last \subseteq First(msg.len)
  BY DEF BlockChanged, Arrive, IInv, Sent, TypeOK
<1>2. /\ b \in Seq(Block) /\ Len(b) = Len(enc.body)
      /\ \A j \in 1..Len(enc.body) : b[j] = IF j = k THEN c ELSE enc.body[j]
  BY EncTyped
<1> HIDE DEF b
<1>3. w.body = b /\ w.last = enc.last /\ w \in Parts
  BY <1>2, EncTyped DEF Parts
<1>4. \A j \in 1..Len(msg.body) : w.body[j] # enc.body[j] => j = k
  BY <1>1, <1>2, <1>3
<1>5. Arrive(w)
  BY DEF BlockChanged, b
<1> HIDE DEF w
<1>6. Possible(w)
  BY <1>1, <1>2, <1>3, <1>4 DEF Possible
<1> QED  BY <1>5, <1>6, ArriveInv

LEMMA RestChangedInv ==
  ASSUME IInv, NEW c \in SUBSET First(msg.len), RestChanged(c)
  PROVE  IInv'
<1> DEFINE w == [body |-> enc.body, last |-> c]
<1>1. Len(enc.body) = Len(msg.body)
  BY DEF RestChanged, Arrive, IInv, Sent
<1>2. w.body = enc.body /\ w.last = c /\ w \in Parts
  BY EncTyped DEF Parts, First, Block
<1>3. Arrive(w)
  BY DEF RestChanged
<1> HIDE DEF w
<1>4. Possible(w)
  BY <1>1, <1>2 DEF Possible
<1> QED  BY <1>3, <1>4, ArriveInv

(* ocb_decrypt's loop.  Its checksum agrees with the sender's exactly as     *)
(* long as no changed block was read.                                        *)
LEMMA DecryptBlockInv == IInv /\ DecryptBlock => IInv'
<1> SUFFICES ASSUME IInv, DecryptBlock PROVE IInv'
  OBVIOUS
<1> DEFINE n == Len(dec.body) + 1
           p == Unmasked(S2(delta), wire.body[n])
<1>1. TypeOK /\ History /\ Sent /\ Arrived /\ Decrypting
  BY DEF IInv
<1>2. /\ phase = "decrypt" /\ phase' = "decrypt" /\ n <= Len(wire.body)
      /\ delta' = S2(delta) /\ checksum' = XOR(checksum, p)
      /\ dec' = [body |-> Append(dec.body, p), last |-> {}]
      /\ UNCHANGED <<msg, nonce, enc, tag, wire, computed, altered, offsets, sums>>
  BY DEF DecryptBlock, Summed, Unmasked
<1>3. /\ Len(enc.body) = Len(msg.body) /\ Len(wire.body) = Len(msg.body)
      /\ delta = offsets[n]
  BY <1>1, <1>2 DEF Sent, Arrived, Decrypting
<1>4. n \in 1..Len(msg.body) /\ n \in Nat /\ n - 1 = Len(dec.body)
  BY <1>2, <1>3, EncTyped
<1>5. /\ delta \in Block /\ checksum \in Block
      /\ wire.body[n] \in Block /\ enc.body[n] \in Block /\ msg.body[n] \in Block
  BY SMTT(30), <1>1, <1>3, <1>4, EncTyped DEF TypeOK
<1>6. /\ offsets[n + 1] = S2(delta)
      /\ sums[n + 1] = XOR(sums[n], msg.body[n])
      /\ enc.body[n] = Masked(S2(delta), msg.body[n])
  BY <1>1, <1>3, <1>4 DEF History
<1>7. S2(delta) \in Block /\ p \in Block /\ XOR(checksum, p) \in Block
  BY <1>5, S2Block, MaskedBlock, XORBlock
<1>8. sums[n] \in Block
  <2>1. n \in 1..Len(sums)
    BY <1>1, <1>3, <1>4 DEF History, TypeOK
  <2> QED  BY <2>1, <1>1 DEF TypeOK
<1>9. wire.body[n] = enc.body[n] => p = msg.body[n]
  BY <1>5, <1>6, <1>7, UnmaskMasked
<1>10. wire.body[n] # enc.body[n] => p # msg.body[n]
  <2>1. Unmasked(S2(delta), enc.body[n]) = msg.body[n]
    BY <1>5, <1>6, <1>7, UnmaskMasked
  <2> QED  BY <2>1, <1>5, <1>7, UnmaskedDiffer
<1> HIDE DEF p
<1>11. /\ Len(dec'.body) = n /\ dec'.body[n] = p /\ dec'.last = {} /\ dec' \in Parts
       /\ \A j \in 1..(n - 1) : dec'.body[j] = dec.body[j]
  <2>1. dec'.body = Append(dec.body, p) /\ dec'.last = {}
    BY <1>2
  <2>2. dec' \in Parts
    BY <1>2, <1>7, EncTyped, EmptyTyped DEF Parts
  <2> QED  BY <2>1, <2>2, <1>4, <1>7, EncTyped
<1>12. TypeOK'
  BY <1>1, <1>2, <1>7, <1>11 DEF TypeOK
<1>13. Same(n) <=> Same(n - 1) /\ wire.body[n] = enc.body[n]
  BY <1>4 DEF Same
<1>14. /\ Same(n - 1) => checksum = sums[n]
       /\ ~Same(n - 1) => checksum # sums[n]
  BY <1>1, <1>2, <1>4 DEF Decrypting
<1>15. Same(n) => checksum' = sums[n + 1]
  BY <1>2, <1>6, <1>9, <1>13, <1>14
<1>16. ~Same(n) => checksum' # sums[n + 1]
  <2>1. CASE Same(n - 1)
    <3>1. ~Same(n) => p # msg.body[n]
      BY <2>1, <1>10, <1>13
    <3> QED  BY <3>1, <2>1, <1>2, <1>5, <1>6, <1>7, <1>8, <1>14, XORCancels
  <2>2. CASE ~Same(n - 1)
    <3>1. PICK j \in 1..(n - 1) : wire.body[j] # enc.body[j]
      BY <2>2 DEF Same
    <3>2. j \in 1..Len(msg.body) /\ j # n
      BY <1>4
    <3>3. wire.body[n] = enc.body[n]
      BY <3>1, <3>2, <1>1, <1>2, <1>4 DEF Arrived
    <3>4. p = msg.body[n] /\ checksum # sums[n]
      BY <2>2, <3>3, <1>9, <1>14
    <3> QED  BY <3>4, <1>2, <1>5, <1>6, <1>8, XORCancelsLeft
  <2> QED  BY <2>1, <2>2
<1>17. \A j \in 1..n : wire.body[j] = enc.body[j] => dec'.body[j] = msg.body[j]
  <2> TAKE j \in 1..n
  <2>1. CASE j = n
    BY <2>1, <1>9, <1>11
  <2>2. CASE j # n
    <3>1. j \in 1..(n - 1)
      BY <2>2, <1>4
    <3>2. wire.body[j] = enc.body[j] => dec.body[j] = msg.body[j]
      BY <3>1, <1>1, <1>2, <1>4 DEF Decrypting
    <3> QED  BY <3>1, <3>2, <1>11
  <2> QED  BY <2>1, <2>2
<1>18. Decrypting'
  <2>1. Same(Len(dec.body))' <=> Same(n)
    BY <1>2, <1>11 DEF Same
  <2>2. UNCHANGED <<msg, enc, wire, offsets, sums>>
    BY <1>2
  <2>3. Len(dec'.body) <= Len(msg'.body) /\ delta' = offsets'[Len(dec'.body) + 1]
    BY <2>2, <1>2, <1>4, <1>6, <1>11
  <2>4. /\ Same(Len(dec.body))' => checksum' = sums'[Len(dec'.body) + 1]
        /\ ~Same(Len(dec.body))' => checksum' # sums'[Len(dec'.body) + 1]
    BY <2>1, <2>2, <1>11, <1>15, <1>16
  <2>5. \A j \in 1..Len(dec'.body) : wire'.body[j] = enc'.body[j] => dec'.body[j] = msg'.body[j]
    BY <2>2, <1>11, <1>17
  <2> QED  BY <2>3, <2>4, <2>5 DEF Decrypting
<1>19. History' /\ Sent' /\ Arrived'
  <2>1. History'
    BY <1>1, <1>2 DEF History
  <2>2. Sent'
    BY <1>1, <1>2 DEF Sent, TagOf, LastOffset, Pad, Tmp, Copied, Filled
  <2>3. Same(Len(msg.body))' <=> Same(Len(msg.body))
    BY <1>2 DEF Same
  <2>4. Arrived'
    BY <2>3, <1>1, <1>2 DEF Arrived
  <2> QED  BY <2>1, <2>2, <2>4
<1> QED
  BY <1>2, <1>12, <1>18, <1>19 DEF IInv, Encrypting, NotReceived, RoundTrip, ChangeDetected

(* The rest of ocb_decrypt. *)
LEMMA DecryptRestInv == IInv /\ DecryptRest => IInv'
<1> SUFFICES ASSUME IInv, DecryptRest PROVE IInv'
  OBVIOUS
<1> DEFINE n == Len(msg.body)
           t == XOR(wire.last, Pad)
<1>1. TypeOK /\ History /\ Sent /\ Arrived /\ Decrypting
  BY DEF IInv
<1>2. /\ phase = "decrypt" /\ phase' = "done" /\ Len(dec.body) = Len(wire.body)
      /\ UNCHANGED <<msg, nonce, enc, tag, wire, altered, offsets, sums>>
  BY DEF DecryptRest
<1>3. /\ Len(enc.body) = n /\ Len(wire.body) = n /\ Len(dec.body) = n
      /\ delta = offsets[n + 1] /\ enc.last = Copied(XOR(Pad, Tmp))
      /\ tag = TagOf(XOR(sums[n + 1], Tmp))
  BY <1>1, <1>2 DEF Sent, Arrived, Decrypting
<1>4. /\ LastOffset \in Block /\ Pad \in Block /\ Tmp \in Block
      /\ sums[n + 1] \in Block /\ checksum \in Block
  BY <1>1, <1>3, RestTyped DEF TypeOK
<1>5. LastOffset = S2(delta)
  BY <1>3 DEF LastOffset
<1>6. Pad = AES[XOR(Length(msg.len), S2(delta))]
  BY <1>5 DEF Pad
<1>7. t \in Block /\ XOR(checksum, t) \in Block
  BY <1>4, EncTyped, XORBlock
<1>8. /\ dec' = [body |-> dec.body, last |-> Copied(t)]
      /\ checksum' = XOR(checksum, t) /\ delta' = S3(LastOffset)
      /\ computed' = TagOf(XOR(checksum, t))
  BY <1>5, <1>6 DEF DecryptRest, Summed, TagOf
<1>9. dec'.body = dec.body /\ dec'.last = Copied(t)
  BY <1>8
<1>10. TypeOK'
  <2>1. delta' \in Block /\ checksum' \in Block /\ computed' \in Block
    BY <1>4, <1>7, <1>8, S3Block, TagBlock
  <2>2. Copied(t) \in Block /\ Copied(t) \subseteq First(msg.len)
    BY <1>7 DEF Copied, Block
  <2>3. dec' \in Parts
    BY <2>2, <1>8, EncTyped DEF Parts
  <2> QED  BY <2>1, <2>2, <2>3, <1>1, <1>2, <1>9 DEF TypeOK
<1>11. XOR(enc.last, Pad) = Tmp /\ Copied(Tmp) = msg.last
  <2>1. Tmp = msg.last \cup (Pad \ First(msg.len))
    BY DEF Tmp, Filled
  <2>2. /\ XOR(XOR(Pad, Tmp) \cap First(msg.len), Pad) = Tmp
        /\ Tmp \cap First(msg.len) = msg.last
    BY <2>1, <1>1, <1>4, MessageTyped, RestReturns
  <2> QED  BY <2>2, <1>3 DEF Copied
<1>12. wire.last = enc.last <=> t = Tmp
  BY <1>4, <1>11, EncTyped, XORCancelsLeft
<1> HIDE DEF t
<1>13. /\ Same(n) => checksum = sums[n + 1]
       /\ ~Same(n) => checksum # sums[n + 1] /\ wire.last = enc.last
       /\ altered <=> ~Same(n) \/ wire.last # enc.last
  <2>1. altered <=> ~Same(n) \/ wire.last # enc.last
    BY <1>1, <1>2, Zenon DEF Arrived
  <2>2. /\ Same(n) => checksum = sums[n + 1]
        /\ ~Same(n) => checksum # sums[n + 1] /\ wire.last = enc.last
    BY <1>1, <1>2, <1>3 DEF Arrived, Decrypting
  <2> QED  BY <2>1, <2>2, Zenon
<1>14. RoundTrip'
  <2> SUFFICES ASSUME ~altered
               PROVE  dec' = [body |-> msg.body, last |-> msg.last] /\ computed' = tag
    BY <1>2, Zenon DEF RoundTrip
  <2>1. Same(n) /\ wire.last = enc.last /\ checksum = sums[n + 1] /\ t = Tmp
    BY <1>12, <1>13, Zenon
  <2>2. \A j \in 1..n : dec.body[j] = msg.body[j]
    BY <2>1, <1>1, <1>2, <1>3 DEF Same, Decrypting
  <2>3. dec.body = msg.body
    BY <2>2, <1>3, EncTyped, SameSequence
  <2> QED  BY <2>1, <2>3, <1>3, <1>8, <1>11
<1>15. ChangeDetected'
  <2> SUFFICES ASSUME altered PROVE computed' # tag
    BY <1>2, Zenon DEF ChangeDetected
  <2>1. CASE ~Same(n)
    <3>1. t = Tmp /\ checksum # sums[n + 1]
      BY <2>1, <1>12, <1>13, Zenon
    <3>2. XOR(checksum, t) # XOR(sums[n + 1], Tmp)
      BY <3>1, <1>4, XORCancelsLeft
    <3> QED  BY <3>2, <1>3, <1>4, <1>7, <1>8, XORBlock, TagsDiffer
  <2>2. CASE Same(n)
    <3>1. t # Tmp /\ checksum = sums[n + 1]
      BY <2>2, <1>12, <1>13, Zenon
    <3>2. XOR(checksum, t) # XOR(sums[n + 1], Tmp)
      BY <3>1, <1>4, <1>7, XORCancels
    <3> QED  BY <3>2, <1>3, <1>4, <1>7, <1>8, XORBlock, TagsDiffer
  <2> QED  BY <2>1, <2>2
<1>16. History' /\ Sent' /\ Arrived'
  <2>1. History'
    BY <1>1, <1>2 DEF History
  <2>2. Sent'
    BY <1>1, <1>2 DEF Sent, TagOf, LastOffset, Pad, Tmp, Copied, Filled
  <2>3. Same(Len(msg.body))' <=> Same(Len(msg.body))
    BY <1>2 DEF Same
  <2>4. Arrived'
    BY <2>3, <1>1, <1>2 DEF Arrived
  <2> QED  BY <2>1, <2>2, <2>4
<1> QED
  BY <1>2, <1>10, <1>14, <1>15, <1>16 DEF IInv, Encrypting, NotReceived, Decrypting

LEMMA StepInv == IInv /\ [Next]_vars => IInv'
<1> SUFFICES ASSUME IInv, [Next]_vars PROVE IInv'
  OBVIOUS
<1>1. CASE UNCHANGED vars
  BY <1>1 DEF IInv, TypeOK, History, Encrypting, Sent, NotReceived, Arrived, Decrypting, Same,
    RoundTrip, ChangeDetected, TagOf, LastOffset, Pad, Tmp, Copied, Filled, vars
<1>2. CASE EncryptBlock
  BY <1>2, EncryptBlockInv
<1>3. CASE EncryptRest
  BY <1>3, EncryptRestInv
<1>4. CASE Unchanged
  BY <1>4, UnchangedInv
<1>5. CASE \E k \in 1..Len(enc.body), c \in Block : BlockChanged(k, c)
  BY <1>5, BlockChangedInv
<1>6. CASE \E c \in SUBSET First(msg.len) : RestChanged(c)
  BY <1>6, RestChangedInv
<1>7. CASE DecryptBlock
  BY <1>7, DecryptBlockInv
<1>8. CASE DecryptRest
  BY <1>8, DecryptRestInv
<1> QED  BY <1>1, <1>2, <1>3, <1>4, <1>5, <1>6, <1>7, <1>8 DEF Next

LEMMA InvAlways == Spec => []IInv
  BY InitInv, StepInv, PTL DEF Spec

(* Deltas, checksums and tags stay blocks, and nothing is copied past the    *)
(* rest.                                                                     *)
THEOREM TypeCorrect == Spec => []TypeOK
<1>1. IInv => TypeOK
  BY DEF IInv
<1> QED  BY <1>1, InvAlways, PTL

(* ocb_decrypt returns the message ocb_encrypt was given, of any length, and *)
(* computes its tag.                                                         *)
THEOREM RoundTripAlways == Spec => []RoundTrip
<1>1. IInv => RoundTrip
  BY DEF IInv
<1> QED  BY <1>1, InvAlways, PTL

(* A packet with one block or the rest changed never has the sender's tag.   *)
THEOREM ChangeDetectedAlways == Spec => []ChangeDetected
<1>1. IInv => ChangeDetected
  BY DEF IInv
<1> QED  BY <1>1, InvAlways, PTL

----------------------------------------------------------------------------
(* The offsets, in the field.  The code doubles and triples as it has it.    *)
LEMMA S2Twice ==
  ASSUME NEW b \in Block
  PROVE  S2(b) = Twice(b)
<1>1. ShiftLeft(b) = {p \in Bits : p + 1 \in b}
  BY ConstantsAssumption DEF ShiftLeft, Block, Bits
<1>2. Carry(b) = {p \in Bits : 0 \in b /\ p \in Poly}
  BY ConstantsAssumption DEF Carry, Block
<1> QED  BY <1>1, <1>2 DEF S2, Twice, XOR

LEMMA S3Thrice ==
  ASSUME NEW b \in Block
  PROVE  S3(b) = Thrice(b)
<1>1. S2(b) = Twice(b) /\ Twice(b) \subseteq Bits /\ b \subseteq Bits
  BY S2Twice DEF Twice, Block
<1> QED  BY <1>1 DEF S3, Thrice, XOR

(* One round of the cycle. *)
LEMMA Around ==
  ASSUME NEW v \in Nat, v < 2 * Order
  PROVE  v % Order = IF v < Order THEN v ELSE v - Order
<1>1. Order \in Nat /\ Order > 0
  BY FieldAssumption
<1>2. CASE v < Order
  BY <1>1, <1>2
<1>3. CASE v >= Order
  <2>1. PICK w \in Nat : w = v - Order /\ w < Order
    BY <1>1, <1>3
  <2>2. v % Order = w
    BY <1>1, <2>1
  <2> QED BY <1>3, <2>1, <2>2, <1>1
<1> QED BY <1>1, <1>2, <1>3

(* The offset a number of places behind the first on the cycle. *)
Place(k) == (Log[AES[nonce]] + k) % Order
Logged(k, b) == b \in NonZero /\ Log[b] = Place(k)

(* Every offset is where it should be on the cycle of doubling. *)
Spread ==
  AES[nonce] # {} => \A i \in 1..(Len(enc.body) + 1) : Logged(i - 1, offsets[i])
SentOffsets ==
  phase # "encrypt" =>
    /\ Len(offsets) = Len(msg.body) + 3
    /\ offsets[Len(msg.body) + 2] = LastOffset /\ offsets[Len(msg.body) + 3] = S3(LastOffset)

LEMMA FirstLogged ==
  ASSUME TypeOK, AES[nonce] # {}
  PROVE  Logged(0, AES[nonce]) /\ Log[AES[nonce]] \in 0..(Order - 1) /\ Order \in Nat
<1>1. AES[nonce] \in NonZero
  BY MessageTyped, AESBlock DEF NonZero
<1>2. PICK l \in 0..(Order - 1) : l = Log[AES[nonce]]
  BY <1>1, FieldAssumption
<1>3. Order \in Nat /\ l \in Nat /\ l < 2 * Order /\ l < Order
  BY FieldAssumption
<1>4. l % Order = l
  BY <1>3, Around
<1> QED  BY <1>1, <1>2, <1>3, <1>4 DEF Logged, Place

(* Twice moves a block one place on, Thrice Three. *)
LEMMA Moved ==
  ASSUME TypeOK, AES[nonce] # {}, NEW k \in Nat, NEW b, Logged(k, b)
  PROVE  /\ k + 1 < Order => Logged(k + 1, S2(b))
         /\ k + Three < Order => Logged(k + Three, S3(b))
<1>1. PICK l \in 0..(Order - 1) : l = Log[AES[nonce]]
  BY FirstLogged
<1>2. Order \in Nat /\ Three \in Nat /\ Three > 0 /\ l \in Nat
  BY FieldAssumption
<1>3. b \in NonZero /\ b \in Block /\ Log[b] = (l + k) % Order
  BY <1>1 DEF Logged, Place, NonZero
<1>4. /\ S2(b) \in NonZero /\ Log[S2(b)] = (Log[b] + 1) % Order
      /\ S3(b) \in NonZero /\ Log[S3(b)] = (Log[b] + Three) % Order
  BY <1>3, S2Twice, S3Thrice, S2Block, S3Block, FieldAssumption DEF NonZero
<1>5. ASSUME NEW d \in Nat, d + k < Order
      PROVE  (((l + k) % Order) + d) % Order = (l + (k + d)) % Order
  <2>1. PICK p \in Nat, q \in Nat : p = l + k /\ p < 2 * Order /\ q = l + (k + d) /\ q < 2 * Order
    BY <1>2, <1>5
  <2>2. p % Order = IF p < Order THEN p ELSE p - Order
    BY <2>1, Around
  <2>3. q % Order = IF q < Order THEN q ELSE q - Order
    BY <2>1, Around
  <2>4. CASE p < Order
    BY <2>1, <2>2, <2>4
  <2>5. CASE p >= Order
    <3>1. PICK v \in Nat : v = p - Order + d /\ v < Order /\ v < 2 * Order
      BY <1>2, <1>5, <2>1, <2>5
    <3>2. v % Order = v
      BY <3>1, Around
    <3>3. q >= Order /\ q - Order = v /\ (p % Order) + d = v
      BY <1>2, <1>5, <2>1, <2>2, <2>5, <3>1
    <3> QED  BY <1>2, <2>1, <2>3, <3>2, <3>3
  <2> QED  BY <1>2, <2>4, <2>5
<1>6. k + 1 < Order => (Log[b] + 1) % Order = (l + (k + 1)) % Order
  BY <1>3, <1>5
<1>7. k + Three < Order => (Log[b] + Three) % Order = (l + (k + Three)) % Order
  BY <1>2, <1>3, <1>5
<1> QED  BY <1>1, <1>4, <1>6, <1>7 DEF Logged, Place

(* Different places on the cycle, different blocks. *)
LEMMA Apart ==
  ASSUME TypeOK, AES[nonce] # {}, NEW j \in Nat, NEW k \in Nat, j < k, k < Order,
         NEW b, NEW c, Logged(j, b), Logged(k, c)
  PROVE  b # c
<1>1. PICK l \in 0..(Order - 1) : l = Log[AES[nonce]]
  BY FirstLogged
<1>2. Order \in Nat /\ l \in Nat
  BY FieldAssumption
<1>3. PICK p \in Nat, q \in Nat : p = l + j /\ p < 2 * Order /\ q = l + k /\ q < 2 * Order
  BY <1>2
<1>4. /\ p % Order = IF p < Order THEN p ELSE p - Order
      /\ q % Order = IF q < Order THEN q ELSE q - Order
  BY <1>3, Around
<1>5. p % Order # q % Order
  BY <1>2, <1>3, <1>4
<1> QED  BY <1>1, <1>3, <1>5 DEF Logged, Place

LEMMA OffsetsInit == Init => Spread /\ SentOffsets
<1> SUFFICES ASSUME Init PROVE Spread /\ SentOffsets
  OBVIOUS
<1>1. TypeOK
  BY InitInv DEF IInv
<1>2. Len(enc.body) + 1 = 1 /\ offsets[1] = AES[nonce] /\ 1 - 1 = 0 /\ 1..1 = {1}
  BY DEF Init, Empty
<1>3. Spread
  BY <1>1, <1>2, FirstLogged DEF Spread
<1> QED  BY <1>3 DEF Init, SentOffsets

LEMMA OffsetsStep ==
  ASSUME IInv, Spread, SentOffsets, [Next]_vars
  PROVE  Spread' /\ SentOffsets'
<1>1. IInv'
  BY StepInv
<1> DEFINE n == Len(enc.body)
<1>2. CASE UNCHANGED <<msg, nonce, enc, offsets>> /\ (phase' # "encrypt" => phase # "encrypt")
  BY <1>2 DEF Spread, SentOffsets, LastOffset, Logged, Place
<1>3. CASE EncryptBlock
  <2>1. TypeOK /\ History /\ Encrypting /\ TypeOK' /\ History'
    BY <1>1 DEF IInv
  <2>2. /\ phase = "encrypt" /\ phase' = "encrypt" /\ n + 1 <= Len(msg.body)
        /\ delta' = S2(delta) /\ offsets' = Append(offsets, S2(delta))
        /\ UNCHANGED <<msg, nonce>>
    BY <1>3 DEF EncryptBlock
  <2>3. Len(enc'.body) = n + 1
    <3>1. enc'.body = Append(enc.body, XOR(delta', AES[XOR(delta', msg.body[n + 1])]))
      BY <1>3 DEF EncryptBlock
    <3>2. PICK s \in Seq(Block) : s = enc.body
      BY <2>1 DEF TypeOK, Parts
    <3> QED  BY <3>1, <3>2
  <2>4. /\ Len(offsets) = n + 1 /\ delta = offsets[n + 1] /\ offsets \in Seq(Block) /\ n \in Nat
        /\ S2(delta) \in Block
    BY <2>1, <2>2, S2Block DEF Encrypting, TypeOK, Parts
  <2>5. /\ offsets'[n + 2] = S2(delta) /\ \A i \in 1..(n + 1) : offsets'[i] = offsets[i]
    BY <2>2, <2>4
  <2>6. ASSUME AES[nonce] # {}, NEW i \in 1..(n + 2)
        PROVE  Logged(i - 1, offsets'[i])
    <3>1. CASE i = n + 2
      <4>1. Logged(n, offsets[n + 1])
        <5>1. n + 1 \in 1..(n + 1) /\ (n + 1) - 1 = n
          BY <2>4
        <5> QED  BY <2>6, <5>1 DEF Spread
      <4>2. n + 1 < Order
        BY <2>1, <2>2, <2>4, MessageTyped, FieldAssumption DEF TypeOK
      <4>3. Logged(n + 1, S2(delta))
        BY <2>1, <2>4, <2>6, <4>1, <4>2, Moved
      <4> QED  BY <2>4, <2>5, <3>1, <4>3
    <3>2. CASE i # n + 2
      <4>1. i \in 1..(n + 1)
        BY <2>4, <3>2
      <4> QED  BY <2>5, <2>6, <4>1 DEF Spread
    <3> QED  BY <3>1, <3>2
  <2>7. Spread'
    <3>1. (n + 1) + 1 = n + 2
      BY <2>4
    <3> QED  BY <2>2, <2>3, <2>6, <3>1 DEF Spread, Logged, Place
  <2> QED  BY <2>2, <2>7 DEF SentOffsets
<1>4. CASE EncryptRest
  <2>1. TypeOK /\ Encrypting /\ History
    BY DEF IInv
  <2>2. /\ phase = "encrypt" /\ n = Len(msg.body) /\ enc'.body = enc.body
        /\ delta' = S3(S2(delta)) /\ offsets' = Append(Append(offsets, S2(delta)), delta')
        /\ UNCHANGED <<msg, nonce>>
    BY <1>4 DEF EncryptRest
  <2>3. /\ Len(offsets) = n + 1 /\ delta = offsets[n + 1] /\ offsets \in Seq(Block) /\ n \in Nat
        /\ S2(delta) \in Block /\ delta' \in Block
    <3>1. n \in Nat /\ Len(offsets) = n + 1 /\ delta = offsets[n + 1] /\ offsets \in Seq(Block)
          /\ delta \in Block
      BY <2>1, <2>2, MessageTyped DEF Encrypting, TypeOK
    <3> QED  BY <2>2, <3>1, S2Block, S3Block
  <2>4. /\ Len(offsets') = n + 3 /\ offsets'[n + 2] = S2(delta) /\ offsets'[n + 3] = delta'
        /\ \A i \in 1..(n + 1) : offsets'[i] = offsets[i]
    <3>0. Append(offsets, S2(delta)) \in Seq(Block)
      BY <2>3
    <3>1. PICK s \in Seq(Block) : s = Append(offsets, S2(delta))
      BY <3>0
    <3>2. Len(s) = n + 2 /\ s[n + 2] = S2(delta) /\ \A i \in 1..(n + 1) : s[i] = offsets[i]
      BY <2>3, <3>1
    <3>3. offsets' = Append(s, delta')
      BY <2>2, <3>1
    <3> QED  BY <2>3, <3>2, <3>3
  <2>5. Spread'
    BY <2>2, <2>4 DEF Spread, Logged, Place
  <2>6. LastOffset' = S2(delta)
    <3>1. n + 1 \in 1..(n + 1)
      BY <2>3
    <3> QED  BY <2>2, <2>3, <2>4, <3>1 DEF LastOffset
  <2> QED  BY <2>2, <2>4, <2>5, <2>6 DEF SentOffsets
<1>5. CASE Unchanged \/ (\E k \in 1..Len(enc.body), c \in Block : BlockChanged(k, c))
             \/ (\E c \in SUBSET First(msg.len) : RestChanged(c))
  BY <1>2, <1>5 DEF Unchanged, BlockChanged, RestChanged, Arrive
<1>6. CASE DecryptBlock \/ DecryptRest
  BY <1>2, <1>6 DEF DecryptBlock, DecryptRest
<1>7. CASE UNCHANGED vars
  BY <1>2, <1>7 DEF vars
<1> QED  BY <1>3, <1>4, <1>5, <1>6, <1>7 DEF Next

(* The offsets of a packet are all different, whatever the nonce, if only    *)
(* the cipher does not map it to zero: Poly makes doubling go through every  *)
(* block before it comes back, and tripling is a longer way than the packet. *)
THEOREM OffsetsDifferAlways == Spec => []OffsetsDiffer
<1>1. ASSUME IInv, Spread, SentOffsets PROVE OffsetsDiffer
  <2> SUFFICES ASSUME AES[nonce] # {}, NEW i \in 1..Len(offsets), NEW j \in 1..Len(offsets), i < j
               PROVE  offsets[i] # offsets[j]
    BY DEF OffsetsDiffer
  <2> DEFINE n == Len(enc.body)
  <2>1. /\ TypeOK /\ n \in Nat /\ n <= Len(msg.body) /\ Len(msg.body) \in Nat
        /\ (phase = "encrypt" => Len(offsets) = n + 1)
        /\ (phase # "encrypt" => Len(offsets) = n + 3 /\ n = Len(msg.body))
    BY <1>1, MessageTyped DEF IInv, TypeOK, Parts, History, Encrypting, Sent, SentOffsets
  <2>2. Order \in Nat /\ Three \in Nat /\ Three > 0 /\ n + Three + 1 < Order
    BY <2>1, FieldAssumption DEF TypeOK
  <2> HIDE DEF n
  <2>3. \A k \in 1..(n + 1) : Logged(k - 1, offsets[k])
    BY <1>1 DEF Spread, n
  <2>4. ASSUME phase # "encrypt"
        PROVE  Logged(n + 1, offsets[n + 2]) /\ Logged(n + 1 + Three, offsets[n + 3])
    <3>1. Logged(n, offsets[n + 1])
      BY <2>1, <2>3
    <3>2. Logged(n + 1, S2(offsets[n + 1]))
      BY <1>1, <2>1, <2>2, <3>1, Moved
    <3>3. offsets[n + 2] = S2(offsets[n + 1]) /\ offsets[n + 3] = S3(offsets[n + 2])
      BY <1>1, <2>1, <2>4 DEF SentOffsets, LastOffset
    <3>4. Logged(n + 1 + Three, S3(offsets[n + 2]))
      BY <2>1, <2>2, <3>2, <3>3, Moved
    <3> QED  BY <3>2, <3>3, <3>4
  <2>5. \E p, q \in Nat :
          p < q /\ q < Order /\ Logged(p, offsets[i]) /\ Logged(q, offsets[j])
    <3>1. CASE j <= n + 1
      <4>1. i - 1 \in Nat /\ j - 1 \in Nat /\ i \in 1..(n + 1) /\ j \in 1..(n + 1)
            /\ i - 1 < j - 1 /\ j - 1 < Order
        BY <2>1, <2>2, <3>1
      <4> QED  BY <2>3, <4>1
    <3>2. CASE j = n + 2
      <4>1. phase # "encrypt" /\ i - 1 \in Nat /\ i \in 1..(n + 1) /\ i - 1 < n + 1
            /\ n + 1 < Order /\ n + 1 \in Nat
        BY <2>1, <2>2, <3>2
      <4> QED  BY <2>3, <2>4, <3>2, <4>1
    <3>3. CASE j = n + 3
      <4>1. phase # "encrypt" /\ i \in 1..(n + 2) /\ n + 1 + Three < Order
            /\ n + 1 + Three \in Nat
        BY <2>1, <2>2, <3>3
      <4>2. i - 1 \in Nat /\ i - 1 < n + 1 + Three
        BY <2>1, <2>2, <4>1
      <4>3. Logged(i - 1, offsets[i])
        <5>1. CASE i = n + 2
          BY <2>1, <2>4, <4>1, <5>1
        <5>2. CASE i # n + 2
          BY <2>1, <2>3, <4>1, <5>2
        <5> QED  BY <5>1, <5>2
      <4> QED  BY <2>4, <3>3, <4>1, <4>2, <4>3
    <3> QED  BY <2>1, <3>1, <3>2, <3>3
  <2> QED  BY <2>1, <2>5, Apart
<1> QED  BY <1>1, OffsetsInit, OffsetsStep, InitInv, StepInv, PTL DEF Spec
=============================================================================
