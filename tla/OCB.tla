--------------------------------- MODULE OCB ---------------------------------
(***************************************************************************)
(* The cipher mode of the UDP channel: ocb_encrypt and ocb_decrypt          *)
(* (CryptState.cpp:195-324), one round of their loops a step.  A message is  *)
(* encrypted by one peer; what arrives is decrypted by the other, under the  *)
(* same nonce and key (module CryptState), with at most one block altered.   *)
(*                                                                           *)
(* A block is the set of its bits that are 1, bit 0 the first in memory: the *)
(* byte swaps of the code make its words one number, most significant bit    *)
(* first.  The block cipher is any permutation of the blocks.  A message is  *)
(* its whole blocks (body) and a rest of len bytes (last), len = 0 only if   *)
(* there is nothing else: the loops end at len <= AES_BLOCK_SIZE.            *)
(***************************************************************************)
EXTENDS Integers, Sequences

CONSTANTS
  AES_BLOCK_SIZE,  (* bytes of a block, 16                                  *)
  ByteBits,        (* bits of a byte, 8                                     *)
  Poly,            (* the bits of 0x87 in the last byte                     *)
  AES,             (* AES_encrypt under the key                             *)
  Nonces,
  Messages,
  Order, Three, Log  (* the discrete logarithm, see FieldAssumption         *)

Bits == 0..(AES_BLOCK_SIZE * ByteBits - 1)
Block == SUBSET Bits
First(len) == {p \in Bits : p < len * ByteBits}

ASSUME ConstantsAssumption ==
  /\ AES_BLOCK_SIZE \in Nat \ {0} /\ ByteBits \in Nat \ {0}
  /\ Poly \in Block /\ Nonces \subseteq Block
  /\ AES \in [Block -> Block]
  /\ \A a, b \in Block : AES[a] = AES[b] => a = b
  /\ \A c \in Block : \E b \in Block : AES[b] = c
  /\ Messages \subseteq [body : Seq(Block), last : Block, len : 0..AES_BLOCK_SIZE]
  /\ \A m \in Messages : m.last \subseteq First(m.len)

(* The field of Poly as the mode's design has it, apart from the code below: *)
(* a block is a polynomial, Twice its product with x, Thrice that with x+1.  *)
(* That Poly is primitive says that doubling goes through all blocks but     *)
(* zero, Order = 2^128-1 of them, in one cycle.  Log counts a block's place  *)
(* on it, and tripling is Three places.  A packet is shorter than what is    *)
(* left of the cycle behind Three.  (Three is about 0.9956 Order.)           *)
Twice(b) == {p \in Bits : (p + 1 \in b) # (0 \in b /\ p \in Poly)}
Thrice(b) == {p \in Bits : (p \in b) # (p \in Twice(b))}
NonZero == Block \ {{}}

ASSUME FieldAssumption ==
  /\ Order \in Nat /\ Three \in Nat \ {0}
  /\ Log \in [NonZero -> 0..(Order - 1)]
  /\ \A b \in NonZero :
       /\ Twice(b) # {} /\ Log[Twice(b)] = (Log[b] + 1) % Order
       /\ Thrice(b) # {} /\ Log[Thrice(b)] = (Log[b] + Three) % Order
  /\ \A m \in Messages : Three + Len(m.body) + 1 < Order

VARIABLES
  msg, nonce,
  phase,     (* "encrypt", "sent", "decrypt", "done"                        *)
  delta,     (* of the call that is running, as checksum                    *)
  checksum,
  enc,       (* what the sender has encrypted, [body, last]                 *)
  tag,       (* the sender's tag                                            *)
  wire,      (* what arrives                                                *)
  dec,       (* what the receiver has decrypted                             *)
  computed,  (* the receiver's tag                                          *)
  altered,   (* history: wire differs from enc                              *)
  offsets,   (* history: the values delta had at the sender                 *)
  sums       (* history: the values checksum had at the sender              *)

vars == <<msg, nonce, phase, delta, checksum, enc, tag, wire, dec, computed, altered, offsets, sums>>

----------------------------------------------------------------------------
XOR(a, b) == (a \ b) \cup (b \ a)
AESdecrypt(c) == CHOOSE b \in Block : AES[b] = c

(* Twice and three times a block, in the field of Poly. *)
ShiftLeft(b) == {p - 1 : p \in b \ {0}}
NoCarry(b) == {}
Carry(b) == IF 0 \in b THEN Poly ELSE {}
S2(b) == XOR(ShiftLeft(b), Carry(b))
S3(b) == XOR(b, S2(b))

(* The number len * 8 as a block. *)
Length(len) ==
  {p \in Bits : ((len * ByteBits) \div 2^(AES_BLOCK_SIZE * ByteBits - 1 - p)) % 2 = 1}

(* memcpy of the first len bytes. *)
Copied(b) == b \cap First(msg.len)

NotSummed(sum, b) == sum
Summed(sum, b) == XOR(sum, b)

Empty == [body |-> <<>>, last |-> {}]

Init ==
  /\ msg \in Messages /\ nonce \in Nonces
  /\ phase = "encrypt" /\ delta = AES[nonce] /\ checksum = {}
  /\ enc = Empty /\ tag = {}
  /\ wire = Empty /\ dec = Empty /\ computed = {} /\ altered = FALSE
  /\ offsets = <<AES[nonce]>> /\ sums = <<{}>>

(* ocb_encrypt *)
EncryptBlock ==
  LET n == Len(enc.body) + 1
  IN /\ phase = "encrypt" /\ n <= Len(msg.body)
     /\ delta' = S2(delta)
     /\ checksum' = Summed(checksum, msg.body[n])
     /\ enc' = [body |-> Append(enc.body, XOR(delta', AES[XOR(delta', msg.body[n])])),
                last |-> {}]
     /\ offsets' = Append(offsets, delta') /\ sums' = Append(sums, checksum')
     /\ UNCHANGED <<msg, nonce, phase, tag, wire, dec, computed, altered>>

(* The rest, filled up with the end of pad. *)
FilledWithZeros(rest, pad) == rest
Filled(rest, pad) == rest \cup (pad \ First(msg.len))
EncryptRest ==
  LET d == S2(delta)
      pad == AES[XOR(Length(msg.len), d)]
      tmp == Filled(msg.last, pad)
  IN /\ phase = "encrypt" /\ Len(enc.body) = Len(msg.body)
     /\ enc' = [body |-> enc.body, last |-> Copied(XOR(pad, tmp))]
     /\ checksum' = Summed(checksum, tmp)
     /\ delta' = S3(d)
     /\ tag' = AES[XOR(delta', checksum')]
     /\ offsets' = Append(Append(offsets, d), delta') /\ sums' = Append(sums, checksum')
     /\ phase' = "sent"
     /\ UNCHANGED <<msg, nonce, wire, dec, computed, altered>>

----------------------------------------------------------------------------
(* The packet arrives as it was sent, or with one block changed; the         *)
(* receiver has the nonce and starts.                                        *)
Arrive(w) ==
  /\ phase = "sent" /\ phase' = "decrypt"
  /\ wire' = w /\ altered' = (w # enc)
  /\ delta' = AES[nonce] /\ checksum' = {}
  /\ UNCHANGED <<msg, nonce, enc, tag, dec, computed, offsets, sums>>
Unchanged == Arrive(enc)
BlockChanged(k, c) ==
  /\ c # enc.body[k]
  /\ Arrive([body |-> [enc.body EXCEPT ![k] = c], last |-> enc.last])
RestChanged(c) ==
  /\ c # enc.last
  /\ Arrive([body |-> enc.body, last |-> c])

----------------------------------------------------------------------------
(* ocb_decrypt *)
DecryptBlock ==
  LET n == Len(dec.body) + 1
      p == XOR(delta', AESdecrypt(XOR(delta', wire.body[n])))
  IN /\ phase = "decrypt" /\ n <= Len(wire.body)
     /\ delta' = S2(delta)
     /\ checksum' = Summed(checksum, p)
     /\ dec' = [body |-> Append(dec.body, p), last |-> {}]
     /\ UNCHANGED <<msg, nonce, phase, enc, tag, wire, computed, altered, offsets, sums>>

DecryptRest ==
  LET d == S2(delta)
      pad == AES[XOR(Length(msg.len), d)]
      tmp == XOR(wire.last, pad)
  IN /\ phase = "decrypt" /\ Len(dec.body) = Len(wire.body)
     /\ dec' = [body |-> dec.body, last |-> Copied(tmp)]
     /\ checksum' = Summed(checksum, tmp)
     /\ delta' = S3(d)
     /\ computed' = AES[XOR(delta', checksum')]
     /\ phase' = "done"
     /\ UNCHANGED <<msg, nonce, enc, tag, wire, altered, offsets, sums>>

Next ==
  \/ EncryptBlock \/ EncryptRest
  \/ Unchanged
  \/ \E k \in 1..Len(enc.body), c \in Block : BlockChanged(k, c)
  \/ \E c \in SUBSET First(msg.len) : RestChanged(c)
  \/ DecryptBlock \/ DecryptRest

Spec == Init /\ [][Next]_vars

----------------------------------------------------------------------------
Parts == [body : Seq(Block), last : Block]

TypeOK ==
  /\ msg \in Messages /\ nonce \in Nonces
  /\ phase \in {"encrypt", "sent", "decrypt", "done"}
  /\ delta \in Block /\ checksum \in Block /\ tag \in Block /\ computed \in Block
  /\ enc \in Parts /\ wire \in Parts /\ dec \in Parts
  /\ enc.last \subseteq First(msg.len) /\ dec.last \subseteq First(msg.len)
  /\ altered \in BOOLEAN
  /\ offsets \in Seq(Block) /\ sums \in Seq(Block)

(* What is decrypted is what was encrypted, of every length, and the tags    *)
(* agree.                                                                    *)
RoundTrip ==
  phase = "done" /\ ~altered =>
    dec = [body |-> msg.body, last |-> msg.last] /\ computed = tag

(* A packet in which one block is not as it was sent has another tag.  (The  *)
(* packet carries three bytes of it.)                                        *)
ChangeDetected == phase = "done" /\ altered => computed # tag

(* The first value of delta and the offsets of a packet's blocks, of its     *)
(* rest and of its checksum are all different, so equal blocks of a message  *)
(* do not show as such.  The nonce that the cipher maps to zero is the       *)
(* exception.                                                                *)
OffsetsDiffer ==
  AES[nonce] # {} =>
    \A i, j \in 1..Len(offsets) : i # j => offsets[i] # offsets[j]
=============================================================================
