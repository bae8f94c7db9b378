---------------------------- MODULE CryptState -----------------------------
(***************************************************************************)
(* Nonce handling of the UDP channel (CryptState.cpp:71-193): one peer's    *)
(* encrypt, the other peer's decrypt, setKey at both and setDecryptIV.       *)
(*                                                                           *)
(* A packet is the initialisation vector it was encrypted with; of it only   *)
(* the low byte travels.  An IV is its byte 0 (lo) and the number formed by  *)
(* bytes 1 to 15 (hi), so a carry loop adds 1 to hi and a borrow loop takes  *)
(* 1 away; byte 1, which the history keeps, is hi % Base.  The tag verifies  *)
(* if and only if the receiver rebuilds the sender's IV under the same key:  *)
(* OCB-AES itself is not modelled.  A packet that has been sent may arrive   *)
(* at any time, any number of times or never; one encrypted under an earlier *)
(* key, and one that overtakes the CryptSetup with its key, fails the tag    *)
(* and changes nothing.                                                      *)
(***************************************************************************)
EXTENDS Integers, FiniteSets

CONSTANTS
  Base,     (* values of a byte, 256                                        *)
  Half,     (* differences beyond this one wrap, 128                        *)
  Window,   (* a late packet is less than this behind, 30                   *)
  UIntMod,  (* values of an unsigned int, 2^32                              *)
  Nonces,   (* initial IVs of the keys                                      *)
  MaxSent,  (* packets encrypted under one key                              *)
  MaxKeys,  (* calls of setKey                                              *)
  MaxGood,  (* packets accepted in a behaviour                              *)
  MaxSyncs  (* resynchronisations                                           *)

IVs == [lo : 0..(Base - 1), hi : Nat]

ASSUME ConstantsAssumption ==
  /\ Base \in Nat /\ Half \in Nat /\ Window \in Nat /\ UIntMod \in Nat
  /\ 1 < Half /\ Base = 2 * Half /\ 0 < Window /\ Window <= Half /\ 0 < UIntMod
  /\ Nonces \subseteq IVs
  /\ MaxSent \in Nat /\ MaxKeys \in Nat /\ MaxGood \in Nat /\ MaxSyncs \in Nat

VARIABLES
  encrypt_iv,      (* the sender's                                          *)
  decrypt_iv,      (* the receiver's, as everything below                   *)
  decrypt_history,
  uiGood, uiLate, uiLost,
  nonce,           (* set of at most one server_nonce on its way over TCP   *)
  base,            (* history: the IV this key started with                 *)
  sent,            (* history: IVs encrypted under this key                 *)
  accepted,        (* history: those decrypt returned true for              *)
  replays,         (* history: packets of this key accepted a second time   *)
  syncs,           (* history: nonces sent for a resynchronisation          *)
  rewound,         (* history: setDecryptIV moved this key's decrypt_iv back *)
  passed,          (* history: how far decrypt_iv came under earlier keys   *)
  keys             (* history: calls of setKey; decrypt needs one           *)

senderVars == <<encrypt_iv, sent>>
counters == <<uiGood, uiLate, uiLost>>
keyVars == <<base, passed, keys>>
histVars == <<accepted, replays>>
syncVars == <<nonce, syncs, rewound>>
vars == <<senderVars, decrypt_iv, decrypt_history, counters, keyVars, histVars, syncVars>>

Number(iv) == iv.hi * Base + iv.lo
Before(a, b) == a.hi < b.hi \/ (a.hi = b.hi /\ a.lo < b.lo)

(* ++iv over all its bytes.                                                 *)
Increment(iv) ==
  IF iv.lo = Base - 1 THEN [lo |-> 0, hi |-> iv.hi + 1] ELSE [iv EXCEPT !.lo = @ + 1]

Init ==
  /\ decrypt_history = [b \in 0..(Base - 1) |-> 0]
  /\ uiGood = 0 /\ uiLate = 0 /\ uiLost = 0
  /\ base \in Nonces /\ encrypt_iv = base /\ decrypt_iv = base
  /\ nonce = {} /\ sent = {} /\ accepted = {} /\ replays = 0
  /\ syncs = 0 /\ rewound = FALSE /\ passed = 0 /\ keys = 0

-----------------------------------------------------------------------------

(* CryptSetup with a key and both nonces; the history is not cleared.       *)
SetKey(iv) ==
  /\ keys < MaxKeys /\ nonce = {}
  /\ keys' = keys + 1 /\ base' = iv /\ encrypt_iv' = iv /\ decrypt_iv' = iv
  /\ sent' = {} /\ accepted' = {} /\ replays' = 0 /\ rewound' = FALSE
  /\ passed' = passed + Number(decrypt_iv) - Number(base)
  /\ UNCHANGED <<decrypt_history, counters, nonce, syncs>>

Encrypt ==
  /\ keys > 0 /\ Cardinality(sent) < MaxSent
  /\ encrypt_iv' = Increment(encrypt_iv)
  /\ sent' = sent \cup {encrypt_iv'}
  /\ UNCHANGED <<decrypt_iv, decrypt_history, counters, keyVars, histVars, syncVars>>

(* The peer sends its current IV for a resynchronisation; it travels over   *)
(* TCP and arrives when packets encrypted later may have arrived already.   *)
SendNonce ==
  /\ keys > 0 /\ syncs < MaxSyncs /\ nonce = {}
  /\ nonce' = {encrypt_iv} /\ syncs' = syncs + 1
  /\ UNCHANGED <<senderVars, decrypt_iv, decrypt_history, counters, keyVars, histVars,
                 rewound>>

SetDecryptIV(iv) ==
  /\ iv \in nonce /\ nonce' = {}
  /\ decrypt_iv' = iv
  /\ rewound' = (rewound \/ Before(iv, decrypt_iv))
  /\ UNCHANGED <<senderVars, decrypt_history, counters, keyVars, histVars, syncs>>

-----------------------------------------------------------------------------
(* decrypt, given the low byte b of the packet's IV.                        *)

InOrder(b) == (decrypt_iv.lo + 1) % Base = b

Diff(b) ==
  LET d == b - decrypt_iv.lo IN
  IF d > Half THEN d - Base ELSE IF d < -Half THEN d + Base ELSE d

Late(b) == ~InOrder(b) /\ -Window < Diff(b) /\ Diff(b) < 0
Ahead(b) == ~InOrder(b) /\ Diff(b) > 0

(* The IV rebuilt from b, with the carry or borrow of its higher bytes.     *)
Rebuilt(b) ==
  [lo |-> b,
   hi |-> IF Late(b) /\ b > decrypt_iv.lo THEN decrypt_iv.hi - 1
          ELSE IF ~Late(b) /\ b < decrypt_iv.lo THEN decrypt_iv.hi + 1
          ELSE decrypt_iv.hi]

(* Mutant: the history is never consulted.                                  *)
NoRepeat(b) == FALSE

(* Only a packet that is not the next one is looked up in the history.      *)
Repeat(b) == ~InOrder(b) /\ decrypt_history[b] = Rebuilt(b).hi % Base

(* decrypt returns true.                                                    *)
Accepts(iv) ==
  /\ InOrder(iv.lo) \/ Late(iv.lo) \/ Ahead(iv.lo)
  /\ ~Repeat(iv.lo) /\ Rebuilt(iv.lo) = iv

(* Mutant: a late packet is not discounted.                                 *)
LostAhead(b) == IF Ahead(b) THEN Diff(b) - 1 ELSE 0

Lost(b) == IF Late(b) THEN -1 ELSE IF Ahead(b) THEN Diff(b) - 1 ELSE 0

(* A late packet leaves decrypt_iv where it was.                            *)
Newest(iv) == IF Late(iv.lo) THEN decrypt_iv ELSE iv

Decrypt(iv) ==
  /\ iv \in sent /\ Accepts(iv) /\ uiGood < MaxGood
  /\ decrypt_history' = [decrypt_history EXCEPT ![iv.lo] = iv.hi % Base]
  /\ decrypt_iv' = Newest(iv)
  /\ uiGood' = (uiGood + 1) % UIntMod
  /\ uiLate' = (uiLate + IF Late(iv.lo) THEN 1 ELSE 0) % UIntMod
  /\ uiLost' = (uiLost + Lost(iv.lo)) % UIntMod
  /\ accepted' = accepted \cup {iv}
  /\ replays' = replays + IF iv \in accepted THEN 1 ELSE 0
  /\ UNCHANGED <<senderVars, keyVars, syncVars>>

(* decrypt returns false and leaves everything as it was.                   *)
Reject(iv) == iv \in sent /\ ~Accepts(iv) /\ UNCHANGED vars

-----------------------------------------------------------------------------

Next ==
  \/ \E iv \in Nonces : SetKey(iv)
  \/ Encrypt
  \/ SendNonce
  \/ \E iv \in nonce : SetDecryptIV(iv)
  \/ \E iv \in sent : Decrypt(iv) \/ Reject(iv)

Spec == Init /\ [][Next]_vars

-----------------------------------------------------------------------------

UInts == 0..(UIntMod - 1)

TypeOK ==
  /\ encrypt_iv \in IVs /\ decrypt_iv \in IVs /\ base \in IVs
  /\ nonce \subseteq IVs /\ sent \subseteq IVs /\ accepted \subseteq sent
  /\ decrypt_history \in [0..(Base - 1) -> 0..(Base - 1)]
  /\ uiGood \in UInts /\ uiLate \in UInts /\ uiLost \in UInts
  /\ replays \in Nat /\ passed \in Int /\ keys \in Nat
  /\ syncs \in Nat /\ rewound \in BOOLEAN

(* No packet is accepted twice under one key, whatever arrives twice and in *)
(* whatever order, although only the low byte of a nonce travels and the    *)
(* history keeps only its second byte; unless a resynchronisation moves     *)
(* decrypt_iv back, because packets in order are not looked up.             *)
NoReplay == ~rewound => replays = 0

(* Why: of the last Base packets up to decrypt_iv the history holds the     *)
(* second byte of each that was accepted, and none beyond was accepted.     *)
Recent(iv) ==
  \/ iv.hi = decrypt_iv.hi /\ iv.lo <= decrypt_iv.lo
  \/ iv.hi + 1 = decrypt_iv.hi /\ iv.lo > decrypt_iv.lo

RecentHistory ==
  ~rewound => \A iv \in accepted :
    /\ ~Before(decrypt_iv, iv)
    /\ Recent(iv) => decrypt_history[iv.lo] = iv.hi % Base

(* Without resynchronisation good and lost packets add up to the packets    *)
(* that decrypt_iv has passed: a late packet turns from lost to good, and   *)
(* uiLost, which is unsigned, never goes below zero.                        *)
Accounting ==
  syncs = 0 => LET total == passed + Number(decrypt_iv) - Number(base) IN
                total < UIntMod => uiGood + uiLost = total

(* CryptState.cpp:157, "Lost a few packets, but beyond that we're good": a   *)
(* packet ahead of all that were accepted is decrypted.                     *)
AheadIsGood ==
  \A iv \in sent :
    Before(decrypt_iv, iv) /\ Number(iv) - Number(decrypt_iv) < Half => Accepts(iv)

=============================================================================
