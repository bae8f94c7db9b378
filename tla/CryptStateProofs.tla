-------------------------- MODULE CryptStateProofs --------------------------
(***************************************************************************)
(* No packet is accepted twice under one key, for every size of a byte, of  *)
(* the window and of the counters, as long as no resynchronisation moves    *)
(* decrypt_iv back.  The inductive invariant adds to NoReplay what makes it *)
(* true, RecentHistory; the two facts about an accepted IV that a step      *)
(* needs are lemmas.  Without a resynchronisation the counters add up; that  *)
(* no more is accepted than decrypt_iv has passed is a counting argument.    *)
(***************************************************************************)
EXTENDS CryptState, FiniteSetTheorems, TLAPS

IInv == TypeOK /\ RecentHistory /\ NoReplay

USE ConstantsAssumption DEF ConstantsAssumption

-----------------------------------------------------------------------------

LEMMA ModBounds == \A a \in Int, n \in Nat : 0 < n => a % n \in 0..(n - 1)
  OBVIOUS

LEMMA Fields ==
  \A iv \in IVs : iv.lo \in 0..(Base - 1) /\ iv.lo \in Int /\ iv.hi \in Nat /\ iv.hi \in Int
  BY DEF IVs

LEMMA IncrementType == \A iv \in IVs : Increment(iv) \in IVs
  BY DEF IVs, Increment

(* An IV that decrypt accepts lies close to decrypt_iv: it is either recent, *)
(* and then looked up in the history, or beyond decrypt_iv.                 *)
LEMMA AcceptedIsRecentOrBeyond ==
  ASSUME TypeOK, NEW iv \in IVs, Accepts(iv)
  PROVE  \/ /\ Late(iv.lo) /\ Recent(iv) /\ ~Before(decrypt_iv, iv)
            /\ decrypt_history[iv.lo] # iv.hi % Base
         \/ ~Late(iv.lo) /\ Before(decrypt_iv, iv)
  <1>1. /\ iv.lo \in 0..(Base - 1) /\ iv.hi \in Nat
        /\ decrypt_iv.lo \in 0..(Base - 1) /\ decrypt_iv.hi \in Nat
    BY DEF TypeOK, IVs
  <1>2. Rebuilt(iv.lo).hi = iv.hi
    BY DEF Accepts
  <1>3. CASE InOrder(iv.lo)
    <2>1. ~Late(iv.lo)
      BY <1>3 DEF Late
    <2>2. \/ iv.lo = decrypt_iv.lo + 1
          \/ iv.lo = 0 /\ decrypt_iv.lo = Base - 1
      BY <1>1, <1>3 DEF InOrder
    <2>3. QED
      BY <1>1, <1>2, <2>1, <2>2 DEF Rebuilt, Before
  <1>4. CASE Late(iv.lo)
    <2>1. decrypt_history[iv.lo] # iv.hi % Base
      BY <1>2, <1>4 DEF Accepts, Repeat, Late
    <2>2. /\ iv.lo < decrypt_iv.lo => iv.hi = decrypt_iv.hi
          /\ iv.lo > decrypt_iv.lo => iv.hi = decrypt_iv.hi - 1
          /\ iv.lo # decrypt_iv.lo
      BY <1>1, <1>2, <1>4 DEF Rebuilt, Late, Diff
    <2>3. QED
      BY <1>1, <1>4, <2>1, <2>2 DEF Recent, Before
  <1>5. CASE ~InOrder(iv.lo) /\ ~Late(iv.lo)
    <2>1. Ahead(iv.lo)
      BY <1>5 DEF Accepts
    <2>2. /\ iv.lo > decrypt_iv.lo => iv.hi = decrypt_iv.hi
          /\ iv.lo < decrypt_iv.lo => iv.hi = decrypt_iv.hi + 1
          /\ iv.lo # decrypt_iv.lo
      BY <1>1, <1>2, <1>5, <2>1 DEF Rebuilt, Ahead, Diff
    <2>3. QED
      BY <1>1, <1>5, <2>2 DEF Before
  <1>6. QED
    BY <1>3, <1>4, <1>5

-----------------------------------------------------------------------------

(* The variables of CryptState keep their types; the counters their width.  *)
THEOREM TypeCorrect == Spec => []TypeOK
  <1>1. Init => TypeOK
    <2>1. Init => rewound \in BOOLEAN
      BY DEF Init
    <2>2. QED
      BY <2>1 DEF Init, TypeOK, UInts
  <1>2. TypeOK /\ [Next]_vars => TypeOK'
    <2> SUFFICES ASSUME TypeOK, [Next]_vars PROVE TypeOK'
      OBVIOUS
    <2> USE DEF TypeOK
    <2>1. ASSUME NEW iv \in Nonces, SetKey(iv) PROVE TypeOK'
      <3>1. rewound' \in BOOLEAN
        BY <2>1 DEF SetKey
      <3>2. passed' \in Int
        BY <2>1 DEF SetKey, IVs, Number
      <3>3. QED
        BY <2>1, <3>1, <3>2 DEF SetKey, counters
    <2>2. CASE Encrypt
      BY <2>2, IncrementType DEF Encrypt, counters, keyVars, histVars, syncVars
    <2>3. CASE SendNonce
      BY <2>3 DEF SendNonce, senderVars, counters, keyVars, histVars
    <2>4. ASSUME NEW iv \in nonce, SetDecryptIV(iv) PROVE TypeOK'
      <3>1. rewound' \in BOOLEAN
        BY <2>4 DEF SetDecryptIV
      <3>2. QED
        BY <2>4, <3>1 DEF SetDecryptIV, senderVars, counters, keyVars, histVars
    <2>5. ASSUME NEW iv \in sent, Decrypt(iv) PROVE TypeOK'
      <3>1. uiGood' \in UInts /\ uiLate' \in UInts
        BY <2>5, ModBounds DEF Decrypt, UInts
      <3>2. Lost(iv.lo) \in Int
        <4>1. iv.lo \in Int /\ decrypt_iv.lo \in Int
          BY <2>5 DEF IVs
        <4>2. Diff(iv.lo) \in Int
          <5>1. iv.lo - decrypt_iv.lo \in Int
            BY <4>1
          <5>2. QED
            BY <5>1 DEF Diff
        <4>3. QED
          BY <4>2 DEF Lost
      <3>3. uiLost' \in UInts
        BY <2>5, <3>2, ModBounds DEF Decrypt, UInts
      <3>4. iv.hi % Base \in 0..(Base - 1)
        <4>1. iv.hi \in Int /\ 0 < Base
          BY <2>5 DEF IVs
        <4>2. QED
          BY <4>1, ModBounds
      <3>5. decrypt_history' \in [0..(Base - 1) -> 0..(Base - 1)]
        BY <2>5, <3>4 DEF Decrypt, IVs
      <3>6. decrypt_iv' \in IVs
        BY <2>5 DEF Decrypt, Newest
      <3>7. rewound' \in BOOLEAN
        BY <2>5 DEF Decrypt, syncVars
      <3>8. replays' \in Nat
        BY <2>5 DEF Decrypt
      <3>9. QED
        BY <2>5, <3>1, <3>3, <3>5, <3>6, <3>7, <3>8 DEF Decrypt, senderVars, keyVars, syncVars
    <2>6. ASSUME NEW iv \in sent, Reject(iv) PROVE TypeOK'
      BY <2>6 DEF Reject, vars, senderVars, counters, keyVars, histVars, syncVars
    <2>7. CASE UNCHANGED vars
      BY <2>7 DEF vars, senderVars, counters, keyVars, histVars, syncVars
    <2>8. QED
      BY <2>1, <2>2, <2>3, <2>4, <2>5, <2>6, <2>7 DEF Next
  <1>3. QED
    BY <1>1, <1>2, PTL DEF Spec

(* Accepting iv keeps the history right for every IV accepted before.       *)
LEMMA DecryptKeepsHistory ==
  ASSUME TypeOK, RecentHistory, NoReplay, ~rewound, NEW iv \in sent, Decrypt(iv)
  PROVE  RecentHistory' /\ NoReplay'
  <1>1. /\ iv \in IVs /\ decrypt_iv \in IVs /\ accepted \subseteq IVs
        /\ decrypt_history \in [0..(Base - 1) -> 0..(Base - 1)]
    BY DEF TypeOK
  <1>2. Accepts(iv) /\ accepted' = accepted \cup {iv} /\ decrypt_iv' = Newest(iv)
        /\ decrypt_history' = [decrypt_history EXCEPT ![iv.lo] = iv.hi % Base]
        /\ replays' = replays + IF iv \in accepted THEN 1 ELSE 0
    BY DEF Decrypt
  <1>3. \A a \in accepted : /\ ~Before(decrypt_iv, a)
                            /\ Recent(a) => decrypt_history[a.lo] = a.hi % Base
    BY DEF RecentHistory
  <1>4. \/ /\ Late(iv.lo) /\ Recent(iv) /\ ~Before(decrypt_iv, iv)
           /\ decrypt_history[iv.lo] # iv.hi % Base
        \/ ~Late(iv.lo) /\ Before(decrypt_iv, iv)
    BY <1>1, <1>2, AcceptedIsRecentOrBeyond
  <1>5. iv \notin accepted
    BY <1>3, <1>4
  <1>6. NoReplay'
    BY <1>2, <1>5 DEF NoReplay, TypeOK
  <1>7. ASSUME NEW a \in accepted'
        PROVE  ~Before(decrypt_iv', a)
    <2>1. CASE a \in accepted
      <3>1. /\ a.lo \in Int /\ a.hi \in Int /\ iv.lo \in Int /\ iv.hi \in Int
            /\ decrypt_iv.lo \in Int /\ decrypt_iv.hi \in Int
        <4>1. a \in IVs
          BY <1>1, <2>1
        <4>2. QED
          BY <1>1, <4>1, Fields
      <3>2. ~Before(decrypt_iv, a)
        BY <1>3, <2>1
      <3>3. QED
        BY <1>2, <1>4, <3>1, <3>2 DEF Newest, Before
    <2>2. CASE a = iv
      <3>1. iv.lo \in Int /\ iv.hi \in Int /\ decrypt_iv.lo \in Int /\ decrypt_iv.hi \in Int
        BY <1>1, Fields
      <3>2. QED
        BY <1>2, <1>4, <2>2, <3>1 DEF Newest, Before
    <2>3. QED
      BY <1>2, <1>7, <2>1, <2>2
  <1>8. ASSUME NEW a \in accepted', Recent(a)'
        PROVE  decrypt_history'[a.lo] = a.hi % Base
    <2> /\ a.lo \in 0..(Base - 1) /\ a.hi \in Int /\ iv.lo \in 0..(Base - 1) /\ iv.hi \in Int
        /\ decrypt_iv.lo \in 0..(Base - 1) /\ decrypt_iv.hi \in Int
      <3>1. a \in IVs
        BY <1>1, <1>2
      <3>2. a.lo \in 0..(Base - 1) /\ a.hi \in Int
        BY <3>1, Fields
      <3>3. iv.lo \in 0..(Base - 1) /\ iv.hi \in Int
        BY <1>1, Fields
      <3>4. decrypt_iv.lo \in 0..(Base - 1) /\ decrypt_iv.hi \in Int
        BY <1>1, Fields
      <3>5. QED
        BY <3>2, <3>3, <3>4
    <2> a = iv \/ (a \in accepted /\ ~Before(decrypt_iv, a))
      BY <1>2, <1>3
    <2>1. CASE a.lo = iv.lo
      <3>1. a.hi = iv.hi
        BY <1>2, <1>4, <1>8, <2>1 DEF Newest, Recent, Before
      <3>2. QED
        BY <1>1, <1>2, <2>1, <3>1
    <2>2. CASE a.lo # iv.lo
      <3>1. a \in accepted /\ Recent(a)
        BY <1>2, <1>4, <1>8, <2>2 DEF Newest, Recent, Before
      <3>2. QED
        BY <1>1, <1>2, <1>3, <2>2, <3>1
    <2>3. QED
      BY <2>1, <2>2
  <1>9. QED
    BY <1>6, <1>7, <1>8 DEF RecentHistory

(* IInv is inductive.                                                       *)
THEOREM Inductive == Spec => []IInv
  <1>1. Init => RecentHistory /\ NoReplay
    BY DEF Init, RecentHistory, NoReplay
  <1>2. TypeOK /\ RecentHistory /\ NoReplay /\ [Next]_vars => (RecentHistory /\ NoReplay)'
    <2> SUFFICES ASSUME TypeOK, RecentHistory, NoReplay, [Next]_vars
                 PROVE  RecentHistory' /\ NoReplay'
      OBVIOUS
    <2>1. ASSUME NEW iv \in Nonces, SetKey(iv) PROVE RecentHistory' /\ NoReplay'
      BY <2>1 DEF SetKey, RecentHistory, NoReplay
    <2>2. CASE Encrypt
      BY <2>2 DEF Encrypt, RecentHistory, NoReplay, Recent, Before, counters, keyVars, histVars, syncVars
    <2>3. CASE SendNonce
      BY <2>3 DEF SendNonce, RecentHistory, NoReplay, Recent, Before, senderVars, counters, keyVars, histVars
    <2>4. ASSUME NEW iv \in nonce, SetDecryptIV(iv) PROVE RecentHistory' /\ NoReplay'
      <3>1. CASE rewound'
        BY <3>1 DEF RecentHistory, NoReplay
      <3>2. CASE ~rewound'
        <4>1. /\ ~rewound /\ ~Before(iv, decrypt_iv) /\ decrypt_iv' = iv
              /\ UNCHANGED <<accepted, replays, decrypt_history>>
          BY <2>4, <3>2 DEF SetDecryptIV, histVars
        <4>2. \A a \in accepted \cup {iv, decrypt_iv} : a.lo \in 0..(Base - 1) /\ a.hi \in Nat
          BY DEF TypeOK, IVs
        <4>3. ASSUME NEW a \in accepted
              PROVE  ~Before(iv, a) /\ (Recent(a)' => Recent(a))
          BY <4>1, <4>2 DEF RecentHistory, Recent, Before
        <4>4. QED
          BY <4>1, <4>3 DEF RecentHistory, NoReplay, Before
      <3>3. QED
        BY <3>1, <3>2
    <2>5. ASSUME NEW iv \in sent, Decrypt(iv) PROVE RecentHistory' /\ NoReplay'
      <3>1. CASE rewound
        BY <2>5, <3>1 DEF Decrypt, RecentHistory, NoReplay, syncVars
      <3>2. CASE ~rewound
        BY <2>5, <3>2, DecryptKeepsHistory
      <3>3. QED
        BY <3>1, <3>2
    <2>6. CASE UNCHANGED vars
      BY <2>6 DEF vars, RecentHistory, NoReplay, Recent, Before, senderVars, counters, keyVars, histVars, syncVars
    <2>7. QED
      BY <2>1, <2>2, <2>3, <2>4, <2>5, <2>6 DEF Next, Reject
  <1>3. QED
    BY <1>1, <1>2, TypeCorrect, PTL DEF Spec, IInv

-----------------------------------------------------------------------------
(* Accounting.  Without a resynchronisation all packets of a key lie beyond *)
(* its first IV and none accepted beyond decrypt_iv, so that no more are     *)
(* accepted than decrypt_iv has passed.  P is the number of packets that     *)
(* were accepted under earlier keys.                                         *)

Total == passed + Number(decrypt_iv) - Number(base)

Counts(P) ==
  /\ P \in Nat /\ P <= passed
  /\ uiGood = (P + Cardinality(accepted)) % UIntMod
  /\ uiLost = (Total - P - Cardinality(accepted)) % UIntMod

Counted ==
  syncs = 0 =>
    /\ nonce = {} /\ ~rewound
    /\ Number(base) <= Number(encrypt_iv) /\ Number(base) <= Number(decrypt_iv)
    /\ \A iv \in sent : Number(base) < Number(iv)
    /\ IsFiniteSet(accepted)
    /\ \E P \in Nat : Counts(P)

LEMMA TimesNext == \A h \in Int : (h + 1) * Base = h * Base + Base /\ h * Base \in Int
  OBVIOUS

LEMMA TimesOrder ==
  ASSUME NEW g \in Nat, NEW h \in Nat, g < h
  PROVE  g * Base + Base <= h * Base
  <1> DEFINE d == h - g - 1
  <1>1. d \in Nat /\ h = (g + 1) + d
    OBVIOUS
  <1>2. d * Base \in Nat
    BY <1>1, Z3
  <1> HIDE DEF d
  <1>3. h * Base = (g + 1) * Base + d * Base
    BY <1>1, Z3
  <1>4. QED
    BY <1>2, <1>3, TimesNext

LEMMA NumberType == \A iv \in IVs : Number(iv) \in Nat
  <1> SUFFICES ASSUME NEW iv \in IVs PROVE Number(iv) \in Nat
    OBVIOUS
  <1>1. iv.hi \in Nat /\ iv.lo \in Nat
    BY DEF IVs
  <1>2. iv.hi * Base \in Nat
    BY <1>1, Z3
  <1>3. QED
    BY <1>1, <1>2 DEF Number

(* IVs are ordered as their numbers are, and an IV is given by its number.  *)
LEMMA NumberOrder ==
  ASSUME NEW a \in IVs, NEW b \in IVs
  PROVE  /\ Before(a, b) => Number(a) < Number(b)
         /\ ~Before(b, a) => Number(a) <= Number(b)
         /\ Number(a) = Number(b) => a = b
  <1>1. /\ a.lo \in 0..(Base - 1) /\ a.hi \in Nat /\ b.lo \in 0..(Base - 1) /\ b.hi \in Nat
        /\ (a.lo = b.lo /\ a.hi = b.hi => a = b)
    BY DEF IVs
  <1>2. a.hi * Base \in Int /\ b.hi * Base \in Int
    BY <1>1, TimesNext
  <1>3. CASE a.hi = b.hi
    BY <1>1, <1>2, <1>3 DEF Number, Before
  <1>4. CASE a.hi < b.hi
    <2>1. a.hi * Base + Base <= b.hi * Base
      BY <1>1, <1>4, TimesOrder
    <2>2. Number(a) < Number(b)
      BY <1>1, <1>2, <2>1 DEF Number
    <2>3. QED
      BY <1>1, <1>4, <2>2, NumberType DEF Before
  <1>5. CASE b.hi < a.hi
    <2>1. b.hi * Base + Base <= a.hi * Base
      BY <1>1, <1>5, TimesOrder
    <2>2. Number(b) < Number(a)
      BY <1>1, <1>2, <2>1 DEF Number
    <2>3. QED
      BY <1>1, <1>5, <2>2, NumberType DEF Before
  <1>6. QED
    BY <1>1, <1>3, <1>4, <1>5

LEMMA NumberIncrement == \A iv \in IVs : Number(Increment(iv)) = Number(iv) + 1
  <1> SUFFICES ASSUME NEW iv \in IVs PROVE Number(Increment(iv)) = Number(iv) + 1
    OBVIOUS
  <1>1. iv.lo \in Int /\ iv.hi \in Int /\ iv.hi * Base \in Int
        /\ (iv.hi + 1) * Base = iv.hi * Base + Base
    BY Fields, TimesNext
  <1>2. CASE iv.lo = Base - 1
    BY <1>1, <1>2 DEF Increment, Number
  <1>3. CASE iv.lo # Base - 1
    <2>1. Increment(iv).lo = iv.lo + 1 /\ Increment(iv).hi = iv.hi
      BY <1>3 DEF Increment, IVs
    <2>2. QED
      BY <1>1, <2>1 DEF Number
  <1>4. QED
    BY <1>2, <1>3

(* Of the packets that decrypt_iv passes one is good and Lost are lost; a    *)
(* late one makes up for one that was counted as lost.                      *)
LEMMA NumberNewest ==
  ASSUME TypeOK, NEW iv \in IVs, Accepts(iv)
  PROVE  /\ Lost(iv.lo) \in Int
         /\ Number(Newest(iv)) = Number(decrypt_iv) + Lost(iv.lo) + 1
         /\ Number(decrypt_iv) <= Number(Newest(iv))
  <1>1. /\ iv.lo \in 0..(Base - 1) /\ iv.hi \in Nat
        /\ decrypt_iv.lo \in 0..(Base - 1) /\ decrypt_iv.hi \in Nat
    BY DEF TypeOK, IVs
  <1>2. Rebuilt(iv.lo).hi = iv.hi
    BY DEF Accepts
  <1>3. /\ iv.hi * Base \in Int /\ decrypt_iv.hi * Base \in Int
        /\ (decrypt_iv.hi + 1) * Base = decrypt_iv.hi * Base + Base
    BY <1>1, TimesNext
  <1>4. CASE Late(iv.lo)
    BY <1>1, <1>3, <1>4 DEF Lost, Newest, Number
  <1>5. CASE InOrder(iv.lo)
    <2>1. ~Late(iv.lo) /\ ~Ahead(iv.lo)
      BY <1>5 DEF Late, Ahead
    <2>2. \/ iv.lo = decrypt_iv.lo + 1 /\ iv.hi = decrypt_iv.hi
          \/ iv.lo = 0 /\ decrypt_iv.lo = Base - 1 /\ iv.hi = decrypt_iv.hi + 1
      BY <1>1, <1>2, <1>5, <2>1 DEF InOrder, Rebuilt
    <2>3. Number(iv) = Number(decrypt_iv) + 1
      BY <1>1, <1>3, <2>2 DEF Number
    <2>4. QED
      BY <1>1, <1>3, <2>1, <2>3 DEF Lost, Newest, Number
  <1>6. CASE Ahead(iv.lo) /\ ~Late(iv.lo)
    <2>1. \/ /\ iv.lo > decrypt_iv.lo /\ iv.hi = decrypt_iv.hi
             /\ Diff(iv.lo) = iv.lo - decrypt_iv.lo
          \/ /\ iv.lo < decrypt_iv.lo /\ iv.hi = decrypt_iv.hi + 1
             /\ Diff(iv.lo) = iv.lo - decrypt_iv.lo + Base
      BY <1>1, <1>2, <1>6 DEF Rebuilt, Ahead, Diff
    <2>2. Diff(iv.lo) \in Int /\ Diff(iv.lo) > 0
      BY <1>1, <1>6, <2>1 DEF Ahead
    <2>3. Number(iv) = Number(decrypt_iv) + Diff(iv.lo)
      BY <1>1, <1>3, <2>1 DEF Number
    <2>4. Lost(iv.lo) = Diff(iv.lo) - 1 /\ Newest(iv) = iv
      BY <1>6 DEF Lost, Newest
    <2>5. Number(decrypt_iv) \in Int
      BY NumberType DEF TypeOK
    <2>6. QED
      BY <2>2, <2>3, <2>4, <2>5
  <1>7. QED
    BY <1>4, <1>5, <1>6 DEF Accepts

(* No more packets are accepted than decrypt_iv has passed.                 *)
LEMMA AcceptedFit ==
  ASSUME TypeOK, RecentHistory, Counted, syncs = 0
  PROVE  Cardinality(accepted) \in Nat
         /\ Cardinality(accepted) <= Number(decrypt_iv) - Number(base)
  <1> DEFINE T == (Number(base) + 1)..Number(decrypt_iv)
             f == [iv \in accepted |-> Number(iv)]
  <1>1. accepted \subseteq IVs /\ decrypt_iv \in IVs /\ base \in IVs
    BY DEF TypeOK
  <1>2. Number(base) \in Nat /\ Number(decrypt_iv) \in Nat /\ Number(base) <= Number(decrypt_iv)
    BY <1>1, NumberType DEF Counted
  <1>3. ASSUME NEW iv \in accepted PROVE Number(iv) \in T
    <2>1. iv \in IVs /\ Number(iv) \in Nat /\ Number(base) < Number(iv)
      BY <1>1, NumberType DEF Counted, TypeOK
    <2>2. ~Before(decrypt_iv, iv)
      BY DEF RecentHistory, Counted
    <2>3. QED
      BY <1>1, <1>2, <2>1, <2>2, NumberOrder
  <1>4. f \in [accepted -> T]
    BY <1>3
  <1>5. \A a, b \in accepted : f[a] = f[b] => a = b
    BY <1>1, NumberOrder
  <1>6. f \in Injection(accepted, T)
    BY <1>4, <1>5 DEF Injection, IsInjective
  <1>7. IsFiniteSet(T) /\ Cardinality(T) = Number(decrypt_iv) - Number(base)
    <2>1. Number(base) + 1 \in Int /\ Number(decrypt_iv) \in Int
      BY <1>2
    <2>2. /\ IsFiniteSet(T)
          /\ Cardinality(T) = IF Number(base) + 1 > Number(decrypt_iv) THEN 0
                              ELSE Number(decrypt_iv) - (Number(base) + 1) + 1
      BY <2>1, FS_Interval
    <2>3. QED
      BY <1>2, <2>2
  <1> HIDE DEF T, f
  <1>8. Cardinality(accepted) <= Cardinality(T)
    BY <1>6, <1>7, FS_Injection
  <1>9. Cardinality(accepted) \in Nat
    BY FS_CardinalityType DEF Counted
  <1>10. QED
    BY <1>7, <1>8, <1>9

LEMMA TimesUInt ==
  ASSUME NEW p \in Int, NEW q \in Int
  PROVE  /\ p * UIntMod \in Int /\ (p + q) * UIntMod = p * UIntMod + q * UIntMod
         /\ (p - q) * UIntMod = p * UIntMod - q * UIntMod
         /\ 1 <= p => UIntMod <= p * UIntMod
         /\ p <= -1 => p * UIntMod <= -UIntMod
  BY Z3

LEMMA ModParts ==
  ASSUME NEW a \in Int
  PROVE  \E q \in Int : a = q * UIntMod + (a % UIntMod)
  <1>1. a \div UIntMod \in Int /\ a = (a \div UIntMod) * UIntMod + (a % UIntMod)
    BY Z3
  <1>2. QED
    BY <1>1

LEMMA ModUnique ==
  ASSUME NEW x \in Int, NEW q \in Int, NEW r \in UInts, x = q * UIntMod + r
  PROVE  x % UIntMod = r
  <1>1. PICK p \in Int : x = p * UIntMod + (x % UIntMod)
    BY ModParts
  <1> DEFINE s == x % UIntMod
             d == p - q
             t == d * UIntMod
  <1>2. s \in UInts
    BY ModBounds DEF UInts
  <1>3. d \in Int /\ t = p * UIntMod - q * UIntMod /\ t \in Int
        /\ p * UIntMod \in Int /\ q * UIntMod \in Int
        /\ (1 <= d => UIntMod <= t) /\ (d <= -1 => t <= -UIntMod)
    <2>1. d \in Int
      OBVIOUS
    <2> HIDE DEF d
    <2>2. t \in Int /\ (1 <= d => UIntMod <= t) /\ (d <= -1 => t <= -UIntMod)
      BY <2>1, TimesUInt
    <2>3. (p - q) * UIntMod = p * UIntMod - q * UIntMod
          /\ p * UIntMod \in Int /\ q * UIntMod \in Int
      BY TimesUInt
    <2>4. QED
      BY <2>1, <2>2, <2>3 DEF d
  <1>4. x = p * UIntMod + s
    BY <1>1
  <1> HIDE DEF s, t, d
  <1>5. t = r - s /\ r - s < UIntMod /\ -UIntMod < r - s /\ r \in Int /\ s \in Int
    BY <1>2, <1>3, <1>4 DEF UInts
  <1>6. d = 0
    BY <1>3, <1>5
  <1>7. p = q
    BY <1>6 DEF d
  <1>8. s = r
    BY <1>2, <1>3, <1>4, <1>7 DEF UInts
  <1>9. QED
    BY <1>8 DEF s

LEMMA ModAdd ==
  ASSUME NEW a \in Int, NEW b \in Int
  PROVE  ((a % UIntMod) + b) % UIntMod = (a + b) % UIntMod
  <1>1. a % UIntMod \in UInts /\ (a + b) % UIntMod \in UInts
    BY ModBounds DEF UInts
  <1>2. PICK q \in Int : a = q * UIntMod + (a % UIntMod)
    BY ModParts
  <1>3. PICK p \in Int : a + b = p * UIntMod + ((a + b) % UIntMod)
    <2>1. a + b \in Int
      OBVIOUS
    <2>2. QED
      BY <2>1, ModParts
  <1> DEFINE m == a % UIntMod
             s == (a + b) % UIntMod
  <1>4. m \in Int /\ s \in UInts /\ s \in Int
    BY <1>1 DEF UInts
  <1>5. a = q * UIntMod + m /\ a + b = p * UIntMod + s
    BY <1>2, <1>3
  <1> HIDE DEF m, s
  <1>6. p * UIntMod \in Int /\ q * UIntMod \in Int
        /\ (p - q) * UIntMod = p * UIntMod - q * UIntMod
    BY TimesUInt
  <1>7. m + b = (p - q) * UIntMod + s
    BY <1>4, <1>5, <1>6
  <1>8. (m + b) % UIntMod = s
    <2>1. m + b \in Int /\ p - q \in Int
      BY <1>4
    <2>2. QED
      BY <1>4, <1>7, <2>1, ModUnique
  <1>9. QED
    BY <1>8 DEF m, s

LEMMA ModSmall == \A a \in Nat : a < UIntMod => a % UIntMod = a
  OBVIOUS

(* An accepted packet is new, is good, and takes decrypt_iv past Lost more. *)
LEMMA DecryptCounted ==
  ASSUME TypeOK, RecentHistory, Counted, NEW iv \in sent, Decrypt(iv)
  PROVE  Counted'
  <1> SUFFICES ASSUME syncs' = 0 PROVE Counted'
    BY DEF Counted
  <1>1. /\ UNCHANGED <<encrypt_iv, sent, base, passed, keys, nonce, syncs, rewound>>
        /\ Accepts(iv) /\ decrypt_iv' = Newest(iv) /\ accepted' = accepted \cup {iv}
        /\ uiGood' = (uiGood + 1) % UIntMod /\ uiLost' = (uiLost + Lost(iv.lo)) % UIntMod
    BY DEF Decrypt, senderVars, keyVars, syncVars
  <1>2. /\ iv \in IVs /\ decrypt_iv \in IVs /\ base \in IVs /\ passed \in Int
        /\ Number(decrypt_iv) \in Int /\ Number(base) \in Int
    BY NumberType DEF TypeOK
  <1>3. /\ nonce = {} /\ ~rewound
        /\ Number(base) <= Number(encrypt_iv) /\ Number(base) <= Number(decrypt_iv)
        /\ \A a \in sent : Number(base) < Number(a)
        /\ IsFiniteSet(accepted)
        /\ \E P \in Nat : Counts(P)
    BY <1>1 DEF Counted
  <1>4. /\ Lost(iv.lo) \in Int
        /\ Number(decrypt_iv') = Number(decrypt_iv) + Lost(iv.lo) + 1
        /\ Number(decrypt_iv) <= Number(decrypt_iv')
    BY <1>1, <1>2, NumberNewest
  <1>5. iv \notin accepted
    BY <1>1, <1>2, <1>3, AcceptedIsRecentOrBeyond DEF RecentHistory
  <1>6. /\ IsFiniteSet(accepted') /\ Cardinality(accepted) \in Nat
        /\ Cardinality(accepted') = Cardinality(accepted) + 1
    BY <1>1, <1>3, <1>5, FS_AddElement, FS_CardinalityType
  <1>7. PICK P \in Nat : Counts(P)
    BY <1>3
  <1>8. P <= passed'
    BY <1>1, <1>7 DEF Counts
  <1>9. uiGood' = (P + Cardinality(accepted')) % UIntMod
    <2> DEFINE n == P + Cardinality(accepted)
    <2>1. n \in Int /\ n + 1 = P + Cardinality(accepted')
      BY <1>6
    <2>2. uiGood = n % UIntMod
      BY <1>7 DEF Counts
    <2> HIDE DEF n
    <2>3. ((n % UIntMod) + 1) % UIntMod = (n + 1) % UIntMod
      BY <2>1, ModAdd
    <2>4. QED
      BY <1>1, <2>1, <2>2, <2>3
  <1>10. uiLost' = (Total' - P - Cardinality(accepted')) % UIntMod
    <2> DEFINE n == Total - P - Cardinality(accepted)
    <2>1. n \in Int
      BY <1>2, <1>6 DEF Total
    <2>2. n + Lost(iv.lo) = Total' - P - Cardinality(accepted')
      BY <1>1, <1>2, <1>4, <1>6 DEF Total, Number
    <2>3. uiLost = n % UIntMod
      BY <1>7 DEF Counts
    <2> HIDE DEF n
    <2>4. QED
      BY <1>1, <1>4, <2>1, <2>2, <2>3, ModAdd
  <1>11. Counts(P)'
    BY <1>8, <1>9, <1>10 DEF Counts
  <1>12. /\ Number(base)' <= Number(encrypt_iv)' /\ Number(base)' <= Number(decrypt_iv)'
         /\ (\A a \in sent : Number(base) < Number(a))'
    <2>1. Number(base)' = Number(base) /\ Number(encrypt_iv)' = Number(encrypt_iv)
          /\ Number(decrypt_iv)' = Number(decrypt_iv')
      BY <1>1 DEF Number
    <2>2. Number(base)' <= Number(decrypt_iv)'
      BY <1>2, <1>3, <1>4, <2>1
    <2>3. \A a \in sent' : Number(base)' < Number(a)
      BY <1>1, <1>3, <2>1
    <2>4. QED
      BY <1>3, <2>1, <2>2, <2>3 DEF Number
  <1>13. QED
    BY <1>1, <1>3, <1>6, <1>11, <1>12 DEF Counted

(* The packets of the key that ends become packets of an earlier key.       *)
LEMMA SetKeyCounted ==
  ASSUME TypeOK, RecentHistory, Counted, NEW iv \in Nonces, SetKey(iv)
  PROVE  Counted'
  <1> SUFFICES ASSUME syncs' = 0 PROVE Counted'
    BY DEF Counted
  <1>1. /\ base' = iv /\ encrypt_iv' = iv /\ decrypt_iv' = iv /\ sent' = {} /\ accepted' = {}
        /\ ~rewound' /\ passed' = Total /\ nonce' = {}
        /\ UNCHANGED <<uiGood, uiLost, syncs>>
    BY DEF SetKey, counters, Total
  <1>2. /\ Number(iv) \in Nat /\ Number(base) \in Nat /\ Number(decrypt_iv) \in Nat
        /\ passed \in Int
    BY NumberType DEF TypeOK
  <1>3. /\ Cardinality(accepted) \in Nat
        /\ Cardinality(accepted) <= Number(decrypt_iv) - Number(base)
    BY <1>1, AcceptedFit
  <1>4. PICK P \in Nat : Counts(P)
    BY <1>1 DEF Counted
  <1>5. PICK Q \in Nat : Q = P + Cardinality(accepted) /\ Q <= passed'
    BY <1>1, <1>2, <1>3, <1>4 DEF Counts, Total
  <1>6. Total' = Total /\ Total \in Int
    <2>1. Total' = passed' + Number(decrypt_iv') - Number(base')
      BY DEF Total, Number
    <2>2. QED
      BY <1>1, <1>2, <2>1 DEF Total
  <1>7. Cardinality(accepted') = 0 /\ IsFiniteSet(accepted')
    BY <1>1, FS_EmptySet
  <1>8. uiGood' = (Q + Cardinality(accepted')) % UIntMod
    BY <1>1, <1>4, <1>5, <1>7 DEF Counts
  <1>9. uiLost' = (Total' - Q - Cardinality(accepted')) % UIntMod
    <2>1. Total - P - Cardinality(accepted) = Total' - Q - Cardinality(accepted')
      BY <1>3, <1>5, <1>6, <1>7
    <2>2. QED
      BY <1>1, <1>4, <2>1 DEF Counts
  <1>10. Counts(Q)'
    BY <1>5, <1>8, <1>9 DEF Counts
  <1>11. Number(base)' <= Number(encrypt_iv)' /\ Number(base)' <= Number(decrypt_iv)'
    <2>1. Number(base)' = Number(iv) /\ Number(encrypt_iv)' = Number(iv)
          /\ Number(decrypt_iv)' = Number(iv)
      BY <1>1 DEF Number
    <2>2. QED
      BY <1>2, <2>1
  <1>12. QED
    BY <1>1, <1>5, <1>7, <1>10, <1>11 DEF Counted

LEMMA EncryptCounted ==
  ASSUME TypeOK, Counted, Encrypt
  PROVE  Counted'
  <1> SUFFICES ASSUME syncs' = 0 PROVE Counted'
    BY DEF Counted
  <1>1. /\ encrypt_iv' = Increment(encrypt_iv) /\ sent' = sent \cup {encrypt_iv'}
        /\ UNCHANGED <<decrypt_iv, uiGood, uiLost, base, passed, accepted, nonce, syncs, rewound>>
    BY DEF Encrypt, counters, keyVars, histVars, syncVars
  <1>2. Number(base) \in Nat /\ Number(encrypt_iv) \in Nat
        /\ Number(encrypt_iv') = Number(encrypt_iv) + 1
    BY <1>1, NumberType, NumberIncrement DEF TypeOK
  <1>3. Number(base)' = Number(base) /\ Number(encrypt_iv)' = Number(encrypt_iv')
        /\ Number(decrypt_iv)' = Number(decrypt_iv)
    BY <1>1 DEF Number
  <1>4. Number(base)' <= Number(encrypt_iv)' /\ Number(base)' <= Number(decrypt_iv)'
    BY <1>1, <1>2, <1>3 DEF Counted
  <1>5. \A a \in sent' : Number(base)' < Number(a)
    BY <1>1, <1>2, <1>3 DEF Counted
  <1>6. PICK P \in Nat : Counts(P)
    BY <1>1 DEF Counted
  <1>7. Counts(P)'
    BY <1>1, <1>3, <1>6 DEF Counts, Total
  <1>8. (\A a \in sent : Number(base) < Number(a))'
    BY <1>5 DEF Number
  <1>9. QED
    BY <1>1, <1>4, <1>7, <1>8 DEF Counted

(* Counted holds together with IInv in every state.                         *)
LEMMA CountedAlways == Spec => []Counted
  <1>1. Init => Counted
    <2> SUFFICES ASSUME Init PROVE Counted
      OBVIOUS
    <2>1. /\ base \in IVs /\ encrypt_iv = base /\ decrypt_iv = base /\ nonce = {}
          /\ ~rewound /\ sent = {} /\ accepted = {} /\ passed = 0 /\ uiGood = 0 /\ uiLost = 0
      BY DEF Init
    <2>2. Number(base) \in Nat
      BY <2>1, NumberType
    <2>3. Cardinality(accepted) = 0 /\ IsFiniteSet(accepted)
      BY <2>1, FS_EmptySet
    <2>4. Counts(0)
      BY <2>1, <2>2, <2>3, ModSmall DEF Counts, Total
    <2>5. QED
      BY <2>1, <2>2, <2>3, <2>4 DEF Counted
  <1>2. IInv /\ Counted /\ [Next]_vars => Counted'
    <2> SUFFICES ASSUME TypeOK, RecentHistory, Counted, [Next]_vars
                 PROVE  Counted'
      BY DEF IInv
    <2>1. ASSUME NEW iv \in Nonces, SetKey(iv) PROVE Counted'
      BY <2>1, SetKeyCounted
    <2>2. CASE Encrypt
      BY <2>2, EncryptCounted
    <2>3. CASE SendNonce
      BY <2>3 DEF SendNonce, Counted, TypeOK
    <2>4. ASSUME NEW iv \in nonce, SetDecryptIV(iv) PROVE Counted'
      BY <2>4 DEF SetDecryptIV, Counted
    <2>5. ASSUME NEW iv \in sent, Decrypt(iv) PROVE Counted'
      BY <2>5, DecryptCounted
    <2>6. CASE UNCHANGED vars
      BY <2>6 DEF vars, Counted, Counts, Total, Number, senderVars, counters, keyVars, histVars, syncVars
    <2>7. QED
      BY <2>1, <2>2, <2>3, <2>4, <2>5, <2>6 DEF Next, Reject
  <1>3. QED
    BY <1>1, <1>2, Inductive, PTL DEF Spec

(* Good and lost packets add up to what decrypt_iv has passed, whatever     *)
(* order packets arrive in and however many keys the connection has had, up *)
(* to the width of the counters (uiGood, uiLost, CryptState.cpp:179-184).   *)
THEOREM AccountingAlways == Spec => []Accounting
  <1>1. IInv /\ Counted => Accounting
    <2> SUFFICES ASSUME TypeOK, RecentHistory, Counted, syncs = 0, Total < UIntMod
                 PROVE  uiGood + uiLost = Total
      BY DEF IInv, Accounting, Total
    <2>1. PICK P \in Nat : Counts(P)
      BY DEF Counted
    <2>2. /\ Cardinality(accepted) \in Nat
          /\ Cardinality(accepted) <= Number(decrypt_iv) - Number(base)
      BY AcceptedFit
    <2>3. Number(decrypt_iv) \in Int /\ Number(base) \in Int /\ passed \in Int
      BY NumberType DEF TypeOK
    <2> DEFINE good == P + Cardinality(accepted)
               lost == Total - good
    <2>4. good \in Nat /\ lost \in Nat /\ good < UIntMod /\ lost < UIntMod
      BY <2>1, <2>2, <2>3 DEF Counts, Total
    <2>5. uiGood = good % UIntMod
      BY <2>1 DEF Counts
    <2>6. uiLost = lost % UIntMod
      <3>1. Total - P - Cardinality(accepted) = lost
        BY <2>2, <2>3 DEF Total
      <3>2. QED
        BY <2>1, <3>1 DEF Counts
    <2>7. Total \in Int
      BY <2>3 DEF Total
    <2>8. uiGood = good /\ uiLost = Total - good
      <3> HIDE DEF good
      <3>1. uiGood = good
        BY <2>4, <2>5, ModSmall
      <3> HIDE DEF lost
      <3>2. uiLost = lost
        BY <2>4, <2>6, ModSmall
      <3>3. QED
        BY <3>1, <3>2 DEF lost
    <2>9. QED
      BY <2>4, <2>7, <2>8
  <1>2. QED
    BY <1>1, CountedAlways, Inductive, PTL

(* No packet is accepted twice under a key, for every byte size, window and *)
(* number of packets (decrypt, CryptState.cpp:102-193).                     *)
THEOREM NeverReplayed == Spec => []NoReplay
  BY Inductive, PTL DEF IInv

(* What decrypt_history holds for the packets decrypt would look up.        *)
THEOREM HistoryHolds == Spec => []RecentHistory
  BY Inductive, PTL DEF IInv

=============================================================================
