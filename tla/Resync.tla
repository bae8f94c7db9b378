------------------------------- MODULE Resync -------------------------------
(***************************************************************************)
(* A resynchronisation from the client's side: the handler of CryptSetup     *)
(* (client.cc:135-148).  A peer that has missed too many packets asks for    *)
(* the client's nonce with a CryptSetup that has no server_nonce.  The       *)
(* answer goes through a const char*: a C string that begins at encrypt_iv   *)
(* and ends at the first zero byte from there on.                            *)
(*                                                                           *)
(* The peer is outside the repository: it hears a packet whose nonce is at   *)
(* most Half ahead of its own, as CryptState's decrypt does, and takes a     *)
(* client_nonce for its own if it has the length of one.  It changes the key *)
(* only when no question is open.  Late and repeated packets, which leave    *)
(* its nonce alone, are in module CryptState.                                *)
(***************************************************************************)
EXTENDS Integers, SequencesExt

CONSTANTS
  Base,            (* values of a byte, 256                                 *)
  AES_BLOCK_SIZE,  (* bytes of a nonce, 16                                  *)
  Half             (* packets ahead that are heard, 128                     *)

Byte == 0..(Base - 1)
IV == [1..AES_BLOCK_SIZE -> Byte]

ASSUME NonceAssumption ==
  /\ Base \in Nat \ {0, 1} /\ AES_BLOCK_SIZE \in Nat \ {0} /\ Half \in 1..(Base - 1)

VARIABLES
  encrypt_iv, decrypt_iv,
  peer_iv,   (* the nonce up to which the peer has heard the client         *)
  asked,     (* a question is on its way to the client                      *)
  answer,    (* the client_nonce on its way to the peer, one at most        *)
  shown,     (* history: [enc, dec], both IVs when it was read              *)
  missed,    (* history: packets after peer_iv, Half if more                *)
  overtaken  (* history: packets after the answer, Half if more             *)

resyncVars == <<encrypt_iv, decrypt_iv, peer_iv, asked, answer, shown, missed, overtaken>>

----------------------------------------------------------------------------
(* ++iv over all its bytes, the first one the lowest. *)
Carries(iv, k) == \A i \in 1..(k - 1) : iv[i] = Base - 1
Increment(iv) ==
  [k \in 1..AES_BLOCK_SIZE |-> IF Carries(iv, k) THEN (iv[k] + 1) % Base ELSE iv[k]]

Forward(iv, n) ==
  LET after[k \in 0..n] == IF k = 0 THEN iv ELSE Increment(after[k - 1]) IN after[n]
Hears(iv) == \E n \in 1..Half : iv = Forward(peer_iv, n)

(* getEncryptIV points into the object, where decrypt_iv follows.  What      *)
(* follows that only makes a string longer that is too long already.         *)
DecryptFirst == decrypt_iv \o encrypt_iv
Memory == encrypt_iv \o decrypt_iv

WithTerminator(m) == IF Contains(m, 0) THEN SubSeq(m, 1, SelectInSeq(m, LAMBDA b : b = 0)) ELSE m
CString(m) == IF Contains(m, 0) THEN SubSeq(m, 1, SelectInSeq(m, LAMBDA b : b = 0) - 1) ELSE m

Counted(n) == IF n < Half THEN n + 1 ELSE Half

(* The first key has been set. *)
ResyncInit ==
  /\ encrypt_iv \in IV /\ peer_iv = encrypt_iv /\ decrypt_iv \in IV
  /\ asked = FALSE /\ answer = <<>>
  /\ shown = [enc |-> encrypt_iv, dec |-> decrypt_iv]
  /\ missed = 0 /\ overtaken = 0

(* The handler's three branches: a key with both nonces, *)
SetKey(client_nonce, server_nonce) ==
  /\ ~asked /\ answer = <<>>
  /\ encrypt_iv' = client_nonce /\ decrypt_iv' = server_nonce
  /\ peer_iv' = client_nonce /\ missed' = 0
  /\ UNCHANGED <<asked, answer, shown, overtaken>>

(* a server_nonce otherwise, *)
SetDecryptIV(server_nonce) ==
  /\ decrypt_iv' = server_nonce
  /\ UNCHANGED <<encrypt_iv, peer_iv, asked, answer, shown, missed, overtaken>>

(* or neither. *)
Answer ==
  /\ asked /\ asked' = FALSE
  /\ answer' = <<CString(Memory)>>
  /\ shown' = [enc |-> encrypt_iv, dec |-> decrypt_iv] /\ overtaken' = 0
  /\ UNCHANGED <<encrypt_iv, decrypt_iv, peer_iv, missed>>

Encrypt(arrives) ==
  /\ encrypt_iv' = Increment(encrypt_iv)
  /\ overtaken' = Counted(overtaken)
  /\ IF arrives /\ Hears(encrypt_iv')
     THEN peer_iv' = encrypt_iv' /\ missed' = 0
     ELSE peer_iv' = peer_iv /\ missed' = Counted(missed)
  /\ UNCHANGED <<decrypt_iv, asked, answer, shown>>

(* The peer. *)
Ask ==
  /\ ~asked /\ answer = <<>> /\ asked' = TRUE
  /\ UNCHANGED <<encrypt_iv, decrypt_iv, peer_iv, answer, shown, missed, overtaken>>

Take ==
  /\ answer # <<>> /\ answer' = <<>>
  /\ IF Len(answer[1]) = AES_BLOCK_SIZE
     THEN peer_iv' = answer[1] /\ missed' = overtaken
     ELSE UNCHANGED <<peer_iv, missed>>
  /\ UNCHANGED <<encrypt_iv, decrypt_iv, asked, shown, overtaken>>

ResyncNext ==
  \/ \E c, s \in IV : SetKey(c, s)
  \/ \E s \in IV : SetDecryptIV(s)
  \/ Answer \/ Ask \/ Take
  \/ \E arrives \in BOOLEAN : Encrypt(arrives)

ResyncSpec == ResyncInit /\ [][ResyncNext]_resyncVars

----------------------------------------------------------------------------
(* A peer that has missed fewer than Half packets hears the next one, also   *)
(* after it took an answer: a client_nonce cut short, run on into            *)
(* decrypt_iv or overtaken by packets never puts the two further apart.      *)
HeardAgain == missed < Half => Hears(Increment(encrypt_iv))

(* When a question helps: encrypt_iv has no zero byte and decrypt_iv begins  *)
(* with one.  No other answer has the length of a nonce.                     *)
AnswerHelps ==
  answer # <<>> =>
    (Len(answer[1]) = AES_BLOCK_SIZE
       <=> ~Contains(shown.enc, 0) /\ shown.dec[1] = 0)
=============================================================================
