------------------------------ MODULE Playback ------------------------------
(***************************************************************************)
(* The playback threads of the sample application (main.cc) beside the      *)
(* thread of the event loop, which handles text messages, CryptSetup and     *)
(* Disconnect.  They share playback, the client's UDP socket and encrypt_iv, *)
(* without a lock: an action is one access to a shared variable.  While the  *)
(* loop is within a callback, the threads run on.  What the                  *)
(* packets contain is in module VoicePacket, and what setKey does to the     *)
(* receiving side in CryptState.                                             *)
(*                                                                           *)
(* encrypt_iv is incremented in place digit by digit, digit 1 first; reading *)
(* it whole (the first AES call of ocb_encrypt) and the memcpy of setKey are *)
(* one step each.                                                            *)
(***************************************************************************)
EXTENDS Naturals

CONSTANTS
  Threads,   (* threads that may be started in a behaviour                  *)
  MaxLen,    (* packets in a file or song                                   *)
  Base,      (* values of a byte, 256                                       *)
  Digits,    (* bytes of an IV, 16                                          *)
  MaxKey     (* keys the server sets                                        *)

ASSUME ConstantsAssumption ==
  MaxLen \in Nat /\ Base \in Nat \ {0} /\ Digits \in Nat \ {0} /\ MaxKey \in Nat

VARIABLES
  playback,    (* the global flag                                           *)
  pc,          (* where each thread is                                      *)
  left,        (* packets each thread has still to send                     *)
  reg,         (* digit and value each thread is incrementing               *)
  packet,      (* what each thread has encrypted and not sent               *)
  encrypt_iv,
  key,         (* number of the key in the key schedule                     *)
  loop,        (* the event loop: "idle", "start" or "comment" within       *)
               (* TextMessageCallback, "setKey" within setKey               *)
  link,        (* "up", "off" after Disconnect, "deleted", "exited"         *)
  fault,       (* how the process died, "none" while it lives               *)
  sent,        (* history: the packets sent, without what they carry        *)
  reused,      (* history: one had the nonce and key of an earlier one      *)
  overlapped,  (* history: threads that were alive together with another    *)
  stopped,     (* history: threads that were alive at a "stop"              *)
  abandoned,   (* history: a thread was alive at a "quit"                   *)
  raced        (* history: setKey and encrypt ran at the same time          *)

threadVars == <<pc, left, reg, packet>>
history == <<sent, reused, overlapped, stopped, abandoned, raced>>
vars == <<playback, threadVars, encrypt_iv, key, loop, link, fault, history>>

IV == [1..Digits -> 0..(Base - 1)]
Idle == [digit |-> 1, value |-> 0]
NoPacket == [key |-> 0, iv |-> [i \in 1..Digits |-> 0], shown |-> 0]
Live == {t \in Threads : pc[t] \notin {"none", "ended"}}
InEncrypt == {t \in Threads : pc[t] \in {"load", "store", "cipher", "label"}}
Running == fault = "none" /\ link # "exited"

Init ==
  /\ playback = FALSE
  /\ pc = [t \in Threads |-> "none"] /\ left = [t \in Threads |-> 0]
  /\ reg = [t \in Threads |-> Idle] /\ packet = [t \in Threads |-> NoPacket]
  /\ encrypt_iv \in IV /\ key = 1
  /\ loop = "idle" /\ link = "up" /\ fault = "none" /\ sent = {} /\ reused = FALSE
  /\ overlapped = {} /\ stopped = {} /\ abandoned = FALSE /\ raced = FALSE

----------------------------------------------------------------------------
(* TextMessageCallback.  Behind a "quit" the loop may still hand it messages *)
(* already received.                                                         *)
Message == Running /\ loop = "idle" /\ link \in {"up", "off"}

(* "play": the flag, then the thread, which is "asked" for in between.  That  *)
(* the flag is tested in the same step makes no difference: threads only     *)
(* reset it.                                                                 *)
FlagNotYet == playback
FlagForThread == TRUE
Play(t, n) ==
  /\ Message /\ ~playback /\ pc[t] = "none"
  /\ playback' = FlagForThread
  /\ loop' = "start"
  /\ pc' = [pc EXCEPT ![t] = "asked"]
  /\ left' = [left EXCEPT ![t] = n]
  /\ overlapped' = IF Live = {} THEN overlapped ELSE overlapped \cup Live \cup {t}
  /\ UNCHANGED <<reg, packet, encrypt_iv, key, link, fault, sent, reused, stopped, abandoned,
                 raced>>
Start(t) ==
  /\ Running /\ loop = "start" /\ pc[t] = "asked"
  /\ pc' = [pc EXCEPT ![t] = "check"]
  /\ loop' = "comment"
  /\ UNCHANGED <<playback, left, reg, packet, encrypt_iv, key, link, fault, history>>

Stop ==
  /\ Message
  /\ playback' = FALSE
  /\ stopped' = stopped \cup Live
  /\ loop' = "comment"
  /\ UNCHANGED <<threadVars, encrypt_iv, key, link, fault, sent, reused, overlapped, abandoned,
                 raced>>

(* Any other text, or a "play" when one is played. *)
Text ==
  /\ Message
  /\ loop' = "comment"
  /\ UNCHANGED <<playback, threadVars, encrypt_iv, key, link, fault, history>>

(* SetComment, at the end of the callback of each but "quit".                 *)
NoAssertion == FALSE
CommentAsserts == link # "up"
Comment ==
  /\ Running /\ loop = "comment"
  /\ loop' = "idle"
  /\ fault' = IF CommentAsserts THEN "comment" ELSE "none"
  /\ UNCHANGED <<playback, threadVars, encrypt_iv, key, link, history>>

(* "quit" calls Disconnect, which deletes the UDP socket; when it has been   *)
(* called before, it dereferences null.                                      *)
Quit ==
  /\ Message
  /\ link' = "off"
  /\ fault' = IF link = "off" THEN "disconnected" ELSE "none"
  /\ abandoned' = (abandoned \/ Live # {})
  /\ UNCHANGED <<playback, threadVars, encrypt_iv, key, loop, sent, reused, overlapped, stopped, raced>>

(* After a Disconnect Run returns and main deletes the client and ends.      *)
DeleteClient ==
  /\ Running /\ link = "off" /\ loop = "idle" /\ link' = "deleted"
  /\ UNCHANGED <<playback, threadVars, encrypt_iv, key, loop, fault, sent, history>>
Exit ==
  /\ Running /\ link = "deleted" /\ link' = "exited"
  /\ UNCHANGED <<playback, threadVars, encrypt_iv, key, loop, fault, sent, history>>

(* CryptState::setKey in the event loop: the IVs, then the key schedule.     *)
SetIV(iv) ==
  /\ Running /\ loop = "idle" /\ link = "up" /\ key < MaxKey
  /\ loop' = "setKey"
  /\ encrypt_iv' = iv
  /\ raced' = (raced \/ InEncrypt # {})
  /\ UNCHANGED <<playback, threadVars, key, link, fault, sent, reused, overlapped, stopped,
                 abandoned>>
SetSchedule ==
  /\ Running /\ loop = "setKey"
  /\ loop' = "idle"
  /\ key' = key + 1
  /\ raced' = (raced \/ InEncrypt # {})
  /\ UNCHANGED <<playback, threadVars, encrypt_iv, link, fault, sent, reused, overlapped, stopped,
                 abandoned>>

----------------------------------------------------------------------------
(* playbackFunction and playMp3. *)
At(t, label) == Running /\ pc[t] = label
Go(t, label) == pc' = [pc EXCEPT ![t] = label]

(* The condition of the loop, and what goes before the encryption. *)
Check(t) ==
  /\ At(t, "check")
  /\ LET again == playback /\ left[t] > 0
     IN /\ Go(t, IF again THEN "load" ELSE "finish")
        /\ raced' = (raced \/ (again /\ loop = "setKey"))
  /\ UNCHANGED <<playback, left, reg, packet, encrypt_iv, key, loop, link, fault, sent, reused,
                 overlapped, stopped, abandoned>>

(* ++encrypt_iv[i], and the next digit if that gives 0.  Once the client is  *)
(* deleted, so is its CryptState.                                            *)
Load(t) ==
  /\ At(t, "load")
  /\ IF link = "deleted"
       THEN fault' = "client" /\ UNCHANGED <<pc, reg>>
       ELSE /\ Go(t, "store")
            /\ reg' = [reg EXCEPT ![t].value = encrypt_iv[reg[t].digit]]
            /\ UNCHANGED fault
  /\ UNCHANGED <<playback, left, packet, encrypt_iv, key, loop, link, history>>

Successor(v) == (v + 1) % Base
NoCarry(v, i) == FALSE
Carries(v, i) == v = 0 /\ i < Digits
Store(t) ==
  /\ At(t, "store")
  /\ LET i == reg[t].digit
         v == Successor(reg[t].value)
     IN /\ encrypt_iv' = [encrypt_iv EXCEPT ![i] = v]
        /\ IF Carries(v, i)
             THEN Go(t, "load") /\ reg' = [reg EXCEPT ![t].digit = i + 1]
             ELSE Go(t, "cipher") /\ reg' = [reg EXCEPT ![t] = Idle]
  /\ UNCHANGED <<playback, left, packet, key, loop, link, fault, history>>

(* ocb_encrypt with encrypt_iv and the key schedule, then dst[0].            *)
Cipher(t) ==
  /\ At(t, "cipher") /\ Go(t, "label")
  /\ packet' = [packet EXCEPT ![t] = [key |-> key, iv |-> encrypt_iv, shown |-> 0]]
  /\ UNCHANGED <<playback, left, reg, encrypt_iv, key, loop, link, fault, history>>

ShownDigit == encrypt_iv[1]
Label(t) ==
  /\ At(t, "label") /\ Go(t, "send")
  /\ packet' = [packet EXCEPT ![t].shown = ShownDigit]
  /\ UNCHANGED <<playback, left, reg, encrypt_iv, key, loop, link, fault, history>>

SameNonce(p, q) == p.key = q.key /\ p.iv = q.iv

(* The file is read on, or the list of frames shortened. *)
Advanced(n) == n - 1

(* udp_socket_->send, which throws if the network refuses; then the pause.   *)
Send(t) ==
  /\ At(t, "send")
  /\ \/ /\ link = "up"
        /\ sent' = sent \cup {packet[t]}
        /\ reused' = (reused \/ \E p \in sent : SameNonce(p, packet[t]))
        /\ UNCHANGED fault
     \/ link = "up" /\ fault' = "network" /\ UNCHANGED <<sent, reused>>
     \/ link # "up" /\ fault' = "socket" /\ UNCHANGED <<sent, reused>>
  /\ Go(t, "check")
  /\ left' = [left EXCEPT ![t] = Advanced(@)]
  /\ packet' = [packet EXCEPT ![t] = NoPacket]
  /\ UNCHANGED <<playback, reg, encrypt_iv, key, loop, link, overlapped, stopped, abandoned,
                 raced>>

FlagKept == playback
FlagAtEnd == FALSE
Finish(t) ==
  /\ At(t, "finish") /\ Go(t, "ended")
  /\ playback' = FlagAtEnd
  /\ UNCHANGED <<left, reg, packet, encrypt_iv, key, loop, link, fault, history>>

Step(t) ==
  Check(t) \/ Load(t) \/ Store(t) \/ Cipher(t) \/ Label(t) \/ Send(t) \/ Finish(t)

Next ==
  \/ \E t \in Threads, n \in 0..MaxLen : Play(t, n)
  \/ \E t \in Threads : Start(t)
  \/ Stop \/ Text \/ Comment \/ Quit \/ DeleteClient \/ Exit
  \/ \E iv \in IV : SetIV(iv)
  \/ SetSchedule
  \/ \E t \in Threads : Step(t)

Spec == Init /\ [][Next]_vars

----------------------------------------------------------------------------
Labels ==
  {"none", "asked", "check", "load", "store", "cipher", "label", "send", "finish", "ended"}

TypeOK ==
  /\ playback \in BOOLEAN
  /\ pc \in [Threads -> Labels]
  /\ left \in [Threads -> 0..MaxLen]
  /\ reg \in [Threads -> [digit : 1..Digits, value : 0..(Base - 1)]]
  /\ packet \in [Threads -> [key : Nat, iv : IV, shown : 0..(Base - 1)]]
  /\ encrypt_iv \in IV /\ key \in Nat
  /\ loop \in {"idle", "start", "comment", "setKey"}
  /\ link \in {"up", "off", "deleted", "exited"}
  /\ fault \in {"none", "comment", "disconnected", "client", "network", "socket"}
  /\ sent \subseteq [key : Nat, iv : IV, shown : 0..(Base - 1)] /\ reused \in BOOLEAN
  /\ overlapped \subseteq Threads /\ stopped \subseteq Threads
  /\ abandoned \in BOOLEAN /\ raced \in BOOLEAN

(* While the flag is set some thread will still come to reset it.  Without   *)
(* that thread every later "play" would be ignored.                          *)
FlagHasThread == playback => Live # {}

(* A playback breaks off before its end only at a "stop", or because it ran  *)
(* together with another one: the thread that ends first resets the flag of  *)
(* both.                                                                     *)
BreaksOffForAReason ==
  \A t \in Threads : pc[t] \in {"finish", "ended"} /\ left[t] > 0 => t \in stopped \cup overlapped

(* The client is pulled away from under a playback only by a "quit" that     *)
(* came while one was running; or else it is one that a "play" started after *)
(* the "quit", and it finds the socket gone before the assertion of          *)
(* SetComment ends the process.  So stop, wait and quit is safe, if nothing  *)
(* is played after it.                                                       *)
CrashOnlyAbandoned ==
  fault \in {"socket", "client"} => abandoned \/ (fault = "socket" /\ loop = "comment")

(* One playback at a time, and no new key while it encrypts: a nonce comes   *)
(* again under its key only when that key has no nonce left, and the byte in *)
(* front of a packet is the first of its nonce, without which no receiver    *)
(* finds it.                                                                 *)
NoncesUnder(k) == {p.iv : p \in {q \in sent : q.key = k}}
NonceOnce ==
  overlapped = {} /\ ~raced =>
    /\ reused => \E k \in 1..key : NoncesUnder(k) = IV
    /\ \A p \in sent : p.shown = p.iv[1]

----------------------------------------------------------------------------
(* CryptState.cpp:91: "First, increase our IV."  So no packet has the IV of  *)
(* an earlier one.                                                           *)
NonceAlwaysOnce == ~raced => ~reused
=============================================================================
