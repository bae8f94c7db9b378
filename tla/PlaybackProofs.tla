--------------------------- MODULE PlaybackProofs ---------------------------
(***************************************************************************)
(* Proofs about module Playback, for any number of threads and packets, any *)
(* byte size, IV length and number of keys.                                  *)
(***************************************************************************)
EXTENDS Playback, FiniteSetTheorems, TLAPS

Busy == {"load", "store", "cipher", "label", "send"}

(* A thread in the body of its loop has a packet to send. *)
HasPacket == \A t \in Threads : pc[t] \in Busy => left[t] > 0

(* Two threads alive at one time are both marked. *)
BothMarked ==
  \A t, u \in Threads : t # u /\ t \in Live /\ u \in Live => t \in overlapped

(* With the flag down every thread has its reason to end. *)
HasReason ==
  \A t \in Threads :
    t \in Live /\ (~playback \/ (pc[t] = "finish" /\ left[t] > 0)) => t \in stopped \cup overlapped

(* While the process lives, a thread outlives the connection only if the     *)
(* "quit" found it alive, or within the callback of the "play" that started  *)
(* it, as SetComment asserts at its end.  The client is deleted outside the  *)
(* callbacks.                                                                *)
OnlyAbandoned ==
  link # "up" /\ fault = "none" /\ ~abandoned =>
    \A t \in Live : loop = "comment" \/ (loop = "start" /\ pc[t] = "asked")
DeletedOutside == link \in {"deleted", "exited"} => loop = "idle"

IInv ==
  /\ TypeOK /\ FlagHasThread /\ HasPacket
  /\ BothMarked /\ HasReason /\ BreaksOffForAReason
  /\ OnlyAbandoned /\ DeletedOutside /\ CrashOnlyAbandoned

USE ConstantsAssumption

----------------------------------------------------------------------------
(* Incrementing a digit keeps it a digit. *)
LEMMA SuccessorDigit ==
  ASSUME NEW v \in 0..(Base - 1)
  PROVE  Successor(v) \in 0..(Base - 1)
  BY DEF Successor

LEMMA ZeroDigit == 0 \in 0..(Base - 1)
  OBVIOUS

LEMMA IdleTyped == Idle \in [digit : 1..Digits, value : 0..(Base - 1)]
  BY ZeroDigit DEF Idle

LEMMA NoPacketTyped == NoPacket \in [key : Nat, iv : IV, shown : 0..(Base - 1)]
  BY ZeroDigit DEF NoPacket, IV

LEMMA InitInv == Init => IInv
<1> SUFFICES ASSUME Init PROVE IInv
  OBVIOUS
<1>1. TypeOK
  <2>1. reg \in [Threads -> [digit : 1..Digits, value : 0..(Base - 1)]]
    BY IdleTyped DEF Init
  <2>2. packet \in [Threads -> [key : Nat, iv : IV, shown : 0..(Base - 1)]]
    BY NoPacketTyped DEF Init
  <2>3. pc \in [Threads -> Labels] /\ left \in [Threads -> 0..MaxLen]
    BY DEF Init, Labels
  <2>4. playback \in BOOLEAN /\ abandoned \in BOOLEAN /\ raced \in BOOLEAN /\ reused \in BOOLEAN
    BY Zenon DEF Init
  <2>5. encrypt_iv \in IV /\ key \in Nat
    BY DEF Init
  <2> QED  BY <2>1, <2>2, <2>3, <2>4, <2>5 DEF Init, TypeOK
<1>2. Live = {}
  BY DEF Init, Live
<1> QED
  BY <1>1, <1>2 DEF Init, IInv, FlagHasThread, HasPacket, Busy, BothMarked, HasReason,
    BreaksOffForAReason, OnlyAbandoned, DeletedOutside, CrashOnlyAbandoned

----------------------------------------------------------------------------
(* Each action keeps the types. *)
LEMMA TypeInv == TypeOK /\ HasPacket /\ [Next]_vars => TypeOK'
<1> SUFFICES ASSUME TypeOK, HasPacket, [Next]_vars PROVE TypeOK'
  OBVIOUS
<1> DEFINE Reg == [digit : 1..Digits, value : 0..(Base - 1)]
           Pkt == [key : Nat, iv : IV, shown : 0..(Base - 1)]
<1>go. ASSUME NEW t \in Threads, NEW l \in Labels, Go(t, l)
       PROVE  pc' \in [Threads -> Labels]
  BY <1>go DEF Go, TypeOK
<1>1. ASSUME NEW t \in Threads, NEW n \in 0..MaxLen, Play(t, n) PROVE TypeOK'
  <2>1. pc' \in [Threads -> Labels] /\ left' \in [Threads -> 0..MaxLen]
    BY <1>1 DEF Play, TypeOK, Labels
  <2>2. playback' \in BOOLEAN
    BY <1>1, Zenon DEF Play, FlagForThread
  <2>3. overlapped' \subseteq Threads
    BY <1>1 DEF Play, TypeOK, Live
  <2>4. /\ loop' = "start"
        /\ UNCHANGED <<reg, packet, encrypt_iv, key, link, fault, sent, reused, stopped, abandoned,
                       raced>>
    BY <1>1 DEF Play
  <2> QED  BY <2>1, <2>2, <2>3, <2>4 DEF TypeOK
<1>2. CASE Stop
  <2>1. stopped' \subseteq Threads
    BY <1>2 DEF Stop, TypeOK, Live
  <2>2. playback' \in BOOLEAN
    BY <1>2, Zenon DEF Stop
  <2> QED  BY <1>2, <2>1, <2>2 DEF Stop, TypeOK, threadVars
<1>3. CASE Quit
  <2>1. abandoned' \in BOOLEAN
    BY <1>3, Zenon DEF Quit
  <2>2. fault' \in {"none", "disconnected"} /\ link' = "off"
    BY <1>3 DEF Quit
  <2> QED  BY <1>3, <2>1, <2>2 DEF Quit, TypeOK, threadVars
<1>4. CASE DeleteClient \/ Exit
  BY <1>4 DEF DeleteClient, Exit, TypeOK, threadVars, history
<1>5. ASSUME NEW iv \in IV, SetIV(iv) PROVE TypeOK'
  <2>1. raced' \in BOOLEAN
    BY <1>5, Zenon DEF SetIV
  <2> QED  BY <1>5, <2>1 DEF SetIV, TypeOK, threadVars
<1>6. CASE SetSchedule
  <2>1. raced' \in BOOLEAN
    BY <1>6, Zenon DEF SetSchedule
  <2> QED  BY <1>6, <2>1 DEF SetSchedule, TypeOK, threadVars
<1>7. ASSUME NEW t \in Threads, Check(t) PROVE TypeOK'
  <2>1. raced' \in BOOLEAN
    BY <1>7, Zenon DEF Check
  <2>2. pc' \in [Threads -> Labels]
    BY <1>7, <1>go DEF Check, Labels
  <2> QED  BY <1>7, <2>1, <2>2 DEF Check, TypeOK
<1>8. ASSUME NEW t \in Threads, Load(t) PROVE TypeOK'
  <2>1. pc' \in [Threads -> Labels] /\ fault' \in {fault, "client"}
    BY <1>8, <1>go DEF Load, Labels, TypeOK
  <2>2. encrypt_iv[reg[t].digit] \in 0..(Base - 1)
    BY DEF TypeOK, IV
  <2>3. reg' \in [Threads -> Reg]
    BY <1>8, <2>2 DEF Load, TypeOK
  <2> QED  BY <1>8, <2>1, <2>3 DEF Load, TypeOK, history
<1>9. ASSUME NEW t \in Threads, Store(t) PROVE TypeOK'
  <2> DEFINE v == Successor(reg[t].value)
  <2>1. v \in 0..(Base - 1) /\ reg[t].digit \in 1..Digits
    BY SuccessorDigit DEF TypeOK
  <2>2. encrypt_iv' \in IV
    <3> HIDE DEF v
    <3> QED  BY <1>9, <2>1 DEF Store, TypeOK, IV, v
  <2>3. pc' \in [Threads -> Labels]
    BY <1>9, <1>go DEF Store, Labels
  <2>4. CASE Carries(v, reg[t].digit)
    <3>1. reg[t].digit + 1 \in 1..Digits
      BY <2>1, <2>4 DEF Carries
    <3>2. reg' = [reg EXCEPT ![t].digit = reg[t].digit + 1]
      BY <1>9, <2>4 DEF Store
    <3>3. reg' \in [Threads -> Reg]
      BY <3>1, <3>2 DEF TypeOK
    <3> QED  BY <1>9, <2>2, <2>3, <3>3 DEF Store, TypeOK, history
  <2>5. CASE ~Carries(v, reg[t].digit)
    <3>1. reg' = [reg EXCEPT ![t] = Idle]
      BY <1>9, <2>5 DEF Store
    <3>2. reg' \in [Threads -> Reg]
      BY <3>1, IdleTyped DEF TypeOK
    <3> QED  BY <1>9, <2>2, <2>3, <3>2 DEF Store, TypeOK, history
  <2> QED  BY <2>4, <2>5
<1>10. ASSUME NEW t \in Threads, Cipher(t) PROVE TypeOK'
  <2>1. [key |-> key, iv |-> encrypt_iv, shown |-> 0] \in Pkt
    BY ZeroDigit DEF TypeOK
  <2>2. packet' \in [Threads -> Pkt]
    BY <1>10, <2>1 DEF Cipher, TypeOK
  <2>3. pc' \in [Threads -> Labels]
    BY <1>10, <1>go DEF Cipher, Labels
  <2> QED  BY <1>10, <2>2, <2>3 DEF Cipher, TypeOK, history
<1>11. ASSUME NEW t \in Threads, Label(t) PROVE TypeOK'
  <2>1. ShownDigit \in 0..(Base - 1)
    BY DEF TypeOK, IV, ShownDigit
  <2>2. packet' \in [Threads -> Pkt]
    <3>1. packet' = [packet EXCEPT ![t] = [packet[t] EXCEPT !.shown = ShownDigit]]
      BY <1>11 DEF Label
    <3>2. ASSUME NEW p \in Pkt, NEW d \in 0..(Base - 1)
          PROVE  [p EXCEPT !.shown = d] \in Pkt
      OBVIOUS
    <3>3. [packet[t] EXCEPT !.shown = ShownDigit] \in Pkt
      BY <2>1, <3>2 DEF TypeOK
    <3> QED  BY <3>1, <3>3 DEF TypeOK
  <2>3. pc' \in [Threads -> Labels]
    BY <1>11, <1>go DEF Label, Labels
  <2> QED  BY <1>11, <2>2, <2>3 DEF Label, TypeOK, history
<1>12. ASSUME NEW t \in Threads, Send(t) PROVE TypeOK'
  <2>1. left' \in [Threads -> 0..MaxLen]
    <3>1. left[t] > 0
      BY <1>12 DEF Send, At, HasPacket, Busy
    <3>2. Advanced(left[t]) \in 0..MaxLen
      BY <3>1 DEF TypeOK, Advanced
    <3> QED  BY <1>12, <3>2 DEF Send, TypeOK
  <2>2. packet' \in [Threads -> Pkt]
    BY <1>12, NoPacketTyped DEF Send, TypeOK
  <2>3. pc' \in [Threads -> Labels]
    BY <1>12, <1>go DEF Send, Labels
  <2>4. sent' \subseteq Pkt
    BY <1>12 DEF Send, TypeOK
  <2>5. fault' \in {fault, "network", "socket"}
    BY <1>12 DEF Send
  <2>6. reused' \in BOOLEAN
    <3>1. reused \in BOOLEAN
      BY DEF TypeOK
    <3> QED  BY <1>12, <3>1, Zenon DEF Send
  <2> QED  BY <1>12, <2>1, <2>2, <2>3, <2>4, <2>5, <2>6 DEF Send, TypeOK
<1>13. ASSUME NEW t \in Threads, Finish(t) PROVE TypeOK'
  <2>1. pc' \in [Threads -> Labels]
    BY <1>13, <1>go DEF Finish, Labels
  <2>2. playback' \in BOOLEAN
    BY <1>13, Zenon DEF Finish, FlagAtEnd
  <2> QED  BY <1>13, <2>1, <2>2 DEF Finish, TypeOK, history
<1>14. CASE UNCHANGED vars
  BY <1>14 DEF vars, threadVars, history, TypeOK
<1>15. ASSUME NEW t \in Threads, Start(t) PROVE TypeOK'
  <2>1. pc' \in [Threads -> Labels]
    BY <1>15 DEF Start, Labels, TypeOK
  <2> QED  BY <1>15, <2>1 DEF Start, TypeOK, history
<1>16. CASE Text
  BY <1>16 DEF Text, TypeOK, threadVars, history
<1>17. CASE Comment
  <2>1. fault' \in {"none", "comment"}
    BY <1>17 DEF Comment
  <2> QED  BY <1>17, <2>1 DEF Comment, TypeOK, threadVars, history
<1> QED
  BY <1>1, <1>2, <1>3, <1>4, <1>5, <1>6, <1>7, <1>8, <1>9, <1>10, <1>11, <1>12, <1>13, <1>14, <1>15,
     <1>16, <1>17
  DEF Next, Step

----------------------------------------------------------------------------
(* How an action changes pc: only t moves, and it stays alive or starts. *)
Moves(t) ==
  /\ \A u \in Threads \ {t} : pc'[u] = pc[u]
  /\ pc'[t] \notin {"none", "ended"} /\ pc[t] \notin {"none", "ended"}

LEMMA MovesLive ==
  ASSUME NEW t \in Threads, Moves(t)
  PROVE  Live' = Live /\ t \in Live
  BY DEF Moves, Live

(* All steps of a thread but the last are moves. *)
LEMMA StepMoves ==
  ASSUME TypeOK, NEW t \in Threads, Step(t), ~Finish(t)
  PROVE  /\ Moves(t)
         /\ UNCHANGED <<playback, overlapped, stopped, abandoned, link>>
<1>1. CASE Check(t)
  BY <1>1 DEF Check, At, Go, Moves, TypeOK
<1>2. CASE Load(t)
  BY <1>2 DEF Load, At, Go, Moves, TypeOK, history
<1>3. CASE Store(t)
  BY <1>3 DEF Store, At, Go, Moves, TypeOK, history
<1>4. CASE Cipher(t)
  BY <1>4 DEF Cipher, At, Go, Moves, TypeOK, history
<1>5. CASE Label(t)
  BY <1>5 DEF Label, At, Go, Moves, TypeOK, history
<1>6. CASE Send(t)
  BY <1>6 DEF Send, At, Go, Moves, TypeOK
<1> QED  BY <1>1, <1>2, <1>3, <1>4, <1>5, <1>6 DEF Step

LEMMA StartMoves ==
  ASSUME TypeOK, NEW t \in Threads, Start(t)
  PROVE  /\ Moves(t) /\ pc[t] = "asked" /\ pc'[t] = "check" /\ loop' = "comment"
         /\ UNCHANGED <<playback, left, reg, packet, encrypt_iv, key, link, fault, history>>
  BY DEF Start, Moves, TypeOK

(* What else the event loop does to the threads: nothing but marking them. *)
OfLoop ==
  \/ Text \/ Comment \/ Quit \/ DeleteClient \/ Exit \/ SetSchedule \/ UNCHANGED vars
  \/ \E iv \in IV : SetIV(iv)

LEMMA OfLoopQuiet ==
  ASSUME OfLoop
  PROVE  UNCHANGED <<playback, pc, left, reg, packet, overlapped, stopped, sent, reused>>
  BY DEF OfLoop, Text, Comment, Quit, DeleteClient, Exit, SetIV, SetSchedule, vars, threadVars,
     history

----------------------------------------------------------------------------
(* A thread in its loop's body keeps its packet until it has sent it. *)
LEMMA PacketInv == TypeOK /\ HasPacket /\ [Next]_vars => HasPacket'
<1> SUFFICES ASSUME TypeOK, HasPacket, [Next]_vars PROVE HasPacket'
  OBVIOUS
<1>1. ASSUME NEW t \in Threads, NEW n \in 0..MaxLen, Play(t, n) PROVE HasPacket'
  BY <1>1 DEF Play, TypeOK, HasPacket, Busy
<1>2. CASE Stop
  BY <1>2 DEF Stop, threadVars, HasPacket
<1>3. CASE OfLoop
  BY <1>3, OfLoopQuiet DEF HasPacket
<1>4. ASSUME NEW t \in Threads, Check(t) PROVE HasPacket'
  BY <1>4 DEF Check, At, Go, TypeOK, HasPacket, Busy
<1>5. ASSUME NEW t \in Threads, Load(t) \/ Store(t) \/ Cipher(t) \/ Label(t) PROVE HasPacket'
  <2>1. left' = left /\ pc[t] \in Busy /\ \A u \in Threads \ {t} : pc'[u] = pc[u]
    BY <1>5 DEF Load, Store, Cipher, Label, At, Go, TypeOK, Busy
  <2> QED  BY <2>1 DEF HasPacket
<1>6. ASSUME NEW t \in Threads, Send(t) PROVE HasPacket'
  BY <1>6 DEF Send, At, Go, TypeOK, HasPacket, Busy
<1>7. ASSUME NEW t \in Threads, Finish(t) PROVE HasPacket'
  BY <1>7 DEF Finish, At, Go, TypeOK, HasPacket, Busy
<1>8. ASSUME NEW t \in Threads, Start(t) PROVE HasPacket'
  BY <1>8, StartMoves DEF Moves, HasPacket, Busy
<1> QED  BY <1>1, <1>2, <1>3, <1>4, <1>5, <1>6, <1>7, <1>8 DEF Next, Step, OfLoop

(* The marks and the flag. *)
LEMMA MarkInv == IInv /\ [Next]_vars =>
  FlagHasThread' /\ BothMarked' /\ HasReason' /\ BreaksOffForAReason'
<1> SUFFICES ASSUME IInv, [Next]_vars
             PROVE  FlagHasThread' /\ BothMarked' /\ HasReason' /\ BreaksOffForAReason'
  OBVIOUS
<1> USE DEF IInv
<1>1. ASSUME NEW t \in Threads, NEW n \in 0..MaxLen, Play(t, n)
      PROVE  FlagHasThread' /\ BothMarked' /\ HasReason' /\ BreaksOffForAReason'
  <2>1. /\ pc[t] = "none" /\ pc' = [pc EXCEPT ![t] = "asked"] /\ left' = [left EXCEPT ![t] = n]
        /\ playback' /\ stopped' = stopped
        /\ overlapped' = IF Live = {} THEN overlapped ELSE overlapped \cup Live \cup {t}
    BY <1>1 DEF Play, FlagForThread
  <2>2. Live' = Live \cup {t} /\ pc'[t] = "asked" /\ \A u \in Threads \ {t} : pc'[u] = pc[u]
    BY <2>1 DEF Live, TypeOK
  <2>3. FlagHasThread'
    BY <2>2 DEF FlagHasThread
  <2>4. BothMarked'
    BY <2>1, <2>2 DEF BothMarked
  <2>5. ASSUME NEW u \in Threads, pc'[u] = "finish" \/ pc'[u] = "ended", left'[u] > 0
        PROVE  u \in stopped' \cup overlapped'
    <3>1. u # t /\ pc[u] \in {"finish", "ended"} /\ left[u] > 0
      BY <2>1, <2>2, <2>5 DEF TypeOK
    <3> QED  BY <2>1, <3>1 DEF BreaksOffForAReason
  <2> QED  BY <2>1, <2>3, <2>4, <2>5 DEF HasReason, BreaksOffForAReason
<1>2. CASE Stop
  BY <1>2 DEF Stop, threadVars, FlagHasThread, BothMarked, HasReason, BreaksOffForAReason, Live
<1>3. CASE OfLoop
  BY <1>3, OfLoopQuiet DEF Live, FlagHasThread, BothMarked, HasReason, BreaksOffForAReason
<1>4. ASSUME NEW t \in Threads, Step(t), ~Finish(t)
      PROVE  FlagHasThread' /\ BothMarked' /\ HasReason' /\ BreaksOffForAReason'
  <2>1. /\ Moves(t) /\ Live' = Live /\ t \in Live
        /\ UNCHANGED <<playback, overlapped, stopped>>
    BY <1>4, StepMoves, MovesLive
  <2>2. FlagHasThread' /\ BothMarked'
    BY <2>1 DEF FlagHasThread, BothMarked
  <2>3. \A u \in Threads \ {t} : left'[u] = left[u]
    BY <1>4 DEF Step, Check, Load, Store, Cipher, Label, Send, TypeOK
  <2>4. ~playback => t \in stopped \cup overlapped
    BY <2>1 DEF HasReason
  <2>5. pc'[t] = "finish" /\ left'[t] > 0 => ~playback
    BY <1>4 DEF Step, Check, Load, Store, Cipher, Label, Send, At, Go, TypeOK
  <2>6. pc'[t] # "ended"
    BY <2>1 DEF Moves
  <2>7. HasReason'
    BY <2>1, <2>3, <2>4, <2>5 DEF HasReason, Moves
  <2>8. BreaksOffForAReason'
    BY <2>1, <2>3, <2>4, <2>5, <2>6 DEF BreaksOffForAReason, Moves
  <2> QED  BY <2>2, <2>7, <2>8
<1>5. ASSUME NEW t \in Threads, Finish(t)
      PROVE  FlagHasThread' /\ BothMarked' /\ HasReason' /\ BreaksOffForAReason'
  <2>1. /\ pc[t] = "finish" /\ pc' = [pc EXCEPT ![t] = "ended"] /\ left' = left /\ ~playback'
        /\ UNCHANGED <<overlapped, stopped>>
    BY <1>5 DEF Finish, At, Go, FlagAtEnd, history
  <2>2. Live' = Live \ {t} /\ t \in Live
    BY <2>1 DEF Live, TypeOK
  <2>3. FlagHasThread' /\ BothMarked'
    BY <2>1, <2>2 DEF FlagHasThread, BothMarked
  <2>4. \A u \in Live' : u \in overlapped
    BY <2>2 DEF BothMarked, Live
  <2>5. BreaksOffForAReason'
    BY <2>1 DEF BreaksOffForAReason, TypeOK
  <2> QED  BY <2>1, <2>3, <2>4, <2>5 DEF HasReason
<1>6. ASSUME NEW t \in Threads, Start(t)
      PROVE  FlagHasThread' /\ BothMarked' /\ HasReason' /\ BreaksOffForAReason'
  <2>1. /\ Moves(t) /\ Live' = Live /\ t \in Live /\ pc'[t] = "check"
        /\ UNCHANGED <<playback, left, overlapped, stopped>>
    BY <1>6, StartMoves, MovesLive DEF history
  <2>2. FlagHasThread' /\ BothMarked'
    BY <2>1 DEF FlagHasThread, BothMarked
  <2>3. HasReason' /\ BreaksOffForAReason'
    BY <2>1 DEF HasReason, BreaksOffForAReason, Moves
  <2> QED  BY <2>2, <2>3
<1> QED  BY <1>1, <1>2, <1>3, <1>4, <1>5, <1>6 DEF Next, Step, OfLoop

(* Marks stay, and nothing happens once the process has died. *)
LEMMA Monotone ==
  ASSUME TypeOK, [Next]_vars
  PROVE  /\ overlapped \subseteq overlapped' /\ (raced => raced')
         /\ fault = "none" \/ UNCHANGED vars
         /\ sent \subseteq sent' /\ key' \in {key, key + 1}
<1> DEFINE Kept == /\ overlapped \subseteq overlapped' /\ (raced => raced') /\ fault = "none"
                   /\ sent \subseteq sent' /\ key' \in {key, key + 1}
<1>1. ASSUME NEW t, NEW n, Play(t, n) PROVE Kept
  BY <1>1 DEF Play, Message, Running
<1>2. CASE Stop \/ Text \/ Comment \/ Quit \/ DeleteClient \/ Exit \/ \E t \in Threads : Start(t)
  BY <1>2 DEF Stop, Text, Comment, Quit, DeleteClient, Exit, Start, Message, Running, history
<1>3. (\E iv \in IV : SetIV(iv)) \/ SetSchedule \/ (\E t \in Threads : Check(t)) => (raced => raced')
  BY Zenon DEF SetIV, SetSchedule, Check
<1>4. CASE (\E iv \in IV : SetIV(iv)) \/ SetSchedule \/ \E t \in Threads : Check(t)
  <2>1. /\ fault = "none" /\ UNCHANGED <<overlapped, sent>> /\ key' \in {key, key + 1}
    BY <1>4 DEF SetIV, SetSchedule, Check, At, Running
  <2> QED  BY <1>3, <1>4, <2>1
<1>5. ASSUME NEW t \in Threads, Load(t) \/ Store(t) \/ Cipher(t) \/ Label(t) \/ Finish(t)
      PROVE  Kept
  BY <1>5 DEF Load, Store, Cipher, Label, Finish, At, Running, history
<1>6. ASSUME NEW t \in Threads, Send(t) PROVE Kept
  BY <1>6 DEF Send, At, Running
<1>7. CASE UNCHANGED vars
  BY <1>7 DEF vars, history
<1>8. CASE Next
  BY <1>1, <1>2, <1>4, <1>5, <1>6, <1>8 DEF Next, Step
<1> QED  BY <1>7, <1>8 DEF vars, history

(* The connection and the threads that outlive it. *)
LEMMA AbandonInv == IInv /\ [Next]_vars =>
  OnlyAbandoned' /\ DeletedOutside' /\ CrashOnlyAbandoned'
<1> SUFFICES ASSUME IInv, [Next]_vars
             PROVE  OnlyAbandoned' /\ DeletedOutside' /\ CrashOnlyAbandoned'
  OBVIOUS
<1> USE DEF IInv
<1> DEFINE Goal == OnlyAbandoned' /\ DeletedOutside' /\ CrashOnlyAbandoned'
<1>1. CASE UNCHANGED vars
  BY <1>1 DEF vars, threadVars, history, Live, OnlyAbandoned, DeletedOutside, CrashOnlyAbandoned
<1>2. fault = "none" \/ UNCHANGED vars
  BY Monotone
<1>3. ASSUME NEW t \in Threads, NEW n \in 0..MaxLen, Play(t, n), fault = "none" PROVE Goal
  <2>1. /\ pc' = [pc EXCEPT ![t] = "asked"] /\ loop = "idle" /\ loop' = "start"
        /\ link \in {"up", "off"} /\ UNCHANGED <<link, fault, abandoned>>
    BY <1>3 DEF Play, Message
  <2>2. link # "up" /\ ~abandoned => Live' = {t}
    BY <1>3, <2>1 DEF OnlyAbandoned, Live, TypeOK
  <2>3. pc'[t] = "asked"
    BY <2>1 DEF TypeOK
  <2> QED  BY <1>3, <2>1, <2>2, <2>3 DEF OnlyAbandoned, DeletedOutside, CrashOnlyAbandoned
<1>4. ASSUME NEW t \in Threads, Start(t), fault = "none" PROVE Goal
  <2>1. /\ loop = "start" /\ loop' = "comment" /\ UNCHANGED <<link, fault>>
    BY <1>4 DEF Start
  <2> QED  BY <1>4, <2>1 DEF OnlyAbandoned, DeletedOutside, CrashOnlyAbandoned
<1>5. CASE fault = "none" /\ (Stop \/ Text)
  BY <1>5 DEF Stop, Text, Message, OnlyAbandoned, DeletedOutside, CrashOnlyAbandoned
<1>6. CASE fault = "none" /\ Comment
  BY <1>6 DEF Comment, CommentAsserts, OnlyAbandoned, DeletedOutside, CrashOnlyAbandoned
<1>7. CASE fault = "none" /\ Quit
  <2>1. /\ loop = "idle" /\ link' = "off" /\ fault' \in {"none", "disconnected"}
        /\ UNCHANGED <<loop, pc>>
    BY <1>7 DEF Quit, Message, threadVars
  <2>2. abandoned' <=> (abandoned \/ Live # {})
    BY <1>7, Zenon DEF Quit
  <2> QED  BY <2>1, <2>2 DEF OnlyAbandoned, DeletedOutside, CrashOnlyAbandoned, Live
<1>8. CASE fault = "none" /\ (DeleteClient \/ Exit)
  <2>1. /\ link # "up" /\ loop = "idle" /\ UNCHANGED <<loop, pc, fault, abandoned>>
    BY <1>8 DEF DeleteClient, Exit, DeletedOutside, threadVars, history
  <2> QED  BY <1>8, <2>1 DEF OnlyAbandoned, DeletedOutside, CrashOnlyAbandoned, Live
<1>9. ASSUME NEW iv \in IV, SetIV(iv), fault = "none" PROVE Goal
  BY <1>9 DEF SetIV, OnlyAbandoned, DeletedOutside, CrashOnlyAbandoned
<1>10. CASE fault = "none" /\ SetSchedule
  <2>1. /\ loop = "setKey" /\ loop' = "idle" /\ UNCHANGED <<pc, link, fault, abandoned>>
    BY <1>10 DEF SetSchedule, threadVars
  <2> QED  BY <1>10, <2>1 DEF OnlyAbandoned, DeletedOutside, CrashOnlyAbandoned, Live
<1>11. ASSUME NEW t \in Threads, Step(t), fault = "none" PROVE Goal
  <2>1. pc[t] \notin {"none", "asked", "ended"} /\ UNCHANGED <<link, loop, abandoned>>
    BY <1>11 DEF Step, Check, Load, Store, Cipher, Label, Send, Finish, At, history
  <2>2. link # "up" => abandoned \/ loop = "comment"
    BY <1>11, <2>1 DEF OnlyAbandoned, Live
  <2>3. \/ UNCHANGED fault \/ fault' = "network"
        \/ fault' = "socket" /\ link # "up"
        \/ fault' = "client" /\ link = "deleted"
    BY <1>11 DEF Step, Check, Load, Store, Cipher, Label, Send, Finish, history
  <2> QED
    BY <1>11, <2>1, <2>2, <2>3 DEF OnlyAbandoned, DeletedOutside, CrashOnlyAbandoned
<1> QED
  BY <1>1, <1>2, <1>3, <1>4, <1>5, <1>6, <1>7, <1>8, <1>9, <1>10, <1>11 DEF Next

LEMMA StepInv == IInv /\ [Next]_vars => IInv'
  BY TypeInv, PacketInv, MarkInv, AbandonInv DEF IInv

LEMMA InvAlways == Spec => []IInv
  BY InitInv, StepInv, PTL DEF Spec

----------------------------------------------------------------------------
(* The order in which encrypt_iv takes the nonces: Succ(v) is the next after *)
(* v, Pred(v) the one before, and Below compares the highest digit in which  *)
(* two nonces differ.                                                        *)
Top == Base - 1
Succ(v) ==
  [i \in 1..Digits |-> IF \A j \in 1..(i - 1) : v[j] = Top THEN Successor(v[i]) ELSE v[i]]
Pred(v) ==
  [i \in 1..Digits |->
     IF \A j \in 1..(i - 1) : v[j] = 0 THEN (IF v[i] = 0 THEN Top ELSE v[i] - 1) ELSE v[i]]
Zero == [i \in 1..Digits |-> 0]
Differs(w, v, k) == w[k] < v[k] /\ \A j \in (k + 1)..Digits : w[j] = v[j]
Below(w, v) == \E k \in 1..Digits : Differs(w, v, k)

LEMMA NatLeast ==
  ASSUME NEW S \in SUBSET Nat, S # {}
  PROVE  \E n \in S : \A m \in S : n <= m
<1>1. PICK n \in S : \A m \in S : <<m, n>> \notin OpToRel(<, Nat)
  BY WFMin, NatLessThanWellFounded
<1>2. \A m \in S : ~(m < n)
  BY <1>1 DEF OpToRel
<1> QED  BY <1>2

LEMMA SuccessorValue ==
  ASSUME NEW d \in 0..Top
  PROVE  Successor(d) = IF d = Top THEN 0 ELSE d + 1
  BY DEF Successor, Top

LEMMA SuccTyped ==
  ASSUME NEW v \in IV
  PROVE  Succ(v) \in IV /\ Pred(v) \in IV /\ Zero \in IV
<1>1. \A i \in 1..Digits : v[i] \in 0..Top
  BY DEF IV, Top
<1>2. \A i \in 1..Digits : Successor(v[i]) \in 0..Top
  BY <1>1, SuccessorDigit DEF Top
<1>3. \A i \in 1..Digits : (IF v[i] = 0 THEN Top ELSE v[i] - 1) \in 0..Top
  BY <1>1 DEF Top
<1> QED  BY <1>1, <1>2, <1>3, ZeroDigit DEF Succ, Pred, Zero, IV, Top

LEMMA SamePlaces ==
  ASSUME NEW v \in IV, NEW w \in IV, \A i \in 1..Digits : v[i] = w[i]
  PROVE  v = w
  BY DEF IV

(* Where the digits below were all at the top in v, they are 0 in Succ(v),   *)
(* and the other way round.                                                  *)
LEMMA PredSucc ==
  ASSUME NEW v \in IV
  PROVE  Pred(Succ(v)) = v
<1> DEFINE w == Succ(v)
<1>1. \A i \in 1..Digits : v[i] \in 0..Top /\ Top \in Nat
  BY DEF IV, Top
<1>2. \A i \in 1..Digits :
        w[i] = IF \A j \in 1..(i - 1) : v[j] = Top THEN Successor(v[i]) ELSE v[i]
  BY DEF Succ
<1>3. \A i \in 1..Digits : Successor(v[i]) = IF v[i] = Top THEN 0 ELSE v[i] + 1
  BY <1>1, SuccessorValue
<1>4. w \in IV /\ Pred(w) \in IV
  BY SuccTyped
<1>5. \A i \in 1..Digits :
        Pred(w)[i] = IF \A j \in 1..(i - 1) : w[j] = 0 THEN (IF w[i] = 0 THEN Top ELSE w[i] - 1)
                                                        ELSE w[i]
  BY DEF Pred
<1> HIDE DEF w
<1>6. ASSUME NEW i \in 1..Digits
      PROVE  (\A j \in 1..(i - 1) : v[j] = Top) <=> (\A j \in 1..(i - 1) : w[j] = 0)
  <2>1. ASSUME \A j \in 1..(i - 1) : v[j] = Top, NEW j \in 1..(i - 1)
        PROVE  w[j] = 0
    <3>1. j \in 1..Digits /\ 1..(j - 1) \subseteq 1..(i - 1) /\ v[j] = Top
      BY <2>1
    <3>2. \A l \in 1..(j - 1) : v[l] = Top
      BY <2>1, <3>1
    <3> QED  BY <1>2, <1>3, <3>1, <3>2
  <2>2. ASSUME \A j \in 1..(i - 1) : w[j] = 0, ~(\A j \in 1..(i - 1) : v[j] = Top)
        PROVE  FALSE
    <3>1. PICK k \in 1..(i - 1) : v[k] # Top /\ \A j \in 1..(k - 1) : v[j] = Top
      <4> DEFINE bad == {j \in 1..(i - 1) : v[j] # Top}
      <4>1. bad # {} /\ bad \subseteq Nat
        BY <2>2
      <4>2. PICK k \in bad : \A j \in bad : k <= j
        <5> HIDE DEF bad
        <5> QED  BY <4>1, NatLeast
      <4>3. \A j \in 1..(k - 1) : j \in 1..(i - 1) /\ ~(k <= j)
        OBVIOUS
      <4> QED  BY <4>2, <4>3
    <3>2. k \in 1..Digits
      OBVIOUS
    <3>3. w[k] = v[k] + 1 /\ w[k] = 0
      BY <1>2, <1>3, <2>2, <3>1, <3>2
    <3> QED  BY <1>1, <3>2, <3>3
  <2> QED  BY <2>1, <2>2
<1>7. ASSUME NEW i \in 1..Digits PROVE Pred(w)[i] = v[i]
  <2>1. CASE \A j \in 1..(i - 1) : v[j] = Top
    BY <1>1, <1>2, <1>3, <1>5, <1>6, <2>1
  <2>2. CASE ~(\A j \in 1..(i - 1) : v[j] = Top)
    BY <1>2, <1>5, <1>6, <2>2
  <2> QED  BY <2>1, <2>2
<1>8. Pred(w) = v
  BY <1>4, <1>7, SamePlaces
<1> QED  BY <1>8 DEF w

LEMMA SuccPred ==
  ASSUME NEW v \in IV
  PROVE  Succ(Pred(v)) = v
<1> DEFINE w == Pred(v)
<1>1. \A i \in 1..Digits : v[i] \in 0..Top /\ Top \in Nat
  BY DEF IV, Top
<1>2. \A i \in 1..Digits :
        w[i] = IF \A j \in 1..(i - 1) : v[j] = 0 THEN (IF v[i] = 0 THEN Top ELSE v[i] - 1) ELSE v[i]
  BY DEF Pred
<1>3. w \in IV /\ Succ(w) \in IV
  BY SuccTyped
<1>4. \A i \in 1..Digits : w[i] \in 0..Top /\ Successor(w[i]) = IF w[i] = Top THEN 0 ELSE w[i] + 1
  BY <1>3, SuccessorValue DEF IV, Top
<1>5. \A i \in 1..Digits :
        Succ(w)[i] = IF \A j \in 1..(i - 1) : w[j] = Top THEN Successor(w[i]) ELSE w[i]
  BY DEF Succ
<1> HIDE DEF w
<1>6. ASSUME NEW i \in 1..Digits
      PROVE  (\A j \in 1..(i - 1) : v[j] = 0) <=> (\A j \in 1..(i - 1) : w[j] = Top)
  <2>1. ASSUME \A j \in 1..(i - 1) : v[j] = 0, NEW j \in 1..(i - 1)
        PROVE  w[j] = Top
    <3>1. j \in 1..Digits /\ 1..(j - 1) \subseteq 1..(i - 1) /\ v[j] = 0
      BY <2>1
    <3>2. \A l \in 1..(j - 1) : v[l] = 0
      BY <2>1, <3>1
    <3> QED  BY <1>2, <3>1, <3>2
  <2>2. ASSUME \A j \in 1..(i - 1) : w[j] = Top, ~(\A j \in 1..(i - 1) : v[j] = 0)
        PROVE  FALSE
    <3>1. PICK k \in 1..(i - 1) : v[k] # 0 /\ \A j \in 1..(k - 1) : v[j] = 0
      <4> DEFINE bad == {j \in 1..(i - 1) : v[j] # 0}
      <4>1. bad # {} /\ bad \subseteq Nat
        BY <2>2
      <4>2. PICK k \in bad : \A j \in bad : k <= j
        <5> HIDE DEF bad
        <5> QED  BY <4>1, NatLeast
      <4>3. \A j \in 1..(k - 1) : j \in 1..(i - 1) /\ ~(k <= j)
        OBVIOUS
      <4> QED  BY <4>2, <4>3
    <3>2. k \in 1..Digits
      OBVIOUS
    <3>3. w[k] = v[k] - 1 /\ w[k] = Top
      BY <1>2, <2>2, <3>1, <3>2
    <3> QED  BY <1>1, <3>2, <3>3
  <2> QED  BY <2>1, <2>2
<1>7. ASSUME NEW i \in 1..Digits PROVE Succ(w)[i] = v[i]
  <2>1. CASE \A j \in 1..(i - 1) : v[j] = 0
    BY <1>1, <1>2, <1>4, <1>5, <1>6, <2>1
  <2>2. CASE ~(\A j \in 1..(i - 1) : v[j] = 0)
    BY <1>2, <1>5, <1>6, <2>2
  <2> QED  BY <2>1, <2>2
<1>8. Succ(w) = v
  BY <1>3, <1>7, SamePlaces
<1> QED  BY <1>8 DEF w

LEMMA PredBelow ==
  ASSUME NEW v \in IV, v # Zero
  PROVE  Below(Pred(v), v)
<1> DEFINE places == {i \in 1..Digits : v[i] # 0}
<1>1. \A i \in 1..Digits : v[i] \in 0..Top /\ Top \in Nat
  BY DEF IV, Top
<1>2. places # {}
  <2>1. Zero \in IV /\ \A i \in 1..Digits : Zero[i] = 0
    BY SuccTyped DEF Zero
  <2> QED  BY <2>1, SamePlaces
<1>3. PICK k \in places : \A j \in places : k <= j
  <2>1. places \subseteq Nat
    OBVIOUS
  <2> HIDE DEF places
  <2> QED  BY <1>2, <2>1, NatLeast
<1>4. k \in 1..Digits /\ v[k] # 0 /\ \A j \in 1..(k - 1) : v[j] = 0
  <2>1. \A j \in 1..(k - 1) : j \in 1..Digits /\ ~(k <= j)
    OBVIOUS
  <2> QED  BY <1>3, <2>1
<1>5. Pred(v)[k] = v[k] - 1
  BY <1>4 DEF Pred
<1>6. ASSUME NEW j \in (k + 1)..Digits PROVE Pred(v)[j] = v[j]
  <2>1. j \in 1..Digits /\ k \in 1..(j - 1)
    BY <1>4
  <2> QED  BY <1>4, <2>1 DEF Pred
<1>7. Differs(Pred(v), v, k)
  BY <1>1, <1>4, <1>5, <1>6 DEF Differs
<1> QED  BY <1>4, <1>7 DEF Below

(* A set of nonces has one below which there is none of them: the digits are *)
(* settled from the highest down.                                            *)
LEMMA LeastNonce ==
  ASSUME NEW U \in SUBSET IV, U # {}
  PROVE  \E m \in U : \A w \in U : ~Below(w, m)
<1> DEFINE Settled(m, d) == \A w \in U : \A k \in (d + 1)..Digits : ~Differs(w, m, k)
           depths == {d \in 0..Digits : \E m \in U : Settled(m, d)}
<1>1. Digits \in depths
  <2>1. (Digits + 1)..Digits = {} /\ Digits \in 0..Digits
    OBVIOUS
  <2> QED  BY <2>1
<1>2. PICK d \in depths : \A c \in depths : d <= c
  <2>1. depths \subseteq Nat /\ depths # {}
    BY <1>1
  <2> HIDE DEF depths
  <2> QED  BY <2>1, NatLeast
<1>3. PICK m \in U : Settled(m, d)
  BY <1>2
<1>4. d = 0
  <2> SUFFICES ASSUME d # 0 PROVE FALSE
    OBVIOUS
  <2> DEFINE alike == {w \in U : \A j \in (d + 1)..Digits : w[j] = m[j]}
             digits == {w[d] : w \in alike}
  <2>1. d \in 1..Digits /\ d - 1 \in 0..Digits
    BY <1>2
  <2>2. \A w \in U, i \in 1..Digits : w[i] \in Nat
    BY DEF IV
  <2>3. m \in alike /\ digits \subseteq Nat
    BY <2>1, <2>2
  <2>4. PICK x \in digits : \A y \in digits : x <= y
    <3>1. digits # {}
      BY <2>3
    <3> HIDE DEF digits
    <3> QED  BY <2>3, <3>1, NatLeast
  <2>5. PICK n \in alike : n[d] = x
    BY <2>4
  <2>6. ASSUME NEW w \in U, NEW k \in d..Digits, Differs(w, n, k)
        PROVE  FALSE
    <3>1. CASE k = d
      <4>1. w \in alike
        BY <2>5, <2>6, <3>1 DEF Differs
      <4>2. w[d] < x /\ w[d] \in digits /\ x \in Nat /\ w[d] \in Nat
        BY <2>1, <2>2, <2>3, <2>4, <2>5, <2>6, <3>1, <4>1 DEF Differs
      <4> QED  BY <2>4, <4>2
    <3>2. CASE k # d
      <4>1. k \in (d + 1)..Digits /\ \A j \in (k + 1)..Digits : j \in (d + 1)..Digits
        BY <2>1, <3>2
      <4>2. Differs(w, m, k)
        BY <2>5, <2>6, <4>1 DEF Differs
      <4> QED  BY <1>3, <4>1, <4>2
    <3> QED  BY <3>1, <3>2
  <2>7. Settled(n, d - 1)
    <3>1. (d - 1) + 1 = d
      BY <2>1
    <3> QED  BY <2>6, <3>1
  <2>8. d - 1 \in depths
    BY <2>1, <2>5, <2>7
  <2>9. d <= d - 1
    <3> HIDE DEF depths
    <3> QED  BY <1>2, <2>8
  <2> QED  BY <2>1, <2>9
<1>5. \A w \in U : ~Below(w, m)
  BY <1>3, <1>4 DEF Below
<1> QED  BY <1>5

(* The nonces are one cycle: from any of them the others follow. *)
LEMMA OneCycle ==
  ASSUME NEW U \in SUBSET IV, IsFiniteSet(U), U # {}, \A u \in U : Succ(u) \in U
  PROVE  U = IV
<1> DEFINE f == [u \in U |-> Succ(u)]
<1>1. f \in Injection(U, U)
  BY PredSucc DEF Injection, IsInjective
<1>2. f \in Surjection(U, U)
  <2> HIDE DEF f
  <2> QED  BY <1>1, FS_Injection
<1>3. ASSUME NEW u \in U PROVE Pred(u) \in U
  <2>1. PICK w \in U : Succ(w) = u
    BY <1>2 DEF Surjection
  <2> QED  BY <2>1, PredSucc
<1>4. Zero \in U
  <2>1. PICK m \in U : \A w \in U : ~Below(w, m)
    BY LeastNonce
  <2>2. m = Zero
    BY <1>3, <2>1, PredBelow
  <2> QED  BY <2>2
<1>5. ASSUME IV \ U # {} PROVE FALSE
  <2>1. PICK v \in IV \ U : \A w \in IV \ U : ~Below(w, v)
    BY <1>5, LeastNonce
  <2>2. Below(Pred(v), v) /\ Pred(v) \in IV
    BY <1>4, <2>1, PredBelow, SuccTyped
  <2>3. Pred(v) \in U
    BY <2>1, <2>2
  <2>4. Succ(Pred(v)) = v
    BY SuccPred
  <2> QED  BY <2>3, <2>4
<1> QED  BY <1>5

----------------------------------------------------------------------------
(* What the nonces of the current key are while threads encrypt one at a     *)
(* time: each but the last, x, is followed by the next, and encrypt_iv is x  *)
(* or on the way to Succ(x).                                                 *)
Encrypted == {"label", "send"}
Had ==
  NoncesUnder(key) \cup
    {packet[t].iv : t \in {u \in Threads : pc[u] \in Encrypted /\ packet[u].key = key}}
Chain(U, x) == (\A u \in U : u = x \/ Succ(u) \in U) /\ (U # {} => x \in U)

(* What is left of the increment when it has come to digit d. *)
From(v, d) ==
  [i \in 1..Digits |-> IF i >= d /\ \A j \in d..(i - 1) : v[j] = Top THEN Successor(v[i]) ELSE v[i]]
Due(x) ==
  /\ \A t \in Threads :
       /\ pc[t] \in {"load", "store"} => From(encrypt_iv, reg[t].digit) = Succ(x)
       /\ pc[t] = "cipher" => encrypt_iv = Succ(x)
  /\ (\A t \in Threads : pc[t] \notin {"load", "store", "cipher"}) => encrypt_iv = x

Steady ==
  /\ \A t \in Threads :
       /\ pc[t] \notin {"load", "store"} => reg[t].digit = 1
       /\ pc[t] = "store" => reg[t].value = encrypt_iv[reg[t].digit]
       /\ pc[t] \in {"load", "store", "cipher", "label"} => loop # "setKey"
       /\ pc[t] = "label" => packet[t].iv = encrypt_iv
       /\ pc[t] = "send" => packet[t].shown = packet[t].iv[1]
       /\ pc[t] \in Encrypted /\ packet[t].iv \in NoncesUnder(packet[t].key)
            => NoncesUnder(packet[t].key) = IV
  /\ loop # "setKey" => \E x \in IV : Chain(Had, x) /\ Due(x)

SentOK ==
  /\ key \in Nat \ {0} /\ IsFiniteSet(sent) /\ \A p \in sent : p.key \in 1..key
  /\ \A t \in Threads : pc[t] \in Encrypted => packet[t].key \in 1..key

Alone == fault = "none" /\ overlapped = {} /\ ~raced
NonceInv == IInv /\ SentOK /\ NonceOnce /\ (Alone => Steady)

LEMMA FromFirst ==
  ASSUME NEW v
  PROVE  From(v, 1) = Succ(v)
<1>1. \A i \in 1..Digits : i >= 1
  OBVIOUS
<1> QED  BY <1>1 DEF From, Succ

LEMMA FromDigit ==
  ASSUME NEW v \in IV, NEW d \in 1..Digits, NEW w, w = [v EXCEPT ![d] = Successor(v[d])]
  PROVE  /\ Carries(Successor(v[d]), d) => From(w, d + 1) = From(v, d)
         /\ ~Carries(Successor(v[d]), d) => w = From(v, d)
<1>1. \A i \in 1..Digits : v[i] \in 0..Top /\ Top \in Nat
  BY DEF IV, Top
<1>2. Successor(v[d]) = IF v[d] = Top THEN 0 ELSE v[d] + 1
  BY <1>1, SuccessorValue
<1>3. \A i \in 1..Digits : w[i] = IF i = d THEN Successor(v[d]) ELSE v[i]
  BY DEF IV
<1>4. w = [i \in 1..Digits |-> w[i]]
  BY DEF IV
<1>5. ASSUME Carries(Successor(v[d]), d) PROVE From(w, d + 1) = From(v, d)
  <2>1. v[d] = Top /\ Successor(v[d]) = 0
    BY <1>1, <1>2, <1>5 DEF Carries
  <2>2. ASSUME NEW i \in 1..Digits
        PROVE  (IF i >= d + 1 /\ \A j \in (d + 1)..(i - 1) : w[j] = Top THEN Successor(w[i]) ELSE w[i])
               = (IF i >= d /\ \A j \in d..(i - 1) : v[j] = Top THEN Successor(v[i]) ELSE v[i])
    <3>1. CASE i < d
      BY <1>3, <3>1
    <3>2. CASE i = d
      <4>1. d..(i - 1) = {}
        BY <3>2
      <4> QED  BY <1>3, <3>2, <4>1
    <3>3. CASE i > d
      <4>1. d..(i - 1) = (d + 1)..(i - 1) \cup {d}
        BY <3>3
      <4>2. \A j \in (d + 1)..(i - 1) : w[j] = v[j]
        BY <1>3
      <4>3. w[i] = v[i] /\ i >= d + 1 /\ i >= d
        BY <1>3, <3>3
      <4> QED  BY <2>1, <4>1, <4>2, <4>3
    <3> QED  BY <3>1, <3>2, <3>3
  <2> QED  BY <2>2, Zenon DEF From
<1>6. ASSUME ~Carries(Successor(v[d]), d) PROVE w = From(v, d)
  <2>1. v[d] # Top \/ d = Digits
    BY <1>2, <1>6 DEF Carries
  <2>2. ASSUME NEW i \in 1..Digits
        PROVE  w[i] = IF i >= d /\ \A j \in d..(i - 1) : v[j] = Top THEN Successor(v[i]) ELSE v[i]
    <3>1. CASE i < d
      BY <1>3, <3>1
    <3>2. CASE i = d
      <4>1. d..(i - 1) = {}
        BY <3>2
      <4> QED  BY <1>3, <3>2, <4>1
    <3>3. CASE i > d
      <4>1. d \in d..(i - 1) /\ v[d] # Top
        BY <2>1, <3>3
      <4> QED  BY <1>3, <3>3, <4>1
    <3> QED  BY <3>1, <3>2, <3>3
  <2> QED  BY <1>4, <2>2, Zenon DEF From
<1> QED  BY <1>5, <1>6

LEMMA OneAtATime ==
  ASSUME IInv, overlapped = {}, NEW t \in Threads, NEW u \in Threads,
         pc[t] \notin {"none", "ended"}, pc[u] \notin {"none", "ended"}
  PROVE  t = u
  BY DEF IInv, BothMarked, Live

LEMMA NoncesFinite ==
  ASSUME SentOK, NEW k
  PROVE  IsFiniteSet(NoncesUnder(k))
<1> DEFINE S == {q \in sent : q.key = k}
           f == [p \in S |-> p.iv]
<1>1. IsFiniteSet(S)
  BY FS_Subset DEF SentOK
<1>2. f \in Surjection(S, NoncesUnder(k))
  BY DEF Surjection, NoncesUnder
<1> HIDE DEF S, f
<1> QED  BY <1>1, <1>2, FS_Surjection

(* Steps that leave the encryption alone. *)
Outside(u) == pc[u] \notin Busy /\ pc'[u] \notin Busy
LEMMA ElsewhereSteady ==
  ASSUME Steady, \A u \in Threads : pc'[u] = pc[u] \/ Outside(u),
         UNCHANGED <<reg, packet, encrypt_iv, key, sent>>, loop' = "setKey" <=> loop = "setKey"
  PROVE  Steady'
<1>1. \A u \in Threads, l \in Busy : pc'[u] = l <=> pc[u] = l
  BY DEF Outside
<1>2. Had' = Had
  BY <1>1 DEF Had, NoncesUnder, Encrypted, Busy
<1>3. \A x : Due(x) => Due(x)'
  BY <1>1 DEF Due, Busy
<1>4. \A k : NoncesUnder(k)' = NoncesUnder(k)
  BY DEF NoncesUnder
<1>5. loop' # "setKey" => \E x \in IV : Chain(Had', x) /\ Due(x)'
  BY <1>2, <1>3 DEF Steady
<1>6. \A t \in Threads :
        /\ pc'[t] \notin {"load", "store"} => reg'[t].digit = 1
        /\ pc'[t] = "store" => reg'[t].value = encrypt_iv'[reg'[t].digit]
        /\ pc'[t] \in {"load", "store", "cipher", "label"} => loop' # "setKey"
        /\ pc'[t] = "label" => packet'[t].iv = encrypt_iv'
        /\ pc'[t] = "send" => packet'[t].shown = packet'[t].iv[1]
        /\ pc'[t] \in Encrypted /\ packet'[t].iv \in NoncesUnder(packet'[t].key)
             => NoncesUnder(packet'[t].key) = IV
  BY <1>1 DEF Steady, Busy, Encrypted
<1> QED  BY <1>4, <1>5, <1>6 DEF Steady

LEMMA SetIVSteady ==
  ASSUME Steady, NEW iv \in IV, SetIV(iv), ~raced'
  PROVE  Steady'
<1>1. /\ loop' = "setKey" /\ InEncrypt = {}
      /\ UNCHANGED <<pc, reg, packet, sent>>
  BY DEF SetIV, threadVars
<1>2. \A t \in Threads : pc[t] \notin {"load", "store", "cipher", "label"}
  BY <1>1 DEF InEncrypt
<1> QED  BY <1>1, <1>2 DEF Steady, Encrypted, NoncesUnder

LEMMA SetScheduleSteady ==
  ASSUME IInv, SentOK, Steady, SetSchedule, ~raced'
  PROVE  Steady'
<1>1. /\ loop' = "idle" /\ key' = key + 1 /\ InEncrypt = {}
      /\ UNCHANGED <<pc, reg, packet, sent, encrypt_iv>>
  BY DEF SetSchedule, threadVars
<1>2. \A t \in Threads : pc[t] \notin {"load", "store", "cipher", "label"}
  BY <1>1 DEF InEncrypt
<1>3. Had' = {}
  <2>1. key + 1 \notin 1..key
    BY DEF SentOK
  <2> QED  BY <1>1, <2>1 DEF Had, NoncesUnder, SentOK
<1>4. Chain(Had', encrypt_iv) /\ Due(encrypt_iv)' /\ encrypt_iv \in IV
  BY <1>1, <1>2, <1>3 DEF Chain, Due, IInv, TypeOK
<1> QED  BY <1>1, <1>2, <1>4 DEF Steady, Encrypted, NoncesUnder

LEMMA CheckSteady ==
  ASSUME IInv, overlapped = {}, Steady, NEW t \in Threads, Check(t), ~raced'
  PROVE  Steady'
<1>1. /\ pc[t] = "check" /\ UNCHANGED <<reg, packet, encrypt_iv, key, loop, sent>>
      /\ \A u \in Threads \ {t} : pc'[u] = pc[u]
  BY DEF Check, At, Go, IInv, TypeOK
<1>2. CASE pc'[t] = "finish"
  BY <1>1, <1>2, ElsewhereSteady DEF Outside, Busy
<1>3. CASE pc'[t] = "load"
  <2>1. loop # "setKey"
    BY <1>3 DEF Check, Go, IInv, TypeOK
  <2>2. \A u \in Threads : pc[u] \notin Busy /\ (pc'[u] \in Busy => u = t)
    BY <1>1, OneAtATime DEF Busy
  <2>3. PICK x \in IV : Chain(Had, x) /\ Due(x)
    BY <2>1 DEF Steady
  <2>4. encrypt_iv = x /\ reg[t].digit = 1
    BY <1>1, <2>2, <2>3 DEF Due, Busy, Steady
  <2>5. From(encrypt_iv, reg[t].digit) = Succ(x)
    BY <2>4, FromFirst
  <2>6. Had' = Had
    BY <1>1, <1>3, <2>2 DEF Had, NoncesUnder, Encrypted, Busy
  <2>7. Due(x)'
    BY <1>1, <1>3, <2>2, <2>5 DEF Due, Busy
  <2>8. \A u \in Threads :
          /\ reg'[u].digit = 1 /\ pc'[u] # "store" /\ pc'[u] \notin {"cipher", "label", "send"}
    BY <1>1, <1>3, <2>2 DEF Steady, Busy
  <2> QED  BY <1>1, <2>1, <2>3, <2>6, <2>7, <2>8 DEF Steady, Encrypted
<1> QED  BY <1>2, <1>3 DEF Check, Go, At, IInv, TypeOK

LEMMA LoadSteady ==
  ASSUME IInv, overlapped = {}, Steady, NEW t \in Threads, Load(t), fault' = "none"
  PROVE  Steady'
<1>1. /\ pc[t] = "load" /\ pc' = [pc EXCEPT ![t] = "store"]
      /\ reg' = [reg EXCEPT ![t].value = encrypt_iv[reg[t].digit]]
      /\ UNCHANGED <<packet, encrypt_iv, key, loop, sent>>
  BY DEF Load, At, Go, history
<1>2. /\ pc'[t] = "store" /\ \A u \in Threads \ {t} : pc'[u] = pc[u] /\ reg'[u] = reg[u]
      /\ reg'[t].digit = reg[t].digit /\ reg'[t].value = encrypt_iv[reg[t].digit]
  BY <1>1 DEF IInv, TypeOK
<1>3. \A u \in Threads \ {t} : pc[u] \notin Busy
  BY <1>1, OneAtATime DEF Busy
<1>4. PICK x \in IV : Chain(Had, x) /\ Due(x)
  BY <1>1 DEF Steady
<1>5. Had' = Had
  BY <1>1, <1>2, <1>3 DEF Had, NoncesUnder, Encrypted, Busy
<1>6. Due(x)'
  BY <1>1, <1>2, <1>3, <1>4 DEF Due, Busy
<1>7. loop # "setKey"
  BY <1>1 DEF Steady
<1> QED  BY <1>1, <1>2, <1>3, <1>4, <1>5, <1>6, <1>7 DEF Steady, Busy, Encrypted

LEMMA StoreSteady ==
  ASSUME IInv, overlapped = {}, Steady, NEW t \in Threads, Store(t)
  PROVE  Steady'
<1> DEFINE d == reg[t].digit
           v == Successor(encrypt_iv[d])
<1>1. /\ pc[t] = "store" /\ d \in 1..Digits /\ encrypt_iv \in IV /\ reg[t].value = encrypt_iv[d]
      /\ loop # "setKey" /\ UNCHANGED <<packet, key, loop, sent>>
  BY DEF Store, At, history, Steady, IInv, TypeOK
<1>2. encrypt_iv' = [encrypt_iv EXCEPT ![d] = v]
  BY <1>1 DEF Store
<1>3. \A u \in Threads \ {t} : pc[u] \notin Busy
  BY <1>1, OneAtATime DEF Busy
<1>4. PICK x \in IV : Chain(Had, x) /\ Due(x)
  BY <1>1 DEF Steady
<1>5. From(encrypt_iv, d) = Succ(x)
  BY <1>1, <1>4 DEF Due
<1>6. CASE Carries(v, d)
  <2>1. pc' = [pc EXCEPT ![t] = "load"] /\ reg' = [reg EXCEPT ![t].digit = d + 1]
    BY <1>1, <1>6 DEF Store, Go
  <2>2. /\ pc'[t] = "load" /\ reg'[t].digit = d + 1
        /\ \A u \in Threads \ {t} : pc'[u] = pc[u] /\ reg'[u] = reg[u]
    BY <2>1 DEF IInv, TypeOK
  <2>3. From(encrypt_iv', d + 1) = Succ(x)
    <3> HIDE DEF d
    <3> QED  BY <1>1, <1>2, <1>5, <1>6, FromDigit
  <2> HIDE DEF d, v
  <2>4. Had' = Had
    BY <1>1, <1>3, <2>2 DEF Had, NoncesUnder, Encrypted, Busy
  <2>5. Due(x)'
    BY <1>3, <2>2, <2>3 DEF Due, Busy
  <2> QED  BY <1>1, <1>3, <1>4, <2>2, <2>4, <2>5 DEF Steady, Busy, Encrypted
<1>7. CASE ~Carries(v, d)
  <2>1. pc' = [pc EXCEPT ![t] = "cipher"] /\ reg' = [reg EXCEPT ![t] = Idle]
    BY <1>1, <1>7 DEF Store, Go
  <2>2. /\ pc'[t] = "cipher" /\ reg'[t].digit = 1
        /\ \A u \in Threads \ {t} : pc'[u] = pc[u] /\ reg'[u] = reg[u]
    BY <2>1 DEF IInv, TypeOK, Idle
  <2>3. encrypt_iv' = Succ(x)
    <3> HIDE DEF d
    <3> QED  BY <1>1, <1>2, <1>5, <1>7, FromDigit
  <2> HIDE DEF d, v
  <2>4. Had' = Had
    BY <1>1, <1>3, <2>2 DEF Had, NoncesUnder, Encrypted, Busy
  <2>5. Due(x)'
    BY <1>3, <2>2, <2>3 DEF Due, Busy
  <2> QED  BY <1>1, <1>3, <1>4, <2>2, <2>4, <2>5 DEF Steady, Busy, Encrypted
<1> QED  BY <1>6, <1>7

(* The nonce that comes next is new, or none is left. *)
LEMMA CipherSteady ==
  ASSUME IInv, SentOK, overlapped = {}, Steady, NEW t \in Threads, Cipher(t)
  PROVE  Steady'
<1> DEFINE e == encrypt_iv
           U == NoncesUnder(key)
<1>1. /\ pc[t] = "cipher" /\ pc' = [pc EXCEPT ![t] = "label"]
      /\ packet' = [packet EXCEPT ![t] = [key |-> key, iv |-> e, shown |-> 0]]
      /\ UNCHANGED <<reg, encrypt_iv, key, loop, sent>>
  BY DEF Cipher, At, Go, history
<1>2. /\ pc'[t] = "label" /\ packet'[t].key = key /\ packet'[t].iv = e
      /\ \A u \in Threads \ {t} : pc'[u] = pc[u] /\ packet'[u] = packet[u]
  BY <1>1 DEF IInv, TypeOK
<1>3. \A u \in Threads \ {t} : pc[u] \notin Busy
  BY <1>1, OneAtATime DEF Busy
<1>4. loop # "setKey" /\ e \in IV
  BY <1>1 DEF Steady, IInv, TypeOK
<1>5. PICK x \in IV : Chain(Had, x) /\ Due(x)
  BY <1>4 DEF Steady
<1>6. Had = U /\ e = Succ(x)
  BY <1>1, <1>3, <1>5 DEF Had, Due, Encrypted, Busy
<1>7. Had' = U \cup {e}
  BY <1>1, <1>2, <1>3 DEF Had, NoncesUnder, Encrypted, Busy
<1>8. Chain(Had', e)
  BY <1>5, <1>6, <1>7 DEF Chain
<1>9. Due(e)'
  BY <1>1, <1>2, <1>3 DEF Due, Busy
<1>10. e \in U => U = IV
  <2>1. U \subseteq IV /\ IsFiniteSet(U)
    <3>1. U \subseteq IV
      BY DEF NoncesUnder, IInv, TypeOK
    <3>2. IsFiniteSet(U)
      BY NoncesFinite
    <3> QED  BY <3>1, <3>2
  <2>2. e \in U => \A u \in U : Succ(u) \in U
    BY <1>5, <1>6 DEF Chain
  <2> HIDE DEF U
  <2> QED  BY <2>1, <2>2, OneCycle
<1>11. U' = U
  BY <1>1 DEF NoncesUnder
<1>12. NoncesUnder(packet[t].key)' = U'
  BY <1>1, <1>2
<1> QED
  BY <1>1, <1>2, <1>3, <1>4, <1>8, <1>9, <1>10, <1>11, <1>12 DEF Steady, Busy, Encrypted

LEMMA LabelSteady ==
  ASSUME IInv, overlapped = {}, Steady, NEW t \in Threads, Label(t)
  PROVE  Steady'
<1>1. /\ pc[t] = "label" /\ pc' = [pc EXCEPT ![t] = "send"]
      /\ packet' = [packet EXCEPT ![t].shown = encrypt_iv[1]]
      /\ UNCHANGED <<reg, encrypt_iv, key, loop, sent>>
  BY DEF Label, ShownDigit, At, Go, history
<1>2. /\ pc'[t] = "send" /\ packet'[t].key = packet[t].key /\ packet'[t].iv = packet[t].iv
      /\ packet'[t].shown = encrypt_iv[1]
      /\ \A u \in Threads \ {t} : pc'[u] = pc[u] /\ packet'[u] = packet[u]
  BY <1>1 DEF IInv, TypeOK
<1>3. \A u \in Threads \ {t} : pc[u] \notin Busy
  BY <1>1, OneAtATime DEF Busy
<1>4. loop # "setKey" /\ packet[t].iv = encrypt_iv
  BY <1>1 DEF Steady
<1>5. PICK x \in IV : Chain(Had, x) /\ Due(x)
  BY <1>4 DEF Steady
<1>6. \A k : NoncesUnder(k)' = NoncesUnder(k)
  BY <1>1 DEF NoncesUnder
<1>7. Had' = Had
  BY <1>1, <1>2, <1>3 DEF Had, NoncesUnder, Encrypted, Busy
<1>8. Due(x)'
  BY <1>1, <1>2, <1>3, <1>5 DEF Due, Busy
<1>9. packet[t].iv \in NoncesUnder(packet[t].key) => NoncesUnder(packet[t].key) = IV
  BY <1>1 DEF Steady, Encrypted
<1>10. \A u \in Threads :
         /\ reg'[u].digit = 1 /\ pc'[u] \notin {"load", "store", "cipher", "label"}
         /\ pc'[u] = "send" => u = t
  BY <1>1, <1>2, <1>3 DEF Steady, Busy
<1>11. packet'[t].iv \in NoncesUnder(packet[t].key)' => NoncesUnder(packet[t].key)' = IV
  <2>1. NoncesUnder(packet[t].key)' = NoncesUnder(packet[t].key)
    BY <1>1, <1>2 DEF NoncesUnder
  <2> QED  BY <1>2, <1>9, <2>1
<1> QED
  BY <1>1, <1>2, <1>4, <1>5, <1>7, <1>8, <1>10, <1>11 DEF Steady, Encrypted

LEMMA SendSteady ==
  ASSUME IInv, overlapped = {}, Steady, NEW t \in Threads, Send(t), fault' = "none"
  PROVE  Steady'
<1>1. /\ pc[t] = "send" /\ pc' = [pc EXCEPT ![t] = "check"]
      /\ sent' = sent \cup {packet[t]} /\ packet' = [packet EXCEPT ![t] = NoPacket]
      /\ UNCHANGED <<reg, encrypt_iv, key, loop>>
  BY DEF Send, At, Go
<1>2. pc'[t] = "check" /\ \A u \in Threads \ {t} : pc'[u] = pc[u] /\ packet'[u] = packet[u]
  BY <1>1 DEF IInv, TypeOK
<1>3. \A u \in Threads \ {t} : pc[u] \notin Busy
  BY <1>1, OneAtATime DEF Busy
<1>4. NoncesUnder(key)' = NoncesUnder(key) \cup (IF packet[t].key = key THEN {packet[t].iv} ELSE {})
  BY <1>1 DEF NoncesUnder
<1>5. Had' = Had
  <2>1. Had' = NoncesUnder(key)'
    BY <1>1, <1>2, <1>3 DEF Had, Encrypted, Busy
  <2>2. {packet[u].iv : u \in {w \in Threads : pc[w] \in Encrypted /\ packet[w].key = key}}
          = IF packet[t].key = key THEN {packet[t].iv} ELSE {}
    BY <1>1, <1>3 DEF Encrypted, Busy
  <2> QED  BY <1>4, <2>1, <2>2 DEF Had
<1>6. \A x : Due(x) => Due(x)'
  BY <1>1, <1>2, <1>3 DEF Due, Busy
<1>7. \A u \in Threads : pc'[u] \notin Busy /\ reg'[u].digit = 1
  BY <1>1, <1>2, <1>3 DEF Steady, Busy
<1>8. loop' # "setKey" => \E x \in IV : Chain(Had', x) /\ Due(x)'
  BY <1>1, <1>5, <1>6 DEF Steady
<1> QED  BY <1>7, <1>8 DEF Steady, Busy, Encrypted

LEMMA FinishSteady ==
  ASSUME IInv, Steady, NEW t \in Threads, Finish(t)
  PROVE  Steady'
<1>1. /\ pc[t] = "finish" /\ pc'[t] = "ended" /\ \A u \in Threads \ {t} : pc'[u] = pc[u]
      /\ UNCHANGED <<reg, packet, encrypt_iv, key, loop, sent>>
  BY DEF Finish, At, Go, history, IInv, TypeOK
<1> QED  BY <1>1, ElsewhereSteady DEF Outside, Busy

LEMMA SteadyStep ==
  ASSUME IInv, SentOK, Alone => Steady, [Next]_vars, Alone'
  PROVE  Steady'
<1>1. Alone
  BY Monotone DEF Alone, IInv, vars
<1>2. Steady /\ overlapped = {} /\ fault' = "none" /\ ~raced' /\ overlapped' = {}
  BY <1>1 DEF Alone
<1>3. ASSUME NEW t \in Threads, NEW n, Play(t, n) PROVE Steady'
  <2>1. /\ pc[t] = "none" /\ pc'[t] = "asked" /\ \A u \in Threads \ {t} : pc'[u] = pc[u]
        /\ loop # "setKey" /\ loop' # "setKey" /\ UNCHANGED <<reg, packet, encrypt_iv, key, sent>>
    BY <1>3 DEF Play, Message, IInv, TypeOK
  <2> QED  BY <1>2, <2>1, ElsewhereSteady DEF Outside, Busy
<1>4. CASE Stop \/ Text \/ Comment \/ Quit \/ DeleteClient \/ Exit \/ UNCHANGED vars
  <2>1. /\ UNCHANGED <<pc, reg, packet, encrypt_iv, key, sent>>
        /\ loop' = "setKey" <=> loop = "setKey"
    BY <1>4 DEF Stop, Text, Comment, Quit, DeleteClient, Exit, Message, threadVars, history, vars
  <2> QED  BY <1>2, <2>1, ElsewhereSteady
<1>5. ASSUME NEW t \in Threads, Start(t) PROVE Steady'
  <2>1. /\ pc[t] = "asked" /\ pc'[t] = "check" /\ \A u \in Threads \ {t} : pc'[u] = pc[u]
        /\ loop # "setKey" /\ loop' # "setKey" /\ UNCHANGED <<reg, packet, encrypt_iv, key, sent>>
    BY <1>5 DEF Start, history, IInv, TypeOK
  <2> QED  BY <1>2, <2>1, ElsewhereSteady DEF Outside, Busy
<1> QED
  BY <1>2, <1>3, <1>4, <1>5, SetIVSteady, SetScheduleSteady, CheckSteady, LoadSteady, StoreSteady,
     CipherSteady, LabelSteady, SendSteady, FinishSteady DEF Next, Step

LEMMA SentStep ==
  ASSUME IInv, SentOK, [Next]_vars
  PROVE  SentOK'
<1>1. CASE UNCHANGED <<key, sent>> /\ \A u \in Threads :
             pc'[u] \in Encrypted => packet'[u].key = packet[u].key /\ pc[u] \in Encrypted
  BY <1>1 DEF SentOK
<1>2. ASSUME NEW t \in Threads, NEW n, Play(t, n) PROVE SentOK'
  <2>1. /\ pc'[t] = "asked" /\ \A u \in Threads \ {t} : pc'[u] = pc[u]
        /\ UNCHANGED <<packet, key, sent>>
    BY <1>2 DEF Play, IInv, TypeOK
  <2> QED  BY <1>1, <2>1 DEF Encrypted
<1>3. CASE Stop \/ Text \/ Comment \/ Quit \/ DeleteClient \/ Exit \/ (\E iv \in IV : SetIV(iv))
           \/ UNCHANGED vars
  <2>1. UNCHANGED <<pc, packet, key, sent>>
    BY <1>3 DEF Stop, Text, Comment, Quit, DeleteClient, Exit, SetIV, threadVars, history, vars
  <2> QED  BY <1>1, <2>1
<1>4. CASE SetSchedule
  <2>1. UNCHANGED <<pc, packet, sent>> /\ key' = key + 1
    BY <1>4 DEF SetSchedule, threadVars
  <2>2. key' \in Nat \ {0} /\ 1..key \subseteq 1..key'
    BY <2>1 DEF SentOK
  <2> QED  BY <2>1, <2>2 DEF SentOK
<1>5. ASSUME NEW t \in Threads, Check(t) \/ Load(t) \/ Store(t) \/ Finish(t) PROVE SentOK'
  <2>1. UNCHANGED <<packet, key, sent>> /\ pc' \in {[pc EXCEPT ![t] = l] : l \in Labels \ Encrypted}
    BY <1>5 DEF Check, Load, Store, Finish, At, Go, history, Labels, Encrypted, IInv, TypeOK
  <2>2. \A u \in Threads : pc'[u] \in Encrypted => pc[u] \in Encrypted
    BY <2>1 DEF IInv, TypeOK
  <2> QED  BY <1>1, <2>1, <2>2
<1>6. ASSUME NEW t \in Threads, Cipher(t) PROVE SentOK'
  <2>1. /\ packet'[t].key = key /\ UNCHANGED <<key, sent>>
        /\ \A u \in Threads \ {t} : pc'[u] = pc[u] /\ packet'[u] = packet[u]
    BY <1>6 DEF Cipher, Go, history, IInv, TypeOK
  <2> QED  BY <2>1 DEF SentOK
<1>7. ASSUME NEW t \in Threads, Label(t) PROVE SentOK'
  <2>1. /\ pc[t] \in Encrypted /\ packet'[t].key = packet[t].key /\ UNCHANGED <<key, sent>>
        /\ \A u \in Threads \ {t} : pc'[u] = pc[u] /\ packet'[u] = packet[u]
    BY <1>7 DEF Label, At, Go, history, IInv, TypeOK, Encrypted
  <2> QED  BY <2>1 DEF SentOK
<1>8. ASSUME NEW t \in Threads, Send(t) PROVE SentOK'
  <2>1. /\ pc[t] \in Encrypted /\ pc'[t] \notin Encrypted /\ UNCHANGED key
        /\ sent' \in {sent, sent \cup {packet[t]}}
        /\ \A u \in Threads \ {t} : pc'[u] = pc[u] /\ packet'[u] = packet[u]
    BY <1>8 DEF Send, At, Go, history, IInv, TypeOK, Encrypted
  <2>2. IsFiniteSet(sent')
    BY <2>1, FS_AddElement DEF SentOK
  <2> QED  BY <2>1, <2>2 DEF SentOK
<1>9. ASSUME NEW t \in Threads, Start(t) PROVE SentOK'
  <2>1. /\ pc'[t] = "check" /\ \A u \in Threads \ {t} : pc'[u] = pc[u]
        /\ UNCHANGED <<packet, key, sent>>
    BY <1>9 DEF Start, history, IInv, TypeOK
  <2> QED  BY <1>1, <2>1 DEF Encrypted
<1> QED  BY <1>2, <1>3, <1>4, <1>5, <1>6, <1>7, <1>8, <1>9 DEF Next, Step

LEMMA OnceStep ==
  ASSUME NonceInv, [Next]_vars
  PROVE  NonceOnce'
<1> SUFFICES ASSUME overlapped' = {}, ~raced'
             PROVE  /\ reused' => \E k \in 1..key' : NoncesUnder(k)' = IV
                    /\ \A p \in sent' : p.shown = p.iv[1]
  BY DEF NonceOnce
<1>1. overlapped = {} /\ ~raced
  BY Monotone DEF NonceInv, IInv
<1>2. /\ reused => \E k \in 1..key : NoncesUnder(k) = IV
      /\ \A p \in sent : p.shown = p.iv[1]
  BY <1>1 DEF NonceInv, NonceOnce
<1>3. /\ sent \subseteq sent' /\ key' \in {key, key + 1}
  BY Monotone DEF NonceInv, IInv
<1>4. \A k \in 1..key : NoncesUnder(k) = IV => k \in 1..key' /\ NoncesUnder(k)' = IV
  <2>1. \A p \in sent' : p.iv \in IV
    BY StepInv DEF NonceInv, IInv, TypeOK
  <2>2. \A k : NoncesUnder(k) \subseteq NoncesUnder(k)' /\ NoncesUnder(k)' \subseteq IV
    BY <1>3, <2>1 DEF NoncesUnder
  <2>3. key \in Nat
    BY DEF NonceInv, IInv, TypeOK
  <2> QED  BY <1>3, <2>2, <2>3
<1>5. CASE UNCHANGED <<sent, reused>>
  BY <1>2, <1>4, <1>5
<1>6. ASSUME NEW t \in Threads, Send(t), ~UNCHANGED <<sent, reused>>
      PROVE  /\ reused' => \E k \in 1..key' : NoncesUnder(k)' = IV
             /\ \A p \in sent' : p.shown = p.iv[1]
  <2>1. /\ fault = "none" /\ pc[t] = "send" /\ sent' = sent \cup {packet[t]}
        /\ reused' => reused \/ \E p \in sent : SameNonce(p, packet[t])
    BY <1>6 DEF Send, At, Running
  <2>2. Steady /\ packet[t].key \in 1..key
    BY <1>1, <2>1 DEF NonceInv, Alone, SentOK, Encrypted
  <2>3. packet[t].shown = packet[t].iv[1]
    BY <2>1, <2>2 DEF Steady
  <2>4. (\E p \in sent : SameNonce(p, packet[t])) => NoncesUnder(packet[t].key) = IV
    BY <2>1, <2>2 DEF SameNonce, NoncesUnder, Steady, Encrypted
  <2> QED  BY <1>2, <1>4, <2>1, <2>2, <2>3, <2>4
<1> QED
  BY <1>5, <1>6 DEF Next, Play, Start, Stop, Text, Comment, Quit, DeleteClient, Exit, SetIV,
     SetSchedule, Step, Check, Load, Store, Cipher, Label, Finish, history, vars

LEMMA InitNonce == Init => NonceInv
<1> SUFFICES ASSUME Init PROVE NonceInv
  OBVIOUS
<1>1. /\ key = 1 /\ sent = {} /\ ~reused /\ encrypt_iv \in IV
      /\ \A t \in Threads : pc[t] = "none" /\ reg[t].digit = 1
  BY DEF Init, Idle
<1>2. SentOK
  BY <1>1, FS_EmptySet DEF SentOK, Encrypted
<1>3. Had = {}
  BY <1>1 DEF Had, NoncesUnder, Encrypted
<1>4. Chain(Had, encrypt_iv) /\ Due(encrypt_iv)
  BY <1>1, <1>3 DEF Chain, Due
<1>5. Steady
  BY <1>1, <1>4 DEF Steady, Encrypted
<1> QED  BY <1>1, <1>2, <1>5, InitInv DEF NonceInv, NonceOnce

LEMMA NonceAlways == Spec => []NonceInv
<1>1. NonceInv /\ [Next]_vars => NonceInv'
  BY StepInv, SentStep, SteadyStep, OnceStep DEF NonceInv
<1> QED  BY <1>1, InitNonce, PTL DEF Spec

----------------------------------------------------------------------------
(* The variables keep their types; digits and bytes do not leave their range. *)
THEOREM TypeCorrect == Spec => []TypeOK
<1>1. IInv => TypeOK
  BY DEF IInv
<1> QED  BY <1>1, InvAlways, PTL

(* A "play" is never ignored because of a flag that nobody will reset. *)
THEOREM FlagHasThreadAlways == Spec => []FlagHasThread
<1>1. IInv => FlagHasThread
  BY DEF IInv
<1> QED  BY <1>1, InvAlways, PTL

(* Playbacks that run alone play to their end or to a "stop". *)
THEOREM BreaksOffForAReasonAlways == Spec => []BreaksOffForAReason
<1>1. IInv => BreaksOffForAReason
  BY DEF IInv
<1> QED  BY <1>1, InvAlways, PTL

(* Without a playback at the time of "quit" no thread touches what is gone,  *)
(* except the socket by a playback started behind the "quit", before the      *)
(* assertion at the end of the same callback.                                *)
THEOREM CrashOnlyAbandonedAlways == Spec => []CrashOnlyAbandoned
<1>1. IInv => CrashOnlyAbandoned
  BY DEF IInv
<1> QED  BY <1>1, InvAlways, PTL

(* With one playback at a time and no key set while it encrypts, a nonce     *)
(* comes again under its key only when that key has none left: incrementing   *)
(* digit by digit goes through all of them.  And the byte in front of a      *)
(* packet is the first of its nonce.                                         *)
THEOREM NonceOnceAlways == Spec => []NonceOnce
<1>1. NonceInv => NonceOnce
  BY DEF NonceInv
<1> QED  BY <1>1, NonceAlways, PTL
=============================================================================
