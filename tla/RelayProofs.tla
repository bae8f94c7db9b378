----------------------------- MODULE RelayProofs -----------------------------
(***************************************************************************)
(* Proofs about module Relay, for any number of packets and pings.          *)
(***************************************************************************)
EXTENDS Relay, SequenceTheorems, TLAPS

(* From the test of the queue to the pop its front is there. *)
HasFront == thread \in {"append", "write", "pop"} => relay_queue # <<>>

(* What is between the test of send_queue_ and the start of a write: the    *)
(* caller knows whether a write is outstanding, and nobody starts another.   *)
FrontWritten(yes) == writes = IF yes THEN <<Head(send_queue_)>> ELSE <<>>
Sending(place, known) ==
  /\ place = "append" => FrontWritten(known) /\ (known <=> send_queue_ # <<>>)
  /\ place = "write" => FrontWritten(known) /\ send_queue_ # <<>>

Calm ==
  /\ ~crashed /\ ~(RelaySends /\ LoopSends)
  /\ ~RelaySends /\ ~LoopSends => FrontWritten(send_queue_ # <<>>)
  /\ Sending(thread, busy) /\ Sending(loop, loopBusy)
  /\ loop = "completed" => writes = <<>>
CalmUnlessRaced == ~raced => Calm

Messages == -MaxPings..MaxRelayed

(* The loop's messages have numbers from 1 on. *)
PingCounted == loop = "append" => pings > 0

IInv == TypeOK /\ HasFront /\ NoLostWakeup /\ CalmUnlessRaced /\ PingCounted

USE ConstantsAssumption

LEMMA InitInv == Init => IInv
<1> SUFFICES ASSUME Init PROVE IInv
  OBVIOUS
<1>1. /\ locked \in BOOLEAN /\ busy \in BOOLEAN /\ loopBusy \in BOOLEAN
      /\ crashed \in BOOLEAN /\ raced \in BOOLEAN
  BY Zenon DEF Init
<1>2. TypeOK
  <2>1. ~locked
    BY Zenon DEF Init
  <2>2. locked <=> thread \in {"test", "append", "write", "pop"}
    BY <2>1 DEF Init
  <2>3. relay_queue \in Seq(1..MaxRelayed)
        /\ {send_queue_, writes, wire, popped} \subseteq Seq(-MaxPings..MaxRelayed)
    BY DEF Init
  <2> QED  BY <1>1, <2>2, <2>3 DEF Init, TypeOK
<1>3. Calm
  BY DEF Init, Calm, RelaySends, LoopSends, Sending, FrontWritten
<1> QED  BY <1>2, <1>3 DEF Init, IInv, HasFront, NoLostWakeup, CalmUnlessRaced, PingCounted

(* The sequences of messages are that. *)
LEMMA Typed ==
  TypeOK <=>
    /\ relay_queue \in Seq(1..MaxRelayed)
    /\ locked \in BOOLEAN /\ (locked <=> thread \in {"test", "append", "write", "pop"})
    /\ thread \in {"start", "woken", "test", "waiting", "append", "write", "pop"}
    /\ loop \in {"idle", "notify", "completed", "append", "write"}
    /\ busy \in BOOLEAN /\ loopBusy \in BOOLEAN /\ crashed \in BOOLEAN /\ raced \in BOOLEAN
    /\ send_queue_ \in Seq(Messages) /\ writes \in Seq(Messages)
    /\ wire \in Seq(Messages) /\ popped \in Seq(Messages)
    /\ received \in 0..MaxRelayed /\ pings \in 0..MaxPings
BY Zenon DEF TypeOK, Messages

LEMMA Part ==
  ASSUME NEW S, NEW s \in Seq(S), NEW m \in Int, NEW n \in Int, 1 <= m, m <= n + 1, n <= Len(s)
  PROVE  /\ SubSeq(s, m, n) \in Seq(S) /\ Len(SubSeq(s, m, n)) = n - m + 1
         /\ \A k \in 1..(n - m + 1) : SubSeq(s, m, n)[k] = s[m + k - 1]
<1>1. \A k \in m..n : s[k] \in S
  BY ElementOfSeq
<1>2. /\ SubSeq(s, m, n) \in Seq(S)
      /\ Len(SubSeq(s, m, n)) = IF m <= n THEN n - m + 1 ELSE 0
      /\ \A k \in 1..(n - m + 1) : SubSeq(s, m, n)[k] = s[m + k - 1]
  BY <1>1, SubSeqProperties
<1>3. m <= n \/ n - m + 1 = 0
  OBVIOUS
<1> QED  BY <1>2, <1>3

LEMMA Removed ==
  ASSUME NEW S, NEW s \in Seq(S), NEW i \in 1..Len(s)
  PROVE  RemoveAt(s, i) \in Seq(S) /\ Len(RemoveAt(s, i)) = Len(s) - 1
<1>1. PICK n \in Nat, h \in Nat, k \in Nat : n = Len(s) /\ h = i - 1 /\ k = i + 1 /\ i \in 1..n
  OBVIOUS
<1>2. PICK u \in Seq(S) : u = SubSeq(s, 1, h) /\ Len(u) = h
  <2>1. 1 \in Int /\ h \in Int /\ 1 <= 1 /\ 1 <= h + 1 /\ h <= Len(s) /\ h - 1 + 1 = h
    BY <1>1
  <2>2. SubSeq(s, 1, h) \in Seq(S) /\ Len(SubSeq(s, 1, h)) = h - 1 + 1
    BY <2>1, Part
  <2> QED  BY <2>1, <2>2, Zenon
<1>3. PICK v \in Seq(S) : v = SubSeq(s, k, n) /\ Len(v) = n - i
  <2>1. k \in Int /\ n \in Int /\ 1 <= k /\ k <= n + 1 /\ n <= Len(s) /\ n - k + 1 = n - i
    BY <1>1
  <2>2. SubSeq(s, k, n) \in Seq(S) /\ Len(SubSeq(s, k, n)) = n - k + 1
    BY <2>1, Part
  <2> QED  BY <2>1, <2>2, Zenon
<1>4. RemoveAt(s, i) = u \o v
  BY <1>1, <1>2, <1>3 DEF RemoveAt
<1>5. u \o v \in Seq(S) /\ Len(u \o v) = Len(u) + Len(v)
  BY ConcatProperties
<1>6. h + (n - i) = n - 1
  BY <1>1
<1> QED  BY <1>1, <1>2, <1>3, <1>4, <1>5, <1>6

LEMMA SendFirstQueuedTyped ==
  ASSUME TypeOK, NEW start \in BOOLEAN, SendFirstQueued(start)
  PROVE  writes' \in Seq(Messages) /\ wire' \in Seq(Messages) /\ crashed' \in BOOLEAN
<1>1. /\ crashed \in BOOLEAN /\ writes \in Seq(Messages) /\ wire \in Seq(Messages)
      /\ send_queue_ \in Seq(Messages)
  BY Typed
<1>2. crashed' \in BOOLEAN
  BY <1>1, Zenon DEF SendFirstQueued
<1>3. writes' \in Seq(Messages) /\ wire' \in Seq(Messages)
  <2>1. CASE UNCHANGED <<writes, wire>>
    BY <1>1, <2>1
  <2>2. CASE /\ send_queue_ # <<>> /\ writes' = Append(writes, Head(send_queue_))
             /\ wire' = Append(wire, Head(send_queue_))
    <3>1. Head(send_queue_) \in Messages
      BY <1>1, <2>2
    <3> QED  BY <1>1, <2>2, <3>1
  <2> QED  BY <2>1, <2>2, Zenon DEF SendFirstQueued
<1> QED  BY <1>2, <1>3

LEMMA TypeInv == IInv /\ [Next]_vars => TypeOK'
<1> SUFFICES ASSUME IInv, [Next]_vars PROVE TypeOK'
  OBVIOUS
<1>0. TypeOK
  BY DEF IInv
<1>1. CASE Push
  BY <1>0, <1>1 DEF Push, TypeOK, sendVars
<1>2. CASE Notify
  <2> QED  BY <1>0, <1>2 DEF Notify, Notified, TypeOK, sendVars
<1>3. ASSUME NEW i \in 1..Len(writes), Complete(i) PROVE TypeOK'
  <2>1. raced' \in BOOLEAN
    BY <1>3, Zenon DEF Complete
  <2>2. writes' \in Seq(Messages)
    BY <1>0, <1>3, Typed, Removed DEF Complete
  <2>3. crashed' \in BOOLEAN
    <3>1. crashed' = TRUE \/ crashed' \in BOOLEAN
      BY <1>3, Zenon DEF Complete
    <3> QED  BY <3>1
  <2>4. send_queue_' \in Seq(Messages) /\ popped' \in Seq(Messages)
    <3>0. send_queue_ \in Seq(Messages) /\ popped \in Seq(Messages)
      BY <1>0, Typed
    <3>1. CASE UNCHANGED <<send_queue_, popped>>
      BY <3>0, <3>1
    <3>2. CASE PopFront
      <4>1. Head(send_queue_) \in Messages /\ Tail(send_queue_) \in Seq(Messages)
        BY <3>0, <3>2 DEF PopFront
      <4> QED  BY <3>0, <3>2, <4>1 DEF PopFront
    <3> QED  BY <1>3, <3>1, <3>2, Zenon DEF Complete
  <2>5. wire' \in Seq(Messages)
    BY <1>0, <1>3, Typed DEF Complete
  <2>6. {send_queue_', writes', wire', popped'} \subseteq Seq(-MaxPings..MaxRelayed)
    BY <2>2, <2>4, <2>5 DEF Messages
  <2>7. /\ UNCHANGED <<relay_queue, locked, thread, busy, loopBusy, received, pings>>
        /\ loop' = "completed"
    BY <1>3 DEF Complete, relayVars
  <2> QED  BY <1>0, <2>1, <2>3, <2>6, <2>7 DEF TypeOK
<1>4. CASE SendNext
  <2>1. (send_queue_ # <<>>) \in BOOLEAN
    BY Zenon
  <2>2. writes' \in Seq(Messages) /\ wire' \in Seq(Messages) /\ crashed' \in BOOLEAN
    BY <1>0, <1>4, <2>1, SendFirstQueuedTyped DEF SendNext
  <2> QED  BY <1>0, <1>4, <2>2 DEF SendNext, TypeOK, relayVars, Messages
<1>5. CASE PingStarts
  <2>1. raced' \in BOOLEAN /\ loopBusy' \in BOOLEAN
    BY <1>5, Zenon DEF PingStarts
  <2> QED  BY <1>0, <1>5, <2>1 DEF PingStarts, TypeOK, relayVars, sendVars
<1>6. CASE PingAppends
  <2>1. -pings \in Messages /\ send_queue_ \in Seq(Messages)
    BY <1>0, Typed DEF Messages
  <2>2. send_queue_' \in Seq(-MaxPings..MaxRelayed)
    BY <1>6, <2>1 DEF PingAppends, Messages
  <2> QED  BY <1>0, <1>6, <2>2 DEF PingAppends, TypeOK, relayVars
<1>7. CASE PingWrites
  <2>1. (~loopBusy) \in BOOLEAN
    BY Zenon
  <2>2. writes' \in Seq(Messages) /\ wire' \in Seq(Messages) /\ crashed' \in BOOLEAN
    BY <1>0, <1>7, <2>1, SendFirstQueuedTyped DEF PingWrites
  <2> QED  BY <1>0, <1>7, <2>2 DEF PingWrites, TypeOK, relayVars, Messages
<1>8. CASE Lock
  BY <1>0, <1>8 DEF Lock, TypeOK, sendVars
<1>9. CASE Wait
  BY <1>0, <1>9 DEF Wait, LockedInWait, TypeOK, sendVars
<1>10. CASE WakeSpuriously
  BY <1>0, <1>10 DEF WakeSpuriously, TypeOK, sendVars
<1>11. CASE SendStarts
  <2>1. raced' \in BOOLEAN /\ busy' \in BOOLEAN
    BY <1>11, Zenon DEF SendStarts
  <2> QED  BY <1>0, <1>11, <2>1 DEF SendStarts, TypeOK, sendVars
<1>12. CASE SendAppends
  <2>1. Head(relay_queue) \in Messages /\ send_queue_ \in Seq(Messages)
    BY <1>0, <1>12, Typed DEF SendAppends, IInv, HasFront, Messages
  <2>2. send_queue_' \in Seq(-MaxPings..MaxRelayed)
    BY <1>12, <2>1 DEF SendAppends, Messages
  <2> QED  BY <1>0, <1>12, <2>2 DEF SendAppends, TypeOK
<1>13. CASE SendWrites
  <2>1. StartsWrite \in BOOLEAN
    BY Zenon DEF StartsWrite
  <2>2. writes' \in Seq(Messages) /\ wire' \in Seq(Messages) /\ crashed' \in BOOLEAN
    BY <1>0, <1>13, <2>1, SendFirstQueuedTyped DEF SendWrites
  <2> QED  BY <1>0, <1>13, <2>2 DEF SendWrites, TypeOK, Messages
<1>14. CASE Pop
  <2>1. relay_queue' \in Seq(1..MaxRelayed)
    BY <1>14 DEF Pop, Popped, IInv, HasFront, TypeOK
  <2> QED  BY <1>0, <1>14, <2>1 DEF Pop, TypeOK, sendVars
<1>15. CASE UNCHANGED vars
  BY <1>0, <1>15 DEF vars, relayVars, sendVars, TypeOK
<1> QED
  BY <1>1, <1>2, <1>3, <1>4, <1>5, <1>6, <1>7, <1>8, <1>9, <1>10, <1>11, <1>12, <1>13, <1>14,
     <1>15 DEF Next, LoopNext, ThreadNext, WriteNext

(* The lock keeps the front in its place and the waiting thread informed; the *)
(* loop's messages are counted before they are queued.                       *)
LEMMA LockInv == IInv /\ [Next]_vars => HasFront' /\ NoLostWakeup' /\ PingCounted'
<1> SUFFICES ASSUME TypeOK, HasFront, NoLostWakeup, PingCounted, [Next]_vars
             PROVE  HasFront' /\ NoLostWakeup' /\ PingCounted'
  BY DEF IInv
<1> USE DEF HasFront, NoLostWakeup, PingCounted
<1>1. CASE Push
  BY <1>1 DEF Push, TypeOK
<1>2. CASE Notify
  BY <1>2 DEF Notify, Notified
<1>3. CASE WriteNext
  BY <1>3 DEF WriteNext, Complete, relayVars
<1>7. CASE SendNext \/ PingWrites
  BY <1>7 DEF SendNext, PingWrites, relayVars
<1>8. CASE PingStarts
  BY <1>8 DEF PingStarts, relayVars, TypeOK
<1>9. CASE PingAppends
  BY <1>9 DEF PingAppends, relayVars
<1>4. CASE Lock \/ Wait \/ WakeSpuriously
  BY <1>4 DEF Lock, Wait, WakeSpuriously
<1>5. CASE SendStarts \/ SendAppends \/ SendWrites \/ Pop
  BY <1>5 DEF SendStarts, SendAppends, SendWrites, Pop
<1>6. CASE UNCHANGED vars
  BY <1>6 DEF vars, relayVars
<1> QED
  BY <1>1, <1>2, <1>3, <1>4, <1>5, <1>6, <1>7, <1>8, <1>9 DEF Next, LoopNext, ThreadNext

(* A push does not change the front. *)
LEMMA FrontKept ==
  ASSUME NEW S, NEW s \in Seq(S), NEW x \in S
  PROVE  Append(s, x) # <<>> /\ (s # <<>> => Head(Append(s, x)) = Head(s))
<1>1. Len(Append(s, x)) = Len(s) + 1 /\ Len(s) \in Nat
  OBVIOUS
<1>2. Append(s, x) # <<>>
  BY <1>1
<1>3. ASSUME s # <<>> PROVE Append(s, x)[1] = s[1]
  BY <1>3
<1> QED  BY <1>2, <1>3

(* The first write is of the front. *)
LEMMA StartsFirst ==
  ASSUME TypeOK, ~crashed, writes = <<>>, SendFirstQueued(send_queue_ # <<>>),
         UNCHANGED send_queue_
  PROVE  ~crashed' /\ FrontWritten(send_queue_ # <<>>)'
<1>1. CASE send_queue_ = <<>>
  BY <1>1 DEF SendFirstQueued, FrontWritten
<1>2. CASE send_queue_ # <<>>
  <2>1. Head(send_queue_) \in Messages
    BY <1>2, Typed
  <2>2. writes' = Append(<<>>, Head(send_queue_)) /\ ~crashed'
    BY <1>2 DEF SendFirstQueued
  <2>3. Append(<<>>, Head(send_queue_)) = <<Head(send_queue_)>>
    BY <2>1
  <2> QED  BY <1>2, <2>2, <2>3 DEF FrontWritten
<1> QED  BY <1>1, <1>2

(* The two threads one after the other on send_queue_. *)
LEMMA CalmInv == IInv /\ [Next]_vars => CalmUnlessRaced'
<1> SUFFICES ASSUME IInv, [Next]_vars, ~raced' PROVE Calm'
  BY DEF CalmUnlessRaced
<1> USE DEF Calm, RelaySends, LoopSends, Sending, FrontWritten
<1>0. ~raced
  BY DEF Next, Push, Notify, WriteNext, Complete, SendNext, PingStarts, PingAppends, PingWrites, Lock, Wait,
    WakeSpuriously, SendStarts, SendAppends, SendWrites, Pop, LoopNext, ThreadNext, vars
<1>1. Calm /\ TypeOK
  BY <1>0 DEF IInv, CalmUnlessRaced
<1>2. CASE Push
  BY <1>1, <1>2 DEF Push, sendVars
<1>3. CASE Notify
  BY <1>1, <1>3 DEF Notify, Notified, sendVars
<1>4. ASSUME NEW i \in 1..Len(writes), Complete(i) PROVE Calm'
  <2>1. ~RelaySends /\ loop = "idle" /\ ~crashed
    BY <1>0, <1>1, <1>4 DEF Complete
  <2>2. writes \in Seq(Messages) /\ send_queue_ \in Seq(Messages)
    BY <1>1, Typed
  <2>3. send_queue_ # <<>> /\ writes = <<Head(send_queue_)>> /\ Len(writes) = 1
    <3>1. writes = IF send_queue_ # <<>> THEN <<Head(send_queue_)>> ELSE <<>>
      BY <1>1, <2>1
    <3>2. writes # <<>>
      OBVIOUS
    <3> QED  BY <3>1, <3>2
  <2>4. writes' = <<>>
    <3>1. writes' \in Seq(Messages) /\ Len(writes') = Len(writes) - 1
      BY <1>4, <2>2, Removed DEF Complete
    <3> QED  BY <2>3, <3>1
  <2>5. ToSet(writes') = {}
    BY <2>4 DEF ToSet
  <2>6. ~crashed' /\ loop' = "completed" /\ UNCHANGED <<thread, busy>>
    BY <1>4, <2>3, <2>5 DEF Complete, relayVars
  <2> QED  BY <2>1, <2>4, <2>6
<1>5. CASE SendNext
  <2>1. writes = <<>> /\ ~RelaySends
    BY <1>1, <1>5 DEF SendNext
  <2>2. ~crashed' /\ FrontWritten(send_queue_ # <<>>)'
    BY <1>1, <1>5, <2>1, StartsFirst DEF SendNext
  <2> QED  BY <1>5, <2>1, <2>2 DEF SendNext, relayVars
<1>6. CASE PingStarts
  BY <1>1, <1>6 DEF PingStarts, relayVars, sendVars
<1>7. CASE PingAppends
  <2>1. -pings \in Messages /\ send_queue_' = Append(send_queue_, -pings)
    BY <1>1, <1>7, Typed DEF PingAppends, Messages
  <2>2. /\ send_queue_' # <<>>
        /\ send_queue_ # <<>> => Head(send_queue_') = Head(send_queue_)
    BY <1>1, <2>1, Typed, FrontKept
  <2>3. /\ loop = "append" /\ loop' = "write" /\ ~crashed'
        /\ UNCHANGED <<thread, busy, loopBusy, writes>>
    BY <1>7 DEF PingAppends, relayVars
  <2>4. ~RelaySends /\ writes' = IF loopBusy THEN <<Head(send_queue_')>> ELSE <<>>
    BY <1>1, <2>2, <2>3
  <2> QED  BY <2>2, <2>3, <2>4
<1>8. CASE PingWrites
  <2>1. /\ ~RelaySends /\ send_queue_ # <<>>
        /\ writes = IF loopBusy THEN <<Head(send_queue_)>> ELSE <<>>
    BY <1>1, <1>8 DEF PingWrites
  <2>2. ~crashed' /\ FrontWritten(send_queue_ # <<>>)'
    <3>1. CASE loopBusy
      BY <1>1, <1>8, <2>1, <3>1 DEF PingWrites, SendFirstQueued
    <3>2. CASE ~loopBusy
      <4>1. SendFirstQueued(send_queue_ # <<>>)
        BY <1>8, <2>1, <3>2 DEF PingWrites, SendFirstQueued
      <4> QED  BY <1>1, <1>8, <2>1, <3>2, <4>1, StartsFirst DEF PingWrites
    <3> QED  BY <3>1, <3>2
  <2> QED  BY <1>8, <2>1, <2>2 DEF PingWrites, relayVars
<1>9. CASE Lock
  BY <1>1, <1>9 DEF Lock, sendVars
<1>10. CASE Wait \/ WakeSpuriously
  BY <1>1, <1>10 DEF Wait, WakeSpuriously, sendVars
<1>11. CASE SendStarts
  BY <1>1, <1>11 DEF SendStarts, sendVars
<1>12. CASE SendAppends
  <2>1. Head(relay_queue) \in Messages /\ send_queue_' = Append(send_queue_, Head(relay_queue))
    BY <1>1, <1>12, Typed DEF SendAppends, IInv, HasFront, Messages
  <2>2. /\ send_queue_' # <<>>
        /\ send_queue_ # <<>> => Head(send_queue_') = Head(send_queue_)
    BY <1>1, <2>1, Typed, FrontKept
  <2>3. /\ thread = "append" /\ thread' = "write" /\ ~crashed'
        /\ UNCHANGED <<loop, busy, loopBusy, writes>>
    BY <1>12 DEF SendAppends
  <2>4. ~LoopSends /\ writes' = IF busy THEN <<Head(send_queue_')>> ELSE <<>>
    BY <1>1, <2>2, <2>3
  <2> QED  BY <2>2, <2>3, <2>4
<1>13. CASE SendWrites
  <2>1. /\ ~LoopSends /\ send_queue_ # <<>>
        /\ writes = IF busy THEN <<Head(send_queue_)>> ELSE <<>>
    BY <1>1, <1>13 DEF SendWrites
  <2>2. ~crashed' /\ FrontWritten(send_queue_ # <<>>)'
    <3>1. CASE busy
      BY <1>1, <1>13, <2>1, <3>1 DEF SendWrites, SendFirstQueued, StartsWrite
    <3>2. CASE ~busy
      <4>1. SendFirstQueued(send_queue_ # <<>>)
        BY <1>13, <2>1, <3>2 DEF SendWrites, SendFirstQueued, StartsWrite
      <4> QED  BY <1>1, <1>13, <2>1, <3>2, <4>1, StartsFirst DEF SendWrites
    <3> QED  BY <3>1, <3>2
  <2> QED  BY <1>13, <2>1, <2>2 DEF SendWrites
<1>14. CASE Pop
  BY <1>1, <1>14 DEF Pop, sendVars
<1>15. CASE UNCHANGED vars
  BY <1>1, <1>15 DEF vars, relayVars, sendVars
<1> QED
  BY <1>2, <1>3, <1>4, <1>5, <1>6, <1>7, <1>8, <1>9, <1>10, <1>11, <1>12, <1>13, <1>14, <1>15
  DEF Next, LoopNext, ThreadNext, WriteNext

LEMMA InvAlways == Spec => []IInv
<1>1. IInv /\ [Next]_vars => IInv'
  BY TypeInv, LockInv, CalmInv DEF IInv
<1> QED  BY <1>1, InitInv, PTL DEF Spec

----------------------------------------------------------------------------
(* The packets on their way, in a line. *)
LEMMA Shift ==
  ASSUME NEW S, NEW a \in Seq(S), NEW b \in Seq(S), b # <<>>
  PROVE  Append(a, Head(b)) \o Tail(b) = a \o b
  OBVIOUS

LEMMA AppendLast ==
  ASSUME NEW S, NEW a \in Seq(S), NEW b \in Seq(S), NEW x \in S
  PROVE  a \o Append(b, x) = Append(a \o b, x)
  OBVIOUS

LEMMA TailAppended ==
  ASSUME NEW S, NEW s \in Seq(S), NEW x \in S, s # <<>>
  PROVE  Tail(Append(s, x)) = Append(Tail(s), x)
OBVIOUS

(* A packet newer than all in the line may be added at its end. *)
LEMMA NewestLast ==
  ASSUME NEW s \in Seq(Int), NEW n \in Nat, InOrder(s, n)
  PROVE  InOrder(Append(s, n + 1), n + 1)
<1> DEFINE t == Append(s, n + 1)
<1>1. /\ Len(s) \in Nat /\ Len(t) = Len(s) + 1 /\ t[Len(s) + 1] = n + 1
      /\ \A i \in 1..Len(s) : t[i] = s[i] /\ s[i] \in Int
  OBVIOUS
<1> HIDE DEF t
<1>2. 1..Len(t) = 1..Len(s) \cup {Len(s) + 1}
  BY <1>1
<1>3. \A i \in 1..Len(s) : s[i] <= n
  BY <1>1 DEF InOrder
<1>4. {t[i] : i \in 1..Len(t)} = {s[i] : i \in 1..Len(s)} \cup {n + 1}
  BY <1>1, <1>2
<1>5. {t[i] : i \in 1..Len(t)} \cap Nat = 1..(n + 1)
  <2>1. {s[i] : i \in 1..Len(s)} \cap Nat = 1..n
    BY DEF InOrder
  <2>2. 1..(n + 1) = 1..n \cup {n + 1} /\ n + 1 \in Nat
    OBVIOUS
  <2>3. ({s[i] : i \in 1..Len(s)} \cup {n + 1}) \cap Nat
          = ({s[i] : i \in 1..Len(s)} \cap Nat) \cup {n + 1}
    BY <2>2
  <2> QED  BY <1>4, <2>1, <2>2, <2>3
<1>6. ASSUME NEW i \in 1..Len(t), NEW j \in 1..Len(t), i < j, t[j] \in Nat
      PROVE  t[i] < t[j]
  <2>1. CASE j \in 1..Len(s)
    BY <1>1, <1>6, <2>1 DEF InOrder
  <2>2. CASE j = Len(s) + 1
    <3>1. i \in 1..Len(s)
      BY <1>1, <1>6, <2>2
    <3>2. t[i] = s[i] /\ s[i] <= n /\ s[i] \in Int /\ t[j] = n + 1
      BY <1>1, <1>3, <2>2, <3>1
    <3> QED  BY <3>2
  <2> QED  BY <1>2, <2>1, <2>2
<1> QED  BY <1>5, <1>6 DEF InOrder, t

(* A message of the loop may be put anywhere. *)
LEMMA LoopAnywhere ==
  ASSUME NEW a \in Seq(Int), NEW b \in Seq(Int), NEW n \in Nat, NEW x \in Int, x < 0,
         InOrder(a \o b, n)
  PROVE  InOrder(Append(a, x) \o b, n)
<1> DEFINE s == a \o b
           t == Append(a, x) \o b
           k == Len(a) + 1
           old(i) == IF i < k THEN i ELSE i - 1
<1>1. /\ Len(a) \in Nat /\ Len(b) \in Nat /\ Len(s) = Len(a) + Len(b) /\ Len(t) = Len(s) + 1
      /\ k \in 1..Len(t) /\ t[k] = x
  OBVIOUS
<1>2. ASSUME NEW i \in 1..Len(t), i # k
      PROVE  old(i) \in 1..Len(s) /\ t[i] = s[old(i)]
  <2>1. CASE i < k
    BY <2>1
  <2>2. CASE i > k
    BY <2>2
  <2> QED  BY <1>2, <2>1, <2>2
<1>3. \A i \in 1..Len(s) : s[i] \in Int
  OBVIOUS
<1>4. ASSUME NEW i \in 1..Len(s)
      PROVE  \E j \in 1..Len(t) : j # k /\ old(j) = i
  <2>1. CASE i < k
    BY SMTT(30), <1>1, <2>1
  <2>2. CASE i >= k
    <3>1. i + 1 \in 1..Len(t) /\ i + 1 # k /\ old(i + 1) = i
      BY <1>1, <2>2
    <3> QED  BY <3>1
  <2> QED  BY <1>1, <2>1, <2>2
<1>5. ASSUME NEW i \in 1..Len(t), NEW j \in 1..Len(t), i # k, j # k, i < j
      PROVE  old(i) < old(j)
  BY <1>1, <1>5
<1> HIDE DEF s, t, k, old
<1>6. \A i \in 1..Len(t) : t[i] \in Int
  BY <1>1, <1>2, <1>3
<1>7. {t[i] : i \in 1..Len(t)} \cap Nat = {s[i] : i \in 1..Len(s)} \cap Nat
  <2>1. ASSUME NEW i \in 1..Len(t), t[i] \in Nat PROVE \E j \in 1..Len(s) : s[j] = t[i]
    BY <1>1, <1>2, <2>1
  <2>2. ASSUME NEW j \in 1..Len(s) PROVE \E i \in 1..Len(t) : t[i] = s[j]
    BY <1>2, <1>4
  <2> QED  BY <2>1, <2>2
<1>8. InOrder(s, n)
  BY DEF s
<1>9. ASSUME NEW i \in 1..Len(t), NEW j \in 1..Len(t), i < j, t[j] \in Nat
      PROVE  t[i] < t[j]
  <2>1. j # k
    BY <1>1, <1>9
  <2>2. CASE i = k
    BY <1>1, <1>6, <1>9, <2>2
  <2>3. CASE i # k
    BY <1>2, <1>5, <1>8, <1>9, <2>1, <2>3 DEF InOrder
  <2> QED  BY <2>2, <2>3
<1> QED  BY <1>7, <1>8, <1>9 DEF InOrder, t

(* The messages in the order they were put into send_queue_, and behind them  *)
(* the packets that are not in it yet.                                       *)
Whole == popped \o send_queue_
LineInv == InOrder(Whole \o Unsent, received)

LEMMA LineTyped ==
  ASSUME IInv
  PROVE  /\ popped \in Seq(Int) /\ send_queue_ \in Seq(Int) /\ relay_queue \in Seq(Int)
         /\ wire \in Seq(Int) /\ Unsent \in Seq(Int) /\ Whole \in Seq(Int)
         /\ Len(writes) \in Nat /\ received \in Nat
<1>1. Messages \subseteq Int /\ 1..MaxRelayed \subseteq Int
  BY DEF Messages
<1>2. /\ popped \in Seq(Int) /\ send_queue_ \in Seq(Int) /\ relay_queue \in Seq(Int)
      /\ wire \in Seq(Int)
  <2>1. Seq(Messages) \subseteq Seq(Int) /\ Seq(1..MaxRelayed) \subseteq Seq(Int)
    BY <1>1, SeqMonotonic
  <2> QED  BY <2>1, Typed, Zenon DEF IInv
<1>3. Unsent \in Seq(Int)
  BY <1>2 DEF Unsent, IInv, HasFront
<1>4. Len(writes) \in Nat /\ received \in Nat
  BY Typed DEF IInv
<1> QED  BY <1>2, <1>3, <1>4 DEF Whole

LEMMA LineStep == IInv /\ LineInv /\ [Next]_vars => LineInv'
<1> SUFFICES ASSUME IInv, LineInv, [Next]_vars PROVE LineInv'
  OBVIOUS
<1>0. /\ popped \in Seq(Int) /\ send_queue_ \in Seq(Int) /\ relay_queue \in Seq(Int)
      /\ Unsent \in Seq(Int) /\ Whole \in Seq(Int) /\ InOrder(Whole \o Unsent, received)
      /\ received \in Nat
  BY LineTyped DEF LineInv
<1>1. ASSUME UNCHANGED <<popped, send_queue_, Unsent, received>> PROVE LineInv'
  BY <1>0, <1>1 DEF LineInv, Whole
<1>2. CASE Push
  <2>1. Unsent' = Append(Unsent, received + 1)
    <3>1. relay_queue' = Append(relay_queue, received + 1) /\ thread' = thread
      BY <1>2 DEF Push
    <3>2. relay_queue # <<>>
            => Tail(Append(relay_queue, received + 1)) = Append(Tail(relay_queue), received + 1)
      BY <1>0, TailAppended
    <3> QED  BY <3>1, <3>2 DEF Unsent, IInv, HasFront
  <2>2. Whole' = Whole /\ received' = received + 1
    BY <1>2 DEF Push, sendVars, Whole
  <2>3. Whole \o Append(Unsent, received + 1) = Append(Whole \o Unsent, received + 1)
    BY <1>0, AppendLast
  <2>4. InOrder(Append(Whole \o Unsent, received + 1), received + 1)
    <3>1. Whole \o Unsent \in Seq(Int)
      BY <1>0
    <3> QED  BY <1>0, <3>1, NewestLast
  <2> QED  BY <2>1, <2>2, <2>3, <2>4 DEF LineInv
<1>3. CASE WriteNext
  <2>1. UNCHANGED <<Unsent, received>>
    BY <1>3 DEF WriteNext, Complete, relayVars, Unsent
  <2>2. CASE UNCHANGED <<send_queue_, popped>>
    BY <1>1, <2>1, <2>2
  <2>3. CASE PopFront
    <3>1. Whole' = Whole
      BY <1>0, <2>3, Shift DEF PopFront, Whole
    <3> QED  BY <1>0, <2>1, <3>1 DEF LineInv
  <2> QED  BY <1>3, <2>2, <2>3, Zenon DEF WriteNext, Complete
<1>4. CASE PingAppends
  <2>1. /\ send_queue_' = Append(send_queue_, -pings) /\ UNCHANGED <<popped, Unsent, received>>
    BY <1>4 DEF PingAppends, relayVars, Unsent
  <2>2. -pings \in Int /\ -pings < 0
    BY <1>4, Typed DEF IInv, PingAppends, PingCounted
  <2>3. Whole' = Append(Whole, -pings)
    BY <1>0, <2>1, <2>2, AppendLast DEF Whole
  <2>4. InOrder(Append(Whole, -pings) \o Unsent, received)
    BY <1>0, <2>2, LoopAnywhere
  <2> QED  BY <2>1, <2>3, <2>4 DEF LineInv
<1>5. CASE SendAppends
  <2>1. /\ send_queue_' = Append(send_queue_, Head(relay_queue)) /\ UNCHANGED <<popped, received>>
        /\ relay_queue # <<>> /\ Unsent = relay_queue /\ Unsent' = Tail(relay_queue)
    BY <1>5 DEF SendAppends, Unsent, IInv, HasFront
  <2>2. Head(relay_queue) \in Int
    BY <1>0, <2>1
  <2>3. Whole' = Append(Whole, Head(relay_queue))
    <3>1. popped \o Append(send_queue_, Head(relay_queue)) = Append(Whole, Head(relay_queue))
      BY SMTT(30), <1>0, <2>2, AppendLast DEF Whole
    <3> QED  BY <2>1, <3>1 DEF Whole
  <2>4. Append(Whole, Head(relay_queue)) \o Tail(relay_queue) = Whole \o relay_queue
    BY <1>0, <2>1, Shift
  <2> QED  BY <1>0, <2>1, <2>3, <2>4 DEF LineInv
<1>6. CASE SendNext \/ PingStarts \/ PingWrites
  BY <1>1, <1>6 DEF SendNext, PingStarts, PingWrites, relayVars, sendVars, Unsent
<1>7. CASE Notify \/ Lock \/ Wait \/ WakeSpuriously
  BY <1>1, <1>7 DEF Notify, Notified, Lock, Wait, WakeSpuriously, sendVars, Unsent
<1>8. CASE SendStarts \/ SendWrites
  BY <1>1, <1>8 DEF SendStarts, SendWrites, sendVars, Unsent
<1>9. CASE Pop
  BY <1>1, <1>9 DEF Pop, Popped, sendVars, Unsent
<1>10. CASE UNCHANGED vars
  BY <1>1, <1>10 DEF vars, relayVars, sendVars, Unsent
<1> QED
  BY <1>2, <1>3, <1>4, <1>5, <1>6, <1>7, <1>8, <1>9, <1>10 DEF Next, LoopNext, ThreadNext

(* What async_write was given are messages up to the front, none after a      *)
(* newer one; and they are the first of all messages, each once, until one is *)
(* given twice.                                                              *)
UpToFront ==
  \A i \in 1..Len(wire) :
    \E p \in 1..(Len(popped) + 1) : p <= Len(Whole) /\ wire[i] = Whole[p]
NotOvertaken == \A i, j \in 1..Len(wire) : i < j /\ wire[j] \in Nat => wire[i] <= wire[j]
FirstOnce ==
  /\ Len(wire) = Len(popped) + Len(writes) /\ Len(wire) <= Len(Whole)
  /\ \A i \in 1..Len(wire) : wire[i] = Whole[i]
GivenInv == UpToFront /\ NotOvertaken /\ (FirstOnce \/ (raced /\ Doubled))

(* The front goes to async_write; with none outstanding unless raced.        *)
LEMMA GivenSent ==
  ASSUME IInv, LineInv, GivenInv, NEW start \in BOOLEAN, SendFirstQueued(start),
         UNCHANGED <<send_queue_, popped, raced>>, start => raced \/ writes = <<>>
  PROVE  GivenInv'
<1>1. CASE UNCHANGED <<writes, wire>>
  BY <1>1 DEF GivenInv, UpToFront, NotOvertaken, FirstOnce, Doubled, Whole
<1>2. CASE start /\ send_queue_ # <<>> /\ writes' = Append(writes, Head(send_queue_))
           /\ wire' = Append(wire, Head(send_queue_))
  <2>1. PICK n \in Nat, k \in Nat, f \in Int :
          /\ n = Len(wire) /\ k = Len(popped) + 1 /\ f = Head(send_queue_)
          /\ k <= Len(Whole) /\ Whole[k] = f
    <3>1. PICK a \in Seq(Int), b \in Seq(Int) : a = popped /\ b = send_queue_ /\ b # <<>>
      BY <1>2, LineTyped
    <3>2. /\ Len(a) \in Nat /\ Len(b) \in Nat /\ Len(b) >= 1 /\ Head(b) \in Int
          /\ Len(a \o b) = Len(a) + Len(b) /\ (a \o b)[Len(a) + 1] = b[1] /\ b[1] = Head(b)
      BY <3>1
    <3>3. Whole = a \o b /\ Len(wire) \in Nat
      BY <3>1, LineTyped DEF Whole
    <3>4. Len(a) + 1 \in Nat /\ Len(a) + 1 <= Len(a \o b)
      BY <3>2
    <3> QED  BY <3>1, <3>2, <3>3, <3>4
  <2>2. /\ Len(wire') = n + 1 /\ wire'[n + 1] = f
        /\ \A i \in 1..n : wire'[i] = wire[i] /\ wire[i] \in Int
        /\ Len(writes') = Len(writes) + 1 /\ Len(writes) \in Nat
    <3>1. /\ wire \in Seq(Int) /\ writes \in Seq(Messages) /\ f \in Messages
          /\ send_queue_ \in Seq(Messages)
      BY <1>2, <2>1, LineTyped, Typed DEF IInv
    <3> QED  BY <1>2, <2>1, <3>1
  <2>3. Whole' = Whole /\ Len(Whole) \in Nat /\ k >= 1
    BY <2>1, LineTyped DEF Whole
  <2>4. UpToFront'
    <3> SUFFICES ASSUME NEW i \in 1..(n + 1)
                 PROVE  \E p \in 1..k : p <= Len(Whole) /\ wire'[i] = Whole[p]
      BY <2>1, <2>2, <2>3 DEF UpToFront
    <3>1. CASE i \in 1..n
      BY <2>1, <2>2, <3>1 DEF GivenInv, UpToFront
    <3>2. CASE i = n + 1
      BY <2>1, <2>2, <2>3, <3>2
    <3> QED  BY <2>1, <3>1, <3>2
  <2>5. NotOvertaken'
    <3> SUFFICES ASSUME NEW i \in 1..(n + 1), NEW j \in 1..(n + 1), i < j, wire'[j] \in Nat
                 PROVE  wire'[i] <= wire'[j]
      BY <2>2 DEF NotOvertaken
    <3>1. CASE j \in 1..n
      BY <2>1, <2>2, <3>1 DEF GivenInv, NotOvertaken
    <3>2. CASE j = n + 1
      <4>1. PICK p \in 1..k : p <= Len(Whole) /\ wire[i] = Whole[p]
        BY <2>1, <3>2 DEF GivenInv, UpToFront
      <4>2. /\ (Whole \o Unsent)[p] = Whole[p] /\ (Whole \o Unsent)[k] = Whole[k]
            /\ Len(Whole \o Unsent) >= Len(Whole) /\ Len(Whole \o Unsent) \in Nat
        <5>1. PICK a \in Seq(Int), b \in Seq(Int) : a = Whole /\ b = Unsent
          BY LineTyped
        <5>2. /\ Len(a \o b) = Len(a) + Len(b) /\ Len(a) \in Nat /\ Len(b) \in Nat
              /\ \A q \in 1..Len(a) : (a \o b)[q] = a[q]
          OBVIOUS
        <5>3. p \in 1..Len(a) /\ k \in 1..Len(a)
          BY <2>1, <2>3, <4>1, <5>1
        <5> QED  BY <5>1, <5>2, <5>3
      <4>3. p < k => Whole[p] < Whole[k]
        BY <2>1, <2>2, <2>3, <3>2, <4>1, <4>2 DEF LineInv, InOrder
      <4> QED  BY <2>1, <2>2, <3>2, <4>1, <4>3
    <3> QED  BY <2>1, <3>1, <3>2
  <2>6. (FirstOnce \/ (raced /\ Doubled))'
    <3>1. CASE raced /\ Doubled
      BY <2>1, <2>2, <3>1 DEF Doubled
    <3>2. CASE FirstOnce /\ writes = <<>>
      <4>1. n = k - 1
        BY <2>1, <3>2 DEF FirstOnce
      <4>2. \A i \in 1..(n + 1) : wire'[i] = Whole[i]
        BY <2>1, <2>2, <3>2, <4>1 DEF FirstOnce
      <4>3. popped' = popped /\ Len(writes) = 0
        BY <3>2
      <4> QED  BY <2>1, <2>2, <2>3, <3>2, <4>1, <4>2, <4>3 DEF FirstOnce
    <3>3. CASE FirstOnce /\ raced /\ writes # <<>>
      <4>1. Len(writes) >= 1
        BY <3>3, Typed DEF IInv
      <4>2. k <= n /\ wire[k] = f
        BY <2>1, <2>2, <2>3, <3>3, <4>1 DEF FirstOnce
      <4>3. Doubled'
        BY <2>1, <2>2, <2>3, <4>2 DEF Doubled
      <4> QED  BY <3>3, <4>3
    <3> QED  BY <1>2, <3>1, <3>2, <3>3 DEF GivenInv
  <2> QED  BY <2>4, <2>5, <2>6 DEF GivenInv
<1> QED  BY <1>1, <1>2, Zenon DEF SendFirstQueued

(* A push puts a message behind all. *)
LEMMA GivenAppended ==
  ASSUME IInv, GivenInv, NEW x \in Int, send_queue_' = Append(send_queue_, x),
         UNCHANGED <<writes, wire, popped, raced>>
  PROVE  GivenInv'
<1>1. Whole' = Append(Whole, x) /\ Whole \in Seq(Int)
  BY LineTyped, AppendLast DEF Whole
<1>2. /\ Len(Whole') = Len(Whole) + 1 /\ Len(Whole) \in Nat
      /\ \A p \in 1..Len(Whole) : Whole'[p] = Whole[p]
  BY <1>1
<1>3. UpToFront'
  <2> SUFFICES ASSUME NEW i \in 1..Len(wire)
               PROVE  \E p \in 1..(Len(popped) + 1) : p <= Len(Whole') /\ wire[i] = Whole'[p]
    BY DEF UpToFront
  <2>1. PICK p \in 1..(Len(popped) + 1) : p <= Len(Whole) /\ wire[i] = Whole[p]
    BY DEF GivenInv, UpToFront
  <2> QED  BY <1>2, <2>1, LineTyped
<1>4. FirstOnce => FirstOnce'
  <2> SUFFICES ASSUME FirstOnce PROVE FirstOnce'
    OBVIOUS
  <2>1. PICK n \in Nat : n = Len(wire)
    BY LineTyped
  <2>2. \A i \in 1..n : wire[i] = Whole'[i]
    BY <1>2, <2>1 DEF FirstOnce
  <2> QED  BY <1>2, <2>1, <2>2 DEF FirstOnce
<1> QED  BY <1>3, <1>4 DEF GivenInv, NotOvertaken, Doubled

(* A write is over and the front is popped: one message less on either side. *)
LEMMA GivenCompleted ==
  ASSUME IInv, GivenInv, NEW i \in 1..Len(writes), Complete(i)
  PROVE  GivenInv'
<1>1. UNCHANGED wire /\ (raced => raced') /\ Len(writes') = Len(writes) - 1
      /\ Len(writes) \in Nat \ {0}
  BY Typed, Removed DEF IInv, Complete
<1>2. CASE send_queue_ = <<>> /\ UNCHANGED <<send_queue_, popped>>
  <2>1. ~FirstOnce
    <3>1. Len(Whole) = Len(popped) /\ Len(popped) \in Nat
      BY <1>2, LineTyped DEF Whole
    <3> QED  BY <1>1, <3>1 DEF FirstOnce
  <2> QED  BY <1>1, <1>2, <2>1 DEF GivenInv, UpToFront, NotOvertaken, Doubled, Whole
<1>3. CASE PopFront
  <2>1. Whole' = Whole
    BY <1>3, LineTyped, Shift DEF PopFront, Whole
  <2>2. Len(popped') = Len(popped) + 1 /\ Len(popped) \in Nat
    BY <1>3, LineTyped DEF PopFront
  <2>3. UpToFront'
    BY <1>1, <2>1, <2>2 DEF GivenInv, UpToFront
  <2>4. FirstOnce => FirstOnce'
    BY <1>1, <2>1, <2>2 DEF FirstOnce
  <2> QED  BY <1>1, <2>3, <2>4 DEF GivenInv, NotOvertaken, Doubled
<1> QED  BY <1>2, <1>3, Zenon DEF Complete

LEMMA GivenStep == IInv /\ LineInv /\ GivenInv /\ [Next]_vars => GivenInv'
<1> SUFFICES ASSUME IInv, LineInv, GivenInv, [Next]_vars PROVE GivenInv'
  OBVIOUS
<1>0. ~raced => Calm
  BY DEF IInv, CalmUnlessRaced
<1>1. ASSUME UNCHANGED <<send_queue_, writes, wire, popped>>, raced => raced' PROVE GivenInv'
  BY <1>1 DEF GivenInv, UpToFront, NotOvertaken, FirstOnce, Doubled, Whole
<1>2. CASE WriteNext
  BY <1>2, GivenCompleted DEF WriteNext
<1>3. CASE SendNext
  <2>1. (send_queue_ # <<>>) \in BOOLEAN
    BY Zenon
  <2>2. raced \/ writes = <<>>
    BY <1>0, <1>3 DEF SendNext, Calm
  <2> QED  BY <1>3, <2>1, <2>2, GivenSent DEF SendNext
<1>4. CASE PingWrites
  <2>1. (~loopBusy) \in BOOLEAN
    BY Zenon
  <2>2. ~loopBusy => raced \/ writes = <<>>
    BY <1>0, <1>4 DEF PingWrites, Calm, Sending, FrontWritten
  <2> QED  BY <1>4, <2>1, <2>2, GivenSent DEF PingWrites
<1>5. CASE SendWrites
  <2>1. StartsWrite \in BOOLEAN
    BY Zenon DEF StartsWrite
  <2>2. StartsWrite => raced \/ writes = <<>>
    BY <1>0, <1>5 DEF SendWrites, StartsWrite, Calm, Sending, FrontWritten
  <2> QED  BY <1>5, <2>1, <2>2, GivenSent DEF SendWrites
<1>6. CASE PingAppends
  <2>1. -pings \in Int
    BY Typed DEF IInv
  <2> QED  BY <1>6, <2>1, GivenAppended DEF PingAppends
<1>7. CASE SendAppends
  <2>1. Head(relay_queue) \in Int
    BY <1>7, LineTyped DEF SendAppends, IInv, HasFront
  <2> QED  BY <1>7, <2>1, GivenAppended DEF SendAppends
<1>8. CASE Push \/ Notify \/ Lock \/ Wait \/ WakeSpuriously \/ Pop
  BY <1>1, <1>8 DEF Push, Notify, Lock, Wait, WakeSpuriously, Pop, sendVars
<1>9. CASE PingStarts \/ SendStarts
  BY <1>1, <1>9 DEF PingStarts, SendStarts, sendVars
<1>10. CASE UNCHANGED vars
  BY <1>1, <1>10 DEF vars, sendVars
<1> QED
  BY <1>2, <1>3, <1>4, <1>5, <1>6, <1>7, <1>8, <1>9, <1>10 DEF Next, LoopNext, ThreadNext

(* The places of what is joined. *)
LEMMA Joint ==
  ASSUME NEW S, NEW a \in Seq(S), NEW b \in Seq(S)
  PROVE  /\ a \o b \in Seq(S) /\ Len(a \o b) = Len(a) + Len(b)
         /\ \A i \in 1..Len(a) : (a \o b)[i] = a[i]
         /\ \A i \in 1..Len(b) : (a \o b)[Len(a) + i] = b[i]
OBVIOUS

(* What was given and what is still to be given are the whole queue. *)
LEMMA Rest ==
  ASSUME NEW a \in Seq(Int), NEW q \in Seq(Int), NEW g \in Seq(Int), NEW w \in Nat,
         Len(g) = Len(a) + w, Len(g) <= Len(a \o q),
         \A i \in 1..Len(g) : g[i] = (a \o q)[i]
  PROVE  g \o SubSeq(q, w + 1, Len(q)) = a \o q
<1>1. PICK la \in Nat, lq \in Nat : la = Len(a) /\ lq = Len(q)
  OBVIOUS
<1>2. /\ Len(g) = la + w /\ w <= lq /\ a \o q \in Seq(Int) /\ Len(a \o q) = la + lq
      /\ \A i \in 1..lq : (a \o q)[la + i] = q[i]
  BY <1>1, ConcatProperties
<1>3. PICK u : u = SubSeq(q, w + 1, lq)
  OBVIOUS
<1>4. u \in Seq(Int) /\ Len(u) = lq - w /\ \A i \in 1..(lq - w) : u[i] = q[w + i]
  <2>1. PICK m \in Int : m = w + 1 /\ 1 <= m /\ m <= lq + 1 /\ lq - m + 1 = lq - w
    BY <1>2
  <2>2. /\ u \in Seq(Int) /\ Len(u) = lq - m + 1
        /\ \A i \in 1..(lq - m + 1) : u[i] = q[m + i - 1]
    BY <1>1, <1>3, <2>1, Part
  <2>3. \A i \in 1..(lq - w) : m + i - 1 = w + i
    BY <2>1
  <2> QED  BY <2>1, <2>2, <2>3
<1>5. /\ g \o u \in Seq(Int) /\ Len(g \o u) = la + lq
      /\ \A i \in 1..(la + w) : (g \o u)[i] = g[i]
      /\ \A i \in 1..(lq - w) : (g \o u)[la + w + i] = u[i]
  <2>0. PICK v \in Seq(Int) : v = u
    BY <1>4
  <2>1. /\ g \o v \in Seq(Int) /\ Len(g \o v) = Len(g) + Len(v)
        /\ \A i \in 1..Len(g) : (g \o v)[i] = g[i]
        /\ \A i \in 1..Len(v) : (g \o v)[Len(g) + i] = v[i]
    BY ONLY g \in Seq(Int), v \in Seq(Int), Joint
  <2>2. la + w + (lq - w) = la + lq
    BY <1>2
  <2> QED  BY <1>2, <1>4, <2>0, <2>1, <2>2
<1>6. ASSUME NEW i \in 1..(la + lq) PROVE (g \o u)[i] = (a \o q)[i]
  <2>1. CASE i <= la + w
    <3>1. i \in 1..(la + w) /\ i \in 1..Len(g)
      BY <1>2, <2>1
    <3> QED  BY <1>5, <3>1
  <2>2. CASE i > la + w
    <3>1. PICK k \in 1..(lq - w) : k = i - (la + w) /\ la + w + k = i /\ la + (w + k) = i
                                 /\ w + k \in 1..lq
      BY <1>2, <2>2
    <3>2. (g \o u)[i] = u[k] /\ u[k] = q[w + k] /\ (a \o q)[i] = q[w + k]
      BY <1>2, <1>4, <1>5, <3>1
    <3> QED  BY <3>2
  <2>3. i <= la + w \/ i > la + w
    OBVIOUS
  <2> QED  BY <2>1, <2>2, <2>3
<1> QED  BY <1>1, <1>2, <1>3, <1>5, <1>6, SeqEqual

----------------------------------------------------------------------------
(* The variables keep their types, and the thread holds the lock where it    *)
(* should.                                                                   *)
THEOREM TypeCorrect == Spec => []TypeOK
<1>1. IInv => TypeOK
  BY DEF IInv
<1> QED  BY <1>1, InvAlways, PTL

(* The relay thread never sleeps over a message. *)
THEOREM NoLostWakeupAlways == Spec => []NoLostWakeup
<1>1. IInv => NoLostWakeup
  BY DEF IInv
<1> QED  BY <1>1, InvAlways, PTL

(* One write at a time, of the front, and none missing, until the threads     *)
(* collide.                                                                  *)
THEOREM WritesUnlessRacedAlways == Spec => []WritesUnlessRaced
<1>1. IInv => WritesUnlessRaced
  <2> SUFFICES ASSUME IInv, ~raced
               PROVE  /\ ~crashed
                      /\ \A i \in 1..Len(writes) : i = 1 /\ send_queue_ # <<>>
                                                   /\ writes[i] = Head(send_queue_)
                      /\ ~RelaySends /\ ~LoopSends => (writes # <<>> <=> send_queue_ # <<>>)
    BY DEF WritesUnlessRaced
  <2>1. Calm /\ TypeOK
    BY DEF IInv, CalmUnlessRaced
  <2>2. \/ writes = <<>>
        \/ send_queue_ # <<>> /\ writes = <<Head(send_queue_)>>
    BY <2>1 DEF Calm, Sending, FrontWritten, RelaySends, LoopSends, TypeOK
  <2>3. ~RelaySends /\ ~LoopSends => (writes # <<>> <=> send_queue_ # <<>>)
    BY <2>1 DEF Calm, FrontWritten
  <2> QED  BY <2>1, <2>2, <2>3 DEF Calm
<1> QED  BY <1>1, InvAlways, PTL

(* No packet goes to async_write after a newer one; and each goes to it once, *)
(* in order, with none left out, unless the two threads used send_queue_ at   *)
(* the same time and a message was given twice.                              *)
THEOREM RelayedInOrderAlways == Spec => []RelayedInOrder
<1>1. Init => LineInv /\ GivenInv
  <2> SUFFICES ASSUME Init PROVE LineInv /\ GivenInv
    OBVIOUS
  <2>1. /\ Whole = <<>> /\ Unsent = <<>> /\ received = 0 /\ wire = <<>> /\ writes = <<>>
        /\ popped = <<>>
    BY DEF Init, Whole, Unsent
  <2>2. Len(Whole \o Unsent) = 0 /\ Len(wire) = 0 /\ Len(Whole) = 0 /\ 1..0 = {}
        /\ Len(writes) = 0 /\ Len(popped) = 0
    BY <2>1
  <2>3. LineInv
    BY <2>1, <2>2 DEF LineInv, InOrder
  <2> QED  BY <2>2, <2>3 DEF GivenInv, UpToFront, NotOvertaken, FirstOnce
<1>2. IInv /\ LineInv /\ GivenInv => RelayedInOrder
  <2> SUFFICES ASSUME IInv, LineInv, GivenInv PROVE RelayedInOrder
    OBVIOUS
  <2>1. ASSUME FirstOnce PROVE InOrder(wire \o Ungiven \o Unsent, received)
    <3>1. wire \o Ungiven = Whole
      <4>1. PICK a \in Seq(Int), q \in Seq(Int), g \in Seq(Int), w \in Nat :
              a = popped /\ q = send_queue_ /\ g = wire /\ w = Len(writes)
        BY LineTyped
      <4>2. /\ Len(g) = Len(a) + w /\ Len(g) <= Len(a \o q)
            /\ \A i \in 1..Len(g) : g[i] = (a \o q)[i]
        BY <2>1, <4>1 DEF FirstOnce, Whole
      <4>3. g \o SubSeq(q, w + 1, Len(q)) = a \o q
        BY <4>2, Rest
      <4> QED  BY <4>1, <4>3 DEF Ungiven, Whole
    <3> QED  BY <3>1 DEF LineInv
  <2> QED  BY <2>1 DEF GivenInv, NotOvertaken, RelayedInOrder
<1> QED  BY <1>1, <1>2, LineStep, GivenStep, InvAlways, PTL DEF Spec
=============================================================================
