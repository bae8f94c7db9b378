------------------------- MODULE MumbleClientProofs -------------------------
(***************************************************************************)
(* Every message of a connection is written once and in order, behind       *)
(* Version and Authenticate, by one write at a time, and never without a    *)
(* writer while the link is up; for any number of messages and connections. *)
(*                                                                           *)
(* The queue and the socket agree because of facts that no single property   *)
(* states: the queue always holds the last messages numbered (Numbered);     *)
(* the last message written is the front of the queue, or the last one made  *)
(* if the queue is empty (Started); a connection that found messages in the  *)
(* queue never starts writing (NeverStarted); a socket without a connection  *)
(* has no operation outstanding (Unconnected).                               *)
(*                                                                           *)
(* The second part is about module Resync, the handler of CryptSetup: no    *)
(* answer to a resynchronisation puts client and peer further apart, and    *)
(* which answers help, for nonces of any size.                               *)
(***************************************************************************)
EXTENDS MumbleClient, Resync, SequenceTheorems, WellFoundedInduction, TLAPS

Numbered ==
  \A i \in 1..Len(send_queue_) : send_queue_[i].n = sent - Len(send_queue_) + i

Started ==
  tcp_socket_ = "live" /\ wire # <<>> =>
    IF send_queue_ = <<>> THEN wire[Len(wire)].n = sent ELSE wire[Len(wire)] = send_queue_[1]

(* The first message of a connection waits together with the second.        *)
Opening ==
  tcp_socket_ = "live" /\ Len(wire) = 1 =>
    Len(send_queue_) >= 2 /\ send_queue_[2].type = "Authenticate"

NeverStarted ==
  tcp_socket_ = "live" /\ state_ # "kStateNew" /\ wire = <<>> =>
    send_queue_ # <<>> /\ writes = {}

Unconnected ==
  tcp_socket_ = "live" /\ state_ = "kStateNew" =>
    NoWork /\ wire = <<>> /\ pc \in {"app", "loop", "deleted"}

LinkUp ==
  link = "up" =>
    tcp_socket_ = "live" /\ state_ # "kStateNew" /\ \A w \in writes : w.st # "err"

Handshaken == state_ = "kStateHandshakeCompleted" => tcp_socket_ = "live"

Sending ==
  /\ Numbered /\ Started /\ Opening /\ NeverStarted /\ LinkUp /\ Handshaken
  /\ OneWrite /\ FifoOnce /\ HandshakeFirst /\ QueueHasWriter

IInv == TypeOK /\ Sending /\ Unconnected /\ KeepAlive

-----------------------------------------------------------------------------
(* Type correctness.                                                        *)

Write == [msg : OutMessage, st : {"pending", "ok", "err"}]

(* The part of TypeOK about the variables that a send changes.              *)
SendTypes ==
  /\ send_queue_ \in Seq(OutMessage) /\ wire \in Seq(OutMessage)
  /\ writes \subseteq Write /\ sent \in Nat
  /\ fault \in {"none", "null_deref", "wild_deref", "use_after_free", "pop_empty", "assert"}

LEMMA BatchOfMessages ==
  ASSUME sent \in Nat, NEW ts \in Seq(OutTypes)
  PROVE  /\ Batch(ts) \in Seq(OutMessage) /\ Len(Batch(ts)) = Len(ts)
         /\ \A i \in 1..Len(ts) : Batch(ts)[i] = [type |-> ts[i], n |-> sent + i]
  <1>1. Batch(ts) \in [1..Len(ts) -> OutMessage] /\ Len(ts) \in Nat
    BY DEF Batch, OutMessage
  <1>2. QED
    BY <1>1, SeqDef DEF Batch

LEMMA SendTypesKept ==
  ASSUME SendTypes, NEW ts \in Seq(OutTypes), ts # <<>>, NEW st, NEW sock,
         NEW w \in Seq(OutMessage), SendMessages(ts, st, sock, w)
  PROVE  SendTypes'
  <1>1. Batch(ts) \in Seq(OutMessage) /\ Len(Batch(ts)) = Len(ts)
    BY BatchOfMessages DEF SendTypes
  <1>2. CASE StartsWrite(st) /\ sock # "live"
    BY <1>2 DEF SendMessages, SendTypes
  <1>3. CASE ~(StartsWrite(st) /\ sock # "live")
    <2>1. /\ send_queue_' = send_queue_ \o Batch(ts) /\ sent' = sent + Len(ts) /\ fault' = fault
          /\ IF StartsWrite(st) THEN SendFirstQueued(send_queue_', writes, w)
             ELSE writes' = writes /\ wire' = w
      BY <1>3 DEF SendMessages
    <2>2. send_queue_' \in Seq(OutMessage) /\ Len(send_queue_') > 0 /\ sent' \in Nat
      BY <1>1, <2>1 DEF SendTypes
    <2>3. Head(send_queue_') \in OutMessage
      BY <2>2
    <2>4. [msg |-> Head(send_queue_'), st |-> "pending"] \in Write
      BY <2>3 DEF Write
    <2>5. writes' \subseteq Write
      BY <2>1, <2>4 DEF SendFirstQueued, SendTypes
    <2>6. wire' \in Seq(OutMessage)
      <3>1. Append(w, Head(send_queue_')) \in Seq(OutMessage)
        BY <2>3, AppendProperties
      <3>2. QED
        BY <2>1, <3>1 DEF SendFirstQueued, SendTypes
    <2>7. QED
      BY <2>1, <2>2, <2>5, <2>6 DEF SendTypes
  <1>4. QED
    BY <1>2, <1>3

LEMMA OneSent ==
  ASSUME SendTypes, NEW t \in OutTypes, SendMessage(t)
  PROVE  SendTypes'
  <1>1. <<t>> \in Seq(OutTypes) /\ <<t>> # <<>>
    OBVIOUS
  <1>2. wire \in Seq(OutMessage)
    BY DEF SendTypes
  <1>3. QED
    BY <1>1, <1>2, SendTypesKept DEF SendMessage

(* The other variables, but for the two Boolean ones.                       *)
ControlTypes ==
  /\ state_ \in {"kStateNew", "kStateHandshakeCompleted", "kStateAuthenticated"}
  /\ tcp_socket_ \in {"wild", "live", "null"} /\ udp_socket_ \in {"wild", "live", "null"}
  /\ recv_buffer_ \in Seq(InKinds)
  /\ read \in {"none", "pending", "ok", "err"}
  /\ waits \in [pending : 0..1, ok : Nat, aborted : Nat]
  /\ link \in {"up", "down"}
  /\ pc \in {"app", "loop", "parse", "next", "callback", "deleted"}
  /\ cur \in InKinds \cup {"none"}
  /\ rcvd \in Nat /\ connects \in Nat

LEMMA TypeParts == TypeOK <=> SendTypes /\ ControlTypes /\ synced \in BOOLEAN /\ leftover \in BOOLEAN
  BY DEF TypeOK, SendTypes, ControlTypes, Write

LEMMA SendTypesStep == SendTypes /\ [Next]_vars => SendTypes'
  <1> SUFFICES ASSUME SendTypes, [Next]_vars PROVE SendTypes'
    OBVIOUS
  <1>e. <<>> \in Seq(OutMessage)
    OBVIOUS
  <1>1. CASE UNCHANGED sendVars
    BY <1>1 DEF SendTypes, sendVars
  <1>2. ASSUME NEW w \in writes, ProcessTCPSendQueue(w) PROVE SendTypes'
    <2>1. CASE send_queue_ = <<>> \/ (Len(send_queue_) > 1 /\ tcp_socket_ # "live")
      BY <1>2, <2>1 DEF ProcessTCPSendQueue, SendTypes
    <2>2. CASE ~(send_queue_ = <<>> \/ (Len(send_queue_) > 1 /\ tcp_socket_ # "live"))
      <3>1. /\ send_queue_' = Tail(send_queue_) /\ SendNext(Tail(send_queue_), writes \ {w})
            /\ fault' = fault /\ sent' = sent
        BY <1>2, <2>2 DEF ProcessTCPSendQueue
      <3>2. Tail(send_queue_) \in Seq(OutMessage)
        BY <2>2 DEF SendTypes
      <3>3. CASE Tail(send_queue_) = <<>>
        BY <3>1, <3>2, <3>3 DEF SendNext, SendTypes
      <3>4. CASE Tail(send_queue_) # <<>>
        <4>1. Head(Tail(send_queue_)) \in OutMessage
          BY <3>2, <3>4
        <4>2. [msg |-> Head(Tail(send_queue_)), st |-> "pending"] \in Write
          BY <4>1 DEF Write
        <4>3. /\ writes' = (writes \ {w}) \cup {[msg |-> Head(Tail(send_queue_)), st |-> "pending"]}
              /\ wire' = Append(wire, Head(Tail(send_queue_)))
          BY <3>1, <3>4 DEF SendNext, SendFirstQueued
        <4>4. wire' \in Seq(OutMessage)
          BY <4>1, <4>3, AppendProperties DEF SendTypes
        <4>5. writes' \subseteq Write
          BY <4>2, <4>3 DEF SendTypes
        <4>6. QED
          BY <3>1, <3>2, <4>4, <4>5 DEF SendTypes
      <3>5. QED
        BY <3>3, <3>4
    <2>3. QED
      BY <2>1, <2>2
  <1>3. ASSUME NEW w \in writes, ProcessTCPSendQueueError(w) PROVE SendTypes'
    BY <1>3 DEF ProcessTCPSendQueueError, SendTypes
  <1>4. CASE DoPing \/ ParseCryptRequest \/ SendRawUdpTunnel
    BY <1>4, OneSent DEF DoPing, ParseCryptRequest, SendRawUdpTunnel, OutTypes
  <1>5. CASE ParseServerSync
    <2>1. <<"Ping">> \in Seq(OutTypes) /\ <<"Ping">> # <<>> /\ wire \in Seq(OutMessage)
      BY DEF OutTypes, SendTypes
    <2>2. QED
      BY <1>5, <2>1, SendTypesKept DEF ParseServerSync
  <1>6. CASE Connect
    <2>1. InitialMessages \in Seq(OutTypes) /\ InitialMessages # <<>> /\ <<>> \in Seq(OutMessage)
      BY DEF OutTypes, InitialMessages
    <2>2. QED
      BY <1>6, <2>1, SendTypesKept DEF Connect
  <1>7. CASE ConnectionError \/ HandshakeError
    BY <1>7, <1>e DEF ConnectionError, HandshakeError, SendTypes
  <1>8. CASE Disconnect
    <2>1. /\ UNCHANGED <<wire, sent>>
          /\ \/ send_queue_' = <<>> /\ writes' = Cancel(writes) /\ fault' = fault
             \/ UNCHANGED <<send_queue_, writes>> /\ fault' \in {"wild_deref", "null_deref"}
      BY <1>8 DEF Disconnect
    <2>2. Cancel(writes) \subseteq Write
      BY DEF SendTypes, Cancel, Write
    <2>3. QED
      BY <2>1, <2>2, <1>e DEF SendTypes
  <1>9. CASE SetComment
    BY <1>9, OneSent DEF SetComment, OutTypes, SendTypes
  <1>10. CASE Destroy \/ DeletedStream
    BY <1>10 DEF Destroy, DeletedStream, SendTypes
  <1>11. ASSUME NEW w \in writes, WriteCompletes(w) PROVE SendTypes'
    <2>1. w \in Write
      BY DEF SendTypes
    <2>2. [w EXCEPT !.st = IF link = "up" THEN "ok" ELSE "err"] \in Write
      BY <2>1 DEF Write
    <2>3. QED
      BY <1>11, <2>2 DEF WriteCompletes, SendTypes
  <1>12. CASE \/ DoPingError \/ ReadHandlerError \/ ReadHandler \/ ReadHandlerEnds
              \/ ParseOther \/ ParseTextMessage \/ RunReturns \/ Run \/ CallbackReturns
              \/ (\E kind \in InKinds : ServerSends(kind)) \/ LinkFails \/ ReadFails \/ TimerExpires
    BY <1>1, <1>12 DEF DoPingError, ReadHandlerError, ReadHandler, ReadHandlerEnds, ParseOther,
      ParseTextMessage, RunReturns, Run, CallbackReturns, ServerSends, LinkFails, ReadFails, TimerExpires
  <1>13. QED
    BY <1>1, <1>2, <1>3, <1>4, <1>5, <1>6, <1>7, <1>8, <1>9, <1>10, <1>11, <1>12
    DEF Next, EventLoop, Application, Kernel, vars

Waits == [pending : 0..1, ok : Nat, aborted : Nat]

(* What arming and cancelling leave of the waits.                           *)
LEMMA WaitsKept ==
  ASSUME NEW ws \in Waits
  PROVE  /\ ArmPing(ws) \in Waits /\ ArmPing(ws).pending = 1
         /\ CancelPing(ws) \in Waits
         /\ ws.ok > 0 => [ws EXCEPT !.ok = @ - 1] \in Waits
         /\ ws.aborted > 0 => [ws EXCEPT !.aborted = @ - 1] \in Waits
         /\ [pending |-> 0, ok |-> ws.ok + 1, aborted |-> ws.aborted] \in Waits
  <1>1. ws.pending \in 0..1 /\ ws.ok \in Nat /\ ws.aborted \in Nat
    BY DEF Waits
  <1>2. ws.aborted + ws.pending \in Nat /\ ws.ok + 1 \in Nat
        /\ (ws.ok > 0 => ws.ok - 1 \in Nat) /\ (ws.aborted > 0 => ws.aborted - 1 \in Nat)
    BY <1>1
  <1>3. ArmPing(ws) \in Waits /\ ArmPing(ws).pending = 1
    BY <1>1, <1>2 DEF ArmPing, Waits
  <1>4. CancelPing(ws) \in Waits
    BY <1>1, <1>2 DEF CancelPing, Waits
  <1>5. ws.ok > 0 => [ws EXCEPT !.ok = @ - 1] \in Waits
    BY <1>1, <1>2 DEF Waits
  <1>6. ws.aborted > 0 => [ws EXCEPT !.aborted = @ - 1] \in Waits
    BY <1>1, <1>2 DEF Waits
  <1>7. [pending |-> 0, ok |-> ws.ok + 1, aborted |-> ws.aborted] \in Waits
    BY <1>1, <1>2 DEF Waits
  <1>8. QED
    BY <1>3, <1>4, <1>5, <1>6, <1>7

LEMMA ControlTypesStep == TypeOK /\ [Next]_vars => ControlTypes'
  <1> SUFFICES ASSUME ControlTypes, [Next]_vars PROVE ControlTypes'
    BY TypeParts
  <1>w. waits \in Waits
    BY DEF ControlTypes, Waits
  <1>1. CASE UNCHANGED vars
    BY <1>1 DEF ControlTypes, vars, sockVars, readVars, ctlVars, histVars
  <1>2. ASSUME NEW w \in writes, ProcessTCPSendQueue(w) \/ ProcessTCPSendQueueError(w) \/ WriteCompletes(w)
        PROVE  ControlTypes'
    BY <1>2 DEF ProcessTCPSendQueue, ProcessTCPSendQueueError, WriteCompletes,
      ControlTypes, sockVars, readVars, ctlVars, histVars
  <1>3. CASE SendRawUdpTunnel \/ SetComment
    BY <1>3 DEF SendRawUdpTunnel, SetComment, ControlTypes, sockVars, readVars, ctlVars, histVars
  <1>4. CASE DoPing
    BY <1>4, <1>w, WaitsKept DEF DoPing, ControlTypes, Waits, sockVars, readVars, ctlVars, histVars
  <1>5. CASE DoPingError
    BY <1>5, <1>w, WaitsKept DEF DoPingError, ControlTypes, Waits, sockVars, readVars, ctlVars, histVars
  <1>6. CASE TimerExpires
    BY <1>6, <1>w, WaitsKept DEF TimerExpires, ControlTypes, Waits, sockVars, readVars, ctlVars, histVars
  <1>7. CASE LinkFails \/ ReadFails \/ ReadHandlerError \/ ReadHandler \/ ReadHandlerEnds \/ CallbackReturns
    BY <1>7 DEF LinkFails, ReadFails, ReadHandlerError, ReadHandler, ReadHandlerEnds, CallbackReturns,
      ControlTypes, sockVars, readVars, ctlVars, histVars
  <1>8. CASE Run \/ RunReturns \/ Destroy \/ DeletedStream
    BY <1>8 DEF Run, RunReturns, Destroy, DeletedStream, ControlTypes, sockVars, readVars, ctlVars, histVars
  <1>9. CASE ParseOther \/ ParseTextMessage \/ ParseCryptRequest \/ ParseServerSync
    <2>1. Tail(recv_buffer_) \in Seq(InKinds)
      BY <1>9 DEF ParseOther, ParseTextMessage, ParseCryptRequest, ParseServerSync, Takes, ControlTypes
    <2>2. ArmPing(waits) \in Waits
      BY <1>w, WaitsKept
    <2>3. QED
      BY ZenonT(60), <1>9, <2>1, <2>2 DEF ParseOther, ParseTextMessage, ParseCryptRequest, ParseServerSync, Takes, Calls,
        InKinds, ControlTypes, Waits, histVars
  <1>10. CASE Connect \/ ConnectionError \/ HandshakeError
    BY <1>10 DEF Connect, ConnectionError, HandshakeError, ControlTypes, readVars
  <1>11. CASE Disconnect
    BY ZenonT(60), <1>11, <1>w, WaitsKept DEF Disconnect, ControlTypes, Waits, sockVars, ctlVars, histVars
  <1>12. ASSUME NEW kind \in InKinds, ServerSends(kind) PROVE ControlTypes'
    <2>1. Append(recv_buffer_, kind) \in Seq(InKinds)
      BY AppendProperties DEF ControlTypes
    <2>2. QED
      BY <1>12, <2>1 DEF ServerSends, ControlTypes, sockVars, ctlVars, histVars
  <1>13. QED
    BY <1>1, <1>2, <1>3, <1>4, <1>5, <1>6, <1>7, <1>8, <1>9, <1>10, <1>11, <1>12
    DEF Next, EventLoop, Application, Kernel

(* The Boolean variables are set by Connect and by the server only.         *)
LEMMA FlagTypesStep ==
  ASSUME synced \in BOOLEAN, leftover \in BOOLEAN, [Next]_vars
  PROVE  synced' \in BOOLEAN /\ leftover' \in BOOLEAN
  <1>1. CASE Connect
    BY <1>1, Zenon DEF Connect
  <1>2. ASSUME NEW kind \in InKinds, ServerSends(kind) PROVE synced' \in BOOLEAN /\ leftover' = leftover
    <2>1. synced' = (synced \/ kind = "ServerSync") /\ leftover' = leftover
      BY <1>2, Zenon DEF ServerSends, ctlVars, histVars
    <2>2. QED
      BY <2>1, Zenon
  <1>3. CASE Next /\ ~Connect /\ ~\E kind \in InKinds : ServerSends(kind)
    <2>1. synced' = synced /\ leftover' = leftover
      BY <1>3 DEF Next, EventLoop, Application, Kernel, ProcessTCPSendQueue, ProcessTCPSendQueueError,
        DoPing, DoPingError, ReadHandlerError, ReadHandler, ReadHandlerEnds, ParseOther,
        ParseTextMessage, ParseCryptRequest, ParseServerSync, Takes, RunReturns, ConnectionError,
        HandshakeError, Disconnect, SendRawUdpTunnel, SetComment, Run, Destroy, DeletedStream,
        CallbackReturns, WriteCompletes, LinkFails, ReadFails, TimerExpires, readVars, ctlVars, histVars
    <2>2. QED
      BY <2>1
  <1>4. QED
    BY <1>1, <1>2, <1>3 DEF vars, readVars, ctlVars, histVars

(* The variables of MumbleClient keep their types in every behaviour.       *)
THEOREM TypeCorrect == Spec => []TypeOK
  <1>1. Init => TypeOK
    <2>1. Init => SendTypes
      BY DEF Init, SendTypes
    <2>2. Init => ControlTypes
      BY DEF Init, ControlTypes
    <2>3. QED
      BY <2>1, <2>2, TypeParts DEF Init
  <1>2. TypeOK /\ [Next]_vars => TypeOK'
    <2> SUFFICES ASSUME TypeOK, [Next]_vars PROVE TypeOK'
      OBVIOUS
    <2>1. SendTypes' /\ ControlTypes' /\ synced' \in BOOLEAN /\ leftover' \in BOOLEAN
      BY TypeParts, SendTypesStep, ControlTypesStep, FlagTypesStep
    <2>2. QED
      BY <2>1, Zenon DEF TypeOK, SendTypes, ControlTypes, Write
  <1>3. QED
    BY <1>1, <1>2, PTL DEF Spec

-----------------------------------------------------------------------------
(* The send queue and the socket.                                           *)

Message(t) == [type |-> t, n |-> sent + 1]

LEMMA NextMessage ==
  ASSUME sent \in Nat, NEW t \in OutTypes
  PROVE  Message(t) \in OutMessage /\ Message(t).type = t /\ Message(t).n = sent + 1
  BY DEF Message, OutMessage

(* A queue that grows by ts, and one that shrinks by its front.             *)
LEMMA QueueGrows ==
  ASSUME send_queue_ \in Seq(OutMessage), sent \in Nat, NEW ts \in Seq(OutTypes),
         send_queue_' = send_queue_ \o Batch(ts), sent' = sent + Len(ts), Numbered
  PROVE  /\ Len(send_queue_') = Len(send_queue_) + Len(ts)
         /\ \A i \in 1..Len(send_queue_) : send_queue_'[i] = send_queue_[i]
         /\ \A i \in 1..Len(ts) :
              send_queue_'[Len(send_queue_) + i] = [type |-> ts[i], n |-> sent + i]
         /\ Numbered'
  <1>1. /\ Batch(ts) \in Seq(OutMessage) /\ Len(Batch(ts)) = Len(ts)
        /\ \A i \in 1..Len(ts) : Batch(ts)[i] = [type |-> ts[i], n |-> sent + i]
    BY BatchOfMessages
  <1>l. Len(send_queue_) \in Nat /\ Len(ts) \in Nat
    OBVIOUS
  <1>2. /\ Len(send_queue_') = Len(send_queue_) + Len(ts)
        /\ \A i \in 1..(Len(send_queue_) + Len(ts)) : send_queue_'[i] =
             IF i <= Len(send_queue_) THEN send_queue_[i] ELSE Batch(ts)[i - Len(send_queue_)]
    <2> DEFINE b == Batch(ts)
    <2> HIDE DEF b
    <2>1. b \in Seq(OutMessage) /\ Len(b) = Len(ts)
      BY <1>1 DEF b
    <2>2. /\ Len(send_queue_ \o b) = Len(send_queue_) + Len(b)
          /\ \A i \in 1..(Len(send_queue_) + Len(b)) : (send_queue_ \o b)[i] =
               IF i <= Len(send_queue_) THEN send_queue_[i] ELSE b[i - Len(send_queue_)]
      BY <2>1, ConcatProperties
    <2>3. send_queue_' = send_queue_ \o b
      BY DEF b
    <2>4. QED
      BY <2>1, <2>2, <2>3 DEF b
  <1>3. \A i \in 1..Len(send_queue_) : send_queue_'[i] = send_queue_[i]
    BY <1>2, <1>l
  <1>4. ASSUME NEW i \in 1..Len(ts)
        PROVE  send_queue_'[Len(send_queue_) + i] = [type |-> ts[i], n |-> sent + i]
    <2>1. Len(send_queue_) + i \in 1..(Len(send_queue_) + Len(ts)) /\ ~(Len(send_queue_) + i <= Len(send_queue_))
          /\ (Len(send_queue_) + i) - Len(send_queue_) = i
      BY <1>l
    <2>2. QED
      BY <1>1, <1>2, <2>1
  <1>5. Numbered'
    <2> SUFFICES ASSUME NEW i \in 1..Len(send_queue_')
                 PROVE  send_queue_'[i].n = sent' - Len(send_queue_') + i
      BY DEF Numbered
    <2>1. CASE i <= Len(send_queue_)
      <3>1. i \in 1..Len(send_queue_)
        BY <2>1, <1>l, <1>2
      <3>2. send_queue_'[i].n = sent - Len(send_queue_) + i
        BY <3>1, <1>3 DEF Numbered
      <3>3. QED
        BY <3>2, <1>2, <1>l
    <2>2. CASE i > Len(send_queue_)
      <3> DEFINE k == i - Len(send_queue_)
      <3>1. k \in 1..Len(ts) /\ i = Len(send_queue_) + k
        BY <2>2, <1>l, <1>2
      <3> HIDE DEF k
      <3>2. send_queue_'[i] = [type |-> ts[k], n |-> sent + k]
        BY <3>1, <1>4
      <3>4. send_queue_'[i].n = sent + k
        BY <3>2
      <3>3. QED
        BY <3>1, <3>4, <1>2, <1>l
    <2>3. QED
      BY <2>1, <2>2, <1>l, <1>2
  <1>6. QED
    BY <1>2, <1>3, <1>4, <1>5

LEMMA QueueShrinks ==
  ASSUME send_queue_ \in Seq(OutMessage), send_queue_ # <<>>, sent \in Nat,
         send_queue_' = Tail(send_queue_), sent' = sent, Numbered
  PROVE  /\ send_queue_' \in Seq(OutMessage) /\ Len(send_queue_') = Len(send_queue_) - 1
         /\ \A i \in 1..Len(send_queue_') : send_queue_'[i] = send_queue_[i + 1]
         /\ Numbered'
  <1>l. Len(send_queue_) \in Nat
    OBVIOUS
  <1>1. /\ send_queue_' \in Seq(OutMessage) /\ Len(send_queue_') = Len(send_queue_) - 1
        /\ \A i \in 1..Len(send_queue_') : send_queue_'[i] = send_queue_[i + 1]
    BY HeadTailProperties
  <1>2. ASSUME NEW i \in 1..Len(send_queue_')
        PROVE  send_queue_'[i].n = sent' - Len(send_queue_') + i
    <2>1. i + 1 \in 1..Len(send_queue_)
      BY <1>1, <1>l
    <2>2. send_queue_'[i].n = sent - Len(send_queue_) + (i + 1)
      BY <1>1, <2>1 DEF Numbered
    <2>3. QED
      BY <1>1, <1>l, <2>2
  <1>3. QED
    BY <1>1, <1>2 DEF Numbered

(* One more message on the wire.                                            *)
LEMMA WireGrows ==
  ASSUME wire \in Seq(OutMessage), NEW m \in OutMessage, wire' = Append(wire, m), FifoOnce, HandshakeFirst,
         wire # <<>> => m.n = wire[Len(wire)].n + 1,
         Len(wire) = 0 => m.type = "Version",
         Len(wire) = 1 => m.type = "Authenticate"
  PROVE  /\ wire' \in Seq(OutMessage) /\ Len(wire') = Len(wire) + 1 /\ wire'[Len(wire')] = m /\ wire' # <<>>
         /\ FifoOnce' /\ HandshakeFirst'
  <1>l. Len(wire) \in Nat
    OBVIOUS
  <1>1. /\ wire' \in Seq(OutMessage) /\ Len(wire') = Len(wire) + 1 /\ wire'[Len(wire) + 1] = m /\ wire' # <<>>
        /\ \A i \in 1..Len(wire) : wire'[i] = wire[i]
    BY AppendProperties
  <1>2. ASSUME NEW i \in 1..Len(wire')
        PROVE  wire'[i].n = wire'[1].n + i - 1
    <2>n. m.n \in Nat /\ \A j \in 1..Len(wire) : wire[j].n \in Nat
      <3>1. ASSUME NEW e \in OutMessage PROVE e.n \in Nat
        BY DEF OutMessage
      <3>2. \A j \in 1..Len(wire) : wire[j] \in OutMessage
        BY ElementOfSeq
      <3>3. QED
        BY <3>1, <3>2
    <2>1. CASE Len(wire) = 0
      BY <1>1, <2>1, <2>n
    <2>2. CASE Len(wire) > 0 /\ i <= Len(wire)
      <3>1. i \in 1..Len(wire) /\ 1 \in 1..Len(wire)
        BY <2>2, <1>l, <1>1
      <3>2. wire'[i].n = wire[i].n /\ wire'[1].n = wire[1].n
        BY <1>1, <3>1
      <3>3. QED
        BY <3>1, <3>2 DEF FifoOnce
    <2>3. CASE Len(wire) > 0 /\ i = Len(wire) + 1
      <3>1. Len(wire) \in 1..Len(wire) /\ 1 \in 1..Len(wire) /\ wire # <<>>
        BY <2>3, <1>l
      <3>2. wire[Len(wire)].n = wire[1].n + Len(wire) - 1
        BY <3>1 DEF FifoOnce
      <3>3. wire'[i].n = wire[Len(wire)].n + 1 /\ wire'[1].n = wire[1].n
        BY <1>1, <2>3, <3>1
      <3>4. wire[1].n \in Nat
        BY <2>n, <3>1
      <3>5. QED
        BY <3>2, <3>3, <3>4, <2>3, <1>l
    <2>4. QED
      BY <2>1, <2>2, <2>3, <1>1, <1>l
  <1>3. HandshakeFirst'
    <2>1. CASE Len(wire) = 0
      BY <2>1, <1>1 DEF HandshakeFirst
    <2>2. CASE Len(wire) = 1
      <3>1. Len(wire') = 2 /\ wire'[2] = m /\ wire'[1] = wire[1] /\ wire[1].type = "Version"
        BY <2>2, <1>1 DEF HandshakeFirst
      <3>2. QED
        BY <3>1, <2>2 DEF HandshakeFirst
    <2>3. CASE Len(wire) >= 2
      <3>1. 1 \in 1..Len(wire) /\ 2 \in 1..Len(wire)
        BY <2>3, <1>l
      <3>2. wire'[1] = wire[1] /\ wire'[2] = wire[2]
        BY <1>1, <3>1
      <3>3. QED
        BY <3>2, <2>3 DEF HandshakeFirst
    <2>4. \A l \in Nat : l = 0 \/ l = 1 \/ l >= 2
      OBVIOUS
    <2>5. QED
      BY <2>1, <2>2, <2>3, <2>4, <1>l, Zenon
  <1>4. QED
    BY <1>1, <1>2, <1>3 DEF FifoOnce

(* Nothing of Sending but the link and the state may change.                *)
LEMMA SendingFrame ==
  ASSUME Sending, UNCHANGED <<send_queue_, writes, wire, sent, tcp_socket_>>,
         link' = link \/ link' = "down",
         state_' = state_ \/ (state_' = "kStateAuthenticated" /\ (tcp_socket_ = "live" => state_ # "kStateNew"))
  PROVE  Sending'
  BY DEF Sending, Numbered, Started, Opening, NeverStarted, LinkUp, Handshaken,
    OneWrite, FifoOnce, HandshakeFirst, QueueHasWriter

(* SendMessage, from any of its callers.                                    *)
LEMMA SendMessageKeeps ==
  ASSUME SendTypes, Sending, Unconnected, NEW t \in OutTypes, NEW st,
         SendMessages(<<t>>, st, tcp_socket_, wire), state_' = st, UNCHANGED <<tcp_socket_, link>>,
         st = state_ \/ (st = "kStateAuthenticated" /\ (tcp_socket_ = "live" => state_ # "kStateNew"))
  PROVE  Sending'
  <1>1. CASE StartsWrite(st) /\ tcp_socket_ # "live"
    BY <1>1, SendingFrame DEF SendMessages
  <1>2. CASE ~(StartsWrite(st) /\ tcp_socket_ # "live")
    <2>1. <<t>> \in Seq(OutTypes) /\ Len(<<t>>) = 1 /\ <<t>>[1] = t
      OBVIOUS
    <2>2. /\ send_queue_' = send_queue_ \o Batch(<<t>>) /\ sent' = sent + Len(<<t>>)
          /\ IF StartsWrite(st) THEN SendFirstQueued(send_queue_', writes, wire)
             ELSE writes' = writes /\ wire' = wire
      BY <1>2 DEF SendMessages
    <2>3. send_queue_ \in Seq(OutMessage) /\ wire \in Seq(OutMessage) /\ sent \in Nat /\ Numbered
      BY DEF SendTypes, Sending
    <2>4. /\ Len(send_queue_') = Len(send_queue_) + 1 /\ sent' = sent + 1
          /\ \A i \in 1..Len(send_queue_) : send_queue_'[i] = send_queue_[i]
          /\ send_queue_'[Len(send_queue_) + 1] = Message(t)
          /\ Numbered'
      <3> DEFINE ts == <<t>>
      <3>1. ts \in Seq(OutTypes) /\ Len(ts) = 1 /\ ts[1] = t /\ send_queue_' = send_queue_ \o Batch(ts)
            /\ sent' = sent + Len(ts)
        BY <2>1, <2>2
      <3> HIDE DEF ts
      <3>2. /\ Len(send_queue_') = Len(send_queue_) + Len(ts)
            /\ \A i \in 1..Len(send_queue_) : send_queue_'[i] = send_queue_[i]
            /\ \A i \in 1..Len(ts) : send_queue_'[Len(send_queue_) + i] = [type |-> ts[i], n |-> sent + i]
            /\ Numbered'
        BY <3>1, <2>3, QueueGrows
      <3>3. QED
        BY <3>1, <3>2 DEF Message
    <2>5. Len(send_queue_) \in Nat /\ Len(wire) \in Nat /\ (send_queue_ = <<>> <=> Len(send_queue_) = 0)
          /\ (wire = <<>> <=> Len(wire) = 0)
      BY <2>3
    <2>q. send_queue_' \in Seq(OutMessage) /\ send_queue_' # <<>> /\ Head(send_queue_') = send_queue_'[1]
      <3>1. SendTypes'
        BY <2>1, <2>3, SendTypesKept
      <3>2. QED
        BY <3>1, <2>4, <2>5 DEF SendTypes
    <2>6. CASE StartsWrite(st)
      <3>1. tcp_socket_ = "live" /\ state_ # "kStateNew" /\ send_queue_ = <<>> /\ st # "kStateNew"
        BY <1>2, <2>6 DEF StartsWrite
      <3>2. writes = {} /\ wire # <<>> /\ Len(wire) # 1 /\ wire[Len(wire)].n = sent
        BY <3>1, <2>5 DEF Sending, OneWrite, NeverStarted, Opening, Started
      <3>3. send_queue_'[1] = Message(t) /\ Head(send_queue_') = Message(t)
        BY <3>1, <2>4, <2>5, <2>q
      <3>4. writes' = {[msg |-> Message(t), st |-> "pending"]} /\ wire' = Append(wire, Message(t))
        BY <2>2, <2>6, <3>2, <3>3 DEF SendFirstQueued
      <3>5. Message(t) \in OutMessage /\ Message(t).n = sent + 1
        BY <2>3, NextMessage
      <3>6. /\ Len(wire') = Len(wire) + 1 /\ wire'[Len(wire')] = Message(t) /\ wire' # <<>>
            /\ FifoOnce' /\ HandshakeFirst'
        <4>1. FifoOnce /\ HandshakeFirst /\ Len(wire) # 0
          BY <3>2, <2>5 DEF Sending
        <4>2. wire # <<>> => Message(t).n = wire[Len(wire)].n + 1
          BY <3>2, <3>5
        <4>3. QED
          BY <4>1, <4>2, <3>2, <3>4, <3>5, <2>3, WireGrows
      <3>7. Started' /\ NeverStarted'
        BY <3>3, <3>6, <2>q DEF Started, NeverStarted
      <3>8. Opening'
        BY <3>2, <3>6, <2>5 DEF Opening
      <3>9. LinkUp' /\ Handshaken'
        BY <3>1, <3>4 DEF LinkUp, Handshaken
      <3>10. OneWrite' /\ QueueHasWriter'
        BY <3>3, <3>4, <2>q DEF OneWrite, QueueHasWriter
      <3>11. QED
        BY <2>4, <3>6, <3>7, <3>8, <3>9, <3>10 DEF Sending
    <2>7. CASE ~StartsWrite(st)
      <3>1. writes' = writes /\ wire' = wire
        BY <2>2, <2>7
      <3>2. FifoOnce' /\ HandshakeFirst' /\ Handshaken' /\ LinkUp'
        BY <3>1 DEF Sending, FifoOnce, HandshakeFirst, Handshaken, LinkUp
      <3>3. CASE send_queue_ # <<>>
        <4>1. 1 \in 1..Len(send_queue_) /\ send_queue_'[1] = send_queue_[1] /\ Head(send_queue_) = send_queue_[1]
          BY <3>3, <2>3, <2>4, <2>5
        <4>2. Started' /\ NeverStarted'
          BY <3>1, <3>3, <4>1, <2>q DEF Sending, Started, NeverStarted
        <4>3. Opening'
          <5>1. Len(send_queue_) >= 2 => 2 \in 1..Len(send_queue_)
            BY <2>5
          <5>2. QED
            BY <5>1, <3>1, <2>4, <2>5 DEF Sending, Opening
        <4>4. OneWrite' /\ QueueHasWriter'
          BY <3>1, <3>3, <4>1, <2>q DEF Sending, OneWrite, QueueHasWriter
        <4>5. QED
          BY <2>4, <3>2, <4>2, <4>3, <4>4 DEF Sending
      <3>4. CASE send_queue_ = <<>>
        <4>1. st = "kStateNew" /\ state_ = "kStateNew"
          BY <2>7, <3>4 DEF StartsWrite
        <4>2. tcp_socket_ = "live" => wire = <<>> /\ writes = {}
          BY <4>1 DEF Unconnected, NoWork
        <4>3. link # "up"
          BY <4>1 DEF Sending, LinkUp
        <4>4. Started' /\ NeverStarted' /\ Opening' /\ OneWrite' /\ QueueHasWriter'
          BY <3>1, <4>1, <4>2, <4>3, <2>5 DEF Started, NeverStarted, Opening, OneWrite, QueueHasWriter
        <4>5. QED
          BY <2>4, <3>2, <4>4 DEF Sending
      <3>5. QED
        BY <3>3, <3>4
    <2>8. QED
      BY <2>6, <2>7
  <1>3. QED
    BY <1>1, <1>2

(* A write completes: what it wrote is popped and the next one is started.  *)
LEMMA ProcessTCPSendQueueKeeps ==
  ASSUME SendTypes, Sending, Unconnected, NEW w \in writes, ProcessTCPSendQueue(w)
  PROVE  Sending'
  <1>1. /\ UNCHANGED <<state_, tcp_socket_, link, sent>>
        /\ send_queue_ \in Seq(OutMessage) /\ wire \in Seq(OutMessage) /\ sent \in Nat /\ writes \subseteq Write
    BY DEF ProcessTCPSendQueue, SendTypes, sockVars
  <1>2. CASE UNCHANGED <<send_queue_, writes, wire>>
    BY <1>1, <1>2, SendingFrame
  <1>3. CASE ~UNCHANGED <<send_queue_, writes, wire>>
    <2>1. /\ send_queue_ # <<>> /\ (Len(send_queue_) > 1 => tcp_socket_ = "live")
          /\ send_queue_' = Tail(send_queue_) /\ SendNext(Tail(send_queue_), writes \ {w})
      BY <1>3 DEF ProcessTCPSendQueue
    <2>2. Len(send_queue_) \in Nat /\ Len(send_queue_) > 0 /\ Len(wire) \in Nat /\ (wire = <<>> <=> Len(wire) = 0)
          /\ Head(send_queue_) = send_queue_[1]
      BY <1>1, <2>1
    <2>3. /\ send_queue_' \in Seq(OutMessage) /\ Len(send_queue_') = Len(send_queue_) - 1
          /\ \A i \in 1..Len(send_queue_') : send_queue_'[i] = send_queue_[i + 1]
          /\ Numbered'
      BY <1>1, <2>1, QueueShrinks DEF Sending
    <2>4. Len(send_queue_') \in Nat /\ (send_queue_' = <<>> <=> Len(send_queue_') = 0)
          /\ (Len(send_queue_') > 0 => Head(send_queue_') = send_queue_'[1])
      BY <2>3
    <2>5. CASE tcp_socket_ # "live"
      <3>1. Len(send_queue_) = 1 /\ send_queue_' = <<>>
        BY <2>1, <2>2, <2>3, <2>4, <2>5
      <3>2. writes' = writes \ {w} /\ wire' = wire
        BY <2>1, <3>1 DEF SendNext
      <3>3. link # "up"
        BY <2>5 DEF Sending, LinkUp
      <3>4. QED
        BY <1>1, <2>3, <2>5, <3>2, <3>3 DEF Sending, Started, Opening, NeverStarted, LinkUp, Handshaken,
          OneWrite, FifoOnce, HandshakeFirst, QueueHasWriter
    <2>6. CASE tcp_socket_ = "live"
      <3>1. writes = {w} /\ w.msg = send_queue_[1] /\ state_ # "kStateNew" /\ wire # <<>>
        BY <2>1, <2>2, <2>6 DEF Sending, OneWrite, NeverStarted, Unconnected, NoWork
      <3>2. wire[Len(wire)] = send_queue_[1] /\ wire[Len(wire)].n = sent - Len(send_queue_) + 1
        <4>1. 1 \in 1..Len(send_queue_)
          BY <2>2
        <4>2. wire[Len(wire)] = send_queue_[1]
          BY <2>1, <2>6, <3>1 DEF Sending, Started
        <4>3. send_queue_[1].n = sent - Len(send_queue_) + 1
          BY <4>1 DEF Sending, Numbered
        <4>4. QED
          BY <4>2, <4>3
      <3>3. Handshaken'
        BY <1>1 DEF Sending, Handshaken
      <3>4. CASE send_queue_' = <<>>
        <4>1. writes' = {} /\ wire' = wire
          BY <2>1, <3>1, <3>4 DEF SendNext
        <4>2. Len(send_queue_) = 1
          BY <2>2, <2>3, <2>4, <3>4
        <4>3. Started'
          BY <1>1, <3>2, <3>4, <4>1, <4>2 DEF Started
        <4>4. Len(wire) # 1
          BY <2>6, <4>2 DEF Sending, Opening
        <4>5. Opening' /\ NeverStarted'
          BY <3>1, <4>1, <4>4 DEF Opening, NeverStarted
        <4>6. LinkUp' /\ OneWrite' /\ QueueHasWriter' /\ FifoOnce' /\ HandshakeFirst'
          BY <1>1, <3>4, <4>1 DEF Sending, LinkUp, OneWrite, QueueHasWriter, FifoOnce, HandshakeFirst
        <4>7. QED
          BY <2>3, <3>3, <4>3, <4>5, <4>6 DEF Sending
      <3>5. CASE send_queue_' # <<>>
        <4> DEFINE m == send_queue_'[1]
        <4>1. 1 \in 1..Len(send_queue_') /\ 2 \in 1..Len(send_queue_) /\ m = send_queue_[2] /\ m \in OutMessage
          BY <2>2, <2>3, <2>4, <3>5
        <4>2. writes' = {[msg |-> m, st |-> "pending"]} /\ wire' = Append(wire, m)
          BY <2>1, <2>4, <3>1, <3>5, <4>1 DEF SendNext, SendFirstQueued
        <4>3. m.n = wire[Len(wire)].n + 1
          <5>1. m.n = sent - Len(send_queue_) + 2
            BY <4>1 DEF Sending, Numbered
          <5>2. QED
            BY <1>1, <2>2, <3>2, <5>1
        <4>4. Len(wire) = 1 => m.type = "Authenticate"
          BY <2>6, <4>1 DEF Sending, Opening
        <4> HIDE DEF m
        <4>5. /\ Len(wire') = Len(wire) + 1 /\ wire'[Len(wire')] = m /\ wire' # <<>> /\ FifoOnce' /\ HandshakeFirst'
          <5>1. FifoOnce /\ HandshakeFirst /\ Len(wire) # 0 /\ m \in OutMessage
            BY <2>2, <3>1, <4>1 DEF Sending
          <5>2. QED
            BY <1>1, <4>2, <4>3, <4>4, <5>1, WireGrows
        <4>6. Started' /\ NeverStarted'
          BY <3>5, <4>5 DEF Started, NeverStarted, m
        <4>7. Opening'
          <5>1. Len(wire') # 1
            BY <2>2, <3>1, <4>5
          <5>2. QED
            BY <5>1 DEF Opening
        <4>8. LinkUp'
          BY <1>1, <2>6, <3>1, <4>2 DEF LinkUp
        <4>9. OneWrite' /\ QueueHasWriter'
          BY <2>4, <3>5, <4>2 DEF OneWrite, QueueHasWriter, m
        <4>10. QED
          BY <2>3, <3>3, <4>5, <4>6, <4>7, <4>8, <4>9 DEF Sending
      <3>6. QED
        BY <3>4, <3>5
    <2>7. QED
      BY <2>5, <2>6
  <1>4. QED
    BY <1>2, <1>3

(* A write that failed, and one whose operation completes.                  *)
LEMMA WriteEndKeeps ==
  ASSUME SendTypes, Sending, NEW w \in writes,
         ProcessTCPSendQueueError(w) \/ WriteCompletes(w)
  PROVE  Sending'
  <1>1. UNCHANGED <<state_, tcp_socket_, link, send_queue_, wire, sent>>
    BY DEF ProcessTCPSendQueueError, WriteCompletes, sockVars
  <1>2. Numbered' /\ Started' /\ Opening' /\ Handshaken' /\ FifoOnce' /\ HandshakeFirst'
    BY <1>1 DEF Sending, Numbered, Started, Opening, Handshaken, FifoOnce, HandshakeFirst
  <1>3. CASE ProcessTCPSendQueueError(w)
    <2>1. writes' = writes \ {w} /\ w.st = "err"
      BY <1>3 DEF ProcessTCPSendQueueError
    <2>2. link # "up"
      BY <2>1 DEF Sending, LinkUp
    <2>3. QED
      BY <1>1, <1>2, <2>1, <2>2 DEF Sending, NeverStarted, LinkUp, OneWrite, QueueHasWriter
  <1>4. CASE WriteCompletes(w)
    <2>1. PICK v : /\ writes' = (writes \ {w}) \cup {v} /\ v.msg = w.msg
                   /\ link = "up" => v.st = "ok"
      <3>1. w \in Write
        BY DEF SendTypes
      <3> DEFINE v == [w EXCEPT !.st = IF link = "up" THEN "ok" ELSE "err"]
      <3>2. v.msg = w.msg /\ (link = "up" => v.st = "ok")
        BY <3>1 DEF Write
      <3>3. writes' = (writes \ {w}) \cup {v}
        BY <1>4 DEF WriteCompletes
      <3>4. QED
        BY <3>2, <3>3
    <2>2. NeverStarted' /\ LinkUp'
      BY <1>1, <2>1 DEF Sending, NeverStarted, LinkUp
    <2>3. OneWrite' /\ QueueHasWriter'
      BY <1>1, <2>1 DEF Sending, OneWrite, QueueHasWriter
    <2>4. QED
      BY <1>2, <2>2, <2>3 DEF Sending
  <1>5. QED
    BY <1>3, <1>4

LEMMA ConnectKeeps ==
  ASSUME SendTypes, Sending, Connect
  PROVE  Sending'
  <1> DEFINE q == send_queue_'
             ts == InitialMessages
  <1>1. /\ writes = {} /\ tcp_socket_' = "live" /\ state_' = "kStateHandshakeCompleted" /\ link' = "up"
        /\ send_queue_ \in Seq(OutMessage) /\ sent \in Nat /\ Numbered
    BY DEF Connect, MayConnect, NoWork, SendTypes, Sending
  <1>2. /\ send_queue_' = send_queue_ \o Batch(ts) /\ sent' = sent + Len(ts)
        /\ IF send_queue_ = <<>> THEN SendFirstQueued(send_queue_', writes, <<>>)
           ELSE writes' = writes /\ wire' = <<>>
    BY DEF Connect, SendMessages, StartsWrite
  <1>3. ts \in Seq(OutTypes) /\ Len(ts) = 2 /\ ts[1] = "Version" /\ ts[2] = "Authenticate"
    BY DEF InitialMessages, OutTypes
  <1> HIDE DEF ts
  <1>4. /\ Len(q) = Len(send_queue_) + Len(ts) /\ Numbered'
        /\ \A i \in 1..Len(ts) : q[Len(send_queue_) + i] = [type |-> ts[i], n |-> sent + i]
    BY <1>1, <1>2, <1>3, QueueGrows
  <1>5. Len(send_queue_) \in Nat /\ (send_queue_ = <<>> <=> Len(send_queue_) = 0)
    BY <1>1
  <1>6. q \in Seq(OutMessage) /\ q # <<>>
    <2>1. SendTypes'
      <3>1. <<>> \in Seq(OutMessage) /\ ts # <<>>
        BY <1>3
      <3>2. SendMessages(ts, "kStateHandshakeCompleted", "live", <<>>)
        BY DEF Connect, ts
      <3>3. QED
        BY <1>3, <3>1, <3>2, SendTypesKept
    <2>2. QED
      BY <1>3, <1>4, <1>5, <2>1 DEF SendTypes
  <1>7. Handshaken'
    BY <1>1 DEF Handshaken
  <1>8. CASE send_queue_ = <<>>
    <2>1. Len(q) = 2 /\ q[1].type = "Version" /\ q[2].type = "Authenticate" /\ Head(q) = q[1] /\ q[1] \in OutMessage
      BY <1>3, <1>4, <1>5, <1>6, <1>8
    <2>2. writes' = {[msg |-> q[1], st |-> "pending"]} /\ wire' = Append(<<>>, q[1])
      BY <1>1, <1>2, <1>8, <2>1 DEF SendFirstQueued
    <2>3. Len(wire') = 1 /\ wire'[1] = q[1] /\ wire' # <<>>
      BY <2>1, <2>2
    <2>4. FifoOnce'
      <3>1. 1..Len(wire') = {1} /\ wire'[1].n \in Nat
        BY <2>1, <2>3 DEF OutMessage
      <3>2. QED
        BY <3>1 DEF FifoOnce
    <2>5. HandshakeFirst' /\ Opening' /\ NeverStarted'
      BY <2>1, <2>3 DEF HandshakeFirst, Opening, NeverStarted
    <2>6. Started'
      BY <1>6, <2>3 DEF Started
    <2>7. OneWrite' /\ QueueHasWriter' /\ LinkUp'
      BY <1>1, <1>6, <2>1, <2>2 DEF OneWrite, QueueHasWriter, LinkUp
    <2>8. QED
      BY <1>4, <1>7, <2>4, <2>5, <2>6, <2>7 DEF Sending
  <1>9. CASE send_queue_ # <<>>
    <2>1. writes' = {} /\ wire' = <<>>
      BY <1>1, <1>2, <1>9
    <2>2. QED
      BY <1>1, <1>4, <1>6, <1>7, <2>1 DEF Sending, Started, Opening, NeverStarted, LinkUp,
        OneWrite, FifoOnce, HandshakeFirst, QueueHasWriter
  <1>10. QED
    BY <1>8, <1>9

(* A failed Connect leaves a live socket and the state of a new client.     *)
LEMMA FailedConnectKeeps ==
  ASSUME SendTypes, TypeOK, Sending, KeepAlive, ConnectionError \/ HandshakeError
  PROVE  Sending' /\ state_ = "kStateNew" /\ NoWork /\ pc = "app"
  <1>1. /\ NoWork /\ writes = {} /\ tcp_socket_' = "live" /\ wire' = <<>> /\ pc = "app"
        /\ UNCHANGED <<state_, link, send_queue_, writes, sent>>
        /\ tcp_socket_ # "live" \/ state_ = "kStateNew"
    BY DEF ConnectionError, HandshakeError, MayConnect, NoWork
  <1>2. state_ = "kStateNew"
    <2>1. waits.pending \in Nat /\ waits.ok \in Nat /\ waits.aborted \in Nat
      BY DEF TypeOK
    <2>2. state_ # "kStateAuthenticated"
      BY <1>1, <2>1 DEF KeepAlive, NoWork
    <2>3. QED
      BY <1>1, <2>2 DEF TypeOK, Sending, Handshaken
  <1>3. link # "up"
    BY <1>2 DEF Sending, LinkUp
  <1>4. QED
    BY <1>1, <1>2, <1>3 DEF Sending, Numbered, Started, Opening, NeverStarted, LinkUp, Handshaken,
      OneWrite, FifoOnce, HandshakeFirst, QueueHasWriter

LEMMA DisconnectKeeps ==
  ASSUME Sending, Disconnect
  PROVE  Sending'
  <1>1. CASE UNCHANGED <<send_queue_, writes, sockVars>>
    BY <1>1, SendingFrame DEF Disconnect, sockVars
  <1>2. CASE ~UNCHANGED <<send_queue_, writes, sockVars>>
    <2>1. /\ send_queue_' = <<>> /\ tcp_socket_' = "null" /\ state_' = "kStateNew" /\ link' = "down"
          /\ UNCHANGED <<wire, sent>>
      BY <1>2 DEF Disconnect
    <2>2. QED
      BY <2>1 DEF Sending, Numbered, Started, Opening, NeverStarted, LinkUp, Handshaken,
        OneWrite, FifoOnce, HandshakeFirst, QueueHasWriter
  <1>3. QED
    BY <1>1, <1>2

LEMMA SendingStep ==
  ASSUME TypeOK, Sending, Unconnected, KeepAlive, [Next]_vars
  PROVE  Sending'
  <1>t. SendTypes
    BY TypeParts
  <1>1. CASE UNCHANGED <<state_, tcp_socket_, link, send_queue_, writes, wire, sent>>
    BY <1>1, SendingFrame
  <1>2. ASSUME NEW w \in writes,
               ProcessTCPSendQueue(w) \/ ProcessTCPSendQueueError(w) \/ WriteCompletes(w)
        PROVE  Sending'
    BY <1>2, <1>t, ProcessTCPSendQueueKeeps, WriteEndKeeps
  <1>3. ASSUME NEW t \in OutTypes, SendMessage(t), UNCHANGED <<state_, tcp_socket_, link>>
        PROVE  Sending'
    BY <1>3, <1>t, SendMessageKeeps DEF SendMessage
  <1>4. CASE DoPing \/ SendRawUdpTunnel \/ ParseCryptRequest
    BY <1>3, <1>4 DEF DoPing, SendRawUdpTunnel, ParseCryptRequest, Takes, sockVars, OutTypes
  <1>5. CASE SetComment
    BY <1>1, <1>3, <1>5 DEF SetComment, sockVars, OutTypes
  <1>6. CASE ParseServerSync
    <2>1. /\ SendMessages(<<"Ping">>, "kStateAuthenticated", tcp_socket_, wire)
          /\ state_' = "kStateAuthenticated" /\ UNCHANGED <<tcp_socket_, link>> /\ pc \in {"parse", "next"}
      BY <1>6 DEF ParseServerSync, Takes
    <2>2. tcp_socket_ = "live" => state_ # "kStateNew"
      BY <2>1 DEF Unconnected
    <2>3. "Ping" \in OutTypes
      BY DEF OutTypes
    <2>4. QED
      BY <1>t, <2>1, <2>2, <2>3, SendMessageKeeps
  <1>7. CASE Connect
    BY <1>7, <1>t, ConnectKeeps
  <1>8. CASE ConnectionError \/ HandshakeError
    BY <1>8, <1>t, FailedConnectKeeps
  <1>9. CASE Disconnect
    BY <1>9, DisconnectKeeps
  <1>10. CASE LinkFails
    BY <1>10, SendingFrame DEF LinkFails, sendVars
  <1>11. CASE DoPingError \/ ReadHandlerError \/ ReadHandler \/ ReadHandlerEnds \/ ParseOther \/ ParseTextMessage
              \/ RunReturns \/ Run \/ Destroy \/ DeletedStream \/ CallbackReturns \/ ReadFails
              \/ TimerExpires \/ \E kind \in InKinds : ServerSends(kind)
    BY <1>1, <1>11 DEF DoPingError, ReadHandlerError, ReadHandler, ReadHandlerEnds, ParseOther,
      ParseTextMessage, Takes, RunReturns, Run, Destroy, DeletedStream, CallbackReturns, ReadFails,
      TimerExpires, ServerSends, sockVars, sendVars
  <1>12. CASE UNCHANGED vars
    BY <1>1, <1>12 DEF vars, sockVars, sendVars
  <1>13. QED
    BY <1>2, <1>4, <1>5, <1>6, <1>7, <1>8, <1>9, <1>10, <1>11, <1>12
    DEF Next, EventLoop, Application, Kernel

-----------------------------------------------------------------------------
(* The socket without a connection, and the ping chain.                     *)

(* While nothing is connected only the steps that change none of these, the *)
(* two ends of Run, the destructor and the public operations can be taken.  *)
LEMMA UnconnectedStep ==
  ASSUME TypeOK, Sending, Unconnected, KeepAlive, [Next]_vars
  PROVE  Unconnected'
  <1>w. waits.pending \in Nat /\ waits.ok \in Nat /\ waits.aborted \in Nat
    BY DEF TypeOK
  <1>1. CASE Connect
    BY <1>1 DEF Connect, Unconnected
  <1>2. CASE ConnectionError \/ HandshakeError
    <2>1. NoWork /\ pc = "app"
      BY <1>2, FailedConnectKeeps, TypeParts
    <2>2. UNCHANGED <<writes, read, waits, pc>> /\ wire' = <<>>
      BY <1>2 DEF ConnectionError, HandshakeError, readVars
    <2>3. QED
      BY <2>1, <2>2 DEF Unconnected, NoWork
  <1>3. CASE Disconnect
    BY <1>3 DEF Disconnect, Unconnected, NoWork, sockVars, ctlVars
  <1>4. CASE UNCHANGED vars
    BY <1>4 DEF vars, sockVars, sendVars, readVars, ctlVars, Unconnected, NoWork
  <1>5. CASE Next /\ ~(Connect \/ ConnectionError \/ HandshakeError \/ Disconnect)
    <2>1. UNCHANGED <<tcp_socket_>> /\ (state_' = state_ \/ ParseServerSync)
      BY <1>5 DEF Next, EventLoop, Application, Kernel, ProcessTCPSendQueue, ProcessTCPSendQueueError,
        DoPing, DoPingError, ReadHandlerError, ReadHandler, ReadHandlerEnds, ParseOther,
        ParseTextMessage, ParseCryptRequest, Takes, RunReturns, SendRawUdpTunnel, SetComment, Run,
        Destroy, DeletedStream, CallbackReturns, WriteCompletes, ServerSends, LinkFails, ReadFails,
        TimerExpires, ParseServerSync, sockVars
    <2>2. CASE ParseServerSync
      BY <2>2 DEF ParseServerSync, Unconnected
    <2>3. CASE ~(tcp_socket_ = "live" /\ state_ = "kStateNew") /\ state_' = state_
      BY <2>1, <2>3 DEF Unconnected
    <2>4. CASE tcp_socket_ = "live" /\ state_ = "kStateNew" /\ state_' = state_
      <3>1. /\ writes = {} /\ read = "none" /\ waits.pending = 0 /\ waits.ok = 0 /\ waits.aborted = 0
            /\ wire = <<>> /\ pc \in {"app", "loop", "deleted"} /\ link # "up"
        BY <2>4, <1>w DEF Unconnected, NoWork, Sending, LinkUp
      <3>2. LinkFails \/ SendRawUdpTunnel \/ Run \/ RunReturns \/ Destroy
        BY <1>5, <3>1 DEF Next, EventLoop, Application, Kernel, DoPing, DoPingError, ReadHandlerError,
          ReadHandler, ReadHandlerEnds, ParseOther, ParseTextMessage, ParseCryptRequest, ParseServerSync,
          Takes, SetComment, DeletedStream, CallbackReturns, ServerSends, ReadFails, TimerExpires
      <3>3. UNCHANGED <<writes, wire>>
        BY <2>4, <3>2 DEF LinkFails, SendRawUdpTunnel, SendMessage, SendMessages, StartsWrite, Run,
          RunReturns, Destroy, sendVars
      <3>4. UNCHANGED <<read, waits>> /\ pc' \in {"app", "loop", "deleted"}
        BY <3>1, <3>2 DEF LinkFails, SendRawUdpTunnel, Run, RunReturns, Destroy, readVars, ctlVars
      <3>5. QED
        BY <2>4, <3>1, <3>3, <3>4 DEF Unconnected, NoWork
    <2>5. QED
      BY <2>1, <2>2, <2>3, <2>4
  <1>6. QED
    BY <1>1, <1>2, <1>3, <1>4, <1>5

(* Whoever takes the pending wait away puts another in its place.           *)
LEMMA KeepAliveStep ==
  ASSUME TypeOK, KeepAlive, [Next]_vars
  PROVE  KeepAlive'
  <1>w. waits \in Waits /\ waits.pending \in Nat /\ waits.ok \in Nat
    BY DEF TypeOK, Waits
  <1>1. CASE DoPing
    <2>1. waits' \in Waits /\ waits'.pending = 1
      BY <1>w, <1>1, WaitsKept DEF DoPing
    <2>2. QED
      BY <2>1 DEF KeepAlive, Waits
  <1>2. CASE ParseServerSync
    <2>1. waits' \in Waits /\ waits'.pending = 1
      BY <1>w, <1>2, WaitsKept DEF ParseServerSync
    <2>2. QED
      BY <2>1 DEF KeepAlive, Waits
  <1>3. CASE DoPingError
    BY <1>w, <1>3 DEF DoPingError, KeepAlive, Waits, sockVars
  <1>4. CASE TimerExpires
    BY <1>w, <1>4 DEF TimerExpires, KeepAlive, sockVars
  <1>5. CASE Connect
    BY <1>5 DEF Connect, KeepAlive
  <1>6. CASE Disconnect
    BY <1>6 DEF Disconnect, KeepAlive, sockVars
  <1>7. CASE UNCHANGED vars
    BY <1>7 DEF vars, sockVars, KeepAlive
  <1>8. CASE Next /\ ~(DoPing \/ ParseServerSync \/ DoPingError \/ TimerExpires \/ Connect \/ Disconnect)
    <2>1. UNCHANGED <<state_, waits>>
      BY <1>8 DEF Next, EventLoop, Application, Kernel, ProcessTCPSendQueue, ProcessTCPSendQueueError,
        ReadHandlerError, ReadHandler, ReadHandlerEnds, ParseOther, ParseTextMessage, ParseCryptRequest,
        Takes, RunReturns, ConnectionError, HandshakeError, SendRawUdpTunnel, SetComment, Run, Destroy,
        DeletedStream, CallbackReturns, WriteCompletes, ServerSends, LinkFails, ReadFails, sockVars
    <2>2. QED
      BY <2>1 DEF KeepAlive
  <1>9. QED
    BY <1>1, <1>2, <1>3, <1>4, <1>5, <1>6, <1>7, <1>8

-----------------------------------------------------------------------------

(* IInv is inductive.                                                       *)
THEOREM Inductive == Spec => []IInv
  <1>1. Init => IInv
    <2>1. Init => TypeOK
      <3>1. Init => SendTypes
        BY DEF Init, SendTypes
      <3>2. Init => ControlTypes
        BY DEF Init, ControlTypes
      <3>3. QED
        BY <3>1, <3>2, TypeParts DEF Init
    <2>2. Init => Sending
      BY DEF Init, Sending, Numbered, Started, Opening, NeverStarted, LinkUp, Handshaken,
        OneWrite, FifoOnce, HandshakeFirst, QueueHasWriter
    <2>3. Init => Unconnected /\ KeepAlive
      BY DEF Init, Unconnected, KeepAlive
    <2>4. QED
      BY <2>1, <2>2, <2>3 DEF IInv
  <1>2. IInv /\ [Next]_vars => Sending' /\ Unconnected' /\ KeepAlive'
    BY SendingStep, UnconnectedStep, KeepAliveStep DEF IInv
  <1>3. TypeOK /\ Sending /\ Unconnected /\ KeepAlive <=> IInv
    BY DEF IInv
  <1>4. QED
    BY <1>1, <1>2, <1>3, TypeCorrect, PTL DEF Spec

(* At most one write is outstanding on a connection, and it carries the     *)
(* front of send_queue_, which ProcessTCPSendQueue pops.                    *)
THEOREM OneWriteAlways == Spec => []OneWrite
  BY Inductive, PTL DEF IInv, Sending

(* A connection carries its messages in the order queued, each of them once. *)
THEOREM FifoOnceAlways == Spec => []FifoOnce
  BY Inductive, PTL DEF IInv, Sending

(* Version and Authenticate come first.                                     *)
THEOREM HandshakeFirstAlways == Spec => []HandshakeFirst
  BY Inductive, PTL DEF IInv, Sending

(* A waiting message has a writer before it.                                *)
THEOREM QueueHasWriterAlways == Spec => []QueueHasWriter
  BY Inductive, PTL DEF IInv, Sending

(* The ping chain of an authenticated client does not die.                  *)
THEOREM KeepAliveAlways == Spec => []KeepAlive
  BY Inductive, PTL DEF IInv

-----------------------------------------------------------------------------
(* The send queue implements Outbox.                                        *)

(* The queue behind its front, and a queue that grows at its end.           *)
LEMMA BehindFront ==
  ASSUME NEW q \in Seq(OutMessage), q # <<>>
  PROVE  /\ Tail(q) \in Seq(OutMessage) /\ Len(Tail(q)) = Len(q) - 1
         /\ \A i \in 1..Len(Tail(q)) : Tail(q)[i] = q[i + 1]
         /\ Len(q) \in Nat /\ Len(q) >= 1 /\ (Tail(q) = <<>> <=> Len(q) = 1)
  <1>1. /\ Tail(q) \in Seq(OutMessage) /\ Len(Tail(q)) = Len(q) - 1
        /\ \A i \in 1..Len(Tail(q)) : Tail(q)[i] = q[i + 1]
    BY HeadTailProperties
  <1>2. Len(q) \in Nat /\ Len(q) >= 1
    BY EmptySeq
  <1>3. Tail(q) = <<>> <=> Len(Tail(q)) = 0
    BY <1>1, EmptySeq
  <1>4. QED
    BY <1>1, <1>2, <1>3

LEMMA WaitingGrows ==
  ASSUME SendTypes, SendTypes', UNCHANGED <<tcp_socket_, wire>>,
         Len(send_queue_') >= Len(send_queue_),
         \A i \in 1..Len(send_queue_) : send_queue_'[i] = send_queue_[i],
         send_queue_ # <<>> \/ wire = <<>> \/ tcp_socket_ # "live"
  PROVE  O!Queue
  <1>1. send_queue_ \in Seq(OutMessage) /\ send_queue_' \in Seq(OutMessage)
        /\ Len(send_queue_) \in Nat /\ Len(send_queue_') \in Nat
    BY DEF SendTypes
  <1>2. CASE tcp_socket_ = "live" /\ wire # <<>>
    <2>1. send_queue_ # <<>> /\ Len(send_queue_) >= 1
      BY <1>1, <1>2, BehindFront
    <2>2. send_queue_' # <<>>
      BY <1>1, <2>1, EmptySeq
    <2>3. Waiting = Tail(send_queue_) /\ Waiting' = Tail(send_queue_')
      BY <1>2, <2>1, <2>2 DEF Waiting
    <2>4. /\ Len(Waiting) = Len(send_queue_) - 1 /\ Len(Waiting') = Len(send_queue_') - 1
          /\ \A i \in 1..Len(Waiting) : Waiting[i] = send_queue_[i + 1]
          /\ \A i \in 1..Len(Waiting') : Waiting'[i] = send_queue_'[i + 1]
      BY <1>1, <2>1, <2>2, <2>3, BehindFront
    <2>5. Len(Waiting') >= Len(Waiting)
      BY <1>1, <2>4
    <2>6. ASSUME NEW i \in 1..Len(Waiting) PROVE Waiting'[i] = Waiting[i]
      <3>1. i \in 1..Len(Waiting') /\ i + 1 \in 1..Len(send_queue_)
        BY <1>1, <2>4
      <3>2. QED
        BY <2>4, <3>1
    <2>7. QED
      BY <2>5, <2>6 DEF O!Queue, O!Grows
  <1>3. CASE ~(tcp_socket_ = "live" /\ wire # <<>>)
    <2>1. Waiting = send_queue_ /\ Waiting' = send_queue_'
      BY <1>3 DEF Waiting
    <2>2. QED
      BY <2>1 DEF O!Queue, O!Grows
  <1>4. QED
    BY <1>2, <1>3

(* SendMessage queues, or gives the socket the message at once.             *)
LEMMA SendMessageImplements ==
  ASSUME IInv, NEW t \in OutTypes, NEW st,
         SendMessages(<<t>>, st, tcp_socket_, wire), UNCHANGED tcp_socket_,
         st = state_ \/ (st = "kStateAuthenticated" /\ (tcp_socket_ = "live" => state_ # "kStateNew"))
  PROVE  [O!Next]_(O!vars)
  <1>t. SendTypes /\ SendTypes' /\ Sending /\ Unconnected
    <2>1. SendTypes
      BY TypeParts DEF IInv
    <2>2. <<t>> \in Seq(OutTypes) /\ <<t>> # <<>> /\ wire \in Seq(OutMessage)
      BY <2>1 DEF SendTypes
    <2>3. SendTypes'
      BY <2>1, <2>2, SendTypesKept
    <2>4. QED
      BY <2>1, <2>3 DEF IInv
  <1>1. CASE StartsWrite(st) /\ tcp_socket_ # "live"
    BY <1>1 DEF SendMessages, O!vars, Waiting
  <1>2. CASE ~(StartsWrite(st) /\ tcp_socket_ # "live")
    <2> DEFINE ts == <<t>>
    <2>1. ts \in Seq(OutTypes) /\ Len(ts) = 1 /\ ts[1] = t
      OBVIOUS
    <2>2. /\ send_queue_' = send_queue_ \o Batch(ts) /\ sent' = sent + Len(ts)
          /\ IF StartsWrite(st) THEN SendFirstQueued(send_queue_', writes, wire)
             ELSE writes' = writes /\ wire' = wire
      BY <1>2 DEF SendMessages
    <2> HIDE DEF ts
    <2>3. send_queue_ \in Seq(OutMessage) /\ wire \in Seq(OutMessage) /\ sent \in Nat /\ Numbered
          /\ send_queue_' \in Seq(OutMessage)
      BY <1>t DEF SendTypes, Sending
    <2>4. /\ Len(send_queue_') = Len(send_queue_) + 1
          /\ \A i \in 1..Len(send_queue_) : send_queue_'[i] = send_queue_[i]
      BY <2>1, <2>2, <2>3, QueueGrows
    <2>5. Len(send_queue_) \in Nat /\ (send_queue_ = <<>> <=> Len(send_queue_) = 0)
      BY <2>3, EmptySeq
    <2>6. CASE StartsWrite(st)
      <3>1. tcp_socket_ = "live" /\ send_queue_ = <<>> /\ st # "kStateNew"
        BY <1>2, <2>6 DEF StartsWrite
      <3>2. wire # <<>>
        BY <1>t, <3>1 DEF Sending, NeverStarted
      <3>3. send_queue_' # <<>> /\ Len(send_queue_') = 1 /\ Head(send_queue_') \in OutMessage
        <4>1. Len(send_queue_') = 1
          BY <2>4, <2>5, <3>1
        <4>2. send_queue_' # <<>>
          BY <4>1, EmptySeq
        <4>3. QED
          BY <2>3, <4>1, <4>2
      <3>4. wire' = Append(wire, Head(send_queue_'))
        BY <2>2, <2>6 DEF SendFirstQueued
      <3>5. Len(wire') = Len(wire) + 1 /\ wire'[Len(wire) + 1] = Head(send_queue_') /\ wire' # <<>>
        BY <2>3, <3>3, <3>4, AppendProperties
      <3>6. Waiting = <<>> /\ Waiting' = <<>>
        <4>1. Tail(send_queue_') = <<>>
          BY <2>3, <3>3, BehindFront
        <4>2. QED
          BY <3>1, <3>3, <3>5, <4>1 DEF Waiting
      <3>7. O!Send
        BY <3>1, <3>4, <3>5, <3>6 DEF O!Send
      <3>8. QED
        BY <3>7 DEF O!Next
    <2>7. CASE ~StartsWrite(st)
      <3>1. wire' = wire
        BY <2>2, <2>7
      <3>2. send_queue_ # <<>> \/ wire = <<>> \/ tcp_socket_ # "live"
        <4>1. CASE st = "kStateNew"
          BY <1>t, <4>1 DEF Unconnected
        <4>2. CASE st # "kStateNew"
          BY <2>7, <4>2 DEF StartsWrite
        <4>3. QED
          BY <4>1, <4>2
      <3>3. O!Queue
        BY <1>t, <2>4, <2>5, <3>1, <3>2, WaitingGrows
      <3>4. QED
        BY <3>3 DEF O!Next
    <2>8. QED
      BY <2>6, <2>7
  <1>3. QED
    BY <1>1, <1>2

(* What ProcessTCPSendQueue pops was given to the socket, and the next      *)
(* message is; on a socket already deleted a message queued since is lost.  *)
LEMMA PopImplements ==
  ASSUME IInv, NEW w \in writes, ProcessTCPSendQueue(w)
  PROVE  [O!Next]_(O!vars)
  <1>t. SendTypes /\ Sending /\ Unconnected
    BY TypeParts DEF IInv
  <1>1. tcp_socket_' = tcp_socket_ /\ send_queue_ \in Seq(OutMessage) /\ wire \in Seq(OutMessage)
    BY <1>t DEF ProcessTCPSendQueue, SendTypes, sockVars
  <1>2. CASE UNCHANGED <<send_queue_, wire>>
    BY <1>1, <1>2 DEF O!vars, Waiting
  <1>3. CASE ~UNCHANGED <<send_queue_, wire>>
    <2>1. /\ send_queue_ # <<>> /\ (Len(send_queue_) > 1 => tcp_socket_ = "live")
          /\ send_queue_' = Tail(send_queue_) /\ SendNext(Tail(send_queue_), writes \ {w})
      BY <1>3 DEF ProcessTCPSendQueue
    <2>2. /\ Tail(send_queue_) \in Seq(OutMessage) /\ Len(send_queue_) \in Nat /\ Len(send_queue_) >= 1
          /\ (Tail(send_queue_) = <<>> <=> Len(send_queue_) = 1)
      BY <1>1, <2>1, BehindFront
    <2>3. CASE tcp_socket_ # "live"
      <3>1. Tail(send_queue_) = <<>>
        BY <2>1, <2>2, <2>3
      <3>2. wire' = wire
        BY <2>1, <3>1 DEF SendNext
      <3>3. Waiting = send_queue_ /\ Waiting' = Tail(send_queue_)
        BY <1>1, <2>1, <2>3 DEF Waiting
      <3>4. O!Lose
        BY <1>1, <2>1, <2>3, <3>2, <3>3 DEF O!Lose
      <3>5. QED
        BY <3>4 DEF O!Next
    <2>4. CASE tcp_socket_ = "live"
      <3>1. wire # <<>>
        BY <1>t, <2>4 DEF Sending, NeverStarted, Unconnected, NoWork
      <3>2. Waiting = Tail(send_queue_)
        BY <2>1, <2>4, <3>1 DEF Waiting
      <3>3. CASE Tail(send_queue_) = <<>>
        <4>1. wire' = wire /\ Waiting' = <<>>
          BY <2>1, <3>3 DEF SendNext, Waiting
        <4>2. QED
          BY <1>1, <3>2, <3>3, <4>1 DEF O!vars
      <3>4. CASE Tail(send_queue_) # <<>>
        <4>1. wire' = Append(wire, Head(Tail(send_queue_)))
          BY <2>1, <3>4 DEF SendNext, SendFirstQueued
        <4>2. Head(Tail(send_queue_)) \in OutMessage
          BY <2>2, <3>4
        <4>3. wire' # <<>>
          BY <1>1, <4>1, <4>2, AppendProperties
        <4>4. Waiting' = Tail(Tail(send_queue_))
          BY <1>1, <2>1, <2>4, <3>4, <4>3 DEF Waiting
        <4>5. O!Give
          BY <1>1, <2>4, <3>2, <3>4, <4>1, <4>4 DEF O!Give
        <4>6. QED
          BY <4>5 DEF O!Next
      <3>5. QED
        BY <3>3, <3>4
    <2>5. QED
      BY <2>3, <2>4
  <1>4. QED
    BY <1>2, <1>3

(* Connect never writes on a socket that was written to.                    *)
LEMMA Reconnects ==
  ASSUME IInv, MayConnect
  PROVE  Waiting = send_queue_ /\ (tcp_socket_ = "live" => wire = <<>>)
  BY DEF IInv, Unconnected, MayConnect, Waiting

LEMMA ConnectImplements ==
  ASSUME IInv, Connect
  PROVE  O!Open
  <1> DEFINE q == send_queue_'
             ts == InitialMessages
  <1>1. /\ SendTypes /\ Numbered /\ tcp_socket_' = "live" /\ Waiting = send_queue_
        /\ send_queue_ \in Seq(OutMessage) /\ sent \in Nat /\ (tcp_socket_ = "live" => wire = <<>>)
    BY TypeParts, Reconnects DEF IInv, Sending, SendTypes, Connect
  <1>2. /\ q = send_queue_ \o Batch(ts) /\ sent' = sent + Len(ts)
        /\ IF send_queue_ = <<>> THEN SendFirstQueued(q, writes, <<>>)
           ELSE writes' = writes /\ wire' = <<>>
    BY DEF Connect, SendMessages, StartsWrite
  <1>3. ts \in Seq(OutTypes) /\ Len(ts) = 2
    BY DEF InitialMessages, OutTypes
  <1> HIDE DEF ts
  <1>4. Len(q) = Len(send_queue_) + 2 /\ \A i \in 1..Len(send_queue_) : q[i] = send_queue_[i]
    BY <1>1, <1>2, <1>3, QueueGrows
  <1>5. CASE send_queue_ = <<>>
    <2>1. wire' = Append(<<>>, Head(q))
      BY <1>2, <1>5 DEF SendFirstQueued
    <2>2. Len(wire') = 1
      BY <2>1
    <2>3. QED
      BY <1>1, <1>5, <2>2 DEF O!Open
  <1>6. CASE send_queue_ # <<>>
    <2>1. wire' = <<>>
      BY <1>2, <1>6
    <2>2. Waiting' = q
      BY <2>1 DEF Waiting
    <2>3. O!Grows
      <3>1. Len(q) >= Len(send_queue_)
        BY <1>1, <1>4
      <3>2. QED
        BY <1>1, <1>4, <2>2, <3>1 DEF O!Grows
    <2>4. QED
      BY <1>1, <2>1, <2>3 DEF O!Open
  <1>7. QED
    BY <1>5, <1>6

(* Every step is one of Outbox, or changes nothing that it sees.            *)
LEMMA OutboxStep ==
  ASSUME IInv, [Next]_vars
  PROVE  [O!Next]_(O!vars)
  <1>1. CASE UNCHANGED <<tcp_socket_, send_queue_, wire>>
    BY <1>1 DEF O!vars, Waiting
  <1>2. ASSUME NEW w \in writes, ProcessTCPSendQueue(w) PROVE [O!Next]_(O!vars)
    BY <1>2, PopImplements
  <1>3. ASSUME NEW t \in OutTypes, SendMessage(t), UNCHANGED tcp_socket_
        PROVE  [O!Next]_(O!vars)
    BY <1>3, SendMessageImplements DEF SendMessage
  <1>4. CASE DoPing \/ SendRawUdpTunnel \/ ParseCryptRequest
    BY <1>3, <1>4 DEF DoPing, SendRawUdpTunnel, ParseCryptRequest, Takes, sockVars, OutTypes
  <1>5. CASE SetComment
    BY <1>1, <1>3, <1>5 DEF SetComment, sockVars, OutTypes
  <1>6. CASE ParseServerSync
    <2>1. /\ SendMessages(<<"Ping">>, "kStateAuthenticated", tcp_socket_, wire)
          /\ UNCHANGED tcp_socket_ /\ (tcp_socket_ = "live" => state_ # "kStateNew") /\ "Ping" \in OutTypes
      BY <1>6 DEF ParseServerSync, Takes, IInv, Unconnected, OutTypes
    <2>2. QED
      BY <2>1, SendMessageImplements
  <1>7. CASE Connect
    BY <1>7, ConnectImplements DEF O!Next
  <1>8. CASE ConnectionError \/ HandshakeError
    <2>1. /\ tcp_socket_' = "live" /\ wire' = <<>> /\ send_queue_' = send_queue_ /\ Waiting = send_queue_
          /\ (tcp_socket_ = "live" => wire = <<>>)
      BY <1>8, Reconnects DEF ConnectionError, HandshakeError
    <2>2. Waiting' = send_queue_ /\ Len(send_queue_) \in Nat
      BY <2>1 DEF Waiting, IInv, TypeOK
    <2>3. O!Open
      BY <2>1, <2>2 DEF O!Open, O!Grows
    <2>4. QED
      BY <2>3 DEF O!Next
  <1>9. CASE Disconnect
    <2>1. CASE UNCHANGED <<send_queue_, sockVars>>
      BY <1>1, <1>9, <2>1 DEF Disconnect, sockVars
    <2>2. CASE ~UNCHANGED <<send_queue_, sockVars>>
      <3>1. tcp_socket_ = "live" /\ tcp_socket_' = "null" /\ send_queue_' = <<>> /\ wire' = wire
        BY <1>9, <2>2 DEF Disconnect
      <3>2. O!Close
        BY <3>1 DEF O!Close, Waiting
      <3>3. QED
        BY <3>2 DEF O!Next
    <2>3. QED
      BY <2>1, <2>2
  <1>10. CASE \/ \E w \in writes : ProcessTCPSendQueueError(w) \/ WriteCompletes(w)
              \/ DoPingError \/ ReadHandlerError \/ ReadHandler \/ ReadHandlerEnds \/ ParseOther \/ ParseTextMessage
              \/ RunReturns \/ Run \/ Destroy \/ DeletedStream \/ CallbackReturns \/ ReadFails
              \/ TimerExpires \/ LinkFails \/ UNCHANGED vars \/ \E kind \in InKinds : ServerSends(kind)
    BY <1>1, <1>10 DEF ProcessTCPSendQueueError, WriteCompletes, DoPingError, ReadHandlerError, ReadHandler,
      ReadHandlerEnds, ParseOther, ParseTextMessage, Takes, RunReturns, Run, Destroy, DeletedStream,
      CallbackReturns, ReadFails, TimerExpires, LinkFails, ServerSends, sockVars, sendVars, vars
  <1>11. QED
    BY <1>2, <1>4, <1>5, <1>6, <1>7, <1>8, <1>9, <1>10 DEF Next, EventLoop, Application, Kernel

(* The handlers give the socket every message queued on a connection, in     *)
(* order and once, and lose none before Disconnect (SendMessage,            *)
(* ProcessTCPSendQueue, client.cc:302-324 and 485-504).                     *)
THEOREM OutboxImplemented == Spec => OutboxSpec
  <1>1. Init => O!Init
    BY DEF Init, O!Init, Waiting
  <1>2. IInv /\ [Next]_vars => [O!Next]_(O!vars)
    BY OutboxStep
  <1>3. QED
    BY <1>1, <1>2, Inductive, PTL DEF Spec, OutboxSpec, O!Spec

-----------------------------------------------------------------------------
(* Where the process can die.                                               *)

(* On a connection whose buffer started empty, a text message is in the     *)
(* buffer only behind a ServerSync, or when that was handled already.       *)
Announced ==
  tcp_socket_ = "live" /\ state_ # "kStateNew" /\ ~leftover =>
    /\ pc = "callback" /\ cur \in {"ServerSync", "TextMessage"} => state_ = "kStateAuthenticated"
    /\ state_ # "kStateAuthenticated" =>
         /\ \A j \in 1..Len(recv_buffer_) : recv_buffer_[j] = "TextMessage" =>
              \E i \in 1..Len(recv_buffer_) : i < j /\ recv_buffer_[i] = "ServerSync"
         /\ synced => \E i \in 1..Len(recv_buffer_) : recv_buffer_[i] = "ServerSync"

(* What the callback is about when one starts.                              *)
LEMMA TakesAnnounced ==
  ASSUME TypeOK, Announced, NEW kind \in InKinds, Takes(kind), kind # "ServerSync",
         state_' = state_, pc' = "next" \/ (pc' = "callback" /\ cur' = kind)
  PROVE  Announced'
  <1>1. /\ recv_buffer_ \in Seq(InKinds) /\ recv_buffer_ # <<>> /\ recv_buffer_[1] = kind
        /\ recv_buffer_' = Tail(recv_buffer_) /\ UNCHANGED <<tcp_socket_, leftover, synced>>
    BY DEF Takes, TypeOK, histVars
  <1>2. /\ Len(recv_buffer_) \in Nat /\ Len(recv_buffer_') = Len(recv_buffer_) - 1
        /\ \A i \in 1..Len(recv_buffer_') : recv_buffer_'[i] = recv_buffer_[i + 1]
    BY <1>1, HeadTailProperties
  <1>l. Len(recv_buffer_) >= 1 /\ 1 \in 1..Len(recv_buffer_)
    BY <1>1, <1>2
  <1>3. SUFFICES ASSUME tcp_socket_ = "live", state_ # "kStateNew", ~leftover
                 PROVE  /\ pc' = "callback" /\ cur' \in {"ServerSync", "TextMessage"} => state_ = "kStateAuthenticated"
                        /\ state_ # "kStateAuthenticated" =>
                           /\ \A j \in 1..Len(recv_buffer_') : recv_buffer_'[j] = "TextMessage" =>
                                \E i \in 1..Len(recv_buffer_') : i < j /\ recv_buffer_'[i] = "ServerSync"
                           /\ synced => \E i \in 1..Len(recv_buffer_') : recv_buffer_'[i] = "ServerSync"
    BY <1>1 DEF Announced
  <1>4. ASSUME kind = "TextMessage"
        PROVE  state_ = "kStateAuthenticated"
    <2>1. SUFFICES ASSUME state_ # "kStateAuthenticated" PROVE FALSE
      OBVIOUS
    <2>2. PICK i \in 1..Len(recv_buffer_) : i < 1
      BY <1>1, <1>3, <1>4, <1>l, <2>1 DEF Announced
    <2>3. QED
      BY <2>2, <1>2
  <1>5. ASSUME state_ # "kStateAuthenticated", NEW j \in 1..Len(recv_buffer_'), recv_buffer_'[j] = "TextMessage"
        PROVE  \E i \in 1..Len(recv_buffer_') : i < j /\ recv_buffer_'[i] = "ServerSync"
    <2>1. j + 1 \in 1..Len(recv_buffer_) /\ recv_buffer_[j + 1] = "TextMessage"
      BY <1>2, <1>5
    <2>2. PICK i \in 1..Len(recv_buffer_) : i < j + 1 /\ recv_buffer_[i] = "ServerSync"
      BY <1>3, <1>5, <2>1 DEF Announced
    <2>3. i # 1
      BY <1>1, <2>2
    <2>4. i - 1 \in 1..Len(recv_buffer_') /\ i - 1 < j /\ (i - 1) + 1 = i
      BY <1>2, <2>2, <2>3
    <2>5. recv_buffer_'[i - 1] = "ServerSync"
      BY <1>2, <2>2, <2>4
    <2>6. QED
      BY <2>4, <2>5
  <1>6. ASSUME state_ # "kStateAuthenticated", synced
        PROVE  \E i \in 1..Len(recv_buffer_') : recv_buffer_'[i] = "ServerSync"
    <2>1. PICK i \in 1..Len(recv_buffer_) : recv_buffer_[i] = "ServerSync"
      BY <1>3, <1>6 DEF Announced
    <2>2. i # 1
      BY <1>1, <2>1
    <2>3. i - 1 \in 1..Len(recv_buffer_') /\ (i - 1) + 1 = i
      BY <1>2, <2>1, <2>2
    <2>4. recv_buffer_'[i - 1] = "ServerSync"
      BY <1>2, <2>1, <2>3
    <2>5. QED
      BY <2>3, <2>4
  <1>7. QED
    BY <1>4, <1>5, <1>6

LEMMA AnnouncedStep ==
  ASSUME IInv, Announced, [Next]_vars
  PROVE  Announced'
  <1>t. TypeOK /\ Unconnected
    BY DEF IInv
  <1>1. CASE UNCHANGED <<tcp_socket_, state_, recv_buffer_, leftover, synced>>
             /\ (UNCHANGED <<pc, cur>> \/ pc' # "callback")
    BY <1>1 DEF Announced
  <1>2. CASE ParseOther
    BY <1>t, <1>2, TakesAnnounced DEF ParseOther, Calls, InKinds
  <1>3. CASE ParseTextMessage
    BY <1>t, <1>3, TakesAnnounced DEF ParseTextMessage, Calls, InKinds
  <1>4. CASE ParseCryptRequest
    BY <1>t, <1>4, TakesAnnounced DEF ParseCryptRequest, InKinds
  <1>5. CASE ParseServerSync
    BY <1>5 DEF ParseServerSync, Announced
  <1>6. ASSUME NEW kind \in InKinds, ServerSends(kind) PROVE Announced'
    <2>1. /\ recv_buffer_' = Append(recv_buffer_, kind) /\ (kind = "TextMessage" => synced)
          /\ (synced' => synced \/ kind = "ServerSync")
          /\ UNCHANGED <<tcp_socket_, state_, leftover, pc, cur>>
      BY <1>6 DEF ServerSends, sockVars, ctlVars, histVars
    <2>2. /\ Len(recv_buffer_) \in Nat /\ Len(recv_buffer_') = Len(recv_buffer_) + 1
          /\ recv_buffer_'[Len(recv_buffer_) + 1] = kind
          /\ \A i \in 1..Len(recv_buffer_) : recv_buffer_'[i] = recv_buffer_[i]
      BY <1>t, <2>1, AppendProperties DEF TypeOK
    <2>3. SUFFICES ASSUME tcp_socket_ = "live", state_ # "kStateNew", ~leftover, state_ # "kStateAuthenticated"
                   PROVE  /\ \A j \in 1..Len(recv_buffer_') : recv_buffer_'[j] = "TextMessage" =>
                                \E i \in 1..Len(recv_buffer_') : i < j /\ recv_buffer_'[i] = "ServerSync"
                          /\ synced' => \E i \in 1..Len(recv_buffer_') : recv_buffer_'[i] = "ServerSync"
      BY <2>1 DEF Announced
    <2>4. ASSUME synced
          PROVE  \E i \in 1..Len(recv_buffer_) : recv_buffer_'[i] = "ServerSync"
      BY <2>2, <2>3, <2>4 DEF Announced
    <2>5. ASSUME NEW j \in 1..Len(recv_buffer_'), recv_buffer_'[j] = "TextMessage"
          PROVE  \E i \in 1..Len(recv_buffer_') : i < j /\ recv_buffer_'[i] = "ServerSync"
      <3>1. CASE j = Len(recv_buffer_) + 1
        <4>1. PICK i \in 1..Len(recv_buffer_) : recv_buffer_'[i] = "ServerSync"
          BY <2>1, <2>2, <2>4, <2>5, <3>1
        <4>2. i \in 1..Len(recv_buffer_') /\ i < j
          BY <2>2, <3>1
        <4>3. QED
          BY <4>1, <4>2
      <3>2. CASE j \in 1..Len(recv_buffer_)
        <4>1. PICK i \in 1..Len(recv_buffer_) : i < j /\ recv_buffer_[i] = "ServerSync"
          BY <2>2, <2>3, <2>5, <3>2 DEF Announced
        <4>2. i \in 1..Len(recv_buffer_') /\ recv_buffer_'[i] = "ServerSync"
          BY <2>2, <4>1
        <4>3. QED
          BY <4>1, <4>2
      <3>3. j = Len(recv_buffer_) + 1 \/ j \in 1..Len(recv_buffer_)
        BY <2>2
      <3>4. QED
        BY <3>1, <3>2, <3>3
    <2>6. ASSUME synced'
          PROVE  \E i \in 1..Len(recv_buffer_') : recv_buffer_'[i] = "ServerSync"
      <3>1. CASE kind = "ServerSync"
        <4>1. Len(recv_buffer_) + 1 \in 1..Len(recv_buffer_')
          BY <2>2
        <4>2. QED
          BY <2>2, <3>1, <4>1
      <3>2. CASE synced
        <4>1. PICK i \in 1..Len(recv_buffer_) : recv_buffer_'[i] = "ServerSync"
          BY <2>4, <3>2
        <4>2. i \in 1..Len(recv_buffer_')
          BY <2>2
        <4>3. QED
          BY <4>1, <4>2
      <3>3. QED
        BY <2>1, <2>6, <3>1, <3>2
    <2>7. QED
      BY <2>5, <2>6
  <1>7. CASE Connect
    <2>1. /\ pc = "app" /\ pc' = pc /\ recv_buffer_' = recv_buffer_ /\ synced' = FALSE
          /\ leftover' = (recv_buffer_ # <<>>)
      BY <1>7 DEF Connect, MayConnect
    <2>2. ~leftover' => recv_buffer_ = <<>>
      BY <2>1
    <2>3. recv_buffer_ = <<>> => 1..Len(recv_buffer_) = {}
      OBVIOUS
    <2>4. QED
      BY <2>1, <2>2, <2>3 DEF Announced
  <1>8. CASE ConnectionError \/ HandshakeError
    <2>1. state_' = "kStateNew"
      <3>1. SendTypes
        BY <1>t, TypeParts
      <3>2. QED
        BY <1>8, <3>1, FailedConnectKeeps DEF IInv, ConnectionError, HandshakeError
    <2>2. QED
      BY <2>1 DEF Announced
  <1>9. CASE Disconnect
    <2>1. tcp_socket_' = "null" \/ UNCHANGED sockVars
      BY <1>9 DEF Disconnect
    <2>2. UNCHANGED <<recv_buffer_, synced, pc, cur, leftover>>
      BY <1>9 DEF Disconnect, ctlVars, histVars
    <2>3. QED
      BY <2>1, <2>2 DEF Announced, sockVars
  <1>10. CASE UNCHANGED vars
    BY <1>1, <1>10 DEF vars, sockVars, readVars, ctlVars, histVars
  <1>11. CASE Next /\ ~(ParseOther \/ ParseTextMessage \/ ParseCryptRequest \/ ParseServerSync \/ Connect
                       \/ ConnectionError \/ HandshakeError \/ Disconnect)
             /\ ~\E kind \in InKinds : ServerSends(kind)
    BY <1>1, <1>11 DEF Next, EventLoop, Application, Kernel, ProcessTCPSendQueue, ProcessTCPSendQueueError,
      DoPing, DoPingError, ReadHandlerError, ReadHandler, ReadHandlerEnds, RunReturns, SendRawUdpTunnel,
      SetComment, Run, Destroy, DeletedStream, CallbackReturns, WriteCompletes, LinkFails, ReadFails, TimerExpires,
      sockVars, readVars, ctlVars, histVars
  <1>12. QED
    BY <1>2, <1>3, <1>4, <1>5, <1>6, <1>7, <1>8, <1>9, <1>10, <1>11

(* A step that kills the process leaves it without one of its sockets, or   *)
(* on data of an earlier connection.                                        *)
LEMMA DeathStep ==
  ASSUME IInv, Announced, fault = "none", Next, fault' # "none"
  PROVE  tcp_socket_' # "live" \/ udp_socket_' # "live" \/ leftover'
  <1>t. TypeOK /\ Unconnected /\ OneWrite
    BY DEF IInv, Sending
  <1>1. ASSUME NEW w \in writes, ProcessTCPSendQueue(w) PROVE tcp_socket_' # "live"
    BY <1>t, <1>1 DEF ProcessTCPSendQueue, OneWrite, sockVars
  <1>2. CASE DoPing \/ SendRawUdpTunnel \/ ParseCryptRequest \/ ParseServerSync
    BY <1>2 DEF DoPing, SendRawUdpTunnel, ParseCryptRequest, ParseServerSync, Takes, SendMessage, SendMessages, sockVars
  <1>3. CASE SetComment
    <2>1. CASE state_ = "kStateAuthenticated"
      BY <1>3, <2>1 DEF SetComment, SendMessage, SendMessages, sockVars
    <2>2. CASE state_ # "kStateAuthenticated"
      BY <1>3, <1>t, <2>2 DEF SetComment, Announced, Unconnected, sockVars, ctlVars, histVars
    <2>3. QED
      BY <2>1, <2>2
  <1>4. CASE Disconnect
    BY <1>4 DEF Disconnect, sockVars
  <1>5. CASE Destroy \/ DeletedStream
    BY <1>5 DEF Destroy, DeletedStream, sockVars
  <1>6. CASE ~(DoPing \/ SendRawUdpTunnel \/ ParseCryptRequest \/ ParseServerSync \/ SetComment \/ Disconnect
               \/ Destroy \/ DeletedStream)
             /\ ~\E w \in writes : ProcessTCPSendQueue(w)
    <2>1. fault' = fault
      BY <1>6 DEF Next, EventLoop, Application, Kernel, ProcessTCPSendQueueError, DoPingError, ReadHandlerError,
        ReadHandler, ReadHandlerEnds, ParseOther, ParseTextMessage, RunReturns, Connect, SendMessages,
        ConnectionError, HandshakeError, Run, CallbackReturns, WriteCompletes, ServerSends, LinkFails, ReadFails,
        TimerExpires, sendVars
    <2>2. QED
      BY <2>1
  <1>7. QED
    BY <1>1, <1>2, <1>3, <1>4, <1>5, <1>6

(* The process dies only off line or on data of an earlier connection.      *)
THEOREM CrashOnlyOfflineAlways == Spec => []CrashOnlyOffline
  <1>1. Init => Announced /\ CrashOnlyOffline
    BY DEF Init, Announced, CrashOnlyOffline
  <1>2. IInv /\ Announced /\ CrashOnlyOffline /\ [Next]_vars => Announced' /\ CrashOnlyOffline'
    <2> SUFFICES ASSUME IInv, Announced, CrashOnlyOffline, [Next]_vars PROVE CrashOnlyOffline'
      BY AnnouncedStep
    <2>1. CASE UNCHANGED vars
      BY <2>1 DEF vars, sockVars, sendVars, ctlVars, histVars, CrashOnlyOffline
    <2>2. CASE Next
      BY <2>2, DeathStep DEF Next, CrashOnlyOffline
    <2>3. QED
      BY <2>1, <2>2
  <1>3. QED
    BY <1>1, <1>2, Inductive, PTL DEF Spec

-----------------------------------------------------------------------------
(* A connection on which a write failed.                                    *)
LEMMA TornMeans ==
  ASSUME IInv, Torn
  PROVE  /\ tcp_socket_ = "live" /\ wire # <<>> /\ send_queue_ # <<>>
         /\ \A w \in writes : writes = {w} /\ w.st = "err"
         /\ ~MayConnect
  <1>1. OneWrite /\ Unconnected
    BY DEF IInv, Sending
  <1>2. tcp_socket_ = "live" /\ wire # <<>> /\ send_queue_ # <<>>
    BY <1>1 DEF Torn, OneWrite
  <1>3. \A w \in writes : writes = {w} /\ w.st = "err"
    BY <1>1 DEF Torn, OneWrite
  <1>4. ~MayConnect
    BY <1>1, <1>2 DEF Unconnected, MayConnect
  <1>5. QED
    BY <1>2, <1>3, <1>4

LEMMA TornSend ==
  ASSUME TypeOK, IInv, Torn, tcp_socket_' = tcp_socket_, NEW t \in OutTypes, NEW st,
         SendMessages(<<t>>, st, tcp_socket_, wire)
  PROVE  wire' = wire /\ Torn'
  <1>1. /\ send_queue_ # <<>> /\ wire # <<>> /\ tcp_socket_ = "live"
        /\ \A w \in writes : writes = {w} /\ w.st = "err"
    BY TornMeans
  <1>2. send_queue_' = send_queue_ \o Batch(<<t>>) /\ writes' = writes /\ wire' = wire
    BY <1>1 DEF SendMessages, StartsWrite
  <1>3. send_queue_' # <<>>
    <2>1. Batch(<<t>>) \in Seq(OutMessage) /\ send_queue_ \in Seq(OutMessage)
      <3>1. <<t>> \in Seq(OutTypes)
        OBVIOUS
      <3>2. send_queue_ \in Seq(OutMessage) /\ sent \in Nat
        BY DEF TypeOK
      <3>3. QED
        BY <3>1, <3>2, BatchOfMessages
    <2>2. QED
      BY <1>1, <1>2, <2>1
  <1>4. (\E w \in writes' : w.st = "err") \/ writes' = {}
    BY <1>1, <1>2
  <1>5. QED
    BY <1>1, <1>2, <1>3, <1>4 DEF Torn

LEMMA TornStep ==
  ASSUME IInv, Torn, Next
  PROVE  wire' = wire /\ (Torn' \/ tcp_socket_' # "live")
  <1>t. /\ TypeOK /\ tcp_socket_ = "live" /\ wire # <<>> /\ send_queue_ # <<>> /\ ~MayConnect
        /\ \A w \in writes : writes = {w} /\ w.st = "err"
    BY TornMeans DEF IInv
  <1>1. CASE DoPing \/ ParseCryptRequest \/ ParseServerSync \/ SendRawUdpTunnel
    BY <1>t, <1>1, TornSend DEF DoPing, ParseCryptRequest, ParseServerSync, SendRawUdpTunnel, Takes,
      SendMessage, OutTypes, sockVars
  <1>2. CASE SetComment
    <2>1. tcp_socket_' = tcp_socket_
      BY <1>2 DEF SetComment, sockVars
    <2>2. CASE state_ = "kStateAuthenticated"
      BY <1>t, <1>2, <2>1, <2>2, TornSend DEF SetComment, SendMessage, OutTypes
    <2>3. CASE state_ # "kStateAuthenticated"
      BY <1>2, <2>1, <2>3 DEF SetComment, Torn
    <2>4. QED
      BY <2>2, <2>3
  <1>3. ASSUME NEW w \in writes, ProcessTCPSendQueueError(w)
        PROVE  wire' = wire /\ Torn'
    <2>1. writes' = {} /\ UNCHANGED <<wire, send_queue_, tcp_socket_>>
      BY <1>t, <1>3 DEF ProcessTCPSendQueueError, sockVars
    <2>2. QED
      BY <1>t, <2>1 DEF Torn
  <1>4. ASSUME NEW w \in writes, ProcessTCPSendQueue(w) \/ WriteCompletes(w)
        PROVE  FALSE
    BY <1>t, <1>4 DEF ProcessTCPSendQueue, WriteCompletes
  <1>5. CASE Connect \/ ConnectionError \/ HandshakeError
    BY <1>t, <1>5 DEF Connect, ConnectionError, HandshakeError
  <1>6. CASE Disconnect
    <2>1. /\ wire' = wire
          /\ tcp_socket_' = "null" \/ UNCHANGED <<tcp_socket_, writes, send_queue_>>
      BY <1>6 DEF Disconnect, sockVars
    <2>2. QED
      BY <2>1 DEF Torn
  <1>7. CASE UNCHANGED <<tcp_socket_, wire, writes, send_queue_>>
    BY <1>7 DEF Torn
  <1>8. QED
    BY <1>1, <1>2, <1>3, <1>4, <1>5, <1>6, <1>7 DEF Next, EventLoop, Application, Kernel, DoPingError,
      ReadHandlerError, ReadHandler, ReadHandlerEnds, ParseOther, ParseTextMessage, RunReturns, Run, Destroy,
      DeletedStream, CallbackReturns, ServerSends, LinkFails, ReadFails, TimerExpires, Takes, sockVars, sendVars

(* Once a write has failed on a connection, nothing more is written on it.  *)
THEOREM NothingAfterTornAlways == Spec => NothingAfterTorn
  <1>1. IInv /\ [Next]_vars => [Torn => wire' = wire /\ (Torn' \/ tcp_socket_' # "live")]_vars
    BY TornStep
  <1>2. QED
    BY <1>1, Inductive, PTL DEF Spec, NothingAfterTorn


----------------------------------------------------------------------------
(* Module Resync. *)
ResyncTypeOK ==
  /\ encrypt_iv \in IV /\ decrypt_iv \in IV /\ peer_iv \in IV /\ asked \in BOOLEAN
  /\ shown \in [enc : IV, dec : IV] /\ missed \in 0..Half /\ overtaken \in 0..Half
  /\ answer \in Seq(Seq(Byte)) /\ Len(answer) <= 1

(* The answer is the C string that shown tells, *)
AnswerShown == answer # <<>> => answer = <<CString(shown.enc \o shown.dec)>>
(* and the client is as many packets beyond its nonces as the counters say.  *)
PeerBehind == missed < Half => encrypt_iv = Forward(peer_iv, missed)
AnswerBehind ==
  answer # <<>> /\ Len(answer[1]) = AES_BLOCK_SIZE /\ overtaken < Half
    => encrypt_iv = Forward(answer[1], overtaken)

ResyncInv == ResyncTypeOK /\ AnswerShown /\ PeerBehind /\ AnswerBehind

LEMMA Sizes ==
  /\ Base \in Nat /\ Base > 1 /\ AES_BLOCK_SIZE \in Nat /\ AES_BLOCK_SIZE >= 1
  /\ Half \in Nat /\ Half >= 1 /\ 0 \in Byte
  BY NonceAssumption DEF Byte

LEMMA NonceIncrement ==
  ASSUME NEW iv \in IV
  PROVE  Increment(iv) \in IV
<1>1. ASSUME NEW k \in 1..AES_BLOCK_SIZE
      PROVE  (IF Carries(iv, k) THEN (iv[k] + 1) % Base ELSE iv[k]) \in Byte
  <2>1. iv[k] \in 0..(Base - 1)
    BY DEF IV, Byte
  <2>2. (iv[k] + 1) % Base \in 0..(Base - 1)
    BY <2>1, Sizes
  <2> QED  BY <2>1, <2>2 DEF Byte
<1> QED  BY <1>1 DEF Increment, IV

(* A nonce is a sequence of bytes, and the other way round. *)
LEMMA NonceSequence ==
  ASSUME NEW iv
  PROVE  iv \in IV <=> iv \in Seq(Byte) /\ Len(iv) = AES_BLOCK_SIZE
<1>1. ASSUME iv \in IV PROVE iv \in Seq(Byte) /\ Len(iv) = AES_BLOCK_SIZE
  BY <1>1, Sizes DEF IV
<1>2. ASSUME iv \in Seq(Byte), Len(iv) = AES_BLOCK_SIZE PROVE iv \in IV
  BY <1>2, Sizes DEF IV
<1> QED  BY <1>1, <1>2

LEMMA LeastOf ==
  ASSUME NEW S \in SUBSET Nat, S # {}
  PROVE  \E x \in S : \A y \in S : x <= y
<1>1. PICK x \in S : \A y \in S : <<y, x>> \notin OpToRel(<, Nat)
  BY WFMin, NatLessThanWellFounded
<1>2. \A y \in S : ~(y < x)
  BY <1>1 DEF OpToRel
<1> QED  BY <1>2

(* A C string ends before the first zero. *)
LEMMA StringEnds ==
  ASSUME NEW m \in Seq(Byte), Contains(m, 0)
  PROVE  \E z \in 1..Len(m) : /\ m[z] = 0 /\ \A j \in 1..(z - 1) : m[j] # 0
                              /\ CString(m) = SubSeq(m, 1, z - 1)
<1> DEFINE I == {i \in 1..Len(m) : m[i] = 0}
<1>1. I # {}
  BY DEF Contains
<1>2. PICK z \in I : \A y \in I : z =< y
  <2>1. I \in SUBSET Nat
    OBVIOUS
  <2> HIDE DEF I
  <2> QED  BY <1>1, <2>1, LeastOf
<1>3. Min(I) \in I /\ \A y \in I : Min(I) =< y
  BY <1>2 DEF Min
<1>4. SelectInSeq(m, LAMBDA b : b = 0) = Min(I)
  BY <1>1 DEF SelectInSeq
<1>5. CString(m) = SubSeq(m, 1, Min(I) - 1)
  BY <1>4 DEF CString
<1>6. PICK x \in I : x = Min(I)
  BY <1>3
<1>7. x \in 1..Len(m) /\ m[x] = 0
  OBVIOUS
<1>8. \A j \in 1..(x - 1) : m[j] # 0
  <2> SUFFICES ASSUME NEW j \in 1..(x - 1), m[j] = 0 PROVE FALSE
    OBVIOUS
  <2>1. Len(m) \in Nat /\ j \in 1..Len(m) /\ j < x
    BY <1>7
  <2>2. j \in I
    BY <2>1
  <2> QED  BY <1>3, <1>6, <2>1, <2>2
<1> QED  BY <1>5, <1>6, <1>7, <1>8

(* The string that begins at one nonce, in front of the other, is a whole    *)
(* nonce only when it is that nonce.                                         *)
LEMMA StringOfNonces ==
  ASSUME NEW enc \in IV, NEW dec \in IV
  PROVE  /\ CString(enc \o dec) \in Seq(Byte)
         /\ Len(CString(enc \o dec)) = AES_BLOCK_SIZE <=> ~Contains(enc, 0) /\ dec[1] = 0
         /\ Len(CString(enc \o dec)) = AES_BLOCK_SIZE => CString(enc \o dec) = enc
<1> DEFINE m == enc \o dec
<1>1. /\ enc \in Seq(Byte) /\ dec \in Seq(Byte) /\ Len(enc) = AES_BLOCK_SIZE
      /\ Len(dec) = AES_BLOCK_SIZE
  BY NonceSequence
<1>2. /\ m \in Seq(Byte) /\ Len(m) = 2 * AES_BLOCK_SIZE
      /\ \A i \in 1..AES_BLOCK_SIZE : m[i] = enc[i]
      /\ m[AES_BLOCK_SIZE + 1] = dec[1]
  <2>1. m \in Seq(Byte) /\ Len(m) = 2 * AES_BLOCK_SIZE
    BY <1>1, Sizes
  <2>2. \A i \in 1..AES_BLOCK_SIZE : m[i] = enc[i]
    BY <1>1, Sizes
  <2>3. m[AES_BLOCK_SIZE + 1] = dec[1]
    BY <1>1, Sizes
  <2> QED  BY <2>1, <2>2, <2>3
<1> HIDE DEF m
<1>3. CASE ~Contains(m, 0)
  <2>1. CString(m) = m
    BY <1>3 DEF CString
  <2>2. dec[1] # 0
    BY <1>2, <1>3, Sizes DEF Contains
  <2>3. Len(m) # AES_BLOCK_SIZE
    BY <1>2, Sizes
  <2> QED  BY <1>2, <2>1, <2>2, <2>3 DEF m
<1>4. CASE Contains(m, 0)
  <2>1. PICK z \in 1..Len(m) : /\ m[z] = 0 /\ \A j \in 1..(z - 1) : m[j] # 0
                              /\ CString(m) = SubSeq(m, 1, z - 1)
    BY <1>2, <1>4, StringEnds
  <2>2. /\ CString(m) \in Seq(Byte) /\ Len(CString(m)) = z - 1
        /\ \A i \in 1..(z - 1) : CString(m)[i] = m[i]
    BY <1>2, <2>1, Sizes
  <2>3. ASSUME z = AES_BLOCK_SIZE + 1 PROVE ~Contains(enc, 0) /\ dec[1] = 0 /\ CString(m) = enc
    <3>1. dec[1] = 0
      BY <1>2, <2>1, <2>3
    <3>2. \A i \in 1..AES_BLOCK_SIZE : enc[i] # 0
      BY <1>2, <2>1, <2>3, Sizes
    <3>3. CString(m) = enc
      <4>1. Len(CString(m)) = Len(enc) /\ \A i \in 1..Len(enc) : CString(m)[i] = enc[i]
        BY <1>1, <1>2, <2>2, <2>3, Sizes
      <4> QED  BY <1>1, <2>2, <4>1
    <3> QED  BY <1>1, <3>1, <3>2, <3>3 DEF Contains
  <2>4. ASSUME ~Contains(enc, 0), dec[1] = 0 PROVE z = AES_BLOCK_SIZE + 1
    <3>1. \A i \in 1..AES_BLOCK_SIZE : m[i] # 0
      BY <1>1, <1>2, <2>4 DEF Contains
    <3>2. z > AES_BLOCK_SIZE
      BY <1>2, <2>1, <3>1, Sizes
    <3>3. ~(z > AES_BLOCK_SIZE + 1)
      <4> SUFFICES ASSUME z > AES_BLOCK_SIZE + 1 PROVE FALSE
        OBVIOUS
      <4>1. AES_BLOCK_SIZE + 1 \in 1..(z - 1)
        BY <1>2, Sizes
      <4> QED  BY <1>2, <2>1, <2>4, <4>1
    <3> QED  BY <1>2, <3>2, <3>3, Sizes
  <2>5. Len(CString(m)) = AES_BLOCK_SIZE <=> z = AES_BLOCK_SIZE + 1
    BY <1>2, <2>2, Sizes
  <2> QED  BY <2>2, <2>3, <2>4, <2>5 DEF m
<1> QED  BY <1>3, <1>4

----------------------------------------------------------------------------
(* The nonces from one on, n of them. *)
Nonces(iv, n, f) == f = [k \in 0..n |-> IF k = 0 THEN iv ELSE Increment(f[k - 1])]

LEMMA NoncesGrow ==
  ASSUME NEW iv, NEW n \in Nat, NEW f, Nonces(iv, n, f)
  PROVE  \E g : Nonces(iv, n + 1, g) /\ g[n + 1] = Increment(f[n])
<1>1. PICK g : g = [k \in 0..(n + 1) |-> IF k = n + 1 THEN Increment(f[n]) ELSE f[k]]
  OBVIOUS
<1>2. ASSUME NEW k \in 0..(n + 1)
      PROVE  g[k] = IF k = 0 THEN iv ELSE Increment(g[k - 1])
  <2>1. CASE k = n + 1
    <3>1. k # 0 /\ k - 1 = n /\ n \in 0..(n + 1) /\ n # n + 1
      BY <2>1
    <3>2. g[n] = f[n] /\ g[k] = Increment(f[n])
      BY <1>1, <2>1, <3>1
    <3> QED  BY <3>1, <3>2
  <2>2. CASE k # n + 1
    <3>1. k \in 0..n /\ g[k] = f[k]
      BY <1>1, <2>2
    <3>2. k # 0 => k - 1 \in 0..(n + 1) /\ k - 1 # n + 1
      BY <3>1
    <3>3. k # 0 => g[k - 1] = f[k - 1]
      BY <1>1, <3>2
    <3>4. f[k] = IF k = 0 THEN iv ELSE Increment(f[k - 1])
      BY <3>1 DEF Nonces
    <3> QED  BY <3>1, <3>3, <3>4
  <2> QED  BY <2>1, <2>2
<1>3. Nonces(iv, n + 1, g)
  BY <1>1, <1>2 DEF Nonces
<1>4. g[n + 1] = Increment(f[n])
  BY <1>1
<1> QED  BY <1>3, <1>4

LEMMA NoncesExist ==
  ASSUME NEW iv, NEW n \in Nat
  PROVE  \E f : Nonces(iv, n, f)
<1> DEFINE Exist(k) == \E f : Nonces(iv, k, f)
<1>1. Exist(0)
  <2>1. PICK f : f = [k \in 0..0 |-> iv]
    OBVIOUS
  <2>2. Nonces(iv, 0, f)
    BY <2>1 DEF Nonces
  <2> QED  BY <2>2
<1>2. ASSUME NEW k \in Nat, Exist(k) PROVE Exist(k + 1)
  BY <1>2, NoncesGrow
<1> HIDE DEF Exist
<1>3. PICK Bad \in SUBSET Nat : Bad = {k \in Nat : ~Exist(k)}
  OBVIOUS
<1>4. Bad = {}
  <2> SUFFICES ASSUME Bad # {} PROVE FALSE
    OBVIOUS
  <2>1. PICK k \in Bad : \A j \in Bad : k <= j
    BY LeastOf
  <2>2. k \in Nat /\ ~Exist(k) /\ k # 0
    BY <1>1, <1>3, <2>1
  <2>3. k - 1 \in Nat /\ k - 1 \notin Bad /\ (k - 1) + 1 = k
    BY <2>1, <2>2
  <2>4. Exist(k - 1)
    BY <1>3, <2>3
  <2>5. Exist((k - 1) + 1)
    BY <1>2, <2>3, <2>4
  <2> QED  BY <2>2, <2>3, <2>5
<1>5. Exist(n)
  BY <1>3, <1>4
<1> QED  BY <1>5 DEF Exist

LEMMA NoncesSame ==
  ASSUME NEW iv, NEW n \in Nat, NEW f, NEW g, Nonces(iv, n, f), Nonces(iv, n, g)
  PROVE  f[n] = g[n]
<1>1. PICK Bad \in SUBSET Nat : Bad = {k \in Nat : k <= n /\ f[k] # g[k]}
  OBVIOUS
<1>2. Bad = {}
  <2> SUFFICES ASSUME Bad # {} PROVE FALSE
    OBVIOUS
  <2>1. PICK k \in Bad : \A j \in Bad : k <= j
    BY LeastOf
  <2>2. k \in 0..n /\ f[k] # g[k]
    BY <1>1, <2>1
  <2>3. f[k] = (IF k = 0 THEN iv ELSE Increment(f[k - 1]))
    BY <2>2 DEF Nonces
  <2>4. g[k] = (IF k = 0 THEN iv ELSE Increment(g[k - 1]))
    BY <2>2 DEF Nonces
  <2>5. k # 0
    BY <2>2, <2>3, <2>4
  <2>6. k - 1 \in 0..n /\ k - 1 \notin Bad
    BY <2>1, <2>2, <2>5
  <2>7. f[k - 1] = g[k - 1]
    BY <1>1, <2>6
  <2> QED  BY <2>2, <2>3, <2>4, <2>5, <2>7
<1> QED  BY <1>1, <1>2

LEMMA ForwardIs ==
  ASSUME NEW iv, NEW n \in Nat
  PROVE  \E f : Nonces(iv, n, f) /\ Forward(iv, n) = f[n]
<1>1. PICK f : f = CHOOSE g : Nonces(iv, n, g)
  OBVIOUS
<1>2. Nonces(iv, n, f)
  BY <1>1, NoncesExist, Zenon
<1>3. Forward(iv, n) = f[n]
  BY <1>1 DEF Forward, Nonces
<1> QED  BY <1>2, <1>3

LEMMA ForwardZero ==
  ASSUME NEW iv
  PROVE  Forward(iv, 0) = iv
<1>1. PICK f : Nonces(iv, 0, f) /\ Forward(iv, 0) = f[0]
  BY ForwardIs
<1>2. f[0] = iv
  BY <1>1 DEF Nonces
<1> QED  BY <1>1, <1>2

LEMMA ForwardNext ==
  ASSUME NEW iv, NEW n \in Nat
  PROVE  Forward(iv, n + 1) = Increment(Forward(iv, n))
<1>1. PICK f : Nonces(iv, n, f) /\ Forward(iv, n) = f[n]
  BY ForwardIs
<1>2. PICK g : Nonces(iv, n + 1, g) /\ g[n + 1] = Increment(f[n])
  BY <1>1, NoncesGrow
<1>3. n + 1 \in Nat
  OBVIOUS
<1>4. PICK h : Nonces(iv, n + 1, h) /\ Forward(iv, n + 1) = h[n + 1]
  BY <1>3, ForwardIs
<1>5. h[n + 1] = g[n + 1]
  BY <1>2, <1>3, <1>4, NoncesSame
<1> QED  BY <1>1, <1>2, <1>4, <1>5

----------------------------------------------------------------------------
LEMMA CountedUp ==
  ASSUME NEW n \in 0..Half
  PROVE  Counted(n) \in 0..Half /\ (Counted(n) < Half => Counted(n) = n + 1 /\ n < Half)
  BY Sizes DEF Counted

(* One packet more. *)
LEMMA OneFurther ==
  ASSUME NEW iv, NEW enc, NEW n \in 0..Half, n < Half => enc = Forward(iv, n)
  PROVE  Counted(n) < Half => Increment(enc) = Forward(iv, Counted(n))
<1> SUFFICES ASSUME Counted(n) < Half PROVE Increment(enc) = Forward(iv, Counted(n))
  OBVIOUS
<1>1. Counted(n) = n + 1 /\ n < Half
  BY CountedUp
<1>2. enc = Forward(iv, n)
  BY <1>1
<1>3. Forward(iv, n + 1) = Increment(Forward(iv, n))
  BY ForwardNext
<1> QED  BY <1>1, <1>2, <1>3

LEMMA ResyncInitInv == ResyncInit => ResyncInv
<1> SUFFICES ASSUME ResyncInit PROVE ResyncInv
  OBVIOUS
<1>1. answer = <<>> /\ missed = 0 /\ encrypt_iv = peer_iv
  BY DEF ResyncInit
<1>2. ResyncTypeOK
  <2>1. asked \in BOOLEAN
    BY Zenon DEF ResyncInit
  <2>2. <<>> \in Seq(Seq(Byte)) /\ Len(<<>>) <= 1
    OBVIOUS
  <2> QED  BY <2>1, <2>2, Sizes DEF ResyncInit, ResyncTypeOK
<1>3. Forward(peer_iv, 0) = peer_iv
  BY ForwardZero
<1>4. PeerBehind
  BY <1>1, <1>3 DEF PeerBehind
<1> QED  BY <1>1, <1>2, <1>4 DEF ResyncInv, AnswerShown, AnswerBehind

LEMMA SetKeyInv ==
  ASSUME ResyncInv, NEW c \in IV, NEW s \in IV, SetKey(c, s)
  PROVE  ResyncInv'
<1>1. ResyncTypeOK'
  BY Sizes DEF ResyncInv, ResyncTypeOK, SetKey
<1>2. answer' = <<>>
  BY DEF SetKey
<1>3. PeerBehind'
  <2>1. Forward(c, 0) = c
    BY ForwardZero
  <2> QED  BY <2>1 DEF SetKey, PeerBehind
<1> QED  BY <1>1, <1>2, <1>3 DEF ResyncInv, AnswerShown, AnswerBehind

LEMMA AnswerInv == ResyncInv /\ Answer => ResyncInv'
<1> SUFFICES ASSUME ResyncInv, Answer PROVE ResyncInv'
  OBVIOUS
<1> DEFINE text == CString(encrypt_iv \o decrypt_iv)
<1>1. encrypt_iv \in IV /\ decrypt_iv \in IV
  BY DEF ResyncInv, ResyncTypeOK
<1>2. /\ text \in Seq(Byte) /\ (Len(text) = AES_BLOCK_SIZE => text = encrypt_iv)
  BY <1>1, StringOfNonces
<1>3. /\ answer' = <<text>> /\ shown' = [enc |-> encrypt_iv, dec |-> decrypt_iv]
      /\ overtaken' = 0 /\ asked' = FALSE
      /\ UNCHANGED <<encrypt_iv, decrypt_iv, peer_iv, missed>>
  BY DEF Answer, Memory
<1>4. AnswerShown'
  BY <1>3 DEF AnswerShown
<1> HIDE DEF text
<1>5. ResyncTypeOK'
  <2>1. answer' \in Seq(Seq(Byte)) /\ Len(answer') <= 1
    <3>1. PICK T : T = Seq(Byte)
      OBVIOUS
    <3>2. <<text>> \in Seq(T) /\ Len(<<text>>) = 1
      BY <1>2, <3>1
    <3> QED  BY <1>3, <3>1, <3>2
  <2>2. asked' \in BOOLEAN
    BY <1>3, Zenon
  <2> QED  BY <1>1, <1>3, <2>1, <2>2, Sizes DEF ResyncInv, ResyncTypeOK
<1>6. PeerBehind'
  BY <1>3 DEF ResyncInv, PeerBehind
<1>7. AnswerBehind'
  <2> SUFFICES ASSUME Len(answer'[1]) = AES_BLOCK_SIZE
               PROVE  encrypt_iv' = Forward(answer'[1], overtaken')
    BY DEF AnswerBehind
  <2>1. answer'[1] = text /\ text = encrypt_iv
    BY <1>2, <1>3
  <2>2. Forward(encrypt_iv, 0) = encrypt_iv
    BY ForwardZero
  <2> QED  BY <1>3, <2>1, <2>2
<1> QED  BY <1>4, <1>5, <1>6, <1>7 DEF ResyncInv

LEMMA EncryptInv ==
  ASSUME ResyncInv, NEW arrives \in BOOLEAN, Encrypt(arrives)
  PROVE  ResyncInv'
<1>1. /\ encrypt_iv' = Increment(encrypt_iv) /\ overtaken' = Counted(overtaken)
      /\ \/ peer_iv' = encrypt_iv' /\ missed' = 0
         \/ peer_iv' = peer_iv /\ missed' = Counted(missed)
      /\ UNCHANGED <<decrypt_iv, asked, answer, shown>>
  BY DEF Encrypt
<1>2. /\ encrypt_iv \in IV /\ peer_iv \in IV /\ missed \in 0..Half /\ overtaken \in 0..Half
  BY DEF ResyncInv, ResyncTypeOK
<1>3. encrypt_iv' \in IV /\ Counted(overtaken) \in 0..Half /\ Counted(missed) \in 0..Half
  BY <1>1, <1>2, NonceIncrement, CountedUp
<1>4. ResyncTypeOK'
  BY <1>1, <1>2, <1>3, Sizes DEF ResyncInv, ResyncTypeOK
<1>5. AnswerShown'
  BY <1>1 DEF ResyncInv, AnswerShown
<1>6. PeerBehind'
  <2>1. CASE peer_iv' = encrypt_iv' /\ missed' = 0
    <3>1. Forward(encrypt_iv', 0) = encrypt_iv'
      BY ForwardZero
    <3> QED  BY <2>1, <3>1 DEF PeerBehind
  <2>2. CASE peer_iv' = peer_iv /\ missed' = Counted(missed)
    <3>1. missed < Half => encrypt_iv = Forward(peer_iv, missed)
      BY DEF ResyncInv, PeerBehind
    <3>2. Counted(missed) < Half => Increment(encrypt_iv) = Forward(peer_iv, Counted(missed))
      BY <1>2, <3>1, OneFurther
    <3> QED  BY <1>1, <2>2, <3>2 DEF PeerBehind
  <2> QED  BY <1>1, <2>1, <2>2
<1>7. AnswerBehind'
  <2> SUFFICES ASSUME answer # <<>>, Len(answer[1]) = AES_BLOCK_SIZE, Counted(overtaken) < Half
               PROVE  Increment(encrypt_iv) = Forward(answer[1], Counted(overtaken))
    BY <1>1 DEF AnswerBehind
  <2>1. overtaken < Half => encrypt_iv = Forward(answer[1], overtaken)
    BY DEF ResyncInv, AnswerBehind
  <2>2. Counted(overtaken) < Half
          => Increment(encrypt_iv) = Forward(answer[1], Counted(overtaken))
    BY <1>2, <2>1, OneFurther
  <2> QED  BY <2>2
<1> QED  BY <1>4, <1>5, <1>6, <1>7 DEF ResyncInv

LEMMA TakeInv == ResyncInv /\ Take => ResyncInv'
<1> SUFFICES ASSUME ResyncInv, Take PROVE ResyncInv'
  OBVIOUS
<1>1. answer # <<>> /\ answer' = <<>> /\ UNCHANGED <<encrypt_iv, decrypt_iv, asked, shown, overtaken>>
  BY DEF Take
<1>2. ResyncTypeOK
  BY DEF ResyncInv
<1>3. peer_iv' \in IV /\ missed' \in 0..Half /\ PeerBehind'
  <2>1. CASE Len(answer[1]) = AES_BLOCK_SIZE
    <3>1. peer_iv' = answer[1] /\ missed' = overtaken
      BY <2>1 DEF Take
    <3>2. answer[1] \in Seq(Byte)
      <4>1. PICK T : T = Seq(Byte)
        OBVIOUS
      <4>2. answer \in Seq(T)
        BY <1>2, <4>1 DEF ResyncTypeOK
      <4>3. answer[1] \in T
        BY <1>1, <4>2
      <4> QED  BY <4>1, <4>3
    <3>3. answer[1] \in IV
      BY <2>1, <3>2, NonceSequence
    <3>4. overtaken < Half => encrypt_iv = Forward(answer[1], overtaken)
      BY <1>1, <2>1 DEF ResyncInv, AnswerBehind
    <3> QED  BY <1>1, <1>2, <3>1, <3>3, <3>4 DEF ResyncTypeOK, PeerBehind
  <2>2. CASE Len(answer[1]) # AES_BLOCK_SIZE
    <3>1. UNCHANGED <<peer_iv, missed>>
      BY <2>2 DEF Take
    <3> QED  BY <1>1, <1>2, <3>1 DEF ResyncTypeOK, ResyncInv, PeerBehind
  <2> QED  BY <2>1, <2>2
<1>4. ResyncTypeOK'
  <2>1. <<>> \in Seq(Seq(Byte)) /\ Len(<<>>) <= 1
    OBVIOUS
  <2> QED  BY <1>1, <1>2, <1>3, <2>1 DEF ResyncTypeOK
<1> QED  BY <1>1, <1>3, <1>4 DEF ResyncInv, AnswerShown, AnswerBehind

LEMMA ResyncInvNext == ResyncInv /\ [ResyncNext]_resyncVars => ResyncInv'
<1> SUFFICES ASSUME ResyncInv, [ResyncNext]_resyncVars PROVE ResyncInv'
  OBVIOUS
<1>1. CASE \E c, s \in IV : SetKey(c, s)
  BY <1>1, SetKeyInv
<1>2. CASE \E s \in IV : SetDecryptIV(s)
  BY <1>2 DEF SetDecryptIV, ResyncInv, ResyncTypeOK, AnswerShown, PeerBehind, AnswerBehind
<1>3. CASE Answer
  BY <1>3, AnswerInv
<1>4. CASE Ask
  <2>1. asked' \in BOOLEAN
    BY <1>4 DEF Ask
  <2> QED
    BY <1>4, <2>1 DEF Ask, ResyncInv, ResyncTypeOK, AnswerShown, PeerBehind, AnswerBehind
<1>5. CASE Take
  BY <1>5, TakeInv
<1>6. CASE \E arrives \in BOOLEAN : Encrypt(arrives)
  BY <1>6, EncryptInv
<1>7. CASE UNCHANGED resyncVars
  BY <1>7 DEF resyncVars, ResyncInv, ResyncTypeOK, AnswerShown, PeerBehind, AnswerBehind
<1> QED  BY <1>1, <1>2, <1>3, <1>4, <1>5, <1>6, <1>7 DEF ResyncNext

LEMMA ResyncInvAlways == ResyncSpec => []ResyncInv
  BY ResyncInitInv, ResyncInvNext, PTL DEF ResyncSpec

(* No answer to a resynchronisation, whole, cut short or overtaken by        *)
(* packets, takes the peer where it does not hear the client any more.       *)
THEOREM HeardAgainAlways == ResyncSpec => []HeardAgain
<1>1. ResyncInv => HeardAgain
  <2> SUFFICES ASSUME ResyncInv, missed < Half PROVE Hears(Increment(encrypt_iv))
    BY DEF HeardAgain
  <2>1. encrypt_iv = Forward(peer_iv, missed) /\ missed \in 0..Half
    BY DEF ResyncInv, PeerBehind, ResyncTypeOK
  <2>2. Forward(peer_iv, missed + 1) = Increment(encrypt_iv)
    BY <2>1, ForwardNext
  <2>3. missed + 1 \in 1..Half
    BY <2>1, Sizes
  <2> QED  BY <2>2, <2>3 DEF Hears
<1> QED  BY <1>1, ResyncInvAlways, PTL

(* An answer is as long as a nonce only when encrypt_iv had no zero byte and *)
(* decrypt_iv, behind it in the object, began with one.                      *)
THEOREM AnswerHelpsAlways == ResyncSpec => []AnswerHelps
<1>1. ResyncInv => AnswerHelps
  <2> SUFFICES ASSUME ResyncInv, answer # <<>>
               PROVE  Len(answer[1]) = AES_BLOCK_SIZE
                        <=> ~Contains(shown.enc, 0) /\ shown.dec[1] = 0
    BY DEF AnswerHelps
  <2>1. answer = <<CString(shown.enc \o shown.dec)>>
    BY DEF ResyncInv, AnswerShown
  <2>2. shown.enc \in IV /\ shown.dec \in IV
    BY DEF ResyncInv, ResyncTypeOK
  <2> QED  BY <2>1, <2>2, StringOfNonces
<1> QED  BY <1>1, ResyncInvAlways, PTL
=============================================================================
