---------------------------- MODULE MumbleClient ----------------------------
(***************************************************************************)
(* The control connection of one MumbleClient object (client.h, client.cc)  *)
(* and the io_service event loop that drives it (client_lib.cc):            *)
(*   - Connect, Disconnect, the destructor and the life of the sockets;      *)
(*   - the send queue: SendMessage, SendRawUdpTunnel, SendFirstQueued and    *)
(*     the completion handler ProcessTCPSendQueue;                           *)
(*   - the ping chain: DoPing and its deadline timer;                        *)
(*   - the dispatch of received messages, one at a time, to ParseMessage     *)
(*     and from there to the application's callback.                         *)
(*                                                                           *)
(* One thread runs everything modelled here, so a handler is never           *)
(* interrupted by another handler.  What interleaves with it is the kernel   *)
(* (operations complete, the link fails, the timer expires) and, inside a    *)
(* callback, the application, which may call the public operations again.    *)
(* Messages arrive whole and in order: RecvFraming models the bytes.         *)
(***************************************************************************)
EXTENDS Naturals, Sequences, FiniteSets

CONSTANTS
  MaxSend,    (* the environment stops causing sends at this many messages  *)
  MaxRecv,    (* messages the server sends in a behaviour                   *)
  MaxConnect  (* calls of Connect in a behaviour                            *)

ASSUME BoundsAssumption == MaxSend \in Nat /\ MaxRecv \in Nat /\ MaxConnect \in Nat

VARIABLES
  state_,        (* client.h:98                                             *)
  tcp_socket_,   (* "wild" until first assigned (the constructor leaves the *)
  udp_socket_,   (* pointers unset), then "live" (allocated) or "null"      *)
  send_queue_,   (* client.h:97                                             *)
  recv_buffer_,  (* client.h:95, as the whole messages it holds             *)
  writes,        (* outstanding async_write operations                      *)
  read,          (* the outstanding async_read operation                    *)
  waits,         (* the waits of ping_timer_: pending, expired and aborted  *)
                 (* ones whose handler DoPing has not run yet               *)
  link,          (* the TCP/TLS connection below the socket                 *)
  pc,            (* where the thread is                                     *)
  cur,           (* the message whose callback is running                   *)
  fault,         (* how the process died, "none" while it lives             *)
  wire,          (* history: messages given to async_write since Connect    *)
  sent,          (* history: messages ever queued, it numbers them          *)
  rcvd,          (* history: messages the server sent                       *)
  synced,        (* history: the server sent ServerSync on this connection  *)
  connects,      (* history: calls of Connect                               *)
  leftover       (* history: recv_buffer_ was not empty at the last Connect *)

sockVars == <<state_, tcp_socket_, udp_socket_, link>>
sendVars == <<send_queue_, writes, wire, sent, fault>>
readVars == <<recv_buffer_, read, rcvd, synced>>
histVars == <<connects, leftover>>
ctlVars  == <<pc, cur, histVars>>
vars == <<sockVars, sendVars, readVars, ctlVars, waits>>

OutTypes == {"Version", "Authenticate", "Ping", "CryptSetup", "UserState", "UDPTunnel"}

(* Received messages that differ in what this component does: CryptRequest  *)
(* is a CryptSetup without nonces; Other is every kind that changes nothing *)
(* here (rosters, keys, tunnelled audio) or is not implemented.             *)
InKinds == {"ServerSync", "TextMessage", "CryptRequest", "Other"}

OutMessage == [type : OutTypes, n : Nat]

(* No operation is outstanding: io_service::run has nothing to wait for.    *)
NoWork == writes = {} /\ read = "none" /\ waits.pending + waits.ok + waits.aborted = 0

Init ==
  /\ state_ = "kStateNew"
  /\ tcp_socket_ = "wild" /\ udp_socket_ = "wild"
  /\ send_queue_ = <<>> /\ recv_buffer_ = <<>>
  /\ writes = {} /\ read = "none"
  /\ waits = [pending |-> 0, ok |-> 0, aborted |-> 0]
  /\ link = "down" /\ pc = "app" /\ cur = "none" /\ fault = "none"
  /\ wire = <<>> /\ sent = 0 /\ rcvd = 0 /\ synced = FALSE
  /\ connects = 0 /\ leftover = FALSE

-----------------------------------------------------------------------------
(* Sending.                                                                 *)

Batch(ts) == [i \in 1..Len(ts) |-> [type |-> ts[i], n |-> sent + i]]

(* Mutant: the write_in_progress test is dropped.                           *)
StartsAnyWrite(st) == st # "kStateNew"

(* SendMessage starts a write only past the handshake and when the queue    *)
(* was empty, taking a non-empty queue to mean that a write is in progress. *)
StartsWrite(st) == st # "kStateNew" /\ send_queue_ = <<>>

(* SendFirstQueued hands the front of queue q to async_write.               *)
SendFirstQueued(q, ws, w) ==
  /\ writes' = ws \cup {[msg |-> Head(q), st |-> "pending"]}
  /\ wire' = Append(w, Head(q))

(* Calls of SendMessage in a row, for messages of types ts, with state_ =   *)
(* st, the socket pointer sock and w already written: only the first of     *)
(* them can find the queue empty.  Writing through a null socket kills the  *)
(* process.                                                                 *)
SendMessages(ts, st, sock, w) ==
  IF StartsWrite(st) /\ sock # "live"
  THEN fault' = "null_deref" /\ UNCHANGED <<send_queue_, writes, wire, sent>>
  ELSE /\ send_queue_' = send_queue_ \o Batch(ts)
       /\ sent' = sent + Len(ts)
       /\ fault' = fault
       /\ IF StartsWrite(st)
          THEN SendFirstQueued(send_queue_', writes, w)
          ELSE writes' = writes /\ wire' = w

SendMessage(t) == SendMessages(<<t>>, state_, tcp_socket_, wire)

(* Mutants: the next message is never started; it is taken from the back.   *)
SendNothing(q, ws) == writes' = ws /\ wire' = wire
SendLastQueued(q, ws) ==
  IF q = <<>> THEN SendNothing(q, ws) ELSE SendFirstQueued(<<q[Len(q)]>>, ws, wire)

(* What remains of the outstanding writes ws and of the queue q once the    *)
(* front of q was written: the next message is started, if there is one.    *)
SendNext(q, ws) ==
  IF q = <<>> THEN writes' = ws /\ wire' = wire ELSE SendFirstQueued(q, ws, wire)

ProcessTCPSendQueue(w) ==
  /\ pc = "loop" /\ w \in writes /\ w.st = "ok"
  /\ IF send_queue_ = <<>>
     THEN fault' = "pop_empty" /\ UNCHANGED <<send_queue_, writes, wire>>
     ELSE IF Len(send_queue_) > 1 /\ tcp_socket_ # "live"
     THEN fault' = "null_deref" /\ UNCHANGED <<send_queue_, writes, wire>>
     ELSE /\ send_queue_' = Tail(send_queue_)
          /\ SendNext(Tail(send_queue_), writes \ {w})
          /\ fault' = fault
  /\ UNCHANGED <<sockVars, readVars, ctlVars, waits, sent>>

(* Mutant: a message that could not be written is dropped.                  *)
DropFailed(w) ==
  /\ pc = "loop" /\ w \in writes /\ w.st = "err"
  /\ writes' = writes \ {w}
  /\ send_queue_' = IF send_queue_ = <<>> THEN <<>> ELSE Tail(send_queue_)
  /\ UNCHANGED <<sockVars, readVars, ctlVars, waits, wire, sent, fault>>

(* On an error the handler only logs: the message stays at the front.       *)
ProcessTCPSendQueueError(w) ==
  /\ pc = "loop" /\ w \in writes /\ w.st = "err"
  /\ writes' = writes \ {w}
  /\ UNCHANGED <<sockVars, readVars, ctlVars, waits, send_queue_, wire, sent, fault>>

-----------------------------------------------------------------------------
(* The ping chain.                                                          *)

(* Mutant: the new wait is cancelled too.                                   *)
ArmAndCancelPing(ws) == [ws EXCEPT !.pending = 0, !.aborted = @ + ws.pending + 1]

(* expires_from_now cancels the pending wait, async_wait starts a new one.  *)
ArmPing(ws) == [pending |-> 1, ok |-> ws.ok, aborted |-> ws.aborted + ws.pending]

DoPing ==
  /\ pc = "loop" /\ waits.ok > 0
  /\ SendMessage("Ping")
  /\ waits' = ArmPing([waits EXCEPT !.ok = @ - 1])
  /\ UNCHANGED <<sockVars, readVars, ctlVars>>

DoPingError ==
  /\ pc = "loop" /\ waits.aborted > 0
  /\ waits' = [waits EXCEPT !.aborted = @ - 1]
  /\ UNCHANGED <<sockVars, sendVars, readVars, ctlVars>>

-----------------------------------------------------------------------------
(* Receiving.  ReadHandler takes the messages off recv_buffer_ one by one.  *)

ReadHandlerError ==
  /\ pc = "loop" /\ read = "err"
  /\ read' = "none"
  /\ UNCHANGED <<sockVars, sendVars, ctlVars, waits, recv_buffer_, rcvd, synced>>

ReadHandler ==
  /\ pc = "loop" /\ read = "ok"
  /\ read' = "none" /\ pc' = "parse"
  /\ UNCHANGED <<sockVars, sendVars, waits, recv_buffer_, rcvd, synced, cur, histVars>>

Takes(kind) ==
  /\ pc \in {"parse", "next"} /\ recv_buffer_ # <<>> /\ Head(recv_buffer_) = kind
  /\ recv_buffer_' = Tail(recv_buffer_)
  /\ UNCHANGED <<read, rcvd, synced, histVars, tcp_socket_, udp_socket_, link>>

Calls(kind) == pc' = "callback" /\ cur' = kind

ParseOther ==
  /\ Takes("Other") /\ Calls("Other")
  /\ UNCHANGED <<state_, sendVars, waits>>

ParseTextMessage ==
  /\ Takes("TextMessage") /\ Calls("TextMessage")
  /\ UNCHANGED <<state_, sendVars, waits>>

(* A CryptSetup without nonces is answered with the client's nonce.         *)
ParseCryptRequest ==
  /\ Takes("CryptRequest")
  /\ SendMessage("CryptSetup")
  /\ pc' = "next" /\ UNCHANGED <<state_, waits, cur>>

(* ServerSync enters kStateAuthenticated, then pings (before the callback). *)
ParseServerSync ==
  /\ Takes("ServerSync") /\ Calls("ServerSync")
  /\ state_' = "kStateAuthenticated"
  /\ SendMessages(<<"Ping">>, "kStateAuthenticated", tcp_socket_, wire)
  /\ waits' = ArmPing(waits)

(* The loop of ReadHandler ends, possibly leaving messages behind (see      *)
(* RecvFraming); the read is requeued only if the socket still exists.      *)
ReadHandlerEnds ==
  /\ pc = "next"
  /\ pc' = "loop"
  /\ read' = IF tcp_socket_ = "null" THEN "none" ELSE "pending"
  /\ UNCHANGED <<sockVars, sendVars, waits, recv_buffer_, rcvd, synced, cur, histVars>>

-----------------------------------------------------------------------------
(* The public operations.  The application calls them before and after Run  *)
(* (pc = "app") and from its callbacks (pc = "callback").                   *)

InApp == pc \in {"app", "callback"}

(* Reconnecting is modelled as main.cc would do it: Connect is called only  *)
(* outside Run, on a client without a connection and once Run has nothing   *)
(* left to do.                                                              *)
MayConnect ==
  /\ pc = "app" /\ NoWork /\ connects < MaxConnect /\ sent < MaxSend
  /\ tcp_socket_ # "live" \/ state_ = "kStateNew"

(* Mutant: the order of the two is swapped.                                 *)
InitialMessagesSwapped == <<"Authenticate", "Version">>

InitialMessages == <<"Version", "Authenticate">>

Connect ==
  /\ MayConnect
  /\ tcp_socket_' = "live" /\ udp_socket_' = "live"
  /\ state_' = "kStateHandshakeCompleted"
  /\ SendMessages(InitialMessages, "kStateHandshakeCompleted", "live", <<>>)
  /\ read' = "pending" /\ link' = "up"
  /\ connects' = connects + 1 /\ synced' = FALSE /\ leftover' = (recv_buffer_ # <<>>)
  /\ UNCHANGED <<recv_buffer_, rcvd, pc, cur, waits>>

(* No endpoint answers: Connect returns before udp_socket_ is assigned.     *)
ConnectionError ==
  /\ MayConnect
  /\ tcp_socket_' = "live"
  /\ connects' = connects + 1 /\ wire' = <<>>
  /\ UNCHANGED <<state_, udp_socket_, link, readVars, waits, pc, cur, leftover,
                 send_queue_, writes, sent, fault>>

HandshakeError ==
  /\ MayConnect
  /\ tcp_socket_' = "live" /\ udp_socket_' = "live"
  /\ connects' = connects + 1 /\ wire' = <<>>
  /\ UNCHANGED <<state_, link, readVars, waits, pc, cur, leftover,
                 send_queue_, writes, sent, fault>>

(* Mutant: Disconnect leaves the timer alone.                               *)
KeepPing(ws) == ws

(* Cancelling completes every pending operation with an error; what has     *)
(* completed already keeps its result, although its handler has yet to run. *)
Cancel(ws) == {[w EXCEPT !.st = IF @ = "pending" THEN "err" ELSE @] : w \in ws}
CancelPing(ws) == [pending |-> 0, ok |-> ws.ok, aborted |-> ws.aborted + ws.pending]

Disconnect ==
  /\ InApp /\ connects > 0
  /\ IF tcp_socket_ = "live" /\ udp_socket_ = "live"
     THEN /\ waits' = CancelPing(waits)
          /\ send_queue_' = <<>>
          /\ writes' = Cancel(writes)
          /\ read' = IF read = "pending" THEN "err" ELSE read
          /\ tcp_socket_' = "null" /\ udp_socket_' = "null"
          /\ state_' = "kStateNew" /\ link' = "down"
          /\ fault' = fault
     ELSE /\ fault' = IF "wild" \in {tcp_socket_, udp_socket_} THEN "wild_deref" ELSE "null_deref"
          /\ UNCHANGED <<waits, send_queue_, writes, read, sockVars>>
  /\ UNCHANGED <<recv_buffer_, rcvd, synced, wire, sent, ctlVars>>

(* Disconnect deletes the TLS stream under the operations it cancelled: what *)
(* completes afterwards goes through the freed stream before its handler    *)
(* runs, and may die there.                                                 *)
DeletedStream ==
  /\ pc = "loop" /\ tcp_socket_ = "null" /\ (writes # {} \/ read # "none")
  /\ fault' = "use_after_free"
  /\ UNCHANGED <<sockVars, readVars, ctlVars, waits, send_queue_, writes, wire, sent>>

(* SendMessage and SendRawUdpTunnel, which queue alike, called by the       *)
(* application with a message of its own.                                   *)
SendRawUdpTunnel ==
  /\ InApp /\ sent < MaxSend
  /\ SendMessage("UDPTunnel")
  /\ UNCHANGED <<sockVars, readVars, ctlVars, waits>>

(* SetComment and JoinChannel, called from the callbacks that follow         *)
(* authentication (main.cc:264 does so on every text message but "quit").   *)
SetComment ==
  /\ pc = "callback" /\ cur \in {"ServerSync", "TextMessage"} /\ sent < MaxSend
  /\ IF state_ # "kStateAuthenticated"
     THEN fault' = "assert" /\ UNCHANGED <<send_queue_, writes, wire, sent>>
     ELSE SendMessage("UserState")
  /\ UNCHANGED <<sockVars, readVars, ctlVars, waits>>

CallbackReturns ==
  /\ pc = "callback"
  /\ pc' = "next" /\ cur' = "none"
  /\ UNCHANGED <<sockVars, sendVars, readVars, waits, histVars>>

Run ==
  /\ pc = "app" /\ pc' = "loop"
  /\ UNCHANGED <<sockVars, sendVars, readVars, waits, cur, histVars>>

RunReturns ==
  /\ pc = "loop" /\ NoWork /\ pc' = "app"
  /\ UNCHANGED <<sockVars, sendVars, readVars, waits, cur, histVars>>

(* ~MumbleClient deletes both sockets, whatever the pointers hold.          *)
Destroy ==
  /\ pc = "app"
  /\ IF "wild" \in {tcp_socket_, udp_socket_}
     THEN fault' = "wild_deref" /\ pc' = pc
     ELSE fault' = fault /\ pc' = "deleted"
  /\ UNCHANGED <<sockVars, readVars, waits, cur, histVars, send_queue_, writes, wire, sent>>

-----------------------------------------------------------------------------
(* The kernel and the server.                                               *)

WriteCompletes(w) ==
  /\ w \in writes /\ w.st = "pending"
  /\ writes' = (writes \ {w}) \cup {[w EXCEPT !.st = IF link = "up" THEN "ok" ELSE "err"]}
  /\ UNCHANGED <<sockVars, readVars, ctlVars, waits, send_queue_, wire, sent, fault>>

(* A conforming server sends ServerSync once, and relays text messages and  *)
(* asks for a resynchronisation only afterwards.                            *)
ServerSends(kind) ==
  /\ link = "up" /\ read \in {"pending", "ok"} /\ rcvd < MaxRecv
  /\ kind = "ServerSync" => ~synced
  /\ kind \in {"TextMessage", "CryptRequest"} => synced
  /\ kind \in {"ServerSync", "CryptRequest"} => sent < MaxSend
  /\ recv_buffer_' = Append(recv_buffer_, kind)
  /\ read' = "ok" /\ rcvd' = rcvd + 1
  /\ synced' = (synced \/ kind = "ServerSync")
  /\ UNCHANGED <<sockVars, sendVars, ctlVars, waits>>

LinkFails ==
  /\ link = "up" /\ link' = "down"
  /\ UNCHANGED <<state_, tcp_socket_, udp_socket_, sendVars, readVars, ctlVars, waits>>

ReadFails ==
  /\ link = "down" /\ read = "pending" /\ read' = "err"
  /\ UNCHANGED <<sockVars, sendVars, ctlVars, waits, recv_buffer_, rcvd, synced>>

TimerExpires ==
  /\ waits.pending = 1 /\ sent < MaxSend
  /\ waits' = [pending |-> 0, ok |-> waits.ok + 1, aborted |-> waits.aborted]
  /\ UNCHANGED <<sockVars, sendVars, readVars, ctlVars>>

-----------------------------------------------------------------------------

EventLoop ==
  \/ \E w \in writes : ProcessTCPSendQueue(w) \/ ProcessTCPSendQueueError(w)
  \/ DoPing \/ DoPingError
  \/ ReadHandlerError \/ ReadHandler \/ ReadHandlerEnds
  \/ ParseOther \/ ParseTextMessage \/ ParseCryptRequest \/ ParseServerSync
  \/ RunReturns \/ DeletedStream

Application ==
  \/ Connect \/ ConnectionError \/ HandshakeError \/ Disconnect
  \/ SendRawUdpTunnel \/ SetComment
  \/ Run \/ Destroy

Kernel ==
  \/ \E w \in writes : WriteCompletes(w)
  \/ \E kind \in InKinds : ServerSends(kind)
  \/ LinkFails \/ ReadFails \/ TimerExpires

Next == fault = "none" /\ pc # "deleted" /\ (EventLoop \/ CallbackReturns \/ Application \/ Kernel)

Spec == Init /\ [][Next]_vars

(* io_service::run keeps running ready handlers, callbacks return, and an   *)
(* async operation completes.  Nothing is assumed of the server, of the     *)
(* timer or of what the application calls.                                  *)
Fairness ==
  /\ WF_vars(fault = "none" /\ EventLoop)
  /\ WF_vars(fault = "none" /\ CallbackReturns)
  /\ WF_vars(fault = "none" /\ ((\E w \in writes : WriteCompletes(w)) \/ ReadFails))

FairSpec == Spec /\ Fairness

-----------------------------------------------------------------------------
(* Properties.                                                              *)

TypeOK ==
  /\ state_ \in {"kStateNew", "kStateHandshakeCompleted", "kStateAuthenticated"}
  /\ tcp_socket_ \in {"wild", "live", "null"} /\ udp_socket_ \in {"wild", "live", "null"}
  /\ send_queue_ \in Seq(OutMessage) /\ wire \in Seq(OutMessage)
  /\ recv_buffer_ \in Seq(InKinds)
  /\ writes \subseteq [msg : OutMessage, st : {"pending", "ok", "err"}]
  /\ read \in {"none", "pending", "ok", "err"}
  /\ waits \in [pending : 0..1, ok : Nat, aborted : Nat]
  /\ link \in {"up", "down"}
  /\ pc \in {"app", "loop", "parse", "next", "callback", "deleted"}
  /\ cur \in InKinds \cup {"none"}
  /\ fault \in {"none", "null_deref", "wild_deref", "use_after_free", "pop_empty", "assert"}
  /\ sent \in Nat /\ rcvd \in Nat /\ connects \in Nat
  /\ synced \in BOOLEAN /\ leftover \in BOOLEAN

(* On a connection at most one write is outstanding, and it carries the     *)
(* front of send_queue_: ProcessTCPSendQueue can pop what was written       *)
(* without being told what that was.                                        *)
OneWrite ==
  tcp_socket_ = "live" =>
    \A w \in writes : send_queue_ # <<>> /\ w.msg = Head(send_queue_) /\ writes = {w}

(* The messages of a connection reach the socket in the order in which they *)
(* were queued, none skipped and none repeated.                             *)
FifoOnce == \A i \in 1..Len(wire) : wire[i].n = wire[1].n + i - 1

(* What a connection carries starts with Version, then Authenticate, also   *)
(* when messages were queued before Connect.                                *)
HandshakeFirst ==
  /\ Len(wire) >= 1 => wire[1].type = "Version"
  /\ Len(wire) >= 2 => wire[2].type = "Authenticate"

(* No lost wakeup: while the link is up and writing has started, a message  *)
(* waits in send_queue_ only behind an outstanding write.                   *)
QueueHasWriter == link = "up" /\ wire # <<>> /\ send_queue_ # <<>> => writes # {}

(* The ping chain of an authenticated client never dies: a wait is pending  *)
(* or has expired and will be requeued by DoPing, although every ServerSync *)
(* cancels the wait before it.                                              *)
KeepAlive == state_ = "kStateAuthenticated" => waits.pending + waits.ok >= 1

(* On a connected client whose buffer started empty no handler ends in a    *)
(* failed assertion, a null dereference or a pop of an empty queue: the     *)
(* deaths of the process are before Connect or after Disconnect, after a    *)
(* Connect that failed before it set udp_socket_, or on data of an earlier  *)
(* connection.                                                              *)
CrashOnlyOffline ==
  fault # "none" => tcp_socket_ # "live" \/ udp_socket_ # "live" \/ leftover

(* A write failed on this connection, and maybe half a message is out.      *)
Torn ==
  /\ tcp_socket_ = "live" /\ wire # <<>>
  /\ (\E w \in writes : w.st = "err") \/ (writes = {} /\ send_queue_ # <<>>)

(* After a write that failed, and may have been cut off, nothing else is    *)
(* written on the connection, whoever sends: the message that stays at the  *)
(* front makes every later one believe that a write is in progress.         *)
NothingAfterTorn == [][Torn => wire' = wire /\ (Torn' \/ tcp_socket_' # "live")]_vars

(* What the socket was not given yet: the front of the queue stays there     *)
(* while it is written, and for good when that fails.                       *)
Waiting ==
  IF tcp_socket_ = "live" /\ wire # <<>> /\ send_queue_ # <<>>
  THEN Tail(send_queue_) ELSE send_queue_

(* SendMessage and ProcessTCPSendQueue give the socket every message queued  *)
(* on a connection, in order and once, and lose none before Disconnect.     *)
O == INSTANCE Outbox WITH open <- (tcp_socket_ = "live"), waiting <- Waiting
OutboxSpec == O!Spec

Queued(n) == \E i \in 1..Len(send_queue_) : send_queue_[i].n = n

(* While the loop runs and the link is up, every queued message is          *)
(* eventually written and popped, unless Connect found messages in the      *)
(* queue and never started writing.                                         *)
SendProgress ==
  \A n \in 1..MaxSend :
    (pc \notin {"app", "deleted"} /\ link = "up" /\ wire # <<>> /\ Queued(n))
      ~> (~Queued(n) \/ link = "down" \/ fault # "none")

(* A Disconnect from a callback lets Run return, provided no ping expired   *)
(* before it and no ServerSync is handled after it.                         *)
DisconnectDrains ==
  (pc = "callback" /\ tcp_socket_ = "null" /\ state_ = "kStateNew" /\ waits.ok = 0)
    ~> (pc = "app" \/ state_ = "kStateAuthenticated" \/ fault # "none")

(* client.cc:449, "Send initial messages": once Connect has succeeded, the  *)
(* first message of the connection has been handed to the socket.           *)
InitialMessagesSent == link = "up" => wire # <<>>

(* client.cc:532 and 542, BOOST_ASSERT(state_ >= kStateAuthenticated).      *)
CommentsOnlyAuthenticated == fault # "assert"

=============================================================================
