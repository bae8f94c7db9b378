---------------------------- MODULE RecvFraming ----------------------------
(***************************************************************************)
(* How MumbleClient cuts the byte stream of a control connection into       *)
(* messages: ReadHandler, ReadHandlerContinue and HandleMessageContent       *)
(* (client.cc:326-379), on top of async_read with transfer_at_least.         *)
(*                                                                           *)
(* Bytes have no content, only positions in the stream of the current        *)
(* connection: recv_buffer_ holds the positions arrived - size up to         *)
(* arrived.  After a reconnection it may also hold bytes of the previous     *)
(* connection in front; its first position is then negative.                 *)
(***************************************************************************)
EXTENDS Integers, Sequences, FiniteSets

CONSTANTS
  H,           (* length of a message header, 6 in the code                 *)
  TooLong,     (* lengths from here on fail the assertion, 0x7FFFF          *)
  ReadMax,     (* most bytes one read_some brings into the buffer           *)
  Lens,        (* body lengths the server uses                              *)
  MaxMessages, (* messages the server writes on one connection              *)
  MaxConnect   (* connections                                               *)

ASSUME ConstantsAssumption ==
  /\ H \in Nat \ {0} /\ ReadMax \in Nat \ {0} /\ TooLong \in Nat
  /\ Lens \subseteq Nat
  /\ MaxMessages \in Nat /\ MaxConnect \in Nat

VARIABLES
  stream,      (* what the server wrote: position and length of each message *)
  arrived,     (* bytes read from the socket on this connection              *)
  size,        (* recv_buffer_.size()                                        *)
  reads,       (* the outstanding async_read operations                      *)
  tcp_socket_, (* "live" or "null"                                           *)
  pc,          (* where the thread is; "idle" is the event loop              *)
  handler,     (* the handler it runs                                        *)
  header,      (* number of the message whose header was read                *)
  handled,     (* numbers of the messages given to ParseMessage              *)
  connects,    (* connections so far                                         *)
  stale        (* this connection started with bytes in recv_buffer_         *)

netVars == <<stream, arrived>>
parseVars == <<handler, header, handled>>
connVars == <<tcp_socket_, connects, stale>>
vars == <<netVars, size, reads, pc, parseVars, connVars>>

Handlers == {"ReadHandler", "ReadHandlerContinue"}

End(m) == m.start + H + m.len
Written == IF stream = <<>> THEN 0 ELSE End(stream[Len(stream)])

(* Position of the first byte of recv_buffer_.                              *)
Front == arrived - size

Init ==
  /\ stream = <<>> /\ arrived = 0 /\ size = 0
  /\ reads = {} /\ tcp_socket_ = "null"
  /\ pc = "idle" /\ handler = "ReadHandler" /\ header = 0 /\ handled = <<>>
  /\ connects = 0 /\ stale = FALSE

-----------------------------------------------------------------------------
(* async_read: an operation reads until it has got at least need bytes, not *)
(* counting what the buffer held before.                                    *)

AsyncRead(h, k, need) ==
  reads \cup {[handler |-> h, header |-> k, need |-> need, got |-> 0, error |-> FALSE]}

Completed(r) == ~r.error /\ r.got >= r.need

Arrives(r, n) ==
  /\ ~r.error /\ r.got < r.need /\ arrived + n <= Written
  /\ arrived' = arrived + n /\ size' = size + n
  /\ reads' = (reads \ {r}) \cup {[r EXCEPT !.got = @ + n]}
  /\ UNCHANGED <<stream, pc, parseVars, connVars>>

ReadFails(r) ==
  /\ ~r.error /\ ~Completed(r)
  /\ reads' = (reads \ {r}) \cup {[r EXCEPT !.error = TRUE]}
  /\ UNCHANGED <<netVars, size, pc, parseVars, connVars>>

Writes(len) ==
  /\ tcp_socket_ = "live" /\ Len(stream) < MaxMessages
  /\ stream' = Append(stream, [start |-> Written, len |-> len])
  /\ UNCHANGED <<arrived, size, reads, pc, parseVars, connVars>>

-----------------------------------------------------------------------------
(* The handlers.                                                            *)

HandlerError(r) ==
  /\ pc = "idle" /\ r.error
  /\ reads' = reads \ {r}
  /\ UNCHANGED <<netVars, size, pc, parseVars, connVars>>

ReadHandler(r) ==
  /\ pc = "idle" /\ Completed(r) /\ r.handler = "ReadHandler"
  /\ reads' = reads \ {r}
  /\ handler' = "ReadHandler" /\ pc' = "header"
  /\ UNCHANGED <<netVars, size, header, handled, connVars>>

ReadHandlerContinue(r) ==
  /\ pc = "idle" /\ Completed(r) /\ r.handler = "ReadHandlerContinue"
  /\ reads' = reads \ {r}
  /\ handler' = "ReadHandlerContinue" /\ header' = r.header /\ pc' = "content"
  /\ UNCHANGED <<netVars, size, handled, connVars>>

(* The bytes at the front of the buffer are the header of message k.        *)
HeaderOf(k) == size >= H /\ stream[k].start = Front

ReadHeader(k) ==
  /\ pc = "header" /\ HeaderOf(k)
  /\ size' = size - H /\ header' = k
  /\ pc' = IF stream[k].len >= TooLong THEN "assert" ELSE "content"
  /\ UNCHANGED <<netVars, reads, handler, handled, connVars>>

(* They are no header: whatever follows, it is not what the server sent.    *)
ReadGarbage ==
  /\ pc = "header" /\ \A k \in 1..Len(stream) : ~HeaderOf(k)
  /\ pc' = "garbage"
  /\ UNCHANGED <<netVars, size, reads, parseVars, connVars>>

(* Mutants: the length is compared with the whole message; the rest is one  *)
(* byte short, or all of the body; the message takes all of the buffer.     *)
IncompleteNot(len) == size + H < len
RestOff(len) == len - size - 1
RestAll(len) == len
TakesAll(len) == 0

Incomplete(len) == size < len
Rest(len) == len - size
Takes(len) == size - len

(* HandleMessageContent, the body not being complete.  ReadHandler returns, *)
(* ReadHandlerContinue goes on to requeue its read.                         *)
ReadRest ==
  LET len == stream[header].len IN
  /\ pc = "content" /\ Incomplete(len)
  /\ reads' = IF tcp_socket_ = "live"
              THEN AsyncRead("ReadHandlerContinue", header, Rest(len)) ELSE reads
  /\ pc' = IF handler = "ReadHandler" THEN "idle" ELSE "requeue"
  /\ UNCHANGED <<netVars, size, parseVars, connVars>>

HandleMessageContent ==
  LET len == stream[header].len IN
  /\ pc = "content" /\ ~Incomplete(len)
  /\ size' = Takes(len) /\ handled' = Append(handled, header)
  /\ pc' = "callback"
  /\ UNCHANGED <<netVars, reads, handler, header, connVars>>

MoreMessages == size >= H

CallbackReturns ==
  /\ pc = "callback"
  /\ pc' = IF handler = "ReadHandler" /\ MoreMessages THEN "header" ELSE "requeue"
  /\ UNCHANGED <<netVars, size, reads, parseVars, connVars>>

Requeue ==
  /\ pc = "requeue"
  /\ reads' = IF tcp_socket_ = "live" THEN AsyncRead("ReadHandler", 0, H) ELSE reads
  /\ pc' = "idle"
  /\ UNCHANGED <<netVars, size, parseVars, connVars>>

-----------------------------------------------------------------------------
(* Connect starts a new stream with whatever is left in recv_buffer_; as in *)
(* MumbleClient it is called when no operation is outstanding.              *)
Connect ==
  /\ pc = "idle" /\ tcp_socket_ = "null" /\ reads = {} /\ connects < MaxConnect
  /\ tcp_socket_' = "live" /\ connects' = connects + 1
  /\ stream' = <<>> /\ arrived' = 0 /\ handled' = <<>>
  /\ stale' = (size > 0)
  /\ reads' = AsyncRead("ReadHandler", 0, H)
  /\ UNCHANGED <<size, pc, handler, header>>

(* Called from a callback or outside Run; a read that has completed keeps   *)
(* its result.                                                              *)
Disconnect ==
  /\ pc \in {"idle", "callback"} /\ tcp_socket_ = "live"
  /\ tcp_socket_' = "null"
  /\ reads' = {[r EXCEPT !.error = ~Completed(r)] : r \in reads}
  /\ UNCHANGED <<netVars, size, pc, parseVars, connects, stale>>

-----------------------------------------------------------------------------

Handler ==
  \/ \E r \in reads : HandlerError(r) \/ ReadHandler(r) \/ ReadHandlerContinue(r)
  \/ \E k \in 1..Len(stream) : ReadHeader(k)
  \/ ReadGarbage \/ ReadRest \/ HandleMessageContent \/ CallbackReturns \/ Requeue

Next ==
  \/ Handler
  \/ \E r \in reads : \E n \in 1..ReadMax : Arrives(r, n)
  \/ \E r \in reads : ReadFails(r)
  \/ \E len \in Lens : Writes(len)
  \/ Connect \/ Disconnect

Spec == Init /\ [][Next]_vars

(* The event loop runs handlers to their end.  Nothing is assumed of the    *)
(* server and of the network.                                               *)
FairSpec == Spec /\ WF_vars(Handler)

-----------------------------------------------------------------------------

Message == [start : Nat, len : Lens]
Read == [handler : Handlers, header : Nat, need : Int, got : Nat, error : BOOLEAN]

TypeOK ==
  /\ stream \in Seq(Message) /\ arrived \in Nat /\ size \in Nat
  /\ reads \subseteq Read
  /\ tcp_socket_ \in {"live", "null"}
  /\ pc \in {"idle", "header", "content", "callback", "requeue", "assert", "garbage"}
  /\ handler \in Handlers /\ header \in Nat /\ handled \in Seq(Nat)
  /\ connects \in Nat /\ stale \in BOOLEAN

(* Every header the client reads is one the server wrote, however the       *)
(* stream was cut up on its way, unless the connection began with bytes of  *)
(* an earlier one in the buffer (client.cc:349-360, 373-374).               *)
InFrame == pc = "garbage" => stale

(* A header is read only when all of it is in the buffer; operator>> checks *)
(* nothing and would leave the header unset (client.cc:352-353).            *)
WholeHeader == pc = "header" => size >= H

(* There is never more than one read on the socket and none while a handler *)
(* runs, although HandleMessageContent and its two callers each start one.  *)
OneRead == Cardinality(reads) <= 1 /\ (pc # "idle" => reads = {})

(* When the client waits for the next message, what it has in the buffer is *)
(* less than one header plus one read_some: ReadHandlerContinue leaves the  *)
(* messages that came with the rest of its own to the next ReadHandler, and *)
(* that one starts only after H further bytes.  A read_some can bring a     *)
(* header at least (512 bytes in the code): H <= ReadMax.                   *)
LagBound ==
  \A r \in reads :
    r.handler = "ReadHandler" /\ ~r.error /\ ~Completed(r) /\ ~stale
      => size < ReadMax + H - 1

(* The handlers implement in-order, exactly-once delivery of whole messages. *)
Ends == [i \in 1..Len(stream) |-> End(stream[i])]
D == INSTANCE Delivery WITH ends <- Ends
DeliverySpec == D!Spec

(* A message is handled before the bytes behind it fill one read_some,      *)
(* unless the connection is lost or closed or a message is too long: what   *)
(* ReadHandlerContinue leaves behind waits for a header, and no longer, and *)
(* a body is not kept waiting for bytes of the next message.                *)
HandledInTime ==
  \A k \in 1..MaxMessages :
    (k <= Len(stream) /\ arrived >= End(stream[k]) + ReadMax - 1 /\ ~stale)
      ~> (Len(handled) >= k \/ pc = "assert" \/ stale \/ tcp_socket_ = "null"
          \/ \E r \in reads : r.error)

(* doc/tcp-protocol.txt: the control channel consists of headers, each       *)
(* followed by as many bytes as it says; so does what the client parses.     *)
ParsesTheStream == pc # "garbage"

(* client.cc:328, "The message is incomplete, read the rest": the buffer     *)
(* then holds that message and nothing else.                                 *)
ReadsTheRest ==
  pc = "content" /\ handler = "ReadHandlerContinue" => size = stream[header].len

=============================================================================
