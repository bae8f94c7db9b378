------------------------- MODULE RecvFramingProofs -------------------------
(***************************************************************************)
(* RecvFraming implements Delivery, for every header length, every length   *)
(* of messages and every way the bytes may be cut up on their way; every    *)
(* header that is read is one the server wrote; one read is outstanding.    *)
(*                                                                           *)
(* The argument is where the front of recv_buffer_ stands: at the end of     *)
(* the last message handled (AtBoundary), or behind the header of the next   *)
(* one (InBody) from the moment it is read until the message is handled,     *)
(* also while ReadHandlerContinue waits for the rest of it.                  *)
(***************************************************************************)
EXTENDS RecvFraming, FiniteSetTheorems, SequenceTheorems, TLAPS

(* The messages of the stream follow one another without gaps.              *)
Chain ==
  /\ stream # <<>> => stream[1].start = 0
  /\ \A i \in 1..Len(stream) : i + 1 <= Len(stream) => stream[i + 1].start = End(stream[i])
  /\ \A i, j \in 1..Len(stream) : i < j => End(stream[i]) <= stream[j].start

Handled ==
  /\ arrived <= Written
  /\ Len(handled) <= Len(stream)
  /\ \A i \in 1..Len(handled) : handled[i] = i

Boundary(n) == IF n = 0 THEN 0 ELSE End(stream[n])

AtBoundary == Front = Boundary(Len(handled))

InBody(k) == k = Len(handled) + 1 /\ k <= Len(stream) /\ Front = stream[k].start + H

Single ==
  /\ \A r, s \in reads : r = s
  /\ pc # "idle" => reads = {}

(* What a read that has not failed has brought is in the buffer.            *)
Waiting(r) ==
  IF r.handler = "ReadHandler"
  THEN r.need = H /\ r.got <= size
  ELSE InBody(r.header) /\ size - r.got = stream[r.header].len - r.need

WaitingReads == \A r \in reads : ~r.error => Waiting(r)

Aligned ==
  ~stale =>
    /\ pc \in {"header", "callback", "requeue"} => AtBoundary
    /\ \A r \in reads : ~r.error /\ r.handler = "ReadHandler" => AtBoundary

Bodies ==
  /\ pc = "header" => handler = "ReadHandler"
  /\ pc = "content" => InBody(header) /\ (handler = "ReadHandlerContinue" => size >= stream[header].len)

(* A connection that starts with bytes of an earlier one gets no further    *)
(* than its first header.                                                   *)
Stale ==
  stale =>
    /\ handled = <<>> /\ pc \in {"idle", "header", "garbage"}
    /\ pc # "garbage" => Front < 0
    /\ \A r \in reads : ~r.error => r.handler = "ReadHandler"

IInv ==
  /\ TypeOK /\ Chain /\ Handled /\ Single /\ WaitingReads /\ Aligned /\ Bodies /\ Stale
  /\ InFrame /\ WholeHeader

USE ConstantsAssumption DEF ConstantsAssumption

-----------------------------------------------------------------------------
(* Records and the stream.                                                  *)

LEMMA ReadFields ==
  ASSUME NEW r \in Read
  PROVE  r.handler \in Handlers /\ r.header \in Nat /\ r.need \in Int /\ r.got \in Nat
  BY DEF Read

LEMMA NewRead ==
  ASSUME NEW h \in Handlers, NEW k \in Nat, NEW need \in Int
  PROVE  LET r == [handler |-> h, header |-> k, need |-> need, got |-> 0, error |-> FALSE]
         IN  r \in Read /\ r.handler = h /\ r.header = k /\ r.need = need /\ r.got = 0
  BY DEF Read

LEMMA GotRead ==
  ASSUME NEW r \in Read, NEW n \in Nat
  PROVE  LET u == [r EXCEPT !.got = @ + n]
         IN  /\ u \in Read /\ u.got = r.got + n /\ u.error = r.error
             /\ u.handler = r.handler /\ u.header = r.header /\ u.need = r.need
  <1>1. r.got + n \in Nat
    BY ReadFields
  <1>2. QED
    BY <1>1 DEF Read

LEMMA EndedRead ==
  ASSUME NEW r \in Read, NEW b \in BOOLEAN
  PROVE  LET u == [r EXCEPT !.error = b]
         IN  /\ u \in Read /\ u.got = r.got /\ u.error = b
             /\ u.handler = r.handler /\ u.header = r.header /\ u.need = r.need
  BY DEF Read

LEMMA MessageFields ==
  ASSUME NEW m \in Message
  PROVE  /\ m.start \in Nat /\ m.len \in Nat /\ m.len \in Lens
         /\ End(m) \in Nat /\ m.start < End(m) /\ End(m) = m.start + H + m.len
  <1>1. m.start \in Nat /\ m.len \in Lens
    BY DEF Message
  <1>2. m.len \in Nat
    BY <1>1
  <1>3. QED
    BY <1>1, <1>2 DEF End

LEMMA StreamFields ==
  ASSUME stream \in Seq(Message)
  PROVE  /\ Len(stream) \in Nat /\ (stream = <<>> <=> Len(stream) = 0) /\ Written \in Nat
         /\ \A i \in 1..Len(stream) :
              /\ stream[i].start \in Nat /\ stream[i].len \in Nat /\ stream[i].len \in Lens
              /\ End(stream[i]) \in Nat /\ stream[i].start < End(stream[i])
              /\ End(stream[i]) = stream[i].start + H + stream[i].len
  <1>1. \A i \in 1..Len(stream) : stream[i] \in Message
    BY ElementOfSeq
  <1>2. Len(stream) \in Nat /\ (stream = <<>> <=> Len(stream) = 0)
    OBVIOUS
  <1>3. \A i \in 1..Len(stream) :
              /\ stream[i].start \in Nat /\ stream[i].len \in Nat /\ stream[i].len \in Lens
              /\ End(stream[i]) \in Nat /\ stream[i].start < End(stream[i])
              /\ End(stream[i]) = stream[i].start + H + stream[i].len
    BY <1>1, MessageFields
  <1>4. Written \in Nat
    <2>1. stream # <<>> => Len(stream) \in 1..Len(stream)
      BY <1>2
    <2>2. QED
      BY <1>3, <2>1 DEF Written
  <1>5. QED
    BY <1>2, <1>3, <1>4

(* A header read at the boundary is that of the next message, and it is     *)
(* there if H bytes are.                                                    *)
LEMMA NextHeader ==
  ASSUME TypeOK, Chain, Handled, AtBoundary
  PROVE  /\ \A k \in 1..Len(stream) : stream[k].start = Front => k = Len(handled) + 1
         /\ size > 0 =>
              /\ Len(handled) + 1 \in 1..Len(stream)
              /\ stream[Len(handled) + 1].start = Front
  <1> DEFINE n == Len(handled)
  <1>1. /\ Len(stream) \in Nat /\ (stream = <<>> <=> Len(stream) = 0) /\ Written \in Nat
        /\ \A i \in 1..Len(stream) : /\ stream[i].start \in Nat /\ End(stream[i]) \in Nat
                                      /\ stream[i].start < End(stream[i])
    BY StreamFields DEF TypeOK
  <1>2. n \in Nat /\ n <= Len(stream) /\ arrived \in Nat /\ size \in Nat /\ arrived <= Written
    BY DEF TypeOK, Handled
  <1>3. Front = Boundary(n) /\ Front = arrived - size
    BY DEF AtBoundary, Front
  <1> HIDE DEF n
  <1>4. ASSUME NEW k \in 1..Len(stream), stream[k].start = Front
        PROVE  k = n + 1
    <2>1. CASE n = 0
      <3>1. Front = 0 /\ 1 \in 1..Len(stream)
        BY <1>1, <1>3, <2>1 DEF Boundary
      <3>2. k > 1 => End(stream[1]) <= stream[k].start
        BY <3>1 DEF Chain
      <3>3. 0 < End(stream[1])
        BY <1>1, <3>1
      <3>4. ~(k > 1)
        BY <1>1, <1>4, <3>1, <3>2, <3>3
      <3>5. QED
        BY <1>1, <2>1, <3>4
    <2>2. CASE n > 0
      <3>1. Front = End(stream[n]) /\ n \in 1..Len(stream)
        BY <1>1, <1>2, <1>3, <2>2 DEF Boundary
      <3>2. ~(k < n)
        <4>1. k < n => End(stream[k]) <= stream[n].start
          BY <3>1 DEF Chain
        <4>2. QED
          BY <1>1, <1>4, <3>1, <4>1
      <3>3. k # n
        BY <1>1, <1>4, <3>1
      <3>4. ~(k > n + 1)
        <4>1. SUFFICES ASSUME k > n + 1 PROVE FALSE
          OBVIOUS
        <4>2. n + 1 \in 1..Len(stream)
          BY <1>1, <1>2, <4>1
        <4>3. End(stream[n + 1]) <= stream[k].start /\ stream[n + 1].start = End(stream[n])
          BY <3>1, <4>1, <4>2 DEF Chain
        <4>4. QED
          BY <1>1, <1>4, <3>1, <4>2, <4>3
      <3>5. QED
        BY <1>1, <1>2, <3>2, <3>3, <3>4
    <2>3. QED
      BY <1>2, <2>1, <2>2
  <1>5. ASSUME size > 0
        PROVE  n + 1 \in 1..Len(stream) /\ stream[n + 1].start = Front
    <2>1. Front < Written
      BY <1>1, <1>2, <1>3, <1>5
    <2>2. n # Len(stream)
      <3>1. n = Len(stream) => Boundary(n) = Written
        BY <1>1 DEF Boundary, Written
      <3>2. QED
        BY <1>1, <1>3, <2>1, <3>1
    <2>3. n + 1 \in 1..Len(stream)
      BY <1>1, <1>2, <2>2
    <2>4. CASE n = 0
      BY <1>1, <1>3, <2>3, <2>4 DEF Boundary, Chain
    <2>5. CASE n > 0
      <3>1. n \in 1..Len(stream)
        BY <1>1, <1>2, <2>5
      <3>2. stream[n + 1].start = End(stream[n])
        BY <1>1, <2>3, <3>1 DEF Chain
      <3>3. QED
        BY <1>3, <2>3, <2>5, <3>2 DEF Boundary
    <2>6. QED
      BY <1>2, <2>4, <2>5
  <1>6. QED
    BY <1>4, <1>5 DEF n

-----------------------------------------------------------------------------
(* Each action keeps IInv.                                                  *)

LEMMA ArrivesKeeps ==
  ASSUME IInv, NEW r \in reads, NEW n \in 1..ReadMax, Arrives(r, n)
  PROVE  IInv'
  <1> DEFINE u == [r EXCEPT !.got = @ + n]
  <1>1. TypeOK /\ Single /\ WaitingReads /\ n \in Nat /\ r \in Read /\ reads = {r}
    BY DEF IInv, TypeOK, Single
  <1>2. /\ ~r.error /\ arrived + n <= Written /\ arrived' = arrived + n /\ size' = size + n
        /\ reads' = {u} /\ pc = "idle"
        /\ UNCHANGED <<stream, pc, handler, header, handled, tcp_socket_, connects, stale>>
    BY <1>1 DEF Arrives, parseVars, connVars, Single
  <1>3. /\ u \in Read /\ u.got = r.got + n /\ u.error = r.error
        /\ u.handler = r.handler /\ u.header = r.header /\ u.need = r.need
    BY <1>1, GotRead
  <1> HIDE DEF u
  <1>4. arrived \in Nat /\ size \in Nat /\ r.got \in Nat /\ r.need \in Int
    BY <1>1, ReadFields DEF TypeOK
  <1>5. Front' = Front /\ arrived' \in Nat /\ size' \in Nat
    BY <1>2, <1>4 DEF Front
  <1>6. TypeOK'
    <2>1. stale' \in BOOLEAN
      BY <1>1, <1>2 DEF TypeOK
    <2>2. QED
      BY <1>1, <1>2, <1>3, <1>5, <2>1 DEF TypeOK
  <1>7. Chain' /\ Handled'
    BY <1>2, <1>5 DEF IInv, Chain, Handled, Written, End
  <1>8. Single'
    BY <1>2 DEF Single
  <1>9. AtBoundary' = AtBoundary /\ \A k : InBody(k)' = InBody(k)
    BY <1>2, <1>5 DEF AtBoundary, Boundary, InBody, End
  <1>10. WaitingReads'
    <2>1. Waiting(r)
      BY <1>1, <1>2 DEF WaitingReads
    <2>2. CASE r.handler = "ReadHandler"
      <3>1. u.need = H /\ u.got <= size'
        BY <1>2, <1>3, <1>4, <2>1, <2>2 DEF Waiting
      <3>2. QED
        BY <1>2, <1>3, <2>2, <3>1 DEF WaitingReads, Waiting
    <2>3. CASE r.handler # "ReadHandler"
      <3>1. InBody(r.header) /\ size - r.got = stream[r.header].len - r.need
        BY <2>1, <2>3 DEF Waiting
      <3>2. size' - u.got = stream[u.header].len - u.need
        BY <1>2, <1>3, <1>4, <3>1
      <3>3. QED
        BY <1>2, <1>3, <1>9, <2>3, <3>1, <3>2 DEF WaitingReads, Waiting
    <2>4. QED
      BY <2>2, <2>3
  <1>11. Aligned' /\ Bodies' /\ InFrame' /\ WholeHeader'
    BY <1>1, <1>2, <1>3, <1>9 DEF IInv, Aligned, Bodies, InFrame, WholeHeader
  <1>12. Stale'
    BY <1>1, <1>2, <1>3, <1>5 DEF IInv, Stale
  <1>13. QED
    BY <1>6, <1>7, <1>8, <1>10, <1>11, <1>12 DEF IInv

(* Reads that end without bringing anything: they fail, are cancelled, or   *)
(* their error handler runs.  Only those that have not failed count.        *)
LEMMA ReadsEndKeeps ==
  ASSUME IInv, pc = "idle" \/ pc = "callback", reads' \subseteq Read,
         \A s \in reads' : ~s.error => s \in reads,
         \A s, q \in reads' : s = q,
         pc = "callback" => reads' = {},
         tcp_socket_' \in {"live", "null"},
         UNCHANGED <<stream, arrived, size, pc, handler, header, handled, connects, stale>>
  PROVE  IInv'
  <1>1. TypeOK'
    <2>1. stale' \in BOOLEAN
      BY DEF IInv, TypeOK
    <2>2. QED
      BY <2>1 DEF IInv, TypeOK
  <1>2. Chain' /\ Handled' /\ InFrame' /\ WholeHeader'
    BY DEF IInv, Chain, Handled, Written, End, InFrame, WholeHeader
  <1>3. Front' = Front /\ AtBoundary' = AtBoundary /\ \A k : InBody(k)' = InBody(k)
    BY DEF Front, AtBoundary, Boundary, InBody, End
  <1>4. Single' /\ Bodies'
    BY <1>3 DEF Single, IInv, Bodies
  <1>5. WaitingReads'
    BY <1>3 DEF IInv, WaitingReads, Waiting
  <1>6. Aligned' /\ Stale'
    BY <1>3 DEF IInv, Aligned, Stale
  <1>7. QED
    BY <1>1, <1>2, <1>4, <1>5, <1>6 DEF IInv

LEMMA ReadFailsKeeps ==
  ASSUME IInv, NEW r \in reads, ReadFails(r)
  PROVE  IInv'
  <1>1. r \in Read /\ reads = {r} /\ pc = "idle"
    BY DEF IInv, TypeOK, Single
  <1> DEFINE u == [r EXCEPT !.error = TRUE]
  <1>2. reads' = {u} /\ u \in Read /\ u.error = TRUE
    BY <1>1, EndedRead DEF ReadFails
  <1> HIDE DEF u
  <1>3. QED
    BY <1>1, <1>2, ReadsEndKeeps DEF ReadFails, netVars, parseVars, connVars, IInv, TypeOK

LEMMA HandlerErrorKeeps ==
  ASSUME IInv, NEW r \in reads, HandlerError(r)
  PROVE  IInv'
  <1>1. r \in Read /\ reads = {r}
    BY DEF IInv, TypeOK, Single
  <1>2. reads' = {} /\ pc = "idle"
    BY <1>1 DEF HandlerError
  <1>3. QED
    BY <1>2, ReadsEndKeeps DEF HandlerError, netVars, parseVars, connVars, IInv, TypeOK

LEMMA DisconnectKeeps ==
  ASSUME IInv, Disconnect
  PROVE  IInv'
  <1>1. reads \subseteq Read /\ Single
    BY DEF IInv, TypeOK
  <1>2. ASSUME NEW s \in reads'
        PROVE  /\ s \in Read /\ (~s.error => s \in reads)
               /\ \E r \in reads : s = [r EXCEPT !.error = ~Completed(r)]
    <2>1. PICK r \in reads : s = [r EXCEPT !.error = ~Completed(r)]
      BY <1>2 DEF Disconnect
    <2>2. r \in Read
      BY <1>1
    <2>3. (~Completed(r)) \in BOOLEAN
      OBVIOUS
    <2>4. s \in Read /\ s.error = ~Completed(r)
      BY <2>1, <2>2, <2>3, EndedRead
    <2>5. ~s.error => s = r
      <3>1. SUFFICES ASSUME ~s.error PROVE s = r
        OBVIOUS
      <3>2. Completed(r)
        BY <2>4, <3>1
      <3>3. r.error = FALSE /\ s = [r EXCEPT !.error = FALSE]
        BY <2>1, <2>2, <3>2 DEF Completed, Read
      <3>4. QED
        BY <2>2, <3>3 DEF Read
    <2>6. QED
      BY <2>1, <2>4, <2>5
  <1>3. \A s, q \in reads' : s = q
    BY <1>1, <1>2 DEF Single
  <1>4. pc = "callback" => reads' = {}
    BY <1>1 DEF Disconnect, Single
  <1>5. reads' \subseteq Read /\ (\A s \in reads' : ~s.error => s \in reads)
    BY <1>2
  <1>6. QED
    BY <1>3, <1>4, <1>5, ReadsEndKeeps DEF Disconnect, netVars, parseVars

(* The server writes a message behind the others.                           *)
LEMMA StreamGrows ==
  ASSUME TypeOK, Chain, NEW len \in Lens,
         stream' = Append(stream, [start |-> Written, len |-> len])
  PROVE  /\ stream' \in Seq(Message) /\ Len(stream') = Len(stream) + 1
         /\ \A i \in 1..Len(stream) : stream'[i] = stream[i]
         /\ stream'[Len(stream) + 1] = [start |-> Written, len |-> len]
         /\ Written' = Written + H + len
         /\ Chain'
  <1> DEFINE m == [start |-> Written, len |-> len]
             l == Len(stream)
  <1>1. /\ l \in Nat /\ (stream = <<>> <=> l = 0) /\ Written \in Nat
        /\ \A i \in 1..l : /\ stream[i].start \in Nat /\ End(stream[i]) \in Nat
                            /\ stream[i].start < End(stream[i])
    BY StreamFields DEF TypeOK
  <1>2. m \in Message /\ m.start = Written /\ m.len = len
    BY <1>1 DEF Message
  <1>3. m.start < End(m) /\ End(m) = Written + H + len /\ End(m) \in Nat
    BY <1>2, MessageFields
  <1>4. stream' = Append(stream, m) /\ stream \in Seq(Message)
    BY DEF TypeOK
  <1> HIDE DEF m
  <1>5. /\ stream' \in Seq(Message) /\ Len(stream') = l + 1 /\ stream'[l + 1] = m /\ stream' # <<>>
        /\ \A i \in 1..l : stream'[i] = stream[i]
    BY <1>2, <1>4, AppendProperties
  <1> HIDE DEF l
  <1>6. \A i \in 1..l : End(stream[i]) <= Written
    <2>1. SUFFICES ASSUME NEW i \in 1..l PROVE End(stream[i]) <= Written
      OBVIOUS
    <2>2. Written = End(stream[l]) /\ l \in 1..l
      BY <1>1, <2>1 DEF Written, l
    <2>3. i < l => End(stream[i]) <= stream[l].start
      BY <2>1, <2>2 DEF Chain, l
    <2>4. QED
      BY <1>1, <2>2, <2>3
  <1>7. Written' = End(m)
    BY <1>5 DEF Written, End
  <1>8. (stream # <<>> => stream[1].start = 0)'
    <2>1. CASE l = 0
      BY <1>1, <1>2, <1>5, <2>1 DEF Written
    <2>2. CASE l > 0
      <3>1. 1 \in 1..l /\ stream # <<>>
        BY <1>1, <2>2
      <3>2. QED
        BY <1>5, <3>1 DEF Chain
    <2>3. QED
      BY <1>1, <2>1, <2>2
  <1>9. ASSUME NEW i \in 1..(l + 1), i + 1 <= l + 1
        PROVE  stream'[i + 1].start = End(stream'[i])
    <2>1. i \in 1..l
      BY <1>1, <1>9
    <2>2. CASE i = l
      <3>1. End(stream[l]) = Written
        BY <1>1, <2>1, <2>2 DEF Written, l
      <3>2. QED
        BY <1>2, <1>5, <2>1, <2>2, <3>1
    <2>3. CASE i < l
      <3>1. i + 1 \in 1..l
        BY <1>1, <2>1, <2>3
      <3>2. stream[i + 1].start = End(stream[i])
        BY <1>1, <2>1, <3>1 DEF Chain, l
      <3>3. QED
        BY <1>5, <2>1, <3>1, <3>2
    <2>4. i = l \/ i < l
      BY <1>1, <2>1
    <2>5. QED
      BY <2>2, <2>3, <2>4
  <1>10. ASSUME NEW i \in 1..(l + 1), NEW j \in 1..(l + 1), i < j
         PROVE  End(stream'[i]) <= stream'[j].start
    <2>1. i \in 1..l
      BY <1>1, <1>10
    <2>2. CASE j = l + 1
      <3>1. stream'[j].start = Written /\ stream'[i] = stream[i]
        BY <1>2, <1>5, <2>1, <2>2
      <3>2. QED
        BY <1>6, <2>1, <3>1
    <2>3. CASE j \in 1..l
      <3>1. End(stream[i]) <= stream[j].start
        BY <1>10, <2>1, <2>3 DEF Chain, l
      <3>2. QED
        BY <1>5, <2>1, <2>3, <3>1
    <2>4. j = l + 1 \/ j \in 1..l
      BY <1>1
    <2>5. QED
      BY <2>2, <2>3, <2>4
  <1>11. Chain'
    <2>1. \A i \in 1..Len(stream') : i + 1 <= Len(stream') => stream'[i + 1].start = End(stream'[i])
      BY <1>5, <1>9
    <2>2. \A i, j \in 1..Len(stream') : i < j => End(stream'[i]) <= stream'[j].start
      BY <1>5, <1>10
    <2>3. QED
      BY <1>8, <2>1, <2>2 DEF Chain, End
  <1>12. QED
    BY <1>3, <1>5, <1>7, <1>11 DEF m, l

LEMMA WritesKeeps ==
  ASSUME IInv, NEW len \in Lens, Writes(len)
  PROVE  IInv'
  <1>1. /\ stream' \in Seq(Message) /\ Len(stream') = Len(stream) + 1
        /\ \A i \in 1..Len(stream) : stream'[i] = stream[i]
        /\ Written' = Written + H + len
        /\ Chain'
    BY StreamGrows DEF IInv, Writes
  <1>2. /\ UNCHANGED <<arrived, size, reads, pc, handler, header, handled, tcp_socket_, connects, stale>>
        /\ Len(stream) \in Nat /\ Len(handled) \in Nat /\ Written \in Nat /\ arrived \in Nat /\ len \in Nat
        /\ Len(handled) <= Len(stream) /\ arrived <= Written
    BY StreamFields DEF Writes, parseVars, connVars, IInv, TypeOK, Handled
  <1>3. TypeOK'
    <2>1. stale' \in BOOLEAN
      BY <1>2 DEF IInv, TypeOK
    <2>2. QED
      BY <1>1, <1>2, <2>1 DEF IInv, TypeOK
  <1>4. Handled'
    BY <1>1, <1>2 DEF IInv, Handled
  <1>5. AtBoundary' = AtBoundary
    <2>1. Len(handled) > 0 => Len(handled) \in 1..Len(stream)
      BY <1>2
    <2>2. Boundary(Len(handled))' = Boundary(Len(handled))
      BY <1>1, <1>2, <2>1 DEF Boundary, End
    <2>3. QED
      BY <1>2, <2>2 DEF AtBoundary, Front
  <1>6. ASSUME NEW k, InBody(k)
        PROVE  InBody(k)' /\ stream'[k] = stream[k]
    <2>1. k = Len(handled) + 1 /\ k <= Len(stream) /\ k \in 1..Len(stream)
      BY <1>2, <1>6 DEF InBody
    <2>2. QED
      BY <1>1, <1>2, <1>6, <2>1 DEF InBody, Front
  <1>7. WaitingReads'
    BY <1>2, <1>6 DEF IInv, WaitingReads, Waiting
  <1>8. Bodies'
    BY <1>2, <1>6 DEF IInv, Bodies
  <1>9. Aligned' /\ Single' /\ Stale' /\ InFrame' /\ WholeHeader'
    BY <1>2, <1>5 DEF IInv, Aligned, Single, Stale, Front, InFrame, WholeHeader
  <1>10. QED
    BY <1>1, <1>3, <1>4, <1>7, <1>8, <1>9 DEF IInv

(* A handler starts.                                                        *)
LEMMA ReadHandlerKeeps ==
  ASSUME IInv, NEW r \in reads, ReadHandler(r) \/ ReadHandlerContinue(r)
  PROVE  IInv'
  <1>1. /\ TypeOK /\ r \in Read /\ reads = {r} /\ ~r.error /\ r.got >= r.need /\ reads' = {} /\ pc = "idle"
        /\ UNCHANGED <<stream, arrived, size, handled, tcp_socket_, connects, stale>>
    BY DEF IInv, TypeOK, Single, ReadHandler, ReadHandlerContinue, Completed, netVars, connVars
  <1>2. r.handler \in Handlers /\ r.header \in Nat /\ r.got \in Nat /\ r.need \in Int /\ size \in Nat
    BY <1>1, ReadFields DEF TypeOK
  <1>3. Waiting(r) /\ stale' \in BOOLEAN
    BY <1>1 DEF IInv, WaitingReads, TypeOK
  <1>4. Front' = Front /\ AtBoundary' = AtBoundary /\ \A k : InBody(k)' = InBody(k)
    BY <1>1 DEF Front, AtBoundary, Boundary, InBody, End
  <1>5. Chain' /\ Handled' /\ Single' /\ WaitingReads'
    BY <1>1 DEF IInv, Chain, Handled, Written, End, Single, WaitingReads
  <1>6. CASE ReadHandler(r)
    <2>1. r.handler = "ReadHandler" /\ handler' = "ReadHandler" /\ pc' = "header" /\ header' = header
      BY <1>6 DEF ReadHandler
    <2>2. TypeOK'
      BY <1>1, <1>3, <2>1 DEF TypeOK, Handlers
    <2>3. WholeHeader'
      BY <1>1, <1>2, <1>3, <2>1 DEF Waiting, WholeHeader
    <2>4. Aligned' /\ Bodies' /\ Stale' /\ InFrame'
      BY <1>1, <1>4, <2>1 DEF IInv, Aligned, Bodies, Stale, InFrame
    <2>5. QED
      BY <1>5, <2>2, <2>3, <2>4 DEF IInv
  <1>7. CASE ReadHandlerContinue(r)
    <2>1. /\ r.handler = "ReadHandlerContinue" /\ handler' = "ReadHandlerContinue" /\ pc' = "content"
          /\ header' = r.header
      BY <1>7 DEF ReadHandlerContinue
    <2>2. TypeOK'
      BY <1>1, <1>2, <1>3, <2>1 DEF TypeOK
    <2>3. InBody(r.header) /\ size - r.got = stream[r.header].len - r.need
      BY <1>3, <2>1 DEF Waiting
    <2>4. size >= stream[r.header].len
      <3>1. r.header \in 1..Len(stream)
        BY <1>1, <1>2, <2>3 DEF InBody, TypeOK
      <3>2. stream[r.header].len \in Nat
        BY <1>1, <3>1, StreamFields DEF TypeOK
      <3>3. QED
        BY <1>1, <1>2, <2>3, <3>2
    <2>5. Bodies'
      BY <1>1, <1>4, <2>1, <2>3, <2>4 DEF Bodies
    <2>6. Aligned' /\ Stale' /\ InFrame' /\ WholeHeader'
      BY <1>1, <1>4, <2>1 DEF IInv, Aligned, Stale, InFrame, WholeHeader
    <2>7. QED
      BY <1>5, <2>2, <2>5, <2>6 DEF IInv
  <1>8. QED
    BY <1>6, <1>7

(* The front of the buffer is at a boundary and H bytes are there.          *)
LEMMA HeaderReady ==
  ASSUME IInv, pc = "header"
  PROVE  /\ size >= H /\ reads = {} /\ handler = "ReadHandler"
         /\ ~stale => /\ AtBoundary /\ Len(handled) + 1 \in 1..Len(stream)
                      /\ stream[Len(handled) + 1].start = Front
                      /\ \A k \in 1..Len(stream) : stream[k].start = Front => k = Len(handled) + 1
  <1>1. size >= H /\ size \in Nat /\ reads = {} /\ handler = "ReadHandler"
    BY DEF IInv, WholeHeader, Single, Bodies, TypeOK
  <1>2. size > 0
    BY <1>1
  <1>3. ~stale => AtBoundary
    BY DEF IInv, Aligned
  <1>4. QED
    BY <1>1, <1>2, <1>3, NextHeader DEF IInv

LEMMA ReadHeaderKeeps ==
  ASSUME IInv, NEW k \in 1..Len(stream), ReadHeader(k)
  PROVE  IInv'
  <1>1. /\ size >= H /\ stream[k].start = Front /\ size' = size - H /\ header' = k /\ pc' \in {"assert", "content"}
        /\ UNCHANGED <<stream, arrived, reads, handler, handled, tcp_socket_, connects, stale>>
        /\ pc = "header"
    BY DEF ReadHeader, HeaderOf, netVars, connVars
  <1>2. size \in Nat /\ arrived \in Nat /\ stream[k].start \in Nat /\ k \in Nat
    BY StreamFields DEF IInv, TypeOK
  <1>3. ~stale
    BY <1>1, <1>2 DEF IInv, Stale
  <1>4. k = Len(handled) + 1 /\ handler = "ReadHandler" /\ reads = {}
    BY <1>1, <1>3, HeaderReady
  <1>5. Front' = stream[k].start + H
    BY <1>1, <1>2 DEF Front
  <1>6. InBody(k)'
    <2>1. k <= Len(stream)
      BY DEF IInv, TypeOK
    <2>2. QED
      BY <1>1, <1>4, <1>5, <2>1 DEF InBody
  <1>7. TypeOK'
    <2>1. stale' \in BOOLEAN /\ size' \in Nat
      BY <1>1, <1>2 DEF IInv, TypeOK
    <2>2. QED
      BY <1>1, <1>2, <2>1 DEF IInv, TypeOK
  <1>8. Chain' /\ Handled' /\ Single' /\ WaitingReads'
    BY <1>1, <1>4 DEF IInv, Chain, Handled, Written, End, Single, WaitingReads
  <1>9. Aligned' /\ Bodies' /\ Stale' /\ InFrame' /\ WholeHeader'
    BY <1>1, <1>3, <1>4, <1>6 DEF Aligned, Bodies, Stale, InFrame, WholeHeader
  <1>10. QED
    BY <1>7, <1>8, <1>9 DEF IInv

LEMMA ReadGarbageKeeps ==
  ASSUME IInv, ReadGarbage
  PROVE  IInv'
  <1>1. /\ pc = "header" /\ pc' = "garbage" /\ \A k \in 1..Len(stream) : ~HeaderOf(k)
        /\ UNCHANGED <<stream, arrived, size, reads, handler, header, handled, tcp_socket_, connects, stale>>
    BY DEF ReadGarbage, netVars, parseVars, connVars
  <1>2. stale /\ reads = {}
    BY <1>1, HeaderReady DEF HeaderOf
  <1>3. TypeOK'
    <2>1. stale' \in BOOLEAN
      BY <1>1 DEF IInv, TypeOK
    <2>2. QED
      BY <1>1, <2>1 DEF IInv, TypeOK
  <1>4. Chain' /\ Handled' /\ Single' /\ WaitingReads'
    BY <1>1, <1>2 DEF IInv, Chain, Handled, Written, End, Single, WaitingReads
  <1>5. Aligned' /\ Bodies' /\ Stale' /\ InFrame' /\ WholeHeader'
    BY <1>1, <1>2 DEF IInv, Aligned, Bodies, Stale, InFrame, WholeHeader
  <1>6. QED
    BY <1>3, <1>4, <1>5 DEF IInv

(* The body of the message whose header was read.                           *)
LEMMA BodyReady ==
  ASSUME IInv, pc = "content"
  PROVE  /\ ~stale /\ reads = {} /\ InBody(header) /\ header \in 1..Len(stream) /\ header = Len(handled) + 1
         /\ stream[header].len \in Nat /\ stream[header].start \in Nat
         /\ End(stream[header]) = stream[header].start + H + stream[header].len
         /\ size \in Nat /\ arrived \in Nat /\ Len(handled) \in Nat
         /\ handler = "ReadHandlerContinue" => size >= stream[header].len
  <1>1. ~stale /\ reads = {} /\ InBody(header) /\ (handler = "ReadHandlerContinue" => size >= stream[header].len)
    BY DEF IInv, Stale, Single, Bodies
  <1>2. size \in Nat /\ arrived \in Nat /\ Len(handled) \in Nat /\ Len(stream) \in Nat
    BY DEF IInv, TypeOK
  <1>3. header \in 1..Len(stream) /\ header = Len(handled) + 1
    BY <1>1, <1>2 DEF InBody
  <1>4. QED
    BY <1>1, <1>2, <1>3, StreamFields DEF IInv, TypeOK

LEMMA ReadRestKeeps ==
  ASSUME IInv, ReadRest
  PROVE  IInv'
  <1>len. PICK len : len = stream[header].len
    OBVIOUS
  <1>q. PICK q : q = [handler |-> "ReadHandlerContinue", header |-> header, need |-> Rest(len),
                      got |-> 0, error |-> FALSE]
    OBVIOUS
  <1>1. /\ pc = "content" /\ size < len
        /\ reads' = (IF tcp_socket_ = "live" THEN reads \cup {q} ELSE reads)
        /\ pc' = IF handler = "ReadHandler" THEN "idle" ELSE "requeue"
        /\ UNCHANGED <<stream, arrived, size, handler, header, handled, tcp_socket_, connects, stale>>
    BY <1>len, <1>q DEF ReadRest, Incomplete, AsyncRead, netVars, parseVars, connVars
  <1>2. /\ ~stale /\ reads = {} /\ InBody(header) /\ header \in 1..Len(stream) /\ header \in Nat
        /\ len \in Nat /\ size \in Nat /\ (handler = "ReadHandlerContinue" => size >= len)
    BY <1>len, <1>1, BodyReady
  <1>3. handler = "ReadHandler" /\ pc' = "idle"
    <2>1. handler # "ReadHandlerContinue"
      BY <1>1, <1>2
    <2>2. QED
      BY <1>1, <2>1 DEF IInv, TypeOK, Handlers
  <1>4. Rest(len) \in Int /\ size - 0 = len - Rest(len)
    BY <1>2 DEF Rest
  <1>5. /\ q \in Read /\ q.handler = "ReadHandlerContinue" /\ q.header = header /\ q.need = Rest(len)
        /\ q.got = 0
    BY <1>q, <1>2, <1>4, NewRead DEF Handlers
  <1>6. reads' \subseteq {q}
    BY <1>1, <1>2
  <1>7. InBody(header)'
    BY <1>1, <1>2 DEF InBody, Front
  <1>8. Waiting(q)'
    <2>1. size' - q.got = stream'[q.header].len - q.need
      BY <1>len, <1>1, <1>4, <1>5
    <2>2. InBody(q.header)'
      BY <1>1, <1>5, <1>7
    <2>3. QED
      BY <1>5, <2>1, <2>2 DEF Waiting
  <1>9. TypeOK'
    <2>1. stale' \in BOOLEAN
      BY <1>1 DEF IInv, TypeOK
    <2>2. QED
      BY <1>1, <1>3, <1>5, <1>6, <2>1 DEF IInv, TypeOK
  <1>10. Chain' /\ Handled'
    BY <1>1 DEF IInv, Chain, Handled, Written, End
  <1>11. Single' /\ WaitingReads'
    BY <1>3, <1>6, <1>8 DEF Single, WaitingReads
  <1>12. Aligned' /\ Bodies' /\ Stale' /\ InFrame' /\ WholeHeader'
    BY <1>1, <1>2, <1>3, <1>5, <1>6 DEF Aligned, Bodies, Stale, InFrame, WholeHeader
  <1>13. QED
    BY <1>9, <1>10, <1>11, <1>12 DEF IInv

(* The next message is handled: its number, and that it has arrived.        *)
LEMMA MessageHandled ==
  ASSUME IInv, HandleMessageContent
  PROVE  /\ handled' = Append(handled, Len(handled) + 1)
         /\ Len(handled) + 1 \in 1..Len(stream)
         /\ End(stream[Len(handled) + 1]) <= arrived
         /\ Front' = End(stream[Len(handled) + 1])
         /\ size' \in Nat /\ reads = {} /\ ~stale /\ pc' = "callback"
         /\ UNCHANGED <<stream, arrived, reads, handler, header, tcp_socket_, connects, stale>>
  <1> DEFINE len == stream[header].len
  <1>1. /\ pc = "content" /\ ~(size < len) /\ size' = size - len /\ handled' = Append(handled, header)
        /\ pc' = "callback"
        /\ UNCHANGED <<stream, arrived, reads, handler, header, tcp_socket_, connects, stale>>
    BY DEF HandleMessageContent, Incomplete, Takes, netVars, connVars
  <1>2. /\ ~stale /\ reads = {} /\ InBody(header) /\ header \in 1..Len(stream) /\ header = Len(handled) + 1
        /\ len \in Nat /\ stream[header].start \in Nat /\ End(stream[header]) = stream[header].start + H + len
        /\ size \in Nat /\ arrived \in Nat
    BY <1>1, BodyReady
  <1>3. arrived - size = stream[header].start + H
    BY <1>2 DEF InBody, Front
  <1> HIDE DEF len
  <1>4. size' \in Nat /\ End(stream[header]) <= arrived /\ arrived - size' = End(stream[header])
    BY <1>1, <1>2, <1>3
  <1>5. QED
    BY <1>1, <1>2, <1>4 DEF Front

LEMMA HandleMessageContentKeeps ==
  ASSUME IInv, HandleMessageContent
  PROVE  IInv'
  <1>n. PICK n : n = Len(handled) + 1
    OBVIOUS
  <1>1. /\ handled' = Append(handled, n) /\ n \in 1..Len(stream) /\ Front' = End(stream[n])
        /\ size' \in Nat /\ reads = {} /\ ~stale /\ pc' = "callback"
        /\ UNCHANGED <<stream, arrived, reads, handler, header, tcp_socket_, connects, stale>>
    BY <1>n, MessageHandled
  <1>2. handled \in Seq(Nat) /\ Len(handled) \in Nat /\ Len(stream) \in Nat
    BY DEF IInv, TypeOK
  <1>3. n \in Nat /\ n # 0 /\ n <= Len(stream)
    BY <1>n, <1>1, <1>2
  <1>4. /\ handled' \in Seq(Nat) /\ Len(handled') = Len(handled) + 1 /\ handled'[Len(handled) + 1] = n
        /\ \A i \in 1..Len(handled) : handled'[i] = handled[i]
    BY <1>n, <1>1, <1>2, <1>3, AppendProperties
  <1>5. Handled'
    <2>1. \A i \in 1..Len(handled') : handled'[i] = i
      <3>1. SUFFICES ASSUME NEW i \in 1..Len(handled') PROVE handled'[i] = i
        OBVIOUS
      <3>2. i \in 1..Len(handled) \/ i = Len(handled) + 1
        BY <1>2, <1>4, <3>1
      <3>3. QED
        BY <1>n, <1>4, <3>2 DEF IInv, Handled
    <2>2. QED
      BY <1>n, <1>1, <1>3, <1>4, <2>1 DEF IInv, Handled, Written, End
  <1>6. AtBoundary'
    <2>1. Boundary(n)' = End(stream[n])
      BY <1>1, <1>3 DEF Boundary, End
    <2>2. QED
      BY <1>n, <1>1, <1>4, <2>1 DEF AtBoundary
  <1>7. TypeOK'
    <2>1. stale' \in BOOLEAN
      BY <1>1 DEF IInv, TypeOK
    <2>2. QED
      BY <1>1, <1>4, <2>1 DEF IInv, TypeOK
  <1>8. Chain' /\ Single' /\ WaitingReads'
    BY <1>1 DEF IInv, Chain, Written, End, Single, WaitingReads
  <1>9. Aligned' /\ Bodies' /\ Stale' /\ InFrame' /\ WholeHeader'
    BY <1>1, <1>6 DEF Aligned, Bodies, Stale, InFrame, WholeHeader
  <1>10. QED
    BY <1>5, <1>7, <1>8, <1>9 DEF IInv

LEMMA CallbackReturnsKeeps ==
  ASSUME IInv, CallbackReturns
  PROVE  IInv'
  <1>1. /\ pc = "callback" /\ pc' \in {"header", "requeue"}
        /\ pc' = "header" => handler = "ReadHandler" /\ size >= H
        /\ UNCHANGED <<stream, arrived, size, reads, handler, header, handled, tcp_socket_, connects, stale>>
    BY DEF CallbackReturns, MoreMessages, netVars, parseVars, connVars
  <1>2. ~stale /\ reads = {} /\ AtBoundary
    BY <1>1 DEF IInv, Stale, Single, Aligned
  <1>3. AtBoundary'
    BY <1>1, <1>2 DEF AtBoundary, Boundary, Front, End
  <1>4. TypeOK'
    <2>1. stale' \in BOOLEAN
      BY <1>1 DEF IInv, TypeOK
    <2>2. QED
      BY <1>1, <2>1 DEF IInv, TypeOK
  <1>5. Chain' /\ Handled' /\ Single' /\ WaitingReads'
    BY <1>1, <1>2 DEF IInv, Chain, Handled, Written, End, Single, WaitingReads
  <1>6. Aligned' /\ Bodies' /\ Stale' /\ InFrame' /\ WholeHeader'
    BY <1>1, <1>2, <1>3 DEF Aligned, Bodies, Stale, InFrame, WholeHeader
  <1>7. QED
    BY <1>4, <1>5, <1>6 DEF IInv

(* Requeue and Connect both start the read for a header.                    *)
LEMMA HeaderRead ==
  ASSUME reads = {}, reads' = AsyncRead("ReadHandler", 0, H) \/ reads' = reads, pc' = "idle", size' \in Nat
  PROVE  /\ reads' \subseteq Read /\ Single' /\ WaitingReads'
         /\ \A r \in reads' : r.handler = "ReadHandler"
  <1> DEFINE q == [handler |-> "ReadHandler", header |-> 0, need |-> H, got |-> 0, error |-> FALSE]
  <1>1. q \in Read /\ q.handler = "ReadHandler" /\ q.need = H /\ q.got = 0
    BY NewRead DEF Handlers
  <1>2. reads' \subseteq {q}
    BY DEF AsyncRead
  <1> HIDE DEF q
  <1>3. Waiting(q)'
    BY <1>1 DEF Waiting
  <1>4. QED
    BY <1>1, <1>2, <1>3 DEF Single, WaitingReads

LEMMA RequeueKeeps ==
  ASSUME IInv, Requeue
  PROVE  IInv'
  <1>1. /\ pc = "requeue" /\ pc' = "idle" /\ (reads' = AsyncRead("ReadHandler", 0, H) \/ reads' = reads)
        /\ UNCHANGED <<stream, arrived, size, handler, header, handled, tcp_socket_, connects, stale>>
    BY DEF Requeue, netVars, parseVars, connVars
  <1>2. ~stale /\ reads = {} /\ AtBoundary /\ size' \in Nat
    BY <1>1 DEF IInv, Stale, Single, Aligned, TypeOK
  <1>3. /\ reads' \subseteq Read /\ Single' /\ WaitingReads'
        /\ \A r \in reads' : r.handler = "ReadHandler"
    BY <1>1, <1>2, HeaderRead
  <1>4. AtBoundary'
    BY <1>1, <1>2 DEF AtBoundary, Boundary, Front, End
  <1>5. TypeOK'
    <2>1. stale' \in BOOLEAN
      BY <1>1 DEF IInv, TypeOK
    <2>2. QED
      BY <1>1, <1>3, <2>1 DEF IInv, TypeOK
  <1>6. Chain' /\ Handled'
    BY <1>1 DEF IInv, Chain, Handled, Written, End
  <1>7. Aligned' /\ Bodies' /\ Stale' /\ InFrame' /\ WholeHeader'
    BY <1>1, <1>2, <1>4 DEF Aligned, Bodies, Stale, InFrame, WholeHeader
  <1>8. QED
    BY <1>3, <1>5, <1>6, <1>7 DEF IInv

LEMMA ConnectKeeps ==
  ASSUME IInv, Connect
  PROVE  IInv'
  <1>1. /\ pc = "idle" /\ reads = {} /\ tcp_socket_' = "live" /\ connects' = connects + 1
        /\ stream' = <<>> /\ arrived' = 0 /\ handled' = <<>> /\ stale' = (size > 0)
        /\ reads' = AsyncRead("ReadHandler", 0, H) /\ UNCHANGED <<size, pc, handler, header>>
    BY DEF Connect
  <1>2. size \in Nat /\ size' \in Nat /\ pc' = "idle"
    BY <1>1 DEF IInv, TypeOK
  <1>3. /\ reads' \subseteq Read /\ Single' /\ WaitingReads'
        /\ \A r \in reads' : r.handler = "ReadHandler"
    BY <1>1, <1>2, HeaderRead
  <1>4. TypeOK'
    <2>1. stale' \in BOOLEAN
      BY <1>1
    <2>2. stream' \in Seq(Message) /\ handled' \in Seq(Nat) /\ arrived' \in Nat
      BY <1>1
    <2>3. QED
      BY <1>1, <1>2, <1>3, <2>1, <2>2 DEF IInv, TypeOK
  <1>5. Len(stream') = 0 /\ Len(handled') = 0 /\ Written' = 0
    BY <1>1 DEF Written
  <1>6. Chain' /\ Handled'
    BY <1>1, <1>5 DEF Chain, Handled
  <1>7. Front' = 0 - size
    BY <1>1 DEF Front
  <1>s. stale' <=> size > 0
    BY <1>1, Zenon
  <1>8. ~stale' => AtBoundary'
    BY <1>s, <1>2, <1>5, <1>7 DEF AtBoundary, Boundary
  <1>9. stale' => Front' < 0
    BY <1>s, <1>2, <1>7
  <1>10. Aligned' /\ Bodies' /\ Stale' /\ InFrame' /\ WholeHeader'
    BY <1>1, <1>3, <1>8, <1>9 DEF Aligned, Bodies, Stale, InFrame, WholeHeader
  <1>11. QED
    BY <1>3, <1>4, <1>6, <1>10 DEF IInv

-----------------------------------------------------------------------------

(* IInv is inductive.                                                       *)
THEOREM Inductive == Spec => []IInv
  <1>1. Init => IInv
    <2> SUFFICES ASSUME Init PROVE IInv
      OBVIOUS
    <2>1. stale \in BOOLEAN
      BY DEF Init
    <2>2. TypeOK
      BY <2>1 DEF Init, TypeOK, Handlers
    <2>3. Chain /\ Handled /\ Single /\ WaitingReads /\ Aligned /\ Bodies /\ Stale /\ InFrame /\ WholeHeader
      BY DEF Init, Chain, Handled, Written, Single, WaitingReads, Aligned, Bodies, Stale, InFrame, WholeHeader
    <2>4. QED
      BY <2>2, <2>3 DEF IInv
  <1>2. IInv /\ [Next]_vars => IInv'
    <2> SUFFICES ASSUME IInv, [Next]_vars PROVE IInv'
      OBVIOUS
    <2>1. CASE UNCHANGED vars
      BY <2>1 DEF vars, netVars, parseVars, connVars, IInv, TypeOK, Chain, Handled, Single, WaitingReads,
        Waiting, Aligned, Bodies, Stale, InFrame, WholeHeader, AtBoundary, Boundary, InBody, Front,
        Written, End
    <2>2. CASE Next
      BY <2>2, ArrivesKeeps, ReadFailsKeeps, HandlerErrorKeeps, DisconnectKeeps, WritesKeeps, ReadHandlerKeeps,
        ReadHeaderKeeps, ReadGarbageKeeps, ReadRestKeeps, HandleMessageContentKeeps, CallbackReturnsKeeps,
        RequeueKeeps, ConnectKeeps
      DEF Next, Handler
    <2>3. QED
      BY <2>1, <2>2
  <1>3. QED
    BY <1>1, <1>2, PTL DEF Spec

(* The variables of RecvFraming keep their types.                           *)
THEOREM TypeCorrect == Spec => []TypeOK
  BY Inductive, PTL DEF IInv

(* Only headers the server wrote are read, but for a connection that began  *)
(* with bytes of an earlier one (client.cc:349-360).                        *)
THEOREM InFrameAlways == Spec => []InFrame
  BY Inductive, PTL DEF IInv

(* A header is never read from fewer bytes than it has.                     *)
THEOREM WholeHeaderAlways == Spec => []WholeHeader
  BY Inductive, PTL DEF IInv

(* One read on the socket, none while a handler runs.                       *)
THEOREM OneReadAlways == Spec => []OneRead
  <1>1. IInv => OneRead
    <2> SUFFICES ASSUME Single PROVE OneRead
      BY DEF IInv
    <2>1. CASE reads = {}
      BY <2>1, FS_EmptySet DEF OneRead
    <2>2. CASE reads # {}
      <3>1. PICK r \in reads : reads = {r}
        BY <2>2 DEF Single
      <3>2. Cardinality(reads) = 1
        BY <3>1, FS_Singleton
      <3>3. QED
        BY <3>2 DEF OneRead, Single
    <2>3. QED
      BY <2>1, <2>2
  <1>2. QED
    BY <1>1, Inductive, PTL

-----------------------------------------------------------------------------
(* RecvFraming implements Delivery.                                         *)

LEMMA EndsOfStream ==
  ASSUME stream \in Seq(Message)
  PROVE  /\ Ends \in Seq(Nat) /\ Len(Ends) = Len(stream) /\ (Ends = <<>> <=> stream = <<>>)
         /\ \A i \in 1..Len(stream) : Ends[i] = End(stream[i])
         /\ D!Written = Written
  <1>1. Len(stream) \in Nat /\ (stream = <<>> <=> Len(stream) = 0)
        /\ \A i \in 1..Len(stream) : End(stream[i]) \in Nat
    BY StreamFields
  <1>2. Ends \in [1..Len(stream) -> Nat]
    BY <1>1 DEF Ends
  <1>3. Ends \in Seq(Nat) /\ Len(Ends) = Len(stream)
    BY <1>1, <1>2, IsASeq, LenProperties, SeqDef
  <1>4. \A i \in 1..Len(stream) : Ends[i] = End(stream[i])
    BY DEF Ends
  <1>5. Ends = <<>> <=> stream = <<>>
    BY <1>1, <1>3
  <1>6. D!Written = Written
    <2>1. stream # <<>> => Len(stream) \in 1..Len(stream)
      BY <1>1
    <2>2. QED
      BY <1>3, <1>4, <1>5, <2>1 DEF D!Written, Written
  <1>7. QED
    BY <1>3, <1>4, <1>5, <1>6

LEMMA WritesImplements ==
  ASSUME IInv, NEW len \in Lens, Writes(len)
  PROVE  D!Write
  <1> DEFINE e == Written + H + len
  <1>1. /\ stream' \in Seq(Message) /\ Len(stream') = Len(stream) + 1
        /\ \A i \in 1..Len(stream) : stream'[i] = stream[i]
        /\ stream'[Len(stream) + 1] = [start |-> Written, len |-> len]
    BY StreamGrows DEF IInv, Writes
  <1>2. stream \in Seq(Message) /\ Len(stream) \in Nat /\ Written \in Nat /\ len \in Nat
    BY StreamFields DEF IInv, TypeOK
  <1>3. e \in Nat /\ e > Written /\ End([start |-> Written, len |-> len]) = e
    BY <1>2 DEF End
  <1> HIDE DEF e
  <1>4. /\ Ends \in Seq(Nat) /\ Len(Ends) = Len(stream) /\ D!Written = Written
        /\ \A i \in 1..Len(stream) : Ends[i] = End(stream[i])
    BY <1>2, EndsOfStream
  <1>5. Ends' = [i \in 1..(Len(stream) + 1) |-> End(stream'[i])]
    BY <1>1 DEF Ends, End
  <1>6. /\ Append(Ends, e) \in Seq(Nat) /\ Len(Append(Ends, e)) = Len(stream) + 1
        /\ \A i \in 1..Len(stream) : Append(Ends, e)[i] = Ends[i]
        /\ Append(Ends, e)[Len(stream) + 1] = e
    BY <1>3, <1>4, AppendProperties
  <1>7. Ends' = Append(Ends, e)
    <2>1. Append(Ends, e) = [i \in 1..(Len(stream) + 1) |-> Append(Ends, e)[i]]
      BY <1>6, LenProperties
    <2>2. ASSUME NEW i \in 1..(Len(stream) + 1) PROVE End(stream'[i]) = Append(Ends, e)[i]
      <3>1. i \in 1..Len(stream) \/ i = Len(stream) + 1
        BY <1>2
      <3>2. CASE i \in 1..Len(stream)
        BY <1>1, <1>4, <1>6, <3>2
      <3>3. CASE i = Len(stream) + 1
        BY <1>1, <1>3, <1>6, <3>3
      <3>4. QED
        BY <3>1, <3>2, <3>3
    <2>3. [i \in 1..(Len(stream) + 1) |-> End(stream'[i])] = [i \in 1..(Len(stream) + 1) |-> Append(Ends, e)[i]]
      BY <2>2
    <2>4. QED
      BY <1>5, <2>1, <2>3
  <1>8. UNCHANGED <<arrived, handled>>
    BY DEF Writes, parseVars
  <1>9. QED
    BY <1>3, <1>4, <1>6, <1>7, <1>8 DEF D!Write

(* Every step delivers as Delivery says, or does nothing it sees.           *)
LEMMA StepImplements ==
  ASSUME IInv, [Next]_vars
  PROVE  [D!Next]_(D!vars)
  <1>1. CASE UNCHANGED <<stream, arrived, handled>>
    BY <1>1 DEF Ends, End, D!vars
  <1>2. ASSUME NEW r \in reads, NEW n \in 1..ReadMax, Arrives(r, n) PROVE D!Arrive
    <2>1. arrived' = arrived + n /\ arrived + n <= Written /\ UNCHANGED <<stream, handled>>
      BY <1>2 DEF Arrives, parseVars
    <2>2. arrived \in Nat /\ Written \in Nat /\ D!Written = Written
      BY StreamFields, EndsOfStream DEF IInv, TypeOK
    <2>3. arrived' \in (arrived + 1)..Written
      BY <2>1, <2>2
    <2>4. QED
      BY <2>1, <2>2, <2>3 DEF D!Arrive, Ends, End
  <1>3. ASSUME NEW len \in Lens, Writes(len) PROVE D!Write
    BY <1>3, WritesImplements
  <1>4. CASE HandleMessageContent
    <2>1. /\ handled' = Append(handled, Len(handled) + 1) /\ Len(handled) + 1 \in 1..Len(stream)
          /\ End(stream[Len(handled) + 1]) <= arrived /\ UNCHANGED <<stream, arrived>>
      BY <1>4, MessageHandled
    <2>2. Len(Ends) = Len(stream) /\ \A i \in 1..Len(stream) : Ends[i] = End(stream[i])
      BY EndsOfStream DEF IInv, TypeOK
    <2>3. Len(handled) + 1 <= Len(stream)
      BY <2>1 DEF IInv, TypeOK
    <2>4. D!Handle
      BY <2>1, <2>2, <2>3 DEF D!Handle, Ends, End
    <2>5. QED
      BY <2>4 DEF D!Next
  <1>5. CASE Connect
    <2>1. stream' = <<>> /\ arrived' = 0 /\ handled' = <<>>
      BY <1>5 DEF Connect
    <2>2. Ends' = <<>>
      BY <2>1 DEF Ends
    <2>3. QED
      BY <2>1, <2>2 DEF D!Restart, D!Next
  <1>6. CASE Next /\ ~(\E r \in reads : \E n \in 1..ReadMax : Arrives(r, n))
             /\ ~(\E len \in Lens : Writes(len)) /\ ~HandleMessageContent /\ ~Connect
    <2>1. UNCHANGED <<stream, arrived, handled>>
      BY <1>6 DEF Next, Handler, HandlerError, ReadHandler, ReadHandlerContinue, ReadHeader, ReadGarbage,
        ReadRest, CallbackReturns, Requeue, ReadFails, Disconnect, netVars, parseVars
    <2>2. QED
      BY <1>1, <2>1
  <1>7. QED
    BY <1>1, <1>2, <1>3, <1>4, <1>5, <1>6 DEF D!Next, vars, netVars, parseVars

(* The handlers of client.cc deliver every message of the stream in order,  *)
(* once, and only when all of it is there (ReadHandler, ReadHandlerContinue  *)
(* and HandleMessageContent, client.cc:326-379).                            *)
THEOREM DeliveryImplemented == Spec => DeliverySpec
  <1>1. Init => D!Init
    BY DEF Init, D!Init, Ends
  <1>2. IInv /\ [Next]_vars => [D!Next]_(D!vars)
    BY StepImplements
  <1>3. QED
    BY <1>1, <1>2, Inductive, PTL DEF Spec, DeliverySpec, D!Spec

-----------------------------------------------------------------------------
(* What may lie in the buffer while the client waits.                       *)

Lag ==
  ~stale =>
    /\ \A r \in reads : ~r.error =>
         IF r.handler = "ReadHandler" THEN size - r.got < ReadMax ELSE r.got - r.need < ReadMax
    /\ handler = "ReadHandlerContinue" =>
         /\ pc = "content" => size - stream[header].len < ReadMax
         /\ pc = "callback" => size < ReadMax
    /\ pc = "requeue" => size < ReadMax

LEMMA LagStep ==
  ASSUME H <= ReadMax, IInv, Lag, [Next]_vars
  PROVE  Lag'
  <1>t. TypeOK /\ Single /\ reads \subseteq Read /\ size \in Nat
    BY DEF IInv, TypeOK
  <1>1. ASSUME NEW r \in reads, NEW n \in 1..ReadMax, Arrives(r, n) PROVE Lag'
    <2> DEFINE u == [r EXCEPT !.got = @ + n]
    <2>1. /\ reads' = {u} /\ size' = size + n /\ ~r.error /\ r.got < r.need /\ pc = "idle" /\ pc' = "idle"
          /\ stale' = stale /\ r \in Read /\ n \in Nat /\ n <= ReadMax
      BY <1>t, <1>1 DEF Arrives, Single, connVars
    <2>2. /\ u.got = r.got + n /\ u.error = r.error /\ u.handler = r.handler /\ u.need = r.need
          /\ r.got \in Nat /\ r.need \in Int
      BY <2>1, GotRead, ReadFields
    <2> HIDE DEF u
    <2>3. ASSUME ~stale
          PROVE  IF u.handler = "ReadHandler" THEN size' - u.got < ReadMax ELSE u.got - u.need < ReadMax
      <3>1. IF r.handler = "ReadHandler" THEN size - r.got < ReadMax ELSE r.got - r.need < ReadMax
        BY <2>1, <2>3 DEF Lag
      <3>2. size' - u.got = size - r.got /\ u.got - u.need < ReadMax
        BY <1>t, <2>1, <2>2
      <3>3. QED
        BY <2>2, <3>1, <3>2
    <2>4. QED
      BY <2>1, <2>3 DEF Lag
  <1>2. CASE UNCHANGED <<stream, size, pc, handler, header, stale>> /\ \A s \in reads' : ~s.error => s \in reads
    BY <1>2 DEF Lag
  <1>3. ASSUME NEW r \in reads, ReadFails(r) PROVE Lag'
    <2> DEFINE u == [r EXCEPT !.error = TRUE]
    <2>1. reads' = {u} /\ u.error = TRUE
      BY <1>t, <1>3, EndedRead DEF ReadFails, Single
    <2> HIDE DEF u
    <2>2. QED
      BY <1>2, <1>3, <2>1 DEF ReadFails, netVars, parseVars, connVars
  <1>4. ASSUME NEW r \in reads, HandlerError(r) PROVE Lag'
    BY <1>2, <1>4 DEF HandlerError, netVars, parseVars, connVars
  <1>5. CASE Disconnect
    <2>1. ASSUME NEW s \in reads', ~s.error PROVE s \in reads
      <3>1. PICK r \in reads : s = [r EXCEPT !.error = ~Completed(r)]
        BY <1>5 DEF Disconnect
      <3>2. r \in Read /\ (~Completed(r)) \in BOOLEAN
        BY <1>t
      <3>3. s.error = ~Completed(r)
        BY <3>1, <3>2, EndedRead
      <3>4. Completed(r)
        BY <2>1, <3>3
      <3>5. r.error = FALSE /\ s = [r EXCEPT !.error = FALSE]
        BY <3>1, <3>2, <3>4 DEF Completed, Read
      <3>6. QED
        BY <3>2, <3>5 DEF Read
    <2>2. QED
      BY <1>2, <1>5, <2>1 DEF Disconnect, netVars, parseVars
  <1>6. ASSUME NEW len \in Lens, Writes(len) PROVE Lag'
    <2>1. UNCHANGED <<arrived, size, reads, pc, handler, header, handled, stale>>
      BY <1>6 DEF Writes, parseVars, connVars
    <2>2. \A i \in 1..Len(stream) : stream'[i] = stream[i]
      BY <1>6, StreamGrows DEF IInv, Writes
    <2>3. pc = "content" => header \in 1..Len(stream)
      BY BodyReady
    <2>4. QED
      BY <2>1, <2>2, <2>3 DEF Lag
  <1>7. ASSUME NEW r \in reads, ReadHandler(r) PROVE Lag'
    <2>1. reads' = {} /\ pc' = "header" /\ stale' = stale
      BY <1>t, <1>7 DEF ReadHandler, Single, connVars
    <2>2. QED
      BY <2>1 DEF Lag
  <1>8. ASSUME NEW r \in reads, ReadHandlerContinue(r) PROVE Lag'
    <2>1. /\ reads' = {} /\ pc' = "content" /\ header' = r.header /\ UNCHANGED <<stream, size, stale>>
          /\ r.handler = "ReadHandlerContinue" /\ ~r.error
      BY <1>t, <1>8 DEF ReadHandlerContinue, Single, Completed, netVars, connVars
    <2>2. size - r.got = stream[r.header].len - r.need /\ InBody(r.header)
      BY <2>1 DEF IInv, WaitingReads, Waiting
    <2>3. r.got \in Nat /\ r.need \in Int /\ r.header \in Nat
      BY <1>t, ReadFields
    <2>4. stream[r.header].len \in Nat
      <3>1. r.header \in 1..Len(stream)
        BY <1>t, <2>2, <2>3 DEF InBody, TypeOK
      <3>2. QED
        BY <1>t, <3>1, StreamFields DEF TypeOK
    <2>5. ~stale => r.got - r.need < ReadMax
      BY <2>1 DEF Lag
    <2>6. ~stale => size - stream[r.header].len < ReadMax
      BY <1>t, <2>2, <2>3, <2>4, <2>5
    <2>7. QED
      BY <2>1, <2>6 DEF Lag
  <1>9. CASE ReadGarbage \/ \E k \in 1..Len(stream) : ReadHeader(k)
    <2>1. pc = "header" /\ pc' \in {"garbage", "assert", "content"} /\ reads' = reads /\ handler' = handler /\ stale' = stale
      BY <1>9 DEF ReadGarbage, ReadHeader, parseVars, connVars
    <2>2. reads = {} /\ handler = "ReadHandler"
      BY <2>1, HeaderReady
    <2>3. QED
      BY <2>1, <2>2 DEF Lag
  <1>10. CASE ReadRest
    <2>1. /\ pc = "content" /\ size < stream[header].len /\ stale' = stale /\ handler' = handler
          /\ pc' = IF handler = "ReadHandler" THEN "idle" ELSE "requeue"
          /\ reads' = (IF tcp_socket_ = "live"
                        THEN AsyncRead("ReadHandlerContinue", header, Rest(stream[header].len)) ELSE reads)
      BY <1>10 DEF ReadRest, Incomplete, parseVars, connVars
    <2>2. reads = {} /\ header \in 1..Len(stream) /\ stream[header].len \in Nat
          /\ (handler = "ReadHandlerContinue" => size >= stream[header].len)
      BY <2>1, BodyReady
    <2>3. handler # "ReadHandlerContinue"
      BY <1>t, <2>1, <2>2
    <2>4. pc' = "idle"
      BY <1>t, <2>1, <2>3 DEF TypeOK, Handlers
    <2>5. PICK q : q = [handler |-> "ReadHandlerContinue", header |-> header,
                        need |-> Rest(stream[header].len), got |-> 0, error |-> FALSE]
      OBVIOUS
    <2>6. Rest(stream[header].len) \in Int /\ 0 - Rest(stream[header].len) < ReadMax /\ header \in Nat
      BY <1>t, <2>1, <2>2 DEF Rest
    <2>7. q.handler = "ReadHandlerContinue" /\ q.got = 0 /\ q.need = Rest(stream[header].len)
      BY <2>5
    <2>8. reads' \subseteq {q}
      BY <2>1, <2>2, <2>5 DEF AsyncRead
    <2>9. QED
      BY <2>1, <2>3, <2>4, <2>6, <2>7, <2>8 DEF Lag
  <1>11. CASE HandleMessageContent
    <2>1. /\ pc = "content" /\ size' = size - stream[header].len /\ pc' = "callback" /\ UNCHANGED <<handler, stale, reads>>
      BY <1>11 DEF HandleMessageContent, Takes, connVars
    <2>2. reads = {}
      BY <2>1, BodyReady
    <2>3. QED
      BY <2>1, <2>2 DEF Lag
  <1>12. CASE CallbackReturns
    <2>1. /\ pc = "callback" /\ UNCHANGED <<size, handler, stale, reads>> /\ pc' \in {"header", "requeue"}
          /\ pc' = "requeue" => handler # "ReadHandler" \/ ~(size >= H)
      BY <1>12 DEF CallbackReturns, MoreMessages, parseVars, connVars
    <2>2. reads = {} /\ handler \in Handlers
      BY <1>t, <2>1 DEF Single, TypeOK
    <2>3. ASSUME ~stale, pc' = "requeue" PROVE size < ReadMax
      <3>1. CASE handler = "ReadHandlerContinue"
        BY <2>1, <2>3, <3>1 DEF Lag
      <3>2. CASE ~(size >= H)
        BY <1>t, <3>2
      <3>3. QED
        BY <2>1, <2>2, <2>3, <3>1, <3>2 DEF Handlers
    <2>4. QED
      BY <2>1, <2>2, <2>3 DEF Lag
  <1>13. CASE Requeue \/ Connect
    <2>1. /\ pc' = "idle" /\ size' = size /\ (reads' = AsyncRead("ReadHandler", 0, H) \/ reads' = reads)
          /\ reads = {}
      BY <1>t, <1>13 DEF Requeue, Connect, Single
    <2>2. ~stale' => size < ReadMax
      <3>1. CASE Requeue
        BY <3>1 DEF Requeue, Lag, connVars
      <3>2. CASE Connect
        <4>1. stale' <=> size > 0
          BY <3>2, Zenon DEF Connect
        <4>2. QED
          BY <1>t, <4>1
      <3>3. QED
        BY <1>13, <3>1, <3>2
    <2>3. \A r \in reads' : r.handler = "ReadHandler" /\ r.got = 0
      BY <2>1, NewRead DEF AsyncRead, Handlers
    <2>4. QED
      BY <1>t, <2>1, <2>2, <2>3 DEF Lag
  <1>14. CASE UNCHANGED vars
    BY <1>2, <1>14 DEF vars, netVars, parseVars, connVars
  <1>15. QED
    BY <1>1, <1>3, <1>4, <1>5, <1>6, <1>7, <1>8, <1>9, <1>10, <1>11, <1>12, <1>13, <1>14 DEF Next, Handler

(* A read_some that can bring a header is all the bound on the buffer needs. *)
THEOREM LagBoundAlways == H <= ReadMax => (Spec => []LagBound)
  <1> SUFFICES ASSUME H <= ReadMax PROVE Spec => []LagBound
    OBVIOUS
  <1>1. Init => Lag
    BY DEF Init, Lag
  <1>2. IInv /\ Lag /\ [Next]_vars => Lag'
    BY LagStep
  <1>3. IInv /\ Lag => LagBound
    <2> SUFFICES ASSUME IInv, Lag, ~stale,
                        NEW r \in reads, r.handler = "ReadHandler", ~r.error, ~Completed(r)
                 PROVE  size < ReadMax + H - 1
      BY DEF LagBound
    <2>1. r.got \in Nat /\ r.need = H /\ size \in Nat
      BY ReadFields DEF IInv, TypeOK, WaitingReads, Waiting
    <2>2. ~(r.got >= r.need)
      BY DEF Completed
    <2>3. size - r.got < ReadMax
      BY DEF Lag
    <2>4. QED
      BY <2>1, <2>2, <2>3
  <1>4. QED
    BY <1>1, <1>2, <1>3, Inductive, PTL DEF Spec

=============================================================================
