------------------------------ MODULE Delivery ------------------------------
(***************************************************************************)
(* What the receiving side of a control connection promises: the messages   *)
(* the server wrote are handled in the order of the stream, each once, and  *)
(* none before its last byte has arrived.  doc/tcp-protocol.txt gives the    *)
(* layout, RecvFraming shows that the handlers of client.cc implement this.  *)
(***************************************************************************)
EXTENDS Naturals, Sequences

VARIABLES
  ends,      (* the stream position after each message the server wrote     *)
  arrived,   (* bytes that have come in                                      *)
  handled    (* numbers of the messages handled                              *)

vars == <<ends, arrived, handled>>

Init == ends = <<>> /\ arrived = 0 /\ handled = <<>>

Written == IF ends = <<>> THEN 0 ELSE ends[Len(ends)]

Write ==
  LET end == ends'[Len(ends) + 1] IN
  /\ Len(ends') = Len(ends) + 1
  /\ ends' = Append(ends, end) /\ end > Written
  /\ UNCHANGED <<arrived, handled>>

Arrive ==
  /\ arrived' \in (arrived + 1)..Written
  /\ UNCHANGED <<ends, handled>>

Handle ==
  LET next == Len(handled) + 1 IN
  /\ next <= Len(ends) /\ ends[next] <= arrived
  /\ handled' = Append(handled, next)
  /\ UNCHANGED <<ends, arrived>>

(* A new connection is a new stream.                                        *)
Restart == ends' = <<>> /\ arrived' = 0 /\ handled' = <<>>

Next == Write \/ Arrive \/ Handle \/ Restart

Spec == Init /\ [][Next]_vars

=============================================================================
