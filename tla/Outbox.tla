------------------------------- MODULE Outbox -------------------------------
(***************************************************************************)
(* What the sending side of a control connection promises: while the         *)
(* connection is open the socket is given the messages in the order in      *)
(* which they were queued, each once, and none is lost, whatever fails       *)
(* meanwhile; a closed connection is given nothing.  MumbleClient shows     *)
(* that the send queue and the handlers of client.cc implement this.         *)
(***************************************************************************)
EXTENDS Naturals, Sequences

VARIABLES
  open,      (* there is a socket                                           *)
  waiting,   (* messages queued and not yet given to the socket             *)
  wire       (* messages given to the socket since it was opened            *)

vars == <<open, waiting, wire>>

Init == open = FALSE /\ waiting = <<>> /\ wire = <<>>

(* More messages wait behind those that do.                                 *)
Grows ==
  /\ Len(waiting') >= Len(waiting)
  /\ \A i \in 1..Len(waiting) : waiting'[i] = waiting[i]

Queue == Grows /\ UNCHANGED <<open, wire>>

(* The message that waited longest is given to the socket.                  *)
Give ==
  /\ open /\ waiting # <<>>
  /\ wire' = Append(wire, Head(waiting)) /\ waiting' = Tail(waiting)
  /\ UNCHANGED open

(* A message that finds nothing waiting is given to the socket at once.     *)
Send ==
  /\ open /\ waiting = <<>>
  /\ Len(wire') = Len(wire) + 1 /\ wire' = Append(wire, wire'[Len(wire) + 1])
  /\ UNCHANGED <<open, waiting>>

(* A socket is opened, and again only if it was not given anything.         *)
Open ==
  /\ open => wire = <<>>
  /\ open'
  /\ \/ wire' = <<>> /\ Grows
     \/ Len(wire') = 1 /\ waiting = <<>>

(* Closing drops what waits.                                                *)
Close == open /\ open' = FALSE /\ waiting' = <<>> /\ wire' = wire

(* What is queued on a closed connection may be lost.                       *)
Lose ==
  /\ ~open /\ waiting # <<>> /\ waiting' = Tail(waiting)
  /\ UNCHANGED <<open, wire>>

Next == Queue \/ Give \/ Send \/ Open \/ Close \/ Lose

Spec == Init /\ [][Next]_vars

=============================================================================
