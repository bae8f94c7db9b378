-------------------------------- MODULE Relay --------------------------------
(***************************************************************************)
(* The relay of the sample application (main.cc:277-309), set up as main's  *)
(* commented lines 328-331 have it: the thread of the event loop queues      *)
(* every voice packet of one connection, and the relay thread sends it on    *)
(* the other.  relay_queue is guarded by mut, and cond tells of a new        *)
(* message; nothing guards the other connection's send_queue_, which the     *)
(* relay thread and the event loop both use.                                 *)
(*                                                                           *)
(* async_write is given the buffers of the message at the front, and when it *)
(* completes, the front is popped and freed, whatever message it is by then. *)
(*                                                                           *)
(* The callback holds mut for one push and is one step there.  A deque       *)
(* operation is one step; that two of them at once may do worse is left out, *)
(* and so are the bytes of two outstanding writes, which may mix.  The       *)
(* connection is up and authenticated throughout.                            *)
(***************************************************************************)
EXTENDS Integers, SequencesExt

CONSTANTS
  MaxRelayed,  (* voice packets received                                    *)
  MaxPings     (* messages the event loop queues itself                     *)

ASSUME ConstantsAssumption == MaxRelayed \in Nat /\ MaxPings \in Nat

VARIABLES
  relay_queue,  (* packets, numbered as they are received                   *)
  locked,       (* the relay thread holds mut                               *)
  thread,       (* where the relay thread is                                *)
  busy,         (* its write_in_progress                                    *)
  loop,         (* where the event loop is                                  *)
  loopBusy,     (* its write_in_progress                                    *)
  send_queue_,  (* of the other connection; the k-th message of the loop is -k *)
  writes,       (* its outstanding async_writes: the message each one carries *)
  crashed,      (* an empty send_queue_ was popped or its front sent, or a   *)
                (* write read a message after it was freed                   *)
  received,     (* number of packets received                               *)
  pings,        (* number of messages of the loop                           *)
  wire,         (* history: messages given to async_write                   *)
  popped,       (* history: messages popped from send_queue_                *)
  raced         (* history: both threads were using send_queue_             *)

relayVars == <<relay_queue, locked, thread>>
sendVars == <<send_queue_, writes, crashed, wire, popped>>
vars == <<relayVars, busy, loop, loopBusy, sendVars, received, pings, raced>>

Init ==
  /\ relay_queue = <<>> /\ locked = FALSE /\ thread = "start" /\ busy = FALSE
  /\ loop = "idle" /\ loopBusy = FALSE
  /\ send_queue_ = <<>> /\ writes = <<>> /\ crashed = FALSE /\ wire = <<>> /\ popped = <<>>
  /\ received = 0 /\ pings = 0 /\ raced = FALSE

RelaySends == thread \in {"append", "write"}
LoopSends == loop \in {"completed", "append", "write"}

----------------------------------------------------------------------------
(* The event loop.                                                          *)

(* RelayTunnelCallback: push_back under the lock, then notify_all.          *)
Push ==
  /\ ~crashed /\ loop = "idle" /\ received < MaxRelayed /\ ~locked
  /\ received' = received + 1
  /\ relay_queue' = Append(relay_queue, received')
  /\ loop' = "notify"
  /\ UNCHANGED <<locked, thread, busy, loopBusy, sendVars, pings, raced>>

NobodyNotified == thread
Notified == IF thread = "waiting" THEN "woken" ELSE thread
Notify ==
  /\ ~crashed /\ loop = "notify"
  /\ thread' = Notified
  /\ loop' = "idle"
  /\ UNCHANGED <<relay_queue, locked, busy, loopBusy, sendVars, received, pings, raced>>

(* SendFirstQueued, if start: the message at the front goes to async_write.  *)
SendFirstQueued(start) ==
  \/ ~start /\ UNCHANGED <<writes, wire, crashed>>
  \/ start /\ send_queue_ = <<>> /\ crashed' = TRUE /\ UNCHANGED <<writes, wire>>
  \/ /\ start /\ send_queue_ # <<>>
     /\ writes' = Append(writes, Head(send_queue_))
     /\ wire' = Append(wire, Head(send_queue_))
     /\ UNCHANGED crashed

(* ProcessTCPSendQueue, when the i-th of the writes is done: pop_front frees *)
(* the front, and another write that carries it reads what is freed, with    *)
(* any outcome; then the next write if there is one.                         *)
PopFront ==
  /\ send_queue_ # <<>>
  /\ popped' = Append(popped, Head(send_queue_))
  /\ send_queue_' = Tail(send_queue_)
Complete(i) ==
  /\ ~crashed /\ loop = "idle"
  /\ loop' = "completed"
  /\ writes' = RemoveAt(writes, i)
  /\ \/ send_queue_ = <<>> /\ crashed' = TRUE /\ UNCHANGED <<send_queue_, popped>>
     \/ /\ PopFront
        /\ crashed' \in BOOLEAN /\ (crashed' => Head(send_queue_) \in ToSet(writes'))
  /\ raced' = (raced \/ RelaySends)
  /\ UNCHANGED <<relayVars, busy, loopBusy, wire, received, pings>>
SendNext ==
  /\ ~crashed /\ loop = "completed"
  /\ SendFirstQueued(send_queue_ # <<>>)
  /\ loop' = "idle"
  /\ UNCHANGED <<relayVars, busy, loopBusy, send_queue_, popped, received, pings, raced>>

(* SendMessage, for instance of a ping. *)
PingStarts ==
  /\ ~crashed /\ loop = "idle" /\ pings < MaxPings
  /\ pings' = pings + 1
  /\ loopBusy' = (send_queue_ # <<>>)
  /\ loop' = "append"
  /\ raced' = (raced \/ RelaySends)
  /\ UNCHANGED <<relayVars, busy, sendVars, received>>
PingAppends ==
  /\ ~crashed /\ loop = "append"
  /\ send_queue_' = Append(send_queue_, -pings)
  /\ loop' = "write"
  /\ UNCHANGED <<relayVars, busy, loopBusy, writes, crashed, wire, popped, received, pings, raced>>
PingWrites ==
  /\ ~crashed /\ loop = "write"
  /\ SendFirstQueued(~loopBusy)
  /\ loop' = "idle"
  /\ UNCHANGED <<relayVars, busy, loopBusy, send_queue_, popped, received, pings, raced>>

----------------------------------------------------------------------------
(* RelayThread.                                                             *)

(* The lock is taken at the start and by wait before it returns.            *)
Lock ==
  /\ ~crashed /\ thread \in {"start", "woken"} /\ ~locked
  /\ locked' = TRUE
  /\ thread' = "test"
  /\ UNCHANGED <<relay_queue, busy, loop, loopBusy, sendVars, received, pings, raced>>

(* while (relay_queue.empty()) cond.wait(lock), which gives the lock back.  *)
LockedInWait == FALSE
Wait ==
  /\ ~crashed /\ thread = "test" /\ relay_queue = <<>>
  /\ thread' = "waiting"
  /\ locked' = LockedInWait
  /\ UNCHANGED <<relay_queue, busy, loop, loopBusy, sendVars, received, pings, raced>>

(* wait may return without a notification. *)
WakeSpuriously ==
  /\ ~crashed /\ thread = "waiting"
  /\ thread' = "woken"
  /\ UNCHANGED <<relay_queue, locked, busy, loop, loopBusy, sendVars, received, pings, raced>>

(* SendRawUdpTunnel in its three uses of send_queue_, the lock held.        *)
SendStarts ==
  /\ ~crashed /\ thread = "test" /\ relay_queue # <<>>
  /\ busy' = (send_queue_ # <<>>)
  /\ thread' = "append"
  /\ raced' = (raced \/ LoopSends)
  /\ UNCHANGED <<relay_queue, locked, loop, loopBusy, sendVars, received, pings>>
SendAppends ==
  /\ ~crashed /\ thread = "append"
  /\ send_queue_' = Append(send_queue_, Head(relay_queue))
  /\ thread' = "write"
  /\ UNCHANGED <<relay_queue, locked, busy, loop, loopBusy, writes, crashed, wire, popped,
                 received, pings, raced>>

AnyTime == TRUE
StartsWrite == ~busy
SendWrites ==
  /\ ~crashed /\ thread = "write"
  /\ SendFirstQueued(StartsWrite)
  /\ thread' = "pop"
  /\ UNCHANGED <<relay_queue, locked, busy, loop, loopBusy, send_queue_, popped, received,
                 pings, raced>>

WithoutLast == SubSeq(relay_queue, 1, Len(relay_queue) - 1)
Popped == Tail(relay_queue)
Pop ==
  /\ ~crashed /\ thread = "pop"
  /\ relay_queue' = Popped
  /\ thread' = "test"
  /\ UNCHANGED <<locked, busy, loop, loopBusy, sendVars, received, pings, raced>>

----------------------------------------------------------------------------
LoopNext == SendNext \/ PingAppends \/ PingWrites \/ Notify
ThreadNext == Lock \/ Wait \/ SendStarts \/ SendAppends \/ SendWrites \/ Pop
WriteNext == \E i \in 1..Len(writes) : Complete(i)
Next == Push \/ WriteNext \/ PingStarts \/ LoopNext \/ ThreadNext \/ WakeSpuriously

Spec == Init /\ [][Next]_vars

(* Both threads run, and writes complete. *)
FairSpec == Spec /\ WF_vars(LoopNext) /\ WF_vars(WriteNext) /\ WF_vars(ThreadNext)

----------------------------------------------------------------------------
TypeOK ==
  /\ relay_queue \in Seq(1..MaxRelayed)
  /\ locked \in BOOLEAN /\ (locked <=> thread \in {"test", "append", "write", "pop"})
  /\ thread \in {"start", "woken", "test", "waiting", "append", "write", "pop"}
  /\ loop \in {"idle", "notify", "completed", "append", "write"}
  /\ busy \in BOOLEAN /\ loopBusy \in BOOLEAN /\ crashed \in BOOLEAN /\ raced \in BOOLEAN
  /\ {send_queue_, writes, wire, popped} \subseteq Seq(-MaxPings..MaxRelayed)
  /\ received \in 0..MaxRelayed /\ pings \in 0..MaxPings

(* The relay thread never sleeps over a message: it waits for cond with a    *)
(* message in the queue only while the callback is about to notify it.       *)
NoLostWakeup == thread = "waiting" /\ relay_queue # <<>> => loop = "notify"

(* s has the packets 1..n, each once and in this order, and messages of the  *)
(* loop anywhere.                                                            *)
InOrder(s, n) ==
  /\ {s[i] : i \in 1..Len(s)} \cap Nat = 1..n
  /\ \A i, j \in 1..Len(s) : i < j /\ s[j] \in Nat => s[i] < s[j]

(* What the relay thread has still to queue for the socket, and what of the  *)
(* socket's queue has still to go to async_write.                            *)
Unsent ==
  IF thread \in {"write", "pop"} THEN Tail(relay_queue) ELSE relay_queue
Ungiven == SubSeq(send_queue_, Len(writes) + 1, Len(send_queue_))
Doubled == \E i, j \in 1..Len(wire) : i < j /\ wire[i] = wire[j]

(* No packet is given to async_write after a newer one.  And every packet is *)
(* given to it once or is still waiting for that, in the order they came:    *)
(* one can be lost, popped without ever having been given, only if before it *)
(* another message was given twice, and that happens only when both threads  *)
(* were using send_queue_.                                                   *)
RelayedInOrder ==
  /\ \A i, j \in 1..Len(wire) : i < j /\ wire[j] \in Nat => wire[i] <= wire[j]
  /\ InOrder(wire \o Ungiven \o Unsent, received) \/ (raced /\ Doubled)

(* As long as the threads did not use send_queue_ at the same time, there is *)
(* one write for a queue that is not empty, of its front, and none for an    *)
(* empty one.                                                                *)
WritesUnlessRaced ==
  ~raced =>
    /\ ~crashed
    /\ \A i \in 1..Len(writes) : i = 1 /\ send_queue_ # <<>> /\ writes[i] = Head(send_queue_)
    /\ ~RelaySends /\ ~LoopSends => (writes # <<>> <=> send_queue_ # <<>>)

(* Every packet comes out: the relay thread takes each one, and it is given  *)
(* to async_write and that completes, unless the two threads met in          *)
(* send_queue_.                                                              *)
Written(i) == i \in ToSet(wire) \ ToSet(send_queue_)
RelayProgress ==
  \A i \in 1..MaxRelayed :
    /\ received >= i ~> (Len(Unsent) <= received - i \/ crashed)
    /\ received >= i ~> (Written(i) \/ raced)
=============================================================================
