------------------------------- MODULE Roster -------------------------------
(***************************************************************************)
(* The client's lists of channels and users (client.cc:176-281) against the *)
(* server's.  The server announces its channels and users when the client   *)
(* connects and every change afterwards; the messages are handled in order,  *)
(* from inbox (recv_buffer_ and the network).  Channels are objects: a user  *)
(* and a child channel hold a weak pointer to theirs, which is null once the *)
(* object has left channel_list_, also when its id is in use again.          *)
(*                                                                           *)
(* The server is Murmur: channel 0 is the root, a channel is announced after *)
(* its parent, and is removed when it has no children and after its users    *)
(* have been moved to its parent.                                            *)
(***************************************************************************)
EXTENDS Naturals, Sequences, FiniteSets

CONSTANTS
  Sessions,   (* sessions of users                                          *)
  Ids,        (* ids of channels besides the root                           *)
  MaxEvents,  (* changes at the server                                      *)
  MaxConnect  (* calls of Connect                                           *)

ASSUME ConstantsAssumption ==
  /\ IsFiniteSet(Sessions) /\ IsFiniteSet(Ids) /\ Ids \subseteq Nat \ {0}
  /\ MaxEvents \in Nat /\ MaxConnect \in Nat

VARIABLES
  channels,      (* the server's channels: id -> id of the parent           *)
  users,         (* the server's users: session -> id of the channel        *)
  inbox,         (* messages sent to the client and not handled yet         *)
  channel_list_, (* objects [obj, id, parent]                               *)
  user_list_,    (* objects [session, channel]                              *)
  connected,     (* the client has a connection                             *)
  fault,         (* how the process died, "none" while it lives             *)
  made,          (* Channel objects made, it numbers them                   *)
  events,        (* history: changes at the server                          *)
  connects,      (* history: calls of Connect                               *)
  stale,         (* history: Connect found old messages or lists            *)
  reparented     (* history: the server moved a channel                     *)

serverVars == <<channels, users, events, reparented>>
listVars == <<channel_list_, user_list_, made, fault>>
connVars == <<connected, connects, stale>>
vars == <<serverVars, inbox, listVars, connVars>>

Root == 0
Null == 0      (* the null weak pointer; objects are numbered from 1        *)
Unset == {}    (* channel of a UserState without channel_id, else a {id}   *)

ChannelState(id, parent) == [type |-> "ChannelState", id |-> id, parent |-> parent]
ChannelRemove(id) == [type |-> "ChannelRemove", id |-> id]
UserState(s, opt) == [type |-> "UserState", session |-> s, channel |-> opt]
UserRemove(s) == [type |-> "UserRemove", session |-> s]

Init ==
  /\ channels = [id \in {Root} |-> Root] /\ users = [s \in {} |-> Root]
  /\ inbox = <<>> /\ channel_list_ = {} /\ user_list_ = {}
  /\ connected = FALSE /\ fault = "none" /\ made = 0
  /\ events = 0 /\ connects = 0 /\ stale = FALSE /\ reparented = FALSE

-----------------------------------------------------------------------------
(* The server.                                                              *)

Extend(f, x, y) == [z \in DOMAIN f \cup {x} |-> IF z = x THEN y ELSE f[z]]
Without(f, x) == [z \in DOMAIN f \ {x} |-> f[z]]

(* A change, announced to the client if it is connected.                    *)
Event(msgs) ==
  /\ events < MaxEvents /\ events' = events + 1
  /\ inbox' = IF connected THEN inbox \o msgs ELSE inbox
  /\ UNCHANGED <<listVars, connVars>>

UserEnters(s, id) ==
  /\ id \in DOMAIN channels
  /\ users' = Extend(users, s, id)
  /\ Event(<<UserState(s, {id})>>)
  /\ UNCHANGED <<channels, reparented>>

UserComments(s) ==
  /\ s \in DOMAIN users
  /\ Event(<<UserState(s, Unset)>>)
  /\ UNCHANGED <<channels, users, reparented>>

UserLeaves(s) ==
  /\ s \in DOMAIN users
  /\ users' = Without(users, s)
  /\ Event(<<UserRemove(s)>>)
  /\ UNCHANGED <<channels, reparented>>

ChannelAdded(id, parent) ==
  /\ id \notin DOMAIN channels /\ parent \in DOMAIN channels
  /\ channels' = Extend(channels, id, parent)
  /\ Event(<<ChannelState(id, parent)>>)
  /\ UNCHANGED <<users, reparented>>

IsLeaf(id) == \A c \in DOMAIN channels : channels[c] # id

ChannelMoved(id, parent) ==
  /\ id \in DOMAIN channels /\ IsLeaf(id) /\ parent \in DOMAIN channels \ {id, channels[id]}
  /\ channels' = [channels EXCEPT ![id] = parent]
  /\ reparented' = TRUE
  /\ Event(<<ChannelState(id, parent)>>)
  /\ UNCHANGED users

(* Every sequence that has each element of S once.                          *)
Orders(S) ==
  {q \in [1..Cardinality(S) -> S] : \A i, j \in DOMAIN q : i # j => q[i] # q[j]}

ChannelRemoved(id) ==
  LET inside == {s \in DOMAIN users : users[s] = id} IN
  /\ id \in DOMAIN channels /\ id # Root /\ IsLeaf(id)
  /\ channels' = Without(channels, id)
  /\ users' = [s \in DOMAIN users |-> IF s \in inside THEN channels[id] ELSE users[s]]
  /\ \E q \in Orders(inside) :
       Event([i \in DOMAIN q |-> UserState(q[i], {channels[id]})] \o <<ChannelRemove(id)>>)
  /\ UNCHANGED reparented

(* What a client that connects is told: parents first, then the users.      *)
ParentsFirst ==
  {p \in Orders(DOMAIN channels) : \A i, j \in DOMAIN p : channels[p[i]] = p[j] => j <= i}
Told(q, r) ==
  [i \in DOMAIN q |-> ChannelState(q[i], channels[q[i]])]
    \o [i \in DOMAIN r |-> UserState(r[i], {users[r[i]]})]
Announcements == {Told(q, r) : q \in ParentsFirst, r \in Orders(DOMAIN users)}

-----------------------------------------------------------------------------
(* The client's handlers.                                                   *)

(* Mutant: a user is found whatever the session.                            *)
FindAnyone(s) == user_list_

FindChannel(id) == {c \in channel_list_ : c.id = id}
FindUser(s) == {u \in user_list_ : u.session = s}

(* weak_ptr::lock, as the set of the object or empty.                       *)
Lock(obj) == {c \in channel_list_ : c.obj = obj}

Handles(type) ==
  /\ inbox # <<>> /\ Head(inbox).type = type
  /\ inbox' = Tail(inbox)
  /\ UNCHANGED <<serverVars, connVars>>

Asserts == fault' = "assert" /\ UNCHANGED <<channel_list_, user_list_, made>>

HandleUserRemove ==
  /\ Handles("UserRemove")
  /\ LET found == FindUser(Head(inbox).session) IN
     \/ found = {} /\ Asserts
     \/ /\ found # {} /\ user_list_' = user_list_ \ found
        /\ UNCHANGED <<channel_list_, made, fault>>

(* Mutant: every UserState is taken to announce a new user.                 *)
AlwaysNew(s) == TRUE

IsNewUser(s) == FindUser(s) = {}

(* The protobuf default of channel_id is 0.                                 *)
ChannelOf(msg) == IF msg.channel = Unset THEN Root ELSE CHOOSE id \in msg.channel : TRUE

HandleNewUser ==
  /\ Handles("UserState") /\ IsNewUser(Head(inbox).session)
  /\ LET found == FindChannel(ChannelOf(Head(inbox))) IN
     \/ found = {} /\ Asserts
     \/ \E c \in found :
          /\ user_list_' = user_list_ \cup {[session |-> Head(inbox).session, channel |-> c.obj]}
          /\ UNCHANGED <<channel_list_, made, fault>>

(* The callback is given the channel the user was in, without asking        *)
(* whether it still exists.                                                 *)
HandleUserMoved ==
  /\ Handles("UserState") /\ ~IsNewUser(Head(inbox).session) /\ Head(inbox).channel # Unset
  /\ LET found == FindChannel(ChannelOf(Head(inbox))) IN
     \/ found = {} /\ Asserts
     \/ \E c \in found, u \in FindUser(Head(inbox).session) :
          /\ user_list_' = (user_list_ \ {u}) \cup {[u EXCEPT !.channel = c.obj]}
          /\ fault' = IF Lock(u.channel) = {} THEN "null_deref" ELSE fault
          /\ UNCHANGED <<channel_list_, made>>

HandleUserComment ==
  /\ Handles("UserState") /\ ~IsNewUser(Head(inbox).session) /\ Head(inbox).channel = Unset
  /\ UNCHANGED listVars

HandleChannelRemove ==
  /\ Handles("ChannelRemove")
  /\ LET found == FindChannel(Head(inbox).id) IN
     \/ found = {} /\ Asserts
     \/ /\ found # {} /\ channel_list_' = channel_list_ \ found
        /\ UNCHANGED <<user_list_, made, fault>>

(* Mutants: a channel that is known is taken to be new; a parent of 0 is    *)
(* looked up like any other.                                                *)
AlwaysNewChannel(id) == TRUE
AnyParent(msg) == TRUE

IsNewChannel(id) == FindChannel(id) = {}

(* A parent of 0 is not looked up: it is the root's, which has none, and    *)
(* that of the channels directly below the root, which get none either.     *)
HasParent(msg) == msg.parent # Root

HandleNewChannel ==
  LET msg == Head(inbox) IN
  /\ Handles("ChannelState") /\ IsNewChannel(msg.id)
  /\ \/ HasParent(msg) /\ FindChannel(msg.parent) = {} /\ Asserts
     \/ \E p \in IF HasParent(msg) THEN {c.obj : c \in FindChannel(msg.parent)} ELSE {Null} :
          /\ made' = made + 1
          /\ channel_list_' = channel_list_ \cup {[obj |-> made', id |-> msg.id, parent |-> p]}
          /\ UNCHANGED <<user_list_, fault>>

(* An update of a channel that is known is ignored.                         *)
HandleKnownChannel ==
  /\ Handles("ChannelState") /\ ~IsNewChannel(Head(inbox).id)
  /\ UNCHANGED listVars

-----------------------------------------------------------------------------

Connect ==
  /\ ~connected /\ connects < MaxConnect
  /\ connected' = TRUE /\ connects' = connects + 1
  /\ stale' = (inbox # <<>> \/ channel_list_ # {} \/ user_list_ # {})
  /\ \E msgs \in Announcements : inbox' = inbox \o msgs
  /\ UNCHANGED <<serverVars, listVars>>

(* Called from a callback or outside Run.  Of the messages on their way     *)
(* those that recv_buffer_ holds stay, and may be handled by the loop that  *)
(* the callback returns to, or after the next Connect.                      *)
Disconnect ==
  /\ connected /\ connected' = FALSE
  /\ user_list_' = {} /\ channel_list_' = {}
  /\ \E n \in 0..Len(inbox) : inbox' = SubSeq(inbox, 1, n)
  /\ UNCHANGED <<serverVars, made, fault, connects, stale>>

-----------------------------------------------------------------------------

Server ==
  \/ \E s \in Sessions :
       \/ \E id \in Ids \cup {Root} : UserEnters(s, id)
       \/ UserComments(s) \/ UserLeaves(s)
  \/ \E id \in Ids :
       \/ \E p \in Ids \cup {Root} : ChannelAdded(id, p) \/ ChannelMoved(id, p)
       \/ ChannelRemoved(id)

Client ==
  \/ HandleUserRemove \/ HandleNewUser \/ HandleUserMoved \/ HandleUserComment
  \/ HandleChannelRemove \/ HandleNewChannel \/ HandleKnownChannel
  \/ Connect \/ Disconnect

Next == fault = "none" /\ (Server \/ Client)

Spec == Init /\ [][Next]_vars

-----------------------------------------------------------------------------

TypeOK ==
  /\ DOMAIN channels \subseteq Ids \cup {Root}
  /\ \A id \in DOMAIN channels : channels[id] \in DOMAIN channels
  /\ DOMAIN users \subseteq Sessions /\ \A s \in DOMAIN users : users[s] \in DOMAIN channels
  /\ channel_list_ \subseteq [obj : 1..made, id : Ids \cup {Root}, parent : 0..made]
  /\ user_list_ \subseteq [session : Sessions, channel : 1..made]
  /\ connected \in BOOLEAN /\ stale \in BOOLEAN /\ reparented \in BOOLEAN
  /\ fault \in {"none", "assert", "null_deref"}
  /\ made \in Nat /\ events \in Nat /\ connects \in Nat

(* What FindUser and FindChannel return does not depend on the order of the *)
(* lists: a session and an id occur once, whatever stale messages add.      *)
UniqueEntries ==
  /\ \A u, v \in user_list_ : u.session = v.session => u = v
  /\ \A c, d \in channel_list_ : c.id = d.id \/ c.obj = d.obj => c = d

(* The weak pointers that user_moved_callback_, PrintUserList and the       *)
(* application dereference (client.cc:237, 295) are not null: a user's      *)
(* channel is in channel_list_, and so is the parent of a channel that got   *)
(* one, unless the server moved a channel, which HandleChannelState ignores. *)
PointersAlive ==
  fault = "none" /\ ~stale =>
    /\ \A u \in user_list_ : Lock(u.channel) # {}
    /\ ~reparented => \A c \in channel_list_ : c.parent # Null => Lock(c.parent) # {}

(* Once the messages sent have been handled, a client that started with     *)
(* empty lists has the server's channels and users, each user in the right  *)
(* channel; and each channel below its parent, if that is not the root and  *)
(* no channel has moved.                                                    *)
IdOf(objs) == {c.id : c \in objs}

RosterMatches ==
  connected /\ ~stale /\ inbox = <<>> =>
    /\ IdOf(channel_list_) = DOMAIN channels
    /\ {u.session : u \in user_list_} = DOMAIN users
    /\ \A u \in user_list_ : IdOf(Lock(u.channel)) = {users[u.session]}
    /\ ~reparented => \A c \in channel_list_ :
         IdOf(Lock(c.parent)) = {channels[c.id]} \ {Root}

(* With a server that keeps to its order the assertions hold and no null    *)
(* pointer is followed, as long as a connection lasts that started with an  *)
(* empty buffer and empty lists.                                            *)
CrashOnlyStale == fault # "none" => ~connected \/ stale

(* client.cc:196, assert(u), and 211, 231, 248 and 267, assert of a channel. *)
KnownWhenNamed == fault # "assert"

=============================================================================
