----------------------------- MODULE RosterProofs -----------------------------
(***************************************************************************)
(* Proofs about module Roster, for any sessions, channel ids and numbers of *)
(* events and connections.                                                   *)
(***************************************************************************)
EXTENDS Roster, FiniteSetTheorems, TLAPS

Chans == Ids \cup {Root}

ChannelStates == {ChannelState(id, parent) : id \in Chans, parent \in Chans}
ChannelRemoves == {ChannelRemove(id) : id \in Chans}
UserStates == {UserState(s, {id}) : s \in Sessions, id \in Chans}
UserComment == {UserState(s, Unset) : s \in Sessions}
UserRemoves == {UserRemove(s) : s \in Sessions}
Messages == ChannelStates \cup ChannelRemoves \cup UserStates \cup UserComment \cup UserRemoves

(* The server's part of the type invariant, with the messages it sends, and  *)
(* the client's.                                                             *)
ServerOK ==
  /\ Root \in DOMAIN channels /\ DOMAIN channels \subseteq Chans
  /\ \A id \in DOMAIN channels : channels[id] \in DOMAIN channels
  /\ DOMAIN users \subseteq Sessions /\ \A s \in DOMAIN users : users[s] \in DOMAIN channels
  /\ events \in Nat /\ reparented \in BOOLEAN
  /\ inbox \in Seq(Messages)

Channels == [obj : 1..made, id : Chans, parent : 0..made]
Users == [session : Sessions, channel : 1..made]
ListsOK ==
  /\ made \in Nat /\ channel_list_ \subseteq Channels /\ user_list_ \subseteq Users
  /\ fault \in {"none", "assert", "null_deref"}

ConnOK == connected \in BOOLEAN /\ stale \in BOOLEAN /\ connects \in Nat

IInv == ServerOK /\ ListsOK /\ ConnOK /\ UniqueEntries

LEMMA InitInv == Init => IInv
<1> SUFFICES ASSUME Init PROVE IInv
  OBVIOUS
<1>1. ServerOK
  <2>1. channels = [id \in {Root} |-> Root] /\ users = [s \in {} |-> Root]
    BY DEF Init
  <2>2. /\ DOMAIN channels = {Root} /\ \A id \in DOMAIN channels : channels[id] = Root
        /\ DOMAIN users = {}
    BY <2>1
  <2>3. reparented \in BOOLEAN
    BY Zenon DEF Init
  <2> QED  BY <2>2, <2>3 DEF Init, ServerOK, Chans
<1>2. ListsOK /\ UniqueEntries
  BY DEF Init, ListsOK, UniqueEntries
<1>3. ConnOK
  BY DEF Init, ConnOK
<1> QED  BY <1>1, <1>2, <1>3 DEF IInv

----------------------------------------------------------------------------
(* The server. *)
LEMMA Sent ==
  ASSUME NEW msgs \in Seq(Messages), inbox \in Seq(Messages), events \in Nat, Event(msgs)
  PROVE  inbox' \in Seq(Messages) /\ events' \in Nat /\ UNCHANGED <<listVars, connVars>>
  BY DEF Event

LEMMA Sequence ==
  ASSUME NEW S, NEW n \in Nat, NEW f \in [1..n -> S]
  PROVE  f \in Seq(S)
  OBVIOUS

LEMMA OneMessage ==
  ASSUME NEW m \in Messages
  PROVE  <<m>> \in Seq(Messages)
  OBVIOUS

LEMMA StateTyped ==
  ASSUME NEW s \in Sessions, NEW id \in Chans
  PROVE  UserState(s, {id}) \in Messages
<1>1. UserState(s, {id}) \in UserStates
  BY DEF UserStates
<1> QED  BY <1>1 DEF Messages

LEMMA UserEntersOK ==
  ASSUME ServerOK, NEW s \in Sessions, NEW id, UserEnters(s, id)
  PROVE  ServerOK' /\ UNCHANGED <<listVars, connVars>>
<1>1. id \in DOMAIN channels /\ id \in Chans /\ UNCHANGED <<channels, reparented>>
  BY DEF UserEnters, ServerOK
<1>2. UserState(s, {id}) \in Messages
  BY <1>1, StateTyped
<1>3. inbox' \in Seq(Messages) /\ events' \in Nat /\ UNCHANGED <<listVars, connVars>>
  BY <1>2, OneMessage, Sent DEF UserEnters, ServerOK
<1>4. users' = Extend(users, s, id)
  BY DEF UserEnters
<1>5. /\ DOMAIN users' \subseteq Sessions
      /\ \A t \in DOMAIN users' : users'[t] \in DOMAIN channels
  BY <1>1, <1>4 DEF Extend, ServerOK
<1> QED  BY <1>1, <1>3, <1>5 DEF ServerOK

LEMMA UserCommentsOK ==
  ASSUME ServerOK, NEW s \in Sessions, UserComments(s)
  PROVE  ServerOK' /\ UNCHANGED <<listVars, connVars>>
<1>1. UserState(s, Unset) \in Messages
  BY DEF Messages, UserComment
<1>2. inbox' \in Seq(Messages) /\ events' \in Nat /\ UNCHANGED <<listVars, connVars>>
  BY <1>1, OneMessage, Sent DEF UserComments, ServerOK
<1> QED  BY <1>2 DEF UserComments, ServerOK

LEMMA UserLeavesOK ==
  ASSUME ServerOK, NEW s \in Sessions, UserLeaves(s)
  PROVE  ServerOK' /\ UNCHANGED <<listVars, connVars>>
<1>1. UserRemove(s) \in Messages
  BY DEF Messages, UserRemoves
<1>2. inbox' \in Seq(Messages) /\ events' \in Nat /\ UNCHANGED <<listVars, connVars>>
  BY <1>1, OneMessage, Sent DEF UserLeaves, ServerOK
<1>3. UNCHANGED <<channels, reparented>> /\ users' = Without(users, s)
  BY DEF UserLeaves
<1> QED  BY <1>2, <1>3 DEF Without, ServerOK

LEMMA ChannelAddedOK ==
  ASSUME ServerOK, NEW id \in Ids, NEW p, ChannelAdded(id, p)
  PROVE  ServerOK' /\ UNCHANGED <<listVars, connVars>>
<1>1. /\ p \in DOMAIN channels /\ p \in Chans /\ id \in Chans
      /\ channels' = Extend(channels, id, p) /\ UNCHANGED <<users, reparented>>
  BY DEF ChannelAdded, ServerOK, Chans
<1>2. ChannelState(id, p) \in Messages
  BY <1>1 DEF Messages, ChannelStates
<1>3. inbox' \in Seq(Messages) /\ events' \in Nat /\ UNCHANGED <<listVars, connVars>>
  BY <1>2, OneMessage, Sent DEF ChannelAdded, ServerOK
<1>4. DOMAIN channels' = DOMAIN channels \cup {id}
  BY <1>1 DEF Extend
<1>5. \A c \in DOMAIN channels' : channels'[c] \in DOMAIN channels'
  BY <1>1, <1>4 DEF Extend, ServerOK
<1> QED  BY <1>1, <1>3, <1>4, <1>5 DEF ServerOK

LEMMA ChannelMovedOK ==
  ASSUME ServerOK, NEW id \in Ids, NEW p, ChannelMoved(id, p)
  PROVE  ServerOK' /\ UNCHANGED <<listVars, connVars>>
<1>1. /\ p \in DOMAIN channels /\ p \in Chans /\ id \in Chans
      /\ channels' = [channels EXCEPT ![id] = p] /\ reparented' = TRUE /\ users' = users
  BY DEF ChannelMoved, ServerOK, Chans
<1>2. ChannelState(id, p) \in Messages
  BY <1>1 DEF Messages, ChannelStates
<1>3. inbox' \in Seq(Messages) /\ events' \in Nat /\ UNCHANGED <<listVars, connVars>>
  BY <1>2, OneMessage, Sent DEF ChannelMoved, ServerOK
<1>4. /\ DOMAIN channels' = DOMAIN channels
      /\ \A c \in DOMAIN channels' : channels'[c] \in DOMAIN channels'
  BY <1>1 DEF ServerOK
<1> QED  BY <1>1, <1>3, <1>4 DEF ServerOK

(* The users inside are moved to the parent before the channel goes. *)
LEMMA ChannelRemovedOK ==
  ASSUME ServerOK, NEW id \in Ids, ChannelRemoved(id)
  PROVE  ServerOK' /\ UNCHANGED <<listVars, connVars>>
<1> DEFINE inside == {s \in DOMAIN users : users[s] = id}
<1>1. /\ id \in DOMAIN channels /\ id # Root /\ IsLeaf(id)
      /\ channels' = Without(channels, id) /\ reparented' = reparented
      /\ users' = [s \in DOMAIN users |-> IF s \in inside THEN channels[id] ELSE users[s]]
  BY DEF ChannelRemoved
<1>2. PICK q \in Orders(inside) :
        Event([i \in DOMAIN q |-> UserState(q[i], {channels[id]})] \o <<ChannelRemove(id)>>)
  BY DEF ChannelRemoved
<1>3. channels[id] \in DOMAIN channels /\ channels[id] # id /\ channels[id] \in Chans
  BY <1>1 DEF ServerOK, IsLeaf
<1>4. inside \subseteq Sessions
  BY DEF ServerOK
<1>5. /\ DOMAIN channels' = DOMAIN channels \ {id}
      /\ \A c \in DOMAIN channels' : channels'[c] = channels[c] /\ channels[c] # id
  BY <1>1 DEF Without, IsLeaf
<1>6. \A c \in DOMAIN channels' : channels'[c] \in DOMAIN channels'
  BY <1>5 DEF ServerOK
<1>7. /\ DOMAIN users' = DOMAIN users
      /\ \A s \in DOMAIN users : users'[s] \in DOMAIN channels'
  BY <1>1, <1>3, <1>5 DEF ServerOK
<1>8. inbox' \in Seq(Messages) /\ events' \in Nat /\ UNCHANGED <<listVars, connVars>>
  <2> DEFINE moves == [i \in DOMAIN q |-> UserState(q[i], {channels[id]})]
  <2>1. PICK n \in Nat : DOMAIN q = 1..n
    BY <1>4, ConstantsAssumption, FS_Subset, FS_CardinalityType DEF Orders
  <2>2. \A i \in DOMAIN q : q[i] \in Sessions
    BY <1>4 DEF Orders
  <2>3. \A i \in DOMAIN q : UserState(q[i], {channels[id]}) \in Messages
    BY <2>2, <1>3, StateTyped
  <2>4. moves \in Seq(Messages)
    <3>1. moves \in [1..n -> Messages]
      BY <2>1, <2>3
    <3> QED  BY <3>1, Sequence
  <2>5. ChannelRemove(id) \in Messages
    BY DEF Messages, ChannelRemoves, Chans
  <2>6. <<ChannelRemove(id)>> \in Seq(Messages)
    BY <2>5, OneMessage
  <2>7. moves \o <<ChannelRemove(id)>> \in Seq(Messages)
    BY <2>4, <2>6
  <2> HIDE DEF moves
  <2>8. Event(moves \o <<ChannelRemove(id)>>)
    BY <1>2 DEF moves
  <2> QED  BY <2>7, <2>8, Sent DEF ServerOK
<1> QED  BY <1>1, <1>5, <1>6, <1>7, <1>8 DEF ServerOK

LEMMA ServerInv == IInv /\ Server => IInv'
<1> SUFFICES ASSUME IInv, Server PROVE IInv'
  OBVIOUS
<1>1. ServerOK /\ ListsOK /\ ConnOK /\ UniqueEntries
  BY DEF IInv
<1>2. ServerOK' /\ UNCHANGED <<listVars, connVars>>
  BY <1>1, UserEntersOK, UserCommentsOK, UserLeavesOK, ChannelAddedOK, ChannelMovedOK,
     ChannelRemovedOK DEF Server
<1>3. ListsOK' /\ UniqueEntries'
  BY <1>1, <1>2 DEF ListsOK, Channels, Users, UniqueEntries, listVars
<1>4. ConnOK'
  BY <1>1, <1>2 DEF ConnOK, connVars
<1> QED  BY <1>2, <1>3, <1>4 DEF IInv

----------------------------------------------------------------------------
(* The client. *)
LEMMA MessageFields ==
  ASSUME NEW m \in Messages
  PROVE  /\ m.type \in {"UserState", "UserRemove"} => m.session \in Sessions
         /\ m.type \in {"ChannelState", "ChannelRemove"} => m.id \in Chans
<1>1. CASE m \in ChannelStates
  BY <1>1 DEF ChannelStates, ChannelState
<1>2. CASE m \in ChannelRemoves
  BY <1>2 DEF ChannelRemoves, ChannelRemove
<1>3. CASE m \in UserStates
  BY <1>3 DEF UserStates, UserState
<1>4. CASE m \in UserComment
  BY <1>4 DEF UserComment, UserState
<1>5. CASE m \in UserRemoves
  BY <1>5 DEF UserRemoves, UserRemove
<1> QED  BY <1>1, <1>2, <1>3, <1>4, <1>5 DEF Messages

LEMMA HandlesTyped ==
  ASSUME ServerOK, NEW type, Handles(type)
  PROVE  Head(inbox) \in Messages /\ inbox' \in Seq(Messages)
  BY DEF Handles, ServerOK

LEMMA HandlesOK ==
  ASSUME ServerOK, ConnOK, NEW type, Handles(type)
  PROVE  ServerOK' /\ ConnOK'
  BY HandlesTyped DEF Handles, ServerOK, ConnOK, serverVars, connVars

LEMMA AssertsOK ==
  ASSUME ListsOK, UniqueEntries, Asserts
  PROVE  ListsOK' /\ UniqueEntries'
  BY DEF Asserts, ListsOK, Channels, Users, UniqueEntries

LEMMA HandleUserRemoveOK ==
  ASSUME ListsOK, UniqueEntries, HandleUserRemove
  PROVE  ListsOK' /\ UniqueEntries'
<1>1. CASE Asserts
  BY <1>1, AssertsOK
<1>2. CASE /\ user_list_' = user_list_ \ FindUser(Head(inbox).session)
           /\ UNCHANGED <<channel_list_, made, fault>>
  BY <1>2 DEF ListsOK, Channels, Users, UniqueEntries
<1> QED  BY <1>1, <1>2 DEF HandleUserRemove

LEMMA HandleChannelRemoveOK ==
  ASSUME ListsOK, UniqueEntries, HandleChannelRemove
  PROVE  ListsOK' /\ UniqueEntries'
<1>1. CASE Asserts
  BY <1>1, AssertsOK
<1>2. CASE /\ channel_list_' = channel_list_ \ FindChannel(Head(inbox).id)
           /\ UNCHANGED <<user_list_, made, fault>>
  BY <1>2 DEF ListsOK, Channels, Users, UniqueEntries
<1> QED  BY <1>1, <1>2 DEF HandleChannelRemove

LEMMA HandleNewUserOK ==
  ASSUME ServerOK, ListsOK, UniqueEntries, HandleNewUser
  PROVE  ListsOK' /\ UniqueEntries'
<1> DEFINE s == Head(inbox).session
<1>1. CASE Asserts
  BY <1>1, AssertsOK
<1>2. ASSUME NEW c \in FindChannel(ChannelOf(Head(inbox))),
             user_list_' = user_list_ \cup {[session |-> s, channel |-> c.obj]},
             UNCHANGED <<channel_list_, made, fault>>
      PROVE  ListsOK' /\ UniqueEntries'
  <2>1. s \in Sessions /\ \A u \in user_list_ : u.session # s
    BY HandlesTyped, MessageFields DEF HandleNewUser, Handles, IsNewUser, FindUser
  <2>2. c.obj \in 1..made
    BY DEF FindChannel, ListsOK, Channels
  <2> HIDE DEF s
  <2>3. [session |-> s, channel |-> c.obj] \in Users
    BY <2>1, <2>2 DEF Users
  <2>4. ListsOK'
    BY <1>2, <2>3 DEF ListsOK, Channels, Users
  <2>5. UniqueEntries'
    BY <1>2, <2>1 DEF UniqueEntries
  <2> QED  BY <2>4, <2>5
<1> QED  BY <1>1, <1>2 DEF HandleNewUser

LEMMA HandleUserMovedOK ==
  ASSUME ListsOK, UniqueEntries, HandleUserMoved
  PROVE  ListsOK' /\ UniqueEntries'
<1>1. CASE Asserts
  BY <1>1, AssertsOK
<1>2. ASSUME NEW c \in FindChannel(ChannelOf(Head(inbox))), NEW u \in FindUser(Head(inbox).session),
             user_list_' = (user_list_ \ {u}) \cup {[u EXCEPT !.channel = c.obj]},
             fault' = IF Lock(u.channel) = {} THEN "null_deref" ELSE fault,
             UNCHANGED <<channel_list_, made>>
      PROVE  ListsOK' /\ UniqueEntries'
  <2>1. c.obj \in 1..made /\ u \in user_list_ /\ u \in Users
    BY DEF FindChannel, FindUser, ListsOK, Channels
  <2> DEFINE v == [u EXCEPT !.channel = c.obj]
  <2>2. v \in Users /\ v.session = u.session
    BY <2>1 DEF Users
  <2> HIDE DEF v
  <2>3. user_list_' = (user_list_ \ {u}) \cup {v}
    BY <1>2 DEF v
  <2>4. ListsOK'
    BY <1>2, <2>2, <2>3 DEF ListsOK, Channels, Users
  <2>5. \A x \in user_list_ : x # u => x.session # v.session
    BY <2>1, <2>2 DEF UniqueEntries
  <2>6. UniqueEntries'
    BY <1>2, <2>3, <2>5 DEF UniqueEntries
  <2> QED  BY <2>4, <2>6
<1> QED  BY <1>1, <1>2 DEF HandleUserMoved

(* A channel gets an object no channel had before, and an id not in use. *)
LEMMA HandleNewChannelOK ==
  ASSUME ServerOK, ListsOK, UniqueEntries, HandleNewChannel
  PROVE  ListsOK' /\ UniqueEntries'
<1> DEFINE m == Head(inbox)
           Parents == IF HasParent(m) THEN {c.obj : c \in FindChannel(m.parent)} ELSE {Null}
<1>1. CASE Asserts
  BY <1>1, AssertsOK
<1>2. ASSUME NEW p \in Parents, made' = made + 1,
             channel_list_' = channel_list_ \cup {[obj |-> made', id |-> m.id, parent |-> p]},
             UNCHANGED <<user_list_, fault>>
      PROVE  ListsOK' /\ UniqueEntries'
  <2>1. m.id \in Chans /\ \A c \in channel_list_ : c.id # m.id
    BY HandlesTyped, MessageFields DEF HandleNewChannel, Handles, IsNewChannel, FindChannel
  <2>2. made \in Nat /\ p \in 0..made
    BY DEF FindChannel, ListsOK, Channels, Null
  <2> DEFINE d == [obj |-> made + 1, id |-> m.id, parent |-> p]
  <2>3. d.obj = made + 1 /\ d.id = m.id /\ d \in [obj : 1..(made + 1), id : Chans, parent : 0..(made + 1)]
    BY <2>1, <2>2
  <2>4. channel_list_' = channel_list_ \cup {d}
    BY <1>2
  <2> HIDE DEF d, m
  <2>5. /\ Channels \subseteq [obj : 1..(made + 1), id : Chans, parent : 0..(made + 1)]
        /\ Users \subseteq [session : Sessions, channel : 1..(made + 1)]
    BY <2>2 DEF Channels, Users
  <2>6. ListsOK'
    BY <1>2, <2>2, <2>3, <2>4, <2>5 DEF ListsOK, Channels, Users
  <2>7. \A c \in channel_list_ : c.id # d.id /\ c.obj # d.obj
    BY <2>1, <2>2, <2>3 DEF ListsOK, Channels
  <2>8. UniqueEntries'
    BY <1>2, <2>4, <2>7 DEF UniqueEntries
  <2> QED  BY <2>6, <2>8
<1> QED  BY <1>1, <1>2 DEF HandleNewChannel

----------------------------------------------------------------------------
(* Connections. *)
LEMMA AnnouncementsTyped ==
  ASSUME ServerOK, NEW msgs \in Announcements
  PROVE  msgs \in Seq(Messages)
<1>1. PICK q \in ParentsFirst, r \in Orders(DOMAIN users) : msgs = Told(q, r)
  BY DEF Announcements
<1>2. IsFiniteSet(DOMAIN channels) /\ IsFiniteSet(DOMAIN users)
  <2>1. IsFiniteSet(Chans)
    BY ConstantsAssumption, FS_AddElement DEF Chans
  <2> QED  BY <2>1, ConstantsAssumption, FS_Subset DEF ServerOK
<1>3. PICK n \in Nat : q \in [1..n -> DOMAIN channels]
  BY <1>2, FS_CardinalityType DEF ParentsFirst, Orders
<1>4. PICK k \in Nat : r \in [1..k -> DOMAIN users]
  BY <1>2, FS_CardinalityType DEF Orders
<1> DEFINE a == [i \in 1..n |-> ChannelState(q[i], channels[q[i]])]
           b == [i \in 1..k |-> UserState(r[i], {users[r[i]]})]
<1>5. \A c, p \in Chans : ChannelState(c, p) \in Messages
  BY DEF Messages, ChannelStates
<1>6. a \in [1..n -> Messages]
  BY <1>3, <1>5 DEF ServerOK
<1>7. b \in [1..k -> Messages]
  BY <1>4, StateTyped DEF ServerOK
<1>8. a \in Seq(Messages) /\ b \in Seq(Messages)
  BY <1>6, <1>7, Sequence
<1>9. msgs = a \o b
  BY <1>1, <1>3, <1>4 DEF Told
<1> HIDE DEF a, b
<1> QED  BY <1>8, <1>9

LEMMA ConnectOK ==
  ASSUME ServerOK, ConnOK, Connect
  PROVE  ServerOK' /\ ConnOK' /\ UNCHANGED listVars
<1>1. inbox' \in Seq(Messages)
  <2>1. PICK msgs \in Announcements : inbox' = inbox \o msgs
    BY DEF Connect
  <2>2. msgs \in Seq(Messages)
    BY AnnouncementsTyped
  <2> QED  BY <2>1, <2>2 DEF ServerOK
<1>2. ServerOK' /\ UNCHANGED listVars
  BY <1>1 DEF Connect, ServerOK, serverVars
<1>3. connected' = TRUE /\ connects' \in Nat
  BY DEF Connect, ConnOK
<1>4. connected' \in BOOLEAN /\ stale' \in BOOLEAN
  BY Zenon DEF Connect
<1> QED  BY <1>2, <1>3, <1>4 DEF ConnOK

LEMMA DisconnectOK ==
  ASSUME ServerOK, ListsOK, ConnOK, Disconnect
  PROVE  ServerOK' /\ ListsOK' /\ ConnOK' /\ UniqueEntries'
<1>1. inbox' \in Seq(Messages)
  BY DEF Disconnect, ServerOK
<1>2. ServerOK'
  BY <1>1 DEF Disconnect, ServerOK, serverVars
<1>3. ListsOK' /\ UniqueEntries'
  BY DEF Disconnect, ListsOK, UniqueEntries
<1>4. connected' \in BOOLEAN /\ stale' \in BOOLEAN
  BY Zenon DEF Disconnect, ConnOK
<1> QED  BY <1>2, <1>3, <1>4 DEF ConnOK, Disconnect

LEMMA ListsSame ==
  ASSUME ListsOK, UniqueEntries, UNCHANGED listVars
  PROVE  ListsOK' /\ UniqueEntries'
  BY DEF ListsOK, Channels, Users, UniqueEntries, listVars

LEMMA ClientInv == IInv /\ Client => IInv'
<1> SUFFICES ASSUME IInv, Client PROVE IInv'
  OBVIOUS
<1>1. ServerOK /\ ListsOK /\ ConnOK /\ UniqueEntries
  BY DEF IInv
<1>2. CASE HandleUserRemove
  BY <1>1, <1>2, HandleUserRemoveOK, HandlesOK DEF HandleUserRemove, IInv
<1>3. CASE HandleNewUser
  BY <1>1, <1>3, HandleNewUserOK, HandlesOK DEF HandleNewUser, IInv
<1>4. CASE HandleUserMoved
  BY <1>1, <1>4, HandleUserMovedOK, HandlesOK DEF HandleUserMoved, IInv
<1>5. CASE HandleUserComment
  BY <1>1, <1>5, ListsSame, HandlesOK DEF HandleUserComment, IInv
<1>6. CASE HandleChannelRemove
  BY <1>1, <1>6, HandleChannelRemoveOK, HandlesOK DEF HandleChannelRemove, IInv
<1>7. CASE HandleNewChannel
  BY <1>1, <1>7, HandleNewChannelOK, HandlesOK DEF HandleNewChannel, IInv
<1>8. CASE HandleKnownChannel
  BY <1>1, <1>8, ListsSame, HandlesOK DEF HandleKnownChannel, IInv
<1>9. CASE Connect
  BY <1>1, <1>9, ConnectOK, ListsSame DEF IInv
<1>10. CASE Disconnect
  BY <1>1, <1>10, DisconnectOK DEF IInv
<1> QED
  BY <1>2, <1>3, <1>4, <1>5, <1>6, <1>7, <1>8, <1>9, <1>10 DEF Client

LEMMA StepInv == IInv /\ [Next]_vars => IInv'
<1> SUFFICES ASSUME IInv, [Next]_vars PROVE IInv'
  OBVIOUS
<1>1. CASE UNCHANGED vars
  BY <1>1, ListsSame DEF IInv, ServerOK, ConnOK, vars, serverVars, connVars
<1>2. CASE Server
  BY <1>2, ServerInv
<1>3. CASE Client
  BY <1>3, ClientInv
<1> QED  BY <1>1, <1>2, <1>3 DEF Next

LEMMA InvAlways == Spec => []IInv
  BY InitInv, StepInv, PTL DEF Spec

----------------------------------------------------------------------------
(* The messages under way as steps of the server: a snapshot is its channels *)
(* and users at some time, and each message leads from one to the next.      *)
Snapshot(c, u) == [chans |-> c, users |-> u]
Now == Snapshot(channels, users)

Enters(S, m, T) ==
  \E s \in Sessions, id \in DOMAIN S.chans :
    m = UserState(s, {id}) /\ T = Snapshot(S.chans, Extend(S.users, s, id))
Comments(S, m, T) == \E s \in DOMAIN S.users : m = UserState(s, Unset) /\ T = S
Leaves(S, m, T) ==
  \E s \in DOMAIN S.users : m = UserRemove(s) /\ T = Snapshot(S.chans, Without(S.users, s))

(* The root comes before all others, and every other channel after its parent. *)
Announces(S, m, T) ==
  \E id, p \in Chans :
    /\ m = ChannelState(id, p) /\ T = Snapshot(Extend(S.chans, id, p), S.users)
    /\ id = Root => p = Root /\ DOMAIN S.chans = {} /\ DOMAIN S.users = {}
    /\ id # Root => p \in DOMAIN S.chans
Removes(S, m, T) ==
  \E id \in DOMAIN S.chans \ {Root} :
    /\ m = ChannelRemove(id) /\ T = Snapshot(Without(S.chans, id), S.users)
    /\ \A c \in DOMAIN S.chans : S.chans[c] # id
    /\ \A s \in DOMAIN S.users : S.users[s] # id

Effect(S, m, T) ==
  Enters(S, m, T) \/ Comments(S, m, T) \/ Leaves(S, m, T) \/ Announces(S, m, T) \/ Removes(S, m, T)

(* The message announces a channel that was not there. *)
IsNews(S, m) == m.type = "ChannelState" => m.id \notin DOMAIN S.chans

(* The messages lead from S to T, through the snapshots of h; if news holds, *)
(* none of them moves a channel.                                             *)
Through(h, msgs, news) ==
  \A i \in 1..Len(msgs) :
    Effect(h[i - 1], msgs[i], h[i]) /\ (news => IsNews(h[i - 1], msgs[i]))
Leads(S, msgs, T, news) ==
  \E h : h[0] = S /\ h[Len(msgs)] = T /\ Through(h, msgs, news)

LEMMA LeadsNowhere ==
  ASSUME NEW S, NEW news
  PROVE  Leads(S, <<>>, S, news)
<1>1. Through([i \in {0} |-> S], <<>>, news)
  BY DEF Through
<1> QED  BY <1>1 DEF Leads

LEMMA LeadsBack ==
  ASSUME NEW S, NEW T, NEW news, Leads(S, <<>>, T, news)
  PROVE  S = T
  BY DEF Leads

LEMMA LeadsOne ==
  ASSUME NEW S, NEW m, NEW T, NEW news, Effect(S, m, T), news => IsNews(S, m)
  PROVE  Leads(S, <<m>>, T, news)
<1> DEFINE h == [i \in {0, 1} |-> IF i = 0 THEN S ELSE T]
<1>1. Len(<<m>>) = 1 /\ <<m>>[1] = m /\ h[0] = S /\ h[1] = T
  OBVIOUS
<1> HIDE DEF h
<1>2. Through(h, <<m>>, news)
  BY <1>1 DEF Through
<1> QED  BY <1>1, <1>2 DEF Leads

LEMMA LeadsOn ==
  ASSUME NEW S, NEW T, NEW U, NEW news, NEW a \in Seq(Messages), NEW b \in Seq(Messages),
         Leads(S, a, T, news), Leads(T, b, U, news)
  PROVE  Leads(S, a \o b, U, news)
<1>1. PICK g : g[0] = S /\ g[Len(a)] = T /\ Through(g, a, news)
  BY DEF Leads
<1>2. PICK h : h[0] = T /\ h[Len(b)] = U /\ Through(h, b, news)
  BY DEF Leads
<1> DEFINE n == Len(a)
           k == [i \in 0..(n + Len(b)) |-> IF i <= n THEN g[i] ELSE h[i - n]]
<1>3. n \in Nat /\ Len(b) \in Nat /\ Len(a \o b) = n + Len(b)
  OBVIOUS
<1>4. /\ \A i \in 0..n : k[i] = g[i]
      /\ \A i \in n..(n + Len(b)) : k[i] = h[i - n]
  BY <1>1, <1>2, <1>3
<1> HIDE DEF k
<1>5. ASSUME NEW i \in 1..Len(a \o b)
      PROVE  /\ Effect(k[i - 1], (a \o b)[i], k[i])
             /\ news => IsNews(k[i - 1], (a \o b)[i])
  <2>1. CASE i <= n
    <3>1. i \in 1..n /\ i - 1 \in 0..n /\ i \in 0..n
      BY <1>3, <2>1
    <3>2. (a \o b)[i] = a[i] /\ k[i - 1] = g[i - 1] /\ k[i] = g[i]
      BY <1>4, <3>1
    <3> QED  BY <1>1, <3>1, <3>2 DEF Through
  <2>2. CASE i > n
    <3>1. i - n \in 1..Len(b) /\ i - 1 \in n..(n + Len(b)) /\ i \in n..(n + Len(b))
      BY <1>3, <2>2
    <3>2. k[i - 1] = h[i - 1 - n] /\ k[i] = h[i - n]
      BY <1>4, <3>1
    <3>4. (a \o b)[i] = b[i - n]
      BY <1>3, <2>2
    <3>3. i - 1 - n = (i - n) - 1
      BY <1>3
    <3> QED  BY <1>2, <3>1, <3>2, <3>3, <3>4 DEF Through
  <2> QED  BY <1>3, <2>1, <2>2
<1>6. k[0] = S /\ k[Len(a \o b)] = U
  <2>1. 0 \in 0..n /\ Len(a \o b) \in n..(n + Len(b)) /\ Len(a \o b) - n = Len(b)
    BY <1>3
  <2> QED  BY <1>1, <1>2, <1>4, <2>1
<1> QED  BY <1>5, <1>6 DEF Leads, Through

LEMMA LeadsHead ==
  ASSUME NEW S, NEW T, NEW news, NEW a \in Seq(Messages), a # <<>>, Leads(S, a, T, news)
  PROVE  \E U : /\ Effect(S, Head(a), U) /\ (news => IsNews(S, Head(a)))
                /\ Leads(U, Tail(a), T, news)
<1>1. PICK g : g[0] = S /\ g[Len(a)] = T /\ Through(g, a, news)
  BY DEF Leads
<1> DEFINE n == Len(a) - 1
           h == [i \in 0..n |-> g[i + 1]]
<1>2. n \in Nat /\ Len(a) = n + 1 /\ Len(Tail(a)) = n /\ Head(a) = a[1]
  OBVIOUS
<1>3. \A i \in 1..n : Tail(a)[i] = a[i + 1]
  OBVIOUS
<1>4. \A i \in 0..n : h[i] = g[i + 1]
  OBVIOUS
<1>5. h[0] = g[1] /\ h[Len(Tail(a))] = T
  BY <1>1, <1>2, <1>4
<1> HIDE DEF h
<1>6. Effect(S, Head(a), g[1]) /\ (news => IsNews(S, Head(a)))
  <2>1. 1 \in 1..Len(a) /\ 1 - 1 = 0
    BY <1>2
  <2> QED  BY <1>1, <1>2, <2>1 DEF Through
<1>7. Through(h, Tail(a), news)
  <2> SUFFICES ASSUME NEW i \in 1..n
               PROVE  Effect(h[i - 1], Tail(a)[i], h[i]) /\ (news => IsNews(h[i - 1], Tail(a)[i]))
    BY <1>2 DEF Through
  <2>1. /\ i - 1 \in 0..n /\ i \in 0..n /\ i + 1 \in 1..Len(a)
        /\ i - 1 + 1 = i /\ (i + 1) - 1 = i
    BY <1>2
  <2>2. h[i - 1] = g[i] /\ h[i] = g[i + 1] /\ Tail(a)[i] = a[i + 1]
    BY <1>3, <1>4, <2>1
  <2>3. Effect(g[(i + 1) - 1], a[i + 1], g[i + 1]) /\ (news => IsNews(g[(i + 1) - 1], a[i + 1]))
    BY <1>1, <2>1 DEF Through
  <2> QED  BY <2>1, <2>2, <2>3
<1> QED  BY <1>5, <1>6, <1>7 DEF Leads

LEMMA LeadsPart ==
  ASSUME NEW S, NEW T, NEW news, NEW a \in Seq(Messages), NEW n \in 0..Len(a), Leads(S, a, T, news)
  PROVE  \E U : Leads(S, SubSeq(a, 1, n), U, news)
<1>1. PICK g : g[0] = S /\ g[Len(a)] = T /\ Through(g, a, news)
  BY DEF Leads
<1>2. /\ Len(SubSeq(a, 1, n)) = n /\ \A i \in 1..n : SubSeq(a, 1, n)[i] = a[i]
      /\ 1..n \subseteq 1..Len(a)
  OBVIOUS
<1>3. Through(g, SubSeq(a, 1, n), news)
  BY <1>1, <1>2 DEF Through
<1> QED  BY <1>1, <1>2, <1>3 DEF Leads

LEMMA LeadsAnyhow ==
  ASSUME NEW S, NEW T, NEW news, NEW strict, NEW a, Leads(S, a, T, strict), news => strict
  PROVE  Leads(S, a, T, news)
<1>1. PICK g : g[0] = S /\ g[Len(a)] = T /\ Through(g, a, strict)
  BY DEF Leads
<1>2. Through(g, a, news)
  BY <1>1 DEF Through
<1> QED  BY <1>1, <1>2 DEF Leads

----------------------------------------------------------------------------
(* The server's channels are a tree as far as the client needs it: only the  *)
(* root is its own parent.                                                   *)
TreeOK ==
  /\ channels = [id \in DOMAIN channels |-> channels[id]]
  /\ users = [s \in DOMAIN users |-> users[s]]
  /\ \A id \in DOMAIN channels : channels[id] = id <=> id = Root

LEMMA TreeStep ==
  ASSUME IInv, TreeOK, [Next]_vars
  PROVE  TreeOK'
<1>0. ServerOK /\ Root \notin Ids
  BY ConstantsAssumption DEF IInv, Root
<1>1. ASSUME UNCHANGED <<channels, users>> PROVE TreeOK'
  BY <1>1 DEF TreeOK
<1>2. CASE Client
  BY <1>1, <1>2 DEF Client, HandleUserRemove, HandleNewUser, HandleUserMoved, HandleUserComment,
     HandleChannelRemove, HandleNewChannel, HandleKnownChannel, Handles, Connect, Disconnect,
     serverVars
<1>3. ASSUME NEW s, NEW id, UserEnters(s, id) PROVE TreeOK'
  BY <1>3 DEF UserEnters, TreeOK, Extend
<1>4. ASSUME NEW s, UserLeaves(s) PROVE TreeOK'
  BY <1>4 DEF UserLeaves, TreeOK, Without
<1>5. ASSUME NEW id \in Ids, NEW p, ChannelAdded(id, p) PROVE TreeOK'
  <2>1. /\ channels' = Extend(channels, id, p) /\ users' = users
        /\ id \notin DOMAIN channels /\ p \in DOMAIN channels /\ id # Root
    BY <1>0, <1>5 DEF ChannelAdded
  <2> QED  BY <2>1 DEF TreeOK, Extend
<1>6. ASSUME NEW id \in Ids, NEW p, ChannelMoved(id, p) PROVE TreeOK'
  <2>1. /\ channels' = [channels EXCEPT ![id] = p] /\ users' = users
        /\ id # Root /\ p # id
    BY <1>0, <1>6 DEF ChannelMoved
  <2> QED  BY <2>1 DEF TreeOK
<1>7. ASSUME NEW id, ChannelRemoved(id) PROVE TreeOK'
  <2>1. /\ channels' = Without(channels, id)
        /\ \E inside : users' = [s \in DOMAIN users |-> IF s \in inside THEN channels[id] ELSE users[s]]
    BY <1>7 DEF ChannelRemoved
  <2> QED  BY <2>1 DEF TreeOK, Without
<1>8. CASE Server
  BY <1>1, <1>3, <1>4, <1>5, <1>6, <1>7, <1>8 DEF Server, UserComments
<1>9. CASE UNCHANGED vars
  BY <1>1, <1>9 DEF vars, serverVars
<1> QED  BY <1>2, <1>8, <1>9 DEF Next

(* The lists are those of a snapshot, as far as its messages have been       *)
(* handled: what they hold is as the snapshot has it, and nothing is missing *)
(* on a connection, nor without one once the root is in the list.            *)
Known(S) == \A c \in channel_list_ : c.id \in DOMAIN S.chans
Placed(S) ==
  \A u \in user_list_ :
    /\ u.session \in DOMAIN S.users
    /\ \E c \in channel_list_ : c.obj = u.channel /\ c.id = S.users[u.session]
Nested(S) ==
  \A c \in channel_list_ :
    /\ S.chans[c.id] = Root => c.parent = Null
    /\ S.chans[c.id] # Root => \E p \in channel_list_ : p.obj = c.parent /\ p.id = S.chans[c.id]
Listed(S) ==
  /\ \A id \in DOMAIN S.chans : \E c \in channel_list_ : c.id = id
  /\ \A s \in DOMAIN S.users : \E u \in user_list_ : u.session = s
Agrees(S) ==
  /\ Known(S) /\ Placed(S)
  /\ ~reparented => Nested(S)
  /\ connected \/ (\E c \in channel_list_ : c.id = Root) => Listed(S)

(* The inductive invariant: on a connection that started clean, the messages *)
(* not handled yet lead from what the lists show to what the server has.     *)
Follows ==
  fault = "none" /\ ~stale =>
    \E S, T : Agrees(S) /\ Leads(S, inbox, T, ~reparented) /\ (connected => T = Now)

----------------------------------------------------------------------------
(* Each handler brings the lists to the next snapshot, or stops the process  *)
(* when there is no connection.                                              *)
Handled(T) == (fault' = "none" /\ Agrees(T)') \/ (fault' # "none" /\ ~connected)

LEMMA UserRemoveHandled ==
  ASSUME IInv, fault = "none", NEW S, NEW T, Agrees(S), Effect(S, Head(inbox), T), HandleUserRemove
  PROVE  Handled(T)
<1>1. PICK s \in DOMAIN S.users :
        Head(inbox) = UserRemove(s) /\ T = Snapshot(S.chans, Without(S.users, s))
  BY DEF HandleUserRemove, Handles, Effect, Enters, Comments, Leaves, Announces, Removes,
     UserState, UserRemove, ChannelState, ChannelRemove
<1>2. /\ Head(inbox).session = s /\ T.chans = S.chans /\ T.users = Without(S.users, s)
      /\ UNCHANGED <<connected, reparented>>
  BY <1>1 DEF UserRemove, Snapshot, HandleUserRemove, Handles, serverVars, connVars
<1>3. CASE FindUser(s) = {} /\ Asserts
  BY <1>1, <1>3 DEF Asserts, Handled, Agrees, Listed, FindUser
<1>4. CASE /\ user_list_' = user_list_ \ FindUser(s)
           /\ UNCHANGED <<channel_list_, made, fault>>
  <2>1. Known(T)' /\ (~reparented => Nested(T)')
    BY <1>2, <1>4 DEF Agrees, Known, Nested
  <2>2. Placed(T)'
    BY <1>2, <1>4 DEF Agrees, Placed, FindUser, Without
  <2>3. ASSUME Listed(S) PROVE Listed(T)'
    BY <1>2, <1>4, <2>3 DEF Listed, FindUser, Without
  <2> QED  BY <1>2, <1>4, <2>1, <2>2, <2>3 DEF Handled, Agrees
<1> QED  BY <1>2, <1>3, <1>4 DEF HandleUserRemove

LEMMA NewUserHandled ==
  ASSUME IInv, fault = "none", NEW S, NEW T, Agrees(S), Effect(S, Head(inbox), T), HandleNewUser
  PROVE  Handled(T)
<1>1. \/ Enters(S, Head(inbox), T) \/ Comments(S, Head(inbox), T)
  BY DEF HandleNewUser, Handles, Effect, Enters, Comments, Leaves, Announces, Removes,
     UserState, UserRemove, ChannelState, ChannelRemove
<1>2. UNCHANGED <<connected, reparented>> /\ FindUser(Head(inbox).session) = {}
  BY DEF HandleNewUser, Handles, IsNewUser, serverVars, connVars
<1>3. CASE Comments(S, Head(inbox), T)
  <2>1. Head(inbox).session \in DOMAIN S.users /\ ChannelOf(Head(inbox)) = Root
    BY <1>3 DEF Comments, UserState, ChannelOf
  <2>2. ~connected /\ FindChannel(Root) = {}
    BY <1>2, <2>1 DEF Agrees, Listed, FindUser, FindChannel
  <2> QED  BY <2>1, <2>2 DEF HandleNewUser, Asserts, Handled
<1>4. CASE Enters(S, Head(inbox), T)
  <2>1. PICK s \in Sessions, id \in DOMAIN S.chans :
          Head(inbox) = UserState(s, {id}) /\ T = Snapshot(S.chans, Extend(S.users, s, id))
    BY <1>4 DEF Enters
  <2>2. /\ Head(inbox).session = s /\ ChannelOf(Head(inbox)) = id
        /\ T.chans = S.chans /\ T.users = Extend(S.users, s, id)
    BY <2>1 DEF UserState, ChannelOf, Snapshot, Unset
  <2>3. CASE FindChannel(id) = {} /\ Asserts
    BY <2>3 DEF Asserts, Handled, Agrees, Listed, FindChannel
  <2>4. ASSUME NEW c \in FindChannel(id),
               user_list_' = user_list_ \cup {[session |-> s, channel |-> c.obj]},
               UNCHANGED <<channel_list_, made, fault>>
        PROVE  Handled(T)
    <3>1. Known(T)' /\ (~reparented => Nested(T)')
      BY <2>2, <2>4 DEF Agrees, Known, Nested
    <3> DEFINE v == [session |-> s, channel |-> c.obj]
    <3>2. v.session = s /\ v.channel = c.obj /\ user_list_' = user_list_ \cup {v}
      BY <2>4
    <3> HIDE DEF v
    <3>3. Placed(T)'
      BY <1>2, <2>2, <2>4, <3>2 DEF Agrees, Placed, FindUser, FindChannel, Extend
    <3>4. ASSUME Listed(S) PROVE Listed(T)'
      BY <2>2, <2>4, <3>2, <3>4 DEF Listed, Extend
    <3> QED  BY <1>2, <2>4, <3>1, <3>3, <3>4 DEF Handled, Agrees
  <2> QED  BY <2>2, <2>3, <2>4 DEF HandleNewUser
<1> QED  BY <1>1, <1>3, <1>4

LEMMA UserMovedHandled ==
  ASSUME IInv, fault = "none", NEW S, NEW T, Agrees(S), Effect(S, Head(inbox), T), HandleUserMoved
  PROVE  Handled(T)
<1>1. PICK s \in Sessions, id \in DOMAIN S.chans :
        Head(inbox) = UserState(s, {id}) /\ T = Snapshot(S.chans, Extend(S.users, s, id))
  BY DEF HandleUserMoved, Handles, Effect, Enters, Comments, Leaves, Announces, Removes,
     UserState, UserRemove, ChannelState, ChannelRemove
<1>2. /\ Head(inbox).session = s /\ ChannelOf(Head(inbox)) = id
      /\ T.chans = S.chans /\ T.users = Extend(S.users, s, id)
      /\ UNCHANGED <<connected, reparented>>
  BY <1>1 DEF UserState, ChannelOf, Snapshot, Unset, HandleUserMoved, Handles, serverVars, connVars
<1>3. CASE FindChannel(id) = {} /\ Asserts
  BY <1>3 DEF Asserts, Handled, Agrees, Listed, FindChannel
<1>4. ASSUME NEW c \in FindChannel(id), NEW u \in FindUser(s),
             user_list_' = (user_list_ \ {u}) \cup {[u EXCEPT !.channel = c.obj]},
             fault' = IF Lock(u.channel) = {} THEN "null_deref" ELSE fault,
             UNCHANGED <<channel_list_, made>>
      PROVE  Handled(T)
  <2>1. Known(T)' /\ (~reparented => Nested(T)')
    BY <1>2, <1>4 DEF Agrees, Known, Nested
  <2>2. fault' = "none"
    BY <1>4 DEF Agrees, Placed, FindUser, Lock
  <2> DEFINE v == [u EXCEPT !.channel = c.obj]
  <2>3. v.session = s /\ v.channel = c.obj /\ user_list_' = (user_list_ \ {u}) \cup {v}
    <3>1. u \in Users /\ u.session = s
      BY DEF FindUser, IInv, ListsOK
    <3> QED  BY <1>4, <3>1 DEF Users
  <2> HIDE DEF v
  <2>4. \A w \in user_list_ \ {u} : w.session # s
    BY DEF FindUser, IInv, UniqueEntries
  <2>5. Placed(T)'
    BY <1>2, <1>4, <2>3, <2>4 DEF Agrees, Placed, FindChannel, Extend
  <2>6. ASSUME Listed(S) PROVE Listed(T)'
    BY <1>2, <1>4, <2>3, <2>6 DEF Listed, Extend, FindUser
  <2> QED  BY <1>2, <1>4, <2>1, <2>2, <2>5, <2>6 DEF Handled, Agrees
<1> QED  BY <1>2, <1>3, <1>4 DEF HandleUserMoved

LEMMA UserCommentHandled ==
  ASSUME IInv, fault = "none", NEW S, NEW T, Agrees(S), Effect(S, Head(inbox), T), HandleUserComment
  PROVE  Handled(T)
<1>1. T = S
  BY DEF HandleUserComment, Handles, Effect, Enters, Comments, Leaves, Announces, Removes,
     UserState, UserRemove, ChannelState, ChannelRemove, Unset
<1>2. UNCHANGED <<channel_list_, user_list_, fault, connected, reparented>>
  BY DEF HandleUserComment, Handles, listVars, serverVars, connVars
<1> QED  BY <1>1, <1>2 DEF Handled, Agrees, Known, Placed, Nested, Listed

LEMMA ChannelRemoveHandled ==
  ASSUME IInv, fault = "none", NEW S, NEW T, Agrees(S), Effect(S, Head(inbox), T), HandleChannelRemove
  PROVE  Handled(T)
<1>1. PICK id \in DOMAIN S.chans \ {Root} :
        /\ Head(inbox) = ChannelRemove(id) /\ T = Snapshot(Without(S.chans, id), S.users)
        /\ \A c \in DOMAIN S.chans : S.chans[c] # id
        /\ \A s \in DOMAIN S.users : S.users[s] # id
  BY DEF HandleChannelRemove, Handles, Effect, Enters, Comments, Leaves, Announces, Removes,
     UserState, UserRemove, ChannelState, ChannelRemove
<1>2. /\ Head(inbox).id = id /\ T.chans = Without(S.chans, id) /\ T.users = S.users
      /\ UNCHANGED <<connected, reparented>>
  BY <1>1 DEF ChannelRemove, Snapshot, HandleChannelRemove, Handles, serverVars, connVars
<1>3. CASE FindChannel(id) = {} /\ Asserts
  BY <1>3 DEF Asserts, Handled, Agrees, Listed, FindChannel
<1>4. CASE /\ channel_list_' = channel_list_ \ FindChannel(id)
           /\ UNCHANGED <<user_list_, made, fault>>
  <2>1. Known(T)'
    BY <1>2, <1>4 DEF Agrees, Known, FindChannel, Without
  <2>2. Placed(T)'
    BY <1>1, <1>2, <1>4 DEF Agrees, Placed, FindChannel
  <2>3. ASSUME Nested(S) PROVE Nested(T)'
    BY <1>1, <1>2, <1>4, <2>3 DEF Agrees, Known, Nested, FindChannel, Without
  <2>4. ASSUME Listed(S) PROVE Listed(T)'
    BY <1>2, <1>4, <2>4 DEF Listed, FindChannel, Without
  <2>5. (\E c \in channel_list_' : c.id = Root) => \E c \in channel_list_ : c.id = Root
    BY <1>4
  <2> QED  BY <1>2, <1>4, <2>1, <2>2, <2>3, <2>4, <2>5 DEF Handled, Agrees
<1> QED  BY <1>2, <1>3, <1>4 DEF HandleChannelRemove

LEMMA NewChannelHandled ==
  ASSUME IInv, fault = "none", NEW S, NEW T, Agrees(S), Effect(S, Head(inbox), T), HandleNewChannel
  PROVE  Handled(T)
<1> DEFINE m == Head(inbox)
<1>1. PICK id \in Chans, p \in Chans :
        /\ m = ChannelState(id, p) /\ T = Snapshot(Extend(S.chans, id, p), S.users)
        /\ id = Root => p = Root /\ DOMAIN S.chans = {} /\ DOMAIN S.users = {}
        /\ id # Root => p \in DOMAIN S.chans
  BY DEF HandleNewChannel, Handles, Effect, Enters, Comments, Leaves, Announces, Removes,
     UserState, UserRemove, ChannelState, ChannelRemove
<1>2. /\ m.id = id /\ m.parent = p /\ T.chans = Extend(S.chans, id, p) /\ T.users = S.users
      /\ UNCHANGED <<connected, reparented>> /\ \A c \in channel_list_ : c.id # id
  BY <1>1 DEF ChannelState, Snapshot, HandleNewChannel, Handles, IsNewChannel, FindChannel,
     serverVars, connVars
<1>3. CASE HasParent(m) /\ FindChannel(m.parent) = {} /\ Asserts
  BY <1>1, <1>2, <1>3 DEF HasParent, Asserts, Handled, Agrees, Listed, FindChannel
<1>4. ASSUME NEW o \in IF HasParent(m) THEN {c.obj : c \in FindChannel(m.parent)} ELSE {Null},
             channel_list_' = channel_list_ \cup {[obj |-> made', id |-> m.id, parent |-> o]},
             UNCHANGED <<user_list_, fault>>
      PROVE  Handled(T)
  <2> DEFINE d == [obj |-> made', id |-> m.id, parent |-> o]
  <2>1. d.id = id /\ d.parent = o /\ channel_list_' = channel_list_ \cup {d}
    BY <1>2, <1>4
  <2>2. /\ p = Root => o = Null
        /\ p # Root => \E c \in channel_list_ : c.obj = o /\ c.id = p
    BY <1>2, <1>4 DEF HasParent, FindChannel
  <2> HIDE DEF d, m
  <2>3. Known(T)'
    BY <1>2, <2>1 DEF Agrees, Known, Extend
  <2>4. Placed(T)'
    BY <1>2, <1>4, <2>1 DEF Agrees, Placed
  <2>5. ASSUME Nested(S) PROVE Nested(T)'
    <3>1. T.chans[id] = p /\ \A c \in channel_list_ : T.chans[c.id] = S.chans[c.id]
      BY <1>2 DEF Extend, Agrees, Known
    <3>2. \A c \in channel_list_ :
            /\ T.chans[c.id] = Root => c.parent = Null
            /\ T.chans[c.id] # Root => \E q \in channel_list_ : q.obj = c.parent /\ q.id = T.chans[c.id]
      BY <2>5, <3>1 DEF Nested
    <3> QED  BY <2>1, <2>2, <3>1, <3>2 DEF Nested
  <2>6. ASSUME Listed(S) PROVE Listed(T)'
    BY <1>2, <1>4, <2>1, <2>6 DEF Listed, Extend
  <2>7. CASE id = Root
    <3>1. Listed(T)'
      BY <1>1, <1>2, <2>1, <2>7 DEF Listed, Extend
    <3> QED  BY <1>2, <1>4, <2>3, <2>4, <2>5, <3>1 DEF Handled, Agrees
  <2>8. CASE id # Root
    <3>1. (\E c \in channel_list_' : c.id = Root) => \E c \in channel_list_ : c.id = Root
      BY <2>1, <2>8
    <3> QED  BY <1>2, <1>4, <2>3, <2>4, <2>5, <2>6, <3>1 DEF Handled, Agrees
  <2> QED  BY <2>7, <2>8
<1> QED  BY <1>3, <1>4 DEF HandleNewChannel

LEMMA KnownChannelHandled ==
  ASSUME IInv, fault = "none", NEW S, NEW T, Agrees(S), Effect(S, Head(inbox), T),
         ~reparented => IsNews(S, Head(inbox)), HandleKnownChannel
  PROVE  Handled(T)
<1>1. PICK id \in Chans, p \in Chans :
        Head(inbox) = ChannelState(id, p) /\ T = Snapshot(Extend(S.chans, id, p), S.users)
  BY DEF HandleKnownChannel, Handles, Effect, Enters, Comments, Leaves, Announces, Removes,
     UserState, UserRemove, ChannelState, ChannelRemove
<1>2. /\ Head(inbox).id = id /\ Head(inbox).type = "ChannelState"
      /\ T.chans = Extend(S.chans, id, p) /\ T.users = S.users
      /\ \E c \in channel_list_ : c.id = id
  BY <1>1 DEF ChannelState, Snapshot, HandleKnownChannel, IsNewChannel, FindChannel
<1>3. UNCHANGED <<channel_list_, user_list_, fault, connected, reparented>>
  BY DEF HandleKnownChannel, Handles, listVars, serverVars, connVars
<1>4. id \in DOMAIN S.chans /\ reparented /\ DOMAIN T.chans = DOMAIN S.chans
  BY <1>2 DEF Agrees, Known, IsNews, Extend
<1> QED  BY <1>2, <1>3, <1>4 DEF Handled, Agrees, Known, Placed, Listed

----------------------------------------------------------------------------
(* Each event of the server sends what leads to the state after it. *)
News(msgs) ==
  /\ Event(msgs) /\ msgs \in Seq(Messages)
  /\ Leads(Now, msgs, Snapshot(channels', users'), ~reparented')

LEMMA UserEntersLeads ==
  ASSUME IInv, NEW s \in Sessions, NEW id, UserEnters(s, id)
  PROVE  \E msgs : News(msgs)
<1> DEFINE m == UserState(s, {id})
<1>1. /\ id \in DOMAIN channels /\ id \in Chans /\ channels' = channels
      /\ users' = Extend(users, s, id) /\ Event(<<m>>)
  BY DEF UserEnters, IInv, ServerOK
<1>2. <<m>> \in Seq(Messages)
  BY <1>1, StateTyped, OneMessage
<1>3. Effect(Now, m, Snapshot(channels', users'))
  BY <1>1 DEF Effect, Enters, Now, Snapshot
<1>4. ~reparented' => IsNews(Now, m)
  BY DEF IsNews, UserState
<1> HIDE DEF m
<1> QED  BY <1>1, <1>2, <1>3, <1>4, LeadsOne DEF News

LEMMA UserCommentsLeads ==
  ASSUME IInv, NEW s \in Sessions, UserComments(s)
  PROVE  \E msgs : News(msgs)
<1> DEFINE m == UserState(s, Unset)
<1>1. s \in DOMAIN users /\ UNCHANGED <<channels, users>> /\ Event(<<m>>)
  BY DEF UserComments
<1>2. <<m>> \in Seq(Messages)
  BY OneMessage DEF Messages, UserComment
<1>3. Effect(Now, m, Snapshot(channels', users'))
  BY <1>1 DEF Effect, Comments, Now, Snapshot
<1>4. ~reparented' => IsNews(Now, m)
  BY DEF IsNews, UserState
<1> HIDE DEF m
<1> QED  BY <1>1, <1>2, <1>3, <1>4, LeadsOne DEF News

LEMMA UserLeavesLeads ==
  ASSUME IInv, NEW s \in Sessions, UserLeaves(s)
  PROVE  \E msgs : News(msgs)
<1> DEFINE m == UserRemove(s)
<1>1. s \in DOMAIN users /\ channels' = channels /\ users' = Without(users, s) /\ Event(<<m>>)
  BY DEF UserLeaves
<1>2. <<m>> \in Seq(Messages)
  BY OneMessage DEF Messages, UserRemoves
<1>3. Effect(Now, m, Snapshot(channels', users'))
  BY <1>1 DEF Effect, Leaves, Now, Snapshot
<1>4. ~reparented' => IsNews(Now, m)
  BY DEF IsNews, UserRemove
<1> HIDE DEF m
<1> QED  BY <1>1, <1>2, <1>3, <1>4, LeadsOne DEF News

LEMMA ChannelStateTyped ==
  ASSUME NEW id \in Chans, NEW p \in Chans
  PROVE  <<ChannelState(id, p)>> \in Seq(Messages)
  BY OneMessage DEF Messages, ChannelStates

LEMMA ChannelAddedLeads ==
  ASSUME IInv, NEW id \in Ids, NEW p, ChannelAdded(id, p)
  PROVE  \E msgs : News(msgs)
<1> DEFINE m == ChannelState(id, p)
<1>1. /\ id \notin DOMAIN channels /\ p \in DOMAIN channels /\ id # Root /\ id \in Chans /\ p \in Chans
      /\ users' = users /\ channels' = Extend(channels, id, p) /\ Event(<<m>>)
  BY ConstantsAssumption DEF ChannelAdded, IInv, ServerOK, Chans, Root
<1>2. <<m>> \in Seq(Messages)
  BY <1>1, ChannelStateTyped
<1>3. Effect(Now, m, Snapshot(channels', users'))
  BY <1>1 DEF Effect, Announces, Now, Snapshot
<1>4. ~reparented' => IsNews(Now, m)
  BY <1>1 DEF IsNews, ChannelState, Now, Snapshot
<1> HIDE DEF m
<1> QED  BY <1>1, <1>2, <1>3, <1>4, LeadsOne DEF News

LEMMA ChannelMovedLeads ==
  ASSUME IInv, TreeOK, NEW id \in Ids, NEW p, ChannelMoved(id, p)
  PROVE  \E msgs : News(msgs)
<1> DEFINE m == ChannelState(id, p)
<1>1. /\ id \in DOMAIN channels /\ p \in DOMAIN channels /\ id # Root /\ id \in Chans /\ p \in Chans
      /\ users' = users /\ channels' = [channels EXCEPT ![id] = p]
      /\ reparented' /\ Event(<<m>>)
  BY ConstantsAssumption DEF ChannelMoved, IInv, ServerOK, Chans, Root
<1>2. <<m>> \in Seq(Messages)
  BY <1>1, ChannelStateTyped
<1>3. Effect(Now, m, Snapshot(channels', users'))
  <2>1. channels' = Extend(channels, id, p)
    <3>1. channels' = [z \in DOMAIN channels |-> IF z = id THEN p ELSE channels[z]]
      BY <1>1
    <3>2. DOMAIN channels \cup {id} = DOMAIN channels
      BY <1>1
    <3> QED  BY <3>1, <3>2 DEF Extend
  <2> QED  BY <1>1, <2>1 DEF Effect, Announces, Now, Snapshot
<1>4. ~reparented' => IsNews(Now, m)
  BY <1>1
<1> HIDE DEF m
<1> QED  BY <1>1, <1>2, <1>3, <1>4, LeadsOne DEF News

(* Moving the users of a channel one after the other moves all of them. *)
LEMMA MovesLead ==
  ASSUME NEW C, NEW U, NEW p \in DOMAIN C \cap Chans, NEW n \in Nat, NEW q \in [1..n -> DOMAIN U],
         DOMAIN U \subseteq Sessions, U = [s \in DOMAIN U |-> U[s]], NEW news
  PROVE  LET msgs == [i \in 1..n |-> UserState(q[i], {p})]
         IN  /\ msgs \in Seq(Messages)
             /\ Leads(Snapshot(C, U), msgs,
                      Snapshot(C, [s \in DOMAIN U |-> IF \E j \in 1..n : q[j] = s THEN p ELSE U[s]]), news)
<1> DEFINE msgs == [i \in 1..n |-> UserState(q[i], {p})]
           V(i) == [s \in DOMAIN U |-> IF \E j \in 1..i : q[j] = s THEN p ELSE U[s]]
           h == [i \in 0..n |-> Snapshot(C, V(i))]
<1>1. \A i \in 1..n : q[i] \in Sessions /\ UserState(q[i], {p}) \in Messages
  BY StateTyped
<1>2. msgs \in [1..n -> Messages]
  BY <1>1
<1>3. msgs \in Seq(Messages) /\ Len(msgs) = n
  <2> HIDE DEF msgs
  <2>1. msgs \in Seq(Messages) /\ DOMAIN msgs = 1..n
    BY <1>2, Sequence
  <2> QED  BY <2>1
<1>4. h[0] = Snapshot(C, U)
  BY DEF Snapshot
<1>5. ASSUME NEW i \in 1..n
      PROVE  Effect(h[i - 1], msgs[i], h[i]) /\ IsNews(h[i - 1], msgs[i])
  <2>1. i - 1 \in 0..n /\ i \in 0..n /\ 1..i = 1..(i - 1) \cup {i} /\ msgs[i] = UserState(q[i], {p})
    OBVIOUS
  <2>2. V(i) = Extend(V(i - 1), q[i], p)
    <3>1. /\ DOMAIN V(i - 1) = DOMAIN U /\ DOMAIN U \cup {q[i]} = DOMAIN U
          /\ \A s \in DOMAIN U : (\E j \in 1..i : q[j] = s) <=> s = q[i] \/ \E j \in 1..(i - 1) : q[j] = s
      <4>1. q[i] \in DOMAIN U
        OBVIOUS
      <4>2. \A j : j \in 1..i <=> j = i \/ j \in 1..(i - 1)
        BY <2>1
      <4>3. \A s \in DOMAIN U : (\E j \in 1..i : q[j] = s) <=> s = q[i] \/ \E j \in 1..(i - 1) : q[j] = s
        BY <4>2, Zenon
      <4> QED  BY <4>1, <4>3
    <3>2. \A s \in DOMAIN U : (IF \E j \in 1..i : q[j] = s THEN p ELSE U[s])
                               = IF s = q[i] THEN p ELSE V(i - 1)[s]
      BY <3>1
    <3>3. Extend(V(i - 1), q[i], p) = [s \in DOMAIN U |-> IF s = q[i] THEN p ELSE V(i - 1)[s]]
      <4> HIDE DEF V
      <4> QED  BY <3>1 DEF Extend
    <3> QED  BY <3>2, <3>3
  <2>3. Enters(Snapshot(C, V(i - 1)), UserState(q[i], {p}), Snapshot(C, V(i)))
    <3> HIDE DEF V
    <3> QED  BY <1>1, <2>2 DEF Enters, Snapshot
  <2>4. IsNews(h[i - 1], msgs[i])
    BY <2>1 DEF IsNews, UserState
  <2> QED  BY <2>1, <2>3, <2>4 DEF Effect
<1>6. h[n] = Snapshot(C, V(n))
  OBVIOUS
<1> HIDE DEF msgs, h, V
<1>7. Through(h, msgs, news)
  BY <1>3, <1>5 DEF Through
<1>8. Leads(Snapshot(C, U), msgs, Snapshot(C, V(n)), news)
  BY <1>3, <1>4, <1>6, <1>7 DEF Leads
<1> QED  BY <1>3, <1>8 DEF msgs, V

(* An order lists every element, each once. *)
LEMMA OrderCovers ==
  ASSUME NEW S, IsFiniteSet(S), NEW q \in Orders(S)
  PROVE  \E n \in Nat : /\ q \in [1..n -> S] /\ \A s \in S : \E i \in 1..n : q[i] = s
                        /\ \A i, j \in 1..n : q[i] = q[j] => i = j
<1> DEFINE n == Cardinality(S)
<1>1. n \in Nat /\ q \in [1..n -> S] /\ \A i, j \in 1..n : q[i] = q[j] => i = j
  BY FS_CardinalityType DEF Orders
<1>2. Cardinality(1..n) = n
  BY <1>1, FS_Interval
<1>3. q \in Injection(1..n, S)
  BY <1>1 DEF Injection, IsInjective
<1>4. q \in Surjection(1..n, S)
  BY <1>2, <1>3, FS_Injection
<1>5. \A s \in S : \E i \in 1..n : q[i] = s
  BY <1>4 DEF Surjection
<1> QED  BY <1>1, <1>5

LEMMA ServerFinite ==
  ASSUME ServerOK
  PROVE  IsFiniteSet(DOMAIN channels) /\ IsFiniteSet(DOMAIN users)
<1>1. IsFiniteSet(Chans)
  BY ConstantsAssumption, FS_AddElement DEF Chans
<1> QED  BY <1>1, ConstantsAssumption, FS_Subset DEF ServerOK

LEMMA ChannelRemovedLeads ==
  ASSUME IInv, TreeOK, NEW id \in Ids, ChannelRemoved(id)
  PROVE  \E msgs : News(msgs)
<1> DEFINE inside == {s \in DOMAIN users : users[s] = id}
           p == channels[id]
<1>1. /\ id \in DOMAIN channels /\ id # Root /\ IsLeaf(id) /\ id \in Chans
      /\ channels' = Without(channels, id) /\ reparented' = reparented
      /\ users' = [s \in DOMAIN users |-> IF s \in inside THEN p ELSE users[s]]
  BY DEF ChannelRemoved, Chans
<1>2. PICK q \in Orders(inside) :
        Event([i \in DOMAIN q |-> UserState(q[i], {p})] \o <<ChannelRemove(id)>>)
  BY DEF ChannelRemoved
<1>3. IsFiniteSet(inside)
  BY ServerFinite, FS_Subset DEF IInv
<1>4. PICK n \in Nat : q \in [1..n -> inside] /\ \A s \in inside : \E i \in 1..n : q[i] = s
  <2> HIDE DEF inside
  <2> QED  BY <1>3, OrderCovers
<1> DEFINE moves == [i \in 1..n |-> UserState(q[i], {p})]
           V == [s \in DOMAIN users |-> IF \E j \in 1..n : q[j] = s THEN p ELSE users[s]]
<1>5. p \in DOMAIN channels \cap Chans /\ p # id
  BY <1>1 DEF IInv, ServerOK, IsLeaf
<1>6. moves \in Seq(Messages) /\ Leads(Now, moves, Snapshot(channels, V), ~reparented')
  <2>1. q \in [1..n -> DOMAIN users] /\ DOMAIN users \subseteq Sessions
    BY <1>4 DEF IInv, ServerOK
  <2>2. users = [s \in DOMAIN users |-> users[s]]
    BY DEF TreeOK
  <2> HIDE DEF p
  <2> QED  BY <1>5, <2>1, <2>2, MovesLead DEF Now
<1>7. V = users'
  <2>1. \A s \in DOMAIN users : (\E j \in 1..n : q[j] = s) <=> s \in inside
    BY <1>4
  <2> HIDE DEF inside, p
  <2> QED  BY <1>1, <2>1
<1>8. \A s \in DOMAIN users' : users'[s] # id
  BY <1>1, <1>5
<1>9. <<ChannelRemove(id)>> \in Seq(Messages)
  <2>1. ChannelRemove(id) \in Messages
    BY <1>1 DEF Messages, ChannelRemoves
  <2> QED  BY <2>1, OneMessage
<1>10. Removes(Snapshot(channels, users'), ChannelRemove(id), Snapshot(channels', users'))
  BY <1>1, <1>8 DEF Removes, Snapshot, IsLeaf
<1>11. IsNews(Snapshot(channels, users'), ChannelRemove(id))
  BY DEF IsNews, ChannelRemove
<1>12. Leads(Snapshot(channels, users'), <<ChannelRemove(id)>>, Snapshot(channels', users'), ~reparented')
  BY <1>10, <1>11, LeadsOne DEF Effect
<1>13. Event(moves \o <<ChannelRemove(id)>>)
  BY <1>2, <1>4
<1> HIDE DEF moves, V, p, inside
<1>14. Leads(Now, moves \o <<ChannelRemove(id)>>, Snapshot(channels', users'), ~reparented')
  BY <1>6, <1>7, <1>9, <1>12, LeadsOn
<1>15. moves \o <<ChannelRemove(id)>> \in Seq(Messages)
  BY <1>6, <1>9
<1> QED  BY <1>13, <1>14, <1>15 DEF News

LEMMA ServerLeads ==
  ASSUME IInv, TreeOK, Server
  PROVE  (\E msgs : News(msgs)) /\ (reparented => reparented')
<1>1. \E msgs : News(msgs)
  BY UserEntersLeads, UserCommentsLeads, UserLeavesLeads, ChannelAddedLeads, ChannelMovedLeads,
     ChannelRemovedLeads DEF Server
<1>2. reparented => reparented'
  BY DEF Server, UserEnters, UserComments, UserLeaves, ChannelAdded, ChannelMoved, ChannelRemoved
<1> QED  BY <1>1, <1>2

----------------------------------------------------------------------------
(* What a client that connects is told leads from nothing to the server's    *)
(* state.                                                                    *)
Nobody == [s \in {} |-> Root]
Nothing == Snapshot([id \in {} |-> Root], Nobody)

LEMMA ChannelsLead ==
  ASSUME IInv, TreeOK, NEW q \in ParentsFirst
  PROVE  LET msgs == [i \in DOMAIN q |-> ChannelState(q[i], channels[q[i]])]
         IN  msgs \in Seq(Messages) /\ Leads(Nothing, msgs, Snapshot(channels, Nobody), TRUE)
<1>1. PICK n \in Nat : /\ q \in [1..n -> DOMAIN channels]
                       /\ \A c \in DOMAIN channels : \E i \in 1..n : q[i] = c
                       /\ \A i, j \in 1..n : q[i] = q[j] => i = j
  BY ServerFinite, OrderCovers DEF IInv, ParentsFirst
<1>2. \A i, j \in 1..n : channels[q[i]] = q[j] => j <= i
  BY <1>1 DEF ParentsFirst
<1> DEFINE msgs == [i \in 1..n |-> ChannelState(q[i], channels[q[i]])]
           Had(i) == {c \in DOMAIN channels : \E j \in 1..i : q[j] = c}
           C(i) == [c \in Had(i) |-> channels[c]]
           h == [i \in 0..n |-> Snapshot(C(i), Nobody)]
<1>3. /\ Root \in DOMAIN channels /\ DOMAIN channels \subseteq Chans
      /\ \A c \in DOMAIN channels : channels[c] \in DOMAIN channels
      /\ channels = [c \in DOMAIN channels |-> channels[c]]
      /\ \A c \in DOMAIN channels : channels[c] = c <=> c = Root
  BY DEF IInv, ServerOK, TreeOK
<1>4. \A i \in 1..n : q[i] \in DOMAIN channels /\ q[i] \in Chans /\ channels[q[i]] \in Chans
  BY <1>1, <1>3
<1>5. msgs \in Seq(Messages) /\ Len(msgs) = n
  <2>1. msgs \in [1..n -> Messages]
    BY <1>4 DEF Messages, ChannelStates
  <2> HIDE DEF msgs
  <2>2. msgs \in Seq(Messages) /\ DOMAIN msgs = 1..n
    BY <2>1, Sequence
  <2> QED  BY <2>2
<1>6. Had(0) = {} /\ Had(n) = DOMAIN channels
  <2>1. Had(0) = {}
    OBVIOUS
  <2>2. \A c \in DOMAIN channels : \E i \in 1..n : q[i] = c
    BY <1>1
  <2>3. Had(n) = DOMAIN channels
    BY <2>2
  <2> QED  BY <2>1, <2>3
<1>7. h[0] = Nothing
  <2>1. C(0) = [c \in {} |-> Root]
    BY <1>6
  <2> QED  BY <2>1 DEF Nothing
<1>8. h[n] = Snapshot(channels, Nobody)
  <2>1. C(n) = channels
    BY <1>3, <1>6
  <2> QED  BY <2>1
<1>9. ASSUME NEW i \in 1..n
      PROVE  Effect(h[i - 1], msgs[i], h[i]) /\ IsNews(h[i - 1], msgs[i])
  <2> DEFINE c == q[i]
             k == i - 1
  <2>1. /\ k \in 0..n /\ i \in 0..n /\ msgs[i] = ChannelState(c, channels[c])
        /\ h[k] = Snapshot(C(k), Nobody) /\ h[i] = Snapshot(C(i), Nobody)
    OBVIOUS
  <2>2. \A j : j \in 1..i <=> j = i \/ j \in 1..k
    OBVIOUS
  <2>3. c \notin Had(k)
    BY <1>1
  <2>4. Had(i) = Had(k) \cup {c}
    <3>1. \A d \in DOMAIN channels : (\E j \in 1..i : q[j] = d) <=> d = c \/ \E j \in 1..k : q[j] = d
      BY <2>2, Zenon
    <3> HIDE DEF k
    <3> QED  BY <1>4, <3>1
  <2>5. C(i) = Extend(C(k), c, channels[c])
    <3>1. DOMAIN C(k) \cup {c} = Had(i) /\ \A d \in Had(k) : C(k)[d] = channels[d]
      BY <2>4
    <3>2. Extend(C(k), c, channels[c]) = [d \in Had(i) |-> IF d = c THEN channels[c] ELSE C(k)[d]]
      <4> HIDE DEF C, Had, k
      <4> QED  BY <3>1 DEF Extend
    <3>3. \A d \in Had(i) : (IF d = c THEN channels[c] ELSE C(k)[d]) = channels[d]
      BY <2>4, <3>1
    <3> HIDE DEF k, c, Had
    <3> QED  BY <3>2, <3>3
  <2>6. CASE c = Root
    <3>1. Had(k) = {}
      <4> SUFFICES ASSUME NEW j \in 1..k PROVE FALSE
        OBVIOUS
      <4>1. PICK l \in 1..n : channels[q[1]] = q[l]
        <5>1. 1 \in 1..n
          OBVIOUS
        <5> QED  BY <1>1, <1>3, <1>4, <5>1
      <4>2. 1 \in 1..n /\ l <= 1
        BY <1>2, <4>1
      <4>3. l = 1
        BY <4>2
      <4>4. q[1] = Root
        BY <1>3, <1>4, <4>1, <4>2, <4>3
      <4>5. i = 1
        BY <1>1, <2>6, <4>2, <4>4
      <4> QED  BY <4>5
    <3>2. DOMAIN C(k) = {} /\ channels[c] = Root /\ c \in Chans
      BY <1>3, <1>4, <2>6, <3>1
    <3> HIDE DEF C, k
    <3>3. Announces(Snapshot(C(k), Nobody), ChannelState(c, channels[c]), Snapshot(C(i), Nobody))
      BY <1>4, <2>5, <2>6, <3>2 DEF Announces, Snapshot, Nobody
    <3>4. IsNews(Snapshot(C(k), Nobody), ChannelState(c, channels[c]))
      BY <3>2 DEF IsNews, ChannelState, Snapshot
    <3> HIDE DEF h, msgs, c
    <3> QED  BY <2>1, <3>3, <3>4 DEF Effect, k
  <2>7. CASE c # Root
    <3>1. channels[c] \in Had(k)
      <4>1. PICK j \in 1..n : channels[c] = q[j]
        BY <1>1, <1>3, <1>4
      <4>2. j <= i /\ j # i
        BY <1>2, <1>3, <1>4, <2>7, <4>1
      <4>3. j \in 1..k
        BY <4>2
      <4> QED  BY <1>3, <1>4, <4>1, <4>3
    <3>2. DOMAIN C(k) = Had(k)
      OBVIOUS
    <3> HIDE DEF C, k, Had
    <3>3. Announces(Snapshot(C(k), Nobody), ChannelState(c, channels[c]), Snapshot(C(i), Nobody))
      BY <1>4, <2>5, <2>7, <3>1, <3>2 DEF Announces, Snapshot
    <3>4. IsNews(Snapshot(C(k), Nobody), ChannelState(c, channels[c]))
      BY <2>3, <3>2 DEF IsNews, ChannelState, Snapshot
    <3> HIDE DEF h, msgs, c
    <3> QED  BY <2>1, <3>3, <3>4 DEF Effect, k
  <2> QED  BY <2>6, <2>7
<1>10. msgs = [i \in DOMAIN q |-> ChannelState(q[i], channels[q[i]])]
  BY <1>1
<1> HIDE DEF msgs, h, C
<1>11. Through(h, msgs, TRUE)
  BY <1>5, <1>9 DEF Through
<1>12. Leads(Nothing, msgs, Snapshot(channels, Nobody), TRUE)
  BY <1>5, <1>7, <1>8, <1>11 DEF Leads
<1> QED  BY <1>5, <1>10, <1>12

LEMMA UsersLead ==
  ASSUME IInv, TreeOK, NEW r \in Orders(DOMAIN users)
  PROVE  LET msgs == [i \in DOMAIN r |-> UserState(r[i], {users[r[i]]})]
         IN  msgs \in Seq(Messages) /\ Leads(Snapshot(channels, Nobody), msgs, Now, TRUE)
<1>1. PICK n \in Nat : /\ r \in [1..n -> DOMAIN users]
                      /\ \A s \in DOMAIN users : \E i \in 1..n : r[i] = s
  BY ServerFinite, OrderCovers DEF IInv
<1> DEFINE msgs == [i \in 1..n |-> UserState(r[i], {users[r[i]]})]
           Had(i) == {s \in DOMAIN users : \E j \in 1..i : r[j] = s}
           U(i) == [s \in Had(i) |-> users[s]]
           h == [i \in 0..n |-> Snapshot(channels, U(i))]
<1>3. /\ DOMAIN users \subseteq Sessions /\ users = [s \in DOMAIN users |-> users[s]]
      /\ \A s \in DOMAIN users : users[s] \in DOMAIN channels /\ users[s] \in Chans
  BY DEF IInv, ServerOK, TreeOK
<1>4. \A i \in 1..n : /\ r[i] \in DOMAIN users /\ r[i] \in Sessions
                     /\ users[r[i]] \in DOMAIN channels /\ users[r[i]] \in Chans
  BY <1>1, <1>3
<1>5. msgs \in Seq(Messages) /\ Len(msgs) = n
  <2>1. msgs \in [1..n -> Messages]
    BY <1>4, StateTyped
  <2> HIDE DEF msgs
  <2>2. msgs \in Seq(Messages) /\ DOMAIN msgs = 1..n
    BY <2>1, Sequence
  <2> QED  BY <2>2
<1>6. Had(0) = {} /\ Had(n) = DOMAIN users
  <2>1. \A s \in DOMAIN users : \E j \in 1..n : r[j] = s
    BY <1>1
  <2>2. Had(n) = DOMAIN users
    BY <2>1
  <2>3. Had(0) = {}
    OBVIOUS
  <2> QED  BY <2>2, <2>3
<1>7. h[0] = Snapshot(channels, Nobody)
  <2>1. U(0) = Nobody
    BY <1>6 DEF Nobody
  <2> QED  BY <2>1
<1>8. h[n] = Now
  <2>1. U(n) = users
    BY <1>3, <1>6
  <2> QED  BY <2>1 DEF Now
<1>9. ASSUME NEW i \in 1..n
      PROVE  Effect(h[i - 1], msgs[i], h[i]) /\ IsNews(h[i - 1], msgs[i])
  <2> DEFINE s == r[i]
             k == i - 1
  <2>1. /\ k \in 0..n /\ i \in 0..n /\ msgs[i] = UserState(s, {users[s]})
        /\ h[k] = Snapshot(channels, U(k)) /\ h[i] = Snapshot(channels, U(i))
    OBVIOUS
  <2>2. \A j : j \in 1..i <=> j = i \/ j \in 1..k
    OBVIOUS
  <2>3. Had(i) = Had(k) \cup {s}
    <3>1. \A d \in DOMAIN users : (\E j \in 1..i : r[j] = d) <=> d = s \/ \E j \in 1..k : r[j] = d
      BY <2>2, Zenon
    <3> HIDE DEF k
    <3> QED  BY <1>4, <3>1
  <2>4. U(i) = Extend(U(k), s, users[s])
    <3>1. DOMAIN U(k) \cup {s} = Had(i) /\ \A d \in Had(k) : U(k)[d] = users[d]
      BY <2>3
    <3>2. Extend(U(k), s, users[s]) = [d \in Had(i) |-> IF d = s THEN users[s] ELSE U(k)[d]]
      <4> HIDE DEF U, Had, k
      <4> QED  BY <3>1 DEF Extend
    <3>3. \A d \in Had(i) : (IF d = s THEN users[s] ELSE U(k)[d]) = users[d]
      BY <2>3, <3>1
    <3> HIDE DEF k, s, Had
    <3> QED  BY <3>2, <3>3
  <2> HIDE DEF U, k
  <2>5. Enters(Snapshot(channels, U(k)), UserState(s, {users[s]}), Snapshot(channels, U(i)))
    BY <1>4, <2>4 DEF Enters, Snapshot
  <2> QED  BY <2>1, <2>5 DEF Effect, IsNews, UserState, k
<1>10. msgs = [i \in DOMAIN r |-> UserState(r[i], {users[r[i]]})]
  BY <1>1
<1> HIDE DEF msgs, h, U
<1>11. Through(h, msgs, TRUE)
  BY <1>5, <1>9 DEF Through
<1>12. Leads(Snapshot(channels, Nobody), msgs, Now, TRUE)
  BY <1>5, <1>7, <1>8, <1>11 DEF Leads
<1> QED  BY <1>5, <1>10, <1>12

LEMMA ToldLeads ==
  ASSUME IInv, TreeOK, NEW msgs \in Announcements, NEW news
  PROVE  msgs \in Seq(Messages) /\ Leads(Nothing, msgs, Now, news)
<1>1. PICK q \in ParentsFirst, r \in Orders(DOMAIN users) : msgs = Told(q, r)
  BY DEF Announcements
<1> DEFINE a == [i \in DOMAIN q |-> ChannelState(q[i], channels[q[i]])]
           b == [i \in DOMAIN r |-> UserState(r[i], {users[r[i]]})]
<1>2. a \in Seq(Messages) /\ Leads(Nothing, a, Snapshot(channels, Nobody), TRUE)
  BY ChannelsLead
<1>3. b \in Seq(Messages) /\ Leads(Snapshot(channels, Nobody), b, Now, TRUE)
  BY UsersLead
<1>4. msgs = a \o b
  BY <1>1 DEF Told
<1> HIDE DEF a, b
<1>5. Leads(Nothing, a \o b, Now, TRUE)
  BY <1>2, <1>3, LeadsOn
<1>6. Leads(Nothing, a \o b, Now, news)
  BY <1>5, LeadsAnyhow
<1> QED  BY <1>2, <1>3, <1>4, <1>6

----------------------------------------------------------------------------
(* The messages under way follow the server through every step. *)
Track == IInv /\ TreeOK /\ Follows /\ CrashOnlyStale

LEMMA InitTrack == Init => Track
<1> SUFFICES ASSUME Init PROVE Track
  OBVIOUS
<1>1. TreeOK
  BY DEF Init, TreeOK
<1>2. Agrees(Now)
  BY DEF Init, Agrees, Known, Placed, Nested
<1>3. inbox = <<>> /\ Leads(Now, inbox, Now, ~reparented)
  BY LeadsNowhere DEF Init
<1>4. Follows
  BY <1>2, <1>3 DEF Follows
<1> QED  BY <1>1, <1>4, InitInv DEF Track, Init, CrashOnlyStale

LEMMA ServerFollows ==
  ASSUME Track, fault = "none", Server
  PROVE  Follows' /\ CrashOnlyStale'
<1>1. PICK msgs : News(msgs)
  BY ServerLeads DEF Track
<1>2. /\ reparented => reparented'
      /\ UNCHANGED <<channel_list_, user_list_, fault, connected, stale>>
      /\ inbox' = IF connected THEN inbox \o msgs ELSE inbox
  BY <1>1, ServerLeads DEF Track, News, Event, listVars, connVars
<1>3. ASSUME ~stale
      PROVE  \E S, T : Agrees(S)' /\ Leads(S, inbox', T, ~reparented') /\ (connected' => T = Now')
  <2>1. PICK S, T : Agrees(S) /\ Leads(S, inbox, T, ~reparented) /\ (connected => T = Now)
    BY <1>3 DEF Track, Follows
  <2>2. Agrees(S)'
    BY <1>2, <2>1 DEF Agrees, Known, Placed, Nested, Listed
  <2>3. Leads(S, inbox, T, ~reparented')
    BY <1>2, <2>1, LeadsAnyhow
  <2>4. CASE ~connected
    BY <1>2, <2>2, <2>3, <2>4
  <2>5. CASE connected
    <3>1. Leads(S, inbox \o msgs, Snapshot(channels', users'), ~reparented')
      BY <1>1, <2>1, <2>3, <2>5, LeadsOn DEF News, Track, IInv, ServerOK
    <3>2. Now' = Snapshot(channels', users')
      BY DEF Now
    <3> QED  BY <1>2, <2>2, <2>5, <3>1, <3>2
  <2> QED  BY <2>4, <2>5
<1> QED  BY <1>2, <1>3 DEF Follows, CrashOnlyStale

LEMMA ConnectFollows ==
  ASSUME Track, fault = "none", Connect
  PROVE  Follows' /\ CrashOnlyStale'
<1>1. UNCHANGED <<channels, users, reparented, channel_list_, user_list_, fault>>
  BY DEF Connect, serverVars, listVars
<1>2. PICK msgs \in Announcements : inbox' = inbox \o msgs
  BY DEF Connect
<1>3. msgs \in Seq(Messages) /\ Leads(Nothing, msgs, Now, ~reparented)
  BY ToldLeads DEF Track
<1>4. ASSUME ~stale'
      PROVE  Agrees(Nothing)' /\ Leads(Nothing, inbox', Now', ~reparented')
  <2>1. inbox = <<>> /\ channel_list_ = {} /\ user_list_ = {}
    BY <1>4 DEF Connect
  <2>2. Agrees(Nothing)'
    BY <1>1, <2>1 DEF Agrees, Known, Placed, Nested, Listed, Nothing, Nobody, Snapshot
  <2>3. inbox' = msgs /\ Now' = Now
    BY <1>1, <1>2, <1>3, <2>1 DEF Now
  <2> QED  BY <1>1, <1>3, <2>2, <2>3
<1> QED  BY <1>1, <1>4 DEF Follows, CrashOnlyStale

LEMMA DisconnectFollows ==
  ASSUME Track, fault = "none", Disconnect
  PROVE  Follows' /\ CrashOnlyStale'
<1>1. /\ UNCHANGED <<reparented, fault, stale>> /\ ~connected'
      /\ channel_list_' = {} /\ user_list_' = {}
  BY DEF Disconnect, serverVars
<1>2. ASSUME ~stale
      PROVE  \E S, T : Agrees(S)' /\ Leads(S, inbox', T, ~reparented')
  <2>1. PICK n \in 0..Len(inbox) : inbox' = SubSeq(inbox, 1, n)
    BY DEF Disconnect
  <2>2. PICK S, T : Leads(S, inbox, T, ~reparented)
    BY <1>2 DEF Track, Follows
  <2>3. PICK U : Leads(S, SubSeq(inbox, 1, n), U, ~reparented)
    BY <2>2, LeadsPart DEF Track, IInv, ServerOK
  <2>4. Agrees(S)'
    BY <1>1 DEF Agrees, Known, Placed, Nested
  <2> QED  BY <1>1, <2>1, <2>3, <2>4
<1> QED  BY <1>1, <1>2 DEF Follows, CrashOnlyStale

HandlesOne ==
  \/ HandleUserRemove \/ HandleNewUser \/ HandleUserMoved \/ HandleUserComment
  \/ HandleChannelRemove \/ HandleNewChannel \/ HandleKnownChannel

LEMMA HandlerFollows ==
  ASSUME Track, fault = "none", HandlesOne
  PROVE  Follows' /\ CrashOnlyStale'
<1>1. /\ inbox # <<>> /\ inbox' = Tail(inbox)
      /\ UNCHANGED <<channels, users, reparented, connected, stale>>
  BY DEF HandlesOne, HandleUserRemove, HandleNewUser, HandleUserMoved, HandleUserComment,
     HandleChannelRemove, HandleNewChannel, HandleKnownChannel, Handles, serverVars, connVars
<1>2. CASE stale
  BY <1>1, <1>2 DEF Follows, CrashOnlyStale
<1>3. CASE ~stale
  <2>1. PICK S, T : Agrees(S) /\ Leads(S, inbox, T, ~reparented) /\ (connected => T = Now)
    BY <1>3 DEF Track, Follows
  <2>2. PICK U : /\ Effect(S, Head(inbox), U) /\ (~reparented => IsNews(S, Head(inbox)))
                 /\ Leads(U, Tail(inbox), T, ~reparented)
    BY <1>1, <2>1, LeadsHead DEF Track, IInv, ServerOK
  <2>3. Handled(U)
    BY <2>1, <2>2, UserRemoveHandled, NewUserHandled, UserMovedHandled, UserCommentHandled,
       ChannelRemoveHandled, NewChannelHandled, KnownChannelHandled DEF Track, HandlesOne
  <2>4. Leads(U, inbox', T, ~reparented') /\ (connected' => T = Now')
    BY <1>1, <2>1, <2>2 DEF Now
  <2> QED  BY <1>1, <2>3, <2>4 DEF Handled, Follows, CrashOnlyStale
<1> QED  BY <1>2, <1>3

LEMMA StepTrack == Track /\ [Next]_vars => Track'
<1> SUFFICES ASSUME Track, [Next]_vars PROVE Track'
  OBVIOUS
<1>1. IInv' /\ TreeOK'
  BY StepInv, TreeStep DEF Track
<1>2. CASE UNCHANGED vars
  <2>1. UNCHANGED vars /\ Now' = Now
    BY <1>2 DEF Now, vars, serverVars
  <2> QED  BY <1>1, <2>1 DEF Track, Follows, CrashOnlyStale, Agrees, Known, Placed, Nested, Listed,
           vars, serverVars, listVars, connVars
<1>3. CASE Next
  BY <1>1, <1>3, ServerFollows, ConnectFollows, DisconnectFollows, HandlerFollows
     DEF Next, Client, HandlesOne, Track
<1> QED  BY <1>2, <1>3

LEMMA TrackAlways == Spec => []Track
  BY InitTrack, StepTrack, PTL DEF Spec

(* The lists hold channels and users the server has told of, and every weak  *)
(* pointer is null or was made from a Channel object.                        *)
THEOREM TypeCorrect == Spec => []TypeOK
<1>1. IInv => TypeOK
  BY DEF IInv, ServerOK, ListsOK, ConnOK, Channels, Users, Chans, TypeOK
<1> QED  BY <1>1, InvAlways, PTL

(* A session and a channel id occur once in the client's lists, also after   *)
(* Disconnect and with messages that are left from an earlier connection.    *)
THEOREM UniqueEntriesAlways == Spec => []UniqueEntries
<1>1. IInv => UniqueEntries
  BY DEF IInv
<1> QED  BY <1>1, InvAlways, PTL

(* On a connection that started clean no weak pointer that the callbacks and *)
(* the application follow is null: a user's channel is in the list, and so   *)
(* is the parent a channel got, as long as the server moves no channel.      *)
THEOREM PointersAliveAlways == Spec => []PointersAlive
<1>1. Track => PointersAlive
  <2> SUFFICES ASSUME Track, fault = "none", ~stale
               PROVE  /\ \A u \in user_list_ : Lock(u.channel) # {}
                      /\ ~reparented => \A c \in channel_list_ : c.parent # Null => Lock(c.parent) # {}
    BY DEF PointersAlive
  <2>1. PICK S : Agrees(S)
    BY DEF Track, Follows
  <2> QED  BY <2>1 DEF Agrees, Placed, Nested, Lock
<1> QED  BY <1>1, TrackAlways, PTL

(* With every message handled the lists are the server's channels and users, *)
(* each user in its channel and each channel below its parent.               *)
THEOREM RosterMatchesAlways == Spec => []RosterMatches
<1>1. Track => RosterMatches
  <2> SUFFICES ASSUME Track, connected, ~stale, inbox = <<>>, fault = "none"
               PROVE  /\ IdOf(channel_list_) = DOMAIN channels
                      /\ {u.session : u \in user_list_} = DOMAIN users
                      /\ \A u \in user_list_ : IdOf(Lock(u.channel)) = {users[u.session]}
                      /\ ~reparented => \A c \in channel_list_ :
                           IdOf(Lock(c.parent)) = {channels[c.id]} \ {Root}
    BY DEF RosterMatches, Track, CrashOnlyStale
  <2>1. PICK S : Agrees(S) /\ S = Now
    BY LeadsBack DEF Track, Follows
  <2>2. S.chans = channels /\ S.users = users
    BY <2>1 DEF Now, Snapshot
  <2>3. IdOf(channel_list_) = DOMAIN channels
    BY <2>1, <2>2 DEF Agrees, Known, Listed, IdOf
  <2>4. {u.session : u \in user_list_} = DOMAIN users
    BY <2>1, <2>2 DEF Agrees, Placed, Listed
  <2>5. \A c \in channel_list_ : Lock(c.obj) = {c} /\ c.obj # Null
    BY DEF Lock, Null, Track, IInv, UniqueEntries, ListsOK, Channels
  <2>6. \A c \in channel_list_ : IdOf(Lock(c.obj)) = {c.id}
    BY <2>5 DEF IdOf
  <2>7. \A u \in user_list_ : IdOf(Lock(u.channel)) = {users[u.session]}
    BY <2>1, <2>2, <2>6 DEF Agrees, Placed
  <2>8. IdOf(Lock(Null)) = {}
    BY <2>5 DEF Lock, IdOf
  <2>9. ASSUME ~reparented, NEW c \in channel_list_
        PROVE  IdOf(Lock(c.parent)) = {channels[c.id]} \ {Root}
    BY <2>1, <2>2, <2>6, <2>8, <2>9 DEF Agrees, Nested
  <2> QED  BY <2>3, <2>4, <2>7, <2>9
<1> QED  BY <1>1, TrackAlways, PTL

(* The assertions on names the server sends hold, and no null pointer is     *)
(* followed, as long as the client is connected and started clean.           *)
THEOREM CrashOnlyStaleAlways == Spec => []CrashOnlyStale
<1>1. Track => CrashOnlyStale
  BY DEF Track
<1> QED  BY <1>1, TrackAlways, PTL
=============================================================================
