# libmumbleclient in TLA+

libmumbleclient is a C++ client library for the Mumble voice chat protocol, with a sample
application (`main.cc`) that joins a server, answers text messages, records tunnelled
audio and plays it back. This directory holds TLA+ models of the library, the TLC
configurations that check them on small instances, and proofs, checked by TLAPS, that what
matters most holds for every value of the constants.

Line numbers (`client.cc:304`) refer to the files of the repository.

| Module | Models | Run | Proofs |
|---|---|---|---|
| `MumbleClient` | connection, send queue, ping chain, callbacks, event loop | `client`, `client_initial` | `MumbleClientProofs` |
| `Outbox` | what sending promises (abstract) | the property `OutboxSpec` of `client` | `MumbleClientProofs` |
| `RecvFraming` | the byte stream cut into messages | `framing` | `RecvFramingProofs` |
| `Delivery` | what receiving promises (abstract) | the property `DeliverySpec` of `framing` | `RecvFramingProofs` |
| `Roster` | channel and user lists against the server's | `roster` | `RosterProofs` |
| `CryptState`, `MCCryptState` | nonces of the UDP channel, history and counters | `crypt_nonces`, `crypt_ahead` | `CryptStateProofs` |
| `OCB`, `MCOCB` | the cipher mode: `ocb_encrypt` and `ocb_decrypt` | `ocb` | `OCBProofs` |
| `Resync` | the client's answer to a resynchronisation | `resync` | `MumbleClientProofs` |
| `Varint`, `PacketDataStream`, `MCPacketDataStream` | variable-length integers, the stream over a buffer | `stream` | `PacketDataStreamProofs` |
| `VoicePacket`, `MCVoicePacket` | voice packets built, recorded, scanned, cut | `voice` | `PacketDataStreamProofs` |
| `Playback` | playback threads beside the event loop | `playback` | `PlaybackProofs` |
| `Relay` | relay thread, its queue and condition variable | `relay` | `RelayProofs` |

## 1. The system

### Components, their state and their operations

**Control connection** (`client.cc`, `client.h`). `MumbleClient` owns the TLS socket, the
UDP socket, `state_` (new, handshake completed, authenticated), `send_queue_`,
`recv_buffer_`, `ping_timer_` and the user's callbacks. Public operations: `Connect`,
`Disconnect`, `SendMessage` and the operations built on it (`SetComment`, `JoinChannel`),
`SendRawUdpTunnel`, `SendUdpMessage`. Handlers: `ReadHandler`, `ReadHandlerContinue`,
`ProcessTCPSendQueue`, `DoPing`. It is correct when a connection carries each queued
message once, in order, with the handshake first; when no message waits without anybody to
write it; when pings go on; when `Disconnect` lets `Run` end; and when no assertion or
null pointer is hit.

**Event loop** (`client_lib.cc`). A singleton that owns the `io_service`. `Run` calls
`io_service::run`, which executes ready handlers on the calling thread and returns when no
operation is outstanding. `Shutdown` resets it. Correct when everything asynchronous is
served and `Run` returns when there is nothing left.

**Receive framing** (`client.cc:326-379`). A header is 6 bytes (type and length), then the
body. Reads bring at least what was asked for and often more. Correct when the messages
handled are the server's, in order, once, whole and without undue delay.

**Channel and user lists** (`client.cc:176-281`, `channel.h`, `user.h`). Lists of shared
objects that hold weak pointers to each other, changed by four message handlers. Correct
when they are the server's once its messages have been handled, entries are unique and no
pointer that the code follows is null.

**UDP encryption** (`CryptState.cpp`, `client.cc:135-148`). OCB-AES128 with an implicit
nonce: of the 16-byte IV one byte travels, the receiver rebuilds the rest from
`decrypt_iv` and remembers one byte per slot in `decrypt_history`. Correct when no
datagram is accepted twice, one that is new and not too old is accepted, the counters add
up, decrypting undoes encrypting for messages of every length, an altered packet is
noticed, and an answer to a resynchronisation does not make things worse.

**Packet data stream** (`PacketDataStream.h`). Variable-length integers and bounds checks
over a byte buffer. Correct when reading gives what was written and neither side goes past
the buffer.

**Sample application** (`main.cc`). Callbacks for text messages and tunnelled audio, a
queue of recorded packets, a playback thread started and stopped by text commands,
`scanPacket`. Correct when one playback thread uses the client at a time, packets are cut
where the sender put them and the frames of a packet are marked properly.

**Relay** (`main.cc:277-310`). A thread that sends queued voice frames, woken through a
condition variable. `main` has it in comments only (`main.cc:328-331`). Correct when no
wakeup is lost and packets go out once and in order.

**Logging, settings, message numbers, schema, build files.** Output, plain data, macros.

### How they interact

One thread, inside `Run`, executes all handlers of the connection; a handler is never
interrupted by another one. It calls the application through callbacks, and the
application calls the public operations again from inside them. The kernel completes reads
and writes and expires the timer at any time, and what has completed cannot be taken back:
`cancel()` and `close()` turn only *pending* operations into errors. The server's bytes
come cut up arbitrarily. Datagrams are lost, repeated and reordered. The playback thread,
if started, calls `SendUdpMessage` concurrently with the event loop, without a lock.

### What is hard

* handlers that completed before `Disconnect` and run after it;
* two parties that start writes (`SendMessage` and the completion handler), which agree
  only through "the queue was empty";
* state that outlives a connection: `recv_buffer_`, messages queued before `Connect`,
  `decrypt_history`, the lists;
* calls from callbacks, in the middle of the loop of `ReadHandler`;
* bytes of later messages that arrive together with earlier ones;
* one byte of nonce against loss, repetition, reordering and wrap-around;
* weak pointers to channels whose ids are used again.

`PROJECT.json` lists these hazards one by one with their lines, and with each the
properties about it, or why there is none. Some of them do happen in the code as it is.
There the property says exactly when: its exception is the hazard, and it does not hold the
code to anything beyond. So it is with messages queued before `Connect` (`QueueHasWriter`;
`InitialMessagesSent` is violated by it), handlers that outlive `Disconnect` and calls in
the wrong state (`CrashOnlyOffline`), a ping that had expired (`DisconnectDrains`), bytes of
an earlier connection (`InFrame`, `CrashOnlyStale`), resynchronisations that move
`decrypt_iv` back (`NoReplay`, `Accounting`), overlapping playbacks and keys
(`NonceOnce`), a client deleted under a playback (`CrashOnlyAbandoned`) and two threads in
`send_queue_` (`WritesUnlessRaced`, `RelayProgress`).

## 2. The models

### MumbleClient

One client object and its event loop. `pc` says where the thread is: in the application
(`app`), in `io_service::run` (`loop`), between two messages of `ReadHandler` (`parse`,
`next`) or in a callback. An asynchronous operation is a record or a counter: `writes`,
`read` and `waits` hold the outstanding ones with their results, *pending* until the
kernel completes them and then *ok* or *err* until the loop runs the handler. `Disconnect`
changes pending ones to errors and leaves completed ones alone, as Asio does.

* `SendMessages` is `SendMessage` and `SendRawUdpTunnel` (`client.cc:485-519`): append,
  and start a write if the queue was empty and the handshake is past. `Connect` and
  `ServerSync` send with it as the code does, in one action with everything else they do.
* `ProcessTCPSendQueue` pops the front and starts the next write (`client.cc:302-324`).
  The error branch only logs.
* `DoPing`, `DoPingError`, `ArmPing` are the ping chain: `expires_from_now` cancels the
  pending wait, not an expired one (`client.cc:78-94`).
* `Parse...` take one message from `recv_buffer_` (in this model whole messages) and call
  the callback; kinds that do not matter here are `Other`.
* `Connect`, `ConnectionError` and `HandshakeError` are the three ways `Connect` ends,
  with the socket pointers each leaves behind. The constructor leaves the pointers unset:
  they are `wild` until then.
* `DeletedStream`: `Disconnect` deletes the TLS stream at once, but the operations it
  cancelled pass through that stream again before their handlers run. The memory is freed,
  so the handler runs or the process dies.
* `fault` records a death of the process: a null, wild or freed pointer followed, a pop of
  an empty deque, a failed assertion. The model stops there. (`RecvFraming` and `Roster`
  ask other questions and leave the freed stream out.)

`Torn` names a connection on which a write has failed, when half a message may be out: the
error leaves the message at the front, so everything sent later believes that a write is
in progress and nothing follows the half one (`NothingAfterTorn`).

`Outbox` is the promise: while there is a socket it is given the messages in the order in
which they were queued, each once, and none is lost, whatever fails; without one it is
given nothing. `MumbleClient` implements it under the mapping of the queue to what the
socket was not given yet (`Waiting`): the front of `send_queue_` stays there while it is
written, and for good if that fails, so once a connection has begun to write the queue
waits without its front. `FifoOnce` follows messages by their numbers up to the last one
written; `Outbox` says besides that those behind it are still there. It says too what is
lost: `Disconnect` drops the queue, and a write that had completed before makes
`ProcessTCPSendQueue` pop a message queued after it (`Lose`).

`wire`, `sent`, `rcvd`, `synced`, `connects`, `leftover` are history: no guard that models
the code reads them (the bounds do, and `synced` limits the server).

### RecvFraming and Delivery

Bytes are positions in the stream of the current connection, without content.
`recv_buffer_` is the interval of `size` positions before `arrived`; after a reconnect it
can start at a negative position, which stands for bytes of the connection before.
`Arrives` is one `read_some`: a read is complete when it has got as many bytes as it
needs, *not counting what the buffer already held* (that is how `transfer_at_least` works
with a streambuf) and each `read_some` brings up to `ReadMax` bytes, so bytes of later
messages come too. A header is read properly if the front of the buffer is the start of a
message; everything else is `garbage`, after which nothing is assumed.

`Delivery` is the promise: messages are handled in order, once, and none before its last
byte has arrived. `RecvFraming` implements it under the mapping of the stream to the end
positions of its messages (`Ends`); `arrived` and `handled` are the same variables.

### CryptState

An IV is its low byte `lo` and the number `hi` formed by the other fifteen, so the carry
and borrow loops of `CryptState.cpp` add 1 to or subtract 1 from `hi`; `hi` is unbounded
(the code's wraps after 2^120 carries). `InOrder`, `Late`, `Ahead`, `Rebuilt` and `Repeat`
are the branches of `decrypt` (`CryptState.cpp:104-193`) with its arithmetic, byte size
`Base`, half range `Half` and window `Window` being constants (256, 128, 30). `sent` is
the set of packets of the current key; a packet may arrive at any time, any number of
times or never, so loss, repetition and reordering need no action of their own. The
counters have the width of `unsigned int` (`UIntMod`).

The tag verifies exactly when the receiver rebuilds the sender's IV under the same key;
that this is so for what OCB does is the subject of the next module.

### OCB

One message is encrypted, may have one block altered on its way, and is decrypted; a step
is one round of a loop of `CryptState.cpp:195-324`. A block is the set of its bits that
are 1, so `XOR` is the symmetric difference, and the doubling `S2` shifts the number that
the byte swaps make of the words and adds `Poly`. The block cipher AES is a constant: any
permutation of the blocks. `Log`, `Order` and `Three` say where a block lies on the cycle
of doubling and are used by an assumption, never by the model. The rest of 0 to 16 bytes
is copied into a block whose other bytes are pad (`Filled`, `Copied`); its length is 0
only if the message is empty, since the loops end at `len <= AES_BLOCK_SIZE`.

### Resync

The handler of `CryptSetup` (`client.cc:135-148`) with its three branches. `getEncryptIV`
is passed as a `const char*`: `CString` takes the bytes from `encrypt_iv` on up to the
first zero byte, which may lie behind `encrypt_iv`, in `decrypt_iv`. The peer is external;
it hears a packet at most `Half` ahead, as `CryptState` does, and takes an answer that has
the length of a nonce.

### Varint and PacketDataStream

`Varint` translates `operator<<` and `operator>>` of `uint64_t` and the integer types
mapped onto them, on words of eight bytes, so that shifts and masks pick bytes and the
arithmetic is exact at every width; and `pds_int_len` of the sample application, whose
table (`MeasuredLen`) gives the form `1110xxxx` three bytes. The several calls of `next()`
in one expression are taken from left to right, which compilers do and the language leaves
open (`FromTheRight` is the other order and breaks `Readable`). `PacketDataStream` is one
stream with the operations in any order, writing, reading, `append`, `skip`, `rewind`,
`truncate`; `log` remembers what has been written and not overwritten. A `float` is its
bits.

### VoicePacket

The packets of the sample application: `BuildPacket` is a round of `playMp3`, `Record`
`RawUdpTunnelCallback`, `PlayPacket` a round of `playbackFunction` with `scanPacket`,
`RelayPacket` `RelayTunnelCallback`. Other clients' packets and what the server puts in
front are external (`doc/udp-protocol.txt`); a packet's first byte, its type and target,
is one of `Flags`, which `WithoutOne` overwrites and `RelayPacket` keeps. `FramesOf` is
that document's reader. The decoder, the codec and the file system are outside; the
`memcpy` of `main.cc:103` has overlapping operands and is taken to copy upwards.

### Playback

The threads that `main.cc` starts on "play", beside the event loop with its text messages,
`CryptSetup` and `Disconnect`. `TextMessageCallback` is as many steps as matter: `Play`
sets the flag, `Start` starts the thread, `Comment` is the `SetComment` at the end of
every callback but that of "quit", and in between (`loop`) the threads run on.
`SetComment` asserts once `Disconnect` has been called, and messages behind a "quit" are
still handled; assertions are compiled in (`CMakeLists.txt` sets a debug build). Loop and
threads share `playback`, the UDP socket and `encrypt_iv` and take no lock, so an action is one
access to a shared variable: testing the flag, reading and writing a byte of `encrypt_iv`
with its carry, encrypting, copying byte 0 in front, sending, resetting the flag. `setKey`
writes the nonce and the key schedule in two steps. `send` may throw (`fault` "network"),
may meet the deleted socket ("socket"), and after `delete mc` the client itself is gone
("client").

### Relay

`RelayThread` and `RelayTunnelCallback` step by step: lock, test, wait, the three uses of
`send_queue_` in `SendRawUdpTunnel`, pop. `async_write` is given a message, the front:
`writes` has what each outstanding write carries, `wire` all that was ever given, `popped`
what a completion popped, which is whatever is at the front by then. A message popped while
another write carries it is freed, and the write reads it or the process dies. The loop's
own messages have negative numbers. The lock guards `relay_queue`; nothing guards
the `send_queue_` of the other connection, which the event loop uses too. Waiting gives up
the lock and may end without a notification.

### Roster

The server has channels (a tree) and users, and announces changes; the client handles the
messages with the four handlers of `client.cc:176-281`. Channels are numbered objects, so
that a weak pointer to a removed channel is null also when the id is in use again.
`Disconnect` empties the lists and leaves any part of the messages behind, which is what
`recv_buffer_` may hold. The server's order (a parent before its children, users moved out
before a channel is removed, the root never removed) is Murmur's and an assumption of the
model, external to the repository.

### How the models fit together

`MumbleClient` takes whole messages off `recv_buffer_`; `RecvFraming` shows that this is
what the bytes amount to, in order and once (`DeliverySpec`), and what it leaves out is
delay: messages behind the first may wait (`LagBound`). `MumbleClient` allows for that,
since `ReadHandlerEnds` may leave messages in the buffer at any point. `Roster` refines
one kind of message that `MumbleClient` calls `Other`, and its `Disconnect` is that of
`MumbleClient` seen from the lists. `CryptState` is driven by the `CryptSetup` messages
(`SetKey`, `SendNonce`, `SetDecryptIV`), which `Resync` models at the client's side with
the nonce's bytes; `OCB` is what `CryptState` takes for granted of the tag. `Playback` is
`CryptState`'s `encrypt` taken apart into its accesses, with what several threads make of
them; the contents of its packets are in `VoicePacket`, which shares `Varint` with
`PacketDataStream`. `Relay`'s `send_queue_` is `MumbleClient`'s, on a connection that
stays up, shared with a thread.

## 3. The runs

Every bound is a constant of its module, or a guard of the environment, and no handler of
the code is bounded.

| Run | Bounds | Question |
|---|---|---|
| `client` | 5 messages sent, 3 received, 2 connections | Does the send queue write each message once and in order, lose none and never lose its writer; do pings survive; where can the process die; is everything queued written; does `Run` return after `Disconnect`? |
| `client_initial` | 4, 3, 2 | Does `Connect` send its initial messages? (violated) |
| `framing` | 3 messages of 0, 1, 9 or at least 12 bytes, headers of 6, reads of 1 to 8, 2 connections | Are the messages handled the server's, in order, once and whole, and in time? |
| `roster` | 2 users, 2 channels and the root, 4 changes, 2 connections | Are the lists the server's, and all pointers alive? |
| `crypt_nonces` | bytes of 6 values, window 3, 2 keys, 9 packets each, 7 accepted, 1 resynchronisation | Is no packet accepted twice, and do the counters add up? |
| `crypt_ahead` | the same | Is a new packet ahead of all others decrypted? (violated) |
| `ocb` | blocks of 3 one-bit bytes, up to 2 whole blocks and a rest of 0 to 3, 3 nonces | Does decryption undo encryption; is a change noticed; do two blocks ever share an offset? |
| `resync` | nonces of 2 bytes of 3 values, 2 packets ahead heard | Does an answer ever separate the peers; when does it help? |
| `stream` | 11 bytes, 3 operations, 13 values, 5 types | Is read what was written, a cut noticed, a shortage counted? |
| `voice` | 3 songs, 2 packets received, packets of 2 frames, 2 first bytes, 5 sessions, 2 numbers | Are songs sent whole and in order; which packets are cut in the wrong place? |
| `playback` | 2 threads of at most 2 packets, nonces of 2 bytes of 2 values, 2 keys | What can go wrong with threads, flag, socket and nonce, and when? |
| `relay` | 3 packets, 2 messages of the loop | Is a wakeup lost; is every packet sent, once and in order; what if both threads start a write? |

**Why the bounds are enough.** `client`: two connections are needed for what one leaves to
the next, and three messages for order behind the two of the handshake; five leave room
for messages queued before `Connect`, a ping and the application's. Three messages
received are a `ServerSync`, one whose callback disconnects and one behind it. `framing`:
a body of 0 bytes exercises the immediate completion, 1 a rest shorter than a header, 9
one that takes more than one `read_some`, reads of up to 8 bytes bring an end, a whole
header and a beginning at once; three messages are needed for one to be left behind by the
one before and for enough bytes to arrive behind it. `crypt_nonces`: with a byte of 6
values nine packets cross the wrap of byte 0 more than once, the nonces in `MCCryptState`
lie before a carry, before a wrap of byte 1 (`hi % Base`) to zero and at the zero that the
history starts with; the window of 3 and the half of 3 make late, too late and ambiguous
packets all occur. `roster`: two users and two channels are the least with a subchannel, a
removal with users inside, an id used again and a reparented channel. `ocb`: three bits
are the least with a primitive polynomial of more than one shift, two whole blocks and a
rest make every kind of block meet every other. `resync`: with three values a nonce
without a zero byte still carries; two bytes give strings that end inside, at the end of
and behind the nonce. `stream`: eleven bytes hold the longest varint and part of another,
three operations write, overwrite or cut, and read; the values lie on both sides of every
boundary. `voice`: talking in CELTAlpha and a whisper in CELTBeta, sessions of one to five
bytes, numbers on both sides of 2^21, frames whose bytes look like headers, songs that
fill their last packet and songs that do not. `playback`: two threads with two packets
each interleave in all their accesses, a nonce of two bytes of two values carries, and
would come back without the carry, and two keys let `setKey` fall between any two steps;
that a key's nonces come again once all are used is beyond these bounds and part of the
theorem. The second thread can be started behind the "quit". `relay`: with three packets
one is being sent, one queued and one arriving; two writes of one front need one packet
and one message of the loop, and a second packet is lost behind them. The proofs of
section 5 lift most of these properties to all bounds.

**What the runs show.**

* The send queue has one write at a time, which carries its front (`OneWrite`); what is
  written is what was queued, in order (`FifoOnce`), nothing queued on a connection is lost
  before `Disconnect` (`OutboxSpec`), Version and Authenticate come first
  (`HandshakeFirst`), and with the link up a message in the queue always has a writer
  (`QueueHasWriter`), with the exception below. An authenticated client always has a ping
  coming (`KeepAlive`).
* The process can die only off line, after a `Connect` that failed before it made the UDP
  socket, or in a connection that began with bytes in `recv_buffer_` (`CrashOnlyOffline`).
  After a write that failed nothing else is written on the connection
  (`NothingAfterTorn`). What is queued is written (`SendProgress`), and after `Disconnect`
  `Run` returns unless a ping had expired (`DisconnectDrains`).
* The framing arithmetic is right however the bytes are cut (`InFrame`, `DeliverySpec`),
  one read at a time (`OneRead`), and a message is handled before the bytes behind it fill
  one `read_some` (`HandledInTime`): what is left behind waits for a header, no longer.
* A datagram is accepted once (`NoReplay`) unless a resynchronisation moves `decrypt_iv`
  back, since packets in order are not looked up. `uiGood + uiLost` is the number of
  packets that `decrypt_iv` has passed (`Accounting`) as long as there is none.
* The lists agree with the server's (`RosterMatches`), entries are unique and pointers
  alive, except that the parent of a channel goes out of date when the server moves it,
  because updates of known channels are ignored.
* OCB's decryption undoes its encryption for every length (`RoundTrip`); a packet with one
  block altered never has the sender's tag (`ChangeDetected`); no two blocks of a packet
  are masked alike, but for the nonce that the cipher maps to zero (`OffsetsDiffer`).
* An answer to a resynchronisation never moves the peer to a nonce that is not the
  client's (`HeardAgain`), but the C string makes it useless in most cases: it has the
  length of a nonce exactly if `encrypt_iv` has no zero byte and `decrypt_iv` begins with
  one (`AnswerHelps`). No document promises more, so this is no finding.
* What a stream has written it reads back, whatever was called in between (`Readable`);
  the beginning of a value is never taken for a value (`CutNoticed`); `size` and
  `undersize` add up (`UndersizeExact`).
* A song is sent whole and in order (`SongInOrder`). `LateMarkOnly`, `PlayedExact` and
  `RelayedExact` say exactly which packets go wrong: findings 3 to 6.
* The flag always has a thread that will reset it (`FlagHasThread`); a playback breaks off
  only at a "stop" or because it ran together with another one (`BreaksOffForAReason`);
  client and socket are pulled away only from a playback that a "quit" found running, or
  the socket from one that a "play" started behind the "quit", before the assertion at the
  end of the same callback ends the process (`CrashOnlyAbandoned`); if one playback runs
  at a time and no key arrives while it encrypts, the nonce shown is the one used, and one
  is used again only when its key has none left (`NonceOnce`).
* The relay thread never sleeps over a packet (`NoLostWakeup`). No packet is ever given to
  `async_write` behind a newer one (`RelayedInOrder`). As long as the two threads do not
  meet in `send_queue_`, each is given once, there is one write, of the front, for a queue
  that is not empty (`WritesUnlessRaced`), and all are written (`RelayProgress`). When they
  meet, a packet may wait for a write nobody starts, an empty queue be popped, or the same
  front be given twice; the second completion then pops a packet that was never sent. A
  packet is lost only behind such a doubled message.

**Findings** (in `PROJECT.json`; 1 and 2 are the runs with the expected result
"violation", the others are equivalences, whose wrong side the passing run reaches):

1. `client_initial`: a message sent before `Connect` stays in the queue, so `Connect`'s
   own messages are queued behind it, `SendMessage` takes the non-empty queue for a write
   in progress and nothing is ever written (`client.cc:491`, against the comment at
   `client.cc:449`).
2. `crypt_ahead`: a new packet is dropped as a repeat if byte 1 of its IV equals a slot of
   the history that was never used, or that an earlier key left (`CryptState.cpp:171`,
   against the comment at `CryptState.cpp:157`).
3. `voice`, `RelayedExact`: `pds_int_len` takes the form `1110xxxx` for three bytes, so a
   session of that form is cut off one byte short (`main.cc:48`, against
   `doc/udp-protocol.txt:62`); `scanPacket` goes wrong in the same way.
4. `voice`, `PlayedExact`: the playback removes one byte of the session, however long it
   is (`main.cc:103`, against `doc/udp-protocol.txt:15`).
5. `voice`, `PlayedExact`: the playback makes every packet one of CELTAlpha, talking to the
   channel, whatever codec it was in and whoever it was whispered to (`main.cc:102`,
   against `doc/udp-protocol.txt:41-52`). The relay keeps type and target.
6. `voice`, `LateMarkOnly`: the last frame of a packet that is not full is marked as if
   another one followed (`main.cc:206`, against the comment at `main.cc:205`).

**Further counterexamples.** Five more configurations ask questions that TLC answers with
a counterexample; each is the reason for an exception in a property of the passing runs.

| Configuration | Module | Counterexample |
|---|---|---|
| `MumbleClientComment.cfg` | `MumbleClient` | After a callback has called `Disconnect`, the loop of `ReadHandler` goes on with the messages in `recv_buffer_`; the callback of the next one calls `SetComment`, which asserts (`client.cc:532`). |
| `RecvFramingStale.cfg` | `RecvFraming` | `Disconnect` does not empty `recv_buffer_`; the next connection parses the rest of the old one as its first header (`client.cc:465`). |
| `RecvFramingRest.cfg` | `RecvFraming` | The read for the rest of a message brings bytes of later messages too (`client.cc:330`, against the comment at `client.cc:328`), which `ReadHandlerContinue` leaves until six more bytes arrive. |
| `RosterKnown.cfg` | `Roster` | Messages left in the buffer by `Disconnect` name users or channels of the cleared lists and fail the assertions (`client.cc:196` and others). |
| `PlaybackOverlap.cfg` | `Playback` | "play", "stop" and "play" while the first thread sleeps: both threads increment `encrypt_iv`, one increment is lost and two packets have one nonce (`CryptState.cpp:92`). |

Every property of a passing run is accompanied by a mutant in `PROJECT.json`: a definition
of the model changed as a plausible slip in the code would change it, with which TLC finds
the property violated.

## 4. Fairness

* `MumbleClient!FairSpec`: the event loop keeps executing ready handlers
  (`io_service::run` does), callbacks return, and a write or a read on a failed link
  completes. The actions of the loop exclude one another but for the choice of the next
  ready handler, and each one uses up a completion, so weak fairness of the disjunction is
  enough. The server, the timer, the failure of the link and what the application calls
  are not fair: nothing in the code makes them happen.
* `RecvFraming!FairSpec`: only the handlers are fair. `HandledInTime` is therefore stated
  in bytes that *have* arrived.
* `Relay!FairSpec`: both threads run and writes complete. A thread that waits for the lock
  gets it because the other one's steps are few and it gives the lock back; new packets
  and pings are not fair.
* The other modules have safety properties only.

## 5. The proofs

TLAPS checks all of them; each is for every value of the constants that satisfies the
named assumption of its module. Type invariants (`TypeOK`), and the helper invariants
`WholeHeader`, `LagBound` and `RecentHistory`, are in no run: the proofs cover them.

**`MumbleClientProofs`** (assumption: the bounds are naturals). The properties are not
inductive. `IInv` adds what ties the queue to the socket:

* `Numbered`: the queue holds the last messages numbered, without gaps;
* `Started`: the last message written is the front of the queue, or, if the queue is
  empty, the last message numbered. So the next write continues the numbering;
* `Opening`: when Version is all that was written, Authenticate is the second in the
  queue;
* `NeverStarted`: a connection past the handshake on which nothing was written has a
  non-empty queue and no write (finding 1 as an invariant);
* `LinkUp`, `Handshaken`: the link is up only on a live socket past the handshake, where
  no write has failed;
* `Unconnected`: a live socket without a connection (a failed `Connect`) has no operation
  outstanding, so nothing can complete on it.

`Inductive` proves `Spec => []IInv`, one lemma for each kind of step that changes the
queue or the socket, and from it follow `OneWriteAlways`, `FifoOnceAlways`,
`HandshakeFirstAlways`, `QueueHasWriterAlways`, `KeepAliveAlways`; `TypeCorrect` is
`TypeOK`. `CrashOnlyOfflineAlways` needs one more invariant, `Announced`: text messages
and requests are in the buffer, or in a running callback, only after the `ServerSync` that
enters `kStateAuthenticated`, unless the connection began with leftovers.
`NothingAfterTornAlways` is an action property from the same `IInv`.

`OutboxImplemented` shows that every step maps to a step of `Outbox` or to a stutter. The
mapping takes the front of the queue for written as soon as the connection has written
anything. That is right because of `Started` and `NeverStarted`, which also say that a
message finds the queue empty only on a connection that writes (`SendMessageImplements`)
and that a completed write has something to pop that the socket was given
(`PopImplements`); `Unconnected` gives that `Connect` never begins again on a socket that
was written to (`Reconnects`).

The second part of the module is about `Resync`, which is the `CryptSetup` branch of
`ParseMessage` (assumption `NonceAssumption`: a byte has at least two values, a nonce one
byte, and the peer hears at least one packet ahead). `StringOfNonces` says what a C string
from `encrypt_iv` on can be: it ends before the first zero (`StringEnds`), so it has a
nonce's length exactly when the first zero is byte 0 of `decrypt_iv`, and then it is
`encrypt_iv`. `ResyncInv` says besides types that `encrypt_iv` is `missed` packets beyond
the peer's nonce (`PeerBehind`), and `overtaken` packets beyond an answer that has the
right length (`AnswerBehind`), so that a peer that takes it is as close as it was told;
`answer` is the string of the nonces in `shown` (`AnswerShown`). `HeardAgainAlways` and
`AnswerHelpsAlways` follow. `Forward` is recursive in a LET; that it is what its recursion
says needs a solution to exist, which `NoncesExist` gives with the least-number principle.

**`RecvFramingProofs`** (assumption: header length and `ReadMax` positive, lengths
naturals). `IInv`: the stream is a chain of adjacent messages (`Chain`); the messages
handled are 1, 2, ... (`Handled`); whenever a header is or will be read, the front of the
buffer is the boundary after the last message handled (`Aligned`); a read for the rest of
a body has brought exactly what the buffer has gained since (`WaitingReads`); one read at
most (`Single`); a body that `ReadHandlerContinue` handles is complete (`Bodies`); a stale
connection gets no further than its first header (`Stale`). From it follow
`InFrameAlways`, `WholeHeaderAlways`, `OneReadAlways`, and `DeliveryImplemented`: every
step of `RecvFraming` maps to a step of `Delivery` or to a stutter. `LagBoundAlways` has
the hypothesis `H <= ReadMax`, true of the code (6 and 512), and an invariant of its own,
`Lag`.

**`CryptStateProofs`** (assumption: `Base = 2 * Half`, `1 < Half`, `0 < Window <= Half`).
`IInv` is `TypeOK /\ RecentHistory /\ NoReplay`. The argument: a packet whose rebuilt IV
is right is either beyond `decrypt_iv`, where nothing was accepted, or late and so among
the last `Base`, where the history holds byte 1 of what was accepted; within `Base`
consecutive IVs the low byte determines `hi`, so that a repeat is found. `NeverReplayed`,
`HistoryHolds` and `TypeCorrect` are the results.

`AccountingAlways` needs to know how many packets there are. With `P` packets accepted
under earlier keys, `uiGood` is `P` plus the packets accepted under this one, and `uiLost`
the rest of what `decrypt_iv` has passed, both modulo the width (`Counted`): a step that
takes `decrypt_iv` on by `Diff` adds 1 to the one and `Diff - 1` to the other, a late one
adds 1 and takes 1 away (`NumberNewest`), and arithmetic modulo the width lets the
subtraction through (`ModAdd`). That the two add up without the modulus is a counting
argument (`AcceptedFit`): each accepted IV lies beyond the key's first and not beyond
`decrypt_iv`, and IVs with the same number are the same, so no more were accepted than
`decrypt_iv` has passed, and the rest is not negative.

**`RosterProofs`** (assumption: sessions and ids are finite sets). `IInv` has the types of
the server's state, of the messages under way and of the lists, and `UniqueEntries`: a
handler adds an entry only for a session or an id that the list does not hold, and a
channel object is numbered afresh. `UniqueEntriesAlways` holds also for messages left from
an earlier connection.

`PointersAliveAlways`, `RosterMatchesAlways` and `CrashOnlyStaleAlways` are about lists
that lag behind the server by the messages in `inbox`, so the invariant (`Follows`, part
of `Track`) says that there is a sequence of snapshots of the server's channels and users,
one more than there are messages, such that the lists agree with the first one (`Agrees`),
each message leads from one to the next (`Effect`, `Leads`), and on a connection the last
one is the server's present state (`Now`). `TreeOK` says that only the root is its own
parent, by which the client tells a channel without a parent. A step of the server appends
snapshots, a handler takes the first one away (one lemma each, `...Handled`: the snapshot
before the message has what the handler's asserts and pointers need), and the messages of
a new connection lead from empty lists to the present ones (`ToldLeads`, by the order in
which the server tells channels).

**`OCBProofs`** (assumption: AES is a permutation of the blocks). The receiver goes
through the same offsets as the sender (`History`); until a block that was altered has
been read, its checksum is the sender's at that point, and ever after it differs, because
every other block adds the same to both (`Decrypting`). From it follow `RoundTripAlways`
and `ChangeDetectedAlways`.

`OffsetsDifferAlways` has a second assumption, `FieldAssumption`, about the polynomial:
doubling leads from any block that is not zero through all `Order` of them and back, so
that each has its place on the cycle (`Log`, modulo `Order`), and tripling is the same as
`Three` doublings; a packet is short enough that `Three` and its blocks together stay
below `Order`. `Twice`, `Thrice` and `NonZero` restate the doubling and tripling for the
assumption, and `S2Twice` and `S3Thrice` prove that the code's are these. Then the offset
of block i lies i - 1 places behind the first (`Spread`, `Logged`), the checksum's `Three`
behind the rest's (`SentOffsets`), and places so far apart and less than `Order` from each
other are different (`Around`, `Apart`). TLC evaluates the assumption for the polynomial
of degree 3 of the run. For the code's, x^128 + x^7 + x^2 + x + 1 (`0x87`,
`CryptState.cpp:238`), it was computed outside TLA+: x has order 2^128 - 1, and x + 1 is
its power number 338793687469689340204974836150077311399, which leaves room for more than
2^120 blocks.

**`PacketDataStreamProofs`** (no bound on values or capacity). `RoundTrip`: each of the
64-bit values, form by form, is decoded from its encoding, with the right length. `IInv`:
what `log` says was written is in the buffer (`Stored`), and the cursor and what was asked
for add up (`Asked`). From both follow `ReadableAlways`, `CutNoticedAlways`,
`UndersizeExactAlways`.

The second part of the module is about `VoicePacket`, whose packets begin with such
varints (assumption: sessions and numbers are 64-bit words, frames have fewer than 128
bytes, a client's packet has at least one, `playMp3` puts at least one into a packet).
What a sequence put behind another is part of (`PartAt`, `Parts`) gives every varint and
every header its place in a packet (`ServerForm`, `Walk`). `pds_int_len` measures a varint
one byte short exactly in the form 1110xxxx (`Measured`), and a packet cut at two places
is the same only if the places are (`Cut`), and only behind the same first byte
(`SameHead`): `RelayedExactAlways`. The functions that walk
over a packet are recursive in LET; that they are what their recursion says needs a
solution of it to exist, which `Descent` gives for each recursion whose argument grows up
to a bound, and what they find is shown frame by frame from the last one (`ScanCounts`,
`FramesSent`), with the least-number principle in place of induction. With the file's
entries as they were recorded (`Recorded`), `PlayedExactAlways` follows, for any first
byte. For a song
`SongInv` adds that all packets are full while frames are left: `SongInOrderAlways` and
`LateMarkOnlyAlways`, for songs of any length and any `Frames`.

An attempt at `RelayedExact` found its first statement wrong: the form was taken for a
length of four bytes, which a negative number, with its sign in front, has in another
form. The models' words did not include one; `FourBytes` now says which form it is.

**`PlaybackProofs`** (any number of threads, packets, digits and keys). `IInv` adds: a
thread in the body of its loop has a packet left (`HasPacket`); of two threads alive at
one time both are marked (`BothMarked`); with the flag down, or at its end with packets
left, a thread has its reason (`HasReason`); if no "quit" found a thread alive, a thread
outlives the connection only within the callback of the "play" that started it, and until
`Start` it has done nothing (`OnlyAbandoned`); and the client is deleted outside the
callbacks (`DeletedOutside`), so that the thread of such a "play" finds the socket gone but
never the client.

`NonceOnceAlways` follows the carry loop digit by digit: while one thread encrypts alone,
what its increment, come to some digit, will make of the IV (`From`) is the successor of
the nonce used last (`Due`), and of every nonce used before that one the successor has
been used (`Chain`; both are parts of `Steady`). The successor is a permutation of the IVs
with a single cycle (`OneCycle`, from the nonce of the least value in a set closed under
it), so one can only come again when all of them have been used.

**`RelayProofs`** (any number of packets). `IInv` adds: while the relay thread sends, its
queue has a front (`HasFront`); until the threads have met, there is the write that
`send_queue_` and the places of the two threads call for, and it carries the front
(`CalmUnlessRaced`); the loop's messages are numbered from 1 (`PingCounted`).
`RelayedInOrderAlways` follows the messages in one line: those popped, those in
`send_queue_` and those in `relay_queue` that are not sent yet (`LineInv`): an arriving
packet is appended to it, the loop's messages may come in anywhere, and no step takes
anything away. What `async_write` was given lies in this line (`GivenInv`): each write's
message up to the present front (`UpToFront`), none behind a newer packet
(`NotOvertaken`), in raced states too; and what was given is the line from its beginning,
each message once (`FirstOnce`), until one is given twice (`Doubled`). Each completion pops
one message, so as long as every message is given once, none is popped that was not.

**Only model-checked:** all liveness (`SendProgress`, `DisconnectDrains`, `HandledInTime`,
`RelayProgress`: out of this prover's reach). Every invariant and every action property of
the runs is proved. That the code's polynomial satisfies `FieldAssumption` is a
computation with numbers of 128 bits that neither TLC nor the provers can do.
Counterexamples of the findings are TLC's.

## 6. What is not modelled, and why

* **The block cipher AES** is external, any permutation; `genKey` is called by nothing.
* **A long gap.** After a loss of 128 packets or more a new packet can look late or be out
  of the window; the client never asks for a resynchronisation and can stay deaf. No
  document promises otherwise, so there is no property; the model has these behaviours.
* **Reconnecting early.** `Connect` from inside a callback, or before the handlers of an
  earlier connection have run, would let completions of one connection pop messages of the
  next. No caller in the repository reconnects at all. `MayConnect` keeps these calls out:
  the properties of `MumbleClient` are about applications that call `Connect` outside
  `Run` and after it has returned.
* **After an error.** A read error is only logged: `state_` stays `kStateAuthenticated`
  and no callback tells the application (`client.cc:344`). `udp_socket_->send` throws when
  the network refuses a datagram, and in a playback thread nobody catches it
  (`client.cc:526`). The models have both, but nothing in the repository says what should
  happen instead, so there is no property to hold the code to.
* **Messages of 0x7FFFF bytes and more** stop the client at `assert(false)`
  (`client.cc:355`): in the model (`TooLong`), and excepted in `HandledInTime`.
* **Calls in the wrong state.** An application that calls `SetComment` or `JoinChannel`
  before it is authenticated meets an assertion; `MumbleClient` has no such callers, other
  than those behind a `Disconnect`.
* **Inside OCB.** The four words of a block and their byte swaps are one number in `OCB`, so
  a slip in the carry from word to word would not show; and the tag is compared whole there,
  where the packet has three bytes of it.
* **The peer of a resynchronisation** (`Resync!Hears`) keeps no history, so it takes a
  nonce again where `CryptState` would look it up.
* **A peer that asks before the first key, or a key set while a question is open**: left
  out of `Resync`, whose peer is external in any case.
* **Data races beyond lost updates.** In `Playback` and `Relay` one access, or one
  operation on a deque, is a step; what two of them at the same instant may do to memory,
  and how the bytes of two outstanding writes mix, is left out.
* **The MP3 decoder, the codec, files, and the arithmetic of floating-point numbers.** The
  document calls bit 0x80 of a frame header "Terminator flag" (`doc/udp-protocol.txt:55`);
  in the code it means that another frame follows, and the models follow the code.
* **Protobuf, message texts, names, hashes, comments, logging, settings, host lookup and
  TLS verification**: data or output that no property depends on. Asio is modelled by what
  the code relies on.
* Build files and the schema are not behaviour.
* The singleton `MumbleClientLib`, `Shutdown` and more than one client on one event loop:
  clients share nothing but the loop.

## 7. Plan

Done: `MumbleClient` with `Outbox`, `RecvFraming` with `Delivery`, `CryptState`, `Roster`,
`PacketDataStream`, `VoicePacket`, `Playback`, `Relay`, `OCB` and `Resync`, with the
proofs of section 5.

Left: early reconnects (`MayConnect`), should a caller of the library need them.
