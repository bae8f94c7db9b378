---------------------------- MODULE VoicePacket -----------------------------
(***************************************************************************)
(* Voice packets in the sample application (main.cc): playMp3 builds them,   *)
(* RawUdpTunnelCallback records those of other users, playbackFunction cuts  *)
(* the session off and sends them again, RelayTunnelCallback cuts it off and *)
(* hands them on.  What travels to us is                                     *)
(*     flags, varint session, varint number, frames [, position]             *)
(* and what we send has no session.  A frame is a header, its length plus    *)
(* 128 if another frame follows, and that many bytes.  Threads, pauses and   *)
(* the playback flag are in module Playback; the decoder, the codec and the  *)
(* file system are outside.                                                  *)
(***************************************************************************)
EXTENDS Varint, SequencesExt, FiniteSets

CONSTANTS
  Songs,       (* songs: sequences of encoded frames                        *)
  Flags,       (* first bytes the server puts in front: type and target     *)
  Sessions,    (* sessions the server puts into packets, as words           *)
  Numbers,     (* sequence numbers other clients use, as words              *)
  Speeches,    (* sequences of frames that other clients put into a packet  *)
  Positions,   (* what may follow the frames                                *)
  Frames,      (* frames of a packet of playMp3, 6                          *)
  MaxPackets   (* packets received in a behaviour                           *)

(* celt_encode makes at most 127 bytes (main.cc:169), and a header of another *)
(* client has seven bits for a length.                                       *)
FramesTyped(fr) == fr \in Seq(Seq(Byte)) /\ \A i \in 1..Len(fr) : Len(fr[i]) < 128

ASSUME VoiceAssumption ==
  /\ \A fr \in Songs : FramesTyped(fr)
  /\ \A fr \in Speeches : FramesTyped(fr) /\ fr # <<>>
  /\ Flags \subseteq Byte /\ Sessions \subseteq Word /\ Numbers \subseteq Word
  /\ Positions \subseteq Seq(Byte)
  /\ Frames \in Nat \ {0} /\ MaxPackets \in Nat

VARIABLES
  song,         (* what is played                                           *)
  packet_list,  (* frames not yet sent                                      *)
  seq,
  built,        (* history: packets playMp3 sent                            *)
  recording,
  file,         (* udptunnel.out; an entry has its packet's bytes in data   *)
  fs,           (* entries the playback thread has read                     *)
  received,     (* number of packets received                               *)
  played,       (* history: packets sent by playbackFunction, with their pause *)
  relayed       (* history: packets given to the relay thread               *)

songVars == <<song, packet_list, seq, built>>
recordVars == <<recording, file, received>>
voiceVars == <<songVars, recordVars, fs, played, relayed>>

VoiceInit ==
  /\ song \in Songs /\ packet_list = song /\ seq = 0 /\ built = <<>>
  /\ recording = FALSE /\ file = <<>> /\ received = 0
  /\ fs = 0 /\ played = {} /\ relayed = {}

----------------------------------------------------------------------------
IntWord(n) ==
  <<0, 0, 0, 0, (n \div 16777216) % 256, (n \div 65536) % 256, (n \div 256) % 256, n % 256>>

(* The loop of playMp3: up to Frames frames; every header but that of the    *)
(* frame at place Frames says that another one follows.                      *)
MoreTooFar(i) == i <= Frames
More(i) == i < Frames
Head1(i, f) == (IF More(i) THEN 128 ELSE 0) + Len(f)

PoppedTooMany(n) == n + 1
Popped(n) == n

BuildPacket ==
  LET n == IF Len(packet_list) < Frames THEN Len(packet_list) ELSE Frames
      packed == [i \in 1..n |-> <<Head1(i, packet_list[i])>> \o packet_list[i]]
  IN /\ packet_list # <<>>
     /\ seq' = seq + Frames
     /\ built' = Append(built, <<0>> \o Encode(IntWord(seq')) \o FlattenSeq(packed))
     /\ packet_list' = SubSeq(packet_list, Popped(n) + 1, Len(packet_list))
     /\ UNCHANGED <<song, recordVars, fs, played, relayed>>

----------------------------------------------------------------------------
(* What another client sends, and what the server makes of it: the flags are *)
(* the codec's type and what the author aimed at, the channel or a whisper.  *)
Speech(fr) == FlattenSeq([i \in 1..Len(fr) |->
  <<(IF i < Len(fr) THEN 128 ELSE 0) + Len(fr[i])>> \o fr[i]])
AsSent(p) == Encode(p.number) \o Speech(p.frames) \o p.position
FromServer(p) == <<p.flags>> \o Encode(p.session) \o AsSent(p)
Packets ==
  [flags : Flags, session : Sessions, number : Numbers, frames : Speeches,
   position : Positions]

(* The result of scanPacket from the header at offset pos on: the number of  *)
(* frames, or -1 if one of them ends behind the packet.                      *)
Counted(n) == IF n = -1 THEN -1 ELSE n + 1
AtEnd(pos, len) == pos >= len
Outside(pos, len) == pos > len
scanPacket(d) ==
  LET from[pos \in 0..Len(d)] ==
        LET header == At(d, pos + 1)
            next == pos + 1 + (header % 128)
        IN IF Outside(next, Len(d)) THEN -1
           ELSE IF header < 128 THEN 1
           ELSE Counted(from[next])
      afterSession == 1 + pds_int_len(d, 2)
      start == afterSession + pds_int_len(d, afterSession + 1)
  IN IF start > Len(d) THEN -1 ELSE from[start]

Record(p) ==
  /\ received < MaxPackets
  /\ received' = received + 1
  /\ file' = IF recording THEN Append(file, [packet |-> p, data |-> FromServer(p)]) ELSE file
  /\ UNCHANGED <<songVars, recording, fs, played, relayed>>

(* The text messages "record" and "stop". *)
SetRecording(r) ==
  /\ recording # r /\ recording' = r
  /\ UNCHANGED <<songVars, file, received, fs, played, relayed>>

(* The text message "play" opens the file again. *)
OpenFile ==
  /\ fs' = 0
  /\ UNCHANGED <<songVars, recordVars, played, relayed>>

(* One round of playbackFunction: whatever the type and target were, byte 0  *)
(* becomes CELTAlpha and talking; byte 1, taken for the session, is dropped. *)
(* The memcpy has overlapping operands; it is taken to copy upwards.         *)
WithoutOne(d) == <<0>> \o SubSeq(d, 3, Len(d))
PlayPacket ==
  /\ fs < Len(file)
  /\ fs' = fs + 1
  /\ LET d == file[fs + 1].data
     IN played' = played \cup {[packet |-> file[fs + 1].packet, data |-> WithoutOne(d),
                                pause |-> scanPacket(d)]}
  /\ UNCHANGED <<songVars, recordVars, relayed>>

(* RelayTunnelCallback, set instead of RawUdpTunnelCallback. *)
OneByte(d) == 1
SessionLen(d) == pds_int_len(d, 2)
RelayPacket(p) ==
  LET d == FromServer(p)
  IN /\ received < MaxPackets
     /\ received' = received + 1
     /\ relayed' = relayed \cup
          {[packet |-> p, data |-> <<d[1]>> \o SubSeq(d, 2 + SessionLen(d), Len(d))]}
     /\ UNCHANGED <<songVars, recording, file, fs, played>>

VoiceNext ==
  \/ BuildPacket
  \/ \E p \in Packets : Record(p) \/ RelayPacket(p)
  \/ \E r \in BOOLEAN : SetRecording(r)
  \/ OpenFile
  \/ PlayPacket

VoiceSpec == VoiceInit /\ [][VoiceNext]_voiceVars

----------------------------------------------------------------------------
VoiceTypeOK ==
  /\ song \in Songs /\ packet_list \in Seq(Seq(Byte)) /\ seq \in Nat /\ built \in Seq(Seq(Byte))
  /\ recording \in BOOLEAN /\ received \in Nat /\ fs \in 0..Len(file)
  /\ file \in Seq([packet : Packets, data : Seq(Byte)])
  /\ played \subseteq [packet : Packets, data : Seq(Byte), pause : Nat \cup {-1}]
  /\ relayed \subseteq [packet : Packets, data : Seq(Byte)]

(* The form 1110xxxx, for numbers from 2^21 on; behind a sign for those whose *)
(* complement is one.                                                        *)
FourBytes(v) == Len(Plain(IF Negative(v) THEN Flip(v) ELSE v)) = 4

(* The reader of doc/udp-protocol.txt, for a packet without session: the     *)
(* frames up to the first header that has no bit 0x80; CutOff stands for a   *)
(* frame that was announced and is not there.                                *)
CutOff == <<-1>>
FramesOf(d) ==
  LET after(pos) == pos + 1 + (d[pos] % 128)
      from[pos \in 1..(Len(d) + 1)] ==
        IF pos > Len(d) \/ after(pos) > Len(d) + 1 THEN <<CutOff>>
        ELSE <<SubSeq(d, pos + 1, after(pos) - 1)>>
               \o (IF d[pos] < 128 THEN <<>> ELSE from[after(pos)])
  IN from[2 + Decode(d, 2).size]

Heard(d) ==
  LET f == FramesOf(d) IN IF Last(f) = CutOff THEN Front(f) ELSE f

(* The packets carry the frames of the song in order, each once, and the     *)
(* numbers Frames, 2 * Frames, ...; what is not sent yet is in the list.  So *)
(* it is for a listener that forgives the mark on the last frame of all.     *)
SongInOrder ==
  /\ FlattenSeq([i \in 1..Len(built) |-> Heard(built[i])]) \o packet_list = song
  /\ \A i \in 1..Len(built) : Decode(built[i], 2).value = IntWord(Frames * i)

(* Every packet's last frame is unmarked (main.cc:205: "Add 0x80 to all but   *)
(* the last frame") except in the last packet, and there exactly if the       *)
(* frames of the song do not fill it: a listener waits for one that is not    *)
(* there.                                                                     *)
LateMarkOnly ==
  \A i \in 1..Len(built) :
    CutOff \in ToSet(FramesOf(built[i])) <=> Len(song) < Frames * i

(* What came, without the session: type, target, number, frames, position.   *)
WithoutSession(p) == <<p.flags>> \o AsSent(p)

(* The packet played back is the one recorded, without its session, exactly   *)
(* if the session has one byte (doc/udp-protocol.txt:15: a varint, of any     *)
(* length) and the packet was of CELTAlpha and not a whisper: any other is    *)
(* played as if it were (doc/udp-protocol.txt:41-52).  The pause after it is  *)
(* its number of frames, as scanPacket counts them, unless one of its numbers *)
(* has the form that pds_int_len measures wrongly.                            *)
PlayedExact ==
  \A p \in played :
    /\ p.data = WithoutSession(p.packet)
         <=> Len(Encode(p.packet.session)) = 1 /\ p.packet.flags = 0
    /\ ~FourBytes(p.packet.session) /\ ~FourBytes(p.packet.number)
         => p.pause = Len(p.packet.frames)

(* The packet relayed is the one received, without its session and with its   *)
(* type and target, for all sessions but those of the form 1110xxxx, which    *)
(* pds_int_len takes for three bytes (doc/udp-protocol.txt:62: four).         *)
RelayedExact ==
  \A p \in relayed : p.data = WithoutSession(p.packet) <=> ~FourBytes(p.packet.session)
=============================================================================
