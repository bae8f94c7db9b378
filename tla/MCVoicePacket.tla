--------------------------- MODULE MCVoicePacket ----------------------------
(* Songs of two full packets and one frame, one full packet, one frame;      *)
(* sessions of every length up to five bytes, numbers on both sides of 2^21; *)
(* talking in CELTAlpha and a whisper in CELTBeta; frames whose bytes look   *)
(* like headers.                                                             *)
EXTENDS VoicePacket

MCSongs == {<<<<1>>, <<>>, <<129, 2>>, <<200>>, <<5>>>>, <<<<7>>, <<8>>>>, <<<<3>>>>}
MCFlags == {0, 98}
W(h, a, b, c, d) == <<h, h, h, h, a, b, c, d>>
MCSessions == {W(0, 0, 0, 0, 5), W(0, 0, 0, 1, 130), W(0, 0, 2, 129, 0), W(0, 0, 200, 1, 2),
               W(0, 20, 3, 4, 5)}
MCNumbers == {W(0, 0, 31, 255, 255), W(0, 0, 32, 0, 129)}
MCSpeeches == {<<<<130, 1>>>>, <<<<1>>, <<>>, <<2, 3>>>>}
MCPositions == {<<>>, <<66, 200, 0, 0>>}
=============================================================================
