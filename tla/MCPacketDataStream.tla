------------------------- MODULE MCPacketDataStream -------------------------
(* Values on both sides of every boundary of the encoding. *)
EXTENDS PacketDataStream

W(h, a, b, c, d) == <<h, h, h, h, a, b, c, d>>
MCSamples ==
  {W(0, 0, 0, 0, 127), W(0, 0, 0, 64, 128), W(0, 0, 0, 63, 255), W(0, 0, 31, 255, 254),
   W(0, 0, 32, 0, 1), W(0, 15, 255, 254, 255), W(0, 16, 0, 0, 2), W(1, 0, 0, 0, 4),
   W(127, 1, 2, 3, 4), W(254, 255, 255, 255, 255), W(255, 0, 0, 0, 0),
   W(255, 255, 255, 255, 252), W(255, 255, 255, 255, 251)}
MCBlocks == {<<>>, <<1, 2, 3>>}
=============================================================================
