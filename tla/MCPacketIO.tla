----------------------------- MODULE MCPacketIO -----------------------------
(* Small packets and buffers for PacketIO: rows below, at and beyond one and *)
(* two packets, a new array that is cached and one that is not.              *)
EXTENDS PacketIO

SmallAnswers == {<<1, 1, 1>>, <<2, 3, 1>>, <<3, 1>>, <<1, 6, 2>>, <<7, 2>>}
SmallCommands == {1, 3, 4, 6}
=============================================================================
