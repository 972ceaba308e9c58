---------------------------- MODULE MCPacketSync ----------------------------
(***************************************************************************)
(* PacketSync for TLC: words of two bytes, so that a chunk can end inside  *)
(* a word, and bytes of few values, little endian as on the build's only   *)
(* platform.                                                               *)
(***************************************************************************)
EXTENDS PacketSync

CONSTANT Base   \* how many values a byte has

MCByte == 0 .. Base - 1
MCWordMod == Base * Base
MCEncode(w) == <<w % Base, w \div Base>>
MCDecode(b) == b[1] + Base * b[2]
MCPayloads == {<<>>, <<0>>, <<0, 2>>}
\* Data in which no flag can be read, at any offset.
MCPlainPayloads == {<<>>, <<0>>, <<0, 0>>}
MCTypes == {1}
=============================================================================
