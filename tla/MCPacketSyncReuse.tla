------------------------- MODULE MCPacketSyncReuse -------------------------
(***************************************************************************)
(* PacketSyncReuse for TLC, with the bytes and words of MCPacketSync.      *)
(***************************************************************************)
EXTENDS PacketSyncReuse

CONSTANT Base   \* how many values a byte has

MCByte == 0 .. Base - 1
MCWordMod == Base * Base
MCEncode(w) == <<w % Base, w \div Base>>
MCDecode(b) == b[1] + Base * b[2]
MCPayloads == {<<0>>, <<0, 0>>}
MCTypes == {1}
=============================================================================
