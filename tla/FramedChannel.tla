--------------------------- MODULE FramedChannel ---------------------------
(***************************************************************************)
(* A channel that carries whole messages, first in first out, none lost,   *)
(* none twice: what packet reassembly (PacketSync) promises the            *)
(* application, and the queue of the event loop (Looper) those who push.   *)
(***************************************************************************)
EXTENDS Integers, Sequences

CONSTANT Packets

VARIABLES sent, got

channel == <<sent, got>>

ChannelInit == sent = <<>> /\ got = <<>>

Put(p) == sent' = Append(sent, p) /\ UNCHANGED got

Get ==
  /\ Len(got) < Len(sent)
  /\ got' = Append(got, sent[Len(got) + 1])
  /\ UNCHANGED sent

ChannelNext == Get \/ \E p \in Packets : Put(p)

ChannelSpec == ChannelInit /\ [][ChannelNext]_channel
=============================================================================
