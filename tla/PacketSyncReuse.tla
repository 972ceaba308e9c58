-------------------------- MODULE PacketSyncReuse --------------------------
(***************************************************************************)
(* A PacketSync that outlives its connection.  CTcpServer keeps the        *)
(* contexts of closed sessions, each with its PacketSync, in               *)
(* _idle_tcp_client_ctx_list and hands them to later connections;          *)
(* AcceptConnection calls packet_->Init, which sets _head and nothing      *)
(* else, so what the last connection left in read_data is still there.     *)
(***************************************************************************)
EXTENDS PacketSync

CONSTANT MaxConnections   \* bound: connections one context serves

VARIABLE connections      \* history: connections the context has served

reuseVars == <<vars, connections>>

\* The next connection is accepted with the recycled context: a new stream, the
\* same PacketSync.
Accept ==
  /\ ~hasPack
  /\ connections < MaxConnections
  /\ connections' = connections + 1
  /\ stream' = <<>> /\ ends' = <<>> /\ flags' = <<>>
  /\ received' = 0
  /\ delivered' = <<>>
  /\ UNCHANGED <<read_data, cap, hasPack>>

ReuseInit == Init /\ connections = 1
ReuseNext == (Next /\ UNCHANGED connections) \/ Accept
ReuseSpec == ReuseInit /\ [][ReuseNext]_reuseVars

\* On every connection, a recycled context's too, the application is called
\* back with the packets of that connection (Packet.h:110).
EachConnectionInOrder == DeliveredInOrder
=============================================================================
