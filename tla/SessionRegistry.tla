-------------------------- MODULE SessionRegistry --------------------------
(***************************************************************************)
(* What a server's application sees of its sessions, through the callbacks *)
(* it gave to OnNewConnectCBEvent and OnTcpClientCloseCBEvent: ids that    *)
(* count up and are never used again, a session it may use from the first  *)
(* callback to the second, and one of each for every session.              *)
(***************************************************************************)
EXTENDS Integers, Sequences

VARIABLES present, news, gone

Connect ==
  /\ news' = Append(news, Len(news) + 1)
  /\ present' = present \cup {Len(news) + 1}
  /\ UNCHANGED gone

Disconnect(s) ==
  /\ gone' = Append(gone, s)
  /\ present' = present \ {s}
  /\ UNCHANGED news

RegistryInit == present = {} /\ news = <<>> /\ gone = <<>>
RegistryNext == Connect \/ \E s \in present : Disconnect(s)
RegistrySpec == RegistryInit /\ [][RegistryNext]_<<present, news, gone>>
=============================================================================
