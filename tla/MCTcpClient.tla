---------------------------- MODULE MCTcpClient ----------------------------
(***************************************************************************)
(* TcpClient for TLC: the application's threads.  Liveness is checked in   *)
(* every passing run, so the threads are not declared symmetric.           *)
(***************************************************************************)
EXTENDS TcpClient

MCOneThread == {"main"}
MCTwoThreads == {"main", "worker"}
=============================================================================
