------------------------------ MODULE MCLooper ------------------------------
(* Looper for TLC. *)
EXTENDS Looper
=============================================================================
