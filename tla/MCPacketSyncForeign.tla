------------------------ MODULE MCPacketSyncForeign ------------------------
(***************************************************************************)
(* MCPacketSync with peers of several flags, whose data holds no flag.     *)
(***************************************************************************)
EXTENDS MCPacketSync

ASSUME PlainAssumption == FlagOnlyAtStart
=============================================================================
