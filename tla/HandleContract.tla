--------------------------- MODULE HandleContract ---------------------------
(***************************************************************************)
(* What libuv promises the user of a socket handle about callbacks: every  *)
(* accepted request is answered once, a shutdown after the writes before   *)
(* it, data is delivered only between read_start and read_stop or close,   *)
(* and the close callback is the last of all.                              *)
(***************************************************************************)
EXTENDS Integers

VARIABLES
  life,    \* open, closing, closed
  due,     \* requests accepted and not yet answered
  reading, \* between read_start and read_stop
  reads    \* changes with every read callback

Issue(r) ==
  /\ life = "open" /\ r \notin due
  /\ due' = due \cup {r}
  /\ UNCHANGED <<life, reading, reads>>

Answer(r) ==
  /\ r \in due
  /\ r = "shutdown" => due = {r}
  /\ due' = due \ {r}
  /\ UNCHANGED <<life, reading, reads>>

StartReading ==
  /\ life = "open" /\ ~reading
  /\ reading' = TRUE
  /\ UNCHANGED <<life, due, reads>>

StopReading ==
  /\ reading /\ ~reading'
  /\ UNCHANGED <<life, due, reads>>

\* With data; or with the end of the stream or an error, which stop reading.
Deliver ==
  /\ reading
  /\ reads' = 1 - reads
  /\ reading' \in BOOLEAN
  /\ UNCHANGED <<life, due>>

Close ==
  /\ life = "open"
  /\ life' = "closing" /\ reading' = FALSE
  /\ UNCHANGED <<due, reads>>

CloseCallback ==
  /\ life = "closing" /\ due = {}
  /\ life' = "closed"
  /\ UNCHANGED <<due, reading, reads>>

ContractInit == life = "open" /\ due = {} /\ ~reading /\ reads = 0

ContractNext ==
  \/ \E r \in due \cup due' : Issue(r) \/ Answer(r)
  \/ StartReading \/ StopReading \/ Deliver \/ Close \/ CloseCallback

ContractSpec ==
  ContractInit /\ [][ContractNext]_<<life, due, reading, reads>>
=============================================================================
