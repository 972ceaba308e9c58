---------------------------- MODULE SocketHandle ----------------------------
(***************************************************************************)
(* One socket handle of libuv on Windows and the loop that drives it: a    *)
(* tcp connection, a listening tcp socket or a udp socket (win/tcp.c,      *)
(* win/udp.c, win/stream.c, win/handle-inl.h, win/req-inl.h).              *)
(*                                                                         *)
(* A request is either with the kernel (iocp), completed there, or in the  *)
(* loop's queue of pending requests, and is counted in reqs_pending for as *)
(* long.  A handle that is being closed may reach its end only when that   *)
(* count is zero; whoever makes it zero queues the handle's endgame.       *)
(*                                                                         *)
(* Callbacks run on the loop thread, and so do the calls the application   *)
(* makes: in a callback of this handle (cb) or, between two requests or    *)
(* endgames, of another one.  Assertions are compiled out (NDEBUG).        *)
(***************************************************************************)
EXTENDS Integers, Sequences, FiniteSets

CONSTANTS
  Types,     \* which of "connection", "listener" and "udp" the handle is
  Uses,      \* what may happen to it, see below
  Writes,    \* the requests given to uv_write or uv_udp_send, each once
  Accepts    \* the accept requests of a listener (uv_simultaneous_server_accepts)

ASSUME SocketAssumption ==
  /\ Types \subseteq {"connection", "listener", "udp"}
  /\ Uses \subseteq [restarts : BOOLEAN, fails : BOOLEAN, refs : BOOLEAN]
  /\ IsFiniteSet(Accepts) /\ Writes \cap Accepts = {}
  /\ {"read", "connect", "shutdown"} \cap (Writes \cup Accepts) = {}

Reqs == {"read", "connect"} \cup Writes \cup Accepts

VARIABLES
  type,      \* uv_handle_t.type, and for tcp the role
  use,       \* the application stops reading and starts again (restarts), the
             \* kernel refuses requests at once (fails), the application calls
             \* uv_ref and uv_unref (refs)
  s,         \* the fields of the handle and of the loop that belong to it
  completed, \* completions the kernel has posted to the loop's port
  batch,     \* the pending requests uv_process_reqs has taken
  pending_accepts, \* the listener's stack of accepted, unclaimed connections
  accept_socket,   \* accept requests whose accept_socket is valid
  at,        \* where the loop thread is, or goes on after the callback
  cb,        \* the callback that runs
  reads,     \* history: changes with every read callback
  asked      \* history: the writes asked for, and whether reading was

acceptVars == <<pending_accepts, accept_socket>>
vars == <<type, use, s, completed, batch, acceptVars, at, cb, reads, asked>>

(***************************************************************************)
(* Counting: every operator is a change of s.                              *)
(***************************************************************************)
Set(t, f) == [t EXCEPT !.flags = @ \cup f]
Clear(t, f) == [t EXCEPT !.flags = @ \ f]

\* uv__handle_start and INCREASE_ACTIVE_COUNT
IncreaseActive(t) ==
  LET u == [t EXCEPT !.activecnt = @ + 1]
  IN IF t.activecnt # 0 \/ "ACTIVE" \in t.flags THEN u
     ELSE [Set(u, {"ACTIVE"}) EXCEPT
             !.active_handles = @ + IF "REF" \in t.flags THEN 1 ELSE 0]

\* uv__handle_stop and DECREASE_ACTIVE_COUNT
DecreaseActive(t) ==
  LET u == [t EXCEPT !.activecnt = @ - 1]
  IN IF u.activecnt # 0 \/ "CLOSING" \in t.flags \/ "ACTIVE" \notin t.flags
     THEN u
     ELSE [Clear(u, {"ACTIVE"}) EXCEPT
             !.active_handles = @ - IF "REF" \in t.flags THEN 1 ELSE 0]

WantEndgame(t) == Set(t, {"ENDGAME_QUEUED"})

\* Mutant: the endgame of a closing handle is left to others.
DecreaseOnly(t) == [t EXCEPT !.reqs_pending = @ - 1]

DecreasePending(t) ==
  LET u == [t EXCEPT !.reqs_pending = @ - 1]
  IN IF "CLOSING" \in t.flags /\ u.reqs_pending = 0 THEN WantEndgame(u) ELSE u

Register(t) == IncreaseActive([t EXCEPT !.active_reqs = @ + 1])
Unregister(t) == DecreaseActive([t EXCEPT !.active_reqs = @ - 1])

Pending(t, r, ok) ==
  [t EXCEPT !.reqs_pending = @ + 1,
            !.pending = Append(@, [req |-> r, ok |-> ok])]

ToKernel(t, r) == [t EXCEPT !.reqs_pending = @ + 1, !.iocp = @ \cup {r}]

\* Mutant: a closing handle that was not active is not counted.
HandleClosingUncounted(t) == Clear(Set(t, {"CLOSING"}), {"ACTIVE"})

\* uv__handle_closing
HandleClosing(t) ==
  Clear([Set(t, {"CLOSING"}) EXCEPT
           !.active_handles = @ + IF {"ACTIVE", "REF"} \subseteq t.flags THEN 0
                                  ELSE 1],
        {"ACTIVE"})

\* uv__handle_close
HandleClose(t) == [Set(t, {"CLOSED"}) EXCEPT !.active_handles = @ - 1]

(***************************************************************************)
(* Requests: the kernel is done at once, or later, or refuses.             *)
(***************************************************************************)
Started(t, r) == {Pending(t, r, TRUE), ToKernel(t, r)}
Refused(t, r) == IF use.fails THEN {Pending(t, r, FALSE)} ELSE {}

\* Mutant: a refused read is not counted.
QueueReadUncounted(t) ==
  Started(Set(t, {"READ_PENDING"}), "read")
    \cup {[u EXCEPT !.reqs_pending = @ - 1] : u \in Refused(t, "read")}

\* uv_tcp_queue_read, uv_udp_queue_recv.  A refused read is queued to report the
\* error, without READ_PENDING.
QueueRead(t) ==
  Started(Set(t, {"READ_PENDING"}), "read") \cup Refused(t, "read")

\* Unless there still is a read request from before a read_stop.
Requeue(t) == IF "READING" \in t.flags /\ "READ_PENDING" \notin t.flags
              THEN QueueRead(t) ELSE {t}

\* uv_tcp_queue_accept: a new socket for the next connection, unless the system
\* has none or AcceptEx refuses.
QueueAccept(t, r) ==
  \/ /\ s' \in Started(t, r)
     /\ accept_socket' = accept_socket \cup {r}
  \/ /\ s' \in Refused(t, r)
     /\ accept_socket' = accept_socket \ {r}

(***************************************************************************)
(* Calls of the application.                                               *)
(***************************************************************************)
CanCall ==
  /\ cb # "none" \/ at \in {"reqs", "endgames"}
  /\ "CLOSED" \notin s.flags

Call == /\ CanCall
        /\ UNCHANGED <<type, use, completed, batch, at, cb, reads>>

StopReading(t) ==
  IF "READING" \in t.flags THEN DecreaseActive(Clear(t, {"READING"})) ELSE t

\* uv_read_start, uv_udp_recv_start.  That nothing is asked of a handle after
\* uv_close is assumed of the caller here and below: uv_udp_recv_start,
\* uv__udp_send and, on a handle that was not bound, uv_tcp_connect do not check
\* it.  TcpClient models the connect that comes after the close.
ReadStart ==
  /\ Call
  /\ {"READING", "CLOSING"} \cap s.flags = {} /\ type # "listener"
  /\ type = "connection" => "READABLE" \in s.flags
  /\ use.restarts \/ "read" \notin asked
  /\ s' \in Requeue(IncreaseActive(Set(s, {"READING"})))
  /\ asked' = asked \cup {"read"}
  /\ UNCHANGED acceptVars

\* uv_read_stop, uv_udp_recv_stop
ReadStop ==
  /\ Call /\ use.restarts
  /\ "READING" \in s.flags
  /\ s' = StopReading(s)
  /\ UNCHANGED <<acceptVars, asked>>

\* uv_write: refused at once, it is answered with the error.  uv_udp_send
\* reports that itself, and has no request then.
Write(w) ==
  /\ Call /\ w \notin asked
  /\ \/ type = "connection" /\ "WRITABLE" \in s.flags
     \/ type = "udp" /\ "CLOSING" \notin s.flags
  /\ asked' = asked \cup {w}
  /\ LET t == Register([s EXCEPT !.writes = @ + 1])
     IN s' \in Started(t, w) \cup
               IF type = "udp" THEN {} ELSE Refused(t, w)
  /\ UNCHANGED acceptVars

Shutdown ==
  /\ Call
  /\ type = "connection" /\ "WRITABLE" \in s.flags
  /\ s' = WantEndgame(Register([Clear(s, {"WRITABLE"}) EXCEPT
                                  !.shutdown_req = TRUE,
                                  !.reqs_pending = @ + 1]))
  /\ UNCHANGED <<acceptVars, asked>>

\* uv_tcp_connect, one at a time (CONNECTING is no flag of libuv's):
\* uv_tcp_try_connect reports a refusal itself.
Connect ==
  /\ Call
  /\ type = "connection"
  /\ {"CONNECTION", "CONNECTING", "CLOSING"} \cap s.flags = {}
  /\ s' \in Started(Register(Set(s, {"CONNECTING"})), "connect")
  /\ UNCHANGED <<acceptVars, asked>>

\* uv_accept takes the connection on top of the stack, and its request is queued
\* for another one.
Accept ==
  /\ Call
  /\ pending_accepts # <<>>
  /\ pending_accepts' = Tail(pending_accepts)
  /\ LET r == Head(pending_accepts)
     IN \/ "CLOSING" \notin s.flags /\ QueueAccept(s, r)
        \/ /\ "CLOSING" \in s.flags
           /\ accept_socket' = accept_socket \ {r} /\ UNCHANGED s
  /\ UNCHANGED asked

StopListening(t) ==
  IF "LISTENING" \in t.flags THEN DecreaseActive(Clear(t, {"LISTENING"})) ELSE t

\* uv_close: uv_tcp_close, uv_udp_close.  The socket is closed, so that the
\* kernel gives up what it has.
Close ==
  /\ Call
  /\ "CLOSING" \notin s.flags
  /\ LET t == HandleClosing(Clear(StopListening(StopReading(s)),
                                  {"READABLE", "WRITABLE"}))
     IN s' = IF t.reqs_pending = 0 THEN WantEndgame(t) ELSE t
  /\ UNCHANGED <<acceptVars, asked>>

\* uv_ref, uv_unref
RefUnref ==
  /\ Call /\ use.refs
  /\ LET on == "REF" \notin s.flags
         t == IF on THEN Set(s, {"REF"}) ELSE Clear(s, {"REF"})
     IN s' = IF "CLOSING" \in s.flags \/ "ACTIVE" \notin s.flags THEN t
             ELSE [t EXCEPT !.active_handles = @ + IF on THEN 1 ELSE -1]
  /\ UNCHANGED <<acceptVars, asked>>

(***************************************************************************)
(* The kernel.                                                             *)
(***************************************************************************)
Complete(r) ==
  /\ r \in s.iocp
  /\ s' = [s EXCEPT !.iocp = @ \ {r}]
  /\ \E ok \in BOOLEAN :
       completed' = Append(completed, [req |-> r, ok |-> ok])
  /\ UNCHANGED <<type, use, batch, acceptVars, at, cb, reads, asked>>

(***************************************************************************)
(* The loop: uv_process_reqs, uv__poll, uv_process_endgames.               *)
(***************************************************************************)
\* uv_process_reqs takes the whole queue: what callbacks add waits for the next
\* round.
TakePending ==
  /\ cb = "none" /\ at = "endgames" /\ "ENDGAME_QUEUED" \notin s.flags
  /\ at' = "reqs"
  /\ batch' = s.pending
  /\ s' = [s EXCEPT !.pending = <<>>]
  /\ UNCHANGED <<type, use, completed, acceptVars, cb, reads, asked>>

Poll ==
  /\ cb = "none" /\ at = "reqs" /\ batch = <<>>
  /\ at' = "endgames"
  /\ s' = [s EXCEPT !.pending = @ \o completed]
  /\ completed' = <<>>
  /\ UNCHANGED <<type, use, batch, acceptVars, cb, reads, asked>>

\* The next request to process.
Next_req(r) ==
  /\ cb = "none" /\ at = "reqs" /\ batch # <<>>
  /\ Head(batch).req = r
  /\ batch' = Tail(batch)

ReadCallback == cb' = "read" /\ reads' = 1 - reads

\* uv_process_tcp_read_req, uv_process_udp_recv_req: an error ends reading, and
\* is reported to those who read; otherwise the socket is read without waiting.
ProcessRead ==
  /\ Next_req("read")
  /\ LET t == Clear(s, {"READ_PENDING"})
     IN \/ /\ ~Head(batch).ok /\ "READING" \in t.flags
           /\ s' = StopReading(t)
           /\ at' = IF type = "udp" THEN "requeue" ELSE "finish"
           /\ ReadCallback
        \/ /\ ~Head(batch).ok /\ "READING" \notin t.flags
           /\ s' = t /\ at' = "finish" /\ UNCHANGED <<cb, reads>>
        \/ /\ Head(batch).ok
           /\ s' = t /\ at' = "recv" /\ UNCHANGED <<cb, reads>>
  /\ UNCHANGED <<type, use, completed, acceptVars, asked>>

\* A tcp connection is read again as long as its data fills the buffer.
RecvData ==
  /\ cb = "none" /\ at = "recv" /\ "READING" \in s.flags
  /\ ReadCallback
  /\ at' \in IF type = "udp" THEN {"requeue"} ELSE {"requeue", "recv"}
  /\ UNCHANGED <<type, use, s, completed, batch, acceptVars, asked>>

\* The peer has closed the connection, or there was an error.
RecvEnds ==
  /\ cb = "none" /\ at = "recv" /\ "READING" \in s.flags
  /\ ReadCallback
  /\ at' = "requeue"
  /\ \E eof \in {FALSE} \cup {type = "connection"} :
       s' = Clear(StopReading(s), IF eof THEN {"READABLE"} ELSE {})
  /\ UNCHANGED <<type, use, completed, batch, acceptVars, asked>>

RecvStopped ==
  /\ cb = "none" /\ at = "recv" /\ "READING" \notin s.flags
  /\ at' = "requeue"
  /\ UNCHANGED <<type, use, s, completed, batch, acceptVars, cb, reads, asked>>

ReadDone ==
  /\ cb = "none" /\ at = "requeue"
  /\ s' \in Requeue(s)
  /\ at' = "finish"
  /\ UNCHANGED <<type, use, completed, batch, acceptVars, cb, reads, asked>>

\* uv_process_tcp_write_req counts after the callback, uv_process_udp_send_req
\* before.
ProcessWrite(w) ==
  /\ Next_req(w)
  /\ s' = Unregister([s EXCEPT !.writes = @ - IF type = "udp" THEN 1 ELSE 0])
  /\ cb' = "write"
  /\ at' = IF type = "udp" THEN "finish" ELSE "written"
  /\ UNCHANGED <<type, use, completed, acceptVars, reads, asked>>

\* Mutant: a shutdown that waits is not told of the last write.
WrittenQuietly ==
  /\ cb = "none" /\ at = "written"
  /\ s' = [s EXCEPT !.writes = @ - 1]
  /\ at' = "finish"
  /\ UNCHANGED <<type, use, completed, batch, acceptVars, cb, reads, asked>>

Written ==
  /\ cb = "none" /\ at = "written"
  /\ LET t == [s EXCEPT !.writes = @ - 1]
     IN s' = IF t.shutdown_req /\ t.writes = 0 THEN WantEndgame(t) ELSE t
  /\ at' = "finish"
  /\ UNCHANGED <<type, use, completed, batch, acceptVars, cb, reads, asked>>

\* uv_process_tcp_connect_req
ProcessConnect ==
  /\ Next_req("connect")
  /\ LET t == Clear(Unregister(s), {"CONNECTING"})
     IN s' = IF Head(batch).ok /\ "CLOSING" \notin t.flags
             THEN Set(t, {"CONNECTION", "READABLE", "WRITABLE"}) ELSE t
  /\ cb' = "connect" /\ at' = "finish"
  /\ UNCHANGED <<type, use, completed, acceptVars, reads, asked>>

\* uv_process_tcp_accept_req: a connection is offered; or the request could not
\* be queued, and the listener gives up; or the connection was lost (the socket
\* of a closed listener lets SO_UPDATE_ACCEPT_CONTEXT fail, too).
ProcessAccept(r) ==
  /\ Next_req(r)
  /\ \/ /\ r \in accept_socket /\ Head(batch).ok /\ "CLOSING" \notin s.flags
        /\ pending_accepts' = <<r>> \o pending_accepts
        /\ cb' = "connection"
        /\ UNCHANGED <<s, accept_socket>>
     \/ /\ r \notin accept_socket
        /\ s' = StopListening(s)
        /\ cb' = IF "LISTENING" \in s.flags THEN "connection" ELSE "none"
        /\ UNCHANGED acceptVars
     \/ /\ r \in accept_socket /\ ~(Head(batch).ok /\ "CLOSING" \notin s.flags)
        /\ \/ "LISTENING" \in s.flags /\ QueueAccept(s, r)
           \/ /\ "LISTENING" \notin s.flags
              /\ accept_socket' = accept_socket \ {r} /\ UNCHANGED s
        /\ UNCHANGED <<pending_accepts, cb>>
  /\ at' = "finish"
  /\ UNCHANGED <<type, use, completed, reads, asked>>

\* DECREASE_PENDING_REQ_COUNT ends every uv_process_*_req.
Finish ==
  /\ cb = "none" /\ at = "finish"
  /\ s' = DecreasePending(s)
  /\ at' = "reqs"
  /\ UNCHANGED <<type, use, completed, batch, acceptVars, cb, reads, asked>>

Endgame == cb = "none" /\ at = "endgames" /\ "ENDGAME_QUEUED" \in s.flags

\* Mutant: a shutdown does not wait for the writes.
ShutdownAtOnce == "CONNECTION" \in s.flags /\ s.shutdown_req

ShutdownReady == ShutdownAtOnce /\ s.writes = 0

\* uv_tcp_endgame
ShutdownEndgame ==
  /\ Endgame /\ ShutdownReady
  /\ s' = Unregister(Clear(s, {"ENDGAME_QUEUED"}))
  /\ cb' = "shutdown" /\ at' = "shut"
  /\ UNCHANGED <<type, use, completed, batch, acceptVars, reads, asked>>

ShutdownDone ==
  /\ cb = "none" /\ at = "shut"
  /\ s' = DecreasePending([s EXCEPT !.shutdown_req = FALSE])
  /\ at' = "endgames"
  /\ UNCHANGED <<type, use, completed, batch, acceptVars, cb, reads, asked>>

\* uv_tcp_endgame, uv_udp_endgame
CloseEndgame ==
  /\ Endgame /\ ~ShutdownReady
  /\ LET t == Clear(s, {"ENDGAME_QUEUED"})
     IN \/ /\ "CLOSING" \in s.flags /\ s.reqs_pending = 0
           /\ s' = HandleClose(t) /\ cb' = "close"
        \/ /\ ~("CLOSING" \in s.flags /\ s.reqs_pending = 0)
           /\ s' = t /\ UNCHANGED cb
  /\ UNCHANGED <<type, use, completed, batch, acceptVars, at, reads, asked>>

CallbackReturns ==
  /\ cb # "none"
  /\ cb' = "none"
  /\ UNCHANGED <<type, use, s, completed, batch, acceptVars, at, reads, asked>>

-----------------------------------------------------------------------------
Fresh == [flags |-> {"REF"}, reqs_pending |-> 0, activecnt |-> 0,
          writes |-> 0, shutdown_req |-> FALSE, iocp |-> {}, pending |-> <<>>,
          active_handles |-> 0, active_reqs |-> 0]

\* After uv_tcp_listen.
Listening == [IncreaseActive(Set(Fresh, {"LISTENING"})) EXCEPT
                !.iocp = Accepts, !.reqs_pending = Cardinality(Accepts)]

\* After uv_accept.
Accepted == Set(Fresh, {"CONNECTION", "READABLE", "WRITABLE"})

Init ==
  /\ type \in Types /\ use \in Uses
  /\ \/ type = "listener" /\ s = Listening /\ accept_socket = Accepts
     \/ type = "connection" /\ s \in {Fresh, Accepted} /\ accept_socket = {}
     \/ type = "udp" /\ s = Fresh /\ accept_socket = {}
  /\ completed = <<>> /\ batch = <<>> /\ pending_accepts = <<>>
  /\ at = "reqs" /\ cb = "none" /\ reads = 0 /\ asked = {}

Application ==
  \/ ReadStart \/ ReadStop
  \/ \E w \in Writes : Write(w)
  \/ Shutdown \/ Connect \/ Accept \/ Close \/ RefUnref

Loop ==
  \/ TakePending \/ Poll
  \/ ProcessRead \/ RecvData \/ RecvEnds \/ RecvStopped \/ ReadDone
  \/ \E w \in Writes : ProcessWrite(w)
  \/ Written \/ ProcessConnect
  \/ \E r \in Accepts : ProcessAccept(r)
  \/ Finish \/ ShutdownEndgame \/ ShutdownDone \/ CloseEndgame
  \/ CallbackReturns

Next == Application \/ Loop \/ \E r \in Reqs : Complete(r)

\* The loop goes on, the kernel gives back the requests of a closed socket, and
\* no peer fills the buffer for ever.
Fairness ==
  /\ WF_vars(Loop)
  /\ SF_vars(RecvData /\ at' = "requeue")
  /\ \A r \in Reqs : WF_vars("CLOSING" \in s.flags /\ Complete(r))

Spec == Init /\ [][Next]_vars
FairSpec == Spec /\ Fairness

-----------------------------------------------------------------------------
(***************************************************************************)
(* Properties.                                                             *)
(***************************************************************************)
InProcess == at \in {"recv", "requeue", "finish", "written"}

Queued == [i \in 1 .. Len(s.pending \o batch \o completed) |->
             (s.pending \o batch \o completed)[i].req]
QueuedReqs == {Queued[i] : i \in 1 .. Len(Queued)}
InFlight == s.iocp \cup QueuedReqs

\* Requests whose callback is still to come.
DueReqs == {r \in InFlight : r = "connect" \/ r \in Writes}
             \cup IF s.shutdown_req /\ at # "shut" THEN {"shutdown"} ELSE {}

Count(b) == IF b THEN 1 ELSE 0

Flags == {"REF", "ACTIVE", "READING", "READ_PENDING", "READABLE", "WRITABLE",
          "LISTENING", "CONNECTION", "CONNECTING", "CLOSING", "CLOSED",
          "ENDGAME_QUEUED"}

\* Every variable keeps its type; no counter gets below zero, which the code
\* asserts.
TypeOK ==
  /\ type \in Types /\ use \in Uses
  /\ s.flags \subseteq Flags
  /\ s.reqs_pending \in Nat /\ s.activecnt \in Nat /\ s.writes \in Nat
  /\ s.active_handles \in Nat /\ s.active_reqs \in Nat
  /\ s.shutdown_req \in BOOLEAN /\ s.iocp \subseteq Reqs
  /\ \A q \in {s.pending, batch, completed} :
       q \in Seq([req : Reqs, ok : BOOLEAN])
  /\ pending_accepts \in Seq(Accepts) /\ accept_socket \subseteq Accepts
  /\ at \in {"reqs", "endgames", "recv", "requeue", "finish", "written", "shut"}
  /\ cb \in {"none", "read", "write", "connect", "shutdown", "connection",
             "close"}
  /\ reads \in {0, 1} /\ asked \subseteq Writes \cup {"read"}

\* reqs_pending, on which the handle's end depends, is the number of requests
\* under way: with the kernel, queued, being processed, or a shutdown.
PendingCounted ==
  s.reqs_pending = Cardinality(s.iocp) + Len(Queued)
                     + Count(s.shutdown_req) + Count(InProcess)

\* "Ensure the request is not already in the queue, or the queue will get
\* corrupted" (req-inl.h:94): a request is in one place at a time, or on the
\* listener's stack.
OnePlace ==
  /\ Cardinality(QueuedReqs) = Len(Queued)
  /\ s.iocp \cap QueuedReqs = {}
  /\ LET stack == {pending_accepts[i] : i \in 1 .. Len(pending_accepts)}
     IN Cardinality(stack) = Len(pending_accepts) /\ stack \cap InFlight = {}

\* uv__loop_alive, as far as this handle goes.
LoopAlive == \/ s.active_handles > 0 \/ s.active_reqs > 0
             \/ "ENDGAME_QUEUED" \in s.flags

\* uv_run goes on exactly as long as a callback is due: for a request, for a
\* handle that is closing, or for one that reads or listens and was not unref'd.
AliveWhileDue ==
  LoopAlive <=>
    \/ DueReqs # {} \/ "ENDGAME_QUEUED" \in s.flags
    \/ "CLOSING" \in s.flags /\ "CLOSED" \notin s.flags
    \/ "REF" \in s.flags /\ s.flags \cap {"READING", "LISTENING"} # {}

\* A handle that reads has a read request out to learn of data, and one that
\* listens has every accept request out, or offered and not yet claimed.
Listens ==
  /\ "READING" \in s.flags => "read" \in InFlight \/ at \in {"recv", "requeue"}
  /\ "LISTENING" \in s.flags =>
       \A r \in Accepts \ {pending_accepts[i] : i \in 1 .. Len(pending_accepts)} :
         r \in InFlight

\* The requests of the handle are accounted for in every state.
Accounted == TypeOK /\ PendingCounted /\ OnePlace /\ Listens

Contract == INSTANCE HandleContract WITH
  life <- IF "CLOSED" \in s.flags THEN "closed"
          ELSE IF "CLOSING" \in s.flags THEN "closing" ELSE "open",
  due <- DueReqs,
  reading <- "READING" \in s.flags

\* The handle keeps libuv's promises about callbacks.
ImplementsContract == Contract!ContractSpec

\* A closed handle comes to its close callback, whatever was under way.
CloseEnds == "CLOSING" \in s.flags ~> "CLOSED" \in s.flags

\* A shutdown is answered once the writes are: its endgame is not forgotten.
ShutdownAnswered == s.shutdown_req /\ s.writes = 0 ~> ~s.shutdown_req
=============================================================================
