----------------------------- MODULE TcpClient -----------------------------
(***************************************************************************)
(* One client: class CTcpClient (uv/TcpClient.cpp), its tcp handle and its *)
(* connect timer on libuv's loop, the threads of the application that use  *)
(* it, and the network.                                                    *)
(*                                                                         *)
(* The application's calls look at _connect_status and _is_wait_closed and *)
(* push an event; the loop thread handles the events in order and runs     *)
(* libuv's callbacks, which write the same two fields.  Nothing protects   *)
(* them, so a call's look and its push are separate steps here.            *)
(*                                                                         *)
(* The looper is the channel Looper implements: events are handled in the  *)
(* order pushed, and those pushed before the looper is closed are handled  *)
(* before its handles are closed (Looper!CloseComesAfterEvents).           *)
(***************************************************************************)
EXTENDS Integers, Sequences

CONSTANTS
  Threads,          \* threads of the application
  MaxConnects,      \* bound: Connect calls that are accepted
  MaxSends,         \* bound: Send calls that are accepted
  MaxCalls,         \* bound: Close and Shutdown calls that are accepted
  MayFailAtOnce     \* whether uv_ip4_addr or uv_tcp_connect may fail at once
                    \* on a handle that is good

ASSUME BoundsAssumption ==
  /\ MaxConnects \in Nat /\ MaxSends \in Nat /\ MaxCalls \in Nat
  /\ MayFailAtOnce \in BOOLEAN

VARIABLES
  pc,          \* what each thread is about to do
  looper,      \* running, closing (~CLooper began), walked (AsyncCB), done
  queue,       \* the events pushed and not handled
  status,      \* _connect_status
  wait_closed, \* _is_wait_closed
  tcp,         \* the life of tcphandle: open, closing, closed
  sock,        \* its socket: fresh, bound, connected, shut (no more writing), or
               \* stray: made for a connect that came after the close
  connect,     \* _connect_req: none, pending, or its posted result
  shutdown,    \* _tcp_shutdown_req is outstanding
  writes,      \* write requests outstanding
  timer,       \* the life of _connect_timer: open, closing, closed
  armed,       \* the timer is in the loop's heap
  late,        \* a connect request was begun on a handle that was closing, and
               \* left its ACTIVE flag set
  surplus,     \* what active_handles counts for the tcp handle above its state
  attempts,    \* history: Connect calls accepted
  calls,       \* history: Close and Shutdown calls accepted
  accepted,    \* history: Send calls accepted
  wire,        \* history: which of them reached uv_write, in order
  answers,     \* history: the states _func_conn_cb was told
  closes       \* history: calls of _func_close_cb

fields == <<status, wait_closed>>
endgame == <<late, surplus>>
handles == <<tcp, sock, connect, shutdown, writes, timer, armed, endgame>>
histories == <<attempts, calls, accepted, wire, answers, closes>>
vars == <<pc, looper, queue, fields, handles, histories>>

Statuses == {"NONE", "CONNECTING", "CONNECTED", "CONNECT_ERROR",
             "CONNECT_TIME_OUT"}
Answers == Statuses \ {"NONE", "CONNECTING"}
Up == {"CONNECTED", "CONNECTING"}

\* UvEvent: a write carries its data, here its number.
Event(type) == [type |-> type, n |-> 0]
WriteEvent(n) == [type |-> "WRITE", n |-> n]

(***************************************************************************)
(* The calls of the application.                                           *)
(***************************************************************************)
MayCall(t) == pc[t] = "idle" /\ looper = "running"

\* Connect: the tests,
ConnectCheck(t) ==
  /\ MayCall(t)
  /\ attempts < MaxConnects
  /\ status \in {"NONE", "CONNECT_ERROR"}
  /\ ~wait_closed
  /\ attempts' = attempts + 1
  /\ pc' = [pc EXCEPT ![t] = "SET"]
  /\ UNCHANGED <<looper, queue, fields, handles, calls, accepted, wire, answers,
                 closes>>

\* then the fields,
ConnectSet(t) ==
  /\ pc[t] = "SET"
  /\ status' = "CONNECTING"
  /\ wait_closed' = FALSE
  /\ pc' = [pc EXCEPT ![t] = "CONNECT"]
  /\ UNCHANGED <<looper, queue, handles, histories>>

\* Close and Shutdown: the test, then the push (Push).
Ask(t, type) ==
  /\ MayCall(t)
  /\ calls < MaxCalls
  /\ status \in Up
  /\ calls' = calls + 1
  /\ pc' = [pc EXCEPT ![t] = type]
  /\ UNCHANGED <<looper, queue, fields, handles, attempts, accepted, wire,
                 answers, closes>>

\* Mutant: Send does not ask whether the client is connected already.
SendAllowedWhileConnecting == status \in Up /\ ~wait_closed

SendAllowed == status = "CONNECTED" /\ ~wait_closed

SendCheck(t) ==
  /\ MayCall(t)
  /\ accepted < MaxSends
  /\ SendAllowed
  /\ pc' = [pc EXCEPT ![t] = "WRITE"]
  /\ UNCHANGED <<looper, queue, fields, handles, histories>>

\* CreateUvEvent and PushEvent.
Push(t) ==
  /\ pc[t] \in {"CONNECT", "CLOSE", "SHUTDOWN"}
  /\ queue' = Append(queue, Event(pc[t]))
  /\ pc' = [pc EXCEPT ![t] = "idle"]
  /\ UNCHANGED <<looper, fields, handles, histories>>

PushWrite(t) ==
  /\ pc[t] = "WRITE"
  /\ accepted' = accepted + 1
  /\ queue' = Append(queue, WriteEvent(accepted'))
  /\ pc' = [pc EXCEPT ![t] = "idle"]
  /\ UNCHANGED <<looper, fields, handles, attempts, calls, wire, answers, closes>>

\* The application deletes the looper, and calls the client no more.
DeleteLooper ==
  /\ looper = "running"
  /\ \A t \in Threads : pc[t] = "idle"
  /\ looper' = "closing"
  /\ queue' = Append(queue, Event("LOOPER"))
  /\ UNCHANGED <<pc, fields, handles, histories>>

(***************************************************************************)
(* libuv.                                                                  *)
(***************************************************************************)
\* uv_close, where the caller tests uv_is_closing or where libuv itself drops
\* the second call.
Closed(h) == IF h = "open" THEN "closing" ELSE h

\* uv_tcp_connect asks nothing of the handle's life: a handle that was never bound
\* gets its socket now, closed or not, and a socket the close does not know of
\* stays.  The socket must be there and have no other connect request.
CanConnect ==
  /\ connect = "none"
  /\ sock \in {"fresh", "stray"} \/ (sock = "bound" /\ tcp = "open")

SocketFor == IF tcp = "open" THEN "bound" ELSE "stray"

\* The request of a handle that is closing puts off its endgame, or makes it due
\* again.  REGISTER_HANDLE_REQ counts the handle as active unless its flag is set,
\* over what the close counted, and the end of the request does not take it back
\* (DECREASE_ACTIVE_COUNT); each endgame takes one.
RequestOnHandle ==
  IF tcp = "open" THEN UNCHANGED <<tcp, endgame>>
  ELSE /\ tcp' = "closing" /\ late' = TRUE
       /\ surplus' = surplus + (IF tcp = "closing" THEN 1 ELSE 0)
                             - (IF late THEN 1 ELSE 0)

Writable == tcp = "open" /\ sock = "connected"

(***************************************************************************)
(* DoEvent, on the loop thread.                                            *)
(***************************************************************************)
Handle(type) ==
  /\ looper \in {"running", "closing"}
  /\ queue # <<>> /\ Head(queue).type = type
  /\ queue' = Tail(queue)

\* Mutant: the request goes without its timer.
ConnectWithoutTimer ==
  /\ Handle("CONNECT")
  /\ CanConnect
  /\ sock' = SocketFor /\ connect' = "pending"
  /\ RequestOnHandle
  /\ UNCHANGED <<pc, looper, fields, shutdown, writes, timer, armed, histories>>

\* connectinl: the request and the timer are started, whatever their lives,
ConnectStarts ==
  /\ Handle("CONNECT")
  /\ CanConnect
  /\ sock' = SocketFor /\ connect' = "pending"
  /\ armed' = TRUE
  /\ RequestOnHandle
  /\ UNCHANGED <<pc, looper, fields, shutdown, writes, timer, histories>>

\* or the address or uv_tcp_connect is refused at once, and nobody is told.  A
\* stray socket may be connected by now, and refuses another request.
ConnectFailsAtOnce ==
  /\ Handle("CONNECT")
  /\ \/ MayFailAtOnce /\ sock' = (IF CanConnect THEN SocketFor ELSE sock)
     \/ (MayFailAtOnce \/ ~CanConnect \/ sock = "stray") /\ UNCHANGED sock
  /\ UNCHANGED <<pc, looper, fields, tcp, connect, shutdown, writes, timer, armed,
                 endgame, histories>>

\* closeinl
Closeinl ==
  IF status \in Up /\ ~wait_closed
  THEN wait_closed' = TRUE /\ tcp' = Closed(tcp)
  ELSE UNCHANGED <<wait_closed, tcp>>

CloseEvent ==
  /\ Handle("CLOSE")
  /\ Closeinl
  /\ UNCHANGED <<pc, looper, status, sock, connect, shutdown, writes, timer,
                 armed, endgame, histories>>

\* shutdowinl: uv_shutdown refuses a socket that is not writable.
ShutdownEvent ==
  /\ Handle("SHUTDOWN")
  /\ IF Writable
     THEN sock' = "shut" /\ shutdown' = TRUE
     ELSE UNCHANGED <<sock, shutdown>>
  /\ UNCHANGED <<pc, looper, fields, tcp, connect, writes, timer, armed,
                 endgame, histories>>

\* sendinl: uv_write refuses it too, and the data is dropped.
WriteHandled ==
  /\ Handle("WRITE")
  /\ IF Writable
     THEN writes' = writes + 1 /\ wire' = Append(wire, Head(queue).n)
     ELSE UNCHANGED <<writes, wire>>
  /\ UNCHANGED <<pc, looper, fields, tcp, sock, connect, shutdown, timer, armed,
                 endgame, attempts, calls, accepted, answers, closes>>

\* Mutant: OnHandleClose closes the timer alone.
WalkClosesTimer ==
  /\ Handle("LOOPER")
  /\ looper' = "walked"
  /\ timer' = Closed(timer)
  /\ armed' = (armed /\ timer # "open")
  /\ UNCHANGED <<pc, fields, tcp, sock, connect, shutdown, writes, endgame,
                 histories>>

\* AsyncCB of the looper: OnHandleClose of the tcp handle and of the timer.
WalkCloses ==
  /\ Handle("LOOPER")
  /\ looper' = "walked"
  /\ tcp' = Closed(tcp) /\ timer' = Closed(timer)
  /\ armed' = (armed /\ timer # "open")
  /\ UNCHANGED <<pc, fields, sock, connect, shutdown, writes, endgame,
                 histories>>

(***************************************************************************)
(* Callbacks, on the loop thread.                                          *)
(***************************************************************************)
\* ConnectTimeOut.  Timers run when the endgames of the last round are over, so
\* the timer is not half closed.
TimerFires ==
  /\ armed /\ timer # "closing"
  /\ armed' = FALSE
  /\ tcp' = Closed(tcp) /\ timer' = Closed(timer)
  /\ status' = "CONNECT_TIME_OUT"
  /\ answers' = Append(answers, status')
  /\ UNCHANGED <<pc, looper, queue, wait_closed, sock, connect, shutdown,
                 writes, endgame, attempts, calls, accepted, wire, closes>>

\* What uv_process_tcp_connect_req makes of the posted result.
ConnectStatus ==
  IF connect = "ok" THEN (IF tcp = "open" THEN "ok" ELSE "canceled")
  ELSE connect

\* Mutant: the timer is left running.
LeaveTimer == UNCHANGED <<timer, armed>>

\* AfterConnect stops the connect timer by closing it, once.
StopTimer ==
  /\ timer' = Closed(timer)
  /\ armed' = (armed /\ timer # "open")

AfterConnectOk ==
  /\ ConnectStatus = "ok"
  /\ sock' = "connected"
  /\ status' = "CONNECTED"
  /\ answers' = Append(answers, status')

\* The attempt was given up by ConnectTimeOut, which told the application.
AfterConnectTimedOut ==
  /\ ConnectStatus = "canceled" /\ status = "CONNECT_TIME_OUT"
  /\ UNCHANGED <<sock, status, answers>>

AfterConnectError ==
  /\ ConnectStatus \in {"refused", "canceled"}
  /\ ~(ConnectStatus = "canceled" /\ status = "CONNECT_TIME_OUT")
  /\ status' = "CONNECT_ERROR"
  /\ answers' = Append(answers, status')
  /\ UNCHANGED sock

\* uv_read_start cannot fail on a handle that has just been connected.
AfterConnect ==
  /\ connect \in {"ok", "refused", "canceled"}
  /\ connect' = "none"
  /\ StopTimer
  /\ AfterConnectOk \/ AfterConnectTimedOut \/ AfterConnectError
  /\ UNCHANGED <<pc, looper, queue, wait_closed, tcp, shutdown, writes, endgame,
                 attempts, calls, accepted, wire, closes>>

\* AfterRecv with an error or the end of the stream, from a peer that is gone.
AfterRecvError ==
  /\ tcp = "open" /\ sock \in {"connected", "shut"}
  /\ status' = "NONE"
  /\ tcp' = Closed(tcp)
  /\ UNCHANGED <<pc, looper, queue, wait_closed, sock, connect, shutdown,
                 writes, timer, armed, endgame, histories>>

\* AfterSend frees the request.
AfterSend ==
  /\ writes > 0
  /\ writes' = writes - 1
  /\ UNCHANGED <<pc, looper, queue, fields, tcp, sock, connect, shutdown, timer,
                 armed, endgame, histories>>

\* AfterShutDown, called when all writes are complete.
AfterShutDown ==
  /\ shutdown /\ writes = 0
  /\ shutdown' = FALSE
  /\ Closeinl
  /\ UNCHANGED <<pc, looper, queue, status, sock, connect, writes, timer, armed,
                 endgame, histories>>

\* Mutant: a handle ends with requests outstanding.
TcpEndsEarly == tcp = "closing"

\* uv_tcp_endgame: nothing of a closing handle is outstanding.
TcpEnds == tcp = "closing" /\ connect = "none" /\ writes = 0 /\ ~shutdown

\* Mutant: the state is left as it was.
TcpHandleCloseKeepsStatus ==
  /\ TcpEnds
  /\ tcp' = "closed"
  /\ closes' = closes + 1
  /\ wait_closed' = FALSE
  /\ UNCHANGED <<pc, looper, queue, status, sock, connect, shutdown, writes,
                 timer, armed, endgame, attempts, calls, accepted, wire,
                 answers>>

\* Mutant: the client goes on waiting.
TcpHandleCloseKeepsWaiting ==
  /\ TcpEnds
  /\ tcp' = "closed"
  /\ closes' = closes + 1
  /\ status' = "NONE"
  /\ UNCHANGED <<pc, looper, queue, wait_closed, sock, connect, shutdown,
                 writes, timer, armed, endgame, attempts, calls, accepted, wire,
                 answers>>

\* AfterHandleClose of the tcp handle
AfterTcpHandleClose ==
  /\ TcpEnds
  /\ tcp' = "closed"
  /\ closes' = closes + 1
  /\ status' = "NONE" /\ wait_closed' = FALSE
  /\ UNCHANGED <<pc, looper, queue, sock, connect, shutdown, writes, timer,
                 armed, endgame, attempts, calls, accepted, wire, answers>>

\* and of the timer, whose endgame stops it once more.
AfterTimerHandleClose ==
  /\ timer = "closing"
  /\ timer' = "closed" /\ armed' = FALSE
  /\ UNCHANGED <<pc, looper, queue, fields, tcp, sock, connect, shutdown,
                 writes, endgame, histories>>

\* A tcp handle is active while it reads, a timer while it is armed; handles that
\* are closing and requests count too (uv__loop_alive; active_handles is unsigned).
Reading == tcp = "open" /\ sock \in {"connected", "shut"}
Alive ==
  \/ tcp = "closing" \/ timer = "closing"
  \/ connect # "none" \/ writes > 0 \/ shutdown
  \/ surplus + (IF armed THEN 1 ELSE 0) + (IF Reading THEN 1 ELSE 0) # 0

\* uv_run returns.
LoopReturns ==
  /\ looper = "walked" /\ ~Alive
  /\ looper' = "done"
  /\ UNCHANGED <<pc, queue, fields, handles, histories>>

\* The operating system decides a connect request; the request of a closed
\* socket is cancelled, but nobody closes a stray one.
ConnectDecided ==
  /\ connect = "pending"
  /\ connect' \in (IF tcp = "open" \/ sock = "stray" THEN {"ok", "refused"}
                  ELSE {"canceled"})
  /\ UNCHANGED <<pc, looper, queue, fields, tcp, sock, shutdown, writes, timer,
                 armed, endgame, histories>>

-----------------------------------------------------------------------------
\* After AttachLooper.
Init ==
  /\ pc = [t \in Threads |-> "idle"]
  /\ looper = "running" /\ queue = <<>>
  /\ status = "NONE" /\ wait_closed = FALSE
  /\ tcp = "open" /\ sock = "fresh" /\ connect = "none"
  /\ shutdown = FALSE /\ writes = 0
  /\ timer = "open" /\ armed = FALSE
  /\ late = FALSE /\ surplus = 0
  /\ attempts = 0 /\ calls = 0 /\ accepted = 0
  /\ wire = <<>> /\ answers = <<>> /\ closes = 0

Call(t) ==
  \/ ConnectCheck(t) \/ SendCheck(t)
  \/ \E type \in {"CLOSE", "SHUTDOWN"} : Ask(t, type)

GoOn(t) == ConnectSet(t) \/ Push(t) \/ PushWrite(t)

DoEvent ==
  \/ ConnectStarts \/ ConnectFailsAtOnce \/ CloseEvent \/ ShutdownEvent
  \/ WriteHandled \/ WalkCloses

Callback ==
  \/ TimerFires \/ AfterConnect \/ AfterShutDown \/ AfterTcpHandleClose
  \/ AfterTimerHandleClose \/ LoopReturns

Next ==
  \/ \E t \in Threads : Call(t) \/ GoOn(t)
  \/ DeleteLooper
  \/ DoEvent \/ Callback \/ AfterRecvError \/ AfterSend \/ ConnectDecided

\* Calls go on once begun; the loop thread handles events, time passes, and
\* requests of a closed socket end; on a stray socket the operating system gives
\* the connect up in the end.  An open connection may stay silent: the network
\* need not answer a connect request, complete a write or end a stream.
Fairness ==
  /\ \A t \in Threads : WF_vars(GoOn(t))
  /\ WF_vars(DoEvent) /\ WF_vars(Callback)
  /\ WF_vars(tcp # "open" /\ (AfterSend \/ ConnectDecided))

Spec == Init /\ [][Next]_vars
FairSpec == Spec /\ Fairness

-----------------------------------------------------------------------------
(***************************************************************************)
(* Properties.                                                             *)
(***************************************************************************)
Types == {"CONNECT", "CLOSE", "SHUTDOWN", "WRITE", "LOOPER"}

\* Every variable keeps its type.
TypeOK ==
  /\ pc \in [Threads -> {"idle", "SET", "CONNECT", "CLOSE", "SHUTDOWN", "WRITE"}]
  /\ looper \in {"running", "closing", "walked", "done"}
  /\ queue \in Seq([type : Types, n : Nat])
  /\ status \in Statuses /\ wait_closed \in BOOLEAN
  /\ tcp \in {"open", "closing", "closed"}
  /\ sock \in {"fresh", "bound", "connected", "shut", "stray"}
  /\ connect \in {"none", "pending", "ok", "refused", "canceled"}
  /\ shutdown \in BOOLEAN /\ writes \in Nat
  /\ timer \in {"open", "closing", "closed"} /\ armed \in BOOLEAN
  /\ late \in BOOLEAN /\ surplus \in Int
  /\ attempts \in Nat /\ calls \in Nat /\ accepted \in Nat /\ closes \in Nat
  /\ wire \in Seq(Nat) /\ answers \in Seq(Answers)

\* What reaches the network is a beginning of what Send accepted: once one
\* write is lost, none that comes later is sent.
NoGapInData == \A i \in 1 .. Len(wire) : wire[i] = i

\* While the client says it is connected and is not being closed, there is an
\* open connection to send on, as long as the looper runs.
ConnectedMeansOpen ==
  status = "CONNECTED" /\ ~wait_closed /\ looper \in {"running", "closing"} =>
    tcp = "open" /\ sock \in {"connected", "shut"}

\* The client's state is sound, and agrees with the connection.
ClientInv == TypeOK /\ ConnectedMeansOpen

\* Nothing of the client's handle is under way in libuv any more when the close
\* callback runs (the application may free the client there); and it runs once,
\* unless a connect was begun after the close.
ClosedOnce ==
  /\ ~late => closes = (IF tcp = "closed" THEN 1 ELSE 0)
  /\ tcp = "closed" => connect = "none" /\ writes = 0 /\ ~shutdown

\* What libuv asserts when a handle ends, "assert(!(handle->flags &
\* UV_HANDLE_CLOSED))" (win/tcp.c:238): it has not ended before.
EndsOnce == closes <= 1

\* After the looper is gone its handles are closed; and of a client that connects
\* once ~CTcpClient's Close does not push to it: the state is one in which Close
\* does nothing (the order in which TestClient.cpp deletes them).
QuietAfterLooper ==
  looper = "done" =>
    tcp = "closed" /\ timer = "closed" /\ (attempts <= 1 => status \notin Up)

TimesOut == status' = "CONNECT_TIME_OUT" /\ status # "CONNECT_TIME_OUT"

\* The connect timer, until it was closed once, runs out on attempts that are
\* under way: never on an established connection, nor on one that was closed,
\* unless the attempt was begun after the close (ConnectTimeOut, and the closing
\* of the timer in AfterConnect and by the walk).
TimeOutOnlyWhileConnecting ==
  [][TimesOut /\ timer = "open" /\ ~late => status = "CONNECTING"]_vars

\* Every attempt ends, by success, error, time-out or close, also one after a close:
\* "close before reconnect" (TcpClient.cpp:344).
ConnectAnswered == status = "CONNECTING" ~> status # "CONNECTING"

\* The attempt under way has come to nothing: no request is out, and no Connect is
\* on its way to the loop thread.
GivenUp ==
  /\ connect = "none"
  /\ \A i \in 1 .. Len(queue) : queue[i].type # "CONNECT"
  /\ \A t \in Threads : pc[t] \notin {"SET", "CONNECT"}

\* The first attempt of a client ends; only one that was refused at once does so
\* without an answer: connectinl returns from the errors of uv_ip4_addr and
\* uv_tcp_connect and tells nobody (TcpClient.cpp:224-238).
FirstConnectAnswered ==
  (status = "CONNECTING" /\ attempts = 1) ~> (status # "CONNECTING" \/ GivenUp)

\* A client that was told to close while it had a connection, or asked for one, is
\* closed, and so is a handle that libuv began to close.  (A second attempt on a
\* handle that is closed already can wait for ever: closeinl closes it no more.)
CloseReported ==
  /\ (wait_closed /\ tcp # "closed") ~> ~wait_closed
  /\ tcp = "closing" ~> (tcp = "closed" /\ closes > 0)

\* Deleting the looper ends the client's handles, and the loop, if the loop's
\* count of active handles is right: a connect event that is handled between
\* uv_close and the endgame spoils it (surplus).
LooperEnds == looper = "closing" ~> looper = "done" \/ surplus # 0
=============================================================================
