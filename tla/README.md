# TestLibuv in TLA+

A C++ wrapper around libuv (`uv/`), its vendored libuv (`libuv/`) and two demo
programs (`TestClient/`, `TestServer/`).  The wrapper gives an application an
event loop in a thread of its own, TCP clients, a TCP server, UDP sockets, and
packets with a header on top of the TCP byte stream.  This directory holds
models of its core, checked by TLC, and proofs about them, checked by TLAPS.
Paths below are relative to the repository (`src/` in `PROJECT.json`).

## The system

| Part | State | Operations | Hard because |
|---|---|---|---|
| Packet reassembly, `uv/Packet.h` (`PacketSync`) | `read_data`, its allocated length, `real_packet_len`, `_head` | constructor, `Init`, `OnRecvData` | the network cuts the stream anywhere; the buffer is grown, filled and moved by hand; sessions recycle it |
| Event loop, `uv/Looper.cpp` (`CLooper`) | `_event_queue` and its mutex, two async handles, `_is_closed`, `_inited`, the thread | `InitLooper`, `PushEvent`, `Close`, `~CLooper`; on the loop thread `WorkThread`, `run`, `AsyncEvent`/`DoEvent`, `AsyncCB`/`CloseWalkCB` | any thread pushes and closes; wakeups are merged; the destructor joins a thread that ends only when every handle did |
| libuv's loop on Windows, `libuv/src/win/{core,async,handle}.c` (in `Looper`) | completion port, pending requests, endgame list, the life of each handle | `uv_run`, `uv_async_send`, `uv_close`, `uv_walk` | a handle ends rounds after `uv_close`; requests of a closed handle still complete |
| libuv's socket handles, `libuv/src/win/{tcp,udp,stream}.c`, `handle-inl.h`, `req-inl.h` (`SocketHandle`) | flags, `reqs_pending`, `activecnt`, `active_handles`, `active_reqs`, the listener's accept requests | `uv_read_start`, `uv_read_stop`, `uv_write`, `uv_shutdown`, `uv_tcp_connect`, `uv_listen`, `uv_accept`, `uv_udp_*`, `uv_close`, `uv_ref` | four counters kept by hand in forty places decide when a handle ends and when the loop does |
| libuv's timers, `libuv/src/timer.c`, `heap-inl.h`, the wait in `win/core.c` (`Timers`) | the loop's time, the heap, `timer_counter` | `uv_timer_start`, `stop`, `again`, `uv__run_timers`, `uv__next_timeout`, `uv__poll` | callbacks change the heap that is being run; 64-bit times meet an `int` wait; the kernel may wake early |
| TCP client, `uv/TcpClient.cpp` (`CTcpClient`) | `_connect_status`, `_is_wait_closed`, tcp handle, connect timer, one connect and one shutdown request | `Connect`, `Send`, `Close`, `Shutdown`; on the loop thread `connectinl`, `closeinl`, `shutdowinl`, `sendinl`, `ConnectTimeOut`, `After*` | two fields shared without a lock; timer, connect result, peer and application race |
| TCP server, `uv/TcpServer.cpp` (`CTcpServer`, `CTcpClientSession`) | listening handle, `_client_session_map`, `_idle_tcp_client_ctx_list`, `writeparam_list_`, one handle per session | `Start`, `AcceptConnection`, `Send`, `Broadcast`, `Close`, session `Close`/`ShutDown`, `CTcpClientSessionHandleClose` | contexts and write requests are recycled; sessions are deleted while events may name them; `Send` runs on the caller's thread |
| UDP socket, `uv/Udp.cpp` (`CUvUdp`) | the handle, a `send_param` for each datagram under way | `Bind`, `Send`, `Close` | `Close` closes the whole looper; a failed send frees on another path than a finished one; resets come as errors |
| Utilities, `uv/uv_utils.h` | `CMutex`, `PodCircularBuffer`, `CUVThread` | | the last two are used nowhere |
| Demo programs | | | they show the order of calls the library expects |

How the parts interact.  The application's threads call a client, server or
socket; that object looks at its fields and calls `CLooper::PushEvent`.
`PushEvent` queues the event under the mutex and wakes the loop thread with
`uv_async_send`.  The loop thread takes the wakeup from the completion port,
empties the queue and calls `DoEvent` of the object each event names, which
calls libuv.  libuv's callbacks (`AfterConnect`, `AfterRecv`, ...) run on the
loop thread, write the object's fields and call the application back; a chunk
that was read goes through `PacketSync::OnRecvData`, which calls back once per
packet.  `CLooper::Close` wakes the second async handle, whose callback walks
over every handle of the loop and closes it (`OnHandleClose` of each object);
when the last one has ended, `uv_run` returns and `~CLooper` can join the thread.

What makes each part correct:

- reassembly: whole packets, in order, none lost or invented, whatever the cuts;
  no copy outside the buffer; the loop ends;
- event loop: an event is handled once, in the order pushed, and not forgotten;
  `Close` does not overtake events; no handle ends with something of it under
  way; `Close` and the destructor come to their end;
- client: each attempt is answered; what is sent is what was accepted,
  without gaps; the close callback comes once and last;
- server: a session's callbacks concern its own connection; nothing is freed in
  use; the pools stay bounded; a broadcast reaches exactly the sessions asked for;
- socket handles: the counters are what they count, the loop is alive exactly as
  long as a callback is due, each request is answered once, the close callback
  is last and comes;
- timers: none early, none forgotten, in order, and none after it was stopped;
- UDP: every `send_param` freed once, datagrams handed over in spite of resets,
  destruction that ends.

`PROJECT.json` lists the hazards at their lines, and which property covers which.

## Modules

| Module | Models |
|---|---|
| `FramedChannel` | abstract: a first-in-first-out channel, what reassembly and the looper's queue both promise |
| `PacketSync` | the peer's byte stream and `PacketSync::OnRecvData` |
| `PacketSyncReuse` | extends it: one `PacketSync` serves several connections in turn |
| `PacketSyncProofs` | theorems about `PacketSync` |
| `Looper` | `CLooper` on libuv's loop, async handles and handle closing |
| `LooperProofs` | theorems about `Looper`: its queue and wakeups |
| `LooperCloseProofs` | theorems about `Looper`: how it closes |
| `TcpClient` | `CTcpClient`, its handle and timer, the application's threads, the network |
| `TcpClientProofs` | theorems about `TcpClient` |
| `TcpServer` | `CTcpServer` and its sessions on one looper |
| `TcpServerProofs` | theorems about `TcpServer` |
| `SessionRegistry` | abstract: the sessions an application of the server sees |
| `SocketHandle` | one tcp connection, listener or udp socket of libuv and the loop that drives it |
| `HandleContract` | abstract: libuv's promises about the callbacks of a handle |
| `SocketHandleProofs` | theorems about `SocketHandle` |
| `TimerHeap` | pure: the binary heap of `heap-inl.h` |
| `Timers` | `timer.c` and the time-dependent part of `uv_run`, on that heap |
| `TimerContract` | abstract: what a set of timers promises |
| `TimersProofs` | theorems about `TimerHeap` and `Timers` |
| `Udp` | `CUvUdp`, its looper, its owner and the network |
| `UdpProofs` | theorems about `Udp` |
| `MC*` | values for TLC |

**PacketSync.**  `read_data` is the valid part of the buffer
(`real_packet_len == Len(read_data)`), `cap` its allocated length.  One call of
`OnRecvData` is `Recv` (grow, copy; `hasPack` set) followed by iterations
`DeliverPacket`, `WaitForMore`, `DropBuffer` and the exit `LoopEnds`; a packet's
size is computed modulo 2^32 (`WordMod`) as the code does.  A word is encoded
into bytes by the parameters `Encode` and `Decode`, so the proofs hold for any
byte order and any word length.  The peer frames its packets as `PacketData` in
`TestClient.cpp`; `stream`, `ends`, `flags`, `received` and `delivered` are
histories.  `real_packet_len` is an `int` in the code and a natural number here: the buffer
of a connection is taken to stay below 2 GB.  `PeerAssumption` says that a packet's size does not itself wrap,
because the sender computes it in a `uint32_t` too.

**Looper.**  Four kinds of process.  The owner runs `InitLooper` statement by
statement, attaches handles, and destroys the looper (`owner` is its program
counter).  Each producer runs `PushEvent` in two steps, `PushLocked` (lock and
push) and `SendAndUnlock`.  Each caller of `Close` runs `CloseCheck`, `CloseSet`,
`CloseSend`: the test, the assignment and the send are not atomic.  The loop
thread runs one round of `uv_run` after the other (`loop`): the pending requests
one at a time, the wakeups' callbacks (`DoEvent`'s loop with the mutex held, the
close walk handle by handle), polling, the endgames one at a time, the test of
`uv__loop_alive`.  `iocp` is the completion port, `pending` what the last poll
took from it.  A handle of a client or server (`Users`) has at most one request
outstanding (`io`); its callback may push an event.  `PromptInit` chooses whether
the new thread may look at the loop before the two `uv_async_init` calls; the
passing runs and the fault-free behaviour take it `TRUE`, `looper_late_init`
shows what happens otherwise, and the theorems hold for both values.
Not in the model: the limit of 128 completions per poll, a poll that returns for
a timer (a round in which nothing happens), failures of `uv_async_init` (it has
none) and of posting a completion (libuv aborts).

**TcpClient.**  The looper is taken for what `Looper` shows it to be: a queue
whose events are handled in order, before the walk that `Close` causes.  A call
of the application is a look at the fields (`ConnectCheck`, `SendCheck`, `Ask`)
and, in a later step, the push.  `DoEvent`'s branches and libuv's callbacks are
one action each; `tcp`, `sock`, `connect`, `shutdown`, `writes`, `timer` and
`armed` are the state of libuv's handles and requests as far as the callbacks
depend on it.  `uv_close` on a handle that is closing returns without effect, as
in a build without assertions.  `uv_tcp_connect` and `uv_timer_start` do not ask
whether the handle is closing (`uv-common.c:297`, `win/tcp.c:738`, `timer.c:71`), so a
connect event that is handled after the close starts a request and the timer: a
handle that was never bound gets a socket then (`sock = "stray"`), the request makes the
endgame due once more (`late`), and when it is begun between `uv_close` and the endgame
`active_handles` keeps one too many (`surplus`).  Of that abnormal path three details are
left out: the stray socket is never closed (a leak), a handle that is put on the endgame list
twice is taken for one entry, and the two async handles of the looper, which the walk closes
too, are not counted in `Alive`.  The connect request's result and its processing are
two steps, so the timer can run between them.  Calls from within callbacks are
not modelled apart: they are steps of a thread of the application.
`FairSpec` is checked; `AttachLooper` has succeeded in `Init`.  `ClientInv` is the
type invariant with `ConnectedMeansOpen`.

**TcpServer.**  The server after `Start`.  A session is an id, an entry of
`_client_session_map` (`map`), and a context with its tcp handle (`tcp[c]`, `data`)
that outlives it: `TakeContext` is what `AcceptConnection` does with
`_idle_tcp_client_ctx_list`, `AfterClientClose` what `CTcpClientSessionHandleClose`
does.  `loop` is the phase of a turn of `uv_run`: completed requests in any order
(`reqs`), among them the wakeup that empties the queue (`drain`), then handles
without anything outstanding (`endgames`).  Callbacks call the application, which
may `Send`, `Close` or `ShutDown` that session (`Call...`); `Broadcast` and the looper's
`Close` come from any thread.  `MaxList` is `MAXLISTSIZE`, and `PoolsBounded` states the
bound that follows from the code's test `size() > MAXLISTSIZE`: one more.
Assumed of the application, and listed as hazards where the code would not
survive otherwise: it calls a session only from that session's callbacks, and
shuts it down once.  Which sessions it closes and which it shuts down is bounded by `Closers` and
`Shutters`, which may overlap; a peer may end any stream at any time (`RecvEnd`).
So a `CLOSE` can be queued for a session that `AfterShutDown` closes before it is
handled, and that is deleted then.  `DeletedEvent` handles such an event: the code reads freed
memory, so either the handle of some context is closed or the program goes no
further (`loop = "lost"`).
`Accounted` is the type invariant with `OnePlace` (contexts), `PoolsBounded` and
`NothingLeft`.

**SocketHandle.**  The fields of one handle, and the loop's counters as far as
they belong to it, are the record `s`; each operator of the first part is a macro or
an inline function of `handle-inl.h` or `req-inl.h` as a change of `s`.  A request is
with the kernel (`s.iocp`), posted (`completed`), taken over by the loop (`s.pending`) or
in the batch `uv_process_reqs` goes through.  The kernel finishes a request at once,
later, or (`use.fails`) refuses it.  `at` says where the loop thread is, inside the
processing of a read also between its callback and the requeueing, and `cb` whose
callback runs; the calls the application may make are actions guarded by
`CanCall`: in any callback, this handle's or another's, until the close callback.
Assertions are compiled out, as in the repository's release build.  It is
assumed of the caller that it does not use a handle after `uv_close`: libuv
refuses some of those calls, but not `uv_tcp_connect` on a handle that was never
bound, `uv_udp_recv_start` or `uv_udp_send`.  The wrapper keeps to that but for the connect
event that is handled late, which is in `TcpClient`.  A
processing of a tcp read goes on reading while the data fills the buffer
(`RecvData`), each time with a callback.

**Timers** and **TimerHeap.**  The heap is a sequence; `heap_insert` and
`heap_remove` do what `heap-inl.h` does to its nodes; its loops are `Walk`s, which repeat
a turn (`TurnUp`, `TurnDown`) as often as the heap has nodes, and turns left over do nothing.  `at`
is the phase of `uv_run`; `uv__run_timers` stops, restarts and calls one timer after
the other, with the callback's calls in between.  Time is two variables, the
hardware's `clock` and the loop's `time`.  `Top` stands for the greatest `uint64_t` and
`IntMax` for the greatest `int`, so small numbers overflow; `Early` is how many
milliseconds `GetQueuedCompletionStatusEx` may wake too soon, which makes `uv__poll`
go round with a longer wait each time.  A timer with a repeat runs again.  A
timer is not started after its `uv_close` (an assumption: `uv_timer_start` does not ask, and
`TcpClient` has the one caller that does it).
`TimersInv` is the type invariant with `HeapIsRight`.

**Udp.**  The owner binds while the loop's thread runs already (so the receive
request of `Bind` may be parked until something wakes the loop), threads push
datagrams, `sendinl` allocates a `send_param` or frees it when libuv refuses, the
network brings datagrams, `WSAECONNRESET` and real errors, and `Close` closes the
looper.  What is heard is what libuv hands to its receive callback; `CUvUdp`'s own drops
empty datagrams there (`Udp.cpp:53-56`).  `params` is the bag of allocated parameters: a bag, so that one freed
twice or never would show.  `UdpInv` is the type invariant with `ParamsFreedOnce` and
`ReceiveMatches`.

Some invariants of the runs are conjunctions of named parts, so that a run
names each question once: besides those above, `LoopEndsClosed` of `Looper` says that
`uv_run` does not return before somebody has closed, and then with every handle closed.

## Checks

Every run is TLC's, on every behaviour within its bounds.

| Run | Bounds | Shows |
|---|---|---|
| `packet_chunks` | 3 packets with 0 to 2 bytes of data, base-3 bytes, 2-byte words, chunks of 1 to 9 bytes, buffer of 4 | delivery in order, independence of the cut, buffer safety, the channel, termination |
| `packet_foreign` | the same with two flags | only own packets |
| `packet_reuse` (violation) | 2 connections | an old connection's rest reaches the next connection |
| `looper` | 2 producers, 1 closer and the owner, 1 handle, 1 event each | the inductive invariant, no lost wakeup, `Close` after events, everything closed when `uv_run` returns, the queue is a channel, events are handled, destruction ends |
| `looper_late_init` (violation) | `PromptInit = FALSE` | the loop thread can end before anybody closes |
| `client` | 2 threads, 2 attempts, requests refused at once, 2 sends, 2 closes or shutdowns | no gap in the data, open while connected, nothing under way at the close callback, quiet after the looper, time-outs of attempts only until the timer is closed, the first attempt ends, closing and the looper end |
| `client_ends_twice` (violation) | 2 threads, 1 attempt, 1 close | a connect handled after the close makes the handle end twice |
| `client_reconnect` (violation) | 1 thread, 2 attempts | a second attempt after a close is never answered |
| `server` | 2 connections, 1 call in a callback, session 2 may be closed and 1 shut down, any ended by the peer, 2 broadcasts that exclude nobody or session 1, `MAXLISTSIZE` 0 | contexts and pools accounted for, broadcasts in order and to whom they should go, events find their sessions, sessions come and go once, close when told, the looper ends |
| `handle` | 2 accept requests, 2 writes, and one at a time of: stopping and restarting, refusals by the kernel, `uv_ref`/`uv_unref` | counters exact, loop alive exactly while a callback is due, libuv's promises kept, closing and shutdown answered |
| `timers` | 2 timers, delays 0, 2 and 4, repeats 0 and 2, greatest time 4, greatest wait 1, clock up to 3 | the heap, order and punctuality, nothing early, timers and requests both get their turn |
| `udp` | 2 senders, 1 datagram each, 3 items from the network, room for 2 | parameters freed once, a posted receive finds something, datagrams heard in spite of resets, destruction ends |

The bounds are small but reach the cases that matter.  A chunk of 9 bytes holds
a 6-byte header and a packet's data with the start of the next packet, and
chunks of one byte cut every header; three packets give a first, a middle and a
last.  Two producers, one closer and a handle whose callback pushes make wakeups
merge, arrive late and overtake each other.  Two attempts are the least with
which a timer or a handle of an earlier attempt is met again.  One call of `ShutDown` and the
end of the peer's stream are enough for a session to be closed twice; two broadcasts are the least
that can come in the wrong order.  With two connections and a list limit of 0 a context is
reused (by a second connection that comes after the first has gone), or one is kept
beyond the limit and one is freed (when both go).  Two writes let one
finish before a shutdown and one after; a second accept request makes the stack
of unclaimed connections more than one deep.  A delay of 4 with a greatest time of 4
wraps from time 1 on, a greatest wait of 1 cuts every longer wait, and waking early by 1
repeats the wait.  Two timers make a heap of at most two nodes, so `TimersInv` also
checks every insertion into and removal from every heap of up to seven nodes: from
six on a removal can need the way up.  Three items in a buffer of two fill it, and
let a reset stand before a datagram.

`CHECK_DEADLOCK FALSE` is set everywhere: the peer, the application and the
bounds let every system stop.

Fairness.  In `PacketSync`, the loop of `OnRecvData` goes on (nothing in it
waits) and what the peer sent arrives.  In `Looper`, every thread that has begun
an operation goes on, and the request of a handle that is closing completes
(closing the socket cancels it); nobody need push, close or destroy.  In
`TcpClient`, begun calls go on, the loop thread handles events and callbacks,
time passes (so an armed timer runs out), and requests of a closed socket end;
the network need not answer, and an application need not call.  So
`FirstConnectAnswered` rests on the timer, not on the peer.  `LooperEnds` leaves out the loop whose
count of handles is wrong (`surplus`; see Findings).  In `TcpServer`, the loop
thread goes on and the requests of a closing socket complete; no peer need
connect, read or end, so `ClosedWhenTold` rests on closing alone; the server's liveness leaves
out a program that was stopped by freed memory (`loop = "lost"`).  In
`SocketHandle` likewise; there one step is strongly fair, the read that does not fill
the buffer: the code reads on without returning to the loop as long as the data
fills it (`win/tcp.c:1002-1054`), and a peer that keeps it full for ever would keep
every other callback waiting for ever.  In `Timers`, the
loop goes on and time passes; `RequestsRun` rests on `MaxCalls` too, because a callback that
always starts its own timer again with no delay keeps `uv__run_timers` in its loop.  In `Udp`, the
loop goes on and the kernel completes what it
was given, a receive only when something has come.  Apart from that one step weak
fairness is enough: each step stays enabled until it is taken.

## Findings

Four runs expect a violation of what the code's own comments, or libuv's, say;
`PROJECT.json` quotes the lines.

- `packet_reuse`: `Init` of a recycled `PacketSync` leaves `real_packet_len`.
- `looper_late_init`: the loop thread is started before its handles exist.
- `client_reconnect`: nothing calls `uv_tcp_init` again for a second attempt after a close.
- `client_ends_twice`: `Connect` sets `CONNECTING` before it pushes its event, so that another
  thread's `Close` can overtake it.  The connect event then starts a request on the closed
  handle, which ends a second time, and with it comes a second close callback, when the
  application may have freed the client.

The models also have, without a run of their own:

- `PushEvent` and `Close` can send to async handles that are closing.  libuv forbids that
  (`win/async.c:74-76`) but only asserts it; the handle then ends later, after the wakeup.
- A connection attempt whose request is refused just before the time-out is answered twice,
  by the time-out and then by the error (`TcpClient.cpp:301` compares with `UV_ECANCELED` only).
- When the connect event is handled between `uv_close` and the endgame,
  `active_handles` counts the handle twice and never returns to zero (`surplus`): `uv_run` does not
  return and the destructor's join blocks.  `LooperEnds` without its second alternative fails.
- The first `AfterConnect` closes the connect timer; a second attempt on the same client
  starts it nevertheless (`TcpClient.cpp:240`).  Nothing stops it (line 297), so it may run out
  on a connection that is made, which it closes; or the endgame of the timer disarms it, and then
  the attempt may stay without an answer.  Hence `timer = "open"` in
  `TimeOutOnlyWhileConnecting` and `attempts = 1` in `FirstConnectAnswered`.
- A `Close` that is handled when a second attempt on a closed handle has set `CONNECTING`
  sets `_is_wait_closed` for ever; `CloseReported` speaks of handles that are not closed.
- `uv_tcp_connect` or an address refused at once leaves the client in `CONNECTING`
  (`TcpClient.cpp:224-238`): the alternative `GivenUp` of `FirstConnectAnswered`.
  `client_reconnect` excludes it with `MayFailAtOnce = FALSE`, because it would violate
  `ConnectAnswered` without a second attempt.
- A read that the kernel refuses is queued without `READ_PENDING`
  (`win/tcp.c`, `uv_tcp_queue_read`), so stopping and starting again before it is processed
  would queue the same request twice.  `MCUses` therefore keeps refusals and restarts
  apart; `OnePlace` fails when both are allowed.
- A listener for which one accept request cannot be queued stops listening, but
  connections that other requests have accepted can still be claimed, and claiming
  one queues its request on a handle that does not listen (`win/tcp.c:399`).
- `CTcpServer::_is_closed` is true as soon as the listening handle is closed, while
  sessions may still be open.
- A session that is told to shut down, and then to close by the application
  (`TcpServer.cpp:387`) or by the end of its peer's stream (`AfterRecv`, 494-503), has a
  `CLOSE` event that `AfterShutDown` (426-432) can precede: the session is closed and deleted
  before the event is handled (`DeletedEvent`).  `EventsFindSessions` says of all other
  events that their session is there.  No line of the repository claims more, so no run
  expects a violation.

## Proofs

`tlapm` proves, for every value of the constants the named assumptions allow:

- `BufferSafe`: `Spec => [](TypeOK /\ Window /\ InsideBuffer)`.  By itself
  `InsideBuffer` is not inductive: `Recv` needs that the buffer is exactly the
  received, unconsumed part of the stream (`Window`), and that in turn needs types.
  This part (`StreamInv`) holds for peers of any flags.
- `PacketsInOrder`, `CutDoesNotMatter`, `ReassemblyIsAChannel`: for peers of one
  flag (`Flags = {HeadFlag}`).  `IInv` adds that the headers in the stream tell
  the packets' lengths (`FramesInv`), that the buffer starts at a packet's start
  (`Aligned`) and that outside the loop no complete packet is left
  (`NothingReady`).  The key lemma, `FrontPacket`, says that the flag and the size
  `OnRecvData` decodes at the front are those of the next packet not delivered;
  from it, `DropBuffer` is never taken and `DeliverPacket` delivers that packet.
  Refinement: `PeerSend` is the channel's Put, `DeliverPacket` its Get,
  everything else a stutter.
- `OnlyOwnPacketsDelivered`: `FlagOnlyAtStart => (Spec => []OnlyOwnPackets)`, for peers of
  any flags.  When a packet with another flag is in the stream, `OnRecvData` gives up its
  buffer and starts anew with the next chunk, which may begin anywhere; so the proof
  cannot follow the packets one by one.  Instead: a block is handed over only where the
  flag was read, the flag can be read only where a packet starts (`FlagsMarkStarts`, the
  hypothesis carried from two packets to the whole stream: a word that lies across two
  packets lies in the two alone), and a block handed over ends where that packet ends.
  `Chosen` names the packets handed over, which is why they are in order and none comes
  twice.  Without the hypothesis the property is false for contents that hold the flag;
  the run `packet_foreign` is of a codec with it, and TLC evaluates it there.
- `Inductive`: `Spec => []IInv` of the looper, for any sets of producers, closers
  and handles.  `WakeupsAreNotLost` follows: `NoLostWakeup` needs that the mutex
  tells who is in its critical section (`MutexInv`), that a set `async_sent`
  stands for a completion on its way (`SentInv`, or a send that finds the flag set
  could be lost), that a poll never overwrites pending requests (`PollInv`), and
  that nothing is pushed before the handles exist (`EarlyInv`).
- `QueueIsAChannel`: `Spec => ImplementsQueue`.  Invariant `QueueInv`
  (`handled \o event_queue = pushed`); every push is the channel's Put, every
  `HandleEvent` its Get.
- `ClosesInOrder`: `Spec => []CloseInv`, the invariant of closing, again for any number of
  threads, handles and events.  `CloseWaitsForEvents` follows: the close wakeup was
  queued behind the wakeup of every event pushed before it, so the proof has to say where
  the wakeup of the events lies while any of those is not handled: in the port or in the
  list of pending requests, in either before the close wakeup, or the loop thread is at
  it already (`WakeInv`, `BehindInv`).  `HandlesEndQuietly` needs who may still send to the handle
  (`CallersInv`, `WayInv`).  `ThreadEndsWithAllClosed` is under `PromptInit`, that the
  handles are initialised before the thread looks at the loop; without it the
  property is false (see Findings), the other theorems do not need it.
- The server, for any number of connections, calls in callbacks and broadcasts.
  `Inductive` of `TcpServerProofs` proves `IInv`, which is `Types`, `ContextInv`, `NewsInv` and
  `BroadcastInv`; `BroadcastsInOrder`, `ContextsInOnePlace`, `NothingIsLeft` and
  `SessionsComeAndGo` (`Spec => ImplementsRegistry`) follow from it, and with `Counts`
  `ServerAccounted` (`Spec => []Accounted`).  What `broadcastinl` makes of the pool of write
  requests is a recursion over the sessions: `PoolAfter` shows that the recursive
  function is well defined and that each of its values is within the bounds.  `GotInOrder` is not
  inductive: what a session was written must also be earlier than every broadcast
  still queued, and those must be in order (`BroadcastInv`).  `OnePlace` counts the
  items of a list; `ContextInv` says the same with positions, so that taking the
  first one and appending one can be followed, and `PointBack` is needed to know
  whose context a close callback gives back.  `NothingLeft` needs that `news` and
  `gone` differ by the sessions in the map (`NewsInv`).  Only two steps touch these
  variables, `AcceptConnection` and `AfterClientClose`; `OtherSteps` says so once for all
  others.
- `EventsFindTheirSessions`: `Spec => []EventsFindSessions`, whatever the peers do and
  whichever sessions are closed, shut down or both.  The argument, `EventInv`: a session
  that was not told to shut down and has a `CLOSE` event queued is open until the queue is being
  emptied, because only the event itself or the close walk closes its handle; and the handle
  ends in a later phase of the turn, when the queue is empty.  A session with a
  `SHUTDOWN` event has only that one, and no shutdown request before it is handled, so no
  `AfterShutDown` either; it may be closed by a `CLOSE` before it in the queue, but does not end
  before the queue is empty.

- The client, for any number of threads, calls and attempts.  `IInv` of `TcpClientProofs` is
  `TypeOK`, `HandleInv` and `WriteInv`.  `StatusAgrees` and `CloseIsLast` follow from `HandleInv`:
  what `ClientInv` and `ClosedOnce` say is inductive once it is known in which states of the socket a
  request can be out (`SockInv`).  `ClosedOnce` says for every behaviour that nothing is under way
  when the handle ends, and that it ends once unless a connect was begun after the close (`late`);
  that exception cannot be dropped (`client_ends_twice`).  `DataHasNoGaps` needs more than `NoGapInData`: the writes queued are
  in order and later than those sent, and as long as the socket is writable none between
  is missing (`WritesInOrder`, `NoneMissing`), because a socket that stopped being writable
  never is again.
- `TimeOutsAreOfAttempts`: `Spec => TimeOutOnlyWhileConnecting`, for any number of attempts.
  `TimerInv` says that while the timer was never closed there was no answer yet, that it
  runs only with its request, and that a connect event on its way means that the state is `CONNECTING`.
- `QuietWhenLooperGone`: `Spec => []QuietAfterLooper`.  `Ended` and `WalkedClosed`, that the
  handles are closed at the end, hold for any number of attempts.  That `~CTcpClient` does
  not push is said of a client that has connected once at most, because a second attempt after a
  close can leave `CONNECTING` behind (see Findings); so `Once` is an invariant under
  `attempts <= 1`.  `OnceOnly` follows the only `Connect` from its thread through the queue: it is
  in one of these places at a time.  `AttemptInv` says that before the state is set nothing
  has happened to the handle but the walk (`BeforeSet`), and that a handle that has ended
  leaves a state in which `Close` does nothing (`ClosedIsDown`), also when it ends twice.
- The udp socket: `RequestsAgree`, `Spec => []UdpInv`.  `ParamsFreedOnce` says that the bag of
  `send_param`s holds one of each datagram under way; it needs that a datagram is pushed
  once and is in one place (`EachOnce`), and that closing gives up what the kernel has
  (`ClosingGivesUp`).  `ReceiveMatches` is inductive with the types.
- libuv's socket handle, for any number of writes and accept requests.  `Inductive` of
  `SocketHandleProofs` proves `IInv`; `HandleAccounted`, `AliveExactly` and `Refinement` follow from it.
  `Accounted` counts with `Cardinality` and `Len`; the invariant says that positions in the
  three queues determine requests (`PlaceInv`), so that a request can be followed from the
  kernel through them, and counts what is in flight as one set (`CountInv`).  That
  a request given to the kernel is nowhere yet needs, for the read request, that
  `READ_PENDING` tells whether it is out (`ReadInv`), for the connect request the flag
  `CONNECTING`, for an accept request that it was on the stack (`OtherInv`).  `AliveWhileDue` needs that
  `activecnt` counts reading, listening and registered requests and that
  `active_handles` follows the flags `ACTIVE`, `REF`, `CLOSING` and `CLOSED` (`Half`).  In the refinement
  starting a request is the contract's `Issue`, the call of its callback `Answer`, the
  endgame of a closing handle `CloseCallback`; each lemma about an action says both that it keeps
  `IInv` and which action of the contract it is, if any.  All of this is under
  `KeptApart`, that no use has both restarts and refusals: with both, a refused read and
  its successor are queued twice (see Findings), and `OnePlace` and `PendingCounted` are false.

- The heap, `HeapSound`: `HeapWorks(key)` for every finite set of nodes and all keys.
  The loops of `heap-inl.h` keep a heap in which only the node that moves may be out of order
  (`HeapBut`); on the way up it is also above its children (`AboveChildren`).  `UpTurn`, `UpEnd`,
  `DownTurn` and `DownEnd` are one turn each; `WalkUpIs` and `WalkDownIs` put them together:
  the node gets nearer to the root, or farther from it, with each turn and so comes to rest within
  as many turns as there are nodes.  `RemoveIs` needs both walks: what the walk down leaves is a
  heap but for the node that moved, which can still be less than its parent.
- The timers, for any number of timers, delays and repeats.  `TimersSound`, `Spec => []TimersInv`,
  and `TimersImplement`, `Spec => ImplementsTimers`.  Besides the heap the invariant `IInv` of
  `TimersProofs` needs that active timers have a callback (or one that repeats would not be
  started again when it runs) and different `start_id`s, all below `timer_counter`: so
  the root of the heap (`RootLeast`) is strictly the first in the contract's order.
  `StartIs` and `StopIs` say what `uv_timer_start` and `uv_timer_stop` leave and that they are
  the contract's arming and disarming; `DueIs` is the 64-bit sum of `timer.c:83`.

Where a definition is recursive (`PoolAfter`, the walks, the heaps `HeapWorks` ranges over),
the proofs use induction in a first-order form: `SetInduction`, for a set of naturals, from the
library's fact that `<` is well-founded; `Recursion` then gives the recursive function.

Assumptions: `SizesAssumption`, `CodecAssumption` and `PeerAssumption` of
`PacketSync` (words decode to what was encoded; a packet's size fits a word),
`NamesAssumption` and `BoundsAssumption` of `Looper` (names of threads and handles
are distinct), `BoundsAssumption` of `TcpClient`, `TcpServer` and `Udp` (bounds are natural
numbers, sets of sessions are sets of ids), `SocketAssumption` of `SocketHandle` (requests are
distinct, a listener has finitely many accept requests), `TimersAssumption` of `Timers`
(names are distinct, delays and repeats fit the greatest time, and the clock does not reach
that).  TLC evaluates them in the runs.

Only model-checked: all liveness (`EveryPacketDelivered`, `EventsHandled`, `DestroyEnds`,
`FirstConnectAnswered`, `CloseReported`, `LooperEnds`, `ClosedWhenTold`, `BroadcastReaches`,
`CloseEnds`, `ShutdownAnswered`, `DueRuns`, `RequestsRun`, `Heard`, `Ends`): fairness and
`ENABLED` are out of the prover's reach.  Every invariant and every refinement that a
passing run checks is stated by a theorem; `OnlyOwnPackets` and `LoopEndsClosed` are proved
under a named hypothesis each, given above, without which they are false; so are the theorems about
the order of packets (peers of one flag) and about socket handles (`KeptApart`).

## Not modelled

- In the wrapper: `PodCircularBuffer` and `CUVThread`, used nowhere; message texts,
  logging, `SetNoDelay`, `SetKeepAlive`; failures of `AttachLooper`; the error paths
  of `AcceptConnection`, where a context goes back to the list with its handle still
  known to libuv (hazards); calls of sessions from threads other than the loop's,
  which race with the pools (hazards); destructors other than `~CLooper`.
- Memory that is freed in use appears only as the events that would lead there
  (`EndsQuietly`, `ClosedOnce`, `EventsFindSessions`, `ParamsFreedOnce`) and as
  `DeletedEvent` of the server.  The data race of
  `AttachLooper` with the running loop thread does not appear, because libuv's
  lists are abstracted; of `Bind`'s race only its effect on the receive request does.
- Of libuv's Windows port: binding, socket options, `uv_try_write`, layered
  providers, handles other than tcp, udp, timer and async.
- The rest of the vendored libuv, some nine tenths of the repository's C code: its
  Unix port (the wrapper builds on Windows), files, pipes, ttys, processes, signals,
  the thread pool, name resolution, and the declarations of `winapi.h` and `uv.h`.
  Nothing in `uv/` or the demos calls it.  The wrapper itself is some 2,100 lines, so
  what is modelled here, though nearly all of the wrapper with the libuv beneath
  it, is a small part of the lines there are.

## Plan

1. Done: `PacketSync`, `Looper`, `TcpClient` with their runs.
2. Done: `TcpServer` over `SessionRegistry`, `Udp`, and beneath them libuv's
   `SocketHandle` over `HandleContract` and `Timers` over `TimerContract`.
3. Done: proofs about all of these: every invariant and every refinement that the passing
   runs check.
4. Composition: `TcpClient`'s queue as the channel that `Looper` implements, as a
   refinement between the two modules instead of an argument in prose.
