----------------------------- MODULE TcpServer -----------------------------
(***************************************************************************)
(* The server of the library: class CTcpServer and its CTcpClientSession   *)
(* objects (uv/TcpServer.cpp) on one looper.                               *)
(*                                                                         *)
(* Everything here runs on the loop thread except Broadcast and the        *)
(* looper's Close, which any thread may call.  One turn of uv_run          *)
(* processes completed requests in some order ("reqs"), among them the     *)
(* wakeup that empties the queue of events ("drain"), and then finishes    *)
(* handles that have nothing outstanding ("endgames"), where shutdown and  *)
(* close callbacks run.                                                    *)
(*                                                                         *)
(* A session owns a context, which holds its tcp handle and outlives it:   *)
(* contexts of closed sessions wait in a list for later connections, and   *)
(* so do the write requests.                                               *)
(***************************************************************************)
EXTENDS Integers, Sequences, FiniteSets

CONSTANTS
  MaxSessions,   \* bound: connections the listener sees
  MaxCalls,      \* bound: calls of Send, Close and ShutDown
  MaxBroadcasts, \* bound: calls of Broadcast
  Excludes,      \* the lists of excluded ids it is called with
  MaxList,       \* MAXLISTSIZE
  Closers,       \* sessions the application may Close from their callbacks
  Shutters       \* sessions it may ShutDown from their callbacks

Ids == 1 .. MaxSessions      \* what CreateSessionId returns
Contexts == 1 .. MaxSessions \* enough of them: one for each connection

ASSUME BoundsAssumption ==
  /\ MaxSessions \in Nat /\ MaxCalls \in Nat /\ MaxBroadcasts \in Nat
  /\ MaxList \in Nat /\ Excludes \subseteq SUBSET Ids
  /\ Closers \subseteq Ids /\ Shutters \subseteq Ids

VARIABLES
  loop,      \* where the loop thread is: reqs, drain, endgames, done; or lost,
             \* when it has run into freed memory
  stop,      \* the looper's Close: no, asked, walked
  queue,     \* the looper's _event_queue
  listener,  \* _tcp_server_handle: open, closing, quiet (nothing outstanding),
             \* closed
  is_closed, \* _is_closed
  last_id,   \* s_id of CreateSessionId
  map,       \* _client_session_map: the context of each session there is
  tcp,       \* the handle in each context
  data,      \* _session_tcp_handle.data and parent_client_session
  made,      \* contexts allocated so far
  idle,      \* _idle_tcp_client_ctx_list
  freed,     \* contexts given back to the allocator
  pool,      \* how many requests lie in writeparam_list_
  calls,     \* history: calls made in callbacks
  asked,     \* history: sessions the application has told to shut down
  posts,     \* history: the excluded ids of each Broadcast, in order
  got,       \* history: the broadcasts written to each session
  news,      \* history: _func_new_conn callbacks
  gone       \* history: _func_tcp_client_close callbacks

serverVars == <<listener, is_closed>>
sessionVars == <<last_id, map, tcp, data>>
poolVars == <<made, idle, freed, pool>>
histories == <<calls, asked, posts, got, news, gone>>
vars == <<loop, stop, queue, serverVars, sessionVars, poolVars, histories>>

Sessions == DOMAIN map

NoHandle == [life |-> "none", read |-> FALSE, writable |-> FALSE, writes |-> 0,
             shutdown |-> FALSE]

\* After uv_tcp_init, uv_accept and uv_read_start.
Accepted == [life |-> "open", read |-> TRUE, writable |-> TRUE, writes |-> 0,
             shutdown |-> FALSE]

(***************************************************************************)
(* libuv: closing a handle, and what keeps it from its end.                *)
(***************************************************************************)
\* Mutant: only a stream that is still read is closed.
CloseIfReading(h) == IF h.life = "open" /\ h.read
                     THEN [h EXCEPT !.life = "closing", !.writable = FALSE]
                     ELSE h

\* uv_close, unless uv_is_closing
Close(h) == IF h.life = "open"
            THEN [h EXCEPT !.life = "closing", !.writable = FALSE]
            ELSE h

ShutdownReady(h) == h.shutdown /\ h.writes = 0

EndReady(h) == h.life = "closing" /\ ~h.read /\ h.writes = 0 /\ ~h.shutdown

Event(type, s) == [type |-> type, s |-> s]

(***************************************************************************)
(* The pool of write requests.                                             *)
(***************************************************************************)
\* sendinl takes a request from the pool or allocates one,
Take(n) == IF n > 0 THEN n - 1 ELSE 0

\* and gives it back at once when uv_write refuses the handle.
AfterSendinl(n, c) == IF tcp[c].writable THEN Take(n) ELSE Take(n) + 1

\* AfterSend
GiveBack(n) == IF n > MaxList THEN n ELSE n + 1

Written(h) == IF h.writable THEN [h EXCEPT !.writes = @ + 1] ELSE h

(***************************************************************************)
(* AcceptConnection.                                                       *)
(***************************************************************************)
\* Mutant: the context stays in the list of idle ones.
TakeContextAndKeep ==
  IF idle = <<>> THEN made' = made + 1 /\ UNCHANGED idle
                 ELSE UNCHANGED <<made, idle>>

TakeContext ==
  IF idle = <<>> THEN made' = made + 1 /\ UNCHANGED idle
                 ELSE idle' = Tail(idle) /\ UNCHANGED made

NewContext == IF idle = <<>> THEN made + 1 ELSE Head(idle)

\* A connection for which uv_accept and uv_read_start succeed.  The application
\* is told the new id.  (A callback with an error status is only logged: libuv
\* gives up one of its 32 accept requests, the others go on.)
AcceptConnection ==
  /\ loop = "reqs" /\ listener = "open"
  /\ last_id < MaxSessions
  /\ last_id' = last_id + 1
  /\ TakeContext
  /\ LET c == NewContext
     IN /\ tcp' = [tcp EXCEPT ![c] = Accepted]
        /\ data' = [data EXCEPT ![c] = last_id']
        /\ map' = [s \in Sessions \cup {last_id'} |->
                     IF s = last_id' THEN c ELSE map[s]]
  /\ news' = Append(news, last_id')
  /\ UNCHANGED <<loop, stop, queue, serverVars, freed, pool, calls, asked,
                 posts, got, gone>>

(***************************************************************************)
(* A session's callbacks.                                                  *)
(***************************************************************************)
Reads(s) ==
  /\ loop = "reqs"
  /\ s \in Sessions
  /\ tcp[map[s]].life = "open" /\ tcp[map[s]].read

\* In a callback of its own, _func_new_conn or _func_tcp_client_recv (AfterRecv
\* with data), the application may call a session's Send,
MayCall(s) ==
  /\ Reads(s)
  /\ calls < MaxCalls
  /\ calls' = calls + 1

CallSend(s) ==
  /\ MayCall(s)
  /\ pool' = AfterSendinl(pool, map[s])
  /\ tcp' = [tcp EXCEPT ![map[s]] = Written(@)]
  /\ UNCHANGED <<loop, stop, queue, serverVars, last_id, map, data, made, idle,
                 freed, asked, posts, got, news, gone>>

\* or Close or, once, ShutDown, which push an event: isclosed_ is false still.
CallPush(s, type) ==
  /\ MayCall(s)
  /\ queue' = Append(queue, Event(type, s))
  /\ UNCHANGED <<loop, stop, serverVars, sessionVars, poolVars, posts, got, news,
                 gone>>

CallClose(s) ==
  /\ s \in Closers
  /\ CallPush(s, "CLOSE")
  /\ UNCHANGED asked

CallShutDown(s) ==
  /\ s \in Shutters \ asked
  /\ CallPush(s, "SHUTDOWN")
  /\ asked' = asked \cup {s}

\* Mutant: the handle is closed in the callback, too.
RecvEndCloses(s) ==
  /\ Reads(s)
  /\ tcp' = [tcp EXCEPT ![map[s]] = [Close(@) EXCEPT !.read = FALSE]]
  /\ queue' = Append(queue, Event("CLOSE", s))
  /\ UNCHANGED <<loop, stop, serverVars, last_id, map, data, poolVars, histories>>

\* AfterRecv with an error or the end of the stream, after which libuv does not
\* read on: Close pushes an event, also for a session that is being shut down.
RecvEnd(s) ==
  /\ Reads(s)
  /\ tcp' = [tcp EXCEPT ![map[s]].read = FALSE]
  /\ queue' = Append(queue, Event("CLOSE", s))
  /\ UNCHANGED <<loop, stop, serverVars, last_id, map, data, poolVars, histories>>

\* The outstanding read of a closed socket completes, without a callback.
ReadAborted(s) ==
  /\ loop = "reqs" /\ s \in Sessions
  /\ tcp[map[s]].life = "closing" /\ tcp[map[s]].read
  /\ tcp' = [tcp EXCEPT ![map[s]].read = FALSE]
  /\ UNCHANGED <<loop, stop, queue, serverVars, last_id, map, data, poolVars,
                 histories>>

AfterSend(s) ==
  /\ loop = "reqs" /\ s \in Sessions
  /\ tcp[map[s]].writes > 0
  /\ tcp' = [tcp EXCEPT ![map[s]].writes = @ - 1]
  /\ pool' = GiveBack(pool)
  /\ UNCHANGED <<loop, stop, queue, serverVars, last_id, map, data, made, idle,
                 freed, histories>>

(***************************************************************************)
(* Calls from any thread.                                                  *)
(***************************************************************************)
\* Mutant: the newest event is handled first.
BroadcastFirst(except) ==
  /\ Len(posts) < MaxBroadcasts
  /\ loop \notin {"drain", "lost"} /\ stop = "no"
  /\ posts' = Append(posts, except)
  /\ queue' = <<Event("BROADCAST", Len(posts'))>> \o queue
  /\ UNCHANGED <<loop, stop, serverVars, sessionVars, poolVars, calls, asked, got,
                 news, gone>>

\* Broadcast: PushEvent waits while the queue is being emptied.
Broadcast(except) ==
  /\ Len(posts) < MaxBroadcasts
  /\ loop \notin {"drain", "lost"} /\ stop = "no"
  /\ posts' = Append(posts, except)
  /\ queue' = Append(queue, Event("BROADCAST", Len(posts')))
  /\ UNCHANGED <<loop, stop, serverVars, sessionVars, poolVars, calls, asked, got,
                 news, gone>>

\* Close of the server, or of its looper.
CloseLooper ==
  /\ stop = "no" /\ loop # "lost"
  /\ stop' = "asked"
  /\ UNCHANGED <<loop, queue, serverVars, sessionVars, poolVars, histories>>

(***************************************************************************)
(* The looper's wakeups: events, and the walk that closes every handle.    *)
(***************************************************************************)
Wakeup ==
  /\ loop = "reqs" /\ stop # "walked" /\ queue # <<>>
  /\ loop' = "drain"
  /\ UNCHANGED <<stop, queue, serverVars, sessionVars, poolVars, histories>>

Drained ==
  /\ loop = "drain" /\ queue = <<>>
  /\ loop' = "reqs"
  /\ UNCHANGED <<stop, queue, serverVars, sessionVars, poolVars, histories>>

\* DoEvent of a session that is still there.
SessionEvent(type) ==
  /\ loop = "drain" /\ queue # <<>>
  /\ Head(queue).type = type /\ Head(queue).s \in Sessions
  /\ queue' = Tail(queue)

\* closeinl
CloseEvent ==
  /\ SessionEvent("CLOSE")
  /\ tcp' = [tcp EXCEPT ![map[Head(queue).s]] = Close(@)]
  /\ UNCHANGED <<loop, stop, serverVars, last_id, map, data, poolVars, histories>>

\* shutdowinl: uv_shutdown refuses a handle that is not writable.
ShutdownEvent ==
  /\ SessionEvent("SHUTDOWN")
  /\ tcp' = [tcp EXCEPT ![map[Head(queue).s]] =
               IF @.writable THEN [@ EXCEPT !.writable = FALSE, !.shutdown = TRUE]
                             ELSE @]
  /\ UNCHANGED <<loop, stop, serverVars, last_id, map, data, poolVars, histories>>

\* DoEvent of a session that AfterShutDown has closed and that was deleted since:
\* pEvent->_data points to freed memory.  Either that still leads to the handle
\* in some context, the session's own or that of another one, or the program
\* goes no further.
DeletedEvent ==
  /\ loop = "drain" /\ queue # <<>>
  /\ Head(queue).type # "BROADCAST" /\ Head(queue).s \notin Sessions
  /\ \/ /\ \E c \in Contexts : tcp' = [tcp EXCEPT ![c] = Close(@)]
        /\ queue' = Tail(queue)
        /\ UNCHANGED loop
     \/ loop' = "lost" /\ UNCHANGED <<tcp, queue>>
  /\ UNCHANGED <<stop, serverVars, last_id, map, data, poolVars, histories>>

\* Mutant: the first excluded client ends the loop over the map.
AddressedBefore(except) ==
  {s \in Sessions : \A t \in Sessions : t <= s => t \notin except}

Addressed(except) == Sessions \ except

\* broadcastinl: sendinl to each session in the map that is not excluded, in the
\* order of their ids.
BroadcastEvent ==
  /\ loop = "drain" /\ queue # <<>> /\ Head(queue).type = "BROADCAST"
  /\ queue' = Tail(queue)
  /\ LET n == Head(queue).s
         to == Addressed(posts[n])
         reached == {s \in to : tcp[map[s]].writable}
         after[s \in 0 .. MaxSessions] ==
           IF s = 0 THEN pool
           ELSE IF s \in to THEN AfterSendinl(after[s - 1], map[s])
           ELSE after[s - 1]
     IN /\ pool' = after[MaxSessions]
        /\ tcp' = [c \in Contexts |->
                     IF \E s \in reached : map[s] = c THEN Written(tcp[c])
                     ELSE tcp[c]]
        /\ got' = [s \in Ids |-> IF s \in reached THEN Append(got[s], n)
                                 ELSE got[s]]
  /\ UNCHANGED <<loop, stop, serverVars, last_id, map, data, made, idle, freed,
                 calls, asked, posts, news, gone>>

\* Mutant: the sessions' handles are left to close by themselves.
WalkClosesListener ==
  /\ loop = "reqs" /\ stop = "asked"
  /\ stop' = "walked"
  /\ listener' = "closing"
  /\ UNCHANGED <<loop, queue, is_closed, sessionVars, poolVars, histories>>

\* CloseWalkCB: OnHandleClose of the server's handle and of each session's.
Walk ==
  /\ loop = "reqs" /\ stop = "asked"
  /\ stop' = "walked"
  /\ listener' = "closing"
  /\ tcp' = [c \in Contexts |-> Close(tcp[c])]
  /\ UNCHANGED <<loop, queue, is_closed, last_id, map, data, poolVars, histories>>

(***************************************************************************)
(* Endgames.                                                               *)
(***************************************************************************)
EndgameReady ==
  \/ listener = "quiet"
  \/ \E c \in Contexts : ShutdownReady(tcp[c]) \/ EndReady(tcp[c])

\* A turn of the loop without endgames changes nothing, and is left out.
EndReqs ==
  /\ loop = "reqs" /\ EndgameReady
  /\ loop' = "endgames"
  /\ UNCHANGED <<stop, queue, serverVars, sessionVars, poolVars, histories>>

\* AfterShutDown calls closeinl.
AfterShutDown(s) ==
  /\ loop = "endgames" /\ s \in Sessions
  /\ ShutdownReady(tcp[map[s]])
  /\ tcp' = [tcp EXCEPT ![map[s]] = [Close(@) EXCEPT !.shutdown = FALSE]]
  /\ UNCHANGED <<loop, stop, queue, serverVars, last_id, map, data, poolVars,
                 histories>>

Recycle(c) ==
  IF Len(idle) > MaxList THEN freed' = freed \cup {c} /\ UNCHANGED idle
                         ELSE idle' = Append(idle, c) /\ UNCHANGED freed

\* Mutant: the session is deleted but not taken out of the map.
AfterClientCloseKeeps(s) ==
  /\ loop = "endgames" /\ s \in Sessions
  /\ EndReady(tcp[map[s]])
  /\ gone' = Append(gone, s)
  /\ Recycle(map[s])
  /\ tcp' = [tcp EXCEPT ![map[s]] = NoHandle]
  /\ UNCHANGED <<loop, stop, queue, serverVars, last_id, map, data, made, pool,
                 calls, asked, posts, got, news>>

\* AfterClientClose and CTcpClientSessionHandleClose: the application is told,
\* the context is kept for later, the session deleted.
AfterClientClose(s) ==
  /\ loop = "endgames" /\ s \in Sessions
  /\ EndReady(tcp[map[s]])
  /\ gone' = Append(gone, s)
  /\ Recycle(map[s])
  /\ tcp' = [tcp EXCEPT ![map[s]] = NoHandle]
  /\ map' = [t \in Sessions \ {s} |-> map[t]]
  /\ UNCHANGED <<loop, stop, queue, serverVars, last_id, data, made, pool, calls,
                 asked, posts, got, news>>

\* The last accept request of the closed listening socket comes back, sooner or
\* later than what the sessions wait for,
AcceptsAborted ==
  /\ loop = "reqs" /\ listener = "closing"
  /\ listener' = "quiet"
  /\ UNCHANGED <<loop, stop, queue, is_closed, sessionVars, poolVars,
                 histories>>

AfterServerClose ==
  /\ loop = "endgames" /\ listener = "quiet"
  /\ listener' = "closed" /\ is_closed' = TRUE
  /\ UNCHANGED <<loop, stop, queue, sessionVars, poolVars, histories>>

EndgamesDone ==
  /\ loop = "endgames" /\ ~EndgameReady
  /\ loop' = "reqs"
  /\ UNCHANGED <<stop, queue, serverVars, sessionVars, poolVars, histories>>

\* Nothing keeps the loop alive.
LoopReturns ==
  /\ loop = "reqs" /\ stop = "walked" /\ listener = "closed"
  /\ \A c \in Contexts : tcp[c].life = "none"
  /\ loop' = "done"
  /\ UNCHANGED <<stop, queue, serverVars, sessionVars, poolVars, histories>>

-----------------------------------------------------------------------------
\* After AttachLooper and Start.
Init ==
  /\ loop = "reqs" /\ stop = "no" /\ queue = <<>>
  /\ listener = "open" /\ is_closed = FALSE
  /\ last_id = 0 /\ map = <<>>
  /\ tcp = [c \in Contexts |-> NoHandle]
  /\ data = [c \in Contexts |-> 0]
  /\ made = 0 /\ idle = <<>> /\ freed = {} /\ pool = 0
  /\ calls = 0 /\ asked = {}
  /\ posts = <<>> /\ got = [s \in Ids |-> <<>>]
  /\ news = <<>> /\ gone = <<>>

Callback(s) ==
  CallSend(s) \/ CallClose(s) \/ CallShutDown(s) \/ RecvEnd(s)

\* What a request of a session that is being closed must come to.
Completion(s) == ReadAborted(s) \/ AfterSend(s)

DoEvent ==
  CloseEvent \/ ShutdownEvent \/ DeletedEvent \/ BroadcastEvent \/ Drained

Endgame ==
  \/ \E s \in Ids : AfterShutDown(s) \/ AfterClientClose(s)
  \/ AfterServerClose \/ EndgamesDone

Next ==
  \/ AcceptConnection
  \/ \E s \in Ids : Callback(s) \/ Completion(s)
  \/ \E except \in Excludes : Broadcast(except)
  \/ CloseLooper
  \/ Wakeup \/ DoEvent \/ Walk
  \/ AcceptsAborted \/ EndReqs \/ Endgame \/ LoopReturns

\* The loop thread goes on; the wakeups it was sent and the requests of closed
\* sockets reach it.  A peer need not send or take anything.
Fairness ==
  /\ WF_vars(Wakeup) /\ WF_vars(DoEvent) /\ WF_vars(Walk)
  /\ WF_vars(AcceptsAborted) /\ WF_vars(EndReqs) /\ WF_vars(Endgame)
  /\ WF_vars(LoopReturns)
  /\ \A s \in Ids :
       WF_vars(s \in Sessions /\ tcp[map[s]].life = "closing" /\ Completion(s))

Spec == Init /\ [][Next]_vars
FairSpec == Spec /\ Fairness

-----------------------------------------------------------------------------
(***************************************************************************)
(* Properties.                                                             *)
(***************************************************************************)
ItemsOf(seq) == {seq[i] : i \in 1 .. Len(seq)}
InUse == {map[s] : s \in Sessions}

Handle == [life : {"none", "open", "closing"}, read : BOOLEAN,
           writable : BOOLEAN, writes : Nat, shutdown : BOOLEAN]

\* Every variable keeps its type.
TypeOK ==
  /\ loop \in {"reqs", "drain", "endgames", "done", "lost"}
  /\ stop \in {"no", "asked", "walked"}
  /\ queue \in Seq([type : {"CLOSE", "SHUTDOWN", "BROADCAST"}, s : Nat])
  /\ listener \in {"open", "closing", "quiet", "closed"}
  /\ is_closed \in BOOLEAN
  /\ last_id \in 0 .. MaxSessions
  /\ Sessions \subseteq 1 .. last_id /\ map \in [Sessions -> Contexts]
  /\ tcp \in [Contexts -> Handle] /\ data \in [Contexts -> 0 .. MaxSessions]
  /\ made \in 0 .. MaxSessions /\ idle \in Seq(Contexts)
  /\ freed \subseteq Contexts /\ pool \in Nat
  /\ calls \in Nat /\ asked \subseteq Ids /\ posts \in Seq(SUBSET Ids)
  /\ got \in [Ids -> Seq(Nat)]
  /\ news \in Seq(Ids) /\ gone \in Seq(Ids)

\* An event that is still to be handled names a session that has not been
\* deleted (DoEvent of the looper calls it through pEvent->_data), whatever the
\* peers do and whichever sessions the application closes.  What this excepts is
\* the CLOSE of a session that was told to shut down: its peer may end the stream
\* before AfterShutDown closes it.
EventsFindSessions ==
  stop # "walked" =>
    \A i \in 1 .. Len(queue) :
      \/ queue[i].type = "BROADCAST"
      \/ queue[i].type = "CLOSE" /\ queue[i].s \in asked
      \/ queue[i].s \in Sessions

\* A context is with one session, in the list of idle ones, or freed.  The
\* handles libuv knows are those of the sessions, and point back to them: the
\* walk and every callback find the session they are for.
OnePlace ==
  /\ \A s, t \in Sessions : map[s] = map[t] => s = t
  /\ Cardinality(ItemsOf(idle)) = Len(idle)
  /\ InUse \cap ItemsOf(idle) = {} /\ freed \cap (InUse \cup ItemsOf(idle)) = {}
  /\ InUse \cup ItemsOf(idle) \cup freed = 1 .. made
  /\ {c \in Contexts : tcp[c].life # "none"} = InUse
  /\ \A s \in Sessions : data[map[s]] = s

\* The lists of idle contexts and of write requests stay bounded, whatever fails:
\* by one more than MAXLISTSIZE, because of the test size() > MAXLISTSIZE.
PoolsBounded == Len(idle) <= MaxList + 1 /\ pool <= MaxList + 1

\* A client is sent the broadcasts that do not exclude it (TcpServer.h:43), each
\* once and in the order of the calls.
GotInOrder ==
  \A s \in Ids : \A i \in 1 .. Len(got[s]) :
    /\ s \notin posts[got[s][i]]
    /\ \A j \in 1 .. i - 1 : got[s][j] < got[s][i]

\* When the loop has ended every session was reported closed, and every context
\* is where the destructor frees it.
NothingLeft ==
  loop = "done" => /\ ItemsOf(news) = ItemsOf(gone)
                   /\ ItemsOf(idle) \cup freed = 1 .. made

\* What the server owns is accounted for in every state.
Accounted == TypeOK /\ OnePlace /\ PoolsBounded /\ NothingLeft

Registry == INSTANCE SessionRegistry WITH present <- Sessions

\* The application sees sessions come and go, each once.
ImplementsRegistry == Registry!RegistrySpec

Queued(e) == \E i \in 1 .. Len(queue) : queue[i] = e
CanGet(s) == s \in Sessions /\ tcp[map[s]].writable

\* A broadcast reaches every client that it does not exclude and that is there
\* to be written to, unless it goes or the looper is closed or lost first.
BroadcastReaches ==
  \A n \in 1 .. MaxBroadcasts, s \in Ids :
    (Queued(Event("BROADCAST", n)) /\ s \notin posts[n] /\ CanGet(s))
      ~> (n \in ItemsOf(got[s]) \/ ~CanGet(s) \/ stop # "no" \/ loop = "lost")

\* A session that was told to close, or whose peer has gone, is closed and
\* reported, whatever its outstanding writes, unless an event of a deleted session
\* ends the program.
ClosedWhenTold ==
  \A s \in Ids :
    Queued(Event("CLOSE", s)) ~> (s \notin Sessions \/ loop = "lost")

\* Closing the looper ends all sessions and the loop, with the same exception.
LooperEnds == stop = "asked" ~> loop \in {"done", "lost"}
=============================================================================
