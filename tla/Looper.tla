------------------------------- MODULE Looper -------------------------------
(***************************************************************************)
(* The event loop shared by every client, server and socket of the         *)
(* library: class CLooper (uv/Looper.cpp) over libuv's loop, async handles *)
(* and handle closing on Windows (libuv/src/win).                          *)
(*                                                                         *)
(* Three kinds of threads meet here.  The owner creates the looper, starts *)
(* its thread, attaches handles and destroys it.  Producers call PushEvent *)
(* and closers call Close while it runs.  The loop thread runs uv_run: it  *)
(* takes completions from the I/O completion port (iocp), calls the        *)
(* callbacks of the handles they belong to, and finishes handles that are  *)
(* closing.                                                                *)
(***************************************************************************)
EXTENDS Integers, Sequences

CONSTANTS
  Producers,   \* threads that call PushEvent
  Closers,     \* threads that call Close, the owner not among them
  Users,       \* handles of clients and servers attached to the loop
  Owner, Loop, Nobody,
  MaxEvents,   \* bound: events one source pushes
  PromptInit   \* whether InitLooper's uv_async_init calls are taken to come
               \* before the new thread's first look at the loop

Async == {"close", "event"}     \* _async_looper_close, _async_event_handle
Handles == Async \cup Users
Sources == Producers \cup Users \* who pushes: threads, and callbacks of handles
Events == Sources \X (1 .. MaxEvents)
CloseCallers == Closers \cup {Owner}

ASSUME NamesAssumption ==
  /\ Producers \cap Users = {} /\ Users \cap Async = {}
  /\ Owner \notin Closers
  /\ Loop \notin Producers /\ Nobody \notin Producers /\ Loop # Nobody

ASSUME BoundsAssumption == MaxEvents \in Nat /\ PromptInit \in BOOLEAN

VARIABLES
  owner,        \* where the owner is in InitLooper, attaching and ~CLooper
  loop,         \* where the loop thread is in WorkThread and uv_run
  producer,     \* where each producer is in PushEvent
  closer,       \* where each caller of Close is
  inited,       \* _inited
  is_closed,    \* _is_closed
  mutex,        \* the holder of _event_queue_mutex
  event_queue,  \* _event_queue
  handle,       \* a handle's life: none, open, closing, closed
  async_sent,   \* uv_async_t.async_sent
  io,           \* an attached handle's request: idle, pending, posted
  iocp,         \* completions posted, by handle
  pending,      \* loop->pending_reqs_tail: completions taken from iocp
  endgames,     \* loop->endgame_handles
  count,        \* history: events pushed by each source
  pushed,       \* history: the events in the order they were queued
  handled,      \* history: the events in the order they were handled
  requested,    \* history: somebody's Close got past its check
  mark          \* history: events whose PushEvent had returned when Close first
                \* woke the loop

threads == <<owner, loop, producer, closer>>
flagVars == <<inited, is_closed>>
queueVars == <<mutex, event_queue>>
loopVars == <<handle, async_sent, io, iocp, pending, endgames>>
histories == <<count, pushed, handled, requested, mark>>
vars == <<threads, flagVars, queueVars, loopVars, histories>>

NoMark == -1

(***************************************************************************)
(* libuv.                                                                  *)
(***************************************************************************)
\* uv_async_send: the flag decides whether a completion is posted.
SendAsync(a) ==
  /\ async_sent' = [async_sent EXCEPT ![a] = TRUE]
  /\ iocp' = IF async_sent[a] THEN iocp ELSE Append(iocp, a)

\* Mutant: a handle that is closing does not keep the loop alive.
AliveWithoutClosing ==
  \/ \E a \in Async : handle[a] = "open"
  \/ endgames # {}

\* uv__loop_alive: an async handle is active from its initialisation, every
\* handle while it is closing, an attached handle while a request is pending.
Alive ==
  \/ \E a \in Async : handle[a] = "open"
  \/ \E h \in Handles : handle[h] = "closing"
  \/ \E u \in Users : handle[u] = "open" /\ io[u] # "idle"
  \/ endgames # {}

(***************************************************************************)
(* The owner: InitLooper, AttachLooper of its handles, ~CLooper.           *)
(***************************************************************************)
StartThread ==
  /\ owner = "new"
  /\ owner' = "initClose"
  /\ loop' = "started"
  /\ inited' = FALSE
  /\ UNCHANGED <<producer, closer, is_closed, queueVars, loopVars, histories>>

\* uv_loop_init or uv_thread_create failed: InitLooper returns false.
StartFails ==
  /\ owner = "new"
  /\ owner' = "failed"
  /\ inited' = FALSE
  /\ UNCHANGED <<loop, producer, closer, is_closed, queueVars, loopVars,
                 histories>>

InitAsync(a, before, after) ==
  /\ owner = before
  /\ owner' = after
  /\ handle' = [handle EXCEPT ![a] = "open"]
  /\ async_sent' = [async_sent EXCEPT ![a] = FALSE]
  /\ UNCHANGED <<loop, producer, closer, flagVars, queueVars, io, iocp, pending,
                 endgames, histories>>

InitCloseAsync == InitAsync("close", "initClose", "initEvent")
InitEventAsync == InitAsync("event", "initEvent", "wait")

\* do { if(_inited) break; Sleep(10); } while (true)
WaitInited ==
  /\ owner = "wait" /\ inited
  /\ owner' = "attach"
  /\ UNCHANGED <<loop, producer, closer, flagVars, queueVars, loopVars,
                 histories>>

\* uv_tcp_init by an AttachLooper; a server's handle has a request at once.
Attach(u) ==
  /\ owner = "attach"
  /\ handle[u] = "none"
  /\ handle' = [handle EXCEPT ![u] = "open"]
  /\ \E r \in {"idle", "pending"} : io' = [io EXCEPT ![u] = r]
  /\ UNCHANGED <<threads, flagVars, queueVars, async_sent, iocp, pending,
                 endgames, histories>>

Ready ==
  /\ owner = "attach"
  /\ \A u \in Users : handle[u] # "none"
  /\ owner' = "ready"
  /\ UNCHANGED <<loop, producer, closer, flagVars, queueVars, loopVars,
                 histories>>

\* delete of the looper: nobody else may be inside it any more.
Destroy ==
  /\ owner = "ready"
  /\ \A p \in Producers : producer[p] = "idle"
  /\ \A c \in Closers : closer[c] = "idle"
  /\ owner' = "closing"
  /\ UNCHANGED <<loop, producer, closer, flagVars, queueVars, loopVars,
                 histories>>

\* uv_thread_join, then uv_loop_close.
Join ==
  /\ owner = "join" /\ loop = "done"
  /\ owner' = "destroyed"
  /\ UNCHANGED <<loop, producer, closer, flagVars, queueVars, loopVars,
                 histories>>

(***************************************************************************)
(* Close, by any thread: test, set, send.                                  *)
(***************************************************************************)
CloseCheck(c) ==
  /\ closer[c] = "idle"
  /\ owner = IF c = Owner THEN "closing" ELSE "ready"
  /\ ~is_closed
  /\ closer' = [closer EXCEPT ![c] = "set"]
  /\ UNCHANGED <<owner, loop, producer, flagVars, queueVars, loopVars,
                 histories>>

CloseSet(c) ==
  /\ closer[c] = "set"
  /\ is_closed' = TRUE
  /\ requested' = TRUE
  /\ closer' = [closer EXCEPT ![c] = "send"]
  /\ UNCHANGED <<owner, loop, producer, inited, queueVars, loopVars, count,
                 pushed, handled, mark>>

CloseSend(c) ==
  /\ closer[c] = "send"
  /\ SendAsync("close")
  /\ mark' = IF mark = NoMark
             THEN Len(pushed) - (IF mutex \in Producers THEN 1 ELSE 0)
             ELSE mark
  /\ closer' = [closer EXCEPT ![c] = "idle"]
  /\ owner' = IF c = Owner THEN "join" ELSE owner
  /\ UNCHANGED <<loop, producer, flagVars, queueVars, handle, io, pending,
                 endgames, count, pushed, handled, requested>>

\* The destructor's Close returns at once: the looper is closed already.
OwnerNeedNotClose ==
  /\ owner = "closing" /\ closer[Owner] = "idle" /\ is_closed
  /\ owner' = "join"
  /\ UNCHANGED <<loop, producer, closer, flagVars, queueVars, loopVars,
                 histories>>

(***************************************************************************)
(* PushEvent, by a producer.                                               *)
(***************************************************************************)
NewEvent(s) == <<s, count[s] + 1>>

Enqueue(s) ==
  /\ count[s] < MaxEvents
  /\ count' = [count EXCEPT ![s] = @ + 1]
  /\ event_queue' = Append(event_queue, NewEvent(s))
  /\ pushed' = Append(pushed, NewEvent(s))

\* Mutant: the queue is used without its mutex.
PushUnlocked(p) ==
  /\ producer[p] = "idle" /\ owner = "ready"
  /\ Enqueue(p)
  /\ producer' = [producer EXCEPT ![p] = "send"]
  /\ UNCHANGED <<owner, loop, closer, flagVars, mutex, loopVars, handled,
                 requested, mark>>

\* CAutoLock, _event_queue.push
PushLocked(p) ==
  /\ producer[p] = "idle" /\ owner = "ready"
  /\ mutex = Nobody
  /\ Enqueue(p)
  /\ mutex' = p
  /\ producer' = [producer EXCEPT ![p] = "send"]
  /\ UNCHANGED <<owner, loop, closer, flagVars, loopVars, handled, requested,
                 mark>>

\* uv_async_send(&_async_event_handle), ~CAutoLock
SendAndUnlock(p) ==
  /\ producer[p] = "send"
  /\ SendAsync("event")
  /\ mutex' = Nobody
  /\ producer' = [producer EXCEPT ![p] = "idle"]
  /\ UNCHANGED <<owner, loop, closer, flagVars, event_queue, handle, io, pending,
                 endgames, histories>>

(***************************************************************************)
(* The loop thread: WorkThread, run and uv_run.                            *)
(***************************************************************************)
WorkThread ==
  /\ loop = "started"
  /\ inited' = TRUE
  /\ loop' = "test"
  /\ UNCHANGED <<owner, producer, closer, is_closed, queueVars, loopVars,
                 histories>>

\* while (r != 0 ...)
TestAlive ==
  /\ loop = "test"
  /\ PromptInit => owner \notin {"initClose", "initEvent"}
  /\ loop' = IF Alive THEN "reqs" ELSE "returned"
  /\ UNCHANGED <<owner, producer, closer, flagVars, queueVars, loopVars,
                 histories>>

\* A wakeup of a closing async handle only leads on to its end.
WakeupOfClosing(a) ==
  /\ handle[a] # "open"
  /\ endgames' = endgames \cup {a}
  /\ loop' = loop

\* async_cb: AsyncEvent goes for the queue, AsyncCB for the handles.
WakeupOfOpen(a) ==
  /\ handle[a] = "open"
  /\ loop' = IF a = "event" THEN "lock" ELSE "walk"
  /\ UNCHANGED endgames

\* uv_process_async_wakeup_req
ProcessWakeup ==
  /\ loop = "reqs" /\ pending # <<>>
  /\ LET a == Head(pending)
     IN /\ a \in Async
        /\ async_sent' = [async_sent EXCEPT ![a] = FALSE]
        /\ WakeupOfClosing(a) \/ WakeupOfOpen(a)
  /\ pending' = Tail(pending)
  /\ UNCHANGED <<owner, producer, closer, flagVars, queueVars, handle, io, iocp,
                 histories>>

\* The request of an attached handle completed: its callback runs and the next
\* request is started.
CallbackReturns(u) ==
  /\ handle[u] = "open"
  /\ io' = [io EXCEPT ![u] = "pending"]
  /\ UNCHANGED <<queueVars, async_sent, iocp, endgames, histories>>

\* The callback calls PushEvent: a receive callback that sends, a session that
\* closes itself.
CallbackPushes(u) ==
  /\ handle[u] = "open"
  /\ io' = [io EXCEPT ![u] = "pending"]
  /\ mutex = Nobody
  /\ Enqueue(u)
  /\ SendAsync("event")
  /\ UNCHANGED <<mutex, endgames, handled, requested, mark>>

\* The last request of a closing handle.
CompletionOfClosing(u) ==
  /\ handle[u] = "closing"
  /\ io' = [io EXCEPT ![u] = "idle"]
  /\ endgames' = endgames \cup {u}
  /\ UNCHANGED <<queueVars, async_sent, iocp, histories>>

ProcessCompletion ==
  /\ loop = "reqs" /\ pending # <<>>
  /\ LET u == Head(pending)
     IN /\ u \in Users
        /\ \/ CallbackReturns(u)
           \/ CallbackPushes(u)
           \/ CompletionOfClosing(u)
  /\ pending' = Tail(pending)
  /\ UNCHANGED <<threads, flagVars, handle>>

ReqsDone ==
  /\ loop = "reqs" /\ pending = <<>>
  /\ loop' = "poll"
  /\ UNCHANGED <<owner, producer, closer, flagVars, queueVars, loopVars,
                 histories>>

\* DoEvent: the mutex is held until the queue is empty.
LockQueue ==
  /\ loop = "lock" /\ mutex = Nobody
  /\ mutex' = Loop
  /\ loop' = "drain"
  /\ UNCHANGED <<owner, producer, closer, flagVars, event_queue, loopVars,
                 histories>>

\* Mutant: one event is handled for each wakeup.
HandleOne ==
  /\ loop = "drain" /\ event_queue # <<>>
  /\ handled' = Append(handled, Head(event_queue))
  /\ event_queue' = Tail(event_queue)
  /\ mutex' = Nobody
  /\ loop' = "reqs"
  /\ UNCHANGED <<owner, producer, closer, flagVars, loopVars, count, pushed,
                 requested, mark>>

\* Mutant: front() is handled and the other end is popped.
HandleFrontPopBack ==
  /\ loop = "drain" /\ event_queue # <<>>
  /\ handled' = Append(handled, Head(event_queue))
  /\ event_queue' = SubSeq(event_queue, 1, Len(event_queue) - 1)
  /\ UNCHANGED <<threads, flagVars, mutex, loopVars, count, pushed, requested,
                 mark>>

\* front(), ILooperEvent::DoEvent, pop()
HandleEvent ==
  /\ loop = "drain" /\ event_queue # <<>>
  /\ handled' = Append(handled, Head(event_queue))
  /\ event_queue' = Tail(event_queue)
  /\ UNCHANGED <<threads, flagVars, mutex, loopVars, count, pushed, requested,
                 mark>>

QueueEmpty ==
  /\ loop = "drain" /\ event_queue = <<>>
  /\ mutex' = Nobody
  /\ loop' = "reqs"
  /\ UNCHANGED <<owner, producer, closer, flagVars, event_queue, loopVars,
                 histories>>

\* uv_close: a handle with nothing outstanding goes to its end at once.
Quiet(h) == IF h \in Async THEN ~async_sent[h] ELSE io[h] = "idle"

\* Mutant: the walk passes over the handle of the event queue.
ToCloseNotEvent(h) == handle[h] = "open" /\ h # "event"

\* !uv_is_closing(handle)
ToClose(h) == handle[h] = "open"

\* CloseWalkCB of one handle, and the OnHandleClose it leads to.
WalkCloses(h) ==
  /\ loop = "walk" /\ ToClose(h)
  /\ handle' = [handle EXCEPT ![h] = "closing"]
  /\ endgames' = IF Quiet(h) THEN endgames \cup {h} ELSE endgames
  /\ UNCHANGED <<threads, flagVars, queueVars, async_sent, io, iocp, pending,
                 histories>>

WalkEnds ==
  /\ loop = "walk"
  /\ \A h \in Handles : ~ToClose(h)
  /\ loop' = "reqs"
  /\ UNCHANGED <<owner, producer, closer, flagVars, queueVars, loopVars,
                 histories>>

\* Mutant: each completion goes to the head of the pending requests.
PollReversed ==
  /\ loop = "poll"
  /\ iocp # <<>> \/ endgames # {} \/ ~Alive
  /\ pending' = [i \in 1 .. Len(iocp) |-> iocp[Len(iocp) + 1 - i]]
  /\ iocp' = <<>>
  /\ loop' = "endgames"
  /\ UNCHANGED <<owner, producer, closer, flagVars, queueVars, handle,
                 async_sent, io, endgames, histories>>

\* uv__poll: waits for a completion unless uv_backend_timeout says 0.
Poll ==
  /\ loop = "poll"
  /\ iocp # <<>> \/ endgames # {} \/ ~Alive
  /\ pending' = iocp
  /\ iocp' = <<>>
  /\ loop' = "endgames"
  /\ UNCHANGED <<owner, producer, closer, flagVars, queueVars, handle,
                 async_sent, io, endgames, histories>>

\* Mutant: uv_async_endgame does not look at async_sent.
EndgameClosesAlways(h) ==
  /\ loop = "endgames" /\ h \in endgames
  /\ endgames' = endgames \ {h}
  /\ handle' = [handle EXCEPT ![h] = "closed"]
  /\ UNCHANGED <<threads, flagVars, queueVars, async_sent, io, iocp, pending,
                 histories>>

\* uv_process_endgames, one handle: uv_async_endgame leaves a handle whose
\* wakeup is still under way.
Endgame(h) ==
  /\ loop = "endgames" /\ h \in endgames
  /\ endgames' = endgames \ {h}
  /\ handle' = IF Quiet(h) THEN [handle EXCEPT ![h] = "closed"] ELSE handle
  /\ UNCHANGED <<threads, flagVars, queueVars, async_sent, io, iocp, pending,
                 histories>>

EndgamesDone ==
  /\ loop = "endgames" /\ endgames = {}
  /\ loop' = "test"
  /\ UNCHANGED <<owner, producer, closer, flagVars, queueVars, loopVars,
                 histories>>

\* uv_run has returned: run sets _is_closed and the thread ends.
RunReturns ==
  /\ loop = "returned"
  /\ is_closed' = TRUE
  /\ loop' = "done"
  /\ UNCHANGED <<owner, producer, closer, inited, queueVars, loopVars, histories>>

\* The operating system completes the request of an attached handle; closing
\* the handle cancels it, and that too completes it.
Complete(u) ==
  /\ io[u] = "pending"
  /\ io' = [io EXCEPT ![u] = "posted"]
  /\ iocp' = Append(iocp, u)
  /\ UNCHANGED <<threads, flagVars, queueVars, handle, async_sent, pending,
                 endgames, histories>>

-----------------------------------------------------------------------------
Init ==
  /\ owner = "new" /\ loop = "none"
  /\ producer = [p \in Producers |-> "idle"]
  /\ closer = [c \in CloseCallers |-> "idle"]
  /\ inited = FALSE /\ is_closed = FALSE
  /\ mutex = Nobody /\ event_queue = <<>>
  /\ handle = [h \in Handles |-> "none"]
  /\ async_sent = [a \in Async |-> FALSE]
  /\ io = [u \in Users |-> "idle"]
  /\ iocp = <<>> /\ pending = <<>> /\ endgames = {}
  /\ count = [s \in Sources |-> 0]
  /\ pushed = <<>> /\ handled = <<>>
  /\ requested = FALSE /\ mark = NoMark

OwnerStep ==
  \/ StartThread \/ StartFails \/ InitCloseAsync \/ InitEventAsync
  \/ WaitInited \/ (\E u \in Users : Attach(u)) \/ Ready \/ OwnerNeedNotClose
  \/ Join

CloseStep(c) == CloseCheck(c) \/ CloseSet(c) \/ CloseSend(c)

LoopStep ==
  \/ WorkThread \/ TestAlive \/ ProcessWakeup \/ ProcessCompletion \/ ReqsDone
  \/ LockQueue \/ HandleEvent \/ QueueEmpty
  \/ (\E h \in Handles : WalkCloses(h)) \/ WalkEnds
  \/ Poll \/ (\E h \in Handles : Endgame(h)) \/ EndgamesDone \/ RunReturns

Next ==
  \/ OwnerStep \/ Destroy \/ LoopStep
  \/ \E c \in CloseCallers : CloseStep(c)
  \/ \E p \in Producers : PushLocked(p) \/ SendAndUnlock(p)
  \/ \E u \in Users : Complete(u)

\* Every thread that has begun an operation gets to run, and the operating
\* system completes what uv_close cancels.  Nobody has to push, to close or to
\* destroy.
Fairness ==
  /\ WF_vars(OwnerStep) /\ WF_vars(LoopStep)
  /\ \A c \in CloseCallers : WF_vars(CloseSet(c) \/ CloseSend(c))
  /\ WF_vars(CloseCheck(Owner))
  /\ \A p \in Producers : WF_vars(SendAndUnlock(p))
  /\ \A u \in Users : WF_vars(handle[u] = "closing" /\ Complete(u))

Spec == Init /\ [][Next]_vars
FairSpec == Spec /\ Fairness

-----------------------------------------------------------------------------
(***************************************************************************)
(* Properties.                                                             *)
(***************************************************************************)
SetOf(s) == {s[i] : i \in 1 .. Len(s)}

\* Every variable keeps its type.
TypeOK ==
  /\ owner \in {"new", "failed", "initClose", "initEvent", "wait", "attach",
                "ready", "closing", "join", "destroyed"}
  /\ loop \in {"none", "started", "test", "reqs", "lock", "drain", "walk", "poll",
               "endgames", "returned", "done"}
  /\ producer \in [Producers -> {"idle", "send"}]
  /\ closer \in [CloseCallers -> {"idle", "set", "send"}]
  /\ inited \in BOOLEAN /\ is_closed \in BOOLEAN /\ requested \in BOOLEAN
  /\ mutex \in Producers \cup {Loop, Nobody}
  /\ event_queue \in Seq(Events) /\ pushed \in Seq(Events)
  /\ handled \in Seq(Events)
  /\ handle \in [Handles -> {"none", "open", "closing", "closed"}]
  /\ async_sent \in [Async -> BOOLEAN]
  /\ io \in [Users -> {"idle", "pending", "posted"}]
  /\ iocp \in Seq(Handles) /\ pending \in Seq(Handles)
  /\ endgames \subseteq Handles
  /\ count \in [Sources -> 0 .. MaxEvents]
  /\ mark \in Nat \cup {NoMark}

\* A wakeup of the event handle is on its way to the loop thread.
WakeupUnderWay(a) == a \in SetOf(iocp) \cup SetOf(pending)

\* No wakeup is lost: whenever events are queued, somebody will look at them.
\* A producer is about to send, the wakeup it sent is under way, or the loop
\* thread is on its way to the queue; only closing the handle ends this
\* (PushEvent, DoEvent and async_sent of uv_async_send together).
NoLostWakeup ==
  event_queue # <<>> =>
    \/ \E p \in Producers : producer[p] = "send"
    \/ WakeupUnderWay("event")
    \/ loop \in {"lock", "drain"}
    \/ handle["event"] # "open"

(* The inductive invariant of the proofs (LooperProofs). *)

\* The mutex tells who is in its critical section.
MutexInv ==
  /\ \A p \in Producers : (mutex = p) <=> (producer[p] = "send")
  /\ (mutex = Loop) <=> (loop = "drain")

\* async_sent stands for a completion that will be processed.
SentInv == \A a \in Async : async_sent[a] => WakeupUnderWay(a)

\* uv__poll adds to pending requests that were all processed.
PollInv == loop = "poll" => pending = <<>>

\* Nothing is attached or pushed before both async handles are there.
EarlyInv ==
  /\ owner \in {"new", "failed"} => loop = "none"
  /\ owner \in {"new", "initClose", "initEvent"} =>
       /\ event_queue = <<>>
       /\ \A u \in Users : handle[u] = "none" /\ u \notin endgames

QueueInv == handled \o event_queue = pushed

IInv ==
  /\ TypeOK /\ MutexInv /\ SentInv /\ PollInv /\ EarlyInv /\ QueueInv
  /\ NoLostWakeup

\* Every event is handled once, in the order in which the events were pushed.
Queue == INSTANCE FramedChannel WITH
           Packets <- Events, sent <- pushed, got <- handled
ImplementsQueue == Queue!ChannelSpec

\* Close does not overtake events: when the loop starts to close its handles,
\* every event whose PushEvent had returned before Close sent its wakeup has
\* been handled.
CloseComesAfterEvents ==
  handle["close"] \in {"closing", "closed"} =>
    mark # NoMark /\ Len(handled) >= mark

\* When uv_run has returned, every handle is closed, so that uv_loop_close in
\* ~CLooper finds nothing left ("close all handle in loop", Looper.h:30).
ClosedWhenRunReturns ==
  loop \in {"returned", "done"} =>
    \A h \in Handles : handle[h] = "closed"

\* Every event that is pushed is handled, unless somebody closes the looper.
EventsHandled ==
  \A e \in Events :
    (e \in SetOf(pushed)) ~> (e \in SetOf(handled) \/ requested)

\* ~CLooper returns.
DestroyEnds == owner \in {"closing", "join"} ~> owner = "destroyed"

\* The thread runs until the user closes the looper (Looper.h:28).
RunsUntilClosed == loop \in {"returned", "done"} => requested

\* uv_run returns when, and only when, all there was to close is closed.
LoopEndsClosed == RunsUntilClosed /\ ClosedWhenRunReturns

\* A handle ends only when nothing of it is left on its way to the loop thread:
\* whoever frees it in the close callback frees nothing still in use.  A wakeup
\* sent between uv_close and the end of the handle puts the end off.
EndsQuietly ==
  [][\A h \in Handles :
       handle[h] = "closing" /\ handle'[h] = "closed"
         => ~WakeupUnderWay(h) /\ (h \in Users => io[h] = "idle")]_vars
=============================================================================
