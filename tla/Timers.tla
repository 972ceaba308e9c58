------------------------------- MODULE Timers -------------------------------
(***************************************************************************)
(* Timers on a running libuv loop: timer.c, and the rounds of uv_run       *)
(* (win/core.c) as far as time matters to them.                            *)
(*                                                                         *)
(* The loop reads the clock into its time at the top of a round and when   *)
(* the wait for completions ends, and timers count from that time.  It     *)
(* waits at most until the first timer is due.  Requests that other        *)
(* handles have with the kernel are posted at any time; their callbacks,   *)
(* those of timers and those of closed timers call the operations below.   *)
(* TcpClient arms its connect timer and closes it in such callbacks.       *)
(***************************************************************************)
EXTENDS TimerHeap

CONSTANTS
  Timers,
  None,
  Request,    \* the callback of a request, as opposed to a timer's
  Timeouts,   \* the delays uv_timer_start is called with
  Repeats,    \* its repeats, 0 among them
  Top,        \* the greatest uint64_t
  IntMax,     \* the greatest int
  Early,      \* by how much GetQueuedCompletionStatusEx may return early
  MaxTime,    \* bound: the clock stops here
  LastCall,   \* bound: nothing is called after this time
  Horizon,    \* bound: timers due later need not run before the clock stops
  MaxCalls    \* bound: the calls, and the completions

ASSUME TimersAssumption ==
  /\ None \notin Timers /\ Request \notin Timers /\ None # Request
  /\ Timeouts \subseteq 0 .. Top /\ Repeats \subseteq 0 .. Top /\ 0 \in Repeats
  /\ MaxTime \in Nat /\ Top \in Nat /\ MaxTime < Top

VARIABLES
  clock,      \* the milliseconds of the hardware clock (uv__hrtime)
  time,       \* the loop's time
  of,         \* the fields of each timer
  heap,       \* the loop's heap of timers
  counter,    \* loop->timer_counter
  at,         \* where the round is
  running,    \* whose callback runs
  poll,       \* the wait: [since, wait, target, repeat]
  posted,     \* the kernel has a completion for the loop
  pending,    \* a request is in the loop's queue of pending requests
  endgames,   \* the closing timers in the list of endgames
  held,       \* another handle keeps the loop alive
  calls

timers == <<of, heap, counter>>
round == <<time, at, running, poll, pending>>
vars == <<clock, timers, round, posted, endgames, held, calls>>

Forever == -1
NoPoll == [since |-> 0, wait |-> 0, target |-> 0, repeat |-> 0]

-----------------------------------------------------------------------------
(***************************************************************************)
(* timer.c                                                                 *)
(***************************************************************************)
Active == {t \in Timers : of[t].flag = "active"}
Key == [t \in Timers |-> <<of[t].timeout, of[t].start_id>>]

uv_timer_init ==
  [timeout |-> 0, repeat |-> 0, start_id |-> 0, cb |-> FALSE, flag |-> "idle"]

Without(t) == IF t \in Active THEN heap_remove(heap, Key, t) ELSE heap

uv_timer_stop(t) ==
  /\ heap' = Without(t)
  /\ of' = [of EXCEPT ![t].flag = IF @ = "active" THEN "idle" ELSE @]
  /\ UNCHANGED counter

\* Mutant: the sum is taken as it comes out of 64 bits.
WrappedDue(d) == (time + d) % (Top + 1)

\* loop->time + timeout in 64 bits, the last instant if that is too little.
Due(d) == LET sum == (time + d) % (Top + 1) IN IF sum < d THEN Top ELSE sum

uv_timer_start(t, d, r) ==
  /\ of' = [of EXCEPT ![t] = [timeout |-> Due(d), repeat |-> r, cb |-> TRUE,
                              start_id |-> counter, flag |-> "active"]]
  /\ counter' = counter + 1
  /\ heap' = heap_insert(Without(t), Key', t)

uv_timer_again(t) ==
  IF of[t].cb /\ of[t].repeat > 0
  THEN uv_timer_start(t, of[t].repeat, of[t].repeat)
  ELSE UNCHANGED timers

\* How long to wait for the first timer, as an int.
Until(due) == IF due <= time THEN 0 ELSE IF due - time > IntMax THEN IntMax ELSE due - time

\* Mutant: what is too far for an int turns up as a negative.
NextTimeoutCut ==
  IF heap # <<>> /\ of[heap_min(heap)].timeout - time <= IntMax
  THEN Until(of[heap_min(heap)].timeout) ELSE Forever

uv__next_timeout ==
  IF heap = <<>> THEN Forever ELSE Until(of[heap_min(heap)].timeout)

-----------------------------------------------------------------------------
(***************************************************************************)
(* What callbacks do                                                       *)
(***************************************************************************)
\* A bounded number of calls, early enough to see what becomes of them.  That a
\* timer is not used after uv_close is assumed of the caller: timer.c checks only
\* that there is a callback.  TcpClient models the one caller that starts a timer
\* it has closed.
Call(t) ==
  /\ running # None /\ calls < MaxCalls /\ clock <= LastCall
  /\ of[t].flag \in {"idle", "active"}
  /\ calls' = calls + 1
  /\ UNCHANGED <<clock, round, posted, held>>

Start(t) ==
  /\ Call(t)
  /\ \E d \in Timeouts, r \in Repeats : uv_timer_start(t, d, r)
  /\ UNCHANGED endgames

Stop(t) == Call(t) /\ t \in Active /\ uv_timer_stop(t) /\ UNCHANGED endgames

Again(t) == Call(t) /\ uv_timer_again(t) /\ UNCHANGED endgames

SetRepeat(t) ==
  /\ Call(t)
  /\ \E r \in Repeats : of' = [of EXCEPT ![t].repeat = r]
  /\ UNCHANGED <<heap, counter, endgames>>

\* uv_close: uv_timer_stop, then the handle waits for its endgame.
Close(t) ==
  /\ Call(t)
  /\ heap' = Without(t)
  /\ of' = [of EXCEPT ![t].flag = "closing"]
  /\ endgames' = endgames \cup {t}
  /\ UNCHANGED counter

\* The last other handle is closed.
LetGo ==
  /\ running = Request /\ held
  /\ held' = FALSE
  /\ UNCHANGED <<clock, timers, round, posted, endgames, calls>>

-----------------------------------------------------------------------------
(***************************************************************************)
(* A round of uv_run                                                       *)
(***************************************************************************)
Alive == held \/ posted \/ pending \/ Active # {} \/ endgames # {}

env == <<clock, posted, held>>
Goto(here, there) == at = here /\ running = None /\ at' = there

\* uv_update_time at the top of the round; the loop ends when nothing lives.
Begin ==
  /\ \/ Alive /\ Goto("top", "timers") /\ time' = clock
     \/ ~Alive /\ Goto("top", "over") /\ UNCHANGED time
  /\ UNCHANGED <<env, timers, running, poll, pending, endgames, calls>>

IsDue == heap # <<>> /\ of[heap_min(heap)].timeout <= time

\* One turn of uv__run_timers: stopped, started again if it repeats, called.
RunTimer ==
  /\ at = "timers" /\ running = None /\ IsDue
  /\ LET t == heap_min(heap)
     IN /\ running' = t
        /\ IF of[t].repeat > 0 THEN uv_timer_again(t) ELSE uv_timer_stop(t)
  /\ UNCHANGED <<env, time, at, poll, pending, endgames, calls>>

TimersDone ==
  /\ Goto("timers", "reqs") /\ ~IsDue
  /\ UNCHANGED <<env, timers, time, running, poll, pending, endgames, calls>>

\* uv_process_reqs runs what was pending; the callback may leave a request
\* for the next round.
RunRequest ==
  /\ Goto("reqs", "ran") /\ pending
  /\ running' = Request
  /\ \/ calls < MaxCalls /\ pending' = TRUE /\ calls' = calls + 1
     \/ pending' = FALSE /\ calls' = calls
  /\ UNCHANGED <<env, timers, time, poll, endgames>>

Return ==
  /\ running # None
  /\ running' = None
  /\ UNCHANGED <<env, timers, time, at, poll, pending, endgames, calls>>

\* Mutant: pending requests are forgotten.
TimeoutOfTimers ==
  IF endgames # {} \/ ~(held \/ posted \/ Active # {}) THEN 0 ELSE uv__next_timeout

\* Nothing but waiting to do: until the first timer is due.
uv_backend_timeout ==
  IF pending \/ endgames # {} \/ ~(held \/ posted \/ Active # {})
  THEN 0 ELSE uv__next_timeout

Wait ==
  /\ \/ Goto("ran", "poll")
     \/ Goto("reqs", "poll") /\ ~pending
  /\ poll' = [since |-> clock, wait |-> uv_backend_timeout,
              target |-> time + uv_backend_timeout, repeat |-> 0]
  /\ UNCHANGED <<env, timers, time, running, pending, endgames, calls>>

Leave == at' = "endgames" /\ poll' = NoPoll

Dequeue ==
  /\ at = "poll" /\ posted /\ Leave
  /\ posted' = FALSE /\ pending' = TRUE /\ time' = clock
  /\ UNCHANGED <<clock, held, timers, running, endgames, calls>>

\* The kernel's wait ends, perhaps a little early: then the rest of it is
\* waited for, from the third time on with a growing reserve.
TimesOut ==
  /\ at = "poll" /\ ~posted /\ poll.wait # Forever
  /\ clock >= poll.since + poll.wait - (IF poll.wait > 0 THEN Early ELSE 0)
  /\ IF poll.wait = 0 THEN Leave /\ UNCHANGED time
     ELSE /\ time' = clock
          /\ IF poll.target <= clock THEN Leave
             ELSE /\ poll' = [poll EXCEPT
                       !.since = clock, !.repeat = @ + 1,
                       !.wait = poll.target - clock
                         + IF poll.repeat = 0 THEN 0 ELSE 2 ^ (poll.repeat - 1)]
                  /\ UNCHANGED at
  /\ UNCHANGED <<env, timers, running, pending, endgames, calls>>

\* uv__timer_close and uv__handle_close, which calls back.
Endgame(t) ==
  /\ at = "endgames" /\ running = None /\ t \in endgames
  /\ of' = [of EXCEPT ![t].flag = "closed"]
  /\ endgames' = endgames \ {t}
  /\ running' = t
  /\ UNCHANGED <<env, heap, counter, time, at, poll, pending, calls>>

EndgamesDone ==
  /\ Goto("endgames", "top") /\ endgames = {}
  /\ UNCHANGED <<env, timers, time, running, poll, pending, endgames, calls>>

-----------------------------------------------------------------------------
Tick ==
  /\ clock < MaxTime
  /\ clock' = clock + 1
  /\ UNCHANGED <<timers, round, posted, endgames, held, calls>>

Post ==
  /\ held /\ ~posted /\ calls < MaxCalls
  /\ posted' = TRUE /\ calls' = calls + 1
  /\ UNCHANGED <<clock, timers, round, endgames, held>>

Init ==
  /\ clock = 0 /\ time = 0
  /\ of = [t \in Timers |-> uv_timer_init] /\ heap = <<>> /\ counter = 0
  /\ at = "top" /\ running = None /\ poll = NoPoll
  /\ posted = FALSE /\ pending \in BOOLEAN
  /\ endgames = {} /\ held = TRUE /\ calls = 0

Loop ==
  \/ Begin \/ RunTimer \/ TimersDone \/ RunRequest \/ Return
  \/ Wait \/ Dequeue \/ TimesOut \/ EndgamesDone
  \/ \E t \in Timers : Endgame(t)

Calls ==
  \/ LetGo
  \/ \E t \in Timers : Start(t) \/ Stop(t) \/ Again(t) \/ SetRepeat(t) \/ Close(t)

Next == Loop \/ Calls \/ Tick \/ Post

Spec == Init /\ [][Next]_vars

\* The loop's thread goes on, and time passes.
FairSpec == Spec /\ WF_vars(Loop) /\ WF_vars(Tick)

-----------------------------------------------------------------------------
\* Every variable keeps its type, and the loop's time never passes the clock.
TypeOK ==
  /\ clock \in 0 .. MaxTime /\ time \in 0 .. clock
  /\ \A t \in Timers :
       /\ of[t].timeout \in 0 .. Top /\ of[t].repeat \in Repeats
       /\ of[t].start_id \in 0 .. counter
       /\ of[t].flag \in {"idle", "active", "closing", "closed"}
  /\ at \in {"top", "timers", "reqs", "ran", "poll", "endgames", "over"}
  /\ running \in Timers \cup {None, Request}
  /\ endgames \subseteq {t \in Timers : of[t].flag = "closing"}

\* Seven nodes are more than the timers of an instance: only from six on can
\* the last node be less than the parent of the place it fills.
SevenNodesWork == HeapWorks([i \in 1 .. 7 |-> <<i, 0>>])

\* The heap holds the active timers, each once and in order, whatever callbacks
\* start, stop and close meanwhile; and every insertion into and removal from
\* a heap of up to seven nodes leaves one (timer.c:80, heap-inl.h:29-35).
HeapIsRight == IsHeap(heap, Key, Active) /\ SevenNodesWork

\* The timers and their heap are sound in every state.
TimersInv == TypeOK /\ HeapIsRight

\* The abstract timers.
Armed ==
  [t \in Timers |-> IF t \in Active
                    THEN [due |-> of[t].timeout, turn |-> of[t].start_id + 1]
                    ELSE [due |-> 0, turn |-> 0]]
Fired == IF at = "timers" THEN running ELSE None

Contract == INSTANCE TimerContract WITH
  Delays <- Timeouts \cup Repeats, Never <- Top,
  now <- time, armed <- Armed, running <- Fired

\* timer.c keeps what TimerContract promises: a timer runs when it is due, in the
\* order of the due times and, among equals, of the starts; one that was stopped
\* or closed does not run.
ImplementsTimers == Contract!Spec

\* A timer whose instant comes is run, or stopped or put off: the loop wakes
\* up for it, however far it was when the wait began and however often the
\* kernel ends the wait early.
DueRuns ==
  \A t \in Timers :
    LET Comes == t \in Active /\ of[t].timeout <= Horizon
    IN Comes ~> (~Comes \/ running = t)

\* A request that was posted, or left to the next round, gets its callback:
\* neither the wait nor timers that repeat keep it off for ever, whatever
\* finitely many calls of their callbacks start.  (MaxCalls bounds them: a callback
\* that each time starts its timer again with no delay keeps uv__run_timers in
\* its loop, where time does not move on.)
RequestsRun == (posted \/ pending) ~> (running = Request)
=============================================================================
