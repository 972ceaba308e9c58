-------------------------- MODULE LooperCloseProofs --------------------------
(***************************************************************************)
(* Proofs about how a looper closes, for any number of producers, closers  *)
(* and handles: a handle ends only when nothing of it is under way, Close  *)
(* does not overtake events, and the thread ends with every handle closed. *)
(* The last one alone needs PromptInit: run looper_late_init shows a       *)
(* thread that ends at once without it.                                    *)
(***************************************************************************)
EXTENDS LooperProofs

(***************************************************************************)
(* The inductive invariant.                                                *)
(***************************************************************************)
Early == {"new", "failed", "initClose", "initEvent"}
Late == {"ready", "closing", "join", "destroyed"}
Ended(h) == handle[h] \in {"closing", "closed"}

\* What the owner has done and what it still keeps others from doing.
BeginInv ==
  /\ owner \in {"new", "failed"} => \A h \in Handles : handle[h] = "none"
  /\ owner = "initEvent" => handle["close"] # "none"
  /\ owner \in Early =>
       /\ iocp = <<>> /\ pending = <<>>
       /\ \A a \in Async : ~async_sent[a]
       /\ \A u \in Users : handle[u] = "none"
  /\ owner \notin Early => \A a \in Async : handle[a] # "none"
  /\ owner \in Late => \A u \in Users : handle[u] # "none"
  /\ owner \notin Late => ~requested /\ \A p \in Producers : producer[p] = "idle"
  /\ \A u \in Users : handle[u] = "none" => io[u] = "idle"

\* Who is in Close: the destructor's call and the others' exclude each other.
CallersInv ==
  \A c \in CloseCallers : closer[c] # "idle" =>
    owner = IF c = Owner THEN "closing" ELSE "ready"

OnceIn(s) == \A i, j \in 1 .. Len(s) : s[i] = s[j] => i = j

\* A handle is in the port or among the pending requests, once, exactly while
\* its flag or its request says so.
WayOf(port, taken, sent, request) ==
  /\ OnceIn(port) /\ OnceIn(taken)
  /\ SetOf(port) \cap SetOf(taken) = {}
  /\ \A a \in Async : a \in SetOf(port) \cup SetOf(taken) <=> sent[a]
  /\ \A u \in Users : u \in SetOf(port) \cup SetOf(taken) <=> request[u] = "posted"

WayInv == WayOf(iocp, pending, async_sent, io)

\* Close marks the events pushed before it, and only its wakeup leads to a walk.
MarkInv ==
  /\ \A c \in CloseCallers : closer[c] = "send" => requested
  /\ mark # NoMark => requested /\ mark <= Len(pushed)
  /\ mutex \in Producers => event_queue # <<>>

CloseWakeInv == WakeupUnderWay("close") \/ loop = "walk" => mark # NoMark

\* Only a walk leads to the end of handles.
EndedInv ==
  /\ \A h \in Handles : Ended(h) => mark # NoMark
  /\ \A h \in endgames : Ended(h)

\* A walk leaves no handle out.
WalkInv == loop # "walk" => \A h, g \in Handles : Ended(h) => Ended(g)

\* Events whose PushEvent has not returned.
Out == IF mutex \in Producers THEN 1 ELSE 0

\* NoLostWakeup without the producer that is about to send.
WakeInv ==
  Len(event_queue) > Out =>
    \/ WakeupUnderWay("event")
    \/ loop \in {"lock", "drain"}
    \/ handle["event"] # "open"

\* The wakeup of the events comes before any of Close.
EventFirst(s) ==
  \E i \in 1 .. Len(s) : s[i] = "event" /\ \A j \in 1 .. i : s[j] # "close"

\* Events pushed before Close are still to be handled ...
Behind == mark # NoMark /\ Len(handled) < mark

\* ... and then the loop thread is at them, or comes to them before it comes to
\* the wakeup of Close.
EventsNext ==
  \/ loop \in {"lock", "drain"}
  \/ EventFirst(pending)
  \/ "close" \notin SetOf(pending) /\ EventFirst(iocp)

BehindInv ==
  Behind => EventsNext /\ loop # "walk" /\ \A h \in Handles : ~Ended(h)

CloseInv ==
  /\ IInv
  /\ BeginInv /\ CallersInv /\ WayInv /\ MarkInv /\ CloseWakeInv /\ EndedInv
  /\ WalkInv /\ WakeInv /\ BehindInv

(***************************************************************************)
(* Sequences without repetition.                                           *)
(***************************************************************************)
\* Appending something new keeps a sequence free of repetition.
LEMMA OnceAppend ==
  ASSUME NEW S, NEW s \in Seq(S), NEW x \in S, OnceIn(s), x \notin SetOf(s)
  PROVE  OnceIn(Append(s, x))
<1>1. Len(s) \in Nat /\ Len(Append(s, x)) = Len(s) + 1
      /\ Append(s, x)[Len(s) + 1] = x
  OBVIOUS
<1>2. \A i \in 1 .. Len(s) : Append(s, x)[i] = s[i] /\ s[i] # x
  BY DEF SetOf
<1>3. ASSUME NEW i \in 1 .. Len(s) + 1, NEW j \in 1 .. Len(s) + 1,
             Append(s, x)[i] = Append(s, x)[j]
      PROVE  i = j
  <2>1. CASE i \in 1 .. Len(s) /\ j \in 1 .. Len(s)
    BY <1>2, <1>3, <2>1 DEF OnceIn
  <2>2. CASE i \in 1 .. Len(s) /\ j \notin 1 .. Len(s)
    <3>1. j = Len(s) + 1
      BY <1>1, <2>2
    <3> QED
      BY <1>1, <1>2, <1>3, <2>2, <3>1
  <2>3. CASE i \notin 1 .. Len(s) /\ j \in 1 .. Len(s)
    <3>1. i = Len(s) + 1
      BY <1>1, <2>3
    <3> QED
      BY <1>1, <1>2, <1>3, <2>3, <3>1
  <2>4. CASE i \notin 1 .. Len(s) /\ j \notin 1 .. Len(s)
    BY <1>1, <2>4
  <2> QED
    BY <2>1, <2>2, <2>3, <2>4
<1> QED
  BY <1>1, <1>3 DEF OnceIn

\* Taking the head off such a sequence takes it out of it.
LEMMA OnceTail ==
  ASSUME NEW S, NEW s \in Seq(S), s # <<>>, OnceIn(s)
  PROVE  OnceIn(Tail(s)) /\ Head(s) \in SetOf(s) /\ Head(s) \notin SetOf(Tail(s))
<1>1. Len(s) \in Nat \ {0} /\ Head(s) = s[1] /\ Len(Tail(s)) = Len(s) - 1
  OBVIOUS
<1>2. \A i \in 1 .. Len(s) - 1 : Tail(s)[i] = s[i + 1]
  OBVIOUS
<1>3. \A i \in 1 .. Len(s) - 1 : i + 1 \in 1 .. Len(s) /\ i + 1 # 1
  BY <1>1
<1>4. OnceIn(Tail(s))
  <2>1. ASSUME NEW i \in 1 .. Len(s) - 1, NEW j \in 1 .. Len(s) - 1,
               Tail(s)[i] = Tail(s)[j]
        PROVE  i = j
    <3>1. s[i + 1] = s[j + 1]
      BY <1>2, <2>1
    <3>2. i + 1 = j + 1
      BY <1>3, <3>1 DEF OnceIn
    <3> QED
      BY <1>1, <3>2
  <2> QED
    BY <1>1, <2>1 DEF OnceIn
<1>5. ASSUME NEW i \in 1 .. Len(s) - 1 PROVE Tail(s)[i] # s[1]
  BY <1>1, <1>2, <1>3 DEF OnceIn
<1> QED
  BY <1>1, <1>4, <1>5 DEF SetOf

(***************************************************************************)
(* What is under way.                                                      *)
(***************************************************************************)
\* uv_async_send keeps the account.
LEMMA SendWay ==
  ASSUME NEW q \in Seq(Handles), NEW r \in Seq(Handles),
         NEW sent \in [Async -> BOOLEAN], NEW request, WayOf(q, r, sent, request),
         NEW a \in Async
  PROVE  WayOf(IF sent[a] THEN q ELSE Append(q, a), r, [sent EXCEPT ![a] = TRUE],
               request)
<1>1. CASE sent[a]
  BY <1>1 DEF WayOf
<1>2. CASE ~sent[a]
  <2>1. a \in Handles /\ a \notin SetOf(q) /\ a \notin SetOf(r)
    BY <1>2 DEF WayOf, Handles
  <2>2. SetOf(Append(q, a)) = SetOf(q) \cup {a}
    BY <2>1, SetOfAppend
  <2>3. OnceIn(Append(q, a))
    BY <2>1, OnceAppend DEF WayOf
  <2> QED
    BY <1>2, <2>1, <2>2, <2>3, NamesAssumption DEF WayOf
<1> QED
  BY <1>1, <1>2

\* A completion of an attached handle's request keeps it.
LEMMA PostWay ==
  ASSUME NEW q \in Seq(Handles), NEW r \in Seq(Handles), NEW sent,
         NEW request \in [Users -> {"idle", "pending", "posted"}],
         WayOf(q, r, sent, request), NEW u \in Users, request[u] # "posted"
  PROVE  WayOf(Append(q, u), r, sent, [request EXCEPT ![u] = "posted"])
<1>1. u \in Handles /\ u \notin SetOf(q) /\ u \notin SetOf(r)
  BY DEF WayOf, Handles
<1>2. SetOf(Append(q, u)) = SetOf(q) \cup {u}
  BY <1>1, SetOfAppend
<1>3. OnceIn(Append(q, u))
  BY <1>1, OnceAppend DEF WayOf
<1> QED
  BY <1>1, <1>2, <1>3, NamesAssumption DEF WayOf

\* Processing a wakeup keeps it.
LEMMA WokenWay ==
  ASSUME NEW q \in Seq(Handles), NEW r \in Seq(Handles), r # <<>>,
         NEW sent \in [Async -> BOOLEAN], NEW request, WayOf(q, r, sent, request),
         Head(r) \in Async
  PROVE  WayOf(q, Tail(r), [sent EXCEPT ![Head(r)] = FALSE], request)
<1>1. OnceIn(Tail(r)) /\ Head(r) \in SetOf(r) /\ Head(r) \notin SetOf(Tail(r))
  BY OnceTail DEF WayOf
<1>2. SetOf(r) = {Head(r)} \cup SetOf(Tail(r))
  BY SetOfHead
<1> QED
  BY <1>1, <1>2, NamesAssumption DEF WayOf

\* Processing the completion of a request keeps it.
LEMMA CompletedWay ==
  ASSUME NEW q \in Seq(Handles), NEW r \in Seq(Handles), r # <<>>, NEW sent,
         NEW request \in [Users -> {"idle", "pending", "posted"}],
         WayOf(q, r, sent, request), Head(r) \in Users,
         NEW v \in {"idle", "pending"}
  PROVE  WayOf(q, Tail(r), sent, [request EXCEPT ![Head(r)] = v])
<1>1. OnceIn(Tail(r)) /\ Head(r) \in SetOf(r) /\ Head(r) \notin SetOf(Tail(r))
  BY OnceTail DEF WayOf
<1>2. SetOf(r) = {Head(r)} \cup SetOf(Tail(r))
  BY SetOfHead
<1> QED
  BY <1>1, <1>2, NamesAssumption DEF WayOf

(***************************************************************************)
(* The owner and the callers of Close.                                     *)
(***************************************************************************)
\* Nothing is under way, and no handle is gone, before the owner got so far.
LEMMA BeginStep ==
  ASSUME TypeOK, EarlyInv, BeginInv, CallersInv, WayInv, [Next]_vars
  PROVE  BeginInv'
<1> USE DEF vars, threads, flagVars, queueVars, loopVars, histories
<1>1. CASE StartThread \/ StartFails
  BY <1>1 DEF StartThread, StartFails, BeginInv, Early, Late, TypeOK
<1>2. CASE InitCloseAsync
  BY <1>2, NamesAssumption
  DEF InitCloseAsync, InitAsync, BeginInv, Early, Late, TypeOK, Handles, Async
<1>3. CASE InitEventAsync
  BY <1>3 DEF InitEventAsync, InitAsync, BeginInv, Early, Late, TypeOK, Handles, Async
<1>4. CASE WaitInited
  BY <1>4 DEF WaitInited, BeginInv, Early, Late
<1>5. ASSUME NEW u \in Users, Attach(u) PROVE BeginInv'
  <2>1. owner = "attach" /\ owner' = owner /\ handle[u] = "none"
        /\ handle' = [handle EXCEPT ![u] = "open"]
        /\ requested' = requested /\ producer' = producer
        /\ \A v \in Users : v # u => io'[v] = io[v]
    BY <1>5 DEF Attach, TypeOK
  <2>2. \A h \in Handles : handle'[h] = IF h = u THEN "open" ELSE handle[h]
    BY <2>1 DEF TypeOK, Handles
  <2>3. \A a \in Async : handle'[a] # "none"
    BY <2>1, <2>2 DEF BeginInv, Early, Handles
  <2>4. \A v \in Users : handle'[v] = "none" => io'[v] = "idle"
    BY <2>1, <2>2 DEF BeginInv, Handles
  <2>5. ~requested' /\ \A p \in Producers : producer'[p] = "idle"
    <3>1. ~requested /\ \A p \in Producers : producer[p] = "idle"
      BY <2>1 DEF BeginInv, Late
    <3>2. ~requested'
      BY <2>1, <3>1
    <3>3. \A p \in Producers : producer'[p] = "idle"
      BY <2>1, <3>1
    <3> QED
      BY <3>2, <3>3
  <2> QED
    BY <2>1, <2>3, <2>4, <2>5 DEF BeginInv, Early, Late
<1>6. CASE Ready
  BY <1>6 DEF Ready, BeginInv, Early, Late
<1>7. CASE OwnerNeedNotClose \/ Join \/ Destroy
  BY <1>7 DEF OwnerNeedNotClose, Join, Destroy, BeginInv, Early, Late
<1>8. ASSUME NEW c \in CloseCallers, CloseSet(c) PROVE BeginInv'
  <2>1. owner \in Late
    BY <1>8 DEF CloseSet, CallersInv, Late
  <2> QED
    BY <1>8, <2>1 DEF CloseSet, BeginInv, Early, Late
<1>9. ASSUME NEW c \in CloseCallers, CloseSend(c) PROVE BeginInv'
  <2>1. owner \in Late /\ owner' \in Late
    BY <1>9 DEF CloseSend, CallersInv, Late
  <2> QED
    BY <1>9, <2>1 DEF CloseSend, BeginInv, Early, Late
<1>10. ASSUME NEW p \in Producers, PushLocked(p) \/ SendAndUnlock(p)
       PROVE  BeginInv'
  <2>1. owner \in Late /\ owner' = owner /\ handle' = handle /\ io' = io
    BY <1>10 DEF PushLocked, SendAndUnlock, BeginInv, Late
  <2> QED
    BY <2>1 DEF BeginInv, Early, Late
<1>11. CASE ProcessWakeup
  <2>1. pending # <<>> /\ owner' = owner /\ handle' = handle /\ io' = io
        /\ requested' = requested /\ producer' = producer
    BY <1>11 DEF ProcessWakeup
  <2> QED
    BY <2>1 DEF BeginInv
<1>12. CASE ProcessCompletion
  <2> PICK u \in Users : u = Head(pending)
    BY <1>12 DEF ProcessCompletion
  <2>1. pending # <<>> /\ owner' = owner /\ handle' = handle
        /\ producer' = producer
    BY <1>12 DEF ProcessCompletion
  <2>2. requested' = requested /\ handle[u] # "none"
        /\ \A v \in Users : v # u => io'[v] = io[v]
    BY <1>12 DEF ProcessCompletion, CallbackReturns, CallbackPushes,
       CompletionOfClosing, TypeOK
  <2> QED
    BY <2>1, <2>2 DEF BeginInv
<1>13. ASSUME NEW h \in Handles, WalkCloses(h) \/ Endgame(h) PROVE BeginInv'
  <2>1. owner' = owner /\ io' = io /\ requested' = requested /\ producer' = producer
        /\ iocp' = iocp /\ pending' = pending /\ async_sent' = async_sent
    BY <1>13 DEF WalkCloses, Endgame
  <2>2. \A g \in Handles : handle[g] # "none" => handle'[g] # "none"
    BY <1>13 DEF WalkCloses, Endgame, TypeOK
  <2>3. \A g \in Handles : g # h => handle'[g] = handle[g]
    BY <1>13 DEF WalkCloses, Endgame, TypeOK
  <2>4. CASE owner \in Early
    <3>1. owner \notin {"new", "failed"}
      BY <1>13 DEF WalkCloses, Endgame, EarlyInv
    <3>2. h \notin Users
      BY <1>13, <2>4, <3>1
      DEF WalkCloses, Endgame, ToClose, EarlyInv, BeginInv, Early
    <3>3. \A u \in Users : handle'[u] = handle[u]
      BY <2>3, <3>2 DEF Handles
    <3> QED
      BY <2>1, <2>2, <2>4, <3>1, <3>3 DEF BeginInv, Early, Late, Handles, Async
  <2>5. CASE owner \notin Early
    <3>1. \A u \in Users : handle'[u] = "none" => handle[u] = "none"
      BY <2>2 DEF Handles
    <3>2. \A a \in Async : handle'[a] # "none"
      BY <2>2, <2>5 DEF BeginInv, Handles
    <3>3. owner \in Late => \A u \in Users : handle'[u] # "none"
      BY <2>2 DEF BeginInv, Handles
    <3> QED
      BY <2>1, <2>5, <3>1, <3>2, <3>3 DEF BeginInv, Early, Late
  <2> QED
    BY <2>4, <2>5
<1>14. CASE Poll
  BY <1>14 DEF Poll, BeginInv
<1>15. ASSUME NEW u \in Users, Complete(u) PROVE BeginInv'
  <2>1. handle[u] # "none" /\ owner' = owner /\ handle' = handle
        /\ requested' = requested /\ producer' = producer
        /\ \A v \in Users : v # u => io'[v] = io[v]
    BY <1>15 DEF Complete, BeginInv, TypeOK
  <2> QED
    BY <2>1 DEF BeginInv, Handles
<1>16. CASE \/ WorkThread \/ TestAlive \/ ReqsDone \/ LockQueue \/ HandleEvent
            \/ QueueEmpty \/ WalkEnds \/ EndgamesDone \/ RunReturns
            \/ \E c \in CloseCallers : CloseCheck(c)
            \/ UNCHANGED vars
  BY <1>16 DEF WorkThread, TestAlive, ReqsDone, LockQueue, HandleEvent, QueueEmpty,
     WalkEnds, EndgamesDone, RunReturns, CloseCheck, BeginInv
<1> QED
  BY <1>1, <1>2, <1>3, <1>4, <1>5, <1>6, <1>7, <1>8, <1>9, <1>10, <1>11, <1>12,
     <1>13, <1>14, <1>15, <1>16 DEF Next, OwnerStep, CloseStep, LoopStep

\* The destructor's Close and the others' exclude each other.
LEMMA CallersStep ==
  ASSUME TypeOK, CallersInv, [Next]_vars
  PROVE  CallersInv'
<1> USE DEF vars, threads
<1>0. Owner \in CloseCallers
  BY DEF CloseCallers
<1>1. CASE StartThread \/ StartFails \/ WaitInited \/ Ready \/ Join
  BY <1>1 DEF StartThread, StartFails, WaitInited, Ready, Join, CallersInv
<1>2. CASE InitCloseAsync \/ InitEventAsync
  BY <1>2 DEF InitCloseAsync, InitEventAsync, InitAsync, CallersInv
<1>3. CASE OwnerNeedNotClose
  <2>1. \A c \in CloseCallers : closer[c] = "idle"
    BY <1>3 DEF OwnerNeedNotClose, CallersInv
  <2> QED
    BY <1>3, <2>1 DEF OwnerNeedNotClose, CallersInv
<1>4. CASE Destroy
  <2>1. \A c \in CloseCallers : closer[c] = "idle"
    BY <1>4 DEF Destroy, CallersInv, CloseCallers
  <2> QED
    BY <1>4, <2>1 DEF Destroy, CallersInv
<1>5. ASSUME NEW c \in CloseCallers, CloseCheck(c) PROVE CallersInv'
  BY <1>5 DEF CloseCheck, CallersInv, TypeOK
<1>6. ASSUME NEW c \in CloseCallers, CloseSet(c) PROVE CallersInv'
  BY <1>6 DEF CloseSet, CallersInv, TypeOK
<1>7. ASSUME NEW c \in CloseCallers, CloseSend(c) PROVE CallersInv'
  <2>1. closer[c] = "send" /\ closer' = [closer EXCEPT ![c] = "idle"]
        /\ owner' = IF c = Owner THEN "join" ELSE owner
    BY <1>7 DEF CloseSend
  <2>2. CASE c = Owner
    <3>1. owner = "closing"
      BY <2>1, <2>2 DEF CallersInv
    <3>2. \A d \in CloseCallers : d # c => closer[d] = "idle"
      BY <2>2, <3>1 DEF CallersInv
    <3> QED
      BY <2>1, <3>2 DEF CallersInv, TypeOK
  <2>3. CASE c # Owner
    BY <2>1, <2>3 DEF CallersInv, TypeOK
  <2> QED
    BY <2>2, <2>3
<1>8. CASE UNCHANGED <<owner, closer>>
  BY <1>8 DEF CallersInv
<1>9. CASE \/ \E u \in Users : Attach(u) \/ Complete(u)
           \/ \E p \in Producers : PushLocked(p) \/ SendAndUnlock(p)
           \/ UNCHANGED vars
  BY <1>8, <1>9 DEF Attach, Complete, PushLocked, SendAndUnlock
<1>10. CASE LoopStep
  BY <1>8, <1>10
  DEF LoopStep, WorkThread, TestAlive, ProcessWakeup, ProcessCompletion, ReqsDone,
      LockQueue, HandleEvent, QueueEmpty, WalkCloses, WalkEnds, Poll, Endgame,
      EndgamesDone, RunReturns
<1> QED
  BY <1>1, <1>2, <1>3, <1>4, <1>5, <1>6, <1>7, <1>9, <1>10
  DEF Next, OwnerStep, CloseStep

\* What is in the port and among the pending requests stays in step with the
\* flags and the requests, whoever adds to them or takes from them.
LEMMA WayStep ==
  ASSUME TypeOK, PollInv, BeginInv, WayInv, [Next]_vars
  PROVE  WayInv'
<1> USE DEF vars, threads, flagVars, queueVars, loopVars, histories
<1>0. /\ iocp \in Seq(Handles) /\ pending \in Seq(Handles)
      /\ async_sent \in [Async -> BOOLEAN]
      /\ io \in [Users -> {"idle", "pending", "posted"}]
  BY DEF TypeOK
<1>1. ASSUME NEW a \in Async, SendAsync(a), io' = io, pending' = pending
      PROVE  WayInv'
  BY <1>0, <1>1, SendWay DEF SendAsync, WayInv
<1>2. CASE UNCHANGED <<iocp, pending, async_sent, io>>
  BY <1>2 DEF WayInv
<1>3. CASE InitCloseAsync \/ InitEventAsync
  <2>1. owner \in Early
    BY <1>3 DEF InitCloseAsync, InitEventAsync, InitAsync, Early
  <2>2. async_sent' = async_sent
    <3>1. \A a \in Async : async_sent[a] = FALSE
      BY <1>0, <2>1 DEF BeginInv
    <3>2. PICK a \in Async : async_sent' = [async_sent EXCEPT ![a] = FALSE]
      BY <1>3 DEF InitCloseAsync, InitEventAsync, InitAsync, Async
    <3> QED
      BY <1>0, <3>1, <3>2
  <2> QED
    BY <1>2, <1>3, <2>2 DEF InitCloseAsync, InitEventAsync, InitAsync
<1>4. ASSUME NEW u \in Users, Attach(u) PROVE WayInv'
  <2>1. io[u] = "idle" /\ io'[u] # "posted" /\ iocp' = iocp /\ pending' = pending
        /\ async_sent' = async_sent /\ \A v \in Users : v # u => io'[v] = io[v]
    BY <1>0, <1>4 DEF Attach, BeginInv
  <2> QED
    BY <2>1 DEF WayInv, WayOf
<1>5. ASSUME NEW c \in CloseCallers, CloseSend(c) PROVE WayInv'
  BY <1>1, <1>5 DEF CloseSend, Async
<1>6. ASSUME NEW p \in Producers, SendAndUnlock(p) PROVE WayInv'
  BY <1>1, <1>6 DEF SendAndUnlock, Async
<1>7. CASE ProcessWakeup
  <2>1. /\ pending # <<>> /\ Head(pending) \in Async /\ pending' = Tail(pending)
        /\ async_sent' = [async_sent EXCEPT ![Head(pending)] = FALSE]
        /\ iocp' = iocp /\ io' = io
    BY <1>7 DEF ProcessWakeup
  <2> QED
    BY <1>0, <2>1, WokenWay DEF WayInv
<1>8. CASE ProcessCompletion
  <2>1. /\ pending # <<>> /\ Head(pending) \in Users /\ pending' = Tail(pending)
    BY <1>8 DEF ProcessCompletion
  <2>2. \/ CallbackReturns(Head(pending)) \/ CallbackPushes(Head(pending))
        \/ CompletionOfClosing(Head(pending))
    BY <1>8 DEF ProcessCompletion
  <2>3. PICK v \in {"idle", "pending"} : io' = [io EXCEPT ![Head(pending)] = v]
    BY <2>2 DEF CallbackReturns, CallbackPushes, CompletionOfClosing
  <2>4. WayOf(iocp, Tail(pending), async_sent, io')
    BY <1>0, <2>1, <2>3, CompletedWay DEF WayInv
  <2>5. CASE iocp' = iocp /\ async_sent' = async_sent
    BY <2>1, <2>4, <2>5 DEF WayInv
  <2>6. CASE SendAsync("event")
    <3>1. Tail(pending) \in Seq(Handles) /\ "event" \in Async
      BY <1>0, <2>1 DEF Async
    <3>2. WayOf(IF async_sent["event"] THEN iocp ELSE Append(iocp, "event"),
                Tail(pending), [async_sent EXCEPT !["event"] = TRUE], io')
      BY <1>0, <2>4, <3>1, SendWay
    <3> QED
      BY <2>1, <2>6, <3>2 DEF WayInv, SendAsync
  <2> QED
    BY <2>2, <2>5, <2>6 DEF CallbackReturns, CallbackPushes, CompletionOfClosing
<1>9. CASE Poll
  <2>1. pending = <<>> /\ pending' = iocp /\ iocp' = <<>>
        /\ async_sent' = async_sent /\ io' = io
    BY <1>9 DEF Poll, PollInv
  <2>2. SetOf(<<>>) = {} /\ OnceIn(<<>>)
    BY DEF SetOf, OnceIn
  <2> QED
    BY <2>1, <2>2 DEF WayInv, WayOf
<1>10. ASSUME NEW u \in Users, Complete(u) PROVE WayInv'
  BY <1>0, <1>10, PostWay DEF Complete, WayInv
<1>11. CASE \/ StartThread \/ StartFails \/ WaitInited \/ Ready \/ Join \/ Destroy
            \/ OwnerNeedNotClose
            \/ \E c \in CloseCallers : CloseCheck(c) \/ CloseSet(c)
            \/ \E p \in Producers : PushLocked(p)
  BY <1>2, <1>11 DEF StartThread, StartFails, WaitInited, Ready, Join, Destroy,
     OwnerNeedNotClose, CloseCheck, CloseSet, PushLocked
<1>12. CASE \/ WorkThread \/ TestAlive \/ ReqsDone \/ LockQueue \/ HandleEvent
            \/ QueueEmpty \/ WalkEnds \/ EndgamesDone \/ RunReturns
            \/ \E h \in Handles : WalkCloses(h) \/ Endgame(h)
            \/ UNCHANGED vars
  BY <1>2, <1>12 DEF WorkThread, TestAlive, ReqsDone, LockQueue, HandleEvent,
     QueueEmpty, WalkEnds, EndgamesDone, RunReturns, WalkCloses, Endgame
<1> QED
  BY <1>3, <1>4, <1>5, <1>6, <1>7, <1>8, <1>9, <1>10, <1>11, <1>12
  DEF Next, OwnerStep, CloseStep, LoopStep

(***************************************************************************)
(* From Close to the walk.                                                 *)
(***************************************************************************)
\* What is pushed is handled or queued, and who holds the mutex has queued.
LEMMA OutFits ==
  ASSUME TypeOK, QueueInv, MarkInv
  PROVE  /\ Len(pushed) \in Nat /\ Len(handled) \in Nat
         /\ Len(event_queue) \in Nat
         /\ Len(pushed) = Len(handled) + Len(event_queue)
         /\ Out \in {0, 1} /\ Out <= Len(event_queue)
         /\ mark \in Nat \cup {NoMark}
<1>1. handled \in Seq(Events) /\ event_queue \in Seq(Events) /\ pushed \in Seq(Events)
      /\ mark \in Nat \cup {NoMark}
  BY DEF TypeOK
<1>2. Len(pushed) = Len(handled) + Len(event_queue)
  BY <1>1 DEF QueueInv
<1>3. event_queue # <<>> => Len(event_queue) \in Nat \ {0}
  BY <1>1
<1>4. Out \in {0, 1} /\ Out <= Len(event_queue)
  BY <1>1, <1>3 DEF Out, MarkInv
<1> QED
  BY <1>1, <1>2, <1>4

\* Queuing an event makes pushed longer.
LEMMA EnqueueLonger ==
  ASSUME TypeOK, NEW s \in Sources, Enqueue(s)
  PROVE  /\ Len(pushed') = Len(pushed) + 1
         /\ Len(event_queue') = Len(event_queue) + 1 /\ event_queue' # <<>>
<1>1. MaxEvents \in Nat /\ count[s] \in 0 .. MaxEvents
  BY BoundsAssumption DEF TypeOK
<1>2. NewEvent(s) \in Events
  BY <1>1 DEF Enqueue, NewEvent, Events
<1>3. event_queue \in Seq(Events) /\ pushed \in Seq(Events)
  BY DEF TypeOK
<1>4. Len(Append(event_queue, NewEvent(s))) = Len(event_queue) + 1
      /\ Append(event_queue, NewEvent(s)) # <<>>
  BY <1>2, <1>3
<1>5. Len(Append(pushed, NewEvent(s))) = Len(pushed) + 1
  BY <1>2, <1>3
<1> QED
  BY <1>4, <1>5 DEF Enqueue

\* Close marks no more than was pushed, and nothing takes the mark away.
LEMMA MarkStep ==
  ASSUME TypeOK, MutexInv, QueueInv, MarkInv, [Next]_vars
  PROVE  MarkInv'
<1> USE DEF vars, threads, flagVars, queueVars, loopVars, histories
<1>1. ASSUME NEW c \in CloseCallers, CloseCheck(c) PROVE MarkInv'
  BY <1>1 DEF CloseCheck, MarkInv, TypeOK
<1>2. ASSUME NEW c \in CloseCallers, CloseSet(c) PROVE MarkInv'
  BY <1>2 DEF CloseSet, MarkInv
<1>3. ASSUME NEW c \in CloseCallers, CloseSend(c) PROVE MarkInv'
  <2>1. requested' = requested /\ pushed' = pushed /\ mutex' = mutex
        /\ event_queue' = event_queue /\ requested
        /\ mark' = IF mark = NoMark THEN Len(pushed) - Out ELSE mark
    BY <1>3 DEF CloseSend, MarkInv, Out
  <2>2. mark' # NoMark => mark' <= Len(pushed)
    BY <2>1, OutFits DEF MarkInv
  <2>3. \A d \in CloseCallers : closer'[d] = "send" => closer[d] = "send"
    BY <1>3 DEF CloseSend, TypeOK
  <2> QED
    BY <2>1, <2>2, <2>3 DEF MarkInv
<1>4. ASSUME NEW p \in Producers, PushLocked(p) PROVE MarkInv'
  <2>1. p \in Sources /\ Enqueue(p) /\ closer' = closer /\ requested' = requested
        /\ mark' = mark
    BY <1>4 DEF PushLocked, Sources
  <2>2. Len(pushed') = Len(pushed) + 1 /\ event_queue' # <<>>
    BY <2>1, EnqueueLonger
  <2> QED
    BY <2>1, <2>2, OutFits DEF MarkInv
<1>5. ASSUME NEW p \in Producers, SendAndUnlock(p) PROVE MarkInv'
  BY <1>5, NamesAssumption DEF SendAndUnlock, MarkInv
<1>6. CASE ProcessCompletion
  <2>1. ASSUME Enqueue(Head(pending)), mutex' = mutex, mark' = mark,
               requested' = requested, closer' = closer
        PROVE  MarkInv'
    <3>1. Head(pending) \in Sources
      BY <1>6 DEF ProcessCompletion, Sources
    <3>2. Len(pushed') = Len(pushed) + 1 /\ event_queue' # <<>>
      BY <2>1, <3>1, EnqueueLonger
    <3> QED
      BY <2>1, <3>2, OutFits DEF MarkInv
  <2>2. CASE CallbackPushes(Head(pending))
    BY <1>6, <2>1, <2>2 DEF ProcessCompletion, CallbackPushes
  <2>3. CASE CallbackReturns(Head(pending)) \/ CompletionOfClosing(Head(pending))
    BY <1>6, <2>3 DEF ProcessCompletion, CallbackReturns, CompletionOfClosing, MarkInv
  <2> QED
    BY <1>6, <2>2, <2>3 DEF ProcessCompletion
<1>7. CASE LockQueue \/ QueueEmpty
  BY <1>7, NamesAssumption DEF LockQueue, QueueEmpty, MarkInv
<1>8. CASE HandleEvent
  <2>1. mutex = Loop /\ mutex' = mutex
    BY <1>8 DEF HandleEvent, MutexInv
  <2> QED
    BY <1>8, <2>1, NamesAssumption DEF HandleEvent, MarkInv
<1>9. CASE UNCHANGED <<closer, requested, mark, pushed, mutex, event_queue>>
  BY <1>9 DEF MarkInv
<1>10. CASE OwnerStep \/ Destroy \/ UNCHANGED vars
  BY <1>9, <1>10
  DEF OwnerStep, Destroy, StartThread, StartFails, InitCloseAsync, InitEventAsync,
      InitAsync, WaitInited, Attach, Ready, OwnerNeedNotClose, Join
<1>11. CASE \/ WorkThread \/ TestAlive \/ ProcessWakeup \/ ReqsDone \/ WalkEnds
            \/ Poll \/ EndgamesDone \/ RunReturns
            \/ \E h \in Handles : WalkCloses(h) \/ Endgame(h)
            \/ \E u \in Users : Complete(u)
  BY <1>9, <1>11
  DEF WorkThread, TestAlive, ProcessWakeup, ReqsDone, WalkEnds, Poll, EndgamesDone,
      RunReturns, WalkCloses, Endgame, Complete
<1> QED
  BY <1>1, <1>2, <1>3, <1>4, <1>5, <1>6, <1>7, <1>8, <1>10, <1>11
  DEF Next, CloseStep, LoopStep

\* Only Close sends a wakeup for the walk, and it leaves a mark.
LEMMA CloseWakeStep ==
  ASSUME TypeOK, QueueInv, PollInv, MarkInv, CloseWakeInv, [Next]_vars
  PROVE  CloseWakeInv'
<1> USE DEF vars, threads, flagVars, queueVars, loopVars, histories
<1>0. iocp \in Seq(Handles) /\ pending \in Seq(Handles)
  BY DEF TypeOK
<1>1. ASSUME SendAsync("event"), loop' = loop, mark' = mark,
             SetOf(pending') \subseteq SetOf(pending)
      PROVE  CloseWakeInv'
  <2>1. "event" \in Handles
    BY DEF Handles, Async
  <2>2. SetOf(Append(iocp, "event")) = SetOf(iocp) \cup {"event"}
    BY <1>0, <2>1, SetOfAppend
  <2>3. "close" \in SetOf(iocp') => "close" \in SetOf(iocp)
    BY <1>1, <2>2 DEF SendAsync
  <2> QED
    BY <1>1, <2>3 DEF CloseWakeInv, WakeupUnderWay
<1>2. ASSUME NEW c \in CloseCallers, CloseSend(c) PROVE CloseWakeInv'
  <2>1. mark' = IF mark = NoMark THEN Len(pushed) - Out ELSE mark
    BY <1>2 DEF CloseSend, Out
  <2>2. mark' # NoMark
    BY <2>1, OutFits DEF NoMark
  <2> QED
    BY <2>2 DEF CloseWakeInv
<1>3. ASSUME NEW p \in Producers, SendAndUnlock(p) PROVE CloseWakeInv'
  BY <1>1, <1>3 DEF SendAndUnlock
<1>4. ASSUME pending # <<>>, pending' = Tail(pending)
      PROVE  SetOf(pending') \subseteq SetOf(pending)
  BY <1>0, <1>4, SetOfHead
<1>5. CASE ProcessWakeup
  <2>1. pending # <<>> /\ pending' = Tail(pending) /\ iocp' = iocp /\ mark' = mark
        /\ loop = "reqs" /\ Head(pending) \in {"close", "event"}
    BY <1>5 DEF ProcessWakeup, Async
  <2>2. Head(pending) \in SetOf(pending) /\ SetOf(pending') \subseteq SetOf(pending)
    BY <1>0, <1>4, <2>1, SetOfHead
  <2>3. loop' = "walk" => Head(pending) = "close"
    BY <1>5, <2>1 DEF ProcessWakeup, WakeupOfOpen, WakeupOfClosing
  <2> QED
    BY <2>1, <2>2, <2>3 DEF CloseWakeInv, WakeupUnderWay
<1>6. CASE ProcessCompletion
  <2>1. pending # <<>> /\ pending' = Tail(pending) /\ loop' = loop
    BY <1>6 DEF ProcessCompletion
  <2>2. SetOf(pending') \subseteq SetOf(pending)
    BY <1>4, <2>1
  <2>3. CASE iocp' = iocp /\ mark' = mark
    BY <2>1, <2>2, <2>3 DEF CloseWakeInv, WakeupUnderWay
  <2>4. CASE SendAsync("event") /\ mark' = mark
    BY <1>1, <2>1, <2>2, <2>4
  <2> QED
    BY <1>6, <2>3, <2>4
    DEF ProcessCompletion, CallbackReturns, CallbackPushes, CompletionOfClosing
<1>7. CASE Poll
  <2>1. pending' = iocp /\ iocp' = <<>> /\ mark' = mark /\ loop' = "endgames"
    BY <1>7 DEF Poll
  <2>2. SetOf(<<>>) = {}
    BY DEF SetOf
  <2> QED
    BY <2>1, <2>2 DEF CloseWakeInv, WakeupUnderWay
<1>8. ASSUME NEW u \in Users, Complete(u) PROVE CloseWakeInv'
  <2>1. iocp' = Append(iocp, u) /\ pending' = pending /\ loop' = loop /\ mark' = mark
        /\ u \in Handles /\ u # "close"
    BY <1>8, NamesAssumption DEF Complete, Handles, Async
  <2>2. SetOf(iocp') = SetOf(iocp) \cup {u}
    BY <1>0, <2>1, SetOfAppend
  <2> QED
    BY <2>1, <2>2 DEF CloseWakeInv, WakeupUnderWay
<1>9. CASE UNCHANGED <<iocp, pending, mark>> /\ (loop' = "walk" => loop = "walk")
  BY <1>9 DEF CloseWakeInv, WakeupUnderWay
<1>10. CASE OwnerStep \/ Destroy \/ UNCHANGED vars
  BY <1>9, <1>10
  DEF OwnerStep, Destroy, StartThread, StartFails, InitCloseAsync, InitEventAsync,
      InitAsync, WaitInited, Attach, Ready, OwnerNeedNotClose, Join
<1>11. CASE \/ \E c \in CloseCallers : CloseCheck(c) \/ CloseSet(c)
            \/ \E p \in Producers : PushLocked(p)
  BY <1>9, <1>11 DEF CloseCheck, CloseSet, PushLocked
<1>12. CASE \/ WorkThread \/ TestAlive \/ ReqsDone \/ LockQueue \/ HandleEvent
            \/ QueueEmpty \/ WalkEnds \/ EndgamesDone \/ RunReturns
            \/ \E h \in Handles : WalkCloses(h) \/ Endgame(h)
  BY <1>9, <1>12
  DEF WorkThread, TestAlive, ReqsDone, LockQueue, HandleEvent, QueueEmpty, WalkEnds,
      EndgamesDone, RunReturns, WalkCloses, Endgame
<1> QED
  BY <1>2, <1>3, <1>5, <1>6, <1>7, <1>8, <1>10, <1>11, <1>12
  DEF Next, CloseStep, LoopStep

\* No handle ends before Close has been called, and none is finished that was
\* not closed.
LEMMA EndedStep ==
  ASSUME TypeOK, QueueInv, BeginInv, MarkInv, CloseWakeInv, EndedInv, [Next]_vars
  PROVE  EndedInv'
<1> USE DEF vars, threads, flagVars, queueVars, loopVars, histories
<1>0. handle \in [Handles -> {"none", "open", "closing", "closed"}]
      /\ endgames \subseteq Handles
  BY DEF TypeOK
<1>1. owner \notin Late => \A h \in Handles : ~Ended(h)
  BY DEF BeginInv, EndedInv, MarkInv
<1>2. CASE InitCloseAsync \/ InitEventAsync
  <2>1. owner \notin Late /\ mark' = mark /\ endgames' = endgames
    BY <1>2 DEF InitCloseAsync, InitEventAsync, InitAsync, Late
  <2>2. endgames = {}
    BY <1>0, <1>1, <2>1 DEF EndedInv
  <2>3. PICK a \in Handles : handle' = [handle EXCEPT ![a] = "open"]
    BY <1>2 DEF InitCloseAsync, InitEventAsync, InitAsync, Handles, Async
  <2>4. \A h \in Handles : handle'[h] \notin {"closing", "closed"}
    BY <1>0, <1>1, <2>1, <2>3 DEF Ended
  <2> QED
    BY <2>1, <2>2, <2>4 DEF EndedInv, Ended
<1>3. ASSUME NEW u \in Users, Attach(u) PROVE EndedInv'
  <2>1. owner \notin Late /\ mark' = mark /\ endgames' = endgames
    BY <1>3 DEF Attach, Late
  <2>2. endgames = {}
    BY <1>0, <1>1, <2>1 DEF EndedInv
  <2>3. \A h \in Handles : handle'[h] \notin {"closing", "closed"}
    BY <1>0, <1>1, <1>3, <2>1 DEF Ended, Attach
  <2> QED
    BY <2>1, <2>2, <2>3 DEF EndedInv, Ended
<1>4. ASSUME NEW c \in CloseCallers, CloseSend(c) PROVE EndedInv'
  <2>1. mark' = IF mark = NoMark THEN Len(pushed) - Out ELSE mark
    BY <1>4 DEF CloseSend, Out
  <2>2. mark' # NoMark
    BY <2>1, OutFits DEF NoMark
  <2> QED
    BY <1>4, <2>2 DEF CloseSend, EndedInv, Ended
<1>5. CASE ProcessWakeup
  <2>1. pending # <<>> /\ Head(pending) \in Async /\ handle' = handle /\ mark' = mark
    BY <1>5 DEF ProcessWakeup
  <2>2. handle[Head(pending)] # "none"
    BY <2>1 DEF BeginInv
  <2>3. WakeupOfClosing(Head(pending)) \/ WakeupOfOpen(Head(pending))
    BY <1>5 DEF ProcessWakeup
  <2>4. handle[Head(pending)] # "open" => Ended(Head(pending))
    BY <1>0, <2>1, <2>2 DEF Ended, Handles
  <2>5. \/ endgames' = endgames
        \/ endgames' = endgames \cup {Head(pending)} /\ Ended(Head(pending))
    BY <2>3, <2>4 DEF WakeupOfOpen, WakeupOfClosing
  <2> QED
    BY <2>1, <2>5 DEF EndedInv, Ended
<1>6. CASE ProcessCompletion
  <2>1. handle' = handle /\ mark' = mark
        /\ \/ endgames' = endgames
           \/ endgames' = endgames \cup {Head(pending)} /\ Ended(Head(pending))
    BY <1>6 DEF ProcessCompletion, CallbackReturns, CallbackPushes,
       CompletionOfClosing, Ended
  <2> QED
    BY <2>1 DEF EndedInv, Ended
<1>7. ASSUME NEW h \in Handles, WalkCloses(h) PROVE EndedInv'
  <2>1. handle' = [handle EXCEPT ![h] = "closing"] /\ endgames' \subseteq endgames \cup {h}
        /\ mark' = mark /\ mark # NoMark
    BY <1>7 DEF WalkCloses, CloseWakeInv
  <2> QED
    BY <1>0, <2>1 DEF EndedInv, Ended
<1>8. ASSUME NEW h \in Handles, Endgame(h) PROVE EndedInv'
  <2>1. endgames' \subseteq endgames /\ mark' = mark /\ Ended(h)
        /\ \/ handle' = handle
           \/ handle' = [handle EXCEPT ![h] = "closed"]
    BY <1>8 DEF Endgame, EndedInv
  <2> QED
    BY <1>0, <2>1 DEF EndedInv, Ended
<1>9. CASE UNCHANGED <<handle, endgames, mark>>
  BY <1>9 DEF EndedInv, Ended
<1>10. CASE \/ StartThread \/ StartFails \/ WaitInited \/ Ready \/ Join \/ Destroy
            \/ OwnerNeedNotClose \/ UNCHANGED vars
            \/ \E c \in CloseCallers : CloseCheck(c) \/ CloseSet(c)
            \/ \E p \in Producers : PushLocked(p) \/ SendAndUnlock(p)
            \/ \E u \in Users : Complete(u)
  BY <1>9, <1>10
  DEF StartThread, StartFails, WaitInited, Ready, Join, Destroy, OwnerNeedNotClose,
      CloseCheck, CloseSet, PushLocked, SendAndUnlock, Complete
<1>11. CASE \/ WorkThread \/ TestAlive \/ ReqsDone \/ LockQueue \/ HandleEvent
            \/ QueueEmpty \/ WalkEnds \/ Poll \/ EndgamesDone \/ RunReturns
  BY <1>9, <1>11
  DEF WorkThread, TestAlive, ReqsDone, LockQueue, HandleEvent, QueueEmpty, WalkEnds,
      Poll, EndgamesDone, RunReturns
<1> QED
  BY <1>2, <1>3, <1>4, <1>5, <1>6, <1>7, <1>8, <1>10, <1>11
  DEF Next, OwnerStep, CloseStep, LoopStep

\* A walk goes on until it has closed every handle, and none is attached later.
LEMMA WalkStep ==
  ASSUME TypeOK, BeginInv, MarkInv, CloseWakeInv, EndedInv, WalkInv, [Next]_vars
  PROVE  WalkInv'
<1> USE DEF vars, threads, flagVars, queueVars, loopVars, histories
<1>0. handle \in [Handles -> {"none", "open", "closing", "closed"}]
  BY DEF TypeOK
<1>1. owner \notin Late => \A h \in Handles : ~Ended(h)
  BY DEF BeginInv, EndedInv, MarkInv
<1>2. CASE InitCloseAsync \/ InitEventAsync
  <2>1. owner \notin Late
    BY <1>2 DEF InitCloseAsync, InitEventAsync, InitAsync, Late
  <2>2. PICK a \in Handles : handle' = [handle EXCEPT ![a] = "open"]
    BY <1>2 DEF InitCloseAsync, InitEventAsync, InitAsync, Handles, Async
  <2>3. \A h \in Handles : handle'[h] \notin {"closing", "closed"}
    BY <1>0, <1>1, <2>1, <2>2 DEF Ended
  <2> QED
    BY <2>3 DEF WalkInv, Ended
<1>3. ASSUME NEW u \in Users, Attach(u) PROVE WalkInv'
  <2>1. owner \notin Late
    BY <1>3 DEF Attach, Late
  <2>2. \A h \in Handles : handle'[h] \notin {"closing", "closed"}
    BY <1>0, <1>1, <1>3, <2>1 DEF Ended, Attach
  <2> QED
    BY <2>2 DEF WalkInv, Ended
<1>4. ASSUME NEW h \in Handles, WalkCloses(h) PROVE WalkInv'
  BY <1>4 DEF WalkCloses, WalkInv
<1>5. CASE WalkEnds
  <2>1. owner \in Late
    BY <1>5 DEF WalkEnds, CloseWakeInv, MarkInv, BeginInv
  <2>2. \A h \in Handles : handle[h] # "none"
    BY <2>1 DEF BeginInv, Handles, Early, Late
  <2>3. \A h \in Handles : Ended(h)
    BY <1>0, <1>5, <2>2 DEF WalkEnds, ToClose, Ended
  <2> QED
    BY <1>5, <2>3 DEF WalkEnds, WalkInv, Ended
<1>6. ASSUME NEW h \in Handles, Endgame(h) PROVE WalkInv'
  <2>1. loop # "walk" /\ Ended(h)
        /\ \/ handle' = handle
           \/ handle' = [handle EXCEPT ![h] = "closed"]
    BY <1>6 DEF Endgame, EndedInv
  <2>2. \A g \in Handles : handle'[g] \in {"closing", "closed"} <=> Ended(g)
    BY <1>0, <2>1 DEF Ended
  <2> QED
    BY <2>1, <2>2 DEF WalkInv, Ended
<1>7. CASE handle' = handle /\ (loop = "walk" => loop' = "walk")
  BY <1>7 DEF WalkInv, Ended
<1>8. CASE ProcessWakeup
  BY <1>7, <1>8 DEF ProcessWakeup
<1>9. CASE \/ StartThread \/ StartFails \/ WaitInited \/ Ready \/ Join \/ Destroy
           \/ OwnerNeedNotClose \/ UNCHANGED vars
           \/ \E c \in CloseCallers : CloseCheck(c) \/ CloseSet(c) \/ CloseSend(c)
           \/ \E p \in Producers : PushLocked(p) \/ SendAndUnlock(p)
           \/ \E u \in Users : Complete(u)
  <2>1. CASE StartThread
    BY <2>1, <1>1 DEF StartThread, WalkInv, Ended, Late
  <2> QED
    BY <1>7, <1>9, <2>1
    DEF StartFails, WaitInited, Ready, Join, Destroy, OwnerNeedNotClose, CloseCheck,
        CloseSet, CloseSend, PushLocked, SendAndUnlock, Complete
<1>10. CASE \/ WorkThread \/ TestAlive \/ ProcessCompletion \/ ReqsDone \/ LockQueue
            \/ HandleEvent \/ QueueEmpty \/ Poll \/ EndgamesDone \/ RunReturns
  BY <1>7, <1>10
  DEF WorkThread, TestAlive, ProcessCompletion, ReqsDone, LockQueue, HandleEvent,
      QueueEmpty, Poll, EndgamesDone, RunReturns
<1> QED
  BY <1>2, <1>3, <1>4, <1>5, <1>6, <1>8, <1>9, <1>10
  DEF Next, OwnerStep, CloseStep, LoopStep

(***************************************************************************)
(* The events before Close.                                                *)
(***************************************************************************)
\* A wakeup of the events that comes first does so whatever is added behind it.
LEMMA FirstAppend ==
  ASSUME NEW S, NEW s \in Seq(S), NEW x \in S, EventFirst(s)
  PROVE  EventFirst(Append(s, x))
<1>1. PICK i \in 1 .. Len(s) : s[i] = "event" /\ \A j \in 1 .. i : s[j] # "close"
  BY DEF EventFirst
<1>2. Len(s) \in Nat /\ Len(Append(s, x)) = Len(s) + 1
      /\ \A j \in 1 .. Len(s) : Append(s, x)[j] = s[j]
  OBVIOUS
<1>3. i \in 1 .. Len(Append(s, x)) /\ \A j \in 1 .. i : j \in 1 .. Len(s)
  BY <1>1, <1>2
<1>4. Append(s, x)[i] = "event" /\ \A j \in 1 .. i : Append(s, x)[j] # "close"
  BY <1>1, <1>2, <1>3
<1> QED
  BY <1>3, <1>4 DEF EventFirst

\* It does when a head is taken off that is not itself.
LEMMA FirstTail ==
  ASSUME NEW S, NEW s \in Seq(S), s # <<>>, Head(s) # "event", EventFirst(s)
  PROVE  EventFirst(Tail(s))
<1>1. PICK i \in 1 .. Len(s) : s[i] = "event" /\ \A j \in 1 .. i : s[j] # "close"
  BY DEF EventFirst
<1>2. Len(s) \in Nat \ {0} /\ Head(s) = s[1] /\ Len(Tail(s)) = Len(s) - 1
      /\ \A j \in 1 .. Len(s) - 1 : Tail(s)[j] = s[j + 1]
  OBVIOUS
<1>3. i # 1
  BY <1>1, <1>2
<1>4. i - 1 \in 1 .. Len(s) - 1
      /\ \A j \in 1 .. i - 1 : j \in 1 .. Len(s) - 1 /\ j + 1 \in 1 .. i
  BY <1>1, <1>2, <1>3
<1>5. Tail(s)[i - 1] = s[i]
  BY <1>1, <1>2, <1>4
<1>6. \A j \in 1 .. i - 1 : Tail(s)[j] # "close"
  BY <1>1, <1>2, <1>4
<1> QED
  BY <1>1, <1>2, <1>4, <1>5, <1>6 DEF EventFirst

\* A wakeup of the events comes first where there is none of Close.
LEMMA FirstAlone ==
  ASSUME NEW S, NEW s \in Seq(S), "event" \in SetOf(s), "close" \notin SetOf(s)
  PROVE  EventFirst(s)
<1>1. Len(s) \in Nat
  OBVIOUS
<1>2. PICK i \in 1 .. Len(s) : s[i] = "event"
  BY DEF SetOf
<1>3. \A j \in 1 .. Len(s) : s[j] # "close"
  BY DEF SetOf
<1>4. \A j \in 1 .. i : j \in 1 .. Len(s)
  BY <1>1
<1> QED
  BY <1>2, <1>3, <1>4 DEF EventFirst

\* It does not with that of Close at the head.
LEMMA FirstNotClose ==
  ASSUME NEW S, NEW s \in Seq(S), EventFirst(s)
  PROVE  s # <<>> /\ Head(s) # "close"
<1>1. PICK i \in 1 .. Len(s) : s[i] = "event" /\ \A j \in 1 .. i : s[j] # "close"
  BY DEF EventFirst
<1>2. Len(s) \in Nat /\ (s # <<>> => Head(s) = s[1])
  OBVIOUS
<1>3. s # <<>> /\ 1 \in 1 .. i
  BY <1>1, <1>2
<1> QED
  BY <1>1, <1>2, <1>3

\* Sending a wakeup takes none away.
LEMMA SendKeeps ==
  ASSUME TypeOK, NEW a \in Async, SendAsync(a)
  PROVE  SetOf(iocp) \subseteq SetOf(iocp') /\ (EventFirst(iocp) => EventFirst(iocp'))
<1>1. iocp \in Seq(Handles) /\ a \in Handles
  BY DEF TypeOK, Handles
<1>2. SetOf(Append(iocp, a)) = SetOf(iocp) \cup {a}
  BY <1>1, SetOfAppend
<1>3. EventFirst(iocp) => EventFirst(Append(iocp, a))
  BY <1>1, FirstAppend
<1> QED
  BY <1>2, <1>3 DEF SendAsync

\* Events whose PushEvent has returned always have somebody on the way to them.
LEMMA WakeStep ==
  ASSUME TypeOK, MutexInv, QueueInv, SentInv, PollInv, EarlyInv, MarkInv, WakeInv,
         [Next]_vars
  PROVE  WakeInv'
<1> USE DEF vars, threads, flagVars, queueVars, loopVars, histories
<1>0. iocp \in Seq(Handles) /\ pending \in Seq(Handles)
      /\ handle \in [Handles -> {"none", "open", "closing", "closed"}]
      /\ "event" \in Handles /\ "event" \in Async /\ "close" \in Async
  BY DEF TypeOK, Handles, Async
<1>1. CASE InitCloseAsync \/ InitEventAsync
  <2>1. event_queue' = <<>>
    BY <1>1 DEF InitCloseAsync, InitEventAsync, InitAsync, EarlyInv
  <2>2. Len(event_queue') = 0 /\ Out' \in {0, 1}
    BY <2>1 DEF Out
  <2> QED
    BY <2>2 DEF WakeInv
<1>2. ASSUME NEW u \in Users, Attach(u) PROVE WakeInv'
  BY <1>0, <1>2, NamesAssumption
  DEF WakeInv, WakeupUnderWay, Out, Attach, Async
<1>3. ASSUME NEW c \in CloseCallers, CloseSend(c) PROVE WakeInv'
  <2>1. SetOf(iocp) \subseteq SetOf(iocp')
    BY <1>0, <1>3, SendKeeps DEF CloseSend
  <2> QED
    BY <1>3, <2>1 DEF CloseSend, WakeInv, WakeupUnderWay, Out
<1>4. ASSUME NEW p \in Producers, PushLocked(p) PROVE WakeInv'
  <2>1. p \in Sources /\ Enqueue(p) /\ mutex = Nobody /\ mutex' = p
        /\ iocp' = iocp /\ pending' = pending /\ loop' = loop /\ handle' = handle
    BY <1>4 DEF PushLocked, Sources
  <2>2. Len(event_queue') = Len(event_queue) + 1
    BY <2>1, EnqueueLonger
  <2>3. Out = 0 /\ Out' = 1
    BY <2>1, NamesAssumption DEF Out
  <2>4. Len(event_queue) \in Nat
    BY OutFits
  <2>5. Len(event_queue') > Out' => Len(event_queue) > Out
    BY <2>2, <2>3, <2>4
  <2> QED
    BY <2>1, <2>5 DEF WakeInv, WakeupUnderWay
<1>5. ASSUME NEW p \in Producers, SendAndUnlock(p) PROVE WakeInv'
  BY <1>0, <1>5, SendAsyncWakes DEF SendAndUnlock, WakeInv, WakeupUnderWay
<1>6. CASE ProcessWakeup
  <2>1. /\ pending # <<>> /\ pending' = Tail(pending) /\ Head(pending) \in Async
        /\ iocp' = iocp /\ handle' = handle /\ mutex' = mutex
        /\ event_queue' = event_queue /\ loop = "reqs"
        /\ WakeupOfClosing(Head(pending)) \/ WakeupOfOpen(Head(pending))
    BY <1>6 DEF ProcessWakeup
  <2>2. SetOf(pending) = {Head(pending)} \cup SetOf(pending')
    BY <1>0, <2>1, SetOfHead
  <2>3. CASE Head(pending) = "event"
    BY <2>1, <2>3 DEF WakeupOfOpen, WakeupOfClosing, WakeInv
  <2>4. CASE Head(pending) # "event"
    BY <2>1, <2>2, <2>4 DEF WakeInv, WakeupUnderWay, Out
  <2> QED
    BY <2>3, <2>4
<1>7. CASE ProcessCompletion
  <2>1. /\ pending # <<>> /\ pending' = Tail(pending) /\ Head(pending) \in Users
        /\ handle' = handle /\ loop' = loop
    BY <1>7 DEF ProcessCompletion
  <2>2. SetOf(pending) = {Head(pending)} \cup SetOf(pending')
    BY <1>0, <2>1, SetOfHead
  <2>3. "event" \in SetOf(pending) => "event" \in SetOf(pending')
    BY <1>0, <2>1, <2>2, NamesAssumption
  <2>4. CASE iocp' = iocp /\ event_queue' = event_queue /\ mutex' = mutex
    BY <2>1, <2>3, <2>4 DEF WakeInv, WakeupUnderWay, Out
  <2>5. CASE SendAsync("event")
    BY <1>0, <2>3, <2>5, SendAsyncWakes DEF WakeInv, WakeupUnderWay
  <2> QED
    BY <1>7, <2>4, <2>5
    DEF ProcessCompletion, CallbackReturns, CallbackPushes, CompletionOfClosing
<1>8. CASE LockQueue
  BY <1>8 DEF LockQueue, WakeInv
<1>9. CASE HandleEvent
  BY <1>9 DEF HandleEvent, WakeInv
<1>10. CASE QueueEmpty
  <2>1. event_queue' = <<>>
    BY <1>10 DEF QueueEmpty
  <2>2. Len(event_queue') = 0 /\ Out' \in {0, 1}
    BY <2>1 DEF Out
  <2> QED
    BY <2>2 DEF WakeInv
<1>11. ASSUME NEW h \in Handles, WalkCloses(h) \/ Endgame(h) PROVE WakeInv'
  <2>1. handle["event"] # "open" => handle'["event"] # "open"
    BY <1>0, <1>11 DEF WalkCloses, Endgame
  <2> QED
    BY <1>11, <2>1 DEF WalkCloses, Endgame, WakeInv, WakeupUnderWay, Out
<1>12. CASE Poll
  <2>1. pending = <<>> /\ pending' = iocp
    BY <1>12 DEF Poll, PollInv
  <2>2. SetOf(pending) = {}
    BY <2>1 DEF SetOf
  <2> QED
    BY <1>12, <2>1, <2>2 DEF Poll, WakeInv, WakeupUnderWay, Out
<1>13. ASSUME NEW u \in Users, Complete(u) PROVE WakeInv'
  <2>1. u \in Handles /\ iocp' = Append(iocp, u)
    BY <1>13 DEF Complete, Handles
  <2>2. SetOf(iocp') = SetOf(iocp) \cup {u}
    BY <1>0, <2>1, SetOfAppend
  <2> QED
    BY <1>13, <2>2 DEF Complete, WakeInv, WakeupUnderWay, Out
<1>14. CASE /\ UNCHANGED <<event_queue, mutex, iocp, pending, handle>>
            /\ loop \notin {"lock", "drain"}
  BY <1>14 DEF WakeInv, WakeupUnderWay, Out
<1>15. CASE UNCHANGED <<event_queue, mutex, iocp, pending, handle, loop>>
  BY <1>15 DEF WakeInv, WakeupUnderWay, Out
<1>16. CASE StartThread
  BY <1>14, <1>16 DEF StartThread, EarlyInv
<1>17. CASE \/ StartFails \/ WaitInited \/ Ready \/ Join \/ Destroy
            \/ OwnerNeedNotClose \/ UNCHANGED vars
            \/ \E c \in CloseCallers : CloseCheck(c) \/ CloseSet(c)
  BY <1>15, <1>17
  DEF StartFails, WaitInited, Ready, Join, Destroy, OwnerNeedNotClose, CloseCheck,
      CloseSet
<1>18. CASE \/ WorkThread \/ TestAlive \/ ReqsDone \/ WalkEnds \/ EndgamesDone
            \/ RunReturns
  BY <1>14, <1>18 DEF WorkThread, TestAlive, ReqsDone, WalkEnds, EndgamesDone,
     RunReturns
<1> QED
  BY <1>1, <1>2, <1>3, <1>4, <1>5, <1>6, <1>7, <1>8, <1>9, <1>10, <1>11, <1>12,
     <1>13, <1>16, <1>17, <1>18 DEF Next, OwnerStep, CloseStep, LoopStep

\* While events pushed before Close are still to be handled, the loop thread comes
\* to them first and closes nothing.
LEMMA BehindStep ==
  ASSUME TypeOK, MutexInv, QueueInv, PollInv, BeginInv, CallersInv, MarkInv,
         CloseWakeInv, EndedInv, WakeInv, BehindInv, [Next]_vars
  PROVE  BehindInv'
<1> USE DEF vars, threads, flagVars, queueVars, loopVars, histories
<1>0. iocp \in Seq(Handles) /\ pending \in Seq(Handles)
      /\ handle \in [Handles -> {"none", "open", "closing", "closed"}]
      /\ "event" \in Handles /\ "event" \in Async /\ "close" \in Async
  BY DEF TypeOK, Handles, Async
<1>1. Behind => owner \in Late /\ \A h \in Handles : handle[h] = "open"
  <2> SUFFICES ASSUME Behind
               PROVE  owner \in Late /\ \A h \in Handles : handle[h] = "open"
    OBVIOUS
  <2>1. owner \in Late
    BY DEF Behind, MarkInv, BeginInv
  <2>2. \A h \in Handles : handle[h] # "none"
    BY <2>1 DEF BeginInv, Handles, Early, Late
  <2> QED
    BY <1>0, <2>1, <2>2 DEF BehindInv, Ended
<1>2. ASSUME NEW c \in CloseCallers, CloseSend(c) PROVE BehindInv'
  <2>1. /\ SendAsync("close") /\ pending' = pending /\ handle' = handle
        /\ loop' = loop /\ handled' = handled
        /\ mark' = IF mark = NoMark THEN Len(pushed) - Out ELSE mark
    BY <1>2 DEF CloseSend, Out
  <2>2. EventFirst(iocp) => EventFirst(iocp')
    BY <1>0, <2>1, SendKeeps
  <2>3. CASE mark # NoMark
    BY <2>1, <2>2, <2>3 DEF BehindInv, Behind, EventsNext, Ended
  <2>4. CASE mark = NoMark
    <3>1. owner \in Late
      BY <1>2 DEF CloseSend, CallersInv, Late
    <3>2. ~WakeupUnderWay("close") /\ loop # "walk" /\ \A h \in Handles : ~Ended(h)
      BY <2>4 DEF CloseWakeInv, EndedInv
    <3>3. handle["event"] = "open"
      BY <1>0, <3>1, <3>2 DEF BeginInv, Early, Late, Ended
    <3>4. Behind' => Len(event_queue) > Out
      BY <2>1, <2>4, OutFits DEF Behind
    <3>5. Behind' => WakeupUnderWay("event") \/ loop \in {"lock", "drain"}
      BY <3>3, <3>4 DEF WakeInv
    <3>6. "event" \in SetOf(pending) => EventFirst(pending)
      BY <1>0, <3>2, FirstAlone DEF WakeupUnderWay
    <3>7. "event" \in SetOf(iocp) => EventFirst(iocp)
      BY <1>0, <3>2, FirstAlone DEF WakeupUnderWay
    <3>8. Behind' => EventsNext'
      BY <2>1, <2>2, <3>2, <3>5, <3>6, <3>7 DEF EventsNext, WakeupUnderWay
    <3> QED
      BY <2>1, <3>2, <3>8 DEF BehindInv, Ended
  <2> QED
    BY <2>3, <2>4
<1>3. ASSUME NEW p \in Producers, SendAndUnlock(p) PROVE BehindInv'
  <2>1. /\ SendAsync("event") /\ pending' = pending /\ handle' = handle
        /\ loop' = loop /\ handled' = handled /\ mark' = mark
    BY <1>3 DEF SendAndUnlock
  <2>2. EventFirst(iocp) => EventFirst(iocp')
    BY <1>0, <2>1, SendKeeps
  <2> QED
    BY <2>1, <2>2 DEF BehindInv, Behind, EventsNext, Ended
<1>4. CASE ProcessWakeup
  <2>1. /\ pending # <<>> /\ pending' = Tail(pending) /\ iocp' = iocp
        /\ Head(pending) \in {"close", "event"} /\ loop = "reqs" /\ handle' = handle
        /\ handled' = handled /\ mark' = mark
        /\ WakeupOfClosing(Head(pending)) \/ WakeupOfOpen(Head(pending))
    BY <1>4 DEF ProcessWakeup, Async
  <2>2. SUFFICES ASSUME Behind PROVE EventsNext' /\ loop' # "walk"
    BY <2>1 DEF BehindInv, Behind, Ended
  <2>3. Head(pending) \in SetOf(pending)
    BY <1>0, <2>1, SetOfHead
  <2>4. EventFirst(pending) => Head(pending) # "close"
    BY <1>0, FirstNotClose
  <2>5. Head(pending) = "event"
    BY <2>1, <2>2, <2>3, <2>4 DEF BehindInv, EventsNext
  <2>6. handle["event"] = "open"
    BY <1>0, <1>1, <2>2
  <2>7. loop' = "lock"
    BY <2>1, <2>5, <2>6 DEF WakeupOfOpen, WakeupOfClosing
  <2> QED
    BY <2>7 DEF EventsNext
<1>5. CASE ProcessCompletion
  <2>1. /\ pending # <<>> /\ pending' = Tail(pending) /\ Head(pending) \in Users
        /\ handle' = handle /\ loop' = loop
    BY <1>5 DEF ProcessCompletion
  <2>2. /\ handled' = handled /\ mark' = mark
        /\ iocp' = iocp \/ SendAsync("event")
    BY <1>5
    DEF ProcessCompletion, CallbackReturns, CallbackPushes, CompletionOfClosing
  <2>3. EventFirst(iocp) => EventFirst(iocp')
    BY <1>0, <2>2, SendKeeps
  <2>4. EventFirst(pending) => EventFirst(pending')
    BY <1>0, <2>1, FirstTail, NamesAssumption
  <2>5. SetOf(pending') \subseteq SetOf(pending)
    BY <1>0, <2>1, SetOfHead
  <2> QED
    BY <2>1, <2>2, <2>3, <2>4, <2>5 DEF BehindInv, Behind, EventsNext, Ended
<1>6. CASE HandleEvent
  <2>1. /\ loop = "drain" /\ loop' = loop /\ handle' = handle /\ mark' = mark
        /\ handled \in Seq(Events) /\ event_queue \in Seq(Events)
        /\ event_queue # <<>> /\ handled' = Append(handled, Head(event_queue))
    BY <1>6 DEF HandleEvent, TypeOK
  <2>2. Len(handled') = Len(handled) + 1 /\ Len(handled) \in Nat
    BY <2>1
  <2>3. mark \in Nat \cup {NoMark}
    BY DEF TypeOK
  <2>4. Behind' => Behind
    BY <2>1, <2>2, <2>3 DEF Behind, NoMark
  <2> QED
    BY <2>1, <2>4 DEF BehindInv, EventsNext, Ended
<1>7. CASE QueueEmpty
  <2>1. Len(event_queue) = 0 /\ handled' = handled /\ mark' = mark
    BY <1>7 DEF QueueEmpty
  <2>2. ~Behind
    BY <2>1, OutFits DEF Behind, MarkInv
  <2> QED
    BY <2>1, <2>2 DEF BehindInv, Behind
<1>8. ASSUME NEW h \in Handles, WalkCloses(h) \/ Endgame(h) PROVE BehindInv'
  <2>1. ~Behind
    BY <1>8 DEF WalkCloses, Endgame, BehindInv, EndedInv
  <2> QED
    BY <1>8, <2>1 DEF WalkCloses, Endgame, BehindInv, Behind
<1>9. CASE Poll
  <2>1. /\ pending = <<>> /\ pending' = iocp /\ loop = "poll" /\ loop' = "endgames"
        /\ handle' = handle /\ handled' = handled /\ mark' = mark
    BY <1>9 DEF Poll, PollInv
  <2>2. ~EventFirst(pending)
    BY <1>0, <2>1, FirstNotClose
  <2>3. EventsNext => EventsNext'
    BY <2>1, <2>2 DEF EventsNext
  <2> QED
    BY <2>1, <2>3 DEF BehindInv, Behind, Ended
<1>10. ASSUME NEW u \in Users, Complete(u) PROVE BehindInv'
  <2>1. /\ iocp' = Append(iocp, u) /\ u \in Handles /\ pending' = pending
        /\ handle' = handle /\ loop' = loop /\ handled' = handled /\ mark' = mark
    BY <1>10 DEF Complete, Handles
  <2>2. EventFirst(iocp) => EventFirst(iocp')
    BY <1>0, <2>1, FirstAppend
  <2> QED
    BY <2>1, <2>2 DEF BehindInv, Behind, EventsNext, Ended
<1>11. CASE OwnerStep
  <2>1. CASE InitCloseAsync \/ InitEventAsync \/ \E u \in Users : Attach(u)
    <3>1. owner \notin Late /\ handled' = handled /\ mark' = mark
      BY <2>1 DEF InitCloseAsync, InitEventAsync, InitAsync, Attach, Late
    <3> QED
      BY <1>1, <3>1 DEF BehindInv, Behind
  <2>2. CASE StartThread
    BY <1>1, <2>2 DEF StartThread, BehindInv, Behind, Late
  <2>3. CASE StartFails \/ WaitInited \/ Ready \/ OwnerNeedNotClose \/ Join
    BY <2>3 DEF StartFails, WaitInited, Ready, OwnerNeedNotClose, Join, BehindInv,
       Behind, EventsNext, Ended
  <2> QED
    BY <1>11, <2>1, <2>2, <2>3 DEF OwnerStep
<1>12. CASE \/ Destroy \/ UNCHANGED vars
            \/ \E c \in CloseCallers : CloseCheck(c) \/ CloseSet(c)
            \/ \E p \in Producers : PushLocked(p)
  BY <1>12 DEF Destroy, CloseCheck, CloseSet, PushLocked, Enqueue, BehindInv, Behind,
     EventsNext, Ended
<1>13. CASE \/ WorkThread \/ TestAlive \/ ReqsDone \/ LockQueue \/ WalkEnds
            \/ EndgamesDone \/ RunReturns
  BY <1>13 DEF WorkThread, TestAlive, ReqsDone, LockQueue, WalkEnds, EndgamesDone,
     RunReturns, BehindInv, Behind, EventsNext, Ended
<1> QED
  BY <1>2, <1>3, <1>4, <1>5, <1>6, <1>7, <1>8, <1>9, <1>10, <1>11, <1>12, <1>13
  DEF Next, CloseStep, LoopStep

(***************************************************************************)
(* The theorems.                                                           *)
(***************************************************************************)
\* A new looper satisfies the invariant.
LEMMA InitClose == Init => CloseInv
<1> SUFFICES ASSUME Init PROVE CloseInv
  OBVIOUS
<1>1. IInv
  BY InitIInv
<1>2. SetOf(<<>>) = {} /\ OnceIn(<<>>)
  BY DEF SetOf, OnceIn
<1>3. BeginInv /\ CallersInv
  BY DEF Init, BeginInv, CallersInv, Early, Late, Handles
<1>4. WayInv
  BY <1>2 DEF Init, WayInv, WayOf
<1>5. MarkInv /\ CloseWakeInv
  BY <1>2, NamesAssumption DEF Init, MarkInv, CloseWakeInv, WakeupUnderWay, NoMark
<1>6. EndedInv /\ WalkInv
  BY DEF Init, EndedInv, WalkInv, Ended
<1>7. WakeInv /\ BehindInv
  BY NamesAssumption DEF Init, WakeInv, BehindInv, Behind, Out
<1> QED
  BY <1>1, <1>3, <1>4, <1>5, <1>6, <1>7 DEF CloseInv

\* No step of any thread breaks it.
LEMMA NextClose == CloseInv /\ [Next]_vars => CloseInv'
<1> SUFFICES ASSUME CloseInv, [Next]_vars PROVE CloseInv'
  OBVIOUS
<1>1. /\ IInv /\ TypeOK /\ MutexInv /\ SentInv /\ PollInv /\ EarlyInv /\ QueueInv
      /\ BeginInv /\ CallersInv /\ WayInv /\ MarkInv /\ CloseWakeInv /\ EndedInv
      /\ WalkInv /\ WakeInv /\ BehindInv
  BY DEF CloseInv, IInv
<1>2. IInv'
  BY <1>1, NextIInv
<1>3. BeginInv' /\ CallersInv'
  BY <1>1, BeginStep, CallersStep
<1>4. WayInv'
  BY <1>1, WayStep
<1>5. MarkInv' /\ CloseWakeInv'
  BY <1>1, MarkStep, CloseWakeStep
<1>6. EndedInv' /\ WalkInv'
  BY <1>1, EndedStep, WalkStep
<1>7. WakeInv'
  BY <1>1, WakeStep
<1>8. BehindInv'
  BY <1>1, BehindStep
<1> QED
  BY <1>2, <1>3, <1>4, <1>5, <1>6, <1>7, <1>8 DEF CloseInv

\* What the owner, the closers, the wakeups and the walk keep to one another.
THEOREM ClosesInOrder == Spec => []CloseInv
<1> QED
  BY InitClose, NextClose, PTL DEF Spec

\* Whichever threads push and close, and however their wakeups are taken from the
\* port: when the loop starts to close its handles, every event whose PushEvent
\* had returned before Close sent its wakeup has been handled (CLooper::Close,
\* PushEvent, AsyncEvent, AsyncCB).
THEOREM CloseWaitsForEvents == Spec => []CloseComesAfterEvents
<1>1. CloseInv => CloseComesAfterEvents
  <2> SUFFICES ASSUME CloseInv, Ended("close")
               PROVE  mark # NoMark /\ Len(handled) >= mark
    BY DEF CloseComesAfterEvents, Ended
  <2>1. "close" \in Handles
    BY DEF Handles, Async
  <2>2. TypeOK /\ QueueInv /\ MarkInv /\ EndedInv /\ BehindInv
    BY DEF CloseInv, IInv
  <2>3. mark # NoMark /\ ~Behind
    BY <2>1, <2>2 DEF EndedInv, BehindInv
  <2> QED
    BY <2>2, <2>3, OutFits DEF Behind, NoMark
<1> QED
  BY <1>1, ClosesInOrder, PTL

\* A handle's close callback comes when no wakeup and no request of it is under
\* way, also when threads send wakeups to it while it closes (uv_close,
\* uv_async_endgame, uv_async_send).
THEOREM HandlesEndQuietly == Spec => EndsQuietly
<1> DEFINE Quietly ==
      \A h \in Handles :
        handle[h] = "closing" /\ handle'[h] = "closed"
          => ~WakeupUnderWay(h) /\ (h \in Users => io[h] = "idle")
<1>1. ASSUME CloseInv, Next PROVE Quietly
  <2> SUFFICES ASSUME NEW h \in Handles, handle[h] = "closing",
                      handle'[h] = "closed"
               PROVE  ~WakeupUnderWay(h) /\ (h \in Users => io[h] = "idle")
    OBVIOUS
  <2>1. handle \in [Handles -> {"none", "open", "closing", "closed"}]
    BY <1>1 DEF CloseInv, IInv, TypeOK
  <2>2. CASE \E g \in Handles : Endgame(g)
    <3>1. PICK g \in Handles : Endgame(g)
      BY <2>2
    <3>2. g = h /\ Quiet(h)
      BY <2>1, <3>1 DEF Endgame
    <3>3. WayInv
      BY <1>1 DEF CloseInv
    <3>4. CASE h \in Async
      BY <3>2, <3>3, <3>4, NamesAssumption DEF Quiet, WayInv, WayOf, WakeupUnderWay
    <3>5. CASE h \in Users
      BY <3>2, <3>3, <3>5, NamesAssumption DEF Quiet, WayInv, WayOf, WakeupUnderWay
    <3> QED
      BY <3>4, <3>5 DEF Handles
  <2>3. CASE \E g \in Handles : WalkCloses(g)
    BY <2>1, <2>3 DEF WalkCloses
  <2>4. CASE InitCloseAsync \/ InitEventAsync
    BY <2>1, <2>4 DEF InitCloseAsync, InitEventAsync, InitAsync
  <2>5. CASE \E u \in Users : Attach(u)
    BY <2>1, <2>5 DEF Attach
  <2>6. CASE handle' = handle
    BY <2>6
  <2>7. CASE \/ StartThread \/ StartFails \/ WaitInited \/ Ready \/ Join \/ Destroy
             \/ OwnerNeedNotClose
             \/ \E c \in CloseCallers : CloseStep(c)
             \/ \E p \in Producers : PushLocked(p) \/ SendAndUnlock(p)
             \/ \E u \in Users : Complete(u)
    BY <2>6, <2>7
    DEF StartThread, StartFails, WaitInited, Ready, Join, Destroy, OwnerNeedNotClose,
        CloseStep, CloseCheck, CloseSet, CloseSend, PushLocked, SendAndUnlock,
        Complete, loopVars
  <2>8. CASE \/ WorkThread \/ TestAlive \/ ProcessWakeup \/ ProcessCompletion
             \/ ReqsDone \/ LockQueue \/ HandleEvent \/ QueueEmpty \/ WalkEnds
             \/ Poll \/ EndgamesDone \/ RunReturns
    BY <2>6, <2>8
    DEF WorkThread, TestAlive, ProcessWakeup, ProcessCompletion, ReqsDone, LockQueue,
        HandleEvent, QueueEmpty, WalkEnds, Poll, EndgamesDone, RunReturns, loopVars
  <2> QED
    BY <1>1, <2>2, <2>3, <2>4, <2>5, <2>7, <2>8 DEF Next, OwnerStep, LoopStep
<1>2. CloseInv /\ [Next]_vars => [Quietly]_vars
  BY <1>1
<1> QED
  BY <1>2, ClosesInOrder, PTL DEF Spec, EndsQuietly

\* Once the thread is done with the loop, nothing opens or closes any more.
LEMMA EndStep ==
  ASSUME PromptInit, CloseInv, LoopEndsClosed, [Next]_vars
  PROVE  LoopEndsClosed'
<1> USE DEF vars, threads, flagVars, queueVars, loopVars, histories
<1>0. /\ handle \in [Handles -> {"none", "open", "closing", "closed"}]
      /\ BeginInv /\ MarkInv /\ EndedInv /\ WalkInv /\ EarlyInv
  BY DEF CloseInv, IInv, TypeOK
<1> DEFINE Over == loop \in {"returned", "done"}
<1>1. Over => requested /\ owner \in Late /\ \A h \in Handles : handle[h] = "closed"
  BY <1>0 DEF LoopEndsClosed, RunsUntilClosed, ClosedWhenRunReturns, BeginInv
<1>2. CASE TestAlive
  <2>1. loop = "test" /\ handle' = handle /\ requested' = requested
        /\ loop' = (IF Alive THEN "reqs" ELSE "returned")
        /\ owner \notin {"initClose", "initEvent"}
    BY <1>2 DEF TestAlive
  <2>2. SUFFICES ASSUME ~Alive
                 PROVE  requested /\ \A h \in Handles : handle[h] = "closed"
    BY <2>1 DEF LoopEndsClosed, RunsUntilClosed, ClosedWhenRunReturns
  <2>3. owner \notin Early
    BY <1>0, <2>1 DEF EarlyInv, Early
  <2>4. "close" \in Async /\ "close" \in Handles
    BY DEF Async, Handles
  <2>5. handle["close"] \notin {"none", "open"}
    BY <1>0, <2>2, <2>3, <2>4 DEF BeginInv, Alive
  <2>6. Ended("close")
    BY <1>0, <2>4, <2>5 DEF Ended
  <2>7. \A h \in Handles : Ended(h)
    BY <1>0, <2>1, <2>4, <2>6 DEF WalkInv
  <2>8. \A h \in Handles : handle[h] = "closed"
    BY <2>2, <2>7 DEF Alive, Ended
  <2>9. requested
    BY <1>0, <2>4, <2>6 DEF EndedInv, MarkInv
  <2> QED
    BY <2>8, <2>9
<1>3. CASE InitCloseAsync \/ InitEventAsync \/ \E u \in Users : Attach(u)
  <2>1. owner \notin Late /\ loop' = loop
    BY <1>3 DEF InitCloseAsync, InitEventAsync, InitAsync, Attach, Late
  <2> QED
    BY <1>1, <2>1 DEF LoopEndsClosed, RunsUntilClosed, ClosedWhenRunReturns
<1>4. ASSUME NEW h \in Handles, WalkCloses(h) \/ Endgame(h) PROVE LoopEndsClosed'
  BY <1>4 DEF WalkCloses, Endgame, LoopEndsClosed, RunsUntilClosed,
     ClosedWhenRunReturns
<1>5. ASSUME NEW c \in CloseCallers, CloseSet(c) PROVE LoopEndsClosed'
  BY <1>5 DEF CloseSet, LoopEndsClosed, RunsUntilClosed, ClosedWhenRunReturns
<1>6. CASE /\ handle' = handle /\ requested' = requested
           /\ loop' \in {"returned", "done"} => Over
  BY <1>6 DEF LoopEndsClosed, RunsUntilClosed, ClosedWhenRunReturns
<1>7. CASE \/ StartThread \/ StartFails \/ WaitInited \/ Ready \/ Join \/ Destroy
           \/ OwnerNeedNotClose \/ UNCHANGED vars
           \/ \E c \in CloseCallers : CloseCheck(c) \/ CloseSend(c)
           \/ \E p \in Producers : PushLocked(p) \/ SendAndUnlock(p)
           \/ \E u \in Users : Complete(u)
  BY <1>6, <1>7
  DEF StartThread, StartFails, WaitInited, Ready, Join, Destroy, OwnerNeedNotClose,
      CloseCheck, CloseSend, PushLocked, SendAndUnlock, Complete
<1>8. CASE ProcessWakeup
  <2>1. loop = "reqs" /\ handle' = handle /\ requested' = requested
        /\ loop' \in {"reqs", "lock", "walk"}
    BY <1>8 DEF ProcessWakeup, WakeupOfClosing, WakeupOfOpen
  <2> QED
    BY <1>6, <2>1
<1>9. CASE ProcessCompletion
  BY <1>6, <1>9
  DEF ProcessCompletion, CallbackReturns, CallbackPushes, CompletionOfClosing
<1>10. CASE \/ WorkThread \/ ReqsDone \/ LockQueue \/ HandleEvent \/ QueueEmpty
            \/ WalkEnds \/ Poll \/ EndgamesDone \/ RunReturns
  BY <1>6, <1>10
  DEF WorkThread, ReqsDone, LockQueue, HandleEvent, QueueEmpty, WalkEnds, Poll,
      EndgamesDone, RunReturns
<1> QED
  BY <1>2, <1>3, <1>4, <1>5, <1>7, <1>8, <1>9, <1>10
  DEF Next, OwnerStep, CloseStep, LoopStep

\* Taken that the async handles are there before the thread first looks at the
\* loop, uv_run returns only after a Close, and then every handle of the loop is
\* closed: uv_loop_close in ~CLooper finds nothing left.
THEOREM ThreadEndsWithAllClosed ==
  ASSUME PromptInit
  PROVE  Spec => []LoopEndsClosed
<1>1. Init => LoopEndsClosed
  BY DEF Init, LoopEndsClosed, RunsUntilClosed, ClosedWhenRunReturns
<1>2. CloseInv /\ LoopEndsClosed /\ [Next]_vars => LoopEndsClosed'
  BY EndStep
<1> QED
  BY <1>1, <1>2, ClosesInOrder, PTL DEF Spec
=============================================================================
