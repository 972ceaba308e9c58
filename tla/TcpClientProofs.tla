-------------------------- MODULE TcpClientProofs --------------------------
(***************************************************************************)
(* Proofs about TcpClient, for any number of threads, calls and attempts:  *)
(* the client's state agrees with its connection, what is sent has no      *)
(* gaps, the close callback is last, and comes once unless a connect was   *)
(* begun after the close, and a timer that was not closed yet runs out on  *)
(* an attempt under way, with the same exception.  For a client that       *)
(* connects once, also: it is quiet when its looper is gone.               *)
(***************************************************************************)
EXTENDS TcpClient, SequenceTheorems, TLAPS

Callers == {"idle", "SET", "CONNECT", "CLOSE", "SHUTDOWN", "WRITE"}
Evts == [type : Types, n : Nat]

-----------------------------------------------------------------------------
(***************************************************************************)
(* The queue.                                                              *)
(***************************************************************************)
\* PushEvent puts an event behind those queued, which keep their positions.
LEMMA QueueAppend ==
  ASSUME queue \in Seq(Evts), NEW e \in Evts, queue' = Append(queue, e)
  PROVE  /\ queue' \in Seq(Evts) /\ Len(queue) \in Nat
         /\ queue'[Len(queue) + 1] = e /\ Len(queue) + 1 \in 1 .. Len(queue')
         /\ \A i \in 1 .. Len(queue) : i \in 1 .. Len(queue') /\ queue'[i] = queue[i]
         /\ \A i \in 1 .. Len(queue') : i \in 1 .. Len(queue) \/ i = Len(queue) + 1
OBVIOUS

\* DoEvent takes the first event, and the others move up by one position.
LEMMA QueueTail ==
  ASSUME queue \in Seq(Evts), queue # <<>>, queue' = Tail(queue)
  PROVE  /\ queue' \in Seq(Evts)
         /\ 1 \in 1 .. Len(queue) /\ Head(queue) = queue[1] /\ queue[1] \in Evts
         /\ \A i \in 1 .. Len(queue') :
              i \in Nat \ {0} /\ i + 1 \in 1 .. Len(queue) /\ queue'[i] = queue[i + 1]
         /\ \A i \in 1 .. Len(queue) :
              i = 1 \/ (i - 1 \in 1 .. Len(queue') /\ queue'[i - 1] = queue[i])
OBVIOUS

-----------------------------------------------------------------------------
(***************************************************************************)
(* Types.                                                                  *)
(***************************************************************************)
\* Every step keeps the types.
LEMMA TypeStep ==
  ASSUME TypeOK, [Next]_vars
  PROVE  TypeOK'
<1> USE DEF TypeOK, endgame
<1>1. ASSUME NEW t \in Threads, ConnectCheck(t) \/ ConnectSet(t) \/ SendCheck(t)
      PROVE  TypeOK'
  <2>1. CASE ConnectCheck(t)
    BY <2>1 DEF ConnectCheck, MayCall, fields, handles
  <2>2. CASE ConnectSet(t)
    <3>1. pc' \in [Threads -> Callers] /\ status' \in Statuses
      BY <2>2 DEF ConnectSet, Statuses, Callers
    <3>2. wait_closed' \in BOOLEAN /\ UNCHANGED <<looper, queue>>
      BY <2>2 DEF ConnectSet
    <3> QED
      BY <2>2, <3>1, <3>2 DEF ConnectSet, handles, histories, Callers
  <2>3. CASE SendCheck(t)
    BY <2>3 DEF SendCheck, MayCall, fields, handles, histories
  <2> QED
    BY <1>1, <2>1, <2>2, <2>3
<1>2. ASSUME NEW t \in Threads, NEW type \in {"CLOSE", "SHUTDOWN"}, Ask(t, type)
      PROVE  TypeOK'
  BY <1>2 DEF Ask, MayCall, fields, handles, histories
<1>3. ASSUME NEW t \in Threads, Push(t) PROVE TypeOK'
  <2>1. Event(pc[t]) \in Evts
    BY <1>3 DEF Push, Event, Evts, Types
  <2>2. queue' \in Seq(Evts)
    BY <1>3, <2>1, QueueAppend DEF Push, Evts
  <2> QED
    BY <1>3, <2>2 DEF Push, fields, handles, histories, Evts
<1>4. ASSUME NEW t \in Threads, PushWrite(t) PROVE TypeOK'
  <2>1. WriteEvent(accepted') \in Evts /\ accepted' \in Nat
    BY <1>4 DEF PushWrite, WriteEvent, Evts, Types
  <2>2. queue' \in Seq(Evts)
    BY <1>4, <2>1, QueueAppend DEF PushWrite, Evts
  <2> QED
    BY <1>4, <2>1, <2>2 DEF PushWrite, fields, handles, histories, Evts
<1>5. CASE DeleteLooper
  <2>1. Event("LOOPER") \in Evts
    BY DEF Event, Evts, Types
  <2>2. queue' \in Seq(Evts)
    BY <1>5, <2>1, QueueAppend DEF DeleteLooper, Evts
  <2> QED
    BY <1>5, <2>2 DEF DeleteLooper, fields, handles, histories, Evts
<1>6. CASE DoEvent
  <2>1. queue' \in Seq(Evts) /\ queue # <<>> /\ Head(queue) \in Evts
    BY <1>6, QueueTail DEF DoEvent, ConnectStarts, ConnectFailsAtOnce, CloseEvent,
       ShutdownEvent, WriteHandled, WalkCloses, Handle, Evts
  <2>2. CASE ConnectStarts
    <3>1. sock' \in {"bound", "stray"}
      BY <2>2 DEF ConnectStarts, SocketFor
    <3>2. tcp' \in {"open", "closing", "closed"} /\ late' \in BOOLEAN
      BY <2>2 DEF ConnectStarts, RequestOnHandle
    <3>3. surplus' \in Int
      <4>1. PICK up \in {0, 1}, down \in {0, 1} : surplus' = surplus \/ surplus' = surplus + up - down
        BY <2>2 DEF ConnectStarts, RequestOnHandle
      <4> QED
        BY <4>1
    <3> QED
      BY <2>1, <2>2, <3>1, <3>2, <3>3 DEF ConnectStarts, fields, histories, Evts
  <2>3. CASE ConnectFailsAtOnce
    <3>1. sock' = sock \/ sock' \in {"bound", "stray"}
      BY <2>3 DEF ConnectFailsAtOnce, SocketFor
    <3> QED
      BY <2>1, <2>3, <3>1 DEF ConnectFailsAtOnce, fields, handles, histories, Evts
  <2>4. CASE CloseEvent
    <3>1. wait_closed' \in BOOLEAN /\ tcp' \in {"open", "closing", "closed"}
      BY <2>4 DEF CloseEvent, Closeinl, Closed
    <3> QED
      BY <2>1, <2>4, <3>1 DEF CloseEvent, histories, Evts
  <2>5. CASE ShutdownEvent
    <3>1. sock' \in {"fresh", "bound", "connected", "shut", "stray"} /\ shutdown' \in BOOLEAN
      BY <2>5 DEF ShutdownEvent
    <3> QED
      BY <2>1, <2>5, <3>1 DEF ShutdownEvent, fields, histories, Evts
  <2>6. CASE WriteHandled
    <3>0. Head(queue).n \in Nat
      BY <2>1 DEF Evts
    <3>1. writes' \in Nat /\ wire' \in Seq(Nat)
      <4>1. CASE Writable
        <5>1. writes' = writes + 1 /\ wire' = Append(wire, Head(queue).n)
          BY <2>6, <4>1 DEF WriteHandled
        <5> HIDE DEF TypeOK
        <5>2. writes \in Nat /\ wire \in Seq(Nat)
          BY DEF TypeOK
        <5> QED
          BY <3>0, <5>1, <5>2
      <4>2. CASE ~Writable
        BY <2>6, <4>2 DEF WriteHandled
      <4> QED
        BY <4>1, <4>2
    <3> QED
      BY <2>1, <2>6, <3>1 DEF WriteHandled, fields, Evts
  <2>7. CASE WalkCloses
    BY <2>1, <2>7 DEF WalkCloses, Closed, fields, histories, Evts
  <2> QED
    BY <1>6, <2>2, <2>3, <2>4, <2>5, <2>6, <2>7 DEF DoEvent
<1>7. CASE TimerFires
  <2>1. answers' \in Seq(Answers) /\ status' \in Statuses
    BY <1>7 DEF TimerFires, Answers, Statuses
  <2> QED
    BY <1>7, <2>1 DEF TimerFires, Closed
<1>8. CASE AfterConnect
  <2>1. answers' \in Seq(Answers) /\ status' \in Statuses
    <3>1. {"CONNECTED", "CONNECT_ERROR"} \subseteq Answers \cap Statuses
      BY DEF Answers, Statuses
    <3>2. CASE AfterConnectOk
      BY <3>1, <3>2 DEF AfterConnectOk
    <3>3. CASE AfterConnectTimedOut
      BY <3>3 DEF AfterConnectTimedOut
    <3>4. CASE AfterConnectError
      BY <3>1, <3>4 DEF AfterConnectError
    <3> QED
      BY <1>8, <3>2, <3>3, <3>4 DEF AfterConnect
  <2>2. sock' \in {"fresh", "bound", "connected", "shut", "stray"}
    BY <1>8 DEF AfterConnect, AfterConnectOk, AfterConnectTimedOut, AfterConnectError
  <2> QED
    BY <1>8, <2>1, <2>2 DEF AfterConnect, StopTimer, Closed
<1>9. CASE AfterShutDown
  <2>1. wait_closed' \in BOOLEAN /\ tcp' \in {"open", "closing", "closed"}
    BY <1>9 DEF AfterShutDown, Closeinl, Closed
  <2> QED
    BY <1>9, <2>1 DEF AfterShutDown, histories
<1>10. CASE AfterTcpHandleClose \/ AfterTimerHandleClose \/ LoopReturns
  <2>1. CASE AfterTcpHandleClose
    <3>1. status' \in Statuses /\ closes' \in Nat
      BY <2>1 DEF AfterTcpHandleClose, Statuses
    <3>2. tcp' \in {"open", "closing", "closed"} /\ wait_closed' \in BOOLEAN
      BY <2>1 DEF AfterTcpHandleClose
    <3>3. UNCHANGED <<pc, looper, queue, sock, connect, shutdown, writes, timer, armed,
                      late, surplus, attempts, calls, accepted, wire, answers>>
      BY <2>1 DEF AfterTcpHandleClose
    <3> QED
      BY <3>1, <3>2, <3>3
  <2>2. CASE AfterTimerHandleClose
    <3>1. timer' \in {"open", "closing", "closed"} /\ armed' \in BOOLEAN
      BY <2>2 DEF AfterTimerHandleClose
    <3>2. UNCHANGED <<pc, looper, queue, status, wait_closed, tcp, sock, connect, shutdown,
                      writes, late, surplus, attempts, calls, accepted, wire, answers,
                      closes>>
      BY <2>2 DEF AfterTimerHandleClose, fields, histories
    <3> QED
      BY <3>1, <3>2
  <2>3. CASE LoopReturns
    BY <2>3 DEF LoopReturns, fields, handles, histories
  <2> QED
    BY <1>10, <2>1, <2>2, <2>3
<1>11. CASE AfterRecvError \/ AfterSend
  BY <1>11 DEF AfterRecvError, AfterSend, Closed, Statuses, fields, histories
<1>12. CASE ConnectDecided
  BY <1>12 DEF ConnectDecided, fields, histories
<1>13. CASE UNCHANGED vars
  BY <1>13 DEF vars, fields, handles, histories
<1> QED
  BY <1>1, <1>2, <1>3, <1>4, <1>5, <1>6, <1>7, <1>8, <1>9, <1>10, <1>11, <1>12, <1>13
  DEF Next, Call, GoOn, Callback

-----------------------------------------------------------------------------
(***************************************************************************)
(* The handle, its socket and its requests.                                *)
(***************************************************************************)
\* A connect request is out only before the connection, and the client says it
\* is connected only after it.
SockInv ==
  /\ connect # "none" => sock \in {"bound", "stray"}
  /\ sock = "stray" => tcp # "open"
  /\ status = "CONNECTED" => sock \in {"connected", "shut"}

HandleInv == SockInv /\ ConnectedMeansOpen /\ ClosedOnce

\* Steps that touch neither the connection nor what the client says of it.
LEMMA HandleSame ==
  ASSUME HandleInv,
         UNCHANGED <<fields, tcp, sock, connect, shutdown, writes, late, closes>>,
         looper' \in {"running", "closing"} => looper \in {"running", "closing"}
  PROVE  HandleInv'
BY DEF HandleInv, SockInv, ConnectedMeansOpen, ClosedOnce, fields

\* closeinl may close the handle, and says so.
LEMMA HandleCloseinl ==
  ASSUME HandleInv, TypeOK, Closeinl, shutdown' => shutdown,
         UNCHANGED <<looper, status, sock, connect, writes, late, closes>>
  PROVE  HandleInv'
<1>1. CASE status \in Up /\ ~wait_closed
  <2>1. /\ wait_closed' = TRUE /\ (tcp' = "closed" <=> tcp = "closed")
        /\ tcp' = "open" => tcp = "open"
    BY <1>1 DEF Closeinl, Closed, TypeOK
  <2> QED
    BY <2>1 DEF HandleInv, SockInv, ConnectedMeansOpen, ClosedOnce
<1>2. CASE ~(status \in Up /\ ~wait_closed)
  <2>1. UNCHANGED <<wait_closed, tcp>>
    BY <1>2 DEF Closeinl
  <2> QED
    BY <2>1 DEF HandleInv, SockInv, ConnectedMeansOpen, ClosedOnce
<1> QED
  BY <1>1, <1>2

\* Every step keeps them in agreement.
LEMMA HandleStep ==
  ASSUME TypeOK, HandleInv, [Next]_vars
  PROVE  HandleInv'
<1> USE DEF TypeOK, endgame
<1>1. ASSUME NEW t \in Threads, Call(t) \/ GoOn(t) PROVE HandleInv'
  <2>1. CASE ConnectSet(t)
    BY <2>1 DEF ConnectSet, HandleInv, SockInv, ConnectedMeansOpen, ClosedOnce, handles,
       histories
  <2>2. CASE ~ConnectSet(t)
    <3>1. UNCHANGED <<looper, fields, tcp, sock, connect, shutdown, writes, late, closes>>
      BY <1>1, <2>2 DEF Call, GoOn, ConnectCheck, SendCheck, Ask, Push, PushWrite, fields,
         handles, histories
    <3> QED
      BY <3>1, HandleSame
  <2> QED
    BY <2>1, <2>2
<1>2. CASE DeleteLooper \/ AfterTimerHandleClose \/ LoopReturns
  <2>1. UNCHANGED <<fields, tcp, sock, connect, shutdown, writes, late, closes>>
    BY <1>2 DEF DeleteLooper, AfterTimerHandleClose, LoopReturns, handles, histories
  <2>2. looper' \in {"running", "closing"} => looper \in {"running", "closing"}
    BY <1>2 DEF DeleteLooper, AfterTimerHandleClose, LoopReturns
  <2> QED
    BY <2>1, <2>2, HandleSame
<1>16. CASE ConnectFailsAtOnce
  <2>1. UNCHANGED <<looper, fields, tcp, connect, shutdown, writes, late, closes>>
    BY <1>16 DEF ConnectFailsAtOnce, histories
  <2>2. \/ sock' = sock
        \/ /\ connect = "none" /\ sock \in {"fresh", "bound", "stray"}
           /\ sock' = (IF tcp = "open" THEN "bound" ELSE "stray")
    BY <1>16 DEF ConnectFailsAtOnce, CanConnect, SocketFor
  <2> QED
    BY <2>1, <2>2 DEF HandleInv, SockInv, ConnectedMeansOpen, ClosedOnce, fields
<1>3. CASE ConnectStarts
  <2>1. /\ UNCHANGED <<looper, fields, shutdown, writes, closes>>
        /\ sock \in {"fresh", "bound", "stray"} /\ connect' = "pending"
    BY <1>3 DEF ConnectStarts, CanConnect, histories
  <2>2. \/ tcp = "open" /\ tcp' = tcp /\ late' = late /\ sock' = "bound"
        \/ tcp # "open" /\ tcp' = "closing" /\ late' /\ sock' = "stray"
    BY <1>3 DEF ConnectStarts, SocketFor, RequestOnHandle
  <2> QED
    BY <2>1, <2>2 DEF HandleInv, SockInv, ConnectedMeansOpen, ClosedOnce, fields
<1>4. CASE CloseEvent
  BY <1>4, HandleCloseinl DEF CloseEvent, histories
<1>5. CASE ShutdownEvent
  BY <1>5 DEF ShutdownEvent, Writable, HandleInv, SockInv, ConnectedMeansOpen, ClosedOnce,
     fields, histories
<1>6. CASE WriteHandled
  <2>1. /\ UNCHANGED <<looper, fields, tcp, sock, connect, shutdown, late, closes>>
        /\ writes' = writes \/ tcp = "open"
    BY <1>6 DEF WriteHandled, Writable
  <2> QED
    BY <2>1 DEF HandleInv, SockInv, ConnectedMeansOpen, ClosedOnce, fields
<1>7. CASE WalkCloses
  BY <1>7 DEF WalkCloses, Closed, HandleInv, SockInv, ConnectedMeansOpen, ClosedOnce,
     fields, histories
<1>8. CASE TimerFires
  BY <1>8 DEF TimerFires, Closed, HandleInv, SockInv, ConnectedMeansOpen, ClosedOnce
<1>9. CASE AfterConnect
  <2>1. /\ UNCHANGED <<looper, wait_closed, tcp, shutdown, writes, late, closes>>
        /\ connect' = "none" /\ connect # "none"
    BY <1>9 DEF AfterConnect
  <2>2. CASE AfterConnectOk
    BY <2>1, <2>2 DEF AfterConnectOk, ConnectStatus, HandleInv, SockInv,
       ConnectedMeansOpen, ClosedOnce
  <2>3. CASE AfterConnectTimedOut \/ AfterConnectError
    BY <2>1, <2>3 DEF AfterConnectTimedOut, AfterConnectError, HandleInv, SockInv,
       ConnectedMeansOpen, ClosedOnce
  <2> QED
    BY <1>9, <2>2, <2>3 DEF AfterConnect
<1>10. CASE AfterShutDown
  BY <1>10, HandleCloseinl DEF AfterShutDown, histories
<1>11. CASE AfterTcpHandleClose
  BY <1>11 DEF AfterTcpHandleClose, TcpEnds, HandleInv, SockInv, ConnectedMeansOpen,
     ClosedOnce
<1>12. CASE AfterRecvError
  BY <1>12 DEF AfterRecvError, Closed, HandleInv, SockInv, ConnectedMeansOpen, ClosedOnce,
     histories
<1>13. CASE AfterSend
  BY <1>13 DEF AfterSend, HandleInv, SockInv, ConnectedMeansOpen, ClosedOnce, fields,
     histories
<1>14. CASE ConnectDecided
  <2>1. /\ connect = "pending" /\ connect' \in {"ok", "refused", "canceled"}
        /\ UNCHANGED <<looper, fields, tcp, sock, shutdown, writes, late, closes>>
    BY <1>14 DEF ConnectDecided, histories
  <2> QED
    BY <2>1 DEF HandleInv, SockInv, ConnectedMeansOpen, ClosedOnce, fields
<1>15. CASE UNCHANGED vars
  BY <1>15, HandleSame DEF vars, handles, histories
<1> QED
  BY <1>1, <1>2, <1>3, <1>4, <1>5, <1>6, <1>7, <1>8, <1>9, <1>10, <1>11, <1>12, <1>13,
     <1>14, <1>15, <1>16
  DEF Next, DoEvent, Callback

-----------------------------------------------------------------------------
(***************************************************************************)
(* The data.                                                               *)
(***************************************************************************)
\* Position i of the queue holds a write.
WriteAt(i) == queue[i].type = "WRITE"

\* Nothing is sent before the connection; the writes queued are in order and
\* later than those sent; and while the socket is writable none is missing.
NothingBefore ==
  sock \in {"fresh", "bound", "stray"} => accepted = 0 /\ \A t \in Threads : pc[t] # "WRITE"

WritesInOrder ==
  /\ \A i \in 1 .. Len(queue) :
       WriteAt(i) => Len(wire) < queue[i].n /\ queue[i].n <= accepted
  /\ \A i, j \in 1 .. Len(queue) :
       WriteAt(i) /\ WriteAt(j) /\ i < j => queue[i].n < queue[j].n

NoneMissing ==
  Writable => \A n \in Len(wire) + 1 .. accepted :
                \E i \in 1 .. Len(queue) : WriteAt(i) /\ queue[i].n = n

WriteCount == Len(wire) <= accepted

WriteInv == NothingBefore /\ WriteCount /\ WritesInOrder /\ NoneMissing /\ NoGapInData

\* Every event but a write leaves the writes queued as they were.
LEMMA OtherAppended ==
  ASSUME TypeOK, WriteInv, NEW e \in Evts, e.type # "WRITE",
         queue' = Append(queue, e), UNCHANGED <<tcp, sock, accepted, wire>>,
         \A t \in Threads : pc'[t] = "WRITE" => pc[t] = "WRITE"
  PROVE  WriteInv'
<1>1. queue \in Seq(Evts) /\ accepted \in Nat /\ wire \in Seq(Nat)
  BY DEF TypeOK, Evts
<1>2. /\ Len(queue) \in Nat /\ queue'[Len(queue) + 1] = e
      /\ \A i \in 1 .. Len(queue) : i \in 1 .. Len(queue') /\ queue'[i] = queue[i]
      /\ \A i \in 1 .. Len(queue') : i \in 1 .. Len(queue) \/ i = Len(queue) + 1
  BY <1>1, QueueAppend
<1>3. \A i \in 1 .. Len(queue') :
        WriteAt(i)' => i \in 1 .. Len(queue) /\ WriteAt(i) /\ queue'[i] = queue[i]
  BY <1>2 DEF WriteAt
<1>4. \A i \in 1 .. Len(queue) : WriteAt(i) => i \in 1 .. Len(queue') /\ WriteAt(i)'
  BY <1>2 DEF WriteAt
<1>5. NothingBefore' /\ NoGapInData' /\ WriteCount'
  BY DEF WriteInv, NothingBefore, NoGapInData, WriteCount
<1>6. WritesInOrder'
  BY <1>3 DEF WriteInv, WritesInOrder
<1>7. NoneMissing'
  BY <1>2, <1>4 DEF WriteInv, NoneMissing, Writable
<1> QED
  BY <1>5, <1>6, <1>7 DEF WriteInv

\* Nor does taking an event that is not a write; and what is not writable stays
\* so, but for a new connection, when nothing was accepted yet.
LEMMA OtherTaken ==
  ASSUME TypeOK, WriteInv, queue # <<>>, Head(queue).type # "WRITE",
         queue' = Tail(queue), Writable' => Writable, NothingBefore',
         UNCHANGED <<accepted, wire>>
  PROVE  WriteInv'
<1>1. queue \in Seq(Evts) /\ accepted \in Nat /\ wire \in Seq(Nat)
  BY DEF TypeOK, Evts
<1>2. /\ 1 \in 1 .. Len(queue) /\ ~WriteAt(1)
      /\ \A i \in 1 .. Len(queue') :
           i \in Nat \ {0} /\ i + 1 \in 1 .. Len(queue) /\ queue'[i] = queue[i + 1]
      /\ \A i \in 1 .. Len(queue) :
           i = 1 \/ (i - 1 \in 1 .. Len(queue') /\ queue'[i - 1] = queue[i])
  BY <1>1, QueueTail DEF WriteAt
<1>3. WritesInOrder'
  <2>1. \A i \in 1 .. Len(queue') : WriteAt(i)' => WriteAt(i + 1)
    BY <1>2 DEF WriteAt
  <2> QED
    BY <1>2, <2>1 DEF WriteInv, WritesInOrder
<1>4. NoneMissing'
  <2>1. \A i \in 1 .. Len(queue) :
          WriteAt(i) => i - 1 \in 1 .. Len(queue') /\ WriteAt(i - 1)'
                          /\ queue'[i - 1].n = queue[i].n
    BY <1>2 DEF WriteAt
  <2> QED
    BY <2>1 DEF WriteInv, NoneMissing
<1>5. NoGapInData' /\ WriteCount'
  BY DEF WriteInv, NoGapInData, WriteCount
<1> QED
  BY <1>3, <1>4, <1>5 DEF WriteInv

\* Steps that leave queue and data alone.
LEMMA WritesSame ==
  ASSUME WriteInv, Writable' => Writable, NothingBefore', UNCHANGED <<queue, accepted, wire>>
  PROVE  WriteInv'
BY DEF WriteInv, WritesInOrder, NoneMissing, NoGapInData, WriteAt, WriteCount

\* Every step keeps what is sent, queued and accepted in order and complete.
LEMMA WriteStep ==
  ASSUME TypeOK, HandleInv, WriteInv, [Next]_vars
  PROVE  WriteInv'
<1>1. queue \in Seq(Evts) /\ accepted \in Nat /\ wire \in Seq(Nat)
  BY DEF TypeOK, Evts
<1>0. \A i \in 1 .. Len(queue) : queue[i].n \in Nat
  <2>1. \A i \in 1 .. Len(queue) : queue[i] \in Evts
    BY <1>1
  <2> QED
    BY <2>1 DEF Evts
<1>2. ASSUME NEW t \in Threads, Call(t) \/ ConnectSet(t) PROVE WriteInv'
  <2>1. /\ UNCHANGED <<queue, tcp, sock, accepted, wire>>
        /\ \E next : pc' = [pc EXCEPT ![t] = next] /\ (next = "WRITE" => SendCheck(t))
    BY <1>2 DEF Call, ConnectCheck, ConnectSet, SendCheck, Ask, handles, histories
  <2>2. SendCheck(t) => sock \notin {"fresh", "bound", "stray"}
    BY DEF SendCheck, SendAllowed, HandleInv, SockInv
  <2>3. NothingBefore'
    BY <2>1, <2>2 DEF WriteInv, NothingBefore, TypeOK
  <2> QED
    BY <2>1, <2>3, WritesSame DEF Writable
<1>3. ASSUME NEW t \in Threads, Push(t) PROVE WriteInv'
  <2>1. /\ Event(pc[t]) \in Evts /\ Event(pc[t]).type # "WRITE"
        /\ queue' = Append(queue, Event(pc[t]))
        /\ \A u \in Threads : pc'[u] = "WRITE" => pc[u] = "WRITE"
        /\ UNCHANGED <<tcp, sock, accepted, wire>>
    BY <1>3 DEF Push, Event, Evts, Types, handles, histories, TypeOK
  <2> QED
    BY <2>1, OtherAppended
<1>4. ASSUME NEW t \in Threads, PushWrite(t) PROVE WriteInv'
  <2>0. PICK e : e = WriteEvent(accepted + 1)
    OBVIOUS
  <2>1. /\ e \in Evts /\ e.type = "WRITE" /\ e.n = accepted + 1
        /\ accepted' = accepted + 1 /\ queue' = Append(queue, e)
        /\ UNCHANGED <<tcp, sock, wire>>
    BY <1>1, <1>4, <2>0 DEF PushWrite, WriteEvent, Evts, Types, handles
  <2>2. sock \notin {"fresh", "bound", "stray"}
    BY <1>4 DEF PushWrite, WriteInv, NothingBefore
  <2>3. /\ Len(queue) \in Nat /\ queue'[Len(queue) + 1] = e
        /\ Len(queue) + 1 \in 1 .. Len(queue')
        /\ \A i \in 1 .. Len(queue) : i \in 1 .. Len(queue') /\ queue'[i] = queue[i]
        /\ \A i \in 1 .. Len(queue') : i \in 1 .. Len(queue) \/ i = Len(queue) + 1
    BY <1>1, <2>1, QueueAppend
  <2>4. \A i \in 1 .. Len(queue') :
          WriteAt(i)' => \/ i \in 1 .. Len(queue) /\ WriteAt(i) /\ queue'[i] = queue[i]
                         \/ i = Len(queue) + 1
    BY <2>3 DEF WriteAt
  <2>5. WritesInOrder'
    <3>1. Len(wire) \in Nat /\ Len(wire) <= accepted
      BY <1>1, <1>4 DEF WriteInv, WriteCount
    <3>2. ASSUME NEW i \in 1 .. Len(queue'), WriteAt(i)'
          PROVE  Len(wire) < queue'[i].n /\ queue'[i].n <= accepted + 1
      <4>1. CASE i = Len(queue) + 1
        BY <1>1, <2>1, <2>3, <3>1, <4>1
      <4>2. CASE i \in 1 .. Len(queue) /\ WriteAt(i)
        <5>1. Len(wire) < queue[i].n /\ queue[i].n <= accepted /\ queue[i].n \in Nat
          BY <1>0, <4>2 DEF WriteInv, WritesInOrder
        <5> QED
          BY <1>1, <2>3, <3>1, <4>2, <5>1
      <4> QED
        BY <2>4, <3>2, <4>1, <4>2
    <3>3. ASSUME NEW i \in 1 .. Len(queue'), NEW j \in 1 .. Len(queue'), WriteAt(i)',
                 WriteAt(j)', i < j
          PROVE  queue'[i].n < queue'[j].n
      <4>1. i \in 1 .. Len(queue) /\ WriteAt(i) /\ queue'[i] = queue[i]
        BY <2>3, <2>4, <3>3
      <4>2. CASE j = Len(queue) + 1
        <5>1. queue[i].n <= accepted /\ queue[i].n \in Nat
          BY <1>0, <4>1 DEF WriteInv, WritesInOrder
        <5> QED
          BY <1>1, <2>1, <2>3, <4>1, <4>2, <5>1
      <4>3. CASE j \in 1 .. Len(queue) /\ WriteAt(j)
        <5>1. queue[i].n < queue[j].n
          BY <3>3, <4>1, <4>3 DEF WriteInv, WritesInOrder
        <5> QED
          BY <2>3, <4>1, <4>3, <5>1
      <4> QED
        BY <2>4, <3>3, <4>2, <4>3
    <3> QED
      BY <2>1, <3>2, <3>3 DEF WritesInOrder
  <2>6. NoneMissing'
    <3> SUFFICES ASSUME Writable, NEW n \in Len(wire) + 1 .. accepted + 1
                 PROVE  \E i \in 1 .. Len(queue') : WriteAt(i)' /\ queue'[i].n = n
      BY <2>1 DEF NoneMissing, Writable
    <3>1. CASE n = accepted + 1
      BY <2>1, <2>3, <3>1 DEF WriteAt
    <3>2. CASE n # accepted + 1
      <4>1. n \in Len(wire) + 1 .. accepted
        BY <1>1, <3>2
      <4>2. PICK i \in 1 .. Len(queue) : WriteAt(i) /\ queue[i].n = n
        BY <4>1 DEF WriteInv, NoneMissing
      <4> QED
        BY <2>3, <4>2 DEF WriteAt
    <3> QED
      BY <3>1, <3>2
  <2> QED
    BY <1>1, <2>1, <2>2, <2>5, <2>6 DEF WriteInv, NothingBefore, NoGapInData, WriteCount
<1>5. CASE DeleteLooper
  <2>1. /\ Event("LOOPER") \in Evts /\ Event("LOOPER").type # "WRITE"
        /\ queue' = Append(queue, Event("LOOPER"))
        /\ UNCHANGED <<pc, tcp, sock, accepted, wire>>
    BY <1>5 DEF DeleteLooper, Event, Evts, Types, handles, histories
  <2> QED
    BY <2>1, OtherAppended
<1>6. CASE WriteHandled
  <2>1. /\ queue # <<>> /\ Head(queue).type = "WRITE" /\ queue' = Tail(queue)
        /\ UNCHANGED <<pc, tcp, sock, accepted>>
        /\ IF Writable THEN wire' = Append(wire, Head(queue).n) ELSE wire' = wire
    BY <1>6 DEF WriteHandled, Handle
  <2>2. /\ 1 \in 1 .. Len(queue) /\ Head(queue) = queue[1] /\ WriteAt(1)
        /\ \A i \in 1 .. Len(queue') :
             i \in Nat \ {0} /\ i + 1 \in 1 .. Len(queue) /\ queue'[i] = queue[i + 1]
        /\ \A i \in 1 .. Len(queue) :
             i = 1 \/ (i - 1 \in 1 .. Len(queue') /\ queue'[i - 1] = queue[i])
    BY <1>1, <2>1, QueueTail DEF WriteAt
  <2>4. /\ Len(wire) \in Nat /\ Len(wire) < queue[1].n /\ queue[1].n <= accepted
    BY <1>1, <2>2 DEF WriteInv, WritesInOrder
  <2>5. \A i \in 1 .. Len(queue') :
          WriteAt(i)' => WriteAt(i + 1) /\ queue[1].n < queue[i + 1].n
    BY <2>2 DEF WriteAt, WriteInv, WritesInOrder
  <2>6. \A i, j \in 1 .. Len(queue') :
          WriteAt(i)' /\ WriteAt(j)' /\ i < j => queue'[i].n < queue'[j].n
    BY <2>2, <2>5 DEF WriteInv, WritesInOrder
  <2>7. NothingBefore'
    BY <2>1 DEF WriteInv, NothingBefore
  <2>8. CASE ~Writable
    <3>1. wire' = wire /\ ~Writable'
      BY <2>1, <2>8 DEF Writable
    <3>2. WritesInOrder'
      BY <2>1, <2>2, <2>5, <2>6, <3>1 DEF WriteInv, WritesInOrder
    <3> QED
      BY <2>1, <2>7, <3>1, <3>2 DEF WriteInv, NoneMissing, NoGapInData, WriteCount
  <2>9. CASE Writable
    <3>1. queue[1].n = Len(wire) + 1
      <4>0. Len(wire) + 1 \in Len(wire) + 1 .. accepted
        BY <1>0, <1>1, <2>2, <2>4
      <4>1. PICK i \in 1 .. Len(queue) : WriteAt(i) /\ queue[i].n = Len(wire) + 1
        BY <1>1, <2>4, <2>9, <4>0 DEF WriteInv, NoneMissing
      <4>2. i # 1 => queue[1].n < queue[i].n
        BY <2>2, <4>1 DEF WriteInv, WritesInOrder
      <4> QED
        BY <1>0, <2>2, <2>4, <4>1, <4>2
    <3>2. wire' = Append(wire, Len(wire) + 1)
      BY <2>1, <2>2, <2>9, <3>1
    <3>3. Len(wire') = Len(wire) + 1 /\ NoGapInData'
      BY <1>1, <3>2 DEF WriteInv, NoGapInData
    <3>4. WritesInOrder'
      BY <1>0, <2>1, <2>2, <2>4, <2>5, <2>6, <3>1, <3>3 DEF WriteInv, WritesInOrder
    <3>5. NoneMissing'
      <4> SUFFICES ASSUME NEW n \in Len(wire) + 2 .. accepted
                   PROVE  \E i \in 1 .. Len(queue') : WriteAt(i)' /\ queue'[i].n = n
        <5>1. accepted' = accepted /\ Len(wire') + 1 = Len(wire) + 2
          BY <1>1, <2>1, <3>3
        <5> QED
          BY <5>1 DEF NoneMissing
      <4>1. PICK i \in 1 .. Len(queue) : WriteAt(i) /\ queue[i].n = n
        BY <1>1, <2>9 DEF WriteInv, NoneMissing
      <4>2. i # 1
        BY <2>4, <3>1, <4>1
      <4> QED
        BY <2>2, <4>1, <4>2 DEF WriteAt
    <3> QED
      BY <2>1, <2>4, <2>7, <3>1, <3>3, <3>4, <3>5 DEF WriteInv, WriteCount
  <2> QED
    BY <2>8, <2>9
<1>7. CASE DoEvent /\ ~WriteHandled
  <2>1. /\ queue # <<>> /\ Head(queue).type # "WRITE" /\ queue' = Tail(queue)
        /\ UNCHANGED <<pc, accepted, wire>>
    BY <1>7 DEF DoEvent, ConnectStarts, ConnectFailsAtOnce, CloseEvent, ShutdownEvent,
       WalkCloses, Handle, histories
  <2>2. /\ Writable' => Writable
        /\ sock' \in {"fresh", "bound", "stray"} => sock \in {"fresh", "bound", "stray"}
    <3>1. CASE ConnectStarts \/ ConnectFailsAtOnce
      <4>1. /\ tcp' = "open" => tcp = "open"
            /\ \/ sock' = sock
               \/ sock' \in {"bound", "stray"} /\ sock \in {"fresh", "bound", "stray"}
        BY <3>1 DEF ConnectStarts, ConnectFailsAtOnce, CanConnect, SocketFor,
           RequestOnHandle
      <4> QED
        BY <4>1 DEF Writable
    <3>2. CASE CloseEvent \/ ShutdownEvent \/ WalkCloses
      BY <3>2 DEF CloseEvent, ShutdownEvent, WalkCloses, Closeinl, Closed, Writable, TypeOK
    <3> QED
      BY <1>7, <3>1, <3>2 DEF DoEvent
  <2>3. NothingBefore'
    BY <2>1, <2>2 DEF WriteInv, NothingBefore
  <2> QED
    BY <2>1, <2>2, <2>3, OtherTaken
<1>8. CASE AfterConnect
  <2>1. UNCHANGED <<pc, queue, accepted, wire, tcp>> /\ connect # "none"
    BY <1>8 DEF AfterConnect
  <2>2. sock \in {"bound", "stray"} /\ accepted = 0
    BY <2>1 DEF HandleInv, SockInv, WriteInv, NothingBefore
  <2>3. NothingBefore'
    BY <2>1, <2>2 DEF WriteInv, NothingBefore
  <2> QED
    BY <1>1, <2>1, <2>2, <2>3
    DEF WriteInv, WritesInOrder, NoneMissing, NoGapInData, WriteAt, WriteCount
<1>9. CASE (Callback /\ ~AfterConnect) \/ AfterRecvError \/ AfterSend \/ ConnectDecided
             \/ UNCHANGED vars
  <2>1. /\ UNCHANGED <<pc, queue, sock, accepted, wire>>
        /\ Writable' => Writable
    BY <1>9 DEF Callback, TimerFires, AfterShutDown, AfterTcpHandleClose,
       AfterTimerHandleClose, LoopReturns, AfterRecvError, AfterSend, ConnectDecided,
       Closeinl, Closed, Writable, handles, histories, vars, TypeOK
  <2>2. NothingBefore'
    BY <2>1 DEF WriteInv, NothingBefore
  <2> QED
    BY <2>1, <2>2, WritesSame
<1> QED
  BY <1>2, <1>3, <1>4, <1>5, <1>6, <1>7, <1>8, <1>9 DEF Next, GoOn

-----------------------------------------------------------------------------
(***************************************************************************)
(* What holds however often the client connects.                           *)
(***************************************************************************)
IInv == TypeOK /\ HandleInv /\ WriteInv

\* IInv is an inductive invariant.
THEOREM Inductive == Spec => []IInv
<1>1. Init => IInv
  <2> SUFFICES ASSUME Init PROVE IInv
    OBVIOUS
  <2>1. queue \in Seq([type : Types, n : Nat]) /\ wire \in Seq(Nat) /\ answers \in Seq(Answers)
    BY DEF Init
  <2>2. TypeOK
    <3>1. pc \in [Threads -> Callers] /\ status \in Statuses
      BY DEF Init, Callers, Statuses
    <3>2. closes \in Nat /\ surplus \in Int /\ writes \in Nat
      BY DEF Init
    <3> QED
      BY <2>1, <3>1, <3>2 DEF Init, TypeOK, Callers
  <2>3. HandleInv
    BY DEF Init, HandleInv, SockInv, ConnectedMeansOpen, ClosedOnce
  <2>4. WriteInv
    BY DEF Init, WriteInv, NothingBefore, WriteCount, WritesInOrder, NoneMissing,
       NoGapInData, Writable
  <2> QED
    BY <2>2, <2>3, <2>4 DEF IInv
<1>2. IInv /\ [Next]_vars => IInv'
  BY TypeStep, HandleStep, WriteStep DEF IInv
<1> QED
  BY <1>1, <1>2, PTL DEF Spec

\* While the client says it is connected, and is not closing, its connection is
\* open (_connect_status against tcphandle).
THEOREM StatusAgrees == Spec => []ClientInv
<1>1. IInv => ClientInv
  BY DEF IInv, HandleInv, ClientInv
<1> QED
  BY <1>1, Inductive, PTL

\* What Send accepted reaches uv_write in order and without gaps, whichever
\* threads call it and whenever the connection ends.
THEOREM DataHasNoGaps == Spec => []NoGapInData
<1>1. IInv => NoGapInData
  BY DEF IInv, WriteInv
<1> QED
  BY <1>1, Inductive, PTL

\* When the close callback runs nothing of the handle is under way, and it runs
\* once unless connectinl began a request on the handle after the close
\* (AfterHandleClose and uv_tcp_endgame).
THEOREM CloseIsLast == Spec => []ClosedOnce
<1>1. IInv => ClosedOnce
  BY DEF IInv, HandleInv
<1> QED
  BY <1>1, Inductive, PTL

-----------------------------------------------------------------------------
(***************************************************************************)
(* The connect timer.                                                      *)
(***************************************************************************)
\* A Connect is pushed, or about to be.
Asked ==
  \/ \E t \in Threads : pc[t] = "CONNECT"
  \/ \E i \in 1 .. Len(queue) : queue[i].type = "CONNECT"

\* Until the timer is closed, which the first answer and the walk do, there was no
\* answer: the timer runs only with its request, and the client is connecting from
\* the moment it asks until its handle ends.
TimerInv ==
  timer = "open" =>
    /\ status \in {"NONE", "CONNECTING"}
    /\ sock \in {"fresh", "bound", "stray"}
    /\ armed /\ ~late => connect # "none" /\ status = "CONNECTING"
    /\ Asked /\ tcp # "closed" /\ ~late => status = "CONNECTING"

\* Steps that take no part in an attempt.
LEMMA TimerSame ==
  ASSUME TimerInv, UNCHANGED <<status, sock, connect, timer, armed, late>>,
         Asked' => Asked, tcp = "closed" => tcp' = "closed"
  PROVE  TimerInv'
BY DEF TimerInv

\* Taking an event from the queue asks for nothing, and a connect event was asked
\* for.
LEMMA TakenAsked ==
  ASSUME TypeOK, queue # <<>>, queue' = Tail(queue), pc' = pc
  PROVE  (Asked' => Asked) /\ (Head(queue).type = "CONNECT" => Asked)
<1>1. queue \in Seq(Evts)
  BY DEF TypeOK, Evts
<1>2. /\ 1 \in 1 .. Len(queue) /\ Head(queue) = queue[1]
      /\ \A i \in 1 .. Len(queue') : i + 1 \in 1 .. Len(queue) /\ queue'[i] = queue[i + 1]
  BY <1>1, QueueTail
<1> QED
  BY <1>2 DEF Asked

\* Appending an event asks for nothing unless it is a connect event.
LEMMA AppendedAsked ==
  ASSUME TypeOK, NEW e \in Evts, queue' = Append(queue, e),
         \A t \in Threads : pc'[t] = "CONNECT" => pc[t] = "CONNECT",
         e.type # "CONNECT" \/ Asked
  PROVE  Asked' => Asked
<1>1. queue \in Seq(Evts)
  BY DEF TypeOK, Evts
<1>2. /\ queue'[Len(queue) + 1] = e /\ \A i \in 1 .. Len(queue) : queue'[i] = queue[i]
      /\ \A i \in 1 .. Len(queue') : i \in 1 .. Len(queue) \/ i = Len(queue) + 1
  BY <1>1, QueueAppend
<1> QED
  BY <1>2 DEF Asked

\* Every step keeps the timer and the state in accord.
LEMMA TimerStep ==
  ASSUME TypeOK, HandleInv, TimerInv, [Next]_vars
  PROVE  TimerInv'
<1>1. ASSUME NEW t \in Threads, Call(t) \/ GoOn(t) PROVE TimerInv'
  <2>1. CASE ConnectSet(t)
    BY <2>1 DEF ConnectSet, TimerInv, handles, endgame
  <2>2. CASE ~ConnectSet(t)
    <3>1. UNCHANGED <<status, tcp, sock, connect, timer, armed, late>>
      BY <1>1, <2>2 DEF Call, GoOn, ConnectCheck, SendCheck, Ask, Push, PushWrite, fields,
         handles, endgame
    <3>2. Asked' => Asked
      <4>1. CASE Call(t)
        <5>1. /\ queue' = queue
              /\ \E next : next # "CONNECT" /\ pc' = [pc EXCEPT ![t] = next]
          BY <4>1 DEF Call, ConnectCheck, SendCheck, Ask
        <5> QED
          BY <5>1 DEF Asked, TypeOK
      <4>2. CASE Push(t)
        <5>1. PICK e : e = Event(pc[t])
          OBVIOUS
        <5>2. /\ e \in Evts /\ queue' = Append(queue, e)
              /\ e.type # "CONNECT" \/ Asked
          BY <4>2, <5>1 DEF Push, Event, Evts, Types, Asked
        <5>3. \A u \in Threads : pc'[u] = "CONNECT" => pc[u] = "CONNECT"
          BY <4>2 DEF Push, TypeOK
        <5> QED
          BY <5>2, <5>3, AppendedAsked
      <4>3. CASE PushWrite(t)
        <5>1. PICK e : e = WriteEvent(accepted')
          OBVIOUS
        <5>2. e \in Evts /\ queue' = Append(queue, e) /\ e.type # "CONNECT"
          BY <4>3, <5>1 DEF PushWrite, WriteEvent, Evts, Types, TypeOK
        <5>3. \A u \in Threads : pc'[u] = "CONNECT" => pc[u] = "CONNECT"
          BY <4>3 DEF PushWrite, TypeOK
        <5> QED
          BY <5>2, <5>3, AppendedAsked
      <4> QED
        BY <1>1, <2>2, <4>1, <4>2, <4>3 DEF GoOn
    <3> QED
      BY <3>1, <3>2, TimerSame
  <2> QED
    BY <2>1, <2>2
<1>2. CASE DeleteLooper
  <2>1. PICK e : e = Event("LOOPER")
    OBVIOUS
  <2>2. /\ e \in Evts /\ queue' = Append(queue, e) /\ e.type # "CONNECT" /\ pc' = pc
        /\ UNCHANGED <<status, tcp, sock, connect, timer, armed, late>>
    BY <1>2, <2>1 DEF DeleteLooper, Event, Evts, Types, fields, handles, endgame
  <2> QED
    BY <2>2, AppendedAsked, TimerSame
<1>3. CASE DoEvent
  <2>1. queue # <<>> /\ queue' = Tail(queue) /\ pc' = pc
    BY <1>3 DEF DoEvent, ConnectStarts, ConnectFailsAtOnce, CloseEvent, ShutdownEvent,
       WriteHandled, WalkCloses, Handle
  <2>2. (Asked' => Asked) /\ (Head(queue).type = "CONNECT" => Asked)
    BY <2>1, TakenAsked
  <2>3. CASE ConnectStarts
    <3>1. /\ Asked /\ sock' \in {"bound", "stray"} /\ connect' = "pending"
          /\ UNCHANGED <<status, timer>>
      BY <2>2, <2>3 DEF ConnectStarts, Handle, SocketFor, fields
    <3>2. (tcp = "open" /\ tcp' = tcp /\ late' = late) \/ late'
      BY <2>3 DEF ConnectStarts, RequestOnHandle, endgame
    <3> QED
      BY <3>1, <3>2 DEF TimerInv
  <2>4. CASE ConnectFailsAtOnce
    <3>1. /\ sock' = sock \/ sock' \in {"bound", "stray"}
          /\ UNCHANGED <<status, tcp, connect, timer, armed, late>>
      BY <2>4 DEF ConnectFailsAtOnce, SocketFor, fields, endgame
    <3> QED
      BY <2>2, <3>1 DEF TimerInv
  <2>5. CASE CloseEvent \/ WriteHandled
    <3>1. /\ UNCHANGED <<status, sock, connect, timer, armed, late>>
          /\ tcp = "closed" => tcp' = "closed"
      BY <2>5 DEF CloseEvent, Closeinl, Closed, WriteHandled, fields, endgame
    <3> QED
      BY <2>2, <3>1, TimerSame
  <2>6. CASE ShutdownEvent
    <3>1. /\ UNCHANGED <<status, tcp, connect, timer, armed, late>>
          /\ sock' = sock \/ sock = "connected"
      BY <2>6 DEF ShutdownEvent, Writable, fields, endgame
    <3> QED
      BY <2>2, <3>1 DEF TimerInv
  <2>7. CASE WalkCloses
    BY <2>7 DEF WalkCloses, Closed, TimerInv
  <2> QED
    BY <1>3, <2>3, <2>4, <2>5, <2>6, <2>7 DEF DoEvent
<1>4. CASE TimerFires
  BY <1>4 DEF TimerFires, Closed, TimerInv
<1>5. CASE AfterConnect
  BY <1>5 DEF AfterConnect, StopTimer, Closed, TimerInv
<1>6. CASE AfterTcpHandleClose
  <2>1. /\ UNCHANGED <<sock, connect, timer, armed, late>>
        /\ connect = "none" /\ status' = "NONE" /\ tcp' = "closed"
    BY <1>6 DEF AfterTcpHandleClose, TcpEnds, endgame
  <2> QED
    BY <2>1 DEF TimerInv
<1>7. CASE AfterRecvError
  <2>1. timer' = timer /\ sock \in {"connected", "shut"}
    BY <1>7 DEF AfterRecvError
  <2> QED
    BY <2>1 DEF TimerInv
<1>8. CASE AfterTimerHandleClose
  BY <1>8 DEF AfterTimerHandleClose, TimerInv
<1>9. CASE ConnectDecided
  <2>1. /\ UNCHANGED <<pc, queue, status, tcp, sock, timer, armed, late>>
        /\ connect' # "none"
    BY <1>9 DEF ConnectDecided, fields, endgame
  <2> QED
    BY <2>1 DEF TimerInv, Asked
<1>10. CASE AfterShutDown \/ LoopReturns \/ AfterSend \/ UNCHANGED vars
  <2>1. /\ UNCHANGED <<pc, queue, status, sock, connect, timer, armed, late>>
        /\ tcp = "closed" => tcp' = "closed"
    BY <1>10 DEF AfterShutDown, Closeinl, Closed, LoopReturns, AfterSend, fields, handles,
       endgame, vars
  <2> QED
    BY <2>1, TimerSame DEF Asked
<1> QED
  BY <1>1, <1>2, <1>3, <1>4, <1>5, <1>6, <1>7, <1>8, <1>9, <1>10 DEF Next, Callback

\* Only ConnectTimeOut sets the time-out.
LEMMA TimeOutsFromTimer ==
  ASSUME [Next]_vars, TimesOut
  PROVE  TimerFires
<1>1. status' # status /\ status' = "CONNECT_TIME_OUT"
  BY DEF TimesOut
<1>2. ASSUME NEW t \in Threads, Call(t) \/ GoOn(t) PROVE FALSE
  BY <1>1, <1>2 DEF Call, GoOn, ConnectCheck, SendCheck, Ask, ConnectSet, Push, PushWrite,
     fields
<1>3. ~DoEvent /\ ~DeleteLooper
  BY <1>1 DEF DoEvent, ConnectStarts, ConnectFailsAtOnce, CloseEvent, ShutdownEvent,
     WriteHandled, WalkCloses, DeleteLooper, fields
<1>4. ~AfterConnect
  BY <1>1 DEF AfterConnect, AfterConnectOk, AfterConnectTimedOut, AfterConnectError
<1>5. ~AfterShutDown /\ ~AfterTcpHandleClose /\ ~AfterTimerHandleClose /\ ~LoopReturns
  BY <1>1 DEF AfterShutDown, AfterTcpHandleClose, AfterTimerHandleClose, LoopReturns, fields
<1>6. ~AfterRecvError /\ ~AfterSend /\ ~ConnectDecided /\ ~UNCHANGED vars
  BY <1>1 DEF AfterRecvError, AfterSend, ConnectDecided, vars, fields
<1> QED
  BY <1>2, <1>3, <1>4, <1>5, <1>6 DEF Next, Callback

\* However often and from wherever the client connects, the connect timer never
\* ends a connection that was made, nor an attempt that was closed, before it was
\* closed itself, unless a connect was begun after the close (ConnectTimeOut,
\* TcpClient.cpp:287-304).
THEOREM TimeOutsAreOfAttempts == Spec => TimeOutOnlyWhileConnecting
<1>1. Init => TimerInv
  BY DEF Init, TimerInv, Asked
<1>2. IInv /\ TimerInv /\ [Next]_vars => TimerInv'
  BY TimerStep DEF IInv
<1>3. TimerInv /\ [Next]_vars =>
        [TimesOut /\ timer = "open" /\ ~late => status = "CONNECTING"]_vars
  <2> SUFFICES ASSUME TimerInv, [Next]_vars, TimesOut, timer = "open", ~late
               PROVE  status = "CONNECTING"
    OBVIOUS
  <2>1. armed
    BY TimeOutsFromTimer DEF TimerFires
  <2> QED
    BY <2>1 DEF TimerInv
<1> QED
  BY <1>1, <1>2, <1>3, Inductive, PTL DEF Spec, TimeOutOnlyWhileConnecting

-----------------------------------------------------------------------------
(***************************************************************************)
(* A client whose looper is gone, and one that has connected once at most. *)
(***************************************************************************)
\* Where its only Connect is before it is handled: not called, on its way in a
\* thread, or queued.
AtSet(t) == pc[t] = "SET"
AtConnect(t) == pc[t] = "CONNECT"
ConnectAt(i) == queue[i].type = "CONNECT"

NotSet == attempts = 0 \/ \E t \in Threads : AtSet(t)

\* It is in one of these places only.
OnceOnly ==
  /\ attempts <= 1
  /\ attempts = 0 => /\ \A t \in Threads : ~AtSet(t) /\ ~AtConnect(t)
                     /\ \A i \in 1 .. Len(queue) : ~ConnectAt(i)
  /\ \A t \in Threads : AtSet(t) \/ AtConnect(t) =>
       /\ \A u \in Threads : AtSet(u) \/ AtConnect(u) => u = t
       /\ \A i \in 1 .. Len(queue) : ~ConnectAt(i)
  /\ \A i, j \in 1 .. Len(queue) : ConnectAt(i) /\ ConnectAt(j) => i = j

\* Threads call nothing once the looper is being deleted.
CallersGone ==
  /\ looper # "running" => \A t \in Threads : pc[t] = "idle"
  /\ \A i \in 1 .. Len(queue) : queue[i].type = "LOOPER" => looper # "running"

\* From the walk on no handle is open, and at the end all are closed.
WalkedClosed == looper \in {"walked", "done"} => tcp # "open" /\ timer # "open"

Ended == looper = "done" => tcp = "closed" /\ timer = "closed"

\* Until Connect has set the state nothing has happened to the handle but the walk.
BeforeSet ==
  NotSet =>
    /\ status = "NONE" /\ sock = "fresh" /\ connect = "none" /\ ~armed
    /\ looper \in {"running", "closing"} => tcp = "open"

ClosedIsDown == tcp = "closed" => status \notin Up

\* The places of the Connect after a step that leaves attempts alone, moves no
\* thread to or from Connect and queues no CONNECT.
LEMMA PlacesSame ==
  ASSUME TypeOK, OnceOnly, attempts' = attempts,
         \A t \in Threads : AtSet(t)' = AtSet(t) /\ AtConnect(t)' = AtConnect(t),
         \/ queue' = queue
         \/ queue # <<>> /\ queue' = Tail(queue)
         \/ \E e \in Evts : e.type # "CONNECT" /\ queue' = Append(queue, e)
  PROVE  OnceOnly' /\ (NotSet' <=> NotSet)
<1>1. queue \in Seq(Evts)
  BY DEF TypeOK, Evts
<1>2. NotSet' <=> NotSet
  BY DEF NotSet
<1>3. \E k \in {0, 1} : \A i \in 1 .. Len(queue') : ConnectAt(i)' =>
        i \in Nat /\ i + k \in 1 .. Len(queue) /\ ConnectAt(i + k)
  <2>1. CASE queue' = queue
    <3>1. \A i \in 1 .. Len(queue') : ConnectAt(i)' => i + 0 \in 1 .. Len(queue) /\ ConnectAt(i + 0)
      BY <2>1 DEF ConnectAt
    <3> QED
      BY <3>1
  <2>2. CASE queue # <<>> /\ queue' = Tail(queue)
    <3>1. \A i \in 1 .. Len(queue') : i + 1 \in 1 .. Len(queue) /\ queue'[i] = queue[i + 1]
      BY <1>1, <2>2, QueueTail
    <3> QED
      BY <3>1 DEF ConnectAt
  <2>3. CASE \E e \in Evts : e.type # "CONNECT" /\ queue' = Append(queue, e)
    <3>1. PICK e \in Evts : e.type # "CONNECT" /\ queue' = Append(queue, e)
      BY <2>3
    <3>2. /\ queue'[Len(queue) + 1] = e /\ \A i \in 1 .. Len(queue) : queue'[i] = queue[i]
          /\ \A i \in 1 .. Len(queue') : i \in 1 .. Len(queue) \/ i = Len(queue) + 1
      BY <1>1, <3>1, QueueAppend
    <3>3. \A i \in 1 .. Len(queue') : ConnectAt(i)' => i + 0 \in 1 .. Len(queue) /\ ConnectAt(i + 0)
      BY <3>1, <3>2 DEF ConnectAt
    <3> QED
      BY <3>3
  <2> QED
    BY <2>1, <2>2, <2>3
<1>4. PICK k \in {0, 1} : \A i \in 1 .. Len(queue') : ConnectAt(i)' =>
        i \in Nat /\ i + k \in 1 .. Len(queue) /\ ConnectAt(i + k)
  BY <1>3
<1>5. OnceOnly'
  <2>1. \A i, j \in 1 .. Len(queue') : ConnectAt(i)' /\ ConnectAt(j)' => i = j
    <3> SUFFICES ASSUME NEW i \in 1 .. Len(queue'), NEW j \in 1 .. Len(queue'),
                        ConnectAt(i)', ConnectAt(j)'
                 PROVE  i = j
      OBVIOUS
    <3>1. i + k = j + k
      BY <1>4 DEF OnceOnly
    <3> QED
      BY <1>4, <3>1
  <2> QED
    BY <1>4, <2>1 DEF OnceOnly
<1> QED
  BY <1>2, <1>5

\* A thread begins or goes on with its Connect, or pushes it.
LEMMA PlacesConnect ==
  ASSUME TypeOK, OnceOnly, attempts' <= 1, NEW t \in Threads,
         ConnectCheck(t) \/ ConnectSet(t) \/ (Push(t) /\ AtConnect(t))
  PROVE  /\ OnceOnly'
         /\ NotSet' => NotSet /\ ~ConnectSet(t)
         /\ ~NotSet' /\ NotSet => ConnectSet(t)
<1>1. queue \in Seq(Evts) /\ attempts \in Nat
  BY DEF TypeOK, Evts
<1>2. CASE ConnectCheck(t)
  <2>1. /\ attempts = 0 /\ attempts' = 1 /\ queue' = queue
        /\ pc' = [pc EXCEPT ![t] = "SET"]
    BY <1>1, <1>2 DEF ConnectCheck
  <2>2. AtSet(t)' /\ \A u \in Threads : u # t => ~AtSet(u)' /\ ~AtConnect(u)'
    BY <2>1 DEF AtSet, AtConnect, OnceOnly, TypeOK
  <2>3. ~ConnectSet(t)
    BY <1>2 DEF ConnectCheck, ConnectSet, MayCall
  <2> QED
    BY <2>1, <2>2, <2>3 DEF OnceOnly, NotSet, ConnectAt
<1>3. CASE ConnectSet(t)
  <2>1. /\ pc[t] = "SET" /\ pc' = [pc EXCEPT ![t] = "CONNECT"]
        /\ queue' = queue /\ attempts' = attempts
    BY <1>3 DEF ConnectSet, histories
  <2>2. /\ AtSet(t) /\ attempts = 1 /\ AtConnect(t)' /\ ~AtSet(t)'
        /\ \A u \in Threads : u # t => ~AtSet(u)' /\ ~AtConnect(u)'
    BY <1>1, <2>1 DEF AtSet, AtConnect, OnceOnly, TypeOK
  <2> QED
    BY <1>3, <2>1, <2>2 DEF OnceOnly, NotSet, ConnectAt
<1>4. CASE Push(t) /\ AtConnect(t)
  <2>0. PICK e : e = Event("CONNECT")
    OBVIOUS
  <2>1. /\ e \in Evts /\ e.type = "CONNECT" /\ queue' = Append(queue, e)
        /\ pc[t] = "CONNECT" /\ pc' = [pc EXCEPT ![t] = "idle"] /\ attempts' = attempts
    BY <1>4, <2>0 DEF Push, AtConnect, Event, Evts, Types, histories
  <2>2. /\ AtConnect(t) /\ attempts = 1
        /\ \A u \in Threads : ~AtSet(u)' /\ ~AtConnect(u)'
        /\ \A u \in Threads : ~AtSet(u)
        /\ \A i \in 1 .. Len(queue) : ~ConnectAt(i)
    BY <1>1, <2>1 DEF AtSet, AtConnect, OnceOnly, TypeOK
  <2>3. \A i \in 1 .. Len(queue') : ConnectAt(i)' => i = Len(queue) + 1
    <3>1. /\ \A i \in 1 .. Len(queue) : queue'[i] = queue[i]
          /\ \A i \in 1 .. Len(queue') : i \in 1 .. Len(queue) \/ i = Len(queue) + 1
      BY <1>1, <2>1, QueueAppend
    <3> QED
      BY <2>2, <3>1 DEF ConnectAt
  <2> QED
    BY <2>1, <2>2, <2>3 DEF OnceOnly, NotSet
<1> QED
  BY <1>2, <1>3, <1>4

\* Threads call nothing any more, and what is taken from the queue was in it.
LEMMA CallersStep ==
  ASSUME TypeOK, CallersGone, [Next]_vars
  PROVE  CallersGone'
<1>1. queue \in Seq(Evts)
  BY DEF TypeOK, Evts
<1>2. ASSUME NEW t \in Threads, Call(t) \/ GoOn(t) PROVE CallersGone'
  <2>1. looper = "running" /\ looper' = looper
    BY <1>2 DEF Call, GoOn, ConnectCheck, SendCheck, Ask, MayCall, ConnectSet, Push,
       PushWrite, CallersGone
  <2>2. CASE queue' = queue
    BY <2>1, <2>2 DEF CallersGone
  <2>3. CASE queue' # queue
    <3>1. PICK e \in Evts : e.type # "LOOPER" /\ queue' = Append(queue, e)
      <4>1. CASE Push(t)
        <5>1. Event(pc[t]) \in Evts /\ Event(pc[t]).type # "LOOPER"
          BY <4>1 DEF Push, Event, Evts, Types
        <5> QED
          BY <4>1, <5>1 DEF Push
      <4>2. CASE PushWrite(t)
        <5>1. WriteEvent(accepted') \in Evts /\ WriteEvent(accepted').type # "LOOPER"
          BY <4>2 DEF PushWrite, WriteEvent, Evts, Types, TypeOK
        <5> QED
          BY <4>2, <5>1 DEF PushWrite
      <4> QED
        BY <1>2, <2>3, <4>1, <4>2 DEF Call, GoOn, ConnectCheck, SendCheck, Ask, ConnectSet
    <3>2. /\ queue'[Len(queue) + 1] = e /\ \A i \in 1 .. Len(queue) : queue'[i] = queue[i]
          /\ \A i \in 1 .. Len(queue') : i \in 1 .. Len(queue) \/ i = Len(queue) + 1
      BY <1>1, <3>1, QueueAppend
    <3> QED
      BY <2>1, <3>1, <3>2 DEF CallersGone
  <2> QED
    BY <2>2, <2>3
<1>3. CASE DeleteLooper
  BY <1>3 DEF DeleteLooper, CallersGone
<1>4. CASE DoEvent
  <2>1. /\ queue # <<>> /\ queue' = Tail(queue) /\ pc' = pc
        /\ looper' = looper \/ (looper' = "walked" /\ Head(queue).type = "LOOPER")
    BY <1>4 DEF DoEvent, ConnectStarts, ConnectFailsAtOnce, CloseEvent, ShutdownEvent,
       WriteHandled, WalkCloses, Handle
  <2>2. /\ 1 \in 1 .. Len(queue) /\ Head(queue) = queue[1]
        /\ \A i \in 1 .. Len(queue') : i + 1 \in 1 .. Len(queue) /\ queue'[i] = queue[i + 1]
    BY <1>1, <2>1, QueueTail
  <2> QED
    BY <2>1, <2>2 DEF CallersGone
<1>5. CASE Callback \/ AfterRecvError \/ AfterSend \/ ConnectDecided \/ UNCHANGED vars
  <2>1. /\ queue' = queue /\ pc' = pc
        /\ looper' = looper \/ (looper' = "done" /\ looper = "walked")
    <3>1. CASE LoopReturns
      BY <3>1 DEF LoopReturns
    <3>2. CASE ~LoopReturns
      BY <1>5, <3>2 DEF Callback, TimerFires, AfterConnect, AfterShutDown,
         AfterTcpHandleClose, AfterTimerHandleClose, AfterRecvError, AfterSend,
         ConnectDecided, vars
    <3> QED
      BY <3>1, <3>2
  <2> QED
    BY <2>1 DEF CallersGone
<1> QED
  BY <1>2, <1>3, <1>4, <1>5 DEF Next

\* What every step but a Connect's own leaves of its places.
LEMMA PlacesOther ==
  ASSUME TypeOK, OnceOnly, CallersGone, [Next]_vars,
         \A t \in Threads :
           ~ConnectCheck(t) /\ ~ConnectSet(t) /\ ~(Push(t) /\ AtConnect(t))
  PROVE  OnceOnly' /\ (NotSet' <=> NotSet)
<1>1. ASSUME NEW t \in Threads, Call(t) \/ GoOn(t)
      PROVE  OnceOnly' /\ (NotSet' <=> NotSet)
  <2>1. CASE SendCheck(t) \/ \E type \in {"CLOSE", "SHUTDOWN"} : Ask(t, type)
    <3>1. /\ attempts' = attempts /\ queue' = queue /\ pc[t] = "idle"
          /\ \E next \in {"WRITE", "CLOSE", "SHUTDOWN"} : pc' = [pc EXCEPT ![t] = next]
      BY <2>1 DEF SendCheck, Ask, MayCall, histories
    <3>2. \A u \in Threads : AtSet(u)' = AtSet(u) /\ AtConnect(u)' = AtConnect(u)
      BY <3>1 DEF AtSet, AtConnect, TypeOK
    <3> QED
      BY <3>1, <3>2, PlacesSame
  <2>2. CASE Push(t) \/ PushWrite(t)
    <3>1. /\ attempts' = attempts /\ pc' = [pc EXCEPT ![t] = "idle"]
          /\ pc[t] \in {"WRITE", "CLOSE", "SHUTDOWN"}
      BY <2>2 DEF Push, PushWrite, AtConnect, histories
    <3>2. \A u \in Threads : AtSet(u)' = AtSet(u) /\ AtConnect(u)' = AtConnect(u)
      BY <3>1 DEF AtSet, AtConnect, TypeOK
    <3>3. \E e \in Evts : e.type # "CONNECT" /\ queue' = Append(queue, e)
      <4>1. CASE Push(t)
        <5>1. Event(pc[t]) \in Evts /\ Event(pc[t]).type # "CONNECT"
          BY <3>1 DEF Event, Evts, Types
        <5> QED
          BY <4>1, <5>1 DEF Push
      <4>2. CASE PushWrite(t)
        <5>1. WriteEvent(accepted') \in Evts /\ WriteEvent(accepted').type # "CONNECT"
          BY <4>2 DEF PushWrite, WriteEvent, Evts, Types, TypeOK
        <5> QED
          BY <4>2, <5>1 DEF PushWrite
      <4> QED
        BY <2>2, <4>1, <4>2
    <3> QED
      BY <3>1, <3>2, <3>3, PlacesSame
  <2> QED
    BY <1>1, <2>1, <2>2 DEF Call, GoOn
<1>2. CASE DeleteLooper
  <2>1. Event("LOOPER") \in Evts /\ Event("LOOPER").type # "CONNECT"
    BY DEF Event, Evts, Types
  <2>2. attempts' = attempts /\ pc' = pc /\ queue' = Append(queue, Event("LOOPER"))
    BY <1>2 DEF DeleteLooper, histories
  <2> QED
    BY <2>1, <2>2, PlacesSame DEF AtSet, AtConnect
<1>3. CASE DoEvent
  <2>1. queue # <<>> /\ queue' = Tail(queue) /\ pc' = pc /\ attempts' = attempts
    BY <1>3 DEF DoEvent, ConnectStarts, ConnectFailsAtOnce, CloseEvent, ShutdownEvent,
       WriteHandled, WalkCloses, Handle, histories
  <2> QED
    BY <2>1, PlacesSame DEF AtSet, AtConnect
<1>4. CASE Callback \/ AfterRecvError \/ AfterSend \/ ConnectDecided \/ UNCHANGED vars
  <2>1. queue' = queue /\ pc' = pc /\ attempts' = attempts
    BY <1>4 DEF Callback, TimerFires, AfterConnect, AfterShutDown, AfterTcpHandleClose,
       AfterTimerHandleClose, LoopReturns, AfterRecvError, AfterSend, ConnectDecided, vars,
       histories
  <2> QED
    BY <2>1, PlacesSame DEF AtSet, AtConnect
<1> QED
  BY <1>1, <1>2, <1>3, <1>4 DEF Next

\* What the places of the Connect say of the handle.
AttemptInv == BeforeSet /\ ClosedIsDown

\* A step that leaves the handle alone, and takes the looper at most on its way
\* to being closed.
LEMMA AttemptSame ==
  ASSUME AttemptInv, UNCHANGED <<fields, tcp, sock, connect, timer, armed>>,
         looper' = looper \/ (looper = "running" /\ looper' = "closing"),
         NotSet' <=> NotSet
  PROVE  AttemptInv'
BY DEF AttemptInv, BeforeSet, ClosedIsDown, fields

\* closeinl closes nothing before Connect has set the state.
LEMMA AttemptCloseinl ==
  ASSUME TypeOK, AttemptInv, Closeinl,
         UNCHANGED <<looper, status, sock, connect, timer, armed>>,
         NotSet' <=> NotSet
  PROVE  AttemptInv'
<1>1. /\ tcp' = tcp \/ (tcp' = "closing" /\ tcp = "open")
      /\ NotSet => tcp' = tcp
  BY DEF Closeinl, Closed, AttemptInv, BeforeSet, Up, TypeOK
<1> QED
  BY <1>1 DEF AttemptInv, BeforeSet, ClosedIsDown

\* No connect event is handled before Connect has set the state.
LEMMA HandledSet ==
  ASSUME TypeOK, OnceOnly, Handle("CONNECT")
  PROVE  ~NotSet
<1>1. 1 \in 1 .. Len(queue) /\ ConnectAt(1)
  BY QueueTail DEF Handle, ConnectAt, TypeOK, Evts
<1> QED
  BY <1>1 DEF OnceOnly, NotSet

\* Every step of a client that has connected once at most keeps the handle and the
\* state in accord with where its Connect is.
LEMMA AttemptStep ==
  ASSUME attempts' <= 1, TypeOK, HandleInv, OnceOnly, CallersGone, AttemptInv,
         [Next]_vars
  PROVE  OnceOnly' /\ AttemptInv'
<1> USE DEF AttemptInv
<1>1. ASSUME NEW t \in Threads, ConnectCheck(t) \/ (Push(t) /\ AtConnect(t))
      PROVE  OnceOnly' /\ AttemptInv'
  <2>1. OnceOnly' /\ (NotSet' <=> NotSet)
    <3>1. ~ConnectSet(t)
      BY <1>1 DEF ConnectCheck, MayCall, ConnectSet, AtConnect
    <3> QED
      BY <1>1, <3>1, PlacesConnect
  <2>2. UNCHANGED <<looper, fields, tcp, sock, connect, timer, armed>>
    BY <1>1 DEF ConnectCheck, Push, handles
  <2> QED
    BY <2>1, <2>2, AttemptSame
<1>2. ASSUME NEW t \in Threads, ConnectSet(t) PROVE OnceOnly' /\ AttemptInv'
  <2>1. OnceOnly' /\ ~NotSet'
    BY <1>2, PlacesConnect
  <2>2. NotSet /\ looper = "running"
    BY <1>2 DEF ConnectSet, NotSet, AtSet, CallersGone
  <2>3. /\ UNCHANGED <<looper, tcp, sock, connect, timer, armed>>
        /\ status' = "CONNECTING"
    BY <1>2 DEF ConnectSet, handles
  <2> QED
    BY <2>1, <2>2, <2>3 DEF BeforeSet, ClosedIsDown
<1>3. ASSUME \A t \in Threads :
               ~ConnectCheck(t) /\ ~ConnectSet(t) /\ ~(Push(t) /\ AtConnect(t))
      PROVE  OnceOnly' /\ AttemptInv'
  <2>1. OnceOnly' /\ (NotSet' <=> NotSet)
    BY <1>3, PlacesOther
  <2>2. ASSUME NEW t \in Threads, Call(t) \/ GoOn(t) PROVE AttemptInv'
    <3>1. UNCHANGED <<looper, fields, tcp, sock, connect, timer, armed>>
      BY <1>3, <2>2 DEF Call, GoOn, SendCheck, Ask, Push, PushWrite, handles
    <3> QED
      BY <2>1, <3>1, AttemptSame
  <2>3. CASE DeleteLooper \/ WriteHandled \/ AfterSend \/ UNCHANGED vars
    <3>1. UNCHANGED <<fields, tcp, sock, connect, timer, armed>>
      BY <2>3 DEF DeleteLooper, WriteHandled, AfterSend, handles, vars
    <3>2. looper' = looper \/ (looper = "running" /\ looper' = "closing")
      BY <2>3 DEF DeleteLooper, WriteHandled, AfterSend, vars
    <3> QED
      BY <2>1, <3>1, <3>2, AttemptSame
  <2>4. CASE ConnectStarts \/ ConnectFailsAtOnce
    <3>1. /\ Handle("CONNECT") /\ UNCHANGED <<looper, status, timer>>
          /\ tcp' = tcp \/ (tcp # "open" /\ tcp' = "closing")
      BY <2>4 DEF ConnectStarts, ConnectFailsAtOnce, RequestOnHandle, fields
    <3>2. ~NotSet' /\ looper \in {"running", "closing"}
      BY <2>1, <3>1, HandledSet DEF Handle
    <3> QED
      BY <2>1, <3>1, <3>2 DEF BeforeSet, ClosedIsDown
  <2>5. CASE CloseEvent \/ AfterShutDown
    <3>1. Closeinl /\ UNCHANGED <<looper, status, sock, connect, timer, armed>>
      BY <2>5 DEF CloseEvent, AfterShutDown
    <3> QED
      BY <2>1, <3>1, AttemptCloseinl
  <2>6. CASE ShutdownEvent
    <3>1. /\ UNCHANGED <<looper, fields, tcp, connect, timer, armed>>
          /\ sock' = sock \/ sock = "connected"
      BY <2>6 DEF ShutdownEvent, Writable
    <3> QED
      BY <2>1, <3>1 DEF fields, BeforeSet, ClosedIsDown
  <2>7. CASE WalkCloses
    <3>1. /\ looper' = "walked" /\ UNCHANGED <<status, sock, connect>>
          /\ tcp' = Closed(tcp) /\ timer' = Closed(timer)
          /\ armed' => armed
      BY <2>7 DEF WalkCloses, fields
    <3>2. tcp' # "open" /\ timer' # "open" /\ (tcp' = "closed" => tcp = "closed")
      BY <3>1 DEF Closed, TypeOK
    <3> QED
      BY <2>1, <3>1, <3>2 DEF BeforeSet, ClosedIsDown
  <2>8. CASE TimerFires
    <3>1. /\ armed /\ status' = "CONNECT_TIME_OUT"
          /\ tcp' = Closed(tcp) /\ timer' = Closed(timer)
          /\ UNCHANGED <<looper, sock, connect>>
      BY <2>8 DEF TimerFires
    <3> QED
      BY <2>1, <3>1 DEF BeforeSet, ClosedIsDown, Closed, Up
  <2>9. CASE AfterConnect
    <3>1. connect # "none" /\ UNCHANGED <<looper, tcp>> /\ timer' = Closed(timer)
      BY <2>9 DEF AfterConnect, StopTimer
    <3>2. tcp # "closed" /\ ~NotSet
      BY <3>1 DEF HandleInv, ClosedOnce, BeforeSet
    <3> QED
      BY <2>1, <3>1, <3>2 DEF BeforeSet, ClosedIsDown, Closed
  <2>10. CASE AfterTcpHandleClose
    <3>1. /\ tcp = "closing" /\ connect = "none" /\ tcp' = "closed" /\ status' = "NONE"
          /\ UNCHANGED <<looper, sock, connect, timer, armed>>
      BY <2>10 DEF AfterTcpHandleClose, TcpEnds
    <3> QED
      BY <2>1, <3>1 DEF BeforeSet, ClosedIsDown, Up
  <2>11. CASE AfterTimerHandleClose
    <3>1. /\ timer = "closing" /\ timer' = "closed" /\ ~armed'
          /\ UNCHANGED <<looper, status, tcp, sock, connect>>
      BY <2>11 DEF AfterTimerHandleClose, fields
    <3> QED
      BY <2>1, <3>1 DEF BeforeSet, ClosedIsDown
  <2>12. CASE LoopReturns
    <3>1. /\ looper = "walked" /\ looper' = "done" /\ tcp # "closing" /\ timer # "closing"
          /\ UNCHANGED <<status, tcp, sock, connect, timer, armed>>
      BY <2>12 DEF LoopReturns, Alive, fields, handles
    <3> QED
      BY <2>1, <3>1 DEF BeforeSet, ClosedIsDown, TypeOK
  <2>13. CASE AfterRecvError
    <3>1. /\ sock \in {"connected", "shut"} /\ tcp = "open" /\ tcp' = "closing"
          /\ UNCHANGED <<looper, sock, connect, timer, armed>>
      BY <2>13 DEF AfterRecvError, Closed
    <3> QED
      BY <2>1, <3>1 DEF BeforeSet, ClosedIsDown
  <2>14. CASE ConnectDecided
    <3>1. connect = "pending" /\ UNCHANGED <<looper, status, tcp, sock, timer, armed>>
      BY <2>14 DEF ConnectDecided, fields
    <3> QED
      BY <2>1, <3>1 DEF BeforeSet, ClosedIsDown
  <2> QED
    BY <2>1, <2>2, <2>3, <2>4, <2>5, <2>6, <2>7, <2>8, <2>9, <2>10, <2>11, <2>12, <2>13,
       <2>14
    DEF Next, DoEvent, Callback
<1> QED
  BY <1>1, <1>2, <1>3

\* No step opens a handle, and none closes or begins anything when uv_run has
\* returned.
LEMMA EndStep ==
  ASSUME TypeOK, HandleInv, WalkedClosed, Ended, [Next]_vars
  PROVE  WalkedClosed' /\ Ended'
<1> USE DEF WalkedClosed, Ended
<1>1. ASSUME NEW t \in Threads, Call(t) \/ GoOn(t) PROVE WalkedClosed' /\ Ended'
  <2>1. UNCHANGED <<looper, tcp, timer>>
    BY <1>1 DEF Call, GoOn, ConnectCheck, SendCheck, Ask, ConnectSet, Push, PushWrite,
       handles
  <2> QED
    BY <2>1
<1>2. CASE DeleteLooper
  BY <1>2 DEF DeleteLooper
<1>3. CASE DoEvent
  <2>1. CASE WalkCloses
    BY <2>1 DEF WalkCloses, Closed, TypeOK
  <2>2. CASE ~WalkCloses
    <3>1. looper' = looper /\ looper \in {"running", "closing"}
      BY <1>3, <2>2 DEF DoEvent, ConnectStarts, ConnectFailsAtOnce, CloseEvent,
         ShutdownEvent, WriteHandled, Handle
    <3> QED
      BY <3>1
  <2> QED
    BY <2>1, <2>2
<1>4. CASE Callback
  <2>1. CASE TimerFires \/ AfterShutDown
    <3>1. /\ looper' = looper /\ tcp' \in {tcp, Closed(tcp)}
          /\ timer' \in {timer, Closed(timer)}
      BY <2>1 DEF TimerFires, AfterShutDown, Closeinl
    <3> QED
      BY <3>1 DEF Closed
  <2>2. CASE AfterConnect
    BY <2>2 DEF AfterConnect, StopTimer, Closed
  <2>3. CASE AfterTcpHandleClose \/ AfterTimerHandleClose
    BY <2>3 DEF AfterTcpHandleClose, AfterTimerHandleClose
  <2>4. CASE LoopReturns
    BY <2>4 DEF LoopReturns, Alive, handles, TypeOK
  <2> QED
    BY <1>4, <2>1, <2>2, <2>3, <2>4 DEF Callback
<1>5. CASE AfterRecvError \/ AfterSend \/ ConnectDecided \/ UNCHANGED vars
  <2>1. looper' = looper /\ tcp' \in {tcp, Closed(tcp)} /\ timer' = timer
    BY <1>5 DEF AfterRecvError, AfterSend, ConnectDecided, vars, handles
  <2> QED
    BY <2>1 DEF Closed
<1> QED
  BY <1>1, <1>2, <1>3, <1>4, <1>5 DEF Next

\* Calls of Connect are counted up.
LEMMA AttemptsGrow ==
  ASSUME TypeOK, [Next]_vars
  PROVE  attempts' \in {attempts, attempts + 1}
BY DEF Next, Call, GoOn, ConnectCheck, SendCheck, Ask, ConnectSet, Push, PushWrite,
   DeleteLooper, DoEvent, ConnectStarts, ConnectFailsAtOnce, CloseEvent, ShutdownEvent,
   WriteHandled, WalkCloses, Callback, TimerFires, AfterConnect, AfterShutDown,
   AfterTcpHandleClose, AfterTimerHandleClose, LoopReturns, AfterRecvError, AfterSend,
   ConnectDecided, vars, histories

Once == attempts <= 1 => OnceOnly /\ AttemptInv

EndInv == IInv /\ CallersGone /\ WalkedClosed /\ Ended /\ Once

\* EndInv is an inductive invariant, for any number of attempts.
LEMMA EndInductive == Spec => []EndInv
<1>1. Init => CallersGone /\ WalkedClosed /\ Ended /\ Once
  <2> SUFFICES ASSUME Init PROVE CallersGone /\ WalkedClosed /\ Ended /\ Once
    OBVIOUS
  <2>1. Len(queue) = 0
    BY DEF Init
  <2>2. OnceOnly /\ CallersGone
    BY <2>1 DEF Init, OnceOnly, CallersGone, AtSet, AtConnect
  <2>3. AttemptInv /\ WalkedClosed /\ Ended
    BY DEF Init, AttemptInv, BeforeSet, ClosedIsDown, WalkedClosed, Ended, NotSet
  <2> QED
    BY <2>2, <2>3 DEF Once
<1>2. IInv /\ CallersGone /\ WalkedClosed /\ Ended /\ Once /\ [Next]_vars
        => CallersGone' /\ WalkedClosed' /\ Ended' /\ Once'
  <2> SUFFICES ASSUME IInv, CallersGone, WalkedClosed, Ended, Once, [Next]_vars
               PROVE  CallersGone' /\ WalkedClosed' /\ Ended' /\ Once'
    OBVIOUS
  <2>1. TypeOK /\ HandleInv
    BY DEF IInv
  <2>2. CallersGone' /\ WalkedClosed' /\ Ended'
    BY <2>1, CallersStep, EndStep
  <2>3. ASSUME attempts' <= 1 PROVE OnceOnly' /\ AttemptInv'
    <3>1. attempts <= 1
      BY <2>1, <2>3, AttemptsGrow DEF TypeOK
    <3> QED
      BY <2>1, <2>3, <3>1, AttemptStep DEF Once
  <2> QED
    BY <2>2, <2>3 DEF Once
<1> QED
  BY <1>1, <1>2, Inductive, PTL DEF Spec, EndInv

\* When its looper is gone a client's handles are closed, and one that has connected
\* once at most is in a state in which ~CTcpClient does not push (TcpClient.cpp:38-43).
THEOREM QuietWhenLooperGone == Spec => []QuietAfterLooper
<1>1. EndInv => QuietAfterLooper
  BY DEF EndInv, Once, AttemptInv, Ended, ClosedIsDown, QuietAfterLooper
<1> QED
  BY <1>1, EndInductive, PTL
=============================================================================
