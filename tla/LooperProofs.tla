---------------------------- MODULE LooperProofs ----------------------------
(***************************************************************************)
(* Proofs about Looper, for any number of producers, closers and handles,  *)
(* and whatever PromptInit is: IInv is inductive, no wakeup is lost, and   *)
(* the event queue is a channel.                                           *)
(***************************************************************************)
EXTENDS Looper, TLAPS

(***************************************************************************)
(* Types.                                                                  *)
(***************************************************************************)
\* Queuing an event keeps the types of the queue and of the histories.
LEMMA EnqueueType ==
  ASSUME TypeOK, NEW s \in Sources, Enqueue(s)
  PROVE  /\ count' \in [Sources -> 0 .. MaxEvents]
         /\ event_queue' \in Seq(Events) /\ pushed' \in Seq(Events)
<1>1. MaxEvents \in Nat
  BY BoundsAssumption
<1>2. count \in [Sources -> 0 .. MaxEvents] /\ count[s] \in 0 .. MaxEvents
  BY DEF TypeOK
<1>3. count[s] + 1 \in 1 .. MaxEvents
  BY <1>1, <1>2 DEF Enqueue
<1>4. count' \in [Sources -> 0 .. MaxEvents]
  BY <1>1, <1>2, <1>3 DEF Enqueue
<1>5. NewEvent(s) \in Events
  BY <1>3 DEF NewEvent, Events
<1> QED
  BY <1>4, <1>5 DEF TypeOK, Enqueue

\* Every step keeps the types.
LEMMA TypeStep ==
  ASSUME TypeOK, [Next]_vars
  PROVE  TypeOK'
<1> USE DEF TypeOK, Events, Sources, Handles, Async, CloseCallers,
            vars, threads, flagVars, queueVars, loopVars,
            histories
<1>1. CASE StartThread
  BY <1>1 DEF StartThread
<1>2. CASE StartFails
  BY <1>2 DEF StartFails
<1>3. CASE InitCloseAsync
  BY <1>3 DEF InitCloseAsync, InitAsync
<1>4. CASE InitEventAsync
  BY <1>4 DEF InitEventAsync, InitAsync
<1>5. CASE WaitInited
  BY <1>5 DEF WaitInited
<1>6. ASSUME NEW u \in Users, Attach(u) PROVE TypeOK'
  BY <1>6 DEF Attach
<1>7. CASE Ready
  BY <1>7 DEF Ready
<1>8. CASE OwnerNeedNotClose
  BY <1>8 DEF OwnerNeedNotClose
<1>9. CASE Join
  BY <1>9 DEF Join
<1>10. CASE Destroy
  BY <1>10 DEF Destroy
<1>11. ASSUME NEW c \in CloseCallers, CloseCheck(c) PROVE TypeOK'
  BY <1>11 DEF CloseCheck
<1>12. ASSUME NEW c \in CloseCallers, CloseSet(c) PROVE TypeOK'
  BY <1>12 DEF CloseSet
<1>13. ASSUME NEW c \in CloseCallers, CloseSend(c) PROVE TypeOK'
  BY <1>13 DEF CloseSend, SendAsync, NoMark
<1>14. ASSUME NEW p \in Producers, PushLocked(p) PROVE TypeOK'
  <2>1. count' \in [Sources -> 0 .. MaxEvents] /\ event_queue' \in Seq(Events)
        /\ pushed' \in Seq(Events)
    BY <1>14, EnqueueType DEF PushLocked, Sources
  <2> QED
    BY <1>14, <2>1 DEF TypeOK, PushLocked, Handles, Async, CloseCallers, loopVars,
       flagVars
<1>15. ASSUME NEW p \in Producers, SendAndUnlock(p) PROVE TypeOK'
  BY <1>15 DEF SendAndUnlock, SendAsync
<1>16. CASE WorkThread
  BY <1>16 DEF WorkThread
<1>17. CASE TestAlive
  BY <1>17 DEF TestAlive
<1>18. CASE ProcessWakeup
  <2>1. /\ Head(pending) \in Async /\ Tail(pending) \in Seq(Handles)
        /\ async_sent' = [async_sent EXCEPT ![Head(pending)] = FALSE]
    BY <1>18 DEF TypeOK, ProcessWakeup
  <2>2. endgames' \subseteq Handles /\ loop' \in {"reqs", "lock", "walk"}
    BY <1>18, <2>1 DEF TypeOK, ProcessWakeup, WakeupOfOpen, WakeupOfClosing, Handles
  <2> QED
    BY <1>18, <2>1, <2>2 DEF TypeOK, ProcessWakeup, flagVars, queueVars, histories
<1>19. CASE ProcessCompletion
  <2> DEFINE u == Head(pending)
  <2>1. u \in Users /\ Tail(pending) \in Seq(Handles)
    BY <1>19 DEF TypeOK, ProcessCompletion
  <2>2. CASE CallbackReturns(u)
    BY <1>19, <2>1, <2>2
    DEF TypeOK, ProcessCompletion, CallbackReturns, threads, flagVars, queueVars,
        histories
  <2>3. CASE CallbackPushes(u)
    <3>1. /\ count' \in [Sources -> 0 .. MaxEvents]
          /\ event_queue' \in Seq(Events) /\ pushed' \in Seq(Events)
      BY <2>1, <2>3, EnqueueType DEF CallbackPushes, Sources
    <3>2. async_sent' \in [Async -> BOOLEAN] /\ iocp' \in Seq(Handles)
      BY <2>3 DEF TypeOK, CallbackPushes, SendAsync, Handles, Async
    <3>3. io' \in [Users -> {"idle", "pending", "posted"}]
      BY <2>1, <2>3 DEF TypeOK, CallbackPushes
    <3> QED
      BY <1>19, <2>1, <2>3, <3>1, <3>2, <3>3
      DEF TypeOK, ProcessCompletion, CallbackPushes, threads, flagVars
  <2>4. CASE CompletionOfClosing(u)
    <3> HIDE DEF Events
    <3>1. endgames' \subseteq Handles
          /\ io' \in [Users -> {"idle", "pending", "posted"}]
      BY <2>1, <2>4 DEF CompletionOfClosing
    <3> QED
      BY <1>19, <2>1, <2>4, <3>1 DEF ProcessCompletion, CompletionOfClosing
  <2> QED
    BY <1>19, <2>2, <2>3, <2>4 DEF ProcessCompletion
<1>20. CASE ReqsDone
  BY <1>20 DEF ReqsDone
<1>21. CASE LockQueue
  BY <1>21 DEF LockQueue
<1>22. CASE HandleEvent
  <2> HIDE DEF Events
  <2>1. event_queue \in Seq(Events) /\ handled \in Seq(Events)
        /\ event_queue # <<>>
    BY <1>22 DEF TypeOK, HandleEvent
  <2>2. event_queue' \in Seq(Events) /\ handled' \in Seq(Events)
    BY <1>22, <2>1 DEF HandleEvent
  <2> QED
    BY <1>22, <2>2 DEF TypeOK, HandleEvent
<1>23. CASE QueueEmpty
  BY <1>23 DEF QueueEmpty
<1>24. ASSUME NEW h \in Handles, WalkCloses(h) PROVE TypeOK'
  BY <1>24 DEF WalkCloses
<1>25. CASE WalkEnds
  BY <1>25 DEF WalkEnds
<1>26. CASE Poll
  BY <1>26 DEF Poll
<1>27. ASSUME NEW h \in Handles, Endgame(h) PROVE TypeOK'
  BY <1>27 DEF Endgame
<1>28. CASE EndgamesDone
  BY <1>28 DEF EndgamesDone
<1>29. CASE RunReturns
  BY <1>29 DEF RunReturns
<1>30. ASSUME NEW u \in Users, Complete(u) PROVE TypeOK'
  BY <1>30 DEF Complete
<1>31. CASE UNCHANGED vars
  BY <1>31
<1> QED
  BY <1>1, <1>2, <1>3, <1>4, <1>5, <1>6, <1>7, <1>8, <1>9, <1>10, <1>11,
     <1>12, <1>13, <1>14, <1>15, <1>16, <1>17, <1>18, <1>19, <1>20, <1>21, <1>22,
     <1>23, <1>24, <1>25, <1>26, <1>27, <1>28, <1>29, <1>30, <1>31 DEF Next,
     OwnerStep, CloseStep, LoopStep

(***************************************************************************)
(* The invariants of the mutex, the pending requests and the early phase.  *)
(***************************************************************************)
\* The mutex changes hands only with those whose position says so.
LEMMA MutexStep ==
  ASSUME TypeOK, MutexInv, EarlyInv, [Next]_vars
  PROVE  MutexInv'
<1> USE DEF vars, threads, flagVars, queueVars, loopVars, histories
<1>1. CASE StartThread
  BY <1>1, NamesAssumption DEF TypeOK, MutexInv, StartThread, EarlyInv
<1>2. CASE StartFails
  BY <1>2, NamesAssumption DEF TypeOK, MutexInv, StartFails
<1>3. CASE InitCloseAsync
  BY <1>3, NamesAssumption DEF TypeOK, MutexInv, InitCloseAsync, InitAsync
<1>4. CASE InitEventAsync
  BY <1>4, NamesAssumption DEF TypeOK, MutexInv, InitEventAsync, InitAsync
<1>5. CASE WaitInited
  BY <1>5, NamesAssumption DEF TypeOK, MutexInv, WaitInited
<1>6. ASSUME NEW u \in Users, Attach(u) PROVE MutexInv'
  BY <1>6, NamesAssumption DEF TypeOK, MutexInv, Attach
<1>7. CASE Ready
  BY <1>7, NamesAssumption DEF TypeOK, MutexInv, Ready
<1>8. CASE OwnerNeedNotClose
  BY <1>8, NamesAssumption DEF TypeOK, MutexInv, OwnerNeedNotClose
<1>9. CASE Join
  BY <1>9, NamesAssumption DEF TypeOK, MutexInv, Join
<1>10. CASE Destroy
  BY <1>10, NamesAssumption DEF TypeOK, MutexInv, Destroy
<1>11. ASSUME NEW c \in CloseCallers, CloseCheck(c) PROVE MutexInv'
  BY <1>11, NamesAssumption DEF TypeOK, MutexInv, CloseCheck
<1>12. ASSUME NEW c \in CloseCallers, CloseSet(c) PROVE MutexInv'
  BY <1>12, NamesAssumption DEF TypeOK, MutexInv, CloseSet
<1>13. ASSUME NEW c \in CloseCallers, CloseSend(c) PROVE MutexInv'
  BY <1>13, NamesAssumption DEF TypeOK, MutexInv, CloseSend
<1>14. ASSUME NEW p \in Producers, PushLocked(p) PROVE MutexInv'
  BY <1>14, NamesAssumption DEF TypeOK, MutexInv, PushLocked
<1>15. ASSUME NEW p \in Producers, SendAndUnlock(p) PROVE MutexInv'
  BY <1>15, NamesAssumption DEF TypeOK, MutexInv, SendAndUnlock
<1>16. CASE WorkThread
  BY <1>16, NamesAssumption DEF TypeOK, MutexInv, WorkThread
<1>17. CASE TestAlive
  BY <1>17, NamesAssumption DEF TypeOK, MutexInv, TestAlive
<1>18. CASE ProcessWakeup
  BY <1>18, NamesAssumption DEF TypeOK, MutexInv, ProcessWakeup, WakeupOfOpen,
     WakeupOfClosing
<1>19. CASE ProcessCompletion
  BY <1>19, NamesAssumption DEF TypeOK, MutexInv, ProcessCompletion,
     CallbackReturns, CallbackPushes, CompletionOfClosing
<1>20. CASE ReqsDone
  BY <1>20, NamesAssumption DEF TypeOK, MutexInv, ReqsDone
<1>21. CASE LockQueue
  BY <1>21, NamesAssumption DEF TypeOK, MutexInv, LockQueue
<1>22. CASE HandleEvent
  BY <1>22, NamesAssumption DEF TypeOK, MutexInv, HandleEvent
<1>23. CASE QueueEmpty
  BY <1>23, NamesAssumption DEF TypeOK, MutexInv, QueueEmpty
<1>24. ASSUME NEW h \in Handles, WalkCloses(h) PROVE MutexInv'
  BY <1>24, NamesAssumption DEF TypeOK, MutexInv, WalkCloses
<1>25. CASE WalkEnds
  BY <1>25, NamesAssumption DEF TypeOK, MutexInv, WalkEnds
<1>26. CASE Poll
  BY <1>26, NamesAssumption DEF TypeOK, MutexInv, Poll
<1>27. ASSUME NEW h \in Handles, Endgame(h) PROVE MutexInv'
  BY <1>27, NamesAssumption DEF TypeOK, MutexInv, Endgame
<1>28. CASE EndgamesDone
  BY <1>28, NamesAssumption DEF TypeOK, MutexInv, EndgamesDone
<1>29. CASE RunReturns
  BY <1>29, NamesAssumption DEF TypeOK, MutexInv, RunReturns
<1>30. ASSUME NEW u \in Users, Complete(u) PROVE MutexInv'
  BY <1>30, NamesAssumption DEF TypeOK, MutexInv, Complete
<1>31. CASE UNCHANGED vars
  BY <1>31 DEF TypeOK, MutexInv
<1> QED
  BY <1>1, <1>2, <1>3, <1>4, <1>5, <1>6, <1>7, <1>8, <1>9, <1>10, <1>11,
     <1>12, <1>13, <1>14, <1>15, <1>16, <1>17, <1>18, <1>19, <1>20, <1>21, <1>22,
     <1>23, <1>24, <1>25, <1>26, <1>27, <1>28, <1>29, <1>30, <1>31 DEF Next,
     OwnerStep, CloseStep, LoopStep

\* Polling begins with no request left to process.
LEMMA PollStep ==
  ASSUME PollInv, [Next]_vars
  PROVE  PollInv'
<1> USE DEF vars, threads, flagVars, queueVars, loopVars, histories
<1>1. CASE StartThread
  BY <1>1 DEF PollInv, StartThread, EarlyInv
<1>2. CASE StartFails
  BY <1>2 DEF PollInv, StartFails
<1>3. CASE InitCloseAsync
  BY <1>3 DEF PollInv, InitCloseAsync, InitAsync
<1>4. CASE InitEventAsync
  BY <1>4 DEF PollInv, InitEventAsync, InitAsync
<1>5. CASE WaitInited
  BY <1>5 DEF PollInv, WaitInited
<1>6. ASSUME NEW u \in Users, Attach(u) PROVE PollInv'
  BY <1>6 DEF PollInv, Attach
<1>7. CASE Ready
  BY <1>7 DEF PollInv, Ready
<1>8. CASE OwnerNeedNotClose
  BY <1>8 DEF PollInv, OwnerNeedNotClose
<1>9. CASE Join
  BY <1>9 DEF PollInv, Join
<1>10. CASE Destroy
  BY <1>10 DEF PollInv, Destroy
<1>11. ASSUME NEW c \in CloseCallers, CloseCheck(c) PROVE PollInv'
  BY <1>11 DEF PollInv, CloseCheck
<1>12. ASSUME NEW c \in CloseCallers, CloseSet(c) PROVE PollInv'
  BY <1>12 DEF PollInv, CloseSet
<1>13. ASSUME NEW c \in CloseCallers, CloseSend(c) PROVE PollInv'
  BY <1>13 DEF PollInv, CloseSend
<1>14. ASSUME NEW p \in Producers, PushLocked(p) PROVE PollInv'
  BY <1>14 DEF PollInv, PushLocked
<1>15. ASSUME NEW p \in Producers, SendAndUnlock(p) PROVE PollInv'
  BY <1>15 DEF PollInv, SendAndUnlock
<1>16. CASE WorkThread
  BY <1>16 DEF PollInv, WorkThread
<1>17. CASE TestAlive
  BY <1>17 DEF PollInv, TestAlive
<1>18. CASE ProcessWakeup
  BY <1>18 DEF PollInv, ProcessWakeup, WakeupOfOpen, WakeupOfClosing
<1>19. CASE ProcessCompletion
  BY <1>19 DEF PollInv, ProcessCompletion, CallbackReturns, CallbackPushes,
     CompletionOfClosing
<1>20. CASE ReqsDone
  BY <1>20 DEF PollInv, ReqsDone
<1>21. CASE LockQueue
  BY <1>21 DEF PollInv, LockQueue
<1>22. CASE HandleEvent
  BY <1>22 DEF PollInv, HandleEvent
<1>23. CASE QueueEmpty
  BY <1>23 DEF PollInv, QueueEmpty
<1>24. ASSUME NEW h \in Handles, WalkCloses(h) PROVE PollInv'
  BY <1>24 DEF PollInv, WalkCloses
<1>25. CASE WalkEnds
  BY <1>25 DEF PollInv, WalkEnds
<1>26. CASE Poll
  BY <1>26 DEF PollInv, Poll
<1>27. ASSUME NEW h \in Handles, Endgame(h) PROVE PollInv'
  BY <1>27 DEF PollInv, Endgame
<1>28. CASE EndgamesDone
  BY <1>28 DEF PollInv, EndgamesDone
<1>29. CASE RunReturns
  BY <1>29 DEF PollInv, RunReturns
<1>30. ASSUME NEW u \in Users, Complete(u) PROVE PollInv'
  BY <1>30 DEF PollInv, Complete
<1>31. CASE UNCHANGED vars
  BY <1>31 DEF PollInv
<1> QED
  BY <1>1, <1>2, <1>3, <1>4, <1>5, <1>6, <1>7, <1>8, <1>9, <1>10, <1>11,
     <1>12, <1>13, <1>14, <1>15, <1>16, <1>17, <1>18, <1>19, <1>20, <1>21, <1>22,
     <1>23, <1>24, <1>25, <1>26, <1>27, <1>28, <1>29, <1>30, <1>31 DEF Next,
     OwnerStep, CloseStep, LoopStep

\* Nothing is attached or pushed while InitLooper sets up its handles.
LEMMA EarlyStep ==
  ASSUME TypeOK, EarlyInv, MutexInv, [Next]_vars
  PROVE  EarlyInv'
<1> USE DEF vars, threads, flagVars, queueVars, loopVars, histories
<1>1. CASE StartThread
  BY <1>1, NamesAssumption DEF EarlyInv, TypeOK, StartThread
<1>2. CASE StartFails
  BY <1>2, NamesAssumption DEF EarlyInv, TypeOK, StartFails
<1>3. CASE InitCloseAsync
  BY <1>3, NamesAssumption DEF EarlyInv, TypeOK, InitCloseAsync, InitAsync,
     TypeOK, Handles, Async
<1>4. CASE InitEventAsync
  BY <1>4, NamesAssumption DEF EarlyInv, TypeOK, InitEventAsync, InitAsync,
     TypeOK, Handles, Async
<1>5. CASE WaitInited
  BY <1>5, NamesAssumption DEF EarlyInv, TypeOK, WaitInited
<1>6. ASSUME NEW u \in Users, Attach(u) PROVE EarlyInv'
  BY <1>6, NamesAssumption DEF EarlyInv, TypeOK, Attach
<1>7. CASE Ready
  BY <1>7, NamesAssumption DEF EarlyInv, TypeOK, Ready
<1>8. CASE OwnerNeedNotClose
  BY <1>8, NamesAssumption DEF EarlyInv, TypeOK, OwnerNeedNotClose
<1>9. CASE Join
  BY <1>9, NamesAssumption DEF EarlyInv, TypeOK, Join
<1>10. CASE Destroy
  BY <1>10, NamesAssumption DEF EarlyInv, TypeOK, Destroy
<1>11. ASSUME NEW c \in CloseCallers, CloseCheck(c) PROVE EarlyInv'
  BY <1>11, NamesAssumption DEF EarlyInv, TypeOK, CloseCheck
<1>12. ASSUME NEW c \in CloseCallers, CloseSet(c) PROVE EarlyInv'
  BY <1>12, NamesAssumption DEF EarlyInv, TypeOK, CloseSet
<1>13. ASSUME NEW c \in CloseCallers, CloseSend(c) PROVE EarlyInv'
  BY <1>13, NamesAssumption DEF EarlyInv, TypeOK, CloseSend
<1>14. ASSUME NEW p \in Producers, PushLocked(p) PROVE EarlyInv'
  BY <1>14, NamesAssumption DEF EarlyInv, TypeOK, PushLocked
<1>15. ASSUME NEW p \in Producers, SendAndUnlock(p) PROVE EarlyInv'
  BY <1>15, NamesAssumption DEF EarlyInv, TypeOK, SendAndUnlock
<1>16. CASE WorkThread
  BY <1>16, NamesAssumption DEF EarlyInv, TypeOK, WorkThread
<1>17. CASE TestAlive
  BY <1>17, NamesAssumption DEF EarlyInv, TypeOK, TestAlive
<1>18. CASE ProcessWakeup
  BY <1>18, NamesAssumption DEF EarlyInv, TypeOK, ProcessWakeup, WakeupOfOpen,
     WakeupOfClosing
<1>19. CASE ProcessCompletion
  BY <1>19, NamesAssumption DEF EarlyInv, TypeOK, ProcessCompletion,
     CallbackReturns, CallbackPushes, CompletionOfClosing, Handles
<1>20. CASE ReqsDone
  BY <1>20, NamesAssumption DEF EarlyInv, TypeOK, ReqsDone
<1>21. CASE LockQueue
  BY <1>21, NamesAssumption DEF EarlyInv, TypeOK, LockQueue
<1>22. CASE HandleEvent
  BY <1>22, NamesAssumption DEF EarlyInv, TypeOK, HandleEvent
<1>23. CASE QueueEmpty
  BY <1>23, NamesAssumption DEF EarlyInv, TypeOK, QueueEmpty
<1>24. ASSUME NEW h \in Handles, WalkCloses(h) PROVE EarlyInv'
  BY <1>24, NamesAssumption DEF EarlyInv, TypeOK, WalkCloses, TypeOK, Handles,
     Async, ToClose
<1>25. CASE WalkEnds
  BY <1>25, NamesAssumption DEF EarlyInv, TypeOK, WalkEnds
<1>26. CASE Poll
  BY <1>26, NamesAssumption DEF EarlyInv, TypeOK, Poll
<1>27. ASSUME NEW h \in Handles, Endgame(h) PROVE EarlyInv'
  BY <1>27, NamesAssumption DEF EarlyInv, TypeOK, Endgame, TypeOK, Handles,
     Async, Quiet
<1>28. CASE EndgamesDone
  BY <1>28, NamesAssumption DEF EarlyInv, TypeOK, EndgamesDone
<1>29. CASE RunReturns
  BY <1>29, NamesAssumption DEF EarlyInv, TypeOK, RunReturns
<1>30. ASSUME NEW u \in Users, Complete(u) PROVE EarlyInv'
  BY <1>30, NamesAssumption DEF EarlyInv, TypeOK, Complete
<1>31. CASE UNCHANGED vars
  BY <1>31 DEF EarlyInv, TypeOK
<1> QED
  BY <1>1, <1>2, <1>3, <1>4, <1>5, <1>6, <1>7, <1>8, <1>9, <1>10, <1>11,
     <1>12, <1>13, <1>14, <1>15, <1>16, <1>17, <1>18, <1>19, <1>20, <1>21, <1>22,
     <1>23, <1>24, <1>25, <1>26, <1>27, <1>28, <1>29, <1>30, <1>31 DEF Next,
     OwnerStep, CloseStep, LoopStep

(***************************************************************************)
(* The wakeups.                                                            *)
(***************************************************************************)
\* What a sequence holds: after Append, and with its head taken off.
LEMMA SetOfAppend ==
  ASSUME NEW S, NEW s \in Seq(S), NEW x \in S
  PROVE  SetOf(Append(s, x)) = SetOf(s) \cup {x}
<1>1. \A i \in 1 .. Len(s) : Append(s, x)[i] = s[i]
  OBVIOUS
<1>2. Append(s, x)[Len(s) + 1] = x /\ Len(Append(s, x)) = Len(s) + 1
  OBVIOUS
<1>3. Len(s) \in Nat
  OBVIOUS
<1>4. 1 .. (Len(s) + 1) = (1 .. Len(s)) \cup {Len(s) + 1}
  BY <1>3
<1> QED
  BY <1>1, <1>2, <1>4 DEF SetOf

\* Taking the head off loses the head alone.
LEMMA SetOfHead ==
  ASSUME NEW S, NEW s \in Seq(S), s # <<>>
  PROVE  SetOf(s) = {Head(s)} \cup SetOf(Tail(s))
<1>1. Len(s) \in Nat \ {0} /\ Head(s) = s[1] /\ Len(Tail(s)) = Len(s) - 1
  OBVIOUS
<1>2. \A i \in 1 .. Len(Tail(s)) : Tail(s)[i] = s[i + 1]
  OBVIOUS
<1>3. SetOf(Tail(s)) = {s[i + 1] : i \in 1 .. Len(s) - 1}
  BY <1>1, <1>2 DEF SetOf
<1>4. ASSUME NEW y \in SetOf(s) PROVE y = s[1] \/ y \in SetOf(Tail(s))
  <2>1. PICK i \in 1 .. Len(s) : y = s[i]
    BY DEF SetOf
  <2>2. CASE i # 1
    <3>1. i - 1 \in 1 .. Len(s) - 1 /\ s[(i - 1) + 1] = y
      BY <1>1, <2>1, <2>2
    <3> QED
      BY <1>3, <3>1
  <2> QED
    BY <2>1, <2>2
<1>5. ASSUME NEW y \in SetOf(Tail(s)) PROVE y \in SetOf(s)
  <2>1. PICK i \in 1 .. Len(s) - 1 : y = s[i + 1]
    BY <1>3
  <2>2. i + 1 \in 1 .. Len(s)
    BY <1>1
  <2> QED
    BY <2>1, <2>2 DEF SetOf
<1>6. s[1] \in SetOf(s)
  BY <1>1 DEF SetOf
<1> QED
  BY <1>1, <1>4, <1>5, <1>6

\* A send leaves its wakeup under way, and every other one where it was.
LEMMA SendAsyncWakes ==
  ASSUME TypeOK, SentInv, NEW a \in Async, SendAsync(a)
  PROVE  /\ SetOf(iocp) \subseteq SetOf(iocp')
         /\ a \in SetOf(iocp') \cup SetOf(pending)
         /\ \A b \in Async : async_sent'[b] => b \in SetOf(iocp') \cup SetOf(pending)
<1>1. iocp \in Seq(Handles) /\ a \in Handles
  BY DEF TypeOK, Handles
<1>2. SetOf(Append(iocp, a)) = SetOf(iocp) \cup {a}
  BY <1>1, SetOfAppend
<1>3. SetOf(iocp) \subseteq SetOf(iocp') /\ a \in SetOf(iocp') \cup SetOf(pending)
  BY <1>2 DEF SendAsync, SentInv, WakeupUnderWay
<1>4. ASSUME NEW b \in Async, async_sent'[b]
      PROVE  b \in SetOf(iocp') \cup SetOf(pending)
  <2>1. b = a \/ async_sent[b]
    BY <1>4 DEF SendAsync, TypeOK
  <2> QED
    BY <1>3, <2>1 DEF SentInv, WakeupUnderWay
<1> QED
  BY <1>3, <1>4

\* A flag that is set stands for a completion, whatever step is taken.
LEMMA SentStep ==
  ASSUME TypeOK, SentInv, PollInv, [Next]_vars
  PROVE  SentInv'
<1> USE DEF vars, threads, flagVars, queueVars, loopVars, histories
<1>1. CASE StartThread
  BY <1>1 DEF SentInv, WakeupUnderWay, StartThread
<1>2. CASE StartFails
  BY <1>2 DEF SentInv, WakeupUnderWay, StartFails
<1>3. CASE InitCloseAsync
  BY <1>3 DEF TypeOK, SentInv, WakeupUnderWay, InitCloseAsync, InitEventAsync, InitAsync
<1>4. CASE InitEventAsync
  BY <1>4 DEF TypeOK, SentInv, WakeupUnderWay, InitCloseAsync, InitEventAsync, InitAsync
<1>5. CASE WaitInited
  BY <1>5 DEF SentInv, WakeupUnderWay, WaitInited
<1>6. ASSUME NEW u \in Users, Attach(u) PROVE SentInv'
  BY <1>6 DEF SentInv, WakeupUnderWay, Attach
<1>7. CASE Ready
  BY <1>7 DEF SentInv, WakeupUnderWay, Ready
<1>8. CASE OwnerNeedNotClose
  BY <1>8 DEF SentInv, WakeupUnderWay, OwnerNeedNotClose
<1>9. CASE Join
  BY <1>9 DEF SentInv, WakeupUnderWay, Join
<1>10. CASE Destroy
  BY <1>10 DEF SentInv, WakeupUnderWay, Destroy
<1>11. ASSUME NEW c \in CloseCallers, CloseCheck(c) PROVE SentInv'
  BY <1>11 DEF SentInv, WakeupUnderWay, CloseCheck
<1>12. ASSUME NEW c \in CloseCallers, CloseSet(c) PROVE SentInv'
  BY <1>12 DEF SentInv, WakeupUnderWay, CloseSet
<1>13. ASSUME NEW c \in CloseCallers, CloseSend(c) PROVE SentInv'
  <2>1. SendAsync("close") /\ pending' = pending
    BY <1>13 DEF CloseSend
  <2> QED
    BY <2>1, SendAsyncWakes DEF SentInv, WakeupUnderWay, Async
<1>14. ASSUME NEW p \in Producers, PushLocked(p) PROVE SentInv'
  BY <1>14 DEF SentInv, WakeupUnderWay, PushLocked
<1>15. ASSUME NEW p \in Producers, SendAndUnlock(p) PROVE SentInv'
  <2>1. SendAsync("event") /\ pending' = pending
    BY <1>15 DEF SendAndUnlock
  <2> QED
    BY <2>1, SendAsyncWakes DEF SentInv, WakeupUnderWay, Async
<1>16. CASE WorkThread
  BY <1>16 DEF SentInv, WakeupUnderWay, WorkThread
<1>17. CASE TestAlive
  BY <1>17 DEF SentInv, WakeupUnderWay, TestAlive
<1>18. CASE ProcessWakeup
  <2>1. /\ pending \in Seq(Handles) /\ pending # <<>> /\ pending' = Tail(pending)
        /\ async_sent' = [async_sent EXCEPT ![Head(pending)] = FALSE]
        /\ iocp' = iocp
    BY <1>18 DEF TypeOK, ProcessWakeup
  <2>2. SetOf(pending) = {Head(pending)} \cup SetOf(pending')
    BY <2>1, SetOfHead
  <2> QED
    BY <2>1, <2>2 DEF TypeOK, SentInv, WakeupUnderWay
<1>19. CASE ProcessCompletion
  <2>1. /\ pending \in Seq(Handles) /\ pending # <<>> /\ pending' = Tail(pending)
        /\ Head(pending) \in Users
    BY <1>19 DEF TypeOK, ProcessCompletion
  <2>2. SetOf(pending) = {Head(pending)} \cup SetOf(pending')
    BY <2>1, SetOfHead
  <2>3. \A b \in Async : b \in SetOf(pending) => b \in SetOf(pending')
    BY <2>1, <2>2, NamesAssumption
  <2>4. CASE iocp' = iocp /\ async_sent' = async_sent
    BY <2>3, <2>4 DEF SentInv, WakeupUnderWay
  <2>5. CASE SendAsync("event")
    BY <2>3, <2>5, SendAsyncWakes DEF SentInv, WakeupUnderWay, Async
  <2> QED
    BY <1>19, <2>4, <2>5
    DEF ProcessCompletion, CallbackReturns, CallbackPushes, CompletionOfClosing
<1>20. CASE ReqsDone
  BY <1>20 DEF SentInv, WakeupUnderWay, ReqsDone
<1>21. CASE LockQueue
  BY <1>21 DEF SentInv, WakeupUnderWay, LockQueue
<1>22. CASE HandleEvent
  BY <1>22 DEF SentInv, WakeupUnderWay, HandleEvent
<1>23. CASE QueueEmpty
  BY <1>23 DEF SentInv, WakeupUnderWay, QueueEmpty
<1>24. ASSUME NEW h \in Handles, WalkCloses(h) PROVE SentInv'
  BY <1>24 DEF SentInv, WakeupUnderWay, WalkCloses
<1>25. CASE WalkEnds
  BY <1>25 DEF SentInv, WakeupUnderWay, WalkEnds
<1>26. CASE Poll
  <2>1. pending = <<>> /\ pending' = iocp /\ async_sent' = async_sent
    BY <1>26 DEF Poll, PollInv
  <2>2. SetOf(pending) = {}
    BY <2>1 DEF SetOf
  <2> QED
    BY <2>1, <2>2 DEF SentInv, WakeupUnderWay
<1>27. ASSUME NEW h \in Handles, Endgame(h) PROVE SentInv'
  BY <1>27 DEF SentInv, WakeupUnderWay, Endgame
<1>28. CASE EndgamesDone
  BY <1>28 DEF SentInv, WakeupUnderWay, EndgamesDone
<1>29. CASE RunReturns
  BY <1>29 DEF SentInv, WakeupUnderWay, RunReturns
<1>30. ASSUME NEW u \in Users, Complete(u) PROVE SentInv'
  <2>1. iocp \in Seq(Handles) /\ iocp' = Append(iocp, u) /\ u \in Handles
    BY <1>30 DEF TypeOK, Complete, Handles
  <2>2. SetOf(iocp') = SetOf(iocp) \cup {u}
    BY <2>1, SetOfAppend
  <2> QED
    BY <1>30, <2>2 DEF Complete, SentInv, WakeupUnderWay
<1>31. CASE UNCHANGED vars
  BY <1>31 DEF SentInv, WakeupUnderWay
<1> QED
  BY <1>1, <1>2, <1>3, <1>4, <1>5, <1>6, <1>7, <1>8, <1>9, <1>10, <1>11,
     <1>12, <1>13, <1>14, <1>15, <1>16, <1>17, <1>18, <1>19, <1>20, <1>21, <1>22,
     <1>23, <1>24, <1>25, <1>26, <1>27, <1>28, <1>29, <1>30, <1>31 DEF Next,
     OwnerStep, CloseStep, LoopStep

\* No step leaves events behind with nobody on the way to them.
LEMMA WakeupStep ==
  ASSUME TypeOK, SentInv, PollInv, EarlyInv, NoLostWakeup, [Next]_vars
  PROVE  NoLostWakeup'
<1> USE DEF vars, threads, flagVars, queueVars, loopVars, histories
<1>1. CASE StartThread
  BY <1>1 DEF NoLostWakeup, WakeupUnderWay, StartThread, EarlyInv
<1>2. CASE StartFails
  BY <1>2 DEF NoLostWakeup, WakeupUnderWay, StartFails
<1>3. CASE InitCloseAsync
  BY <1>3 DEF EarlyInv, NoLostWakeup, InitCloseAsync, InitAsync
<1>4. CASE InitEventAsync
  BY <1>4 DEF EarlyInv, NoLostWakeup, InitEventAsync, InitAsync
<1>5. CASE WaitInited
  BY <1>5 DEF NoLostWakeup, WakeupUnderWay, WaitInited
<1>6. ASSUME NEW u \in Users, Attach(u) PROVE NoLostWakeup'
  BY <1>6, NamesAssumption
  DEF TypeOK, NoLostWakeup, WakeupUnderWay, Attach, Handles, Async
<1>7. CASE Ready
  BY <1>7 DEF NoLostWakeup, WakeupUnderWay, Ready
<1>8. CASE OwnerNeedNotClose
  BY <1>8 DEF NoLostWakeup, WakeupUnderWay, OwnerNeedNotClose
<1>9. CASE Join
  BY <1>9 DEF NoLostWakeup, WakeupUnderWay, Join
<1>10. CASE Destroy
  BY <1>10 DEF NoLostWakeup, WakeupUnderWay, Destroy
<1>11. ASSUME NEW c \in CloseCallers, CloseCheck(c) PROVE NoLostWakeup'
  BY <1>11 DEF NoLostWakeup, WakeupUnderWay, CloseCheck
<1>12. ASSUME NEW c \in CloseCallers, CloseSet(c) PROVE NoLostWakeup'
  BY <1>12 DEF NoLostWakeup, WakeupUnderWay, CloseSet
<1>13. ASSUME NEW c \in CloseCallers, CloseSend(c) PROVE NoLostWakeup'
  <2>1. SendAsync("close") /\ pending' = pending
    BY <1>13 DEF CloseSend
  <2>2. SetOf(iocp) \subseteq SetOf(iocp')
    BY <2>1, SendAsyncWakes DEF Async
  <2> QED
    BY <1>13, <2>1, <2>2 DEF CloseSend, NoLostWakeup, WakeupUnderWay
<1>14. ASSUME NEW p \in Producers, PushLocked(p) PROVE NoLostWakeup'
  BY <1>14 DEF TypeOK, NoLostWakeup, PushLocked
<1>15. ASSUME NEW p \in Producers, SendAndUnlock(p) PROVE NoLostWakeup'
  <2>1. SendAsync("event") /\ pending' = pending
    BY <1>15 DEF SendAndUnlock
  <2>2. WakeupUnderWay("event")'
    BY <2>1, SendAsyncWakes DEF Async, WakeupUnderWay
  <2> QED
    BY <2>2 DEF NoLostWakeup
<1>16. CASE WorkThread
  BY <1>16 DEF NoLostWakeup, WakeupUnderWay, WorkThread
<1>17. CASE TestAlive
  BY <1>17 DEF NoLostWakeup, WakeupUnderWay, TestAlive
<1>18. CASE ProcessWakeup
  <2>1. /\ pending \in Seq(Handles) /\ pending # <<>> /\ pending' = Tail(pending)
        /\ Head(pending) \in Async /\ iocp' = iocp /\ handle' = handle
        /\ producer' = producer /\ event_queue' = event_queue
    BY <1>18 DEF TypeOK, ProcessWakeup
  <2>2. SetOf(pending) = {Head(pending)} \cup SetOf(pending')
    BY <2>1, SetOfHead
  <2>3. loop = "reqs"
    BY <1>18 DEF ProcessWakeup
  <2>4. CASE Head(pending) = "event"
    BY <1>18, <2>1, <2>4
    DEF ProcessWakeup, WakeupOfOpen, WakeupOfClosing, NoLostWakeup
  <2>5. CASE Head(pending) # "event"
    BY <2>1, <2>2, <2>3, <2>5 DEF NoLostWakeup, WakeupUnderWay
  <2> QED
    BY <2>4, <2>5
<1>19. CASE ProcessCompletion
  <2>1. /\ pending \in Seq(Handles) /\ pending # <<>> /\ pending' = Tail(pending)
        /\ Head(pending) \in Users /\ handle' = handle /\ producer' = producer
        /\ loop' = loop
    BY <1>19 DEF TypeOK, ProcessCompletion
  <2>2. SetOf(pending) = {Head(pending)} \cup SetOf(pending')
    BY <2>1, SetOfHead
  <2>3. "event" \in SetOf(pending) => "event" \in SetOf(pending')
    BY <2>1, <2>2, NamesAssumption DEF Async
  <2>4. CASE iocp' = iocp /\ event_queue' = event_queue
    BY <2>1, <2>3, <2>4 DEF NoLostWakeup, WakeupUnderWay
  <2>5. CASE SendAsync("event")
    BY <2>3, <2>5, SendAsyncWakes DEF NoLostWakeup, WakeupUnderWay, Async
  <2> QED
    BY <1>19, <2>4, <2>5
    DEF ProcessCompletion, CallbackReturns, CallbackPushes, CompletionOfClosing
<1>20. CASE ReqsDone
  BY <1>20 DEF NoLostWakeup, WakeupUnderWay, ReqsDone
<1>21. CASE LockQueue
  BY <1>21 DEF NoLostWakeup, WakeupUnderWay, LockQueue
<1>22. CASE HandleEvent
  BY <1>22 DEF HandleEvent, NoLostWakeup
<1>23. CASE QueueEmpty
  BY <1>23 DEF NoLostWakeup, WakeupUnderWay, QueueEmpty
<1>24. ASSUME NEW h \in Handles, WalkCloses(h) PROVE NoLostWakeup'
  BY <1>24 DEF TypeOK, NoLostWakeup, WakeupUnderWay, WalkCloses, ToClose
<1>25. CASE WalkEnds
  BY <1>25 DEF NoLostWakeup, WakeupUnderWay, WalkEnds
<1>26. CASE Poll
  <2>1. pending = <<>> /\ pending' = iocp
    BY <1>26 DEF Poll, PollInv
  <2>2. SetOf(pending) = {}
    BY <2>1 DEF SetOf
  <2> QED
    BY <1>26, <2>1, <2>2 DEF Poll, NoLostWakeup, WakeupUnderWay
<1>27. ASSUME NEW h \in Handles, Endgame(h) PROVE NoLostWakeup'
  BY <1>27 DEF TypeOK, NoLostWakeup, WakeupUnderWay, Endgame, Quiet
<1>28. CASE EndgamesDone
  BY <1>28 DEF NoLostWakeup, WakeupUnderWay, EndgamesDone
<1>29. CASE RunReturns
  BY <1>29 DEF NoLostWakeup, WakeupUnderWay, RunReturns
<1>30. ASSUME NEW u \in Users, Complete(u) PROVE NoLostWakeup'
  <2>1. iocp \in Seq(Handles) /\ iocp' = Append(iocp, u) /\ u \in Handles
    BY <1>30 DEF TypeOK, Complete, Handles
  <2>2. SetOf(iocp') = SetOf(iocp) \cup {u}
    BY <2>1, SetOfAppend
  <2> QED
    BY <1>30, <2>2 DEF Complete, NoLostWakeup, WakeupUnderWay
<1>31. CASE UNCHANGED vars
  BY <1>31 DEF NoLostWakeup, WakeupUnderWay
<1> QED
  BY <1>1, <1>2, <1>3, <1>4, <1>5, <1>6, <1>7, <1>8, <1>9, <1>10, <1>11,
     <1>12, <1>13, <1>14, <1>15, <1>16, <1>17, <1>18, <1>19, <1>20, <1>21, <1>22,
     <1>23, <1>24, <1>25, <1>26, <1>27, <1>28, <1>29, <1>30, <1>31 DEF Next,
     OwnerStep, CloseStep, LoopStep

(***************************************************************************)
(* The queue.                                                              *)
(***************************************************************************)
\* Queuing an event keeps what is handled and what is queued, joined, equal to
\* what was pushed.
LEMMA EnqueueQueue ==
  ASSUME TypeOK, QueueInv, NEW s \in Sources, Enqueue(s), handled' = handled
  PROVE  QueueInv'
<1>1. NewEvent(s) \in Events
  <2>1. count[s] \in 0 .. MaxEvents /\ MaxEvents \in Nat
    BY BoundsAssumption DEF TypeOK
  <2>2. count[s] + 1 \in 1 .. MaxEvents
    BY <2>1 DEF Enqueue
  <2> QED
    BY <2>2 DEF NewEvent, Events
<1>2. handled \in Seq(Events) /\ event_queue \in Seq(Events)
  BY DEF TypeOK
<1>3. handled \o Append(event_queue, NewEvent(s))
        = Append(handled \o event_queue, NewEvent(s))
  BY <1>1, <1>2
<1> QED
  BY <1>3 DEF QueueInv, Enqueue

\* Moving the front of the queue to what is handled does too.
LEMMA HandleQueue ==
  ASSUME TypeOK, QueueInv, HandleEvent
  PROVE  QueueInv'
<1>1. handled \in Seq(Events) /\ event_queue \in Seq(Events)
      /\ event_queue # <<>>
  BY DEF TypeOK, HandleEvent
<1>2. Append(handled, Head(event_queue)) \o Tail(event_queue)
        = handled \o event_queue
  BY <1>1
<1> QED
  BY <1>2 DEF QueueInv, HandleEvent, histories

\* What is handled and what is queued are together what was pushed.
LEMMA QueueStep ==
  ASSUME TypeOK, QueueInv, [Next]_vars
  PROVE  QueueInv'
<1> USE DEF vars, threads, flagVars, queueVars, loopVars, histories
<1>1. CASE StartThread
  BY <1>1 DEF QueueInv, StartThread
<1>2. CASE StartFails
  BY <1>2 DEF QueueInv, StartFails
<1>3. CASE InitCloseAsync
  BY <1>3 DEF QueueInv, InitCloseAsync, InitAsync
<1>4. CASE InitEventAsync
  BY <1>4 DEF QueueInv, InitEventAsync, InitAsync
<1>5. CASE WaitInited
  BY <1>5 DEF QueueInv, WaitInited
<1>6. ASSUME NEW u \in Users, Attach(u) PROVE QueueInv'
  BY <1>6 DEF QueueInv, Attach
<1>7. CASE Ready
  BY <1>7 DEF QueueInv, Ready
<1>8. CASE OwnerNeedNotClose
  BY <1>8 DEF QueueInv, OwnerNeedNotClose
<1>9. CASE Join
  BY <1>9 DEF QueueInv, Join
<1>10. CASE Destroy
  BY <1>10 DEF QueueInv, Destroy
<1>11. ASSUME NEW c \in CloseCallers, CloseCheck(c) PROVE QueueInv'
  BY <1>11 DEF QueueInv, CloseCheck
<1>12. ASSUME NEW c \in CloseCallers, CloseSet(c) PROVE QueueInv'
  BY <1>12 DEF QueueInv, CloseSet
<1>13. ASSUME NEW c \in CloseCallers, CloseSend(c) PROVE QueueInv'
  BY <1>13 DEF QueueInv, CloseSend
<1>14. ASSUME NEW p \in Producers, PushLocked(p) PROVE QueueInv'
  BY <1>14, EnqueueQueue DEF PushLocked, Sources
<1>15. ASSUME NEW p \in Producers, SendAndUnlock(p) PROVE QueueInv'
  BY <1>15 DEF QueueInv, SendAndUnlock
<1>16. CASE WorkThread
  BY <1>16 DEF QueueInv, WorkThread
<1>17. CASE TestAlive
  BY <1>17 DEF QueueInv, TestAlive
<1>18. CASE ProcessWakeup
  BY <1>18 DEF QueueInv, ProcessWakeup
<1>19. CASE ProcessCompletion
  <2>1. CASE Enqueue(Head(pending)) /\ handled' = handled
    BY <1>19, <2>1, EnqueueQueue DEF ProcessCompletion, Sources
  <2>2. CASE UNCHANGED <<event_queue, pushed, handled>>
    BY <2>2 DEF QueueInv
  <2> QED
    BY <1>19, <2>1, <2>2
    DEF ProcessCompletion, CallbackReturns, CallbackPushes, CompletionOfClosing
<1>20. CASE ReqsDone
  BY <1>20 DEF QueueInv, ReqsDone
<1>21. CASE LockQueue
  BY <1>21 DEF QueueInv, LockQueue
<1>22. CASE HandleEvent
  BY <1>22, HandleQueue
<1>23. CASE QueueEmpty
  BY <1>23 DEF QueueInv, QueueEmpty
<1>24. ASSUME NEW h \in Handles, WalkCloses(h) PROVE QueueInv'
  BY <1>24 DEF QueueInv, WalkCloses
<1>25. CASE WalkEnds
  BY <1>25 DEF QueueInv, WalkEnds
<1>26. CASE Poll
  BY <1>26 DEF QueueInv, Poll
<1>27. ASSUME NEW h \in Handles, Endgame(h) PROVE QueueInv'
  BY <1>27 DEF QueueInv, Endgame
<1>28. CASE EndgamesDone
  BY <1>28 DEF QueueInv, EndgamesDone
<1>29. CASE RunReturns
  BY <1>29 DEF QueueInv, RunReturns
<1>30. ASSUME NEW u \in Users, Complete(u) PROVE QueueInv'
  BY <1>30 DEF QueueInv, Complete
<1>31. CASE UNCHANGED vars
  BY <1>31 DEF QueueInv
<1> QED
  BY <1>1, <1>2, <1>3, <1>4, <1>5, <1>6, <1>7, <1>8, <1>9, <1>10, <1>11,
     <1>12, <1>13, <1>14, <1>15, <1>16, <1>17, <1>18, <1>19, <1>20, <1>21, <1>22,
     <1>23, <1>24, <1>25, <1>26, <1>27, <1>28, <1>29, <1>30, <1>31 DEF Next,
     OwnerStep, CloseStep, LoopStep

(***************************************************************************)
(* The theorems.                                                           *)
(***************************************************************************)
\* A new looper satisfies the inductive invariant.
LEMMA InitIInv == Init => IInv
<1> SUFFICES ASSUME Init PROVE IInv
  OBVIOUS
<1>1. TypeOK
  <2>1. 0 \in 0 .. MaxEvents
    BY BoundsAssumption
  <2>2. /\ event_queue \in Seq(Events) /\ pushed \in Seq(Events)
        /\ handled \in Seq(Events) /\ iocp \in Seq(Handles)
        /\ pending \in Seq(Handles)
    BY DEF Init
  <2>3. count \in [Sources -> 0 .. MaxEvents]
    BY <2>1 DEF Init
  <2>4. /\ producer \in [Producers -> {"idle", "send"}]
        /\ closer \in [CloseCallers -> {"idle", "set", "send"}]
        /\ handle \in [Handles -> {"none", "open", "closing", "closed"}]
        /\ async_sent \in [Async -> BOOLEAN]
        /\ io \in [Users -> {"idle", "pending", "posted"}]
    BY DEF Init
  <2> QED
    BY <2>2, <2>3, <2>4 DEF Init, TypeOK
<1>2. MutexInv
  BY NamesAssumption DEF Init, MutexInv
<1>3. SentInv /\ PollInv /\ EarlyInv /\ NoLostWakeup
  BY DEF Init, SentInv, PollInv, EarlyInv, NoLostWakeup, Handles
<1>4. QueueInv
  BY DEF Init, QueueInv
<1> QED
  BY <1>1, <1>2, <1>3, <1>4 DEF IInv

\* No step of any thread breaks it.
LEMMA NextIInv == IInv /\ [Next]_vars => IInv'
<1> SUFFICES ASSUME IInv, [Next]_vars PROVE IInv'
  OBVIOUS
<1>1. TypeOK /\ MutexInv /\ SentInv /\ PollInv /\ EarlyInv /\ QueueInv
      /\ NoLostWakeup
  BY DEF IInv
<1>2. TypeOK'
  BY <1>1, TypeStep
<1>3. MutexInv'
  BY <1>1, MutexStep
<1>4. SentInv' /\ PollInv'
  BY <1>1, SentStep, PollStep
<1>5. EarlyInv'
  BY <1>1, EarlyStep
<1>6. QueueInv'
  BY <1>1, QueueStep
<1>7. NoLostWakeup'
  BY <1>1, WakeupStep
<1> QED
  BY <1>2, <1>3, <1>4, <1>5, <1>6, <1>7 DEF IInv

\* Every variable keeps its type, the mutex and the wakeup flags tell the truth,
\* and the queue holds what was pushed and not handled (CLooper, uv_async_send).
THEOREM Inductive == Spec => []IInv
<1> QED
  BY InitIInv, NextIInv, PTL DEF Spec

\* However PushEvent, DoEvent and the processing of wakeups interleave, queued
\* events always have somebody on the way to them, until the handle is closed.
THEOREM WakeupsAreNotLost == Spec => []NoLostWakeup
<1>1. IInv => NoLostWakeup
  BY DEF IInv
<1> QED
  BY <1>1, Inductive, PTL

\* A step of the looper is a step of the channel, or leaves it alone.
LEMMA QueueRefines ==
  ASSUME IInv, [Next]_vars
  PROVE  [Queue!ChannelNext]_<<pushed, handled>>
<1> USE DEF vars, threads, flagVars, queueVars, loopVars, histories
<1>1. ASSUME NEW s \in Sources, Enqueue(s), handled' = handled
      PROVE  Queue!ChannelNext
  <2>1. count[s] \in 0 .. MaxEvents /\ MaxEvents \in Nat
    BY <1>1, BoundsAssumption DEF IInv, TypeOK
  <2>2. count[s] + 1 \in 1 .. MaxEvents
    BY <1>1, <2>1 DEF Enqueue
  <2>3. NewEvent(s) \in Events
    BY <1>1, <2>2 DEF NewEvent, Events
  <2>4. Queue!Put(NewEvent(s))
    BY <1>1 DEF Queue!Put, Enqueue
  <2> QED
    BY <2>3, <2>4 DEF Queue!ChannelNext
<1>2. ASSUME HandleEvent PROVE Queue!Get
  <2>1. /\ handled \in Seq(Events) /\ event_queue \in Seq(Events)
        /\ event_queue # <<>> /\ pushed = handled \o event_queue
        /\ handled' = Append(handled, Head(event_queue)) /\ pushed' = pushed
    BY <1>2 DEF IInv, TypeOK, QueueInv, HandleEvent
  <2>2. /\ Len(handled) \in Nat /\ Len(event_queue) \in Nat \ {0}
        /\ Head(event_queue) = event_queue[1]
    BY <2>1
  <2>3. Len(handled) < Len(handled) + Len(event_queue)
    BY <2>2
  <2>4. /\ Len(pushed) = Len(handled) + Len(event_queue)
        /\ pushed[Len(handled) + 1] = event_queue[1]
    BY <2>1, <2>2
  <2> QED
    BY <2>1, <2>2, <2>3, <2>4 DEF Queue!Get
<1>3. CASE HandleEvent
  BY <1>2, <1>3 DEF Queue!ChannelNext
<1>4. CASE \E p \in Producers : PushLocked(p)
  BY <1>1, <1>4 DEF PushLocked, Sources
<1>5. CASE ProcessCompletion
  <2>1. CASE Enqueue(Head(pending)) /\ handled' = handled
    BY <1>1, <1>5, <2>1 DEF ProcessCompletion, Sources
  <2> QED
    BY <1>5, <2>1
    DEF ProcessCompletion, CallbackReturns, CallbackPushes, CompletionOfClosing
<1>6. CASE OwnerStep \/ Destroy \/ UNCHANGED vars
  BY <1>6
  DEF OwnerStep, Destroy, StartThread, StartFails, InitCloseAsync, InitEventAsync,
      InitAsync, WaitInited, Attach, Ready, OwnerNeedNotClose, Join
<1>7. CASE \E c \in CloseCallers : CloseStep(c)
  BY <1>7 DEF CloseStep, CloseCheck, CloseSet, CloseSend
<1>8. CASE \/ \E p \in Producers : SendAndUnlock(p)
           \/ \E u \in Users : Complete(u)
  BY <1>8 DEF SendAndUnlock, Complete
<1>9. CASE \/ WorkThread \/ TestAlive \/ ProcessWakeup \/ ReqsDone \/ LockQueue
           \/ QueueEmpty \/ WalkEnds \/ Poll \/ EndgamesDone \/ RunReturns
           \/ \E h \in Handles : WalkCloses(h) \/ Endgame(h)
  BY <1>9
  DEF WorkThread, TestAlive, ProcessWakeup, ReqsDone, LockQueue, QueueEmpty,
      WalkEnds, Poll, EndgamesDone, RunReturns, WalkCloses, Endgame
<1> QED
  BY <1>3, <1>4, <1>5, <1>6, <1>7, <1>8, <1>9 DEF Next, LoopStep

\* The queue between PushEvent and DoEvent is a first-in-first-out channel: every
\* event is handled at most once, in the order pushed, from any number of threads.
THEOREM QueueIsAChannel == Spec => ImplementsQueue
<1>1. Init => Queue!ChannelInit
  BY DEF Init, Queue!ChannelInit
<1>2. IInv /\ [Next]_vars => [Queue!ChannelNext]_(Queue!channel)
  BY QueueRefines DEF Queue!channel
<1> QED
  BY <1>1, <1>2, Inductive, PTL DEF Spec, ImplementsQueue, Queue!ChannelSpec
=============================================================================
