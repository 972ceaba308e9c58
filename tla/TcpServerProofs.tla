-------------------------- MODULE TcpServerProofs --------------------------
(***************************************************************************)
(* Proofs about TcpServer, for any number of connections, calls and        *)
(* broadcasts: every context is in one place and points to its session,    *)
(* broadcasts arrive in order and never where they are excluded, sessions  *)
(* come and go once each, queued events find their sessions, and the lists *)
(* of idle contexts and of free write requests stay bounded.               *)
(***************************************************************************)
EXTENDS TcpServer, TLAPS, FiniteSetTheorems, WellFoundedInduction

Events == [type : {"CLOSE", "SHUTDOWN", "BROADCAST"}, s : Nat]

\* The types the invariants need.
Types ==
  /\ loop \in {"reqs", "drain", "endgames", "done", "lost"}
  /\ stop \in {"no", "asked", "walked"}
  /\ queue \in Seq(Events)
  /\ last_id \in 0 .. MaxSessions
  /\ Sessions \subseteq 1 .. last_id /\ map \in [Sessions -> Contexts]
  /\ tcp \in [Contexts -> Handle] /\ data \in [Contexts -> 0 .. MaxSessions]
  /\ made \in 0 .. last_id /\ idle \in Seq(Contexts) /\ freed \subseteq Contexts
  /\ asked \subseteq Ids /\ posts \in Seq(SUBSET Ids)
  /\ got \in [Ids -> Seq(Nat)]
  /\ news \in Seq(Ids) /\ gone \in Seq(Ids)

(***************************************************************************)
(* The inductive invariants.                                               *)
(***************************************************************************)
\* Contexts: each of those made is with one session, at one position of the list
\* of idle ones, or freed.
InjectiveMap == \A s, t \in Sessions : map[s] = map[t] => s = t

IdleOnce == \A i, j \in 1 .. Len(idle) : idle[i] = idle[j] => i = j

Apart ==
  /\ \A i \in 1 .. Len(idle) : idle[i] \notin freed
  /\ \A s \in Sessions : map[s] \notin freed
  /\ \A s \in Sessions, i \in 1 .. Len(idle) : map[s] # idle[i]

AllMade ==
  \A c \in Contexts :
    c <= made <=> \/ c \in freed
                  \/ \E i \in 1 .. Len(idle) : idle[i] = c
                  \/ \E s \in Sessions : map[s] = c

InitialisedUsed ==
  \A c \in Contexts : tcp[c].life # "none" <=> \E s \in Sessions : map[s] = c

PointBack == \A s \in Sessions : data[map[s]] = s

IdleBounded == Len(idle) <= MaxList + 1

ContextInv ==
  InjectiveMap /\ IdleOnce /\ Apart /\ AllMade /\ InitialisedUsed /\ PointBack
    /\ IdleBounded

\* Callbacks: one for each session that came, and one for each that has gone.
NewsInv ==
  /\ Len(news) = last_id
  /\ \A s \in Ids : s \in ItemsOf(news) <=> s \in Sessions \/ s \in ItemsOf(gone)
  /\ loop = "done" => \A c \in Contexts : tcp[c].life = "none"

\* Broadcasts: those queued are later than those written to anybody, and in order.
Posted(i) == queue[i].type = "BROADCAST"

BroadcastInv ==
  /\ \A i \in 1 .. Len(queue) : Posted(i) => queue[i].s \in 1 .. Len(posts)
  /\ \A i, j \in 1 .. Len(queue) :
       Posted(i) /\ Posted(j) /\ i < j => queue[i].s < queue[j].s
  /\ \A s \in Ids : \A k \in 1 .. Len(got[s]) :
       /\ got[s][k] \in 1 .. Len(posts)
       /\ s \notin posts[got[s][k]]
       /\ \A i \in 1 .. Len(queue) : Posted(i) => got[s][k] < queue[i].s
       /\ \A j \in 1 .. k - 1 : got[s][j] < got[s][k]

\* Events: a session that is told to close is not closed before the queue is
\* empty again; one that is told to shut down, only after that.  A session may be
\* told both.
Draining == loop \in {"drain", "lost"}
CloseQueued(i) == queue[i].type = "CLOSE" /\ queue[i].s \notin asked
ShutdownQueued(i) == queue[i].type = "SHUTDOWN"

Found(s) == s \in Sessions /\ (Draining \/ tcp[map[s]].life = "open")

CloseEventsInv ==
  \A i \in 1 .. Len(queue) : CloseQueued(i) => Found(queue[i].s)

ShutdownEventsInv ==
  /\ \A i \in 1 .. Len(queue) : ShutdownQueued(i) =>
       /\ Found(queue[i].s) /\ queue[i].s \in asked
       /\ ~tcp[map[queue[i].s]].shutdown
  /\ \A i, j \in 1 .. Len(queue) :
       ShutdownQueued(i) /\ ShutdownQueued(j) /\ queue[i].s = queue[j].s => i = j

EventInv ==
  /\ Draining => stop # "walked"
  /\ \A s \in Sessions : tcp[map[s]].shutdown => s \in asked
  /\ stop # "walked" => CloseEventsInv /\ ShutdownEventsInv

\* The pool of write requests, and the rest of what the server keeps.
Fill == 0 .. MaxList + 1
Counts ==
  /\ pool \in Fill /\ calls \in Nat
  /\ listener \in {"open", "closing", "quiet", "closed"} /\ is_closed \in BOOLEAN

IInv == Types /\ ContextInv /\ NewsInv /\ BroadcastInv

-----------------------------------------------------------------------------
(***************************************************************************)
(* Types.                                                                  *)
(***************************************************************************)
\* What a handle becomes is a handle.
LEMMA HandleTypes ==
  /\ NoHandle \in Handle /\ Accepted \in Handle
  /\ \A h \in Handle :
       /\ Close(h) \in Handle /\ Written(h) \in Handle
       /\ \A b \in BOOLEAN : /\ [h EXCEPT !.read = b] \in Handle
                            /\ [Close(h) EXCEPT !.shutdown = b] \in Handle
       /\ h.writes > 0 => [h EXCEPT !.writes = @ - 1] \in Handle
       /\ [h EXCEPT !.writable = FALSE, !.shutdown = TRUE] \in Handle
<1>1. NoHandle \in Handle /\ Accepted \in Handle
  BY DEF Handle, NoHandle, Accepted
<1>2. ASSUME NEW h \in Handle, NEW b \in BOOLEAN
      PROVE  /\ [h EXCEPT !.read = b] \in Handle
             /\ [h EXCEPT !.shutdown = b] \in Handle
             /\ [h EXCEPT !.writable = FALSE, !.shutdown = TRUE] \in Handle
  BY <1>2 DEF Handle
<1>3. ASSUME NEW h \in Handle PROVE Close(h) \in Handle /\ Written(h) \in Handle
  <2>1. Close(h) \in Handle
    BY <1>3 DEF Handle, Close
  <2>2. Written(h) \in Handle
    BY <1>3 DEF Handle, Written
  <2> QED
    BY <2>1, <2>2
<1>4. ASSUME NEW h \in Handle, h.writes > 0
      PROVE  [h EXCEPT !.writes = @ - 1] \in Handle
  <2>1. h.writes - 1 \in Nat
    BY <1>4 DEF Handle
  <2> QED
    BY <2>1 DEF Handle
<1>5. \A h \in Handle, b \in BOOLEAN : [Close(h) EXCEPT !.shutdown = b] \in Handle
  BY <1>2, <1>3
<1> QED
  BY <1>1, <1>2, <1>3, <1>4, <1>5

\* The context of a new session is one that is not in use: one of the idle ones,
\* or the next to be made.
LEMMA NewContextIs ==
  ASSUME Types, ContextInv, AcceptConnection
  PROVE  /\ NewContext \in Contexts
         /\ \A s \in Sessions : map[s] # NewContext
         /\ NewContext \notin freed
         /\ tcp[NewContext].life = "none"
<1> DEFINE c == NewContext
<1>1. MaxSessions \in Nat /\ last_id \in 0 .. MaxSessions - 1 /\ made \in 0 .. last_id
  BY BoundsAssumption DEF Types, AcceptConnection
<1>2. CASE idle = <<>>
  <2>1. c = made + 1 /\ c \in Contexts /\ ~(c <= made)
    BY <1>1, <1>2 DEF NewContext, Contexts
  <2> QED
    BY <2>1 DEF ContextInv, AllMade, InitialisedUsed
<1>3. CASE idle # <<>>
  <2>1. c = idle[1] /\ c \in Contexts /\ 1 \in 1 .. Len(idle)
    BY <1>3 DEF NewContext, Types
  <2>2. c \notin freed /\ \A s \in Sessions : map[s] # c
    BY <2>1 DEF ContextInv, Apart
  <2> QED
    BY <2>1, <2>2 DEF ContextInv, InitialisedUsed
<1> QED
  BY <1>2, <1>3

\* The map of sessions after a connection.
LEMMA NewMap ==
  ASSUME Types, ContextInv, AcceptConnection
  PROVE  /\ last_id' = last_id + 1 /\ last_id' \in Ids /\ last_id' \notin Sessions
         /\ Sessions' = Sessions \cup {last_id'}
         /\ map' \in [Sessions' -> Contexts]
         /\ map'[last_id'] = NewContext
         /\ \A s \in Sessions : map'[s] = map[s]
<1>1. MaxSessions \in Nat /\ last_id \in 0 .. MaxSessions - 1
  BY BoundsAssumption DEF Types, AcceptConnection
<1>2. last_id' = last_id + 1 /\ last_id' \in Ids /\ last_id' \notin Sessions
  BY <1>1 DEF Types, AcceptConnection, Ids
<1>3. map' = [s \in Sessions \cup {last_id'} |->
                IF s = last_id' THEN NewContext ELSE map[s]]
  BY DEF AcceptConnection
<1>4. map \in [Sessions -> Contexts]
  BY DEF Types
<1> QED
  BY <1>2, <1>3, <1>4, NewContextIs DEF Sessions

\* Every step keeps the types.
LEMMA TypesStep ==
  ASSUME Types, ContextInv, [Next]_vars
  PROVE  Types'
<1> USE DEF vars, serverVars, sessionVars, poolVars, histories, Sessions
<1>0. MaxSessions \in Nat /\ MaxBroadcasts \in Nat /\ Excludes \subseteq SUBSET Ids
  BY BoundsAssumption
<1>1. CASE AcceptConnection
  <2>1. /\ last_id' \in 0 .. MaxSessions /\ Sessions' \subseteq 1 .. last_id'
        /\ map' \in [Sessions' -> Contexts] /\ last_id' \in Ids
    BY <1>0, <1>1, NewMap DEF Types, Ids
  <2>2. tcp' \in [Contexts -> Handle] /\ data' \in [Contexts -> 0 .. MaxSessions]
    <3>1. NewContext \in Contexts /\ Accepted \in Handle /\ last_id' \in 0 .. MaxSessions
      BY <1>1, <2>1, NewContextIs, HandleTypes
    <3>2. tcp' = [tcp EXCEPT ![NewContext] = Accepted]
          /\ data' = [data EXCEPT ![NewContext] = last_id']
      BY <1>1 DEF AcceptConnection
    <3> QED
      BY <3>1, <3>2 DEF Types
  <2>3. made' \in 0 .. last_id' /\ idle' \in Seq(Contexts)
    <3>1. last_id \in Nat /\ last_id' = last_id + 1 /\ made \in 0 .. last_id
          /\ idle \in Seq(Contexts)
      BY <1>0, <1>1 DEF Types, AcceptConnection
    <3>2. \/ made' = made + 1 /\ idle' = idle
          \/ idle # <<>> /\ idle' = Tail(idle) /\ made' = made
      BY <1>1 DEF AcceptConnection, TakeContext
    <3> QED
      BY <3>1, <3>2
  <2>4. news' \in Seq(Ids)
    BY <1>1, <2>1 DEF Types, AcceptConnection
  <2> QED
    BY <1>1, <2>1, <2>2, <2>3, <2>4 DEF Types, AcceptConnection
<1>2. ASSUME NEW s \in Ids, CallSend(s) PROVE Types'
  BY <1>2, HandleTypes DEF Types, CallSend, MayCall, Reads
<1>3. ASSUME NEW s \in Ids, CallClose(s) PROVE Types'
  <2>1. Event("CLOSE", s) \in Events
    BY <1>0 DEF Event, Events, Ids
  <2> QED
    BY <1>3, <2>1 DEF Types, CallClose, CallPush, MayCall
<1>4. ASSUME NEW s \in Ids, CallShutDown(s) PROVE Types'
  <2>1. Event("SHUTDOWN", s) \in Events
    BY <1>0 DEF Event, Events, Ids
  <2> QED
    BY <1>4, <2>1 DEF Types, CallShutDown, CallPush, MayCall
<1>5. ASSUME NEW s \in Ids, RecvEnd(s) PROVE Types'
  <2>1. Event("CLOSE", s) \in Events
    BY <1>0 DEF Event, Events, Ids
  <2> QED
    <3>1. map[s] \in Contexts /\ tcp[map[s]] \in Handle
      BY <1>5 DEF Types, RecvEnd, Reads
    <3>2. tcp' \in [Contexts -> Handle]
      BY <1>5, <3>1, HandleTypes DEF Types, RecvEnd
    <3>3. queue' \in Seq(Events)
      BY <1>5, <2>1 DEF Types, RecvEnd
    <3> QED
      BY <1>5, <3>2, <3>3 DEF Types, RecvEnd
<1>6. ASSUME NEW s \in Ids, ReadAborted(s) PROVE Types'
  BY <1>6, HandleTypes DEF Types, ReadAborted
<1>7. ASSUME NEW s \in Ids, AfterSend(s) PROVE Types'
  BY <1>7, HandleTypes DEF Types, AfterSend
<1>8. ASSUME NEW except \in Excludes, Broadcast(except) PROVE Types'
  <2>0. except \in SUBSET Ids /\ posts \in Seq(SUBSET Ids) /\ posts' = Append(posts, except)
    BY <1>0, <1>8 DEF Types, Broadcast
  <2>1. posts' \in Seq(SUBSET Ids) /\ Len(posts') \in Nat
    BY <2>0
  <2>2. Event("BROADCAST", Len(posts')) \in Events
    BY <2>1 DEF Event, Events
  <2> QED
    BY <1>8, <2>1, <2>2 DEF Types, Broadcast
<1>9. CASE CloseLooper
  BY <1>9 DEF Types, CloseLooper
<1>10. CASE Wakeup
  BY <1>10 DEF Types, Wakeup
<1>11. CASE CloseEvent
  <2> DEFINE c == map[Head(queue).s]
  <2>1. c \in Contexts /\ tcp[c] \in Handle /\ queue' \in Seq(Events)
    BY <1>11 DEF Types, CloseEvent, SessionEvent
  <2>2. tcp' \in [Contexts -> Handle]
    BY <1>11, <2>1, HandleTypes DEF Types, CloseEvent
  <2> QED
    BY <1>11, <2>1, <2>2 DEF Types, CloseEvent
<1>12. CASE ShutdownEvent
  <2> DEFINE c == map[Head(queue).s]
  <2>1. c \in Contexts /\ tcp[c] \in Handle /\ queue' \in Seq(Events)
    BY <1>12 DEF Types, ShutdownEvent, SessionEvent
  <2>2. tcp' \in [Contexts -> Handle]
    BY <1>12, <2>1, HandleTypes DEF Types, ShutdownEvent
  <2> QED
    BY <1>12, <2>1, <2>2 DEF Types, ShutdownEvent
<1>13. CASE BroadcastEvent
  <2> DEFINE n == Head(queue).s
             reached == {s \in Addressed(posts[n]) : tcp[map[s]].writable}
  <2>1. n \in Nat /\ queue' \in Seq(Events)
    <3>1. queue \in Seq(Events) /\ queue # <<>> /\ queue' = Tail(queue)
      BY <1>13 DEF Types, BroadcastEvent
    <3>2. Head(queue) \in Events /\ queue' \in Seq(Events)
      BY <3>1
    <3> QED
      BY <3>2 DEF Events
  <2>2. tcp' = [c \in Contexts |->
                  IF \E s \in reached : map[s] = c THEN Written(tcp[c]) ELSE tcp[c]]
        /\ got' = [s \in Ids |-> IF s \in reached THEN Append(got[s], n) ELSE got[s]]
    BY <1>13 DEF BroadcastEvent
  <2>3. tcp' \in [Contexts -> Handle] /\ got' \in [Ids -> Seq(Nat)]
    <3> HIDE DEF n, reached
    <3>1. tcp \in [Contexts -> Handle] /\ got \in [Ids -> Seq(Nat)]
      BY DEF Types
    <3>2. ASSUME NEW c \in Contexts PROVE tcp[c] \in Handle /\ Written(tcp[c]) \in Handle
      BY <3>1, HandleTypes
    <3>3. ASSUME NEW s \in Ids PROVE got[s] \in Seq(Nat) /\ Append(got[s], n) \in Seq(Nat)
      BY <2>1, <3>1
    <3> QED
      BY <2>2, <3>2, <3>3
  <2> QED
    BY <1>13, <2>1, <2>3 DEF Types, BroadcastEvent
<1>14. CASE Drained
  BY <1>14 DEF Types, Drained
<1>15. CASE Walk
  BY <1>15, HandleTypes DEF Types, Walk
<1>16. CASE AcceptsAborted
  BY <1>16 DEF Types, AcceptsAborted
<1>17. CASE EndReqs
  BY <1>17 DEF Types, EndReqs
<1>18. ASSUME NEW s \in Ids, AfterShutDown(s) PROVE Types'
  BY <1>18, HandleTypes DEF Types, AfterShutDown
<1>19. ASSUME NEW s \in Ids, AfterClientClose(s) PROVE Types'
  <2>1. map[s] \in Contexts /\ s \in Sessions
    BY <1>19 DEF Types, AfterClientClose
  <2>2. map' = [t \in Sessions \ {s} |-> map[t]] /\ last_id' = last_id
    BY <1>19 DEF AfterClientClose
  <2>3. Sessions' \subseteq 1 .. last_id' /\ map' \in [Sessions' -> Contexts]
    BY <2>2 DEF Types
  <2>4. tcp' \in [Contexts -> Handle]
    <3>1. tcp' = [tcp EXCEPT ![map[s]] = NoHandle] /\ tcp \in [Contexts -> Handle]
      BY <1>19 DEF Types, AfterClientClose
    <3> QED
      BY <2>1, <3>1, HandleTypes
  <2>5. idle' \in Seq(Contexts) /\ freed' \subseteq Contexts
    <3>1. \/ idle' = Append(idle, map[s]) /\ freed' = freed
          \/ idle' = idle /\ freed' = freed \cup {map[s]}
      BY <1>19 DEF AfterClientClose, Recycle
    <3>2. idle \in Seq(Contexts) /\ freed \subseteq Contexts
      BY DEF Types
    <3> QED
      BY <2>1, <3>1, <3>2
  <2>6. gone' \in Seq(Ids)
    BY <1>19 DEF Types, AfterClientClose
  <2> QED
    BY <1>19, <2>3, <2>4, <2>5, <2>6 DEF Types, AfterClientClose
<1>20. CASE AfterServerClose
  BY <1>20 DEF Types, AfterServerClose
<1>21. CASE EndgamesDone
  BY <1>21 DEF Types, EndgamesDone
<1>22. CASE LoopReturns
  BY <1>22 DEF Types, LoopReturns
<1>23. CASE UNCHANGED vars
  BY <1>23 DEF Types
<1>24. CASE DeletedEvent
  <2>1. /\ queue \in Seq(Events) /\ tcp \in [Contexts -> Handle]
        /\ loop \in {"reqs", "drain", "endgames", "done", "lost"}
    BY DEF Types
  <2>2. loop' \in {"drain", "lost"}
    BY <1>24 DEF DeletedEvent
  <2>3. queue' \in Seq(Events)
    <3>1. queue # <<>> /\ queue' \in {queue, Tail(queue)}
      BY <1>24 DEF DeletedEvent
    <3> QED
      BY <2>1, <3>1
  <2>4. tcp' \in [Contexts -> Handle]
    <3>1. ASSUME NEW c \in Contexts PROVE [tcp EXCEPT ![c] = Close(@)] \in [Contexts -> Handle]
      BY <2>1, HandleTypes
    <3>2. tcp' = tcp \/ \E c \in Contexts : tcp' = [tcp EXCEPT ![c] = Close(@)]
      BY <1>24 DEF DeletedEvent
    <3> QED
      BY <2>1, <3>1, <3>2
  <2> QED
    BY <1>24, <2>2, <2>3, <2>4 DEF Types, DeletedEvent
<1> QED
  BY <1>1, <1>2, <1>3, <1>4, <1>5, <1>6, <1>7, <1>8, <1>9, <1>10, <1>11, <1>12,
     <1>13, <1>14, <1>15, <1>16, <1>17, <1>18, <1>19, <1>20, <1>21, <1>22, <1>23,
     <1>24
  DEF Next, Callback, Completion, DoEvent, Endgame

-----------------------------------------------------------------------------
(***************************************************************************)
(* Contexts.                                                               *)
(***************************************************************************)
\* A step that neither moves a context nor initialises or ends a handle.
LEMMA SameContexts ==
  ASSUME ContextInv, UNCHANGED <<map, data, made, idle, freed>>,
         \A c \in Contexts : tcp'[c].life = "none" <=> tcp[c].life = "none"
  PROVE  ContextInv'
<1> USE DEF Sessions
<1>1. InjectiveMap' /\ IdleOnce' /\ Apart' /\ AllMade' /\ PointBack' /\ IdleBounded'
  BY DEF ContextInv, InjectiveMap, IdleOnce, Apart, AllMade, PointBack, IdleBounded
<1>2. InitialisedUsed'
  BY DEF ContextInv, InitialisedUsed
<1> QED
  BY <1>1, <1>2 DEF ContextInv

\* Closing, writing and ending a shutdown leave a handle initialised, or not.
LEMMA LifeStays ==
  ASSUME NEW h \in Handle
  PROVE  /\ Close(h).life = "none" <=> h.life = "none"
         /\ Written(h).life = h.life /\ Written(h).shutdown = h.shutdown
         /\ Close(h).shutdown = h.shutdown
         /\ \A b \in BOOLEAN : /\ [h EXCEPT !.shutdown = b].life = h.life
                              /\ [h EXCEPT !.shutdown = b].shutdown = b
BY DEF Handle, Close, Written

\* A new connection takes a context that was idle, or makes one.
LEMMA ContextAccept ==
  ASSUME Types, ContextInv, AcceptConnection
  PROVE  ContextInv'
<1> DEFINE c == NewContext
           n == last_id'
<1>1. /\ c \in Contexts /\ c \notin freed /\ \A s \in Sessions : map[s] # c
  BY NewContextIs
<1>2. /\ Sessions' = Sessions \cup {n} /\ n \notin Sessions
      /\ map'[n] = c /\ \A s \in Sessions : map'[s] = map[s]
      /\ \A s \in Sessions : map[s] \in Contexts
  BY NewMap DEF Types
<1>3. /\ tcp' = [tcp EXCEPT ![c] = Accepted] /\ data' = [data EXCEPT ![c] = n]
      /\ freed' = freed /\ tcp \in [Contexts -> Handle]
      /\ data \in [Contexts -> 0 .. MaxSessions]
  BY DEF AcceptConnection, Types
<1>4. made \in Nat /\ MaxSessions \in Nat /\ idle \in Seq(Contexts) /\ MaxList \in Nat
  BY BoundsAssumption DEF Types
<1>5. \/ /\ idle = <<>> /\ c = made + 1 /\ made' = made + 1 /\ idle' = idle
      \/ /\ idle # <<>> /\ c = idle[1] /\ made' = made /\ idle' = Tail(idle)
  BY <1>4 DEF AcceptConnection, TakeContext, NewContext
<1> HIDE DEF c, n
<1>6. InjectiveMap'
  BY <1>1, <1>2 DEF ContextInv, InjectiveMap
<1>7. PointBack'
  BY <1>1, <1>2, <1>3 DEF ContextInv, PointBack
<1>8. InitialisedUsed'
  <2>1. Accepted.life = "open"
    BY DEF Accepted
  <2>2. ASSUME NEW d \in Contexts
        PROVE  tcp'[d].life # "none" <=> \E s \in Sessions' : map'[s] = d
    BY <1>1, <1>2, <1>3, <2>1 DEF ContextInv, InitialisedUsed
  <2> QED
    BY <2>2 DEF InitialisedUsed
<1>9. CASE idle = <<>>
  <2>1. c = made + 1 /\ made' = made + 1 /\ idle' = idle /\ Len(idle) = 0
    BY <1>5, <1>9
  <2>2. IdleOnce' /\ IdleBounded'
    BY <2>1 DEF ContextInv, IdleOnce, IdleBounded
  <2>3. Apart'
    BY <1>1, <1>2, <1>3, <1>4, <2>1 DEF ContextInv, Apart
  <2>4. ASSUME NEW d \in Contexts
        PROVE  d <= made' <=> \/ d \in freed'
                              \/ \E i \in 1 .. Len(idle') : idle'[i] = d
                              \/ \E s \in Sessions' : map'[s] = d
    <3>1. d \in Nat
      BY DEF Contexts
    <3>2. d <= made' <=> d <= made \/ d = c
      BY <1>4, <2>1, <3>1
    <3>3. ~\E i \in 1 .. Len(idle') : idle'[i] = d
      BY <2>1
    <3>4. ~\E i \in 1 .. Len(idle) : idle[i] = d
      BY <2>1
    <3> QED
      BY <1>2, <1>3, <3>2, <3>3, <3>4 DEF ContextInv, AllMade
  <2> QED
    BY <1>6, <1>7, <1>8, <2>2, <2>3, <2>4 DEF ContextInv, AllMade
<1>10. CASE idle # <<>>
  <2>1. c = idle[1] /\ made' = made /\ idle' = Tail(idle)
    BY <1>5, <1>10
  <2>2. /\ Len(idle) \in Nat \ {0} /\ Len(idle') = Len(idle) - 1
        /\ \A i \in 1 .. Len(idle') : i + 1 \in 1 .. Len(idle) /\ idle'[i] = idle[i + 1]
    BY <1>4, <1>10, <2>1
  <2>3. IdleOnce'
    BY <2>2 DEF ContextInv, IdleOnce
  <2>4. IdleBounded'
    BY <1>4, <2>2 DEF ContextInv, IdleBounded
  <2>5. \A i \in 1 .. Len(idle') : idle'[i] # c
    BY <2>1, <2>2 DEF ContextInv, IdleOnce
  <2>6. Apart'
    BY <1>1, <1>2, <1>3, <2>2, <2>5 DEF ContextInv, Apart
  <2>7. ASSUME NEW d \in Contexts
        PROVE  d <= made' <=> \/ d \in freed'
                              \/ \E i \in 1 .. Len(idle') : idle'[i] = d
                              \/ \E s \in Sessions' : map'[s] = d
    <3>1. (\E i \in 1 .. Len(idle) : idle[i] = d)
            <=> d = c \/ \E i \in 1 .. Len(idle') : idle'[i] = d
      <4>1. ASSUME NEW i \in 1 .. Len(idle), idle[i] = d, d # c
            PROVE  \E j \in 1 .. Len(idle') : idle'[j] = d
        <5>1. i # 1
          BY <2>1, <4>1
        <5>2. i - 1 \in 1 .. Len(idle') /\ (i - 1) + 1 = i
          BY <2>2, <5>1
        <5>3. idle'[i - 1] = d
          BY <2>2, <4>1, <5>2
        <5> QED
          BY <5>2, <5>3
      <4>2. 1 \in 1 .. Len(idle)
        BY <2>2
      <4> QED
        BY <2>1, <2>2, <4>1, <4>2
    <3> QED
      BY <1>2, <1>3, <2>1, <3>1 DEF ContextInv, AllMade
  <2> QED
    BY <1>6, <1>7, <1>8, <2>3, <2>4, <2>6, <2>7 DEF ContextInv, AllMade
<1> QED
  BY <1>9, <1>10

\* The context of a session that ends becomes idle, or is freed.
LEMMA ContextClose ==
  ASSUME Types, ContextInv, NEW s \in Ids, AfterClientClose(s)
  PROVE  ContextInv'
<1> DEFINE c == map[s]
<1>1. /\ s \in Sessions /\ c \in Contexts
      /\ Sessions' = Sessions \ {s} /\ \A t \in Sessions' : map'[t] = map[t]
  BY DEF AfterClientClose, Types, Sessions
<1>2. /\ tcp' = [tcp EXCEPT ![c] = NoHandle] /\ tcp \in [Contexts -> Handle]
      /\ data' = data /\ made' = made
  BY DEF AfterClientClose, Types
<1>3. idle \in Seq(Contexts) /\ MaxList \in Nat
  BY BoundsAssumption DEF Types
<1>4. \/ ~(Len(idle) > MaxList) /\ idle' = Append(idle, c) /\ freed' = freed
      \/ idle' = idle /\ freed' = freed \cup {c}
  BY DEF AfterClientClose, Recycle
<1> HIDE DEF c
<1>5. /\ c \notin freed /\ \A i \in 1 .. Len(idle) : idle[i] # c
      /\ \A t \in Sessions' : map'[t] # c
  BY <1>1 DEF ContextInv, Apart, InjectiveMap, c
<1>6. InjectiveMap' /\ PointBack'
  BY <1>1, <1>2 DEF ContextInv, InjectiveMap, PointBack
<1>7. InitialisedUsed'
  <2>1. NoHandle.life = "none"
    BY DEF NoHandle
  <2>2. ASSUME NEW d \in Contexts
        PROVE  tcp'[d].life # "none" <=> \E t \in Sessions' : map'[t] = d
    BY <1>1, <1>2, <1>5, <2>1 DEF ContextInv, InitialisedUsed, c
  <2> QED
    BY <2>2 DEF InitialisedUsed
<1>8. CASE idle' = idle /\ freed' = freed \cup {c}
  <2>1. IdleOnce' /\ IdleBounded'
    BY <1>8 DEF ContextInv, IdleOnce, IdleBounded
  <2>2. Apart'
    BY <1>1, <1>5, <1>8 DEF ContextInv, Apart
  <2>3. AllMade'
    BY <1>1, <1>2, <1>8 DEF ContextInv, AllMade, c
  <2> QED
    BY <1>6, <1>7, <2>1, <2>2, <2>3 DEF ContextInv
<1>9. CASE ~(Len(idle) > MaxList) /\ idle' = Append(idle, c) /\ freed' = freed
  <2>1. /\ Len(idle) \in Nat /\ Len(idle') = Len(idle) + 1
        /\ idle'[Len(idle) + 1] = c
        /\ \A i \in 1 .. Len(idle) : idle'[i] = idle[i]
        /\ \A i \in 1 .. Len(idle') : i \in 1 .. Len(idle) \/ i = Len(idle) + 1
    BY <1>1, <1>3, <1>9
  <2>2. IdleOnce'
    BY <1>5, <2>1 DEF ContextInv, IdleOnce
  <2>3. IdleBounded'
    BY <1>3, <1>9, <2>1 DEF ContextInv, IdleBounded
  <2>4. Apart'
    BY <1>1, <1>5, <1>9, <2>1 DEF ContextInv, Apart
  <2>5. ASSUME NEW d \in Contexts
        PROVE  d <= made' <=> \/ d \in freed'
                              \/ \E i \in 1 .. Len(idle') : idle'[i] = d
                              \/ \E t \in Sessions' : map'[t] = d
    <3>1. (\E i \in 1 .. Len(idle') : idle'[i] = d)
            <=> d = c \/ \E i \in 1 .. Len(idle) : idle[i] = d
      <4>1. \A i \in 1 .. Len(idle) : i \in 1 .. Len(idle')
        BY <2>1
      <4>2. Len(idle) + 1 \in 1 .. Len(idle')
        BY <2>1
      <4> QED
        BY <2>1, <4>1, <4>2
    <3>2. (\E t \in Sessions : map[t] = d) <=> d = c \/ \E t \in Sessions' : map'[t] = d
      BY <1>1 DEF c
    <3> QED
      BY <1>2, <1>9, <3>1, <3>2 DEF ContextInv, AllMade
  <2> QED
    BY <1>6, <1>7, <2>2, <2>3, <2>4, <2>5 DEF ContextInv, AllMade
<1> QED
  BY <1>4, <1>8, <1>9

\* What the steps other than AcceptConnection and AfterClientClose leave alone.
Settled ==
  /\ UNCHANGED <<last_id, map, data, made, idle, freed, news, gone>>
  /\ \A c \in Contexts : tcp'[c].life = "none" <=> tcp[c].life = "none"
  /\ loop' = "done" => loop = "done" \/ \A c \in Contexts : tcp[c].life = "none"

\* Every step but AcceptConnection and AfterClientClose is such a step.
LEMMA OtherSteps ==
  ASSUME Types, [Next]_vars
  PROVE  AcceptConnection \/ (\E s \in Ids : AfterClientClose(s)) \/ Settled
<1> USE DEF Settled, vars, serverVars, sessionVars, poolVars, histories
<1>1. tcp \in [Contexts -> Handle] /\ \A s \in Sessions : map[s] \in Contexts
  BY DEF Types, Sessions
<1>2. ASSUME NEW s \in Ids, CallSend(s) PROVE Settled
  BY <1>1, <1>2, LifeStays DEF CallSend, MayCall, Reads
<1>3. ASSUME NEW s \in Ids, CallClose(s) \/ CallShutDown(s) PROVE Settled
  BY <1>3 DEF CallClose, CallShutDown, CallPush, MayCall, Reads
<1>4. ASSUME NEW s \in Ids, RecvEnd(s) PROVE Settled
  BY <1>1, <1>4 DEF RecvEnd, Reads
<1>5. ASSUME NEW s \in Ids, ReadAborted(s) PROVE Settled
  BY <1>1, <1>5 DEF ReadAborted
<1>6. ASSUME NEW s \in Ids, AfterSend(s) PROVE Settled
  BY <1>1, <1>6 DEF AfterSend
<1>7. ASSUME NEW except \in Excludes, Broadcast(except) PROVE Settled
  BY <1>7 DEF Broadcast
<1>8. CASE CloseLooper \/ Wakeup \/ Drained \/ AcceptsAborted \/ EndReqs
           \/ AfterServerClose \/ EndgamesDone
  BY <1>8 DEF CloseLooper, Wakeup, Drained, AcceptsAborted, EndReqs,
     AfterServerClose, EndgamesDone
<1>9. CASE CloseEvent
  <2> DEFINE c == map[Head(queue).s]
  <2>1. c \in Contexts /\ tcp' = [tcp EXCEPT ![c] = Close(@)] /\ loop' = loop
    BY <1>1, <1>9 DEF CloseEvent, SessionEvent
  <2> HIDE DEF c
  <2> QED
    BY <1>1, <1>9, <2>1, LifeStays DEF CloseEvent
<1>10. CASE ShutdownEvent
  <2> DEFINE c == map[Head(queue).s]
  <2>1. /\ c \in Contexts /\ loop' = loop
        /\ \/ tcp' = [tcp EXCEPT ![c] = [@ EXCEPT !.writable = FALSE, !.shutdown = TRUE]]
           \/ tcp' = [tcp EXCEPT ![c] = @]
    BY <1>1, <1>10 DEF ShutdownEvent, SessionEvent
  <2> HIDE DEF c
  <2>2. \A d \in Contexts : tcp'[d].life = tcp[d].life
    <3>1. CASE tcp' = [tcp EXCEPT ![c] = @]
      BY <1>1, <3>1
    <3>2. CASE tcp' = [tcp EXCEPT ![c] = [@ EXCEPT !.writable = FALSE, !.shutdown = TRUE]]
      <4>1. [tcp[c] EXCEPT !.writable = FALSE, !.shutdown = TRUE].life = tcp[c].life
        BY <1>1, <2>1 DEF Handle
      <4> QED
        BY <1>1, <2>1, <3>2, <4>1
    <3> QED
      BY <2>1, <3>1, <3>2
  <2> QED
    BY <1>10, <2>1, <2>2 DEF ShutdownEvent
<1>11. CASE BroadcastEvent
  <2> DEFINE to == Addressed(posts[Head(queue).s])
             reached == {s \in to : tcp[map[s]].writable}
  <2>1. tcp' = [c \in Contexts |->
                  IF \E s \in reached : map[s] = c THEN Written(tcp[c]) ELSE tcp[c]]
    BY <1>11 DEF BroadcastEvent
  <2> HIDE DEF reached
  <2>2. \A c \in Contexts : tcp'[c].life = tcp[c].life
    BY <1>1, <2>1, LifeStays
  <2>3. /\ UNCHANGED <<last_id, map, data, made, idle, freed, news, gone>>
        /\ loop' = loop
    BY <1>11 DEF BroadcastEvent
  <2> QED
    BY <2>2, <2>3
<1>12. CASE Walk
  BY <1>1, <1>12, LifeStays DEF Walk
<1>13. ASSUME NEW s \in Ids, AfterShutDown(s) PROVE Settled
  <2>1. /\ map[s] \in Contexts
        /\ tcp' = [tcp EXCEPT ![map[s]] = [Close(@) EXCEPT !.shutdown = FALSE]]
    BY <1>1, <1>13 DEF AfterShutDown
  <2>2. [Close(tcp[map[s]]) EXCEPT !.shutdown = FALSE].life = Close(tcp[map[s]]).life
    BY <1>1, <2>1, HandleTypes, LifeStays
  <2>3. \A d \in Contexts : tcp'[d].life = "none" <=> tcp[d].life = "none"
    BY <1>1, <2>1, <2>2, LifeStays
  <2> QED
    BY <1>13, <2>3 DEF AfterShutDown
<1>14. CASE LoopReturns
  BY <1>14 DEF LoopReturns
<1>15. CASE UNCHANGED vars
  BY <1>15
<1>16. CASE DeletedEvent
  <2>1. \A c \in Contexts : tcp'[c].life = "none" <=> tcp[c].life = "none"
    BY <1>1, <1>16, LifeStays DEF DeletedEvent
  <2> QED
    BY <1>16, <2>1 DEF DeletedEvent
<1> QED
  BY <1>2, <1>3, <1>4, <1>5, <1>6, <1>7, <1>8, <1>9, <1>10, <1>11, <1>12, <1>13,
     <1>14, <1>15, <1>16
  DEF Next, Callback, Completion, DoEvent, Endgame

\* Every step keeps each context in one place.
LEMMA ContextStep ==
  ASSUME Types, ContextInv, [Next]_vars
  PROVE  ContextInv'
<1>1. CASE AcceptConnection
  BY <1>1, ContextAccept
<1>2. ASSUME NEW s \in Ids, AfterClientClose(s) PROVE ContextInv'
  BY <1>2, ContextClose
<1>3. CASE Settled
  BY <1>3, SameContexts DEF Settled
<1> QED
  BY <1>1, <1>2, <1>3, OtherSteps

(***************************************************************************)
(* Sessions.                                                               *)
(***************************************************************************)
\* Appending one item adds it to the items.
LEMMA ItemsOfAppend ==
  ASSUME NEW S, NEW q \in Seq(S), NEW x \in S
  PROVE  \A y : y \in ItemsOf(Append(q, x)) <=> y \in ItemsOf(q) \/ y = x
<1> DEFINE r == Append(q, x)
<1>1. /\ Len(q) \in Nat /\ Len(r) = Len(q) + 1 /\ r[Len(q) + 1] = x
      /\ \A i \in 1 .. Len(q) : r[i] = q[i]
  OBVIOUS
<1> HIDE DEF r
<1>2. ASSUME NEW y, y \in ItemsOf(r) PROVE y \in ItemsOf(q) \/ y = x
  <2>1. PICK i \in 1 .. Len(r) : y = r[i]
    BY <1>2 DEF ItemsOf
  <2>2. i = Len(q) + 1 \/ i \in 1 .. Len(q)
    BY <1>1
  <2> QED
    BY <1>1, <2>1, <2>2 DEF ItemsOf
<1>3. ASSUME NEW y, y \in ItemsOf(q) PROVE y \in ItemsOf(r)
  <2>1. PICK i \in 1 .. Len(q) : y = q[i]
    BY <1>3 DEF ItemsOf
  <2>2. i \in 1 .. Len(r) /\ r[i] = y
    BY <1>1, <2>1
  <2> QED
    BY <2>2 DEF ItemsOf
<1>4. x \in ItemsOf(r)
  <2>1. Len(q) + 1 \in 1 .. Len(r)
    BY <1>1
  <2> QED
    BY <1>1, <2>1 DEF ItemsOf
<1> QED
  BY <1>2, <1>3, <1>4 DEF r

\* Every step keeps the callbacks in accord with the sessions.
LEMMA NewsStep ==
  ASSUME Types, ContextInv, NewsInv, [Next]_vars
  PROVE  NewsInv'
<1>1. CASE AcceptConnection
  <2>1. /\ last_id' = last_id + 1 /\ last_id' \in Ids
        /\ Sessions' = Sessions \cup {last_id'}
    BY <1>1, NewMap
  <2>2. /\ news \in Seq(Ids) /\ news' = Append(news, last_id') /\ gone' = gone
        /\ loop' = "reqs"
    BY <1>1 DEF Types, AcceptConnection
  <2>3. Len(news') = last_id'
    BY <2>1, <2>2 DEF NewsInv
  <2>4. \A y : y \in ItemsOf(news') <=> y \in ItemsOf(news) \/ y = last_id'
    BY <2>1, <2>2, ItemsOfAppend
  <2> QED
    BY <2>1, <2>2, <2>3, <2>4 DEF NewsInv, ItemsOf
<1>2. ASSUME NEW s \in Ids, AfterClientClose(s) PROVE NewsInv'
  <2>1. /\ gone \in Seq(Ids) /\ gone' = Append(gone, s) /\ news' = news
        /\ last_id' = last_id /\ loop' = "endgames"
        /\ s \in Sessions /\ Sessions' = Sessions \ {s}
    BY <1>2 DEF Types, AfterClientClose, Sessions
  <2>2. \A y : y \in ItemsOf(gone') <=> y \in ItemsOf(gone) \/ y = s
    BY <2>1, ItemsOfAppend
  <2> QED
    BY <2>1, <2>2 DEF NewsInv, ItemsOf
<1>3. CASE Settled
  BY <1>3 DEF Settled, NewsInv, Sessions, ItemsOf
<1> QED
  BY <1>1, <1>2, <1>3, OtherSteps

-----------------------------------------------------------------------------
(***************************************************************************)
(* The queue.                                                              *)
(***************************************************************************)
\* PushEvent puts the event behind those queued, which keep their positions.
LEMMA QueueAppend ==
  ASSUME queue \in Seq(Events), NEW e \in Events, queue' = Append(queue, e)
  PROVE  /\ Len(queue) \in Nat /\ queue'[Len(queue) + 1] = e
         /\ \A i \in 1 .. Len(queue) : queue'[i] = queue[i]
         /\ \A i \in 1 .. Len(queue') : i \in 1 .. Len(queue) \/ i = Len(queue) + 1
OBVIOUS

\* DoEvent takes the first event, and the others move up by one position.
LEMMA QueueTail ==
  ASSUME queue \in Seq(Events), queue # <<>>, queue' = Tail(queue)
  PROVE  /\ 1 \in 1 .. Len(queue) /\ Head(queue) = queue[1] /\ queue[1] \in Events
         /\ \A i \in 1 .. Len(queue') :
              i \in Nat \ {0} /\ i + 1 \in 1 .. Len(queue) /\ queue'[i] = queue[i + 1]
OBVIOUS

(***************************************************************************)
(* Broadcasts.                                                             *)
(***************************************************************************)
\* An event of a session changes nothing for the broadcasts queued.
LEMMA BroadcastAppend ==
  ASSUME Types, BroadcastInv, UNCHANGED <<posts, got>>,
         NEW e \in Events, e.type # "BROADCAST", queue' = Append(queue, e)
  PROVE  BroadcastInv'
<1>1. /\ Len(queue) \in Nat /\ queue'[Len(queue) + 1] = e
      /\ \A i \in 1 .. Len(queue) : queue'[i] = queue[i]
      /\ \A i \in 1 .. Len(queue') : i \in 1 .. Len(queue) \/ i = Len(queue) + 1
  BY QueueAppend DEF Types
<1>2. \A i \in 1 .. Len(queue') : Posted(i)' => i \in 1 .. Len(queue) /\ Posted(i)
  BY <1>1 DEF Posted
<1> QED
  BY <1>1, <1>2 DEF BroadcastInv

\* Nor does taking the first event out of the queue.
LEMMA BroadcastTail ==
  ASSUME Types, BroadcastInv, UNCHANGED <<posts, got>>,
         queue # <<>>, queue' = Tail(queue)
  PROVE  BroadcastInv'
<1>1. \A i \in 1 .. Len(queue') :
        i \in Nat \ {0} /\ i + 1 \in 1 .. Len(queue) /\ queue'[i] = queue[i + 1]
  BY QueueTail DEF Types
<1>2. \A i \in 1 .. Len(queue') : Posted(i)' <=> Posted(i + 1)
  BY <1>1 DEF Posted
<1>3. \A i, j \in 1 .. Len(queue') : i < j => i + 1 < j + 1
  BY <1>1
<1>4. \A i \in 1 .. Len(queue') : Posted(i)' => queue'[i].s \in 1 .. Len(posts')
  BY <1>1, <1>2 DEF BroadcastInv
<1>5. \A i, j \in 1 .. Len(queue') :
        Posted(i)' /\ Posted(j)' /\ i < j => queue'[i].s < queue'[j].s
  BY <1>1, <1>2, <1>3 DEF BroadcastInv
<1>6. \A s \in Ids : \A k \in 1 .. Len(got'[s]) :
        /\ got'[s][k] \in 1 .. Len(posts') /\ s \notin posts'[got'[s][k]]
        /\ \A i \in 1 .. Len(queue') : Posted(i)' => got'[s][k] < queue'[i].s
        /\ \A j \in 1 .. k - 1 : got'[s][j] < got'[s][k]
  BY <1>1, <1>2 DEF BroadcastInv
<1> QED
  BY <1>4, <1>5, <1>6 DEF BroadcastInv

\* A new broadcast is later than all others.
LEMMA BroadcastPosted ==
  ASSUME Types, BroadcastInv, NEW except \in Excludes, Broadcast(except)
  PROVE  BroadcastInv'
<1> DEFINE n == Len(posts) + 1
           e == Event("BROADCAST", n)
<1>1. /\ posts \in Seq(SUBSET Ids) /\ except \in SUBSET Ids
      /\ posts' = Append(posts, except) /\ got' = got
      /\ queue \in Seq(Events) /\ got \in [Ids -> Seq(Nat)]
  BY BoundsAssumption DEF Types, Broadcast
<1>2. /\ Len(posts) \in Nat /\ Len(posts') = n /\ n \in Nat
      /\ \A i \in 1 .. Len(posts) : posts'[i] = posts[i]
  BY <1>1
<1>3. queue' = Append(queue, e)
  BY <1>2 DEF Broadcast
<1>4. e \in Events /\ e.s = n
  BY <1>2 DEF Event, Events
<1> HIDE DEF e
<1>5. /\ Len(queue) \in Nat /\ queue'[Len(queue) + 1] = e
      /\ \A i \in 1 .. Len(queue) : queue'[i] = queue[i]
      /\ \A i \in 1 .. Len(queue') : i \in 1 .. Len(queue) \/ i = Len(queue) + 1
  BY <1>1, <1>3, <1>4, QueueAppend
<1>6. \A i \in 1 .. Len(queue) : Posted(i)' <=> Posted(i)
  BY <1>5 DEF Posted
<1>7. \A i \in 1 .. Len(queue) : Posted(i) => queue[i].s \in 1 .. Len(posts)
  BY DEF BroadcastInv
<1>8. \A i \in 1 .. Len(queue') : Posted(i)' => queue'[i].s \in 1 .. Len(posts')
  BY <1>2, <1>4, <1>5, <1>6, <1>7
<1>9. ASSUME NEW i \in 1 .. Len(queue'), NEW j \in 1 .. Len(queue'),
             Posted(i)', Posted(j)', i < j
      PROVE  queue'[i].s < queue'[j].s
  <2>1. i \in 1 .. Len(queue)
    BY <1>5, <1>9
  <2>2. CASE j \in 1 .. Len(queue)
    BY <1>5, <1>6, <1>9, <2>1, <2>2 DEF BroadcastInv
  <2>3. CASE j = Len(queue) + 1
    BY <1>2, <1>4, <1>5, <1>6, <1>7, <1>9, <2>1, <2>3
  <2> QED
    BY <1>5, <2>2, <2>3
<1>10. ASSUME NEW s \in Ids, NEW k \in 1 .. Len(got'[s])
       PROVE  /\ got'[s][k] \in 1 .. Len(posts') /\ s \notin posts'[got'[s][k]]
              /\ \A i \in 1 .. Len(queue') : Posted(i)' => got'[s][k] < queue'[i].s
              /\ \A j \in 1 .. k - 1 : got'[s][j] < got'[s][k]
  <2>1. /\ got[s][k] \in 1 .. Len(posts) /\ s \notin posts[got[s][k]]
        /\ \A i \in 1 .. Len(queue) : Posted(i) => got[s][k] < queue[i].s
        /\ \A j \in 1 .. k - 1 : got[s][j] < got[s][k]
    BY <1>1 DEF BroadcastInv
  <2>2. /\ got'[s][k] \in 1 .. Len(posts') /\ s \notin posts'[got'[s][k]]
        /\ \A j \in 1 .. k - 1 : got'[s][j] < got'[s][k]
    BY <1>1, <1>2, <2>1
  <2>3. ASSUME NEW i \in 1 .. Len(queue'), Posted(i)'
        PROVE  got'[s][k] < queue'[i].s
    <3>1. CASE i \in 1 .. Len(queue)
      BY <1>1, <1>5, <1>6, <2>1, <2>3, <3>1
    <3>2. CASE i = Len(queue) + 1
      BY <1>1, <1>2, <1>4, <1>5, <2>1, <3>2
    <3> QED
      BY <1>5, <3>1, <3>2
  <2> QED
    BY <2>2, <2>3
<1> QED
  BY <1>8, <1>9, <1>10 DEF BroadcastInv

\* The first broadcast queued is later than what a session was sent before.
LEMMA BroadcastWritten ==
  ASSUME Types, BroadcastInv, BroadcastEvent
  PROVE  BroadcastInv'
<1> DEFINE n == Head(queue).s
           reached == {s \in Addressed(posts[n]) : tcp[map[s]].writable}
<1>1. /\ queue \in Seq(Events) /\ queue # <<>> /\ queue' = Tail(queue)
      /\ got \in [Ids -> Seq(Nat)] /\ posts' = posts /\ Head(queue).type = "BROADCAST"
  BY DEF Types, BroadcastEvent
<1>2. /\ 1 \in 1 .. Len(queue) /\ Head(queue) = queue[1] /\ queue[1] \in Events
      /\ \A i \in 1 .. Len(queue') :
           i \in Nat \ {0} /\ i + 1 \in 1 .. Len(queue) /\ queue'[i] = queue[i + 1]
  BY <1>1, QueueTail
<1>3. got' = [s \in Ids |-> IF s \in reached THEN Append(got[s], n) ELSE got[s]]
  BY DEF BroadcastEvent
<1>4. \A s \in reached : s \notin posts[n]
  BY DEF Addressed
<1>5. n = queue[1].s /\ Posted(1)
  BY <1>1, <1>2 DEF Posted
<1>6. n \in Nat
  BY <1>2, <1>5 DEF Events
<1> HIDE DEF n, reached
<1>7. n \in 1 .. Len(posts)
  BY <1>2, <1>5 DEF BroadcastInv
<1>8. \A i \in 1 .. Len(queue') : Posted(i)' <=> Posted(i + 1)
  BY <1>2 DEF Posted
<1>9. \A i \in 1 .. Len(queue') : Posted(i)' => queue'[i].s \in 1 .. Len(posts')
  BY <1>1, <1>2, <1>8 DEF BroadcastInv
<1>10. \A i, j \in 1 .. Len(queue') :
         Posted(i)' /\ Posted(j)' /\ i < j => queue'[i].s < queue'[j].s
  <2>1. \A i, j \in 1 .. Len(queue') : i < j => i + 1 < j + 1
    BY <1>2
  <2> QED
    BY <1>2, <1>8, <2>1 DEF BroadcastInv
<1>11. \A i \in 1 .. Len(queue') : Posted(i)' => n < queue'[i].s
  <2>1. \A i \in 1 .. Len(queue') : 1 < i + 1
    BY <1>2
  <2> QED
    BY <1>2, <1>5, <1>8, <2>1 DEF BroadcastInv
<1>12. ASSUME NEW s \in Ids
       PROVE  \A k \in 1 .. Len(got'[s]) :
                /\ got'[s][k] \in 1 .. Len(posts') /\ s \notin posts'[got'[s][k]]
                /\ \A i \in 1 .. Len(queue') : Posted(i)' => got'[s][k] < queue'[i].s
                /\ \A j \in 1 .. k - 1 : got'[s][j] < got'[s][k]
  <2> DEFINE g == got[s]
  <2>1. g \in Seq(Nat) /\ Len(g) \in Nat
    BY <1>1
  <2>2. \A k \in 1 .. Len(g) :
          /\ g[k] \in 1 .. Len(posts) /\ s \notin posts[g[k]]
          /\ \A i \in 1 .. Len(queue') : Posted(i)' => g[k] < queue'[i].s
          /\ \A j \in 1 .. k - 1 : g[j] < g[k]
          /\ g[k] < n
    BY <1>2, <1>5, <1>8 DEF BroadcastInv
  <2>3. CASE s \notin reached
    <3>1. got'[s] = g
      BY <1>3, <2>3
    <3> QED
      BY <1>1, <2>2, <3>1
  <2>4. CASE s \in reached
    <3>1. got'[s] = Append(g, n)
      BY <1>3, <2>4
    <3>2. /\ Len(got'[s]) = Len(g) + 1 /\ got'[s][Len(g) + 1] = n
          /\ \A k \in 1 .. Len(g) : got'[s][k] = g[k]
      BY <1>6, <2>1, <3>1
    <3> HIDE DEF g
    <3>3. ASSUME NEW k \in 1 .. Len(g)
          PROVE  /\ got'[s][k] \in 1 .. Len(posts') /\ s \notin posts'[got'[s][k]]
                 /\ \A i \in 1 .. Len(queue') : Posted(i)' => got'[s][k] < queue'[i].s
                 /\ \A j \in 1 .. k - 1 : got'[s][j] < got'[s][k]
      <4>1. \A j \in 1 .. k - 1 : j \in 1 .. Len(g)
        BY <2>1
      <4> QED
        BY <1>1, <2>2, <3>2, <4>1
    <3>4. /\ got'[s][Len(g) + 1] \in 1 .. Len(posts')
          /\ s \notin posts'[got'[s][Len(g) + 1]]
          /\ \A i \in 1 .. Len(queue') : Posted(i)' => got'[s][Len(g) + 1] < queue'[i].s
          /\ \A j \in 1 .. Len(g) : got'[s][j] < got'[s][Len(g) + 1]
      BY <1>1, <1>4, <1>7, <1>11, <2>2, <2>4, <3>2
    <3>5. \A k \in 1 .. Len(got'[s]) :
            k \in 1 .. Len(g) \/ (k = Len(g) + 1 /\ k - 1 = Len(g))
      BY <2>1, <3>2
    <3> QED
      BY <3>3, <3>4, <3>5
  <2> QED
    BY <2>3, <2>4
<1> QED
  BY <1>9, <1>10, <1>12 DEF BroadcastInv

\* Every step keeps broadcasts in order.
LEMMA BroadcastStep ==
  ASSUME Types, BroadcastInv, [Next]_vars
  PROVE  BroadcastInv'
<1> USE DEF vars, serverVars, sessionVars, poolVars, histories
<1>1. ASSUME UNCHANGED <<queue, posts, got>> PROVE BroadcastInv'
  BY <1>1 DEF BroadcastInv, Posted
<1>2. ASSUME NEW s \in Ids, CallClose(s) \/ RecvEnd(s) PROVE BroadcastInv'
  <2>1. Event("CLOSE", s) \in Events /\ Event("CLOSE", s).type # "BROADCAST"
    BY BoundsAssumption DEF Event, Events, Ids
  <2>2. UNCHANGED <<posts, got>> /\ queue' = Append(queue, Event("CLOSE", s))
    BY <1>2 DEF CallClose, CallPush, RecvEnd
  <2> QED
    BY <2>1, <2>2, BroadcastAppend
<1>3. ASSUME NEW s \in Ids, CallShutDown(s) PROVE BroadcastInv'
  <2>1. Event("SHUTDOWN", s) \in Events /\ Event("SHUTDOWN", s).type # "BROADCAST"
    BY BoundsAssumption DEF Event, Events, Ids
  <2>2. UNCHANGED <<posts, got>> /\ queue' = Append(queue, Event("SHUTDOWN", s))
    BY <1>3 DEF CallShutDown, CallPush
  <2> QED
    BY <2>1, <2>2, BroadcastAppend
<1>4. ASSUME NEW except \in Excludes, Broadcast(except) PROVE BroadcastInv'
  BY <1>4, BroadcastPosted
<1>5. CASE CloseEvent \/ ShutdownEvent
  <2>1. UNCHANGED <<posts, got>> /\ queue # <<>> /\ queue' = Tail(queue)
    BY <1>5 DEF CloseEvent, ShutdownEvent, SessionEvent
  <2> QED
    BY <2>1, BroadcastTail
<1>6. CASE BroadcastEvent
  BY <1>6, BroadcastWritten
<1>7. ASSUME NEW s \in Ids,
             CallSend(s) \/ ReadAborted(s) \/ AfterSend(s) \/ AfterShutDown(s)
               \/ AfterClientClose(s)
      PROVE  BroadcastInv'
  BY <1>1, <1>7 DEF CallSend, MayCall, ReadAborted, AfterSend, AfterShutDown,
     AfterClientClose
<1>8. CASE AcceptConnection \/ CloseLooper \/ Wakeup \/ Drained \/ Walk
           \/ AcceptsAborted \/ EndReqs \/ AfterServerClose \/ EndgamesDone
           \/ LoopReturns
  BY <1>1, <1>8 DEF AcceptConnection, CloseLooper, Wakeup, Drained, Walk,
     AcceptsAborted, EndReqs, AfterServerClose, EndgamesDone, LoopReturns
<1>9. CASE UNCHANGED vars
  BY <1>1, <1>9
<1>10. CASE DeletedEvent
  <2>1. UNCHANGED <<posts, got>> /\ queue # <<>> /\ queue' \in {queue, Tail(queue)}
    BY <1>10 DEF DeletedEvent
  <2> QED
    BY <1>1, <2>1, BroadcastTail
<1> QED
  BY <1>2, <1>3, <1>4, <1>5, <1>6, <1>7, <1>8, <1>9, <1>10
  DEF Next, Callback, Completion, DoEvent, Endgame

(***************************************************************************)
(* Theorems: what holds of every use of the server.                        *)
(***************************************************************************)
\* A server that has just started: no session, no context, nothing queued.
LEMMA InitInv ==
  ASSUME Init
  PROVE  IInv
<1> USE BoundsAssumption DEF Init
<1>1. Sessions = {}
  BY DEF Sessions
<1>2. map \in [Sessions -> Contexts]
  BY <1>1 DEF Sessions
<1>3. NoHandle \in Handle
  BY HandleTypes
<1>4. Types
  BY <1>1, <1>2, <1>3 DEF Types
<1>5. ContextInv
  BY <1>1 DEF ContextInv, InjectiveMap, IdleOnce, Apart, AllMade, InitialisedUsed,
     PointBack, IdleBounded, Contexts, NoHandle
<1>6. NewsInv
  BY <1>1 DEF NewsInv, ItemsOf
<1>7. BroadcastInv
  BY DEF BroadcastInv
<1> QED
  BY <1>4, <1>5, <1>6, <1>7 DEF IInv

\* IInv is an inductive invariant.
THEOREM Inductive == Spec => []IInv
<1>1. Init => IInv
  BY InitInv
<1>2. IInv /\ [Next]_vars => IInv'
  BY TypesStep, ContextStep, NewsStep, BroadcastStep DEF IInv
<1> QED
  BY <1>1, <1>2, PTL DEF Spec

\* A client is sent the broadcasts that do not exclude it (TcpServer.h:43), each
\* once and in the order of the calls.
THEOREM BroadcastsInOrder == Spec => []GotInOrder
<1>1. IInv => GotInOrder
  BY DEF IInv, BroadcastInv, GotInOrder
<1> QED
  BY <1>1, Inductive, PTL

\* Distinct items are as many as their positions.
LEMMA CountIdle ==
  ASSUME Types, IdleOnce
  PROVE  Cardinality(ItemsOf(idle)) = Len(idle)
<1>1. Len(idle) \in Nat
  BY DEF Types
<1> DEFINE f == [i \in 1 .. Len(idle) |-> idle[i]]
<1>2. f \in Bijection(1 .. Len(idle), ItemsOf(idle))
  BY DEF IdleOnce, ItemsOf, Bijection, Injection, Surjection, IsInjective
<1>3. ExistsBijection(1 .. Len(idle), ItemsOf(idle))
  BY <1>2 DEF ExistsBijection
<1> QED
  BY <1>1, <1>3, FS_CountingElements

\* A context is with one session, in the list of idle ones, or freed; the handles
\* libuv knows are those of the sessions, and point back to them.
THEOREM ContextsInOnePlace == Spec => []OnePlace
<1>1. ASSUME IInv PROVE OnePlace
  <2> USE <1>1 DEF IInv
  <2>1. Cardinality(ItemsOf(idle)) = Len(idle)
    BY CountIdle DEF ContextInv
  <2>2. InUse \cap ItemsOf(idle) = {} /\ freed \cap (InUse \cup ItemsOf(idle)) = {}
    BY DEF ContextInv, Apart, InUse, ItemsOf
  <2>3. InUse \cup ItemsOf(idle) \cup freed = 1 .. made
    <3>1. /\ InUse \subseteq Contexts /\ ItemsOf(idle) \subseteq Contexts
          /\ freed \subseteq Contexts /\ 1 .. made \subseteq Contexts
      <4>1. \A i \in 1 .. Len(idle) : idle[i] \in Contexts
        BY DEF Types
      <4>2. 1 .. made \subseteq Contexts
        BY BoundsAssumption DEF Types, Contexts
      <4> QED
        BY <4>1, <4>2 DEF Types, InUse, ItemsOf
    <3>2. \A c \in Contexts : c \in 1 .. made <=> c <= made
      BY BoundsAssumption DEF Types, Contexts
    <3> QED
      BY <3>1, <3>2 DEF ContextInv, AllMade, InUse, ItemsOf
  <2>4. {c \in Contexts : tcp[c].life # "none"} = InUse
    BY DEF Types, ContextInv, InitialisedUsed, InUse
  <2> QED
    BY <2>1, <2>2, <2>3, <2>4 DEF OnePlace, ContextInv, InjectiveMap, PointBack
<1> QED
  BY <1>1, Inductive, PTL

\* When the loop has ended every session was reported closed, and every context
\* is where the destructor frees it.
THEOREM NothingIsLeft == Spec => []NothingLeft
<1>1. ASSUME IInv PROVE NothingLeft
  <2> SUFFICES ASSUME loop = "done"
               PROVE  /\ ItemsOf(news) = ItemsOf(gone)
                      /\ ItemsOf(idle) \cup freed = 1 .. made
    BY DEF NothingLeft
  <2>1. Sessions = {}
    BY <1>1 DEF IInv, Types, NewsInv, ContextInv, InitialisedUsed
  <2>2. ItemsOf(news) \subseteq Ids /\ ItemsOf(gone) \subseteq Ids
    BY <1>1 DEF IInv, Types, ItemsOf
  <2>3. ItemsOf(news) = ItemsOf(gone)
    BY <1>1, <2>1, <2>2 DEF IInv, NewsInv
  <2>4. ItemsOf(idle) \subseteq Contexts /\ freed \subseteq Contexts
    BY <1>1 DEF IInv, Types, ItemsOf
  <2>5. \A c \in Contexts : c \in 1 .. made <=> c <= made
    BY <1>1, BoundsAssumption DEF IInv, Types, Contexts
  <2>6. 1 .. made \subseteq Contexts
    BY <1>1, BoundsAssumption DEF IInv, Types, Contexts
  <2>7. ItemsOf(idle) \cup freed = 1 .. made
    BY <1>1, <2>1, <2>4, <2>5, <2>6 DEF IInv, ContextInv, AllMade, ItemsOf
  <2> QED
    BY <2>3, <2>7
<1> QED
  BY <1>1, Inductive, PTL

-----------------------------------------------------------------------------
(***************************************************************************)
(* The pool of write requests.                                             *)
(***************************************************************************)
\* A pair of naturals in the order of their values.
LEMMA LessRel ==
  ASSUME NEW x \in Nat, NEW y \in Nat, x < y
  PROVE <<x, y>> \in OpToRel(<, Nat)
  BY DEF OpToRel

\* Induction over the naturals, for a set of them.
LEMMA SetInduction ==
  ASSUME NEW T \in SUBSET Nat, 0 \in T, \A n \in T : n + 1 \in T
  PROVE  T = Nat
<1> SUFFICES ASSUME Nat \ T # {} PROVE FALSE
  OBVIOUS
<1>1. PICK x \in Nat \ T : \A y \in Nat \ T : <<y, x>> \notin OpToRel(<, Nat)
  BY NatLessThanWellFounded, WFMin
<1>2. x # 0 /\ x \in Nat
  OBVIOUS
<1>3. x - 1 \in Nat /\ x - 1 < x
  BY <1>2
<1>4. <<x - 1, x>> \in OpToRel(<, Nat)
  BY <1>2, <1>3, LessRel
<1>5. x - 1 \in T
  BY <1>1, <1>3, <1>4
<1> QED BY <1>2, <1>5

\* sendinl keeps the number of free requests within its bounds,
LEMMA OneSendinl ==
  ASSUME NEW n \in Fill, NEW c
  PROVE  AfterSendinl(n, c) \in Fill
  BY BoundsAssumption DEF Fill, AfterSendinl, Take

\* and so do as many of them as broadcastinl calls: the recursion over the sessions
\* is well defined, and every value of it is within the bounds.
LEMMA PoolAfter ==
  ASSUME NEW to, pool \in Fill
  PROVE  LET after[s \in 0 .. MaxSessions] ==
               IF s = 0 THEN pool
               ELSE IF s \in to THEN AfterSendinl(after[s - 1], map[s])
               ELSE after[s - 1]
         IN after[MaxSessions] \in Fill
<1> DEFINE Fills(f, s) == IF s = 0 THEN pool
               ELSE IF s \in to THEN AfterSendinl(f[s - 1], map[s])
               ELSE f[s - 1]
           Grown == {k \in Nat : \E f \in [0 .. k -> Fill] : \A s \in 0 .. k : f[s] = Fills(f, s)}
<1>1. 0 \in Grown
  <2>1. PICK f : f = [s \in 0 .. 0 |-> pool]
    OBVIOUS
  <2>2. f \in [0 .. 0 -> Fill] /\ \A s \in 0 .. 0 : f[s] = Fills(f, s)
    BY <2>1
  <2> QED BY <2>2
<1>2. ASSUME NEW k \in Grown PROVE k + 1 \in Grown
  <2>1. PICK f \in [0 .. k -> Fill] : \A s \in 0 .. k : f[s] = Fills(f, s)
    BY <1>2
  <2>2. PICK v : v = Fills(f, k + 1)
    OBVIOUS
  <2>3. v \in Fill
    BY <2>1, <2>2, OneSendinl
  <2>4. PICK g : g = [s \in 0 .. k + 1 |-> IF s = k + 1 THEN v ELSE f[s]]
    OBVIOUS
  <2>5. g \in [0 .. k + 1 -> Fill]
    BY <2>1, <2>3, <2>4
  <2>6. ASSUME NEW s \in 0 .. k + 1 PROVE g[s] = Fills(g, s)
    <3>1. CASE s = 0
      BY <2>1, <2>4, <3>1
    <3>2. CASE s # 0
      <4>1. s - 1 \in 0 .. k /\ g[s - 1] = f[s - 1]
        BY <2>4, <3>2
      <4>2. Fills(g, s) = Fills(f, s)
        BY <4>1
      <4>3. g[s] = Fills(f, s)
        BY <2>1, <2>2, <2>4
      <4> QED BY <4>2, <4>3
    <3> QED BY <3>1, <3>2
  <2>7. k + 1 \in Nat
    OBVIOUS
  <2> QED BY <2>5, <2>6, <2>7
<1>3. Grown = Nat
  <2> HIDE DEF Grown
  <2>1. Grown \in SUBSET Nat
    BY DEF Grown
  <2> QED BY <1>1, <1>2, <2>1, SetInduction
<1> DEFINE after == CHOOSE f : f = [s \in 0 .. MaxSessions |-> Fills(f, s)]
<1>4. after = [s \in 0 .. MaxSessions |-> Fills(after, s)]
  <2>1. MaxSessions \in Grown
    BY <1>3, BoundsAssumption
  <2>2. PICK f \in [0 .. MaxSessions -> Fill] : \A s \in 0 .. MaxSessions : f[s] = Fills(f, s)
    BY <2>1
  <2>3. f = [s \in 0 .. MaxSessions |-> Fills(f, s)]
    BY <2>2
  <2> HIDE DEF Fills
  <2> QED BY <2>3
<1> DEFINE Right == {k \in Nat : k <= MaxSessions => after[k] \in Fill}
<1>5. Right = Nat
  <2> HIDE DEF after
  <2>1. 0 \in Right
    BY <1>4, BoundsAssumption
  <2>2. ASSUME NEW k \in Right PROVE k + 1 \in Right
    <3> SUFFICES ASSUME k + 1 <= MaxSessions PROVE after[k + 1] \in Fill
      OBVIOUS
    <3>1. k + 1 \in 0 .. MaxSessions /\ k + 1 # 0 /\ k + 1 - 1 = k /\ after[k] \in Fill
      BY BoundsAssumption
    <3>2. after[k + 1] = Fills(after, k + 1)
      BY <1>4, <3>1
    <3> QED BY <3>1, <3>2, OneSendinl
  <2> HIDE DEF Right
  <2>3. Right \in SUBSET Nat
    BY DEF Right
  <2> QED BY <2>1, <2>2, <2>3, SetInduction
<1>6. after[MaxSessions] \in Fill
  <2>1. MaxSessions \in Right /\ MaxSessions <= MaxSessions
    BY <1>5, BoundsAssumption
  <2> HIDE DEF after
  <2> QED BY <2>1
<1> QED BY <1>6
\* Every step keeps the pool within its bounds.
LEMMA PoolStep ==
  ASSUME Counts, [Next]_vars
  PROVE  Counts'
<1> USE DEF vars, serverVars, sessionVars, poolVars, histories
<1>0. MaxList \in Nat
  BY BoundsAssumption
<1>1. ASSUME UNCHANGED <<pool, calls, serverVars>> PROVE Counts'
  BY <1>1 DEF Counts
<1>2. ASSUME UNCHANGED <<pool, serverVars>>, calls' = calls + 1 PROVE Counts'
  BY <1>2 DEF Counts
<1>3. ASSUME NEW s \in Ids, CallSend(s) PROVE Counts'
  BY <1>3, OneSendinl DEF Counts, CallSend, MayCall
<1>4. ASSUME NEW s \in Ids, CallClose(s) \/ CallShutDown(s) PROVE Counts'
  BY <1>2, <1>4 DEF CallClose, CallShutDown, CallPush, MayCall
<1>5. ASSUME NEW s \in Ids, RecvEnd(s) \/ ReadAborted(s) \/ AfterShutDown(s)
      PROVE Counts'
  BY <1>1, <1>5 DEF RecvEnd, ReadAborted, AfterShutDown
<1>6. ASSUME NEW s \in Ids, AfterSend(s) PROVE Counts'
  <2>1. GiveBack(pool) \in Fill
    BY <1>0 DEF Counts, Fill, GiveBack
  <2> QED
    BY <1>6, <2>1 DEF Counts, AfterSend
<1>7. ASSUME NEW s \in Ids, AfterClientClose(s) PROVE Counts'
  BY <1>1, <1>7 DEF AfterClientClose
<1>8. ASSUME NEW except \in Excludes, Broadcast(except) PROVE Counts'
  BY <1>1, <1>2, <1>8 DEF Broadcast
<1>9. CASE BroadcastEvent
  <2>1. pool \in Fill
    BY DEF Counts
  <2>2. UNCHANGED <<calls, serverVars>>
    BY <1>9 DEF BroadcastEvent
  <2>3. pool' \in Fill
    BY <1>9, <2>1, PoolAfter DEF BroadcastEvent
  <2> QED
    BY <2>2, <2>3 DEF Counts
<1>10. CASE AcceptConnection \/ CloseLooper \/ Wakeup \/ Drained
            \/ EndReqs \/ EndgamesDone \/ LoopReturns
  BY <1>1, <1>10 DEF AcceptConnection, CloseLooper, Wakeup, Drained,
     EndReqs, EndgamesDone, LoopReturns
<1>11. CASE CloseEvent \/ ShutdownEvent \/ DeletedEvent
  BY <1>1, <1>11 DEF CloseEvent, ShutdownEvent, DeletedEvent
<1>12. CASE Walk \/ AcceptsAborted \/ AfterServerClose
  BY <1>12 DEF Counts, Walk, AcceptsAborted, AfterServerClose
<1>13. CASE UNCHANGED vars
  BY <1>1, <1>13
<1> QED
  BY <1>3, <1>4, <1>5, <1>6, <1>7, <1>8, <1>9, <1>10, <1>11, <1>12, <1>13
  DEF Next, Callback, Completion, DoEvent, Endgame

\* What the server owns is accounted for in every state: types, every context in
\* one place, both lists within MAXLISTSIZE + 1 (AfterSend, sendinl, broadcastinl,
\* CTcpClientSessionHandleClose), nothing left when the loop has ended.
THEOREM ServerAccounted == Spec => []Accounted
<1>1. Init => Counts
  <2>1. 0 \in Fill
    BY BoundsAssumption DEF Fill
  <2>2. ASSUME Init PROVE is_closed \in BOOLEAN
    BY <2>2 DEF Init
  <2>3. ASSUME Init
        PROVE  pool = 0 /\ calls = 0 /\ listener \in {"open", "closing", "quiet", "closed"}
    BY <2>3 DEF Init
  <2> QED
    BY <2>1, <2>2, <2>3 DEF Counts
<1>2. Counts /\ [Next]_vars => Counts'
  BY PoolStep
<1>3. Spec => []Counts
  BY <1>1, <1>2, PTL DEF Spec
<1>4. ASSUME Counts, IInv PROVE PoolsBounded
  BY <1>4, BoundsAssumption
  DEF Counts, Fill, IInv, ContextInv, IdleBounded, PoolsBounded
<1>5. ASSUME Counts, IInv PROVE TypeOK
  BY <1>5, BoundsAssumption DEF Counts, Fill, IInv, Types, TypeOK, Events
<1> QED
  BY <1>3, <1>4, <1>5, Inductive, ContextsInOnePlace, NothingIsLeft, PTL DEF Accounted

\* The application sees sessions come and go, each once, by ids that count up.
THEOREM SessionsComeAndGo == Spec => ImplementsRegistry
<1>1. Init => Registry!RegistryInit
  BY DEF Init, Registry!RegistryInit, Sessions
<1>2. IInv /\ [Next]_vars => [Registry!RegistryNext]_<<Sessions, news, gone>>
  <2> SUFFICES ASSUME IInv, [Next]_vars
               PROVE  [Registry!RegistryNext]_<<Sessions, news, gone>>
    OBVIOUS
  <2>1. CASE AcceptConnection
    <3>1. /\ last_id' = last_id + 1 /\ Sessions' = Sessions \cup {last_id'}
          /\ Len(news) = last_id /\ news' = Append(news, last_id') /\ gone' = gone
      BY <2>1, NewMap DEF IInv, NewsInv, AcceptConnection
    <3> QED
      BY <3>1 DEF Registry!RegistryNext, Registry!Connect
  <2>2. ASSUME NEW s \in Ids, AfterClientClose(s)
        PROVE  Registry!RegistryNext
    <3>1. /\ s \in Sessions /\ Sessions' = Sessions \ {s}
          /\ gone' = Append(gone, s) /\ news' = news
      BY <2>2 DEF AfterClientClose, Sessions
    <3> QED
      BY <3>1 DEF Registry!RegistryNext, Registry!Disconnect
  <2>3. CASE Settled
    BY <2>3 DEF Settled, Sessions
  <2> QED
    BY <2>1, <2>2, <2>3, OtherSteps DEF IInv
<1> QED
  BY <1>1, <1>2, Inductive, PTL DEF Spec, ImplementsRegistry, Registry!RegistrySpec

-----------------------------------------------------------------------------
(***************************************************************************)
(* Events, whatever the peers do and the application asks for.             *)
(***************************************************************************)
\* A step that leaves the queue, the sessions and what matters of their handles,
\* and ends no draining before the queue is empty.
LEMMA SameEvents ==
  ASSUME Types, EventInv, UNCHANGED <<queue, map, asked>>,
         \A s \in Sessions : /\ tcp'[map[s]].life = tcp[map[s]].life
                            /\ tcp'[map[s]].shutdown = tcp[map[s]].shutdown,
         stop' # "walked" => stop # "walked",
         Draining => Draining' \/ queue = <<>>,
         Draining' => stop' # "walked"
  PROVE  EventInv'
<1>1. Sessions' = Sessions
  BY DEF Sessions
<1>2. \A s \in Sessions' : tcp'[map'[s]].shutdown => s \in asked'
  BY <1>1 DEF EventInv
<1>3. ASSUME stop' # "walked" PROVE CloseEventsInv' /\ ShutdownEventsInv'
  <2>1. CloseEventsInv /\ ShutdownEventsInv
    BY <1>3 DEF EventInv
  <2>2. ASSUME NEW i \in 1 .. Len(queue), Draining PROVE Draining'
    BY <2>2
  <2>3. ASSUME NEW i \in 1 .. Len(queue), NEW s, Found(s) PROVE Found(s)'
    BY <1>1, <2>2, <2>3 DEF Found
  <2>4. CloseEventsInv'
    BY <2>1, <2>3 DEF CloseEventsInv, CloseQueued
  <2>5. ShutdownEventsInv'
    BY <2>1, <2>3 DEF ShutdownEventsInv, ShutdownQueued, Found
  <2> QED
    BY <2>4, <2>5
<1> QED
  BY <1>2, <1>3 DEF EventInv

\* A session calls Close on itself, or its peer has ended the stream.
LEMMA CloseAppended ==
  ASSUME Types, EventInv, NEW s \in Ids, CallClose(s) \/ RecvEnd(s)
  PROVE  EventInv'
<1> DEFINE e == Event("CLOSE", s)
<1>1. /\ s \in Sessions /\ tcp[map[s]].life = "open"
      /\ queue' = Append(queue, e) /\ UNCHANGED <<loop, stop, map, asked>>
  BY DEF CallClose, RecvEnd, CallPush, MayCall, Reads, sessionVars, histories
<1>2. e \in Events /\ e.s = s /\ e.type = "CLOSE" /\ queue \in Seq(Events)
  BY BoundsAssumption DEF Types, Event, Events, Ids
<1> HIDE DEF e
<1>3. Sessions' = Sessions /\ tcp \in [Contexts -> Handle]
      /\ \A t \in Sessions : map[t] \in Contexts
  BY <1>1 DEF Types, Sessions
<1>4. \A c \in Contexts : tcp'[c].life = tcp[c].life /\ tcp'[c].shutdown = tcp[c].shutdown
  <2>1. CASE CallClose(s)
    BY <2>1 DEF CallClose, CallPush, sessionVars
  <2>2. CASE RecvEnd(s)
    <3>1. tcp' = [tcp EXCEPT ![map[s]].read = FALSE]
      BY <2>2 DEF RecvEnd
    <3> QED
      BY <1>3, <3>1
  <2> QED
    BY <2>1, <2>2
<1>5. \A t \in Sessions' : tcp'[map'[t]].shutdown => t \in asked'
  BY <1>1, <1>3, <1>4 DEF EventInv
<1>6. /\ Len(queue) \in Nat /\ queue'[Len(queue) + 1] = e
      /\ \A i \in 1 .. Len(queue) : queue'[i] = queue[i]
      /\ \A i \in 1 .. Len(queue') : i \in 1 .. Len(queue) \/ i = Len(queue) + 1
  BY <1>1, <1>2, QueueAppend
<1>7. Found(s)' /\ \A t : Found(t) => Found(t)'
  BY <1>1, <1>3, <1>4 DEF Found, Draining
<1>8. ASSUME stop' # "walked" PROVE CloseEventsInv'
  <2>1. CloseEventsInv
    BY <1>1, <1>8 DEF EventInv
  <2>2. ASSUME NEW i \in 1 .. Len(queue'), CloseQueued(i)'
        PROVE  Found(queue[i].s)'
    <3>1. CASE i = Len(queue) + 1
      BY <1>2, <1>6, <1>7, <3>1
    <3>2. CASE i \in 1 .. Len(queue)
      <4>1. Found(queue[i].s) /\ queue'[i] = queue[i]
        BY <1>1, <1>6, <2>1, <2>2, <3>2 DEF CloseEventsInv, CloseQueued
      <4> QED
        BY <1>7, <4>1
    <3> QED
      BY <1>6, <3>1, <3>2
  <2> QED
    BY <2>2 DEF CloseEventsInv
<1>9. ASSUME stop' # "walked" PROVE ShutdownEventsInv'
  <2>1. ShutdownEventsInv
    BY <1>1, <1>9 DEF EventInv
  <2>2. \A i \in 1 .. Len(queue') :
          ShutdownQueued(i)' => i \in 1 .. Len(queue) /\ ShutdownQueued(i)
    BY <1>2, <1>6 DEF ShutdownQueued
  <2>3. \A i \in 1 .. Len(queue') : ShutdownQueued(i)' =>
          Found(queue[i].s) /\ ~tcp'[map'[queue[i].s]].shutdown
    BY <1>1, <1>3, <1>4, <2>1, <2>2 DEF ShutdownEventsInv, Found
  <2> QED
    BY <1>1, <1>6, <1>7, <2>1, <2>2, <2>3 DEF ShutdownEventsInv
<1> QED
  BY <1>1, <1>5, <1>8, <1>9 DEF EventInv, Draining

\* A session calls ShutDown on itself, once.
LEMMA ShutdownAppended ==
  ASSUME Types, EventInv, NEW s \in Ids, CallShutDown(s)
  PROVE  EventInv'
<1> DEFINE e == Event("SHUTDOWN", s)
<1>1. /\ s \in Sessions /\ s \notin asked
      /\ tcp[map[s]].life = "open" /\ asked' = asked \cup {s}
      /\ queue' = Append(queue, e) /\ UNCHANGED <<loop, stop, map, tcp>>
  BY DEF CallShutDown, CallPush, MayCall, Reads, sessionVars
<1>2. e \in Events /\ e.s = s /\ e.type = "SHUTDOWN" /\ queue \in Seq(Events)
  BY BoundsAssumption DEF Types, Event, Events, Ids
<1> HIDE DEF e
<1>3. Sessions' = Sessions
  BY <1>1 DEF Sessions
<1>4. \A t \in Sessions' : tcp'[map'[t]].shutdown => t \in asked'
  BY <1>1, <1>3 DEF EventInv
<1>5. /\ Len(queue) \in Nat /\ queue'[Len(queue) + 1] = e
      /\ \A i \in 1 .. Len(queue) : queue'[i] = queue[i]
      /\ \A i \in 1 .. Len(queue') : i \in 1 .. Len(queue) \/ i = Len(queue) + 1
  BY <1>1, <1>2, QueueAppend
<1>6. Found(s) /\ \A t : Found(t)' <=> Found(t)
  BY <1>1, <1>3 DEF Found, Draining
<1>7. ASSUME stop' # "walked" PROVE CloseEventsInv'
  <2>1. CloseEventsInv
    BY <1>1, <1>7 DEF EventInv
  <2>2. \A i \in 1 .. Len(queue') :
          CloseQueued(i)' => i \in 1 .. Len(queue) /\ CloseQueued(i)
    BY <1>1, <1>2, <1>5 DEF CloseQueued
  <2> QED
    BY <1>5, <1>6, <2>1, <2>2 DEF CloseEventsInv
<1>8. ASSUME stop' # "walked" PROVE ShutdownEventsInv'
  <2>1. ShutdownEventsInv
    BY <1>1, <1>8 DEF EventInv
  <2>2. ~tcp[map[s]].shutdown
    BY <1>1 DEF EventInv
  <2>3. \A i \in 1 .. Len(queue) : ShutdownQueued(i)' => ShutdownQueued(i)
    BY <1>5 DEF ShutdownQueued
  <2>4. ASSUME NEW i \in 1 .. Len(queue'), ShutdownQueued(i)'
        PROVE  /\ Found(queue'[i].s) /\ queue'[i].s \in asked'
               /\ ~tcp[map[queue'[i].s]].shutdown
    <3>1. CASE i = Len(queue) + 1
      BY <1>1, <1>2, <1>5, <1>6, <2>2, <3>1
    <3>2. CASE i \in 1 .. Len(queue)
      BY <1>1, <1>5, <2>1, <2>3, <2>4, <3>2 DEF ShutdownEventsInv
    <3> QED
      BY <1>5, <3>1, <3>2
  <2>5. ASSUME NEW i \in 1 .. Len(queue'), NEW j \in 1 .. Len(queue'),
               ShutdownQueued(i)', ShutdownQueued(j)', queue'[i].s = queue'[j].s
        PROVE  i = j
    <3>1. \A k \in 1 .. Len(queue) : ShutdownQueued(k)' => queue'[k].s # s
      BY <1>1, <1>5, <2>1, <2>3 DEF ShutdownEventsInv
    <3>2. CASE i \in 1 .. Len(queue) /\ j \in 1 .. Len(queue)
      BY <1>5, <2>1, <2>3, <2>5, <3>2 DEF ShutdownEventsInv
    <3>3. CASE i = Len(queue) + 1
      BY <1>2, <1>5, <2>5, <3>1, <3>3
    <3>4. CASE j = Len(queue) + 1
      BY <1>2, <1>5, <2>5, <3>1, <3>4
    <3> QED
      BY <1>5, <3>2, <3>3, <3>4
  <2> QED
    BY <1>1, <1>6, <2>4, <2>5 DEF ShutdownEventsInv
<1> QED
  BY <1>1, <1>4, <1>7, <1>8 DEF EventInv, Draining

\* A broadcast is queued.
LEMMA BroadcastAppended ==
  ASSUME Types, EventInv, NEW except \in Excludes, Broadcast(except)
  PROVE  EventInv'
<1> DEFINE e == Event("BROADCAST", Len(posts'))
<1>1. /\ posts \in Seq(SUBSET Ids) /\ except \in SUBSET Ids
      /\ posts' = Append(posts, except) /\ queue \in Seq(Events)
      /\ queue' = Append(queue, e) /\ UNCHANGED <<loop, stop, map, tcp, asked>>
  BY BoundsAssumption DEF Types, Broadcast, sessionVars
<1>2. Len(posts') \in Nat
  BY <1>1
<1>3. e \in Events /\ e.type = "BROADCAST"
  BY <1>2 DEF Event, Events
<1> HIDE DEF e
<1>4. /\ Len(queue) \in Nat /\ queue'[Len(queue) + 1] = e
      /\ \A i \in 1 .. Len(queue) : queue'[i] = queue[i]
      /\ \A i \in 1 .. Len(queue') : i \in 1 .. Len(queue) \/ i = Len(queue) + 1
  BY <1>1, <1>3, QueueAppend
<1>5. \A i \in 1 .. Len(queue') :
        /\ CloseQueued(i)' => i \in 1 .. Len(queue) /\ CloseQueued(i)
        /\ ShutdownQueued(i)' => i \in 1 .. Len(queue) /\ ShutdownQueued(i)
  BY <1>1, <1>3, <1>4 DEF CloseQueued, ShutdownQueued
<1>6. Sessions' = Sessions /\ (Draining' <=> Draining) /\ \A s : Found(s)' <=> Found(s)
  BY <1>1 DEF Sessions, Found, Draining
<1>7. CloseEventsInv => CloseEventsInv'
  BY <1>4, <1>5, <1>6 DEF CloseEventsInv
<1>8. ShutdownEventsInv => ShutdownEventsInv'
  BY <1>1, <1>4, <1>5, <1>6 DEF ShutdownEventsInv
<1> QED
  BY <1>1, <1>6, <1>7, <1>8 DEF EventInv

\* The first event is handled: no session goes while the queue is emptied, and
\* what happens to the handles leaves the shutdowns of other sessions alone.
LEMMA EventTaken ==
  ASSUME Types, EventInv, loop = "drain", queue # <<>>, queue' = Tail(queue),
         UNCHANGED <<loop, stop, map, asked>>,
         \A s \in Sessions : tcp'[map[s]].shutdown => s \in asked,
         \A i \in 1 .. Len(queue) : i # 1 /\ ShutdownQueued(i) =>
           LET c == map[queue[i].s] IN tcp'[c].shutdown = tcp[c].shutdown
  PROVE  EventInv'
<1>1. \A i \in 1 .. Len(queue') :
        i \in Nat \ {0} /\ i + 1 \in 1 .. Len(queue) /\ queue'[i] = queue[i + 1]
  BY QueueTail DEF Types
<1>2. \A i \in 1 .. Len(queue') : CloseQueued(i)' <=> CloseQueued(i + 1)
  BY <1>1 DEF CloseQueued
<1>3. \A i \in 1 .. Len(queue') : ShutdownQueued(i)' <=> ShutdownQueued(i + 1)
  BY <1>1 DEF ShutdownQueued
<1>4. \A i, j \in 1 .. Len(queue') : i + 1 # 1 /\ (i + 1 = j + 1 => i = j)
  BY <1>1
<1>5. Sessions' = Sessions /\ Draining /\ Draining' /\ \A s : Found(s)' <=> s \in Sessions
  BY DEF Sessions, Draining, Found
<1>6. CloseEventsInv /\ ShutdownEventsInv /\ stop # "walked"
  BY <1>5 DEF EventInv
<1>7. CloseEventsInv'
  BY <1>1, <1>2, <1>5, <1>6 DEF CloseEventsInv, Found
<1>8. ASSUME NEW i \in 1 .. Len(queue'), ShutdownQueued(i)'
      PROVE  /\ Found(queue[i].s)' /\ queue'[i].s \in asked'
             /\ ~tcp'[map'[queue'[i].s]].shutdown
  <2>1. i + 1 \in 1 .. Len(queue) /\ i + 1 # 1 /\ ShutdownQueued(i + 1)
        /\ queue'[i] = queue[i + 1]
    BY <1>1, <1>3, <1>4, <1>8
  <2>2. /\ queue[i + 1].s \in Sessions \cap asked
        /\ ~tcp[map[queue[i + 1].s]].shutdown
    BY <1>6, <2>1 DEF ShutdownEventsInv, Found
  <2> QED
    BY <1>5, <2>1, <2>2
<1>9. \A i, j \in 1 .. Len(queue') :
        ShutdownQueued(i)' /\ ShutdownQueued(j)' /\ queue'[i].s = queue'[j].s => i = j
  BY <1>1, <1>3, <1>4, <1>6 DEF ShutdownEventsInv
<1>10. ShutdownEventsInv'
  BY <1>8, <1>9 DEF ShutdownEventsInv
<1> QED
  BY <1>5, <1>6, <1>7, <1>10 DEF EventInv

\* closeinl, and what an event of a deleted session may come to: a handle is
\* closed, and its shutdown, if any, goes on.
LEMMA CloseHandled ==
  ASSUME Types, EventInv, NEW c \in Contexts, loop = "drain", queue # <<>>,
         queue' = Tail(queue), tcp' = [tcp EXCEPT ![c] = Close(@)],
         UNCHANGED <<loop, stop, map, asked>>
  PROVE  EventInv'
<1>1. tcp \in [Contexts -> Handle] /\ \A t \in Sessions : map[t] \in Contexts
  BY DEF Types, Sessions
<1>2. \A t \in Sessions : tcp'[map[t]].shutdown = tcp[map[t]].shutdown
  BY <1>1, LifeStays
<1>3. \A t \in Sessions : tcp'[map[t]].shutdown => t \in asked
  BY <1>2 DEF EventInv
<1>4. \A i \in 1 .. Len(queue) : ShutdownQueued(i) => queue[i].s \in Sessions
  BY DEF EventInv, ShutdownEventsInv, Found, Draining
<1> QED
  BY <1>2, <1>3, <1>4, EventTaken

\* shutdowinl: nothing else tells the session to shut down.
LEMMA ShutdownHandled ==
  ASSUME Types, ContextInv, EventInv, ShutdownEvent
  PROVE  EventInv'
<1> DEFINE s == Head(queue).s
<1>1. /\ loop = "drain" /\ queue # <<>> /\ queue' = Tail(queue) /\ s \in Sessions
      /\ Head(queue).type = "SHUTDOWN"
      /\ \/ tcp' = [tcp EXCEPT ![map[s]] = [@ EXCEPT !.writable = FALSE, !.shutdown = TRUE]]
         \/ tcp' = [tcp EXCEPT ![map[s]] = @]
      /\ UNCHANGED <<loop, stop, map, asked>>
  BY DEF ShutdownEvent, SessionEvent, histories
<1>2. 1 \in 1 .. Len(queue) /\ Head(queue) = queue[1]
  BY <1>1, QueueTail DEF Types
<1>3. CloseEventsInv /\ ShutdownEventsInv
  BY <1>1 DEF EventInv, Draining
<1>4. ShutdownQueued(1) /\ s = queue[1].s
  BY <1>1, <1>2 DEF ShutdownQueued
<1>5. s \in asked
  BY <1>2, <1>3, <1>4 DEF ShutdownEventsInv
<1>6. \A i \in 1 .. Len(queue) : i # 1 /\ ShutdownQueued(i) =>
        queue[i].s \in Sessions /\ queue[i].s # s
  BY <1>2, <1>3, <1>4 DEF ShutdownEventsInv, Found
<1> HIDE DEF s
<1>7. tcp \in [Contexts -> Handle] /\ \A t \in Sessions : map[t] \in Contexts
  BY DEF Types, Sessions
<1>8. \A t \in Sessions : t # s => tcp'[map[t]] = tcp[map[t]]
  BY <1>1, <1>7 DEF ContextInv, InjectiveMap
<1>9. \A t \in Sessions : tcp'[map[t]].shutdown => t \in asked
  BY <1>5, <1>8 DEF EventInv
<1> QED
  BY <1>1, <1>6, <1>8, <1>9, EventTaken

\* A new session has no events; nor is it among those that have.
LEMMA AcceptEvents ==
  ASSUME Types, ContextInv, EventInv, AcceptConnection
  PROVE  EventInv'
<1> DEFINE c == NewContext
<1>1. /\ Sessions' = Sessions \cup {last_id'} /\ map'[last_id'] = c
      /\ \A s \in Sessions : map'[s] = map[s]
  BY NewMap
<1>2. c \in Contexts /\ \A s \in Sessions : map[s] # c /\ map[s] \in Contexts
  BY NewContextIs DEF Types
<1>3. /\ tcp' = [tcp EXCEPT ![c] = Accepted] /\ tcp \in [Contexts -> Handle]
      /\ UNCHANGED <<loop, stop, queue, asked>>
  BY DEF Types, AcceptConnection
<1> HIDE DEF c
<1>4. \A s \in Sessions : tcp'[map'[s]] = tcp[map[s]]
  BY <1>1, <1>2, <1>3
<1>5. tcp'[map'[last_id']].shutdown = FALSE
  BY <1>1, <1>2, <1>3 DEF Accepted
<1>6. \A s \in Sessions' : tcp'[map'[s]].shutdown => s \in asked'
  BY <1>1, <1>3, <1>4, <1>5 DEF EventInv
<1>7. (Draining' <=> Draining) /\ \A s : Found(s) => Found(s)'
  BY <1>1, <1>3, <1>4 DEF Found, Draining
<1>8. CloseEventsInv => CloseEventsInv'
  BY <1>3, <1>7 DEF CloseEventsInv, CloseQueued
<1>9. ShutdownEventsInv => ShutdownEventsInv'
  BY <1>3, <1>4, <1>7 DEF ShutdownEventsInv, ShutdownQueued, Found
<1> QED
  BY <1>3, <1>6, <1>7, <1>8, <1>9 DEF EventInv

\* A session whose shutdown is done was told so, and has no ShutDown queued.
LEMMA ShutdownEnds ==
  ASSUME Types, ContextInv, EventInv, NEW s \in Ids, AfterShutDown(s)
  PROVE  EventInv'
<1>1. /\ loop = "endgames" /\ s \in Sessions /\ tcp[map[s]].shutdown
      /\ tcp' = [tcp EXCEPT ![map[s]] = [Close(@) EXCEPT !.shutdown = FALSE]]
      /\ UNCHANGED <<loop, stop, queue, map, asked>>
  BY DEF AfterShutDown, ShutdownReady, histories
<1>2. tcp \in [Contexts -> Handle] /\ \A t \in Sessions : map[t] \in Contexts
  BY DEF Types, Sessions
<1>3. s \in asked
  BY <1>1 DEF EventInv
<1>4. \A t \in Sessions : t # s => tcp'[map[t]] = tcp[map[t]]
  BY <1>1, <1>2 DEF ContextInv, InjectiveMap
<1>5. ~tcp'[map[s]].shutdown
  BY <1>1, <1>2, HandleTypes, LifeStays
<1>6. Sessions' = Sessions /\ (Draining' <=> Draining)
  BY <1>1 DEF Sessions, Draining
<1>7. \A t \in Sessions' : tcp'[map'[t]].shutdown => t \in asked'
  BY <1>1, <1>4, <1>5, <1>6 DEF EventInv
<1>8. \A t : t # s /\ Found(t) => Found(t)'
  BY <1>1, <1>4, <1>6 DEF Found
<1>9. CloseEventsInv => CloseEventsInv'
  <2>1. \A i \in 1 .. Len(queue) :
          CloseQueued(i)' => CloseQueued(i) /\ queue[i].s # s
    BY <1>1, <1>3 DEF CloseQueued
  <2> QED
    BY <1>1, <1>8, <2>1 DEF CloseEventsInv
<1>10. ShutdownEventsInv => ShutdownEventsInv'
  <2>1. ShutdownEventsInv => \A i \in 1 .. Len(queue) :
          ShutdownQueued(i)' =>
            ShutdownQueued(i) /\ queue[i].s # s /\ Found(queue[i].s)
    BY <1>1 DEF ShutdownEventsInv, ShutdownQueued
  <2> QED
    BY <1>1, <1>4, <1>8, <2>1 DEF ShutdownEventsInv, Found
<1> QED
  BY <1>1, <1>6, <1>7, <1>9, <1>10 DEF EventInv

\* A session that is deleted is closed, and the queue was emptied since; what may
\* be queued for it is the CLOSE of one that was told to shut down.
LEMMA SessionEnds ==
  ASSUME Types, ContextInv, EventInv, NEW s \in Ids, AfterClientClose(s)
  PROVE  EventInv'
<1>1. /\ loop = "endgames" /\ s \in Sessions /\ tcp[map[s]].life = "closing"
      /\ tcp' = [tcp EXCEPT ![map[s]] = NoHandle]
      /\ Sessions' = Sessions \ {s} /\ \A t \in Sessions' : map'[t] = map[t]
      /\ UNCHANGED <<loop, stop, queue, asked>>
  BY DEF AfterClientClose, EndReady, Sessions
<1>2. tcp \in [Contexts -> Handle] /\ \A t \in Sessions : map[t] \in Contexts
  BY DEF Types, Sessions
<1>3. \A t \in Sessions' : tcp'[map'[t]] = tcp[map[t]]
  BY <1>1, <1>2 DEF ContextInv, InjectiveMap
<1>4. \A t \in Sessions' : tcp'[map'[t]].shutdown => t \in asked'
  BY <1>1, <1>3 DEF EventInv
<1>5. (Draining' <=> Draining) /\ \A t : Found(t) => t # s /\ Found(t)'
  BY <1>1, <1>3 DEF Found, Draining
<1>6. CloseEventsInv => CloseEventsInv'
  BY <1>1, <1>5 DEF CloseEventsInv, CloseQueued
<1>7. ShutdownEventsInv => ShutdownEventsInv'
  BY <1>1, <1>3, <1>5 DEF ShutdownEventsInv, ShutdownQueued, Found
<1> QED
  BY <1>1, <1>4, <1>5, <1>6, <1>7 DEF EventInv

\* Every step keeps the events in accord with the sessions.
LEMMA EventStep ==
  ASSUME Types, ContextInv, EventInv, [Next]_vars
  PROVE  EventInv'
<1> USE DEF vars, serverVars, sessionVars, poolVars, histories
<1>1. tcp \in [Contexts -> Handle] /\ \A s \in Sessions : map[s] \in Contexts
  BY DEF Types, Sessions
<1>2. CASE AcceptConnection
  BY <1>2, AcceptEvents
<1>3. ASSUME NEW s \in Ids, CallClose(s) \/ RecvEnd(s) PROVE EventInv'
  BY <1>3, CloseAppended
<1>4. ASSUME NEW s \in Ids, CallShutDown(s) PROVE EventInv'
  BY <1>4, ShutdownAppended
<1>5. ASSUME NEW except \in Excludes, Broadcast(except) PROVE EventInv'
  BY <1>5, BroadcastAppended
<1>6. CASE CloseEvent
  <2> DEFINE c == map[Head(queue).s]
  <2>1. /\ c \in Contexts /\ tcp' = [tcp EXCEPT ![c] = Close(@)] /\ loop = "drain"
        /\ queue # <<>> /\ queue' = Tail(queue) /\ UNCHANGED <<loop, stop, map, asked>>
    BY <1>1, <1>6 DEF CloseEvent, SessionEvent
  <2> HIDE DEF c
  <2> QED
    BY <2>1, CloseHandled
<1>7. CASE ShutdownEvent
  BY <1>7, ShutdownHandled
<1>8. CASE BroadcastEvent
  <2> DEFINE to == Addressed(posts[Head(queue).s])
             reached == {s \in to : tcp[map[s]].writable}
  <2>1. /\ tcp' = [c \in Contexts |->
                     IF \E s \in reached : map[s] = c THEN Written(tcp[c]) ELSE tcp[c]]
        /\ loop = "drain" /\ queue # <<>> /\ queue' = Tail(queue)
        /\ UNCHANGED <<loop, stop, map, asked>>
    BY <1>8 DEF BroadcastEvent
  <2> HIDE DEF reached
  <2>2. \A c \in Contexts : tcp'[c].shutdown = tcp[c].shutdown
    BY <1>1, <2>1, LifeStays
  <2>3. \A s \in Sessions : tcp'[map[s]].shutdown => s \in asked
    BY <1>1, <2>2 DEF EventInv
  <2>4. \A i \in 1 .. Len(queue) : ShutdownQueued(i) => queue[i].s \in Sessions
    BY <2>1 DEF EventInv, ShutdownEventsInv, Found, Draining
  <2> QED
    BY <1>1, <2>1, <2>2, <2>3, <2>4, EventTaken
<1>9. ASSUME NEW s \in Ids, CallSend(s) \/ ReadAborted(s) \/ AfterSend(s)
      PROVE  EventInv'
  <2>1. /\ UNCHANGED <<queue, map, asked, stop, loop>>
        /\ map[s] \in Contexts
        /\ \/ tcp' = [tcp EXCEPT ![map[s]] = Written(@)]
           \/ tcp' = [tcp EXCEPT ![map[s]].read = FALSE]
           \/ tcp' = [tcp EXCEPT ![map[s]].writes = @ - 1]
    BY <1>1, <1>9 DEF CallSend, MayCall, Reads, ReadAborted, AfterSend
  <2>2. \A c \in Contexts : /\ tcp'[c].life = tcp[c].life
                           /\ tcp'[c].shutdown = tcp[c].shutdown
    <3>1. CASE tcp' = [tcp EXCEPT ![map[s]] = Written(@)]
      BY <1>1, <2>1, <3>1, LifeStays
    <3>2. CASE tcp' = [tcp EXCEPT ![map[s]].read = FALSE]
      BY <1>1, <2>1, <3>2
    <3>3. CASE tcp' = [tcp EXCEPT ![map[s]].writes = @ - 1]
      BY <1>1, <2>1, <3>3
    <3> QED
      BY <2>1, <3>1, <3>2, <3>3
  <2> QED
    BY <1>1, <2>1, <2>2, SameEvents DEF EventInv, Draining
<1>10. ASSUME NEW s \in Ids, AfterShutDown(s) PROVE EventInv'
  BY <1>10, ShutdownEnds
<1>11. ASSUME NEW s \in Ids, AfterClientClose(s) PROVE EventInv'
  BY <1>11, SessionEnds
<1>12. CASE Walk
  <2>1. /\ stop' = "walked" /\ loop' = "reqs" /\ Sessions' = Sessions
        /\ map' = map /\ asked' = asked
        /\ tcp' = [c \in Contexts |-> Close(tcp[c])]
    BY <1>12 DEF Walk, Sessions
  <2>2. \A s \in Sessions' : tcp'[map'[s]].shutdown => s \in asked'
    BY <1>1, <2>1, LifeStays DEF EventInv
  <2> QED
    BY <2>1, <2>2 DEF EventInv, Draining
<1>13. CASE CloseLooper \/ Wakeup \/ Drained \/ AcceptsAborted \/ EndReqs
            \/ AfterServerClose \/ EndgamesDone \/ LoopReturns \/ UNCHANGED vars
  <2>1. /\ UNCHANGED <<queue, map, tcp, asked>>
        /\ stop' # "walked" => stop # "walked"
        /\ Draining => Draining' \/ queue = <<>>
        /\ Draining' => stop' # "walked"
    BY <1>13 DEF EventInv, CloseLooper, Wakeup, Drained, AcceptsAborted, EndReqs,
       AfterServerClose, EndgamesDone, LoopReturns, Draining
  <2> QED
    BY <2>1, SameEvents
<1>14. CASE DeletedEvent
  <2>1. CASE loop' = "lost" /\ UNCHANGED <<tcp, queue>>
    <3>1. UNCHANGED <<queue, map, asked, stop, tcp>> /\ Draining' /\ stop' # "walked"
      BY <1>14, <2>1 DEF DeletedEvent, EventInv, Draining
    <3> QED
      BY <3>1, SameEvents
  <2>2. ASSUME NEW c \in Contexts, tcp' = [tcp EXCEPT ![c] = Close(@)],
               queue' = Tail(queue), UNCHANGED loop
        PROVE  EventInv'
    BY <1>14, <2>2, CloseHandled DEF DeletedEvent
  <2> QED
    BY <1>14, <2>1, <2>2 DEF DeletedEvent
<1> QED
  BY <1>2, <1>3, <1>4, <1>5, <1>6, <1>7, <1>8, <1>9, <1>10, <1>11, <1>12, <1>13,
     <1>14
  DEF Next, Callback, Completion, DoEvent, Endgame

\* An event that is still to be handled names a session that has not been
\* deleted, whatever else happens to the session: its peer ends the stream, it
\* closes itself several times, its writes are late.  Only the CLOSE of a session
\* that was told to shut down may come too late (CTcpClientSession::AfterRecv and
\* AfterShutDown).
THEOREM EventsFindTheirSessions == Spec => []EventsFindSessions
<1>1. Init => EventInv
  BY DEF Init, Sessions, EventInv, CloseEventsInv, ShutdownEventsInv, Draining
<1>2. IInv /\ EventInv /\ [Next]_vars => EventInv'
  BY EventStep DEF IInv
<1>3. IInv /\ EventInv => EventsFindSessions
  <2> SUFFICES ASSUME IInv, EventInv, stop # "walked", NEW i \in 1 .. Len(queue)
               PROVE  \/ queue[i].type = "BROADCAST"
                      \/ queue[i].type = "CLOSE" /\ queue[i].s \in asked
                      \/ queue[i].s \in Sessions
    BY DEF EventsFindSessions
  <2>1. queue[i] \in Events
    BY DEF IInv, Types
  <2>2. queue[i].type \in {"CLOSE", "SHUTDOWN", "BROADCAST"}
    BY <2>1 DEF Events
  <2> QED
    BY <2>2 DEF EventInv, CloseEventsInv, ShutdownEventsInv, CloseQueued,
       ShutdownQueued, Found
<1> QED
  BY <1>1, <1>2, <1>3, Inductive, PTL DEF Spec

=============================================================================
