----------------------------- MODULE UdpProofs -----------------------------
(***************************************************************************)
(* Proofs about Udp, for any number of senders and datagrams: each         *)
(* send_param is freed exactly once, and the receive request agrees with   *)
(* what the socket has received.                                           *)
(***************************************************************************)
EXTENDS Udp, SequenceTheorems, TLAPS

\* The types the invariants need.
Types ==
  /\ owner \in {"attached", "bound", "ready", "failed", "waiting", "done"}
  /\ count \in [Senders -> 0 .. MaxSends]
  /\ events \in Seq(Datagrams)
  /\ mark \in Int /\ -1 <= mark /\ mark <= Len(events)
  /\ life \in {"open", "closing", "closed"}
  /\ reading \in BOOLEAN
  /\ req \in {"none", "kernel", "posted", "parked"}
  /\ inbox \in Seq(Items) /\ Len(inbox) <= Room
  /\ came \in 0 .. MaxItems

\* Each datagram is pushed once, and then either waits for the loop or is under
\* way, but not both.
Pushed(d) == d[2] <= count[d[1]]

EachOnce ==
  /\ \A i \in 1 .. Len(events) :
       Pushed(events[i]) /\ events[i] \notin sending \cup sent
  /\ \A i, j \in 1 .. Len(events) : events[i] = events[j] => i = j
  /\ sending \cap sent = {}
  /\ \A d \in sending \cup sent : d \in Datagrams /\ Pushed(d)

\* Closing the socket gives up what the kernel has, and its end waits for the rest.
ClosingGivesUp ==
  /\ life # "open" => sending = {}
  /\ life = "closed" => sent = {}

ParamsMatch == params = SetToBag(sending \cup sent)

IInv == Types /\ EachOnce /\ ClosingGivesUp /\ ParamsMatch /\ ReceiveMatches

-----------------------------------------------------------------------------
(***************************************************************************)
(* Bags of send_params.                                                    *)
(***************************************************************************)
\* Allocating the send_param of a datagram that has none.
LEMMA BagAdd ==
  ASSUME NEW S, NEW d, d \notin S
  PROVE  SetToBag(S) (+) SetToBag({d}) = SetToBag(S \cup {d})
BY DEF SetToBag, (+)

\* Freeing the one a datagram has.
LEMMA BagRemove ==
  ASSUME NEW S, NEW d, d \in S
  PROVE  SetToBag(S) (-) SetToBag({d}) = SetToBag(S \ {d})
BY DEF SetToBag, (-)

-----------------------------------------------------------------------------
(***************************************************************************)
(* Types.                                                                  *)
(***************************************************************************)
\* Every step keeps the types, and never leaves the wakeup's mark beyond the queue.
LEMMA TypesStep ==
  ASSUME Types, ReceiveMatches, [Next]_vars
  PROVE  Types'
<1> USE BoundsAssumption DEF Types
<1>0. <<>> \in Seq(Items) /\ Len(<<>>) = 0
  OBVIOUS
<1>1. ASSUME Bind \/ RecvStart \/ DestroyLooper \/ Close \/ FreeUdpCtx PROVE Types'
  <2>1. CASE Bind
    BY <2>1 DEF Bind, net
  <2>2. CASE RecvStart
    BY <2>2 DEF RecvStart, QueueRecv, net
  <2>3. CASE DestroyLooper \/ Close
    <3>1. mark' \in Int /\ -1 <= mark' /\ mark' <= Len(events)
      BY <2>3 DEF DestroyLooper, Close
    <3> QED
      BY <2>3, <3>1 DEF DestroyLooper, Close, net
  <2>4. CASE FreeUdpCtx
    BY <2>4 DEF FreeUdpCtx, net
  <2> QED
    BY <1>1, <2>1, <2>2, <2>3, <2>4
<1>2. ASSUME NEW t \in Senders, Send(t) PROVE Types'
  <2>1. count[t] + 1 \in 0 .. MaxSends /\ <<t, count[t] + 1>> \in Datagrams
    BY <1>2 DEF Send, Datagrams
  <2>2. count' \in [Senders -> 0 .. MaxSends] /\ count'[t] = count[t] + 1
    BY <1>2, <2>1 DEF Send
  <2>3. events' \in Seq(Datagrams) /\ Len(events') = Len(events) + 1
    BY <1>2, <2>1, <2>2 DEF Send
  <2> QED
    BY <1>2, <2>2, <2>3 DEF Send, net
<1>3. CASE DoEvent
  <2>1. events' \in Seq(Datagrams) /\ Len(events') = Len(events) - 1 /\ Len(events) > 0
    BY <1>3 DEF DoEvent
  <2> QED
    BY <1>3, <2>1 DEF DoEvent, Awake, net
<1>4. CASE AfterRecv
  <2>1. CASE reading
    <3>1. inbox # <<>> /\ req = "posted"
      BY <1>4, <2>1 DEF AfterRecv, ReceiveMatches
    <3>2. Tail(inbox) \in Seq(Items) /\ Len(Tail(inbox)) = Len(inbox) - 1
      BY <3>1
    <3>3. reading' \in BOOLEAN /\ req' \in {"none", "posted", "kernel"}
      BY <1>4, <2>1 DEF AfterRecv, EndsReceiving
    <3>4. inbox' = Tail(inbox) /\ UNCHANGED <<owner, count, events, mark, life, came>>
      BY <1>4, <2>1 DEF AfterRecv
    <3> QED
      BY <3>2, <3>3, <3>4
  <2>2. CASE ~reading
    BY <1>4, <2>2 DEF AfterRecv
  <2> QED
    BY <2>1, <2>2
<1>5. CASE OnHandleClose \/ Endgame
  <2>1. CASE OnHandleClose
    <3>1. /\ inbox' = <<>> /\ reading' = FALSE /\ life' = "closing"
          /\ req' \in {"none", "posted"}
          /\ UNCHANGED <<owner, count, events, mark, came>>
      BY <2>1 DEF OnHandleClose
    <3>2. inbox' \in Seq(Items) /\ Len(inbox') <= Room
      BY <1>0, <3>1
    <3> QED
      BY <3>1, <3>2
  <2>2. CASE Endgame
    BY <2>2 DEF Endgame, net
  <2> QED
    BY <1>5, <2>1, <2>2
<1>6. ASSUME NEW d \in Datagrams, AfterSend(d) \/ CompleteSend(d) PROVE Types'
  BY <1>6 DEF AfterSend, CompleteSend, Awake, net
<1>7. CASE CompleteRecv
  BY <1>7 DEF CompleteRecv, net
<1>8. CASE Come
  <2>1. PICK kind \in {"data", "reset", "error"} :
          inbox' = IF Len(inbox) < Room THEN Append(inbox, <<kind, came'>>) ELSE inbox
    BY <1>8 DEF Come
  <2>2. came' \in 1 .. MaxItems /\ <<kind, came'>> \in Items
    BY <1>8 DEF Come, Items
  <2>3. inbox' \in Seq(Items) /\ Len(inbox') <= Room
    BY <2>1, <2>2
  <2> QED
    BY <1>8, <2>2, <2>3 DEF Come
<1>9. CASE UNCHANGED vars
  BY <1>9 DEF vars, net
<1> QED
  BY <1>1, <1>2, <1>3, <1>4, <1>5, <1>6, <1>7, <1>8, <1>9 DEF Next, Loop, Kernel, User

-----------------------------------------------------------------------------
(***************************************************************************)
(* The receive request.                                                    *)
(***************************************************************************)
\* Every step keeps the receive request in agreement with what has come.
LEMMA ReceiveStep ==
  ASSUME Types, ReceiveMatches, [Next]_vars
  PROVE  ReceiveMatches'
<1> USE DEF Types, ReceiveMatches
<1>1. CASE Bind \/ RecvStart \/ DestroyLooper \/ Close \/ FreeUdpCtx
  BY <1>1 DEF Bind, RecvStart, QueueRecv, DestroyLooper, Close, FreeUdpCtx, net
<1>2. ASSUME NEW t \in Senders, Send(t) PROVE ReceiveMatches'
  BY <1>2 DEF Send, net
<1>3. CASE DoEvent
  BY <1>3 DEF DoEvent, Awake, net
<1>4. CASE AfterRecv
  BY <1>4 DEF AfterRecv
<1>5. CASE OnHandleClose \/ Endgame
  BY <1>5 DEF OnHandleClose, Endgame, net
<1>6. ASSUME NEW d \in Datagrams, AfterSend(d) \/ CompleteSend(d) PROVE ReceiveMatches'
  BY <1>6 DEF AfterSend, CompleteSend, Awake, net
<1>7. CASE CompleteRecv
  BY <1>7 DEF CompleteRecv, net
<1>8. CASE Come
  <2>1. inbox # <<>> => inbox' # <<>>
    BY <1>8 DEF Come
  <2> QED
    BY <1>8, <2>1 DEF Come
<1>9. CASE UNCHANGED vars
  BY <1>9 DEF vars, net
<1> QED
  BY <1>1, <1>2, <1>3, <1>4, <1>5, <1>6, <1>7, <1>8, <1>9 DEF Next, Loop, Kernel, User

-----------------------------------------------------------------------------
(***************************************************************************)
(* The datagrams.                                                          *)
(***************************************************************************)
\* Steps that leave the datagrams alone.
Apart == UNCHANGED <<count, events, sends>>

\* Most steps do.
LEMMA OtherSteps ==
  ASSUME [Next]_vars
  PROVE  \/ Apart /\ (UNCHANGED life \/ Endgame)
         \/ (\E t \in Senders : Send(t)) \/ DoEvent \/ OnHandleClose
         \/ \E d \in Datagrams : AfterSend(d) \/ CompleteSend(d)
BY DEF Next, Loop, Kernel, User, Apart, vars, Bind, RecvStart, DestroyLooper, Close,
   FreeUdpCtx, AfterRecv, Endgame, CompleteRecv, Come

\* A datagram that is pushed is a new one; one that is handled leaves the queue
\* for good; one whose request ends is one that was under way.
LEMMA SendsStep ==
  ASSUME Types, EachOnce, ClosingGivesUp, ParamsMatch, [Next]_vars
  PROVE  EachOnce' /\ ClosingGivesUp' /\ ParamsMatch'
<1> USE DEF Types, EachOnce, ClosingGivesUp, ParamsMatch, Pushed
<1>1. CASE Apart /\ (UNCHANGED life \/ Endgame)
  BY <1>1 DEF Apart, sends, Endgame
<1>2. ASSUME NEW t \in Senders, Send(t)
      PROVE  EachOnce' /\ ClosingGivesUp' /\ ParamsMatch'
  <2>0. PICK d : d = <<t, count[t] + 1>>
    OBVIOUS
  <2>1. /\ events' = Append(events, d) /\ d \in Datagrams /\ ~Pushed(d)
        /\ count' = [count EXCEPT ![t] = count[t] + 1] /\ UNCHANGED <<sends, life>>
        /\ d[1] = t /\ d[2] = count[t] + 1
    BY <1>2, <2>0, BoundsAssumption DEF Send, Datagrams
  <2>2. \A e \in Datagrams : Pushed(e) => Pushed(e)'
    BY <2>1 DEF Datagrams
  <2>3. Pushed(d)'
    BY <2>1
  <2>4. /\ Len(events') = Len(events) + 1 /\ events'[Len(events) + 1] = d
        /\ \A i \in 1 .. Len(events) : events'[i] = events[i] /\ events[i] \in Datagrams
    BY <2>1
  <2>5. d \notin sending \cup sent /\ \A i \in 1 .. Len(events) : events[i] # d
    BY <2>1
  <2>6. EachOnce'
    <3>1. \A i \in 1 .. Len(events') : i \in 1 .. Len(events) \/ i = Len(events) + 1
      BY <2>4
    <3>2. sending' = sending /\ sent' = sent
      BY <2>1 DEF sends
    <3>3. \A i \in 1 .. Len(events') :
            Pushed(events[i])' /\ events'[i] \notin sending' \cup sent'
      <4> SUFFICES ASSUME NEW i \in 1 .. Len(events')
                   PROVE  Pushed(events[i])' /\ events'[i] \notin sending' \cup sent'
        OBVIOUS
      <4>1. CASE i \in 1 .. Len(events)
        BY <2>2, <2>4, <3>2, <4>1
      <4>2. CASE i = Len(events) + 1
        BY <2>3, <2>4, <2>5, <3>2, <4>2
      <4> QED
        BY <3>1, <4>1, <4>2
    <3> QED
      BY <2>2, <2>3, <2>4, <2>5, <3>1, <3>2, <3>3
  <2> QED
    BY <2>1, <2>6 DEF sends
<1>3. CASE DoEvent
  <2> DEFINE d == Head(events)
  <2>1. /\ events # <<>> /\ events' = Tail(events) /\ life = "open" /\ life' = life
        /\ count' = count /\ d = events[1] /\ d \in Datagrams
    BY <1>3 DEF DoEvent
  <2>2. d \notin sending \cup sent /\ Pushed(d)
    BY <2>1
  <2>3. \A i \in 1 .. Len(events') :
          /\ i + 1 \in 1 .. Len(events) /\ events'[i] = events[i + 1]
          /\ events'[i] # d
    BY <2>1
  <2>4. \/ params' = params (+) SetToBag({d}) /\ sending' \cup sent' = (sending \cup sent) \cup {d}
           /\ sending' \cap sent' = {}
        \/ UNCHANGED sends
    BY <1>3, <2>2 DEF DoEvent, sendinl
  <2> HIDE DEF d
  <2>5. ParamsMatch'
    BY <2>2, <2>4, BagAdd DEF sends
  <2>6. sending' \cap sent' = {} /\ sending' \cup sent' \subseteq (sending \cup sent) \cup {d}
    BY <2>4 DEF sends
  <2>7. EachOnce'
    <3>1. \A i, j \in 1 .. Len(events') : events'[i] = events'[j] => i = j
      BY <2>3
    <3>2. \A i \in 1 .. Len(events') :
            Pushed(events[i])' /\ events'[i] \notin sending' \cup sent'
      BY <2>1, <2>3, <2>6
    <3> QED
      BY <2>1, <2>2, <2>6, <3>1, <3>2
  <2> QED
    BY <2>1, <2>5, <2>7
<1>4. CASE OnHandleClose
  <2>1. sending' = {} /\ sent' = sending \cup sent /\ UNCHANGED <<count, events, params>>
        /\ life' = "closing"
    BY <1>4 DEF OnHandleClose
  <2> QED
    BY <2>1
<1>5. ASSUME NEW d \in Datagrams, AfterSend(d)
      PROVE  EachOnce' /\ ClosingGivesUp' /\ ParamsMatch'
  <2>1. /\ d \in sending \cup sent /\ sending' \cup sent' = (sending \cup sent) \ {d}
        /\ sending' \cap sent' = {}
        /\ UNCHANGED <<count, events, life, sending>> /\ sent' \subseteq sent
    BY <1>5 DEF AfterSend
  <2>2. params' = SetToBag((sending \cup sent) \ {d})
    BY <1>5, <2>1, BagRemove DEF AfterSend
  <2> QED
    BY <2>1, <2>2
<1>6. ASSUME NEW d \in Datagrams, CompleteSend(d)
      PROVE  EachOnce' /\ ClosingGivesUp' /\ ParamsMatch'
  <2>1. /\ sending' \cup sent' = sending \cup sent /\ sending' \cap sent' = {}
        /\ UNCHANGED <<count, events, life, params>> /\ life = "open"
    BY <1>6 DEF CompleteSend
  <2> QED
    BY <2>1
<1> QED
  BY <1>1, <1>2, <1>3, <1>4, <1>5, <1>6, OtherSteps

-----------------------------------------------------------------------------
(***************************************************************************)
(* Theorems.                                                               *)
(***************************************************************************)
\* IInv is an inductive invariant.
THEOREM Inductive == Spec => []IInv
<1>1. Init => IInv
  <2> SUFFICES ASSUME Init PROVE IInv
    OBVIOUS
  <2>1. Types
    <3>1. <<>> \in Seq(Datagrams) /\ <<>> \in Seq(Items) /\ Len(<<>>) = 0
      OBVIOUS
    <3>2. events \in Seq(Datagrams) /\ Len(events) = 0
      BY <3>1 DEF Init
    <3>3. inbox \in Seq(Items) /\ Len(inbox) <= Room
      BY <3>1, BoundsAssumption DEF Init
    <3>4. count \in [Senders -> 0 .. MaxSends] /\ came \in 0 .. MaxItems
      BY BoundsAssumption DEF Init
    <3>5. owner = "attached" /\ life = "open" /\ reading = FALSE /\ req = "none"
      BY DEF Init
    <3>6. mark \in Int /\ -1 <= mark /\ mark <= Len(events)
      BY <3>2 DEF Init
    <3> QED
      BY <3>2, <3>3, <3>4, <3>5, <3>6 DEF Types
  <2>2. EachOnce /\ ClosingGivesUp /\ ReceiveMatches
    BY DEF Init, EachOnce, ClosingGivesUp, ReceiveMatches
  <2>3. ParamsMatch
    BY DEF Init, ParamsMatch, EmptyBag
  <2> QED
    BY <2>1, <2>2, <2>3 DEF IInv
<1>2. IInv /\ [Next]_vars => IInv'
  BY TypesStep, ReceiveStep, SendsStep DEF IInv
<1> QED
  BY <1>1, <1>2, PTL DEF Spec

\* Each send_param is freed exactly once, on every path a datagram may take (at
\* once, refused, completed later, given up by closing), and a posted receive
\* finds something (Udp.cpp:103-109, 152-163).
THEOREM RequestsAgree == Spec => []UdpInv
<1>1. IInv => UdpInv
  <2> SUFFICES ASSUME IInv PROVE UdpInv
    OBVIOUS
  <2> USE DEF IInv
  <2>1. TypeOK
    BY DEF Types, EachOnce, TypeOK
  <2>2. ParamsFreedOnce
    BY DEF ParamsMatch, ClosingGivesUp, ParamsFreedOnce, EmptyBag
  <2> QED
    BY <2>1, <2>2 DEF UdpInv
<1> QED
  BY <1>1, Inductive, PTL
=============================================================================
