-------------------------------- MODULE Udp --------------------------------
(***************************************************************************)
(* A udp socket on a looper: class CUvUdp (uv/Udp.cpp) over uv_udp_*       *)
(* (libuv/src/win/udp.c), used as the demo does: the owner attaches and    *)
(* binds it while the looper's thread runs already, threads then send, and *)
(* the looper is destroyed before the socket is.                           *)
(*                                                                         *)
(* Of the looper this module keeps its promises (module Looper): events    *)
(* are handled in the order they were pushed, and those pushed before      *)
(* Close before the close walk.  Of the handle it keeps the one receive    *)
(* request, a zero-read that is done when there is something to receive,   *)
(* and the requests of the datagrams being sent.                           *)
(***************************************************************************)
EXTENDS Integers, Bags, SequencesExt

CONSTANTS
  Senders,    \* threads that call Send
  MaxSends,   \* bound: datagrams each of them sends
  MaxItems,   \* bound: datagrams and errors the network brings
  Room        \* how many of them the socket's buffer holds

ASSUME BoundsAssumption ==
  /\ MaxSends \in Nat /\ MaxItems \in Nat /\ Room \in Nat

Datagrams == Senders \X (1 .. MaxSends)

\* What a receive finds: a datagram, WSAECONNRESET because nobody listened where
\* an earlier datagram went, or a real error.
Items == {"data", "reset", "error"} \X (1 .. MaxItems)

VARIABLES
  owner,      \* where the owner is between AttachLooper and the destructors
  count,      \* how many datagrams each sender has pushed
  events,     \* the looper's queue
  mark,       \* events to handle before the close walk, -1 without Close
  life,       \* the handle: open, closing, closed
  bound,      \* UV_HANDLE_BOUND: the socket exists and receives
  reading,    \* UV_HANDLE_READING
  req,        \* recv_req: none, with the kernel, posted, or pending where only
              \* a thread that is not the loop's has put it (parked)
  inbox,      \* what the socket has received
  came,       \* how many items the network has brought
  params,     \* the send_params allocated and not freed, with their number
  sending,    \* datagrams with the kernel
  sent,       \* those whose completion the loop has yet to process
  got         \* history: the items whose receive callback has run

net == <<inbox, came>>
sends == <<params, sending, sent>>
vars == <<owner, count, events, mark, life, bound, reading, req, net, sends, got>>

-----------------------------------------------------------------------------
(***************************************************************************)
(* The owner and the senders.                                              *)
(***************************************************************************)
\* The first half of Bind.  Without a port it asks for broadcasts on a handle
\* that has no socket yet, which fails, as uv_udp_bind may.
Bind ==
  /\ owner = "attached"
  /\ \/ owner' = "bound" /\ bound' = TRUE
     \/ owner' = "failed" /\ UNCHANGED bound
  /\ UNCHANGED <<count, events, mark, life, reading, req, net, sends, got>>

\* uv_udp_queue_recv: done at once when something has come, or left to the
\* kernel.  The loop's thread sees what it queued itself before it waits again.
QueueRecv(atOnce) ==
  req' = IF inbox # <<>> THEN atOnce ELSE "kernel"

\* The second half, uv_udp_recv_start, on the owner's thread.
RecvStart ==
  /\ owner = "bound"
  /\ owner' = "ready"
  /\ reading' = TRUE
  /\ QueueRecv("parked")
  /\ UNCHANGED <<count, events, mark, life, bound, net, sends, got>>

\* PushEvent of a WRITE event.
Send(t) ==
  /\ owner \in {"ready", "failed"} /\ count[t] < MaxSends
  /\ count' = [count EXCEPT ![t] = @ + 1]
  /\ events' = Append(events, <<t, count'[t]>>)
  /\ UNCHANGED <<owner, mark, life, bound, reading, req, net, sends, got>>

\* ~CLooper: Close, then it waits for the loop's thread.
DestroyLooper ==
  /\ owner \in {"ready", "failed"}
  /\ owner' = "waiting"
  /\ mark' = IF mark = -1 THEN Len(events) ELSE mark
  /\ UNCHANGED <<count, events, life, bound, reading, req, net, sends, got>>

\* CUvUdp::Close closes the looper.
Close ==
  /\ owner \in {"ready", "failed"} /\ mark = -1
  /\ mark' = Len(events)
  /\ UNCHANGED <<owner, count, events, life, bound, reading, req, net, sends, got>>

\* The thread has ended: FreeUdpCtx frees the handle.
FreeUdpCtx ==
  /\ owner = "waiting" /\ life = "closed"
  /\ owner' = "done"
  /\ UNCHANGED <<count, events, mark, life, bound, reading, req, net, sends, got>>

-----------------------------------------------------------------------------
(***************************************************************************)
(* The loop's thread.                                                      *)
(***************************************************************************)
\* Whatever wakes the loop lets it find a request parked in its queue.
Awake(r) == IF r = "parked" THEN "posted" ELSE r

\* Mutant: a refused datagram keeps its send_param.
SendInlKeeps(d) ==
  \/ /\ bound' = TRUE
     /\ params' = params (+) SetToBag({d})
     /\ \/ sending' = sending \cup {d} /\ UNCHANGED sent
        \/ sent' = sent \cup {d} /\ UNCHANGED sending
  \/ /\ bound' \in {bound, TRUE}
     /\ params' = params (+) SetToBag({d})
     /\ UNCHANGED <<sending, sent>>

\* sendinl: uv_udp_send binds the socket if need be, then the kernel takes the
\* datagram, sends it at once or refuses it; then the send_param is freed here.
sendinl(d) ==
  \/ /\ bound' = TRUE
     /\ params' = params (+) SetToBag({d})
     /\ \/ sending' = sending \cup {d} /\ UNCHANGED sent
        \/ sent' = sent \cup {d} /\ UNCHANGED sending
  \/ /\ bound' \in {bound, TRUE}
     /\ UNCHANGED sends

\* One event of CLooper::DoEvent.
DoEvent ==
  /\ life = "open" /\ events # <<>>
  /\ events' = Tail(events)
  /\ mark' = IF mark > 0 THEN mark - 1 ELSE mark
  /\ sendinl(Head(events))
  /\ req' = Awake(req)
  /\ UNCHANGED <<owner, count, life, reading, net, got>>

\* AfterSend
AfterSend(d) ==
  /\ d \in sent
  /\ sent' = sent \ {d}
  /\ params' = params (-) SetToBag({d})
  /\ req' = Awake(req)
  /\ UNCHANGED <<owner, count, events, mark, life, bound, reading, net, sending, got>>

\* Mutant: a reset ends receiving as any other error does.
ResetIsError(item) == item[1] # "data"

\* uv_udp_recv_stop before the callback, which ignores errors (Udp.cpp:54).
EndsReceiving(item) == item[1] = "error"

\* uv_process_udp_recv_req, with the callback: CUvUdp::AfterRecv changes no state
\* of its own, whether it returns early (nRead <= 0) or hands the data on.
AfterRecv ==
  /\ req = "posted"
  /\ IF reading
     THEN /\ got' = Append(got, Head(inbox))
          /\ inbox' = Tail(inbox)
          /\ reading' = ~EndsReceiving(Head(inbox))
          /\ req' = IF ~reading' THEN "none"
                    ELSE IF inbox' # <<>> THEN "posted" ELSE "kernel"
     ELSE req' = "none" /\ UNCHANGED <<got, inbox, reading>>
  /\ UNCHANGED <<owner, count, events, mark, life, bound, came, sends>>

\* Mutant: the walk passes a handle that was never bound.
WalkBound ==
  /\ mark = 0 /\ life = "open" /\ bound
  /\ life' = "closing"
  /\ reading' = FALSE /\ inbox' = <<>>
  /\ req' = IF req = "none" THEN "none" ELSE "posted"
  /\ sending' = {} /\ sent' = sent \cup sending
  /\ UNCHANGED <<owner, count, events, mark, bound, came, params, got>>

\* The close walk calls OnHandleClose: uv_close gives up the socket, and the
\* kernel what it has of it.
OnHandleClose ==
  /\ mark = 0 /\ life = "open"
  /\ life' = "closing"
  /\ reading' = FALSE /\ inbox' = <<>>
  /\ req' = IF req = "none" THEN "none" ELSE "posted"
  /\ sending' = {} /\ sent' = sent \cup sending
  /\ UNCHANGED <<owner, count, events, mark, bound, came, params, got>>

\* uv_udp_endgame, and the looper ends.
Endgame ==
  /\ life = "closing" /\ req = "none" /\ sent = {}
  /\ life' = "closed"
  /\ UNCHANGED <<owner, count, events, mark, bound, reading, req, net, sends, got>>

-----------------------------------------------------------------------------
(***************************************************************************)
(* The network and the kernel.  Datagrams are lost, and arrive in any      *)
(* order: which ones come, and when, is arbitrary.                         *)
(***************************************************************************)
Come ==
  /\ bound /\ life = "open" /\ came < MaxItems
  /\ came' = came + 1
  /\ \E kind \in {"data", "reset", "error"} :
       inbox' = IF Len(inbox) < Room THEN Append(inbox, <<kind, came'>>) ELSE inbox
  /\ UNCHANGED <<owner, count, events, mark, life, bound, reading, req, sends, got>>

CompleteRecv ==
  /\ req = "kernel" /\ inbox # <<>>
  /\ req' = "posted"
  /\ UNCHANGED <<owner, count, events, mark, life, bound, reading, net, sends, got>>

CompleteSend(d) ==
  /\ d \in sending
  /\ sending' = sending \ {d} /\ sent' = sent \cup {d}
  /\ UNCHANGED <<owner, count, events, mark, life, bound, reading, req, net, params, got>>

-----------------------------------------------------------------------------
Init ==
  /\ owner = "attached" /\ count = [t \in Senders |-> 0]
  /\ events = <<>> /\ mark = -1
  /\ life = "open" /\ bound = FALSE /\ reading = FALSE /\ req = "none"
  /\ inbox = <<>> /\ came = 0
  /\ params = EmptyBag /\ sending = {} /\ sent = {}
  /\ got = <<>>

Loop == DoEvent \/ AfterRecv \/ OnHandleClose \/ Endgame \/ \E d \in Datagrams : AfterSend(d)
Kernel == CompleteRecv \/ \E d \in Datagrams : CompleteSend(d)
User == Bind \/ RecvStart \/ DestroyLooper \/ Close \/ FreeUdpCtx \/ \E t \in Senders : Send(t)

Next == Loop \/ Kernel \/ User \/ Come

Spec == Init /\ [][Next]_vars

\* The loop's thread runs what is there, in some order; the kernel completes
\* requests; and the owner waits in ~CLooper no longer than it must.
FairSpec ==
  /\ Spec
  /\ WF_vars(DoEvent) /\ WF_vars(AfterRecv) /\ WF_vars(OnHandleClose) /\ WF_vars(Endgame)
  /\ WF_vars(FreeUdpCtx) /\ WF_vars(CompleteRecv)
  /\ \A d \in Datagrams : WF_vars(AfterSend(d)) /\ WF_vars(CompleteSend(d))

-----------------------------------------------------------------------------
\* Every variable keeps its type.
TypeOK ==
  /\ owner \in {"attached", "bound", "ready", "failed", "waiting", "done"}
  /\ \A t \in Senders : count[t] \in 0 .. MaxSends
  /\ \A i \in 1 .. Len(events) : events[i] \in Datagrams
  /\ mark \in -1 .. Len(events)
  /\ life \in {"open", "closing", "closed"}
  /\ req \in {"none", "kernel", "posted", "parked"}
  /\ Len(inbox) <= Room /\ came \in 0 .. MaxItems
  /\ sending \cap sent = {} /\ sending \cup sent \subseteq Datagrams

\* Every send_param is freed exactly once: there is one for each datagram with
\* the kernel or on its way back, and none for another one, refused datagrams
\* and those that closing the socket gave up included (Udp.cpp:103-109,
\* 158-162); none is left when the handle is.
ParamsFreedOnce ==
  /\ params = SetToBag(sending \cup sent)
  /\ life = "closed" => params = EmptyBag

\* A posted receive always finds something: the receive request and the
\* socket's buffer never disagree, so that no callback reports nothing and no
\* item waits while the request is idle (udp.c:498-560).
ReceiveMatches ==
  /\ req \in {"posted", "parked"} /\ reading => inbox # <<>>
  /\ reading => req # "none"

\* The requests and what they were allocated agree in every state.
UdpInv == TypeOK /\ ParamsFreedOnce /\ ReceiveMatches

\* While the socket is open a datagram that was received is handed to libuv's
\* callback (CUvUdp::AfterRecv, which itself drops an empty one), even behind reports that nobody listens where an earlier one was sent: only a
\* real error ends receiving.  A request that Bind has parked waits for the
\* loop to wake up.
Heard ==
  \A n \in 1 .. MaxItems :
    (<<"data", n>> \in ToSet(inbox) /\ reading /\ req # "parked")
      ~> \/ <<"data", n>> \in ToSet(got) \/ life # "open"
         \/ \E m \in 1 .. MaxItems : <<"error", m>> \in ToSet(got)

\* Destroying the looper comes to its end, whatever is being sent and received,
\* and whether or not Bind has failed.
Ends == (owner = "waiting") ~> (owner = "done")
=============================================================================
