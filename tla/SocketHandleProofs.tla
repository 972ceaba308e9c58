------------------------- MODULE SocketHandleProofs -------------------------
(***************************************************************************)
(* Proofs about SocketHandle, for any number of writes and accept          *)
(* requests: the counters of a handle count its requests, each request is  *)
(* in one place, the loop is alive as long as a callback is due, and the   *)
(* handle keeps libuv's promises about callbacks (HandleContract).         *)
(***************************************************************************)
EXTENDS SocketHandle, SequenceTheorems, FiniteSetTheorems, TLAPS

\* The kernel refuses requests, or the application stops reading and starts
\* again.  With both, a refused read and its successor are queued twice.
KeptApart == \A u \in Uses : ~(u.restarts /\ u.fails)

-----------------------------------------------------------------------------
(***************************************************************************)
(* The inductive invariant.                                                *)
(***************************************************************************)
Entries == [req : Reqs, ok : BOOLEAN]

Handles ==
  [flags : SUBSET Flags, reqs_pending : Int, activecnt : Int, writes : Int,
   shutdown_req : BOOLEAN, iocp : SUBSET Reqs, pending : Seq(Entries),
   active_handles : Int, active_reqs : Int]

\* The types, without the signs of the counters.
Typed ==
  /\ type \in Types /\ use \in Uses /\ s \in Handles
  /\ completed \in Seq(Entries) /\ batch \in Seq(Entries)
  /\ pending_accepts \in Seq(Accepts) /\ accept_socket \subseteq Accepts
  /\ at \in {"reqs", "endgames", "recv", "requeue", "finish", "written", "shut"}
  /\ cb \in {"none", "read", "write", "connect", "shutdown", "connection",
             "close"}
  /\ reads \in {0, 1} /\ asked \subseteq Writes \cup {"read"}

\* The requests in a queue, and that each is in it once.
ReqsOf(q) == {q[i].req : i \in 1 .. Len(q)}
Distinct(q) == \A i, j \in 1 .. Len(q) : q[i].req = q[j].req => i = j

Queue == s.pending \o batch \o completed
Stack == {pending_accepts[i] : i \in 1 .. Len(pending_accepts)}

\* OnePlace, with positions in place of cardinalities.
OneEach(kernel, q) ==
  Distinct(q) /\ IsFiniteSet(kernel) /\ kernel \cap ReqsOf(q) = {}

PlaceInv ==
  /\ OneEach(s.iocp, Queue)
  /\ at \in {"endgames", "shut"} => batch = <<>>
  /\ \A i, j \in 1 .. Len(pending_accepts) :
       pending_accepts[i] = pending_accepts[j] => i = j
  /\ Stack \cap InFlight = {}

\* The read request: READ_PENDING says whether there is one, unless the kernel
\* refused it; then the application starts reading only once.
ReadInv ==
  /\ "READ_PENDING" \in s.flags => "read" \in InFlight
  /\ use.restarts /\ "read" \in InFlight => "READ_PENDING" \in s.flags
  /\ ~use.restarts /\ at \in {"recv", "requeue"} => "read" \notin InFlight
  /\ ~use.restarts /\ ("read" \in InFlight \/ at \in {"recv", "requeue"})
       => "read" \in asked
  /\ "READING" \in s.flags => "read" \in InFlight \/ at \in {"recv", "requeue"}

\* The other requests.
OtherInv ==
  /\ InFlight \cap Writes \subseteq asked
  /\ "connect" \in InFlight <=> "CONNECTING" \in s.flags
  /\ "LISTENING" \in s.flags => Accepts \ Stack \subseteq InFlight

\* Which flags exclude each other.
FlagInv ==
  /\ "CLOSED" \in s.flags =>
       "CLOSING" \in s.flags /\ s.reqs_pending = 0 /\ "ENDGAME_QUEUED" \notin s.flags
  /\ "CLOSING" \in s.flags =>
       {"READING", "LISTENING", "READABLE", "WRITABLE"} \cap s.flags = {}
  /\ "WRITABLE" \in s.flags => "CONNECTION" \in s.flags /\ ~s.shutdown_req
  /\ s.shutdown_req => "CONNECTION" \in s.flags
  /\ "CONNECTING" \in s.flags => "CONNECTION" \notin s.flags
  /\ at = "shut" => s.shutdown_req

\* What the counters count.
WritesIn(F) == Cardinality(F \cap Writes)
Has(t, f) == Count(f \in t.flags)

CountInv ==
  /\ s.reqs_pending = Cardinality(InFlight) + Count(s.shutdown_req)
                        + Count(InProcess)
  /\ s.writes = WritesIn(InFlight) + Count(at = "written")
  /\ s.active_reqs = WritesIn(InFlight) + Has(s, "CONNECTING")
                       + Count(s.shutdown_req /\ at # "shut")
  /\ s.activecnt = Has(s, "READING") + Has(s, "LISTENING") + s.active_reqs

\* A handle is active as long as something of it is, and counts as one of the
\* loop's active handles then, unless it was unref'd, and while it is closing.
Half(t) ==
  /\ "CLOSED" \in t.flags => "CLOSING" \in t.flags
  /\ "CLOSING" \in t.flags => "ACTIVE" \notin t.flags
  /\ "CLOSING" \notin t.flags => ("ACTIVE" \in t.flags <=> t.activecnt > 0)
  /\ t.active_handles = IF "CLOSED" \in t.flags THEN 0
                        ELSE IF "CLOSING" \in t.flags THEN 1
                        ELSE Count({"REF", "ACTIVE"} \subseteq t.flags)

IInv ==
  Typed /\ PlaceInv /\ ReadInv /\ OtherInv /\ FlagInv /\ CountInv /\ Half(s)

-----------------------------------------------------------------------------
(***************************************************************************)
(* Queues.                                                                 *)
(***************************************************************************)
QueuesTyped ==
  s \in Handles /\ batch \in Seq(Entries) /\ completed \in Seq(Entries)

\* What is in flight, without the function Queued.
LEMMA FlightIs ==
  QueuesTyped => /\ Queue \in Seq(Entries)
                 /\ Len(Queued) = Len(Queue)
                 /\ QueuedReqs = ReqsOf(Queue)
                 /\ InFlight = s.iocp \cup ReqsOf(Queue)
<1> SUFFICES ASSUME QueuesTyped
             PROVE  /\ Queue \in Seq(Entries)
                    /\ Len(Queued) = Len(Queue)
                    /\ QueuedReqs = ReqsOf(Queue)
                    /\ InFlight = s.iocp \cup ReqsOf(Queue)
  OBVIOUS
<1>1. Queue \in Seq(Entries)
  BY DEF QueuesTyped, Handles, Queue
<1>2. /\ Queued = [i \in 1 .. Len(Queue) |-> Queue[i].req]
      /\ Len(Queue) \in Nat
  BY <1>1 DEF Queued, Queue
<1>3. \A i \in 1 .. Len(Queue) : Queue[i].req \in Reqs
  <2>1. \A i \in 1 .. Len(Queue) : Queue[i] \in Entries
    BY <1>1
  <2> QED
    BY <2>1 DEF Entries
<1>4. Queued \in Seq(Reqs) /\ Len(Queued) = Len(Queue)
  BY <1>2, <1>3
<1>5. QueuedReqs = ReqsOf(Queue)
  BY <1>2, <1>4 DEF QueuedReqs, ReqsOf
<1> QED
  BY <1>1, <1>4, <1>5 DEF InFlight

\* Concatenation is associative.
LEMMA QueueParts ==
  ASSUME NEW p \in Seq(Entries), NEW q \in Seq(Entries), NEW z \in Seq(Entries)
  PROVE  (p \o q) \o z = p \o (q \o z)
BY ConcatAssociative

\* A request put behind the first part of a queue.
LEMMA QueueInsert ==
  ASSUME NEW p \in Seq(Entries), NEW q \in Seq(Entries), NEW x \in Entries,
         Distinct(p \o q), x.req \notin ReqsOf(p \o q)
  PROVE  /\ Distinct(Append(p, x) \o q)
         /\ ReqsOf(Append(p, x) \o q) = ReqsOf(p \o q) \cup {x.req}
<1> DEFINE a == p \o q
           b == Append(p, x) \o q
           n == Len(p) + 1
<1>1. /\ Len(a) \in Nat /\ Len(b) = Len(a) + 1
      /\ n \in Nat /\ n \in 1 .. Len(b)
  OBVIOUS
<1>2. \A j \in 1 .. Len(b) :
        b[j] = IF j < n THEN a[j] ELSE IF j = n THEN x ELSE a[j - 1]
  OBVIOUS
<1>3. \A i \in 1 .. Len(a) : a[i] = IF i < n THEN b[i] ELSE b[i + 1]
  OBVIOUS
<1> HIDE DEF n, a, b
<1>4. Distinct(a) /\ \A k \in 1 .. Len(a) : a[k].req # x.req
  BY DEF a, ReqsOf
<1>5. Distinct(b)
  <2> SUFFICES ASSUME NEW i \in 1 .. Len(b), NEW j \in 1 .. Len(b),
                      b[i].req = b[j].req
               PROVE  i = j
    BY DEF Distinct
  <2> \A k \in 1 .. Len(b) : k # n => b[k].req # x.req
    <3> SUFFICES ASSUME NEW k \in 1 .. Len(b), k # n
                 PROVE  b[k].req # x.req
      OBVIOUS
    <3>1. CASE k < n
      <4>1. k \in 1 .. Len(a) /\ b[k] = a[k]
        BY <1>1, <1>2, <3>1
      <4> QED
        BY <1>4, <4>1
    <3>2. CASE k > n
      <4>1. k - 1 \in 1 .. Len(a) /\ b[k] = a[k - 1]
        BY <1>1, <1>2, <3>2
      <4> QED
        BY <1>4, <4>1
    <3> QED
      BY <1>1, <3>1, <3>2
  <2>1. CASE i = n \/ j = n
    BY <1>1, <1>2, <2>1
  <2>2. CASE i < n /\ j < n
    <3>1. /\ i \in 1 .. Len(a) /\ j \in 1 .. Len(a)
          /\ b[i] = a[i] /\ b[j] = a[j]
      BY <1>1, <1>2, <2>2
    <3> QED
      BY <1>4, <3>1 DEF Distinct
  <2>3. CASE i < n /\ j > n
    <3>1. /\ j - 1 \in 1 .. Len(a) /\ i \in 1 .. Len(a)
          /\ b[j] = a[j - 1] /\ b[i] = a[i]
      BY <1>1, <1>2, <2>3
    <3> QED
      BY <1>1, <1>4, <2>3, <3>1 DEF Distinct
  <2>4. CASE i > n /\ j < n
    <3>1. /\ i - 1 \in 1 .. Len(a) /\ j \in 1 .. Len(a)
          /\ b[i] = a[i - 1] /\ b[j] = a[j]
      BY <1>1, <1>2, <2>4
    <3> QED
      BY <1>1, <1>4, <2>4, <3>1 DEF Distinct
  <2>5. CASE i > n /\ j > n
    <3>1. /\ i - 1 \in 1 .. Len(a) /\ j - 1 \in 1 .. Len(a)
          /\ b[i] = a[i - 1] /\ b[j] = a[j - 1]
      BY <1>1, <1>2, <2>5
    <3> QED
      BY <1>1, <1>4, <3>1 DEF Distinct
  <2> QED
    BY <1>1, <2>1, <2>2, <2>3, <2>4, <2>5
<1>6. ReqsOf(b) = ReqsOf(a) \cup {x.req}
  <2>1. \A i \in 1 .. Len(a) : a[i].req \in ReqsOf(b)
    <3> TAKE i \in 1 .. Len(a)
    <3>1. i \in 1 .. Len(b) /\ i + 1 \in 1 .. Len(b)
      BY <1>1
    <3> QED
      BY <1>3, <3>1 DEF ReqsOf
  <2>2. \A j \in 1 .. Len(b) : b[j].req \in ReqsOf(a) \cup {x.req}
    BY <1>1, <1>2 DEF ReqsOf
  <2>3. x.req \in ReqsOf(b)
    BY <1>1, <1>2 DEF ReqsOf
  <2> QED
    BY <2>1, <2>2, <2>3 DEF ReqsOf
<1> QED
  BY <1>5, <1>6 DEF a, b

\* A request taken from the front of the second part.
LEMMA QueueRemove ==
  ASSUME NEW p \in Seq(Entries), NEW q \in Seq(Entries), q # <<>>,
         Distinct(p \o q)
  PROVE  /\ Distinct(p \o Tail(q))
         /\ Head(q).req \in ReqsOf(p \o q)
         /\ ReqsOf(p \o Tail(q)) = ReqsOf(p \o q) \ {Head(q).req}
<1> DEFINE a == p \o q
           b == p \o Tail(q)
           n == Len(p) + 1
<1>1. /\ Len(b) \in Nat /\ Len(a) = Len(b) + 1
      /\ n \in Nat /\ n \in 1 .. Len(a)
  BY EmptySeq, HeadTailProperties
<1>2. \A j \in 1 .. Len(b) : b[j] = IF j < n THEN a[j] ELSE a[j + 1]
  BY EmptySeq, HeadTailProperties
<1>3. a[n] = Head(q)
  BY EmptySeq, HeadTailProperties
<1>4. \A i \in 1 .. Len(a) : i # n => a[i] = IF i < n THEN b[i] ELSE b[i - 1]
  BY <1>1, <1>2
<1> HIDE DEF n, a, b
<1>5. Distinct(a)
  BY DEF a
<1>6. Distinct(b)
  <2> SUFFICES ASSUME NEW i \in 1 .. Len(b), NEW j \in 1 .. Len(b),
                      b[i].req = b[j].req
               PROVE  i = j
    BY DEF Distinct
  <2>1. /\ i \in 1 .. Len(a) /\ i + 1 \in 1 .. Len(a)
        /\ j \in 1 .. Len(a) /\ j + 1 \in 1 .. Len(a)
    BY <1>1
  <2>2. CASE i < n /\ j < n
    BY <1>2, <1>5, <2>1, <2>2 DEF Distinct
  <2>3. CASE i < n /\ ~(j < n)
    <3>1. a[i].req = a[j + 1].req
      BY <1>2, <2>3
    <3> QED
      BY <1>1, <1>5, <2>1, <2>3, <3>1 DEF Distinct
  <2>4. CASE ~(i < n) /\ j < n
    <3>1. a[i + 1].req = a[j].req
      BY <1>2, <2>4
    <3> QED
      BY <1>1, <1>5, <2>1, <2>4, <3>1 DEF Distinct
  <2>5. CASE ~(i < n) /\ ~(j < n)
    <3>1. a[i + 1].req = a[j + 1].req
      BY <1>2, <2>5
    <3> QED
      BY <1>1, <1>5, <2>1, <3>1 DEF Distinct
  <2> QED
    BY <2>2, <2>3, <2>4, <2>5
<1>7. ReqsOf(b) = ReqsOf(a) \ {Head(q).req}
  <2>1. \A i \in 1 .. Len(a) : i # n => a[i].req # a[n].req
    BY <1>1, <1>5 DEF Distinct
  <2>2. \A i \in 1 .. Len(a) : i # n => a[i].req \in ReqsOf(b)
    <3> SUFFICES ASSUME NEW i \in 1 .. Len(a), i # n
                 PROVE  a[i].req \in ReqsOf(b)
      OBVIOUS
    <3>1. CASE i < n
      <4>1. i \in 1 .. Len(b) /\ a[i] = b[i]
        BY <1>1, <1>4, <3>1
      <4> QED
        BY <4>1 DEF ReqsOf
    <3>2. CASE i > n
      <4>1. i - 1 \in 1 .. Len(b) /\ a[i] = b[i - 1]
        BY <1>1, <1>4, <3>2
      <4> QED
        BY <4>1 DEF ReqsOf
    <3> QED
      BY <1>1, <3>1, <3>2
  <2>3. \A j \in 1 .. Len(b) : \E i \in 1 .. Len(a) : i # n /\ b[j] = a[i]
    <3> SUFFICES ASSUME NEW j \in 1 .. Len(b)
                 PROVE  \E i \in 1 .. Len(a) : i # n /\ b[j] = a[i]
      OBVIOUS
    <3>1. /\ j \in 1 .. Len(a) /\ j + 1 \in 1 .. Len(a)
      BY <1>1
    <3>2. CASE j < n
      BY <1>1, <1>2, <3>1, <3>2
    <3>3. CASE ~(j < n)
      <4>1. j + 1 # n /\ b[j] = a[j + 1]
        BY <1>1, <1>2, <3>3
      <4> QED
        BY <3>1, <4>1
    <3> QED
      BY <3>2, <3>3
  <2>4. \A r \in ReqsOf(b) : r \in ReqsOf(a) /\ r # a[n].req
    BY <2>1, <2>3 DEF ReqsOf
  <2>5. \A r \in ReqsOf(a) : r # a[n].req => r \in ReqsOf(b)
    BY <2>2 DEF ReqsOf
  <2> QED
    BY <1>3, <2>4, <2>5
<1>8. Head(q).req \in ReqsOf(a)
  BY <1>1, <1>3 DEF ReqsOf
<1> QED
  BY <1>6, <1>7, <1>8 DEF a, b

\* A request that is given to the kernel or queued.
Launched(r, kernel, p, newkernel, newp) ==
  \/ newkernel = kernel \cup {r} /\ newp = p
  \/ newkernel = kernel /\ \E x \in Entries : x.req = r /\ newp = Append(p, x)

FlightOf(kernel, q) == kernel \cup ReqsOf(q)
Joins(r, flight, newflight) == newflight = flight \cup {r}
Leaves(r, flight, newflight) == newflight = flight \ {r}
Stays(flight, newflight) == newflight = flight

\* Then there is one request more, in one place.
LEMMA Launch ==
  ASSUME NEW r \in Reqs, NEW kernel \in SUBSET Reqs,
         NEW newkernel \in SUBSET Reqs, NEW p \in Seq(Entries),
         NEW newp \in Seq(Entries), NEW q \in Seq(Entries),
         OneEach(kernel, p \o q), r \notin kernel \cup ReqsOf(p \o q),
         Launched(r, kernel, p, newkernel, newp)
  PROVE  /\ OneEach(newkernel, newp \o q)
         /\ Joins(r, FlightOf(kernel, p \o q), FlightOf(newkernel, newp \o q))
<1>1. CASE newkernel = kernel \cup {r} /\ newp = p
  <2>1. IsFiniteSet(newkernel)
    BY <1>1, FS_AddElement DEF OneEach, Joins, FlightOf
  <2> QED
    BY <1>1, <2>1 DEF OneEach, Joins, FlightOf
<1>2. CASE newkernel = kernel /\ \E x \in Entries : x.req = r /\ newp = Append(p, x)
  <2>1. PICK x \in Entries : x.req = r /\ newp = Append(p, x)
    BY <1>2
  <2>2. /\ Distinct(newp \o q)
        /\ ReqsOf(newp \o q) = ReqsOf(p \o q) \cup {r}
    BY <2>1, QueueInsert DEF OneEach, Joins, FlightOf
  <2> QED
    BY <1>2, <2>2 DEF OneEach, Joins, FlightOf
<1> QED
  BY <1>1, <1>2 DEF Launched

\* What is processed leaves the batch.
LEMMA Take ==
  ASSUME NEW kernel \in SUBSET Reqs, NEW p \in Seq(Entries), NEW b \in Seq(Entries),
         NEW c \in Seq(Entries), b # <<>>, OneEach(kernel, p \o b \o c)
  PROVE  /\ OneEach(kernel, p \o Tail(b) \o c)
         /\ Head(b).req \in ReqsOf(p \o b \o c)
         /\ Leaves(Head(b).req, FlightOf(kernel, p \o b \o c),
                   FlightOf(kernel, p \o Tail(b) \o c))
<1>1. /\ b \o c # <<>> /\ Head(b \o c) = Head(b) /\ Tail(b \o c) = Tail(b) \o c
      /\ b \o c \in Seq(Entries) /\ Tail(b) \in Seq(Entries)
  BY EmptySeq
<1>2. p \o b \o c = p \o (b \o c)
  BY QueueParts
<1>4. p \o Tail(b) \o c = p \o (Tail(b) \o c)
  BY <1>1, QueueParts
<1>3. /\ Distinct(p \o Tail(b \o c))
      /\ Head(b \o c).req \in ReqsOf(p \o (b \o c))
      /\ ReqsOf(p \o Tail(b \o c)) = ReqsOf(p \o (b \o c)) \ {Head(b \o c).req}
  <2>1. Distinct(p \o (b \o c))
    BY <1>2 DEF OneEach
  <2> QED
    BY ONLY <1>1, <2>1, p \in Seq(Entries), QueueRemove
<1> QED
  BY <1>1, <1>2, <1>3, <1>4 DEF OneEach, Leaves, FlightOf

\* A request that the kernel has completed.
LEMMA Completed ==
  ASSUME NEW r \in Reqs, NEW kernel \in SUBSET Reqs, r \in kernel, NEW q \in Seq(Entries),
         NEW x \in Entries, x.req = r, OneEach(kernel, q)
  PROVE  /\ OneEach(kernel \ {r}, Append(q, x))
         /\ Stays(FlightOf(kernel, q), FlightOf(kernel \ {r}, Append(q, x)))
<1>1. q \o <<>> = q /\ Append(q, x) \o <<>> = Append(q, x) /\ <<>> \in Seq(Entries)
  OBVIOUS
<1>2. Distinct(q \o <<>>) /\ x.req \notin ReqsOf(q \o <<>>)
  BY <1>1 DEF OneEach
<1>3. /\ Distinct(Append(q, x))
      /\ ReqsOf(Append(q, x)) = ReqsOf(q) \cup {r}
  <2>1. /\ Distinct(Append(q, x) \o <<>>)
        /\ ReqsOf(Append(q, x) \o <<>>) = ReqsOf(q \o <<>>) \cup {x.req}
    BY ONLY <1>1, <1>2, q \in Seq(Entries), x \in Entries, QueueInsert
  <2> QED
    BY <1>1, <2>1
<1>4. IsFiniteSet(kernel \ {r})
  BY FS_RemoveElement DEF OneEach
<1> QED
  BY <1>3, <1>4 DEF OneEach, Stays, FlightOf

-----------------------------------------------------------------------------
(***************************************************************************)
(* Counting.                                                               *)
(***************************************************************************)
\* A queue has as many requests as entries.
LEMMA QueueCount ==
  ASSUME Typed, PlaceInv
  PROVE  /\ IsFiniteSet(ReqsOf(Queue))
         /\ Cardinality(ReqsOf(Queue)) = Len(Queue)
<1>1. Queue \in Seq(Entries) /\ Len(Queue) \in Nat
  BY FlightIs DEF Typed, QueuesTyped
<1> DEFINE D == 1 .. Len(Queue)
           f == [i \in D |-> Queue[i].req]
<1>2. f \in Bijection(D, ReqsOf(Queue))
  BY DEF PlaceInv, OneEach, Distinct, ReqsOf, Bijection, Injection, Surjection,
         IsInjective
<1>3. ExistsBijection(D, ReqsOf(Queue))
  BY <1>2 DEF ExistsBijection
<1>4. IsFiniteSet(D)
  BY <1>1, FS_Interval
<1> QED
  BY <1>1, <1>3, <1>4, FS_CountingElements, FS_Bijection

\* What is in flight is finite.
LEMMA FlightFinite ==
  ASSUME Typed, PlaceInv
  PROVE  IsFiniteSet(InFlight)
<1>1. IsFiniteSet(s.iocp) /\ IsFiniteSet(ReqsOf(Queue))
  BY QueueCount DEF PlaceInv, OneEach
<1>2. InFlight = s.iocp \cup ReqsOf(Queue)
  BY FlightIs DEF Typed, QueuesTyped
<1> QED
  BY <1>1, <1>2, FS_Union

\* One request more.
LEMMA CountAdd ==
  ASSUME NEW F, IsFiniteSet(F), NEW r, r \notin F
  PROVE  /\ Cardinality(F) \in Nat /\ WritesIn(F) \in Nat
         /\ Cardinality(F \cup {r}) = Cardinality(F) + 1
         /\ WritesIn(F \cup {r}) = WritesIn(F) + Count(r \in Writes)
<1>1. IsFiniteSet(F \cap Writes)
  BY FS_Subset
<1>2. Cardinality(F) \in Nat /\ WritesIn(F) \in Nat
  BY <1>1, FS_CardinalityType DEF WritesIn
<1>3. Cardinality(F \cup {r}) = Cardinality(F) + 1
  BY FS_AddElement
<1>4. CASE r \in Writes
  <2>1. (F \cup {r}) \cap Writes = (F \cap Writes) \cup {r}
    BY <1>4
  <2> QED
    BY <1>1, <1>2, <1>3, <1>4, <2>1, FS_AddElement DEF WritesIn, Count
<1>5. CASE r \notin Writes
  <2>1. (F \cup {r}) \cap Writes = F \cap Writes
    BY <1>5
  <2> QED
    BY <1>2, <1>3, <1>5, <2>1 DEF WritesIn, Count
<1> QED
  BY <1>4, <1>5

\* One request less.
LEMMA CountRemove ==
  ASSUME NEW F, IsFiniteSet(F), NEW r \in F
  PROVE  /\ Cardinality(F) \in Nat \ {0} /\ WritesIn(F) \in Nat
         /\ Cardinality(F \ {r}) = Cardinality(F) - 1
         /\ WritesIn(F \ {r}) \in Nat
         /\ WritesIn(F \ {r}) = WritesIn(F) - Count(r \in Writes)
<1> DEFINE G == F \ {r}
<1>1. IsFiniteSet(G) /\ F = G \cup {r} /\ r \notin G
  BY FS_RemoveElement
<1>2. /\ Cardinality(G) \in Nat /\ WritesIn(G) \in Nat
      /\ Cardinality(F) = Cardinality(G) + 1
      /\ WritesIn(F) = WritesIn(G) + Count(r \in Writes)
  BY <1>1, CountAdd
<1>3. Count(r \in Writes) \in {0, 1}
  BY DEF Count
<1> HIDE DEF G
<1>4. /\ Cardinality(F) \in Nat \ {0} /\ WritesIn(F) \in Nat
      /\ Cardinality(G) = Cardinality(F) - 1 /\ WritesIn(G) \in Nat
      /\ WritesIn(G) = WritesIn(F) - Count(r \in Writes)
  BY <1>2, <1>3
<1> QED
  BY <1>4 DEF G

-----------------------------------------------------------------------------
(***************************************************************************)
(* The operators on the handle.                                            *)
(***************************************************************************)
\* The fields that activity and flags do not touch.
Alike(t, u) ==
  /\ u \in Handles
  /\ u.reqs_pending = t.reqs_pending /\ u.writes = t.writes
  /\ u.shutdown_req = t.shutdown_req /\ u.iocp = t.iocp
  /\ u.pending = t.pending /\ u.active_reqs = t.active_reqs

\* Flags but those that the counting of handles depends on.
PlainFlags == Flags \ {"ACTIVE", "REF", "CLOSING", "CLOSED"}

\* Flags are set that the counting does not depend on.
LEMMA SetIs ==
  ASSUME NEW t \in Handles, NEW f \in SUBSET PlainFlags
  PROVE  /\ Alike(t, Set(t, f)) /\ Set(t, f).flags = t.flags \cup f
         /\ Set(t, f).activecnt = t.activecnt
         /\ Half(t) => Half(Set(t, f))
<1> f \subseteq Flags /\ {"ACTIVE", "REF", "CLOSING", "CLOSED"} \cap f = {}
  BY DEF PlainFlags
<1>1. PICK u : u = Set(t, f)
  OBVIOUS
<1>2. /\ u \in Handles /\ u.flags = t.flags \cup f /\ u.activecnt = t.activecnt
      /\ u.active_handles = t.active_handles
  BY <1>1 DEF Set, Handles
<1>3. Alike(t, u)
  BY <1>1, <1>2 DEF Set, Handles, Alike
<1>4. Half(t) => Half(u)
  BY <1>2 DEF Half, Count
<1> QED
  BY <1>1, <1>2, <1>3, <1>4

\* ... or cleared.
LEMMA ClearIs ==
  ASSUME NEW t \in Handles, NEW f \in SUBSET PlainFlags
  PROVE  /\ Alike(t, Clear(t, f)) /\ Clear(t, f).flags = t.flags \ f
         /\ Clear(t, f).activecnt = t.activecnt
         /\ Half(t) => Half(Clear(t, f))
<1> f \subseteq Flags /\ {"ACTIVE", "REF", "CLOSING", "CLOSED"} \cap f = {}
  BY DEF PlainFlags
<1>1. PICK u : u = Clear(t, f)
  OBVIOUS
<1>2. /\ u \in Handles /\ u.flags = t.flags \ f /\ u.activecnt = t.activecnt
      /\ u.active_handles = t.active_handles
  BY <1>1 DEF Clear, Handles
<1>3. Alike(t, u)
  BY <1>1, <1>2 DEF Clear, Handles, Alike
<1>4. Half(t) => Half(u)
  BY <1>2 DEF Half, Count
<1> QED
  BY <1>1, <1>2, <1>3, <1>4

\* Something of an open handle begins.
LEMMA IncreaseIs ==
  ASSUME NEW t \in Handles, Half(t), t.activecnt \in Nat, "CLOSING" \notin t.flags
  PROVE  LET u == IncreaseActive(t)
         IN /\ Alike(t, u) /\ Half(u) /\ u.flags = t.flags \cup {"ACTIVE"}
            /\ u.activecnt = t.activecnt + 1
<1>1. PICK u : u = IncreaseActive(t)
  OBVIOUS
<1>2. CASE t.activecnt # 0 \/ "ACTIVE" \in t.flags
  <2>1. u = [t EXCEPT !.activecnt = @ + 1]
    BY <1>1, <1>2 DEF IncreaseActive
  <2>2. /\ Alike(t, u) /\ u.flags = t.flags /\ u.activecnt = t.activecnt + 1
        /\ u.active_handles = t.active_handles
    BY <2>1 DEF Alike, Handles
  <2> QED
    BY <1>1, <1>2, <2>2 DEF Half
<1>3. CASE t.activecnt = 0 /\ "ACTIVE" \notin t.flags
  <2>1. u = [t EXCEPT !.activecnt = @ + 1, !.flags = @ \cup {"ACTIVE"},
                      !.active_handles = @ + IF "REF" \in t.flags THEN 1 ELSE 0]
    BY <1>1, <1>3 DEF IncreaseActive, Set, Handles
  <2>2. /\ Alike(t, u) /\ u.flags = t.flags \cup {"ACTIVE"}
        /\ u.activecnt = 1
        /\ u.active_handles = t.active_handles + Has(t, "REF")
    <3>1. {"ACTIVE"} \subseteq Flags /\ Has(t, "REF") \in Int
      BY DEF Flags, Has, Count
    <3>2. u = [t EXCEPT !.activecnt = @ + 1, !.flags = @ \cup {"ACTIVE"},
                        !.active_handles = @ + Has(t, "REF")]
      BY <2>1 DEF Has, Count
    <3> HIDE DEF Has
    <3>3. u \in Handles
      <4>1. /\ t.flags \cup {"ACTIVE"} \in SUBSET Flags
            /\ t.activecnt + 1 \in Int /\ t.active_handles + Has(t, "REF") \in Int
        BY <3>1 DEF Handles
      <4> QED
        BY <3>2, <4>1 DEF Handles
    <3>4. /\ u.reqs_pending = t.reqs_pending /\ u.writes = t.writes
          /\ u.shutdown_req = t.shutdown_req /\ u.iocp = t.iocp
          /\ u.pending = t.pending /\ u.active_reqs = t.active_reqs
      BY <3>2 DEF Handles
    <3>5. /\ u.flags = t.flags \cup {"ACTIVE"}
          /\ u.activecnt = t.activecnt + 1
          /\ u.active_handles = t.active_handles + Has(t, "REF")
      BY <3>2 DEF Handles
    <3> QED
      BY <1>3, <3>3, <3>4, <3>5 DEF Alike
  <2>3. t.active_handles = 0 /\ "CLOSED" \notin t.flags
    BY <1>3 DEF Half, Count
  <2>4. Half(u)
    BY <1>3, <2>2, <2>3 DEF Half, Count, Has
  <2> QED
    BY <1>1, <1>3, <2>2, <2>4
<1> QED
  BY <1>2, <1>3

\* Something of a handle ends.
LEMMA DecreaseIs ==
  ASSUME NEW t \in Handles, Half(t), t.activecnt \in Nat \ {0}
  PROVE  LET u == DecreaseActive(t)
         IN /\ Alike(t, u) /\ Half(u)
            /\ u.flags \subseteq t.flags /\ t.flags \subseteq u.flags \cup {"ACTIVE"}
            /\ u.activecnt = t.activecnt - 1
<1>1. PICK u : u = DecreaseActive(t)
  OBVIOUS
<1> DEFINE v == [t EXCEPT !.activecnt = @ - 1]
<1>2. CASE v.activecnt # 0 \/ "CLOSING" \in t.flags \/ "ACTIVE" \notin t.flags
  <2>1. u = v
    BY <1>1, <1>2 DEF DecreaseActive
  <2>2. /\ Alike(t, u) /\ u.flags = t.flags /\ u.activecnt = t.activecnt - 1
        /\ u.active_handles = t.active_handles
    BY <2>1 DEF Alike, Handles
  <2> QED
    BY <1>1, <1>2, <2>1, <2>2 DEF Half
<1>3. CASE v.activecnt = 0 /\ "CLOSING" \notin t.flags /\ "ACTIVE" \in t.flags
  <2>1. u = [t EXCEPT !.activecnt = @ - 1, !.flags = @ \ {"ACTIVE"},
                      !.active_handles = @ - IF "REF" \in t.flags THEN 1 ELSE 0]
    BY <1>1, <1>3 DEF DecreaseActive, Clear, Handles
  <2>2. /\ Alike(t, u) /\ u.flags = t.flags \ {"ACTIVE"}
        /\ u.activecnt = t.activecnt - 1 /\ u.activecnt = 0
        /\ u.active_handles = t.active_handles - Has(t, "REF")
    <3>1. Has(t, "REF") \in Int
      BY DEF Has, Count
    <3>2. u = [t EXCEPT !.activecnt = @ - 1, !.flags = @ \ {"ACTIVE"},
                        !.active_handles = @ - Has(t, "REF")]
      BY <2>1 DEF Has, Count
    <3> HIDE DEF Has
    <3>3. u \in Handles
      <4>1. /\ t.flags \ {"ACTIVE"} \in SUBSET Flags
            /\ t.activecnt - 1 \in Int /\ t.active_handles - Has(t, "REF") \in Int
        BY <3>1 DEF Handles
      <4> QED
        BY <3>2, <4>1 DEF Handles
    <3>4. /\ u.reqs_pending = t.reqs_pending /\ u.writes = t.writes
          /\ u.shutdown_req = t.shutdown_req /\ u.iocp = t.iocp
          /\ u.pending = t.pending /\ u.active_reqs = t.active_reqs
      BY <3>2 DEF Handles
    <3>5. /\ u.flags = t.flags \ {"ACTIVE"}
          /\ u.activecnt = t.activecnt - 1
          /\ u.active_handles = t.active_handles - Has(t, "REF")
      BY <3>2 DEF Handles
    <3> QED
      BY <1>3, <3>3, <3>4, <3>5 DEF Alike
  <2>3. Half(u)
    BY <1>3, <2>2 DEF Half, Count, Has
  <2> QED
    BY <1>1, <2>2, <2>3
<1> QED
  BY <1>2, <1>3

\* A request of an open handle begins.
LEMMA RegisterIs ==
  ASSUME NEW t \in Handles, Half(t), t.activecnt \in Nat, "CLOSING" \notin t.flags
  PROVE  LET u == Register(t)
         IN /\ u \in Handles /\ Half(u) /\ u.flags = t.flags \cup {"ACTIVE"}
            /\ u.activecnt = t.activecnt + 1 /\ u.active_reqs = t.active_reqs + 1
            /\ u.reqs_pending = t.reqs_pending /\ u.writes = t.writes
            /\ u.shutdown_req = t.shutdown_req /\ u.iocp = t.iocp
            /\ u.pending = t.pending
<1>1. PICK v : v = [t EXCEPT !.active_reqs = @ + 1]
  OBVIOUS
<1>2. /\ v \in Handles /\ v.flags = t.flags /\ v.activecnt = t.activecnt
      /\ v.active_reqs = t.active_reqs + 1 /\ v.active_handles = t.active_handles
      /\ v.reqs_pending = t.reqs_pending /\ v.writes = t.writes
      /\ v.shutdown_req = t.shutdown_req /\ v.iocp = t.iocp
      /\ v.pending = t.pending
  BY <1>1 DEF Handles
<1>3. Half(v)
  BY <1>2 DEF Half
<1>4. Register(t) = IncreaseActive(v)
  BY <1>1 DEF Register
<1> QED
  BY <1>2, <1>3, <1>4, IncreaseIs DEF Alike

\* A request ends.
LEMMA UnregisterIs ==
  ASSUME NEW t \in Handles, Half(t), t.activecnt \in Nat \ {0}
  PROVE  LET u == Unregister(t)
         IN /\ u \in Handles /\ Half(u)
            /\ u.flags \subseteq t.flags /\ t.flags \subseteq u.flags \cup {"ACTIVE"}
            /\ u.activecnt = t.activecnt - 1 /\ u.active_reqs = t.active_reqs - 1
            /\ u.reqs_pending = t.reqs_pending /\ u.writes = t.writes
            /\ u.shutdown_req = t.shutdown_req /\ u.iocp = t.iocp
            /\ u.pending = t.pending
<1>1. PICK v : v = [t EXCEPT !.active_reqs = @ - 1]
  OBVIOUS
<1>2. /\ v \in Handles /\ v.flags = t.flags /\ v.activecnt = t.activecnt
      /\ v.active_reqs = t.active_reqs - 1 /\ v.active_handles = t.active_handles
      /\ v.reqs_pending = t.reqs_pending /\ v.writes = t.writes
      /\ v.shutdown_req = t.shutdown_req /\ v.iocp = t.iocp
      /\ v.pending = t.pending
  BY <1>1 DEF Handles
<1>3. Half(v)
  BY <1>2 DEF Half
<1>4. Unregister(t) = DecreaseActive(v)
  BY <1>1 DEF Unregister
<1> QED
  BY <1>2, <1>3, <1>4, DecreaseIs DEF Alike

\* A handle stops reading or listening, if it did.
Stops(f, t, u) ==
  /\ Alike(t, u) /\ Half(u)
  /\ u.flags \subseteq t.flags \ {f} /\ t.flags \subseteq u.flags \cup {"ACTIVE", f}
  /\ u.activecnt = t.activecnt - Has(t, f)

\* uv_read_stop and what ends listening.
LEMMA StopIs ==
  ASSUME NEW t \in Handles, Half(t), NEW f \in {"READING", "LISTENING"},
         f \in t.flags => t.activecnt \in Nat \ {0}
  PROVE  Stops(f, t, IF f \in t.flags THEN DecreaseActive(Clear(t, {f})) ELSE t)
<1>1. CASE f \notin t.flags
  <2>1. Alike(t, t) /\ t.activecnt = t.activecnt - Has(t, f)
    BY <1>1 DEF Alike, Has, Count, Handles
  <2> QED
    BY <1>1, <2>1 DEF Stops
<1>2. CASE f \in t.flags
  <2>1. {f} \in SUBSET PlainFlags
    BY DEF PlainFlags, Flags
  <2>2. PICK v : v = Clear(t, {f})
    OBVIOUS
  <2>3. /\ Alike(t, v) /\ v.flags = t.flags \ {f} /\ v.activecnt = t.activecnt
        /\ Half(v)
    BY <2>1, <2>2, ClearIs
  <2>4. PICK u : u = DecreaseActive(v)
    OBVIOUS
  <2>5. /\ Alike(v, u) /\ Half(u)
        /\ u.flags \subseteq v.flags /\ v.flags \subseteq u.flags \cup {"ACTIVE"}
        /\ u.activecnt = v.activecnt - 1
    BY <1>2, <2>3, <2>4, DecreaseIs DEF Alike
  <2>6. Alike(t, u)
    BY <2>3, <2>5 DEF Alike
  <2> QED
    BY <1>2, <2>2, <2>3, <2>4, <2>5, <2>6 DEF Stops, Has, Count
<1> QED
  BY <1>1, <1>2

\* A request is begun: what it does to the handle ...
LEMMA StartedIs ==
  ASSUME NEW t \in Handles, NEW r \in Reqs,
         NEW u \in Started(t, r) \cup Refused(t, r)
  PROVE  /\ u \in Handles /\ Launched(r, t.iocp, t.pending, u.iocp, u.pending)
         /\ u.flags = t.flags /\ u.activecnt = t.activecnt
         /\ u.reqs_pending = t.reqs_pending + 1 /\ u.writes = t.writes
         /\ u.shutdown_req = t.shutdown_req /\ u.active_reqs = t.active_reqs
         /\ Half(t) => Half(u)
<1>1. CASE u = ToKernel(t, r)
  <2>1. /\ u \in Handles /\ u.iocp = t.iocp \cup {r} /\ u.pending = t.pending
        /\ u.flags = t.flags /\ u.activecnt = t.activecnt
        /\ u.reqs_pending = t.reqs_pending + 1 /\ u.writes = t.writes
        /\ u.shutdown_req = t.shutdown_req /\ u.active_reqs = t.active_reqs
        /\ u.active_handles = t.active_handles
    <3>1. t.reqs_pending + 1 \in Int /\ t.iocp \cup {r} \in SUBSET Reqs
      BY DEF Handles
    <3>2. u \in Handles
      BY <1>1, <3>1 DEF ToKernel, Handles
    <3> QED
      BY <1>1, <3>2 DEF ToKernel, Handles
  <2> QED
    BY <2>1 DEF Launched, Half
<1>2. ASSUME NEW ok \in BOOLEAN, u = Pending(t, r, ok)
      PROVE  /\ u \in Handles
             /\ Launched(r, t.iocp, t.pending, u.iocp, u.pending)
             /\ u.flags = t.flags /\ u.activecnt = t.activecnt
             /\ u.reqs_pending = t.reqs_pending + 1 /\ u.writes = t.writes
             /\ u.shutdown_req = t.shutdown_req /\ u.active_reqs = t.active_reqs
             /\ Half(t) => Half(u)
  <2>1. PICK x : x = [req |-> r, ok |-> ok]
    OBVIOUS
  <2>2. x \in Entries /\ x.req = r
    BY <2>1 DEF Entries
  <2>3. /\ u = [t EXCEPT !.reqs_pending = @ + 1, !.pending = Append(@, x)]
    BY <1>2, <2>1 DEF Pending
  <2>4. /\ u \in Handles /\ u.iocp = t.iocp /\ u.pending = Append(t.pending, x)
        /\ u.flags = t.flags /\ u.activecnt = t.activecnt
        /\ u.reqs_pending = t.reqs_pending + 1 /\ u.writes = t.writes
        /\ u.shutdown_req = t.shutdown_req /\ u.active_reqs = t.active_reqs
        /\ u.active_handles = t.active_handles
    <3>1. t.reqs_pending + 1 \in Int /\ Append(t.pending, x) \in Seq(Entries)
      BY <2>2 DEF Handles
    <3>2. u \in Handles
      BY <2>3, <3>1 DEF Handles
    <3> QED
      BY <2>3, <3>2 DEF Handles
  <2> QED
    BY <2>2, <2>4 DEF Launched, Half
<1> QED
  BY <1>1, <1>2 DEF Started, Refused

\* ... and to what is in flight.
LEMMA LaunchStep ==
  ASSUME Typed, PlaceInv, NEW t \in Handles,
         t.iocp = s.iocp, t.pending = s.pending,
         NEW r \in Reqs, r \notin InFlight,
         s' \in Started(t, r) \cup Refused(t, r),
         UNCHANGED <<batch, completed>>
  PROVE  /\ OneEach(s.iocp, Queue)'
         /\ InFlight' = InFlight \cup {r}
         /\ Cardinality(InFlight)' = Cardinality(InFlight) + 1
         /\ WritesIn(InFlight)' = WritesIn(InFlight) + Count(r \in Writes)
<1>1. s' \in Handles /\ Launched(r, s.iocp, s.pending, s'.iocp, s'.pending)
  BY StartedIs
<1>2. InFlight = s.iocp \cup ReqsOf(Queue)
  BY FlightIs DEF Typed, QueuesTyped
<1>3. InFlight' = s'.iocp \cup ReqsOf(Queue')
  <2>1. QueuesTyped'
    BY <1>1 DEF QueuesTyped, Typed
  <2> QED
    <3>1. (InFlight = s.iocp \cup ReqsOf(Queue))'
      BY <2>1, FlightIs, PTL
    <3> QED
      BY <3>1
<1>4. /\ s.pending \in Seq(Entries) /\ batch \o completed \in Seq(Entries)
      /\ Queue = s.pending \o (batch \o completed)
      /\ Queue' = s'.pending \o (batch \o completed)
  <2>1. /\ s.pending \in Seq(Entries) /\ s'.pending \in Seq(Entries)
        /\ batch \in Seq(Entries) /\ completed \in Seq(Entries)
    BY <1>1 DEF Typed, Handles
  <2>2. batch' = batch /\ completed' = completed
    OBVIOUS
  <2>3. (s.pending \o batch) \o completed = s.pending \o (batch \o completed)
    BY <2>1, QueueParts
  <2>4. (s'.pending \o batch) \o completed = s'.pending \o (batch \o completed)
    BY <2>1, QueueParts
  <2> QED
    BY <2>1, <2>2, <2>3, <2>4 DEF Queue
<1>5. /\ OneEach(s'.iocp, Queue')
      /\ s'.iocp \cup ReqsOf(Queue') = (s.iocp \cup ReqsOf(Queue)) \cup {r}
  <2>1. PICK q \in Seq(Entries) : q = batch \o completed
    BY <1>4
  <2>2. /\ OneEach(s.iocp, s.pending \o q)
        /\ r \notin s.iocp \cup ReqsOf(s.pending \o q)
    BY <1>2, <1>4, <2>1 DEF PlaceInv
  <2>3. /\ OneEach(s'.iocp, s'.pending \o q)
        /\ s'.iocp \cup ReqsOf(s'.pending \o q)
             = (s.iocp \cup ReqsOf(s.pending \o q)) \cup {r}
    <3>1. PICK p, p2, k, k2 :
            p = s.pending /\ p2 = s'.pending /\ k = s.iocp /\ k2 = s'.iocp
      OBVIOUS
    <3>2. /\ p \in Seq(Entries) /\ p2 \in Seq(Entries)
          /\ k \in SUBSET Reqs /\ k2 \in SUBSET Reqs /\ OneEach(k, p \o q)
          /\ r \notin k \cup ReqsOf(p \o q) /\ Launched(r, k, p, k2, p2)
      BY <1>1, <1>4, <2>2, <3>1 DEF Typed, Handles
    <3>3. /\ OneEach(k2, p2 \o q)
          /\ Joins(r, FlightOf(k, p \o q), FlightOf(k2, p2 \o q))
      BY <3>2, Launch
    <3> QED
      BY <3>1, <3>3 DEF Joins, FlightOf
  <2> QED
    BY <1>4, <2>1, <2>3
<1> QED
  BY <1>2, <1>3, <1>5, CountAdd, FlightFinite

\* Nothing is moved.
LEMMA FlightSame ==
  ASSUME s'.iocp = s.iocp, s'.pending = s.pending, UNCHANGED <<batch, completed>>
  PROVE  InFlight' = InFlight /\ Queue' = Queue
BY DEF InFlight, QueuedReqs, Queued, Queue

\* What Requeue does: nothing, or there is a read request again.
LEMMA RequeueIs ==
  ASSUME Typed, PlaceInv, NEW t \in Handles, Half(t),
         t.iocp = s.iocp, t.pending = s.pending,
         "READING" \in t.flags /\ "READ_PENDING" \notin t.flags
           => "read" \notin InFlight,
         s' \in Requeue(t), UNCHANGED <<batch, completed>>
  PROVE  /\ s' \in Handles /\ OneEach(s.iocp, Queue)' /\ Half(s')
         /\ s'.writes = t.writes /\ s'.shutdown_req = t.shutdown_req
         /\ s'.active_reqs = t.active_reqs /\ s'.activecnt = t.activecnt
         /\ WritesIn(InFlight)' = WritesIn(InFlight)
         /\ \/ /\ ~("READING" \in t.flags /\ "READ_PENDING" \notin t.flags)
               /\ InFlight' = InFlight /\ s'.flags = t.flags
               /\ s'.reqs_pending = t.reqs_pending
            \/ /\ "READING" \in t.flags
               /\ InFlight' = InFlight \cup {"read"}
               /\ Cardinality(InFlight)' = Cardinality(InFlight) + 1
               /\ s'.reqs_pending = t.reqs_pending + 1
               /\ \/ s'.flags = t.flags \cup {"READ_PENDING"}
                  \/ s'.flags = t.flags /\ use.fails
<1>1. CASE ~("READING" \in t.flags /\ "READ_PENDING" \notin t.flags)
  <2>1. s' = t
    BY <1>1 DEF Requeue
  <2>2. InFlight' = InFlight /\ Queue' = Queue
    BY <2>1, FlightSame
  <2> QED
    BY <1>1, <2>1, <2>2 DEF PlaceInv
<1>2. CASE "READING" \in t.flags /\ "READ_PENDING" \notin t.flags
  <2>1. PICK v : v = Set(t, {"READ_PENDING"})
    OBVIOUS
  <2>2. {"READ_PENDING"} \in SUBSET PlainFlags
    BY DEF PlainFlags, Flags
  <2>3. /\ Alike(t, v) /\ v.flags = t.flags \cup {"READ_PENDING"}
        /\ v.activecnt = t.activecnt /\ Half(v)
    BY <2>1, <2>2, SetIs
  <2>4. /\ "read" \in Reqs /\ "read" \notin InFlight /\ "read" \notin Writes
    BY <1>2, SocketAssumption DEF Reqs
  <2>5. WritesIn(InFlight) + Count("read" \in Writes) = WritesIn(InFlight)
    <3>1. WritesIn(InFlight) \in Nat
      BY <2>4, FlightFinite, CountAdd
    <3>2. Count("read" \in Writes) = 0
      BY <2>4 DEF Count
    <3> QED
      BY <3>1, <3>2
  <2>6. \/ s' \in Started(v, "read")
        \/ s' \in Refused(t, "read") /\ use.fails
    BY <1>2, <2>1 DEF Requeue, QueueRead, Refused
  <2>7. CASE s' \in Started(v, "read")
    <3>1. v \in Handles /\ v.iocp = s.iocp /\ v.pending = s.pending
      BY <2>3 DEF Alike
    <3>2. /\ OneEach(s.iocp, Queue)' /\ InFlight' = InFlight \cup {"read"}
          /\ Cardinality(InFlight)' = Cardinality(InFlight) + 1
          /\ WritesIn(InFlight)' = WritesIn(InFlight)
      BY <2>4, <2>5, <2>7, <3>1, LaunchStep
    <3>3. /\ s' \in Handles /\ Half(s') /\ s'.flags = v.flags
          /\ s'.activecnt = v.activecnt /\ s'.reqs_pending = v.reqs_pending + 1
          /\ s'.writes = v.writes /\ s'.shutdown_req = v.shutdown_req
          /\ s'.active_reqs = v.active_reqs
      BY <2>3, <2>4, <2>7, <3>1, StartedIs
    <3> QED
      BY <1>2, <2>3, <3>2, <3>3 DEF Alike
  <2>8. CASE s' \in Refused(t, "read") /\ use.fails
    <3>2. /\ OneEach(s.iocp, Queue)' /\ InFlight' = InFlight \cup {"read"}
          /\ Cardinality(InFlight)' = Cardinality(InFlight) + 1
          /\ WritesIn(InFlight)' = WritesIn(InFlight)
      BY <2>4, <2>5, <2>8, LaunchStep
    <3>3. /\ s' \in Handles /\ Half(s') /\ s'.flags = t.flags
          /\ s'.activecnt = t.activecnt /\ s'.reqs_pending = t.reqs_pending + 1
          /\ s'.writes = t.writes /\ s'.shutdown_req = t.shutdown_req
          /\ s'.active_reqs = t.active_reqs
      BY <2>4, <2>8, StartedIs
    <3> QED
      BY <1>2, <2>8, <3>2, <3>3
  <2> QED
    BY <2>6, <2>7, <2>8
<1> QED
  BY <1>1, <1>2

\* The counters are natural numbers, and what is counted is in them.
LEMMA CountsAre ==
  ASSUME IInv
  PROVE  /\ Cardinality(InFlight) \in Nat /\ WritesIn(InFlight) \in Nat
         /\ s.reqs_pending \in Nat /\ s.writes \in Nat /\ s.active_reqs \in Nat
         /\ s.activecnt \in Nat
         /\ \A f \in {"READING", "LISTENING", "CONNECTING"} :
              f \in s.flags => s.activecnt \in Nat \ {0}
         /\ s.shutdown_req /\ at # "shut" => s.activecnt \in Nat \ {0}
         /\ InFlight \cap Writes # {} => s.activecnt \in Nat \ {0}
         /\ InFlight # {} => s.reqs_pending \in Nat \ {0}
<1> USE DEF IInv
<1>1. Cardinality(InFlight) \in Nat /\ WritesIn(InFlight) \in Nat
  BY FlightFinite, FS_CardinalityType, FS_Subset DEF WritesIn
<1>2. /\ Count(s.shutdown_req) \in {0, 1} /\ Count(InProcess) \in {0, 1}
      /\ Count(at = "written") \in {0, 1}
      /\ Count(s.shutdown_req /\ at # "shut") \in {0, 1}
      /\ s.shutdown_req /\ at # "shut" => Count(s.shutdown_req /\ at # "shut") = 1
      /\ \A f : Has(s, f) \in {0, 1} /\ (f \in s.flags => Has(s, f) = 1)
  BY DEF Has, Count
<1>3. /\ InFlight \cap Writes # {} => WritesIn(InFlight) # 0
      /\ InFlight # {} => Cardinality(InFlight) # 0
  BY FlightFinite, FS_EmptySet, FS_Subset DEF WritesIn
<1>4. /\ s.reqs_pending \in Nat /\ s.writes \in Nat /\ s.active_reqs \in Nat
      /\ s.activecnt \in Nat
  BY <1>1, <1>2 DEF CountInv
<1>5. \A f \in {"READING", "LISTENING", "CONNECTING"} :
        f \in s.flags => s.activecnt # 0
  BY <1>1, <1>2, <1>4 DEF CountInv
<1>6. s.shutdown_req /\ at # "shut" => s.activecnt # 0
  BY <1>1, <1>2, <1>4 DEF CountInv
<1>7. InFlight \cap Writes # {} => s.activecnt # 0
  BY <1>1, <1>2, <1>3, <1>4 DEF CountInv
<1>8. InFlight # {} => s.reqs_pending # 0
  BY <1>1, <1>2, <1>3, <1>4 DEF CountInv
<1> QED
  BY <1>1, <1>4, <1>5, <1>6, <1>7, <1>8

-----------------------------------------------------------------------------
(***************************************************************************)
(* Calls of the application.  Each action of the handle keeps the          *)
(* invariant, and is an action of the contract or none it sees.            *)
(***************************************************************************)
\* What the contract sees of a step that changes nothing it knows.
Unseen ==
  /\ DueReqs' = DueReqs /\ reads' = reads
  /\ \A f \in {"CLOSED", "CLOSING", "READING"} : f \in s'.flags <=> f \in s.flags

\* The requests that are due, among those in flight.
Due(F) == F \cap (Writes \cup {"connect"})

\* What is due depends on the writes and the connect in flight, and on a
\* shutdown.
LEMMA DueSame ==
  ASSUME Due(InFlight)' = Due(InFlight), s'.shutdown_req = s.shutdown_req,
         at' = "shut" <=> at = "shut"
  PROVE  DueReqs' = DueReqs
<1>1. DueReqs = Due(InFlight) \cup IF s.shutdown_req /\ at # "shut"
                                    THEN {"shutdown"} ELSE {}
  BY DEF DueReqs, Due
<1>2. DueReqs' = Due(InFlight)' \cup IF s'.shutdown_req /\ at' # "shut"
                                      THEN {"shutdown"} ELSE {}
  BY DEF DueReqs, Due
<1> QED
  BY <1>1, <1>2

\* A step that moves no request.
LEMMA PlaceSame ==
  ASSUME PlaceInv, s'.iocp = s.iocp, s'.pending = s.pending,
         UNCHANGED <<batch, completed, pending_accepts>>,
         at' \in {"endgames", "shut"} => at \in {"endgames", "shut"}
  PROVE  PlaceInv' /\ InFlight' = InFlight /\ Stack' = Stack
<1>1. InFlight' = InFlight /\ Queue' = Queue
  BY FlightSame
<1>2. Stack' = Stack
  BY DEF Stack
<1> QED
  BY <1>1, <1>2 DEF PlaceInv

\* A step that begins one, which is in no other place.
LEMMA PlaceMore ==
  ASSUME PlaceInv, OneEach(s.iocp, Queue)', NEW r, InFlight' = InFlight \cup {r},
         r \notin Stack, UNCHANGED <<batch, pending_accepts>>,
         at' \in {"endgames", "shut"} => at \in {"endgames", "shut"}
  PROVE  PlaceInv' /\ Stack' = Stack
<1>1. Stack' = Stack
  BY DEF Stack
<1> QED
  BY <1>1 DEF PlaceInv

\* No request but an accept is on the stack.
LEMMA StackHas ==
  ASSUME Typed
  PROVE  /\ Stack \subseteq Accepts /\ Stack \cap Writes = {}
         /\ "read" \notin Stack /\ "connect" \notin Stack
<1>1. Stack \subseteq Accepts
  BY DEF Typed, Stack
<1> QED
  BY <1>1, SocketAssumption

\* uv_read_start, uv_udp_recv_start: without restarts no read request is left
\* from before; with them READ_PENDING tells of it, as none is refused.
LEMMA ReadStartStep ==
  ASSUME KeptApart, IInv, ReadStart
  PROVE  IInv' /\ Contract!StartReading
<1> USE DEF IInv
<1>1. /\ UNCHANGED <<type, use, completed, batch, at, cb, reads, acceptVars>>
      /\ "CLOSED" \notin s.flags /\ "READING" \notin s.flags
      /\ "CLOSING" \notin s.flags
      /\ use.restarts \/ "read" \notin asked
      /\ s' \in Requeue(IncreaseActive(Set(s, {"READING"})))
      /\ asked' = asked \cup {"read"}
  BY DEF ReadStart, Call, CanCall
<1>2. PICK v : v = Set(s, {"READING"})
  OBVIOUS
<1>3. {"READING"} \in SUBSET PlainFlags
  BY DEF PlainFlags, Flags
<1>4. /\ Alike(s, v) /\ v.flags = s.flags \cup {"READING"}
      /\ v.activecnt = s.activecnt /\ Half(v)
  BY <1>2, <1>3, SetIs DEF Typed
<1>5. PICK t : t = IncreaseActive(v)
  OBVIOUS
<1>6. /\ Alike(v, t) /\ Half(t) /\ t.flags = v.flags \cup {"ACTIVE"}
      /\ t.activecnt = v.activecnt + 1
  BY <1>1, <1>4, <1>5, IncreaseIs, CountsAre DEF Alike
<1>7. /\ t \in Handles /\ t.flags = s.flags \cup {"READING", "ACTIVE"}
      /\ t.activecnt = s.activecnt + 1 /\ t.reqs_pending = s.reqs_pending
      /\ t.writes = s.writes /\ t.shutdown_req = s.shutdown_req
      /\ t.iocp = s.iocp /\ t.pending = s.pending /\ t.active_reqs = s.active_reqs
  BY <1>4, <1>6 DEF Alike
<1>8. "READ_PENDING" \notin s.flags => "read" \notin InFlight
  BY <1>1 DEF ReadInv
<1>9. /\ s' \in Handles /\ OneEach(s.iocp, Queue)' /\ Half(s')
      /\ s'.writes = s.writes /\ s'.shutdown_req = s.shutdown_req
      /\ s'.active_reqs = s.active_reqs /\ s'.activecnt = s.activecnt + 1
      /\ WritesIn(InFlight)' = WritesIn(InFlight)
  BY <1>1, <1>2, <1>5, <1>6, <1>7, <1>8, RequeueIs
<1>10. \/ /\ "READ_PENDING" \in s.flags
          /\ InFlight' = InFlight /\ s'.flags = s.flags \cup {"READING", "ACTIVE"}
          /\ s'.reqs_pending = s.reqs_pending
       \/ /\ InFlight' = InFlight \cup {"read"}
          /\ Cardinality(InFlight)' = Cardinality(InFlight) + 1
          /\ s'.reqs_pending = s.reqs_pending + 1
          /\ \/ s'.flags = s.flags \cup {"READING", "ACTIVE", "READ_PENDING"}
             \/ s'.flags = s.flags \cup {"READING", "ACTIVE"} /\ use.fails
  BY <1>1, <1>2, <1>5, <1>6, <1>7, <1>8, RequeueIs
<1>11. Typed'
  BY <1>1, <1>9 DEF Typed, acceptVars
<1>12. PlaceInv'
  <2>1. CASE InFlight' = InFlight
    BY <1>1, <1>9, <2>1 DEF PlaceInv, acceptVars, Stack
  <2>2. CASE InFlight' = InFlight \cup {"read"}
    BY <1>1, <1>9, <2>2, PlaceMore, StackHas DEF acceptVars
  <2> QED
    BY <1>10, <2>1, <2>2
<1>13. ReadInv'
  BY <1>1, <1>10 DEF ReadInv, KeptApart, Typed
<1>14. OtherInv'
  BY <1>1, <1>10, SocketAssumption DEF OtherInv, acceptVars, Stack, FlagInv
<1>15. FlagInv'
  BY <1>1, <1>9, <1>10 DEF FlagInv
<1>16. CountInv'
  <2>1. /\ Has(s', "READING") = Has(s, "READING") + 1
        /\ Has(s', "LISTENING") = Has(s, "LISTENING")
        /\ Has(s', "CONNECTING") = Has(s, "CONNECTING")
    BY <1>1, <1>10 DEF Has, Count
  <2> QED
    BY <1>1, <1>9, <1>10, <2>1, CountsAre DEF CountInv, InProcess, Has, Count
<1>17. Contract!StartReading
  <2>1. DueReqs' = DueReqs
    BY <1>1, <1>9, <1>10, SocketAssumption, DueSame DEF Due
  <2> QED
    BY <1>1, <1>10, <2>1 DEF Contract!StartReading
<1> QED
  BY <1>9, <1>11, <1>12, <1>13, <1>14, <1>15, <1>16, <1>17

\* uv_read_stop leaves the read request where it is.
LEMMA ReadStopStep ==
  ASSUME IInv, ReadStop
  PROVE  IInv' /\ Contract!StopReading
<1> USE DEF IInv
<1>1. /\ UNCHANGED <<type, use, completed, batch, at, cb, reads, acceptVars, asked>>
      /\ "CLOSED" \notin s.flags /\ "READING" \in s.flags /\ use.restarts
      /\ s' = StopReading(s)
  BY DEF ReadStop, Call, CanCall
<1>2. Stops("READING", s, s')
  BY <1>1, StopIs, CountsAre DEF Typed, StopReading
<1>3. Has(s, "READING") = 1
  BY <1>1 DEF Has, Count
<1>4. /\ s' \in Handles /\ Half(s')
      /\ s'.flags \subseteq s.flags \ {"READING"}
      /\ s.flags \subseteq s'.flags \cup {"ACTIVE", "READING"}
      /\ s'.activecnt = s.activecnt - 1
      /\ s'.reqs_pending = s.reqs_pending /\ s'.writes = s.writes
      /\ s'.shutdown_req = s.shutdown_req /\ s'.iocp = s.iocp
      /\ s'.pending = s.pending /\ s'.active_reqs = s.active_reqs
  BY <1>2, <1>3 DEF Stops, Alike
<1>5. PlaceInv' /\ InFlight' = InFlight /\ Stack' = Stack
  BY <1>1, <1>4, PlaceSame DEF acceptVars
<1>6. Typed'
  BY <1>1, <1>4 DEF Typed, acceptVars
<1>7. ReadInv' /\ OtherInv'
  BY <1>1, <1>4, <1>5 DEF ReadInv, OtherInv
<1>8. FlagInv'
  BY <1>1, <1>4 DEF FlagInv
<1>9. CountInv'
  <2>1. /\ Has(s', "READING") = 0
        /\ Has(s', "LISTENING") = Has(s, "LISTENING")
        /\ Has(s', "CONNECTING") = Has(s, "CONNECTING")
    BY <1>4 DEF Has, Count
  <2> QED
    BY <1>1, <1>3, <1>4, <1>5, <2>1, CountsAre DEF CountInv, InProcess, Has, Count
<1>10. Contract!StopReading
  <2>1. DueReqs' = DueReqs
    BY <1>1, <1>4, <1>5, DueSame DEF Due
  <2> QED
    BY <1>1, <1>4, <2>1 DEF Contract!StopReading
<1> QED
  BY <1>4, <1>5, <1>6, <1>7, <1>8, <1>9, <1>10

\* uv_write, uv_udp_send: one request more, which was nowhere before.
LEMMA WriteStep ==
  ASSUME IInv, NEW w \in Writes, Write(w)
  PROVE  IInv' /\ Contract!Issue(w)
<1> USE DEF IInv
<1>1. PICK v : v = [s EXCEPT !.writes = @ + 1]
  OBVIOUS
<1>2. PICK t : t = Register(v)
  OBVIOUS
<1>3. /\ UNCHANGED <<type, use, completed, batch, at, cb, reads, acceptVars>>
      /\ "CLOSED" \notin s.flags /\ w \notin asked
      /\ "WRITABLE" \in s.flags \/ "CLOSING" \notin s.flags
      /\ s' \in Started(t, w) \cup Refused(t, w)
      /\ asked' = asked \cup {w}
  BY <1>1, <1>2 DEF Write, Call, CanCall
<1>4. "CLOSING" \notin s.flags
  BY <1>3 DEF FlagInv
<1>5. /\ v \in Handles /\ v.flags = s.flags /\ v.activecnt = s.activecnt
      /\ v.active_reqs = s.active_reqs /\ v.active_handles = s.active_handles
      /\ v.reqs_pending = s.reqs_pending /\ v.writes = s.writes + 1
      /\ v.shutdown_req = s.shutdown_req /\ v.iocp = s.iocp
      /\ v.pending = s.pending
  <2>1. s \in Handles /\ s.writes + 1 \in Int
    BY DEF Typed, Handles
  <2>2. v \in Handles
    BY <1>1, <2>1 DEF Handles
  <2> QED
    BY <1>1, <2>1, <2>2 DEF Handles
<1>6. Half(v)
  BY <1>5 DEF Half
<1>7. /\ t \in Handles /\ Half(t) /\ t.flags = s.flags \cup {"ACTIVE"}
      /\ t.activecnt = s.activecnt + 1 /\ t.active_reqs = s.active_reqs + 1
      /\ t.reqs_pending = s.reqs_pending /\ t.writes = s.writes + 1
      /\ t.shutdown_req = s.shutdown_req /\ t.iocp = s.iocp
      /\ t.pending = s.pending
  BY <1>2, <1>4, <1>5, <1>6, RegisterIs, CountsAre
<1>8. w \in Reqs /\ w \notin InFlight /\ w \notin Stack
  BY <1>3, StackHas DEF Reqs, OtherInv
<1>9. /\ OneEach(s.iocp, Queue)' /\ InFlight' = InFlight \cup {w}
      /\ Cardinality(InFlight)' = Cardinality(InFlight) + 1
      /\ WritesIn(InFlight)' = WritesIn(InFlight) + 1
  BY <1>3, <1>7, <1>8, LaunchStep DEF Count
<1>10. /\ s' \in Handles /\ Half(s') /\ s'.flags = s.flags \cup {"ACTIVE"}
       /\ s'.activecnt = s.activecnt + 1 /\ s'.active_reqs = s.active_reqs + 1
       /\ s'.reqs_pending = s.reqs_pending + 1 /\ s'.writes = s.writes + 1
       /\ s'.shutdown_req = s.shutdown_req
  BY <1>3, <1>7, <1>8, StartedIs
<1>11. Typed'
  BY <1>3, <1>10 DEF Typed, acceptVars
<1>12. PlaceInv' /\ Stack' = Stack
  BY <1>3, <1>8, <1>9, PlaceMore DEF acceptVars
<1>13. w # "read" /\ w # "connect"
  BY SocketAssumption
<1>14. ReadInv' /\ OtherInv'
  BY <1>3, <1>9, <1>10, <1>12, <1>13 DEF ReadInv, OtherInv
<1>15. FlagInv'
  BY <1>3, <1>10 DEF FlagInv
<1>16. CountInv'
  <2>1. /\ Has(s', "READING") = Has(s, "READING")
        /\ Has(s', "LISTENING") = Has(s, "LISTENING")
        /\ Has(s', "CONNECTING") = Has(s, "CONNECTING")
    BY <1>10 DEF Has, Count
  <2> QED
    BY <1>3, <1>9, <1>10, <2>1, CountsAre DEF CountInv, InProcess, Has, Count
<1>17. Contract!Issue(w)
  <2>1. DueReqs' = DueReqs \cup {w} /\ w \notin DueReqs
    BY <1>3, <1>8, <1>9, <1>10, SocketAssumption DEF DueReqs
  <2> QED
    BY <1>3, <1>4, <1>10, <2>1 DEF Contract!Issue
<1> QED
  BY <1>10, <1>11, <1>12, <1>14, <1>15, <1>16, <1>17

\* uv_tcp_connect.
LEMMA ConnectStep ==
  ASSUME IInv, Connect
  PROVE  IInv' /\ Contract!Issue("connect")
<1> USE DEF IInv
<1>1. PICK v : v = Set(s, {"CONNECTING"})
  OBVIOUS
<1>2. PICK t : t = Register(v)
  OBVIOUS
<1>3. /\ UNCHANGED <<type, use, completed, batch, at, cb, reads, acceptVars, asked>>
      /\ "CLOSED" \notin s.flags /\ "CLOSING" \notin s.flags
      /\ "CONNECTION" \notin s.flags /\ "CONNECTING" \notin s.flags
      /\ s' \in Started(t, "connect") \cup Refused(t, "connect")
  BY <1>1, <1>2 DEF Connect, Call, CanCall
<1>4. {"CONNECTING"} \in SUBSET PlainFlags
  BY DEF PlainFlags, Flags
<1>5. /\ Alike(s, v) /\ v.flags = s.flags \cup {"CONNECTING"}
      /\ v.activecnt = s.activecnt /\ Half(v)
  BY <1>1, <1>4, SetIs DEF Typed
<1>6. "CLOSING" \notin v.flags
  BY <1>3, <1>5
<1>7. /\ t \in Handles /\ Half(t) /\ t.flags = s.flags \cup {"CONNECTING", "ACTIVE"}
      /\ t.activecnt = s.activecnt + 1 /\ t.active_reqs = s.active_reqs + 1
      /\ t.reqs_pending = s.reqs_pending /\ t.writes = s.writes
      /\ t.shutdown_req = s.shutdown_req /\ t.iocp = s.iocp
      /\ t.pending = s.pending
  BY <1>2, <1>5, <1>6, RegisterIs, CountsAre DEF Alike
<1>8. /\ "connect" \in Reqs /\ "connect" \notin InFlight /\ "connect" \notin Stack
      /\ "connect" \notin Writes /\ "connect" \notin Accepts
  BY <1>3, StackHas, SocketAssumption DEF Reqs, OtherInv
<1>9. /\ OneEach(s.iocp, Queue)' /\ InFlight' = InFlight \cup {"connect"}
      /\ Cardinality(InFlight)' = Cardinality(InFlight) + 1
      /\ WritesIn(InFlight)' = WritesIn(InFlight) + Count("connect" \in Writes)
  BY <1>3, <1>7, <1>8, LaunchStep
<1>10. /\ s' \in Handles /\ Half(s') /\ s'.flags = s.flags \cup {"CONNECTING", "ACTIVE"}
       /\ s'.activecnt = s.activecnt + 1 /\ s'.active_reqs = s.active_reqs + 1
       /\ s'.reqs_pending = s.reqs_pending + 1 /\ s'.writes = s.writes
       /\ s'.shutdown_req = s.shutdown_req
  BY <1>3, <1>7, <1>8, StartedIs
<1>11. Typed'
  BY <1>3, <1>10 DEF Typed, acceptVars
<1>12. PlaceInv' /\ Stack' = Stack
  BY <1>3, <1>8, <1>9, PlaceMore DEF acceptVars
<1>13. ReadInv' /\ OtherInv'
  BY <1>3, <1>8, <1>9, <1>10, <1>12 DEF ReadInv, OtherInv
<1>14. FlagInv'
  BY <1>3, <1>10 DEF FlagInv
<1>15. CountInv'
  <2>1. /\ Has(s', "READING") = Has(s, "READING")
        /\ Has(s', "LISTENING") = Has(s, "LISTENING")
        /\ Has(s', "CONNECTING") = Has(s, "CONNECTING") + 1
    BY <1>3, <1>10 DEF Has, Count
  <2>2. Count("connect" \in Writes) = 0
    BY <1>8 DEF Count
  <2> QED
    BY <1>3, <1>9, <1>10, <2>1, <2>2, CountsAre DEF CountInv, InProcess, Has, Count
<1>16. Contract!Issue("connect")
  <2>1. DueReqs' = DueReqs \cup {"connect"} /\ "connect" \notin DueReqs
    BY <1>3, <1>8, <1>9, <1>10 DEF DueReqs
  <2> QED
    BY <1>3, <1>10, <2>1 DEF Contract!Issue
<1> QED
  BY <1>10, <1>11, <1>12, <1>13, <1>14, <1>15, <1>16

\* uv_shutdown: a request that is only counted.
LEMMA ShutdownStep ==
  ASSUME IInv, Shutdown
  PROVE  IInv' /\ Contract!Issue("shutdown")
<1> USE DEF IInv
<1>1. PICK v : v = [Clear(s, {"WRITABLE"}) EXCEPT !.shutdown_req = TRUE,
                                                   !.reqs_pending = @ + 1]
  OBVIOUS
<1>2. PICK t : t = Register(v)
  OBVIOUS
<1>3. /\ UNCHANGED <<type, use, completed, batch, at, cb, reads, acceptVars, asked>>
      /\ "CLOSED" \notin s.flags /\ "WRITABLE" \in s.flags
      /\ s' = WantEndgame(t)
  BY <1>1, <1>2 DEF Shutdown, Call, CanCall
<1>4. /\ "CLOSING" \notin s.flags /\ "CONNECTION" \in s.flags /\ ~s.shutdown_req
      /\ at # "shut"
  BY <1>3 DEF FlagInv
<1>5. /\ v \in Handles /\ v.flags = s.flags \ {"WRITABLE"}
      /\ v.activecnt = s.activecnt /\ v.active_reqs = s.active_reqs
      /\ v.reqs_pending = s.reqs_pending + 1 /\ v.writes = s.writes
      /\ v.shutdown_req = TRUE /\ v.iocp = s.iocp /\ v.pending = s.pending
      /\ Half(v)
  <2>1. PICK z : z = Clear(s, {"WRITABLE"})
    OBVIOUS
  <2>2. {"WRITABLE"} \in SUBSET PlainFlags
    BY DEF PlainFlags, Flags
  <2>3. /\ Alike(s, z) /\ z.flags = s.flags \ {"WRITABLE"}
        /\ z.activecnt = s.activecnt /\ Half(z)
    BY <2>1, <2>2, ClearIs DEF Typed
  <2>4. z \in Handles /\ z.reqs_pending + 1 \in Int
    BY <2>3 DEF Alike, Handles
  <2>5. v = [z EXCEPT !.shutdown_req = TRUE, !.reqs_pending = @ + 1]
    BY <1>1, <2>1
  <2>6. v \in Handles
    BY <2>4, <2>5 DEF Handles
  <2>7. /\ v.flags = z.flags
        /\ v.activecnt = z.activecnt /\ v.active_reqs = z.active_reqs
        /\ v.reqs_pending = z.reqs_pending + 1 /\ v.writes = z.writes
        /\ v.shutdown_req = TRUE /\ v.iocp = z.iocp /\ v.pending = z.pending
        /\ v.active_handles = z.active_handles
    BY <2>4, <2>5 DEF Handles
  <2>8. Half(v)
    BY <2>3, <2>7 DEF Half
  <2> QED
    BY <2>3, <2>6, <2>7, <2>8 DEF Alike
<1>6. "CLOSING" \notin v.flags
  BY <1>4, <1>5
<1>7. /\ t \in Handles /\ Half(t) /\ t.flags = (s.flags \ {"WRITABLE"}) \cup {"ACTIVE"}
      /\ t.activecnt = s.activecnt + 1 /\ t.active_reqs = s.active_reqs + 1
      /\ t.reqs_pending = s.reqs_pending + 1 /\ t.writes = s.writes
      /\ t.shutdown_req = TRUE /\ t.iocp = s.iocp
      /\ t.pending = s.pending
  BY <1>2, <1>5, <1>6, RegisterIs, CountsAre
<1>8. {"ENDGAME_QUEUED"} \in SUBSET PlainFlags
  BY DEF PlainFlags, Flags
<1>9. /\ s' \in Handles /\ Half(s')
      /\ s'.flags = (s.flags \ {"WRITABLE"}) \cup {"ACTIVE", "ENDGAME_QUEUED"}
      /\ s'.activecnt = s.activecnt + 1 /\ s'.active_reqs = s.active_reqs + 1
      /\ s'.reqs_pending = s.reqs_pending + 1 /\ s'.writes = s.writes
      /\ s'.shutdown_req = TRUE /\ s'.iocp = s.iocp
      /\ s'.pending = s.pending
  BY <1>3, <1>7, <1>8, SetIs DEF WantEndgame, Alike
<1>10. Typed'
  BY <1>3, <1>9 DEF Typed, acceptVars
<1>11. PlaceInv' /\ InFlight' = InFlight /\ Stack' = Stack
  BY <1>3, <1>9, PlaceSame DEF acceptVars
<1>12. ReadInv' /\ OtherInv'
  BY <1>3, <1>9, <1>11 DEF ReadInv, OtherInv
<1>13. FlagInv'
  BY <1>3, <1>4, <1>9 DEF FlagInv
<1>14. CountInv'
  <2>1. /\ Has(s', "READING") = Has(s, "READING")
        /\ Has(s', "LISTENING") = Has(s, "LISTENING")
        /\ Has(s', "CONNECTING") = Has(s, "CONNECTING")
    BY <1>9 DEF Has, Count
  <2>2. /\ Count(s'.shutdown_req) = 1 /\ Count(s.shutdown_req) = 0
        /\ Count(s'.shutdown_req /\ at' # "shut") = 1
        /\ Count(s.shutdown_req /\ at # "shut") = 0
    BY <1>3, <1>4, <1>9 DEF Count
  <2> QED
    BY <1>3, <1>9, <1>11, <2>1, <2>2, CountsAre DEF CountInv, InProcess, Has, Count
<1>15. Contract!Issue("shutdown")
  <2>1. DueReqs' = DueReqs \cup {"shutdown"} /\ "shutdown" \notin DueReqs
    BY <1>3, <1>4, <1>9, <1>11, SocketAssumption DEF DueReqs
  <2> QED
    BY <1>3, <1>4, <1>9, <2>1 DEF Contract!Issue
<1> QED
  BY <1>9, <1>10, <1>11, <1>12, <1>13, <1>14, <1>15

\* uv__handle_closing: the handle counts as active until it has ended.
LEMMA HandleClosingIs ==
  ASSUME NEW t \in Handles, Half(t), "CLOSING" \notin t.flags
  PROVE  LET u == HandleClosing(t)
         IN /\ Alike(t, u) /\ Half(u) /\ u.activecnt = t.activecnt
            /\ u.flags = (t.flags \cup {"CLOSING"}) \ {"ACTIVE"}
<1>1. PICK u : u = HandleClosing(t)
  OBVIOUS
<1>2. PICK n : n = IF {"ACTIVE", "REF"} \subseteq t.flags THEN 0 ELSE 1
  OBVIOUS
<1>3. u = [t EXCEPT !.flags = (@ \cup {"CLOSING"}) \ {"ACTIVE"},
                    !.active_handles = @ + n]
  BY <1>1, <1>2 DEF HandleClosing, Set, Clear, Handles
<1>4. /\ t.active_handles + n \in Int
      /\ (t.flags \cup {"CLOSING"}) \ {"ACTIVE"} \in SUBSET Flags
  BY <1>2 DEF Handles, Flags
<1>5. u \in Handles
  BY <1>3, <1>4 DEF Handles
<1>6. /\ u.flags = (t.flags \cup {"CLOSING"}) \ {"ACTIVE"}
      /\ u.activecnt = t.activecnt /\ u.active_reqs = t.active_reqs
      /\ u.reqs_pending = t.reqs_pending /\ u.writes = t.writes
      /\ u.shutdown_req = t.shutdown_req /\ u.iocp = t.iocp /\ u.pending = t.pending
      /\ u.active_handles = t.active_handles + n
  BY <1>3, <1>5 DEF Handles
<1>7. t.active_handles + n = 1 /\ "CLOSED" \notin t.flags
  BY <1>2 DEF Half, Count
<1>8. Half(u)
  BY <1>6, <1>7 DEF Half
<1> QED
  BY <1>1, <1>5, <1>6, <1>8 DEF Alike

\* uv_close: reading and listening end with one count each, and the handle is
\* the loop's until its endgame.
LEMMA CloseStep ==
  ASSUME IInv, Close
  PROVE  IInv' /\ Contract!Close
<1> USE DEF IInv
<1> DEFINE F == {"READING", "LISTENING", "READABLE", "WRITABLE"}
<1>1. PICK t1 : t1 = StopReading(s)
  OBVIOUS
<1>2. PICK t2 : t2 = StopListening(t1)
  OBVIOUS
<1>3. PICK t3 : t3 = Clear(t2, {"READABLE", "WRITABLE"})
  OBVIOUS
<1>4. PICK t : t = HandleClosing(t3)
  OBVIOUS
<1>5. /\ UNCHANGED <<type, use, completed, batch, at, cb, reads, acceptVars, asked>>
      /\ "CLOSED" \notin s.flags /\ "CLOSING" \notin s.flags
      /\ s' = IF t.reqs_pending = 0 THEN WantEndgame(t) ELSE t
  BY <1>1, <1>2, <1>3, <1>4 DEF Close, Call, CanCall
<1>6. Stops("READING", s, t1)
  BY <1>1, StopIs, CountsAre DEF Typed, StopReading
<1>7. "LISTENING" \in t1.flags => t1.activecnt \in Nat \ {0}
  <2> SUFFICES ASSUME "LISTENING" \in t1.flags
               PROVE  t1.activecnt \in Nat \ {0}
    OBVIOUS
  <2>1. Has(s, "LISTENING") = 1 /\ Has(s, "READING") \in {0, 1}
    BY <1>6 DEF Stops, Has, Count
  <2>2. t1.activecnt = s.activecnt - Has(s, "READING")
    BY <1>6 DEF Stops
  <2>3. /\ s.activecnt = Has(s, "READING") + Has(s, "LISTENING") + s.active_reqs
        /\ s.active_reqs \in Nat
    BY CountsAre DEF CountInv
  <2> QED
    BY <2>1, <2>2, <2>3
<1>8. Stops("LISTENING", t1, t2)
  BY <1>2, <1>6, <1>7, StopIs DEF Stops, Alike, StopListening
<1>9. {"READABLE", "WRITABLE"} \in SUBSET PlainFlags
  BY DEF PlainFlags, Flags
<1>10. /\ Alike(t2, t3) /\ t3.flags = t2.flags \ {"READABLE", "WRITABLE"}
       /\ t3.activecnt = t2.activecnt /\ Half(t3)
  BY <1>3, <1>8, <1>9, ClearIs DEF Stops, Alike
<1>11. "CLOSING" \notin t3.flags
  BY <1>5, <1>6, <1>8, <1>10 DEF Stops
<1>12. /\ Alike(t3, t) /\ Half(t) /\ t.activecnt = t3.activecnt
       /\ t.flags = (t3.flags \cup {"CLOSING"}) \ {"ACTIVE"}
  BY <1>4, <1>10, <1>11, HandleClosingIs DEF Alike
<1>13. Alike(s, t)
  BY <1>6, <1>8, <1>10, <1>12 DEF Stops, Alike
<1>14. t.activecnt = s.activecnt - Has(s, "READING") - Has(s, "LISTENING")
  <2>1. Has(t1, "LISTENING") = Has(s, "LISTENING")
    BY <1>6 DEF Stops, Has, Count
  <2> QED
    BY <1>6, <1>8, <1>10, <1>12, <2>1 DEF Stops
<1>15. /\ t.flags \subseteq (s.flags \cup {"CLOSING"}) \ (F \cup {"ACTIVE"})
       /\ s.flags \subseteq t.flags \cup F \cup {"ACTIVE"}
       /\ "CLOSING" \in t.flags
  BY <1>6, <1>8, <1>10, <1>12 DEF Stops
<1>16. /\ s' \in Handles /\ Half(s') /\ s'.activecnt = t.activecnt
       /\ s'.flags \subseteq t.flags \cup {"ENDGAME_QUEUED"} /\ t.flags \subseteq s'.flags
       /\ Alike(s, s')
  <2>1. {"ENDGAME_QUEUED"} \in SUBSET PlainFlags
    BY DEF PlainFlags, Flags
  <2>2. t \in Handles
    BY <1>13 DEF Alike
  <2>3. CASE t.reqs_pending = 0
    BY <1>5, <1>12, <1>13, <2>1, <2>2, <2>3, SetIs DEF WantEndgame, Alike
  <2>4. CASE t.reqs_pending # 0
    BY <1>5, <1>12, <1>13, <2>2, <2>4
  <2> QED
    BY <2>3, <2>4
<1>17. /\ s'.reqs_pending = s.reqs_pending /\ s'.writes = s.writes
       /\ s'.shutdown_req = s.shutdown_req /\ s'.iocp = s.iocp
       /\ s'.pending = s.pending /\ s'.active_reqs = s.active_reqs
  BY <1>16 DEF Alike
<1>18. Typed'
  BY <1>5, <1>16 DEF Typed, acceptVars
<1>19. PlaceInv' /\ InFlight' = InFlight /\ Stack' = Stack
  BY <1>5, <1>17, PlaceSame DEF acceptVars
<1>20. ReadInv' /\ OtherInv'
  BY <1>5, <1>15, <1>16, <1>19 DEF ReadInv, OtherInv
<1>21. FlagInv'
  BY <1>5, <1>15, <1>16, <1>17 DEF FlagInv
<1>22. CountInv'
  <2>1. /\ Has(s', "READING") = 0
        /\ Has(s', "LISTENING") = 0
        /\ Has(s', "CONNECTING") = Has(s, "CONNECTING")
    BY <1>15, <1>16 DEF Has, Count
  <2>2. Has(s, "READING") \in Int /\ Has(s, "LISTENING") \in Int
    BY DEF Has, Count
  <2> QED
    BY <1>5, <1>14, <1>16, <1>17, <1>19, <2>1, <2>2, CountsAre
    DEF CountInv, InProcess
<1>23. Contract!Close
  <2>1. DueReqs' = DueReqs
    BY <1>5, <1>17, <1>19, DueSame DEF Due
  <2> QED
    BY <1>5, <1>15, <1>16, <2>1 DEF Contract!Close
<1> QED
  BY <1>16, <1>18, <1>19, <1>20, <1>21, <1>22, <1>23

\* The stack of accepted connections.
StackDistinct ==
  \A i, j \in 1 .. Len(pending_accepts) :
    pending_accepts[i] = pending_accepts[j] => i = j

\* uv_accept takes the one on top.
LEMMA StackPop ==
  ASSUME pending_accepts \in Seq(Accepts), StackDistinct,
         pending_accepts # <<>>, pending_accepts' = Tail(pending_accepts)
  PROVE  /\ StackDistinct' /\ Head(pending_accepts) \in Stack
         /\ Stack' = Stack \ {Head(pending_accepts)}
<1>1. PICK p \in Seq(Accepts) : p = pending_accepts
  OBVIOUS
<1>2. PICK n \in Nat : n = Len(p) - 1
  BY <1>1, EmptySeq
<1>3. /\ Len(p) = n + 1 /\ Len(Tail(p)) = n /\ Head(p) = p[1]
      /\ \A i \in 1 .. n : Tail(p)[i] = p[i + 1]
  BY <1>1, <1>2, EmptySeq, HeadTailProperties
<1>4. \A i, j \in 1 .. n + 1 : p[i] = p[j] => i = j
  BY <1>1, <1>3 DEF StackDistinct
<1>5. \A i, j \in 1 .. n : Tail(p)[i] = Tail(p)[j] => i = j
  <2> SUFFICES ASSUME NEW i \in 1 .. n, NEW j \in 1 .. n, Tail(p)[i] = Tail(p)[j]
               PROVE  i = j
    OBVIOUS
  <2>1. i + 1 \in 1 .. n + 1 /\ j + 1 \in 1 .. n + 1 /\ p[i + 1] = p[j + 1]
    BY <1>3
  <2> QED
    BY <1>4, <2>1
<1>6. {Tail(p)[i] : i \in 1 .. n} = {p[i] : i \in 1 .. n + 1} \ {p[1]}
  <2>1. \A i \in 1 .. n : i + 1 \in 1 .. n + 1 /\ p[i + 1] # p[1]
    BY <1>4
  <2>2. \A i \in 1 .. n + 1 : p[i] # p[1] => i - 1 \in 1 .. n /\ Tail(p)[i - 1] = p[i]
    BY <1>3
  <2>3. ASSUME NEW x \in {Tail(p)[i] : i \in 1 .. n}
        PROVE  x \in {p[i] : i \in 1 .. n + 1} \ {p[1]}
    <3>1. PICK i \in 1 .. n : x = Tail(p)[i]
      BY <2>3
    <3>2. x = p[i + 1] /\ i + 1 \in 1 .. n + 1 /\ x # p[1]
      BY <1>3, <2>1, <3>1
    <3> QED
      BY <3>2
  <2>4. ASSUME NEW x \in {p[i] : i \in 1 .. n + 1} \ {p[1]}
        PROVE  x \in {Tail(p)[i] : i \in 1 .. n}
    <3>1. PICK i \in 1 .. n + 1 : x = p[i] /\ x # p[1]
      BY <2>4
    <3>2. i - 1 \in 1 .. n /\ x = Tail(p)[i - 1]
      BY <2>2, <3>1
    <3> QED
      BY <3>2
  <2> QED
    BY <2>3, <2>4
<1>7. /\ pending_accepts' = Tail(p) /\ Len(pending_accepts') = n
      /\ Len(pending_accepts) = n + 1 /\ 1 \in 1 .. n + 1
  BY <1>1, <1>3
<1>8. StackDistinct'
  BY <1>5, <1>7 DEF StackDistinct
<1>9. Stack = {p[i] : i \in 1 .. n + 1} /\ Stack' = {Tail(p)[i] : i \in 1 .. n}
  BY <1>1, <1>7 DEF Stack
<1> QED
  BY <1>1, <1>3, <1>6, <1>7, <1>8, <1>9

\* A new one is put there.
LEMMA StackPush ==
  ASSUME pending_accepts \in Seq(Accepts), StackDistinct,
         NEW r \in Accepts, r \notin Stack,
         pending_accepts' = <<r>> \o pending_accepts
  PROVE  StackDistinct' /\ Stack' = Stack \cup {r}
<1>1. PICK p \in Seq(Accepts) : p = pending_accepts
  OBVIOUS
<1>2. PICK n \in Nat : n = Len(p)
  OBVIOUS
<1>3. PICK q : q = <<r>> \o p
  OBVIOUS
<1>4. /\ Len(q) = n + 1 /\ q[1] = r
      /\ \A i \in 1 .. n : q[i + 1] = p[i]
  BY <1>2, <1>3
<1>5. /\ \A i, j \in 1 .. n : p[i] = p[j] => i = j
      /\ \A i \in 1 .. n : p[i] # r
  BY <1>1, <1>2 DEF StackDistinct, Stack
<1>6. \A i \in 1 .. n + 1 : i = 1 \/ (i - 1 \in 1 .. n /\ q[i] = p[i - 1])
  BY <1>4
<1>7. \A i, j \in 1 .. n + 1 : q[i] = q[j] => i = j
  <2> SUFFICES ASSUME NEW i \in 1 .. n + 1, NEW j \in 1 .. n + 1, q[i] = q[j]
               PROVE  i = j
    OBVIOUS
  <2>1. CASE i = 1 \/ j = 1
    BY <1>4, <1>5, <1>6, <2>1
  <2>2. CASE i # 1 /\ j # 1
    BY <1>5, <1>6, <2>2
  <2> QED
    BY <2>1, <2>2
<1>8. {q[i] : i \in 1 .. n + 1} = {p[i] : i \in 1 .. n} \cup {r}
  <2>1. \A i \in 1 .. n : i + 1 \in 1 .. n + 1 /\ q[i + 1] = p[i]
    BY <1>4
  <2>2. \A i \in 1 .. n + 1 : q[i] = r \/ \E j \in 1 .. n : q[i] = p[j]
    BY <1>4, <1>6
  <2>3. 1 \in 1 .. n + 1
    OBVIOUS
  <2>4. {q[i] : i \in 1 .. n + 1} \subseteq {p[i] : i \in 1 .. n} \cup {r}
    BY <2>2
  <2>5. {p[i] : i \in 1 .. n} \cup {r} \subseteq {q[i] : i \in 1 .. n + 1}
    BY <1>4, <2>1, <2>3
  <2> QED
    BY <2>4, <2>5
<1> QED
  BY <1>1, <1>2, <1>3, <1>4, <1>7, <1>8 DEF StackDistinct, Stack

\* uv_accept: an accept request goes from the stack back to the kernel.
LEMMA AcceptStep ==
  ASSUME IInv, Accept
  PROVE  IInv' /\ Unseen
<1> USE DEF IInv
<1>1. PICK r : r = Head(pending_accepts)
  OBVIOUS
<1>2. /\ UNCHANGED <<type, use, completed, batch, at, cb, reads, asked>>
      /\ "CLOSED" \notin s.flags
      /\ pending_accepts # <<>> /\ pending_accepts' = Tail(pending_accepts)
      /\ \/ "CLOSING" \notin s.flags /\ QueueAccept(s, r)
         \/ /\ "CLOSING" \in s.flags
            /\ accept_socket' = accept_socket \ {r} /\ UNCHANGED s
  BY <1>1 DEF Accept, Call, CanCall
<1>3. /\ pending_accepts \in Seq(Accepts) /\ StackDistinct
      /\ Stack \cap InFlight = {}
  BY DEF Typed, PlaceInv, StackDistinct
<1>4. StackDistinct' /\ r \in Stack /\ Stack' = Stack \ {r}
  BY <1>1, <1>2, <1>3, StackPop
<1>5. /\ r \in Accepts /\ r \in Reqs /\ r \notin InFlight
      /\ r \notin Writes /\ r # "read" /\ r # "connect"
  BY <1>3, <1>4, StackHas, SocketAssumption DEF Reqs
<1>6. CASE "CLOSING" \notin s.flags /\ QueueAccept(s, r)
  <2>1. s' \in Started(s, r) \cup Refused(s, r)
    BY <1>6 DEF QueueAccept
  <2>2. s \in Handles
    BY DEF Typed
  <2>3. /\ OneEach(s.iocp, Queue)' /\ InFlight' = InFlight \cup {r}
        /\ Cardinality(InFlight)' = Cardinality(InFlight) + 1
        /\ WritesIn(InFlight)' = WritesIn(InFlight) + Count(r \in Writes)
    BY <1>2, <1>5, <2>1, <2>2, LaunchStep
  <2>4. /\ s' \in Handles /\ Half(s') /\ s'.flags = s.flags
        /\ s'.activecnt = s.activecnt /\ s'.active_reqs = s.active_reqs
        /\ s'.reqs_pending = s.reqs_pending + 1 /\ s'.writes = s.writes
        /\ s'.shutdown_req = s.shutdown_req
    BY <1>5, <2>1, <2>2, StartedIs
  <2>5. Typed'
    <3>1. accept_socket' \subseteq Accepts
      BY <1>5, <1>6 DEF QueueAccept, Typed
    <3>2. pending_accepts' \in Seq(Accepts)
      BY <1>2, <1>3, EmptySeq, HeadTailProperties
    <3> QED
      BY <1>2, <2>4, <3>1, <3>2 DEF Typed
  <2>6. PlaceInv'
    BY <1>2, <1>3, <1>4, <2>3 DEF PlaceInv, StackDistinct
  <2>7. ReadInv' /\ OtherInv'
    BY <1>2, <1>4, <1>5, <2>3, <2>4 DEF ReadInv, OtherInv
  <2>8. FlagInv'
    BY <1>2, <2>4 DEF FlagInv
  <2>9. CountInv'
    <3>1. Count(r \in Writes) = 0
      BY <1>5 DEF Count
    <3>2. \A f : Has(s', f) = Has(s, f)
      BY <2>4 DEF Has
    <3>3. /\ InProcess' = InProcess /\ at' = at
          /\ WritesIn(InFlight)' = WritesIn(InFlight)
          /\ Cardinality(InFlight)' = Cardinality(InFlight) + 1
      BY <1>2, <2>3, <3>1, CountsAre DEF InProcess
    <3>4. Count(s.shutdown_req) \in Int /\ Count(InProcess) \in Int
      BY DEF Count
    <3> QED
      BY <2>4, <3>2, <3>3, <3>4, CountsAre DEF CountInv
  <2>10. Unseen
    BY <1>2, <1>5, <2>3, <2>4, DueSame DEF Unseen, Due
  <2> QED
    BY <2>4, <2>5, <2>6, <2>7, <2>8, <2>9, <2>10
<1>7. CASE "CLOSING" \in s.flags /\ accept_socket' = accept_socket \ {r} /\ s' = s
  <2>1. InFlight' = InFlight /\ Queue' = Queue
    BY <1>2, <1>7, FlightSame
  <2>2. pending_accepts' \in Seq(Accepts)
    BY <1>2, <1>3, EmptySeq, HeadTailProperties
  <2>3. Typed'
    BY <1>2, <1>7, <2>2 DEF Typed
  <2>4. PlaceInv'
    BY <1>2, <1>3, <1>4, <1>7, <2>1 DEF PlaceInv, StackDistinct
  <2>5. ReadInv' /\ FlagInv' /\ CountInv' /\ Half(s')
    BY <1>2, <1>7, <2>1 DEF ReadInv, FlagInv, CountInv, InProcess
  <2>6. OtherInv'
    BY <1>2, <1>7, <2>1 DEF OtherInv, FlagInv
  <2>7. Unseen
    BY <1>2, <1>7, <2>1, DueSame DEF Unseen, Due
  <2> QED
    BY <2>3, <2>4, <2>5, <2>6, <2>7
<1> QED
  BY <1>2, <1>6, <1>7

\* uv_ref and uv_unref change active_handles only for an active handle.
LEMMA RefUnrefStep ==
  ASSUME IInv, RefUnref
  PROVE  IInv' /\ Unseen
<1> USE DEF IInv
<1>1. /\ UNCHANGED <<type, use, completed, batch, at, cb, reads, acceptVars, asked>>
      /\ "CLOSED" \notin s.flags
  BY DEF RefUnref, Call, CanCall
<1>2. PICK n : n = IF "CLOSING" \in s.flags \/ "ACTIVE" \notin s.flags THEN 0
                   ELSE IF "REF" \notin s.flags THEN 1 ELSE -1
  OBVIOUS
<1>3. PICK f : f = IF "REF" \notin s.flags THEN s.flags \cup {"REF"}
                   ELSE s.flags \ {"REF"}
  OBVIOUS
<1>4. s' = [s EXCEPT !.flags = f, !.active_handles = @ + n]
  <2>1. s \in Handles /\ s.active_handles \in Int
    BY DEF Typed, Handles
  <2>2. CASE "CLOSING" \in s.flags \/ "ACTIVE" \notin s.flags
    <3>1. s' = [s EXCEPT !.flags = f]
      BY <1>3, <2>2 DEF RefUnref, Set, Clear
    <3>2. s = [s EXCEPT !.active_handles = @ + 0]
      BY <2>1 DEF Handles
    <3> QED
      BY <1>2, <2>1, <2>2, <3>1, <3>2 DEF Handles
  <2>3. CASE ~("CLOSING" \in s.flags \/ "ACTIVE" \notin s.flags)
    BY <1>2, <1>3, <2>1, <2>3 DEF RefUnref, Set, Clear, Handles
  <2> QED
    BY <2>2, <2>3
<1>5. /\ s' \in Handles /\ s'.flags = f
      /\ s'.active_handles = s.active_handles + n
      /\ s'.activecnt = s.activecnt /\ s'.active_reqs = s.active_reqs
      /\ s'.reqs_pending = s.reqs_pending /\ s'.writes = s.writes
      /\ s'.shutdown_req = s.shutdown_req /\ s'.iocp = s.iocp
      /\ s'.pending = s.pending
  <2>1. s \in Handles /\ s.active_handles + n \in Int /\ f \in SUBSET Flags
    BY <1>2, <1>3 DEF Typed, Handles, Flags
  <2>2. s' \in Handles
    BY <1>4, <2>1 DEF Handles
  <2> QED
    BY <1>4, <2>1, <2>2 DEF Handles
<1>6. Half(s')
  BY <1>1, <1>2, <1>3, <1>5 DEF Half, Count
<1>7. Typed'
  BY <1>1, <1>5 DEF Typed, acceptVars
<1>8. PlaceInv' /\ InFlight' = InFlight /\ Stack' = Stack
  BY <1>1, <1>5, PlaceSame DEF acceptVars
<1>9. ReadInv' /\ OtherInv' /\ FlagInv'
  BY <1>1, <1>3, <1>5, <1>8 DEF ReadInv, OtherInv, FlagInv
<1>10. CountInv'
  <2>1. \A x \in {"READING", "LISTENING", "CONNECTING"} : Has(s', x) = Has(s, x)
    BY <1>3, <1>5 DEF Has, Count
  <2> QED
    BY <1>1, <1>5, <1>8, <2>1 DEF CountInv, InProcess
<1>11. Unseen
  BY <1>1, <1>3, <1>5, <1>8, DueSame DEF Unseen, Due
<1> QED
  BY <1>5, <1>6, <1>7, <1>8, <1>9, <1>10, <1>11

-----------------------------------------------------------------------------
(***************************************************************************)
(* The kernel and the loop.                                                *)
(***************************************************************************)
\* What is in flight after a step, by its queues.
LEMMA FlightNext ==
  ASSUME s' \in Handles, batch' \in Seq(Entries), completed' \in Seq(Entries)
  PROVE  InFlight' = s'.iocp \cup ReqsOf(Queue')
<1>1. QueuesTyped'
  BY DEF QueuesTyped
<1>2. (InFlight = s.iocp \cup ReqsOf(Queue))'
  BY <1>1, FlightIs, PTL
<1> QED
  BY <1>2

\* Whatever else depends on requests, flags and counters, when they stay.
LEMMA RestSame ==
  ASSUME IInv, s'.flags = s.flags, s'.reqs_pending = s.reqs_pending,
         s'.writes = s.writes, s'.active_reqs = s.active_reqs,
         s'.activecnt = s.activecnt, s'.shutdown_req = s.shutdown_req,
         s'.active_handles = s.active_handles,
         InFlight' = InFlight, UNCHANGED <<use, asked, pending_accepts>>,
         at' = at \/ {at, at'} = {"reqs", "endgames"}
  PROVE  ReadInv' /\ OtherInv' /\ FlagInv' /\ CountInv' /\ Half(s')
<1> USE DEF IInv
<1>1. Stack' = Stack
  BY DEF Stack
<1>2. /\ at' \in {"recv", "requeue"} <=> at \in {"recv", "requeue"}
      /\ InProcess' <=> InProcess
      /\ at' = "written" <=> at = "written"
      /\ at' = "shut" <=> at = "shut"
  BY DEF InProcess
<1>3. \A f : Has(s', f) = Has(s, f)
  BY DEF Has
<1>4. Half(s')
  BY DEF Half
<1>5. ReadInv' /\ OtherInv' /\ FlagInv'
  BY <1>1, <1>2 DEF ReadInv, OtherInv, FlagInv
<1>6. CountInv'
  BY <1>2, <1>3 DEF CountInv, Count
<1> QED
  BY <1>4, <1>5, <1>6

\* The kernel posts a completion.
LEMMA CompleteStep ==
  ASSUME IInv, NEW r \in Reqs, Complete(r)
  PROVE  IInv' /\ Unseen
<1> USE DEF IInv
<1>1. /\ r \in s.iocp /\ s' = [s EXCEPT !.iocp = @ \ {r}]
      /\ UNCHANGED <<type, use, batch, acceptVars, at, cb, reads, asked>>
  BY DEF Complete
<1>2. PICK x \in Entries : x.req = r /\ completed' = Append(completed, x)
  <2>1. PICK ok \in BOOLEAN : completed' = Append(completed, [req |-> r, ok |-> ok])
    BY DEF Complete
  <2> QED
    BY <2>1 DEF Entries
<1>3. /\ s \in Handles /\ s.iocp \ {r} \in SUBSET Reqs /\ s.pending \in Seq(Entries)
      /\ batch \in Seq(Entries) /\ completed \in Seq(Entries)
      /\ completed' \in Seq(Entries)
  BY <1>2 DEF Typed, Handles
<1>4. s' \in Handles
  BY <1>1, <1>3 DEF Handles
<1>5. /\ s'.iocp = s.iocp \ {r} /\ s'.pending = s.pending
      /\ s'.flags = s.flags /\ s'.reqs_pending = s.reqs_pending
      /\ s'.writes = s.writes /\ s'.active_reqs = s.active_reqs
      /\ s'.activecnt = s.activecnt /\ s'.shutdown_req = s.shutdown_req
      /\ s'.active_handles = s.active_handles
  BY <1>1, <1>3, <1>4 DEF Handles
<1>6. Queue \in Seq(Entries) /\ Queue' = Append(Queue, x)
  <2>0. s.pending \o batch \in Seq(Entries)
    BY <1>3
  <2>1. PICK q \in Seq(Entries) : q = s.pending \o batch
    BY <2>0
  <2>2. Queue = q \o completed /\ Queue' = q \o Append(completed, x)
    BY <1>1, <1>2, <1>5, <2>1 DEF Queue, acceptVars
  <2> QED
    BY <1>3, <2>2
<1>7. /\ OneEach(s.iocp \ {r}, Append(Queue, x))
      /\ (s.iocp \ {r}) \cup ReqsOf(Append(Queue, x)) = s.iocp \cup ReqsOf(Queue)
  <2>1. PICK k \in SUBSET Reqs, q \in Seq(Entries) : k = s.iocp /\ q = Queue
    BY <1>3, <1>6 DEF Handles
  <2>2. r \in k /\ x.req = r /\ OneEach(k, q)
    BY <1>1, <1>2, <2>1 DEF PlaceInv
  <2>3. /\ OneEach(k \ {r}, Append(q, x))
        /\ Stays(FlightOf(k, q), FlightOf(k \ {r}, Append(q, x)))
    BY <2>2, Completed
  <2> QED
    BY <2>1, <2>3 DEF Stays, FlightOf
<1>8. InFlight' = InFlight
  <2>1. InFlight = s.iocp \cup ReqsOf(Queue)
    BY FlightIs DEF Typed, QueuesTyped
  <2>2. InFlight' = s'.iocp \cup ReqsOf(Queue')
    BY <1>1, <1>3, <1>4, FlightNext
  <2> QED
    BY <1>5, <1>6, <1>7, <2>1, <2>2
<1>9. Typed'
  BY <1>1, <1>3, <1>4 DEF Typed, acceptVars
<1>10. PlaceInv'
  BY <1>1, <1>5, <1>6, <1>7, <1>8 DEF PlaceInv, acceptVars, Stack
<1>11. Unseen
  BY <1>1, <1>5, <1>8, DueSame DEF Unseen, Due
<1> QED
  BY <1>1, <1>5, <1>8, <1>9, <1>10, RestSame, <1>11 DEF acceptVars

\* uv_process_reqs takes the queue over as a whole.
LEMMA TakePendingStep ==
  ASSUME IInv, TakePending
  PROVE  IInv' /\ Unseen
<1> USE DEF IInv
<1>1. /\ UNCHANGED <<type, use, completed, acceptVars, cb, reads, asked>>
      /\ at = "endgames" /\ at' = "reqs" /\ batch' = s.pending
      /\ s' = [s EXCEPT !.pending = <<>>] /\ batch = <<>>
  BY DEF TakePending, PlaceInv
<1>2. /\ s \in Handles /\ <<>> \in Seq(Entries) /\ s.pending \in Seq(Entries)
      /\ completed \in Seq(Entries)
  BY DEF Typed, Handles
<1>3. s' \in Handles
  BY <1>1, <1>2 DEF Handles
<1>4. /\ s'.pending = <<>>
      /\ s'.iocp = s.iocp /\ s'.flags = s.flags /\ s'.reqs_pending = s.reqs_pending
      /\ s'.writes = s.writes /\ s'.active_reqs = s.active_reqs
      /\ s'.activecnt = s.activecnt /\ s'.shutdown_req = s.shutdown_req
      /\ s'.active_handles = s.active_handles
  BY <1>1, <1>2, <1>3 DEF Handles
<1>5. Queue' = Queue
  <2>1. s.pending \o <<>> = s.pending /\ <<>> \o s.pending = s.pending
    BY <1>2
  <2> QED
    BY <1>1, <1>4, <2>1 DEF Queue
<1>6. InFlight' = InFlight
  <2>1. InFlight = s.iocp \cup ReqsOf(Queue)
    BY FlightIs DEF Typed, QueuesTyped
  <2>2. InFlight' = s'.iocp \cup ReqsOf(Queue')
    BY <1>1, <1>2, <1>3, FlightNext
  <2> QED
    BY <1>4, <1>5, <2>1, <2>2
<1>7. Typed'
  BY <1>1, <1>2, <1>3 DEF Typed, acceptVars
<1>8. PlaceInv'
  BY <1>1, <1>4, <1>5, <1>6 DEF PlaceInv, acceptVars, Stack
<1>9. Unseen
  BY <1>1, <1>4, <1>6, DueSame DEF Unseen, Due
<1> QED
  BY <1>1, <1>4, <1>6, <1>7, <1>8, RestSame, <1>9 DEF acceptVars

\* uv__poll puts the completions behind what is pending.
LEMMA PollStep ==
  ASSUME IInv, Poll
  PROVE  IInv' /\ Unseen
<1> USE DEF IInv
<1>1. /\ UNCHANGED <<type, use, batch, acceptVars, cb, reads, asked>>
      /\ at = "reqs" /\ at' = "endgames" /\ batch = <<>>
      /\ s' = [s EXCEPT !.pending = @ \o completed] /\ completed' = <<>>
  BY DEF Poll
<1>2. /\ s \in Handles /\ <<>> \in Seq(Entries) /\ s.pending \in Seq(Entries)
      /\ completed \in Seq(Entries) /\ s.pending \o completed \in Seq(Entries)
  BY DEF Typed, Handles
<1>3. s' \in Handles
  BY <1>1, <1>2 DEF Handles
<1>4. /\ s'.pending = s.pending \o completed
      /\ s'.iocp = s.iocp /\ s'.flags = s.flags /\ s'.reqs_pending = s.reqs_pending
      /\ s'.writes = s.writes /\ s'.active_reqs = s.active_reqs
      /\ s'.activecnt = s.activecnt /\ s'.shutdown_req = s.shutdown_req
      /\ s'.active_handles = s.active_handles
  BY <1>1, <1>2, <1>3 DEF Handles
<1>5. Queue' = Queue
  <2>1. PICK q \in Seq(Entries) : q = s.pending \o completed
    BY <1>2
  <2>2. s.pending \o <<>> = s.pending /\ q \o <<>> = q
    BY <1>2
  <2> QED
    BY <1>1, <1>4, <2>1, <2>2 DEF Queue
<1>6. InFlight' = InFlight
  <2>1. InFlight = s.iocp \cup ReqsOf(Queue)
    BY FlightIs DEF Typed, QueuesTyped
  <2>2. InFlight' = s'.iocp \cup ReqsOf(Queue')
    BY <1>1, <1>2, <1>3, FlightNext
  <2> QED
    BY <1>4, <1>5, <2>1, <2>2
<1>7. Typed'
  BY <1>1, <1>2, <1>3 DEF Typed, acceptVars
<1>8. PlaceInv'
  BY <1>1, <1>4, <1>5, <1>6 DEF PlaceInv, acceptVars, Stack
<1>9. Unseen
  BY <1>1, <1>4, <1>6, DueSame DEF Unseen, Due
<1> QED
  BY <1>1, <1>4, <1>6, <1>7, <1>8, RestSame, <1>9 DEF acceptVars

\* What takes the next request of the batch does to the queues.
LEMMA TakeIs ==
  ASSUME Typed, PlaceInv, NEW r, Next_req(r), completed' = completed
  PROVE  /\ batch' \in Seq(Entries) /\ r \in InFlight
         /\ OneEach(s.iocp, s.pending \o batch' \o completed)
         /\ FlightOf(s.iocp, s.pending \o batch' \o completed) = InFlight \ {r}
<1>1. batch # <<>> /\ Head(batch).req = r /\ batch' = Tail(batch)
  BY DEF Next_req
<1>2. /\ s.pending \in Seq(Entries) /\ batch \in Seq(Entries)
      /\ completed \in Seq(Entries) /\ Tail(batch) \in Seq(Entries)
  BY <1>1, EmptySeq, HeadTailProperties DEF Typed, Handles
<1>3. Queue = s.pending \o batch \o completed
  BY DEF Queue
<1>4. OneEach(s.iocp, s.pending \o batch \o completed)
  BY <1>3 DEF PlaceInv
<1>5. /\ OneEach(s.iocp, s.pending \o Tail(batch) \o completed)
      /\ r \in ReqsOf(s.pending \o batch \o completed)
      /\ FlightOf(s.iocp, s.pending \o Tail(batch) \o completed)
           = FlightOf(s.iocp, s.pending \o batch \o completed) \ {r}
  <2>1. PICK k, p, b, c : k = s.iocp /\ p = s.pending /\ b = batch /\ c = completed
    OBVIOUS
  <2>2. /\ p \in Seq(Entries) /\ b \in Seq(Entries) /\ c \in Seq(Entries)
        /\ k \in SUBSET Reqs /\ b # <<>> /\ OneEach(k, p \o b \o c)
    BY <1>1, <1>2, <1>4, <2>1 DEF Typed, Handles
  <2>3. /\ OneEach(k, p \o Tail(b) \o c)
        /\ Head(b).req \in ReqsOf(p \o b \o c)
        /\ Leaves(Head(b).req, FlightOf(k, p \o b \o c),
                  FlightOf(k, p \o Tail(b) \o c))
    BY <2>2, Take
  <2> QED
    BY <1>1, <2>1, <2>3 DEF Leaves
<1>6. InFlight = FlightOf(s.iocp, Queue) /\ r \in InFlight
  BY <1>3, <1>5, FlightIs DEF Typed, QueuesTyped, FlightOf
<1> QED
  BY <1>1, <1>2, <1>3, <1>5, <1>6

\* The next request of the batch is in flight no longer.
LEMMA TakeStep ==
  ASSUME Typed, PlaceInv, NEW r, Next_req(r), completed' = completed,
         s' \in Handles, s'.iocp = s.iocp, s'.pending = s.pending
  PROVE  /\ OneEach(s.iocp, Queue)' /\ r \in InFlight
         /\ batch' \in Seq(Entries)
         /\ InFlight' = InFlight \ {r}
         /\ Cardinality(InFlight)' = Cardinality(InFlight) - 1
         /\ WritesIn(InFlight)' = WritesIn(InFlight) - Count(r \in Writes)
<1>1. /\ batch' \in Seq(Entries) /\ r \in InFlight
      /\ OneEach(s.iocp, s.pending \o batch' \o completed)
      /\ FlightOf(s.iocp, s.pending \o batch' \o completed) = InFlight \ {r}
  BY TakeIs
<1>2. Queue' = s.pending \o batch' \o completed
  BY DEF Queue
<1>3. completed' \in Seq(Entries)
  BY DEF Typed
<1>4. InFlight' = FlightOf(s.iocp, Queue')
  BY <1>1, <1>3, FlightNext DEF FlightOf
<1>5. InFlight' = InFlight \ {r}
  BY <1>1, <1>2, <1>4
<1> QED
  BY <1>1, <1>2, <1>5, CountRemove, FlightFinite

\* It may be begun again at once.
LEMMA TakeLaunchStep ==
  ASSUME Typed, PlaceInv, NEW r \in Reqs, Next_req(r), completed' = completed,
         s' \in Started(s, r) \cup Refused(s, r)
  PROVE  /\ OneEach(s.iocp, Queue)' /\ r \in InFlight
         /\ batch' \in Seq(Entries) /\ InFlight' = InFlight
<1>1. s \in Handles
  BY DEF Typed
<1>2. s' \in Handles /\ Launched(r, s.iocp, s.pending, s'.iocp, s'.pending)
  BY <1>1, StartedIs
<1>3. /\ batch' \in Seq(Entries) /\ r \in InFlight
      /\ OneEach(s.iocp, s.pending \o batch' \o completed)
      /\ FlightOf(s.iocp, s.pending \o batch' \o completed) = InFlight \ {r}
  BY TakeIs
<1>4. /\ s.pending \in Seq(Entries) /\ s'.pending \in Seq(Entries)
      /\ completed \in Seq(Entries) /\ batch' \o completed \in Seq(Entries)
      /\ s.iocp \in SUBSET Reqs /\ s'.iocp \in SUBSET Reqs
  BY <1>1, <1>2, <1>3 DEF Typed, Handles
<1>5. PICK q \in Seq(Entries) : q = batch' \o completed
  BY <1>4
<1>6. /\ s.pending \o batch' \o completed = s.pending \o q
      /\ Queue' = s'.pending \o q
  <2>1. PICK p, p2, b, c : p = s.pending /\ p2 = s'.pending /\ b = batch'
                           /\ c = completed
    OBVIOUS
  <2>2. /\ p \in Seq(Entries) /\ p2 \in Seq(Entries) /\ b \in Seq(Entries)
        /\ c \in Seq(Entries) /\ q = b \o c
    BY <1>3, <1>4, <1>5, <2>1 DEF Typed
  <2>3. (p \o b) \o c = p \o (b \o c)
    BY <2>2, QueueParts
  <2>4. (p2 \o b) \o c = p2 \o (b \o c)
    BY <2>2, QueueParts
  <2>5. Queue' = p2 \o b \o c
    BY <2>1 DEF Queue
  <2> QED
    BY <2>1, <2>2, <2>3, <2>4, <2>5
<1>8. r \notin s.iocp \cup ReqsOf(s.pending \o q)
  BY <1>3, <1>6 DEF FlightOf
<1>9. /\ OneEach(s'.iocp, s'.pending \o q)
      /\ Joins(r, FlightOf(s.iocp, s.pending \o q), FlightOf(s'.iocp, s'.pending \o q))
  <2>1. PICK p, p2, k, k2 :
          p = s.pending /\ p2 = s'.pending /\ k = s.iocp /\ k2 = s'.iocp
    OBVIOUS
  <2>2. /\ p \in Seq(Entries) /\ p2 \in Seq(Entries)
        /\ k \in SUBSET Reqs /\ k2 \in SUBSET Reqs /\ OneEach(k, p \o q)
        /\ r \notin k \cup ReqsOf(p \o q) /\ Launched(r, k, p, k2, p2)
    BY <1>2, <1>3, <1>4, <1>6, <1>8, <2>1
  <2>3. /\ OneEach(k2, p2 \o q)
        /\ Joins(r, FlightOf(k, p \o q), FlightOf(k2, p2 \o q))
    BY <2>2, Launch
  <2> QED
    BY <2>1, <2>3
<1>10. InFlight' = FlightOf(s'.iocp, Queue')
  BY <1>2, <1>3, <1>4, FlightNext DEF FlightOf
<1>11. InFlight' = (InFlight \ {r}) \cup {r}
  BY <1>3, <1>6, <1>9, <1>10 DEF Joins
<1> QED
  BY <1>3, <1>6, <1>9, <1>11

\* A step that ends one.
LEMMA PlaceLess ==
  ASSUME PlaceInv, OneEach(s.iocp, Queue)', InFlight' \subseteq InFlight,
         UNCHANGED pending_accepts, at' \notin {"endgames", "shut"}
  PROVE  PlaceInv' /\ Stack' = Stack
<1>1. Stack' = Stack
  BY DEF Stack
<1> QED
  BY <1>1 DEF PlaceInv

\* uv_process_tcp_read_req, uv_process_udp_recv_req: an error is delivered to
\* those who read, and ends reading.
LEMMA ProcessReadStep ==
  ASSUME IInv, ProcessRead
  PROVE  IInv' /\ (Unseen \/ Contract!Deliver)
<1> USE DEF IInv
<1>1. PICK t : t = Clear(s, {"READ_PENDING"})
  OBVIOUS
<1>2. /\ UNCHANGED <<type, use, completed, acceptVars, asked>>
      /\ Next_req("read") /\ at = "reqs"
      /\ \/ /\ "READING" \in t.flags /\ s' = StopReading(t)
            /\ at' \in {"requeue", "finish"} /\ ReadCallback
         \/ /\ "READING" \notin t.flags /\ s' = t /\ at' = "finish"
            /\ UNCHANGED <<cb, reads>>
         \/ /\ s' = t /\ at' = "recv" /\ UNCHANGED <<cb, reads>>
  BY <1>1 DEF ProcessRead, Next_req
<1>3. {"READ_PENDING"} \in SUBSET PlainFlags
  BY DEF PlainFlags, Flags
<1>4. /\ Alike(s, t) /\ t.flags = s.flags \ {"READ_PENDING"}
      /\ t.activecnt = s.activecnt /\ Half(t)
  BY <1>1, <1>3, ClearIs DEF Typed
<1>5. \/ "READING" \notin t.flags /\ s' = t /\ at' = "finish"
      \/ s' = t /\ at' = "recv"
      \/ "READING" \in t.flags /\ Stops("READING", t, s') /\ at' \in {"requeue", "finish"}
  <2>1. ASSUME "READING" \in t.flags, s' = StopReading(t)
        PROVE  Stops("READING", t, s')
    BY <1>4, <2>1, StopIs, CountsAre DEF StopReading, Alike
  <2> QED
    BY <1>2, <2>1
<1>6. /\ s' \in Handles /\ Half(s') /\ Alike(s, s')
      /\ s'.flags \subseteq s.flags \ {"READ_PENDING"}
      /\ s.flags \subseteq s'.flags \cup {"ACTIVE", "READING", "READ_PENDING"}
      /\ s'.activecnt = s.activecnt - Has(s, "READING") + Has(s', "READING")
      /\ at' \in {"requeue", "finish", "recv"}
      /\ "READING" \in s'.flags => at' = "recv"
  <2>1. Has(s, "READING") = Has(t, "READING") /\ s.activecnt \in Int
    BY <1>4, CountsAre DEF Has
  <2>2. CASE s' = t
    BY <1>4, <1>5, <2>1, <2>2 DEF Alike, Has, Count, Stops
  <2>3. CASE Stops("READING", t, s') /\ at' \in {"requeue", "finish"}
    <3>1. Has(s', "READING") = 0 /\ Has(s, "READING") \in Int
      BY <2>3 DEF Has, Count, Stops
    <3>2. s'.activecnt = s.activecnt - Has(s, "READING") + Has(s', "READING")
      BY <1>4, <2>1, <2>3, <3>1 DEF Stops
    <3>3. /\ s'.flags \subseteq s.flags \ {"READ_PENDING", "READING"}
          /\ s.flags \subseteq s'.flags \cup {"ACTIVE", "READING", "READ_PENDING"}
      BY <1>4, <2>3 DEF Stops
    <3>4. s' \in Handles /\ Half(s') /\ Alike(s, s')
      BY <1>4, <2>3 DEF Alike, Stops
    <3> QED
      BY <2>3, <3>2, <3>3, <3>4
  <2> QED
    BY <1>5, <2>2, <2>3
<1>7. /\ s'.reqs_pending = s.reqs_pending /\ s'.writes = s.writes
      /\ s'.shutdown_req = s.shutdown_req /\ s'.iocp = s.iocp
      /\ s'.pending = s.pending /\ s'.active_reqs = s.active_reqs
  BY <1>6 DEF Alike
<1>8. /\ OneEach(s.iocp, Queue)' /\ "read" \in InFlight
      /\ batch' \in Seq(Entries) /\ InFlight' = InFlight \ {"read"}
      /\ Cardinality(InFlight)' = Cardinality(InFlight) - 1
      /\ WritesIn(InFlight)' = WritesIn(InFlight) - Count("read" \in Writes)
  BY <1>2, <1>6, <1>7, TakeStep
<1>9. Typed'
  BY <1>2, <1>6, <1>8 DEF Typed, acceptVars, ReadCallback
<1>10. PlaceInv' /\ Stack' = Stack
  BY <1>2, <1>6, <1>8, PlaceLess DEF acceptVars
<1>11. ReadInv'
  BY <1>2, <1>6, <1>8 DEF ReadInv
<1>12. OtherInv'
  BY <1>2, <1>6, <1>8, <1>10, SocketAssumption DEF OtherInv
<1>13. FlagInv'
  BY <1>2, <1>6, <1>7 DEF FlagInv
<1>14. CountInv'
  <2>1. /\ Has(s', "LISTENING") = Has(s, "LISTENING")
        /\ Has(s', "CONNECTING") = Has(s, "CONNECTING")
        /\ Has(s, "READING") \in Int /\ Has(s', "READING") \in Int
        /\ Has(s, "LISTENING") \in Int /\ Has(s, "CONNECTING") \in Int
    BY <1>6 DEF Has, Count
  <2>2. Count("read" \in Writes) = 0
    BY SocketAssumption DEF Count
  <2>3. /\ Count(InProcess) = 0 /\ Count(InProcess)' = 1
        /\ Count(at = "written") = 0 /\ Count(at = "written")' = 0
        /\ Count(s.shutdown_req /\ at # "shut")' = Count(s.shutdown_req /\ at # "shut")
        /\ Count(s.shutdown_req)' = Count(s.shutdown_req)
        /\ Count(s.shutdown_req) \in Int
    BY <1>2, <1>6, <1>7 DEF Count, InProcess
  <2>4. WritesIn(InFlight)' = WritesIn(InFlight)
    BY <1>8, <2>2, CountsAre
  <2>5. /\ s'.reqs_pending = Cardinality(InFlight)' + Count(s.shutdown_req)'
                              + Count(InProcess)'
        /\ s'.writes = WritesIn(InFlight)' + Count(at = "written")'
    BY <1>7, <1>8, <2>3, <2>4, CountsAre DEF CountInv
  <2>6. s'.active_reqs = WritesIn(InFlight)' + Has(s', "CONNECTING")
                           + Count(s.shutdown_req /\ at # "shut")'
    BY <1>7, <2>1, <2>3, <2>4 DEF CountInv
  <2>7. s'.activecnt = Has(s', "READING") + Has(s', "LISTENING") + s'.active_reqs
    BY <1>6, <1>7, <2>1, CountsAre DEF CountInv
  <2> QED
    BY <2>5, <2>6, <2>7 DEF CountInv
<1>15. (Unseen \/ Contract!Deliver)
  <2>1. DueReqs' = DueReqs
    BY <1>2, <1>6, <1>7, <1>8, SocketAssumption, DueSame DEF Due
  <2>2. CASE "READING" \in t.flags /\ s' = StopReading(t) /\ ReadCallback
    BY <1>4, <1>6, <2>1, <2>2 DEF Contract!Deliver, ReadCallback
  <2>3. CASE s' = t /\ UNCHANGED <<cb, reads>>
    BY <1>4, <2>1, <2>3 DEF Unseen
  <2> QED
    BY <1>2, <2>2, <2>3
<1> QED
  BY <1>6, <1>9, <1>10, <1>11, <1>12, <1>13, <1>14, <1>15

\* The socket is read, as long as the application reads.
LEMMA RecvStep ==
  ASSUME IInv, RecvData \/ RecvStopped
  PROVE  IInv' /\ (Unseen \/ Contract!Deliver)
<1> USE DEF IInv
<1>1. /\ UNCHANGED <<type, use, s, completed, batch, acceptVars, asked>>
      /\ at = "recv" /\ at' \in {"recv", "requeue"}
      /\ ReadCallback \/ UNCHANGED <<cb, reads>>
  BY DEF RecvData, RecvStopped
<1>2. PlaceInv' /\ InFlight' = InFlight /\ Stack' = Stack
  BY <1>1, PlaceSame DEF acceptVars
<1>3. Typed'
  BY <1>1 DEF Typed, acceptVars, ReadCallback
<1>4. ReadInv' /\ OtherInv' /\ FlagInv' /\ Half(s')
  BY <1>1, <1>2 DEF ReadInv, OtherInv, FlagInv
<1>5. CountInv'
  BY <1>1, <1>2 DEF CountInv, InProcess, Count
<1>6. (Unseen \/ Contract!Deliver)
  <2>1. DueReqs' = DueReqs
    BY <1>1, <1>2, DueSame DEF Due
  <2>2. CASE RecvData
    BY <1>1, <2>1, <2>2 DEF RecvData, Contract!Deliver, ReadCallback
  <2>3. CASE RecvStopped
    BY <2>1, <2>3 DEF RecvStopped, Unseen
  <2> QED
    BY <2>2, <2>3
<1> QED
  BY <1>2, <1>3, <1>4, <1>5, <1>6

\* The end of the stream, or an error, is delivered.
LEMMA RecvEndsStep ==
  ASSUME IInv, RecvEnds
  PROVE  IInv' /\ Contract!Deliver
<1> USE DEF IInv
<1>1. PICK f \in {{}, {"READABLE"}} : s' = Clear(StopReading(s), f)
  BY DEF RecvEnds
<1>2. PICK t : t = StopReading(s)
  OBVIOUS
<1>3. /\ UNCHANGED <<type, use, completed, batch, acceptVars, asked>>
      /\ at = "recv" /\ at' = "requeue" /\ ReadCallback
      /\ "READING" \in s.flags
  BY DEF RecvEnds
<1>4. Stops("READING", s, t) /\ Has(s, "READING") = 1
  BY <1>2, <1>3, StopIs, CountsAre DEF Typed, StopReading, Has, Count
<1>5. f \in SUBSET PlainFlags
  BY DEF PlainFlags, Flags
<1>6. /\ Alike(t, s') /\ s'.flags = t.flags \ f
      /\ s'.activecnt = t.activecnt /\ Half(s')
  BY <1>1, <1>2, <1>4, <1>5, ClearIs DEF Stops, Alike
<1>7. /\ s' \in Handles
      /\ s'.flags \subseteq s.flags \ {"READING"}
      /\ s.flags \subseteq s'.flags \cup {"ACTIVE", "READING", "READABLE"}
      /\ s'.activecnt = s.activecnt - 1
      /\ s'.reqs_pending = s.reqs_pending /\ s'.writes = s.writes
      /\ s'.shutdown_req = s.shutdown_req /\ s'.iocp = s.iocp
      /\ s'.pending = s.pending /\ s'.active_reqs = s.active_reqs
  BY <1>4, <1>6 DEF Stops, Alike
<1>8. PlaceInv' /\ InFlight' = InFlight /\ Stack' = Stack
  BY <1>3, <1>7, PlaceSame DEF acceptVars
<1>9. Typed'
  BY <1>3, <1>7 DEF Typed, acceptVars, ReadCallback
<1>10. ReadInv' /\ OtherInv'
  BY <1>3, <1>7, <1>8 DEF ReadInv, OtherInv
<1>11. FlagInv'
  BY <1>3, <1>7 DEF FlagInv
<1>12. CountInv'
  <2>1. /\ Has(s', "READING") = 0
        /\ Has(s', "LISTENING") = Has(s, "LISTENING")
        /\ Has(s', "CONNECTING") = Has(s, "CONNECTING")
        /\ Has(s, "LISTENING") \in Int
    BY <1>7 DEF Has, Count
  <2> QED
    BY <1>3, <1>4, <1>7, <1>8, <2>1, CountsAre DEF CountInv, InProcess, Count
<1>13. Contract!Deliver
  <2>1. DueReqs' = DueReqs
    BY <1>3, <1>7, <1>8, DueSame DEF Due
  <2> QED
    BY <1>3, <1>7, <2>1 DEF Contract!Deliver, ReadCallback
<1> QED
  BY <1>6, <1>8, <1>9, <1>10, <1>11, <1>12, <1>13

\* Whoever still reads has a read request again.
LEMMA ReadDoneStep ==
  ASSUME KeptApart, IInv, ReadDone
  PROVE  IInv' /\ Unseen
<1> USE DEF IInv
<1>1. /\ UNCHANGED <<type, use, completed, batch, acceptVars, cb, reads, asked>>
      /\ at = "requeue" /\ at' = "finish" /\ s' \in Requeue(s)
  BY DEF ReadDone
<1>2. s \in Handles /\ ("READ_PENDING" \notin s.flags => "read" \notin InFlight)
  BY <1>1 DEF ReadInv, Typed
<1>3. /\ s' \in Handles /\ OneEach(s.iocp, Queue)' /\ Half(s')
      /\ s'.writes = s.writes /\ s'.shutdown_req = s.shutdown_req
      /\ s'.active_reqs = s.active_reqs /\ s'.activecnt = s.activecnt
      /\ WritesIn(InFlight)' = WritesIn(InFlight)
  BY <1>1, <1>2, RequeueIs
<1>4. \/ /\ ~("READING" \in s.flags /\ "READ_PENDING" \notin s.flags)
         /\ InFlight' = InFlight /\ s'.flags = s.flags
         /\ s'.reqs_pending = s.reqs_pending
      \/ /\ "READING" \in s.flags
         /\ InFlight' = InFlight \cup {"read"}
         /\ Cardinality(InFlight)' = Cardinality(InFlight) + 1
         /\ s'.reqs_pending = s.reqs_pending + 1
         /\ \/ s'.flags = s.flags \cup {"READ_PENDING"}
            \/ s'.flags = s.flags /\ use.fails
  BY <1>1, <1>2, RequeueIs
<1>5. Typed'
  BY <1>1, <1>3 DEF Typed, acceptVars
<1>6. PlaceInv' /\ Stack' = Stack
  <2>1. CASE InFlight' = InFlight
    BY <1>1, <1>3, <2>1, PlaceLess DEF acceptVars
  <2>2. CASE InFlight' = InFlight \cup {"read"}
    BY <1>1, <1>3, <2>2, PlaceMore, StackHas DEF acceptVars
  <2> QED
    BY <1>4, <2>1, <2>2
<1>7. ReadInv'
  BY <1>1, <1>4 DEF ReadInv, KeptApart, Typed
<1>8. OtherInv'
  BY <1>1, <1>4, <1>6, SocketAssumption DEF OtherInv
<1>9. "CLOSED" \notin s.flags
  BY <1>1, CountsAre DEF FlagInv, CountInv, InProcess, Count
<1>10. FlagInv'
  BY <1>1, <1>3, <1>4, <1>9 DEF FlagInv
<1>11. CountInv'
  <2>1. \A x \in {"READING", "LISTENING", "CONNECTING"} : Has(s', x) = Has(s, x)
    BY <1>4 DEF Has, Count
  <2>2. /\ Count(InProcess) = 1 /\ Count(InProcess)' = 1
        /\ Count(at = "written") = 0 /\ Count(at = "written")' = 0
        /\ Count(s.shutdown_req /\ at # "shut")' = Count(s.shutdown_req /\ at # "shut")
        /\ Count(s.shutdown_req)' = Count(s.shutdown_req)
        /\ Count(s.shutdown_req) \in Int
    BY <1>1, <1>3 DEF Count, InProcess
  <2> QED
    BY <1>3, <1>4, <2>1, <2>2, CountsAre DEF CountInv
<1>12. Unseen
  BY <1>1, <1>3, <1>4, SocketAssumption, DueSame DEF Unseen, Due
<1> QED
  BY <1>3, <1>5, <1>6, <1>7, <1>8, <1>10, <1>11, <1>12

\* uv_process_tcp_write_req, uv_process_udp_send_req, as far as the callback.
LEMMA ProcessWriteStep ==
  ASSUME IInv, NEW w \in Writes, ProcessWrite(w)
  PROVE  IInv' /\ Contract!Answer(w)
<1> USE DEF IInv
<1>1. PICK n \in {0, 1} : n = Count(type = "udp")
  BY DEF Count
<1>2. PICK v : v = [s EXCEPT !.writes = @ - n]
  OBVIOUS
<1>3. /\ UNCHANGED <<type, use, completed, acceptVars, reads, asked>>
      /\ Next_req(w) /\ at = "reqs" /\ cb' = "write"
      /\ s' = Unregister(v)
      /\ at' = IF n = 1 THEN "finish" ELSE "written"
  BY <1>1, <1>2 DEF ProcessWrite, Next_req, Count
<1>4. /\ v \in Handles /\ v.flags = s.flags /\ v.activecnt = s.activecnt
      /\ v.active_reqs = s.active_reqs /\ v.active_handles = s.active_handles
      /\ v.reqs_pending = s.reqs_pending /\ v.writes = s.writes - n
      /\ v.shutdown_req = s.shutdown_req /\ v.iocp = s.iocp
      /\ v.pending = s.pending
  <2>1. s \in Handles /\ s.writes - n \in Int
    BY DEF Typed, Handles
  <2>2. v \in Handles
    BY <1>2, <2>1 DEF Handles
  <2> QED
    BY <1>2, <2>1, <2>2 DEF Handles
<1>5. Half(v)
  BY <1>4 DEF Half
<1>6. w \in InFlight /\ v.activecnt \in Nat \ {0}
  BY <1>3, <1>4, TakeIs, CountsAre
<1>7. /\ s' \in Handles /\ Half(s')
      /\ s'.flags \subseteq s.flags /\ s.flags \subseteq s'.flags \cup {"ACTIVE"}
      /\ s'.activecnt = s.activecnt - 1 /\ s'.active_reqs = s.active_reqs - 1
      /\ s'.reqs_pending = s.reqs_pending /\ s'.writes = s.writes - n
      /\ s'.shutdown_req = s.shutdown_req /\ s'.iocp = s.iocp
      /\ s'.pending = s.pending
  BY <1>3, <1>4, <1>5, <1>6, UnregisterIs
<1>8. /\ OneEach(s.iocp, Queue)'
      /\ batch' \in Seq(Entries) /\ InFlight' = InFlight \ {w}
      /\ Cardinality(InFlight)' = Cardinality(InFlight) - 1
      /\ WritesIn(InFlight)' = WritesIn(InFlight) - 1
  BY <1>3, <1>7, TakeStep DEF Count
<1>9. Typed'
  BY <1>3, <1>7, <1>8 DEF Typed, acceptVars
<1>10. PlaceInv' /\ Stack' = Stack
  BY <1>3, <1>8, PlaceLess DEF acceptVars
<1>11. w # "read" /\ w # "connect" /\ w \notin Accepts
  BY SocketAssumption
<1>12. ReadInv' /\ OtherInv'
  BY <1>3, <1>7, <1>8, <1>10, <1>11 DEF ReadInv, OtherInv
<1>13. FlagInv'
  BY <1>3, <1>7 DEF FlagInv
<1>14. CountInv'
  <2>1. \A x \in {"READING", "LISTENING", "CONNECTING"} : Has(s', x) = Has(s, x)
    BY <1>7 DEF Has, Count
  <2>2. /\ Count(InProcess) = 0 /\ Count(InProcess)' = 1
        /\ Count(at = "written") = 0 /\ Count(at = "written")' = 1 - n
        /\ Count(s.shutdown_req /\ at # "shut")' = Count(s.shutdown_req /\ at # "shut")
        /\ Count(s.shutdown_req)' = Count(s.shutdown_req)
        /\ Count(s.shutdown_req) \in Int /\ Count(s.shutdown_req /\ at # "shut") \in Int
        /\ \A f : Has(s, f) \in Int
    BY <1>3, <1>7 DEF Count, InProcess, Has
  <2>3. s'.reqs_pending = Cardinality(InFlight)' + Count(s.shutdown_req)'
                            + Count(InProcess)'
    BY <1>7, <1>8, <2>2, CountsAre DEF CountInv
  <2>4. s'.writes = WritesIn(InFlight)' + Count(at = "written")'
    BY <1>7, <1>8, <2>2, CountsAre DEF CountInv
  <2>5. s'.active_reqs = WritesIn(InFlight)' + Has(s', "CONNECTING")
                           + Count(s.shutdown_req /\ at # "shut")'
    <3>1. Has(s', "CONNECTING") = Has(s, "CONNECTING") /\ WritesIn(InFlight) \in Int
      BY <2>1, CountsAre
    <3> QED
      BY <1>7, <1>8, <2>2, <3>1 DEF CountInv
  <2>6. s'.activecnt = Has(s', "READING") + Has(s', "LISTENING") + s'.active_reqs
    BY <1>7, <2>1, <2>2, CountsAre DEF CountInv
  <2> QED
    BY <2>3, <2>4, <2>5, <2>6 DEF CountInv
<1>15. Contract!Answer(w)
  <2>1. DueReqs' = DueReqs \ {w} /\ w \in DueReqs /\ w # "shutdown"
    BY <1>3, <1>6, <1>7, <1>8, SocketAssumption DEF DueReqs
  <2> QED
    BY <1>3, <1>7, <2>1 DEF Contract!Answer
<1> QED
  BY <1>7, <1>9, <1>10, <1>12, <1>13, <1>14, <1>15

\* uv_process_tcp_write_req, after it.
LEMMA WrittenStep ==
  ASSUME IInv, Written
  PROVE  IInv' /\ Unseen
<1> USE DEF IInv
<1>1. PICK t : t = [s EXCEPT !.writes = @ - 1]
  OBVIOUS
<1>2. /\ UNCHANGED <<type, use, completed, batch, acceptVars, cb, reads, asked>>
      /\ at = "written" /\ at' = "finish"
      /\ s' \in {t, WantEndgame(t)}
  BY <1>1 DEF Written
<1>3. /\ t \in Handles /\ t.flags = s.flags /\ t.activecnt = s.activecnt
      /\ t.active_reqs = s.active_reqs /\ t.active_handles = s.active_handles
      /\ t.reqs_pending = s.reqs_pending /\ t.writes = s.writes - 1
      /\ t.shutdown_req = s.shutdown_req /\ t.iocp = s.iocp
      /\ t.pending = s.pending
  <2>1. s \in Handles /\ s.writes - 1 \in Int
    BY DEF Typed, Handles
  <2>2. t \in Handles
    BY <1>1, <2>1 DEF Handles
  <2> QED
    BY <1>1, <2>1, <2>2 DEF Handles
<1>4. Half(t)
  BY <1>3 DEF Half
<1>5. {"ENDGAME_QUEUED"} \in SUBSET PlainFlags
  BY DEF PlainFlags, Flags
<1>6. /\ s' \in Handles /\ Half(s')
      /\ s'.flags \subseteq s.flags \cup {"ENDGAME_QUEUED"} /\ s.flags \subseteq s'.flags
      /\ s'.activecnt = s.activecnt /\ s'.active_reqs = s.active_reqs
      /\ s'.reqs_pending = s.reqs_pending /\ s'.writes = s.writes - 1
      /\ s'.shutdown_req = s.shutdown_req /\ s'.iocp = s.iocp
      /\ s'.pending = s.pending
  BY <1>2, <1>3, <1>4, <1>5, SetIs DEF WantEndgame, Alike
<1>7. PlaceInv' /\ InFlight' = InFlight /\ Stack' = Stack
  BY <1>2, <1>6, PlaceSame DEF acceptVars
<1>8. Typed'
  BY <1>2, <1>6 DEF Typed, acceptVars
<1>9. ReadInv' /\ OtherInv'
  BY <1>2, <1>6, <1>7 DEF ReadInv, OtherInv
<1>10. "CLOSED" \notin s.flags
  BY <1>2, CountsAre DEF FlagInv, CountInv, InProcess, Count
<1>11. FlagInv'
  BY <1>2, <1>6, <1>10 DEF FlagInv
<1>12. CountInv'
  <2>1. \A x \in {"READING", "LISTENING", "CONNECTING"} : Has(s', x) = Has(s, x)
    BY <1>6 DEF Has, Count
  <2>2. /\ Count(InProcess) = 1 /\ Count(InProcess)' = 1
        /\ Count(at = "written") = 1 /\ Count(at = "written")' = 0
        /\ Count(s.shutdown_req /\ at # "shut")' = Count(s.shutdown_req /\ at # "shut")
        /\ Count(s.shutdown_req)' = Count(s.shutdown_req)
    BY <1>2, <1>6 DEF Count, InProcess
  <2> QED
    BY <1>6, <1>7, <2>1, <2>2, CountsAre DEF CountInv
<1>13. Unseen
  BY <1>2, <1>6, <1>7, DueSame DEF Unseen, Due
<1> QED
  BY <1>6, <1>7, <1>8, <1>9, <1>11, <1>12, <1>13

\* uv_process_tcp_connect_req: CONNECTING excludes a shutdown, so that a
\* connection opened for writing has none.
LEMMA ProcessConnectStep ==
  ASSUME IInv, ProcessConnect
  PROVE  IInv' /\ Contract!Answer("connect")
<1> USE DEF IInv
<1> DEFINE C == {"CONNECTION", "READABLE", "WRITABLE"}
<1>1. PICK u : u = Unregister(s)
  OBVIOUS
<1>2. PICK t : t = Clear(u, {"CONNECTING"})
  OBVIOUS
<1>3. /\ UNCHANGED <<type, use, completed, acceptVars, reads, asked>>
      /\ Next_req("connect") /\ at = "reqs" /\ at' = "finish" /\ cb' = "connect"
      /\ s' = t \/ ("CLOSING" \notin t.flags /\ s' = Set(t, C))
  BY <1>1, <1>2 DEF ProcessConnect, Next_req
<1>4. /\ "connect" \in InFlight /\ "CONNECTING" \in s.flags
      /\ "CONNECTION" \notin s.flags /\ ~s.shutdown_req
      /\ s.activecnt \in Nat \ {0}
  BY <1>3, TakeIs, CountsAre DEF OtherInv, FlagInv
<1>5. /\ u \in Handles /\ Half(u)
      /\ u.flags \subseteq s.flags /\ s.flags \subseteq u.flags \cup {"ACTIVE"}
      /\ u.activecnt = s.activecnt - 1 /\ u.active_reqs = s.active_reqs - 1
      /\ u.reqs_pending = s.reqs_pending /\ u.writes = s.writes
      /\ u.shutdown_req = s.shutdown_req /\ u.iocp = s.iocp
      /\ u.pending = s.pending
  BY <1>1, <1>4, UnregisterIs DEF Typed
<1>6. {"CONNECTING"} \in SUBSET PlainFlags /\ C \in SUBSET PlainFlags
  BY DEF PlainFlags, Flags
<1>7. /\ Alike(u, t) /\ t.flags = u.flags \ {"CONNECTING"}
      /\ t.activecnt = u.activecnt /\ Half(t)
  BY <1>2, <1>5, <1>6, ClearIs
<1>8. /\ Alike(t, s') /\ s'.activecnt = t.activecnt /\ Half(s')
      /\ \/ s'.flags = t.flags
         \/ "CLOSING" \notin t.flags /\ s'.flags = t.flags \cup C
  <2>1. CASE s' = t
    BY <1>7, <2>1 DEF Alike
  <2>2. CASE "CLOSING" \notin t.flags /\ s' = Set(t, C)
    <3>1. t \in Handles
      BY <1>7 DEF Alike
    <3> QED
      BY <1>6, <1>7, <2>2, <3>1, SetIs
  <2> QED
    BY <1>3, <2>1, <2>2
<1>9. /\ s' \in Handles
      /\ s'.activecnt = s.activecnt - 1 /\ s'.active_reqs = s.active_reqs - 1
      /\ s'.reqs_pending = s.reqs_pending /\ s'.writes = s.writes
      /\ s'.shutdown_req = s.shutdown_req /\ s'.iocp = s.iocp
      /\ s'.pending = s.pending
  BY <1>5, <1>7, <1>8 DEF Alike
<1>10. /\ OneEach(s.iocp, Queue)'
       /\ batch' \in Seq(Entries) /\ InFlight' = InFlight \ {"connect"}
       /\ Cardinality(InFlight)' = Cardinality(InFlight) - 1
       /\ WritesIn(InFlight)' = WritesIn(InFlight) - Count("connect" \in Writes)
  BY <1>3, <1>9, TakeStep
<1>11. Typed'
  BY <1>3, <1>9, <1>10 DEF Typed, acceptVars
<1>12. PlaceInv' /\ Stack' = Stack
  BY <1>3, <1>10, PlaceLess DEF acceptVars
<1>13. ReadInv'
  BY <1>3, <1>5, <1>7, <1>8, <1>10 DEF ReadInv
<1>14. OtherInv'
  BY <1>3, <1>5, <1>7, <1>8, <1>10, <1>12, SocketAssumption DEF OtherInv
<1>15. FlagInv'
  BY <1>3, <1>4, <1>5, <1>7, <1>8, <1>9 DEF FlagInv
<1>16. CountInv'
  <2>1. /\ Has(s', "READING") = Has(s, "READING")
        /\ Has(s', "LISTENING") = Has(s, "LISTENING")
        /\ Has(s', "CONNECTING") = 0 /\ Has(s, "CONNECTING") = 1
        /\ Has(s, "READING") \in Int /\ Has(s, "LISTENING") \in Int
    BY <1>4, <1>5, <1>7, <1>8 DEF Has, Count
  <2>2. /\ Count(InProcess) = 0 /\ Count(InProcess)' = 1
        /\ Count(at = "written") = 0 /\ Count(at = "written")' = 0
        /\ Count(s.shutdown_req /\ at # "shut")' = 0
        /\ Count(s.shutdown_req /\ at # "shut") = 0
        /\ Count(s.shutdown_req)' = 0 /\ Count(s.shutdown_req) = 0
    BY <1>3, <1>4, <1>9 DEF Count, InProcess
  <2>3. WritesIn(InFlight)' = WritesIn(InFlight)
    <3>1. Count("connect" \in Writes) = 0
      BY SocketAssumption DEF Count
    <3> QED
      BY <1>10, <3>1, CountsAre
  <2> QED
    BY <1>9, <1>10, <2>1, <2>2, <2>3, CountsAre DEF CountInv
<1>17. Contract!Answer("connect")
  <2>1. DueReqs' = DueReqs \ {"connect"} /\ "connect" \in DueReqs
    BY <1>3, <1>4, <1>9, <1>10 DEF DueReqs
  <2> QED
    BY <1>3, <1>5, <1>7, <1>8, <2>1 DEF Contract!Answer
<1> QED
  BY <1>8, <1>9, <1>11, <1>12, <1>13, <1>14, <1>15, <1>16, <1>17

\* uv_process_tcp_accept_req has three outcomes: a connection is offered; or the
\* request could not be queued, and the listener gives up; or the connection was
\* lost.  The first.
LEMMA OfferStep ==
  ASSUME IInv, NEW r \in Accepts, ProcessAccept(r),
         r \in accept_socket, pending_accepts' = <<r>> \o pending_accepts,
         UNCHANGED <<s, accept_socket>>, cb' = "connection"
  PROVE  IInv' /\ Unseen
<1> USE DEF IInv
<1>1. /\ UNCHANGED <<type, use, completed, reads, asked>>
      /\ Next_req(r) /\ at = "reqs" /\ at' = "finish"
  BY DEF ProcessAccept, Next_req
<1>2. s' \in Handles /\ s \in Handles /\ r # "read" /\ r # "connect" /\ r \notin Writes
  BY SocketAssumption DEF Typed
<1>3. /\ OneEach(s.iocp, Queue)' /\ r \in InFlight
      /\ batch' \in Seq(Entries) /\ InFlight' = InFlight \ {r}
      /\ Cardinality(InFlight)' = Cardinality(InFlight) - 1
      /\ WritesIn(InFlight)' = WritesIn(InFlight) - Count(r \in Writes)
  BY <1>1, <1>2, TakeStep
<1>4. StackDistinct' /\ Stack' = Stack \cup {r}
  BY <1>3, StackPush DEF Typed, PlaceInv, StackDistinct
<1>5. pending_accepts' \in Seq(Accepts)
  BY DEF Typed
<1>6. Typed'
  BY <1>1, <1>3, <1>5 DEF Typed
<1>7. PlaceInv'
  BY <1>1, <1>3, <1>4 DEF PlaceInv, StackDistinct
<1>8. ReadInv' /\ FlagInv' /\ Half(s')
  BY <1>1, <1>2, <1>3 DEF ReadInv, FlagInv
<1>9. OtherInv'
  BY <1>1, <1>2, <1>3, <1>4 DEF OtherInv
<1>10. CountInv'
  <2>1. Count(r \in Writes) = 0
    BY <1>2 DEF Count
  <2>2. /\ Count(InProcess) = 0 /\ Count(InProcess)' = 1
        /\ Count(at = "written") = 0 /\ Count(at = "written")' = 0
        /\ Count(s.shutdown_req /\ at # "shut")' = Count(s.shutdown_req /\ at # "shut")
        /\ Count(s.shutdown_req)' = Count(s.shutdown_req)
        /\ Count(s.shutdown_req) \in Int
    BY <1>1 DEF Count, InProcess
  <2> QED
    BY <1>3, <2>1, <2>2, CountsAre DEF CountInv
<1>11. Unseen
  BY <1>1, <1>2, <1>3, DueSame DEF Unseen, Due
<1> QED
  BY <1>6, <1>7, <1>8, <1>9, <1>10, <1>11

\* The second.
LEMMA GiveUpStep ==
  ASSUME IInv, NEW r \in Accepts, ProcessAccept(r),
         s' = StopListening(s), UNCHANGED acceptVars
  PROVE  IInv' /\ Unseen
<1> USE DEF IInv
<1>1. /\ UNCHANGED <<type, use, completed, reads, asked, acceptVars>>
      /\ Next_req(r) /\ at = "reqs" /\ at' = "finish"
      /\ cb' \in {"none", "connection"}
  BY DEF ProcessAccept, Next_req
<1>2. r # "read" /\ r # "connect" /\ r \notin Writes
  BY SocketAssumption
<1>3. Stops("LISTENING", s, s')
  BY StopIs, CountsAre DEF Typed, StopListening
<1>4. /\ s' \in Handles /\ Half(s')
      /\ s'.flags \subseteq s.flags \ {"LISTENING"}
      /\ s.flags \subseteq s'.flags \cup {"ACTIVE", "LISTENING"}
      /\ s'.activecnt = s.activecnt - Has(s, "LISTENING")
      /\ s'.reqs_pending = s.reqs_pending /\ s'.writes = s.writes
      /\ s'.shutdown_req = s.shutdown_req /\ s'.iocp = s.iocp
      /\ s'.pending = s.pending /\ s'.active_reqs = s.active_reqs
  BY <1>3 DEF Stops, Alike
<1>5. /\ OneEach(s.iocp, Queue)' /\ r \in InFlight
      /\ batch' \in Seq(Entries) /\ InFlight' = InFlight \ {r}
      /\ Cardinality(InFlight)' = Cardinality(InFlight) - 1
      /\ WritesIn(InFlight)' = WritesIn(InFlight) - Count(r \in Writes)
  BY <1>1, <1>4, TakeStep
<1>6. Typed'
  BY <1>1, <1>4, <1>5 DEF Typed, acceptVars
<1>7. PlaceInv' /\ Stack' = Stack
  BY <1>1, <1>5, PlaceLess DEF acceptVars
<1>8. ReadInv' /\ OtherInv'
  BY <1>1, <1>2, <1>4, <1>5, <1>7 DEF ReadInv, OtherInv
<1>9. FlagInv'
  BY <1>1, <1>4 DEF FlagInv
<1>10. CountInv'
  <2>1. /\ Has(s', "READING") = Has(s, "READING")
        /\ Has(s', "LISTENING") = 0
        /\ Has(s', "CONNECTING") = Has(s, "CONNECTING")
        /\ Has(s, "LISTENING") \in Int /\ Has(s, "READING") \in Int
        /\ Count(r \in Writes) = 0
    BY <1>2, <1>4 DEF Has, Count
  <2>2. /\ Count(InProcess) = 0 /\ Count(InProcess)' = 1
        /\ Count(at = "written") = 0 /\ Count(at = "written")' = 0
        /\ Count(s.shutdown_req /\ at # "shut")' = Count(s.shutdown_req /\ at # "shut")
        /\ Count(s.shutdown_req)' = Count(s.shutdown_req)
        /\ Count(s.shutdown_req) \in Int
    BY <1>1, <1>4 DEF Count, InProcess
  <2>3. WritesIn(InFlight)' = WritesIn(InFlight)
    BY <1>5, <2>1, CountsAre
  <2>4. s'.reqs_pending = Cardinality(InFlight)' + Count(s.shutdown_req)'
                            + Count(InProcess)'
    BY <1>4, <1>5, <2>2, CountsAre DEF CountInv
  <2>5. /\ s'.writes = WritesIn(InFlight)' + Count(at = "written")'
        /\ s'.active_reqs = WritesIn(InFlight)' + Has(s', "CONNECTING")
                              + Count(s.shutdown_req /\ at # "shut")'
    BY <1>4, <2>1, <2>2, <2>3 DEF CountInv
  <2>6. s'.activecnt = Has(s', "READING") + Has(s', "LISTENING") + s'.active_reqs
    BY <1>4, <2>1, CountsAre DEF CountInv
  <2> QED
    BY <2>4, <2>5, <2>6 DEF CountInv
<1>11. Unseen
  BY <1>1, <1>2, <1>4, <1>5, DueSame DEF Unseen, Due
<1> QED
  BY <1>4, <1>6, <1>7, <1>8, <1>9, <1>10, <1>11

\* The third, while the handle listens: the request is queued again.
LEMMA LostStep ==
  ASSUME IInv, NEW r \in Accepts, ProcessAccept(r), "LISTENING" \in s.flags,
         QueueAccept(s, r), UNCHANGED <<pending_accepts, cb>>
  PROVE  IInv' /\ Unseen
<1> USE DEF IInv
<1>1. /\ UNCHANGED <<type, use, completed, reads, asked>>
      /\ Next_req(r) /\ at = "reqs" /\ at' = "finish"
  BY DEF ProcessAccept, Next_req
<1>2. /\ s' \in Started(s, r) \cup Refused(s, r)
      /\ accept_socket' \subseteq accept_socket \cup {r}
  BY DEF QueueAccept
<1>3. s \in Handles /\ r \in Reqs
  BY DEF Typed, Reqs
<1>4. /\ s' \in Handles /\ Half(s') /\ s'.flags = s.flags
      /\ s'.activecnt = s.activecnt /\ s'.active_reqs = s.active_reqs
      /\ s'.reqs_pending = s.reqs_pending + 1 /\ s'.writes = s.writes
      /\ s'.shutdown_req = s.shutdown_req
  BY <1>2, <1>3, StartedIs
<1>5. /\ OneEach(s.iocp, Queue)' /\ r \in InFlight
      /\ batch' \in Seq(Entries) /\ InFlight' = InFlight
  BY <1>1, <1>2, <1>3, TakeLaunchStep
<1>6. Typed'
  BY <1>1, <1>2, <1>4, <1>5 DEF Typed
<1>7. PlaceInv' /\ Stack' = Stack
  BY <1>1, <1>5, PlaceLess
<1>8. ReadInv' /\ OtherInv'
  BY <1>1, <1>4, <1>5, <1>7 DEF ReadInv, OtherInv
<1>9. FlagInv'
  BY <1>1, <1>4 DEF FlagInv
<1>10. CountInv'
  <2>1. \A f : Has(s', f) = Has(s, f)
    BY <1>4 DEF Has
  <2>2. /\ Count(InProcess) = 0 /\ Count(InProcess)' = 1
        /\ Count(at = "written") = 0 /\ Count(at = "written")' = 0
        /\ Count(s.shutdown_req /\ at # "shut")' = Count(s.shutdown_req /\ at # "shut")
        /\ Count(s.shutdown_req)' = Count(s.shutdown_req)
        /\ Count(s.shutdown_req) \in Int
    BY <1>1, <1>4 DEF Count, InProcess
  <2> QED
    BY <1>4, <1>5, <2>1, <2>2, CountsAre DEF CountInv
<1>11. Unseen
  BY <1>1, <1>4, <1>5, DueSame DEF Unseen, Due
<1> QED
  BY <1>4, <1>6, <1>7, <1>8, <1>9, <1>10, <1>11

\* ... and while it does not: the request has ended.
LEMMA DroppedStep ==
  ASSUME IInv, NEW r \in Accepts, ProcessAccept(r), "LISTENING" \notin s.flags,
         accept_socket' = accept_socket \ {r}, UNCHANGED <<s, pending_accepts, cb>>
  PROVE  IInv' /\ Unseen
<1> USE DEF IInv
<1>1. /\ UNCHANGED <<type, use, completed, reads, asked>>
      /\ Next_req(r) /\ at = "reqs" /\ at' = "finish"
  BY DEF ProcessAccept, Next_req
<1>2. s' \in Handles /\ s \in Handles /\ r # "read" /\ r # "connect" /\ r \notin Writes
  BY SocketAssumption DEF Typed
<1>3. /\ OneEach(s.iocp, Queue)' /\ r \in InFlight
      /\ batch' \in Seq(Entries) /\ InFlight' = InFlight \ {r}
      /\ Cardinality(InFlight)' = Cardinality(InFlight) - 1
      /\ WritesIn(InFlight)' = WritesIn(InFlight) - Count(r \in Writes)
  BY <1>1, <1>2, TakeStep
<1>4. Typed'
  BY <1>1, <1>3 DEF Typed
<1>5. PlaceInv' /\ Stack' = Stack
  BY <1>1, <1>3, PlaceLess
<1>6. ReadInv' /\ OtherInv' /\ FlagInv' /\ Half(s')
  BY <1>1, <1>2, <1>3, <1>5 DEF ReadInv, OtherInv, FlagInv
<1>7. CountInv'
  <2>1. Count(r \in Writes) = 0
    BY <1>2 DEF Count
  <2>2. /\ Count(InProcess) = 0 /\ Count(InProcess)' = 1
        /\ Count(at = "written") = 0 /\ Count(at = "written")' = 0
        /\ Count(s.shutdown_req /\ at # "shut")' = Count(s.shutdown_req /\ at # "shut")
        /\ Count(s.shutdown_req)' = Count(s.shutdown_req)
        /\ Count(s.shutdown_req) \in Int
    BY <1>1 DEF Count, InProcess
  <2> QED
    BY <1>3, <2>1, <2>2, CountsAre DEF CountInv
<1>8. Unseen
  BY <1>1, <1>2, <1>3, DueSame DEF Unseen, Due
<1> QED
  BY <1>4, <1>5, <1>6, <1>7, <1>8

\* All of them.
LEMMA ProcessAcceptStep ==
  ASSUME IInv, NEW r \in Accepts, ProcessAccept(r)
  PROVE  IInv' /\ Unseen
<1>1. CASE /\ r \in accept_socket /\ pending_accepts' = <<r>> \o pending_accepts
           /\ UNCHANGED <<s, accept_socket>> /\ cb' = "connection"
  BY <1>1, OfferStep
<1>2. CASE s' = StopListening(s) /\ UNCHANGED acceptVars
  BY <1>2, GiveUpStep
<1>3. CASE "LISTENING" \in s.flags /\ QueueAccept(s, r)
             /\ UNCHANGED <<pending_accepts, cb>>
  BY <1>3, LostStep
<1>4. CASE /\ "LISTENING" \notin s.flags /\ accept_socket' = accept_socket \ {r}
           /\ UNCHANGED <<s, pending_accepts, cb>>
  BY <1>4, DroppedStep
<1> QED
  BY <1>1, <1>2, <1>3, <1>4 DEF ProcessAccept

\* DECREASE_PENDING_REQ_COUNT
LEMMA DecreasePendingIs ==
  ASSUME NEW t \in Handles, Half(t)
  PROVE  LET u == DecreasePending(t)
         IN /\ u \in Handles /\ Half(u)
            /\ u.flags \subseteq t.flags \cup {"ENDGAME_QUEUED"} /\ t.flags \subseteq u.flags
            /\ u.reqs_pending = t.reqs_pending - 1
            /\ u.activecnt = t.activecnt /\ u.active_reqs = t.active_reqs
            /\ u.writes = t.writes /\ u.shutdown_req = t.shutdown_req
            /\ u.iocp = t.iocp /\ u.pending = t.pending
<1>1. PICK v : v = [t EXCEPT !.reqs_pending = @ - 1]
  OBVIOUS
<1>2. PICK u : u = DecreasePending(t)
  OBVIOUS
<1>3. u \in {v, WantEndgame(v)}
  BY <1>1, <1>2 DEF DecreasePending
<1>4. /\ v \in Handles /\ v.flags = t.flags /\ v.activecnt = t.activecnt
      /\ v.active_reqs = t.active_reqs /\ v.active_handles = t.active_handles
      /\ v.reqs_pending = t.reqs_pending - 1 /\ v.writes = t.writes
      /\ v.shutdown_req = t.shutdown_req /\ v.iocp = t.iocp
      /\ v.pending = t.pending
  <2>1. t.reqs_pending - 1 \in Int
    BY DEF Handles
  <2>2. v \in Handles
    BY <1>1, <2>1 DEF Handles
  <2> QED
    BY <1>1, <2>2 DEF Handles
<1>5. Half(v)
  BY <1>4 DEF Half
<1>6. {"ENDGAME_QUEUED"} \in SUBSET PlainFlags
  BY DEF PlainFlags, Flags
<1>7. CASE u = v
  BY <1>2, <1>4, <1>5, <1>7
<1>8. CASE u = WantEndgame(v)
  BY <1>2, <1>4, <1>5, <1>6, <1>8, SetIs DEF WantEndgame, Alike
<1> QED
  BY <1>3, <1>7, <1>8

\* What was processed is counted no longer.
LEMMA FinishStep ==
  ASSUME IInv, Finish
  PROVE  IInv' /\ Unseen
<1> USE DEF IInv
<1>1. /\ UNCHANGED <<type, use, completed, batch, acceptVars, cb, reads, asked>>
      /\ at = "finish" /\ at' = "reqs" /\ s' = DecreasePending(s)
  BY DEF Finish
<1>2. /\ s' \in Handles /\ Half(s')
      /\ s'.flags \subseteq s.flags \cup {"ENDGAME_QUEUED"} /\ s.flags \subseteq s'.flags
      /\ s'.reqs_pending = s.reqs_pending - 1
      /\ s'.activecnt = s.activecnt /\ s'.active_reqs = s.active_reqs
      /\ s'.writes = s.writes /\ s'.shutdown_req = s.shutdown_req
      /\ s'.iocp = s.iocp /\ s'.pending = s.pending
  BY <1>1, DecreasePendingIs DEF Typed
<1>3. PlaceInv' /\ InFlight' = InFlight /\ Stack' = Stack
  BY <1>1, <1>2, PlaceSame DEF acceptVars
<1>4. Typed'
  BY <1>1, <1>2 DEF Typed, acceptVars
<1>5. ReadInv' /\ OtherInv'
  BY <1>1, <1>2, <1>3 DEF ReadInv, OtherInv
<1>6. "CLOSED" \notin s.flags
  BY <1>1, CountsAre DEF FlagInv, CountInv, InProcess, Count
<1>7. FlagInv'
  BY <1>1, <1>2, <1>6 DEF FlagInv
<1>8. CountInv'
  <2>1. \A x \in {"READING", "LISTENING", "CONNECTING"} : Has(s', x) = Has(s, x)
    BY <1>2 DEF Has, Count
  <2>2. /\ Count(InProcess) = 1 /\ Count(InProcess)' = 0
        /\ Count(at = "written") = 0 /\ Count(at = "written")' = 0
        /\ Count(s.shutdown_req /\ at # "shut")' = Count(s.shutdown_req /\ at # "shut")
        /\ Count(s.shutdown_req)' = Count(s.shutdown_req)
        /\ Count(s.shutdown_req) \in Int
    BY <1>1, <1>2 DEF Count, InProcess
  <2> QED
    BY <1>2, <1>3, <2>1, <2>2, CountsAre DEF CountInv
<1>9. Unseen
  BY <1>1, <1>2, <1>3, DueSame DEF Unseen, Due
<1> QED
  BY <1>2, <1>3, <1>4, <1>5, <1>7, <1>8, <1>9

\* uv_tcp_endgame answers the shutdown when no write is left.
LEMMA ShutdownEndgameStep ==
  ASSUME IInv, ShutdownEndgame
  PROVE  IInv' /\ Contract!Answer("shutdown")
<1> USE DEF IInv
<1>1. PICK t : t = Clear(s, {"ENDGAME_QUEUED"})
  OBVIOUS
<1>2. /\ UNCHANGED <<type, use, completed, batch, acceptVars, reads, asked>>
      /\ at = "endgames" /\ at' = "shut" /\ cb' = "shutdown" /\ s.shutdown_req
      /\ s' = Unregister(t)
  BY <1>1 DEF ShutdownEndgame, Endgame, ShutdownReady, ShutdownAtOnce
<1>3. {"ENDGAME_QUEUED"} \in SUBSET PlainFlags
  BY DEF PlainFlags, Flags
<1>4. /\ Alike(s, t) /\ t.flags = s.flags \ {"ENDGAME_QUEUED"}
      /\ t.activecnt = s.activecnt /\ Half(t)
  BY <1>1, <1>3, ClearIs DEF Typed
<1>5. t \in Handles /\ t.activecnt \in Nat \ {0}
  BY <1>2, <1>4, CountsAre DEF Alike
<1>6. /\ s' \in Handles /\ Half(s')
      /\ s'.flags \subseteq s.flags \ {"ENDGAME_QUEUED"}
      /\ s.flags \subseteq s'.flags \cup {"ACTIVE", "ENDGAME_QUEUED"}
      /\ s'.activecnt = s.activecnt - 1 /\ s'.active_reqs = s.active_reqs - 1
      /\ s'.reqs_pending = s.reqs_pending /\ s'.writes = s.writes
      /\ s'.shutdown_req = s.shutdown_req /\ s'.iocp = s.iocp
      /\ s'.pending = s.pending
  <2>1. /\ s' \in Handles /\ Half(s')
        /\ s'.flags \subseteq t.flags /\ t.flags \subseteq s'.flags \cup {"ACTIVE"}
        /\ s'.activecnt = t.activecnt - 1 /\ s'.active_reqs = t.active_reqs - 1
        /\ s'.reqs_pending = t.reqs_pending /\ s'.writes = t.writes
        /\ s'.shutdown_req = t.shutdown_req /\ s'.iocp = t.iocp
        /\ s'.pending = t.pending
    BY <1>2, <1>4, <1>5, UnregisterIs
  <2> QED
    BY <1>4, <2>1 DEF Alike
<1>7. PlaceInv' /\ InFlight' = InFlight /\ Stack' = Stack
  BY <1>2, <1>6, PlaceSame DEF acceptVars
<1>8. Typed'
  BY <1>2, <1>6 DEF Typed, acceptVars
<1>9. ReadInv' /\ OtherInv'
  BY <1>2, <1>6, <1>7 DEF ReadInv, OtherInv
<1>10. FlagInv'
  BY <1>2, <1>6 DEF FlagInv
<1>11. CountInv'
  <2>1. /\ \A x \in {"READING", "LISTENING", "CONNECTING"} : Has(s', x) = Has(s, x)
        /\ \A x : Has(s, x) \in Int
    BY <1>6 DEF Has, Count
  <2>2. /\ Count(InProcess) = 0 /\ Count(InProcess)' = 0
        /\ Count(at = "written") = 0 /\ Count(at = "written")' = 0
        /\ Count(s.shutdown_req /\ at # "shut")' = 0
        /\ Count(s.shutdown_req /\ at # "shut") = 1
        /\ Count(s.shutdown_req)' = Count(s.shutdown_req)
    BY <1>2, <1>6 DEF Count, InProcess
  <2> QED
    BY <1>6, <1>7, <2>1, <2>2, CountsAre DEF CountInv
<1>12. Contract!Answer("shutdown")
  <2>1. InFlight \cap Writes = {}
    <3>1. s.writes = 0
      BY DEF ShutdownEndgame, ShutdownReady
    <3>2. WritesIn(InFlight) = 0
      BY <1>2, <3>1, CountsAre DEF CountInv, Count
    <3> QED
      BY <3>2, FlightFinite, FS_EmptySet, FS_Subset DEF WritesIn
  <2>2. "connect" \notin InFlight
    BY <1>2 DEF OtherInv, FlagInv
  <2>3. DueReqs = {"shutdown"} /\ DueReqs' = {}
    BY <1>2, <1>7, <2>1, <2>2 DEF DueReqs
  <2> QED
    BY <1>2, <1>6, <2>3 DEF Contract!Answer
<1> QED
  BY <1>6, <1>7, <1>8, <1>9, <1>10, <1>11, <1>12

\* Then it is counted no longer.
LEMMA ShutdownDoneStep ==
  ASSUME IInv, ShutdownDone
  PROVE  IInv' /\ Unseen
<1> USE DEF IInv
<1>1. PICK t : t = [s EXCEPT !.shutdown_req = FALSE]
  OBVIOUS
<1>2. /\ UNCHANGED <<type, use, completed, batch, acceptVars, cb, reads, asked>>
      /\ at = "shut" /\ at' = "endgames" /\ s' = DecreasePending(t)
  BY <1>1 DEF ShutdownDone
<1>3. /\ t \in Handles /\ t.flags = s.flags /\ t.activecnt = s.activecnt
      /\ t.active_reqs = s.active_reqs /\ t.active_handles = s.active_handles
      /\ t.reqs_pending = s.reqs_pending /\ t.writes = s.writes
      /\ t.shutdown_req = FALSE /\ t.iocp = s.iocp /\ t.pending = s.pending
  BY <1>1 DEF Typed, Handles
<1>4. Half(t)
  BY <1>3 DEF Half
<1>5. /\ s' \in Handles /\ Half(s')
      /\ s'.flags \subseteq s.flags \cup {"ENDGAME_QUEUED"} /\ s.flags \subseteq s'.flags
      /\ s'.reqs_pending = s.reqs_pending - 1
      /\ s'.activecnt = s.activecnt /\ s'.active_reqs = s.active_reqs
      /\ s'.writes = s.writes /\ s'.shutdown_req = FALSE
      /\ s'.iocp = s.iocp /\ s'.pending = s.pending
  BY <1>2, <1>3, <1>4, DecreasePendingIs
<1>6. PlaceInv' /\ InFlight' = InFlight /\ Stack' = Stack
  BY <1>2, <1>5, PlaceSame DEF acceptVars
<1>7. Typed'
  BY <1>2, <1>5 DEF Typed, acceptVars
<1>8. ReadInv' /\ OtherInv'
  BY <1>2, <1>5, <1>6 DEF ReadInv, OtherInv
<1>9. /\ Count(s.shutdown_req) = 1 /\ Count(s.shutdown_req)' = 0
      /\ Count(InProcess) = 0 /\ Count(InProcess)' = 0
      /\ Count(at = "written") = 0 /\ Count(at = "written")' = 0
      /\ Count(s.shutdown_req /\ at # "shut")' = 0
      /\ Count(s.shutdown_req /\ at # "shut") = 0
  BY <1>2, <1>5 DEF FlagInv, Count, InProcess
<1>10. "CLOSED" \notin s.flags
  <2>1. s.reqs_pending = Cardinality(InFlight) + Count(s.shutdown_req)
                           + Count(InProcess)
    BY DEF CountInv
  <2> QED
    BY <1>9, <2>1, CountsAre DEF FlagInv
<1>11. FlagInv'
  BY <1>2, <1>5, <1>10 DEF FlagInv
<1>12. CountInv'
  <2>1. \A x \in {"READING", "LISTENING", "CONNECTING"} : Has(s', x) = Has(s, x)
    BY <1>5 DEF Has, Count
  <2> QED
    BY <1>5, <1>6, <1>9, <2>1, CountsAre DEF CountInv
<1>13. Unseen
  <2>1. DueReqs' = DueReqs
    BY <1>2, <1>5, <1>6 DEF DueReqs
  <2> QED
    BY <1>2, <1>5, <2>1 DEF Unseen
<1> QED
  BY <1>5, <1>6, <1>7, <1>8, <1>11, <1>12, <1>13

\* uv__handle_close
LEMMA HandleCloseIs ==
  ASSUME NEW t \in Handles, Half(t), "CLOSING" \in t.flags, "CLOSED" \notin t.flags
  PROVE  LET u == HandleClose(t)
         IN /\ Alike(t, u) /\ Half(u) /\ u.activecnt = t.activecnt
            /\ u.flags = t.flags \cup {"CLOSED"}
<1>1. PICK u : u = HandleClose(t)
  OBVIOUS
<1>2. u = [t EXCEPT !.flags = @ \cup {"CLOSED"}, !.active_handles = @ - 1]
  BY <1>1 DEF HandleClose, Set, Handles
<1>3. t.active_handles - 1 \in Int /\ t.flags \cup {"CLOSED"} \in SUBSET Flags
  BY DEF Handles, Flags
<1>4. u \in Handles
  BY <1>2, <1>3 DEF Handles
<1>5. /\ u.flags = t.flags \cup {"CLOSED"}
      /\ u.activecnt = t.activecnt /\ u.active_reqs = t.active_reqs
      /\ u.reqs_pending = t.reqs_pending /\ u.writes = t.writes
      /\ u.shutdown_req = t.shutdown_req /\ u.iocp = t.iocp /\ u.pending = t.pending
      /\ u.active_handles = t.active_handles - 1
  BY <1>2, <1>4 DEF Handles
<1>6. Half(u)
  BY <1>5 DEF Half
<1> QED
  BY <1>1, <1>4, <1>5, <1>6 DEF Alike

\* uv_tcp_endgame, uv_udp_endgame: when a closing handle is finished with, no
\* request is left to be answered.
LEMMA CloseEndgameStep ==
  ASSUME IInv, CloseEndgame
  PROVE  IInv' /\ (Unseen \/ Contract!CloseCallback)
<1> USE DEF IInv
<1>1. PICK t : t = Clear(s, {"ENDGAME_QUEUED"})
  OBVIOUS
<1>2. /\ UNCHANGED <<type, use, completed, batch, acceptVars, at, reads, asked>>
      /\ cb' \in {cb, "close"} /\ at = "endgames" /\ "ENDGAME_QUEUED" \in s.flags
      /\ \/ "CLOSING" \in s.flags /\ s.reqs_pending = 0 /\ s' = HandleClose(t)
         \/ s' = t
  BY <1>1 DEF CloseEndgame, Endgame
<1>3. {"ENDGAME_QUEUED"} \in SUBSET PlainFlags /\ "CLOSED" \notin s.flags
  BY <1>2 DEF PlainFlags, Flags, FlagInv
<1>4. /\ Alike(s, t) /\ t.flags = s.flags \ {"ENDGAME_QUEUED"}
      /\ t.activecnt = s.activecnt /\ Half(t)
  BY <1>1, <1>3, ClearIs DEF Typed
<1>5. /\ Alike(t, s') /\ Half(s') /\ s'.activecnt = t.activecnt
      /\ \/ s'.flags = t.flags
         \/ /\ "CLOSING" \in s.flags /\ s.reqs_pending = 0
            /\ s'.flags = t.flags \cup {"CLOSED"}
  <2>1. CASE s' = t
    BY <1>4, <2>1 DEF Alike
  <2>2. CASE "CLOSING" \in s.flags /\ s.reqs_pending = 0 /\ s' = HandleClose(t)
    <3>1. t \in Handles /\ "CLOSING" \in t.flags /\ "CLOSED" \notin t.flags
      BY <1>3, <1>4, <2>2 DEF Alike
    <3> QED
      BY <1>4, <2>2, <3>1, HandleCloseIs
  <2> QED
    BY <1>2, <2>1, <2>2
<1>6. /\ s' \in Handles
      /\ s'.activecnt = s.activecnt /\ s'.active_reqs = s.active_reqs
      /\ s'.reqs_pending = s.reqs_pending /\ s'.writes = s.writes
      /\ s'.shutdown_req = s.shutdown_req /\ s'.iocp = s.iocp
      /\ s'.pending = s.pending
  BY <1>4, <1>5 DEF Alike
<1>7. PlaceInv' /\ InFlight' = InFlight /\ Stack' = Stack
  BY <1>2, <1>6, PlaceSame DEF acceptVars
<1>8. Typed'
  BY <1>2, <1>6 DEF Typed, acceptVars
<1>9. ReadInv' /\ OtherInv'
  BY <1>2, <1>4, <1>5, <1>7 DEF ReadInv, OtherInv
<1>10. FlagInv'
  BY <1>2, <1>3, <1>4, <1>5, <1>6 DEF FlagInv
<1>11. CountInv'
  <2>1. \A x \in {"READING", "LISTENING", "CONNECTING"} : Has(s', x) = Has(s, x)
    BY <1>4, <1>5 DEF Has, Count
  <2> QED
    BY <1>2, <1>6, <1>7, <2>1 DEF CountInv, InProcess, Count
<1>12. (Unseen \/ Contract!CloseCallback)
  <2>1. DueReqs' = DueReqs
    BY <1>2, <1>6, <1>7, DueSame DEF Due
  <2>2. CASE s'.flags = t.flags
    BY <1>2, <1>4, <2>1, <2>2 DEF Unseen
  <2>3. CASE /\ "CLOSING" \in s.flags /\ s.reqs_pending = 0
             /\ s'.flags = t.flags \cup {"CLOSED"}
    <3>1. InFlight = {} /\ ~s.shutdown_req
      <4>1. /\ s.reqs_pending = Cardinality(InFlight) + Count(s.shutdown_req)
                                  + Count(InProcess)
            /\ Count(s.shutdown_req) \in {0, 1} /\ Count(InProcess) \in {0, 1}
        BY DEF CountInv, Count
      <4>2. Count(s.shutdown_req) = 0
        BY <2>3, <4>1, CountsAre
      <4> QED
        BY <2>3, <4>2, CountsAre DEF Count
    <3>2. DueReqs = {}
      BY <3>1 DEF DueReqs
    <3> QED
      BY <1>2, <1>3, <1>4, <2>1, <2>3, <3>2 DEF Contract!CloseCallback
  <2> QED
    BY <1>5, <2>2, <2>3
<1> QED
  BY <1>5, <1>7, <1>8, <1>9, <1>10, <1>11, <1>12

\* A callback returns, or nothing happens.
LEMMA CallbackReturnsStep ==
  ASSUME IInv, UNCHANGED <<type, use, s, completed, batch, acceptVars, at, reads, asked>>,
         cb' \in {cb, "none"}
  PROVE  IInv' /\ Unseen
<1> USE DEF IInv
<1>1. PlaceInv' /\ InFlight' = InFlight /\ Stack' = Stack
  BY PlaceSame DEF acceptVars
<1>2. Typed'
  BY DEF Typed, acceptVars
<1>3. ReadInv' /\ OtherInv' /\ FlagInv' /\ Half(s')
  BY <1>1 DEF ReadInv, OtherInv, FlagInv
<1>4. CountInv'
  BY <1>1 DEF CountInv, InProcess, Count
<1>5. Unseen
  BY <1>1, DueSame DEF Unseen, Due
<1> QED
  BY <1>1, <1>2, <1>3, <1>4, <1>5

-----------------------------------------------------------------------------
(***************************************************************************)
(* The invariant is inductive.                                             *)
(***************************************************************************)
\* The three handles to begin with.
LEMMA InitHandle ==
  ASSUME Init
  PROVE  /\ s \in Handles /\ Half(s) /\ s.writes = 0 /\ s.active_reqs = 0
         /\ s.shutdown_req = FALSE /\ s.pending = <<>>
         /\ s.flags \subseteq {"REF", "ACTIVE", "LISTENING", "CONNECTION",
                               "READABLE", "WRITABLE"}
         /\ s.activecnt = Has(s, "LISTENING")
         /\ s.iocp \subseteq Accepts /\ s.reqs_pending = Cardinality(s.iocp)
         /\ "LISTENING" \in s.flags => s.iocp = Accepts
         /\ "WRITABLE" \in s.flags => "CONNECTION" \in s.flags
<1>1. /\ Fresh \in Handles /\ Half(Fresh)
  BY DEF Fresh, Handles, Flags, Half, Count
<1>2. CASE s = Fresh
  BY <1>1, <1>2, FS_EmptySet DEF Fresh, Has, Count
<1>3. CASE s = Accepted
  <2>1. {"CONNECTION", "READABLE", "WRITABLE"} \in SUBSET PlainFlags
    BY DEF PlainFlags, Flags
  <2>2. /\ Alike(Fresh, s) /\ Half(s) /\ s.activecnt = 0
        /\ s.flags = {"REF", "CONNECTION", "READABLE", "WRITABLE"}
    BY <1>1, <1>3, <2>1, SetIs DEF Accepted, Fresh
  <2> QED
    BY <2>2, FS_EmptySet DEF Fresh, Alike, Has, Count
<1>4. CASE s = Listening
  <2>1. {"LISTENING"} \in SUBSET PlainFlags
    BY DEF PlainFlags, Flags
  <2>2. PICK t : t = Set(Fresh, {"LISTENING"})
    OBVIOUS
  <2>3. /\ Alike(Fresh, t) /\ Half(t) /\ t.activecnt = 0
        /\ t.flags = {"REF", "LISTENING"}
    BY <1>1, <2>1, <2>2, SetIs DEF Fresh
  <2>4. PICK u : u = IncreaseActive(t)
    OBVIOUS
  <2>5. /\ Alike(t, u) /\ Half(u) /\ u.activecnt = 1
        /\ u.flags = {"REF", "LISTENING", "ACTIVE"}
    BY <2>3, <2>4, IncreaseIs DEF Alike
  <2>6. u \in Handles /\ Cardinality(Accepts) \in Int /\ Accepts \in SUBSET Reqs
    BY <2>5, SocketAssumption, FS_CardinalityType DEF Alike, Reqs
  <2>7. s = [u EXCEPT !.iocp = Accepts, !.reqs_pending = Cardinality(Accepts)]
    BY <1>4, <2>2, <2>4 DEF Listening
  <2>8. s \in Handles
    BY <2>6, <2>7 DEF Handles
  <2>9. /\ s.flags = u.flags /\ s.activecnt = u.activecnt /\ s.writes = u.writes
        /\ s.active_reqs = u.active_reqs /\ s.shutdown_req = u.shutdown_req
        /\ s.pending = u.pending /\ s.active_handles = u.active_handles
        /\ s.iocp = Accepts /\ s.reqs_pending = Cardinality(Accepts)
    BY <2>6, <2>7, <2>8 DEF Handles
  <2>10. Half(s)
    BY <2>5, <2>9 DEF Half
  <2>11. /\ s.writes = 0 /\ s.active_reqs = 0 /\ s.shutdown_req = FALSE
         /\ s.pending = <<>>
    BY <2>3, <2>5, <2>9 DEF Fresh, Alike
  <2> QED
    BY <2>5, <2>8, <2>9, <2>10, <2>11 DEF Has, Count
<1> QED
  BY <1>2, <1>3, <1>4 DEF Init

\* The invariant holds to begin with,
LEMMA InitStep ==
  ASSUME Init
  PROVE  IInv
<1>1. /\ type \in Types /\ use \in Uses /\ accept_socket \in {Accepts, {}}
      /\ completed = <<>> /\ batch = <<>> /\ pending_accepts = <<>>
      /\ at = "reqs" /\ cb = "none" /\ reads = 0 /\ asked = {}
  BY DEF Init
<1>2. Typed
  BY <1>1, InitHandle DEF Typed
<1>3. Queue = <<>> /\ ReqsOf(Queue) = {}
  BY <1>1, InitHandle DEF Queue, ReqsOf
<1>4. InFlight = s.iocp
  BY <1>2, <1>3, FlightIs DEF Typed, QueuesTyped
<1>5. InFlight \subseteq Accepts /\ InFlight \cap Writes = {} /\ IsFiniteSet(InFlight)
      /\ "read" \notin InFlight /\ "connect" \notin InFlight
  BY <1>4, InitHandle, SocketAssumption, FS_Subset
<1>6. Stack = {}
  BY <1>1 DEF Stack
<1>7. PlaceInv
  BY <1>1, <1>3, <1>4, <1>5, <1>6 DEF PlaceInv, OneEach, Distinct
<1>8. ReadInv
  BY <1>1, <1>5, InitHandle DEF ReadInv
<1>9. OtherInv
  BY <1>1, <1>4, <1>5, <1>6, InitHandle DEF OtherInv
<1>10. FlagInv
  BY <1>1, InitHandle DEF FlagInv
<1>11. CountInv
  <2>1. Cardinality(InFlight) \in Nat /\ WritesIn(InFlight) = 0
    BY <1>5, FS_CardinalityType, FS_EmptySet DEF WritesIn
  <2>2. /\ Count(s.shutdown_req) = 0 /\ Count(InProcess) = 0
        /\ Count(at = "written") = 0 /\ Has(s, "CONNECTING") = 0
        /\ Has(s, "READING") = 0 /\ Count(s.shutdown_req /\ at # "shut") = 0
        /\ Has(s, "LISTENING") \in Int
    <3>1. /\ s.shutdown_req = FALSE /\ "CONNECTING" \notin s.flags
          /\ "READING" \notin s.flags
      BY InitHandle
    <3> QED
      BY <1>1, <3>1 DEF Count, Has, InProcess
  <2> QED
    BY <1>4, <2>1, <2>2, InitHandle DEF CountInv
<1> QED
  BY <1>2, <1>7, <1>8, <1>9, <1>10, <1>11, InitHandle DEF IInv

\* and is kept by every step.
LEMMA NextStep ==
  ASSUME KeptApart, IInv, [Next]_vars
  PROVE  IInv'
<1>1. CASE Application
  BY <1>1, ReadStartStep, ReadStopStep, WriteStep, ShutdownStep, ConnectStep,
     AcceptStep, CloseStep, RefUnrefStep DEF Application
<1>2. CASE Loop
  <2>1. CASE CallbackReturns
    BY <2>1, CallbackReturnsStep DEF CallbackReturns
  <2>2. CASE TakePending \/ Poll \/ Finish \/ ShutdownEndgame \/ ShutdownDone
               \/ CloseEndgame
    BY <2>2, TakePendingStep, PollStep, FinishStep, ShutdownEndgameStep,
       ShutdownDoneStep, CloseEndgameStep
  <2>3. CASE ProcessRead \/ RecvData \/ RecvEnds \/ RecvStopped \/ ReadDone
               \/ Written \/ ProcessConnect
    BY <2>3, ProcessReadStep, RecvStep, RecvEndsStep, ReadDoneStep, WrittenStep,
       ProcessConnectStep
  <2>4. CASE \/ \E w \in Writes : ProcessWrite(w)
             \/ \E r \in Accepts : ProcessAccept(r)
    BY <2>4, ProcessWriteStep, ProcessAcceptStep
  <2> QED
    BY <1>2, <2>1, <2>2, <2>3, <2>4 DEF Loop
<1>3. CASE \E r \in Reqs : Complete(r)
  BY <1>3, CompleteStep
<1>4. CASE UNCHANGED vars
  BY <1>4, CallbackReturnsStep DEF vars
<1> QED
  BY <1>1, <1>2, <1>3, <1>4 DEF Next

\* The invariant holds in every state that can be reached.
THEOREM Inductive == KeptApart => (Spec => []IInv)
<1> SUFFICES ASSUME KeptApart
             PROVE  Spec => []IInv
  OBVIOUS
<1>1. Init => IInv
  BY InitStep
<1>2. IInv /\ [Next]_vars => IInv'
  BY NextStep
<1> QED
  BY <1>1, <1>2, PTL DEF Spec

-----------------------------------------------------------------------------
(***************************************************************************)
(* What it implies.                                                        *)
(***************************************************************************)
\* The stack has as many requests as entries.
LEMMA StackCount ==
  ASSUME Typed, PlaceInv
  PROVE  Cardinality(Stack) = Len(pending_accepts)
<1>1. Len(pending_accepts) \in Nat
  BY DEF Typed
<1> DEFINE D == 1 .. Len(pending_accepts)
           f == [i \in D |-> pending_accepts[i]]
<1>2. f \in Bijection(D, Stack)
  BY DEF PlaceInv, Stack, Bijection, Injection, Surjection, IsInjective
<1>3. ExistsBijection(D, Stack)
  BY <1>2 DEF ExistsBijection
<1>4. IsFiniteSet(D)
  BY <1>1, FS_Interval
<1> QED
  BY <1>1, <1>3, <1>4, FS_CountingElements, FS_Bijection

\* The invariant counts what Accounted counts: a queue by its positions.
LEMMA InvAccounts ==
  ASSUME IInv
  PROVE  Accounted
<1> USE DEF IInv
<1>1. QueuesTyped
  BY DEF Typed, QueuesTyped
<1>2. /\ Len(Queued) = Len(Queue) /\ QueuedReqs = ReqsOf(Queue)
      /\ InFlight = s.iocp \cup ReqsOf(Queue)
  BY <1>1, FlightIs
<1>3. /\ IsFiniteSet(ReqsOf(Queue)) /\ Cardinality(ReqsOf(Queue)) = Len(Queue)
  BY QueueCount
<1>4. IsFiniteSet(s.iocp) /\ s.iocp \cap ReqsOf(Queue) = {}
  BY DEF PlaceInv, OneEach
<1>5. Cardinality(InFlight) = Cardinality(s.iocp) + Len(Queued)
  <2>1. PICK k, q : k = s.iocp /\ q = ReqsOf(Queue)
    OBVIOUS
  <2>2. IsFiniteSet(k) /\ IsFiniteSet(q) /\ k \cap q = {}
    BY <1>3, <1>4, <2>1
  <2>3. /\ Cardinality(k \cup q) = Cardinality(k) + Cardinality(q) - Cardinality({})
        /\ Cardinality(k) \in Nat /\ Cardinality(q) \in Nat /\ Cardinality({}) = 0
    BY <2>2, FS_Union, FS_CardinalityType, FS_EmptySet
  <2> QED
    BY <1>2, <1>3, <2>1, <2>3
<1>6. TypeOK
  <2>1. /\ s.reqs_pending \in Nat /\ s.activecnt \in Nat /\ s.writes \in Nat
        /\ s.active_reqs \in Nat
    BY CountsAre
  <2>2. s.active_handles \in Nat
    BY DEF Half, Count
  <2>3. /\ s.flags \subseteq Flags /\ s.shutdown_req \in BOOLEAN
        /\ s.iocp \subseteq Reqs /\ s.pending \in Seq(Entries)
    BY DEF Typed, Handles
  <2> QED
    BY <2>1, <2>2, <2>3 DEF TypeOK, Typed, Entries
<1>7. PendingCounted
  BY <1>5 DEF PendingCounted, CountInv
<1>8. OnePlace
  <2>1. Cardinality(Stack) = Len(pending_accepts) /\ Stack \cap InFlight = {}
    BY StackCount DEF PlaceInv
  <2> QED
    BY <1>2, <1>3, <1>4, <2>1 DEF OnePlace, Stack
<1>9. Listens
  BY DEF Listens, ReadInv, OtherInv, Stack
<1> QED
  BY <1>6, <1>7, <1>8, <1>9 DEF Accounted

\* The requests of a handle are accounted for: reqs_pending, on which its end
\* depends, is their number, each is in one place, and none is missing from a
\* handle that reads or listens.
THEOREM HandleAccounted == KeptApart => (Spec => []Accounted)
<1> SUFFICES ASSUME KeptApart
             PROVE  Spec => []Accounted
  OBVIOUS
<1>1. IInv => Accounted
  BY InvAccounts
<1>2. Spec => []IInv
  BY Inductive
<1> QED
  BY <1>1, <1>2, PTL

\* active_handles and active_reqs, which keep the loop alive, by what they count.
LEMMA InvAlive ==
  ASSUME IInv
  PROVE  AliveWhileDue
<1> USE DEF IInv
<1>1. /\ Count(s.shutdown_req /\ at # "shut") \in {0, 1}
      /\ s.shutdown_req /\ at # "shut" <=> Count(s.shutdown_req /\ at # "shut") = 1
      /\ \A f : Has(s, f) \in {0, 1} /\ (f \in s.flags <=> Has(s, f) = 1)
  BY DEF Has, Count
<1>2. WritesIn(InFlight) \in Nat /\ (WritesIn(InFlight) > 0 <=> InFlight \cap Writes # {})
  BY FlightFinite, FS_EmptySet, FS_Subset, FS_CardinalityType DEF WritesIn
<1>3. s.active_reqs = WritesIn(InFlight) + Has(s, "CONNECTING")
                        + Count(s.shutdown_req /\ at # "shut")
  BY DEF CountInv
<1>4. s.active_reqs \in Nat /\ (s.active_reqs > 0 <=>
        \/ InFlight \cap Writes # {} \/ "CONNECTING" \in s.flags
        \/ s.shutdown_req /\ at # "shut")
  BY <1>1, <1>2, <1>3
<1>5. DueReqs # {} <=>
        \/ InFlight \cap Writes # {} \/ "connect" \in InFlight
        \/ s.shutdown_req /\ at # "shut"
  BY DEF DueReqs
<1>6. s.active_reqs > 0 <=> DueReqs # {}
  BY <1>4, <1>5 DEF OtherInv
<1>7. s.activecnt = Has(s, "READING") + Has(s, "LISTENING") + s.active_reqs
  BY DEF CountInv
<1>8. s.activecnt > 0 <=> \/ {"READING", "LISTENING"} \cap s.flags # {}
                          \/ s.active_reqs > 0
  <2>1. s.activecnt > 0 <=> \/ Has(s, "READING") = 1 \/ Has(s, "LISTENING") = 1
                            \/ s.active_reqs > 0
    BY <1>1, <1>4, <1>7
  <2> QED
    BY <1>1, <2>1
<1>9. s.active_handles > 0 <=>
        \/ "CLOSING" \in s.flags /\ "CLOSED" \notin s.flags
        \/ "CLOSING" \notin s.flags /\ "REF" \in s.flags /\ s.activecnt > 0
  BY DEF Half, Count
<1>10. s.flags \cap {"READING", "LISTENING"} # {} => "CLOSING" \notin s.flags
  BY DEF FlagInv
<1> QED
  BY <1>6, <1>8, <1>9, <1>10 DEF AliveWhileDue, LoopAlive

\* uv_run goes on exactly as long as a callback of the handle is due.
THEOREM AliveExactly == KeptApart => (Spec => []AliveWhileDue)
<1> SUFFICES ASSUME KeptApart
             PROVE  Spec => []AliveWhileDue
  OBVIOUS
<1>1. IInv => AliveWhileDue
  BY InvAlive
<1>2. Spec => []IInv
  BY Inductive
<1> QED
  BY <1>1, <1>2, PTL

-----------------------------------------------------------------------------
(***************************************************************************)
(* The handle implements the contract.                                     *)
(***************************************************************************)
\* What the contract says of a request issued or answered ...
LEMMA RequestStep ==
  ASSUME NEW r, Contract!Issue(r) \/ Contract!Answer(r)
  PROVE  Contract!ContractNext
<1>1. r \in DueReqs \cup DueReqs'
  BY DEF Contract!Issue, Contract!Answer
<1> QED
  BY <1>1 DEF Contract!ContractNext

\* ... and so every step of the handle is one of the contract, or none.
LEMMA NextRefines ==
  ASSUME KeptApart, IInv, [Next]_vars
  PROVE  Unseen \/ Contract!ContractNext
<1>1. CASE Application
  <2>1. CASE Accept \/ RefUnref
    BY <2>1, AcceptStep, RefUnrefStep
  <2>2. CASE ReadStart \/ ReadStop \/ Close
    BY <2>2, ReadStartStep, ReadStopStep, CloseStep DEF Contract!ContractNext
  <2>3. CASE Shutdown \/ Connect \/ \E w \in Writes : Write(w)
    BY <2>3, ShutdownStep, ConnectStep, WriteStep, RequestStep
  <2> QED
    BY <1>1, <2>1, <2>2, <2>3 DEF Application
<1>2. CASE Loop
  <2>1. CASE CallbackReturns
    BY <2>1, CallbackReturnsStep DEF CallbackReturns
  <2>2. CASE \/ TakePending \/ Poll \/ ReadDone \/ Written \/ Finish \/ ShutdownDone
             \/ \E r \in Accepts : ProcessAccept(r)
    BY <2>2, TakePendingStep, PollStep, ReadDoneStep, WrittenStep, FinishStep,
       ShutdownDoneStep, ProcessAcceptStep
  <2>3. CASE ProcessRead \/ RecvData \/ RecvStopped \/ RecvEnds \/ CloseEndgame
    BY <2>3, ProcessReadStep, RecvStep, RecvEndsStep, CloseEndgameStep
    DEF Contract!ContractNext
  <2>4. CASE ProcessConnect \/ ShutdownEndgame \/ \E w \in Writes : ProcessWrite(w)
    BY <2>4, ProcessConnectStep, ShutdownEndgameStep, ProcessWriteStep, RequestStep
  <2> QED
    BY <1>2, <2>1, <2>2, <2>3, <2>4 DEF Loop
<1>3. CASE \E r \in Reqs : Complete(r)
  BY <1>3, CompleteStep
<1>4. CASE UNCHANGED vars
  BY <1>4, CallbackReturnsStep DEF vars
<1> QED
  BY <1>1, <1>2, <1>3, <1>4 DEF Next

\* libuv's promises about callbacks are kept: each request is answered once, a
\* shutdown after the writes, data comes only to those who read, and the close
\* callback is the last of all.
THEOREM Refinement == KeptApart => (Spec => ImplementsContract)
<1> SUFFICES ASSUME KeptApart
             PROVE  Spec => ImplementsContract
  OBVIOUS
<1>1. Init => Contract!ContractInit
  <2> SUFFICES ASSUME Init
               PROVE  Contract!ContractInit
    OBVIOUS
  <2>1. IInv /\ at = "reqs" /\ s.shutdown_req = FALSE /\ reads = 0
    BY InitStep, InitHandle DEF Init
  <2>2. /\ "CLOSED" \notin s.flags /\ "CLOSING" \notin s.flags
        /\ "READING" \notin s.flags /\ "CONNECTING" \notin s.flags
    BY InitHandle
  <2>3. InFlight \cap Writes = {} /\ "connect" \notin InFlight
    BY <2>1, <2>2 DEF IInv, OtherInv, Init
  <2>4. DueReqs = {}
    BY <2>1, <2>3 DEF DueReqs
  <2> QED
    BY <2>1, <2>2, <2>4 DEF Contract!ContractInit
<1>2. IInv /\ [Next]_vars =>
        \/ Contract!ContractNext
        \/ UNCHANGED <<IF "CLOSED" \in s.flags THEN "closed"
                       ELSE IF "CLOSING" \in s.flags THEN "closing" ELSE "open",
                       DueReqs, "READING" \in s.flags, reads>>
  BY NextRefines DEF Unseen
<1>3. Spec => []IInv
  BY Inductive
<1> QED
  BY <1>1, <1>2, <1>3, PTL DEF Spec, ImplementsContract, Contract!ContractSpec

=============================================================================
