----------------------------- MODULE TimerHeap -----------------------------
(***************************************************************************)
(* The binary heap of libuv's timers (heap-inl.h), level by level in a     *)
(* sequence: the children of the node at i are at 2i and 2i + 1.  The code *)
(* finds the last node, and the place behind it, by the binary digits of   *)
(* its number, and swaps links where this module swaps places.  key[x] is  *)
(* what timer_less_than reads of a node: its timeout and its start_id.     *)
(***************************************************************************)
EXTENDS Integers, Sequences, FiniteSets

timer_less_than(key, a, b) ==
  \/ key[a][1] < key[b][1]
  \/ key[a][1] = key[b][1] /\ key[a][2] < key[b][2]

At(h, x) == CHOOSE i \in 1 .. Len(h) : h[i] = x

\* heap_node_swap
Swapped(h, i, j) == [h EXCEPT ![i] = h[j], ![j] = h[i]]

\* A walk through the heap: w.i is the place of the node that moves.
Walks(key) == [h : Seq(DOMAIN key), i : Nat]

\* The loop that walks.  No walk takes more turns than there are nodes; those left
\* over find nothing to do.
Walk(turn, h, i) ==
  LET walk[n \in 0 .. Len(h)] ==
        IF n = 0 THEN [h |-> h, i |-> i] ELSE turn[walk[n - 1]]
  IN walk[Len(h)].h

\* The node changes places with its parent as long as it is less.
TurnUp(key) ==
  [w \in Walks(key) |->
    LET parent == w.i \div 2
    IN IF w.i > 1 /\ timer_less_than(key, w.h[w.i], w.h[parent])
       THEN [h |-> Swapped(w.h, w.i, parent), i |-> parent] ELSE w]

WalkUp(h, key, i) == Walk(TurnUp(key), h, i)

\* A node with its children, and the least of them.
Family(h, i) == {i, 2 * i, 2 * i + 1} \cap (1 .. Len(h))
Smallest(h, key, i) ==
  CHOOSE j \in Family(h, i) :
    \A k \in Family(h, i) : ~timer_less_than(key, h[k], h[j])

\* It changes places with the least of its family as long as that is a child.
TurnDown(key) ==
  [w \in Walks(key) |->
    LET least == Smallest(w.h, key, w.i)
    IN [h |-> Swapped(w.h, w.i, least), i |-> least]]

WalkDown(h, key, i) == Walk(TurnDown(key), h, i)

heap_min(h) == h[1]
heap_insert(h, key, x) == WalkUp(Append(h, x), key, Len(h) + 1)

\* The last node takes the place of the removed one, and moves down.
Refilled(h, key, i) ==
  WalkDown([SubSeq(h, 1, Len(h) - 1) EXCEPT ![i] = h[Len(h)]], key, i)

\* Mutant: the last node is taken for the maximum, which needs no way up.
RemoveDownOnly(h, key, x) ==
  IF h[Len(h)] = x THEN SubSeq(h, 1, Len(h) - 1) ELSE Refilled(h, key, At(h, x))

\* It may come from a part of the tree with smaller nodes, and move up.
heap_remove(h, key, x) ==
  IF h[Len(h)] = x THEN SubSeq(h, 1, Len(h) - 1)
  ELSE LET g == Refilled(h, key, At(h, x))
       IN WalkUp(g, key, At(g, h[Len(h)]))

-----------------------------------------------------------------------------
Nodes(h) == {h[i] : i \in 1 .. Len(h)}

\* A heap of just these nodes: each once, no child less than its parent.
IsHeap(h, key, nodes) ==
  /\ Nodes(h) = nodes
  /\ \A i, j \in 1 .. Len(h) : h[i] = h[j] => i = j
  /\ \A i \in 2 .. Len(h) : ~timer_less_than(key, h[i], h[i \div 2])

\* Every heap of some of the nodes: without its last node it is one as well.
Heaps(key) ==
  LET grow[m \in 0 .. Cardinality(DOMAIN key)] ==
        IF m = 0 THEN {<<>>}
        ELSE grow[m - 1] \cup
             {h \in {Append(g, x) : g \in grow[m - 1], x \in DOMAIN key} :
                 IsHeap(h, key, Nodes(h))}
  IN grow[Cardinality(DOMAIN key)]

\* Inserting and removing any node leaves a heap of the right nodes
\* (heap-inl.h: "The usual properties hold").
HeapWorks(key) ==
  \A h \in Heaps(key) :
    /\ \A x \in DOMAIN key \ Nodes(h) :
         IsHeap(heap_insert(h, key, x), key, Nodes(h) \cup {x})
    /\ \A x \in Nodes(h) :
         IsHeap(heap_remove(h, key, x), key, Nodes(h) \ {x})
=============================================================================
