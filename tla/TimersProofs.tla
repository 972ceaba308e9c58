---------------------------- MODULE TimersProofs ----------------------------
(***************************************************************************)
(* Proofs about TimerHeap and Timers.  The heap: whatever its size and     *)
(* whatever the timers' fields, inserting a node and removing one leave a  *)
(* heap of the right nodes.  The timers: the loop's heap holds the active  *)
(* timers in every state, and what runs is what TimerContract allows.      *)
(***************************************************************************)
EXTENDS Timers, TLAPS, FiniteSetTheorems, WellFoundedInduction

(***************************************************************************)
(* What the heap's operators are proved about.                             *)
(***************************************************************************)
\* Keys that can be compared.
Ordered(key) ==
  \A x \in DOMAIN key : key[x][1] \in Int /\ key[x][2] \in Int

\* Not greater.
Le(key, x, y) == ~timer_less_than(key, y, x)

Once(h) == \A i, j \in 1 .. Len(h) : h[i] = h[j] => i = j

\* x is the node that moves, and is at k now.
Moving(key, g, k, nodes, x) ==
  g \in Seq(DOMAIN key) /\ k \in 1 .. Len(g) /\ Nodes(g) = nodes /\ Once(g) /\ g[k] = x

\* A heap but for the node at k, which may be less than its parent or greater
\* than its children; those are not less than its parent either.
HeapBut(key, g, k) ==
  /\ \A j \in 2 .. Len(g) : j # k /\ j \div 2 # k => Le(key, g[j \div 2], g[j])
  /\ k > 1 => \A j \in 2 .. Len(g) : j \div 2 = k => Le(key, g[k \div 2], g[j])

\* Its children are not less than it.
AboveChildren(key, g, k) ==
  \A j \in 2 .. Len(g) : j \div 2 = k => Le(key, g[k], g[j])

\* f is what the recursion over 0 .. N defines.
Solves(f, turn, N, w0) ==
  \A n \in 0 .. N : f[n] = IF n = 0 THEN w0 ELSE turn[f[n - 1]]

\* The walk that Walk takes, turn by turn within Inv.
IsWalk(walk, turn, h, i, Inv) ==
  /\ walk[0] = [h |-> h, i |-> i]
  /\ \A n \in 0 .. Len(h) : walk[n] \in Inv
  /\ \A n \in 1 .. Len(h) : walk[n] = turn[walk[n - 1]]
  /\ Walk(turn, h, i) = walk[Len(h)].h

-----------------------------------------------------------------------------
(***************************************************************************)
(* Induction, and a loop as a recursive function.                          *)
(***************************************************************************)
\* A pair of naturals in the order of their values.
LEMMA LessRel ==
  ASSUME NEW x \in Nat, NEW y \in Nat, x < y
  PROVE  <<x, y>> \in OpToRel(<, Nat)
  BY DEF OpToRel

\* Induction over the naturals, for a set of them.
LEMMA SetInduction ==
  ASSUME NEW T \in SUBSET Nat, 0 \in T, \A n \in T : n + 1 \in T
  PROVE  T = Nat
<1> SUFFICES ASSUME Nat \ T # {} PROVE FALSE
  OBVIOUS
<1>1. PICK x \in Nat \ T : \A y \in Nat \ T : <<y, x>> \notin OpToRel(<, Nat)
  BY NatLessThanWellFounded, WFMin
<1>2. x # 0 /\ x \in Nat
  OBVIOUS
<1>3. x - 1 \in Nat /\ x - 1 < x
  BY <1>2
<1>4. <<x - 1, x>> \in OpToRel(<, Nat)
  BY <1>2, <1>3, LessRel
<1>5. x - 1 \in T
  BY <1>1, <1>3, <1>4
<1> QED
  BY <1>2, <1>5

\* Recursion over the naturals up to N has a solution, whose values stay where every
\* turn stays.
LEMMA Recursion ==
  ASSUME NEW Inv, NEW turn, NEW N \in Nat, NEW w0 \in Inv,
         \A w \in Inv : turn[w] \in Inv
  PROVE  \E f \in [0 .. N -> Inv] : Solves(f, turn, N, w0)
<1> DEFINE Value(f, n) == IF n = 0 THEN w0 ELSE turn[f[n - 1]]
           Done == {k \in Nat : \E f \in [0 .. k -> Inv] :
                                   \A n \in 0 .. k : f[n] = Value(f, n)}
<1>1. 0 \in Done
  <2>1. PICK f : f = [n \in 0 .. 0 |-> w0]
    OBVIOUS
  <2>2. f \in [0 .. 0 -> Inv] /\ \A n \in 0 .. 0 : f[n] = Value(f, n)
    BY <2>1
  <2> QED
    BY <2>2
<1>2. ASSUME NEW k \in Done PROVE k + 1 \in Done
  <2>1. PICK f \in [0 .. k -> Inv] : \A n \in 0 .. k : f[n] = Value(f, n)
    BY <1>2
  <2>2. PICK v \in Inv : v = Value(f, k + 1)
    BY <2>1
  <2>3. PICK g : g = [n \in 0 .. k + 1 |-> IF n = k + 1 THEN v ELSE f[n]]
    OBVIOUS
  <2>4. g \in [0 .. k + 1 -> Inv]
    BY <2>1, <2>2, <2>3
  <2>5. ASSUME NEW n \in 0 .. k + 1 PROVE g[n] = Value(g, n)
    <3>1. CASE n = 0
      BY <2>1, <2>3, <3>1
    <3>2. CASE n # 0
      <4>1. n - 1 \in 0 .. k /\ g[n - 1] = f[n - 1]
        BY <2>3, <3>2
      <4>2. Value(g, n) = Value(f, n)
        BY <4>1
      <4>3. g[n] = Value(f, n)
        BY <2>1, <2>2, <2>3
      <4> QED
        BY <4>2, <4>3
    <3> QED
      BY <3>1, <3>2
  <2>6. k + 1 \in Nat
    OBVIOUS
  <2> QED
    BY <2>4, <2>5, <2>6
<1>3. Done = Nat
  <2> HIDE DEF Done
  <2>1. Done \in SUBSET Nat
    BY DEF Done
  <2> QED
    BY <1>1, <1>2, <2>1, SetInduction
<1> QED
  BY <1>3 DEF Solves

\* The recursion of Walk is well defined, and what every turn keeps holds of all
\* its values.
LEMMA WalkTurns ==
  ASSUME NEW Inv, NEW turn, NEW h, NEW i, Len(h) \in Nat, [h |-> h, i |-> i] \in Inv,
         \A w \in Inv : turn[w] \in Inv
  PROVE  \E walk : IsWalk(walk, turn, h, i, Inv)
<1> PICK N \in Nat : N = Len(h)
  OBVIOUS
<1> PICK w0 \in Inv : w0 = [h |-> h, i |-> i]
  OBVIOUS
<1> DEFINE Value(f, n) == IF n = 0 THEN w0 ELSE turn[f[n - 1]]
<1>3. \E f \in [0 .. N -> Inv] : \A n \in 0 .. N : f[n] = Value(f, n)
  <2>1. \E f \in [0 .. N -> Inv] : Solves(f, turn, N, w0)
    BY Recursion
  <2> QED
    BY <2>1 DEF Solves
<1> DEFINE walk == CHOOSE f : f = [n \in 0 .. N |-> Value(f, n)]
<1>4. walk = [n \in 0 .. N |-> Value(walk, n)]
  <2>1. PICK f \in [0 .. N -> Inv] : \A n \in 0 .. N : f[n] = Value(f, n)
    BY <1>3
  <2>2. f = [n \in 0 .. N |-> Value(f, n)]
    BY <2>1
  <2> HIDE DEF Value
  <2> QED
    BY <2>2
<1> DEFINE Kept == {k \in Nat : k <= N => walk[k] \in Inv}
<1>5. Kept = Nat
  <2> HIDE DEF walk
  <2>1. 0 \in Kept
    BY <1>4
  <2>2. ASSUME NEW k \in Kept PROVE k + 1 \in Kept
    <3> SUFFICES ASSUME k + 1 <= N PROVE walk[k + 1] \in Inv
      OBVIOUS
    <3>1. k + 1 \in 0 .. N /\ k + 1 # 0 /\ k + 1 - 1 = k /\ walk[k] \in Inv
      OBVIOUS
    <3>2. walk[k + 1] = turn[walk[k]]
      BY <1>4, <3>1
    <3> QED
      BY <3>1, <3>2
  <2> HIDE DEF Kept
  <2>3. Kept \in SUBSET Nat
    BY DEF Kept
  <2> QED
    BY <2>1, <2>2, <2>3, SetInduction
<1>6. /\ walk[0] = w0
      /\ \A n \in 0 .. N : walk[n] \in Inv
      /\ \A n \in 1 .. N : walk[n] = turn[walk[n - 1]]
  <2> HIDE DEF walk
  <2>1. walk[0] = w0
    BY <1>4
  <2>2. \A n \in 0 .. N : walk[n] \in Inv
    BY <1>5
  <2>3. \A n \in 1 .. N : walk[n] = turn[walk[n - 1]]
    BY <1>4
  <2> QED
    BY <2>1, <2>2, <2>3
<1>7. Walk(turn, h, i) = walk[Len(h)].h
  BY DEF Walk
<1> HIDE DEF walk
<1> QED
  BY <1>6, <1>7 DEF IsWalk

-----------------------------------------------------------------------------
(***************************************************************************)
(* Order, places, exchange.                                                *)
(***************************************************************************)
\* timer_less_than is a strict order with which any two can be compared.
LEMMA LeOrder ==
  ASSUME NEW key, Ordered(key)
  PROVE  /\ \A x \in DOMAIN key : Le(key, x, x)
         /\ \A x, y \in DOMAIN key : Le(key, x, y) \/ Le(key, y, x)
         /\ \A x, y \in DOMAIN key : timer_less_than(key, x, y) => Le(key, x, y)
         /\ \A x, y, z \in DOMAIN key : Le(key, x, y) /\ Le(key, y, z) => Le(key, x, z)
<1>1. \A x \in DOMAIN key : key[x][1] \in Int /\ key[x][2] \in Int
  BY DEF Ordered
<1>2. \A x \in DOMAIN key : Le(key, x, x)
  BY <1>1 DEF Le, timer_less_than
<1>3. \A x, y \in DOMAIN key : Le(key, x, y) \/ Le(key, y, x)
  BY <1>1 DEF Le, timer_less_than
<1>4. \A x, y \in DOMAIN key : timer_less_than(key, x, y) => Le(key, x, y)
  BY <1>1 DEF Le, timer_less_than
<1>5. \A x, y, z \in DOMAIN key : Le(key, x, y) /\ Le(key, y, z) => Le(key, x, z)
  BY <1>1 DEF Le, timer_less_than
<1> QED
  BY <1>2, <1>3, <1>4, <1>5

\* A node's parent is before it, and has two children.
LEMMA Halves ==
  ASSUME NEW i \in Nat, i > 1
  PROVE  /\ i \div 2 \in Nat /\ i \div 2 >= 1 /\ i \div 2 < i
         /\ \A k \in Nat : i \div 2 = k <=> i = 2 * k \/ i = 2 * k + 1
  OBVIOUS

\* heap_node_swap: two nodes change places, the others stay.
LEMMA SwapIs ==
  ASSUME NEW S, NEW g \in Seq(S), NEW i \in 1 .. Len(g), NEW j \in 1 .. Len(g)
  PROVE  /\ Swapped(g, i, j) \in Seq(S) /\ Len(Swapped(g, i, j)) = Len(g)
         /\ Swapped(g, i, j)[i] = g[j] /\ Swapped(g, i, j)[j] = g[i]
         /\ \A k \in 1 .. Len(g) : k # i /\ k # j => Swapped(g, i, j)[k] = g[k]
         /\ Nodes(Swapped(g, i, j)) = Nodes(g)
         /\ Once(g) => Once(Swapped(g, i, j))
<1> PICK n \in Nat : n = Len(g)
  OBVIOUS
<1>1. PICK f : f = [k \in 1 .. n |-> IF k = j THEN g[i] ELSE IF k = i THEN g[j] ELSE g[k]]
  OBVIOUS
<1>2. f \in [1 .. n -> S]
  BY <1>1
<1>3. f \in Seq(S) /\ Len(f) = n
  BY <1>2
<1>4. Swapped(g, i, j) = f
  <2>1. g \in [1 .. n -> S]
    BY n \in Nat
  <2>2. [g EXCEPT ![i] = g[j], ![j] = g[i]] = f
    BY <1>1, <2>1
  <2> QED
    BY <2>2 DEF Swapped
<1>5. f[i] = g[j] /\ f[j] = g[i] /\ \A k \in 1 .. n : k # i /\ k # j => f[k] = g[k]
  BY <1>1
<1>6. Nodes(f) = Nodes(g)
  BY <1>3, <1>5 DEF Nodes
<1>7. Once(g) => Once(f)
  BY <1>3, <1>5 DEF Once
<1> QED
  BY <1>3, <1>4, <1>5, <1>6, <1>7

-----------------------------------------------------------------------------
(***************************************************************************)
(* One turn of a walk.                                                     *)
(***************************************************************************)
\* On its way up a node that is less than its parent changes places with it.
LEMMA UpTurn ==
  ASSUME NEW key, Ordered(key), NEW nodes, NEW x, NEW g, NEW k, NEW p, NEW s,
         Moving(key, g, k, nodes, x), HeapBut(key, g, k), AboveChildren(key, g, k),
         k > 1, p = k \div 2, timer_less_than(key, g[k], g[p]), s = Swapped(g, k, p)
  PROVE  /\ Moving(key, s, p, nodes, x) /\ HeapBut(key, s, p)
         /\ AboveChildren(key, s, p) /\ Len(s) = Len(g) /\ p < k
<1> PICK n \in Nat : n = Len(g)
  BY DEF Moving
<1>1. g \in Seq(DOMAIN key) /\ k \in 1 .. n
  BY DEF Moving
<1>2. p \in 1 .. n /\ p < k
  BY <1>1, Halves
<1>3. /\ s \in Seq(DOMAIN key) /\ Len(s) = n /\ s[k] = g[p] /\ s[p] = g[k]
      /\ Nodes(s) = Nodes(g) /\ (Once(g) => Once(s))
  <2>1. k \in 1 .. Len(g) /\ p \in 1 .. Len(g)
    BY <1>1, <1>2
  <2>2. s \in Seq(DOMAIN key) /\ Len(s) = n
    BY <1>1, <2>1, SwapIs
  <2>3. s[k] = g[p] /\ s[p] = g[k]
    BY <1>1, <2>1, SwapIs
  <2>4. Nodes(s) = Nodes(g)
    BY <1>1, <2>1, SwapIs
  <2>5. Once(g) => Once(s)
    BY <1>1, <2>1, SwapIs
  <2> QED
    BY <2>2, <2>3, <2>4, <2>5
<1>4. \A i \in 1 .. n : i # k /\ i # p => s[i] = g[i]
  <2>1. k \in 1 .. Len(g) /\ p \in 1 .. Len(g)
    BY <1>1, <1>2
  <2>2. \A i \in 1 .. Len(g) : i # k /\ i # p => Swapped(g, k, p)[i] = g[i]
    BY <1>1, <2>1, SwapIs
  <2> QED
    BY <2>2
<1>5. Moving(key, s, p, nodes, x)
  BY <1>2, <1>3 DEF Moving
<1>6. \A i \in 1 .. n : g[i] \in DOMAIN key
  BY <1>1
<1>7. \A j \in 2 .. n : j # k /\ j \div 2 # k => Le(key, g[j \div 2], g[j])
  BY DEF HeapBut
<1>8. Le(key, g[k], g[p])
  BY <1>1, <1>2, <1>6, LeOrder
<1>9. \A j \in 2 .. n : j \div 2 = p /\ j # k => Le(key, g[p], g[j])
  BY <1>2, <1>7
<1>10. \A j \in 2 .. n : j \div 2 = p => j # p /\ j \in 1 .. n
  BY <1>2
<1>11. ASSUME NEW j \in 2 .. n, j # p, j \div 2 # p PROVE Le(key, s[j \div 2], s[j])
  <2>1. j # k /\ j \div 2 \in 1 .. n /\ j \div 2 < j /\ s[j] = g[j]
    BY <1>2, <1>4, <1>11, Halves
  <2>2. CASE j \div 2 = k
    <3>1. Le(key, g[p], g[j])
      BY <2>2 DEF HeapBut
    <3> QED
      BY <1>3, <2>1, <2>2, <3>1
  <2>3. CASE j \div 2 # k
    <3>1. s[j \div 2] = g[j \div 2]
      BY <1>4, <1>11, <2>1, <2>3
    <3> QED
      BY <1>7, <2>1, <2>3, <3>1
  <2> QED
    BY <2>2, <2>3
<1>12. ASSUME p > 1, NEW j \in 2 .. n, j \div 2 = p PROVE Le(key, s[p \div 2], s[j])
  <2>1. p \div 2 \in 1 .. n /\ p \div 2 < p /\ p \in 2 .. n
    BY <1>2, <1>12, Halves
  <2>2. s[p \div 2] = g[p \div 2] /\ Le(key, g[p \div 2], g[p])
    BY <1>2, <1>4, <1>7, <2>1
  <2>3. CASE j = k
    BY <1>3, <2>2, <2>3
  <2>4. CASE j # k
    <3>1. s[j] = g[j] /\ j \in 1 .. n
      BY <1>4, <1>10, <1>12, <2>4
    <3>2. Le(key, g[p], g[j])
      BY <1>9, <1>12, <2>4
    <3> QED
      BY <1>2, <1>6, <2>1, <2>2, <3>1, <3>2, LeOrder
  <2> QED
    BY <2>3, <2>4
<1>13. ASSUME NEW j \in 2 .. n, j \div 2 = p PROVE Le(key, s[p], s[j])
  <2>1. CASE j = k
    BY <1>3, <1>8, <2>1
  <2>2. CASE j # k
    <3>1. s[j] = g[j] /\ j \in 1 .. n
      BY <1>4, <1>10, <1>13, <2>2
    <3>2. Le(key, g[p], g[j])
      BY <1>9, <1>13, <2>2
    <3> QED
      BY <1>1, <1>2, <1>3, <1>6, <1>8, <3>1, <3>2, LeOrder
  <2> QED
    BY <2>1, <2>2
<1>14. HeapBut(key, s, p)
  BY <1>3, <1>11, <1>12 DEF HeapBut
<1>15. AboveChildren(key, s, p)
  BY <1>3, <1>13 DEF AboveChildren
<1> QED
  BY <1>2, <1>3, <1>5, <1>14, <1>15

\* When it is not less than its parent, or has none, the heap is one.
LEMMA UpEnd ==
  ASSUME NEW key, NEW nodes, NEW x, NEW g, NEW k,
         Moving(key, g, k, nodes, x), HeapBut(key, g, k), AboveChildren(key, g, k),
         k = 1 \/ ~timer_less_than(key, g[k], g[k \div 2])
  PROVE  IsHeap(g, key, nodes)
<1>1. ASSUME NEW j \in 2 .. Len(g) PROVE Le(key, g[j \div 2], g[j])
  <2>1. CASE j = k
    BY <1>1, <2>1 DEF Le
  <2>2. CASE j \div 2 = k
    BY <2>2 DEF AboveChildren
  <2>3. CASE j # k /\ j \div 2 # k
    BY <2>3 DEF HeapBut
  <2> QED
    BY <2>1, <2>2, <2>3
<1> QED
  BY <1>1 DEF IsHeap, Moving, Once, Le

\* Of a node and its children one is the least.
LEMMA SmallestIs ==
  ASSUME NEW key, Ordered(key), NEW g \in Seq(DOMAIN key), NEW k \in 1 .. Len(g)
  PROVE  /\ Smallest(g, key, k) \in Family(g, k)
         /\ \A i \in Family(g, k) : Le(key, g[Smallest(g, key, k)], g[i])
<1> DEFINE Least(j) == j \in Family(g, k) /\ \A i \in Family(g, k) : Le(key, g[j], g[i])
<1>1. \A i \in 1 .. Len(g) : g[i] \in DOMAIN key
  OBVIOUS
<1>2. \A i \in Family(g, k) : i \in 1 .. Len(g) /\ (i = k \/ i = 2 * k \/ i = 2 * k + 1)
  BY DEF Family
<1>3. k \in Family(g, k)
  BY DEF Family
<1>4. \A i, j \in Family(g, k) : Le(key, g[i], g[j]) \/ Le(key, g[j], g[i])
  BY <1>1, <1>2, LeOrder
<1>5. \A i, j, m \in Family(g, k) :
         Le(key, g[i], g[j]) /\ Le(key, g[j], g[m]) => Le(key, g[i], g[m])
  BY <1>1, <1>2, LeOrder
<1>6. \E j : Least(j)
  <2>1. PICK a : a = k
    OBVIOUS
  <2>2. PICK b \in Family(g, k) :
           Le(key, g[b], g[a]) /\ (2 * k \in Family(g, k) => Le(key, g[b], g[2 * k]))
    BY <1>3, <1>4, <2>1
  <2>3. PICK c \in Family(g, k) :
           Le(key, g[c], g[b]) /\ (2 * k + 1 \in Family(g, k) => Le(key, g[c], g[2 * k + 1]))
    BY <1>4
  <2>4. \A i \in Family(g, k) : Le(key, g[c], g[i])
    BY <1>2, <1>3, <1>5, <2>1, <2>2, <2>3
  <2> QED
    BY <2>4
<1>7. Smallest(g, key, k) = CHOOSE j : Least(j)
  <2>1. \A j, i : Le(key, g[j], g[i]) = ~timer_less_than(key, g[i], g[j])
    BY DEF Le
  <2> QED
    BY DEF Smallest, Le
<1> QED
  BY <1>6, <1>7

\* On its way down a node changes places with the least of its children.
LEMMA DownTurn ==
  ASSUME NEW key, Ordered(key), NEW nodes, NEW x, NEW g, NEW k, NEW j, NEW s,
         Moving(key, g, k, nodes, x), HeapBut(key, g, k),
         j = Smallest(g, key, k), j # k, s = Swapped(g, k, j)
  PROVE  /\ Moving(key, s, j, nodes, x) /\ HeapBut(key, s, j)
         /\ Len(s) = Len(g) /\ k < j
<1> PICK n \in Nat : n = Len(g)
  BY DEF Moving
<1>1. g \in Seq(DOMAIN key) /\ k \in 1 .. n
  BY DEF Moving
<1>2. j \in Family(g, k) /\ \A i \in Family(g, k) : Le(key, g[j], g[i])
  BY <1>1, SmallestIs
<1>3. j \in 2 .. n /\ j \div 2 = k /\ k < j
  BY <1>1, <1>2, Halves DEF Family
<1>4. /\ s \in Seq(DOMAIN key) /\ Len(s) = n /\ s[k] = g[j] /\ s[j] = g[k]
      /\ Nodes(s) = Nodes(g) /\ (Once(g) => Once(s))
  <2>1. k \in 1 .. Len(g) /\ j \in 1 .. Len(g)
    BY <1>1, <1>3
  <2>2. s \in Seq(DOMAIN key) /\ Len(s) = n
    BY <1>1, <2>1, SwapIs
  <2>3. s[k] = g[j] /\ s[j] = g[k]
    BY <1>1, <2>1, SwapIs
  <2>4. Nodes(s) = Nodes(g)
    BY <1>1, <2>1, SwapIs
  <2>5. Once(g) => Once(s)
    BY <1>1, <2>1, SwapIs
  <2> QED
    BY <2>2, <2>3, <2>4, <2>5
<1>5. \A i \in 1 .. n : i # k /\ i # j => s[i] = g[i]
  <2>1. k \in 1 .. Len(g) /\ j \in 1 .. Len(g)
    BY <1>1, <1>3
  <2>2. \A i \in 1 .. Len(g) : i # k /\ i # j => Swapped(g, k, j)[i] = g[i]
    BY <1>1, <2>1, SwapIs
  <2> QED
    BY <2>2
<1>6. Moving(key, s, j, nodes, x)
  BY <1>3, <1>4 DEF Moving
<1>7. \A i \in 2 .. n : i # k /\ i \div 2 # k => Le(key, g[i \div 2], g[i])
  BY DEF HeapBut
<1>8. ASSUME NEW i \in 2 .. n, i # j, i \div 2 # j PROVE Le(key, s[i \div 2], s[i])
  <2>1. i \div 2 \in 1 .. n /\ i \div 2 < i
    BY <1>8, Halves
  <2>2. CASE i = k
    <3>1. s[i \div 2] = g[i \div 2]
      BY <1>3, <1>5, <1>8, <2>1, <2>2
    <3>2. Le(key, g[k \div 2], g[j])
      BY <1>3, <2>2 DEF HeapBut
    <3> QED
      BY <1>4, <2>2, <3>1, <3>2
  <2>3. CASE i \div 2 = k
    <3>1. i \in Family(g, k)
      BY <1>1, <2>1, <2>3, Halves DEF Family
    <3>2. s[i] = g[i]
      BY <1>5, <1>8, <2>1, <2>3
    <3> QED
      BY <1>2, <1>4, <2>3, <3>1, <3>2
  <2>4. CASE i # k /\ i \div 2 # k
    BY <1>5, <1>7, <1>8, <2>1, <2>4
  <2> QED
    BY <2>2, <2>3, <2>4
<1>9. ASSUME NEW i \in 2 .. n, i \div 2 = j PROVE Le(key, s[j \div 2], s[i])
  <2>1. j < i /\ i # k /\ i \div 2 # k
    BY <1>3, <1>9, Halves
  <2>2. s[i] = g[i] /\ Le(key, g[j], g[i])
    BY <1>5, <1>7, <1>9, <2>1
  <2> QED
    BY <1>3, <1>4, <2>2
<1>10. HeapBut(key, s, j)
  BY <1>4, <1>8, <1>9 DEF HeapBut
<1> QED
  BY <1>3, <1>4, <1>6, <1>10

\* When it is itself the least it stays.
LEMMA DownEnd ==
  ASSUME NEW key, Ordered(key), NEW g \in Seq(DOMAIN key), NEW k \in 1 .. Len(g),
         Smallest(g, key, k) = k
  PROVE  AboveChildren(key, g, k) /\ Swapped(g, k, k) = g
<1>1. \A i \in Family(g, k) : Le(key, g[k], g[i])
  BY SmallestIs
<1>2. \A i \in 2 .. Len(g) : i \div 2 = k => i \in Family(g, k)
  BY Halves DEF Family
<1>3. AboveChildren(key, g, k)
  BY <1>1, <1>2 DEF AboveChildren
<1>4. Swapped(g, k, k) = g
  BY DEF Swapped
<1> QED
  BY <1>3, <1>4

-----------------------------------------------------------------------------
(***************************************************************************)
(* The walks.                                                              *)
(***************************************************************************)
\* A walk up leaves a heap: it ends at the root at the latest.
LEMMA WalkUpIs ==
  ASSUME NEW key, Ordered(key), NEW nodes, NEW x, NEW h, NEW i,
         Moving(key, h, i, nodes, x), HeapBut(key, h, i), AboveChildren(key, h, i)
  PROVE  IsHeap(WalkUp(h, key, i), key, nodes) /\ WalkUp(h, key, i) \in Seq(DOMAIN key)
<1> PICK turn : turn = TurnUp(key)
  OBVIOUS
<1> DEFINE Good == {w \in Walks(key) :
                      /\ Len(w.h) = Len(h) /\ Moving(key, w.h, w.i, nodes, x)
                      /\ HeapBut(key, w.h, w.i) /\ AboveChildren(key, w.h, w.i)}
           Goes(w) == w.i > 1 /\ timer_less_than(key, w.h[w.i], w.h[w.i \div 2])
<1>1. ASSUME NEW w \in Good
      PROVE  /\ turn[w] \in Good /\ (Goes(w) => turn[w].i < w.i)
             /\ (~Goes(w) => turn[w] = w)
  <2> PICK g, k, p, s : g = w.h /\ k = w.i /\ p = k \div 2 /\ s = Swapped(g, k, p)
    OBVIOUS
  <2>1. turn[w] = IF Goes(w) THEN [h |-> s, i |-> p] ELSE w
    <3>1. w \in Walks(key)
      OBVIOUS
    <3> QED
      BY <3>1 DEF TurnUp
  <2>2. ASSUME Goes(w) PROVE [h |-> s, i |-> p] \in Good /\ p < k
    <3> HIDE DEF Good
    <3>3. Moving(key, g, k, nodes, x) /\ HeapBut(key, g, k) /\ AboveChildren(key, g, k)
      BY DEF Good
    <3>4. k > 1 /\ timer_less_than(key, g[k], g[p])
      BY <2>2
    <3>1. /\ Moving(key, s, p, nodes, x) /\ HeapBut(key, s, p)
          /\ AboveChildren(key, s, p) /\ Len(s) = Len(g) /\ p < k
      BY <3>3, <3>4, UpTurn
    <3>2. s \in Seq(DOMAIN key) /\ p \in Nat
      BY <3>1 DEF Moving
    <3> QED
      BY <3>1, <3>2 DEF Good, Walks
  <2> HIDE DEF Good
  <2> QED
    BY <2>1, <2>2
<1>2. Len(h) \in Nat /\ h \in Seq(DOMAIN key) /\ i \in 1 .. Len(h)
  BY DEF Moving
<1>3. [h |-> h, i |-> i] \in Good
  BY <1>2 DEF Walks
<1>4. PICK walk :
         /\ walk[0] = [h |-> h, i |-> i]
         /\ \A n \in 0 .. Len(h) : walk[n] \in Good
         /\ \A n \in 1 .. Len(h) : walk[n] = turn[walk[n - 1]]
         /\ Walk(turn, h, i) = walk[Len(h)].h
  <2> HIDE DEF Good
  <2> PICK Inv : Inv = Good
    OBVIOUS
  <2>1. \A w \in Inv : turn[w] \in Inv
    BY <1>1
  <2>2. [h |-> h, i |-> i] \in Inv
    BY <1>3
  <2>3. \E walk : IsWalk(walk, turn, h, i, Inv)
    BY <1>2, <2>1, <2>2, WalkTurns
  <2> QED
    BY <2>3 DEF IsWalk
<1> DEFINE Near == {m \in Nat : m <= Len(h) /\ Goes(walk[m]) => walk[m].i + m <= i}
<1>5. Near = Nat
  <2>1. 0 \in Near
    BY <1>2, <1>4
  <2>2. ASSUME NEW m \in Near PROVE m + 1 \in Near
    <3> SUFFICES ASSUME m + 1 <= Len(h), Goes(walk[m + 1])
                 PROVE  walk[m + 1].i + (m + 1) <= i
      OBVIOUS
    <3>1. m \in 0 .. Len(h) /\ m + 1 \in 1 .. Len(h) /\ m + 1 - 1 = m
      BY <1>2
    <3>2. walk[m + 1] = turn[walk[m]] /\ walk[m] \in Good /\ walk[m + 1] \in Good
      BY <1>4, <3>1
    <3>3. Goes(walk[m])
      BY <1>1, <3>2
    <3>4. walk[m + 1].i < walk[m].i
      BY <1>1, <3>2, <3>3
    <3>5. walk[m].i \in Nat /\ walk[m + 1].i \in Nat
      BY <3>2 DEF Walks
    <3>6. walk[m].i + m <= i
      BY <3>1, <3>3
    <3> QED
      BY <1>2, <3>4, <3>5, <3>6
  <2> HIDE DEF Near
  <2>3. Near \in SUBSET Nat
    BY DEF Near
  <2> QED
    BY <2>1, <2>2, <2>3, SetInduction
<1> PICK w : w = walk[Len(h)]
  OBVIOUS
<1>6. w \in Good
  BY <1>2, <1>4
<1>7. ~Goes(w)
  <2>1. Goes(w) => w.i + Len(h) <= i
    BY <1>2, <1>5
  <2>2. w.i \in 1 .. Len(h)
    BY <1>6 DEF Moving
  <2> QED
    BY <1>2, <2>1, <2>2
<1>8. IsHeap(w.h, key, nodes)
  <2> PICK g, k : g = w.h /\ k = w.i
    OBVIOUS
  <2>1. Moving(key, g, k, nodes, x) /\ HeapBut(key, g, k) /\ AboveChildren(key, g, k)
    BY <1>6
  <2>2. k = 1 \/ ~timer_less_than(key, g[k], g[k \div 2])
    BY <1>7, <2>1 DEF Moving
  <2>3. IsHeap(g, key, nodes)
    BY <2>1, <2>2, UpEnd
  <2> QED
    BY <2>3
<1>9. WalkUp(h, key, i) = w.h
  BY <1>4 DEF WalkUp
<1> QED
  BY <1>6, <1>8, <1>9 DEF Moving

\* A walk down leaves a heap but for the node that moves, which may still be less
\* than its parent.
LEMMA WalkDownIs ==
  ASSUME NEW key, Ordered(key), NEW nodes, NEW x, NEW h, NEW i,
         Moving(key, h, i, nodes, x), HeapBut(key, h, i)
  PROVE  LET g == WalkDown(h, key, i)
         IN \E k : Moving(key, g, k, nodes, x) /\ HeapBut(key, g, k) /\ AboveChildren(key, g, k)
<1> PICK turn : turn = TurnDown(key)
  OBVIOUS
<1> DEFINE Good == {w \in Walks(key) :
                      /\ Len(w.h) = Len(h) /\ Moving(key, w.h, w.i, nodes, x)
                      /\ HeapBut(key, w.h, w.i)}
           Goes(w) == Smallest(w.h, key, w.i) # w.i
<1>1. ASSUME NEW w \in Good
      PROVE  /\ turn[w] \in Good /\ (Goes(w) => turn[w].i > w.i)
             /\ (~Goes(w) => turn[w] = w)
  <2> PICK g, k, j, s : g = w.h /\ k = w.i /\ j = Smallest(g, key, k) /\ s = Swapped(g, k, j)
    OBVIOUS
  <2>1. turn[w] = [h |-> s, i |-> j]
    <3>1. w \in Walks(key)
      OBVIOUS
    <3> QED
      BY <3>1 DEF TurnDown
  <2>2. ASSUME Goes(w) PROVE [h |-> s, i |-> j] \in Good /\ j > k
    <3>1. /\ Moving(key, s, j, nodes, x) /\ HeapBut(key, s, j)
          /\ Len(s) = Len(g) /\ k < j
      BY <2>2, DownTurn
    <3>2. s \in Seq(DOMAIN key) /\ j \in Nat /\ k \in Nat
      BY <3>1 DEF Moving, Walks
    <3> QED
      BY <3>1, <3>2 DEF Walks
  <2>3. ASSUME ~Goes(w) PROVE [h |-> s, i |-> j] = w
    <3>1. g \in Seq(DOMAIN key) /\ k \in 1 .. Len(g) /\ Smallest(g, key, k) = k
      BY <2>3 DEF Moving
    <3>2. s = g
      BY <2>3, <3>1, DownEnd
    <3> QED
      BY <2>3, <3>2 DEF Walks
  <2> HIDE DEF Good
  <2> QED
    BY <2>1, <2>2, <2>3
<1>2. Len(h) \in Nat /\ h \in Seq(DOMAIN key) /\ i \in 1 .. Len(h)
  BY DEF Moving
<1>3. [h |-> h, i |-> i] \in Good
  BY <1>2 DEF Walks
<1>4. PICK walk :
         /\ walk[0] = [h |-> h, i |-> i]
         /\ \A n \in 0 .. Len(h) : walk[n] \in Good
         /\ \A n \in 1 .. Len(h) : walk[n] = turn[walk[n - 1]]
         /\ Walk(turn, h, i) = walk[Len(h)].h
  <2> HIDE DEF Good
  <2> PICK Inv : Inv = Good
    OBVIOUS
  <2>1. \A w \in Inv : turn[w] \in Inv
    BY <1>1
  <2>2. [h |-> h, i |-> i] \in Inv
    BY <1>3
  <2>3. \E walk : IsWalk(walk, turn, h, i, Inv)
    BY <1>2, <2>1, <2>2, WalkTurns
  <2> QED
    BY <2>3 DEF IsWalk
<1> DEFINE Far == {m \in Nat : m <= Len(h) /\ Goes(walk[m]) => walk[m].i >= i + m}
<1>5. Far = Nat
  <2>1. 0 \in Far
    BY <1>2, <1>4
  <2>2. ASSUME NEW m \in Far PROVE m + 1 \in Far
    <3> SUFFICES ASSUME m + 1 <= Len(h), Goes(walk[m + 1])
                 PROVE  walk[m + 1].i >= i + (m + 1)
      OBVIOUS
    <3>1. m \in 0 .. Len(h) /\ m + 1 \in 1 .. Len(h) /\ m + 1 - 1 = m
      BY <1>2
    <3>2. walk[m + 1] = turn[walk[m]] /\ walk[m] \in Good /\ walk[m + 1] \in Good
      BY <1>4, <3>1
    <3>3. Goes(walk[m])
      BY <1>1, <3>2
    <3>4. walk[m + 1].i > walk[m].i
      BY <1>1, <3>2, <3>3
    <3>5. walk[m].i \in Nat /\ walk[m + 1].i \in Nat
      BY <3>2 DEF Walks
    <3>6. walk[m].i >= i + m
      BY <3>1, <3>3
    <3> QED
      BY <1>2, <3>4, <3>5, <3>6
  <2> HIDE DEF Far
  <2>3. Far \in SUBSET Nat
    BY DEF Far
  <2> QED
    BY <2>1, <2>2, <2>3, SetInduction
<1> PICK w : w = walk[Len(h)]
  OBVIOUS
<1>6. w \in Good
  BY <1>2, <1>4
<1>7. ~Goes(w)
  <2>1. Goes(w) => w.i >= i + Len(h)
    BY <1>2, <1>5
  <2>2. w.i \in 1 .. Len(h)
    BY <1>6 DEF Moving
  <2> QED
    BY <1>2, <2>1, <2>2
<1>8. WalkDown(h, key, i) = w.h
  BY <1>4 DEF WalkDown
<1>9. AboveChildren(key, w.h, w.i)
  <2> PICK g, k : g = w.h /\ k = w.i
    OBVIOUS
  <2>1. g \in Seq(DOMAIN key) /\ k \in 1 .. Len(g) /\ Smallest(g, key, k) = k
    BY <1>6, <1>7 DEF Moving
  <2>2. AboveChildren(key, g, k)
    BY <2>1, DownEnd
  <2> QED
    BY <2>2
<1> QED
  BY <1>6, <1>8, <1>9

-----------------------------------------------------------------------------
(***************************************************************************)
(* The heap's operations, for every heap and every key.                    *)
(***************************************************************************)
\* The orders of a heap, with Le.
LEMMA HeapOrder ==
  ASSUME NEW key, NEW nodes, NEW h, IsHeap(h, key, nodes)
  PROVE  /\ Nodes(h) = nodes /\ Once(h)
         /\ \A j \in 2 .. Len(h) : Le(key, h[j \div 2], h[j])
  BY DEF IsHeap, Once, Le

\* Places in a sequence, in the first part of it, and in what it is when one is changed.
LEMMA Places ==
  ASSUME NEW S, NEW h \in Seq(S)
  PROVE  \A i \in 1 .. Len(h) : h[i] \in S
  OBVIOUS

LEMMA Prefix ==
  ASSUME NEW S, NEW h \in Seq(S), NEW m \in 0 .. Len(h)
  PROVE  /\ SubSeq(h, 1, m) \in Seq(S) /\ Len(SubSeq(h, 1, m)) = m
         /\ \A j \in 1 .. m : SubSeq(h, 1, m)[j] = h[j]
  OBVIOUS

LEMMA Replaced ==
  ASSUME NEW S, NEW h \in Seq(S), NEW i \in 1 .. Len(h), NEW y \in S, NEW r,
         r = [h EXCEPT ![i] = y]
  PROVE  r \in Seq(S) /\ Len(r) = Len(h) /\ r[i] = y
<1> PICK n \in Nat : n = Len(h)
  OBVIOUS
<1>1. h \in [1 .. n -> S]
  BY n \in Nat
<1>2. r \in [1 .. n -> S] /\ r[i] = y
  BY <1>1
<1>3. r \in Seq(S) /\ Len(r) = n
  BY <1>2
<1> QED
  BY <1>2, <1>3

\* heap_insert: a heap, of the nodes there were and the new one.
LEMMA InsertIs ==
  ASSUME NEW key, Ordered(key), NEW nodes, NEW h \in Seq(DOMAIN key),
         IsHeap(h, key, nodes), NEW x \in DOMAIN key, x \notin nodes
  PROVE  /\ IsHeap(heap_insert(h, key, x), key, nodes \cup {x})
         /\ heap_insert(h, key, x) \in Seq(DOMAIN key)
<1> PICK n \in Nat : n = Len(h)
  OBVIOUS
<1> PICK g, k, all : g = Append(h, x) /\ k = n + 1 /\ all = nodes \cup {x}
  OBVIOUS
<1>1. g \in Seq(DOMAIN key) /\ Len(g) = n + 1 /\ g[k] = x /\ k \in 1 .. Len(g)
  OBVIOUS
<1>2. \A i \in 1 .. n : g[i] = h[i]
  OBVIOUS
<1>3. Nodes(h) = nodes /\ Once(h) /\ \A j \in 2 .. n : Le(key, h[j \div 2], h[j])
  BY HeapOrder
<1>4. \A i \in 1 .. n : h[i] # x
  BY <1>3 DEF Nodes
<1>5. Nodes(g) = all
  <2>1. \A y : (\E i \in 1 .. n + 1 : y = g[i]) <=> (\E i \in 1 .. n : y = h[i]) \/ y = x
    BY <1>1, <1>2
  <2> QED
    BY <1>1, <1>3, <2>1 DEF Nodes
<1>6. Once(g)
  BY <1>1, <1>2, <1>3, <1>4 DEF Once
<1>7. Moving(key, g, k, all, x)
  BY <1>1, <1>5, <1>6 DEF Moving
<1>8. \A j \in 2 .. Len(g) : j \div 2 # k /\ j \div 2 \in 1 .. n
  BY <1>1, Halves
<1>9. HeapBut(key, g, k)
  <2>1. ASSUME NEW j \in 2 .. Len(g), j # k PROVE Le(key, g[j \div 2], g[j])
    BY <1>1, <1>2, <1>3, <1>8, <2>1
  <2> QED
    BY <1>8, <2>1 DEF HeapBut
<1>10. AboveChildren(key, g, k)
  BY <1>8 DEF AboveChildren
<1>11. heap_insert(h, key, x) = WalkUp(g, key, k)
  BY DEF heap_insert
<1> QED
  BY <1>7, <1>9, <1>10, <1>11, WalkUpIs

\* The place of a node that is there once.
LEMMA AtIs ==
  ASSUME NEW h, NEW i \in 1 .. Len(h), Once(h)
  PROVE  At(h, h[i]) = i
  BY DEF At, Once

\* heap_remove: a heap, of the nodes there were but the one removed.
LEMMA RemoveIs ==
  ASSUME NEW key, Ordered(key), NEW nodes, NEW h \in Seq(DOMAIN key),
         IsHeap(h, key, nodes), NEW x \in nodes
  PROVE  /\ IsHeap(heap_remove(h, key, x), key, nodes \ {x})
         /\ heap_remove(h, key, x) \in Seq(DOMAIN key)
<1> PICK n \in Nat : n = Len(h)
  OBVIOUS
<1>1. Nodes(h) = nodes /\ Once(h) /\ \A j \in 2 .. n : Le(key, h[j \div 2], h[j])
  BY HeapOrder
<1>2. PICK i \in 1 .. n : h[i] = x
  BY <1>1 DEF Nodes
<1> PICK m \in Nat : n = m + 1
  OBVIOUS
<1> PICK y, rest, b : y = h[n] /\ rest = nodes \ {x} /\ b = SubSeq(h, 1, m)
  OBVIOUS
<1>3. b \in Seq(DOMAIN key) /\ Len(b) = m /\ \A j \in 1 .. m : b[j] = h[j]
  <2>1. m \in 0 .. Len(h)
    OBVIOUS
  <2> QED
    BY <2>1, Prefix
<1>4. \A j, k \in 1 .. n : h[j] = h[k] => j = k
  BY <1>1 DEF Once
<1>5. \A j \in 2 .. n : j \div 2 \in 1 .. n /\ j \div 2 < j
  BY Halves
<1>6. CASE y = x
  <2>1. i = n
    <3>1. n \in 1 .. n /\ h[n] = h[i]
      BY <1>2, <1>6
    <3> QED
      BY <1>4, <3>1
  <2>2. Nodes(b) = rest
    <3>1. \A z : (\E j \in 1 .. m : z = b[j]) <=> (\E j \in 1 .. n : z = h[j]) /\ z # x
      <4>1. ASSUME NEW j \in 1 .. m PROVE (\E k \in 1 .. n : b[j] = h[k]) /\ b[j] # x
        <5>1. j \in 1 .. n /\ j # n /\ n \in 1 .. n /\ h[n] = x /\ b[j] = h[j]
          BY <1>2, <1>3, <2>1
        <5> QED
          BY <1>4, <5>1
      <4>2. ASSUME NEW k \in 1 .. n, h[k] # x PROVE \E j \in 1 .. m : h[k] = b[j]
        <5>1. k \in 1 .. m
          BY <1>2, <2>1, <4>2
        <5> QED
          BY <1>3, <5>1
      <4> QED
        BY <4>1, <4>2
    <3>2. Len(b) = m /\ Len(h) = n /\ Nodes(h) = nodes
      BY <1>1, <1>3
    <3>3. \A z : z \in Nodes(b) <=> \E j \in 1 .. m : z = b[j]
      BY <3>2 DEF Nodes
    <3>4. \A z : z \in nodes <=> \E j \in 1 .. n : z = h[j]
      BY <3>2 DEF Nodes
    <3>5. \A z : z \in Nodes(b) <=> z \in nodes /\ z # x
      BY <3>1, <3>3, <3>4
    <3> QED
      BY <3>5
  <2>3. Once(b)
    BY <1>3, <1>4 DEF Once
  <2>4. \A j \in 2 .. m : Le(key, b[j \div 2], b[j])
    BY <1>1, <1>3, <1>5
  <2>5. IsHeap(b, key, rest)
    BY <1>3, <2>2, <2>3, <2>4 DEF IsHeap, Once, Le
  <2>6. heap_remove(h, key, x) = b
    BY <1>6 DEF heap_remove
  <2> QED
    BY <1>3, <2>5, <2>6
<1>7. CASE y # x
  <2>1. i \in 1 .. m
    BY <1>2, <1>7
  <2>2. At(h, x) = i
    BY <1>1, <1>2, AtIs
  <2>3. PICK r : r = [b EXCEPT ![i] = y]
    OBVIOUS
  <2>4. /\ r \in Seq(DOMAIN key) /\ Len(r) = m /\ r[i] = y
        /\ \A j \in 1 .. m : j # i => r[j] = h[j]
    <3>1. y \in DOMAIN key
      <4>1. n \in 1 .. Len(h)
        BY <1>2
      <4> QED
        BY <4>1, Places
    <3>2. b \in Seq(DOMAIN key) /\ i \in 1 .. Len(b)
      BY <1>3, <2>1
    <3>3. /\ r \in Seq(DOMAIN key) /\ Len(r) = Len(b) /\ r[i] = y
          /\ \A j \in 1 .. Len(b) : j # i => r[j] = b[j]
      <4>1. ASSUME NEW S, S = DOMAIN key
            PROVE  /\ r \in Seq(S) /\ Len(r) = Len(b) /\ r[i] = y
                   /\ \A j \in 1 .. Len(b) : j # i => r[j] = b[j]
        <5>1. b \in Seq(S) /\ y \in S
          BY <3>1, <3>2, <4>1
        <5>2. r \in Seq(S) /\ Len(r) = Len(b) /\ r[i] = y
          BY <2>3, <3>2, <5>1, Replaced
        <5>3. \A j \in 1 .. Len(b) : j # i => r[j] = b[j]
          <6>1. \A j \in DOMAIN b : j # i => r[j] = b[j]
            BY <2>3
          <6>2. DOMAIN b = 1 .. Len(b)
            BY <5>1
          <6> QED
            BY <6>1, <6>2
        <5> QED
          BY <5>2, <5>3
      <4> QED
        BY <4>1
    <3>4. /\ r \in Seq(DOMAIN key) /\ Len(r) = m /\ r[i] = y
          /\ \A j \in 1 .. m : j # i => r[j] = b[j]
      BY <1>3, <3>3
    <3> QED
      BY <1>3, <3>4
  <2>5. Nodes(r) = rest
    <3>1. \A z : (\E j \in 1 .. m : z = r[j]) <=> (\E j \in 1 .. n : z = h[j]) /\ z # x
      <4>1. ASSUME NEW j \in 1 .. m PROVE (\E k \in 1 .. n : r[j] = h[k]) /\ r[j] # x
        BY <1>2, <1>4, <1>7, <2>1, <2>4
      <4>2. ASSUME NEW k \in 1 .. n, h[k] # x PROVE \E j \in 1 .. m : h[k] = r[j]
        <5>1. CASE k = n
          BY <2>1, <2>4, <5>1
        <5>2. CASE k # n
          BY <1>2, <2>4, <4>2, <5>2
        <5> QED
          BY <5>1, <5>2
      <4> QED
        BY <4>1, <4>2
    <3>2. Len(r) = m /\ Len(h) = n /\ Nodes(h) = nodes
      BY <1>1, <2>4
    <3>3. \A z : z \in Nodes(r) <=> \E j \in 1 .. m : z = r[j]
      BY <3>2 DEF Nodes
    <3>4. \A z : z \in nodes <=> \E j \in 1 .. n : z = h[j]
      BY <3>2 DEF Nodes
    <3>5. \A z : z \in Nodes(r) <=> z \in nodes /\ z # x
      BY <3>1, <3>3, <3>4
    <3> QED
      BY <3>5
  <2>6. Once(r)
    <3>1. ASSUME NEW j \in 1 .. m, NEW k \in 1 .. m, r[j] = r[k] PROVE j = k
      <4>1. \A l \in 1 .. m : r[l] = h[IF l = i THEN n ELSE l]
        BY <2>4
      <4>2. (IF j = i THEN n ELSE j) = (IF k = i THEN n ELSE k)
        BY <1>4, <3>1, <4>1
      <4> QED
        BY <4>2
    <3> QED
      BY <2>4, <3>1 DEF Once
  <2>7. Moving(key, r, i, rest, y)
    BY <2>1, <2>4, <2>5, <2>6 DEF Moving
  <2>8. HeapBut(key, r, i)
    <3>1. ASSUME NEW j \in 2 .. m, j # i, j \div 2 # i PROVE Le(key, r[j \div 2], r[j])
      <4>1. j \in 2 .. n /\ j \in 1 .. m /\ j \div 2 \in 1 .. m
        BY <1>5, <3>1
      <4>2. r[j] = h[j] /\ r[j \div 2] = h[j \div 2]
        BY <2>4, <3>1, <4>1
      <4> QED
        BY <1>1, <4>1, <4>2
    <3>2. ASSUME i > 1, NEW j \in 2 .. m, j \div 2 = i PROVE Le(key, r[i \div 2], r[j])
      <4>1. Le(key, h[i \div 2], h[i]) /\ Le(key, h[i], h[j])
        BY <1>1, <3>2
      <4>2. i \div 2 \in 1 .. n /\ i \div 2 < i /\ i < j
        BY <1>5, <2>1, <3>2
      <4>3. Le(key, h[i \div 2], h[j])
        <5>1. \A l \in 1 .. n : h[l] \in DOMAIN key
          BY Places
        <5>2. h[i \div 2] \in DOMAIN key /\ h[i] \in DOMAIN key /\ h[j] \in DOMAIN key
          BY <4>2, <5>1
        <5> QED
          BY <4>1, <5>2, LeOrder
      <4>4. r[i \div 2] = h[i \div 2] /\ r[j] = h[j]
        BY <2>4, <4>2
      <4> QED
        BY <4>3, <4>4
    <3> QED
      BY <2>4, <3>1, <3>2 DEF HeapBut
  <2>9. PICK g, k : /\ g = WalkDown(r, key, i)
                    /\ Moving(key, g, k, rest, y) /\ HeapBut(key, g, k) /\ AboveChildren(key, g, k)
    BY <2>7, <2>8, WalkDownIs
  <2>10. Refilled(h, key, At(h, x)) = g
    BY <2>2, <2>3, <2>9 DEF Refilled
  <2>11. At(g, y) = k
    BY <2>9, AtIs DEF Moving
  <2>12. heap_remove(h, key, x) = WalkUp(g, key, k)
    BY <1>7, <2>10, <2>11 DEF heap_remove
  <2> QED
    BY <2>9, <2>12, WalkUpIs
<1> QED
  BY <1>6, <1>7

\* heap_min: no node of the heap is less than its first.
LEMMA RootLeast ==
  ASSUME NEW key, Ordered(key), NEW nodes, NEW h \in Seq(DOMAIN key),
         IsHeap(h, key, nodes), NEW x \in nodes
  PROVE  h # <<>> /\ heap_min(h) \in nodes /\ Le(key, heap_min(h), x)
<1> PICK n \in Nat : n = Len(h)
  OBVIOUS
<1>1. Nodes(h) = nodes /\ \A j \in 2 .. n : Le(key, h[j \div 2], h[j])
  BY HeapOrder
<1> DEFINE Above == {m \in Nat : \A i \in 1 .. n : i <= m => Le(key, h[1], h[i])}
<1>2. Above = Nat
  <2>1. 0 \in Above
    OBVIOUS
  <2>2. ASSUME NEW m \in Above PROVE m + 1 \in Above
    <3> SUFFICES ASSUME m + 1 \in 1 .. n PROVE Le(key, h[1], h[m + 1])
      OBVIOUS
    <3>1. CASE m = 0
      BY <3>1, LeOrder
    <3>2. CASE m # 0
      <4>1. PICK p : p = (m + 1) \div 2
        OBVIOUS
      <4>2. p \in 1 .. n /\ p <= m
        BY <3>2, <4>1, Halves
      <4>3. Le(key, h[1], h[p]) /\ Le(key, h[p], h[m + 1])
        BY <1>1, <3>2, <4>1, <4>2
      <4>4. h[1] \in DOMAIN key /\ h[p] \in DOMAIN key /\ h[m + 1] \in DOMAIN key
        BY <4>2
      <4> QED
        BY <4>3, <4>4, LeOrder
    <3> QED
      BY <3>1, <3>2
  <2> HIDE DEF Above
  <2>3. Above \in SUBSET Nat
    BY DEF Above
  <2> QED
    BY <2>1, <2>2, <2>3, SetInduction
<1>3. PICK i \in 1 .. n : h[i] = x
  BY <1>1 DEF Nodes
<1>4. Le(key, h[1], x)
  BY <1>2, <1>3
<1>5. h # <<>> /\ h[1] \in nodes
  BY <1>1, <1>3 DEF Nodes
<1> QED
  BY <1>4, <1>5 DEF heap_min

\* What the runs try the operations on are heaps.
LEMMA HeapsAre ==
  ASSUME NEW key, IsFiniteSet(DOMAIN key)
  PROVE  \A h \in Heaps(key) : h \in Seq(DOMAIN key) /\ IsHeap(h, key, Nodes(h))
<1> PICK N \in Nat : N = Cardinality(DOMAIN key)
  BY FS_CardinalityType
<1> DEFINE All == {h \in Seq(DOMAIN key) : IsHeap(h, key, Nodes(h))}
           More(G) == G \cup {h \in {Append(g, x) : g \in G, x \in DOMAIN key} :
                                IsHeap(h, key, Nodes(h))}
           Value(f, m) == IF m = 0 THEN {<<>>} ELSE More(f[m - 1])
<1>1. {<<>>} \in SUBSET All
  BY DEF IsHeap
<1>2. ASSUME NEW G \in SUBSET All PROVE More(G) \in SUBSET All
  OBVIOUS
<1>3. \E f : f = [m \in 0 .. N |-> Value(f, m)]
  <2> HIDE DEF All, More
  <2> PICK Inv, turn, w0 : /\ Inv = SUBSET All /\ w0 = {<<>>}
                           /\ turn = [G \in Inv |-> More(G)]
    OBVIOUS
  <2>1. w0 \in Inv /\ \A G \in Inv : turn[G] = More(G)
    BY <1>1
  <2>2. \A G \in Inv : turn[G] \in Inv
    BY <1>2, <2>1
  <2>3. PICK f \in [0 .. N -> Inv] : Solves(f, turn, N, w0)
    BY <2>1, <2>2, Recursion
  <2>4. ASSUME NEW m \in 0 .. N PROVE f[m] = Value(f, m)
    <3>1. m # 0 => f[m - 1] \in Inv
      BY <2>3
    <3> QED
      BY <2>1, <2>3, <3>1 DEF Solves
  <2> HIDE DEF Value
  <2>5. f = [m \in 0 .. N |-> Value(f, m)]
    BY <2>3, <2>4
  <2> QED
    BY <2>5
<1> DEFINE grow == CHOOSE f : f = [m \in 0 .. N |-> Value(f, m)]
<1>4. grow = [m \in 0 .. N |-> Value(grow, m)]
  <2> HIDE DEF Value
  <2> QED
    BY <1>3
<1>5. Heaps(key) = grow[N]
  BY DEF Heaps
<1> HIDE DEF grow, All, More
<1> DEFINE Kept == {m \in Nat : m <= N => grow[m] \in SUBSET All}
<1>6. Kept = Nat
  <2>1. 0 \in Kept
    BY <1>1, <1>4
  <2>2. ASSUME NEW m \in Kept PROVE m + 1 \in Kept
    <3> SUFFICES ASSUME m + 1 <= N PROVE grow[m + 1] \in SUBSET All
      OBVIOUS
    <3>1. m + 1 \in 0 .. N /\ m + 1 # 0 /\ m + 1 - 1 = m /\ grow[m] \in SUBSET All
      OBVIOUS
    <3>2. grow[m + 1] = More(grow[m])
      <4>1. grow[m + 1] = Value(grow, m + 1)
        <5> HIDE DEF Value
        <5> QED
          BY <1>4, <3>1
      <4>2. Value(grow, m + 1) = More(grow[m + 1 - 1])
        BY <3>1
      <4> QED
        BY <3>1, <4>1, <4>2
    <3> QED
      BY <1>2, <3>1, <3>2
  <2> HIDE DEF Kept
  <2>3. Kept \in SUBSET Nat
    BY DEF Kept
  <2> QED
    BY <2>1, <2>2, <2>3, SetInduction
<1>7. Heaps(key) \in SUBSET All
  BY <1>5, <1>6
<1> QED
  BY <1>7 DEF All

\* heap-inl.h: inserting and removing any node leaves a heap of the right nodes,
\* whatever the size of the heap and whatever the keys.
THEOREM HeapSound ==
  ASSUME NEW key, Ordered(key), IsFiniteSet(DOMAIN key)
  PROVE  HeapWorks(key)
<1> SUFFICES ASSUME NEW h \in Heaps(key)
             PROVE  /\ \A x \in DOMAIN key \ Nodes(h) :
                         IsHeap(heap_insert(h, key, x), key, Nodes(h) \cup {x})
                    /\ \A x \in Nodes(h) :
                         IsHeap(heap_remove(h, key, x), key, Nodes(h) \ {x})
  BY DEF HeapWorks
<1> PICK nodes : nodes = Nodes(h)
  OBVIOUS
<1>1. h \in Seq(DOMAIN key) /\ IsHeap(h, key, nodes)
  BY HeapsAre
<1>2. \A x \in DOMAIN key \ nodes : IsHeap(heap_insert(h, key, x), key, nodes \cup {x})
  BY <1>1, InsertIs
<1>3. \A x \in nodes : IsHeap(heap_remove(h, key, x), key, nodes \ {x})
  BY <1>1, RemoveIs
<1> QED
  BY <1>2, <1>3

\* The instance that TLC evaluates.
LEMMA SevenSound == SevenNodesWork
<1> PICK key : key = [i \in 1 .. 7 |-> <<i, 0>>]
  OBVIOUS
<1>1. Ordered(key) /\ DOMAIN key = 1 .. 7
  BY DEF Ordered
<1>2. IsFiniteSet(1 .. 7)
  BY FS_Interval, 1 \in Int, 7 \in Int
<1>3. HeapWorks(key)
  BY <1>1, <1>2, HeapSound
<1> QED
  BY <1>3 DEF SevenNodesWork

-----------------------------------------------------------------------------
(***************************************************************************)
(* The loop's timers.                                                      *)
(***************************************************************************)
Flags == {"idle", "active", "closing", "closed"}
Fields == [timeout : 0 .. Top, repeat : Repeats, start_id : Nat, cb : BOOLEAN, flag : Flags]

\* The heap, and the numbers by which timers due at the same time are told apart:
\* no two active timers have the same.
TimersOK ==
  /\ of \in [Timers -> Fields] /\ counter \in Nat
  /\ heap \in Seq(Timers) /\ IsHeap(heap, Key, Active)
  /\ \A t \in Timers : of[t].start_id <= counter
  /\ \A t \in Active : of[t].cb /\ of[t].start_id < counter
  /\ \A s, t \in Active : of[s].start_id = of[t].start_id => s = t

IInv == TimersOK /\ TypeOK

LEMMA KeyIs ==
  ASSUME TimersOK
  PROVE  /\ Ordered(Key) /\ DOMAIN Key = Timers /\ Active \in SUBSET Timers
         /\ \A t \in Timers : of[t] \in Fields /\ Key[t] = <<of[t].timeout, of[t].start_id>>
<1>1. \A t \in Timers : of[t] \in Fields
  BY DEF TimersOK
<1>2. DOMAIN Key = Timers /\ \A t \in Timers : Key[t] = <<of[t].timeout, of[t].start_id>>
  BY DEF Key
<1>3. Ordered(Key)
  BY <1>1, <1>2 DEF Ordered, Fields
<1> QED
  BY <1>1, <1>2, <1>3 DEF Active

\* A heap stays one when the fields of other timers change.
LEMMA SameKeys ==
  ASSUME NEW key, NEW key2, NEW nodes, NEW h, Len(h) \in Nat, IsHeap(h, key, nodes),
         \A x \in nodes : key2[x] = key[x]
  PROVE  IsHeap(h, key2, nodes)
<1>1. Nodes(h) = nodes /\ \A i, j \in 1 .. Len(h) : h[i] = h[j] => i = j
  BY DEF IsHeap
<1>2. ASSUME NEW i \in 2 .. Len(h) PROVE ~timer_less_than(key2, h[i], h[i \div 2])
  <2>1. i \in 1 .. Len(h) /\ i \div 2 \in 1 .. Len(h)
    BY Halves
  <2>2. h[i] \in nodes /\ h[i \div 2] \in nodes
    BY <1>1, <2>1 DEF Nodes
  <2>3. ~timer_less_than(key, h[i], h[i \div 2])
    BY DEF IsHeap
  <2> QED
    BY <2>2, <2>3 DEF timer_less_than
<1> QED
  BY <1>1, <1>2 DEF IsHeap

\* uv_timer_stop's part for the heap.
LEMMA WithoutIs ==
  ASSUME TimersOK, NEW t \in Timers
  PROVE  /\ Without(t) \in Seq(Timers) /\ Len(Without(t)) \in Nat
         /\ IsHeap(Without(t), Key, Active \ {t})
<1> PICK key, nodes, h : key = Key /\ nodes = Active /\ h = heap
  OBVIOUS
<1>1. Ordered(key) /\ DOMAIN key = Timers
  BY KeyIs
<1>2. h \in Seq(DOMAIN key) /\ IsHeap(h, key, nodes)
  BY <1>1 DEF TimersOK
<1>3. CASE t \in nodes
  <2>1. IsHeap(heap_remove(h, key, t), key, nodes \ {t}) /\ heap_remove(h, key, t) \in Seq(Timers)
    BY <1>1, <1>2, <1>3, RemoveIs
  <2> QED
    BY <1>3, <2>1 DEF Without
<1>4. CASE t \notin nodes
  <2>1. nodes \ {t} = nodes /\ Without(t) = h
    BY <1>4 DEF Without
  <2>2. h \in Seq(Timers) /\ Len(h) \in Nat
    BY <1>1, <1>2
  <2>3. IsHeap(h, key, nodes \ {t})
    BY <1>2, <2>1
  <2> QED
    BY <2>1, <2>2, <2>3
<1> QED
  BY <1>3, <1>4

\* 64-bit sums: the time due is the sum, or the last instant.
LEMMA DueIs ==
  ASSUME time \in 0 .. Top, NEW d \in 0 .. Top
  PROVE  Due(d) = (IF time + d > Top THEN Top ELSE time + d) /\ Due(d) \in 0 .. Top
  BY TimersAssumption DEF Due

-----------------------------------------------------------------------------
(***************************************************************************)
(* What the operations of timer.c leave, and what the contract sees of it. *)
(***************************************************************************)
\* uv_timer_start: one more active timer, due after d, the last of those due then.
LEMMA StartIs ==
  ASSUME TimersOK, time \in 0 .. Top, NEW t \in Timers, NEW d \in Timeouts \cup Repeats,
         NEW r \in Repeats, uv_timer_start(t, d, r)
  PROVE  /\ TimersOK' /\ Active' = Active \cup {t} /\ Contract!ArmedNow(t)
         /\ \A u \in Timers : u # t => of'[u] = of[u]
<1> PICK new : new = [timeout |-> Due(d), repeat |-> r, cb |-> TRUE,
                      start_id |-> counter, flag |-> "active"]
  OBVIOUS
<1>1. of' = [of EXCEPT ![t] = new] /\ counter' = counter + 1
  BY DEF uv_timer_start
<1>2. d \in 0 .. Top
  BY TimersAssumption
<1>3. Due(d) = (IF time + d > Top THEN Top ELSE time + d) /\ Due(d) \in 0 .. Top
  BY <1>2, DueIs
<1>4. of \in [Timers -> Fields] /\ counter \in Nat
  BY DEF TimersOK
<1>5. new \in Fields
  BY <1>3, <1>4 DEF Fields, Flags
<1>6. of' \in [Timers -> Fields] /\ of'[t] = new /\ \A u \in Timers : u # t => of'[u] = of[u]
  BY <1>1, <1>4, <1>5
<1>7. Active' = Active \cup {t}
  BY <1>6 DEF Active
<1>8. heap' \in Seq(Timers) /\ IsHeap(heap', Key', Active')
  <2> PICK key, key2, rest, h : key = Key /\ key2 = Key' /\ rest = Active \ {t} /\ h = Without(t)
    OBVIOUS
  <2>1. h \in Seq(Timers) /\ Len(h) \in Nat /\ IsHeap(h, key, rest)
    BY WithoutIs
  <2>2. DOMAIN key2 = Timers /\ \A u \in Timers : key2[u] = <<of'[u].timeout, of'[u].start_id>>
    BY DEF Key
  <2>3. Ordered(key2)
    BY <1>6, <2>2 DEF Ordered, Fields
  <2>4. \A u \in rest : key2[u] = key[u]
    BY <1>6, <2>2 DEF Key, Active
  <2>5. IsHeap(h, key2, rest)
    BY <2>1, <2>4, SameKeys
  <2>6. /\ IsHeap(heap_insert(h, key2, t), key2, rest \cup {t})
        /\ heap_insert(h, key2, t) \in Seq(Timers)
    <3>1. t \in DOMAIN key2 /\ t \notin rest /\ h \in Seq(DOMAIN key2)
      BY <2>1, <2>2
    <3>2. /\ IsHeap(heap_insert(h, key2, t), key2, rest \cup {t})
          /\ heap_insert(h, key2, t) \in Seq(DOMAIN key2)
      BY <2>3, <2>5, <3>1, InsertIs
    <3> QED
      BY <2>2, <3>2
  <2>7. heap' = heap_insert(h, key2, t) /\ Active' = rest \cup {t}
    BY <1>7 DEF uv_timer_start
  <2> QED
    BY <2>6, <2>7
<1>9. \A u \in Timers : of[u].start_id \in Nat /\ of[u].start_id <= counter
  BY <1>4 DEF TimersOK, Fields
<1>10. \A u \in Active : u \in Timers /\ of[u].cb /\ of[u].start_id < counter
  BY DEF TimersOK, Active
<1>11. \A u \in Timers : of'[u].start_id <= counter'
  BY <1>1, <1>4, <1>6, <1>9
<1>12. \A u \in Active' : of'[u].cb /\ of'[u].start_id < counter'
  <2>1. ASSUME NEW u \in Active' PROVE of'[u].cb /\ of'[u].start_id < counter'
    <3>1. CASE u = t
      BY <1>1, <1>4, <1>6, <3>1
    <3>2. CASE u # t
      <4>1. of'[u] = of[u] /\ of[u].cb /\ of[u].start_id < counter /\ of[u].start_id \in Nat
        BY <1>6, <1>7, <1>9, <1>10, <3>2
      <4>2. of'[u].start_id < counter'
        BY <1>1, <1>4, <4>1
      <4> QED
        BY <4>1, <4>2
    <3> QED
      BY <3>1, <3>2
  <2> QED
    BY <2>1
<1>13. \A s, u \in Active' : of'[s].start_id = of'[u].start_id => s = u
  <2>1. \A u \in Active : of[u].start_id # counter
    BY <1>4, <1>9, <1>10
  <2>2. \A s, u \in Active : of[s].start_id = of[u].start_id => s = u
    BY DEF TimersOK
  <2>3. \A u \in Active : u # t => of'[u] = of[u]
    BY <1>6, <1>10
  <2> QED
    BY <1>6, <1>7, <2>1, <2>2, <2>3
<1>14. TimersOK'
  BY <1>1, <1>4, <1>6, <1>8, <1>11, <1>12, <1>13 DEF TimersOK
<1>15. Contract!ArmedNow(t)
  <2>1. /\ \A u \in Timers : u # t => (u \in Active' <=> u \in Active) /\ of'[u] = of[u]
        /\ t \in Active'
    BY <1>6, <1>7
  <2>2. \A u \in Timers : u # t => Armed'[u] = Armed[u]
    BY <2>1 DEF Armed
  <2>3. Armed'[t] = [due |-> Due(d), turn |-> counter + 1]
    BY <1>6, <2>1 DEF Armed
  <2>4. \A u \in Timers : Armed[u].turn < counter + 1
    <3>1. ASSUME NEW u \in Timers PROVE Armed[u].turn < counter + 1
      <4>1. CASE u \in Active
        <5>1. Armed[u].turn = of[u].start_id + 1
          BY <4>1 DEF Armed
        <5> QED
          BY <1>4, <1>9, <1>10, <4>1, <5>1
      <4>2. CASE u \notin Active
        <5>1. Armed[u].turn = 0
          BY <4>2 DEF Armed
        <5> QED
          BY <1>4, <5>1
      <4> QED
        BY <4>1, <4>2
    <3> QED
      BY <3>1
  <2>5. Armed'[t].turn = counter + 1 /\ Armed'[t].due = Due(d)
    BY <2>3
  <2>6. \A u \in Timers \ {t} : Armed'[u] = Armed[u] /\ Armed'[t].turn > Armed[u].turn
    BY <1>4, <2>2, <2>4, <2>5
  <2>7. \E e \in Timeouts \cup Repeats : Armed'[t].due = IF time + e > Top THEN Top ELSE time + e
    BY <1>3, <2>5
  <2> QED
    BY <2>6, <2>7 DEF Contract!ArmedNow
<1> QED
  BY <1>6, <1>7, <1>14, <1>15

\* uv_timer_stop, in uv_close too: the timer is active no longer.
LEMMA StopIs ==
  ASSUME TimersOK, NEW t \in Timers, NEW f \in Flags \ {"active"},
         heap' = Without(t), of' = [of EXCEPT ![t].flag = f], counter' = counter
  PROVE  /\ TimersOK' /\ Active' = Active \ {t} /\ Contract!Disarmed(t)
         /\ \A u \in Timers : u # t => of'[u] = of[u]
<1>1. of \in [Timers -> Fields] /\ counter \in Nat
  BY DEF TimersOK
<1>2. of' \in [Timers -> Fields] /\ of'[t].flag = f
  BY <1>1 DEF Fields
<1>3. \A u \in Timers : u # t => of'[u] = of[u]
  BY <1>1
<1>4. \A u \in Timers : /\ of'[u].timeout = of[u].timeout /\ of'[u].start_id = of[u].start_id
                        /\ of'[u].cb = of[u].cb
  <2>1. /\ of'[t].timeout = of[t].timeout /\ of'[t].start_id = of[t].start_id
        /\ of'[t].cb = of[t].cb
    BY <1>1 DEF Fields
  <2> QED
    BY <1>3, <2>1
<1>5. Active' = Active \ {t}
  BY <1>2, <1>3 DEF Active
<1>6. Key' = Key
  BY <1>4 DEF Key
<1>7. heap' \in Seq(Timers) /\ IsHeap(heap', Key', Active')
  BY <1>5, <1>6, WithoutIs
<1>8. /\ \A u \in Timers : of[u].start_id <= counter
      /\ \A u \in Active : u \in Timers /\ of[u].cb /\ of[u].start_id < counter
      /\ \A s, u \in Active : of[s].start_id = of[u].start_id => s = u
  BY DEF TimersOK, Active
<1>9. /\ \A u \in Timers : of'[u].start_id <= counter'
      /\ \A u \in Active' : of'[u].cb /\ of'[u].start_id < counter'
      /\ \A s, u \in Active' : of'[s].start_id = of'[u].start_id => s = u
  BY <1>4, <1>5, <1>8
<1>10. TimersOK'
  BY <1>1, <1>2, <1>7, <1>9 DEF TimersOK
<1>11. Contract!Disarmed(t)
  <2>1. Armed'[t] = [due |-> 0, turn |-> 0] /\ \A u \in Timers : u # t => Armed'[u] = Armed[u]
    BY <1>3, <1>5 DEF Armed
  <2>2. DOMAIN Armed = Timers /\ DOMAIN Armed' = Timers /\ Armed' = [u \in Timers |-> Armed'[u]]
    BY DEF Armed
  <2>3. Armed' = [Armed EXCEPT ![t] = [due |-> 0, turn |-> 0]]
    BY <2>1, <2>2
  <2> QED
    BY <2>3 DEF Contract!Disarmed
<1> QED
  BY <1>3, <1>5, <1>10, <1>11

\* A change of other fields changes nothing for the heap or the contract.
LEMMA SameIs ==
  ASSUME TimersOK, of' \in [Timers -> Fields], Active' = Active,
         \A u \in Timers : /\ of'[u].timeout = of[u].timeout /\ of'[u].cb = of[u].cb
                           /\ of'[u].start_id = of[u].start_id,
         heap' = heap, counter' = counter
  PROVE  TimersOK' /\ Armed' = Armed
<1>1. Key' = Key
  BY DEF Key
<1>2. Armed' = Armed
  BY DEF Armed
<1>3. \A u \in Active : u \in Timers
  BY DEF Active
<1> QED
  BY <1>1, <1>2, <1>3 DEF TimersOK

\* uv_timer_again: as if started with the repeat, or nothing.
LEMMA AgainIs ==
  ASSUME TimersOK, NEW t \in Timers, uv_timer_again(t)
  PROVE  \/ \E r \in Repeats : uv_timer_start(t, r, r)
         \/ UNCHANGED timers /\ ~(of[t].cb /\ of[t].repeat > 0)
<1>1. of[t].repeat \in Repeats
  BY DEF TimersOK, Fields
<1> QED
  BY <1>1 DEF uv_timer_again

-----------------------------------------------------------------------------
(***************************************************************************)
(* Every step.                                                             *)
(***************************************************************************)
\* What a step of the loop or of a callback may do to the timers: it stops one,
\* starts one, or leaves them as the contract sees them.
Starts(t) == \E d \in Timeouts \cup Repeats, r \in Repeats : uv_timer_start(t, d, r)

\* uv_timer_stop leaves what StopIs asks for.
LEMMA StopFlag ==
  ASSUME TimersOK, NEW t \in Timers, uv_timer_stop(t)
  PROVE  \E f \in Flags \ {"active"} :
            heap' = Without(t) /\ of' = [of EXCEPT ![t].flag = f] /\ counter' = counter
<1> PICK f : f = IF of[t].flag = "active" THEN "idle" ELSE of[t].flag
  OBVIOUS
<1>1. f \in Flags \ {"active"}
  BY DEF TimersOK, Fields, Flags
<1>2. of' = [of EXCEPT ![t].flag = f]
  BY DEF uv_timer_stop
<1> QED
  BY <1>1, <1>2 DEF uv_timer_stop

\* What TypeOK says of the round.
RoundOK ==
  /\ clock \in 0 .. MaxTime /\ time \in 0 .. clock
  /\ at \in {"top", "timers", "reqs", "ran", "poll", "endgames", "over"}
  /\ running \in Timers \cup {None, Request}

LEMMA TypeParts ==
  ASSUME TimersOK
  PROVE  TypeOK <=> RoundOK /\ endgames \subseteq {t \in Timers : of[t].flag = "closing"}
<1>1. \A t \in Timers : /\ of[t].timeout \in 0 .. Top /\ of[t].repeat \in Repeats
                        /\ of[t].start_id \in 0 .. counter /\ of[t].flag \in Flags
  BY DEF TimersOK, Fields
<1> QED
  BY <1>1 DEF TypeOK, RoundOK, Flags

\* The clock's time is less than the greatest.
LEMMA TimeIs == ASSUME TypeOK PROVE time \in 0 .. Top
  BY TimersAssumption DEF TypeOK

\* The timers the step leaves keep the closing ones in the list of endgames.
Keeps(t) == \A u \in Timers : u # t => of'[u] = of[u]

LEMMA ClosingStays ==
  ASSUME TypeOK, NEW t \in Timers, Keeps(t), of[t].flag # "closing", endgames' = endgames
  PROVE  endgames' \subseteq {u \in Timers : of'[u].flag = "closing"}
<1>1. \A u \in endgames : u \in Timers /\ of[u].flag = "closing" /\ u # t
  BY DEF TypeOK
<1> QED
  BY <1>1 DEF Keeps

LEMMA InitOK == Init => IInv
<1> SUFFICES ASSUME Init PROVE IInv
  OBVIOUS
<1>1. of \in [Timers -> Fields]
  <2>1. uv_timer_init \in Fields
    BY TimersAssumption DEF uv_timer_init, Fields, Flags
  <2> QED
    BY <2>1 DEF Init
<1>2. Active = {} /\ counter = 0
  BY DEF Init, Active, uv_timer_init
<1>3. heap \in Seq(Timers) /\ IsHeap(heap, Key, Active)
  <2>1. heap = <<>> /\ Len(heap) = 0
    BY DEF Init
  <2> QED
    BY <1>2, <2>1 DEF IsHeap, Nodes
<1>4. \A t \in Timers : of[t].start_id <= counter
  BY <1>2 DEF Init, uv_timer_init
<1>5. TimersOK
  BY <1>1, <1>2, <1>3, <1>4 DEF TimersOK
<1>6. RoundOK /\ endgames = {}
  BY TimersAssumption DEF Init, RoundOK
<1> QED
  BY <1>5, <1>6, TypeParts DEF IInv

\* A step that is not one of the timers.
LEMMA Elsewhere ==
  ASSUME IInv, UNCHANGED timers
  PROVE  /\ TimersOK' /\ Armed' = Armed
         /\ endgames' = endgames =>
               endgames' \subseteq {t \in Timers : of'[t].flag = "closing"}
<1>1. of' = of /\ heap' = heap /\ counter' = counter
  BY DEF timers
<1>2. Active' = Active /\ Key' = Key
  BY <1>1 DEF Active, Key
<1>3. Armed' = Armed
  BY <1>1, <1>2 DEF Armed
<1>4. TimersOK'
  BY <1>1, <1>2 DEF IInv, TimersOK
<1>5. endgames \subseteq {t \in Timers : of[t].flag = "closing"}
  BY DEF IInv, TypeOK
<1> QED
  BY <1>1, <1>3, <1>4, <1>5

\* An operation that a callback calls, or the loop for a timer that runs: the
\* contract sees an arming, a disarming, or nothing.
Operated(t) ==
  /\ TimersOK'
  /\ endgames' \subseteq {u \in Timers : of'[u].flag = "closing"}
  /\ Contract!ArmedNow(t) \/ Contract!Disarmed(t) \/ Armed' = Armed

LEMMA StartOperates ==
  ASSUME IInv, NEW t \in Timers, Starts(t), of[t].flag # "closing", endgames' = endgames
  PROVE  Operated(t) /\ Contract!ArmedNow(t)
<1>1. PICK d \in Timeouts \cup Repeats, r \in Repeats : uv_timer_start(t, d, r)
  BY DEF Starts
<1>2. TimersOK /\ TypeOK /\ time \in 0 .. Top
  BY TimeIs DEF IInv
<1>3. TimersOK' /\ Contract!ArmedNow(t) /\ \A u \in Timers : u # t => of'[u] = of[u]
  BY <1>1, <1>2, StartIs
<1>4. endgames' \subseteq {u \in Timers : of'[u].flag = "closing"}
  BY <1>2, <1>3, ClosingStays DEF Keeps
<1> QED
  BY <1>3, <1>4 DEF Operated

LEMMA StopOperates ==
  ASSUME IInv, NEW t \in Timers, uv_timer_stop(t), of[t].flag # "closing",
         endgames' = endgames
  PROVE  Operated(t) /\ Contract!Disarmed(t)
<1>1. TimersOK /\ TypeOK
  BY DEF IInv
<1>2. PICK f \in Flags \ {"active"} :
         heap' = Without(t) /\ of' = [of EXCEPT ![t].flag = f] /\ counter' = counter
  BY <1>1, StopFlag
<1>3. TimersOK' /\ Contract!Disarmed(t) /\ \A u \in Timers : u # t => of'[u] = of[u]
  BY <1>1, <1>2, StopIs
<1>4. endgames' \subseteq {u \in Timers : of'[u].flag = "closing"}
  BY <1>1, <1>3, ClosingStays DEF Keeps
<1> QED
  BY <1>3, <1>4 DEF Operated

\* Start, Stop, Again, SetRepeat and Close.
LEMMA CallOperates ==
  ASSUME IInv, NEW t \in Timers,
         Start(t) \/ Stop(t) \/ Again(t) \/ SetRepeat(t) \/ Close(t)
  PROVE  Operated(t)
<1>1. TimersOK /\ TypeOK
  BY DEF IInv
<1>2. of[t].flag # "closing"
  BY DEF Start, Stop, Again, SetRepeat, Close, Call
<1>3. CASE Start(t)
  <2>1. Starts(t) /\ endgames' = endgames
    BY <1>3 DEF Start, Starts
  <2> QED
    BY <1>2, <2>1, StartOperates
<1>4. CASE Stop(t)
  BY <1>2, <1>4, StopOperates DEF Stop
<1>5. CASE Again(t)
  <2>1. uv_timer_again(t) /\ endgames' = endgames
    BY <1>5 DEF Again
  <2>2. CASE \E r \in Repeats : uv_timer_start(t, r, r)
    <3>1. Starts(t)
      BY <2>2 DEF Starts
    <3> QED
      BY <1>2, <2>1, <3>1, StartOperates
  <2>3. CASE UNCHANGED timers
    BY <2>1, <2>3, Elsewhere DEF Operated
  <2> QED
    BY <1>1, <2>1, <2>2, <2>3, AgainIs
<1>6. CASE SetRepeat(t)
  <2>1. PICK r \in Repeats : of' = [of EXCEPT ![t].repeat = r]
    BY <1>6 DEF SetRepeat
  <2>2. heap' = heap /\ counter' = counter /\ endgames' = endgames
    BY <1>6 DEF SetRepeat
  <2>3. of \in [Timers -> Fields]
    BY <1>1 DEF TimersOK
  <2>4. of' \in [Timers -> Fields]
    BY <2>1, <2>3 DEF Fields
  <2>5. \A u \in Timers : /\ of'[u].timeout = of[u].timeout /\ of'[u].cb = of[u].cb
                          /\ of'[u].start_id = of[u].start_id /\ of'[u].flag = of[u].flag
    BY <2>1, <2>3 DEF Fields
  <2>6. Active' = Active
    BY <2>5 DEF Active
  <2>7. TimersOK' /\ Armed' = Armed
    BY <1>1, <2>2, <2>4, <2>5, <2>6, SameIs
  <2>8. endgames' \subseteq {u \in Timers : of'[u].flag = "closing"}
    BY <1>1, <2>2, <2>5 DEF TypeOK
  <2> QED
    BY <2>7, <2>8 DEF Operated
<1>7. CASE Close(t)
  <2>1. /\ heap' = Without(t) /\ of' = [of EXCEPT ![t].flag = "closing"]
        /\ counter' = counter /\ endgames' = endgames \cup {t}
    BY <1>7 DEF Close
  <2>2. "closing" \in Flags \ {"active"}
    BY DEF Flags
  <2>3. TimersOK' /\ Contract!Disarmed(t) /\ \A u \in Timers : u # t => of'[u] = of[u]
    BY <1>1, <2>1, <2>2, StopIs
  <2>4. of'[t].flag = "closing"
    BY <1>1, <2>1 DEF TimersOK, Fields
  <2>5. endgames' \subseteq {u \in Timers : of'[u].flag = "closing"}
    BY <1>1, <2>1, <2>3, <2>4 DEF TypeOK
  <2> QED
    BY <2>3, <2>5 DEF Operated
<1> QED
  BY <1>3, <1>4, <1>5, <1>6, <1>7

-----------------------------------------------------------------------------
(***************************************************************************)
(* The invariant, and the refinement.                                      *)
(***************************************************************************)
\* The invariant after a step, and what the contract sees of the step.
Goes == IInv' /\ [Contract!Next]_(Contract!vars)

LEMMA Sees ==
  ASSUME IInv, TimersOK', RoundOK',
         endgames' \subseteq {t \in Timers : of'[t].flag = "closing"},
         [Contract!Next]_(Contract!vars)
  PROVE  Goes
<1>1. TypeOK'
  <2>1. \A t \in Timers :
           /\ of'[t].timeout \in 0 .. Top /\ of'[t].repeat \in Repeats
           /\ of'[t].start_id \in 0 .. counter' /\ of'[t].flag \in Flags
    BY DEF TimersOK, Fields
  <2> QED
    BY <2>1 DEF TypeOK, RoundOK, Flags
<1> QED
  BY <1>1 DEF Goes, IInv

\* A callback calls, or lets the last other handle go.
LEMMA CallsGo ==
  ASSUME IInv, Calls
  PROVE  Goes
<1>1. RoundOK /\ TimersOK
  BY TypeParts DEF IInv
<1>2. clock' = clock /\ UNCHANGED round
  BY DEF Calls, LetGo, Start, Stop, Again, SetRepeat, Close, Call
<1>3. time' = time /\ at' = at /\ running' = running /\ Fired' = Fired
  BY <1>2 DEF round, Fired
<1>4. RoundOK'
  BY <1>1, <1>2, <1>3 DEF RoundOK
<1>5. CASE LetGo
  <2>1. UNCHANGED timers /\ endgames' = endgames
    BY <1>5 DEF LetGo
  <2>2. /\ TimersOK' /\ Armed' = Armed
        /\ endgames' \subseteq {t \in Timers : of'[t].flag = "closing"}
    BY <2>1, Elsewhere
  <2>3. UNCHANGED Contract!vars
    BY <1>3, <2>2 DEF Contract!vars
  <2> QED
    BY <1>4, <2>2, <2>3, Sees
<1>6. CASE \E t \in Timers : Start(t) \/ Stop(t) \/ Again(t) \/ SetRepeat(t) \/ Close(t)
  <2>1. PICK t \in Timers : Start(t) \/ Stop(t) \/ Again(t) \/ SetRepeat(t) \/ Close(t)
    BY <1>6
  <2>2. Operated(t)
    BY <2>1, CallOperates
  <2>3. [Contract!Next]_(Contract!vars)
    <3>1. CASE Contract!ArmedNow(t)
      BY <1>3, <3>1 DEF Contract!Next, Contract!Arm
    <3>2. CASE Contract!Disarmed(t)
      BY <1>3, <3>2 DEF Contract!Next, Contract!Disarm
    <3>3. CASE Armed' = Armed
      BY <1>3, <3>3 DEF Contract!vars
    <3> QED
      BY <2>2, <3>1, <3>2, <3>3 DEF Operated
  <2> QED
    BY <1>4, <2>2, <2>3, Sees DEF Operated
<1> QED
  BY <1>5, <1>6 DEF Calls

\* uv__run_timers: the timer that runs is due, and no other one before it.
LEMMA RunTimerGoes ==
  ASSUME IInv, RunTimer
  PROVE  Goes
<1>1. RoundOK /\ TimersOK
  BY TypeParts DEF IInv
<1> PICK t, key, nodes, h : t = heap_min(heap) /\ key = Key /\ nodes = Active /\ h = heap
  OBVIOUS
<1>2. /\ at = "timers" /\ running = None /\ h # <<>> /\ of[t].timeout <= time /\ running' = t
      /\ IF of[t].repeat > 0 THEN uv_timer_again(t) ELSE uv_timer_stop(t)
      /\ clock' = clock /\ time' = time /\ at' = at /\ endgames' = endgames
  BY DEF RunTimer, IsDue, env
<1>3. /\ Ordered(key) /\ DOMAIN key = Timers /\ nodes \in SUBSET Timers
      /\ \A u \in Timers : of[u] \in Fields /\ key[u] = <<of[u].timeout, of[u].start_id>>
  BY <1>1, KeyIs
<1>4. h \in Seq(Timers) /\ IsHeap(h, key, nodes)
  BY <1>1 DEF TimersOK
<1>5. t \in nodes
  <2>1. 1 \in 1 .. Len(h) /\ t = h[1]
    BY <1>2, <1>4 DEF heap_min
  <2>2. Nodes(h) = nodes
    BY <1>4 DEF IsHeap
  <2> QED
    BY <2>1, <2>2 DEF Nodes
<1>6. t \in Timers /\ t \in Active /\ of[t].flag = "active" /\ of[t].cb
  BY <1>1, <1>5 DEF Active, TimersOK
<1>7. Operated(t) /\ (Contract!ArmedNow(t) \/ Contract!Disarmed(t))
  <2>1. CASE of[t].repeat > 0
    <3>1. \E r \in Repeats : uv_timer_start(t, r, r)
      BY <1>1, <1>2, <1>6, <2>1, AgainIs
    <3>2. Starts(t)
      BY <3>1 DEF Starts
    <3> QED
      BY <1>2, <1>6, <3>2, StartOperates
  <2>2. CASE ~(of[t].repeat > 0)
    BY <1>2, <1>6, <2>2, StopOperates
  <2> QED
    BY <2>1, <2>2
<1>8. RoundOK'
  BY <1>1, <1>2, <1>6 DEF RoundOK
<1>9. ASSUME NEW u \in Timers \ {t}, u \in Active
      PROVE  \/ of[t].timeout < of[u].timeout
             \/ of[t].timeout = of[u].timeout /\ of[t].start_id < of[u].start_id
  <2>1. Le(key, t, u)
    BY <1>3, <1>4, <1>9, RootLeast
  <2>2. /\ of[u].timeout \in Int /\ of[u].start_id \in Int
        /\ of[t].timeout \in Int /\ of[t].start_id \in Int
    BY <1>3, <1>6, <1>9 DEF Fields
  <2>3. of[t].start_id # of[u].start_id
    BY <1>1, <1>6, <1>9 DEF TimersOK
  <2>4. key[u] = <<of[u].timeout, of[u].start_id>> /\ key[t] = <<of[t].timeout, of[t].start_id>>
    BY <1>3, <1>6, <1>9
  <2> QED
    BY <2>1, <2>2, <2>3, <2>4 DEF Le, timer_less_than
<1>10. Contract!Fire(t)
  <2>1. Fired = None /\ Fired' = t
    BY <1>2 DEF Fired
  <2>2. \A u \in Timers : u \in Active =>
           Armed[u].due = of[u].timeout /\ Armed[u].turn = of[u].start_id + 1
    BY DEF Armed
  <2>3. \A u \in Timers : of[u].start_id \in Nat
    BY <1>3 DEF Fields
  <2>4. Contract!IsArmed(t) /\ Armed[t].due <= time
    BY <1>2, <1>6, <2>2, <2>3 DEF Contract!IsArmed
  <2>5. ASSUME NEW u \in Timers \ {t}, Contract!IsArmed(u)
        PROVE  \/ Armed[t].due < Armed[u].due
               \/ Armed[t].due = Armed[u].due /\ Armed[t].turn < Armed[u].turn
    <3>1. u \in Active
      BY <2>5 DEF Contract!IsArmed, Armed
    <3> QED
      BY <1>6, <1>9, <2>2, <2>3, <3>1
  <2> QED
    BY <1>2, <1>7, <2>1, <2>4, <2>5 DEF Contract!Fire
<1>11. [Contract!Next]_(Contract!vars)
  BY <1>6, <1>10 DEF Contract!Next
<1> QED
  BY <1>7, <1>8, <1>11, Sees DEF Operated

\* The other steps of the loop, and the world's.
LEMMA OthersGo ==
  ASSUME IInv, UNCHANGED timers, endgames' = endgames, RoundOK', time' >= time,
         \/ Fired' = Fired
         \/ Fired # None /\ Fired' = None /\ time' = time
  PROVE  Goes
<1>1. /\ TimersOK' /\ Armed' = Armed
      /\ endgames' \subseteq {t \in Timers : of'[t].flag = "closing"}
  BY Elsewhere
<1>2. CASE Fired' = Fired
  <2>1. Contract!Pass
    BY <1>1, <1>2 DEF Contract!Pass
  <2> QED
    BY <1>1, <2>1, Sees DEF Contract!Next
<1>3. CASE Fired # None /\ Fired' = None /\ time' = time
  <2>1. Contract!Return
    BY <1>1, <1>3 DEF Contract!Return
  <2> QED
    BY <1>1, <2>1, Sees DEF Contract!Next
<1> QED
  BY <1>2, <1>3

LEMMA LoopGoes ==
  ASSUME IInv, Loop
  PROVE  Goes
<1>1. RoundOK
  BY TypeParts DEF IInv
<1>2. clock \in Int /\ time \in Int /\ time <= clock
  BY <1>1, TimersAssumption DEF RoundOK
<1>3. ASSUME Begin PROVE Goes
  <2>1. RoundOK' /\ time' >= time /\ Fired' = Fired
    BY <1>1, <1>2, <1>3 DEF RoundOK, Begin, Goto, env, Fired
  <2> QED
    BY <1>3, <2>1, OthersGo DEF Begin
<1>4. ASSUME TimersDone PROVE Goes
  <2>1. RoundOK' /\ time' >= time /\ Fired' = Fired
    BY <1>1, <1>2, <1>4 DEF RoundOK, TimersDone, Goto, env, Fired
  <2> QED
    BY <1>4, <2>1, OthersGo DEF TimersDone
<1>5. ASSUME RunRequest PROVE Goes
  <2>1. RoundOK' /\ time' >= time /\ Fired' = Fired
    BY <1>1, <1>2, <1>5 DEF RoundOK, RunRequest, Goto, env, Fired
  <2> QED
    BY <1>5, <2>1, OthersGo DEF RunRequest
<1>6. ASSUME Return PROVE Goes
  <2>1. RoundOK' /\ time' = time
    BY <1>1, <1>6 DEF RoundOK, Return, env
  <2>2. Fired' = Fired \/ (Fired # None /\ Fired' = None)
    BY <1>6 DEF Return, Fired
  <2> QED
    BY <1>2, <1>6, <2>1, <2>2, OthersGo DEF Return
<1>7. ASSUME Wait PROVE Goes
  <2>1. RoundOK' /\ time' >= time /\ Fired' = Fired
    BY <1>1, <1>2, <1>7 DEF RoundOK, Wait, Goto, env, Fired
  <2> QED
    BY <1>7, <2>1, OthersGo DEF Wait
<1>8. ASSUME Dequeue PROVE Goes
  <2>1. RoundOK' /\ time' >= time /\ Fired' = Fired
    BY <1>1, <1>2, <1>8 DEF RoundOK, Dequeue, Leave, Fired
  <2> QED
    BY <1>8, <2>1, OthersGo DEF Dequeue
<1>9. ASSUME TimesOut PROVE Goes
  <2>1. /\ at = "poll" /\ at' \in {"poll", "endgames"} /\ (time' = time \/ time' = clock)
        /\ clock' = clock /\ running' = running
    BY <1>9 DEF TimesOut, Leave, env
  <2>2. RoundOK' /\ time' >= time /\ Fired' = Fired
    BY <1>1, <1>2, <2>1 DEF RoundOK, Fired
  <2> QED
    BY <1>9, <2>2, OthersGo DEF TimesOut
<1>10. ASSUME EndgamesDone PROVE Goes
  <2>1. RoundOK' /\ time' >= time /\ Fired' = Fired
    BY <1>1, <1>2, <1>10 DEF RoundOK, EndgamesDone, Goto, env, Fired
  <2> QED
    BY <1>10, <2>1, OthersGo DEF EndgamesDone
<1>11. ASSUME NEW t \in Timers, Endgame(t) PROVE Goes
  <2>1. /\ at = "endgames" /\ running = None /\ of' = [of EXCEPT ![t].flag = "closed"]
        /\ endgames' = endgames \ {t} /\ running' = t /\ t \in endgames
        /\ heap' = heap /\ counter' = counter
        /\ clock' = clock /\ time' = time /\ at' = at
    BY <1>11 DEF Endgame, env
  <2>2. TimersOK /\ of \in [Timers -> Fields] /\ of[t].flag = "closing"
    BY <2>1 DEF IInv, TimersOK, TypeOK
  <2>3. of' \in [Timers -> Fields] /\ of'[t].flag = "closed"
    BY <2>1, <2>2 DEF Fields, Flags
  <2>4. \A u \in Timers : /\ of'[u].timeout = of[u].timeout /\ of'[u].cb = of[u].cb
                          /\ of'[u].start_id = of[u].start_id
    BY <2>1, <2>2 DEF Fields
  <2>5. \A u \in Timers : u # t => of'[u] = of[u]
    BY <2>1, <2>2
  <2>6. Active' = Active
    BY <2>2, <2>3, <2>5 DEF Active
  <2>7. TimersOK' /\ Armed' = Armed
    BY <2>1, <2>2, <2>3, <2>4, <2>6, SameIs
  <2>8. endgames' \subseteq {u \in Timers : of'[u].flag = "closing"}
    BY <2>1, <2>5 DEF IInv, TypeOK
  <2>9. RoundOK' /\ Fired' = Fired
    BY <1>1, <2>1 DEF RoundOK, Fired
  <2>10. UNCHANGED Contract!vars
    BY <2>1, <2>7, <2>9 DEF Contract!vars
  <2> QED
    BY <2>7, <2>8, <2>9, <2>10, Sees
<1>12. ASSUME RunTimer PROVE Goes
  BY <1>12, RunTimerGoes
<1> QED
  BY <1>3, <1>4, <1>5, <1>6, <1>7, <1>8, <1>9, <1>10, <1>11, <1>12 DEF Loop

LEMMA StepGoes ==
  ASSUME IInv, [Next]_vars
  PROVE  Goes
<1>1. RoundOK
  BY TypeParts DEF IInv
<1>2. clock \in Int /\ time \in Int /\ time <= clock
  BY <1>1, TimersAssumption DEF RoundOK
<1>3. CASE Tick
  <2>1. UNCHANGED round /\ clock' = clock + 1 /\ clock < MaxTime
    BY <1>3 DEF Tick
  <2>2. time' = time /\ at' = at /\ running' = running
    BY <2>1 DEF round
  <2>3. RoundOK'
    BY <1>1, <2>1, <2>2, TimersAssumption DEF RoundOK
  <2>4. time' >= time /\ Fired' = Fired
    BY <1>2, <2>2 DEF Fired
  <2> QED
    BY <1>3, <2>3, <2>4, OthersGo DEF Tick
<1>4. CASE Post \/ UNCHANGED vars
  <2>1. UNCHANGED <<clock, timers, round, endgames>>
    BY <1>4 DEF Post, vars
  <2>2. clock' = clock /\ time' = time /\ at' = at /\ running' = running /\ Fired' = Fired
    BY <2>1 DEF round, Fired
  <2>3. RoundOK' /\ time' >= time
    BY <1>1, <1>2, <2>2 DEF RoundOK
  <2> QED
    BY <2>1, <2>2, <2>3, OthersGo
<1> QED
  BY <1>3, <1>4, LoopGoes, CallsGo DEF Next

LEMMA Inductive == Spec => []IInv
<1>1. IInv /\ [Next]_vars => IInv'
  BY StepGoes DEF Goes
<1> QED
  BY InitOK, <1>1, PTL DEF Spec

\* In every state the loop's heap is a heap of just the active timers, whatever
\* callbacks start, stop and close, and the times keep their ranges.
THEOREM TimersSound == Spec => []TimersInv
<1>1. IInv => TimersInv
  BY SevenSound DEF IInv, TimersOK, TimersInv, HeapIsRight
<1> QED
  BY Inductive, <1>1, PTL

\* timer.c does what TimerContract promises, for all numbers of timers, delays
\* and repeats.
THEOREM TimersImplement == Spec => ImplementsTimers
<1>1. Init => Contract!Init
  <2> SUFFICES ASSUME Init PROVE Contract!Init
    OBVIOUS
  <2>1. time \in Nat /\ Fired = None
    BY DEF Init, Fired
  <2>2. Armed = [t \in Timers |-> [due |-> 0, turn |-> 0]]
    BY DEF Init, Armed, Active, uv_timer_init
  <2> QED
    BY <2>1, <2>2 DEF Contract!Init
<1>2. IInv /\ [Next]_vars => [Contract!Next]_(Contract!vars)
  BY StepGoes DEF Goes
<1> QED
  BY Inductive, <1>1, <1>2, PTL DEF Spec, ImplementsTimers, Contract!Spec
=============================================================================
