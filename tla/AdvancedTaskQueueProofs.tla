---------------------- MODULE AdvancedTaskQueueProofs ----------------------
(***************************************************************************)
(* Proofs about AdvancedTaskQueue, for every set of tasks, priorities and  *)
(* delays and every length of the heap.                                    *)
(***************************************************************************)
EXTENDS AdvancedTaskQueue, GeneralLemmas, FiniteSetTheorems, SequenceTheorems

-----------------------------------------------------------------------------
(* The heap                                                                *)

Content(h) == {h[i] : i \in 1..Len(h)}

Distinct(h) == \A i, j \in 1..Len(h) : h[i].task = h[j].task => i = j

(* g holds the nodes of h in another order.                                *)
Rearranges(h, g) ==
    /\ g \in Seq(Node)
    /\ Len(g) = Len(h)
    /\ Content(g) = Content(h)
    /\ Distinct(h) => Distinct(g)

Ordered(h) == \A i \in 2..Len(h) : h[parent(i)].priority <= h[i].priority

(* What is left of the order while a node climbs or sinks: only the node   *)
(* at `at' may be out of order, and its parent is in order with its        *)
(* children.                                                               *)
GrandparentOrdered(h, at) ==
    \A i \in 2..Len(h) :
        parent(i) = at /\ at > 1 => h[parent(at)].priority <= h[i].priority

Climbing(h, at) ==
    /\ h \in Seq(Node) /\ at \in 1..Len(h)
    /\ \A i \in 2..Len(h) : i # at => h[parent(i)].priority <= h[i].priority
    /\ GrandparentOrdered(h, at)

Sinking(h, at) ==
    /\ h \in Seq(Node) /\ at \in 1..Len(h)
    /\ \A i \in 2..Len(h) : parent(i) # at => h[parent(i)].priority <= h[i].priority
    /\ GrandparentOrdered(h, at)

LEMMA NodeFields ==
    \A x \in Node : x.task \in Tasks /\ x.priority \in Nat /\ x.executeAt \in Nat
BY AdvancedTaskQueueAssumption DEF Node

(* The parent of a node is the only one whose children the node is among.  *)
LEMMA ParentFacts ==
    \A i \in Nat : i >= 2 =>
        /\ parent(i) \in Nat /\ 1 <= parent(i) /\ parent(i) < i
        /\ i = 2 * parent(i) \/ i = 2 * parent(i) + 1
BY DEF parent

LEMMA ChildFacts ==
    \A i \in Nat : i >= 1 => parent(2 * i) = i /\ parent(2 * i + 1) = i
BY DEF parent

LEMMA SwapRearranges ==
    ASSUME NEW h \in Seq(Node), NEW a \in 1..Len(h), NEW b \in 1..Len(h), a # b
    PROVE  /\ Rearranges(h, swap(h, a, b))
           /\ \A i \in 1..Len(h) :
                 swap(h, a, b)[i] = IF i = a THEN h[b] ELSE IF i = b THEN h[a] ELSE h[i]
<1> DEFINE g == swap(h, a, b)
<1>1. g \in Seq(Node) /\ Len(g) = Len(h)
  BY DEF swap
<1>2. \A i \in 1..Len(h) : g[i] = IF i = a THEN h[b] ELSE IF i = b THEN h[a] ELSE h[i]
  BY DEF swap
<1> HIDE DEF g
<1>3. Content(g) = Content(h)
  <2>1. ASSUME NEW i \in 1..Len(h) PROVE h[i] \in Content(g)
    <3>1. \E j \in 1..Len(h) : g[j] = h[i]
      BY <1>2
    <3> QED BY <3>1, <1>1 DEF Content
  <2>2. ASSUME NEW i \in 1..Len(h) PROVE g[i] \in Content(h)
    BY <1>2 DEF Content
  <2> QED BY <1>1, <2>1, <2>2 DEF Content
<1>4. Distinct(h) => Distinct(g)
  BY <1>1, <1>2 DEF Distinct
<1> QED BY <1>1, <1>2, <1>3, <1>4 DEF g, Rearranges

LEMMA RearrangesTransitively ==
    ASSUME NEW f, NEW g, NEW h, Rearranges(f, g), Rearranges(g, h)
    PROVE  Rearranges(f, h)
BY DEF Rearranges

(* One turn of heapifyUp: the heap is in order, or the node climbs.        *)
LEMMA UpTurn ==
    ASSUME NEW s, s = [heap |-> s.heap, at |-> s.at], Climbing(s.heap, s.at)
    PROVE  \/ up(s) = s /\ Ordered(s.heap)
           \/ /\ up(s) = [heap |-> up(s).heap, at |-> up(s).at]
              /\ Climbing(up(s).heap, up(s).at)
              /\ Rearranges(s.heap, up(s).heap)
              /\ up(s).at < s.at
<1> DEFINE h == s.heap
           a == s.at
           p == parent(a)
           g == swap(h, a, p)
<1>1. h \in Seq(Node) /\ a \in 1..Len(h) /\ Len(h) \in Nat
  BY DEF Climbing
<1>2. \A i \in 1..Len(h) : h[i].priority \in Nat
  BY <1>1, NodeFields
<1>3. CASE a > 1 /\ compare(h[a], h[p])
  <2>1. up(s) = [heap |-> g, at |-> p]
    BY <1>3 DEF up, moved
  <2>2. p \in 1..Len(h) /\ p # a /\ p < a
    BY <1>1, <1>3, ParentFacts
  <2>3. h[a].priority < h[p].priority
    BY <1>3 DEF compare
  <2>4. /\ Rearranges(h, g)
        /\ \A i \in 1..Len(h) : g[i] = IF i = a THEN h[p] ELSE IF i = p THEN h[a] ELSE h[i]
    BY <1>1, <2>2, SwapRearranges
  <2> HIDE DEF g
  <2>5. g \in Seq(Node) /\ Len(g) = Len(h)
    BY <2>4 DEF Rearranges
  <2>6. ASSUME NEW i \in 2..Len(g), i # p PROVE g[parent(i)].priority <= g[i].priority
    <3>1. parent(i) \in 1..Len(h) /\ parent(i) < i /\ i \in 1..Len(h)
      BY <1>1, <2>5, ParentFacts
    <3>2. CASE i = a
      BY <3>2, <2>4, <2>3, <2>2, <1>1, <1>2
    <3>3. CASE i # a /\ parent(i) = a
      <4>1. h[p].priority <= h[i].priority
        BY <3>1, <3>3, <1>3, <2>5 DEF Climbing, GrandparentOrdered
      <4> QED BY <4>1, <3>1, <3>3, <2>4, <2>6, <1>2
    <3>4. CASE i # a /\ parent(i) # a
      <4>1. h[parent(i)].priority <= h[i].priority
        BY <3>4, <2>5 DEF Climbing
      <4> QED BY <4>1, <3>1, <3>4, <2>3, <2>4, <2>6, <1>2, <1>1, <2>2
    <3> QED BY <3>2, <3>3, <3>4
  <2>7. GrandparentOrdered(g, p)
    <3> SUFFICES ASSUME NEW i \in 2..Len(g), parent(i) = p, p > 1
                 PROVE  g[parent(p)].priority <= g[i].priority
      BY DEF GrandparentOrdered
    <3>1. parent(p) \in 1..Len(h) /\ parent(p) < p /\ i \in 1..Len(h) /\ p < i /\ p \in 2..Len(h)
      BY <1>1, <2>2, <2>5, ParentFacts
    <3>2. h[parent(p)].priority <= h[p].priority
      BY <3>1, <2>2 DEF Climbing
    <3>3. g[parent(p)] = h[parent(p)]
      BY <3>1, <2>2, <2>4
    <3>4. CASE i = a
      BY <3>1, <3>2, <3>3, <3>4, <2>4
    <3>5. CASE i # a
      <4>1. h[p].priority <= h[i].priority
        BY <3>5, <2>5 DEF Climbing
      <4>2. g[i] = h[i]
        BY <3>1, <3>5, <2>4
      <4> QED BY <4>1, <4>2, <3>1, <3>2, <3>3, <1>2, <2>2
    <3> QED BY <3>4, <3>5
  <2>8. Climbing(g, p)
    BY <2>2, <2>5, <2>6, <2>7 DEF Climbing
  <2>9. up(s).heap = g /\ up(s).at = p
    BY <2>1
  <2> QED BY <2>1, <2>2, <2>4, <2>8, <2>9
<1>4. CASE ~(a > 1 /\ compare(h[a], h[p]))
  <2>1. up(s) = s
    BY <1>4 DEF up
  <2>2. a > 1 => h[p].priority <= h[a].priority
    <3> SUFFICES ASSUME a > 1 PROVE h[p].priority <= h[a].priority
      OBVIOUS
    <3>1. p \in 1..Len(h)
      BY <1>1, ParentFacts
    <3> QED BY <3>1, <1>1, <1>2, <1>4 DEF compare
  <2>3. Ordered(h)
    BY <2>2, <1>1 DEF Ordered, Climbing
  <2> QED BY <2>1, <2>3
<1> QED BY <1>3, <1>4

(* One turn of heapifyDown: the heap is in order, or the node sinks.       *)
LEMMA DownTurn ==
    ASSUME NEW s, s = [heap |-> s.heap, at |-> s.at], Sinking(s.heap, s.at)
    PROVE  \/ down(s) = s /\ Ordered(s.heap)
           \/ /\ down(s) = [heap |-> down(s).heap, at |-> down(s).at]
              /\ Sinking(down(s).heap, down(s).at)
              /\ Rearranges(s.heap, down(s).heap)
              /\ down(s).at > s.at
<1> DEFINE h == s.heap
           a == s.at
           l == smaller(h, 2 * a, a)
           c == smaller(h, 2 * a + 1, l)
           g == swap(h, a, c)
<1>1. h \in Seq(Node) /\ a \in 1..Len(h) /\ Len(h) \in Nat
  BY DEF Sinking
<1>2. \A i \in 1..Len(h) : h[i].priority \in Nat
  BY <1>1, NodeFields
<1>3. parent(2 * a) = a /\ parent(2 * a + 1) = a
  BY <1>1, ChildFacts
<1>4. \A i \in 2..Len(h) : parent(i) = a => i = 2 * a \/ i = 2 * a + 1
  BY <1>1, ParentFacts
<1>5. /\ l \in {a, 2 * a} /\ l \in 1..Len(h)
      /\ l # a => h[l].priority < h[a].priority
      /\ h[l].priority <= h[a].priority
      /\ 2 * a <= Len(h) => h[l].priority <= h[2 * a].priority
  BY <1>1, <1>2 DEF smaller, compare
<1>6. /\ c \in {l, 2 * a + 1} /\ c \in 1..Len(h)
      /\ c # l => h[c].priority < h[l].priority
      /\ h[c].priority <= h[l].priority
      /\ 2 * a + 1 <= Len(h) => h[c].priority <= h[2 * a + 1].priority
  <2> HIDE DEF l
  <2> QED BY <1>1, <1>2, <1>5 DEF smaller, compare
<1>7. \A i \in 2..Len(h) : parent(i) = a => h[c].priority <= h[i].priority
  <2> HIDE DEF l, c
  <2> SUFFICES ASSUME NEW i \in 2..Len(h), parent(i) = a
               PROVE  h[c].priority <= h[i].priority
    OBVIOUS
  <2>1. i = 2 * a \/ i = 2 * a + 1
    BY <1>4
  <2>2. h[c].priority \in Nat /\ h[l].priority \in Nat /\ h[i].priority \in Nat
    BY <1>2, <1>5, <1>6
  <2>3. CASE i = 2 * a
    <3>1. h[l].priority <= h[i].priority
      BY <2>3, <1>1, <1>5
    <3>2. h[c].priority <= h[l].priority
      BY <1>6
    <3> HIDE DEF h
    <3> QED BY <3>1, <3>2, <2>2
  <2>4. CASE i = 2 * a + 1
    BY <2>4, <1>6
  <2> QED BY <2>1, <2>3, <2>4
<1>8. CASE c # a
  <2>1. down(s) = [heap |-> g, at |-> c]
    BY <1>8 DEF down, moved
  <2>2. c \in 2..Len(h) /\ parent(c) = a /\ c > a /\ h[c].priority < h[a].priority
    <3> HIDE DEF l, c
    <3>1. h[c].priority \in Nat /\ h[l].priority \in Nat /\ h[a].priority \in Nat
      BY <1>1, <1>2, <1>5, <1>6
    <3>2. c = 2 * a \/ c = 2 * a + 1
      BY <1>5, <1>6, <1>8
    <3>3. h[c].priority < h[a].priority
      BY <3>1, <1>5, <1>6, <1>8
    <3>4. a \in Nat /\ 1 <= a /\ c \in 1..Len(h)
      BY <1>1, <1>6
    <3> QED BY <3>2, <3>3, <3>4, <1>1, <1>3
  <2> HIDE DEF l, c
  <2>4. /\ Rearranges(h, g)
        /\ \A i \in 1..Len(h) : g[i] = IF i = a THEN h[c] ELSE IF i = c THEN h[a] ELSE h[i]
    BY <1>1, <2>2, SwapRearranges
  <2> HIDE DEF g
  <2>5. g \in Seq(Node) /\ Len(g) = Len(h)
    BY <2>4 DEF Rearranges
  <2>6. ASSUME NEW i \in 2..Len(g), parent(i) # c PROVE g[parent(i)].priority <= g[i].priority
    <3>1. parent(i) \in 1..Len(h) /\ parent(i) < i /\ i \in 1..Len(h) /\ i \in 2..Len(h)
      BY <1>1, <2>5, ParentFacts
    <3>2. CASE i = c
      BY <3>1, <3>2, <2>4, <2>2, <1>1, <1>2
    <3>3. CASE i # c /\ parent(i) = a
      <4>1. h[c].priority <= h[i].priority
        BY <3>1, <3>3, <1>7
      <4> QED BY <4>1, <3>1, <3>3, <2>4, <2>6, <1>2
    <3>4. CASE i = a
      <4>1. h[parent(a)].priority <= h[c].priority
        BY <3>4, <3>1, <2>2 DEF Sinking, GrandparentOrdered
      <4> QED BY <4>1, <3>1, <3>4, <2>4, <2>6, <2>2, <1>2
    <3>5. CASE i # a /\ i # c /\ parent(i) # a
      <4>1. h[parent(i)].priority <= h[i].priority
        BY <3>1, <3>5 DEF Sinking
      <4> QED BY <4>1, <3>1, <3>5, <2>4, <2>6
    <3> QED BY <3>2, <3>3, <3>4, <3>5
  <2>7. GrandparentOrdered(g, c)
    <3> SUFFICES ASSUME NEW i \in 2..Len(g), parent(i) = c
                 PROVE  g[parent(c)].priority <= g[i].priority
      BY DEF GrandparentOrdered
    <3>1. i \in 1..Len(h) /\ c < i /\ i \in 2..Len(h) /\ i # c /\ i # a
      BY <1>1, <2>2, <2>5, ParentFacts
    <3>2. h[c].priority <= h[i].priority
      BY <3>1, <2>2 DEF Sinking
    <3> QED BY <3>1, <3>2, <2>4, <2>2, <1>1
  <2>8. Sinking(g, c)
    BY <2>2, <2>5, <2>6, <2>7 DEF Sinking
  <2>9. down(s).heap = g /\ down(s).at = c
    BY <2>1
  <2> QED BY <2>1, <2>2, <2>4, <2>8, <2>9
<1>9. CASE c = a
  <2>1. down(s) = s
    BY <1>9 DEF down
  <2> HIDE DEF l, c
  <2>2. Ordered(h)
    <3> SUFFICES ASSUME NEW i \in 2..Len(h) PROVE h[parent(i)].priority <= h[i].priority
      BY DEF Ordered
    <3>1. parent(i) = a => h[a].priority <= h[i].priority
      BY <1>7, <1>9
    <3>2. parent(i) # a => h[parent(i)].priority <= h[i].priority
      BY DEF Sinking
    <3> QED BY <3>1, <3>2
  <2> QED BY <2>1, <2>2
<1> QED BY <1>8, <1>9

-----------------------------------------------------------------------------
(* The loops                                                               *)

(* What a loop of the heap goes through: the heap and a position in it.     *)
HeapState == [heap : Seq(Node), at : Nat]

(* heapifyUp: every turn keeps Climbing, and the node climbs at most to the *)
(* root, so the loop has ended after as many turns as the heap has nodes.   *)
LEMMA HeapifyUpOrders ==
    ASSUME NEW h, NEW index, Climbing(h, index)
    PROVE  Ordered(heapifyUp(h, index)) /\ Rearranges(h, heapifyUp(h, index))
<1> DEFINE n == Len(h)
           start == [heap |-> h, at |-> index]
           after[i \in 0..n] == IF i = 0 THEN start ELSE up(after[i - 1])
           Good == {s \in HeapState : Climbing(s.heap, s.at)}
           turns == [i \in 1..n |-> [s \in Good |-> up(s)]]
<1>1. n \in Nat /\ h \in Seq(Node) /\ index \in 1..n
  BY DEF Climbing
<1>2. start \in Good
  BY <1>1 DEF HeapState
<1>3. \A s \in Good : up(s) \in Good
  <2> SUFFICES ASSUME NEW s \in Good PROVE up(s) \in Good
    OBVIOUS
  <2>1. s = [heap |-> s.heap, at |-> s.at] /\ Climbing(s.heap, s.at)
    BY DEF HeapState
  <2>2. CASE up(s) = s
    BY <2>2
  <2>3. CASE up(s) # s
    <3>1. up(s) = [heap |-> up(s).heap, at |-> up(s).at] /\ Climbing(up(s).heap, up(s).at)
      BY <2>1, <2>3, UpTurn
    <3>2. up(s).heap \in Seq(Node) /\ up(s).at \in Nat
      BY <3>1 DEF Climbing
    <3>3. up(s) \in HeapState
      BY <3>1, <3>2, Zenon DEF HeapState
    <3> QED BY <3>1, <3>3
  <2> QED BY <2>2, <2>3
<1>4. turns \in [1..n -> [Good -> Good]]
  BY <1>3
<1>5. after = [i \in 0..n |-> IF i = 0 THEN start ELSE up(after[i - 1])]
  <2>1. PICK f \in [0..n -> Good] : f[0] = start /\ \A i \in 1..n : f[i] = turns[i][f[i - 1]]
    <3> HIDE DEF Good, turns, start, n, after
    <3>1. n \in Nat
      BY <1>1
    <3> QED BY <3>1, <1>2, <1>4, LoopExists
  <2>2. \A i \in 1..n : f[i] = up(f[i - 1])
    <3> SUFFICES ASSUME NEW i \in 1..n PROVE turns[i][f[i - 1]] = up(f[i - 1])
      BY <2>1, Zenon
    <3> HIDE DEF Good, after
    <3>1. f[i - 1] \in Good
      BY <1>1, <2>1
    <3> QED BY <3>1
  <2>3. f = [i \in 0..n |-> IF i = 0 THEN start ELSE up(f[i - 1])]
    <3>1. \A i \in 0..n : f[i] = IF i = 0 THEN start ELSE up(f[i - 1])
      BY <1>1, <2>1, <2>2
    <3>2. f = [i \in 0..n |-> f[i]]
      BY <2>1
    <3> HIDE DEF Good, start, n
    <3> QED BY <3>1, <3>2
  <2> HIDE DEF start, n
  <2> QED BY <2>3, Zenon
<1> HIDE DEF after
<1>6. \A s \in Good : /\ s = [heap |-> s.heap, at |-> s.at] /\ Climbing(s.heap, s.at)
                      /\ s.at \in Nat
  BY DEF HeapState
<1> DEFINE Reached == {m \in Nat : m <= n =>
              /\ after[m] \in Good
              /\ Rearranges(h, after[m].heap)
              /\ up(after[m]) = after[m] \/ after[m].at <= index - m}
<1>7. 0 \in Reached
  <2>1. after[0] = start
    BY <1>1, <1>5
  <2>2. Rearranges(h, start.heap)
    BY <1>1 DEF Rearranges
  <2>3. start.at <= index - 0
    BY <1>1
  <2> HIDE DEF start, Good
  <2> QED BY <1>2, <2>1, <2>2, <2>3
<1>8. ASSUME NEW m \in Nat, m \in Reached PROVE m + 1 \in Reached
  <2> DEFINE s == after[m]
             t == after[m + 1]
  <2> SUFFICES ASSUME m + 1 <= n
               PROVE  /\ t \in Good
                      /\ Rearranges(h, t.heap)
                      /\ up(t) = t \/ t.at <= index - (m + 1)
    OBVIOUS
  <2>1. t = up(s)
    BY <1>1, <1>5
  <2>2. s \in Good /\ Rearranges(h, s.heap) /\ (up(s) = s \/ s.at <= index - m)
    BY <1>8
  <2> HIDE DEF s, t, Good
  <2>3. CASE up(s) = s
    BY <2>1, <2>2, <2>3
  <2>4. CASE up(s) # s
    <3>1. t \in Good /\ t.at \in Nat /\ s.at \in Nat
      BY <1>3, <1>6, <2>1, <2>2
    <3>2. Rearranges(s.heap, t.heap) /\ t.at < s.at
      BY <1>6, <2>1, <2>2, <2>4, UpTurn
    <3>3. Rearranges(h, t.heap)
      BY <2>2, <3>2, RearrangesTransitively
    <3> QED BY <1>1, <2>2, <2>4, <3>1, <3>2, <3>3
  <2> QED BY <2>3, <2>4
<1>9. n \in Reached
  <2> HIDE DEF Reached, n
  <2> QED BY <1>1, <1>7, <1>8, Induction
<1>10. Rearranges(h, after[n].heap) /\ Ordered(after[n].heap)
  <2> DEFINE s == after[n]
  <2>1. s \in Good /\ Rearranges(h, s.heap) /\ (up(s) = s \/ s.at <= index - n)
    BY <1>1, <1>9
  <2> HIDE DEF s, Good
  <2>2. Climbing(s.heap, s.at) /\ s = [heap |-> s.heap, at |-> s.at] /\ s.at \in Nat
    BY <1>6, <2>1
  <2>3. s.at >= 1
    BY <2>2 DEF Climbing
  <2>4. up(s) = s
    BY <1>1, <2>1, <2>2, <2>3
  <2>5. Ordered(s.heap)
    BY <2>2, <2>4, UpTurn
  <2> QED BY <2>1, <2>5 DEF s
<1>11. heapifyUp(h, index) = after[n].heap
  BY DEF heapifyUp, after
<1> QED BY <1>10, <1>11

(* heapifyDown: the same with Sinking, where the node sinks at most to a    *)
(* leaf.                                                                    *)
LEMMA HeapifyDownOrders ==
    ASSUME NEW h, NEW index, Sinking(h, index)
    PROVE  Ordered(heapifyDown(h, index)) /\ Rearranges(h, heapifyDown(h, index))
<1> DEFINE n == Len(h)
           start == [heap |-> h, at |-> index]
           after[i \in 0..n] == IF i = 0 THEN start ELSE down(after[i - 1])
           Good == {s \in HeapState : Sinking(s.heap, s.at)}
           turns == [i \in 1..n |-> [s \in Good |-> down(s)]]
<1>1. n \in Nat /\ h \in Seq(Node) /\ index \in 1..n
  BY DEF Sinking
<1>2. start \in Good
  BY <1>1 DEF HeapState
<1>3. \A s \in Good : down(s) \in Good
  <2> SUFFICES ASSUME NEW s \in Good PROVE down(s) \in Good
    OBVIOUS
  <2>1. s = [heap |-> s.heap, at |-> s.at] /\ Sinking(s.heap, s.at)
    BY DEF HeapState
  <2>2. CASE down(s) = s
    BY <2>2
  <2>3. CASE down(s) # s
    <3>1. down(s) = [heap |-> down(s).heap, at |-> down(s).at] /\ Sinking(down(s).heap, down(s).at)
      BY <2>1, <2>3, DownTurn
    <3>2. down(s).heap \in Seq(Node) /\ down(s).at \in Nat
      BY <3>1 DEF Sinking
    <3>3. down(s) \in HeapState
      BY <3>1, <3>2, Zenon DEF HeapState
    <3> QED BY <3>1, <3>3
  <2> QED BY <2>2, <2>3
<1>4. turns \in [1..n -> [Good -> Good]]
  BY <1>3
<1>5. after = [i \in 0..n |-> IF i = 0 THEN start ELSE down(after[i - 1])]
  <2>1. PICK f \in [0..n -> Good] : f[0] = start /\ \A i \in 1..n : f[i] = turns[i][f[i - 1]]
    <3> HIDE DEF Good, turns, start, n, after
    <3>1. n \in Nat
      BY <1>1
    <3> QED BY <3>1, <1>2, <1>4, LoopExists
  <2>2. \A i \in 1..n : f[i] = down(f[i - 1])
    <3> SUFFICES ASSUME NEW i \in 1..n PROVE turns[i][f[i - 1]] = down(f[i - 1])
      BY <2>1, Zenon
    <3> HIDE DEF Good, after
    <3>1. f[i - 1] \in Good
      BY <1>1, <2>1
    <3> QED BY <3>1
  <2>3. f = [i \in 0..n |-> IF i = 0 THEN start ELSE down(f[i - 1])]
    <3>1. \A i \in 0..n : f[i] = IF i = 0 THEN start ELSE down(f[i - 1])
      BY <1>1, <2>1, <2>2
    <3>2. f = [i \in 0..n |-> f[i]]
      BY <2>1
    <3> HIDE DEF Good, start, n
    <3> QED BY <3>1, <3>2
  <2> HIDE DEF start, n
  <2> QED BY <2>3, Zenon
<1> HIDE DEF after
<1>6. \A s \in Good : /\ s = [heap |-> s.heap, at |-> s.at] /\ Sinking(s.heap, s.at)
                      /\ s.at \in Nat
  BY DEF HeapState
<1> DEFINE Reached == {m \in Nat : m <= n =>
              /\ after[m] \in Good
              /\ Rearranges(h, after[m].heap)
              /\ down(after[m]) = after[m] \/ after[m].at >= index + m}
<1>7. 0 \in Reached
  <2>1. after[0] = start
    BY <1>1, <1>5
  <2>2. Rearranges(h, start.heap)
    BY <1>1 DEF Rearranges
  <2>3. start.at >= index + 0
    BY <1>1
  <2> HIDE DEF start, Good
  <2> QED BY <1>2, <2>1, <2>2, <2>3
<1>8. ASSUME NEW m \in Nat, m \in Reached PROVE m + 1 \in Reached
  <2> DEFINE s == after[m]
             t == after[m + 1]
  <2> SUFFICES ASSUME m + 1 <= n
               PROVE  /\ t \in Good
                      /\ Rearranges(h, t.heap)
                      /\ down(t) = t \/ t.at >= index + (m + 1)
    OBVIOUS
  <2>1. t = down(s)
    BY <1>1, <1>5
  <2>2. s \in Good /\ Rearranges(h, s.heap) /\ (down(s) = s \/ s.at >= index + m)
    BY <1>8
  <2> HIDE DEF s, t, Good
  <2>3. CASE down(s) = s
    BY <2>1, <2>2, <2>3
  <2>4. CASE down(s) # s
    <3>1. t \in Good /\ t.at \in Nat /\ s.at \in Nat
      BY <1>3, <1>6, <2>1, <2>2
    <3>2. Rearranges(s.heap, t.heap) /\ t.at > s.at
      BY <1>6, <2>1, <2>2, <2>4, DownTurn
    <3>3. Rearranges(h, t.heap)
      BY <2>2, <3>2, RearrangesTransitively
    <3> QED BY <1>1, <2>2, <2>4, <3>1, <3>2, <3>3
  <2> QED BY <2>3, <2>4
<1>9. n \in Reached
  <2> HIDE DEF Reached, n
  <2> QED BY <1>1, <1>7, <1>8, Induction
<1>10. Rearranges(h, after[n].heap) /\ Ordered(after[n].heap)
  <2> DEFINE s == after[n]
  <2>1. s \in Good /\ Rearranges(h, s.heap) /\ (down(s) = s \/ s.at >= index + n)
    BY <1>1, <1>9
  <2> HIDE DEF s, Good
  <2>2. Sinking(s.heap, s.at) /\ s = [heap |-> s.heap, at |-> s.at] /\ s.at \in Nat
    BY <1>6, <2>1
  <2>3. s.at <= n
    <3>1. s.at <= Len(s.heap) /\ Len(s.heap) = n
      BY <2>1, <2>2 DEF Sinking, Rearranges
    <3> QED BY <3>1
  <2>4. down(s) = s
    BY <1>1, <2>1, <2>2, <2>3
  <2>5. Ordered(s.heap)
    BY <2>2, <2>4, DownTurn
  <2> QED BY <2>1, <2>5 DEF s
<1>11. heapifyDown(h, index) = after[n].heap
  BY DEF heapifyDown, after
<1> QED BY <1>10, <1>11

-----------------------------------------------------------------------------
(* The methods of the heap                                                 *)

(* The root of a heap in order has the lowest priority number.             *)
LEMMA HeadIsLeast ==
    ASSUME NEW h \in Seq(Node), Ordered(h)
    PROVE  \A j \in 1..Len(h) : h[1].priority <= h[j].priority
<1> DEFINE Reached == {m \in Nat : \A j \in 1..Len(h) : j <= m => h[1].priority <= h[j].priority}
<1>1. \A i \in 1..Len(h) : h[i].priority \in Nat
  BY NodeFields
<1>2. 0 \in Reached
  OBVIOUS
<1>3. ASSUME NEW m \in Nat, m \in Reached PROVE m + 1 \in Reached
  <2> SUFFICES ASSUME m + 1 \in 1..Len(h) PROVE h[1].priority <= h[m + 1].priority
    BY <1>3
  <2>1. CASE m = 0
    BY <2>1, <1>1
  <2>2. CASE m > 0
    <3>1. parent(m + 1) \in 1..Len(h) /\ parent(m + 1) <= m /\ m + 1 \in 2..Len(h)
      BY <2>2, ParentFacts
    <3>2. h[parent(m + 1)].priority <= h[m + 1].priority
      BY <3>1 DEF Ordered
    <3>3. h[1].priority <= h[parent(m + 1)].priority
      BY <3>1, <1>3
    <3>4. 1 \in 1..Len(h)
      BY <3>1
    <3> QED BY <3>1, <3>2, <3>3, <3>4, <1>1
  <2> QED BY <2>1, <2>2
<1>4. Nat \subseteq Reached
  <2> HIDE DEF Reached
  <2> QED BY <1>2, <1>3, Induction
<1>5. Len(h) \in Reached
  BY <1>4
<1> QED BY <1>5

(* A heap of distinct tasks in order.                                      *)
GoodHeap(h) == h \in Seq(Node) /\ Ordered(h) /\ Distinct(h)

LEMMA EnqueueAdds ==
    ASSUME NEW h, GoodHeap(h), NEW node \in Node, \A x \in Content(h) : x.task # node.task
    PROVE  /\ GoodHeap(enqueue(h, node))
           /\ Content(enqueue(h, node)) = Content(h) \cup {node}
           /\ Len(enqueue(h, node)) = Len(h) + 1
<1> DEFINE n == Len(h)
           a == Append(h, node)
<1>1. n \in Nat /\ a \in Seq(Node) /\ Len(a) = n + 1 /\ h \in Seq(Node)
  BY DEF GoodHeap
<1>2. a[n + 1] = node /\ \A i \in 1..n : a[i] = h[i]
  BY <1>1
<1> HIDE DEF a
<1>3. Climbing(a, n + 1)
  <2>1. ASSUME NEW i \in 2..Len(a), i # n + 1 PROVE a[parent(i)].priority <= a[i].priority
    <3>1. i \in 1..n /\ i \in 2..n /\ parent(i) \in 1..n
      BY <1>1, <2>1, ParentFacts
    <3>2. h[parent(i)].priority <= h[i].priority
      BY <3>1 DEF GoodHeap, Ordered
    <3> QED BY <3>1, <3>2, <1>2
  <2>2. \A i \in 2..Len(a) : parent(i) # n + 1
    BY <1>1, ParentFacts
  <2>3. GrandparentOrdered(a, n + 1)
    BY <2>2 DEF GrandparentOrdered
  <2> QED BY <1>1, <2>1, <2>3 DEF Climbing
<1>4. Ordered(enqueue(h, node)) /\ Rearranges(a, enqueue(h, node))
  BY <1>3, HeapifyUpOrders DEF enqueue, a
<1>5. Content(a) = Content(h) \cup {node}
  <2>1. ASSUME NEW i \in 1..n + 1 PROVE a[i] \in Content(h) \cup {node}
    <3>1. CASE i = n + 1
      BY <3>1, <1>2
    <3>2. CASE i # n + 1
      <4>1. i \in 1..n
        BY <1>1, <3>2
      <4> QED BY <4>1, <1>2 DEF Content
    <3> QED BY <3>1, <3>2
  <2>2. ASSUME NEW i \in 1..n PROVE h[i] \in Content(a)
    <3>1. i \in 1..Len(a) /\ a[i] = h[i]
      BY <1>1, <1>2
    <3> QED BY <3>1, Zenon DEF Content
  <2>3. node \in Content(a)
    <3>1. n + 1 \in 1..Len(a)
      BY <1>1
    <3> QED BY <3>1, <1>2, Zenon DEF Content
  <2>4. Content(a) = {a[i] : i \in 1..n + 1}
    BY <1>1 DEF Content
  <2>5. Content(h) = {h[i] : i \in 1..n}
    BY DEF Content
  <2> QED BY <2>1, <2>2, <2>3, <2>4, <2>5
<1>6. Distinct(a)
  <2> SUFFICES ASSUME NEW i \in 1..Len(a), NEW j \in 1..Len(a), a[i].task = a[j].task
               PROVE  i = j
    BY DEF Distinct
  <2>1. \A k \in 1..n : h[k].task # node.task
    BY DEF Content
  <2>2. \A k, l \in 1..n : h[k].task = h[l].task => k = l
    BY DEF GoodHeap, Distinct
  <2> QED BY <1>1, <1>2, <2>1, <2>2
<1> QED BY <1>1, <1>4, <1>5, <1>6 DEF GoodHeap, Rearranges

LEMMA DequeueRemovesHead ==
    ASSUME NEW h, GoodHeap(h), h # <<>>
    PROVE  /\ GoodHeap(dequeue(h))
           /\ Content(dequeue(h)) = Content(h) \ {peek(h)}
           /\ Len(dequeue(h)) = Len(h) - 1
           /\ peek(h) = h[1] /\ peek(h) \in Content(h)
<1> DEFINE n == Len(h)
<1>1. n \in Nat /\ n >= 1 /\ h \in Seq(Node) /\ peek(h) = h[1]
  BY DEF GoodHeap, peek
<1>2. peek(h) \in Content(h)
  BY <1>1 DEF Content
<1>3. CASE n = 1
  <2>1. dequeue(h) = <<>>
    BY <1>3 DEF dequeue
  <2>2. GoodHeap(<<>>) /\ Content(<<>>) = {}
    BY DEF GoodHeap, Ordered, Distinct, Content
  <2>3. Content(h) = {h[1]}
    BY <1>3 DEF Content
  <2> QED BY <1>1, <1>2, <1>3, <2>1, <2>2, <2>3
<1>4. CASE n # 1
  <2>0. n >= 2 /\ \A i \in 1..n - 1 : h[i] \in Node
    <3> HIDE DEF n
    <3>0. n \in Nat /\ n >= 1
      BY <1>1
    <3>1. n >= 2
      BY <3>0, <1>4
    <3>2. \A i \in 1..n : h[i] \in Node
      BY <1>1 DEF n
    <3> QED BY <1>1, <3>1, <3>2
  <2> DEFINE a == [Front(h) EXCEPT ![1] = Last(h)]
  <2>1. /\ a \in Seq(Node) /\ Len(a) = n - 1 /\ n >= 2
        /\ a[1] = h[n]
        /\ \A i \in 2..n - 1 : a[i] = h[i]
    <3>1. /\ Front(h) \in Seq(Node) /\ Len(Front(h)) = n - 1 /\ n >= 2
          /\ \A i \in 1..n - 1 : Front(h)[i] = h[i]
      <4> DEFINE m == n - 1
      <4>2. m \in Int /\ 1 \in Int /\ \A i \in 1..m : h[i] \in Node
        BY <1>1, <2>0
      <4>3. /\ SubSeq(h, 1, m) \in Seq(Node)
            /\ Len(SubSeq(h, 1, m)) = IF 1 <= m THEN m - 1 + 1 ELSE 0
            /\ \A i \in 1..m - 1 + 1 : SubSeq(h, 1, m)[i] = h[1 + i - 1]
        <5> HIDE DEF m
        <5> QED BY <4>2, SubSeqProperties
      <4>4. Front(h) = SubSeq(h, 1, m)
        BY DEF Front
      <4>5. m - 1 + 1 = m /\ 1 <= m /\ \A i \in 1..m : 1 + i - 1 = i
        BY <2>0, <4>2
      <4> QED BY <2>0, <4>3, <4>4, <4>5
    <3>2. Last(h) = h[n] /\ h[n] \in Node
      BY <1>1 DEF Last
    <3> QED BY <3>1, <3>2
  <2> HIDE DEF a
  <2>2. Sinking(a, 1)
    <3>1. ASSUME NEW i \in 2..Len(a), parent(i) # 1 PROVE a[parent(i)].priority <= a[i].priority
      <4>1. i \in 2..n - 1 /\ parent(i) \in 2..n - 1 /\ i \in 2..n
        BY <1>1, <2>1, <3>1, ParentFacts
      <4>2. h[parent(i)].priority <= h[i].priority
        BY <4>1 DEF GoodHeap, Ordered
      <4> QED BY <4>1, <4>2, <2>1
    <3>2. GrandparentOrdered(a, 1)
      BY DEF GrandparentOrdered
    <3> QED BY <1>1, <2>1, <3>1, <3>2 DEF Sinking
  <2>3. Ordered(dequeue(h)) /\ Rearranges(a, dequeue(h))
    BY <1>4, <2>2, HeapifyDownOrders DEF dequeue, a
  <2>4. \A i \in 1..n : h[i] = h[1] => i = 1
    BY <1>1 DEF GoodHeap, Distinct
  <2>5. Content(a) = Content(h) \ {h[1]}
    <3>1. ASSUME NEW i \in 1..n - 1 PROVE a[i] \in Content(h) \ {h[1]}
      <4>1. CASE i = 1
        <5>1. n \in 1..n /\ a[i] = h[n] /\ h[n] # h[1]
          BY <1>1, <2>1, <2>4, <4>1
        <5> QED BY <5>1, Zenon DEF Content
      <4>2. CASE i # 1
        <5>1. i \in 1..n /\ a[i] = h[i] /\ h[i] # h[1]
          BY <1>1, <2>1, <2>4, <4>2
        <5> QED BY <5>1, Zenon DEF Content
      <4> QED BY <4>1, <4>2
    <3>2. ASSUME NEW i \in 1..n, i # 1 PROVE h[i] \in Content(a)
      <4>1. CASE i = n
        <5>1. 1 \in 1..Len(a) /\ a[1] = h[i]
          BY <1>1, <2>1, <4>1
        <5> QED BY <5>1, Zenon DEF Content
      <4>2. CASE i # n
        <5>1. i \in 1..Len(a) /\ a[i] = h[i]
          BY <1>1, <2>1, <3>2, <4>2
        <5> QED BY <5>1, Zenon DEF Content
      <4> QED BY <4>1, <4>2
    <3>3. Content(a) = {a[i] : i \in 1..n - 1}
      BY <2>1 DEF Content
    <3>4. Content(h) = {h[i] : i \in 1..n}
      BY DEF Content
    <3> QED BY <3>1, <3>2, <3>3, <3>4
  <2>6. Distinct(a)
    <3> SUFFICES ASSUME NEW i \in 1..Len(a), NEW j \in 1..Len(a), a[i].task = a[j].task
                 PROVE  i = j
      BY DEF Distinct
    <3>1. \A k, l \in 1..n : h[k].task = h[l].task => k = l
      BY DEF GoodHeap, Distinct
    <3> DEFINE from(k) == IF k = 1 THEN n ELSE k
    <3>2. \A k \in 1..n - 1 : a[k] = h[from(k)] /\ from(k) \in 1..n
      BY <1>1, <2>1
    <3>3. from(i) = from(j)
      <4> HIDE DEF from
      <4> QED BY <2>1, <3>1, <3>2
    <3> QED BY <2>1, <3>3
  <2> QED BY <1>1, <1>2, <2>1, <2>3, <2>5, <2>6 DEF GoodHeap, Rearranges
<1> QED BY <1>3, <1>4

(* What the loop of a polling tick leaves: a heap in order, without some   *)
(* of the nodes that are due, whose head, if there is one, is not due.     *)
drained == LET after[n \in 0..Len(heap)] ==
                   IF n = 0 THEN heap ELSE removeDueHead(after[n - 1])
           IN  after[Len(heap)]

LEMMA PollDrains ==
    ASSUME GoodHeap(heap)
    PROVE  /\ GoodHeap(drained)
           /\ Content(drained) \subseteq Content(heap)
           /\ \A x \in Content(heap) \ Content(drained) : x.executeAt <= now
           /\ drained # <<>> => ~(peek(drained).executeAt <= now)
<1> DEFINE n == Len(heap)
           after[i \in 0..n] == IF i = 0 THEN heap ELSE removeDueHead(after[i - 1])
           Good == {h \in Seq(Node) : GoodHeap(h)}
           turns == [i \in 1..n |-> [h \in Good |-> removeDueHead(h)]]
<1>1. n \in Nat /\ heap \in Good
  BY DEF GoodHeap
<1>2. \A h \in Good : h # <<>> /\ peek(h).executeAt <= now =>
          /\ removeDueHead(h) = dequeue(h)
          /\ removeDueHead(h) \in Good
          /\ Content(removeDueHead(h)) = Content(h) \ {peek(h)}
          /\ Len(removeDueHead(h)) = Len(h) - 1
          /\ peek(h) \in Content(h)
  BY DequeueRemovesHead DEF removeDueHead, GoodHeap
<1>3. \A h \in Good : ~(h # <<>> /\ peek(h).executeAt <= now) => removeDueHead(h) = h
  BY DEF removeDueHead
<1>4. turns \in [1..n -> [Good -> Good]]
  <2> HIDE DEF Good
  <2> QED BY <1>2, <1>3
<1>5. after = [i \in 0..n |-> IF i = 0 THEN heap ELSE removeDueHead(after[i - 1])]
  <2>1. PICK f \in [0..n -> Good] : f[0] = heap /\ \A i \in 1..n : f[i] = turns[i][f[i - 1]]
    <3> HIDE DEF Good, turns, n, after
    <3> QED BY <1>1, <1>4, LoopExists
  <2>2. \A i \in 1..n : f[i] = removeDueHead(f[i - 1])
    <3> SUFFICES ASSUME NEW i \in 1..n PROVE turns[i][f[i - 1]] = removeDueHead(f[i - 1])
      BY <2>1, Zenon
    <3> HIDE DEF Good, after
    <3>1. f[i - 1] \in Good
      BY <1>1, <2>1
    <3> QED BY <3>1
  <2>3. f = [i \in 0..n |-> IF i = 0 THEN heap ELSE removeDueHead(f[i - 1])]
    <3>1. \A i \in 0..n : f[i] = IF i = 0 THEN heap ELSE removeDueHead(f[i - 1])
      BY <1>1, <2>1, <2>2
    <3>2. f = [i \in 0..n |-> f[i]]
      BY <2>1
    <3> HIDE DEF Good, n
    <3> QED BY <3>1, <3>2
  <2> HIDE DEF n
  <2> QED BY <2>3, Zenon
<1> HIDE DEF after
<1> DEFINE Left(h, turnsMade) ==
              /\ h \in Good
              /\ Content(h) \subseteq Content(heap)
              /\ \A x \in Content(heap) \ Content(h) : x.executeAt <= now
              /\ removeDueHead(h) = h \/ Len(h) <= n - turnsMade
           Reached == {m \in Nat : m <= n => Left(after[m], m)}
<1>6. 0 \in Reached
  <2>1. after[0] = heap
    BY <1>1, <1>5
  <2> QED BY <1>1, <2>1
<1>7. ASSUME NEW m \in Nat, m \in Reached PROVE m + 1 \in Reached
  <2> DEFINE h == after[m]
             g == after[m + 1]
  <2> SUFFICES ASSUME m + 1 <= n PROVE Left(g, m + 1)
    OBVIOUS
  <2>1. g = removeDueHead(h)
    BY <1>1, <1>5
  <2>2. Left(h, m)
    BY <1>7
  <2> HIDE DEF h, g, Good, n
  <2>3. CASE removeDueHead(h) = h
    BY <2>1, <2>2, <2>3
  <2>4. CASE removeDueHead(h) # h
    <3>1. h # <<>> /\ peek(h).executeAt <= now
      BY <1>3, <2>2, <2>4
    <3>2. Len(h) \in Nat
      BY <2>2 DEF Good
    <3> QED BY <1>1, <1>2, <2>1, <2>2, <2>4, <3>1, <3>2
  <2> QED BY <2>3, <2>4
<1>8. n \in Reached
  <2> HIDE DEF Reached, n
  <2> QED BY <1>1, <1>6, <1>7, Induction
<1>9. Left(after[n], n)
  BY <1>1, <1>8
<1>10. drained = after[n]
  BY DEF drained, after
<1>11. ASSUME drained # <<>>, peek(drained).executeAt <= now PROVE FALSE
  <2> HIDE DEF Good
  <2>1. Len(removeDueHead(drained)) = Len(drained) - 1 /\ drained \in Good
    BY <1>2, <1>9, <1>10, <1>11
  <2>2. Len(drained) \in Nat /\ Len(drained) # 0
    BY <1>11, <2>1 DEF Good
  <2>3. removeDueHead(drained) # drained
    BY <2>1, <2>2
  <2> QED BY <1>1, <1>9, <1>10, <2>2, <2>3
<1> QED BY <1>9, <1>10, <1>11

-----------------------------------------------------------------------------
(* The inductive invariant                                                 *)

(* Every body that waits holds the lock once, and no call waits for it.    *)
LockCountsBodies ==
    mutex = IF pending = <<>> THEN FreeMutex
            ELSE [locked |-> TRUE, currentOwner |-> ThreadId,
                  lockCount |-> Len(pending), queue |-> <<>>]

Inv ==
    /\ TypeOK
    /\ Ordered(heap)
    /\ Distinct(heap)
    /\ taskSet = {x.task : x \in Content(heap)}
    /\ LockCountsBodies

BodyOf(method) == [method : {method}, node : IF method = "enqueue" THEN Node ELSE {NoNode}]

LEMMA NoNodeIsNone == NoNode \notin Node
BY AdvancedTaskQueueAssumption DEF NoNode, Node

(* The owner enters again, and anyone enters a free lock.                  *)
LEMMA LockNeverWaits ==
    ASSUME LockCountsBodies, pending \in Seq(Calls), NEW call \in Calls
    PROVE  /\ ~mustWait(mutex)
           /\ lock(mutex, call) = [locked |-> TRUE, currentOwner |-> ThreadId,
                                   lockCount |-> Len(pending) + 1, queue |-> <<>>]
<1>1. CASE pending = <<>>
  <2>1. mutex = FreeMutex /\ Len(pending) = 0
    BY <1>1 DEF LockCountsBodies
  <2>2. ~Owned(mutex) /\ ~mustWait(mutex)
    BY <2>1 DEF FreeMutex, Owned, mustWait, ThreadId, Nobody
  <2>3. lock(mutex, call) = acquired(mutex)
    BY <2>2 DEF lock
  <2> QED BY <2>1, <2>2, <2>3 DEF acquired, FreeMutex
<1>2. CASE pending # <<>>
  <2>1. mutex = [locked |-> TRUE, currentOwner |-> ThreadId,
                 lockCount |-> Len(pending), queue |-> <<>>]
    BY <1>2 DEF LockCountsBodies
  <2>2. Owned(mutex)
    BY <2>1 DEF Owned
  <2>3. ~mustWait(mutex)
    BY <2>2 DEF mustWait
  <2>4. lock(mutex, call) = [mutex EXCEPT !.lockCount = @ + 1]
    BY <2>2, <2>3 DEF lock
  <2> QED BY <2>1, <2>3, <2>4
<1> QED BY <1>1, <1>2

(* Only the last body that waits frees the lock, and nobody is resumed.    *)
LEMMA UnlockFreesLast ==
    ASSUME LockCountsBodies, pending \in Seq(Calls), pending # <<>>
    PROVE  /\ resumed(mutex) = <<>>
           /\ unlock(mutex) = IF Len(pending) = 1 THEN FreeMutex
                              ELSE [locked |-> TRUE, currentOwner |-> ThreadId,
                                    lockCount |-> Len(pending) - 1, queue |-> <<>>]
<1>1. mutex = [locked |-> TRUE, currentOwner |-> ThreadId,
               lockCount |-> Len(pending), queue |-> <<>>]
  BY DEF LockCountsBodies
<1>2. Owned(mutex) /\ ~handsOver(mutex) /\ resumed(mutex) = <<>>
  BY <1>1 DEF Owned, handsOver, resumed
<1>3. Len(pending) \in Nat \ {0} /\ mutex.lockCount = Len(pending)
  BY <1>1
<1>4. CASE Len(pending) = 1
  <2>1. unlock(mutex) = FreeMutex
    <3>1. ~(mutex.lockCount > 1)
      BY <1>3, <1>4
    <3> QED BY <1>2, <3>1 DEF unlock
  <2> QED BY <1>2, <1>4, <2>1
<1>5. CASE Len(pending) # 1
  <2>1. unlock(mutex) = [mutex EXCEPT !.lockCount = @ - 1]
    <3>1. mutex.lockCount > 1
      <4> DEFINE n == Len(pending)
      <4>1. n \in Nat /\ n # 0 /\ n # 1
        BY <1>3, <1>5
      <4>2. n > 1
        <5> HIDE DEF n
        <5> QED BY <4>1
      <4> QED BY <1>3, <4>2
    <3> QED BY <1>2, <3>1 DEF unlock
  <2> QED BY <1>1, <1>2, <1>5, <2>1
<1> QED BY <1>4, <1>5

(* What the lock's type comes to when it counts the bodies.                *)
LEMMA MutexTyped ==
    ASSUME NEW n \in Nat
    PROVE  /\ [locked |-> TRUE, currentOwner |-> ThreadId, lockCount |-> n, queue |-> <<>>]
                 \in [locked : BOOLEAN, currentOwner : {ThreadId, Nobody},
                      lockCount : Nat, queue : Seq(Calls)]
           /\ FreeMutex \in [locked : BOOLEAN, currentOwner : {ThreadId, Nobody},
                             lockCount : Nat, queue : Seq(Calls)]
<1>1. <<>> \in Seq(Calls)
  OBVIOUS
<1> QED BY <1>1 DEF FreeMutex

(* A call adds its body, and counts one more lock.                         *)
LEMMA CallPreservesInv ==
    ASSUME Inv, NEW method \in {"enqueue", "dequeue", "poll"},
           NEW node, node \in (IF method = "enqueue" THEN Node ELSE {NoNode}),
           Call(method, node)
    PROVE  Inv'
<1> DEFINE call == [method |-> method, node |-> node]
<1>1. call \in Calls
  BY DEF Calls
<1>2. pending \in Seq(Calls) /\ LockCountsBodies
  BY DEF Inv, TypeOK
<1>3. /\ mutex' = lock(mutex, call)
      /\ pending' = IF mustWait(mutex) THEN pending ELSE Append(pending, call)
      /\ UNCHANGED <<heap, taskSet, now, taken>>
  BY DEF Call
<1> HIDE DEF call
<1>4. /\ pending' = Append(pending, call)
      /\ mutex' = [locked |-> TRUE, currentOwner |-> ThreadId,
                   lockCount |-> Len(pending) + 1, queue |-> <<>>]
  BY <1>1, <1>2, <1>3, LockNeverWaits
<1>5. pending' \in Seq(Calls) /\ Len(pending') = Len(pending) + 1 /\ pending' # <<>>
      /\ Len(pending') \in Nat
  BY <1>1, <1>2, <1>4
<1>6. LockCountsBodies'
  BY <1>4, <1>5 DEF LockCountsBodies
<1>7. TypeOK'
  BY <1>3, <1>4, <1>5, MutexTyped DEF Inv, TypeOK
<1> QED BY <1>3, <1>6, <1>7 DEF Inv, Ordered, Distinct, Content

(* A body is gone when it has run, and so is its lock.                     *)
LEMMA BodyTakesFirst ==
    ASSUME Inv, NEW method \in {"enqueue", "dequeue", "poll"}, Body(method)
    PROVE  /\ pending' \in Seq(Calls)
           /\ mutex' \in [locked : BOOLEAN, currentOwner : {ThreadId, Nobody},
                          lockCount : Nat, queue : Seq(Calls)]
           /\ LockCountsBodies'
           /\ method = "enqueue" => Head(pending).node \in Node
<1>1. pending \in Seq(Calls) /\ pending # <<>> /\ Head(pending).method = method
      /\ LockCountsBodies
  BY DEF Inv, TypeOK, Body
<1>2. pending' = Tail(pending) /\ mutex' = unlock(mutex)
  <2>1. pending' = Tail(pending) \o <<>> /\ mutex' = unlock(mutex)
    BY <1>1, UnlockFreesLast DEF Body
  <2>2. Tail(pending) \in Seq(Calls)
    BY <1>1
  <2> QED BY <2>1, <2>2
<1>3. /\ Head(pending) \in Calls /\ Tail(pending) \in Seq(Calls)
      /\ Len(Tail(pending)) = Len(pending) - 1 /\ Len(Tail(pending)) \in Nat
      /\ (Tail(pending) = <<>> <=> Len(pending) = 1)
  <2>1. Head(pending) \in Calls /\ Tail(pending) \in Seq(Calls)
    BY <1>1
  <2>2. Len(Tail(pending)) = Len(pending) - 1 /\ Len(Tail(pending)) \in Nat
        /\ Len(pending) \in Nat
    BY <1>1
  <2> DEFINE rest == Tail(pending)
  <2>3. (rest = <<>>) <=> (Len(rest) = 0)
    <3>1. rest \in Seq(Calls)
      BY <2>1
    <3> HIDE DEF rest
    <3> QED BY <3>1
  <2>4. (Len(pending) = 1) <=> (Len(Tail(pending)) = 0)
    BY <2>2
  <2> QED BY <2>1, <2>2, <2>3, <2>4
<1>4. method = "enqueue" => Head(pending).node \in Node
  BY <1>1, <1>3 DEF Calls
<1>5. mutex' = IF Tail(pending) = <<>> THEN FreeMutex
               ELSE [locked |-> TRUE, currentOwner |-> ThreadId,
                     lockCount |-> Len(Tail(pending)), queue |-> <<>>]
  BY <1>1, <1>2, <1>3, UnlockFreesLast
<1>6. LockCountsBodies'
  BY <1>2, <1>5 DEF LockCountsBodies
<1> QED BY <1>2, <1>3, <1>4, <1>5, <1>6, MutexTyped

(* What a body leaves to be shown of the heap and the keys.                *)
LEMMA BodyPreservesInv ==
    ASSUME Inv, NEW method \in {"enqueue", "dequeue", "poll"}, Body(method),
           GoodHeap(heap'), taskSet' = {x.task : x \in Content(heap')},
           taken' \in Tasks \cup {NoTask}
    PROVE  Inv'
<1>1. heap' \in Seq(Node) /\ Ordered(heap)' /\ Distinct(heap)'
  BY DEF GoodHeap, Ordered, Distinct
<1>2. Content(heap)' = Content(heap')
  BY DEF Content
<1>3. taskSet' \subseteq Tasks
  <2>1. \A x \in Content(heap') : x.task \in Tasks
    BY <1>1, NodeFields DEF Content
  <2> QED BY <2>1
<1>4. now' \in 0..MaxNow
  BY DEF Inv, TypeOK, Body
<1>5. TypeOK'
  BY <1>1, <1>3, <1>4, BodyTakesFirst DEF TypeOK
<1>6. LockCountsBodies'
  BY BodyTakesFirst
<1> QED BY <1>1, <1>2, <1>5, <1>6 DEF Inv

(* A key is in the set exactly if a node has it.                           *)
LEMMA ContentFacts ==
    ASSUME Inv
    PROVE  /\ GoodHeap(heap)
           /\ Content(heap) \subseteq Node
           /\ \A x, y \in Content(heap) : x.task = y.task => x = y
           /\ heap # <<>> => peek(heap) \in Content(heap)
<1>1. GoodHeap(heap) /\ heap \in Seq(Node)
  BY DEF Inv, TypeOK, GoodHeap
<1>2. Content(heap) \subseteq Node
  BY <1>1 DEF Content
<1>3. \A x, y \in Content(heap) : x.task = y.task => x = y
  BY <1>1 DEF Content, GoodHeap, Distinct
<1> QED BY <1>1, <1>2, <1>3, DequeueRemovesHead

LEMMA EnqueueBodyPreservesInv ==
    ASSUME Inv, EnqueueBody
    PROVE  Inv'
<1> DEFINE node == Head(pending).node
<1>1. Body("enqueue") /\ node \in Node
  BY BodyTakesFirst DEF EnqueueBody
<1>2. taken' \in Tasks \cup {NoTask}
  BY DEF EnqueueBody, Inv, TypeOK
<1>3. CASE node.task \in taskSet
  <2>1. heap' = heap /\ taskSet' = taskSet
    BY <1>3 DEF EnqueueBody
  <2> QED BY <2>1, <1>1, <1>2, ContentFacts, BodyPreservesInv DEF Inv
<1>4. CASE node.task \notin taskSet
  <2>1. heap' = enqueue(heap, node) /\ taskSet' = taskSet \cup {node.task}
    BY <1>4 DEF EnqueueBody
  <2>2. \A x \in Content(heap) : x.task # node.task
    BY <1>4 DEF Inv
  <2>3. GoodHeap(heap') /\ Content(heap') = Content(heap) \cup {node}
    BY <1>1, <2>1, <2>2, ContentFacts, EnqueueAdds
  <2>4. taskSet' = {x.task : x \in Content(heap')}
    BY <2>1, <2>3 DEF Inv
  <2> QED BY <1>1, <1>2, <2>3, <2>4, BodyPreservesInv
<1> QED BY <1>3, <1>4

(* A head that is not due is put back: the nodes are the same.             *)
LEMMA PutBack ==
    ASSUME NEW h, GoodHeap(h), h # <<>>
    PROVE  GoodHeap(enqueue(dequeue(h), peek(h))) /\ Content(enqueue(dequeue(h), peek(h))) = Content(h)
<1>1. /\ GoodHeap(dequeue(h)) /\ Content(dequeue(h)) = Content(h) \ {peek(h)}
      /\ peek(h) \in Content(h)
  BY DequeueRemovesHead
<1>2. peek(h) \in Node
  BY <1>1 DEF GoodHeap, Content
<1>3. \A x \in Content(dequeue(h)) : x.task # peek(h).task
  <2>1. \A x, y \in Content(h) : x.task = y.task => x = y
    BY DEF Content, GoodHeap, Distinct
  <2> QED BY <1>1, <2>1
<1> QED BY <1>1, <1>2, <1>3, EnqueueAdds

LEMMA DequeueBodyPreservesInv ==
    ASSUME Inv, DequeueBody
    PROVE  Inv'
<1>1. Body("dequeue")
  BY DEF DequeueBody
<1>2. CASE heap # <<>> /\ peek(heap).executeAt <= now
  <2>1. heap' = dequeue(heap) /\ taskSet' = taskSet \ {peek(heap).task} /\ taken' = peek(heap).task
    BY <1>2 DEF DequeueBody
  <2>2. /\ GoodHeap(heap') /\ Content(heap') = Content(heap) \ {peek(heap)}
        /\ peek(heap) \in Content(heap)
    BY <1>2, <2>1, ContentFacts, DequeueRemovesHead
  <2>3. taskSet' = {x.task : x \in Content(heap')}
    BY <2>1, <2>2, ContentFacts DEF Inv
  <2>4. taken' \in Tasks
    BY <2>1, <2>2, ContentFacts, NodeFields
  <2> QED BY <1>1, <2>2, <2>3, <2>4, BodyPreservesInv
<1>3. CASE ~(heap # <<>> /\ peek(heap).executeAt <= now)
  <2>1. taken' = NoTask /\ taskSet' = taskSet
        /\ heap' = IF heap = <<>> THEN heap ELSE enqueue(dequeue(heap), peek(heap))
    BY <1>3 DEF DequeueBody
  <2>2. GoodHeap(heap') /\ Content(heap') = Content(heap)
    BY <2>1, ContentFacts, PutBack
  <2> QED BY <1>1, <2>1, <2>2, BodyPreservesInv DEF Inv
<1> QED BY <1>2, <1>3

(* The keys that a tick removes are those of the nodes it removes.         *)
LEMMA PollBodyEffect ==
    ASSUME Inv, PollBody
    PROVE  /\ heap' = drained
           /\ taskSet' = {x.task : x \in Content(heap')}
<1>1. heap' = drained
  BY DEF PollBody, drained
<1>2. /\ GoodHeap(heap') /\ Content(heap') \subseteq Content(heap)
  BY <1>1, ContentFacts, PollDrains
<1> DEFINE gone == {heap[i].task : i \in {j \in 1..Len(heap) : ~Contains(heap', heap[j])}}
<1>3. taskSet' = taskSet \ gone
  BY DEF PollBody
<1>4. \A x : Contains(heap', x) <=> x \in Content(heap')
  BY DEF Contains, Content
<1>5. gone = {x.task : x \in Content(heap) \ Content(heap')}
  <2>1. \A i \in 1..Len(heap) : heap[i] \in Content(heap)
    BY DEF Content
  <2>2. \A x \in Content(heap) : \E i \in 1..Len(heap) : x = heap[i]
    BY DEF Content
  <2> HIDE DEF Content
  <2> QED BY <1>4, <2>1, <2>2
<1> HIDE DEF gone
<1>6. taskSet' = {x.task : x \in Content(heap')}
  BY <1>2, <1>3, <1>5, ContentFacts DEF Inv
<1> QED BY <1>1, <1>6

LEMMA PollBodyPreservesInv ==
    ASSUME Inv, PollBody
    PROVE  Inv'
<1>1. Body("poll") /\ taken' \in Tasks \cup {NoTask}
  BY DEF PollBody, Inv, TypeOK
<1>2. GoodHeap(heap') /\ taskSet' = {x.task : x \in Content(heap')}
  BY PollBodyEffect, ContentFacts, PollDrains
<1> QED BY <1>1, <1>2, BodyPreservesInv

LEMMA InitInv == Init => Inv
<1> SUFFICES ASSUME Init PROVE Inv
  OBVIOUS
<1>1. heap = <<>> /\ Content(heap) = {}
  BY DEF Init, Content
<1>2. TypeOK
  <2>1. <<>> \in Seq(Node) /\ <<>> \in Seq(Calls)
    OBVIOUS
  <2> QED BY <2>1, MutexTyped, AdvancedTaskQueueAssumption DEF Init, TypeOK
<1>3. Ordered(heap) /\ Distinct(heap) /\ LockCountsBodies /\ taskSet = {}
  BY DEF Init, Ordered, Distinct, LockCountsBodies
<1> QED BY <1>1, <1>2, <1>3 DEF Inv

LEMMA StepInv == Inv /\ [Next]_vars => Inv'
<1> SUFFICES ASSUME Inv, [Next]_vars PROVE Inv'
  OBVIOUS
<1>1. ASSUME NEW task \in Tasks, NEW p \in Priorities, NEW d \in Delays, CallEnqueue(task, p, d)
      PROVE  Inv'
  <2>1. [task |-> task, priority |-> p, executeAt |-> now + d] \in Node
    BY AdvancedTaskQueueAssumption DEF Inv, TypeOK, Node
  <2> QED BY <1>1, <2>1, CallPreservesInv DEF CallEnqueue
<1>2. CASE CallDequeue
  BY <1>2, CallPreservesInv DEF CallDequeue
<1>3. CASE PollTick
  BY <1>3, CallPreservesInv DEF PollTick
<1>4. CASE Tick
  <2>1. TypeOK'
    BY <1>4, AdvancedTaskQueueAssumption DEF Tick, Inv, TypeOK
  <2> QED BY <1>4, <2>1 DEF Tick, Inv, Ordered, Distinct, Content, LockCountsBodies
<1>5. CASE EnqueueBody
  BY <1>5, EnqueueBodyPreservesInv
<1>6. CASE DequeueBody
  BY <1>6, DequeueBodyPreservesInv
<1>7. CASE PollBody
  BY <1>7, PollBodyPreservesInv
<1>8. CASE UNCHANGED vars
  BY <1>8 DEF vars, Inv, TypeOK, Ordered, Distinct, Content, LockCountsBodies
<1> QED BY <1>1, <1>2, <1>3, <1>4, <1>5, <1>6, <1>7, <1>8 DEF Next

THEOREM Invariance == Spec => []Inv
BY InitInv, StepInv, PTL DEF Spec

-----------------------------------------------------------------------------
(* The invariants                                                          *)

(* Every field of the class has its type, through every mix of calls,      *)
(* microtasks and ticks.                                                   *)
THEOREM Typing == Spec => []TypeOK
<1>1. Inv => TypeOK
  BY DEF Inv
<1> QED BY <1>1, Invariance, PTL

(* Overlapping calls never wait for the lock their own thread holds, no    *)
(* unlock() throws, and the last body to run frees the lock: early returns *)
(* and re-entries in any number and order.                                 *)
THEOREM LockNeverBlocks == Spec => []LockServesAll
<1>1. ASSUME Inv PROVE LockServesAll
  <2>1. LockCountsBodies
    BY <1>1 DEF Inv
  <2>2. mutex.queue = <<>>
    BY <2>1 DEF LockCountsBodies, FreeMutex
  <2>3. pending # <<>> => Owned(mutex)
    BY <2>1 DEF LockCountsBodies, Owned
  <2> QED BY <2>1, <2>2, <2>3 DEF LockServesAll, LockCountsBodies
<1> QED BY <1>1, Invariance, PTL

(* No node compares less than its parent, for every length of the heap:    *)
(* heapifyUp and heapifyDown restore the order after every operation.      *)
THEOREM HeapStaysOrdered == Spec => []HeapOrdered
<1>1. ASSUME Inv PROVE HeapOrdered
  <2> SUFFICES ASSUME NEW i \in 2..Len(heap) PROVE ~compare(heap[i], heap[parent(i)])
    BY DEF HeapOrdered
  <2>1. heap \in Seq(Node) /\ Len(heap) \in Nat
    BY <1>1 DEF Inv, TypeOK
  <2>2. i \in 1..Len(heap) /\ parent(i) \in 1..Len(heap)
    BY <2>1, ParentFacts
  <2>3. heap[i].priority \in Nat /\ heap[parent(i)].priority \in Nat
    BY <2>1, <2>2, NodeFields
  <2>4. heap[parent(i)].priority <= heap[i].priority
    BY <1>1 DEF Inv, Ordered
  <2> QED BY <2>3, <2>4 DEF compare
<1> QED BY <1>1, Invariance, PTL

LEMMA ContentTasks ==
    ASSUME Inv
    PROVE  Queued = {x.task : x \in Content(heap)} /\ taskSet = Queued
<1>1. \A i \in 1..Len(heap) : heap[i] \in Content(heap)
  BY DEF Content
<1>2. \A x \in Content(heap) : \E i \in 1..Len(heap) : x = heap[i]
  BY DEF Content
<1>3. Queued = {x.task : x \in Content(heap)}
  BY <1>1, <1>2 DEF Queued
<1> QED BY <1>3 DEF Inv

(* The key set holds the key of every node and no other, and no two nodes  *)
(* have the same key.                                                      *)
THEOREM KeysMatch == Spec => []KeysMatchHeap
<1>1. ASSUME Inv PROVE KeysMatchHeap
  <2> DEFINE n == Len(heap)
             key == [i \in 1..n |-> heap[i].task]
  <2>1. taskSet = {heap[i].task : i \in 1..n}
    BY <1>1, ContentTasks DEF Queued
  <2>2. heap \in Seq(Node) /\ n \in Nat /\ Distinct(heap)
    BY <1>1 DEF Inv, TypeOK
  <2>3. key \in [1..n -> taskSet]
    BY <2>1
  <2>4. key \in Injection(1..n, taskSet)
    BY <2>2, <2>3 DEF Distinct, Injection, IsInjective
  <2>5. \A t \in taskSet : \E i \in 1..n : key[i] = t
    BY <2>1
  <2>6. key \in Surjection(1..n, taskSet)
    BY <2>3, <2>5 DEF Surjection
  <2>7. ExistsBijection(1..n, taskSet)
    BY <2>4, <2>6 DEF ExistsBijection, Bijection
  <2>8. IsFiniteSet(1..n) /\ Cardinality(1..n) = n
    BY <2>2, FS_Interval
  <2>9. Cardinality(taskSet) = n
    <3> HIDE DEF n
    <3> QED BY <2>7, <2>8, FS_Bijection
  <2> QED BY <2>1, <2>9 DEF KeysMatchHeap
<1> QED BY <1>1, Invariance, PTL

(* dequeue looks at the most urgent task, for every length of the heap: it *)
(* takes that one when it is due, and a task that is due is hidden only by *)
(* one at least as urgent that is not.                                     *)
THEOREM MostUrgentFirst == Spec => TakesTheMostUrgentDueTask
<1> DEFINE Answers ==
             \E i \in 1..Len(heap) :
                 /\ \A j \in 1..Len(heap) : heap[i].priority <= heap[j].priority
                 /\ taken' = IF heap[i].executeAt <= now THEN heap[i].task ELSE NoTask
<1>1. ASSUME Inv, DequeueBody, heap # <<>> PROVE Answers
  <2>1. heap \in Seq(Node) /\ Ordered(heap)
    BY <1>1 DEF Inv, TypeOK
  <2>2. 1 \in 1..Len(heap) /\ peek(heap) = heap[1]
    BY <1>1, <2>1 DEF peek
  <2>3. taken' = IF heap[1].executeAt <= now THEN heap[1].task ELSE NoTask
    BY <1>1, <2>2 DEF DequeueBody
  <2>4. \A j \in 1..Len(heap) : heap[1].priority <= heap[j].priority
    BY <2>1, HeadIsLeast
  <2> QED BY <2>2, <2>3, <2>4
<1>2. Inv /\ [Next]_vars => [DequeueBody /\ heap # <<>> => Answers]_vars
  <2> HIDE DEF Answers
  <2> QED BY <1>1
<1> QED BY <1>2, Invariance, PTL DEF Spec, TakesTheMostUrgentDueTask

-----------------------------------------------------------------------------
(* Refinement                                                              *)

DueTasks(content, time) == {x.task : x \in {y \in content : y.executeAt <= time}}

queueNow == [queued |-> Queued, due |-> Due]

LEMMA ContentIsMapped ==
    ASSUME NEW h, NEW time
    PROVE  /\ {h[i].task : i \in 1..Len(h)} = {x.task : x \in Content(h)}
           /\ {h[i].task : i \in {j \in 1..Len(h) : h[j].executeAt <= time}}
                  = DueTasks(Content(h), time)
<1>1. \A i \in 1..Len(h) : h[i] \in Content(h)
  BY DEF Content
<1>2. \A x \in Content(h) : \E i \in 1..Len(h) : x = h[i]
  BY DEF Content
<1> QED BY <1>1, <1>2 DEF DueTasks

LEMMA DueFacts ==
    ASSUME Inv
    PROVE  /\ Queued = {x.task : x \in Content(heap)}
           /\ Queued' = {x.task : x \in Content(heap')}
           /\ Due = DueTasks(Content(heap), now)
           /\ Due' = DueTasks(Content(heap'), now')
           /\ Due \subseteq Queued /\ Queued \subseteq Tasks
<1>1. Queued = {x.task : x \in Content(heap)} /\ Due = DueTasks(Content(heap), now)
  BY ContentIsMapped DEF Queued, Due
<1>2. Queued' = {x.task : x \in Content(heap')} /\ Due' = DueTasks(Content(heap'), now')
  BY ContentIsMapped DEF Queued, Due
<1>3. Due \subseteq Queued /\ Queued \subseteq Tasks
  BY <1>1, ContentTasks DEF DueTasks, Inv, TypeOK
<1> QED BY <1>1, <1>2, <1>3

(* The microtask that adds a task does what Enqueue does at once.          *)
LEMMA EnqueueBodyImplements ==
    ASSUME Inv, EnqueueBody
    PROVE  Abstract!Next \/ UNCHANGED <<queueNow, taken>>
<1> DEFINE node == Head(pending).node
           isDue == node.executeAt <= now
<1>1. Body("enqueue") /\ node \in Node /\ now' = now /\ taken' = taken
  BY BodyTakesFirst DEF EnqueueBody, Body
<1>2. CASE node.task \in taskSet
  <2>1. heap' = heap
    BY <1>2 DEF EnqueueBody
  <2> QED BY <2>1, <1>1 DEF queueNow, Queued, Due
<1>3. CASE node.task \notin taskSet
  <2>1. heap' = enqueue(heap, node)
    BY <1>3 DEF EnqueueBody
  <2>2. \A x \in Content(heap) : x.task # node.task
    BY <1>3 DEF Inv
  <2>3. Content(heap') = Content(heap) \cup {node}
    BY <1>1, <2>1, <2>2, ContentFacts, EnqueueAdds
  <2>4. Queued' = {x.task : x \in Content(heap')} /\ Due' = DueTasks(Content(heap'), now')
    BY DueFacts
  <2>5. Queued' = Queued \cup {node.task}
    BY <2>3, <2>4, DueFacts
  <2>6. Due' = IF isDue THEN Due \cup {node.task} ELSE Due
    BY <1>1, <2>3, <2>4, DueFacts DEF DueTasks
  <2>7. node.task \in Tasks /\ node.task \notin Queued /\ isDue \in BOOLEAN
    BY <1>1, <1>3, NodeFields, ContentTasks
  <2>8. queueNow' = Abstract!Enqueue(queueNow, node.task, isDue)
    BY <2>5, <2>6, <2>7 DEF queueNow, Abstract!Enqueue
  <2> HIDE DEF isDue
  <2>9. Abstract!Next
    BY <1>1, <2>7, <2>8 DEF Abstract!Next, queueNow
  <2> QED BY <2>9
<1> QED BY <1>2, <1>3

LEMMA DequeueBodyImplements ==
    ASSUME Inv, DequeueBody
    PROVE  Abstract!Next
<1>1. now' = now /\ Body("dequeue")
  BY DEF DequeueBody, Body
<1>2. \A x, y \in Content(heap) : x.task = y.task => x = y
  BY ContentFacts
<1>3. CASE heap # <<>> /\ peek(heap).executeAt <= now
  <2> DEFINE head == peek(heap)
  <2>1. heap' = dequeue(heap) /\ taken' = head.task
    BY <1>3 DEF DequeueBody
  <2>2. Content(heap') = Content(heap) \ {head} /\ head \in Content(heap)
    BY <1>3, <2>1, ContentFacts, DequeueRemovesHead
  <2>3. Queued' = Queued \ {head.task}
    BY <1>2, <2>2, DueFacts
  <2>4. Due' = Due \ {head.task}
    BY <1>1, <1>2, <2>2, DueFacts DEF DueTasks
  <2>5. head.task \in Due
    BY <1>3, <2>2, DueFacts DEF DueTasks
  <2>6. queueNow' = Abstract!Without(queueNow, {head.task})
    BY <2>3, <2>4 DEF queueNow, Abstract!Without
  <2> DEFINE outcome == [task |-> head.task, queue |-> queueNow']
  <2>7. outcome \in Abstract!DequeueOutcomes(queueNow)
    BY <2>5, <2>6 DEF Abstract!DequeueOutcomes, queueNow
  <2>8. queueNow' = outcome.queue /\ taken' = outcome.task
    BY <2>1
  <2> HIDE DEF outcome
  <2> QED BY <2>7, <2>8 DEF Abstract!Next, queueNow
<1>4. CASE ~(heap # <<>> /\ peek(heap).executeAt <= now)
  <2>1. taken' = NoTask
        /\ heap' = IF heap = <<>> THEN heap ELSE enqueue(dequeue(heap), peek(heap))
    BY <1>4 DEF DequeueBody
  <2>2. Content(heap') = Content(heap)
    BY <2>1, ContentFacts, PutBack
  <2>3. queueNow' = queueNow
    BY <1>1, <2>2, DueFacts DEF queueNow
  <2> DEFINE outcome == [task |-> NoTask, queue |-> queueNow]
  <2>4. CASE heap = <<>>
    <3>1. queueNow.queued = {}
      BY <2>4, DueFacts DEF queueNow, Content
    <3>2. outcome \in Abstract!DequeueOutcomes(queueNow)
      BY <3>1 DEF Abstract!DequeueOutcomes
    <3>3. queueNow' = outcome.queue /\ taken' = outcome.task
      BY <2>1, <2>3
    <3> HIDE DEF outcome
    <3> QED BY <3>2, <3>3 DEF Abstract!Next, queueNow
  <2>5. CASE heap # <<>>
    <3> DEFINE head == peek(heap)
    <3>1. head \in Content(heap) /\ ~(head.executeAt <= now)
      BY <1>4, <2>5, ContentFacts
    <3>2. head.task \in queueNow.queued \ queueNow.due
      BY <1>2, <3>1, DueFacts DEF queueNow, DueTasks
    <3>3. outcome \in Abstract!DequeueOutcomes(queueNow)
      BY <3>2 DEF Abstract!DequeueOutcomes
    <3>4. queueNow' = outcome.queue /\ taken' = outcome.task
      BY <2>1, <2>3
    <3> HIDE DEF outcome
    <3> QED BY <3>3, <3>4 DEF Abstract!Next, queueNow
  <2> QED BY <2>4, <2>5
<1> QED BY <1>3, <1>4

(* The loop of a tick removes due tasks only, and all tasks if they all    *)
(* are due.                                                                *)
LEMMA PollBodyImplements ==
    ASSUME Inv, PollBody
    PROVE  Abstract!Next
<1>1. now' = now /\ taken' = taken /\ heap' = drained
  BY PollBodyEffect DEF PollBody, Body
<1>2. /\ Content(heap') \subseteq Content(heap)
      /\ \A x \in Content(heap) \ Content(heap') : x.executeAt <= now
      /\ heap' # <<>> => ~(peek(heap').executeAt <= now)
      /\ GoodHeap(heap')
  BY <1>1, ContentFacts, PollDrains
<1>3. \A x, y \in Content(heap) : x.task = y.task => x = y
  BY ContentFacts
<1> DEFINE gone == {x.task : x \in Content(heap) \ Content(heap')}
<1>4. gone \subseteq Due
  BY <1>2, DueFacts DEF DueTasks
<1>5. Queued' = Queued \ gone
  BY <1>2, <1>3, DueFacts
<1>6. Due' = Due \ gone
  BY <1>1, <1>2, <1>3, DueFacts DEF DueTasks
<1>7. ASSUME Queued = Due PROVE gone = Due
  <2>1. \A x \in Content(heap) : x.executeAt <= now
    <3> SUFFICES ASSUME NEW x \in Content(heap) PROVE x.executeAt <= now
      OBVIOUS
    <3>1. x.task \in Due
      BY <1>7, DueFacts
    <3>2. PICK y \in Content(heap) : y.executeAt <= now /\ y.task = x.task
      BY <3>1, DueFacts DEF DueTasks
    <3> QED BY <1>3, <3>2
  <2>2. heap' = <<>>
    <3> SUFFICES ASSUME heap' # <<>> PROVE FALSE
      OBVIOUS
    <3>1. peek(heap') \in Content(heap')
      BY <1>2, DequeueRemovesHead
    <3> QED BY <1>2, <2>1, <3>1
  <2>3. Content(heap') = {}
    BY <2>2 DEF Content
  <2> QED BY <1>7, <2>3, DueFacts
<1>8. queueNow' = Abstract!Without(queueNow, gone)
  BY <1>5, <1>6 DEF queueNow, Abstract!Without
<1>9. queueNow' \in Abstract!PollOutcomes(queueNow)
  <2> HIDE DEF gone
  <2>1. gone \in {g \in SUBSET queueNow.due : queueNow.queued = queueNow.due => g = queueNow.due}
    BY <1>4, <1>7 DEF queueNow
  <2> QED BY <1>8, <2>1 DEF Abstract!PollOutcomes
<1> QED BY <1>1, <1>9 DEF Abstract!Next, queueNow

LEMMA TickImplements ==
    ASSUME Inv, Tick
    PROVE  Abstract!Next
<1>1. now' = now + 1 /\ heap' = heap /\ taken' = taken /\ now \in Nat
  BY DEF Tick, Inv, TypeOK
<1>2. Queued' = Queued
  BY <1>1, DueFacts
<1>3. \A x \in Content(heap) : x.executeAt \in Nat
  BY ContentFacts, NodeFields
<1>4. Due \subseteq Due' /\ Due' \subseteq Queued
  BY <1>1, <1>3, DueFacts DEF DueTasks
<1> DEFINE tasks == Due' \ Due
<1>5. tasks \in SUBSET (queueNow.queued \ queueNow.due)
  BY <1>4 DEF queueNow
<1>6. queueNow' = Abstract!Mature(queueNow, tasks)
  BY <1>2, <1>4 DEF queueNow, Abstract!Mature
<1> HIDE DEF tasks
<1> QED BY <1>1, <1>5, <1>6 DEF Abstract!Next, queueNow

LEMMA InitImplements == Init => Abstract!Init
<1> SUFFICES ASSUME Init PROVE Abstract!Init
  OBVIOUS
<1>1. heap = <<>> /\ taken = NoTask /\ Inv
  BY InitInv DEF Init
<1>2. Content(heap) = {}
  BY <1>1 DEF Content
<1>3. Queued = {} /\ Due = {}
  BY <1>1, <1>2, DueFacts DEF DueTasks
<1> QED BY <1>1, <1>3 DEF Abstract!Init, Abstract!EmptyQueue

LEMMA StepImplements ==
    Inv /\ [Next]_vars => [Abstract!Next]_<<queueNow, taken>>
<1> SUFFICES ASSUME Inv, [Next]_vars PROVE Abstract!Next \/ UNCHANGED <<queueNow, taken>>
  OBVIOUS
<1>1. ASSUME UNCHANGED <<heap, now, taken>> PROVE UNCHANGED <<queueNow, taken>>
  BY <1>1, DueFacts DEF queueNow
<1>2. ASSUME NEW task \in Tasks, NEW p \in Priorities, NEW d \in Delays, CallEnqueue(task, p, d)
      PROVE  UNCHANGED <<heap, now, taken>>
  BY <1>2 DEF CallEnqueue, Call
<1>3. CallDequeue \/ PollTick \/ UNCHANGED vars => UNCHANGED <<heap, now, taken>>
  BY DEF CallDequeue, PollTick, Call, vars
<1> QED BY <1>1, <1>2, <1>3, EnqueueBodyImplements, DequeueBodyImplements,
           PollBodyImplements, TickImplements DEF Next

(* The heap, the key set, the lock, the microtasks and the clock together  *)
(* implement the set of tasks that WorkerPoolOCC is modelled with: every   *)
(* call takes effect in one step, that of its body.                        *)
THEOREM TaskQueueImplemented == Spec => ImplementsTaskQueue
<1>1. Init => Abstract!Init
  BY InitImplements
<1>2. Inv /\ [Next]_vars => [Abstract!Next]_<<queueNow, taken>>
  BY StepImplements
<1> QED BY <1>1, <1>2, Invariance, PTL DEF Spec, ImplementsTaskQueue, Abstract!Spec, queueNow
=============================================================================
