---------------------- MODULE BinaryHeapPriorityQueue ----------------------
(***************************************************************************)
(* queue/BinaryHeapPriorityQueue.ts: a binary min-heap in an array.  A     *)
(* node is a record with a field `priority'; positions count from 1 here,  *)
(* so the children of i are 2i and 2i+1.                                   *)
(*                                                                         *)
(* Both heapify loops move one node along a path of the tree.  A loop is   *)
(* the heap and the node's position after 0, 1, ... turns; a turn that     *)
(* would break out of it leaves them as they are, and no path is longer    *)
(* than the heap.                                                          *)
(***************************************************************************)
EXTENDS Naturals, SequencesExt

compare(a, b) == a.priority < b.priority

swap(heap, i, j) == [heap EXCEPT ![i] = heap[j], ![j] = heap[i]]

parent(i) == i \div 2

moved(s, to) == [heap |-> swap(s.heap, s.at, to), at |-> to]

up(s) ==
    IF s.at > 1 /\ compare(s.heap[s.at], s.heap[parent(s.at)])
    THEN moved(s, parent(s.at))
    ELSE s

heapifyUp(heap, index) ==
    LET after[n \in 0..Len(heap)] ==
            IF n = 0 THEN [heap |-> heap, at |-> index] ELSE up(after[n - 1])
    IN  after[Len(heap)].heap

smaller(heap, c, i) == IF c <= Len(heap) /\ compare(heap[c], heap[i]) THEN c ELSE i

down(s) ==
    LET smallest == smaller(s.heap, 2 * s.at + 1, smaller(s.heap, 2 * s.at, s.at))
    IN  IF smallest # s.at THEN moved(s, smallest) ELSE s

heapifyDown(heap, index) ==
    LET after[n \in 0..Len(heap)] ==
            IF n = 0 THEN [heap |-> heap, at |-> index] ELSE down(after[n - 1])
    IN  after[Len(heap)].heap

enqueue(heap, node) == heapifyUp(Append(heap, node), Len(heap) + 1)

(* Mutant: the last leaf takes the place of the root and is left there.    *)
dequeueUnsifted(heap) ==
    IF Len(heap) = 1 THEN <<>> ELSE [Front(heap) EXCEPT ![1] = Last(heap)]

(* The heap that dequeue leaves; the node it returns is peek(heap).        *)
dequeue(heap) ==
    IF Len(heap) = 1
    THEN <<>>
    ELSE heapifyDown([Front(heap) EXCEPT ![1] = Last(heap)], 1)

peek(heap) == Head(heap)
=============================================================================
