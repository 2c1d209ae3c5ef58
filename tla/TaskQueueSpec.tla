--------------------------- MODULE TaskQueueSpec ---------------------------
(* The specification of a TaskQueue whose methods take effect at once: what *)
(* the heap, the key set, the lock and the clock of AdvancedTaskQueue must  *)
(* add up to.  `taken' is what the last dequeue returned.                   *)
EXTENDS TaskQueue

VARIABLES queue, taken

Init == queue = EmptyQueue /\ taken = NoTask

Next ==
    \/ /\ \E t \in Tasks, isDue \in BOOLEAN : queue' = Enqueue(queue, t, isDue)
       /\ UNCHANGED taken
    \/ \E outcome \in DequeueOutcomes(queue) :
          queue' = outcome.queue /\ taken' = outcome.task
    \/ queue' \in PollOutcomes(queue) /\ UNCHANGED taken
    \/ \E tasks \in SUBSET (queue.queued \ queue.due) : queue' = Mature(queue, tasks) /\ UNCHANGED taken

Spec == Init /\ [][Next]_<<queue, taken>>
=============================================================================
