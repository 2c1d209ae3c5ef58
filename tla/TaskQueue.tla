----------------------------- MODULE TaskQueue -----------------------------
(***************************************************************************)
(* What AdvancedTaskQueue offers to WorkerPoolOCC, with the heap, the      *)
(* priorities and the clock abstracted away: a set of distinct tasks, some *)
(* of which are due.  Priorities decide which task is at the head; here    *)
(* any queued task may be.  Each operator is the effect of a method;       *)
(* WorkerPoolOCC uses them, and TaskQueueSpec makes them a specification   *)
(* that AdvancedTaskQueue implements.                                      *)
(***************************************************************************)
EXTENDS Naturals

CONSTANTS Tasks,    \* what JSON.stringify tells apart: two equal payloads are one task
          NoTask    \* dequeue's undefined

Queues == [queued : SUBSET Tasks, due : SUBSET Tasks]

EmptyQueue == [queued |-> {}, due |-> {}]

(* Mutant: taskSet forgets the tasks and the heap keeps the due nodes.     *)
WithoutKeyOnly(q, tasks) == [q EXCEPT !.queued = @ \ tasks]

Without(q, tasks) == [queued |-> q.queued \ tasks, due |-> q.due \ tasks]

(* enqueue: a task that is already queued keeps its old execution time.    *)
Enqueue(q, task, isDue) ==
    IF task \in q.queued
    THEN q
    ELSE [queued |-> q.queued \cup {task},
          due    |-> IF isDue THEN q.due \cup {task} ELSE q.due]

(* dequeue looks at the head only: it removes and returns it when it is    *)
(* due, and puts it back otherwise, even if another queued task is due.    *)
DequeueOutcomes(q) ==
    {[task |-> t, queue |-> Without(q, {t})] : t \in q.due}
        \cup {[task |-> NoTask, queue |-> q] : t \in q.queued \ q.due}
        \cup (IF q.queued = {} THEN {[task |-> NoTask, queue |-> q]} ELSE {})

(* Mutant: a tick looks at the queue and leaves it as it is.               *)
PollOutcomesNone(q) == {q}

(* One tick of the polling interval: remove heads while they are due.      *)
PollOutcomes(q) ==
    {Without(q, gone) : gone \in {g \in SUBSET q.due : q.queued = q.due => g = q.due}}

(* Time passes: the executeAt of queued tasks is reached.                  *)
Mature(q, tasks) == [q EXCEPT !.due = @ \cup tasks]
=============================================================================
