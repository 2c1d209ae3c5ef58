------------------------- MODULE AdvancedTaskQueue -------------------------
(***************************************************************************)
(* queue/AdvancedTaskQueue.ts with the heap and the ReentrantOctopusMutex  *)
(* it owns.  Every method calls mutex.lock() and awaits it, so its body    *)
(* runs in a later microtask: `pending' holds the bodies whose lock() is   *)
(* over, in that order.  All callers share the main thread, so the bodies  *)
(* of several calls hold the lock at the same time.                        *)
(***************************************************************************)
EXTENDS BinaryHeapPriorityQueue, ReentrantOctopusMutex

CONSTANTS
    Tasks,        \* payloads, up to the equality of their JSON text
    NoTask,       \* dequeue's undefined
    Priorities,   \* priorities that the callers use
    Delays,       \* delays, in ticks of the clock
    MaxNow,       \* bound: the clock stops here
    MaxPending    \* bound: calls whose bodies wait at the same time

ASSUME AdvancedTaskQueueAssumption ==
    /\ NoTask \notin Tasks
    /\ Priorities \subseteq Nat
    /\ Delays \subseteq Nat
    /\ MaxNow \in Nat
    /\ MaxPending \in Nat \ {0}

VARIABLES
    heap,        \* queue: nodes with the task, its priority and its executeAt
    taskSet,     \* keys of the queued tasks
    mutex,       \* mutex: the reentrant lock; the calls that it makes wait
    pending,     \* bodies of the methods that wait for the microtask after lock()
    now,         \* Date.now()
    taken        \* what the last dequeue returned

vars == <<heap, taskSet, mutex, pending, now, taken>>

Node == [task : Tasks, priority : Priorities, executeAt : Nat]

NoNode == [task |-> NoTask, priority |-> 0, executeAt |-> 0]

Calls ==
    [method : {"enqueue"}, node : Node] \cup [method : {"dequeue", "poll"}, node : {NoNode}]

-----------------------------------------------------------------------------
(* The calls, up to the await of mutex.lock()                              *)

Call(method, node) ==
    LET call == [method |-> method, node |-> node]
    IN  /\ Len(pending) < MaxPending
        /\ mutex' = lock(mutex, call)
        /\ pending' = IF mustWait(mutex) THEN pending ELSE Append(pending, call)
        /\ UNCHANGED <<heap, taskSet, now, taken>>

(* enqueue fixes executeAt before it waits for the lock.                   *)
CallEnqueue(task, priority, delay) ==
    Call("enqueue", [task |-> task, priority |-> priority, executeAt |-> now + delay])

CallDequeue == Call("dequeue", NoNode)

(* The interval's timer waits until no microtask is pending.               *)
PollTick == pending = <<>> /\ Call("poll", NoNode)

Tick ==
    /\ now < MaxNow
    /\ now' = now + 1
    /\ UNCHANGED <<heap, taskSet, mutex, pending, taken>>

-----------------------------------------------------------------------------
(* The bodies, each with the unlock of its finally block                   *)

Body(method) ==
    /\ pending # <<>>
    /\ Head(pending).method = method
    /\ pending' = Tail(pending) \o resumed(mutex)
    /\ mutex' = unlock(mutex)
    /\ UNCHANGED now

(* Mutant: every task is added, whether its key is known or not.           *)
EnqueueBodyUnchecked ==
    /\ Body("enqueue")
    /\ heap' = enqueue(heap, Head(pending).node)
    /\ taskSet' = taskSet \cup {Head(pending).node.task}
    /\ UNCHANGED taken

EnqueueBody ==
    /\ Body("enqueue")
    /\ LET node == Head(pending).node
       IN  IF node.task \in taskSet
           THEN UNCHANGED <<heap, taskSet>>
           ELSE /\ heap' = enqueue(heap, node)
                /\ taskSet' = taskSet \cup {node.task}
    /\ UNCHANGED taken

(* Mutant: the head is returned whether it is due or not.                  *)
DequeueBodyEarly ==
    /\ Body("dequeue")
    /\ IF heap = <<>>
       THEN taken' = NoTask /\ UNCHANGED <<heap, taskSet>>
       ELSE /\ taken' = peek(heap).task
            /\ heap' = dequeue(heap)
            /\ taskSet' = taskSet \ {peek(heap).task}

(* Mutant: the node is returned, and not the task in it.                   *)
DequeueBodyReturnsNode ==
    /\ Body("dequeue")
    /\ IF heap # <<>> /\ peek(heap).executeAt <= now
       THEN /\ taken' = peek(heap)
            /\ heap' = dequeue(heap)
            /\ taskSet' = taskSet \ {peek(heap).task}
       ELSE /\ taken' = NoTask
            /\ heap' = IF heap = <<>> THEN heap ELSE enqueue(dequeue(heap), peek(heap))
            /\ UNCHANGED taskSet

(* A head that is not due goes back, as the last of its priority.          *)
DequeueBody ==
    /\ Body("dequeue")
    /\ IF heap # <<>> /\ peek(heap).executeAt <= now
       THEN /\ taken' = peek(heap).task
            /\ heap' = dequeue(heap)
            /\ taskSet' = taskSet \ {peek(heap).task}
       ELSE /\ taken' = NoTask
            /\ heap' = IF heap = <<>> THEN heap ELSE enqueue(dequeue(heap), peek(heap))
            /\ UNCHANGED taskSet

(* One turn of the while loop of a tick, and the loop: it ends when the    *)
(* head is not due, at the latest when the heap is empty.                  *)
removeDueHead(h) == IF h # <<>> /\ peek(h).executeAt <= now THEN dequeue(h) ELSE h

PollBody ==
    /\ Body("poll")
    /\ LET after[n \in 0..Len(heap)] ==
               IF n = 0 THEN heap ELSE removeDueHead(after[n - 1])
       IN  heap' = after[Len(heap)]
    /\ taskSet' = taskSet \ {heap[i].task : i \in {j \in 1..Len(heap) : ~Contains(heap', heap[j])}}
    /\ UNCHANGED taken

-----------------------------------------------------------------------------
Init ==
    /\ heap = <<>>
    /\ taskSet = {}
    /\ mutex = FreeMutex
    /\ pending = <<>>
    /\ now = 0
    /\ taken = NoTask

Next ==
    \/ \E task \in Tasks, p \in Priorities, d \in Delays : CallEnqueue(task, p, d)
    \/ CallDequeue
    \/ PollTick
    \/ Tick
    \/ EnqueueBody
    \/ DequeueBody
    \/ PollBody

Spec == Init /\ [][Next]_vars

-----------------------------------------------------------------------------
(* Properties                                                              *)

(* Every field of the class has its type.                                  *)
TypeOK ==
    /\ heap \in Seq(Node)
    /\ taskSet \subseteq Tasks
    /\ mutex \in [locked : BOOLEAN, currentOwner : {ThreadId, Nobody},
                   lockCount : Nat, queue : Seq(Calls)]
    /\ pending \in Seq(Calls)
    /\ now \in 0..MaxNow
    /\ taken \in Tasks \cup {NoTask}

(* The heap keeps its order through every mix of enqueue, dequeue, the     *)
(* dequeue that puts its node back, and the loop of the polling tick.      *)
HeapOrdered == \A i \in 2..Len(heap) : ~compare(heap[i], heap[parent(i)])

(* taskSet and the heap never drift apart: a key without a node would      *)
(* refuse its task for ever, a node without a key would run twice.         *)
KeysMatchHeap ==
    /\ taskSet = {heap[i].task : i \in 1..Len(heap)}
    /\ Cardinality(taskSet) = Len(heap)

(* Overlapping calls re-enter the lock and leave it in any order, over     *)
(* early returns too: no call is made to wait for a lock that its own      *)
(* thread holds, no finally block unlocks a lock that was freed before it  *)
(* and throws, and the lock is free once the last body has run.            *)
LockServesAll ==
    /\ mutex.queue = <<>>
    /\ pending # <<>> => Owned(mutex)
    /\ pending = <<>> => mutex = FreeMutex

(* dequeue answers with the head of the priorities: no queued task is more *)
(* urgent than a task it takes, and a due task is hidden only by one that  *)
(* is not due and at least as urgent, never by a heap out of order.        *)
TakesTheMostUrgentDueTask ==
    [][DequeueBody /\ heap # <<>> =>
          \E i \in 1..Len(heap) :
              /\ \A j \in 1..Len(heap) : heap[i].priority <= heap[j].priority
              /\ taken' = IF heap[i].executeAt <= now THEN heap[i].task ELSE NoTask]_vars

(* The heap, the key set, the lock and the clock implement the set of      *)
(* tasks that WorkerPoolOCC is modelled with.                              *)
Queued == {heap[i].task : i \in 1..Len(heap)}
Due == {heap[i].task : i \in {j \in 1..Len(heap) : heap[j].executeAt <= now}}

Abstract == INSTANCE TaskQueueSpec WITH queue <- [queued |-> Queued, due |-> Due]

ImplementsTaskQueue == Abstract!Spec
=============================================================================
