----------------------------- MODULE TaskQueues -----------------------------
(***************************************************************************)
(* The four queues that use OctopusMutex: QueueWithMutex.ts ("fifo"),      *)
(* PriorityTaskQueue.ts ("priority"), DeduplicatedTaskQueue.ts             *)
(* ("deduplicated") and DelayedTaskQueue.ts ("delayed").  `discipline'     *)
(* says which class the queue is and never changes.                        *)
(*                                                                         *)
(* Each operation awaits lock(), runs its body and unlocks.  A body runs   *)
(* in the turn in which its caller unlocks: the step Unlock of the mutex.  *)
(* Items carry the number of their call of enqueue (ticket), which the     *)
(* code does not know; the properties compare it with what comes out.      *)
(***************************************************************************)
EXTENDS OctopusMutex, Integers, SequencesExt

CONSTANTS
    Payloads,     \* tasks, up to the equality of their JSON text
    Falsy,        \* payloads such as 0 and '' for which `if (task)' fails
    Ranks,        \* priorities, or delays
    Poller,       \* the callback of setInterval, the caller that is no client
    NoItem,       \* what a request other than enqueue brings
    MaxEnqueues,  \* bound on the calls of enqueue
    MaxNow        \* bound on the clock

ASSUME PollerAssumption == Poller \in Callers

ASSUME RanksAssumption == Ranks \subseteq Int /\ MaxNow \in Nat

VARIABLES
    discipline,   \* the class of the queue
    array,        \* this.queue
    taskSet,      \* this.taskSet of the deduplicated queue
    request,      \* the operation that each caller is executing
    enqueues,     \* calls of enqueue so far
    now           \* Date.now()

dataVars == <<discipline, array, taskSet, request, enqueues, now>>

queueVars == <<locked, queue, at, discipline, array, taskSet, request, enqueues, now>>

Disciplines == {"fifo", "priority", "deduplicated", "delayed"}

Request(kind, item) == [kind |-> kind, item |-> item]

Idle == Request("none", NoItem)

-----------------------------------------------------------------------------
(* Calls, up to their await of lock()                                      *)

Begins(p, what) ==
    /\ Lock(p)
    /\ request' = [request EXCEPT ![p] = what]

(* What an item is sorted by: its priority, or the time at which it is     *)
(* due, which enqueue computes before it asks for the lock.                *)
RanksNow ==
    CASE discipline = "priority" -> Ranks
      [] discipline = "delayed"  -> {now + delay : delay \in Ranks} \cap 0..MaxNow
      [] OTHER                   -> {0}

(* Only the deduplicated queue looks at the payload.                       *)
PayloadsNow ==
    IF discipline = "deduplicated" THEN Payloads ELSE {CHOOSE task \in Payloads : TRUE}

Enqueue(p) ==
    /\ enqueues < MaxEnqueues
    /\ \E task \in PayloadsNow, rank \in RanksNow :
          Begins(p, Request("enqueue", [task |-> task, rank |-> rank, ticket |-> enqueues]))
    /\ enqueues' = enqueues + 1
    /\ UNCHANGED <<discipline, array, taskSet, now>>

Dequeue(p) ==
    /\ Begins(p, Request("dequeue", NoItem))
    /\ UNCHANGED <<discipline, array, taskSet, enqueues, now>>

(* The interval timer of the delayed queue fires.                          *)
Tick ==
    /\ discipline = "delayed"
    /\ Begins(Poller, Request("poll", NoItem))
    /\ UNCHANGED <<discipline, array, taskSet, enqueues, now>>

-----------------------------------------------------------------------------
(* Bodies, after the await                                                 *)

(* How many items at the head of the array have at most this rank.         *)
Leading(items, rank) ==
    CHOOSE n \in 0..Len(items) :
        /\ \A i \in 1..n : items[i].rank <= rank
        /\ n < Len(items) => items[n + 1].rank > rank

(* push, and the stable sort of an array that was sorted before.           *)
Inserted(items, item) == InsertAt(items, Leading(items, item.rank) + 1, item)

EnqueueBody(p) ==
    /\ request[p].kind = "enqueue"
    /\ LET item == request[p].item
       IN  IF discipline = "deduplicated"
           THEN IF item.task \in taskSet
                THEN UNCHANGED <<array, taskSet>>
                ELSE /\ array' = Append(array, item)
                     /\ taskSet' = taskSet \cup {item.task}
           ELSE /\ array' = Inserted(array, item)
                /\ UNCHANGED taskSet

(* Whether dequeue has something to shift.                                 *)
Ready ==
    /\ array # <<>>
    /\ discipline = "delayed" => Head(array).rank <= now

(* Mutant: the key of the task that leaves stays in the set.               *)
DequeueBodyKeepsKey(p) ==
    /\ request[p].kind = "dequeue"
    /\ array' = IF Ready THEN Tail(array) ELSE array
    /\ UNCHANGED taskSet

(* `if (task)' keeps the key of a falsy task.                              *)
DequeueBody(p) ==
    /\ request[p].kind = "dequeue"
    /\ IF Ready
       THEN /\ array' = Tail(array)
            /\ taskSet' = IF Head(array).task \in Falsy THEN taskSet ELSE taskSet \ {Head(array).task}
       ELSE UNCHANGED <<array, taskSet>>

(* Mutant: the tick logs what is due and leaves it for dequeue.            *)
PollBodyLogsOnly(p) ==
    /\ request[p].kind = "poll"
    /\ UNCHANGED <<array, taskSet>>

(* The tick shifts the items at the head that are due.                     *)
PollBody(p) ==
    /\ request[p].kind = "poll"
    /\ array' = SubSeq(array, Leading(array, now) + 1, Len(array))
    /\ UNCHANGED taskSet

Body(p) ==
    /\ Unlock(p)
    /\ EnqueueBody(p) \/ DequeueBody(p) \/ PollBody(p)
    /\ request' = [request EXCEPT ![p] = Idle]
    /\ UNCHANGED <<discipline, enqueues, now>>

Handover(p) ==
    /\ Resume(p) \/ Enter(p)
    /\ UNCHANGED dataVars

TimePasses ==
    /\ discipline = "delayed"
    /\ now < MaxNow
    /\ now' = now + 1
    /\ UNCHANGED <<locked, queue, at, discipline, array, taskSet, request, enqueues>>

-----------------------------------------------------------------------------
QueueInit ==
    /\ Init
    /\ discipline \in Disciplines
    /\ array = <<>>
    /\ taskSet = {}
    /\ request = [p \in Callers |-> Idle]
    /\ enqueues = 0
    /\ now = 0

QueueNext ==
    \/ \E p \in Callers \ {Poller} : Enqueue(p) \/ Dequeue(p)
    \/ \E p \in Callers : Handover(p) \/ Body(p)
    \/ Tick
    \/ TimePasses

QueueSpec == QueueInit /\ [][QueueNext]_queueVars

(* Microtasks run, the interval timer fires again and again, time passes.  *)
QueueFairness ==
    /\ \A p \in Callers : WF_queueVars(Handover(p)) /\ WF_queueVars(Body(p))
    /\ SF_queueVars(Tick)
    /\ WF_queueVars(TimePasses)

FairQueueSpec == QueueSpec /\ QueueFairness

-----------------------------------------------------------------------------
(* Properties, besides those of the mutex, which hold here as well         *)

Queued == Range(array)

(* The items whose enqueue was called and has not run its body.            *)
Entering == {request[p].item : p \in {q \in Callers : request[q].kind = "enqueue"}}

(* Although every enqueue awaits the lock, items leave as if it did not:   *)
(* none leaves while another that was enqueued by an earlier call and is   *)
(* as urgent, or that is in the queue and more urgent, stays.              *)
ItemsLeaveInTurn ==
    [][\A x \in Queued \ Range(array') : \A y \in Entering \cup Range(array') :
          /\ y.ticket < x.ticket => y.rank > x.rank
          /\ y \in Queued => y.rank >= x.rank]_queueVars

(* The deduplicated queue holds no task twice, and refuses a truthy task   *)
(* only while it holds it, whatever callers overlap between the            *)
(* computation of the key and the body.                                    *)
KeysAreThoseQueued ==
    discipline = "deduplicated" =>
        /\ \A i, j \in 1..Len(array) : array[i].task = array[j].task => i = j
        /\ {x.task : x \in Queued} \subseteq taskSet
        /\ taskSet \ Falsy \subseteq {x.task : x \in Queued}

(* No delayed item stays for ever, even if nobody dequeues: the tick gets  *)
(* the lock, and no item hides another that is due before it.              *)
DelayedItemsLeave ==
    \A n \in 0..(MaxEnqueues - 1) :
        (discipline = "delayed" /\ \E x \in Queued : x.ticket = n)
            ~> ~ \E x \in Queued : x.ticket = n

=============================================================================
