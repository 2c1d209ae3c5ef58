--------------------------- MODULE WorkerPoolOCC ---------------------------
(***************************************************************************)
(* worker/workerPoolwithOCC.ts with occ/interfaces/OCCHandler.ts: the pool *)
(* of worker threads behind the Octopus facade.                            *)
(*                                                                         *)
(* The main thread is one JavaScript event loop.  A client call, a Worker  *)
(* event with all its listeners, a timer tick and one microtask (one       *)
(* continuation of an await) each run to completion, so each is one        *)
(* action.  `microtasks' is the FIFO queue of continuations; Worker events *)
(* and timers wait until it is empty (Quiet).                              *)
(*                                                                         *)
(* `pool' holds the fields of the class and the threads it has started;    *)
(* each method that changes the fields is an operator from a pool to a     *)
(* pool, so that a handler reads as the calls it makes, in their order.    *)
(***************************************************************************)
EXTENDS Naturals, SequencesExt, Collections

CONSTANTS
    Calls,              \* client calls of runWorker
    Tasks,              \* payloads, up to the equality of their JSON text
    DataOf,             \* the payload of each call
    Delayed,            \* calls whose delay is not 0
    Throwing,           \* payloads on which worker.js throws (LPUSH on a string, ...)
    MaxWorkers,         \* the constructor's maxWorkers
    NoCall,             \* the caller of a runWorker issued by processQueue
    NoTask,             \* undefined, as a task
    ThrowOnUnhandled    \* Node's --unhandled-rejections=throw, the default

ASSUME CallsAssumption ==
    /\ NoCall \notin Calls
    /\ NoTask \notin Tasks
    /\ DataOf \in [Calls -> Tasks]
    /\ Delayed \subseteq Calls
    /\ Throwing \subseteq Tasks

ASSUME MaxWorkersAssumption == MaxWorkers \in Nat \ {0}

ASSUME ThrowOnUnhandledAssumption == ThrowOnUnhandled \in BOOLEAN

VARIABLES
    pool,        \* workerPoolMap, availableWorkers, workerIdCounter and the threads
    taskQueue,   \* what the AdvancedTaskQueue holds
    microtasks,  \* pending continuations, oldest first
    promise,     \* what each client call's promise is waiting for, or settled to
    unhandled,   \* a rejected promise that nobody handles exists
    up           \* the process has not been ended by an unhandled rejection

vars == <<pool, taskQueue, microtasks, promise, unhandled, up>>

Queue == INSTANCE TaskQueue

-----------------------------------------------------------------------------
(* Threads, entries of workerPoolMap and microtasks                        *)

(* A thread is ready until it is sent a task; it is working until it       *)
(* answers, after which the pool starts another thread in its place        *)
(* without ending it (replaced), or throws (failed) and ends (exited).     *)
Statuses == {"ready", "working", "replaced", "failed", "exited"}

NewThread(id) == [id |-> id, status |-> "ready", task |-> NoTask, call |-> NoCall]

ThreadType ==
    [id : Nat, status : Statuses, task : Tasks \cup {NoTask}, call : Calls \cup {NoCall}]

EntryType == [worker : Nat, state : {"idle", "busy"}, version : Nat]

JobKinds == {"enqueue", "enqueued", "dequeue", "dequeued", "poll", "settled", "operated", "ran"}

Job(kind) == [kind |-> kind, call |-> NoCall, task |-> NoTask, thread |-> 0]
CallJob(kind, c) == [Job(kind) EXCEPT !.call = c]
TaskJob(kind, task) == [Job(kind) EXCEPT !.task = task]
ThreadJob(kind, t) == [Job(kind) EXCEPT !.thread = t]

JobType ==
    [kind : JobKinds, call : Calls \cup {NoCall}, task : Tasks \cup {NoTask}, thread : Nat]

-----------------------------------------------------------------------------
(* The methods of the class, as operators on the pool                      *)

(* Mutant: the new worker is not put on offer.                             *)
AddWorkerToPoolUnlisted(p, w) ==
    LET thread == Len(p.threads) + 1
    IN  [p EXCEPT !.threads = Append(@, NewThread(w)),
                  !.map     = Put(@, w, [worker |-> thread, state |-> "idle", version |-> 0])]

AddWorkerToPool(p, w) ==
    LET thread == Len(p.threads) + 1
    IN  [p EXCEPT !.threads   = Append(@, NewThread(w)),
                  !.map       = Put(@, w, [worker |-> thread, state |-> "idle", version |-> 0]),
                  !.available = Add(@, w)]

(* Mutant: the size of the map serves as the next identifier.              *)
AddNewWorkerBySize(p) == AddWorkerToPool(p, Cardinality(DOMAIN p.map))

(* addWorkerToPool() without arguments takes the next identifier.          *)
AddNewWorker(p) == [AddWorkerToPool(p, p.nextId) EXCEPT !.nextId = @ + 1]

RemoveWorker(p, w) ==
    [p EXCEPT !.map = Without(@, w),
              !.available = Delete(@, w)]

(* Mutant: without the test of the size, which runs twice for each event.  *)
ReplaceWorkerUnchecked(p, w) == AddNewWorker(RemoveWorker(p, w))

(* The body that handleWorkerError and handleWorkerExit (code # 0) share.  *)
ReplaceWorker(p, w) ==
    LET removed == RemoveWorker(p, w)
    IN  IF Cardinality(DOMAIN removed.map) < MaxWorkers
        THEN AddNewWorker(removed)
        ELSE removed

(* The listener of a thread's first message; a missing entry is a          *)
(* TypeError that the listener catches.                                    *)
InitListener(p, w) ==
    IF w \in DOMAIN p.map
    THEN [p EXCEPT !.map[w].state = "idle", !.available = Add(@, w)]
    ELSE p

(* OCCHandler.validateVersion                                              *)
ValidateVersion(p, w, expected) ==
    w \in DOMAIN p.map /\ p.map[w].version = expected

(* Mutant: the worker stays on offer while it is busy.                     *)
PerformOperationStillOffered(p, w, task, c) ==
    LET thread == p.map[w].worker
    IN  [p EXCEPT !.map[w].state = "busy",
                  !.threads[thread] = [@ EXCEPT !.status = "working", !.task = task, !.call = c]]

(* The operation that runWorker passes to performOperation: both run       *)
(* without a pause up to postMessage.                                      *)
PerformOperation(p, w, task, c) ==
    LET thread == p.map[w].worker
    IN  [p EXCEPT !.map[w].state = "busy",
                  !.available = Delete(@, w),
                  !.threads[thread] = [@ EXCEPT !.status = "working", !.task = task, !.call = c]]

IncrementVersion(p, w) ==
    IF w \in DOMAIN p.map THEN [p EXCEPT !.map[w].version = @ + 1] ELSE p

(* processQueue up to its await: it goes on to dequeue, or returns.        *)
ProcessQueue(p) ==
    IF taskQueue.queued # {} /\ p.available # <<>> THEN <<Job("dequeue")>> ELSE <<>>

FirstAvailable == Head(pool.available)

-----------------------------------------------------------------------------
(* Client calls                                                            *)

PromiseStates == {"uncalled", "queued", "running", "undefined", "rejected"}

(* Mutant: runWorker does not await performOperation.                      *)
PostWithoutAwait(w, task, c, jobs) ==
    /\ pool' = PerformOperation(pool, w, task, c)
    /\ microtasks' = Append(jobs, ThreadJob("ran", pool.map[w].worker))
    /\ UNCHANGED unhandled

(* runWorker from the choice of the worker to postMessage; jobs are the    *)
(* continuations that wait when it is called.  A version conflict rejects  *)
(* a promise that nobody holds, and the operation goes on.                 *)
Post(w, task, c, jobs) ==
    LET currentVersion == pool.map[w].version
    IN  /\ unhandled' = (unhandled \/ ~ValidateVersion(pool, w, currentVersion))
        /\ pool' = PerformOperation(pool, w, task, c)
        /\ microtasks' = jobs

RunWorker(c) ==
    /\ up
    /\ promise[c] = "uncalled"
    /\ \/ /\ pool.available = <<>>
          /\ microtasks' = Append(microtasks, CallJob("enqueue", c))
          /\ promise' = [promise EXCEPT ![c] = "queued"]
          /\ UNCHANGED <<pool, unhandled>>
       \/ /\ pool.available # <<>>
          /\ IF FirstAvailable \in DOMAIN pool.map
             THEN /\ Post(FirstAvailable, DataOf[c], c, microtasks)
                  /\ promise' = [promise EXCEPT ![c] = "running"]
             ELSE /\ promise' = [promise EXCEPT ![c] = "rejected"]
                  /\ UNCHANGED <<pool, unhandled, microtasks>>
    /\ UNCHANGED <<taskQueue, up>>

-----------------------------------------------------------------------------
(* Worker events and timers                                                *)

Quiet == up /\ microtasks = <<>> /\ ~unhandled

Working(t) == pool.threads[t].status = "working"

(* The thread posts its result.  Its listeners run in the order they were  *)
(* added: the one of addWorkerToPool, which calls processQueue, then the   *)
(* one of runWorker, which puts a NEW thread under the same identifier.    *)
WorkerReplies(t) ==
    /\ Quiet
    /\ Working(t)
    /\ pool.threads[t].task \notin Throwing
    /\ LET w        == pool.threads[t].id
           listened == InitListener(pool, w)
       IN  /\ pool' = AddWorkerToPool([listened EXCEPT !.threads[t].status = "replaced"], w)
           /\ microtasks' = ProcessQueue(listened) \o <<ThreadJob("settled", t)>>
    /\ UNCHANGED <<taskQueue, promise, unhandled, up>>

(* An event with a listener of addWorkerToPool and one of runWorker, which *)
(* both do the same: replace the worker, then process the queue.           *)
ReplaceTwice(p, w) == ReplaceWorker(ReplaceWorker(p, w), w)

ProcessQueueTwice(p, w) ==
    ProcessQueue(ReplaceWorker(p, w)) \o ProcessQueue(ReplaceTwice(p, w))

(* The thread throws: 'error', and 'exit' either in the same turn of the   *)
(* event loop or in a later one (WorkerExits).                             *)
WorkerThrows(t, exits) ==
    /\ Quiet
    /\ Working(t)
    /\ pool.threads[t].task \in Throwing
    /\ LET w      == pool.threads[t].id
           failed == [pool EXCEPT !.threads[t].status = IF exits THEN "exited" ELSE "failed"]
           after  == ReplaceTwice(failed, w)
           onExit == IF exits THEN ProcessQueueTwice(after, w) ELSE <<>>
       IN  /\ pool' = IF exits THEN ReplaceTwice(after, w) ELSE after
           /\ microtasks' = ProcessQueueTwice(failed, w) \o <<ThreadJob("settled", t)>> \o onExit
    /\ UNCHANGED <<taskQueue, promise, unhandled, up>>

WorkerExits(t) ==
    /\ Quiet
    /\ pool.threads[t].status = "failed"
    /\ LET w      == pool.threads[t].id
           exited == [pool EXCEPT !.threads[t].status = "exited"]
       IN  /\ pool' = ReplaceTwice(exited, w)
           /\ microtasks' = ProcessQueueTwice(exited, w)
    /\ UNCHANGED <<taskQueue, promise, unhandled, up>>

(* The queue's setInterval fires; its body runs after the lock's await.    *)
PollTick ==
    /\ Quiet
    /\ microtasks' = <<Job("poll")>>
    /\ UNCHANGED <<pool, taskQueue, promise, unhandled, up>>

TaskMatures(task) ==
    /\ up
    /\ task \in taskQueue.queued \ taskQueue.due
    /\ taskQueue' = Queue!Mature(taskQueue, {task})
    /\ UNCHANGED <<pool, microtasks, promise, unhandled, up>>

(* Node reports unhandled rejections when the microtasks have run out.     *)
ProcessRejections ==
    /\ up
    /\ microtasks = <<>>
    /\ unhandled
    /\ unhandled' = FALSE
    /\ up' = ~ThrowOnUnhandled
    /\ UNCHANGED <<pool, taskQueue, microtasks, promise>>

-----------------------------------------------------------------------------
(* Microtasks, each the code between two awaits                            *)

Pending(kind) == up /\ microtasks # <<>> /\ Head(microtasks).kind = kind

job == Head(microtasks)

(* enqueue after mutex.lock(), then the then() of runWorker.               *)
EnqueueJob ==
    /\ Pending("enqueue")
    /\ taskQueue' = Queue!Enqueue(taskQueue, DataOf[job.call], job.call \notin Delayed)
    /\ microtasks' = Append(Tail(microtasks), Job("enqueued"))
    /\ UNCHANGED <<pool, promise, unhandled, up>>

EnqueuedJob ==
    /\ Pending("enqueued")
    /\ microtasks' = Tail(microtasks) \o ProcessQueue(pool)
    /\ UNCHANGED <<pool, taskQueue, promise, unhandled, up>>

(* dequeue after mutex.lock().                                             *)
DequeueJob ==
    /\ Pending("dequeue")
    /\ \E outcome \in Queue!DequeueOutcomes(taskQueue) :
          /\ taskQueue' = outcome.queue
          /\ microtasks' = Append(Tail(microtasks), TaskJob("dequeued", outcome.task))
    /\ UNCHANGED <<pool, promise, unhandled, up>>

(* processQueue after its await.  `workerId ? ... : undefined' takes the   *)
(* identifier 0 for no worker; a task without a worker is not put back.    *)
DequeuedJob ==
    /\ Pending("dequeued")
    /\ IF /\ job.task # NoTask
          /\ pool.available # <<>>
          /\ FirstAvailable # 0
          /\ FirstAvailable \in DOMAIN pool.map
          /\ pool.map[FirstAvailable].state = "idle"
       THEN Post(FirstAvailable, job.task, NoCall, Tail(microtasks))
       ELSE microtasks' = Tail(microtasks) /\ UNCHANGED <<pool, unhandled>>
    /\ UNCHANGED <<taskQueue, promise, up>>

PollJob ==
    /\ Pending("poll")
    /\ microtasks' = Tail(microtasks)
    /\ \E polled \in Queue!PollOutcomes(taskQueue) : taskQueue' = polled
    /\ UNCHANGED <<pool, promise, unhandled, up>>

(* The promise of the operation follows the one its listeners settled.     *)
SettledJob ==
    /\ Pending("settled")
    /\ microtasks' = Append(Tail(microtasks), ThreadJob("operated", job.thread))
    /\ UNCHANGED <<pool, taskQueue, promise, unhandled, up>>

(* Mutant: a failed operation is logged and never settles.                 *)
OperatedJobHangs ==
    /\ Pending("operated")
    /\ LET replied == pool.threads[job.thread].status = "replaced"
       IN  microtasks' = Tail(microtasks)
                            \o (IF replied THEN <<ThreadJob("ran", job.thread)>> ELSE <<>>)
    /\ UNCHANGED <<pool, taskQueue, promise, unhandled, up>>

(* performOperation after its await: a failure is caught and rejects a     *)
(* promise that nobody holds.                                              *)
OperatedJob ==
    /\ Pending("operated")
    /\ microtasks' = Append(Tail(microtasks), ThreadJob("ran", job.thread))
    /\ IF pool.threads[job.thread].status = "replaced"
       THEN /\ pool' = IncrementVersion(pool, pool.threads[job.thread].id)
            /\ UNCHANGED unhandled
       ELSE /\ unhandled' = TRUE
            /\ UNCHANGED pool
    /\ UNCHANGED <<taskQueue, promise, up>>

(* runWorker after its await: the finally block; nothing is returned.      *)
RanJob ==
    /\ Pending("ran")
    /\ microtasks' = Tail(microtasks) \o ProcessQueue(pool)
    /\ LET c == pool.threads[job.thread].call
       IN  promise' = IF c = NoCall THEN promise ELSE [promise EXCEPT ![c] = "undefined"]
    /\ UNCHANGED <<pool, taskQueue, unhandled, up>>

Microtask ==
    \/ EnqueueJob \/ EnqueuedJob
    \/ DequeueJob \/ DequeuedJob
    \/ PollJob
    \/ SettledJob \/ OperatedJob \/ RanJob

-----------------------------------------------------------------------------
(* initializeWorkerPool: addWorkerToPool() until the map has MaxWorkers    *)
(* entries.                                                                *)
InitialPool ==
    [map       |-> [w \in 0..(MaxWorkers - 1) |->
                       [worker |-> w + 1, state |-> "idle", version |-> 0]],
     available |-> [i \in 1..MaxWorkers |-> i - 1],
     nextId    |-> MaxWorkers,
     threads   |-> [t \in 1..MaxWorkers |-> NewThread(t - 1)]]

Init ==
    /\ pool = InitialPool
    /\ taskQueue = Queue!EmptyQueue
    /\ microtasks = <<>>
    /\ promise = [c \in Calls |-> "uncalled"]
    /\ unhandled = FALSE
    /\ up = TRUE

ThreadEvent(t) ==
    \/ WorkerReplies(t)
    \/ \E exits \in BOOLEAN : WorkerThrows(t, exits)
    \/ WorkerExits(t)

Next ==
    \/ \E c \in Calls : RunWorker(c)
    \/ \E t \in DOMAIN pool.threads : ThreadEvent(t)
    \/ PollTick
    \/ \E task \in taskQueue.queued : TaskMatures(task)
    \/ Microtask
    \/ ProcessRejections

Spec == Init /\ [][Next]_vars

(* The event loop never abandons a continuation or a pending rejection,    *)
(* time passes, and every source of events is served again and again:      *)
(* client calls and ticks may come first, but not for ever.  Nothing makes *)
(* the client call.                                                        *)
MaxThreads == MaxWorkers + Cardinality(Calls)

Fairness ==
    /\ WF_vars(Microtask)
    /\ WF_vars(ProcessRejections)
    /\ SF_vars(PollTick)
    /\ \A task \in Tasks : WF_vars(TaskMatures(task))
    /\ \A t \in 1..MaxThreads : SF_vars(t \in DOMAIN pool.threads /\ ThreadEvent(t))

FairSpec == Spec /\ Fairness

-----------------------------------------------------------------------------
(* Properties                                                              *)

(* Every variable and every field of the class has its type.               *)
TypeOK ==
    /\ DOMAIN pool = {"map", "available", "nextId", "threads"}
    /\ pool.threads \in Seq(ThreadType)
    /\ pool.nextId \in Nat
    /\ pool.available \in Seq(Nat)
    /\ DOMAIN pool.map \subseteq Nat
    /\ pool.map \in [DOMAIN pool.map -> EntryType]
    /\ taskQueue \in Queue!Queues
    /\ taskQueue.due \subseteq taskQueue.queued
    /\ microtasks \in Seq(JobType)
    /\ promise \in [Calls -> PromiseStates]
    /\ unhandled \in BOOLEAN
    /\ up \in BOOLEAN

(* The map always holds maxWorkers workers: however errors, exits and      *)
(* replies follow each other, handleWorkerError, handleWorkerExit and the  *)
(* reply listener put back one worker for each one they take out.          *)
PoolAtFullStrength == Cardinality(DOMAIN pool.map) = MaxWorkers

(* availableWorkers never offers a worker that cannot take a task: each    *)
(* identifier is there once, has an entry, and its thread was never used.  *)
AvailableWorkersAreReady ==
    /\ IsInjective(pool.available)
    /\ Range(pool.available) \subseteq DOMAIN pool.map
    /\ \A w \in Range(pool.available) :
          /\ pool.map[w].state = "idle"
          /\ pool.threads[pool.map[w].worker].status = "ready"

(* No capacity leaks: a worker that is not on offer is busy with a task    *)
(* its thread is still working on, so an event will put it back.           *)
UnavailableWorkersAreWorking ==
    \A w \in DOMAIN pool.map \ Range(pool.available) :
        pool.map[w].state = "busy" /\ Working(pool.map[w].worker)

(* The events of a thread reach its own entry and no other: a thread that  *)
(* works is the one in the map under its identifier, whoever fails or      *)
(* replies meanwhile, and the identifier of one that failed is never used  *)
(* again, so its late exit does not take a healthy worker out.             *)
EventsReachTheirOwnEntry ==
    \A t \in 1..Len(pool.threads) :
        LET thread == pool.threads[t]
        IN  /\ Working(t) => /\ thread.id \in DOMAIN pool.map
                             /\ pool.map[thread.id].worker = t
            /\ thread.status \in {"failed", "exited"} => thread.id \notin DOMAIN pool.map

(* `Worker not found' is never thrown to a client.                         *)
WorkerAlwaysFound == \A c \in Calls : promise[c] # "rejected"

(* No call runs on two threads, none is rejected, and its promise settles  *)
(* only after its thread replied or failed.                                *)
CallsRunOnceAndSettleAfter ==
    \A c \in Calls :
        LET serving == {t \in 1..Len(pool.threads) : pool.threads[t].call = c}
        IN  /\ promise[c] # "rejected"
            /\ Cardinality(serving) <= 1
            /\ promise[c] = "undefined" => \A t \in serving : ~Working(t)
            /\ promise[c] \in {"running", "undefined"} => serving # {}

(* A call is queued only when maxWorkers threads are working: a worker is  *)
(* never left idle by a call that could have used it.                      *)
QueuesOnlyWhenSaturated ==
    [][\A c \in Calls :
          promise[c] # promise'[c] /\ promise'[c] = "queued" =>
              Cardinality({t \in 1..Len(pool.threads) : Working(t)}) = MaxWorkers]_vars

(* A thread is sent at most one task in its life, and the thread that      *)
(* takes its place starts after it.                                        *)
ThreadsServeOnce ==
    [][\A t \in 1..Len(pool.threads) :
          /\ pool'.threads[t].status = "working" => pool.threads[t].status \in {"ready", "working"}
          /\ Working(t) => pool'.threads[t].task = pool.threads[t].task
          /\ Working(t) => pool'.threads[t].call = pool.threads[t].call]_vars

(* A call that runs is answered, if worker failures do not end the process *)
RunningCallsSettle ==
    \A c \in Calls : promise[c] = "running" ~> promise[c] = "undefined"

(* Once the client stops calling, every worker is on offer again.          *)
PoolRecovers == <>[](Len(pool.available) = MaxWorkers)

(* No task stays in the queue for ever, whoever takes it out.              *)
QueueDrains == <>[](taskQueue.queued = {})

-----------------------------------------------------------------------------
(* What the documentation says and the code does not do                    *)

(* `Processes tasks from the queue when workers become available': a task  *)
(* that processQueue takes out is handed to a worker.                      *)
DequeuedTasksAreStarted ==
    [][(DequeuedJob /\ job.task # NoTask) =>
          \E t \in 1..Len(pool.threads) : ~Working(t) /\ pool'.threads[t].task = job.task]_vars

(* `Gracefully handles worker failures'.                                   *)
SurvivesWorkerFailures == up

=============================================================================
