------------------------- MODULE WorkerPoolVariants -------------------------
(***************************************************************************)
(* worker/workerPoolWithState.ts ("state") and                             *)
(* worker/workerPoolWithTransaction.ts ("transaction"), with               *)
(* transaction/impl: the two pools that preceded the one with OCC.         *)
(* `variant' says which class the pool is and never changes.               *)
(*                                                                         *)
(* As in WorkerPoolOCC a client call, a Worker event with its listeners    *)
(* and a microtask are one action each, and methods are operators on the   *)
(* pool.  In the "state" pool a listener awaits its mutex before its body. *)
(* All callers of that mutex have the same thread identifier, so the await *)
(* is one microtask; and an event comes when no microtask is pending, so   *)
(* the bodies of its listeners run next, in order, with nothing between    *)
(* them.  Each event with the bodies is therefore still one action.        *)
(***************************************************************************)
EXTENDS Naturals, SequencesExt, Collections

CONSTANTS
    Calls,       \* client calls of runWorker, each with a payload of its own
    Delayed,     \* calls whose delay is not 0
    Throwing,    \* calls on whose payload worker.js throws
    MaxWorkers,  \* the constructor's maxWorkers
    NoCall       \* undefined, as a task

ASSUME VariantsAssumption ==
    /\ NoCall \notin Calls
    /\ Delayed \subseteq Calls
    /\ Throwing \subseteq Calls
    /\ MaxWorkers \in Nat \ {0}

VARIABLES
    variant,    \* the class of the pool
    pool,       \* the fields of the class, the threads, the pending microtasks
    taskQueue,  \* what the AdvancedTaskQueue holds
    promise,    \* what each client call's promise is waiting for, or settled to
    answer      \* the call whose result resolved the promise

vars == <<variant, pool, taskQueue, promise, answer>>

Queue == INSTANCE TaskQueue WITH Tasks <- Calls, NoTask <- NoCall

Job(kind) == [kind |-> kind, call |-> NoCall, id |-> 0, ok |-> TRUE]

Later(p, job) == [p EXCEPT !.jobs = Append(@, job)]

-----------------------------------------------------------------------------
(* The methods of both classes                                             *)

AddWorkerToPool(p, w) ==
    [p EXCEPT !.threads   = Append(@, [id |-> w, status |-> "ready", posted |-> <<>>]),
              !.map       = Put(@, w, [worker |-> Len(p.threads) + 1, state |-> "idle"]),
              !.available = Add(@, w)]

(* Mutant: the size of the map serves as the next identifier.              *)
AddNewWorkerBySize(p) == AddWorkerToPool(p, Cardinality(DOMAIN p.map))

AddNewWorker(p) == [AddWorkerToPool(p, p.nextId) EXCEPT !.nextId = @ + 1]

RemoveWorker(p, w) ==
    [p EXCEPT !.map = Without(@, w), !.available = Delete(@, w)]

(* Remove the worker, and start another if the pool is not full.           *)
ReplaceWorker(p, w) ==
    LET removed == RemoveWorker(p, w)
    IN  IF Cardinality(DOMAIN removed.map) < MaxWorkers THEN AddNewWorker(removed) ELSE removed

MarkIdle(p, w) ==
    IF w \in DOMAIN p.map
    THEN [p EXCEPT !.map[w].state = "idle", !.available = Add(@, w)]
    ELSE p

(* No worker's state is ever `terminated'.                                 *)
MarkWorkerAsIdleOrReset(p, w) ==
    IF w \in DOMAIN p.map THEN MarkIdle(p, w) ELSE ReplaceWorker(p, w)

(* processQueue up to its await.                                           *)
ProcessQueue(p) ==
    IF taskQueue.queued # {} /\ p.available # <<>> THEN Later(p, Job("dequeue")) ELSE p

(* postMessage, whatever the thread does.                                  *)
Sent(thread, call) ==
    [thread EXCEPT !.status = IF @ \in {"failed", "exited"} THEN @ ELSE "working",
                   !.posted = Append(@, call)]

(* Mutant: the worker stays on offer while it is busy.                     *)
PostStillOffered(p, w, call) ==
    [p EXCEPT !.map[w].state = "busy",
              !.threads[p.map[w].worker] = Sent(@, call)]

(* runWorker once it has chosen w.                                         *)
Post(p, w, call) ==
    [p EXCEPT !.map[w].state = "busy",
              !.available = Delete(@, w),
              !.threads[p.map[w].worker] = Sent(@, call)]

-----------------------------------------------------------------------------
(* Transactions.  Each has a mutex of its own, which nobody else asks for. *)

StartTransaction(p) == [p EXCEPT !.lastId = @ + 1, !.open = @ \cup {p.lastId + 1}]

(* endTransaction calls commit, which runs the operation and awaits it;    *)
(* ok says whether the operation, whose effect is in p, returned.          *)
EndTransaction(p, ok) == Later(p, [Job("commit") EXCEPT !.id = p.lastId, !.ok = ok])

(* The listeners of both classes, up to the end of their bodies            *)

InitWithState(p, w) == ProcessQueue(MarkIdle(p, w))

(* A missing entry is a TypeError inside the operation.                    *)
InitWithTransaction(p, w) ==
    ProcessQueue(EndTransaction(MarkIdle(StartTransaction(p), w), w \in DOMAIN p.map))

MessageWithState(p, w) == ProcessQueue(AddWorkerToPool(p, w))

MessageWithTransaction(p, w) ==
    ProcessQueue(EndTransaction(AddWorkerToPool(StartTransaction(p), w), TRUE))

(* The worker that failed is put back on offer.                            *)
ErrorWithState(p, w) == ProcessQueue(MarkWorkerAsIdleOrReset(p, w))

ErrorWithTransaction(p, w) ==
    ProcessQueue(EndTransaction(ReplaceWorker(StartTransaction(p), w), TRUE))

ExitWithState(p, w) == ProcessQueue(ReplaceWorker(p, w))

ExitWithTransaction(p, w) ==
    ProcessQueue(EndTransaction(ReplaceWorker(StartTransaction(p), w), TRUE))

HandleError(p, w) ==
    IF variant = "state" THEN ErrorWithState(p, w) ELSE ErrorWithTransaction(p, w)

HandleExit(p, w) ==
    IF variant = "state" THEN ExitWithState(p, w) ELSE ExitWithTransaction(p, w)

(* What runWorker listens with.                                            *)
CallListener(p, w, event) ==
    CASE event = "error" -> HandleError(p, w)
      [] event = "exit"  -> HandleExit(p, w)
      [] OTHER -> IF variant = "state" THEN MessageWithState(p, w) ELSE MessageWithTransaction(p, w)

(* What addWorkerToPool listens with.                                      *)
WorkerListener(p, w, event) ==
    IF event # "message"
    THEN CallListener(p, w, event)
    ELSE IF variant = "state" THEN InitWithState(p, w) ELSE InitWithTransaction(p, w)

(* The listener of addWorkerToPool, then those of n calls.                 *)
Heard(p, w, event, n) ==
    LET after[i \in 0..n] ==
            IF i = 0 THEN WorkerListener(p, w, event) ELSE CallListener(after[i - 1], w, event)
    IN  after[n]

(* An event of thread t; runWorker listens once for each call it posts.    *)
Emit(p, t, event) == Heard(p, p.threads[t].id, event, Len(p.threads[t].posted))

-----------------------------------------------------------------------------
(* Client calls, events and timers                                         *)

RunWorker(c) ==
    /\ promise[c] = "uncalled"
    /\ \/ /\ pool.available = <<>>
          /\ pool' = Later(pool, [Job("enqueue") EXCEPT !.call = c])
          /\ promise' = [promise EXCEPT ![c] = "queued"]
       \/ /\ pool.available # <<>>
          /\ IF Head(pool.available) \in DOMAIN pool.map
             THEN /\ pool' = Post(pool, Head(pool.available), c)
                  /\ promise' = [promise EXCEPT ![c] = "running"]
             ELSE /\ promise' = [promise EXCEPT ![c] = "rejected"]
                  /\ UNCHANGED pool
    /\ UNCHANGED <<variant, taskQueue, answer>>

Quiet == pool.jobs = <<>>

Working(t) == pool.threads[t].status = "working"

Ends(t, status) == [pool EXCEPT !.threads[t].status = status]

(* Mutant: the reply returns the worker and does not resolve the promise.  *)
WorkerRepliesToNobody(t) ==
    /\ Quiet
    /\ Working(t)
    /\ Head(pool.threads[t].posted) \notin Throwing
    /\ pool' = Emit(Ends(t, "replaced"), t, "message")
    /\ UNCHANGED <<variant, taskQueue, promise, answer>>

(* The thread posts the result of the first call it was sent.  All its     *)
(* message listeners are `once', so the first message resolves the         *)
(* promises of all calls that were posted to it.                           *)
WorkerReplies(t) ==
    /\ Quiet
    /\ Working(t)
    /\ LET posted   == pool.threads[t].posted
           resolved == {c \in Range(posted) : promise[c] = "running"}
       IN  /\ Head(posted) \notin Throwing
           /\ promise' = [c \in Calls |-> IF c \in resolved THEN "answered" ELSE promise[c]]
           /\ answer' = [c \in Calls |-> IF c \in resolved THEN Head(posted) ELSE answer[c]]
    /\ pool' = Emit(Ends(t, "replaced"), t, "message")
    /\ UNCHANGED <<variant, taskQueue>>

(* The thread throws; its exit comes in the same turn or later.            *)
WorkerThrows(t, exits) ==
    /\ Quiet
    /\ Working(t)
    /\ Head(pool.threads[t].posted) \in Throwing
    /\ pool' = IF exits
               THEN Emit(Emit(Ends(t, "exited"), t, "error"), t, "exit")
               ELSE Emit(Ends(t, "failed"), t, "error")
    /\ UNCHANGED <<variant, taskQueue, promise, answer>>

WorkerExits(t) ==
    /\ Quiet
    /\ pool.threads[t].status = "failed"
    /\ pool' = Emit(Ends(t, "exited"), t, "exit")
    /\ UNCHANGED <<variant, taskQueue, promise, answer>>

(* The queue's setInterval fires; its body follows at once.                *)
PollTick ==
    /\ Quiet
    /\ \E polled \in Queue!PollOutcomes(taskQueue) : taskQueue' = polled
    /\ UNCHANGED <<variant, pool, promise, answer>>

TaskMatures ==
    /\ \E task \in taskQueue.queued \ taskQueue.due :
          taskQueue' = Queue!Mature(taskQueue, {task})
    /\ UNCHANGED <<variant, pool, promise, answer>>

-----------------------------------------------------------------------------
(* Microtasks                                                              *)

Pending(kind) == pool.jobs # <<>> /\ Head(pool.jobs).kind = kind

job == Head(pool.jobs)

Rest == [pool EXCEPT !.jobs = Tail(@)]

EnqueueJob ==
    /\ Pending("enqueue")
    /\ taskQueue' = Queue!Enqueue(taskQueue, job.call, job.call \notin Delayed)
    /\ pool' = Later(Rest, Job("enqueued"))
    /\ UNCHANGED <<variant, promise, answer>>

EnqueuedJob ==
    /\ Pending("enqueued")
    /\ pool' = ProcessQueue(Rest)
    /\ UNCHANGED <<variant, taskQueue, promise, answer>>

DequeueJob ==
    /\ Pending("dequeue")
    /\ \E outcome \in Queue!DequeueOutcomes(taskQueue) :
          /\ taskQueue' = outcome.queue
          /\ pool' = Later(Rest, [Job("dequeued") EXCEPT !.call = outcome.task])
    /\ UNCHANGED <<variant, promise, answer>>

(* processQueue after its await; the identifier 0 counts as no worker.     *)
DequeuedJob ==
    /\ Pending("dequeued")
    /\ LET first == Head(pool.available)
       IN  pool' = IF /\ job.call # NoCall
                      /\ pool.available # <<>>
                      /\ first # 0
                      /\ first \in DOMAIN pool.map
                      /\ pool.map[first].state = "idle"
                   THEN Post(Rest, first, job.call)
                   ELSE Rest
    /\ UNCHANGED <<variant, taskQueue, promise, answer>>

(* commit after its await.  When the operation failed, rollback throws, as *)
(* the transaction is marked committed: endTransaction rejects, and never  *)
(* deletes the transaction.                                                *)
CommitJob ==
    /\ Pending("commit")
    /\ pool' = IF job.ok THEN Later(Rest, [Job("end") EXCEPT !.id = job.id]) ELSE Rest
    /\ UNCHANGED <<variant, taskQueue, promise, answer>>

(* endTransaction after its await.                                         *)
EndJob ==
    /\ Pending("end")
    /\ pool' = [Rest EXCEPT !.open = @ \ {job.id}]
    /\ UNCHANGED <<variant, taskQueue, promise, answer>>

Microtask ==
    \/ EnqueueJob \/ EnqueuedJob \/ DequeueJob \/ DequeuedJob
    \/ CommitJob \/ EndJob

-----------------------------------------------------------------------------
Init ==
    /\ variant \in {"state", "transaction"}
    /\ pool = [map       |-> [w \in 0..(MaxWorkers - 1) |-> [worker |-> w + 1, state |-> "idle"]],
               available |-> [i \in 1..MaxWorkers |-> i - 1],
               nextId    |-> MaxWorkers,
               threads   |-> [t \in 1..MaxWorkers |->
                                [id |-> t - 1, status |-> "ready", posted |-> <<>>]],
               jobs      |-> <<>>,
               lastId    |-> 0,
               open      |-> {}]
    /\ taskQueue = Queue!EmptyQueue
    /\ promise = [c \in Calls |-> "uncalled"]
    /\ answer = [c \in Calls |-> NoCall]

ThreadEvent(t) ==
    \/ WorkerReplies(t)
    \/ \E exits \in BOOLEAN : WorkerThrows(t, exits)
    \/ WorkerExits(t)

Next ==
    \/ \E c \in Calls : RunWorker(c)
    \/ \E t \in DOMAIN pool.threads : ThreadEvent(t)
    \/ PollTick
    \/ TaskMatures
    \/ Microtask

(* The event loop runs its microtasks and serves events again and again.   *)
Fairness ==
    /\ WF_vars(Microtask)
    /\ SF_vars(\E t \in DOMAIN pool.threads : ThreadEvent(t))

Spec == Init /\ [][Next]_vars /\ Fairness

-----------------------------------------------------------------------------
(* Properties                                                              *)

(* Only the pool with state hands work to a thread that has failed, and    *)
(* only until the thread's exit.                                           *)
FailedUntilExit(t) == variant = "state" /\ pool.threads[t].status = "failed"

(* However replies, errors and exits follow each other, the pool has       *)
(* maxWorkers workers, each on offer once and ready, or busy and working;  *)
(* but for the worker that the error listener of the pool with state puts  *)
(* back on offer after it has failed.                                      *)
PoolIsSound ==
    /\ Cardinality(DOMAIN pool.map) = MaxWorkers
    /\ IsInjective(pool.available)
    /\ Range(pool.available) \subseteq DOMAIN pool.map
    /\ \A w \in DOMAIN pool.map :
          LET entry  == pool.map[w]
              status == pool.threads[entry.worker].status
          IN  \/ FailedUntilExit(entry.worker)
              \/ /\ w \in Range(pool.available)
                 /\ entry.state = "idle" /\ status = "ready"
              \/ /\ w \notin Range(pool.available)
                 /\ entry.state = "busy" /\ status = "working"

(* A call's promise is resolved with the result of that call: no listener  *)
(* of one call hears the message that answers another.                     *)
AnswersAreTheirOwn ==
    \A c \in Calls : promise[c] = "answered" => answer[c] = c

(* Every transaction that a listener starts is committed and forgotten     *)
(* before the next event, and none stays because its operation found no    *)
(* entry and its rollback threw.                                           *)
TransactionsEnd == Quiet => pool.open = {}

(* A call that runs is answered unless its thread fails: before it could   *)
(* answer, or before the call was posted to it.                            *)
RunningCallsEndOrFail ==
    \A c \in Calls :
        promise[c] = "running" ~>
            \/ promise[c] = "answered"
            \/ \E t \in DOMAIN pool.threads :
                  /\ pool.threads[t].status \in {"failed", "exited"}
                  /\ c \in Range(pool.threads[t].posted)
=============================================================================
