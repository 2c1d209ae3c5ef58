# A TLA+ verification of OctopusDB

OctopusDB is a key-value store in TypeScript for Node.js. A client calls the
`Octopus` facade; each call becomes a message that a pool of worker threads
executes, with a priority queue for the calls that find no idle worker. A second,
single-threaded store keeps everything in one map.

Everything on the main thread runs on one event loop. There are no data races
here; what is hard is the order in which client calls, worker events, timers and
the continuations of `await` interleave, and what each of them finds when it runs.

Paths below are relative to `src/src/core` unless they start with `src/`.

## 1. Inventory

| Component | State | Operations | Talks to |
|---|---|---|---|
| Facade, `multi-threaded/octopus.ts` | the pool | `set` ... `smembers`, each an await of `runWorker` and an event | pool |
| Pool with OCC, `multi-threaded/worker/workerPoolwithOCC.ts`, `multi-threaded/occ/interfaces/OCCHandler.ts` | `workerPoolMap`, `availableWorkers`, `workerIdCounter`, the `Worker` threads | `runWorker`, `processQueue`, `addWorkerToPool`, `removeWorker`, `handleWorkerError`, `handleWorkerExit`, `performOperation`, listeners of `message`, `error`, `exit` | queue (calls), workers (messages, events) |
| Advanced queue, `multi-threaded/queue/AdvancedTaskQueue.ts` | heap, key set, mutex, interval timer | `enqueue`, `dequeue`, polling tick | heap, reentrant mutex |
| Binary heap, `multi-threaded/queue/BinaryHeapPriorityQueue.ts` | array | `enqueue`, `dequeue`, `peek` | - |
| `OctopusMutex.ts`, `ReentrantOctopusMutex.ts` | `locked`, waiting `resolve` functions; owner and count | `lock`, `unlock` | the queues, transactions |
| Worker, `multi-threaded/worker/worker.js` (`worker.ts` is its TypeScript twin) | `store`, `ttlStore`, timers | 14 messages, timer callbacks | pool (messages) |
| Single-threaded store, `single-threaded/single-threaded-store.ts`, `single-threaded/octopus.ts` | `store`, `ttlStore` | `set`, `get`, `del`, `exists`, `incr`, `decr`, `expire`, `ttl` | - |
| Other queues: `QueueWithMutex.ts`, `PriorityTaskQueue.ts`, `DeduplicatedTaskQueue.ts`, `DelayedTaskQueue.ts` | array, key set, mutex | `enqueue`, `dequeue`, polling tick | mutex |
| Other pools: `workerPool.ts`, `workerPoolWithState.ts`, `workerPoolWithTransaction.ts` | workers, waiting tasks | as the pool with OCC | queues, transactions |
| Transactions, `multi-threaded/transaction/impl` | operations, committed flag, mutex; map of transactions | begin, add, commit, rollback | reentrant mutex |

What is hard, and what makes each part correct:

* **Pool.** A fact about a worker is recorded three times: in the map (`idle`,
  `busy`), in `availableWorkers`, and in what its thread is doing. Each event has
  two listeners, one added by `addWorkerToPool` and one by `runWorker`; a
  failing thread has an `error` and an `exit`, so one failure replaces the worker
  up to four times, with other events in between. `processQueue` looks at the
  available workers before an await and uses them after it. Correct: the pool
  keeps its size, offers only workers that can take a task, loses no capacity,
  and an event of one thread never takes another thread's entry out.
* **Queue.** Bodies run after an await of a lock that, since all callers have the
  thread identifier 0, never makes anybody wait. Correct: the heap is ordered,
  the key set and the heap agree, the lock is held until the last body has run and
  then freed, and the whole behaves like a set of tasks with atomic operations.
* **Mutex.** The lock is handed over by resolving a promise, so other callers run
  between `unlock` and the continuation of the waiter. Correct: exclusion, no
  lost wake-up, first come first served.
* **Worker store.** Timers outlive the values they were set for. Correct: each
  timer belongs to one key, and only the last `expire` of a key removes it.
* **Older pools and transactions.** Each listener of the pool with transactions opens a
  transaction, whose commit continues after later listeners have run; the pool with state
  puts a failed worker back on offer. Correct: a full pool, answers to the calls they
  belong to, no transaction left open.
* **Other queues.** A caller computes the time and the place of its item before it waits
  for the lock. Correct: items leave in turn, keys are those of the items, a delayed item
  leaves though nobody asks for it.
* **Single-threaded store.** Expired keys stay in the maps until an operation
  meets them. Correct: no reading operation finds one, and a key that has not expired
  is lost by `del` only. Other operations do see an expired key that is not collected: `del` and
  `expire` answer 1, `expire` revives it, and `set` meets its old expiration time.

`PROJECT.json` lists the hazards line by line with the properties that cover them.

## 2. Modules

| Module | Models | Runs |
|---|---|---|
| `WorkerPoolOCC` (`MCWorkerPoolOCC`) | the pool, the OCC handler, the event loop | four `WorkerPoolOCC_*.cfg` |
| `TaskQueue` | what the queue offers to the pool, as operators | through the pool |
| `TaskQueueSpec` | the same, as an abstract specification | as `ImplementsTaskQueue` |
| `BinaryHeapPriorityQueue` | the heap, as operators on sequences | through the queue |
| `AdvancedTaskQueue` (`MCAdvancedTaskQueue`) | the queue with heap, key set, lock, clock | `AdvancedTaskQueue.cfg` |
| `ReentrantOctopusMutex` | the reentrant lock, as operators on its fields | through the queue |
| `OctopusMutex` | the mutex and its callers | through `TaskQueues` |
| `TaskQueues` | the four queues that use the mutex | `TaskQueues.cfg` |
| `FairLock` | what a fair lock promises | as `ImplementsFairLock` |
| `WorkerPool` | the first pool, `workerPool.ts` | `WorkerPool.cfg` |
| `WorkerPoolVariants` | the pools with state and with transactions, the transactions | `WorkerPoolVariants.cfg` |
| `Octopus` (`MCOctopus`) | `set`, `get`, `del` of the facade over the pool and the threads' stores | `Octopus.cfg` |
| `WorkerStore` | `worker.js` | `WorkerStore.cfg` |
| `KVStore` | the single-threaded store | `KVStore.cfg`, `KVStore_set.cfg` |
| `Collections` | `Map` and `Set` of JavaScript, as operators | through the modules that use them |
| `WorkerPoolOCCProofs`, `AdvancedTaskQueueProofs`, `TaskQueuesProofs` (with the mutex), `WorkerStoreProofs`, `WorkerPoolProofs`, `WorkerPoolVariantsProofs`, `KVStoreProofs` | theorems about the components | `tlapm` |
| `GeneralLemmas` | induction, loops, ordered sets | `tlapm` |

The composition: `WorkerPoolOCC` uses the operators of `TaskQueue`,
`TaskQueueSpec` turns the same operators into a specification, and
`AdvancedTaskQueue` is checked to implement it through the refinement mapping
"the set of tasks in the heap, and those of them whose time has come". So the pool
is checked against what the real queue does, without its heap, priorities and clock.
`WorkerPoolVariants` uses `TaskQueue` in the same way. `TaskQueues` extends `OctopusMutex`:
each of its steps takes a step of the mutex or leaves it alone, so that the properties of the mutex are checked
under its real callers. `Octopus` extends `WorkerPoolOCC`: each of its steps is a step of the
pool, and says what the step makes the threads do to their stores.

### The event loop

JavaScript runs one piece of code to its next `await` without a pause. In
`WorkerPoolOCC` each such piece is an action: a client call, one Worker event with
all its listeners, a timer tick, or one microtask. `microtasks` is the FIFO queue
of continuations; a `Job` says which code continues. Worker events and ticks wait
until it is empty (`Quiet`), as in Node.js. Client calls may come at any time,
between two microtasks too, since the client's code may be a continuation itself.
The continuations of one operation are three jobs (`settled`, `operated`, `ran`):
the promise that the `async` operation returns follows the one its listeners
resolve, `performOperation` continues after its await, and `runWorker` after its own.

The methods of the class are operators from a pool to a pool (`AddWorkerToPool`,
`RemoveWorker`, `ReplaceWorker`, `PerformOperation`), so that a handler is written
as the calls it makes. A thread's `status` is not a field of the program: it records
which events the thread can still send. A thread ends only by throwing;
`markWorkerAsIdleOrReset`, which runs on exit code 0, is therefore never reached
and not modelled.

`ThrowOnUnhandled` is Node's treatment of unhandled rejections. Every failure of a
worker leaves one (`OCCHandler.ts:60`), so with the default (`TRUE`) the process ends
at the first failure, which the run `pool_does_not_survive` shows. The safety and
liveness runs set it to `FALSE` (`--unhandled-rejections=warn`): their behaviours
include all of those with `TRUE` up to the end of the process, and say what the
pool does after failures when the process is allowed to live.

### The first pool

`WorkerPool` models `workerPool.ts`, in which nothing is awaited, so a client call or an event
with all its listeners is one action. Each operation leaves listeners on its worker, and an event
runs those it finds (`Emit`): a failure after k operations returns the worker k times, the exit k times
again, and each return starts a queued call, perhaps on the worker that has failed.

### The pools with state and with transactions

`WorkerPoolVariants` models `workerPoolWithState.ts` and `workerPoolWithTransaction.ts`; the
variable `variant` is chosen at the start. The two share the methods and `processQueue` and
differ in the bodies of their listeners. A thread keeps the calls that were posted to it
(`posted`), because each of them left one listener for each event, and an event runs them
all (`Emit`, by `Heard` and the listeners `CallListener` and `WorkerListener`): the first message, whatever it answers, resolves the promises of all of them.

A listener of the pool with state awaits the reentrant mutex before its body. The
mutex never makes anybody wait, so the await is one microtask, and an event comes only
when none is pending: the bodies of an event's listeners run next, in their order, and before
anything that they cause. The model takes the event and those bodies as one step.

A listener of the pool with transactions starts a transaction, adds one operation, and ends it.
The operation runs in the event's turn; the rest of `commit` and the removal from the
manager's map are microtasks (`commit`, `end`). If the operation failed, the transaction is marked
committed already, so `rollback` throws and `endTransaction` never removes it.
`TransactionsEnd` shows that no operation of the pool fails.

### The advanced queue and its lock

A method of `AdvancedTaskQueue` is two actions: the call, up to its await of `lock()`, and the body with the
`unlock()` of its finally block. `ReentrantOctopusMutex` has all paths of `lock` (enter again, wait, acquire) and
`unlock` (throw, count down, hand over, free). A call that had to wait would stay in the lock's queue until
`unlock` resumes it. `LockServesAll` shows that with one thread identifier this never happens.

### The queues with a mutex

`TaskQueues` models `QueueWithMutex.ts`, `PriorityTaskQueue.ts`, `DeduplicatedTaskQueue.ts` and
`DelayedTaskQueue.ts`; the variable `discipline` is chosen at the start. A call runs to its await of `lock()`
(`Enqueue`, `Dequeue`, `Tick`) and is handed the lock by the steps of `OctopusMutex`; its body
runs in the turn in which it unlocks (`Body`). Items carry a ticket, the number of their call,
for `ItemsLeaveInTurn`; the code has no such number.

### The stores

In `WorkerStore` a message or the callback of one timer is one action; values are a
string, a number, a list or a set; the facade's methods are the messages in
`StringOrCount`, `ListOrSet`, `Expiry`. A push or add on a value of another type
throws, which ends the thread (`Throw`) and has the pool start another
(`NewThread`) with an empty store. Timer objects are numbered anew when they are free. A timer
may fire late but not early.

In `KVStore` the strings are what `Number()`, `parseInt()` and `|| null` tell apart: integers,
a word, the empty string, a blank, `1e1` and `NaN`. Time is kept as what is left until
`expireAt`, in half seconds, so that both the rounding of `ttl` and the strict comparison of
`checkExpiration` are seen. Time past the expiration is one value (-1), so the model is finite.

### Bounds

| Run | Instance | Why it is enough |
|---|---|---|
| `pool_safety` | 2 workers, 5 calls, 3 payloads, one of them throwing, one call delayed | two failures overlap with a reply and with a full pool; a duplicate, a delayed and a due task meet in the queue; a dequeued task competes with a client's call |
| `pool_liveness` | 2 workers, 3 calls (one throws, one is delayed) | a failure while a task is queued and not yet due |
| `pool_drops_dequeued_task`, `pool_does_not_survive` | 2 workers, 4 or 5 calls | shortest counterexamples |
| `queue` | 4 tasks, 2 priorities, 2 delays, clock 0..1, 2 bodies pending | heaps of four nodes have a right child and two levels; due and not due, equal and different priorities; two overlapping bodies re-enter the lock; tasks are symmetric because they only differ in name |
| `queues` | 3 clients and the timer, 3 calls of `enqueue`, 2 ranks, 2 payloads (one falsy), clock 0..1 | a line of three behind a holder, with newcomers at each step of the hand-over; three items are the fewest that can be out of order behind a head; a task is queued again while its first copy leaves |
| `pool_variants` | 2 workers, 4 calls, two of which throw, one delayed | a call is posted to a failed worker before its exit; both workers fail with a call in the queue; a reply, a failure and a client's call compete for a dequeued task |
| `store_forgets` | 1 worker, a set, a get and a del | shortest counterexample; one worker, so that it is not the choice of the thread that loses the value |
| `basic_pool` | 2 workers, 6 calls, two of which throw | a worker fails after operations that left listeners behind, while calls are queued, before and after the exit of the other; both workers may fail |
| `worker_store` | 2 keys, 2 items (one falsy), numbers -1..1, lists up to 2, `expire` of 2 seconds | timers of two keys, an expire repeated before and after a tick, every type on every operation |
| `kv_store` | 2 keys, 7 kinds of string, `expire` of 0 and 1 second | every order of set, del, expire, time and collection on a key, with a second key as witness |

`MaxNow`, `MaxPending`, `MaxEnqueues`, `MaxNumber`, `MaxLength`, `MaxThreads` are bounds of the models;
all other guards come from the code. A pool makes each client call at most once,
which bounds the threads.

Deadlock: every run but `basic_pool` checks it. The pools' timers, the mutex's callers and the stores'
clients can always do something, so those models do not stop; `basic_pool` ends when its client has made
all its calls.

### Fairness

* Pool: weak fairness of microtasks and of the report of rejections (the event loop
  never drops a continuation); of time; strong fairness of each thread's events and of
  the tick, which wait for `Quiet` again and again but are served by the event loop in
  turn. Client calls are not fair.
* Queues with a mutex: microtasks run, and each body ends in a `finally` that unlocks (weak
  fairness); the interval timer fires again and again, which is strong fairness of `Tick`,
  since a tick that waits for the lock stands in line and the next one starts when it is done;
  time passes. Calls are not fair.
* Pools with state and with transactions: microtasks run (weak); some thread's event is served
  whenever events are possible again and again (strong, of their disjunction only).
* Worker store: the clock advances, due callbacks run, and the pool replaces dead threads.
* Queue, first pool and single-threaded store: safety only.

## 3. What the runs show

* `pool_safety`: `PoolAtFullStrength`, `AvailableWorkersAreReady`,
  `UnavailableWorkersAreWorking`, `EventsReachTheirOwnEntry`,
  `CallsRunOnceAndSettleAfter`, `QueuesOnlyWhenSaturated`, `ThreadsServeOnce` hold. The
  redundant listeners are harmless because each replacement tests the size of the map and
  takes a fresh identifier; the tests' order matters, as the mutants show.
* `pool_liveness`: running calls settle, the pool recovers, the queue drains (into the
  tick, if nobody else takes its tasks).
* `queue`: heap, keys, lock and clock implement the abstract set of tasks. Overlapping calls never wait for
  the lock, none frees it under another, and the last frees it. `dequeue` looks at the most urgent task: a due
  task is hidden only by one at least as urgent that is not due.
* `queues`: under the callers of all four queues `OctopusMutex` is a fair lock, and every caller
  gets it; items leave by priority or time and, among equals, in the order of the calls,
  however many wait for the lock; the deduplicated queue refuses a truthy task only while it
  holds it; a delayed item leaves even if nobody dequeues.
* `pool_variants`: both older pools keep their size, offer only workers that are ready (with
  the exception that `FailedUntilExit` names), answer each call with its own result, and
  leave no transaction open; a running call is answered unless its thread failed.
* `basic_pool`: a worker that has not failed serves at most one call, whose promise its reply resolves, and no call
  waits beside a free worker, though failed workers are in the pool many times.
* `worker_store`, `kv_store`: the expiry properties of the inventory.

Four runs end in a counterexample, each against a sentence of the source:

* `pool_drops_dequeued_task`: `processQueue` drops the task it has dequeued if the first
  available worker has the identifier 0, or if none is available after its await.
* `store_forgets`: a `get` called after the promise of a `set` settled does not find the value. The
  reply to `set` starts another thread with an empty store under the same identifier; the thread
  that holds the value lives on and gets no message any more, so threads are leaked as well.
* `pool_does_not_survive`: a worker's failure becomes an unhandled rejection.
* `kv_store_loses_set`: `set` keeps the expiration time of an expired key, and the next
  access removes the new value.

Also met while modelling, and not worth a run because nothing in the code could make them
otherwise: `runWorker` never returns the result of the operation (its promise settles to
`undefined`; the tests are written for a mocked `runWorker`); the promise of a queued call never settles;
in the first pool and in the one
with state, a call that is posted to a failed worker is never answered; the deduplicated queue never forgets the key of a
falsy task (`0`, `''`); with `Octopus.getInstance(0)` the pool has no worker and every call is queued for ever; the delay of a call counts only when the call is queued; a task that is not due hides less urgent tasks
that are, so `dequeue` may answer `undefined` though one is ready; `ttl` of `worker.js` answers the
original duration, even for a deleted key; `incr` of a blank string stores the text `NaN`, where the comment says
"Increment the integer value of a key by one" (`single-threaded/single-threaded-store.ts:43`); `persist` has no case in `worker.js`; a failed
operation settles like a successful one; and the version that the OCC handler compares was read in the same
turn, so that a conflict cannot be found.

## 4. What is proved

Every safety invariant and action property of the passing runs is proved for all values of the constants,
for the pools, the queues, the mutex and the stores; the refinements are proved as well. The
assumptions are the named ones in the modules that declare the constants (`CallsAssumption`,
`AdvancedTaskQueueAssumption`, ...): numbers are numbers, throwing calls are calls, a pool has
at least one worker. `Octopus`, the composition of pool and stores, has only a run that ends in a counterexample.

### The pool with OCC: `WorkerPoolOCCProofs`

For every set of calls and payloads and every `maxWorkers > 0`:

| Theorem | Property |
|---|---|
| `Typing` | `TypeOK` |
| `FullStrength` | `PoolAtFullStrength` |
| `OfferedAreReady` | `AvailableWorkersAreReady` |
| `NoLostWorker` | `UnavailableWorkersAreWorking` |
| `EventsFindTheirEntry` | `EventsReachTheirOwnEntry` |
| `NeverNotFound` | `WorkerAlwaysFound` (a part of `CallsRunOnceAndSettleAfter`) |
| `QueuedOnlyWhenSaturated` | `QueuesOnlyWhenSaturated` |
| `CallsRunOnce` | `CallsRunOnceAndSettleAfter` |
| `OneTaskPerThread` | `ThreadsServeOnce` |

None of the invariants is inductive alone. `Inv` is the typing of all variables with
`PoolOK(pool)`: the map has `maxWorkers` entries and `Consistent(pool, DOMAIN pool.map)`
holds. `Consistent(p, S)` says that every entry in `S` is idle, on offer and has an unused
thread, or is busy, not on offer and has a working thread; that a
working thread is the one of its own entry, in `S`; that the identifier of a thread that failed
is not in `S`; and that all identifiers are below `nextId`. It has the parameter `S` because it must also
hold in the middle of a handler, when a thread has failed, or has replied, and the entry is still
in the map. There is one
lemma for each method of the class (`AddConsistent`, `RemoveConsistent`, `AddNewOK`,
`ReplaceBroken`, `ReplaceReplaced`, `PerformOK`, ...), one for each event that combines them (`ReplyOK`,
`ThrowOK`, `ExitOK`) and one for each action. The heart is `ReplaceBroken`
(a replacement of a failed worker leaves the pool consistent) and `ReplaceReplaced` (a
second replacement under the same identifier changes nothing). `VersionOK` shows that the version check
never fails.

The last two theorems need `CallsInv` in addition: a running call is with exactly one thread
(`ServedOnce`), and the continuations that settle its promise are about a thread that has answered
(`SettledJobs`). It is proved on top of `Inv`, which says that what `performOperation` takes off
`availableWorkers` is an unused thread.

### The advanced queue: `AdvancedTaskQueueProofs`

For every set of tasks, priorities and delays, and heaps of every length:

| Theorem | Property |
|---|---|
| `Invariance` | the inductive invariant |
| `Typing` | `TypeOK` |
| `HeapStaysOrdered` | `HeapOrdered` |
| `KeysMatch` | `KeysMatchHeap` |
| `LockNeverBlocks` | `LockServesAll` |
| `MostUrgentFirst` | `TakesTheMostUrgentDueTask` |
| `TaskQueueImplemented` | `ImplementsTaskQueue` |

`heapifyUp`, `heapifyDown` and the draining loop of the tick are recursive functions of the number of turns made. What a
turn keeps is a lemma (`UpTurn`, `DownTurn`: all nodes are still there, and at most one is out
of order with its parent or its children), and `LoopExists` of `GeneralLemmas` carries it through the loop. From
`HeapifyUpOrders` and `HeapifyDownOrders` follow what `enqueue` and `dequeue` of the heap do
(`EnqueueAdds`, `DequeueRemovesHead`, `HeadIsLeast`). The inductive invariant is the type, the order of the heap,
distinct tasks, the key set being their set, and `LockCountsBodies`: the lock is free, or owned with the
number of waiting bodies as its count and nobody in its queue. `LockNeverWaits` and `UnlockFreesLast` derive from it
which path `lock` and `unlock` take.
`TaskQueueImplemented` maps each body to one operation on the abstract set of tasks, with
the clock's step mapped to the tasks, if any, that become due with it.

### The mutex and its queues: `TaskQueuesProofs`

The mutex, for every set of callers:

| Theorem | Property |
|---|---|
| `Invariance` | the inductive invariant |
| `Typing` | `TypeOK` |
| `Exclusion` | `MutualExclusion` |
| `NoLostWakeUp` | `WaitersAreServed` |
| `FairLockImplemented` | `ImplementsFairLock` |

The inductive invariant adds `LockedMeansHeld` (`locked` is true exactly while somebody has
the lock, also during the hand-over), which makes both the refinement mapping and the exclusion
go through.

The queues, for every set of clients and payloads, all integer ranks and all bounds, assuming that the timer's
callback is one of the callers (`PollerAssumption`):

| Theorem | Property |
|---|---|
| `QueuesUseTheMutex` | the specification of `OctopusMutex` |
| `QueueExclusion` | `MutualExclusion` |
| `QueueNoLostWakeUp` | `WaitersAreServed` |
| `QueueFairLock` | `ImplementsFairLock` |
| `KeysExact` | `KeysAreThoseQueued` |
| `LeaveInTurn` | `ItemsLeaveInTurn` |

The first says that each step of a queue is a step of the mutex or leaves it alone, so that the theorems
about the mutex carry over. The keys need the types of the array and of the requests as well
(`DeduplicatedTypeOK`): a body trusts the item that the call brought before it waited.

`LeaveInTurn` rests on `TurnInv`, which relates the array to the line for the lock: the array is sorted by rank
and ticket (`Sorted`); the callers with a request stand in the line (`RequestsInLine`), in the order of their
tickets (`LineInTurn`), and behind all that is in the array (`ArrayBeforeLine`). A body is that of the head of the line
(`UnlockReleases`, from the proof that the lock is fair), so the item it inserts has the last ticket of the
array, and `InsertedSorted` shows that the stable sort puts it where the order wants it. Whoever leaves,
leaves from the head (`StepInTurn`).

### The worker's store: `WorkerStoreProofs`

For all keys, values, seconds and bounds:

| Theorem | Property |
|---|---|
| `Typing` | `TypeOK` |
| `TimersMatchKeys` | `EveryTimerIsItsKeys` |
| `LastExpireRemoves` | `OnlyTheLastExpireRemoves` |

The invariant pairs the entries of `ttlStore` with the running timers by key (`TimersOK`) and gives each value of the
store its type; a set's items are distinct. It says that the timers are finitely many, so
that a number is free for the next one.

### The first pool: `WorkerPoolProofs`

For all calls, throwing calls and numbers of workers:

| Theorem | Property |
|---|---|
| `Typing` | `TypeOK` |
| `OneCallPerLiveWorker` | `LiveWorkersServeOneCall` |
| `QueuedOnlyWithoutWorkers` | `NoCallWaitsBesideAWorker` |

The invariant says where a call is (queued once and pending, or with one worker) and of each worker that has
not failed that it is in the pool once and without a call, or out of it with one call and that call's message listener.
An event returns its worker as often as listeners were left on it: `ReturnedForKeeps` is an induction over
them, with `ReturnWorkerKeeps` as its step.

### The pools with state and with transactions: `WorkerPoolVariantsProofs`

For all calls, throwing and delayed calls, and every `maxWorkers > 0`:

| Theorem | Property |
|---|---|
| `Soundness` | `PoolIsSound` |
| `OwnAnswers` | `AnswersAreTheirOwn` |
| `NoTransactionStays` | `TransactionsEnd` |

The invariant has the shape of that of the pool with OCC: `Consistent(v, p, S)` excepts the entry of the worker that
the running handler takes out. It says in addition that a thread which works was posted one call (`PostedOK`), which
makes the promise that its message resolves the right one, and that each open transaction has a microtask that will
end it (`Ending`). An event runs the listeners one after another: there is one lemma for each listener (`MessageListener`,
`ErrorListener`, `ExitListener`), one for an event of a worker that was posted one call (`HeardOnce`), one that shows by induction
that any number of further listeners stays in the set of pools that each of them stays in (`HeardStays`), and one for each event that combines them.

### The single-threaded store: `KVStoreProofs`

For every set of keys, every bound on the numbers and all times to live:

| Theorem | Property |
|---|---|
| `Typing` | `TypeOK` |
| `NoStrayTtl` | `TtlOnlyOfStoredKeys` |
| `ExpiredNeverFound` | `ExpiredKeysAreNotFound` |
| `OnlyDelHides` | `OnlyDelAndTimeHide` |

The first two are inductive together. The others follow for each step from them and from lemmas about
`checkExpiration`: what it leaves is visible (`CheckedIsVisible`), and it does not hide
another key (`CheckedStaysVisible`).

### Induction: `GeneralLemmas`

`LeastNumber` (a set of natural numbers that is not empty has a least one, from the well-foundedness of
their order), `Induction` (stated for a set, so that no operator is a parameter) and `LoopExists` (the
recursive function that models a loop exists, obeys its equation and stays in the set that every turn stays
in) are what the proofs about loops rest on; `AddElement` and `DeleteElement` are the facts about JavaScript's ordered sets.

### Only model-checked

The liveness properties (`RunningCallsSettle`, `PoolRecovers`, `QueueDrains`, `EveryCallerEnters`,
`DelayedItemsLeave`, `RunningCallsEndOrFail`, `ExpiringKeysGo`): fairness and ENABLED are out of the prover's reach. The four
counterexamples are TLC's by their nature.

## 5. What is not modelled, and the plan

Not modelled:

* `markWorkerAsIdleOrReset` on exit code 0 in the pools with OCC and with transactions, and the same branch of
  the one with state: no worker thread ends with code 0.
* `rollbackTransaction` and `getTransaction`, which nothing calls; `worker.ts`, which is the
  TypeScript twin of `worker.js` and not the file the pools start.
* Several owners of one `ReentrantOctopusMutex`: workers never use it, and on the main thread
  every caller has the same identifier. So its paths for another owner are written down but never taken.
* The `operation` events, whose listeners only log, the singletons, paths of scripts, types,
  logging, tests of a mocked pool and examples.

What could still be proved: that the composition `Octopus` takes only steps of `WorkerPoolOCC`, so that the theorems about
the pool hold under the facade.
