----------------------------- MODULE WorkerPool -----------------------------
(***************************************************************************)
(* worker/workerPool.ts: the first pool of the program, without metadata.  *)
(* Each operation adds a listener for `message', `error' and `exit' to the *)
(* worker it is sent to; an event removes and runs all the listeners it    *)
(* has, in order, and leaves those of the other events in place.           *)
(*                                                                         *)
(* Nothing is awaited between the changes, so a client call and an event   *)
(* are one action each.  `pool' is the state that they work on.            *)
(***************************************************************************)
EXTENDS Naturals, SequencesExt

CONSTANTS
    Calls,       \* client calls of runWorker
    Throwing,    \* calls on which the worker's script throws
    MaxWorkers   \* the constructor's maxWorkers

ASSUME WorkerPoolAssumption == Throwing \subseteq Calls /\ MaxWorkers \in Nat \ {0}

Workers == 1..MaxWorkers
Events == {"message", "error", "exit"}

VARIABLES
    pool,     \* workerPool, taskQueue, each worker's inbox and listeners
    status,   \* each thread: alive, failed, exited
    promise   \* each call's promise: uncalled, pending, resolved, rejected

vars == <<pool, status, promise>>

-----------------------------------------------------------------------------
(* The methods, as operators on the pool                                   *)

(* postMessage and the three listeners; a thread that has ended never      *)
(* looks at its inbox.                                                     *)
Post(p, w, c) ==
    [p EXCEPT !.inbox[w] = Append(@, c),
              !.listeners[w] = [event \in Events |-> Append(@[event], c)]]

(* runWorker: on the first worker of the pool, or queued.                  *)
Run(p, c) ==
    IF p.workerPool = <<>>
    THEN [p EXCEPT !.taskQueue = Append(@, c)]
    ELSE Post([p EXCEPT !.workerPool = Tail(@)], Head(p.workerPool), c)

(* Mutant: the task is read and not removed.                               *)
ProcessQueuePeeks(p) ==
    IF p.taskQueue = <<>> THEN p ELSE Run(p, Head(p.taskQueue))

ProcessQueue(p) ==
    IF p.taskQueue = <<>>
    THEN p
    ELSE Run([p EXCEPT !.taskQueue = Tail(@)], Head(p.taskQueue))

(* Mutant: the listener returns the worker and leaves the queue alone.     *)
ReturnWorkerOnly(p, w) == [p EXCEPT !.workerPool = Append(@, w)]

(* What all listeners do, for failures and exits too.                      *)
ReturnWorker(p, w) == ProcessQueue([p EXCEPT !.workerPool = Append(@, w)])

(* The listeners of n calls, one after the other.                          *)
ReturnedFor(p, w, n) ==
    LET after[i \in 0..n] == IF i = 0 THEN p ELSE ReturnWorker(after[i - 1], w)
    IN  after[n]

(* Mutant: on() instead of once().                                         *)
EmitKeepsListeners(p, w, event) == ReturnedFor(p, w, Len(p.listeners[w][event]))

(* The listeners that an event finds run once; those that are added        *)
(* meanwhile wait for the next such event.                                 *)
Emit(p, w, event) ==
    ReturnedFor([p EXCEPT !.listeners[w][event] = <<>>], w, Len(p.listeners[w][event]))

(* resolve and reject have no effect on a promise that is settled.         *)
Settle(calls, how) ==
    promise' = [c \in Calls |-> IF c \in Range(calls) /\ promise[c] = "pending"
                                THEN how ELSE promise[c]]

-----------------------------------------------------------------------------
RunWorker(c) ==
    /\ promise[c] = "uncalled"
    /\ pool' = Run(pool, c)
    /\ promise' = [promise EXCEPT ![c] = "pending"]
    /\ UNCHANGED status

Serves(w) == status[w] = "alive" /\ pool.inbox[w] # <<>>

WorkerReplies(w) ==
    /\ Serves(w)
    /\ Head(pool.inbox[w]) \notin Throwing
    /\ pool' = Emit([pool EXCEPT !.inbox[w] = Tail(@)], w, "message")
    /\ Settle(pool.listeners[w]["message"], "resolved")
    /\ UNCHANGED status

WorkerThrows(w) ==
    /\ Serves(w)
    /\ Head(pool.inbox[w]) \in Throwing
    /\ status' = [status EXCEPT ![w] = "failed"]
    /\ pool' = Emit(pool, w, "error")
    /\ Settle(pool.listeners[w]["error"], "rejected")

WorkerExits(w) ==
    /\ status[w] = "failed"
    /\ status' = [status EXCEPT ![w] = "exited"]
    /\ pool' = Emit(pool, w, "exit")
    /\ UNCHANGED promise

-----------------------------------------------------------------------------
Init ==
    /\ pool = [workerPool |-> [i \in Workers |-> i],
               taskQueue  |-> <<>>,
               inbox      |-> [w \in Workers |-> <<>>],
               listeners  |-> [w \in Workers |-> [event \in Events |-> <<>>]]]
    /\ status = [w \in Workers |-> "alive"]
    /\ promise = [c \in Calls |-> "uncalled"]

Next ==
    \/ \E c \in Calls : RunWorker(c)
    \/ \E w \in Workers : WorkerReplies(w) \/ WorkerThrows(w) \/ WorkerExits(w)

Spec == Init /\ [][Next]_vars

-----------------------------------------------------------------------------
(* Properties                                                              *)

Posted == UNION {Range(pool.listeners[w]["exit"]) \cup Range(pool.inbox[w]) : w \in Workers}

(* Every field has its type, and no call is queued twice, or queued and    *)
(* posted.                                                                 *)
TypeOK ==
    /\ pool.workerPool \in Seq(Workers)
    /\ pool.taskQueue \in Seq(Calls) /\ IsInjective(pool.taskQueue)
    /\ Range(pool.taskQueue) \cap Posted = {}
    /\ \A w \in Workers :
          /\ pool.inbox[w] \in Seq(Calls)
          /\ \A event \in Events : pool.listeners[w][event] \in Seq(Calls)
    /\ status \in [Workers -> {"alive", "failed", "exited"}]
    /\ promise \in [Calls -> {"uncalled", "pending", "resolved", "rejected"}]

(* However often its workers' companions fail, and whatever listeners they *)
(* have left behind, a worker that has not failed is in the pool once, or  *)
(* serves one call, whose promise is the one that its reply resolves.      *)
LiveWorkersServeOneCall ==
    \A w \in Workers : status[w] = "alive" =>
        LET places == {i \in 1..Len(pool.workerPool) : pool.workerPool[i] = w}
        IN  /\ Cardinality(places) + Len(pool.inbox[w]) = 1
            /\ pool.listeners[w]["message"] = pool.inbox[w]
            /\ \A c \in Range(pool.inbox[w]) : promise[c] = "pending"

(* No call waits in the queue while the pool has a worker, although each   *)
(* listener takes one task only and a failure returns its worker often.    *)
NoCallWaitsBesideAWorker == pool.taskQueue # <<>> => pool.workerPool = <<>>
=============================================================================
