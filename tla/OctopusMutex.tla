---------------------------- MODULE OctopusMutex ----------------------------
(***************************************************************************)
(* queue/OctopusMutex.ts and its callers: methods such as those of         *)
(* QueueWithMutex.ts that await lock(), run a body and unlock in a finally *)
(* block.  Between two awaits the code runs without a pause, so each stage *)
(* of a caller is one action:                                              *)
(*   outside --lock()--> entering --> inside --unlock()--> outside         *)
(*   outside --lock()--> waiting --unlock() of another--> resumed -->      *)
(*   entering --> inside                                                   *)
(* The callers that are resumed or entering have a microtask pending.      *)
(***************************************************************************)
EXTENDS Sequences, Naturals

CONSTANT Callers

VARIABLES
    locked,   \* this.locked
    queue,    \* this.queue: the callers whose resolve functions it holds
    at        \* where each caller is

vars == <<locked, queue, at>>

Stages == {"outside", "waiting", "resumed", "entering", "inside"}

Init ==
    /\ locked = FALSE
    /\ queue = <<>>
    /\ at = [p \in Callers |-> "outside"]

(* Mutant: the promise is queued, and not the function that resolves it.   *)
LockQueuesPromise(p) ==
    /\ at[p] = "outside"
    /\ IF locked
       THEN /\ queue' = Append(queue, [promise |-> p])
            /\ at' = [at EXCEPT ![p] = "waiting"]
            /\ UNCHANGED locked
       ELSE /\ locked' = TRUE
            /\ at' = [at EXCEPT ![p] = "entering"]
            /\ UNCHANGED queue

(* lock() up to its await, or to its end when the lock is free.            *)
Lock(p) ==
    /\ at[p] = "outside"
    /\ IF locked
       THEN /\ queue' = Append(queue, p)
            /\ at' = [at EXCEPT ![p] = "waiting"]
            /\ UNCHANGED locked
       ELSE /\ locked' = TRUE
            /\ at' = [at EXCEPT ![p] = "entering"]
            /\ UNCHANGED queue

(* lock() after its await.                                                 *)
Resume(p) ==
    /\ at[p] = "resumed"
    /\ locked' = TRUE
    /\ at' = [at EXCEPT ![p] = "entering"]
    /\ UNCHANGED queue

(* The caller goes on after its await of lock().                           *)
Enter(p) ==
    /\ at[p] = "entering"
    /\ at' = [at EXCEPT ![p] = "inside"]
    /\ UNCHANGED <<locked, queue>>

(* Mutant: unlock frees the lock before it wakes the first waiter, and a   *)
(* caller that comes before the waiter resumes takes it.                   *)
UnlockFirst(p) ==
    /\ at[p] = "inside"
    /\ locked' = FALSE
    /\ IF queue # <<>>
       THEN /\ queue' = Tail(queue)
            /\ at' = [at EXCEPT ![p] = "outside", ![Head(queue)] = "resumed"]
       ELSE /\ at' = [at EXCEPT ![p] = "outside"]
            /\ UNCHANGED queue

(* Mutant: unlock frees the lock and wakes nobody.                         *)
UnlockWakesNobody(p) ==
    /\ at[p] = "inside"
    /\ locked' = FALSE
    /\ at' = [at EXCEPT ![p] = "outside"]
    /\ UNCHANGED queue

(* Mutant: the last waiter is resolved first.                              *)
UnlockLastIn(p) ==
    /\ at[p] = "inside"
    /\ IF queue # <<>>
       THEN /\ queue' = SubSeq(queue, 1, Len(queue) - 1)
            /\ at' = [at EXCEPT ![p] = "outside", ![queue[Len(queue)]] = "resumed"]
            /\ UNCHANGED locked
       ELSE /\ locked' = FALSE
            /\ at' = [at EXCEPT ![p] = "outside"]
            /\ UNCHANGED queue

(* unlock() hands the lock to the first waiter: `locked' stays TRUE.       *)
Unlock(p) ==
    /\ at[p] = "inside"
    /\ IF queue # <<>>
       THEN /\ queue' = Tail(queue)
            /\ at' = [at EXCEPT ![p] = "outside", ![Head(queue)] = "resumed"]
            /\ UNCHANGED locked
       ELSE /\ locked' = FALSE
            /\ at' = [at EXCEPT ![p] = "outside"]
            /\ UNCHANGED queue

Next == \E p \in Callers : Lock(p) \/ Resume(p) \/ Enter(p) \/ Unlock(p)

Spec == Init /\ [][Next]_vars

(* Microtasks run, and every body ends: its unlock() is in a finally.      *)
Fairness == \A p \in Callers : WF_vars(Resume(p)) /\ WF_vars(Enter(p)) /\ WF_vars(Unlock(p))

FairSpec == Spec /\ Fairness

-----------------------------------------------------------------------------
(* Properties                                                              *)

(* Every field of the class has its type.                                  *)
TypeOK ==
    /\ locked \in BOOLEAN
    /\ queue \in Seq(Callers)
    /\ at \in [Callers -> Stages]

(* A caller has the lock from the moment lock() or unlock() gives it away. *)
Has(p) == at[p] \in {"resumed", "entering", "inside"}

(* Two bodies never overlap, not even across their awaits, and no body     *)
(* overlaps the hand-over of the lock to another caller.                   *)
MutualExclusion == \A p, q \in Callers : Has(p) /\ Has(q) => p = q

(* No wake-up is lost: while callers wait somebody has the lock and will   *)
(* unlock it, and each waits at one place of the queue.                    *)
WaitersAreServed ==
    /\ \A p \in Callers : at[p] = "waiting" <=> \E i \in 1..Len(queue) : queue[i] = p
    /\ \A i, j \in 1..Len(queue) : queue[i] = queue[j] => i = j
    /\ queue # <<>> => \E p \in Callers : Has(p)

(* `locked' says exactly whether somebody has the lock, also while the     *)
(* lock is handed over and nobody is inside.                               *)
LockedMeansHeld == locked <=> \E p \in Callers : Has(p)

(* The mutex implements a fair lock: callers get in in the order in which  *)
(* they called lock(), with nobody overtaking during the hand-over.        *)
Holder == CHOOSE p \in Callers : Has(p)

Line == IF locked THEN <<Holder>> \o queue ELSE queue

Fair == INSTANCE FairLock WITH line <- Line

ImplementsFairLock == Fair!Spec

(* Every call of lock() returns.                                           *)
EveryCallerEnters == \A p \in Callers : at[p] = "waiting" ~> at[p] = "inside"
=============================================================================
