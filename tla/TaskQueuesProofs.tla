--------------------------- MODULE TaskQueuesProofs ---------------------------
(***************************************************************************)
(* Proofs about OctopusMutex, for any set of callers, and about the four   *)
(* queues of TaskQueues that it guards, for any callers, payloads and      *)
(* bounds and any integer ranks.                                           *)
(*                                                                         *)
(* The conjunction of the mutex's invariants is inductive as it stands:    *)
(* mutual exclusion needs `locked' to say whether somebody has the lock (a *)
(* caller that finds it FALSE takes the lock), and this needs that a       *)
(* caller leaves the queue only by being handed the lock.                  *)
(* Each step of a queue is a step of its mutex or leaves the mutex alone,  *)
(* so the theorems about the mutex hold for the queues.  The keys of the   *)
(* deduplicated queue are those of its tasks: inductive with the types of  *)
(* the array and of the requests.  The array of each queue is sorted by    *)
(* rank and call: inductive with the order of the calls in the line for    *)
(* the lock.                                                               *)
(***************************************************************************)
EXTENDS TaskQueues, GeneralLemmas, TLAPS

-----------------------------------------------------------------------------
(* The mutex                                                               *)

Inv == TypeOK /\ MutualExclusion /\ WaitersAreServed /\ LockedMeansHeld

(* A fresh mutex satisfies the invariant.                                  *)
LEMMA InitInv == Init => Inv
<1> SUFFICES ASSUME Init PROVE Inv
  OBVIOUS
<1>1. \A p \in Callers : ~Has(p) /\ at[p] # "waiting"
  BY DEF Init, Has
<1>2. queue = <<>> /\ Len(queue) = 0
  BY DEF Init
<1>3. TypeOK
  <2>1. <<>> \in Seq(Callers)
    OBVIOUS
  <2>2. at \in [Callers -> Stages]
    BY DEF Init, Stages
  <2> QED
    BY <2>1, <2>2 DEF Init, TypeOK
<1>4. MutualExclusion /\ LockedMeansHeld
  BY <1>1 DEF Init, MutualExclusion, LockedMeansHeld
<1>5. WaitersAreServed
  BY <1>1, <1>2 DEF WaitersAreServed
<1> QED
  BY <1>3, <1>4, <1>5 DEF Inv

(* lock() preserves the invariant, whether it waits or takes the lock.     *)
LEMMA LockInv == ASSUME Inv, NEW p \in Callers, Lock(p) PROVE Inv'
<1> USE DEF Stages, Has
<1>1. CASE locked
  <2>1. queue' = Append(queue, p) /\ at' = [at EXCEPT ![p] = "waiting"] /\ locked' = locked
    BY <1>1 DEF Lock
  <2>2. TypeOK'
    BY <2>1 DEF Inv, TypeOK
  <2>3. \A q \in Callers : Has(q)' <=> Has(q)
    BY <2>1 DEF Lock, Inv, TypeOK
  <2>4. Len(queue') = Len(queue) + 1 /\ queue'[Len(queue) + 1] = p
        /\ \A i \in 1..Len(queue) : queue'[i] = queue[i]
    BY <2>1 DEF Inv, TypeOK
  <2>5. ~ \E i \in 1..Len(queue) : queue[i] = p
    BY DEF Lock, Inv, WaitersAreServed
  <2>6. WaitersAreServed'
    <3>1. \A q \in Callers : at'[q] = "waiting" <=> \E i \in 1..Len(queue') : queue'[i] = q
      BY <2>1, <2>4, <2>5 DEF Inv, TypeOK, WaitersAreServed
    <3>2. \A i, j \in 1..Len(queue') : queue'[i] = queue'[j] => i = j
      BY <2>4, <2>5 DEF Inv, TypeOK, WaitersAreServed
    <3>3. \E q \in Callers : Has(q)'
      BY <1>1, <2>3 DEF Inv, LockedMeansHeld
    <3> QED
      BY <3>1, <3>2, <3>3 DEF WaitersAreServed
  <2> QED
    BY <2>1, <2>2, <2>3, <2>6 DEF Inv, MutualExclusion, LockedMeansHeld
<1>2. CASE ~locked
  <2>1. queue' = queue /\ at' = [at EXCEPT ![p] = "entering"] /\ locked' = TRUE
    BY <1>2 DEF Lock
  <2>2. \A q \in Callers : ~Has(q)
    BY <1>2 DEF Inv, LockedMeansHeld
  <2>3. \A q \in Callers : Has(q)' <=> q = p
    BY <2>1, <2>2 DEF Inv, TypeOK
  <2>4. queue = <<>>
    BY <2>2 DEF Inv, WaitersAreServed
  <2>5. at[p] = "outside"
    BY DEF Lock
  <2> QED
    BY <2>1, <2>3, <2>4, <2>5
       DEF Inv, TypeOK, MutualExclusion, WaitersAreServed, LockedMeansHeld
<1> QED
  BY <1>1, <1>2

(* The microtasks that go from the hand-over to the body preserve it.      *)
LEMMA MicrotaskInv == ASSUME Inv, NEW p \in Callers, Resume(p) \/ Enter(p) PROVE Inv'
<1> USE DEF Stages, Has
<1>1. Has(p) /\ at[p] # "waiting"
  BY DEF Resume, Enter
<1>2. locked' = locked /\ queue' = queue
  BY <1>1 DEF Inv, TypeOK, LockedMeansHeld, Resume, Enter
<1>3. at' \in [Callers -> Stages]
  BY DEF Resume, Enter, Inv, TypeOK
<1>4. \A q \in Callers : (Has(q)' <=> Has(q)) /\ (at'[q] = "waiting" <=> at[q] = "waiting")
  BY DEF Resume, Enter, Inv, TypeOK
<1> QED
  BY <1>2, <1>3, <1>4 DEF Inv, TypeOK, MutualExclusion, WaitersAreServed, LockedMeansHeld

(* unlock() preserves it: it wakes the only caller that has the lock next. *)
LEMMA UnlockInv == ASSUME Inv, NEW p \in Callers, Unlock(p) PROVE Inv'
<1> USE DEF Stages, Has
<1>1. \A q \in Callers : Has(q) <=> q = p
  BY DEF Inv, MutualExclusion, Unlock
<1>2. CASE queue # <<>>
  <2> DEFINE next == Head(queue)
  <2>1. queue' = Tail(queue) /\ locked' = locked
        /\ at' = [at EXCEPT ![p] = "outside", ![next] = "resumed"]
    BY <1>2 DEF Unlock
  <2>2. next \in Callers /\ next = queue[1] /\ Len(queue) >= 1 /\ Tail(queue) \in Seq(Callers)
        /\ Len(Tail(queue)) = Len(queue) - 1
        /\ \A i \in 1..Len(Tail(queue)) : Tail(queue)[i] = queue[i + 1]
    BY <1>2 DEF Inv, TypeOK
  <2>3. at[next] = "waiting" /\ next # p
    BY <2>2 DEF Inv, WaitersAreServed, Unlock
  <2>4. TypeOK'
    BY <2>1, <2>2 DEF Inv, TypeOK
  <2>5. \A q \in Callers : Has(q)' <=> q = next
    BY <1>1, <2>1, <2>2, <2>3 DEF Inv, TypeOK
  <2>6. WaitersAreServed'
    <3>1. ASSUME NEW q \in Callers
          PROVE  at'[q] = "waiting" <=> at[q] = "waiting" /\ q # next
      BY <2>1, <2>2, <2>3 DEF Inv, TypeOK, Unlock
    <3>2. ASSUME NEW q \in Callers
          PROVE  (\E i \in 1..Len(queue') : queue'[i] = q)
                    <=> (\E i \in 1..Len(queue) : queue[i] = q) /\ q # next
      <4>1. ASSUME NEW i \in 1..Len(queue'), queue'[i] = q
            PROVE  i + 1 \in 1..Len(queue) /\ queue[i + 1] = q /\ q # next
        BY <4>1, <2>1, <2>2 DEF Inv, TypeOK, WaitersAreServed
      <4>2. ASSUME NEW i \in 1..Len(queue), queue[i] = q, q # next
            PROVE  i - 1 \in 1..Len(queue') /\ queue'[i - 1] = q
        BY <4>2, <2>1, <2>2 DEF Inv, TypeOK
      <4> QED
        BY <4>1, <4>2
    <3>3. \A i, j \in 1..Len(queue') : queue'[i] = queue'[j] => i = j
      BY <2>1, <2>2 DEF Inv, TypeOK, WaitersAreServed
    <3> QED
      BY <3>1, <3>2, <3>3, <2>2, <2>5 DEF Inv, WaitersAreServed
  <2>7. locked
    BY <1>1 DEF Inv, LockedMeansHeld
  <2> QED
    BY <2>1, <2>2, <2>4, <2>5, <2>6, <2>7 DEF Inv, MutualExclusion, LockedMeansHeld
<1>3. CASE queue = <<>>
  <2>1. queue' = queue /\ locked' = FALSE /\ at' = [at EXCEPT ![p] = "outside"]
    BY <1>3 DEF Unlock
  <2>2. \A q \in Callers : ~Has(q)' /\ (at'[q] = "waiting" <=> at[q] = "waiting")
    BY <1>1, <2>1 DEF Inv, TypeOK, Unlock
  <2>3. TypeOK'
    BY <2>1 DEF Inv, TypeOK
  <2>4. WaitersAreServed'
    BY <1>3, <2>1, <2>2 DEF Inv, WaitersAreServed
  <2> QED
    BY <2>1, <2>2, <2>3, <2>4 DEF Inv, MutualExclusion, LockedMeansHeld
<1> QED
  BY <1>2, <1>3

(* Every step of the mutex and its callers preserves the invariant.        *)
LEMMA NextInv == Inv /\ [Next]_vars => Inv'
<1> SUFFICES ASSUME Inv, [Next]_vars PROVE Inv'
  OBVIOUS
<1>1. CASE Next
  BY <1>1, LockInv, MicrotaskInv, UnlockInv DEF Next
<1>2. CASE UNCHANGED vars
  BY <1>2 DEF vars, Inv, TypeOK, MutualExclusion, WaitersAreServed, LockedMeansHeld, Has
<1> QED
  BY <1>1, <1>2

(* The invariant holds in every reachable state, for any set of callers.   *)
THEOREM Invariance == Spec => []Inv
BY InitInv, NextInv, PTL DEF Spec

(* The fields of the mutex have their types, and the stages of its callers  *)
(* are those of lock() and unlock().                                       *)
THEOREM Typing == Spec => []TypeOK
<1>1. Inv => TypeOK
  BY DEF Inv
<1> QED
  BY <1>1, Invariance, PTL

(* Two bodies guarded by the same mutex never overlap.                     *)
THEOREM Exclusion == Spec => []MutualExclusion
<1>1. Inv => MutualExclusion
  BY DEF Inv
<1> QED
  BY <1>1, Invariance, PTL

(* While callers wait, somebody has the lock and will hand it on.          *)
THEOREM NoLostWakeUp == Spec => []WaitersAreServed
<1>1. Inv => WaitersAreServed
  BY DEF Inv
<1> QED
  BY <1>1, Invariance, PTL

-----------------------------------------------------------------------------
(* The caller that has the lock is the one that the line starts with.      *)
LEMMA HolderHas == ASSUME Inv, NEW p \in Callers, Has(p) PROVE Holder = p /\ locked
BY DEF Inv, MutualExclusion, LockedMeansHeld, Holder

LEMMA HolderHasNext == ASSUME Inv', NEW p \in Callers, Has(p)' PROVE Holder' = p /\ locked'
<1>1. \A q \in Callers : Has(q)' => q = p
  BY DEF Inv, MutualExclusion
<1>2. locked'
  BY DEF Inv, LockedMeansHeld
<1> QED
  BY <1>1, <1>2 DEF Holder, Has

(* lock() appends the caller to the line.                                  *)
LEMMA LockRequests == ASSUME Inv, Inv', NEW p \in Callers, Lock(p) PROVE Fair!Request(p)
<1>1. CASE locked
  <2>1. PICK h \in Callers : Has(h)
    BY <1>1 DEF Inv, LockedMeansHeld
  <2>2. Has(h)'
    BY <1>1, <2>1 DEF Lock, Has, Inv, TypeOK
  <2>3. Line = <<h>> \o queue /\ Line' = <<h>> \o queue'
    BY <2>1, <2>2, HolderHas, HolderHasNext DEF Line
  <2>4. queue' = Append(queue, p) /\ queue \in Seq(Callers)
    BY <1>1 DEF Lock, Inv, TypeOK
  <2>5. <<h>> \o Append(queue, p) = Append(<<h>> \o queue, p)
    BY <2>4
  <2> QED
    BY <2>3, <2>4, <2>5 DEF Fair!Request
<1>2. CASE ~locked
  <2>1. ~ \E q \in Callers : Has(q)
    BY <1>2 DEF Inv, LockedMeansHeld
  <2>2. queue = <<>> /\ queue' = <<>>
    BY <1>2, <2>1 DEF Lock, Inv, WaitersAreServed
  <2>3. Has(p)'
    BY <1>2 DEF Lock, Has, Inv, TypeOK
  <2>4. Line = <<>>
    BY <1>2, <2>2 DEF Line
  <2>5. Line' = <<p>> \o queue'
    BY <2>3, HolderHasNext DEF Line
  <2>6. <<p>> \o <<>> = Append(<<>>, p)
    OBVIOUS
  <2> QED
    BY <2>2, <2>4, <2>5, <2>6 DEF Fair!Request
<1> QED
  BY <1>1, <1>2

(* unlock() takes the caller from the head of the line.                    *)
LEMMA UnlockReleases == ASSUME Inv, Inv', NEW p \in Callers, Unlock(p) PROVE Fair!Release(p)
<1>1. Has(p)
  BY DEF Unlock, Has
<1>2. queue \in Seq(Callers)
  BY DEF Inv, TypeOK
<1>3. Line = <<p>> \o queue
  BY <1>1, HolderHas DEF Line
<1>4. Line # <<>> /\ Head(Line) = p /\ Tail(Line) = queue
  BY <1>2, <1>3
<1>5. Line' = queue
  <2>1. CASE queue # <<>>
    <3>1. PICK h \in Callers : h = Head(queue) /\ <<h>> \o Tail(queue) = queue
      BY <1>2, <2>1
    <3>2. queue' = Tail(queue) /\ at' = [at EXCEPT ![p] = "outside", ![h] = "resumed"]
      BY <2>1, <3>1 DEF Unlock
    <3>3. at'[h] = "resumed"
      BY <3>2 DEF Inv, TypeOK
    <3>4. Has(h)'
      BY <3>3 DEF Has
    <3>5. Line' = <<h>> \o queue'
      BY <3>4, HolderHasNext DEF Line
    <3> QED
      BY <3>1, <3>2, <3>5
  <2>2. CASE queue = <<>>
    BY <2>2 DEF Unlock, Line
  <2> QED
    BY <2>1, <2>2
<1> QED
  BY <1>4, <1>5 DEF Fair!Release

(* The microtasks in between leave the line as it is.                      *)
LEMMA MicrotaskStutters ==
    ASSUME Inv, Inv', NEW p \in Callers, Resume(p) \/ Enter(p)
    PROVE  Line' = Line
<1>1. Has(p) /\ Has(p)' /\ queue' = queue
  BY DEF Resume, Enter, Has, Inv, TypeOK
<1> QED
  BY <1>1, HolderHas, HolderHasNext DEF Line

(* OctopusMutex is a fair lock: callers hold it one at a time, in the order *)
(* of their calls of lock().                                               *)
THEOREM FairLockImplemented == Spec => ImplementsFairLock
<1>1. Init => Fair!Init
  BY DEF Init, Line, Fair!Init
<1>2. Inv /\ Inv' /\ [Next]_vars => [Fair!Next]_Line
  <2> SUFFICES ASSUME Inv, Inv', [Next]_vars PROVE [Fair!Next]_Line
    OBVIOUS
  <2>1. CASE UNCHANGED vars
    BY <2>1 DEF vars, Line, Holder, Has
  <2>2. CASE Next
    BY <2>2, LockRequests, UnlockReleases, MicrotaskStutters DEF Next, Fair!Next
  <2> QED
    BY <2>1, <2>2
<1> QED
  BY <1>1, <1>2, Invariance, PTL DEF Spec, ImplementsFairLock, Fair!Spec

-----------------------------------------------------------------------------
(* The queues and the mutex                                                *)

(* Every step of a queue maps to a step of the mutex or to a stutter.      *)
LEMMA QueueStepIsMutexStep == QueueNext => [Next]_vars
<1> SUFFICES ASSUME QueueNext PROVE [Next]_vars
  OBVIOUS
<1>1. ASSUME NEW p \in Callers, NEW what, Begins(p, what) PROVE Next
  BY <1>1 DEF Begins, Next
<1>2. ASSUME NEW p \in Callers \ {Poller}, Enqueue(p) \/ Dequeue(p) PROVE Next
  BY <1>1, <1>2 DEF Enqueue, Dequeue
<1>3. ASSUME NEW p \in Callers, Handover(p) \/ Body(p) PROVE Next
  BY <1>3 DEF Handover, Body, Next
<1>4. ASSUME Tick PROVE Next
  BY <1>1, <1>4, PollerAssumption DEF Tick
<1>5. ASSUME TimePasses PROVE UNCHANGED vars
  BY <1>5 DEF TimePasses, vars
<1> QED
  BY <1>2, <1>3, <1>4, <1>5 DEF QueueNext

(* The four queues use the mutex as its specification says callers do:     *)
(* each locks once before its body and unlocks once after it.              *)
THEOREM QueuesUseTheMutex == QueueSpec => Spec
<1>1. QueueInit => Init
  BY DEF QueueInit
<1>2. [QueueNext]_queueVars => [Next]_vars
  BY QueueStepIsMutexStep DEF queueVars, vars
<1> QED
  BY <1>1, <1>2, PTL DEF QueueSpec, Spec

(* No two bodies of a queue overlap, whatever clients and timer do.        *)
THEOREM QueueExclusion == QueueSpec => []MutualExclusion
  BY QueuesUseTheMutex, Exclusion, PTL

(* No caller of a queue loses its wake-up.                                 *)
THEOREM QueueNoLostWakeUp == QueueSpec => []WaitersAreServed
  BY QueuesUseTheMutex, NoLostWakeUp, PTL

(* The callers of a queue get the lock in the order of their calls.        *)
THEOREM QueueFairLock == QueueSpec => ImplementsFairLock
  BY QueuesUseTheMutex, FairLockImplemented, PTL

-----------------------------------------------------------------------------
(* The keys of the deduplicated queue                                      *)

Items == [task : Payloads, rank : {0}, ticket : Nat]

Requests == [kind : {"none", "enqueue", "dequeue"}, item : Items \cup {NoItem}]

(* What the deduplicated queue's array and its callers hold; nobody polls. *)
DeduplicatedTypeOK ==
    discipline = "deduplicated" =>
        /\ enqueues \in Nat
        /\ array \in Seq(Items)
        /\ request \in [Callers -> Requests]
        /\ \A p \in Callers : request[p].kind = "enqueue" => request[p].item \in Items

KeysInv == DeduplicatedTypeOK /\ KeysAreThoseQueued

(* Appending a task that is not in the set, with its key, keeps the keys.  *)
LEMMA AppendKeeps ==
    ASSUME discipline = "deduplicated", discipline' = discipline, KeysInv,
           NEW item \in Items, item.task \notin taskSet,
           array' = Append(array, item), taskSet' = taskSet \cup {item.task}
    PROVE  array' \in Seq(Items) /\ KeysAreThoseQueued'
<1>1. array \in Seq(Items) /\ Range(array) = {array[i] : i \in 1..Len(array)}
  BY DEF KeysInv, DeduplicatedTypeOK, Range
<1>2. array' \in Seq(Items) /\ Len(array') = Len(array) + 1 /\ array'[Len(array) + 1] = item
      /\ \A i \in 1..Len(array) : array'[i] = array[i]
  BY <1>1
<1>3. \A i \in 1..Len(array) : array[i].task # item.task /\ array[i].task \in taskSet
  BY <1>1 DEF KeysInv, KeysAreThoseQueued, Queued
<1>4. \A i, j \in 1..Len(array') : array'[i].task = array'[j].task => i = j
  BY <1>1, <1>2, <1>3 DEF KeysInv, KeysAreThoseQueued
<1>5. Range(array') = Range(array) \cup {item}
  BY <1>1, <1>2 DEF Range
<1>6. {x.task : x \in Queued'} = {x.task : x \in Queued} \cup {item.task}
  BY <1>5 DEF Queued
<1> QED
  BY <1>2, <1>4, <1>6 DEF KeysInv, KeysAreThoseQueued

(* Shifting the first task, with its key if it is truthy, keeps the keys:  *)
(* no other task of the array has that key.                                *)
LEMMA ShiftKeeps ==
    ASSUME discipline = "deduplicated", discipline' = discipline, KeysInv, array # <<>>,
           array' = Tail(array),
           taskSet' = IF Head(array).task \in Falsy THEN taskSet ELSE taskSet \ {Head(array).task}
    PROVE  array' \in Seq(Items) /\ KeysAreThoseQueued'
<1> DEFINE head == Head(array)
<1>1. array \in Seq(Items) /\ Range(array) = {array[i] : i \in 1..Len(array)}
  BY DEF KeysInv, DeduplicatedTypeOK, Range
<1>2. array' \in Seq(Items) /\ Len(array') = Len(array) - 1 /\ head = array[1] /\ Len(array) >= 1
      /\ \A i \in 1..Len(array') : array'[i] = array[i + 1] /\ i + 1 \in 1..Len(array)
  BY <1>1
<1>3. \A i \in 1..Len(array') : array'[i].task # head.task
  BY <1>1, <1>2 DEF KeysInv, KeysAreThoseQueued
<1>4. \A i, j \in 1..Len(array') : array'[i].task = array'[j].task => i = j
  BY <1>1, <1>2 DEF KeysInv, KeysAreThoseQueued
<1>5. Range(array') = {array'[i] : i \in 1..Len(array')}
  <2>1. DOMAIN array' = 1..Len(array')
    BY <1>2
  <2> QED
    BY <2>1, Zenon DEF Range
<1>6. Range(array) = Range(array') \cup {head}
  <2>1. \A i \in 1..Len(array) : i = 1 \/ (i - 1 \in 1..Len(array') /\ array[i] = array'[i - 1])
    BY <1>1, <1>2
  <2>2. Range(array) \subseteq Range(array') \cup {head}
    <3>1. ASSUME NEW i \in 1..Len(array), i # 1 PROVE array[i] \in Range(array')
      BY <1>5, <2>1, <3>1
    <3>2. \A i \in 1..Len(array) : array[i] \in Range(array') \cup {head}
      BY <1>2, <3>1
    <3> QED
      BY <1>1, <3>2, Zenon
  <2>3. head \in Range(array)
    BY <1>1, <1>2
  <2>4. Range(array') \subseteq Range(array)
    BY <1>1, <1>2, <1>5
  <2> QED
    BY <2>2, <2>3, <2>4, Zenon
<1>7. \A x \in Range(array') : x.task # head.task
  BY <1>3, <1>5
<1>8. {x.task : x \in Queued'} = {x.task : x \in Queued} \ {head.task}
  BY <1>6, <1>7 DEF Queued
<1> QED
  BY <1>2, <1>4, <1>8 DEF KeysInv, KeysAreThoseQueued

(* A queue starts with no task and no key.                                 *)
LEMMA InitKeys == QueueInit => KeysInv
<1> SUFFICES ASSUME QueueInit PROVE KeysInv
  OBVIOUS
<1>1. array = <<>> /\ taskSet = {} /\ Len(array) = 0 /\ <<>> \in Seq(Items) /\ Range(array) = {}
  BY DEF QueueInit, Range
<1>2. DeduplicatedTypeOK
  BY <1>1 DEF QueueInit, DeduplicatedTypeOK, Requests, Idle, Request
<1> QED
  BY <1>1, <1>2 DEF KeysInv, KeysAreThoseQueued, Queued

(* A call that does not enqueue asks for nothing, and changes no task.     *)
LEMMA BeginsKeeps ==
    ASSUME discipline = "deduplicated", discipline' = discipline, KeysInv,
           NEW p \in Callers, NEW what \in Requests, what.kind = "enqueue" => what.item \in Items,
           Begins(p, what), enqueues' \in Nat, UNCHANGED <<array, taskSet>>
    PROVE  KeysInv'
<1>1. request' \in [Callers -> Requests]
      /\ \A q \in Callers : request'[q] = IF q = p THEN what ELSE request[q]
  BY DEF Begins, KeysInv, DeduplicatedTypeOK
<1>2. DeduplicatedTypeOK'
  BY <1>1 DEF KeysInv, DeduplicatedTypeOK
<1>3. KeysAreThoseQueued'
  BY DEF KeysInv, KeysAreThoseQueued, Queued
<1> QED
  BY <1>2, <1>3 DEF KeysInv

(* The bodies of the deduplicated queue keep tasks and keys together.      *)
LEMMA BodyKeeps ==
    ASSUME discipline = "deduplicated", KeysInv, NEW p \in Callers, Body(p)
    PROVE  KeysInv'
<1>1. discipline' = discipline /\ enqueues' = enqueues /\ request' = [request EXCEPT ![p] = Idle]
  BY DEF Body
<1>2. request[p] \in Requests /\ (request[p].kind = "enqueue" => request[p].item \in Items)
  BY DEF KeysInv, DeduplicatedTypeOK
<1>3. array' \in Seq(Items) /\ KeysAreThoseQueued'
  <2>0. ASSUME UNCHANGED <<array, taskSet>> PROVE array' \in Seq(Items) /\ KeysAreThoseQueued'
    BY <1>1, <2>0 DEF KeysInv, DeduplicatedTypeOK, KeysAreThoseQueued, Queued
  <2>1. CASE EnqueueBody(p)
    <3> DEFINE item == request[p].item
    <3>1. CASE item.task \in taskSet
      BY <2>0, <2>1, <3>1 DEF EnqueueBody
    <3>2. CASE item.task \notin taskSet
      <4>1. item \in Items /\ array' = Append(array, item) /\ taskSet' = taskSet \cup {item.task}
        BY <1>2, <2>1, <3>2 DEF EnqueueBody
      <4> QED
        BY <1>1, <3>2, <4>1, AppendKeeps
    <3> QED
      BY <3>1, <3>2
  <2>2. CASE DequeueBody(p)
    <3>1. CASE array = <<>>
      BY <2>0, <2>2, <3>1 DEF DequeueBody, Ready
    <3>2. CASE array # <<>>
      BY <1>1, <2>2, <3>2, ShiftKeeps DEF DequeueBody, Ready
    <3> QED
      BY <3>1, <3>2
  <2>3. ~ PollBody(p)
    BY <1>2 DEF PollBody, Requests
  <2> QED
    BY <2>1, <2>2, <2>3 DEF Body
<1>4. request' \in [Callers -> Requests]
      /\ \A q \in Callers : request'[q] = IF q = p THEN Idle ELSE request[q]
  BY <1>1 DEF KeysInv, DeduplicatedTypeOK, Requests, Idle, Request
<1>5. DeduplicatedTypeOK'
  BY <1>1, <1>3, <1>4 DEF KeysInv, DeduplicatedTypeOK, Idle, Request
<1> QED
  BY <1>3, <1>5 DEF KeysInv

(* Every step of a queue preserves the invariant.                          *)
LEMMA NextKeys == KeysInv /\ [QueueNext]_queueVars => KeysInv'
<1> SUFFICES ASSUME KeysInv, [QueueNext]_queueVars PROVE KeysInv'
  OBVIOUS
<1>1. discipline' = discipline
  BY DEF QueueNext, Enqueue, Dequeue, Handover, Body, Tick, TimePasses, dataVars, queueVars
<1>2. CASE discipline # "deduplicated"
  BY <1>1, <1>2 DEF KeysInv, DeduplicatedTypeOK, KeysAreThoseQueued
<1>3. CASE discipline = "deduplicated"
  <2>0. enqueues \in Nat
    BY <1>3 DEF KeysInv, DeduplicatedTypeOK
  <2>1. ASSUME NEW p \in Callers, Enqueue(p) PROVE KeysInv'
    <3>1. PayloadsNow = Payloads /\ RanksNow = {0}
      BY <1>3 DEF PayloadsNow, RanksNow
    <3>2. PICK task \in Payloads :
             Begins(p, Request("enqueue", [task |-> task, rank |-> 0, ticket |-> enqueues]))
      BY <2>1, <3>1 DEF Enqueue
    <3> DEFINE item == [task |-> task, rank |-> 0, ticket |-> enqueues]
    <3>3. item \in Items
      BY <2>0 DEF Items
    <3>4. Request("enqueue", item) \in Requests /\ Request("enqueue", item).item = item
      BY <3>3 DEF Request, Requests
    <3>5. enqueues' \in Nat /\ UNCHANGED <<array, taskSet>>
      BY <2>0, <2>1 DEF Enqueue
    <3> HIDE DEF item
    <3> QED
      BY <1>1, <1>3, <3>2, <3>3, <3>4, <3>5, BeginsKeeps DEF item
  <2>2. ASSUME NEW p \in Callers, Dequeue(p) PROVE KeysInv'
    <3>1. Request("dequeue", NoItem) \in Requests /\ Request("dequeue", NoItem).kind # "enqueue"
      BY DEF Request, Requests
    <3>2. Begins(p, Request("dequeue", NoItem)) /\ enqueues' \in Nat /\ UNCHANGED <<array, taskSet>>
      BY <2>0, <2>2 DEF Dequeue
    <3> QED
      BY <1>1, <1>3, <3>1, <3>2, BeginsKeeps
  <2>3. ASSUME NEW p \in Callers, Handover(p) PROVE KeysInv'
    BY <2>3 DEF Handover, dataVars, KeysInv, DeduplicatedTypeOK, KeysAreThoseQueued, Queued
  <2>4. ASSUME NEW p \in Callers, Body(p) PROVE KeysInv'
    BY <1>3, <2>4, BodyKeeps
  <2>5. ~Tick /\ ~TimePasses
    BY <1>3 DEF Tick, TimePasses
  <2>6. CASE UNCHANGED queueVars
    BY <2>6 DEF queueVars, KeysInv, DeduplicatedTypeOK, KeysAreThoseQueued, Queued
  <2> QED
    BY <2>1, <2>2, <2>3, <2>4, <2>5, <2>6 DEF QueueNext
<1> QED
  BY <1>2, <1>3

(* The deduplicated queue holds no task twice, and refuses a truthy task   *)
(* only while it holds it.                                                 *)
THEOREM KeysExact == QueueSpec => []KeysAreThoseQueued
<1>1. KeysInv => KeysAreThoseQueued
  BY DEF KeysInv
<1> QED
  BY <1>1, InitKeys, NextKeys, PTL DEF QueueSpec

-----------------------------------------------------------------------------
(* The order of the items                                                  *)

AnyPayload == Payloads \cup {CHOOSE task \in Payloads : TRUE}

Timed == [task : AnyPayload, rank : Int, ticket : Nat]

(* a comes before b in the array.                                          *)
Before(a, b) == a.rank < b.rank \/ (a.rank = b.rank /\ a.ticket < b.ticket)

Sorted(items) == \A i, j \in 1..Len(items) : i < j => Before(items[i], items[j])

Enqueues(p) == request[p].kind = "enqueue"

(* The callers that have a request stand in the line for the lock...       *)
RequestsInLine ==
    \A p \in Callers : request[p].kind # "none" => \E i \in 1..Len(Line) : Line[i] = p

(* ... in the order of their tickets, ...                                  *)
LineInTurn ==
    \A i, j \in 1..Len(Line) :
        i < j /\ Enqueues(Line[i]) /\ Enqueues(Line[j])
            => request[Line[i]].item.ticket < request[Line[j]].item.ticket

(* ... and behind every item that is in the array.                         *)
ArrayBeforeLine ==
    \A i \in 1..Len(array), p \in Callers :
        Enqueues(p) => array[i].ticket < request[p].item.ticket

TicketsGiven ==
    /\ \A p \in Callers : Enqueues(p) => request[p].item.ticket < enqueues
    /\ \A i \in 1..Len(array) : array[i].ticket < enqueues

(* The items of the deduplicated queue, which does not sort, have one rank.*)
Unranked ==
    discipline = "deduplicated" =>
        /\ \A p \in Callers : Enqueues(p) => request[p].item.rank = 0
        /\ \A i \in 1..Len(array) : array[i].rank = 0

TurnTypeOK ==
    /\ enqueues \in Nat
    /\ now \in Nat
    /\ array \in Seq(Timed)
    /\ DOMAIN request = Callers
    /\ request = [p \in Callers |-> request[p]]
    /\ \A p \in Callers : Enqueues(p) => request[p].item \in Timed

TurnInv ==
    /\ TurnTypeOK
    /\ RequestsInLine
    /\ LineInTurn
    /\ ArrayBeforeLine
    /\ TicketsGiven
    /\ Unranked
    /\ Sorted(array)

-----------------------------------------------------------------------------
LEMMA ItemTyped ==
    ASSUME NEW items \in Seq(Timed)
    PROVE  /\ Len(items) \in Nat /\ DOMAIN items = 1..Len(items)
           /\ \A i \in 1..Len(items) :
                 items[i] \in Timed /\ items[i].rank \in Int /\ items[i].ticket \in Nat
<1>1. \A i \in 1..Len(items) : items[i] \in Timed
  OBVIOUS
<1>2. \A x \in Timed : x.rank \in Int /\ x.ticket \in Nat
  BY DEF Timed
<1> QED BY <1>1, <1>2

(* The leading items of a sorted array are those with at most some rank.   *)
LEMMA LeadingItems ==
    ASSUME NEW items \in Seq(Timed), Sorted(items), NEW rank \in Int
    PROVE  LET n == Leading(items, rank)
           IN  /\ n \in 0..Len(items)
               /\ \A i \in 1..n : items[i].rank <= rank
               /\ \A i \in (n + 1)..Len(items) : items[i].rank > rank
<1> DEFINE P(n) == /\ \A i \in 1..n : items[i].rank <= rank
                   /\ n < Len(items) => items[n + 1].rank > rank
           T == {i \in 1..Len(items) : items[i].rank > rank}
           n == Leading(items, rank)
<1>1. Len(items) \in Nat /\ \A i \in 1..Len(items) : items[i].rank \in Int
  BY ItemTyped
<1>2. \E m \in 0..Len(items) : P(m)
  <2>1. CASE T = {}
    <3>1. P(Len(items)) /\ Len(items) \in 0..Len(items)
      BY <1>1, <2>1
    <3> QED BY <3>1
  <2>2. CASE T # {}
    <3>1. PICK x \in T : \A y \in T : x <= y
      <4>1. T \subseteq Nat
        OBVIOUS
      <4> HIDE DEF T
      <4> QED BY <2>2, <4>1, LeastNumber
    <3>2. x \in 1..Len(items) /\ items[x].rank > rank /\ x - 1 \in 0..Len(items) /\ (x - 1) + 1 = x
      BY <1>1
    <3>3. ASSUME NEW i \in 1..(x - 1) PROVE items[i].rank <= rank
      <4>1. i \in 1..Len(items) /\ i \notin T
        BY <1>1, <3>1, <3>2
      <4> QED BY <1>1, <4>1
    <3>4. P(x - 1)
      BY <3>2, <3>3
    <3> QED BY <3>2, <3>4
  <2> QED BY <2>1, <2>2
<1>3. n \in 0..Len(items) /\ P(n)
  <2>1. n = CHOOSE m \in 0..Len(items) : P(m)
    BY DEF Leading
  <2> HIDE DEF P, n
  <2> QED BY <1>2, <2>1, Zenon
<1> HIDE DEF n
<1>4. ASSUME NEW i \in (n + 1)..Len(items) PROVE items[i].rank > rank
  <2>1. n + 1 \in 1..Len(items) /\ i \in 1..Len(items) /\ items[n + 1].rank > rank
    BY <1>1, <1>3
  <2>2. i = n + 1 \/ items[n + 1].rank <= items[i].rank
    BY <1>1, <2>1 DEF Sorted, Before
  <2> QED BY <1>1, <2>1, <2>2
<1> QED BY <1>3, <1>4 DEF n

(* An item that is inserted where its rank puts it, with a later ticket    *)
(* than all others, leaves the array sorted.                               *)
LEMMA InsertedSorted ==
    ASSUME NEW items \in Seq(Timed), Sorted(items), NEW item \in Timed,
           \A i \in 1..Len(items) : items[i].ticket < item.ticket
    PROVE  LET r == Inserted(items, item)
           IN  r \in Seq(Timed) /\ Sorted(r) /\ Range(r) = Range(items) \cup {item}
<1> DEFINE n == Leading(items, item.rank)
           a == SubSeq(items, 1, n)
           b == SubSeq(items, n + 1, Len(items))
           r == (a \o <<item>>) \o b
<1>1. item.rank \in Int /\ item.ticket \in Nat /\ Len(items) \in Nat
  BY DEF Timed
<1>2. /\ n \in 0..Len(items)
      /\ \A i \in 1..n : items[i].rank <= item.rank
      /\ \A i \in (n + 1)..Len(items) : items[i].rank > item.rank
  BY <1>1, LeadingItems
<1>3. Inserted(items, item) = r
  <2>1. (n + 1) - 1 = n
    BY <1>2
  <2> HIDE DEF n
  <2> QED BY <2>1 DEF Inserted, InsertAt, n
<1> HIDE DEF n
<1>4. a \in Seq(Timed) /\ Len(a) = n /\ \A i \in 1..n : a[i] = items[i]
  BY <1>1, <1>2
<1>5. b \in Seq(Timed) /\ Len(b) = Len(items) - n /\ \A i \in 1..(Len(items) - n) : b[i] = items[n + i]
  BY <1>1, <1>2
<1> HIDE DEF a, b
<1>6. /\ r \in Seq(Timed) /\ Len(r) = Len(items) + 1
      /\ \A i \in 1..n : r[i] = items[i]
      /\ r[n + 1] = item
      /\ \A i \in (n + 2)..(Len(items) + 1) : r[i] = items[i - 1]
  <2> DEFINE c == a \o <<item>>
  <2>1. /\ c \in Seq(Timed) /\ Len(c) = n + 1 /\ c[n + 1] = item
        /\ \A i \in 1..n : c[i] = items[i]
    BY <1>2, <1>4
  <2> HIDE DEF c
  <2>2. /\ c \o b \in Seq(Timed) /\ Len(c \o b) = Len(items) + 1
        /\ \A i \in 1..(n + 1) : (c \o b)[i] = c[i]
        /\ \A i \in (n + 2)..(Len(items) + 1) : (c \o b)[i] = b[i - (n + 1)]
    BY <1>1, <1>2, <1>5, <2>1
  <2>3. \A i \in (n + 2)..(Len(items) + 1) :
           i - (n + 1) \in 1..(Len(items) - n) /\ n + (i - (n + 1)) = i - 1
    BY <1>1, <1>2
  <2>4. r = c \o b
    BY DEF c
  <2> HIDE DEF r
  <2>5. ASSUME NEW i \in 1..n PROVE r[i] = items[i]
    BY <1>2, <2>1, <2>2, <2>4
  <2>6. ASSUME NEW i \in (n + 2)..(Len(items) + 1) PROVE r[i] = items[i - 1]
    BY <1>5, <2>2, <2>3, <2>4
  <2>7. r[n + 1] = item
    BY <1>2, <2>1, <2>2, <2>4
  <2> QED BY <2>2, <2>4, <2>5, <2>6, <2>7
<1> HIDE DEF r
<1>7. \A i \in 1..Len(r) : i \in 1..n \/ i = n + 1 \/ i \in (n + 2)..(Len(items) + 1)
  BY <1>1, <1>2, <1>6
<1>8. Sorted(r)
  <2> SUFFICES ASSUME NEW i \in 1..Len(r), NEW j \in 1..Len(r), i < j PROVE Before(r[i], r[j])
    BY DEF Sorted
  <2>1. \A k \in 1..Len(items) : items[k].rank \in Int /\ items[k].ticket \in Nat
    BY ItemTyped
  <2>2. CASE j \in 1..n
    BY <1>2, <1>6, <2>2 DEF Sorted
  <2>3. CASE j = n + 1
    <3>1. i \in 1..n /\ i \in 1..Len(items)
      BY <1>1, <1>2, <2>3
    <3> QED BY <1>1, <1>2, <1>6, <2>1, <2>3, <3>1 DEF Before
  <2>4. CASE j \in (n + 2)..(Len(items) + 1)
    <3>1. j - 1 \in (n + 1)..Len(items) /\ j - 1 \in 1..Len(items) /\ r[j] = items[j - 1]
      BY <1>1, <1>2, <1>6, <2>4
    <3>2. CASE i \in 1..n
      <4>1. i \in 1..Len(items) /\ i < j - 1
        BY <1>2, <2>4, <3>2
      <4> QED BY <1>6, <3>1, <3>2, <4>1 DEF Sorted
    <3>3. CASE i = n + 1
      BY <1>1, <1>2, <1>6, <2>1, <3>1, <3>3 DEF Before
    <3>4. CASE i \in (n + 2)..(Len(items) + 1)
      <4>1. i - 1 \in 1..Len(items) /\ i - 1 < j - 1 /\ r[i] = items[i - 1]
        BY <1>1, <1>2, <1>6, <2>4, <3>4
      <4> QED BY <3>1, <4>1 DEF Sorted
    <3> QED BY <1>7, <3>2, <3>3, <3>4
  <2> QED BY <1>7, <2>2, <2>3, <2>4
<1>9. Range(r) = Range(items) \cup {item}
  <2>1. DOMAIN r = 1..Len(r) /\ DOMAIN items = 1..Len(items)
    BY <1>6, ItemTyped
  <2>2. ASSUME NEW i \in 1..Len(r) PROVE r[i] \in Range(items) \cup {item}
    <3>1. \A k \in 1..Len(items) : items[k] \in Range(items)
      BY <2>1 DEF Range
    <3>2. CASE i \in 1..n
      BY <1>1, <1>2, <1>6, <3>1, <3>2
    <3>3. CASE i = n + 1
      BY <1>6, <3>3
    <3>4. CASE i \in (n + 2)..(Len(items) + 1)
      <4>1. i - 1 \in 1..Len(items) /\ r[i] = items[i - 1]
        BY <1>1, <1>2, <1>6, <3>4
      <4> QED BY <3>1, <4>1
    <3> QED BY <1>7, <3>2, <3>3, <3>4
  <2>3. ASSUME NEW i \in 1..Len(items) PROVE items[i] \in Range(r)
    <3>1. CASE i \in 1..n
      <4>1. i \in 1..Len(r) /\ r[i] = items[i]
        BY <1>1, <1>2, <1>6, <3>1
      <4> QED BY <2>1, <4>1 DEF Range
    <3>2. CASE i \notin 1..n
      <4>1. i + 1 \in (n + 2)..(Len(items) + 1) /\ i + 1 \in 1..Len(r) /\ (i + 1) - 1 = i
        BY <1>1, <1>2, <1>6, <3>2
      <4>2. r[i + 1] = items[i]
        BY <1>6, <4>1
      <4> QED BY <2>1, <4>1, <4>2 DEF Range
    <3> QED BY <3>1, <3>2
  <2>4. item \in Range(r)
    BY <1>1, <1>2, <1>6, <2>1 DEF Range
  <2> QED BY <2>1, <2>2, <2>3, <2>4 DEF Range
<1> QED BY <1>3, <1>6, <1>8, <1>9

(* Without some items at its head a sorted array is sorted.                *)
LEMMA SuffixSorted ==
    ASSUME NEW items \in Seq(Timed), Sorted(items), NEW n \in 0..Len(items)
    PROVE  LET r == SubSeq(items, n + 1, Len(items))
           IN  /\ r \in Seq(Timed) /\ Sorted(r) /\ Len(r) = Len(items) - n
               /\ \A i \in 1..Len(r) : r[i] = items[i + n] /\ i + n \in 1..Len(items)
<1> DEFINE r == SubSeq(items, n + 1, Len(items))
<1>1. /\ r \in Seq(Timed) /\ Len(r) = Len(items) - n
      /\ \A i \in 1..Len(r) : r[i] = items[i + n] /\ i + n \in 1..Len(items)
  <2>1. Len(items) \in Nat
    OBVIOUS
  <2>2. r \in Seq(Timed) /\ Len(r) = Len(items) - n
    BY <2>1
  <2>3. ASSUME NEW i \in 1..(Len(items) - n)
        PROVE  i + n \in 1..Len(items) /\ r[i] = items[i + n]
    BY <2>1
  <2> QED BY <2>2, <2>3
<1> HIDE DEF r
<1>2. Sorted(r)
  BY <1>1 DEF Sorted
<1> QED BY <1>1, <1>2 DEF r

-----------------------------------------------------------------------------
(* The line                                                                *)

LEMMA LineTyped ==
    ASSUME Inv
    PROVE  /\ Line \in Seq(Callers)
           /\ \A p \in Callers : at[p] = "outside" => \A i \in 1..Len(Line) : Line[i] # p
<1>1. queue \in Seq(Callers)
  BY DEF Inv, TypeOK
<1>2. \A p \in Callers : at[p] = "outside" => ~Has(p) /\ \A i \in 1..Len(queue) : queue[i] # p
  BY DEF Inv, WaitersAreServed, Has
<1>3. CASE ~locked
  BY <1>1, <1>2, <1>3 DEF Line
<1>4. CASE locked
  <2>1. PICK h \in Callers : Has(h)
    BY <1>4 DEF Inv, LockedMeansHeld
  <2>2. Line = <<h>> \o queue
    BY <1>4, <2>1, HolderHas DEF Line
  <2>3. /\ <<h>> \o queue \in Seq(Callers)
        /\ \A i \in 1..Len(<<h>> \o queue) :
              (<<h>> \o queue)[i] = h \/ \E j \in 1..Len(queue) : (<<h>> \o queue)[i] = queue[j]
    <3>1. <<h>> \in Seq(Callers) /\ Len(<<h>>) = 1 /\ <<h>>[1] = h
      OBVIOUS
    <3> DEFINE a == <<h>>
    <3> HIDE DEF a
    <3>2. /\ a \o queue \in Seq(Callers) /\ Len(a \o queue) = Len(queue) + 1
          /\ (a \o queue)[1] = h
          /\ \A i \in 2..(Len(queue) + 1) : (a \o queue)[i] = queue[i - 1]
      BY <1>1, <3>1 DEF a
    <3>3. \A i \in 1..(Len(queue) + 1) : i = 1 \/ (i \in 2..(Len(queue) + 1) /\ i - 1 \in 1..Len(queue))
      BY <1>1
    <3> QED BY <3>2, <3>3 DEF a
  <2> QED BY <1>2, <2>1, <2>2, <2>3
<1> QED BY <1>3, <1>4

(* Nothing that the order is about changes.                                *)
LEMMA SameTurns ==
    ASSUME TurnInv, Line' = Line, UNCHANGED <<discipline, array, request, enqueues>>, now' \in Nat
    PROVE  TurnInv'
<1>1. TurnTypeOK'
  BY DEF TurnInv, TurnTypeOK, Enqueues
<1>2. RequestsInLine' /\ LineInTurn'
  BY DEF TurnInv, RequestsInLine, LineInTurn, Enqueues
<1>3. ArrayBeforeLine' /\ TicketsGiven' /\ Unranked'
  BY DEF TurnInv, ArrayBeforeLine, TicketsGiven, Unranked, Enqueues
<1>4. Sorted(array)'
  BY DEF TurnInv
<1> QED BY <1>1, <1>2, <1>3, <1>4 DEF TurnInv

(* A call is the last in the line, and an item it brings has the last      *)
(* ticket.                                                                 *)
LEMMA BeginsInTurn ==
    ASSUME TurnInv, Inv, Inv', NEW p \in Callers, NEW what, Begins(p, what),
           what.kind = "enqueue" =>
              /\ what.item \in Timed /\ what.item.ticket = enqueues
              /\ enqueues' = enqueues + 1
              /\ discipline = "deduplicated" => what.item.rank = 0,
           enqueues' \in {enqueues, enqueues + 1},
           UNCHANGED <<discipline, array, now>>
    PROVE  TurnInv'
<1> DEFINE n == Len(Line) + 1
<1>1. Line \in Seq(Callers) /\ \A i \in 1..Len(Line) : Line[i] # p
  BY LineTyped DEF Begins, Lock
<1>2. Line' = Append(Line, p)
  BY LockRequests DEF Begins, Fair!Request
<1>3. /\ Len(Line') = n /\ Line'[n] = p /\ n \in 1..Len(Line')
      /\ \A i \in 1..Len(Line) : Line'[i] = Line[i] /\ i \in 1..Len(Line')
      /\ \A i \in 1..Len(Line') : i = n \/ i \in 1..Len(Line)
  BY <1>1, <1>2
<1>4. /\ request' = [q \in Callers |-> request'[q]] /\ DOMAIN request' = Callers
      /\ request'[p] = what
      /\ \A q \in Callers \ {p} : request'[q] = request[q]
  BY DEF TurnInv, TurnTypeOK, Begins
<1>5. /\ enqueues \in Nat /\ enqueues' \in Nat /\ array \in Seq(Timed)
      /\ \A q \in Callers : Enqueues(q) => request[q].item \in Timed
  BY DEF TurnInv, TurnTypeOK
<1>6. \A q \in Callers \ {p} : Enqueues(q)' <=> Enqueues(q)
  BY <1>4 DEF Enqueues
<1>7. Enqueues(p)' => what.kind = "enqueue"
  BY <1>4 DEF Enqueues
<1>8. \A q \in Callers : Enqueues(q) => request[q].item.ticket < enqueues /\ request[q].item.ticket \in Nat
  BY <1>5 DEF TurnInv, TicketsGiven, Timed
<1>9. \A i \in 1..Len(array) : array[i].ticket < enqueues /\ array[i].ticket \in Nat
  BY <1>5, ItemTyped DEF TurnInv, TicketsGiven
<1> HIDE DEF n
<1>10. TurnTypeOK'
  <2>1. \A q \in Callers : Enqueues(q)' => request'[q].item \in Timed
    BY <1>4, <1>5, <1>6, <1>7
  <2> QED BY <1>4, <1>5, <2>1 DEF TurnInv, TurnTypeOK, Enqueues
<1>11. RequestsInLine'
  <2>1. ASSUME NEW q \in Callers, request'[q].kind # "none" PROVE \E i \in 1..Len(Line') : Line'[i] = q
    <3>1. CASE q = p
      BY <1>3, <3>1
    <3>2. CASE q # p
      <4>1. PICK i \in 1..Len(Line) : Line[i] = q
        BY <1>4, <2>1, <3>2 DEF TurnInv, RequestsInLine
      <4> QED BY <1>3, <4>1
    <3> QED BY <3>1, <3>2
  <2> QED BY <2>1 DEF RequestsInLine
<1>12. LineInTurn'
  <2> SUFFICES ASSUME NEW i \in 1..Len(Line'), NEW j \in 1..Len(Line'), i < j,
                      request'[Line'[i]].kind = "enqueue", request'[Line'[j]].kind = "enqueue"
               PROVE  request'[Line'[i]].item.ticket < request'[Line'[j]].item.ticket
    BY DEF LineInTurn, Enqueues
  <2>1. i \in 1..Len(Line) /\ Line'[i] = Line[i] /\ Line[i] \in Callers \ {p}
    <3>1. n \in Nat /\ Len(Line') = n
      BY <1>1, <1>3 DEF n
    <3>2. i # n
      BY <3>1
    <3> QED BY <1>1, <1>3, <3>2
  <2>2. Enqueues(Line[i]) /\ request'[Line'[i]] = request[Line[i]]
    BY <1>4, <1>6, <2>1 DEF Enqueues
  <2>3. CASE j = n
    BY <1>3, <1>4, <1>7, <1>8, <2>1, <2>2, <2>3
  <2>4. CASE j \in 1..Len(Line)
    <3>1. Line'[j] = Line[j] /\ Line[j] \in Callers \ {p}
      BY <1>1, <1>3, <2>4
    <3>2. Enqueues(Line[j]) /\ request'[Line'[j]] = request[Line[j]]
      BY <1>4, <1>6, <3>1 DEF Enqueues
    <3> QED BY <2>1, <2>2, <2>4, <3>2 DEF TurnInv, LineInTurn
  <2> QED BY <1>3, <2>3, <2>4
<1>13. ArrayBeforeLine'
  <2> SUFFICES ASSUME NEW i \in 1..Len(array), NEW q \in Callers, Enqueues(q)'
               PROVE  array[i].ticket < request'[q].item.ticket
    BY DEF ArrayBeforeLine, Enqueues
  <2>1. CASE q = p
    BY <1>4, <1>7, <1>9, <2>1
  <2>2. CASE q # p
    BY <1>4, <1>6, <2>2 DEF TurnInv, ArrayBeforeLine
  <2> QED BY <2>1, <2>2
<1>14. TicketsGiven'
  <2>1. ASSUME NEW q \in Callers, Enqueues(q)' PROVE request'[q].item.ticket < enqueues'
    <3>1. CASE q = p
      BY <1>4, <1>5, <1>7, <2>1, <3>1
    <3>2. CASE q # p
      BY <1>4, <1>5, <1>6, <1>8, <2>1, <3>2
    <3> QED BY <3>1, <3>2
  <2>2. \A i \in 1..Len(array) : array[i].ticket < enqueues'
    BY <1>5, <1>9
  <2> QED BY <2>1, <2>2 DEF TicketsGiven, Enqueues
<1>15. Unranked'
  <2>1. ASSUME NEW q \in Callers, Enqueues(q)', discipline = "deduplicated"
        PROVE  request'[q].item.rank = 0
    <3>1. CASE q = p
      BY <1>4, <1>7, <2>1, <3>1
    <3>2. CASE q # p
      BY <1>4, <1>6, <2>1, <3>2 DEF TurnInv, Unranked
    <3> QED BY <3>1, <3>2
  <2> QED BY <2>1 DEF TurnInv, Unranked, Enqueues
<1>16. Sorted(array)'
  BY DEF TurnInv
<1> QED BY <1>10, <1>11, <1>12, <1>13, <1>14, <1>15, <1>16 DEF TurnInv

(* A body adds its item where it belongs, or takes items from the head.    *)
LEMMA BodyArray ==
    ASSUME TurnInv, NEW p \in Callers, EnqueueBody(p) \/ DequeueBody(p) \/ PollBody(p)
    PROVE  /\ array' \in Seq(Timed) /\ Sorted(array)'
           /\ \/ /\ Enqueues(p) /\ Range(array') = Range(array) \cup {request[p].item}
              \/ \E n \in 0..Len(array) : array' = SubSeq(array, n + 1, Len(array))
<1>1. array \in Seq(Timed) /\ Sorted(array) /\ now \in Nat /\ Len(array) \in Nat
  BY DEF TurnInv, TurnTypeOK
<1>2. ASSUME NEW n \in 0..Len(array), array' = SubSeq(array, n + 1, Len(array))
      PROVE  /\ array' \in Seq(Timed) /\ Sorted(array)'
             /\ \E m \in 0..Len(array) : array' = SubSeq(array, m + 1, Len(array))
  BY <1>1, <1>2, SuffixSorted
<1>3. CASE array' = array
  <2>1. array' = SubSeq(array, 0 + 1, Len(array)) /\ 0 \in 0..Len(array)
    BY <1>1, <1>3
  <2> QED BY <1>2, <2>1
<1>4. CASE EnqueueBody(p) /\ array' # array
  <2> DEFINE item == request[p].item
  <2>1. Enqueues(p) /\ item \in Timed /\ \A i \in 1..Len(array) : array[i].ticket < item.ticket
    BY <1>4 DEF EnqueueBody, Enqueues, TurnInv, TurnTypeOK, ArrayBeforeLine
  <2>2. CASE discipline # "deduplicated"
    <3>1. array' = Inserted(array, item)
      BY <1>4, <2>2 DEF EnqueueBody
    <3> HIDE DEF item
    <3> QED BY <1>1, <2>1, <3>1, InsertedSorted DEF item
  <2>3. CASE discipline = "deduplicated"
    <3>1. array' = Append(array, item)
      BY <1>4, <2>3 DEF EnqueueBody
    <3>2. item.rank = 0 /\ \A i \in 1..Len(array) : array[i].rank = 0
      BY <2>1, <2>3 DEF TurnInv, Unranked
    <3> HIDE DEF item
    <3>3. /\ array' \in Seq(Timed) /\ Len(array') = Len(array) + 1
          /\ array'[Len(array) + 1] = item
          /\ \A i \in 1..Len(array) : array'[i] = array[i]
      BY <1>1, <2>1, <3>1
    <3>4. Sorted(array)'
      <4> SUFFICES ASSUME NEW i \in 1..Len(array'), NEW j \in 1..Len(array'), i < j
                   PROVE  Before(array'[i], array'[j])
        BY DEF Sorted
      <4>1. i \in 1..Len(array) /\ array'[i] = array[i]
        BY <1>1, <3>3
      <4>2. CASE j = Len(array) + 1
        BY <2>1, <3>2, <3>3, <4>1, <4>2 DEF Before
      <4>3. CASE j \in 1..Len(array)
        BY <1>1, <3>3, <4>1, <4>3 DEF Sorted
      <4> QED BY <1>1, <3>3, <4>2, <4>3
    <3>5. Range(array') = Range(array) \cup {item}
      <4>1. DOMAIN array = 1..Len(array) /\ DOMAIN array' = 1..(Len(array) + 1)
        BY <1>1, <3>3, ItemTyped
      <4>2. \A i \in 1..(Len(array) + 1) : i = Len(array) + 1 \/ i \in 1..Len(array)
        BY <1>1
      <4> QED BY <1>1, <3>3, <4>1, <4>2 DEF Range
    <3> QED BY <2>1, <3>3, <3>4, <3>5 DEF item
  <2> QED BY <2>2, <2>3
<1>5. CASE DequeueBody(p) /\ array' # array
  <2>1. array # <<>> /\ array' = Tail(array)
    BY <1>5 DEF DequeueBody, Ready
  <2>2. 1 \in 0..Len(array) /\ Tail(array) = SubSeq(array, 1 + 1, Len(array))
    BY <1>1, <2>1
  <2> QED BY <1>2, <2>1, <2>2
<1>6. CASE PollBody(p)
  <2>1. Leading(array, now) \in 0..Len(array)
    BY <1>1, LeadingItems
  <2> QED BY <1>2, <1>6, <2>1 DEF PollBody
<1> QED BY <1>3, <1>4, <1>5, <1>6

(* A body leaves no item in the array that was not there or was its own.   *)
LEMMA BodyItems ==
    ASSUME TurnInv, NEW p \in Callers, EnqueueBody(p) \/ DequeueBody(p) \/ PollBody(p),
           NEW i \in 1..Len(array')
    PROVE  \/ Enqueues(p) /\ array'[i] = request[p].item
           \/ \E j \in 1..Len(array) : array'[i] = array[j]
<1>1. array \in Seq(Timed) /\ array' \in Seq(Timed) /\ Sorted(array)
  BY BodyArray DEF TurnInv, TurnTypeOK
<1>2. CASE Enqueues(p) /\ Range(array') = Range(array) \cup {request[p].item}
  <2>1. DOMAIN array = 1..Len(array) /\ DOMAIN array' = 1..Len(array')
    BY <1>1, ItemTyped
  <2>2. array'[i] \in Range(array) \cup {request[p].item}
    BY <1>2, <2>1 DEF Range
  <2> QED BY <1>2, <2>1, <2>2 DEF Range
<1>3. ASSUME NEW n \in 0..Len(array), array' = SubSeq(array, n + 1, Len(array))
      PROVE  \E j \in 1..Len(array) : array'[i] = array[j]
  BY <1>1, <1>3, SuffixSorted
<1> QED BY <1>2, <1>3, BodyArray

(* unlock() hands the lock to the next in the line, whose ticket, if it    *)
(* enqueues, is later than those of the items in the array.                *)
LEMMA BodyInTurn ==
    ASSUME TurnInv, Inv, Inv', NEW p \in Callers, Body(p)
    PROVE  TurnInv'
<1>1. Line \in Seq(Callers) /\ Line # <<>> /\ Head(Line) = p /\ Line' = Tail(Line)
  BY LineTyped, UnlockReleases DEF Body, Fair!Release
<1>2. /\ 1 \in 1..Len(Line) /\ Line[1] = p
      /\ \A i \in 1..Len(Line') : i + 1 \in 1..Len(Line) /\ Line'[i] = Line[i + 1]
      /\ \A i \in 1..Len(Line) : i = 1 \/ (i - 1 \in 1..Len(Line') /\ Line'[i - 1] = Line[i])
  BY <1>1
<1>3. EnqueueBody(p) \/ DequeueBody(p) \/ PollBody(p)
  BY DEF Body
<1>4. /\ request' = [q \in Callers |-> request'[q]] /\ DOMAIN request' = Callers
      /\ request'[p].kind = "none"
      /\ \A q \in Callers \ {p} : request'[q] = request[q]
      /\ UNCHANGED <<discipline, enqueues, now>>
  BY DEF TurnInv, TurnTypeOK, Body, Idle, Request
<1>5. \A q \in Callers : request'[q].kind = "enqueue" =>
         q # p /\ Enqueues(q) /\ request'[q] = request[q]
  BY <1>4 DEF Enqueues
<1>6. array' \in Seq(Timed) /\ Sorted(array)'
  BY <1>3, BodyArray
<1>7. \A i \in 1..Len(array') :
         \/ Enqueues(p) /\ array'[i] = request[p].item
         \/ \E j \in 1..Len(array) : array'[i] = array[j]
  BY <1>3, BodyItems
<1>8. TurnTypeOK'
  BY <1>4, <1>5, <1>6 DEF TurnInv, TurnTypeOK, Enqueues
<1>9. RequestsInLine'
  <2>1. ASSUME NEW q \in Callers, request'[q].kind # "none" PROVE \E i \in 1..Len(Line') : Line'[i] = q
    <3>1. q # p /\ request[q].kind # "none"
      BY <1>4, <2>1
    <3>2. PICK i \in 1..Len(Line) : Line[i] = q
      BY <3>1 DEF TurnInv, RequestsInLine
    <3> QED BY <1>2, <3>1, <3>2
  <2> QED BY <2>1 DEF RequestsInLine
<1>10. LineInTurn'
  <2> SUFFICES ASSUME NEW i \in 1..Len(Line'), NEW j \in 1..Len(Line'), i < j,
                      request'[Line'[i]].kind = "enqueue", request'[Line'[j]].kind = "enqueue"
               PROVE  request'[Line'[i]].item.ticket < request'[Line'[j]].item.ticket
    BY DEF LineInTurn, Enqueues
  <2>1. /\ i + 1 \in 1..Len(Line) /\ Line'[i] = Line[i + 1] /\ Line[i + 1] \in Callers
        /\ j + 1 \in 1..Len(Line) /\ Line'[j] = Line[j + 1] /\ Line[j + 1] \in Callers
        /\ i + 1 < j + 1
    BY <1>1, <1>2
  <2>2. Enqueues(Line[i + 1]) /\ Enqueues(Line[j + 1])
    BY <1>5, <2>1
  <2>3. request[Line[i + 1]].item.ticket < request[Line[j + 1]].item.ticket
    BY <2>1, <2>2 DEF TurnInv, LineInTurn
  <2> QED BY <1>5, <2>1, <2>3
<1>11. ArrayBeforeLine'
  <2> SUFFICES ASSUME NEW i \in 1..Len(array'), NEW q \in Callers, request'[q].kind = "enqueue"
               PROVE  array'[i].ticket < request'[q].item.ticket
    BY DEF ArrayBeforeLine, Enqueues
  <2>1. q # p /\ Enqueues(q) /\ request'[q] = request[q]
    BY <1>5
  <2>2. CASE Enqueues(p) /\ array'[i] = request[p].item
    <3>1. PICK k \in 1..Len(Line) : Line[k] = q
      BY <2>1 DEF TurnInv, RequestsInLine, Enqueues
    <3>2. 1 < k
      BY <1>2, <2>1, <3>1
    <3>3. request[p].item.ticket < request[q].item.ticket
      BY <1>2, <2>1, <2>2, <3>1, <3>2 DEF TurnInv, LineInTurn
    <3> QED BY <2>1, <2>2, <3>3
  <2>3. CASE \E j \in 1..Len(array) : array'[i] = array[j]
    BY <2>1, <2>3 DEF TurnInv, ArrayBeforeLine
  <2> QED BY <1>7, <2>2, <2>3
<1>12. TicketsGiven'
  <2>1. ASSUME NEW i \in 1..Len(array') PROVE array'[i].ticket < enqueues'
    BY <1>4, <1>7 DEF TurnInv, TicketsGiven
  <2>2. ASSUME NEW q \in Callers, request'[q].kind = "enqueue"
        PROVE  request'[q].item.ticket < enqueues'
    BY <1>4, <1>5, <2>2 DEF TurnInv, TicketsGiven
  <2> QED BY <2>1, <2>2 DEF TicketsGiven, Enqueues
<1>13. Unranked'
  <2> SUFFICES ASSUME discipline = "deduplicated"
               PROVE  /\ \A q \in Callers : request'[q].kind = "enqueue" => request'[q].item.rank = 0
                      /\ \A i \in 1..Len(array') : array'[i].rank = 0
    BY <1>4 DEF Unranked, Enqueues
  <2>1. ASSUME NEW i \in 1..Len(array') PROVE array'[i].rank = 0
    BY <1>7 DEF TurnInv, Unranked
  <2>2. ASSUME NEW q \in Callers, request'[q].kind = "enqueue" PROVE request'[q].item.rank = 0
    BY <1>5, <2>2 DEF TurnInv, Unranked
  <2> QED BY <2>1, <2>2
<1> QED BY <1>6, <1>8, <1>9, <1>10, <1>11, <1>12, <1>13 DEF TurnInv

-----------------------------------------------------------------------------
(* A queue starts empty, with no request.                                  *)
LEMMA InitTurn == QueueInit => TurnInv
<1> SUFFICES ASSUME QueueInit PROVE TurnInv
  OBVIOUS
<1>1. array = <<>> /\ Len(array) = 0 /\ enqueues = 0 /\ now = 0 /\ Line = <<>> /\ Len(Line) = 0
  BY DEF QueueInit, Init, Line
<1>2. DOMAIN request = Callers /\ \A p \in Callers : request[p].kind = "none"
  BY DEF QueueInit, Idle, Request
<1>3. TurnTypeOK
  <2>1. <<>> \in Seq(Timed)
    OBVIOUS
  <2>2. request = [p \in Callers |-> request[p]]
    BY DEF QueueInit
  <2> QED BY <1>1, <1>2, <2>1, <2>2 DEF TurnTypeOK, Enqueues
<1> QED
  BY <1>1, <1>2, <1>3
     DEF TurnInv, RequestsInLine, LineInTurn, ArrayBeforeLine, TicketsGiven, Unranked, Sorted, Enqueues

(* Every step of a queue preserves the order.                              *)
LEMMA NextTurn == TurnInv /\ Inv /\ Inv' /\ [QueueNext]_queueVars => TurnInv'
<1> SUFFICES ASSUME TurnInv, Inv, Inv', [QueueNext]_queueVars PROVE TurnInv'
  OBVIOUS
<1>1. enqueues \in Nat /\ now \in Nat
  BY DEF TurnInv, TurnTypeOK
<1>2. ASSUME NEW p \in Callers, NEW kind, kind # "enqueue", Begins(p, Request(kind, NoItem)),
             UNCHANGED <<discipline, array, enqueues, now>>
      PROVE  TurnInv'
  <2>1. Request(kind, NoItem).kind # "enqueue"
    BY <1>2 DEF Request
  <2> QED BY <1>2, <2>1, BeginsInTurn
<1>3. ASSUME NEW p \in Callers, Enqueue(p) PROVE TurnInv'
  <2>1. PICK task \in PayloadsNow, rank \in RanksNow :
           Begins(p, Request("enqueue", [task |-> task, rank |-> rank, ticket |-> enqueues]))
    BY <1>3 DEF Enqueue
  <2> DEFINE item == [task |-> task, rank |-> rank, ticket |-> enqueues]
             what == Request("enqueue", item)
  <2>2. task \in AnyPayload
    BY DEF PayloadsNow, AnyPayload
  <2>3. rank \in Int /\ (discipline = "deduplicated" => rank = 0)
    <3>1. CASE discipline = "priority"
      BY <3>1, RanksAssumption DEF RanksNow
    <3>2. CASE discipline = "delayed"
      BY <3>2, RanksAssumption DEF RanksNow
    <3>3. CASE discipline # "priority" /\ discipline # "delayed"
      BY <3>3 DEF RanksNow
    <3> QED BY <3>1, <3>2, <3>3
  <2>4. item \in Timed /\ item.ticket = enqueues /\ item.rank = rank
    BY <1>1, <2>2, <2>3 DEF Timed
  <2>5. what.item = item
    BY DEF Request
  <2>6. enqueues' = enqueues + 1 /\ UNCHANGED <<discipline, array, now>>
    BY <1>3 DEF Enqueue
  <2>7. Begins(p, what)
    BY <2>1
  <2> HIDE DEF item, what
  <2> QED BY <2>3, <2>4, <2>5, <2>6, <2>7, BeginsInTurn
<1>4. ASSUME NEW p \in Callers, Dequeue(p) PROVE TurnInv'
  BY <1>2, <1>4 DEF Dequeue
<1>5. ASSUME Tick PROVE TurnInv'
  BY <1>2, <1>5, PollerAssumption DEF Tick
<1>6. ASSUME NEW p \in Callers, Handover(p) PROVE TurnInv'
  <2>1. Line' = Line
    BY <1>6, MicrotaskStutters DEF Handover
  <2> QED BY <1>1, <1>6, <2>1, SameTurns DEF Handover, dataVars
<1>7. ASSUME NEW p \in Callers, Body(p) PROVE TurnInv'
  BY <1>7, BodyInTurn
<1>8. CASE TimePasses \/ UNCHANGED queueVars
  <2>1. UNCHANGED <<locked, queue, at, discipline, array, request, enqueues>> /\ now' \in Nat
    BY <1>1, <1>8 DEF TimePasses, queueVars
  <2>2. Line' = Line
    BY <2>1 DEF Line, Holder, Has
  <2> QED BY <2>1, <2>2, SameTurns
<1> QED
  BY <1>3, <1>4, <1>5, <1>6, <1>7, <1>8 DEF QueueNext

(* An item that leaves was at the head: those that stay come after it in   *)
(* the array, and those that are still to enter were called later.         *)
LEMMA StepInTurn ==
    ASSUME TurnInv, QueueNext,
           NEW x \in Queued \ Range(array'), NEW y \in Entering \cup Range(array')
    PROVE  /\ y.ticket < x.ticket => y.rank > x.rank
           /\ y \in Queued => y.rank >= x.rank
<1>1. array \in Seq(Timed) /\ Sorted(array) /\ DOMAIN array = 1..Len(array) /\ Len(array) \in Nat
  BY ItemTyped DEF TurnInv, TurnTypeOK
<1>2. PICK p \in Callers : Body(p)
  <2>1. array' # array
    BY DEF Queued
  <2> QED BY <2>1 DEF QueueNext, Enqueue, Dequeue, Handover, Tick, TimePasses, dataVars
<1>3. PICK n \in 0..Len(array) : array' = SubSeq(array, n + 1, Len(array))
  BY <1>2, BodyArray DEF Body, Queued
<1>4. PICK i \in 1..Len(array) : array[i] = x
  BY <1>1 DEF Queued, Range
<1>5. /\ \A k \in 1..Len(array') : array'[k] = array[k + n] /\ k + n \in 1..Len(array)
      /\ Len(array') = Len(array) - n
      /\ array' \in Seq(Timed) /\ DOMAIN array' = 1..Len(array')
  BY <1>1, <1>3, SuffixSorted, ItemTyped
<1>6. \A k \in 1..Len(array) : array[k].ticket \in Nat /\ array[k].rank \in Int
  BY <1>1, ItemTyped
<1>7. i <= n
  <2>1. ASSUME i > n PROVE FALSE
    <3>1. i - n \in 1..Len(array') /\ (i - n) + n = i
      BY <1>1, <1>5, <2>1
    <3>2. array'[i - n] = x
      BY <1>4, <1>5, <3>1
    <3> QED BY <1>5, <3>1, <3>2 DEF Range
  <2> QED BY <2>1
<1>8. CASE y \in Range(array')
  <2>1. PICK k \in 1..Len(array') : array'[k] = y
    BY <1>5, <1>8 DEF Range
  <2>2. k + n \in 1..Len(array) /\ y = array[k + n] /\ i < k + n
    BY <1>5, <1>7, <2>1
  <2>3. Before(x, y)
    BY <1>1, <1>4, <2>2 DEF Sorted
  <2> QED BY <1>4, <1>6, <2>2, <2>3 DEF Before
<1>9. CASE y \in Entering
  <2>1. PICK q \in Callers : Enqueues(q) /\ y = request[q].item
    BY <1>9 DEF Entering, Enqueues
  <2>2. y \in Timed /\ \A k \in 1..Len(array) : array[k].ticket < y.ticket
    BY <2>1 DEF TurnInv, TurnTypeOK, ArrayBeforeLine
  <2>3. y.ticket \in Nat
    BY <2>2 DEF Timed
  <2>4. y \notin Queued
    BY <1>1, <2>2, <2>3 DEF Queued, Range
  <2> QED BY <1>4, <1>6, <2>2, <2>3, <2>4
<1> QED BY <1>8, <1>9

(* Although every operation awaits the lock, items leave as if it did not: *)
(* the lock is handed on in the order of the calls, and the array is       *)
(* sorted by rank and call.                                                *)
THEOREM LeaveInTurn == QueueSpec => ItemsLeaveInTurn
<1>1. TurnInv /\ [QueueNext]_queueVars =>
         [\A x \in Queued \ Range(array') : \A y \in Entering \cup Range(array') :
             /\ y.ticket < x.ticket => y.rank > x.rank
             /\ y \in Queued => y.rank >= x.rank]_queueVars
  BY StepInTurn
<1>2. QueueSpec => []Inv
  BY QueuesUseTheMutex, Invariance, PTL
<1> QED
  BY <1>1, <1>2, InitTurn, NextTurn, PTL DEF QueueSpec, ItemsLeaveInTurn

=============================================================================
