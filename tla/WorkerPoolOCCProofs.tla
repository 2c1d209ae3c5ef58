------------------------ MODULE WorkerPoolOCCProofs ------------------------
(***************************************************************************)
(* Proofs about WorkerPoolOCC, for any clients, tasks and maxWorkers.      *)
(***************************************************************************)
EXTENDS WorkerPoolOCC, GeneralLemmas, FiniteSetTheorems, TLAPS

-----------------------------------------------------------------------------
(* The pool as a record                                                    *)

IsPool(p) == DOMAIN p = {"map", "available", "nextId", "threads"}

(* What the methods that are assignments do to each field.                 *)
LEMMA AddRecord ==
    ASSUME NEW p, IsPool(p), NEW w
    PROVE  LET q == AddWorkerToPool(p, w)
           IN  /\ IsPool(q)
               /\ q.map = Put(p.map, w, [worker |-> Len(p.threads) + 1, state |-> "idle", version |-> 0])
               /\ q.available = Add(p.available, w)
               /\ q.nextId = p.nextId
               /\ q.threads = Append(p.threads, NewThread(w))
BY DEF IsPool, AddWorkerToPool

LEMMA RemoveRecord ==
    ASSUME NEW p, IsPool(p), NEW w
    PROVE  LET q == RemoveWorker(p, w)
           IN  /\ IsPool(q)
               /\ q.map = Without(p.map, w)
               /\ q.available = Delete(p.available, w)
               /\ q.nextId = p.nextId
               /\ q.threads = p.threads
BY DEF IsPool, RemoveWorker

-----------------------------------------------------------------------------
(* The invariant of the pool                                               *)

(* The types of the fields.  Every identifier in use is less than the      *)
(* counter, so the next one is fresh.                                      *)
PoolType(p) ==
    /\ IsPool(p)
    /\ p.nextId \in Nat
    /\ p.map \in [DOMAIN p.map -> EntryType]
    /\ DOMAIN p.map \subseteq 0..(p.nextId - 1)
    /\ p.available \in Seq(Nat)
    /\ p.threads \in Seq(ThreadType)
    /\ \A t \in 1..Len(p.threads) : p.threads[t].id < p.nextId

Active(p, t) == p.threads[t].status = "working"
Dead(p, t) == p.threads[t].status \in {"failed", "exited"}

(* The entry of a worker is about a thread of that worker, and says what   *)
(* the thread can do.                                                      *)
EntryOK(p, w) ==
    LET entry == p.map[w]
    IN  /\ entry.worker \in 1..Len(p.threads)
        /\ p.threads[entry.worker].id = w
        /\ w \in Range(p.available) =>
              entry.state = "idle" /\ p.threads[entry.worker].status = "ready"
        /\ w \notin Range(p.available) =>
              entry.state = "busy" /\ p.threads[entry.worker].status = "working"

(* The pool is consistent, except perhaps for the entries of workers that  *)
(* are not in S: inside a handler one worker is being taken out.           *)
Consistent(p, S) ==
    /\ PoolType(p)
    /\ IsInjective(p.available)
    /\ Range(p.available) \subseteq DOMAIN p.map
    /\ \A w \in S : EntryOK(p, w)
    /\ \A t \in 1..Len(p.threads) :
          /\ Active(p, t) => p.threads[t].id \in S /\ p.map[p.threads[t].id].worker = t
          /\ Dead(p, t) => p.threads[t].id \notin S

PoolOK(p) ==
    /\ Consistent(p, DOMAIN p.map)
    /\ Cardinality(DOMAIN p.map) = MaxWorkers

-----------------------------------------------------------------------------
(* Each method preserves it                                                *)

(* What addWorkerToPool does to each field.                                *)
LEMMA AddFields ==
    ASSUME NEW p, PoolType(p), NEW w \in Nat, w < p.nextId, IsInjective(p.available)
    PROVE  LET q == AddWorkerToPool(p, w)
               n == Len(p.threads) + 1
           IN  /\ PoolType(q)
               /\ DOMAIN q.map = DOMAIN p.map \cup {w}
               /\ q.map[w] = [worker |-> n, state |-> "idle", version |-> 0]
               /\ \A v \in DOMAIN p.map \ {w} : q.map[v] = p.map[v]
               /\ q.nextId = p.nextId
               /\ Len(q.threads) = n
               /\ q.threads[n] = NewThread(w)
               /\ \A t \in 1..Len(p.threads) : q.threads[t] = p.threads[t]
               /\ IsInjective(q.available)
               /\ Range(q.available) = Range(p.available) \cup {w}
<1> DEFINE q == AddWorkerToPool(p, w)
           n == Len(p.threads) + 1
           entry == [worker |-> n, state |-> "idle", version |-> 0]
<1>1. /\ IsPool(q)
      /\ q.map = Put(p.map, w, entry)
      /\ q.available = Add(p.available, w)
      /\ q.nextId = p.nextId
      /\ q.threads = Append(p.threads, NewThread(w))
  BY AddRecord DEF PoolType
<1>2. p.threads \in Seq(ThreadType) /\ n \in Nat
  BY DEF PoolType
<1>3. entry \in EntryType /\ NewThread(w) \in ThreadType /\ NewThread(w).id = w
  BY <1>2 DEF EntryType, NewThread, ThreadType, Statuses
<1>4. /\ q.threads \in Seq(ThreadType) /\ Len(q.threads) = n /\ q.threads[n] = NewThread(w)
      /\ \A t \in 1..Len(p.threads) : q.threads[t] = p.threads[t]
  BY <1>1, <1>2, <1>3
<1>5. /\ DOMAIN q.map = DOMAIN p.map \cup {w} /\ q.map[w] = entry
      /\ \A v \in DOMAIN p.map \ {w} : q.map[v] = p.map[v]
      /\ q.map \in [DOMAIN q.map -> EntryType]
  BY <1>1, <1>3 DEF PoolType, Put
<1>6. /\ q.available \in Seq(Nat) /\ IsInjective(q.available)
      /\ Range(q.available) = Range(p.available) \cup {w}
  BY <1>1, AddElement DEF PoolType
<1>7. DOMAIN q.map \subseteq 0..(q.nextId - 1)
  BY <1>1, <1>5 DEF PoolType
<1>8. \A t \in 1..Len(q.threads) : q.threads[t].id < q.nextId
  BY <1>1, <1>2, <1>3, <1>4 DEF PoolType
<1> HIDE DEF q
<1>9. PoolType(q)
  BY <1>1, <1>4, <1>5, <1>6, <1>7, <1>8 DEF PoolType
<1> QED
  BY <1>1, <1>4, <1>5, <1>6, <1>9 DEF q

(* addWorkerToPool makes the entry of its worker consistent, if no thread  *)
(* that works or died has that identifier.                                 *)
LEMMA AddConsistent ==
    ASSUME NEW p, NEW w \in Nat, w < p.nextId,
           Consistent(p, DOMAIN p.map \ {w}),
           \A t \in 1..Len(p.threads) : Dead(p, t) => p.threads[t].id # w
    PROVE  /\ Consistent(AddWorkerToPool(p, w), DOMAIN p.map \cup {w})
           /\ DOMAIN AddWorkerToPool(p, w).map = DOMAIN p.map \cup {w}
           /\ AddWorkerToPool(p, w).nextId = p.nextId
<1> DEFINE q == AddWorkerToPool(p, w)
           n == Len(p.threads) + 1
<1>1. PoolType(p) /\ IsInjective(p.available)
  BY DEF Consistent
<1>2. /\ PoolType(q)
      /\ DOMAIN q.map = DOMAIN p.map \cup {w}
      /\ q.map[w] = [worker |-> n, state |-> "idle", version |-> 0]
      /\ \A v \in DOMAIN p.map \ {w} : q.map[v] = p.map[v]
      /\ q.nextId = p.nextId
      /\ Len(q.threads) = n
      /\ q.threads[n] = NewThread(w)
      /\ \A t \in 1..Len(p.threads) : q.threads[t] = p.threads[t]
      /\ IsInjective(q.available)
      /\ Range(q.available) = Range(p.available) \cup {w}
  BY <1>1, AddFields
<1> HIDE DEF q
<1>3. Len(p.threads) \in Nat /\ \A t \in 1..n : t = n \/ t \in 1..Len(p.threads)
  BY <1>1 DEF PoolType
<1>4. q.threads[n].id = w /\ q.threads[n].status = "ready"
  BY <1>2 DEF NewThread
<1>5. EntryOK(q, w)
  BY <1>2, <1>3, <1>4 DEF EntryOK
<1>6. ASSUME NEW v \in DOMAIN p.map \ {w} PROVE EntryOK(q, v)
  <2>1. EntryOK(p, v)
    BY DEF Consistent
  <2>2. q.map[v] = p.map[v] /\ q.threads[p.map[v].worker] = p.threads[p.map[v].worker]
    BY <1>2, <2>1 DEF EntryOK
  <2>3. v \in Range(q.available) <=> v \in Range(p.available)
    BY <1>2
  <2> QED
    BY <1>2, <1>3, <2>1, <2>2, <2>3 DEF EntryOK
<1>7. ASSUME NEW t \in 1..Len(q.threads)
      PROVE  /\ Active(q, t) => q.threads[t].id \in DOMAIN p.map \cup {w}
                                  /\ q.map[q.threads[t].id].worker = t
             /\ Dead(q, t) => q.threads[t].id \notin DOMAIN p.map \cup {w}
  <2>1. CASE t = n
    BY <1>4, <2>1 DEF Active, Dead
  <2>2. CASE t \in 1..Len(p.threads)
    <3>1. q.threads[t] = p.threads[t]
      BY <1>2, <2>2
    <3>2. /\ Active(p, t) => p.threads[t].id \in DOMAIN p.map \ {w}
                               /\ p.map[p.threads[t].id].worker = t
          /\ Dead(p, t) => p.threads[t].id \notin DOMAIN p.map \ {w} /\ p.threads[t].id # w
      BY <2>2 DEF Consistent
    <3> QED
      BY <1>2, <3>1, <3>2 DEF Active, Dead
  <2> QED
    BY <1>2, <1>3, <2>1, <2>2
<1>8. Range(q.available) \subseteq DOMAIN q.map
  BY <1>2 DEF Consistent
<1>9. Consistent(q, DOMAIN p.map \cup {w})
  BY <1>2, <1>5, <1>6, <1>7, <1>8 DEF Consistent
<1> QED
  BY <1>2, <1>9 DEF q

(* removeWorker leaves the other workers as they are.                      *)
LEMMA RemoveConsistent ==
    ASSUME NEW p, NEW w, Consistent(p, DOMAIN p.map \ {w})
    PROVE  /\ Consistent(RemoveWorker(p, w), DOMAIN p.map \ {w})
           /\ DOMAIN RemoveWorker(p, w).map = DOMAIN p.map \ {w}
           /\ RemoveWorker(p, w).nextId = p.nextId
           /\ RemoveWorker(p, w).threads = p.threads
<1> DEFINE q == RemoveWorker(p, w)
<1>1. PoolType(p) /\ IsInjective(p.available)
  BY DEF Consistent
<1>2. /\ IsPool(q)
      /\ q.map = Without(p.map, w)
      /\ q.available = Delete(p.available, w)
      /\ q.nextId = p.nextId
      /\ q.threads = p.threads
  BY <1>1, RemoveRecord DEF PoolType
<1>3. /\ DOMAIN q.map = DOMAIN p.map \ {w}
      /\ \A v \in DOMAIN q.map : q.map[v] = p.map[v]
      /\ q.map \in [DOMAIN q.map -> EntryType]
  BY <1>1, <1>2 DEF PoolType, Without
<1>4. /\ q.available \in Seq(Nat) /\ IsInjective(q.available)
      /\ Range(q.available) = Range(p.available) \ {w}
  BY <1>1, <1>2, DeleteElement DEF PoolType
<1> HIDE DEF q
<1>5. PoolType(q)
  BY <1>1, <1>2, <1>3, <1>4 DEF PoolType
<1>6. ASSUME NEW v \in DOMAIN p.map \ {w} PROVE EntryOK(q, v)
  <2>1. EntryOK(p, v)
    BY DEF Consistent
  <2>2. q.map[v] = p.map[v] /\ (v \in Range(q.available) <=> v \in Range(p.available))
    BY <1>3, <1>4
  <2> QED
    BY <1>2, <2>1, <2>2 DEF EntryOK
<1>7. ASSUME NEW t \in 1..Len(q.threads)
      PROVE  /\ Active(q, t) => q.threads[t].id \in DOMAIN p.map \ {w}
                                  /\ q.map[q.threads[t].id].worker = t
             /\ Dead(q, t) => q.threads[t].id \notin DOMAIN p.map \ {w}
  <2>1. /\ Active(p, t) => p.threads[t].id \in DOMAIN p.map \ {w}
                             /\ p.map[p.threads[t].id].worker = t
        /\ Dead(p, t) => p.threads[t].id \notin DOMAIN p.map \ {w}
    BY <1>2 DEF Consistent
  <2> QED
    BY <1>2, <1>3, <2>1 DEF Active, Dead
<1>8. Range(q.available) \subseteq DOMAIN q.map
  BY <1>3, <1>4 DEF Consistent
<1>9. Consistent(q, DOMAIN p.map \ {w})
  BY <1>4, <1>5, <1>6, <1>7, <1>8 DEF Consistent
<1> QED
  BY <1>2, <1>3, <1>9 DEF q

(* The identifiers in use are finitely many.                               *)
LEMMA MapFinite == ASSUME NEW p, PoolType(p) PROVE IsFiniteSet(DOMAIN p.map)
<1>1. 0 \in Int /\ p.nextId - 1 \in Int /\ DOMAIN p.map \subseteq 0..(p.nextId - 1)
  BY DEF PoolType
<1>2. IsFiniteSet(0..(p.nextId - 1))
  BY <1>1, FS_Interval
<1> QED
  BY <1>1, <1>2, FS_Subset

(* A thread is typed, and its identifier was given out by the counter.     *)
LEMMA ThreadTyped ==
    ASSUME NEW p, PoolType(p), NEW t \in 1..Len(p.threads)
    PROVE  p.threads[t] \in ThreadType /\ p.threads[t].id \in Nat /\ p.threads[t].id < p.nextId
<1>1. p.threads \in Seq(ThreadType) /\ p.threads[t].id < p.nextId
  BY DEF PoolType
<1>2. p.threads[t] \in ThreadType
  BY <1>1
<1> QED
  BY <1>1, <1>2 DEF ThreadType

(* Raising the counter, or nothing at all, keeps a pool consistent.        *)
LEMMA RaiseCounter ==
    ASSUME NEW p, NEW q, NEW S, Consistent(p, S),
           IsPool(q), q.map = p.map, q.available = p.available, q.threads = p.threads,
           q.nextId \in Nat, p.nextId <= q.nextId
    PROVE  Consistent(q, S)
<1>1. PoolType(p) /\ IsInjective(p.available) /\ Range(p.available) \subseteq DOMAIN p.map
  BY DEF Consistent
<1>2. DOMAIN p.map \subseteq 0..(q.nextId - 1)
  BY <1>1 DEF PoolType
<1>3. \A t \in 1..Len(p.threads) : p.threads[t].id < q.nextId
  <2> SUFFICES ASSUME NEW t \in 1..Len(p.threads) PROVE p.threads[t].id < q.nextId
    OBVIOUS
  <2>1. p.threads[t].id \in Nat /\ p.threads[t].id < p.nextId
    BY <1>1, ThreadTyped
  <2>2. p.nextId \in Nat
    BY <1>1 DEF PoolType
  <2> QED
    BY <2>1, <2>2
<1>4. PoolType(q)
  BY <1>1, <1>2, <1>3 DEF PoolType
<1>5. \A w \in S : EntryOK(q, w)
  BY DEF Consistent, EntryOK
<1>6. \A t \in 1..Len(q.threads) :
          /\ Active(q, t) => q.threads[t].id \in S /\ q.map[q.threads[t].id].worker = t
          /\ Dead(q, t) => q.threads[t].id \notin S
  BY DEF Consistent, Active, Dead
<1> QED
  BY <1>1, <1>4, <1>5, <1>6 DEF Consistent

(* addWorkerToPool() with a fresh identifier completes the pool.           *)
LEMMA AddNewOK ==
    ASSUME NEW p, Consistent(p, DOMAIN p.map), Cardinality(DOMAIN p.map) = MaxWorkers - 1,
           NEW n, n = p.nextId
    PROVE  /\ PoolOK(AddNewWorker(p))
           /\ DOMAIN AddNewWorker(p).map = DOMAIN p.map \cup {n}
<1> DEFINE p1 == [p EXCEPT !.nextId = n + 1]
           q1 == AddWorkerToPool(p1, n)
           r == AddNewWorker(p)
<1>1. PoolType(p) /\ n \in Nat /\ n \notin DOMAIN p.map /\ DOMAIN p.map \ {n} = DOMAIN p.map
  BY DEF Consistent, PoolType
<1>2. \A t \in 1..Len(p.threads) : p.threads[t].id # n
  <2> SUFFICES ASSUME NEW t \in 1..Len(p.threads) PROVE p.threads[t].id # n
    OBVIOUS
  <2>1. p.threads[t].id \in Nat /\ p.threads[t].id < n
    BY <1>1, ThreadTyped
  <2> QED
    BY <2>1, <1>1
<1>3. /\ IsPool(p1) /\ p1.map = p.map /\ p1.available = p.available
      /\ p1.nextId = n + 1 /\ p1.threads = p.threads
  BY <1>1 DEF PoolType, IsPool
<1>4. /\ IsPool(q1)
      /\ q1.map = Put(p.map, n, [worker |-> Len(p.threads) + 1, state |-> "idle", version |-> 0])
      /\ q1.available = Add(p.available, n)
      /\ q1.nextId = n + 1
      /\ q1.threads = Append(p.threads, NewThread(n))
  <2> HIDE DEF p1
  <2> QED
    BY <1>3, AddRecord
<1>5. /\ IsPool(r)
      /\ r.map = Put(p.map, n, [worker |-> Len(p.threads) + 1, state |-> "idle", version |-> 0])
      /\ r.available = Add(p.available, n)
      /\ r.nextId = n + 1
      /\ r.threads = Append(p.threads, NewThread(n))
  BY <1>1 DEF PoolType, IsPool, AddNewWorker, AddWorkerToPool
<1> HIDE DEF p1
<1>6. Consistent(p1, DOMAIN p.map)
  <2>1. p1.nextId \in Nat /\ p.nextId <= p1.nextId
    BY <1>1, <1>3
  <2> QED
    BY <1>3, <2>1, RaiseCounter, Zenon
<1>7. Consistent(p1, DOMAIN p1.map \ {n})
  <2>1. DOMAIN p1.map \ {n} = DOMAIN p.map
    BY <1>1, <1>3
  <2> QED
    BY <2>1, <1>6, Zenon
<1>7a. n \in Nat /\ n < p1.nextId
  BY <1>1, <1>3
<1>7b. \A t \in 1..Len(p1.threads) : Dead(p1, t) => p1.threads[t].id # n
  BY <1>2, <1>3
<1>8. Consistent(q1, DOMAIN p.map \cup {n}) /\ DOMAIN q1.map = DOMAIN p.map \cup {n}
  <2>1. DOMAIN p1.map = DOMAIN p.map
    BY <1>3
  <2>2. Consistent(q1, DOMAIN p1.map \cup {n}) /\ DOMAIN q1.map = DOMAIN p1.map \cup {n}
    BY <1>7, <1>7a, <1>7b, AddConsistent
  <2> QED
    BY <2>1, <2>2, Zenon
<1> HIDE DEF q1, r
<1>9. Consistent(r, DOMAIN p.map \cup {n}) /\ DOMAIN r.map = DOMAIN p.map \cup {n}
  <2>1. r.map = q1.map /\ r.available = q1.available /\ r.threads = q1.threads
        /\ r.nextId = q1.nextId /\ r.nextId \in Nat
    BY <1>1, <1>4, <1>5, SMT
  <2>2. q1.nextId <= r.nextId
    BY <1>1, <1>4, <1>5
  <2> QED
    BY <1>5, <1>8, <2>1, <2>2, RaiseCounter, Zenon
<1>10. Cardinality(DOMAIN r.map) = MaxWorkers
  <2>1. IsFiniteSet(DOMAIN p.map)
    BY <1>1, MapFinite
  <2>2. Cardinality(DOMAIN p.map \cup {n}) = Cardinality(DOMAIN p.map) + 1
    BY <1>1, <2>1, FS_AddElement
  <2> QED
    BY <1>9, <2>2, MaxWorkersAssumption
<1> QED
  BY <1>9, <1>10 DEF PoolOK, r

(* handleWorkerError and handleWorkerExit replace a worker whose thread is *)
(* dead by a new one...                                                    *)
LEMMA ReplaceBroken ==
    ASSUME NEW p, NEW w \in DOMAIN p.map,
           Consistent(p, DOMAIN p.map \ {w}),
           Cardinality(DOMAIN p.map) = MaxWorkers
    PROVE  PoolOK(ReplaceWorker(p, w)) /\ w \notin DOMAIN ReplaceWorker(p, w).map
<1> DEFINE q == RemoveWorker(p, w)
<1>1. /\ Consistent(q, DOMAIN p.map \ {w}) /\ DOMAIN q.map = DOMAIN p.map \ {w}
      /\ q.nextId = p.nextId
  BY RemoveConsistent
<1>2. PoolType(p) /\ w < p.nextId /\ w \in Nat /\ p.nextId \in Nat
  BY DEF Consistent, PoolType
<1> HIDE DEF q
<1>3. Cardinality(DOMAIN q.map) = MaxWorkers - 1
  <2>1. IsFiniteSet(DOMAIN p.map)
    BY <1>2, MapFinite
  <2> QED
    BY <1>1, <2>1, FS_RemoveElement
<1>4. ReplaceWorker(p, w) = AddNewWorker(q)
  <2>1. Cardinality(DOMAIN q.map) < MaxWorkers
    BY <1>3, MaxWorkersAssumption
  <2> QED
    BY <2>1 DEF ReplaceWorker, q
<1>5. PoolOK(AddNewWorker(q)) /\ DOMAIN AddNewWorker(q).map = (DOMAIN p.map \ {w}) \cup {p.nextId}
  BY <1>1, <1>3, AddNewOK
<1>6. w # p.nextId
  BY <1>2
<1> QED
  BY <1>4, <1>5, <1>6

(* ... and do nothing when the worker was already replaced.                *)
LEMMA ReplaceReplaced ==
    ASSUME NEW p, NEW w, PoolOK(p), w \notin DOMAIN p.map
    PROVE  PoolOK(ReplaceWorker(p, w)) /\ w \notin DOMAIN ReplaceWorker(p, w).map
<1> DEFINE q == RemoveWorker(p, w)
<1>1. DOMAIN p.map \ {w} = DOMAIN p.map
  OBVIOUS
<1>2. Consistent(q, DOMAIN p.map) /\ DOMAIN q.map = DOMAIN p.map
  BY <1>1, RemoveConsistent DEF PoolOK
<1> HIDE DEF q
<1>3. Cardinality(DOMAIN q.map) = MaxWorkers
  BY <1>2 DEF PoolOK
<1>4. ReplaceWorker(p, w) = q
  BY <1>3, MaxWorkersAssumption DEF ReplaceWorker, q
<1> QED
  BY <1>2, <1>3, <1>4 DEF PoolOK

SetStatus(threads, t, s) == [threads EXCEPT ![t].status = s]

(* What a thread is after its status has changed.                          *)
LEMMA StatusFields ==
    ASSUME NEW p, PoolType(p), NEW t \in 1..Len(p.threads), NEW s \in Statuses,
           NEW threads, threads = SetStatus(p.threads, t, s)
    PROVE  /\ threads \in Seq(ThreadType) /\ Len(threads) = Len(p.threads)
           /\ threads[t].id = p.threads[t].id /\ threads[t].status = s
           /\ \A u \in 1..Len(p.threads) : u # t => threads[u] = p.threads[u]
<1> DEFINE thread == [p.threads[t] EXCEPT !.status = s]
<1>1. p.threads \in Seq(ThreadType) /\ p.threads[t] \in ThreadType
  BY ThreadTyped DEF PoolType
<1>2. thread \in ThreadType /\ thread.id = p.threads[t].id /\ thread.status = s
  BY <1>1 DEF ThreadType
<1>3. threads = [p.threads EXCEPT ![t] = thread]
  BY DEF SetStatus
<1> HIDE DEF thread
<1>4. /\ [p.threads EXCEPT ![t] = thread] \in Seq(ThreadType)
      /\ Len([p.threads EXCEPT ![t] = thread]) = Len(p.threads)
  BY <1>1, <1>2
<1>5. /\ [p.threads EXCEPT ![t] = thread][t] = thread
      /\ \A u \in 1..Len(p.threads) : u # t => [p.threads EXCEPT ![t] = thread][u] = p.threads[u]
  BY <1>1
<1> QED
  BY <1>2, <1>3, <1>4, <1>5

(* A thread that stops working takes its entry out of the consistent part. *)
LEMMA StopWorking ==
    ASSUME NEW p, PoolOK(p), NEW t \in 1..Len(p.threads), Active(p, t),
           NEW s \in {"replaced", "failed", "exited"},
           NEW q, IsPool(q), NEW w, w = p.threads[t].id,
           DOMAIN q.map = DOMAIN p.map, q.map \in [DOMAIN p.map -> EntryType],
           \A v \in DOMAIN p.map \ {w} : q.map[v] = p.map[v],
           q.available \in Seq(Nat), IsInjective(q.available),
           Range(q.available) \ {w} = Range(p.available) \ {w},
           Range(q.available) \subseteq DOMAIN p.map,
           q.nextId = p.nextId,
           q.threads = SetStatus(p.threads, t, s)
    PROVE  /\ Consistent(q, DOMAIN q.map \ {w})
           /\ w \in DOMAIN q.map /\ w \in Nat /\ w < q.nextId
           /\ Cardinality(DOMAIN q.map) = MaxWorkers
<1>1. PoolType(p) /\ Consistent(p, DOMAIN p.map)
  BY DEF PoolOK, Consistent
<1>2. w \in DOMAIN p.map /\ p.map[w].worker = t
  BY <1>1 DEF Consistent
<1>3. w \in Nat /\ w < p.nextId
  BY <1>1, <1>2 DEF PoolType
<1>4. /\ q.threads \in Seq(ThreadType) /\ Len(q.threads) = Len(p.threads)
      /\ q.threads[t].id = w /\ q.threads[t].status = s
      /\ \A u \in 1..Len(p.threads) : u # t => q.threads[u] = p.threads[u]
  <2>1. s \in Statuses
    BY DEF Statuses
  <2> QED
    BY <1>1, <2>1, StatusFields
<1>5. PoolType(q)
  BY <1>1, <1>3, <1>4 DEF PoolType
<1>6. ASSUME NEW v \in DOMAIN q.map \ {w} PROVE EntryOK(q, v)
  <2>1. EntryOK(p, v)
    BY <1>1 DEF Consistent
  <2>2. p.map[v].worker # t
    BY <2>1 DEF EntryOK
  <2>3. q.map[v] = p.map[v] /\ (v \in Range(q.available) <=> v \in Range(p.available))
    OBVIOUS
  <2> QED
    BY <1>4, <2>1, <2>2, <2>3 DEF EntryOK
<1>7. ASSUME NEW u \in 1..Len(q.threads)
      PROVE  /\ Active(q, u) => q.threads[u].id \in DOMAIN q.map \ {w}
                                  /\ q.map[q.threads[u].id].worker = u
             /\ Dead(q, u) => q.threads[u].id \notin DOMAIN q.map \ {w}
  <2>1. CASE u = t
    BY <1>4, <2>1 DEF Active, Dead
  <2>2. CASE u # t
    <3>1. q.threads[u] = p.threads[u] /\ u \in 1..Len(p.threads)
      BY <1>4, <2>2
    <3>2. /\ Active(p, u) => p.threads[u].id \in DOMAIN p.map /\ p.map[p.threads[u].id].worker = u
          /\ Dead(p, u) => p.threads[u].id \notin DOMAIN p.map
      BY <1>1, <3>1 DEF Consistent
    <3> QED
      BY <1>2, <2>2, <3>1, <3>2 DEF Active, Dead
  <2> QED
    BY <2>1, <2>2
<1>8. Consistent(q, DOMAIN q.map \ {w})
  BY <1>5, <1>6, <1>7 DEF Consistent
<1> QED
  BY <1>2, <1>3, <1>8 DEF PoolOK

(* Changing versions, and a failed thread that ends, matter to no entry.   *)
LEMMA SamePool ==
    ASSUME NEW p, PoolOK(p), NEW q, IsPool(q),
           q.available = p.available, q.nextId = p.nextId,
           DOMAIN q.map = DOMAIN p.map, q.map \in [DOMAIN p.map -> EntryType],
           \A v \in DOMAIN p.map :
               q.map[v].worker = p.map[v].worker /\ q.map[v].state = p.map[v].state,
           q.threads \in Seq(ThreadType), Len(q.threads) = Len(p.threads),
           \A t \in 1..Len(p.threads) :
               /\ q.threads[t].id = p.threads[t].id
               /\ \/ q.threads[t].status = p.threads[t].status
                  \/ Dead(p, t) /\ Dead(q, t)
    PROVE  PoolOK(q) /\ DOMAIN q.map = DOMAIN p.map
<1>1. PoolType(p) /\ Consistent(p, DOMAIN p.map) /\ Cardinality(DOMAIN p.map) = MaxWorkers
  BY DEF PoolOK, Consistent
<1>2. PoolType(q)
  BY <1>1 DEF PoolType
<1>3. \A t \in 1..Len(p.threads) : (Active(p, t) <=> Active(q, t)) /\ (Dead(p, t) <=> Dead(q, t))
  BY DEF Active, Dead
<1>4. ASSUME NEW w \in DOMAIN p.map PROVE EntryOK(q, w)
  <2>1. EntryOK(p, w)
    BY <1>1 DEF Consistent
  <2> DEFINE t == p.map[w].worker
  <2>2. t \in 1..Len(p.threads) /\ q.map[w].worker = t
    BY <2>1 DEF EntryOK
  <2>3. p.threads[t].status \in {"ready", "working"} => q.threads[t].status = p.threads[t].status
    BY <2>2 DEF Dead
  <2> QED
    BY <2>1, <2>2, <2>3 DEF EntryOK
<1>5. ASSUME NEW t \in 1..Len(q.threads)
      PROVE  /\ Active(q, t) => q.threads[t].id \in DOMAIN q.map /\ q.map[q.threads[t].id].worker = t
             /\ Dead(q, t) => q.threads[t].id \notin DOMAIN q.map
  BY <1>1, <1>3 DEF Consistent
<1>6. IsInjective(q.available) /\ Range(q.available) \subseteq DOMAIN q.map
  BY <1>1 DEF Consistent
<1>7. \A w \in DOMAIN q.map : EntryOK(q, w)
  BY <1>4
<1>8. Consistent(q, DOMAIN q.map)
  BY <1>2, <1>5, <1>6, <1>7 DEF Consistent
<1>9. Cardinality(DOMAIN q.map) = MaxWorkers
  BY <1>1, Zenon
<1> QED
  BY <1>8, <1>9 DEF PoolOK

(* incrementVersion preserves the invariant.                               *)
LEMMA VersionOK ==
    ASSUME NEW p, PoolOK(p), NEW w
    PROVE  PoolOK(IncrementVersion(p, w))
<1>1. CASE w \notin DOMAIN p.map
  BY <1>1 DEF IncrementVersion
<1>2. CASE w \in DOMAIN p.map
  <2> DEFINE q == IncrementVersion(p, w)
  <2>1. PoolType(p)
    BY DEF PoolOK, Consistent
  <2>2. /\ IsPool(q) /\ q.available = p.available /\ q.nextId = p.nextId /\ q.threads = p.threads
        /\ q.map = [p.map EXCEPT ![w].version = @ + 1]
    BY <1>2, <2>1 DEF IncrementVersion, PoolType, IsPool
  <2> HIDE DEF q
  <2>3. p.map \in [DOMAIN p.map -> EntryType]
    BY <2>1 DEF PoolType
  <2>4. /\ DOMAIN q.map = DOMAIN p.map /\ q.map \in [DOMAIN p.map -> EntryType]
        /\ \A v \in DOMAIN p.map :
               q.map[v].worker = p.map[v].worker /\ q.map[v].state = p.map[v].state
    BY <2>2, <2>3, <1>2 DEF EntryType
  <2>5. q.threads \in Seq(ThreadType)
    BY <2>1, <2>2 DEF PoolType
  <2>6. PoolOK(q)
    BY <2>2, <2>4, <2>5, SamePool
  <2> QED
    BY <2>6 DEF q
<1> QED
  BY <1>1, <1>2

(* The reply listeners preserve the invariant: the entry that the thread   *)
(* leaves is set by addWorkerToPool to a new thread.                       *)
LEMMA ReplyOK ==
    ASSUME NEW p, PoolOK(p), NEW t \in 1..Len(p.threads), Active(p, t),
           NEW w, w = p.threads[t].id
    PROVE  PoolOK(AddWorkerToPool([InitListener(p, w) EXCEPT !.threads[t].status = "replaced"], w))
<1> DEFINE q == [InitListener(p, w) EXCEPT !.threads[t].status = "replaced"]
<1>1. PoolType(p) /\ Consistent(p, DOMAIN p.map) /\ IsInjective(p.available)
  BY DEF PoolOK, Consistent
<1>2. w \in DOMAIN p.map /\ w \in Nat
  <2>1. w \in DOMAIN p.map
    BY <1>1 DEF Consistent
  <2> QED
    BY <2>1, <1>1, ThreadTyped
<1>3. /\ IsPool(q) /\ q.map = [p.map EXCEPT ![w].state = "idle"]
      /\ q.available = Add(p.available, w) /\ q.nextId = p.nextId
      /\ q.threads = SetStatus(p.threads, t, "replaced")
  BY <1>1, <1>2 DEF InitListener, PoolType, IsPool, SetStatus
<1> HIDE DEF q
<1>4. /\ DOMAIN q.map = DOMAIN p.map /\ q.map \in [DOMAIN p.map -> EntryType]
      /\ \A v \in DOMAIN p.map \ {w} : q.map[v] = p.map[v]
  <2>1. p.map \in [DOMAIN p.map -> EntryType]
    BY <1>1, Zenon DEF PoolType
  <2>2. q.map = [p.map EXCEPT ![w].state = "idle"]
    BY <1>3, Zenon
  <2>3. DOMAIN q.map = DOMAIN p.map /\ q.map \in [DOMAIN p.map -> EntryType]
    BY <2>1, <2>2, <1>2 DEF EntryType
  <2>4. \A v \in DOMAIN p.map \ {w} : q.map[v] = p.map[v]
    BY <2>2
  <2> QED
    BY <2>3, <2>4
<1>5. /\ q.available \in Seq(Nat) /\ IsInjective(q.available)
      /\ Range(q.available) = Range(p.available) \cup {w}
  <2>1. p.available \in Seq(Nat) /\ q.available = Add(p.available, w)
    BY <1>1, <1>3, Zenon DEF PoolType
  <2> QED
    BY <2>1, <1>1, <1>2, AddElement
<1>6. Range(q.available) \ {w} = Range(p.available) \ {w} /\ Range(q.available) \subseteq DOMAIN p.map
  <2>1. Range(p.available) \subseteq DOMAIN p.map
    BY <1>1 DEF Consistent
  <2> QED
    BY <2>1, <1>2, <1>5
<1>7. /\ Consistent(q, DOMAIN q.map \ {w}) /\ w \in DOMAIN q.map /\ w < q.nextId
      /\ Cardinality(DOMAIN q.map) = MaxWorkers
  <2>1. "replaced" \in {"replaced", "failed", "exited"}
    OBVIOUS
  <2>2. IsPool(q) /\ q.nextId = p.nextId /\ q.threads = SetStatus(p.threads, t, "replaced")
    BY <1>3, Zenon
  <2> QED
    BY <1>4, <1>5, <1>6, <2>1, <2>2, StopWorking, Zenon
<1>8. \A u \in 1..Len(q.threads) : Dead(q, u) => q.threads[u].id # w
  <2> SUFFICES ASSUME NEW u \in 1..Len(q.threads), Dead(q, u) PROVE q.threads[u].id # w
    OBVIOUS
  <2>1. /\ Len(q.threads) = Len(p.threads) /\ q.threads[t].status = "replaced"
        /\ \A x \in 1..Len(p.threads) : x # t => q.threads[x] = p.threads[x]
    <3>1. "replaced" \in Statuses
      BY DEF Statuses
    <3> QED
      BY <1>1, <1>3, <3>1, StatusFields
  <2>2. u # t /\ u \in 1..Len(p.threads) /\ q.threads[u] = p.threads[u]
    BY <2>1 DEF Dead
  <2>3. p.threads[u].id \notin DOMAIN p.map
    BY <1>1, <2>2 DEF Consistent, Dead
  <2> QED
    BY <1>2, <2>2, <2>3
<1> DEFINE r == AddWorkerToPool(q, w)
<1>9. Consistent(r, DOMAIN q.map \cup {w}) /\ DOMAIN r.map = DOMAIN q.map \cup {w}
  BY <1>2, <1>7, <1>8, AddConsistent
<1>10. DOMAIN q.map \cup {w} = DOMAIN q.map
  BY <1>7
<1>11. Consistent(r, DOMAIN r.map) /\ DOMAIN r.map = DOMAIN q.map
  BY <1>9, <1>10, Zenon
<1>12. Cardinality(DOMAIN r.map) = MaxWorkers
  BY <1>7, <1>11, Zenon
<1> QED
  BY <1>11, <1>12 DEF PoolOK, q

(* The four listeners of an event replace the worker once, or not at all.  *)
LEMMA ReplaceTwiceReplaced ==
    ASSUME NEW p, NEW w, PoolOK(p), w \notin DOMAIN p.map
    PROVE  PoolOK(ReplaceTwice(p, w)) /\ w \notin DOMAIN ReplaceTwice(p, w).map
<1> DEFINE q == ReplaceWorker(p, w)
<1>1. PoolOK(q) /\ w \notin DOMAIN q.map
  BY ReplaceReplaced
<1> HIDE DEF q
<1>2. PoolOK(ReplaceWorker(q, w)) /\ w \notin DOMAIN ReplaceWorker(q, w).map
  BY <1>1, ReplaceReplaced
<1> QED
  BY <1>2 DEF ReplaceTwice, q

LEMMA ReplaceTwiceBroken ==
    ASSUME NEW p, NEW w \in DOMAIN p.map,
           Consistent(p, DOMAIN p.map \ {w}), Cardinality(DOMAIN p.map) = MaxWorkers
    PROVE  PoolOK(ReplaceTwice(p, w)) /\ w \notin DOMAIN ReplaceTwice(p, w).map
<1> DEFINE q == ReplaceWorker(p, w)
<1>1. PoolOK(q) /\ w \notin DOMAIN q.map
  BY ReplaceBroken
<1> HIDE DEF q
<1>2. PoolOK(ReplaceWorker(q, w)) /\ w \notin DOMAIN ReplaceWorker(q, w).map
  BY <1>1, ReplaceReplaced
<1> QED
  BY <1>2 DEF ReplaceTwice, q

(* The error listeners preserve the invariant.                             *)
LEMMA ThrowOK ==
    ASSUME NEW p, PoolOK(p), NEW t \in 1..Len(p.threads), Active(p, t),
           NEW w, w = p.threads[t].id, NEW s \in {"failed", "exited"}
    PROVE  LET after == ReplaceTwice([p EXCEPT !.threads[t].status = s], w)
           IN  PoolOK(after) /\ w \notin DOMAIN after.map
<1> DEFINE q == [p EXCEPT !.threads[t].status = s]
<1>1. PoolType(p) /\ IsInjective(p.available) /\ Range(p.available) \subseteq DOMAIN p.map
  BY DEF PoolOK, Consistent
<1>2. /\ IsPool(q) /\ q.map = p.map /\ q.available = p.available /\ q.nextId = p.nextId
      /\ q.threads = SetStatus(p.threads, t, s)
  BY <1>1 DEF PoolType, IsPool, SetStatus
<1> HIDE DEF q
<1>3. q.map \in [DOMAIN p.map -> EntryType] /\ q.available \in Seq(Nat)
  <2>1. p.map \in [DOMAIN p.map -> EntryType] /\ p.available \in Seq(Nat)
    BY <1>1, Zenon DEF PoolType
  <2> QED
    BY <2>1, <1>2, Zenon
<1>4. /\ Consistent(q, DOMAIN q.map \ {w}) /\ w \in DOMAIN q.map
      /\ Cardinality(DOMAIN q.map) = MaxWorkers
  BY <1>1, <1>2, <1>3, StopWorking
<1>5. PoolOK(ReplaceTwice(q, w)) /\ w \notin DOMAIN ReplaceTwice(q, w).map
  BY <1>4, ReplaceTwiceBroken
<1> QED
  BY <1>5 DEF q

(* The exit listeners of a thread that has failed preserve it.             *)
LEMMA ExitOK ==
    ASSUME NEW p, PoolOK(p), NEW t \in 1..Len(p.threads), p.threads[t].status = "failed",
           NEW w, w = p.threads[t].id
    PROVE  PoolOK(ReplaceTwice([p EXCEPT !.threads[t].status = "exited"], w))
<1> DEFINE q == [p EXCEPT !.threads[t].status = "exited"]
<1>1. PoolType(p) /\ Consistent(p, DOMAIN p.map)
  BY DEF PoolOK, Consistent
<1>2. w \notin DOMAIN p.map
  BY <1>1 DEF Consistent, Dead
<1>3. /\ IsPool(q) /\ q.map = p.map /\ q.available = p.available /\ q.nextId = p.nextId
      /\ q.threads = SetStatus(p.threads, t, "exited")
  BY <1>1 DEF PoolType, IsPool, SetStatus
<1> HIDE DEF q
<1>4. /\ q.threads \in Seq(ThreadType) /\ Len(q.threads) = Len(p.threads)
      /\ q.threads[t].id = p.threads[t].id /\ q.threads[t].status = "exited"
      /\ \A u \in 1..Len(p.threads) : u # t => q.threads[u] = p.threads[u]
  <2>1. "exited" \in Statuses
    BY DEF Statuses
  <2> QED
    BY <1>1, <1>3, <2>1, StatusFields
<1>5. \A u \in 1..Len(p.threads) :
          /\ q.threads[u].id = p.threads[u].id
          /\ q.threads[u].status = p.threads[u].status \/ (Dead(p, u) /\ Dead(q, u))
  <2> SUFFICES ASSUME NEW u \in 1..Len(p.threads)
               PROVE  /\ q.threads[u].id = p.threads[u].id
                      /\ q.threads[u].status = p.threads[u].status \/ (Dead(p, u) /\ Dead(q, u))
    OBVIOUS
  <2>1. CASE u = t
    BY <1>4, <2>1 DEF Dead
  <2>2. CASE u # t
    <3>1. q.threads[u] = p.threads[u]
      BY <1>4, <2>2
    <3> QED
      BY <3>1
  <2> QED
    BY <2>1, <2>2
<1>6. q.map \in [DOMAIN p.map -> EntryType] /\ DOMAIN q.map = DOMAIN p.map
  BY <1>1, <1>3, Zenon DEF PoolType
<1>7. PoolOK(q) /\ DOMAIN q.map = DOMAIN p.map
  BY <1>3, <1>4, <1>5, <1>6, SamePool
<1>8. PoolOK(ReplaceTwice(q, w))
  BY <1>2, <1>7, ReplaceTwiceReplaced
<1> QED
  BY <1>8 DEF q

SetTask(threads, t, task, c) ==
    [threads EXCEPT ![t] = [@ EXCEPT !.status = "working", !.task = task, !.call = c]]

(* What a thread is after it was sent a task.                              *)
LEMMA TaskFields ==
    ASSUME NEW p, PoolType(p), NEW t \in 1..Len(p.threads),
           NEW task \in Tasks, NEW c \in Calls \cup {NoCall},
           NEW threads, threads = SetTask(p.threads, t, task, c)
    PROVE  /\ threads \in Seq(ThreadType) /\ Len(threads) = Len(p.threads)
           /\ threads[t].id = p.threads[t].id /\ threads[t].status = "working"
           /\ threads[t].task = task /\ threads[t].call = c
           /\ \A u \in 1..Len(p.threads) : u # t => threads[u] = p.threads[u]
<1> DEFINE thread == [p.threads[t] EXCEPT !.status = "working", !.task = task, !.call = c]
<1>1. p.threads \in Seq(ThreadType) /\ p.threads[t] \in ThreadType
  BY ThreadTyped DEF PoolType
<1>2. /\ thread \in ThreadType /\ thread.id = p.threads[t].id
      /\ thread.status = "working" /\ thread.task = task /\ thread.call = c
  BY <1>1 DEF ThreadType, Statuses
<1>3. threads = [p.threads EXCEPT ![t] = thread]
  BY DEF SetTask
<1> HIDE DEF thread
<1>4. /\ [p.threads EXCEPT ![t] = thread] \in Seq(ThreadType)
      /\ Len([p.threads EXCEPT ![t] = thread]) = Len(p.threads)
  BY <1>1, <1>2
<1>5. /\ [p.threads EXCEPT ![t] = thread][t] = thread
      /\ \A u \in 1..Len(p.threads) : u # t => [p.threads EXCEPT ![t] = thread][u] = p.threads[u]
  BY <1>1
<1> QED
  BY <1>2, <1>3, <1>4, <1>5

(* runWorker, from a worker on offer to postMessage, preserves the         *)
(* invariant: the worker leaves availableWorkers when its thread starts.   *)
LEMMA PerformOK ==
    ASSUME NEW p, PoolOK(p), NEW w \in Range(p.available),
           NEW task \in Tasks, NEW c \in Calls \cup {NoCall}
    PROVE  PoolOK(PerformOperation(p, w, task, c))
<1> DEFINE q == PerformOperation(p, w, task, c)
           n == p.map[w].worker
<1>1. PoolType(p) /\ Consistent(p, DOMAIN p.map) /\ IsInjective(p.available)
  BY DEF PoolOK, Consistent
<1>2. w \in DOMAIN p.map
  BY <1>1 DEF Consistent
<1>3. n \in 1..Len(p.threads) /\ p.threads[n].id = w /\ p.threads[n].status = "ready"
  BY <1>1, <1>2 DEF Consistent, EntryOK
<1>4. /\ IsPool(q) /\ q.nextId = p.nextId /\ q.available = Delete(p.available, w)
      /\ q.threads = SetTask(p.threads, n, task, c)
  BY <1>1, <1>2 DEF PerformOperation, PoolType, IsPool, SetTask
<1>5. q.map = [p.map EXCEPT ![w].state = "busy"]
  BY <1>1, <1>2 DEF PerformOperation, PoolType, IsPool
<1> HIDE DEF q
<1>6. /\ DOMAIN q.map = DOMAIN p.map /\ q.map \in [DOMAIN p.map -> EntryType]
      /\ q.map[w].state = "busy" /\ q.map[w].worker = n
      /\ \A v \in DOMAIN p.map \ {w} : q.map[v] = p.map[v]
  <2>1. p.map \in [DOMAIN p.map -> EntryType]
    BY <1>1, Zenon DEF PoolType
  <2> QED
    BY <2>1, <1>2, <1>5 DEF EntryType
<1>7. /\ q.available \in Seq(Nat) /\ IsInjective(q.available)
      /\ Range(q.available) = Range(p.available) \ {w}
  <2>1. p.available \in Seq(Nat)
    BY <1>1 DEF PoolType
  <2> QED
    BY <2>1, <1>1, <1>4, DeleteElement
<1> HIDE DEF n
<1>8. /\ q.threads \in Seq(ThreadType) /\ Len(q.threads) = Len(p.threads)
      /\ q.threads[n].id = w /\ q.threads[n].status = "working"
      /\ \A u \in 1..Len(p.threads) : u # n => q.threads[u] = p.threads[u]
  <2>1. q.threads = SetTask(p.threads, n, task, c)
    BY <1>4
  <2> QED
    BY <1>1, <1>3, <2>1, TaskFields
<1>9. PoolType(q)
  <2>1. \A u \in 1..Len(q.threads) : q.threads[u].id < q.nextId
    <3>1. w < p.nextId /\ \A u \in 1..Len(p.threads) : p.threads[u].id < p.nextId
      BY <1>1, <1>2 DEF PoolType
    <3> QED
      BY <1>4, <1>8, <3>1
  <2>2. DOMAIN q.map \subseteq 0..(q.nextId - 1) /\ q.nextId \in Nat
    BY <1>1, <1>4, <1>6 DEF PoolType
  <2>3. q.map \in [DOMAIN q.map -> EntryType]
    BY <1>6, Zenon
  <2> QED
    BY <1>4, <1>7, <1>8, <2>1, <2>2, <2>3, Zenon DEF PoolType
<1>10. EntryOK(q, w)
  BY <1>3, <1>6, <1>7, <1>8 DEF EntryOK
<1>11. ASSUME NEW v \in DOMAIN p.map \ {w} PROVE EntryOK(q, v)
  <2>1. EntryOK(p, v)
    BY <1>1 DEF Consistent
  <2>2. p.map[v].worker # n
    BY <1>3, <2>1 DEF EntryOK
  <2>3. q.map[v] = p.map[v] /\ (v \in Range(q.available) <=> v \in Range(p.available))
    BY <1>6, <1>7
  <2> QED
    BY <1>8, <2>1, <2>2, <2>3 DEF EntryOK
<1>12. ASSUME NEW t \in 1..Len(q.threads)
       PROVE  /\ Active(q, t) => q.threads[t].id \in DOMAIN q.map /\ q.map[q.threads[t].id].worker = t
              /\ Dead(q, t) => q.threads[t].id \notin DOMAIN q.map
  <2>1. CASE t = n
    BY <1>2, <1>6, <1>8, <2>1 DEF Active, Dead
  <2>2. CASE t # n
    <3>1. q.threads[t] = p.threads[t] /\ t \in 1..Len(p.threads)
      BY <1>8, <2>2
    <3>2. /\ Active(p, t) => p.threads[t].id \in DOMAIN p.map /\ p.map[p.threads[t].id].worker = t
          /\ Dead(p, t) => p.threads[t].id \notin DOMAIN p.map
      BY <1>1, <3>1 DEF Consistent
    <3>3. \A v \in DOMAIN p.map : q.map[v].worker = p.map[v].worker
      BY <1>6 DEF n
    <3> QED
      BY <1>6, <3>1, <3>2, <3>3 DEF Active, Dead
  <2> QED
    BY <2>1, <2>2
<1>13. Range(q.available) \subseteq DOMAIN q.map
  BY <1>1, <1>6, <1>7 DEF Consistent
<1>14. \A v \in DOMAIN q.map : EntryOK(q, v)
  BY <1>6, <1>10, <1>11
<1>15. Consistent(q, DOMAIN q.map)
  BY <1>7, <1>9, <1>12, <1>13, <1>14 DEF Consistent
<1>16. Cardinality(DOMAIN q.map) = MaxWorkers
  BY <1>6, Zenon DEF PoolOK
<1> QED
  BY <1>15, <1>16 DEF PoolOK, q

-----------------------------------------------------------------------------
(* The inductive invariant of the specification                            *)

(* A pending enqueue belongs to a client call.                             *)
PendingJobs == {j \in JobType : j.kind = "enqueue" => j.call \in Calls}

QueueOK == taskQueue \in Queue!Queues /\ taskQueue.due \subseteq taskQueue.queued

(* No promise was rejected: `Worker not found' was never thrown.           *)
PromisesOK == promise \in [Calls -> PromiseStates \ {"rejected"}]

Inv ==
    /\ PoolOK(pool)
    /\ QueueOK
    /\ microtasks \in Seq(PendingJobs)
    /\ PromisesOK
    /\ unhandled \in BOOLEAN
    /\ up \in BOOLEAN

(* The continuations that the handlers create are typed.                   *)
LEMMA JobsTyped ==
    /\ \A kind \in JobKinds \ {"enqueue"} : Job(kind) \in PendingJobs
    /\ \A c \in Calls : CallJob("enqueue", c) \in PendingJobs
    /\ \A task \in Tasks \cup {NoTask} : TaskJob("dequeued", task) \in PendingJobs
    /\ \A kind \in JobKinds \ {"enqueue"}, t \in Nat : ThreadJob(kind, t) \in PendingJobs
    /\ \A p : ProcessQueue(p) \in Seq(PendingJobs)
<1>1. \A kind \in JobKinds \ {"enqueue"} : Job(kind) \in PendingJobs
  BY DEF Job, PendingJobs, JobType, JobKinds
<1>2. \A c \in Calls : CallJob("enqueue", c) \in PendingJobs
  BY DEF CallJob, Job, PendingJobs, JobType, JobKinds
<1>3. \A task \in Tasks \cup {NoTask} : TaskJob("dequeued", task) \in PendingJobs
  BY DEF TaskJob, Job, PendingJobs, JobType, JobKinds
<1>4. \A kind \in JobKinds \ {"enqueue"}, t \in Nat : ThreadJob(kind, t) \in PendingJobs
  BY DEF ThreadJob, Job, PendingJobs, JobType, JobKinds
<1>5. \A p : ProcessQueue(p) \in Seq(PendingJobs)
  <2>1. Job("dequeue") \in PendingJobs
    BY <1>1 DEF JobKinds
  <2> HIDE DEF Job, PendingJobs
  <2>2. <<Job("dequeue")>> \in Seq(PendingJobs) /\ << >> \in Seq(PendingJobs)
    BY <2>1
  <2> QED
    BY <2>2 DEF ProcessQueue
<1> QED
  BY <1>1, <1>2, <1>3, <1>4, <1>5

(* The jobs that the actions put behind the ones that wait are typed.      *)
LEMMA HeadJob ==
    ASSUME microtasks \in Seq(PendingJobs), microtasks # <<>>
    PROVE  job \in PendingJobs /\ Tail(microtasks) \in Seq(PendingJobs)
BY DEF job

(* The first worker on offer is one.                                       *)
LEMMA FirstOffered ==
    ASSUME PoolOK(pool), pool.available # <<>>
    PROVE  FirstAvailable \in Range(pool.available) /\ FirstAvailable \in DOMAIN pool.map
<1>1. pool.available \in Seq(Nat) /\ Range(pool.available) \subseteq DOMAIN pool.map
  BY DEF PoolOK, Consistent, PoolType
<1>2. Head(pool.available) \in Range(pool.available)
  BY <1>1 DEF Range
<1> QED
  BY <1>1, <1>2 DEF FirstAvailable

(* runWorker from the choice of a worker to postMessage.                   *)
LEMMA PostInv ==
    ASSUME Inv, NEW task \in Tasks, NEW c \in Calls \cup {NoCall}, NEW jobs \in Seq(PendingJobs),
           pool.available # <<>>, Post(FirstAvailable, task, c, jobs)
    PROVE  PoolOK(pool') /\ microtasks' \in Seq(PendingJobs) /\ unhandled' \in BOOLEAN
<1>1. PoolOK(pool) /\ unhandled \in BOOLEAN
  BY DEF Inv
<1>2. pool' = PerformOperation(pool, FirstAvailable, task, c) /\ microtasks' = jobs
  BY DEF Post
<1>3. PoolOK(pool')
  BY <1>1, <1>2, FirstOffered, PerformOK
<1>4. unhandled' \in BOOLEAN
  BY <1>1 DEF Post
<1> QED
  BY <1>2, <1>3, <1>4

-----------------------------------------------------------------------------
(* Each action preserves the invariant                                     *)

LEMMA InitInv == ASSUME Init PROVE Inv
<1> DEFINE p == InitialPool
<1>1. MaxWorkers \in Nat /\ MaxWorkers > 0
  BY MaxWorkersAssumption
<1>2. /\ IsPool(p) /\ p.nextId = MaxWorkers
      /\ p.map = [w \in 0..(MaxWorkers - 1) |-> [worker |-> w + 1, state |-> "idle", version |-> 0]]
      /\ p.available = [i \in 1..MaxWorkers |-> i - 1]
      /\ p.threads = [t \in 1..MaxWorkers |-> NewThread(t - 1)]
  BY DEF InitialPool, IsPool
<1> HIDE DEF p
<1>3. \A t \in 1..MaxWorkers : NewThread(t - 1) \in ThreadType
  BY <1>1 DEF NewThread, ThreadType, Statuses
<1>4. p.threads \in Seq(ThreadType) /\ Len(p.threads) = MaxWorkers
  BY <1>1, <1>2, <1>3
<1>5. \A t \in 1..MaxWorkers : p.threads[t].id = t - 1 /\ p.threads[t].status = "ready"
  BY <1>2 DEF NewThread
<1>6. p.available \in Seq(Nat) /\ Len(p.available) = MaxWorkers
  BY <1>1, <1>2
<1>7. IsInjective(p.available) /\ Range(p.available) = 0..(MaxWorkers - 1)
  <2>1. DOMAIN p.available = 1..MaxWorkers /\ \A i \in 1..MaxWorkers : p.available[i] = i - 1
    BY <1>2
  <2>2. IsInjective(p.available)
    BY <1>1, <2>1 DEF IsInjective
  <2>3. \A w \in 0..(MaxWorkers - 1) : w + 1 \in 1..MaxWorkers /\ p.available[w + 1] = w
    BY <1>1, <2>1
  <2>4. \A i \in 1..MaxWorkers : p.available[i] \in 0..(MaxWorkers - 1)
    BY <1>1, <2>1
  <2> QED
    BY <2>1, <2>2, <2>3, <2>4 DEF Range
<1>8. /\ DOMAIN p.map = 0..(MaxWorkers - 1)
      /\ \A w \in 0..(MaxWorkers - 1) : p.map[w].worker = w + 1 /\ p.map[w].state = "idle"
      /\ p.map \in [DOMAIN p.map -> EntryType]
  BY <1>1, <1>2 DEF EntryType
<1>9. PoolType(p)
  <2>1. \A t \in 1..Len(p.threads) : p.threads[t].id < p.nextId
    BY <1>1, <1>2, <1>4, <1>5
  <2>2. p.nextId \in Nat /\ DOMAIN p.map \subseteq 0..(p.nextId - 1)
    BY <1>1, <1>2, <1>8
  <2> QED
    BY <1>2, <1>4, <1>6, <1>8, <2>1, <2>2 DEF PoolType
<1>10. \A w \in DOMAIN p.map : EntryOK(p, w)
  <2> SUFFICES ASSUME NEW w \in 0..(MaxWorkers - 1) PROVE EntryOK(p, w)
    BY <1>8
  <2>1. w + 1 \in 1..MaxWorkers /\ p.threads[w + 1].id = w /\ p.threads[w + 1].status = "ready"
    BY <1>1, <1>5
  <2> QED
    BY <1>4, <1>7, <1>8, <2>1 DEF EntryOK
<1>11. Consistent(p, DOMAIN p.map)
  <2>1. \A t \in 1..Len(p.threads) : ~Active(p, t) /\ ~Dead(p, t)
    BY <1>4, <1>5 DEF Active, Dead
  <2> QED
    BY <1>7, <1>8, <1>9, <1>10, <2>1 DEF Consistent
<1>12. Cardinality(DOMAIN p.map) = MaxWorkers
  BY <1>1, <1>8, FS_Interval
<1>13. PoolOK(pool)
  BY <1>11, <1>12 DEF Init, p, PoolOK
<1>14. QueueOK
  BY DEF Init, QueueOK, Queue!EmptyQueue, Queue!Queues
<1>15. microtasks \in Seq(PendingJobs) /\ PromisesOK /\ unhandled \in BOOLEAN /\ up \in BOOLEAN
  <2>1. microtasks = <<>> /\ promise = [c \in Calls |-> "uncalled"] 
        /\ unhandled = FALSE /\ up = TRUE
    BY DEF Init
  <2>2. PromisesOK
    BY <2>1 DEF PromisesOK, PromiseStates
  <2>3. microtasks \in Seq(PendingJobs)
    BY <2>1
  <2> QED
    BY <2>1, <2>2, <2>3, Zenon
<1> QED
  BY <1>13, <1>14, <1>15 DEF Inv

LEMMA RunWorkerInv == ASSUME Inv, NEW c \in Calls, RunWorker(c) PROVE Inv'
<1>1. PoolOK(pool) /\ microtasks \in Seq(PendingJobs) /\ PromisesOK /\ unhandled \in BOOLEAN
  BY DEF Inv
<1>2. QueueOK' /\ up' \in BOOLEAN
  BY DEF Inv, QueueOK, RunWorker
<1>3. CASE pool.available = <<>>
  <2>1. pool' = pool /\ unhandled' = unhandled
        /\ microtasks' = Append(microtasks, CallJob("enqueue", c))
        /\ promise' = [promise EXCEPT ![c] = "queued"]
    BY <1>3 DEF RunWorker
  <2>2. microtasks' \in Seq(PendingJobs)
    BY <1>1, <2>1, JobsTyped
  <2>3. PromisesOK'
    BY <1>1, <2>1 DEF PromisesOK, PromiseStates
  <2> QED
    BY <1>1, <1>2, <2>1, <2>2, <2>3 DEF Inv
<1>4. CASE pool.available # <<>>
  <2>1. FirstAvailable \in DOMAIN pool.map
    BY <1>1, <1>4, FirstOffered
  <2>2. /\ Post(FirstAvailable, DataOf[c], c, microtasks)
        /\ promise' = [promise EXCEPT ![c] = "running"]
    BY <1>4, <2>1 DEF RunWorker
  <2>3. DataOf[c] \in Tasks /\ c \in Calls \cup {NoCall}
    BY CallsAssumption
  <2>4. PoolOK(pool') /\ microtasks' \in Seq(PendingJobs) /\ unhandled' \in BOOLEAN
    BY <1>1, <1>4, <2>2, <2>3, PostInv
  <2>5. PromisesOK'
    BY <1>1, <2>2 DEF PromisesOK, PromiseStates
  <2> QED
    BY <1>2, <2>4, <2>5 DEF Inv
<1> QED
  BY <1>3, <1>4

(* The listeners of a reply.                                               *)
LEMMA WorkerRepliesInv ==
    ASSUME Inv, NEW t \in DOMAIN pool.threads, WorkerReplies(t) PROVE Inv'
<1>1. PoolOK(pool) /\ t \in 1..Len(pool.threads) /\ t \in Nat /\ Active(pool, t)
  <2>1. PoolOK(pool) /\ pool.threads \in Seq(ThreadType)
    BY DEF Inv, PoolOK, Consistent, PoolType
  <2> QED
    BY <2>1 DEF WorkerReplies, Working, Active
<1> DEFINE w == pool.threads[t].id
           listened == InitListener(pool, w)
<1>2. /\ pool' = AddWorkerToPool([listened EXCEPT !.threads[t].status = "replaced"], w)
      /\ microtasks' = ProcessQueue(listened) \o <<ThreadJob("settled", t)>>
  BY DEF WorkerReplies
<1>3. PoolOK(pool')
  BY <1>1, <1>2, ReplyOK
<1>4. microtasks' \in Seq(PendingJobs)
  <2>1. ThreadJob("settled", t) \in PendingJobs /\ ProcessQueue(listened) \in Seq(PendingJobs)
    BY <1>1, JobsTyped DEF JobKinds
  <2> HIDE DEF listened
  <2> QED
    BY <1>2, <2>1
<1>5. QueueOK' /\ PromisesOK' /\ unhandled' \in BOOLEAN /\ up' \in BOOLEAN
  BY DEF Inv, QueueOK, PromisesOK, WorkerReplies
<1> QED
  BY <1>3, <1>4, <1>5 DEF Inv

(* The listeners of an error, and of the exit that may come with it.       *)
LEMMA WorkerThrowsInv ==
    ASSUME Inv, NEW t \in DOMAIN pool.threads, NEW exits \in BOOLEAN, WorkerThrows(t, exits)
    PROVE  Inv'
<1>1. PoolOK(pool) /\ t \in 1..Len(pool.threads) /\ t \in Nat /\ Active(pool, t)
  <2>1. PoolOK(pool) /\ pool.threads \in Seq(ThreadType)
    BY DEF Inv, PoolOK, Consistent, PoolType
  <2> QED
    BY <2>1 DEF WorkerThrows, Working, Active
<1> DEFINE w == pool.threads[t].id
           s == IF exits THEN "exited" ELSE "failed"
           failed == [pool EXCEPT !.threads[t].status = s]
           after == ReplaceTwice(failed, w)
           onExit == IF exits THEN ProcessQueueTwice(after, w) ELSE <<>>
<1>2. /\ pool' = IF exits THEN ReplaceTwice(after, w) ELSE after
      /\ microtasks' = ProcessQueueTwice(failed, w) \o <<ThreadJob("settled", t)>> \o onExit
  BY DEF WorkerThrows
<1>3. PoolOK(after) /\ w \notin DOMAIN after.map
  <2>1. s \in {"failed", "exited"}
    OBVIOUS
  <2> HIDE DEF s
  <2> QED
    BY <1>1, <2>1, ThrowOK
<1>4. \A p, v : ProcessQueueTwice(p, v) \in Seq(PendingJobs)
  BY JobsTyped DEF ProcessQueueTwice
<1>5. ThreadJob("settled", t) \in PendingJobs
  BY <1>1, JobsTyped DEF JobKinds
<1> HIDE DEF after, failed, w
<1>6. PoolOK(pool')
  BY <1>2, <1>3, ReplaceTwiceReplaced
<1>7. microtasks' \in Seq(PendingJobs)
  <2>1. onExit \in Seq(PendingJobs) /\ ProcessQueueTwice(failed, w) \in Seq(PendingJobs)
    BY <1>4
  <2> HIDE DEF onExit
  <2> QED
    BY <1>2, <1>5, <2>1
<1>8. QueueOK' /\ PromisesOK' /\ unhandled' \in BOOLEAN /\ up' \in BOOLEAN
  BY DEF Inv, QueueOK, PromisesOK, WorkerThrows
<1> QED
  BY <1>6, <1>7, <1>8 DEF Inv

(* The listeners of an exit that comes later than the error.               *)
LEMMA WorkerExitsInv ==
    ASSUME Inv, NEW t \in DOMAIN pool.threads, WorkerExits(t) PROVE Inv'
<1>1. PoolOK(pool) /\ t \in 1..Len(pool.threads) /\ pool.threads[t].status = "failed"
  <2>1. PoolOK(pool) /\ pool.threads \in Seq(ThreadType)
    BY DEF Inv, PoolOK, Consistent, PoolType
  <2> QED
    BY <2>1 DEF WorkerExits
<1> DEFINE w == pool.threads[t].id
           exited == [pool EXCEPT !.threads[t].status = "exited"]
<1>2. pool' = ReplaceTwice(exited, w) /\ microtasks' = ProcessQueueTwice(exited, w)
  BY DEF WorkerExits
<1>3. PoolOK(pool')
  BY <1>1, <1>2, ExitOK
<1>4. microtasks' \in Seq(PendingJobs)
  BY <1>2, JobsTyped DEF ProcessQueueTwice
<1>5. QueueOK' /\ PromisesOK' /\ unhandled' \in BOOLEAN /\ up' \in BOOLEAN
  BY DEF Inv, QueueOK, PromisesOK, WorkerExits
<1> QED
  BY <1>3, <1>4, <1>5 DEF Inv

(* Timers, and Node's report of unhandled rejections.                      *)
LEMMA TimersInv ==
    ASSUME Inv, PollTick \/ ProcessRejections \/ \E task \in taskQueue.queued : TaskMatures(task)
    PROVE  Inv'
<1>1. CASE PollTick
  <2>1. microtasks' \in Seq(PendingJobs)
    <3>1. Job("poll") \in PendingJobs
      BY JobsTyped DEF JobKinds
    <3> QED
      BY <1>1, <3>1 DEF PollTick
  <2> QED
    BY <1>1, <2>1 DEF Inv, PollTick, QueueOK, PromisesOK
<1>2. CASE ProcessRejections
  <2>1. up' \in BOOLEAN /\ unhandled' \in BOOLEAN
    BY <1>2, ThrowOnUnhandledAssumption DEF ProcessRejections
  <2> QED
    BY <1>2, <2>1 DEF Inv, ProcessRejections, QueueOK, PromisesOK
<1>3. ASSUME NEW task \in taskQueue.queued, TaskMatures(task) PROVE Inv'
  <2>1. taskQueue' = [taskQueue EXCEPT !.due = @ \cup {task}] /\ QueueOK
    BY <1>3 DEF Inv, TaskMatures, Queue!Mature
  <2>2. QueueOK'
    BY <1>3, <2>1 DEF QueueOK, Queue!Queues
  <2> QED
    BY <1>3, <2>2 DEF Inv, TaskMatures, PromisesOK
<1> QED
  BY <1>1, <1>2, <1>3

(* The microtasks of the queue's methods.                                  *)
LEMMA QueueJobsInv ==
    ASSUME Inv, EnqueueJob \/ DequeueJob \/ PollJob PROVE Inv'
<1>1. microtasks # <<>> /\ job = Head(microtasks)
  BY DEF EnqueueJob, DequeueJob, PollJob, Pending, job
<1>2. job \in PendingJobs /\ Tail(microtasks) \in Seq(PendingJobs)
  BY <1>1, HeadJob DEF Inv
<1>3. QueueOK
  BY DEF Inv
<1>4. CASE EnqueueJob
  <2>1. job.kind = "enqueue" /\ job.call \in Calls
    BY <1>2, <1>4 DEF EnqueueJob, Pending, PendingJobs, job
  <2>2. DataOf[job.call] \in Tasks
    BY <2>1, CallsAssumption
  <2>3. QueueOK'
    BY <1>3, <1>4, <2>2 DEF EnqueueJob, Queue!Enqueue, Queue!Queues, QueueOK
  <2>4. microtasks' \in Seq(PendingJobs)
    <3>1. Job("enqueued") \in PendingJobs
      BY JobsTyped DEF JobKinds
    <3> QED
      BY <1>2, <1>4, <3>1 DEF EnqueueJob
  <2> QED
    BY <1>4, <2>3, <2>4 DEF Inv, EnqueueJob, PromisesOK
<1>5. CASE DequeueJob
  <2>1. PICK outcome \in Queue!DequeueOutcomes(taskQueue) :
            /\ taskQueue' = outcome.queue
            /\ microtasks' = Append(Tail(microtasks), TaskJob("dequeued", outcome.task))
    BY <1>5 DEF DequeueJob
  <2>2. /\ outcome.queue \in Queue!Queues /\ outcome.queue.due \subseteq outcome.queue.queued
        /\ outcome.task \in Tasks \cup {NoTask}
    BY <1>3, <2>1 DEF Queue!DequeueOutcomes, Queue!Without, Queue!Queues, QueueOK
  <2>3. QueueOK'
    BY <2>1, <2>2 DEF QueueOK
  <2>4. microtasks' \in Seq(PendingJobs)
    <3>1. TaskJob("dequeued", outcome.task) \in PendingJobs
      BY <2>2, JobsTyped
    <3> QED
      BY <1>2, <2>1, <3>1
  <2> QED
    BY <1>5, <2>3, <2>4 DEF Inv, DequeueJob, PromisesOK
<1>6. CASE PollJob
  <2>1. PICK polled \in Queue!PollOutcomes(taskQueue) : taskQueue' = polled
    BY <1>6 DEF PollJob
  <2>2. QueueOK'
    BY <1>3, <2>1 DEF Queue!PollOutcomes, Queue!Without, Queue!Queues, QueueOK
  <2>3. microtasks' \in Seq(PendingJobs)
    BY <1>2, <1>6 DEF PollJob
  <2> QED
    BY <1>6, <2>2, <2>3 DEF Inv, PollJob, PromisesOK
<1> QED
  BY <1>4, <1>5, <1>6

(* The microtasks of processQueue.                                         *)
LEMMA ProcessQueueInv == ASSUME Inv, EnqueuedJob \/ DequeuedJob PROVE Inv'
<1>1. microtasks # <<>> /\ job = Head(microtasks)
  BY DEF EnqueuedJob, DequeuedJob, Pending, job
<1>2. job \in PendingJobs /\ Tail(microtasks) \in Seq(PendingJobs)
  BY <1>1, HeadJob DEF Inv
<1>3. QueueOK' /\ PromisesOK' /\ up' \in BOOLEAN
  BY DEF Inv, QueueOK, PromisesOK, EnqueuedJob, DequeuedJob
<1>4. CASE EnqueuedJob
  <2>1. ProcessQueue(pool) \in Seq(PendingJobs)
    BY JobsTyped
  <2>2. microtasks' \in Seq(PendingJobs)
    BY <1>2, <1>4, <2>1 DEF EnqueuedJob
  <2> QED
    BY <1>3, <1>4, <2>2 DEF Inv, EnqueuedJob
<1>5. CASE DequeuedJob
  <2>1. CASE job.task # NoTask /\ pool.available # <<>> /\ Post(FirstAvailable, job.task, NoCall, Tail(microtasks))
    <3>1. job.task \in Tasks
      BY <1>2, <2>1 DEF PendingJobs, JobType
    <3>2. PoolOK(pool') /\ microtasks' \in Seq(PendingJobs) /\ unhandled' \in BOOLEAN
      BY <1>2, <2>1, <3>1, PostInv
    <3> QED
      BY <1>3, <3>2 DEF Inv
  <2>2. CASE microtasks' = Tail(microtasks) /\ UNCHANGED <<pool, unhandled>>
    BY <1>2, <1>3, <2>2 DEF Inv
  <2> QED
    BY <1>5, <2>1, <2>2 DEF DequeuedJob
<1> QED
  BY <1>4, <1>5

(* The microtasks that settle an operation.                                *)
LEMMA OperationInv == ASSUME Inv, SettledJob \/ OperatedJob \/ RanJob PROVE Inv'
<1>1. microtasks # <<>> /\ job = Head(microtasks)
  BY DEF SettledJob, OperatedJob, RanJob, Pending, job
<1>2. job \in PendingJobs /\ job.thread \in Nat /\ Tail(microtasks) \in Seq(PendingJobs)
  <2>1. job \in PendingJobs /\ Tail(microtasks) \in Seq(PendingJobs)
    BY <1>1, HeadJob DEF Inv
  <2> QED
    BY <2>1 DEF PendingJobs, JobType
<1>3. ThreadJob("operated", job.thread) \in PendingJobs /\ ThreadJob("ran", job.thread) \in PendingJobs
  BY <1>2, JobsTyped DEF JobKinds
<1>4. QueueOK' /\ up' \in BOOLEAN
  BY DEF Inv, QueueOK, SettledJob, OperatedJob, RanJob
<1>5. CASE SettledJob
  <2>1. microtasks' \in Seq(PendingJobs)
    BY <1>2, <1>3, <1>5 DEF SettledJob
  <2> QED
    BY <1>4, <1>5, <2>1 DEF Inv, SettledJob, PromisesOK
<1>6. CASE OperatedJob
  <2>1. microtasks' \in Seq(PendingJobs)
    BY <1>2, <1>3, <1>6 DEF OperatedJob
  <2>2. PoolOK(pool') /\ unhandled' \in BOOLEAN
    <3>1. PoolOK(pool) /\ unhandled \in BOOLEAN
      BY DEF Inv
    <3> QED
      BY <1>6, <3>1, VersionOK DEF OperatedJob
  <2> QED
    BY <1>4, <1>6, <2>1, <2>2 DEF Inv, OperatedJob, PromisesOK
<1>7. CASE RanJob
  <2>1. microtasks' \in Seq(PendingJobs)
    <3>1. ProcessQueue(pool) \in Seq(PendingJobs)
      BY JobsTyped
    <3> QED
      BY <1>2, <1>7, <3>1 DEF RanJob
  <2>2. PromisesOK'
    BY <1>7 DEF Inv, PromisesOK, PromiseStates, RanJob
  <2> QED
    BY <1>4, <1>7, <2>1, <2>2 DEF Inv, RanJob
<1> QED
  BY <1>5, <1>6, <1>7

(* Every step of the pool preserves the invariant.                         *)
LEMMA StepInv == ASSUME Inv, [Next]_vars PROVE Inv'
<1>1. CASE UNCHANGED vars
  BY <1>1 DEF vars, Inv, QueueOK, PromisesOK
<1>2. CASE Next
  <2>1. ASSUME NEW c \in Calls, RunWorker(c) PROVE Inv'
    BY <2>1, RunWorkerInv
  <2>2. ASSUME NEW t \in DOMAIN pool.threads, ThreadEvent(t) PROVE Inv'
    BY <2>2, WorkerRepliesInv, WorkerThrowsInv, WorkerExitsInv DEF ThreadEvent
  <2>3. CASE PollTick \/ ProcessRejections \/ \E task \in taskQueue.queued : TaskMatures(task)
    BY <2>3, TimersInv
  <2>4. CASE Microtask
    BY <2>4, QueueJobsInv, ProcessQueueInv, OperationInv DEF Microtask
  <2> QED
    BY <1>2, <2>1, <2>2, <2>3, <2>4 DEF Next
<1> QED
  BY <1>1, <1>2

-----------------------------------------------------------------------------
(* What the invariant says of the state                                    *)

LEMMA InvTypeOK == ASSUME Inv PROVE TypeOK
<1>1. PoolType(pool)
  BY DEF Inv, PoolOK, Consistent
<1>2. DOMAIN pool.map \subseteq Nat
  BY <1>1 DEF PoolType
<1>3. microtasks \in Seq(JobType)
  <2>1. PendingJobs \subseteq JobType /\ microtasks \in Seq(PendingJobs)
    BY DEF PendingJobs, Inv
  <2> QED
    BY <2>1
<1>4. promise \in [Calls -> PromiseStates]
  BY DEF Inv, PromisesOK
<1>5. taskQueue \in Queue!Queues /\ taskQueue.due \subseteq taskQueue.queued
  BY DEF Inv, QueueOK
<1>6. unhandled \in BOOLEAN /\ up \in BOOLEAN
  BY DEF Inv
<1> QED
  BY <1>1, <1>2, <1>3, <1>4, <1>5, <1>6, Zenon DEF PoolType, IsPool, TypeOK

LEMMA InvWorkers ==
    ASSUME Inv
    PROVE  /\ PoolAtFullStrength /\ AvailableWorkersAreReady /\ UnavailableWorkersAreWorking
           /\ EventsReachTheirOwnEntry /\ WorkerAlwaysFound
<1>1. Consistent(pool, DOMAIN pool.map) /\ Cardinality(DOMAIN pool.map) = MaxWorkers
  BY DEF Inv, PoolOK
<1>2. AvailableWorkersAreReady
  BY <1>1 DEF Consistent, EntryOK, AvailableWorkersAreReady
<1>3. UnavailableWorkersAreWorking
  BY <1>1 DEF Consistent, EntryOK, UnavailableWorkersAreWorking, Working
<1>4. EventsReachTheirOwnEntry
  BY <1>1 DEF Consistent, EventsReachTheirOwnEntry, Working, Active, Dead
<1>5. WorkerAlwaysFound
  BY DEF Inv, PromisesOK, WorkerAlwaysFound
<1> QED
  BY <1>1, <1>2, <1>3, <1>4, <1>5 DEF PoolAtFullStrength

-----------------------------------------------------------------------------
(* Theorems                                                                *)

LEMMA InvHolds == Spec => []Inv
<1>1. Init => Inv
  BY InitInv
<1>2. Inv /\ [Next]_vars => Inv'
  BY StepInv
<1> QED
  BY <1>1, <1>2, PTL DEF Spec

(* Every variable, and every field of the class, always has its type: the  *)
(* identifiers that addWorkerToPool and runWorker write are numbers, the   *)
(* queue holds payloads, and only calls of clients wait to be enqueued.    *)
THEOREM Typing == Spec => []TypeOK
<1>1. Inv => TypeOK
  BY InvTypeOK
<1> QED
  BY <1>1, InvHolds, PTL

(* For every maxWorkers and every client: whatever the order of replies,   *)
(* errors, late exits, ticks and continuations, workerPoolMap holds        *)
(* maxWorkers entries; handleWorkerError and handleWorkerExit never        *)
(* replace a worker twice or not at all.                                   *)
THEOREM FullStrength == Spec => []PoolAtFullStrength
<1>1. Inv => PoolAtFullStrength
  BY InvWorkers
<1> QED
  BY <1>1, InvHolds, PTL

(* availableWorkers offers a worker if and only if its thread is ready:    *)
(* none twice, none without an entry, none that is busy or dead...         *)
THEOREM OfferedAreReady == Spec => []AvailableWorkersAreReady
<1>1. Inv => AvailableWorkersAreReady
  BY InvWorkers
<1> QED
  BY <1>1, InvHolds, PTL

(* ... and a worker that it does not offer is still at work, so that an    *)
(* event of its thread will bring it back: no capacity is ever lost.       *)
THEOREM NoLostWorker == Spec => []UnavailableWorkersAreWorking
<1>1. Inv => UnavailableWorkersAreWorking
  BY InvWorkers
<1> QED
  BY <1>1, InvHolds, PTL

(* The listeners, which know their worker by its identifier only, never    *)
(* act on the entry of another thread.                                     *)
THEOREM EventsFindTheirEntry == Spec => []EventsReachTheirOwnEntry
<1>1. Inv => EventsReachTheirOwnEntry
  BY InvWorkers
<1> QED
  BY <1>1, InvHolds, PTL

(* runWorker never throws `Worker not found'.                              *)
THEOREM NeverNotFound == Spec => []WorkerAlwaysFound
<1>1. Inv => WorkerAlwaysFound
  BY InvWorkers
<1> QED
  BY <1>1, InvHolds, PTL

-----------------------------------------------------------------------------
(* When runWorker queues a call                                            *)

(* If no worker is on offer, the threads of all entries work; they are     *)
(* different threads, and no other thread works.                           *)
LEMMA NoneOffered ==
    ASSUME PoolOK(pool), pool.available = <<>>
    PROVE  Cardinality({t \in 1..Len(pool.threads) : Working(t)}) = MaxWorkers
<1> DEFINE busy == {t \in 1..Len(pool.threads) : Working(t)}
           f == [w \in DOMAIN pool.map |-> pool.map[w].worker]
<1>1. /\ Consistent(pool, DOMAIN pool.map) /\ PoolType(pool)
      /\ Cardinality(DOMAIN pool.map) = MaxWorkers
  BY DEF PoolOK, Consistent
<1>2. Range(pool.available) = {}
  BY DEF Range
<1>3. \A w \in DOMAIN pool.map :
          f[w] \in 1..Len(pool.threads) /\ pool.threads[f[w]].id = w /\ Working(f[w])
  BY <1>1, <1>2 DEF Consistent, EntryOK, Working
<1>4. \A t \in busy : pool.threads[t].id \in DOMAIN pool.map /\ f[pool.threads[t].id] = t
  BY <1>1 DEF Consistent, Working, Active
<1> HIDE DEF f
<1>5. f \in [DOMAIN pool.map -> busy]
  BY <1>3 DEF f
<1>6. f \in Bijection(DOMAIN pool.map, busy)
  <2>1. \A v, w \in DOMAIN pool.map : f[v] = f[w] => v = w
    BY <1>3
  <2>2. \A t \in busy : \E w \in DOMAIN pool.map : f[w] = t
    BY <1>4
  <2> QED
    BY <1>5, <2>1, <2>2 DEF Bijection, Injection, Surjection, IsInjective
<1>7. Cardinality(busy) = Cardinality(DOMAIN pool.map)
  BY <1>1, <1>6, MapFinite, FS_Bijection DEF ExistsBijection
<1> QED
  BY <1>1, <1>7

(* runWorker queues a call only when maxWorkers threads are at work, for   *)
(* every maxWorkers: no idle worker is passed over.                        *)
THEOREM QueuedOnlyWhenSaturated == Spec => QueuesOnlyWhenSaturated
<1> DEFINE Saturated ==
        \A c \in Calls :
            promise[c] # promise'[c] /\ promise'[c] = "queued" =>
                Cardinality({t \in 1..Len(pool.threads) : Working(t)}) = MaxWorkers
<1>1. Inv /\ [Next]_vars => [Saturated]_vars
  <2> SUFFICES ASSUME Inv, Next, NEW c \in Calls, promise[c] # promise'[c], promise'[c] = "queued"
               PROVE  Cardinality({t \in 1..Len(pool.threads) : Working(t)}) = MaxWorkers
    OBVIOUS
  <2>1. PoolOK(pool) /\ promise \in [Calls -> PromiseStates \ {"rejected"}]
    BY DEF Inv, PromisesOK
  <2>2. ASSUME NEW d \in Calls, RunWorker(d) PROVE pool.available = <<>>
    <3>1. CASE pool.available # <<>>
      <4>1. promise' = [promise EXCEPT ![d] = "running"]
        BY <2>1, <2>2, <3>1, FirstOffered DEF RunWorker
      <4> QED
        BY <2>1, <4>1
    <3> QED
      BY <3>1
  <2>3. ASSUME RanJob PROVE FALSE
    <3> DEFINE d == pool.threads[job.thread].call
    <3>1. promise' = promise \/ promise' = [promise EXCEPT ![d] = "undefined"]
      BY <2>3 DEF RanJob
    <3> HIDE DEF d
    <3> QED
      BY <2>1, <3>1
  <2>4. \E d \in Calls : RunWorker(d)
    BY <2>3 DEF Next, ThreadEvent, WorkerReplies, WorkerThrows, WorkerExits, PollTick, TaskMatures,
                ProcessRejections, Microtask, EnqueueJob, EnqueuedJob, DequeueJob, DequeuedJob,
                PollJob, SettledJob, OperatedJob
  <2> QED
    BY <2>1, <2>2, <2>4, NoneOffered
<1> HIDE DEF Saturated
<1>2. Spec => [][Saturated]_vars
  BY <1>1, InvHolds, PTL DEF Spec
<1> QED
  BY <1>2 DEF Saturated, QueuesOnlyWhenSaturated

-----------------------------------------------------------------------------
(* What the methods do to the threads                                      *)

(* The statuses of a thread that has replied or failed: it will not answer *)
(* a second time.                                                          *)
Answered == {"replaced", "failed", "exited"}

(* Threads keep their task and their call; they may answer, unless they    *)
(* were never sent a task; the threads that are started are ready.         *)
Kept(threads, after) ==
    /\ Len(threads) <= Len(after)
    /\ \A t \in 1..Len(threads) :
          /\ after[t].task = threads[t].task
          /\ after[t].call = threads[t].call
          /\ \/ after[t].status = threads[t].status
             \/ threads[t].status # "ready" /\ after[t].status \in Answered
    /\ \A t \in 1..Len(after) :
          t \notin 1..Len(threads) => after[t].status = "ready" /\ after[t].call = NoCall

(* One ready thread is sent a task on behalf of c.                         *)
Sent(threads, after, c) ==
    /\ Len(after) = Len(threads)
    /\ \E n \in 1..Len(threads) :
          /\ threads[n].status = "ready" /\ after[n].status = "working" /\ after[n].call = c
          /\ \A t \in 1..Len(threads) : t # n => after[t] = threads[t]

(* Keeping the threads is reflexive and transitive.                        *)
LEMMA KeptItself == ASSUME NEW threads \in Seq(ThreadType) PROVE Kept(threads, threads)
BY DEF Kept

LEMMA KeptTwice ==
    ASSUME NEW a \in Seq(ThreadType), NEW b \in Seq(ThreadType), NEW c \in Seq(ThreadType),
           Kept(a, b), Kept(b, c)
    PROVE  Kept(a, c)
<1>1. Len(a) \in Nat /\ Len(b) \in Nat /\ Len(c) \in Nat /\ Len(a) <= Len(b) /\ Len(b) <= Len(c)
  BY DEF Kept
<1>2. ASSUME NEW t \in 1..Len(a)
      PROVE  /\ c[t].task = a[t].task /\ c[t].call = a[t].call
             /\ \/ c[t].status = a[t].status
                \/ a[t].status # "ready" /\ c[t].status \in Answered
  <2>1. t \in 1..Len(b)
    BY <1>1
  <2>2. /\ b[t].task = a[t].task /\ b[t].call = a[t].call
        /\ \/ b[t].status = a[t].status
           \/ a[t].status # "ready" /\ b[t].status \in Answered
    BY DEF Kept
  <2>3. /\ c[t].task = b[t].task /\ c[t].call = b[t].call
        /\ \/ c[t].status = b[t].status
           \/ b[t].status # "ready" /\ c[t].status \in Answered
    BY <2>1 DEF Kept
  <2> QED
    BY <2>2, <2>3, Zenon
<1>3. ASSUME NEW t \in 1..Len(c), t \notin 1..Len(a)
      PROVE  c[t].status = "ready" /\ c[t].call = NoCall
  <2>1. CASE t \in 1..Len(b)
    <3>1. b[t].status = "ready" /\ b[t].call = NoCall
      BY <2>1, <1>3 DEF Kept
    <3>2. c[t].call = b[t].call /\ (c[t].status = b[t].status \/ b[t].status # "ready")
      BY <2>1 DEF Kept
    <3> QED
      BY <3>1, <3>2
  <2>2. CASE t \notin 1..Len(b)
    BY <2>2 DEF Kept
  <2> QED
    BY <2>1, <2>2
<1>4. Len(a) <= Len(c)
  BY <1>1
<1> QED
  BY <1>2, <1>3, <1>4 DEF Kept

(* As much of the type of a pool as its methods need to start threads.     *)
Startable(p) == IsPool(p) /\ p.nextId \in Nat /\ p.threads \in Seq(ThreadType)

(* A pool that a method leaves startable, with all threads kept.           *)
KeptPool(p, q) == Startable(q) /\ Kept(p.threads, q.threads)

(* Each method that starts threads keeps the others.                       *)
LEMMA AddKeeps ==
    ASSUME NEW p, Startable(p), NEW w \in Nat
    PROVE  KeptPool(p, AddWorkerToPool(p, w)) /\ AddWorkerToPool(p, w).nextId = p.nextId
<1> DEFINE q == AddWorkerToPool(p, w)
           thread == NewThread(w)
<1>1. IsPool(q) /\ q.nextId = p.nextId /\ q.threads = Append(p.threads, thread)
  BY AddRecord DEF Startable
<1>2. thread \in ThreadType /\ thread.status = "ready" /\ thread.call = NoCall
  BY DEF NewThread, ThreadType, Statuses
<1> HIDE DEF q, thread
<1>3. p.threads \in Seq(ThreadType) /\ Len(p.threads) \in Nat
  BY DEF Startable
<1>4. /\ q.threads \in Seq(ThreadType) /\ Len(q.threads) = Len(p.threads) + 1
      /\ q.threads[Len(p.threads) + 1] = thread
      /\ \A t \in 1..Len(p.threads) : q.threads[t] = p.threads[t]
  BY <1>1, <1>2, <1>3
<1>5. \A t \in 1..Len(q.threads) : t \notin 1..Len(p.threads) => t = Len(p.threads) + 1
  BY <1>3, <1>4
<1>6. Len(p.threads) <= Len(q.threads)
  BY <1>3, <1>4
<1>7. Kept(p.threads, q.threads)
  BY <1>2, <1>4, <1>5, <1>6 DEF Kept
<1> QED
  BY <1>1, <1>4, <1>7 DEF KeptPool, Startable, q

LEMMA AddNewKeeps ==
    ASSUME NEW p, Startable(p) PROVE KeptPool(p, AddNewWorker(p))
<1> DEFINE q == AddWorkerToPool(p, p.nextId)
           r == AddNewWorker(p)
<1>1. p.nextId \in Nat
  BY DEF Startable
<1>2. KeptPool(p, q) /\ q.nextId = p.nextId
  BY <1>1, AddKeeps
<1>3. r = [q EXCEPT !.nextId = @ + 1]
  BY DEF AddNewWorker
<1> HIDE DEF q, r
<1>4. IsPool(r) /\ r.nextId = q.nextId + 1 /\ r.threads = q.threads
  BY <1>2, <1>3 DEF KeptPool, Startable, IsPool
<1> QED
  BY <1>1, <1>2, <1>4 DEF KeptPool, Startable, r

LEMMA ReplaceKeeps ==
    ASSUME NEW p, Startable(p), NEW w PROVE KeptPool(p, ReplaceWorker(p, w))
<1> DEFINE q == RemoveWorker(p, w)
<1>1. IsPool(q) /\ q.nextId = p.nextId /\ q.threads = p.threads
  BY RemoveRecord DEF Startable
<1>2. ReplaceWorker(p, w) = q \/ ReplaceWorker(p, w) = AddNewWorker(q)
  BY DEF ReplaceWorker
<1> HIDE DEF q
<1>3. Startable(q)
  BY <1>1 DEF Startable
<1>4. KeptPool(q, AddNewWorker(q)) /\ KeptPool(q, q)
  BY <1>3, AddNewKeeps, KeptItself DEF KeptPool, Startable
<1> QED
  BY <1>1, <1>2, <1>4, Zenon DEF KeptPool

(* Two methods in a row.                                                   *)
LEMMA KeptPoolTwice ==
    ASSUME NEW p, NEW q, NEW r, Startable(p), KeptPool(p, q), KeptPool(q, r)
    PROVE  KeptPool(p, r)
BY KeptTwice DEF KeptPool, Startable

(* The listeners of an error or an exit.                                   *)
LEMMA ReplaceTwiceKeeps ==
    ASSUME NEW p, Startable(p), NEW w PROVE KeptPool(p, ReplaceTwice(p, w))
<1> DEFINE q == ReplaceWorker(p, w)
<1>1. KeptPool(p, q)
  BY ReplaceKeeps
<1> HIDE DEF q
<1>2. KeptPool(q, ReplaceWorker(q, w))
  BY <1>1, ReplaceKeeps DEF KeptPool
<1>3. KeptPool(p, ReplaceWorker(q, w))
  BY <1>1, <1>2, KeptPoolTwice
<1> QED
  BY <1>3 DEF ReplaceTwice, q

(* A thread that was sent a task answers, or ends after it failed.         *)
LEMMA AnswerKeeps ==
    ASSUME NEW p, PoolType(p), NEW t \in 1..Len(p.threads), p.threads[t].status # "ready",
           NEW s \in Answered, NEW q, IsPool(q), q.nextId = p.nextId,
           q.threads = SetStatus(p.threads, t, s)
    PROVE  KeptPool(p, q) /\ Len(q.threads) = Len(p.threads) /\ q.threads[t].status = s
<1> DEFINE thread == [p.threads[t] EXCEPT !.status = s]
<1>1. p.threads \in Seq(ThreadType) /\ p.threads[t] \in ThreadType /\ p.nextId \in Nat
  BY ThreadTyped DEF PoolType
<1>2. s \in Statuses
  BY DEF Answered, Statuses
<1>3. /\ q.threads \in Seq(ThreadType) /\ Len(q.threads) = Len(p.threads)
      /\ q.threads[t].status = s
      /\ \A u \in 1..Len(p.threads) : u # t => q.threads[u] = p.threads[u]
  BY <1>2, StatusFields
<1>4. q.threads = [p.threads EXCEPT ![t] = thread]
  BY DEF SetStatus
<1>5. thread.task = p.threads[t].task /\ thread.call = p.threads[t].call
  BY <1>1 DEF ThreadType
<1> HIDE DEF thread
<1>6. q.threads[t] = thread
  BY <1>1, <1>4
<1>7. Len(p.threads) \in Nat
  BY <1>1
<1>8. Kept(p.threads, q.threads)
  BY <1>3, <1>5, <1>6, <1>7 DEF Kept
<1> QED
  BY <1>1, <1>3, <1>8 DEF KeptPool, Startable

-----------------------------------------------------------------------------
(* The calls that threads serve                                            *)

(* A call is served by at most one thread, which no longer works when the  *)
(* promise of the call has settled, and by one as soon as it is running.   *)
ServedOnce(threads, promises) ==
    /\ \A t \in 1..Len(threads) :
          LET c == threads[t].call
          IN  /\ threads[t].status = "ready" => c = NoCall
              /\ c # NoCall =>
                    /\ \A u \in 1..Len(threads) : threads[u].call = c => u = t
                    /\ promises[c] \in {"running", "undefined"}
                    /\ promises[c] = "undefined" => threads[t].status \in Answered
    /\ \A c \in Calls : promises[c] \in {"running", "undefined"} =>
          \E t \in 1..Len(threads) : threads[t].call = c

(* A continuation of an operation is about a thread that has answered.     *)
SettledJobs(threads) ==
    {j \in PendingJobs : j.kind \in {"settled", "operated", "ran"} =>
        j.thread \in 1..Len(threads) /\ threads[j.thread].status \in Answered}

CallsInv ==
    /\ ServedOnce(pool.threads, promise)
    /\ microtasks \in Seq(SettledJobs(pool.threads))

(* The call of a thread, if it has one, is a call of a client.             *)
LEMMA ThreadCall ==
    ASSUME NEW threads \in Seq(ThreadType), NEW t \in 1..Len(threads)
    PROVE  threads[t].call \in Calls \cup {NoCall}
<1>1. threads[t] \in ThreadType
  OBVIOUS
<1> QED
  BY <1>1 DEF ThreadType

(* Threads that are kept serve the calls they served.                      *)
LEMMA KeptServedOnce ==
    ASSUME NEW a \in Seq(ThreadType), NEW b \in Seq(ThreadType), Kept(a, b),
           NEW promises, ServedOnce(a, promises)
    PROVE  ServedOnce(b, promises)
<1>1. Len(a) \in Nat /\ Len(b) \in Nat /\ Len(a) <= Len(b)
  BY DEF Kept
<1>2. \A t \in 1..Len(a) : t \in 1..Len(b)
  BY <1>1
<1>3. \A t \in 1..Len(b) : b[t].call # NoCall => t \in 1..Len(a) /\ a[t].call = b[t].call
  BY DEF Kept
<1>4. ASSUME NEW t \in 1..Len(b), b[t].status = "ready" PROVE b[t].call = NoCall
  <2>1. CASE t \in 1..Len(a)
    <3>1. a[t].status = "ready" /\ a[t].call = b[t].call
      BY <1>4, <2>1 DEF Kept, Answered
    <3> QED
      BY <2>1, <3>1 DEF ServedOnce
  <2>2. CASE t \notin 1..Len(a)
    BY <2>2 DEF Kept
  <2> QED
    BY <2>1, <2>2
<1>5. ASSUME NEW t \in 1..Len(b), b[t].call # NoCall
      PROVE  /\ \A u \in 1..Len(b) : b[u].call = b[t].call => u = t
             /\ promises[b[t].call] \in {"running", "undefined"}
             /\ promises[b[t].call] = "undefined" => b[t].status \in Answered
  <2>1. t \in 1..Len(a) /\ a[t].call = b[t].call
    BY <1>3, <1>5
  <2>2. /\ \A u \in 1..Len(a) : a[u].call = a[t].call => u = t
        /\ promises[a[t].call] \in {"running", "undefined"}
        /\ promises[a[t].call] = "undefined" => a[t].status \in Answered
    BY <1>5, <2>1 DEF ServedOnce
  <2>3. b[t].status = a[t].status \/ b[t].status \in Answered
    BY <2>1 DEF Kept
  <2> QED
    BY <1>3, <1>5, <2>1, <2>2, <2>3
<1>6. ASSUME NEW c \in Calls, promises[c] \in {"running", "undefined"}
      PROVE  \E t \in 1..Len(b) : b[t].call = c
  <2>1. PICK t \in 1..Len(a) : a[t].call = c
    BY <1>6 DEF ServedOnce
  <2> QED
    BY <1>2, <2>1 DEF Kept
<1> QED
  BY <1>4, <1>5, <1>6 DEF ServedOnce

(* A thread is sent a task for a call that no thread serves yet, whose     *)
(* promise runs from then on; c may be a call of processQueue.             *)
LEMMA SentServedOnce ==
    ASSUME NEW a \in Seq(ThreadType), NEW b \in Seq(ThreadType), NEW c, Sent(a, b, c),
           NEW promises, NEW after, ServedOnce(a, promises),
           c \in Calls => promises[c] = "uncalled" /\ after[c] = "running",
           c \notin Calls => c = NoCall,
           \A d \in Calls \ {c} : after[d] = promises[d]
    PROVE  ServedOnce(b, after)
<1>1. Len(a) = Len(b) /\ Len(a) \in Nat
  BY DEF Sent
<1>2. PICK n \in 1..Len(a) :
          /\ a[n].status = "ready" /\ b[n].status = "working" /\ b[n].call = c
          /\ \A t \in 1..Len(a) : t # n => b[t] = a[t]
  BY DEF Sent
<1>3. a[n].call = NoCall
  BY <1>2 DEF ServedOnce
<1>4. \A t \in 1..Len(a) : a[t].call \in Calls \cup {NoCall}
  BY ThreadCall
<1>5. c # NoCall => \A t \in 1..Len(a) : a[t].call # c
  <2> SUFFICES ASSUME c # NoCall, NEW t \in 1..Len(a), a[t].call = c PROVE FALSE
    OBVIOUS
  <2>1. promises[c] \in {"running", "undefined"}
    BY DEF ServedOnce
  <2>2. promises[c] = "uncalled"
    OBVIOUS
  <2> QED
    BY <2>1, <2>2
<1>6. ASSUME NEW t \in 1..Len(b), b[t].status = "ready" PROVE b[t].call = NoCall
  <2>1. t \in 1..Len(a) /\ b[t] = a[t]
    BY <1>1, <1>2, <1>6
  <2> QED
    BY <1>6, <2>1 DEF ServedOnce
<1>7. ASSUME NEW t \in 1..Len(b), b[t].call # NoCall
      PROVE  /\ \A u \in 1..Len(b) : b[u].call = b[t].call => u = t
             /\ after[b[t].call] \in {"running", "undefined"}
             /\ after[b[t].call] = "undefined" => b[t].status \in Answered
  <2>1. CASE t = n
    <3>1. c # NoCall /\ c \in Calls /\ after[c] = "running"
      BY <1>2, <1>7, <2>1
    <3> QED
      BY <1>1, <1>2, <1>5, <2>1, <3>1
  <2>2. CASE t # n
    <3>1. b[t] = a[t] /\ t \in 1..Len(a)
      BY <1>1, <1>2, <2>2
    <3>2. a[t].call \in Calls \ {c}
      BY <1>4, <1>5, <1>7, <3>1
    <3>3. after[a[t].call] = promises[a[t].call]
      BY <3>2
    <3>4. /\ \A u \in 1..Len(a) : a[u].call = a[t].call => u = t
          /\ promises[a[t].call] \in {"running", "undefined"}
          /\ promises[a[t].call] = "undefined" => a[t].status \in Answered
      BY <1>7, <3>1 DEF ServedOnce
    <3> QED
      BY <1>1, <1>2, <3>1, <3>2, <3>3, <3>4
  <2> QED
    BY <2>1, <2>2
<1>8. ASSUME NEW d \in Calls, after[d] \in {"running", "undefined"}
      PROVE  \E t \in 1..Len(b) : b[t].call = d
  <2>1. CASE d = c
    BY <1>1, <1>2, <2>1
  <2>2. CASE d # c
    <3>1. PICK t \in 1..Len(a) : a[t].call = d
      BY <1>8, <2>2 DEF ServedOnce
    <3>2. t # n
      BY <1>3, <3>1, CallsAssumption
    <3> QED
      BY <1>1, <1>2, <3>1, <3>2
  <2> QED
    BY <2>1, <2>2
<1> QED
  BY <1>6, <1>7, <1>8 DEF ServedOnce

(* The continuations stay those of threads that have answered.             *)
LEMMA KeptJobs ==
    ASSUME NEW a \in Seq(ThreadType), NEW b \in Seq(ThreadType),
           Kept(a, b) \/ \E c : Sent(a, b, c)
    PROVE  SettledJobs(a) \subseteq SettledJobs(b)
<1>1. Len(a) \in Nat /\ Len(b) \in Nat /\ Len(a) <= Len(b)
  BY DEF Kept, Sent
<1>2. ASSUME NEW t \in 1..Len(a), a[t].status \in Answered
      PROVE  t \in 1..Len(b) /\ b[t].status \in Answered
  <2>1. b[t].status \in Answered
    BY <1>2 DEF Kept, Sent, Answered
  <2> QED
    BY <1>1, <2>1
<1> QED
  BY <1>2 DEF SettledJobs

(* The continuations that are not about a thread.                          *)
LEMMA OtherJobs ==
    ASSUME NEW threads, NEW j \in PendingJobs, j.kind \notin {"settled", "operated", "ran"}
    PROVE  j \in SettledJobs(threads)
BY DEF SettledJobs

(* processQueue asks for a task, or for nothing.                           *)
LEMMA QueueJobs ==
    ASSUME NEW threads
    PROVE  \A p : ProcessQueue(p) \in Seq(SettledJobs(threads))
<1>1. Job("dequeue") \in PendingJobs /\ Job("dequeue").kind = "dequeue"
  BY JobsTyped DEF JobKinds, Job
<1>2. Job("dequeue") \in SettledJobs(threads)
  BY <1>1, OtherJobs
<1> HIDE DEF Job
<1>3. <<Job("dequeue")>> \in Seq(SettledJobs(threads)) /\ << >> \in Seq(SettledJobs(threads))
  BY <1>2
<1> QED
  BY <1>3 DEF ProcessQueue

(* The continuations about a thread that has answered.                     *)
LEMMA ThreadJobs ==
    ASSUME NEW threads, NEW t \in 1..Len(threads), t \in Nat, threads[t].status \in Answered
    PROVE  \A kind \in {"settled", "operated", "ran"} : ThreadJob(kind, t) \in SettledJobs(threads)
<1> SUFFICES ASSUME NEW kind \in {"settled", "operated", "ran"}
             PROVE  ThreadJob(kind, t) \in SettledJobs(threads)
  OBVIOUS
<1>1. ThreadJob(kind, t) \in PendingJobs
  BY JobsTyped DEF JobKinds
<1>2. ThreadJob(kind, t).thread = t
  BY DEF ThreadJob, Job
<1> QED
  BY <1>1, <1>2 DEF SettledJobs

-----------------------------------------------------------------------------
(* Each action preserves it                                                *)

(* No call was made when the pool is set up.                               *)
LEMMA InitCalls == ASSUME Init PROVE CallsInv
<1>1. /\ pool.threads = [t \in 1..MaxWorkers |-> NewThread(t - 1)]
      /\ promise = [c \in Calls |-> "uncalled"] /\ microtasks = <<>>
  BY DEF Init, InitialPool
<1>2. Len(pool.threads) = MaxWorkers
  BY <1>1, MaxWorkersAssumption
<1>3. \A t \in 1..MaxWorkers : pool.threads[t].status = "ready" /\ pool.threads[t].call = NoCall
  BY <1>1 DEF NewThread
<1>4. \A c \in Calls : promise[c] = "uncalled"
  BY <1>1
<1>5. ServedOnce(pool.threads, promise)
  BY <1>2, <1>3, <1>4 DEF ServedOnce
<1>6. microtasks \in Seq(SettledJobs(pool.threads))
  BY <1>1
<1> QED
  BY <1>5, <1>6 DEF CallsInv

(* What the invariant says of the pool.                                    *)
LEMMA InvThreads ==
    ASSUME Inv
    PROVE  PoolType(pool) /\ Startable(pool) /\ pool.threads \in Seq(ThreadType)
<1>1. PoolType(pool)
  BY DEF Inv, PoolOK, Consistent
<1> QED
  BY <1>1 DEF PoolType, Startable

(* A step that only keeps threads preserves the invariant, if the jobs it  *)
(* adds are those of threads that have answered.                           *)
LEMMA KeptStep ==
    ASSUME Inv, CallsInv, KeptPool(pool, pool'), promise' = promise,
           microtasks' \in Seq(SettledJobs(pool'.threads))
    PROVE  CallsInv'
<1>1. pool.threads \in Seq(ThreadType)
  BY InvThreads
<1>2. pool'.threads \in Seq(ThreadType) /\ Kept(pool.threads, pool'.threads)
  BY DEF KeptPool, Startable
<1>3. ServedOnce(pool'.threads, promise)
  BY <1>1, <1>2, KeptServedOnce DEF CallsInv
<1> QED
  BY <1>3 DEF CallsInv

(* A ready thread is sent a task.                                          *)
LEMMA TaskSent ==
    ASSUME NEW p, PoolType(p), NEW n \in 1..Len(p.threads), p.threads[n].status = "ready",
           NEW task \in Tasks, NEW c \in Calls \cup {NoCall},
           NEW threads, threads = SetTask(p.threads, n, task, c)
    PROVE  Sent(p.threads, threads, c) /\ threads \in Seq(ThreadType)
<1>1. /\ threads \in Seq(ThreadType) /\ Len(threads) = Len(p.threads)
      /\ threads[n].status = "working" /\ threads[n].call = c
      /\ \A u \in 1..Len(p.threads) : u # n => threads[u] = p.threads[u]
  BY TaskFields
<1> QED
  BY <1>1 DEF Sent

(* The operation that runWorker performs sends the task to the thread of   *)
(* the worker it chose...                                                  *)
LEMMA PerformSends ==
    ASSUME NEW p, PoolOK(p), NEW w \in Range(p.available),
           NEW task \in Tasks, NEW c \in Calls \cup {NoCall}
    PROVE  LET q == PerformOperation(p, w, task, c)
           IN  Sent(p.threads, q.threads, c) /\ q.threads \in Seq(ThreadType)
<1> DEFINE q == PerformOperation(p, w, task, c)
           n == p.map[w].worker
<1>1. PoolType(p) /\ Consistent(p, DOMAIN p.map) /\ w \in DOMAIN p.map
  BY DEF PoolOK, Consistent
<1>2. n \in 1..Len(p.threads) /\ p.threads[n].status = "ready"
  BY <1>1 DEF Consistent, EntryOK
<1>3. q.threads = SetTask(p.threads, n, task, c)
  BY <1>1 DEF PerformOperation, PoolType, IsPool, SetTask
<1> HIDE DEF q, n
<1> QED
  BY <1>1, <1>2, <1>3, TaskSent DEF q

(* ... which is the first worker on offer.                                 *)
LEMMA PostSends ==
    ASSUME Inv, NEW task \in Tasks, NEW c \in Calls \cup {NoCall}, NEW jobs,
           pool.available # <<>>, Post(FirstAvailable, task, c, jobs)
    PROVE  /\ Sent(pool.threads, pool'.threads, c) /\ pool'.threads \in Seq(ThreadType)
           /\ microtasks' = jobs
<1>1. PoolOK(pool) /\ FirstAvailable \in Range(pool.available)
  BY FirstOffered DEF Inv
<1>2. pool' = PerformOperation(pool, FirstAvailable, task, c) /\ microtasks' = jobs
  BY DEF Post
<1> QED
  BY <1>1, <1>2, PerformSends

(* runWorker queues the call or posts it to a thread that was ready.       *)
LEMMA RunWorkerCalls == ASSUME Inv, CallsInv, NEW c \in Calls, RunWorker(c) PROVE CallsInv'
<1>1. /\ pool.threads \in Seq(ThreadType) /\ PoolOK(pool)
      /\ promise \in [Calls -> PromiseStates] /\ promise[c] = "uncalled"
  BY InvThreads DEF Inv, PromisesOK, RunWorker
<1>2. ServedOnce(pool.threads, promise) /\ microtasks \in Seq(SettledJobs(pool.threads))
  BY DEF CallsInv
<1>3. CASE pool.available = <<>>
  <2>1. /\ pool' = pool /\ microtasks' = Append(microtasks, CallJob("enqueue", c))
        /\ promise' = [promise EXCEPT ![c] = "queued"]
    BY <1>3 DEF RunWorker
  <2>2. ServedOnce(pool.threads, promise')
    <3>1. promise'[c] = "queued" /\ \A d \in Calls : d # c => promise'[d] = promise[d]
      BY <1>1, <2>1
    <3>2. ASSUME NEW t \in 1..Len(pool.threads), pool.threads[t].call # NoCall
          PROVE  promise'[pool.threads[t].call] = promise[pool.threads[t].call]
      <4>1. pool.threads[t].call \in Calls
        BY <1>1, <3>2, ThreadCall
      <4>2. promise[pool.threads[t].call] \in {"running", "undefined"}
        BY <1>2, <3>2 DEF ServedOnce
      <4> QED
        BY <1>1, <3>1, <4>1, <4>2
    <3>3. \A d \in Calls : promise'[d] \in {"running", "undefined"} => promise'[d] = promise[d]
      BY <3>1
    <3> QED
      BY <1>2, <3>2, <3>3 DEF ServedOnce
  <2>3. CallJob("enqueue", c) \in SettledJobs(pool.threads)
    <3>1. CallJob("enqueue", c) \in PendingJobs /\ CallJob("enqueue", c).kind = "enqueue"
      BY JobsTyped DEF CallJob, Job
    <3> QED
      BY <3>1, OtherJobs
  <2>4. microtasks' \in Seq(SettledJobs(pool.threads))
    BY <1>2, <2>1, <2>3
  <2> QED
    BY <2>1, <2>2, <2>4 DEF CallsInv
<1>4. CASE pool.available # <<>>
  <2>1. FirstAvailable \in DOMAIN pool.map
    BY <1>1, <1>4, FirstOffered
  <2>2. /\ Post(FirstAvailable, DataOf[c], c, microtasks)
        /\ promise' = [promise EXCEPT ![c] = "running"]
    BY <1>4, <2>1 DEF RunWorker
  <2>3. DataOf[c] \in Tasks
    BY CallsAssumption
  <2>4. /\ Sent(pool.threads, pool'.threads, c) /\ pool'.threads \in Seq(ThreadType)
        /\ microtasks' = microtasks
    BY <1>4, <2>2, <2>3, PostSends
  <2>5. ServedOnce(pool'.threads, promise')
    <3>1. promise'[c] = "running" /\ \A d \in Calls \ {c} : promise'[d] = promise[d]
      BY <1>1, <2>2
    <3> QED
      BY <1>1, <1>2, <2>4, <3>1, SentServedOnce
  <2>6. microtasks' \in Seq(SettledJobs(pool'.threads))
    BY <1>1, <1>2, <2>4, KeptJobs
  <2> QED
    BY <2>5, <2>6 DEF CallsInv
<1> QED
  BY <1>3, <1>4

(* The operators of a reply, which leave thread t answered.                *)
LEMMA ReplyKeeps ==
    ASSUME Inv, NEW t \in DOMAIN pool.threads, WorkerReplies(t)
    PROVE  /\ KeptPool(pool, pool')
           /\ t \in 1..Len(pool'.threads) /\ pool'.threads[t].status \in Answered
<1> DEFINE w == pool.threads[t].id
           listened == InitListener(pool, w)
           replied == [listened EXCEPT !.threads[t].status = "replaced"]
<1>1. PoolType(pool) /\ Startable(pool) /\ t \in 1..Len(pool.threads)
  BY InvThreads DEF PoolType
<1>2. pool' = AddWorkerToPool(replied, w) /\ pool.threads[t].status = "working"
  BY DEF WorkerReplies, Working
<1>3. w \in Nat
  BY <1>1, ThreadTyped
<1>4. IsPool(listened) /\ listened.nextId = pool.nextId /\ listened.threads = pool.threads
  BY <1>1 DEF InitListener, PoolType, IsPool
<1> HIDE DEF listened
<1>5. /\ IsPool(replied) /\ replied.nextId = pool.nextId
      /\ replied.threads = SetStatus(pool.threads, t, "replaced")
  BY <1>4 DEF IsPool, SetStatus
<1> HIDE DEF replied, w
<1>6. /\ KeptPool(pool, replied) /\ Len(replied.threads) = Len(pool.threads)
      /\ replied.threads[t].status = "replaced"
  <2>1. "replaced" \in Answered
    BY DEF Answered
  <2> QED
    BY <1>1, <1>2, <1>5, <2>1, AnswerKeeps
<1>7. KeptPool(replied, pool')
  BY <1>2, <1>3, <1>6, AddKeeps DEF KeptPool
<1>8. KeptPool(pool, pool')
  BY <1>1, <1>6, <1>7, KeptPoolTwice
<1>9. Len(pool.threads) \in Nat /\ Len(pool'.threads) \in Nat /\ Len(pool.threads) <= Len(pool'.threads)
  BY <1>1, <1>8 DEF Startable, KeptPool, Kept
<1>10. pool'.threads[t].status \in Answered
  BY <1>1, <1>6, <1>7 DEF KeptPool, Kept, Answered
<1> QED
  BY <1>1, <1>8, <1>9, <1>10

LEMMA RepliesCalls ==
    ASSUME Inv, CallsInv, NEW t \in DOMAIN pool.threads, WorkerReplies(t) PROVE CallsInv'
<1>1. /\ KeptPool(pool, pool') /\ t \in 1..Len(pool'.threads)
      /\ pool'.threads[t].status \in Answered /\ promise' = promise
  BY ReplyKeeps DEF WorkerReplies
<1> DEFINE asked == ProcessQueue(InitListener(pool, pool.threads[t].id))
<1>2. microtasks' = asked \o <<ThreadJob("settled", t)>>
  BY DEF WorkerReplies
<1>3. asked \in Seq(SettledJobs(pool'.threads))
  BY QueueJobs
<1>4. ThreadJob("settled", t) \in SettledJobs(pool'.threads)
  BY <1>1, ThreadJobs
<1> HIDE DEF asked
<1>5. microtasks' \in Seq(SettledJobs(pool'.threads))
  BY <1>2, <1>3, <1>4
<1> QED
  BY <1>1, <1>5, KeptStep

(* A throw, with the exit that may come in the same turn.                  *)
LEMMA ThrowKeeps ==
    ASSUME Inv, NEW t \in DOMAIN pool.threads, NEW exits \in BOOLEAN, WorkerThrows(t, exits)
    PROVE  /\ KeptPool(pool, pool')
           /\ t \in 1..Len(pool'.threads) /\ pool'.threads[t].status \in Answered
<1> DEFINE w == pool.threads[t].id
           s == IF exits THEN "exited" ELSE "failed"
           failed == [pool EXCEPT !.threads[t].status = s]
           after == ReplaceTwice(failed, w)
<1>1. PoolType(pool) /\ Startable(pool) /\ IsPool(pool) /\ t \in 1..Len(pool.threads)
  BY InvThreads DEF PoolType
<1>2. /\ pool' = IF exits THEN ReplaceTwice(after, w) ELSE after
      /\ pool.threads[t].status = "working"
  BY DEF WorkerThrows, Working
<1>3. s \in Answered
  BY DEF Answered
<1> HIDE DEF s
<1>4. /\ IsPool(failed) /\ failed.nextId = pool.nextId
      /\ failed.threads = SetStatus(pool.threads, t, s)
  BY <1>1 DEF IsPool, SetStatus
<1> HIDE DEF failed, w
<1>5. /\ KeptPool(pool, failed) /\ Len(failed.threads) = Len(pool.threads)
      /\ failed.threads[t].status = s
  BY <1>1, <1>2, <1>3, <1>4, AnswerKeeps
<1>6. KeptPool(failed, after)
  BY <1>5, ReplaceTwiceKeeps DEF KeptPool
<1> HIDE DEF after
<1>7. KeptPool(after, ReplaceTwice(after, w))
  BY <1>6, ReplaceTwiceKeeps DEF KeptPool
<1>8. KeptPool(failed, pool')
  BY <1>2, <1>5, <1>6, <1>7, KeptPoolTwice DEF KeptPool
<1>9. KeptPool(pool, pool')
  BY <1>1, <1>5, <1>8, KeptPoolTwice
<1>10. Len(pool.threads) \in Nat /\ Len(pool'.threads) \in Nat /\ Len(pool.threads) <= Len(pool'.threads)
  BY <1>1, <1>9 DEF Startable, KeptPool, Kept
<1>11. pool'.threads[t].status \in Answered
  BY <1>1, <1>3, <1>5, <1>8 DEF KeptPool, Kept
<1> QED
  BY <1>1, <1>9, <1>10, <1>11

LEMMA ThrowsCalls ==
    ASSUME Inv, CallsInv, NEW t \in DOMAIN pool.threads, NEW exits \in BOOLEAN, WorkerThrows(t, exits)
    PROVE  CallsInv'
<1>1. /\ KeptPool(pool, pool') /\ t \in 1..Len(pool'.threads)
      /\ pool'.threads[t].status \in Answered /\ promise' = promise
  BY ThrowKeeps DEF WorkerThrows
<1> DEFINE w == pool.threads[t].id
           failed == [pool EXCEPT !.threads[t].status = IF exits THEN "exited" ELSE "failed"]
           onError == ProcessQueueTwice(failed, w)
           onExit == IF exits THEN ProcessQueueTwice(ReplaceTwice(failed, w), w) ELSE <<>>
           Jobs == SettledJobs(pool'.threads)
<1>2. microtasks' = onError \o <<ThreadJob("settled", t)>> \o onExit
  BY DEF WorkerThrows
<1>3. \A p, v : ProcessQueueTwice(p, v) \in Seq(Jobs)
  <2>1. \A p : ProcessQueue(p) \in Seq(Jobs)
    BY QueueJobs
  <2> HIDE DEF Jobs
  <2> QED
    BY <2>1 DEF ProcessQueueTwice
<1>4. ThreadJob("settled", t) \in Jobs
  BY <1>1, ThreadJobs
<1> HIDE DEF failed, w
<1>5. onError \in Seq(Jobs) /\ onExit \in Seq(Jobs)
  <2> HIDE DEF Jobs
  <2> QED
    BY <1>3
<1> HIDE DEF onError, onExit, Jobs
<1>6. microtasks' \in Seq(Jobs)
  BY <1>2, <1>4, <1>5
<1> QED
  BY <1>1, <1>6, KeptStep DEF Jobs

(* An exit that comes later than the error.                                *)
LEMMA ExitKeeps ==
    ASSUME Inv, NEW t \in DOMAIN pool.threads, WorkerExits(t) PROVE KeptPool(pool, pool')
<1> DEFINE w == pool.threads[t].id
           exited == [pool EXCEPT !.threads[t].status = "exited"]
<1>1. PoolType(pool) /\ Startable(pool) /\ IsPool(pool) /\ t \in 1..Len(pool.threads)
  BY InvThreads DEF PoolType
<1>2. pool' = ReplaceTwice(exited, w) /\ pool.threads[t].status = "failed"
  BY DEF WorkerExits
<1>3. /\ IsPool(exited) /\ exited.nextId = pool.nextId
      /\ exited.threads = SetStatus(pool.threads, t, "exited")
  BY <1>1 DEF IsPool, SetStatus
<1> HIDE DEF exited, w
<1>4. "exited" \in Answered
  BY DEF Answered
<1>5. KeptPool(pool, exited)
  BY <1>1, <1>2, <1>3, <1>4, AnswerKeeps
<1>6. KeptPool(exited, pool')
  BY <1>2, <1>5, ReplaceTwiceKeeps DEF KeptPool
<1> QED
  BY <1>1, <1>5, <1>6, KeptPoolTwice

LEMMA ExitsCalls ==
    ASSUME Inv, CallsInv, NEW t \in DOMAIN pool.threads, WorkerExits(t) PROVE CallsInv'
<1>1. KeptPool(pool, pool') /\ promise' = promise
  BY ExitKeeps DEF WorkerExits
<1> DEFINE w == pool.threads[t].id
           exited == [pool EXCEPT !.threads[t].status = "exited"]
           Jobs == SettledJobs(pool'.threads)
<1>2. microtasks' = ProcessQueueTwice(exited, w)
  BY DEF WorkerExits
<1>3. \A p : ProcessQueue(p) \in Seq(Jobs)
  BY QueueJobs
<1> HIDE DEF Jobs, exited, w
<1>4. microtasks' \in Seq(Jobs)
  BY <1>2, <1>3 DEF ProcessQueueTwice
<1> QED
  BY <1>1, <1>4, KeptStep DEF Jobs

(* Ticks, rejections, tasks that mature, and the continuations that leave  *)
(* the threads and the promises alone.                                     *)
LEMMA UntouchedThreads ==
    ASSUME Inv, CallsInv, pool'.threads = pool.threads, promise' = promise,
           NEW more \in Seq(SettledJobs(pool.threads)),
           \/ microtasks' = microtasks
           \/ microtasks' = more
           \/ microtasks # <<>> /\ microtasks' = Tail(microtasks) \o more
    PROVE  CallsInv'
<1>1. microtasks \in Seq(SettledJobs(pool.threads)) /\ ServedOnce(pool.threads, promise)
  BY DEF CallsInv
<1> DEFINE Jobs == SettledJobs(pool.threads)
<1>2. microtasks' \in Seq(Jobs)
  <2>1. microtasks \in Seq(Jobs) /\ more \in Seq(Jobs)
    BY <1>1
  <2> HIDE DEF Jobs
  <2>2. microtasks # <<>> => Tail(microtasks) \in Seq(Jobs)
    BY <2>1
  <2>3. ASSUME NEW rest \in Seq(Jobs) PROVE rest \o more \in Seq(Jobs)
    BY <2>1
  <2> QED
    BY <2>1, <2>2, <2>3, Zenon
<1> QED
  BY <1>1, <1>2 DEF CallsInv

(* The continuation at the head of the queue is one of these.              *)
LEMMA HeadSettled ==
    ASSUME CallsInv, microtasks # <<>>
    PROVE  /\ job \in SettledJobs(pool.threads)
           /\ Tail(microtasks) \in Seq(SettledJobs(pool.threads))
<1> DEFINE Jobs == SettledJobs(pool.threads)
<1>1. microtasks \in Seq(Jobs)
  BY DEF CallsInv
<1> HIDE DEF Jobs
<1>2. Head(microtasks) \in Jobs /\ Tail(microtasks) \in Seq(Jobs)
  BY <1>1
<1> QED
  BY <1>2 DEF job, Jobs

(* Timers, and Node's report of unhandled rejections.                      *)
LEMMA TimersCalls ==
    ASSUME Inv, CallsInv, PollTick \/ ProcessRejections \/ \E task \in taskQueue.queued : TaskMatures(task)
    PROVE  CallsInv'
<1>1. Job("poll") \in SettledJobs(pool.threads)
  <2>1. Job("poll") \in PendingJobs /\ Job("poll").kind = "poll"
    BY JobsTyped DEF JobKinds, Job
  <2> QED
    BY <2>1, OtherJobs
<1> HIDE DEF Job
<1>2. <<Job("poll")>> \in Seq(SettledJobs(pool.threads))
  BY <1>1
<1>3. /\ pool' = pool /\ promise' = promise
      /\ microtasks' = microtasks \/ microtasks' = <<Job("poll")>>
  BY DEF PollTick, ProcessRejections, TaskMatures
<1> QED
  BY <1>2, <1>3, UntouchedThreads

(* The microtasks of the queue's methods.                                  *)
LEMMA QueueJobsCalls ==
    ASSUME Inv, CallsInv, EnqueueJob \/ EnqueuedJob \/ DequeueJob \/ PollJob PROVE CallsInv'
<1> DEFINE Jobs == SettledJobs(pool.threads)
<1>1. QueueOK
  BY DEF Inv
<1>2. /\ pool' = pool /\ promise' = promise /\ microtasks # <<>>
  BY DEF EnqueueJob, EnqueuedJob, DequeueJob, PollJob, Pending
<1>3. Tail(microtasks) \in Seq(Jobs)
  BY <1>2, HeadSettled
<1>4. CASE EnqueueJob
  <2>1. Job("enqueued") \in Jobs
    <3>1. Job("enqueued") \in PendingJobs /\ Job("enqueued").kind = "enqueued"
      BY JobsTyped DEF JobKinds, Job
    <3> QED
      BY <3>1, OtherJobs
  <2>2. microtasks' = Append(Tail(microtasks), Job("enqueued"))
    BY <1>4 DEF EnqueueJob
  <2> HIDE DEF Jobs, Job
  <2>3. microtasks' \in Seq(Jobs)
    BY <1>3, <2>1, <2>2
  <2> QED
    BY <1>2, <2>3, UntouchedThreads DEF Jobs
<1>5. CASE EnqueuedJob
  <2>1. ProcessQueue(pool) \in Seq(Jobs) /\ microtasks' = Tail(microtasks) \o ProcessQueue(pool)
    BY <1>5, QueueJobs DEF EnqueuedJob
  <2> QED
    BY <1>2, <2>1, UntouchedThreads
<1>6. CASE DequeueJob
  <2>1. PICK outcome \in Queue!DequeueOutcomes(taskQueue) :
            microtasks' = Append(Tail(microtasks), TaskJob("dequeued", outcome.task))
    BY <1>6 DEF DequeueJob
  <2> DEFINE next == TaskJob("dequeued", outcome.task)
  <2>2. next \in Jobs
    <3>1. outcome.task \in Tasks \cup {NoTask}
      BY <1>1, <2>1 DEF Queue!DequeueOutcomes, Queue!Without, Queue!Queues, QueueOK
    <3>2. next \in PendingJobs /\ next.kind = "dequeued"
      BY <3>1, JobsTyped DEF TaskJob, Job
    <3> QED
      BY <3>2, OtherJobs
  <2> HIDE DEF Jobs, next
  <2>3. microtasks' \in Seq(Jobs)
    BY <1>3, <2>1, <2>2 DEF next
  <2> QED
    BY <1>2, <2>3, UntouchedThreads DEF Jobs
<1>7. CASE PollJob
  <2>1. microtasks' = Tail(microtasks)
    BY <1>7 DEF PollJob
  <2> QED
    BY <1>2, <1>3, <2>1, UntouchedThreads
<1> QED
  BY <1>4, <1>5, <1>6, <1>7

(* A task that processQueue takes out is posted for nobody.                *)
LEMMA DequeuedCalls == ASSUME Inv, CallsInv, DequeuedJob PROVE CallsInv'
<1>1. microtasks # <<>> /\ promise' = promise /\ job \in PendingJobs
  <2>1. microtasks # <<>> /\ promise' = promise
    BY DEF DequeuedJob, Pending
  <2> QED
    BY <2>1, HeadJob DEF Inv
<1>2. Tail(microtasks) \in Seq(SettledJobs(pool.threads))
  BY <1>1, HeadSettled
<1>3. CASE microtasks' = Tail(microtasks) /\ UNCHANGED <<pool, unhandled>>
  BY <1>1, <1>2, <1>3, UntouchedThreads
<1>4. CASE /\ job.task # NoTask /\ pool.available # <<>>
           /\ Post(FirstAvailable, job.task, NoCall, Tail(microtasks))
  <2>1. job.task \in Tasks
    BY <1>1, <1>4 DEF PendingJobs, JobType
  <2>2. /\ Sent(pool.threads, pool'.threads, NoCall) /\ pool'.threads \in Seq(ThreadType)
        /\ microtasks' = Tail(microtasks)
    BY <1>4, <2>1, PostSends
  <2>3. pool.threads \in Seq(ThreadType) /\ ServedOnce(pool.threads, promise)
    BY InvThreads DEF CallsInv
  <2>4. ServedOnce(pool'.threads, promise)
    BY <2>2, <2>3, CallsAssumption, SentServedOnce
  <2>5. microtasks' \in Seq(SettledJobs(pool'.threads))
    BY <1>2, <2>2, <2>3, KeptJobs
  <2> QED
    BY <1>1, <2>4, <2>5 DEF CallsInv
<1> QED
  BY <1>3, <1>4 DEF DequeuedJob

(* incrementVersion changes no thread.                                     *)
LEMMA VersionKeeps ==
    ASSUME Inv, NEW w PROVE IncrementVersion(pool, w).threads = pool.threads
<1>1. IsPool(pool)
  BY InvThreads DEF PoolType
<1> QED
  BY <1>1 DEF IncrementVersion, IsPool

(* The promise of a call settles in RanJob, whose thread has answered.     *)
LEMMA OperationCalls ==
    ASSUME Inv, CallsInv, SettledJob \/ OperatedJob \/ RanJob PROVE CallsInv'
<1> DEFINE Jobs == SettledJobs(pool.threads)
           t == job.thread
           c == pool.threads[t].call
<1>1. microtasks # <<>> /\ job.kind \in {"settled", "operated", "ran"}
  BY DEF SettledJob, OperatedJob, RanJob, Pending, job
<1>2. job \in Jobs /\ Tail(microtasks) \in Seq(Jobs)
  BY <1>1, HeadSettled
<1>3. t \in 1..Len(pool.threads) /\ pool.threads[t].status \in Answered /\ t \in Nat
  <2>1. t \in 1..Len(pool.threads) /\ pool.threads[t].status \in Answered
    BY <1>1, <1>2 DEF SettledJobs
  <2> QED
    BY <2>1
<1>4. \A kind \in {"settled", "operated", "ran"} : ThreadJob(kind, t) \in Jobs
  BY <1>3, ThreadJobs
<1>5. CASE SettledJob \/ OperatedJob
  <2>1. pool'.threads = pool.threads /\ promise' = promise
    BY <1>5, VersionKeeps DEF SettledJob, OperatedJob
  <2>2. PICK kind \in {"operated", "ran"} : microtasks' = Append(Tail(microtasks), ThreadJob(kind, t))
    BY <1>5 DEF SettledJob, OperatedJob
  <2>3. ThreadJob(kind, t) \in Jobs
    BY <1>4
  <2> HIDE DEF Jobs
  <2>4. microtasks' \in Seq(Jobs)
    BY <1>2, <2>2, <2>3
  <2> QED
    BY <2>1, <2>4, UntouchedThreads DEF Jobs
<1>6. CASE RanJob
  <2>1. /\ pool' = pool
        /\ microtasks' = Tail(microtasks) \o ProcessQueue(pool)
        /\ promise' = IF c = NoCall THEN promise ELSE [promise EXCEPT ![c] = "undefined"]
    BY <1>6 DEF RanJob
  <2>2. ProcessQueue(pool) \in Seq(Jobs)
    BY QueueJobs
  <2>3. microtasks' \in Seq(Jobs)
    <3> DEFINE asked == ProcessQueue(pool)
    <3> HIDE DEF Jobs, asked
    <3>1. asked \in Seq(Jobs)
      BY <2>2 DEF asked
    <3> QED
      BY <1>2, <2>1, <3>1 DEF asked
  <2>4. ServedOnce(pool.threads, promise) /\ pool.threads \in Seq(ThreadType)
        /\ promise \in [Calls -> PromiseStates]
    BY InvThreads DEF CallsInv, Inv, PromisesOK
  <2>5. ServedOnce(pool.threads, promise')
    <3>1. CASE c = NoCall
      BY <2>1, <2>4, <3>1
    <3>2. CASE c # NoCall
      <4>1. c \in Calls /\ promise[c] \in {"running", "undefined"}
        <5>1. c \in Calls
          BY <1>3, <2>4, <3>2, ThreadCall
        <5> QED
          BY <1>3, <2>4, <3>2, <5>1 DEF ServedOnce
      <4>2. promise'[c] = "undefined" /\ \A d \in Calls : d # c => promise'[d] = promise[d]
        BY <2>1, <2>4, <3>2, <4>1
      <4>3. ASSUME NEW u \in 1..Len(pool.threads), pool.threads[u].call # NoCall
            PROVE  /\ \A v \in 1..Len(pool.threads) : pool.threads[v].call = pool.threads[u].call => v = u
                   /\ promise'[pool.threads[u].call] \in {"running", "undefined"}
                   /\ promise'[pool.threads[u].call] = "undefined" => pool.threads[u].status \in Answered
        <5>1. pool.threads[u].call \in Calls
          BY <2>4, <4>3, ThreadCall
        <5>2. /\ \A v \in 1..Len(pool.threads) : pool.threads[v].call = pool.threads[u].call => v = u
              /\ promise[pool.threads[u].call] \in {"running", "undefined"}
              /\ promise[pool.threads[u].call] = "undefined" => pool.threads[u].status \in Answered
          BY <2>4, <4>3 DEF ServedOnce
        <5>3. CASE pool.threads[u].call = c
          BY <1>3, <4>2, <5>2, <5>3
        <5>4. CASE pool.threads[u].call # c
          BY <4>2, <5>1, <5>2, <5>4
        <5> QED
          BY <5>3, <5>4
      <4>4. \A d \in Calls : promise'[d] \in {"running", "undefined"} =>
                promise[d] \in {"running", "undefined"}
        BY <4>1, <4>2
      <4>5. \A u \in 1..Len(pool.threads) :
                pool.threads[u].status = "ready" => pool.threads[u].call = NoCall
        BY <2>4 DEF ServedOnce
      <4>6. \A d \in Calls : promise'[d] \in {"running", "undefined"} =>
                \E u \in 1..Len(pool.threads) : pool.threads[u].call = d
        BY <2>4, <4>4 DEF ServedOnce
      <4> HIDE DEF c
      <4> QED
        BY <4>3, <4>5, <4>6 DEF ServedOnce
    <3> QED
      BY <3>1, <3>2
  <2> QED
    BY <2>1, <2>3, <2>5 DEF CallsInv
<1> QED
  BY <1>5, <1>6

(* Every step of the pool preserves the invariant of the calls.            *)
LEMMA StepCalls == ASSUME Inv, CallsInv, [Next]_vars PROVE CallsInv'
<1>1. CASE UNCHANGED vars
  BY <1>1 DEF vars, CallsInv
<1>2. CASE Next
  <2>1. ASSUME NEW c \in Calls, RunWorker(c) PROVE CallsInv'
    BY <2>1, RunWorkerCalls
  <2>2. ASSUME NEW t \in DOMAIN pool.threads, ThreadEvent(t) PROVE CallsInv'
    BY <2>2, RepliesCalls, ThrowsCalls, ExitsCalls DEF ThreadEvent
  <2>3. CASE PollTick \/ ProcessRejections \/ \E task \in taskQueue.queued : TaskMatures(task)
    BY <2>3, TimersCalls
  <2>4. CASE Microtask
    BY <2>4, QueueJobsCalls, DequeuedCalls, OperationCalls DEF Microtask
  <2> QED
    BY <1>2, <2>1, <2>2, <2>3, <2>4 DEF Next
<1> QED
  BY <1>1, <1>2

(* A client call runs on at most one thread, is never rejected, and its    *)
(* promise settles after its thread has replied or failed, for every       *)
(* number of calls and workers.                                            *)
THEOREM CallsRunOnce == Spec => []CallsRunOnceAndSettleAfter
<1>1. Inv /\ CallsInv => CallsRunOnceAndSettleAfter
  <2> SUFFICES ASSUME Inv, CallsInv PROVE CallsRunOnceAndSettleAfter
    OBVIOUS
  <2>1. ServedOnce(pool.threads, promise) /\ promise \in [Calls -> PromiseStates \ {"rejected"}]
    BY DEF CallsInv, Inv, PromisesOK
  <2>2. ASSUME NEW c \in Calls
        PROVE  LET serving == {t \in 1..Len(pool.threads) : pool.threads[t].call = c}
               IN  /\ promise[c] # "rejected"
                   /\ Cardinality(serving) <= 1
                   /\ promise[c] = "undefined" => \A t \in serving : ~Working(t)
                   /\ promise[c] \in {"running", "undefined"} => serving # {}
    <3> DEFINE serving == {t \in 1..Len(pool.threads) : pool.threads[t].call = c}
    <3>1. c # NoCall /\ promise[c] # "rejected"
      BY <2>1, CallsAssumption
    <3>2. \A t, u \in serving : u = t
      BY <2>1, <3>1 DEF ServedOnce
    <3>3. Cardinality(serving) <= 1
      <4>1. CASE serving = {}
        BY <4>1, FS_EmptySet
      <4>2. CASE serving # {}
        <5>1. PICK t \in serving : TRUE
          BY <4>2
        <5>2. serving = {t}
          BY <3>2, <5>1
        <5> HIDE DEF serving
        <5>3. Cardinality({t}) = 1
          BY FS_Singleton
        <5>4. Cardinality(serving) = 1
          BY <5>2, <5>3
        <5> QED
          BY <5>4
      <4> QED
        BY <4>1, <4>2
    <3>4. ASSUME promise[c] = "undefined", NEW t \in serving PROVE ~Working(t)
      <4>1. pool.threads[t].status \in Answered
        BY <2>1, <3>1, <3>4 DEF ServedOnce
      <4> QED
        BY <4>1 DEF Working, Answered
    <3>5. promise[c] \in {"running", "undefined"} => serving # {}
      BY <2>1 DEF ServedOnce
    <3> QED
      BY <3>1, <3>3, <3>4, <3>5
  <2> QED
    BY <2>2 DEF CallsRunOnceAndSettleAfter
<1>2. Init => CallsInv
  BY InitCalls
<1>3. Inv /\ CallsInv /\ [Next]_vars => CallsInv'
  BY StepCalls
<1> QED
  BY <1>1, <1>2, <1>3, InvHolds, PTL DEF Spec

(* No handler gives a thread a second task, or changes the task or the     *)
(* call of one that works: a thread is sent one task in its life.          *)
THEOREM OneTaskPerThread == Spec => ThreadsServeOnce
<1> DEFINE ServesOnce ==
        \A t \in 1..Len(pool.threads) :
            /\ pool'.threads[t].status = "working" => pool.threads[t].status \in {"ready", "working"}
            /\ Working(t) => pool'.threads[t].task = pool.threads[t].task
            /\ Working(t) => pool'.threads[t].call = pool.threads[t].call
<1>1. ASSUME Inv, Next PROVE ServesOnce
  <2>1. pool.threads \in Seq(ThreadType)
    BY <1>1, InvThreads
  <2>2. ASSUME Kept(pool.threads, pool'.threads) PROVE ServesOnce
    BY <2>2 DEF Kept, Answered, Working
  <2>3. ASSUME NEW c, Sent(pool.threads, pool'.threads, c) PROVE ServesOnce
    BY <2>3 DEF Sent, Working
  <2>4. ASSUME pool'.threads = pool.threads PROVE ServesOnce
    BY <2>4 DEF Working
  <2>5. ASSUME NEW c \in Calls, RunWorker(c) PROVE ServesOnce
    <3>1. CASE pool' = pool
      BY <2>4, <3>1
    <3>2. CASE pool.available # <<>> /\ Post(FirstAvailable, DataOf[c], c, microtasks)
      <4>1. Sent(pool.threads, pool'.threads, c)
        BY <1>1, <3>2, CallsAssumption, PostSends
      <4> QED
        BY <2>3, <4>1
    <3> QED
      BY <2>5, <3>1, <3>2 DEF RunWorker
  <2>6. ASSUME NEW t \in DOMAIN pool.threads, ThreadEvent(t) PROVE ServesOnce
    <3>1. KeptPool(pool, pool')
      BY <1>1, <2>6, ReplyKeeps, ThrowKeeps, ExitKeeps DEF ThreadEvent
    <3> QED
      BY <2>2, <3>1 DEF KeptPool
  <2>7. CASE PollTick \/ ProcessRejections \/ \E task \in taskQueue.queued : TaskMatures(task)
    BY <2>4, <2>7 DEF PollTick, ProcessRejections, TaskMatures
  <2>8. CASE DequeuedJob
    <3>1. CASE pool' = pool
      BY <2>4, <3>1
    <3>2. CASE /\ job.task # NoTask /\ pool.available # <<>>
               /\ Post(FirstAvailable, job.task, NoCall, Tail(microtasks))
      <4>1. job \in PendingJobs
        BY <1>1, <2>8, HeadJob DEF DequeuedJob, Pending, Inv
      <4>2. job.task \in Tasks
        BY <3>2, <4>1 DEF PendingJobs, JobType
      <4>3. Sent(pool.threads, pool'.threads, NoCall)
        BY <1>1, <3>2, <4>2, PostSends
      <4> QED
        BY <2>3, <4>3
    <3> QED
      BY <2>8, <3>1, <3>2 DEF DequeuedJob
  <2>9. CASE Microtask /\ ~DequeuedJob
    <3>1. pool'.threads = pool.threads
      BY <1>1, <2>9, VersionKeeps
         DEF Microtask, EnqueueJob, EnqueuedJob, DequeueJob, PollJob, SettledJob, OperatedJob, RanJob
    <3> QED
      BY <2>4, <3>1
  <2> QED
    BY <1>1, <2>5, <2>6, <2>7, <2>8, <2>9 DEF Next
<1>2. Inv /\ [Next]_vars => [ServesOnce]_vars
  BY <1>1
<1> HIDE DEF ServesOnce
<1>3. Spec => [][ServesOnce]_vars
  BY <1>2, InvHolds, PTL DEF Spec
<1> QED
  BY <1>3 DEF ServesOnce, ThreadsServeOnce

=============================================================================
