--------------------- MODULE WorkerPoolVariantsProofs ---------------------
(***************************************************************************)
(* Proofs about WorkerPoolVariants, for any calls and maxWorkers: the pool *)
(* with state and the pool with transactions.                              *)
(***************************************************************************)
EXTENDS WorkerPoolVariants, GeneralLemmas, FiniteSetTheorems, TLAPS

-----------------------------------------------------------------------------
(* The inductive invariant.  v stands for the variant.                     *)

EntryType == [worker : Nat, state : {"idle", "busy"}]

Maps == UNION {[D -> EntryType] : D \in SUBSET Nat}

ThreadType ==
    [id : Nat, status : {"ready", "working", "replaced", "failed", "exited"}, posted : Seq(Calls)]

(* The operation of a transaction that is committed never fails.           *)
JobType ==
    [kind : {"enqueue"}, call : Calls, id : Nat, ok : {TRUE}]
        \cup [kind : {"enqueued", "dequeue", "dequeued", "commit", "end"},
              call : Calls \cup {NoCall}, id : Nat, ok : {TRUE}]

PoolTypes ==
    [map : Maps, available : Seq(Nat), nextId : Nat, threads : Seq(ThreadType),
     jobs : Seq(JobType), lastId : Nat, open : SUBSET Nat]

(* A thread whose events still find the entry of its worker, and one whose *)
(* worker was replaced before its exit.                                    *)
Attached(v, p, t) ==
    p.threads[t].status = "working" \/ (v = "state" /\ p.threads[t].status = "failed")

Gone(v, p, t) == v = "transaction" /\ p.threads[t].status = "failed"

(* The identifiers in use were given out by the counter.                   *)
Numbered(p) ==
    /\ DOMAIN p.map \subseteq 0..(p.nextId - 1)
    /\ \A t \in 1..Len(p.threads) : p.threads[t].id < p.nextId

(* A thread that can answer was sent one call.                             *)
PostedOK(p) ==
    \A t \in 1..Len(p.threads) :
       /\ p.threads[t].status = "ready" => p.threads[t].posted = <<>>
       /\ p.threads[t].status = "working" => Len(p.threads[t].posted) = 1

EntryOK(v, p, w) ==
    LET entry  == p.map[w]
        status == p.threads[entry.worker].status
    IN  /\ entry.worker \in 1..Len(p.threads)
        /\ p.threads[entry.worker].id = w
        /\ \/ v = "state" /\ status = "failed"
           \/ w \in Range(p.available) /\ entry.state = "idle" /\ status = "ready"
           \/ w \notin Range(p.available) /\ entry.state = "busy" /\ status = "working"

OfferedOK(p) == IsInjective(p.available) /\ Range(p.available) \subseteq DOMAIN p.map

AttachedOK(v, p, S) ==
    \A t \in 1..Len(p.threads) :
       /\ Attached(v, p, t) => p.threads[t].id \in S /\ p.map[p.threads[t].id].worker = t
       /\ Gone(v, p, t) => p.threads[t].id \notin S

(* The pool is consistent, except perhaps for the entries of workers that  *)
(* are not in S: inside a handler one worker is being taken out.           *)
Consistent(v, p, S) ==
    /\ p \in PoolTypes /\ Numbered(p) /\ PostedOK(p) /\ OfferedOK(p)
    /\ \A w \in S : EntryOK(v, p, w)
    /\ AttachedOK(v, p, S)

(* The transactions that a list of microtasks will end.                    *)
Ending(jobs) == {jobs[i].id : i \in {j \in 1..Len(jobs) : jobs[j].kind \in {"commit", "end"}}}

PoolOK(v, p) ==
    /\ Consistent(v, p, DOMAIN p.map)
    /\ Cardinality(DOMAIN p.map) = MaxWorkers
    /\ p.open \subseteq Ending(p.jobs)

Inv ==
    /\ variant \in {"state", "transaction"}
    /\ PoolOK(variant, pool)
    /\ taskQueue \in Queue!Queues
    /\ promise \in [Calls -> {"uncalled", "queued", "running", "answered", "rejected"}]
    /\ answer \in [Calls -> Calls \cup {NoCall}]
    /\ AnswersAreTheirOwn

-----------------------------------------------------------------------------
(* The fields of a pool                                                    *)

LEMMA MapTyped ==
    ASSUME NEW m
    PROVE  m \in Maps <=> DOMAIN m \subseteq Nat /\ m \in [DOMAIN m -> EntryType]
BY DEF Maps

LEMMA PoolFields ==
    ASSUME NEW p \in PoolTypes
    PROVE  /\ p.map \in Maps /\ DOMAIN p.map \subseteq Nat /\ p.map \in [DOMAIN p.map -> EntryType]
           /\ p.available \in Seq(Nat) /\ p.nextId \in Nat
           /\ p.threads \in Seq(ThreadType) /\ Len(p.threads) \in Nat
           /\ p.jobs \in Seq(JobType) /\ p.lastId \in Nat /\ p.open \in SUBSET Nat
<1>1. /\ p.map \in Maps /\ p.available \in Seq(Nat) /\ p.nextId \in Nat
      /\ p.threads \in Seq(ThreadType)
      /\ p.jobs \in Seq(JobType) /\ p.lastId \in Nat /\ p.open \in SUBSET Nat
  BY DEF PoolTypes
<1>2. DOMAIN p.map \subseteq Nat /\ p.map \in [DOMAIN p.map -> EntryType]
  BY <1>1, MapTyped
<1>3. Len(p.threads) \in Nat
  BY <1>1
<1> QED BY <1>1, <1>2, <1>3

LEMMA ThreadTyped ==
    ASSUME NEW p \in PoolTypes, NEW t \in 1..Len(p.threads)
    PROVE  /\ p.threads[t] \in ThreadType /\ p.threads[t].id \in Nat
           /\ p.threads[t].posted \in Seq(Calls)
<1>1. p.threads \in Seq(ThreadType)
  BY PoolFields
<1>2. p.threads[t] \in ThreadType
  BY <1>1
<1> QED BY <1>2 DEF ThreadType

(* The fields that are about workers, and those that are about microtasks  *)
(* and transactions.                                                       *)
SameWorkers(p, q) ==
    q.map = p.map /\ q.available = p.available /\ q.nextId = p.nextId /\ q.threads = p.threads

SameBooks(p, q) == q.jobs = p.jobs /\ q.lastId = p.lastId /\ q.open = p.open

(* The threads of p are still there.                                       *)
Grown(p, q) ==
    /\ Len(p.threads) <= Len(q.threads)
    /\ \A t \in 1..Len(p.threads) : q.threads[t] = p.threads[t]

LEMMA SameWorkersConsistent ==
    ASSUME NEW v, NEW p, NEW q \in PoolTypes, NEW S, Consistent(v, p, S), SameWorkers(p, q)
    PROVE  Consistent(v, q, S)
<1>1. Numbered(q) /\ PostedOK(q) /\ OfferedOK(q)
  BY DEF Consistent, SameWorkers, Numbered, PostedOK, OfferedOK
<1>2. \A w \in S : EntryOK(v, q, w)
  BY DEF Consistent, SameWorkers, EntryOK
<1>3. AttachedOK(v, q, S)
  BY DEF Consistent, SameWorkers, AttachedOK, Attached, Gone
<1> QED BY <1>1, <1>2, <1>3 DEF Consistent

LEMMA AddRecord ==
    ASSUME NEW p \in PoolTypes, NEW w \in Nat
    PROVE  LET q == AddWorkerToPool(p, w)
               n == Len(p.threads) + 1
           IN  /\ q \in PoolTypes /\ SameBooks(p, q)
               /\ DOMAIN q.map = DOMAIN p.map \cup {w}
               /\ q.map[w] = [worker |-> n, state |-> "idle"]
               /\ \A u \in DOMAIN p.map \ {w} : q.map[u] = p.map[u]
               /\ q.available = Add(p.available, w)
               /\ q.nextId = p.nextId
               /\ q.threads = Append(p.threads, [id |-> w, status |-> "ready", posted |-> <<>>])
<1> DEFINE n == Len(p.threads) + 1
           entry == [worker |-> n, state |-> "idle"]
           thread == [id |-> w, status |-> "ready", posted |-> <<>>]
           m == Put(p.map, w, entry)
           a == Add(p.available, w)
           ts == Append(p.threads, thread)
           q == [p EXCEPT !.threads = ts, !.map = m, !.available = a]
<1>1. AddWorkerToPool(p, w) = q
  BY DEF AddWorkerToPool
<1>2. /\ p.map \in [DOMAIN p.map -> EntryType] /\ DOMAIN p.map \subseteq Nat /\ n \in Nat
      /\ p.threads \in Seq(ThreadType) /\ p.available \in Seq(Nat)
  BY PoolFields
<1>3. /\ DOMAIN m = DOMAIN p.map \cup {w} /\ m[w] = entry
      /\ \A u \in DOMAIN p.map \ {w} : m[u] = p.map[u]
  BY DEF Put
<1>4. entry \in EntryType
  BY <1>2 DEF EntryType
<1>5. m \in Maps
  <2>1. m \in [DOMAIN m -> EntryType]
    <3>1. m = [u \in DOMAIN m |-> m[u]]
      BY DEF Put
    <3>2. \A u \in DOMAIN m : m[u] \in EntryType
      BY <1>2, <1>3, <1>4
    <3> HIDE DEF m
    <3> QED BY <3>1, <3>2
  <2> HIDE DEF m
  <2> QED BY <1>2, <1>3, <2>1, MapTyped
<1>6. ts \in Seq(ThreadType)
  <2>1. <<>> \in Seq(Calls)
    OBVIOUS
  <2>2. thread \in ThreadType
    BY <2>1 DEF ThreadType
  <2> HIDE DEF thread
  <2> QED BY <1>2, <2>2
<1>7. a \in Seq(Nat)
  BY <1>2 DEF Add
<1> HIDE DEF m, ts, a
<1>8. q \in PoolTypes
  BY <1>5, <1>6, <1>7 DEF PoolTypes
<1>9. /\ q.map = m /\ q.available = a /\ q.threads = ts
      /\ q.nextId = p.nextId /\ SameBooks(p, q)
  BY DEF PoolTypes, SameBooks
<1> HIDE DEF q
<1> QED BY <1>1, <1>3, <1>8, <1>9 DEF m, a, ts

LEMMA RemoveRecord ==
    ASSUME NEW p \in PoolTypes, NEW w, IsInjective(p.available)
    PROVE  LET q == RemoveWorker(p, w)
           IN  /\ q \in PoolTypes /\ SameBooks(p, q)
               /\ DOMAIN q.map = DOMAIN p.map \ {w}
               /\ \A u \in DOMAIN q.map : q.map[u] = p.map[u]
               /\ IsInjective(q.available)
               /\ Range(q.available) = Range(p.available) \ {w}
               /\ q.nextId = p.nextId /\ q.threads = p.threads
<1> DEFINE m == Without(p.map, w)
           a == Delete(p.available, w)
           q == [p EXCEPT !.map = m, !.available = a]
<1>1. RemoveWorker(p, w) = q
  BY DEF RemoveWorker
<1>2. /\ p.map \in [DOMAIN p.map -> EntryType] /\ DOMAIN p.map \subseteq Nat
      /\ p.available \in Seq(Nat)
  BY PoolFields
<1>3. DOMAIN m = DOMAIN p.map \ {w} /\ \A u \in DOMAIN m : m[u] = p.map[u]
  BY DEF Without
<1>4. m \in Maps
  <2>1. m \in [DOMAIN m -> EntryType]
    BY <1>2 DEF Without
  <2> HIDE DEF m
  <2> QED BY <1>2, <1>3, <2>1, MapTyped
<1>5. a \in Seq(Nat) /\ IsInjective(a) /\ Range(a) = Range(p.available) \ {w}
  BY <1>2, DeleteElement
<1> HIDE DEF m, a
<1>6. q \in PoolTypes
  BY <1>4, <1>5 DEF PoolTypes
<1>7. /\ q.map = m /\ q.available = a /\ q.threads = p.threads
      /\ q.nextId = p.nextId /\ SameBooks(p, q)
  BY DEF PoolTypes, SameBooks
<1> HIDE DEF q
<1> QED BY <1>1, <1>3, <1>5, <1>6, <1>7

-----------------------------------------------------------------------------
(* The methods                                                             *)

(* addWorkerToPool gives its worker a new thread and offers it.            *)
LEMMA AddConsistent ==
    ASSUME NEW v, NEW p, NEW w \in Nat, w < p.nextId, Consistent(v, p, DOMAIN p.map \ {w}),
           \A t \in 1..Len(p.threads) : Gone(v, p, t) => p.threads[t].id # w
    PROVE  LET q == AddWorkerToPool(p, w)
           IN  /\ Consistent(v, q, DOMAIN q.map) /\ SameBooks(p, q)
               /\ DOMAIN q.map = DOMAIN p.map \cup {w} /\ q.nextId = p.nextId /\ Grown(p, q)
<1> DEFINE q == AddWorkerToPool(p, w)
           n == Len(p.threads) + 1
           thread == [id |-> w, status |-> "ready", posted |-> <<>>]
<1>1. p \in PoolTypes
  BY DEF Consistent
<1>2. /\ p.threads \in Seq(ThreadType) /\ Len(p.threads) \in Nat /\ p.available \in Seq(Nat)
      /\ p.nextId \in Nat /\ IsInjective(p.available)
  BY <1>1, PoolFields DEF Consistent, OfferedOK
<1>3. /\ q \in PoolTypes /\ SameBooks(p, q)
      /\ DOMAIN q.map = DOMAIN p.map \cup {w}
      /\ q.map[w] = [worker |-> n, state |-> "idle"]
      /\ \A u \in DOMAIN p.map \ {w} : q.map[u] = p.map[u]
      /\ q.available = Add(p.available, w)
      /\ q.nextId = p.nextId
      /\ q.threads = Append(p.threads, thread)
  BY <1>1, AddRecord
<1>4. /\ Len(q.threads) = n /\ q.threads[n] = thread
      /\ \A t \in 1..Len(p.threads) : q.threads[t] = p.threads[t]
  <2> HIDE DEF thread
  <2> QED BY <1>2, <1>3
<1>5. IsInjective(q.available) /\ Range(q.available) = Range(p.available) \cup {w}
  BY <1>2, <1>3, AddElement
<1>6. thread.id = w /\ thread.status = "ready" /\ thread.posted = <<>>
  OBVIOUS
<1> HIDE DEF q, thread
<1>7. \A t \in 1..Len(q.threads) : t = n \/ t \in 1..Len(p.threads)
  BY <1>2, <1>4
<1>8. Numbered(q)
  <2>1. DOMAIN q.map \subseteq 0..(q.nextId - 1)
    BY <1>2, <1>3 DEF Consistent, Numbered
  <2>2. \A t \in 1..Len(q.threads) : q.threads[t].id < q.nextId
    BY <1>3, <1>4, <1>6, <1>7 DEF Consistent, Numbered
  <2> QED BY <2>1, <2>2 DEF Numbered
<1>9. PostedOK(q)
  BY <1>4, <1>6, <1>7 DEF Consistent, PostedOK
<1>10. OfferedOK(q)
  BY <1>3, <1>5 DEF Consistent, OfferedOK
<1>11. ASSUME NEW u \in DOMAIN q.map PROVE EntryOK(v, q, u)
  <2>1. CASE u = w
    <3>1. q.map[u].worker = n /\ q.map[u].state = "idle" /\ u \in Range(q.available)
      BY <1>3, <1>5, <2>1
    <3>2. n \in 1..Len(q.threads)
      BY <1>2, <1>4
    <3> QED BY <1>4, <1>6, <2>1, <3>1, <3>2 DEF EntryOK
  <2>2. CASE u # w
    <3>1. u \in DOMAIN p.map \ {w} /\ q.map[u] = p.map[u]
      BY <1>3, <2>2
    <3>2. EntryOK(v, p, u)
      BY <3>1 DEF Consistent
    <3>3. p.map[u].worker \in 1..Len(p.threads) /\ p.map[u].worker \in 1..Len(q.threads)
      BY <1>2, <1>4, <3>2 DEF EntryOK
    <3>4. q.threads[p.map[u].worker] = p.threads[p.map[u].worker]
      BY <1>4, <3>3
    <3>5. u \in Range(q.available) <=> u \in Range(p.available)
      BY <1>5, <2>2
    <3> QED BY <3>1, <3>2, <3>3, <3>4, <3>5 DEF EntryOK
  <2> QED BY <2>1, <2>2
<1>12. ASSUME NEW t \in 1..Len(q.threads)
       PROVE  /\ Attached(v, q, t) => q.threads[t].id \in DOMAIN q.map
                                         /\ q.map[q.threads[t].id].worker = t
              /\ Gone(v, q, t) => q.threads[t].id \notin DOMAIN q.map
  <2>1. CASE t = n
    BY <1>4, <1>6, <2>1 DEF Attached, Gone
  <2>2. CASE t \in 1..Len(p.threads)
    <3>1. /\ Attached(v, p, t) => p.threads[t].id \in DOMAIN p.map \ {w}
                                     /\ p.map[p.threads[t].id].worker = t
          /\ Gone(v, p, t) => p.threads[t].id \notin DOMAIN p.map \ {w} /\ p.threads[t].id # w
      BY <2>2 DEF Consistent, AttachedOK
    <3> QED BY <1>3, <1>4, <2>2, <3>1 DEF Attached, Gone
  <2> QED BY <1>7, <2>1, <2>2
<1>13. Consistent(v, q, DOMAIN q.map)
  BY <1>3, <1>8, <1>9, <1>10, <1>11, <1>12 DEF Consistent, AttachedOK
<1>14. Grown(p, q)
  BY <1>2, <1>4 DEF Grown
<1> QED BY <1>3, <1>13, <1>14 DEF q

(* removeWorker leaves the other workers as they are.                      *)
LEMMA RemoveConsistent ==
    ASSUME NEW v, NEW p, NEW w, Consistent(v, p, DOMAIN p.map \ {w})
    PROVE  LET q == RemoveWorker(p, w)
           IN  /\ Consistent(v, q, DOMAIN q.map) /\ SameBooks(p, q)
               /\ DOMAIN q.map = DOMAIN p.map \ {w}
               /\ q.nextId = p.nextId /\ q.threads = p.threads
<1> DEFINE q == RemoveWorker(p, w)
<1>1. p \in PoolTypes /\ IsInjective(p.available) /\ Range(p.available) \subseteq DOMAIN p.map
  BY DEF Consistent, OfferedOK
<1>2. /\ q \in PoolTypes /\ SameBooks(p, q)
      /\ DOMAIN q.map = DOMAIN p.map \ {w}
      /\ \A u \in DOMAIN q.map : q.map[u] = p.map[u]
      /\ IsInjective(q.available)
      /\ Range(q.available) = Range(p.available) \ {w}
      /\ q.nextId = p.nextId /\ q.threads = p.threads
  BY <1>1, RemoveRecord
<1> HIDE DEF q
<1>3. Numbered(q) /\ PostedOK(q) /\ OfferedOK(q)
  BY <1>1, <1>2 DEF Consistent, Numbered, PostedOK, OfferedOK
<1>4. ASSUME NEW u \in DOMAIN q.map PROVE EntryOK(v, q, u)
  <2>1. EntryOK(v, p, u)
    BY <1>2 DEF Consistent
  <2>2. q.map[u] = p.map[u] /\ (u \in Range(q.available) <=> u \in Range(p.available))
    BY <1>2
  <2> QED BY <1>2, <2>1, <2>2 DEF EntryOK
<1>5. AttachedOK(v, q, DOMAIN q.map)
  BY <1>2 DEF Consistent, AttachedOK, Attached, Gone
<1>6. Consistent(v, q, DOMAIN q.map)
  BY <1>2, <1>3, <1>4, <1>5 DEF Consistent
<1> QED BY <1>2, <1>6 DEF q

LEMMA MapFinite ==
    ASSUME NEW p \in PoolTypes, Numbered(p)
    PROVE  IsFiniteSet(DOMAIN p.map)
<1>1. 0 \in Int /\ p.nextId - 1 \in Int /\ DOMAIN p.map \subseteq 0..(p.nextId - 1)
  BY PoolFields DEF Numbered
<1>2. IsFiniteSet(0..(p.nextId - 1))
  BY <1>1, FS_Interval
<1> QED BY <1>1, <1>2, FS_Subset

(* addWorkerToPool with the next identifier.                               *)
LEMMA AddNewConsistent ==
    ASSUME NEW v, NEW p, Consistent(v, p, DOMAIN p.map)
    PROVE  LET q == AddNewWorker(p)
           IN  /\ Consistent(v, q, DOMAIN q.map) /\ SameBooks(p, q)
               /\ DOMAIN q.map = DOMAIN p.map \cup {p.nextId} /\ p.nextId \notin DOMAIN p.map
               /\ Grown(p, q)
<1> DEFINE n == p.nextId
           p1 == [p EXCEPT !.nextId = n + 1]
           q1 == AddWorkerToPool(p1, n)
           r == AddWorkerToPool(p, n)
           q == [r EXCEPT !.nextId = @ + 1]
<1>1. p \in PoolTypes /\ n \in Nat /\ Numbered(p)
  BY PoolFields DEF Consistent
<1>2. /\ n \notin DOMAIN p.map
      /\ \A t \in 1..Len(p.threads) : p.threads[t].id # n
  BY <1>1, ThreadTyped DEF Numbered
<1>3. /\ p1 \in PoolTypes /\ p1.nextId = n + 1
      /\ p1.map = p.map /\ p1.available = p.available /\ p1.threads = p.threads /\ SameBooks(p, p1)
  <2> DEFINE k == n + 1
             o == [p EXCEPT !.nextId = k]
  <2>1. k \in Nat
    BY <1>1
  <2> HIDE DEF k
  <2>2. o \in PoolTypes
    BY <1>1, <2>1 DEF PoolTypes
  <2>3. /\ o.nextId = k /\ o.map = p.map /\ o.available = p.available /\ o.threads = p.threads
        /\ SameBooks(p, o)
    BY <1>1 DEF PoolTypes, SameBooks
  <2>4. o = p1
    BY DEF k
  <2> HIDE DEF o, p1
  <2> QED BY <2>2, <2>3, <2>4 DEF k
<1>4. AddNewWorker(p) = q
  BY DEF AddNewWorker
<1>5. q = q1
  <2>1. n \in Nat /\ p \in PoolTypes
    BY <1>1
  <2>2. q = [p EXCEPT !.threads = Append(@, [id |-> n, status |-> "ready", posted |-> <<>>]),
                      !.map = Put(@, n, [worker |-> Len(p.threads) + 1, state |-> "idle"]),
                      !.available = Add(@, n),
                      !.nextId = n + 1]
    BY <2>1 DEF AddWorkerToPool, PoolTypes
  <2>3. q1 = [p EXCEPT !.threads = Append(@, [id |-> n, status |-> "ready", posted |-> <<>>]),
                       !.map = Put(@, n, [worker |-> Len(p.threads) + 1, state |-> "idle"]),
                       !.available = Add(@, n),
                       !.nextId = n + 1]
    BY <2>1 DEF AddWorkerToPool, PoolTypes
  <2> QED BY <2>2, <2>3
<1> HIDE DEF p1, q
<1>6. Consistent(v, p1, DOMAIN p1.map \ {n})
  <2>1. Numbered(p1)
    <3>1. DOMAIN p1.map \subseteq 0..(p1.nextId - 1)
      BY <1>1, <1>3 DEF Numbered
    <3>2. ASSUME NEW t \in 1..Len(p1.threads) PROVE p1.threads[t].id < p1.nextId
      <4>1. p.threads[t].id \in Nat /\ p.threads[t].id < n
        BY <1>1, <1>3, ThreadTyped DEF Numbered
      <4> QED BY <1>1, <1>3, <4>1
    <3> QED BY <3>1, <3>2 DEF Numbered
  <2>2. PostedOK(p1) /\ OfferedOK(p1)
    BY <1>3 DEF Consistent, PostedOK, OfferedOK
  <2>3. DOMAIN p1.map \ {n} = DOMAIN p.map
    BY <1>2, <1>3
  <2>4. \A w \in DOMAIN p.map : EntryOK(v, p1, w)
    BY <1>3 DEF Consistent, EntryOK
  <2>5. AttachedOK(v, p1, DOMAIN p.map)
    BY <1>3 DEF Consistent, AttachedOK, Attached, Gone
  <2> QED BY <1>3, <2>1, <2>2, <2>3, <2>4, <2>5 DEF Consistent
<1>7. n < p1.nextId /\ \A t \in 1..Len(p1.threads) : p1.threads[t].id # n
  BY <1>1, <1>2, <1>3
<1>8. /\ Consistent(v, q1, DOMAIN q1.map) /\ SameBooks(p1, q1)
      /\ DOMAIN q1.map = DOMAIN p1.map \cup {n} /\ Grown(p1, q1)
  BY <1>1, <1>6, <1>7, AddConsistent
<1> HIDE DEF q1
<1> QED BY <1>2, <1>3, <1>4, <1>5, <1>8 DEF SameBooks, Grown

(* A worker whose thread has ended is replaced by a new one...             *)
LEMMA ReplaceBroken ==
    ASSUME NEW v, NEW p, NEW w \in DOMAIN p.map,
           Consistent(v, p, DOMAIN p.map \ {w}), Cardinality(DOMAIN p.map) = MaxWorkers
    PROVE  LET q == ReplaceWorker(p, w)
           IN  /\ Consistent(v, q, DOMAIN q.map) /\ SameBooks(p, q)
               /\ Cardinality(DOMAIN q.map) = MaxWorkers /\ w \notin DOMAIN q.map
               /\ Grown(p, q)
<1> DEFINE r == RemoveWorker(p, w)
           q == AddNewWorker(r)
<1>1. /\ Consistent(v, r, DOMAIN r.map) /\ SameBooks(p, r)
      /\ DOMAIN r.map = DOMAIN p.map \ {w} /\ r.nextId = p.nextId /\ r.threads = p.threads
  BY RemoveConsistent
<1>2. p \in PoolTypes /\ Numbered(p)
  BY DEF Consistent
<1>3. IsFiniteSet(DOMAIN p.map) /\ IsFiniteSet(DOMAIN r.map)
  <2>1. IsFiniteSet(DOMAIN p.map)
    BY <1>2, MapFinite
  <2> HIDE DEF r
  <2> QED BY <1>1, <2>1, FS_Subset
<1> HIDE DEF r
<1>4. Cardinality(DOMAIN r.map) = MaxWorkers - 1
  BY <1>1, <1>3, FS_RemoveElement
<1>5. MaxWorkers \in Nat
  BY VariantsAssumption
<1>6. ReplaceWorker(p, w) = q
  <2>1. Cardinality(DOMAIN r.map) < MaxWorkers
    BY <1>4, <1>5
  <2> HIDE DEF q
  <2> QED BY <2>1 DEF ReplaceWorker, r, q
<1>7. /\ Consistent(v, q, DOMAIN q.map) /\ SameBooks(r, q)
      /\ DOMAIN q.map = DOMAIN r.map \cup {r.nextId} /\ r.nextId \notin DOMAIN r.map
      /\ Grown(r, q)
  BY <1>1, AddNewConsistent
<1> HIDE DEF q
<1>8. Cardinality(DOMAIN q.map) = MaxWorkers
  <2>1. Cardinality(DOMAIN r.map \cup {r.nextId}) = Cardinality(DOMAIN r.map) + 1
    BY <1>3, <1>7, FS_AddElement
  <2> QED BY <1>4, <1>5, <1>7, <2>1
<1>9. w \notin DOMAIN q.map
  <2>1. w \in Nat /\ w < p.nextId
    BY <1>2, PoolFields DEF Numbered
  <2> QED BY <1>1, <1>7, <2>1
<1> QED BY <1>1, <1>6, <1>7, <1>8, <1>9 DEF SameBooks, Grown

(* ... and a second replacement under its identifier changes nothing.      *)
LEMMA ReplaceReplaced ==
    ASSUME NEW v, NEW p, NEW w, w \notin DOMAIN p.map,
           Consistent(v, p, DOMAIN p.map), Cardinality(DOMAIN p.map) = MaxWorkers
    PROVE  LET q == ReplaceWorker(p, w)
           IN  /\ Consistent(v, q, DOMAIN q.map) /\ SameBooks(p, q)
               /\ Cardinality(DOMAIN q.map) = MaxWorkers /\ w \notin DOMAIN q.map
               /\ Grown(p, q)
<1> DEFINE q == RemoveWorker(p, w)
<1>1. DOMAIN p.map \ {w} = DOMAIN p.map
  OBVIOUS
<1>2. Consistent(v, p, DOMAIN p.map \ {w})
  BY <1>1
<1>3. /\ Consistent(v, q, DOMAIN q.map) /\ SameBooks(p, q) /\ DOMAIN q.map = DOMAIN p.map \ {w}
      /\ q.threads = p.threads
  BY <1>2, RemoveConsistent
<1> HIDE DEF q
<1>4. Cardinality(DOMAIN q.map) = MaxWorkers
  BY <1>1, <1>3
<1>5. ReplaceWorker(p, w) = q
  <2>1. MaxWorkers \in Nat
    BY VariantsAssumption
  <2>2. ~(Cardinality(DOMAIN q.map) < MaxWorkers)
    BY <1>4, <2>1
  <2> QED BY <2>2 DEF ReplaceWorker, q
<1>6. Grown(p, q)
  <2>1. p \in PoolTypes
    BY DEF Consistent
  <2>2. Len(p.threads) \in Nat
    BY <2>1, PoolFields
  <2> QED BY <1>3, <2>2 DEF Grown
<1> QED BY <1>3, <1>4, <1>5, <1>6

(* Marking a worker idle keeps all others as they are, and its own entry   *)
(* if nothing is said of it or its thread has failed.                      *)
LEMMA MarkIdleConsistent ==
    ASSUME NEW v, NEW p, NEW S, S \subseteq DOMAIN p.map, NEW w \in DOMAIN p.map,
           Consistent(v, p, S),
           w \notin S \/ (v = "state" /\ p.threads[p.map[w].worker].status = "failed")
    PROVE  LET q == MarkIdle(p, w)
           IN  /\ Consistent(v, q, S) /\ SameBooks(p, q)
               /\ DOMAIN q.map = DOMAIN p.map /\ q.map[w].worker = p.map[w].worker
               /\ q.nextId = p.nextId /\ q.threads = p.threads
<1> DEFINE m == [p.map EXCEPT ![w].state = "idle"]
           a == Add(p.available, w)
           q == [p EXCEPT !.map = m, !.available = a]
<1>1. MarkIdle(p, w) = q
  BY DEF MarkIdle
<1>2. /\ p \in PoolTypes /\ p.map \in [DOMAIN p.map -> EntryType] /\ DOMAIN p.map \subseteq Nat
      /\ p.available \in Seq(Nat) /\ IsInjective(p.available) /\ w \in Nat
      /\ Range(p.available) \subseteq DOMAIN p.map
  BY PoolFields DEF Consistent, OfferedOK
<1>3. /\ DOMAIN m = DOMAIN p.map /\ m[w].worker = p.map[w].worker /\ m[w].state = "idle"
      /\ m[w] \in EntryType
      /\ \A u \in DOMAIN p.map \ {w} : m[u] = p.map[u]
  BY <1>2 DEF EntryType
<1>4. m \in Maps
  <2>1. m \in [DOMAIN m -> EntryType]
    BY <1>2 DEF EntryType
  <2> HIDE DEF m
  <2> QED BY <1>2, <1>3, <2>1, MapTyped
<1>5. a \in Seq(Nat) /\ IsInjective(a) /\ Range(a) = Range(p.available) \cup {w}
  BY <1>2, AddElement
<1> HIDE DEF m, a
<1>6. q \in PoolTypes
  BY <1>2, <1>4, <1>5 DEF PoolTypes
<1>7. /\ q.map = m /\ q.available = a /\ q.threads = p.threads
      /\ q.nextId = p.nextId /\ SameBooks(p, q)
  BY <1>2 DEF PoolTypes, SameBooks
<1> HIDE DEF q
<1>8. Numbered(q) /\ PostedOK(q) /\ OfferedOK(q)
  BY <1>2, <1>3, <1>5, <1>7 DEF Consistent, Numbered, PostedOK, OfferedOK
<1>9. ASSUME NEW u \in S PROVE EntryOK(v, q, u)
  <2>1. EntryOK(v, p, u)
    BY DEF Consistent
  <2>2. CASE u # w
    <3>1. u \in Range(q.available) <=> u \in Range(p.available)
      BY <1>5, <1>7, <2>2
    <3>2. q.map[u] = p.map[u]
      BY <1>3, <1>7, <2>2
    <3> QED BY <1>7, <2>1, <3>1, <3>2 DEF EntryOK
  <2>3. CASE u = w
    <3>1. v = "state" /\ p.threads[p.map[w].worker].status = "failed"
      BY <2>3
    <3> QED BY <1>3, <1>7, <2>1, <2>3, <3>1 DEF EntryOK
  <2> QED BY <2>2, <2>3
<1>10. AttachedOK(v, q, S)
  <2>1. \A u \in DOMAIN p.map : q.map[u].worker = p.map[u].worker
    BY <1>3, <1>7
  <2> QED BY <1>7, <2>1 DEF Consistent, AttachedOK, Attached, Gone
<1>11. Consistent(v, q, S)
  BY <1>6, <1>8, <1>9, <1>10 DEF Consistent
<1> QED BY <1>1, <1>3, <1>7, <1>11

-----------------------------------------------------------------------------
(* The microtasks and the transactions                                     *)

LEMMA JobTyped ==
    ASSUME NEW kind \in {"enqueued", "dequeue", "dequeued", "commit", "end"}
    PROVE  Job(kind) \in JobType /\ Job(kind).kind = kind
BY DEF Job, JobType

LEMMA LaterTyped ==
    ASSUME NEW p \in PoolTypes, NEW j \in JobType
    PROVE  LET q == Later(p, j)
           IN  /\ q \in PoolTypes /\ SameWorkers(p, q)
               /\ q.jobs = Append(p.jobs, j) /\ q.lastId = p.lastId /\ q.open = p.open
<1> DEFINE s == Append(p.jobs, j)
           q == [p EXCEPT !.jobs = s]
<1>1. s \in Seq(JobType)
  BY PoolFields
<1>2. Later(p, j) = q
  BY DEF Later
<1> HIDE DEF s
<1>3. q \in PoolTypes
  BY <1>1 DEF PoolTypes
<1>4. SameWorkers(p, q) /\ q.jobs = s /\ q.lastId = p.lastId /\ q.open = p.open
  BY DEF PoolTypes, SameWorkers
<1> QED BY <1>2, <1>3, <1>4 DEF s

(* One more microtask ends what the others end, and perhaps its own.       *)
LEMMA EndingAppend ==
    ASSUME NEW s \in Seq(JobType), NEW j \in JobType
    PROVE  /\ Ending(s) \subseteq Ending(Append(s, j))
           /\ j.kind \in {"commit", "end"} => j.id \in Ending(Append(s, j))
<1> DEFINE r == Append(s, j)
           n == Len(s) + 1
<1>1. /\ n \in Nat /\ Len(r) = n /\ r[n] = j /\ n \in 1..Len(r)
      /\ \A i \in 1..Len(s) : i \in 1..Len(r) /\ r[i] = s[i]
  OBVIOUS
<1> HIDE DEF r, n
<1>2. Ending(s) \subseteq Ending(r)
  BY <1>1 DEF Ending
<1>3. j.kind \in {"commit", "end"} => j.id \in Ending(r)
  BY <1>1 DEF Ending
<1> QED BY <1>2, <1>3 DEF r

(* The microtasks after the first end all that the first does not.         *)
LEMMA EndingTail ==
    ASSUME NEW s \in Seq(JobType), s # <<>>
    PROVE  /\ Head(s) \in JobType /\ Tail(s) \in Seq(JobType)
           /\ Head(s).kind \notin {"commit", "end"} => Ending(s) \subseteq Ending(Tail(s))
           /\ Ending(s) \subseteq Ending(Tail(s)) \cup {Head(s).id}
<1> DEFINE r == Tail(s)
<1>1. /\ Len(s) \in Nat /\ Len(s) # 0 /\ Head(s) = s[1] /\ Len(r) = Len(s) - 1
      /\ r \in Seq(JobType)
      /\ \A i \in 2..Len(s) : i - 1 \in 1..Len(r) /\ r[i - 1] = s[i]
  OBVIOUS
<1>2. Head(s) \in JobType
  BY <1>1
<1> HIDE DEF r
<1>3. ASSUME NEW i \in 1..Len(s), s[i].kind \in {"commit", "end"}
      PROVE  i = 1 \/ s[i].id \in Ending(r)
  BY <1>1, <1>3 DEF Ending
<1>4. Ending(s) \subseteq Ending(r) \cup {Head(s).id}
  BY <1>1, <1>3 DEF Ending
<1>5. Head(s).kind \notin {"commit", "end"} => Ending(s) \subseteq Ending(r)
  BY <1>1, <1>3 DEF Ending
<1> QED BY <1>1, <1>2, <1>4, <1>5 DEF r

(* Every open transaction has a microtask that will end it.                *)
Books(p) == p.open \subseteq Ending(p.jobs)

LEMMA ProcessQueueBooks ==
    ASSUME NEW p \in PoolTypes, Books(p)
    PROVE  LET q == ProcessQueue(p) IN q \in PoolTypes /\ Books(q) /\ SameWorkers(p, q)
<1>1. CASE ProcessQueue(p) = p
  BY <1>1 DEF SameWorkers
<1>2. CASE ProcessQueue(p) = Later(p, Job("dequeue"))
  <2> DEFINE q == Later(p, Job("dequeue"))
  <2>1. Job("dequeue") \in JobType /\ p.jobs \in Seq(JobType)
    BY JobTyped, PoolFields
  <2>2. /\ q \in PoolTypes /\ SameWorkers(p, q)
        /\ q.jobs = Append(p.jobs, Job("dequeue")) /\ q.open = p.open
    BY <2>1, LaterTyped
  <2> HIDE DEF q
  <2>3. Books(q)
    BY <2>1, <2>2, EndingAppend DEF Books
  <2> QED BY <1>2, <2>2, <2>3 DEF q
<1> QED BY <1>1, <1>2 DEF ProcessQueue

LEMMA StartTransactionTyped ==
    ASSUME NEW p \in PoolTypes
    PROVE  LET q == StartTransaction(p)
           IN  /\ q \in PoolTypes /\ SameWorkers(p, q)
               /\ q.jobs = p.jobs /\ q.open = p.open \cup {q.lastId} /\ q.lastId \in Nat
<1> DEFINE n == p.lastId + 1
           o == p.open \cup {n}
           q == [p EXCEPT !.lastId = n, !.open = o]
<1>1. n \in Nat /\ o \in SUBSET Nat
  BY PoolFields
<1>2. StartTransaction(p) = q
  BY DEF StartTransaction, PoolTypes
<1> HIDE DEF n
<1>3. q.open = p.open \cup {q.lastId} /\ q.lastId \in Nat
  BY <1>1 DEF PoolTypes
<1> HIDE DEF o
<1>4. q \in PoolTypes
  BY <1>1 DEF PoolTypes
<1>5. SameWorkers(p, q) /\ q.jobs = p.jobs
  BY DEF PoolTypes, SameWorkers
<1> QED BY <1>2, <1>3, <1>4, <1>5

(* A listener that wraps its operation, which takes the pool to q, in a    *)
(* transaction has its commit pending in the end.                          *)
LEMMA Transaction ==
    ASSUME NEW p \in PoolTypes, Books(p), NEW q \in PoolTypes, SameBooks(StartTransaction(p), q),
           NEW ok, ok = TRUE
    PROVE  LET r == ProcessQueue(EndTransaction(q, ok))
           IN  r \in PoolTypes /\ Books(r) /\ SameWorkers(q, r)
<1> DEFINE s == StartTransaction(p)
           j == [Job("commit") EXCEPT !.id = q.lastId, !.ok = ok]
           e == Later(q, j)
<1>1. s.jobs = p.jobs /\ s.open = p.open \cup {s.lastId}
  BY StartTransactionTyped
<1>2. q.jobs = p.jobs /\ q.open = p.open \cup {q.lastId} /\ q.lastId \in Nat
  <2>1. q.lastId \in Nat
    BY PoolFields
  <2> HIDE DEF s
  <2> QED BY <1>1, <2>1 DEF SameBooks, s
<1>3. j \in JobType /\ j.kind = "commit" /\ j.id = q.lastId
  BY <1>2 DEF Job, JobType
<1>4. EndTransaction(q, ok) = e
  BY DEF EndTransaction
<1> HIDE DEF j
<1>5. /\ e \in PoolTypes /\ SameWorkers(q, e)
      /\ e.jobs = Append(q.jobs, j) /\ e.open = q.open
  BY <1>3, LaterTyped
<1> HIDE DEF e
<1>6. Books(e)
  <2>1. q.jobs \in Seq(JobType)
    BY PoolFields
  <2>2. Ending(q.jobs) \subseteq Ending(e.jobs) /\ q.lastId \in Ending(e.jobs)
    BY <1>3, <1>5, <2>1, EndingAppend
  <2> QED BY <1>2, <1>5, <2>2 DEF Books
<1>7. LET r == ProcessQueue(e) IN r \in PoolTypes /\ Books(r) /\ SameWorkers(e, r)
  BY <1>5, <1>6, ProcessQueueBooks
<1> QED BY <1>4, <1>5, <1>7 DEF SameWorkers

-----------------------------------------------------------------------------
(* The listeners                                                           *)

(* The thread of worker w has ended, and w is still there: the pool is     *)
(* consistent but for w.                                                   *)
Broken(v, p, w) ==
    /\ w \in DOMAIN p.map
    /\ Consistent(v, p, DOMAIN p.map \ {w})
    /\ Cardinality(DOMAIN p.map) = MaxWorkers

(* Worker w, whose thread has failed, is still there.                      *)
Failed(v, p, w) ==
    /\ v = "state"
    /\ w \in DOMAIN p.map
    /\ p.threads[p.map[w].worker].status = "failed"
    /\ Consistent(v, p, DOMAIN p.map)
    /\ Cardinality(DOMAIN p.map) = MaxWorkers

(* Worker w has been replaced.                                             *)
Replaced(v, p, w) ==
    /\ w \notin DOMAIN p.map
    /\ Consistent(v, p, DOMAIN p.map)
    /\ Cardinality(DOMAIN p.map) = MaxWorkers

LEMMA Unbooked ==
    ASSUME NEW v, NEW p, NEW w, NEW q \in PoolTypes, SameWorkers(p, q)
    PROVE  /\ Broken(v, p, w) => Broken(v, q, w)
           /\ Failed(v, p, w) => Failed(v, q, w)
           /\ Replaced(v, p, w) => Replaced(v, q, w)
           /\ Consistent(v, p, DOMAIN p.map) => Consistent(v, q, DOMAIN q.map)
<1>1. q.map = p.map /\ q.threads = p.threads
  BY DEF SameWorkers
<1>2. ASSUME NEW S, Consistent(v, p, S) PROVE Consistent(v, q, S)
  BY <1>2, SameWorkersConsistent
<1> QED BY <1>1, <1>2 DEF Broken, Failed, Replaced

(* The two classes wrap the same method: one calls processQueue after it,  *)
(* the other does it inside a transaction.  r is the pool that the method  *)
(* left, and q the one the listener leaves.                                *)
Wrapped(v, p, r, q) ==
    \/ v = "state" /\ SameBooks(p, r) /\ q = ProcessQueue(r)
    \/ /\ v = "transaction" /\ SameBooks(StartTransaction(p), r)
       /\ \E ok \in {TRUE} : q = ProcessQueue(EndTransaction(r, ok))

LEMMA WrappedKeeps ==
    ASSUME NEW v, NEW p \in PoolTypes, Books(p), NEW r \in PoolTypes, NEW q, Wrapped(v, p, r, q)
    PROVE  q \in PoolTypes /\ Books(q) /\ SameWorkers(r, q)
<1>1. CASE v = "state" /\ SameBooks(p, r) /\ q = ProcessQueue(r)
  <2>1. Books(r)
    BY <1>1 DEF Books, SameBooks
  <2> QED BY <1>1, <2>1, ProcessQueueBooks
<1>2. CASE SameBooks(StartTransaction(p), r) /\ \E ok \in {TRUE} : q = ProcessQueue(EndTransaction(r, ok))
  BY <1>2, Transaction
<1> QED BY <1>1, <1>2 DEF Wrapped

(* What the method of a listener is applied to.                            *)
Started(v, p) == IF v = "state" THEN p ELSE StartTransaction(p)

LEMMA StartedKeeps ==
    ASSUME NEW v, NEW p \in PoolTypes
    PROVE  LET q == Started(v, p) IN q \in PoolTypes /\ SameWorkers(p, q)
BY StartTransactionTyped DEF Started, SameWorkers

LEMMA InitListener ==
    ASSUME variant \in {"state", "transaction"},
           NEW p, Books(p), NEW w, Broken(variant, p, w)
    PROVE  LET q == WorkerListener(p, w, "message")
           IN  Broken(variant, q, w) /\ Books(q) /\ q.threads = p.threads
<1> DEFINE s == Started(variant, p)
           r == MarkIdle(s, w)
           q == WorkerListener(p, w, "message")
<1>1. p \in PoolTypes
  BY DEF Broken, Consistent
<1>2. s \in PoolTypes /\ SameWorkers(p, s) /\ Broken(variant, s, w)
  <2>1. s \in PoolTypes /\ SameWorkers(p, s)
    BY <1>1, StartedKeeps
  <2> HIDE DEF s
  <2> QED BY <2>1, Unbooked
<1>3. Wrapped(variant, p, r, q) \/ ~ SameBooks(s, r)
  <2>1. CASE variant = "state"
    BY <2>1 DEF WorkerListener, InitWithState, Wrapped, Started
  <2>2. CASE variant = "transaction"
    <3>1. (w \in DOMAIN p.map) = TRUE
      BY DEF Broken
    <3>2. q = InitWithTransaction(p, w)
      BY <2>2 DEF WorkerListener
    <3> QED BY <2>2, <3>1, <3>2 DEF InitWithTransaction, Wrapped, Started
  <2> QED BY <2>1, <2>2
<1> HIDE DEF s, q
<1>4. /\ Consistent(variant, r, DOMAIN s.map \ {w}) /\ SameBooks(s, r)
      /\ DOMAIN r.map = DOMAIN s.map /\ r.threads = s.threads
  BY <1>2, MarkIdleConsistent DEF Broken
<1> HIDE DEF r
<1>5. r \in PoolTypes /\ Broken(variant, r, w)
  BY <1>2, <1>4 DEF Broken, Consistent
<1>6. q \in PoolTypes /\ Books(q) /\ SameWorkers(r, q)
  BY <1>1, <1>3, <1>4, <1>5, WrappedKeeps
<1>7. Broken(variant, q, w)
  BY <1>5, <1>6, Unbooked
<1> QED BY <1>2, <1>4, <1>6, <1>7 DEF SameWorkers, q

LEMMA MessageListener ==
    ASSUME variant \in {"state", "transaction"},
           NEW p, Books(p), NEW w, Broken(variant, p, w),
           \A t \in 1..Len(p.threads) : Gone(variant, p, t) => p.threads[t].id # w
    PROVE  PoolOK(variant, CallListener(p, w, "message"))
<1> DEFINE s == Started(variant, p)
           r == AddWorkerToPool(s, w)
           q == CallListener(p, w, "message")
<1>1. p \in PoolTypes
  BY DEF Broken, Consistent
<1>2. s \in PoolTypes /\ SameWorkers(p, s) /\ Broken(variant, s, w)
  <2>1. s \in PoolTypes /\ SameWorkers(p, s)
    BY <1>1, StartedKeeps
  <2> HIDE DEF s
  <2> QED BY <2>1, Unbooked
<1>3. Wrapped(variant, p, r, q) \/ ~ SameBooks(s, r)
  <2>1. CASE variant = "state"
    BY <2>1 DEF CallListener, MessageWithState, Wrapped, Started
  <2>2. CASE variant = "transaction"
    <3>1. q = MessageWithTransaction(p, w)
      BY <2>2 DEF CallListener
    <3> QED BY <2>2, <3>1 DEF MessageWithTransaction, Wrapped, Started
  <2> QED BY <2>1, <2>2
<1> HIDE DEF s, q
<1>4. w \in Nat /\ w < s.nextId /\ w \in DOMAIN s.map
  BY <1>2, PoolFields DEF Broken, Consistent, Numbered
<1>5. \A t \in 1..Len(s.threads) : Gone(variant, s, t) => s.threads[t].id # w
  BY <1>2 DEF SameWorkers, Gone
<1>6. /\ Consistent(variant, r, DOMAIN r.map) /\ SameBooks(s, r)
      /\ DOMAIN r.map = DOMAIN s.map \cup {w}
  BY <1>2, <1>4, <1>5, AddConsistent DEF Broken
<1> HIDE DEF r
<1>7. r \in PoolTypes /\ Cardinality(DOMAIN r.map) = MaxWorkers
  <2>1. DOMAIN r.map = DOMAIN s.map
    BY <1>4, <1>6
  <2> QED BY <1>2, <1>6, <2>1 DEF Broken, Consistent
<1>8. q \in PoolTypes /\ Books(q) /\ SameWorkers(r, q)
  BY <1>1, <1>3, <1>6, <1>7, WrappedKeeps
<1>9. Consistent(variant, q, DOMAIN q.map)
  BY <1>6, <1>8, Unbooked
<1> QED BY <1>7, <1>8, <1>9 DEF SameWorkers, PoolOK, Books, q

LEMMA ExitListener ==
    ASSUME variant \in {"state", "transaction"},
           NEW p, Books(p), NEW w, Broken(variant, p, w) \/ Replaced(variant, p, w)
    PROVE  LET q == HandleExit(p, w)
           IN  Replaced(variant, q, w) /\ Books(q) /\ Grown(p, q)
<1> DEFINE s == Started(variant, p)
           r == ReplaceWorker(s, w)
           q == HandleExit(p, w)
<1>1. p \in PoolTypes
  BY DEF Broken, Replaced, Consistent
<1>2. /\ s \in PoolTypes /\ SameWorkers(p, s)
      /\ Broken(variant, s, w) \/ Replaced(variant, s, w)
  <2>1. s \in PoolTypes /\ SameWorkers(p, s)
    BY <1>1, StartedKeeps
  <2> HIDE DEF s
  <2> QED BY <2>1, Unbooked
<1>3. Wrapped(variant, p, r, q) \/ ~ SameBooks(s, r)
  <2>1. CASE variant = "state"
    BY <2>1 DEF HandleExit, ExitWithState, Wrapped, Started
  <2>2. CASE variant = "transaction"
    <3>1. q = ExitWithTransaction(p, w)
      BY <2>2 DEF HandleExit
    <3> QED BY <2>2, <3>1 DEF ExitWithTransaction, Wrapped, Started
  <2> QED BY <2>1, <2>2
<1> HIDE DEF s, q
<1>4. Replaced(variant, r, w) /\ SameBooks(s, r) /\ Grown(s, r)
  <2>1. CASE Broken(variant, s, w)
    BY <2>1, ReplaceBroken DEF Broken, Replaced
  <2>2. CASE Replaced(variant, s, w)
    BY <2>2, ReplaceReplaced DEF Replaced
  <2> QED BY <1>2, <2>1, <2>2
<1> HIDE DEF r
<1>5. r \in PoolTypes
  BY <1>4 DEF Replaced, Consistent
<1>6. q \in PoolTypes /\ Books(q) /\ SameWorkers(r, q)
  BY <1>1, <1>3, <1>4, <1>5, WrappedKeeps
<1>7. Replaced(variant, q, w)
  BY <1>4, <1>6, Unbooked
<1> QED BY <1>2, <1>4, <1>6, <1>7 DEF SameWorkers, Grown, q

(* The error listener of the pool with state keeps the worker.             *)
LEMMA ErrorListener ==
    ASSUME variant = "state",
           NEW p, Books(p), NEW w, Broken(variant, p, w) \/ Failed(variant, p, w)
    PROVE  LET q == HandleError(p, w)
           IN  /\ Broken(variant, p, w) => Broken(variant, q, w)
               /\ Failed(variant, p, w) => Failed(variant, q, w)
               /\ Books(q) /\ q.threads = p.threads
<1> DEFINE r == MarkIdle(p, w)
           q == HandleError(p, w)
<1>1. p \in PoolTypes /\ w \in DOMAIN p.map
  BY DEF Broken, Failed, Consistent
<1>2. q = ProcessQueue(r)
  BY <1>1 DEF HandleError, ErrorWithState, MarkWorkerAsIdleOrReset
<1>3. /\ Broken(variant, p, w) => Broken(variant, r, w)
      /\ Failed(variant, p, w) => Failed(variant, r, w)
      /\ SameBooks(p, r) /\ r.threads = p.threads
  <2>1. CASE Broken(variant, p, w)
    <3>1. /\ Consistent(variant, r, DOMAIN p.map \ {w}) /\ SameBooks(p, r)
          /\ DOMAIN r.map = DOMAIN p.map /\ r.map[w].worker = p.map[w].worker
          /\ r.threads = p.threads
      BY <2>1, MarkIdleConsistent DEF Broken
    <3> HIDE DEF r
    <3>2. Broken(variant, r, w)
      BY <2>1, <3>1 DEF Broken
    <3>3. Failed(variant, p, w) => Failed(variant, r, w)
      <4> SUFFICES ASSUME Failed(variant, p, w) PROVE Failed(variant, r, w)
        OBVIOUS
      <4>1. Consistent(variant, MarkIdle(p, w), DOMAIN p.map)
        BY MarkIdleConsistent DEF Failed
      <4> QED BY <3>1, <4>1 DEF Failed, r
    <3> QED BY <3>1, <3>2, <3>3
  <2>2. CASE Failed(variant, p, w)
    <3>1. /\ Consistent(variant, r, DOMAIN p.map) /\ SameBooks(p, r)
          /\ DOMAIN r.map = DOMAIN p.map /\ r.map[w].worker = p.map[w].worker
          /\ r.threads = p.threads
      BY <2>2, MarkIdleConsistent DEF Failed
    <3> HIDE DEF r
    <3>2. Failed(variant, r, w)
      BY <2>2, <3>1 DEF Failed
    <3>3. Broken(variant, p, w) => Broken(variant, r, w)
      BY <2>1
    <3> QED BY <3>1, <3>2, <3>3
  <2> QED BY <2>1, <2>2
<1> HIDE DEF r
<1>4. r \in PoolTypes /\ Books(r)
  BY <1>3 DEF Broken, Failed, Consistent, Books, SameBooks
<1>5. q \in PoolTypes /\ Books(q) /\ SameWorkers(r, q)
  BY <1>2, <1>4, ProcessQueueBooks
<1> QED BY <1>3, <1>5, Unbooked DEF SameWorkers, q

(* The loop over listeners: one call's...                                  *)
LEMMA HeardOnce ==
    ASSUME NEW p, NEW w, NEW event
    PROVE  Heard(p, w, event, 1) = CallListener(WorkerListener(p, w, event), w, event)
<1> DEFINE after[i \in 0..1] ==
               IF i = 0 THEN WorkerListener(p, w, event) ELSE CallListener(after[i - 1], w, event)
           first == WorkerListener(p, w, event)
           second == CallListener(first, w, event)
           f == [i \in 0..1 |-> IF i = 0 THEN first ELSE second]
<1>1. f = [i \in 0..1 |-> IF i = 0 THEN first ELSE CallListener(f[i - 1], w, event)]
  <2>1. ASSUME NEW i \in 0..1, i # 0 PROVE second = CallListener(f[i - 1], w, event)
    <3>1. i - 1 = 0 /\ i - 1 \in 0..1
      BY <2>1
    <3>2. f[i - 1] = first
      BY <3>1
    <3> QED BY <3>2
  <2> HIDE DEF first, second
  <2> QED BY <2>1
<1>2. after = [i \in 0..1 |-> IF i = 0 THEN first ELSE CallListener(after[i - 1], w, event)]
  <2> HIDE DEF f
  <2> QED BY <1>1, Zenon
<1> HIDE DEF first, after
<1>3. 0 \in 0..1 /\ 1 \in 0..1 /\ 1 - 1 = 0 /\ 1 # 0
  OBVIOUS
<1>4. after[0] = first
  BY <1>2, <1>3
<1>5. after[1] = CallListener(after[0], w, event)
  BY <1>2, <1>3
<1> QED BY <1>4, <1>5 DEF Heard, after, first

(* ... or those of any number, in a set of pools that each stays in.       *)
LEMMA HeardStays ==
    ASSUME NEW p, NEW w, NEW event, NEW n \in Nat, NEW S, WorkerListener(p, w, event) \in S,
           \A q \in S : CallListener(q, w, event) \in S
    PROVE  Heard(p, w, event, n) \in S
<1> DEFINE after[i \in 0..n] ==
               IF i = 0 THEN WorkerListener(p, w, event) ELSE CallListener(after[i - 1], w, event)
           first == WorkerListener(p, w, event)
           turns == [i \in 1..n |-> [q \in S |-> CallListener(q, w, event)]]
<1>1. turns \in [1..n -> [S -> S]]
  OBVIOUS
<1>2. PICK f \in [0..n -> S] : f[0] = first /\ \A i \in 1..n : f[i] = turns[i][f[i - 1]]
  <2> HIDE DEF turns, first, after
  <2> QED BY <1>1, LoopExists DEF first
<1>3. f = [i \in 0..n |-> IF i = 0 THEN first ELSE CallListener(f[i - 1], w, event)]
  <2>1. ASSUME NEW i \in 1..n PROVE f[i] = CallListener(f[i - 1], w, event)
    <3>1. f[i - 1] \in S
      OBVIOUS
    <3>2. turns[i][f[i - 1]] = CallListener(f[i - 1], w, event)
      BY <3>1
    <3> QED BY <1>2, <3>2
  <2>2. f = [i \in 0..n |-> f[i]]
    OBVIOUS
  <2>3. \A i \in 0..n : i = 0 \/ i \in 1..n
    OBVIOUS
  <2> HIDE DEF first
  <2> QED BY <1>2, <2>1, <2>2, <2>3
<1>4. after = [i \in 0..n |-> IF i = 0 THEN first ELSE CallListener(after[i - 1], w, event)]
  BY <1>3, Zenon
<1> DEFINE Reached == {i \in Nat : i <= n => after[i] \in S}
<1> HIDE DEF after
<1>5. 0 \in Reached
  BY <1>4
<1>6. ASSUME NEW i \in Nat, i \in Reached PROVE i + 1 \in Reached
  <2> SUFFICES ASSUME i + 1 <= n PROVE after[i + 1] \in S
    OBVIOUS
  <2>1. i + 1 \in 0..n /\ i + 1 # 0 /\ (i + 1) - 1 = i /\ after[i] \in S
    BY <1>6
  <2>2. after[i + 1] = CallListener(after[i], w, event)
    BY <1>4, <2>1
  <2> QED BY <2>1, <2>2
<1>7. n \in Reached
  <2> HIDE DEF Reached
  <2> QED BY <1>5, <1>6, Induction
<1> QED BY <1>7 DEF Heard, after

-----------------------------------------------------------------------------
(* The events                                                              *)

LEMMA EndsFields ==
    ASSUME PoolOK(variant, pool), NEW t \in 1..Len(pool.threads),
           NEW status \in {"replaced", "failed", "exited"}
    PROVE  LET q == Ends(t, status)
           IN  /\ q \in PoolTypes /\ Numbered(q) /\ PostedOK(q) /\ OfferedOK(q)
               /\ q.map = pool.map /\ q.available = pool.available /\ q.nextId = pool.nextId
               /\ SameBooks(pool, q)
               /\ Len(q.threads) = Len(pool.threads)
               /\ q.threads[t].status = status
               /\ q.threads[t].id = pool.threads[t].id
               /\ q.threads[t].posted = pool.threads[t].posted
               /\ \A u \in 1..Len(pool.threads) \ {t} : q.threads[u] = pool.threads[u]
<1> DEFINE thread == [pool.threads[t] EXCEPT !.status = status]
           ts == [pool.threads EXCEPT ![t] = thread]
           q == [pool EXCEPT !.threads = ts]
<1>1. Ends(t, status) = q
  BY DEF Ends
<1>2. /\ pool \in PoolTypes /\ pool.threads \in Seq(ThreadType)
      /\ pool.threads[t] \in ThreadType
  BY PoolFields, ThreadTyped DEF PoolOK, Consistent
<1>3. /\ thread \in ThreadType /\ thread.status = status
      /\ thread.id = pool.threads[t].id /\ thread.posted = pool.threads[t].posted
  BY <1>2 DEF ThreadType
<1> HIDE DEF thread
<1>4. /\ ts \in Seq(ThreadType) /\ Len(ts) = Len(pool.threads) /\ ts[t] = thread
      /\ \A u \in 1..Len(pool.threads) \ {t} : ts[u] = pool.threads[u]
  BY <1>2, <1>3
<1> HIDE DEF ts
<1>5. q \in PoolTypes
  BY <1>2, <1>4 DEF PoolTypes
<1>6. /\ q.map = pool.map /\ q.available = pool.available /\ q.nextId = pool.nextId
      /\ SameBooks(pool, q) /\ q.threads = ts
  BY <1>2 DEF PoolTypes, SameBooks
<1> HIDE DEF q
<1>7. Numbered(q)
  BY <1>3, <1>4, <1>6 DEF PoolOK, Consistent, Numbered
<1>8. PostedOK(q)
  BY <1>3, <1>4, <1>6 DEF PoolOK, Consistent, PostedOK
<1>9. OfferedOK(q)
  BY <1>6 DEF PoolOK, Consistent, OfferedOK
<1> QED BY <1>1, <1>3, <1>4, <1>5, <1>6, <1>7, <1>8, <1>9

(* When the thread of a worker that is there ends for good, the rest of    *)
(* the pool is as it was.                                                  *)
LEMMA EndBreaks ==
    ASSUME PoolOK(variant, pool), NEW t \in 1..Len(pool.threads), Attached(variant, pool, t),
           NEW status \in {"replaced", "failed", "exited"},
           variant # "state" \/ status # "failed"
    PROVE  LET q == Ends(t, status)
               w == pool.threads[t].id
           IN  /\ Broken(variant, q, w) /\ Books(q)
               /\ status # "failed" =>
                     \A u \in 1..Len(q.threads) : Gone(variant, q, u) => q.threads[u].id # w
<1> DEFINE q == Ends(t, status)
           w == pool.threads[t].id
           S == DOMAIN pool.map \ {w}
<1>1. /\ pool \in PoolTypes /\ Consistent(variant, pool, DOMAIN pool.map)
      /\ w \in DOMAIN pool.map /\ pool.map[w].worker = t
  BY DEF PoolOK, Consistent, AttachedOK
<1>2. /\ q \in PoolTypes /\ Numbered(q) /\ PostedOK(q) /\ OfferedOK(q)
      /\ q.map = pool.map /\ q.available = pool.available /\ q.nextId = pool.nextId
      /\ SameBooks(pool, q)
      /\ Len(q.threads) = Len(pool.threads)
      /\ q.threads[t].status = status
      /\ q.threads[t].id = w
      /\ q.threads[t].posted = pool.threads[t].posted
      /\ \A u \in 1..Len(pool.threads) \ {t} : q.threads[u] = pool.threads[u]
  BY <1>1, EndsFields
<1> HIDE DEF q, w
<1>3. ASSUME NEW u \in S PROVE EntryOK(variant, q, u)
  <2>1. EntryOK(variant, pool, u)
    BY <1>1 DEF Consistent
  <2>2. pool.map[u].worker # t
    BY <2>1 DEF EntryOK, w
  <2> QED BY <1>2, <2>1, <2>2 DEF EntryOK
<1>4. ASSUME NEW u \in 1..Len(q.threads)
      PROVE  /\ Attached(variant, q, u) => q.threads[u].id \in S /\ q.map[q.threads[u].id].worker = u
             /\ Gone(variant, q, u) => q.threads[u].id \notin S
             /\ Gone(variant, q, u) /\ status # "failed" => q.threads[u].id # w
  <2>1. CASE u = t
    BY <1>2, <2>1 DEF Attached, Gone
  <2>2. CASE u # t
    <3>1. /\ Attached(variant, pool, u) => pool.threads[u].id \in DOMAIN pool.map
                                              /\ pool.map[pool.threads[u].id].worker = u
          /\ Gone(variant, pool, u) => pool.threads[u].id \notin DOMAIN pool.map
      BY <1>1, <1>2 DEF Consistent, AttachedOK
    <3>2. q.threads[u] = pool.threads[u]
      BY <1>2, <2>2
    <3>3. Attached(variant, q, u) => q.threads[u].id \in S /\ q.map[q.threads[u].id].worker = u
      BY <1>1, <1>2, <2>2, <3>1, <3>2 DEF Attached
    <3>4. Gone(variant, q, u) => q.threads[u].id \notin DOMAIN pool.map
      BY <3>1, <3>2 DEF Gone
    <3> QED BY <1>1, <3>3, <3>4
  <2> QED BY <2>1, <2>2
<1>5. AttachedOK(variant, q, S)
  BY <1>4 DEF AttachedOK
<1>6. Broken(variant, q, w)
  BY <1>1, <1>2, <1>3, <1>5 DEF Broken, Consistent, PoolOK
<1>7. Books(q)
  BY <1>2 DEF PoolOK, Books, SameBooks
<1> QED BY <1>4, <1>6, <1>7 DEF q, w

(* In the pool with state the worker stays when its thread fails.          *)
LEMMA EndFails ==
    ASSUME variant = "state",
           PoolOK(variant, pool), NEW t \in 1..Len(pool.threads), Attached(variant, pool, t)
    PROVE  LET q == Ends(t, "failed") IN Failed(variant, q, pool.threads[t].id) /\ Books(q)
<1> DEFINE q == Ends(t, "failed")
           w == pool.threads[t].id
<1>1. /\ pool \in PoolTypes /\ Consistent(variant, pool, DOMAIN pool.map)
      /\ w \in DOMAIN pool.map /\ pool.map[w].worker = t
  BY DEF PoolOK, Consistent, AttachedOK
<1>2. /\ q \in PoolTypes /\ Numbered(q) /\ PostedOK(q) /\ OfferedOK(q)
      /\ q.map = pool.map /\ q.available = pool.available /\ q.nextId = pool.nextId
      /\ SameBooks(pool, q)
      /\ Len(q.threads) = Len(pool.threads)
      /\ q.threads[t].status = "failed"
      /\ q.threads[t].id = w
      /\ q.threads[t].posted = pool.threads[t].posted
      /\ \A u \in 1..Len(pool.threads) \ {t} : q.threads[u] = pool.threads[u]
  BY <1>1, EndsFields
<1> HIDE DEF q, w
<1>3. ASSUME NEW u \in DOMAIN pool.map PROVE EntryOK(variant, q, u)
  <2>1. EntryOK(variant, pool, u)
    BY <1>1 DEF Consistent
  <2>2. CASE pool.map[u].worker = t
    BY <1>2, <2>1, <2>2 DEF EntryOK, w
  <2>3. CASE pool.map[u].worker # t
    BY <1>2, <2>1, <2>3 DEF EntryOK
  <2> QED BY <2>2, <2>3
<1>4. AttachedOK(variant, q, DOMAIN pool.map)
  <2>1. ASSUME NEW u \in 1..Len(q.threads), Attached(variant, q, u)
        PROVE  q.threads[u].id \in DOMAIN pool.map /\ q.map[q.threads[u].id].worker = u
    <3>1. CASE u = t
      BY <1>1, <1>2, <3>1
    <3>2. CASE u # t
      BY <1>1, <1>2, <2>1, <3>2 DEF Consistent, AttachedOK, Attached
    <3> QED BY <3>1, <3>2
  <2> QED BY <2>1 DEF AttachedOK, Gone
<1>5. Failed(variant, q, w)
  BY <1>1, <1>2, <1>3, <1>4 DEF Failed, Consistent, PoolOK
<1>6. Books(q)
  BY <1>2 DEF PoolOK, Books, SameBooks
<1> QED BY <1>5, <1>6 DEF q, w

(* In the pool with transactions the exit finds the worker replaced.       *)
LEMMA EndAfterFailure ==
    ASSUME PoolOK(variant, pool), NEW t \in 1..Len(pool.threads), Gone(variant, pool, t)
    PROVE  LET q == Ends(t, "exited") IN Replaced(variant, q, pool.threads[t].id) /\ Books(q)
<1> DEFINE q == Ends(t, "exited")
           w == pool.threads[t].id
<1>1. /\ pool \in PoolTypes /\ Consistent(variant, pool, DOMAIN pool.map)
      /\ w \notin DOMAIN pool.map
  BY DEF PoolOK, Consistent, AttachedOK
<1>2. /\ q \in PoolTypes /\ Numbered(q) /\ PostedOK(q) /\ OfferedOK(q)
      /\ q.map = pool.map /\ q.available = pool.available /\ q.nextId = pool.nextId
      /\ SameBooks(pool, q)
      /\ Len(q.threads) = Len(pool.threads)
      /\ q.threads[t].status = "exited"
      /\ q.threads[t].id = w
      /\ q.threads[t].posted = pool.threads[t].posted
      /\ \A u \in 1..Len(pool.threads) \ {t} : q.threads[u] = pool.threads[u]
  BY <1>1, EndsFields
<1> HIDE DEF q, w
<1>3. ASSUME NEW u \in DOMAIN pool.map PROVE EntryOK(variant, q, u)
  <2>1. EntryOK(variant, pool, u)
    BY <1>1 DEF Consistent
  <2>2. pool.map[u].worker # t
    BY <1>1, <2>1 DEF EntryOK, w
  <2> QED BY <1>2, <2>1, <2>2 DEF EntryOK
<1>4. AttachedOK(variant, q, DOMAIN pool.map)
  <2>1. ASSUME NEW u \in 1..Len(q.threads), Attached(variant, q, u)
        PROVE  q.threads[u].id \in DOMAIN pool.map /\ q.map[q.threads[u].id].worker = u
    <3>1. u # t
      BY <1>2, <2>1 DEF Attached
    <3> QED BY <1>1, <1>2, <2>1, <3>1 DEF Consistent, AttachedOK, Attached
  <2>2. ASSUME NEW u \in 1..Len(q.threads), Gone(variant, q, u)
        PROVE  q.threads[u].id \notin DOMAIN pool.map
    <3>1. u # t
      BY <1>2, <2>2 DEF Gone
    <3> QED BY <1>1, <1>2, <2>2, <3>1 DEF Consistent, AttachedOK, Gone
  <2> QED BY <2>1, <2>2 DEF AttachedOK
<1>5. Replaced(variant, q, w)
  BY <1>1, <1>2, <1>3, <1>4 DEF Replaced, Consistent, PoolOK
<1>6. Books(q)
  BY <1>2 DEF PoolOK, Books, SameBooks
<1> QED BY <1>5, <1>6 DEF q, w

(* A thread that works has one call, so an event is heard by the listener  *)
(* of its worker and by that call's.                                       *)
LEMMA EmitOnce ==
    ASSUME NEW p, NEW t, Len(p.threads[t].posted) = 1, NEW event
    PROVE  LET w == p.threads[t].id
           IN  Emit(p, t, event) = CallListener(WorkerListener(p, w, event), w, event)
BY HeardOnce DEF Emit

LEMMA ReplyKeeps ==
    ASSUME Inv, NEW t \in 1..Len(pool.threads), Working(t)
    PROVE  PoolOK(variant, Emit(Ends(t, "replaced"), t, "message"))
<1> DEFINE w == pool.threads[t].id
           p0 == Ends(t, "replaced")
           p1 == WorkerListener(p0, w, "message")
<1>1. PoolOK(variant, pool) /\ variant \in {"state", "transaction"}
  BY DEF Inv
<1>2. Attached(variant, pool, t) /\ Len(pool.threads[t].posted) = 1
  BY <1>1 DEF Attached, Working, PoolOK, Consistent, PostedOK
<1>3. /\ Broken(variant, p0, w) /\ Books(p0)
      /\ \A u \in 1..Len(p0.threads) : Gone(variant, p0, u) => p0.threads[u].id # w
  BY <1>1, <1>2, EndBreaks
<1>4. p0.threads[t].id = w /\ p0.threads[t].posted = pool.threads[t].posted
  BY <1>1, EndsFields
<1> HIDE DEF w, p0
<1>5. Broken(variant, p1, w) /\ Books(p1) /\ p1.threads = p0.threads
  BY <1>1, <1>3, InitListener
<1> HIDE DEF p1
<1>6. PoolOK(variant, CallListener(p1, w, "message"))
  BY <1>1, <1>3, <1>5, MessageListener DEF Gone
<1>7. Emit(p0, t, "message") = CallListener(p1, w, "message")
  BY <1>2, <1>4, EmitOnce DEF p1
<1> QED BY <1>6, <1>7 DEF p0

(* A pool in which the worker of an event is gone for good is as it should *)
(* be.                                                                     *)
LEMMA ReplacedOK ==
    ASSUME NEW v, NEW p, NEW w, Replaced(v, p, w), Books(p)
    PROVE  PoolOK(v, p)
BY DEF Replaced, Books, PoolOK

LEMMA FailedOK ==
    ASSUME NEW v, NEW p, NEW w, Failed(v, p, w), Books(p)
    PROVE  PoolOK(v, p)
BY DEF Failed, Books, PoolOK

(* The exit of a thread: its worker is replaced once, however many         *)
(* listeners hear of it.                                                   *)
LEMMA ExitHeard ==
    ASSUME variant \in {"state", "transaction"},
           NEW p, NEW w, Broken(variant, p, w) \/ Replaced(variant, p, w), Books(p), NEW n \in Nat
    PROVE  PoolOK(variant, Heard(p, w, "exit", n))
<1> DEFINE S == {q \in PoolTypes : Replaced(variant, q, w) /\ Books(q)}
           q0 == HandleExit(p, w)
<1>1. WorkerListener(p, w, "exit") = q0 /\ \A q : CallListener(q, w, "exit") = HandleExit(q, w)
  BY DEF WorkerListener, CallListener
<1>2. q0 \in S
  <2>1. Replaced(variant, q0, w) /\ Books(q0)
    BY ExitListener
  <2> QED BY <2>1 DEF Replaced, Consistent
<1>3. ASSUME NEW q \in S PROVE HandleExit(q, w) \in S
  <2> DEFINE r == HandleExit(q, w)
  <2>1. Replaced(variant, r, w) /\ Books(r)
    BY ExitListener
  <2> HIDE DEF r
  <2>2. r \in S
    BY <2>1 DEF Replaced, Consistent
  <2> QED BY <2>2 DEF r
<1>4. Heard(p, w, "exit", n) \in S
  <2> HIDE DEF S, q0
  <2> QED BY <1>1, <1>2, <1>3, HeardStays
<1> QED BY <1>4, ReplacedOK

LEMMA ExitKeeps ==
    ASSUME Inv, NEW t \in 1..Len(pool.threads), pool.threads[t].status = "failed"
    PROVE  PoolOK(variant, Emit(Ends(t, "exited"), t, "exit"))
<1> DEFINE w == pool.threads[t].id
           p == Ends(t, "exited")
           n == Len(p.threads[t].posted)
<1>1. PoolOK(variant, pool) /\ variant \in {"state", "transaction"}
  BY DEF Inv
<1>2. p.threads[t].id = w /\ p.threads[t].posted = pool.threads[t].posted
  BY <1>1, EndsFields
<1>3. n \in Nat
  <2>1. pool.threads[t].posted \in Seq(Calls)
    BY <1>1, ThreadTyped DEF PoolOK, Consistent
  <2> HIDE DEF p
  <2> QED BY <1>2, <2>1
<1>4. (Broken(variant, p, w) \/ Replaced(variant, p, w)) /\ Books(p)
  <2>1. CASE variant = "state"
    <3>1. Attached(variant, pool, t)
      BY <2>1 DEF Attached
    <3> QED BY <1>1, <3>1, EndBreaks
  <2>2. CASE variant = "transaction"
    <3>1. Gone(variant, pool, t)
      BY <2>2 DEF Gone
    <3> QED BY <1>1, <3>1, EndAfterFailure
  <2> QED BY <1>1, <2>1, <2>2
<1> HIDE DEF p, w, n
<1>5. PoolOK(variant, Heard(p, w, "exit", n))
  BY <1>1, <1>3, <1>4, ExitHeard
<1>6. Emit(p, t, "exit") = Heard(p, w, "exit", n)
  BY <1>2 DEF Emit, n
<1> QED BY <1>5, <1>6 DEF p

(* The listeners of an error, in both classes.                             *)
LEMMA ErrorHeard ==
    ASSUME NEW p, NEW w
    PROVE  /\ WorkerListener(p, w, "error") = HandleError(p, w)
           /\ CallListener(p, w, "error") = HandleError(p, w)
           /\ variant # "state" => HandleError(p, w) = HandleExit(p, w)
BY DEF WorkerListener, CallListener, HandleError, HandleExit, ErrorWithTransaction,
       ExitWithTransaction

LEMMA ThrowKeeps ==
    ASSUME Inv, NEW t \in 1..Len(pool.threads), Working(t)
    PROVE  PoolOK(variant, Emit(Ends(t, "failed"), t, "error"))
<1> DEFINE w == pool.threads[t].id
           p0 == Ends(t, "failed")
           p1 == HandleError(p0, w)
           p2 == HandleError(p1, w)
<1>1. PoolOK(variant, pool) /\ variant \in {"state", "transaction"}
  BY DEF Inv
<1>2. Attached(variant, pool, t) /\ Len(pool.threads[t].posted) = 1
  BY <1>1 DEF Attached, Working, PoolOK, Consistent, PostedOK
<1>3. p0.threads[t].id = w /\ p0.threads[t].posted = pool.threads[t].posted
  BY <1>1, EndsFields
<1>4. Emit(p0, t, "error") = p2
  <2> HIDE DEF p0, w
  <2> QED BY <1>2, <1>3, EmitOnce, ErrorHeard
<1>5. CASE variant = "state"
  <2>1. Failed(variant, p0, w) /\ Books(p0)
    BY <1>1, <1>2, <1>5, EndFails
  <2> HIDE DEF p0, w
  <2>2. Failed(variant, p1, w) /\ Books(p1)
    BY <1>5, <2>1, ErrorListener
  <2> HIDE DEF p1
  <2>3. Failed(variant, p2, w) /\ Books(p2)
    BY <1>5, <2>2, ErrorListener
  <2> HIDE DEF p2
  <2> QED BY <1>4, <2>3, FailedOK DEF p0
<1>6. CASE variant = "transaction"
  <2>1. Broken(variant, p0, w) /\ Books(p0)
    BY <1>1, <1>2, <1>6, EndBreaks
  <2> HIDE DEF p0, w
  <2>2. Replaced(variant, p1, w) /\ Books(p1)
    BY <1>1, <1>6, <2>1, ExitListener, ErrorHeard
  <2> HIDE DEF p1
  <2>3. Replaced(variant, p2, w) /\ Books(p2)
    BY <1>1, <1>6, <2>2, ExitListener, ErrorHeard
  <2> HIDE DEF p2
  <2> QED BY <1>4, <2>3, ReplacedOK DEF p0
<1> QED BY <1>1, <1>5, <1>6

(* The exit in the same turn comes after both listeners of the error.      *)
LEMMA ThrowAndExitKeeps ==
    ASSUME Inv, NEW t \in 1..Len(pool.threads), Working(t)
    PROVE  PoolOK(variant, Emit(Emit(Ends(t, "exited"), t, "error"), t, "exit"))
<1> DEFINE w == pool.threads[t].id
           p0 == Ends(t, "exited")
           p1 == HandleError(p0, w)
           p2 == HandleError(p1, w)
<1>1. PoolOK(variant, pool) /\ variant \in {"state", "transaction"}
  BY DEF Inv
<1>2. Attached(variant, pool, t) /\ Len(pool.threads[t].posted) = 1
  BY <1>1 DEF Attached, Working, PoolOK, Consistent, PostedOK
<1>3. /\ p0.threads[t].id = w /\ p0.threads[t].posted = pool.threads[t].posted
      /\ t \in 1..Len(p0.threads)
  BY <1>1, EndsFields
<1>4. Broken(variant, p0, w) /\ Books(p0)
  BY <1>1, <1>2, EndBreaks
<1>5. Emit(p0, t, "error") = p2
  <2> HIDE DEF p0, w
  <2> QED BY <1>2, <1>3, EmitOnce, ErrorHeard
<1> HIDE DEF p0, w
<1>6. (Broken(variant, p2, w) \/ Replaced(variant, p2, w)) /\ Books(p2) /\ p2.threads[t] = p0.threads[t]
  <2>1. CASE variant = "state"
    <3>1. Broken(variant, p1, w) /\ Books(p1) /\ p1.threads = p0.threads
      BY <1>4, <2>1, ErrorListener
    <3> HIDE DEF p1
    <3>2. Broken(variant, p2, w) /\ Books(p2) /\ p2.threads = p1.threads
      BY <2>1, <3>1, ErrorListener
    <3> QED BY <3>1, <3>2
  <2>2. CASE variant = "transaction"
    <3>1. Replaced(variant, p1, w) /\ Books(p1) /\ Grown(p0, p1)
      BY <1>1, <1>4, <2>2, ExitListener, ErrorHeard
    <3> HIDE DEF p1
    <3>2. Replaced(variant, p2, w) /\ Books(p2) /\ Grown(p1, p2)
      BY <1>1, <2>2, <3>1, ExitListener, ErrorHeard
    <3> HIDE DEF p2
    <3>3. p0 \in PoolTypes /\ p1 \in PoolTypes
      BY <1>4, <3>1 DEF Broken, Replaced, Consistent
    <3>4. Len(p0.threads) \in Nat /\ Len(p1.threads) \in Nat
      BY <3>3, PoolFields
    <3> QED BY <1>3, <3>1, <3>2, <3>4 DEF Grown
  <2> QED BY <1>1, <2>1, <2>2
<1> HIDE DEF p2
<1>7. PoolOK(variant, Heard(p2, w, "exit", 1))
  BY <1>1, <1>6, ExitHeard
<1>8. Emit(p2, t, "exit") = Heard(p2, w, "exit", 1)
  BY <1>2, <1>3, <1>6 DEF Emit
<1> QED BY <1>5, <1>7, <1>8 DEF p0

-----------------------------------------------------------------------------
(* The calls and the microtasks                                            *)

LEMMA LaterKeeps ==
    ASSUME NEW v, NEW p, NEW j \in JobType, PoolOK(v, p)
    PROVE  PoolOK(v, Later(p, j))
<1> DEFINE q == Later(p, j)
<1>1. p \in PoolTypes /\ p.jobs \in Seq(JobType)
  BY PoolFields DEF PoolOK, Consistent
<1>2. /\ q \in PoolTypes /\ SameWorkers(p, q)
      /\ q.jobs = Append(p.jobs, j) /\ q.lastId = p.lastId /\ q.open = p.open
  BY <1>1, LaterTyped
<1> HIDE DEF q
<1>3. q.open \subseteq Ending(q.jobs)
  BY <1>1, <1>2, EndingAppend DEF PoolOK
<1>4. Consistent(v, q, DOMAIN q.map) /\ q.map = p.map
  BY <1>2, Unbooked DEF PoolOK, SameWorkers
<1> QED BY <1>3, <1>4 DEF PoolOK, q

(* A worker on offer is given a call: it is busy and off the list, and its *)
(* thread works, unless it has failed.                                     *)
LEMMA PostKeeps ==
    ASSUME NEW v, NEW p, PoolOK(v, p), NEW w \in Range(p.available), NEW call \in Calls
    PROVE  PoolOK(v, Post(p, w, call))
<1> DEFINE t == p.map[w].worker
           thread == Sent(p.threads[t], call)
           m == [p.map EXCEPT ![w].state = "busy"]
           a == Delete(p.available, w)
           ts == [p.threads EXCEPT ![t] = thread]
           q == [p EXCEPT !.map = m, !.available = a, !.threads = ts]
<1>1. Post(p, w, call) = q
  BY DEF Post
<1>2. /\ p \in PoolTypes /\ p.map \in [DOMAIN p.map -> EntryType] /\ DOMAIN p.map \subseteq Nat
      /\ p.available \in Seq(Nat) /\ IsInjective(p.available)
      /\ Range(p.available) \subseteq DOMAIN p.map /\ w \in DOMAIN p.map
      /\ p.threads \in Seq(ThreadType)
  BY PoolFields DEF PoolOK, Consistent, OfferedOK
<1>3. /\ t \in 1..Len(p.threads) /\ p.threads[t].id = w
      /\ \/ v = "state" /\ p.threads[t].status = "failed"
         \/ p.threads[t].status = "ready"
  BY <1>2 DEF PoolOK, Consistent, EntryOK
<1>4. p.threads[t] \in ThreadType /\ p.threads[t].posted \in Seq(Calls)
  BY <1>2, <1>3, ThreadTyped
<1>5. p.threads[t].status = "ready" => p.threads[t].posted = <<>>
  BY <1>3 DEF PoolOK, Consistent, PostedOK
<1>6. /\ DOMAIN m = DOMAIN p.map /\ m[w].worker = t /\ m[w].state = "busy"
      /\ \A u \in DOMAIN p.map \ {w} : m[u] = p.map[u]
  BY <1>2 DEF EntryType
<1>7. m \in Maps
  <2>1. m \in [DOMAIN m -> EntryType]
    BY <1>2 DEF EntryType
  <2> HIDE DEF m
  <2> QED BY <1>2, <1>6, <2>1, MapTyped
<1>8. a \in Seq(Nat) /\ IsInjective(a) /\ Range(a) = Range(p.available) \ {w}
  BY <1>2, DeleteElement
<1>9. /\ thread \in ThreadType /\ thread.id = w
      /\ p.threads[t].status = "failed" => thread.status = "failed"
      /\ p.threads[t].status = "ready" => thread.status = "working" /\ Len(thread.posted) = 1
  <2> DEFINE posted == Append(p.threads[t].posted, call)
  <2>1. posted \in Seq(Calls)
    BY <1>4
  <2>2. p.threads[t].status = "ready" => Len(posted) = 1
    BY <1>5
  <2>3. thread = [p.threads[t] EXCEPT
                    !.status = IF @ \in {"failed", "exited"} THEN @ ELSE "working",
                    !.posted = posted]
    BY DEF Sent
  <2> HIDE DEF posted, thread
  <2> QED BY <1>3, <1>4, <2>1, <2>2, <2>3 DEF ThreadType
<1> HIDE DEF m, a, thread
<1>10. /\ ts \in Seq(ThreadType) /\ Len(ts) = Len(p.threads) /\ ts[t] = thread
       /\ \A u \in 1..Len(p.threads) \ {t} : ts[u] = p.threads[u]
  BY <1>2, <1>3, <1>9
<1> HIDE DEF ts
<1>11. q \in PoolTypes
  BY <1>2, <1>7, <1>8, <1>10 DEF PoolTypes
<1>12. /\ q.map = m /\ q.available = a /\ q.threads = ts
       /\ q.nextId = p.nextId /\ SameBooks(p, q)
  BY <1>2 DEF PoolTypes, SameBooks
<1> HIDE DEF q, t
<1>13. Numbered(q)
  BY <1>3, <1>6, <1>9, <1>10, <1>12 DEF PoolOK, Consistent, Numbered
<1>14. PostedOK(q)
  BY <1>3, <1>9, <1>10, <1>12 DEF PoolOK, Consistent, PostedOK
<1>15. OfferedOK(q)
  BY <1>2, <1>6, <1>8, <1>12 DEF OfferedOK
<1>16. ASSUME NEW u \in DOMAIN q.map PROVE EntryOK(v, q, u)
  <2>1. u \in DOMAIN p.map /\ EntryOK(v, p, u)
    BY <1>6, <1>12 DEF PoolOK, Consistent
  <2>2. CASE u = w
    <3>1. /\ q.map[u].worker = t /\ q.map[u].state = "busy" /\ u \notin Range(q.available)
          /\ q.threads[t] = thread /\ t \in 1..Len(q.threads)
      BY <1>3, <1>6, <1>8, <1>10, <1>12, <2>2
    <3> QED BY <1>3, <1>9, <2>2, <3>1 DEF EntryOK
  <2>3. CASE u # w
    <3>1. q.map[u] = p.map[u] /\ (u \in Range(q.available) <=> u \in Range(p.available))
      BY <1>6, <1>8, <1>12, <2>1, <2>3
    <3>2. p.map[u].worker # t /\ p.map[u].worker \in 1..Len(p.threads)
      BY <1>3, <2>1, <2>3 DEF EntryOK
    <3>3. q.threads[p.map[u].worker] = p.threads[p.map[u].worker] /\ Len(q.threads) = Len(p.threads)
      BY <1>10, <1>12, <3>2
    <3> QED BY <2>1, <3>1, <3>3 DEF EntryOK
  <2> QED BY <2>2, <2>3
<1>17. ASSUME NEW u \in 1..Len(q.threads)
       PROVE  /\ Attached(v, q, u) => q.threads[u].id \in DOMAIN q.map
                                         /\ q.map[q.threads[u].id].worker = u
              /\ Gone(v, q, u) => q.threads[u].id \notin DOMAIN q.map
  <2>1. u \in 1..Len(p.threads)
    BY <1>10, <1>12
  <2>2. CASE u = t
    <3>1. q.threads[u] = thread /\ q.map[w].worker = u /\ w \in DOMAIN q.map
      BY <1>2, <1>6, <1>10, <1>12, <2>2
    <3> QED BY <1>3, <1>9, <3>1 DEF Gone
  <2>3. CASE u # t
    <3>1. q.threads[u] = p.threads[u]
      BY <1>10, <1>12, <2>1, <2>3
    <3>2. /\ Attached(v, p, u) => p.threads[u].id \in DOMAIN p.map
                                     /\ p.map[p.threads[u].id].worker = u
          /\ Gone(v, p, u) => p.threads[u].id \notin DOMAIN p.map
      BY <2>1 DEF PoolOK, Consistent, AttachedOK
    <3>3. p.map[p.threads[u].id].worker = u => p.threads[u].id # w
      BY <2>3 DEF t
    <3> QED BY <1>6, <1>12, <3>1, <3>2, <3>3 DEF Attached, Gone
  <2> QED BY <2>2, <2>3
<1>18. Consistent(v, q, DOMAIN q.map)
  BY <1>11, <1>13, <1>14, <1>15, <1>16, <1>17 DEF Consistent, AttachedOK
<1> QED BY <1>1, <1>6, <1>12, <1>18 DEF PoolOK, SameBooks

(* The first microtask is taken from the list.                             *)
LEMMA RestKeeps ==
    ASSUME NEW v, PoolOK(v, pool), pool.jobs # <<>>
    PROVE  /\ Rest \in PoolTypes /\ Consistent(v, Rest, DOMAIN Rest.map)
           /\ SameWorkers(pool, Rest) /\ Rest.open = pool.open
           /\ Cardinality(DOMAIN Rest.map) = MaxWorkers
           /\ job \in JobType
           /\ job.kind \notin {"commit", "end"} => PoolOK(v, Rest)
           /\ Rest.open \subseteq Ending(Rest.jobs) \cup {job.id}
<1> DEFINE s == Tail(pool.jobs)
           q == [pool EXCEPT !.jobs = s]
<1>1. Rest = q
  BY DEF Rest
<1>2. pool \in PoolTypes /\ pool.jobs \in Seq(JobType)
  BY PoolFields DEF PoolOK, Consistent
<1>3. /\ job \in JobType /\ s \in Seq(JobType)
      /\ job.kind \notin {"commit", "end"} => Ending(pool.jobs) \subseteq Ending(s)
      /\ Ending(pool.jobs) \subseteq Ending(s) \cup {job.id}
  BY <1>2, EndingTail DEF job
<1> HIDE DEF s
<1>4. q \in PoolTypes
  BY <1>2, <1>3 DEF PoolTypes
<1>5. SameWorkers(pool, q) /\ q.open = pool.open /\ q.jobs = s
  BY <1>2 DEF PoolTypes, SameWorkers
<1> HIDE DEF q
<1>6. Consistent(v, q, DOMAIN q.map) /\ Cardinality(DOMAIN q.map) = MaxWorkers
  BY <1>4, <1>5, Unbooked DEF PoolOK, SameWorkers
<1> QED BY <1>1, <1>3, <1>4, <1>5, <1>6 DEF PoolOK

-----------------------------------------------------------------------------
(* The steps                                                               *)

LEMMA InitInv == Init => Inv
<1> SUFFICES ASSUME Init PROVE Inv
  OBVIOUS
<1> DEFINE W == 0..(MaxWorkers - 1)
           m == [w \in W |-> [worker |-> w + 1, state |-> "idle"]]
           a == [i \in 1..MaxWorkers |-> i - 1]
           ts == [t \in 1..MaxWorkers |-> [id |-> t - 1, status |-> "ready", posted |-> <<>>]]
           q == [map |-> m, available |-> a, nextId |-> MaxWorkers, threads |-> ts,
                 jobs |-> <<>>, lastId |-> 0, open |-> {}]
<1>1. pool = q
  BY DEF Init
<1>2. MaxWorkers \in Nat /\ MaxWorkers # 0
  BY VariantsAssumption
<1>3. /\ DOMAIN m = W /\ m \in Maps
      /\ \A w \in W : m[w].worker = w + 1 /\ m[w].state = "idle"
  <2>1. m \in [W -> EntryType] /\ W \subseteq Nat
    BY <1>2 DEF EntryType
  <2> QED BY <1>2, <2>1, MapTyped
<1>4. /\ a \in Seq(Nat) /\ Len(a) = MaxWorkers /\ Range(a) = W /\ IsInjective(a)
  <2>1. a \in [1..MaxWorkers -> Nat] /\ DOMAIN a = 1..MaxWorkers
    BY <1>2
  <2>2. a \in Seq(Nat) /\ Len(a) = MaxWorkers
    BY <1>2, <2>1
  <2>3. IsInjective(a)
    BY <1>2 DEF IsInjective
  <2>4. Range(a) = W
    <3>1. \A i \in 1..MaxWorkers : a[i] \in W
      BY <1>2
    <3>2. \A w \in W : w + 1 \in 1..MaxWorkers /\ a[w + 1] = w
      BY <1>2
    <3> HIDE DEF a, W
    <3> QED BY <2>1, <3>1, <3>2 DEF Range
  <2> QED BY <2>2, <2>3, <2>4
<1>5. /\ ts \in Seq(ThreadType) /\ Len(ts) = MaxWorkers
      /\ \A t \in 1..MaxWorkers :
            ts[t].id = t - 1 /\ ts[t].status = "ready" /\ ts[t].posted = <<>>
  <2>1. <<>> \in Seq(Calls)
    OBVIOUS
  <2>2. ASSUME NEW t \in 1..MaxWorkers
        PROVE  [id |-> t - 1, status |-> "ready", posted |-> <<>>] \in ThreadType
    BY <1>2, <2>1 DEF ThreadType
  <2>3. ts \in [1..MaxWorkers -> ThreadType]
    BY <2>2
  <2> QED BY <1>2, <2>3
<1> HIDE DEF m, a, ts
<1>6. q \in PoolTypes
  <2>1. <<>> \in Seq(JobType)
    OBVIOUS
  <2> QED BY <1>2, <1>3, <1>4, <1>5, <2>1 DEF PoolTypes
<1>7. /\ q.map = m /\ q.available = a /\ q.nextId = MaxWorkers /\ q.threads = ts /\ q.open = {}
  OBVIOUS
<1> HIDE DEF q
<1>8. Numbered(q)
  BY <1>2, <1>3, <1>5, <1>7 DEF Numbered
<1>9. PostedOK(q) /\ OfferedOK(q)
  BY <1>3, <1>4, <1>5, <1>7 DEF PostedOK, OfferedOK
<1>10. ASSUME NEW w \in DOMAIN q.map PROVE EntryOK(variant, q, w)
  <2>1. q.map[w].worker = w + 1 /\ q.map[w].state = "idle" /\ w + 1 \in 1..MaxWorkers /\ w \in Nat
    BY <1>2, <1>3, <1>7
  <2>2. w \in Range(q.available)
    BY <1>3, <1>4, <1>7
  <2>3. /\ w + 1 \in 1..Len(q.threads) /\ q.threads[w + 1].id = w
        /\ q.threads[w + 1].status = "ready"
    <3> DEFINE n == w + 1
    <3>1. n \in 1..MaxWorkers /\ n - 1 = w
      BY <2>1
    <3> HIDE DEF n
    <3>2. ts[n].id = w /\ ts[n].status = "ready"
      BY <1>5, <3>1
    <3>3. n \in 1..Len(q.threads) /\ q.threads[n].id = w /\ q.threads[n].status = "ready"
      BY <1>5, <1>7, <3>1, <3>2
    <3> QED BY <3>3 DEF n
  <2> QED BY <2>1, <2>2, <2>3 DEF EntryOK
<1>11. AttachedOK(variant, q, DOMAIN q.map)
  BY <1>5, <1>7 DEF AttachedOK, Attached, Gone
<1>12. Cardinality(DOMAIN q.map) = MaxWorkers
  <2>1. Cardinality(W) = MaxWorkers - 1 - 0 + 1
    BY <1>2, FS_Interval
  <2> QED BY <1>2, <1>3, <1>7, <2>1
<1>13. PoolOK(variant, pool)
  BY <1>1, <1>6, <1>7, <1>8, <1>9, <1>10, <1>11, <1>12 DEF PoolOK, Consistent
<1>14. taskQueue \in Queue!Queues
  BY DEF Init, Queue!EmptyQueue, Queue!Queues
<1> QED BY <1>13, <1>14 DEF Init, Inv, AnswersAreTheirOwn

(* What a step leaves that neither answers a call nor changes the queue.   *)
LEMMA QuietStep ==
    ASSUME Inv, PoolOK(variant, pool'), UNCHANGED <<variant, taskQueue, promise, answer>>
    PROVE  Inv'
BY DEF Inv, AnswersAreTheirOwn

LEMMA RunWorkerKeeps ==
    ASSUME Inv, NEW c \in Calls, RunWorker(c)
    PROVE  Inv'
<1>1. PoolOK(variant, pool) /\ pool \in PoolTypes
  BY DEF Inv, PoolOK, Consistent
<1>2. /\ promise' \in [Calls -> {"uncalled", "queued", "running", "answered", "rejected"}]
      /\ \A d \in Calls : promise'[d] = "answered" => promise[d] = "answered"
      /\ UNCHANGED <<variant, taskQueue, answer>>
  BY DEF Inv, RunWorker
<1>3. PoolOK(variant, pool')
  <2>1. CASE pool' = Later(pool, [Job("enqueue") EXCEPT !.call = c])
    <3>1. [Job("enqueue") EXCEPT !.call = c] \in JobType
      BY DEF Job, JobType
    <3> QED BY <1>1, <2>1, <3>1, LaterKeeps
  <2>2. CASE pool.available # <<>> /\ pool' = Post(pool, Head(pool.available), c)
    <3>1. Head(pool.available) \in Range(pool.available)
      BY <1>1, <2>2, PoolFields DEF Range
    <3> QED BY <1>1, <2>2, <3>1, PostKeeps
  <2> QED BY <1>1, <2>1, <2>2 DEF RunWorker
<1> QED BY <1>2, <1>3 DEF Inv, AnswersAreTheirOwn

LEMMA ThreadEventKeeps ==
    ASSUME Inv, NEW t \in 1..Len(pool.threads), ThreadEvent(t)
    PROVE  Inv'
<1>1. CASE WorkerReplies(t)
  <2> DEFINE posted == pool.threads[t].posted
             resolved == {c \in Range(posted) : promise[c] = "running"}
  <2>1. PoolOK(variant, pool')
    BY <1>1, ReplyKeeps DEF WorkerReplies
  <2>2. posted \in Seq(Calls) /\ Len(posted) = 1
    BY <1>1, ThreadTyped DEF Inv, PoolOK, Consistent, PostedOK, WorkerReplies, Working
  <2>3. Head(posted) \in Calls /\ \A c \in resolved : c = Head(posted)
    <3>1. Head(posted) = posted[1] /\ DOMAIN posted = 1..1
      BY <2>2
    <3>2. posted[1] \in Calls
      BY <2>2
    <3> HIDE DEF posted
    <3>3. ASSUME NEW c \in Range(posted) PROVE c = posted[1]
      <4>1. PICK i \in DOMAIN posted : c = posted[i]
        BY DEF Range
      <4>2. i = 1
        BY <3>1, <4>1
      <4> QED BY <4>1, <4>2
    <3> QED BY <3>1, <3>2, <3>3
  <2>4. /\ promise' = [c \in Calls |-> IF c \in resolved THEN "answered" ELSE promise[c]]
        /\ answer' = [c \in Calls |-> IF c \in resolved THEN Head(posted) ELSE answer[c]]
        /\ UNCHANGED <<variant, taskQueue>>
    BY <1>1 DEF WorkerReplies
  <2> HIDE DEF posted, resolved
  <2>5. /\ promise' \in [Calls -> {"uncalled", "queued", "running", "answered", "rejected"}]
        /\ answer' \in [Calls -> Calls \cup {NoCall}]
    BY <2>3, <2>4 DEF Inv
  <2>6. AnswersAreTheirOwn'
    BY <2>3, <2>4 DEF Inv, AnswersAreTheirOwn
  <2> QED BY <2>1, <2>4, <2>5, <2>6 DEF Inv
<1>2. CASE \E exits \in BOOLEAN : WorkerThrows(t, exits)
  <2>1. Working(t) /\ UNCHANGED <<variant, taskQueue, promise, answer>>
    BY <1>2 DEF WorkerThrows
  <2>2. \/ pool' = Emit(Emit(Ends(t, "exited"), t, "error"), t, "exit")
        \/ pool' = Emit(Ends(t, "failed"), t, "error")
    BY <1>2 DEF WorkerThrows
  <2>3. PoolOK(variant, pool')
    BY <2>1, <2>2, ThrowKeeps, ThrowAndExitKeeps
  <2> QED BY <2>1, <2>3, QuietStep
<1>3. CASE WorkerExits(t)
  <2>1. PoolOK(variant, pool')
    BY <1>3, ExitKeeps DEF WorkerExits
  <2> QED BY <1>3, <2>1, QuietStep DEF WorkerExits
<1> QED BY <1>1, <1>2, <1>3 DEF ThreadEvent

LEMMA QueueKeeps ==
    ASSUME Inv, PollTick \/ TaskMatures
    PROVE  Inv'
<1>1. UNCHANGED <<variant, pool, promise, answer>>
  BY DEF PollTick, TaskMatures
<1>2. taskQueue' \in Queue!Queues
  <2>1. CASE PollTick
    BY <2>1 DEF Inv, PollTick, Queue!PollOutcomes, Queue!Without, Queue!Queues
  <2>2. CASE TaskMatures
    BY <2>2 DEF Inv, TaskMatures, Queue!Mature, Queue!Queues
  <2> QED BY <2>1, <2>2
<1> QED BY <1>1, <1>2 DEF Inv, AnswersAreTheirOwn

LEMMA MicrotaskKeeps ==
    ASSUME Inv, Microtask
    PROVE  Inv'
<1>1. PoolOK(variant, pool) /\ pool.jobs # <<>>
  BY DEF Inv, Microtask, EnqueueJob, EnqueuedJob, DequeueJob, DequeuedJob, CommitJob, EndJob, Pending
<1>2. /\ Rest \in PoolTypes /\ Consistent(variant, Rest, DOMAIN Rest.map)
      /\ SameWorkers(pool, Rest) /\ Rest.open = pool.open
      /\ Cardinality(DOMAIN Rest.map) = MaxWorkers
      /\ job \in JobType
      /\ job.kind \notin {"commit", "end"} => PoolOK(variant, Rest)
      /\ Rest.open \subseteq Ending(Rest.jobs) \cup {job.id}
  BY <1>1, RestKeeps
<1>3. UNCHANGED <<variant, promise, answer>>
  BY DEF Microtask, EnqueueJob, EnqueuedJob, DequeueJob, DequeuedJob, CommitJob, EndJob
<1>4. CASE EnqueueJob
  <2>1. job.kind = "enqueue"
    BY <1>4 DEF EnqueueJob, Pending, job
  <2>2. job.call \in Calls
    BY <1>2, <2>1 DEF JobType
  <2>3. taskQueue' \in Queue!Queues
    BY <1>4, <2>2 DEF EnqueueJob, Inv, Queue!Enqueue, Queue!Queues
  <2>4. PoolOK(variant, pool')
    BY <1>2, <1>4, <2>1, JobTyped, LaterKeeps DEF EnqueueJob
  <2> QED BY <1>3, <2>3, <2>4 DEF Inv, AnswersAreTheirOwn
<1>5. CASE EnqueuedJob
  <2>1. job.kind = "enqueued"
    BY <1>5 DEF EnqueuedJob, Pending, job
  <2>2. PoolOK(variant, Rest) /\ Job("dequeue") \in JobType
    BY <1>2, <2>1, JobTyped
  <2>3. PoolOK(variant, pool')
    BY <1>5, <2>2, LaterKeeps DEF EnqueuedJob, ProcessQueue
  <2> QED BY <1>5, <2>3, QuietStep DEF EnqueuedJob
<1>6. CASE DequeueJob
  <2>1. PICK outcome \in Queue!DequeueOutcomes(taskQueue) :
           /\ taskQueue' = outcome.queue
           /\ pool' = Later(Rest, [Job("dequeued") EXCEPT !.call = outcome.task])
    BY <1>6 DEF DequeueJob
  <2>2. outcome.queue \in Queue!Queues /\ outcome.task \in Calls \cup {NoCall}
    BY <2>1 DEF Inv, Queue!DequeueOutcomes, Queue!Without, Queue!Queues
  <2>3. [Job("dequeued") EXCEPT !.call = outcome.task] \in JobType
    BY <2>2 DEF Job, JobType
  <2>4. job.kind = "dequeue"
    BY <1>6 DEF DequeueJob, Pending, job
  <2>5. PoolOK(variant, pool')
    BY <1>2, <2>1, <2>3, <2>4, LaterKeeps
  <2> QED BY <1>3, <2>1, <2>2, <2>5 DEF Inv, AnswersAreTheirOwn
<1>7. CASE DequeuedJob
  <2>1. job.kind = "dequeued"
    BY <1>7 DEF DequeuedJob, Pending, job
  <2>2. PoolOK(variant, Rest)
    BY <1>2, <2>1
  <2>3. CASE pool' = Rest
    BY <1>7, <2>2, <2>3, QuietStep DEF DequeuedJob
  <2>4. CASE /\ job.call # NoCall /\ pool.available # <<>>
             /\ pool' = Post(Rest, Head(pool.available), job.call)
    <3>1. Rest.available = pool.available /\ pool.available \in Seq(Nat) /\ job.call \in Calls
      BY <1>2, <2>4, PoolFields DEF SameWorkers, JobType
    <3>2. Head(pool.available) \in Range(Rest.available)
      BY <2>4, <3>1 DEF Range
    <3>3. PoolOK(variant, pool')
      BY <2>2, <2>4, <3>1, <3>2, PostKeeps
    <3> QED BY <1>7, <3>3, QuietStep DEF DequeuedJob
  <2> QED BY <1>7, <2>3, <2>4 DEF DequeuedJob
<1>8. CASE CommitJob
  <2> DEFINE e == [Job("end") EXCEPT !.id = job.id]
             q == Later(Rest, e)
  <2>1. job.ok = TRUE /\ job.id \in Nat
    BY <1>2 DEF JobType
  <2>2. e \in JobType /\ e.kind = "end" /\ e.id = job.id
    BY <2>1 DEF Job, JobType
  <2>3. pool' = q /\ UNCHANGED <<variant, taskQueue, promise, answer>>
    BY <1>8, <2>1 DEF CommitJob
  <2> HIDE DEF e
  <2>4. q \in PoolTypes /\ SameWorkers(Rest, q) /\ q.jobs = Append(Rest.jobs, e) /\ q.open = Rest.open
    BY <1>2, <2>2, LaterTyped
  <2> HIDE DEF q
  <2>5. q.open \subseteq Ending(q.jobs)
    <3>1. Rest.jobs \in Seq(JobType)
      BY <1>2, PoolFields
    <3> QED BY <1>2, <2>2, <2>4, <3>1, EndingAppend
  <2>6. Consistent(variant, q, DOMAIN q.map) /\ q.map = Rest.map
    BY <1>2, <2>4, Unbooked DEF SameWorkers
  <2> QED BY <1>2, <2>3, <2>5, <2>6, QuietStep DEF PoolOK
<1>9. CASE EndJob
  <2> DEFINE o == Rest.open \ {job.id}
             q == [Rest EXCEPT !.open = o]
  <2>1. pool' = q /\ UNCHANGED <<variant, taskQueue, promise, answer>>
    BY <1>9 DEF EndJob
  <2>2. o \in SUBSET Nat /\ o \subseteq Ending(Rest.jobs)
    BY <1>2, PoolFields
  <2> HIDE DEF o
  <2>3. q \in PoolTypes /\ SameWorkers(Rest, q) /\ q.open = o /\ q.jobs = Rest.jobs
    <3>1. q \in PoolTypes
      BY <1>2, <2>2 DEF PoolTypes
    <3>2. SameWorkers(Rest, q) /\ q.open = o /\ q.jobs = Rest.jobs
      BY <1>2 DEF PoolTypes, SameWorkers
    <3> QED BY <3>1, <3>2
  <2> HIDE DEF q
  <2>4. Consistent(variant, q, DOMAIN q.map) /\ q.map = Rest.map
    BY <1>2, <2>3, Unbooked DEF SameWorkers
  <2> QED BY <1>2, <2>1, <2>2, <2>3, <2>4, QuietStep DEF PoolOK
<1> QED BY <1>4, <1>5, <1>6, <1>7, <1>8, <1>9 DEF Microtask

LEMMA StepInv ==
    Inv /\ [Next]_vars => Inv'
<1> SUFFICES ASSUME Inv, [Next]_vars PROVE Inv'
  OBVIOUS
<1>1. CASE \E c \in Calls : RunWorker(c)
  BY <1>1, RunWorkerKeeps
<1>2. CASE \E t \in DOMAIN pool.threads : ThreadEvent(t)
  <2>1. pool.threads \in Seq(ThreadType)
    BY PoolFields DEF Inv, PoolOK, Consistent
  <2>2. DOMAIN pool.threads = 1..Len(pool.threads)
    BY <2>1
  <2> QED BY <1>2, <2>2, ThreadEventKeeps
<1>3. CASE PollTick \/ TaskMatures
  BY <1>3, QueueKeeps
<1>4. CASE Microtask
  BY <1>4, MicrotaskKeeps
<1>5. CASE UNCHANGED vars
  BY <1>5 DEF vars, Inv, AnswersAreTheirOwn
<1> QED BY <1>1, <1>2, <1>3, <1>4, <1>5 DEF Next

LEMMA InvHolds == Spec => []Inv
BY InitInv, StepInv, PTL DEF Spec

-----------------------------------------------------------------------------
(* The theorems                                                            *)

(* However replies, errors and exits of any number of threads follow each  *)
(* other, either pool keeps maxWorkers workers, and what it believes of    *)
(* each is so: a worker on offer is ready, one that is busy has a thread   *)
(* that works; but for the failed worker that the error listener of the    *)
(* pool with state puts back.                                              *)
THEOREM Soundness == Spec => []PoolIsSound
<1>1. Inv => PoolIsSound
  BY DEF Inv, PoolOK, Consistent, OfferedOK, EntryOK, PoolIsSound, FailedUntilExit
<1> QED BY <1>1, InvHolds, PTL

(* A promise that is resolved was resolved with the result of its own      *)
(* call: a thread that works was sent one call, so that no listener of     *)
(* another hears its message.                                              *)
THEOREM OwnAnswers == Spec => []AnswersAreTheirOwn
<1>1. Inv => AnswersAreTheirOwn
  BY DEF Inv
<1> QED BY <1>1, InvHolds, PTL

(* No transaction outlives the turn that started it: each that is open     *)
(* has a microtask pending that ends it.                                   *)
THEOREM NoTransactionStays == Spec => []TransactionsEnd
<1>1. Inv => TransactionsEnd
  <2> SUFFICES ASSUME Inv, Quiet PROVE pool.open = {}
    BY DEF TransactionsEnd
  <2>1. Len(pool.jobs) = 0
    BY DEF Quiet
  <2>2. Ending(pool.jobs) = {}
    BY <2>1 DEF Ending
  <2> QED BY <2>2 DEF Inv, PoolOK
<1> QED BY <1>1, InvHolds, PTL
=============================================================================
