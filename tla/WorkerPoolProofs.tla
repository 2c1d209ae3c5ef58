------------------------- MODULE WorkerPoolProofs -------------------------
(***************************************************************************)
(* Proofs about WorkerPool, for any calls, throwing calls and number of    *)
(* workers: what a live worker and the queue can count on, whatever        *)
(* listeners the calls before have left behind.                            *)
(***************************************************************************)
EXTENDS WorkerPool, GeneralLemmas, FiniteSetTheorems, TLAPS

-----------------------------------------------------------------------------
(* The inductive invariant                                                 *)

PoolTypes ==
    [workerPool : Seq(Workers), taskQueue : Seq(Calls),
     inbox : [Workers -> Seq(Calls)], listeners : [Workers -> [Events -> Seq(Calls)]]]

PromiseType == [Calls -> {"uncalled", "pending", "resolved", "rejected"}]

(* The calls that a worker was posted and that are still to be answered, or *)
(* have a listener left.                                                   *)
Held(p, w) == Range(p.inbox[w]) \cup UNION {Range(p.listeners[w][event]) : event \in Events}

NoneWaits(p) == p.taskQueue # <<>> => p.workerPool = <<>>

(* A call that was made is in the queue once and pending there, or with    *)
(* one worker.                                                             *)
QueuedOnce(p, promises) ==
    /\ IsInjective(p.taskQueue)
    /\ \A c \in Range(p.taskQueue) : promises[c] = "pending"

HeldOnce(p, promises) ==
    \A w \in Workers : \A c \in Held(p, w) :
       /\ promises[c] # "uncalled"
       /\ c \notin Range(p.taskQueue)
       /\ \A u \in Workers \ {w} : c \notin Held(p, u)

PoolOK(p, promises) ==
    p \in PoolTypes /\ NoneWaits(p) /\ QueuedOnce(p, promises) /\ HeldOnce(p, promises)

Nowhere(s, w) == \A i \in 1..Len(s) : s[i] # w
Once(s, w) == \E i \in 1..Len(s) : s[i] = w /\ \A j \in 1..Len(s) : s[j] = w => j = i

(* A live worker is idle in the pool, or serves one call.                  *)
LiveOK(p, w, promises) ==
    /\ \/ Nowhere(p.workerPool, w) /\ Len(p.inbox[w]) = 1
       \/ Once(p.workerPool, w) /\ p.inbox[w] = <<>>
    /\ p.listeners[w]["message"] = p.inbox[w]
    /\ \A c \in Range(p.inbox[w]) : promises[c] = "pending"

Inv ==
    /\ PoolOK(pool, promise)
    /\ promise \in PromiseType
    /\ status \in [Workers -> {"alive", "failed", "exited"}]
    /\ \A w \in Workers : status[w] = "alive" => LiveOK(pool, w, promise)

-----------------------------------------------------------------------------
(* Sequences                                                               *)

LEMMA AppendRange ==
    ASSUME NEW S, NEW s \in Seq(S), NEW e \in S
    PROVE  Append(s, e) \in Seq(S) /\ Range(Append(s, e)) = Range(s) \cup {e}
<1> DEFINE t == Append(s, e)
<1>1. t \in Seq(S) /\ DOMAIN t = 1..(Len(s) + 1) /\ DOMAIN s = 1..Len(s) /\ Len(s) \in Nat
  OBVIOUS
<1>2. t[Len(s) + 1] = e /\ \A i \in 1..Len(s) : t[i] = s[i]
  OBVIOUS
<1> HIDE DEF t
<1>3. Range(t) = Range(s) \cup {e}
  BY <1>1, <1>2 DEF Range
<1> QED BY <1>1, <1>3 DEF t

LEMMA TailRange ==
    ASSUME NEW S, NEW s \in Seq(S), s # <<>>
    PROVE  /\ Head(s) \in S /\ Head(s) \in Range(s)
           /\ Tail(s) \in Seq(S) /\ Range(Tail(s)) \subseteq Range(s)
           /\ Range(s) \subseteq Range(Tail(s)) \cup {Head(s)}
           /\ IsInjective(s) => IsInjective(Tail(s)) /\ Head(s) \notin Range(Tail(s))
<1> DEFINE t == Tail(s)
<1>1. /\ t \in Seq(S) /\ Len(s) \in Nat /\ Len(s) > 0
      /\ DOMAIN t = 1..(Len(s) - 1) /\ DOMAIN s = 1..Len(s)
  OBVIOUS
<1>2. Head(s) = s[1] /\ s[1] \in S /\ \A i \in 1..(Len(s) - 1) : t[i] = s[i + 1]
  OBVIOUS
<1> HIDE DEF t
<1>3. Head(s) \in Range(s)
  BY <1>1, <1>2 DEF Range
<1>4. Range(t) \subseteq Range(s)
  BY <1>1, <1>2 DEF Range
<1>5. Range(s) \subseteq Range(t) \cup {s[1]}
  <2> SUFFICES ASSUME NEW i \in 1..Len(s), i # 1 PROVE s[i] \in Range(t)
    BY <1>1 DEF Range
  <2>1. i - 1 \in 1..(Len(s) - 1) /\ t[i - 1] = s[i]
    BY <1>1, <1>2
  <2> QED BY <1>1, <2>1 DEF Range
<1>6. ASSUME IsInjective(s) PROVE IsInjective(t) /\ s[1] \notin Range(t)
  <2>1. \A i, j \in 1..Len(s) : s[i] = s[j] => i = j
    BY <1>1, <1>6 DEF IsInjective
  <2>2. IsInjective(t)
    <3> SUFFICES ASSUME NEW i \in 1..(Len(s) - 1), NEW j \in 1..(Len(s) - 1), t[i] = t[j]
                 PROVE  i = j
      BY <1>1 DEF IsInjective
    <3>1. i + 1 \in 1..Len(s) /\ j + 1 \in 1..Len(s) /\ s[i + 1] = s[j + 1]
      BY <1>1, <1>2
    <3> QED BY <2>1, <3>1
  <2>3. ASSUME NEW i \in 1..(Len(s) - 1) PROVE t[i] # s[1]
    <3>1. i + 1 \in 1..Len(s) /\ 1 \in 1..Len(s) /\ i + 1 # 1 /\ t[i] = s[i + 1]
      BY <1>1, <1>2
    <3> QED BY <2>1, <3>1
  <2> QED BY <1>1, <2>2, <2>3 DEF Range
<1> QED BY <1>1, <1>2, <1>3, <1>4, <1>5, <1>6 DEF t

(* A worker keeps its place when another one is returned or taken.         *)
LEMMA PlaceAfterReturn ==
    ASSUME NEW s \in Seq(Workers), NEW w \in Workers, NEW u \in Workers
    PROVE  /\ u # w /\ Nowhere(s, u) => Nowhere(Append(s, w), u)
           /\ u # w /\ Once(s, u) => Once(Append(s, w), u)
           /\ Nowhere(s, w) => Once(Append(s, w), w)
<1> DEFINE t == Append(s, w)
<1>1. Len(s) \in Nat /\ Len(t) = Len(s) + 1
  OBVIOUS
<1>2. t[Len(s) + 1] = w /\ \A i \in 1..Len(s) : t[i] = s[i]
  OBVIOUS
<1> HIDE DEF t
<1>3. \A i \in 1..Len(t) : i = Len(s) + 1 \/ i \in 1..Len(s)
  BY <1>1
<1>4. Len(s) + 1 \in 1..Len(t) /\ 1..Len(s) \subseteq 1..Len(t)
  BY <1>1
<1>5. ASSUME u # w, Nowhere(s, u) PROVE Nowhere(t, u)
  BY <1>2, <1>3, <1>5 DEF Nowhere
<1>6. ASSUME u # w, Once(s, u) PROVE Once(t, u)
  BY <1>2, <1>3, <1>4, <1>6 DEF Once
<1>7. ASSUME Nowhere(s, w) PROVE Once(t, w)
  BY <1>2, <1>3, <1>4, <1>7 DEF Once, Nowhere
<1> QED BY <1>5, <1>6, <1>7 DEF t

LEMMA PlaceAfterTake ==
    ASSUME NEW s \in Seq(Workers), s # <<>>, NEW u \in Workers
    PROVE  /\ u # Head(s) /\ Nowhere(s, u) => Nowhere(Tail(s), u)
           /\ u # Head(s) /\ Once(s, u) => Once(Tail(s), u)
           /\ u = Head(s) => ~Nowhere(s, u)
           /\ u = Head(s) /\ Once(s, u) => Nowhere(Tail(s), u)
<1> DEFINE t == Tail(s)
<1>1. Len(s) \in Nat /\ Len(s) > 0 /\ Len(t) = Len(s) - 1 /\ 1 \in 1..Len(s)
  OBVIOUS
<1>2. Head(s) = s[1] /\ \A i \in 1..Len(t) : t[i] = s[i + 1]
  OBVIOUS
<1> HIDE DEF t
<1>3. \A i \in 1..Len(t) : i + 1 \in 1..Len(s) /\ i + 1 # 1
  BY <1>1
<1>4. \A i \in 1..Len(s) : i # 1 => i - 1 \in 1..Len(t) /\ s[i] = t[i - 1] /\ i = (i - 1) + 1
  BY <1>1, <1>2
<1>5. ASSUME u # Head(s), Nowhere(s, u) PROVE Nowhere(t, u)
  BY <1>2, <1>3, <1>5 DEF Nowhere
<1>6. ASSUME u # Head(s), Once(s, u) PROVE Once(t, u)
  <2>1. PICK i \in 1..Len(s) : s[i] = u /\ \A j \in 1..Len(s) : s[j] = u => j = i
    BY <1>6 DEF Once
  <2>2. i - 1 \in 1..Len(t) /\ t[i - 1] = u
    BY <1>2, <1>4, <1>6, <2>1
  <2>3. \A j \in 1..Len(t) : t[j] = u => j = i - 1
    <3> SUFFICES ASSUME NEW j \in 1..Len(t), t[j] = u PROVE j = i - 1
      OBVIOUS
    <3>1. j + 1 = i
      BY <1>2, <1>3, <2>1
    <3> QED BY <1>1, <3>1
  <2> QED BY <2>2, <2>3 DEF Once
<1>7. ASSUME u = Head(s) PROVE ~Nowhere(s, u)
  BY <1>1, <1>2, <1>7 DEF Nowhere
<1>8. ASSUME u = Head(s), Once(s, u) PROVE Nowhere(t, u)
  BY <1>1, <1>2, <1>3, <1>8 DEF Once, Nowhere
<1> QED BY <1>5, <1>6, <1>7, <1>8 DEF t

-----------------------------------------------------------------------------
(* Operations on the pool                                                  *)

(* The parts of a pool that concern a worker are those of another pool.    *)
SameFor(p, q, w) == q.inbox[w] = p.inbox[w] /\ q.listeners[w] = p.listeners[w]

LEMMA SameHeld ==
    ASSUME NEW p, NEW q, NEW w, SameFor(p, q, w)
    PROVE  Held(q, w) = Held(p, w)
BY DEF SameFor, Held

LEMMA PoolParts ==
    ASSUME NEW p \in PoolTypes, NEW w \in Workers
    PROVE  /\ p.workerPool \in Seq(Workers)
           /\ p.taskQueue \in Seq(Calls)
           /\ p.inbox[w] \in Seq(Calls)
           /\ p.listeners[w] \in [Events -> Seq(Calls)]
BY DEF PoolTypes

LEMMA Posting ==
    ASSUME NEW p \in PoolTypes, NEW w \in Workers, NEW c \in Calls
    PROVE  /\ Post(p, w, c) \in PoolTypes
           /\ Post(p, w, c).workerPool = p.workerPool
           /\ Post(p, w, c).taskQueue = p.taskQueue
           /\ Post(p, w, c).inbox[w] = Append(p.inbox[w], c)
           /\ Post(p, w, c).listeners[w]["message"] = Append(p.listeners[w]["message"], c)
           /\ Held(Post(p, w, c), w) = Held(p, w) \cup {c}
           /\ \A u \in Workers \ {w} : SameFor(p, Post(p, w, c), u)
<1> DEFINE box == Append(p.inbox[w], c)
           heard == [event \in Events |-> Append(p.listeners[w][event], c)]
           q == [p EXCEPT !.inbox[w] = box, !.listeners[w] = heard]
<1>1. Post(p, w, c) = q
  BY DEF Post
<1>2. p.inbox[w] \in Seq(Calls) /\ \A event \in Events : p.listeners[w][event] \in Seq(Calls)
  BY DEF PoolTypes
<1>3. box \in Seq(Calls) /\ Range(box) = Range(p.inbox[w]) \cup {c}
  BY <1>2, AppendRange
<1>4. heard \in [Events -> Seq(Calls)]
  BY <1>2
<1>5. \A event \in Events : Range(heard[event]) = Range(p.listeners[w][event]) \cup {c}
  <2> SUFFICES ASSUME NEW event \in Events
               PROVE  Range(Append(p.listeners[w][event], c)) = Range(p.listeners[w][event]) \cup {c}
    OBVIOUS
  <2> QED BY <1>2, AppendRange
<1>6. heard["message"] = Append(p.listeners[w]["message"], c)
  BY DEF Events
<1> HIDE DEF box, heard
<1>7. q \in PoolTypes
  BY <1>3, <1>4 DEF PoolTypes
<1>8. /\ q.workerPool = p.workerPool
      /\ q.taskQueue = p.taskQueue
      /\ q.inbox[w] = box
      /\ q.listeners[w] = heard
      /\ \A u \in Workers \ {w} : q.inbox[u] = p.inbox[u] /\ q.listeners[u] = p.listeners[u]
  BY DEF PoolTypes
<1> HIDE DEF q
<1>9. Held(q, w) = Held(p, w) \cup {c}
  <2>1. Held(q, w) = Range(box) \cup UNION {Range(heard[event]) : event \in Events}
    BY <1>8 DEF Held
  <2>2. UNION {Range(heard[event]) : event \in Events}
            \subseteq (UNION {Range(p.listeners[w][event]) : event \in Events}) \cup {c}
    BY <1>5
  <2>3. UNION {Range(p.listeners[w][event]) : event \in Events}
            \subseteq UNION {Range(heard[event]) : event \in Events}
    BY <1>5
  <2>4. UNION {Range(heard[event]) : event \in Events}
            = (UNION {Range(p.listeners[w][event]) : event \in Events}) \cup {c}
    <3>1. c \in Range(heard["message"]) /\ "message" \in Events
      BY <1>5 DEF Events
    <3> QED BY <2>2, <2>3, <3>1
  <2> QED BY <1>3, <2>1, <2>4 DEF Held
<1>10. \A u \in Workers \ {w} : SameFor(p, q, u)
  BY <1>8 DEF SameFor
<1> QED BY <1>1, <1>6, <1>7, <1>8, <1>9, <1>10 DEF box

(* A returned worker waits in the pool, or is posted the oldest call.      *)
Returned(p, q, w) ==
    /\ q \in PoolTypes
    /\ p.taskQueue = <<>> /\ q.taskQueue = <<>>
    /\ q.workerPool = Append(p.workerPool, w)
    /\ \A u \in Workers : SameFor(p, q, u)

Handed(p, q, w) ==
    /\ q \in PoolTypes
    /\ p.taskQueue # <<>> /\ q.taskQueue = Tail(p.taskQueue)
    /\ p.workerPool = <<>> /\ q.workerPool = <<>>
    /\ q.inbox[w] = Append(p.inbox[w], Head(p.taskQueue))
    /\ q.listeners[w]["message"] = Append(p.listeners[w]["message"], Head(p.taskQueue))
    /\ Held(q, w) = Held(p, w) \cup {Head(p.taskQueue)}
    /\ \A u \in Workers \ {w} : SameFor(p, q, u)

LEMMA ReturnWorkerCases ==
    ASSUME NEW p \in PoolTypes, NEW w \in Workers, NoneWaits(p)
    PROVE  Returned(p, ReturnWorker(p, w), w) \/ Handed(p, ReturnWorker(p, w), w)
<1> DEFINE p1 == [p EXCEPT !.workerPool = Append(@, w)]
<1>1. p.workerPool \in Seq(Workers) /\ p.taskQueue \in Seq(Calls)
  BY DEF PoolTypes
<1>2. Append(p.workerPool, w) \in Seq(Workers)
  BY <1>1
<1>3. p1 \in PoolTypes
  BY <1>2 DEF PoolTypes
<1>4. /\ p1.workerPool = Append(p.workerPool, w) /\ p1.taskQueue = p.taskQueue
      /\ p1.inbox = p.inbox /\ p1.listeners = p.listeners
  BY DEF PoolTypes
<1>5. ReturnWorker(p, w) = ProcessQueue(p1)
  BY DEF ReturnWorker
<1> HIDE DEF p1
<1>6. CASE p.taskQueue = <<>>
  <2>1. ReturnWorker(p, w) = p1
    BY <1>4, <1>5, <1>6 DEF ProcessQueue
  <2> QED BY <1>3, <1>4, <1>6, <2>1 DEF Returned, SameFor
<1>7. CASE p.taskQueue # <<>>
  <2> DEFINE c == Head(p.taskQueue)
             p2 == [p1 EXCEPT !.taskQueue = Tail(@)]
             p3 == [p2 EXCEPT !.workerPool = Tail(@)]
             q == Post(p3, w, c)
  <2>1. c \in Calls /\ Tail(p.taskQueue) \in Seq(Calls)
    BY <1>1, <1>7, TailRange
  <2>2. p.workerPool = <<>>
    BY <1>7 DEF NoneWaits
  <2>3. p1.workerPool = <<w>>
    BY <1>4, <2>2
  <2>4. p2 \in PoolTypes
    BY <1>3, <1>4, <2>1 DEF PoolTypes
  <2>5. /\ p2.workerPool = <<w>> /\ p2.taskQueue = Tail(p.taskQueue)
        /\ p2.inbox = p.inbox /\ p2.listeners = p.listeners
    BY <1>3, <1>4, <2>3 DEF PoolTypes
  <2>6. ReturnWorker(p, w) = Run(p2, c)
    BY <1>4, <1>5, <1>7 DEF ProcessQueue
  <2> HIDE DEF p2
  <2>7. Head(<<w>>) = w /\ Tail(<<w>>) = <<>> /\ <<w>> # <<>>
    OBVIOUS
  <2>8. Run(p2, c) = q
    BY <2>5, <2>7 DEF Run
  <2>9. p3 \in PoolTypes
    <3>1. Tail(p2.workerPool) = <<>> /\ <<>> \in Seq(Workers)
      BY <2>5, <2>7
    <3> QED BY <2>4, <3>1 DEF PoolTypes
  <2>10. /\ p3.workerPool = <<>> /\ p3.taskQueue = Tail(p.taskQueue)
         /\ p3.inbox = p.inbox /\ p3.listeners = p.listeners
    BY <2>4, <2>5, <2>7 DEF PoolTypes
  <2> HIDE DEF p3, c
  <2>11. /\ q \in PoolTypes
         /\ q.workerPool = p3.workerPool
         /\ q.taskQueue = p3.taskQueue
         /\ q.inbox[w] = Append(p3.inbox[w], c)
         /\ q.listeners[w]["message"] = Append(p3.listeners[w]["message"], c)
         /\ Held(q, w) = Held(p3, w) \cup {c}
         /\ \A u \in Workers \ {w} : SameFor(p3, q, u)
    BY <2>1, <2>9, Posting
  <2>12. Held(p3, w) = Held(p, w)
    BY <2>10 DEF Held
  <2> HIDE DEF q
  <2>13. Handed(p, q, w)
    BY <1>7, <2>2, <2>10, <2>11, <2>12 DEF Handed, SameFor, c
  <2> QED BY <2>6, <2>8, <2>13
<1> QED BY <1>6, <1>7

(* Whatever is done for a worker, the pool and the other live workers stay *)
(* as they have to be.                                                     *)
Undisturbed(p, q, w, promises) ==
    /\ PoolOK(q, promises)
    /\ \A u \in Workers \ {w} : LiveOK(p, u, promises) => LiveOK(q, u, promises)

LEMMA SameLive ==
    ASSUME NEW p, NEW q, NEW u, NEW promises, SameFor(p, q, u),
           Nowhere(p.workerPool, u) => Nowhere(q.workerPool, u),
           Once(p.workerPool, u) => Once(q.workerPool, u),
           LiveOK(p, u, promises)
    PROVE  LiveOK(q, u, promises)
BY DEF SameFor, LiveOK

LEMMA ReturnedKeeps ==
    ASSUME NEW p, NEW q, NEW w \in Workers, NEW promises, PoolOK(p, promises), Returned(p, q, w)
    PROVE  Undisturbed(p, q, w, promises)
<1>1. \A u \in Workers : Held(q, u) = Held(p, u)
  BY SameHeld DEF Returned
<1>2. NoneWaits(q) /\ QueuedOnce(q, promises) /\ HeldOnce(q, promises)
  BY <1>1 DEF Returned, NoneWaits, PoolOK, QueuedOnce, HeldOnce
<1>3. ASSUME NEW u \in Workers \ {w}, LiveOK(p, u, promises) PROVE LiveOK(q, u, promises)
  <2>1. p.workerPool \in Seq(Workers) /\ q.workerPool = Append(p.workerPool, w) /\ SameFor(p, q, u)
    BY PoolParts DEF PoolOK, Returned
  <2> QED BY <1>3, <2>1, PlaceAfterReturn, SameLive
<1> QED BY <1>2, <1>3 DEF Undisturbed, PoolOK, Returned

LEMMA HandedKeeps ==
    ASSUME NEW p, NEW q, NEW w \in Workers, NEW promises, PoolOK(p, promises), Handed(p, q, w)
    PROVE  Undisturbed(p, q, w, promises)
<1> DEFINE c == Head(p.taskQueue)
<1>1. /\ p.taskQueue \in Seq(Calls) /\ p.taskQueue # <<>> /\ q.taskQueue = Tail(p.taskQueue)
      /\ IsInjective(p.taskQueue)
  BY PoolParts DEF PoolOK, Handed, QueuedOnce
<1>2. /\ c \in Range(p.taskQueue) /\ c \notin Range(q.taskQueue)
      /\ Range(q.taskQueue) \subseteq Range(p.taskQueue)
      /\ IsInjective(q.taskQueue)
  BY <1>1, TailRange
<1>3. promises[c] = "pending" /\ \A u \in Workers : c \notin Held(p, u)
  BY <1>2 DEF PoolOK, QueuedOnce, HeldOnce
<1>4. Held(q, w) = Held(p, w) \cup {c} /\ \A u \in Workers \ {w} : Held(q, u) = Held(p, u)
  BY SameHeld DEF Handed
<1> HIDE DEF c
<1>5. NoneWaits(q)
  BY DEF Handed, NoneWaits
<1>6. QueuedOnce(q, promises)
  BY <1>2 DEF PoolOK, QueuedOnce
<1>7. HeldOnce(q, promises)
  BY <1>2, <1>3, <1>4 DEF PoolOK, HeldOnce
<1>8. ASSUME NEW u \in Workers \ {w}, LiveOK(p, u, promises) PROVE LiveOK(q, u, promises)
  <2>1. q.workerPool = p.workerPool /\ SameFor(p, q, u)
    BY DEF Handed
  <2> QED BY <1>8, <2>1, SameLive
<1> QED BY <1>5, <1>6, <1>7, <1>8 DEF Undisturbed, PoolOK, Handed

LEMMA ReturnWorkerKeeps ==
    ASSUME NEW p, NEW w \in Workers, NEW promises, PoolOK(p, promises)
    PROVE  Undisturbed(p, ReturnWorker(p, w), w, promises)
BY ReturnWorkerCases, ReturnedKeeps, HandedKeeps DEF PoolOK

(* So do the listeners of any number of calls; one listener returns the    *)
(* worker once.                                                            *)
LEMMA ReturnedForKeeps ==
    ASSUME NEW p, NEW w \in Workers, NEW promises, PoolOK(p, promises), NEW n \in Nat
    PROVE  /\ Undisturbed(p, ReturnedFor(p, w, n), w, promises)
           /\ n = 1 => ReturnedFor(p, w, n) = ReturnWorker(p, w)
<1> DEFINE after[i \in 0..n] == IF i = 0 THEN p ELSE ReturnWorker(after[i - 1], w)
           Good == {q \in PoolTypes : Undisturbed(p, q, w, promises)}
           turns == [i \in 1..n |-> [q \in Good |-> ReturnWorker(q, w)]]
<1>1. p \in Good
  BY DEF Undisturbed, PoolOK
<1>2. \A q \in Good : ReturnWorker(q, w) \in Good
  <2> SUFFICES ASSUME NEW q \in Good PROVE ReturnWorker(q, w) \in Good
    OBVIOUS
  <2>1. Undisturbed(p, q, w, promises) /\ PoolOK(q, promises)
    BY DEF Undisturbed
  <2> DEFINE r == ReturnWorker(q, w)
  <2>2. Undisturbed(q, r, w, promises)
    BY <2>1, ReturnWorkerKeeps
  <2> HIDE DEF r
  <2>3. Undisturbed(p, r, w, promises) /\ r \in PoolTypes
    BY <2>1, <2>2 DEF Undisturbed, PoolOK
  <2> QED BY <2>3 DEF r
<1>3. turns \in [1..n -> [Good -> Good]]
  <2> HIDE DEF Good
  <2> QED BY <1>2
<1>4. after = [i \in 0..n |-> IF i = 0 THEN p ELSE ReturnWorker(after[i - 1], w)]
  <2>1. PICK f \in [0..n -> Good] : f[0] = p /\ \A i \in 1..n : f[i] = turns[i][f[i - 1]]
    <3> HIDE DEF Good, turns, after
    <3> QED BY <1>1, <1>3, LoopExists
  <2>2. \A i \in 1..n : f[i] = ReturnWorker(f[i - 1], w)
    <3> SUFFICES ASSUME NEW i \in 1..n PROVE turns[i][f[i - 1]] = ReturnWorker(f[i - 1], w)
      BY <2>1, Zenon
    <3> HIDE DEF Good, after
    <3>1. f[i - 1] \in Good
      BY <2>1
    <3> QED BY <3>1
  <2>3. f = [i \in 0..n |-> IF i = 0 THEN p ELSE ReturnWorker(f[i - 1], w)]
    <3>1. \A i \in 0..n : f[i] = IF i = 0 THEN p ELSE ReturnWorker(f[i - 1], w)
      BY <2>1, <2>2
    <3>2. f = [i \in 0..n |-> f[i]]
      BY <2>1
    <3> HIDE DEF Good
    <3> QED BY <3>1, <3>2
  <2> QED BY <2>3, Zenon
<1>5. ReturnedFor(p, w, n) = after[n]
  BY DEF ReturnedFor, after
<1> HIDE DEF after
<1>6. \A i \in 0..n : after[i] = IF i = 0 THEN p ELSE ReturnWorker(after[i - 1], w)
  BY <1>4, Zenon
<1> DEFINE Reached == {m \in Nat : m <= n => after[m] \in Good}
<1> HIDE DEF Good
<1>7. 0 \in Reached
  BY <1>1, <1>6
<1>8. ASSUME NEW m \in Nat, m \in Reached PROVE m + 1 \in Reached
  <2> SUFFICES ASSUME m + 1 <= n PROVE after[m + 1] \in Good
    OBVIOUS
  <2>1. after[m] \in Good /\ after[m + 1] = ReturnWorker(after[m], w)
    BY <1>6, <1>8
  <2> QED BY <1>2, <2>1
<1>9. after[n] \in Good
  <2>1. Nat \subseteq Reached
    <3> HIDE DEF Reached
    <3> QED BY <1>7, <1>8, Induction
  <2> QED BY <2>1
<1>10. n = 1 => after[n] = ReturnWorker(p, w)
  BY <1>6
<1> QED BY <1>5, <1>9, <1>10 DEF Good

(* A pool in which fewer calls are held is no worse.                       *)
Less(p, q, w) ==
    /\ q \in PoolTypes
    /\ q.workerPool = p.workerPool /\ q.taskQueue = p.taskQueue
    /\ Held(q, w) \subseteq Held(p, w)
    /\ \A u \in Workers \ {w} : SameFor(p, q, u)

LEMMA LessKeeps ==
    ASSUME NEW p, NEW q, NEW w \in Workers, NEW promises, PoolOK(p, promises), Less(p, q, w)
    PROVE  Undisturbed(p, q, w, promises)
<1>1. \A u \in Workers : Held(q, u) \subseteq Held(p, u)
  BY SameHeld DEF Less
<1>2. NoneWaits(q) /\ QueuedOnce(q, promises)
  BY DEF Less, PoolOK, NoneWaits, QueuedOnce
<1>3. HeldOnce(q, promises)
  BY <1>1 DEF Less, PoolOK, HeldOnce
<1>4. ASSUME NEW u \in Workers \ {w}, LiveOK(p, u, promises) PROVE LiveOK(q, u, promises)
  <2>1. q.workerPool = p.workerPool /\ SameFor(p, q, u)
    BY DEF Less
  <2> QED BY <1>4, <2>1, SameLive
<1> QED BY <1>2, <1>3, <1>4 DEF Undisturbed, PoolOK, Less

(* The listeners of an event are removed before they run.                  *)
LEMMA Silencing ==
    ASSUME NEW p \in PoolTypes, NEW w \in Workers, NEW event \in Events
    PROVE  LET q == [p EXCEPT !.listeners[w][event] = <<>>]
           IN  /\ Less(p, q, w)
               /\ q.inbox = p.inbox
               /\ q.listeners[w][event] = <<>>
<1> DEFINE heard == [p.listeners[w] EXCEPT ![event] = <<>>]
           q == [p EXCEPT !.listeners[w] = heard]
<1>1. p.listeners[w] \in [Events -> Seq(Calls)] /\ p.inbox[w] \in Seq(Calls)
  BY PoolParts
<1>2. <<>> \in Seq(Calls)
  OBVIOUS
<1>3. heard \in [Events -> Seq(Calls)]
  BY <1>1, <1>2
<1>4. /\ heard[event] = <<>>
      /\ \A e \in Events : e # event => heard[e] = p.listeners[w][e]
  BY <1>1
<1>5. q = [p EXCEPT !.listeners[w][event] = <<>>]
  OBVIOUS
<1> HIDE DEF heard
<1>6. q \in PoolTypes
  BY <1>3 DEF PoolTypes
<1>7. /\ q.workerPool = p.workerPool /\ q.taskQueue = p.taskQueue /\ q.inbox = p.inbox
      /\ q.listeners[w] = heard
      /\ \A u \in Workers \ {w} : q.listeners[u] = p.listeners[u]
  BY DEF PoolTypes
<1> HIDE DEF q
<1>8. \A e \in Events : Range(heard[e]) \subseteq Range(p.listeners[w][e])
  BY <1>4 DEF Range
<1>9. Held(q, w) \subseteq Held(p, w)
  BY <1>7, <1>8 DEF Held
<1> QED BY <1>4, <1>5, <1>6, <1>7, <1>9 DEF Less, SameFor

(* Promises of calls that one worker holds are settled.                    *)
SettledFor(p, w, before, after) ==
    \A c \in Calls : after[c] = before[c] \/ (c \in Held(p, w) /\ after[c] # "uncalled")

LEMMA SettledKeeps ==
    ASSUME NEW p, NEW w \in Workers, NEW before, NEW after,
           PoolOK(p, before), SettledFor(p, w, before, after)
    PROVE  /\ PoolOK(p, after)
           /\ \A u \in Workers \ {w} : LiveOK(p, u, before) => LiveOK(p, u, after)
<1>1. p.taskQueue \in Seq(Calls) /\ \A u \in Workers : Range(p.inbox[u]) \subseteq Calls
  BY DEF PoolOK, PoolTypes, Range
<1>2. Range(p.taskQueue) \subseteq Calls
  BY <1>1 DEF Range
<1>3. \A u \in Workers : Held(p, u) \subseteq Calls
  <2> SUFFICES ASSUME NEW u \in Workers, NEW event \in Events
               PROVE  Range(p.listeners[u][event]) \subseteq Calls
    BY <1>1 DEF Held
  <2> QED BY DEF PoolOK, PoolTypes, Range
<1>4. \A u \in Workers : Range(p.inbox[u]) \subseteq Held(p, u)
  BY DEF Held
<1>5. QueuedOnce(p, after)
  BY <1>2 DEF SettledFor, PoolOK, QueuedOnce, HeldOnce
<1>6. HeldOnce(p, after)
  BY <1>3 DEF SettledFor, PoolOK, HeldOnce
<1>7. ASSUME NEW u \in Workers \ {w}, LiveOK(p, u, before) PROVE LiveOK(p, u, after)
  <2>1. \A c \in Range(p.inbox[u]) : after[c] = before[c]
    BY <1>1, <1>4 DEF SettledFor, PoolOK, HeldOnce
  <2> QED BY <1>7, <2>1 DEF LiveOK
<1> QED BY <1>5, <1>6, <1>7 DEF PoolOK

LEMMA Settling ==
    ASSUME Inv, NEW w \in Workers, NEW event \in Events, NEW how \in {"resolved", "rejected"},
           Settle(pool.listeners[w][event], how)
    PROVE  promise' \in PromiseType /\ SettledFor(pool, w, promise, promise')
<1>1. promise \in PromiseType
  BY DEF Inv
<1>2. promise' \in PromiseType
  BY <1>1 DEF Settle, PromiseType
<1>3. \A c \in Calls : promise'[c] = promise[c]
                       \/ (c \in Range(pool.listeners[w][event]) /\ promise'[c] = how)
  BY DEF Settle
<1> QED BY <1>2, <1>3 DEF SettledFor, Held

(* An event is emitted on a worker: the pool and the other live workers    *)
(* stay as they have to be.                                                *)
LEMMA EmitKeeps ==
    ASSUME NEW p, NEW w \in Workers, NEW event \in Events, NEW promises, PoolOK(p, promises)
    PROVE  Undisturbed(p, Emit(p, w, event), w, promises)
<1> DEFINE q == [p EXCEPT !.listeners[w][event] = <<>>]
           n == Len(p.listeners[w][event])
           r == ReturnedFor(q, w, n)
<1>1. p \in PoolTypes
  BY DEF PoolOK
<1>2. n \in Nat
  <2>1. p.listeners[w] \in [Events -> Seq(Calls)]
    BY <1>1, PoolParts
  <2>2. p.listeners[w][event] \in Seq(Calls)
    BY <2>1
  <2> QED BY <2>2
<1>3. Less(p, q, w)
  BY <1>1, Silencing
<1>4. Emit(p, w, event) = r
  BY DEF Emit
<1> HIDE DEF q, n
<1>5. Undisturbed(p, q, w, promises)
  BY <1>3, LessKeeps
<1>6. Undisturbed(q, r, w, promises)
  BY <1>2, <1>5, ReturnedForKeeps DEF Undisturbed
<1> HIDE DEF r
<1> QED BY <1>4, <1>5, <1>6 DEF Undisturbed

-----------------------------------------------------------------------------
(* Every step keeps the invariant                                          *)

LEMMA InitInv == ASSUME Init PROVE Inv
<1> DEFINE s == [i \in Workers |-> i]
<1>1. MaxWorkers \in Nat /\ Workers = 1..MaxWorkers
  BY WorkerPoolAssumption DEF Workers
<1>2. s \in Seq(Workers) /\ Len(s) = MaxWorkers
  BY <1>1
<1>3. \A w \in Workers : Once(s, w)
  BY <1>1, <1>2 DEF Once
<1> HIDE DEF s
<1>4. /\ pool.workerPool = s /\ pool.taskQueue = <<>>
      /\ \A w \in Workers : pool.inbox[w] = <<>> /\ \A event \in Events : pool.listeners[w][event] = <<>>
  BY DEF Init, s
<1>5. pool \in PoolTypes
  <2>1. <<>> \in Seq(Calls)
    OBVIOUS
  <2>2. s \in Seq(Workers) /\ pool = [workerPool |-> s, taskQueue  |-> <<>>,
                 inbox |-> [w \in Workers |-> <<>>],
                 listeners |-> [w \in Workers |-> [event \in Events |-> <<>>]]]
    BY <1>2 DEF Init, s
  <2> QED BY <2>1, <2>2 DEF PoolTypes
<1>6. Range(<<>>) = {}
  BY DEF Range
<1>7. \A w \in Workers : Held(pool, w) = {}
  BY <1>4, <1>6 DEF Held
<1>8. QueuedOnce(pool, promise)
  BY <1>4, <1>6 DEF QueuedOnce, IsInjective
<1>9. PoolOK(pool, promise)
  BY <1>4, <1>5, <1>7, <1>8 DEF PoolOK, NoneWaits, HeldOnce
<1>10. \A w \in Workers : LiveOK(pool, w, promise)
  BY <1>3, <1>4, <1>6 DEF LiveOK, Events
<1> QED BY <1>9, <1>10 DEF Inv, Init, PromiseType

LEMMA RunWorkerInv == ASSUME Inv, NEW c \in Calls, RunWorker(c) PROVE Inv'
<1> DEFINE after == [promise EXCEPT ![c] = "pending"]
           q == Run(pool, c)
<1>1. /\ pool' = q /\ promise' = after /\ status' = status /\ promise[c] = "uncalled"
  BY DEF RunWorker
<1>2. after \in PromiseType /\ after[c] = "pending" /\ \A d \in Calls \ {c} : after[d] = promise[d]
  BY DEF Inv, PromiseType
<1>3. c \notin Range(pool.taskQueue) /\ \A w \in Workers : c \notin Held(pool, w)
  BY <1>1 DEF Inv, PoolOK, QueuedOnce, HeldOnce
<1> HIDE DEF after
<1>4. pool \in PoolTypes /\ PoolOK(pool, promise)
  BY DEF Inv, PoolOK
<1>5. pool.taskQueue \in Seq(Calls) /\ pool.workerPool \in Seq(Workers)
  BY <1>4 DEF PoolTypes
<1>6. PoolOK(pool, after)
  <2>1. \A w \in Workers : Held(pool, w) \subseteq Calls
    <3> SUFFICES ASSUME NEW w \in Workers, NEW event \in Events
                 PROVE  Range(pool.listeners[w][event]) \subseteq Calls
                        /\ Range(pool.inbox[w]) \subseteq Calls
      BY DEF Held, Events
    <3> QED BY <1>4 DEF PoolTypes, Range
  <2>2. Range(pool.taskQueue) \subseteq Calls
    BY <1>5 DEF Range
  <2>3. QueuedOnce(pool, after)
    BY <1>2, <1>3, <1>4, <2>2 DEF PoolOK, QueuedOnce
  <2>4. HeldOnce(pool, after)
    BY <1>2, <1>3, <1>4, <2>1 DEF PoolOK, HeldOnce
  <2> QED BY <1>4, <2>3, <2>4 DEF PoolOK
<1>7. \A w \in Workers : status[w] = "alive" => LiveOK(pool, w, after)
  <2> SUFFICES ASSUME NEW w \in Workers, LiveOK(pool, w, promise) PROVE LiveOK(pool, w, after)
    BY DEF Inv
  <2>1. \A d \in Range(pool.inbox[w]) : d \in Calls /\ d # c
    BY <1>3, <1>4 DEF Held, PoolTypes, Range
  <2> QED BY <1>2, <2>1 DEF LiveOK
<1>8. CASE pool.workerPool = <<>>
  <2> DEFINE queue == Append(pool.taskQueue, c)
             r == [pool EXCEPT !.taskQueue = queue]
  <2>1. q = r
    BY <1>8 DEF Run
  <2>2. queue \in Seq(Calls) /\ Range(queue) = Range(pool.taskQueue) \cup {c}
    BY <1>5, AppendRange
  <2>3. IsInjective(queue)
    <3>1. IsInjective(pool.taskQueue)
      BY <1>4 DEF PoolOK, QueuedOnce
    <3>2. \A i \in 1..Len(pool.taskQueue) : pool.taskQueue[i] # c
      BY <1>3, <1>5 DEF Range
    <3>3. DOMAIN pool.taskQueue = 1..Len(pool.taskQueue) /\ Len(pool.taskQueue) \in Nat
      BY <1>5
    <3>4. /\ DOMAIN queue = 1..(Len(pool.taskQueue) + 1) /\ queue[Len(pool.taskQueue) + 1] = c
          /\ \A i \in 1..Len(pool.taskQueue) : queue[i] = pool.taskQueue[i]
      BY <1>5
    <3> HIDE DEF queue
    <3> QED BY <3>1, <3>2, <3>3, <3>4 DEF IsInjective
  <2> HIDE DEF queue
  <2>4. /\ r \in PoolTypes
        /\ r.workerPool = pool.workerPool /\ r.taskQueue = queue
        /\ r.inbox = pool.inbox /\ r.listeners = pool.listeners
    BY <1>4, <2>2 DEF PoolTypes
  <2> HIDE DEF r
  <2>5. \A w \in Workers : Held(r, w) = Held(pool, w)
    BY <2>4 DEF Held
  <2>6. NoneWaits(r)
    BY <1>8, <2>4 DEF NoneWaits
  <2>7. QueuedOnce(r, after)
    BY <1>2, <1>6, <2>2, <2>3, <2>4 DEF PoolOK, QueuedOnce
  <2>8. HeldOnce(r, after)
    BY <1>3, <1>6, <2>2, <2>4, <2>5 DEF PoolOK, HeldOnce
  <2>9. \A w \in Workers : status[w] = "alive" => LiveOK(r, w, after)
    BY <1>7, <2>4 DEF LiveOK
  <2>10. PoolOK(r, after)
    BY <2>4, <2>6, <2>7, <2>8 DEF PoolOK
  <2> QED BY <1>1, <1>2, <2>1, <2>9, <2>10 DEF Inv
<1>9. CASE pool.workerPool # <<>>
  <2> DEFINE w == Head(pool.workerPool)
             p == [pool EXCEPT !.workerPool = Tail(@)]
             r == Post(p, w, c)
  <2>1. q = r
    BY <1>9 DEF Run
  <2>2. w \in Workers /\ Tail(pool.workerPool) \in Seq(Workers)
    BY <1>5, <1>9, TailRange
  <2>3. /\ p \in PoolTypes
        /\ p.workerPool = Tail(pool.workerPool) /\ p.taskQueue = pool.taskQueue
        /\ p.inbox = pool.inbox /\ p.listeners = pool.listeners
    BY <1>4, <2>2 DEF PoolTypes
  <2> HIDE DEF p, w
  <2>4. /\ r \in PoolTypes
        /\ r.workerPool = p.workerPool
        /\ r.taskQueue = p.taskQueue
        /\ r.inbox[w] = Append(p.inbox[w], c)
        /\ r.listeners[w]["message"] = Append(p.listeners[w]["message"], c)
        /\ Held(r, w) = Held(p, w) \cup {c}
        /\ \A u \in Workers \ {w} : SameFor(p, r, u)
    BY <2>2, <2>3, Posting
  <2> HIDE DEF r
  <2>5. Held(r, w) = Held(pool, w) \cup {c} /\ \A u \in Workers \ {w} : Held(r, u) = Held(pool, u)
    <3>1. \A u \in Workers : Held(p, u) = Held(pool, u)
      BY <2>3 DEF Held
    <3>2. \A u \in Workers \ {w} : Held(r, u) = Held(p, u)
      BY <2>4, SameHeld
    <3>3. Held(r, w) = Held(p, w) \cup {c} /\ Held(p, w) = Held(pool, w)
      BY <2>2, <2>4, <3>1
    <3> QED BY <3>1, <3>2, <3>3
  <2>6. r.taskQueue = <<>> /\ pool.taskQueue = <<>>
    BY <1>4, <1>9, <2>3, <2>4 DEF PoolOK, NoneWaits
  <2>7. NoneWaits(r) /\ QueuedOnce(r, after)
    BY <1>6, <2>6 DEF PoolOK, NoneWaits, QueuedOnce
  <2>8. HeldOnce(r, after)
    <3>1. c \notin Range(r.taskQueue) /\ after[c] # "uncalled"
      BY <1>2, <1>3, <2>6
    <3> QED BY <1>3, <1>6, <2>5, <2>6, <3>1 DEF PoolOK, HeldOnce
  <2>9. ASSUME NEW u \in Workers, status[u] = "alive" PROVE LiveOK(r, u, after)
    <3>1. LiveOK(pool, u, after)
      BY <1>7, <2>9
    <3>2. r.workerPool = Tail(pool.workerPool)
      BY <2>3, <2>4
    <3>3. CASE u # w
      <4>1. SameFor(pool, r, u)
        BY <2>3, <2>4, <3>3 DEF SameFor
      <4> QED BY <1>5, <1>9, <3>1, <3>2, <3>3, <4>1, PlaceAfterTake, SameLive DEF w
    <3>4. CASE u = w
      <4>1. ~Nowhere(pool.workerPool, u) /\ (Once(pool.workerPool, u) => Nowhere(r.workerPool, u))
        BY <1>5, <1>9, <3>2, <3>4, PlaceAfterTake DEF w
      <4>2. Nowhere(r.workerPool, u) /\ pool.inbox[u] = <<>> /\ pool.listeners[u]["message"] = <<>>
        BY <3>1, <4>1 DEF LiveOK
      <4>3. Append(<<>>, c) = <<c>> /\ Len(<<c>>) = 1 /\ Range(<<c>>) = {c}
        BY DEF Range
      <4>4. r.inbox[u] = <<c>> /\ r.listeners[u]["message"] = <<c>>
        BY <2>3, <2>4, <3>4, <4>2, <4>3
      <4> QED BY <1>2, <4>2, <4>3, <4>4 DEF LiveOK
    <3> QED BY <3>3, <3>4
  <2>10. PoolOK(r, after)
    BY <2>4, <2>7, <2>8 DEF PoolOK
  <2> QED BY <1>1, <1>2, <2>1, <2>9, <2>10 DEF Inv
<1> QED BY <1>8, <1>9

LEMMA WorkerRepliesInv == ASSUME Inv, NEW w \in Workers, WorkerReplies(w) PROVE Inv'
<1> DEFINE box == pool.inbox[w]
           p1 == [pool EXCEPT !.inbox[w] = Tail(@)]
           p2 == [p1 EXCEPT !.listeners[w]["message"] = <<>>]
           q == Emit(p1, w, "message")
<1>1. /\ status[w] = "alive" /\ box # <<>>
      /\ pool' = q
      /\ Settle(pool.listeners[w]["message"], "resolved")
      /\ status' = status
  BY DEF WorkerReplies, Serves
<1>2. pool \in PoolTypes /\ PoolOK(pool, promise) /\ box \in Seq(Calls) /\ "message" \in Events
  BY PoolParts DEF Inv, PoolOK, Events
<1>3. LiveOK(pool, w, promise)
  BY <1>1 DEF Inv
<1>4. promise' \in PromiseType /\ SettledFor(pool, w, promise, promise')
  BY <1>1, <1>2, Settling
<1>5. /\ PoolOK(pool, promise')
      /\ \A u \in Workers \ {w} : LiveOK(pool, u, promise) => LiveOK(pool, u, promise')
  BY <1>2, <1>4, SettledKeeps
<1>6. Nowhere(pool.workerPool, w) /\ Len(box) = 1 /\ pool.listeners[w]["message"] = box
  BY <1>1, <1>3 DEF LiveOK
<1>7. Tail(box) = <<>> /\ Tail(box) \in Seq(Calls)
  <2> HIDE DEF box
  <2>1. Tail(box) \in Seq(Calls) /\ Len(Tail(box)) = 0
    BY <1>1, <1>2, <1>6
  <2>2. \A t \in Seq(Calls) : Len(t) = 0 => t = <<>>
    OBVIOUS
  <2> QED BY <2>1, <2>2
<1>8. /\ p1 \in PoolTypes
      /\ p1.workerPool = pool.workerPool /\ p1.taskQueue = pool.taskQueue
      /\ p1.inbox[w] = <<>> /\ p1.listeners = pool.listeners
      /\ \A u \in Workers \ {w} : p1.inbox[u] = pool.inbox[u]
  BY <1>2, <1>7 DEF PoolTypes
<1>9. Less(pool, p1, w)
  <2>1. Range(<<>>) = {}
    BY DEF Range
  <2> HIDE DEF p1
  <2> QED BY <1>8, <2>1 DEF Less, Held, SameFor
<1>10. Emit(p1, w, "message") = ReturnedFor(p2, w, Len(p1.listeners[w]["message"]))
  BY DEF Emit
<1> HIDE DEF p1
<1>11. Undisturbed(pool, p1, w, promise')
  BY <1>5, <1>9, LessKeeps
<1>12. Less(p1, p2, w) /\ p2.inbox = p1.inbox /\ p2.listeners[w]["message"] = <<>>
  BY <1>2, <1>8, Silencing
<1> HIDE DEF p2
<1>13. Undisturbed(p1, p2, w, promise')
  BY <1>11, <1>12, LessKeeps DEF Undisturbed
<1>14. Undisturbed(p2, q, w, promise') /\ q = ReturnWorker(p2, w)
  <2>1. Len(p1.listeners[w]["message"]) = 1
    BY <1>6, <1>8
  <2>2. q = ReturnedFor(p2, w, 1)
    BY <1>10, <2>1
  <2> HIDE DEF q
  <2> QED BY <1>13, <2>2, ReturnedForKeeps DEF Undisturbed
<1> HIDE DEF q
<1>15. /\ PoolOK(q, promise')
       /\ \A u \in Workers \ {w} : status[u] = "alive" => LiveOK(q, u, promise')
  BY <1>5, <1>11, <1>13, <1>14 DEF Undisturbed, Inv
<1>16. LiveOK(q, w, promise')
  <2>1. /\ p2 \in PoolTypes /\ p2.workerPool = pool.workerPool /\ NoneWaits(p2)
        /\ p2.inbox[w] = <<>> /\ p2.listeners[w]["message"] = <<>>
        /\ QueuedOnce(p2, promise')
    BY <1>8, <1>12, <1>13 DEF Less, Undisturbed, PoolOK
  <2>2. Range(<<>>) = {}
    BY DEF Range
  <2>3. CASE Returned(p2, q, w)
    <3>1. Once(q.workerPool, w)
      <4>1. pool.workerPool \in Seq(Workers) /\ q.workerPool = Append(pool.workerPool, w)
        BY <1>2, <2>1, <2>3, PoolParts DEF Returned
      <4> QED BY <1>6, <4>1, PlaceAfterReturn
    <3>2. q.inbox[w] = <<>> /\ q.listeners[w]["message"] = <<>>
      BY <2>1, <2>3 DEF Returned, SameFor
    <3> QED BY <2>2, <3>1, <3>2 DEF LiveOK
  <2>4. CASE Handed(p2, q, w)
    <3> DEFINE c == Head(p2.taskQueue)
    <3>1. promise'[c] = "pending"
      <4>1. p2.taskQueue \in Seq(Calls) /\ p2.taskQueue # <<>>
        BY <2>1, <2>4, PoolParts DEF Handed
      <4>2. c \in Range(p2.taskQueue)
        BY <4>1, TailRange
      <4> QED BY <2>1, <4>2 DEF QueuedOnce
    <3>2. q.workerPool = <<>> /\ q.inbox[w] = Append(<<>>, c) /\ q.listeners[w]["message"] = Append(<<>>, c)
      BY <2>1, <2>4 DEF Handed
    <3> HIDE DEF c
    <3>3. Append(<<>>, c) = <<c>> /\ Len(<<c>>) = 1 /\ Range(<<c>>) = {c}
      BY DEF Range
    <3>4. Nowhere(q.workerPool, w)
      BY <3>2 DEF Nowhere
    <3> QED BY <3>1, <3>2, <3>3, <3>4 DEF LiveOK
  <2> QED BY <1>14, <2>1, <2>3, <2>4, ReturnWorkerCases
<1> QED BY <1>1, <1>4, <1>15, <1>16 DEF Inv

LEMMA WorkerThrowsInv == ASSUME Inv, NEW w \in Workers, WorkerThrows(w) PROVE Inv'
<1>1. /\ status' = [status EXCEPT ![w] = "failed"]
      /\ pool' = Emit(pool, w, "error")
      /\ Settle(pool.listeners[w]["error"], "rejected")
  BY DEF WorkerThrows
<1>2. PoolOK(pool, promise) /\ "error" \in Events
  BY DEF Inv, Events
<1>3. promise' \in PromiseType /\ SettledFor(pool, w, promise, promise')
  BY <1>1, <1>2, Settling
<1>4. /\ PoolOK(pool, promise')
      /\ \A u \in Workers \ {w} : LiveOK(pool, u, promise) => LiveOK(pool, u, promise')
  BY <1>2, <1>3, SettledKeeps
<1>5. Undisturbed(pool, pool', w, promise')
  BY <1>1, <1>2, <1>4, EmitKeeps
<1>6. /\ status' \in [Workers -> {"alive", "failed", "exited"}]
      /\ \A u \in Workers : status'[u] = "alive" => u # w /\ status[u] = "alive"
  BY <1>1 DEF Inv
<1> QED BY <1>3, <1>4, <1>5, <1>6 DEF Inv, Undisturbed

LEMMA WorkerExitsInv == ASSUME Inv, NEW w \in Workers, WorkerExits(w) PROVE Inv'
<1>1. /\ status' = [status EXCEPT ![w] = "exited"]
      /\ pool' = Emit(pool, w, "exit")
      /\ promise' = promise
  BY DEF WorkerExits
<1>2. PoolOK(pool, promise) /\ "exit" \in Events
  BY DEF Inv, Events
<1>3. Undisturbed(pool, pool', w, promise)
  BY <1>1, <1>2, EmitKeeps
<1>4. /\ status' \in [Workers -> {"alive", "failed", "exited"}]
      /\ \A u \in Workers : status'[u] = "alive" => u # w /\ status[u] = "alive"
  BY <1>1 DEF Inv
<1> QED BY <1>1, <1>3, <1>4 DEF Inv, Undisturbed

LEMMA StepInv == ASSUME Inv, [Next]_vars PROVE Inv'
<1>1. ASSUME NEW c \in Calls, RunWorker(c) PROVE Inv'
  BY <1>1, RunWorkerInv
<1>2. ASSUME NEW w \in Workers, WorkerReplies(w) \/ WorkerThrows(w) \/ WorkerExits(w) PROVE Inv'
  BY <1>2, WorkerRepliesInv, WorkerThrowsInv, WorkerExitsInv
<1>3. CASE UNCHANGED vars
  BY <1>3 DEF vars, Inv
<1> QED BY <1>1, <1>2, <1>3 DEF Next

(* The invariant holds of every behaviour.                                 *)
LEMMA InvHolds == Spec => []Inv
BY InitInv, StepInv, PTL DEF Spec

-----------------------------------------------------------------------------
(* What follows                                                            *)

LEMMA InvTypeOK == ASSUME Inv PROVE TypeOK
<1>1. pool \in PoolTypes /\ PoolOK(pool, promise)
  BY DEF Inv, PoolOK
<1>2. \A w \in Workers : Range(pool.listeners[w]["exit"]) \cup Range(pool.inbox[w]) \subseteq Held(pool, w)
  BY DEF Held, Events
<1>3. Range(pool.taskQueue) \cap Posted = {}
  BY <1>1, <1>2 DEF PoolOK, HeldOnce, Posted
<1>4. \A w \in Workers : /\ pool.inbox[w] \in Seq(Calls)
                         /\ \A event \in Events : pool.listeners[w][event] \in Seq(Calls)
  BY <1>1 DEF PoolTypes
<1>5. pool.workerPool \in Seq(Workers) /\ pool.taskQueue \in Seq(Calls)
  BY <1>1 DEF PoolTypes
<1> QED BY <1>1, <1>3, <1>4, <1>5 DEF TypeOK, Inv, PoolOK, QueuedOnce, PromiseType

(* Every field has its type, no call is queued twice, and none is queued   *)
(* and posted.                                                             *)
THEOREM Typing == Spec => []TypeOK
BY InvHolds, InvTypeOK, PTL

(* Whatever the workers before it have left behind, a live worker is in the *)
(* pool once, or serves one call whose promise waits for its reply.        *)
THEOREM OneCallPerLiveWorker == Spec => []LiveWorkersServeOneCall
<1>1. ASSUME Inv, NEW w \in Workers, status[w] = "alive"
      PROVE  LET places == {i \in 1..Len(pool.workerPool) : pool.workerPool[i] = w}
             IN  /\ Cardinality(places) + Len(pool.inbox[w]) = 1
                 /\ pool.listeners[w]["message"] = pool.inbox[w]
                 /\ \A c \in Range(pool.inbox[w]) : promise[c] = "pending"
  <2> DEFINE places == {i \in 1..Len(pool.workerPool) : pool.workerPool[i] = w}
  <2>1. LiveOK(pool, w, promise)
    BY <1>1 DEF Inv
  <2>2. Cardinality(places) + Len(pool.inbox[w]) = 1
    <3>1. CASE Nowhere(pool.workerPool, w) /\ Len(pool.inbox[w]) = 1
      <4>1. places = {}
        BY <3>1 DEF Nowhere
      <4>2. Cardinality(places) = 0
        BY <4>1, FS_EmptySet
      <4> HIDE DEF places
      <4> QED BY <3>1, <4>2
    <3>2. CASE Once(pool.workerPool, w) /\ pool.inbox[w] = <<>>
      <4>1. PICK i : places = {i}
        BY <3>2 DEF Once
      <4>2. Cardinality({i}) = 1
        BY FS_Singleton
      <4> HIDE DEF places
      <4> QED BY <3>2, <4>1, <4>2
    <3> QED BY <2>1, <3>1, <3>2 DEF LiveOK
  <2> HIDE DEF places
  <2> QED BY <2>1, <2>2 DEF LiveOK, places
<1>2. Inv => LiveWorkersServeOneCall
  BY <1>1 DEF LiveWorkersServeOneCall
<1> QED BY <1>2, InvHolds, PTL

(* No call waits in the queue while the pool has a worker.                 *)
THEOREM QueuedOnlyWithoutWorkers == Spec => []NoCallWaitsBesideAWorker
<1>1. Inv => NoCallWaitsBesideAWorker
  BY DEF Inv, PoolOK, NoneWaits, NoCallWaitsBesideAWorker
<1> QED BY <1>1, InvHolds, PTL
=============================================================================
