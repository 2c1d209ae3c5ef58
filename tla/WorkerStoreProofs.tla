------------------------- MODULE WorkerStoreProofs -------------------------
(***************************************************************************)
(* Proofs about WorkerStore, for any keys, values, numbers of seconds and  *)
(* bounds.                                                                 *)
(***************************************************************************)
EXTENDS WorkerStore, GeneralLemmas, FiniteSetTheorems, TLAPS

-----------------------------------------------------------------------------
(* The inductive invariant                                                 *)

ValueOK(v) == v \in Value /\ (v.type = "set" => IsInjective(v.items))

StoreOK(s) == DOMAIN s \subseteq Keys /\ \A k \in DOMAIN s : ValueOK(s[k])

TimerType == [key : Keys, seconds : Seconds, elapsed : Nat]

(* The entries of ttlStore and the timers that run are paired by key; the  *)
(* timers are finitely many, so that one more can be started.              *)
TimersOK(ttl, running) ==
    /\ DOMAIN ttl \subseteq Keys
    /\ IsFiniteSet(DOMAIN running)
    /\ \A id \in DOMAIN running :
          running[id] \in TimerType /\ running[id].key \in DOMAIN ttl /\ ttl[running[id].key] = id
    /\ \A k \in DOMAIN ttl : ttl[k] \in DOMAIN running /\ running[ttl[k]].key = k

ReplyType ==
    [what : {"OK", "null", "undefined", "value", "ERR value is not an integer"}, value : Value]

Inv ==
    /\ StoreOK(store)
    /\ TimersOK(ttlStore, timers)
    /\ alive \in BOOLEAN
    /\ reply \in ReplyType

-----------------------------------------------------------------------------
(* Values and replies                                                      *)

LEMMA Values ==
    /\ \A s \in Items : ValueOK(String(s))
    /\ \A n \in Int : ValueOK(Number(n))
    /\ \A s \in Seq(Items) : ValueOK(List(s))
    /\ \A s \in Seq(Items) : IsInjective(s) => ValueOK(JSSet(s))
BY DEF ValueOK, Value, String, Number, List, JSSet

LEMMA Replies ==
    /\ {OK, Null, NotAnInteger, Undefined, Answer(Number(0)), Answer(Number(1))} \subseteq ReplyType
    /\ \A v \in Value : Answer(v) \in ReplyType /\ OrNull(v) \in ReplyType
<1>1. Number(0) \in Value /\ Number(1) \in Value
  BY Values DEF ValueOK
<1> HIDE DEF Number, Value
<1>2. {OK, Null, NotAnInteger, Undefined} \subseteq ReplyType
  BY <1>1 DEF OK, Null, NotAnInteger, Undefined, Constant, ReplyType
<1>3. \A v \in Value : Answer(v) \in ReplyType
  BY DEF Answer, ReplyType
<1> QED
  BY <1>1, <1>2, <1>3 DEF OrNull

(* A reply of 1 or 0.                                                      *)
LEMMA OneIfReply ==
    ASSUME NEW result, result = Answer(Number(1)) \/ result = Answer(Number(0))
    PROVE  result \in ReplyType
BY Replies

LEMMA WithOK ==
    ASSUME NEW s, StoreOK(s), NEW k \in Keys, NEW v, ValueOK(v)
    PROVE  StoreOK(Put(s, k, v)) /\ DOMAIN s \subseteq DOMAIN Put(s, k, v)
BY DEF StoreOK, Put

LEMMA WithoutOK ==
    ASSUME NEW s, StoreOK(s), NEW k
    PROVE  StoreOK(Without(s, k)) /\ DOMAIN Without(s, k) = DOMAIN s \ {k}
BY DEF StoreOK, Without

(* The items of a key are strings, whatever its type.                      *)
LEMMA ItemsTyped ==
    ASSUME Inv, NEW k
    PROVE  /\ ItemsOf(k) \in Seq(Items)
           /\ ~Has(k) \/ Is(k, "set") => IsInjective(ItemsOf(k))
<1>1. CASE Has(k)
  <2>1. store[k] \in Value /\ (store[k].type = "set" => IsInjective(store[k].items))
    BY <1>1 DEF Inv, StoreOK, ValueOK, Has
  <2>2. store[k].items \in Seq(Items)
    BY <2>1 DEF Value
  <2> QED
    BY <1>1, <2>1, <2>2 DEF ItemsOf, Is
<1>2. CASE ~Has(k)
  <2>1. ItemsOf(k) = <<>>
    BY <1>2 DEF ItemsOf
  <2>2. <<>> \in Seq(Items) /\ IsInjective(<<>>)
    BY DEF IsInjective
  <2> QED
    BY <2>1, <2>2
<1> QED
  BY <1>1, <1>2

-----------------------------------------------------------------------------
(* Messages that leave the timers alone                                    *)

(* A message that answers and reads, or writes a store that is typed.      *)
LEMMA MessageInv ==
    ASSUME Inv, NEW result \in ReplyType, Answers(result),
           Reads \/ \E s : StoreOK(s) /\ Writes(s)
    PROVE  Inv'
BY DEF Inv, Answers, Reads, Writes

LEMMA StringOrCountInv == ASSUME Inv, NEW k \in Keys, StringOrCount(k) PROVE Inv'
<1>1. StoreOK(store)
  BY DEF Inv
<1>2. ASSUME NEW v, ValueOK(v), Set(k, v) PROVE Inv'
  <2>1. StoreOK(Put(store, k, v))
    BY <1>1, <1>2, WithOK
  <2> QED
    BY <1>2, <2>1, Replies, MessageInv DEF Set
<1>3. CASE Get(k)
  <2> DEFINE result == IF Has(k) THEN OrNull(store[k]) ELSE Null
  <2>1. Has(k) => store[k] \in Value
    BY <1>1 DEF StoreOK, ValueOK, Has
  <2>2. result \in ReplyType
    BY <2>1, Replies
  <2>3. Answers(result) /\ Reads
    BY <1>3 DEF Get
  <2> HIDE DEF result
  <2> QED
    BY <2>2, <2>3, MessageInv
<1>4. CASE Del(k)
  <2>1. StoreOK(Without(store, k))
    BY <1>1, WithoutOK
  <2>2. PICK result : result \in ReplyType /\ Answers(result)
    BY <1>4, OneIfReply DEF Del, OneIf
  <2> QED
    BY <1>4, <2>1, <2>2, MessageInv DEF Del
<1>5. CASE Exists(k)
  <2>1. PICK result : result \in ReplyType /\ Answers(result)
    BY <1>5, OneIfReply DEF Exists, OneIf
  <2> QED
    BY <1>5, <2>1, MessageInv DEF Exists
<1>6. CASE Persist
  BY <1>6, Replies, MessageInv DEF Persist
<1>7. ASSUME NEW by \in {1, -1}, Count(k, by) PROVE Inv'
  <2>1. CASE Has(k) /\ ~Is(k, "number") /\ Answers(NotAnInteger) /\ Reads
    BY <2>1, Replies, MessageInv
  <2> DEFINE sum == (IF Has(k) THEN store[k].number ELSE 0) + by
  <2>2. CASE /\ sum \in -MaxNumber..MaxNumber
             /\ Answers(Answer(Number(sum)))
             /\ Writes(Put(store, k, Number(sum)))
    <3>1. sum \in Int
      BY <2>2, WorkerStoreAssumption
    <3> HIDE DEF sum
    <3>2. ValueOK(Number(sum)) /\ Number(sum) \in Value
      BY <3>1, Values DEF ValueOK
    <3>3. StoreOK(Put(store, k, Number(sum)))
      BY <1>1, <3>2, WithOK
    <3>4. Answer(Number(sum)) \in ReplyType
      BY <3>2, Replies
    <3> QED
      BY <2>2, <3>3, <3>4, MessageInv
  <2> QED
    BY <1>7, <2>1, <2>2 DEF Count
<1>8. \A s \in Items : ValueOK(String(s))
  BY Values
<1>9. \A n \in 0..MaxNumber : ValueOK(Number(n))
  BY Values, WorkerStoreAssumption
<1> QED
  BY <1>2, <1>3, <1>4, <1>5, <1>6, <1>7, <1>8, <1>9 DEF StringOrCount

(* LPUSH and RPUSH.                                                        *)
LEMMA PushInv ==
    ASSUME Inv, NEW k \in Keys, NEW items \in Seq(Items), Push(k, items) PROVE Inv'
<1>1. ValueOK(List(items)) /\ Number(Len(items)) \in Value
  BY Values DEF ValueOK
<1>2. StoreOK(Put(store, k, List(items)))
  BY <1>1, WithOK DEF Inv
<1>3. Answer(Number(Len(items))) \in ReplyType
  BY <1>1, Replies
<1> QED
  BY <1>2, <1>3, MessageInv DEF Push

(* LPOP and RPOP.                                                          *)
LEMMA PopInv ==
    ASSUME Inv, NEW k \in Keys, NEW item, NEW rest, Pop(k, item, rest),
           ItemsOf(k) # <<>> => item \in Items /\ rest \in Seq(Items)
    PROVE  Inv'
<1>1. CASE Answers(Null) /\ Reads
  BY <1>1, Replies, MessageInv
<1>2. CASE /\ Is(k, "list") /\ store[k].items # <<>>
           /\ Answers(OrNull(String(item)))
           /\ Writes(Put(store, k, List(rest)))
  <2>1. item \in Items /\ rest \in Seq(Items)
    BY <1>2 DEF Is, ItemsOf
  <2>2. String(item) \in Value /\ ValueOK(List(rest))
    BY <2>1, Values DEF ValueOK
  <2>3. StoreOK(Put(store, k, List(rest))) /\ OrNull(String(item)) \in ReplyType
    BY <2>2, WithOK, Replies DEF Inv
  <2> QED
    BY <1>2, <2>3, MessageInv
<1> QED
  BY <1>1, <1>2 DEF Pop

(* SADD and SREM, which keep the items of a set distinct.                  *)
LEMMA SetOpInv ==
    ASSUME Inv, NEW k \in Keys, NEW item \in Items, SAdd(k, item) \/ SRem(k, item)
    PROVE  Inv'
<1>1. ItemsOf(k) \in Seq(Items) /\ (~Has(k) \/ Is(k, "set") => IsInjective(ItemsOf(k)))
  BY ItemsTyped
<1>2. PICK result : result \in ReplyType /\ Answers(result)
  BY OneIfReply DEF SAdd, SRem, OneIf
<1>3. CASE SAdd(k, item)
  <2>1. Add(ItemsOf(k), item) \in Seq(Items) /\ IsInjective(Add(ItemsOf(k), item))
    BY <1>1, <1>3, AddElement DEF SAdd
  <2>2. StoreOK(Put(store, k, JSSet(Add(ItemsOf(k), item))))
    BY <2>1, Values, WithOK DEF Inv
  <2> QED
    BY <1>2, <1>3, <2>2, MessageInv DEF SAdd
<1>4. CASE SRem(k, item)
  <2>1. CASE Reads
    BY <1>2, <2>1, MessageInv
  <2>2. CASE Is(k, "set") /\ Writes(Put(store, k, JSSet(Delete(store[k].items, item))))
    <3>1. store[k].items = ItemsOf(k)
      BY <2>2 DEF Is, ItemsOf
    <3>2. Delete(ItemsOf(k), item) \in Seq(Items) /\ IsInjective(Delete(ItemsOf(k), item))
      BY <1>1, <2>2, DeleteElement
    <3>3. StoreOK(Put(store, k, JSSet(Delete(ItemsOf(k), item))))
      BY <3>2, Values, WithOK DEF Inv
    <3> QED
      BY <1>2, <2>2, <3>1, <3>3, MessageInv
  <2> QED
    BY <1>4, <2>1, <2>2 DEF SRem
<1> QED
  BY <1>3, <1>4

LEMMA ListOrSetInv == ASSUME Inv, NEW k \in Keys, ListOrSet(k) PROVE Inv'
<1> DEFINE items == ItemsOf(k)
<1>1. items \in Seq(Items)
  BY ItemsTyped
<1> HIDE DEF items
<1>2. ASSUME NEW item \in Items, LPush(k, item) \/ RPush(k, item) PROVE Inv'
  <2>1. <<item>> \o items \in Seq(Items) /\ Append(items, item) \in Seq(Items)
    BY <1>1
  <2> QED
    BY <1>2, <2>1, PushInv DEF LPush, RPush, items
<1>3. CASE LPop(k) \/ RPop(k)
  <2>1. items # <<>> =>
           /\ Head(items) \in Items /\ Tail(items) \in Seq(Items)
           /\ Last(items) \in Items /\ Front(items) \in Seq(Items)
    BY <1>1 DEF Last, Front
  <2> QED
    BY <1>3, <2>1, PopInv DEF LPop, RPop, items
<1>4. CASE SMembers(k)
  <2> DEFINE members == IF Is(k, "set") THEN store[k].items ELSE <<>>
  <2>1. members \in Seq(Items)
    BY <1>1 DEF items, ItemsOf, Is
  <2> HIDE DEF members
  <2>2. Answer(List(members)) \in ReplyType
    BY <2>1, Values, Replies DEF ValueOK
  <2>3. Answers(Answer(List(members))) /\ Reads
    BY <1>4 DEF SMembers, members
  <2> QED
    BY <2>2, <2>3, MessageInv
<1>5. ASSUME NEW type, Throw(k, type) PROVE Inv'
  BY <1>5, Replies DEF Throw, Inv, Reads
<1> QED
  BY <1>2, <1>3, <1>4, <1>5, SetOpInv DEF ListOrSet

-----------------------------------------------------------------------------
(* Timers                                                                  *)

(* A finite set of timers leaves a number free.                            *)
LEMMA FreeTimerIsFree ==
    ASSUME NEW set, IsFiniteSet(set) PROVE FreeTimer(set) \in Nat \ set
<1> DEFINE n == Cardinality(set)
           free == (1..(n + 1)) \ set
<1>1. n \in Nat
  BY FS_CardinalityType
<1>2. free # {}
  <2> SUFFICES ASSUME 1..(n + 1) \subseteq set PROVE FALSE
    OBVIOUS
  <2>1. Cardinality(1..(n + 1)) = n + 1
    <3>1. 1 \in Int /\ n + 1 \in Int /\ 1 <= n + 1
      BY <1>1
    <3> HIDE DEF n
    <3> QED
      BY <1>1, <3>1, FS_Interval
  <2>2. Cardinality(1..(n + 1)) <= n
    BY FS_Subset
  <2> HIDE DEF n
  <2> QED
    BY <1>1, <2>1, <2>2
<1>3. free \subseteq Nat
  BY <1>1
<1> HIDE DEF n
<1>4. PICK least \in free : \A m \in free : least <= m
  <2> HIDE DEF free
  <2> QED
    BY <1>2, <1>3, LeastNumber
<1>5. \A m \in 1..(least - 1) : m \in set
  <2> SUFFICES ASSUME NEW m \in 1..(least - 1), m \notin set PROVE FALSE
    OBVIOUS
  <2>1. m \in free /\ m < least
    BY <1>1, <1>4
  <2> QED
    BY <1>3, <1>4, <2>1
<1>6. least \in 1..(n + 1) /\ least \notin set
  BY <1>4
<1>7. FreeTimer(set) \in 1..(n + 1) /\ FreeTimer(set) \notin set
  BY <1>5, <1>6 DEF FreeTimer, n
<1> QED
  BY <1>1, <1>7

(* Clearing the timer of a key takes its number out of the finite set and  *)
(* leaves no timer of that key.                                            *)
LEMMA ClearTimer ==
    ASSUME NEW ttl, NEW running, TimersOK(ttl, running), NEW k,
           NEW cleared, cleared = IF k \in DOMAIN ttl THEN Without(running, ttl[k]) ELSE running
    PROVE  /\ IsFiniteSet(DOMAIN cleared) /\ DOMAIN cleared \subseteq DOMAIN running
           /\ \A id \in DOMAIN cleared : cleared[id] = running[id] /\ running[id].key # k
           /\ \A l \in DOMAIN ttl : l # k => ttl[l] \in DOMAIN cleared
<1>1. CASE k \in DOMAIN ttl
  <2>1. DOMAIN cleared = DOMAIN running \ {ttl[k]} /\ \A id \in DOMAIN cleared : cleared[id] = running[id]
    BY <1>1 DEF Without
  <2>2. IsFiniteSet(DOMAIN cleared)
    BY <2>1, FS_RemoveElement DEF TimersOK
  <2> QED
    BY <2>1, <2>2 DEF TimersOK
<1>2. CASE k \notin DOMAIN ttl
  BY <1>2 DEF TimersOK
<1> QED
  BY <1>1, <1>2

LEMMA ExpireInv == ASSUME Inv, NEW k \in Keys, NEW seconds \in Seconds, Expire(k, seconds) PROVE Inv'
<1>1. CASE ~Has(k)
  <2>1. Answers(Answer(Number(0))) /\ Reads
    BY <1>1 DEF Expire, OneIf
  <2> QED
    BY <2>1, Replies, MessageInv
<1>2. CASE Has(k)
  <2> DEFINE cleared == IF k \in DOMAIN ttlStore THEN Without(timers, ttlStore[k]) ELSE timers
             id == FreeTimer(DOMAIN cleared)
             timer == [key |-> k, seconds |-> seconds, elapsed |-> 0]
  <2>1. StartTimer(k, seconds, cleared) /\ Answers(Answer(Number(1))) /\ UNCHANGED store
    BY <1>2 DEF Expire, OneIf
  <2>2. TimersOK(ttlStore, timers)
    BY DEF Inv
  <2>3. /\ IsFiniteSet(DOMAIN cleared) /\ DOMAIN cleared \subseteq DOMAIN timers
        /\ \A i \in DOMAIN cleared : cleared[i] = timers[i] /\ timers[i].key # k
        /\ \A l \in DOMAIN ttlStore : l # k => ttlStore[l] \in DOMAIN cleared
    BY <2>2, ClearTimer
  <2>4. timers' = Put(cleared, id, timer) /\ ttlStore' = Put(ttlStore, k, id)
    BY <2>1 DEF StartTimer
  <2> HIDE DEF cleared
  <2>5. id \notin DOMAIN cleared
    BY <2>3, FreeTimerIsFree
  <2> HIDE DEF id
  <2>6. /\ DOMAIN timers' = DOMAIN cleared \cup {id} /\ timers'[id] = timer
        /\ \A i \in DOMAIN cleared : timers'[i] = timers[i]
    BY <2>3, <2>4, <2>5 DEF Put
  <2>7. /\ DOMAIN ttlStore' = DOMAIN ttlStore \cup {k} /\ ttlStore'[k] = id
        /\ \A l \in DOMAIN ttlStore \ {k} : ttlStore'[l] = ttlStore[l]
    BY <2>4 DEF Put
  <2>8. timer \in TimerType /\ timer.key = k
    BY DEF TimerType
  <2> HIDE DEF timer
  <2>9. IsFiniteSet(DOMAIN timers')
    BY <2>3, <2>6, FS_AddElement
  <2>10. ASSUME NEW i \in DOMAIN timers'
         PROVE  /\ timers'[i] \in TimerType /\ timers'[i].key \in DOMAIN ttlStore'
                /\ ttlStore'[timers'[i].key] = i
    <3>1. CASE i = id
      BY <2>6, <2>7, <2>8, <3>1
    <3>2. CASE i \in DOMAIN cleared
      BY <2>2, <2>3, <2>6, <2>7, <3>2 DEF TimersOK
    <3> QED
      BY <2>6, <3>1, <3>2
  <2>11. ASSUME NEW l \in DOMAIN ttlStore'
         PROVE  ttlStore'[l] \in DOMAIN timers' /\ timers'[ttlStore'[l]].key = l
    <3>1. CASE l = k
      BY <2>6, <2>7, <2>8, <3>1
    <3>2. CASE l # k
      BY <2>2, <2>3, <2>6, <2>7, <3>2 DEF TimersOK
    <3> QED
      BY <3>1, <3>2
  <2>12. DOMAIN ttlStore' \subseteq Keys
    BY <2>2, <2>7 DEF TimersOK
  <2>13. TimersOK(ttlStore', timers')
    BY <2>9, <2>10, <2>11, <2>12 DEF TimersOK
  <2> QED
    BY <2>1, <2>13, Replies DEF Inv, Answers
<1> QED
  BY <1>1, <1>2

LEMMA TtlInv == ASSUME Inv, NEW k \in Keys, Ttl(k) PROVE Inv'
<1> DEFINE n == IF k \in DOMAIN ttlStore THEN idleTimeout(timers[ttlStore[k]]) ELSE -1
<1>1. n \in Int
  <2>1. k \in DOMAIN ttlStore => timers[ttlStore[k]] \in TimerType
    BY DEF Inv, TimersOK
  <2>2. k \in DOMAIN ttlStore => timers[ttlStore[k]].seconds \in Nat
    BY <2>1, WorkerStoreAssumption DEF TimerType
  <2>3. k \in DOMAIN ttlStore => idleTimeout(timers[ttlStore[k]]) \in Nat
    BY <2>2 DEF idleTimeout
  <2> QED
    BY <2>3
<1>2. Answers(Answer(Number(n))) /\ Reads
  BY DEF Ttl
<1> HIDE DEF n
<1>3. Answer(Number(n)) \in ReplyType
  BY <1>1, Values, Replies DEF ValueOK
<1> QED
  BY <1>2, <1>3, MessageInv

(* Time passes for all timers at once.                                     *)
LEMMA TimePassesInv == ASSUME Inv, TimePasses PROVE Inv'
<1>1. TimersOK(ttlStore, timers)
  BY DEF Inv
<1>2. /\ DOMAIN timers' = DOMAIN timers
      /\ \A id \in DOMAIN timers :
            timers'[id] = [timers[id] EXCEPT !.elapsed = IF @ < timers[id].seconds THEN @ + 1 ELSE @]
  BY DEF TimePasses
<1>3. ASSUME NEW id \in DOMAIN timers
      PROVE  timers'[id] \in TimerType /\ timers'[id].key = timers[id].key
  <2>1. timers[id] \in TimerType
    BY <1>1 DEF TimersOK
  <2> QED
    BY <1>2, <2>1 DEF TimerType
<1>4. TimersOK(ttlStore, timers')
  BY <1>1, <1>2, <1>3 DEF TimersOK
<1> QED
  BY <1>4 DEF Inv, TimePasses

(* The callback of a timer, whose entry is that of its key.                *)
LEMMA TimerFiresInv == ASSUME Inv, NEW id, TimerFires(id) PROVE Inv'
<1> DEFINE k == timers[id].key
<1>1. TimersOK(ttlStore, timers) /\ StoreOK(store) /\ id \in DOMAIN timers
  BY DEF Inv, TimerFires, Fires
<1>2. store' = Without(store, k) /\ ttlStore' = Without(ttlStore, k) /\ timers' = Without(timers, id)
  BY DEF TimerFires
<1>3. k \in DOMAIN ttlStore /\ ttlStore[k] = id
  BY <1>1 DEF TimersOK
<1>4. /\ DOMAIN timers' = DOMAIN timers \ {id}
      /\ \A i \in DOMAIN timers' : timers'[i] = timers[i]
      /\ DOMAIN ttlStore' = DOMAIN ttlStore \ {k}
      /\ \A l \in DOMAIN ttlStore' : ttlStore'[l] = ttlStore[l]
  BY <1>2 DEF Without
<1>5. IsFiniteSet(DOMAIN timers')
  BY <1>1, <1>4, FS_RemoveElement DEF TimersOK
<1> HIDE DEF k
<1>6. TimersOK(ttlStore', timers')
  BY <1>1, <1>3, <1>4, <1>5 DEF TimersOK
<1>7. StoreOK(store')
  BY <1>1, <1>2, WithoutOK
<1> QED
  BY <1>6, <1>7 DEF Inv, TimerFires

-----------------------------------------------------------------------------
(* A thread starts with nothing; every step preserves the invariant        *)

LEMMA EmptyOK == StoreOK(Empty) /\ TimersOK(Empty, Empty)
BY FS_EmptySet DEF Empty, StoreOK, TimersOK

LEMMA InitInv == ASSUME Init PROVE Inv
BY EmptyOK, Replies DEF Init, Inv

LEMMA StepInv == ASSUME Inv, [Next]_vars PROVE Inv'
<1>1. CASE UNCHANGED vars
  BY <1>1 DEF vars, Inv
<1>2. CASE Next
  <2>1. ASSUME NEW k \in Keys, StringOrCount(k) \/ ListOrSet(k) \/ Expiry(k) PROVE Inv'
    BY <2>1, StringOrCountInv, ListOrSetInv, ExpireInv, TtlInv DEF Expiry
  <2>2. CASE NewThread
    BY <2>2, EmptyOK, Replies DEF NewThread, Inv
  <2> QED
    BY <1>2, <2>1, <2>2, TimePassesInv, TimerFiresInv DEF Next
<1> QED
  BY <1>1, <1>2

LEMMA InvHolds == Spec => []Inv
<1>1. Init => Inv
  BY InitInv
<1>2. Inv /\ [Next]_vars => Inv'
  BY StepInv
<1> QED
  BY <1>1, <1>2, PTL DEF Spec

-----------------------------------------------------------------------------
(* Theorems                                                                *)

(* Whatever the messages, values and replies keep their types; unshift,    *)
(* push, add and delete leave a list of strings a list of strings, and a   *)
(* set without an item twice.                                              *)
THEOREM Typing == Spec => []TypeOK
<1>1. Inv => TypeOK
  <2> SUFFICES ASSUME Inv PROVE TypeOK
    OBVIOUS
  <2>1. reply.what \in {"OK", "null", "undefined", "value", "ERR value is not an integer"}
        /\ reply.value \in Value
    BY DEF Inv, ReplyType
  <2> QED
    BY <2>1 DEF Inv, StoreOK, ValueOK, TimersOK, TypeOK, Is, Has
<1> QED
  BY <1>1, InvHolds, PTL

(* For any keys and seconds: however expire, del, set, ticks and callbacks *)
(* follow each other, each timer that runs is the one that ttlStore has    *)
(* for its key, and each entry of ttlStore is a timer that runs.           *)
THEOREM TimersMatchKeys == Spec => []EveryTimerIsItsKeys
<1>1. Inv => EveryTimerIsItsKeys
  BY DEF Inv, TimersOK, EveryTimerIsItsKeys
<1> QED
  BY <1>1, InvHolds, PTL

(* Messages other than del that come to a thread keep every key.           *)
LEMMA OthersKeepKeys ==
    ASSUME Inv, NEW k \in Keys, StringOrCount(k) \/ ListOrSet(k) \/ Expiry(k), ~Del(k)
    PROVE  DOMAIN store \subseteq DOMAIN store'
<1>1. \A l, v : DOMAIN store \subseteq DOMAIN Put(store, l, v)
  BY DEF Put
<1> QED
  BY <1>1 DEF StringOrCount, ListOrSet, Expiry, Set, Get, Exists, Persist, Count, LPush, RPush,
              Push, SAdd, SRem, LPop, RPop, Pop, SMembers, Throw, Expire, Ttl, Reads, Writes

(* A key is lost with its thread, by del, or when all the seconds of its   *)
(* last expire have passed; never by the timer of an earlier expire.       *)
THEOREM LastExpireRemoves == Spec => OnlyTheLastExpireRemoves
<1> DEFINE Removes ==
        \A k \in DOMAIN store \ DOMAIN store' :
            \/ Del(k)
            \/ ~alive
            \/ k \in DOMAIN ttlStore /\ timers[ttlStore[k]].elapsed = timers[ttlStore[k]].seconds
<1>1. ASSUME Inv, Next PROVE Removes
  <2>1. ASSUME NEW l \in Keys, StringOrCount(l) \/ ListOrSet(l) \/ Expiry(l) PROVE Removes
    <3>1. CASE Del(l)
      <4>1. DOMAIN store' = DOMAIN store \ {l}
        BY <3>1 DEF Del, Writes, Without
      <4> QED
        BY <3>1, <4>1
    <3>2. CASE ~Del(l)
      BY <1>1, <2>1, <3>2, OthersKeepKeys
    <3> QED
      BY <3>1, <3>2
  <2>2. CASE TimePasses
    BY <2>2 DEF TimePasses
  <2>3. ASSUME NEW id \in DOMAIN timers, TimerFires(id) PROVE Removes
    <3>1. DOMAIN store' = DOMAIN store \ {timers[id].key}
      BY <2>3 DEF TimerFires, Without
    <3>2. /\ timers[id].key \in DOMAIN ttlStore /\ ttlStore[timers[id].key] = id
          /\ timers[id].elapsed = timers[id].seconds
      BY <1>1, <2>3 DEF Inv, TimersOK, TimerFires, Fires
    <3> QED
      BY <3>1, <3>2
  <2>4. CASE NewThread
    BY <2>4 DEF NewThread
  <2> QED
    BY <1>1, <2>1, <2>2, <2>3, <2>4 DEF Next
<1>2. Inv /\ [Next]_vars => [Removes]_vars
  BY <1>1
<1> HIDE DEF Removes
<1>3. Spec => [][Removes]_vars
  BY <1>2, InvHolds, PTL DEF Spec
<1> QED
  BY <1>3 DEF Removes, OnlyTheLastExpireRemoves
=============================================================================
