---------------------------- MODULE WorkerStore ----------------------------
(***************************************************************************)
(* worker/worker.js: the store that each worker thread keeps, with the     *)
(* timers that remove its expiring keys.  One message is handled, or one   *)
(* timer's callback runs, at a time; that is one action.  A thread that    *)
(* throws dies with its store, and the pool starts another.                *)
(***************************************************************************)
EXTENDS Integers, SequencesExt, Collections

CONSTANTS
    Keys,
    Items,       \* strings: values of `set', elements of lists and sets
    EmptyString, \* the one that is falsy
    Seconds,     \* arguments of expire
    MaxNumber,   \* bound on the absolute value of the numbers stored
    MaxLength    \* bound on the length of the lists

ASSUME WorkerStoreAssumption ==
    /\ EmptyString \in Items
    /\ Seconds \subseteq Nat
    /\ MaxNumber \in Nat
    /\ MaxLength \in Nat

VARIABLES
    store,    \* from the keys that are present to their values
    ttlStore, \* from the keys that expire to their timers
    timers,   \* the timers that are set: not cleared, and not fired yet
    alive,    \* the thread has not thrown
    reply     \* the result of the last message

vars == <<store, ttlStore, timers, alive, reply>>

(* A string is its only item; a Set lists its elements as inserted.        *)
Value == [type : {"string", "number", "list", "set"}, number : Int, items : Seq(Items)]

String(s) == [type |-> "string", number |-> 0, items |-> <<s>>]
Number(n) == [type |-> "number", number |-> n, items |-> <<>>]
List(s) == [type |-> "list", number |-> 0, items |-> s]
JSSet(s) == [type |-> "set", number |-> 0, items |-> s]

Falsy == {Number(0), String(EmptyString)}

(* What is posted: a value, or one of the others; numbers are answered as  *)
(* values.                                                                 *)
Answer(v) == [what |-> "value", value |-> v]
Constant(what) == [what |-> what, value |-> Number(0)]
OK == Constant("OK")
Null == Constant("null")
NotAnInteger == Constant("ERR value is not an integer")
Undefined == Constant("undefined")

OrNull(v) == IF v \in Falsy THEN Null ELSE Answer(v)
OneIf(condition) == Answer(Number(IF condition THEN 1 ELSE 0))

Has(k) == k \in DOMAIN store
Is(k, type) == Has(k) /\ store[k].type = type

-----------------------------------------------------------------------------
(* Messages                                                                *)

Answers(result) == alive /\ reply' = result /\ UNCHANGED alive

Reads == UNCHANGED <<store, ttlStore, timers>>
Writes(s) == store' = s /\ UNCHANGED <<ttlStore, timers>>

Set(k, v) == Answers(OK) /\ Writes(Put(store, k, v))

Get(k) == Answers(IF Has(k) THEN OrNull(store[k]) ELSE Null) /\ Reads

(* The timer and its entry in ttlStore stay.                               *)
Del(k) == Answers(OneIf(Has(k))) /\ Writes(Without(store, k))

Exists(k) == Answers(OneIf(Has(k))) /\ Reads

(* incr (by = 1) and decr (by = -1).                                       *)
Count(k, by) ==
    \/ /\ ~Has(k) \/ Is(k, "number")
       /\ LET sum == (IF Has(k) THEN store[k].number ELSE 0) + by
          IN  /\ sum \in -MaxNumber..MaxNumber
              /\ Answers(Answer(Number(sum)))
              /\ Writes(Put(store, k, Number(sum)))
    \/ Has(k) /\ ~Is(k, "number") /\ Answers(NotAnInteger) /\ Reads

(* Timer objects are numbered with the least number that is free.          *)
FreeTimer(set) == CHOOSE n \in 1..(Cardinality(set) + 1) :
                      n \notin set /\ \A m \in 1..(n - 1) : m \in set

StartTimer(k, seconds, running) ==
    LET id == FreeTimer(DOMAIN running)
    IN  /\ timers' = Put(running, id, [key |-> k, seconds |-> seconds, elapsed |-> 0])
        /\ ttlStore' = Put(ttlStore, k, id)

(* Mutant: the timer of an earlier expire is not cleared.                  *)
ExpireKeepsOldTimer(k, seconds) ==
    \/ /\ Has(k)
       /\ Cardinality(DOMAIN timers) < Cardinality(Keys) + 1
       /\ StartTimer(k, seconds, timers)
       /\ Answers(OneIf(TRUE))
       /\ UNCHANGED store
    \/ ~Has(k) /\ Answers(OneIf(FALSE)) /\ Reads

Expire(k, seconds) ==
    \/ /\ Has(k)
       /\ StartTimer(k, seconds,
                     IF k \in DOMAIN ttlStore THEN Without(timers, ttlStore[k]) ELSE timers)
       /\ Answers(OneIf(TRUE))
       /\ UNCHANGED store
    \/ ~Has(k) /\ Answers(OneIf(FALSE)) /\ Reads

(* _idleTimeout is what the timer was started with, not what is left;      *)
(* setTimeout makes one millisecond of 0, which ttl rounds up to a second. *)
idleTimeout(timer) == IF timer.seconds = 0 THEN 1 ELSE timer.seconds

Ttl(k) ==
    /\ Answers(Answer(Number(IF k \in DOMAIN ttlStore THEN idleTimeout(timers[ttlStore[k]]) ELSE -1)))
    /\ Reads

(* `persist' is sent by the facade, but the switch has no case for it.     *)
Persist == Answers(Undefined) /\ Reads

ItemsOf(k) == IF Has(k) THEN store[k].items ELSE <<>>

(* LPUSH and RPUSH, on a list or a new one.                                *)
Push(k, items) ==
    /\ ~Has(k) \/ Is(k, "list")
    /\ Len(items) <= MaxLength
    /\ Answers(Answer(Number(Len(items))))
    /\ Writes(Put(store, k, List(items)))

LPush(k, item) == Push(k, <<item>> \o ItemsOf(k))
RPush(k, item) == Push(k, Append(ItemsOf(k), item))

(* LPOP and RPOP: an empty string is answered as null, and is gone.        *)
Pop(k, item, rest) ==
    \/ /\ Is(k, "list") /\ store[k].items # <<>>
       /\ Answers(OrNull(String(item)))
       /\ Writes(Put(store, k, List(rest)))
    \/ /\ ~(Is(k, "list") /\ store[k].items # <<>>)
       /\ Answers(Null) /\ Reads

LPop(k) == Pop(k, Head(ItemsOf(k)), Tail(ItemsOf(k)))
RPop(k) == Pop(k, Last(ItemsOf(k)), Front(ItemsOf(k)))

(* Mutant: the set is kept as an array.                                    *)
SAddTwice(k, item) ==
    /\ ~Has(k) \/ Is(k, "set")
    /\ Len(ItemsOf(k)) < MaxLength
    /\ Answers(OneIf(TRUE))
    /\ Writes(Put(store, k, JSSet(Append(ItemsOf(k), item))))

(* SADD answers 1 even if the item was in the set: add returns the set.    *)
SAdd(k, item) ==
    /\ ~Has(k) \/ Is(k, "set")
    /\ Answers(OneIf(TRUE))
    /\ Writes(Put(store, k, JSSet(Add(ItemsOf(k), item))))

SRem(k, item) ==
    \/ /\ Is(k, "set") /\ Contains(store[k].items, item)
       /\ Answers(OneIf(TRUE))
       /\ Writes(Put(store, k, JSSet(Delete(store[k].items, item))))
    \/ /\ ~(Is(k, "set") /\ Contains(store[k].items, item))
       /\ Answers(OneIf(FALSE)) /\ Reads

SMembers(k) ==
    Answers(Answer(List(IF Is(k, "set") THEN store[k].items ELSE <<>>))) /\ Reads

(* unshift, push and add exist on their own type of value only; on another *)
(* they throw, and nothing catches it: the thread ends without a reply.    *)
Throw(k, type) ==
    /\ alive
    /\ Has(k) /\ ~Is(k, type)
    /\ alive' = FALSE
    /\ reply' = Undefined
    /\ Reads

-----------------------------------------------------------------------------
(* Timers                                                                  *)

(* No timer fires early; one may fire late, and others before it.          *)
TimePasses ==
    /\ alive
    /\ \E id \in DOMAIN timers : timers[id].elapsed < timers[id].seconds
    /\ timers' = [id \in DOMAIN timers |->
                     [timers[id] EXCEPT !.elapsed = IF @ < timers[id].seconds THEN @ + 1 ELSE @]]
    /\ UNCHANGED <<store, ttlStore, alive, reply>>

Fires(id) == alive /\ id \in DOMAIN timers /\ timers[id].elapsed = timers[id].seconds

(* Mutant: the callback forgets the timer and not the key.                 *)
TimerFiresKeepingKey(id) ==
    /\ Fires(id)
    /\ ttlStore' = Without(ttlStore, timers[id].key)
    /\ timers' = Without(timers, id)
    /\ UNCHANGED <<store, alive, reply>>

(* The callback that expire has given to setTimeout.                       *)
TimerFires(id) ==
    /\ Fires(id)
    /\ store' = Without(store, timers[id].key)
    /\ ttlStore' = Without(ttlStore, timers[id].key)
    /\ timers' = Without(timers, id)
    /\ UNCHANGED <<alive, reply>>

-----------------------------------------------------------------------------
Empty == [k \in {} |-> 0]

Init ==
    /\ store = Empty
    /\ ttlStore = Empty
    /\ timers = Empty
    /\ alive = TRUE
    /\ reply = Undefined

(* The pool starts another thread in the place of one that has thrown.     *)
NewThread ==
    /\ ~alive
    /\ store' = Empty
    /\ ttlStore' = Empty
    /\ timers' = Empty
    /\ alive' = TRUE
    /\ reply' = Undefined

StringOrCount(k) ==
    \/ \E s \in Items : Set(k, String(s))
    \/ \E n \in 0..MaxNumber : Set(k, Number(n))
    \/ Get(k) \/ Del(k) \/ Exists(k) \/ Persist
    \/ Count(k, 1) \/ Count(k, -1)

ListOrSet(k) ==
    \/ \E item \in Items :
          LPush(k, item) \/ RPush(k, item) \/ SAdd(k, item) \/ SRem(k, item)
    \/ LPop(k) \/ RPop(k) \/ SMembers(k)
    \/ \E type \in {"list", "set"} : Throw(k, type)

Expiry(k) == (\E seconds \in Seconds : Expire(k, seconds)) \/ Ttl(k)

Next ==
    \/ \E k \in Keys : StringOrCount(k) \/ ListOrSet(k) \/ Expiry(k)
    \/ TimePasses
    \/ \E id \in DOMAIN timers : TimerFires(id)
    \/ NewThread

Spec == Init /\ [][Next]_vars

TimerIds == 1..Cardinality(Keys)

(* The clock advances and the runtime runs the callbacks that are due, no  *)
(* matter which messages arrive; the pool replaces a dead thread.          *)
FairSpec ==
    /\ Spec
    /\ WF_vars(TimePasses)
    /\ \A id \in TimerIds : WF_vars(TimerFires(id))
    /\ WF_vars(NewThread)

-----------------------------------------------------------------------------
(* Properties                                                              *)

(* Every variable has its type, and a set holds no item twice.             *)
TypeOK ==
    /\ DOMAIN store \subseteq Keys
    /\ \A k \in DOMAIN store :
          store[k] \in Value /\ (Is(k, "set") => IsInjective(store[k].items))
    /\ DOMAIN ttlStore \subseteq Keys
    /\ alive \in BOOLEAN
    /\ reply.what \in {"OK", "null", "undefined", "value", "ERR value is not an integer"}
    /\ reply.value \in Value

(* ttlStore and the timers that are running are the same thing: however    *)
(* often a key is set, deleted and expired again, no timer is left over    *)
(* that nobody can clear, and no entry points to one that is over.         *)
EveryTimerIsItsKeys ==
    /\ \A id \in DOMAIN timers :
          timers[id].key \in DOMAIN ttlStore /\ ttlStore[timers[id].key] = id
    /\ \A k \in DOMAIN ttlStore : ttlStore[k] \in DOMAIN timers /\ timers[ttlStore[k]].key = k

(* A key that no message deletes is removed when the time of its last      *)
(* expire has passed, never when the time of an earlier one has.           *)
OnlyTheLastExpireRemoves ==
    [][\A k \in DOMAIN store \ DOMAIN store' :
          \/ Del(k)
          \/ ~alive
          \/ k \in DOMAIN ttlStore /\ timers[ttlStore[k]].elapsed = timers[ttlStore[k]].seconds]_vars

(* A key that expires is removed, if expire is not called again and again. *)
ExpiringKeysGo ==
    \A k \in Keys :
        <>[][\A seconds \in Seconds : ~Expire(k, seconds)]_vars
            => (k \in DOMAIN ttlStore ~> k \notin DOMAIN store)

=============================================================================
