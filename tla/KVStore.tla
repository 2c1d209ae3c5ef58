------------------------------ MODULE KVStore ------------------------------
(***************************************************************************)
(* single-threaded/single-threaded-store.ts, and single-threaded/octopus.ts *)
(* which adds an event per operation: one map of strings and one of        *)
(* expiration times.  An expired key is collected only when checkExpiration *)
(* meets it, so keys that have expired may still be in the maps.           *)
(*                                                                         *)
(* Time is kept as what is left: ttlStore[k] is expireAt - Date.now() in   *)
(* ticks of half a second, and -1 once it is negative.                     *)
(***************************************************************************)
EXTENDS Integers, Collections

CONSTANTS
    Keys,
    MaxNumber,   \* bound on the absolute value of the integers counted
    Seconds,     \* arguments of expire
    Text,        \* a string that is not a number: `abc'
    EmptyString, \* the string that is falsy
    Blank,       \* ` ': Number() says 0, parseInt() says NaN
    Exponent,    \* `1e1': Number() says 10, parseInt() says 1
    NaN,         \* the string `NaN'
    Null         \* null

ASSUME KVStoreAssumption ==
    /\ MaxNumber \in Nat
    /\ Seconds \subseteq Nat

VARIABLES store, ttlStore, reply

vars == <<store, ttlStore, reply>>

Integer == -MaxNumber..MaxNumber

(* Strings; those that spell an integer are that integer.                  *)
Strings == Integer \cup {Text, EmptyString, Blank, Exponent, NaN}

isNaN(s) == s \in {Text, NaN}

(* (parseInt(s) + by).toString()                                           *)
PlusString(s, by) ==
    CASE s \in Integer -> s + by
      [] s = Exponent -> 1 + by
      [] s = Blank -> NaN

TicksPerSecond == 2

-----------------------------------------------------------------------------
Expired(k) == k \in DOMAIN ttlStore /\ ttlStore[k] < 0

(* The maps after checkExpiration.                                         *)
CheckedStore(k) == IF Expired(k) THEN Without(store, k) ELSE store
CheckedTtl(k) == IF Expired(k) THEN Without(ttlStore, k) ELSE ttlStore

(* Mutant: every key that has a time to live is taken for expired.         *)
CheckExpirationAnyTtl(k) ==
    IF k \in DOMAIN ttlStore
    THEN store' = Without(store, k) /\ ttlStore' = Without(ttlStore, k)
    ELSE UNCHANGED <<store, ttlStore>>

CheckExpiration(k) == store' = CheckedStore(k) /\ ttlStore' = CheckedTtl(k)

Answers(op, k, result) == reply' = [op |-> op, key |-> k, result |-> result]

OrNull(s) == IF s = EmptyString THEN Null ELSE s

(* Mutant: the `|| null' of get is in set.                                 *)
SetOrNull(k, value) ==
    /\ store' = Put(store, k, OrNull(value))
    /\ UNCHANGED ttlStore
    /\ Answers("set", k, Null)

Set(k, value) ==
    /\ store' = Put(store, k, value)
    /\ UNCHANGED ttlStore
    /\ Answers("set", k, Null)

(* Mutant: get without checkExpiration.                                    *)
GetUnchecked(k) ==
    /\ Answers("get", k, IF k \in DOMAIN store THEN OrNull(store[k]) ELSE Null)
    /\ UNCHANGED <<store, ttlStore>>

Get(k) ==
    /\ CheckExpiration(k)
    /\ Answers("get", k, IF k \in DOMAIN store' THEN OrNull(store'[k]) ELSE Null)

(* Mutant: del forgets the expiration time.                                *)
DelKeepsTtl(k) ==
    /\ Answers("del", k, IF k \in DOMAIN store THEN 1 ELSE 0)
    /\ store' = Without(store, k)
    /\ UNCHANGED ttlStore

Del(k) ==
    /\ Answers("del", k, IF k \in DOMAIN store THEN 1 ELSE 0)
    /\ store' = Without(store, k)
    /\ ttlStore' = Without(ttlStore, k)

Exists(k) ==
    /\ CheckExpiration(k)
    /\ Answers("exists", k, IF k \in DOMAIN store' THEN 1 ELSE 0)

(* incr (by = 1) and decr (by = -1); `Key does not hold an integer' is     *)
(* thrown after the key has been collected.                                *)
Countable(k) ==
    /\ k \in DOMAIN CheckedStore(k)
    /\ store[k] # EmptyString
    /\ ~isNaN(store[k])

Count(k, by) ==
    \/ /\ Countable(k)
       /\ LET sum == PlusString(store[k], by)
          IN  /\ sum \in Strings
              /\ store' = Put(CheckedStore(k), k, sum)
              /\ Answers("count", k, sum)
       /\ ttlStore' = CheckedTtl(k)
    \/ ~Countable(k) /\ CheckExpiration(k) /\ Answers("throw", k, Null)

(* expire does not call checkExpiration.                                   *)
Expire(k, seconds) ==
    \/ /\ k \in DOMAIN store
       /\ ttlStore' = Put(ttlStore, k, seconds * TicksPerSecond)
       /\ Answers("expire", k, 1)
       /\ UNCHANGED store
    \/ k \notin DOMAIN store /\ Answers("expire", k, 0) /\ UNCHANGED <<store, ttlStore>>

Ttl(k) ==
    /\ CheckExpiration(k)
    /\ Answers("ttl", k, IF k \in DOMAIN ttlStore' THEN ttlStore'[k] \div TicksPerSecond ELSE -1)

TimePasses ==
    /\ \E k \in DOMAIN ttlStore : ~Expired(k)
    /\ ttlStore' = [k \in DOMAIN ttlStore |-> IF Expired(k) THEN -1 ELSE ttlStore[k] - 1]
    /\ UNCHANGED <<store, reply>>

Init ==
    /\ store = [k \in {} |-> Text]
    /\ ttlStore = [k \in {} |-> 0]
    /\ reply = [op |-> "none", key |-> Null, result |-> Null]

Next ==
    \/ \E k \in Keys :
          \/ \E value \in Strings : Set(k, value)
          \/ Get(k) \/ Del(k) \/ Exists(k)
          \/ Count(k, 1) \/ Count(k, -1)
          \/ \E seconds \in Seconds : Expire(k, seconds)
          \/ Ttl(k)
    \/ TimePasses

Spec == Init /\ [][Next]_vars

-----------------------------------------------------------------------------
(* Properties                                                              *)

(* What a client can find.                                                 *)
Visible(k) == k \in DOMAIN store /\ ~Expired(k)

(* Every variable has its type.                                            *)
TypeOK ==
    /\ DOMAIN store \subseteq Keys
    /\ \A k \in DOMAIN store : store[k] \in Strings
    /\ \A k \in DOMAIN ttlStore : ttlStore[k] \in Int
    /\ reply.op \in {"none", "set", "get", "del", "exists", "count", "throw", "expire", "ttl"}

(* No expiration time outlives its key, so that a key that is deleted and  *)
(* set again never expires by an old one.                                  *)
TtlOnlyOfStoredKeys == DOMAIN ttlStore \subseteq DOMAIN store

(* However late it is collected, a key that has expired is never found:    *)
(* not by get, exists or ttl, and not by incr and decr.                    *)
ExpiredKeysAreNotFound ==
    [][\A k \in Keys :
          \/ Get(k) /\ reply'.result # Null
          \/ Exists(k) /\ reply'.result = 1
          \/ Ttl(k) /\ reply'.result # -1
          \/ \E by \in {1, -1} : Count(k, by) /\ reply'.op = "count"
          => Visible(k)]_vars

(* No operation collects or overwrites too much: a key that a client can   *)
(* find is lost to it by del and by time only.                             *)
OnlyDelAndTimeHide ==
    [][\A k \in Keys : Visible(k) /\ ~Visible(k)' => Del(k) \/ TimePasses]_vars

(* `Set a key-value pair': a key that was just set can be found.           *)
SetKeysAreFound ==
    [][\A k \in Keys, value \in Strings : Set(k, value) => Visible(k)']_vars

=============================================================================
