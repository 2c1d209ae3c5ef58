--------------------------- MODULE KVStoreProofs ---------------------------
(***************************************************************************)
(* Proofs about KVStore, for any keys, strings and times.                  *)
(***************************************************************************)
EXTENDS KVStore, TLAPS

Inv == TypeOK /\ TtlOnlyOfStoredKeys

(* What a method does to the maps is one of these: nothing, collecting an  *)
(* expired key, writing a value, deleting a key, setting its time.         *)
LEMMA CheckedMaps ==
    ASSUME Inv, NEW k \in Keys
    PROVE  /\ DOMAIN CheckedStore(k) = IF Expired(k) THEN DOMAIN store \ {k} ELSE DOMAIN store
           /\ DOMAIN CheckedTtl(k) = IF Expired(k) THEN DOMAIN ttlStore \ {k} ELSE DOMAIN ttlStore
           /\ \A l \in DOMAIN CheckedStore(k) : CheckedStore(k)[l] = store[l]
           /\ \A l \in DOMAIN CheckedTtl(k) : CheckedTtl(k)[l] = ttlStore[l]
BY DEF CheckedStore, CheckedTtl, Without

(* Collecting an expired key keeps the invariant of the maps.              *)
LEMMA CheckExpirationInv ==
    ASSUME Inv, NEW k \in Keys, CheckExpiration(k)
    PROVE  /\ DOMAIN store' \subseteq Keys
           /\ \A l \in DOMAIN store' : store'[l] \in Strings
           /\ \A l \in DOMAIN ttlStore' : ttlStore'[l] \in Int
           /\ TtlOnlyOfStoredKeys'
BY CheckedMaps DEF Inv, TypeOK, TtlOnlyOfStoredKeys, CheckExpiration

LEMMA InitInv == ASSUME Init PROVE Inv
BY DEF Init, Inv, TypeOK, TtlOnlyOfStoredKeys, Strings

LEMMA SetInv == ASSUME Inv, NEW k \in Keys, NEW value \in Strings, Set(k, value) PROVE Inv'
BY DEF Inv, TypeOK, TtlOnlyOfStoredKeys, Set, Put, Answers

LEMMA ReadsInv == ASSUME Inv, NEW k \in Keys, Get(k) \/ Exists(k) \/ Ttl(k) PROVE Inv'
<1>1. CheckExpiration(k) /\ reply'.op \in {"get", "exists", "ttl"}
  BY DEF Get, Exists, Ttl, Answers
<1> QED
  BY <1>1, CheckExpirationInv DEF Inv, TypeOK

LEMMA DelInv == ASSUME Inv, NEW k \in Keys, Del(k) PROVE Inv'
BY DEF Inv, TypeOK, TtlOnlyOfStoredKeys, Del, Without, Answers

LEMMA CountInv == ASSUME Inv, NEW k \in Keys, NEW by \in {1, -1}, Count(k, by) PROVE Inv'
<1>1. CASE ~Countable(k) /\ CheckExpiration(k) /\ Answers("throw", k, Null)
  BY <1>1, CheckExpirationInv DEF Inv, TypeOK, Answers
<1>2. CASE Countable(k) /\ ~(~Countable(k) /\ CheckExpiration(k) /\ Answers("throw", k, Null))
  <2>1. PICK sum \in Strings : /\ store' = Put(CheckedStore(k), k, sum)
                               /\ Answers("count", k, sum)
                               /\ ttlStore' = CheckedTtl(k)
    BY <1>2 DEF Count
  <2>2. k \in DOMAIN CheckedStore(k)
    BY <1>2 DEF Countable
  <2>3. DOMAIN store' = DOMAIN CheckedStore(k)
    BY <2>1, <2>2 DEF Put
  <2>4. \A l \in DOMAIN store' : store'[l] \in Strings
    BY <2>1, <2>3, CheckedMaps DEF Put, Inv, TypeOK
  <2>5. DOMAIN store' \subseteq Keys /\ TtlOnlyOfStoredKeys'
    BY <2>1, <2>3, CheckedMaps DEF Inv, TypeOK, TtlOnlyOfStoredKeys
  <2>6. \A l \in DOMAIN ttlStore' : ttlStore'[l] \in Int
    BY <2>1, CheckedMaps DEF Inv, TypeOK
  <2> QED
    BY <2>1, <2>4, <2>5, <2>6 DEF Inv, TypeOK, Answers
<1> QED
  BY <1>1, <1>2 DEF Count

LEMMA ExpireInv == ASSUME Inv, NEW k \in Keys, NEW seconds \in Seconds, Expire(k, seconds) PROVE Inv'
<1>1. seconds * TicksPerSecond \in Int
  BY KVStoreAssumption DEF TicksPerSecond
<1> QED
  BY <1>1 DEF Inv, TypeOK, TtlOnlyOfStoredKeys, Expire, Put, Answers

LEMMA TimePassesInv == ASSUME Inv, TimePasses PROVE Inv'
BY DEF Inv, TypeOK, TtlOnlyOfStoredKeys, TimePasses, Expired

LEMMA StepInv == ASSUME Inv, [Next]_vars PROVE Inv'
<1>1. CASE UNCHANGED vars
  BY <1>1 DEF vars, Inv, TypeOK, TtlOnlyOfStoredKeys
<1>2. CASE TimePasses
  BY <1>2, TimePassesInv
<1>3. ASSUME NEW k \in Keys,
             \/ \E value \in Strings : Set(k, value)
             \/ Get(k) \/ Del(k) \/ Exists(k)
             \/ Count(k, 1) \/ Count(k, -1)
             \/ \E seconds \in Seconds : Expire(k, seconds)
             \/ Ttl(k)
      PROVE  Inv'
  BY <1>3, SetInv, ReadsInv, DelInv, CountInv, ExpireInv
<1> QED
  BY <1>1, <1>2, <1>3 DEF Next

LEMMA InvHolds == Spec => []Inv
<1> QED
  BY InitInv, StepInv, PTL DEF Spec

-----------------------------------------------------------------------------
(* Every variable has its type.                                            *)
THEOREM Typing == Spec => []TypeOK
<1>1. Inv => TypeOK
  BY DEF Inv
<1> QED
  BY <1>1, InvHolds, PTL

(* No expiration time outlives its key.                                    *)
THEOREM NoStrayTtl == Spec => []TtlOnlyOfStoredKeys
<1>1. Inv => TtlOnlyOfStoredKeys
  BY DEF Inv
<1> QED
  BY <1>1, InvHolds, PTL

-----------------------------------------------------------------------------
(* After checkExpiration, a key that is stored has not expired, and other  *)
(* keys are as they were.                                                  *)
LEMMA CheckedIsVisible ==
    ASSUME Inv, NEW k \in Keys, k \in DOMAIN CheckedStore(k) \/ k \in DOMAIN CheckedTtl(k)
    PROVE  Visible(k)
BY CheckedMaps DEF Visible, Inv, TtlOnlyOfStoredKeys, Expired

(* A key that has expired is never found, however late it is collected.    *)
THEOREM ExpiredNeverFound == Spec => ExpiredKeysAreNotFound
<1>1. ASSUME Inv, NEW k \in Keys,
             \/ Get(k) /\ reply'.result # Null
             \/ Exists(k) /\ reply'.result = 1
             \/ Ttl(k) /\ reply'.result # -1
             \/ \E by \in {1, -1} : Count(k, by) /\ reply'.op = "count"
      PROVE  Visible(k)
  <2>1. k \in DOMAIN CheckedStore(k) \/ k \in DOMAIN CheckedTtl(k)
    <3>1. CASE Get(k) /\ reply'.result # Null
      BY <3>1 DEF Get, CheckExpiration, Answers
    <3>2. CASE Exists(k) /\ reply'.result = 1
      BY <3>2 DEF Exists, CheckExpiration, Answers
    <3>3. CASE Ttl(k) /\ reply'.result # -1
      BY <3>3 DEF Ttl, CheckExpiration, Answers
    <3>4. CASE \E by \in {1, -1} : Count(k, by) /\ reply'.op = "count"
      BY <3>4 DEF Count, Countable, Answers
    <3> QED
      BY <1>1, <3>1, <3>2, <3>3, <3>4
  <2> QED
    BY <1>1, <2>1, CheckedIsVisible
<1>2. Inv => [\A k \in Keys :
          \/ Get(k) /\ reply'.result # Null
          \/ Exists(k) /\ reply'.result = 1
          \/ Ttl(k) /\ reply'.result # -1
          \/ \E by \in {1, -1} : Count(k, by) /\ reply'.op = "count"
          => Visible(k)]_vars
  BY <1>1
<1> QED
  BY <1>2, InvHolds, PTL DEF ExpiredKeysAreNotFound

-----------------------------------------------------------------------------
(* Collecting one expired key does not hide another.                       *)
LEMMA CheckedStaysVisible ==
    ASSUME Inv, NEW k \in Keys, NEW l \in Keys, Visible(k)
    PROVE  /\ k \in DOMAIN CheckedStore(l)
           /\ k \in DOMAIN CheckedTtl(l) => ~(CheckedTtl(l)[k] < 0)
BY CheckedMaps DEF Visible, Expired

(* Of the methods, only del hides a key, and only its own.                 *)
LEMMA MethodsKeepVisible ==
    ASSUME Inv, NEW k \in Keys, NEW l \in Keys, Visible(k),
           \/ \E value \in Strings : Set(l, value)
           \/ Get(l) \/ Exists(l)
           \/ Count(l, 1) \/ Count(l, -1)
           \/ \E seconds \in Seconds : Expire(l, seconds)
           \/ Ttl(l)
           \/ Del(l) /\ l # k
    PROVE  Visible(k)'
<1>1. CASE \E value \in Strings : Set(l, value)
  BY <1>1 DEF Set, Put, Visible, Expired
<1>2. ASSUME CheckExpiration(l) PROVE Visible(k)'
  BY <1>2, CheckedStaysVisible DEF CheckExpiration, Visible, Expired
<1>3. CASE Get(l) \/ Exists(l) \/ Ttl(l)
  BY <1>2, <1>3 DEF Get, Exists, Ttl
<1>4. ASSUME NEW by \in {1, -1}, Count(l, by) PROVE Visible(k)'
  <2>1. CASE CheckExpiration(l)
    BY <1>2, <2>1
  <2>2. CASE ~CheckExpiration(l)
    <3>1. PICK sum \in Strings : store' = Put(CheckedStore(l), l, sum) /\ ttlStore' = CheckedTtl(l)
      BY <1>4, <2>2 DEF Count
    <3>2. k \in DOMAIN store'
      BY <3>1, CheckedStaysVisible DEF Put
    <3> QED
      BY <3>1, <3>2, CheckedStaysVisible DEF Visible, Expired
  <2> QED
    BY <2>1, <2>2
<1>5. CASE \E seconds \in Seconds : Expire(l, seconds)
  <2>1. PICK seconds \in Seconds : Expire(l, seconds)
    BY <1>5
  <2>2. seconds * TicksPerSecond \in Nat
    BY KVStoreAssumption DEF TicksPerSecond
  <2> QED
    BY <2>1, <2>2 DEF Expire, Put, Visible, Expired
<1>6. CASE Del(l) /\ l # k
  BY <1>6 DEF Del, Without, Visible, Expired
<1> QED
  BY <1>1, <1>3, <1>4, <1>5, <1>6

(* No operation collects or overwrites too much: a key that a client can   *)
(* find is lost to it by del and by time only.                             *)
THEOREM OnlyDelHides == Spec => OnlyDelAndTimeHide
<1>1. Inv /\ [Next]_vars => [\A k \in Keys : Visible(k) /\ ~Visible(k)' => Del(k) \/ TimePasses]_vars
  <2> SUFFICES ASSUME Inv, Next, NEW k \in Keys, Visible(k), ~Visible(k)', ~TimePasses
               PROVE  Del(k)
    BY DEF vars
  <2>1. PICK l \in Keys :
           \/ \E value \in Strings : Set(l, value)
           \/ Get(l) \/ Del(l) \/ Exists(l)
           \/ Count(l, 1) \/ Count(l, -1)
           \/ \E seconds \in Seconds : Expire(l, seconds)
           \/ Ttl(l)
    BY DEF Next
  <2> QED
    BY <2>1, MethodsKeepVisible
<1> QED
  BY <1>1, InvHolds, PTL DEF Spec, OnlyDelAndTimeHide
=============================================================================
