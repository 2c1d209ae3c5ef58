------------------------------- MODULE Octopus -------------------------------
(***************************************************************************)
(* octopus.ts: set, get and del of the facade, over the pool of            *)
(* WorkerPoolOCC, over the stores of the worker threads (worker.js).       *)
(* Every thread has a store of its own, empty when the thread starts, and  *)
(* executes a message when it replies.                                     *)
(***************************************************************************)
EXTENDS WorkerPoolOCC

CONSTANT Nothing   \* the answer null, and the answer that has not come

VARIABLES
    stores,   \* the store of each thread
    answers,  \* what the thread answered to each call
    before    \* the calls that had settled when each call was made

octopusVars == <<vars, stores, answers, before>>

EmptyStore == <<>>

Executed(store, task) ==
    CASE task.type = "set" -> Put(store, task.key, task.value)
      [] task.type = "del" -> Without(store, task.key)
      [] task.type = "get" -> store

Found(store, key) == IF key \in DOMAIN store THEN store[key] ELSE Nothing

-----------------------------------------------------------------------------
OctopusInit ==
    /\ Init
    /\ stores = [t \in 1..MaxWorkers |-> EmptyStore]
    /\ answers = [c \in Calls |-> Nothing]
    /\ before = [c \in Calls |-> {}]

Starts(t) == t \notin DOMAIN pool.threads

Replies(t) == Working(t) /\ pool'.threads[t].status = "replaced"

Serves(t, c) == pool.threads[t].call = c

(* A step of the pool, and what it makes the threads do.                   *)
OctopusNext ==
    /\ Next
    /\ stores' = [t \in DOMAIN pool'.threads |->
                     IF Starts(t) THEN EmptyStore
                     ELSE IF Replies(t) THEN Executed(stores[t], pool.threads[t].task)
                     ELSE stores[t]]
    /\ answers' = [c \in Calls |->
                     IF DataOf[c].type = "get" /\ \E t \in DOMAIN stores : Replies(t) /\ Serves(t, c)
                     THEN LET t == CHOOSE u \in DOMAIN stores : Replies(u) /\ Serves(u, c)
                          IN  Found(stores[t], DataOf[c].key)
                     ELSE answers[c]]
    /\ before' = [c \in Calls |->
                     IF promise[c] = "uncalled" /\ promise'[c] # "uncalled"
                     THEN {d \in Calls : promise[d] = "undefined"}
                     ELSE before[c]]

OctopusSpec == OctopusInit /\ [][OctopusNext]_octopusVars

-----------------------------------------------------------------------------
(* What the documentation says and the code does not do                    *)

(* `Retrieves the value associated with a key': a get that is called after *)
(* the promise of a set settled is answered with the value that was set,   *)
(* if no other call sets or deletes the key.                               *)
GetsFindWhatWasSet ==
    \A g, s \in Calls :
        (/\ DataOf[g].type = "get" /\ promise[g] = "undefined"
         /\ DataOf[s].type = "set" /\ s \in before[g]
         /\ \A c \in Calls \ {g, s} : DataOf[c].key # DataOf[g].key
         /\ DataOf[s].key = DataOf[g].key)
            => answers[g] = DataOf[s].value
=============================================================================
