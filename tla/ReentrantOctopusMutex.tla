----------------------- MODULE ReentrantOctopusMutex -----------------------
(***************************************************************************)
(* queue/ReentrantOctopusMutex.ts: its fields as a record and its methods  *)
(* as operators on it, for the classes that own such a lock.  lockCount    *)
(* has an entry for the owner only, so it is that entry's number; no       *)
(* entry is 0.  `call' stands for the resolve function that the waiting    *)
(* lock() of a call leaves in the queue.                                   *)
(***************************************************************************)
EXTENDS Naturals, Sequences

(* getCurrentThreadId(): no worker owns such a lock, and without the       *)
(* workerData of a worker it always answers the same.                      *)
ThreadId == "main"

Nobody == "null"

FreeMutex == [locked |-> FALSE, currentOwner |-> Nobody, lockCount |-> 0, queue |-> <<>>]

Owned(m) == m.currentOwner = ThreadId

-----------------------------------------------------------------------------
(* lock() is over at once for the owner and on a free lock                 *)

mustWait(m) == ~Owned(m) /\ m.locked

(* What lock() does when it need not wait, or when its wait is over.       *)
acquired(m) ==
    [m EXCEPT !.locked = TRUE, !.currentOwner = ThreadId, !.lockCount = @ + 1]

lock(m, call) ==
    CASE Owned(m)    -> [m EXCEPT !.lockCount = @ + 1]
      [] mustWait(m) -> [m EXCEPT !.queue = Append(@, call)]
      [] OTHER       -> acquired(m)

-----------------------------------------------------------------------------
(* unlock() throws unless the thread owns the lock, and changes nothing    *)

handsOver(m) == Owned(m) /\ m.lockCount <= 1 /\ m.queue # <<>>

(* The call that unlock() resumes, if any.                                 *)
resumed(m) == IF handsOver(m) THEN <<Head(m.queue)>> ELSE <<>>

(* Mutant: without the early return the lock is freed by the first body    *)
(* that ends, while others still hold it.                                  *)
unlockFreesAtOnce(m) ==
    CASE ~Owned(m)    -> m
      [] handsOver(m) -> acquired([m EXCEPT !.lockCount = 0, !.queue = Tail(@)])
      [] OTHER        -> FreeMutex

(* The waiter that is resumed takes the lock in a later microtask; the     *)
(* fields stay as they are until then, so that is part of the step.        *)
unlock(m) ==
    CASE ~Owned(m)                    -> m
      [] Owned(m) /\ m.lockCount > 1 -> [m EXCEPT !.lockCount = @ - 1]
      [] handsOver(m)                 -> acquired([m EXCEPT !.lockCount = 0, !.queue = Tail(@)])
      [] OTHER                        -> FreeMutex
=============================================================================
