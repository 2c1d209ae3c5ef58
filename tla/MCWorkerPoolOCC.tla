-------------------------- MODULE MCWorkerPoolOCC --------------------------
(***************************************************************************)
(* WorkerPoolOCC with a client that makes up to five calls.  Two pairs of  *)
(* calls have equal payloads, of which the queue keeps one; on one of the  *)
(* pairs worker.js throws.  The cfg says which calls have a delay.         *)
(***************************************************************************)
EXTENDS WorkerPoolOCC

CONSTANTS c1, c2, c3, c4, c5, incr, push, get

MCDataOf == [c \in Calls |-> CASE c \in {c2, c5} -> push [] c = c4 -> get [] OTHER -> incr]
=============================================================================
