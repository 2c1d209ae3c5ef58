----------------------------- MODULE MCOctopus -----------------------------
(***************************************************************************)
(* Octopus with one worker and a client that sets a key and gets it, and   *)
(* deletes another.                                                        *)
(***************************************************************************)
EXTENDS Octopus

CONSTANTS set, get, del, key, other, value

SetTask == [type |-> "set", key |-> key, value |-> value]
GetTask == [type |-> "get", key |-> key]
DelTask == [type |-> "del", key |-> other]

MCTasks == {SetTask, GetTask, DelTask}

MCDataOf == [c \in Calls |-> CASE c = set -> SetTask [] c = get -> GetTask [] c = del -> DelTask]
=============================================================================
