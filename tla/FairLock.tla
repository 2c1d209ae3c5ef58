------------------------------ MODULE FairLock ------------------------------
(* What a fair lock promises: callers hold it one at a time, in the order   *)
(* of their calls.  The head of the line is the holder.                     *)
EXTENDS Sequences

CONSTANT Callers

VARIABLE line

Init == line = <<>>

Request(p) == line' = Append(line, p)

Release(p) == line # <<>> /\ Head(line) = p /\ line' = Tail(line)

Next == \E p \in Callers : Request(p) \/ Release(p)

Spec == Init /\ [][Next]_line
=============================================================================
