----------------------------- MODULE MCX402Pay -----------------------------
(* Instances of X402Pay: calls on one SDK instance, or over two processes   *)
(* that were handed the same attempt id for a call each.                    *)
EXTENDS X402Pay

CONSTANTS c1, c2, c3, c4, n1, n2, id

OneInstance == [c \in Calls |-> n1]
\* Two processes, or one that repeats a call.
Shared == [calls |-> {c1, c2, c3}, faults |-> 1, crashes |-> 1]
Repeated == [calls |-> {c1, c3, c4}, faults |-> 0, crashes |-> 0]

Both == {Shared, Repeated}
NoFaults == {[calls |-> Calls, faults |-> 0, crashes |-> 0]}

TwoProcesses == [c \in Calls |-> IF c = c2 THEN n2 ELSE n1]

Generated == [c \in Calls |-> None]
SharedId == [c \in Calls |-> IF c \in {c2, c3} THEN id ELSE None]
=============================================================================
