---------------------------- MODULE AttemptLedger ----------------------------
(***************************************************************************)
(* What the payment-attempt journal promises whoever reconciles from it    *)
(* (sdk/src/node/payment-attempts.ts): an attempt id is reserved once, the *)
(* money of an attempt can move only while its entry admits that it may,   *)
(* an entry that says "unpaid" is true for ever, and a verdict is final.   *)
(***************************************************************************)
CONSTANT Attempts

VARIABLES
  stage,   \* what the journal says of each attempt
  moved    \* the attempts whose request moved funds

Stages == {"free", "reserved", "dispatched", "paid", "unpaid", "unknown"}

Init == stage = [i \in Attempts |-> "free"] /\ moved = {}

Advance(i, from, to) == stage[i] = from /\ stage' = [stage EXCEPT ![i] = to]

Reserve(i) == Advance(i, "free", "reserved") /\ UNCHANGED moved

Dispatch(i) == Advance(i, "reserved", "dispatched") /\ UNCHANGED moved

\* A reserved attempt that ended needed no payment or could not be sent.
Withdraw(i) == Advance(i, "reserved", "unpaid") /\ UNCHANGED moved

Verdict(i) ==
  /\ \/ Advance(i, "dispatched", "paid")
     \/ Advance(i, "dispatched", "unknown")
     \/ Advance(i, "dispatched", "unpaid") /\ i \notin moved
  /\ UNCHANGED moved

MoveFunds(i) ==
  /\ stage[i] \in {"dispatched", "unknown", "paid"}
  /\ moved' = moved \cup {i}
  /\ UNCHANGED stage

Next ==
  \E i \in Attempts : Reserve(i) \/ Dispatch(i) \/ Withdraw(i) \/ Verdict(i) \/ MoveFunds(i)

Spec == Init /\ [][Next]_<<stage, moved>>
=============================================================================
