---------------------------- MODULE MCLocalStores ----------------------------
(* Instances of LocalStores: two wallets, one imported project.              *)
EXTENDS LocalStores

CONSTANTS p1, p2, x1, y1, k, m

Wallet == [p \in Procs |-> IF p = p1 THEN "w" ELSE "unknown"]

AllCalls ==
  [op : {"save", "remove", "use"}, arg : Projects]
    \cup [op : {"approve"}, arg : Approvals] \cup [op : {"load", "logout"}, arg : {None}]
==============================================================================
