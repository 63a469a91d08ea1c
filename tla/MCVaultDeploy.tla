--------------------------- MODULE MCVaultDeploy ---------------------------
(* Instances of VaultDeploy: deploys and drains of one keystore, of a tree   *)
(* with two contents.                                                        *)
EXTENDS VaultDeploy

CONSTANTS d1, d2, x1, x2, t1, t2

\* Two deploys race for the ref while a drain runs.
Racing == [head |-> t1, deploys |-> {d1, d2}, drains |-> {x1}, edits |-> 0, faults |-> 1, crashes |-> 0]

\* One deploy of a tree that changes.
Moving == [head |-> t1, deploys |-> {d1}, drains |-> {x1}, edits |-> 2, faults |-> 1, crashes |-> 1]

\* Two drains of what one deploy leaves.
Draining == [head |-> t1, deploys |-> {d1}, drains |-> {x1, x2}, edits |-> 0, faults |-> 2, crashes |-> 1]

AllLoads == {Racing, Moving, Draining}
=============================================================================
