---------------------------- MODULE MCVaultChain ----------------------------
(* Instances of VaultChain: the creator c, two more principals u and r, each *)
(* process with a keystore of its own.                                      *)
EXTENDS VaultChain, TLC

CONSTANTS c, u, r, p1, p2, p3

OwnStores == [p \in Procs |-> CASE p = p1 -> c [] p = p2 -> u [] p = p3 -> r]

Two(n1, n2, k1, k2) ==
  [keys |-> {c, u}, page |-> 1, budget |-> 3, retries |-> 1,
   kinds |-> (p1 :> k1 @@ p2 :> k2 @@ p3 :> {}), ops |-> (p1 :> n1 @@ p2 :> n2 @@ p3 :> 0),
   pinned |-> {u}, stale |-> {}, pending |-> {}, leavers |-> {c, u},
   crashes |-> 0, lost |-> 0, removals |-> 1, rollbacks |-> 0]

\* The creator admits the other, or the other admits itself, over rotations.
Stores ==
  {Two(2, 1, {"push", "add"}, {"rotate", "activate"}), Two(1, 2, {"rotate"}, {"push", "activate"})}

Faulty ==
  [Two(2, 1, {"push", "rotate"}, {"push"})
     EXCEPT !.crashes = 1, !.lost = 1, !.rollbacks = 1]

\* u admits itself and rotates, the creator removes u; r only verifies.
Retiring ==
  [keys |-> {c, u, r}, page |-> 2, budget |-> 9, retries |-> 0,
   kinds |-> (p1 :> {"rotate"} @@ p2 :> {"activate", "rotate"} @@ p3 :> {"verify"}),
   ops |-> (p1 :> 1 @@ p2 :> 2 @@ p3 :> 1),
   pinned |-> {r}, stale |-> {}, pending |-> {}, leavers |-> {u},
   crashes |-> 0, lost |-> 0, removals |-> 1, rollbacks |-> 0]

ReadAndPush ==
  LET kinds == {"sync", "verify", "push", "rotate"} IN
  [Two(2, 2, kinds, kinds) EXCEPT !.removals = 0]

\* u admits itself and pushes; the creator reads it and dies at any step.
Dying ==
  [Two(2, 2, {"sync"}, {"activate", "push"})
     EXCEPT !.budget = 9, !.retries = 0, !.crashes = 1, !.removals = 0]

\* The creator rotates and dies at any step; u admits itself over that.
Orphaning ==
  [Two(2, 1, {"rotate", "sync"}, {"activate"}) EXCEPT !.budget = 9, !.crashes = 1, !.removals = 0]

\* The creator admits somebody and the gateway loses a head.
Losing == [Two(3, 0, {"add", "sync"}, {}) EXCEPT !.rollbacks = 1, !.removals = 0]

\* u starts unconfirmed, or pinned under a key it has replaced: the creator rotates
\* and publishes its pin, alone or in a rotation, and u reads; or both publish pins
\* at once, one of them in a rotation.
Pinning(n1, n2, k1, k2) ==
  [Two(n1, n2, k1, k2) EXCEPT !.page = 2, !.budget = 9, !.pinned = {}, !.pending = {u}, !.removals = 0]

Confirming ==
  {Pinning(3, 1, {"confirm", "rotate"}, {"sync"}), Pinning(2, 1, {"confirm", "rekey"}, {"sync"}),
   [Pinning(2, 1, {"confirm", "rotate"}, {"sync"}) EXCEPT !.stale = {u}],
   [Pinning(1, 2, {"confirm"}, {"activate", "rotate"}) EXCEPT !.pending = {c, u}]}

AllPlans == Stores \cup Confirming \cup {Faulty, Retiring, Dying, Orphaning, Losing}
OnePlan == {ReadAndPush}
=============================================================================
