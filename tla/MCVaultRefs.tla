---------------------------- MODULE MCVaultRefs ----------------------------
(* Instances of VaultRefs: ab extends a, x has a history of its own.         *)
EXTENDS VaultRefs, TLC

CONSTANTS a, ab, x, main, tag

Histories == [h \in Commits |-> IF h = ab THEN {a, ab} ELSE {h}]

\* Everybody pushes, checkpoints and repairs two refs on one day.
Together ==
  [commits |-> {a, ab}, refs |-> {main, tag}, writers |-> Writers,
   kinds |-> {"push", "checkpoint", "repair"}, updates |-> 2, gens |-> 3, days |-> 0, repairs |-> 1]

\* One writer keeps a branch over several days.
Alone(w) ==
  [Together EXCEPT !.commits = {a, ab, x}, !.refs = {main}, !.writers = {w}, !.updates = 1,
                   !.gens = 5, !.days = 2]

\* Two writers push one branch and repair it, longer.
Repairing ==
  [Together EXCEPT !.refs = {main}, !.kinds = {"push", "repair"}, !.updates = 1, !.gens = 4]

AllPlans == {Together} \cup {Alone(w) : w \in Writers}
RepairPlan == {Repairing}

Symmetry == Permutations(Writers)
=============================================================================
