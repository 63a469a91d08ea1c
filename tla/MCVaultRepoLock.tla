-------------------------- MODULE MCVaultRepoLock --------------------------
(* TLC instances of VaultRepoLock. *)
EXTENDS VaultRepoLock, TLC

Symmetry == Permutations(Procs)
=============================================================================
