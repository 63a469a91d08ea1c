------------------------- MODULE MCVaultCreation -------------------------
EXTENDS VaultCreation, TLC

CONSTANTS p1, p2, s1, s2

SharedOrApart == {(p1 :> s1 @@ p2 :> s1), (p1 :> s1 @@ p2 :> s2)}
==========================================================================
