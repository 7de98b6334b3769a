--------------------------- MODULE MCVaultShares ---------------------------
EXTENDS VaultShares, TLC

CONSTANTS o1, o2

Symmetric == Permutations(Owners)
=============================================================================
