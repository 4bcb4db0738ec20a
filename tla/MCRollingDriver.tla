--------------------------- MODULE MCRollingDriver --------------------------
EXTENDS RollingDriver, TLC

Symmetric == Permutations(Threads) \union Permutations(Blocks)
=============================================================================
