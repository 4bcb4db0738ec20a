---------------------------- MODULE MCChunkCache ----------------------------
EXTENDS ChunkCache, TLC

Symmetric == Permutations(Threads) \union Permutations(Blocks)
=============================================================================
