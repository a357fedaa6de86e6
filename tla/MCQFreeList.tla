---------------------------- MODULE MCQFreeList -----------------------------
\* The free list with three ids in two blocks.
EXTENDS QFreeList, TLC

Blocks == 0 :> "first" @@ 1 :> "second" @@ 2 :> "second"

Symmetry == Permutations(Threads)
=============================================================================
