-------------------------- MODULE MCQMutexGeneric --------------------------
(* The generic mutex on small sets; threads, mutexes and privates are      *)
(* interchangeable.                                                        *)
EXTENDS QMutexGeneric, TLC

Symmetry == Permutations(Threads) \cup Permutations(Privates) \cup Permutations(Mutexes)
=============================================================================
