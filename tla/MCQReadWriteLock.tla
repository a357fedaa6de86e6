-------------------------- MODULE MCQReadWriteLock --------------------------
(* The read-write lock with a few readers and writers.                     *)
EXTENDS QReadWriteLock
=============================================================================
