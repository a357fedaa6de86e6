--------------------------- MODULE MCQMutexFutex ---------------------------
(* The futex mutex on a small set of threads.                              *)
EXTENDS QMutexFutex
=============================================================================
