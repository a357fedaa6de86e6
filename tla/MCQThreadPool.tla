--------------------------- MODULE MCQThreadPool ---------------------------
(* The thread pool with a few threads, tasks and clients.                  *)
EXTENDS QThreadPool
=============================================================================
