---------------------------- MODULE MCQEventLoop ----------------------------
\* The event loop of a thread on a small instance.
EXTENDS QEventLoop, TLC

CONSTANTS c1, c2

MCCalls == c1 :> {"start", "exit"} @@ c2 :> {"wait", "post"} @@ Loop :> {"post", "exit"}
=============================================================================
