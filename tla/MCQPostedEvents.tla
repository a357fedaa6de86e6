-------------------------- MODULE MCQPostedEvents --------------------------
\* Posted events on a small instance: one thread nests its calls, one does not.
EXTENDS QPostedEvents, TLC

CONSTANTS t1, t2

Sends == t1 :> 2 @@ t2 :> 1
Posts == <<3, 2>>
Loops == t1 :> 1 @@ t2 :> 1

Symmetry == Permutations(Objects)
=============================================================================
