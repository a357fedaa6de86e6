----------------------------- MODULE IdPoolSpec -----------------------------
(***************************************************************************)
(* A pool of ids: an id is out to one thread at a time, and can be taken   *)
(* again when it has been given back.                                      *)
(***************************************************************************)
CONSTANTS Threads, Ids

VARIABLE out    \* the ids that are out to each thread

Init == out = [t \in Threads |-> {}]

Take(t, i) ==
  /\ \A u \in Threads : i \notin out[u]
  /\ out' = [out EXCEPT ![t] = @ \cup {i}]

Give(t, i) ==
  /\ i \in out[t]
  /\ out' = [out EXCEPT ![t] = @ \ {i}]

Next == \E t \in Threads, i \in Ids : Take(t, i) \/ Give(t, i)

Spec == Init /\ [][Next]_out
=============================================================================
