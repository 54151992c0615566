------------------------------ MODULE MCQueue -------------------------------
(* Two data and three nodes: enough for an empty, a one-node and a longer  *)
(* list, for a freed address to come back, and for a repeated datum.       *)
EXTENDS Queue

MCData == {"a", "b"}
MCAddr == {1, 2, 3}
=============================================================================
