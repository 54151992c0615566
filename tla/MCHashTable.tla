---------------------------- MODULE MCHashTable -----------------------------
(* Three keys that share chains at some sizes and not at others, and a     *)
(* list of primes short enough to be run out of: sizes 2, 3, then 10 per   *)
(* entry.                                                                  *)
EXTENDS HashTable

MCKey    == {"k1", "k2", "k3"}
MCValue  == {"v1", "v2"}
MCHash   == [k \in MCKey |-> CASE k = "k1" -> 1 [] k = "k2" -> 4 [] k = "k3" -> 13]
MCPrimes == <<2, 3>>

\* Bound: the table is enlarged at most three times.
Bounded == prime <= 3
=============================================================================
