-------------------------------- MODULE Dict --------------------------------
(***************************************************************************)
(* What src/src/hash-table.h promises src/src/alias.c: a finite map from   *)
(* keys to values that owns the values put into it.  A value leaves the    *)
(* map by being freed, when it is overwritten, removed or the map is       *)
(* destroyed; inserting may fail, and then changes nothing.                *)
(***************************************************************************)
CONSTANTS Key, Value, Null

VARIABLES
  exists,  (* the map was created and not destroyed                         *)
  dict,    (* the map                                                       *)
  result,  (* what the latest call returned                                 *)
  freed    (* the values the latest insert, remove or free disposed of      *)

dictVars == <<exists, dict, result, freed>>

NoEntries == [k \in {} |-> Null]

Init == exists = FALSE /\ dict = NoEntries /\ result = Null /\ freed = {}

New ==
  /\ ~exists
  /\ exists' = TRUE
  /\ dict' = NoEntries
  /\ UNCHANGED <<result, freed>>

Insert(k, v) ==
  /\ exists
  /\ dict' = [x \in DOMAIN dict \cup {k} |-> IF x = k THEN v ELSE dict[x]]
  /\ freed' = IF k \in DOMAIN dict THEN {dict[k]} ELSE {}
  /\ result' = "done"
  /\ UNCHANGED exists

InsertFails ==
  /\ exists
  /\ result' = "failed"
  /\ freed' = {}
  /\ UNCHANGED <<exists, dict>>

Lookup(k) ==
  /\ exists
  /\ result' = IF k \in DOMAIN dict THEN dict[k] ELSE Null
  /\ UNCHANGED <<exists, dict, freed>>

Remove(k) ==
  /\ exists
  /\ dict' = [x \in DOMAIN dict \ {k} |-> dict[x]]
  /\ freed' = IF k \in DOMAIN dict THEN {dict[k]} ELSE {}
  /\ result' = IF k \in DOMAIN dict THEN "done" ELSE "failed"
  /\ UNCHANGED exists

Free ==
  /\ exists
  /\ exists' = FALSE
  /\ freed' = {dict[k] : k \in DOMAIN dict}
  /\ dict' = NoEntries
  /\ UNCHANGED result

Next ==
  \/ New
  \/ \E k \in Key, v \in Value : Insert(k, v)
  \/ InsertFails
  \/ \E k \in Key : Lookup(k) \/ Remove(k)
  \/ Free

Spec == Init /\ [][Next]_dictVars
=============================================================================
