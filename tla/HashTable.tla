----------------------------- MODULE HashTable ------------------------------
(***************************************************************************)
(* src/src/hash-table.c as src/src/alias.c uses it: separate chaining, a   *)
(* table that grows along a list of primes, and iterators.                 *)
(*                                                                         *)
(* A chain is the sequence of its entries, the one the table points to     *)
(* first.  hash_table_insert() takes several steps: the check that may     *)
(* enlarge the table, one per entry moved to the new table, and the        *)
(* insertion proper.  alias.c never changes the table while it iterates.   *)
(***************************************************************************)
EXTENDS Integers, Sequences, FiniteSets

CONSTANTS
  Key,     (* the keys, up to the equality of equal_func                    *)
  Value,   (* the pointers stored                                           *)
  Null,    (* HASH_TABLE_NULL                                               *)
  Hash,    (* hash_func: key -> number                                      *)
  Primes,  (* hash_table_primes[]                                           *)
  Faults   (* the allocations that may fail                                 *)

ASSUME HashTableAssumption ==
  /\ Hash \in [Key -> Nat]
  /\ Primes \in Seq(Nat \ {0}) /\ Primes # <<>>
  /\ Faults \subseteq {"table", "entry"}

VARIABLES
  phase,    (* "none", "idle", "rehash" and "add" inside an insert, "iter"  *)
  size,     (* table_size                                                   *)
  table,    (* chain number -> chain                                        *)
  old,      (* the chains hash_table_enlarge() has still to move            *)
  entries,  (* the field entries                                            *)
  prime,    (* prime_index                                                  *)
  arg,      (* the entry an insert in progress is about                     *)
  result,   (* what the latest call returned                                *)
  freed,    (* the values the latest insert, remove or free disposed of     *)
  it,       (* the iterator: chain and place of the next entry, or None     *)
  seen      (* the keys the iterator has returned                           *)

tableVars == <<size, table, old, entries, prime>>
iterVars  == <<it, seen>>
vars      == <<phase, tableVars, arg, result, freed, iterVars>>

Entry == [key : Key, value : Value]
None  == <<>>

Empty(s)  == [c \in 0..(s - 1) |-> <<>>]
Index(k)  == Hash[k] % size
NewSize(p) == IF p < Len(Primes) THEN Primes[p + 1] ELSE entries * 10

NonEmpty(t) == {c \in DOMAIN t : t[c] # <<>>}
Least(S)    == CHOOSE c \in S : \A d \in S : c <= d

\* Where k is in its chain.
At(k) == {j \in 1..Len(table[Index(k)]) : table[Index(k)][j].key = k}

Init ==
  /\ phase = "none"
  /\ size = 0 /\ table = Empty(0) /\ old = Empty(0)
  /\ entries = 0 /\ prime = 0
  /\ arg = None /\ result = Null /\ freed = {}
  /\ it = None /\ seen = <<>>

hash_table_new ==
  /\ phase = "none"
  /\ phase' = "idle"
  /\ entries' = 0
  /\ prime' = 0
  /\ size' = Primes[1]
  /\ table' = Empty(size')
  /\ UNCHANGED <<old, arg, result, freed, iterVars>>

\* hash_table_free() frees every entry of every chain.
hash_table_free ==
  /\ phase = "idle"
  /\ phase' = "none"
  /\ freed' = UNION {{table[c][j].value : j \in 1..Len(table[c])} :
                       c \in DOMAIN table}
  /\ table' = Empty(0)
  /\ size' = 0
  /\ UNCHANGED <<old, entries, prime, arg, result, iterVars>>

-----------------------------------------------------------------------------
(* hash_table_insert().                                                    *)

TooFull == (entries * 3) \div size > 0

InsertBegin(k, v) ==
  /\ phase = "idle"
  /\ ~TooFull
  /\ phase' = "add"
  /\ arg' = [key |-> k, value |-> v]
  /\ UNCHANGED <<tableVars, result, freed, iterVars>>

Enlarge(k, v) ==
  /\ phase = "idle"
  /\ TooFull
  /\ phase' = "rehash"
  /\ arg' = [key |-> k, value |-> v]
  /\ prime' = prime + 1
  /\ size' = NewSize(prime + 1)
  /\ table' = Empty(size')
  /\ old' = table
  /\ UNCHANGED <<entries, result, freed, iterVars>>

EnlargeFails ==
  /\ phase = "idle"
  /\ TooFull
  /\ "table" \in Faults
  /\ result' = "failed"
  /\ freed' = {}
  /\ UNCHANGED <<phase, tableVars, arg, iterVars>>

RelinkInPlace ==
  /\ phase = "rehash"
  /\ NonEmpty(old) # {}
  /\ LET c == Least(NonEmpty(old))
         d == c % size
     IN  /\ old' = [old EXCEPT ![c] = Tail(@)]
         /\ table' = [table EXCEPT ![d] = <<Head(old[c])>> \o @]
  /\ UNCHANGED <<phase, size, entries, prime, arg, result, freed, iterVars>>

\* One round of the inner loop: an entry moves to the front of its chain.
Relink ==
  /\ phase = "rehash"
  /\ NonEmpty(old) # {}
  /\ LET c == Least(NonEmpty(old))
         d == Index(Head(old[c]).key)
     IN  /\ old' = [old EXCEPT ![c] = Tail(@)]
         /\ table' = [table EXCEPT ![d] = <<Head(old[c])>> \o @]
  /\ UNCHANGED <<phase, size, entries, prime, arg, result, freed, iterVars>>

Relinked ==
  /\ phase = "rehash"
  /\ NonEmpty(old) = {}
  /\ phase' = "add"
  /\ old' = Empty(0)
  /\ UNCHANGED <<size, table, entries, prime, arg, result, freed, iterVars>>

OverwriteKeepsOld ==
  /\ phase = "add"
  /\ At(arg.key) # {}
  /\ LET c == Index(arg.key)
         j == Least(At(arg.key))
     IN  /\ table' = [table EXCEPT ![c][j] = arg]
         /\ freed' = {}
  /\ phase' = "idle"
  /\ result' = "done"
  /\ arg' = None
  /\ UNCHANGED <<size, old, entries, prime, iterVars>>

Overwrite ==
  /\ phase = "add"
  /\ At(arg.key) # {}
  /\ LET c == Index(arg.key)
         j == Least(At(arg.key))
     IN  /\ table' = [table EXCEPT ![c][j] = arg]
         /\ freed' = {table[c][j].value}
  /\ phase' = "idle"
  /\ result' = "done"
  /\ arg' = None
  /\ UNCHANGED <<size, old, entries, prime, iterVars>>

AddEntry ==
  /\ phase = "add"
  /\ At(arg.key) = {}
  /\ table' = [table EXCEPT ![Index(arg.key)] = <<arg>> \o @]
  /\ entries' = entries + 1
  /\ phase' = "idle"
  /\ result' = "done"
  /\ freed' = {}
  /\ arg' = None
  /\ UNCHANGED <<size, old, prime, iterVars>>

AddFails ==
  /\ phase = "add"
  /\ At(arg.key) = {}
  /\ "entry" \in Faults
  /\ phase' = "idle"
  /\ result' = "failed"
  /\ freed' = {}
  /\ arg' = None
  /\ UNCHANGED <<tableVars, iterVars>>

-----------------------------------------------------------------------------
hash_table_lookup(k) ==
  /\ phase = "idle"
  /\ result' = IF At(k) = {} THEN Null ELSE table[Index(k)][Least(At(k))].value
  /\ UNCHANGED <<phase, tableVars, arg, freed, iterVars>>

\* s without its j-th element: unlinking an entry.
Without(s, j) == SubSeq(s, 1, j - 1) \o SubSeq(s, j + 1, Len(s))

RemoveFound(k) ==
  /\ phase = "idle"
  /\ At(k) # {}
  /\ LET c == Index(k)
         j == Least(At(k))
     IN  /\ table' = [table EXCEPT ![c] = Without(@, j)]
         /\ freed' = {table[c][j].value}
  /\ entries' = entries - 1
  /\ result' = "done"
  /\ UNCHANGED <<phase, size, old, prime, arg, iterVars>>

RemoveMissing(k) ==
  /\ phase = "idle"
  /\ At(k) = {}
  /\ result' = "failed"
  /\ freed' = {}
  /\ UNCHANGED <<phase, tableVars, arg, iterVars>>

-----------------------------------------------------------------------------
(* Iterators, in the loops of releaseAliases() and printAliases().         *)

\* The first entry of the chains from number c on.
FirstFrom(c) ==
  LET S == {d \in NonEmpty(table) : d >= c}
  IN  IF S = {} THEN None ELSE <<Least(S), 1>>

hash_table_iterate ==
  /\ phase = "idle"
  /\ phase' = "iter"
  /\ it' = FirstFrom(0)
  /\ seen' = <<>>
  /\ UNCHANGED <<tableVars, arg, result, freed>>

NextChainOnly ==
  /\ phase = "iter"
  /\ it # None
  /\ seen' = Append(seen, table[it[1]][it[2]].key)
  /\ it' = FirstFrom(it[1] + 1)
  /\ UNCHANGED <<phase, tableVars, arg, result, freed>>

\* hash_table_iter_next() and hash_table_iter_next_entry().
hash_table_iter_next ==
  /\ phase = "iter"
  /\ it # None
  /\ seen' = Append(seen, table[it[1]][it[2]].key)
  /\ it' = IF it[2] < Len(table[it[1]]) THEN <<it[1], it[2] + 1>>
                                        ELSE FirstFrom(it[1] + 1)
  /\ UNCHANGED <<phase, tableVars, arg, result, freed>>

\* hash_table_iter_has_more() is false: the loop ends.
IterEnds ==
  /\ phase = "iter"
  /\ it = None
  /\ phase' = "idle"
  /\ seen' = <<>>
  /\ UNCHANGED <<tableVars, arg, result, freed, it>>

-----------------------------------------------------------------------------
Next ==
  \/ hash_table_new
  \/ hash_table_free
  \/ \E k \in Key, v \in Value : InsertBegin(k, v) \/ Enlarge(k, v)
  \/ EnlargeFails
  \/ Relink
  \/ Relinked
  \/ Overwrite
  \/ AddEntry
  \/ AddFails
  \/ \E k \in Key : hash_table_lookup(k) \/ RemoveFound(k) \/ RemoveMissing(k)
  \/ hash_table_iterate
  \/ hash_table_iter_next
  \/ IterEnds

Spec == Init /\ [][Next]_vars

-----------------------------------------------------------------------------
Chains == {table[c] : c \in DOMAIN table} \cup {old[c] : c \in DOMAIN old}

TypeOK ==
  /\ phase \in {"none", "idle", "rehash", "add", "iter"}
  /\ size \in Nat /\ entries \in Nat /\ prime \in Nat
  /\ table \in [0..(size - 1) -> Seq(Entry)]
  /\ \E s \in Nat : old \in [0..(s - 1) -> Seq(Entry)]
  /\ arg \in Entry \cup {None}
  /\ result \in Value \cup {Null, "done", "failed"}
  /\ freed \in SUBSET Value
  /\ it \in (Nat \X Nat) \cup {None}
  /\ seen \in Seq(Key)

\* The places of the entries with key k in a table.
Places(t, k) ==
  UNION {{<<c, j>> : j \in {m \in 1..Len(t[c]) : t[c][m].key = k}} : c \in DOMAIN t}

(* A key is in the table at most once, during a rehash in either the old   *)
(* or the new one, where its hash says; entries counts the keys, and the   *)
(* table never has size 0 when a hash is taken modulo it (lines 214-228,   *)
(* 248 and 262-296).                                                       *)
Hashed ==
  phase # "none" =>
    /\ size > 0
    /\ \A k \in Key : /\ Cardinality(Places(table, k) \cup Places(old, k)) <= 1
                      /\ \A pl \in Places(table, k) : pl[1] = Index(k)
    /\ entries = Cardinality({k \in Key : Places(table, k) \cup Places(old, k) # {}})

(* An iteration returns every key of the table exactly once (lines 409-492:*)
(* releaseAliases() leaves no alias marked as in use).                     *)
IterationComplete ==
  phase = "iter" /\ it = None =>
    /\ \A k \in Key : At(k) # {} <=> \E j \in 1..Len(seen) : seen[j] = k
    /\ Len(seen) = entries

-----------------------------------------------------------------------------
(* The table implements Dict.                                              *)

Contents == UNION {{s[j] : j \in 1..Len(s)} : s \in Chains}

Map == [k \in {e.key : e \in Contents} |-> (CHOOSE e \in Contents : e.key = k).value]

D == INSTANCE Dict WITH exists <- phase # "none", dict <- Map

(* The table behaves as a map: a lookup finds the value inserted last, an  *)
(* insert that fails or enlarges changes nothing, and every value is freed *)
(* exactly when it leaves the map (lines 238-402).                         *)
IsDict == D!Spec
=============================================================================
