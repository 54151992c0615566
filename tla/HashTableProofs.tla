-------------------------- MODULE HashTableProofs --------------------------
(***************************************************************************)
(* HashTable implements Dict, keeps its entries where the hash says and    *)
(* iterates over all of them, for any keys, hash function, list of sizes   *)
(* and failing allocations.                                                *)
(*                                                                         *)
(* The proof looks at chains through the set of their entries (Elems): an  *)
(* entry put in front of a chain joins the set, one that is unlinked or    *)
(* overwritten leaves it.  What is then needed is that no key occurs at    *)
(* two places (Distinct), in either table during a rehash (Apart).         *)
(***************************************************************************)
EXTENDS HashTable, FiniteSetTheorems, SequenceTheorems, TLAPS

-----------------------------------------------------------------------------
(* Chains.                                                                 *)

\* Functions from chain numbers to chains.
Tables == UNION {[C -> Seq(Entry)] : C \in SUBSET Nat}

Elems(t) == UNION {{t[c][j] : j \in 1..Len(t[c])} : c \in DOMAIN t}

Distinct(t) ==
  \A c, d \in DOMAIN t : \A j \in 1..Len(t[c]), m \in 1..Len(t[d]) :
    t[c][j].key = t[d][m].key => c = d /\ j = m

\* Every entry is in the chain its hash says, in a table of size s.
Homed(t, s) == \A c \in DOMAIN t : \A j \in 1..Len(t[c]) : Hash[t[c][j].key] % s = c

LEMMA InElems ==
  ASSUME NEW t \in Tables, NEW e
  PROVE  e \in Elems(t) <=> \E c \in DOMAIN t : \E j \in 1..Len(t[c]) : e = t[c][j]
BY DEF Elems

LEMMA ElemsTyped ==
  ASSUME NEW t \in Tables
  PROVE  /\ DOMAIN t \subseteq Nat
         /\ \A c \in DOMAIN t : t[c] \in Seq(Entry) /\ Len(t[c]) \in Nat
         /\ Elems(t) \subseteq Entry
<1>1. DOMAIN t \subseteq Nat /\ \A c \in DOMAIN t : t[c] \in Seq(Entry) /\ Len(t[c]) \in Nat
  <2>1. PICK C \in SUBSET Nat : t \in [C -> Seq(Entry)]
    BY DEF Tables
  <2> QED
    BY <2>1
<1>2. \A c \in DOMAIN t : \A j \in 1..Len(t[c]) : t[c][j] \in Entry
  BY <1>1
<1>3. \A e \in Elems(t) : e \in Entry
  BY <1>2, InElems
<1> QED
  BY <1>1, <1>3

\* A key determines the cell.
LEMMA SameCell ==
  ASSUME NEW t, Distinct(t), NEW c \in DOMAIN t, NEW d \in DOMAIN t,
         NEW j \in 1..Len(t[c]), NEW m \in 1..Len(t[d]),
         t[c][j].key = t[d][m].key
  PROVE  c = d /\ j = m
BY DEF Distinct

\* and the entry.
LEMMA Determined ==
  ASSUME NEW t \in Tables, Distinct(t),
         NEW e \in Elems(t), NEW f \in Elems(t), e.key = f.key
  PROVE  e = f
BY InElems DEF Distinct

\* An entry is put in front of chain d.
LEMMA Fronted ==
  ASSUME NEW t \in Tables, NEW d \in DOMAIN t, NEW e \in Entry
  PROVE  LET u == [t EXCEPT ![d] = <<e>> \o @]
         IN  /\ u \in Tables /\ DOMAIN u = DOMAIN t
             /\ Elems(u) = Elems(t) \cup {e}
             /\ Distinct(t) /\ (\A x \in Elems(t) : x.key # e.key) => Distinct(u)
             /\ \A s : Homed(t, s) /\ Hash[e.key] % s = d => Homed(u, s)
<1> DEFINE u == [t EXCEPT ![d] = <<e>> \o @]
<1>1. t[d] \in Seq(Entry) /\ Len(t[d]) \in Nat
  BY ElemsTyped
<1>2. /\ u[d] \in Seq(Entry) /\ Len(u[d]) = Len(t[d]) + 1 /\ u[d][1] = e
      /\ \A j \in 1..Len(t[d]) : u[d][j + 1] = t[d][j]
      /\ \A c \in DOMAIN t \ {d} : u[c] = t[c]
  BY <1>1 DEF Tables
<1>3. u \in Tables /\ DOMAIN u = DOMAIN t
  BY <1>2 DEF Tables
<1> HIDE DEF u
<1>4. \A j \in 1..Len(u[d]) : j = 1 \/ (j - 1 \in 1..Len(t[d]) /\ u[d][j] = t[d][j - 1])
  BY <1>1, <1>2
<1>5. Elems(u) = Elems(t) \cup {e}
  <2>1. Elems(u) \subseteq Elems(t) \cup {e}
    BY <1>2, <1>3, <1>4, InElems
  <2>2. e \in Elems(u)
    BY <1>1, <1>2, <1>3, InElems
  <2>3. ASSUME NEW x \in Elems(t) PROVE x \in Elems(u)
    <3>1. PICK c \in DOMAIN t : \E j \in 1..Len(t[c]) : x = t[c][j]
      BY InElems
    <3>2. PICK j \in 1..Len(t[c]) : x = t[c][j]
      BY <3>1
    <3>3. CASE c = d
      <4>1. j + 1 \in 1..Len(u[d]) /\ u[d][j + 1] = x
        BY <1>1, <1>2, <3>2, <3>3
      <4> QED
        BY <1>3, <4>1, InElems
    <3>4. CASE c # d
      BY <1>2, <1>3, <3>2, <3>4, InElems
    <3> QED
      BY <3>3, <3>4
  <2> QED
    BY <2>1, <2>2, <2>3
<1>6. ASSUME Distinct(t), \A x \in Elems(t) : x.key # e.key
      PROVE  Distinct(u)
  <2> SUFFICES ASSUME NEW c \in DOMAIN u, NEW b \in DOMAIN u,
                      NEW j \in 1..Len(u[c]), NEW m \in 1..Len(u[b]),
                      u[c][j].key = u[b][m].key
               PROVE  c = b /\ j = m
    BY DEF Distinct
  <2>1. c # d => u[c][j] \in Elems(t)
    BY <1>2, <1>3, InElems
  <2>2. b # d => u[b][m] \in Elems(t)
    BY <1>2, <1>3, InElems
  <2>3. c = d => j = 1 \/ u[c][j] \in Elems(t)
    BY <1>2, <1>3, <1>4, InElems
  <2>4. b = d => m = 1 \/ u[b][m] \in Elems(t)
    BY <1>2, <1>3, <1>4, InElems
  <2>5. (c = d /\ j = 1) <=> (b = d /\ m = 1)
    BY <1>2, <1>6, <2>1, <2>2, <2>3, <2>4
  <2>6. CASE c = d /\ j = 1
    BY <2>5, <2>6
  <2>7. CASE ~(c = d /\ j = 1)
    <3> DEFINE p == IF c = d THEN j - 1 ELSE j
               q == IF b = d THEN m - 1 ELSE m
    <3>1. p \in 1..Len(t[c]) /\ u[c][j] = t[c][p]
      BY <1>2, <1>3, <1>4, <2>7
    <3>2. q \in 1..Len(t[b]) /\ u[b][m] = t[b][q]
      BY <1>2, <1>3, <1>4, <2>5, <2>7
    <3> HIDE DEF p, q
    <3>3. c \in DOMAIN t /\ b \in DOMAIN t /\ t[c][p].key = t[b][q].key
      BY <1>3, <3>1, <3>2
    <3>4. c = b /\ p = q
      BY <1>6, <3>1, <3>2, <3>3, SameCell
    <3> USE DEF p, q
    <3> QED
      BY <3>4
  <2> QED
    BY <2>6, <2>7
<1>7. ASSUME NEW s, Homed(t, s), Hash[e.key] % s = d
      PROVE  Homed(u, s)
  <2>1. ASSUME NEW j \in 1..Len(u[d]) PROVE Hash[u[d][j].key] % s = d
    <3>1. CASE j = 1
      BY <1>2, <1>7, <3>1
    <3>2. CASE j # 1
      BY <1>4, <1>7, <3>2 DEF Homed
    <3> QED
      BY <3>1, <3>2
  <2>2. \A c \in DOMAIN t \ {d} : \A j \in 1..Len(u[c]) : Hash[u[c][j].key] % s = c
    BY <1>2, <1>7 DEF Homed
  <2> QED
    BY <1>3, <2>1, <2>2 DEF Homed
<1> QED
  BY <1>3, <1>5, <1>6, <1>7 DEF u

\* The chain w is s without its j-th entry.
Cuts(s, j, w) ==
  /\ w \in Seq(Entry) /\ Len(w) = Len(s) - 1
  /\ \A m \in 1..Len(w) : w[m] = IF m < j THEN s[m] ELSE s[m + 1]

\* The table u is t without the entry at place j of chain c.
WithoutEntry(t, c, j, u) ==
  /\ u \in Tables /\ DOMAIN u = DOMAIN t
  /\ Elems(u) = Elems(t) \ {t[c][j]}
  /\ Distinct(u)
  /\ \A s : Homed(t, s) => Homed(u, s)

\* The entry at place j of chain c is unlinked.
LEMMA Unlinked ==
  ASSUME NEW t \in Tables, NEW c \in DOMAIN t, NEW j \in 1..Len(t[c]),
         NEW w, Cuts(t[c], j, w), Distinct(t)
  PROVE  WithoutEntry(t, c, j, [t EXCEPT ![c] = w])
<1> DEFINE u == [t EXCEPT ![c] = w]
           Old(m) == IF m < j THEN m ELSE m + 1
<1>0. /\ w \in Seq(Entry) /\ Len(w) = Len(t[c]) - 1
      /\ \A m \in 1..Len(w) : w[m] = IF m < j THEN t[c][m] ELSE t[c][m + 1]
  BY DEF Cuts
<1>1. t[c] \in Seq(Entry) /\ Len(t[c]) \in Nat /\ j \in Nat
  BY ElemsTyped
<1>2. u[c] = w /\ \A b \in DOMAIN t \ {c} : u[b] = t[b]
  BY DEF Tables
<1>3. u \in Tables /\ DOMAIN u = DOMAIN t
  BY <1>0 DEF Tables
<1> HIDE DEF u
<1>4. \A m \in 1..Len(w) : Old(m) \in 1..Len(t[c]) /\ Old(m) # j /\ w[m] = t[c][Old(m)]
  BY <1>0, <1>1
<1>5. \A m \in 1..Len(t[c]) : m # j => \E l \in 1..Len(w) : w[l] = t[c][m]
  <2> SUFFICES ASSUME NEW m \in 1..Len(t[c]), m # j
               PROVE  \E l \in 1..Len(w) : w[l] = t[c][m]
    OBVIOUS
  <2>1. CASE m < j
    BY <1>0, <1>1, <2>1
  <2>2. CASE m > j
    <3>1. m - 1 \in 1..Len(w) /\ ~(m - 1 < j) /\ (m - 1) + 1 = m
      BY <1>0, <1>1, <2>2
    <3> QED
      BY <1>0, <3>1
  <2> QED
    BY <1>1, <2>1, <2>2
<1> HIDE DEF Old
<1>6. ASSUME NEW x \in Elems(u) PROVE x \in Elems(t) /\ x # t[c][j]
  <2>0. PICK b \in DOMAIN u : \E m \in 1..Len(u[b]) : x = u[b][m]
    BY <1>3, InElems
  <2>1. PICK m \in 1..Len(u[b]) : x = u[b][m]
    BY <2>0
  <2>2. CASE b = c
    BY <1>2, <1>4, <2>1, <2>2, InElems DEF Distinct
  <2>3. CASE b # c
    BY <1>2, <1>3, <2>1, <2>3, InElems DEF Distinct
  <2> QED
    BY <2>2, <2>3
<1>7. ASSUME NEW x \in Elems(t), x # t[c][j] PROVE x \in Elems(u)
  <2>0. PICK b \in DOMAIN t : \E m \in 1..Len(t[b]) : x = t[b][m]
    BY InElems
  <2>1. PICK m \in 1..Len(t[b]) : x = t[b][m]
    BY <2>0
  <2>2. CASE b = c
    <3>1. PICK l \in 1..Len(w) : w[l] = t[c][m]
      BY <1>5, <1>7, <2>1, <2>2
    <3> QED
      BY <1>2, <1>3, <2>1, <2>2, <3>1, InElems
  <2>3. CASE b # c
    BY <1>2, <1>3, <2>1, <2>3, InElems
  <2> QED
    BY <2>2, <2>3
<1>8. Distinct(u)
  <2> SUFFICES ASSUME NEW a \in DOMAIN u, NEW b \in DOMAIN u,
                      NEW l \in 1..Len(u[a]), NEW m \in 1..Len(u[b]),
                      u[a][l].key = u[b][m].key
               PROVE  a = b /\ l = m
    BY DEF Distinct
  <2> DEFINE p == IF a = c THEN Old(l) ELSE l
             q == IF b = c THEN Old(m) ELSE m
  <2>1. p \in 1..Len(t[a]) /\ u[a][l] = t[a][p]
    BY <1>2, <1>3, <1>4
  <2>2. q \in 1..Len(t[b]) /\ u[b][m] = t[b][q]
    BY <1>2, <1>3, <1>4
  <2>3. a = b /\ p = q
    BY <1>3, <2>1, <2>2 DEF Distinct
  <2>4. Old(l) = Old(m) /\ l \in Nat /\ m \in Nat => l = m
    BY <1>1 DEF Old
  <2>5. l \in Nat /\ m \in Nat
    BY <1>0, <1>3, ElemsTyped
  <2> QED
    BY <2>3, <2>4, <2>5
<1>9. ASSUME NEW s, Homed(t, s) PROVE Homed(u, s)
  BY <1>2, <1>3, <1>4, <1>9 DEF Homed
<1> QED
  BY <1>3, <1>6, <1>7, <1>8, <1>9 DEF u, WithoutEntry

\* The entry at place j of chain c gives way to one with the same key.
LEMMA Replaced ==
  ASSUME NEW t \in Tables, NEW c \in DOMAIN t, NEW j \in 1..Len(t[c]),
         NEW e \in Entry, e.key = t[c][j].key, Distinct(t)
  PROVE  LET u == [t EXCEPT ![c][j] = e]
         IN  /\ u \in Tables /\ DOMAIN u = DOMAIN t
             /\ Elems(u) = (Elems(t) \ {t[c][j]}) \cup {e}
             /\ Distinct(u)
             /\ \A s : Homed(t, s) => Homed(u, s)
<1> DEFINE u == [t EXCEPT ![c][j] = e]
<1>1. t[c] \in Seq(Entry) /\ Len(t[c]) \in Nat
  BY ElemsTyped
<1>2. /\ DOMAIN u = DOMAIN t
      /\ u[c] = [t[c] EXCEPT ![j] = e]
      /\ \A b \in DOMAIN t \ {c} : u[b] = t[b]
  BY DEF Tables
<1>3. u \in Tables
  BY <1>1, <1>2 DEF Tables
<1> HIDE DEF u
<1>4. /\ Len(u[c]) = Len(t[c])
      /\ \A m \in 1..Len(t[c]) : u[c][m] = IF m = j THEN e ELSE t[c][m]
  BY <1>1, <1>2
<1>5. /\ \A b \in DOMAIN t : Len(u[b]) = Len(t[b])
      /\ \A b \in DOMAIN t : \A m \in 1..Len(t[b]) :
           u[b][m] = IF b = c /\ m = j THEN e ELSE t[b][m]
  BY <1>2, <1>4
<1>6. Distinct(u)
  BY <1>2, <1>5 DEF Distinct
<1>7. ASSUME NEW x \in Elems(u) PROVE x = e \/ (x \in Elems(t) /\ x # t[c][j])
  <2>0. PICK b \in DOMAIN t : \E m \in 1..Len(t[b]) : x = u[b][m]
    BY <1>2, <1>3, <1>5, InElems
  <2>1. PICK m \in 1..Len(t[b]) : x = u[b][m]
    BY <2>0
  <2> QED
    BY <1>5, <2>1, InElems DEF Distinct
<1>8. ASSUME NEW x \in Elems(t), x # t[c][j] PROVE x \in Elems(u)
  <2>0. PICK b \in DOMAIN t : \E m \in 1..Len(t[b]) : x = t[b][m]
    BY InElems
  <2>1. PICK m \in 1..Len(t[b]) : x = t[b][m]
    BY <2>0
  <2> QED
    BY <1>2, <1>3, <1>5, <1>8, <2>1, InElems
<1>9. e \in Elems(u)
  BY <1>2, <1>3, <1>5, InElems
<1>10. ASSUME NEW s, Homed(t, s) PROVE Homed(u, s)
  BY <1>2, <1>5, <1>10 DEF Homed
<1> QED
  BY <1>2, <1>3, <1>6, <1>7, <1>8, <1>9, <1>10 DEF u

LEMMA EmptyTable ==
  ASSUME NEW s \in Nat
  PROVE  /\ Empty(s) \in Tables /\ DOMAIN Empty(s) = 0..(s - 1)
         /\ Elems(Empty(s)) = {}
         /\ Distinct(Empty(s))
         /\ \A z : Homed(Empty(s), z)
<1>1. /\ DOMAIN Empty(s) = 0..(s - 1)
      /\ \A c \in DOMAIN Empty(s) : Empty(s)[c] = <<>> /\ Len(Empty(s)[c]) = 0
  BY DEF Empty
<1>2. Empty(s) \in Tables
  <2>1. Empty(s) \in [0..(s - 1) -> Seq(Entry)] /\ 0..(s - 1) \in SUBSET Nat
    BY DEF Empty
  <2> QED
    BY <2>1 DEF Tables
<1> QED
  BY <1>1, <1>2, InElems DEF Distinct, Homed

-----------------------------------------------------------------------------
(* The invariant.                                                          *)

All == Elems(table) \cup Elems(old)

KeysOf(C) == {e.key : e \in C}

Shaped ==
  /\ phase \in {"none", "idle", "rehash", "add", "iter"}
  /\ size \in Nat /\ prime \in Nat
  /\ table \in Tables /\ DOMAIN table = 0..(size - 1)
  /\ old \in Tables
  /\ phase = "none" => Elems(table) = {}
  /\ phase # "none" => size > 0
  /\ phase # "rehash" => Elems(old) = {}
  /\ phase \in {"rehash", "add"} => arg \in Entry

Unique ==
  /\ Distinct(table) /\ Homed(table, size)
  /\ Distinct(old)
  /\ \A e \in Elems(table), f \in Elems(old) : e.key # f.key

Counted ==
  phase # "none" => IsFiniteSet(KeysOf(All)) /\ entries = Cardinality(KeysOf(All))

HInv == Shaped /\ Unique /\ Counted

LEMMA InitHInv == Init => HInv
<1> SUFFICES ASSUME Init PROVE HInv
  OBVIOUS
<1> QED
  BY EmptyTable DEF Init, HInv, Shaped, Unique, Counted

\* The chain of a key, and the key's place in it.
LEMMA Found ==
  ASSUME HInv, phase \in {"idle", "add", "iter"}, NEW k \in Key
  PROVE  /\ Index(k) \in DOMAIN table
         /\ At(k) = {} <=> k \notin KeysOf(All)
         /\ At(k) # {} =>
              /\ Least(At(k)) \in 1..Len(table[Index(k)])
              /\ table[Index(k)][Least(At(k))].key = k
<1>1. size \in Nat /\ size > 0 /\ table \in Tables /\ DOMAIN table = 0..(size - 1)
      /\ Elems(old) = {} /\ Distinct(table) /\ Homed(table, size)
  BY DEF HInv, Shaped, Unique
<1>2. Hash[k] \in Nat
  BY HashTableAssumption
<1>3. Index(k) \in DOMAIN table
  BY <1>1, <1>2 DEF Index
<1>4. At(k) = {} => k \notin KeysOf(All)
  <2> SUFFICES ASSUME NEW e \in Elems(table), e.key = k PROVE At(k) # {}
    BY <1>1 DEF KeysOf, All
  <2>1. PICK c \in DOMAIN table : \E j \in 1..Len(table[c]) : e = table[c][j]
    BY <1>1, InElems
  <2> QED
    BY <1>1, <2>1 DEF At, Index, Homed
<1>5. ASSUME NEW j \in At(k) PROVE k \in KeysOf(All)
  <2>1. table[Index(k)][j] \in Elems(table)
    BY <1>1, <1>3, InElems DEF At
  <2> QED
    BY <2>1 DEF At, KeysOf, All
<1>6. ASSUME At(k) # {} PROVE Least(At(k)) \in At(k)
  <2>1. \A x, y \in At(k) : x = y
    BY <1>1, <1>3 DEF At, Distinct
  <2>2. At(k) \subseteq Nat
    BY <1>1, <1>3, ElemsTyped DEF At
  <2>3. \E c \in At(k) : \A d \in At(k) : c <= d
    BY <1>6, <2>1, <2>2
  <2> QED
    BY <2>3 DEF Least
<1> QED
  BY <1>3, <1>4, <1>5, <1>6 DEF At

-----------------------------------------------------------------------------
(* Every step keeps the invariant, and says what it does to the entries.   *)

\* Steps that leave the tables alone.
Aside ==
  \/ \E k \in Key, v \in Value : InsertBegin(k, v)
  \/ EnlargeFails
  \/ AddFails
  \/ \E k \in Key : hash_table_lookup(k) \/ RemoveMissing(k)
  \/ hash_table_iterate
  \/ hash_table_iter_next
  \/ IterEnds

LEMMA AsideHInv == HInv /\ (Aside \/ UNCHANGED vars) => HInv' /\ All' = All
<1> SUFFICES ASSUME HInv, Aside \/ UNCHANGED vars PROVE HInv' /\ All' = All
  OBVIOUS
<1>1. UNCHANGED tableVars
  BY DEF Aside, InsertBegin, EnlargeFails, AddFails, hash_table_lookup, RemoveMissing,
         hash_table_iterate, hash_table_iter_next, IterEnds, vars
<1>2. All' = All
  BY <1>1 DEF All, tableVars
<1>3. Unique' /\ (phase # "none" \/ phase' = "none" => Counted')
  BY <1>1, <1>2 DEF HInv, Unique, Counted, tableVars
<1>4. Shaped' /\ (phase # "none" \/ phase' = "none")
  <2>1. CASE UNCHANGED vars
    BY <2>1 DEF HInv, Shaped, vars, tableVars
  <2>2. CASE Aside
    <3>1. /\ phase \in {"idle", "add", "iter"} /\ phase' \in {"idle", "add", "iter"}
          /\ phase' = "add" => arg' \in Entry
      BY <2>2
      DEF Aside, InsertBegin, EnlargeFails, AddFails, hash_table_lookup, RemoveMissing,
          hash_table_iterate, hash_table_iter_next, IterEnds, Entry
    <3> QED
      BY <1>1, <3>1 DEF HInv, Shaped, tableVars
  <2> QED
    BY <2>1, <2>2
<1> QED
  BY <1>2, <1>3, <1>4 DEF HInv

LEMMA NewHInv == HInv /\ hash_table_new => HInv' /\ All = {} /\ All' = {}
<1> SUFFICES ASSUME HInv, hash_table_new PROVE HInv' /\ All = {} /\ All' = {}
  OBVIOUS
<1>1. Primes[1] \in Nat \ {0}
  BY HashTableAssumption
<1>2. size' = Primes[1] /\ table' = Empty(Primes[1]) /\ old' = old
  BY DEF hash_table_new
<1>3. All = {} /\ All' = {}
  BY <1>1, <1>2, EmptyTable DEF HInv, Shaped, All, hash_table_new
<1>4. Shaped' /\ Unique'
  BY <1>1, <1>2, EmptyTable DEF HInv, Shaped, Unique, hash_table_new
<1>5. Counted'
  <2>1. KeysOf(All') = {}
    BY <1>3 DEF KeysOf
  <2>2. KeysOf(All)' = KeysOf(All')
    BY DEF KeysOf
  <2> QED
    BY <2>1, <2>2, FS_EmptySet DEF Counted, hash_table_new
<1> QED
  BY <1>3, <1>4, <1>5 DEF HInv

LEMMA FreeHInv == HInv /\ hash_table_free => HInv' /\ All' = {}
<1> SUFFICES ASSUME HInv, hash_table_free PROVE HInv' /\ All' = {}
  OBVIOUS
<1>1. size' = 0 /\ table' = Empty(0) /\ old' = old
  BY DEF hash_table_free
<1>2. All' = {}
  BY <1>1, EmptyTable DEF HInv, Shaped, All, hash_table_free
<1>3. Shaped' /\ Unique' /\ Counted'
  BY <1>1, EmptyTable DEF HInv, Shaped, Unique, Counted, hash_table_free
<1> QED
  BY <1>2, <1>3 DEF HInv

\* The new table is empty, and never of size 0.
LEMMA EnlargeHInv ==
  ASSUME HInv, NEW k \in Key, NEW v \in Value, Enlarge(k, v)
  PROVE  HInv' /\ All' = All
<1>1. /\ phase = "idle" /\ phase' = "rehash" /\ arg' \in Entry
      /\ prime' = prime + 1 /\ size' = NewSize(prime + 1)
      /\ table' = Empty(size') /\ old' = table /\ entries' = entries
  BY DEF Enlarge, Entry
<1>2. entries \in Nat
  BY <1>1, FS_CardinalityType DEF HInv, Counted
<1>3. entries > 0
  <2>1. (0 * 3) \div size = 0
    BY DEF HInv, Shaped, Enlarge
  <2> QED
    BY <1>2, <2>1 DEF Enlarge, TooFull
<1>4. size' \in Nat \ {0}
  BY <1>1, <1>2, <1>3, HashTableAssumption DEF NewSize, HInv, Shaped
<1>5. All' = All
  BY <1>1, <1>4, EmptyTable DEF All, HInv, Shaped
<1>6. Shaped' /\ Unique'
  BY <1>1, <1>4, EmptyTable DEF HInv, Shaped, Unique
<1>7. Counted'
  BY <1>1, <1>5 DEF HInv, Counted
<1> QED
  BY <1>5, <1>6, <1>7 DEF HInv

LEMMA LeastExists ==
  ASSUME NEW S \in SUBSET Nat, S # {}
  PROVE  Least(S) \in S /\ \A d \in S : Least(S) <= d
<1> DEFINE T == {0..m : m \in S}
<1>1. T \subseteq FiniteSubsetsOf(Nat) /\ T # {}
  <2>1. \A m \in S : 0..m \in SUBSET Nat /\ IsFiniteSet(0..m)
    BY FS_Interval
  <2> QED
    BY <2>1 DEF FiniteSubsetsOf
<1>2. IsWellFoundedOn(StrictSubsetOrdering(Nat), FiniteSubsetsOf(Nat))
  BY FS_StrictSubsetOrderingWellFounded
<1> HIDE DEF T
<1>3. \E X \in T : \A Y \in T : <<Y, X>> \notin StrictSubsetOrdering(Nat)
  BY <1>1, <1>2, WFMin
<1>4. PICK c \in S : \A d \in S : <<0..d, 0..c>> \notin StrictSubsetOrdering(Nat)
  BY <1>3 DEF T
<1>5. ASSUME NEW d \in S, d < c PROVE FALSE
  <2>1. 0..d \subseteq 0..c /\ c \in 0..c /\ c \notin 0..d
    BY <1>5
  <2>2. <<0..d, 0..c>> \in StrictSubsetOrdering(Nat)
    BY <2>1 DEF StrictSubsetOrdering
  <2> QED
    BY <1>4, <2>2
<1>6. \E x \in S : \A d \in S : x <= d
  BY <1>5
<1> QED
  BY <1>6 DEF Least

\* An entry moves to the chain that its hash says in the new table.
LEMMA RelinkHInv == HInv /\ Relink => HInv' /\ All' = All
<1> SUFFICES ASSUME HInv, Relink PROVE HInv' /\ All' = All
  OBVIOUS
<1> DEFINE c == Least(NonEmpty(old))
           e == Head(old[c])
           d == Index(e.key)
<1>1. /\ size \in Nat /\ size > 0 /\ table \in Tables /\ old \in Tables
      /\ DOMAIN table = 0..(size - 1)
      /\ Distinct(table) /\ Distinct(old) /\ Homed(table, size)
      /\ \A x \in Elems(table), y \in Elems(old) : x.key # y.key
      /\ phase = "rehash"
  BY DEF HInv, Shaped, Unique, Relink
<1>2. c \in DOMAIN old /\ old[c] # <<>>
  <2>1. NonEmpty(old) \in SUBSET Nat /\ NonEmpty(old) # {}
    BY <1>1, ElemsTyped DEF NonEmpty, Relink
  <2> QED
    BY <2>1, LeastExists DEF NonEmpty
<1>3. old' = [old EXCEPT ![c] = Tail(@)] /\ table' = [table EXCEPT ![d] = <<e>> \o @]
  BY DEF Relink
<1>4. UNCHANGED <<phase, size, entries, prime, arg>>
  BY DEF Relink
<1> HIDE DEF c
<1>5. old[c] \in Seq(Entry)
  BY <1>1, <1>2, ElemsTyped
<1>6. /\ 1 \in 1..Len(old[c]) /\ e = old[c][1] /\ e \in Entry
      /\ Tail(old[c]) \in Seq(Entry) /\ Len(Tail(old[c])) = Len(old[c]) - 1
      /\ \A m \in 1..Len(Tail(old[c])) : Tail(old[c])[m] = old[c][m + 1]
  BY <1>2, <1>5
<1>7. e \in Elems(old)
  BY <1>1, <1>2, <1>6, InElems
<1>8. d \in DOMAIN table /\ Hash[e.key] % size = d
  <2>1. Hash[e.key] \in Nat
    BY <1>6, HashTableAssumption DEF Entry
  <2> QED
    BY <1>1, <2>1 DEF Index
<1> HIDE DEF e, d
<1>9. /\ table' \in Tables /\ DOMAIN table' = DOMAIN table
      /\ Elems(table') = Elems(table) \cup {e}
      /\ Distinct(table') /\ Homed(table', size)
  <2>1. \A x \in Elems(table) : x.key # e.key
    BY <1>1, <1>7
  <2> DEFINE u == [table EXCEPT ![d] = <<e>> \o @]
  <2>2. /\ u \in Tables /\ DOMAIN u = DOMAIN table
        /\ Elems(u) = Elems(table) \cup {e}
        /\ Distinct(table) /\ (\A x \in Elems(table) : x.key # e.key) => Distinct(u)
        /\ \A s : Homed(table, s) /\ Hash[e.key] % s = d => Homed(u, s)
    BY <1>1, <1>6, <1>8, Fronted
  <2>3. table' = u
    BY <1>3
  <2> HIDE DEF u
  <2> QED
    BY <1>1, <1>8, <2>1, <2>2, <2>3
<1>10. /\ old' \in Tables /\ Elems(old') = Elems(old) \ {e} /\ Distinct(old')
  <2>1. Cuts(old[c], 1, Tail(old[c]))
    BY <1>6 DEF Cuts
  <2>2. old \in Tables /\ c \in DOMAIN old /\ 1 \in 1..Len(old[c]) /\ Distinct(old)
    BY <1>1, <1>2, <1>6
  <2>3. WithoutEntry(old, c, 1, [old EXCEPT ![c] = Tail(old[c])])
    BY <2>1, <2>2, Unlinked
  <2>4. old' = [old EXCEPT ![c] = Tail(old[c])]
    BY <1>3
  <2> QED
    BY <1>6, <2>3, <2>4 DEF WithoutEntry
<1>11. \A x \in Elems(table'), y \in Elems(old') : x.key # y.key
  BY <1>1, <1>7, <1>9, <1>10, Determined
<1>12. All' = All
  <2>1. All' = Elems(table') \cup Elems(old')
    BY DEF All, Elems
  <2> QED
    BY <1>7, <1>9, <1>10, <2>1 DEF All
<1>13. Shaped' /\ Unique'
  BY <1>1, <1>4, <1>9, <1>10, <1>11 DEF HInv, Shaped, Unique, Elems, Distinct, Homed
<1>14. Counted'
  BY <1>1, <1>4, <1>12 DEF HInv, Counted
<1> QED
  BY <1>12, <1>13, <1>14 DEF HInv

LEMMA RelinkedHInv == HInv /\ Relinked => HInv' /\ All' = All
<1> SUFFICES ASSUME HInv, Relinked PROVE HInv' /\ All' = All
  OBVIOUS
<1>1. old \in Tables /\ \A c \in DOMAIN old : old[c] = <<>>
  BY DEF HInv, Shaped, Relinked, NonEmpty
<1>2. Elems(old) = {}
  <2>1. \A c \in DOMAIN old : Len(old[c]) = 0
    BY <1>1
  <2> QED
    BY <1>1, <2>1, InElems
<1>3. /\ old' = Empty(0) /\ UNCHANGED <<size, table, entries, prime, arg>>
      /\ phase = "rehash" /\ phase' = "add"
  BY DEF Relinked
<1>4. All' = All
  BY <1>2, <1>3, EmptyTable DEF All
<1>5. Shaped' /\ Unique'
  BY <1>3, EmptyTable DEF HInv, Shaped, Unique
<1>6. Counted'
  BY <1>3, <1>4 DEF HInv, Counted
<1> QED
  BY <1>4, <1>5, <1>6 DEF HInv

\* What an insert and a removal make of a set of entries.
Put(C, e) == {x \in C : x.key # e.key} \cup {e}
Cut(C, k) == {x \in C : x.key # k}

LEMMA OverwriteHInv == HInv /\ Overwrite => HInv' /\ All' = Put(All, arg)
<1> SUFFICES ASSUME HInv, Overwrite PROVE HInv' /\ All' = Put(All, arg)
  OBVIOUS
<1> DEFINE c == Index(arg.key)
           j == Least(At(arg.key))
           u == [table EXCEPT ![c][j] = arg]
<1>1. /\ table \in Tables /\ DOMAIN table = 0..(size - 1) /\ Elems(old) = {}
      /\ Distinct(table) /\ Homed(table, size) /\ arg \in Entry /\ phase = "add"
  BY DEF HInv, Shaped, Unique, Overwrite
<1>2. arg.key \in Key
  BY <1>1 DEF Entry
<1>3. At(arg.key) # {}
  BY DEF Overwrite
<1>4. c \in DOMAIN table /\ j \in 1..Len(table[c]) /\ table[c][j].key = arg.key
  BY <1>1, <1>2, <1>3, Found
<1>5. /\ table' = u /\ phase' = "idle"
      /\ UNCHANGED <<size, old, entries, prime>>
  BY DEF Overwrite
<1> HIDE DEF c, j
<1>6. /\ u \in Tables /\ DOMAIN u = DOMAIN table
      /\ Elems(u) = (Elems(table) \ {table[c][j]}) \cup {arg}
      /\ Distinct(u)
      /\ \A s : Homed(table, s) => Homed(u, s)
  BY <1>1, <1>4, Replaced
<1>7. table[c][j] \in Elems(table)
  BY <1>1, <1>4, InElems
<1>8. \A x \in Elems(table) : x.key = arg.key <=> x = table[c][j]
  BY <1>1, <1>4, <1>7, Determined
<1> HIDE DEF u
<1>9. Elems(table') = Put(All, arg)
  BY <1>1, <1>5, <1>6, <1>8 DEF Put, All
<1>10. All' = Put(All, arg)
  BY <1>1, <1>5, <1>9 DEF All
<1>11. Shaped' /\ Unique'
  BY <1>1, <1>5, <1>6 DEF HInv, Shaped, Unique
<1>12. Counted'
  <2>1. KeysOf(Put(All, arg)) = KeysOf(All)
    BY <1>4, <1>7 DEF KeysOf, Put, All
  <2> QED
    BY <1>1, <1>5, <1>10, <2>1 DEF HInv, Counted, KeysOf
<1> QED
  BY <1>10, <1>11, <1>12 DEF HInv

LEMMA AddEntryHInv == HInv /\ AddEntry => HInv' /\ All' = Put(All, arg)
<1> SUFFICES ASSUME HInv, AddEntry PROVE HInv' /\ All' = Put(All, arg)
  OBVIOUS
<1> DEFINE c == Index(arg.key)
           u == [table EXCEPT ![c] = <<arg>> \o @]
<1>1. /\ table \in Tables /\ DOMAIN table = 0..(size - 1) /\ Elems(old) = {}
      /\ Distinct(table) /\ Homed(table, size) /\ arg \in Entry /\ phase = "add"
  BY DEF HInv, Shaped, Unique, AddEntry
<1>2. arg.key \in Key
  BY <1>1 DEF Entry
<1>3. c \in DOMAIN table /\ arg.key \notin KeysOf(All) /\ Hash[arg.key] % size = c
  BY <1>1, <1>2, Found DEF AddEntry, Index
<1>4. \A x \in All : x.key # arg.key
  BY <1>3 DEF KeysOf
<1>5. /\ table' = u /\ phase' = "idle" /\ entries' = entries + 1
      /\ UNCHANGED <<size, old, prime>>
  BY DEF AddEntry
<1> HIDE DEF c
<1>6. /\ u \in Tables /\ DOMAIN u = DOMAIN table
      /\ Elems(u) = Elems(table) \cup {arg}
      /\ Distinct(u) /\ Homed(u, size)
  <2>1. \A x \in Elems(table) : x.key # arg.key
    BY <1>4 DEF All
  <2> QED
    BY <1>1, <1>3, <2>1, Fronted
<1> HIDE DEF u
<1>7. All' = Put(All, arg)
  BY <1>1, <1>4, <1>5, <1>6 DEF All, Put
<1>8. Shaped' /\ Unique'
  BY <1>1, <1>5, <1>6 DEF HInv, Shaped, Unique
<1>9. Counted'
  <2>1. KeysOf(Put(All, arg)) = KeysOf(All) \cup {arg.key}
    BY <1>4 DEF KeysOf, Put
  <2>2. IsFiniteSet(KeysOf(All)) /\ entries = Cardinality(KeysOf(All))
    BY <1>1 DEF HInv, Counted
  <2>3. KeysOf(All)' = KeysOf(All) \cup {arg.key}
    BY <1>7, <2>1 DEF KeysOf
  <2> QED
    BY <1>3, <1>5, <2>2, <2>3, FS_AddElement DEF Counted
<1> QED
  BY <1>7, <1>8, <1>9 DEF HInv

LEMMA WithoutCuts ==
  ASSUME NEW s \in Seq(Entry), NEW j \in 1..Len(s)
  PROVE  Cuts(s, j, Without(s, j))
<1> DEFINE a == SubSeq(s, 1, j - 1)
           b == SubSeq(s, j + 1, Len(s))
<1>1. /\ Len(s) \in Nat /\ j \in Nat /\ 1 <= j /\ j <= Len(s)
      /\ \A m \in 1..Len(s) : s[m] \in Entry
  OBVIOUS
<1>2. /\ a \in Seq(Entry) /\ Len(a) = j - 1
      /\ \A m \in 1..(j - 1) : a[m] = s[m]
  BY <1>1, SubSeqProperties
<1>3. /\ b \in Seq(Entry) /\ Len(b) = Len(s) - j
      /\ \A m \in 1..(Len(s) - j) : b[m] = s[j + m]
  BY <1>1, SubSeqProperties
<1> HIDE DEF a, b
<1>4. /\ a \o b \in Seq(Entry) /\ Len(a \o b) = Len(s) - 1
      /\ \A m \in 1..(Len(s) - 1) :
           (a \o b)[m] = IF m <= j - 1 THEN a[m] ELSE b[m - (j - 1)]
  BY <1>1, <1>2, <1>3, ConcatProperties
<1>5. \A m \in 1..(Len(s) - 1) : (a \o b)[m] = IF m < j THEN s[m] ELSE s[m + 1]
  <2> SUFFICES ASSUME NEW m \in 1..(Len(s) - 1)
               PROVE  (a \o b)[m] = IF m < j THEN s[m] ELSE s[m + 1]
    OBVIOUS
  <2>1. CASE m < j
    BY <1>1, <1>2, <1>4, <2>1
  <2>2. CASE ~(m < j)
    <3>1. m - (j - 1) \in 1..(Len(s) - j) /\ j + (m - (j - 1)) = m + 1
      BY <1>1, <2>2
    <3> QED
      BY <1>1, <1>3, <1>4, <2>2, <3>1
  <2> QED
    BY <2>1, <2>2
<1>6. Without(s, j) = a \o b
  BY DEF Without, a, b
<1> QED
  BY <1>4, <1>5, <1>6 DEF Cuts

LEMMA RemoveHInv ==
  ASSUME HInv, NEW k \in Key, RemoveFound(k)
  PROVE  HInv' /\ All' = Cut(All, k)
<1> DEFINE c == Index(k)
           j == Least(At(k))
           u == [table EXCEPT ![c] = Without(table[c], j)]
<1>1. /\ table \in Tables /\ DOMAIN table = 0..(size - 1) /\ Elems(old) = {}
      /\ Distinct(table) /\ Homed(table, size) /\ phase = "idle"
  BY DEF HInv, Shaped, Unique, RemoveFound
<1>2. /\ c \in DOMAIN table /\ j \in 1..Len(table[c]) /\ table[c][j].key = k
      /\ k \in KeysOf(All)
  BY <1>1, Found DEF RemoveFound
<1>3. /\ table' = u /\ phase' = phase /\ entries' = entries - 1
      /\ UNCHANGED <<size, old, prime>>
  BY DEF RemoveFound
<1> HIDE DEF c, j
<1>4. table[c] \in Seq(Entry) /\ Len(table[c]) \in Nat
  BY <1>1, <1>2, ElemsTyped
<1>5. Cuts(table[c], j, Without(table[c], j))
  BY <1>2, <1>4, WithoutCuts
<1>6. WithoutEntry(table, c, j, u)
  BY <1>1, <1>2, <1>5, Unlinked
<1> HIDE DEF u
<1>7. table[c][j] \in Elems(table)
  BY <1>1, <1>2, InElems
<1>8. \A x \in Elems(table) : x.key = k <=> x = table[c][j]
  BY <1>1, <1>2, <1>7, Determined
<1>9. All' = Cut(All, k)
  BY <1>1, <1>3, <1>6, <1>8 DEF All, Cut, WithoutEntry
<1>10. Shaped' /\ Unique'
  BY <1>1, <1>3, <1>6 DEF HInv, Shaped, Unique, WithoutEntry
<1>11. Counted'
  <2>1. KeysOf(Cut(All, k)) = KeysOf(All) \ {k}
    BY DEF KeysOf, Cut
  <2>2. IsFiniteSet(KeysOf(All)) /\ entries = Cardinality(KeysOf(All))
    BY <1>1 DEF HInv, Counted
  <2>3. KeysOf(All)' = KeysOf(All) \ {k}
    BY <1>9, <2>1 DEF KeysOf
  <2> QED
    BY <1>2, <1>3, <2>2, <2>3, FS_RemoveElement DEF Counted
<1> QED
  BY <1>9, <1>10, <1>11 DEF HInv

LEMMA NextHInv == HInv /\ [Next]_vars => HInv'
BY AsideHInv, NewHInv, FreeHInv, EnlargeHInv, RelinkHInv, RelinkedHInv,
   OverwriteHInv, AddEntryHInv, RemoveHInv
DEF Next, Aside

LEMMA Invariance == Spec => []HInv
BY InitHInv, NextHInv, PTL DEF Spec

-----------------------------------------------------------------------------
(* The table as a map.                                                     *)

OneEach(C) == \A e, f \in C : e.key = f.key => e = f

DictOver(C) == [k \in KeysOf(C) |-> (CHOOSE e \in C : e.key = k).value]

LEMMA AllOneEach == ASSUME HInv PROVE OneEach(All)
<1>1. table \in Tables /\ old \in Tables /\ Unique
  BY DEF HInv, Shaped
<1> QED
  BY <1>1, Determined DEF OneEach, All, Unique

LEMMA DictAt ==
  ASSUME NEW C, OneEach(C), NEW e \in C
  PROVE  e.key \in DOMAIN DictOver(C) /\ DictOver(C)[e.key] = e.value
<1>1. e.key \in KeysOf(C)
  BY DEF KeysOf
<1>2. (CHOOSE f \in C : f.key = e.key) = e
  BY DEF OneEach
<1> QED
  BY <1>1, <1>2 DEF DictOver

\* The map f with the entry e put in.
Extended(f, e) ==
  [x \in DOMAIN f \cup {e.key} |-> IF x = e.key THEN e.value ELSE f[x]]

LEMMA DictPut ==
  ASSUME NEW C, OneEach(C), NEW e
  PROVE  DictOver(Put(C, e)) = Extended(DictOver(C), e)
<1>1. OneEach(Put(C, e)) /\ e \in Put(C, e)
  BY DEF OneEach, Put
<1>2. DOMAIN DictOver(C) = KeysOf(C) /\ DOMAIN DictOver(Put(C, e)) = KeysOf(Put(C, e))
  BY DEF DictOver
<1>3. KeysOf(Put(C, e)) = KeysOf(C) \cup {e.key}
  BY DEF KeysOf, Put
<1>4. DictOver(Put(C, e))[e.key] = e.value
  BY <1>1, DictAt
<1>5. ASSUME NEW x \in KeysOf(C), x # e.key
      PROVE  DictOver(Put(C, e))[x] = DictOver(C)[x]
  <2>1. PICK f \in C : f.key = x
    BY DEF KeysOf
  <2>2. f \in Put(C, e)
    BY <1>5, <2>1 DEF Put
  <2> QED
    BY <1>1, <2>1, <2>2, DictAt
<1>6. DictOver(Put(C, e)) = [x \in KeysOf(Put(C, e)) |-> DictOver(Put(C, e))[x]]
  BY DEF DictOver
<1> QED
  BY <1>2, <1>3, <1>4, <1>5, <1>6 DEF Extended

LEMMA DictCut ==
  ASSUME NEW C, OneEach(C), NEW k
  PROVE  DictOver(Cut(C, k)) = [x \in DOMAIN DictOver(C) \ {k} |-> DictOver(C)[x]]
<1>1. OneEach(Cut(C, k))
  BY DEF OneEach, Cut
<1>2. DOMAIN DictOver(C) = KeysOf(C) /\ DOMAIN DictOver(Cut(C, k)) = KeysOf(Cut(C, k))
  BY DEF DictOver
<1>3. KeysOf(Cut(C, k)) = KeysOf(C) \ {k}
  BY DEF KeysOf, Cut
<1>4. ASSUME NEW x \in KeysOf(C) \ {k}
      PROVE  DictOver(Cut(C, k))[x] = DictOver(C)[x]
  <2>1. PICK f \in C : f.key = x
    BY DEF KeysOf
  <2>2. f \in Cut(C, k)
    BY <1>4, <2>1 DEF Cut
  <2> QED
    BY <1>1, <2>1, <2>2, DictAt
<1>5. DictOver(Cut(C, k)) = [x \in KeysOf(Cut(C, k)) |-> DictOver(Cut(C, k))[x]]
  BY DEF DictOver
<1> QED
  BY <1>2, <1>3, <1>4, <1>5

LEMMA ContentsAll == Contents = All
BY DEF Contents, Chains, All, Elems

LEMMA MapIs == Map = DictOver(All)
BY ContentsAll DEF Map, DictOver, KeysOf

\* What a lookup, an overwrite and a removal read in the chain of a key.
LEMMA ReadsMap ==
  ASSUME HInv, phase \in {"idle", "add"}, NEW k \in Key
  PROVE  /\ At(k) = {} <=> k \notin DOMAIN Map
         /\ At(k) # {} => table[Index(k)][Least(At(k))].value = Map[k]
<1>1. DOMAIN Map = KeysOf(All)
  BY MapIs DEF DictOver
<1>2. ASSUME At(k) # {} PROVE table[Index(k)][Least(At(k))].value = Map[k]
  <2>1. /\ Index(k) \in DOMAIN table
        /\ Least(At(k)) \in 1..Len(table[Index(k)])
        /\ table[Index(k)][Least(At(k))].key = k
    BY <1>2, Found
  <2>2. table \in Tables
    BY DEF HInv, Shaped
  <2>3. table[Index(k)][Least(At(k))] \in All
    BY <2>1, <2>2, InElems DEF All
  <2> QED
    BY <2>1, <2>3, AllOneEach, DictAt, MapIs
<1> QED
  BY <1>1, <1>2, Found

\* A step that changes no entry, no answer and nothing freed is no step of the map.
Stutters == phase' # "none" /\ phase # "none" /\ Map' = Map /\ UNCHANGED <<result, freed>>

LEMMA MapNext == Map' = DictOver(All')
<1>1. Contents' = All'
  BY DEF Contents, Chains, All, Elems
<1> QED
  BY <1>1 DEF Map, DictOver, KeysOf

LEMMA SameMap == ASSUME All' = All PROVE Map' = Map
BY MapIs, MapNext

(* hash-table.c implements a map from keys to values that owns what is put *)
(* into it (lines 238-402): a lookup returns what was inserted last, and   *)
(* moving entries to a larger table, or failing to allocate one, changes   *)
(* no answer and frees nothing.                                            *)
THEOREM Refines == Spec => IsDict
<1>1. Init => D!Init
  <2> SUFFICES ASSUME Init PROVE D!Init
    OBVIOUS
  <2>1. All = {}
    BY EmptyTable DEF Init, All
  <2>2. Map = [k \in {} |-> Null]
    BY <2>1, MapIs DEF DictOver, KeysOf
  <2> QED
    BY <2>2 DEF Init, D!Init, D!NoEntries
<1>2. HInv /\ HInv' /\ [Next]_vars => [D!Next]_D!dictVars
  <2> SUFFICES ASSUME HInv, HInv', [Next]_vars
               PROVE  D!Next \/ UNCHANGED <<phase # "none", Map, result, freed>>
    BY DEF D!dictVars
  <2> USE DEF D!Next
  <2>0. Map = DictOver(All) /\ Map' = DictOver(All')
    BY MapIs, MapNext
  <2>1. CASE hash_table_new
    <3>1. Map' = [k \in {} |-> Null]
      BY <2>0, <2>1, NewHInv DEF DictOver, KeysOf
    <3> QED
      BY <2>1, <3>1 DEF hash_table_new, D!New, D!NoEntries
  <2>2. CASE hash_table_free
    <3>1. Map' = [k \in {} |-> Null]
      BY <2>0, <2>2, FreeHInv DEF DictOver, KeysOf
    <3>2. freed' = {Map[k] : k \in DOMAIN Map}
      <4>1. freed' = {e.value : e \in Elems(table)} /\ All = Elems(table)
        <5>1. table \in Tables /\ All = Elems(table)
          BY <2>2 DEF hash_table_free, All, HInv, Shaped
        <5>2. freed' = UNION {{table[c][j].value : j \in 1..Len(table[c])} :
                                c \in DOMAIN table}
          BY <2>2 DEF hash_table_free
        <5>3. \A v : v \in freed' <=> \E c \in DOMAIN table :
                                        \E j \in 1..Len(table[c]) : v = table[c][j].value
          BY <5>2
        <5>4. \A v : v \in freed' <=> \E e \in Elems(table) : v = e.value
          BY <5>1, <5>3, InElems
        <5> QED
          BY <5>1, <5>4
      <4>2. \A e \in All : e.key \in DOMAIN Map /\ Map[e.key] = e.value
        BY <2>0, AllOneEach, DictAt
      <4>3. \A k \in DOMAIN Map : \E e \in All : e.key = k
        <5>1. DOMAIN Map = KeysOf(All)
          BY <2>0 DEF DictOver
        <5> QED
          BY <5>1 DEF KeysOf
      <4> QED
        BY <4>1, <4>2, <4>3
    <3> QED
      BY <2>2, <3>1, <3>2 DEF hash_table_free, D!Free, D!NoEntries
  <2>3. ASSUME NEW k \in Key, NEW v \in Value, Enlarge(k, v) PROVE Stutters
    BY <2>3, EnlargeHInv, SameMap DEF Enlarge, Stutters
  <2>4. CASE Relink \/ Relinked
    <3>1. Stutters
      BY <2>4, RelinkHInv, RelinkedHInv, SameMap DEF Relink, Relinked, Stutters
    <3> QED
      BY <3>1 DEF Stutters
  <2>5. CASE EnlargeFails \/ AddFails
    <3>1. Map' = Map
      BY <2>5, AsideHInv, SameMap DEF Aside
    <3> QED
      BY <2>5, <3>1 DEF EnlargeFails, AddFails, tableVars, D!InsertFails
  <2>6. CASE Overwrite \/ AddEntry
    <3> DEFINE k == arg.key
    <3>1. arg \in Entry /\ k \in Key /\ arg.value \in Value /\ phase = "add"
      BY <2>6 DEF HInv, Shaped, Entry, Overwrite, AddEntry
    <3>2. Map' = Extended(Map, arg)
      <4>1. All' = Put(All, arg)
        BY <2>6, OverwriteHInv, AddEntryHInv
      <4>2. DictOver(Put(All, arg)) = Extended(DictOver(All), arg)
        BY AllOneEach, DictPut
      <4> QED
        BY <2>0, <4>1, <4>2
    <3>3. freed' = IF k \in DOMAIN Map THEN {Map[k]} ELSE {}
      BY <2>6, <3>1, ReadsMap DEF Overwrite, AddEntry
    <3>4. result' = "done" /\ phase' = "idle"
      BY <2>6 DEF Overwrite, AddEntry
    <3>5. D!Insert(k, arg.value)
      BY <3>1, <3>2, <3>3, <3>4 DEF D!Insert, Extended
    <3> QED
      BY <3>1, <3>5
  <2>7. ASSUME NEW k \in Key, hash_table_lookup(k) PROVE D!Lookup(k)
    <3>1. Map' = Map
      BY <2>7, AsideHInv, SameMap DEF Aside
    <3> QED
      BY <2>7, <3>1, ReadsMap DEF hash_table_lookup, D!Lookup
  <2>8. ASSUME NEW k \in Key, RemoveFound(k) PROVE D!Remove(k)
    <3>1. Map' = [x \in DOMAIN Map \ {k} |-> Map[x]]
      <4>1. All' = Cut(All, k)
        BY <2>8, RemoveHInv
      <4>2. DictOver(Cut(All, k)) = [x \in DOMAIN DictOver(All) \ {k} |-> DictOver(All)[x]]
        BY AllOneEach, DictCut
      <4> QED
        BY <2>0, <4>1, <4>2
    <3>2. k \in DOMAIN Map /\ freed' = {Map[k]} /\ result' = "done"
      BY <2>8, ReadsMap DEF RemoveFound
    <3> QED
      BY <2>8, <3>1, <3>2 DEF RemoveFound, D!Remove
  <2>9. ASSUME NEW k \in Key, RemoveMissing(k) PROVE D!Remove(k)
    <3>1. Map' = Map
      BY <2>9, AsideHInv, SameMap DEF Aside
    <3>2. k \notin DOMAIN Map
      BY <2>9, ReadsMap DEF RemoveMissing
    <3>3. Map = [x \in DOMAIN Map \ {k} |-> Map[x]]
      <4>1. Map = [x \in KeysOf(All) |-> Map[x]] /\ DOMAIN Map = KeysOf(All)
        BY <2>0 DEF DictOver
      <4> QED
        BY <3>2, <4>1
    <3> QED
      BY <2>9, <3>1, <3>2, <3>3 DEF RemoveMissing, D!Remove
  <2>10. CASE (\E k \in Key, v \in Value : InsertBegin(k, v)) \/ hash_table_iterate
              \/ hash_table_iter_next \/ IterEnds \/ UNCHANGED vars
    <3>1. Map' = Map
      BY <2>10, AsideHInv, SameMap DEF Aside
    <3> QED
      BY <2>10, <3>1 DEF InsertBegin, hash_table_iterate, hash_table_iter_next,
                         IterEnds, vars
  <2> QED
    BY <2>1, <2>2, <2>3, <2>4, <2>5, <2>6, <2>7, <2>8, <2>9, <2>10 DEF Next, Stutters
<1> QED
  BY <1>1, <1>2, Invariance, PTL DEF Spec, IsDict, D!Spec

-----------------------------------------------------------------------------
(* Places.                                                                 *)

LEMMA InPlaces ==
  ASSUME NEW t \in Tables, NEW k
  PROVE  /\ \A pl : pl \in Places(t, k) <=>
              \E c \in DOMAIN t : \E j \in 1..Len(t[c]) :
                pl = <<c, j>> /\ t[c][j].key = k
         /\ Places(t, k) # {} <=> k \in KeysOf(Elems(t))
<1>1. \A pl : pl \in Places(t, k) <=>
        \E c \in DOMAIN t : \E j \in 1..Len(t[c]) : pl = <<c, j>> /\ t[c][j].key = k
  BY DEF Places
<1>2. k \in KeysOf(Elems(t)) <=> \E c \in DOMAIN t : \E j \in 1..Len(t[c]) : t[c][j].key = k
  BY InElems DEF KeysOf
<1> QED
  BY <1>1, <1>2

LEMMA AtMostOne ==
  ASSUME NEW S, \A x, y \in S : x = y
  PROVE  Cardinality(S) <= 1
<1>1. CASE S = {}
  BY <1>1, FS_EmptySet
<1>2. CASE S # {}
  <2>1. PICK x : S = {x}
    BY <1>2
  <2> QED
    BY <2>1, FS_Singleton
<1> QED
  BY <1>1, <1>2

LEMMA HInvHashed == HInv => Hashed
<1> SUFFICES ASSUME HInv, phase # "none" PROVE Hashed
  BY DEF Hashed
<1>1. /\ size > 0 /\ table \in Tables /\ old \in Tables
      /\ Distinct(table) /\ Distinct(old) /\ Homed(table, size)
      /\ \A e \in Elems(table), f \in Elems(old) : e.key # f.key
      /\ entries = Cardinality(KeysOf(All))
  BY DEF HInv, Shaped, Unique, Counted
<1> DEFINE Occurs(k) == Places(table, k) \cup Places(old, k)
<1>2. ASSUME NEW k \in Key PROVE \A x, y \in Occurs(k) : x = y
  <2>1. ASSUME NEW t \in Tables, Distinct(t) PROVE \A x, y \in Places(t, k) : x = y
    BY <2>1, InPlaces DEF Distinct
  <2>2. Places(table, k) = {} \/ Places(old, k) = {}
    BY <1>1, InPlaces DEF KeysOf
  <2> QED
    BY <1>1, <2>1, <2>2
<1>3. ASSUME NEW k \in Key, NEW pl \in Places(table, k) PROVE pl[1] = Index(k)
  BY <1>1, InPlaces DEF Homed, Index
<1>4. KeysOf(All) = {k \in Key : Occurs(k) # {}}
  <2>1. \A k \in Key : Occurs(k) # {} <=> k \in KeysOf(All)
    <3>1. KeysOf(All) = KeysOf(Elems(table)) \cup KeysOf(Elems(old))
      BY DEF KeysOf, All
    <3> QED
      BY <1>1, <3>1, InPlaces
  <2>2. KeysOf(All) \subseteq Key
    BY <1>1, ElemsTyped DEF KeysOf, All, Entry
  <2> QED
    BY <2>1, <2>2
<1>5. \A k \in Key : Cardinality(Occurs(k)) <= 1
  BY <1>2, AtMostOne
<1> QED
  BY <1>1, <1>3, <1>4, <1>5 DEF Hashed

(* A key is in the tables once at most, in the chain its hash says even    *)
(* while hash_table_enlarge() moves entries; no hash is taken modulo 0 and *)
(* entries is the number of keys (lines 214-228, 248 and 262-296).         *)
THEOREM WellHashed == Spec => []Hashed
BY Invariance, HInvHashed, PTL

-----------------------------------------------------------------------------
(* Iterations.                                                             *)

\* The iterator has passed place j of chain c.
Behind(c, j) == it = None \/ c < it[1] \/ (c = it[1] /\ j < it[2])

Returned(k) == \E i \in 1..Len(seen) : seen[i] = k

\* It has returned the keys it has passed, each once.
Walked ==
  phase = "iter" =>
    /\ seen \in Seq(Key)
    /\ it # None => \E c \in DOMAIN table : \E j \in 1..Len(table[c]) : it = <<c, j>>
    /\ \A k : Returned(k) <=> \E c \in DOMAIN table : \E j \in 1..Len(table[c]) :
                                Behind(c, j) /\ table[c][j].key = k
    /\ \A i, m \in 1..Len(seen) : seen[i] = seen[m] => i = m

LEMMA FirstFromIs ==
  ASSUME HInv, NEW a \in Nat
  PROVE  \/ /\ FirstFrom(a) = None
            /\ \A c \in DOMAIN table : c >= a => Len(table[c]) = 0
         \/ \E d \in DOMAIN table :
              /\ FirstFrom(a) = <<d, 1>> /\ d >= a /\ 1 \in 1..Len(table[d])
              /\ \A c \in DOMAIN table : a <= c /\ c < d => Len(table[c]) = 0
<1> DEFINE S == {d \in NonEmpty(table) : d >= a}
<1>1. /\ table \in Tables /\ DOMAIN table \subseteq Nat
      /\ \A c \in DOMAIN table : table[c] \in Seq(Entry) /\ Len(table[c]) \in Nat
  BY ElemsTyped DEF HInv, Shaped
<1>2. \A c \in DOMAIN table : IF c \in NonEmpty(table) THEN 1 \in 1..Len(table[c])
                                                      ELSE Len(table[c]) = 0
  BY <1>1, EmptySeq DEF NonEmpty
<1>3. CASE S = {}
  <2>1. FirstFrom(a) = None
    BY <1>3 DEF FirstFrom
  <2> QED
    BY <1>2, <1>3, <2>1
<1>4. CASE S # {}
  <2>1. FirstFrom(a) = <<Least(S), 1>>
    BY <1>4 DEF FirstFrom
  <2>2. S \in SUBSET Nat
    BY <1>1 DEF NonEmpty
  <2>3. Least(S) \in S /\ \A d \in S : Least(S) <= d
    BY <1>4, <2>2, LeastExists
  <2> DEFINE d == Least(S)
  <2>4. d \in NonEmpty(table) /\ d >= a /\ d \in DOMAIN table
    BY <2>3 DEF NonEmpty
  <2>5. ASSUME NEW c \in DOMAIN table, a <= c, c < d PROVE Len(table[c]) = 0
    <3>1. c \in Nat /\ d \in Nat
      BY <1>1, <2>4
    <3>2. ~(d <= c)
      BY <2>5, <3>1
    <3>3. c \notin S
      BY <2>3, <3>2
    <3> QED
      BY <1>2, <2>5, <3>3
  <2> QED
    BY <1>2, <2>1, <2>4, <2>5
<1> QED
  BY <1>3, <1>4

LEMMA IterateWalked == HInv /\ hash_table_iterate => Walked'
<1> SUFFICES ASSUME HInv, hash_table_iterate PROVE Walked'
  OBVIOUS
<1>1. seen' = <<>> /\ table' = table /\ it' = FirstFrom(0)
  BY DEF hash_table_iterate, tableVars
<1>2. /\ DOMAIN table \subseteq Nat
      /\ \A c \in DOMAIN table : Len(table[c]) \in Nat
  BY ElemsTyped DEF HInv, Shaped
<1>3. \/ it' = None /\ \A c \in DOMAIN table : c >= 0 => Len(table[c]) = 0
      \/ \E d \in DOMAIN table :
           /\ it' = <<d, 1>> /\ d >= 0 /\ 1 \in 1..Len(table[d])
           /\ \A c \in DOMAIN table : 0 <= c /\ c < d => Len(table[c]) = 0
  BY <1>1, FirstFromIs
<1>4. it' # None => \E c \in DOMAIN table : \E j \in 1..Len(table[c]) : it' = <<c, j>>
  BY <1>3
<1>5. ASSUME NEW c \in DOMAIN table, NEW j \in 1..Len(table[c]) PROVE ~Behind(c, j)'
  BY <1>2, <1>3 DEF Behind, None
<1>6. seen' \in Seq(Key) /\ Len(seen') = 0
  BY <1>1
<1> QED
  BY <1>1, <1>4, <1>5, <1>6 DEF Walked, Returned

\* One more place is behind the iterator.
LEMMA StepBehind ==
  ASSUME HInv, Walked, hash_table_iter_next
  PROVE  \E c \in DOMAIN table : \E j \in 1..Len(table[c]) :
           /\ it = <<c, j>>
           /\ seen' = Append(seen, table[c][j].key)
           /\ it' # None => \E d \in DOMAIN table : \E m \in 1..Len(table[d]) : it' = <<d, m>>
           /\ \A d \in DOMAIN table : \A m \in 1..Len(table[d]) :
                Behind(d, m)' <=> Behind(d, m) \/ (d = c /\ m = j)
<1>1. /\ DOMAIN table \subseteq Nat
      /\ \A c \in DOMAIN table : Len(table[c]) \in Nat
  BY ElemsTyped DEF HInv, Shaped
<1>2. PICK c \in DOMAIN table : \E j \in 1..Len(table[c]) : it = <<c, j>>
  BY DEF Walked, hash_table_iter_next
<1>3. PICK j \in 1..Len(table[c]) : it = <<c, j>>
  BY <1>2
<1>4. /\ seen' = Append(seen, table[c][j].key)
      /\ it' = IF j < Len(table[c]) THEN <<c, j + 1>> ELSE FirstFrom(c + 1)
  BY <1>3 DEF hash_table_iter_next
<1>5. CASE j < Len(table[c])
  <2>1. it' = <<c, j + 1>> /\ j + 1 \in 1..Len(table[c])
    BY <1>1, <1>4, <1>5
  <2>2. ASSUME NEW d \in DOMAIN table, NEW m \in 1..Len(table[d])
        PROVE  Behind(d, m)' <=> Behind(d, m) \/ (d = c /\ m = j)
    BY <1>1, <1>3, <2>1 DEF Behind, None
  <2> QED
    BY <1>3, <1>4, <2>1, <2>2
<1>6. CASE ~(j < Len(table[c]))
  <2>1. it' = FirstFrom(c + 1) /\ j = Len(table[c]) /\ c + 1 \in Nat
    BY <1>1, <1>4, <1>6
  <2>2. \/ it' = None /\ \A d \in DOMAIN table : d >= c + 1 => Len(table[d]) = 0
        \/ \E e \in DOMAIN table :
             /\ it' = <<e, 1>> /\ e >= c + 1 /\ 1 \in 1..Len(table[e])
             /\ \A d \in DOMAIN table : c + 1 <= d /\ d < e => Len(table[d]) = 0
    BY <2>1, FirstFromIs
  <2>3. it' # None => \E d \in DOMAIN table : \E m \in 1..Len(table[d]) : it' = <<d, m>>
    BY <2>2
  <2>4. ASSUME NEW d \in DOMAIN table, NEW m \in 1..Len(table[d])
        PROVE  Behind(d, m)' <=> Behind(d, m) \/ (d = c /\ m = j)
    <3>1. Behind(d, m) <=> d < c \/ (d = c /\ m < j)
      BY <1>3 DEF Behind, None
    <3>2. Behind(d, m)' <=> d <= c
      BY <1>1, <2>2 DEF Behind, None
    <3> QED
      BY <1>1, <2>1, <3>1, <3>2
  <2> QED
    BY <1>3, <1>4, <2>3, <2>4
<1> QED
  BY <1>5, <1>6

LEMMA StepWalked == HInv /\ Walked /\ hash_table_iter_next => Walked'
<1> SUFFICES ASSUME HInv, Walked, hash_table_iter_next PROVE Walked'
  OBVIOUS
<1>1. /\ phase = "iter" /\ table' = table /\ seen \in Seq(Key)
      /\ table \in Tables /\ Distinct(table)
  BY DEF hash_table_iter_next, tableVars, Walked, HInv, Shaped, Unique
<1>2. PICK c \in DOMAIN table : \E j \in 1..Len(table[c]) :
           /\ it = <<c, j>>
           /\ seen' = Append(seen, table[c][j].key)
           /\ it' # None => \E d \in DOMAIN table : \E m \in 1..Len(table[d]) : it' = <<d, m>>
           /\ \A d \in DOMAIN table : \A m \in 1..Len(table[d]) :
                Behind(d, m)' <=> Behind(d, m) \/ (d = c /\ m = j)
  BY StepBehind
<1>3. PICK j \in 1..Len(table[c]) :
           /\ it = <<c, j>>
           /\ seen' = Append(seen, table[c][j].key)
           /\ it' # None => \E d \in DOMAIN table : \E m \in 1..Len(table[d]) : it' = <<d, m>>
           /\ \A d \in DOMAIN table : \A m \in 1..Len(table[d]) :
                Behind(d, m)' <=> Behind(d, m) \/ (d = c /\ m = j)
  BY <1>2
<1> DEFINE k == table[c][j].key
<1>4. k \in Key
  <2>1. table[c] \in Seq(Entry)
    BY <1>1, ElemsTyped
  <2>2. table[c][j] \in Entry
    BY <2>1
  <2> QED
    BY <2>2 DEF Entry
<1>5. /\ seen' \in Seq(Key) /\ Len(seen') = Len(seen) + 1 /\ Len(seen) \in Nat
      /\ \A i \in 1..Len(seen) : seen'[i] = seen[i]
      /\ seen'[Len(seen) + 1] = k
  BY <1>1, <1>3, <1>4, AppendProperties
<1>6. ~Returned(k)
  <2>1. ~Behind(c, j)
    <3>1. c \in Nat /\ j \in Nat
      BY <1>1, ElemsTyped
    <3> QED
      BY <1>3, <3>1 DEF Behind, None
  <2>2. SUFFICES ASSUME Returned(k) PROVE FALSE
    OBVIOUS
  <2>3. PICK d \in DOMAIN table : \E m \in 1..Len(table[d]) : Behind(d, m) /\ table[d][m].key = k
    BY <1>1, <2>2 DEF Walked
  <2>4. PICK m \in 1..Len(table[d]) : Behind(d, m) /\ table[d][m].key = k
    BY <2>3
  <2> QED
    BY <1>1, <2>1, <2>4 DEF Distinct
<1>7. ASSUME NEW x PROVE Returned(x)' <=> Returned(x) \/ x = k
  BY <1>5 DEF Returned
<1>8. ASSUME NEW x
      PROVE  Returned(x)' <=> \E d \in DOMAIN table : \E m \in 1..Len(table[d]) :
                                Behind(d, m)' /\ table[d][m].key = x
  <2>1. Returned(x) <=> \E d \in DOMAIN table : \E m \in 1..Len(table[d]) :
                          Behind(d, m) /\ table[d][m].key = x
    BY <1>1 DEF Walked
  <2> QED
    BY <1>3, <1>7, <2>1
<1>9. \A i, m \in 1..Len(seen') : seen'[i] = seen'[m] => i = m
  <2>1. \A i, m \in 1..Len(seen) : seen[i] = seen[m] => i = m
    BY <1>1 DEF Walked
  <2>2. \A i \in 1..Len(seen) : seen[i] # k
    BY <1>6 DEF Returned
  <2> QED
    BY <1>5, <2>1, <2>2
<1>10. it' # None => \E d \in DOMAIN table : \E m \in 1..Len(table[d]) : it' = <<d, m>>
  BY <1>3
<1> QED
  BY <1>1, <1>5, <1>8, <1>9, <1>10 DEF Walked

LEMMA NextWalked == HInv /\ Walked /\ [Next]_vars => Walked'
<1> SUFFICES ASSUME HInv, Walked, [Next]_vars PROVE Walked'
  OBVIOUS
<1>1. CASE hash_table_iterate
  BY <1>1, IterateWalked
<1>2. CASE hash_table_iter_next
  BY <1>2, StepWalked
<1>3. CASE UNCHANGED vars
  BY <1>3 DEF vars, tableVars, iterVars, Walked, Returned, Behind
<1>4. CASE Next /\ ~hash_table_iterate /\ ~hash_table_iter_next
  <2>1. phase' # "iter"
    BY <1>4
    DEF Next, hash_table_new, hash_table_free, InsertBegin, Enlarge, EnlargeFails, Relink,
        Relinked, Overwrite, AddEntry, AddFails, hash_table_lookup, RemoveFound,
        RemoveMissing, IterEnds
  <2> QED
    BY <2>1 DEF Walked
<1> QED
  BY <1>1, <1>2, <1>3, <1>4

LEMMA WalkedComplete == HInv /\ Walked => IterationComplete
<1> SUFFICES ASSUME HInv, Walked, phase = "iter", it = None
             PROVE  /\ \A k \in Key : At(k) # {} <=> Returned(k)
                    /\ Len(seen) = entries
  BY DEF IterationComplete, Returned
<1>1. table \in Tables /\ All = Elems(table) /\ seen \in Seq(Key)
  BY DEF HInv, Shaped, All, Walked
<1>2. ASSUME NEW k PROVE Returned(k) <=> k \in KeysOf(All)
  <2>1. Returned(k) <=> \E c \in DOMAIN table : \E j \in 1..Len(table[c]) : table[c][j].key = k
    BY DEF Walked, Behind
  <2> QED
    BY <1>1, <2>1, InElems DEF KeysOf
<1>3. \A k \in Key : At(k) # {} <=> Returned(k)
  BY <1>2, Found
<1>4. Len(seen) = Cardinality(KeysOf(All))
  <2>1. /\ Len(seen) \in Nat /\ seen \in [1..Len(seen) -> KeysOf(All)]
        /\ \A i, m \in 1..Len(seen) : seen[i] = seen[m] => i = m
    <3>1. \A i \in 1..Len(seen) : seen[i] \in KeysOf(All)
      BY <1>2 DEF Returned
    <3> QED
      BY <1>1, <3>1, LenProperties DEF Walked
  <2>2. \A k \in KeysOf(All) : \E i \in 1..Len(seen) : seen[i] = k
    BY <1>2 DEF Returned
  <2>3. seen \in Bijection(1..Len(seen), KeysOf(All))
    BY <2>1, <2>2 DEF Bijection, Injection, Surjection, IsInjective
  <2>4. ExistsBijection(1..Len(seen), KeysOf(All))
    BY <2>3 DEF ExistsBijection
  <2> QED
    BY <2>1, <2>4, FS_CountingElements
<1>5. entries = Cardinality(KeysOf(All))
  BY DEF HInv, Counted
<1> QED
  BY <1>3, <1>4, <1>5

(* An iteration returns every key of the table exactly once, whatever the  *)
(* sizes of the chains (lines 409-492): releaseAliases() leaves no alias   *)
(* marked as in use, and printAliases() omits and repeats none.            *)
THEOREM IteratesAll == Spec => []IterationComplete
<1>1. Init => Walked
  BY DEF Init, Walked
<1>2. HInv /\ HInv' /\ Walked /\ [Next]_vars => Walked'
  BY NextWalked
<1> QED
  BY <1>1, <1>2, Invariance, WalkedComplete, PTL DEF Spec
=============================================================================
