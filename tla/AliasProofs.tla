---------------------------- MODULE AliasProofs -----------------------------
(***************************************************************************)
(* Theorems about Aliases, for any characters, aliases, commands and size  *)
(* of the buffers: marks never outlive an expansion, no buffer overflows   *)
(* before words and arguments are too long for it, expandAlias() takes no  *)
(* more rounds than there are aliases, and rewrites its argument as        *)
(* Rewriting says.                                                         *)
(***************************************************************************)
EXTENDS Aliases, FiniteSetTheorems, WellFoundedInduction, TLAPS

\* Before the first round nothing was found, and final is empty.
Fresh == pc # "idle" /\ Used = {} => final = Empty

IInv == TypeOK /\ Released /\ Fresh

-----------------------------------------------------------------------------
(* Facts about texts.                                                      *)

\* A set of numbers has a least one.
LEMMA LeastExists ==
  ASSUME NEW S \in SUBSET Nat, S # {}
  PROVE  \E c \in S : \A d \in S : c <= d
<1> DEFINE T == {0..m : m \in S}
<1>1. T \subseteq FiniteSubsetsOf(Nat) /\ T # {}
  <2>1. \A m \in S : 0..m \in SUBSET Nat /\ IsFiniteSet(0..m)
    BY FS_Interval
  <2> QED
    BY <2>1 DEF FiniteSubsetsOf
<1>2. IsWellFoundedOn(StrictSubsetOrdering(Nat), FiniteSubsetsOf(Nat))
  BY FS_StrictSubsetOrderingWellFounded
<1> HIDE DEF T
<1>3. \E X \in T : \A Y \in T : <<Y, X>> \notin StrictSubsetOrdering(Nat)
  BY <1>1, <1>2, WFMin
<1>4. PICK c \in S : \A d \in S : <<0..d, 0..c>> \notin StrictSubsetOrdering(Nat)
  BY <1>3 DEF T
<1>5. ASSUME NEW d \in S, d < c PROVE FALSE
  <2>1. 0..d \subseteq 0..c /\ c \in 0..c /\ c \notin 0..d
    BY <1>5
  <2>2. <<0..d, 0..c>> \in StrictSubsetOrdering(Nat)
    BY <2>1 DEF StrictSubsetOrdering
  <2> QED
    BY <1>4, <2>2
<1> QED
  BY <1>5

LEMMA BreakUnique ==
  ASSUME NEW s \in Seq(Char), NEW i \in 1..(Len(s) + 1), IsBreak(s, i),
         NEW j \in 1..(Len(s) + 1), IsBreak(s, j)
  PROVE  i = j
<1>1. ASSUME NEW a \in 1..(Len(s) + 1), IsBreak(s, a),
             NEW b \in 1..(Len(s) + 1), IsBreak(s, b), a < b
      PROVE  FALSE
  <2>1. a \in 1..(b - 1) /\ a <= Len(s)
    BY <1>1
  <2> QED
    BY <1>1, <2>1 DEF IsBreak
<1>2. i \in Int /\ j \in Int /\ ~(i < j) /\ ~(j < i)
  BY <1>1
<1> QED
  BY <1>2

LEMMA BreakIs ==
  ASSUME NEW s \in Seq(Char)
  PROVE  Break(s) \in 1..(Len(s) + 1) /\ IsBreak(s, Break(s))
<1> DEFINE S == {j \in 1..(Len(s) + 1) : j <= Len(s) => s[j] = Space}
<1>1. Len(s) \in Nat
  OBVIOUS
<1>2. Len(s) + 1 \in S /\ S \in SUBSET Nat
  BY <1>1
<1>3. PICK c \in S : \A d \in S : c <= d
  <2> HIDE DEF S
  <2> QED
    BY <1>2, LeastExists
<1>4. ASSUME NEW m \in 1..(c - 1)
      PROVE  s[m] # Space
  <2>1. m \in 1..(Len(s) + 1) /\ ~(c <= m)
    BY <1>1
  <2> QED
    BY <1>3, <2>1
<1>5. c \in 1..(Len(s) + 1) /\ IsBreak(s, c)
  BY <1>4 DEF IsBreak
<1> QED
  BY <1>5 DEF Break

\* First and Rest are s in two pieces.
LEMMA Pieces ==
  ASSUME NEW s \in Seq(Char)
  PROVE  /\ First(s) \in Seq(Char) /\ Len(First(s)) = Break(s) - 1
         /\ Rest(s) \in Seq(Char) /\ Len(Rest(s)) = Len(s) - Break(s) + 1
         /\ \A j \in 1..Len(Rest(s)) : Rest(s)[j] = s[Break(s) + j - 1]
         /\ Rest(s) = <<>> \/ Rest(s)[1] = Space
<1> DEFINE b == Break(s)
<1>1. b \in 1..(Len(s) + 1) /\ IsBreak(s, b) /\ Len(s) \in Nat
  BY BreakIs
<1> HIDE DEF b
<1>2. SubSeq(s, 1, b - 1) \in Seq(Char) /\ Len(SubSeq(s, 1, b - 1)) = b - 1
  BY <1>1
<1> DEFINE r == SubSeq(s, b, Len(s))
<1>3. /\ r \in Seq(Char) /\ Len(r) = Len(s) - b + 1
      /\ \A j \in 1..Len(r) : r[j] = s[b + j - 1]
  BY <1>1
<1>4. r = <<>> \/ r[1] = Space
  <2>1. CASE b <= Len(s)
    <3>1. 1 \in 1..Len(r) /\ b + 1 - 1 = b
      BY <1>1, <1>3, <2>1
    <3> QED
      BY <1>1, <1>3, <2>1, <3>1 DEF IsBreak
  <2>2. CASE ~(b <= Len(s))
    <3>1. Len(r) = 0
      BY <1>1, <1>3, <2>2
    <3> HIDE DEF r
    <3> QED
      BY <1>3, <3>1
  <2> QED
    BY <2>1, <2>2
<1>5. First(s) = SubSeq(s, 1, b - 1) /\ Rest(s) = r
  BY DEF First, Rest, b
<1> HIDE DEF r
<1> QED
  BY <1>2, <1>3, <1>4, <1>5 DEF b

LEMMA EmptyText == Empty \in Seq(Char) /\ Rest(Empty) = <<>>
<1>1. Empty \in Seq(Char) /\ Len(Empty) = 0
  BY DEF Empty
<1>2. /\ Rest(Empty) \in Seq(Char)
      /\ Len(Rest(Empty)) = Len(Empty) - Break(Empty) + 1
  BY <1>1, Pieces
<1>3. Len(Rest(Empty)) = 0
  <2>1. Break(Empty) \in 1..(Len(Empty) + 1)
    BY <1>1, BreakIs
  <2> QED
    BY <1>1, <1>2, <2>1
<1> QED
  BY <1>1, <1>2, <1>3

LEMMA InValue ==
  ASSUME NEW v \in Value \cup Command
  PROVE  v \in Seq(Char) /\ First(v) \in Seq(Char) /\ Rest(v) \in Seq(Char)
<1>1. v \in Seq(Char)
  BY AliasesAssumption
<1> QED
  BY <1>1, Pieces

LEMMA Joined ==
  ASSUME NEW s \in Seq(Char), NEW t \in Seq(Char)
  PROVE  /\ s \o t \in Seq(Char) /\ Len(s \o t) = Len(s) + Len(t)
         /\ \A j \in 1..Len(s) : (s \o t)[j] = s[j]
         /\ \A j \in 1..Len(t) : (s \o t)[Len(s) + j] = t[j]
OBVIOUS

\* Appending arguments leaves the first word alone.
LEMMA RestOfAppended ==
  ASSUME NEW s \in Seq(Char), NEW t \in Seq(Char), t = <<>> \/ t[1] = Space
  PROVE  Rest(s \o t) = Rest(s) \o t
<1> DEFINE u == s \o t
           b == Break(s)
<1>1. /\ u \in Seq(Char) /\ Len(u) = Len(s) + Len(t)
      /\ \A j \in 1..Len(s) : u[j] = s[j]
      /\ \A j \in 1..Len(t) : u[Len(s) + j] = t[j]
      /\ Len(s) \in Nat /\ Len(t) \in Nat
  BY Joined
<1>2. b \in 1..(Len(s) + 1) /\ IsBreak(s, b)
  BY BreakIs
<1> HIDE DEF u, b
<1>3. b \in 1..(Len(u) + 1) /\ IsBreak(u, b)
  <2>1. ASSUME NEW m \in 1..(b - 1) PROVE u[m] # Space
    <3>1. m \in 1..Len(s)
      BY <1>1, <1>2
    <3> QED
      BY <1>1, <1>2, <3>1 DEF IsBreak
  <2>2. ASSUME b <= Len(u) PROVE u[b] = Space
    <3>1. CASE b <= Len(s)
      <4>1. b \in 1..Len(s)
        BY <1>2, <3>1
      <4> QED
        BY <1>1, <1>2, <3>1, <4>1 DEF IsBreak
    <3>2. CASE ~(b <= Len(s))
      <4>1. b = Len(s) + 1 /\ 1 \in 1..Len(t)
        BY <1>1, <1>2, <2>2, <3>2
      <4>2. t # <<>>
        BY <4>1
      <4> QED
        BY <1>1, <4>1, <4>2
    <3> QED
      BY <3>1, <3>2
  <2> QED
    BY <1>1, <1>2, <2>1, <2>2 DEF IsBreak
<1>4. Break(u) = b
  BY <1>1, <1>3, BreakIs, BreakUnique
<1>5. /\ Rest(u) \in Seq(Char) /\ Len(Rest(u)) = Len(u) - b + 1
      /\ \A j \in 1..Len(Rest(u)) : Rest(u)[j] = u[b + j - 1]
  BY <1>1, <1>4, Pieces
<1>6. /\ Rest(s) \in Seq(Char) /\ Len(Rest(s)) = Len(s) - b + 1
      /\ \A j \in 1..Len(Rest(s)) : Rest(s)[j] = s[b + j - 1]
  BY Pieces DEF b
<1> DEFINE q == Rest(s)
           v == q \o t
<1> HIDE DEF q
<1>7. /\ v \in Seq(Char) /\ Len(v) = Len(q) + Len(t)
      /\ \A j \in 1..Len(q) : v[j] = q[j]
      /\ \A j \in 1..Len(t) : v[Len(q) + j] = t[j]
  BY <1>6, Joined DEF q
<1> HIDE DEF v
<1>8. ASSUME NEW j \in 1..Len(v) PROVE Rest(u)[j] = v[j]
  <2>1. /\ q \in Seq(Char) /\ Len(q) = Len(s) - b + 1 /\ Len(q) \in Nat
        /\ \A k \in 1..Len(q) : q[k] = s[b + k - 1]
    BY <1>1, <1>2, <1>6 DEF q
  <2>2. Rest(u)[j] = u[b + j - 1]
    BY <1>1, <1>2, <1>5, <1>7, <2>1
  <2>3. CASE j <= Len(q)
    <3>1. j \in 1..Len(q) /\ b + j - 1 \in 1..Len(s)
      BY <1>1, <1>2, <2>1, <2>3
    <3> QED
      BY <1>1, <1>7, <2>1, <2>2, <3>1
  <2>4. CASE ~(j <= Len(q))
    <3>1. /\ j - Len(q) \in 1..Len(t)
          /\ b + j - 1 = Len(s) + (j - Len(q)) /\ Len(q) + (j - Len(q)) = j
      BY <1>1, <1>2, <1>7, <2>1, <2>4
    <3>2. /\ u[Len(s) + (j - Len(q))] = t[j - Len(q)]
          /\ v[Len(q) + (j - Len(q))] = t[j - Len(q)]
      BY <1>1, <1>7, <3>1
    <3> QED
      BY <2>2, <3>1, <3>2
  <2> QED
    BY <2>3, <2>4
<1>9. Len(Rest(u)) = Len(v)
  BY <1>1, <1>2, <1>5, <1>6, <1>7 DEF q
<1>10. Rest(u) = v
  BY <1>5, <1>7, <1>8, <1>9
<1> QED
  BY <1>10 DEF u, v, q

\* What strncpy() keeps of an alias is no longer than it, nor are the
\* arguments it keeps.
LEMMA Fits ==
  ASSUME NEW v \in Seq(Char)
  PROVE  /\ Fit(v) \in Seq(Char) /\ Len(Fit(v)) <= Len(v)
         /\ Len(Rest(Fit(v))) <= Len(Rest(v))
<1> DEFINE n == IF Len(v) <= BufSize THEN Len(v) ELSE BufSize
<1>1. Len(v) \in Nat /\ BufSize \in Nat /\ n \in Nat /\ n <= Len(v)
  BY AliasesAssumption
<1> HIDE DEF n
<1> DEFINE s == SubSeq(v, 1, n)
<1>2. s \in Seq(Char) /\ Len(s) = n /\ \A j \in 1..n : s[j] = v[j]
  BY <1>1
<1>3. Fit(v) = s
  BY DEF Fit, n
<1> HIDE DEF s
<1> DEFINE b == Break(v)
<1>4. b \in 1..(Len(v) + 1) /\ IsBreak(v, b) /\ Len(Rest(v)) = Len(v) - b + 1
  BY BreakIs, Pieces
<1>5. Break(s) \in 1..(n + 1) /\ Len(Rest(s)) = n - Break(s) + 1
  BY <1>2, BreakIs, Pieces
<1> HIDE DEF b
<1>6. CASE b <= n
  <2>1. b \in 1..(Len(s) + 1) /\ IsBreak(s, b)
    <3>1. b \in 1..n /\ b <= Len(v) /\ \A m \in 1..(b - 1) : m \in 1..n
      BY <1>1, <1>4, <1>6
    <3> QED
      BY <1>2, <1>4, <3>1 DEF IsBreak
  <2>2. Break(s) = b
    BY <1>2, <2>1, BreakIs, BreakUnique
  <2> QED
    BY <1>1, <1>2, <1>3, <1>4, <1>5, <2>2
<1>7. CASE ~(b <= n)
  <2> DEFINE c == n + 1
  <2>1. c \in 1..(Len(s) + 1) /\ ~(c <= Len(s))
    BY <1>1, <1>2
  <2>2. ASSUME NEW m \in 1..(c - 1) PROVE s[m] # Space
    <3>1. m \in 1..n /\ m \in 1..(b - 1)
      BY <1>1, <1>4, <1>7
    <3>2. v[m] # Space
      BY <1>4, <3>1 DEF IsBreak
    <3> QED
      BY <1>2, <3>1, <3>2
  <2> HIDE DEF c
  <2>3. IsBreak(s, c)
    BY <2>1, <2>2 DEF IsBreak
  <2>4. Break(s) \in 1..(Len(s) + 1) /\ IsBreak(s, Break(s))
    BY <1>2, BreakIs
  <2>5. Break(s) = n + 1
    BY <1>2, <2>1, <2>3, <2>4, BreakUnique DEF c
  <2> QED
    BY <1>1, <1>2, <1>3, <1>4, <1>5, <2>5
<1> QED
  BY <1>1, <1>4, <1>6, <1>7

\* Two sequences are equal if they agree at every place.
LEMMA SeqEqual ==
  ASSUME NEW a \in Seq(Char), NEW b \in Seq(Char),
         Len(a) = Len(b), \A j \in 1..Len(a) : a[j] = b[j]
  PROVE  a = b
OBVIOUS

LEMMA Associates ==
  ASSUME NEW s \in Seq(Char), NEW t \in Seq(Char), NEW u \in Seq(Char)
  PROVE  (s \o t) \o u = s \o (t \o u)
<1>1. Len(s) \in Nat /\ Len(t) \in Nat /\ Len(u) \in Nat
  OBVIOUS
<1>2. /\ Len((s \o t) \o u) = Len(s) + Len(t) + Len(u)
      /\ Len(s \o (t \o u)) = Len(s) + Len(t) + Len(u)
  BY <1>1
<1>3. ASSUME NEW j \in 1..(Len(s) + Len(t) + Len(u))
      PROVE  ((s \o t) \o u)[j] = (s \o (t \o u))[j]
  BY <1>1
<1>5. (s \o t) \o u \in Seq(Char) /\ s \o (t \o u) \in Seq(Char)
  OBVIOUS
<1> DEFINE a == (s \o t) \o u
           b == s \o (t \o u)
<1>6. /\ a \in Seq(Char) /\ b \in Seq(Char) /\ Len(a) = Len(b)
      /\ \A j \in 1..Len(a) : a[j] = b[j]
  BY <1>2, <1>3, <1>5
<1> HIDE DEF a, b
<1>7. a = b
  BY <1>6, SeqEqual
<1> USE DEF a, b
<1> QED
  BY <1>7

LEMMA EmptyFront ==
  ASSUME NEW t \in Seq(Char)
  PROVE  <<>> \o t = t
OBVIOUS

-----------------------------------------------------------------------------
(* The invariant, one lemma per action.                                    *)

LEMMA InitIInv == Init => IInv
<1> SUFFICES ASSUME Init PROVE IInv
  OBVIOUS
<1>1. TypeOK
  BY EmptyText, AliasesAssumption DEF Init, TypeOK
<1>2. Used = {}
  BY DEF Init, Used
<1> QED
  BY <1>1, <1>2 DEF Init, IInv, Released, Fresh

LEMMA AddAliasIInv ==
  ASSUME IInv, NEW k \in Name, NEW v \in Value, AddAlias(k, v)
  PROVE  IInv'
<1>1. DOMAIN table' = DOMAIN table \cup {k}
  BY DEF AddAlias
<1>2. \A x \in DOMAIN table' :
        table'[x] = IF x = k THEN [value |-> v, in_use |-> FALSE] ELSE table[x]
  BY <1>1 DEF AddAlias
<1>3. TypeOK'
  <2>1. table' \in [DOMAIN table' -> [value : Value, in_use : BOOLEAN]]
    BY <1>1, <1>2 DEF IInv, TypeOK, AddAlias
  <2> QED
    BY <1>1, <2>1 DEF IInv, TypeOK, AddAlias, locals
<1>4. Used' = {}
  BY <1>1, <1>2 DEF IInv, Released, Used, AddAlias
<1> QED
  BY <1>3, <1>4 DEF IInv, Released, Fresh, AddAlias

LEMMA RemoveAliasIInv ==
  ASSUME IInv, NEW k \in Name, RemoveAlias(k)
  PROVE  IInv'
<1>1. DOMAIN table' = DOMAIN table \ {k}
  BY DEF RemoveAlias
<1>2. \A x \in DOMAIN table' : table'[x] = table[x]
  BY <1>1 DEF RemoveAlias
<1>3. TypeOK'
  <2>1. table' \in [DOMAIN table' -> [value : Value, in_use : BOOLEAN]]
    BY <1>1, <1>2 DEF IInv, TypeOK, RemoveAlias
  <2> QED
    BY <1>1, <2>1 DEF IInv, TypeOK, RemoveAlias, locals
<1>4. Used' = {}
  BY <1>1, <1>2 DEF IInv, Released, Used, RemoveAlias
<1> QED
  BY <1>3, <1>4 DEF IInv, Released, Fresh, RemoveAlias

LEMMA ExpandAliasIInv ==
  ASSUME IInv, NEW c \in Command, ExpandAlias(c)
  PROVE  IInv'
<1>1. TypeOK'
  BY EmptyText, InValue DEF IInv, TypeOK, ExpandAlias
<1>2. Used' = {}
  BY DEF IInv, Released, Used, ExpandAlias
<1> QED
  BY <1>1, <1>2 DEF IInv, Released, Fresh, ExpandAlias

\* What a round of the loop does.
LEMMA LoopStep ==
  ASSUME IInv, Loop
  PROVE  /\ DOMAIN table' = DOMAIN table
         /\ cmd \in DOMAIN table \ Used
         /\ table[cmd].value \in Value
         /\ \A k \in DOMAIN table :
              /\ table'[k].value = table[k].value
              /\ table'[k].in_use = (k = cmd \/ table[k].in_use)
         /\ table' \in [DOMAIN table' -> [value : Value, in_use : BOOLEAN]]
         /\ Used' = Used \cup {cmd}
         /\ final' = Fit(table[cmd].value) \o Rest(final)
         /\ cmd' = First(table[cmd].value)
         /\ Rest(final) \in Seq(Char)
<1>1. /\ cmd \in DOMAIN table
      /\ table \in [DOMAIN table -> [value : Value, in_use : BOOLEAN]]
      /\ table' = [table EXCEPT ![cmd].in_use = TRUE]
  BY DEF IInv, TypeOK, Loop, Available
<1>2. /\ DOMAIN table' = DOMAIN table
      /\ table' \in [DOMAIN table' -> [value : Value, in_use : BOOLEAN]]
  BY <1>1
<1>3. \A k \in DOMAIN table :
        /\ table'[k].value = table[k].value
        /\ table'[k].in_use = (k = cmd \/ table[k].in_use)
  BY <1>1
<1>4. Used' = Used \cup {cmd}
  BY <1>1, <1>2, <1>3 DEF Used
<1>5. cmd \notin Used
  BY DEF Loop, Available, Used
<1>6. Rest(final) \in Seq(Char)
  BY Pieces DEF IInv, TypeOK
<1> QED
  BY <1>1, <1>2, <1>3, <1>4, <1>5, <1>6 DEF Loop

LEMMA LoopIInv ==
  ASSUME IInv, Loop
  PROVE  IInv'
<1>1. final' \in Seq(Char) /\ cmd' \in Seq(Char)
  <2>1. table[cmd].value \in Seq(Char) /\ cmd' \in Seq(Char)
    BY LoopStep, InValue
  <2>2. Fit(table[cmd].value) \in Seq(Char)
    BY <2>1, Fits
  <2>3. final' = Fit(table[cmd].value) \o Rest(final) /\ Rest(final) \in Seq(Char)
    BY LoopStep
  <2> QED
    BY <2>1, <2>2, <2>3, Joined
<1>2. TypeOK'
  BY <1>1, LoopStep DEF IInv, TypeOK, Loop
<1>3. Used' # {}
  BY LoopStep
<1> QED
  BY <1>2, <1>3 DEF IInv, Released, Fresh, Loop

\* What the end of expandAlias() does.
LEMMA DoneStep ==
  ASSUME IInv, Done
  PROVE  /\ DOMAIN table' = DOMAIN table
         /\ \A k \in DOMAIN table : table'[k].value = table[k].value
         /\ table' \in [DOMAIN table' -> [value : Value, in_use : BOOLEAN]]
         /\ Used' = {}
<1>1. /\ table \in [DOMAIN table -> [value : Value, in_use : BOOLEAN]]
      /\ table' = [k \in DOMAIN table |-> [table[k] EXCEPT !.in_use = FALSE]]
  BY DEF IInv, TypeOK, Done
<1>2. /\ DOMAIN table' = DOMAIN table
      /\ table' \in [DOMAIN table' -> [value : Value, in_use : BOOLEAN]]
      /\ \A k \in DOMAIN table :
           table'[k].value = table[k].value /\ ~table'[k].in_use
  BY <1>1
<1> QED
  BY <1>2 DEF Used

LEMMA DoneIInv ==
  ASSUME IInv, Done
  PROVE  IInv'
<1>1. final' \in Seq(Char)
  <2>1. Rest(command) \in Seq(Char)
    BY Pieces DEF IInv, TypeOK
  <2>2. final \o Rest(command) \in Seq(Char)
    BY <2>1, Joined DEF IInv, TypeOK
  <2> QED
    BY <2>2 DEF IInv, TypeOK, Done, Result
<1>2. TypeOK'
  BY <1>1, DoneStep DEF IInv, TypeOK, Done
<1> QED
  BY <1>2, DoneStep DEF IInv, Released, Fresh, Done

LEMMA OverflowIInv ==
  ASSUME IInv, Overflow
  PROVE  IInv'
<1>1. Used' = Used
  BY DEF Overflow, Used
<1> QED
  BY <1>1 DEF IInv, TypeOK, Released, Fresh, Overflow, locals

LEMMA NextIInv == IInv /\ [Next]_vars => IInv'
<1> SUFFICES ASSUME IInv, [Next]_vars PROVE IInv'
  OBVIOUS
<1>1. CASE UNCHANGED vars
  <2>1. Used' = Used
    BY <1>1 DEF vars, Used
  <2> QED
    BY <1>1, <2>1 DEF vars, locals, IInv, TypeOK, Released, Fresh
<1>2. CASE Next
  BY <1>2, AddAliasIInv, RemoveAliasIInv, ExpandAliasIInv, LoopIInv, DoneIInv,
     OverflowIInv DEF Next
<1> QED
  BY <1>1, <1>2

\* The variables keep their types.
THEOREM TypeCorrect == Spec => []TypeOK
<1>1. IInv => TypeOK
  BY DEF IInv
<1> QED
  BY InitIInv, NextIInv, <1>1, PTL DEF Spec

(* No alias is marked between two expansions, so that every expansion      *)
(* starts with all of them (src/src/helper.c:112).                         *)
THEOREM MarksReleased == Spec => []Released
<1>1. IInv => Released
  BY DEF IInv
<1> QED
  BY InitIInv, NextIInv, <1>1, PTL DEF Spec

-----------------------------------------------------------------------------
(* The buffers: how long the expansion is follows from the marks.           *)

\* The characters of an alias from its first space on.
Row(k) == {k} \X (Break(table[k].value)..Len(table[k].value))

\* The expansion is the first word of the alias taken last, or less, and
\* the arguments of some of those taken.
Measured ==
  /\ IsFiniteSet(DOMAIN table)
  /\ pc # "idle" =>
       /\ Len(command) <= BufSize
       /\ Len(Rest(final)) <= Cardinality(Arguments)
       /\ Used # {} => \E k \in Used : Len(final) <= Len(First(table[k].value))
                                                   + Cardinality(Arguments)
  /\ ShortFits

LEMMA RowSize ==
  ASSUME NEW k \in DOMAIN table, table[k].value \in Seq(Char)
  PROVE  IsFiniteSet(Row(k)) /\ Cardinality(Row(k)) = Len(Rest(table[k].value))
<1> DEFINE v == table[k].value
           A == {k}
           B == Break(v)..Len(v)
<1>1. IsFiniteSet(A) /\ Cardinality(A) = 1
  BY FS_Singleton
<1>2. /\ Break(v) \in 1..(Len(v) + 1) /\ Len(v) \in Nat
      /\ Len(Rest(v)) = Len(v) - Break(v) + 1 /\ Len(Rest(v)) \in Nat
  <2>1. v \in Seq(Char)
    OBVIOUS
  <2> HIDE DEF v
  <2>2. /\ Break(v) \in 1..(Len(v) + 1)
        /\ Len(Rest(v)) = Len(v) - Break(v) + 1 /\ Rest(v) \in Seq(Char)
    BY <2>1, BreakIs, Pieces
  <2> QED
    BY <2>1, <2>2
<1> HIDE DEF v
<1>3. IsFiniteSet(B) /\ Cardinality(B) = Len(Rest(v))
  <2> DEFINE b == Break(v)
             n == Len(v)
  <2>1. b \in 1..(n + 1) /\ n \in Nat /\ Len(Rest(v)) = n - b + 1
    BY <1>2
  <2> HIDE DEF b, n
  <2>2. IsFiniteSet(b..n) /\ Cardinality(b..n) = IF b > n THEN 0 ELSE n - b + 1
    <3>1. b \in Int /\ n \in Int
      BY <2>1
    <3> QED
      BY <3>1, FS_Interval, Zenon
  <2>3. Len(Rest(v)) = IF b > n THEN 0 ELSE n - b + 1
    BY <2>1
  <2> QED
    BY <2>2, <2>3 DEF b, n
<1>4. IsFiniteSet(A \X B) /\ Cardinality(A \X B) = Cardinality(A) * Cardinality(B)
  <2> HIDE DEF A, B
  <2> QED
    BY <1>1, <1>3, FS_Product, Zenon
<1>5. Cardinality(A \X B) = Len(Rest(v))
  <2> HIDE DEF A, B
  <2> QED
    BY <1>1, <1>2, <1>3, <1>4
<1> QED
  BY <1>4, <1>5 DEF v, Row

LEMMA ArgumentsFinite ==
  ASSUME TypeOK, IsFiniteSet(DOMAIN table)
  PROVE  IsFiniteSet(Used) /\ IsFiniteSet(Arguments) /\ Cardinality(Arguments) \in Nat
<1>1. IsFiniteSet(Used)
  BY FS_Subset DEF Used
<1>2. ASSUME NEW k \in Used PROVE IsFiniteSet(Row(k))
  BY RowSize, InValue DEF TypeOK, Used
<1> DEFINE All == {Row(k) : k \in Used}
<1>3. IsFiniteSet(All)
  <2> DEFINE f == [k \in Used |-> Row(k)]
  <2>1. f \in Surjection(Used, All)
    BY Zenon DEF Surjection
  <2> HIDE DEF f, All
  <2> QED
    BY <1>1, <2>1, FS_Surjection
<1>4. \A T \in All : IsFiniteSet(T)
  BY <1>2
<1>5. IsFiniteSet(UNION All)
  <2> HIDE DEF All
  <2> QED
    BY <1>3, <1>4, FS_UNION
<1> QED
  BY <1>1, <1>5, FS_CardinalityType DEF Arguments, Row

\* A round adds the arguments of the alias it marks.
LEMMA LoopMeasures ==
  ASSUME IInv, Measured, Loop
  PROVE  /\ Cardinality(Arguments) \in Nat
         /\ Cardinality(Arguments') =
              Cardinality(Arguments) + Len(Rest(table[cmd].value))
<1> DEFINE v == table[cmd].value
           New == Row(cmd)
<1>1. v \in Seq(Char)
  BY LoopStep, InValue
<1>2. Arguments' = Arguments \cup New
  <2>1. Arguments' = UNION {{k} \X (Break(table'[k].value)..Len(table'[k].value)) :
                              k \in Used \cup {cmd}}
    BY LoopStep DEF Arguments
  <2>2. \A k \in Used \cup {cmd} : table'[k].value = table[k].value
    BY LoopStep DEF Used
  <2>3. Arguments' = UNION {Row(k) : k \in Used \cup {cmd}}
    BY <2>1, <2>2 DEF Row
  <2>4. Arguments = UNION {Row(k) : k \in Used}
    BY DEF Arguments, Row
  <2> QED
    BY <2>3, <2>4
<1>3. Arguments \cap New = {}
  BY LoopStep DEF Arguments, Row
<1>4. IsFiniteSet(New) /\ Cardinality(New) = Len(Rest(v))
  BY <1>1, LoopStep, RowSize
<1>5. IsFiniteSet(Arguments) /\ Cardinality(Arguments) \in Nat
  BY ArgumentsFinite DEF IInv, Measured
<1>6. Len(Rest(v)) \in Nat
  BY <1>4, FS_CardinalityType
<1> HIDE DEF New, v
<1>7. Cardinality(Arguments \cap New) = 0
  BY <1>3, FS_EmptySet
<1>8. Cardinality(Arguments \cup New) =
        Cardinality(Arguments) + Cardinality(New) - Cardinality(Arguments \cap New)
  BY <1>4, <1>5, FS_Union, Zenon
<1>9. Cardinality(Arguments') = Cardinality(Arguments) + Len(Rest(v))
  BY <1>2, <1>4, <1>5, <1>6, <1>7, <1>8
<1> QED
  BY <1>5, <1>9 DEF v

\* What the expansion may be like after a round.
LEMMA LoopLengths ==
  ASSUME IInv, Measured, Loop
  PROVE  /\ Len(Rest(final')) <= Cardinality(Arguments')
         /\ Len(final') <= Len(First(table'[cmd].value)) + Cardinality(Arguments')
<1> DEFINE v == table[cmd].value
           s == Fit(v)
           r == Rest(final)
           C == Cardinality(Arguments)
<1>1. /\ v \in Seq(Char) /\ final' = s \o r /\ r \in Seq(Char)
      /\ table'[cmd].value = v
  BY LoopStep, InValue
<1>2. /\ s \in Seq(Char) /\ Len(s) <= Len(v) /\ Len(Rest(s)) <= Len(Rest(v))
  BY <1>1, Fits
<1>3. /\ C \in Nat /\ Cardinality(Arguments') = C + Len(Rest(v))
  BY LoopMeasures
<1>4. Len(r) <= C
  BY DEF Measured, Loop
<1>5. r = <<>> \/ r[1] = Space
  BY Pieces DEF IInv, TypeOK
<1> HIDE DEF v, s, r, C
<1>6. Rest(s \o r) = Rest(s) \o r /\ Rest(s) \in Seq(Char)
  BY <1>1, <1>2, <1>5, RestOfAppended, Pieces
<1>7. /\ Len(s \o r) = Len(s) + Len(r)
      /\ Len(Rest(s) \o r) = Len(Rest(s)) + Len(r)
  BY <1>1, <1>2, <1>6, Joined
<1>8. Len(First(v)) + Len(Rest(v)) = Len(v)
  <2>1. /\ Len(First(v)) = Break(v) - 1 /\ Len(Rest(v)) = Len(v) - Break(v) + 1
        /\ Break(v) \in 1..(Len(v) + 1) /\ Len(v) \in Nat
    BY <1>1, Pieces, BreakIs
  <2> QED
    BY <2>1
<1>9. /\ Len(v) \in Nat /\ Len(s) \in Nat /\ Len(r) \in Nat
      /\ Len(Rest(v)) \in Nat /\ Len(Rest(s)) \in Nat /\ Len(First(v)) \in Nat
  BY <1>1, <1>2, <1>6, Pieces
<1>10. Len(Rest(s \o r)) <= C + Len(Rest(v))
  BY <1>2, <1>3, <1>4, <1>6, <1>7, <1>9
<1>11. Len(s \o r) <= Len(First(v)) + (C + Len(Rest(v)))
  BY <1>2, <1>3, <1>4, <1>7, <1>8, <1>9
<1> QED
  BY <1>1, <1>3, <1>10, <1>11

LEMMA InitMeasured == Init => Measured
<1> SUFFICES ASSUME Init PROVE Measured
  OBVIOUS
<1> QED
  BY FS_EmptySet DEF Init, Measured, ShortFits

LEMMA NextMeasured == IInv /\ IInv' /\ Measured /\ [Next]_vars => Measured'
<1> SUFFICES ASSUME IInv, IInv', Measured, [Next]_vars PROVE Measured'
  OBVIOUS
<1>1. CASE UNCHANGED vars
  BY <1>1 DEF vars, locals, Measured, ShortFits, Arguments, Used
<1>2. ASSUME NEW k \in Name, NEW v \in Value, AddAlias(k, v) PROVE Measured'
  BY <1>2, FS_AddElement DEF AddAlias, Measured, ShortFits
<1>3. ASSUME NEW k \in Name, RemoveAlias(k) PROVE Measured'
  BY <1>3, FS_Subset DEF RemoveAlias, Measured, ShortFits
<1>4. ASSUME NEW c \in Command, ExpandAlias(c) PROVE Measured'
  <2>1. Len(c) <= BufSize
    BY AliasesAssumption
  <2>2. Used' = {}
    BY <1>4 DEF IInv, Released, Used, ExpandAlias
  <2>3. Cardinality(Arguments') = 0
    <3>1. Arguments' = {}
      BY <2>2 DEF Arguments
    <3> QED
      BY <3>1, FS_EmptySet
  <2>4. Len(Rest(final')) = 0
    <3>1. Len(Rest(Empty)) = 0
      BY EmptyText
    <3> QED
      BY <1>4, <3>1 DEF ExpandAlias
  <2> QED
    BY <1>4, <2>1, <2>2, <2>3, <2>4 DEF ExpandAlias, Measured, ShortFits
<1>5. CASE Loop
  <2>1. /\ IsFiniteSet(DOMAIN table') /\ command' = command
        /\ pc' = IF Len(final') > BufSize THEN "overflow" ELSE "loop"
        /\ Len(command) <= BufSize /\ cmd \in Used'
    BY <1>5, LoopStep DEF Loop, Measured
  <2>2. /\ Len(Rest(final')) <= Cardinality(Arguments')
        /\ Len(final') <= Len(First(table'[cmd].value)) + Cardinality(Arguments')
    BY <1>5, LoopLengths
  <2>3. ShortFits'
    <3>1. /\ Cardinality(Arguments') \in Nat /\ BufSize \in Nat
          /\ Len(Rest(command)) \in Nat /\ Len(final') \in Nat
          /\ Len(First(table'[cmd].value)) \in Nat
      <4>1. Cardinality(Arguments') \in Nat
        <5>1. Rest(table[cmd].value) \in Seq(Char)
          BY <1>5, LoopStep, InValue
        <5> QED
          BY <1>5, <5>1, LoopMeasures
      <4>2. table'[cmd].value \in Seq(Char)
        BY <1>5, LoopStep, InValue
      <4>3. Rest(command) \in Seq(Char) /\ First(table'[cmd].value) \in Seq(Char)
        BY <4>2, Pieces DEF IInv, TypeOK
      <4>4. final' \in Seq(Char)
        BY DEF IInv, TypeOK
      <4> QED
        BY <4>1, <4>3, <4>4, AliasesAssumption
    <3>2. CASE Len(final') > BufSize
      <4>1. Len(First(table'[cmd].value)) + Cardinality(Arguments')
              + Len(Rest(command')) > BufSize
        BY <2>1, <2>2, <3>1, <3>2
      <4> QED
        BY <2>1, <4>1 DEF ShortFits
    <3>3. CASE ~(Len(final') > BufSize)
      BY <2>1, <3>3 DEF ShortFits
    <3> QED
      BY <3>2, <3>3
  <2> QED
    BY <2>1, <2>2, <2>3 DEF Measured
<1>6. CASE Done
  BY <1>6, DoneStep DEF Done, Measured, ShortFits
<1>7. CASE Overflow
  <2>1. /\ Arguments' = Arguments /\ command' = command /\ final' = final
        /\ table' = table /\ Used' = Used /\ pc = "loop"
    BY <1>7 DEF Overflow, locals, Arguments, Used
  <2>2. /\ Len(Result) > BufSize /\ Len(command) <= BufSize
        /\ BufSize \in Nat /\ Len(command) \in Nat
    BY <1>7, <2>1, AliasesAssumption DEF Overflow, Measured, IInv, TypeOK
  <2>3. final # Empty
    BY <2>2 DEF Result
  <2>4. Used # {}
    BY <2>1, <2>3 DEF IInv, Fresh
  <2>5. PICK k \in Used :
          Len(final) <= Len(First(table[k].value)) + Cardinality(Arguments)
    BY <2>1, <2>4 DEF Measured
  <2>6. Len(Result) = Len(final) + Len(Rest(command))
    <3>1. final \in Seq(Char) /\ Rest(command) \in Seq(Char)
      BY Pieces DEF IInv, TypeOK
    <3> QED
      BY <2>3, <3>1, Joined DEF Result
  <2>7. /\ Len(First(table[k].value)) \in Nat /\ Cardinality(Arguments) \in Nat
        /\ Len(final) \in Nat /\ Len(Rest(command)) \in Nat
    <3>1. table[k].value \in Seq(Char)
      BY InValue DEF IInv, TypeOK, Used
    <3>2. First(table[k].value) \in Seq(Char) /\ Rest(command) \in Seq(Char)
      BY <3>1, Pieces DEF IInv, TypeOK
    <3>3. Cardinality(Arguments) \in Nat
      BY ArgumentsFinite DEF IInv, Measured
    <3> QED
      BY <3>2, <3>3 DEF IInv, TypeOK
  <2>8. Len(First(table[k].value)) + Cardinality(Arguments)
          + Len(Rest(command)) > BufSize
    BY <2>2, <2>5, <2>6, <2>7
  <2> QED
    BY <2>1, <2>8 DEF Measured, ShortFits
<1> QED
  BY <1>1, <1>2, <1>3, <1>4, <1>5, <1>6, <1>7 DEF Next

(* A buffer overflows only if the first word of an alias used and the      *)
(* arguments of the command and of these aliases, each counted once, are   *)
(* more characters together than it holds (src/src/helper.c:87-91 and      *)
(* 104-111).                                                               *)
THEOREM ArgumentsFit == Spec => []ShortFits
<1>1. Measured => ShortFits
  BY DEF Measured
<1> QED
  BY InitIInv, NextIInv, InitMeasured, NextMeasured, <1>1, PTL DEF Spec

-----------------------------------------------------------------------------
(* The length of an expansion.                                             *)

\* The aliases that may still be taken.
Left == DOMAIN table \ Used

LEMMA LoopShrinks ==
  ASSUME IInv, Measured, Loop
  PROVE  /\ Cardinality(Left) \in Nat /\ Cardinality(Left') \in Nat
         /\ Cardinality(Left') < Cardinality(Left)
<1>1. Left' = Left \ {cmd} /\ cmd \in Left
  BY LoopStep DEF Left
<1>2. IsFiniteSet(Left)
  BY FS_Subset DEF Left, Measured
<1>3. Cardinality(Left') = Cardinality(Left) - 1
  BY <1>1, <1>2, FS_RemoveElement
<1>4. Cardinality(Left) \in Nat
  BY <1>2, FS_CardinalityType
<1>5. Cardinality(Left') \in Nat
  BY <1>1, <1>2, FS_Subset, FS_CardinalityType
<1> QED
  BY <1>3, <1>4, <1>5

(* Every step of expandAlias() ends it or uses up one of finitely many     *)
(* aliases, so it is over after as many rounds as there are aliases, even  *)
(* if they name each other (src/src/helper.c:84, src/src/alias.c:66-69).   *)
THEOREM UsesUp ==
  Spec => [][pc = "loop" =>
               \/ pc' # "loop"
               \/ /\ Cardinality(Left) \in Nat /\ Cardinality(Left') \in Nat
                  /\ Cardinality(Left') < Cardinality(Left)]_vars
<1> DEFINE Shrinks == /\ Cardinality(Left) \in Nat /\ Cardinality(Left') \in Nat
                      /\ Cardinality(Left') < Cardinality(Left)
           Step == [pc = "loop" => pc' # "loop" \/ Shrinks]_vars
<1>1. IInv /\ Measured /\ [Next]_vars => Step
  <2> SUFFICES ASSUME IInv, Measured, Next, pc = "loop"
               PROVE  pc' # "loop" \/ Shrinks
    OBVIOUS
  <2>1. CASE Loop
    BY <2>1, LoopShrinks
  <2>2. CASE Done \/ Overflow
    BY <2>2 DEF Done, Overflow
  <2>3. Loop \/ Done \/ Overflow
    BY DEF Next, AddAlias, RemoveAlias, ExpandAlias
  <2> QED
    BY <2>1, <2>2, <2>3
<1> QED
  BY InitIInv, NextIInv, InitMeasured, NextMeasured, <1>1, PTL DEF Spec

-----------------------------------------------------------------------------
(* The refinement.                                                         *)

\* The mapping of Aliases!R, by name.
alias == [k \in DOMAIN table |-> table[k].value]
text  == IF pc = "idle" THEN final
         ELSE IF Used = {} THEN command ELSE final \o Rest(command)

\* Rewriting means the same by the first word and the rest as Aliases.
LEMMA SameTexts == (\A s : R!First(s) = First(s) /\ R!Rest(s) = Rest(s))
  BY DEF R!First, R!Rest, R!Break, R!IsBreak, First, Rest, Break, IsBreak

LEMMA Stutters ==
  ASSUME UNCHANGED <<pc, table, locals>>
  PROVE  UNCHANGED R!rewritingVars
<1>1. Used' = Used
  BY DEF Used
<1> QED
  BY <1>1 DEF R!rewritingVars, locals

LEMMA RestOfText ==
  ASSUME IInv, pc = "loop"
  PROVE  Rest(text) = Rest(final) \o Rest(command)
<1>1. /\ Rest(command) \in Seq(Char) /\ final \in Seq(Char)
      /\ Rest(command) = <<>> \/ Rest(command)[1] = Space
  BY Pieces DEF IInv, TypeOK
<1>2. CASE Used = {}
  <2>1. text = command /\ Rest(final) = <<>>
    BY <1>2, EmptyText DEF IInv, Fresh, text
  <2> QED
    BY <1>1, <2>1, EmptyFront
<1>3. CASE Used # {}
  BY <1>1, <1>3, RestOfAppended DEF text
<1> QED
  BY <1>2, <1>3

LEMMA LoopReplaces ==
  ASSUME IInv, Loop
  PROVE  R!Replace
<1> DEFINE v == table[cmd].value
           s == Fit(v)
           r == Rest(final)
           c == Rest(command)
<1>1. pc = "loop" /\ pc' # "idle" /\ command' = command
  BY DEF Loop
<1>2. alias' = alias /\ alias[cmd] = v /\ cmd \in DOMAIN alias \ Used
  BY LoopStep DEF alias
<1>3. text' = s \o Rest(text)
  <2>1. text' = (s \o r) \o c
    BY <1>1, LoopStep DEF text
  <2>2. s \in Seq(Char) /\ r \in Seq(Char) /\ c \in Seq(Char)
    BY LoopStep, InValue, Fits, Pieces DEF IInv, TypeOK
  <2>3. Rest(text) = r \o c
    BY <1>1, RestOfText
  <2> HIDE DEF s, r, c
  <2> QED
    BY <2>1, <2>2, <2>3, Associates
<1>4. cmd' = First(v) /\ Used' = Used \cup {cmd}
  BY LoopStep
<1>5. R!Cut(v) = s
  BY DEF R!Cut, Fit
<1> HIDE DEF v, s
<1> QED
  BY <1>1, <1>2, <1>3, <1>4, <1>5, SameTexts
     DEF R!Replace, R!Replaceable, alias, text

LEMMA DoneFinishes ==
  ASSUME IInv, Done
  PROVE  R!Finish
<1>1. pc = "loop" /\ pc' = "idle" /\ command' = command /\ cmd' = cmd
  BY DEF Done
<1>2. alias' = alias /\ ~(cmd \in DOMAIN alias \ Used)
  BY DoneStep DEF alias, Done, Available, Used
<1>3. text' = IF text = Rest(command) THEN command ELSE text
  <2>1. text' = IF final = Empty THEN command ELSE final \o Rest(command)
    BY <1>1 DEF text, Done, Result
  <2>2. CASE Used = {}
    BY <1>1, <2>1, <2>2 DEF IInv, Fresh, text
  <2>3. CASE Used # {}
    <3>1. text = final \o Rest(command)
      BY <1>1, <2>3 DEF text
    <3>2. final \in Seq(Char) /\ Rest(command) \in Seq(Char)
      BY Pieces DEF IInv, TypeOK
    <3>3. (final \o Rest(command) = Rest(command)) <=> (final = Empty)
      <4>1. Len(final \o Rest(command)) = Len(final) + Len(Rest(command))
        BY <3>2, Joined
      <4>2. final # Empty => final \o Rest(command) # Rest(command)
        BY <3>2, <4>1 DEF Empty
      <4>3. final = Empty => final \o Rest(command) = Rest(command)
        BY <3>2, EmptyFront DEF Empty
      <4> QED
        BY <4>2, <4>3
    <3> QED
      BY <2>1, <3>1, <3>3
  <2> QED
    BY <2>2, <2>3
<1>4. Used' = {}
  BY DoneStep
<1> QED
  BY <1>1, <1>2, <1>3, <1>4, SameTexts
     DEF R!Finish, R!Replaceable, alias, text

LEMMA StepRefines ==
  IInv /\ IInv' /\ [Next]_vars => [R!RewritingNext]_(R!rewritingVars)
<1> SUFFICES ASSUME IInv, IInv', [Next]_vars
             PROVE  [R!RewritingNext]_(R!rewritingVars)
  OBVIOUS
<1>1. CASE UNCHANGED vars
  BY <1>1, Stutters DEF vars
<1>2. ASSUME NEW k \in Name, NEW v \in Value, AddAlias(k, v)
      PROVE  R!Define(k, v)
  <2>1. /\ pc = "idle" /\ pc' = "idle" /\ command' = command /\ final' = final
        /\ cmd' = cmd
    BY <1>2 DEF AddAlias, locals
  <2>2. Used = {} /\ Used' = {}
    BY <2>1 DEF IInv, Released
  <2>3. /\ DOMAIN table' = DOMAIN table \cup {k}
        /\ \A x \in DOMAIN table' :
             table'[x].value = IF x = k THEN v ELSE table[x].value
    BY <1>2 DEF AddAlias
  <2>4. alias' = [x \in DOMAIN alias \cup {k} |-> IF x = k THEN v ELSE alias[x]]
    BY <2>3 DEF alias
  <2> QED
    BY <2>1, <2>2, <2>4 DEF R!Define, alias
<1>3. ASSUME NEW k \in Name, RemoveAlias(k)
      PROVE  R!Forget(k)
  <2>1. /\ pc = "idle" /\ pc' = "idle" /\ command' = command /\ final' = final
        /\ cmd' = cmd
    BY <1>3 DEF RemoveAlias, locals
  <2>2. Used = {} /\ Used' = {}
    BY <2>1 DEF IInv, Released
  <2>3. alias' = [x \in DOMAIN alias \ {k} |-> alias[x]]
    BY <1>3 DEF RemoveAlias, alias
  <2> QED
    BY <2>1, <2>2, <2>3 DEF R!Forget, alias
<1>4. ASSUME NEW c \in Command, ExpandAlias(c)
      PROVE  R!Begin(c)
  <2>1. /\ pc = "idle" /\ pc' = "loop" /\ command' = c /\ table' = table
        /\ cmd' = First(c)
    BY <1>4 DEF ExpandAlias
  <2>2. Used = {} /\ Used' = {}
    BY <2>1 DEF IInv, Released, Used
  <2> QED
    BY <2>1, <2>2, SameTexts DEF R!Begin
<1>5. CASE Loop
  BY <1>5, LoopReplaces DEF R!RewritingNext
<1>6. CASE Done
  BY <1>6, DoneFinishes DEF R!RewritingNext
<1>7. CASE Overflow
  <2>1. /\ pc = "loop" /\ pc' = "overflow"
        /\ table' = table /\ final' = final /\ command' = command
        /\ cmd' = cmd
    BY <1>7 DEF Overflow, locals
  <2>2. Used' = Used
    BY <2>1 DEF Used
  <2> QED
    BY <2>1, <2>2 DEF R!rewritingVars
<1> QED
  BY <1>1, <1>2, <1>3, <1>4, <1>5, <1>6, <1>7 DEF Next, R!RewritingNext

(* expandAlias() is the rewriting of the first word, every alias once, and *)
(* nothing else ever changes the text (src/src/helper.c:71-114).           *)
THEOREM Refines == Spec => IsRewriting
<1>1. Init => R!RewritingInit
  <2> SUFFICES ASSUME Init PROVE R!RewritingInit
    OBVIOUS
  <2>1. Used = {} /\ alias = [k \in {} |-> <<>>]
    BY DEF Init, Used, alias
  <2> QED
    BY <2>1 DEF Init, Empty, R!RewritingInit, R!NoAliases, alias
<1> QED
  BY <1>1, InitIInv, NextIInv, StepRefines, PTL
     DEF Spec, IsRewriting, R!RewritingSpec
=============================================================================
