---------------------------- MODULE StringProofs ----------------------------
(***************************************************************************)
(* Theorems about Strings, for strings of any bytes and any length: how    *)
(* the comparisons decide, that equal strings have one hash, and that the  *)
(* comparisons are orders.                                                 *)
(***************************************************************************)
EXTENDS Strings, FiniteSetTheorems, WellFoundedInduction, TLAPS

\* What is compared: a byte, or what tolower() makes of one, never NUL.
Char == Int \ {0}

TypeOK == string1 \in Seq(Bytes) /\ string2 \in Seq(Bytes)

-----------------------------------------------------------------------------
(* A set of naturals has a least element.                                  *)

LEMMA LeastExists ==
  ASSUME NEW S \in SUBSET Nat, S # {}
  PROVE  \E c \in S : \A d \in S : c <= d
<1> DEFINE T == {0..m : m \in S}
<1>1. T \subseteq FiniteSubsetsOf(Nat) /\ T # {}
  <2>1. \A m \in S : 0..m \in SUBSET Nat /\ IsFiniteSet(0..m)
    BY FS_Interval
  <2> QED
    BY <2>1 DEF FiniteSubsetsOf
<1>2. IsWellFoundedOn(StrictSubsetOrdering(Nat), FiniteSubsetsOf(Nat))
  BY FS_StrictSubsetOrderingWellFounded
<1> HIDE DEF T
<1>3. \E X \in T : \A Y \in T : <<Y, X>> \notin StrictSubsetOrdering(Nat)
  BY <1>1, <1>2, WFMin
<1>4. PICK c \in S : \A d \in S : <<0..d, 0..c>> \notin StrictSubsetOrdering(Nat)
  BY <1>3 DEF T
<1>5. ASSUME NEW d \in S, d < c PROVE FALSE
  <2>1. 0..d \subseteq 0..c /\ c \in 0..c /\ c \notin 0..d
    BY <1>5
  <2>2. <<0..d, 0..c>> \in StrictSubsetOrdering(Nat)
    BY <2>1 DEF StrictSubsetOrdering
  <2> QED
    BY <1>4, <2>2
<1> QED
  BY <1>5

-----------------------------------------------------------------------------
(* The walk along two strings.                                             *)

Places(s, t) == 1..(Len(s) + Len(t) + 1)

\* Where it stops.
Stops(s, t) == {j \in Places(s, t) : At(s, j) # At(t, j) \/ At(s, j) = 0}

IsFirst(m, s, t) == m \in Stops(s, t) /\ \A j \in Stops(s, t) : m <= j

LEMMA AtType ==
  ASSUME NEW s \in Seq(Char), NEW j \in Nat \ {0}
  PROVE  At(s, j) \in Int /\ (At(s, j) = 0 <=> j > Len(s))
<1>1. ASSUME j <= Len(s) PROVE s[j] \in Char
  BY <1>1
<1>2. Len(s) \in Nat
  OBVIOUS
<1>3. Char \subseteq Int /\ 0 \notin Char
  BY DEF Char
<1>4. CASE j > Len(s)
  BY <1>2, <1>4 DEF At
<1>5. CASE j <= Len(s)
  <2>1. At(s, j) = s[j]
    BY <1>2, <1>5 DEF At
  <2>2. s[j] \in Int /\ s[j] # 0
    BY <1>1, <1>3, <1>5, Zenon
  <2>3. ~(j > Len(s))
    BY <1>2, <1>5
  <2> QED
    BY <2>1, <2>2, <2>3, Zenon
<1> QED
  BY <1>2, <1>4, <1>5

LEMMA LastStops ==
  ASSUME NEW s \in Seq(Char), NEW t \in Seq(Char)
  PROVE  /\ Len(s) + Len(t) + 1 \in Stops(s, t)
         /\ Stops(s, t) \in SUBSET Nat
<1>1. Len(s) \in Nat /\ Len(t) \in Nat
  OBVIOUS
<1>2. At(s, Len(s) + Len(t) + 1) = 0
  BY <1>1, AtType
<1> QED
  BY <1>1, <1>2 DEF Stops, Places

LEMMA FirstExists ==
  ASSUME NEW s \in Seq(Char), NEW t \in Seq(Char)
  PROVE  \E m : IsFirst(m, s, t)
BY LastStops, LeastExists DEF IsFirst

LEMMA WalkEnds ==
  ASSUME NEW s \in Seq(Char), NEW t \in Seq(Char), NEW m, IsFirst(m, s, t)
  PROVE  Walk(s, t) = Sign(At(s, m) - At(t, m))
<1> DEFINE n == Len(s) + Len(t) + 1
           walk[j \in 1..n] ==
             LET c1 == At(s, j)
                 c2 == At(t, j)
             IN  IF c1 # c2 THEN Sign(c1 - c2)
                 ELSE IF c1 = 0 THEN 0 ELSE walk[j + 1]
           Round(w) ==
             [j \in 1..n |->
                LET c1 == At(s, j)
                    c2 == At(t, j)
                IN  IF c1 # c2 THEN Sign(c1 - c2)
                    ELSE IF c1 = 0 THEN 0 ELSE w[j + 1]]
<1>0. /\ n \in Nat /\ Stops(s, t) \in SUBSET (1..n) /\ n \in Stops(s, t)
      /\ \A j \in 1..n : At(s, j) \in Int /\ At(t, j) \in Int
  <2>1. Len(s) \in Nat /\ Len(t) \in Nat
    OBVIOUS
  <2> HIDE DEF walk, Round
  <2>3. n \in Nat /\ Stops(s, t) \in SUBSET (1..n) /\ n \in Stops(s, t)
    BY <2>1, LastStops DEF Stops, Places
  <2>4. ASSUME NEW j \in 1..n PROVE At(s, j) \in Int /\ At(t, j) \in Int
    <3>1. j \in Nat \ {0}
      OBVIOUS
    <3> QED
      BY <3>1, AtType
  <2> QED
    BY <2>3, <2>4
<1>1. \E w : w = Round(w)
  <2> DEFINE Ahead(j) == CHOOSE k \in Stops(s, t) :
                           k >= j /\ \A l \in Stops(s, t) : l >= j => k <= l
             g == [j \in 1..n |-> Sign(At(s, Ahead(j)) - At(t, Ahead(j)))]
  <2>1. ASSUME NEW j \in 1..n
        PROVE  /\ Ahead(j) \in Stops(s, t) /\ Ahead(j) >= j
               /\ \A l \in Stops(s, t) : l >= j => Ahead(j) <= l
    <3> DEFINE L == {l \in Stops(s, t) : l >= j}
    <3>1. L \in SUBSET Nat /\ L # {}
      BY <1>0
    <3>2. \E k \in L : \A l \in L : k <= l
      <4> HIDE DEF L
      <4> QED
        BY <3>1, LeastExists
    <3> QED
      BY <3>2
  <2>2. ASSUME NEW j \in 1..n
        PROVE  g[j] = IF At(s, j) # At(t, j) THEN Sign(At(s, j) - At(t, j))
                      ELSE IF At(s, j) = 0 THEN 0 ELSE g[j + 1]
    <3>1. CASE j \in Stops(s, t)
      <4>1. Ahead(j) = j
        <5> HIDE DEF Ahead
        <5> QED
          BY <1>0, <2>1, <3>1
      <4>2. g[j] = Sign(At(s, j) - At(t, j))
        BY <4>1
      <4>3. Sign(0) = 0
        BY DEF Sign
      <4> HIDE DEF g
      <4> QED
        BY <1>0, <3>1, <4>2, <4>3 DEF Stops
    <3>2. CASE j \notin Stops(s, t)
      <4>1. At(s, j) = At(t, j) /\ At(s, j) # 0
        BY <3>2 DEF Stops, Places
      <4>2. j + 1 \in 1..n
        BY <1>0, <3>2
      <4>3. \A k \in Stops(s, t) : k >= j <=> k >= j + 1
        BY <1>0, <3>2
      <4>4. Ahead(j) = Ahead(j + 1)
        BY <4>3
      <4>5. g[j] = g[j + 1]
        <5>1. \A i \in 1..n : g[i] = Sign(At(s, Ahead(i)) - At(t, Ahead(i)))
          OBVIOUS
        <5> HIDE DEF g, Ahead
        <5> QED
          BY <4>2, <4>4, <5>1
      <4> HIDE DEF g
      <4> QED
        BY <4>1, <4>5
    <3> QED
      BY <3>1, <3>2
  <2>3. g = Round(g)
    <3>1. g = [j \in 1..n |-> g[j]]
      OBVIOUS
    <3> HIDE DEF g
    <3> QED
      BY <2>2, <3>1
  <2> QED
    BY <2>3
<1>2. walk = Round(walk)
  BY <1>1
<1>3. Walk(s, t) = walk[1]
  BY DEF Walk
<1>4. \A j \in 1..n : walk[j] = IF At(s, j) # At(t, j) THEN Sign(At(s, j) - At(t, j))
                                ELSE IF At(s, j) = 0 THEN 0 ELSE walk[j + 1]
  <2> HIDE DEF walk
  <2> QED
    BY <1>2
<1> HIDE DEF walk
<1> DEFINE v == Sign(At(s, m) - At(t, m))
           Wrong == {d \in 0..(m - 1) : walk[m - d] # v}
<1>5. m \in 1..n /\ \A j \in 1..(m - 1) : j \notin Stops(s, t)
  BY <1>0 DEF IsFirst
<1>6. walk[m] = v
  <2>1. Sign(0) = 0
    BY DEF Sign
  <2> QED
    BY <1>0, <1>4, <1>5, <2>1 DEF IsFirst, Stops
<1>7. ASSUME NEW d \in 0..(m - 1), d # 0, walk[m - (d - 1)] = v
      PROVE  walk[m - d] = v
  <2>1. m - d \in 1..(m - 1) /\ m - d \in 1..n /\ m - (d - 1) = (m - d) + 1
    BY <1>0, <1>5, <1>7
  <2>2. At(s, m - d) = At(t, m - d) /\ At(s, m - d) # 0
    BY <1>5, <2>1 DEF Stops, Places
  <2> QED
    BY <1>4, <1>7, <2>1, <2>2
<1>8. Wrong = {}
  <2> SUFFICES ASSUME Wrong # {} PROVE FALSE
    OBVIOUS
  <2>1. Wrong \in SUBSET Nat
    BY <1>5
  <2>2. PICK d \in Wrong : \A e \in Wrong : d <= e
    <3> HIDE DEF Wrong
    <3> QED
      BY <2>1, LeastExists
  <2>3. d \in 0..(m - 1) /\ walk[m - d] # v
    OBVIOUS
  <2>4. d # 0
    BY <1>5, <1>6, <2>3
  <2>5. d - 1 \in 0..(m - 1) /\ d - 1 \notin Wrong
    BY <1>5, <2>2, <2>3, <2>4
  <2> QED
    BY <1>7, <2>3, <2>4, <2>5
<1>9. m - 1 \in 0..(m - 1) /\ m - (m - 1) = 1
  BY <1>5
<1> QED
  BY <1>3, <1>8, <1>9

\* What the sign of the walk says.
LEMMA WalkZero ==
  ASSUME NEW s \in Seq(Char), NEW t \in Seq(Char)
  PROVE  Walk(s, t) = 0 <=> s = t
<1> PICK m : IsFirst(m, s, t)
  BY FirstExists
<1>1. /\ Len(s) \in Nat /\ Len(t) \in Nat /\ m \in Places(s, t)
      /\ \A j \in 1..(m - 1) : j \in Places(s, t) \ Stops(s, t)
  BY DEF IsFirst, Stops, Places
<1>2. At(s, m) \in Int /\ At(t, m) \in Int
  <2>1. m \in Nat \ {0}
    BY <1>1 DEF Places
  <2> QED
    BY <2>1, AtType
<1>3. Walk(s, t) = 0 <=> At(s, m) = At(t, m)
  BY <1>2, WalkEnds DEF Sign
<1>4. ASSUME At(s, m) = At(t, m) PROVE s = t
  <2>1. At(s, m) = 0 /\ At(t, m) = 0 /\ m \in Nat \ {0}
    BY <1>1, <1>4 DEF IsFirst, Stops, Places
  <2>2. Len(s) < m /\ Len(t) < m
    BY <2>1, AtType, <1>1
  <2>3. ASSUME NEW j \in 1..(m - 1)
        PROVE  At(s, j) = At(t, j) /\ j <= Len(s) /\ j <= Len(t)
    <3>1. At(s, j) = At(t, j) /\ At(s, j) # 0
      BY <1>1 DEF Stops
    <3>2. j \in Nat \ {0}
      BY <2>1
    <3> QED
      BY <1>1, <3>1, <3>2, AtType
  <2>4. Len(s) = m - 1 /\ Len(t) = m - 1
    <3>1. CASE m = 1
      BY <1>1, <2>2, <3>1
    <3>2. CASE m # 1
      <4>1. m - 1 \in 1..(m - 1)
        BY <2>1, <3>2
      <4> QED
        BY <1>1, <2>1, <2>2, <2>3, <4>1
    <3> QED
      BY <3>1, <3>2
  <2>5. \A j \in 1..(m - 1) : s[j] = t[j]
    BY <1>1, <2>3 DEF At
  <2> QED
    BY <2>4, <2>5
<1> QED
  BY <1>3, <1>4

LEMMA WalkBefore ==
  ASSUME NEW s \in Seq(Char), NEW t \in Seq(Char)
  PROVE  Walk(s, t) = -1 <=> Before(s, t)
<1> PICK m : IsFirst(m, s, t)
  BY FirstExists
<1>1. /\ Len(s) \in Nat /\ Len(t) \in Nat /\ m \in Places(s, t)
      /\ \A j \in 1..(m - 1) : At(s, j) = At(t, j) /\ At(s, j) # 0
  BY DEF IsFirst, Stops, Places
<1>2. \A j \in 1..(Len(s) + 1) : At(s, j) \in Int /\ At(t, j) \in Int
  <2>1. \A j \in 1..(Len(s) + 1) : j \in Nat \ {0}
    BY <1>1
  <2> QED
    BY <2>1, AtType
<1>3. m \in 1..(Len(s) + 1)
  <2>1. At(s, Len(s) + 1) = 0
    BY <1>1 DEF At
  <2>2. Len(s) + 1 \in Stops(s, t)
    BY <1>1, <2>1 DEF Stops, Places
  <2> QED
    BY <1>1, <2>2 DEF IsFirst, Places
<1>4. Walk(s, t) = -1 <=> At(s, m) < At(t, m)
  BY <1>2, <1>3, WalkEnds DEF Sign
<1>5. At(s, m) < At(t, m) => Before(s, t)
  BY <1>1, <1>3 DEF Before
<1>6. ASSUME NEW j \in 1..(Len(s) + 1), At(s, j) < At(t, j),
             \A x \in 1..(j - 1) : At(s, x) = At(t, x)
      PROVE  m = j
  <2>1. j \in Stops(s, t)
    BY <1>1, <1>2, <1>6 DEF Stops, Places
  <2>2. m <= j
    BY <2>1 DEF IsFirst
  <2>3. ASSUME m < j PROVE FALSE
    <3>1. m \in 1..(j - 1) /\ m <= Len(s)
      BY <1>1, <1>3, <2>3
    <3>2. At(s, m) = 0
      BY <1>6, <3>1 DEF IsFirst, Stops
    <3>3. m \in Nat \ {0}
      BY <1>3
    <3> QED
      BY <1>1, <3>1, <3>2, <3>3, AtType
  <2> QED
    BY <1>3, <2>2, <2>3
<1> QED
  BY <1>4, <1>5, <1>6 DEF Before

LEMMA WalkSwapped ==
  ASSUME NEW s \in Seq(Char), NEW t \in Seq(Char)
  PROVE  Walk(s, t) = -Walk(t, s) /\ Walk(s, t) \in {-1, 0, 1}
<1> PICK m : IsFirst(m, s, t)
  BY FirstExists
<1>1. Len(s) \in Nat /\ Len(t) \in Nat
  OBVIOUS
<1>2. Stops(t, s) = Stops(s, t)
  <2>1. Places(t, s) = Places(s, t)
    BY <1>1 DEF Places
  <2> QED
    BY <2>1 DEF Stops
<1>3. IsFirst(m, t, s)
  BY <1>2 DEF IsFirst
<1>4. /\ Walk(s, t) = Sign(At(s, m) - At(t, m))
      /\ Walk(t, s) = Sign(At(t, m) - At(s, m))
  BY <1>3, WalkEnds
<1>5. At(s, m) \in Int /\ At(t, m) \in Int
  <2>1. m \in Nat \ {0}
    BY <1>1 DEF IsFirst, Stops, Places
  <2> QED
    BY <2>1, AtType
<1> QED
  BY <1>4, <1>5 DEF Sign

-----------------------------------------------------------------------------
(* Strings as they are compared.                                           *)

LEMMA Plain ==
  ASSUME NEW s \in Seq(Bytes)
  PROVE  s \in Seq(Char)
<1>1. Bytes \subseteq Char
  <2>1. \A x : x \in Bytes => x \in 1..255
    BY StringsAssumption, Zenon
  <2>2. \A x \in 1..255 : x \in Char
    BY DEF Char
  <2> QED
    BY <2>1, <2>2, Zenon
<1> QED
  BY <1>1

\* Bytes below and above 128, and what tolower() may make of the latter.
Ascii  == 1..127
Upper  == 128..255
Beyond == Int \ (0..127)

LEMMA ByteCases ==
  /\ \A x \in 1..255 : x \in Ascii \/ x \in Upper
  /\ \A x \in Ascii : x \in Char
  /\ \A x \in Beyond : x \notin Ascii /\ x \in Char
BY DEF Ascii, Upper, Beyond, Char

LEMMA NotAscii ==
  ASSUME NEW e \in -128..-1
  PROVE  High[e] \in Beyond
<1>1. High \in [-128..-1 -> Int \ (0..127)]
  BY StringsAssumption, Zenon
<1> QED
  BY <1>1, Zenon DEF Beyond

\* ASCII stays ASCII, and is not changed by the sign.
LEMMA LowAscii ==
  ASSUME NEW c \in Ascii
  PROVE  tolower(Signed(c)) = tolower(c) /\ tolower(Signed(c)) \in Ascii
<1>1. Signed(c) = c
  BY DEF Signed, Ascii
<1> QED
  BY <1>1 DEF tolower, Ascii

\* Whatever the others become, they stay apart from it.
LEMMA LowUpper ==
  ASSUME NEW c \in Upper
  PROVE  /\ c - 256 \in -128..-1
         /\ tolower(Signed(c)) = High[c - 256]
         /\ tolower(Signed(c)) \in Beyond
<1>1. Signed(c) = c - 256 /\ c - 256 \in -128..-1
  BY DEF Signed, Upper
<1>2. tolower(c - 256) = High[c - 256]
  BY DEF tolower, Upper
<1>3. High[c - 256] \in Beyond
  BY <1>1, NotAscii
<1> QED
  BY <1>1, <1>2, <1>3, Zenon

LEMMA LowChar ==
  ASSUME NEW c \in 1..255
  PROVE  tolower(Signed(c)) \in Char
<1>1. ASSUME c \in Ascii PROVE tolower(Signed(c)) \in Char
  BY <1>1, LowAscii, ByteCases, Zenon
<1>2. ASSUME c \in Upper PROVE tolower(Signed(c)) \in Char
  BY <1>2, LowUpper, ByteCases, Zenon
<1>3. c \in Ascii \/ c \in Upper
  BY ByteCases
<1> QED
  BY <1>1, <1>2, <1>3, Zenon

LEMMA LowerType ==
  ASSUME NEW s \in Seq(Bytes)
  PROVE  /\ Lower(s) \in Seq(Char)
         /\ Len(Lower(s)) = Len(s) /\ DOMAIN Lower(s) = DOMAIN s
         /\ \A j \in DOMAIN s : Lower(s)[j] = tolower(Signed(s[j])) /\ s[j] \in 1..255
<1>1. /\ DOMAIN s = 1..Len(s) /\ Len(s) \in Nat
      /\ \A j \in DOMAIN s : s[j] \in 1..255
  <2>1. /\ DOMAIN s = 1..Len(s) /\ Len(s) \in Nat
        /\ \A j \in DOMAIN s : s[j] \in Bytes
    OBVIOUS
  <2>2. \A x : x \in Bytes => x \in 1..255
    BY StringsAssumption
  <2> QED
    BY <2>1, <2>2, Zenon
<1>2. \A c \in 1..255 : tolower(Signed(c)) \in Char
  BY LowChar
<1>3. Lower(s) = [j \in 1..Len(s) |-> tolower(Signed(s[j]))]
  BY <1>1 DEF Lower
<1>4. \A j \in 1..Len(s) : tolower(Signed(s[j])) \in Char
  BY <1>1, <1>2
<1>5. Lower(s) \in Seq(Char)
  BY <1>1, <1>3, <1>4
<1> QED
  BY <1>1, <1>3, <1>5

\* Which bytes count as one without case, signed or not.
LEMMA SameLower ==
  ASSUME NEW c \in 1..255, NEW d \in 1..255
  PROVE  /\ tolower(Signed(c)) = tolower(Signed(d)) <=> SameButCase(c, d)
         /\ tolower(Signed(c)) = tolower(Signed(d)) => tolower(c) = tolower(d)
<1> DEFINE lc == tolower(Signed(c))
           ld == tolower(Signed(d))
           Goal == /\ lc = ld <=> SameButCase(c, d)
                   /\ lc = ld => tolower(c) = tolower(d)
<1>1. ASSUME c \in Ascii, d \in Ascii PROVE Goal
  <2>1. lc = tolower(c) /\ ld = tolower(d)
    BY <1>1, LowAscii, Zenon
  <2>2. tolower(c) = tolower(d) <=> SameButCase(c, d)
    BY <1>1 DEF tolower, SameButCase, IsLetter, Ascii, Upper
  <2> HIDE DEF lc, ld
  <2> QED
    BY <2>1, <2>2, Zenon
<1>2. ASSUME c \in Upper, d \in Upper PROVE Goal
  <2> DEFINE e == c - 256
             f == d - 256
  <2>1. e \in -128..-1 /\ lc = High[e]
    BY <1>2, LowUpper, Zenon
  <2>2. f \in -128..-1 /\ ld = High[f]
    BY <1>2, LowUpper, Zenon
  <2>3. e = f <=> c = d
    BY <1>2 DEF Upper
  <2>4. SameButCase(c, d) <=> c = d
    BY <1>2 DEF SameButCase, IsLetter, Ascii, Upper
  <2> HIDE DEF e, f, lc, ld
  <2>5. High[e] = High[f] => e = f
    BY <2>1, <2>2, StringsAssumption, Zenon
  <2>6. lc = ld <=> c = d
    BY <2>1, <2>2, <2>3, <2>5, Zenon
  <2> QED
    BY <2>4, <2>6, Zenon
<1>3. ASSUME NEW a \in Ascii, NEW b \in Upper
      PROVE  /\ tolower(Signed(a)) # tolower(Signed(b))
             /\ ~SameButCase(a, b) /\ ~SameButCase(b, a)
  <2>1. tolower(Signed(a)) \in Ascii /\ tolower(Signed(b)) \notin Ascii
    BY LowAscii, LowUpper, ByteCases, Zenon
  <2>2. ~SameButCase(a, b) /\ ~SameButCase(b, a)
    BY DEF SameButCase, IsLetter, Ascii, Upper
  <2> QED
    BY <2>1, <2>2, Zenon
<1>4. ASSUME c \in Ascii, d \in Upper PROVE Goal
  <2>1. lc # ld /\ ~SameButCase(c, d)
    BY <1>3, <1>4, Zenon
  <2> HIDE DEF lc, ld
  <2> QED
    BY <2>1, Zenon
<1>5. ASSUME c \in Upper, d \in Ascii PROVE Goal
  <2>1. lc # ld /\ ~SameButCase(c, d)
    BY <1>3, <1>5, Zenon
  <2> HIDE DEF lc, ld
  <2> QED
    BY <2>1, Zenon
<1> HIDE DEF Goal
<1>6. c \in Ascii \/ c \in Upper
  BY ByteCases
<1>7. d \in Ascii \/ d \in Upper
  BY ByteCases
<1>8. Goal
  BY <1>1, <1>2, <1>4, <1>5, <1>6, <1>7, Zenon
<1> QED
  BY <1>8 DEF Goal

\* ASCII strings are folded alike by both comparisons.
LEMMA AsciiFolds ==
  ASSUME NEW s \in Seq(Bytes), IsAscii(s)
  PROVE  Folded(s) = Lower(s)
<1>1. ASSUME NEW j \in DOMAIN s PROVE tolower(s[j]) = tolower(Signed(s[j]))
  <2> DEFINE c == s[j]
  <2>1. c \in 1..255 /\ c < 128
    BY LowerType DEF IsAscii
  <2> HIDE DEF c
  <2>2. c \in Ascii
    BY <2>1 DEF Ascii
  <2>3. tolower(Signed(c)) = tolower(c)
    BY <2>2, LowAscii
  <2> QED
    BY <2>3 DEF c
<1> QED
  BY <1>1, Zenon DEF Folded, Lower

LEMMA NocaseEqual ==
  ASSUME NEW s \in Seq(Bytes), NEW t \in Seq(Bytes)
  PROVE  Lower(s) = Lower(t) <=>
           /\ Len(s) = Len(t)
           /\ \A j \in DOMAIN s : SameButCase(s[j], t[j])
<1>1. /\ DOMAIN s = 1..Len(s) /\ DOMAIN t = 1..Len(t)
      /\ Len(s) \in Nat /\ Len(t) \in Nat
  OBVIOUS
<1>2. Lower(s) = Lower(t) <=>
        Len(s) = Len(t) /\ \A j \in 1..Len(s) : Lower(s)[j] = Lower(t)[j]
  <2> DEFINE a == Lower(s)
             b == Lower(t)
  <2>1. /\ a \in Seq(Char) /\ b \in Seq(Char)
        /\ Len(a) = Len(s) /\ Len(b) = Len(t)
    BY LowerType
  <2>2. a = b <=> Len(a) = Len(b) /\ \A j \in 1..Len(a) : a[j] = b[j]
    <3> HIDE DEF a, b
    <3> QED
      BY <2>1
  <2> QED
    BY <2>1, <2>2
<1>3. ASSUME Len(s) = Len(t), NEW j \in 1..Len(s)
      PROVE  Lower(s)[j] = Lower(t)[j] <=> SameButCase(s[j], t[j])
  <2>1. j \in DOMAIN s /\ j \in DOMAIN t
    BY <1>1, <1>3
  <2>2. /\ Lower(s)[j] = tolower(Signed(s[j])) /\ s[j] \in 1..255
        /\ Lower(t)[j] = tolower(Signed(t[j])) /\ t[j] \in 1..255
    BY <2>1, LowerType
  <2>3. tolower(Signed(s[j])) = tolower(Signed(t[j])) <=> SameButCase(s[j], t[j])
    BY <2>2, SameLower, Zenon
  <2> QED
    BY <2>2, <2>3
<1> QED
  BY <1>1, <1>2, <1>3

-----------------------------------------------------------------------------
(* The properties.                                                         *)

LEMMA TypeHolds == Spec => []TypeOK
<1>1. Init => TypeOK
  BY DEF Init, TypeOK
<1>2. TypeOK /\ [Next]_vars => TypeOK'
  <2> SUFFICES ASSUME TypeOK, [Next]_vars PROVE TypeOK'
    OBVIOUS
  <2>1. ASSUME NEW s \in Seq(Bytes), NEW c \in Bytes
        PROVE  Append(s, c) \in Seq(Bytes)
    OBVIOUS
  <2>2. CASE Grow1
    BY <2>1, <2>2 DEF TypeOK, Grow1
  <2>3. CASE Grow2
    BY <2>1, <2>3 DEF TypeOK, Grow2
  <2>4. CASE UNCHANGED vars
    BY <2>4 DEF TypeOK, vars
  <2> QED
    BY <2>2, <2>3, <2>4 DEF Next
<1> QED
  BY <1>1, <1>2, PTL DEF Spec

(* Strings that count as equal have one hash, whatever the strings, with   *)
(* and without case (src/src/hash-string.c:27-60,                          *)
(* src/src/compare-string.c:29-101).                                       *)
THEOREM HashesAgree == Spec => []HashAgrees
<1>1. TypeOK => HashAgrees
  <2> SUFFICES ASSUME TypeOK PROVE HashAgrees
    OBVIOUS
  <2> DEFINE s == string1
             t == string2
  <2>1. /\ s \in Seq(Bytes) /\ t \in Seq(Bytes)
        /\ s \in Seq(Char) /\ t \in Seq(Char)
        /\ Lower(s) \in Seq(Char) /\ Lower(t) \in Seq(Char)
    BY Plain, LowerType DEF TypeOK
  <2>2. string_equal(s, t) => string_hash(s) = string_hash(t)
    BY <2>1, WalkZero DEF string_equal, strcmp
  <2>3. ASSUME string_nocase_equal(s, t)
        PROVE  string_nocase_hash(s) = string_nocase_hash(t)
    <3>1. Lower(s) = Lower(t)
      BY <2>1, <2>3, WalkZero DEF string_nocase_equal, string_nocase_compare
    <3>2. DOMAIN s = DOMAIN t
      BY <2>1, <3>1, LowerType
    <3>3. ASSUME NEW j \in DOMAIN s
          PROVE  tolower(s[j]) = tolower(t[j])
      <4>1. /\ Lower(s)[j] = tolower(Signed(s[j])) /\ s[j] \in 1..255
            /\ Lower(t)[j] = tolower(Signed(t[j])) /\ t[j] \in 1..255
        BY <2>1, <3>2, LowerType
      <4>2. tolower(Signed(s[j])) = tolower(Signed(t[j]))
        BY <3>1, <4>1, Zenon
      <4> QED
        BY <4>1, <4>2, SameLower, Zenon
    <3>4. [j \in DOMAIN s |-> tolower(s[j])] = [j \in DOMAIN t |-> tolower(t[j])]
      BY <3>2, <3>3
    <3> QED
      BY <3>4 DEF string_nocase_hash
  <2> QED
    BY <2>2, <2>3 DEF HashAgrees
<1> QED
  BY TypeHolds, <1>1, PTL

(* Equality is that of the strings, and without case that of their letters *)
(* position by position (src/src/compare-string.c:29-32 and 51-54).        *)
THEOREM Equality == Spec => []EqualIsEqual
<1>1. TypeOK => EqualIsEqual
  <2> SUFFICES ASSUME TypeOK PROVE EqualIsEqual
    OBVIOUS
  <2>1. /\ string1 \in Seq(Bytes) /\ string2 \in Seq(Bytes)
        /\ string1 \in Seq(Char) /\ string2 \in Seq(Char)
        /\ Lower(string1) \in Seq(Char) /\ Lower(string2) \in Seq(Char)
    BY Plain, LowerType DEF TypeOK
  <2>2. string_equal(string1, string2) <=> string1 = string2
    BY <2>1, WalkZero DEF string_equal, strcmp
  <2>3. string_nocase_equal(string1, string2) <=> Lower(string1) = Lower(string2)
    BY <2>1, WalkZero DEF string_nocase_equal, string_nocase_compare
  <2> QED
    BY <2>1, <2>2, <2>3, NocaseEqual DEF EqualIsEqual
<1> QED
  BY TypeHolds, <1>1, PTL

(* Both comparisons decide at the first position that differs, and         *)
(* swapping their arguments swaps the answer, whatever tolower() returns   *)
(* for a negative char; without case the order is strcasecmp()'s for ASCII *)
(* (src/src/compare-string.c:34-47 and 60-101).                            *)
THEOREM Orders == Spec => []Ordered
<1>1. TypeOK => Ordered
  <2> SUFFICES ASSUME TypeOK PROVE Ordered
    OBVIOUS
  <2>1. /\ string1 \in Seq(Char) /\ string2 \in Seq(Char)
        /\ Lower(string1) \in Seq(Char) /\ Lower(string2) \in Seq(Char)
    BY Plain, LowerType DEF TypeOK
  <2>2. \A x \in {-1, 0, 1} : Sign(x) = x
    BY DEF Sign
  <2>3. /\ string_compare(string1, string2) = Walk(string1, string2)
        /\ string_compare(string2, string1) = Walk(string2, string1)
    BY <2>1, <2>2, WalkSwapped DEF string_compare, strcmp
  <2>4. IsAscii(string1) /\ IsAscii(string2)
          => Folded(string1) = Lower(string1) /\ Folded(string2) = Lower(string2)
    BY AsciiFolds DEF TypeOK
  <2> QED
    BY <2>1, <2>3, <2>4, WalkBefore, WalkSwapped DEF Ordered, string_nocase_compare
<1> QED
  BY TypeHolds, <1>1, PTL
=============================================================================
