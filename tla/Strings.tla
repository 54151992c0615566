------------------------------ MODULE Strings -------------------------------
(***************************************************************************)
(* src/src/hash-string.c and src/src/compare-string.c: what hash_table_new *)
(* is given to hash and compare keys, and the versions that ignore case.   *)
(*                                                                         *)
(* A string is the sequence of its bytes, 1 to 255, without the NUL that   *)
(* ends it.  Two strings grow by one byte at a time, so that every pair up *)
(* to a length is compared.                                                *)
(***************************************************************************)
EXTENDS Integers, Sequences

CONSTANTS Bytes,   (* the bytes that occur                                  *)
          MaxLen,  (* bound: the length of a string                         *)
          W,       (* the width of unsigned long: 64 in the code            *)
          XOR(_,_),(* ^ of C, on naturals                                   *)
          High     (* what tolower() makes of a negative char: C says for   *)
                   (* EOF only, a library may look it up in a table or      *)
                   (* return it as it is                                    *)

\* No library makes two negative characters one, or one of them ASCII.
ASSUME StringsAssumption ==
  /\ Bytes \subseteq 1..255
  /\ MaxLen \in Nat
  /\ W \in Nat \ {0}
  /\ High \in [-128..-1 -> Int \ (0..127)]
  /\ \A c, d \in -128..-1 : High[c] = High[d] => c = d

VARIABLES string1, string2

vars == <<string1, string2>>

-----------------------------------------------------------------------------
\* Mutant: one character too far.
ToLowerWide(c) ==
  IF c \in 65..91 THEN c + 32 ELSE IF c < 0 THEN High[c] ELSE c

\* tolower() in the "C" locale: the program never calls setlocale().
tolower(c) ==
  IF c \in 65..90 THEN c + 32 ELSE IF c < 0 THEN High[c] ELSE c

\* A char is signed.
Signed(c) == IF c > 127 THEN c - 256 ELSE c

\* result = ((result << 5) ^ result) ^ c, over the bytes of s from the left.
Mix(s) ==
  LET result[j \in 0..Len(s)] ==
        IF j = 0 THEN 5381 % 2^W
        ELSE XOR(XOR((result[j - 1] * 32) % 2^W, result[j - 1]), s[j])
  IN  result[Len(s)]

string_hash(s) == Mix(s)

\* Mutant: copied from string_hash() as it is.
NocaseHashRaw(s) == Mix(s)

string_nocase_hash(s) == Mix([j \in DOMAIN s |-> tolower(s[j])])

-----------------------------------------------------------------------------
Sign(x) == IF x < 0 THEN -1 ELSE IF x > 0 THEN 1 ELSE 0

\* The byte at j, NUL at the end.
At(s, j) == IF j > Len(s) THEN 0 ELSE s[j]

\* The loop over two sequences of characters up to a difference or the end.
Walk(s, t) ==
  LET walk[j \in 1..(Len(s) + Len(t) + 1)] ==
        LET c1 == At(s, j)
            c2 == At(t, j)
        IN  IF c1 # c2 THEN Sign(c1 - c2)
            ELSE IF c1 = 0 THEN 0 ELSE walk[j + 1]
  IN  walk[1]

\* strcmp() compares bytes as unsigned characters.
strcmp(s, t) == Walk(s, t)

string_equal(s, t) == strcmp(s, t) = 0

\* Mutant: the arguments swapped.
CompareSwapped(s, t) == Sign(strcmp(t, s))

string_compare(s, t) == Sign(strcmp(s, t))

\* The characters string_nocase_compare() compares.
Lower(s) == [j \in DOMAIN s |-> tolower(Signed(s[j]))]

string_nocase_compare(s, t) == Walk(Lower(s), Lower(t))

string_nocase_equal(s, t) == string_nocase_compare(s, t) = 0

-----------------------------------------------------------------------------
Init == string1 = <<>> /\ string2 = <<>>

Grow1 == /\ Len(string1) < MaxLen
         /\ \E c \in Bytes : string1' = Append(string1, c)
         /\ UNCHANGED string2

Grow2 == /\ Len(string2) < MaxLen
         /\ \E c \in Bytes : string2' = Append(string2, c)
         /\ UNCHANGED string1

Next == Grow1 \/ Grow2

Spec == Init /\ [][Next]_vars

-----------------------------------------------------------------------------
IsLetter(c) == c \in (65..90) \cup (97..122)

SameButCase(c, d) == c = d \/ (IsLetter(c) /\ IsLetter(d) /\ (c - d) \in {-32, 32})

(* What a hash table needs of the pair: strings that count as equal have   *)
(* one hash, although one function reads signed characters and the other   *)
(* unsigned ones.                                                          *)
HashAgrees ==
  /\ string_equal(string1, string2)
       => string_hash(string1) = string_hash(string2)
  /\ string_nocase_equal(string1, string2)
       => string_nocase_hash(string1) = string_nocase_hash(string2)

(* Equality up to case is that of the letters, position by position, and   *)
(* without case it is that of the strings.                                 *)
EqualIsEqual ==
  /\ string_equal(string1, string2) <=> string1 = string2
  /\ string_nocase_equal(string1, string2) <=>
       /\ Len(string1) = Len(string2)
       /\ \A j \in DOMAIN string1 : SameButCase(string1[j], string2[j])

\* s comes first, as decided at the first position where they differ.
Before(s, t) ==
  \E j \in 1..(Len(s) + 1) :
    /\ \A x \in 1..(j - 1) : At(s, x) = At(t, x)
    /\ At(s, j) < At(t, j)

\* The characters strcasecmp() compares, which are not signed.
Folded(s) == [j \in DOMAIN s |-> tolower(s[j])]

IsAscii(s) == \A j \in DOMAIN s : s[j] < 128

(* Both comparisons are orders, decided at the first position that         *)
(* differs, where a string that ends comes first if its rival's character  *)
(* is above NUL.  Without case the order is that of the characters         *)
(* tolower() returns, which is strcasecmp()'s for ASCII                    *)
(* (src/src/compare-string.c:34-47 and 60-101).                            *)
Ordered ==
  /\ string_compare(string1, string2) = -1 <=> Before(string1, string2)
  /\ string_compare(string1, string2) = -string_compare(string2, string1)
  /\ string_nocase_compare(string1, string2) = -1
       <=> Before(Lower(string1), Lower(string2))
  /\ string_nocase_compare(string1, string2)
       = -string_nocase_compare(string2, string1)
  /\ IsAscii(string1) /\ IsAscii(string2)
       => (string_nocase_compare(string1, string2) = -1
             <=> Before(Folded(string1), Folded(string2)))

(* What src/src/compare-string.c:56-58 says: strcasecmp() gives the same.  *)
(* A char is signed at line 73, and what tolower() makes of a negative one *)
(* need not be in the order of the bytes.                                  *)
AsStrcasecmp ==
  string_nocase_compare(string1, string2) = -1
    <=> Before(Folded(string1), Folded(string2))
=============================================================================
