------------------------------ MODULE Grammar -------------------------------
(***************************************************************************)
(* The language of src/src/parser.rl, lines 103-115, without automata.  A  *)
(* command starts at the beginning of the line or at a separator and stops *)
(* at the next one; it is a text, at most one redirection of each kind     *)
(* with a name, and at most one "&" at the end.                            *)
(*                                                                         *)
(* A place is an index of the line l; 0 is the beginning.                  *)
(***************************************************************************)
EXTENDS Naturals, Sequences, FiniteSets

CONSTANTS Null   (* NULL; a redirection not given                          *)

Separator == {";", "|"}
Mark      == {"<", ">", "&"}
Special   == Separator \cup Mark
Nul       == "0"
Space     == " "

\* The character at place i; the line ends with NUL.
CharAt(l, i) == IF i <= Len(l) THEN l[i] ELSE Nul

Least(S) == CHOOSE i \in S : \A j \in S : i <= j

\* The next place with one of the characters C behind place i, or the end.
Upto(l, i, C) ==
  Least({j \in (i + 1)..Len(l) : l[j] \in C} \cup {Len(l) + 1})

Blank(l) == \A i \in 1..Len(l) : l[i] = Space

\* What stands behind place i, up to the next special character.
First(l, i) == Least({j \in (i + 1)..Len(l) : l[j] # Space} \cup {Len(l) + 1})
Until(l, i) == Upto(l, i, Special)
Field(l, i) == SubSeq(l, First(l, i), Until(l, i) - 1)

\* The commands, by where they start, and the marks of one of them.
Starts(l)   == {0} \cup {i \in 1..Len(l) : l[i] \in Separator}
Stop(l, a)  == Upto(l, a, Separator)
Marks(l, a) == {i \in (a + 1)..(Stop(l, a) - 1) : l[i] \in Mark}

\* complex
IsCommand(l, a) ==
  /\ Field(l, a) # <<>>
  /\ \A i \in Marks(l, a) : (l[i] = "&") <=> (Field(l, i) = <<>>)
  /\ \A i, j \in Marks(l, a) : l[i] = l[j] => i = j
  /\ \A i, j \in Marks(l, a) : l[i] = "&" => j <= i

Has(l, a, c)   == \E i \in Marks(l, a) : l[i] = c
Where(l, a, c) == CHOOSE i \in Marks(l, a) : l[i] = c
Given(l, a, c) == IF Has(l, a, c) THEN Field(l, Where(l, a, c)) ELSE Null

Connection(l, a) ==
  CASE CharAt(l, Stop(l, a)) = "|"                       -> "pipe"
    [] CharAt(l, Stop(l, a)) # "|" /\ Has(l, a, "&")     -> "bg"
    [] CharAt(l, Stop(l, a)) = ";" /\ ~Has(l, a, "&")    -> "seq"
    [] OTHER                                             -> "none"

Meaning(l, a) ==
  [ text |-> Field(l, a), in |-> Given(l, a, "<"), out |-> Given(l, a, ">"),
    conn |-> Connection(l, a) ]

\* main
Accepted(l) == Blank(l) \/ \A a \in Starts(l) : IsCommand(l, a)

\* The place of a command among those of the line, and how many there are.
Number(l, a) == Cardinality({b \in Starts(l) : b <= a})
Count(l)     == IF Blank(l) THEN 0 ELSE Cardinality(Starts(l))
=============================================================================
