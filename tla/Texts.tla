------------------------------- MODULE Texts --------------------------------
(***************************************************************************)
(* Texts, as sequences of characters, and where strstr(s, " ") splits      *)
(* them: before their first space, or at their end if they have none.      *)
(***************************************************************************)
EXTENDS Naturals, Sequences

CONSTANT Space   (* the character ' '                                        *)

\* No space before j, and one at j unless s ends there.
IsBreak(s, j) ==
  /\ j <= Len(s) => s[j] = Space
  /\ \A m \in 1..(j - 1) : s[m] # Space

Break(s) == CHOOSE j \in 1..(Len(s) + 1) : IsBreak(s, j)

\* The first word, empty if s begins with a space.
First(s) == SubSeq(s, 1, Break(s) - 1)

\* From the first space on, empty if there is none.
Rest(s) == SubSeq(s, Break(s), Len(s))
=============================================================================
