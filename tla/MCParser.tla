------------------------------ MODULE MCParser ------------------------------
(***************************************************************************)
(* The automaton against the grammar, on every short line and on longer    *)
(* ones put together from typical pieces.                                  *)
(***************************************************************************)
EXTENDS Parser

MCLetter == {"a", "b"}

\* Bound: every line of up to MaxShort characters, of one letter.
MaxShort == 5
ShortLines == UNION {[1..n -> {"a", Space} \cup Special] : n \in 0..MaxShort}

PiecesOf == { <<"a">>, <<Space, "b", Space, "a">>, <<"a", "<", "b">>,
              <<"b", ">", Space, "a", "<", "b", Space>>,
              <<"a", "<", "b", ">", "a", "b", "&">>, <<"b", Space, "&", Space>>,
              <<Space>>, <<"a", "b", "a", "b", "a">> }
LongLines ==
  {x \o <<s>> \o y : x \in PiecesOf, s \in {";", "|"}, y \in PiecesOf}
  \cup {x \o <<s>> \o y \o <<t>> \o z :
          x \in PiecesOf, s \in {";", "|"}, y \in PiecesOf, t \in {";", "|"},
          z \in PiecesOf}

MCLines == ShortLines \cup LongLines
=============================================================================
