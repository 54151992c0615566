----------------------------- MODULE MCAliases ------------------------------
(* Aliases that name themselves, each other, nothing, or nothing with an   *)
(* argument; a first word and a value longer than the buffer, which holds  *)
(* five characters, and a name as long as that word.                       *)
EXTENDS Aliases

MCChar    == {"l", "s", "x", " "}
MCName    == { <<>>, <<"l">>, <<"s">>, <<"s", "s", "s", "s", "s", "s">> }
MCValue   == { <<>>, <<"s">>, <<"s", " ", "x">>, <<"l", " ", "x", "x">>,
               <<" ", "x">>, <<"s", "s", "s", "s", "s", "s">>,
               <<"l", " ", "x", "x", "x", " ", "x">> }
MCCommand == { <<"s">>, <<"l", " ", "x">>, <<"x">>, <<>>,
               <<"s", " ", "x", "x", "x">> }
=============================================================================
