----------------------------- MODULE MCStrings ------------------------------
(* Bytes around the letters, and above 127 one letter of Latin-1 in both   *)
(* cases, which the "C" locale does not know, and the last one, which is   *)
(* EOF as a signed char.                                                   *)
EXTENDS Strings, Bitwise

MCBytes == {49, 65, 91, 97, 98, 123, 201, 233, 255}

MCXor(a, b) == a ^^ b

\* glibc's table: the byte of every negative char but EOF, which is kept.
MCHigh == [c \in -128..-1 |-> IF c = -1 THEN -1 ELSE c + 256]
=============================================================================
