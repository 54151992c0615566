------------------------------ MODULE Builtins ------------------------------
(***************************************************************************)
(* src/src/builtins.c, and what src/src/helper.c makes of a command's text *)
(* before it is run, as functions of the shell's own state: a record of    *)
(* its aliases, its environment and its directory.                         *)
(*                                                                         *)
(* A word is a tuple of strings: <<"x">>, or <<"key", "value">> where it   *)
(* has a "="; in a text also a reference <<"$", "V">> or the pattern Any.  *)
(* What an alias with several words does is the matter of Aliases; here it *)
(* stands for one, and so does the pattern for the file it matches.        *)
(***************************************************************************)
EXTENDS Naturals, Sequences, FiniteSets

CONSTANTS Alias,  (* the names that may be made an alias                    *)
          Var,    (* the variables of the environment, HOME among them      *)
          Dirs,   (* the paths chdir() accepts                              *)
          String  (* what stands in a word                                  *)

ASSUME BuiltinsAssumption ==
  /\ <<"/">> \in Dirs /\ IsFiniteSet(Alias)
  /\ {"*", "f"} \subseteq String

None == <<>>      \* no alias, no variable
Bad  == <<"(">>   \* a word wordexp() refuses
Any  == <<"*">>   \* a pattern, which wordexp() leaves alone if nothing matches

Start == [alias |-> [a \in Alias |-> None], var |-> [v \in Var |-> None],
          dir |-> <<"/">>]

-----------------------------------------------------------------------------
(* expandAlias(): the first word is replaced until it is no alias, or one  *)
(* that was used already: at most once for each alias.                     *)
expandAlias(w, text) ==
  LET Chase(s) ==
        IF \E a \in s.left : s.first = <<a>> /\ w.alias[a] # None
        THEN [first |-> w.alias[s.first[1]], left |-> s.left \ {s.first[1]}]
        ELSE s
      after[m \in 0..Cardinality(Alias)] ==
        IF m = 0 THEN [first |-> text[1], left |-> Alias] ELSE Chase(after[m - 1])
  IN  <<after[Cardinality(Alias)].first>> \o Tail(text)

(* wordexp() in expandGlob() refuses a text or gives its words, which may  *)
(* be none at all.  Found is what the pattern matches in the directory.    *)
Accepts(w, text) == \A j \in DOMAIN text : expandAlias(w, text)[j] # Bad

\* A reference to a variable that is not set vanishes.
Words(w, found, text) ==
  LET Value(word) == IF Len(word) = 2 /\ word[1] = "$"
                     THEN IF word[2] \in Var THEN w.var[word[2]] ELSE None
                     ELSE IF word = Any THEN found ELSE word
      plain == expandAlias(w, text)
      of[m \in 0..Len(plain)] ==
        IF m = 0 THEN <<>>
        ELSE IF Value(plain[m]) = None THEN of[m - 1]
        ELSE Append(of[m - 1], Value(plain[m]))
  IN  of[Len(plain)]

-----------------------------------------------------------------------------
(* The builtins, given the arguments behind their own name.                *)

Assigns(args) == args # <<>> /\ Len(args[1]) = 2

cmd_export(w, args) ==
  IF Assigns(args) THEN [w EXCEPT !.var[args[1][1]] = <<args[1][2]>>] ELSE w

cmd_alias(w, args) ==
  IF Assigns(args) THEN [w EXCEPT !.alias[args[1][1]] = <<args[1][2]>>] ELSE w

cmd_unalias(w, args) ==
  IF \E a \in Alias : args # <<>> /\ args[1] = <<a>>
  THEN [w EXCEPT !.alias[args[1][1]] = None] ELSE w

\* Mutant: the result of chdir() is taken for granted.
CdUnchecked(w, args) ==
  [w EXCEPT !.dir = IF args = <<>> THEN w.var["HOME"] ELSE args[1]]

cmd_cd(w, args) ==
  LET path == IF args = <<>> THEN w.var["HOME"] ELSE args[1]
  IN  IF path \in Dirs THEN [w EXCEPT !.dir = path] ELSE w

commands == {"alias", "cd", "echo", "exit", "export", "pwd", "unalias"}

Path(words) == IF words = <<>> THEN None ELSE words[1]   \* NULL if no words

isBuiltin(words) == \E c \in commands : Path(words) = <<c>>

(* executeCommand() in the shell itself: its state afterwards.  "echo" and *)
(* "pwd" print, "exit" is no longer there to have a state.                 *)
executeCommand(w, words) ==
  LET name == words[1][1]
      args == Tail(words)
  IN  CASE name = "alias"   -> cmd_alias(w, args)
        [] name = "unalias" -> cmd_unalias(w, args)
        [] name = "export"  -> cmd_export(w, args)
        [] name = "cd"      -> cmd_cd(w, args)
        [] OTHER            -> w

\* A program that makes a file the pattern matches.
Creates(words) == words = << <<"touch">>, <<"f">> >>

\* strcmp() on the path of a command without words; strdup() of no argument.
Faulty(words) == words \in {<<>>, << <<"export">> >>}

(* What the shell itself looks at, and what it does not come back from.    *)
Own(words)  == words = <<>> \/ isBuiltin(words)
Ends(words) == Faulty(words) \/ Path(words) = <<"exit">>
=============================================================================
