------------------------------ MODULE Aliases -------------------------------
(***************************************************************************)
(* The aliases of src/src/alias.c, their expansion by expandAlias() in     *)
(* src/src/helper.c, and the builtins alias and unalias.                   *)
(*                                                                         *)
(* A string is the sequence of its characters, and the buffers hold so     *)
(* many of them.  The table is a map, which HashTable implements.          *)
(***************************************************************************)
EXTENDS Texts, FiniteSets

CONSTANTS
  Char,     (* the characters, ' ' among them                               *)
  Name,     (* the names alias may be given                                 *)
  Value,    (* the values alias may be given                                *)
  Command,  (* the texts the parser asks to expand, out of a buffer of its  *)
            (* own of the same size (src/src/parser.rl:46)                  *)
  BufSize   (* BUFSIZE                                                      *)

ASSUME AliasesAssumption ==
  /\ BufSize \in Nat
  /\ Value \subseteq Seq(Char)
  /\ Command \subseteq {s \in Seq(Char) : Len(s) <= BufSize}

VARIABLES
  pc,      (* "idle", "loop" in expandAlias(), "overflow" behind a buffer   *)
  table,   (* key -> [value, in_use]                                        *)
  command, (* expandAlias()'s argument                                      *)
  cmd,     (* the word to look up next                                      *)
  final    (* the expansion so far, without the arguments of command        *)

locals == <<command, cmd, final>>
vars   == <<pc, table, locals>>

Empty == <<>>
Used  == {k \in DOMAIN table : table[k].in_use}

Init ==
  /\ pc = "idle"
  /\ table = [k \in {} |-> [value |-> Empty, in_use |-> FALSE]]
  /\ command = Empty /\ cmd = Empty /\ final = Empty

(* cmd_alias, addAlias: a new alias takes the place of the old one.        *)
AddAlias(k, v) ==
  /\ pc = "idle"
  /\ table' = [x \in DOMAIN table \cup {k} |->
                 IF x = k THEN [value |-> v, in_use |-> FALSE] ELSE table[x]]
  /\ UNCHANGED <<pc, locals>>

(* cmd_unalias, removeAlias.                                               *)
RemoveAlias(k) ==
  /\ pc = "idle"
  /\ table' = [x \in DOMAIN table \ {k} |-> table[x]]
  /\ UNCHANGED <<pc, locals>>

ExpandAlias(c) ==
  /\ pc = "idle"
  /\ pc' = "loop"
  /\ command' = c
  /\ cmd' = First(c)
  /\ final' = Empty
  /\ UNCHANGED table

\* strncpy(tmp, aux, BUFSIZE).
Fit(aux) == SubSeq(aux, 1, IF Len(aux) <= BufSize THEN Len(aux) ELSE BufSize)

\* Mutant: an alias is returned although it is in use.
AvailableInUse == cmd \in DOMAIN table

\* getAlias() has something to return.
Available == cmd \in DOMAIN table /\ ~table[cmd].in_use

\* Mutant: the arguments of the step before are lost.
LoopDropsArguments ==
  /\ pc = "loop" /\ Available
  /\ table' = [table EXCEPT ![cmd].in_use = TRUE]
  /\ cmd' = First(table[cmd].value)
  /\ final' = Fit(table[cmd].value)
  /\ pc' = IF Len(final') > BufSize THEN "overflow" ELSE "loop"
  /\ UNCHANGED command

\* The copy is cut to the buffer, what strcat() appends to it is not, and
\* the word to look up next is that of the value itself.
Loop ==
  /\ pc = "loop" /\ Available
  /\ table' = [table EXCEPT ![cmd].in_use = TRUE]
  /\ LET aux == table[cmd].value IN
       /\ cmd' = First(aux)
       /\ final' = Fit(aux) \o Rest(final)
  /\ pc' = IF Len(final') > BufSize THEN "overflow" ELSE "loop"
  /\ UNCHANGED command

\* Copies the command back, or its arguments only.
Result == IF final = Empty THEN command ELSE final \o Rest(command)

\* Mutant: the marks stay.
DoneUnreleased ==
  /\ pc = "loop" /\ ~Available
  /\ Len(Result) <= BufSize
  /\ pc' = "idle"
  /\ final' = Result
  /\ UNCHANGED <<table, command, cmd>>

\* Then releaseAliases().
Done ==
  /\ pc = "loop" /\ ~Available
  /\ Len(Result) <= BufSize
  /\ pc' = "idle"
  /\ final' = Result
  /\ table' = [k \in DOMAIN table |-> [table[k] EXCEPT !.in_use = FALSE]]
  /\ UNCHANGED <<command, cmd>>

Overflow ==
  /\ pc = "loop" /\ ~Available
  /\ Len(Result) > BufSize
  /\ pc' = "overflow"
  /\ UNCHANGED <<table, locals>>

Next ==
  \/ \E k \in Name, v \in Value : AddAlias(k, v)
  \/ \E k \in Name : RemoveAlias(k)
  \/ \E c \in Command : ExpandAlias(c)
  \/ Loop
  \/ Done
  \/ Overflow

Spec == Init /\ [][Next]_vars /\ WF_vars(Loop \/ Done \/ Overflow)

-----------------------------------------------------------------------------
TypeOK ==
  /\ pc \in {"idle", "loop", "overflow"}
  /\ DOMAIN table \subseteq Name
  /\ table \in [DOMAIN table -> [value : Value, in_use : BOOLEAN]]
  /\ command \in Seq(Char) /\ cmd \in Seq(Char) /\ final \in Seq(Char)

(* Between two expansions no alias is marked: one that was left marked     *)
(* would never be expanded again (src/src/alias.c:66-69,                   *)
(* src/src/helper.c:112).                                                  *)
Released == pc = "idle" => Used = {}

(* No buffer overflows as long as the first word of any alias used, with   *)
(* the arguments of the command and of all these aliases, each counted     *)
(* once, fits into one (src/src/helper.c:87-91 and 104-111).               *)
Arguments ==
  UNION {{k} \X (Break(table[k].value)..Len(table[k].value)) : k \in Used}
ShortFits ==
  pc = "overflow" =>
    \E k \in Used : Len(First(table[k].value)) + Cardinality(Arguments)
                      + Len(Rest(command)) > BufSize

(* expandAlias() comes to an end, even if aliases name each other: a word  *)
(* is expanded once only (src/src/helper.c:84, src/src/alias.c:67).        *)
ExpansionEnds == pc = "loop" ~> pc # "loop"

(* Expanding the first word on its own and appending the arguments of      *)
(* every step is rewriting the command (src/src/helper.c:84-111).          *)
R == INSTANCE Rewriting WITH
       Limit   <- BufSize,
       busy    <- pc # "idle",
       alias   <- [k \in DOMAIN table |-> table[k].value],
       name    <- cmd,
       text    <- IF pc = "idle" THEN final
                  ELSE IF Used = {} THEN command
                  ELSE final \o Rest(command),
       used    <- Used

IsRewriting == R!RewritingSpec
=============================================================================
