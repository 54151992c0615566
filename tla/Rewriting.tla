----------------------------- MODULE Rewriting ------------------------------
(***************************************************************************)
(* What alias expansion promises: the first word of a command is replaced  *)
(* by the alias of that name, then the first word of that alias, and so    *)
(* on, no alias twice; an expansion that leaves nothing in the place of    *)
(* the first word is given up.  What an alias puts there is no longer than *)
(* Limit.  The aliases change between expansions.                          *)
(***************************************************************************)
EXTENDS Texts

CONSTANTS
  Name,     (* the names an alias may have                                  *)
  Value,    (* the texts an alias may stand for                             *)
  Command,  (* the commands to expand                                       *)
  Limit     (* as much of an alias as is used                               *)

VARIABLES
  busy,     (* an expansion is under way                                    *)
  alias,    (* name -> text                                                 *)
  command,  (* the command to expand                                        *)
  text,     (* what it is by now, and the result at the end                 *)
  name,     (* the word to replace next                                     *)
  used      (* the aliases used in this expansion                           *)

rewritingVars == <<busy, alias, command, text, name, used>>

NoAliases == [k \in {} |-> <<>>]

RewritingInit ==
  /\ busy = FALSE
  /\ alias = NoAliases
  /\ command = <<>> /\ text = <<>> /\ name = <<>>
  /\ used = {}

Define(k, v) ==
  /\ ~busy
  /\ alias' = [x \in DOMAIN alias \cup {k} |-> IF x = k THEN v ELSE alias[x]]
  /\ UNCHANGED <<busy, command, text, name, used>>

Forget(k) ==
  /\ ~busy
  /\ alias' = [x \in DOMAIN alias \ {k} |-> alias[x]]
  /\ UNCHANGED <<busy, command, text, name, used>>

Begin(c) ==
  /\ ~busy
  /\ busy' = TRUE
  /\ command' = c /\ text' = c /\ name' = First(c)
  /\ UNCHANGED <<alias, used>>

Replaceable == name \in DOMAIN alias \ used

Cut(v) == SubSeq(v, 1, IF Len(v) <= Limit THEN Len(v) ELSE Limit)

Replace ==
  /\ busy /\ Replaceable
  /\ text' = Cut(alias[name]) \o Rest(text)
  /\ name' = First(alias[name])
  /\ used' = used \cup {name}
  /\ UNCHANGED <<busy, alias, command>>

Finish ==
  /\ busy /\ ~Replaceable
  /\ busy' = FALSE
  /\ text' = IF text = Rest(command) THEN command ELSE text
  /\ used' = {}
  /\ UNCHANGED <<alias, command, name>>

RewritingNext ==
  \/ \E k \in Name, v \in Value : Define(k, v)
  \/ \E k \in Name : Forget(k)
  \/ \E c \in Command : Begin(c)
  \/ Replace
  \/ Finish

RewritingSpec == RewritingInit /\ [][RewritingNext]_rewritingVars
=============================================================================
