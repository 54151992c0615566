------------------------------- MODULE Launch -------------------------------
(***************************************************************************)
(* What the shell promises of the commands of a line, told without         *)
(* processes, signals or memory: they start in order; the last one, if it  *)
(* is the shell's own business, is carried out by the shell and every      *)
(* other one by a child, unless fork() fails; only a file that cannot be   *)
(* opened makes the shell give up the rest of the line.                    *)
(*                                                                         *)
(* Two detailed modules implement it: Shell, which has the processes and   *)
(* the signals, and Session, which has the words and the builtins.         *)
(***************************************************************************)
EXTENDS Naturals, Sequences

VARIABLES
  mode,     (* "idle" at the prompt, "busy" with a line, "gone"             *)
  line,     (* the commands of the line                                     *)
  next,     (* the next one to start, Len(line) + 1 when the line is over    *)
  started   (* those that were given a child                                *)

vars == <<mode, line, next, started>>

(* own: a builtin; files: it has redirections.                             *)
Cmd == [conn : {"none", "pipe", "bg", "seq"}, own : BOOLEAN, files : BOOLEAN]

Init ==
  /\ mode = "idle"
  /\ line = <<>>
  /\ next = 1
  /\ started = {}

ReadLine ==
  /\ mode = "idle"
  /\ mode' = "busy"
  /\ line' \in Seq(Cmd)
  /\ next' = 1
  /\ started' = {}

InPipe == line[next].conn = "pipe" \/ (next > 1 /\ line[next - 1].conn = "pipe")

OwnTurn ==
  next = Len(line) /\ line[next].own /\ line[next].conn # "bg" /\ ~InPipe

(* The command is given a child, or fork() fails and it is passed over.    *)
StartChild ==
  /\ mode = "busy"
  /\ next \in 1..Len(line)
  /\ ~OwnTurn
  /\ started' \in {started, started \cup {next}}
  /\ next' = next + 1
  /\ UNCHANGED <<mode, line>>

RunHere ==
  /\ mode = "busy"
  /\ next \in 1..Len(line)
  /\ OwnTurn
  /\ mode' \in {"idle", "gone"}
  /\ next' = Len(line) + 1
  /\ UNCHANGED <<line, started>>

GiveUp ==
  /\ mode = "busy"
  /\ next \in 1..Len(line)
  /\ line[next].files
  /\ mode' = "idle"
  /\ next' = Len(line) + 1
  /\ UNCHANGED <<line, started>>

Return ==
  /\ mode = "busy"
  /\ next = Len(line) + 1
  /\ mode' = "idle"
  /\ UNCHANGED <<line, next, started>>

\* End of input.
Leave ==
  /\ mode = "idle"
  /\ mode' = "gone"
  /\ UNCHANGED <<line, next, started>>

Next == ReadLine \/ StartChild \/ RunHere \/ GiveUp \/ Return \/ Leave

Spec == Init /\ [][Next]_vars
=============================================================================
