---------------------------- MODULE Interpreter -----------------------------
(***************************************************************************)
(* A shell that reads a line one command at a time: it makes words of a    *)
(* command when its turn comes, with the aliases and variables of that     *)
(* moment; only the files that patterns match are those there were when    *)
(* the line was read.  redshell makes all the words first (Session).       *)
(***************************************************************************)
EXTENDS Builtins

VARIABLES
  mode,   (* "idle", "busy" with a line, or "gone"                          *)
  world,  (* the shell's own aliases, variables and directory               *)
  found,  (* what a pattern matches in the directory                        *)
  seen,   (* the same, when the line was read                               *)
  line,   (* the commands of the line as they were typed                    *)
  next,   (* the one whose turn it is, 0 when idle                          *)
  ran     (* the words the line's commands were run with, and where         *)

vars == <<mode, world, found, seen, line, next, ran>>

Command == [text : Seq(Seq(String)), conn : {"none", "pipe", "bg", "seq"},
            file : BOOLEAN]

Init ==
  /\ mode = "idle"
  /\ world = Start
  /\ found = Any
  /\ seen = Any
  /\ line = <<>>
  /\ next = 0
  /\ ran = <<>>

ReadLine ==
  /\ mode = "idle"
  /\ mode' = "busy"
  /\ line' \in Seq(Command)
  /\ seen' = found
  /\ next' = 1
  /\ ran' = <<>>
  /\ UNCHANGED <<world, found>>

words    == Words(world, seen, line[next].text)
Ready(j) == j \in DOMAIN line /\ Accepts(world, line[j].text)
InPipe   == line[next].conn = "pipe" \/ (next > 1 /\ line[next - 1].conn = "pipe")

(* The shell's own business: the last command that can be read, alone and  *)
(* in the foreground, if it is a builtin.                                  *)
Here == /\ ~Ready(next + 1) /\ line[next].conn # "bg" /\ ~InPipe
        /\ Own(words)

Run(here) == ran' = Append(ran, [at |-> next, words |-> words, here |-> here])

\* A child has a copy of the world, and leaves the shell's alone.
RunInChild ==
  /\ mode = "busy"
  /\ Ready(next) /\ ~Here
  /\ Run(FALSE) \/ UNCHANGED ran
  /\ next' = next + 1
  /\ UNCHANGED <<mode, world, found, seen, line>>

RunHere ==
  /\ mode = "busy"
  /\ Ready(next) /\ Here
  /\ Run(TRUE)
  /\ world' = IF Ends(words) THEN world ELSE executeCommand(world, words)
  /\ mode' = IF Ends(words) THEN "gone" ELSE "idle"
  /\ next' = 0
  /\ UNCHANGED <<found, seen, line>>

\* The line is over, or a file of the command cannot be opened.
Return ==
  /\ mode = "busy"
  /\ ~Ready(next) \/ line[next].file
  /\ mode' = "idle"
  /\ next' = 0
  /\ UNCHANGED <<world, found, seen, line, ran>>

Leave ==
  /\ mode = "idle"
  /\ mode' = "gone"
  /\ UNCHANGED <<world, found, seen, line, next, ran>>

Create ==
  /\ \E j \in DOMAIN ran : Creates(ran[j].words)
  /\ found' = <<"f">>
  /\ UNCHANGED <<mode, world, seen, line, next, ran>>

Next == ReadLine \/ RunInChild \/ RunHere \/ Return \/ Leave \/ Create

Spec == Init /\ [][Next]_vars
=============================================================================
