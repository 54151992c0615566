------------------------------ MODULE Session -------------------------------
(***************************************************************************)
(* run() of src/src/main.c with the parser, the launcher and the builtins  *)
(* together, seen from the data: the words every command is run with, what *)
(* the builtins change, and who frees the commands.  Shell has the         *)
(* processes, the signals and the descriptors of the same functions.       *)
(***************************************************************************)
EXTENDS Builtins

CONSTANT Lines   (* what a user may type: the commands of a line            *)

Conns   == {"none", "pipe", "bg", "seq"}
Command == [text : Seq(Seq(String)) \ {<<>>}, conn : Conns, file : BOOLEAN]

ASSUME SessionAssumption == Lines \subseteq Seq(Command)

VARIABLES
  pc,         (* "prompt", "loop" in the launcher, "exited" or "crashed"    *)
  world,      (* the table of aliases, the environment, the directory       *)
  found,      (* what a pattern matches in the directory: the file system   *)
  seen,       (* history: the same, when the line was read                  *)
  expansion,  (* the line as history_expand() returned it                   *)
  queue,      (* the commands the parser made of it                         *)
  i,          (* how many of them were popped                               *)
  last,       (* lastCommand, as its place in the queue; 0 is NULL          *)
  freed,      (* history: command -> how often commandFree() was called     *)
  ran         (* history: the words each command was run with, and where    *)

vars == <<pc, world, found, seen, expansion, queue, i, last, freed, ran>>

Init ==
  /\ pc = "prompt"
  /\ world = Start
  /\ found = Any
  /\ seen = Any
  /\ expansion = <<>>
  /\ queue = <<>>
  /\ i = 0
  /\ last = 0
  /\ freed = <<>>
  /\ ran = <<>>

-----------------------------------------------------------------------------
(* parseInput(): aliases and variables of all the commands are expanded    *)
(* now, and wordexp() cuts the line at the first it refuses.               *)

Cut(l, m) ==
  /\ m \in 0..Len(l)
  /\ \A j \in 1..m : Accepts(world, l[j].text)
  /\ m < Len(l) => ~Accepts(world, l[m + 1].text)

Parsed(l, m) == [j \in 1..m |-> [words |-> Words(world, found, l[j].text),
                                 conn |-> l[j].conn, file |-> l[j].file]]

\* What the line before left allocated is lost.
ReadLine ==
  /\ pc = "prompt"
  /\ \E l \in Lines : \E m \in 0..Len(l) :
       /\ Cut(l, m)
       /\ expansion' = l
       /\ queue' = Parsed(l, m)
       /\ freed' = [j \in 1..m |-> 0]
  /\ seen' = found
  /\ pc' = "loop"
  /\ i' = 0
  /\ last' = 0
  /\ ran' = <<>>
  /\ UNCHANGED <<world, found>>

\* readline() gives NULL, which history_expand() reads.
EndOfInput ==
  /\ pc = "prompt"
  /\ pc' = "crashed"
  /\ UNCHANGED <<world, found, seen, expansion, queue, i, last, freed, ran>>

-----------------------------------------------------------------------------
(* executeCommandsInQueue(), a round of its loop at a time; every way out  *)
(* leads back to the prompt by way of queueFree(), which frees the         *)
(* commands that are still queued.                                         *)

n   == Len(queue)
cmd == queue[i + 1]

Loop  == pc = "loop" /\ i < n
Piped == cmd.conn = "pipe" \/ (last # 0 /\ queue[last].conn = "pipe")
Ran(here) == ran' = Append(ran, [at |-> i + 1, words |-> cmd.words, here |-> here])

\* commandFree() is called for the commands in the set F.
Free(F) == freed' = [j \in 1..n |-> freed[j] + IF j \in F THEN 1 ELSE 0]

InShell ==
  /\ ~Piped /\ cmd.conn # "bg" /\ i + 1 = n
  /\ Own(cmd.words)

(* return -1: cmd and lastCommand are lost; queueFree() frees what was not *)
(* popped yet.                                                             *)
OpenFails ==
  /\ Loop
  /\ cmd.file
  /\ Free((i + 2)..n)
  /\ i' = i + 1
  /\ pc' = "prompt"
  /\ UNCHANGED <<world, found, seen, expansion, queue, last, ran>>

\* commandFree(cmd); lastCommand is lost.
RunBuiltin ==
  /\ Loop
  /\ InShell
  /\ ~Ends(cmd.words)
  /\ world' = executeCommand(world, cmd.words)
  /\ Ran(TRUE)
  /\ Free({i + 1})
  /\ i' = i + 1
  /\ pc' = "prompt"
  /\ UNCHANGED <<found, seen, expansion, queue, last>>

RunLast ==
  /\ Loop
  /\ InShell
  /\ Ends(cmd.words)
  /\ Ran(TRUE)
  /\ i' = i + 1
  /\ pc' = IF Faulty(cmd.words) THEN "crashed" ELSE "exited"
  /\ UNCHANGED <<world, found, seen, expansion, queue, last, freed>>

\* Mutant: commandFree(cmd) instead of commandFree(lastCommand).
ForkFreesCmd ==
  /\ Loop
  /\ ~InShell
  /\ Ran(FALSE) \/ UNCHANGED ran
  /\ Free({i + 1})
  /\ last' = i + 1
  /\ i' = i + 1
  /\ UNCHANGED <<pc, world, found, seen, expansion, queue>>

\* Mutant: a builtin is run before the fork.
ForkAfterwards ==
  /\ Loop
  /\ ~InShell
  /\ world' = IF isBuiltin(cmd.words) THEN executeCommand(world, cmd.words) ELSE world
  /\ Ran(FALSE) \/ UNCHANGED ran
  /\ Free({last})
  /\ last' = i + 1
  /\ i' = i + 1
  /\ UNCHANGED <<pc, found, seen, expansion, queue>>

(* fork(): the child runs the words, builtins included, on its own copy of *)
(* the world.  The shell frees lastCommand; cmd takes its place.           *)
Fork ==
  /\ Loop
  /\ ~InShell
  /\ Ran(FALSE) \/ UNCHANGED ran
  /\ Free({last})
  /\ last' = i + 1
  /\ i' = i + 1
  /\ UNCHANGED <<pc, world, found, seen, expansion, queue>>

Return ==
  /\ pc = "loop"
  /\ i = n
  /\ Free({last})
  /\ pc' = "prompt"
  /\ UNCHANGED <<world, found, seen, expansion, queue, i, last, ran>>

\* A child of the line makes a file; the shell may be anywhere.
Create ==
  /\ \E j \in DOMAIN ran : Creates(ran[j].words)
  /\ found' = <<"f">>
  /\ UNCHANGED <<pc, world, seen, expansion, queue, i, last, freed, ran>>

Next ==
  \/ ReadLine
  \/ EndOfInput
  \/ OpenFails
  \/ RunBuiltin
  \/ RunLast
  \/ Fork
  \/ Return
  \/ Create

Spec == Init /\ [][Next]_vars

-----------------------------------------------------------------------------
Word    == Seq(String)
Queued  == [words : Seq(Word), conn : Conns, file : BOOLEAN]

\* Type invariant of the session.
TypeOK ==
  /\ pc \in {"prompt", "loop", "exited", "crashed"}
  /\ world \in [alias : [Alias -> Word], var : [Var -> Word], dir : Dirs]
  /\ found \in Word /\ seen \in Word
  /\ expansion \in Seq(Command)
  /\ queue \in Seq(Queued)
  /\ n <= Len(expansion)
  /\ i \in 0..n
  /\ last \in 0..i
  /\ freed \in [1..n -> Nat]
  /\ ran \in Seq([at : 1..n, words : Seq(Word), here : BOOLEAN])

\* The commands of the queue that are still allocated.
Held == {j \in 1..n : freed[j] = 0}

(* No command is freed twice.  In the loop exactly lastCommand and what    *)
(* was not popped yet are allocated, so that none is used when it is gone  *)
(* or dropped (jobs.c:110-113, 151-152, 207-209).  A return out of the     *)
(* loop leaves at most the two commands at hand: what was never popped is  *)
(* freed by queueFree() (main.c:137, queue.c:77-89).                       *)
CommandsOwned ==
  /\ \A j \in 1..n : freed[j] <= 1
  /\ pc = "loop" => Held = (i + 1)..n \cup ({last} \ {0})
  /\ pc = "prompt" => Held \subseteq {i - 1, i}

(* The words made when the line is read are those that would be made when  *)
(* each command's turn comes: no alias, variable or directory that one     *)
(* command of a line sets reaches a later one anyway (parser.rl:76-79      *)
(* against jobs.c:185-192).  Only of the files, which the children of the  *)
(* line may make, a pattern sees those of before the line.                 *)
Turns == INSTANCE Interpreter WITH
  mode <- IF pc = "prompt" THEN "idle" ELSE IF pc = "loop" THEN "busy" ELSE "gone",
  line <- expansion,
  next <- IF pc = "loop" THEN i + 1 ELSE 0

IsInterpreter == Turns!Spec
=============================================================================
