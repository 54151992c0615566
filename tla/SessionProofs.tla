--------------------------- MODULE SessionProofs ----------------------------
(***************************************************************************)
(* Theorems about Session, for any lines, aliases, variables and           *)
(* directories.                                                            *)
(*                                                                         *)
(* All of them rest on what is true in the middle of a line: the commands  *)
(* still to be run were made of the line with the shell's present aliases  *)
(* and variables (UpToDate), because the only command that changes these   *)
(* is the last one; and exactly two kinds of commands are allocated, those *)
(* not yet popped and the one popped last (CommandsOwned).                 *)
(***************************************************************************)
EXTENDS Session, FiniteSetTheorems, SequenceTheorems, WellFoundedInduction, TLAPS

\* The numbers: the places in the line, and in the queue made of it.
Places ==
  /\ pc \in {"prompt", "loop", "exited", "crashed"}
  /\ expansion \in Seq(Command)
  /\ n \in Nat /\ n <= Len(expansion)
  /\ queue = [j \in 1..n |-> queue[j]]
  /\ i \in 0..n
  /\ last \in 0..i
  /\ pc = "loop" => last = i

\* What the parser made of the line is what it would make of it now.
UpToDate ==
  pc = "loop" =>
    /\ Cut(expansion, n)
    /\ \A j \in 1..n : queue[j] = [words |-> Words(world, seen, expansion[j].text),
                                   conn  |-> expansion[j].conn,
                                   file  |-> expansion[j].file]

\* What was run is a sequence of commands of this line.
History == \E S : ran \in Seq([at : 1..n, words : S, here : BOOLEAN])

Counts == freed \in [1..n -> Nat]

IInv == Places /\ UpToDate /\ History /\ Counts /\ CommandsOwned

-----------------------------------------------------------------------------
LEMMA InitIInv == Init => IInv
<1> SUFFICES ASSUME Init PROVE IInv
  OBVIOUS
<1> USE DEF Init, n
<1>1. Places /\ UpToDate
  BY DEF Places, UpToDate
<1>2. History
  BY DEF History
<1>3. Counts /\ CommandsOwned
  BY DEF Counts, CommandsOwned, Held
<1> QED
  BY <1>1, <1>2, <1>3 DEF IInv

LEMMA ReadLineIInv == IInv /\ ReadLine => IInv'
<1> SUFFICES ASSUME IInv, ReadLine PROVE IInv'
  OBVIOUS
<1>1. PICK l \in Lines : \E m \in 0..Len(l) :
        /\ Cut(l, m)
        /\ expansion' = l
        /\ queue' = Parsed(l, m)
        /\ freed' = [j \in 1..m |-> 0]
  BY DEF ReadLine
<1>2. PICK m \in 0..Len(l) :
        /\ Cut(l, m)
        /\ expansion' = l
        /\ queue' = Parsed(l, m)
        /\ freed' = [j \in 1..m |-> 0]
  BY <1>1
<1>3. /\ pc' = "loop" /\ i' = 0 /\ last' = 0 /\ ran' = <<>>
      /\ seen' = found /\ world' = world /\ found' = found
  BY DEF ReadLine
<1>4. l \in Seq(Command) /\ Len(l) \in Nat /\ m \in Nat /\ m <= Len(l)
  BY SessionAssumption
<1>5. n' = m /\ queue' = [j \in 1..m |-> queue'[j]]
  BY <1>2, <1>4 DEF n, Parsed
<1>6. \A j \in 1..m : queue'[j] = [words |-> Words(world, found, l[j].text),
                                   conn |-> l[j].conn, file |-> l[j].file]
  BY <1>2 DEF Parsed
<1>8. Places'
  BY <1>2, <1>3, <1>4, <1>5 DEF Places
<1>9. UpToDate'
  BY <1>2, <1>3, <1>5, <1>6 DEF UpToDate, Cut
<1>11. History'
  BY <1>3 DEF History
<1>12. Counts' /\ CommandsOwned'
  BY <1>2, <1>3, <1>4, <1>5 DEF Counts, CommandsOwned, Held
<1> QED
  BY <1>8, <1>9, <1>11, <1>12 DEF IInv

\* What is freed for the first time is held no longer.
LEMMA FreeCounts ==
  ASSUME Counts, n' = n, NEW F \in SUBSET Held, Free(F),
         \A j \in 1..n : freed[j] <= 1
  PROVE  Counts' /\ Held' = Held \ F /\ \A j \in 1..n : freed'[j] <= 1
<1>1. freed' = [j \in 1..n |-> freed[j] + IF j \in F THEN 1 ELSE 0]
  BY DEF Free
<1>2. \A j \in 1..n : /\ freed[j] \in Nat /\ (j \in F => freed[j] = 0)
                       /\ freed'[j] = freed[j] + IF j \in F THEN 1 ELSE 0
  BY <1>1 DEF Counts, Held
<1>3. \A j \in 1..n : /\ freed'[j] \in Nat /\ freed'[j] <= 1
                       /\ freed'[j] = 0 <=> (freed[j] = 0 /\ j \notin F)
  BY <1>2
<1> QED
  BY <1>1, <1>3 DEF Counts, Held

\* The queue stays; one more command may have been run.
LEMMA RanHistory ==
  ASSUME IInv, Loop, queue' = queue, NEW here \in BOOLEAN,
         Ran(here) \/ UNCHANGED ran
  PROVE  History'
<1>1. n' = n
  BY DEF n
<1>2. CASE UNCHANGED ran
  BY <1>1, <1>2 DEF IInv, History
<1>3. CASE Ran(here)
  <2>1. PICK S : ran \in Seq([at : 1..n, words : S, here : BOOLEAN])
    BY DEF IInv, History
  <2> DEFINE T == S \cup {cmd.words}
             e == [at |-> i + 1, words |-> cmd.words, here |-> here]
  <2>2. ran \in Seq([at : 1..n, words : T, here : BOOLEAN])
    <3>1. [at : 1..n, words : S, here : BOOLEAN]
            \subseteq [at : 1..n, words : T, here : BOOLEAN]
      OBVIOUS
    <3> QED
      BY <2>1, <3>1, SeqMonotonic
  <2>3. e \in [at : 1..n, words : T, here : BOOLEAN]
    BY DEF IInv, Places, Loop
  <2>4. ran' = Append(ran, e)
    BY <1>3 DEF Ran
  <2>5. ran' \in Seq([at : 1..n, words : T, here : BOOLEAN])
    BY <2>2, <2>3, <2>4, AppendProperties
  <2> QED
    BY <1>1, <2>5 DEF History
<1> QED
  BY <1>2, <1>3

\* The steps of the loop: the line and its queue stay as they are.
LEMMA LoopIInv ==
  IInv /\ (OpenFails \/ RunBuiltin \/ RunLast \/ Fork) => IInv'
<1> SUFFICES ASSUME IInv, OpenFails \/ RunBuiltin \/ RunLast \/ Fork
             PROVE  IInv'
  OBVIOUS
<1>1. /\ Loop /\ queue' = queue /\ expansion' = expansion /\ seen' = seen
      /\ i' = i + 1 /\ n' = n
      /\ Ran(TRUE) \/ Ran(FALSE) \/ UNCHANGED ran
  BY DEF OpenFails, RunBuiltin, RunLast, Fork, n
<1>2. /\ last' \in {last, i + 1}
      /\ pc' = "loop" => last' = i + 1 /\ world' = world
      /\ pc' \in {"prompt", "loop", "exited", "crashed"}
  BY <1>1 DEF OpenFails, RunBuiltin, RunLast, Fork, Loop
<1>3. Places'
  BY <1>1, <1>2 DEF IInv, Places, Loop
<1>4. UpToDate'
  BY <1>1, <1>2 DEF IInv, UpToDate, Loop, Cut
<1>6. History'
  BY <1>1, RanHistory
<1>7. Counts' /\ CommandsOwned'
  <2>1. /\ Held = (i + 1)..n \cup ({last} \ {0}) /\ last = i
        /\ i \in Nat /\ n \in Nat /\ i < n
        /\ Counts /\ \A j \in 1..n : freed[j] <= 1
    BY <1>1 DEF IInv, CommandsOwned, Places, Loop
  <2>2. CASE OpenFails
    <3>1. (i + 2)..n \subseteq Held /\ Free((i + 2)..n) /\ pc' = "prompt"
      BY <2>1, <2>2 DEF OpenFails
    <3>2. /\ Counts' /\ Held' = Held \ (i + 2)..n
          /\ \A j \in 1..n : freed'[j] <= 1
      BY <1>1, <2>1, <3>1, FreeCounts
    <3> QED
      BY <1>1, <2>1, <3>1, <3>2 DEF CommandsOwned
  <2>3. CASE RunBuiltin
    <3>1. {i + 1} \subseteq Held /\ Free({i + 1}) /\ pc' = "prompt" /\ i + 1 = n
      BY <2>1, <2>3 DEF RunBuiltin, InShell
    <3>2. /\ Counts' /\ Held' = Held \ {i + 1}
          /\ \A j \in 1..n : freed'[j] <= 1
      BY <1>1, <2>1, <3>1, FreeCounts
    <3> QED
      BY <1>1, <2>1, <3>1, <3>2 DEF CommandsOwned
  <2>4. CASE RunLast
    <3>1. freed' = freed /\ pc' \notin {"loop", "prompt"}
      BY <2>4 DEF RunLast
    <3> QED
      BY <1>1, <2>1, <3>1 DEF Counts, CommandsOwned
  <2>5. CASE Fork
    <3>1. Free({last}) /\ last' = i + 1 /\ pc' = "loop"
      BY <2>5 DEF Fork, Loop
    <3>2. Free({last} \ {0})
      BY <2>1, <3>1 DEF Free
    <3>3. /\ Counts' /\ Held' = Held \ {last}
          /\ \A j \in 1..n : freed'[j] <= 1
      BY <1>1, <2>1, <3>2, FreeCounts DEF Held
    <3> QED
      BY <1>1, <2>1, <3>1, <3>3 DEF CommandsOwned
  <2> QED
    BY <2>2, <2>3, <2>4, <2>5
<1> QED
  BY <1>3, <1>4, <1>6, <1>7 DEF IInv

\* The steps that touch neither the line nor where the launcher is in it.
LEMMA OutsideIInv ==
  IInv /\ (EndOfInput \/ Return \/ Create \/ UNCHANGED vars) => IInv'
<1> SUFFICES ASSUME IInv, EndOfInput \/ Return \/ Create \/ UNCHANGED vars
             PROVE  IInv'
  OBVIOUS
<1>1. /\ UNCHANGED <<world, seen, expansion, queue, i, last, ran>>
      /\ pc' = pc \/ pc' \in {"prompt", "crashed"}
      /\ n' = n
  BY DEF EndOfInput, Return, Create, vars, n
<1>2. Places' /\ UpToDate'
  BY <1>1 DEF IInv, Places, UpToDate, Cut
<1>3. History'
  BY <1>1 DEF IInv, History
<1>4. Counts' /\ CommandsOwned'
  <2>1. CASE Return
    <3>1. /\ Held = (n + 1)..n \cup ({last} \ {0}) /\ n \in Nat
          /\ Counts /\ \A j \in 1..n : freed[j] <= 1
      BY <2>1 DEF IInv, CommandsOwned, Places, Return
    <3>2. {last} \ {0} \subseteq Held /\ Free({last} \ {0})
      BY <2>1, <3>1 DEF Return, Free
    <3>3. /\ Counts' /\ Held' = {}
          /\ \A j \in 1..n : freed'[j] <= 1
      BY <1>1, <3>1, <3>2, FreeCounts
    <3> QED
      BY <1>1, <2>1, <3>3 DEF Return, CommandsOwned
  <2>2. CASE EndOfInput
    BY <1>1, <2>2 DEF IInv, EndOfInput, CommandsOwned, Counts
  <2>3. CASE Create \/ UNCHANGED vars
    BY <2>3, <1>1 DEF IInv, Create, vars, CommandsOwned, Counts, Held
  <2> QED
    BY <2>1, <2>2, <2>3
<1> QED
  BY <1>2, <1>3, <1>4 DEF IInv

LEMMA NextIInv == IInv /\ [Next]_vars => IInv'
BY ReadLineIInv, LoopIInv, OutsideIInv DEF Next

LEMMA Invariance == Spec => []IInv
<1>1. Init => IInv
  BY InitIInv
<1>2. IInv /\ [Next]_vars => IInv'
  BY NextIInv
<1> QED
  BY <1>1, <1>2, PTL DEF Spec

(* No command is freed twice, used after commandFree() or lost in the      *)
(* loop, and a return out of it loses at most the two at hand: queueFree() *)
(* frees those never popped (src/src/jobs.c:110-113, 189-191, 207-209,     *)
(* 224; src/src/main.c:137, src/src/queue.c:77-89).                        *)
THEOREM Owned == Spec => []CommandsOwned
<1>1. IInv => CommandsOwned
  BY DEF IInv
<1> QED
  BY <1>1, Invariance, PTL

-----------------------------------------------------------------------------
(* The words of the commands.                                              *)

\* Interpreter uses the same functions of the shell's state.
LEMMA SameWords ==
  ASSUME NEW w, NEW f, NEW text
  PROVE  /\ Turns!Accepts(w, text) = Accepts(w, text)
         /\ Turns!Words(w, f, text) = Words(w, f, text)
<1>1. /\ Turns!None = None /\ Turns!Any = Any /\ Turns!Bad = Bad
      /\ Turns!expandAlias(w, text) = expandAlias(w, text)
  BY DEF expandAlias, None, Any, Bad,
         Turns!expandAlias, Turns!None, Turns!Any, Turns!Bad,
         Cardinality, Turns!Cardinality
<1>2. Turns!Accepts(w, text) = Accepts(w, text)
  BY <1>1 DEF Accepts, Turns!Accepts
<1>3. Turns!Words(w, f, text) = Words(w, f, text)
  BY <1>1 DEF Words, Turns!Words
<1> QED
  BY <1>2, <1>3

LEMMA SameBuiltins ==
  ASSUME NEW w, NEW words
  PROVE  /\ Turns!Own(words) = Own(words)
         /\ Turns!Ends(words) = Ends(words)
         /\ Turns!Creates(words) = Creates(words)
         /\ Turns!executeCommand(w, words) = executeCommand(w, words)
BY DEF Own, Ends, Creates, executeCommand, isBuiltin, Faulty, Path, commands, None,
       cmd_alias, cmd_unalias, cmd_export, cmd_cd, Assigns,
       Turns!Own, Turns!Ends, Turns!Creates, Turns!executeCommand,
       Turns!isBuiltin, Turns!Faulty, Turns!Path, Turns!commands, Turns!None,
       Turns!cmd_alias, Turns!cmd_unalias, Turns!cmd_export, Turns!cmd_cd,
       Turns!Assigns

(* In the loop the command just popped is the one whose turn it is, the    *)
(* words made of it long ago are those of now, and the shell runs it       *)
(* itself where the interpreter would.                                     *)
LEMMA Turn ==
  ASSUME IInv, Loop
  PROVE  /\ Turns!Ready(i + 1)
         /\ Turns!words = cmd.words
         /\ Turns!Here <=> InShell
         /\ expansion[i + 1].file = cmd.file
<1>1. /\ pc = "loop" /\ i \in Nat /\ n \in Nat /\ i < n /\ last = i
      /\ n <= Len(expansion) /\ Len(expansion) \in Nat
      /\ DOMAIN expansion = 1..Len(expansion)
  BY DEF IInv, Places, Loop
<1>2. /\ \A j \in 1..n : Accepts(world, expansion[j].text)
      /\ n < Len(expansion) => ~Accepts(world, expansion[n + 1].text)
  BY <1>1 DEF IInv, UpToDate, Cut
<1>3. ASSUME NEW j \in 1..n
      PROVE  /\ queue[j].words = Words(world, seen, expansion[j].text)
             /\ queue[j].conn = expansion[j].conn
             /\ queue[j].file = expansion[j].file
  <2>1. queue[j] = [words |-> Words(world, seen, expansion[j].text),
                    conn  |-> expansion[j].conn,
                    file  |-> expansion[j].file]
    BY <1>1 DEF IInv, UpToDate
  <2> QED
    BY <2>1
<1>c. /\ cmd.words = Words(world, seen, expansion[i + 1].text)
      /\ cmd.conn = expansion[i + 1].conn
      /\ cmd.file = expansion[i + 1].file
  <2>1. i + 1 \in 1..n
    BY <1>1
  <2> QED
    BY <2>1, <1>3 DEF cmd
<1>4. \A j \in 1..n : Turns!Ready(j)
  BY <1>1, <1>2, SameWords DEF Turns!Ready
<1>5. ~Turns!Ready(n + 1)
  BY <1>1, <1>2, SameWords DEF Turns!Ready
<1>6. Turns!words = cmd.words
  BY <1>1, <1>c, SameWords DEF Turns!words
<1>7. ~Turns!Ready(i + 2) <=> i + 1 = n
  BY <1>1, <1>4, <1>5
<1>8. Turns!InPipe <=> Piped
  <2>1. i # 0 => queue[i].conn = expansion[i].conn
    BY <1>1, <1>3
  <2>2. (i + 1) - 1 = i /\ (i + 1 > 1 <=> i # 0)
    BY <1>1
  <2> QED
    BY <1>1, <1>c, <2>1, <2>2 DEF Turns!InPipe, Piped
<1>9. Turns!Here <=> InShell
  <2>1. Turns!Own(Turns!words) = Own(cmd.words)
    BY <1>6, SameBuiltins
  <2>2. (i + 1) + 1 = i + 2
    BY <1>1
  <2> QED
    BY <1>1, <1>7, <1>8, <1>c, <2>1, <2>2 DEF Turns!Here, InShell
<1> QED
  BY <1>1, <1>4, <1>6, <1>9, <1>c

LEMMA LoopInterprets ==
  IInv /\ (OpenFails \/ RunBuiltin \/ RunLast \/ Fork) => Turns!Next
<1> SUFFICES ASSUME IInv, OpenFails \/ RunBuiltin \/ RunLast \/ Fork
             PROVE  Turns!Next
  OBVIOUS
<1>0. Loop
  BY DEF OpenFails, RunBuiltin, RunLast, Fork
<1>1. /\ pc = "loop" /\ Turns!Ready(i + 1) /\ Turns!words = cmd.words
      /\ Turns!Here <=> InShell
      /\ expansion[i + 1].file = cmd.file
  BY <1>0, Turn DEF Loop
<1>2. /\ Ran(TRUE) => Turns!Run(TRUE)
      /\ Ran(FALSE) => Turns!Run(FALSE)
  BY <1>1 DEF Ran, Turns!Run
<1>3. CASE OpenFails
  <2>1. Turns!Return
    BY <1>1, <1>3 DEF OpenFails, Turns!Return
  <2> QED
    BY <2>1 DEF Turns!Next
<1>4. CASE RunBuiltin
  <2>1. /\ Turns!Ends(Turns!words) = Ends(cmd.words)
        /\ Turns!executeCommand(world, Turns!words) = executeCommand(world, cmd.words)
    BY <1>1, SameBuiltins
  <2>2. Turns!RunHere
    BY <1>1, <1>2, <1>4, <2>1 DEF RunBuiltin, Turns!RunHere
  <2> QED
    BY <2>2 DEF Turns!Next
<1>5. CASE RunLast
  <2>1. Turns!Ends(Turns!words) = Ends(cmd.words)
    BY <1>1, SameBuiltins
  <2>2. pc' \in {"exited", "crashed"}
    BY <1>5 DEF RunLast
  <2>3. Turns!RunHere
    BY <1>1, <1>2, <1>5, <2>1, <2>2 DEF RunLast, Turns!RunHere
  <2> QED
    BY <2>3 DEF Turns!Next
<1>6. CASE Fork
  <2>1. i' + 1 = (i + 1) + 1
    BY <1>6 DEF Fork
  <2>2. Turns!RunInChild
    BY <1>1, <1>2, <1>6, <2>1 DEF Fork, Turns!RunInChild
  <2> QED
    BY <2>2 DEF Turns!Next
<1> QED
  BY <1>3, <1>4, <1>5, <1>6

LEMMA ReadLineInterprets == ReadLine => Turns!ReadLine
<1> SUFFICES ASSUME ReadLine PROVE Turns!ReadLine
  OBVIOUS
<1>1. expansion' \in Seq(Command)
  BY SessionAssumption DEF ReadLine
<1>2. Command \subseteq Turns!Command
  BY DEF Command, Conns, Turns!Command
<1>3. expansion' \in Seq(Turns!Command)
  BY <1>1, <1>2, SeqMonotonic
<1> QED
  BY <1>3 DEF ReadLine, Turns!ReadLine

LEMMA OutsideInterprets ==
  IInv /\ (EndOfInput \/ Return \/ Create \/ UNCHANGED vars)
    => [Turns!Next]_(Turns!vars)
<1> SUFFICES ASSUME IInv, EndOfInput \/ Return \/ Create \/ UNCHANGED vars
             PROVE  [Turns!Next]_(Turns!vars)
  OBVIOUS
<1>1. CASE EndOfInput
  BY <1>1 DEF EndOfInput, Turns!Leave, Turns!Next
<1>2. CASE Return
  <2>1. /\ pc = "loop" /\ i = n /\ n \in Nat
        /\ n < Len(expansion) => ~Accepts(world, expansion[n + 1].text)
        /\ n <= Len(expansion) /\ Len(expansion) \in Nat
        /\ DOMAIN expansion = 1..Len(expansion)
    BY <1>2 DEF Return, IInv, Places, UpToDate, Cut
  <2>2. ~Turns!Ready(i + 1)
    BY <2>1, SameWords DEF Turns!Ready
  <2>3. Turns!Return
    BY <1>2, <2>1, <2>2 DEF Return, Turns!Return
  <2> QED
    BY <2>3 DEF Turns!Next
<1>3. CASE Create
  <2>1. \E j \in DOMAIN ran : Turns!Creates(ran[j].words)
    BY <1>3, SameBuiltins DEF Create
  <2>2. Turns!Create
    BY <1>3, <2>1 DEF Create, Turns!Create
  <2> QED
    BY <2>2 DEF Turns!Next
<1>4. CASE UNCHANGED vars
  BY <1>4 DEF vars, Turns!vars
<1> QED
  BY <1>1, <1>2, <1>3, <1>4

LEMMA StepInterprets == IInv /\ [Next]_vars => [Turns!Next]_(Turns!vars)
<1>1. Turns!ReadLine => Turns!Next
  BY DEF Turns!Next
<1> QED
  BY <1>1, ReadLineInterprets, LoopInterprets, OutsideInterprets DEF Next

(* Reading all the words of a line at once and reading them one command at *)
(* a time makes no difference, but for the files patterns match: no        *)
(* builtin of the line can reach a later command (src/src/parser.rl:76-79  *)
(* against src/src/jobs.c:185-192).                                        *)
THEOREM Interprets == Spec => IsInterpreter
<1>1. Init => Turns!Init
  BY DEF Init, Start, None, Any, Turns!Init, Turns!Start, Turns!None, Turns!Any
<1> QED
  BY <1>1, InitIInv, NextIInv, StepInterprets, PTL
  DEF Spec, IsInterpreter, Turns!Spec

-----------------------------------------------------------------------------
(* A set of naturals has a least element.                                  *)

LEMMA LeastExists ==
  ASSUME NEW S \in SUBSET Nat, S # {}
  PROVE  \E c \in S : \A d \in S : c <= d
<1> DEFINE T == {0..m : m \in S}
<1>1. T \subseteq FiniteSubsetsOf(Nat) /\ T # {}
  <2>1. \A m \in S : 0..m \in SUBSET Nat /\ IsFiniteSet(0..m)
    BY FS_Interval
  <2> QED
    BY <2>1 DEF FiniteSubsetsOf
<1>2. IsWellFoundedOn(StrictSubsetOrdering(Nat), FiniteSubsetsOf(Nat))
  BY FS_StrictSubsetOrderingWellFounded
<1> HIDE DEF T
<1>3. \E X \in T : \A Y \in T : <<Y, X>> \notin StrictSubsetOrdering(Nat)
  BY <1>1, <1>2, WFMin
<1>4. PICK c \in S : \A d \in S : <<0..d, 0..c>> \notin StrictSubsetOrdering(Nat)
  BY <1>3 DEF T
<1>5. ASSUME NEW d \in S, d < c PROVE FALSE
  <2>1. 0..d \subseteq 0..c /\ c \in 0..c /\ c \notin 0..d
    BY <1>5
  <2>2. <<0..d, 0..c>> \in StrictSubsetOrdering(Nat)
    BY <2>1 DEF StrictSubsetOrdering
  <2> QED
    BY <1>4, <2>2
<1> QED
  BY <1>5

-----------------------------------------------------------------------------
(* Loops that turn x0 into something of X in N rounds: the definition by   *)
(* recursion over the rounds has a solution, and it stays in X.            *)

Rounds(g, N, x0, step) ==
  g = [m \in 0..N |-> IF m = 0 THEN x0 ELSE step[m][g[m - 1]]]

LEMMA RoundsExist ==
  ASSUME NEW X, NEW N \in Nat, NEW x0 \in X,
         NEW step \in [1..N -> [X -> X]]
  PROVE  \E g : Rounds(g, N, x0, step)
<1> DEFINE Upto(k, g) == /\ g \in [0..k -> X] /\ g[0] = x0
                         /\ \A m \in 1..k : g[m] = step[m][g[m - 1]]
           Missing == {k \in 0..N : \A g : ~Upto(k, g)}
<1>1. Upto(0, [m \in 0..0 |-> x0])
  OBVIOUS
<1>2. ASSUME NEW k \in 1..N, NEW g, Upto(k - 1, g)
      PROVE  \E h : Upto(k, h)
  <2> DEFINE h == [m \in 0..k |-> IF m = k THEN step[k][g[k - 1]] ELSE g[m]]
  <2>1. g[k - 1] \in X /\ step[k][g[k - 1]] \in X
    BY <1>2
  <2>2. h \in [0..k -> X] /\ h[0] = x0
    BY <1>2, <2>1
  <2>3. ASSUME NEW m \in 1..k PROVE h[m] = step[m][h[m - 1]]
    BY <1>2
  <2> HIDE DEF h
  <2> QED
    BY <2>2, <2>3
<1>3. Missing = {}
  <2> SUFFICES ASSUME Missing # {} PROVE FALSE
    OBVIOUS
  <2> HIDE DEF Upto
  <2>1. Missing \in SUBSET Nat
    OBVIOUS
  <2>2. PICK k \in Missing : \A l \in Missing : k <= l
    <3> HIDE DEF Missing
    <3> QED
      BY <2>1, LeastExists
  <2>3. k \in 0..N /\ \A g : ~Upto(k, g)
    OBVIOUS
  <2>4. k # 0
    BY <1>1, <2>3
  <2>5. k \in 1..N /\ k - 1 \in 0..N /\ k - 1 \notin Missing
    BY <2>2, <2>3, <2>4
  <2> QED
    BY <1>2, <2>3, <2>5
<1>4. PICK g : Upto(N, g)
  <2> HIDE DEF Upto
  <2>1. N \in 0..N /\ N \notin Missing
    <3> HIDE DEF Missing
    <3> QED
      BY <1>3
  <2> QED
    BY <2>1
<1>5. Rounds(g, N, x0, step)
  <2>1. g = [m \in 0..N |-> g[m]]
    BY <1>4
  <2>2. \A m \in 0..N : m # 0 => m \in 1..N
    OBVIOUS
  <2>3. \A m \in 0..N : g[m] = IF m = 0 THEN x0 ELSE step[m][g[m - 1]]
    BY <1>4, <2>2
  <2> QED
    BY <2>1, <2>3 DEF Rounds
<1> QED
  BY <1>5

LEMMA RoundsStay ==
  ASSUME NEW X, NEW N \in Nat, NEW g, g[0] \in X,
         \A m \in 1..N : g[m - 1] \in X => g[m] \in X
  PROVE  \A m \in 0..N : g[m] \in X
<1> DEFINE Outside == {m \in 0..N : g[m] \notin X}
<1> SUFFICES ASSUME Outside # {} PROVE FALSE
  OBVIOUS
<1>1. Outside \in SUBSET Nat
  OBVIOUS
<1>2. PICK k \in Outside : \A l \in Outside : k <= l
  <2> HIDE DEF Outside
  <2> QED
    BY <1>1, LeastExists
<1>3. k \in 1..N /\ g[k] \notin X
  OBVIOUS
<1>4. k - 1 \in 0..N /\ k - 1 \notin Outside
  BY <1>2, <1>3
<1> QED
  BY <1>3, <1>4

-----------------------------------------------------------------------------
(* What the words of a command are made of.                                *)

Worlds == [alias : [Alias -> Word], var : [Var -> Word], dir : Dirs]

LEMMA ExpandedType ==
  ASSUME NEW w \in Worlds, NEW text \in Seq(Word), text # <<>>
  PROVE  expandAlias(w, text) \in Seq(Word)
<1> DEFINE N == Cardinality(Alias)
           Chase(s) ==
             IF \E a \in s.left : s.first = <<a>> /\ w.alias[a] # None
             THEN [first |-> w.alias[s.first[1]], left |-> s.left \ {s.first[1]}]
             ELSE s
           after[m \in 0..N] ==
             IF m = 0 THEN [first |-> text[1], left |-> Alias] ELSE Chase(after[m - 1])
           X == [first : Word, left : SUBSET Alias]
           x0 == [first |-> text[1], left |-> Alias]
           step == [m \in 1..N |-> [x \in X |-> Chase(x)]]
<1>1. N \in Nat
  BY BuiltinsAssumption, FS_CardinalityType
<1>2. x0 \in X
  OBVIOUS
<1>3. ASSUME NEW x \in X PROVE Chase(x) \in X
  <2>1. CASE \E a \in x.left : x.first = <<a>> /\ w.alias[a] # None
    <3>1. PICK a \in x.left : x.first = <<a>>
      BY <2>1
    <3>2. x.first[1] = a /\ a \in Alias
      BY <3>1
    <3>3. w.alias[a] \in Word
      BY <3>2 DEF Worlds
    <3> QED
      BY <2>1, <3>2, <3>3
  <2>2. CASE ~\E a \in x.left : x.first = <<a>> /\ w.alias[a] # None
    BY <2>2
  <2> QED
    BY <2>1, <2>2
<1>4. step \in [1..N -> [X -> X]]
  <2> HIDE DEF Chase, X
  <2> QED
    BY <1>3
<1>5. PICK g : Rounds(g, N, x0, step)
  <2> HIDE DEF N, X, x0, step
  <2> QED
    BY <1>1, <1>2, <1>4, RoundsExist, Zenon
<1>6. \A m \in 0..N : g[m] \in X
  <2>1. g[0] = x0 /\ \A m \in 1..N : g[m] = step[m][g[m - 1]]
    <3> HIDE DEF N, X, x0, step
    <3> QED
      BY <1>1, <1>5 DEF Rounds
  <2> HIDE DEF N, X, x0, step
  <2>2. \A m \in 1..N : g[m - 1] \in X => g[m] \in X
    BY <1>4, <2>1
  <2>3. g[0] \in X
    BY <1>2, <2>1
  <2> QED
    BY <1>1, <2>2, <2>3, RoundsStay
<1>7. g = [m \in 0..N |-> IF m = 0 THEN x0 ELSE Chase(g[m - 1])]
  <2>1. ASSUME NEW m \in 1..N PROVE step[m][g[m - 1]] = Chase(g[m - 1])
    <3>1. g[m - 1] \in X
      <4> HIDE DEF X, N
      <4> QED
        BY <1>1, <1>6
    <3> HIDE DEF X, N, Chase
    <3> QED
      BY <3>1
  <2> HIDE DEF N, X, x0, step, Chase
  <2>2. \A m \in 0..N : m # 0 => m \in 1..N
    BY <1>1
  <2> QED
    BY <1>5, <2>1, <2>2 DEF Rounds
<1>8. after = [m \in 0..N |-> IF m = 0 THEN x0 ELSE Chase(after[m - 1])]
  <2> HIDE DEF N, Chase
  <2> QED
    BY <1>7
<1>9. after[N] \in X
  <2> HIDE DEF after
  <2>1. after[0] = x0 /\ \A m \in 1..N : after[m] = Chase(after[m - 1])
    <3> HIDE DEF N, x0, Chase
    <3> QED
      BY <1>1, <1>8
  <2>2. \A m \in 1..N : after[m - 1] \in X => after[m] \in X
    <3> HIDE DEF X
    <3> QED
      BY <1>3, <2>1
  <2> HIDE DEF X, N, x0, Chase
  <2>3. \A m \in 0..N : after[m] \in X
    BY <1>1, <1>2, <2>1, <2>2, RoundsStay
  <2> QED
    BY <1>1, <2>3
<1>10. after[N].first \in Word
  <2> HIDE DEF after
  <2> QED
    BY <1>9
<1>11. expandAlias(w, text) = <<after[N].first>> \o Tail(text)
  BY DEF expandAlias
<1> QED
  <2> HIDE DEF after
  <2> QED
    BY <1>10, <1>11

LEMMA WordsType ==
  ASSUME NEW w \in Worlds, NEW f \in Word, NEW text \in Seq(Word), text # <<>>
  PROVE  Words(w, f, text) \in Seq(Word)
<1> DEFINE Value(word) == IF Len(word) = 2 /\ word[1] = "$"
                          THEN IF word[2] \in Var THEN w.var[word[2]] ELSE None
                          ELSE IF word = Any THEN f ELSE word
           plain == expandAlias(w, text)
           N == Len(plain)
           of[m \in 0..N] ==
             IF m = 0 THEN <<>>
             ELSE IF Value(plain[m]) = None THEN of[m - 1]
             ELSE Append(of[m - 1], Value(plain[m]))
           X == Seq(Word)
           step == [m \in 1..N |-> [x \in X |->
                      IF Value(plain[m]) = None THEN x ELSE Append(x, Value(plain[m]))]]
           After(m, x) == IF Value(plain[m]) = None THEN x ELSE Append(x, Value(plain[m]))
<1>1. plain \in Seq(Word)
  BY ExpandedType
<1>2. N \in Nat /\ <<>> \in X
  <2> HIDE DEF plain
  <2> QED
    BY <1>1
<1>3. ASSUME NEW m \in 1..N, NEW x \in X PROVE After(m, x) \in X
  <2>1. plain[m] \in Word
    <3> HIDE DEF plain
    <3> QED
      BY <1>1
  <2>2. \A word \in Word : Value(word) \in Word
    <3>1. None \in Word
      BY DEF Word, None
    <3>2. \A v \in Var : w.var[v] \in Word
      BY DEF Worlds
    <3> QED
      BY <3>1, <3>2
  <2>3. Value(plain[m]) \in Word
    <3> HIDE DEF Value, plain
    <3> QED
      BY <2>1, <2>2
  <2> HIDE DEF Value, plain
  <2> QED
    BY <2>3
<1>4. \A m \in 1..N, x \in X : step[m][x] = After(m, x)
  OBVIOUS
<1>5. step \in [1..N -> [X -> X]]
  <2> HIDE DEF Value, plain, N, X
  <2> QED
    BY <1>3
<1>6. PICK g : Rounds(g, N, <<>>, step)
  <2> HIDE DEF N, X, step
  <2> QED
    BY <1>2, <1>5, RoundsExist
<1>7. \A m \in 0..N : g[m] \in X
  <2> HIDE DEF N, X, step
  <2>1. g[0] = <<>> /\ \A m \in 1..N : g[m] = step[m][g[m - 1]]
    BY <1>2, <1>6 DEF Rounds
  <2>2. \A m \in 1..N : g[m - 1] \in X => g[m] \in X
    BY <1>5, <2>1
  <2>3. g[0] \in X
    BY <1>2, <2>1
  <2> QED
    BY <1>2, <2>2, <2>3, RoundsStay
<1>8. g = [m \in 0..N |-> IF m = 0 THEN <<>> ELSE After(m, g[m - 1])]
  <2> HIDE DEF N, X, step, After
  <2>1. \A m \in 0..N : m # 0 => m \in 1..N /\ m - 1 \in 0..N
    BY <1>2
  <2> QED
    BY <1>4, <1>6, <1>7, <2>1 DEF Rounds
<1>9. of = [m \in 0..N |-> IF m = 0 THEN <<>> ELSE After(m, of[m - 1])]
  <2> HIDE DEF N, Value, plain
  <2> QED
    BY <1>8
<1>10. of[N] \in X
  <2> HIDE DEF of
  <2>1. of[0] = <<>> /\ \A m \in 1..N : of[m] = After(m, of[m - 1])
    <3> HIDE DEF N, After
    <3> QED
      BY <1>2, <1>9
  <2> HIDE DEF X, N, After
  <2>2. \A m \in 1..N : of[m - 1] \in X => of[m] \in X
    BY <1>3, <2>1
  <2>3. \A m \in 0..N : of[m] \in X
    BY <1>2, <2>1, <2>2, RoundsStay
  <2> QED
    BY <1>2, <2>3
<1>11. Words(w, f, text) = of[N]
  BY DEF Words
<1> QED
  <2> HIDE DEF of, N
  <2> QED
    BY <1>10, <1>11

-----------------------------------------------------------------------------
(* The types.                                                              *)

LEMMA BuiltinsType ==
  ASSUME NEW w \in Worlds, NEW words \in Seq(Word), words # <<>>
  PROVE  executeCommand(w, words) \in Worlds
<1> DEFINE args == Tail(words)
<1>1. args \in Seq(Word)
  OBVIOUS
<1>2. /\ w.alias \in [Alias -> Word] /\ w.var \in [Var -> Word] /\ w.dir \in Dirs
      /\ w = [alias |-> w.alias, var |-> w.var, dir |-> w.dir]
  BY DEF Worlds
<1>3. None \in Word
  BY DEF Word, None
<1> HIDE DEF args
<1>4. ASSUME Assigns(args) PROVE <<args[1][2]>> \in Word
  <2>1. args[1] \in Word /\ Len(args[1]) = 2
    BY <1>1, <1>4 DEF Assigns
  <2>2. args[1][2] \in String
    BY <2>1 DEF Word
  <2> QED
    BY <2>2 DEF Word
<1>5. cmd_export(w, args) \in Worlds
  BY <1>2, <1>4 DEF cmd_export, Worlds
<1>6. cmd_alias(w, args) \in Worlds
  BY <1>2, <1>4 DEF cmd_alias, Worlds
<1>7. cmd_unalias(w, args) \in Worlds
  BY <1>2, <1>3 DEF cmd_unalias, Worlds
<1>8. cmd_cd(w, args) \in Worlds
  BY <1>2 DEF cmd_cd, Worlds
<1> QED
  BY <1>5, <1>6, <1>7, <1>8 DEF executeCommand, args

LEMMA OneString == None \in Word /\ Any \in Word /\ <<"f">> \in Word
<1>1. ASSUME NEW x \in String PROVE <<x>> \in Seq(String)
  OBVIOUS
<1>2. None \in Word
  BY DEF Word, None
<1>3. Any \in Word /\ <<"f">> \in Word
  BY <1>1, BuiltinsAssumption DEF Word, Any
<1> QED
  BY <1>2, <1>3

LEMMA InitTypeOK == Init => TypeOK
<1> SUFFICES ASSUME Init PROVE TypeOK
  OBVIOUS
<1>1. None \in Word /\ Any \in Word
  BY OneString
<1>2. world \in Worlds
  BY <1>1, BuiltinsAssumption DEF Init, Start, Worlds
<1> QED
  BY <1>1, <1>2 DEF Init, TypeOK, n, Worlds

\* One more command was run.
LEMMA RanType ==
  ASSUME TypeOK, Loop, NEW here \in BOOLEAN, Ran(here) \/ UNCHANGED ran
  PROVE  ran' \in Seq([at : 1..n, words : Seq(Word), here : BOOLEAN])
<1> DEFINE e == [at |-> i + 1, words |-> cmd.words, here |-> here]
           E == [at : 1..n, words : Seq(Word), here : BOOLEAN]
<1>1. ran \in Seq(E)
  BY DEF TypeOK
<1>2. n \in Nat /\ i + 1 \in 1..n
  BY DEF TypeOK, Loop, n
<1>3. cmd \in Queued
  BY <1>2 DEF TypeOK, cmd, n
<1>4. e \in E
  BY <1>2, <1>3 DEF Queued
<1>5. ran' = Append(ran, e) \/ ran' = ran
  BY DEF Ran
<1> HIDE DEF e, E
<1>6. ran' \in Seq(E)
  BY <1>1, <1>4, <1>5
<1> QED
  BY <1>6 DEF E

\* One call of commandFree() more, or none.
LEMMA FreeType ==
  ASSUME TypeOK, queue' = queue, NEW F, Free(F)
  PROVE  freed' \in [1..n' -> Nat]
<1>1. n \in Nat /\ n' = n /\ freed \in [1..n -> Nat]
  BY DEF TypeOK, n
<1>2. \A j \in 1..n : freed[j] + (IF j \in F THEN 1 ELSE 0) \in Nat
  BY <1>1
<1> QED
  BY <1>1, <1>2 DEF Free

LEMMA NextTypeOK == TypeOK /\ [Next]_vars => TypeOK'
<1> SUFFICES ASSUME TypeOK, [Next]_vars PROVE TypeOK'
  OBVIOUS
<1>1. /\ n \in Nat /\ i \in 0..n /\ last \in 0..i /\ world \in Worlds
  BY DEF TypeOK, n, Worlds
<1>2. CASE UNCHANGED vars
  BY <1>2 DEF vars, TypeOK, n
<1>3. CASE ReadLine
  <2>1. PICK l \in Lines : \E m \in 0..Len(l) :
          /\ Cut(l, m) /\ expansion' = l /\ queue' = Parsed(l, m) /\ freed' = [j \in 1..m |-> 0]
    BY <1>3 DEF ReadLine
  <2>2. PICK m \in 0..Len(l) :
          /\ expansion' = l /\ queue' = Parsed(l, m) /\ freed' = [j \in 1..m |-> 0]
    BY <2>1
  <2>3. /\ l \in Seq(Command) /\ Len(l) \in Nat /\ m \in Nat /\ m <= Len(l)
        /\ \A j \in 1..m : l[j] \in Command
    BY SessionAssumption
  <2>4. ASSUME NEW j \in 1..m
        PROVE  [words |-> Words(world, found, l[j].text),
                conn |-> l[j].conn, file |-> l[j].file] \in Queued
    <3>1. /\ l[j].text \in Seq(Word) /\ l[j].text # <<>>
          /\ l[j].conn \in Conns /\ l[j].file \in BOOLEAN
      BY <2>3 DEF Command, Word
    <3>2. found \in Word
      BY DEF TypeOK
    <3>3. Words(world, found, l[j].text) \in Seq(Word)
      BY <1>1, <3>1, <3>2, WordsType
    <3> QED
      BY <3>1, <3>3 DEF Queued
  <2>5. queue' \in Seq(Queued) /\ n' = m
    BY <2>2, <2>3, <2>4 DEF Parsed, n
  <2> QED
    BY <1>3, <2>2, <2>3, <2>5 DEF ReadLine, TypeOK
<1>4. CASE EndOfInput
  BY <1>4 DEF EndOfInput, TypeOK, n
<1>5. CASE OpenFails
  <2>1. freed' \in [1..n' -> Nat]
    BY <1>5, FreeType DEF OpenFails
  <2> QED
    BY <1>1, <1>5, <2>1 DEF OpenFails, Loop, TypeOK, n
<1>6. CASE RunBuiltin
  <2>1. ran' \in Seq([at : 1..n, words : Seq(Word), here : BOOLEAN])
    BY <1>6, RanType DEF RunBuiltin
  <2>2. world' \in Worlds
    <3>1. cmd \in Queued
      BY <1>1, <1>6 DEF RunBuiltin, Loop, TypeOK, cmd, n
    <3>2. cmd.words \in Seq(Word) /\ cmd.words # <<>>
      BY <1>6, <3>1 DEF RunBuiltin, Ends, Faulty, Queued
    <3> QED
      BY <1>1, <1>6, <3>2, BuiltinsType DEF RunBuiltin
  <2>3. freed' \in [1..n' -> Nat]
    BY <1>6, FreeType DEF RunBuiltin
  <2> QED
    BY <1>1, <1>6, <2>1, <2>2, <2>3 DEF RunBuiltin, Loop, TypeOK, n, Worlds
<1>7. CASE RunLast
  <2>1. ran' \in Seq([at : 1..n, words : Seq(Word), here : BOOLEAN])
    BY <1>7, RanType DEF RunLast
  <2> QED
    BY <1>1, <1>7, <2>1 DEF RunLast, Loop, TypeOK, n
<1>8. CASE Fork
  <2>1. ran' \in Seq([at : 1..n, words : Seq(Word), here : BOOLEAN])
    BY <1>8, RanType DEF Fork
  <2>2. freed' \in [1..n' -> Nat]
    BY <1>8, FreeType DEF Fork
  <2> QED
    BY <1>1, <1>8, <2>1, <2>2 DEF Fork, Loop, TypeOK, n
<1>9. CASE Return
  <2>1. freed' \in [1..n' -> Nat]
    BY <1>9, FreeType DEF Return
  <2> QED
    BY <1>1, <1>9, <2>1 DEF Return, TypeOK, n
<1>10. CASE Create
  BY <1>10, OneString DEF Create, TypeOK, n
<1> QED
  BY <1>2, <1>3, <1>4, <1>5, <1>6, <1>7, <1>8, <1>9, <1>10 DEF Next

(* Whatever lines are typed, words stay words: aliases, the environment,   *)
(* the arguments of commands and the directory, which chdir() accepted     *)
(* (src/src/helper.c:71-114, src/src/builtins.c:39-131).                   *)
THEOREM TypeCorrect == Spec => []TypeOK
BY InitTypeOK, NextTypeOK, PTL DEF Spec
=============================================================================
