-------------------------------- MODULE Jobs --------------------------------
(***************************************************************************)
(* src/src/jobs.c: executeCommandsInQueue(), the function that turns one   *)
(* parsed command line into processes.  The shell is a sequential program; *)
(* pc is where it stands in the function, and a step is the code between   *)
(* two points where a child or a signal can make a difference: a           *)
(* waitpid(), a fork() and the assignment that records its result.         *)
(*                                                                         *)
(* "prompt"    in readline(), outside the function                         *)
(* "pop"       head of the loop over the queue                             *)
(* "waitPrev"  blocked in waitpid() for the previous command               *)
(* "redirect"  opening the command's redirections                          *)
(* "launch"    about to run the builtin or to fork                         *)
(* "setFg"     a pipeline stage is forked, its pid not yet recorded        *)
(* "close"     loop finished: closing pipes, restoring descriptors         *)
(* "waitLast"  blocked in waitpid() for the last command                   *)
(* "join"      head of the loop that waits for everything in launched[]    *)
(* "waitAll"   blocked in waitpid() in that loop                           *)
(* "waited"    that call returned -1, errno is to be read                  *)
(* "reset"     about to clear fg_pid and return                            *)
(* "exited"    the shell is gone                                           *)
(***************************************************************************)
EXTENDS Kernel

CONSTANTS Lines,    (* the parsed command lines a user may enter            *)
          MaxLines  (* bound: how many of them are entered                  *)

Conns    == {"none", "pipe", "bg", "seq"}
Builtins == {"builtin", "exit"}

(* What is run, as far as control is concerned: "src" ends by itself,      *)
(* "filter" ends at end-of-file on its descriptor 0, "server" need never   *)
(* end; "exit" is the builtin of that name, "builtin" any other.           *)
Progs == {"src", "filter", "server"} \cup Builtins

(* command_t: connectionMask, argv, redirectFromPath and redirectToPath.   *)
Command == [conn : Conns, prog : Progs, in : BOOLEAN, out : BOOLEAN]

ASSUME JobsAssumption ==
  /\ Lines \subseteq Seq(Command) \ {<<>>}
  /\ MaxLines \in Nat

VARIABLES
  pc,        (* where the shell stands, see above                           *)
  line,      (* the queue it was given                                      *)
  nlines,    (* how many lines were entered                                 *)
  i,         (* how many commands were popped: the code's i, counted from 1 *)
  k,         (* the index of the loop over launched[]                       *)
  pid,       (* the local variable pid                                      *)
  launched,  (* the local array launched[], Unset while uninitialised       *)
  pipes,     (* the local array pipes[]: pipes[j] is the pair 2*(j-1),      *)
             (* 2*(j-1)+1 of the code, Unset while uninitialised            *)
  npipes,    (* how many pipes were created                                 *)
  saved0,    (* what stdin_copy refers to                                   *)
  saved1,    (* what stdout_copy refers to                                  *)
  fg_pid,    (* the global of main.c                                        *)
  job        (* child -> the locals it inherited at the fork                *)

callVars == <<line, nlines, saved0, saved1>>
jobsVars == <<pc, line, nlines, i, k, pid, launched, pipes, npipes,
              saved0, saved1, fg_pid, job>>

Unset == -3
NoPid == -1    \* the initial value of pid, and what a failed fork() returns

cmd  == line[i]
n    == Len(line)
Last == line[i - 1]   \* lastCommand, where i > 1

Blocking == {"waitPrev", "waitLast", "waitAll"}

\* What the waitpid() the shell is blocked in waits for.
Target == IF pc = "waitAll" THEN launched[k] ELSE pid

(* Signals are delivered when the kernel returns to the program: while one *)
(* is pending, or handled, the code of the function does not move on.      *)
Quiet == pend = {} /\ ~inHandler

\* The condition of lines 110-112 and 219-221: c is waited for.
Waited(c) == pid # NoPid /\ c.conn \notin {"pipe", "bg"}

-----------------------------------------------------------------------------
(* Entry and the head of the loop.                                         *)

EnterKeepsIndex(l) ==
  /\ pc' = "pop"
  /\ line' = l
  /\ nlines' = nlines + 1
  /\ pid' = NoPid
  /\ launched' = [j \in 1..Len(l) |-> Unset]
  /\ pipes' = [j \in 1..(Len(l) - 1) |-> Unset]
  /\ saved0' = fd0[Shell]
  /\ saved1' = fd1[Shell]
  /\ UNCHANGED <<i, k, npipes, fg_pid, job>>

\* run() calls the function with the queue l: lines 86-105.
Enter(l) ==
  /\ pc' = "pop"
  /\ line' = l
  /\ nlines' = nlines + 1
  /\ i' = 0
  /\ k' = 1
  /\ pid' = NoPid
  /\ launched' = [j \in 1..Len(l) |-> Unset]
  /\ pipes' = [j \in 1..(Len(l) - 1) |-> Unset]
  /\ saved0' = fd0[Shell]
  /\ saved1' = fd1[Shell]
  /\ UNCHANGED <<npipes, fg_pid, job>>

PopWithoutWaiting ==
  /\ Quiet
  /\ pc = "pop"
  /\ i' = i + 1
  /\ pc' = "redirect"
  /\ UNCHANGED <<callVars, k, pid, launched, pipes, npipes, fg_pid, job>>
  /\ UNCHANGED <<st, fdVars, sigVars>>

Pop ==
  /\ Quiet
  /\ pc = "pop"
  /\ i' = i + 1
  /\ pc' = IF i > 0 /\ Waited(line[i]) THEN "waitPrev" ELSE "redirect"
  /\ UNCHANGED <<callVars, k, pid, launched, pipes, npipes, fg_pid, job>>
  /\ UNCHANGED <<st, fdVars, sigVars>>

\* waitpid(pid, NULL, 0): its result is ignored.
WaitPrev ==
  /\ pc = "waitPrev"
  /\ ~inHandler
  /\ WaitEnds(pid) \/ WaitEintr
  /\ pc' = "redirect"
  /\ UNCHANGED <<callVars, i, k, pid, launched, pipes, npipes, fg_pid, job>>
  /\ UNCHANGED <<fdVars, pend, inHandler, errno>>

-----------------------------------------------------------------------------
(* Redirections.                                                           *)

Redirect ==
  /\ Quiet
  /\ pc = "redirect"
  /\ pc' = "launch"
  /\ fd0' = [fd0 EXCEPT ![Shell] = IF cmd.in THEN InFile(i) ELSE @]
  /\ fd1' = [fd1 EXCEPT ![Shell] = IF cmd.out THEN OutFile(i) ELSE @]
  /\ UNCHANGED <<callVars, i, k, pid, launched, pipes, npipes, fg_pid, job>>
  /\ UNCHANGED <<st, open, sigVars>>

\* An open() fails: return -1, before any dup2() of this iteration.
RedirectFails ==
  /\ Quiet
  /\ pc = "redirect"
  /\ "open" \in Faults
  /\ cmd.in \/ cmd.out
  /\ pc' = "prompt"
  /\ UNCHANGED <<callVars, i, k, pid, launched, pipes, npipes, fg_pid, job>>
  /\ UNCHANGED <<st, fdVars, sigVars>>

-----------------------------------------------------------------------------
(* A command that is part of a pipe.                                       *)

AfterPipe   == i > 1 /\ Last.conn = "pipe"
Piped       == cmd.conn = "pipe" \/ AfterPipe
StartsPipe  == ~AfterPipe

Made(ps) == {ps[j] : j \in DOMAIN ps} \ {Unset}

\* pipe(pipes+j) for every pair, whenever a pipeline starts.
PipesNow  == IF StartsPipe THEN [j \in 1..(n - 1) |-> npipes + j] ELSE pipes
NPipesNow == IF StartsPipe THEN npipes + (n - 1) ELSE npipes
HeldNow   == IF StartsPipe THEN open[Shell] \cup EndsOf(Made(PipesNow))
                           ELSE open[Shell]

(* dup2() from a descriptor number read outside the array pipes[]: it      *)
(* fails, or duplicates any descriptor the child holds.                    *)
Stray == HeldNow \cup {fd0[Shell], fd1[Shell], Tty}

StageInSamePipe ==
  IF i > 1 /\ i < n THEN {ReadEnd(PipesNow[i])}
  ELSE IF i > 1 THEN {ReadEnd(PipesNow[i - 1])}
  ELSE {fd0[Shell]} \cup Stray

\* dup2(pipes[2*(i-1)], 0): the first command of the line reads pipes[-2].
StageIn ==
  IF i > 1 THEN {ReadEnd(PipesNow[i - 1])} ELSE {fd0[Shell]} \cup Stray

(* dup2(pipes[(2*i)+1], 1) for a command followed by a pipe; beyond the    *)
(* array where the queue ends in a pipe, and then the first command of a   *)
(* pipeline may keep what dup2(pipes[1], 1) gave it.                       *)
StageOut ==
  IF cmd.conn # "pipe" THEN {fd1[Shell]}
  ELSE IF i < n THEN {WriteEnd(PipesNow[i])}
  ELSE {IF StartsPipe /\ n > 1 THEN WriteEnd(PipesNow[1]) ELSE fd1[Shell]}
         \cup Stray

JobFor(piped) ==
  [cmd |-> cmd, idx |-> i, line |-> nlines, piped |-> piped,
   pipes |-> IF piped THEN Made(PipesNow) ELSE {}]

\* fork() returns p in the shell; the child takes its two descriptors.
Stages(p, in, out) ==
  /\ IsNextPid(p)
  /\ st' = [st EXCEPT ![p] = "forked"]
  /\ fd0' = [fd0 EXCEPT ![p] = in]
  /\ fd1' = [fd1 EXCEPT ![p] = out]
  /\ open' = [open EXCEPT ![p] = HeldNow, ![Shell] = HeldNow]
  /\ job' = [job EXCEPT ![p] = JobFor(TRUE)]
  /\ pid' = p

ForkStage ==
  /\ Quiet
  /\ pc = "launch"
  /\ Piped
  /\ pipes' = PipesNow
  /\ npipes' = NPipesNow
  /\ pc' = "setFg"
  /\ \/ \E p \in FreePids, in \in StageIn, out \in StageOut :
          Stages(p, in, out)
     \/ /\ "fork" \in Faults
        /\ pid' = NoPid
        /\ open' = [open EXCEPT ![Shell] = HeldNow]
        /\ UNCHANGED <<st, fd0, fd1, job>>
  /\ UNCHANGED <<callVars, i, k, launched, fg_pid, sigVars>>

\* fg_pid = launched[i] = pid, also when fork() failed.
SetFg ==
  /\ Quiet
  /\ pc = "setFg"
  /\ fg_pid' = pid
  /\ launched' = [launched EXCEPT ![i] = pid]
  /\ pc' = IF i < n THEN "pop" ELSE "close"
  /\ UNCHANGED <<callVars, i, k, pid, pipes, npipes, job>>
  /\ UNCHANGED <<st, fdVars, sigVars>>

-----------------------------------------------------------------------------
(* A command that is not part of a pipe.                                   *)

NotRestored1 == fd1[Shell]

\* dup2(stdin_copy, 0) and dup2(stdout_copy, 1).
Restored0 == saved0
Restored1 == saved1

\* Mutant: also where more commands follow.
InShellAnywhere == cmd.conn # "bg" /\ cmd.prog \in Builtins

InShell == cmd.conn # "bg" /\ i = n /\ cmd.prog \in Builtins

\* The last command is a builtin: it is run here, and the function returns.
RunBuiltin ==
  /\ Quiet
  /\ pc = "launch"
  /\ ~Piped
  /\ InShell
  /\ pc' = IF cmd.prog = "exit" THEN "exited" ELSE "prompt"
  /\ st' = IF cmd.prog = "exit" THEN [st EXCEPT ![Shell] = "zombie"] ELSE st
  /\ UNCHANGED <<callVars, i, k, pid, launched, pipes, npipes, fg_pid, job>>
  /\ UNCHANGED <<fdVars, sigVars>>

\* Any other command is forked, and the shell gets its descriptors back.
ForkSimple ==
  /\ Quiet
  /\ pc = "launch"
  /\ ~Piped
  /\ ~InShell
  /\ pc' = IF i < n THEN "pop" ELSE "close"
  /\ \/ \E p \in FreePids :
          /\ IsNextPid(p)
          /\ st' = [st EXCEPT ![p] = "forked"]
          /\ fd0' = [fd0 EXCEPT ![p] = fd0[Shell], ![Shell] = Restored0]
          /\ fd1' = [fd1 EXCEPT ![p] = fd1[Shell], ![Shell] = Restored1]
          /\ open' = [open EXCEPT ![p] = open[Shell]]
          /\ job' = [job EXCEPT ![p] = JobFor(FALSE)]
          /\ pid' = p
     \/ /\ "fork" \in Faults
        /\ pid' = NoPid
        /\ fd0' = [fd0 EXCEPT ![Shell] = Restored0]
        /\ fd1' = [fd1 EXCEPT ![Shell] = Restored1]
        /\ UNCHANGED <<st, open, job>>
  /\ UNCHANGED <<callVars, i, k, launched, pipes, npipes, fg_pid, sigVars>>

-----------------------------------------------------------------------------
(* After the loop.                                                         *)

CloseNothing ==
  /\ Quiet
  /\ pc = "close"
  /\ fd0' = [fd0 EXCEPT ![Shell] = Restored0]
  /\ fd1' = [fd1 EXCEPT ![Shell] = Restored1]
  /\ pc' = IF Waited(cmd) THEN "waitLast" ELSE "join"
  /\ UNCHANGED <<callVars, i, k, pid, launched, pipes, npipes, fg_pid, job>>
  /\ UNCHANGED <<st, open, sigVars>>

(* _closepipes() and the two dup2().  Where no pipeline was started the    *)
(* array was never written: close() is called on arbitrary numbers, which  *)
(* may be those of descriptors the shell holds, standard ones and the      *)
(* saved copies included.                                                  *)
CloseAndRestore ==
  /\ Quiet
  /\ pc = "close"
  /\ IF Unset \in {pipes[j] : j \in DOMAIN pipes}
     THEN \E in \in {Restored0, Closed}, out \in {Restored1, Closed},
             kept \in SUBSET open[Shell] :
            /\ fd0' = [fd0 EXCEPT ![Shell] = in]
            /\ fd1' = [fd1 EXCEPT ![Shell] = out]
            /\ open' = [open EXCEPT ![Shell] = kept]
     ELSE /\ fd0' = [fd0 EXCEPT ![Shell] = Restored0]
          /\ fd1' = [fd1 EXCEPT ![Shell] = Restored1]
          /\ open' = [open EXCEPT ![Shell] = @ \ EndsOf(Made(pipes))]
  /\ pc' = IF Waited(cmd) THEN "waitLast" ELSE "join"
  /\ UNCHANGED <<callVars, i, k, pid, launched, pipes, npipes, fg_pid, job>>
  /\ UNCHANGED <<st, sigVars>>

WaitLast ==
  /\ pc = "waitLast"
  /\ ~inHandler
  /\ WaitEnds(pid) \/ WaitEintr
  /\ pc' = "join"
  /\ UNCHANGED <<callVars, i, k, pid, launched, pipes, npipes, fg_pid, job>>
  /\ UNCHANGED <<fdVars, pend, inHandler, errno>>

(* The loop reads launched[] for every command, also for those that never  *)
(* set it: such an entry is any number, that of a child included.          *)
Join ==
  /\ Quiet
  /\ pc = "join"
  /\ k <= n
  /\ \E t \in IF launched[k] = Unset THEN Pids \cup {AnyChild, NoChild}
                                     ELSE {launched[k]} :
       launched' = [launched EXCEPT ![k] = t]
  /\ pc' = "waitAll"
  /\ UNCHANGED <<callVars, i, k, pid, pipes, npipes, fg_pid, job>>
  /\ UNCHANGED <<st, fdVars, sigVars>>

(* while (waitpid(launched[i], NULL, 0) == -1 && errno != ECHILD);  The    *)
(* call returns, and errno is read, in two steps: a handler may run in     *)
(* between.                                                                *)
WaitAll ==
  /\ pc = "waitAll"
  /\ ~inHandler
  /\ \/ /\ ~eintr
        /\ WaitReaps(launched[k])
        /\ k' = k + 1
        /\ pc' = "join"
        /\ UNCHANGED <<eintr, errno>>
     \/ /\ ~eintr
        /\ WaitEchild(launched[k])
        /\ errno' = "ECHILD"
        /\ pc' = "waited"
        /\ UNCHANGED <<eintr, k>>
     \/ /\ WaitEintr
        /\ errno' = "EINTR"
        /\ pc' = "waited"
        /\ UNCHANGED k
  /\ UNCHANGED <<callVars, i, pid, launched, pipes, npipes, fg_pid, job>>
  /\ UNCHANGED <<fdVars, pend, inHandler>>

CheckErrnoOnce ==
  /\ Quiet
  /\ pc = "waited"
  /\ k' = k + 1
  /\ pc' = "join"
  /\ errno' = "unread"
  /\ UNCHANGED <<callVars, i, pid, launched, pipes, npipes, fg_pid, job>>
  /\ UNCHANGED <<st, fdVars, pend, inHandler, eintr>>

CheckErrno ==
  /\ Quiet
  /\ pc = "waited"
  /\ \/ errno = "ECHILD" /\ k' = k + 1 /\ pc' = "join"
     \/ errno # "ECHILD" /\ k' = k /\ pc' = "waitAll"
  /\ errno' = "unread"
  /\ UNCHANGED <<callVars, i, pid, launched, pipes, npipes, fg_pid, job>>
  /\ UNCHANGED <<st, fdVars, pend, inHandler, eintr>>

JoinDone ==
  /\ Quiet
  /\ pc = "join"
  /\ k > n
  /\ pc' = "reset"
  /\ UNCHANGED <<callVars, i, k, pid, launched, pipes, npipes, fg_pid, job>>
  /\ UNCHANGED <<st, fdVars, sigVars>>

\* fg_pid = 0; return 0.
Reset ==
  /\ Quiet
  /\ pc = "reset"
  /\ fg_pid' = 0
  /\ pc' = "prompt"
  /\ UNCHANGED <<callVars, i, k, pid, launched, pipes, npipes, job>>
  /\ UNCHANGED <<st, fdVars, sigVars>>

JobsStep ==
  \/ Pop
  \/ WaitPrev
  \/ Redirect
  \/ RedirectFails
  \/ ForkStage
  \/ SetFg
  \/ RunBuiltin
  \/ ForkSimple
  \/ CloseAndRestore
  \/ WaitLast
  \/ Join
  \/ WaitAll
  \/ CheckErrno
  \/ JoinDone
  \/ Reset

-----------------------------------------------------------------------------
(* The child's half of fork(): close every pipe, then execvp().            *)

ExecKeepingPipes(p) ==
  /\ st[p] = "forked"
  /\ st' = [st EXCEPT ![p] = "running"]
  /\ UNCHANGED <<fdVars, sigVars, jobsVars>>

ChildExec(p) ==
  /\ st[p] = "forked"
  /\ st' = [st EXCEPT ![p] = "running"]
  /\ open' = [open EXCEPT ![p] = @ \ EndsOf(job[p].pipes)]
  /\ UNCHANGED <<fd0, fd1, sigVars, jobsVars>>

-----------------------------------------------------------------------------
Job == [cmd : Command, idx : Nat, line : Nat, piped : BOOLEAN,
        pipes : SUBSET Nat]

NoJob ==
  [cmd |-> [conn |-> "none", prog |-> "src", in |-> FALSE, out |-> FALSE],
   idx |-> 0, line |-> 0, piped |-> FALSE, pipes |-> {}]

JobsInit ==
  /\ pc = "prompt"
  /\ line = <<>>
  /\ nlines = 0
  /\ i = 0
  /\ k = 1
  /\ pid = NoPid
  /\ launched = <<>>
  /\ pipes = <<>>
  /\ npipes = 0
  /\ saved0 = Tty
  /\ saved1 = Tty
  /\ fg_pid = 0
  /\ job = [p \in Pids |-> NoJob]
=============================================================================
