------------------------------- MODULE Shell --------------------------------
(***************************************************************************)
(* src/src/main.c: the read-and-execute loop of run() and signalHandler(), *)
(* composed with executeCommandsInQueue() (Jobs), the children it forks    *)
(* and the terminal.                                                       *)
(*                                                                         *)
(* Both signals are handled with every signal masked, so handlers do not   *)
(* nest; only the SIGINT handler can block, in waitpid(fg_pid).            *)
(***************************************************************************)
EXTENDS Jobs

CONSTANT MaxActs  (* bound: what the user does to what runs: see acts      *)

ASSUME ShellAssumption == MaxActs \in Nat

VARIABLE acts     (* how often ^C was typed, or a child stopped or continued *)

vars == <<jobsVars, st, fdVars, sigVars, acts>>

Init == KernelInit /\ JobsInit /\ acts = 0

-----------------------------------------------------------------------------
(* run().  A line is read where enough pids are left for all its commands: *)
(* a bound of the model.                                                   *)

ReadLine ==
  /\ Quiet
  /\ pc = "prompt"
  /\ nlines < MaxLines
  /\ \E l \in Lines : /\ Cardinality(FreePids) >= Len(l)
                      /\ Enter(l)
  /\ UNCHANGED <<st, fdVars, sigVars, acts>>

-----------------------------------------------------------------------------
(* signalHandler().                                                        *)

(* A pending signal is taken at once while the shell runs its own code or  *)
(* readline(); blocked in waitpid() it is taken if the call has nothing to *)
(* return, and makes it fail with EINTR.                                   *)
Deliverable ==
  /\ ~inHandler
  /\ pc # "exited"
  /\ pc \in Blocking => eintr \/ Blocked(Target)

\* waitpid(0, NULL, WNOHANG): one child at most, however many have ended.
HandleChld ==
  /\ "CHLD" \in pend
  /\ Deliverable
  /\ pend' = pend \ {"CHLD"}
  /\ WaitReaps(AnyChild) \/ (Zombies(AnyChild) = {} /\ UNCHANGED st)
  /\ eintr' = (pc \in Blocking)
  /\ HandlerErrno(AnyChild)
  /\ UNCHANGED <<jobsVars, fdVars, inHandler, acts>>

HandleIntAtPrompt ==
  /\ "INT" \in pend
  /\ Deliverable
  /\ fg_pid = 0
  /\ pend' = pend \ {"INT"}
  /\ eintr' = (pc \in Blocking)
  /\ UNCHANGED <<jobsVars, st, fdVars, inHandler, errno, acts>>

(* kill(fg_pid, SIGINT), then waitpid(fg_pid).  A program may survive the  *)
(* signal; a child that has not reached execvp() still has the shell's     *)
(* handler and does.  kill(-1) reaches every process of the user.          *)
HandleIntKill ==
  /\ "INT" \in pend
  /\ Deliverable
  /\ fg_pid # 0
  /\ \E V \in SUBSET {p \in Running : fg_pid \in {p, NoPid}} :
       /\ Die(V)
       /\ pend' = PendAfterDeath(V) \ {"INT"}
  /\ inHandler' = TRUE
  /\ eintr' = (pc \in Blocking)
  /\ UNCHANGED <<jobsVars, fdVars, errno, acts>>

\* The waitpid() of the handler returns: fg_pid = 0.
HandlerReturns ==
  /\ inHandler
  /\ WaitReaps(fg_pid) \/ WaitEchild(fg_pid)
  /\ HandlerErrno(fg_pid)
  /\ inHandler' = FALSE
  /\ fg_pid' = 0
  /\ UNCHANGED <<pc, line, nlines, i, k, pid, launched, pipes, npipes>>
  /\ UNCHANGED <<saved0, saved1, job, fdVars, pend, eintr, acts>>

HandlerStep ==
  \/ HandleChld
  \/ HandleIntAtPrompt
  \/ HandleIntKill
  \/ HandlerReturns

-----------------------------------------------------------------------------
(* The environment: the user at the terminal and the programs run.         *)

\* ^C: the terminal sends SIGINT to the shell and to all its children.
CtrlC ==
  /\ pc # "exited"
  /\ acts < MaxActs
  /\ acts' = acts + 1
  /\ \E V \in SUBSET Running :
       /\ Die(V)
       /\ pend' = PendAfterDeath(V) \cup {"INT"}
  /\ UNCHANGED <<jobsVars, fdVars, inHandler, eintr, errno>>

(* A child stops, by ^Z or kill(), or continues: SIGCHLD, as there is no   *)
(* SA_NOCLDSTOP.  A stopped process is one that takes no step for a while. *)
StopOrContinue ==
  /\ pc # "exited"
  /\ acts < MaxActs
  /\ acts' = acts + 1
  /\ \E p \in Pids : Up(p)
  /\ pend' = pend \cup {"CHLD"}
  /\ UNCHANGED <<jobsVars, st, fdVars, inHandler, eintr, errno>>

Exit(p) ==
  /\ p \in Running
  /\ job[p].cmd.prog = "filter" => AtEof(p)
  /\ Die({p})
  /\ pend' = PendAfterDeath({p})
  /\ UNCHANGED <<jobsVars, fdVars, inHandler, eintr, errno, acts>>

Done ==
  /\ \/ pc = "exited"
     \/ pc = "prompt" /\ (nlines = MaxLines \/ \A l \in Lines :
                                     Cardinality(FreePids) < Len(l))
  /\ UNCHANGED vars

ShellStep == JobsStep /\ UNCHANGED acts
ChildStep(p) == ChildExec(p) /\ UNCHANGED acts

Next ==
  \/ ReadLine
  \/ ShellStep
  \/ HandlerStep
  \/ CtrlC
  \/ StopOrContinue
  \/ \E p \in Pids : ChildStep(p) \/ Exit(p)
  \/ Done

Spec == Init /\ [][Next]_vars

(* The shell, its handlers and the children are processes the kernel       *)
(* schedules; "src" programs end, and filters end once they have read      *)
(* everything; who is stopped is continued in the end.  Nothing obliges a  *)
(* server to end or the user to type.                                      *)
Fairness ==
  /\ WF_vars(ShellStep)
  /\ WF_vars(HandlerStep)
  /\ \A p \in Pids : /\ WF_vars(ChildStep(p))
                     /\ WF_vars(Exit(p) /\ job[p].cmd.prog # "server")

FairSpec == Spec /\ Fairness

-----------------------------------------------------------------------------
PcValues ==
  {"prompt", "pop", "waitPrev", "redirect", "launch", "setFg", "close",
   "waitLast", "join", "waitAll", "waited", "reset", "exited"}

PidValues == Pids \cup {Unset, NoPid, NoChild}

(* p reads the pipe its left neighbour was to write.                       *)
AfterStage(p) == job[p].idx > 1 /\ fd0[p][1] = "r"

(* Type invariant of the shell, its children and the signals.              *)
TypeOK ==
  /\ KernelTypeOK
  /\ pc \in PcValues
  /\ line \in Seq(Command)
  /\ nlines \in 0..MaxLines
  /\ i \in 0..n
  /\ k \in 1..(n + 1)
  /\ pid \in Pids \cup {NoPid}
  /\ launched \in [1..n -> PidValues]
  /\ pipes \in [1..(n - 1) -> Nat \cup {Unset}]
  /\ npipes \in Nat
  /\ saved0 \in Channel
  /\ saved1 \in Channel
  /\ fg_pid \in Pids \cup {NoPid, 0}
  /\ job \in [Pids -> Job]
  /\ acts \in 0..MaxActs

(* When the function is about to return normally no stage of a pipeline of *)
(* this line is alive or left as a zombie: the loop over launched[] (lines *)
(* 226-227) misses none.  One signal can make it miss one stage: ^C that   *)
(* finds fg_pid reaped, between a waitpid() that was interrupted and the   *)
(* test of errno, which the handler's own waitpid() (main.c:86) changes to *)
(* ECHILD.  It clears fg_pid, so that this does not happen twice.          *)
PipelineJoined ==
  LET left == {p \in Children : job[p].piped /\ job[p].line = nlines}
  IN pc = "reset" /\ left # {} =>
       acts > 0 /\ fg_pid = 0 /\ \E p \in Pids : left = {p}

(* Two neighbouring stages of a pipeline are joined by one pipe: what the  *)
(* left one writes is what the right one reads (the index arithmetic of    *)
(* lines 164-174 on either side of a fork).                                *)
StagesConnected ==
  \A p, q \in Pids :
    /\ job[p].piped /\ job[p].cmd.conn = "pipe"
    /\ job[q].line = job[p].line
    /\ job[q].idx = job[p].idx + 1
    => fd1[p][1] = "w" /\ fd0[q] = ReadEnd(fd1[p][2])

\* From command j on the line is one pipeline, to its end.
EndsPiped(j) == \A m \in j..n : line[m].conn = "pipe" <=> m < n

(* Once the shell has closed its pipes (line 213) only the stage on its    *)
(* left, and stages about to close theirs (line 175), can write to the     *)
(* pipe a running stage reads: it will see end-of-file.  That is so for a  *)
(* pipeline that ends its line: commands behind one inherit its pipes, and *)
(* a second one overwrites pipes[] (line 157).  The first command of a     *)
(* line is excepted, whose descriptor 0 is read outside pipes[].           *)
OnlyLeftWrites ==
  pc \in {"waitLast", "join", "waitAll", "waited", "reset"} =>
    \A q \in Running :
      /\ job[q].piped /\ job[q].line = nlines
      /\ AfterStage(q) /\ EndsPiped(job[q].idx)
      => \A x \in Writers(fd0[q][2]) :
          /\ x # Shell
          /\ st[x] = "forked" \/ (/\ job[x].line = nlines
                                  /\ job[x].idx \in {1, job[q].idx - 1})

\* Child x is on its way to execvp(), or its program may end: no read holds it.
GoesOn(x) ==
  \/ st[x] = "forked"
  \/ st[x] = "running" /\ (job[x].cmd.prog = "filter" => AtEof(x))

(* Whatever the function waits for, no child of this line is held up for   *)
(* good: it can go on, or one in front of it can, or one that is still to  *)
(* close its pipes (lines 175, 213).  That is so for lines whose pipeline  *)
(* comes last, its first stage no filter if it is the line's first command *)
(* (that reads what is in front of pipes[]).  It is the part of            *)
(* ReturnsToPrompt that is no liveness, and holds with ^C and jobs too.    *)
NotInVain ==
  /\ pc \in Blocking
  /\ \A j \in 1..n : line[j].conn = "pipe" => EndsPiped(j)
  /\ line[1].conn = "pipe" => line[1].prog # "filter"
  => \A q \in Running : job[q].line = nlines =>
       \E x \in Pids : /\ GoesOn(x)
                       /\ st[x] = "forked" \/ (/\ job[x].line = nlines
                                               /\ job[x].idx <= job[q].idx)

(* Where nothing has run in the background or in a pipeline so far, and    *)
(* the user left it alone, a command starts only when the one before it is *)
(* over (lines 110-117, 219-222): no end of a child cuts a wait short.     *)
OneAtATime ==
  acts = 0 /\ (\A p \in Pids : ~job[p].piped /\ job[p].cmd.conn # "bg") =>
    \A p, q \in Pids : Up(p) /\ Up(q) => p = q

\* No command of the line is followed by a pipe.
Unpiped == \A j \in 1..n : line[j].conn # "pipe"

(* A command of a line without pipes reads and writes the files it names,  *)
(* and for the rest what the shell had at the start of the line: no        *)
(* redirection reaches the next command (lines 119-149, 204-205), whatever *)
(* the lines before it left open.                                          *)
RedirectIsOwn ==
  Unpiped => \A p \in Pids : job[p].line = nlines /\ nlines > 0 =>
    /\ fd0[p] = IF job[p].cmd.in THEN InFile(job[p].idx) ELSE saved0
    /\ fd1[p] = IF job[p].cmd.out THEN OutFile(job[p].idx) ELSE saved1

(* The shell that reads a line comes back to the prompt, or exits, as soon *)
(* as the programs let it: nothing it holds or waits for keeps it away.    *)
ReturnsToPrompt == pc # "prompt" ~> pc \in {"prompt", "exited"}

(* Where fg_pid is cleared nothing runs in the foreground (the comment of  *)
(* lines 229-230): every command of this line that was not started with    *)
(* "&" is over.                                                            *)
NothingInForeground ==
  pc = "reset" => \A p \in Pids : job[p].line = nlines /\ Up(p) =>
                                     job[p].cmd.conn = "bg"

(* At the prompt the shell's own descriptors are the ones it saved (the    *)
(* comments of lines 103 and 215).                                         *)
StdioRestored ==
  pc = "prompt" => fd0[Shell] = saved0 /\ fd1[Shell] = saved1

-----------------------------------------------------------------------------
(* The order in which commands start, as Launch tells it.                  *)

\* i counts the commands popped: the last of them may still have to start.
NextToStart ==
  IF pc \in {"prompt", "exited"} THEN n + 1
  ELSE IF pc \in {"waitPrev", "redirect", "launch"} THEN i ELSE i + 1

Started ==
  {job[p].idx : p \in {q \in Pids : st[q] # "free" /\ job[q].line = nlines}}

\* The line as Launch sees it.
Shown == [j \in 1..n |-> [conn  |-> line[j].conn,
                          own   |-> line[j].prog \in Builtins,
                          files |-> line[j].in \/ line[j].out]]

Promise == INSTANCE Launch WITH
  mode    <- IF pc = "prompt" THEN "idle"
             ELSE IF pc = "exited" THEN "gone" ELSE "busy",
  line    <- Shown,
  next    <- NextToStart,
  started <- Started

(* The commands of a line start in order, each in the place that is its    *)
(* own, and none is dropped but behind an open() that failed: through all  *)
(* the waits, signals and failures in between (lines 107-210).             *)
KeepsOrder == Promise!Spec
=============================================================================
