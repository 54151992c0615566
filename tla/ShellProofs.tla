---------------------------- MODULE ShellProofs -----------------------------
(***************************************************************************)
(* Theorems about Shell, for any number of children, lines, commands per   *)
(* line, signals and failing system calls.                                 *)
(*                                                                         *)
(* PipelineJoined speaks of one point of the function; to prove it one     *)
(* must know, all along the loop, where every stage forked for this line   *)
(* is recorded (StagesTracked), how far each index has come (IndexOK),     *)
(* which entries of launched[] the last loop has passed (Joined), and when *)
(* a handler can change errno (Signals).                                   *)
(* The same invariant carries the refinement of Launch.  Where nothing     *)
(* runs in the background and no signal interrupts a wait, a command       *)
(* starts only when the one before it is over.  Between two lines there    *)
(* are finitely many steps.                                                *)
(***************************************************************************)
EXTENDS Shell, FiniteSetTheorems, SequenceTheorems, TLAPS

\* The values of pc inside the function, and those after its loop.
Ending == {"join", "waitAll", "waited", "reset"}
After  == {"close", "waitLast"} \cup Ending
Busy   == {"pop", "waitPrev", "redirect", "launch", "setFg"} \cup After

\* How many commands have been launched.
NLaunched == IF pc \in {"waitPrev", "redirect", "launch"} THEN i - 1 ELSE i

IndexOK ==
  /\ pc \in Busy => n >= 1
  /\ pc = "pop" => i < n
  /\ pc \in {"waitPrev", "redirect", "launch", "setFg"} => i >= 1
  /\ pc \in After => i = n
  /\ pc \in Busy \ Ending => k = 1
  /\ pc \in {"waitAll", "waited"} => k <= n
  /\ pc = "reset" => k = n + 1

\* Behind the first stage of a pipeline pipes[] is initialised.
PipesMade ==
  pc \in Busy =>
    \A j \in 1..NLaunched : line[j].conn = "pipe" =>
      \A m \in 1..(n - 1) : pipes[m] # Unset

LinesNumbered == \A p \in Pids : job[p].line <= nlines

\* p was forked as a stage of a pipeline of the current line.
Stage(p) == job[p].piped /\ job[p].line = nlines

StagesTracked ==
  pc \in Busy =>
    \A p \in Pids : Stage(p) =>
      /\ job[p].idx \in 1..NLaunched
      /\ IF pc = "setFg" /\ job[p].idx = i THEN pid = p
                                           ELSE launched[job[p].idx] = p

(* The loop over launched[] is behind entry j, or about to leave it: at    *)
(* "waited" errno says whether it goes round once more.                    *)
Passed(j) == j < k \/ (j = k /\ errno = "ECHILD")

Missed == {launched[j] : j \in {m \in 1..n : Passed(m)}} \cap Children

\* At most one child, and only where ^C was answered and fg_pid is cleared.
AtMostOne(P) == P # {} => acts > 0 /\ fg_pid = 0 /\ \E p \in Pids : P = {p}

Joined == pc \in Ending => AtMostOne(Missed)

Signals ==
  /\ errno # "unread" <=> pc = "waited"
  /\ inHandler => fg_pid # 0
  /\ acts = 0 => ~inHandler /\ "INT" \notin pend

IInv ==
  /\ TypeOK
  /\ IndexOK
  /\ PipesMade
  /\ LinesNumbered
  /\ StagesTracked
  /\ Joined
  /\ Signals

-----------------------------------------------------------------------------
USE DEF Shell, Pids, Procs, Unset, NoPid, NoChild, AnyChild

LEMMA InitIInv == Init => IInv
<1> SUFFICES ASSUME Init PROVE IInv
  OBVIOUS
<1> USE DEF Init, KernelInit, JobsInit
<1>1. KernelTypeOK
  BY KernelAssumption
  DEF KernelTypeOK, ProcState, Channel, Tty, Closed
<1>2. TypeOK
  BY <1>1, KernelAssumption, JobsAssumption, ShellAssumption
  DEF TypeOK, PcValues, PidValues, Channel, Tty, n, Job, NoJob, Command, Conns,
      Progs, Builtins
<1>3. IndexOK /\ PipesMade /\ StagesTracked /\ Joined /\ Signals
  BY DEF IndexOK, PipesMade, StagesTracked, Joined, Signals, Busy, After, Ending
<1>4. LinesNumbered
  BY DEF LinesNumbered, NoJob
<1> QED
  BY <1>2, <1>3, <1>4 DEF IInv

-----------------------------------------------------------------------------
(* What leaves the locals of the function alone: the handlers, the         *)
(* children and the user.  A child of the shell stays one until reaped.    *)

LEMMA DieKeepsChildren ==
  ASSUME KernelTypeOK, NEW V \in SUBSET Running, Die(V)
  PROVE  st' \in [Procs -> ProcState] /\ Children' = Children
BY DEF KernelTypeOK, Running, Die, Children, ProcState

LEMMA ReapShrinksChildren ==
  ASSUME KernelTypeOK, NEW p \in Pids, Reap(p)
  PROVE  /\ st' \in [Procs -> ProcState]
         /\ Children' \subseteq Children
         /\ p \notin Children'
BY DEF KernelTypeOK, Reap, Children, ProcState

\* However waitpid(t) ends, the child t is no longer there to be waited for.
LEMMA WaitJoins ==
  ASSUME KernelTypeOK, NEW t \in PidValues, WaitReaps(t) \/ WaitEchild(t)
  PROVE  /\ st' \in [Procs -> ProcState]
         /\ Children' \subseteq Children
         /\ t \in Pids => t \notin Children'
<1>1. CASE WaitReaps(t)
  <2>1. PICK p \in Zombies(t) : Reap(p)
    BY <1>1 DEF WaitReaps
  <2>2. p \in Pids /\ (t # AnyChild => p = t)
    BY <2>1 DEF Zombies, Match, Children
  <2>3. t \in Pids => t # AnyChild
    BY KernelAssumption
  <2> QED
    BY <2>1, <2>2, <2>3, ReapShrinksChildren
<1>2. CASE WaitEchild(t)
  <2>1. t \in Pids => t \notin Children
    BY <1>2, KernelAssumption DEF WaitEchild, Match
  <2> QED
    BY <1>2, <2>1 DEF WaitEchild, KernelTypeOK, Children
<1> QED
  BY <1>1, <1>2

(* What a handler's waitpid() does to errno makes the loop pass one entry  *)
(* more, but then fg_pid was not cleared before, and is now; or no child   *)
(* is left.                                                                *)
LEMMA OutsideIInv ==
  ASSUME IInv, TypeOK', Signals', Children' \subseteq Children,
         UNCHANGED <<pc, line, nlines, i, k, pid, launched, pipes, job>>,
         fg_pid' \in {fg_pid, 0}, acts > 0 => acts' > 0,
         errno' = errno \/ Children' = {} \/ (fg_pid # 0 /\ fg_pid' = 0 /\ acts > 0)
  PROVE  IInv'
<1> USE DEF IInv
<1>1. IndexOK' /\ PipesMade' /\ LinesNumbered' /\ StagesTracked'
  BY DEF IndexOK, PipesMade, LinesNumbered, StagesTracked, Stage, NLaunched, n
<1>2. Joined'
  <2> SUFFICES ASSUME pc \in Ending, AtMostOne(Missed) PROVE AtMostOne(Missed)'
    BY DEF Joined
  <2>1. CASE errno' = errno
    BY <2>1 DEF AtMostOne, Missed, Passed, n
  <2>2. CASE Children' = {}
    BY <2>2 DEF AtMostOne, Missed
  <2>3. CASE fg_pid # 0 /\ fg_pid' = 0 /\ acts > 0
    <3>1. Missed = {}
      BY <2>3 DEF AtMostOne
    <3>2. Missed' \subseteq {launched[k]}
      BY <3>1 DEF Missed, Passed, n
    <3>3. Missed' \subseteq Pids
      BY DEF Missed, Children
    <3> QED
      BY <2>3, <3>2, <3>3 DEF AtMostOne
  <2> QED
    BY <2>1, <2>2, <2>3
<1> QED
  BY <1>1, <1>2

LEMMA HandlerIInv == IInv /\ HandlerStep => IInv'
<1> SUFFICES ASSUME IInv, HandlerStep PROVE IInv'
  OBVIOUS
<1>t. KernelTypeOK
  BY DEF IInv, TypeOK
<1>1. CASE HandleChld
  <2>1. st' \in [Procs -> ProcState] /\ Children' \subseteq Children
    <3>1. CASE WaitReaps(AnyChild)
      BY <3>1, <1>t, WaitJoins DEF PidValues
    <3>2. CASE UNCHANGED st
      BY <3>2, <1>t DEF KernelTypeOK, Children
    <3> QED
      BY <1>1, <3>1, <3>2 DEF HandleChld
  <2>2. TypeOK'
    BY <1>1, <2>1
    DEF HandleChld, HandlerErrno, IInv, TypeOK, KernelTypeOK, jobsVars, fdVars, n
  <2>3. Signals' /\ (errno' = errno \/ Children' = {})
    BY <1>1, <2>1 DEF HandleChld, HandlerErrno, Match, IInv, Signals, jobsVars
  <2> QED
    BY <1>1, <2>1, <2>2, <2>3, OutsideIInv DEF HandleChld, jobsVars
<1>2. CASE HandleIntAtPrompt
  <2>1. TypeOK'
    BY <1>2 DEF HandleIntAtPrompt, IInv, TypeOK, KernelTypeOK, jobsVars, fdVars, n
  <2>2. Signals'
    BY <1>2 DEF HandleIntAtPrompt, IInv, Signals, jobsVars
  <2> QED
    BY <1>2, <2>1, <2>2, OutsideIInv DEF HandleIntAtPrompt, jobsVars, Children
<1>3. CASE HandleIntKill
  <2>1. PICK V \in SUBSET Running :
           Die(V) /\ pend' = PendAfterDeath(V) \ {"INT"}
    BY <1>3 DEF HandleIntKill
  <2>2. st' \in [Procs -> ProcState] /\ Children' = Children
    BY <1>t, <2>1, DieKeepsChildren
  <2>3. TypeOK'
    BY <1>3, <2>1, <2>2
    DEF HandleIntKill, PendAfterDeath, IInv, TypeOK, KernelTypeOK, jobsVars,
        fdVars, n
  <2>4. Signals'
    BY <1>3 DEF HandleIntKill, IInv, Signals, jobsVars
  <2> QED
    BY <1>3, <2>2, <2>3, <2>4, OutsideIInv DEF HandleIntKill, jobsVars
<1>4. CASE HandlerReturns
  <2>1. st' \in [Procs -> ProcState] /\ Children' \subseteq Children
    <3>1. CASE fg_pid \in PidValues
      BY <1>4, <1>t, <3>1, WaitJoins DEF HandlerReturns
    <3>2. CASE fg_pid = 0
      <4>1. WaitReaps(0) => FALSE
        BY DEF WaitReaps, Zombies, Match, Children
      <4> QED
        BY <1>4, <1>t, <3>2, <4>1
        DEF HandlerReturns, WaitEchild, KernelTypeOK, Children
    <3> QED
      BY <3>1, <3>2 DEF IInv, TypeOK, PidValues
  <2>2. TypeOK'
    BY <1>4, <2>1
    DEF HandlerReturns, HandlerErrno, IInv, TypeOK, KernelTypeOK, fdVars, n
  <2>3. Signals' /\ fg_pid # 0 /\ acts > 0
    <3>1. inHandler /\ Signals /\ acts \in Nat
      BY <1>4, ShellAssumption DEF HandlerReturns, IInv, TypeOK
    <3> QED
      BY <1>4, <3>1 DEF HandlerReturns, HandlerErrno, Signals
  <2> QED
    BY <1>4, <2>1, <2>2, <2>3, OutsideIInv DEF HandlerReturns
<1> QED
  BY <1>1, <1>2, <1>3, <1>4 DEF HandlerStep

LEMMA CtrlCIInv == IInv /\ CtrlC => IInv'
<1> SUFFICES ASSUME IInv, CtrlC PROVE IInv'
  OBVIOUS
<1>1. PICK V \in SUBSET Running : Die(V) /\ pend' = PendAfterDeath(V) \cup {"INT"}
  BY DEF CtrlC
<1>2. st' \in [Procs -> ProcState] /\ Children' = Children
  BY <1>1, DieKeepsChildren DEF IInv, TypeOK
<1>3. TypeOK'
  BY <1>1, <1>2, ShellAssumption
  DEF CtrlC, PendAfterDeath, IInv, TypeOK, KernelTypeOK, jobsVars, fdVars, n
<1>4. Signals' /\ acts' > 0
  BY ShellAssumption DEF CtrlC, IInv, TypeOK, Signals, jobsVars
<1> QED
  BY <1>2, <1>3, <1>4, OutsideIInv DEF CtrlC, jobsVars

LEMMA StopIInv == IInv /\ StopOrContinue => IInv'
<1> SUFFICES ASSUME IInv, StopOrContinue PROVE IInv'
  OBVIOUS
<1>1. TypeOK'
  BY ShellAssumption
  DEF StopOrContinue, IInv, TypeOK, KernelTypeOK, jobsVars, fdVars, n
<1>2. Signals' /\ acts' > 0
  BY ShellAssumption DEF StopOrContinue, IInv, TypeOK, Signals, jobsVars
<1> QED
  BY <1>1, <1>2, OutsideIInv DEF StopOrContinue, jobsVars, Children

LEMMA ExitIInv == ASSUME IInv, NEW p \in Pids, Exit(p) PROVE IInv'
<1>1. {p} \in SUBSET Running
  BY DEF Exit
<1>2. st' \in [Procs -> ProcState] /\ Children' = Children
  BY <1>1, DieKeepsChildren DEF Exit, IInv, TypeOK
<1>3. TypeOK'
  BY <1>2
  DEF Exit, PendAfterDeath, IInv, TypeOK, KernelTypeOK, jobsVars, fdVars, n
<1>4. Signals'
  BY DEF Exit, PendAfterDeath, IInv, Signals, jobsVars
<1> QED
  BY <1>2, <1>3, <1>4, OutsideIInv DEF Exit, jobsVars

LEMMA ChildIInv == ASSUME IInv, NEW p \in Pids, ChildStep(p) PROVE IInv'
<1>1. TypeOK'
  BY DEF ChildStep, ChildExec, IInv, TypeOK, KernelTypeOK, ProcState, jobsVars,
         sigVars, n
<1>2. Children' = Children
  BY DEF ChildStep, ChildExec, IInv, TypeOK, KernelTypeOK, Children
<1>3. Signals'
  BY DEF ChildStep, ChildExec, IInv, Signals, jobsVars, sigVars
<1> QED
  BY <1>1, <1>2, <1>3, OutsideIInv DEF ChildStep, ChildExec, jobsVars, sigVars

-----------------------------------------------------------------------------
(* The function itself, one lemma per action.                              *)

LEMMA PopIInv == IInv /\ Pop /\ UNCHANGED acts => IInv'
<1> SUFFICES ASSUME IInv, Pop, UNCHANGED acts PROVE IInv'
  OBVIOUS
<1> USE DEF IInv, Pop, callVars, fdVars, sigVars
<1>1. TypeOK'
  BY DEF TypeOK, KernelTypeOK, IndexOK, PcValues, n, Up
<1>2. IndexOK'
  BY DEF IndexOK, TypeOK, Busy, After, Ending, n
<1>3. PipesMade'
  BY DEF PipesMade, TypeOK, IndexOK, Busy, After, Ending, NLaunched, n
<1>4. LinesNumbered'
  BY DEF LinesNumbered
<1>5. StagesTracked'
  BY DEF StagesTracked, Stage, Busy, After, Ending, NLaunched, TypeOK, n
<1>6. Signals'
  BY DEF Signals, Quiet
<1>7. Joined'
  BY DEF Joined, Ending
<1> QED
  BY <1>1, <1>2, <1>3, <1>4, <1>5, <1>6, <1>7

LEMMA RedirectIInv == IInv /\ Redirect /\ UNCHANGED acts => IInv'
<1> SUFFICES ASSUME IInv, Redirect, UNCHANGED acts PROVE IInv'
  OBVIOUS
<1> USE DEF IInv, Redirect, callVars, fdVars, sigVars
<1>1. TypeOK'
  BY DEF TypeOK, KernelTypeOK, IndexOK, PcValues, n, Channel, InFile, OutFile,
         Busy, After, Ending
<1>2. IndexOK'
  BY DEF IndexOK, TypeOK, Busy, After, Ending, n
<1>3. PipesMade'
  BY DEF PipesMade, TypeOK, IndexOK, Busy, After, Ending, NLaunched, n
<1>4. LinesNumbered'
  BY DEF LinesNumbered
<1>5. StagesTracked'
  BY DEF StagesTracked, Stage, Busy, After, Ending, NLaunched, TypeOK, n
<1>6. Signals'
  BY DEF Signals, Quiet
<1>7. Joined'
  BY DEF Joined, Ending
<1> QED
  BY <1>1, <1>2, <1>3, <1>4, <1>5, <1>6, <1>7

LEMMA RedirectFailsIInv == IInv /\ RedirectFails /\ UNCHANGED acts => IInv'
<1> SUFFICES ASSUME IInv, RedirectFails, UNCHANGED acts PROVE IInv'
  OBVIOUS
<1> USE DEF IInv, RedirectFails, callVars, fdVars, sigVars
<1>1. TypeOK'
  BY DEF TypeOK, KernelTypeOK, IndexOK, PcValues, n
<1>2. IndexOK'
  BY DEF IndexOK, TypeOK, Busy, After, Ending, n
<1>3. PipesMade'
  BY DEF PipesMade, TypeOK, IndexOK, Busy, After, Ending, NLaunched, n
<1>4. LinesNumbered'
  BY DEF LinesNumbered
<1>5. StagesTracked'
  BY DEF StagesTracked, Stage, Busy, After, Ending, NLaunched, TypeOK, n
<1>6. Signals'
  BY DEF Signals, Quiet
<1>7. Joined'
  BY DEF Joined, Ending
<1> QED
  BY <1>1, <1>2, <1>3, <1>4, <1>5, <1>6, <1>7

LEMMA RunBuiltinIInv == IInv /\ RunBuiltin /\ UNCHANGED acts => IInv'
<1> SUFFICES ASSUME IInv, RunBuiltin, UNCHANGED acts PROVE IInv'
  OBVIOUS
<1> USE DEF IInv, RunBuiltin, callVars, fdVars, sigVars
<1>1. TypeOK'
  BY DEF TypeOK, KernelTypeOK, IndexOK, PcValues, n, ProcState
<1>2. IndexOK'
  BY DEF IndexOK, TypeOK, Busy, After, Ending, n
<1>3. PipesMade'
  BY DEF PipesMade, TypeOK, IndexOK, Busy, After, Ending, NLaunched, n
<1>4. LinesNumbered'
  BY DEF LinesNumbered
<1>5. StagesTracked'
  BY DEF StagesTracked, Stage, Busy, After, Ending, NLaunched, TypeOK, n
<1>6. Signals'
  BY DEF Signals, Quiet
<1>7. Joined'
  BY DEF Joined, Ending
<1> QED
  BY <1>1, <1>2, <1>3, <1>4, <1>5, <1>6, <1>7

LEMMA SetFgIInv == IInv /\ SetFg /\ UNCHANGED acts => IInv'
<1> SUFFICES ASSUME IInv, SetFg, UNCHANGED acts PROVE IInv'
  OBVIOUS
<1> USE DEF IInv, SetFg, callVars, fdVars, sigVars
<1>1. TypeOK'
  BY DEF TypeOK, KernelTypeOK, IndexOK, PcValues, n, PidValues, Busy, After,
         Ending
<1>2. IndexOK'
  BY DEF IndexOK, TypeOK, Busy, After, Ending, n
<1>3. PipesMade'
  BY DEF PipesMade, TypeOK, IndexOK, Busy, After, Ending, NLaunched, n
<1>4. LinesNumbered'
  BY DEF LinesNumbered
<1>5. StagesTracked'
  BY DEF StagesTracked, Stage, Busy, After, Ending, NLaunched, TypeOK, n
<1>6. Signals'
  BY DEF Signals, Quiet
<1>7. Joined'
  BY DEF Joined, Ending
<1> QED
  BY <1>1, <1>2, <1>3, <1>4, <1>5, <1>6, <1>7

LEMMA CloseAndRestoreIInv == IInv /\ CloseAndRestore /\ UNCHANGED acts => IInv'
<1> SUFFICES ASSUME IInv, CloseAndRestore, UNCHANGED acts PROVE IInv'
  OBVIOUS
<1> USE DEF IInv, CloseAndRestore, callVars, fdVars, sigVars
<1>1. TypeOK'
  <2>1. Closed \in Channel
    BY DEF Closed, Channel
  <2>2. fd0' \in [Procs -> Channel] /\ fd1' \in [Procs -> Channel]
    <3>1. PICK in \in {saved0, Closed}, out \in {saved1, Closed} :
             /\ fd0' = [fd0 EXCEPT ![Shell] = in]
             /\ fd1' = [fd1 EXCEPT ![Shell] = out]
      BY DEF Restored0, Restored1
    <3>2. in \in Channel /\ out \in Channel
      BY <2>1 DEF TypeOK
    <3> QED
      BY <3>1, <3>2 DEF TypeOK, KernelTypeOK
  <2>3. open' \in [Procs -> SUBSET PipeEnd]
    BY DEF TypeOK, KernelTypeOK
  <2> QED
    BY <2>2, <2>3 DEF TypeOK, KernelTypeOK, IndexOK, PcValues, n
<1>2. IndexOK'
  BY DEF IndexOK, TypeOK, Busy, After, Ending, n
<1>3. PipesMade'
  BY DEF PipesMade, TypeOK, IndexOK, Busy, After, Ending, NLaunched, n
<1>4. LinesNumbered'
  BY DEF LinesNumbered
<1>5. StagesTracked'
  BY DEF StagesTracked, Stage, Busy, After, Ending, NLaunched, TypeOK, n
<1>6. Signals'
  BY DEF Signals, Quiet
<1>7. Joined'
  BY <1>2, <1>6 DEF Joined, AtMostOne, Missed, Passed, IndexOK, Signals, TypeOK,
                    Busy, After, Ending, n
<1> QED
  BY <1>1, <1>2, <1>3, <1>4, <1>5, <1>6, <1>7

LEMMA JoinIInv == IInv /\ Join /\ UNCHANGED acts => IInv'
<1> SUFFICES ASSUME IInv, Join, UNCHANGED acts PROVE IInv'
  OBVIOUS
<1> USE DEF IInv, Join, callVars, fdVars, sigVars
<1>1. TypeOK'
  BY DEF TypeOK, KernelTypeOK, IndexOK, PcValues, n, PidValues
<1>2. IndexOK'
  BY DEF IndexOK, TypeOK, Busy, After, Ending, n
<1>3. PipesMade'
  BY DEF PipesMade, TypeOK, IndexOK, Busy, After, Ending, NLaunched, n
<1>4. LinesNumbered'
  BY DEF LinesNumbered
<1>5. StagesTracked'
  BY DEF StagesTracked, Stage, Busy, After, Ending, NLaunched, TypeOK, n
<1>6. Signals'
  BY DEF Signals, Quiet
<1>7. Joined'
  <2>1. Missed' = Missed
    BY DEF Missed, Passed, Signals, Children, TypeOK, n
  <2> QED
    BY <2>1 DEF Joined, AtMostOne, Ending
<1> QED
  BY <1>1, <1>2, <1>3, <1>4, <1>5, <1>6, <1>7

LEMMA JoinDoneIInv == IInv /\ JoinDone /\ UNCHANGED acts => IInv'
<1> SUFFICES ASSUME IInv, JoinDone, UNCHANGED acts PROVE IInv'
  OBVIOUS
<1> USE DEF IInv, JoinDone, callVars, fdVars, sigVars
<1>1. TypeOK'
  BY DEF TypeOK, KernelTypeOK, IndexOK, PcValues, n
<1>2. IndexOK'
  BY DEF IndexOK, TypeOK, Busy, After, Ending, n
<1>3. PipesMade'
  BY DEF PipesMade, TypeOK, IndexOK, Busy, After, Ending, NLaunched, n
<1>4. LinesNumbered'
  BY DEF LinesNumbered
<1>5. StagesTracked'
  BY DEF StagesTracked, Stage, Busy, After, Ending, NLaunched, TypeOK, n
<1>6. Signals'
  BY DEF Signals, Quiet
<1>7. Joined'
  BY DEF Joined, AtMostOne, Missed, Passed, Children, Ending, n
<1> QED
  BY <1>1, <1>2, <1>3, <1>4, <1>5, <1>6, <1>7

LEMMA ResetIInv == IInv /\ Reset /\ UNCHANGED acts => IInv'
<1> SUFFICES ASSUME IInv, Reset, UNCHANGED acts PROVE IInv'
  OBVIOUS
<1> USE DEF IInv, Reset, callVars, fdVars, sigVars
<1>1. TypeOK'
  BY DEF TypeOK, KernelTypeOK, IndexOK, PcValues, n
<1>2. IndexOK'
  BY DEF IndexOK, TypeOK, Busy, After, Ending, n
<1>3. PipesMade'
  BY DEF PipesMade, TypeOK, IndexOK, Busy, After, Ending, NLaunched, n
<1>4. LinesNumbered'
  BY DEF LinesNumbered
<1>5. StagesTracked'
  BY DEF StagesTracked, Stage, Busy, After, Ending, NLaunched, TypeOK, n
<1>6. Signals'
  BY DEF Signals, Quiet
<1>7. Joined'
  BY DEF Joined, Ending
<1> QED
  BY <1>1, <1>2, <1>3, <1>4, <1>5, <1>6, <1>7

LEMMA WaitsJoin ==
  ASSUME KernelTypeOK, NEW t \in PidValues, WaitEnds(t) \/ WaitEintr
  PROVE  /\ st' \in [Procs -> ProcState]
         /\ eintr' \in BOOLEAN
         /\ Children' \subseteq Children
         /\ WaitEnds(t) => t \notin Children'
<1>1. CASE WaitEnds(t)
  <2>1. t \in Children' => t \in Pids
    BY DEF Children
  <2> QED
    BY <1>1, <2>1, WaitJoins DEF WaitEnds, KernelTypeOK
<1>2. CASE ~WaitEnds(t) /\ WaitEintr
  BY <1>2 DEF WaitEintr, KernelTypeOK, Children
<1> QED
  BY <1>1, <1>2

LEMMA WaitPrevIInv == IInv /\ WaitPrev /\ UNCHANGED acts => IInv'
<1> SUFFICES ASSUME IInv, WaitPrev, UNCHANGED acts PROVE IInv'
  OBVIOUS
<1> USE DEF IInv, WaitPrev, callVars, fdVars
<1>t. /\ KernelTypeOK
      /\ pid \in PidValues
      /\ k \in Nat
  BY DEF TypeOK, PidValues, IndexOK, Busy, After, Ending, n
<1>w. /\ st' \in [Procs -> ProcState]
      /\ eintr' \in BOOLEAN
      /\ Children' \subseteq Children
  BY <1>t, WaitsJoin
<1>1. TypeOK'
  BY <1>w DEF TypeOK, KernelTypeOK, IndexOK, PcValues, n
<1>2. IndexOK'
  BY DEF IndexOK, TypeOK, Busy, After, Ending, n
<1>3. PipesMade'
  BY DEF PipesMade, TypeOK, IndexOK, Busy, After, Ending, NLaunched, n
<1>4. LinesNumbered'
  BY DEF LinesNumbered
<1>5. StagesTracked'
  BY DEF StagesTracked, Stage, Busy, After, Ending, NLaunched, TypeOK, n
<1>6. Signals'
  BY DEF Signals
<1>7. Joined'
  BY DEF Joined, Ending
<1> QED
  BY <1>1, <1>2, <1>3, <1>4, <1>5, <1>6, <1>7

LEMMA WaitLastIInv == IInv /\ WaitLast /\ UNCHANGED acts => IInv'
<1> SUFFICES ASSUME IInv, WaitLast, UNCHANGED acts PROVE IInv'
  OBVIOUS
<1> USE DEF IInv, WaitLast, callVars, fdVars
<1>t. /\ KernelTypeOK
      /\ pid \in PidValues
      /\ k \in Nat
  BY DEF TypeOK, PidValues, IndexOK, Busy, After, Ending, n
<1>w. /\ st' \in [Procs -> ProcState]
      /\ eintr' \in BOOLEAN
      /\ Children' \subseteq Children
  BY <1>t, WaitsJoin
<1>1. TypeOK'
  BY <1>w DEF TypeOK, KernelTypeOK, IndexOK, PcValues, n
<1>2. IndexOK'
  BY DEF IndexOK, TypeOK, Busy, After, Ending, n
<1>3. PipesMade'
  BY DEF PipesMade, TypeOK, IndexOK, Busy, After, Ending, NLaunched, n
<1>4. LinesNumbered'
  BY DEF LinesNumbered
<1>5. StagesTracked'
  BY DEF StagesTracked, Stage, Busy, After, Ending, NLaunched, TypeOK, n
<1>6. Signals'
  BY DEF Signals
<1>7. Joined'
  BY <1>2, <1>6 DEF Joined, AtMostOne, Missed, Passed, IndexOK, Signals, TypeOK,
                    Busy, After, Ending, n
<1> QED
  BY <1>1, <1>2, <1>3, <1>4, <1>5, <1>6, <1>7

LEMMA WaitAllIInv == IInv /\ WaitAll /\ UNCHANGED acts => IInv'
<1> SUFFICES ASSUME IInv, WaitAll, UNCHANGED acts PROVE IInv'
  OBVIOUS
<1> USE DEF IInv, WaitAll, callVars, fdVars
<1>t. /\ KernelTypeOK
      /\ k \in 1..n /\ n \in Nat
      /\ launched[k] \in PidValues
  BY DEF TypeOK, PidValues, IndexOK, Busy, After, Ending, n
<1>w. /\ st' \in [Procs -> ProcState]
      /\ eintr' \in BOOLEAN
      /\ Children' \subseteq Children
      /\ WaitEintr \/ launched[k] \notin Children'
  <2>1. CASE WaitReaps(launched[k]) \/ WaitEchild(launched[k])
    <3>1. launched[k] \in Children' => launched[k] \in Pids
      BY DEF Children
    <3> QED
      BY <1>t, <2>1, <3>1, WaitJoins DEF KernelTypeOK, WaitEintr
  <2>2. CASE WaitEintr
    BY <1>t, <2>2 DEF WaitEintr, KernelTypeOK, Children
  <2> QED
    BY <2>1, <2>2
<1>1. TypeOK'
  BY <1>t, <1>w DEF TypeOK, KernelTypeOK, PcValues, n
<1>2. IndexOK'
  BY <1>t DEF IndexOK, Busy, After, Ending, n
<1>3. PipesMade'
  BY DEF PipesMade, Busy, After, Ending, NLaunched, n
<1>4. LinesNumbered'
  BY DEF LinesNumbered
<1>5. StagesTracked'
  BY DEF StagesTracked, Stage, Busy, After, Ending, NLaunched, n
<1>6. Signals'
  BY DEF Signals
<1>7. Joined'
  <2>1. Missed' \subseteq Missed
    <3> SUFFICES ASSUME NEW j \in 1..n, Passed(j)', launched[j] \in Children'
                 PROVE  Passed(j)
      BY <1>w DEF Missed, n
    <3>1. CASE WaitEintr
      BY <1>t, <3>1 DEF WaitEintr, Passed
    <3>2. CASE ~WaitEintr
      <4>1. j # k
        BY <1>w, <3>2
      <4>2. errno = "unread"
        BY DEF Signals
      <4>3. \/ k' = k + 1 /\ errno' = errno
            \/ k' = k
        BY <3>2
      <4> QED
        BY <1>t, <4>1, <4>2, <4>3 DEF Passed
    <3> QED
      BY <3>1, <3>2
  <2>2. AtMostOne(Missed)
    BY DEF Joined, Ending
  <2> QED
    BY <2>1, <2>2 DEF Joined, AtMostOne
<1> QED
  BY <1>1, <1>2, <1>3, <1>4, <1>5, <1>6, <1>7

LEMMA CheckErrnoIInv == IInv /\ CheckErrno /\ UNCHANGED acts => IInv'
<1> SUFFICES ASSUME IInv, CheckErrno, UNCHANGED acts PROVE IInv'
  OBVIOUS
<1> USE DEF IInv, CheckErrno, callVars, fdVars
<1>t. k \in 1..n /\ n \in Nat
  BY DEF TypeOK, IndexOK, n
<1>1. TypeOK'
  BY <1>t DEF TypeOK, KernelTypeOK, PcValues, n
<1>2. IndexOK'
  BY <1>t DEF IndexOK, Busy, After, Ending, n
<1>3. PipesMade'
  BY DEF PipesMade, Busy, After, Ending, NLaunched, n
<1>4. LinesNumbered'
  BY DEF LinesNumbered
<1>5. StagesTracked'
  BY DEF StagesTracked, Stage, Busy, After, Ending, NLaunched, n
<1>6. Signals'
  BY DEF Signals, Quiet
<1>7. Joined'
  <2>1. ASSUME NEW j \in 1..n PROVE Passed(j)' <=> Passed(j)
    BY <1>t DEF Passed
  <2>2. Missed' = Missed
    BY <2>1 DEF Missed, Children, n
  <2> QED
    BY <2>2 DEF Joined, AtMostOne, Ending
<1> QED
  BY <1>1, <1>2, <1>3, <1>4, <1>5, <1>6, <1>7

LEMMA ReadLineIInv == IInv /\ ReadLine => IInv'
<1> SUFFICES ASSUME IInv, ReadLine PROVE IInv'
  OBVIOUS
<1>1. PICK l \in Lines : Enter(l)
  BY DEF ReadLine
<1>2. l \in Seq(Command) /\ Len(l) \in Nat /\ Len(l) >= 1
  BY JobsAssumption
<1> USE DEF IInv, ReadLine, Enter, fdVars, sigVars
<1>3. TypeOK'
  BY <1>1, <1>2, JobsAssumption
  DEF TypeOK, KernelTypeOK, PcValues, PidValues, n
<1>4. IndexOK'
  BY <1>1, <1>2 DEF IndexOK, Busy, After, Ending, n
<1>5. PipesMade'
  BY <1>1 DEF PipesMade, NLaunched
<1>6. LinesNumbered'
  <2>1. nlines \in Nat /\ \A p \in Pids : job[p].line \in Nat
    BY JobsAssumption DEF TypeOK, Job
  <2> QED
    BY <1>1, <2>1 DEF LinesNumbered
<1>7. StagesTracked'
  BY <1>1 DEF StagesTracked, Stage, LinesNumbered, TypeOK, Job
<1>8. Joined' /\ Signals'
  BY <1>1 DEF Joined, Signals, Quiet, Ending
<1> QED
  BY <1>3, <1>4, <1>5, <1>6, <1>7, <1>8

\* A fork() gives the child p the locals r, or fails.
Forked(p, r) ==
  /\ pid' = p
  /\ st' = [st EXCEPT ![p] = "forked"]
  /\ job' = [job EXCEPT ![p] = r]

LEMMA ForkTypes ==
  ASSUME KernelTypeOK, job \in [Pids -> Job], NEW r \in Job,
         \/ pid' = NoPid /\ UNCHANGED <<st, job>>
         \/ \E p \in Pids : Forked(p, r)
  PROVE  /\ st' \in [Procs -> ProcState]
         /\ job' \in [Pids -> Job]
         /\ pid' \in Pids \cup {NoPid}
<1>1. CASE pid' = NoPid /\ UNCHANGED <<st, job>>
  BY <1>1 DEF KernelTypeOK
<1>2. CASE \E p \in Pids : Forked(p, r)
  <2>1. PICK p \in Pids : Forked(p, r)
    BY <1>2
  <2>2. st' \in [Procs -> ProcState]
    BY <2>1 DEF Forked, KernelTypeOK, ProcState
  <2>3. job' \in [Pids -> Job]
    BY <2>1 DEF Forked
  <2> QED
    BY <2>1, <2>2, <2>3 DEF Forked
<1> QED
  BY <1>1, <1>2

\* Only the child just forked may become a stage of this line.
LEMMA ForkNumbers ==
  ASSUME LinesNumbered, job \in [Pids -> Job], nlines \in Nat, UNCHANGED nlines,
         NEW r \in Job, r.line = nlines,
         \/ pid' = NoPid /\ UNCHANGED <<st, job>>
         \/ \E p \in Pids : Forked(p, r)
  PROVE  /\ LinesNumbered'
         /\ \A p \in Pids : Stage(p)' => \/ Stage(p) /\ job'[p] = job[p]
                                         \/ job'[p] = r /\ pid' = p
<1>1. CASE pid' = NoPid /\ UNCHANGED <<st, job>>
  BY <1>1 DEF LinesNumbered, Stage
<1>2. CASE \E p \in Pids : Forked(p, r)
  <2>1. PICK p \in Pids : Forked(p, r)
    BY <1>2
  <2>2. /\ job'[p] = r /\ pid' = p
        /\ \A q \in Pids \ {p} : job'[q] = job[q]
    BY <2>1 DEF Forked
  <2> QED
    BY <2>2 DEF LinesNumbered, Stage
<1> QED
  BY <1>1, <1>2

\* A single command inherits the shell's descriptors, which are restored.
SimpleDescriptors(p) ==
  /\ fd0' = [fd0 EXCEPT ![p] = fd0[Shell], ![Shell] = saved0]
  /\ fd1' = [fd1 EXCEPT ![p] = fd1[Shell], ![Shell] = saved1]
  /\ open' = [open EXCEPT ![p] = open[Shell]]

LEMMA SimpleDescriptorTypes ==
  ASSUME KernelTypeOK, saved0 \in Channel, saved1 \in Channel,
         \/ \E p \in Pids : SimpleDescriptors(p)
         \/ /\ fd0' = [fd0 EXCEPT ![Shell] = saved0]
            /\ fd1' = [fd1 EXCEPT ![Shell] = saved1]
            /\ open' = open
  PROVE  /\ fd0' \in [Procs -> Channel]
         /\ fd1' \in [Procs -> Channel]
         /\ open' \in [Procs -> SUBSET PipeEnd]
<1>1. CASE \E p \in Pids : SimpleDescriptors(p)
  <2>1. PICK p \in Pids : SimpleDescriptors(p)
    BY <1>1
  <2>2. fd0' \in [Procs -> Channel]
    BY <2>1 DEF SimpleDescriptors, KernelTypeOK
  <2>3. fd1' \in [Procs -> Channel]
    BY <2>1 DEF SimpleDescriptors, KernelTypeOK
  <2>4. open' \in [Procs -> SUBSET PipeEnd]
    BY <2>1 DEF SimpleDescriptors, KernelTypeOK
  <2> QED
    BY <2>2, <2>3, <2>4
<1>2. CASE /\ fd0' = [fd0 EXCEPT ![Shell] = saved0]
           /\ fd1' = [fd1 EXCEPT ![Shell] = saved1]
           /\ open' = open
  BY <1>2 DEF KernelTypeOK
<1> QED
  BY <1>1, <1>2

LEMMA ForkSimpleIInv == IInv /\ ForkSimple /\ UNCHANGED acts => IInv'
<1> SUFFICES ASSUME IInv, ForkSimple, UNCHANGED acts PROVE IInv'
  OBVIOUS
<1> USE DEF IInv, ForkSimple, callVars, sigVars
<1>1. i \in 1..n /\ n \in Nat /\ cmd \in Command /\ nlines \in Nat
  BY JobsAssumption DEF IndexOK, TypeOK, Busy, After, Ending, n, cmd
<1>2. JobFor(FALSE) \in Job
  BY <1>1 DEF JobFor, Job
<1>f. \/ pid' = NoPid /\ UNCHANGED <<st, job>>
      \/ \E p \in Pids : Forked(p, JobFor(FALSE))
  BY DEF FreePids, Forked
<1>3. TypeOK'
  <2>1. /\ st' \in [Procs -> ProcState]
        /\ job' \in [Pids -> Job]
        /\ pid' \in Pids \cup {NoPid}
    BY <1>2, <1>f, ForkTypes DEF TypeOK
  <2>2. /\ fd0' \in [Procs -> Channel]
        /\ fd1' \in [Procs -> Channel]
        /\ open' \in [Procs -> SUBSET PipeEnd]
    <3>1. KernelTypeOK /\ saved0 \in Channel /\ saved1 \in Channel
      BY DEF TypeOK
    <3>2. \/ \E p \in Pids : SimpleDescriptors(p)
          \/ /\ fd0' = [fd0 EXCEPT ![Shell] = saved0]
             /\ fd1' = [fd1 EXCEPT ![Shell] = saved1]
             /\ open' = open
      BY DEF SimpleDescriptors, Restored0, Restored1, FreePids
    <3> QED
      BY <3>1, <3>2, SimpleDescriptorTypes
  <2> QED
    BY <1>1, <2>1, <2>2 DEF TypeOK, KernelTypeOK, PcValues, n
<1>4. IndexOK'
  BY DEF IndexOK, TypeOK, Busy, After, Ending, n
<1>5. PipesMade'
  <2>1. cmd.conn # "pipe"
    BY DEF Piped
  <2> QED
    BY <1>1, <2>1 DEF PipesMade, NLaunched, Busy, After, Ending, n, cmd
<1>6. LinesNumbered' /\ \A p \in Pids : Stage(p)' => Stage(p) /\ job'[p] = job[p]
  <2>1. JobFor(FALSE).line = nlines /\ ~JobFor(FALSE).piped
    BY DEF JobFor
  <2>2. job \in [Pids -> Job]
    BY DEF TypeOK
  <2> QED
    BY <1>1, <1>2, <1>f, <2>1, <2>2, ForkNumbers DEF Stage
<1>7. StagesTracked'
  BY <1>1, <1>6 DEF StagesTracked, NLaunched, Busy, After, Ending, n
<1>8. Joined' /\ Signals'
  BY DEF Joined, Signals, Quiet, Ending
<1> QED
  BY <1>3, <1>4, <1>5, <1>6, <1>7, <1>8

\* A pipeline finds every pipe made, and its ends are pipe ends.
LEMMA PipesNowMade ==
  ASSUME IInv, pc = "launch", Piped
  PROVE  /\ PipesNow \in [1..(n - 1) -> Nat]
         /\ NPipesNow \in Nat
         /\ HeldNow \in SUBSET PipeEnd
<1> USE DEF IInv
<1>1. i \in 1..n /\ n \in Nat /\ npipes \in Nat
  BY DEF IndexOK, TypeOK, Busy, After, Ending, n
<1>2. PipesNow \in [1..(n - 1) -> Nat] /\ NPipesNow \in Nat
  <2>1. CASE StartsPipe
    BY <1>1, <2>1 DEF PipesNow, NPipesNow
  <2>2. CASE ~StartsPipe
    <3>1. i - 1 \in 1..NLaunched /\ line[i - 1].conn = "pipe"
      BY <1>1, <2>2 DEF StartsPipe, AfterPipe, Last, NLaunched
    <3>2. \A m \in 1..(n - 1) : pipes[m] # Unset
      BY <3>1 DEF PipesMade, Busy
    <3> QED
      BY <1>1, <2>2, <3>2 DEF PipesNow, NPipesNow, TypeOK
  <2> QED
    BY <2>1, <2>2
<1>3. Made(PipesNow) \subseteq Nat
  BY <1>2 DEF Made
<1>4. HeldNow \in SUBSET PipeEnd
  BY <1>3 DEF HeldNow, EndsOf, ReadEnd, WriteEnd, PipeEnd, TypeOK, KernelTypeOK
<1> QED
  BY <1>2, <1>4

\* Whatever a stage gets as descriptors 0 and 1 is something the model knows.
LEMMA StageChannels ==
  ASSUME IInv, pc = "launch", Piped
  PROVE  StageIn \subseteq Channel /\ StageOut \subseteq Channel
<1>1. i \in 1..n /\ n \in Nat /\ cmd \in Command
  BY DEF IInv, IndexOK, TypeOK, Busy, After, Ending, n, cmd
<1>2. Stray \subseteq Channel
  BY PipesNowMade DEF Stray, Channel, IInv, TypeOK, KernelTypeOK
<1>3. \A m \in 1..(n - 1) : /\ ReadEnd(PipesNow[m]) \in Channel
                            /\ WriteEnd(PipesNow[m]) \in Channel
  BY PipesNowMade DEF ReadEnd, WriteEnd, PipeEnd, Channel
<1>4. fd0[Shell] \in Channel /\ fd1[Shell] \in Channel
  BY DEF IInv, TypeOK, KernelTypeOK
<1>5. StageIn \subseteq Channel
  BY <1>1, <1>2, <1>3, <1>4 DEF StageIn
<1>6. StageOut \subseteq Channel
  BY <1>1, <1>2, <1>3, <1>4 DEF StageOut
<1> QED
  BY <1>5, <1>6

LEMMA ForkStageIInv == IInv /\ ForkStage /\ UNCHANGED acts => IInv'
<1> SUFFICES ASSUME IInv, ForkStage, UNCHANGED acts PROVE IInv'
  OBVIOUS
<1> USE DEF IInv, callVars, sigVars
<1>1. i \in 1..n /\ n \in Nat /\ cmd \in Command /\ nlines \in Nat
  BY JobsAssumption DEF ForkStage, IndexOK, TypeOK, Busy, After, Ending, n, cmd
<1>2. pc = "launch" /\ Piped /\ pc' = "setFg" /\ pipes' = PipesNow
  BY DEF ForkStage
<1>3. JobFor(TRUE) \in Job
  BY <1>1, <1>2, PipesNowMade DEF JobFor, Job, Made
<1>f. \/ pid' = NoPid /\ UNCHANGED <<st, job>>
      \/ \E p \in Pids : Forked(p, JobFor(TRUE))
  BY DEF ForkStage, Stages, FreePids, Forked
<1>4. TypeOK'
  <2>1. /\ st' \in [Procs -> ProcState]
        /\ job' \in [Pids -> Job]
        /\ pid' \in Pids \cup {NoPid}
    BY <1>3, <1>f, ForkTypes DEF TypeOK
  <2>2. /\ fd0' \in [Procs -> Channel]
        /\ fd1' \in [Procs -> Channel]
    <3>1. CASE UNCHANGED <<fd0, fd1>>
      BY <3>1 DEF TypeOK, KernelTypeOK
    <3>2. CASE ~UNCHANGED <<fd0, fd1>>
      <4>1. PICK p \in FreePids, in \in StageIn, out \in StageOut :
               Stages(p, in, out)
        BY <3>2, Zenon DEF ForkStage
      <4>2. in \in Channel /\ out \in Channel
        BY <1>2, StageChannels
      <4> QED
        BY <4>1, <4>2 DEF Stages, TypeOK, KernelTypeOK
    <3> QED
      BY <3>1, <3>2
  <2>3. open' \in [Procs -> SUBSET PipeEnd]
    BY <1>2, PipesNowMade DEF ForkStage, Stages, TypeOK, KernelTypeOK
  <2>4. pipes' \in [1..(n - 1) -> Nat \cup {Unset}] /\ npipes' \in Nat
    BY <1>1, <1>2, PipesNowMade DEF ForkStage
  <2> QED
    BY <1>1, <2>1, <2>2, <2>3, <2>4
    DEF ForkStage, TypeOK, KernelTypeOK, PcValues, n
<1>5. IndexOK'
  BY <1>1 DEF ForkStage, IndexOK, Busy, After, Ending, n
<1>6. PipesMade'
  BY <1>1, <1>2, PipesNowMade DEF ForkStage, PipesMade, n
<1>7. LinesNumbered' /\ StagesTracked'
  <2>1. /\ JobFor(TRUE).line = nlines /\ JobFor(TRUE).idx = i
        /\ UNCHANGED <<nlines, i, launched>>
    BY DEF JobFor, ForkStage
  <2>2. job \in [Pids -> Job]
    BY DEF TypeOK
  <2>3. /\ LinesNumbered'
        /\ \A p \in Pids : Stage(p)' => \/ Stage(p) /\ job'[p] = job[p]
                                        \/ job'[p] = JobFor(TRUE) /\ pid' = p
    BY <1>1, <1>3, <1>f, <2>1, <2>2, ForkNumbers
  <2>4. ASSUME NEW p \in Pids, Stage(p)'
        PROVE  /\ job'[p].idx \in 1..i
               /\ IF job'[p].idx = i THEN pid' = p ELSE launched[job'[p].idx] = p
    <3>1. CASE Stage(p) /\ job'[p] = job[p]
      <4>1. job[p].idx \in 1..(i - 1) /\ launched[job[p].idx] = p
        BY <1>1, <1>2, <3>1 DEF StagesTracked, NLaunched, Busy
      <4> QED
        BY <1>1, <3>1, <4>1
    <3>2. CASE job'[p] = JobFor(TRUE) /\ pid' = p
      <4>1. job'[p].idx = i /\ pid' = p
        BY <2>1, <3>2
      <4> QED
        BY <1>1, <4>1
    <3> QED
      BY <2>3, <2>4, <3>1, <3>2
  <2> QED
    BY <1>2, <2>1, <2>3, <2>4 DEF StagesTracked, NLaunched
<1>8. Joined' /\ Signals'
  BY <1>2 DEF ForkStage, Joined, Signals, Quiet, Ending
<1> QED
  BY <1>4, <1>5, <1>6, <1>7, <1>8

-----------------------------------------------------------------------------
(* Every step of the shell keeps the invariant.                            *)

LEMMA NextIInv == IInv /\ [Next]_vars => IInv'
<1> SUFFICES ASSUME IInv, [Next]_vars PROVE IInv'
  OBVIOUS
<1>1. CASE ReadLine
  BY <1>1, ReadLineIInv
<1>2. CASE ShellStep
  BY <1>2, PopIInv, WaitPrevIInv, RedirectIInv, RedirectFailsIInv,
     ForkStageIInv, SetFgIInv, RunBuiltinIInv, ForkSimpleIInv,
     CloseAndRestoreIInv, WaitLastIInv, JoinIInv, WaitAllIInv, CheckErrnoIInv,
     JoinDoneIInv, ResetIInv
  DEF ShellStep, JobsStep
<1>3. CASE HandlerStep
  BY <1>3, HandlerIInv
<1>4. CASE CtrlC \/ StopOrContinue
  BY <1>4, CtrlCIInv, StopIInv
<1>5. CASE \E p \in Pids : ChildStep(p) \/ Exit(p)
  BY <1>5, ChildIInv, ExitIInv
<1>6. CASE Done \/ UNCHANGED vars
  <2>1. /\ UNCHANGED <<jobsVars, acts>>
        /\ UNCHANGED <<st, fd0, fd1, open, pend, inHandler, eintr, errno>>
    BY <1>6 DEF Done, vars, fdVars, sigVars
  <2>2. TypeOK' /\ Signals' /\ Children' = Children
    BY <2>1 DEF IInv, TypeOK, KernelTypeOK, Signals, jobsVars, n, Children
  <2> QED
    BY <2>1, <2>2, OutsideIInv DEF jobsVars
<1> QED
  BY <1>1, <1>2, <1>3, <1>4, <1>5, <1>6 DEF Next

LEMMA Invariance == Spec => []IInv
<1>1. Init => IInv
  BY InitIInv
<1>2. IInv /\ [Next]_vars => IInv'
  BY NextIInv
<1> QED
  BY <1>1, <1>2, PTL DEF Spec

(* TypeOK is an invariant: every variable keeps its type, also through the *)
(* reads outside pipes[] and launched[] (src/src/jobs.c:82-234).           *)
THEOREM TypeCorrect == Spec => []TypeOK
<1>1. IInv => TypeOK
  BY DEF IInv
<1> QED
  BY <1>1, Invariance, PTL

(* When executeCommandsInQueue() is about to clear fg_pid no stage of the  *)
(* line's pipelines is left, running or zombie, whatever the signals, the  *)
(* system calls that failed and the commands next to the pipeline; but for *)
(* one, where ^C has changed errno behind the loop's back                  *)
(* (src/src/jobs.c:182 and 226-227, src/src/main.c:84-88).                 *)
THEOREM Joins == Spec => []PipelineJoined
<1>1. IInv => PipelineJoined
  <2> DEFINE left == {p \in Children : Stage(p)}
  <2> SUFFICES ASSUME IInv, pc = "reset", left # {}
               PROVE  acts > 0 /\ fg_pid = 0 /\ \E p \in Pids : left = {p}
    BY DEF PipelineJoined, Stage
  <2>1. i = n /\ n \in Nat /\ k = n + 1
    BY DEF IInv, IndexOK, TypeOK, After, Ending, n
  <2>2. left \subseteq Missed
    <3> SUFFICES ASSUME NEW p \in Children, Stage(p) PROVE p \in Missed
      OBVIOUS
    <3>1. p \in Pids /\ job[p].idx \in 1..n /\ launched[job[p].idx] = p
      BY <2>1 DEF IInv, StagesTracked, Busy, After, Ending, NLaunched, Children
    <3>2. Passed(job[p].idx)
      BY <2>1, <3>1 DEF Passed
    <3> QED
      BY <3>1, <3>2 DEF Missed
  <2>3. AtMostOne(Missed)
    BY DEF IInv, Joined, Ending
  <2> QED
    BY <2>2, <2>3 DEF AtMostOne
<1> QED
  BY <1>1, Invariance, PTL

-----------------------------------------------------------------------------
(* Shell implements Launch.  IInv gives where each index stands.  Two      *)
(* things are new: a signal or a death never makes a command look          *)
(* unstarted, and only a fork() makes one started, the one at hand.        *)

ShownOK == Shown \in Seq(Promise!Cmd) /\ Len(Shown) = n /\ n \in Nat

LEMMA ShownType == IInv => ShownOK
<1> SUFFICES ASSUME IInv PROVE ShownOK
  OBVIOUS
<1>1. line \in Seq(Command) /\ n \in Nat
  BY DEF IInv, TypeOK, n
<1>2. \A j \in 1..n : line[j] \in Command
  BY <1>1 DEF n
<1>3. \A j \in 1..n : Shown[j] \in Promise!Cmd
  BY <1>2 DEF Shown, Command, Conns, Promise!Cmd
<1> QED
  BY <1>1, <1>3, IsASeq DEF Shown, ShownOK

\* What does not move the launcher is no step of Launch.
LEMMA Stutters ==
  ASSUME UNCHANGED <<line, nlines, job, NextToStart>>,
         pc' = pc \/ {pc, pc'} \subseteq Busy,
         \A p \in Pids : st'[p] = "free" <=> st[p] = "free"
  PROVE  UNCHANGED Promise!vars
<1>1. UNCHANGED <<Shown, Started>>
  BY DEF Shown, Started, n
<1> QED
  BY <1>1 DEF Promise!vars, Busy, After, Ending

LEMMA DieFrees ==
  ASSUME NEW V \in SUBSET Running, Die(V)
  PROVE  \A p \in Pids : st'[p] = "free" <=> st[p] = "free"
BY DEF Running, Die, Procs

LEMMA ReapFrees ==
  ASSUME KernelTypeOK, NEW t, WaitReaps(t) \/ WaitEchild(t) \/ UNCHANGED st
  PROVE  \A p \in Pids : st'[p] = "free" <=> st[p] = "free"
<1>1. CASE WaitReaps(t)
  <2>1. PICK p \in Zombies(t) : Reap(p)
    BY <1>1 DEF WaitReaps
  <2> QED
    BY <2>1 DEF Reap, Zombies, KernelTypeOK
<1> QED
  BY <1>1 DEF WaitEchild

\* What others do than the function and run().
Outside ==
  \/ HandlerStep
  \/ CtrlC
  \/ StopOrContinue
  \/ \E p \in Pids : ChildStep(p) \/ Exit(p)
  \/ Done
  \/ UNCHANGED vars

LEMMA OutsideKeeps ==
  ASSUME IInv, Outside
  PROVE  /\ UNCHANGED <<line, nlines, job, pc, i>>
         /\ \A p \in Pids : st'[p] = "free" <=> st[p] = "free"
<1>t. KernelTypeOK
  BY DEF IInv, TypeOK
<1> USE DEF Outside
<1>1. UNCHANGED <<line, nlines, job, pc, i>>
  BY DEF HandlerStep, HandleChld, HandleIntAtPrompt, HandleIntKill,
         HandlerReturns, CtrlC, StopOrContinue, Done, ChildStep, ChildExec,
         Exit, vars, jobsVars
<1>2. \A p \in Pids : st'[p] = "free" <=> st[p] = "free"
  <2>1. CASE HandleChld
    BY <2>1, <1>t, ReapFrees DEF HandleChld
  <2>2. CASE HandleIntAtPrompt \/ StopOrContinue \/ Done \/ UNCHANGED vars
    BY <2>2 DEF HandleIntAtPrompt, StopOrContinue, Done, vars
  <2>3. CASE HandleIntKill
    <3>1. PICK V \in SUBSET {p \in Running : fg_pid \in {p, NoPid}} : Die(V)
      BY <2>3 DEF HandleIntKill
    <3> QED
      BY <3>1, DieFrees
  <2>4. CASE HandlerReturns
    BY <2>4, <1>t, ReapFrees DEF HandlerReturns
  <2>5. CASE CtrlC
    BY <2>5, DieFrees DEF CtrlC
  <2>6. ASSUME NEW p \in Pids, ChildStep(p) \/ Exit(p)
        PROVE  \A q \in Pids : st'[q] = "free" <=> st[q] = "free"
    <3>1. CASE ChildStep(p)
      BY <3>1, <1>t DEF ChildStep, ChildExec, KernelTypeOK
    <3>2. CASE Exit(p)
      BY <3>2, DieFrees DEF Exit
    <3> QED
      BY <2>6, <3>1, <3>2
  <2> QED
    BY <2>1, <2>2, <2>3, <2>4, <2>5, <2>6 DEF HandlerStep
<1> QED
  BY <1>1, <1>2

LEMMA OutsideKeepsOrder == IInv /\ Outside => UNCHANGED Promise!vars
<1> SUFFICES ASSUME IInv, Outside PROVE UNCHANGED Promise!vars
  OBVIOUS
<1>1. UNCHANGED NextToStart
  BY OutsideKeeps DEF NextToStart, n
<1> QED
  BY <1>1, OutsideKeeps, Stutters

\* Between two launches the function waits, redirects and keeps its books.
Between ==
  \/ Pop \/ WaitPrev \/ Redirect \/ SetFg
  \/ CloseAndRestore \/ WaitLast
  \/ Join \/ WaitAll \/ CheckErrno \/ JoinDone

LEMMA BetweenKeeps ==
  ASSUME IInv, Between
  PROVE  /\ UNCHANGED <<line, nlines, job>> /\ {pc, pc'} \subseteq Busy
         /\ \A p \in Pids : st'[p] = "free" <=> st[p] = "free"
<1>t. KernelTypeOK
  BY DEF IInv, TypeOK
<1> USE DEF Between
<1>1. UNCHANGED <<line, nlines, job>> /\ {pc, pc'} \subseteq Busy
  BY DEF Pop, WaitPrev, Redirect, SetFg, CloseAndRestore, WaitLast, Join, WaitAll,
         CheckErrno, JoinDone, callVars, Busy, After, Ending
<1>2. \A p \in Pids : st'[p] = "free" <=> st[p] = "free"
  BY <1>t, ReapFrees
  DEF Pop, WaitPrev, Redirect, SetFg, CloseAndRestore, WaitLast, Join, WaitAll,
      CheckErrno, JoinDone, WaitEnds, WaitEintr
<1> QED
  BY <1>1, <1>2

LEMMA BetweenKeepsOrder == IInv /\ Between => UNCHANGED Promise!vars
<1> SUFFICES ASSUME IInv, Between PROVE UNCHANGED Promise!vars
  OBVIOUS
<1>1. i \in Nat /\ n \in Nat
  BY DEF IInv, TypeOK, n
<1>2. UNCHANGED NextToStart
  BY <1>1
  DEF Between, Pop, WaitPrev, Redirect, SetFg, CloseAndRestore, WaitLast, Join,
      WaitAll, CheckErrno, JoinDone, callVars, NextToStart, n
<1> QED
  BY <1>2, BetweenKeeps, Stutters

\* A new line: no child is of it yet.
LEMMA ReadLineKeepsOrder == IInv /\ ReadLine => Promise!ReadLine
<1> SUFFICES ASSUME IInv, ReadLine PROVE Promise!ReadLine
  OBVIOUS
<1>1. /\ pc = "prompt" /\ pc' = "pop" /\ i' = 0 /\ nlines' = nlines + 1
      /\ UNCHANGED job
  BY DEF ReadLine, Enter
<1>2. Started' = {}
  <2>1. nlines \in Nat /\ \A p \in Pids : job[p].line <= nlines /\ job[p].line \in Nat
    BY JobsAssumption DEF IInv, TypeOK, LinesNumbered, Job
  <2> QED
    BY <1>1, <2>1 DEF Started
<1>3. Shown' \in Seq(Promise!Cmd)
  <2>1. IInv'
    BY ReadLineIInv
  <2>2. ShownOK'
    BY <2>1, ShownType, PTL
  <2> QED
    BY <2>2 DEF ShownOK
<1>4. NextToStart' = 1
  BY <1>1 DEF NextToStart
<1> QED
  BY <1>1, <1>2, <1>3, <1>4 DEF Promise!ReadLine

\* Where the launcher is about to launch, or to give up.
LEMMA AtHand ==
  ASSUME IInv, pc \in {"redirect", "launch"}
  PROVE  /\ NextToStart = i /\ i \in 1..n /\ n \in Nat /\ Len(Shown) = n
         /\ Shown[i].files <=> cmd.in \/ cmd.out
         /\ Promise!OwnTurn <=> ~Piped /\ InShell
<1>1. i \in 1..n /\ n \in Nat /\ NextToStart = i
  BY DEF IInv, IndexOK, TypeOK, NextToStart, n
<1>2. Len(Shown) = n
  BY ShownType DEF ShownOK
<1>3. /\ Shown[i].conn = cmd.conn
      /\ Shown[i].own <=> cmd.prog \in Builtins
      /\ Shown[i].files <=> cmd.in \/ cmd.out
  BY <1>1 DEF Shown, cmd
<1>4. i > 1 => Shown[i - 1].conn = Last.conn
  <2>1. i > 1 => i - 1 \in 1..n
    BY <1>1
  <2> QED
    BY <2>1 DEF Shown, Last
<1>5. Promise!InPipe <=> Piped
  BY <1>1, <1>3, <1>4 DEF Promise!InPipe, Piped, AfterPipe
<1>6. Promise!OwnTurn <=> ~Piped /\ InShell
  BY <1>1, <1>2, <1>3, <1>5 DEF Promise!OwnTurn, InShell
<1> QED
  BY <1>1, <1>2, <1>3, <1>6

\* fork() makes the command at hand, and no other, a started one.
LEMMA ForkStarts ==
  ASSUME IInv, UNCHANGED nlines, NEW r \in Job, r.line = nlines, r.idx = i,
         \/ UNCHANGED <<st, job>>
         \/ \E p \in FreePids : Forked(p, r)
  PROVE  Started' \in {Started, Started \cup {i}}
<1>1. CASE UNCHANGED <<st, job>>
  BY <1>1 DEF Started
<1>2. CASE \E p \in FreePids : Forked(p, r)
  <2>1. PICK p \in FreePids : Forked(p, r)
    BY <1>2
  <2>2. /\ p \in Pids /\ st[p] = "free" /\ st'[p] = "forked" /\ job'[p] = r
        /\ \A q \in Pids \ {p} : st'[q] = st[q] /\ job'[q] = job[q]
    BY <2>1 DEF FreePids, Forked, IInv, TypeOK, KernelTypeOK, Procs
  <2>3. Started' = Started \cup {i}
    BY <2>2 DEF Started
  <2> QED
    BY <2>3
<1> QED
  BY <1>1, <1>2

LEMMA StartKeepsOrder == IInv /\ (ForkStage \/ ForkSimple) => Promise!StartChild
<1> SUFFICES ASSUME IInv, ForkStage \/ ForkSimple PROVE Promise!StartChild
  OBVIOUS
<1>1. /\ pc = "launch" /\ pc' \in {"setFg", "pop", "close"}
      /\ UNCHANGED <<line, nlines, i>>
      /\ ~(~Piped /\ InShell)
  BY DEF ForkStage, ForkSimple, callVars
<1>2. NextToStart = i /\ i \in 1..n /\ n \in Nat /\ Len(Shown) = n /\ ~Promise!OwnTurn
  BY <1>1, AtHand
<1>3. NextToStart' = i + 1 /\ Shown' = Shown
  BY <1>1, <1>2 DEF NextToStart, Shown, n
<1>4. Started' \in {Started, Started \cup {i}}
  <2>1. nlines \in Nat /\ i \in Nat /\ cmd \in Command
    BY <1>2, JobsAssumption DEF IInv, TypeOK, cmd, n
  <2>2. CASE ForkStage
    <3>1. Made(PipesNow) \subseteq Nat
      BY <2>2, PipesNowMade DEF ForkStage, Made
    <3>2. JobFor(TRUE) \in Job /\ JobFor(TRUE).line = nlines /\ JobFor(TRUE).idx = i
      BY <2>1, <3>1 DEF JobFor, Job
    <3>3. \/ UNCHANGED <<st, job>>
          \/ \E p \in FreePids : Forked(p, JobFor(TRUE))
      BY <2>2 DEF ForkStage, Stages, Forked
    <3> QED
      BY <1>1, <3>2, <3>3, ForkStarts
  <2>3. CASE ForkSimple
    <3>1. /\ JobFor(FALSE) \in Job
          /\ JobFor(FALSE).line = nlines /\ JobFor(FALSE).idx = i
      BY <2>1 DEF JobFor, Job
    <3>2. \/ UNCHANGED <<st, job>>
          \/ \E p \in FreePids : Forked(p, JobFor(FALSE))
      BY <2>3 DEF ForkSimple, Forked
    <3> QED
      BY <1>1, <3>1, <3>2, ForkStarts
  <2> QED
    BY <2>2, <2>3
<1> QED
  BY <1>1, <1>2, <1>3, <1>4 DEF Promise!StartChild

\* The three ways out of the function.
LEMMA LeaveKeepsOrder ==
  /\ IInv /\ RedirectFails => Promise!GiveUp
  /\ IInv /\ RunBuiltin => Promise!RunHere
  /\ IInv /\ Reset => Promise!Return
<1>1. ASSUME IInv, RedirectFails PROVE Promise!GiveUp
  <2>1. /\ pc = "redirect" /\ pc' = "prompt" /\ (cmd.in \/ cmd.out)
        /\ UNCHANGED <<line, nlines, i, job, st>>
    BY <1>1 DEF RedirectFails, callVars
  <2>2. /\ NextToStart = i /\ i \in 1..n /\ Len(Shown) = n
        /\ Shown[i].files
    BY <1>1, <2>1, AtHand
  <2>3. NextToStart' = n + 1 /\ Shown' = Shown /\ Started' = Started
    BY <2>1 DEF NextToStart, Shown, Started, n
  <2> QED
    BY <2>1, <2>2, <2>3 DEF Promise!GiveUp
<1>2. ASSUME IInv, RunBuiltin PROVE Promise!RunHere
  <2>1. /\ pc = "launch" /\ pc' \in {"prompt", "exited"} /\ ~Piped /\ InShell
        /\ UNCHANGED <<line, nlines, i, job>>
    BY <1>2 DEF RunBuiltin, callVars
  <2>2. NextToStart = i /\ i \in 1..n /\ Len(Shown) = n /\ Promise!OwnTurn
    BY <1>2, <2>1, AtHand
  <2>3. \A p \in Pids : st'[p] = st[p]
    BY <1>2 DEF RunBuiltin, IInv, TypeOK, KernelTypeOK, Procs, Pids, Shell
  <2>4. NextToStart' = n + 1 /\ Shown' = Shown /\ Started' = Started
    BY <2>1, <2>3 DEF NextToStart, Shown, Started, n
  <2> QED
    BY <2>1, <2>2, <2>4 DEF Promise!RunHere
<1>3. ASSUME IInv, Reset PROVE Promise!Return
  <2>1. /\ pc = "reset" /\ pc' = "prompt" /\ i = n
        /\ UNCHANGED <<line, nlines, i, job, st>>
    BY <1>3 DEF Reset, callVars, IInv, IndexOK, After, Ending
  <2>2. Len(Shown) = n
    BY <1>3, ShownType DEF ShownOK
  <2>3. NextToStart = n + 1 /\ NextToStart' = n + 1 /\ Shown' = Shown
        /\ Started' = Started
    BY <2>1 DEF NextToStart, Shown, Started, n
  <2> QED
    BY <2>1, <2>2, <2>3 DEF Promise!Return
<1> QED
  BY <1>1, <1>2, <1>3

LEMMA StepKeepsOrder == IInv /\ [Next]_vars => [Promise!Next]_(Promise!vars)
<1> SUFFICES ASSUME IInv, [Next]_vars PROVE [Promise!Next]_(Promise!vars)
  OBVIOUS
<1>1. CASE ReadLine
  BY <1>1, ReadLineKeepsOrder DEF Promise!Next
<1>2. CASE ForkStage \/ ForkSimple
  BY <1>2, StartKeepsOrder DEF Promise!Next
<1>3. CASE RedirectFails \/ RunBuiltin \/ Reset
  BY <1>3, LeaveKeepsOrder DEF Promise!Next
<1>4. CASE Between
  BY <1>4, BetweenKeepsOrder
<1>5. CASE Outside
  BY <1>5, OutsideKeepsOrder
<1> QED
  BY <1>1, <1>2, <1>3, <1>4, <1>5 DEF Next, ShellStep, JobsStep, Between, Outside

(* The commands of a line start in order, each in the place that is its    *)
(* own, and none is dropped but behind an open() that failed, whatever     *)
(* signals arrive and whatever fork() and waitpid() return                 *)
(* (src/src/jobs.c:107-210).                                               *)
THEOREM OrderKept == Spec => KeepsOrder
<1>1. Init => Promise!Init
  <2> SUFFICES ASSUME Init PROVE Promise!Init
    OBVIOUS
  <2>1. pc = "prompt" /\ line = <<>> /\ n = 0
    BY DEF Init, JobsInit, n
  <2>2. \A p \in Pids : st[p] = "free"
    BY DEF Init, KernelInit, Procs, Pids, Shell
  <2>3. Started = {} /\ NextToStart = 1 /\ Shown = <<>>
    BY <2>1, <2>2 DEF Started, NextToStart, Shown
  <2> QED
    BY <2>1, <2>3 DEF Promise!Init
<1> QED
  BY <1>1, InitIInv, NextIInv, StepKeepsOrder, PTL
  DEF Spec, KeepsOrder, Promise!Spec

-----------------------------------------------------------------------------
(* One command at a time, as long as nothing disturbs it: no ^C, no child  *)
(* stopped or continued, no job and no pipeline.                           *)

Undisturbed == acts = 0 /\ \A p \in Pids : ~job[p].piped /\ job[p].cmd.conn # "bg"

\* Behind a fork() pid is the child of the command at hand.
LastForked ==
  /\ pc = "setFg" /\ pid # NoPid => job[pid].piped
  /\ pc \in {"pop", "close"} /\ i > 0 /\ pid # NoPid =>
       job[pid].cmd = line[i] /\ (line[i].conn = "pipe" => job[pid].piped)

\* No wait was interrupted: only the end of another child could.
Calm ==
  /\ ~eintr
  /\ pc \in Blocking /\ pend # {} => \A p \in Pids : ~Up(p)

\* What still runs is the command the launcher forked last.
Latest ==
  /\ pc = "pop" /\ i = 0 => pid = NoPid
  /\ \A p \in Pids :
       Up(p) => pc \in {"pop", "waitPrev", "close", "waitLast"} /\ pid = p

Orderly == LastForked /\ Calm /\ Latest

Unforked == \A p \in Pids : st[p] = "free" => job[p] = NoJob

AloneInv == IInv /\ Unforked /\ (Undisturbed => Orderly)

\* What has disturbed the session stays in its records.
LEMMA StaysDisturbed ==
  ASSUME IInv, Unforked, [Next]_vars
  PROVE  Unforked' /\ (Undisturbed' => Undisturbed)
<1>a. acts \in Nat /\ (acts' = acts \/ acts' = acts + 1)
  <2>1. acts \in Nat
    BY ShellAssumption DEF IInv, TypeOK
  <2>2. CASE ReadLine \/ ShellStep \/ Done \/ UNCHANGED vars
    BY <2>1, <2>2 DEF ReadLine, ShellStep, Done, vars
  <2>3. CASE HandlerStep \/ CtrlC \/ StopOrContinue
    BY <2>1, <2>3 DEF HandlerStep, HandleChld, HandleIntAtPrompt, HandleIntKill,
                HandlerReturns, CtrlC, StopOrContinue
  <2>4. CASE \E p \in Pids : ChildStep(p) \/ Exit(p)
    BY <2>1, <2>4 DEF ChildStep, Exit
  <2> QED
    BY <2>1, <2>2, <2>3, <2>4 DEF Next
<1>k. /\ job \in [Pids -> Job] /\ st \in [Procs -> ProcState]
      /\ ~NoJob.piped /\ NoJob.cmd.conn # "bg"
  BY DEF IInv, TypeOK, KernelTypeOK, NoJob
<1>1. CASE ForkStage \/ ForkSimple
  <2>1. CASE UNCHANGED <<st, job>>
    BY <1>a, <2>1 DEF Unforked, Undisturbed
  <2>2. CASE \E p \in FreePids : \E r : Forked(p, r)
    <3>1. PICK p \in FreePids : \E r : Forked(p, r)
      BY <2>2
    <3>2. /\ p \in Pids /\ job[p] = NoJob /\ st'[p] = "forked"
          /\ \A q \in Pids \ {p} : job'[q] = job[q] /\ st'[q] = st[q]
      BY <1>k, <3>1 DEF Forked, FreePids, Unforked, Procs
    <3> QED
      BY <1>a, <1>k, <3>2 DEF Unforked, Undisturbed
  <2>3. \/ UNCHANGED <<st, job>>
        \/ \E p \in FreePids : \E r : Forked(p, r)
    <3>1. CASE ForkStage
      <4>1. ASSUME NEW p \in FreePids, NEW in \in StageIn, NEW out \in StageOut,
                   Stages(p, in, out)
            PROVE  Forked(p, JobFor(TRUE))
        BY <4>1 DEF Stages, Forked
      <4> QED
        BY <3>1, <4>1 DEF ForkStage
    <3>2. CASE ForkSimple
      BY <3>2 DEF ForkSimple, Forked
    <3> QED
      BY <1>1, <3>1, <3>2
  <2> QED
    BY <2>1, <2>2, <2>3
<1>2. CASE Between \/ Outside
  BY <1>a, <1>2, BetweenKeeps, OutsideKeeps DEF Unforked, Undisturbed
<1>3. CASE ReadLine \/ RedirectFails \/ RunBuiltin \/ Reset
  <2>1. job' = job /\ \A p \in Pids : st'[p] = st[p]
    BY <1>k, <1>3
    DEF ReadLine, Enter, RedirectFails, RunBuiltin, Reset, Procs
  <2> QED
    BY <1>a, <2>1 DEF Unforked, Undisturbed
<1> QED
  BY <1>1, <1>2, <1>3 DEF Next, ShellStep, JobsStep, Between, Outside

\* What dies or is reaped does not run, and nothing else changes.
LEMMA WaitDowns ==
  ASSUME KernelTypeOK, NEW t \in PidValues, WaitReaps(t) \/ WaitEchild(t)
  PROVE  \A p \in Pids : Up(p)' => Up(p) /\ p # t
<1>1. \A p \in Pids : Up(p)' => p \in Children'
  BY DEF Up, Children
<1>2. t \in Pids => t \notin Children'
  BY WaitJoins
<1>3. \A p \in Pids : Up(p)' => Up(p)
  <2>1. CASE WaitReaps(t)
    <3>1. PICK q \in Zombies(t) : Reap(q)
      BY <2>1 DEF WaitReaps
    <3> QED
      BY <3>1 DEF Up, Reap, KernelTypeOK, Procs
  <2>2. CASE WaitEchild(t)
    BY <2>2 DEF WaitEchild, Up
  <2> QED
    BY <2>1, <2>2
<1> QED
  BY <1>1, <1>2, <1>3

LEMMA ReadLineAlone == IInv /\ Orderly /\ ReadLine => Orderly'
<1> SUFFICES ASSUME Orderly, ReadLine PROVE Orderly'
  OBVIOUS
<1>1. PICK l \in Lines : Enter(l)
  BY DEF ReadLine
<1>2. /\ pc = "prompt" /\ pc' = "pop" /\ i' = 0 /\ pid' = NoPid
      /\ UNCHANGED <<st, pend, inHandler, eintr>>
  BY <1>1 DEF Enter, ReadLine, sigVars
<1> QED
  BY <1>2 DEF Orderly, LastForked, Calm, Latest, Up, Blocking

\* Children that end: the one that runs, if any.
LEMMA ChildrenAlone ==
  ASSUME IInv, Orderly, Undisturbed',
         CtrlC \/ StopOrContinue \/ Done \/ UNCHANGED vars
           \/ \E p \in Pids : ChildStep(p) \/ Exit(p)
  PROVE  Orderly'
<1>1. KernelTypeOK /\ acts \in Nat
  BY ShellAssumption DEF IInv, TypeOK
<1>2. ~CtrlC /\ ~StopOrContinue
  BY <1>1 DEF CtrlC, StopOrContinue, Undisturbed
<1>3. UNCHANGED <<pc, line, i, pid, job, inHandler, eintr>>
  BY DEF CtrlC, StopOrContinue, Done, ChildStep, ChildExec, Exit, vars, jobsVars,
         sigVars
<1>4. LastForked'
  BY <1>3 DEF Orderly, LastForked
<1>5. \A p \in Pids : Up(p)' => Up(p)
  BY <1>1, <1>2
  DEF Done, ChildStep, ChildExec, Exit, Die, Up, vars, KernelTypeOK, Procs
<1>6. Latest'
  BY <1>3, <1>5 DEF Orderly, Latest
<1>7. Calm'
  <2>1. CASE UNCHANGED pend
    BY <1>3, <1>5, <2>1 DEF Orderly, Calm
  <2>2. CASE \E p \in Pids : Exit(p)
    <3>1. PICK p \in Pids : Exit(p)
      BY <2>2
    <3>2. /\ Up(p) /\ ~Up(p)' /\ pend' = pend \cup {"CHLD"}
      BY <3>1 DEF Exit, Running, Up, Die, PendAfterDeath, Procs
    <3>3. \A q \in Pids : ~Up(q)'
      BY <1>5, <3>2 DEF Orderly, Latest
    <3> QED
      BY <1>3, <3>2, <3>3 DEF Orderly, Calm
  <2> QED
    BY <1>2, <2>1, <2>2 DEF Done, ChildStep, ChildExec, vars, sigVars
<1> QED
  BY <1>4, <1>6, <1>7 DEF Orderly

\* SIGCHLD comes between two waits, never in one.
LEMMA HandlerAlone ==
  ASSUME IInv, Orderly, Undisturbed, HandlerStep
  PROVE  Orderly'
<1>1. KernelTypeOK
  BY DEF IInv, TypeOK
<1>2. HandleChld
  BY DEF IInv, Signals, Undisturbed, HandlerStep, HandleIntAtPrompt,
         HandleIntKill, HandlerReturns
<1>3. pc \notin Blocking
  <2> SUFFICES ASSUME pc \in Blocking PROVE FALSE
    OBVIOUS
  <2>1. Blocked(Target) /\ pend # {}
    BY <1>2 DEF HandleChld, Deliverable, Orderly, Calm
  <2>2. PICK p \in Match(Target) : p \notin Zombies(Target)
    BY <2>1 DEF Blocked
  <2>3. p \in Pids /\ Up(p)
    BY <2>2 DEF Match, Zombies, Children, Up
  <2> QED
    BY <2>1, <2>3 DEF Orderly, Calm
<1>4. UNCHANGED <<pc, line, i, pid, job>> /\ ~eintr'
  BY <1>2, <1>3 DEF HandleChld, jobsVars
<1>5. \A p \in Pids : Up(p)' => Up(p)
  <2>1. CASE WaitReaps(AnyChild)
    BY <1>1, <2>1, WaitDowns DEF PidValues, AnyChild, NoPid
  <2>2. CASE UNCHANGED st
    BY <2>2 DEF Up
  <2> QED
    BY <1>2, <2>1, <2>2 DEF HandleChld
<1> QED
  BY <1>3, <1>4, <1>5 DEF Orderly, LastForked, Calm, Latest

\* Waits end with the process they wait for gone: nothing is interrupted.
LEMMA WaitsAlone ==
  ASSUME IInv, Orderly, WaitPrev \/ WaitLast \/ WaitAll
  PROVE  Orderly'
<1>1. KernelTypeOK /\ ~eintr /\ pid \in PidValues
  BY DEF IInv, TypeOK, PidValues, Orderly, Calm
<1>2. pc = "waitAll" => launched[k] \in PidValues
  <2>1. line \in Seq(Command) /\ k \in 1..(n + 1)
    BY DEF IInv, TypeOK
  <2>2. n \in Nat
    BY <2>1 DEF n
  <2>3. pc = "waitAll" => k \in 1..n
    BY <2>1, <2>2 DEF IInv, IndexOK
  <2>4. launched \in [1..n -> PidValues]
    BY DEF IInv, TypeOK
  <2> QED
    BY <2>3, <2>4
<1>3. /\ ~eintr'
      /\ \A p \in Pids : Up(p)' => Up(p)
      /\ pc # "waitAll" => \A p \in Pids : Up(p)' => p # pid
  BY <1>1, <1>2, WaitDowns DEF WaitPrev, WaitLast, WaitAll, WaitEnds, WaitEintr
<1>4. /\ UNCHANGED pid
      /\ pc \in Blocking
      /\ pc' \in {"redirect", "join", "waited"}
  BY DEF WaitPrev, WaitLast, WaitAll, callVars, Blocking
<1>5. \A p \in Pids : ~Up(p)'
  BY <1>3 DEF Orderly, Latest
<1> QED
  BY <1>3, <1>4, <1>5 DEF Orderly, LastForked, Calm, Latest, Blocking

\* Steps of the function between the waits: only a command to be waited for
\* is left running.
LEMMA BetweenAlone ==
  ASSUME IInv, Orderly, Undisturbed,
         \/ Pop \/ Redirect \/ RedirectFails \/ RunBuiltin \/ SetFg
         \/ CloseAndRestore \/ Join \/ CheckErrno \/ JoinDone \/ Reset
  PROVE  Orderly'
<1> USE DEF Pop, Redirect, RedirectFails, RunBuiltin, SetFg, CloseAndRestore,
            Join, CheckErrno, JoinDone, Reset
<1>1. KernelTypeOK /\ i \in 0..n /\ n \in Nat /\ pid \in Pids \cup {NoPid}
  BY DEF IInv, TypeOK, n
<1>2. UNCHANGED <<line, pid, job, pend, inHandler, eintr>> /\ pend = {}
  BY DEF callVars, sigVars, Quiet
<1>3. Calm'
  BY <1>2 DEF Orderly, Calm
<1>4. \A p \in Pids : Up(p)' <=> Up(p)
  BY <1>1 DEF Up, KernelTypeOK, Procs, Pids, Shell
<1>w. pc \in {"pop", "close"} /\ i > 0 /\ pid # NoPid => Waited(line[i])
  <2> SUFFICES ASSUME pc \in {"pop", "close"}, i > 0, pid # NoPid
               PROVE  line[i].conn \notin {"pipe", "bg"}
    BY DEF Waited
  <2>1. job[pid].cmd = line[i] /\ (line[i].conn = "pipe" => job[pid].piped)
    BY DEF Orderly, LastForked
  <2> QED
    BY <1>1, <2>1 DEF Undisturbed
<1>5. LastForked' /\ Latest'
  <2>1. CASE Pop
    <3>1. \/ pc' = "waitPrev"
          \/ pc' = "redirect" /\ pid = NoPid
      BY <1>1, <1>w, <2>1 DEF Orderly, Latest
    <3> QED
      BY <1>2, <1>4, <2>1, <3>1 DEF Orderly, LastForked, Latest, Pids, NoPid
  <2>2. CASE CloseAndRestore
    <3>1. i \in 1..n
      BY <1>1, <2>2 DEF IInv, IndexOK, After, Busy, Ending
    <3>2. pc' = "waitLast" \/ (pc' = "join" /\ pid = NoPid)
      BY <1>w, <2>2, <3>1 DEF cmd
    <3> QED
      BY <1>2, <1>4, <2>2, <3>2 DEF Orderly, LastForked, Latest, Pids, NoPid
  <2>3. CASE SetFg
    <3>1. pid = NoPid
      BY <1>1, <2>3 DEF Orderly, LastForked, Undisturbed
    <3> QED
      BY <1>2, <1>4, <2>3, <3>1 DEF Orderly, LastForked, Latest
  <2>4. CASE \/ Redirect \/ RedirectFails \/ RunBuiltin
             \/ Join \/ CheckErrno \/ JoinDone \/ Reset
    <3>1. /\ pc \notin {"pop", "waitPrev", "close", "waitLast"}
          /\ pc' \notin {"setFg", "pop", "close"}
      BY <2>4
    <3> QED
      BY <1>4, <3>1 DEF Orderly, LastForked, Latest
  <2> QED
    BY <2>1, <2>2, <2>3, <2>4
<1> QED
  BY <1>3, <1>5 DEF Orderly

\* A command is forked where nothing runs; a stage would be a disturbance.
LEMMA ForkAlone ==
  ASSUME IInv, Orderly, Undisturbed', ForkSimple \/ ForkStage
  PROVE  Orderly'
<1>1. KernelTypeOK /\ job \in [Pids -> Job] /\ pc = "launch" /\ i \in 1..n
  <2>1. KernelTypeOK /\ job \in [Pids -> Job] /\ i \in 0..n /\ n \in Nat
    BY DEF IInv, TypeOK, n
  <2>2. pc = "launch"
    BY DEF ForkSimple, ForkStage
  <2> QED
    BY <2>1, <2>2 DEF IInv, IndexOK
<1>2. \A p \in Pids : ~Up(p)
  BY <1>1 DEF Orderly, Latest
<1>3. CASE ForkStage
  <2>1. ASSUME NEW p \in FreePids, NEW in \in StageIn, NEW out \in StageOut,
               Stages(p, in, out)
        PROVE  FALSE
    <3>1. p \in Pids /\ job'[p] = JobFor(TRUE)
      BY <1>1, <2>1 DEF Stages, FreePids
    <3> QED
      BY <3>1 DEF Undisturbed, JobFor
  <2>2. pid' = NoPid /\ UNCHANGED <<st, pend, eintr>> /\ pc' = "setFg"
    BY <1>3, <2>1 DEF ForkStage, sigVars
  <2> QED
    BY <1>2, <2>2 DEF Orderly, LastForked, Calm, Latest, Up, Blocking
<1>4. CASE ForkSimple
  <2>1. /\ pc' \in {"pop", "close"} /\ i' = i /\ ~Piped
        /\ UNCHANGED <<line, pend, eintr>>
    BY <1>4 DEF ForkSimple, callVars, sigVars
  <2>2. /\ \A p \in Pids : Up(p)' => pid' = p
        /\ pid' # NoPid => job'[pid'].cmd = line[i]
    <3>1. CASE pid' = NoPid /\ UNCHANGED st
      BY <1>2, <3>1 DEF Up
    <3>2. CASE \E p \in FreePids : Forked(p, JobFor(FALSE))
      <4>1. PICK p \in FreePids : Forked(p, JobFor(FALSE))
        BY <3>2
      <4>2. /\ p \in Pids /\ pid' = p /\ job'[p] = JobFor(FALSE)
            /\ \A q \in Pids \ {p} : st'[q] = st[q]
        BY <1>1, <4>1 DEF Forked, FreePids, KernelTypeOK, Procs
      <4> QED
        BY <1>2, <4>2 DEF Up, JobFor, cmd
    <3> QED
      BY <1>4, <3>1, <3>2 DEF ForkSimple, Forked
  <2> QED
    BY <1>1, <2>1, <2>2
    DEF Orderly, LastForked, Calm, Latest, Blocking, Piped, cmd
<1> QED
  BY <1>3, <1>4

(* Commands run one at a time: each starts where the one before it is      *)
(* over, also behind a fork() or an open() that failed, as long as there   *)
(* is no job, no pipeline, no ^C and nobody stops or continues a child     *)
(* (src/src/jobs.c:110-117 and 219-222).                                   *)
THEOREM Alone == Spec => []OneAtATime
<1>1. Init => AloneInv
  <2> SUFFICES ASSUME Init PROVE AloneInv
    OBVIOUS
  <2>1. /\ pc = "prompt" /\ pend = {} /\ ~eintr
        /\ \A p \in Pids : ~Up(p)
    BY DEF Init, JobsInit, KernelInit, Up, Procs, Pids, Shell
  <2>2. Unforked
    BY DEF Init, JobsInit, Unforked
  <2> QED
    BY <2>1, <2>2, InitIInv DEF AloneInv, Orderly, LastForked, Calm, Latest
<1>2. AloneInv /\ [Next]_vars => AloneInv'
  <2> SUFFICES ASSUME AloneInv, [Next]_vars PROVE AloneInv'
    OBVIOUS
  <2>1. IInv' /\ Unforked' /\ (Undisturbed' => Undisturbed)
    BY NextIInv, StaysDisturbed DEF AloneInv
  <2>2. ASSUME Undisturbed' PROVE Orderly'
    <3>1. IInv /\ Orderly /\ Undisturbed
      BY <2>1, <2>2 DEF AloneInv
    <3> QED
      BY <2>2, <3>1, ReadLineAlone, ChildrenAlone, HandlerAlone, WaitsAlone,
         BetweenAlone, ForkAlone
      DEF Next, ShellStep, JobsStep
  <2> QED
    BY <2>1, <2>2 DEF AloneInv
<1>3. AloneInv => OneAtATime
  BY DEF AloneInv, Orderly, Latest, OneAtATime, Undisturbed
<1> QED
  BY <1>1, <1>2, <1>3, PTL DEF Spec

-----------------------------------------------------------------------------
(* Between two lines there are finitely many steps: each brings the        *)
(* launcher nearer to its end or, where it leaves the launcher where it    *)
(* is, uses up a signal, a child or one of the user's acts, which MaxActs  *)
(* bounds.                                                                 *)

\* The loop over launched[] is to take another round for the same child.
Again == pc = "waited" /\ errno # "ECHILD"

\* How many steps of the launcher are left, at most.
Distance ==
  IF pc \in {"prompt", "exited"} THEN 0
  ELSE IF pc = "reset" THEN 1
  ELSE IF pc = "join" THEN 3 * (n + 1 - k) + 2
  ELSE IF pc = "waitAll" \/ Again THEN 3 * (n + 1 - k) + 1
  ELSE IF pc = "waited" THEN 3 * (n + 1 - k)
  ELSE IF pc = "waitLast" THEN 3 * n + 3
  ELSE 3 * n + 4 + 5 * (n - i) + (IF pc = "waitPrev" THEN 4
                                  ELSE IF pc = "redirect" THEN 3
                                  ELSE IF pc = "launch" THEN 2
                                  ELSE IF pc = "setFg" THEN 1 ELSE 0)

OnTheWay == {p \in Pids : st[p] = "forked"}
Alive    == {p \in Pids : Up(p)}

One(b) == IF b THEN 1 ELSE 0

Weight(a, c, d, p, q, h, e, g) ==
  5 * a + c + 4 * d + 4 * p + 3 * q + h + 2 * e + g

\* How often others may still act.
Unrest ==
  Weight(MaxActs - acts, Cardinality(OnTheWay), Cardinality(Alive),
         One("INT" \in pend), One("CHLD" \in pend), One(inHandler), One(eintr),
         One(Again))

Nearer ==
  /\ Distance \in Nat /\ Distance' \in Nat /\ Unrest \in Nat /\ Unrest' \in Nat
  /\ Distance' < Distance \/ (Distance' = Distance /\ Unrest' < Unrest)

Counted ==
  /\ Distance \in Nat /\ Unrest \in Nat
  /\ Cardinality(OnTheWay) \in Nat /\ Cardinality(Alive) \in Nat
  /\ IsFiniteSet(OnTheWay) /\ IsFiniteSet(Alive)

\* What a step may use up: a signal, a handler, a ^C, a child, another round.
LEMMA Lighter ==
  ASSUME NEW a \in Nat, NEW c \in Nat, NEW d \in Nat, NEW p \in Nat, NEW q \in Nat,
         NEW h \in Nat, NEW e \in Nat, NEW g \in Nat,
         NEW a2 \in Nat, NEW c2 \in Nat, NEW d2 \in Nat, NEW p2 \in Nat,
         NEW q2 \in Nat, NEW h2 \in Nat, NEW e2 \in Nat, NEW g2 \in Nat,
         p2 <= 1 /\ q2 <= 1 /\ h2 <= 1 /\ e2 <= 1 /\ g2 <= 1,
         g2 <= g \/ (e = 1 /\ e2 = 0),
         \/ a2 = a /\ c2 = c /\ d2 = d /\ p2 = p /\ q = 1 /\ q2 = 0 /\ h2 = h
         \/ a2 = a /\ c2 = c /\ d2 = d /\ p = 1 /\ p2 = 0 /\ q2 = q /\ h2 = h
         \/ /\ a2 = a /\ c2 = c /\ p = 1 /\ p2 = 0 /\ h = 0
            /\ (d2 <= d /\ q2 = q) \/ d2 < d
         \/ /\ a2 = a /\ c2 = c /\ d2 = d /\ p2 = p /\ q2 = q /\ e2 = e
            /\ h = 1 /\ h2 = 0
         \/ /\ a2 < a /\ c2 = c /\ h2 = h /\ e2 = e
            /\ (d2 <= d /\ q2 = q) \/ d2 < d
         \/ a2 < a /\ c2 = c /\ d2 = d /\ p2 = p /\ h2 = h /\ e2 = e
         \/ a2 = a /\ c2 = c /\ d2 < d /\ p2 = p /\ h2 = h /\ e2 = e
         \/ a2 = a /\ c2 < c /\ d2 = d /\ p2 = p /\ q2 = q /\ h2 = h /\ e2 = e
         \/ /\ a2 = a /\ c2 = c /\ d2 = d /\ p2 = p /\ q2 = q /\ h2 = h
            /\ (e = 1 /\ e2 = 0) \/ (e2 = e /\ g = 1 /\ g2 = 0)
  PROVE  Weight(a2, c2, d2, p2, q2, h2, e2, g2) < Weight(a, c, d, p, q, h, e, g)
BY DEF Weight

LEMMA CountedIs == IInv => Counted
<1> SUFFICES ASSUME IInv PROVE Counted
  OBVIOUS
<1>1. /\ IsFiniteSet(OnTheWay) /\ IsFiniteSet(Alive)
      /\ Cardinality(OnTheWay) \in Nat /\ Cardinality(Alive) \in Nat
  <2>1. IsFiniteSet(Pids)
    BY KernelAssumption, FS_Interval DEF Pids
  <2>2. OnTheWay \in SUBSET Pids /\ Alive \in SUBSET Pids
    BY DEF OnTheWay, Alive
  <2> QED
    BY <2>1, <2>2, FS_Subset, FS_CardinalityType
<1>2. n \in Nat /\ i \in 0..n /\ k \in 1..(n + 1) /\ pc \in PcValues
  BY DEF IInv, TypeOK, n
<1>3. Distance \in Nat
  BY <1>2 DEF Distance, Again, PcValues
<1>4. MaxActs \in Nat /\ acts \in 0..MaxActs
  BY ShellAssumption DEF IInv, TypeOK
<1>5. \A b : One(b) \in Nat
  BY DEF One
<1>6. Unrest \in Nat
  <2>1. MaxActs - acts \in Nat
    BY <1>4
  <2>2. ASSUME NEW a \in Nat, NEW c \in Nat, NEW d \in Nat, NEW p \in Nat,
               NEW q \in Nat, NEW h \in Nat, NEW e \in Nat, NEW g \in Nat
        PROVE  Weight(a, c, d, p, q, h, e, g) \in Nat
    BY DEF Weight
  <2> QED
    BY <1>1, <1>5, <2>1, <2>2 DEF Unrest
<1> QED
  BY <1>1, <1>3, <1>6 DEF Counted

(* The launcher comes nearer to its end, but where a wait is interrupted    *)
(* and another round of the loop over launched[] follows.                  *)
LEMMA ShellNearer ==
  ASSUME IInv, ShellStep
  PROVE  \/ Distance' < Distance
         \/ /\ Distance' = Distance
            /\ UNCHANGED <<st, pend, inHandler, acts>>
            /\ (eintr /\ ~eintr') \/ (eintr' = eintr /\ Again /\ ~Again')
<1>1. /\ n \in Nat /\ i \in 0..n /\ k \in 1..(n + 1)
      /\ n' = n
      /\ IndexOK
  <2>1. line' = line
    BY DEF ShellStep, JobsStep, Pop, WaitPrev, Redirect, RedirectFails,
           ForkStage, SetFg, RunBuiltin, ForkSimple, CloseAndRestore, WaitLast,
           Join, WaitAll, CheckErrno, JoinDone, Reset, callVars
  <2> QED
    BY <2>1 DEF IInv, TypeOK, n
<1>2. CASE Pop \/ WaitPrev \/ Redirect
  BY <1>1, <1>2 DEF Pop, WaitPrev, Redirect, Distance, Again, IndexOK
<1>3. CASE RedirectFails \/ RunBuiltin
  BY <1>1, <1>3 DEF RedirectFails, RunBuiltin, Distance, Again
<1>4. CASE ForkStage \/ SetFg \/ ForkSimple
  <2>1. /\ i' = i /\ (pc' = "close" => i = n)
        /\ \/ pc = "launch" /\ pc' \in {"setFg", "pop", "close"}
           \/ pc = "setFg" /\ pc' \in {"pop", "close"}
    <3>1. CASE ForkStage
      BY <3>1 DEF ForkStage
    <3>2. CASE SetFg
      BY <1>1, <3>2 DEF SetFg
    <3>3. CASE ForkSimple
      BY <1>1, <3>3 DEF ForkSimple
    <3> QED
      BY <1>4, <3>1, <3>2, <3>3
  <2> QED
    BY <1>1, <2>1 DEF Distance, Again
<1>5. CASE CloseAndRestore \/ WaitLast
  <2>1. /\ i' = i /\ k' = k /\ i = n /\ k = 1
        /\ \/ pc = "close" /\ pc' \in {"waitLast", "join"}
           \/ pc = "waitLast" /\ pc' = "join"
    BY <1>1, <1>5 DEF CloseAndRestore, WaitLast, IndexOK, After, Busy, Ending
  <2> QED
    BY <1>1, <2>1 DEF Distance, Again
<1>6. CASE Join \/ JoinDone \/ Reset
  BY <1>1, <1>6 DEF Join, JoinDone, Reset, Distance, Again
<1>7. CASE WaitAll
  <2>1. pc = "waitAll" /\ k \in 1..n
    BY <1>1, <1>7 DEF WaitAll, IndexOK
  <2>2. CASE k' = k + 1 /\ pc' = "join"
    BY <1>1, <2>1, <2>2 DEF Distance, Again
  <2>3. CASE k' = k /\ pc' = "waited" /\ errno' = "ECHILD"
    BY <1>1, <2>1, <2>3 DEF Distance, Again
  <2>4. CASE WaitEintr /\ k' = k /\ pc' = "waited" /\ errno' = "EINTR"
    <3>1. Distance' = Distance
      BY <1>1, <2>1, <2>4 DEF Distance, Again
    <3> QED
      BY <1>7, <2>4, <3>1 DEF WaitEintr, WaitAll, ShellStep
  <2> QED
    BY <1>7, <2>2, <2>3, <2>4 DEF WaitAll
<1>8. CASE CheckErrno
  <2>1. pc = "waited" /\ k \in 1..n
    BY <1>1, <1>8 DEF CheckErrno, IndexOK
  <2>2. CASE errno = "ECHILD" /\ k' = k + 1 /\ pc' = "join"
    BY <1>1, <2>1, <2>2 DEF Distance, Again
  <2>3. CASE errno # "ECHILD" /\ k' = k /\ pc' = "waitAll"
    <3>1. Distance' = Distance /\ Again /\ ~Again'
      BY <1>1, <2>1, <2>3 DEF Distance, Again
    <3> QED
      BY <1>8, <3>1 DEF CheckErrno, ShellStep
  <2> QED
    BY <1>8, <2>2, <2>3 DEF CheckErrno
<1> QED
  BY <1>2, <1>3, <1>4, <1>5, <1>6, <1>7, <1>8 DEF ShellStep, JobsStep

\* Those who die are alive no more, and their parent gets one signal.
LEMMA DieCounts ==
  ASSUME IInv, NEW V \in SUBSET Running, Die(V)
  PROVE  /\ OnTheWay' = OnTheWay
         /\ Cardinality(Alive') \in Nat
         /\ Cardinality(Alive') <= Cardinality(Alive)
         /\ V # {} => Cardinality(Alive') < Cardinality(Alive)
<1>1. st \in [Procs -> ProcState] /\ Pids \subseteq Procs
  BY DEF IInv, TypeOK, KernelTypeOK, Procs
<1>2. \A p \in Pids : st'[p] = IF p \in V THEN "zombie" ELSE st[p]
  BY <1>1 DEF Die
<1>3. OnTheWay' = OnTheWay
  BY <1>2 DEF OnTheWay, Running
<1>4. Alive' = Alive \ V /\ V \subseteq Alive
  BY <1>2 DEF Alive, Up, Running
<1>5. IsFiniteSet(Alive) /\ Cardinality(Alive) \in Nat
  BY CountedIs DEF Counted
<1>6. Alive' \in SUBSET Alive
  BY <1>4
<1>7. /\ IsFiniteSet(Alive') /\ Cardinality(Alive') <= Cardinality(Alive)
      /\ Cardinality(Alive) = Cardinality(Alive') => Alive = Alive'
  BY <1>5, <1>6, FS_Subset
<1>8. Cardinality(Alive') \in Nat
  BY <1>7, FS_CardinalityType
<1>9. V # {} => Alive # Alive'
  BY <1>4
<1> QED
  BY <1>3, <1>5, <1>7, <1>8, <1>9

\* A zombie is counted no more.
LEMMA ReapCounts ==
  ASSUME IInv, NEW t, WaitReaps(t) \/ WaitEchild(t)
  PROVE  OnTheWay' = OnTheWay /\ Alive' = Alive
<1>1. st \in [Procs -> ProcState] /\ Pids \subseteq Procs
  BY DEF IInv, TypeOK, KernelTypeOK, Procs
<1>2. CASE WaitEchild(t)
  BY <1>2 DEF WaitEchild, OnTheWay, Alive, Up
<1>3. CASE WaitReaps(t)
  <2>1. PICK p \in Zombies(t) : Reap(p)
    BY <1>3 DEF WaitReaps
  <2>2. /\ p \in Pids /\ st[p] = "zombie" /\ st'[p] = "reaped"
        /\ \A q \in Pids \ {p} : st'[q] = st[q]
    BY <1>1, <2>1 DEF Zombies, Match, Children, Reap
  <2> QED
    BY <2>2 DEF OnTheWay, Alive, Up
<1> QED
  BY <1>2, <1>3

\* Handlers, children and the user.
LEMMA OutsideNearer ==
  ASSUME IInv, IInv',
         HandlerStep \/ CtrlC \/ StopOrContinue
           \/ \E p \in Pids : ChildStep(p) \/ Exit(p)
  PROVE  Distance' <= Distance /\ Unrest' < Unrest
<1> DEFINE a == MaxActs - acts
           c == Cardinality(OnTheWay)
           d == Cardinality(Alive)
           p1 == One("INT" \in pend)
           p2 == One("CHLD" \in pend)
           h == One(inHandler)
           e == One(eintr)
           g == One(Again)
<1>1. Distance' <= Distance /\ g' <= g
  <2>1. /\ UNCHANGED <<pc, line, i, k>>
        /\ errno' = errno \/ errno' = "ECHILD"
    BY DEF HandlerStep, HandleChld, HandleIntAtPrompt, HandleIntKill,
           HandlerReturns, HandlerErrno, CtrlC, StopOrContinue, ChildStep,
           ChildExec, Exit, jobsVars, sigVars
  <2>c. Counted /\ Counted'
    BY CountedIs, PTL
  <2>2. Distance \in Nat /\ Distance' \in Nat /\ n' = n
    BY <2>c, <2>1 DEF Counted, n
  <2>3. CASE Again' <=> Again
    BY <2>1, <2>2, <2>3 DEF Distance, One
  <2>4. CASE Again /\ ~Again'
    <3>1. pc = "waited" /\ n \in Nat /\ k \in 1..(n + 1)
      BY <2>4 DEF Again, IInv, TypeOK, n
    <3> QED
      BY <2>1, <2>2, <2>4, <3>1 DEF Distance, One
  <2> QED
    BY <2>1, <2>3, <2>4 DEF Again
<1>2. /\ a \in Nat /\ c \in Nat /\ d \in Nat /\ a' \in Nat /\ c' \in Nat /\ d' \in Nat
      /\ p1 \in Nat /\ p2 \in Nat /\ h \in Nat /\ e \in Nat /\ g \in Nat
      /\ p1' \in Nat /\ p2' \in Nat /\ h' \in Nat /\ e' \in Nat /\ g' \in Nat
      /\ p1' <= 1 /\ p2' <= 1 /\ h' <= 1 /\ e' <= 1 /\ g' <= 1
  <2>1. Counted /\ Counted'
    BY CountedIs, PTL
  <2>2. acts \in 0..MaxActs /\ acts' \in 0..MaxActs /\ MaxActs \in Nat
    BY ShellAssumption DEF IInv, TypeOK
  <2>3. ASSUME NEW b PROVE One(b) \in Nat /\ One(b) <= 1
    BY DEF One
  <2>4. a \in Nat /\ a' \in Nat
    <3>1. ASSUME NEW j \in 0..MaxActs PROVE MaxActs - j \in Nat
      BY ShellAssumption
    <3> QED
      BY <2>2, <3>1
  <2>5. c \in Nat /\ d \in Nat /\ c' \in Nat /\ d' \in Nat
    BY <2>1 DEF Counted
  <2>6. /\ p1 \in Nat /\ p2 \in Nat /\ h \in Nat /\ e \in Nat /\ g \in Nat
        /\ p1' \in Nat /\ p2' \in Nat /\ h' \in Nat /\ e' \in Nat /\ g' \in Nat
        /\ p1' <= 1 /\ p2' <= 1 /\ h' <= 1 /\ e' <= 1 /\ g' <= 1
    BY <2>3
  <2> QED
    BY <2>4, <2>5, <2>6
<1>3. /\ Unrest = Weight(a, c, d, p1, p2, h, e, g)
      /\ Unrest' = Weight(a', c', d', p1', p2', h', e', g')
  BY DEF Unrest
<1>4. ASSUME NEW V \in SUBSET Running, Die(V)
      PROVE  /\ c' = c /\ d' <= d
             /\ V # {} => d' < d
  BY <1>4, DieCounts
<1>5. ASSUME NEW t, WaitReaps(t) \/ WaitEchild(t)
      PROVE  c' = c /\ d' = d
  BY <1>5, ReapCounts
<1>6. CASE HandleChld
  <2>1. a' = a /\ p1' = p1 /\ p2 = 1 /\ p2' = 0 /\ h' = h
    BY <1>6 DEF HandleChld, One
  <2>2. c' = c /\ d' = d
    <3>1. CASE WaitReaps(AnyChild)
      BY <1>5, <3>1
    <3>2. CASE UNCHANGED st
      BY <3>2 DEF OnTheWay, Alive, Up
    <3> QED
      BY <1>6, <3>1, <3>2 DEF HandleChld
  <2> HIDE DEF a, c, d, p1, p2, h, e, g
  <2> QED
    BY <1>1, <1>2, <1>3, <2>1, <2>2, Lighter
<1>7. CASE HandleIntAtPrompt
  <2>1. a' = a /\ p1 = 1 /\ p1' = 0 /\ p2' = p2 /\ h' = h /\ c' = c /\ d' = d
    BY <1>7 DEF HandleIntAtPrompt, One, OnTheWay, Alive, Up
  <2> HIDE DEF a, c, d, p1, p2, h, e, g
  <2> QED
    BY <1>1, <1>2, <1>3, <2>1, Lighter
<1>8. CASE HandleIntKill
  <2>1. PICK V \in SUBSET Running : /\ Die(V)
                                    /\ pend' = PendAfterDeath(V) \ {"INT"}
    BY <1>8 DEF HandleIntKill
  <2>2. a' = a /\ p1 = 1 /\ p1' = 0 /\ (V = {} => p2' = p2)
    BY <1>8, <2>1 DEF HandleIntKill, One, PendAfterDeath
  <2>3. h = 0
    BY <1>8 DEF HandleIntKill, Deliverable, One
  <2>4. c' = c /\ d' <= d /\ (V # {} => d' < d)
    BY <1>4, <2>1
  <2> HIDE DEF a, c, d, p1, p2, h, e, g
  <2> QED
    BY <1>1, <1>2, <1>3, <2>2, <2>3, <2>4, Lighter
<1>9. CASE HandlerReturns
  <2>1. a' = a /\ p1' = p1 /\ p2' = p2 /\ h = 1 /\ h' = 0 /\ e' = e
    BY <1>9 DEF HandlerReturns, One
  <2>2. c' = c /\ d' = d
    BY <1>5, <1>9 DEF HandlerReturns
  <2> HIDE DEF a, c, d, p1, p2, h, e, g
  <2> QED
    BY <1>1, <1>2, <1>3, <2>1, <2>2, Lighter
<1>10. CASE CtrlC
  <2>1. PICK V \in SUBSET Running : /\ Die(V)
                                    /\ pend' = PendAfterDeath(V) \cup {"INT"}
    BY <1>10 DEF CtrlC
  <2>2. a' = a - 1
    BY <1>10, ShellAssumption DEF CtrlC, IInv, TypeOK
  <2>3. h' = h /\ e' = e /\ (V = {} => p2' = p2)
    BY <1>10, <2>1 DEF CtrlC, One, PendAfterDeath
  <2>4. c' = c /\ d' <= d /\ (V # {} => d' < d)
    BY <1>4, <2>1
  <2> HIDE DEF a, c, d, p1, p2, h, e, g
  <2>5. a' < a
    BY <1>2, <2>2
  <2> QED
    BY <1>1, <1>2, <1>3, <2>5, <2>3, <2>4, Lighter
<1>11. ASSUME NEW p \in Pids, Exit(p)
       PROVE  Unrest' < Unrest
  <2>1. {p} \in SUBSET Running /\ Die({p}) /\ pend' = PendAfterDeath({p})
    BY <1>11 DEF Exit
  <2>2. a' = a /\ p1' = p1 /\ h' = h /\ e' = e
    BY <1>11, <2>1 DEF Exit, One, PendAfterDeath
  <2>3. c' = c /\ d' < d
    BY <1>4, <2>1
  <2> HIDE DEF a, c, d, p1, p2, h, e, g
  <2> QED
    BY <1>1, <1>2, <1>3, <2>2, <2>3, Lighter
<1>12. ASSUME NEW p \in Pids, ChildStep(p)
       PROVE  Unrest' < Unrest
  <2>1. /\ st[p] = "forked" /\ st'[p] = "running"
        /\ \A q \in Pids \ {p} : st'[q] = st[q]
    BY <1>12 DEF ChildStep, ChildExec, IInv, TypeOK, KernelTypeOK, Procs
  <2>2. OnTheWay' = OnTheWay \ {p} /\ p \in OnTheWay /\ Alive' = Alive
    BY <2>1 DEF OnTheWay, Alive, Up
  <2>3. c' = c - 1 /\ d' = d
    BY <2>2, CountedIs, FS_RemoveElement DEF Counted
  <2>4. a' = a /\ p1' = p1 /\ p2' = p2 /\ h' = h /\ e' = e
    BY <1>12 DEF ChildStep, ChildExec, sigVars
  <2> HIDE DEF a, c, d, p1, p2, h, e, g
  <2>5. c' < c
    BY <1>2, <2>3
  <2> QED
    BY <1>1, <1>2, <1>3, <2>3, <2>4, <2>5, Lighter
<1>13. CASE StopOrContinue
  <2>1. a' = a - 1
    BY <1>13, ShellAssumption DEF StopOrContinue, IInv, TypeOK
  <2>2. c' = c /\ d' = d /\ p1' = p1 /\ h' = h /\ e' = e
    BY <1>13 DEF StopOrContinue, One, OnTheWay, Alive, Up
  <2> HIDE DEF a, c, d, p1, p2, h, e, g
  <2>3. a' < a
    BY <1>2, <2>1
  <2> QED
    BY <1>1, <1>2, <1>3, <2>2, <2>3, Lighter
<1> QED
  BY <1>1, <1>6, <1>7, <1>8, <1>9, <1>10, <1>11, <1>12, <1>13 DEF HandlerStep

(* Between two lines only finitely many steps are taken, whatever the      *)
(* children do and however signals cut waits short: a loop over an         *)
(* interrupted waitpid() takes another round only for another signal       *)
(* (src/src/jobs.c:107-232, src/src/main.c:80-99).  So the shell can stay  *)
(* away from the prompt only if nobody takes another step.                 *)
THEOREM LineEnds == Spec => [][ReadLine \/ Nearer]_vars
<1>1. ASSUME IInv, IInv', [Next]_vars
      PROVE  [ReadLine \/ Nearer]_vars
  <2>1. Counted /\ Counted'
    BY <1>1, CountedIs, PTL
  <2>2. CASE ShellStep
    <3>1. ASSUME UNCHANGED <<st, pend, inHandler, acts>>,
                 (eintr /\ ~eintr') \/ (eintr' = eintr /\ Again /\ ~Again')
          PROVE  Unrest' < Unrest
      <4> DEFINE a == MaxActs - acts
                 c == Cardinality(OnTheWay)
                 d == Cardinality(Alive)
                 p1 == One("INT" \in pend)
                 p2 == One("CHLD" \in pend)
                 h == One(inHandler)
                 e == One(eintr)
                 g == One(Again)
      <4>1. /\ a' = a /\ c' = c /\ d' = d /\ p1' = p1 /\ p2' = p2 /\ h' = h
            /\ (e = 1 /\ e' = 0) \/ (e' = e /\ g = 1 /\ g' = 0)
        BY <3>1 DEF OnTheWay, Alive, Up, One
      <4>2. /\ a \in Nat /\ c \in Nat /\ d \in Nat
            /\ p1 \in Nat /\ p2 \in Nat /\ h \in Nat /\ e \in Nat /\ g \in Nat
            /\ p1 <= 1 /\ p2 <= 1 /\ h <= 1 /\ e <= 1 /\ g' <= 1 /\ g' \in Nat
        BY <1>1, <2>1, ShellAssumption DEF IInv, TypeOK, One, Counted
      <4>3. /\ Unrest = Weight(a, c, d, p1, p2, h, e, g)
            /\ Unrest' = Weight(a', c', d', p1', p2', h', e', g')
        BY DEF Unrest
      <4> HIDE DEF a, c, d, p1, p2, h, e, g
      <4>4. /\ a' \in Nat /\ c' \in Nat /\ d' \in Nat /\ p1' \in Nat
            /\ p2' \in Nat /\ h' \in Nat /\ e' \in Nat
            /\ p1' <= 1 /\ p2' <= 1 /\ h' <= 1 /\ e' <= 1
            /\ g' <= g \/ (e = 1 /\ e' = 0)
        BY <4>1, <4>2
      <4> QED
        BY <4>1, <4>2, <4>3, <4>4, Lighter
    <3> QED
      BY <1>1, <2>1, <2>2, <3>1, ShellNearer DEF Nearer, Counted
  <2>3. CASE HandlerStep \/ CtrlC \/ StopOrContinue
               \/ \E p \in Pids : ChildStep(p) \/ Exit(p)
    BY <1>1, <2>1, <2>3, OutsideNearer DEF Nearer, Counted
  <2>4. CASE Done \/ UNCHANGED vars
    BY <2>4 DEF Done
  <2> QED
    BY <1>1, <2>2, <2>3, <2>4 DEF Next
<1> QED
  BY <1>1, Invariance, PTL DEF Spec
=============================================================================
