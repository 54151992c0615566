---------------------------- MODULE StreamProofs ----------------------------
(***************************************************************************)
(* What the commands of a line read and write, for any number of children, *)
(* lines, commands per line, signals and failing system calls.             *)
(*                                                                         *)
(* Neighbouring stages of a pipeline are joined by one pipe.  What the     *)
(* left stage writes was decided one round of the loop before the right    *)
(* one is forked; the invariant says of the stage launched last that it    *)
(* writes the pipe its successor will read (Wired), and which command of   *)
(* the line each child has (Placed).                                       *)
(*                                                                         *)
(* Redirections are each command's own.  That does not hold behind a       *)
(* pipeline, so the theorem assumes that Lines has none.                   *)
(*                                                                         *)
(* Once the shell waits at the end of a line, nobody but its left          *)
(* neighbour can write what a stage reads.  The invariant accounts for     *)
(* every copy of a write end: those of children on their way to exec,      *)
(* those that are a descriptor 0 or 1, and the shell's own.                *)
(*                                                                         *)
(* It follows that nobody is waited for in vain: of the stages that run    *)
(* the foremost is not held up by a read.                                  *)
(***************************************************************************)
EXTENDS ShellProofs, FiniteSetTheorems, WellFoundedInduction

\* A child of this line has its command, one of those launched.
Placed ==
  pc \in Busy =>
    \A p \in Pids : job[p].line = nlines =>
      /\ job[p].idx <= NLaunched
      /\ job[p].idx >= 1 => job[p].cmd = line[job[p].idx]

\* A stage has a place on its line.
Begun == \A p \in Pids : job[p].piped => job[p].idx >= 1

Wired ==
  pc \in Busy =>
    \A p \in Pids : /\ Stage(p)
                    /\ job[p].cmd.conn = "pipe"
                    /\ job[p].idx = NLaunched
                    /\ NLaunched < n
      => fd1[p] = WriteEnd(pipes[NLaunched])

PipeInv == IInv /\ Placed /\ Begun /\ Wired /\ StagesConnected

\* What is needed of the types.
LEMMA Numbers ==
  ASSUME IInv
  PROVE  /\ n \in Nat /\ i \in 0..n /\ nlines \in Nat
         /\ \A p \in Pids : job[p].idx \in Nat /\ job[p].line \in Nat
BY JobsAssumption DEF IInv, TypeOK, n, Job

-----------------------------------------------------------------------------
(* Steps after which the children are who they were, with the descriptors  *)
(* they had, and nothing was launched.                                     *)
LEMMA QuietPipeInv ==
  ASSUME PipeInv, IInv', UNCHANGED <<line, nlines, pipes, job, NLaunched>>,
         pc' \in Busy => pc \in Busy,
         \A p \in Pids : fd0'[p] = fd0[p] /\ fd1'[p] = fd1[p]
  PROVE  PipeInv'
<1> USE DEF PipeInv
<1>1. Placed' /\ Begun'
  BY DEF Placed, Begun
<1>2. Wired'
  BY DEF Wired, Stage, n
<1>3. StagesConnected'
  BY DEF StagesConnected
<1> QED
  BY <1>1, <1>2, <1>3

LEMMA OutsidePipeInv ==
  PipeInv /\ (HandlerStep \/ CtrlC \/ StopOrContinue \/ Done \/ UNCHANGED vars
                \/ \E p \in Pids : ChildStep(p) \/ Exit(p))
    => PipeInv'
<1> SUFFICES ASSUME PipeInv,
                    HandlerStep \/ CtrlC \/ StopOrContinue \/ Done \/ UNCHANGED vars
                      \/ \E p \in Pids : ChildStep(p) \/ Exit(p)
             PROVE  PipeInv'
  OBVIOUS
<1>1. IInv'
  BY NextIInv DEF PipeInv, Next
<1>2. UNCHANGED <<line, nlines, pipes, job, pc, i, fd0, fd1>>
  BY DEF HandlerStep, HandleChld, HandleIntAtPrompt, HandleIntKill,
         HandlerReturns, CtrlC, StopOrContinue, Done, ChildStep, ChildExec,
         Exit, vars, jobsVars, fdVars
<1> QED
  BY <1>1, <1>2, QuietPipeInv DEF NLaunched

\* The launcher's steps that fork nothing touch the shell's descriptors only.
LEMMA BetweenPipeInv ==
  PipeInv /\ ShellStep /\ ~ForkStage /\ ~ForkSimple => PipeInv'
<1> SUFFICES ASSUME PipeInv, ShellStep, ~ForkStage, ~ForkSimple PROVE PipeInv'
  OBVIOUS
<1>1. IInv'
  BY NextIInv DEF PipeInv, Next
<1>2. KernelTypeOK /\ i \in Nat
  BY DEF PipeInv, IInv, TypeOK, n
<1>3. UNCHANGED <<line, nlines, pipes, job>> /\ (pc' \in Busy => pc \in Busy)
  BY DEF ShellStep, JobsStep, Pop, WaitPrev, Redirect, RedirectFails, SetFg,
         RunBuiltin, CloseAndRestore, WaitLast, Join, WaitAll, CheckErrno,
         JoinDone, Reset, callVars, Busy, After, Ending
<1>4. \A p \in Pids : fd0'[p] = fd0[p] /\ fd1'[p] = fd1[p]
  BY <1>2
  DEF ShellStep, JobsStep, Pop, WaitPrev, Redirect, RedirectFails, SetFg,
      RunBuiltin, CloseAndRestore, WaitLast, Join, WaitAll, CheckErrno,
      JoinDone, Reset, fdVars, KernelTypeOK, Procs, Pids, Shell
<1>5. CASE pc' \in Busy
  <2>1. UNCHANGED NLaunched
    BY <1>2, <1>5
    DEF ShellStep, JobsStep, Pop, WaitPrev, Redirect, RedirectFails, SetFg,
        RunBuiltin, CloseAndRestore, WaitLast, Join, WaitAll, CheckErrno,
        JoinDone, Reset, callVars, Busy, After, Ending, NLaunched
  <2> QED
    BY <1>1, <1>3, <1>4, <2>1, QuietPipeInv
<1>6. CASE pc' \notin Busy
  <2>1. Placed' /\ Wired'
    BY <1>6 DEF Placed, Wired
  <2>2. Begun' /\ StagesConnected'
    BY <1>3, <1>4 DEF PipeInv, Begun, StagesConnected
  <2> QED
    BY <1>1, <2>1, <2>2 DEF PipeInv
<1> QED
  BY <1>5, <1>6

\* A new line has no children yet.
LEMMA ReadLinePipeInv == PipeInv /\ ReadLine => PipeInv'
<1> SUFFICES ASSUME PipeInv, ReadLine PROVE PipeInv'
  OBVIOUS
<1>1. IInv'
  BY NextIInv DEF PipeInv, Next
<1>2. nlines' = nlines + 1 /\ UNCHANGED <<job, fd0, fd1>>
  BY DEF ReadLine, Enter, fdVars
<1>3. \A p \in Pids : job'[p].line # nlines'
  BY <1>2, Numbers DEF PipeInv, IInv, LinesNumbered
<1>4. Placed' /\ Wired'
  BY <1>3 DEF Placed, Wired, Stage
<1>5. Begun' /\ StagesConnected'
  BY <1>2 DEF PipeInv, Begun, StagesConnected
<1> QED
  BY <1>1, <1>4, <1>5 DEF PipeInv

-----------------------------------------------------------------------------
(* The child p is forked for the command at hand.                          *)
LEMMA ForkedPipeInv ==
  ASSUME PipeInv, IInv', pc = "launch", pc' \in {"setFg", "pop", "close"},
         UNCHANGED <<line, nlines, i>>,
         NEW p \in Pids, NEW r \in Job,
         r.idx = i, r.line = nlines, r.cmd = cmd,
         job' = [job EXCEPT ![p] = r],
         \A q \in Pids \ {p} : fd0'[q] = fd0[q] /\ fd1'[q] = fd1[q],
         AfterPipe => UNCHANGED pipes /\ fd0'[p] = ReadEnd(pipes[i - 1]),
         r.piped /\ cmd.conn = "pipe" /\ i < n => fd1'[p] = WriteEnd(pipes'[i])
  PROVE  PipeInv'
<1> USE DEF PipeInv
<1>1. /\ i \in 1..n /\ n \in Nat /\ NLaunched = i - 1 /\ NLaunched' = i
      /\ pc \in Busy /\ n' = n
  BY DEF IInv, IndexOK, TypeOK, NLaunched, Busy, After, Ending, n
<1>2. /\ job'[p] = r
      /\ \A q \in Pids \ {p} : job'[q] = job[q]
  BY DEF IInv, TypeOK
<1>3. \A q \in Pids : /\ job[q].idx \in Nat
                      /\ job[q].line = nlines => job[q].idx <= i - 1
  BY <1>1, Numbers DEF Placed
<1>4. Placed'
  BY <1>1, <1>2, <1>3 DEF Placed, cmd
<1>5. Begun'
  BY <1>1, <1>2 DEF Begun
<1>6. Wired'
  <2> SUFFICES ASSUME NEW q \in Pids, Stage(q)', job'[q].cmd.conn = "pipe",
                      job'[q].idx = i, i < n
               PROVE  fd1'[q] = WriteEnd(pipes'[i])
    BY <1>1 DEF Wired
  <2>1. q = p
    BY <1>1, <1>2, <1>3 DEF Stage
  <2> QED
    BY <1>2, <2>1 DEF Stage
<1>7. StagesConnected'
  <2> SUFFICES ASSUME NEW a \in Pids, NEW b \in Pids,
                      job'[a].piped, job'[a].cmd.conn = "pipe",
                      job'[b].line = job'[a].line,
                      job'[b].idx = job'[a].idx + 1
               PROVE  fd1'[a][1] = "w" /\ fd0'[b] = ReadEnd(fd1'[a][2])
    BY DEF StagesConnected
  <2>1. CASE a # p /\ b # p
    BY <1>2, <2>1 DEF StagesConnected
  <2>2. CASE a # p /\ b = p
    <3>1. /\ job[a].piped /\ job[a].cmd.conn = "pipe" /\ job[a].line = nlines
          /\ job[a].idx = i - 1
      BY <1>1, <1>2, <1>3, <2>2
    <3>2. i - 1 >= 1 /\ line[i - 1].conn = "pipe"
      BY <1>1, <3>1 DEF Begun, Placed
    <3>3. AfterPipe
      BY <1>1, <3>2 DEF AfterPipe, Last
    <3>4. fd1[a] = WriteEnd(pipes[i - 1])
      BY <1>1, <3>1 DEF Wired, Stage
    <3> QED
      BY <2>2, <3>3, <3>4 DEF WriteEnd
  <2>3. CASE a = p
    BY <1>1, <1>2, <1>3, <2>3
  <2> QED
    BY <2>1, <2>2, <2>3
<1> QED
  BY <1>4, <1>5, <1>6, <1>7

\* fork() fails: the command at hand has no child.
LEMMA UnforkedPipeInv ==
  ASSUME PipeInv, IInv', pc = "launch", pc' \in {"setFg", "pop", "close"},
         UNCHANGED <<line, nlines, i, job>>,
         \A q \in Pids : fd0'[q] = fd0[q] /\ fd1'[q] = fd1[q]
  PROVE  PipeInv'
<1> USE DEF PipeInv
<1>1. /\ i \in 1..n /\ n \in Nat /\ NLaunched = i - 1 /\ NLaunched' = i
      /\ pc \in Busy /\ n' = n
  BY DEF IInv, IndexOK, TypeOK, NLaunched, Busy, After, Ending, n
<1>2. \A q \in Pids : /\ job[q].idx \in Nat
                      /\ job[q].line = nlines => job[q].idx <= i - 1
  BY <1>1, Numbers DEF Placed
<1>3. Placed' /\ Begun' /\ Wired'
  BY <1>1, <1>2 DEF Placed, Begun, Wired, Stage
<1>4. StagesConnected'
  BY DEF StagesConnected
<1> QED
  BY <1>3, <1>4

LEMMA ForkStagePipeInv == PipeInv /\ ForkStage /\ UNCHANGED acts => PipeInv'
<1> SUFFICES ASSUME PipeInv, ForkStage, UNCHANGED acts PROVE PipeInv'
  OBVIOUS
<1>1. IInv'
  BY ForkStageIInv DEF PipeInv
<1>2. /\ pc = "launch" /\ pc' = "setFg" /\ Piped /\ pipes' = PipesNow
      /\ UNCHANGED <<line, nlines, i>>
  BY DEF ForkStage, callVars
<1>3. fd0 \in [Procs -> Channel] /\ fd1 \in [Procs -> Channel]
  BY DEF PipeInv, IInv, TypeOK, KernelTypeOK
<1>4. CASE \E p \in FreePids, in \in StageIn, out \in StageOut : Stages(p, in, out)
  <2>1. PICK p \in FreePids, in \in StageIn, out \in StageOut : Stages(p, in, out)
    BY <1>4
  <2>2. p \in Pids /\ p \in Procs
    BY DEF FreePids, Procs
  <2>3. /\ fd0'[p] = in /\ fd1'[p] = out
        /\ \A q \in Pids \ {p} : fd0'[q] = fd0[q] /\ fd1'[q] = fd1[q]
    BY <1>3, <2>1, <2>2 DEF Stages, Procs
  <2>4. AfterPipe => UNCHANGED pipes /\ in = ReadEnd(pipes[i - 1])
    BY <1>2 DEF AfterPipe, StartsPipe, PipesNow, StageIn
  <2>5. cmd.conn = "pipe" /\ i < n => out = WriteEnd(pipes'[i])
    BY <1>2 DEF StageOut
  <2>6. /\ JobFor(TRUE) \in Job
        /\ JobFor(TRUE).idx = i /\ JobFor(TRUE).line = nlines
        /\ JobFor(TRUE).cmd = cmd
    <3>1. cmd \in Command /\ i \in Nat /\ nlines \in Nat
      BY <1>2, Numbers
      DEF PipeInv, IInv, TypeOK, IndexOK, cmd, n
    <3>2. Made(PipesNow) \subseteq Nat
      BY <1>2, PipesNowMade DEF Made, PipeInv
    <3> QED
      BY <3>1, <3>2 DEF JobFor, Job
  <2>7. job' = [job EXCEPT ![p] = JobFor(TRUE)]
    BY <2>1 DEF Stages
  <2> QED
    BY <1>1, <1>2, <2>2, <2>3, <2>4, <2>5, <2>6, <2>7, ForkedPipeInv
<1>5. CASE UNCHANGED <<st, fd0, fd1, job>>
  BY <1>1, <1>2, <1>5, UnforkedPipeInv
<1> QED
  BY <1>4, <1>5 DEF ForkStage

LEMMA ForkSimplePipeInv == PipeInv /\ ForkSimple /\ UNCHANGED acts => PipeInv'
<1> SUFFICES ASSUME PipeInv, ForkSimple, UNCHANGED acts PROVE PipeInv'
  OBVIOUS
<1>1. IInv'
  BY ForkSimpleIInv DEF PipeInv
<1>2. /\ pc = "launch" /\ pc' \in {"pop", "close"} /\ ~Piped
      /\ UNCHANGED <<line, nlines, i>>
  BY DEF ForkSimple, callVars
<1>3. fd0 \in [Procs -> Channel] /\ fd1 \in [Procs -> Channel]
  BY DEF PipeInv, IInv, TypeOK, KernelTypeOK
<1>4. CASE \E p \in FreePids : Forked(p, JobFor(FALSE)) /\ SimpleDescriptors(p)
  <2>1. PICK p \in FreePids : Forked(p, JobFor(FALSE)) /\ SimpleDescriptors(p)
    BY <1>4
  <2>2. p \in Pids
    BY DEF FreePids
  <2>3. \A q \in Pids \ {p} : fd0'[q] = fd0[q] /\ fd1'[q] = fd1[q]
    BY <1>3, <2>1 DEF SimpleDescriptors, Procs, Pids, Shell
  <2>4. /\ JobFor(FALSE) \in Job /\ ~JobFor(FALSE).piped
        /\ JobFor(FALSE).idx = i /\ JobFor(FALSE).line = nlines
        /\ JobFor(FALSE).cmd = cmd
    <3>1. cmd \in Command /\ i \in Nat /\ nlines \in Nat
      BY <1>2, Numbers
      DEF PipeInv, IInv, TypeOK, IndexOK, cmd, n
    <3> QED
      BY <3>1 DEF JobFor, Job
  <2>5. job' = [job EXCEPT ![p] = JobFor(FALSE)] /\ ~AfterPipe
    BY <1>2, <2>1 DEF Forked, Piped
  <2> QED
    BY <1>1, <1>2, <2>2, <2>3, <2>4, <2>5, ForkedPipeInv
<1>5. CASE /\ UNCHANGED job
           /\ fd0' = [fd0 EXCEPT ![Shell] = Restored0]
           /\ fd1' = [fd1 EXCEPT ![Shell] = Restored1]
  <2>1. \A q \in Pids : fd0'[q] = fd0[q] /\ fd1'[q] = fd1[q]
    BY <1>3, <1>5 DEF Procs, Pids, Shell
  <2> QED
    BY <1>1, <1>2, <1>5, <2>1, UnforkedPipeInv
<1> QED
  BY <1>4, <1>5
  DEF ForkSimple, Forked, SimpleDescriptors, Restored0, Restored1

(* Two neighbouring stages of a pipeline are joined by one pipe, also next *)
(* to other pipelines, builtins, redirections and failing calls, and also  *)
(* those of earlier lines that still run (src/src/jobs.c:155-174).         *)
THEOREM Connected == Spec => []StagesConnected
<1>1. Init => PipeInv
  <2> SUFFICES ASSUME Init PROVE PipeInv
    OBVIOUS
  <2>1. /\ pc = "prompt"
        /\ \A p \in Pids : job[p].idx = 0 /\ ~job[p].piped
    BY DEF Init, JobsInit, NoJob
  <2> QED
    BY <2>1, InitIInv
    DEF PipeInv, Placed, Begun, Wired, StagesConnected, Busy, After, Ending
<1>2. PipeInv /\ [Next]_vars => PipeInv'
  BY ReadLinePipeInv, OutsidePipeInv, BetweenPipeInv, ForkStagePipeInv,
     ForkSimplePipeInv
  DEF Next, ShellStep
<1>3. PipeInv => StagesConnected
  BY DEF PipeInv
<1> QED
  BY <1>1, <1>2, <1>3, PTL DEF Spec

-----------------------------------------------------------------------------
(* Redirections.                                                           *)

\* The shell's own descriptors are redirected between open() and fork().
Redirected ==
  /\ pc # "setFg"
  /\ pc \in {"pop", "waitPrev", "redirect"} =>
       fd0[Shell] = saved0 /\ fd1[Shell] = saved1
  /\ pc = "launch" =>
       /\ fd0[Shell] = IF cmd.in THEN InFile(i) ELSE saved0
       /\ fd1[Shell] = IF cmd.out THEN OutFile(i) ELSE saved1

OwnInv == IInv /\ (Unpiped => Redirected) /\ RedirectIsOwn

-----------------------------------------------------------------------------
\* Without a pipe on the line no command is a stage.
LEMMA NeverStage == IInv /\ Unpiped => ~ForkStage
<1> SUFFICES ASSUME IInv, Unpiped, pc = "launch" PROVE ~Piped
  BY DEF ForkStage
<1>1. i \in 0..n /\ i >= 1 /\ n \in Nat
  BY DEF IInv, TypeOK, IndexOK, n
<1> QED
  BY <1>1 DEF Unpiped, Piped, AfterPipe, Last, cmd

\* Nobody is forked yet for a new line.
LEMMA ReadLineOwn == OwnInv /\ ReadLine => OwnInv'
<1> SUFFICES ASSUME OwnInv, ReadLine PROVE OwnInv'
  OBVIOUS
<1>1. IInv'
  BY NextIInv DEF OwnInv, Next
<1>2. PICK l \in Lines : Enter(l)
  BY DEF ReadLine
<1>3. /\ line' = l /\ nlines' = nlines + 1 /\ pc' = "pop"
      /\ saved0' = fd0[Shell] /\ saved1' = fd1[Shell]
      /\ UNCHANGED <<fd0, fd1, job>>
  BY <1>2 DEF Enter, ReadLine, fdVars
<1>4. Redirected'
  BY <1>3 DEF Redirected
<1>5. RedirectIsOwn'
  <2>1. nlines \in Nat /\ \A p \in Pids : job[p].line <= nlines /\ job[p].line \in Nat
    BY JobsAssumption DEF OwnInv, IInv, TypeOK, LinesNumbered, Job
  <2> QED
    BY <1>3, <2>1 DEF RedirectIsOwn
<1> QED
  BY <1>1, <1>4, <1>5 DEF OwnInv

\* Steps that leave the children's descriptors and the line alone.
LEMMA KeepsOwn ==
  ASSUME OwnInv, IInv', Unpiped => Redirected',
         UNCHANGED <<line, nlines, saved0, saved1, job>>,
         \A p \in Pids : fd0'[p] = fd0[p] /\ fd1'[p] = fd1[p]
  PROVE  OwnInv'
BY DEF OwnInv, RedirectIsOwn, Unpiped, n

LEMMA OutsideOwn ==
  OwnInv /\ (HandlerStep \/ CtrlC \/ StopOrContinue \/ Done \/ UNCHANGED vars
               \/ \E p \in Pids : ChildStep(p) \/ Exit(p))
    => OwnInv'
<1> SUFFICES ASSUME OwnInv,
                    HandlerStep \/ CtrlC \/ StopOrContinue \/ Done \/ UNCHANGED vars
                      \/ \E p \in Pids : ChildStep(p) \/ Exit(p)
             PROVE  OwnInv'
  OBVIOUS
<1>1. IInv'
  BY NextIInv DEF OwnInv, Next
<1>2. UNCHANGED <<pc, line, nlines, saved0, saved1, job, i, fd0, fd1>>
  BY DEF HandlerStep, HandleChld, HandleIntAtPrompt, HandleIntKill,
         HandlerReturns, CtrlC, StopOrContinue, Done, ChildStep, ChildExec,
         Exit, vars, jobsVars, fdVars
<1>3. Unpiped => Redirected'
  BY <1>2 DEF OwnInv, Redirected, cmd
<1> QED
  BY <1>1, <1>2, <1>3, KeepsOwn

LEMMA BetweenOwn ==
  OwnInv /\ ShellStep /\ ~ForkStage /\ ~ForkSimple => OwnInv'
<1> SUFFICES ASSUME OwnInv, ShellStep, ~ForkStage, ~ForkSimple PROVE OwnInv'
  OBVIOUS
<1>1. IInv'
  BY NextIInv DEF OwnInv, Next
<1>2. KernelTypeOK
  BY DEF OwnInv, IInv, TypeOK
<1>3. UNCHANGED <<line, nlines, saved0, saved1, job>>
  BY DEF ShellStep, JobsStep, Pop, WaitPrev, Redirect, RedirectFails, SetFg,
         RunBuiltin, CloseAndRestore, WaitLast, Join, WaitAll, CheckErrno,
         JoinDone, Reset, callVars
<1>4. \A p \in Pids : fd0'[p] = fd0[p] /\ fd1'[p] = fd1[p]
  BY <1>2
  DEF ShellStep, JobsStep, Pop, WaitPrev, Redirect, RedirectFails, SetFg,
      RunBuiltin, CloseAndRestore, WaitLast, Join, WaitAll, CheckErrno,
      JoinDone, Reset, fdVars, KernelTypeOK, Procs, Pids, Shell
<1>5. ASSUME Unpiped PROVE Redirected'
  <2>0. Redirected
    BY <1>5 DEF OwnInv
  <2>1. CASE Redirect
    <3>1. /\ pc = "redirect" /\ pc' = "launch" /\ UNCHANGED <<line, i, saved0, saved1>>
          /\ fd0'[Shell] = IF cmd.in THEN InFile(i) ELSE fd0[Shell]
          /\ fd1'[Shell] = IF cmd.out THEN OutFile(i) ELSE fd1[Shell]
      BY <1>2, <2>1 DEF Redirect, callVars, KernelTypeOK, Procs
    <3> QED
      BY <2>0, <3>1 DEF Redirected, cmd
  <2>2. CASE Pop \/ WaitPrev
    BY <2>0, <2>2 DEF Redirected, Pop, WaitPrev, callVars, fdVars
  <2>3. CASE pc' \notin {"setFg", "pop", "waitPrev", "redirect", "launch"}
    BY <2>3 DEF Redirected
  <2> QED
    BY <2>0, <2>1, <2>2, <2>3
    DEF Redirected, ShellStep, JobsStep, RedirectFails, SetFg, RunBuiltin,
        CloseAndRestore, WaitLast, Join, WaitAll, CheckErrno, JoinDone, Reset
<1> QED
  BY <1>1, <1>3, <1>4, <1>5, KeepsOwn

LEMMA ForkOwn == OwnInv /\ ForkSimple /\ UNCHANGED acts => OwnInv'
<1> SUFFICES ASSUME OwnInv, ForkSimple, UNCHANGED acts PROVE OwnInv'
  OBVIOUS
<1>1. IInv'
  BY ForkSimpleIInv DEF OwnInv
<1>2. /\ pc = "launch" /\ pc' \in {"pop", "close"}
      /\ UNCHANGED <<line, nlines, saved0, saved1>>
  BY DEF ForkSimple, callVars
<1>3. /\ fd0 \in [Procs -> Channel] /\ fd1 \in [Procs -> Channel]
      /\ job \in [Pids -> Job] /\ Shell \notin Pids /\ Procs = Pids \cup {Shell}
  BY DEF OwnInv, IInv, TypeOK, KernelTypeOK, Procs, Pids, Shell
<1>4. CASE \E p \in FreePids : Forked(p, JobFor(FALSE)) /\ SimpleDescriptors(p)
  <2>1. PICK p \in FreePids : Forked(p, JobFor(FALSE)) /\ SimpleDescriptors(p)
    BY <1>4
  <2>2. p \in Pids
    BY DEF FreePids
  <2>3. /\ \A q \in Pids \ {p} : /\ fd0'[q] = fd0[q] /\ fd1'[q] = fd1[q]
                                 /\ job'[q] = job[q]
        /\ fd0'[p] = fd0[Shell] /\ fd1'[p] = fd1[Shell]
        /\ fd0'[Shell] = saved0 /\ fd1'[Shell] = saved1
        /\ job'[p] = JobFor(FALSE)
    BY <1>3, <2>1, <2>2 DEF SimpleDescriptors, Forked
  <2>4. JobFor(FALSE).idx = i /\ JobFor(FALSE).cmd = cmd
    BY DEF JobFor
  <2>5. Redirected' /\ (Unpiped' => Unpiped)
    BY <1>2, <2>3 DEF Redirected, Unpiped, n
  <2>6. RedirectIsOwn'
    BY <1>2, <2>3, <2>4, <2>5 DEF OwnInv, Redirected, RedirectIsOwn
  <2> QED
    BY <1>1, <2>5, <2>6 DEF OwnInv
<1>5. CASE /\ UNCHANGED job
           /\ fd0' = [fd0 EXCEPT ![Shell] = Restored0]
           /\ fd1' = [fd1 EXCEPT ![Shell] = Restored1]
  <2>1. /\ \A q \in Pids : fd0'[q] = fd0[q] /\ fd1'[q] = fd1[q]
        /\ fd0'[Shell] = saved0 /\ fd1'[Shell] = saved1
    BY <1>3, <1>5 DEF Restored0, Restored1
  <2>2. Redirected'
    BY <1>2, <2>1 DEF Redirected
  <2> QED
    BY <1>1, <1>2, <1>5, <2>1, <2>2, KeepsOwn
<1> QED
  BY <1>4, <1>5
  DEF ForkSimple, Forked, SimpleDescriptors, Restored0, Restored1

\* A stage belongs to a line with a pipe.
LEMMA ForkStageOwn == OwnInv /\ ForkStage /\ UNCHANGED acts => OwnInv'
<1> SUFFICES ASSUME OwnInv, ForkStage, UNCHANGED acts PROVE OwnInv'
  OBVIOUS
<1>1. IInv'
  BY ForkStageIInv DEF OwnInv
<1>2. line' = line /\ ~Unpiped
  BY NeverStage DEF OwnInv, ForkStage, callVars
<1> QED
  BY <1>1, <1>2 DEF OwnInv, RedirectIsOwn, Unpiped, n

(* A command of a line without pipes reads and writes the files it names   *)
(* and, for the rest, what the shell had when the line began, whatever     *)
(* calls fail, whatever signals arrive and whatever the lines before it    *)
(* left open (src/src/jobs.c:119-149 and 203-205).                         *)
THEOREM OwnRedirections == Spec => []RedirectIsOwn
<1>1. Init => OwnInv
  <2> SUFFICES ASSUME Init PROVE OwnInv
    OBVIOUS
  <2>1. pc = "prompt" /\ nlines = 0
    BY DEF Init, JobsInit
  <2>2. Redirected
    BY <2>1 DEF Redirected
  <2> QED
    BY <2>1, <2>2, InitIInv DEF OwnInv, RedirectIsOwn
<1>2. OwnInv /\ [Next]_vars => OwnInv'
  BY ReadLineOwn, OutsideOwn, BetweenOwn, ForkStageOwn, ForkOwn
  DEF Next, ShellStep
<1>3. OwnInv => RedirectIsOwn
  BY DEF OwnInv
<1> QED
  BY <1>1, <1>2, <1>3, PTL DEF Spec

-----------------------------------------------------------------------------
(* Who can write to a pipe.                                                *)

\* Neither the shell's standard descriptors nor their copies are write ends.
PlainShell == \A c \in {fd0[Shell], fd1[Shell], saved0, saved1} : c[1] # "w"

\* Pipes are numbered as they are made.
Numbered == \A x \in Procs : \A q \in Nat : WriteEnd(q) \in Held(x) => q <= npipes

Numbering ==
  pc \in Busy =>
    \A j, m \in 1..(n - 1) :
      /\ pipes[j] <= npipes
      /\ pipes[j] = Unset <=> pipes[m] = Unset
      /\ pipes[j] = pipes[m] /\ pipes[j] # Unset => j = m

OfThisLine(p) == job[p].line = nlines /\ job[p].idx >= 1

StagesKnown ==
  pc \in Busy =>
    \A p \in Pids : OfThisLine(p) =>
      (job[p].piped <=> \/ line[job[p].idx].conn = "pipe"
                        \/ job[p].idx > 1 /\ line[job[p].idx - 1].conn = "pipe")

Reads ==
  pc \in Busy =>
    \A p \in Pids : Stage(p) /\ job[p].idx > 1 /\ EndsPiped(job[p].idx) =>
      fd0[p] = ReadEnd(pipes[job[p].idx - 1])

\* A single command behind which no pipeline has begun: it keeps the pipes.
Follower(x) ==
  /\ OfThisLine(x)
  /\ ~job[x].piped
  /\ job[x].idx <= NLaunched
  /\ \A m \in job[x].idx..NLaunched : line[m].conn # "pipe"

OpenSole ==
  pc \in Busy =>
    \A x \in Pids, j \in 1..(n - 1) :
      Up(x) /\ pipes[j] # Unset /\ WriteEnd(pipes[j]) \in open[x] =>
        \/ st[x] = "forked" /\ pipes[j] \in job[x].pipes
        \/ Follower(x)

StdSole ==
  pc \in Busy =>
    \A x \in Pids, j \in 1..(n - 1) :
      pipes[j] # Unset /\ WriteEnd(pipes[j]) \in {fd0[x], fd1[x]} =>
        /\ OfThisLine(x)
        /\ job[x].idx \in {1, j} \/ (job[x].idx = n /\ line[n].conn = "pipe")

ShellClosed ==
  pc \in After \ {"close"} =>
    \A j \in 1..(n - 1) : pipes[j] # Unset => WriteEnd(pipes[j]) \notin open[Shell]

SoleInv ==
  /\ PipeInv
  /\ PlainShell /\ Numbered /\ Numbering
  /\ StagesKnown /\ Reads
  /\ OpenSole /\ StdSole /\ ShellClosed

LEMMA SoleTypes ==
  ASSUME SoleInv
  PROVE  /\ fd0 \in [Procs -> Channel] /\ fd1 \in [Procs -> Channel]
         /\ open \in [Procs -> SUBSET PipeEnd] /\ st \in [Procs -> ProcState]
         /\ job \in [Pids -> Job]
         /\ Procs = Pids \cup {Shell} /\ Shell \notin Pids
         /\ n \in Nat /\ i \in 0..n /\ nlines \in Nat /\ npipes \in Nat
         /\ \A p \in Pids : job[p].idx \in Nat /\ job[p].line \in Nat
         /\ \A j \in 1..(n - 1) : pipes[j] # Unset => pipes[j] \in Nat
<1>1. IInv
  BY DEF SoleInv, PipeInv
<1>2. Procs = Pids \cup {Shell} /\ Shell \notin Pids
  BY DEF Procs, Pids, Shell
<1>3. n \in Nat /\ i \in 0..n /\ nlines \in Nat
  BY <1>1, Numbers
<1>4. \A p \in Pids : job[p].idx \in Nat /\ job[p].line \in Nat
  BY <1>1, Numbers
<1> QED
  BY <1>1, <1>2, <1>3, <1>4 DEF IInv, TypeOK, KernelTypeOK

\* Steps that launch nothing and give nobody a new descriptor.
LEMMA QuietSole ==
  ASSUME SoleInv, PipeInv', PlainShell', ShellClosed',
         UNCHANGED <<line, nlines, pipes, npipes, job>>,
         pc' \in Busy => pc \in Busy /\ NLaunched' = NLaunched,
         open'[Shell] \subseteq open[Shell],
         \A p \in Pids : /\ fd0'[p] = fd0[p] /\ fd1'[p] = fd1[p] /\ open'[p] = open[p]
                         /\ st'[p] = st[p] \/ ~Up(p)'
  PROVE  SoleInv'
<1> USE DEF SoleInv
<1>1. Numbered'
  <2> SUFFICES ASSUME NEW x \in Procs, NEW q \in Nat, WriteEnd(q) \in Held(x)'
               PROVE  q <= npipes
    BY DEF Numbered
  <2>1. CASE x \in Pids
    BY <2>1 DEF Numbered, Held
  <2>2. CASE x = Shell
    <3>1. fd0'[Shell] # WriteEnd(q) /\ fd1'[Shell] # WriteEnd(q)
      BY DEF PlainShell, WriteEnd
    <3> QED
      BY <2>2, <3>1 DEF Numbered, Held
  <2> QED
    BY <2>1, <2>2, SoleTypes
<1>2. Numbering'
  BY DEF Numbering, n
<1>3. StagesKnown'
  BY DEF StagesKnown, OfThisLine
<1>4. Reads'
  BY DEF Reads, Stage, EndsPiped, n
<1>5. OpenSole'
  <2> SUFFICES ASSUME pc' \in Busy, NEW x \in Pids, NEW j \in 1..(n - 1),
                      Up(x)', pipes[j] # Unset, WriteEnd(pipes[j]) \in open'[x]
               PROVE  \/ st'[x] = "forked" /\ pipes[j] \in job[x].pipes
                      \/ Follower(x)'
    BY DEF OpenSole, n
  <2>1. st'[x] = st[x] /\ Up(x)
    BY DEF Up
  <2>2. (st[x] = "forked" /\ pipes[j] \in job[x].pipes) \/ Follower(x)
    BY <2>1 DEF OpenSole
  <2>3. Follower(x) => Follower(x)'
    BY DEF Follower, OfThisLine
  <2> QED
    BY <2>1, <2>2, <2>3
<1>6. StdSole'
  BY DEF StdSole, OfThisLine, n
<1> QED
  BY <1>1, <1>2, <1>3, <1>4, <1>5, <1>6

LEMMA OutsideSole ==
  SoleInv /\ (HandlerStep \/ CtrlC \/ StopOrContinue \/ Done \/ UNCHANGED vars
                \/ \E p \in Pids : Exit(p))
    => SoleInv'
<1> SUFFICES ASSUME SoleInv,
                    HandlerStep \/ CtrlC \/ StopOrContinue \/ Done \/ UNCHANGED vars
                      \/ \E p \in Pids : Exit(p)
             PROVE  SoleInv'
  OBVIOUS
<1>1. PipeInv'
  BY OutsidePipeInv DEF SoleInv
<1>2. UNCHANGED <<line, nlines, pipes, npipes, job, pc, i, fd0, fd1, open, saved0, saved1>>
  BY DEF HandlerStep, HandleChld, HandleIntAtPrompt, HandleIntKill,
         HandlerReturns, CtrlC, StopOrContinue, Done, Exit, vars, jobsVars,
         fdVars
<1>3. ASSUME NEW p \in Pids PROVE st'[p] = st[p] \/ ~Up(p)'
  <2>0. st \in [Procs -> ProcState] /\ p \in Procs
    BY SoleTypes
  <2>1. ASSUME NEW V \in SUBSET Running, Die(V) PROVE st'[p] = st[p] \/ ~Up(p)'
    BY <2>0, <2>1 DEF Die, Up
  <2>2. ASSUME NEW t, WaitReaps(t) \/ WaitEchild(t) PROVE st'[p] = st[p] \/ ~Up(p)'
    BY <2>0, <2>2 DEF WaitReaps, WaitEchild, Reap, Up, Zombies, Match, Children
  <2>3. CASE HandlerStep
    BY <2>1, <2>2, <2>3
    DEF HandlerStep, HandleChld, HandleIntAtPrompt, HandleIntKill, HandlerReturns
  <2>4. CASE CtrlC
    BY <2>1, <2>4 DEF CtrlC
  <2>5. CASE \E q \in Pids : Exit(q)
    BY <2>1, <2>5 DEF Exit
  <2>6. CASE StopOrContinue \/ Done \/ UNCHANGED vars
    BY <2>6 DEF StopOrContinue, Done, vars
  <2> QED
    BY <2>3, <2>4, <2>5, <2>6
<1>4. PlainShell' /\ ShellClosed'
  BY <1>2 DEF SoleInv, PlainShell, ShellClosed, n
<1>5. NLaunched' = NLaunched
  BY <1>2 DEF NLaunched
<1> QED
  BY <1>1, <1>2, <1>3, <1>4, <1>5, QuietSole

\* A stage that closes the pipes it inherited keeps at most its own two ends.
LEMMA ChildSole == ASSUME SoleInv, NEW p \in Pids, ChildStep(p) PROVE SoleInv'
<1> USE DEF SoleInv
<1>1. PipeInv'
  BY OutsidePipeInv
<1>2. UNCHANGED <<line, nlines, pipes, npipes, job, pc, i, fd0, fd1, saved0, saved1>>
  BY DEF ChildStep, ChildExec, jobsVars
<1>3. /\ open'[p] = open[p] \ EndsOf(job[p].pipes)
      /\ \A x \in Procs \ {p} : open'[x] = open[x] /\ st'[x] = st[x]
      /\ st[p] = "forked" /\ st'[p] = "running"
  BY SoleTypes DEF ChildStep, ChildExec
<1>4. NLaunched' = NLaunched
  BY <1>2 DEF NLaunched
<1>5. PlainShell' /\ ShellClosed' /\ StagesKnown' /\ Reads' /\ Numbering'
  BY <1>2, <1>3, SoleTypes
  DEF PlainShell, ShellClosed, StagesKnown, OfThisLine, Reads, Stage, EndsPiped,
      Numbering, n
<1>6. Numbered'
  <2>1. \A x \in Procs : open'[x] \subseteq open[x]
    BY <1>3
  <2> QED
    BY <1>2, <2>1 DEF Numbered, Held
<1>7. OpenSole'
  <2> SUFFICES ASSUME pc \in Busy, NEW x \in Pids, NEW j \in 1..(n - 1),
                      Up(x)', pipes[j] # Unset, WriteEnd(pipes[j]) \in open'[x]
               PROVE  \/ st'[x] = "forked" /\ pipes[j] \in job[x].pipes
                      \/ Follower(x)
    BY <1>2, <1>4 DEF OpenSole, Follower, OfThisLine, n
  <2>1. x \in Procs
    BY SoleTypes
  <2>2. (st[x] = "forked" /\ pipes[j] \in job[x].pipes) \/ Follower(x)
    BY <1>3, <2>1 DEF OpenSole, Up
  <2>3. x = p => pipes[j] \notin job[x].pipes
    BY <1>3 DEF EndsOf
  <2> QED
    BY <1>3, <2>1, <2>2, <2>3
<1>8. StdSole'
  BY <1>2 DEF StdSole, OfThisLine, n
<1> QED
  BY <1>1, <1>5, <1>6, <1>7, <1>8

\* The launcher's steps that fork nothing.
LEMMA BetweenSole ==
  SoleInv /\ ShellStep /\ ~ForkStage /\ ~ForkSimple => SoleInv'
<1> SUFFICES ASSUME SoleInv, ShellStep, ~ForkStage, ~ForkSimple PROVE SoleInv'
  OBVIOUS
<1> USE DEF SoleInv
<1>1. PipeInv'
  BY BetweenPipeInv
<1>2. /\ UNCHANGED <<line, nlines, pipes, npipes, job, saved0, saved1>>
      /\ pc' \in Busy => pc \in Busy
  BY DEF ShellStep, JobsStep, Pop, WaitPrev, Redirect, RedirectFails, SetFg,
         RunBuiltin, CloseAndRestore, WaitLast, Join, WaitAll, CheckErrno,
         JoinDone, Reset, callVars, Busy, After, Ending
<1>3. ASSUME NEW p \in Pids
      PROVE  fd0'[p] = fd0[p] /\ fd1'[p] = fd1[p] /\ open'[p] = open[p]
  BY SoleTypes
  DEF ShellStep, JobsStep, Pop, WaitPrev, Redirect, RedirectFails, SetFg,
      RunBuiltin, CloseAndRestore, WaitLast, Join, WaitAll, CheckErrno,
      JoinDone, Reset, fdVars
<1>4. ASSUME NEW p \in Pids PROVE st'[p] = st[p] \/ ~Up(p)'
  <2>0. st \in [Procs -> ProcState] /\ p \in Procs /\ p # Shell
    BY SoleTypes
  <2>1. ASSUME NEW t, WaitReaps(t) \/ WaitEchild(t) PROVE st'[p] = st[p] \/ ~Up(p)'
    BY <2>0, <2>1 DEF WaitReaps, WaitEchild, Reap, Up, Zombies, Match, Children
  <2>2. ASSUME NEW t, WaitEnds(t) \/ WaitEintr PROVE st'[p] = st[p] \/ ~Up(p)'
    BY <2>1, <2>2 DEF WaitEnds, WaitEintr
  <2>3. CASE WaitPrev \/ WaitLast \/ WaitAll
    BY <2>1, <2>2, <2>3 DEF WaitPrev, WaitLast, WaitAll
  <2>4. CASE ~(WaitPrev \/ WaitLast \/ WaitAll)
    BY <2>0, <2>4
    DEF ShellStep, JobsStep, Pop, Redirect, RedirectFails, SetFg, RunBuiltin,
        CloseAndRestore, Join, CheckErrno, JoinDone, Reset
  <2> QED
    BY <2>3, <2>4
<1>5. ASSUME pc' \in Busy PROVE NLaunched' = NLaunched
  BY <1>5, SoleTypes
  DEF ShellStep, JobsStep, Pop, WaitPrev, Redirect, RedirectFails, SetFg,
      RunBuiltin, CloseAndRestore, WaitLast, Join, WaitAll, CheckErrno,
      JoinDone, Reset, callVars, Busy, After, Ending, NLaunched
<1>6. CASE CloseAndRestore
  <2>1. PlainShell'
    <3>1. fd0'[Shell] \in {saved0, Closed} /\ fd1'[Shell] \in {saved1, Closed}
      BY <1>6, SoleTypes DEF CloseAndRestore, Restored0, Restored1
    <3>2. Closed[1] # "w"
      BY DEF Closed
    <3> QED
      BY <1>2, <3>1, <3>2 DEF PlainShell
  <2>2. open'[Shell] \subseteq open[Shell]
    BY <1>6, SoleTypes DEF CloseAndRestore
  <2>3. ShellClosed'
    <3> SUFFICES ASSUME NEW j \in 1..(n - 1), pipes[j] # Unset
                 PROVE  WriteEnd(pipes[j]) \notin open'[Shell]
      BY <1>2 DEF ShellClosed, n
    <3>1. pc \in Busy /\ DOMAIN pipes = 1..(n - 1)
      BY <1>6 DEF CloseAndRestore, Busy, After, Ending, PipeInv, IInv, TypeOK
    <3>2. Unset \notin {pipes[m] : m \in DOMAIN pipes}
      BY <3>1 DEF Numbering
    <3>3. open'[Shell] = open[Shell] \ EndsOf(Made(pipes))
      BY <1>6, <3>2, SoleTypes DEF CloseAndRestore
    <3>4. pipes[j] \in Made(pipes)
      BY <3>1 DEF Made
    <3> QED
      BY <3>3, <3>4 DEF EndsOf
  <2> QED
    BY <1>1, <1>2, <1>3, <1>4, <1>5, <2>1, <2>2, <2>3, QuietSole
<1>7. CASE Redirect
  <2>1. PlainShell'
    <3>1. /\ fd0'[Shell] \in {fd0[Shell], InFile(i)}
          /\ fd1'[Shell] \in {fd1[Shell], OutFile(i)}
      BY <1>7, SoleTypes DEF Redirect
    <3>2. InFile(i)[1] # "w" /\ OutFile(i)[1] # "w"
      BY DEF InFile, OutFile
    <3> QED
      BY <1>2, <3>1, <3>2 DEF PlainShell
  <2>2. open' = open /\ ShellClosed'
    BY <1>7 DEF Redirect, ShellClosed, After, Ending
  <2> QED
    BY <1>1, <1>2, <1>3, <1>4, <1>5, <2>1, <2>2, QuietSole
<1>8. CASE ~CloseAndRestore /\ ~Redirect
  <2>1. UNCHANGED <<fd0, fd1, open>>
        /\ (pc' \in After \ {"close"} => pc \in After \ {"close"})
    BY <1>8
    DEF ShellStep, JobsStep, Pop, WaitPrev, RedirectFails, SetFg, RunBuiltin,
        WaitLast, Join, WaitAll, CheckErrno, JoinDone, Reset, fdVars, After,
        Ending
  <2>2. PlainShell' /\ ShellClosed'
    BY <1>2, <2>1 DEF PlainShell, ShellClosed, n
  <2> QED
    BY <1>1, <1>2, <1>3, <1>4, <1>5, <2>1, <2>2, QuietSole
<1> QED
  BY <1>6, <1>7, <1>8

LEMMA ReadLineSole == SoleInv /\ ReadLine => SoleInv'
<1> SUFFICES ASSUME SoleInv, ReadLine PROVE SoleInv'
  OBVIOUS
<1> USE DEF SoleInv
<1>1. PipeInv'
  BY ReadLinePipeInv
<1>2. PICK l \in Lines : Enter(l)
  BY DEF ReadLine
<1>3. /\ line' = l /\ nlines' = nlines + 1 /\ pc' = "pop" /\ n' = Len(l)
      /\ saved0' = fd0[Shell] /\ saved1' = fd1[Shell]
      /\ pipes' = [j \in 1..(Len(l) - 1) |-> Unset]
      /\ UNCHANGED <<fd0, fd1, open, job, npipes>>
  BY <1>2 DEF Enter, ReadLine, fdVars, n
<1>4. \A p \in Pids : ~OfThisLine(p)' /\ ~Stage(p)'
  BY <1>3, SoleTypes DEF OfThisLine, Stage, PipeInv, IInv, LinesNumbered
<1>5. \A j \in 1..(n' - 1) : pipes'[j] = Unset
  BY <1>3
<1>6. PlainShell' /\ Numbered'
  BY <1>3 DEF PlainShell, Numbered, Held
<1>7. Numbering'
  BY <1>3, <1>5, SoleTypes DEF Numbering, Unset
<1>8. StagesKnown' /\ Reads'
  BY <1>4 DEF StagesKnown, Reads
<1>9. OpenSole' /\ StdSole' /\ ShellClosed'
  BY <1>5 DEF OpenSole, StdSole, ShellClosed
<1> QED
  BY <1>1, <1>6, <1>7, <1>8, <1>9

\* What is the same for the children not in F, those forked in this step.
Others(F) ==
  \A x \in Pids \ F : /\ fd0'[x] = fd0[x] /\ fd1'[x] = fd1[x] /\ open'[x] = open[x]
                      /\ st'[x] = st[x] /\ job'[x] = job[x]

LEMMA AtLaunch ==
  ASSUME SoleInv, pc = "launch", pc' \in {"setFg", "pop", "close"}, i' = i
  PROVE  /\ i \in 1..n /\ n \in Nat /\ pc \in Busy /\ pc' \in Busy
         /\ pc' \notin After \ {"close"}
         /\ NLaunched = i - 1 /\ NLaunched' = i
         /\ Piped <=> line[i].conn = "pipe" \/ (i > 1 /\ line[i - 1].conn = "pipe")
         /\ \A x \in Pids : OfThisLine(x) => job[x].idx \in 1..(i - 1)
<1>1. IInv /\ Placed /\ pc \in Busy
  BY DEF SoleInv, PipeInv, Busy, After, Ending
<1>2. i \in 1..n /\ n \in Nat
  BY <1>1, Numbers DEF IInv, IndexOK
<1>3. NLaunched = i - 1 /\ NLaunched' = i
  BY DEF NLaunched
<1>4. \A x \in Pids : OfThisLine(x) => job[x].idx \in 1..(i - 1)
  BY <1>1, <1>2, <1>3, Numbers DEF OfThisLine, Placed
<1> QED
  BY <1>1, <1>2, <1>3, <1>4 DEF Piped, AfterPipe, Last, cmd, Busy, After, Ending

LEMMA ForkSimpleSole == SoleInv /\ ForkSimple /\ UNCHANGED acts => SoleInv'
<1> SUFFICES ASSUME SoleInv, ForkSimple, UNCHANGED acts PROVE SoleInv'
  OBVIOUS
<1> USE DEF SoleInv
<1>1. PipeInv'
  BY ForkSimplePipeInv
<1>2. /\ pc = "launch" /\ pc' \in {"setFg", "pop", "close"} /\ ~Piped
      /\ UNCHANGED <<line, nlines, i, pipes, npipes, saved0, saved1>> /\ n' = n
  BY DEF ForkSimple, callVars, n
<1>3. /\ i \in 1..n /\ n \in Nat /\ pc \in Busy /\ pc' \in Busy
      /\ pc' \notin After \ {"close"}
      /\ NLaunched = i - 1 /\ NLaunched' = i
      /\ line[i].conn # "pipe" /\ (i > 1 => line[i - 1].conn # "pipe")
      /\ \A x \in Pids : OfThisLine(x) => job[x].idx \in 1..(i - 1)
  BY <1>2, AtLaunch
<1>4. PICK F \in SUBSET Pids :
        /\ Others(F)
        /\ \A x \in F : /\ fd0'[x] = fd0[Shell] /\ fd1'[x] = fd1[Shell]
                        /\ open'[x] = open[Shell]
                        /\ job'[x].idx = i /\ job'[x].line = nlines /\ ~job'[x].piped
        /\ fd0'[Shell] = saved0 /\ fd1'[Shell] = saved1 /\ open'[Shell] = open[Shell]
  <2>1. CASE \E p \in FreePids : Forked(p, JobFor(FALSE)) /\ SimpleDescriptors(p)
    <3>1. PICK p \in FreePids : Forked(p, JobFor(FALSE)) /\ SimpleDescriptors(p)
      BY <2>1
    <3>2. p \in Pids
      BY DEF FreePids
    <3>3. /\ Others({p}) /\ job'[p] = JobFor(FALSE)
          /\ fd0'[p] = fd0[Shell] /\ fd1'[p] = fd1[Shell] /\ open'[p] = open[Shell]
          /\ fd0'[Shell] = saved0 /\ fd1'[Shell] = saved1 /\ open'[Shell] = open[Shell]
      BY <3>1, <3>2, SoleTypes DEF Others, SimpleDescriptors, Forked
    <3>4. JobFor(FALSE).idx = i /\ JobFor(FALSE).line = nlines /\ ~JobFor(FALSE).piped
      BY DEF JobFor
    <3> QED
      BY <3>2, <3>3, <3>4
  <2>2. CASE /\ UNCHANGED <<st, open, job>>
             /\ fd0' = [fd0 EXCEPT ![Shell] = Restored0]
             /\ fd1' = [fd1 EXCEPT ![Shell] = Restored1]
    <3>1. Others({}) /\ fd0'[Shell] = saved0 /\ fd1'[Shell] = saved1
      BY <2>2, SoleTypes DEF Others, Restored0, Restored1
    <3> QED
      BY <2>2, <3>1
  <2> QED
    BY <2>1, <2>2
    DEF ForkSimple, Forked, SimpleDescriptors, Restored0, Restored1
<1>5. PlainShell' /\ ShellClosed' /\ Numbering'
  BY <1>2, <1>3, <1>4 DEF PlainShell, ShellClosed, Numbering
<1>6. Numbered'
  <2> SUFFICES ASSUME NEW x \in Procs, NEW q \in Nat, WriteEnd(q) \in Held(x)'
               PROVE  q <= npipes
    BY <1>2 DEF Numbered
  <2>1. WriteEnd(q) \in open[Shell] => q <= npipes
    BY SoleTypes DEF Numbered, Held
  <2>2. \A c \in {fd0[Shell], fd1[Shell], saved0, saved1} : c # WriteEnd(q)
    BY DEF PlainShell, WriteEnd
  <2>3. CASE x \in F \cup {Shell}
    BY <1>4, <2>1, <2>2, <2>3 DEF Held
  <2>4. CASE x \in Pids \ F
    BY <1>4, <2>4, SoleTypes DEF Numbered, Held, Others
  <2> QED
    BY <2>3, <2>4, SoleTypes
<1>7. \A x \in Pids \ F : /\ OfThisLine(x)' <=> OfThisLine(x)
                          /\ Stage(x)' <=> Stage(x)
                          /\ Up(x)' <=> Up(x)
  BY <1>2, <1>4 DEF Others, OfThisLine, Stage, Up
<1>8. StagesKnown'
  BY <1>2, <1>3, <1>4, <1>7 DEF StagesKnown, Others
<1>9. Reads'
  <2> SUFFICES ASSUME NEW x \in Pids, Stage(x)', job'[x].idx > 1, EndsPiped(job[x].idx)'
               PROVE  fd0'[x] = ReadEnd(pipes[job'[x].idx - 1])
    BY <1>2 DEF Reads
  <2>1. x \notin F
    BY <1>4 DEF Stage
  <2>2. EndsPiped(job[x].idx)
    BY <1>2, <1>4, <2>1 DEF EndsPiped, Others
  <2> QED
    BY <1>3, <1>4, <1>7, <2>1, <2>2 DEF Reads, Others
<1>10. OpenSole'
  <2> SUFFICES ASSUME NEW x \in Pids, NEW j \in 1..(n - 1),
                      Up(x)', pipes[j] # Unset, WriteEnd(pipes[j]) \in open'[x]
               PROVE  \/ st'[x] = "forked" /\ pipes[j] \in job'[x].pipes
                      \/ Follower(x)'
    BY <1>2 DEF OpenSole
  <2>1. CASE x \in F
    BY <1>2, <1>3, <1>4, <2>1 DEF Follower, OfThisLine
  <2>2. CASE x \notin F
    <3>1. (st[x] = "forked" /\ pipes[j] \in job[x].pipes) \/ Follower(x)
      BY <1>3, <1>4, <1>7, <2>2 DEF OpenSole, Others
    <3>2. ASSUME Follower(x) PROVE Follower(x)'
      <4>1. job[x].idx \in 1..(i - 1) /\ job'[x] = job[x]
        BY <1>3, <1>4, <2>2, <3>2 DEF Follower, Others
      <4>2. \A m \in job[x].idx..i : line[m].conn # "pipe"
        BY <1>3, <3>2, <4>1 DEF Follower
      <4> QED
        BY <1>2, <1>3, <1>7, <2>2, <3>2, <4>1, <4>2 DEF Follower
    <3> QED
      BY <1>4, <2>2, <3>1, <3>2 DEF Others
  <2> QED
    BY <2>1, <2>2
<1>11. StdSole'
  <2> SUFFICES ASSUME NEW x \in Pids, NEW j \in 1..(n - 1), pipes[j] # Unset,
                      WriteEnd(pipes[j]) \in {fd0'[x], fd1'[x]}
               PROVE  /\ OfThisLine(x)'
                      /\ job'[x].idx \in {1, j} \/ (job'[x].idx = n /\ line[n].conn = "pipe")
    BY <1>2 DEF StdSole
  <2>1. x \notin F
    BY <1>4 DEF PlainShell, WriteEnd
  <2> QED
    BY <1>3, <1>4, <1>7, <2>1 DEF StdSole, Others
<1> QED
  BY <1>1, <1>5, <1>6, <1>8, <1>9, <1>10, <1>11

\* The pipes a stage finds, and what it may be given as its descriptors.
LEMMA StagePipes ==
  ASSUME SoleInv, pc = "launch", Piped
  PROVE  /\ ~StartsPipe => /\ i > 1 /\ line[i - 1].conn = "pipe"
                           /\ PipesNow = pipes /\ NPipesNow = npipes
                           /\ HeldNow = open[Shell]
         /\ StartsPipe => /\ i > 1 => line[i - 1].conn # "pipe"
                          /\ \A j \in 1..(n - 1) : PipesNow[j] = npipes + j
                          /\ NPipesNow = npipes + (n - 1)
         /\ PipesNow \in [1..(n - 1) -> Nat] /\ NPipesNow \in Nat /\ npipes <= NPipesNow
         /\ \A q \in Nat : WriteEnd(q) \in HeldNow => q <= NPipesNow
<1> USE DEF SoleInv
<1>0. IInv /\ i \in 1..n /\ n \in Nat /\ npipes \in Nat
  BY SoleTypes DEF PipeInv, IInv, IndexOK, Busy, After, Ending
<1>1. ~StartsPipe => /\ i > 1 /\ line[i - 1].conn = "pipe"
                     /\ PipesNow = pipes /\ NPipesNow = npipes /\ HeldNow = open[Shell]
  BY DEF StartsPipe, AfterPipe, Last, PipesNow, NPipesNow, HeldNow
<1>2. StartsPipe => /\ i > 1 => line[i - 1].conn # "pipe"
                    /\ \A j \in 1..(n - 1) : PipesNow[j] = npipes + j
                    /\ NPipesNow = npipes + (n - 1)
                    /\ HeldNow = open[Shell] \cup EndsOf(Made(PipesNow))
  BY DEF StartsPipe, AfterPipe, Last, PipesNow, NPipesNow, HeldNow
<1>3. PipesNow \in [1..(n - 1) -> Nat] /\ NPipesNow \in Nat /\ npipes <= NPipesNow
  BY <1>0, <1>1, <1>2, PipesNowMade
<1>4. ASSUME NEW q \in Nat, WriteEnd(q) \in HeldNow PROVE q <= NPipesNow
  <2>1. WriteEnd(q) \in open[Shell] => q <= npipes
    BY SoleTypes DEF Numbered, Held
  <2>2. StartsPipe /\ WriteEnd(q) \in EndsOf(Made(PipesNow)) => q <= NPipesNow
    <3> SUFFICES ASSUME StartsPipe, WriteEnd(q) \in EndsOf(Made(PipesNow))
                 PROVE  q <= NPipesNow
      OBVIOUS
    <3>1. q \in Made(PipesNow)
      BY DEF EndsOf, ReadEnd, WriteEnd
    <3>2. PICK j \in 1..(n - 1) : q = PipesNow[j]
      BY <1>3, <3>1 DEF Made
    <3> QED
      BY <1>0, <1>2, <3>2
  <2> QED
    BY <1>0, <1>1, <1>2, <1>3, <1>4, <2>1, <2>2
<1> QED
  BY <1>1, <1>2, <1>3, <1>4

LEMMA StageEnds ==
  ASSUME SoleInv, pc = "launch", Piped, NEW q \in Nat
  PROVE  /\ WriteEnd(q) \in StageIn => i = 1 /\ q <= NPipesNow
         /\ WriteEnd(q) \in StageOut =>
              /\ q <= NPipesNow
              /\ line[i].conn = "pipe"
              /\ i < n => q = PipesNow[i]
<1> USE DEF SoleInv
<1>0. i \in 1..n /\ n \in Nat
  BY SoleTypes DEF PipeInv, IInv, IndexOK, Busy, After, Ending
<1>1. /\ WriteEnd(q) # fd0[Shell] /\ WriteEnd(q) # fd1[Shell] /\ WriteEnd(q) # Tty
      /\ \A r : WriteEnd(q) # ReadEnd(r)
      /\ \A r : WriteEnd(q) = WriteEnd(r) => q = r
  BY DEF PlainShell, WriteEnd, ReadEnd, Tty
<1>2. WriteEnd(q) \in Stray => q <= NPipesNow
  BY <1>1, StagePipes DEF Stray
<1>3. \A j \in 1..(n - 1) : PipesNow[j] \in Nat /\ PipesNow[j] <= NPipesNow
  <2> SUFFICES ASSUME NEW j \in 1..(n - 1)
               PROVE  PipesNow[j] \in Nat /\ PipesNow[j] <= NPipesNow
    OBVIOUS
  <2>1. CASE StartsPipe
    BY <1>0, <2>1, StagePipes, SoleTypes
  <2>2. CASE ~StartsPipe
    BY <2>2, StagePipes DEF Numbering, Busy
  <2> QED
    BY <2>1, <2>2
<1>4. WriteEnd(q) \in StageIn => i = 1 /\ q <= NPipesNow
  BY <1>0, <1>1, <1>2 DEF StageIn
<1>5. ASSUME WriteEnd(q) \in StageOut
      PROVE  q <= NPipesNow /\ line[i].conn = "pipe" /\ (i < n => q = PipesNow[i])
  <2>1. line[i].conn = "pipe"
    BY <1>1, <1>5 DEF StageOut, cmd
  <2>2. CASE i < n
    <3>1. q = PipesNow[i]
      BY <1>1, <1>5, <2>1, <2>2 DEF StageOut, cmd
    <3> QED
      BY <1>0, <1>3, <2>1, <2>2, <3>1
  <2>3. CASE ~(i < n)
    <3>1. \/ n > 1 /\ WriteEnd(q) = WriteEnd(PipesNow[1])
          \/ WriteEnd(q) \in Stray
      BY <1>1, <1>5, <2>1, <2>3 DEF StageOut, cmd
    <3> QED
      BY <1>0, <1>1, <1>2, <1>3, <2>1, <2>3, <3>1
  <2> QED
    BY <2>2, <2>3
<1> QED
  BY <1>4, <1>5

LEMMA ForkStageSole == SoleInv /\ ForkStage /\ UNCHANGED acts => SoleInv'
<1> SUFFICES ASSUME SoleInv, ForkStage, UNCHANGED acts PROVE SoleInv'
  OBVIOUS
<1> USE DEF SoleInv
<1>1. PipeInv'
  BY ForkStagePipeInv
<1>2. /\ pc = "launch" /\ pc' \in {"setFg", "pop", "close"} /\ Piped
      /\ pipes' = PipesNow /\ npipes' = NPipesNow
      /\ UNCHANGED <<line, nlines, i, saved0, saved1>> /\ n' = n
  BY DEF ForkStage, callVars, n
<1>3. /\ i \in 1..n /\ n \in Nat /\ pc \in Busy /\ pc' \in Busy
      /\ pc' \notin After \ {"close"}
      /\ NLaunched = i - 1 /\ NLaunched' = i
      /\ line[i].conn = "pipe" \/ (i > 1 /\ line[i - 1].conn = "pipe")
      /\ \A x \in Pids : OfThisLine(x) => job[x].idx \in 1..(i - 1)
  BY <1>2, AtLaunch
<1>4. /\ ~StartsPipe => /\ i > 1 /\ line[i - 1].conn = "pipe"
                        /\ PipesNow = pipes /\ NPipesNow = npipes
                        /\ HeldNow = open[Shell]
      /\ StartsPipe => /\ i > 1 => line[i - 1].conn # "pipe"
                       /\ \A j \in 1..(n - 1) : PipesNow[j] = npipes + j
                       /\ NPipesNow = npipes + (n - 1)
      /\ PipesNow \in [1..(n - 1) -> Nat] /\ NPipesNow \in Nat /\ npipes <= NPipesNow
      /\ \A q \in Nat : WriteEnd(q) \in HeldNow => q <= NPipesNow
  BY <1>2, StagePipes
<1>5. PICK F \in SUBSET Pids :
        /\ Others(F)
        /\ \A x \in F : /\ fd0'[x] \in StageIn /\ fd1'[x] \in StageOut
                        /\ open'[x] = HeldNow /\ st'[x] = "forked"
                        /\ job'[x].idx = i /\ job'[x].line = nlines /\ job'[x].piped
                        /\ job'[x].pipes = Made(PipesNow)
        /\ fd0'[Shell] = fd0[Shell] /\ fd1'[Shell] = fd1[Shell] /\ open'[Shell] = HeldNow
  <2>1. CASE \E p \in FreePids, in \in StageIn, out \in StageOut : Stages(p, in, out)
    <3>1. PICK p \in FreePids, in \in StageIn, out \in StageOut : Stages(p, in, out)
      BY <2>1
    <3>2. p \in Pids
      BY DEF FreePids
    <3>3. /\ Others({p}) /\ job'[p] = JobFor(TRUE) /\ st'[p] = "forked"
          /\ fd0'[p] = in /\ fd1'[p] = out /\ open'[p] = HeldNow
          /\ fd0'[Shell] = fd0[Shell] /\ fd1'[Shell] = fd1[Shell]
          /\ open'[Shell] = HeldNow
      BY <3>1, <3>2, SoleTypes DEF Others, Stages
    <3>4. /\ JobFor(TRUE).idx = i /\ JobFor(TRUE).line = nlines /\ JobFor(TRUE).piped
          /\ JobFor(TRUE).pipes = Made(PipesNow)
      BY DEF JobFor
    <3> QED
      BY <3>2, <3>3, <3>4
  <2>2. CASE /\ UNCHANGED <<st, fd0, fd1, job>>
             /\ open' = [open EXCEPT ![Shell] = HeldNow]
    <3>1. Others({}) /\ open'[Shell] = HeldNow
      BY <2>2, SoleTypes DEF Others
    <3> QED
      BY <2>2, <3>1
  <2> QED
    BY <2>1, <2>2 DEF ForkStage
\* A pipe made in this step is held by nobody else.
<1>6. ASSUME StartsPipe, NEW x \in Procs, NEW j \in 1..(n - 1)
      PROVE  WriteEnd(PipesNow[j]) \notin Held(x)
  <2>1. PipesNow[j] \in Nat /\ PipesNow[j] > npipes
    BY <1>3, <1>4, <1>6, SoleTypes
  <2> QED
    BY <2>1, SoleTypes DEF Numbered
<1>7. \A x \in Pids \ F : /\ OfThisLine(x)' <=> OfThisLine(x)
                          /\ Stage(x)' <=> Stage(x)
                          /\ Up(x)' <=> Up(x)
  BY <1>2, <1>5 DEF Others, OfThisLine, Stage, Up
<1>8. PlainShell' /\ ShellClosed'
  BY <1>2, <1>3, <1>5 DEF PlainShell, ShellClosed
<1>9. Numbering'
  <2>1. CASE StartsPipe
    <3>1. \A j \in 1..(n - 1) : pipes'[j] = npipes + j /\ pipes'[j] <= npipes'
                                /\ pipes'[j] # Unset
      BY <1>2, <1>3, <1>4, <2>1, SoleTypes DEF Unset
    <3> QED
      BY <1>2, <1>3, <3>1, SoleTypes DEF Numbering
  <2>2. CASE ~StartsPipe
    BY <1>2, <1>3, <1>4, <2>2 DEF Numbering
  <2> QED
    BY <2>1, <2>2
<1>10. Numbered'
  <2> SUFFICES ASSUME NEW x \in Procs, NEW q \in Nat, WriteEnd(q) \in Held(x)'
               PROVE  q <= NPipesNow
    BY <1>2 DEF Numbered
  <2>1. CASE x \in F
    BY <1>2, <1>4, <1>5, <2>1, StageEnds DEF Held
  <2>2. CASE x = Shell
    BY <1>4, <1>5, <2>2 DEF Held, PlainShell, WriteEnd
  <2>3. CASE x \in Pids \ F
    <3>1. q <= npipes
      BY <1>5, <2>3, SoleTypes DEF Numbered, Held, Others
    <3> QED
      BY <1>4, <3>1, SoleTypes
  <2> QED
    BY <2>1, <2>2, <2>3, SoleTypes
<1>11. StagesKnown'
  BY <1>2, <1>3, <1>5, <1>7 DEF StagesKnown, Others
<1>12. Reads'
  <2> SUFFICES ASSUME NEW x \in Pids, Stage(x)', job'[x].idx > 1, EndsPiped(job[x].idx)'
               PROVE  fd0'[x] = ReadEnd(PipesNow[job'[x].idx - 1])
    BY <1>2 DEF Reads
  <2>1. CASE x \in F
    BY <1>3, <1>5, <2>1 DEF StageIn
  <2>2. CASE x \notin F
    <3>1. EndsPiped(job[x].idx) /\ job'[x] = job[x] /\ fd0'[x] = fd0[x] /\ Stage(x)
      BY <1>2, <1>5, <1>7, <2>2 DEF EndsPiped, Others
    <3>2. job[x].idx \in 1..(i - 1)
      <4>1. OfThisLine(x)
        BY <3>1, SoleTypes DEF Stage, OfThisLine
      <4> QED
        BY <1>3, <4>1
    <3>3. line[i - 1].conn = "pipe" /\ i > 1
      BY <1>3, <3>1, <3>2 DEF EndsPiped
    <3> QED
      BY <1>3, <1>4, <3>1, <3>3 DEF Reads
  <2> QED
    BY <2>1, <2>2
<1>13. OpenSole'
  <2> SUFFICES ASSUME NEW x \in Pids, NEW j \in 1..(n - 1),
                      Up(x)', WriteEnd(PipesNow[j]) \in open'[x],
                      PipesNow[j] # Unset
               PROVE  st'[x] = "forked" /\ PipesNow[j] \in job'[x].pipes
    BY <1>2 DEF OpenSole
  <2>1. CASE x \in F
    <3>1. PipesNow[j] \in Made(PipesNow)
      BY <1>4 DEF Made
    <3> QED
      BY <1>5, <2>1, <3>1
  <2>2. CASE x \notin F
    <3>1. ~StartsPipe
      BY <1>5, <1>6, <2>2, SoleTypes DEF Held, Others
    <3>2. (st[x] = "forked" /\ pipes[j] \in job[x].pipes) \/ Follower(x)
      BY <1>3, <1>4, <1>5, <1>7, <2>2, <3>1 DEF OpenSole, Others
    <3>3. ~Follower(x)
      <4>1. Follower(x) => i - 1 \in job[x].idx..NLaunched
        BY <1>3 DEF Follower
      <4> QED
        BY <1>4, <3>1, <4>1 DEF Follower
    <3> QED
      BY <1>4, <1>5, <2>2, <3>1, <3>2, <3>3 DEF Others
  <2> QED
    BY <2>1, <2>2
<1>14. StdSole'
  <2> SUFFICES ASSUME NEW x \in Pids, NEW j \in 1..(n - 1), PipesNow[j] # Unset,
                      WriteEnd(PipesNow[j]) \in {fd0'[x], fd1'[x]}
               PROVE  /\ OfThisLine(x)'
                      /\ job'[x].idx \in {1, j} \/ (job'[x].idx = n /\ line[n].conn = "pipe")
    BY <1>2 DEF StdSole
  <2>1. CASE x \in F
    <3>1. OfThisLine(x)' /\ job'[x].idx = i
      BY <1>2, <1>3, <1>5, <2>1 DEF OfThisLine
    <3>2. PipesNow[j] \in Nat
      BY <1>4
    <3>3. CASE WriteEnd(PipesNow[j]) = fd0'[x]
      BY <1>2, <1>5, <2>1, <3>1, <3>2, <3>3, StageEnds
    <3>4. CASE WriteEnd(PipesNow[j]) = fd1'[x]
      <4>1. line[i].conn = "pipe" /\ (i < n => PipesNow[j] = PipesNow[i])
        BY <1>2, <1>5, <2>1, <3>2, <3>4, StageEnds
      <4>2. i < n => i = j
        <5> SUFFICES ASSUME i < n PROVE i = j
          OBVIOUS
        <5>1. i \in 1..(n - 1) /\ pipes'[j] = pipes'[i] /\ pipes'[j] # Unset
          BY <1>2, <1>3, <4>1
        <5> QED
          BY <1>2, <1>3, <1>9, <5>1 DEF Numbering
      <4> QED
        BY <1>3, <3>1, <4>1, <4>2
    <3> QED
      BY <3>3, <3>4
  <2>2. CASE x \notin F
    <3>1. ~StartsPipe
      BY <1>5, <1>6, <2>2, SoleTypes DEF Held, Others
    <3> QED
      BY <1>3, <1>4, <1>5, <1>7, <2>2, <3>1 DEF StdSole, Others
  <2> QED
    BY <2>1, <2>2
<1> QED
  BY <1>1, <1>8, <1>9, <1>10, <1>11, <1>12, <1>13, <1>14

LEMMA InBetween ==
  ASSUME NEW m \in Nat, NEW a \in 1..m, NEW b \in 1..m, a < b
  PROVE  b - 1 \in a..(m - 1) /\ b \in a..m /\ b - 1 \in a..m
OBVIOUS

LEMMA SoleLeft == SoleInv => OnlyLeftWrites
<1> SUFFICES ASSUME SoleInv, pc \in After \ {"close"},
                    NEW q \in Running, job[q].piped, job[q].line = nlines,
                    AfterStage(q), EndsPiped(job[q].idx),
                    NEW x \in Writers(fd0[q][2])
             PROVE  /\ x # Shell
                    /\ st[x] = "forked" \/ (/\ job[x].line = nlines
                                            /\ job[x].idx \in {1, job[q].idx - 1})
  BY DEF OnlyLeftWrites, After, Ending
<1> USE DEF SoleInv
<1> DEFINE j == job[q].idx - 1
<1>1. /\ IInv /\ Placed /\ pc \in Busy /\ n \in Nat /\ i = n /\ NLaunched = n
      /\ q \in Pids /\ OfThisLine(q)
  BY SoleTypes
  DEF PipeInv, IInv, IndexOK, Busy, After, Ending, NLaunched, Running,
      OfThisLine, AfterStage
<1>2. job[q].idx \in 2..n /\ j \in 1..(n - 1) /\ job[q].cmd = line[job[q].idx]
  BY <1>1, SoleTypes DEF Placed, AfterStage
<1>3. fd0[q] = ReadEnd(pipes[j])
  BY <1>1, <1>2 DEF Reads, Stage
<1>4. pipes[j] # Unset
  <2>1. fd0[q] \in Channel /\ fd0[q][1] = "r"
    BY <1>1, SoleTypes DEF AfterStage
  <2>2. fd0[q] \in PipeEnd
    BY <2>1 DEF Channel, Tty, Closed
  <2> QED
    BY <1>3, <2>2 DEF PipeEnd, ReadEnd, Unset
<1>5. x \in Procs /\ Up(x) /\ WriteEnd(pipes[j]) \in Held(x)
  BY <1>3 DEF Writers, ReadEnd
<1>6. x # Shell
  BY <1>2, <1>4, <1>5 DEF ShellClosed, PlainShell, Held, WriteEnd
<1>7. x \in Pids
  BY <1>5, <1>6, SoleTypes
<1>8. line[n].conn # "pipe" /\ \A m \in job[q].idx..(n - 1) : line[m].conn = "pipe"
  BY <1>1, <1>2 DEF EndsPiped
<1>9. CASE WriteEnd(pipes[j]) \in {fd0[x], fd1[x]}
  BY <1>1, <1>2, <1>4, <1>6, <1>7, <1>8, <1>9 DEF StdSole, OfThisLine
<1>10. CASE WriteEnd(pipes[j]) \in open[x]
  <2>1. ~Follower(x)
    <3> SUFFICES ASSUME Follower(x) PROVE FALSE
      OBVIOUS
    <3>1. /\ job[x].idx \in 1..n /\ OfThisLine(x) /\ ~job[x].piped
          /\ \A m \in job[x].idx..n : line[m].conn # "pipe"
      BY <1>1, <1>7, SoleTypes DEF Follower, OfThisLine
    <3>2. line[job[q].idx].conn = "pipe" \/ line[job[q].idx - 1].conn = "pipe"
      BY <1>1 DEF StagesKnown
    <3>3. line[job[x].idx].conn # "pipe"
          /\ (job[x].idx > 1 => line[job[x].idx - 1].conn # "pipe")
      BY <1>1, <1>7, <3>1 DEF StagesKnown
    <3>4. CASE job[x].idx > job[q].idx
      <4>1. job[x].idx - 1 \in job[q].idx..(n - 1)
        BY <1>1, <1>2, <3>1, <3>4, InBetween
      <4> QED
        BY <1>2, <1>8, <3>1, <3>3, <3>4, <4>1
    <3>5. CASE job[x].idx = job[q].idx
      BY <1>2, <3>2, <3>3, <3>5
    <3>6. CASE job[x].idx < job[q].idx
      <4>1. job[q].idx \in job[x].idx..n /\ job[q].idx - 1 \in job[x].idx..n
        BY <1>1, <1>2, <3>1, <3>6, InBetween
      <4> QED
        BY <3>1, <3>2, <4>1
    <3> QED
      BY <1>2, <3>1, <3>4, <3>5, <3>6
  <2> QED
    BY <1>1, <1>2, <1>4, <1>5, <1>6, <1>7, <1>10, <2>1 DEF OpenSole
<1> QED
  BY <1>5, <1>9, <1>10 DEF Held

LEMMA InitSole == Init => SoleInv
<1> SUFFICES ASSUME Init PROVE SoleInv
  OBVIOUS
<1>1. PipeInv
  <2>1. /\ pc = "prompt"
        /\ \A p \in Pids : job[p].idx = 0 /\ ~job[p].piped
    BY DEF Init, JobsInit, NoJob
  <2> QED
    BY <2>1, InitIInv
    DEF PipeInv, Placed, Begun, Wired, StagesConnected, Busy, After, Ending
<1>2. PlainShell /\ Numbered
  BY DEF Init, KernelInit, JobsInit, PlainShell, Numbered, Held, Tty, WriteEnd,
         Procs, Shell
<1> QED
  BY <1>1, <1>2
  DEF SoleInv, Numbering, StagesKnown, Reads, OpenSole, StdSole, ShellClosed,
      Init, JobsInit, Busy, After, Ending

LEMMA NextSole == SoleInv /\ [Next]_vars => SoleInv'
BY ReadLineSole, OutsideSole, ChildSole, BetweenSole, ForkStageSole, ForkSimpleSole
DEF Next, ShellStep

(* In a pipeline that ends its line, nobody but the stage on its left, and *)
(* stages about to exec, holds the write end of what a stage reads once    *)
(* the shell waits: the shell has closed its own, and no job, earlier line *)
(* or single command of the line keeps one (src/src/jobs.c:155-175, 213).  *)
THEOREM SoleWriter == Spec => []OnlyLeftWrites
BY InitSole, NextSole, SoleLeft, PTL DEF Spec

-----------------------------------------------------------------------------
(* A set of naturals has a least element.                                  *)

LEMMA LeastExists ==
  ASSUME NEW S \in SUBSET Nat, S # {}
  PROVE  \E c \in S : \A d \in S : c <= d
<1> DEFINE T == {0..m : m \in S}
<1>1. T \subseteq FiniteSubsetsOf(Nat) /\ T # {}
  <2>1. \A m \in S : 0..m \in SUBSET Nat /\ IsFiniteSet(0..m)
    BY FS_Interval
  <2> QED
    BY <2>1 DEF FiniteSubsetsOf
<1>2. IsWellFoundedOn(StrictSubsetOrdering(Nat), FiniteSubsetsOf(Nat))
  BY FS_StrictSubsetOrderingWellFounded
<1> HIDE DEF T
<1>3. \E X \in T : \A Y \in T : <<Y, X>> \notin StrictSubsetOrdering(Nat)
  BY <1>1, <1>2, WFMin
<1>4. PICK c \in S : \A d \in S : <<0..d, 0..c>> \notin StrictSubsetOrdering(Nat)
  BY <1>3 DEF T
<1>5. ASSUME NEW d \in S, d < c PROVE FALSE
  <2>1. 0..d \subseteq 0..c /\ c \in 0..c /\ c \notin 0..d
    BY <1>5
  <2>2. <<0..d, 0..c>> \in StrictSubsetOrdering(Nat)
    BY <2>1 DEF StrictSubsetOrdering
  <2> QED
    BY <1>4, <2>2
<1> QED
  BY <1>5

-----------------------------------------------------------------------------
(* Nobody waits in vain.                                                   *)

\* Pipes are read by stages only.
PipesToStages ==
  /\ fd0[Shell][1] # "r" /\ saved0[1] # "r"
  /\ \A p \in Pids : ~job[p].piped => fd0[p][1] # "r"

\* What the shell waits for in the loop is no stage that writes a pipe.
WaitsForSingle ==
  pc = "waitPrev" => i > 1 /\ line[i - 1].conn # "pipe"

GoInv == SoleInv /\ PipesToStages /\ WaitsForSingle

LEMMA InitGo == Init => GoInv
<1> SUFFICES ASSUME Init PROVE GoInv
  OBVIOUS
<1>1. /\ pc = "prompt" /\ saved0 = Tty
      /\ \A x \in Procs : fd0[x] = Tty
  BY DEF Init, JobsInit, KernelInit
<1>2. Tty[1] # "r" /\ Shell \in Procs /\ Pids \subseteq Procs
  BY DEF Tty, Procs
<1> QED
  BY <1>1, <1>2, InitSole DEF GoInv, PipesToStages, WaitsForSingle

\* Handlers, children and the user move no descriptor 0.
LEMMA OutsideGo ==
  ASSUME GoInv, SoleInv',
         HandlerStep \/ CtrlC \/ StopOrContinue \/ Done \/ UNCHANGED vars
           \/ \E p \in Pids : ChildStep(p) \/ Exit(p)
  PROVE  GoInv'
<1>1. UNCHANGED <<line, job, pc, i, fd0, saved0>>
  BY DEF HandlerStep, HandleChld, HandleIntAtPrompt, HandleIntKill,
         HandlerReturns, CtrlC, StopOrContinue, Done, Exit, ChildStep,
         ChildExec, vars, jobsVars, fdVars
<1> QED
  BY <1>1 DEF GoInv, PipesToStages, WaitsForSingle

LEMMA ReadLineGo == ASSUME GoInv, SoleInv', ReadLine PROVE GoInv'
<1>1. /\ UNCHANGED <<job, fd0>>
      /\ saved0' = fd0[Shell] /\ pc' = "pop"
  BY DEF ReadLine, Enter, fdVars
<1> QED
  BY <1>1 DEF GoInv, PipesToStages, WaitsForSingle

LEMMA BetweenGo ==
  ASSUME GoInv, SoleInv', ShellStep, ~ForkStage, ~ForkSimple
  PROVE  GoInv'
<1>1. UNCHANGED <<line, job, saved0>>
  BY DEF ShellStep, JobsStep, Pop, WaitPrev, Redirect, RedirectFails, SetFg,
         RunBuiltin, CloseAndRestore, WaitLast, Join, WaitAll, CheckErrno,
         JoinDone, Reset, callVars
<1>2. /\ fd0'[Shell] \in {fd0[Shell], InFile(i), saved0, Closed}
      /\ \A p \in Pids : fd0'[p] = fd0[p]
  <2>1. fd0 \in [Procs -> Channel] /\ Shell \in Procs /\ Shell \notin Pids
        /\ Pids \subseteq Procs
    BY SoleTypes DEF GoInv
  <2>2. CASE Redirect
    BY <2>1, <2>2 DEF Redirect
  <2>3. CASE CloseAndRestore
    BY <2>1, <2>3 DEF CloseAndRestore, Restored0
  <2>4. CASE ~Redirect /\ ~CloseAndRestore
    <3>1. fd0' = fd0
      BY <2>4
      DEF ShellStep, JobsStep, Pop, WaitPrev, RedirectFails, SetFg, RunBuiltin,
          WaitLast, Join, WaitAll, CheckErrno, JoinDone, Reset, fdVars
    <3> QED
      BY <3>1
  <2> QED
    BY <2>2, <2>3, <2>4
<1>3. PipesToStages'
  <2>1. InFile(i)[1] # "r" /\ Closed[1] # "r"
    BY DEF InFile, Closed
  <2> QED
    BY <1>1, <1>2, <2>1 DEF GoInv, PipesToStages
<1>4. WaitsForSingle'
  <2>1. CASE Pop
    <3>1. i \in Nat /\ line' = line /\ i' = i + 1
          /\ pc' = IF i > 0 /\ Waited(line[i]) THEN "waitPrev" ELSE "redirect"
      BY <2>1, SoleTypes DEF Pop, callVars, GoInv
    <3> QED
      BY <3>1 DEF WaitsForSingle, Waited
  <2>2. CASE ~Pop
    <3>1. pc' # "waitPrev"
      BY <2>2
      DEF ShellStep, JobsStep, WaitPrev, Redirect, RedirectFails, SetFg,
          RunBuiltin, CloseAndRestore, WaitLast, Join, WaitAll, CheckErrno,
          JoinDone, Reset
    <3> QED
      BY <3>1 DEF WaitsForSingle
  <2> QED
    BY <2>1, <2>2
<1> QED
  BY <1>3, <1>4 DEF GoInv

\* A stage is marked as one; any other child gets what the shell has.
LEMMA ForkGo ==
  ASSUME GoInv, SoleInv', ForkStage \/ ForkSimple
  PROVE  GoInv'
<1>1. /\ saved0' = saved0 /\ pc' # "waitPrev"
      /\ fd0 \in [Procs -> Channel] /\ job \in [Pids -> Job]
      /\ Shell \in Procs /\ Shell \notin Pids /\ Pids \subseteq Procs
  BY SoleTypes DEF GoInv, ForkStage, ForkSimple, callVars
<1>2. /\ fd0'[Shell] \in {fd0[Shell], saved0}
      /\ \A p \in Pids : \/ fd0'[p] = fd0[p] /\ job'[p] = job[p]
                         \/ fd0'[p] = fd0[Shell] \/ job'[p].piped
  <2>1. CASE ForkSimple
    BY <1>1, <2>1 DEF ForkSimple, Restored0, FreePids
  <2>2. CASE ForkStage
    <3>1. ASSUME NEW p \in FreePids, NEW in, NEW out, Stages(p, in, out)
          PROVE  /\ fd0'[Shell] = fd0[Shell]
                 /\ \A q \in Pids : \/ fd0'[q] = fd0[q] /\ job'[q] = job[q]
                                    \/ job'[q].piped
      BY <1>1, <3>1 DEF Stages, JobFor, FreePids
    <3>2. CASE UNCHANGED <<fd0, job>>
      BY <3>2
    <3> QED
      BY <2>2, <3>1, <3>2 DEF ForkStage
  <2> QED
    BY <2>1, <2>2
<1> QED
  BY <1>1, <1>2 DEF GoInv, PipesToStages, WaitsForSingle

\* What holds a child of a line up is a child in front of it.
LEMMA HeldUp ==
  ASSUME GoInv, pc \in Blocking,
         \A j \in 1..n : line[j].conn = "pipe" => EndsPiped(j),
         line[1].conn = "pipe" => line[1].prog # "filter",
         NEW q \in Running, job[q].line = nlines, ~GoesOn(q)
  PROVE  \E x \in Pids : /\ Up(x)
                         /\ st[x] = "forked" \/ (/\ job[x].line = nlines
                                                 /\ job[x].idx < job[q].idx)
<1> DEFINE j == job[q].idx
<1>1. /\ SoleInv /\ IInv /\ q \in Pids /\ st[q] = "running" /\ pc \in Busy
      /\ n \in Nat /\ i \in 0..n /\ j \in Nat
  BY SoleTypes DEF GoInv, SoleInv, PipeInv, Running, Blocking, Busy, After, Ending
<1>2. /\ job[q].cmd.prog = "filter" /\ fd0[q][1] = "r"
      /\ Writers(fd0[q][2]) # {}
  BY <1>1 DEF GoesOn, AtEof
<1>3. job[q].piped
  BY <1>1, <1>2 DEF GoInv, PipesToStages
<1>4. j \in 1..NLaunched /\ NLaunched \in 0..n /\ job[q].cmd = line[j] /\ OfThisLine(q)
  <2>1. j \in 1..NLaunched
    BY <1>1, <1>3 DEF IInv, StagesTracked, Stage
  <2>2. NLaunched \in 0..n
    BY <1>1 DEF NLaunched, IInv, IndexOK
  <2> QED
    BY <1>1, <2>1, <2>2 DEF SoleInv, PipeInv, Placed, OfThisLine
<1>5. line[j].conn = "pipe" \/ (j > 1 /\ line[j - 1].conn = "pipe")
  BY <1>1, <1>3, <1>4 DEF SoleInv, StagesKnown
<1>6. EndsPiped(j)
  <2>1. CASE line[j].conn = "pipe"
    BY <1>1, <1>4, <2>1
  <2>2. CASE j > 1 /\ line[j - 1].conn = "pipe"
    <3>1. j - 1 \in 1..n /\ \A m \in j..n : m \in (j - 1)..n
      BY <1>1, <1>4, <2>2
    <3>2. EndsPiped(j - 1)
      BY <2>2, <3>1
    <3> QED
      BY <3>1, <3>2 DEF EndsPiped
  <2> QED
    BY <1>5, <2>1, <2>2
<1>7. pc \in {"waitLast", "waitAll"}
  <2> SUFFICES ASSUME pc = "waitPrev" PROVE FALSE
    BY DEF Blocking
  <2>1. NLaunched = i - 1
    BY DEF NLaunched
  <2>2. i - 1 \in j..n /\ i - 1 < n
    BY <1>1, <1>4, <2>1
  <2>3. line[i - 1].conn = "pipe"
    BY <1>6, <2>2 DEF EndsPiped
  <2> QED
    BY <2>3 DEF GoInv, WaitsForSingle
<1>8. j > 1
  BY <1>1, <1>2, <1>4, <1>5
<1>9. AfterStage(q)
  BY <1>2, <1>8 DEF AfterStage
<1>10. PICK x \in Writers(fd0[q][2]) : TRUE
  BY <1>2
<1>11. /\ x # Shell
       /\ st[x] = "forked" \/ (/\ job[x].line = nlines
                               /\ job[x].idx \in {1, job[q].idx - 1})
  BY <1>1, <1>3, <1>6, <1>7, <1>9, <1>10, SoleLeft DEF OnlyLeftWrites
<1>12. x \in Pids /\ Up(x)
  BY <1>1, <1>10, <1>11, SoleTypes DEF Writers
<1>13. job[x].idx \in {1, job[q].idx - 1} => job[x].idx < job[q].idx
  BY <1>1, <1>8
<1> QED
  BY <1>11, <1>12, <1>13

LEMMA NoneInVain == GoInv => NotInVain
<1> SUFFICES ASSUME GoInv, pc \in Blocking,
                    \A j \in 1..n : line[j].conn = "pipe" => EndsPiped(j),
                    line[1].conn = "pipe" => line[1].prog # "filter",
                    NEW q \in Running, job[q].line = nlines
             PROVE  \E x \in Pids :
                      /\ GoesOn(x)
                      /\ st[x] = "forked" \/ (/\ job[x].line = nlines
                                              /\ job[x].idx <= job[q].idx)
  BY DEF NotInVain
<1> DEFINE R == {x \in Running : job[x].line = nlines /\ job[x].idx <= job[q].idx}
           S == {job[x].idx : x \in R}
<1>1. Running \subseteq Pids /\ \A x \in Pids : job[x].idx \in Nat
  BY SoleTypes, Numbers DEF GoInv, SoleInv, PipeInv, Running
<1>2. S \in SUBSET Nat /\ S # {}
  <2>1. q \in R
    BY <1>1
  <2> QED
    BY <1>1, <2>1
<1>3. PICK c \in S : \A d \in S : c <= d
  <2> HIDE DEF S
  <2> QED
    BY <1>2, LeastExists
<1>4. PICK x \in R : c = job[x].idx
  OBVIOUS
<1>5. x \in Pids /\ x \in Running /\ job[x].line = nlines /\ job[x].idx <= job[q].idx
  BY <1>1, <1>4
<1>6. CASE GoesOn(x)
  BY <1>5, <1>6
<1>7. CASE ~GoesOn(x)
  <2>1. PICK y \in Pids : /\ Up(y)
                          /\ st[y] = "forked" \/ (/\ job[y].line = nlines
                                                  /\ job[y].idx < job[x].idx)
    BY <1>5, <1>7, HeldUp
  <2>2. CASE st[y] = "forked"
    BY <2>2 DEF GoesOn
  <2>3. CASE st[y] # "forked"
    <3>1. y \in Running /\ job[y].line = nlines /\ job[y].idx < job[x].idx
      BY <2>1, <2>3 DEF Up, Running
    <3>2. y \in R /\ job[y].idx \in S
      BY <1>1, <1>5, <3>1
    <3>3. c <= job[y].idx
      <4> HIDE DEF S
      <4> QED
        BY <1>3, <3>2
    <3> QED
      BY <1>1, <1>4, <1>5, <3>1, <3>3
  <2> QED
    BY <2>2, <2>3
<1> QED
  BY <1>6, <1>7

(* In a line whose pipeline comes last no child is held up for good while  *)
(* the shell waits: what it reads is written by a child in front of it,    *)
(* and the one in front of all has nothing to wait for.  No job, signal,   *)
(* failed fork() or earlier line changes that (src/src/jobs.c:110-117,     *)
(* 155-175, 213-227).                                                      *)
THEOREM NoDeadlock == Spec => []NotInVain
<1>1. GoInv /\ [Next]_vars => GoInv'
  <2> SUFFICES ASSUME GoInv, [Next]_vars PROVE GoInv'
    OBVIOUS
  <2>1. SoleInv'
    BY NextSole DEF GoInv
  <2> QED
    BY <2>1, OutsideGo, ReadLineGo, BetweenGo, ForkGo DEF Next, ShellStep
<1> QED
  BY <1>1, InitGo, NoneInVain, PTL DEF Spec
=============================================================================
