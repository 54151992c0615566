------------------------------- MODULE Kernel -------------------------------
(***************************************************************************)
(* The part of a UNIX kernel that redshell runs on, as src/src/jobs.c and  *)
(* src/src/main.c use it: the process table and waitpid(), the descriptor  *)
(* tables and the pipes behind them, and the signals pending for the       *)
(* shell.  None of it is code of the repository: the module is external.   *)
(*                                                                         *)
(* A child goes through free -> forked (after fork(), running the shell's  *)
(* own code) -> running (after execvp()) -> zombie -> reaped.  Pids are    *)
(* handed out in increasing order and never reused.                        *)
(***************************************************************************)
EXTENDS Integers, FiniteSets, Sequences

CONSTANTS MaxPid,  (* bound: how many children a behaviour may fork         *)
          Faults   (* the system calls that may fail                        *)

ASSUME KernelAssumption ==
  /\ MaxPid \in Nat \ {0}
  /\ Faults \subseteq {"fork", "open"}

VARIABLES
  st,         (* process -> where it is in its life                         *)
  fd0,        (* process -> the channel behind its descriptor 0             *)
  fd1,        (* process -> the channel behind its descriptor 1             *)
  open,       (* process -> the pipe ends it holds on other descriptors     *)
  pend,       (* the signals pending for the shell                          *)
  inHandler,  (* the shell is blocked inside its SIGINT handler             *)
  eintr,      (* a handler ran while the shell was blocked in waitpid()     *)
  errno       (* what the waitpid() at jobs.c:227 left in errno, "unread"   *)
              (* but between its return and the test behind it              *)

fdVars  == <<fd0, fd1, open>>
sigVars == <<pend, inHandler, eintr, errno>>

Shell == 0
Pids  == 1..MaxPid
Procs == Pids \cup {Shell}

ProcState == {"free", "forked", "running", "zombie", "reaped"}

-----------------------------------------------------------------------------
(* Descriptors and pipes.                                                  *)

Tty         == <<"tty", 0>>
Closed      == <<"closed", 0>>
InFile(j)   == <<"in", j>>     \* the file command j reads with "<"
OutFile(j)  == <<"out", j>>    \* the file command j writes with ">"
ReadEnd(q)  == <<"r", q>>
WriteEnd(q) == <<"w", q>>

PipeEnd == {"r", "w"} \X Nat
Channel == {Tty, Closed} \cup ({"in", "out"} \X Nat) \cup PipeEnd

\* The two ends of every pipe in the set Q.
EndsOf(Q) == {ReadEnd(q) : q \in Q} \cup {WriteEnd(q) : q \in Q}

Up(x) == st[x] \in {"forked", "running"}

\* Everything process x can write to or read from.
Held(x) == open[x] \cup {fd0[x], fd1[x]}

Writers(q) == {x \in Procs : Up(x) /\ WriteEnd(q) \in Held(x)}

\* A read of descriptor 0 gives end-of-file once nobody can write to the pipe.
AtEof(x) == fd0[x][1] = "r" => Writers(fd0[x][2]) = {}

-----------------------------------------------------------------------------
(* Processes.                                                              *)

FreePids == {p \in Pids : st[p] = "free"}
Children == {p \in Pids : st[p] \in {"forked", "running", "zombie"}}
Running  == {p \in Pids : st[p] = "running"}

IsNextPid(p) == p \in FreePids /\ \A q \in FreePids : p <= q

\* The processes in V end: the parent will find them as zombies.
Die(V) == st' = [x \in Procs |-> IF x \in V THEN "zombie" ELSE st[x]]

(* The signals pending once the processes in V have died.  SIGCHLD also    *)
(* comes when a child stops or continues: see StopOrContinue in Shell.     *)
PendAfterDeath(V) == pend \cup (IF V = {} THEN {} ELSE {"CHLD"})

-----------------------------------------------------------------------------
(* waitpid(t, NULL, 0).  A target of 0 or -1 matches any child: nothing in *)
(* redshell calls setpgid(), so all children are in the shell's group.     *)

AnyChild == -1
NoChild  == -2

Match(t)   == IF t = AnyChild THEN Children ELSE Children \cap {t}
Zombies(t) == {p \in Match(t) : st[p] = "zombie"}
Reap(p)    == st' = [st EXCEPT ![p] = "reaped"]

WaitReaps(t)  == \E p \in Zombies(t) : Reap(p)
WaitEchild(t) == Match(t) = {} /\ UNCHANGED st
Blocked(t)    == Match(t) # {} /\ Zombies(t) = {}

\* A waitpid() that a handler interrupted returns -1 with EINTR: the handlers
\* are installed without SA_RESTART.
WaitEintr == eintr /\ eintr' = FALSE /\ UNCHANGED st

\* waitpid() returns for another reason than EINTR.
WaitEnds(t) == ~eintr /\ (WaitReaps(t) \/ WaitEchild(t)) /\ UNCHANGED eintr

(* A handler's waitpid(t) that finds no child overwrites errno, which no   *)
(* handler saves and restores.                                             *)
HandlerErrno(t) ==
  errno' = IF errno # "unread" /\ Match(t) = {} THEN "ECHILD" ELSE errno

-----------------------------------------------------------------------------
KernelInit ==
  /\ st   = [x \in Procs |-> IF x = Shell THEN "running" ELSE "free"]
  /\ fd0  = [x \in Procs |-> Tty]
  /\ fd1  = [x \in Procs |-> Tty]
  /\ open = [x \in Procs |-> {}]
  /\ pend = {}
  /\ inHandler = FALSE
  /\ eintr = FALSE
  /\ errno = "unread"

KernelTypeOK ==
  /\ st   \in [Procs -> ProcState]
  /\ fd0  \in [Procs -> Channel]
  /\ fd1  \in [Procs -> Channel]
  /\ open \in [Procs -> SUBSET PipeEnd]
  /\ pend \in SUBSET {"INT", "CHLD"}
  /\ inHandler \in BOOLEAN
  /\ eintr \in BOOLEAN
  /\ errno \in {"unread", "EINTR", "ECHILD"}
=============================================================================
