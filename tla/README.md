# redshell in TLA+

redshell is a small UNIX shell in C. This directory holds TLA+ modules that
model its core, TLC configurations that check them on small instances, and
proofs for TLAPS. File names below are relative to the repository; in
`PROJECT.json` they have its checkout directory `src/` in front.

## The system

| Component | Code | State | Operations |
|---|---|---|---|
| Main loop | `src/main.c` `run()` | - | read a line, parse it, execute the queue |
| Signal handlers | `src/main.c` `signalHandler()` | `fg_pid` | SIGINT: kill and wait for `fg_pid`; SIGCHLD: reap one child |
| Job launcher | `src/jobs.c` | locals of `executeCommandsInQueue()`: `pid`, `launched[]`, `pipes[]`, saved descriptors | waits, redirects, pipes, forks, runs the last builtin in the shell |
| Command queue | `src/queue.c` | linked list with `count`, `head`, `tail` | new, insert, pop, free |
| Strings | `src/hash-string.c`, `src/compare-string.c` | - | hash, compare, with and without case |
| Hash table | `src/hash-table.c` | chains, size, number of entries, index into the primes | insert (and enlarge), lookup, remove, iterate, free |
| Aliases | `src/alias.c`, `src/helper.c` | one hash table, an `in_use` mark per alias | add, remove, get (and mark), release, expand |
| Parser | `src/parser.rl` | an automaton, three buffers, the command being built | characters to a queue of commands |
| Builtins | `src/builtins.c` | environment, directory, aliases | `echo export pwd cd exit alias unalias` |
| Commands | `src/command.c` | allocation | new, free |
| Prompt, line editing | `src/prompt.c`, readline | one string; the history | - |

`run()` reads a line, `parseInput()` turns it into a queue (expanding aliases
through the hash table), `executeCommandsInQueue()` pops every command and
forks. The launcher and the handlers share `fg_pid` and, through `waitpid()`,
the children; the launcher and the children share pipes. A handler may run
between any two instructions of the launcher, and makes a blocked `waitpid()`
return with EINTR, since `sa_flags` is 0 (`src/main.c:103`). For the same reason
SIGCHLD also comes when a child stops or continues, not only when it ends. The
handlers call `waitpid()` themselves and do not save `errno`, which the last loop
of the launcher reads (`src/jobs.c:227`).

What is hard: three places that reap the same children (the waits of the
launcher, the SIGCHLD handler, the SIGINT handler); EINTR, and an `errno` that is
not the one of the call in front of it any more; who holds which pipe
end when; early returns that skip the cleaning up at the end; arrays that are
read outside their bounds or before they are written; pointers of a list whose
nodes are freed and reused; moving entries while the table grows. The list, line
by line, is under "hazards" in `PROJECT.json`. Apart from processes there is the
order of things: the words of a whole line are made, with its aliases and
variables, before its first command runs, which may change them.

What makes each component correct:

* launcher and handlers: the stages of a pipeline are connected, hold nothing
  but their own ends, and are all waited for; single commands run one at a time
  with their own redirections; the shell comes back to the prompt, with its
  descriptors and `fg_pid` as they were;
* the order of a line: commands start in order, builtins where their place says,
  each command is freed once and run with the words it had in its turn;
* queue: first in first out, every node freed once, no pointer to a freed node;
* hash table: a map that owns its values; keys unique; iteration complete;
* aliases: expansion ends and leaves no mark behind;
* parser: it queues what the grammar says, and nothing of a rejected line.

## Modules

    Kernel  <-  Jobs  <-  Shell  <-  MCShell
                            ^
                            +------  ShellProofs  <-  StreamProofs
    Launch       <=  Shell
    Interpreter  <=  Session  <-  MCSession, SessionProofs
    Builtins     <-  Session, Interpreter
    Fifo  <=  Queue  <-  MCQueue, QueueProofs
    Dict  <=  HashTable  <-  MCHashTable, HashTableProofs
    Rewriting  <=  Aliases  <-  MCAliases, AliasProofs
    Texts      <-  Aliases, Rewriting
    Grammar  <-  Parser  <-  MCParser, ParserProofs
    Strings  <-  MCStrings, StringProofs          (<= implements, <- extends)

**Kernel** is what UNIX gives the program: process states, `waitpid()`,
descriptors 0 and 1 and the other pipe ends of every process, pending signals, and
`errno` where the program reads it. No line of it is in the repository; it is
written from the calls in `jobs.c` and `main.c`. Pids grow and are not reused.

**Jobs** is `executeCommandsInQueue()`. `pc` names the place in the function
(listed at the head of the module); an action is the code between two places
where a child or a signal matters. The variables are the function's locals, with
indices counted from 1: `pipes[j]` is the pair `2*(j-1)`, `2*(j-1)+1`, `i` the
number of commands popped, `line[i]` is `cmd`. Everything undefined is a choice:
`pipes[-2]`, which the first command of a line passes to `dup2()`, is any
descriptor held or none; an entry of `launched[]` that was never set is any pid,
-1 or none; `_closepipes()` on an array no pipeline wrote may close any
descriptor. A program is abstracted to what it does to others: `src` ends by
itself, `filter` ends at end-of-file on its descriptor 0, `server` need not end;
`builtin` and `exit` are run by the shell when last on the line. A fork is one
step and the assignment of its result another, so that signals and children come
between. So are, in the loop of lines 226-227, a `waitpid()` that returns -1 and the
test of `errno`, with `pc` at "waited" in between.

**Shell** adds `run()`, the two handlers and the user. A pending signal is taken
before the next instruction of the shell or, when it is blocked in `waitpid()`
with nothing to return, there; the SIGINT handler is two steps, `kill()` and the
return of its `waitpid()`, with all signals masked in between. ^C reaches the
shell and every child, since nothing calls `setpgid()`; a program may survive it;
a child that has not reached `execvp()` still has the shell's handler, and
survives. `kill()` with `fg_pid` -1 (a failed fork) reaches all. A handler's
`waitpid()` that finds no child leaves ECHILD in `errno`. `StopOrContinue` is ^Z, or
any other signal that stops or continues a child: what the shell notices of it is
SIGCHLD, which can cut a wait short (`sleep 100; ls`, ^Z and a continue: `ls` starts
while `sleep` exists). A stopped process is one that takes no step for a while.

**Launch** is what the launcher promises of the commands of a line, without
processes: they start in order, the last one in the shell if it is a builtin, alone
and in the foreground, all others in a child; only a file that cannot be opened
makes the shell give up the rest. `Shell` implements it with its processes and
signals, where `NextToStart` and `Started` read the promise's state off the
launcher's. `Session` keeps the same order, as part of what it promises of words.

**Builtins** is `builtins.c` and the part of `helper.c` that makes words of a
text, as functions of a record: aliases, environment, directory. A word is a tuple
of strings, whose set is a parameter; only what the builtins tell apart is in it
(`key=value`, a `$` reference, a pattern, a word `wordexp()` refuses). Expanding
an alias is following its values until one is no alias or was used before. Aliases
of several words belong to `Aliases`. The files other programs make are one variable
of `Session`.

**Session** composes `run()`, the parser, the launcher and the builtins on the
data: a line is parsed whole (`Cut`, `Parsed`), and then a round of the launcher's
loop is a step. `last` is `lastCommand`; `ran` and `freed`, how often each command
of the queue was freed, are history. Every return includes `queueFree()`
(`src/main.c:137`), which frees the commands that were not popped. A command
without words, whose `path` is NULL and is passed to `strcmp()`, an `export`
without argument and the NULL of `readline()` at end of input lead to "crashed".
**Interpreter** is a shell that makes the words of each command when its turn
comes. That `Session` implements it says that parsing ahead cannot be noticed in
aliases, variables and directory: a builtin that changes them is the last of its
line or runs in a child. In files it can: the patterns of a line see the directory
as it was when the line was read, so `touch f ; echo *` does not print `f`.
`Interpreter` states this with `seen`. Only the children of the line at hand make
files (`Create`).

**Strings** is `hash-string.c` and `compare-string.c` on sequences of bytes. A
`char` is signed, and `string_nocase_compare()` hands it to `tolower()`, for which C
defines no negative argument but EOF. `High` is what the library makes of these: any
function that keeps them apart from each other and from ASCII. `MCStrings` takes
glibc's, which looks up the byte in a table and keeps EOF, the byte 255; another
may return them as they are. Equality and hashes do not depend on it, the order of
bytes above 127 does: with glibc, 255 comes before every other byte and the end of
a string, elsewhere all of them may, while `strcasecmp()`, which the comment
names (`src/compare-string.c:56-58`), puts them last. Only `string_hash()` and
`string_equal()` are used by the program. The operator `^` on words is a
parameter, given by `MCStrings`.

**Queue** is `queue.c` on the level of pointers: nodes are addresses, `malloc()`
returns any free one, `next` and `data` are the fields, `queueFree()` takes a
step per node. `order` is a history variable, the nodes in the order of
insertion. **Fifo** is what the queue promises; `Jobs` relies on it when it takes
a line to be a sequence.

**HashTable** is `hash-table.c` as `alias.c` uses it: a chain is the sequence of
its entries, an insertion is the load test, a step per entry moved to the larger
table, and the insertion proper. The hash function and the list of primes are
parameters. The branch of `NewSize` for a table at the last prime is there because
the code has it: with the code's primes no table in memory gets so large. **Dict**
is the map it promises, with the values it must free.

**Aliases** is the table of aliases with their `in_use` marks, `expandAlias()` a
round of the loop at a time, and the builtins that change the table; it takes the
table to be the map of `Dict`. A string is the sequence of its characters, and
**Texts** has what `strstr(s, " ")` splits it into. Values have any length:
`strncpy()` cuts one to the buffer (`Fit`), while the word to look up next is taken
from the whole value (`src/helper.c:95-100`). What `strcat()` appends is not cut: a
buffer of more than `BufSize` characters ends the behaviour. A command comes from a
buffer of the parser, which has the same size. **Rewriting** is what an expansion
promises: the first word of the command is replaced, and the first word of the
alias taken, no alias twice; `Limit` is how much of an alias is used.

**Parser** is `parseInput()`: the moves of the tables in `parser.c` as a set, one
step per character and one per embedded action, so that the order of `term`,
`new` and `append` on one character counts. A behaviour is one call, since the
function keeps nothing. Only a command's text, redirections and connection are
kept, not the words `wordexp()` makes of the text; it may fail on any text, and
`expand()` may give NULL for any name. **Grammar** is the language of
`parser.rl:103-115` written without an automaton, in terms of places: where the
commands of a line start and stop, where the marks of one stand, and what is
between a mark and the next special character (`Field`). The two are translations
of two files of the source, of which one is generated from the other.

## Runs

| Run | Checks | Shows |
|---|---|---|
| `session` | `TypeOK PipelineJoined StagesConnected OnlyLeftWrites NotInVain OneAtATime RedirectIsOwn KeepsOrder` | two lines out of fourteen kinds (commands in sequence with redirections and builtins among them, background, redirected builtin, `exit`, a queue ending in a pipe, pipelines of two and three, a pipeline behind `;`, a background pipeline with a program that never ends, a pipeline with a job behind it), one ^C or one child that stops or continues, `fork()` and `open()` failing at will |
| `progress` | `ReturnsToPrompt` | every line whose pipeline comes last gets back to the prompt, failing forks and background jobs included |
| `composed` | `TypeOK CommandsOwned IsInterpreter` | sessions of any length out of 19 lines in which aliases (also of each other and of builtins), variables, `cd`, files, pipelines, jobs and refused words meet: parsing ahead is not noticed, and no command is freed twice, used when it is gone or lost in the loop |
| `strings` | `HashAgrees EqualIsEqual Ordered` | every pair of strings of up to two bytes: what counts as equal has one hash, both comparisons are orders, and without case that of ASCII strings is `strcasecmp()`'s |
| `queue` | `Linked NoLeak IsFifo` | the list, and that it implements `Fifo` |
| `hash_table` | `Hashed IterationComplete IsDict` | the table, and that it implements `Dict` |
| `aliases` | `Released ShortFits ExpansionEnds IsRewriting` | an expansion ends, leaves no mark, implements `Rewriting`, and overflows no buffer unless the first word of one alias and the arguments of all are too long together |
| `parser` | `TypeOK OwnedOnce CommandThere Parsed PrefixKept` | the automaton queues what the grammar says, nothing of a rejected line, and the complete commands in front of one that `wordexp()` refuses; no command is lost or used where it is NULL |
| `pipe_then_more` | `ReturnsToPrompt`, violated | `a \| b ; c`: the shell waits at line 116 for `b`, which waits for the write end that the shell closes at line 213 |
| `job_then_command` | `NothingInForeground`, violated | `a &`, then `b`: the end of `a` interrupts the wait for `b` at line 222, and the shell prompts while `b` runs |
| `builtin_into_file` | `StdioRestored`, violated | `echo > f`: the return at line 191 leaves the shell's descriptor 1 on `f` |
| `nocase_order` | `AsStrcasecmp`, violated | the byte 255, which is -1 as a `char`, comes before the empty string, unlike with `strcasecmp()` |

The last four disagree with what the repository says of itself; `PROJECT.json`
quotes it under "findings".

Bounds. `MaxPid` and `MaxLines` bound the children and lines of a behaviour,
`MaxActs` how often ^C is typed or a child stops or continues. Two lines are
enough for what one leaves to the next (descriptors, pipes, `fg_pid`, jobs,
zombies); three children make a pipeline with a first, a middle and a last stage,
or a pipeline next to a job; one ^C, or one stop, comes at every point of the
launcher. A line is read only while enough pids are left for it. Queue: two data
and three nodes give the empty, the one-node and the longer list and the immediate
reuse of an address. Hash table: three keys that collide at some of the sizes 2,
3, 10, 20, 30 and primes that run out; the table then never grows further by
itself.

Aliases: a buffer of five characters; four names, the empty one and one of six
characters among them; seven values, among which are some that name themselves or
another, the empty one, one that starts with a space, one that is a single word of
six characters and one of seven with several arguments. `strncpy()` so cuts a
first word and an argument, and buffers overflow by long first words as well as by
chains of arguments. Parser: every line of up to five characters over one letter,
the space and the five special characters, and every line of two or three pieces
out of eight, which have all kinds of redirection, `&`, spaces and texts longer
than the buffer of three characters. A line of five characters reaches every move
but those behind the name of a second redirection; the longer lines reach these.

Composed: no bound on the number of lines, since a line leaves nothing but the
aliases, the environment, the directory, the files and leaked memory behind, and
there are finitely many of each. Two aliases give cycles and chains; of the two
variables `cd` reads one, and the other may name a builtin. Strings: the bytes are
a digit, `A`, `a`, `b`, the characters right behind `Z` and `z`, two above 127
that differ by 32 as letters do, and 255, which is EOF as a `char`; a difference
may be at the first, at the second or at the end of one string. `W` is 16 where
the code has 64 bits: the hash of one byte is then already cut off.

Deadlock is not checked by `composed`, since `exit`, a crash and end of input stop
the shell, by `strings`, since strings stop growing, by `aliases`, since an overflow
ends the behaviour, by `parser`, since a call returns, and by `session` and the
violated runs: with servers, ^C or commands behind a pipeline the system may stop,
which is what the violated runs are about.

Fairness (`Shell!Fairness`). The shell's instructions, its handlers and each
child's way to `execvp()` are run by the kernel: weak fairness for each. A program
that is not a `server` eventually ends, so who stops it continues it in the end; a
`filter` does only once it sees end-of-file. `Aliases` has weak fairness for the
instructions of `expandAlias()`, which runs by itself once called. Nothing makes a
`server` end, a user type, or a program heed ^C. `progress` has no ^C: a last
stage that survives ^C before the shell has closed its write ends blocks the
handler for ever (see the hazards).

What each property relies on: `PipelineJoined` allows for one stage that the loop
misses. A wait of the loop is interrupted, and before `errno` is read ^C arrives:
the handler kills and waits for an `fg_pid` that is reaped already, its
`waitpid()` turns EINTR into ECHILD, and the loop goes on to the next entry. The
handler clears `fg_pid`, so that no second ^C can do this to another stage,
however often it is typed. `OnlyLeftWrites` is about a pipeline that ends its
line, since a command behind one inherits its pipes and a second pipeline writes
over their numbers in `pipes[]` (`src/jobs.c:157`), so that nobody closes them; it
excepts the first command of the line, whose descriptor 0 is read outside
`pipes[]` and may be anything; `NotInVain` is about lines that no command follows
the pipeline of, for the same reasons, and about the waits of the function: the
handler's wait, before the shell has closed its ends, may be in vain (see the
hazards); `OneAtATime` is about sessions in which nothing was run in the
background or in a pipeline so far, no ^C was typed and no child stopped or
continued, any of which may interrupt a wait (the second finding). `RedirectIsOwn`
is about lines without a pipe, since a pipeline leaves the shell's descriptors
redirected for the commands behind it; the lines before may be any.

## Proofs

`ShellProofs` proves for any number of children, lines, commands per line,
signals and failures, from the named assumptions of `Kernel`, `Jobs` and `Shell`
on their constants alone:

* `TypeCorrect`: `Spec => []TypeOK`;
* `Joins`: `Spec => []PipelineJoined`.

`PipelineJoined` is about the one point where the function ends; its inductive
strengthening `IInv` adds `IndexOK` (where each index stands at each `pc`),
`PipesMade` (behind a pipeline's first command `pipes[]` is written),
`LinesNumbered` and `StagesTracked` (a stage of this line is in `launched[]` at
its own index, or is `pid` about to be stored there), `Joined` and `Signals`.
`Joined` says that of the entries the last loop has `Passed`, or is about to pass
with the `errno` it will read, at most one is still a child (`Missed`), and one
only where `fg_pid` was cleared by ^C. `Signals` says when `errno` is waiting to
be read and that the SIGINT handler waits only where `fg_pid` is not 0. There is
one lemma per action; all steps of handlers, children and user go through
`OutsideIInv`: they leave the locals alone and never add a child, and where a
handler changes `errno` no child is left or `fg_pid` is cleared just then.
`WaitJoins` is the fact about `waitpid()` behind `Joins`: however it ends, but for
EINTR, its target is no child any more.

`QueueProofs` proves `WellLinked` (`Spec => []Linked`), `Leakless`
(`Spec => []NoLeak`) and `Refines` (`Spec => IsFifo`) for any sets of data and
addresses, with `TypeOK /\ Linked /\ NoLeak` as the inductive invariant;
`UnlinkLinked` is shared by pop and `queueFree()`.

`AliasProofs` proves `MarksReleased` (`Spec => []Released`) and `Refines`
(`Spec => IsRewriting`) for any characters, aliases, commands and buffer size. The
inductive invariant adds to `TypeOK` and `Released` that before the first round
`final` is empty (`Fresh`). The refinement rests on facts about texts: where the
first space is (`BreakIs`, `BreakUnique`), what is behind it when texts are joined
(`RestOfAppended`) or cut (`Fits`), that joining is associative (`Associates`) and
that it leaves nothing only of nothing (`EmptyFront`); `SameTexts` says that both
modules split texts alike.

`ArgumentsFit` (`Spec => []ShortFits`) counts characters: while an expansion goes
on, `final` is no longer than the first word of an alias marked so far and the
arguments of all of them (`Measured`). `LoopLengths` is one round, in which
`strncpy()` may have cut the value. `UsesUp` is the part of `ExpansionEnds` that
is no liveness: each step of an expansion ends it or leaves fewer of the finitely
many aliases to take.

`ParserProofs` proves all properties of the parser, for any lines and buffer size.
`TypeCorrect`, `Owned` (`Spec => []OwnedOnce`) and `NoNullCommand`
(`Spec => []CommandThere`) need `Stages`, the combinations of automaton state,
pending actions, `command` and text that occur: `MoveLeads` says where the moves
of the tables lead from and to (`Leads`), `LeadsStages` that each goes from one
stage to another, and there is one lemma per embedded action.

`Parses` (`Spec => []Parsed`) and `KeepsPrefix` (`Spec => []PrefixKept`) say that
the automaton recognises the grammar and that its actions carry out the grammar's
meaning. A second inductive invariant, `Follows`, relates the state of the call to
the line: the call is in front of the line, in an error, of a line that is none of
the grammar, behind the line, or at the command that starts at some place `o`, of
which all commands in front are in the queue (`Agrees`). Of that command it is in
the middle (`InPiece`), or at its separator, before or after the action
(`Joining`, `Joined`), or one character further, `term` still to be done
(`Passing`), or in front of `new` (`Starting`). In the middle, `Inside` gives the
places of the redirections and of "&" read so far, in the order the state stands
for (`Shape`), and says which field is still without a letter; `Read` is what the
open buffer has of its field, never more than fits, and `Complete` what the
buffers have when the command is over. There are lemmas for a letter or space, a
mark, a separator and the end (`InsideOn`, `InsideIn`, `InsideOut`, `InsideAmp`,
`AllRead`), and, for a character without a move (`ScanStuck`), for each way a
piece of the line can fail to be a command (`BehindAmp`, `Twice` and the empty
fields). That the invariant holds at each embedded action depends on their order:
`term` runs a character late, on buffers that `new` has not emptied yet.

`ShellProofs` also proves `OrderKept` (`Spec => KeepsOrder`): `IInv` gives the
place the place of the loop at each step, and the lemmas say which steps are one
of `Launch` (`ForkStarts`, `LeaveKeepsOrder`) and which stutter; a child that dies
or is reaped stays in `Started`. Of the same module is `Alone` (`Spec =>
[]OneAtATime`): as long as the session is `Undisturbed`, no wait was ever
interrupted, as SIGCHLD can only come from the process waited for (`Calm`), and
what runs is the command forked last, which the launcher has yet to wait for
(`Latest`).

`StreamProofs` proves `Connected` (`Spec => []StagesConnected`). What the left
stage writes is decided a round of the loop before the right one is forked; the
invariant adds `Wired` (the stage launched last writes the pipe its successor will
read), `Placed` and `Begun` (which command of the line each child has).
`OwnRedirections` (`Spec => []RedirectIsOwn`) rests on `Redirected`, what the
shell's own descriptors are between `open()` and `fork()` on a line without pipes,
where no stage is forked (`NeverStage`, `ForkStageOwn`). `SoleWriter` (`Spec =>
[]OnlyLeftWrites`) accounts for every copy of a write end. Its invariant `SoleInv`
says that no pipe is newer than the counter, and no number twice in `pipes[]`
(`Numbered`, `Numbering`); which pipe a stage reads (`Reads`); that a child has
another copy of an end only between `fork()` and `execvp()`, unless it was forked
behind its line's pipelines (`OpenSole`, `Follower`), and one as descriptor 0 or 1
only as the stage on the left or as one of the two at the edges of the array
(`StdSole`); and that the shell has none but those of this line, and none once it
has closed them (`PlainShell`, `ShellClosed`).

What the shell waits for does come, as far as that is no matter of fairness. By
`NoDeadlock` (`Spec => []NotInVain`, in `StreamProofs`), while it waits for a line
whose pipeline comes last, each running child of the line can go on, or one in
front of it, or one that has still to close its pipes. The invariant `GoInv` adds
to `SoleInv` that only stages read pipes (`PipesToStages`) and that a wait in the
loop is for a command that pipes nothing (`WaitsForSingle`). By `SoleLeft` a stage
that is held up is held up by one in front of it (`HeldUp`); the foremost that
runs is therefore free (`NoneInVain`). By `LineEnds` (`Spec => [][ReadLine \/
Nearer]_vars`, in `ShellProofs`) there are finitely many steps between two lines:
each makes `Distance`, the steps the launcher has left, or else `Unrest`, what
signals and children may still do, smaller. A wait that a signal cut short leaves
`Distance` as it is, but uses the signal up. Here `MaxActs`, which bounds ^C,
stops and continues, is needed: a user who goes on for ever keeps the last loop at
line 227 going.

`HashTableProofs` proves `Refines` (`Spec => IsDict`), `WellHashed`
(`Spec => []Hashed`) and `IteratesAll` (`Spec => []IterationComplete`) for any
keys, hash function, list of sizes and failing allocations. It looks at a table
through the set of its entries (`Elems`); the inductive invariant has `Shaped`
(which tables exist in which phase), `Unique` (no key at two places of the old and
the new table, every entry of the new one where its hash says) and `Counted`. A
step then keeps the set of entries, puts one in (`Put`) or cuts one out (`Cut`).
For the iterator, `Walked` says that the keys returned are those of the places
behind it. A table that is full has an entry, so that `entries * 10`, the size
behind the last prime, is not 0.

`SessionProofs` proves `Owned` (`Spec => []CommandsOwned`) and `Interprets`
(`Spec => IsInterpreter`) for any lines, aliases, variables and directories. The
inductive invariant has `Places` (where the loop stands), `UpToDate` (in the loop,
the queue is what would be parsed now: nothing has changed aliases, variables or
directory since the line was read), `History`, `Counts` and `CommandsOwned`.
`UpToDate` is the argument of `Interprets`: a builtin that changes the world ends
the loop. `FreeCounts` says what a call of `commandFree()` for some commands does to
the counts behind `Owned`.

`TypeCorrect` (`Spec => []TypeOK`) says that what an alias, a variable or a pattern
makes of a word is a word again: the loops that follow aliases and collect words are
recursive functions, which have a value (`RoundsExist`) that stays in the set it
starts in (`RoundsStay`).

`StringProofs` proves `HashesAgree` (`Spec => []HashAgrees`), `Equality` (`Spec =>
[]EqualIsEqual`) and `Orders` (`Spec => []Ordered`) for strings of any bytes and
length, any width, any operator in the place of `^` and any `High`. `WalkEnds`
says that the loop over two strings decides at the first place where they differ
or one ends; equality and order follow from where that is. `SameLower` is the fact
behind `HashAgrees` without case: signed or not, the same characters have one
lower case. It goes by bytes below and above 128: the former stay ASCII and are
lowered in one way (`LowAscii`), the latter stay apart (`LowUpper`). `AsciiFolds`
makes the order of ASCII strings that of `strcasecmp()`.

Facts that would be inductions over a sequence or a number, here and in
`AliasProofs`, `SessionProofs` and `ParserProofs`, are proved with a least
counterexample (`LeastExists`, from the well-foundedness of inclusion on finite
sets), since the library's induction theorems cannot be instantiated.

Only model-checked: liveness (`ReturnsToPrompt` beyond `NoDeadlock` and `LineEnds`,
`ExpansionEnds` beyond `UsesUp`), which TLAPS cannot prove under fairness. Every
safety property the passing runs check is a theorem.

## Not modelled

The prompt, which `setPrompt()` composes once, before the main loop, and only
`readline()` reads; line editing and history, a library: what `history_expand()`
makes of a line is another line a user could type, or an error, on which `run()`
does nothing. What `echo`, `pwd`, `alias` without arguments and error messages
print, so also a failing `getcwd()`, which prints NULL. Command substitution,
quotes and word splitting by `wordexp()`. Failures of `main()` before the loop
starts, and the clean-up at exit. In what is modelled: failures of `pipe()`,
`dup()`, `dup2()` and, in the queue, of `malloc()`; descriptor numbers and their
limit (a standard descriptor closed by accident is not taken up by the next
`open()`, and the copies that are never closed are not counted); the capacity of
pipes and SIGPIPE; reuse of pids; what the shell's handlers do in a child between
`fork()` and `execvp()`, beyond letting it survive; a second signal of a kind
already pending (it is lost, as in UNIX); what `printf()` in a handler may do to
`errno` or to its own buffers; a job of an earlier line that makes a file while a
line is read, between two calls of `wordexp()`; the first allocation of the hash
table failing.

## Plan

1. Descriptor numbers, so that the copies that are never closed can be counted.
2. What `fg_pid` names after an early return: behind a pipeline whose next command
   cannot open its file, a pid that may be reaped by then.
