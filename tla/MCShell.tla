------------------------------ MODULE MCShell -------------------------------
(* Command lines for TLC, each a set small enough to ask one question.     *)
EXTENDS Shell

Plain(c, g) == [conn |-> c, prog |-> g, in |-> FALSE, out |-> FALSE]
Into(c, g)  == [conn |-> c, prog |-> g, in |-> FALSE, out |-> TRUE]
From(c, g)  == [conn |-> c, prog |-> g, in |-> TRUE, out |-> FALSE]

\* Single commands in sequence, each with redirections of its own.
SequentialLines ==
  { <<Into("seq", "src"), From("seq", "filter"), Plain("none", "src")>>,
    <<From("seq", "src"), Into("none", "server")>>,
    <<Into("seq", "src"), Plain("none", "builtin")>>,
    <<Into("seq", "builtin"), Plain("seq", "filter")>> }

\* Everything a user may mix, what leaves the shell early included.
SessionLines == SequentialLines \cup
  { <<Plain("bg", "src")>>,                                  \* a &
    <<Into("none", "builtin")>>,                             \* echo > f
    <<Plain("none", "exit")>>,                               \* exit
    <<Plain("pipe", "src")>>,                                \* a | `
    <<From("pipe", "src"), Into("none", "filter")>>,         \* a < f | b > g
    <<Plain("seq", "builtin"), Plain("none", "src")>>,       \* echo ; b
    <<Plain("pipe", "src"), Plain("bg", "server")>>,         \* a | b &
    <<Plain("pipe", "src"), Plain("pipe", "filter"),
      Plain("none", "filter")>>,                             \* a | b | c
    <<Plain("seq", "src"), Plain("pipe", "src"),
      Plain("none", "filter")>>,                             \* a ; b | c
    <<Plain("pipe", "server"), Plain("bg", "filter"),
      Plain("none", "src")>>                                 \* a | b & c
  }

\* Programs that end, and pipelines with nothing after them.
ProgressLines ==
  { <<Plain("bg", "src")>>,
    <<Plain("seq", "src"), Plain("none", "src")>>,
    <<Plain("pipe", "src"), Plain("none", "filter")>>,
    <<Plain("pipe", "src"), Plain("bg", "filter")>>,
    <<Plain("pipe", "src"), Plain("pipe", "filter"), Plain("none", "filter")>>,
    <<Plain("seq", "src"), Plain("pipe", "src"), Plain("none", "filter")>>,
    <<Plain("none", "exit")>> }

\* A pipeline with one more command on the line: a | b ; c.
PipeThenMore ==
  { <<Plain("pipe", "src"), Plain("seq", "filter"), Plain("none", "src")>> }

\* A background job, then a command in the foreground: a & and b.
JobThenCommand == { <<Plain("bg", "src")>>, <<Plain("none", "server")>> }

\* echo > f
BuiltinIntoFile == { <<Into("none", "builtin")>> }
=============================================================================
