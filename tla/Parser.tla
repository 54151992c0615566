------------------------------- MODULE Parser -------------------------------
(***************************************************************************)
(* parseInput() of src/src/parser.rl, as generated in src/src/parser.c: an *)
(* automaton reads a line and carries out the embedded actions, which      *)
(* build the queue of commands.  A behaviour is one call: the function     *)
(* keeps nothing from one call to the next.                                *)
(*                                                                         *)
(* A command's words are those wordexp() makes of its text after alias     *)
(* expansion; only the text is kept here.  wordexp() may fail on any text. *)
(***************************************************************************)
EXTENDS Grammar

CONSTANTS
  Letter,   (* the characters that are part of words                        *)
  Lines,    (* the lines a user may enter                                   *)
  BufSize   (* BUFSIZE                                                      *)

Conns   == {"none", "pipe", "bg", "seq"}
Char    == Letter \cup Special \cup {Space}

ASSUME ParserAssumption ==
  /\ Letter \cap (Special \cup {Space, Nul}) = {}
  /\ Lines \subseteq Seq(Char)
  /\ BufSize \in Nat \ {0}
  /\ Null \notin [conn : Conns] /\ Null \notin Seq(Char)

VARIABLES
  phase,    (* "scan", then "done" when the call has returned               *)
  line,     (* the argument; the NUL behind it is read, too                 *)
  p,        (* the number of characters read                                *)
  cs,       (* state of the automaton                                       *)
  todo,     (* the embedded actions the latest transition still has to do   *)
  buffer, stdin, stdout,  (* the three buffers of struct params             *)
  command,  (* the command being built                                      *)
  queue,    (* the commands inserted                                        *)
  aborted,  (* wordexp() failed: fbreak                                     *)
  made,     (* the number of commandNew()s                                  *)
  freed     (* the number of commands freed                                 *)

buffers == <<buffer, stdin, stdout>>
memory  == <<command, queue, made, freed>>
vars    == <<phase, line, p, cs, todo, buffers, memory, aborted>>

Text   == Seq(Char)
Buffer == {b \in Text : Len(b) <= BufSize}
Queued == [text : Text, in : Text \cup {Null}, out : Text \cup {Null},
           conn : Conns]

TypeOK ==
  /\ phase \in {"scan", "done"}
  /\ line \in Seq(Char)
  /\ p \in 0..(Len(line) + 1)
  /\ cs \in 0..15
  /\ todo \in Seq({"append", "append_in", "append_out", "new", "term",
                   "pipe", "bg", "seq"})
  /\ buffer \in Buffer /\ stdin \in Buffer /\ stdout \in Buffer
  /\ command \in {Null} \cup [conn : Conns]
  /\ queue \in Seq(Queued)
  /\ aborted \in BOOLEAN
  /\ made \in Nat /\ freed \in Nat

-----------------------------------------------------------------------------
(* The automaton: 1 is its start, 15 final, 0 the error.  A move is a      *)
(* state, a character, the next state and the actions on the way.          *)

Words  == {2, 7, 9, 11, 13}        \* in the text or in the name of a file
Ends   == Words \cup {3}           \* the command may end here
Fills(s) == CASE s = 2 -> "append"
              [] s \in {7, 13} -> "append_in"
              [] s \in {9, 11} -> "append_out"

Move(from, c, to, actions) == [from |-> from, c |-> c, to |-> to, do |-> actions]

Separators ==
       {Move(s, Nul, 15, <<"term">>) : s \in Ends \cup {1, 14}}
  \cup {Move(s, ";", 4, <<"seq">>)   : s \in Ends}
  \cup {Move(s, "|", 4, <<"pipe">>)  : s \in Ends}
  \cup {Move(s, "&", 3, <<"bg">>)    : s \in Words}

Redirections ==
  { Move(2, "<", 6, <<>>), Move(2, ">", 10, <<>>),
    Move(7, ">", 8, <<>>), Move(11, "<", 12, <<>>) }

\* Mutant: no command is made for a line that starts with a space.
SpacesWithoutNew ==
       {Move(s, Space, s, <<Fills(s)>>) : s \in Words}
  \cup {Move(s, Space, s, <<>>) : s \in {3, 5, 6, 8, 10, 12, 14}}
  \cup {Move(1, Space, 14, <<>>), Move(4, Space, 5, <<"term", "new">>)}

Spaces ==
       {Move(s, Space, s, <<Fills(s)>>) : s \in Words}
  \cup {Move(s, Space, s, <<>>) : s \in {3, 5, 6, 8, 10, 12, 14}}
  \cup {Move(1, Space, 14, <<"new">>), Move(4, Space, 5, <<"term", "new">>)}

\* The state behind 5 and 14 is 2; behind 6, 8, 10 and 12 the next one.
Letters ==
  UNION {{ Move(1, c, 2, <<"new", "append">>),
           Move(4, c, 2, <<"term", "new", "append">>),
           Move(5, c, 2, <<"append">>), Move(14, c, 2, <<"append">>) }
         \cup {Move(s, c, s, <<Fills(s)>>) : s \in Words}
         \cup {Move(s, c, s + 1, <<Fills(s + 1)>>) : s \in {6, 8, 10, 12}} :
           c \in Letter}

Moves == Separators \cup Redirections \cup Spaces \cup Letters

-----------------------------------------------------------------------------
(* Only buflen is initialised: the other buffers hold anything until new,  *)
(* of which nothing and one letter stand for all.                          *)

Garbage == {<<>>} \cup {<<c>> : c \in Letter}

Init ==
  /\ phase = "scan"
  /\ line \in Lines
  /\ p = 0 /\ cs = 1 /\ todo = <<>>
  /\ buffer = <<>> /\ stdin \in Garbage /\ stdout \in Garbage
  /\ command = Null /\ queue = <<>>
  /\ made = 0 /\ freed = 0
  /\ aborted = FALSE

fc == CharAt(line, p)              \* p has already moved past it

Over == aborted \/ cs = 0 \/ p = Len(line) + 1

\* _resume to _match: the next character chooses the move.
Scan ==
  /\ phase = "scan" /\ todo = <<>> /\ ~Over
  /\ \/ \E m \in Moves :
          /\ m.from = cs /\ m.c = CharAt(line, p + 1)
          /\ cs' = m.to
          /\ todo' = m.do
     \/ /\ \A m \in Moves : ~(m.from = cs /\ m.c = CharAt(line, p + 1))
        /\ cs' = 0
        /\ todo' = <<>>
  /\ p' = p + 1
  /\ UNCHANGED <<phase, line, buffers, memory, aborted>>

Doing(action) ==
  /\ phase = "scan" /\ todo # <<>> /\ Head(todo) = action
  /\ UNCHANGED <<phase, line, p, cs>>

\* Mutant: one character too many.
AppendedBeyond(b) == IF Len(b) <= BufSize THEN Append(b, fc) ELSE b

Appended(b) == IF Len(b) < BufSize THEN Append(b, fc) ELSE b

append ==
  /\ Doing("append")
  /\ todo' = Tail(todo)
  /\ buffer' = Appended(buffer)
  /\ UNCHANGED <<stdin, stdout, memory, aborted>>

append_in ==
  /\ Doing("append_in")
  /\ todo' = Tail(todo)
  /\ stdin' = Appended(stdin)
  /\ UNCHANGED <<buffer, stdout, memory, aborted>>

append_out ==
  /\ Doing("append_out")
  /\ todo' = Tail(todo)
  /\ stdout' = Appended(stdout)
  /\ UNCHANGED <<buffer, stdin, memory, aborted>>

\* Mutant: the buffers of the redirections are not emptied.
NewKeepsRedirections ==
  /\ Doing("new")
  /\ todo' = Tail(todo)
  /\ buffer' = <<>>
  /\ command' = [conn |-> "none"]
  /\ made' = made + 1
  /\ UNCHANGED <<stdin, stdout, queue, freed, aborted>>

new ==
  /\ Doing("new")
  /\ todo' = Tail(todo)
  /\ buffer' = <<>> /\ stdin' = <<>> /\ stdout' = <<>>
  /\ command' = [conn |-> "none"]
  /\ made' = made + 1
  /\ UNCHANGED <<queue, freed, aborted>>

\* expand() gives NULL for what is not exactly one word.
Expanded(b) == IF b = <<>> THEN {Null} ELSE {b, Null}

\* Mutant: the pointer to the inserted command is kept.
TermKeepsCommand ==
  /\ Doing("term")
  /\ buffer # <<>>
  /\ todo' = Tail(todo)
  /\ \E in \in Expanded(stdin), out \in Expanded(stdout) :
       queue' = Append(queue, [text |-> buffer, in |-> in, out |-> out,
                               conn |-> command.conn])
  /\ UNCHANGED <<command, buffers, made, freed, aborted>>

term ==
  /\ Doing("term")
  /\ buffer # <<>>
  /\ todo' = Tail(todo)
  /\ \E in \in Expanded(stdin), out \in Expanded(stdout) :
       queue' = Append(queue, [text |-> buffer, in |-> in, out |-> out,
                               conn |-> command.conn])
  /\ command' = Null
  /\ UNCHANGED <<buffers, made, freed, aborted>>

\* Mutant: the command is queued although wordexp() failed.
TermFailsAfterInsert ==
  /\ Doing("term")
  /\ buffer # <<>>
  /\ aborted' = TRUE
  /\ todo' = <<>>
  /\ queue' = Append(queue, [text |-> buffer, in |-> Null, out |-> Null,
                             conn |-> command.conn])
  /\ command' = Null
  /\ UNCHANGED <<buffers, made, freed>>

\* wordexp() fails: the rest of the line, this move's actions included, is
\* left alone.
term_fails ==
  /\ Doing("term")
  /\ buffer # <<>>
  /\ aborted' = TRUE
  /\ todo' = <<>>
  /\ UNCHANGED <<buffers, memory>>

term_empty ==
  /\ Doing("term")
  /\ buffer = <<>>
  /\ todo' = Tail(todo)
  /\ UNCHANGED <<buffers, memory, aborted>>

Connect(action, conn) ==
  /\ Doing(action)
  /\ todo' = Tail(todo)
  /\ command' = [conn |-> conn]
  /\ UNCHANGED <<buffers, queue, made, freed, aborted>>

pipe == Connect("pipe", "pipe")
bg   == Connect("bg", "bg")
seq  == Connect("seq", IF command.conn = "bg" THEN "bg" ELSE "seq")

\* Behind the automaton: an error discards the queue, and what was being
\* built is freed.
Return ==
  /\ phase = "scan" /\ todo = <<>> /\ Over
  /\ phase' = "done"
  /\ queue' = IF cs = 0 THEN <<>> ELSE queue
  /\ freed' = freed + (IF cs = 0 THEN Len(queue) ELSE 0)
                    + (IF command = Null THEN 0 ELSE 1)
  /\ command' = Null
  /\ UNCHANGED <<line, p, cs, todo, buffers, made, aborted>>

Next ==
  \/ Scan
  \/ append \/ append_in \/ append_out
  \/ new
  \/ term \/ term_fails \/ term_empty
  \/ pipe \/ bg \/ seq
  \/ Return

Spec == Init /\ [][Next]_vars

-----------------------------------------------------------------------------
(* Every command made is in the queue, or being built, or freed, and only  *)
(* one of these: none is lost when a new one starts, at an error or when   *)
(* wordexp() fails, and none is freed that was queued (src/src/parser.rl,  *)
(* lines 73, 90-91 and 133-140).                                           *)
OwnedOnce == made = Len(queue) + freed + (IF command = Null THEN 0 ELSE 1)

(* An action that uses command finds one: pipe, bg, seq and a term with a  *)
(* text are reached only behind a new (src/src/parser.rl, lines 85-101).   *)
CommandThere ==
  todo # <<>> =>
    /\ Head(todo) \in {"pipe", "bg", "seq"} => command # Null
    /\ Head(todo) = "term" /\ buffer # <<>> => command # Null

-----------------------------------------------------------------------------
Cut(s) == IF s = Null THEN Null
          ELSE SubSeq(s, 1, IF Len(s) < BufSize THEN Len(s) ELSE BufSize)

\* An entry of the queue is what the grammar says, as far as the buffers
\* reach; a redirection that expand() does not take is dropped.
Means(q, c) ==
  /\ q.text = Cut(c.text) /\ q.conn = c.conn
  /\ q.in \in {Cut(c.in), Null}
  /\ q.out \in {Cut(c.out), Null}

\* The queue holds commands of the line, each at its place.
Holds(l, q) ==
  \A a \in Starts(l) :
    Number(l, a) <= Len(q) => Means(q[Number(l, a)], Meaning(l, a))

(* parseInput() queues the commands of a line of the grammar, each with    *)
(* its own text, redirections and connection, and nothing of another line  *)
(* (src/src/parser.rl, lines 103-141).                                     *)
Parsed ==
  phase = "done" /\ ~aborted =>
    IF Accepted(line) THEN Len(queue) = Count(line) /\ Holds(line, queue)
    ELSE queue = <<>>

(* When wordexp() fails, the queue holds the commands in front of the one  *)
(* it failed on, complete and in order (src/src/parser.rl, lines 79-83).   *)
PrefixKept ==
  phase = "done" /\ aborted => Len(queue) < Count(line) /\ Holds(line, queue)
=============================================================================
