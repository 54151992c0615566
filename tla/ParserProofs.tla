---------------------------- MODULE ParserProofs ----------------------------
(***************************************************************************)
(* Theorems about Parser, for any lines and any size of the buffers.       *)
(*                                                                         *)
(* The embedded actions use a command only where there is one, and none is *)
(* lost or freed twice: IInv says what each state of the automaton, with   *)
(* the actions still to do, knows about the command.                       *)
(*                                                                         *)
(* parseInput() queues what the grammar says: Follows relates each state   *)
(* of the automaton to the command of the line it is in, by the places of  *)
(* the marks read so far, and each buffer to the part read of its field.   *)
(***************************************************************************)
EXTENDS Parser, Integers, FiniteSetTheorems, SequenceTheorems,
        WellFoundedInduction, TLAPS

Texted == command # Null /\ buffer # <<>>

\* The states behind the first letter of a command's text.
InText == {2, 3, 4, 6, 7, 8, 9, 10, 11, 12, 13}

\* What holds at each point of the automaton, given by its state and the
\* actions still to do.
Stage ==
  \/ todo = <<>> /\ cs = 1 /\ command = Null /\ buffer = <<>>
  \/ todo = <<>> /\ cs \in InText /\ Texted
  \/ todo = <<>> /\ cs \in {5, 14} /\ command # Null
  \/ todo = <<>> /\ cs \in {0, 15}
  \/ todo = <<"new">> /\ cs \in {5, 14} /\ command = Null
  \/ todo = <<"new", "append">> /\ cs = 2 /\ command = Null
  \/ todo = <<"append">> /\ cs = 2 /\ command # Null
  \/ todo \in {<<"append_in">>, <<"append_out">>, <<"pipe">>, <<"bg">>, <<"seq">>}
       /\ cs \in InText /\ Texted
  \/ todo = <<"term", "new">> /\ cs = 5 /\ Texted
  \/ todo = <<"term", "new", "append">> /\ cs = 2 /\ Texted
  \/ todo = <<"term">> /\ cs = 15 /\ (buffer # <<>> => command # Null)

Stages  == phase = "scan" => (aborted /\ todo = <<>>) \/ (~aborted /\ Stage)
\* Where something may be appended, the latest character is one of the line:
\* the NUL leads to state 15 or to the error.
InLine  == cs \notin {0, 15} => p <= Len(line) /\ (cs # 1 => p # 0)
Stopped == phase = "done" => todo = <<>> /\ command = Null

IInv == TypeOK /\ Stages /\ InLine /\ Stopped /\ OwnedOnce

-----------------------------------------------------------------------------
\* Where each buffer is filled.
LEMMA WordFills ==
  ASSUME NEW s \in Words
  PROVE  \/ s = 2 /\ <<Fills(s)>> = <<"append">>
         \/ s \in InText /\ <<Fills(s)>> \in {<<"append_in">>, <<"append_out">>}
BY DEF Words, Fills, InText

\* The moves, by what they start from and where they lead.
Leads(s, c, t, do) ==
  \/ c = Nul /\ t = 15 /\ do = <<"term">> /\ s \in Ends \cup {1, 14}
  \/ c = ";" /\ t = 4 /\ do = <<"seq">> /\ s \in Ends
  \/ c = "|" /\ t = 4 /\ do = <<"pipe">> /\ s \in Ends
  \/ c = "&" /\ t = 3 /\ do = <<"bg">> /\ s \in Words
  \/ c = "<" /\ do = <<>> /\ s = 2 /\ t = 6
  \/ c = "<" /\ do = <<>> /\ s = 11 /\ t = 12
  \/ c = ">" /\ do = <<>> /\ s = 2 /\ t = 10
  \/ c = ">" /\ do = <<>> /\ s = 7 /\ t = 8
  \/ c = Space /\ do = <<"new">> /\ s = 1 /\ t = 14
  \/ c = Space /\ do = <<"term", "new">> /\ s = 4 /\ t = 5
  \/ c \in Letter /\ do = <<"new", "append">> /\ s = 1 /\ t = 2
  \/ c \in Letter /\ do = <<"term", "new", "append">> /\ s = 4 /\ t = 2
  \/ c \in Letter \cup {Space} /\ s \in Words /\ t = s /\ do = <<Fills(t)>>
  \/ c = Space /\ s \in {3, 5, 6, 8, 10, 12, 14} /\ t = s /\ do = <<>>
  \/ c \in Letter /\ s \in {5, 14} /\ t = 2 /\ do = <<Fills(t)>>
  \/ c \in Letter /\ s \in {6, 8, 10, 12} /\ t = s + 1 /\ do = <<Fills(t)>>

\* Every move of the tables is one of these.
LEMMA MoveLeads ==
  ASSUME NEW m \in Moves
  PROVE  Leads(m.from, m.c, m.to, m.do)
<1>1. ASSUME NEW s, NEW c, NEW t, NEW do, m = Move(s, c, t, do), Leads(s, c, t, do)
      PROVE  Leads(m.from, m.c, m.to, m.do)
  <2>1. m.from = s /\ m.c = c /\ m.to = t /\ m.do = do
    BY <1>1 DEF Move
  <2> QED
    BY <1>1, <2>1
<1>2. \E s, c, t, do : m = Move(s, c, t, do) /\ Leads(s, c, t, do)
  <2>1. CASE m \in Separators
    <3>1. /\ \A s \in Ends \cup {1, 14} : Leads(s, Nul, 15, <<"term">>)
          /\ \A s \in Ends : Leads(s, ";", 4, <<"seq">>)
          /\ \A s \in Ends : Leads(s, "|", 4, <<"pipe">>)
          /\ \A s \in Words : Leads(s, "&", 3, <<"bg">>)
      BY Zenon DEF Leads
    <3> QED
      BY <2>1, <3>1, Zenon DEF Separators
  <2>2. CASE m \in Redirections
    <3>1. /\ Leads(2, "<", 6, <<>>) /\ Leads(2, ">", 10, <<>>)
          /\ Leads(7, ">", 8, <<>>) /\ Leads(11, "<", 12, <<>>)
      BY Zenon DEF Leads
    <3> QED
      BY <2>2, <3>1, Zenon DEF Redirections
  <2>3. CASE m \in Spaces
    <3>1. /\ \A s \in Words : Leads(s, Space, s, <<Fills(s)>>)
          /\ \A s \in {3, 5, 6, 8, 10, 12, 14} : Leads(s, Space, s, <<>>)
          /\ Leads(1, Space, 14, <<"new">>) /\ Leads(4, Space, 5, <<"term", "new">>)
      BY DEF Leads
    <3> QED
      BY <2>3, <3>1, Zenon DEF Spaces
  <2>4. CASE m \in Letters
    <3>1. Fills(2) = "append"
      BY DEF Fills
    <3>2. ASSUME NEW c \in Letter
          PROVE  /\ Leads(1, c, 2, <<"new", "append">>)
                 /\ Leads(4, c, 2, <<"term", "new", "append">>)
                 /\ Leads(5, c, 2, <<"append">>) /\ Leads(14, c, 2, <<"append">>)
                 /\ \A s \in Words : Leads(s, c, s, <<Fills(s)>>)
                 /\ \A s \in {6, 8, 10, 12} : Leads(s, c, s + 1, <<Fills(s + 1)>>)
      BY <3>1 DEF Leads
    <3>3. PICK c \in Letter :
            \/ m = Move(1, c, 2, <<"new", "append">>)
            \/ m = Move(4, c, 2, <<"term", "new", "append">>)
            \/ m = Move(5, c, 2, <<"append">>)
            \/ m = Move(14, c, 2, <<"append">>)
            \/ \E s \in Words : m = Move(s, c, s, <<Fills(s)>>)
            \/ \E s \in {6, 8, 10, 12} : m = Move(s, c, s + 1, <<Fills(s + 1)>>)
      BY <2>4 DEF Letters
    <3> QED
      BY <3>2, <3>3, Zenon
  <2> QED
    BY <2>1, <2>2, <2>3, <2>4 DEF Moves
<1> QED
  BY <1>1, <1>2

\* The stages a move leads to.
LEMMA LeadsStages ==
  ASSUME NEW s, NEW c, NEW t, NEW do, Leads(s, c, t, do)
  PROVE  \/ do = <<>> /\ s \in InText /\ t \in InText
         \/ do = <<>> /\ s \in {5, 14} /\ t = s
         \/ do = <<"new">> /\ s = 1 /\ t = 14
         \/ do = <<"new", "append">> /\ s = 1 /\ t = 2
         \/ do = <<"append">> /\ s \in {2, 5, 14} /\ t = 2
         \/ /\ do \in {<<"append_in">>, <<"append_out">>, <<"pipe">>, <<"bg">>,
                         <<"seq">>}
            /\ s \in InText /\ t \in InText
         \/ do = <<"term", "new">> /\ s = 4 /\ t = 5
         \/ do = <<"term", "new", "append">> /\ s = 4 /\ t = 2
         \/ do = <<"term">> /\ s \in InText \cup {1, 14} /\ t = 15
<1>1. CASE s \in Words /\ t = s /\ do = <<Fills(t)>>
  BY <1>1, WordFills
<1>2. CASE do = <<Fills(t)>> /\ s \in {5, 14} /\ t = 2
  BY <1>2 DEF Fills
<1>3. CASE do = <<Fills(t)>> /\ s \in {6, 8, 10, 12} /\ t = s + 1
  <2>1. t \in Words /\ t # 2 /\ s \in InText
    BY <1>3 DEF Words, InText
  <2> QED
    BY <1>3, <2>1, WordFills
<1>4. /\ \A e \in Ends : e \in InText
      /\ \A e \in Words : e \in InText
      /\ {2, 3, 4, 6, 7, 8, 9, 10, 11, 12, 13} \subseteq InText
      /\ \A e \in {3, 6, 8, 10, 12, 5, 14} : e \in InText \/ e \in {5, 14}
  BY DEF Ends, Words, InText
<1> DEFINE Led == \/ do = <<>> /\ s \in InText /\ t \in InText
                  \/ do = <<>> /\ s \in {5, 14} /\ t = s
                  \/ do = <<"new">> /\ s = 1 /\ t = 14
                  \/ do = <<"new", "append">> /\ s = 1 /\ t = 2
                  \/ do = <<"append">> /\ s \in {2, 5, 14} /\ t = 2
                  \/ /\ do \in {<<"append_in">>, <<"append_out">>, <<"pipe">>,
                                 <<"bg">>, <<"seq">>}
                     /\ s \in InText /\ t \in InText
                  \/ do = <<"term", "new">> /\ s = 4 /\ t = 5
                  \/ do = <<"term", "new", "append">> /\ s = 4 /\ t = 2
                  \/ do = <<"term">> /\ s \in InText \cup {1, 14} /\ t = 15
<1>5. (s \in Ends => s \in InText) /\ (s \in Words => s \in InText)
  BY <1>4
<1>6. CASE do = <<"term">> /\ s \in Ends \cup {1, 14} /\ t = 15
  BY <1>5, <1>6
<1>7. CASE (do = <<"seq">> \/ do = <<"pipe">>) /\ s \in Ends /\ t = 4
  BY <1>4, <1>5, <1>7
<1>8. CASE do = <<"bg">> /\ s \in Words /\ t = 3
  BY <1>4, <1>5, <1>8
<1>9. CASE do = <<>> /\ s \in {2, 7, 11} /\ t \in {6, 8, 10, 12}
  BY <1>4, <1>9
<1>10. CASE do = <<>> /\ s \in {3, 5, 6, 8, 10, 12, 14} /\ t = s
  BY <1>4, <1>10
<1>11. CASE \/ s = 1 /\ do = <<"new">> /\ t = 14
            \/ s = 1 /\ do = <<"new", "append">> /\ t = 2
  BY <1>11
<1>12. CASE \/ s = 4 /\ do = <<"term", "new">> /\ t = 5
            \/ s = 4 /\ do = <<"term", "new", "append">> /\ t = 2
  BY <1>12
<1> DEFINE Way == \/ Led
                  \/ s \in Words /\ t = s /\ do = <<Fills(t)>>
                  \/ do = <<Fills(t)>> /\ s \in {5, 14} /\ t = 2
                  \/ do = <<Fills(t)>> /\ s \in {6, 8, 10, 12} /\ t = s + 1
<1>13. Way
  <2>1. /\ 2 \in {2, 7, 11} /\ 7 \in {2, 7, 11} /\ 11 \in {2, 7, 11}
        /\ 6 \in {6, 8, 10, 12} /\ 8 \in {6, 8, 10, 12}
        /\ 10 \in {6, 8, 10, 12} /\ 12 \in {6, 8, 10, 12}
    OBVIOUS
  <2> QED
    <3>1. CASE \/ c = Nul /\ t = 15 /\ do = <<"term">> /\ s \in Ends \cup {1, 14}
               \/ c = ";" /\ t = 4 /\ do = <<"seq">> /\ s \in Ends
               \/ c = "|" /\ t = 4 /\ do = <<"pipe">> /\ s \in Ends
               \/ c = "&" /\ t = 3 /\ do = <<"bg">> /\ s \in Words
      BY <1>6, <1>7, <1>8, <3>1, Zenon
    <3>2. CASE \/ c = "<" /\ do = <<>> /\ s = 2 /\ t = 6
               \/ c = "<" /\ do = <<>> /\ s = 11 /\ t = 12
               \/ c = ">" /\ do = <<>> /\ s = 2 /\ t = 10
               \/ c = ">" /\ do = <<>> /\ s = 7 /\ t = 8
      BY <1>9, <2>1, <3>2, Zenon
    <3>3. CASE \/ c = Space /\ do = <<"new">> /\ s = 1 /\ t = 14
               \/ c = Space /\ do = <<"term", "new">> /\ s = 4 /\ t = 5
               \/ c \in Letter /\ do = <<"new", "append">> /\ s = 1 /\ t = 2
               \/ c \in Letter /\ do = <<"term", "new", "append">> /\ s = 4 /\ t = 2
      BY <1>11, <1>12, <3>3, Zenon
    <3>4. CASE \/ c \in Letter \cup {Space} /\ s \in Words /\ t = s /\ do = <<Fills(t)>>
               \/ c = Space /\ s \in {3, 5, 6, 8, 10, 12, 14} /\ t = s /\ do = <<>>
               \/ c \in Letter /\ s \in {5, 14} /\ t = 2 /\ do = <<Fills(t)>>
               \/ c \in Letter /\ s \in {6, 8, 10, 12} /\ t = s + 1 /\ do = <<Fills(t)>>
      BY <1>10, <3>4, Zenon
    <3> HIDE DEF Way
    <3> QED
      BY <3>1, <3>2, <3>3, <3>4, Zenon DEF Leads
<1>14. Led
  <2> HIDE DEF Led
  <2>1. CASE s \in Words /\ t = s /\ do = <<Fills(t)>>
    BY <1>1, <2>1, Zenon DEF Led
  <2>2. CASE do = <<Fills(t)>> /\ s \in {5, 14} /\ t = 2
    BY <1>2, <2>2, Zenon DEF Led
  <2>3. CASE do = <<Fills(t)>> /\ s \in {6, 8, 10, 12} /\ t = s + 1
    BY <1>3, <2>3, Zenon DEF Led
  <2> QED
    BY <1>13, <2>1, <2>2, <2>3
<1> QED
  BY <1>14, Zenon

\* The NUL leads to the final state only; the actions are known ones.
LEMMA LeadsInLine ==
  ASSUME NEW s, NEW c, NEW t, NEW do, Leads(s, c, t, do)
  PROVE  /\ t \in 0..15
         /\ c = Nul => t = 15
         /\ do \in Seq({"append", "append_in", "append_out", "new", "term",
                         "pipe", "bg", "seq"})
<1>1. t \in 0..15
  BY LeadsStages DEF InText
<1>2. do \in Seq({"append", "append_in", "append_out", "new", "term",
                    "pipe", "bg", "seq"})
  <2> DEFINE S == {"append", "append_in", "append_out", "new", "term",
                   "pipe", "bg", "seq"}
  <2>1. \A T : \A a, b, d \in T :
          /\ <<>> \in Seq(T) /\ <<a>> \in Seq(T) /\ <<a, b>> \in Seq(T)
          /\ <<a, b, d>> \in Seq(T)
    OBVIOUS
  <2>3. /\ "append" \in S /\ "append_in" \in S /\ "append_out" \in S /\ "new" \in S
        /\ "term" \in S /\ "pipe" \in S /\ "bg" \in S /\ "seq" \in S
    OBVIOUS
  <2>2. do \in {<<>>, <<"new">>, <<"new", "append">>, <<"append">>, <<"append_in">>,
                <<"append_out">>, <<"pipe">>, <<"bg">>, <<"seq">>, <<"term", "new">>,
                <<"term", "new", "append">>, <<"term">>}
    BY LeadsStages
  <2> HIDE DEF S
  <2>4. /\ <<>> \in Seq(S) /\ <<"append">> \in Seq(S) /\ <<"append_in">> \in Seq(S)
        /\ <<"append_out">> \in Seq(S) /\ <<"new">> \in Seq(S)
        /\ <<"term">> \in Seq(S) /\ <<"pipe">> \in Seq(S) /\ <<"bg">> \in Seq(S)
        /\ <<"seq">> \in Seq(S)
    BY <2>1, <2>3, Zenon
  <2>5. /\ <<"new", "append">> \in Seq(S) /\ <<"term", "new">> \in Seq(S)
        /\ <<"term", "new", "append">> \in Seq(S)
    BY <2>1, <2>3, Zenon
  <2>6. do \in Seq(S)
    BY <2>2, <2>4, <2>5, Zenon
  <2> QED
    BY <2>6 DEF S
<1>3. c = Nul => t = 15
  <2>1. Nul \notin Letter /\ Nul \notin {";", "|", "&", "<", ">", Space}
    BY ParserAssumption DEF Nul, Space
  <2> QED
    BY <2>1 DEF Leads
<1> QED
  BY <1>1, <1>2, <1>3

-----------------------------------------------------------------------------
(* The invariant, one lemma per action.                                    *)

LEMMA InitIInv == Init => IInv
<1> SUFFICES ASSUME Init PROVE IInv
  OBVIOUS
<1>1. TypeOK
  <2>1. Garbage \subseteq Buffer
    <3>1. \A c \in Char : <<c>> \in Seq(Char) /\ Len(<<c>>) = 1
      OBVIOUS
    <3>2. Letter \subseteq Char /\ BufSize \in Nat /\ BufSize >= 1
      <4>1. Letter \subseteq Char
        BY DEF Char
      <4>2. BufSize \in Nat \ {0}
        BY ParserAssumption
      <4> QED
        BY <4>1, <4>2
    <3>3. <<>> \in Buffer
      BY <3>2 DEF Buffer, Text
    <3>4. ASSUME NEW c \in Letter PROVE <<c>> \in Buffer
      BY <3>1, <3>2 DEF Buffer, Text
    <3> QED
      BY <3>3, <3>4 DEF Garbage
  <2>2. <<>> \in Buffer /\ line \in Seq(Char)
    BY <2>1, ParserAssumption DEF Init, Garbage
  <2>3. Len(line) \in Nat
    BY <2>2
  <2>4. /\ p \in 0..(Len(line) + 1) /\ cs \in 0..15
        /\ todo \in Seq({"append", "append_in", "append_out", "new", "term",
                         "pipe", "bg", "seq"})
        /\ queue \in Seq(Queued) /\ made \in Nat /\ freed \in Nat
    BY <2>3 DEF Init
  <2> QED
    BY <2>1, <2>2, <2>4 DEF Init, TypeOK
<1>2. Stages /\ InLine /\ Stopped /\ OwnedOnce
  BY <1>1 DEF Init, TypeOK, Stages, Stage, InLine, Stopped, OwnedOnce
<1> QED
  BY <1>1, <1>2 DEF IInv

\* Scan, from what it finds.
LEMMA Scanned ==
  ASSUME Scan
  PROVE  \/ /\ cs' = 0 /\ todo' = <<>>
            /\ \A m \in Moves : ~(m.from = cs /\ m.c = CharAt(line, p + 1))
         \/ Leads(cs, CharAt(line, p + 1), cs', todo')
BY MoveLeads DEF Scan

\* A character read leads from stage to stage.
LEMMA ScanIInv ==
  ASSUME IInv, Scan
  PROVE  IInv'
<1>1. /\ phase = "scan" /\ phase' = "scan" /\ todo = <<>> /\ ~aborted /\ cs # 0
      /\ p # Len(line) + 1 /\ p \in 0..(Len(line) + 1) /\ p' = p + 1
      /\ UNCHANGED <<line, buffers, memory, aborted>>
  BY DEF Scan, Over, IInv, TypeOK
<1>2. Stage
  BY <1>1 DEF IInv, Stages
<1>3. cs # 15 => p <= Len(line)
  BY <1>1 DEF IInv, InLine
<1>4. CASE cs' = 0 /\ todo' = <<>>
  <2>1. TypeOK'
    BY <1>1, <1>4 DEF IInv, TypeOK, buffers, memory
  <2> QED
    BY <1>1, <1>4, <2>1
       DEF IInv, Stages, Stage, InLine, Stopped, OwnedOnce, memory
<1>5. CASE Leads(cs, CharAt(line, p + 1), cs', todo')
  <2>1. TypeOK'
    BY <1>1, <1>5, LeadsInLine DEF IInv, TypeOK, buffers, memory
  <2>2. InLine'
    BY <1>1, <1>5, LeadsInLine DEF CharAt, InLine
  <2>3. Stage'
    <3>1. \/ cs = 1 /\ command = Null /\ buffer = <<>>
          \/ cs \in InText /\ Texted
          \/ cs \in {5, 14} /\ command # Null
          \/ cs \in {0, 15}
      BY <1>1, <1>2 DEF Stage
    <3>2. command' = command /\ buffer' = buffer /\ (Texted' <=> Texted)
      BY <1>1 DEF memory, buffers, Texted
    <3> QED
      BY <3>1, <3>2, <1>5, LeadsStages DEF Stage, InText, Texted
  <2> QED
    BY <1>1, <2>1, <2>2, <2>3 DEF IInv, Stages, Stopped, OwnedOnce, memory
<1> QED
  BY <1>4, <1>5, Scanned

\* What every embedded action finds.
LEMMA Found ==
  ASSUME IInv, NEW a, Doing(a)
  PROVE  /\ phase = "scan" /\ phase' = "scan" /\ ~aborted
         /\ todo # <<>> /\ Head(todo) = a /\ Stage
         /\ UNCHANGED <<line, p, cs>>
         /\ Tail(todo) \in Seq({"append", "append_in", "append_out", "new",
                                "term", "pipe", "bg", "seq"})
<1>1. /\ phase = "scan" /\ phase' = "scan" /\ todo # <<>> /\ Head(todo) = a
      /\ UNCHANGED <<line, p, cs>>
  BY DEF Doing
<1>2. ~aborted /\ Stage
  BY <1>1 DEF IInv, Stages
<1>3. Tail(todo) \in Seq({"append", "append_in", "append_out", "new", "term",
                         "pipe", "bg", "seq"})
  BY <1>1 DEF IInv, TypeOK
<1> QED
  BY <1>1, <1>2, <1>3

\* Where each embedded action stands, and what is left to do behind it.
LEMMA Places ==
  ASSUME IInv, NEW a, todo # <<>>, Head(todo) = a
  PROVE  /\ a = "append" => /\ todo = <<"append">> /\ Tail(todo) = <<>>
                            /\ cs = 2 /\ command # Null
         /\ a \in {"append_in", "append_out", "pipe", "bg", "seq"} =>
              Tail(todo) = <<>> /\ cs \in InText /\ Texted
         /\ a = "new" =>
              /\ command = Null
              /\ \/ Tail(todo) = <<>> /\ cs \in {5, 14}
                 \/ Tail(todo) = <<"append">> /\ cs = 2
         /\ a = "term" =>
              \/ Tail(todo) = <<"new">> /\ cs = 5 /\ Texted
              \/ Tail(todo) = <<"new", "append">> /\ cs = 2 /\ Texted
              \/ /\ Tail(todo) = <<>> /\ cs = 15
                 /\ buffer # <<>> => command # Null
<1>1. todo # <<>> /\ Head(todo) = a /\ Stage
  BY DEF IInv, TypeOK, Stages, Stopped
<1>2. /\ \A x : Head(<<x>>) = x /\ Tail(<<x>>) = <<>>
      /\ \A x, y : Head(<<x, y>>) = x /\ Tail(<<x, y>>) = <<y>>
      /\ \A x, y, z : Head(<<x, y, z>>) = x /\ Tail(<<x, y, z>>) = <<y, z>>
  OBVIOUS
<1>3. \/ /\ a = "append" /\ todo = <<"append">> /\ Tail(todo) = <<>>
         /\ cs = 2 /\ command # Null
      \/ /\ a \in {"append_in", "append_out", "pipe", "bg", "seq"}
         /\ Tail(todo) = <<>> /\ cs \in InText /\ Texted
      \/ a = "new" /\ Tail(todo) = <<>> /\ cs \in {5, 14} /\ command = Null
      \/ a = "new" /\ Tail(todo) = <<"append">> /\ cs = 2 /\ command = Null
      \/ a = "term" /\ Tail(todo) = <<"new">> /\ cs = 5 /\ Texted
      \/ a = "term" /\ Tail(todo) = <<"new", "append">> /\ cs = 2 /\ Texted
      \/ /\ a = "term" /\ Tail(todo) = <<>> /\ cs = 15
         /\ buffer # <<>> => command # Null
  <2>1. CASE todo = <<"new">> /\ cs \in {5, 14} /\ command = Null
    BY <1>1, <1>2, <2>1
  <2>2. CASE todo = <<"new", "append">> /\ cs = 2 /\ command = Null
    BY <1>1, <1>2, <2>2
  <2>3. CASE todo = <<"append">> /\ cs = 2 /\ command # Null
    BY <1>1, <1>2, <2>3
  <2>4. CASE /\ todo \in {<<"append_in">>, <<"append_out">>, <<"pipe">>, <<"bg">>,
                          <<"seq">>}
             /\ cs \in InText /\ Texted
    <3>1. PICK x \in {"append_in", "append_out", "pipe", "bg", "seq"} :
            todo = <<x>>
      BY <2>4
    <3>2. Head(todo) = x /\ Tail(todo) = <<>>
      BY <1>2, <3>1
    <3> QED
      BY <1>1, <2>4, <3>2
  <2>5. CASE todo = <<"term", "new">> /\ cs = 5 /\ Texted
    BY <1>1, <1>2, <2>5
  <2>6. CASE todo = <<"term", "new", "append">> /\ cs = 2 /\ Texted
    BY <1>1, <1>2, <2>6
  <2>7. CASE todo = <<"term">> /\ cs = 15 /\ (buffer # <<>> => command # Null)
    BY <1>1, <1>2, <2>7
  <2> QED
    BY <1>1, <2>1, <2>2, <2>3, <2>4, <2>5, <2>6, <2>7 DEF Stage
<1> QED
  BY <1>1, <1>3

\* What is appended to never overruns, and is not empty then.
LEMMA AppendedBuffer ==
  ASSUME IInv, cs \notin {0, 1, 15}, NEW b \in Buffer
  PROVE  Appended(b) \in Buffer /\ Appended(b) # <<>>
<1>1. p \in 1..Len(line) /\ line \in Seq(Char)
  BY DEF IInv, TypeOK, InLine
<1>2. fc \in Char
  BY <1>1 DEF fc, CharAt
<1>3. b \in Seq(Char) /\ Len(b) \in Nat /\ Len(b) <= BufSize
  BY DEF Buffer, Text
<1>4. BufSize \in Nat \ {0}
  BY ParserAssumption
<1>5. CASE Len(b) < BufSize
  <2>1. Append(b, fc) \in Seq(Char) /\ Len(Append(b, fc)) = Len(b) + 1
    BY <1>2, <1>3
  <2>2. Append(b, fc) # <<>>
    BY <1>3, <2>1
  <2> QED
    BY <1>3, <1>4, <1>5, <2>1, <2>2 DEF Appended, Buffer, Text
<1>6. CASE ~(Len(b) < BufSize)
  BY <1>3, <1>4, <1>6 DEF Appended, Buffer, Text
<1> QED
  BY <1>5, <1>6

\* One lemma for each embedded action, and one for the end.
LEMMA AppendIInv ==
  ASSUME IInv, append
  PROVE  IInv'
<1>1. Doing("append") /\ UNCHANGED <<stdin, stdout, memory, aborted>>
      /\ todo' = Tail(todo) /\ buffer' = Appended(buffer)
  BY DEF append
<1>2. /\ Tail(todo) = <<>> /\ cs = 2 /\ command # Null
  BY <1>1, Found, Places
<1>3. Appended(buffer) \in Buffer /\ Appended(buffer) # <<>>
  BY <1>2, AppendedBuffer DEF IInv, TypeOK
<1>4. TypeOK'
  BY <1>1, <1>3, Found DEF IInv, TypeOK, memory
<1>5. Stage'
  BY <1>1, <1>2, <1>3, Found DEF Stage, InText, Texted, memory
<1> QED
  BY <1>1, <1>4, <1>5, Found
     DEF IInv, Stages, InLine, Stopped, OwnedOnce, memory

LEMMA AppendInIInv ==
  ASSUME IInv, append_in
  PROVE  IInv'
<1>1. Doing("append_in") /\ UNCHANGED <<buffer, stdout, memory, aborted>>
      /\ todo' = Tail(todo) /\ stdin' = Appended(stdin)
  BY DEF append_in
<1>2. Tail(todo) = <<>> /\ cs \in InText /\ Texted
  BY <1>1, Found, Places
<1>3. Appended(stdin) \in Buffer
  BY <1>2, AppendedBuffer DEF IInv, TypeOK, InText
<1>4. TypeOK'
  BY <1>1, <1>3, Found DEF IInv, TypeOK, memory
<1>5. Stage'
  BY <1>1, <1>2, Found DEF Stage, Texted, memory
<1> QED
  BY <1>1, <1>4, <1>5, Found
     DEF IInv, Stages, InLine, Stopped, OwnedOnce, memory

LEMMA AppendOutIInv ==
  ASSUME IInv, append_out
  PROVE  IInv'
<1>1. Doing("append_out") /\ UNCHANGED <<buffer, stdin, memory, aborted>>
      /\ todo' = Tail(todo) /\ stdout' = Appended(stdout)
  BY DEF append_out
<1>2. Tail(todo) = <<>> /\ cs \in InText /\ Texted
  BY <1>1, Found, Places
<1>3. Appended(stdout) \in Buffer
  BY <1>2, AppendedBuffer DEF IInv, TypeOK, InText
<1>4. TypeOK'
  BY <1>1, <1>3, Found DEF IInv, TypeOK, memory
<1>5. Stage'
  BY <1>1, <1>2, Found DEF Stage, Texted, memory
<1> QED
  BY <1>1, <1>4, <1>5, Found
     DEF IInv, Stages, InLine, Stopped, OwnedOnce, memory

LEMMA NewIInv ==
  ASSUME IInv, new
  PROVE  IInv'
<1>1. /\ Doing("new") /\ todo' = Tail(todo)
      /\ buffer' = <<>> /\ stdin' = <<>> /\ stdout' = <<>>
      /\ command' = [conn |-> "none"] /\ made' = made + 1
      /\ UNCHANGED <<queue, freed, aborted>>
  BY DEF new
<1>2. /\ command = Null
      /\ \/ Tail(todo) = <<>> /\ cs \in {5, 14}
         \/ Tail(todo) = <<"append">> /\ cs = 2
  BY <1>1, Found, Places
<1>3. command' \in [conn : Conns] /\ command' # Null
  <2>1. command' \in [conn : Conns]
    BY <1>1 DEF Conns
  <2> QED
    BY <2>1, ParserAssumption
<1>4. <<>> \in Buffer
  <2>1. BufSize \in Nat \ {0}
    BY ParserAssumption
  <2> QED
    BY <2>1 DEF Buffer, Text
<1>5. TypeOK'
  <2>1. todo' \in Seq({"append", "append_in", "append_out", "new", "term",
                      "pipe", "bg", "seq"})
    BY <1>1, Found
  <2>2. made' \in Nat
    BY <1>1 DEF IInv, TypeOK
  <2>3. phase' \in {"scan", "done"} /\ UNCHANGED <<line, p, cs>>
    BY <1>1, Found
  <2> QED
    BY <1>1, <1>3, <1>4, <2>1, <2>2, <2>3 DEF IInv, TypeOK
<1>6. Stage'
  BY <1>1, <1>2, <1>3, Found DEF Stage
<1>7. OwnedOnce'
  BY <1>1, <1>2, <1>3 DEF IInv, TypeOK, OwnedOnce
<1> QED
  BY <1>1, <1>5, <1>6, <1>7, Found DEF IInv, Stages, InLine, Stopped

\* What term inserts.
LEMMA TermStep ==
  ASSUME IInv, term
  PROVE  /\ command # Null /\ command' = Null
         /\ queue' \in Seq(Queued) /\ Len(queue') = Len(queue) + 1
<1>1. Doing("term") /\ buffer # <<>> /\ command' = Null
  BY DEF term
<1>2. command # Null
  BY <1>1, Found, Places DEF Texted
<1>3. PICK in \in Expanded(stdin), out \in Expanded(stdout) :
        queue' = Append(queue, [text |-> buffer, in |-> in, out |-> out,
                                conn |-> command.conn])
  BY DEF term
<1>4. /\ in \in Text \cup {Null} /\ out \in Text \cup {Null}
      /\ buffer \in Text /\ command.conn \in Conns
  BY <1>2 DEF IInv, TypeOK, Expanded, Buffer
<1>5. [text |-> buffer, in |-> in, out |-> out, conn |-> command.conn] \in Queued
  BY <1>4 DEF Queued
<1>6. queue \in Seq(Queued)
  BY DEF IInv, TypeOK
<1> QED
  BY <1>1, <1>2, <1>3, <1>5, <1>6

LEMMA TermIInv ==
  ASSUME IInv, term
  PROVE  IInv'
<1>1. /\ Doing("term") /\ buffer # <<>> /\ todo' = Tail(todo)
      /\ UNCHANGED <<buffers, made, freed, aborted>>
  BY DEF term
<1>2. \/ Tail(todo) = <<"new">> /\ cs = 5
      \/ Tail(todo) = <<"new", "append">> /\ cs = 2
      \/ Tail(todo) = <<>> /\ cs = 15
  BY <1>1, Found, Places
<1>3. TypeOK'
  BY <1>1, TermStep, Found DEF IInv, TypeOK, buffers
<1>4. Stage'
  BY <1>1, <1>2, TermStep, Found DEF Stage
<1>5. OwnedOnce'
  <2>1. Len(queue) \in Nat /\ made \in Nat /\ freed \in Nat
    BY DEF IInv, TypeOK
  <2> QED
    BY <1>1, <2>1, TermStep DEF IInv, OwnedOnce
<1> QED
  BY <1>1, <1>3, <1>4, <1>5, Found DEF IInv, Stages, InLine, Stopped

LEMMA TermFailsIInv ==
  ASSUME IInv, term_fails
  PROVE  IInv'
<1>1. /\ Doing("term") /\ todo' = <<>> /\ aborted' = TRUE
      /\ UNCHANGED <<buffers, memory>>
  BY DEF term_fails
<1>2. TypeOK'
  <2>1. /\ phase' = phase /\ line' = line /\ p' = p /\ cs' = cs
    BY <1>1 DEF Doing
  <2>2. /\ buffer' = buffer /\ stdin' = stdin /\ stdout' = stdout
        /\ command' = command /\ queue' = queue /\ made' = made /\ freed' = freed
    BY <1>1 DEF buffers, memory
  <2> QED
    BY <1>1, <2>1, <2>2 DEF IInv, TypeOK, Buffer
<1> QED
  BY <1>1, <1>2, Found DEF IInv, Stages, InLine, Stopped, OwnedOnce, memory

LEMMA TermEmptyIInv ==
  ASSUME IInv, term_empty
  PROVE  IInv'
<1>1. /\ Doing("term") /\ buffer = <<>> /\ todo' = Tail(todo)
      /\ UNCHANGED <<buffers, memory, aborted>>
  BY DEF term_empty
<1>2. Tail(todo) = <<>> /\ cs = 15
  BY <1>1, Found, Places DEF Texted
<1>3. TypeOK'
  BY <1>1, Found DEF IInv, TypeOK, buffers, memory
<1>4. Stage'
  BY <1>1, <1>2, Found DEF Stage
<1> QED
  BY <1>1, <1>3, <1>4, Found
     DEF IInv, Stages, InLine, Stopped, OwnedOnce, memory

LEMMA ConnectIInv ==
  ASSUME IInv, NEW a \in {"pipe", "bg", "seq"}, NEW c \in Conns, Connect(a, c)
  PROVE  IInv'
<1>1. /\ Doing(a) /\ todo' = Tail(todo) /\ command' = [conn |-> c]
      /\ UNCHANGED <<buffers, queue, made, freed, aborted>>
  BY DEF Connect
<1>2. Tail(todo) = <<>> /\ cs \in InText /\ Texted
  BY <1>1, Found, Places
<1>3. command' \in [conn : Conns] /\ command' # Null
  <2>1. command' \in [conn : Conns]
    BY <1>1
  <2> QED
    BY <2>1, ParserAssumption
<1>4. TypeOK'
  BY <1>1, <1>3, Found DEF IInv, TypeOK, buffers
<1>5. Stage'
  BY <1>1, <1>2, <1>3, Found DEF Stage, Texted, buffers
<1>6. OwnedOnce'
  BY <1>1, <1>2, <1>3 DEF IInv, OwnedOnce, Texted
<1> QED
  BY <1>1, <1>4, <1>5, <1>6, Found DEF IInv, Stages, InLine, Stopped

LEMMA ReturnIInv ==
  ASSUME IInv, Return
  PROVE  IInv'
<1>1. /\ todo = <<>> /\ phase' = "done" /\ command' = Null
      /\ queue' = IF cs = 0 THEN <<>> ELSE queue
      /\ freed' = freed + (IF cs = 0 THEN Len(queue) ELSE 0)
                        + (IF command = Null THEN 0 ELSE 1)
      /\ UNCHANGED <<line, p, cs, todo, buffers, made, aborted>>
  BY DEF Return
<1>2. /\ queue \in Seq(Queued) /\ Len(queue) \in Nat
      /\ freed \in Nat /\ made \in Nat
  BY DEF IInv, TypeOK
<1>3. queue' \in Seq(Queued) /\ freed' \in Nat
  <2>1. queue' \in Seq(Queued)
    BY <1>1, <1>2
  <2>2. freed' \in Nat
    <3> DEFINE d == IF cs = 0 THEN Len(queue) ELSE 0
               e == IF command = Null THEN 0 ELSE 1
    <3>1. d \in Nat /\ e \in Nat
      BY <1>2
    <3>2. freed' = freed + d + e
      BY <1>1
    <3> HIDE DEF d, e
    <3> QED
      BY <1>2, <3>1, <3>2
  <2> QED
    BY <2>1, <2>2
<1>4. TypeOK'
  BY <1>1, <1>3 DEF IInv, TypeOK, buffers
<1>5. OwnedOnce'
  <2> DEFINE e == IF command = Null THEN 0 ELSE 1
  <2>1. made = Len(queue) + freed + e /\ e \in Nat
    BY DEF IInv, OwnedOnce
  <2>2. made' = made /\ command' = Null
    BY <1>1
  <2>3. Len(queue') + freed' = Len(queue) + freed + e
    <3>1. CASE cs = 0
      <4>1. Len(queue') = 0 /\ freed' = freed + Len(queue) + e
        BY <1>1, <3>1
      <4> HIDE DEF e
      <4> QED
        BY <1>2, <2>1, <4>1
    <3>2. CASE cs # 0
      <4>1. queue' = queue /\ freed' = freed + 0 + e
        BY <1>1, <3>2
      <4> HIDE DEF e
      <4> QED
        BY <1>2, <2>1, <4>1
    <3> QED
      BY <3>1, <3>2
  <2>4. Len(queue') \in Nat /\ freed' \in Nat
    BY <1>3
  <2>5. made' = Len(queue') + freed' + 0
    <3> HIDE DEF e
    <3> QED
      BY <1>2, <2>1, <2>2, <2>3, <2>4
  <2> QED
    BY <2>2, <2>5 DEF OwnedOnce
<1> QED
  BY <1>1, <1>4, <1>5 DEF IInv, Stages, InLine, Stopped

\* The inductive invariant is one.
LEMMA NextIInv == IInv /\ [Next]_vars => IInv'
<1> SUFFICES ASSUME IInv, [Next]_vars PROVE IInv'
  OBVIOUS
<1>1. CASE UNCHANGED vars
  BY <1>1 DEF vars, buffers, memory, IInv, TypeOK, Stages, Stage, InLine,
              Stopped, OwnedOnce, Texted
<1>2. CASE pipe
  BY <1>2, ConnectIInv DEF pipe, Conns
<1>3. CASE bg
  BY <1>3, ConnectIInv DEF bg, Conns
<1>4. CASE seq
  BY <1>4, ConnectIInv DEF seq, Conns
<1> QED
  BY <1>1, <1>2, <1>3, <1>4, ScanIInv, AppendIInv, AppendInIInv, AppendOutIInv,
     NewIInv, TermIInv, TermFailsIInv, TermEmptyIInv, ReturnIInv DEF Next

-----------------------------------------------------------------------------
\* The variables keep their types; in particular no buffer is overrun.
THEOREM TypeCorrect == Spec => []TypeOK
<1>1. IInv => TypeOK
  BY DEF IInv
<1> QED
  BY InitIInv, NextIInv, <1>1, PTL DEF Spec

(* No command is lost and none is freed twice, on whatever path            *)
(* parseInput() returns (src/src/parser.rl, lines 133-140).                *)
THEOREM Owned == Spec => []OwnedOnce
<1>1. IInv => OwnedOnce
  BY DEF IInv
<1> QED
  BY InitIInv, NextIInv, <1>1, PTL DEF Spec

(* No embedded action dereferences a NULL command (src/src/parser.rl,      *)
(* lines 85-101).                                                          *)
THEOREM NoNullCommand == Spec => []CommandThere
<1>1. IInv => CommandThere
  <2> SUFFICES ASSUME IInv, todo # <<>>
               PROVE  /\ Head(todo) \in {"pipe", "bg", "seq"} => command # Null
                      /\ Head(todo) = "term" /\ buffer # <<>> => command # Null
    BY DEF CommandThere
  <2> QED
    BY Places DEF Texted
<1> QED
  BY InitIInv, NextIInv, <1>1, PTL DEF Spec

-----------------------------------------------------------------------------
(* A field of the line, and the part of it in front of a place.            *)

ReadTo(l, i, e) == IF Until(l, i) <= e THEN Until(l, i) ELSE e + 1
Empty(l, i, e)  == First(l, i) >= ReadTo(l, i, e)
Amount(l, i, e) ==
  IF Empty(l, i, e) THEN 0
  ELSE IF ReadTo(l, i, e) - First(l, i) < BufSize THEN ReadTo(l, i, e) - First(l, i)
  ELSE BufSize
Read(l, b, i, e) ==
  /\ Len(b) = Amount(l, i, e)
  /\ \A k \in 1..Amount(l, i, e) : b[k] = l[First(l, i) + k - 1]

\* A set of places that is not empty has a least one.
LEMMA LeastExists ==
  ASSUME NEW S \in SUBSET Nat, S # {}
  PROVE  Least(S) \in S /\ \A d \in S : Least(S) <= d
<1> DEFINE T == {0..m : m \in S}
<1>1. T \subseteq FiniteSubsetsOf(Nat) /\ T # {}
  <2>1. \A m \in S : 0..m \in SUBSET Nat /\ IsFiniteSet(0..m)
    BY FS_Interval
  <2> QED
    BY <2>1 DEF FiniteSubsetsOf
<1>2. IsWellFoundedOn(StrictSubsetOrdering(Nat), FiniteSubsetsOf(Nat))
  BY FS_StrictSubsetOrderingWellFounded
<1> HIDE DEF T
<1>3. \E X \in T : \A Y \in T : <<Y, X>> \notin StrictSubsetOrdering(Nat)
  BY <1>1, <1>2, WFMin
<1>4. PICK c \in S : \A d \in S : <<0..d, 0..c>> \notin StrictSubsetOrdering(Nat)
  BY <1>3 DEF T
<1>5. ASSUME NEW d \in S, d < c PROVE FALSE
  <2>1. 0..d \subseteq 0..c /\ c \in 0..c /\ c \notin 0..d
    BY <1>5
  <2>2. <<0..d, 0..c>> \in StrictSubsetOrdering(Nat)
    BY <2>1 DEF StrictSubsetOrdering
  <2> QED
    BY <1>4, <2>2
<1>6. \E x \in S : \A d \in S : x <= d
  BY <1>5
<1> QED
  BY <1>6 DEF Least

\* The next place with a character of C, if there is one.
LEMMA UptoIs ==
  ASSUME NEW l \in Seq(Char), NEW i \in 0..Len(l), NEW C
  PROVE  /\ Upto(l, i, C) \in (i + 1)..(Len(l) + 1)
         /\ Upto(l, i, C) <= Len(l) => l[Upto(l, i, C)] \in C
         /\ \A j \in (i + 1)..Len(l) : l[j] \in C => Upto(l, i, C) <= j
<1> DEFINE n == Len(l)
           S == {j \in (i + 1)..n : l[j] \in C} \cup {n + 1}
<1>0. n \in Nat /\ i \in 0..n
  OBVIOUS
<1>1. S \in SUBSET Nat /\ S # {} /\ S \subseteq (i + 1)..(n + 1)
  <2> HIDE DEF n
  <2> QED
    BY <1>0
<1>2. Least(S) \in S /\ \A d \in S : Least(S) <= d
  <2> HIDE DEF S
  <2> QED
    BY <1>1, LeastExists
<1>3. Upto(l, i, C) = Least(S)
  BY DEF Upto
<1>4. Least(S) <= n => l[Least(S)] \in C
  <2> HIDE DEF n
  <2>1. ASSUME NEW x \in S, x <= n PROVE l[x] \in C
    BY <1>0, <2>1
  <2> QED
    BY <1>2, <2>1
<1> QED
  BY <1>1, <1>2, <1>3, <1>4

\* The first character that is no space.
LEMMA FirstIs ==
  ASSUME NEW l \in Seq(Char), NEW i \in 0..Len(l)
  PROVE  /\ First(l, i) \in (i + 1)..(Len(l) + 1)
         /\ First(l, i) <= Len(l) => l[First(l, i)] # Space
         /\ \A j \in (i + 1)..Len(l) : l[j] # Space => First(l, i) <= j
<1> DEFINE n == Len(l)
           S == {j \in (i + 1)..n : l[j] # Space} \cup {n + 1}
<1>0. n \in Nat /\ i \in 0..n
  OBVIOUS
<1>1. S \in SUBSET Nat /\ S # {} /\ S \subseteq (i + 1)..(n + 1)
  <2> HIDE DEF n
  <2> QED
    BY <1>0
<1>2. Least(S) \in S /\ \A d \in S : Least(S) <= d
  <2> HIDE DEF S
  <2> QED
    BY <1>1, LeastExists
<1>3. First(l, i) = Least(S)
  BY DEF First
<1>4. Least(S) <= n => l[Least(S)] # Space
  <2> HIDE DEF n
  <2>1. ASSUME NEW x \in S, x <= n PROVE l[x] # Space
    BY <1>0, <2>1
  <2> QED
    BY <1>2, <2>1
<1> QED
  BY <1>1, <1>2, <1>3, <1>4

\* A field ends at the next special character, or with the line.
LEMMA UntilIs ==
  ASSUME NEW l \in Seq(Char), NEW i \in 0..Len(l)
  PROVE  /\ Until(l, i) \in (i + 1)..(Len(l) + 1)
         /\ Until(l, i) <= Len(l) => l[Until(l, i)] \in Special
         /\ \A j \in (i + 1)..Len(l) : l[j] \in Special => Until(l, i) <= j
         /\ First(l, i) <= Until(l, i)
<1>1. Space \notin Special
  BY DEF Special, Separator, Mark, Space
<1>2. /\ Until(l, i) \in (i + 1)..(Len(l) + 1)
      /\ Until(l, i) <= Len(l) => l[Until(l, i)] \in Special
      /\ \A j \in (i + 1)..Len(l) : l[j] \in Special => Until(l, i) <= j
  BY UptoIs DEF Until
<1>3. /\ First(l, i) \in (i + 1)..(Len(l) + 1)
      /\ \A j \in (i + 1)..Len(l) : l[j] # Space => First(l, i) <= j
  BY FirstIs
<1>4. Len(l) \in Nat
  OBVIOUS
<1>5. First(l, i) <= Until(l, i)
  BY <1>1, <1>2, <1>3, <1>4
<1> QED
  BY <1>2, <1>5

\* How a field looks one place on.
LEMMA FieldStep ==
  ASSUME NEW l \in Seq(Char), NEW e \in 0..Len(l), NEW i \in 0..e
  PROVE  /\ Until(l, i) <= e + 1 => ReadTo(l, i, e + 1) = ReadTo(l, i, e)
         /\ Until(l, i) > e + 1 =>
              /\ ReadTo(l, i, e + 1) = e + 2 /\ ReadTo(l, i, e) = e + 1
              /\ e < Len(l) /\ l[e + 1] \notin Special
              /\ l[e + 1] = Space =>
                   (Empty(l, i, e + 1) <=> Empty(l, i, e))
              /\ l[e + 1] # Space => ~Empty(l, i, e + 1)
              /\ Empty(l, i, e) => First(l, i) >= e + 1
<1>1. i \in 0..Len(l) /\ Len(l) \in Nat
  OBVIOUS
<1>2. /\ Until(l, i) \in Nat /\ First(l, i) \in Nat
      /\ First(l, i) <= Until(l, i) /\ Until(l, i) <= Len(l) + 1
      /\ \A j \in (i + 1)..Len(l) : l[j] \in Special => Until(l, i) <= j
      /\ First(l, i) <= Len(l) => l[First(l, i)] # Space
      /\ \A j \in (i + 1)..Len(l) : l[j] # Space => First(l, i) <= j
  BY <1>1, UntilIs, FirstIs
<1>3. Until(l, i) <= e + 1 => ReadTo(l, i, e + 1) = ReadTo(l, i, e)
  BY <1>2 DEF ReadTo
<1>4. ASSUME Until(l, i) > e + 1
      PROVE  /\ ReadTo(l, i, e + 1) = e + 2 /\ ReadTo(l, i, e) = e + 1
             /\ e < Len(l) /\ l[e + 1] \notin Special
             /\ l[e + 1] = Space =>
                  (Empty(l, i, e + 1) <=> Empty(l, i, e))
             /\ l[e + 1] # Space => ~Empty(l, i, e + 1)
             /\ Empty(l, i, e) => First(l, i) >= e + 1
  <2>1. ReadTo(l, i, e + 1) = e + 2 /\ ReadTo(l, i, e) = e + 1
    BY <1>2, <1>4 DEF ReadTo
  <2>2. e < Len(l) /\ e + 1 \in (i + 1)..Len(l)
    BY <1>2, <1>4
  <2>3. l[e + 1] \notin Special
    BY <1>2, <1>4, <2>2
  <2>4. l[e + 1] = Space => First(l, i) # e + 1
    BY <1>2, <2>2
  <2>5. l[e + 1] # Space => First(l, i) <= e + 1
    BY <1>2, <2>2
  <2> QED
    BY <1>2, <2>1, <2>2, <2>3, <2>4, <2>5 DEF Empty
<1> QED
  BY <1>3, <1>4

\* Behind the end of a field nothing more is read of it.
LEMMA Closed ==
  ASSUME NEW l \in Seq(Char), NEW e \in 0..Len(l), NEW i \in 0..e,
         Until(l, i) <= e + 1
  PROVE  /\ Empty(l, i, e + 1) <=> Empty(l, i, e)
         /\ \A b : Read(l, b, i, e + 1) <=> Read(l, b, i, e)
<1>1. ReadTo(l, i, e + 1) = ReadTo(l, i, e)
  BY FieldStep
<1>2. Empty(l, i, e + 1) <=> Empty(l, i, e)
  BY <1>1 DEF Empty
<1>3. Amount(l, i, e + 1) = Amount(l, i, e)
  BY <1>1, <1>2 DEF Amount
<1> QED
  BY <1>2, <1>3 DEF Read

\* A field that starts here is empty so far.
LEMMA Opened ==
  ASSUME NEW l \in Seq(Char), NEW e \in 0..Len(l)
  PROVE  Empty(l, e, e) /\ Read(l, <<>>, e, e)
<1>1. First(l, e) \in (e + 1)..(Len(l) + 1) /\ Until(l, e) \in (e + 1)..(Len(l) + 1)
  BY FirstIs, UntilIs
<1>2. Len(l) \in Nat
  OBVIOUS
<1>3. Empty(l, e, e)
  BY <1>1, <1>2 DEF Empty, ReadTo
<1>4. Amount(l, e, e) = 0
  BY <1>3 DEF Amount
<1> QED
  BY <1>3, <1>4 DEF Read

\* The spaces in front of a field are not part of it.
LEMMA SpaceSkipped ==
  ASSUME NEW l \in Seq(Char), NEW e \in 0..Len(l), NEW i \in 0..e,
         Until(l, i) > e + 1, l[e + 1] = Space, Empty(l, i, e),
         NEW b, Read(l, b, i, e)
  PROVE  Empty(l, i, e + 1) /\ Read(l, b, i, e + 1)
<1>1. Empty(l, i, e + 1)
  BY FieldStep
<1>2. Amount(l, i, e) = 0 /\ Amount(l, i, e + 1) = 0
  BY <1>1 DEF Amount
<1> QED
  BY <1>1, <1>2 DEF Read

With(b, c) == IF Len(b) < BufSize THEN Append(b, c) ELSE b

\* One more character of a field, as far as the buffer reaches.
LEMMA ReadOn ==
  ASSUME NEW l \in Seq(Char), NEW e \in 0..Len(l), NEW i \in 0..e,
         Until(l, i) > e + 1, ~Empty(l, i, e + 1),
         NEW b \in Seq(Char), Read(l, b, i, e)
  PROVE  Read(l, With(b, l[e + 1]), i, e + 1)
<1> DEFINE f == First(l, i)
           c == l[e + 1]
<1>1. /\ ReadTo(l, i, e + 1) = e + 2 /\ ReadTo(l, i, e) = e + 1
      /\ e < Len(l)
  BY FieldStep
<1>2. Len(l) \in Nat /\ f \in Nat /\ BufSize \in Nat /\ BufSize > 0 /\ e \in Nat
  BY FirstIs, ParserAssumption
<1>3. f <= e + 1
  BY <1>1, <1>2 DEF Empty
<1>4. Amount(l, i, e + 1) = IF e + 2 - f < BufSize THEN e + 2 - f ELSE BufSize
  BY <1>1, <1>2 DEF Amount
<1>5. Amount(l, i, e) = IF e + 1 - f < BufSize THEN e + 1 - f ELSE BufSize
  <2>1. Amount(l, i, e) = IF f >= e + 1 THEN 0
                          ELSE IF e + 1 - f < BufSize THEN e + 1 - f ELSE BufSize
    BY <1>1, <1>2 DEF Amount, Empty
  <2> HIDE DEF f
  <2> QED
    BY <1>2, <1>3, <2>1
<1>6. c \in Char
  BY <1>1, <1>2
<1>7. /\ Len(b) = Amount(l, i, e)
      /\ \A k \in 1..Amount(l, i, e) : b[k] = l[f + k - 1]
  BY DEF Read
<1>8. /\ Len(Append(b, c)) = Len(b) + 1
      /\ \A k \in 1..Len(b) : Append(b, c)[k] = b[k]
      /\ Append(b, c)[Len(b) + 1] = c
  BY <1>6, AppendProperties
<1>9. CASE Len(b) < BufSize
  <2>1. Len(b) = e + 1 - f /\ Amount(l, i, e + 1) = e + 2 - f
    BY <1>2, <1>3, <1>4, <1>5, <1>7, <1>9
  <2>2. With(b, c) = Append(b, c)
    BY <1>9 DEF With
  <2>3. f + (e + 2 - f) - 1 = e + 1 /\ e + 1 - f + 1 = e + 2 - f
    BY <1>2
  <2>4. ASSUME NEW k \in 1..(e + 2 - f)
        PROVE  Append(b, c)[k] = l[f + k - 1]
    <3>1. CASE k = e + 2 - f
      BY <1>8, <2>1, <2>3, <3>1
    <3>2. CASE k # e + 2 - f
      <4>1. k \in 1..(e + 1 - f)
        BY <1>2, <1>3, <3>2
      <4> QED
        BY <1>5, <1>7, <1>8, <2>1, <4>1
    <3> QED
      BY <3>1, <3>2
  <2>5. Len(With(b, c)) = Amount(l, i, e + 1)
    BY <1>2, <1>8, <2>1, <2>2
  <2> HIDE DEF c, f
  <2> QED
    BY <2>1, <2>2, <2>4, <2>5 DEF Read, f, c
<1>10. CASE ~(Len(b) < BufSize)
  <2>1. Amount(l, i, e) = BufSize /\ Amount(l, i, e + 1) = BufSize
    BY <1>2, <1>3, <1>4, <1>5, <1>7, <1>10
  <2>2. With(b, c) = b
    BY <1>10 DEF With
  <2> QED
    BY <1>7, <2>1, <2>2 DEF Read
<1> QED
  BY <1>9, <1>10

\* When a field is over, all of it has been read, as far as it fits.
LEMMA ReadAll ==
  ASSUME NEW l \in Seq(Char), NEW e \in 0..Len(l), NEW i \in 0..e,
         Until(l, i) <= e + 1
  PROVE  /\ Field(l, i) \in Seq(Char)
         /\ Field(l, i) = <<>> <=> Empty(l, i, e)
         /\ \A b \in Seq(Char) : Read(l, b, i, e) => b = Cut(Field(l, i))
<1> DEFINE f == First(l, i)
           u == Until(l, i)
           s == Field(l, i)
           n == IF u - f < BufSize THEN u - f ELSE BufSize
<1>1. /\ Len(l) \in Nat /\ f \in Nat /\ u \in Nat /\ BufSize \in Nat /\ BufSize > 0
      /\ e \in Nat /\ f >= 1 /\ u <= Len(l) + 1 /\ f <= u
  BY FirstIs, UntilIs, ParserAssumption
<1>2. ReadTo(l, i, e) = u
  BY <1>1 DEF ReadTo
<1>3. /\ s \in Seq(Char)
      /\ Len(s) = u - f
      /\ \A k \in 1..(u - f) : s[k] = l[f + k - 1]
  <2>1. \A k \in f..(u - 1) : l[k] \in Char
    BY <1>1
  <2>2. /\ SubSeq(l, f, u - 1) \in Seq(Char)
        /\ Len(SubSeq(l, f, u - 1)) = IF f <= u - 1 THEN u - 1 - f + 1 ELSE 0
        /\ \A k \in 1..(u - 1 - f + 1) : SubSeq(l, f, u - 1)[k] = l[f + k - 1]
    <3> HIDE DEF f, u
    <3>1. f \in Int /\ u - 1 \in Int
      BY <1>1
    <3> QED
      BY <2>1, <3>1, SubSeqProperties
  <2>3. u - 1 - f + 1 = u - f /\ (f > u - 1 => u - f = 0)
    BY <1>1
  <2>4. s = SubSeq(l, f, u - 1)
    BY DEF Field
  <2> HIDE DEF f, u, s
  <2> QED
    BY <2>2, <2>3, <2>4
<1>4. s = <<>> <=> Empty(l, i, e)
  <2>1. s = <<>> <=> Len(s) = 0
    BY <1>3, EmptySeq
  <2> HIDE DEF s
  <2> QED
    BY <1>1, <1>2, <1>3, <2>1 DEF Empty
<1>5. Amount(l, i, e) = n
  BY <1>1, <1>2 DEF Amount, Empty
<1>6. ASSUME NEW b \in Seq(Char), Read(l, b, i, e)
      PROVE  b = Cut(s)
  <2>1. n \in Nat /\ n <= u - f
    BY <1>1
  <2>2. s # Null
    BY <1>3, ParserAssumption
  <2>3. Cut(s) = SubSeq(s, 1, n)
    BY <1>3, <2>2 DEF Cut
  <2>4. /\ Len(b) = n
        /\ \A k \in 1..n : b[k] = l[f + k - 1]
    BY <1>5, <1>6 DEF Read
  <2> HIDE DEF f, u, s, n
  <2>5. \A k \in 1..n : s[k] \in Char
    BY <1>1, <1>3, <2>1
  <2>6. /\ SubSeq(s, 1, n) \in Seq(Char)
        /\ Len(SubSeq(s, 1, n)) = IF 1 <= n THEN n - 1 + 1 ELSE 0
        /\ \A k \in 1..(n - 1 + 1) : SubSeq(s, 1, n)[k] = s[1 + k - 1]
    <3>1. n \in Int /\ 1 \in Int
      BY <2>1
    <3> QED
      BY <2>5, <3>1, SubSeqProperties
  <2>7. Len(SubSeq(s, 1, n)) = n
    BY <2>1, <2>6
  <2>8. ASSUME NEW k \in 1..n PROVE SubSeq(s, 1, n)[k] = b[k]
    <3>1. SubSeq(s, 1, n)[k] = s[k]
      <4>1. k \in 1..(n - 1 + 1) /\ 1 + k - 1 = k
        BY <2>1
      <4> QED
        BY <2>6, <4>1
    <3>2. s[k] = l[f + k - 1]
      BY <1>1, <1>3, <2>1
    <3> QED
      BY <2>4, <3>1, <3>2
  <2>9. b = SubSeq(s, 1, n)
    BY <2>4, <2>6, <2>7, <2>8, SeqEqual
  <2> QED
    BY <2>3, <2>9
<1> QED
  BY <1>3, <1>4, <1>6

-----------------------------------------------------------------------------
(* Inside a command: the places of its marks, by the state of the automaton.*)

Shape(s, in, out, amp) ==
  \/ s \in {2, 5, 14} /\ in = 0 /\ out = 0 /\ amp = 0
  \/ s \in {6, 7}   /\ in # 0 /\ out = 0 /\ amp = 0
  \/ s \in {8, 9}   /\ in # 0 /\ in < out /\ amp = 0
  \/ s \in {10, 11} /\ out # 0 /\ in = 0 /\ amp = 0
  \/ s \in {12, 13} /\ out # 0 /\ out < in /\ amp = 0
  \/ s = 3 /\ in < amp /\ out < amp

Marked(l, o, e, i, c) == i = 0 \/ (i \in (o + 1)..e /\ l[i] = c)

Inside(l, s, o, e, in, out, amp) ==
  /\ o \in Starts(l) /\ o < e /\ e <= Len(l)
  /\ Marked(l, o, e, in, "<") /\ Marked(l, o, e, out, ">")
  /\ Marked(l, o, e, amp, "&")
  /\ \A k \in (o + 1)..e : l[k] \in Special => k \in {in, out, amp}
  /\ Shape(s, in, out, amp)
  /\ Empty(l, o, e) <=> s \in {5, 14}
  /\ in # 0 => (Empty(l, in, e) <=> s \in {6, 12})
  /\ out # 0 => (Empty(l, out, e) <=> s \in {8, 10})
  /\ amp # 0 => Empty(l, amp, e)
  /\ s = 14 => o = 0
  /\ s = 5 => o # 0

Fields(o, in, out, amp) == {o} \cup ({in, out, amp} \ {0})

\* The field that is being read.
Open(s, o, in, out, amp) ==
  IF s \in {2, 5, 14} THEN o
  ELSE IF s \in {6, 7, 12, 13} THEN in
  ELSE IF s \in {8, 9, 10, 11} THEN out ELSE amp

\* The field that is read, by the state.
LEMMA OpenField ==
  ASSUME NEW s, NEW o, NEW in, NEW out, NEW amp
  PROVE  /\ s \in {2, 5, 14} => Open(s, o, in, out, amp) = o
         /\ s \in {6, 7, 12, 13} => Open(s, o, in, out, amp) = in
         /\ s \in {8, 9, 10, 11} => Open(s, o, in, out, amp) = out
         /\ s = 3 => Open(s, o, in, out, amp) = amp
<1> DEFINE A == {2, 5, 14}
           B == {6, 7, 12, 13}
           C == {8, 9, 10, 11}
<1>1. (\A x \in B : x \notin A) /\ (\A x \in C : x \notin A /\ x \notin B)
  OBVIOUS
<1>2. 3 \notin A /\ 3 \notin B /\ 3 \notin C
  OBVIOUS
<1>3. Open(s, o, in, out, amp) = IF s \in A THEN o ELSE IF s \in B THEN in
                               ELSE IF s \in C THEN out ELSE amp
  BY DEF Open
<1> HIDE DEF A, B, C
<1>4. /\ s \in A => Open(s, o, in, out, amp) = o
      /\ s \in B => Open(s, o, in, out, amp) = in
      /\ s \in C => Open(s, o, in, out, amp) = out
      /\ s = 3 => Open(s, o, in, out, amp) = amp
  BY <1>1, <1>2, <1>3
<1> QED
  BY <1>4 DEF A, B, C

\* The marks that stand in each state.
LEMMA ShapeMarks ==
  ASSUME NEW s, NEW in \in Nat, NEW out \in Nat, NEW amp \in Nat,
         Shape(s, in, out, amp)
  PROVE  /\ \/ s \in {2, 5, 14} \/ s \in {6, 7} \/ s \in {8, 9}
            \/ s \in {10, 11} \/ s \in {12, 13} \/ s = 3
         /\ s \in {2, 5, 14} => in = 0 /\ out = 0 /\ amp = 0
         /\ s \in {6, 7} => in # 0 /\ out = 0 /\ amp = 0
         /\ s \in {8, 9} => in # 0 /\ out # 0 /\ in < out /\ amp = 0
         /\ s \in {10, 11} => out # 0 /\ in = 0 /\ amp = 0
         /\ s \in {12, 13} => in # 0 /\ out # 0 /\ out < in /\ amp = 0
         /\ s = 3 => amp # 0 /\ in < amp /\ out < amp
<1>1. ASSUME s \in {2, 5, 14} \/ s \in {6, 7} \/ s = 3
      PROVE  /\ s \in {2, 5, 14} => in = 0 /\ out = 0 /\ amp = 0
             /\ s \in {6, 7} => in # 0 /\ out = 0 /\ amp = 0
             /\ s = 3 => amp # 0 /\ in < amp /\ out < amp
  BY <1>1 DEF Shape
<1>2. ASSUME s \in {8, 9} \/ s \in {10, 11} \/ s \in {12, 13}
      PROVE  /\ s \in {8, 9} => in # 0 /\ out # 0 /\ in < out /\ amp = 0
             /\ s \in {10, 11} => out # 0 /\ in = 0 /\ amp = 0
             /\ s \in {12, 13} => in # 0 /\ out # 0 /\ out < in /\ amp = 0
  BY <1>2 DEF Shape
<1>3. \/ s \in {2, 5, 14} \/ s \in {6, 7} \/ s \in {8, 9}
      \/ s \in {10, 11} \/ s \in {12, 13} \/ s = 3
  BY DEF Shape
<1> QED
  BY <1>1, <1>2, <1>3

\* A command starts at the beginning of the line or at a separator.
LEMMA StartIs ==
  ASSUME NEW l \in Seq(Char), NEW o \in Starts(l)
  PROVE  o \in 0..Len(l) /\ (o # 0 => l[o] \in Separator)
<1>1. Len(l) \in Nat
  OBVIOUS
<1> QED
  BY <1>1 DEF Starts

\* One field of the command is being read, the others are over.
LEMMA OpenIs ==
  ASSUME NEW l \in Seq(Char), NEW s, NEW o, NEW e \in Nat,
         NEW in \in Nat, NEW out \in Nat, NEW amp \in Nat,
         Inside(l, s, o, e, in, out, amp)
  PROVE  /\ o \in Nat /\ e \in 0..Len(l)
         /\ Open(s, o, in, out, amp) \in Fields(o, in, out, amp)
         /\ \A i \in Fields(o, in, out, amp) :
              /\ i \in o..e /\ i \in 0..e
              /\ i = Open(s, o, in, out, amp) => Until(l, i) > e
              /\ i # Open(s, o, in, out, amp) => Until(l, i) <= e
<1> DEFINE x == Open(s, o, in, out, amp)
<1>1. o \in 0..Len(l) /\ Len(l) \in Nat /\ o < e /\ e \in 0..Len(l) /\ o \in Nat
  BY StartIs DEF Inside
<1>2. \A i \in Fields(o, in, out, amp) : i \in o..e /\ i \in 0..e
  BY <1>1 DEF Inside, Marked, Fields
<1>3. /\ x \in Fields(o, in, out, amp)
      /\ \A k \in (x + 1)..e : k \notin {in, out, amp}
      /\ \A i \in Fields(o, in, out, amp) :
           i # x => x > i /\ x \in {in, out, amp} \ {0}
  <2>1. Shape(s, in, out, amp)
    BY DEF Inside
  <2>2. (in # 0 => in > o) /\ (out # 0 => out > o) /\ (amp # 0 => amp > o)
    BY <1>1 DEF Inside, Marked
  <2>3. CASE s \in {2, 5, 14}
    <3>1. x = o
      BY <2>3, OpenField
    <3>2. in = 0 /\ out = 0 /\ amp = 0
      BY <2>1, <2>3, ShapeMarks
    <3> HIDE DEF x
    <3> QED
      BY <1>1, <2>2, <3>1, <3>2 DEF Fields
  <2>4. CASE s \in {6, 7}
    <3>1. x = in
      BY <2>4, OpenField
    <3>2. in # 0 /\ out = 0 /\ amp = 0
      BY <2>1, <2>4, ShapeMarks
    <3> HIDE DEF x
    <3> QED
      BY <1>1, <2>2, <3>1, <3>2 DEF Fields
  <2>5. CASE s \in {8, 9}
    <3>1. x = out
      BY <2>5, OpenField
    <3>2. out # 0 /\ in < out /\ amp = 0
      BY <2>1, <2>5, ShapeMarks
    <3> HIDE DEF x
    <3> QED
      BY <1>1, <2>2, <3>1, <3>2 DEF Fields
  <2>6. CASE s \in {10, 11}
    <3>1. x = out
      BY <2>6, OpenField
    <3>2. out # 0 /\ in = 0 /\ amp = 0
      BY <2>1, <2>6, ShapeMarks
    <3> HIDE DEF x
    <3> QED
      BY <1>1, <2>2, <3>1, <3>2 DEF Fields
  <2>7. CASE s \in {12, 13}
    <3>1. x = in
      BY <2>7, OpenField
    <3>2. in # 0 /\ out < in /\ amp = 0
      BY <2>1, <2>7, ShapeMarks
    <3> HIDE DEF x
    <3> QED
      BY <1>1, <2>2, <3>1, <3>2 DEF Fields
  <2>8. CASE s = 3
    <3>1. x = amp
      BY <2>8, OpenField
    <3>2. amp # 0 /\ in < amp /\ out < amp
      BY <2>1, <2>8, ShapeMarks
    <3> HIDE DEF x
    <3> QED
      BY <1>1, <2>2, <3>1, <3>2 DEF Fields
  <2> QED
    BY <2>1, <2>3, <2>4, <2>5, <2>6, <2>7, <2>8, ShapeMarks
<1> HIDE DEF x
<1>4. Until(l, x) > e
  <2>1. x \in 0..e /\ x >= o
    BY <1>2, <1>3, <1>1
  <2>2. /\ Until(l, x) \in (x + 1)..(Len(l) + 1)
        /\ Until(l, x) <= Len(l) => l[Until(l, x)] \in Special
    BY <1>1, <2>1, UntilIs
  <2>3. \A k \in (o + 1)..e : l[k] \in Special => k \in {in, out, amp}
    BY DEF Inside
  <2>4. ASSUME Until(l, x) <= e PROVE FALSE
    <3>1. Until(l, x) \in (x + 1)..e /\ Until(l, x) \in (o + 1)..e
      BY <1>1, <2>1, <2>2, <2>4
    <3> QED
      BY <1>1, <1>3, <2>2, <2>3, <2>4, <3>1
  <2> QED
    BY <1>1, <2>1, <2>2, <2>4
<1>5. ASSUME NEW i \in Fields(o, in, out, amp), i # x
      PROVE  Until(l, i) <= e
  <2>1. x > i /\ x \in {in, out, amp} \ {0} /\ i \in 0..e /\ x \in 0..e
    BY <1>2, <1>3, <1>5
  <2>2. l[x] \in Special
    BY <2>1 DEF Inside, Marked, Special, Mark
  <2>3. i \in 0..Len(l) /\ x \in (i + 1)..Len(l)
    BY <1>1, <2>1
  <2>4. Until(l, i) <= x
    BY <2>2, <2>3, UntilIs
  <2>5. Until(l, i) \in Nat
    BY <2>3, UntilIs
  <2> QED
    BY <2>1, <2>4, <2>5
<1> QED
  BY <1>1, <1>2, <1>3, <1>4, <1>5 DEF x

\* The state behind a character that is not special.
Onward(s, c) == IF c = Space THEN s
                ELSE IF s \in {5, 14} THEN 2
                ELSE IF s \in {6, 8, 10, 12} THEN s + 1 ELSE s

\* A letter or a space stays in the field.
LEMMA InsideOn ==
  ASSUME NEW l \in Seq(Char), NEW s, NEW o, NEW e \in Nat,
         NEW in \in Nat, NEW out \in Nat, NEW amp \in Nat,
         Inside(l, s, o, e, in, out, amp),
         e + 1 <= Len(l), l[e + 1] \notin Special, s = 3 => l[e + 1] = Space
  PROVE  Inside(l, Onward(s, l[e + 1]), o, e + 1, in, out, amp)
<1> DEFINE x == Open(s, o, in, out, amp)
           c == l[e + 1]
           t == Onward(s, c)
<1>1. /\ o \in Nat /\ e \in 0..Len(l) /\ Len(l) \in Nat
      /\ \A i \in Fields(o, in, out, amp) :
           /\ i \in 0..e
           /\ i = x => Until(l, i) > e
           /\ i # x => Until(l, i) <= e
  BY OpenIs
<1>2. ASSUME NEW i \in Fields(o, in, out, amp)
      PROVE  Empty(l, i, e + 1) <=> Empty(l, i, e) /\ (i = x => c = Space)
  <2>1. /\ i \in 0..e /\ Until(l, i) \in Nat
        /\ Until(l, i) <= Len(l) => l[Until(l, i)] \in Special
    <3>1. i \in 0..e /\ i \in 0..Len(l)
      BY <1>1
    <3>2. /\ Until(l, i) \in (i + 1)..(Len(l) + 1)
          /\ Until(l, i) <= Len(l) => l[Until(l, i)] \in Special
      BY <3>1, UntilIs
    <3> QED
      BY <1>1, <3>1, <3>2
  <2>2. CASE i # x
    <3>1. Until(l, i) <= e + 1
      BY <1>1, <2>1, <2>2
    <3> QED
      BY <2>1, <2>2, <3>1, Closed
  <2>3. CASE i = x
    <3>1. Until(l, i) > e + 1
      BY <1>1, <2>1, <2>3
    <3> QED
      BY <2>1, <2>3, <3>1, FieldStep
  <2> QED
    BY <2>2, <2>3
<1>3. /\ o \in Starts(l) /\ o < e + 1 /\ e + 1 <= Len(l)
      /\ Marked(l, o, e + 1, in, "<") /\ Marked(l, o, e + 1, out, ">")
      /\ Marked(l, o, e + 1, amp, "&")
      /\ \A k \in (o + 1)..(e + 1) : l[k] \in Special => k \in {in, out, amp}
  BY <1>1 DEF Inside, Marked
<1>4. /\ o \in Fields(o, in, out, amp)
      /\ in # 0 => in \in Fields(o, in, out, amp)
      /\ out # 0 => out \in Fields(o, in, out, amp)
      /\ amp # 0 => amp \in Fields(o, in, out, amp)
  BY DEF Fields
<1>5. /\ (in # 0 => in > o) /\ (out # 0 => out > o) /\ (amp # 0 => amp > o)
      /\ (in # 0 /\ out # 0 => in # out) /\ (in # 0 /\ amp # 0 => in # amp)
      /\ (out # 0 /\ amp # 0 => amp # out)
  <2>1. "<" # ">" /\ "<" # "&" /\ ">" # "&"
    OBVIOUS
  <2> QED
    BY <1>1, <2>1 DEF Inside, Marked
<1>6. /\ Shape(s, in, out, amp)
      /\ Empty(l, o, e) <=> s \in {5, 14}
      /\ in # 0 => (Empty(l, in, e) <=> s \in {6, 12})
      /\ out # 0 => (Empty(l, out, e) <=> s \in {8, 10})
      /\ amp # 0 => Empty(l, amp, e)
      /\ s = 14 => o = 0
      /\ s = 5 => o # 0
  BY DEF Inside
<1>7. CASE c = Space
  <2>1. t = s
    BY <1>7 DEF Onward
  <2>2. \A i \in Fields(o, in, out, amp) : Empty(l, i, e + 1) <=> Empty(l, i, e)
    BY <1>2, <1>7
  <2> HIDE DEF x, c, t
  <2>3. Inside(l, s, o, e + 1, in, out, amp)
    BY <1>3, <1>4, <1>6, <2>2 DEF Inside
  <2> QED
    BY <2>1, <2>3 DEF t, c
<1>8. CASE c # Space
  <2>1. t = IF s \in {5, 14} THEN 2 ELSE IF s \in {6, 8, 10, 12} THEN s + 1 ELSE s
    BY <1>8 DEF Onward
  <2>2. \A i \in Fields(o, in, out, amp) :
          Empty(l, i, e + 1) <=> Empty(l, i, e) /\ i # x
    BY <1>2, <1>8
  <2>3. s # 3
    BY <1>8
  <2>4. CASE s \in {2, 5, 14}
    <3>1. x = o
      BY <2>4, OpenField
    <3>3. t = 2
      BY <2>1, <2>4
    <3> HIDE DEF x, c, t
    <3>2. Inside(l, 2, o, e + 1, in, out, amp)
      BY <1>3, <1>4, <1>5, <1>6, <2>2, <2>4, <3>1 DEF Inside, Shape
    <3> QED
      BY <3>2, <3>3 DEF t, c
  <2>5. CASE s \in {6, 7}
    <3>1. x = in
      BY <2>5, OpenField
    <3>3. t = 7
      BY <2>1, <2>5
    <3> HIDE DEF x, c, t
    <3>2. Inside(l, 7, o, e + 1, in, out, amp)
      BY <1>1, <1>3, <1>4, <1>5, <1>6, <2>2, <2>5, <3>1 DEF Inside, Shape
    <3> QED
      BY <3>2, <3>3 DEF t, c
  <2>6. CASE s \in {8, 9}
    <3>1. x = out
      BY <2>6, OpenField
    <3>3. t = 9
      BY <2>1, <2>6
    <3> HIDE DEF x, c, t
    <3>2. Inside(l, 9, o, e + 1, in, out, amp)
      BY <1>1, <1>3, <1>4, <1>5, <1>6, <2>2, <2>6, <3>1 DEF Inside, Shape
    <3> QED
      BY <3>2, <3>3 DEF t, c
  <2>7. CASE s \in {10, 11}
    <3>1. x = out
      BY <2>7, OpenField
    <3>3. t = 11
      BY <2>1, <2>7
    <3> HIDE DEF x, c, t
    <3>2. Inside(l, 11, o, e + 1, in, out, amp)
      BY <1>1, <1>3, <1>4, <1>5, <1>6, <2>2, <2>7, <3>1 DEF Inside, Shape
    <3> QED
      BY <3>2, <3>3 DEF t, c
  <2>8. CASE s \in {12, 13}
    <3>1. x = in
      BY <2>8, OpenField
    <3>3. t = 13
      BY <2>1, <2>8
    <3> HIDE DEF x, c, t
    <3>2. Inside(l, 13, o, e + 1, in, out, amp)
      BY <1>1, <1>3, <1>4, <1>5, <1>6, <2>2, <2>8, <3>1 DEF Inside, Shape
    <3> QED
      BY <3>2, <3>3 DEF t, c
  <2> QED
    BY <1>6, <2>3, <2>4, <2>5, <2>6, <2>7, <2>8 DEF Shape
<1> QED
  BY <1>7, <1>8

\* A mark is read: its field opens, and the others stay as they are.
LEMMA MarkRead ==
  ASSUME NEW l \in Seq(Char), NEW s, NEW o, NEW e \in Nat,
         NEW in \in Nat, NEW out \in Nat, NEW amp \in Nat,
         Inside(l, s, o, e, in, out, amp),
         e + 1 <= Len(l), l[e + 1] \in Special
  PROVE  /\ Empty(l, e + 1, e + 1)
         /\ \A i \in Fields(o, in, out, amp) :
              /\ Until(l, i) <= e + 1
              /\ Empty(l, i, e + 1) <=> Empty(l, i, e)
<1>1. /\ o \in Nat /\ e \in 0..Len(l) /\ Len(l) \in Nat
      /\ \A i \in Fields(o, in, out, amp) : i \in 0..e
  BY OpenIs
<1>2. Empty(l, e + 1, e + 1)
  BY <1>1, Opened
<1>3. ASSUME NEW i \in Fields(o, in, out, amp)
      PROVE  Until(l, i) <= e + 1 /\ (Empty(l, i, e + 1) <=> Empty(l, i, e))
  <2>1. i \in 0..e /\ i \in 0..Len(l) /\ e + 1 \in (i + 1)..Len(l)
    BY <1>1
  <2>2. Until(l, i) <= e + 1
    BY <2>1, UntilIs
  <2> QED
    BY <2>1, <2>2, Closed
<1> QED
  BY <1>2, <1>3

\* Each mark opens the field of its own, in the state that allows it.
LEMMA InsideIn ==
  ASSUME NEW l \in Seq(Char), NEW s \in {2, 11}, NEW o, NEW e \in Nat,
         NEW in \in Nat, NEW out \in Nat, NEW amp \in Nat,
         Inside(l, s, o, e, in, out, amp),
         e + 1 <= Len(l), l[e + 1] = "<"
  PROVE  in = 0 /\ Inside(l, IF s = 2 THEN 6 ELSE 12, o, e + 1, e + 1, out, amp)
<1>1. o \in Nat /\ e \in 0..Len(l)
  BY OpenIs, Zenon
<1>2. l[e + 1] \in Special
  BY DEF Special, Mark
<1>3. /\ Empty(l, e + 1, e + 1)
      /\ \A i \in Fields(o, in, out, amp) : Empty(l, i, e + 1) <=> Empty(l, i, e)
  BY <1>2, MarkRead, Zenon
<1>4. in = 0 /\ amp = 0
  BY DEF Inside, Shape
<1>5. o \in Fields(o, in, out, amp) /\ (out # 0 => out \in Fields(o, in, out, amp))
  BY DEF Fields
<1>6. /\ o \in Starts(l) /\ o < e + 1 /\ e + 1 <= Len(l)
      /\ Marked(l, o, e + 1, e + 1, "<") /\ Marked(l, o, e + 1, out, ">")
      /\ Marked(l, o, e + 1, amp, "&")
      /\ \A k \in (o + 1)..(e + 1) : l[k] \in Special => k \in {e + 1, out, amp}
      /\ e + 1 # 0 /\ (out # 0 => out < e + 1)
  <2>1. o \in Starts(l) /\ o < e
        /\ Marked(l, o, e, in, "<") /\ Marked(l, o, e, out, ">")
        /\ Marked(l, o, e, amp, "&")
        /\ \A k \in (o + 1)..e : l[k] \in Special => k \in {in, out, amp}
    BY DEF Inside
  <2>2. ASSUME NEW k \in (o + 1)..(e + 1), l[k] \in Special, k # e + 1
        PROVE  k \in {in, out, amp} /\ k # 0
    BY <1>1, <2>1, <2>2
  <2> QED
    BY <1>1, <1>4, <2>1, <2>2 DEF Marked
<1>7. /\ Shape(s, in, out, amp)
      /\ Empty(l, o, e) <=> s \in {5, 14}
      /\ out # 0 => (Empty(l, out, e) <=> s \in {8, 10})
  BY DEF Inside
<1>8. CASE s = 2
  BY <1>3, <1>4, <1>5, <1>6, <1>7, <1>8 DEF Inside, Shape
<1>9. CASE s = 11
  BY <1>3, <1>4, <1>5, <1>6, <1>7, <1>9 DEF Inside, Shape
<1> QED
  BY <1>8, <1>9

LEMMA InsideOut ==
  ASSUME NEW l \in Seq(Char), NEW s \in {2, 7}, NEW o, NEW e \in Nat,
         NEW in \in Nat, NEW out \in Nat, NEW amp \in Nat,
         Inside(l, s, o, e, in, out, amp),
         e + 1 <= Len(l), l[e + 1] = ">"
  PROVE  out = 0 /\ Inside(l, IF s = 2 THEN 10 ELSE 8, o, e + 1, in, e + 1, amp)
<1>1. o \in Nat /\ e \in 0..Len(l)
  BY OpenIs, Zenon
<1>2. l[e + 1] \in Special
  BY DEF Special, Mark
<1>3. /\ Empty(l, e + 1, e + 1)
      /\ \A i \in Fields(o, in, out, amp) : Empty(l, i, e + 1) <=> Empty(l, i, e)
  BY <1>2, MarkRead, Zenon
<1>4. out = 0 /\ amp = 0
  BY DEF Inside, Shape
<1>5. o \in Fields(o, in, out, amp) /\ (in # 0 => in \in Fields(o, in, out, amp))
  BY DEF Fields
<1>6. /\ o \in Starts(l) /\ o < e + 1 /\ e + 1 <= Len(l)
      /\ Marked(l, o, e + 1, in, "<") /\ Marked(l, o, e + 1, e + 1, ">")
      /\ Marked(l, o, e + 1, amp, "&")
      /\ \A k \in (o + 1)..(e + 1) : l[k] \in Special => k \in {in, e + 1, amp}
      /\ e + 1 # 0 /\ (in # 0 => in < e + 1)
  <2>1. o \in Starts(l) /\ o < e
        /\ Marked(l, o, e, in, "<") /\ Marked(l, o, e, out, ">")
        /\ Marked(l, o, e, amp, "&")
        /\ \A k \in (o + 1)..e : l[k] \in Special => k \in {in, out, amp}
    BY DEF Inside
  <2>2. ASSUME NEW k \in (o + 1)..(e + 1), l[k] \in Special, k # e + 1
        PROVE  k \in {in, out, amp} /\ k # 0
    BY <1>1, <2>1, <2>2
  <2> QED
    BY <1>1, <1>4, <2>1, <2>2 DEF Marked
<1>7. /\ Shape(s, in, out, amp)
      /\ Empty(l, o, e) <=> s \in {5, 14}
      /\ in # 0 => (Empty(l, in, e) <=> s \in {6, 12})
  BY DEF Inside
<1>8. CASE s = 2
  BY <1>3, <1>4, <1>5, <1>6, <1>7, <1>8 DEF Inside, Shape
<1>9. CASE s = 7
  BY <1>3, <1>4, <1>5, <1>6, <1>7, <1>9 DEF Inside, Shape
<1> QED
  BY <1>8, <1>9

LEMMA InsideAmp ==
  ASSUME NEW l \in Seq(Char), NEW s \in Words, NEW o, NEW e \in Nat,
         NEW in \in Nat, NEW out \in Nat, NEW amp \in Nat,
         Inside(l, s, o, e, in, out, amp),
         e + 1 <= Len(l), l[e + 1] = "&"
  PROVE  amp = 0 /\ Inside(l, 3, o, e + 1, in, out, e + 1)
<1>1. o \in Nat /\ e \in 0..Len(l)
  BY OpenIs, Zenon
<1>2. l[e + 1] \in Special
  BY DEF Special, Mark
<1>3. /\ Empty(l, e + 1, e + 1)
      /\ \A i \in Fields(o, in, out, amp) : Empty(l, i, e + 1) <=> Empty(l, i, e)
  BY <1>2, MarkRead, Zenon
<1>4. amp = 0
  BY DEF Inside, Shape, Words
<1>5. /\ o \in Fields(o, in, out, amp) /\ (in # 0 => in \in Fields(o, in, out, amp))
      /\ out # 0 => out \in Fields(o, in, out, amp)
  BY DEF Fields
<1>6. /\ o \in Starts(l) /\ o < e + 1 /\ e + 1 <= Len(l)
      /\ Marked(l, o, e + 1, in, "<") /\ Marked(l, o, e + 1, out, ">")
      /\ Marked(l, o, e + 1, e + 1, "&")
      /\ \A k \in (o + 1)..(e + 1) : l[k] \in Special => k \in {in, out, e + 1}
      /\ in < e + 1 /\ out < e + 1
  <2>1. o \in Starts(l) /\ o < e
        /\ Marked(l, o, e, in, "<") /\ Marked(l, o, e, out, ">")
        /\ Marked(l, o, e, amp, "&")
        /\ \A k \in (o + 1)..e : l[k] \in Special => k \in {in, out, amp}
    BY DEF Inside
  <2>2. ASSUME NEW k \in (o + 1)..(e + 1), l[k] \in Special, k # e + 1
        PROVE  k \in {in, out, amp} /\ k # 0
    BY <1>1, <2>1, <2>2
  <2> QED
    BY <1>1, <1>4, <2>1, <2>2 DEF Marked
<1>7. /\ Empty(l, o, e) <=> s \in {5, 14}
      /\ in # 0 => (Empty(l, in, e) <=> s \in {6, 12})
      /\ out # 0 => (Empty(l, out, e) <=> s \in {8, 10})
      /\ s \notin {5, 14, 6, 12, 8, 10}
  BY DEF Inside, Words
<1> QED
  BY <1>3, <1>4, <1>5, <1>6, <1>7 DEF Inside, Shape

\* The first character of a command.
LEMMA InsideStart ==
  ASSUME NEW l \in Seq(Char), NEW o \in Starts(l),
         o + 1 <= Len(l), l[o + 1] \notin Special
  PROVE  Inside(l, IF l[o + 1] # Space THEN 2 ELSE IF o = 0 THEN 14 ELSE 5,
                o, o + 1, 0, 0, 0)
<1>1. o \in 0..Len(l) /\ Len(l) \in Nat /\ o \in 0..o /\ o \in Nat
  BY StartIs
<1>2. Empty(l, o, o)
  BY <1>1, Opened
<1>3. /\ Until(l, o) \in (o + 1)..(Len(l) + 1)
      /\ Until(l, o) <= Len(l) => l[Until(l, o)] \in Special
  BY <1>1, UntilIs
<1>4. Until(l, o) > o + 1
  BY <1>1, <1>3
<1>5. Empty(l, o, o + 1) <=> l[o + 1] = Space
  BY <1>1, <1>2, <1>4, FieldStep
<1>6. \A k \in (o + 1)..(o + 1) : l[k] \notin Special
  BY <1>1
<1>7. \A c : Marked(l, o, o + 1, 0, c)
  BY DEF Marked
<1> QED
  BY <1>1, <1>5, <1>6, <1>7 DEF Inside, Shape

-----------------------------------------------------------------------------
(* What the marks found say of the command, in the words of the grammar.   *)

LEMMA MarkIs ==
  /\ Special = {";", "|", "<", ">", "&"} /\ Separator \cap Mark = {}
  /\ Space \notin Special /\ "<" # ">" /\ "<" # "&" /\ ">" # "&"
  /\ {"<", ">", "&"} \cap Separator = {} /\ Mark = {"<", ">", "&"}
  /\ Separator \subseteq Special /\ Mark \subseteq Special
BY DEF Special, Separator, Mark, Space

\* The places that have been found are marks of the command.
LEMMA StopsBehind ==
  ASSUME NEW l \in Seq(Char), NEW s, NEW o, NEW e \in Nat,
         NEW in \in Nat, NEW out \in Nat, NEW amp \in Nat,
         Inside(l, s, o, e, in, out, amp)
  PROVE  /\ Stop(l, o) \in (e + 1)..(Len(l) + 1)
         /\ e + 1 <= Len(l) /\ l[e + 1] \in Mark => Stop(l, o) # e + 1
         /\ \A k \in (o + 1)..e : l[k] \in Mark => k \in {in, out, amp} \ {0}
<1>1. o \in 0..Len(l) /\ Len(l) \in Nat /\ o < e /\ e <= Len(l) /\ o \in Nat
  BY StartIs DEF Inside
<1>2. /\ Stop(l, o) \in (o + 1)..(Len(l) + 1)
      /\ Stop(l, o) <= Len(l) => l[Stop(l, o)] \in Separator
      /\ \A j \in (o + 1)..Len(l) : l[j] \in Separator => Stop(l, o) <= j
  BY <1>1, UptoIs DEF Stop
<1>3. ASSUME NEW k \in (o + 1)..e
      PROVE  /\ l[k] \notin Separator
             /\ l[k] \in Mark => k \in {in, out, amp} \ {0}
  <2>1. k # 0 /\ (l[k] \in Special => k \in {in, out, amp})
    BY <1>1 DEF Inside
  <2>2. l[k] \in Special => l[k] \in {"<", ">", "&"}
    BY <2>1 DEF Inside, Marked
  <2> QED
    BY <2>1, <2>2, MarkIs
<1>4. Stop(l, o) \in (e + 1)..(Len(l) + 1)
  <2>1. ASSUME Stop(l, o) <= e PROVE FALSE
    <3>1. Stop(l, o) \in (o + 1)..e /\ Stop(l, o) <= Len(l)
      BY <1>1, <1>2, <2>1
    <3> QED
      BY <1>2, <1>3, <3>1
  <2> QED
    BY <1>1, <1>2, <2>1
<1>5. ASSUME e + 1 <= Len(l), l[e + 1] \in Mark PROVE Stop(l, o) # e + 1
  BY <1>2, <1>5, MarkIs
<1> QED
  BY <1>3, <1>4, <1>5

\* The command may stop behind place e.
Closing(l, e) == e = Len(l) \/ (e + 1 <= Len(l) /\ l[e + 1] \in Separator)

\* The next separator, or the end of the line, ends the command.
LEMMA StopsAt ==
  ASSUME NEW l \in Seq(Char), NEW s, NEW o, NEW e \in Nat,
         NEW in \in Nat, NEW out \in Nat, NEW amp \in Nat,
         Inside(l, s, o, e, in, out, amp),
         Closing(l, e)
  PROVE  Stop(l, o) = e + 1
<1>1. o \in 0..Len(l) /\ Len(l) \in Nat /\ o < e /\ e <= Len(l) /\ o \in Nat
  BY StartIs DEF Inside
<1>2. \A j \in (o + 1)..Len(l) : l[j] \in Separator => Stop(l, o) <= j
  BY <1>1, UptoIs DEF Stop
<1>3. Stop(l, o) \in (e + 1)..(Len(l) + 1)
  BY StopsBehind
<1> QED
  BY <1>1, <1>2, <1>3 DEF Closing

\* The marks read so far are the marks of the command up to here.
Sees(l, o, e, in, out, amp) ==
  /\ in # 0 => in \in Marks(l, o)
  /\ out # 0 => out \in Marks(l, o)
  /\ amp # 0 => amp \in Marks(l, o)
  /\ e + 1 <= Len(l) /\ l[e + 1] \in Mark => e + 1 \in Marks(l, o)
  /\ \A i \in Marks(l, o) : i <= e => i \in {in, out, amp} \ {0}

LEMMA MarksFound ==
  ASSUME NEW l \in Seq(Char), NEW s, NEW o, NEW e \in Nat,
         NEW in \in Nat, NEW out \in Nat, NEW amp \in Nat,
         Inside(l, s, o, e, in, out, amp)
  PROVE  Sees(l, o, e, in, out, amp)
<1>1. o \in 0..Len(l) /\ Len(l) \in Nat /\ o < e /\ e <= Len(l) /\ o \in Nat
  BY StartIs DEF Inside
<1>4. /\ Stop(l, o) \in (e + 1)..(Len(l) + 1)
      /\ e + 1 <= Len(l) /\ l[e + 1] \in Mark => Stop(l, o) # e + 1
      /\ \A k \in (o + 1)..e : l[k] \in Mark => k \in {in, out, amp} \ {0}
  BY StopsBehind
<1>5. \A i \in Marks(l, o) : i \in (o + 1)..(Stop(l, o) - 1) /\ l[i] \in Mark
  BY DEF Marks
<1>6. ASSUME NEW i \in (o + 1)..e, l[i] \in Mark
      PROVE  i \in Marks(l, o)
  BY <1>1, <1>4, <1>6 DEF Marks
<1>10. /\ in # 0 => in \in (o + 1)..e /\ l[in] \in Mark
       /\ out # 0 => out \in (o + 1)..e /\ l[out] \in Mark
       /\ amp # 0 => amp \in (o + 1)..e /\ l[amp] \in Mark
  BY MarkIs DEF Inside, Marked
<1>7. ASSUME e + 1 <= Len(l), l[e + 1] \in Mark
      PROVE  e + 1 \in Marks(l, o)
  BY <1>1, <1>4, <1>7 DEF Marks
<1>9. ASSUME NEW i \in Marks(l, o), i <= e
      PROVE  i \in {in, out, amp} \ {0}
  <2>1. i \in (o + 1)..e /\ l[i] \in Mark
    BY <1>1, <1>4, <1>5, <1>9
  <2> QED
    BY <1>4, <2>1
<1> QED
  BY <1>1, <1>4, <1>6, <1>7, <1>9, <1>10 DEF Sees

\* A command that may end ends well.
Ended(l, s, o, e, in, out, amp) ==
  /\ Stop(l, o) = e + 1 /\ IsCommand(l, o)
  /\ \A i \in Fields(o, in, out, amp) : i \in 0..e /\ Until(l, i) <= e + 1
  /\ Has(l, o, "&") <=> s = 3
  /\ Given(l, o, "<") = IF in = 0 THEN Null ELSE Field(l, in)
  /\ Given(l, o, ">") = IF out = 0 THEN Null ELSE Field(l, out)
  /\ Has(l, o, "<") <=> in # 0
  /\ Has(l, o, ">") <=> out # 0

LEMMA Completes ==
  ASSUME NEW l \in Seq(Char), NEW s \in Ends, NEW o, NEW e \in Nat,
         NEW in \in Nat, NEW out \in Nat, NEW amp \in Nat,
         Inside(l, s, o, e, in, out, amp),
         Closing(l, e)
  PROVE  Ended(l, s, o, e, in, out, amp)
<1> DEFINE M == {in, out, amp} \ {0}
<1>1. /\ o \in Nat /\ e \in 0..Len(l)
      /\ \A i \in Fields(o, in, out, amp) : i \in 0..e
  BY OpenIs, Zenon
<1>2. Len(l) \in Nat
  OBVIOUS
<1>3. Stop(l, o) = e + 1
  BY StopsAt
<1>0. Sees(l, o, e, in, out, amp)
  BY MarksFound
<1>4. Marks(l, o) = M
  <2>1. M \subseteq Marks(l, o)
    <3>1. /\ in # 0 => in \in Marks(l, o)
          /\ out # 0 => out \in Marks(l, o)
          /\ amp # 0 => amp \in Marks(l, o)
      BY <1>0 DEF Sees
    <3> QED
      BY <3>1
  <2>3. \A i \in Marks(l, o) : i <= e => i \in M
    BY <1>0 DEF Sees
  <2>2. \A i \in Marks(l, o) : i <= e
    BY <1>1, <1>3 DEF Marks
  <2> HIDE DEF M
  <2> QED
    BY <2>1, <2>2, <2>3
<1>5. \A i \in Fields(o, in, out, amp) : i \in 0..e /\ Until(l, i) <= e + 1
  <2> SUFFICES ASSUME NEW i \in Fields(o, in, out, amp)
               PROVE  i \in 0..e /\ Until(l, i) <= e + 1
    OBVIOUS
  <2>1. i \in 0..e /\ i \in 0..Len(l)
    BY <1>1, <1>2
  <2>2. Until(l, i) <= Len(l) + 1
    BY <2>1, UntilIs
  <2>3. ASSUME e + 1 <= Len(l), l[e + 1] \in Separator
        PROVE  Until(l, i) <= e + 1
    <3>1. e + 1 \in (i + 1)..Len(l)
      BY <1>1, <2>1, <2>3
    <3>2. l[e + 1] \in Special
      BY <2>3 DEF Special
    <3> QED
      BY <2>1, <3>1, <3>2, UntilIs
  <2> QED
    BY <2>1, <2>2, <2>3 DEF Closing
<1>6. \A i \in Fields(o, in, out, amp) : Field(l, i) = <<>> <=> Empty(l, i, e)
  BY <1>1, <1>5, ReadAll
<1>7. /\ in # 0 => l[in] = "<"
      /\ out # 0 => l[out] = ">"
      /\ amp # 0 => l[amp] = "&"
      /\ amp # 0 => in < amp /\ out < amp
      /\ amp # 0 <=> s = 3
  BY DEF Inside, Marked, Shape, Ends, Words
<1>8. /\ ~Empty(l, o, e) /\ (in # 0 => ~Empty(l, in, e))
      /\ (out # 0 => ~Empty(l, out, e)) /\ (amp # 0 => Empty(l, amp, e))
  BY DEF Inside, Ends, Words
<1>9. /\ o \in Fields(o, in, out, amp) /\ (in # 0 => in \in Fields(o, in, out, amp))
      /\ (out # 0 => out \in Fields(o, in, out, amp))
      /\ (amp # 0 => amp \in Fields(o, in, out, amp))
  BY DEF Fields
<1>10. IsCommand(l, o)
  <2>1. Field(l, o) # <<>>
    BY <1>6, <1>8, <1>9
  <2>5. /\ in # 0 => l[in] # "&" /\ Field(l, in) # <<>>
        /\ out # 0 => l[out] # "&" /\ Field(l, out) # <<>>
        /\ amp # 0 => l[amp] = "&" /\ Field(l, amp) = <<>>
    BY <1>6, <1>7, <1>8, <1>9
  <2>2. \A i \in M : (l[i] = "&") <=> (Field(l, i) = <<>>)
    BY <2>5
  <2>3. \A i, j \in M : l[i] = l[j] => i = j
    BY <1>7, MarkIs
  <2>4. \A i, j \in M : l[i] = "&" => j <= i
    BY <1>7, <2>5
  <2> HIDE DEF M
  <2> QED
    BY <1>4, <2>1, <2>2, <2>3, <2>4 DEF IsCommand
<1>11. /\ Has(l, o, "&") <=> s = 3
       /\ Has(l, o, "<") <=> in # 0
       /\ Has(l, o, ">") <=> out # 0
  BY <1>4, <1>7, MarkIs DEF Has
<1>12. Given(l, o, "<") = IF in = 0 THEN Null ELSE Field(l, in)
  <2>1. ASSUME in # 0 PROVE Where(l, o, "<") = in
    <3>1. in \in Marks(l, o) /\ l[in] = "<"
      BY <1>4, <1>7, <2>1
    <3>2. \A i \in Marks(l, o) : l[i] = "<" => i = in
      BY <1>4, <1>7, MarkIs
    <3> QED
      BY <3>1, <3>2 DEF Where
  <2>2. CASE in = 0
    BY <1>11, <2>2 DEF Given
  <2>3. CASE in # 0
    BY <1>11, <2>1, <2>3 DEF Given
  <2> QED
    BY <2>2, <2>3
<1>13. Given(l, o, ">") = IF out = 0 THEN Null ELSE Field(l, out)
  <2>1. ASSUME out # 0 PROVE Where(l, o, ">") = out
    <3>1. out \in Marks(l, o) /\ l[out] = ">"
      BY <1>4, <1>7, <2>1
    <3>2. \A i \in Marks(l, o) : l[i] = ">" => i = out
      BY <1>4, <1>7, MarkIs
    <3> QED
      BY <3>1, <3>2 DEF Where
  <2>2. CASE out = 0
    BY <1>11, <2>2 DEF Given
  <2>3. CASE out # 0
    BY <1>11, <2>1, <2>3 DEF Given
  <2> QED
    BY <2>2, <2>3
<1> QED
  BY <1>3, <1>5, <1>10, <1>11, <1>12, <1>13 DEF Ended

\* Three ways to be no command.
LEMMA EmptyField ==
  ASSUME NEW l \in Seq(Char), NEW s, NEW o, NEW e \in Nat,
         NEW in \in Nat, NEW out \in Nat, NEW amp \in Nat,
         Inside(l, s, o, e, in, out, amp),
         s \in {5, 14, 6, 8, 10, 12},
         e = Len(l) \/ (e + 1 <= Len(l) /\ l[e + 1] \in Special)
  PROVE  ~IsCommand(l, o)
<1> DEFINE x == Open(s, o, in, out, amp)
<1>1. x \in 0..e /\ e \in 0..Len(l)
  <2>1. /\ e \in 0..Len(l) /\ Open(s, o, in, out, amp) \in Fields(o, in, out, amp)
        /\ \A i \in Fields(o, in, out, amp) : i \in 0..e
    BY OpenIs, Zenon
  <2> QED
    BY <2>1
<1>2. \/ x = o
      \/ x # 0 /\ x \in {in, out} /\ l[x] \in {"<", ">"}
  BY DEF Open, Inside, Shape, Marked
<1>3. Empty(l, x, e)
  BY DEF Open, Inside, Shape
<1> HIDE DEF x
<1>4. x \in 0..Len(l) /\ Len(l) \in Nat
  BY <1>1
<1>5. Until(l, x) <= e + 1
  <2>1. Until(l, x) <= Len(l) + 1
    BY <1>4, UntilIs
  <2>2. ASSUME e + 1 <= Len(l), l[e + 1] \in Special
        PROVE  Until(l, x) <= e + 1
    <3>1. e + 1 \in (x + 1)..Len(l)
      BY <1>1, <2>2
    <3> QED
      BY <1>4, <2>2, <3>1, UntilIs
  <2> QED
    BY <2>1, <2>2
<1>6. Field(l, x) = <<>>
  BY <1>1, <1>3, <1>5, ReadAll
<1>10. Sees(l, o, e, in, out, amp)
  BY MarksFound
<1>9. (in # 0 => in \in Marks(l, o)) /\ (out # 0 => out \in Marks(l, o))
  BY <1>10 DEF Sees
<1>7. CASE x = o
  BY <1>6, <1>7 DEF IsCommand
<1>8. CASE x # 0 /\ x \in {in, out} /\ l[x] \in {"<", ">"}
  <2>1. x \in Marks(l, o)
    BY <1>8, <1>9
  <2>2. l[x] # "&"
    BY <1>8, MarkIs
  <2> QED
    BY <1>6, <2>1, <2>2 DEF IsCommand
<1> QED
  BY <1>2, <1>7, <1>8

\* Nothing but spaces may stand behind an "&".
LEMMA BehindAmp ==
  ASSUME NEW l \in Seq(Char), NEW s \in {3}, NEW o, NEW e \in Nat,
         NEW in \in Nat, NEW out \in Nat, NEW amp \in Nat,
         Inside(l, s, o, e, in, out, amp),
         e + 1 <= Len(l), l[e + 1] \in Mark \/ l[e + 1] \notin Special \cup {Space}
  PROVE  ~IsCommand(l, o)
<1>1. /\ amp # 0 /\ l[amp] = "&" /\ amp \in Fields(o, in, out, amp)
      /\ Open(s, o, in, out, amp) = amp
  BY DEF Inside, Shape, Marked, Fields, Open
<1>2. amp \in 0..e /\ e \in 0..Len(l) /\ Until(l, amp) > e
  <2>1. /\ e \in 0..Len(l)
        /\ \A i \in Fields(o, in, out, amp) :
             i \in 0..e /\ (i = Open(s, o, in, out, amp) => Until(l, i) > e)
    BY OpenIs
  <2> QED
    BY <1>1, <2>1
<1>3. amp \in Marks(l, o) /\ (l[e + 1] \in Mark => e + 1 \in Marks(l, o))
  <2>1. Sees(l, o, e, in, out, amp)
    BY MarksFound
  <2> QED
    BY <1>1, <2>1 DEF Sees
<1>4. CASE l[e + 1] \in Mark
  <2>1. ~(e + 1 <= amp)
    BY <1>2
  <2> QED
    BY <1>1, <1>3, <1>4, <2>1 DEF IsCommand
<1>5. CASE l[e + 1] \notin Special \cup {Space}
  <2>1. amp \in 0..Len(l) /\ e + 1 \in (amp + 1)..Len(l) /\ Len(l) \in 0..Len(l)
        /\ amp \in 0..Len(l)
    BY <1>2
  <2>2. /\ First(l, amp) <= e + 1 /\ First(l, amp) \in Nat
    BY <1>5, <2>1, FirstIs
  <2>3. /\ Until(l, amp) <= Len(l) => l[Until(l, amp)] \in Special
        /\ Until(l, amp) <= Len(l) + 1 /\ Until(l, amp) \in Nat
    BY <2>1, UntilIs
  <2>4. Until(l, amp) > e + 1
    BY <1>2, <1>5, <2>1, <2>3
  <2>5. ~Empty(l, amp, Len(l))
    BY <2>1, <2>2, <2>3, <2>4 DEF Empty, ReadTo
  <2>6. Field(l, amp) # <<>>
    BY <2>1, <2>3, <2>5, ReadAll
  <2> QED
    BY <1>1, <1>3, <2>6 DEF IsCommand
<1> QED
  BY <1>4, <1>5

\* No redirection is given twice.
LEMMA Twice ==
  ASSUME NEW l \in Seq(Char), NEW s, NEW o, NEW e \in Nat,
         NEW in \in Nat, NEW out \in Nat, NEW amp \in Nat,
         Inside(l, s, o, e, in, out, amp), e + 1 <= Len(l),
         (in # 0 /\ l[e + 1] = "<") \/ (out # 0 /\ l[e + 1] = ">")
  PROVE  ~IsCommand(l, o)
<1>4. Sees(l, o, e, in, out, amp)
  BY MarksFound
<1>1. \A i \in {in, out} \ {0} : i <= e /\ i # e + 1 /\ i \in Marks(l, o)
  <2>1. \A i \in {in, out} \ {0} : i \in Marks(l, o)
    BY <1>4 DEF Sees
  <2>2. \A i \in {in, out} \ {0} : i <= e
    BY DEF Inside, Marked
  <2> QED
    BY <2>1, <2>2
<1>2. (in # 0 => l[in] = "<") /\ (out # 0 => l[out] = ">")
  BY DEF Inside, Marked
<1>3. e + 1 \in Marks(l, o)
  <2>1. l[e + 1] \in Mark
    BY MarkIs
  <2> QED
    BY <1>4, <2>1 DEF Sees
<1> QED
  BY <1>1, <1>2, <1>3 DEF IsCommand

-----------------------------------------------------------------------------
(* Commands that are complete, and the queue as far as the line was read.  *)

Named(l, b, i, e) == IF i = 0 THEN b = <<>> ELSE Read(l, b, i, e)

Filled(l, b, a, c) == IF Has(l, a, c) THEN b = Cut(Given(l, a, c)) ELSE b = <<>>

Complete(l, o, e, b, x, y) ==
  /\ e = Stop(l, o) /\ IsCommand(l, o)
  /\ b = Cut(Field(l, o)) /\ Filled(l, x, o, "<") /\ Filled(l, y, o, ">")

Before(l, n) == {a \in Starts(l) : a < n}

Agrees(l, q, n) ==
  /\ Len(q) = Cardinality(Before(l, n))
  /\ \A a \in Before(l, n) :
       /\ IsCommand(l, a) /\ Number(l, a) \in 1..Len(q)
       /\ Means(q[Number(l, a)], Meaning(l, a))

\* At its end all of a command is in the buffers.
LEMMA AllRead ==
  ASSUME NEW l \in Seq(Char), NEW s \in Ends, NEW o, NEW e \in Nat,
         NEW in \in Nat, NEW out \in Nat, NEW amp \in Nat,
         Inside(l, s, o, e, in, out, amp),
         Closing(l, e),
         NEW b \in Seq(Char), NEW x \in Seq(Char), NEW y \in Seq(Char),
         Read(l, b, o, e), Named(l, x, in, e), Named(l, y, out, e)
  PROVE  Complete(l, o, e + 1, b, x, y)
<1>1. /\ Stop(l, o) = e + 1 /\ IsCommand(l, o)
      /\ \A i \in Fields(o, in, out, amp) : i \in 0..e /\ Until(l, i) <= e + 1
      /\ Given(l, o, "<") = IF in = 0 THEN Null ELSE Field(l, in)
      /\ Given(l, o, ">") = IF out = 0 THEN Null ELSE Field(l, out)
      /\ Has(l, o, "<") <=> in # 0
      /\ Has(l, o, ">") <=> out # 0
  <2>1. Ended(l, s, o, e, in, out, amp)
    BY Completes
  <2> QED
    BY <2>1, Zenon DEF Ended
<1>2. e \in 0..Len(l)
  BY DEF Inside
<1>3. ASSUME NEW i \in Fields(o, in, out, amp), NEW z \in Seq(Char),
             Read(l, z, i, e)
      PROVE  z = Cut(Field(l, i))
  <2>1. i \in 0..e /\ Until(l, i) <= e + 1
    BY <1>1
  <2> QED
    BY <1>2, <1>3, <2>1, ReadAll
<1>4. /\ o \in Fields(o, in, out, amp)
      /\ in # 0 => in \in Fields(o, in, out, amp)
      /\ out # 0 => out \in Fields(o, in, out, amp)
  BY DEF Fields
<1>5. b = Cut(Field(l, o))
  BY <1>3, <1>4
<1>6. Filled(l, x, o, "<")
  <2>1. CASE in = 0
    BY <1>1, <2>1 DEF Filled, Named
  <2>2. CASE in # 0
    <3>1. x = Cut(Field(l, in))
      BY <1>3, <1>4, <2>2 DEF Named
    <3> QED
      BY <1>1, <2>2, <3>1 DEF Filled
  <2> QED
    BY <2>1, <2>2
<1>7. Filled(l, y, o, ">")
  <2>1. CASE out = 0
    BY <1>1, <2>1 DEF Filled, Named
  <2>2. CASE out # 0
    <3>1. y = Cut(Field(l, out))
      BY <1>3, <1>4, <2>2 DEF Named
    <3> QED
      BY <1>1, <2>2, <3>1 DEF Filled
  <2> QED
    BY <2>1, <2>2
<1> QED
  BY <1>1, <1>5, <1>6, <1>7 DEF Complete

-----------------------------------------------------------------------------
\* The commands of a line can be counted.
LEMMA StartsFinite ==
  ASSUME NEW l \in Seq(Char)
  PROVE  /\ IsFiniteSet(Starts(l))
         /\ \A T \in SUBSET Starts(l) :
              IsFiniteSet(T) /\ Cardinality(T) \in Nat
<1>1. Len(l) \in Nat /\ 0 \in Int
  OBVIOUS
<1>2. IsFiniteSet(0..Len(l))
  BY <1>1, FS_Interval
<1>3. \A o \in Starts(l) : o \in 0..Len(l)
  BY StartIs
<1>4. Starts(l) \in SUBSET (0..Len(l))
  BY <1>3
<1>5. IsFiniteSet(Starts(l))
  BY <1>2, <1>4, FS_Subset
<1>6. \A T \in SUBSET Starts(l) : IsFiniteSet(T)
  BY <1>5, FS_Subset
<1> QED
  BY <1>5, <1>6, FS_CardinalityType

\* At the beginning of the line nothing is queued.
LEMMA AgreesNone == \A l \in Seq(Char) : Agrees(l, <<>>, 0)
<1> SUFFICES ASSUME NEW l \in Seq(Char) PROVE Agrees(l, <<>>, 0)
  OBVIOUS
<1>1. Before(l, 0) = {}
  <2>1. ASSUME NEW a \in Starts(l) PROVE ~(a < 0)
    BY StartIs
  <2> QED
    BY <2>1 DEF Before
<1>2. Cardinality(Before(l, 0)) = 0
  BY <1>1, FS_EmptySet
<1>3. Len(<<>>) = 0
  OBVIOUS
<1> QED
  BY <1>1, <1>2, <1>3 DEF Agrees

\* The starts up to the end of a command.
LEMMA BeforeStop ==
  ASSUME NEW l \in Seq(Char), NEW o \in Starts(l)
  PROVE  /\ Before(l, Stop(l, o)) = Before(l, o) \cup {o}
         /\ Number(l, o) = Cardinality(Before(l, o)) + 1
         /\ Cardinality(Before(l, Stop(l, o))) = Cardinality(Before(l, o)) + 1
         /\ Stop(l, o) <= Len(l) => Stop(l, o) \in Starts(l)
<1>1. o \in 0..Len(l) /\ Len(l) \in Nat
  BY StartIs
<1>2. /\ Stop(l, o) \in (o + 1)..(Len(l) + 1)
      /\ Stop(l, o) <= Len(l) => l[Stop(l, o)] \in Separator
      /\ \A j \in (o + 1)..Len(l) : l[j] \in Separator => Stop(l, o) <= j
  BY <1>1, UptoIs DEF Stop
<1>3. \A a \in Starts(l) : a \in 0..Len(l) /\ (a # 0 => l[a] \in Separator)
  BY StartIs
<1>4. ASSUME NEW a \in Starts(l), a < Stop(l, o), ~(a < o)
      PROVE  a = o
  <2>1. a \in 0..Len(l) /\ (a # 0 => l[a] \in Separator)
    BY <1>3
  <2>2. ASSUME a # o PROVE FALSE
    <3>1. a \in (o + 1)..Len(l) /\ a # 0
      BY <1>1, <1>4, <2>1, <2>2
    <3>2. Stop(l, o) <= a
      BY <1>2, <2>1, <3>1
    <3> QED
      BY <1>1, <1>2, <1>4, <2>1, <3>2
  <2> QED
    BY <2>2
<1>5. ASSUME NEW a \in Starts(l), a < o \/ a = o
      PROVE  a < Stop(l, o) /\ a <= o
  BY <1>1, <1>2, <1>3, <1>5
<1>6. Before(l, Stop(l, o)) = Before(l, o) \cup {o}
  BY <1>4, <1>5 DEF Before
<1>7. {b \in Starts(l) : b <= o} = Before(l, o) \cup {o}
  <2>1. ASSUME NEW a \in Starts(l), a <= o, ~(a < o) PROVE a = o
    BY <1>1, <1>3, <2>1
  <2> QED
    BY <1>5, <2>1 DEF Before
<1>8. o \notin Before(l, o)
  BY <1>1 DEF Before
<1>9. Before(l, o) \in SUBSET Starts(l)
  BY DEF Before
<1>10. Cardinality(Before(l, o) \cup {o}) = Cardinality(Before(l, o)) + 1
  <2>1. IsFiniteSet(Before(l, o))
    BY <1>9, StartsFinite
  <2> QED
    BY <1>8, <2>1, FS_AddElement
<1>11. Stop(l, o) <= Len(l) => Stop(l, o) \in Starts(l)
  BY <1>1, <1>2 DEF Starts
<1> QED
  BY <1>6, <1>7, <1>10, <1>11 DEF Number

\* A command put into the queue is the next one of the line.
LEMMA AgreesInsert ==
  ASSUME NEW l \in Seq(Char), NEW o \in Starts(l), NEW q \in Seq(Queued),
         Agrees(l, q, o), NEW e, NEW b, NEW x, NEW y,
         Complete(l, o, e, b, x, y),
         NEW in \in Expanded(x), NEW out \in Expanded(y),
         NEW r \in Queued,
         r = [text |-> b, in |-> in, out |-> out, conn |-> Connection(l, o)]
  PROVE  Agrees(l, Append(q, r), e)
<1> DEFINE q1 == Append(q, r)
<1>1. /\ Len(q1) = Len(q) + 1 /\ Len(q) \in Nat
      /\ \A k \in 1..Len(q) : q1[k] = q[k]
      /\ q1[Len(q) + 1] = r
  BY AppendProperties
<1>2. e = Stop(l, o) /\ IsCommand(l, o)
  BY DEF Complete
<1>3. /\ Before(l, e) = Before(l, o) \cup {o}
      /\ Number(l, o) = Len(q) + 1
      /\ Len(q1) = Cardinality(Before(l, e))
  BY <1>1, <1>2, BeforeStop DEF Agrees
<1>4. Means(r, Meaning(l, o))
  <2>1. /\ r.text = b /\ r.in = in /\ r.out = out /\ r.conn = Connection(l, o)
    OBVIOUS
  <2>2. /\ Meaning(l, o).text = Field(l, o) /\ Meaning(l, o).conn = Connection(l, o)
        /\ Meaning(l, o).in = Given(l, o, "<") /\ Meaning(l, o).out = Given(l, o, ">")
    BY DEF Meaning
  <2>3. b = Cut(Field(l, o))
    BY DEF Complete
  <2>4. \A z, c : Filled(l, z, o, c) => Expanded(z) \subseteq {Cut(Given(l, o, c)), Null}
    BY DEF Filled, Expanded
  <2>5. /\ in \in {Cut(Given(l, o, "<")), Null}
        /\ out \in {Cut(Given(l, o, ">")), Null}
    BY <2>4 DEF Complete
  <2> HIDE DEF q1
  <2> QED
    BY <2>1, <2>2, <2>3, <2>5 DEF Means
<1> HIDE DEF q1
<1>5. ASSUME NEW a \in Before(l, e)
      PROVE  /\ IsCommand(l, a) /\ Number(l, a) \in 1..Len(q1)
             /\ Means(q1[Number(l, a)], Meaning(l, a))
  <2>1. CASE a = o
    <3>1. Number(l, a) = Len(q) + 1 /\ q1[Number(l, a)] = r
      BY <1>1, <1>3, <2>1
    <3> QED
      BY <1>1, <1>2, <1>4, <2>1, <3>1
  <2>2. CASE a # o
    <3>1. a \in Before(l, o)
      BY <1>3, <2>2
    <3>2. /\ IsCommand(l, a) /\ Number(l, a) \in 1..Len(q)
          /\ Means(q[Number(l, a)], Meaning(l, a))
      BY <3>1 DEF Agrees
    <3> QED
      BY <1>1, <3>2
  <2> QED
    BY <2>1, <2>2
<1> QED
  BY <1>3, <1>5 DEF Agrees, q1

\* What the queue holds when the commands in front of n have been inserted.
LEMMA AgreesPart ==
  ASSUME NEW l \in Seq(Char), NEW n \in Starts(l), NEW q \in Seq(Queued),
         Agrees(l, q, n)
  PROVE  Holds(l, q) /\ Len(q) < Cardinality(Starts(l))
<1>1. Len(q) = Cardinality(Before(l, n)) /\ Len(q) \in Nat
  BY DEF Agrees
<1>2. Number(l, n) = Len(q) + 1 /\ n \in 0..Len(l)
  BY <1>1, BeforeStop, StartIs
<1>3. \A a : {b \in Starts(l) : b <= a} \in SUBSET Starts(l)
  OBVIOUS
<1>4. ASSUME NEW a \in Starts(l), ~(a < n)
      PROVE  Number(l, a) >= Number(l, n) /\ Number(l, a) \in Nat
  <2> DEFINE A == {b \in Starts(l) : b <= a}
             N == {b \in Starts(l) : b <= n}
  <2>1. a \in 0..Len(l) /\ \A b \in Starts(l) : b \in 0..Len(l)
    BY StartIs
  <2>2. N \in SUBSET A
    <3>1. ASSUME NEW b \in Starts(l), b <= n PROVE b <= a
      BY <1>2, <1>4, <2>1, <3>1
    <3> QED
      BY <3>1
  <2>3. IsFiniteSet(A) /\ Cardinality(A) \in Nat /\ Cardinality(N) \in Nat
    BY <1>3, StartsFinite
  <2>4. Number(l, a) = Cardinality(A) /\ Number(l, n) = Cardinality(N)
    BY DEF Number
  <2> HIDE DEF A, N
  <2>5. Cardinality(N) <= Cardinality(A)
    BY <2>2, <2>3, FS_Subset
  <2> QED
    BY <2>3, <2>4, <2>5
<1>5. Holds(l, q)
  <2> SUFFICES ASSUME NEW a \in Starts(l), Number(l, a) <= Len(q)
               PROVE  Means(q[Number(l, a)], Meaning(l, a))
    BY DEF Holds
  <2>1. a < n
    BY <1>1, <1>2, <1>4
  <2> QED
    BY <2>1 DEF Agrees, Before
<1>6. Len(q) < Cardinality(Starts(l))
  <2> DEFINE N == {b \in Starts(l) : b <= n}
  <2>1. Number(l, n) = Cardinality(N)
    BY DEF Number
  <2>2. N \in SUBSET Starts(l)
    OBVIOUS
  <2>3. IsFiniteSet(Starts(l)) /\ Cardinality(Starts(l)) \in Nat
    <3>1. Starts(l) \in SUBSET Starts(l)
      OBVIOUS
    <3> QED
      BY <3>1, StartsFinite
  <2> HIDE DEF N
  <2>4. Cardinality(N) <= Cardinality(Starts(l))
    BY <2>2, <2>3, FS_Subset
  <2> QED
    BY <1>1, <1>2, <2>1, <2>3, <2>4
<1> QED
  BY <1>5, <1>6

\* At the end of the line, the queue is what the grammar says.
LEMMA AgreesAll ==
  ASSUME NEW l \in Seq(Char), NEW q \in Seq(Queued), Agrees(l, q, Len(l) + 1)
  PROVE  /\ Holds(l, q) /\ Len(q) = Cardinality(Starts(l))
         /\ \A a \in Starts(l) : IsCommand(l, a)
<1>1. Before(l, Len(l) + 1) = Starts(l)
  <2>1. \A a \in Starts(l) : a < Len(l) + 1
    BY StartIs
  <2> QED
    BY <2>1 DEF Before
<1> QED
  BY <1>1 DEF Agrees, Holds

-----------------------------------------------------------------------------
(* The buffers, one character further.                                     *)

LEMMA ReadKept ==
  ASSUME NEW l \in Seq(Char), NEW s, NEW o, NEW e \in Nat,
         NEW in \in Nat, NEW out \in Nat, NEW amp \in Nat,
         Inside(l, s, o, e, in, out, amp), e + 1 <= Len(l),
         NEW i \in Fields(o, in, out, amp), NEW z, Read(l, z, i, e),
         \/ i # Open(s, o, in, out, amp)
         \/ l[e + 1] \in Special
         \/ l[e + 1] = Space /\ Empty(l, i, e)
  PROVE  Read(l, z, i, e + 1)
<1>1. /\ e \in 0..Len(l) /\ i \in 0..e
      /\ i = Open(s, o, in, out, amp) => Until(l, i) > e
      /\ i # Open(s, o, in, out, amp) => Until(l, i) <= e
  BY OpenIs
<1>2. i \in 0..Len(l) /\ Len(l) \in Nat
  BY <1>1
<1>3. /\ Until(l, i) \in Nat
      /\ Until(l, i) <= Len(l) => l[Until(l, i)] \in Special
      /\ \A j \in (i + 1)..Len(l) : l[j] \in Special => Until(l, i) <= j
  BY <1>2, UntilIs
<1>4. CASE Until(l, i) <= e + 1
  BY <1>1, <1>4, Closed
<1>5. CASE Until(l, i) > e + 1
  <2>1. l[e + 1] \notin Special
    <3>1. e + 1 \in (i + 1)..Len(l)
      BY <1>1, <1>2
    <3> QED
      BY <1>1, <1>3, <1>5, <3>1
  <2>2. i = Open(s, o, in, out, amp)
    BY <1>1, <1>3, <1>5
  <2>3. l[e + 1] = Space /\ Empty(l, i, e)
    BY <2>1, <2>2
  <2> QED
    BY <1>1, <1>5, <2>3, SpaceSkipped
<1> QED
  BY <1>1, <1>3, <1>4, <1>5

\* How far each buffer reaches when a character that is not special has been
\* read and not yet appended.
LEMMA PlainRead ==
  ASSUME NEW l \in Seq(Char), NEW s, NEW o, NEW e \in Nat,
         NEW in \in Nat, NEW out \in Nat, NEW amp \in Nat,
         Inside(l, s, o, e, in, out, amp),
         e + 1 <= Len(l), l[e + 1] \notin Special, s = 3 => l[e + 1] = Space,
         NEW b, NEW x, NEW y,
         Read(l, b, o, e), Named(l, x, in, e), Named(l, y, out, e),
         NEW t, t = Onward(s, l[e + 1])
  PROVE  /\ Read(l, b, o, IF t = 2 THEN e ELSE e + 1)
         /\ Named(l, x, in, IF t \in {7, 13} THEN e ELSE e + 1)
         /\ Named(l, y, out, IF t \in {9, 11} THEN e ELSE e + 1)
<1> DEFINE c == l[e + 1]
<1>1. Shape(s, in, out, amp)
  BY DEF Inside
<1>2. /\ Empty(l, o, e) <=> s \in {5, 14}
      /\ in # 0 => (Empty(l, in, e) <=> s \in {6, 12})
      /\ out # 0 => (Empty(l, out, e) <=> s \in {8, 10})
      /\ in # 0 => in > o
      /\ out # 0 => out > o
      /\ in # 0 /\ out # 0 => in # out
      /\ amp # 0 => amp > o /\ amp # in /\ amp # out
  <2>1. o \in 0..Len(l)
    BY StartIs DEF Inside
  <2>2. "<" # ">" /\ "<" # "&" /\ ">" # "&"
    OBVIOUS
  <2>3. /\ Marked(l, o, e, in, "<") /\ Marked(l, o, e, out, ">")
        /\ Marked(l, o, e, amp, "&")
    BY DEF Inside
  <2>4. /\ in # 0 => in > o /\ l[in] = "<"
        /\ out # 0 => out > o /\ l[out] = ">"
        /\ amp # 0 => amp > o /\ l[amp] = "&"
    BY <2>1, <2>3 DEF Marked
  <2>5. /\ Empty(l, o, e) <=> s \in {5, 14}
        /\ in # 0 => (Empty(l, in, e) <=> s \in {6, 12})
        /\ out # 0 => (Empty(l, out, e) <=> s \in {8, 10})
    BY DEF Inside
  <2> QED
    BY <2>2, <2>4, <2>5
<1>3. /\ o \in Fields(o, in, out, amp)
      /\ in # 0 => in \in Fields(o, in, out, amp)
      /\ out # 0 => out \in Fields(o, in, out, amp)
  BY DEF Fields
<1>4. t = IF c = Space THEN s ELSE IF s \in {5, 14} THEN 2
          ELSE IF s \in {6, 8, 10, 12} THEN s + 1 ELSE s
  BY DEF Onward
<1>8. s \notin {2, 5, 14} => o # Open(s, o, in, out, amp)
  <2> SUFFICES ASSUME s \notin {2, 5, 14} PROVE o # Open(s, o, in, out, amp)
    OBVIOUS
  <2>1. CASE s \in {6, 7} \/ s \in {12, 13}
    <3>1. Open(s, o, in, out, amp) = in
      BY <2>1, OpenField
    <3>2. in # 0
      BY <1>1, <2>1, ShapeMarks
    <3> QED
      BY <1>2, <3>1, <3>2
  <2>2. CASE s \in {8, 9} \/ s \in {10, 11}
    <3>1. Open(s, o, in, out, amp) = out
      BY <2>2, OpenField
    <3>2. out # 0
      BY <1>1, <2>2, ShapeMarks
    <3> QED
      BY <1>2, <3>1, <3>2
  <2>3. CASE s = 3
    <3>1. Open(s, o, in, out, amp) = amp
      BY <2>3, OpenField
    <3>2. amp # 0
      BY <1>1, <2>3, ShapeMarks
    <3> QED
      BY <1>2, <3>1, <3>2
  <2> QED
    BY <1>1, <2>1, <2>2, <2>3, ShapeMarks
<1>9. /\ in # 0 /\ s \notin {6, 7, 12, 13} => in # Open(s, o, in, out, amp)
      /\ out # 0 /\ s \notin {8, 9, 10, 11} => out # Open(s, o, in, out, amp)
  <2>1. CASE s \in {2, 5, 14}
    <3>1. Open(s, o, in, out, amp) = o
      BY <2>1, OpenField
    <3>2. in = 0 /\ out = 0
      BY <1>1, <2>1, ShapeMarks
    <3> QED
      BY <3>1, <3>2
  <2>2. CASE s \in {6, 7} \/ s \in {12, 13}
    <3>1. Open(s, o, in, out, amp) = in
      BY <2>2, OpenField
    <3>2. in # 0
      BY <1>1, <2>2, ShapeMarks
    <3> QED
      BY <1>2, <2>2, <3>1, <3>2
  <2>3. CASE s \in {8, 9} \/ s \in {10, 11}
    <3>1. Open(s, o, in, out, amp) = out
      BY <2>3, OpenField
    <3>2. out # 0
      BY <1>1, <2>3, ShapeMarks
    <3> QED
      BY <1>2, <2>3, <3>1, <3>2
  <2>4. CASE s = 3
    <3>1. Open(s, o, in, out, amp) = amp
      BY <2>4, OpenField
    <3>2. amp # 0
      BY <1>1, <2>4, ShapeMarks
    <3> QED
      BY <1>2, <3>1, <3>2
  <2> QED
    BY <1>1, <2>1, <2>2, <2>3, <2>4, ShapeMarks
<1>5. ASSUME t # 2 PROVE Read(l, b, o, e + 1)
  <2>1. \/ o # Open(s, o, in, out, amp)
        \/ c = Space /\ Empty(l, o, e)
    <3> HIDE DEF c
    <3>1. CASE s \in {2, 5, 14}
      BY <1>2, <1>4, <1>5, <3>1
    <3>2. CASE s \notin {2, 5, 14}
      BY <1>8, <3>2
    <3> QED
      BY <3>1, <3>2
  <2> HIDE DEF c
  <2> QED
    BY <1>3, <2>1, ReadKept DEF c
<1>6. ASSUME t \notin {7, 13}, in # 0 PROVE Read(l, x, in, e + 1)
  <2>1. \/ in # Open(s, o, in, out, amp)
        \/ c = Space /\ Empty(l, in, e)
    <3> HIDE DEF c
    <3>1. CASE s \in {6, 7, 12, 13}
      BY <1>2, <1>4, <1>6, <3>1
    <3>2. CASE s \notin {6, 7, 12, 13}
      BY <1>6, <1>9, <3>2
    <3> QED
      BY <3>1, <3>2
  <2>2. Read(l, x, in, e)
    BY <1>6 DEF Named
  <2> HIDE DEF c
  <2> QED
    BY <1>3, <1>6, <2>1, <2>2, ReadKept DEF c
<1>7. ASSUME t \notin {9, 11}, out # 0 PROVE Read(l, y, out, e + 1)
  <2>1. \/ out # Open(s, o, in, out, amp)
        \/ c = Space /\ Empty(l, out, e)
    <3> HIDE DEF c
    <3>1. CASE s \in {8, 9, 10, 11}
      BY <1>2, <1>4, <1>7, <3>1
    <3>2. CASE s \notin {8, 9, 10, 11}
      BY <1>7, <1>9, <3>2
    <3> QED
      BY <3>1, <3>2
  <2>2. Read(l, y, out, e)
    BY <1>7 DEF Named
  <2> HIDE DEF c
  <2> QED
    BY <1>3, <1>7, <2>1, <2>2, ReadKept DEF c
<1> QED
  BY <1>5, <1>6, <1>7 DEF Named

\* A mark ends the field in front of it, and opens an empty one.
LEMMA MarkKept ==
  ASSUME NEW l \in Seq(Char), NEW s, NEW o, NEW e \in Nat,
         NEW in \in Nat, NEW out \in Nat, NEW amp \in Nat,
         Inside(l, s, o, e, in, out, amp),
         e + 1 <= Len(l), l[e + 1] \in Special,
         NEW b, NEW x, NEW y,
         Read(l, b, o, e), Named(l, x, in, e), Named(l, y, out, e)
  PROVE  /\ Read(l, b, o, e + 1)
         /\ Named(l, x, in, e + 1)
         /\ Named(l, y, out, e + 1)
         /\ Named(l, <<>>, e + 1, e + 1)
<1>1. /\ o \in Fields(o, in, out, amp)
      /\ in # 0 => in \in Fields(o, in, out, amp)
      /\ out # 0 => out \in Fields(o, in, out, amp)
  BY DEF Fields
<1>2. \A i \in Fields(o, in, out, amp) : \A z :
        Read(l, z, i, e) => Read(l, z, i, e + 1)
  BY ReadKept
<1>3. e + 1 \in 0..Len(l)
  OBVIOUS
<1>4. Read(l, <<>>, e + 1, e + 1)
  BY <1>3, Opened
<1> QED
  BY <1>1, <1>2, <1>4 DEF Named

\* Nothing stands in front of the next special character or of the end.
LEMMA NotStarted ==
  ASSUME NEW l \in Seq(Char), NEW o \in Starts(l),
         o = Len(l) \/ (o + 1 <= Len(l) /\ l[o + 1] \in Special)
  PROVE  ~IsCommand(l, o)
<1>1. o \in 0..Len(l) /\ o \in 0..o /\ Len(l) \in Nat
  BY StartIs
<1>2. Empty(l, o, o)
  BY <1>1, Opened
<1>3. Until(l, o) <= o + 1
  <2>1. /\ Until(l, o) <= Len(l) + 1
        /\ \A j \in (o + 1)..Len(l) : l[j] \in Special => Until(l, o) <= j
    BY <1>1, UntilIs
  <2> QED
    BY <1>1, <2>1
<1>4. Field(l, o) = <<>>
  BY <1>1, <1>2, <1>3, ReadAll
<1> QED
  BY <1>4 DEF IsCommand

\* A line of spaces only.
LEMMA BlankIs ==
  ASSUME NEW l \in Seq(Char), NEW s, s \in {14}, NEW o,
         NEW in \in Nat, NEW out \in Nat, NEW amp \in Nat,
         Inside(l, s, o, Len(l), in, out, amp),
         NEW b \in Seq(Char), Read(l, b, o, Len(l))
  PROVE  o = 0 /\ Blank(l) /\ b = <<>>
<1>1. o = 0 /\ Empty(l, o, Len(l)) /\ in = 0 /\ out = 0 /\ amp = 0
  BY DEF Inside, Shape
<1>2. Len(l) \in Nat /\ 0 \in 0..Len(l)
  OBVIOUS
<1>3. \A k \in 1..Len(l) : l[k] \notin Special
  BY <1>1, <1>2 DEF Inside
<1>4. /\ Until(l, 0) \in (0 + 1)..(Len(l) + 1)
      /\ Until(l, 0) <= Len(l) => l[Until(l, 0)] \in Special
  BY <1>2, UntilIs
<1>5. Until(l, 0) = Len(l) + 1
  BY <1>2, <1>3, <1>4
<1>6. First(l, 0) >= Len(l) + 1
  BY <1>1, <1>2, <1>5 DEF Empty, ReadTo
<1>7. \A j \in (0 + 1)..Len(l) : l[j] # Space => First(l, 0) <= j
  BY <1>2, FirstIs
<1>8. Blank(l)
  <2>1. First(l, 0) \in Nat
    BY <1>2, FirstIs
  <2> QED
    BY <1>2, <1>6, <1>7, <2>1 DEF Blank
<1>9. Len(b) = 0
  BY <1>1 DEF Read, Amount
<1> QED
  BY <1>1, <1>8, <1>9, EmptySeq

\* A line with a separator or a mark is not one.
LEMMA NotBlank ==
  ASSUME NEW l \in Seq(Char), NEW i \in 1..Len(l), l[i] \in Special
  PROVE  ~Blank(l)
BY MarkIs DEF Blank

\* The characters at which the automaton has no move.
LEMMA Stuck ==
  ASSUME NEW s, NEW c \in Char \cup {Nul},
         \A m \in Moves : ~(m.from = s /\ m.c = c)
  PROVE  /\ s \in {1, 14} => c \in Special
         /\ s \in {4, 5, 6, 8, 10, 12} => c \in Special \cup {Nul}
         /\ s = 3 => c \in Mark \/ c \notin Special \cup {Space, Nul}
         /\ s # 2
         /\ s = 7 => c = "<"
         /\ s = 11 => c = ">"
         /\ s \in {9, 13} => c \in {"<", ">"}
<1>0. \A a, d, t, do : Move(a, d, t, do) \in Moves => ~(s = a /\ c = d)
  <2>1. \A a, d, t, do : Move(a, d, t, do).from = a /\ Move(a, d, t, do).c = d
    BY DEF Move
  <2> QED
    BY <2>1
<1>1. /\ s \in Ends \cup {1, 14} => c # Nul
      /\ s \in Ends => c # ";" /\ c # "|"
      /\ s \in Words => c # "&"
  <2>1. /\ s \in Ends \cup {1, 14} => Move(s, Nul, 15, <<"term">>) \in Moves
        /\ s \in Ends => Move(s, ";", 4, <<"seq">>) \in Moves
        /\ s \in Ends => Move(s, "|", 4, <<"pipe">>) \in Moves
        /\ s \in Words => Move(s, "&", 3, <<"bg">>) \in Moves
    BY DEF Moves, Separators
  <2>2. s \in Ends \cup {1, 14} => c # Nul
    BY <1>0, <2>1, Zenon
  <2>3. s \in Ends => c # ";"
    BY <1>0, <2>1, Zenon
  <2>4. s \in Ends => c # "|"
    BY <1>0, <2>1, Zenon
  <2>5. s \in Words => c # "&"
    BY <1>0, <2>1, Zenon
  <2> QED
    BY <2>2, <2>3, <2>4, <2>5
<1>2. /\ s = 2 => c # "<" /\ c # ">"
      /\ s = 7 => c # ">"
      /\ s = 11 => c # "<"
  <2>1. /\ Move(2, "<", 6, <<>>) \in Moves /\ Move(2, ">", 10, <<>>) \in Moves
        /\ Move(7, ">", 8, <<>>) \in Moves /\ Move(11, "<", 12, <<>>) \in Moves
    BY DEF Moves, Redirections
  <2> QED
    BY <1>0, <2>1
<1>3. s \in Words \cup {1, 3, 4, 5, 6, 8, 10, 12, 14} => c # Space
  <2>1. /\ s \in Words => Move(s, Space, s, <<Fills(s)>>) \in Moves
        /\ s \in {3, 5, 6, 8, 10, 12, 14} => Move(s, Space, s, <<>>) \in Moves
        /\ Move(1, Space, 14, <<"new">>) \in Moves
        /\ Move(4, Space, 5, <<"term", "new">>) \in Moves
    BY DEF Moves, Spaces
  <2> QED
    BY <1>0, <2>1
<1>4. s \in Words \cup {1, 4, 5, 6, 8, 10, 12, 14} => c \notin Letter
  <2>1. ASSUME c \in Letter
        PROVE  /\ Move(1, c, 2, <<"new", "append">>) \in Moves
               /\ Move(4, c, 2, <<"term", "new", "append">>) \in Moves
               /\ Move(5, c, 2, <<"append">>) \in Moves
               /\ Move(14, c, 2, <<"append">>) \in Moves
               /\ s \in Words => Move(s, c, s, <<Fills(s)>>) \in Moves
               /\ s \in {6, 8, 10, 12} => Move(s, c, s + 1, <<Fills(s + 1)>>) \in Moves
    BY <2>1 DEF Moves, Letters
  <2> QED
    BY <1>0, <2>1
<1>5. c \in Letter \/ c \in {";", "|", "&", "<", ">"} \/ c = Space \/ c = Nul
  BY MarkIs DEF Char
<1>6. Special = {";", "|", "&", "<", ">"} /\ Mark = {"<", ">", "&"}
  BY MarkIs
<1>7. Letter \cap (Special \cup {Space, Nul}) = {}
  BY ParserAssumption
<1> QED
  BY <1>1, <1>2, <1>3, <1>4, <1>5, <1>6, <1>7 DEF Ends, Words

-----------------------------------------------------------------------------
(* The invariant: where in the line, and in which command, the call is.    *)

\* How far a buffer reaches that an action a is still to append to.
At(a) == IF todo = <<a>> THEN p - 1 ELSE p

InPiece(o) ==
  /\ \E in, out, amp \in 0..p :
       /\ Inside(line, cs, o, p, in, out, amp)
       /\ Read(line, buffer, o, At("append"))
       /\ Named(line, stdin, in, At("append_in"))
       /\ Named(line, stdout, out, At("append_out"))
  /\ \/ todo = <<>> /\ command = [conn |-> IF cs = 3 THEN "bg" ELSE "none"]
     \/ cs \in Words /\ todo = <<Fills(cs)>> /\ command = [conn |-> "none"]
     \/ cs = 3 /\ todo = <<"bg">> /\ command = [conn |-> "none"]

Whole(o) == Complete(line, o, Stop(line, o), buffer, stdin, stdout)

\* Behind the separator, and before and after its action.
Joining(o) ==
  /\ Whole(o) /\ cs = 4 /\ p = Stop(line, o) /\ p <= Len(line)
  /\ \/ todo = <<"seq">> /\ line[p] = ";"
     \/ todo = <<"pipe">> /\ line[p] = "|"
  /\ command = [conn |-> IF Has(line, o, "&") THEN "bg" ELSE "none"]

Joined(o) ==
  /\ Whole(o) /\ cs = 4 /\ p = Stop(line, o) /\ p <= Len(line)
  /\ todo = <<>> /\ command = [conn |-> Connection(line, o)]

\* One character further, in the next command.
Passing(o) ==
  /\ Whole(o) /\ p = Stop(line, o) + 1 /\ p <= Len(line)
  /\ \/ cs = 5 /\ todo = <<"term", "new">> /\ line[p] = Space
     \/ cs = 2 /\ todo = <<"term", "new", "append">> /\ line[p] \in Letter
  /\ command = [conn |-> Connection(line, o)]

Ending(o) ==
  /\ Whole(o) /\ cs = 15 /\ todo = <<"term">>
  /\ p = Len(line) + 1 /\ Stop(line, o) = Len(line) + 1
  /\ command = [conn |-> Connection(line, o)]

Starting(o) ==
  /\ o + 1 = p /\ p <= Len(line)
  /\ \/ todo = <<"new">> /\ cs = (IF o = 0 THEN 14 ELSE 5) /\ line[p] = Space
     \/ todo = <<"new", "append">> /\ cs = 2 /\ line[p] \in Letter

AtCommand ==
  \E o \in Starts(line) :
    /\ Agrees(line, queue, o)
    /\ InPiece(o) \/ Joining(o) \/ Joined(o) \/ Passing(o) \/ Ending(o) \/ Starting(o)

AtStart == cs = 1 /\ todo = <<>> /\ p = 0 /\ queue = <<>> /\ buffer = <<>>
Erred   == cs = 0 /\ todo = <<>> /\ ~Accepted(line)
Nothing == /\ cs = 15 /\ todo \in {<<>>, <<"term">>} /\ p = Len(line) + 1
           /\ Blank(line) /\ buffer = <<>> /\ queue = <<>>
AtEnd   == /\ cs = 15 /\ todo = <<>> /\ p = Len(line) + 1
           /\ Agrees(line, queue, Len(line) + 1)

Follows ==
  /\ phase = "scan" /\ ~aborted => AtStart \/ Erred \/ Nothing \/ AtEnd \/ AtCommand
  /\ phase = "scan" /\ aborted =>
       /\ ~Blank(line) /\ cs # 0
       /\ \E o \in Starts(line) : Agrees(line, queue, o)
  /\ phase = "done" => Parsed /\ PrefixKept

\* A line with a command is not one, and a command has a text.
LEMMA CommandNotBlank ==
  ASSUME NEW l \in Seq(Char), NEW o \in Starts(l), IsCommand(l, o)
  PROVE  ~Blank(l) /\ Cut(Field(l, o)) # <<>>
<1>1. o \in 0..Len(l) /\ Len(l) \in Nat /\ Len(l) \in 0..Len(l)
  BY StartIs
<1>2. Until(l, o) <= Len(l) + 1 /\ Until(l, o) \in Nat /\ First(l, o) <= Until(l, o)
  BY <1>1, UntilIs
<1>3. /\ First(l, o) \in (o + 1)..(Len(l) + 1)
      /\ First(l, o) <= Len(l) => l[First(l, o)] # Space
  BY <1>1, FirstIs
<1>4. Field(l, o) # <<>> /\ Field(l, o) \in Seq(Char) /\ ~Empty(l, o, Len(l))
  BY <1>1, <1>2, ReadAll DEF IsCommand
<1>5. ~Blank(l)
  <2>1. First(l, o) <= Len(l)
    BY <1>1, <1>2, <1>3, <1>4 DEF Empty, ReadTo
  <2> QED
    BY <1>1, <1>3, <2>1 DEF Blank
<1>6. Cut(Field(l, o)) # <<>>
  <2> DEFINE s == Field(l, o)
             n == IF Len(s) < BufSize THEN Len(s) ELSE BufSize
  <2>1. s # Null /\ BufSize \in Nat \ {0}
    BY <1>4, ParserAssumption
  <2>2. Len(s) \in Nat \ {0}
    BY <1>4, EmptySeq
  <2>3. n \in Nat \ {0} /\ n <= Len(s)
    BY <2>1, <2>2
  <2>4. Cut(s) = SubSeq(s, 1, n)
    BY <2>1 DEF Cut
  <2> HIDE DEF n, s
  <2>5. \A k \in 1..n : s[k] \in Char
    BY <1>4, <2>2, <2>3 DEF s
  <2>6. Len(SubSeq(s, 1, n)) = IF 1 <= n THEN n - 1 + 1 ELSE 0
    <3>1. n \in Int /\ 1 \in Int
      BY <2>3
    <3> QED
      BY <2>5, <3>1, SubSeqProperties
  <2>7. Len(SubSeq(s, 1, n)) # 0
    BY <2>3, <2>6
  <2> QED
    BY <2>4, <2>7, EmptySeq DEF s
<1> QED
  BY <1>5, <1>6

\* One piece that is no command makes the line no line of the grammar.
LEMMA NotAccepted ==
  ASSUME NEW l \in Seq(Char), NEW o \in Starts(l), ~IsCommand(l, o), ~Blank(l)
  PROVE  ~Accepted(l)
BY DEF Accepted

LEMMA InitFollows == Init => Follows
BY DEF Init, Follows, AtStart

\* What reading a character finds and leaves alone.
LEMMA ScanFound ==
  ASSUME IInv, Scan
  PROVE  /\ phase = "scan" /\ phase' = "scan" /\ todo = <<>> /\ ~aborted /\ ~aborted'
         /\ cs # 0 /\ p \in 0..Len(line) /\ p \in Nat /\ Len(line) \in Nat
         /\ p' = p + 1 /\ line' = line
         /\ buffer' = buffer /\ stdin' = stdin /\ stdout' = stdout
         /\ command' = command /\ queue' = queue
         /\ line \in Seq(Char)
         /\ buffer \in Seq(Char) /\ stdin \in Seq(Char) /\ stdout \in Seq(Char)
         /\ CharAt(line, p + 1) \in Char \cup {Nul}
         /\ CharAt(line, p + 1) # Nul =>
              p + 1 <= Len(line) /\ CharAt(line, p + 1) = line[p + 1]
         /\ CharAt(line, p + 1) = Nul => p = Len(line)
<1>1. /\ phase = "scan" /\ phase' = "scan" /\ todo = <<>> /\ ~aborted /\ cs # 0
      /\ p # Len(line) + 1 /\ p \in 0..(Len(line) + 1) /\ p' = p + 1
      /\ UNCHANGED <<line, buffers, memory, aborted>>
  BY DEF Scan, Over, IInv, TypeOK
<1>2. /\ line \in Seq(Char)
      /\ buffer \in Seq(Char) /\ stdin \in Seq(Char) /\ stdout \in Seq(Char)
  BY DEF IInv, TypeOK, Buffer, Text
<1>3. Len(line) \in Nat
  BY <1>2
<1>4. p \in 0..Len(line) /\ p \in Nat
  BY <1>1, <1>3
<1>5. ASSUME p + 1 <= Len(line)
      PROVE  CharAt(line, p + 1) = line[p + 1] /\ line[p + 1] \in Char
             /\ line[p + 1] # Nul
  <2>1. p + 1 \in 1..Len(line)
    BY <1>3, <1>4, <1>5
  <2>2. line[p + 1] \in Char
    BY <1>2, <2>1
  <2>3. Nul \notin Char
    <3>1. Nul \notin Special /\ Nul # Space
      BY DEF Special, Separator, Mark, Nul, Space
    <3> QED
      BY <3>1, ParserAssumption DEF Char
  <2> QED
    BY <1>5, <2>2, <2>3 DEF CharAt
<1>6. ASSUME ~(p + 1 <= Len(line))
      PROVE  CharAt(line, p + 1) = Nul /\ p = Len(line)
  BY <1>3, <1>4, <1>6 DEF CharAt
<1> QED
  BY <1>1, <1>2, <1>3, <1>4, <1>5, <1>6 DEF buffers, memory

\* The moves of the first character, and of the first behind a separator.
LEMMA FromStart ==
  ASSUME NEW s, s = 1, NEW c, NEW t, NEW do, Leads(s, c, t, do)
  PROVE  \/ c = Nul /\ t = 15 /\ do = <<"term">>
         \/ c = Space /\ t = 14 /\ do = <<"new">>
         \/ c \in Letter /\ t = 2 /\ do = <<"new", "append">>
BY DEF Leads, Ends, Words

LEMMA FromJoin ==
  ASSUME NEW s, s = 4, NEW c, NEW t, NEW do, Leads(s, c, t, do)
  PROVE  \/ c = Space /\ t = 5 /\ do = <<"term", "new">>
         \/ c \in Letter /\ t = 2 /\ do = <<"term", "new", "append">>
BY DEF Leads, Ends, Words

\* The first character of the line; then the first behind a separator.
LEMMA ScanStart ==
  ASSUME IInv, Scan, AtStart
  PROVE  Follows'
<1> DEFINE c == CharAt(line, p + 1)
<1>1. /\ phase' = "scan" /\ ~aborted' /\ p' = 1 /\ line' = line
      /\ buffer' = <<>> /\ queue' = <<>> /\ cs = 1 /\ p = 0
      /\ line \in Seq(Char) /\ Len(line) \in Nat
      /\ c \in Char \cup {Nul}
      /\ c # Nul => 1 <= Len(line) /\ c = line[1]
      /\ c = Nul => 0 = Len(line)
  BY ScanFound DEF AtStart
<1>2. 0 \in Starts(line) /\ Agrees(line, <<>>, 0)
  BY <1>1, AgreesNone DEF Starts
<1>3. CASE /\ cs' = 0 /\ todo' = <<>>
           /\ \A m \in Moves : ~(m.from = cs /\ m.c = c)
  <2>1. c \in Special
    BY <1>1, <1>3, Stuck
  <2>2. c # Nul
    BY <2>1, ParserAssumption DEF Special, Separator, Mark, Nul
  <2>3. 1 \in 1..Len(line) /\ line[1] \in Special /\ 0 + 1 <= Len(line)
    BY <1>1, <2>1, <2>2
  <2>4. ~IsCommand(line, 0) /\ ~Blank(line)
    <3>1. ~Blank(line)
      BY <1>1, <2>3, NotBlank
    <3>2. line[0 + 1] \in Special
      BY <2>3
    <3> QED
      BY <1>1, <1>2, <2>3, <3>1, <3>2, NotStarted
  <2>5. ~Accepted(line)
    BY <1>1, <1>2, <2>4, NotAccepted
  <2> QED
    BY <1>1, <1>3, <2>5 DEF Follows, Erred
<1>4. CASE Leads(cs, c, cs', todo')
  <2>1. \/ c = Nul /\ cs' = 15 /\ todo' = <<"term">>
        \/ c = Space /\ todo' = <<"new">> /\ cs' = 14
        \/ c \in Letter /\ todo' = <<"new", "append">> /\ cs' = 2
    BY <1>1, <1>4, FromStart
  <2>2. CASE c = Nul /\ cs' = 15 /\ todo' = <<"term">>
    <3>1. Blank(line)
      BY <1>1, <2>2 DEF Blank
    <3> QED
      BY <1>1, <2>2, <3>1 DEF Follows, Nothing
  <2>3. CASE \/ c = Space /\ todo' = <<"new">> /\ cs' = 14
             \/ c \in Letter /\ todo' = <<"new", "append">> /\ cs' = 2
    <3>1. c # Nul
      BY <2>3, ParserAssumption DEF Nul, Space
    <3>2. Starting(0)'
      BY <1>1, <2>3, <3>1 DEF Starting
    <3> QED
      BY <1>1, <1>2, <3>2 DEF Follows, AtCommand
  <2> QED
    BY <2>1, <2>2, <2>3
<1> QED
  BY <1>3, <1>4, Scanned

LEMMA ScanJoined ==
  ASSUME IInv, Scan, NEW o \in Starts(line), Agrees(line, queue, o), Joined(o)
  PROVE  Follows'
<1> DEFINE c == CharAt(line, p + 1)
<1>1. /\ phase' = "scan" /\ ~aborted' /\ p' = p + 1 /\ line' = line
      /\ buffer' = buffer /\ stdin' = stdin /\ stdout' = stdout
      /\ command' = command /\ queue' = queue
      /\ line \in Seq(Char) /\ Len(line) \in Nat /\ p \in 0..Len(line)
      /\ c \in Char \cup {Nul}
      /\ c # Nul => p + 1 <= Len(line) /\ c = line[p + 1]
      /\ c = Nul => p = Len(line)
  BY ScanFound
<1>2. /\ cs = 4 /\ p = Stop(line, o) /\ Whole(o)
      /\ command = [conn |-> Connection(line, o)] /\ p <= Len(line)
  BY DEF Joined
<1>3. p \in Starts(line) /\ o # p
  <2>1. o \in 0..Len(line) /\ Stop(line, o) \in (o + 1)..(Len(line) + 1)
    BY <1>1, StartIs, UptoIs DEF Stop
  <2> QED
    BY <1>1, <1>2, <2>1, BeforeStop
<1>4. p # 0 /\ line[p] \in Special /\ p \in 1..Len(line)
  <2>1. o \in 0..Len(line) /\ Stop(line, o) \in (o + 1)..(Len(line) + 1)
    BY <1>1, StartIs, UptoIs DEF Stop
  <2>2. p # 0
    BY <1>1, <1>2, <2>1
  <2>3. line[p] \in Separator
    BY <1>1, <1>3, <2>2, StartIs, Zenon
  <2> QED
    BY <1>1, <1>2, <2>2, <2>3 DEF Special
<1>5. CASE /\ cs' = 0 /\ todo' = <<>>
           /\ \A m \in Moves : ~(m.from = cs /\ m.c = c)
  <2>1. c \in Special \cup {Nul}
    BY <1>1, <1>2, <1>5, Stuck
  <2>2. p = Len(line) \/ (p + 1 <= Len(line) /\ line[p + 1] \in Special)
    BY <1>1, <2>1
  <2>3. ~IsCommand(line, p)
    BY <1>1, <1>3, <2>2, NotStarted
  <2>4. ~Blank(line)
    BY <1>1, <1>4, NotBlank
  <2>5. ~Accepted(line)
    BY <1>1, <1>3, <2>3, <2>4, NotAccepted
  <2> QED
    BY <1>1, <1>5, <2>5 DEF Follows, Erred
<1>6. CASE Leads(cs, c, cs', todo')
  <2>1. \/ c = Space /\ todo' = <<"term", "new">> /\ cs' = 5
        \/ c \in Letter /\ todo' = <<"term", "new", "append">> /\ cs' = 2
    BY <1>2, <1>6, FromJoin
  <2>2. c # Nul
    BY <2>1, ParserAssumption DEF Nul, Space
  <2>3. Whole(o)'
    BY <1>1, <1>2 DEF Whole
  <2>4. Passing(o)'
    BY <1>1, <1>2, <2>1, <2>2, <2>3 DEF Passing
  <2> QED
    BY <1>1, <2>4 DEF Follows, AtCommand
<1> QED
  BY <1>5, <1>6, Scanned

\* The states inside a command.
Within == {2, 3, 5, 6, 7, 8, 9, 10, 11, 12, 13, 14}

\* The move of a letter or a space inside a command.
LEMMA LeadsOn ==
  ASSUME NEW s \in Within, NEW c, c \in Letter \cup {Space}, NEW t, NEW do,
         Leads(s, c, t, do)
  PROVE  /\ t = Onward(s, c) /\ c \notin Special /\ c # Nul
         /\ s = 3 => c = Space
         /\ do = IF t \in Words THEN <<Fills(t)>> ELSE <<>>
<1>1. c \notin Special /\ c # Nul
  <2>1. Space \notin Special /\ Space # Nul
    BY DEF Special, Separator, Mark, Space, Nul
  <2> QED
    BY <2>1, ParserAssumption
<1>2. c # ";" /\ c # "|" /\ c # "&" /\ c # "<" /\ c # ">"
  BY <1>1, MarkIs
<1>3. Space \notin Letter
  BY ParserAssumption
<1>4. \/ c \in Letter \cup {Space} /\ s \in Words /\ t = s /\ do = <<Fills(t)>>
      \/ c = Space /\ s \in {3, 5, 6, 8, 10, 12, 14} /\ t = s /\ do = <<>>
      \/ c \in Letter /\ s \in {5, 14} /\ t = 2 /\ do = <<Fills(t)>>
      \/ c \in Letter /\ s \in {6, 8, 10, 12} /\ t = s + 1 /\ do = <<Fills(t)>>
  <2>1. s # 1 /\ s # 4
    BY DEF Within
  <2> QED
    BY <1>1, <1>2, <2>1, Zenon DEF Leads
<1>5. t = Onward(s, c) /\ (s = 3 => c = Space)
      /\ do = IF t \in Words THEN <<Fills(t)>> ELSE <<>>
  <2>1. CASE c \in Letter \cup {Space} /\ s \in Words /\ t = s /\ do = <<Fills(t)>>
    <3>1. s \notin {3, 5, 14, 6, 8, 10, 12}
      BY <2>1 DEF Words
    <3> QED
      BY <2>1, <3>1 DEF Onward
  <2>2. CASE c = Space /\ s \in {3, 5, 6, 8, 10, 12, 14} /\ t = s /\ do = <<>>
    <3>1. s \notin Words
      BY <2>2 DEF Words
    <3> QED
      BY <2>2, <3>1 DEF Onward
  <2>3. CASE c \in Letter /\ s \in {5, 14} /\ t = 2 /\ do = <<Fills(t)>>
    <3>1. t \in Words /\ c # Space /\ s # 3
      BY <1>3, <2>3 DEF Words
    <3> QED
      BY <2>3, <3>1 DEF Onward
  <2>4. CASE c \in Letter /\ s \in {6, 8, 10, 12} /\ t = s + 1 /\ do = <<Fills(t)>>
    <3>1. t \in Words /\ c # Space /\ s # 3 /\ s \notin {5, 14}
      BY <1>3, <2>4 DEF Words
    <3> QED
      BY <2>4, <3>1 DEF Onward
  <2> QED
    BY <1>4, <2>1, <2>2, <2>3, <2>4
<1> QED
  BY <1>1, <1>5

\* It stays inside the command.
LEMMA OnwardIs ==
  ASSUME NEW s \in Within, NEW c, NEW t, t = Onward(s, c)
  PROVE  t \in Within /\ (t = 3 <=> s = 3)
BY DEF Onward, Within

\* Which buffer the state fills.
LEMMA FillsIs ==
  ASSUME NEW t \in Within, NEW do, do = IF t \in Words THEN <<Fills(t)>> ELSE <<>>
  PROVE  /\ do = <<"append">> <=> t = 2
         /\ do = <<"append_in">> <=> t \in {7, 13}
         /\ do = <<"append_out">> <=> t \in {9, 11}
<1>1. \A a, b : <<a>> = <<b>> <=> a = b
  OBVIOUS
<1>2. CASE t = 2
  BY <1>2 DEF Words, Fills
<1>3. CASE t \in {7, 13}
  BY <1>3 DEF Words, Fills
<1>4. CASE t \in {9, 11}
  BY <1>4 DEF Words, Fills
<1>5. CASE t \notin Words
  BY <1>5 DEF Words
<1> QED
  BY <1>2, <1>3, <1>4, <1>5 DEF Words

\* Behind a mark the line is not blank.
LEMMA ShapeNotBlank ==
  ASSUME NEW l \in Seq(Char), NEW s, NEW o, NEW e \in Nat,
         NEW in \in Nat, NEW out \in Nat, NEW amp \in Nat,
         Inside(l, s, o, e, in, out, amp),
         s \in Within \ {2, 14}
  PROVE  ~Blank(l)
<1>1. o \in 0..Len(l) /\ (o # 0 => l[o] \in Separator) /\ o < e /\ e <= Len(l)
      /\ Len(l) \in Nat
  BY StartIs DEF Inside
<1>2. /\ in # 0 => in \in 1..Len(l) /\ l[in] \in Special
      /\ out # 0 => out \in 1..Len(l) /\ l[out] \in Special
      /\ amp # 0 => amp \in 1..Len(l) /\ l[amp] \in Special
      /\ o # 0 => o \in 1..Len(l) /\ l[o] \in Special
  <2>1. /\ Marked(l, o, e, in, "<") /\ Marked(l, o, e, out, ">")
        /\ Marked(l, o, e, amp, "&")
    BY DEF Inside
  <2>2. /\ in # 0 => in \in 1..Len(l) /\ l[in] = "<"
        /\ out # 0 => out \in 1..Len(l) /\ l[out] = ">"
        /\ amp # 0 => amp \in 1..Len(l) /\ l[amp] = "&"
        /\ o # 0 => o \in 1..Len(l) /\ l[o] \in Separator
    BY <1>1, <2>1 DEF Marked
  <2> QED
    BY <2>2 DEF Special, Mark
<1>3. in # 0 \/ out # 0 \/ amp # 0 \/ o # 0
  <2>1. Shape(s, in, out, amp) /\ (s = 5 => o # 0)
    BY DEF Inside
  <2> QED
    BY <2>1 DEF Shape, Within
<1> QED
  BY <1>2, <1>3, NotBlank

\* InPiece, where nothing is left to do.
LEMMA PieceFound ==
  ASSUME IInv, Scan, NEW o \in Starts(line), InPiece(o)
  PROVE  \E in, out, amp \in 0..p :
           /\ Inside(line, cs, o, p, in, out, amp)
           /\ Read(line, buffer, o, p)
           /\ Named(line, stdin, in, p)
           /\ Named(line, stdout, out, p)
           /\ command = [conn |-> IF cs = 3 THEN "bg" ELSE "none"]
           /\ cs \in Within
<1>1. todo = <<>>
  BY ScanFound
<1>2. \A a : At(a) = p
  BY <1>1 DEF At
<1>3. command = [conn |-> IF cs = 3 THEN "bg" ELSE "none"]
  BY <1>1 DEF InPiece
<1>4. \A s, e, in, out, amp : Inside(line, s, o, e, in, out, amp) => s \in Within
  BY DEF Inside, Shape, Within
<1> QED
  BY <1>2, <1>3, <1>4 DEF InPiece

\* A command that is being read, with all of its characters appended.
Piece(o, in, out, amp) ==
  /\ Inside(line, cs, o, p, in, out, amp)
  /\ Read(line, buffer, o, p)
  /\ Named(line, stdin, in, p)
  /\ Named(line, stdout, out, p)
  /\ command = [conn |-> IF cs = 3 THEN "bg" ELSE "none"]

\* Inside a command: a letter or a space,
LEMMA ScanPlain ==
  ASSUME IInv, Scan, NEW o \in Starts(line), cs \in Within,
         NEW in \in 0..p, NEW out \in 0..p, NEW amp \in 0..p,
         Piece(o, in, out, amp),
         Leads(cs, CharAt(line, p + 1), cs', todo'),
         CharAt(line, p + 1) \in Letter \cup {Space}
  PROVE  InPiece(o)'
<1> DEFINE c == CharAt(line, p + 1)
<1>1. /\ p \in Nat /\ p' = p + 1 /\ line' = line /\ line \in Seq(Char)
      /\ buffer' = buffer /\ stdin' = stdin /\ stdout' = stdout
      /\ command' = command
      /\ c # Nul => p + 1 <= Len(line) /\ c = line[p + 1]
  BY ScanFound
<1>2. in \in Nat /\ out \in Nat /\ amp \in Nat
  BY <1>1
<1>3. /\ cs' = Onward(cs, c) /\ c \notin Special /\ c # Nul
      /\ cs = 3 => c = Space
      /\ todo' = IF cs' \in Words THEN <<Fills(cs')>> ELSE <<>>
  BY LeadsOn
<1>4. p + 1 <= Len(line) /\ c = line[p + 1]
  BY <1>1, <1>3
<1>5. cs' \in Within /\ (cs' = 3 <=> cs = 3)
  BY <1>3, OnwardIs
<1>6. /\ todo' = <<"append">> <=> cs' = 2
      /\ todo' = <<"append_in">> <=> cs' \in {7, 13}
      /\ todo' = <<"append_out">> <=> cs' \in {9, 11}
  BY <1>3, <1>5, FillsIs
<1>7. /\ Inside(line, cs, o, p, in, out, amp)
      /\ Read(line, buffer, o, p)
      /\ Named(line, stdin, in, p)
      /\ Named(line, stdout, out, p)
      /\ command = [conn |-> IF cs = 3 THEN "bg" ELSE "none"]
  BY DEF Piece
<1> HIDE DEF c
<1>8. Inside(line, cs', o, p + 1, in, out, amp)
  BY <1>1, <1>2, <1>3, <1>4, <1>7, InsideOn
<1>9. /\ Read(line, buffer, o, IF cs' = 2 THEN p ELSE p + 1)
      /\ Named(line, stdin, in, IF cs' \in {7, 13} THEN p ELSE p + 1)
      /\ Named(line, stdout, out, IF cs' \in {9, 11} THEN p ELSE p + 1)
  BY <1>1, <1>2, <1>3, <1>4, <1>7, PlainRead
<1>10. /\ At("append")' = IF cs' = 2 THEN p ELSE p + 1
       /\ At("append_in")' = IF cs' \in {7, 13} THEN p ELSE p + 1
       /\ At("append_out")' = IF cs' \in {9, 11} THEN p ELSE p + 1
  <2>1. p' - 1 = p
    BY <1>1
  <2> QED
    BY <1>1, <1>6, <2>1 DEF At
<1>11. in \in 0..p' /\ out \in 0..p' /\ amp \in 0..p'
  BY <1>1
<1>12. \/ todo' = <<>> /\ command' = [conn |-> IF cs' = 3 THEN "bg" ELSE "none"]
       \/ cs' \in Words /\ todo' = <<Fills(cs')>> /\ command' = [conn |-> "none"]
  <2>1. CASE cs' \in Words
    <3>1. cs' # 3
      BY <2>1 DEF Words
    <3> QED
      BY <1>1, <1>3, <1>5, <1>7, <2>1, <3>1
  <2>2. CASE cs' \notin Words
    BY <1>1, <1>3, <1>5, <1>7, <2>2
  <2> QED
    BY <2>1, <2>2
<1>13. /\ Inside(line, cs, o, p, in, out, amp)'
       /\ Read(line, buffer, o, At("append"))'
       /\ Named(line, stdin, in, At("append_in"))'
       /\ Named(line, stdout, out, At("append_out"))'
  BY <1>1, <1>8, <1>9, <1>10
<1> QED
  BY <1>11, <1>12, <1>13 DEF InPiece

\* a mark,
LEMMA ScanMark ==
  ASSUME IInv, Scan, NEW o \in Starts(line), cs \in Within,
         NEW in \in 0..p, NEW out \in 0..p, NEW amp \in 0..p,
         Piece(o, in, out, amp),
         Leads(cs, CharAt(line, p + 1), cs', todo'),
         CharAt(line, p + 1) \in Mark
  PROVE  InPiece(o)'
<1> DEFINE c == CharAt(line, p + 1)
<1>1. /\ p \in Nat /\ p' = p + 1 /\ line' = line /\ line \in Seq(Char)
      /\ buffer' = buffer /\ stdin' = stdin /\ stdout' = stdout
      /\ command' = command
      /\ buffer \in Seq(Char) /\ stdin \in Seq(Char) /\ stdout \in Seq(Char)
      /\ c # Nul => p + 1 <= Len(line) /\ c = line[p + 1]
  BY ScanFound
<1>2. in \in Nat /\ out \in Nat /\ amp \in Nat
  BY <1>1
<1>3. c \in {"<", ">", "&"} /\ c \notin {Nul, Space, ";", "|"} /\ c \notin Letter
      /\ c \in Special
  <2>1. c \in {"<", ">", "&"} /\ c \in Special
    BY MarkIs
  <2>2. c \notin {Nul, Space, ";", "|"}
    BY <2>1 DEF Nul, Space
  <2> QED
    BY <2>1, <2>2, ParserAssumption
<1>4. p + 1 <= Len(line) /\ c = line[p + 1]
  BY <1>1, <1>3
<1>5. /\ Inside(line, cs, o, p, in, out, amp)
      /\ Read(line, buffer, o, p)
      /\ Named(line, stdin, in, p)
      /\ Named(line, stdout, out, p)
      /\ command = [conn |-> IF cs = 3 THEN "bg" ELSE "none"]
  BY DEF Piece
<1> HIDE DEF c
<1>6. \/ c = "&" /\ cs' = 3 /\ todo' = <<"bg">> /\ cs \in Words
      \/ c = "<" /\ todo' = <<>> /\ cs = 2 /\ cs' = 6
      \/ c = "<" /\ todo' = <<>> /\ cs = 11 /\ cs' = 12
      \/ c = ">" /\ todo' = <<>> /\ cs = 2 /\ cs' = 10
      \/ c = ">" /\ todo' = <<>> /\ cs = 7 /\ cs' = 8
  <2>1. Leads(cs, c, cs', todo')
    BY DEF c
  <2> QED
    BY <1>3, <2>1, Zenon DEF Leads
<1>7. /\ Read(line, buffer, o, p + 1)
      /\ Named(line, stdin, in, p + 1)
      /\ Named(line, stdout, out, p + 1)
      /\ Named(line, <<>>, p + 1, p + 1)
  BY <1>1, <1>2, <1>3, <1>4, <1>5, MarkKept
<1>8. \A a : todo' # <<a>> => At(a)' = p + 1
  BY <1>1 DEF At
<1>9. At("append")' = p + 1 /\ At("append_in")' = p + 1 /\ At("append_out")' = p + 1
  <2>1. todo' \in {<<>>, <<"bg">>}
    BY <1>6
  <2>2. todo' # <<"append">> /\ todo' # <<"append_in">> /\ todo' # <<"append_out">>
    <3>1. \A a, b : <<>> # <<a>> /\ (<<a>> = <<b>> => a = b)
      OBVIOUS
    <3> QED
      BY <2>1, <3>1
  <2> QED
    BY <1>8, <2>2, Zenon
<1>10. ASSUME NEW i \in 0..(p + 1), NEW j \in 0..(p + 1), NEW k \in 0..(p + 1),
              Inside(line, cs', o, p + 1, i, j, k),
              Named(line, stdin, i, p + 1), Named(line, stdout, j, p + 1)
       PROVE  InPiece(o)'
  <2>1. \/ todo' = <<>> /\ command' = [conn |-> IF cs' = 3 THEN "bg" ELSE "none"]
        \/ cs' = 3 /\ todo' = <<"bg">> /\ command' = [conn |-> "none"]
    <3>1. cs # 3
      BY <1>6 DEF Words
    <3> QED
      BY <1>1, <1>5, <1>6, <3>1
  <2>2. /\ Inside(line, cs, o, p, i, j, k)'
        /\ Read(line, buffer, o, At("append"))'
        /\ Named(line, stdin, i, At("append_in"))'
        /\ Named(line, stdout, j, At("append_out"))'
    BY <1>1, <1>7, <1>9, <1>10
  <2>3. i \in 0..p' /\ j \in 0..p' /\ k \in 0..p'
    BY <1>1
  <2> QED
    BY <2>1, <2>2, <2>3 DEF InPiece
<1>11. in \in 0..(p + 1) /\ out \in 0..(p + 1) /\ amp \in 0..(p + 1)
       /\ p + 1 \in 0..(p + 1)
  BY <1>1
<1>12. CASE c = "&" /\ cs' = 3 /\ cs \in Words
  <2>1. Inside(line, 3, o, p + 1, in, out, p + 1)
    BY <1>1, <1>2, <1>4, <1>5, <1>12, InsideAmp
  <2> QED
    BY <1>7, <1>10, <1>11, <1>12, <2>1
<1>13. CASE c = "<" /\ ((cs = 2 /\ cs' = 6) \/ (cs = 11 /\ cs' = 12))
  <2>1. cs \in {2, 11}
    BY <1>13
  <2>2. in = 0 /\ Inside(line, IF cs = 2 THEN 6 ELSE 12, o, p + 1, p + 1, out, amp)
    BY <1>1, <1>2, <1>4, <1>5, <1>13, <2>1, InsideIn
  <2>3. stdin = <<>>
    BY <1>5, <2>2 DEF Named
  <2>4. cs' = IF cs = 2 THEN 6 ELSE 12
    BY <1>13
  <2> QED
    BY <1>7, <1>10, <1>11, <2>2, <2>3, <2>4
<1>14. CASE c = ">" /\ ((cs = 2 /\ cs' = 10) \/ (cs = 7 /\ cs' = 8))
  <2>1. cs \in {2, 7}
    BY <1>14
  <2>2. out = 0 /\ Inside(line, IF cs = 2 THEN 10 ELSE 8, o, p + 1, in, p + 1, amp)
    BY <1>1, <1>2, <1>4, <1>5, <1>14, <2>1, InsideOut
  <2>3. stdout = <<>>
    BY <1>5, <2>2 DEF Named
  <2>4. cs' = IF cs = 2 THEN 10 ELSE 8
    BY <1>14
  <2> QED
    BY <1>7, <1>10, <1>11, <2>2, <2>3, <2>4
<1> QED
  <2>1. \/ c = "&" /\ cs' = 3 /\ cs \in Words
        \/ c = "<" /\ ((cs = 2 /\ cs' = 6) \/ (cs = 11 /\ cs' = 12))
        \/ c = ">" /\ ((cs = 2 /\ cs' = 10) \/ (cs = 7 /\ cs' = 8))
    BY <1>6, Zenon
  <2> QED
    BY <2>1, <1>12, <1>13, <1>14, Zenon

\* The connection of a command that stops at a character, by that character.
LEMMA ConnectionIs ==
  ASSUME NEW l, NEW o
  PROVE  /\ CharAt(l, Stop(l, o)) = "|" => Connection(l, o) = "pipe"
         /\ CharAt(l, Stop(l, o)) = ";" =>
              Connection(l, o) = IF Has(l, o, "&") THEN "bg" ELSE "seq"
         /\ CharAt(l, Stop(l, o)) = Nul =>
              Connection(l, o) = IF Has(l, o, "&") THEN "bg" ELSE "none"
<1> DEFINE c == CharAt(l, Stop(l, o))
           h == Has(l, o, "&")
           k == Connection(l, o)
<1>1. k = CASE c = "|" -> "pipe" [] c # "|" /\ h -> "bg"
            [] c = ";" /\ ~h -> "seq" [] OTHER -> "none"
  BY DEF Connection
<1>2. ";" # "|" /\ Nul # "|" /\ Nul # ";" /\ h \in BOOLEAN
  BY DEF Nul, Has
<1> HIDE DEF c, h, k
<1>3. CASE c = "|"
  <2>1. k = "pipe" /\ c # ";" /\ c # Nul
    BY <1>1, <1>2, <1>3
  <2> QED
    BY <1>3, <2>1 DEF c, h, k
<1>4. CASE c = ";"
  <2>1. k = (IF h THEN "bg" ELSE "seq") /\ c # Nul /\ c # "|"
    BY <1>1, <1>2, <1>4
  <2> QED
    BY <1>4, <2>1 DEF c, h, k
<1>5. CASE c = Nul
  <2>1. k = (IF h THEN "bg" ELSE "none") /\ c # ";" /\ c # "|"
    BY <1>1, <1>2, <1>5
  <2> QED
    BY <1>5, <2>1 DEF c, h, k
<1> QED
  BY <1>3, <1>4, <1>5 DEF c, h, k

\* a separator or the end of the line,
LEMMA ScanEnd ==
  ASSUME IInv, Scan, NEW o \in Starts(line), Agrees(line, queue, o), cs \in Within,
         NEW in \in 0..p, NEW out \in 0..p, NEW amp \in 0..p,
         Piece(o, in, out, amp),
         Leads(cs, CharAt(line, p + 1), cs', todo'),
         CharAt(line, p + 1) \in Separator \cup {Nul}
  PROVE  Follows'
<1> DEFINE c == CharAt(line, p + 1)
<1>1. /\ p \in Nat /\ p' = p + 1 /\ line' = line /\ line \in Seq(Char)
      /\ buffer' = buffer /\ stdin' = stdin /\ stdout' = stdout
      /\ command' = command /\ queue' = queue
      /\ phase' = "scan" /\ ~aborted' /\ Len(line) \in Nat
      /\ buffer \in Seq(Char) /\ stdin \in Seq(Char) /\ stdout \in Seq(Char)
      /\ c # Nul => p + 1 <= Len(line) /\ c = line[p + 1]
      /\ c = Nul => p = Len(line)
  BY ScanFound
<1>2. in \in Nat /\ out \in Nat /\ amp \in Nat
  BY <1>1
<1>3. c \in {";", "|", Nul} /\ c \notin {Space, "<", ">", "&"} /\ c \notin Letter
  <2>1. /\ c \in {";", "|", Nul} /\ c \notin {Space, "<", ">", "&"}
        /\ c \in Special \cup {Nul}
    BY DEF Separator, Special, Nul, Space
  <2> QED
    BY <2>1, ParserAssumption
<1>4. /\ Inside(line, cs, o, p, in, out, amp)
      /\ Read(line, buffer, o, p)
      /\ Named(line, stdin, in, p)
      /\ Named(line, stdout, out, p)
      /\ command = [conn |-> IF cs = 3 THEN "bg" ELSE "none"]
  BY DEF Piece
<1>5. c # Nul => line[p + 1] \in Separator
  BY <1>1
<1>6. Closing(line, p)
  BY <1>1, <1>5 DEF Closing
<1> HIDE DEF c
<1>7. \/ c = Nul /\ cs' = 15 /\ todo' = <<"term">> /\ cs \in Ends \cup {14}
      \/ c = ";" /\ cs' = 4 /\ todo' = <<"seq">> /\ cs \in Ends
      \/ c = "|" /\ cs' = 4 /\ todo' = <<"pipe">> /\ cs \in Ends
  <2>1. Leads(cs, c, cs', todo') /\ c \notin Letter \cup {Space}
    BY <1>3 DEF c
  <2>2. cs # 1
    BY DEF Within
  <2>3. \/ c = Nul /\ cs' = 15 /\ todo' = <<"term">> /\ cs \in Ends \cup {1, 14}
        \/ c = ";" /\ cs' = 4 /\ todo' = <<"seq">> /\ cs \in Ends
        \/ c = "|" /\ cs' = 4 /\ todo' = <<"pipe">> /\ cs \in Ends
    BY <1>3, <2>1, Zenon DEF Leads
  <2> QED
    BY <2>2, <2>3, Zenon
<1>8. ASSUME cs \in Ends
      PROVE  /\ Complete(line, o, p + 1, buffer, stdin, stdout)
             /\ Stop(line, o) = p + 1 /\ (Has(line, o, "&") <=> cs = 3)
  <2>1. Complete(line, o, p + 1, buffer, stdin, stdout)
    BY <1>1, <1>2, <1>4, <1>6, <1>8, AllRead
  <2>2. Stop(line, o) = p + 1 /\ (Has(line, o, "&") <=> cs = 3)
    <3>1. Ended(line, cs, o, p, in, out, amp)
      BY <1>1, <1>2, <1>4, <1>6, <1>8, Completes
    <3> QED
      BY <3>1 DEF Ended
  <2> QED
    BY <2>1, <2>2
<1>9. ASSUME cs \in Ends
      PROVE  /\ Whole(o)' /\ p' = Stop(line', o) /\ Stop(line, o) = p + 1
             /\ command' = [conn |-> IF Has(line, o, "&") THEN "bg" ELSE "none"]
  <2>1. Whole(o)'
    BY <1>1, <1>8, <1>9 DEF Whole
  <2> QED
    BY <1>1, <1>4, <1>8, <1>9, <2>1
<1>10. CASE /\ cs \in Ends /\ cs' = 4
            /\ \/ c = ";" /\ todo' = <<"seq">>
               \/ c = "|" /\ todo' = <<"pipe">>
  <2>1. p + 1 <= Len(line) /\ c = line[p + 1]
    BY <1>1, <1>10 DEF Nul, c
  <2>2. Joining(o)'
    BY <1>1, <1>9, <1>10, <2>1 DEF Joining
  <2> QED
    BY <1>1, <2>2 DEF Follows, AtCommand
<1>11. CASE c = Nul /\ cs \in Ends /\ cs' = 15 /\ todo' = <<"term">>
  <2>1. p = Len(line)
    BY <1>1, <1>11 DEF c
  <2>2. CharAt(line, Stop(line, o)) = Nul
    BY <1>9, <1>11 DEF c
  <2>3. command' = [conn |-> Connection(line, o)]
    BY <1>9, <1>11, <2>2, ConnectionIs
  <2>4. Ending(o)'
    BY <1>1, <1>9, <1>11, <2>1, <2>3 DEF Ending
  <2> QED
    BY <1>1, <2>4 DEF Follows, AtCommand
<1>12. CASE c = Nul /\ cs = 14 /\ cs' = 15 /\ todo' = <<"term">>
  <2>1. p = Len(line)
    BY <1>1, <1>12 DEF c
  <2>2. o = 0 /\ Blank(line) /\ buffer = <<>>
    <3>1. cs \in {14} /\ Inside(line, cs, o, Len(line), in, out, amp)
          /\ Read(line, buffer, o, Len(line))
      BY <1>4, <1>12, <2>1
    <3> QED
      BY <1>1, <1>2, <3>1, BlankIs
  <2>3. queue = <<>>
    <3>1. Len(queue) = Cardinality(Before(line, 0))
      BY <2>2 DEF Agrees
    <3>2. Len(<<>>) = Cardinality(Before(line, 0))
      BY <1>1, AgreesNone DEF Agrees
    <3>3. Len(queue) = 0 /\ queue \in Seq(Queued)
      BY <3>1, <3>2 DEF IInv, TypeOK
    <3> QED
      BY <3>3, EmptySeq
  <2>4. Nothing'
    BY <1>1, <1>12, <2>1, <2>2, <2>3 DEF Nothing
  <2> QED
    BY <1>1, <2>4 DEF Follows
<1> QED
  <2>1. \/ /\ cs \in Ends /\ cs' = 4
           /\ \/ c = ";" /\ todo' = <<"seq">>
              \/ c = "|" /\ todo' = <<"pipe">>
        \/ c = Nul /\ cs \in Ends /\ cs' = 15 /\ todo' = <<"term">>
        \/ c = Nul /\ cs = 14 /\ cs' = 15 /\ todo' = <<"term">>
    BY <1>7
  <2> QED
    BY <2>1, <1>10, <1>11, <1>12, Zenon

\* a character that cannot come here: the line is none of the grammar.
LEMMA ScanStuck ==
  ASSUME IInv, Scan, NEW o \in Starts(line), cs \in Within,
         NEW in \in 0..p, NEW out \in 0..p, NEW amp \in 0..p,
         Piece(o, in, out, amp), cs' = 0, todo' = <<>>,
         \A m \in Moves : ~(m.from = cs /\ m.c = CharAt(line, p + 1))
  PROVE  Follows'
<1> DEFINE c == CharAt(line, p + 1)
<1>1. /\ p \in Nat /\ p' = p + 1 /\ line' = line /\ line \in Seq(Char)
      /\ phase' = "scan" /\ ~aborted' /\ Len(line) \in Nat
      /\ c \in Char \cup {Nul}
      /\ c # Nul => p + 1 <= Len(line) /\ c = line[p + 1]
      /\ c = Nul => p = Len(line)
  BY ScanFound
<1>2. in \in Nat /\ out \in Nat /\ amp \in Nat
  BY <1>1
<1>3. Inside(line, cs, o, p, in, out, amp)
  BY DEF Piece
<1>4. /\ cs = 14 => c \in Special
      /\ cs \in {5, 6, 8, 10, 12} => c \in Special \cup {Nul}
      /\ cs = 3 => c \in Mark \/ c \notin Special \cup {Space, Nul}
      /\ cs # 2
      /\ cs = 7 => c = "<"
      /\ cs = 11 => c = ">"
      /\ cs \in {9, 13} => c \in {"<", ">"}
  BY <1>1, Stuck
<1>5. Nul \notin Special /\ Nul \notin Mark
  BY DEF Special, Separator, Mark, Nul
<1>6. ~Blank(line)
  <2>1. CASE cs = 14
    <3>1. c \in Special /\ p + 1 <= Len(line) /\ c = line[p + 1]
      BY <1>1, <1>4, <1>5, <2>1
    <3>2. p + 1 \in 1..Len(line) /\ line[p + 1] \in Special
      BY <1>1, <3>1
    <3> QED
      BY <1>1, <3>2, NotBlank
  <2>2. CASE cs # 14
    <3>1. cs \in Within \ {2, 14}
      BY <1>4, <2>2
    <3> QED
      BY <1>1, <1>2, <1>3, <3>1, ShapeNotBlank
  <2> QED
    BY <2>1, <2>2
<1>7. ~IsCommand(line, o)
  <2>1. CASE cs \in {5, 14, 6, 8, 10, 12}
    <3>1. c \in Special \cup {Nul}
      BY <1>4, <2>1
    <3>2. p = Len(line) \/ (p + 1 <= Len(line) /\ line[p + 1] \in Special)
      BY <1>1, <3>1
    <3> QED
      BY <1>1, <1>2, <1>3, <2>1, <3>2, EmptyField
  <2>2. CASE cs \in {3}
    <3>1. c # Nul /\ (c \in Mark \/ c \notin Special \cup {Space})
      BY <1>4, <1>5, <2>2
    <3>2. /\ p + 1 <= Len(line)
          /\ line[p + 1] \in Mark \/ line[p + 1] \notin Special \cup {Space}
      BY <1>1, <3>1
    <3> QED
      BY <1>1, <1>2, <1>3, <2>2, <3>2, BehindAmp
  <2>3. CASE cs \in {7, 9, 11, 13}
    <3>1. /\ c \in {"<", ">"}
          /\ cs = 7 => c = "<"
          /\ cs = 11 => c = ">"
      BY <1>4, <2>3
    <3>2. Shape(cs, in, out, amp)
      BY <1>3 DEF Inside
    <3>3. \/ in # 0 /\ c = "<"
          \/ out # 0 /\ c = ">"
      BY <1>2, <2>3, <3>1, <3>2 DEF Shape
    <3>4. c # Nul
      BY <3>1 DEF Nul
    <3>5. p + 1 <= Len(line)
          /\ ((in # 0 /\ line[p + 1] = "<") \/ (out # 0 /\ line[p + 1] = ">"))
      BY <1>1, <3>3, <3>4
    <3> QED
      BY <1>1, <1>2, <1>3, <3>5, Twice
  <2> QED
    BY <1>4, <2>1, <2>2, <2>3 DEF Within
<1>8. ~Accepted(line)
  BY <1>1, <1>6, <1>7, NotAccepted
<1> QED
  BY <1>1, <1>8 DEF Follows, Erred

\* Every character inside a command is one of these four.
LEMMA ScanPiece ==
  ASSUME IInv, Scan, NEW o \in Starts(line), Agrees(line, queue, o), InPiece(o)
  PROVE  Follows'
<1>1. PICK in \in 0..p, out \in 0..p, amp \in 0..p :
        Piece(o, in, out, amp) /\ cs \in Within
  BY PieceFound DEF Piece
<1>2. /\ CharAt(line, p + 1) \in Char \cup {Nul}
      /\ phase' = "scan" /\ ~aborted' /\ line' = line /\ queue' = queue
  BY ScanFound
<1>3. ASSUME InPiece(o)' PROVE Follows'
  BY <1>2, <1>3 DEF Follows, AtCommand
<1>4. CASE Leads(cs, CharAt(line, p + 1), cs', todo')
  <2>1. CASE CharAt(line, p + 1) \in Letter \cup {Space}
    BY <1>1, <1>3, <1>4, <2>1, ScanPlain
  <2>2. CASE CharAt(line, p + 1) \in Mark
    BY <1>1, <1>3, <1>4, <2>2, ScanMark
  <2>3. CASE CharAt(line, p + 1) \in Separator \cup {Nul}
    BY <1>1, <1>4, <2>3, ScanEnd
  <2> QED
    BY <1>2, <2>1, <2>2, <2>3 DEF Char, Special
<1>5. CASE /\ cs' = 0 /\ todo' = <<>>
           /\ \A m \in Moves : ~(m.from = cs /\ m.c = CharAt(line, p + 1))
  BY <1>1, <1>5, ScanStuck
<1> QED
  BY <1>4, <1>5, Scanned

\* So reading a character keeps the place in the grammar.
LEMMA ScanFollows ==
  ASSUME IInv, Follows, Scan
  PROVE  Follows'
<1>1. /\ phase = "scan" /\ ~aborted /\ todo = <<>> /\ cs # 0
      /\ p \in 0..Len(line) /\ Len(line) \in Nat
  BY ScanFound
<1>2. ~Erred /\ ~Nothing /\ ~AtEnd
  BY <1>1 DEF Erred, Nothing, AtEnd
<1>3. CASE AtStart
  BY <1>3, ScanStart
<1>4. ASSUME NEW o \in Starts(line), Agrees(line, queue, o),
             InPiece(o) \/ Joining(o) \/ Joined(o) \/ Passing(o) \/ Ending(o) \/ Starting(o)
      PROVE  Follows'
  <2>1. ~Joining(o) /\ ~Passing(o) /\ ~Ending(o) /\ ~Starting(o)
    BY <1>1 DEF Joining, Passing, Ending, Starting
  <2> QED
    BY <1>4, <2>1, ScanPiece, ScanJoined
<1> QED
  BY <1>1, <1>2, <1>3, <1>4 DEF Follows, AtCommand

-----------------------------------------------------------------------------
(* The embedded actions.                                                   *)

LEMMA Filler ==
  ASSUME NEW s \in Words
  PROVE  /\ Fills(s) \in {"append", "append_in", "append_out"}
         /\ Fills(s) = "append" <=> s = 2
         /\ Fills(s) = "append_in" <=> s \in {7, 13}
         /\ Fills(s) = "append_out" <=> s \in {9, 11}
BY DEF Words, Fills

\* The first of up to three actions still to do, and the rest.
LEMMA Heads ==
  /\ \A a : Head(<<a>>) = a /\ Tail(<<a>>) = <<>> /\ <<a>> # <<>>
  /\ \A a, b : Head(<<a, b>>) = a /\ Tail(<<a, b>>) = <<b>>
  /\ \A a, b, c : Head(<<a, b, c>>) = a /\ Tail(<<a, b, c>>) = <<b, c>>
  /\ \A a, b : <<a>> = <<b>> => a = b
  /\ \A a, b, c : <<a>> # <<b, c>>
OBVIOUS

\* Where each embedded action finds the automaton.
LEMMA DoingFollows ==
  ASSUME IInv, Follows, NEW a, Doing(a)
  PROVE  \/ a = "term" /\ Nothing /\ todo = <<"term">>
         \/ \E o \in Starts(line) :
              /\ Agrees(line, queue, o)
              /\ \/ a = Fills(cs) /\ cs \in Words /\ todo = <<a>> /\ InPiece(o)
                 \/ a = "bg" /\ cs = 3 /\ todo = <<a>> /\ InPiece(o)
                 \/ a \in {"seq", "pipe"} /\ Joining(o) /\ todo = <<a>>
                 \/ a = "term" /\ (Passing(o) \/ Ending(o))
                 \/ a = "new" /\ Starting(o)
<1>1. phase = "scan" /\ ~aborted /\ todo # <<>> /\ Head(todo) = a
  BY Found
<1>2. CASE Nothing
  <2>1. todo = <<"term">>
    BY <1>1, <1>2 DEF Nothing
  <2>2. a = "term"
    BY <1>1, <2>1, Heads
  <2> QED
    BY <1>2, <2>1, <2>2
<1>3. ASSUME NEW o \in Starts(line), Agrees(line, queue, o),
             InPiece(o) \/ Joining(o) \/ Joined(o) \/ Passing(o) \/ Ending(o) \/ Starting(o)
      PROVE  \/ a = Fills(cs) /\ cs \in Words /\ todo = <<a>> /\ InPiece(o)
             \/ a = "bg" /\ cs = 3 /\ todo = <<a>> /\ InPiece(o)
             \/ a \in {"seq", "pipe"} /\ Joining(o) /\ todo = <<a>>
             \/ a = "term" /\ (Passing(o) \/ Ending(o))
             \/ a = "new" /\ Starting(o)
  <2>1. CASE InPiece(o)
    <3>1. \/ cs \in Words /\ todo = <<Fills(cs)>>
          \/ cs = 3 /\ todo = <<"bg">>
      BY <1>1, <2>1 DEF InPiece
    <3>2. CASE cs \in Words /\ todo = <<Fills(cs)>>
      <4>1. a = Fills(cs)
        BY <1>1, <3>2, Heads
      <4> QED
        BY <2>1, <3>2, <4>1
    <3>3. CASE cs = 3 /\ todo = <<"bg">>
      <4>1. a = "bg"
        BY <1>1, <3>3, Heads
      <4> QED
        BY <2>1, <3>3, <4>1
    <3> QED
      BY <3>1, <3>2, <3>3
  <2>2. CASE Joining(o)
    <3>1. todo = <<"seq">> \/ todo = <<"pipe">>
      BY <2>2 DEF Joining
    <3>2. a \in {"seq", "pipe"} /\ todo = <<a>>
      BY <1>1, <3>1, Heads
    <3> QED
      BY <2>2, <3>2
  <2>3. ~Joined(o)
    BY <1>1 DEF Joined
  <2>4. CASE Passing(o)
    <3>1. todo = <<"term", "new">> \/ todo = <<"term", "new", "append">>
      BY <2>4 DEF Passing
    <3>2. a = "term"
      BY <1>1, <3>1, Heads
    <3> QED
      BY <2>4, <3>2
  <2>5. CASE Ending(o)
    <3>1. todo = <<"term">>
      BY <2>5 DEF Ending
    <3>2. a = "term"
      BY <1>1, <3>1, Heads
    <3> QED
      BY <2>5, <3>2
  <2>6. CASE Starting(o)
    <3>1. todo = <<"new">> \/ todo = <<"new", "append">>
      BY <2>6 DEF Starting
    <3>2. a = "new"
      BY <1>1, <3>1, Heads
    <3> QED
      BY <2>6, <3>2
  <2> QED
    BY <1>3, <2>1, <2>2, <2>3, <2>4, <2>5, <2>6
<1>4. ~AtStart /\ ~Erred /\ ~AtEnd
  BY <1>1 DEF AtStart, Erred, AtEnd
<1>5. Nothing \/ AtCommand
  BY <1>1, <1>4 DEF Follows
<1>6. CASE AtCommand
  <2>1. PICK o \in Starts(line) :
          /\ Agrees(line, queue, o)
          /\ InPiece(o) \/ Joining(o) \/ Joined(o) \/ Passing(o) \/ Ending(o) \/ Starting(o)
    BY <1>6 DEF AtCommand
  <2> QED
    BY <2>1, <1>3
<1> QED
  BY <1>2, <1>5, <1>6

\* The latest character is appended to the open field.
LEMMA OpenRead ==
  ASSUME NEW l \in Seq(Char), NEW s, s \in Words, NEW o, NEW e \in Nat,
         NEW in \in Nat, NEW out \in Nat, NEW amp \in Nat,
         Inside(l, s, o, e, in, out, amp),
         NEW b \in Seq(Char), Read(l, b, Open(s, o, in, out, amp), e - 1)
  PROVE  Read(l, With(b, l[e]), Open(s, o, in, out, amp), e)
<1> DEFINE x == Open(s, o, in, out, amp)
<1>1. /\ o \in Nat /\ e \in 0..Len(l) /\ x \in 0..e /\ Until(l, x) > e
  <2>1. /\ o \in Nat /\ e \in 0..Len(l)
        /\ Open(s, o, in, out, amp) \in Fields(o, in, out, amp)
        /\ \A i \in Fields(o, in, out, amp) :
             /\ i \in 0..e
             /\ i = Open(s, o, in, out, amp) => Until(l, i) > e
    BY OpenIs
  <2> QED
    BY <2>1
<1>2. ~Empty(l, x, e)
  <2>1. /\ Shape(s, in, out, amp)
        /\ Empty(l, o, e) <=> s \in {5, 14}
        /\ in # 0 => (Empty(l, in, e) <=> s \in {6, 12})
        /\ out # 0 => (Empty(l, out, e) <=> s \in {8, 10})
    BY DEF Inside
  <2>2. CASE s = 2
    <3>1. x = o
      BY <2>2, OpenField
    <3> QED
      BY <2>1, <2>2, <3>1
  <2>3. CASE s \in {7, 13}
    <3>1. x = in
      BY <2>3, OpenField
    <3>2. in # 0
      BY <2>1, <2>3, ShapeMarks
    <3> QED
      BY <2>1, <2>3, <3>1, <3>2
  <2>4. CASE s \in {9, 11}
    <3>1. x = out
      BY <2>4, OpenField
    <3>2. out # 0
      BY <2>1, <2>4, ShapeMarks
    <3> QED
      BY <2>1, <2>4, <3>1, <3>2
  <2> QED
    BY <2>2, <2>3, <2>4 DEF Words
<1>3. Read(l, b, x, e - 1)
  OBVIOUS
<1> HIDE DEF x
<1>4. x # e
  BY <1>1, <1>2, Opened
<1> DEFINE d == e - 1
<1>5. d \in 0..Len(l) /\ x \in 0..d /\ d + 1 = e
  BY <1>1, <1>4
<1>6. Until(l, x) > d + 1 /\ ~Empty(l, x, d + 1) /\ Read(l, b, x, d)
  BY <1>1, <1>2, <1>3, <1>5
<1> HIDE DEF d
<1>7. Read(l, With(b, l[d + 1]), x, d + 1)
  BY <1>5, <1>6, ReadOn
<1> QED
  BY <1>5, <1>7 DEF x

\* What an append finds.
LEMMA AppendFound ==
  ASSUME IInv, Follows, NEW a \in {"append", "append_in", "append_out"}, Doing(a)
  PROVE  /\ \E o \in Starts(line) : /\ Agrees(line, queue, o) /\ InPiece(o)
                                    /\ a = Fills(cs) /\ cs \in Words /\ todo = <<a>>
         /\ phase' = "scan" /\ ~aborted /\ p \in Nat
         /\ line' = line /\ p' = p /\ cs' = cs /\ line \in Seq(Char)
         /\ buffer \in Seq(Char) /\ stdin \in Seq(Char) /\ stdout \in Seq(Char)
         /\ Tail(todo) = <<>>
<1>1. \E o \in Starts(line) : /\ Agrees(line, queue, o) /\ InPiece(o)
                              /\ a = Fills(cs) /\ cs \in Words /\ todo = <<a>>
  BY DoingFollows
<1>2. Tail(todo) = <<>>
  BY <1>1, Heads
<1>3. line \in Seq(Char) /\ p \in 0..(Len(line) + 1)
      /\ buffer \in Seq(Char) /\ stdin \in Seq(Char) /\ stdout \in Seq(Char)
  BY DEF IInv, TypeOK, Buffer, Text
<1> QED
  BY <1>1, <1>2, <1>3, Found

\* An append reads one more character of the open field.
LEMMA AppendFollows ==
  ASSUME IInv, Follows, append
  PROVE  Follows'
<1>1. /\ Doing("append") /\ UNCHANGED <<stdin, stdout, memory, aborted>>
      /\ todo' = Tail(todo) /\ buffer' = Appended(buffer)
  BY DEF append
<1>2. /\ phase' = "scan" /\ ~aborted /\ p \in Nat
      /\ line' = line /\ p' = p /\ cs' = cs /\ line \in Seq(Char)
      /\ buffer \in Seq(Char) /\ stdin \in Seq(Char) /\ stdout \in Seq(Char)
      /\ Tail(todo) = <<>>
  BY <1>1, AppendFound
<1>3. PICK o \in Starts(line) :
        /\ Agrees(line, queue, o) /\ InPiece(o)
        /\ "append" = Fills(cs) /\ cs \in Words /\ todo = <<"append">>
  BY <1>1, AppendFound
<1>4. cs = 2 /\ cs # 3
  BY <1>3, Filler
<1>5. At("append") = p - 1 /\ At("append_in") = p /\ At("append_out") = p
      /\ \A a : At(a)' = p
  BY <1>1, <1>2, <1>3, Heads DEF At
<1>6. PICK in \in 0..p, out \in 0..p, amp \in 0..p :
        /\ Inside(line, cs, o, p, in, out, amp)
        /\ Read(line, buffer, o, p - 1)
        /\ Named(line, stdin, in, p)
        /\ Named(line, stdout, out, p)
        /\ command = [conn |-> "none"]
  BY <1>3, <1>4, <1>5, Heads DEF InPiece
<1>7. Open(cs, o, in, out, amp) = o
  BY <1>4 DEF Open
<1>8. Read(line, With(buffer, line[p]), o, p)
  BY <1>2, <1>3, <1>6, <1>7, OpenRead
<1>9. With(buffer, line[p]) = buffer'
  <2>1. p <= Len(line)
    BY <1>6 DEF Inside
  <2> QED
    BY <1>1, <2>1 DEF With, Appended, fc, CharAt
<1>10. InPiece(o)'
  <2>1. /\ Inside(line, cs, o, p, in, out, amp)'
        /\ Read(line, buffer, o, At("append"))'
        /\ Named(line, stdin, in, At("append_in"))'
        /\ Named(line, stdout, out, At("append_out"))'
    BY <1>1, <1>2, <1>5, <1>6, <1>8, <1>9
  <2>2. todo' = <<>> /\ command' = [conn |-> IF cs' = 3 THEN "bg" ELSE "none"]
    BY <1>1, <1>2, <1>4, <1>6 DEF memory
  <2>3. in \in 0..p' /\ out \in 0..p' /\ amp \in 0..p'
    BY <1>2
  <2> QED
    BY <2>1, <2>2, <2>3 DEF InPiece
<1> QED
  BY <1>1, <1>2, <1>3, <1>10 DEF Follows, AtCommand, memory

LEMMA AppendInFollows ==
  ASSUME IInv, Follows, append_in
  PROVE  Follows'
<1>1. /\ Doing("append_in") /\ UNCHANGED <<buffer, stdout, memory, aborted>>
      /\ todo' = Tail(todo) /\ stdin' = Appended(stdin)
  BY DEF append_in
<1>2. /\ phase' = "scan" /\ ~aborted /\ p \in Nat
      /\ line' = line /\ p' = p /\ cs' = cs /\ line \in Seq(Char)
      /\ buffer \in Seq(Char) /\ stdin \in Seq(Char) /\ stdout \in Seq(Char)
      /\ Tail(todo) = <<>>
  BY <1>1, AppendFound
<1>3. PICK o \in Starts(line) :
        /\ Agrees(line, queue, o) /\ InPiece(o)
        /\ "append_in" = Fills(cs) /\ cs \in Words /\ todo = <<"append_in">>
  BY <1>1, AppendFound
<1>4. cs \in {7, 13} /\ cs # 3
  BY <1>3, Filler
<1>5. At("append") = p /\ At("append_in") = p - 1 /\ At("append_out") = p
      /\ \A a : At(a)' = p
  BY <1>1, <1>2, <1>3, Heads DEF At
<1>6. PICK in \in 0..p, out \in 0..p, amp \in 0..p :
        /\ Inside(line, cs, o, p, in, out, amp)
        /\ Read(line, buffer, o, p)
        /\ Named(line, stdin, in, p - 1)
        /\ Named(line, stdout, out, p)
        /\ command = [conn |-> "none"]
  BY <1>3, <1>4, <1>5, Heads DEF InPiece
<1>7. Open(cs, o, in, out, amp) = in /\ in # 0
  <2>1. Shape(cs, in, out, amp)
    BY <1>6 DEF Inside
  <2> QED
    BY <1>4, <2>1 DEF Open, Shape
<1>8. Named(line, With(stdin, line[p]), in, p)
  <2>1. Read(line, stdin, in, p - 1)
    BY <1>6, <1>7 DEF Named
  <2>2. Read(line, With(stdin, line[p]), in, p)
    BY <1>2, <1>3, <1>6, <1>7, <2>1, OpenRead
  <2> QED
    BY <1>7, <2>2 DEF Named
<1>9. With(stdin, line[p]) = stdin'
  <2>1. p <= Len(line)
    BY <1>6 DEF Inside
  <2> QED
    BY <1>1, <2>1 DEF With, Appended, fc, CharAt
<1>10. InPiece(o)'
  <2>1. /\ Inside(line, cs, o, p, in, out, amp)'
        /\ Read(line, buffer, o, At("append"))'
        /\ Named(line, stdin, in, At("append_in"))'
        /\ Named(line, stdout, out, At("append_out"))'
    BY <1>1, <1>2, <1>5, <1>6, <1>8, <1>9
  <2>2. todo' = <<>> /\ command' = [conn |-> IF cs' = 3 THEN "bg" ELSE "none"]
    BY <1>1, <1>2, <1>4, <1>6 DEF memory
  <2>3. in \in 0..p' /\ out \in 0..p' /\ amp \in 0..p'
    BY <1>2
  <2> QED
    BY <2>1, <2>2, <2>3 DEF InPiece
<1> QED
  BY <1>1, <1>2, <1>3, <1>10 DEF Follows, AtCommand, memory

LEMMA AppendOutFollows ==
  ASSUME IInv, Follows, append_out
  PROVE  Follows'
<1>1. /\ Doing("append_out") /\ UNCHANGED <<buffer, stdin, memory, aborted>>
      /\ todo' = Tail(todo) /\ stdout' = Appended(stdout)
  BY DEF append_out
<1>2. /\ phase' = "scan" /\ ~aborted /\ p \in Nat
      /\ line' = line /\ p' = p /\ cs' = cs /\ line \in Seq(Char)
      /\ buffer \in Seq(Char) /\ stdin \in Seq(Char) /\ stdout \in Seq(Char)
      /\ Tail(todo) = <<>>
  BY <1>1, AppendFound
<1>3. PICK o \in Starts(line) :
        /\ Agrees(line, queue, o) /\ InPiece(o)
        /\ "append_out" = Fills(cs) /\ cs \in Words /\ todo = <<"append_out">>
  BY <1>1, AppendFound
<1>4. cs \in {9, 11} /\ cs # 3
  BY <1>3, Filler
<1>5. At("append") = p /\ At("append_in") = p /\ At("append_out") = p - 1
      /\ \A a : At(a)' = p
  BY <1>1, <1>2, <1>3, Heads DEF At
<1>6. PICK in \in 0..p, out \in 0..p, amp \in 0..p :
        /\ Inside(line, cs, o, p, in, out, amp)
        /\ Read(line, buffer, o, p)
        /\ Named(line, stdin, in, p)
        /\ Named(line, stdout, out, p - 1)
        /\ command = [conn |-> "none"]
  BY <1>3, <1>4, <1>5, Heads DEF InPiece
<1>7. Open(cs, o, in, out, amp) = out /\ out # 0
  <2>1. Shape(cs, in, out, amp)
    BY <1>6 DEF Inside
  <2> QED
    BY <1>4, <2>1 DEF Open, Shape
<1>8. Named(line, With(stdout, line[p]), out, p)
  <2>1. Read(line, stdout, out, p - 1)
    BY <1>6, <1>7 DEF Named
  <2>2. Read(line, With(stdout, line[p]), out, p)
    BY <1>2, <1>3, <1>6, <1>7, <2>1, OpenRead
  <2> QED
    BY <1>7, <2>2 DEF Named
<1>9. With(stdout, line[p]) = stdout'
  <2>1. p <= Len(line)
    BY <1>6 DEF Inside
  <2> QED
    BY <1>1, <2>1 DEF With, Appended, fc, CharAt
<1>10. InPiece(o)'
  <2>1. /\ Inside(line, cs, o, p, in, out, amp)'
        /\ Read(line, buffer, o, At("append"))'
        /\ Named(line, stdin, in, At("append_in"))'
        /\ Named(line, stdout, out, At("append_out"))'
    BY <1>1, <1>2, <1>5, <1>6, <1>8, <1>9
  <2>2. todo' = <<>> /\ command' = [conn |-> IF cs' = 3 THEN "bg" ELSE "none"]
    BY <1>1, <1>2, <1>4, <1>6 DEF memory
  <2>3. in \in 0..p' /\ out \in 0..p' /\ amp \in 0..p'
    BY <1>2
  <2> QED
    BY <2>1, <2>2, <2>3 DEF InPiece
<1> QED
  BY <1>1, <1>2, <1>3, <1>10 DEF Follows, AtCommand, memory

\* The action of an "&", and those of the separators.
LEMMA BgFollows ==
  ASSUME IInv, Follows, bg
  PROVE  Follows'
<1>1. /\ Doing("bg") /\ todo' = Tail(todo) /\ command' = [conn |-> "bg"]
      /\ UNCHANGED <<buffers, queue, made, freed, aborted>>
  BY DEF bg, Connect
<1>2. phase' = "scan" /\ ~aborted /\ line' = line /\ p' = p /\ cs' = cs
  BY <1>1, Found
<1>3. PICK o \in Starts(line) :
        Agrees(line, queue, o) /\ cs = 3 /\ todo = <<"bg">> /\ InPiece(o)
  <2>1. \A s \in Words : Fills(s) # "bg"
    BY Filler
  <2> QED
    BY <1>1, <2>1, DoingFollows
<1>4. todo' = <<>>
  BY <1>1, <1>3, Heads
<1>5. \A a : a # "bg" => At(a) = p /\ At(a)' = p
  BY <1>2, <1>3, <1>4, Heads DEF At
<1>6. PICK in \in 0..p, out \in 0..p, amp \in 0..p :
        /\ Inside(line, cs, o, p, in, out, amp)
        /\ Read(line, buffer, o, p)
        /\ Named(line, stdin, in, p)
        /\ Named(line, stdout, out, p)
  BY <1>3, <1>5 DEF InPiece
<1>7. InPiece(o)'
  <2>1. /\ Inside(line, cs, o, p, in, out, amp)'
        /\ Read(line, buffer, o, At("append"))'
        /\ Named(line, stdin, in, At("append_in"))'
        /\ Named(line, stdout, out, At("append_out"))'
    BY <1>1, <1>2, <1>5, <1>6 DEF buffers
  <2>2. in \in 0..p' /\ out \in 0..p' /\ amp \in 0..p'
    BY <1>2
  <2>3. command' = [conn |-> IF cs' = 3 THEN "bg" ELSE "none"]
    BY <1>1, <1>2, <1>3
  <2> QED
    BY <1>4, <2>1, <2>2, <2>3 DEF InPiece
<1> QED
  BY <1>1, <1>2, <1>3, <1>7 DEF Follows, AtCommand

LEMMA JoinFollows ==
  ASSUME IInv, Follows, seq \/ pipe
  PROVE  Follows'
<1>1. \/ Connect("seq", IF command.conn = "bg" THEN "bg" ELSE "seq")
      \/ Connect("pipe", "pipe")
  BY DEF seq, pipe
<1>2. PICK a \in {"seq", "pipe"} :
        /\ Doing(a) /\ todo' = Tail(todo)
        /\ command' = [conn |-> IF a = "pipe" THEN "pipe"
                                ELSE IF command.conn = "bg" THEN "bg" ELSE "seq"]
        /\ UNCHANGED <<buffers, queue, made, freed, aborted>>
  BY <1>1 DEF Connect
<1>3. phase' = "scan" /\ ~aborted /\ line' = line /\ p' = p /\ cs' = cs
  BY <1>2, Found
<1>4. PICK o \in Starts(line) : Agrees(line, queue, o) /\ todo = <<a>> /\ Joining(o)
  <2>1. \A s \in Words : Fills(s) \notin {"seq", "pipe"}
    BY Filler
  <2> QED
    BY <1>2, <2>1, DoingFollows
<1>5. todo' = <<>>
  BY <1>2, <1>4, Heads
<1>6. /\ Whole(o) /\ cs = 4 /\ p = Stop(line, o) /\ p <= Len(line)
      /\ a = "seq" => line[p] = ";"
      /\ a = "pipe" => line[p] = "|"
      /\ command.conn = IF Has(line, o, "&") THEN "bg" ELSE "none"
  <2>1. \/ todo = <<"seq">> /\ line[p] = ";"
        \/ todo = <<"pipe">> /\ line[p] = "|"
    BY <1>4 DEF Joining
  <2>2. (a = "seq" => line[p] = ";") /\ (a = "pipe" => line[p] = "|")
    BY <1>4, <2>1, Heads
  <2> QED
    BY <1>4, <2>2 DEF Joining
<1>7. CharAt(line, Stop(line, o)) = line[p]
  BY <1>6 DEF CharAt
<1>8. command' = [conn |-> Connection(line, o)]
  BY <1>2, <1>6, <1>7, ConnectionIs
<1>9. Joined(o)'
  <2>1. Whole(o)'
    BY <1>2, <1>3, <1>6 DEF Whole, buffers
  <2> QED
    BY <1>3, <1>5, <1>6, <1>8, <2>1 DEF Joined
<1> QED
  BY <1>2, <1>3, <1>4, <1>9 DEF Follows, AtCommand

\* A new command starts where the piece does.
LEMMA NewFollows ==
  ASSUME IInv, Follows, new
  PROVE  Follows'
<1>1. /\ Doing("new") /\ todo' = Tail(todo)
      /\ buffer' = <<>> /\ stdin' = <<>> /\ stdout' = <<>>
      /\ command' = [conn |-> "none"]
      /\ UNCHANGED <<queue, freed, aborted>>
  BY DEF new
<1>2. phase' = "scan" /\ ~aborted /\ line' = line /\ p' = p /\ cs' = cs
      /\ line \in Seq(Char) /\ Len(line) \in Nat
  BY <1>1, Found DEF IInv, TypeOK
<1>3. PICK o \in Starts(line) : Agrees(line, queue, o) /\ Starting(o)
  <2>1. \A s \in Words : Fills(s) # "new"
    BY Filler
  <2> QED
    BY <1>1, <2>1, DoingFollows
<1>4. /\ o + 1 = p /\ p <= Len(line) /\ o \in 0..Len(line) /\ o \in 0..o /\ o \in Nat
      /\ \/ todo' = <<>> /\ cs = (IF o = 0 THEN 14 ELSE 5) /\ line[o + 1] = Space
         \/ todo' = <<"append">> /\ cs = 2 /\ line[o + 1] \in Letter
  <2>1. o \in 0..Len(line)
    BY <1>2, StartIs
  <2>2. /\ todo = <<"new">> => todo' = <<>>
        /\ todo = <<"new", "append">> => todo' = <<"append">>
    <3>1. Tail(<<"new">>) = <<>> /\ Tail(<<"new", "append">>) = <<"append">>
      BY Heads
    <3>2. todo' = Tail(todo)
      BY <1>1
    <3> QED
      BY <3>1, <3>2, Zenon
  <2> QED
    BY <1>2, <1>3, <2>1, <2>2 DEF Starting
<1>5. line[o + 1] \notin Special /\ Space \notin Letter
  BY <1>4, ParserAssumption, MarkIs
<1>6. Inside(line, cs, o, p, 0, 0, 0)
  <2>1. Inside(line, IF line[o + 1] # Space THEN 2 ELSE IF o = 0 THEN 14 ELSE 5,
               o, o + 1, 0, 0, 0)
    BY <1>2, <1>4, <1>5, InsideStart
  <2>2. cs = IF line[o + 1] # Space THEN 2 ELSE IF o = 0 THEN 14 ELSE 5
    BY <1>4, <1>5
  <2> QED
    BY <1>4, <2>1, <2>2
<1>7. Empty(line, o, o) /\ Read(line, <<>>, o, o)
  BY <1>2, <1>4, Opened
<1>8. ASSUME line[o + 1] = Space PROVE Read(line, <<>>, o, p)
  <2>1. /\ Until(line, o) \in (o + 1)..(Len(line) + 1)
        /\ Until(line, o) <= Len(line) => line[Until(line, o)] \in Special
    BY <1>2, <1>4, UntilIs
  <2>2. Until(line, o) > o + 1
    BY <1>2, <1>4, <1>5, <2>1
  <2> QED
    BY <1>2, <1>4, <1>7, <1>8, <2>2, SpaceSkipped
<1>9. Read(line, <<>>, o, At("append")')
  <2>1. CASE todo' = <<>> /\ line[o + 1] = Space
    <3>1. At("append")' = p
      BY <1>2, <2>1, Heads DEF At
    <3> QED
      BY <1>8, <2>1, <3>1
  <2>2. CASE todo' = <<"append">>
    <3>1. At("append")' = o
      BY <1>2, <1>4, <2>2 DEF At
    <3> QED
      BY <1>7, <3>1
  <2> QED
    BY <1>4, <2>1, <2>2
<1>10. InPiece(o)'
  <2>1. /\ Inside(line, cs, o, p, 0, 0, 0)'
        /\ Read(line, buffer, o, At("append"))'
        /\ Named(line, stdin, 0, At("append_in"))'
        /\ Named(line, stdout, 0, At("append_out"))'
    BY <1>1, <1>2, <1>6, <1>9 DEF Named
  <2>2. 0 \in 0..p'
    BY <1>2, <1>4
  <2>3. \/ todo' = <<>> /\ command' = [conn |-> IF cs' = 3 THEN "bg" ELSE "none"]
        \/ cs' \in Words /\ todo' = <<Fills(cs')>> /\ command' = [conn |-> "none"]
    <3>1. CASE todo' = <<>> /\ cs = (IF o = 0 THEN 14 ELSE 5)
      BY <1>1, <1>2, <3>1
    <3>2. CASE todo' = <<"append">> /\ cs = 2
      <4>1. cs' \in Words /\ Fills(cs') = "append"
        BY <1>2, <3>2 DEF Words, Fills
      <4> QED
        BY <1>1, <3>2, <4>1
    <3> QED
      BY <1>4, <3>1, <3>2
  <2> QED
    BY <2>1, <2>2, <2>3 DEF InPiece
<1> QED
  BY <1>1, <1>2, <1>3, <1>10 DEF Follows, AtCommand

\* Where term finds a text, and where not.
LEMMA TermFound ==
  ASSUME IInv, Follows, Doing("term")
  PROVE  /\ phase' = "scan" /\ ~aborted /\ line' = line /\ p' = p /\ cs' = cs
         /\ line \in Seq(Char) /\ Len(line) \in Nat
         /\ buffer = <<>> => Nothing /\ Tail(todo) = <<>>
         /\ buffer # <<>> =>
              \E o \in Starts(line) : /\ Agrees(line, queue, o) /\ Whole(o)
                                      /\ Passing(o) \/ Ending(o)
<1>1. /\ phase' = "scan" /\ ~aborted /\ line' = line /\ p' = p /\ cs' = cs
      /\ line \in Seq(Char) /\ Len(line) \in Nat
  BY Found DEF IInv, TypeOK
<1>2. \/ Nothing /\ todo = <<"term">>
      \/ \E o \in Starts(line) : Agrees(line, queue, o) /\ (Passing(o) \/ Ending(o))
  <2>1. \A s \in Words : Fills(s) # "term"
    BY Filler
  <2> QED
    BY <2>1, DoingFollows
<1>3. \A o : Passing(o) \/ Ending(o) => Whole(o)
  BY DEF Passing, Ending
<1>4. ASSUME NEW o \in Starts(line), Whole(o) PROVE buffer # <<>>
  <2>1. IsCommand(line, o) /\ buffer = Cut(Field(line, o))
    BY <1>4 DEF Whole, Complete
  <2> QED
    BY <1>1, <2>1, CommandNotBlank
<1>5. Nothing => buffer = <<>>
  BY DEF Nothing
<1>6. todo = <<"term">> => Tail(todo) = <<>>
  BY Heads
<1> QED
  BY <1>1, <1>2, <1>3, <1>4, <1>5, <1>6

\* term puts the command that was read in front into the queue.
LEMMA TermFollows ==
  ASSUME IInv, Follows, term
  PROVE  Follows'
<1>1. /\ Doing("term") /\ buffer # <<>> /\ todo' = Tail(todo)
      /\ UNCHANGED <<buffers, made, freed, aborted>>
  BY DEF term
<1>2. PICK in \in Expanded(stdin), out \in Expanded(stdout) :
        queue' = Append(queue, [text |-> buffer, in |-> in, out |-> out,
                                conn |-> command.conn])
  BY DEF term
<1>3. /\ phase' = "scan" /\ ~aborted /\ line' = line /\ p' = p /\ cs' = cs
      /\ line \in Seq(Char) /\ Len(line) \in Nat
  BY <1>1, TermFound
<1>4. PICK o \in Starts(line) :
        Agrees(line, queue, o) /\ Whole(o) /\ (Passing(o) \/ Ending(o))
  BY <1>1, TermFound
<1>5. command = [conn |-> Connection(line, o)]
  BY <1>4 DEF Passing, Ending
<1> DEFINE r == [text |-> buffer, in |-> in, out |-> out, conn |-> command.conn]
<1>6. r \in Queued /\ queue \in Seq(Queued)
  <2>1. command # Null
    BY <1>1, Found, Places DEF Texted
  <2>2. /\ in \in Text \cup {Null} /\ out \in Text \cup {Null}
        /\ buffer \in Text /\ command.conn \in Conns
    BY <2>1 DEF IInv, TypeOK, Expanded, Buffer
  <2> QED
    BY <2>2 DEF Queued, IInv, TypeOK
<1>7. r = [text |-> buffer, in |-> in, out |-> out, conn |-> Connection(line, o)]
  BY <1>5
<1>8. queue' = Append(queue, r)
  BY <1>2
<1>9. Complete(line, o, Stop(line, o), buffer, stdin, stdout)
  BY <1>4 DEF Whole
<1> HIDE DEF r
<1>10. Agrees(line', queue', Stop(line, o))
  BY <1>3, <1>4, <1>6, <1>7, <1>8, <1>9, AgreesInsert
<1>11. CASE Passing(o)
  <2>1. /\ p = Stop(line, o) + 1 /\ p <= Len(line)
        /\ \/ cs = 5 /\ todo = <<"term", "new">> /\ line[p] = Space
           \/ cs = 2 /\ todo = <<"term", "new", "append">> /\ line[p] \in Letter
    BY <1>11 DEF Passing
  <2>2. o \in 0..Len(line) /\ Stop(line, o) \in (o + 1)..(Len(line) + 1)
    BY <1>3, StartIs, UptoIs DEF Stop
  <2>3. Stop(line, o) \in Starts(line) /\ Stop(line, o) # 0
    BY <1>3, <2>1, <2>2, BeforeStop
  <2>4. /\ todo = <<"term", "new">> => todo' = <<"new">>
        /\ todo = <<"term", "new", "append">> => todo' = <<"new", "append">>
    <3>1. /\ Tail(<<"term", "new">>) = <<"new">>
          /\ Tail(<<"term", "new", "append">>) = <<"new", "append">>
      BY Heads
    <3>2. todo' = Tail(todo)
      BY <1>1
    <3> QED
      BY <3>1, <3>2, Zenon
  <2>5. Starting(Stop(line, o))'
    BY <1>3, <2>1, <2>3, <2>4 DEF Starting
  <2> QED
    BY <1>1, <1>3, <1>10, <2>3, <2>5 DEF Follows, AtCommand
<1>12. CASE Ending(o)
  <2>1. /\ cs = 15 /\ todo = <<"term">> /\ p = Len(line) + 1
        /\ Stop(line, o) = Len(line) + 1
    BY <1>12 DEF Ending
  <2>2. todo' = <<>>
    BY <1>1, <2>1, Heads
  <2>3. AtEnd'
    BY <1>3, <1>10, <2>1, <2>2 DEF AtEnd
  <2> QED
    BY <1>1, <1>3, <2>3 DEF Follows
<1> QED
  BY <1>4, <1>11, <1>12

\* When wordexp() fails the queue holds the commands in front.
LEMMA TermFailsFollows ==
  ASSUME IInv, Follows, term_fails
  PROVE  Follows'
<1>1. /\ Doing("term") /\ buffer # <<>> /\ todo' = <<>> /\ aborted' = TRUE
      /\ UNCHANGED <<buffers, memory>>
  BY DEF term_fails
<1>2. /\ phase' = "scan" /\ line' = line /\ cs' = cs /\ line \in Seq(Char)
  BY <1>1, TermFound
<1>3. PICK o \in Starts(line) :
        Agrees(line, queue, o) /\ Whole(o) /\ (Passing(o) \/ Ending(o))
  BY <1>1, TermFound
<1>4. ~Blank(line)
  BY <1>2, <1>3, CommandNotBlank DEF Whole, Complete
<1>5. cs # 0
  BY <1>3 DEF Passing, Ending
<1> QED
  BY <1>1, <1>2, <1>3, <1>4, <1>5 DEF Follows, memory

\* Without a text there is no command: the line is blank.
LEMMA TermEmptyFollows ==
  ASSUME IInv, Follows, term_empty
  PROVE  Follows'
<1>1. /\ Doing("term") /\ buffer = <<>> /\ todo' = Tail(todo)
      /\ UNCHANGED <<buffers, memory, aborted>>
  BY DEF term_empty
<1>2. /\ phase' = "scan" /\ ~aborted /\ line' = line /\ p' = p /\ cs' = cs
      /\ Nothing /\ Tail(todo) = <<>>
  BY <1>1, TermFound
<1>3. Nothing'
  BY <1>1, <1>2 DEF Nothing, buffers, memory
<1> QED
  BY <1>1, <1>2, <1>3 DEF Follows

\* At the end the invariant is what the theorems say.
LEMMA ReturnFollows ==
  ASSUME IInv, Follows, Return
  PROVE  Follows'
<1>1. /\ phase = "scan" /\ phase' = "done" /\ todo = <<>> /\ Over
      /\ queue' = IF cs = 0 THEN <<>> ELSE queue
      /\ line' = line /\ aborted' = aborted
  BY DEF Return
<1>2. line \in Seq(Char) /\ Len(line) \in Nat /\ queue \in Seq(Queued)
      /\ 0 \in Starts(line)
  BY DEF IInv, TypeOK, Starts
<1>3. ASSUME ~aborted
      PROVE  IF Accepted(line) THEN Len(queue') = Count(line) /\ Holds(line, queue')
             ELSE queue' = <<>>
  <2>1. CASE AtStart
    <3>1. ~Over
      BY <1>2, <1>3, <2>1 DEF Over, AtStart
    <3> QED
      BY <1>1, <3>1
  <2>2. CASE Erred
    BY <1>1, <2>2 DEF Erred
  <2>3. CASE Nothing
    <3>1. queue' = <<>> /\ Blank(line)
      BY <1>1, <2>3 DEF Nothing
    <3>2. Accepted(line) /\ Count(line) = 0
      BY <3>1 DEF Accepted, Count
    <3>3. Holds(line, <<>>)
      <4>1. Agrees(line, <<>>, 0) /\ <<>> \in Seq(Queued)
        BY <1>2, AgreesNone
      <4> QED
        BY <1>2, <4>1, AgreesPart
    <3>4. Len(<<>>) = 0
      OBVIOUS
    <3> QED
      BY <3>1, <3>2, <3>3, <3>4
  <2>4. CASE AtEnd
    <3>1. queue' = queue /\ Agrees(line, queue, Len(line) + 1)
      BY <1>1, <2>4 DEF AtEnd
    <3>2. /\ Holds(line, queue) /\ Len(queue) = Cardinality(Starts(line))
          /\ \A a \in Starts(line) : IsCommand(line, a)
      BY <1>2, <3>1, AgreesAll
    <3>3. ~Blank(line)
      BY <1>2, <3>2, CommandNotBlank
    <3> QED
      BY <3>1, <3>2, <3>3 DEF Accepted, Count
  <2>5. CASE AtCommand
    <3>1. PICK o \in Starts(line) :
            InPiece(o) \/ Joining(o) \/ Joined(o) \/ Passing(o) \/ Ending(o) \/ Starting(o)
      BY <2>5 DEF AtCommand
    <3>2. InPiece(o) \/ Joined(o)
      BY <1>1, <3>1 DEF Joining, Passing, Ending, Starting
    <3>3. cs # 0 /\ p <= Len(line)
      <4>1. CASE InPiece(o)
        BY <4>1 DEF InPiece, Inside, Shape
      <4>2. CASE Joined(o)
        BY <4>2 DEF Joined
      <4> QED
        BY <3>2, <4>1, <4>2
    <3>4. ~Over
      BY <1>2, <1>3, <3>3 DEF Over
    <3> QED
      BY <1>1, <3>4
  <2> QED
    BY <1>1, <1>3, <2>1, <2>2, <2>3, <2>4, <2>5 DEF Follows
<1>4. ASSUME aborted
      PROVE  Len(queue') < Count(line) /\ Holds(line, queue')
  <2>1. ~Blank(line) /\ cs # 0
    BY <1>1, <1>4 DEF Follows
  <2>2. PICK o \in Starts(line) : Agrees(line, queue, o)
    BY <1>1, <1>4 DEF Follows
  <2>3. Holds(line, queue) /\ Len(queue) < Cardinality(Starts(line))
    BY <1>2, <2>2, AgreesPart
  <2>4. Count(line) = Cardinality(Starts(line)) /\ queue' = queue
    BY <1>1, <2>1 DEF Count
  <2> QED
    BY <2>3, <2>4
<1> QED
  BY <1>1, <1>3, <1>4 DEF Follows, Parsed, PrefixKept

\* Nothing changes.
LEMMA StutterFollows ==
  ASSUME Follows, UNCHANGED vars
  PROVE  Follows'
<1>1. /\ phase' = phase /\ line' = line /\ p' = p /\ cs' = cs /\ todo' = todo
      /\ buffer' = buffer /\ stdin' = stdin /\ stdout' = stdout
      /\ command' = command /\ queue' = queue /\ aborted' = aborted
  BY DEF vars, buffers, memory
<1> QED
  <2>1. AtStart => AtStart'
    BY <1>1 DEF AtStart
  <2>2. Erred => Erred'
    BY <1>1 DEF Erred
  <2>3. (Nothing => Nothing') /\ (AtEnd => AtEnd')
    BY <1>1 DEF Nothing, AtEnd
  <2>4. AtCommand => AtCommand'
    <3> SUFFICES ASSUME AtCommand PROVE AtCommand'
      OBVIOUS
    <3>1. PICK o \in Starts(line) :
            /\ Agrees(line, queue, o)
            /\ InPiece(o) \/ Joining(o) \/ Joined(o) \/ Passing(o) \/ Ending(o) \/ Starting(o)
      BY DEF AtCommand
    <3>2. o \in Starts(line') /\ Agrees(line', queue', o)
      BY <1>1, <3>1
    <3>3. CASE InPiece(o)
      <4>1. InPiece(o)'
        BY <1>1, <3>3 DEF InPiece, At
      <4> QED
        BY <3>2, <4>1 DEF AtCommand
    <3>4. Whole(o)' <=> Whole(o)
      BY <1>1 DEF Whole
    <3>5. CASE Joining(o)
      <4>1. Joining(o)'
        BY <1>1, <3>4, <3>5 DEF Joining
      <4> QED
        BY <3>2, <4>1 DEF AtCommand
    <3>6. CASE Joined(o)
      <4>1. Joined(o)'
        BY <1>1, <3>4, <3>6 DEF Joined
      <4> QED
        BY <3>2, <4>1 DEF AtCommand
    <3>7. CASE Passing(o)
      <4>1. Passing(o)'
        BY <1>1, <3>4, <3>7 DEF Passing
      <4> QED
        BY <3>2, <4>1 DEF AtCommand
    <3>8. CASE Ending(o)
      <4>1. Ending(o)'
        BY <1>1, <3>4, <3>8 DEF Ending
      <4> QED
        BY <3>2, <4>1 DEF AtCommand
    <3>9. CASE Starting(o)
      <4>1. Starting(o)'
        BY <1>1, <3>9 DEF Starting
      <4> QED
        BY <3>2, <4>1 DEF AtCommand
    <3> QED
      BY <3>1, <3>3, <3>5, <3>6, <3>7, <3>8, <3>9
  <2>5. Parsed /\ PrefixKept => Parsed' /\ PrefixKept'
    BY <1>1 DEF Parsed, PrefixKept
  <2> QED
    BY <1>1, <2>1, <2>2, <2>3, <2>4, <2>5 DEF Follows

\* Follows is inductive, next to IInv.
LEMMA NextFollows ==
  ASSUME IInv, Follows, [Next]_vars
  PROVE  Follows'
BY ScanFollows, AppendFollows, AppendInFollows, AppendOutFollows, NewFollows,
   TermFollows, TermFailsFollows, TermEmptyFollows, BgFollows, JoinFollows,
   ReturnFollows, StutterFollows DEF Next

(* For any line, parseInput() queues the commands the grammar gives it, or *)
(* nothing if the grammar does not accept it (src/src/parser.rl, lines     *)
(* 103-141).                                                               *)
THEOREM Parses == Spec => []Parsed
<1>1. Follows => Parsed
  BY DEF Follows, Parsed
<1> QED
  BY InitIInv, NextIInv, InitFollows, NextFollows, <1>1, PTL DEF Spec

(* For any line, the queue of a call that wordexp() broke off holds the    *)
(* commands in front of the one it failed on (src/src/parser.rl, lines     *)
(* 79-83).                                                                 *)
THEOREM KeepsPrefix == Spec => []PrefixKept
<1>1. Follows => PrefixKept
  BY DEF Follows, PrefixKept
<1> QED
  BY InitIInv, NextIInv, InitFollows, NextFollows, <1>1, PTL DEF Spec
=============================================================================
