----------------------------- MODULE MCSession ------------------------------
(* Lines for TLC on which aliases, variables and builtins meet.            *)
EXTENDS Session

MCDirs   == {<<"/">>, <<"/home">>}
MCString == STRING

W(x)      == <<x>>
Set(k, v) == <<k, v>>
Ref(v)    == <<"$", v>>

One(t)       == [text |-> t, conn |-> "none", file |-> FALSE]
With(t, c)   == [text |-> t, conn |-> c, file |-> FALSE]
Files(t)     == [text |-> t, conn |-> "none", file |-> TRUE]
FilesThen(t) == [text |-> t, conn |-> "seq", file |-> TRUE]

DefLl   == <<W("alias"), Set("ll", "ls")>>
DefLs   == <<W("alias"), Set("ls", "ll")>>
DefEcho == <<W("alias"), Set("ls", "export")>>
Ll      == <<W("ll"), Set("X", "cd")>>
SetX    == <<W("export"), Set("X", "cd")>>
Home    == <<W("export"), Set("HOME", "/home")>>
X       == <<Ref("X")>>
Cd      == <<W("cd")>>
Broken  == <<W("ls"), W("(")>>

MCLines ==
  { <<>>,                                                 \* rejected, or blank
    <<One(DefLl)>>,
    <<One(DefLs)>>,
    <<One(DefEcho)>>,
    <<One(<<W("unalias"), W("ll")>>)>>,
    <<One(Ll)>>,                                          \* ll X=cd
    <<With(DefLl, "seq"), With(Ll, "none")>>,             \* alias ll=ls ; ll X=cd
    <<With(SetX, "seq"), With(X, "seq"), One(Ll)>>,       \* export X=cd ; $X ; ll X=cd
    <<With(Home, "bg"), One(Cd)>>,                        \* export HOME=/home & cd
    <<One(Home)>>,
    <<With(SetX, "pipe"), One(X)>>,                       \* export X=cd | $X
    <<One(X)>>,                                           \* $X
    <<With(SetX, "seq"), With(Cd, "seq"), One(Broken)>>,  \* export X=cd ; cd ; ls (
    <<With(SetX, "pipe"), One(Broken)>>,                  \* export X=cd | ls (
    <<With(SetX, "seq"), With(SetX, "seq"), Files(Cd)>>,  \* ... ; cd < f
    <<FilesThen(SetX), One(X)>>,                          \* export X=cd < f ; $X
    <<With(<<W("touch"), W("f")>>, "seq"), One(<<Any>>)>>,\* touch f ; *
    <<One(<<W("exit")>>)>>,
    <<One(<<W("export")>>)>> }
=============================================================================
