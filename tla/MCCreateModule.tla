--------------------------- MODULE MCCreateModule ---------------------------
(* Small instances of CreateModule for TLC.                                *)
EXTENDS CreateModule, TLC

MCNames == STRING

Ask(project, modnames) == [project |-> project, modnames |-> modnames]
Plain(modnames) == Ask(<<>>, modnames)

a == <<"a">>
b == <<"b">>
InSrc(name)     == <<"src">> \o name
InContrib(name) == <<"contrib">> \o name

\* Two runs that meet in a module, in a module and in a project inside it, or not
\* at all; and every kind of name main skips, rejects or stumbles over.
MCCommandLines ==
  {[p1 |-> pair[1], p2 |-> pair[2]] : pair \in
    {<<Plain(<<a, b>>), Plain(<<a>>)>>,
     <<Plain(<<InContrib(a)>>), Ask(a, <<b>>)>>,
     <<Plain(<<InSrc(a), a>>), Plain(<<<<"b", "c">>>>)>>,
     <<Plain(<<<<"*">>, a, <<>>, a>>), Plain(<<<<"a", "b", "c">>, b>>)>>,
     <<Plain(<<b, <<"old">>, a, b>>), Plain(<<InSrc(<<>>)>>)>>,
     <<Ask(a, <<InSrc(b), InContrib(<<>>)>>), Ask(<<"*">>, <<a>>)>>,
     <<Ask(Here, <<a, Here>>), Ask(Here, <<a, InContrib(b)>>)>>}}

Roots == [q \in {<<"src">>, <<"contrib">>} |-> "dir"]
OldFile == <<"contrib", "old", "old.cc">>
Old == [q \in {<<"contrib", "old">>} |-> "dir"] @@ (OldFile :> "whole")

\* A tree with a module of the user's, and a directory that is no ns-3 tree.
MCTrees == {Roots @@ Old, [q \in {<<"src">>} |-> "dir"]}
=============================================================================
