---------------------------- MODULE MCCheckStyle ----------------------------
(* Files, texts and command lines of CheckStyle for TLC.                   *)
EXTENDS CheckStyle

Text(fs) == [is |-> "text", flaws |-> fs]
Include(fs) == [is |-> "include", flaws |-> fs]
Guard(g, fs) == [is |-> g, flaws |-> fs]

File(type, skipped, access) == [type |-> type, skipped |-> skipped, access |-> access]

\* A C++ file, a Python script in a directory that is skipped unless named, another
\* C++ file, and two files of data the script may only read, or not even that.
MCTree == <<File("cpp", FALSE, "write"), File("python", TRUE, "write"), File("cpp", FALSE, "write"),
            File("data", FALSE, "read"), File("data", FALSE, "none")>>

\* Headers, one of them behind a tab; a file to be left alone between guards; the
\* license with its remainder; bytes of another encoding; nothing to complain of.
MCTexts == [
  cpp |-> {
    <<Include({"prefix", "angle", "indent"}), Include({"angle", "tab"})>>,
    <<Text({"gpl"}), Text({"gplRest"}), Guard("off", {}), Text({"tab", "blank", "doxygen"}),
      Guard("on", {"blank"}), Text({"doxygen"})>>,
    <<Text({"bytes", "blank"})>>, <<Include({})>>},
  python |-> {<<Text({"emacs"}), Text({"tab", "blank"})>>, <<Text({})>>},
  data |-> {<<Text({"blank"})>>}]

One(f)   == [kind |-> "file", files |-> {f}]
Dir      == [kind |-> "dir", files |-> {1, 2, 3}]
Missing  == [kind |-> "missing", files |-> {}]

All == Range(CHECKS)

\* Every check and file; the file of the directory named again; a directory or
\* two files; the ways the command line itself may fail;
\* and a file that cannot be written, or read.
MCOptions ==
  [paths : {<<One(1), One(2), One(3)>>, <<Dir, One(1)>>}, enabled : {All, All \ {"formatting"}},
   fix : BOOLEAN, clang : {TRUE}, jobs : {1, 2}]
    \cup
  [paths : {<<Dir>>, <<One(2), Missing>>}, enabled : {{}, {"encoding", "formatting"}, All},
   fix : BOOLEAN, clang : BOOLEAN, jobs : {0, 2}]
    \cup
  [paths : {<<One(1), One(4)>>, <<One(1), One(5)>>}, enabled : {All}, fix : BOOLEAN,
   clang : {TRUE}, jobs : {1, 2}]
=============================================================================
