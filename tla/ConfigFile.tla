----------------------------- MODULE ConfigFile -----------------------------
(***************************************************************************)
(* utils.py: reading a list or a Boolean out of a file of Python           *)
(* assignments, line by line and by substring, and the .ns3rc file. A file *)
(* is the sequence of its tokens, each with the number of its line.        *)
(***************************************************************************)
EXTENDS Integers, Sequences, SequencesExt, Subsequence

CONSTANTS
  Words,  \* the tokens there are
  Inside, \* the pairs <<a, b>> of words such that a occurs inside b
  Files,  \* the files get_list_from_file is compared on
  RcFiles \* the files that may be a .ns3rc

Token == [line : Nat, word : Words]

IsFile(file) ==
  /\ file \in Seq(Token)
  /\ \A i, j \in DOMAIN file : i < j => file[i].line <= file[j].line

ASSUME ConfigAssumption == \A file \in Files \cup RcFiles : IsFile(file)

Missing == <<[line |-> 0, word |-> "no such file"]>>

\* What eval gives, or the exception it raises.
Value(v) == [raised |-> FALSE, value |-> v]
Raised   == [raised |-> TRUE, value |-> <<>>]

\* The file without its comments.
Code(file) == Those(file, {i \in DOMAIN file :
                             \A j \in 1 .. i : file[j].line = file[i].line => file[j].word # "#"})

Spelled(code) == [i \in DOMAIN code |-> code[i].word]

\* The words on the lines from m to n.
Text(code, m, n) == Those(Spelled(code), {i \in DOMAIN code : code[i].line \in m .. n})

\* eval of what follows the first "=".
Eval(text) ==
  LET e == SubSeq(text, Min({i \in DOMAIN text : text[i] = "="}) + 1, Len(text))
      inner == SubSeq(e, 2, Len(e) - 1)
  IN IF "=" \notin Range(text) \/ e = <<>> THEN Raised
     ELSE CASE e[1] = "[" /\ Last(e) = "]" /\ Range(inner) \cap {"[", "]", "="} = {} -> Value(inner)
            [] Len(e) = 1 /\ e[1] \in {"True", "False"} -> Value(e[1] = "True")
            [] OTHER -> Raised

\* Where the name occurs, be it inside another word.
Mentioned(code, name) ==
  {i \in DOMAIN code : code[i].word = name \/ <<name, code[i].word>> \in Inside}

\* Mutant: only the line that names the list is read.
Closing_oneLine(code, m) == {i \in DOMAIN code : code[i].line = m}

\* Where a list that begins on line m may end.
Closing(code, m) == {i \in DOMAIN code : code[i].line >= m /\ code[i].word = "]"}

\* From the first line that mentions the name to the first that closes a list.
get_list_from_file(file, list_name) ==
  LET code == Code(file)
      named == Mentioned(code, list_name)
      m == code[Min(named)].line
      closing == Closing(code, m)
  IN IF file = Missing \/ named = {} \/ closing = {} THEN Value(<<>>)
     ELSE Eval(Text(code, m, code[Min(closing)].line))

\* The first line that mentions the name.
get_bool_from_file(file, bool_name, value_if_missing) ==
  LET code == Code(file)
      named == Mentioned(code, bool_name)
      m == code[Min(named)].line
  IN IF file = Missing \/ named = {} THEN Value(value_if_missing) ELSE Eval(Text(code, m, m))

\* The .ns3rc of the working directory, or else the one of the home directory.
ReadFrom(cwd, home) == IF cwd # Missing THEN cwd ELSE home

read_config_file(cwd, home) ==
  LET list == get_list_from_file(ReadFrom(cwd, home), "modules_enabled")
      examples == get_bool_from_file(ReadFrom(cwd, home), "examples_enabled", FALSE)
      tests == get_bool_from_file(ReadFrom(cwd, home), "tests_enabled", FALSE)
  IN IF list.raised \/ examples.raised \/ tests.raised THEN Raised
     ELSE Value([config_file_exists |-> cwd # Missing \/ home # Missing,
                 modules_enabled |-> IF list.value = <<>> THEN <<"all_modules">> ELSE list.value,
                 examples_enabled |-> examples.value,
                 tests_enabled |-> tests.value])

----------------------------------------------------------------------------
(* Reference: what a Python interpreter would make of the file.            *)

Statements(file) == Spelled(Code(file))

\* The positions after "=" where something is assigned to name.
Assigned(file, name) ==
  LET s == Statements(file)
  IN {i \in 3 .. Len(s) : s[i - 2] = name /\ s[i - 1] = "="}

\* The first list assigned to name, <<>> if there is none or it has no end.
AssignedList(file, name) ==
  LET s == Statements(file)
      at == {i \in Assigned(file, name) : s[i] = "["}
      ends == {k \in Min(at) .. Len(s) : s[k] = "]"}
  IN IF at = {} \/ ends = {} THEN <<>> ELSE SubSeq(s, Min(at) + 1, Min(ends) - 1)

\* The first Boolean assigned to name, otherwise the default.
AssignedBool(file, name, default) ==
  LET s == Statements(file)
      at == {i \in Assigned(file, name) : s[i] \in {"True", "False"}}
  IN IF at = {} THEN default ELSE s[Min(at)] = "True"

\* The first and the last token of a line.
Begins(file, i) == i = 1 \/ file[i - 1].line # file[i].line
Ends(file, i)   == i = Len(file) \/ file[i + 1].line # file[i].line

\* What these readers are written for. The name is not part of another word, and
\* where it occurs first, at the beginning of a line, something is assigned to it.
NamedFirst(file, name) ==
  LET code == Code(file)
      named == {i \in DOMAIN code : code[i].word = name}
  IN /\ \A i \in DOMAIN code : <<name, code[i].word>> \notin Inside
     /\ named # {} => Begins(code, Min(named)) /\ Min(named) + 2 \in Assigned(file, name)

\* Moreover this is a list, without another one in it, that ends with its line.
ReadableList(file, name) ==
  LET code == Code(file)
      first == Min({i \in DOMAIN code : code[i].word = name}) + 2
      ends == {k \in first .. Len(code) : code[k].word = "]"}
  IN /\ NamedFirst(file, name)
     /\ name \in Range(Statements(file)) =>
          /\ code[first].word = "["
          /\ ends # {} => /\ Ends(code, Min(ends))
                          /\ \A k \in first + 1 .. Min(ends) : code[k].word \notin {"[", "="}

\* Moreover this is a Boolean and all there is on its line.
ReadableBool(file, name) ==
  LET code == Code(file)
      first == Min({i \in DOMAIN code : code[i].word = name}) + 2
  IN /\ NamedFirst(file, name)
     /\ name \in Range(Statements(file)) =>
          /\ code[first].word \in {"True", "False"}
          /\ code[first].line = code[first - 2].line /\ Ends(code, first)

\* get_list_from_file returns the list the file assigns, however it is broken
\* over lines and wherever comments with brackets stand.
ListsRead ==
  \A file \in Files : ReadableList(file, "modules_enabled") =>
    get_list_from_file(file, "modules_enabled") = Value(AssignedList(file, "modules_enabled"))

\* read_config_file takes all its settings from the .ns3rc of the working
\* directory if there is one, and otherwise all of them from the one at home:
\* the two are never mixed, and what the file leaves out has its default.
ConfigRead ==
  \A cwd, home \in RcFiles \cup {Missing} :
    LET file == IF cwd # Missing THEN cwd ELSE IF home # Missing THEN home ELSE <<>>
        list == AssignedList(file, "modules_enabled")
    IN /\ ReadableList(file, "modules_enabled")
       /\ ReadableBool(file, "examples_enabled") /\ ReadableBool(file, "tests_enabled")
       => read_config_file(cwd, home) =
            Value([config_file_exists |-> {cwd, home} # {Missing},
                   modules_enabled |-> IF list = <<>> THEN <<"all_modules">> ELSE list,
                   examples_enabled |-> AssignedBool(file, "examples_enabled", FALSE),
                   tests_enabled |-> AssignedBool(file, "tests_enabled", FALSE)])

FilesRead == ListsRead /\ ConfigRead
=============================================================================
