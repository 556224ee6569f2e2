----------------------------- MODULE CheckStyle -----------------------------
(***************************************************************************)
(* check-style-clang-format.py: the files a command line names, the nine   *)
(* checks applied one after the other by a pool of processes, and what     *)
(* --fix writes. A line is known by what the checks can see in it: whether *)
(* it is an #include or a format guard, and its flaws. A file is known by  *)
(* its place in the order of the names.                                    *)
(***************************************************************************)
EXTENDS Functions, FiniteSetsExt, Subsequence

CONSTANTS
  Tree,       \* the files: the checks they call for, and whether their directory is skipped
  Texts,      \* the texts a file may have, by the checks it calls for
  Options,    \* the command lines, and whether a supported clang-format is installed
  BufferLines \* how many lines a writer collects before they reach the file

CHECKS == <<"include_prefixes", "include_quotes", "doxygen_tags", "license", "emacs", "whitespace",
            "tabs", "formatting", "encoding">>

Manual == Range(CHECKS) \ {"formatting", "encoding"}

\* "indent", "tab" and "blank" are an indented line, a tab in the indentation and
\* a line that does not end right after its text; "angle" and "prefix" are an
\* ns-3 header in angle brackets, and one of the module of the file; "gpl" and
\* "gplRest" the first and the other lines of the GPL text; "bytes" is no UTF-8.
Flaws == {"prefix", "angle", "indent", "tab", "blank", "doxygen", "gpl", "gplRest", "emacs", "bytes"}
Layout == {"indent", "tab", "blank"}

\* A guard is a line with nothing else in it, and only an #include names a header.
Line == {l \in [is : {"text", "include", "on", "off", "hole"}, flaws : SUBSET Flaws] :
           /\ l.is \in {"on", "off"} => l.flaws \subseteq Layout
           /\ l.flaws \cap {"prefix", "angle"} # {} => l.is = "include"}

\* The checks a file calls for by its name and extension; valgrind.h and the
\* extensions no check knows are "none".
ChecksOf == [
  cpp    |-> Range(CHECKS),
  python |-> {"license", "emacs", "whitespace", "tabs"},
  cmake  |-> {"license", "whitespace", "tabs"},
  rst    |-> {"emacs", "whitespace", "tabs"},
  plain  |-> {"whitespace", "tabs"},
  data   |-> {"whitespace"},
  none   |-> {}]

ASSUME StyleAssumption ==
  /\ Tree \in Seq([type : DOMAIN ChecksOf, skipped : BOOLEAN, access : {"write", "read", "none"}])
  /\ \A f \in DOMAIN Tree : Tree[f].type \in DOMAIN Texts
  /\ \A t \in DOMAIN Texts : Texts[t] \subseteq Seq(Line)
  /\ \A o \in Options :
       /\ o.paths \in Seq([kind : {"file", "dir", "missing"}, files : SUBSET DOMAIN Tree])
       /\ \A p \in Range(o.paths) : p.kind = "file" => Cardinality(p.files) = 1
       /\ o.enabled \subseteq Range(CHECKS)
       /\ o.fix \in BOOLEAN /\ o.clang \in BOOLEAN /\ o.jobs \in Int
  /\ BufferLines \in Nat \ {0}

Files == DOMAIN Tree

\* What the permissions of a file let the script do with it.
Readable(f) == Tree[f].access # "none"
Writable(f) == Tree[f].access = "write"

VARIABLES
  opts,      \* the command line
  content,   \* what each file holds
  phase,     \* "find", "choose", "pool", "raised", "exited" or "killed"
  found,     \* files_found
  n,         \* how many of CHECKS are behind
  tasks,     \* the calls of the check at hand, in the order of the files
  collected, \* how many of their results the main process has taken
  success,   \* whether every value of checks_successful is True
  exit,      \* the exit code, -1 before
  original,  \* history: the files before the run
  base       \* history: the files when the check at hand began

vars == <<opts, content, phase, found, n, tasks, collected, success, exit, original, base>>

----------------------------------------------------------------------------
(* The line functions: the line as they leave it.                          *)

Has(l, f) == f \in l.flaws
Without(l, fs) == [l EXCEPT !.flaws = @ \ fs]

\* The empty string a deleted line is replaced by.
Nothing == [is |-> "nothing", flaws |-> {}]

\* The line is stripped, loses its prefix and gets quotes.
check_include_prefixes_line(l) ==
  IF Has(l, "prefix") THEN Without(l, {"prefix", "angle", "indent", "tab", "blank"}) ELSE l

\* The pattern is anchored at the first column, and knows a single space only.
check_include_quotes_line(l) ==
  IF Has(l, "angle") /\ ~Has(l, "indent") /\ ~Has(l, "tab") THEN Without(l, {"angle"}) ELSE l

check_doxygen_tags_line(l) == Without(l, {"doxygen"})

check_licenses_line(l) == IF Has(l, "gplRest") THEN Nothing ELSE Without(l, {"gpl"})

check_emacs_line(l) == IF Has(l, "emacs") THEN Nothing ELSE l

check_whitespace_line(l) == Without(l, {"blank"})

\* Tabs become spaces: an #include stays indented.
check_tabs_line(l) ==
  IF ~Has(l, "tab") THEN l
  ELSE IF l.is = "include" THEN [l EXCEPT !.flaws = (@ \ {"tab"}) \cup {"indent"}]
  ELSE Without(l, {"tab"})

check_line(check, l) ==
  CASE check = "include_prefixes" -> check_include_prefixes_line(l)
    [] check = "include_quotes" -> check_include_quotes_line(l)
    [] check = "doxygen_tags" -> check_doxygen_tags_line(l)
    [] check = "license" -> check_licenses_line(l)
    [] check = "emacs" -> check_emacs_line(l)
    [] check = "whitespace" -> check_whitespace_line(l)
    [] check = "tabs" -> check_tabs_line(l)

----------------------------------------------------------------------------
(* The file functions: the text as they would leave it.                    *)

IsGuard(l) == l.is \in {"on", "off"}

\* Whether the format guards before or at line i are off.
Off(text, i) ==
  \E k \in 1 .. i : text[k].is = "off" /\ \A m \in k + 1 .. i : text[m].is # "on"

\* What writelines makes of a list of lines.
Written(lines) == Those(lines, {i \in DOMAIN lines : lines[i] # Nothing})

\* Mutant: guards are not looked at.
check_manually_file_unguarded(check, text) ==
  Written([i \in DOMAIN text |-> check_line(check, text[i])])

\* The lines between the guards are passed over, the guards themselves are not;
\* trailing whitespace does not respect guards.
check_manually_file(check, text) ==
  Written([i \in DOMAIN text |->
    IF check = "whitespace" \/ IsGuard(text[i]) \/ ~Off(text, i) THEN check_line(check, text[i])
                                                                ELSE text[i]])

\* clang-format: the layout of the lines outside the guards.
clang_format(text) ==
  [i \in DOMAIN text |-> IF Off(text, i) /\ ~IsGuard(text[i]) THEN text[i]
                                                             ELSE Without(text[i], Layout)]

\* Bytes that are no UTF-8 are replaced.
check_encoding_file(text) ==
  [i \in DOMAIN text |-> Without(text[i], {"bytes"})]

Fixed(check, text) ==
  IF check \in Manual THEN check_manually_file(check, text)
  ELSE IF check = "formatting" THEN clang_format(text) ELSE check_encoding_file(text)

\* The line checks read the file as strict UTF-8.
Decodes(text) == \A i \in DOMAIN text : ~Has(text[i], "bytes")

----------------------------------------------------------------------------
Init ==
  /\ opts \in Options
  /\ content \in {c \in [Files -> UNION Range(Texts)] : \A f \in Files : c[f] \in Texts[Tree[f].type]}
  /\ phase = "find" /\ found = <<>> /\ n = 0
  /\ tasks = <<>> /\ collected = 0
  /\ success = TRUE /\ exit = -1
  /\ original = content /\ base = content

\* The main process ends: an exception gives 1 like a check that failed.
Exit(code) == phase' = "exited" /\ exit' = code

\* The files of a path: those of a skipped directory only if named themselves.
FilesOf(path) == IF path.kind = "dir" THEN {f \in path.files : ~Tree[f].skipped} ELSE path.files

\* find_files_to_check_style: the files in the order of their names, each as often
\* as a path names it.
Find ==
  LET hits == {h \in Files \X DOMAIN opts.paths : h[1] \in FilesOf(opts.paths[h[2]])}
  IN /\ phase = "find"
     /\ \A p \in Range(opts.paths) : p.kind # "missing"
     /\ \E list \in [1 .. Cardinality(hits) -> Files] :
          /\ \A i, k \in DOMAIN list : i < k => list[i] <= list[k]
          /\ \A f \in Files : Cardinality({i \in DOMAIN list : list[i] = f})
                              = Cardinality({h \in hits : h[1] = f})
          /\ found' = list
     /\ phase' = "choose"
     /\ UNCHANGED <<opts, content, n, tasks, collected, success, exit, original, base>>

\* ValueError for a path that is neither a file nor a directory, RuntimeError
\* without a supported clang-format.
FindRaises ==
  /\ \/ phase = "find" /\ \E p \in Range(opts.paths) : p.kind = "missing"
     \/ phase = "choose" /\ n = 0 /\ "formatting" \in opts.enabled /\ ~opts.clang
  /\ Exit(1)
  /\ UNCHANGED <<opts, content, found, n, tasks, collected, success, original, base>>

Choosing == phase = "choose" /\ ("formatting" \in opts.enabled => opts.clang)

SkipCheck ==
  /\ Choosing /\ n < Len(CHECKS) /\ CHECKS[n + 1] \notin opts.enabled
  /\ n' = n + 1 /\ base' = content
  /\ UNCHANGED <<opts, content, phase, found, tasks, collected, success, exit, original>>

Check == CHECKS[n + 1]

\* The pool of the next enabled check; ValueError unless --jobs is positive.
StartCheck ==
  /\ Choosing /\ n < Len(CHECKS) /\ Check \in opts.enabled
  /\ IF opts.jobs <= 0 THEN Exit(1) /\ UNCHANGED tasks
     ELSE /\ phase' = "pool"
          /\ tasks' = LET mine == Those(found, {i \in DOMAIN found : Check \in ChecksOf[Tree[found[i]].type]})
                      IN [i \in DOMAIN mine |->
                            [file |-> mine[i], pc |-> "pending", ok |-> TRUE, text |-> <<>>, at |-> 0]]
          /\ UNCHANGED exit
  /\ base' = content
  /\ UNCHANGED <<opts, content, found, n, collected, success, original>>

----------------------------------------------------------------------------
(* The processes of the pool: one call of a file function each.            *)

poolVars == <<opts, found, n, collected, success, original, base, exit, phase>>
Busy == {i \in DOMAIN tasks : tasks[i].pc \in {"started", "truncate", "flush", "format"}}
Step(i, pc) == tasks' = [tasks EXCEPT ![i].pc = pc]
PoolUp == phase \in {"pool", "raised"}

\* Mutant: every call gets a process of its own.
Start_unbounded(i) ==
  /\ PoolUp /\ tasks[i].pc = "pending"
  /\ Step(i, "started")
  /\ UNCHANGED <<poolVars, content>>

\* The calls start in order, at most --jobs at a time.
Start(i) ==
  /\ PoolUp /\ tasks[i].pc = "pending"
  /\ \A k \in 1 .. i - 1 : tasks[k].pc # "pending"
  /\ Cardinality(Busy) < opts.jobs
  /\ Step(i, "started")
  /\ UNCHANGED <<poolVars, content>>

\* The file is read at once and checked line by line; a check without --fix may
\* stop at the first line that does not comply.
Read(i) ==
  /\ PoolUp /\ tasks[i].pc = "started"
  /\ LET text == content[tasks[i].file]
         ok   == Readable(tasks[i].file) /\ Fixed(Check, text) = text
     IN /\ Check # "formatting" => Readable(tasks[i].file)
        /\ Check \in Manual => Decodes(text)
        /\ tasks' = [tasks EXCEPT ![i] =
             [@ EXCEPT !.ok = ok, !.text = IF ok \/ ~opts.fix THEN <<>> ELSE Fixed(Check, text),
                       !.pc = IF ok \/ ~opts.fix THEN "done"
                              ELSE IF Check = "formatting" THEN "format" ELSE "truncate"]]
  /\ UNCHANGED <<poolVars, content>>

\* OSError of open(filename, "r"), UnicodeDecodeError. clang-format complains of a
\* file it cannot read by its return code.
ReadRaises(i) ==
  /\ PoolUp /\ tasks[i].pc = "started"
  /\ \/ Check # "formatting" /\ ~Readable(tasks[i].file)
     \/ Check \in Manual /\ ~Decodes(content[tasks[i].file])
  /\ Step(i, "failed")
  /\ UNCHANGED <<poolVars, content>>

\* open(filename, "w")
Truncate(i) ==
  /\ PoolUp /\ tasks[i].pc = "truncate"
  /\ Writable(tasks[i].file)
  /\ content' = [content EXCEPT ![tasks[i].file] = <<>>]
  /\ Step(i, "flush")
  /\ UNCHANGED poolVars

\* OSError: the file may be read only.
TruncateRaises(i) ==
  /\ PoolUp /\ tasks[i].pc = "truncate"
  /\ ~Writable(tasks[i].file)
  /\ Step(i, "failed")
  /\ UNCHANGED <<poolVars, content>>

\* A writer puts lines at its own place in the file, which another one may have
\* cut off before that place, or written beyond it. Unless it is the last one, a
\* piece ends inside a line; the next piece completes that line.
Overwrite(old, from, new, to) ==
  [k \in 1 .. Max({Len(old), to}) |->
     IF k \in from .. to
     THEN IF k = to /\ to < Len(new) THEN [new[k] EXCEPT !.flaws = @ \cup {"blank"}] ELSE new[k]
     ELSE IF k <= Len(old) THEN old[k] ELSE [is |-> "hole", flaws |-> {}]]

\* One buffer of lines reaches the file, the last one when the file is closed.
Flush(i) ==
  /\ PoolUp /\ tasks[i].pc = "flush"
  /\ LET t == tasks[i]
         to == Min({t.at + BufferLines, Len(t.text)})
     IN /\ content' = [content EXCEPT ![t.file] = Overwrite(@, t.at, t.text, to)]
        /\ tasks' = IF to = Len(t.text) THEN [tasks EXCEPT ![i].pc = "done", ![i].text = <<>>, ![i].at = 0]
                                        ELSE [tasks EXCEPT ![i].at = to]
  /\ UNCHANGED poolVars

\* clang-format -i replaces the file, or fails: nobody looks at its exit code.
Format(i) ==
  /\ PoolUp /\ tasks[i].pc = "format"
  /\ \/ Writable(tasks[i].file) /\ content' = [content EXCEPT ![tasks[i].file] = clang_format(@)]
     \/ UNCHANGED content
  /\ tasks' = [tasks EXCEPT ![i].pc = "done", ![i].text = <<>>]
  /\ UNCHANGED poolVars

----------------------------------------------------------------------------
(* The main process: results in the order of the files.                    *)

Collect ==
  /\ phase = "pool" /\ collected < Len(tasks)
  /\ tasks[collected + 1].pc = "done"
  /\ collected' = collected + 1
  /\ UNCHANGED <<opts, content, phase, found, n, tasks, success, exit, original, base>>

\* The call raised: the calls not handed to a process yet are cancelled; --jobs
\* and one more may have been.
CollectRaises ==
  /\ phase = "pool" /\ collected < Len(tasks)
  /\ tasks[collected + 1].pc = "failed"
  /\ \E handed \in 0 .. opts.jobs + 1 :
       tasks' = [i \in DOMAIN tasks |->
                   IF tasks[i].pc = "pending"
                        /\ Cardinality({k \in 1 .. i : tasks[k].pc = "pending"}) > handed
                   THEN [tasks[i] EXCEPT !.pc = "cancelled"] ELSE tasks[i]]
  /\ phase' = "raised"
  /\ UNCHANGED <<opts, content, found, n, collected, success, exit, original, base>>

Over(i) == tasks[i].pc \in {"done", "failed", "cancelled"}

\* The pool waits for its processes before the exception goes on to main.
LeavePool ==
  /\ phase = "raised" /\ \A i \in DOMAIN tasks : Over(i)
  /\ Exit(1)
  /\ UNCHANGED <<opts, content, found, n, tasks, collected, success, original, base>>

\* Mutant: the next check starts while files of this one are still written.
EndCheck_early ==
  /\ phase = "pool" /\ \A i \in DOMAIN tasks : tasks[i].pc # "pending"
  /\ success' = (success /\ (opts.fix \/ \A i \in DOMAIN tasks : tasks[i].ok))
  /\ n' = n + 1 /\ tasks' = <<>> /\ collected' = 0 /\ phase' = "choose"
  /\ UNCHANGED <<opts, content, found, exit, original, base>>

\* Mutant: only the result of the last file counts.
EndCheck_last ==
  /\ phase = "pool" /\ collected = Len(tasks)
  /\ success' = (success /\ (opts.fix \/ tasks = <<>> \/ tasks[Len(tasks)].ok))
  /\ n' = n + 1 /\ tasks' = <<>> /\ collected' = 0 /\ phase' = "choose"
  /\ UNCHANGED <<opts, content, found, exit, original, base>>

\* check_style_files returns: with --fix, files that did not comply count as fixed.
EndCheck ==
  /\ phase = "pool" /\ collected = Len(tasks)
  /\ success' = (success /\ (opts.fix \/ \A i \in DOMAIN tasks : tasks[i].ok))
  /\ n' = n + 1 /\ tasks' = <<>> /\ collected' = 0 /\ phase' = "choose"
  /\ UNCHANGED <<opts, content, found, exit, original, base>>

Return ==
  /\ Choosing /\ n = Len(CHECKS)
  /\ Exit(IF success THEN 0 ELSE 1)
  /\ UNCHANGED <<opts, content, found, n, tasks, collected, success, original, base>>

\* Control-C or a kill reaches the main process and the pool.
Kill ==
  /\ phase \notin {"exited", "killed"}
  /\ phase' = "killed"
  /\ UNCHANGED <<opts, content, found, n, tasks, collected, success, exit, original, base>>

Terminated == phase \in {"exited", "killed"} /\ UNCHANGED vars

Next ==
  \/ Find \/ FindRaises \/ SkipCheck \/ StartCheck \/ Collect \/ CollectRaises \/ LeavePool
  \/ EndCheck \/ Return \/ Kill \/ Terminated
  \/ \E i \in DOMAIN tasks :
       Start(i) \/ Read(i) \/ ReadRaises(i) \/ Truncate(i) \/ TruncateRaises(i) \/ Flush(i) \/ Format(i)

Spec == Init /\ [][Next]_vars

----------------------------------------------------------------------------
(* Properties.                                                             *)

TypeOK ==
  /\ opts \in Options
  /\ content \in [Files -> Seq(Line)] /\ original \in [Files -> Seq(Line)]
  /\ base \in [Files -> Seq(Line)]
  /\ phase \in {"find", "choose", "pool", "raised", "exited", "killed"}
  /\ found \in Seq(Files) /\ n \in 0 .. Len(CHECKS)
  /\ tasks \in Seq([file : Files, ok : BOOLEAN, text : Seq(Line), at : Nat,
                   pc : {"pending", "started", "truncate", "flush", "format", "done", "failed", "cancelled"}])
  /\ collected \in 0 .. Len(tasks)
  /\ Busy # {} => Cardinality(Busy) <= opts.jobs
  /\ success \in BOOLEAN /\ exit \in -1 .. 1

\* The files some process is writing, or was writing when the run was killed.
BeingWritten == {tasks[i].file : i \in {i \in DOMAIN tasks : tasks[i].pc = "flush"}}

\* Named once, or so short that it is written in one piece.
Safe(f) ==
  \/ \A i, k \in DOMAIN found : found[i] = f /\ found[k] = f => i = k
  \/ Len(original[f]) <= BufferLines

\* The last check begun.
Latest == CHECKS[IF tasks # <<>> THEN n + 1 ELSE n]

\* However the processes of a check interleave, also on a short file that two
\* paths name, and whenever the run is killed: a file nobody is writing holds the
\* text it had when the check began, or that text as the check fixes it once.
TextKept ==
  \A f \in Files \ BeingWritten :
    Safe(f) => \/ content[f] = base[f]
               \/ opts.fix /\ Latest \in opts.enabled /\ content[f] = Fixed(Latest, base[f])

\* What the format guards protect in a text: the lines between them, but for
\* trailing whitespace and encoding.
Protected(text) ==
  Those([i \in DOMAIN text |-> Without(text[i], {"blank", "bytes"})],
        {i \in DOMAIN text : Off(text, i) /\ ~IsGuard(text[i])})

\* The guards are respected by all nine checks in a row: no protected line is
\* changed, moved out or deleted, whatever is deleted around it.
GuardsRespected ==
  \A f \in Files \ BeingWritten : Safe(f) => Protected(content[f]) = Protected(original[f])

\* What a line must not have for a check to accept it.
FlawsOf == [
  include_prefixes |-> {"prefix"}, include_quotes |-> {"angle"}, doxygen_tags |-> {"doxygen"},
  license |-> {"gpl", "gplRest"}, emacs |-> {"emacs"}, whitespace |-> {"blank"}, tabs |-> {"tab"},
  formatting |-> Layout, encoding |-> {"bytes"}]

\* A check accepts a text: it sees none of its flaws in the lines it looks at.
Accepts(check, text) ==
  /\ check \in Manual => Decodes(text)
  /\ \A i \in DOMAIN text :
       \/ text[i].flaws \cap FlawsOf[check] = {}
       \/ check \notin {"whitespace", "encoding"} /\ ~IsGuard(text[i]) /\ Off(text, i)
       \/ check = "include_quotes" /\ text[i].flaws \cap {"indent", "tab"} # {}

\* What the command line asks for can be done at all.
Usable ==
  /\ \A p \in Range(opts.paths) : p.kind # "missing"
  /\ "formatting" \in opts.enabled => opts.clang
  /\ opts.enabled = {} \/ opts.jobs > 0

\* The checks whose work clang-format undoes, or nobody looks at.
Late == IF "formatting" \in opts.enabled THEN {"formatting", "include_quotes"} ELSE {}

Accepted(f, check, text) ==
  check \in ChecksOf[Tree[f].type] => Readable(f) /\ Accepts(check, text[f])

\* The exit code of a check is 0 exactly when the paths, --jobs and clang-format
\* are usable and every enabled check can read and accepts every file it concerns. With --fix
\* it is 0 only if the line checks and the encoding check accept what is left,
\* save for an #include that clang-format has moved to the first column.
VerdictExact ==
  phase = "exited" =>
    /\ ~opts.fix =>
         (exit = 0 <=> Usable /\ \A f \in Range(found), c \in opts.enabled : Accepted(f, c, content))
    /\ opts.fix /\ exit = 0 =>
         Usable /\ \A f \in Range(found), c \in opts.enabled \ Late : Safe(f) => Accepted(f, c, content)

----------------------------------------------------------------------------
(* The inductive invariant.                                                *)

\* Where the main process is.
PhaseInv ==
  /\ phase \in {"find", "choose"} => tasks = <<>> /\ collected = 0
  /\ phase = "find" => n = 0 /\ found = <<>> /\ success /\ base = content /\ content = original
  /\ phase \in {"find", "choose", "pool", "raised"} => exit = -1
  /\ phase \notin {"find", "exited", "killed"} => \A p \in Range(opts.paths) : p.kind # "missing"
  /\ n > 0 /\ (\E j \in 1 .. n : CHECKS[j] \in opts.enabled) => opts.jobs > 0
  /\ phase \in {"pool", "raised"} \/ tasks # <<>> =>
       /\ n < Len(CHECKS) /\ Check \in opts.enabled /\ opts.jobs > 0
       /\ [i \in DOMAIN tasks |-> tasks[i].file]
            = Those(found, {i \in DOMAIN found : Check \in ChecksOf[Tree[found[i]].type]})
  /\ phase \in {"pool", "raised"} /\ tasks = <<>> => base = content
  /\ \A i \in 1 .. collected : tasks[i].pc = "done"
  /\ phase = "raised" => \E i \in DOMAIN tasks : tasks[i].pc = "failed"

\* What a call that writes has done to its file: nothing before it opens the file;
\* then a short file is empty or fixed already, by another call, and a file of
\* this call alone has the lines written so far.
Writing(i) ==
  LET t == tasks[i]
      fixed == Fixed(Check, base[t.file])
      old == content[t.file]
  IN /\ t.pc \in {"truncate", "flush"} => t.text = fixed
     /\ t.pc = "flush" =>
          IF Len(original[t.file]) <= BufferLines THEN t.at = 0 /\ old \in {<<>>, fixed}
          ELSE Len(old) = t.at /\ \A k \in 1 .. t.at - 1 : old[k] = fixed[k]
     /\ t.pc = "done" /\ opts.fix /\ Check # "formatting" =>
          t.file \in BeingWritten \/ old = fixed
     /\ t.pc \in {"truncate", "flush", "done"} /\ opts.fix /\ Check \in Manual => Decodes(fixed)

TaskInv ==
  /\ ~opts.fix => content = original /\ base = original
  /\ \A i \in DOMAIN tasks :
       LET t == tasks[i]
       IN /\ t.pc \in {"truncate", "flush"} => opts.fix /\ Check # "formatting"
          /\ t.pc = "format" => opts.fix /\ Check = "formatting"
          /\ t.pc # "flush" => t.at = 0
          /\ t.at <= Len(t.text)
          /\ t.pc \in {"truncate", "flush", "done"} /\ Check # "formatting" => Readable(t.file)
          /\ t.pc = "failed" => Check # "formatting"
          /\ t.pc = "failed" /\ ~opts.fix =>
               ~Readable(t.file) \/ (Check \in Manual /\ ~Decodes(base[t.file]))
          /\ t.pc = "done" /\ ~opts.fix =>
               /\ Check \in Manual => Decodes(base[t.file])
               /\ t.ok <=> Readable(t.file) /\ Fixed(Check, base[t.file]) = base[t.file]
          /\ Safe(t.file) => Writing(i)

\* What the checks before the one at hand have left.
BaseInv ==
  \A f \in Files : Safe(f) =>
    /\ Len(base[f]) <= Len(original[f])
    /\ Protected(base[f]) = Protected(original[f])

Behind == {CHECKS[j] : j \in 1 .. n} \cap opts.enabled

VerdictInv ==
  phase \in {"choose", "pool", "raised"} =>
    /\ ~opts.fix => (success <=> \A f \in Range(found), c \in Behind : Accepted(f, c, original))
    /\ opts.fix => success /\ \A f \in Range(found), c \in Behind \ Late :
         Safe(f) => Accepted(f, c, IF phase = "choose" THEN content ELSE base)

StyleInv == TypeOK /\ PhaseInv /\ TaskInv /\ TextKept /\ BaseInv /\ VerdictInv /\ VerdictExact
=============================================================================
