------------------------------ MODULE Selection ------------------------------
(***************************************************************************)
(* The first half of test.py's run_tests: from the configuration ns3 left  *)
(* behind to the queue of jobs the workers of TestRunner take. The build,  *)
(* the test runner's listings and the examples' files are the environment. *)
(***************************************************************************)
EXTENDS ConfigFile

CONSTANTS
  Cases,       \* the command lines and the lock files a run may start with
  Reconfigured,\* the lock files the build may leave in place of the old one
  Suites,      \* what test-runner --print-test-name-list prints
  KindOf,      \* the type of each suite
  Matching,    \* per pattern, the suites and the examples it matches
  ExampleFiles,\* what the examples-to-run.py files may list, in the order they are read
  Built,       \* the example programs found in the build directory
  Present,     \* the Python scripts found below the working directory
  Processors,  \* how many processors the machine has
  core_valgrind_skip_tests

None == "" \* an option that is not given

Durations == {"QUICK", "EXTENSIVE", "TAKES_FOREVER"}

\* The options that matter here; a test that passed before has a name and parameters.
Args == [suite : Words, constrain : Words, example : Words, params : Words, wild : BOOLEAN,
         pyexample : Words, valgrind : BOOLEAN, fullness : Durations,
         process_limit : Int, show : {None, "kinds", "list"}, no_build : BOOLEAN,
         passed : SUBSET (Words \X Words)]

\* An entry of a list of examples: a tuple of fields strings, two of which are
\* conditions.
Entry == [name : Words, params : Words, run : BOOLEAN, grind : BOOLEAN, fullness : Words,
          fields : Nat]

ConfigItems == {"ENABLE_TESTS", "ENABLE_EXAMPLES", "ENABLE_PYTHON_BINDINGS"}

\* The lock files there may be.
Locks == {c.lock : c \in Cases} \cup Reconfigured

\* The words on the line of the i-th token of the file, which are executed.
Line(file, i) == Text(Code(file), file[i].line, file[i].line)

\* Where a line of the file begins with the name.
Begun(file, name) == {i \in DOMAIN file : file[i].word = name /\ Begins(file, i)}

ASSUME SelectionAssumption ==
  /\ Processors \in Nat \ {0}
  /\ Durations \cup {None} \subseteq Words
  /\ Suites \in Seq(Words)
  /\ \A found \in ExampleFiles : /\ found.cpp_examples \in Seq(Entry)
                                 /\ found.python_examples \in Seq(Entry)
  /\ \A file \in Locks : IsFile(file)
  /\ \A c \in Cases :
       /\ c.args \in Args
       /\ \A name \in ConfigItems : \A i \in Begun(c.lock, name) :
            LET flag == Eval(Line(c.lock, i)) IN flag.raised \/ flag.value \in BOOLEAN

VARIABLES
  pc,            \* where run_tests is
  args,          \* the options
  lock,          \* the lock file of ns3
  config,        \* ENABLE_TESTS, ENABLE_EXAMPLES and ENABLE_PYTHON_BINDINGS
  programs,      \* ns3_runnable_programs_dictionary
  scripts,       \* ns3_runnable_scripts
  example_tests, \* the C++ examples that may run
  python_tests,  \* the Python examples that may run
  suite_list,    \* the suites to run
  single_suite,  \* whether exactly one suite was requested
  workers,       \* how many worker threads were started
  queue,         \* input_queue, without its break jobs
  breaks,        \* how many break jobs follow
  crashed,       \* history: whether a listing of the test runner was cut short
  exit           \* the exit code, "none" while the process runs

vars == <<pc, args, lock, config, programs, scripts, example_tests, python_tests, suite_list,
          single_suite, workers, queue, breaks, crashed, exit>>

Init ==
  /\ \E c \in Cases : args = c.args /\ lock = c.lock
  /\ pc = "config"
  /\ config = [tests |-> TRUE, examples |-> TRUE, python |-> FALSE]
  /\ programs = {} /\ scripts = {} /\ example_tests = <<>> /\ python_tests = <<>>
  /\ suite_list = <<>> /\ single_suite = FALSE
  /\ workers = 0 /\ queue = <<>> /\ breaks = 0
  /\ crashed = FALSE
  /\ exit = "none"

Exit(code) == pc' = "done" /\ exit' = code
Continue(at) == pc' = at /\ UNCHANGED exit

selection == <<suite_list, single_suite, workers, queue, breaks>>
examples == <<programs, scripts, example_tests, python_tests>>

----------------------------------------------------------------------------
(* Configuration and build.                                                *)

\* The last line that begins with the name is executed last.
Flag(name, default) ==
  LET begun == Begun(lock, name)
  IN IF begun = {} THEN default ELSE Eval(Line(lock, Max(begun))).value

\* A directory is not assigned, or a line cannot be executed.
TornConfig ==
  \/ \E name \in {"top_dir", "out_dir"} :
       \/ Begun(lock, name) = {}
       \/ \E i \in Begun(lock, name) : Len(Line(lock, i)) < 3
  \/ \E name \in ConfigItems : \E i \in Begun(lock, name) : Eval(Line(lock, i)).raised

read_ns3_config ==
  /\ pc = "config"
  /\ \/ lock = Missing /\ Exit("2") /\ UNCHANGED config
     \/ lock # Missing /\ TornConfig /\ Exit("1") /\ UNCHANGED config
     \/ /\ lock # Missing /\ ~TornConfig
        /\ config' = [tests |-> Flag("ENABLE_TESTS", TRUE),
                      examples |-> Flag("ENABLE_EXAMPLES", TRUE),
                      python |-> Flag("ENABLE_PYTHON_BINDINGS", FALSE)]
        /\ Continue("build")
  /\ UNCHANGED <<args, lock, examples, selection, crashed>>

\* ./ns3 may fail, and may configure again, which writes another lock file.
Build ==
  /\ pc = "build"
  /\ \/ args.no_build /\ Continue("parse") /\ UNCHANGED lock
     \/ ~args.no_build /\ Exit("1") /\ UNCHANGED lock
     \/ ~args.no_build /\ Continue("parse") /\ lock' \in Reconfigured \cup {lock}
  /\ UNCHANGED <<args, config, examples, selection, crashed>>

----------------------------------------------------------------------------
(* The examples' files.                                                    *)

Upper(fullness) == IF fullness = "quick" THEN "QUICK" ELSE fullness

WrongCpp(e) == e.fields \notin {3, 4} \/ (e.fields = 4 /\ Upper(e.fullness) \notin Durations)
WrongPython(e) == e.fields \notin {2, 3}

\* Only C++ examples have their fullness put in capitals and looked at.
CppExample(e) == [e EXCEPT !.fullness = IF e.fields = 3 THEN "QUICK" ELSE Upper(e.fullness)]
PythonExample(e) == [e EXCEPT !.fullness = IF e.fields = 2 THEN "QUICK" ELSE e.fullness]

\* What parse_examples_to_run_file adds to the two lists, over all files.
CppExamples(found) ==
  LET built == Where(found.cpp_examples, {e \in Entry : e.name \in Built})
  IN [i \in DOMAIN built |-> CppExample(built[i])]
PythonExamples(found) ==
  LET present == Where(found.python_examples, {e \in Entry : e.name \in Present})
  IN [i \in DOMAIN present |-> PythonExample(present[i])]

\* An entry has too few or too many fields, or a fullness there is not.
WrongEntry(found) ==
  \/ \E e \in Range(found.cpp_examples) : WrongCpp(e)
  \/ \E e \in Range(found.python_examples) : WrongPython(e)

\* The build status is read again: the build may have changed it.
ParseExamples ==
  LET names == get_list_from_file(lock, "ns3_runnable_programs")
      files == get_list_from_file(lock, "ns3_runnable_scripts")
      torn == names.raised \/ files.raised
  IN /\ pc = "parse"
     /\ \E found \in ExampleFiles :
          \/ lock = Missing /\ Exit("2") /\ UNCHANGED examples
          \/ lock # Missing /\ (torn \/ WrongEntry(found)) /\ Exit("1") /\ UNCHANGED examples
          \/ /\ lock # Missing /\ ~torn /\ ~WrongEntry(found)
             /\ programs' = Range(names.value) /\ scripts' = Range(files.value)
             /\ example_tests' = CppExamples(found) /\ python_tests' = PythonExamples(found)
             /\ Continue("show")
     /\ UNCHANGED <<args, lock, config, selection, crashed>>

----------------------------------------------------------------------------
(* The test runner's listings, of which run_tests ignores the return code. *)

core_kinds == {"core", "performance", "system", "unit"}

\* No kind stands for all suites, "core" for those of the core kinds.
IsOfKind(s, kind) ==
  \/ kind = None
  \/ kind = "core" /\ KindOf[s] \in core_kinds
  \/ KindOf[s] = kind

OfKind(kind) == Where(Suites, {s \in Range(Suites) : IsOfKind(s, kind)})

\* A listing that crashes has printed a part of what it should.
Lists(kind, out) ==
  \/ out = OfKind(kind) /\ UNCHANGED crashed
  \/ \E n \in 0 .. Len(OfKind(kind)) - 1 : out = SubSeq(OfKind(kind), 1, n) /\ crashed' = TRUE

\* Some listing of the suites of that type.
Listings(kind) == {SubSeq(OfKind(kind), 1, n) : n \in 0 .. Len(OfKind(kind))}

\* --kinds and --list print and return. --list unpacks the Python examples as
\* pairs, which they are not, and gives up quietly when the listing crashed.
Show ==
  /\ pc = "show"
  /\ \/ args.show = None /\ Continue("suites")
     \/ args.show = "kinds" /\ Exit("0")
     \/ args.show = "list" /\ config.tests /\ Exit("0")
     \/ args.show = "list" /\ config.python /\ python_tests # <<>> /\ Exit("1")
     \/ args.show = "list" /\ ~(config.python /\ python_tests # <<>>) /\ Exit("0")
  /\ UNCHANGED <<args, lock, config, examples, selection, crashed>>

ListSuites ==
  /\ pc = "suites"
  /\ \/ /\ args.suite # None
        /\ \E out \in Listings(None) :
             LET found == Where(out, Matching[args.suite])
             IN /\ Lists(None, out)
                /\ suite_list' = found /\ single_suite' = (Len(found) = 1)
                /\ IF found = <<>> THEN Exit("2") ELSE Continue("drop")
     \/ /\ args.suite = None /\ config.tests /\ args.example = None /\ args.pyexample = None
        /\ \E out \in Listings(args.constrain) :
             Lists(args.constrain, out) /\ suite_list' = out
        /\ Continue("drop") /\ UNCHANGED single_suite
     \/ /\ args.suite = None
        /\ ~config.tests \/ args.example # None \/ args.pyexample # None
        /\ Continue("drop") /\ UNCHANGED <<suite_list, single_suite, crashed>>
  /\ UNCHANGED <<args, lock, config, examples, workers, queue, breaks>>

\* Mutant: performance suites stay whenever suites were requested by name.
DropPerformance_named ==
  /\ pc = "drop"
  /\ \/ (args.suite # None \/ args.constrain = "performance") /\ UNCHANGED <<suite_list, crashed>>
     \/ /\ args.suite = None /\ args.constrain # "performance"
        /\ \E out \in Listings("performance") :
             /\ Lists("performance", out)
             /\ suite_list' = Where(suite_list, Range(suite_list) \ Range(out))
  /\ Continue("workers")
  /\ UNCHANGED <<args, lock, config, examples, single_suite, workers, queue, breaks>>

DropPerformance ==
  /\ pc = "drop"
  /\ \/ /\ single_suite \/ args.constrain = "performance"
        /\ UNCHANGED <<suite_list, crashed>>
     \/ /\ ~single_suite /\ args.constrain # "performance"
        /\ \E out \in Listings("performance") :
             /\ Lists("performance", out)
             /\ suite_list' = Where(suite_list, Range(suite_list) \ Range(out))
  /\ Continue("workers")
  /\ UNCHANGED <<args, lock, config, examples, single_suite, workers, queue, breaks>>

\* Mutant: the limit counts even when it is not given.
processors_limited == IF Processors < args.process_limit THEN Processors ELSE args.process_limit

\* --jobs is used as it is unless it is 0 or above the number of processors.
processors ==
  IF args.process_limit = 0 \/ Processors < args.process_limit
  THEN Processors
  ELSE args.process_limit

\* Mutant: a negative limit is taken as it is.
range_raw(n) == n

\* range(n) of a negative n is empty.
range(n) == IF n < 0 THEN 0 ELSE n

StartWorkers ==
  /\ pc = "workers"
  /\ workers' = range(processors)
  /\ Continue("suite jobs")
  /\ UNCHANGED <<args, lock, config, examples, suite_list, single_suite, queue, breaks, crashed>>

----------------------------------------------------------------------------
(* The jobs. fullness is not part of the code's Job: it is what the entry  *)
(* declares, or what the test runner is told for a suite.                  *)

Job(kind, name, params, fullness, skip) ==
  [kind |-> kind, name |-> name, params |-> params, fullness |-> fullness, skip |-> skip]

\* --fullness has a default, so --only-fullness is never looked at.
QueueSuites ==
  /\ pc = "suite jobs"
  /\ queue' = [i \in DOMAIN suite_list |->
       Job("suite", suite_list[i], None, args.fullness,
           \/ args.valgrind /\ suite_list[i] \in core_valgrind_skip_tests
           \/ <<suite_list[i], None>> \in args.passed)]
  /\ Continue("example jobs")
  /\ UNCHANGED <<args, lock, config, examples, suite_list, single_suite, workers, breaks, crashed>>

\* The run leaves out examples of this fullness.
TooLong(fullness) ==
  \/ args.fullness = "QUICK" /\ fullness # "QUICK"
  \/ args.fullness = "EXTENSIVE" /\ fullness \notin {"QUICK", "EXTENSIVE"}

\* The examples --example asks for. A name with a wildcard matches by substring,
\* any other the whole entry; the arguments given are then dropped, so that an
\* example which is not listed with them runs without.
Requested ==
  LET found == Where(example_tests,
                     {e \in Entry : IF args.wild THEN e.name \in Matching[args.example]
                                    ELSE e.name = args.example /\ e.params = args.params})
      unlisted == [name |-> args.example, params |-> None, run |-> TRUE, grind |-> TRUE,
                   fullness |-> "QUICK", fields |-> 4]
  IN IF found # <<>> THEN found
     ELSE IF ~args.wild /\ args.example \in programs THEN <<unlisted>> ELSE <<>>

\* Mutant: an example that was configured away is queued all the same.
Runnable_listed(e) == e.run

Runnable(e) == e.name \in programs /\ e.run

QueueExamples ==
  LET wanted == IF args.example = None THEN example_tests ELSE Requested
      run == Where(wanted, {e \in Entry : Runnable(e)})
  IN /\ pc = "example jobs"
     /\ IF /\ args.suite = None /\ args.pyexample = None
           /\ args.constrain \in {None, "example"} /\ config.examples
        THEN queue' = queue \o [i \in DOMAIN run |->
               Job("example", run[i].name, run[i].params, run[i].fullness,
                   \/ args.valgrind /\ ~run[i].grind
                   \/ <<run[i].name, run[i].params>> \in args.passed
                   \/ TooLong(run[i].fullness))]
        ELSE UNCHANGED queue
     /\ Continue("python jobs")
     /\ UNCHANGED <<args, lock, config, examples, suite_list, single_suite, workers, breaks, crashed>>

\* Mutant: a suite or an example that was asked for does not keep them out.
NothingNamed_python == args.pyexample = None

\* None of --suite, --example and --pyexample is given.
NothingNamed == args.suite = None /\ args.example = None /\ args.pyexample = None

\* A Python example that is asked for runs irrespective of any condition.
QueuePythonExamples ==
  LET run == Where(python_tests, {e \in Entry : e.name \in scripts /\ e.run})
  IN /\ pc = "python jobs"
     /\ \/ /\ NothingNamed /\ args.constrain \in {None, "pyexample"}
           /\ queue' = queue \o [i \in DOMAIN run |->
                Job("pyexample", run[i].name, run[i].params, run[i].fullness,
                    args.valgrind \/ ~config.python \/ TooLong(run[i].fullness))]
        \/ /\ args.pyexample # None /\ args.pyexample \in scripts \cap Present
           /\ queue' = Append(queue, Job("pyexample", args.pyexample, None, "QUICK", FALSE))
        \/ /\ IF args.pyexample = None THEN ~(NothingNamed /\ args.constrain \in {None, "pyexample"})
              ELSE args.pyexample \notin scripts \cap Present
           /\ UNCHANGED queue
     /\ Continue("break jobs")
     /\ UNCHANGED <<args, lock, config, examples, suite_list, single_suite, workers, breaks, crashed>>

QueueBreaks ==
  /\ pc = "break jobs"
  /\ breaks' = range(processors)
  /\ Continue("collect")
  /\ UNCHANGED <<args, lock, config, examples, suite_list, single_suite, workers, queue, crashed>>

\* The rest of run_tests, which TestRunner is about: all jobs come back, if there
\* is a worker to take them.
Collect ==
  /\ pc = "collect"
  /\ workers > 0 \/ queue = <<>>
  /\ \E code \in {"0", "1"} : Exit(code)
  /\ UNCHANGED <<args, lock, config, examples, selection, crashed>>

Next ==
  \/ read_ns3_config \/ Build \/ ParseExamples \/ Show \/ ListSuites \/ DropPerformance
  \/ StartWorkers \/ QueueSuites \/ QueueExamples \/ QueuePythonExamples \/ QueueBreaks \/ Collect

Spec == Init /\ [][Next]_vars

----------------------------------------------------------------------------
(* Properties.                                                             *)

Kinds == {"suite", "example", "pyexample"}
Jobs == [kind : Kinds, name : Words, params : Words, fullness : Words, skip : BOOLEAN]

TypeOK ==
  /\ pc \in {"config", "build", "parse", "show", "suites", "drop", "workers", "suite jobs",
            "example jobs", "python jobs", "break jobs", "collect", "done"}
  /\ args \in Args
  /\ config \in [tests : BOOLEAN, examples : BOOLEAN, python : BOOLEAN]
  /\ example_tests \in Seq(Entry) /\ python_tests \in Seq(Entry)
  /\ \A e \in Range(example_tests) : e.fullness \in Durations
  /\ suite_list \in Seq(Range(Suites)) /\ single_suite \in BOOLEAN /\ crashed \in BOOLEAN
  /\ queue \in Seq(Jobs)
  /\ workers \in 0 .. Processors /\ breaks \in {0, workers}
  /\ exit \in {"none", "0", "1", "2"} /\ (exit # "none" <=> pc = "done")

Dispatched == pc = "collect"

Queued(kind) == {queue[i].name : i \in {i \in DOMAIN queue : queue[i].kind = kind}}
Performance == {s \in Range(Suites) : KindOf[s] = "performance"}

\* No suite has the name of another, no example the name and the parameters.
ListedOnce ==
  /\ IsInjective(Suites)
  /\ \A list \in {example_tests, python_tests} :
       IsInjective([i \in DOMAIN list |-> <<list[i].name, list[i].params>>])

\* Performance suites run only on request (comment at lines 1559-1563): by their
\* type, or by a name that matches no other suite. A listing that crashed may
\* hide the other matches, or the performance suites themselves.
PerformanceOnRequest ==
  Dispatched /\ Queued("suite") \cap Performance # {} =>
    \/ args.constrain = "performance"
    \/ \E s \in Performance : args.suite # None /\ Matching[args.suite] \cap Range(Suites) = {s}
    \/ crashed

\* The names and the parameters of what is queued, and those of the listed entries
\* whose condition holds and whose program or script there is.
Tests(kind) ==
  {<<queue[i].name, queue[i].params>> : i \in {i \in DOMAIN queue : queue[i].kind = kind}}
Available(list, names) ==
  {<<e.name, e.params>> : e \in {e \in Range(list) : e.run /\ e.name \in names}}

\* No option runs everything, a kind of tests this kind, and core all core kinds
\* (lines 1493-1495, 1715-1717, 1834); performance suites by their kind only (1559).
KindsAsDocumented ==
  {args.suite, args.example, args.pyexample} = {None} =>
    /\ \A s \in Queued("suite") : IsOfKind(s, args.constrain)
    /\ config.tests /\ ~crashed =>
         Queued("suite") = {s \in Range(Suites) :
           IsOfKind(s, args.constrain) /\ (s \in Performance => args.constrain = "performance")}
    /\ config.examples => Tests("example") =
         IF args.constrain \in {None, "example"} THEN Available(example_tests, programs) ELSE {}
    /\ Tests("pyexample") =
         IF args.constrain \in {None, "pyexample"} THEN Available(python_tests, scripts) ELSE {}

\* --suite runs the suites of that name, without examples (lines 1496, 1718): a single
\* one even if it is a performance suite (1561). --example besides it changes nothing
\* (1499).
SuitesAsDocumented ==
  args.suite # None =>
    LET found == Matching[args.suite] \cap Range(Suites)
    IN /\ Tests("example") = {} /\ Queued("suite") \subseteq found
       /\ ~crashed => found \subseteq Queued("suite") \cup Performance
       /\ ~crashed /\ ListedOnce => \A s \in Range(Suites) : found = {s} => Queued("suite") = {s}

\* --example runs no suite and no Python example, and that example (lines 1497, 1719):
\* with a wildcard all that are listed and can run (1721), without parameters one
\* without, listed or not, if no entry for it has a condition that does not hold.
ExamplesAsDocumented ==
  args.suite = None /\ args.example # None =>
    /\ Queued("suite") = {}
    /\ ~args.wild => Queued("example") \subseteq {args.example}
    /\ args.pyexample = None /\ args.constrain \in {None, "example"} /\ config.examples =>
         /\ args.wild => Tests("example") =
              {t \in Available(example_tests, programs) : t[1] \in Matching[args.example]}
         /\ ~args.wild /\ args.params = None =>
              Tests("example") \subseteq {<<args.example, None>>}
         /\ /\ ~args.wild /\ args.params = None /\ args.example \in programs
            /\ \A e \in Range(example_tests) :
                 e.name = args.example /\ e.params = None => e.run
            => Tests("example") = {<<args.example, None>>}

\* --pyexample runs that script, if it is one that can run, besides what --suite or
\* --example select (lines 1498, 1835).
PythonAsDocumented ==
  {args.suite, args.example, args.pyexample} # {None} =>
    /\ Queued("pyexample") = ({args.pyexample} \ {None}) \cap scripts \cap Present
    /\ args.suite = None /\ args.pyexample # None => Queued("suite") \cup Queued("example") = {}

\* What the tables of the comments at lines 1490-1499, 1712-1721 and 1831-1835
\* promise of each combination of options, and what is listed once is queued once.
\* Left out are two rows that the code does not follow: parameters given with --example
\* (1720), and the last row of the second table, which contradicts the first (1722, 1499).
SelectionAsDocumented ==
  Dispatched =>
    /\ ListedOnce => IsInjective(queue)
    /\ KindsAsDocumented /\ SuitesAsDocumented /\ ExamplesAsDocumented /\ PythonAsDocumented

\* An example is queued only if its program or script is in the lock file as the
\* build left it, whatever the lock file said before.
JobsAreRunnable ==
  Dispatched =>
    /\ ReadableList(lock, "ns3_runnable_programs") =>
         Queued("example") \subseteq Range(AssignedList(lock, "ns3_runnable_programs"))
    /\ ReadableList(lock, "ns3_runnable_scripts") =>
         Queued("pyexample") \subseteq Range(AssignedList(lock, "ns3_runnable_scripts")) \cap Present

\* Whatever --jobs says, there are workers for the jobs, and one break job for each
\* worker: nobody waits for ever, unless --jobs is negative.
NobodyWaits ==
  Dispatched =>
    /\ breaks = workers
    /\ queue # <<>> /\ workers = 0 => args.process_limit < 0

\* From each of the lock files, get_list_from_file takes the lists it assigns.
LocksRead ==
  \A file \in Locks : \A name \in {"ns3_runnable_programs", "ns3_runnable_scripts"} :
    ReadableList(file, name) => get_list_from_file(file, name) = Value(AssignedList(file, name))

\* The readers test.py takes from utils.py return what the files say (neither
\* formula has variables: the files they range over are constants).
ReadersAgree == pc = "parse" => FilesRead /\ LocksRead

----------------------------------------------------------------------------
(* The inductive invariant.                                                *)

Unparsed == {"config", "build", "parse"}
Unlisted == Unparsed \cup {"show", "suites"}
Queueing == {"example jobs", "python jobs", "break jobs", "collect"}

\* What was read from the lock file is still what the lock file says.
ParsedInv ==
  /\ \E c \in Cases : args = c.args /\ (pc \in {"config", "build"} => lock = c.lock)
  /\ lock \in Locks
  /\ pc \notin Unparsed \cup {"done"} =>
       LET names == get_list_from_file(lock, "ns3_runnable_programs")
           files == get_list_from_file(lock, "ns3_runnable_scripts")
       IN /\ ~names.raised /\ programs = Range(names.value)
          /\ ~files.raised /\ scripts = Range(files.value)
  /\ \A e \in Range(python_tests) : e.name \in Present

\* The suites --suite or --constrain ask for.
SuitesWanted ==
  IF args.suite # None THEN Matching[args.suite] \cap Range(Suites)
  ELSE IF config.tests /\ args.example = None /\ args.pyexample = None THEN Range(OfKind(args.constrain))
  ELSE {}

\* The suites listed are those, and all of them if no listing was cut short, except
\* for performance suites that others came with.
ListedInv ==
  /\ pc \in Unlisted => suite_list = <<>> /\ ~single_suite /\ ~crashed
  /\ single_suite => args.suite # None /\ Len(suite_list) = 1
  /\ Range(suite_list) \subseteq SuitesWanted
  /\ IsInjective(Suites) => IsInjective(suite_list)
  /\ ~crashed /\ pc \notin Unlisted \cup {"done"} /\ args.suite # None /\ IsInjective(Suites) =>
       \A s \in Range(Suites) : SuitesWanted = {s} => single_suite
  /\ ~crashed /\ pc \notin Unlisted \cup {"done"} =>
       Range(suite_list) = IF pc = "drop" \/ single_suite \/ args.constrain = "performance"
                           THEN SuitesWanted ELSE SuitesWanted \ Performance

\* The options are such that C++ examples are looked at.
ExamplesWanted ==
  /\ args.suite = None /\ args.pyexample = None
  /\ args.constrain \in {None, "example"} /\ config.examples

ExamplesQueued ==
  Tests("example") =
    IF ~ExamplesWanted THEN {}
    ELSE Available(IF args.example = None THEN example_tests ELSE Requested, programs)

\* The options are such that the Python examples are looked at.
PythonWanted == NothingNamed /\ args.constrain \in {None, "pyexample"}

PythonQueued ==
  Tests("pyexample") =
    IF PythonWanted THEN Available(python_tests, scripts)
    ELSE {<<script, None>> : script \in ({args.pyexample} \ {None}) \cap scripts \cap Present}

\* The jobs of one kind after the other, each kind at its place.
QueuedInv ==
  /\ pc \in Unlisted \cup {"drop", "workers", "suite jobs"} => queue = <<>>
  /\ pc \in Queueing => Queued("suite") = Range(suite_list)
  /\ pc = "example jobs" => Tests("example") = {}
  /\ pc \in {"example jobs", "python jobs"} => Tests("pyexample") = {}
  /\ pc \in {"python jobs", "break jobs", "collect"} => ExamplesQueued
  /\ pc \in {"break jobs", "collect"} => PythonQueued
  /\ ListedOnce => IsInjective(queue)

WorkersInv ==
  /\ pc \in Queueing \cup {"suite jobs"} => workers = range(processors)
  /\ pc \notin {"collect", "done"} => breaks = 0
  /\ pc = "collect" => breaks = workers

\* Each step leaves what the later ones rely on: the lists are those of the lock
\* file there is, the suites those that were asked for, the queue what was listed.
SelectionInv == TypeOK /\ ParsedInv /\ ListedInv /\ QueuedInv /\ WorkersInv
=============================================================================
