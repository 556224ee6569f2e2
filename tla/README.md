# Verification of the home network simulation and of its test tools

The repository simulates a home network with ns-3 (`scratch/simulation-domestique.cc`), turns the
captured traffic into a dataset and trains a classifier on it (`pcap_to_dataset.py`,
`train_classifier.py`, `demoPerformance.py`), and carries the ns-3 tools it was built with: the
test runner `test.py` and the scripts and programs of `utils/`. This directory holds TLA+ modules
of the parts that have state and can go wrong, TLC configurations that check them on small
instances, and proofs, checked by TLAPS, of what must hold for every instance.

Contents: [1 Inventory](#1-inventory) · [2 Plan](#2-plan) · [3 Modules and code](#3-modules-and-code) ·
[4 Runs](#4-runs) · [5 Bounds](#5-bounds) · [6 Fairness](#6-fairness) · [7 Proofs](#7-proofs) ·
[8 Where code and comments disagree](#8-where-code-and-comments-disagree) ·
[9 What is not modelled](#9-what-is-not-modelled)

To check a module: `tlc -config MCTestRunner_all.cfg MCTestRunner`. To check the proofs: `tlapm M.tla`
for `M` each of `TestRunnerProofs`, `RerunCycleProofs`, `CreateModuleProofs`,
`HomeSimulationProofs`, `TraceDatasetProofs`, `SubsequenceLemmas`, `CheckStyleProofs` and `SelectionProofs`. `PROJECT.json` lists the runs, the hazards with their lines, the
mutants each property is known to detect, and the source lines of every definition.

## 1 Inventory

### How the parts interact

    simulation-domestique.cc --(traces-*.pcap)--> pcap_to_dataset.py --(CSV)--> train_classifier.py
              |                                    demoPerformance.py
              +--(XML metrics, CSV of flows, CSV summary)

    ns3 --(lock file)--> test.py: readers, selection --(queue)--> test.py: runner
                              ^-- examples-to-run.py, test-runner --print-test-name-list

    test.py --(input_queue, output_queue)--> worker threads --(Popen)--> test-runner, examples
       |                                                         |
       +--(results file <time>results.xml) <--(temporary XML of each suite)
       +--(--rerun-failed reads the latest results file)--+

    create-module.py --(mkdir, open "wt", rmtree)--> src/ and contrib/
    check-style-clang-format.py --(ProcessPoolExecutor)--> file functions --(open "r"/"w")--> sources

The three groups share no state: the first works on files in the working directory, the second on
`testpy-output/`, the third on the source tree. Within a group the parts interact only through the
files and queues drawn above.

### Components

| Component | State | Operations | Hard because of | Correct if |
|---|---|---|---|---|
| **Parallel test runner**, `test.py` `run_tests` 1581–2253, `worker_thread` 1072–1108, `Job` 944–1070 | two queues, the workers, the job in each worker's hand, `thread_exit`, counters, `failed_jobs`, the results file | dispatch, break jobs, get, skip, give back, launch, finish, collect, join, close, SIGINT | interleaving of threads, an interrupt between any two steps, exceptions in a worker or in the main thread, a collector without a timeout | no job is lost, run or counted twice; counters, results file and exit code agree; after the interrupt no worker decides on another launch; the run ends |
| **Successive and concurrent runs**, `test.py` 1175–1210, 1440–1485, 2130–2253 | the results files by time stamp, the temporary directories, what each run selected and skips | begin, load previous results, create, write, close, remove the directory, be killed | a file that is incomplete, partial runs in between, two runs at once | `--rerun-failed` hides no failure, except where a suite's own XML contradicts its return code; a green run is earned, with that exception; complete files are kept |
| **Home network simulation**, `simulation-domestique.cc` | client index, traffic sources, table of installed receivers, FlowMonitor's counters | ten Configure functions, `InstallSinkIfNeeded`, the run, `CalculateMetrics` | shared receivers, ten loops over one index, aggregation by either end of a flow, packets still on their way at the end, one throughput by three formulas, a simulation of no duration | each source has exactly one receiver; every packet is in one row; losses are in range; the three throughputs are in the order their formulas say |
| **Trace to dataset**, `pcap_to_dataset.py` | per-file table of windows, the dataset, the CSV file | open, read, aggregate, write | unreadable files, a kill between truncation and writing or in the middle of it | what is in the CSV is exact, and all of it once it is written to the end |
| **Classifier training**, `train_classifier.py` | the model | refuse, fail, train | a stale, empty or cut CSV; labels of two files that must agree | labels name the applications |
| **Style checker**, `utils/check-style-clang-format.py` | the files, the calls of the pool, the verdicts | find, nine checks in a row, each on all its files in parallel, `--fix` | processes that rewrite files, files that cannot be read or written, exceptions in one of many calls, a file found twice, fixes that meet other fixes | each check changes a file its own way or not at all; guards are respected; the exit code is exact |
| **Test selection**, `test.py` 1238–1432, 1486–1943, 2244–2467 | the options, the flags of the configuration, the lists of programs, suites and examples, the queue | read the configuration, build, parse the examples' files, list the suites, drop the performance suites, start workers, queue suites, examples, Python examples and break jobs; `--list`, `--kinds` | four options that decide in four places, listings whose return code is ignored, flags read before the build and lists after it, negative `--jobs` | what is queued is what the comments' tables promise (but for two rows, see 8), can be run, and finds a worker |
| **Configuration readers**, `test.py` 136–288, 669–768, `utils.py` | lists read from files | parse by line and by substring, evaluate | lists over several lines, brackets in comments, names inside names, torn files | they return what the file assigns |
| **Reports**, `test.py` 343–630 | none | XML to text and HTML | – | layout only |
| **Performance plots**, `demoPerformance.py` | none | group, mean, plot | acknowledgement flows in the groups; a file of another simulation | a bar with an application's name is the mean of its streams only |
| **Module generator**, `utils/create-module.py` | the source tree, and per run the modules it has not made yet | parse names, look, make fifteen directories and files, roll back | a failure or a kill at any of them, a failure of the roll-back, two runs at once | all or nothing; the user's files stay |
| **Introspected documentation**, `utils/print-introspected-doxygen.cc` | tables of paths and types | search the object graph, print | recursion over a cyclic graph | the search ends and finds every path |
| **Benchmarks**, `bench-scheduler.cc`, `bench-packets.cc`, `perf-io.cc` | counters and timers | populate, run, report | the population must stay constant | measured runs hold the asked population |
| **Tests and helpers**, `utils/tests/*`, `python-unit-tests.py` | – | – | – | read as evidence of what the scripts promise |
| **test-runner and small scripts** | – | one call or one pipeline each | – | – |
| **Build and CI files** | – | declarations | – | – |

## 2 Plan

Order: the behaviour with the most actors first, then what others build on.

| Step | Module | Abstract specification or composition | State |
|---|---|---|---|
| 1 | `TestRunner` | implements `TestRun` (one verdict per test, drop only after SIGINT, close last) | modelled, checked, safety and refinement proved |
| 2 | `RerunCycle` | stands above `TestRunner`: a run there is one verdict after the other | modelled, checked, safety proved |
| 3 | `HomeSimulation` | – | modelled, checked on the program's own deployment, all its properties proved for every one |
| 4 | `TraceDataset` | dataset against a reference definition `Expected` | modelled, checked, proved |
| 5 | `CheckStyle` | each check against its one-step effect `Fixed` | modelled, checked, proved |
| 6 | `HomeSimulation`'s CSV of flows and `PerformancePlots` on top of it | the plots read what the modelled simulation wrote | modelled, checked together, proved together |
| 7 | `ConfigFile`, `Selection` | readers against what a Python interpreter would make of the file; the queue `Selection` ends with is a plan of `TestRunner` | modelled, checked, proved |
| 8 | `ModuleStore`, `CreateModule` | `CreateModule` implements `ModuleStore` | modelled, checked, safety and refinement proved |
| 9 | `ConfigFile` without recursion over its lines: a file as tokens that carry the number of their line | the same reference | done; the readers proved for every file |

Theorems worth proving, in this order: the inductive invariant of `TestRunner`, its safety, and that it
implements `TestRun` (done); for `RerunCycle`, that complete files are kept, and which
failures alone a `--rerun-failed` that follows can miss (done); for `CreateModule`, that the user's files are kept whatever the
tree and the command lines, and that it implements `ModuleStore` (done); for `HomeSimulation`, that every source
has its receiver and every packet its row, for every deployment and any traffic (done); for
`TraceDataset`, that what reaches the dataset is exact, for any traces and any kill (done); for `CheckStyle`, that a file nobody
writes is untouched or fixed once, that the guards are respected and that the exit code is exact (done); for `Selection`, that
the queue is what the tables of the comments promise and that no job waits for a worker that is not there (done).
No module that is to be proved about declares a RECURSIVE operator.

## 3 Modules and code

Every definition of a module that stands for code has its lines in `PROJECT.json`; here is how to
read them. Operators whose name ends in `_something` and whose comment begins with "Mutant" are not
part of a specification: each is a plausible bug that some property is known to detect.

### TestRun, TestRunner, MCTestRunner, TestRunnerProofs

`TestRunner` has one action per step of a thread that others can see. A job is its number in the
order of dispatch; break jobs follow the tests.

| Code | Model |
|---|---|
| loop that creates Jobs and puts them, 1634–1935 | `DispatchJob`; `DispatchRaises` if the condition of an example raises in `eval` |
| one break job per worker, 1936–1943 | `DispatchBreak`, `DispatchDone` |
| `worker_thread.run` 1088–1107 | `WorkerGet`, then `WorkerReturn`, `WorkerGiveBack`, `WorkerSkip` or `WorkerLaunch`, the last of which only clears the job for launch: `WorkerStart` (or `WorkerDies`) follows, SIGINT may come between, and `WorkerFinish` puts the job back |
| `sigint_hook` 631–645 | `Sigint` |
| collecting loop 1962–2121 | `CollectBreak`, `CollectSkip`, `CollectRun`, `CollectRaises`: everything the loop does for one job – counters, `failed_jobs`, the entry – is one action, since only the main thread sees it |
| `join`, `</Results>`, 2123–2137 | `CollectDone`, `Join`, `Close` |
| reports, copies, `rmtree`, exit code, 2139–2253 | `ReportRaises` (the file is closed, the run fails), `Return` |

What a test program does is its outcome: a return code and what the suite's XML file holds (`XmlStates`): a
result, a fragment ("torn"), nothing ("empty"), or no file that can be opened ("absent"). The collector copies it as it is (`Record`): a
fragment becomes a piece of the results file that is no entry, an empty file leaves no trace (`WritesNothing`), and a result may
contradict the return code that is counted (`Recorded`). `SuiteOutcomes` and `ExampleCodes` list the outcomes the environment may choose,
`Plans` the job lists the selection may give (`Selection` says which), `Faults` the exceptions that may escape. `queue.Queue`
is a FIFO sequence whose `get` and `put` are atomic. `worker_thread` is a thread that is not a
daemon: the process ends (`Ended`) only when every worker is gone. `Broken` says that an exception
ended a worker with a job in its hand, or the dispatcher.

`TestRun` is what the rest of the world may rely on: every selected test gets one verdict and keeps
it, a test is dropped only after an interrupt, the file is closed when nothing is pending, the exit
code is 0 exactly if all passed or were skipped – or the run aborts. `Abstract` in `TestRunner` maps
the queues and books to it; `ImplementsTestRun` is the refinement.

### RerunCycle, MCRerunCycle, RerunCycleProofs

One or two invocations over the same output directory. A results file is the sequence of pieces
written after `<Results>`; it is `Closed` if `</Results>` is its last piece, and parses if it also holds no fragment (`WellFormed`). `Begin` takes the time
stamp and makes the directory, `Load` is `load_previously_successful_tests` (1175–1210) with its two
early exits, `Create` truncates the file. Jobs are collected in any order: `CollectSkip` and `CollectRun` write a piece, `CollectEmpty` writes nothing,
`CollectRaises` is the exception for a missing XML file. An example's piece says what was counted; a suite's (`Suites`) is its own XML,
whatever was counted: PASS, a failure, or a fragment. Two runs may take the same second (`SameSecond`), and then share the file and the directory;
`Interrupt` drops some of the jobs that are left, `Die` is a kill or an exception anywhere, in the reports too, `Close`
and `Return` end the run. "FAIL" stands for every result other than PASS and SKIP. `last` is the verdict that was counted when a test was last
executed, "MIXED" if that was a failure and the suite's XML said PASS; it, `exempted`, `blank` (suites with an empty XML) and
`shared` (the seconds two runs took) are history variables for the properties.

### HomeSimulation, PerformancePlots, MCHomeSimulation, HomeSimulationProofs

`Configure(t)` is one call of the t-th Configure function, with the sources it installs (`Sources`) and the
receivers `InstallSinkIfNeeded` adds for them (`Receive`); `Turn(t)` is the range of the loop that calls it. Packets are in a bag; `Deliver` and `Lose` may take any of them, so delay and
reordering are free. TCP is kept to what the metrics can tell apart: a segment is acknowledged,
may be a copy, and the acknowledgement is a packet of the return flow. FlowMonitor's counters
(`stats`) follow its definition: sent at the source, received at the destination, lost if dropped
at the IP layer or, by `CheckForLostPackets`, if old enough when the simulation ends. `Measure` is
`CalculateMetrics`, once for the XML (`Row`), once for each flow of the CSV file (`FlowRow`) and once for
the CSV summary (`SummaryRow`). Bytes are counted in two units, one for the headers of a packet and one for its data: a receiver counts the data,
FlowMonitor both, of acknowledgements and bare segments too (`Carried`, `Rx`). So the three throughputs are three quotients <<bytes, seconds>>,
taken before the code scales and rounds them: the receiver's bytes over the simulation in the XML (419), FlowMonitor's bytes of a flow over the
time that flow lasted in the CSV (532–536), and FlowMonitor's bytes of both ways over the simulation in the summary (595). A
divisor of 0 is what makes the first "nan" (nothing arrives then); the other two are then 0 (`NoThroughput`). Of a flow's time only its length is modelled, and
chosen freely (`Lasting`), 0 unless it sent more than one packet.

`PerformancePlots` adds what `demoPerformance.py` computes from that CSV file: the flows with a throughput
above 0, grouped by destination port, the mean loss of a group, and the name of its bar. The script has
no state, so it is operators on `flows`, and its property is checked on every state the simulation ends in.

### TraceDataset, MCTraceDataset, TraceDatasetProofs

`Simulate` writes trace files, some of them unreadable. `Glob` … `Fill` are the steps of
`process_pcap_files`: files in any order, packet by packet, a row per label and window of five
seconds, then the truncation of the CSV and its content, which goes through a buffer: `Flush` writes a piece that ends anywhere
(within the header, or in or after some row), `Fill` the rest when the file is closed. A kill or an exception (`Die`) may come before each, so
the CSV is missing, empty, cut within its header, cut among its rows ("part"), or has all its `rows`. `Train` is `train_model` by the way it ends on each of these: it refuses
a header without rows, raises on an empty file, and may learn from a file that was cut off. A packet is its addresses, ports, protocol and
time; sizes and gaps between packets are not part of a row. The report at the end of a training raises if
the forest predicts a class of which no row was tested, so `Train` may fail there unless every class
surely has one (`Reported`).

### Subsequence, CheckStyle, MCCheckStyle, SubsequenceLemmas, CheckStyleProofs

A line is whether it is an `#include` or a format guard, and its flaws as the nine checks see them;
every line function is what it does to the flaws (or that it leaves `Nothing`, the empty string of a deleted line).
`Subsequence` says what is left of a sequence at some of its positions: the lines that are `Written`, the files a check
concerns, the lines that are `Protected`. `Find` is
`find_files_to_check_style`, including that a file named by two paths is found twice.
`StartCheck`–`EndCheck` is `check_style_files`: a call per file, in order, at most `--jobs` at a time;
results collected in order; an exception cancels what was not handed to a process (`--jobs` + 1 calls
may have been) and leaves after the others are over. A call reads the file at once and writes it in
three steps: truncated by `open("w")`, then one buffer after the other (`Flush`, `BufferLines` lines
each, a piece ending inside a line). clang-format is external: it lays out the lines outside guards,
replaces the file at once, and may fail, which the code does not look at. A file has permissions (`access`): `open` of one that
cannot be read raises in every check but the formatting (`ReadRaises`, which is also the `UnicodeDecodeError` of 643), `open("w")` of one that can only be read
raises with the file as it was (`TruncateRaises`), and clang-format reports either by its return code.

### ConfigFile, Selection, MCSelection, SelectionProofs

`ConfigFile` is `utils.py`: a file is a sequence of tokens, each with the number of its line, which never falls
(`IsFile`). `Code` is the file without its comments. The loop of `get_list_from_file` collects whole lines from the first that
mentions the name (`Mentioned`, by substring: `Inside`) to the first from there on that closes a list (`Closing`); that of
`get_bool_from_file` stops at the first line with the name. So the text `eval` gets is `Text`, the words on
an interval of lines, and `Eval` is what `eval` makes of it, an exception included. The second half of the module is the
reference: what a Python interpreter would make of the same file (`AssignedList`, `AssignedBool`), and for which files
the readers are written (`ReadableList`, `ReadableBool`): the name is no part of another word; where it occurs first it begins a
line and is assigned to; a list holds no other list and ends with its line; a Boolean is all there is on its line. `read_config_file` has no caller in the repository; it is modelled because it is the contract the
other two were written for (the comment at the head of `utils.py` still says that `test.py` uses it).

`Selection` is the part of `run_tests` before the runner of `TestRunner` takes over, one action per section of the code:

| Code | Model |
|---|---|
| `read_ns3_config` 669–697 | `read_ns3_config`: exit 2 without a lock file, an exception for one without its directories or with a line that is no assignment (`TornConfig`), else the three flags |
| `./ns3` 1244–1265 | `Build`: it may fail, and may leave another lock file (`Reconfigured`) |
| 1272–1358 with `parse_examples_to_run_file` 136–288 | `ParseExamples`: lists read from the lock file the build left; wrong entries raise |
| `--kinds`, `--list` 1373–1432 | `Show` |
| `--suite`, `--constrain` 1508–1557 | `ListSuites`; `core` stands for the suites of all `core_kinds`, 110 (`IsOfKind`); a listing that crashes prints a part (`Lists`), its return code is ignored |
| 1564–1579 | `DropPerformance` |
| `--jobs` 1595–1626 | `processors`, `StartWorkers` |
| 1645–1689, 1725–1815, 1837–1934 | `QueueSuites`, `QueueExamples`, `QueuePythonExamples` |
| 1940–1943 | `QueueBreaks`: now the queue is a plan of `TestRunner`; `Collect` stands for the rest of the run |

Names, patterns and parameters are strings that are only compared; which names a pattern matches is the
constant `Matching`, what the `examples-to-run.py` files list, one after the other, a member of `ExampleFiles`, which programs and scripts exist the constants `Built` and `Present`, and the
conditions of the examples are Booleans (that `eval` of one may raise is `DispatchRaises` of `TestRunner`).

### ModuleStore, CreateModule, MCCreateModule, CreateModuleProofs

A path is the sequence of its parts, the tree a function from paths to "dir", "empty" or "whole" (`IsTree`: the
parents of what is there are there). `Collected` is
the loop of `main` over the names: which are skipped, which end the run, where the others go.
The name "." has no parts and ends in an exception, the project "." is `contrib` itself (`Here`).
`make_module` is `Check` (the directory is looked for) and then one `Make` per `mkdir` and per file – before a `mkdir` one `MakeParent` for each
parent that is missing, which stays if a later one fails – in the order
of `functions`: what `make_cmakelists` … `make_doc` make, each file with the names of other files of the
module its template mentions. `Fail` is an exception at any of them: the name is there, a parent is
gone again or is a file (`Blocked`), or one of `Faults`; a failed write leaves the file empty. `Undo`, `RemoveEntry`, `RemoveDirectory` and
`RemoveRaises` are `shutil.rmtree`, entry by entry. `Kill` is an interrupt between `open` and `write`; one between
two steps is a run that takes no further step, which `Spec` allows everywhere.

`ModuleStore` is the promise: whole modules appear one at a time, in the order asked; success is reported
only if all are there; none is ever taken away. The refinement counts a module as there when all its
files and directories are as they were made and name files that are. It excepts modules that two runs work at (`Contended`): nothing locks
the tree, and there the promise does not hold (see 8).

## 4 Runs

Deadlock is checked in `style`, whose finished states stutter explicitly. In the other systems a process
ends, or is killed, without a further step; that the runner stops for no other reason is `Termination`, and
that jobs find a worker is `NobodyWaits`.

| Run | States | Shows |
|---|---|---|
| `runner` | 891 k | three workers, plans of up to three jobs of every kind, suites that leave a whole, torn, empty or no XML file, SIGINT at any moment, and all three faults. `JobConservation`: a dispatched job is in exactly one place. `NoJobStranded`: no worker leaves before every test was taken. `ResultsMatch`: the file has one piece per job that came back and left something to write, in order: its entry, or the fragment of a torn XML file. `ExitCodeSound`: 0 exactly if every selected test came back and passed or was skipped. `ClosedLast`: nothing is in flight when the file is closed. `FailedJobsComplete`: `--verbose-failed` lists every failed job and no passed one. `InterruptBoundsLaunches`: after SIGINT was handled no worker decides on another launch; it may still start the one program it had decided on. `BookInv`: the invariant of the proofs. `Termination`: interrupted or not, and although a missing XML file may throw the main thread out, the run ends, or an exception ended a worker or the dispatcher. `ImplementsTestRun`: every behaviour is one of `TestRun` |
| `runner_noXml`, `runner_hang` | – | counterexamples, see 8 |
| `rerun_one` | 11.6 M | three runs in a row of a suite and a Python example, each partial, interrupted, killed or `--rerun-failed`; the suite's XML may say something else than its return code, be a fragment, empty or missing. `RerunHidesNoFailure`: what is left out passed when it was last executed, or was counted as a failure against its own XML. `GreenIsEarned`: a run that exits with 0 selected only tests that passed, or that it left out itself for such a reason. `GreenLeavesFile`: and leaves a closed file with one piece per test but the suites with an empty XML. (Tests some run skipped because of its options are exempt: the code records them as SKIP and reads that as success.) `SoloInv`: the invariant of the proofs |
| `rerun_mixed` | – | counterexample, see 8: the exception above is a failure that is hidden |
| `rerun_two` | 6.0 M | two overlapping runs, in one second or in two: `CompleteFilesKept`, a complete results file is never written again – except in a second that two runs share |
| `home` | 314 k | the program's own deployment (32 clients, 10 servers, 36 sources), any two packets, a duration of 600 s or 0. `SourcesReachSinks`, `DeployedAsPlanned`, `CountedOnce`, `ReceiversAgreeWithFlows`; `LossInRange`: no loss wraps around, and no throughput is undefined except in the XML of a simulation of no duration; `ThroughputsOrdered`: the lines of the flows add up to the summary, the throughput of the XML is below that of the summary unless nothing arrived, and no flow has less than its part in the summary's; `BarsNameApplications`: a bar with the name of an application is about the streams of that application and nothing else |
| `dataset_exact` | 2.0 M | two simulations, each with up to two files of up to two packets, readable or not; conversions of either, killed anywhere, in the middle of the buffered writing too: `DatasetExact`, the rows that reach the CSV are among those a reference definition gives for the traces present, all of them once it is written to the end, none is taken back before, and a conversion that leaves an older dataset in place has found no row in any readable file |
| `dataset_labels` | – | counterexample, see 8 |
| `style` | 195 k | three files, one perhaps named twice, or one of them and a file that is read-only or cannot be read, one or two processes, check and fix mode, killed anywhere. `TextKept`: a file nobody is writing holds the text it had when the check began, or that text fixed once. `GuardsRespected`: lines between guards survive all nine checks. `VerdictExact`: the exit code of a check is 0 exactly if every check can read and accepts every file; with `--fix`, 0 means the line checks accept what is left |
| `create` | 351 k | two runs of the generator that meet in a module, in a module and a project inside it, or not at all; every call may fail, either run may be killed. `UserFilesKept`: what was in the tree before stays as it was. `AllOrNothing`: a run that came to its end leaves each of its modules whole or absent, the whole ones first (a name asked for twice counts where it is asked for first). `ImplementsModuleStore`. `MakeInv`: the invariant of the proofs |
| `selection` | 19 k | 540 combinations of what may be named, 12 of what may be skipped under 8 configurations, `--jobs` from -1 to 3, builds that fail, reconfigure or leave a torn lock file, lock files torn before. `PerformanceOnRequest`: performance suites run only if asked for. `SelectionAsDocumented`: the queue is what the three tables of comments promise, row by row, neither more nor less: `KindsAsDocumented` (no option, or a kind of tests, `core` among them), `SuitesAsDocumented`, `ExamplesAsDocumented` (with the parameters a job gets), `PythonAsDocumented`. The rows 1720 and 1722 are not part of it, since the code contradicts them. `JobsAreRunnable`: only programs the last build left. `NobodyWaits`: a break job per worker, and a worker unless `--jobs` is negative. `ReadersAgree`: the readers of `utils.py` against the reference, on the lock files, 259 files and all pairs of 31 `.ns3rc` files. `SelectionInv`: the invariant of the proofs |

Each module that is run has one `TypeOK`; in `RerunCycle`, `CreateModule`, `HomeSimulation`, `TraceDataset`, `CheckStyle` and `Selection` it is
the first part of an inductive invariant, which a run checks (`SoloInv`, `MakeInv`, `HomeInv`, `DatasetInv`, `StyleInv`, `SelectionInv`). Each property above has a mutant in `PROJECT.json` – a dropped guard,
a wrong order, an off-by-one in one definition – under which its run fails.

## 5 Bounds

| Bound | Value | Why it is enough |
|---|---|---|
| `Workers` | 3 | more than two jobs' worth of workers, so that some return while others launch and one is dead; the queues are the only thing they share. The theorems hold for every finite set |
| `Plans` | up to 3 jobs | more jobs than workers, each kind once, the empty list; theorems hold for all |
| `MaxClock` | 3 time stamps, 2 in `rerun_two` | a bad run, a run that hides it, a run that believes it; two overlapping runs need two |
| runs in one second | 2 | a third run in it would share the same file with the same effect |
| `Tests`, `Suites`, `PyTests` | 2, 1 and 1 | a test that looks at previous results and whose piece is its own XML, and one with neither |
| `MaxSent` | 2 packets | two packets can meet in a row, in a flow, and as segment and acknowledgement of different sources; the deployment itself is not reduced |
| `Options` | durations 0, 600; with and without FlowMonitor and `--enableCsv` | 600 is the default, longer than the start of the firmware update (300), so late and early sources both send; 0 is what a division fails on. A simulation of 600 s is always asked for the CSV: the option is only looked at when it has ended, and without it there is less to compare |
| `Spans` | 0, 300 | a flow that sends at one moment only, and one that lasts for half of the simulation |
| `MaxLength`, `MaxRuns` | 2, 2 | two packets in one window, in two windows, in one or two files; a second simulation finds the rows of the first in the CSV |
| `BufferLines` | 2 | texts shorter, as long and longer than a buffer |
| `Tree` | 5 files | one named twice, one behind it, one in a skipped directory; one that is read-only, one that cannot be read |
| `Procs`, `CommandLines` of the generator | 2 runs, 7 pairs | every kind of name and project `main` skips, rejects or stumbles over; every way two runs can meet; a name asked for twice, and after one that exists. The fifteen steps of a module are not reduced |
| `Suites` of `Selection`, `ExampleFiles` | 5 suites, 3 sets of files | two performance suites, so that a pattern can match one, both, or one and another; examples with and without parameters, configured away, not built, too long, not for valgrind; each wrong entry |
| `Files`, `RcFiles` | up to 3 and 2 lines | a list on one line, over two, with a comment, closed by a comment, twice |
| `Processors` | 2 | a limit below, at, above, and no limit |

The clock is bounded in the guard of `Begin`, sent packets in the guard of `Send`, simulations in
the guard of `Simulate`; that at most two runs begin in a second is in the guard of `Begin` too; everything else is finite by itself.

## 6 Fairness

Only `runner` and `runner_hang` assume fairness: weak fairness of the main thread and of each
worker. The operating system schedules both; `queue.get` blocks without a timeout and returns when
something is there; a worker's step includes the end of a test program, so the assumption contains
that test programs end – the code has no timeout for them. Nothing obliges anyone to press Control-C
or a fault to happen. A worker killed by an exception does make the run hang, which is what `runner_hang`
shows; `Termination` therefore names this case (`Broken`) and says that there is no other.

The selection, the generator and the other systems are sequential programs that only wait for their own
calls; what could go wrong there is what they do, not that they stop, so their runs check safety and, for the
generator, refinement.

## 7 Proofs

Each module of proofs is about one component. What it assumes are the ASSUMEs of the component's module, which
TLC evaluates in every run; what it shows holds for every value of the constants that satisfies them.

| Module | Theorem | Statement |
|---|---|---|
| `TestRunnerProofs` (1901 obligations) | `IInvInvariant` | `Spec => []IInv` |
| | `TypeCorrect`, `JobsConserved`, `NothingStranded`, `ExitCodeCorrect` | `Spec => []P` for `TypeOK`, `JobConservation`, `NoJobStranded`, `ExitCodeSound` |
| | `InterruptBounded` | `Spec => InterruptBoundsLaunches` |
| | `BookInvInvariant` | `Spec => []BookInv` |
| | `ResultsComplete`, `NothingInFlight`, `FailuresReported` | `Spec => []P` for `ResultsMatch`, `ClosedLast`, `FailedJobsComplete` |
| | `RunImplementsTestRun` | `Spec => ImplementsTestRun` |
| `RerunCycleProofs` (970) | `CycleInvInvariant`, `CycleTypeCorrect`, `CompleteKept` | `Spec => []CycleInv`, `[]TypeOK`, `CompleteFilesKept` |
| | `SoloInvInvariant`, `RerunSound`, `GreenSound`, `GreenReadable` | if runs follow one another (`Solo`): `Spec => []P` for `SoloInv`, `RerunHidesNoFailure`, `GreenIsEarned`, `GreenLeavesFile` |
| `CreateModuleProofs` (2072) | `MakeInvInvariant`, `UserFilesSafe`, `WholeOrAbsent` | `Spec => []P` for `MakeInv`, `UserFilesKept`, `AllOrNothing` |
| | `GeneratorImplementsModuleStore` | `Spec => ImplementsModuleStore` |
| `HomeSimulationProofs` (2877) | `HomeInvariant` | `Spec => []HomeInv` |
| | `SourcesReachSinksAlways`, `CountedOnceAlways`, `ReceiversAgreeAlways`, `LossInRangeAlways`, `ThroughputsOrderedAlways` | `Spec => []P` for the property of that name |
| | `DeployedAlways` | if the plan uses every client: `Spec => []DeployedAsPlanned` |
| | `BarsNameApplicationsAlways` | `Spec => []BarsNameApplications`: the plots of `PerformancePlots` |
| `TraceDatasetProofs` (593) | `DatasetInvariant` | `Spec => []DatasetInv` |
| | `DatasetExactAlways` | `Spec => DatasetExact` |
| `SubsequenceLemmas` (409) | – | the elements of a sequence at some of its positions |
| `CheckStyleProofs` (3280) | `StyleInvariant` | `Spec => []StyleInv` |
| | `TextKeptAlways`, `GuardsRespectedAlways`, `VerdictExactAlways` | `Spec => []P` for the property of that name |
| `SelectionProofs` (2088) | `ListRead`, `BoolRead` | for every file and name: what the readers return is `AssignedList`, `AssignedBool` |
| | `ReadersAgreeAlways` | `Spec => []ReadersAgree` |
| | `SelectionInvariant` | `Spec => []SelectionInv` |
| | `PerformanceOnRequestAlways`, `SelectionAsDocumentedAlways`, `JobsAreRunnableAlways`, `NobodyWaitsAlways` | `Spec => []P` for the property of that name |

### The runner: `TestRunnerProofs`

The four assumptions of `TestRunner`: the workers are a finite set (`WorkersAssumption`; it may be empty – safety
does not need a worker), plans are sequences of jobs (`PlansAssumption`), outcomes are return codes with an XML
state (`OutcomesAssumption`), and faults are among the three modelled (`FaultsAssumption`).

None of the properties is inductive: that a job is in one place says nothing about
where the queue will hand out the next one. The invariant `IInv` adds what is needed. Since jobs are
put in order and taken from the head, the input queue is always the interval from `Taken + 1` to
`next - 1` (`FifoInv`). What was taken is in the hand of exactly one worker (`HandInv`), or came back
and is in the output queue or received, nowhere twice (`OutInv`), and nothing taken is missing
(`CoverInv`): together, one place each. Break jobs come after all tests in the interval, so a worker
that returned proves that every test was taken (`ReturnInv`). For the exit code: `is_break` is set on
a test only when it is back (`BreakInv`), its outcome does not change then (`DoneInv`), the main
thread leaves the loop with as many received jobs as were dispatched (`PhaseInv`), and the counters
are the number of good jobs among them (`TallyInv`) – so passed + skipped equals the total exactly
when every job is good. The module has one lemma per action, or per group of actions that touch the
same variables, and a theorem on cardinalities for the step from "every job once" to
`Cardinality(Places(j)) = 1`. For `InterruptBounded`: once `thread_exit` is set, `WorkerLaunch` is not enabled, and no other step
lets a worker be `Committed` to a job it was not committed to before.

### The runner's books and its refinement: `TestRunnerProofs`, second part

`BookInv` adds the collector's side to `IInv`. Every received job was handled or given back, unless an
exception ended the loop (`EntryInv`), and tests are given back only after SIGINT (`StopInv`); with `ResultsMatch` the
pieces of the file are those of the handled jobs that left something to write (`HasEntry`), in that order. `failed_jobs` holds the received jobs that ran and failed, by return code or by XML, and no
others (`ListInv`): `FailuresReported` follows. As many workers hold a break job or returned on one as break jobs
were taken (`LeaveInv`), and the file is closed when all workers are gone, and stays closed while the reports are made (`EndInv`). These give
`ClosedLast`: a worker that died would still hold a test, but all tests are received; so every worker returned on a break
job, all of those were taken, and the queues are empty. `RunImplementsTestRun` maps each step of the runner to a
step of `TestRun` or to a stutter, one lemma per action or group of actions.

### Successive and overlapping runs: `RerunCycleProofs`

`CycleInv` holds for any number of runs, however they overlap, in one second or in several. Files hold pieces of
tests and the closing line, none is stamped later than the clock, and a live run has a stamp, and a file
once it created it (`FilesInv`). Unless two runs took it, a stamp belongs to one run, whose file does not exist before that run
creates it and has no closing line before it ends it (`OwnerInv`). This gives `CompleteFilesKept`. `SoloInv` adds what is only true when runs follow one another (the hypothesis `Solo`: there is one
process, which starts again and again): the latest file reports as passed only what passed when it was last executed, was counted
against what its own XML said ("MIXED"), or is exempt (`HonestInv`); a live run has collected what it reported (`LiveInv`), and a green run has a piece for
each test it selected but those with an empty XML (`GreenInv`). A green run can hold a "MIXED" test only by leaving it out (`Earned`), since
executing it would have made the run red. The hypothesis is needed: of two overlapping runs the later file may hold an
older verdict of a test than the last one, so that `--rerun-failed` leaves it out although it failed. `rerun_one` has
`Solo`, `rerun_two` does not.

### The module generator: `CreateModuleProofs`

`CreateModuleAssumption` says that paths and names are sequences of names, that the tree before the first run is finite
and holds the parents of what it holds (`IsTree`), and that the paths of the generated files are made of names.
Procs, command lines, trees and faults are otherwise free.

The argument. A step of a run changes nothing outside the directory of the module it is at, and what it adds is in that
directory or on the way to it (`Confined`, lemma `RunTree`). That directory was not there before the first run (`RunInv`: `Check`
looked, and what was there before is still there), and a tree holds every parent of what it holds (each parent is made by a step of its own, behind those above it: `ParentTree`, `DirTree`): so no path of the
user's is inside it, which is `UserFilesKept`. For `AllOrNothing`, the modules that one run alone works at
(`Mine`) are apart from every directory another run is at (`Apart`), and from each other, since all modules of one command
line are at the same depth (`ModulesType`). So only the run's own steps count: modules behind it are whole
(`BehindInv`), modules before it are not there (`AheadInv`), and of the one at hand the first `step` items are right and the last
is not (`AtHandInv`) – the last file is the one that makes a module whole, and `rmtree` that is cut short,
a failure and a kill all leave it missing or empty. The refinement follows: a module becomes whole with its last
file, the ones asked before it are whole or not this run's, and a roll-back takes away nothing that was whole.

The proof showed that `AllOrNothing` had been too strong: with a module named twice, behind one that existed
already, the second occurrence is whole although the one between is not. It now counts the first occurrence,
and the command line `b, old, a, b` is in the run.

### The home and its metrics: `HomeSimulationProofs`

`DeploymentAssumption` says that the numbers of clients are naturals and that there are enough clients for the plan;
the plan, the traffic and the options are otherwise free, where the run has the program's own plan and two packets.
`DeployedAlways` has the hypothesis that the plan uses every client (`Clients(K_TYPES) = N_EQUIPMENTS`): the
NS_ASSERT after the loops of the program says nothing else, and the program's plan meets it, as `home` shows.

The deployment: after n clients the sources are those the plan gives to the first n (`SourcesInv`), and a receiver is in
the table under its own endpoint, alone, with the transport that belongs to its port (`SinkInv`). Both together give
`SourcesReachSinks`: receivers can be shared, since a port stands for one transport whoever sends to it.

The run: what FlowMonitor saw arrive, what it gave up and what is still in the air are at most what was sent, per flow
(`FlowInv`); this is why no difference in the reports is negative, for any sum of flows (`LossInRange`). A receiver counts
the datagrams of the flows to it, and of segments at most those (`ReceivedInv`): each flow has one destination, so a
packet that arrives raises one receiver and one sum.

The metrics: exactly one end of a flow is at the port of a receiver (`FlowShape` – the other end has a local port, and those are
above all ports of receivers), so the rows divide the flows among them, and the sum of the rows is the sum over the flows
(`CountedOnce`, lemma `SumParts`). The reports are functions of the last counters and of how long the flows lasted (`ReportInv`), which gives
`BarsNameApplications`. `ThroughputsOrdered` needs more of `ReceivedInv` than packets: a receiver's bytes and one header for each packet that arrived are at
most the bytes FlowMonitor counted, and nothing arrived if those are 0; and of the sums, that one over the rows of the flows is the sum over the flows. TLC found the second part of `ReportInv` too weak to be inductive: that the CSV files stay empty unless asked
for had to be added.

The library defines a sum by recursion over a set. The first part of the module takes that recursion apart once – the sum over the empty set
is 0, and a member can be split off – and every other fact about sums follows by the smallest subset for which it would fail
(`SmallestSubset`), for one set at a time, instead of an induction theorem.

### The dataset: `TraceDatasetProofs`

`DatasetAssumption` says what a packet is; trace files, their number and their length are free. `ConverterInv` says that
the dictionary holds the counts of the packets read so far of the file at hand (`Tally`), and `final_dataset` the expected rows of the
readable files that are behind; what has reached the CSV while it is written are some of these rows. One packet more is one more in the row of its label and window, if it has one (`TallyStep`); at the end
of a file the dictionary holds exactly its rows (`RowsOfFile`); a file that cannot be opened has none. Since the
dictionary is new for each file and files are behind or pending, nothing is left of the one before, whatever the order.

### The style checker: `SubsequenceLemmas`, `CheckStyleProofs`

`StyleAssumption` says what a tree, a line, a text and a command line are; how many files there are, how long they are, which
checks are enabled, how many processes work and how many lines a writer collects is free. The proof has three layers.

*Texts.* What a check leaves of a text are its lines, each as the check fixes it, at the positions that are not deleted
(`FixedLines`; `Those` and `At` of `Subsequence` count positions off in order, so no recursion is needed). A line that is kept
is off where it was off (`FixedFacts`: guards are never deleted, and the checks that look at protected lines delete none), hence the lines
between guards are the same before and after (`ProtectedFixed`), a second pass of a check changes nothing (`FixedTwice`), a check accepts
exactly the texts it leaves as they are (`AcceptsSame`), and what a check accepts it accepts after the later checks, except for
an indented `#include` that clang-format moves (`AcceptsKept`) – this is where the order of `CHECKS` matters.

*Calls.* `PhaseInv` ties the calls of a check to the files found; `TaskInv` says what each call has read, has to write and has
written; a call that failed in check mode had a file it could not read or decode. The hard case is a short file that two paths name: two processes may truncate and write it at once, and a third may read it
empty. `Writing` says why this is harmless: whoever reads it finds the text before, the text after or nothing, none of which
makes him write anything but the text after. A longer file has one call only if it is named once, and that is what `Safe` asks for.

*Verdicts.* `VerdictInv` relates `success` to what the checks behind accept: in check mode in the original files, with `--fix` in
the files as the check at hand found them. At the end of a check every call is done, so nobody is writing, and the texts are those of
the first layer.

`PhaseInv` had to be strengthened in the course of the proof: no call means that the files are as the check found them,
the calls collected are done, and a run that gives up has a call that failed. The run `style` checks the invariant as it is now.

### The selection: `SelectionProofs`

`SelectionAssumption` says what an option, an entry and a listing are; which there are, what a pattern matches, what the build
leaves and how many processors the machine has is free. A lock file is a file (`IsFile`), and what its `ENABLE_`
lines evaluate to, if it can be evaluated, is a Boolean. Nothing else is asked of it: that a list can be read
is a condition on the file at hand, in the property that needs it (`JobsAreRunnable`).

`SelectionInv` has a part for each thing a later step relies on. `ParsedInv`: the programs and scripts are those of the lock
file there is *now*, after the build. `ListedInv`: the suites listed are those the options ask for (`SuitesWanted`), all of them
unless a listing was cut short, without the performance suites unless one suite or that type was asked for. `QueuedInv`: the queue
holds the suites listed, then the examples, then the Python examples, each kind under its own conditions. `WorkersInv`: as many
workers and break jobs as `processors` says. The listings are filters of one sequence (`Where`), so a filter's elements and
their order are facts of `SubsequenceLemmas` (`WhereFacts`); jobs of one kind behind those of others leave the names of the others
alone, and nothing is queued twice that is listed once (`AddJobs`, `EntryJobs`).

Stating this showed two things the run had not. `PerformanceOnRequest` compared a suite with everything a pattern matches; but a pattern
may match an example as well, which is no suite – the proof needs, and the code looks at, the suites it matches. And that nothing
is queued twice holds only if nothing is listed twice (`ListedOnce`): test.py does not look for duplicates in `examples-to-run.py`.

*The readers.* The text both readers evaluate is what stands on an interval of lines. If a line begins at position `a` and one ends
at `b`, that is `SubSeq(s, a, b)` of the words without comments (`TextFacts`, from the order of the line numbers and
`ThoseBetween`); the first closing bracket the loop finds is the first one behind the name, since a line that begins with the name
has nothing before it (`BeforeLine`); and `eval` of `name = [ ... ]` is what stands between the brackets (`EvalFacts`). This is
all the files can differ in, so `ListRead` and `BoolRead` hold for files of any length. The models of the two loops were
folds over the lines before, which no prover here can reason about; as a set of lines each is one definition.

The proof corrected the statement. For which files the readers are written had been said as: every occurrence of the name is assigned
to, every bracket is closed, no list nested. That is too weak, and TLC finds it at once when it is given such files: after `n = ]` or
after `n = True` on a line before the list, `get_list_from_file` raises although the interpreter does not mind the second, and
if another assignment stands before the name on its line, `eval` gets the right-hand side of that one. The files of the run did not contain any of these. What is needed is that the
*first* occurrence is the assignment meant, at the beginning of its line. Of the 259 files of the run 242 can be
read, 100 of them with a list that is not empty; all 31 `.ns3rc` files can, and each lock file but the torn one.

### What is only model-checked

- `Termination`: liveness under fairness, and ENABLED, are outside the prover.
- What a recursive definition computes for every input: the induction theorems of the library take an operator as
  parameter, which no prover here can instantiate. Where an argument of this kind was indispensable it is made
  with the least element of a set of naturals (`Least` in `CreateModuleProofs`, from the well-foundedness of `<`), for one
  recursive function at a time: so for `Collected`, the loop over the names of a command line, and for the sums of the metrics.

## 8 Where code and comments disagree

Four runs end in a counterexample; the property is what a comment or a help text says.

- `runner_noXml`: a suite that returns 0, 1 or 2 without its XML file makes `open` raise at
  `test.py:2098`, outside any `try`; the comment at 2059–2060 says the runner then writes the entry itself.
- `runner_hang`: an exception in `run_job_synchronously` kills the worker before it puts its job back;
  the main thread waits for it for ever (`test.py:1964`; comment 1945–1946).
- `rerun_mixed`: a suite that fails by its return code although its own XML says PASS is counted as failed, but `--rerun-failed` reads the
  XML and leaves it out (`test.py:1202`), because it "didn't fail in the previous run" (1682).
- `dataset_labels`: 9005 and 9006 are both VoIP, so labels 6 to 10 are named one application too far
  (`train_classifier.py:20`; comment at `pcap_to_dataset.py:19`).

Seen while modelling, and visible in a model but not the subject of a run:

- `check-style-clang-format.py --fix DIR DIR/file.cc` finds the file twice (226–251). If it is longer than
  the writer's buffer, one process can read the first piece the other has written, find its last line
  cut, and write that piece back: the rest of the file is lost. `TextKept` therefore speaks of files named
  once or short (`Safe`); with `Safe(f) == TRUE` TLC finds the loss.
- In the same script, clang-format runs after the checks of includes, so an indented or tabbed
  `#include <ns3/…>` is moved to the first column by it and complained of by the next run:
  `VerdictExact` exempts it (`late`). And a file that is no UTF-8 makes the first line check raise (643), so
  with the default options the check of the encoding, "always checked" (1006–1007), is not reached.
- `--rerun-failed` takes SKIP for success (`test.py:1203`), hence the exemption of skipped tests in
  `RerunHidesNoFailure` and `GreenIsEarned`; Python examples do not look at the previous results.
- Without a labelled packet the old dataset stays in place (`pcap_to_dataset.py:119`), and the classifier
  trains on it.
- Two runs of `test.py` begun within one second share the results file and the temporary directory
  (`test.py:1455`; the comment at 1446–1447 calls the name unique): `CompleteFilesKept` excepts such seconds
  (`shared`).
- A receiver's row in the metrics also counts the acknowledgements it sends (`simulation-domestique.cc:455`;
  the comment at 446 speaks of the destination only). `CountedOnce` and `LossInRange` show that the figures are
  consistent nevertheless. In the plots the acknowledgements stand apart, as "Port … Inconnu".
- With a negative `--jobs` of `test.py` no worker is started and the run waits for ever (1611–1623, exempted in
  `NobodyWaits`); `--duration=0` divides by zero in the XML metrics, not in the summary
  (`simulation-domestique.cc:419` and 593, exempted in `LossInRange`).
- A suite's torn XML file makes the results file unparsable for the reports, if they are asked for (they raise: `ReportRaises`), and for a later
  `--rerun-failed`; after an empty one the counters have one test more than the file.
- `--example="name args"` runs the example without its arguments if they are not those of a listed entry, since
  `args.example_args` is cleared before it is looked at (`test.py:1734`, 1743; the comment at 1720 promises custom parameters, and
  `utils/tests/test-test.py:105` uses them so). With both `--suite` and `--example` the suite is run (`test.py:1725`), as the comment at 1499
  says and against the one at 1722. Stated as invariants of `Selection`, TLC refutes both rows at once; they are the two that `SelectionAsDocumented` leaves out.
- `--only-fullness` has no effect, since `--fullness` has a default and is looked at first (`test.py:1661`; the help at 2318 says that
  only tests marked with the fullness are executed).
- The throughput of a receiver in the summary is that of all bytes of both ways, headers included (`simulation-domestique.cc:595`); the
  comment at 387, as the XML file (419), has the bytes it received. `ThroughputsOrdered` says that the two differ whenever something arrived.
- `--list` of `test.py` raises with Python examples
  (1422). The fullness of a Python example is neither checked nor put in capitals (`PythonExample`).
- Two runs of `create-module.py` that both find a module absent: the one whose `mkdir` fails removes what the
  other has made; and since every `make_` function makes missing parents, the other may recreate the directory,
  go on and report an incomplete module as created. Without `Contended`, TLC finds both. The script's
  exit code is 0 when it failed; a removed module leaves the directories of its project behind. The second part
  of a name such as `a/b` is dropped without a word, and a bare `src` ends in an exception (`NoName`).

Seen, and outside the models: `--enableCsv` without FlowMonitor writes nothing and does not say so; the
capture is enabled on every node, where the comment at 812 speaks of the access point; `demoPerformance.py`
reads a file the simulation writes only with `--csvOutput=metrics_test.csv`; a module whose name begins
with a digit gets C++ that does not compile (`create-module.py` 456–460 says all files do).

## 9 What is not modelled

- `make_paths` of `test.py` (714–768): it sets environment variables for the programs that are started, which
  are external. Reports in text and HTML (306–630): layout of the results file, without state.
- Radio, mobility, addresses, the capture of packets, delays and jitter of the simulation: ns-3's
  behaviour, or data no decision of the program depends on.
- Learning and drawing: scikit-learn's, matplotlib's and seaborn's.
- `print-introspected-doxygen.cc` prints what the type registry of ns-3 holds. The registry is not in the
  repository, and whether the search of it ends and what it finds is decided there.
- `bench-scheduler.cc`, `bench-packets.cc`, `perf-io.cc`: timing programs, whose result is the time ns-3 takes; the
  only invariant (a constant population of events) is one line.
- `python-unit-tests.py`, `utils/tests/*`: tests of ns-3, its bindings and its `ns3` script, none of which is in
  the repository; read as evidence of what the scripts promise.
- `test-runner.cc`, `ccache-miss-rate.py`, the shell and Perl scripts, build and CI files: one call, one pipeline, or
  declarations.
