----------------------------- MODULE RerunCycle -----------------------------
(***************************************************************************)
(* Successive and concurrent executions of test.py over one testpy-output  *)
(* directory: the time-stamped results files, what --rerun-failed reads    *)
(* from the latest of them, and what a run leaves behind when it is killed *)
(* or interrupted. What happens inside a run is TestRunner's subject: here *)
(* a run only collects one job after the other, with the verdict it counts *)
(* and the piece it writes, which for a suite is the suite's own XML.      *)
(***************************************************************************)
EXTENDS Integers, Sequences, FiniteSets

CONSTANTS
  Procs,     \* the invocations of test.py that may be alive at once
  Tests,     \* the suites and examples, by display name
  Suites,    \* the suites among them
  PyTests,   \* the Python examples among them
  MaxClock,  \* bound: how many distinct time stamps there are
  SameSecond \* whether two runs may start within the same second (bound: no more)

ASSUME CycleAssumption ==
  /\ IsFiniteSet(Tests)
  /\ Suites \subseteq Tests
  /\ PyTests \subseteq Tests \ Suites
  /\ MaxClock \in Nat
  /\ SameSecond \in BOOLEAN

Stamps  == 1 .. MaxClock

\* What the file says of a job: a result ("FAIL" stands for every one but PASS and
\* SKIP), or the fragment of an XML file that a suite left unfinished.
Results == {"PASS", "FAIL", "SKIP", "torn"}

\* What a suite's own XML file may hold; a SKIP in it, which is read as PASS is, is
\* not told from PASS.
Written == Results \ {"SKIP"}

EndTag  == [name |-> "Results", result |-> "end"]
NoFile  == <<[name |-> "none", result |-> "end"]>>

VARIABLES
  clock,    \* the current second
  files,    \* per stamp: the entries after <Results>, or NoFile
  dirs,     \* the stamps whose temporary directory exists
  pc,       \* where each invocation is
  stamp,    \* its date_and_time
  rerun,    \* its --rerun-failed option
  selected, \* the tests its other options select
  optSkip,  \* those of them it skips for valgrind, fullness or bindings
  known,    \* previously_run_tests_to_skip
  left,     \* the tests whose job it has not collected yet
  green,    \* whether every job so far was passed or skipped
  exit,     \* the exit code of its last finished run, "none" before
  blank,    \* history: the suites of its run that left an empty XML file
  last,     \* history: the verdict of the last execution of each test
  exempted, \* history: the tests some run skipped because of its options
  shared    \* history: the stamps that more than one run has taken

procVars == <<pc, stamp, rerun, selected, optSkip, known, left, green, exit, blank>>
vars == <<clock, files, dirs, procVars, last, exempted, shared>>

Set(f, p, v) == [f EXCEPT ![p] = v]

\* The file ends with </Results> and has that tag only there.
Closed(f) == f # <<>> /\ \A i \in DOMAIN f : f[i] = EndTag <=> i = Len(f)

\* The file parses: it is closed and holds no fragment.
WellFormed(f) == Closed(f) /\ \A i \in DOMAIN f : f[i].result # "torn"

Existing == {t \in Stamps : files[t] # NoFile}
Latest   == CHOOSE t \in Existing : \A u \in Existing : u <= t

\* There is a previous run and its results file parses.
Readable == Existing # {} /\ WellFormed(files[Latest])

\* Mutant: every test with an entry is taken for a success.
Successes_all(f) == {f[i].name : i \in {i \in DOMAIN f : f[i].result \in Results}}

\* Mutant: the closing line is taken for an entry.
Successes_lines(f) == {f[i].name : i \in {i \in DOMAIN f : f[i].result # "FAIL"}}

\* The names whose <Result> is PASS or SKIP.
Successes(f) == {f[i].name : i \in {i \in DOMAIN f : f[i].result \in {"PASS", "SKIP"}}}

Init ==
  /\ clock = 0
  /\ files = [t \in Stamps |-> NoFile]
  /\ dirs = {}
  /\ pc = [p \in Procs |-> "idle"]
  /\ stamp = [p \in Procs |-> 0]
  /\ rerun = [p \in Procs |-> FALSE]
  /\ selected = [p \in Procs |-> {}]
  /\ optSkip = [p \in Procs |-> {}]
  /\ known = [p \in Procs |-> {}]
  /\ left = [p \in Procs |-> {}]
  /\ green = [p \in Procs |-> TRUE]
  /\ exit = [p \in Procs |-> "none"]
  /\ blank = [p \in Procs |-> {}]
  /\ last = [t \in Tests |-> "none"]
  /\ exempted = {}
  /\ shared = {}

----------------------------------------------------------------------------
\* The name of the results file is the current time, to the second; the
\* temporary directory of that name is created unless it exists.
NewSecond == clock < MaxClock /\ clock' = clock + 1

Begin(p) ==
  /\ pc[p] = "idle"
  /\ NewSecond \/ (SameSecond /\ clock \notin shared \cup {0} /\ UNCHANGED clock)
  /\ stamp' = Set(stamp, p, clock')
  /\ dirs' = dirs \cup {clock'}
  /\ \E r \in BOOLEAN, sel \in SUBSET Tests \ {{}} : \E opt \in SUBSET sel :
       /\ rerun' = Set(rerun, p, r)
       /\ selected' = Set(selected, p, sel) /\ left' = Set(left, p, sel)
       /\ optSkip' = Set(optSkip, p, opt)
  /\ known' = Set(known, p, {}) /\ green' = Set(green, p, TRUE)
  /\ exit' = Set(exit, p, "none") /\ blank' = Set(blank, p, {})
  /\ pc' = Set(pc, p, "named")
  /\ shared' = shared \cup ({clock} \cap {clock'})
  /\ UNCHANGED <<files, last, exempted>>

\* load_previously_successful_tests, and its two ways of giving up. The file of
\* the run itself does not exist yet.
Load(p) ==
  /\ pc[p] = "named"
  /\ \/ /\ ~rerun[p]
        /\ pc' = Set(pc, p, "loaded")
        /\ UNCHANGED <<known, exit>>
     \/ /\ rerun[p] /\ Readable
        /\ known' = Set(known, p, Successes(files[Latest]))
        /\ pc' = Set(pc, p, "loaded")
        /\ UNCHANGED exit
     \/ /\ rerun[p] /\ ~Readable
        /\ pc' = Set(pc, p, "idle")
        /\ exit' = Set(exit, p, "-1")
        /\ UNCHANGED known
  /\ UNCHANGED <<clock, files, dirs, stamp, rerun, selected, optSkip, left, green, blank, last,
                 exempted, shared>>

\* open(xml_results_file, "w"): whatever the file held is lost.
Create(p) ==
  /\ pc[p] = "loaded"
  /\ files' = Set(files, stamp[p], <<>>)
  /\ pc' = Set(pc, p, "running")
  /\ UNCHANGED <<clock, dirs, stamp, rerun, selected, optSkip, known, left, green, exit, blank,
                 last, exempted, shared>>

Write(p, t, r) == files' = [files EXCEPT ![stamp[p]] = Append(@, [name |-> t, result |-> r])]

\* Python examples do not look at the previous results.
Skips(p, t) == t \in optSkip[p] \/ (rerun[p] /\ t \in known[p] \ PyTests)

CollectSkip(p, t) ==
  /\ pc[p] = "running" /\ t \in left[p] /\ Skips(p, t)
  /\ Write(p, t, "SKIP")
  /\ left' = Set(left, p, left[p] \ {t})
  /\ exempted' = exempted \cup (optSkip[p] \cap {t})
  /\ UNCHANGED <<clock, dirs, pc, stamp, rerun, selected, optSkip, known, green, exit, blank, last,
                 shared>>

\* The verdict counted, unless it is a failure that what was written contradicts: a
\* suite whose return code is not 0 although its own XML says PASS.
VerdictOf(v, w) == IF v = "FAIL" /\ w = "PASS" THEN "MIXED" ELSE v

\* A test program needs the temporary directory; it is counted as "PASS" or not. An
\* example's piece says what was counted, a suite's is the content of its XML file.
CollectRun(p, t) ==
  /\ pc[p] = "running" /\ t \in left[p] /\ ~Skips(p, t)
  /\ stamp[p] \in dirs
  /\ \E v \in {"PASS", "FAIL"}, w \in Written :
       /\ t \notin Suites => w = v
       /\ Write(p, t, w)
       /\ green' = Set(green, p, green[p] /\ v = "PASS")
       /\ last' = [last EXCEPT ![t] = VerdictOf(v, w)]
  /\ left' = Set(left, p, left[p] \ {t})
  /\ UNCHANGED <<clock, dirs, pc, stamp, rerun, selected, optSkip, known, exit, blank, exempted,
                 shared>>

\* A suite ran whose XML file is empty: it is counted and nothing is written.
CollectEmpty(p, t) ==
  /\ pc[p] = "running" /\ t \in left[p] \cap Suites /\ ~Skips(p, t)
  /\ stamp[p] \in dirs
  /\ \E v \in {"PASS", "FAIL"} :
       /\ green' = Set(green, p, green[p] /\ v = "PASS")
       /\ last' = [last EXCEPT ![t] = v]
  /\ left' = Set(left, p, left[p] \ {t})
  /\ blank' = Set(blank, p, blank[p] \cup {t})
  /\ UNCHANGED <<clock, files, dirs, pc, stamp, rerun, selected, optSkip, known, exit, exempted,
                 shared>>

\* A suite ran and left no XML file: it is counted, and the exception that open
\* raises ends the run.
CollectRaises(p, t) ==
  /\ pc[p] = "running" /\ t \in left[p] \cap Suites /\ ~Skips(p, t)
  /\ stamp[p] \in dirs
  /\ \E v \in {"PASS", "FAIL"} : last' = [last EXCEPT ![t] = v]
  /\ left' = Set(left, p, left[p] \ {t})
  /\ pc' = Set(pc, p, "idle")
  /\ exit' = Set(exit, p, "1")
  /\ UNCHANGED <<clock, files, dirs, stamp, rerun, selected, optSkip, known, green, blank,
                 exempted, shared>>

\* Mutant: jobs dropped by SIGINT do not spoil the exit code.
Interrupt_forgiving(p) ==
  /\ pc[p] = "running"
  /\ \E rest \in SUBSET left[p] \ {left[p]} : left' = Set(left, p, rest)
  /\ UNCHANGED <<clock, files, dirs, pc, stamp, rerun, selected, optSkip, known, green, exit,
                 blank, last, exempted, shared>>

\* SIGINT: some of the jobs come back without a verdict, so passed + skipped
\* stays below the total.
Interrupt(p) ==
  /\ pc[p] = "running"
  /\ \E rest \in SUBSET left[p] \ {left[p]} : left' = Set(left, p, rest)
  /\ green' = Set(green, p, FALSE)
  /\ UNCHANGED <<clock, files, dirs, pc, stamp, rerun, selected, optSkip, known, exit, blank, last,
                 exempted, shared>>

\* The process is killed, or an exception leaves run_tests (in a report, say), at any
\* point.
Die(p) ==
  /\ pc[p] # "idle"
  /\ pc' = Set(pc, p, "idle")
  /\ exit' = Set(exit, p, "1")
  /\ UNCHANGED <<clock, files, dirs, stamp, rerun, selected, optSkip, known, left, green, blank,
                 last, exempted, shared>>

\* Mutant: the file is closed as soon as one job is left.
Close_early(p) ==
  /\ pc[p] = "running"
  /\ \A t, u \in left[p] : t = u
  /\ files' = [files EXCEPT ![stamp[p]] = Append(@, EndTag)]
  /\ pc' = Set(pc, p, "closed")
  /\ UNCHANGED <<clock, dirs, stamp, rerun, selected, optSkip, known, left, green, exit, blank,
                 last, exempted, shared>>

\* Mutant: the end is written to the latest file there is.
Close_latest(p) ==
  /\ pc[p] = "running" /\ left[p] = {}
  /\ files' = [files EXCEPT ![Latest] = Append(@, EndTag)]
  /\ pc' = Set(pc, p, "closed")
  /\ UNCHANGED <<clock, dirs, stamp, rerun, selected, optSkip, known, left, green, exit, blank,
                 last, exempted, shared>>

Close(p) ==
  /\ pc[p] = "running" /\ left[p] = {}
  /\ files' = [files EXCEPT ![stamp[p]] = Append(@, EndTag)]
  /\ pc' = Set(pc, p, "closed")
  /\ UNCHANGED <<clock, dirs, stamp, rerun, selected, optSkip, known, left, green, exit, blank,
                 last, exempted, shared>>

\* rmtree unless --retain; it raises if another run removed the directory.
Return(p) ==
  /\ pc[p] = "closed"
  /\ \E retain \in BOOLEAN :
       /\ dirs' = IF retain THEN dirs ELSE dirs \ {stamp[p]}
       /\ exit' = Set(exit, p, IF green[p] /\ (retain \/ stamp[p] \in dirs) THEN "0" ELSE "1")
  /\ pc' = Set(pc, p, "idle")
  /\ UNCHANGED <<clock, files, stamp, rerun, selected, optSkip, known, left, green, blank, last,
                 exempted, shared>>

Next == \E p \in Procs :
  \/ Begin(p) \/ Load(p) \/ Create(p) \/ Interrupt(p) \/ Die(p) \/ Close(p) \/ Return(p)
  \/ \E t \in Tests :
       CollectSkip(p, t) \/ CollectRun(p, t) \/ CollectEmpty(p, t) \/ CollectRaises(p, t)

Spec == Init /\ [][Next]_vars

----------------------------------------------------------------------------
(* Properties.                                                             *)

TypeOK ==
  /\ clock \in 0 .. MaxClock
  /\ files \in
       [Stamps -> Seq([name : Tests \cup {"Results", "none"}, result : Results \cup {"end"}])]
  /\ dirs \subseteq Stamps
  /\ pc \in [Procs -> {"idle", "named", "loaded", "running", "closed"}]
  /\ stamp \in [Procs -> 0 .. clock]
  /\ rerun \in [Procs -> BOOLEAN] /\ green \in [Procs -> BOOLEAN]
  /\ selected \in [Procs -> SUBSET Tests]
  /\ optSkip \in [Procs -> SUBSET Tests] /\ left \in [Procs -> SUBSET Tests]
  /\ \A p \in Procs : optSkip[p] \subseteq selected[p] /\ left[p] \subseteq selected[p]
  /\ known \in [Procs -> SUBSET Tests]
  /\ exit \in [Procs -> {"none", "-1", "0", "1"}]
  /\ blank \in [Procs -> SUBSET Tests]
  /\ \A p \in Procs : blank[p] \subseteq selected[p] \ left[p]
  /\ last \in [Tests -> {"none", "PASS", "FAIL", "MIXED"}]
  /\ exempted \subseteq Tests /\ shared \subseteq 1 .. clock

\* --rerun-failed leaves out a test only if its last execution, in whatever run that
\* was, passed, or if some run skipped it because of that run's options: killed,
\* interrupted and partial runs in between never hide a failure. The one failure
\* it does hide is that of a suite whose own XML said PASS.
RerunHidesNoFailure ==
  \A p \in Procs : \A t \in known[p] \ exempted :
    last[t] \in {"PASS", "MIXED"} \/ t \in selected[p] \ left[p]

\* A run that exits with 0 selected only tests whose last execution, in this run
\* or an earlier one, passed, or that some run skipped because of its options, or
\* that it left out itself for what their own XML had said.
GreenIsEarned ==
  \A p \in Procs : exit[p] = "0" =>
    \A t \in selected[p] \ exempted :
      last[t] = "PASS" \/ (last[t] = "MIXED" /\ rerun[p] /\ t \in known[p])

\* File f is closed and has one piece for each test of S.
Complete(f, S) ==
  /\ Closed(f)
  /\ Len(f) = Cardinality(S) + 1
  /\ {f[i].name : i \in 1 .. Len(f) - 1} = S

\* A run that exits with 0 leaves a closed file with one piece for each test it
\* selected, except for the suites whose own XML was empty; so the next
\* --rerun-failed can read it, unless a suite left a fragment.
GreenLeavesFile ==
  \A p \in Procs : exit[p] = "0" => Complete(files[stamp[p]], selected[p] \ blank[p])

\* A complete results file is never written again, unless two runs took the same
\* stamp, and then only that stamp's file suffers: the name is unique to the
\* second, not unique as the comment at lines 1446-1447 has it.
CompleteFilesKept ==
  [][\A t \in Stamps \ shared : files[t] # NoFile /\ Closed(files[t]) => files'[t] = files[t]]_vars

----------------------------------------------------------------------------
(* The inductive invariants: CycleInv for any invocations, SoloInv when    *)
(* there is one after the other.                                           *)

Active(p) == pc[p] # "idle"

\* Files hold entries of tests and the closing line, and none has a later stamp than
\* the current second; a live invocation has a stamp of its own, and its file once
\* it has created it.
FilesInv ==
  /\ \A t \in Existing :
       /\ t <= clock
       /\ \A i \in 1 .. Len(files[t]) :
            files[t][i] = EndTag \/ files[t][i] \in [name : Tests, result : Results]
  /\ \A p \in Procs :
       /\ Active(p) => stamp[p] # 0
       /\ pc[p] \in {"running", "closed"} => stamp[p] \in Existing

\* Unless two runs took it, a stamp belongs to one run, whose file does not exist
\* before the run creates it and has no closing line before the run ends it.
OwnerInv ==
  /\ \A p, q \in Procs : p # q /\ stamp[p] = stamp[q] /\ stamp[p] # 0 => stamp[p] \in shared
  /\ \A p \in Procs : stamp[p] \notin shared =>
       /\ pc[p] \in {"named", "loaded"} => stamp[p] \notin Existing
       /\ pc[p] = "running" => \A i \in 1 .. Len(files[stamp[p]]) : files[stamp[p]][i] # EndTag

CycleInv == TypeOK /\ FilesInv /\ OwnerInv

\* Invocations of test.py follow one another.
Solo == \A p, q \in Procs : p = q

\* A test reported as passed or skipped in file f is known to be good, or its own XML
\* said so.
Honest(f) == \A i \in 1 .. Len(f) :
  f[i].result \in {"PASS", "SKIP"} =>
    f[i].name \in exempted \/ last[f[i].name] \in {"PASS", "MIXED"}

\* The latest file is honest, complete or not: the run that is writing it has run
\* no test since it reported it.
HonestInv == \A t \in Existing : (\A u \in Existing : u <= t) => Honest(files[t])

\* A live run is the one of the current second; what it reported it has collected.
LiveInv ==
  \A p \in Procs :
    /\ Active(p) => stamp[p] = clock
    /\ pc[p] = "running" =>
         \A i \in 1 .. Len(files[stamp[p]]) :
           /\ files[stamp[p]][i] # EndTag
           /\ files[stamp[p]][i].name \in selected[p] \ left[p]

\* File f has one piece for each test of S.
Covers(f, S) ==
  /\ Len(f) = Cardinality(S)
  /\ {f[i].name : i \in 1 .. Len(f)} = S

\* Test t does not spoil the exit code of run p.
Earned(p, t) ==
  t \in exempted \/ last[t] = "PASS" \/ (last[t] = "MIXED" /\ rerun[p] /\ t \in known[p])

\* As long as a run is green it has a piece for everything it collected but the empty
\* files, and all of that is good.
GreenInv ==
  \A p \in Procs :
    /\ pc[p] = "closed" => left[p] = {}
    /\ exit[p] = "0" => ~Active(p) /\ left[p] = {}
    /\ (Active(p) /\ green[p]) \/ exit[p] = "0" =>
         \A t \in selected[p] \ left[p] : Earned(p, t)
    /\ pc[p] \in {"named", "loaded"} => left[p] = selected[p]
    /\ pc[p] = "running" /\ green[p] => Covers(files[stamp[p]], (selected[p] \ left[p]) \ blank[p])
    /\ pc[p] = "closed" /\ green[p] => Complete(files[stamp[p]], selected[p] \ blank[p])

VerdictInv == HonestInv /\ LiveInv /\ GreenInv /\ RerunHidesNoFailure /\ GreenLeavesFile

SoloInv == CycleInv /\ VerdictInv

----------------------------------------------------------------------------
(* What test.py says of --rerun-failed, and the code does not do.          *)

\* Line 1682 gives as the reason of the skip that the suite "didn't fail in the
\* previous run". So what is left out did not fail when it was last executed.
RerunRepeatsFailures ==
  \A p \in Procs : \A t \in known[p] \ exempted :
    last[t] = "PASS" \/ t \in selected[p] \ left[p]
=============================================================================
