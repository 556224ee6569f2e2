----------------------------- MODULE TestRunner -----------------------------
(***************************************************************************)
(* The parallel test runner of test.py: run_tests() (the main thread),     *)
(* worker_thread.run() (the workers), the two queue.Queue objects between  *)
(* them, the SIGINT handler, and the results file the main thread writes.  *)
(*                                                                         *)
(* The main thread puts one Job per selected suite or example on the input *)
(* queue, then one "break" Job per worker, takes exactly as many Jobs from *)
(* the output queue as it dispatched, joins the workers, closes the XML    *)
(* results file and computes the exit code.                                *)
(*                                                                         *)
(* A Job object is known by its place in the dispatch order: the jobs of   *)
(* the plan are 1 .. Len(plan), the break jobs the numbers that follow.    *)
(***************************************************************************)
EXTENDS Integers, Sequences, FiniteSets

CONSTANTS
  Workers,       \* the worker threads; the code starts one per processor
  Plans,         \* the job lists the selection code may build
  SuiteOutcomes, \* what running a suite may give: [code, xml] records
  ExampleCodes,  \* the return codes running an example may give
  Faults         \* the exceptions that may escape: a subset of AllFaults

JobType == [kind : {"suite", "example"}, skip : BOOLEAN]

\* What a suite may leave in its temporary XML file: its result, a fragment or
\* nothing (a sanitizer stops the program before or while it writes), or no file
\* that can be read.
XmlStates == {"absent", "empty", "torn", "PASS", "FAIL", "SKIP"}
OutcomeType == [code : Int, xml : XmlStates]
NotRun == [code |-> 0, xml |-> "unset"]

\* "launch": run_job_synchronously raises in a worker (Popen's OSError, the
\* IndexError of PYTHON[0]); "dispatch": an example's condition raises in eval;
\* "report": translating, copying or deleting the files raises after the closing
\* tag (a fragment makes the file unparsable, a copy finds the disk full).
AllFaults == {"launch", "dispatch", "report"}

ASSUME WorkersAssumption == IsFiniteSet(Workers)
ASSUME PlansAssumption == Plans \subseteq Seq(JobType)
ASSUME OutcomesAssumption ==
  /\ SuiteOutcomes \subseteq OutcomeType
  /\ ExampleCodes \subseteq Int
ASSUME FaultsAssumption == Faults \subseteq AllFaults

VARIABLES
  plan,        \* the jobs to dispatch, in order (chosen once, in Init)
  next,        \* the number of the next Job object the main thread creates
  isBreak,     \* Job.is_break, by job number
  outcome,     \* Job.returncode and the state of the suite's XML file
  inq,         \* input_queue
  outq,        \* output_queue
  wpc,         \* where each worker is
  wjob,        \* the job each worker holds, 0 if none
  thread_exit, \* the global that sigint_hook sets
  mpc,         \* where the main thread is
  received,    \* the jobs taken from output_queue so far; its length is i
  count,       \* passed_tests, failed_tests, valgrind_errors, ...
  failed_jobs, \* the list printed by --verbose-failed
  results,     \* the <Test> and <Example> entries of the results file
  closed,      \* whether </Results> has been written
  exitCode     \* what run_tests returns, -1 until then

jobVars    == <<plan, next, isBreak, outcome>>
queueVars  == <<inq, outq>>
workerVars == <<wpc, wjob>>
bookVars   == <<received, count, failed_jobs, results>>
endVars    == <<closed, exitCode>>
vars == <<jobVars, queueVars, workerVars, thread_exit, mpc, bookVars, endVars>>

----------------------------------------------------------------------------
Jobs   == 1 .. Len(plan)
LastId == Len(plan) + Cardinality(Workers)
Ids    == 1 .. LastId

Statuses == {"PASS", "FAIL", "VALGR", "CRASH", "SKIP"}

\* The status printed and counted for a return code.
StatusOf(code) ==
  CASE code = 0 -> "PASS"
    [] code = 1 -> "FAIL"
    [] code = 2 -> "VALGR"
    [] OTHER    -> "CRASH"

Status(j) == IF plan[j].skip THEN "SKIP" ELSE StatusOf(outcome[j].code)

\* The codes after which the collector opens the suite's temporary XML file.
ReadsXml(j) == plan[j].kind = "suite" /\ ~plan[j].skip /\ outcome[j].code \in 0 .. 2

\* What is written of job j: a suite's own XML is copied as it is, except that a
\* valgrind error overwrites its first <Result>; a fragment stays a fragment.
Recorded(j) ==
  IF ReadsXml(j) /\ (Status(j) # "VALGR" \/ outcome[j].xml = "torn")
  THEN outcome[j].xml ELSE Status(j)

\* Copying an empty file writes no entry (after a valgrind error, the bare word VALGR).
WritesNothing(j) == ReadsXml(j) /\ outcome[j].xml = "empty"

\* Mutant: a suite enters failed_jobs on its XML alone, whatever its return code.
FailedAfter_xmlOnly(j) ==
  IF plan[j].kind = "suite" /\ ReadsXml(j) /\ outcome[j].xml \in {"PASS", "SKIP"}
  THEN failed_jobs
  ELSE Append(failed_jobs, j)

\* failed_jobs after job j: appended before the code is looked at and popped
\* when it is 0, then, for a suite, appended again and popped when its XML
\* says PASS or SKIP.
FailedAfter(j) ==
  LET byCode == IF outcome[j].code = 0 THEN failed_jobs ELSE Append(failed_jobs, j)
      xmlOk  == ReadsXml(j) /\ outcome[j].xml \in {"PASS", "SKIP"}
  IN IF plan[j].kind = "example" \/ xmlOk THEN byCode ELSE Append(byCode, j)

----------------------------------------------------------------------------
Init ==
  /\ plan \in Plans
  /\ next = 1
  /\ isBreak = [j \in Ids |-> FALSE]
  /\ outcome = [j \in Jobs |-> NotRun]
  /\ inq = <<>> /\ outq = <<>>
  /\ wpc = [w \in Workers |-> "get"]
  /\ wjob = [w \in Workers |-> 0]
  /\ thread_exit = FALSE
  /\ mpc = "dispatch"
  /\ received = <<>>
  /\ count = [s \in Statuses |-> 0]
  /\ failed_jobs = <<>>
  /\ results = <<>>
  /\ closed = FALSE /\ exitCode = -1

----------------------------------------------------------------------------
(* The main thread: dispatch.                                              *)

DispatchJob ==
  /\ mpc = "dispatch" /\ next \in Jobs
  /\ inq' = Append(inq, next)
  /\ next' = next + 1
  /\ UNCHANGED <<plan, isBreak, outcome, outq, workerVars, thread_exit, mpc, bookVars, endVars>>

\* eval(do_run) raises: the workers are started and no break job was put.
DispatchRaises ==
  /\ "dispatch" \in Faults
  /\ mpc = "dispatch" /\ next \in Jobs /\ plan[next].kind = "example"
  /\ mpc' = "raised" /\ exitCode' = 1
  /\ UNCHANGED <<jobVars, queueVars, workerVars, thread_exit, bookVars, closed>>

\* Mutant: one break job too many (range(processors + 1)).
DispatchBreak_extra ==
  /\ mpc = "dispatch" /\ next \in Len(plan) + 1 .. LastId + 1
  /\ isBreak' = [isBreak EXCEPT ![next] = TRUE]
  /\ inq' = Append(inq, next)
  /\ next' = next + 1
  /\ UNCHANGED <<plan, outcome, outq, workerVars, thread_exit, mpc, bookVars, endVars>>

\* Mutant: break jobs overtake the jobs already queued (a LIFO queue).
DispatchBreak_lifo ==
  /\ mpc = "dispatch" /\ next \in Ids \ Jobs
  /\ isBreak' = [isBreak EXCEPT ![next] = TRUE]
  /\ inq' = <<next>> \o inq
  /\ next' = next + 1
  /\ UNCHANGED <<plan, outcome, outq, workerVars, thread_exit, mpc, bookVars, endVars>>

DispatchBreak ==
  /\ mpc = "dispatch" /\ next \in Ids \ Jobs
  /\ isBreak' = [isBreak EXCEPT ![next] = TRUE]
  /\ inq' = Append(inq, next)
  /\ next' = next + 1
  /\ UNCHANGED <<plan, outcome, outq, workerVars, thread_exit, mpc, bookVars, endVars>>

\* Mutant: a single break job, whatever the number of workers.
DispatchDone_oneBreak ==
  /\ mpc = "dispatch" /\ next > Len(plan) + 1
  /\ mpc' = "collect"
  /\ UNCHANGED <<jobVars, queueVars, workerVars, thread_exit, bookVars, endVars>>

DispatchDone ==
  /\ mpc = "dispatch" /\ next > LastId
  /\ mpc' = "collect"
  /\ UNCHANGED <<jobVars, queueVars, workerVars, thread_exit, bookVars, endVars>>

----------------------------------------------------------------------------
(* The main thread: collect one job from the output queue.                 *)

Receive(j) ==
  /\ mpc = "collect" /\ Len(received) < Len(plan)
  /\ outq # <<>> /\ j = Head(outq)
  /\ outq' = Tail(outq)
  /\ received' = Append(received, j)
  /\ UNCHANGED <<jobVars, inq, workerVars, thread_exit, closed>>

Tally(j)  == count' = [count EXCEPT ![Status(j)] = @ + 1]
Record(j) ==
  results' = IF WritesNothing(j) THEN results
             ELSE Append(results, [name |-> j, result |-> Recorded(j)])

\* A job a worker gave back after SIGINT is neither counted nor recorded.
CollectBreak(j) ==
  /\ Receive(j) /\ isBreak[j]
  /\ UNCHANGED <<mpc, count, failed_jobs, results, exitCode>>

\* Mutant: is_skip is looked at before is_break.
CollectSkip_first(j) ==
  /\ Receive(j) /\ plan[j].skip
  /\ Tally(j) /\ Record(j)
  /\ UNCHANGED <<mpc, failed_jobs, exitCode>>

CollectSkip(j) ==
  /\ Receive(j) /\ ~isBreak[j] /\ plan[j].skip
  /\ Tally(j) /\ Record(j)
  /\ UNCHANGED <<mpc, failed_jobs, exitCode>>

CollectRun(j) ==
  /\ Receive(j) /\ ~isBreak[j] /\ ~plan[j].skip
  /\ ReadsXml(j) => outcome[j].xml # "absent"
  /\ Tally(j) /\ Record(j)
  /\ failed_jobs' = FailedAfter(j)
  /\ UNCHANGED <<mpc, exitCode>>

\* open(job.tmp_file_name) raises FileNotFoundError, after the job was counted
\* and appended twice to failed_jobs; run_tests is left with a traceback.
CollectRaises(j) ==
  /\ Receive(j) /\ ~isBreak[j] /\ ReadsXml(j) /\ outcome[j].xml = "absent"
  /\ Tally(j)
  /\ failed_jobs' = FailedAfter(j)
  /\ mpc' = "raised" /\ exitCode' = 1
  /\ UNCHANGED results

Collect == \E j \in Jobs : CollectBreak(j) \/ CollectSkip(j) \/ CollectRun(j) \/ CollectRaises(j)

\* Mutant: the collector stops as soon as the output queue is empty.
CollectDone_early ==
  /\ mpc = "collect" /\ outq = <<>>
  /\ mpc' = "join"
  /\ UNCHANGED <<jobVars, queueVars, workerVars, thread_exit, bookVars, endVars>>

CollectDone ==
  /\ mpc = "collect" /\ Len(received) = Len(plan)
  /\ mpc' = "join"
  /\ UNCHANGED <<jobVars, queueVars, workerVars, thread_exit, bookVars, endVars>>

----------------------------------------------------------------------------
(* The main thread: join the workers, close the file, return.              *)

Gone(w) == wpc[w] \in {"returned", "died"}

Join ==
  /\ mpc = "join" /\ \A w \in Workers : Gone(w)
  /\ mpc' = "close"
  /\ UNCHANGED <<jobVars, queueVars, workerVars, thread_exit, bookVars, endVars>>

\* </Results> is appended; the summary, the reports and the clean-up follow.
Close ==
  /\ mpc = "close"
  /\ closed' = TRUE
  /\ mpc' = "report"
  /\ UNCHANGED <<jobVars, queueVars, workerVars, thread_exit, bookVars, exitCode>>

\* translate_to_html, copyfile or rmtree raises: the file is closed, the run fails.
ReportRaises ==
  /\ "report" \in Faults
  /\ mpc = "report"
  /\ mpc' = "raised" /\ exitCode' = 1
  /\ UNCHANGED <<jobVars, queueVars, workerVars, thread_exit, bookVars, closed>>

\* Mutant: success means no failure and no crash; jobs given back after SIGINT
\* and valgrind errors are forgotten.
Return_noFailure ==
  /\ mpc = "report"
  /\ exitCode' = IF count["FAIL"] + count["CRASH"] = 0 THEN 0 ELSE 1
  /\ mpc' = "returned"
  /\ UNCHANGED <<jobVars, queueVars, workerVars, thread_exit, bookVars, closed>>

Return ==
  /\ mpc = "report"
  /\ exitCode' = IF count["PASS"] + count["SKIP"] = Len(plan) THEN 0 ELSE 1
  /\ mpc' = "returned"
  /\ UNCHANGED <<jobVars, queueVars, workerVars, thread_exit, bookVars, closed>>

----------------------------------------------------------------------------
(* worker_thread.run: one pass of its loop.                                *)

At(w, pc) == wpc[w] = pc
Goto(w, pc) == wpc' = [wpc EXCEPT ![w] = pc]

\* Mutant: the head is read without being removed (no lock around the queue).
WorkerGet_peek(w) ==
  /\ At(w, "get") /\ inq # <<>>
  /\ wjob' = [wjob EXCEPT ![w] = Head(inq)]
  /\ inq' \in {inq, Tail(inq)}
  /\ Goto(w, "got")
  /\ UNCHANGED <<jobVars, outq, thread_exit, mpc, bookVars, endVars>>

WorkerGet(w) ==
  /\ At(w, "get") /\ inq # <<>>
  /\ wjob' = [wjob EXCEPT ![w] = Head(inq)]
  /\ inq' = Tail(inq)
  /\ Goto(w, "got")
  /\ UNCHANGED <<jobVars, outq, thread_exit, mpc, bookVars, endVars>>

\* output_queue.put(job), then back to the head of the loop.
PutBack(w) ==
  /\ outq' = Append(outq, wjob[w])
  /\ wjob' = [wjob EXCEPT ![w] = 0]
  /\ Goto(w, "get")
  /\ UNCHANGED <<plan, next, inq, thread_exit, mpc, bookVars, endVars>>

WorkerReturn(w) ==
  /\ At(w, "got") /\ isBreak[wjob[w]]
  /\ wjob' = [wjob EXCEPT ![w] = 0]
  /\ Goto(w, "returned")
  /\ UNCHANGED <<jobVars, queueVars, thread_exit, mpc, bookVars, endVars>>

\* Mutant: a worker may give a job back without having seen the interrupt.
WorkerGiveBack_always(w) ==
  /\ At(w, "got") /\ ~isBreak[wjob[w]]
  /\ isBreak' = [isBreak EXCEPT ![wjob[w]] = TRUE]
  /\ PutBack(w)
  /\ UNCHANGED outcome

WorkerGiveBack(w) ==
  /\ At(w, "got") /\ ~isBreak[wjob[w]]
  /\ thread_exit
  /\ isBreak' = [isBreak EXCEPT ![wjob[w]] = TRUE]
  /\ PutBack(w)
  /\ UNCHANGED outcome

WorkerSkip(w) ==
  /\ At(w, "got") /\ ~isBreak[wjob[w]]
  /\ ~thread_exit
  /\ plan[wjob[w]].skip
  /\ PutBack(w)
  /\ UNCHANGED <<isBreak, outcome>>

\* Mutant: thread_exit is not looked at before a launch.
WorkerLaunch_unchecked(w) ==
  /\ At(w, "got") /\ ~isBreak[wjob[w]]
  /\ ~plan[wjob[w]].skip
  /\ Goto(w, "cleared")
  /\ UNCHANGED <<jobVars, queueVars, wjob, thread_exit, mpc, bookVars, endVars>>

\* The worker has seen no interrupt and goes on to the launch; SIGINT may still
\* arrive before it gets there.
WorkerLaunch(w) ==
  /\ At(w, "got") /\ ~isBreak[wjob[w]]
  /\ ~thread_exit
  /\ ~plan[wjob[w]].skip
  /\ Goto(w, "cleared")
  /\ UNCHANGED <<jobVars, queueVars, wjob, thread_exit, mpc, bookVars, endVars>>

\* Popen starts the program.
WorkerStart(w) ==
  /\ At(w, "cleared")
  /\ Goto(w, "running")
  /\ UNCHANGED <<jobVars, queueVars, wjob, thread_exit, mpc, bookVars, endVars>>

\* run_job_synchronously raises instead: the exception ends the thread and its
\* job never reaches the output queue.
WorkerDies(w) ==
  /\ "launch" \in Faults
  /\ At(w, "cleared")
  /\ Goto(w, "died")
  /\ UNCHANGED <<jobVars, queueVars, wjob, thread_exit, mpc, bookVars, endVars>>

Outcomes(j) ==
  IF plan[j].kind = "suite" THEN SuiteOutcomes
                            ELSE {[code |-> c, xml |-> "absent"] : c \in ExampleCodes}

WorkerFinish(w) ==
  /\ At(w, "running")
  /\ \E o \in Outcomes(wjob[w]) : outcome' = [outcome EXCEPT ![wjob[w]] = o]
  /\ PutBack(w)
  /\ UNCHANGED isBreak

----------------------------------------------------------------------------
\* SIGINT may arrive at any time before run_tests returns; only the flag changes.
Sigint ==
  /\ ~thread_exit /\ mpc # "returned"
  /\ thread_exit' = TRUE
  /\ UNCHANGED <<jobVars, queueVars, workerVars, mpc, bookVars, endVars>>

\* The process ends when the main thread is out of run_tests and, the workers
\* not being daemon threads, every worker is gone.
Ended == mpc \in {"returned", "raised"} /\ \A w \in Workers : Gone(w)
Terminated == Ended /\ UNCHANGED vars

Main ==
  \/ DispatchJob \/ DispatchRaises \/ DispatchBreak \/ DispatchDone
  \/ Collect \/ CollectDone \/ Join
  \/ Close \/ ReportRaises \/ Return

Worker(w) ==
  \/ WorkerGet(w) \/ WorkerReturn(w) \/ WorkerGiveBack(w) \/ WorkerSkip(w)
  \/ WorkerLaunch(w) \/ WorkerStart(w) \/ WorkerDies(w) \/ WorkerFinish(w)

Next == Main \/ (\E w \in Workers : Worker(w)) \/ Sigint \/ Terminated

Spec == Init /\ [][Next]_vars

\* The threads are scheduled fairly and every test program ends (the code has
\* no timeout); nothing obliges anyone to press Control-C.
Fairness == WF_vars(Main) /\ \A w \in Workers : WF_vars(Worker(w))
FairSpec == Spec /\ Fairness

----------------------------------------------------------------------------
(* Properties.                                                             *)

\* Every variable keeps its type; in particular the dispatch counter stops
\* right after the last break job and no job number is invented.
TypeOK ==
  /\ plan \in Plans
  /\ next \in 1 .. LastId + 1
  /\ isBreak \in [Ids -> BOOLEAN]
  /\ outcome \in [Jobs -> OutcomeType \cup {NotRun}]
  /\ inq \in Seq(Ids) /\ outq \in Seq(Jobs)
  /\ wpc \in [Workers -> {"get", "got", "cleared", "running", "returned", "died"}]
  /\ wjob \in [Workers -> Ids \cup {0}]
  /\ thread_exit \in BOOLEAN
  /\ mpc \in {"dispatch", "collect", "join", "close", "report", "returned", "raised"}
  /\ received \in Seq(Jobs)
  /\ count \in [Statuses -> Nat]
  /\ failed_jobs \in Seq(Jobs)
  /\ results \in Seq([name : Jobs, result : Statuses \cup XmlStates])
  /\ closed \in BOOLEAN
  /\ exitCode \in {-1, 0, 1}

\* Where job j is: its occurrences in the queues, the workers' hands and the
\* main thread's.
Places(j) ==
  {<<"in", i>> : i \in {i \in DOMAIN inq : inq[i] = j}}
    \cup {<<"worker", w>> : w \in {w \in Workers : wjob[w] = j}}
    \cup {<<"out", i>> : i \in {i \in DOMAIN outq : outq[i] = j}}
    \cup {<<"main", i>> : i \in {i \in DOMAIN received : received[i] = j}}

\* A dispatched job is in exactly one place: however the workers and the main
\* thread interleave, and whichever of them dies, none is lost or run twice.
JobConservation == \A j \in Jobs : j < next => Cardinality(Places(j)) = 1

\* A worker leaves only when every test has been taken from the input queue:
\* the break jobs, put last, never strand a test behind them.
NoJobStranded ==
  (\E w \in Workers : wpc[w] = "returned") =>
    /\ next > Len(plan)
    /\ \A i \in DOMAIN inq : inq[i] \notin Jobs

\* The main thread got through with job j, to which it gave a status of its own.
Handled(j) == ~isBreak[j] /\ ~(ReadsXml(j) /\ outcome[j].xml = "absent")

\* Something was written of it.
HasEntry(j) == Handled(j) /\ ~WritesNothing(j)

\* The received jobs of which something was written, by the place of arrival.
Kept == {i \in DOMAIN received : HasEntry(received[i])}

\* The results file has one piece per job that came back and left something to
\* write, in the order of arrival, whichever worker brought it: the piece of the
\* i-th received job has the rank that i has among those kept. It is an entry with
\* the job's own result, unless the suite's XML file was torn; a job given back
\* after SIGINT or with an empty or missing XML file has none.
ResultsMatch ==
  /\ Len(results) = Cardinality(Kept)
  /\ \A i \in Kept :
       results[Cardinality({k \in Kept : k <= i})]
         = [name |-> received[i], result |-> Recorded(received[i])]

\* The exit code is 0 exactly when every selected test was received and passed
\* or was skipped; in particular a run cut short by SIGINT fails.
ExitCodeSound ==
  mpc = "returned" =>
    (exitCode = 0 <=> \A j \in Jobs : ~isBreak[j] /\ Status(j) \in {"PASS", "SKIP"})

\* </Results> is written when nothing is in flight any more: every worker has
\* taken its break job and both queues are empty.
ClosedLast ==
  closed => /\ \A w \in Workers : wpc[w] = "returned"
            /\ inq = <<>> /\ outq = <<>>

\* --verbose-failed reports every job counted as failed, crashed or in error
\* under valgrind, and no job that passed by its return code and its XML.
FailedJobsComplete ==
  \A i \in DOMAIN received :
    LET j == received[i]
        listed == \E k \in DOMAIN failed_jobs : failed_jobs[k] = j
    IN ~isBreak[j] =>
         /\ Status(j) \in {"FAIL", "CRASH", "VALGR"} => listed
         /\ Status(j) \in {"PASS", "SKIP"} /\ Recorded(j) \in {"PASS", "SKIP"} => ~listed

\* The jobs whose program runs, or that a worker is about to start without looking
\* at thread_exit again.
Committed == {wjob[w] : w \in {w \in Workers : wpc[w] \in {"cleared", "running"}}}

\* Once SIGINT has been handled no worker commits itself to another job: it starts
\* at most the one program it had decided on before, and none after that.
InterruptBoundsLaunches == [][thread_exit => Committed' \subseteq Committed]_vars

\* A worker died of an exception, or the dispatcher raised before it had put all
\* the break jobs: the two ways in which a thread is left waiting for ever.
Broken == (\E w \in Workers : wpc[w] = "died") \/ (mpc = "raised" /\ next <= LastId)

\* Fairly scheduled, with test programs that end, test.py always ends and
\* leaves no worker behind, interrupted or not, even when a missing XML file
\* throws the main thread out of the collecting loop, unless it is broken.
Termination == <>(Ended \/ Broken)

\* The verdict the main thread has reached about job j.
Verdict(j) ==
  IF ~(\E i \in DOMAIN received : received[i] = j) THEN "pending"
  ELSE IF isBreak[j] THEN "dropped"
  ELSE IF Handled(j) THEN Status(j)
  ELSE "pending"

Abstract == INSTANCE TestRun WITH
  verdict  <- [j \in Jobs |-> Verdict(j)],
  stopping <- thread_exit,
  phase    <- CASE mpc = "returned" -> "ended"
                [] mpc = "raised"   -> "aborted"
                [] mpc = "report"   -> "closed"
                [] OTHER            -> "open"

\* The threads and queues implement the promise of TestRun.
ImplementsTestRun == Abstract!Spec

----------------------------------------------------------------------------
(* The inductive invariant behind JobConservation, NoJobStranded and       *)
(* ExitCodeSound.                                                          *)

\* How many Job objects have been taken from the input queue.
Taken == next - 1 - Len(inq)

\* The input queue is first in, first out: it holds Taken + 1, ..., next - 1.
FifoInv ==
  /\ Len(inq) < next
  /\ \A i \in 1 .. Len(inq) : inq[i] = Taken + i

\* A busy worker holds a job it took, a different one from every other worker's,
\* and only tests are launched.
HandInv ==
  /\ \A w \in Workers :
       /\ wjob[w] \in 0 .. Taken
       /\ wjob[w] # 0 <=> wpc[w] \in {"got", "cleared", "running", "died"}
       /\ wpc[w] \in {"cleared", "running", "died"} => wjob[w] \in Jobs
  /\ \A v, w \in Workers : wjob[v] = wjob[w] /\ wjob[v] # 0 => v = w

\* Jobs in the output queue and received jobs were taken; none occurs twice.
OutInv ==
  /\ \A i \in 1 .. Len(outq) :
       /\ outq[i] <= Taken
       /\ \A k \in 1 .. Len(outq) : outq[i] = outq[k] => i = k
       /\ \A k \in 1 .. Len(received) : outq[i] # received[k]
       /\ \A w \in Workers : outq[i] # wjob[w]
  /\ \A i \in 1 .. Len(received) :
       /\ received[i] <= Taken
       /\ \A k \in 1 .. Len(received) : received[i] = received[k] => i = k
       /\ \A w \in Workers : received[i] # wjob[w]

\* Job j is back from the workers.
Back(j) == \/ \E i \in 1 .. Len(outq) : outq[i] = j
           \/ \E i \in 1 .. Len(received) : received[i] = j

\* A test that was taken is held by a worker or is back.
CoverInv == \A j \in Jobs : j <= Taken => Back(j) \/ \E w \in Workers : wjob[w] = j

\* is_break is set on the break jobs, and on tests only once they are back.
BreakInv ==
  /\ \A j \in Ids \ Jobs : j < next => isBreak[j]
  /\ \A j \in Jobs : isBreak[j] => Back(j)

\* A test that is back and was neither given back nor skipped has an outcome.
DoneInv == \A j \in Jobs : Back(j) => isBreak[j] \/ plan[j].skip \/ outcome[j] \in OutcomeType

\* A worker returned only after taking a break job, hence after every test.
ReturnInv == \A w \in Workers : wpc[w] = "returned" => Taken > Len(plan)

\* What the main thread's place says about the loops it has left; the reports may
\* still throw it out of run_tests once the file is closed.
PhaseInv ==
  /\ mpc \in {"collect", "join", "close", "report", "returned"} \/ closed => next = LastId + 1
  /\ mpc \in {"join", "close", "report", "returned"} \/ closed => Len(received) = Len(plan)
  /\ Len(received) <= Len(plan)

\* The received jobs that count as passed or skipped.
GoodJobs == {i \in 1 .. Len(received) :
               ~isBreak[received[i]] /\ Status(received[i]) \in {"PASS", "SKIP"}}

\* The two counters the exit code is computed from are the size of GoodJobs.
TallyInv ==
  /\ count["PASS"] + count["SKIP"] = Cardinality(GoodJobs)
  /\ mpc = "returned" => (exitCode = 0 <=> count["PASS"] + count["SKIP"] = Len(plan))

IInv ==
  /\ TypeOK /\ FifoInv /\ HandInv /\ OutInv /\ CoverInv /\ BreakInv
  /\ DoneInv /\ ReturnInv /\ PhaseInv /\ TallyInv

----------------------------------------------------------------------------
(* The inductive invariant behind ResultsMatch, ClosedLast,                *)
(* FailedJobsComplete and ImplementsTestRun, on top of IInv.               *)

\* The workers that hold a break job or have returned on one.
Leavers == {w \in Workers : wpc[w] = "returned" \/ wjob[w] \in Ids \ Jobs}

\* There are as many of them as break jobs taken: no worker takes two.
LeaveInv == Cardinality(Leavers) = IF Taken > Len(plan) THEN Taken - Len(plan) ELSE 0

\* The file is closed after the workers were joined, and nothing reopens it.
EndInv ==
  /\ mpc \in {"close", "report", "returned"} \/ closed => \A w \in Workers : Gone(w)
  /\ mpc \in {"report", "returned"} => closed
  /\ closed => mpc \in {"report", "returned", "raised"}

\* The run of job j fails by its return code, or by its XML.
Fails(j) ==
  \/ outcome[j].code # 0
  \/ plan[j].kind = "suite" /\ ~(ReadsXml(j) /\ outcome[j].xml \in {"PASS", "SKIP"})

\* failed_jobs holds the received jobs that ran and failed, and no others.
ListInv ==
  \A j \in Jobs :
    (\E k \in 1 .. Len(failed_jobs) : failed_jobs[k] = j) <=>
      /\ \E i \in 1 .. Len(received) : received[i] = j
      /\ ~isBreak[j] /\ ~plan[j].skip /\ Fails(j)

\* Tests are given back only after SIGINT.
StopInv == \A j \in Jobs : isBreak[j] => thread_exit

\* Unless an exception ended the loop, every received job was given back or has
\* its status.
EntryInv ==
  mpc # "raised" \/ closed =>
    \A i \in 1 .. Len(received) : isBreak[received[i]] \/ Handled(received[i])

BookInv == IInv /\ LeaveInv /\ EndInv /\ ListInv /\ StopInv /\ EntryInv /\ ResultsMatch

----------------------------------------------------------------------------
(* What the comments of test.py say, and the code does not do.             *)

\* Comment at lines 2059-2060: if a suite created no XML, the runner writes the
\* entry itself. So a missing file never throws the main thread out.
MissingXmlHandled == mpc # "raised"

\* Comment at lines 1945-1947: once the tests are dispatched, all there is to do
\* is to wait for them to complete. So the run ends.
EveryRunEnds == <>Ended
=============================================================================
