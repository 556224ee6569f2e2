---------------------------- MODULE TestRunnerProofs ---------------------------
(* Proofs about TestRunner, for every set of workers, job list and outcome:   *)
(* first the protocol of the threads, then the books the main thread keeps,   *)
(* and that TestRunner implements TestRun.                                    *)
EXTENDS TestRunner, FiniteSetTheorems, SequenceTheorems, TLAPS

----------------------------------------------------------------------------
(* Facts about the constants and about sequences.                          *)

\* The number of workers, hence the number of break jobs, is a natural number.
LEMMA WorkerCount == Cardinality(Workers) \in Nat
BY WorkersAssumption, FS_CardinalityType

\* An interval that starts at 1 has as many elements as its upper end says.
LEMMA IntervalSize ==
  ASSUME NEW n \in Nat
  PROVE  IsFiniteSet(1 .. n) /\ Cardinality(1 .. n) = n
<1>1. IsFiniteSet(1 .. n) /\ Cardinality(1 .. n) = IF 1 > n THEN 0 ELSE n - 1 + 1
  BY FS_Interval
<1>2. (IF 1 > n THEN 0 ELSE n - 1 + 1) = n
  OBVIOUS
<1> QED
  BY <1>1, <1>2

\* What Append does to a sequence, by index.
LEMMA Appended ==
  ASSUME NEW S, NEW s \in Seq(S), NEW e \in S, NEW t, t = Append(s, e)
  PROVE  /\ t \in Seq(S) /\ Len(t) = Len(s) + 1 /\ Len(s) \in Nat
         /\ \A i \in 1 .. Len(s) : t[i] = s[i]
         /\ t[Len(t)] = e
OBVIOUS

\* What taking the head does to a sequence, by index.
LEMMA Popped ==
  ASSUME NEW S, NEW s \in Seq(S), s # <<>>, NEW t, t = Tail(s)
  PROVE  /\ t \in Seq(S) /\ Len(t) = Len(s) - 1 /\ Len(s) \in Nat /\ Len(s) > 0
         /\ Head(s) = s[1] /\ s[1] \in S
         /\ \A i \in 1 .. Len(t) : t[i] = s[i + 1]
BY HeadTailProperties

\* The vocabulary of a run: how many jobs there are and what they look like.
LEMMA JobFacts ==
  ASSUME TypeOK
  PROVE  /\ Len(plan) \in Nat /\ LastId \in Nat /\ LastId >= Len(plan)
         /\ Jobs \subseteq Ids
         /\ \A j \in Jobs : plan[j] \in JobType
         /\ Len(inq) \in Nat /\ Len(outq) \in Nat /\ Len(received) \in Nat
         /\ next \in Nat /\ Taken \in Int
<1>1. plan \in Seq(JobType)
  BY PlansAssumption DEF TypeOK
<1> QED
  BY <1>1, WorkerCount DEF TypeOK, Jobs, Ids, LastId, Taken

----------------------------------------------------------------------------
(* The initial states.                                                     *)

LEMMA InitIInv == Init => IInv
<1> SUFFICES ASSUME Init PROVE IInv
  OBVIOUS
<1>1. plan \in Seq(JobType) /\ Len(plan) \in Nat /\ LastId \in Nat
  BY PlansAssumption, WorkerCount DEF Init, LastId
<1>2. TypeOK
  <2>1. plan \in Plans /\ next \in 1 .. LastId + 1
    BY <1>1 DEF Init
  <2>2. isBreak \in [Ids -> BOOLEAN] /\ outcome \in [Jobs -> OutcomeType \cup {NotRun}]
    BY DEF Init
  <2>3. wpc \in [Workers -> {"get", "got", "cleared", "running", "returned", "died"}]
        /\ wjob \in [Workers -> Ids \cup {0}]
    BY DEF Init
  <2>4. count \in [Statuses -> Nat]
    BY DEF Init
  <2> QED
    BY <2>1, <2>2, <2>3, <2>4, EmptySeq DEF Init, TypeOK
<1>3. Len(inq) = 0 /\ Len(outq) = 0 /\ Len(received) = 0 /\ Taken = 0
  <2>1. next = 1 /\ inq = <<>> /\ outq = <<>> /\ received = <<>>
    BY DEF Init
  <2>2. Len(inq) = 0 /\ Len(outq) = 0 /\ Len(received) = 0
    BY <2>1
  <2>3. Taken = 1 - 1 - 0
    BY <2>1, <2>2 DEF Taken
  <2> QED
    BY <2>2, <2>3
<1>4. FifoInv /\ HandInv /\ OutInv /\ CoverInv
  BY <1>1, <1>3 DEF Init, FifoInv, HandInv, OutInv, CoverInv, Jobs
<1>5. BreakInv /\ DoneInv
  <2>1. next = 1 /\ \A j \in Ids : isBreak[j] = FALSE
    BY DEF Init
  <2>2. \A j \in Jobs : j \in Ids
    BY <1>1, WorkerCount DEF Jobs, Ids, LastId
  <2>3. \A j : ~Back(j)
    BY <1>3 DEF Back
  <2> QED
    BY <2>1, <2>2, <2>3, <1>1 DEF BreakInv, DoneInv, Ids
<1>6. ReturnInv /\ PhaseInv
  BY <1>1, <1>3 DEF Init, ReturnInv, PhaseInv
<1>7. GoodJobs = {}
  BY <1>3 DEF GoodJobs
<1>8. TallyInv
  <2>1. count["PASS"] = 0 /\ count["SKIP"] = 0 /\ mpc = "dispatch"
    BY DEF Init, Statuses
  <2> QED
    BY <1>7, <2>1, FS_EmptySet DEF TallyInv
<1> QED
  BY <1>2, <1>4, <1>5, <1>6, <1>8 DEF IInv

----------------------------------------------------------------------------
(* The steps that leave the jobs where they are.                           *)

TrackInv == /\ FifoInv /\ HandInv /\ OutInv /\ CoverInv /\ BreakInv /\ DoneInv
            /\ ReturnInv

trackVars == <<plan, next, isBreak, outcome, inq, outq, wpc, wjob, received>>

\* TrackInv only depends on trackVars.
LEMMA TrackFrame ==
  ASSUME IInv, UNCHANGED trackVars
  PROVE  TrackInv'
BY DEF IInv, trackVars, TrackInv, FifoInv, HandInv, OutInv, CoverInv, BreakInv, DoneInv,
       ReturnInv, Taken, Back, Jobs, Ids, LastId

\* GoodJobs only depends on the received jobs and on what is known of them.
LEMMA GoodFrame ==
  ASSUME UNCHANGED <<plan, isBreak, outcome, received>>
  PROVE  GoodJobs' = GoodJobs
BY DEF GoodJobs, Status, StatusOf

\* The main thread's bookkeeping steps and SIGINT keep the invariant.
LEMMA QuietSteps ==
  ASSUME IInv, \/ DispatchRaises \/ DispatchDone \/ CollectDone \/ Join
               \/ Close \/ ReportRaises \/ Return \/ Sigint
  PROVE  IInv'
<1>1. UNCHANGED trackVars /\ UNCHANGED <<count, failed_jobs, results>>
  BY DEF DispatchRaises, DispatchDone, CollectDone, Join, Close, ReportRaises, Return, Sigint,
         trackVars, jobVars, queueVars, workerVars, bookVars
<1>2. TrackInv' /\ GoodJobs' = GoodJobs
  BY <1>1, TrackFrame, GoodFrame DEF trackVars
<1>3. TypeOK'
  BY <1>1 DEF IInv, TypeOK, DispatchRaises, DispatchDone, CollectDone, Join, Close, ReportRaises,
     Return,
     Sigint, trackVars, Jobs, Ids, LastId, endVars
<1>4. PhaseInv'
  <2>1. /\ UNCHANGED <<plan, next, received>> /\ LastId' = LastId /\ PhaseInv
        /\ next \in 1 .. LastId + 1 /\ LastId \in Nat
        /\ Len(received) \in Nat /\ Len(plan) \in Nat
    BY <1>1, JobFacts DEF IInv, TypeOK, trackVars, LastId
  <2>2. CASE DispatchDone
    BY <2>1, <2>2 DEF DispatchDone, PhaseInv, endVars
  <2>3. CASE CollectDone
    BY <2>1, <2>3 DEF CollectDone, PhaseInv, endVars
  <2>4. CASE DispatchRaises \/ Join \/ Sigint
    BY <2>1, <2>4 DEF DispatchRaises, Join, Sigint, PhaseInv, endVars
  <2>5. CASE Close \/ ReportRaises \/ Return
    BY <2>1, <2>5 DEF Close, ReportRaises, Return, PhaseInv
  <2> QED
    BY <2>2, <2>3, <2>4, <2>5
<1>5. TallyInv'
  <2>1. CASE Return
    BY <2>1, <1>1, <1>2 DEF IInv, TallyInv, Return, trackVars
  <2>2. CASE ~Return
    BY <2>2, <1>1, <1>2 DEF IInv, TallyInv, DispatchRaises, DispatchDone, CollectDone, Join, Close,
       ReportRaises, Sigint, endVars
  <2> QED
    BY <2>1, <2>2
<1> QED
  BY <1>2, <1>3, <1>4, <1>5 DEF IInv, TrackInv

----------------------------------------------------------------------------
(* Dispatching a job.                                                      *)

\* Putting a job or a break job on the input queue keeps the invariant.
LEMMA DispatchSteps ==
  ASSUME IInv, DispatchJob \/ DispatchBreak
  PROVE  IInv'
<1> USE DEF IInv
<1>1. /\ mpc = "dispatch" /\ next \in Ids
      /\ next' = next + 1 /\ inq' = Append(inq, next)
      /\ UNCHANGED <<plan, outcome, outq, wpc, wjob, thread_exit, mpc, received, count,
                     failed_jobs, results, closed, exitCode>>
  BY JobFacts DEF DispatchJob, DispatchBreak, workerVars, bookVars, endVars
<1>2. /\ inq' \in Seq(Ids) /\ Len(inq') = Len(inq) + 1
      /\ \A i \in 1 .. Len(inq) : inq'[i] = inq[i]
      /\ inq'[Len(inq')] = next
  BY <1>1, Appended DEF TypeOK
<1>3. Jobs' = Jobs /\ Ids' = Ids /\ LastId' = LastId /\ Taken' = Taken /\ next <= LastId
  BY <1>1, <1>2, JobFacts DEF Jobs, Ids, LastId, Taken
<1>4. /\ isBreak' \in [Ids -> BOOLEAN]
      /\ \A j \in Jobs : isBreak'[j] = isBreak[j]
      /\ \A j \in Ids \ Jobs : j < next' => isBreak'[j]
  <2>1. /\ isBreak \in [Ids -> BOOLEAN] /\ next \in Nat /\ Jobs \subseteq Ids
        /\ \A j \in Ids \ Jobs : j < next => isBreak[j]
    BY JobFacts DEF TypeOK, BreakInv
  <2>2. \A j \in Ids : j < next' => j < next \/ j = next
    BY <2>1, <1>1 DEF Ids
  <2>3. CASE DispatchJob
    BY <2>1, <2>2, <2>3 DEF DispatchJob
  <2>4. CASE DispatchBreak
    BY <2>1, <2>2, <2>4 DEF DispatchBreak
  <2> QED
    BY <2>3, <2>4
<1>5. TypeOK'
  BY <1>1, <1>2, <1>3, <1>4, JobFacts DEF TypeOK, Ids
<1>6. FifoInv'
  <2>1. Len(inq) \in Nat /\ next \in Nat /\ next = Taken + Len(inq) + 1
    BY JobFacts DEF Taken
  <2>2. ASSUME NEW i \in 1 .. Len(inq') PROVE inq'[i] = Taken + i
    <3>1. CASE i \in 1 .. Len(inq)
      BY <3>1, <1>2 DEF FifoInv
    <3>2. CASE i = Len(inq) + 1
      BY <3>2, <2>1, <1>2, JobFacts
    <3> QED
      BY <3>1, <3>2, <2>1, <1>2
  <2> QED
    BY <2>1, <2>2, <1>1, <1>2, <1>3 DEF FifoInv
<1>7. HandInv'
  BY <1>1, <1>3 DEF HandInv
<1>8. OutInv'
  BY <1>1, <1>3 DEF OutInv
<1>9. CoverInv' /\ BreakInv' /\ DoneInv'
  <2>1. CoverInv'
    BY <1>1, <1>3 DEF CoverInv, Back
  <2>2. BreakInv'
    BY <1>1, <1>3, <1>4 DEF BreakInv, Back
  <2>3. DoneInv'
    BY <1>1, <1>3, <1>4 DEF DoneInv, Back
  <2> QED
    BY <2>1, <2>2, <2>3
<1>10. ReturnInv' /\ PhaseInv'
  <2>1. ReturnInv'
    BY <1>1, <1>3 DEF ReturnInv
  <2>2. ~closed
    BY <1>3, JobFacts DEF PhaseInv
  <2> QED
    BY <2>1, <2>2, <1>1, <1>3 DEF PhaseInv
<1>11. GoodJobs' = GoodJobs
  BY <1>1, <1>4, ElementOfSeq DEF GoodJobs, Status, StatusOf, TypeOK
<1>12. TallyInv'
  BY <1>1, <1>11 DEF TallyInv
<1> QED
  BY <1>5, <1>6, <1>7, <1>8, <1>9, <1>10, <1>12

----------------------------------------------------------------------------
(* The steps of a worker.                                                  *)

\* Taking the head of the input queue keeps the invariant.
LEMMA GetStep ==
  ASSUME IInv, NEW w \in Workers, WorkerGet(w)
  PROVE  IInv'
<1> USE DEF IInv
<1>1. /\ wpc[w] = "get" /\ inq # <<>> /\ inq' = Tail(inq)
      /\ wjob' = [wjob EXCEPT ![w] = Head(inq)] /\ wpc' = [wpc EXCEPT ![w] = "got"]
      /\ UNCHANGED <<plan, next, isBreak, outcome, outq, thread_exit, mpc, received, count,
                     failed_jobs, results, closed, exitCode>>
  BY DEF WorkerGet, At, Goto, jobVars, bookVars, endVars
<1>2. /\ inq' \in Seq(Ids) /\ Len(inq') = Len(inq) - 1 /\ Len(inq) \in Nat /\ Len(inq) > 0
      /\ Head(inq) = inq[1] /\ Head(inq) \in Ids
      /\ \A i \in 1 .. Len(inq') : inq'[i] = inq[i + 1]
  BY <1>1, Popped DEF TypeOK
<1>3. /\ Jobs' = Jobs /\ Ids' = Ids /\ LastId' = LastId
      /\ Jobs \subseteq Ids /\ next \in Nat /\ Taken \in Int /\ Len(plan) \in Nat
  BY <1>1, JobFacts DEF Jobs, Ids, LastId
<1>4. Head(inq) = Taken + 1 /\ Taken' = Taken + 1 /\ Taken >= 0
  BY <1>1, <1>2, <1>3 DEF FifoInv, Taken
<1>5. TypeOK'
  BY <1>1, <1>2, <1>3 DEF TypeOK
<1>6. FifoInv'
  BY <1>1, <1>2, <1>3, <1>4 DEF FifoInv
<1>7. \A v \in Workers : wjob[v] \in 0 .. Taken /\ wjob[v] # Taken + 1
  BY <1>3 DEF HandInv
<1>8. HandInv'
  <2>1. \A v \in Workers : /\ wjob'[v] = IF v = w THEN Taken + 1 ELSE wjob[v]
                           /\ wpc'[v] = IF v = w THEN "got" ELSE wpc[v]
    BY <1>1, <1>4 DEF TypeOK
  <2> QED
    BY <2>1, <1>3, <1>4, <1>7 DEF HandInv
<1>9. OutInv'
  <2>1. \A v \in Workers : wjob'[v] = IF v = w THEN Taken + 1 ELSE wjob[v]
    BY <1>1, <1>4 DEF TypeOK
  <2>2. /\ \A i \in 1 .. Len(outq) : outq[i] \in Int
        /\ \A i \in 1 .. Len(received) : received[i] \in Int
    BY <1>3, ElementOfSeq DEF TypeOK, Jobs
  <2> QED
    BY <2>1, <2>2, <1>1, <1>3, <1>4 DEF OutInv
<1>10. CoverInv'
  <2>1. wjob'[w] = Taken + 1 /\ \A v \in Workers : v # w => wjob'[v] = wjob[v]
    BY <1>1, <1>4 DEF TypeOK
  <2>2. ASSUME NEW j \in Jobs, j <= Taken' PROVE Back(j)' \/ \E v \in Workers : wjob'[v] = j
    <3>1. CASE j = Taken + 1
      BY <3>1, <2>1
    <3>2. CASE j <= Taken
      <4>1. wjob[w] = 0 /\ j # 0
        BY <1>1 DEF HandInv, Jobs
      <4> QED
        BY <3>2, <4>1, <2>1, <1>1 DEF CoverInv, Back
    <3> QED
      BY <3>1, <3>2, <1>3, <1>4, <2>2 DEF Jobs
  <2> QED
    BY <2>2, <1>3 DEF CoverInv
<1>11. BreakInv' /\ DoneInv'
  BY <1>1, <1>3 DEF BreakInv, DoneInv, Back
<1>12. ReturnInv'
  BY <1>1, <1>3, <1>4 DEF ReturnInv, TypeOK
<1>13. PhaseInv' /\ GoodJobs' = GoodJobs
  BY <1>1, <1>3, GoodFrame DEF PhaseInv
<1>14. TallyInv'
  BY <1>1, <1>13 DEF TallyInv
<1> QED
  BY <1>5, <1>6, <1>8, <1>9, <1>10, <1>11, <1>12, <1>13, <1>14

\* Returning on a break job keeps the invariant: a held job that has is_break
\* set is not a test.
LEMMA ReturnStep ==
  ASSUME IInv, NEW w \in Workers, WorkerReturn(w)
  PROVE  IInv'
<1> USE DEF IInv
<1>1. /\ wpc[w] = "got" /\ isBreak[wjob[w]]
      /\ wjob' = [wjob EXCEPT ![w] = 0] /\ wpc' = [wpc EXCEPT ![w] = "returned"]
      /\ UNCHANGED <<plan, next, isBreak, outcome, inq, outq, thread_exit, mpc, received, count,
                     failed_jobs, results, closed, exitCode>>
  BY DEF WorkerReturn, At, Goto, jobVars, queueVars, bookVars, endVars
<1>2. /\ Jobs' = Jobs /\ Ids' = Ids /\ LastId' = LastId /\ Taken' = Taken
      /\ Taken \in Int /\ Len(plan) \in Nat
  BY <1>1, JobFacts DEF Jobs, Ids, LastId, Taken
<1>3. \A v \in Workers : /\ wjob'[v] = IF v = w THEN 0 ELSE wjob[v]
                         /\ wpc'[v] = IF v = w THEN "returned" ELSE wpc[v]
  BY <1>1 DEF TypeOK
<1>4. wjob[w] \notin Jobs /\ wjob[w] \in 1 .. Taken
  <2>1. wjob[w] # 0 /\ wjob[w] \in 0 .. Taken
    BY <1>1 DEF HandInv
  <2>2. ~Back(wjob[w])
    BY DEF OutInv, Back
  <2> QED
    BY <2>1, <2>2, <1>1, <1>2 DEF BreakInv
<1>5. TypeOK'
  BY <1>1, <1>2 DEF TypeOK
<1>6. FifoInv' /\ BreakInv' /\ DoneInv' /\ PhaseInv'
  BY <1>1, <1>2 DEF FifoInv, BreakInv, DoneInv, PhaseInv, Back
<1>7. HandInv'
  BY <1>2, <1>3, <1>4 DEF HandInv
<1>8. OutInv'
  <2>1. /\ \A i \in 1 .. Len(outq) : outq[i] # 0
        /\ \A i \in 1 .. Len(received) : received[i] # 0
    BY ElementOfSeq DEF TypeOK, Jobs
  <2> QED
    BY <2>1, <1>1, <1>2, <1>3 DEF OutInv
<1>9. CoverInv'
  BY <1>1, <1>2, <1>3, <1>4 DEF CoverInv, Back
<1>10. ReturnInv'
  BY <1>1, <1>2, <1>3, <1>4 DEF ReturnInv, Jobs
<1>11. GoodJobs' = GoodJobs
  BY <1>1, GoodFrame
<1>12. TallyInv'
  BY <1>1, <1>11 DEF TallyInv
<1> QED
  BY <1>5, <1>6, <1>7, <1>8, <1>9, <1>10, <1>12

\* Deciding on a launch, starting the program and dying instead keep the invariant.
LEMMA RunSteps ==
  ASSUME IInv, NEW w \in Workers, WorkerLaunch(w) \/ WorkerStart(w) \/ WorkerDies(w)
  PROVE  IInv'
<1> USE DEF IInv
<1>1. /\ wpc[w] \in {"got", "cleared"}
      /\ \E pc \in {"cleared", "running", "died"} : wpc' = [wpc EXCEPT ![w] = pc]
      /\ UNCHANGED <<plan, next, isBreak, outcome, inq, outq, wjob, thread_exit, mpc, received,
                     count, failed_jobs, results, closed, exitCode>>
  BY DEF WorkerLaunch, WorkerStart, WorkerDies, At, Goto, jobVars, queueVars, bookVars, endVars
<1>2. /\ Jobs' = Jobs /\ Ids' = Ids /\ LastId' = LastId /\ Taken' = Taken
      /\ Taken \in Int /\ Taken < next
  BY <1>1, JobFacts DEF Jobs, Ids, LastId, Taken
<1>3. \A v \in Workers : v # w => wpc'[v] = wpc[v]
  BY <1>1 DEF TypeOK
<1>4. wpc'[w] \in {"cleared", "running", "died"}
  BY <1>1 DEF TypeOK
<1>5. wjob[w] \in Jobs
  <2>1. CASE WorkerLaunch(w)
    <3>1. ~isBreak[wjob[w]] /\ wjob[w] \in 1 .. Taken
      BY <2>1 DEF WorkerLaunch, At, HandInv
    <3>2. wjob[w] \in Ids /\ wjob[w] < next
      BY <3>1, <1>2 DEF TypeOK
    <3> QED
      BY <3>1, <3>2 DEF BreakInv
  <2>2. CASE WorkerStart(w) \/ WorkerDies(w)
    BY <2>2 DEF WorkerStart, WorkerDies, At, HandInv
  <2> QED
    BY <2>1, <2>2
<1>6. TypeOK'
  BY <1>1, <1>2 DEF TypeOK
<1>7. HandInv'
  BY <1>1, <1>2, <1>3, <1>4, <1>5 DEF HandInv, Jobs
<1>8. FifoInv' /\ BreakInv' /\ DoneInv' /\ PhaseInv'
  BY <1>1, <1>2 DEF FifoInv, BreakInv, DoneInv, PhaseInv, Back
<1>9. OutInv' /\ CoverInv'
  BY <1>1, <1>2 DEF OutInv, CoverInv, Back
<1>10. ReturnInv'
  BY <1>1, <1>2, <1>3, <1>4 DEF ReturnInv
<1>11. GoodJobs' = GoodJobs
  BY <1>1, GoodFrame
<1>12. TallyInv'
  BY <1>1, <1>11 DEF TallyInv
<1> QED
  BY <1>6, <1>7, <1>8, <1>9, <1>10, <1>12

\* Putting the held job on the output queue keeps the invariant, when the step
\* changes only that job's is_break and outcome, and leaves it given back,
\* skipped or with an outcome.
LEMMA PutBackStep ==
  ASSUME IInv, NEW w \in Workers, PutBack(w), wjob[w] \in Jobs, wpc[w] \in {"got", "running"},
         isBreak' \in [Ids -> BOOLEAN], outcome' \in [Jobs -> OutcomeType \cup {NotRun}],
         \A j \in Ids : j # wjob[w] => isBreak'[j] = isBreak[j],
         \A j \in Jobs : j # wjob[w] => outcome'[j] = outcome[j],
         isBreak'[wjob[w]] \/ plan[wjob[w]].skip \/ outcome'[wjob[w]] \in OutcomeType
  PROVE  IInv'
<1> USE DEF IInv
<1> DEFINE h == wjob[w]
<1>1. /\ outq' = Append(outq, h) /\ wjob' = [wjob EXCEPT ![w] = 0]
      /\ wpc' = [wpc EXCEPT ![w] = "get"]
      /\ UNCHANGED <<plan, next, inq, thread_exit, mpc, received, count, failed_jobs, results,
                     closed, exitCode>>
  BY DEF PutBack, Goto, bookVars, endVars
<1>2. /\ outq' \in Seq(Jobs) /\ Len(outq') = Len(outq) + 1 /\ Len(outq) \in Nat
      /\ \A i \in 1 .. Len(outq) : outq'[i] = outq[i]
      /\ outq'[Len(outq')] = h
  BY <1>1, Appended DEF TypeOK
<1>3. /\ Jobs' = Jobs /\ Ids' = Ids /\ LastId' = LastId /\ Taken' = Taken
      /\ Jobs \subseteq Ids /\ Taken \in Int
      /\ \A j \in Jobs : j \in Int /\ j # 0
  BY <1>1, JobFacts DEF Jobs, Ids, LastId, Taken
<1>4. \A v \in Workers : /\ wjob'[v] = IF v = w THEN 0 ELSE wjob[v]
                         /\ wpc'[v] = IF v = w THEN "get" ELSE wpc[v]
  BY <1>1 DEF TypeOK
<1>5. h \in Jobs /\ h <= Taken /\ ~Back(h) /\ \A v \in Workers : v # w => wjob[v] # h
  BY <1>3 DEF HandInv, OutInv, Back
<1>6. \A i \in 1 .. Len(outq') : i \in 1 .. Len(outq) \/ (outq'[i] = h /\ i = Len(outq'))
  <2>1. ASSUME NEW i \in 1 .. Len(outq'), i \notin 1 .. Len(outq) PROVE i = Len(outq')
    BY <2>1, <1>2
  <2> QED
    BY <2>1, <1>2
<1>7. \A j \in Jobs : Back(j)' <=> Back(j) \/ j = h
  <2> SUFFICES ASSUME NEW j \in Jobs PROVE Back(j)' <=> Back(j) \/ j = h
    OBVIOUS
  <2>1. (\E i \in 1 .. Len(outq') : outq'[i] = j) <=> (\E i \in 1 .. Len(outq) : outq[i] = j) \/ j = h
    BY <1>2, <1>6
  <2> QED
    BY <2>1, <1>1 DEF Back
<1>8. TypeOK'
  BY <1>1, <1>2, <1>3 DEF TypeOK
<1>9. FifoInv' /\ PhaseInv'
  BY <1>1, <1>3 DEF FifoInv, PhaseInv
<1>10. HandInv'
  <2>1. Taken >= 0
    BY <1>3 DEF HandInv
  <2> QED
    BY <2>1, <1>3, <1>4 DEF HandInv
<1>11. OutInv'
  <2>1. /\ \A i \in 1 .. Len(outq) : outq[i] \in Jobs /\ outq[i] # h
        /\ \A i \in 1 .. Len(received) : received[i] \in Jobs /\ received[i] # h
    BY <1>5, ElementOfSeq DEF Back, TypeOK
  <2>2. ASSUME NEW i \in 1 .. Len(outq')
        PROVE  /\ outq'[i] <= Taken
               /\ \A k \in 1 .. Len(outq') : outq'[i] = outq'[k] => i = k
               /\ \A k \in 1 .. Len(received) : outq'[i] # received[k]
               /\ \A v \in Workers : outq'[i] # wjob'[v]
    <3>1. CASE i \in 1 .. Len(outq)
      BY <3>1, <1>2, <1>3, <1>4, <1>6, <2>1 DEF OutInv
    <3>2. CASE outq'[i] = h /\ i = Len(outq')
      BY <3>2, <1>2, <1>3, <1>4, <1>5, <1>6, <2>1
    <3> QED
      BY <3>1, <3>2, <1>6
  <2>3. ASSUME NEW i \in 1 .. Len(received)
        PROVE  /\ received[i] <= Taken
               /\ \A k \in 1 .. Len(received) : received[i] = received[k] => i = k
               /\ \A v \in Workers : received[i] # wjob'[v]
    BY <2>1, <1>3, <1>4 DEF OutInv
  <2> QED
    BY <2>2, <2>3, <1>1, <1>3 DEF OutInv
<1>12. CoverInv'
  <2>1. ASSUME NEW j \in Jobs, j <= Taken PROVE Back(j)' \/ \E v \in Workers : wjob'[v] = j
    BY <2>1, <1>4, <1>7 DEF CoverInv
  <2> QED
    BY <2>1, <1>3 DEF CoverInv
<1>13. BreakInv'
  <2>1. ASSUME NEW j \in Ids \ Jobs, j < next PROVE isBreak'[j]
    BY <2>1, <1>5 DEF BreakInv
  <2>2. ASSUME NEW j \in Jobs, isBreak'[j] PROVE Back(j)'
    BY <2>2, <1>3, <1>7 DEF BreakInv
  <2> QED
    BY <2>1, <2>2, <1>1, <1>3 DEF BreakInv
<1>14. DoneInv'
  <2>1. ASSUME NEW j \in Jobs, Back(j)'
        PROVE  isBreak'[j] \/ plan[j].skip \/ outcome'[j] \in OutcomeType
    BY <2>1, <1>3, <1>7 DEF DoneInv
  <2> QED
    BY <2>1, <1>1, <1>3 DEF DoneInv
<1>15. ReturnInv'
  BY <1>1, <1>3, <1>4 DEF ReturnInv
<1>16. GoodJobs' = GoodJobs
  <2>1. \A i \in 1 .. Len(received) : received[i] \in Jobs /\ received[i] # h
    BY <1>5, ElementOfSeq DEF Back, TypeOK
  <2>2. \A i \in 1 .. Len(received) : /\ isBreak'[received[i]] = isBreak[received[i]]
                                      /\ outcome'[received[i]] = outcome[received[i]]
    BY <2>1, <1>3
  <2> QED
    BY <2>2, <1>1 DEF GoodJobs, Status, StatusOf
<1>17. TallyInv'
  BY <1>1, <1>16 DEF TallyInv
<1> QED
  BY <1>8, <1>9, <1>10, <1>11, <1>12, <1>13, <1>14, <1>15, <1>17

\* Giving a job back, passing a skipped one on and finishing a run are such steps.
LEMMA PutBackSteps ==
  ASSUME IInv, NEW w \in Workers, WorkerGiveBack(w) \/ WorkerSkip(w) \/ WorkerFinish(w)
  PROVE  IInv'
<1>1. /\ TypeOK /\ HandInv /\ BreakInv /\ PutBack(w) /\ wpc[w] \in {"got", "running"}
  BY DEF IInv, WorkerGiveBack, WorkerSkip, WorkerFinish, At
<1>2. wjob[w] \in Jobs
  <2>1. CASE wpc[w] = "running"
    BY <2>1, <1>1 DEF HandInv
  <2>2. CASE wpc[w] = "got"
    <3>1. ~isBreak[wjob[w]]
      BY <2>2 DEF WorkerGiveBack, WorkerSkip, WorkerFinish, At
    <3>2. wjob[w] \in Ids /\ wjob[w] < next
      BY <2>2, <1>1, JobFacts DEF HandInv, TypeOK, IInv, FifoInv, Taken
    <3> QED
      BY <3>1, <3>2, <1>1 DEF BreakInv
  <2> QED
    BY <1>1, <2>1, <2>2
<1>3. wjob[w] \in Ids /\ plan[wjob[w]] \in JobType
  BY <1>1, <1>2, JobFacts
<1>4. CASE WorkerGiveBack(w)
  BY <1>1, <1>2, <1>3, <1>4, PutBackStep DEF WorkerGiveBack, TypeOK
<1>5. CASE WorkerSkip(w)
  BY <1>1, <1>2, <1>3, <1>5, PutBackStep DEF WorkerSkip, TypeOK
<1>6. CASE WorkerFinish(w)
  <2>1. \A o \in Outcomes(wjob[w]) : o \in OutcomeType
    BY OutcomesAssumption DEF Outcomes, OutcomeType, XmlStates
  <2> QED
    BY <1>1, <1>2, <1>3, <1>6, <2>1, PutBackStep DEF WorkerFinish, TypeOK
<1> QED
  BY <1>4, <1>5, <1>6

----------------------------------------------------------------------------
(* Collecting a job.                                                       *)

\* What is known of a job at the head of the output queue.
LEMMA CollectFacts ==
  ASSUME IInv, NEW j \in Jobs, Receive(j)
  PROVE  /\ Back(j) /\ plan[j] \in JobType /\ Status(j) \in Statuses
         /\ ~isBreak[j] => Recorded(j) \in Statuses \cup XmlStates
         /\ FailedAfter(j) \in Seq(Jobs)
<1>1. Len(outq) \in Nat /\ Len(outq) > 0 /\ j = outq[1]
  BY Popped DEF IInv, TypeOK, Receive
<1>2. Back(j) /\ plan[j] \in JobType
  BY <1>1, JobFacts DEF Back, IInv
<1>3. Status(j) \in Statuses
  BY DEF Status, StatusOf, Statuses
<1>4. ASSUME ~isBreak[j] PROVE Recorded(j) \in Statuses \cup XmlStates
  <2>1. CASE ReadsXml(j)
    <3>1. ~plan[j].skip
      BY <2>1 DEF ReadsXml
    <3>2. outcome[j] \in OutcomeType
      BY <1>2, <1>4, <3>1 DEF IInv, DoneInv
    <3> QED
      BY <3>2, <1>3 DEF Recorded, OutcomeType
  <2>2. CASE ~ReadsXml(j)
    BY <2>2, <1>3 DEF Recorded
  <2> QED
    BY <2>1, <2>2
<1>5. FailedAfter(j) \in Seq(Jobs)
  <2>1. failed_jobs \in Seq(Jobs) /\ Append(failed_jobs, j) \in Seq(Jobs)
    BY Appended DEF IInv, TypeOK
  <2>2. Append(Append(failed_jobs, j), j) \in Seq(Jobs)
    BY <2>1, Appended
  <2> QED
    BY <2>1, <2>2 DEF FailedAfter
<1> QED
  BY <1>2, <1>3, <1>4, <1>5

\* Receiving a job moves it from the output queue to the main thread.
LEMMA ReceiveTrack ==
  ASSUME IInv, NEW j \in Jobs, Receive(j)
  PROVE  TrackInv'
<1> USE DEF IInv
<1>1. /\ outq # <<>> /\ j = Head(outq) /\ outq' = Tail(outq) /\ received' = Append(received, j)
      /\ UNCHANGED <<plan, next, isBreak, outcome, inq, wpc, wjob>>
  BY DEF Receive, jobVars, workerVars
<1>2. /\ Len(outq') = Len(outq) - 1 /\ Len(outq) \in Nat /\ Len(outq) > 0 /\ j = outq[1]
      /\ \A i \in 1 .. Len(outq') : outq'[i] = outq[i + 1]
  BY <1>1, Popped DEF TypeOK
<1>3. /\ Len(received') = Len(received) + 1 /\ Len(received) \in Nat
      /\ \A i \in 1 .. Len(received) : received'[i] = received[i]
      /\ received'[Len(received')] = j
  BY <1>1, Appended DEF TypeOK
<1>4. /\ Jobs' = Jobs /\ Ids' = Ids /\ LastId' = LastId /\ Taken' = Taken
  BY <1>1 DEF Jobs, Ids, LastId, Taken
<1>5. /\ \A i \in 1 .. Len(outq') : i + 1 \in 1 .. Len(outq) /\ i + 1 # 1
      /\ \A i \in 1 .. Len(outq) : i = 1 \/ (i - 1 \in 1 .. Len(outq') /\ outq'[i - 1] = outq[i])
  BY <1>2
<1>6. \A i \in 1 .. Len(received') : i \in 1 .. Len(received) \/ i = Len(received')
  BY <1>3
<1>7. \A k : Back(k)' <=> Back(k)
  <2> SUFFICES ASSUME NEW k PROVE Back(k)' <=> Back(k)
    OBVIOUS
  <2>1. (\E i \in 1 .. Len(outq) : outq[i] = k) <=> k = j \/ (\E i \in 1 .. Len(outq') : outq'[i] = k)
    BY <1>2, <1>5
  <2>2. (\E i \in 1 .. Len(received') : received'[i] = k)
          <=> k = j \/ (\E i \in 1 .. Len(received) : received[i] = k)
    BY <1>3, <1>6
  <2> QED
    BY <2>1, <2>2 DEF Back
<1>8. FifoInv' /\ HandInv' /\ ReturnInv'
  BY <1>1, <1>4 DEF FifoInv, HandInv, ReturnInv
<1>9. OutInv'
  <2>1. ASSUME NEW i \in 1 .. Len(outq')
        PROVE  /\ outq'[i] <= Taken
               /\ \A k \in 1 .. Len(outq') : outq'[i] = outq'[k] => i = k
               /\ \A k \in 1 .. Len(received') : outq'[i] # received'[k]
               /\ \A v \in Workers : outq'[i] # wjob[v]
    <3>1. i + 1 \in 1 .. Len(outq) /\ outq'[i] = outq[i + 1] /\ i \in Int
      BY <1>2, <1>5
    <3>2. outq[i + 1] # j
      BY <3>1, <1>2, <1>5 DEF OutInv
    <3>3. ASSUME NEW k \in 1 .. Len(outq'), outq'[i] = outq'[k] PROVE i = k
      <4>1. k + 1 \in 1 .. Len(outq) /\ outq'[k] = outq[k + 1] /\ k \in Int
        BY <1>2, <1>5
      <4>2. i + 1 = k + 1
        BY <3>1, <3>3, <4>1 DEF OutInv
      <4> QED
        BY <3>1, <4>1, <4>2
    <3>4. \A k \in 1 .. Len(received') : outq'[i] # received'[k]
      BY <1>3, <1>6, <3>1, <3>2 DEF OutInv
    <3> QED
      BY <3>1, <3>3, <3>4 DEF OutInv
  <2>2. ASSUME NEW i \in 1 .. Len(received')
        PROVE  /\ received'[i] <= Taken
               /\ \A k \in 1 .. Len(received') : received'[i] = received'[k] => i = k
               /\ \A v \in Workers : received'[i] # wjob[v]
    <3>1. 1 \in 1 .. Len(outq)
      BY <1>2
    <3>2. \A k \in 1 .. Len(received) : received[k] # j
      BY <1>2, <3>1 DEF OutInv
    <3>3. CASE i \in 1 .. Len(received)
      BY <3>2, <3>3, <1>3, <1>6 DEF OutInv
    <3>4. CASE i = Len(received')
      BY <3>1, <3>2, <3>4, <1>2, <1>3, <1>6 DEF OutInv
    <3> QED
      BY <3>3, <3>4, <1>6
  <2> QED
    BY <2>1, <2>2, <1>1, <1>4 DEF OutInv
<1>10. CoverInv' /\ BreakInv' /\ DoneInv'
  BY <1>1, <1>4, <1>7 DEF CoverInv, BreakInv, DoneInv
<1> QED
  BY <1>8, <1>9, <1>10 DEF TrackInv

\* Counting a received job keeps the counters equal to the number of good jobs.
LEMMA CollectTally ==
  ASSUME IInv, NEW j \in Jobs, Receive(j), mpc' # "returned",
         \/ isBreak[j] /\ UNCHANGED count
         \/ ~isBreak[j] /\ Tally(j)
  PROVE  TallyInv'
<1> DEFINE n == Len(received)
           good == ~isBreak[j] /\ Status(j) \in {"PASS", "SKIP"}
<1>1. /\ n \in Nat /\ Len(received') = n + 1 /\ received'[n + 1] = j
      /\ \A i \in 1 .. n : received'[i] = received[i]
      /\ UNCHANGED <<plan, isBreak, outcome>>
  BY Appended DEF IInv, TypeOK, Receive, jobVars
<1>2. \A k : Status(k)' = Status(k)
  BY <1>1 DEF Status, StatusOf
<1>3. GoodJobs' = IF good THEN GoodJobs \cup {n + 1} ELSE GoodJobs
  BY <1>1, <1>2 DEF GoodJobs
<1>4. IsFiniteSet(GoodJobs) /\ Cardinality(GoodJobs) \in Nat /\ n + 1 \notin GoodJobs
  <2>1. GoodJobs \subseteq 1 .. n
    BY DEF GoodJobs
  <2>2. IsFiniteSet(1 .. n)
    BY <1>1, IntervalSize
  <2>3. IsFiniteSet(GoodJobs)
    BY <2>1, <2>2, FS_Subset
  <2> QED
    BY <1>1, <2>1, <2>3, FS_CardinalityType
<1>5. Cardinality(GoodJobs') = IF good THEN Cardinality(GoodJobs) + 1 ELSE Cardinality(GoodJobs)
  BY <1>3, <1>4, FS_AddElement
<1>6. count \in [Statuses -> Nat] /\ count["PASS"] + count["SKIP"] = Cardinality(GoodJobs)
      /\ Status(j) \in Statuses /\ "PASS" \in Statuses /\ "SKIP" \in Statuses
  BY CollectFacts DEF IInv, TypeOK, TallyInv, Statuses
<1>7. count'["PASS"] + count'["SKIP"]
        = IF good THEN count["PASS"] + count["SKIP"] + 1 ELSE count["PASS"] + count["SKIP"]
  <2>1. CASE isBreak[j]
    BY <2>1
  <2>2. CASE ~isBreak[j]
    BY <2>2, <1>6 DEF Tally
  <2> QED
    BY <2>1, <2>2
<1> QED
  BY <1>4, <1>5, <1>6, <1>7 DEF TallyInv

\* Each way of collecting a job keeps the invariant.
LEMMA CollectStep == IInv /\ Collect => IInv'
<1> SUFFICES ASSUME IInv, NEW j \in Jobs,
                    CollectBreak(j) \/ CollectSkip(j) \/ CollectRun(j) \/ CollectRaises(j)
             PROVE  IInv'
  BY DEF Collect
<1>1. Receive(j) /\ Len(received) < Len(plan) /\ mpc = "collect"
  BY DEF CollectBreak, CollectSkip, CollectRun, CollectRaises, Receive
<1>2. TrackInv'
  BY <1>1, ReceiveTrack
<1>3. mpc' \in {"collect", "raised"}
  BY <1>1 DEF CollectBreak, CollectSkip, CollectRun, CollectRaises
<1>4. TallyInv'
  BY <1>1, <1>3, CollectTally DEF CollectBreak, CollectSkip, CollectRun, CollectRaises
<1>5. PhaseInv'
  <2>1. Len(received') = Len(received) + 1 /\ UNCHANGED <<plan, next>>
        /\ Len(received) \in Nat /\ Len(plan) \in Nat /\ next = LastId + 1
    BY <1>1, Appended, JobFacts DEF IInv, TypeOK, PhaseInv, Receive, jobVars
  <2>2. ~closed /\ closed' = closed /\ LastId' = LastId
    BY <1>1, <2>1 DEF IInv, PhaseInv, Receive, LastId
  <2> QED
    BY <2>1, <2>2, <1>1, <1>3 DEF PhaseInv
<1>6. TypeOK'
  <2>1. /\ UNCHANGED <<plan, next, isBreak, outcome, inq, wpc, wjob, thread_exit, closed>>
        /\ outq' \in Seq(Jobs) /\ received' \in Seq(Jobs)
    BY <1>1, Appended, Popped DEF IInv, TypeOK, Receive, jobVars, workerVars
  <2>2. count' \in [Statuses -> Nat]
    <3>1. count \in [Statuses -> Nat] /\ Status(j) \in Statuses
      BY <1>1, CollectFacts DEF IInv, TypeOK
    <3>2. count' = count \/ count' = [count EXCEPT ![Status(j)] = @ + 1]
      BY DEF CollectBreak, CollectSkip, CollectRun, CollectRaises, Tally
    <3>3. count[Status(j)] + 1 \in Nat
      BY <3>1
    <3> QED
      BY <3>1, <3>2, <3>3
  <2>3. failed_jobs' \in Seq(Jobs)
    <3>1. failed_jobs' = failed_jobs \/ failed_jobs' = FailedAfter(j)
      BY DEF CollectBreak, CollectSkip, CollectRun, CollectRaises
    <3> QED
      BY <3>1, <1>1, CollectFacts DEF IInv, TypeOK
  <2>4. results' \in Seq([name : Jobs, result : Statuses \cup XmlStates])
    <3>1. CASE results' = results
      BY <3>1 DEF IInv, TypeOK
    <3>2. CASE ~isBreak[j] /\ Record(j)
      BY <3>2, <1>1, CollectFacts, Appended DEF IInv, TypeOK, Record
    <3> QED
      BY <3>1, <3>2 DEF CollectBreak, CollectSkip, CollectRun, CollectRaises
  <2>5. exitCode' \in {-1, 0, 1}
    BY DEF IInv, TypeOK, CollectBreak, CollectSkip, CollectRun, CollectRaises
  <2>6. Jobs' = Jobs /\ Ids' = Ids /\ LastId' = LastId
    BY <2>1 DEF Jobs, Ids, LastId
  <2> QED
    BY <1>3, <2>1, <2>2, <2>3, <2>4, <2>5, <2>6 DEF IInv, TypeOK
<1> QED
  BY <1>2, <1>4, <1>5, <1>6 DEF IInv, TrackInv

----------------------------------------------------------------------------
(* The theorems.                                                           *)

\* Every step keeps the inductive invariant.
LEMMA NextIInv == IInv /\ [Next]_vars => IInv'
<1> SUFFICES ASSUME IInv, [Next]_vars PROVE IInv'
  OBVIOUS
<1>1. CASE Main
  BY <1>1, QuietSteps, DispatchSteps, CollectStep DEF Main
<1>2. CASE \E w \in Workers : Worker(w)
  BY <1>2, GetStep, ReturnStep, PutBackSteps, RunSteps DEF Worker
<1>3. CASE Sigint
  BY <1>3, QuietSteps
<1>4. CASE UNCHANGED vars
  <2>1. UNCHANGED trackVars /\ UNCHANGED <<thread_exit, mpc, count, failed_jobs, results, closed,
                                           exitCode>>
    BY <1>4 DEF vars, trackVars, jobVars, queueVars, workerVars, bookVars, endVars
  <2>2. TrackInv' /\ GoodJobs' = GoodJobs
    BY <2>1, TrackFrame, GoodFrame DEF trackVars
  <2>3. TypeOK' /\ PhaseInv' /\ TallyInv'
    BY <2>1, <2>2 DEF trackVars, IInv, TypeOK, PhaseInv, TallyInv, Jobs, Ids, LastId
  <2> QED
    BY <2>2, <2>3 DEF IInv, TrackInv
<1> QED
  BY <1>1, <1>2, <1>3, <1>4 DEF Next, Terminated

\* The inductive invariant holds in every state of every run: the queues are
\* first in first out, a job is held by one thread at most, is_break is set on
\* a test only when it has come back, and the counters count.
THEOREM IInvInvariant == Spec => []IInv
BY InitIInv, NextIInv, PTL DEF Spec

\* Every variable of test.py's run keeps its type.
THEOREM TypeCorrect == Spec => []TypeOK
<1>1. IInv => TypeOK
  BY DEF IInv
<1> QED
  BY IInvInvariant, <1>1, PTL

\* No job is lost or duplicated between the queues, the workers and the main
\* thread, whatever their number and however they interleave or die.
THEOREM JobsConserved == Spec => []JobConservation
<1>1. IInv => JobConservation
  <2> SUFFICES ASSUME IInv, NEW j \in Jobs, j < next
               PROVE  Cardinality(Places(j)) = 1
    BY DEF JobConservation
  <2> USE DEF IInv
  <2> DEFINE In == {i \in DOMAIN inq : inq[i] = j}
             Hand == {w \in Workers : wjob[w] = j}
             Out == {i \in DOMAIN outq : outq[i] = j}
             Rcvd == {i \in DOMAIN received : received[i] = j}
  <2>1. /\ DOMAIN inq = 1 .. Len(inq) /\ DOMAIN outq = 1 .. Len(outq)
        /\ DOMAIN received = 1 .. Len(received)
    BY LenProperties DEF TypeOK
  <2>2. /\ next \in Nat /\ Len(inq) \in Nat /\ Len(inq) < next /\ j \in Nat /\ j > 0
        /\ Taken \in Nat /\ Taken = next - 1 - Len(inq)
    BY JobFacts DEF FifoInv, Taken, Jobs
  <2>3. /\ \A i, k \in Out : i = k
        /\ \A i, k \in Rcvd : i = k
        /\ \A v, w \in Hand : v = w
        /\ Out # {} => Rcvd = {} /\ Hand = {}
        /\ Rcvd # {} => Hand = {}
    BY <2>1, <2>2 DEF OutInv, HandInv
  <2>4. CASE j <= Taken
    <3>1. In = {}
      BY <2>1, <2>2, <2>4 DEF FifoInv
    <3>2. Out # {} \/ Rcvd # {} \/ Hand # {}
      BY <2>1, <2>4 DEF CoverInv, Back
    <3>3. \E p : Places(j) = {p}
      <4>1. Places(j) = {<<"worker", w>> : w \in Hand} \cup {<<"out", i>> : i \in Out}
                          \cup {<<"main", i>> : i \in Rcvd}
        BY <3>1 DEF Places
      <4>2. CASE Out # {}
        <5>1. PICK i : Out = {i}
          BY <4>2, <2>3
        <5>2. Rcvd = {} /\ Hand = {}
          BY <4>2, <2>3
        <5>3. Places(j) = {<<"out", i>>}
          BY <4>1, <5>1, <5>2
        <5> QED
          BY <5>3
      <4>3. CASE Rcvd # {}
        <5>1. PICK i : Rcvd = {i}
          BY <4>3, <2>3
        <5>2. Out = {} /\ Hand = {}
          BY <4>3, <2>3
        <5>3. Places(j) = {<<"main", i>>}
          BY <4>1, <5>1, <5>2
        <5> QED
          BY <5>3
      <4>4. CASE Hand # {}
        <5>1. PICK w : Hand = {w}
          BY <4>4, <2>3
        <5>2. Out = {} /\ Rcvd = {}
          BY <4>4, <2>3
        <5>3. Places(j) = {<<"worker", w>>}
          BY <4>1, <5>1, <5>2
        <5> QED
          BY <5>3
      <4> QED
        BY <3>2, <4>2, <4>3, <4>4
    <3> QED
      BY <3>3, FS_Singleton
  <2>5. CASE j > Taken
    <3>1. Out = {} /\ Rcvd = {}
      BY <2>1, <2>2, <2>5 DEF OutInv
    <3>2. Hand = {}
      BY <2>2, <2>5 DEF HandInv
    <3>3. In = {j - Taken}
      <4>1. j - Taken \in 1 .. Len(inq)
        BY <2>2, <2>5
      <4>2. \A i \in 1 .. Len(inq) : inq[i] = Taken + i
        BY DEF FifoInv
      <4>3. \A i \in 1 .. Len(inq) : Taken + i = j <=> i = j - Taken
        BY <2>2
      <4> QED
        BY <2>1, <4>1, <4>2, <4>3
    <3>4. Places(j) = {<<"in", j - Taken>>}
      BY <3>1, <3>2, <3>3 DEF Places
    <3> QED
      BY <3>4, FS_Singleton
  <2> QED
    BY <2>2, <2>4, <2>5
<1> QED
  BY IInvInvariant, <1>1, PTL

\* No test is stranded behind the break jobs: when a worker has returned, every
\* test was taken from the input queue.
THEOREM NothingStranded == Spec => []NoJobStranded
<1>1. IInv => NoJobStranded
  <2> SUFFICES ASSUME IInv, NEW w \in Workers, wpc[w] = "returned"
               PROVE  next > Len(plan) /\ \A i \in DOMAIN inq : inq[i] \notin Jobs
    BY DEF NoJobStranded
  <2>1. /\ Taken > Len(plan) /\ Taken \in Int /\ Len(plan) \in Nat /\ next \in Nat
        /\ Len(inq) \in Nat /\ Taken = next - 1 - Len(inq) /\ DOMAIN inq = 1 .. Len(inq)
    BY JobFacts, LenProperties DEF IInv, ReturnInv, TypeOK, Taken
  <2>2. \A i \in 1 .. Len(inq) : inq[i] = Taken + i
    BY DEF IInv, FifoInv
  <2> QED
    BY <2>1, <2>2 DEF Jobs
<1> QED
  BY IInvInvariant, <1>1, PTL

\* Past the collecting loop every test was received.
LEMMA AllReceived ==
  ASSUME IInv, mpc \in {"join", "close", "report", "returned"} \/ closed
  PROVE  /\ Len(received) = Len(plan) /\ Len(plan) \in Nat /\ Jobs = 1 .. Len(plan)
         /\ \A i \in 1 .. Len(plan) : received[i] \in Jobs
         /\ \A j \in Jobs : \E i \in 1 .. Len(plan) : received[i] = j
<1> DEFINE n == Len(plan)
<1>1. n \in Nat /\ Len(received) = n /\ Jobs = 1 .. n
  BY JobFacts DEF IInv, PhaseInv, Jobs
<1>2. IsFiniteSet(1 .. n) /\ Cardinality(1 .. n) = n
  BY <1>1, IntervalSize
<1>3. received \in [1 .. n -> Jobs]
  BY <1>1, LenProperties DEF IInv, TypeOK
<1>4. received \in Injection(1 .. n, Jobs)
  BY <1>1, <1>3 DEF IInv, OutInv, Injection, IsInjective
<1>5. received \in Surjection(1 .. n, Jobs)
  BY <1>1, <1>2, <1>4, FS_Injection
<1> QED
  BY <1>1, <1>3, <1>5 DEF Surjection

\* There the counters say whether every test passed or was skipped.
LEMMA TallyComplete ==
  ASSUME IInv, mpc \in {"join", "close", "report", "returned"} \/ closed
  PROVE  count["PASS"] + count["SKIP"] = Len(plan)
           <=> \A j \in Jobs : ~isBreak[j] /\ Status(j) \in {"PASS", "SKIP"}
<1> DEFINE n == Len(plan)
           Good(j) == ~isBreak[j] /\ Status(j) \in {"PASS", "SKIP"}
<1>1. GoodJobs = {i \in 1 .. n : Good(received[i])}
  BY AllReceived DEF GoodJobs
<1>2. (Cardinality(GoodJobs) = n) <=> GoodJobs = 1 .. n
  BY <1>1, AllReceived, IntervalSize, FS_Subset
<1>3. (GoodJobs = 1 .. n) <=> \A j \in Jobs : Good(j)
  BY <1>1, AllReceived
<1> QED
  BY <1>2, <1>3 DEF IInv, TallyInv

\* The exit code is 0 exactly when every selected test came back and passed or
\* was skipped. The received jobs are as many as the tests and all different, so
\* they are all the tests, and the counters count the good ones among them.
THEOREM ExitCodeCorrect == Spec => []ExitCodeSound
<1>1. IInv => ExitCodeSound
  BY TallyComplete DEF IInv, TallyInv, ExitCodeSound
<1> QED
  BY IInvInvariant, <1>1, PTL

\* Once SIGINT was handled no worker decides on another launch: only a worker that
\* looked at thread_exit before can still start its program.
THEOREM InterruptBounded == Spec => InterruptBoundsLaunches
<1>1. TypeOK /\ [Next]_vars => [thread_exit => Committed' \subseteq Committed]_vars
  <2> SUFFICES ASSUME TypeOK, Next, thread_exit,
                      NEW v \in Workers, wpc'[v] \in {"cleared", "running"}
               PROVE  wpc[v] \in {"cleared", "running"} /\ wjob'[v] = wjob[v]
    BY DEF Committed
  <2>1. CASE UNCHANGED workerVars
    BY <2>1 DEF workerVars
  <2>2. CASE \E w \in Workers : Worker(w)
    <3>1. PICK w \in Workers : Worker(w)
      BY <2>2
    <3>2. ~WorkerLaunch(w)
      BY DEF WorkerLaunch
    <3>3. CASE WorkerStart(w)
      BY <3>3 DEF WorkerStart, At, Goto, TypeOK
    <3>4. CASE ~WorkerStart(w)
      <4>1. /\ wpc'[w] \notin {"cleared", "running"}
            /\ \A u \in Workers : u # w => wpc'[u] = wpc[u] /\ wjob'[u] = wjob[u]
        BY <3>1, <3>2, <3>4 DEF Worker, WorkerGet, WorkerReturn, WorkerGiveBack, WorkerSkip,
           WorkerDies, WorkerFinish, PutBack, Goto, TypeOK
      <4> QED
        BY <4>1
    <3> QED
      BY <3>3, <3>4
  <2>3. CASE Main \/ Sigint
    BY <2>1, <2>3 DEF Main, DispatchJob, DispatchRaises, DispatchBreak, DispatchDone, Collect,
       CollectBreak, CollectSkip, CollectRun, CollectRaises, Receive, CollectDone, Join,
       Close, ReportRaises, Return, Sigint
  <2>4. CASE Terminated
    BY <2>1, <2>4 DEF Terminated, vars
  <2> QED
    BY <2>2, <2>3, <2>4 DEF Next
<1> QED
  BY TypeCorrect, <1>1, PTL DEF Spec, InterruptBoundsLaunches

----------------------------------------------------------------------------
(* What a step leaves alone.                                               *)

\* What is known of a job only depends on its place in the plan, its outcome and
\* whether it was given back.
LEMMA SameJob ==
  ASSUME plan' = plan, NEW j, isBreak'[j] = isBreak[j], outcome'[j] = outcome[j]
  PROVE  /\ Status(j)' = Status(j) /\ Recorded(j)' = Recorded(j)
         /\ ReadsXml(j)' <=> ReadsXml(j)
         /\ Handled(j)' <=> Handled(j)
         /\ HasEntry(j)' <=> HasEntry(j)
         /\ Fails(j)' <=> Fails(j)
BY DEF Status, StatusOf, Recorded, ReadsXml, Handled, WritesNothing, HasEntry, Fails

\* The received jobs are tests.
LEMMA ReceivedAreJobs ==
  ASSUME TypeOK
  PROVE  /\ Len(received) \in Nat /\ DOMAIN received = 1 .. Len(received)
         /\ \A i \in 1 .. Len(received) : received[i] \in Jobs
BY ElementOfSeq, LenProperties DEF TypeOK

\* A step that collects nothing leaves the books, and all that is known of the
\* received jobs, as they are.
LEMMA BookFrame ==
  ASSUME IInv, [Next]_vars, ~Collect
  PROVE  /\ UNCHANGED <<plan, received, failed_jobs, results>>
         /\ \A i \in 1 .. Len(received) : /\ isBreak'[received[i]] = isBreak[received[i]]
                                          /\ outcome'[received[i]] = outcome[received[i]]
<1>1. CASE Main
  <2>1. UNCHANGED <<plan, received, failed_jobs, results, outcome>>
    BY <1>1 DEF Main, DispatchJob, DispatchRaises, DispatchBreak, DispatchDone, CollectDone, Join,
       Close, ReportRaises, Return, jobVars, bookVars
  <2>2. isBreak' = isBreak \/ \E b \in Ids \ Jobs : isBreak' = [isBreak EXCEPT ![b] = TRUE]
    BY <1>1 DEF Main, DispatchJob, DispatchRaises, DispatchBreak, DispatchDone, CollectDone, Join,
       Close, ReportRaises, Return, jobVars
  <2>3. \A i \in 1 .. Len(received) : isBreak'[received[i]] = isBreak[received[i]]
    BY <2>2, ReceivedAreJobs, JobFacts DEF IInv, TypeOK
  <2> QED
    BY <2>1, <2>3
<1>2. CASE \E w \in Workers : Worker(w)
  <2>1. PICK w \in Workers : Worker(w)
    BY <1>2
  <2>2. UNCHANGED <<plan, received, failed_jobs, results>>
    BY <2>1 DEF Worker, WorkerGet, WorkerReturn, WorkerGiveBack, WorkerSkip, WorkerLaunch,
       WorkerStart,
       WorkerFinish, WorkerDies, PutBack, jobVars, bookVars
  <2>3. /\ isBreak' = isBreak \/ isBreak' = [isBreak EXCEPT ![wjob[w]] = TRUE]
        /\ outcome' = outcome \/ \E o : outcome' = [outcome EXCEPT ![wjob[w]] = o]
    BY <2>1 DEF Worker, WorkerGet, WorkerReturn, WorkerGiveBack, WorkerSkip, WorkerLaunch,
       WorkerStart,
       WorkerFinish, WorkerDies, jobVars
  <2>4. \A i \in 1 .. Len(received) : received[i] # wjob[w] /\ received[i] \in Ids
                                      /\ received[i] \in Jobs
    BY ReceivedAreJobs, JobFacts DEF IInv, OutInv
  <2> QED
    BY <2>2, <2>3, <2>4 DEF IInv, TypeOK
<1>3. CASE Sigint \/ UNCHANGED vars
  BY <1>3 DEF Sigint, vars, jobVars, bookVars
<1> QED
  BY <1>1, <1>2, <1>3 DEF Next, Terminated

\* Collecting a job changes nothing but the output queue, the books and the main
\* thread's place.
LEMMA CollectFrame ==
  ASSUME IInv, NEW j \in Jobs,
         CollectBreak(j) \/ CollectSkip(j) \/ CollectRun(j) \/ CollectRaises(j)
  PROVE  /\ UNCHANGED <<plan, next, isBreak, outcome, inq, wpc, wjob, thread_exit, closed>>
         /\ mpc = "collect" /\ mpc' \in {"collect", "raised"}
         /\ Len(received) \in Nat /\ Len(received') = Len(received) + 1
         /\ received'[Len(received) + 1] = j
         /\ \A i \in 1 .. Len(received) : received'[i] = received[i] /\ received[i] # j
<1>1. Receive(j) /\ mpc' \in {"collect", "raised"}
  BY DEF CollectBreak, CollectSkip, CollectRun, CollectRaises, Receive
<1>2. /\ UNCHANGED <<plan, next, isBreak, outcome, inq, wpc, wjob, thread_exit, closed>>
      /\ mpc = "collect" /\ received' = Append(received, j) /\ outq # <<>> /\ j = Head(outq)
  BY <1>1 DEF Receive, jobVars, workerVars
<1>3. Len(outq) \in Nat /\ Len(outq) > 0 /\ j = outq[1]
  BY <1>2, Popped DEF IInv, TypeOK
<1>4. \A i \in 1 .. Len(received) : received[i] # j
  BY <1>3 DEF IInv, OutInv
<1>5. /\ Len(received) \in Nat /\ Len(received') = Len(received) + 1
      /\ received'[Len(received')] = j
      /\ \A i \in 1 .. Len(received) : received'[i] = received[i]
  BY <1>2, Appended DEF IInv, TypeOK
<1> QED
  BY <1>1, <1>2, <1>4, <1>5
----------------------------------------------------------------------------
(* The workers that leave.                                                 *)

\* Leavers is a finite set.
LEMMA LeaversFinite == IsFiniteSet(Leavers) /\ Cardinality(Leavers) \in Nat
<1>1. Leavers \subseteq Workers
  BY DEF Leavers
<1> QED
  BY <1>1, WorkersAssumption, FS_Subset, FS_CardinalityType

\* LeaveInv only depends on the plan, on how many jobs were taken and on the workers.
LEMMA LeaveFrame ==
  ASSUME LeaveInv, UNCHANGED <<plan, wpc, wjob>>, Taken' = Taken
  PROVE  LeaveInv'
BY DEF LeaveInv, Leavers, Jobs, Ids, LastId

\* Whoever takes a break job joins the leavers, and nobody else does.
LEMMA LeaveGet ==
  ASSUME IInv, LeaveInv, NEW w \in Workers, WorkerGet(w)
  PROVE  LeaveInv'
<1>1. /\ wpc[w] = "get" /\ inq # <<>> /\ inq' = Tail(inq)
      /\ wjob' = [wjob EXCEPT ![w] = Head(inq)] /\ wpc' = [wpc EXCEPT ![w] = "got"]
      /\ plan' = plan /\ next' = next
  BY DEF WorkerGet, At, Goto, jobVars
<1>2. /\ Len(inq') = Len(inq) - 1 /\ Len(inq) > 0 /\ Head(inq) = inq[1] /\ Head(inq) \in Ids
  BY <1>1, Popped DEF IInv, TypeOK
<1>3. /\ Len(inq) \in Nat /\ next \in Nat /\ Taken \in Int /\ Len(plan) \in Nat
      /\ Jobs' = Jobs /\ Ids' = Ids /\ Jobs = 1 .. Len(plan)
  BY <1>1, JobFacts DEF IInv, Jobs, Ids, LastId
<1>4. Head(inq) = Taken + 1 /\ Taken' = Taken + 1 /\ Taken >= 0
  BY <1>1, <1>2, <1>3 DEF IInv, FifoInv, Taken
<1>5. \A v \in Workers : /\ wjob'[v] = IF v = w THEN Taken + 1 ELSE wjob[v]
                         /\ wpc'[v] = IF v = w THEN "got" ELSE wpc[v]
  BY <1>1, <1>4 DEF IInv, TypeOK
<1>6. w \notin Leavers
  <2>1. wjob[w] = 0 /\ 0 \notin Ids
    BY <1>1 DEF IInv, HandInv, Ids
  <2> QED
    BY <2>1, <1>1 DEF Leavers
<1>7. CASE Taken + 1 \in Jobs
  <2>1. Leavers' = Leavers
    BY <1>3, <1>5, <1>6, <1>7 DEF Leavers
  <2> QED
    BY <2>1, <1>1, <1>3, <1>4, <1>7 DEF LeaveInv
<1>8. CASE Taken + 1 \notin Jobs
  <2>1. Leavers' = Leavers \cup {w}
    BY <1>2, <1>3, <1>4, <1>5, <1>8 DEF Leavers
  <2>2. Cardinality(Leavers') = Cardinality(Leavers) + 1
    BY <2>1, <1>6, LeaversFinite, FS_AddElement
  <2>3. Taken >= Len(plan)
    BY <1>3, <1>4, <1>8
  <2> QED
    BY <2>2, <2>3, <1>1, <1>3, <1>4 DEF LeaveInv
<1> QED
  BY <1>7, <1>8

\* A worker that gets on with its job is a leaver afterwards if it was one before.
LEMMA LeaveWork ==
  ASSUME IInv, LeaveInv, NEW w \in Workers, Worker(w), ~WorkerGet(w)
  PROVE  LeaveInv'
<1>1. /\ UNCHANGED <<plan, next, inq>> /\ wpc[w] \in {"got", "cleared", "running"}
  BY DEF Worker, WorkerReturn, WorkerGiveBack, WorkerSkip, WorkerLaunch, WorkerStart,
     WorkerFinish, WorkerDies,
     PutBack, jobVars, queueVars, At
<1>2. Jobs' = Jobs /\ Ids' = Ids /\ Taken' = Taken /\ wjob[w] \in Ids /\ wjob[w] < next
      /\ 0 \notin Ids
  BY <1>1, JobFacts DEF IInv, TypeOK, HandInv, FifoInv, Jobs, Ids, LastId, Taken
<1>3. Leavers' = Leavers
  <2>1. CASE WorkerReturn(w)
    <3>1. isBreak[wjob[w]] /\ ~Back(wjob[w])
      BY <2>1 DEF WorkerReturn, IInv, OutInv, Back
    <3>2. wjob[w] \in Ids \ Jobs
      BY <3>1, <1>2 DEF IInv, BreakInv
    <3>3. \A v \in Workers : /\ wjob'[v] = IF v = w THEN 0 ELSE wjob[v]
                             /\ wpc'[v] = IF v = w THEN "returned" ELSE wpc[v]
      BY <2>1 DEF WorkerReturn, Goto, IInv, TypeOK
    <3> QED
      BY <3>2, <3>3, <1>2 DEF Leavers
  <2>2. CASE WorkerLaunch(w) \/ WorkerStart(w) \/ WorkerDies(w)
    <3>1. wjob' = wjob /\ \E pc \in {"cleared", "running", "died"} : wpc' = [wpc EXCEPT ![w] = pc]
      BY <2>2 DEF WorkerLaunch, WorkerStart, WorkerDies, Goto
    <3>2. wpc'[w] # "returned" /\ \A v \in Workers : v # w => wpc'[v] = wpc[v]
      BY <3>1 DEF IInv, TypeOK
    <3> QED
      BY <3>1, <3>2, <1>1, <1>2 DEF Leavers
  <2>3. CASE WorkerGiveBack(w) \/ WorkerSkip(w) \/ WorkerFinish(w)
    <3>1. \A v \in Workers : /\ wjob'[v] = IF v = w THEN 0 ELSE wjob[v]
                             /\ wpc'[v] = IF v = w THEN "get" ELSE wpc[v]
      BY <2>3 DEF WorkerGiveBack, WorkerSkip, WorkerFinish, PutBack, Goto, IInv, TypeOK
    <3>2. wjob[w] \in Jobs
      <4>1. CASE wpc[w] \in {"cleared", "running"}
        BY <4>1 DEF IInv, HandInv
      <4>2. CASE wpc[w] = "got"
        <5>1. ~isBreak[wjob[w]]
          BY <4>2, <2>3 DEF WorkerGiveBack, WorkerSkip, WorkerFinish, At
        <5> QED
          BY <5>1, <1>2 DEF IInv, BreakInv
      <4> QED
        BY <1>1, <4>1, <4>2
    <3> QED
      BY <3>1, <3>2, <1>1, <1>2 DEF Leavers
  <2> QED
    BY <2>1, <2>2, <2>3 DEF Worker
<1> QED
  BY <1>1, <1>2, <1>3 DEF LeaveInv

\* Every step keeps the number of leavers equal to that of the break jobs taken.
LEMMA LeaveStep == IInv /\ LeaveInv /\ [Next]_vars => LeaveInv'
<1> SUFFICES ASSUME IInv, LeaveInv, [Next]_vars PROVE LeaveInv'
  OBVIOUS
<1>1. CASE DispatchJob \/ DispatchBreak
  <2>1. UNCHANGED <<plan, wpc, wjob>> /\ inq' = Append(inq, next) /\ next' = next + 1
    BY <1>1 DEF DispatchJob, DispatchBreak, workerVars
  <2>2. Len(inq') = Len(inq) + 1 /\ Len(inq) \in Nat /\ next \in Nat
    <3>1. next \in Ids
      BY <1>1, JobFacts DEF DispatchJob, DispatchBreak, IInv
    <3> QED
      BY <3>1, <2>1, Appended, JobFacts DEF IInv, TypeOK
  <2>3. Taken' = Taken
    BY <2>1, <2>2 DEF Taken
  <2> QED
    BY <2>1, <2>3, LeaveFrame
<1>2. CASE Main /\ ~(DispatchJob \/ DispatchBreak)
  <2>1. UNCHANGED <<plan, wpc, wjob, next, inq>>
    BY <1>2 DEF Main, DispatchRaises, DispatchDone, Collect, CollectBreak, CollectSkip, CollectRun,
       CollectRaises, Receive, CollectDone, Join, Close, ReportRaises, Return, jobVars,
       workerVars, queueVars
  <2> QED
    BY <2>1, LeaveFrame DEF Taken
<1>3. CASE \E w \in Workers : Worker(w)
  BY <1>3, LeaveGet, LeaveWork
<1>4. CASE Sigint \/ UNCHANGED vars
  <2>1. UNCHANGED <<plan, wpc, wjob, next, inq>>
    BY <1>4 DEF Sigint, vars, jobVars, workerVars, queueVars
  <2> QED
    BY <2>1, LeaveFrame DEF Taken
<1> QED
  BY <1>1, <1>2, <1>3, <1>4 DEF Next, Terminated
----------------------------------------------------------------------------
(* The end of the run, SIGINT, and the entries.                            *)

\* A worker that is gone stays gone, and the main thread is only past the join
\* when all of them are.
LEMMA EndStep == IInv /\ EndInv /\ [Next]_vars => EndInv'
<1> SUFFICES ASSUME IInv, EndInv, [Next]_vars PROVE EndInv'
  OBVIOUS
<1>1. CASE Join \/ Close \/ ReportRaises \/ Return
  <2>1. UNCHANGED wpc /\ \A w \in Workers : Gone(w)
    BY <1>1 DEF Join, Close, ReportRaises, Return, EndInv, workerVars
  <2>2. \A w \in Workers : Gone(w)'
    BY <2>1 DEF Gone
  <2>3. /\ mpc' \in {"report", "returned"} => closed'
        /\ closed' => mpc' \in {"report", "returned", "raised"}
    BY <1>1 DEF Join, Close, ReportRaises, Return, EndInv, endVars
  <2> QED
    BY <2>2, <2>3 DEF EndInv
<1>2. CASE Main /\ ~(Join \/ Close \/ ReportRaises \/ Return)
  <2>1. /\ mpc \in {"dispatch", "collect"} /\ mpc' \in {"dispatch", "collect", "join", "raised"}
        /\ closed' = closed
    BY <1>2 DEF Main, DispatchJob, DispatchRaises, DispatchBreak, DispatchDone, Collect,
       CollectBreak,
       CollectSkip, CollectRun, CollectRaises, Receive, CollectDone, endVars
  <2> QED
    BY <2>1 DEF EndInv
<1>3. CASE \E w \in Workers : Worker(w)
  <2>1. PICK w \in Workers : Worker(w)
    BY <1>3
  <2>2. mpc' = mpc /\ closed' = closed
    BY <2>1 DEF Worker, WorkerGet, WorkerReturn, WorkerGiveBack, WorkerSkip, WorkerLaunch,
       WorkerStart,
       WorkerFinish, WorkerDies, PutBack, endVars
  <2>3. ~Gone(w)
    BY <2>1 DEF Gone, At, Worker, WorkerGet, WorkerReturn, WorkerGiveBack, WorkerSkip,
       WorkerLaunch, WorkerStart,
       WorkerFinish, WorkerDies
  <2> QED
    BY <2>2, <2>3 DEF EndInv
<1>4. CASE Sigint \/ UNCHANGED vars
  <2>1. UNCHANGED <<mpc, wpc, closed>>
    BY <1>4 DEF Sigint, vars, workerVars, endVars
  <2> QED
    BY <2>1 DEF EndInv, Gone
<1> QED
  BY <1>1, <1>2, <1>3, <1>4 DEF Next, Terminated

\* A test is given back only by a worker that has seen thread_exit.
LEMMA StopStep == IInv /\ StopInv /\ [Next]_vars => StopInv'
<1> SUFFICES ASSUME IInv, StopInv, [Next]_vars, NEW j \in Jobs', isBreak'[j] PROVE thread_exit'
  BY DEF StopInv
<1>1. CASE DispatchBreak
  <2>1. j \in Jobs /\ isBreak'[j] = isBreak[j] /\ thread_exit' = thread_exit
    BY <1>1, JobFacts DEF DispatchBreak, Jobs, IInv, TypeOK
  <2> QED
    BY <2>1 DEF StopInv
<1>2. CASE Main /\ ~DispatchBreak
  <2>1. UNCHANGED <<plan, isBreak, thread_exit>>
    BY <1>2 DEF Main, DispatchJob, DispatchRaises, DispatchDone, Collect, CollectBreak, CollectSkip,
       CollectRun, CollectRaises, Receive, CollectDone, Join, Close, ReportRaises, Return, jobVars
  <2> QED
    BY <2>1 DEF StopInv, Jobs
<1>3. CASE \E w \in Workers : Worker(w)
  <2>1. PICK w \in Workers : Worker(w)
    BY <1>3
  <2>2. UNCHANGED <<plan, thread_exit>> /\ (isBreak' = isBreak \/ thread_exit)
    BY <2>1 DEF Worker, WorkerGet, WorkerReturn, WorkerGiveBack, WorkerSkip, WorkerLaunch,
       WorkerStart,
       WorkerFinish, WorkerDies, PutBack, jobVars
  <2> QED
    BY <2>2 DEF StopInv, Jobs
<1>4. CASE Sigint \/ UNCHANGED vars
  BY <1>4 DEF Sigint, vars, jobVars, StopInv, Jobs
<1> QED
  BY <1>1, <1>2, <1>3, <1>4 DEF Next, Terminated

\* A job without a status is one given back, or the one whose file was missing.
LEMMA EntryStep == IInv /\ EndInv /\ EntryInv /\ [Next]_vars => EntryInv'
<1> SUFFICES ASSUME IInv, EndInv, EntryInv, [Next]_vars, mpc' # "raised" \/ closed',
                    NEW i \in 1 .. Len(received')
             PROVE  isBreak'[received'[i]] \/ Handled(received[i])'
  BY DEF EntryInv
<1>1. CASE ~Collect
  <2>1. mpc # "raised" \/ closed
    BY <1>1 DEF Next, Main, DispatchJob, DispatchRaises, DispatchBreak, DispatchDone, CollectDone,
       Join,
       Close, ReportRaises, Return, Worker, WorkerGet, WorkerReturn, WorkerGiveBack, WorkerSkip,
       WorkerLaunch, WorkerStart, WorkerFinish, WorkerDies, PutBack, Sigint, Terminated, vars,
       endVars
  <2>2. PICK j : j = received[i]
    OBVIOUS
  <2>3. /\ received' = received /\ plan' = plan /\ isBreak'[j] = isBreak[j]
        /\ outcome'[j] = outcome[j]
    BY <1>1, <2>2, BookFrame
  <2>4. Handled(j)' <=> Handled(j)
    BY <2>3, SameJob
  <2>5. isBreak[j] \/ Handled(j)
    BY <2>1, <2>2, <2>3 DEF EntryInv
  <2>6. received'[i] = j
    BY <2>2, <2>3
  <2> QED
    BY <2>3, <2>4, <2>5, <2>6 DEF Handled, ReadsXml
<1>2. CASE Collect
  <2>1. PICK j \in Jobs : CollectBreak(j) \/ CollectSkip(j) \/ CollectRun(j) \/ CollectRaises(j)
    BY <1>2 DEF Collect
  <2>2. /\ UNCHANGED <<plan, isBreak, outcome>>
        /\ mpc = "collect" /\ Len(received) \in Nat /\ Len(received') = Len(received) + 1
        /\ received'[Len(received) + 1] = j
        /\ \A k \in 1 .. Len(received) : received'[k] = received[k]
    BY <2>1, CollectFrame
  <2>3. isBreak[j] \/ Handled(j)
    <3>1. mpc' # "raised"
      BY <2>1, CollectFrame DEF EndInv
    <3> QED
      BY <2>1, <3>1 DEF CollectBreak, CollectSkip, CollectRun, CollectRaises, Handled, ReadsXml
  <2>4. PICK k : k = received'[i]
    OBVIOUS
  <2>5. isBreak[k] \/ Handled(k)
    <3>1. CASE i = Len(received) + 1
      BY <3>1, <2>2, <2>3, <2>4
    <3>2. CASE i \in 1 .. Len(received)
      BY <3>2, <2>2, <2>4 DEF EntryInv
    <3> QED
      BY <3>1, <3>2, <2>2
  <2> QED
    BY <2>2, <2>4, <2>5 DEF Handled, ReadsXml
<1> QED
  BY <1>1, <1>2
----------------------------------------------------------------------------
(* The list of failed jobs.                                                *)

\* A job is in failed_jobs after job j was looked at if it was before, or if it is
\* j and j failed.
LEMMA FailedAfterFacts ==
  ASSUME TypeOK, NEW j \in Jobs, NEW k
  PROVE  (\E i \in 1 .. Len(FailedAfter(j)) : FailedAfter(j)[i] = k)
           <=> (\E i \in 1 .. Len(failed_jobs) : failed_jobs[i] = k) \/ (k = j /\ Fails(j))
<1> DEFINE In(s) == \E i \in 1 .. Len(s) : s[i] = k
           byCode == IF outcome[j].code = 0 THEN failed_jobs ELSE Append(failed_jobs, j)
           xmlOk == ReadsXml(j) /\ outcome[j].xml \in {"PASS", "SKIP"}
<1>1. ASSUME NEW s \in Seq(Jobs) PROVE In(Append(s, j)) <=> In(s) \/ k = j
  OBVIOUS
<1>2. failed_jobs \in Seq(Jobs) /\ byCode \in Seq(Jobs)
  BY DEF TypeOK
<1>3. In(byCode) <=> In(failed_jobs) \/ (k = j /\ outcome[j].code # 0)
  BY <1>1, <1>2
<1>4. plan[j].kind \in {"suite", "example"}
  BY JobFacts DEF JobType
<1>5. FailedAfter(j) = IF plan[j].kind = "example" \/ xmlOk THEN byCode ELSE Append(byCode, j)
  BY DEF FailedAfter
<1> HIDE DEF byCode
<1>6. CASE plan[j].kind = "example" \/ xmlOk
  BY <1>3, <1>5, <1>6 DEF Fails
<1>7. CASE ~(plan[j].kind = "example" \/ xmlOk)
  BY <1>1, <1>2, <1>3, <1>4, <1>5, <1>7 DEF Fails
<1> QED
  BY <1>6, <1>7

\* failed_jobs stays the list of the received jobs that ran and failed.
LEMMA ListStep == IInv /\ ListInv /\ [Next]_vars => ListInv'
<1> DEFINE Listed(j) == \E k \in 1 .. Len(failed_jobs) : failed_jobs[k] = j
           Rcvd(j) == \E i \in 1 .. Len(received) : received[i] = j
<1> SUFFICES ASSUME IInv, ListInv, [Next]_vars, NEW k \in Jobs'
             PROVE  Listed(k)' <=> Rcvd(k)' /\ ~isBreak'[k] /\ ~plan'[k].skip /\ Fails(k)'
  BY DEF ListInv
<1>1. CASE ~Collect
  <2>1. UNCHANGED <<plan, received, failed_jobs>> /\ k \in Jobs
    BY <1>1, BookFrame DEF Jobs
  <2>2. Listed(k) <=> Rcvd(k) /\ ~isBreak[k] /\ ~plan[k].skip /\ Fails(k)
    BY <2>1 DEF ListInv
  <2>3. Rcvd(k) => isBreak'[k] = isBreak[k] /\ outcome'[k] = outcome[k]
    BY <1>1, BookFrame
  <2>4. Rcvd(k) => (Fails(k)' <=> Fails(k))
    BY <2>1, <2>3, SameJob
  <2> QED
    BY <2>1, <2>2, <2>3, <2>4
<1>2. CASE Collect
  <2>1. PICK j \in Jobs : CollectBreak(j) \/ CollectSkip(j) \/ CollectRun(j) \/ CollectRaises(j)
    BY <1>2 DEF Collect
  <2>2. /\ UNCHANGED <<plan, isBreak, outcome>> /\ k \in Jobs
        /\ Rcvd(k)' <=> Rcvd(k) \/ k = j
        /\ ~Rcvd(j)
    BY <2>1, CollectFrame DEF Jobs
  <2>3. Fails(k)' <=> Fails(k)
    BY <2>2, SameJob
  <2>4. Listed(k) <=> Rcvd(k) /\ ~isBreak[k] /\ ~plan[k].skip /\ Fails(k)
    BY <2>2 DEF ListInv
  <2>5. CASE CollectBreak(j) \/ CollectSkip(j)
    <3>1. failed_jobs' = failed_jobs /\ (isBreak[j] \/ plan[j].skip)
      BY <2>5 DEF CollectBreak, CollectSkip
    <3> QED
      BY <3>1, <2>2, <2>3, <2>4
  <2>6. CASE CollectRun(j) \/ CollectRaises(j)
    <3>1. failed_jobs' = FailedAfter(j) /\ ~isBreak[j] /\ ~plan[j].skip
      BY <2>6 DEF CollectRun, CollectRaises, ReadsXml
    <3>2. Listed(k)' <=> Listed(k) \/ (k = j /\ Fails(j))
      <4>1. TypeOK
        BY DEF IInv
      <4>2. (\E i \in 1 .. Len(FailedAfter(j)) : FailedAfter(j)[i] = k)
              <=> Listed(k) \/ (k = j /\ Fails(j))
        BY <4>1, FailedAfterFacts
      <4>3. Listed(k)' <=> \E i \in 1 .. Len(FailedAfter(j)) : FailedAfter(j)[i] = k
        BY <3>1
      <4> QED
        BY <4>2, <4>3
    <3> QED
      BY <3>1, <3>2, <2>2, <2>3, <2>4
  <2> QED
    BY <2>1, <2>5, <2>6
<1> QED
  BY <1>1, <1>2
----------------------------------------------------------------------------
(* The entries of the results file.                                        *)

\* The received jobs that are kept are a finite set of places.
LEMMA KeptFinite ==
  ASSUME TypeOK
  PROVE  /\ Kept \subseteq 1 .. Len(received) /\ Len(received) \in Nat
         /\ IsFiniteSet(Kept) /\ Cardinality(Kept) \in Nat
<1>1. Kept \subseteq 1 .. Len(received) /\ Len(received) \in Nat
  BY ReceivedAreJobs DEF Kept
<1> QED
  BY <1>1, IntervalSize, FS_Subset, FS_CardinalityType

\* The rank of a kept job among those kept is the place of an entry.
LEMMA RankInRange ==
  ASSUME TypeOK, NEW i \in Kept
  PROVE  Cardinality({k \in Kept : k <= i}) \in 1 .. Cardinality(Kept)
<1> DEFINE upTo == {k \in Kept : k <= i}
<1>1. /\ IsFiniteSet(upTo) /\ Cardinality(upTo) \in Nat /\ Cardinality(upTo) <= Cardinality(Kept)
      /\ Cardinality(Kept) \in Nat
  BY KeptFinite, FS_Subset, FS_CardinalityType
<1>2. i \in upTo
  BY KeptFinite
<1>3. Cardinality(upTo) # 0
  BY <1>1, <1>2, FS_EmptySet
<1> QED
  BY <1>1, <1>3

\* A step that collects nothing leaves the entries and the jobs kept as they are.
LEMMA ResultsFrame ==
  ASSUME IInv, ResultsMatch, [Next]_vars, ~Collect
  PROVE  ResultsMatch'
<1>1. /\ UNCHANGED <<plan, received, results>> /\ DOMAIN received = 1 .. Len(received)
  BY BookFrame, ReceivedAreJobs DEF IInv
<1>2. ASSUME NEW i \in 1 .. Len(received)
      PROVE  /\ HasEntry(received[i])' <=> HasEntry(received[i])
             /\ Recorded(received[i])' = Recorded(received[i])
  <2>1. PICK j : j = received[i]
    OBVIOUS
  <2>2. HasEntry(j)' <=> HasEntry(j)
    BY <1>1, <2>1, BookFrame, SameJob
  <2>3. Recorded(j)' = Recorded(j)
    BY <1>1, <2>1, BookFrame, SameJob
  <2>4. received'[i] = j
    BY <1>1, <2>1
  <2> QED
    BY <2>1, <2>2, <2>3, <2>4 DEF HasEntry, Handled, WritesNothing, Recorded, ReadsXml, Status,
       StatusOf
<1>3. Kept' = Kept /\ Kept \subseteq 1 .. Len(received)
  BY <1>1, <1>2 DEF Kept
<1> QED
  BY <1>1, <1>2, <1>3 DEF ResultsMatch
\* Collecting a job appends its entry, if it has one, behind those of the jobs
\* received before it.
LEMMA ResultsCollect ==
  ASSUME IInv, ResultsMatch, Collect
  PROVE  ResultsMatch'
<1> DEFINE n == Len(received)
<1>1. PICK j \in Jobs : CollectBreak(j) \/ CollectSkip(j) \/ CollectRun(j) \/ CollectRaises(j)
  BY DEF Collect
<1>2. /\ UNCHANGED <<plan, isBreak, outcome>> /\ n \in Nat /\ Len(received') = n + 1
      /\ received'[n + 1] = j /\ \A i \in 1 .. n : received'[i] = received[i]
  BY <1>1, CollectFrame
<1>3. /\ DOMAIN received = 1 .. n /\ DOMAIN received' = 1 .. n + 1
      /\ results \in Seq([name : Jobs, result : Statuses \cup XmlStates])
  <2>1. TypeOK /\ TypeOK'
    BY CollectStep DEF IInv
  <2> QED
    BY <2>1, <1>2, LenProperties DEF TypeOK
<1>4. \A k : (HasEntry(k)' <=> HasEntry(k)) /\ Recorded(k)' = Recorded(k)
  BY <1>2 DEF HasEntry, Handled, WritesNothing, Recorded, ReadsXml, Status, StatusOf
<1>5. /\ Kept \subseteq 1 .. n /\ IsFiniteSet(Kept) /\ Cardinality(Kept) \in Nat
  BY KeptFinite DEF IInv
<1>6. Len(results) = Cardinality(Kept)
  BY DEF ResultsMatch
<1>7. CASE HasEntry(j)
  <2>1. Kept' = Kept \cup {n + 1}
    BY <1>2, <1>3, <1>4, <1>7 DEF Kept
  <2>2. Cardinality(Kept') = Cardinality(Kept) + 1
    <3>1. n + 1 \notin Kept
      BY <1>2, <1>5
    <3> QED
      BY <2>1, <3>1, <1>5, FS_AddElement
  <2>3. results' = Append(results, [name |-> j, result |-> Recorded(j)])
    BY <1>1, <1>7 DEF CollectBreak, CollectSkip, CollectRun, CollectRaises, Record, HasEntry,
       Handled
  <2>4. /\ Len(results') = Len(results) + 1 /\ Len(results) \in Nat
        /\ \A r \in 1 .. Len(results) : results'[r] = results[r]
        /\ results'[Len(results) + 1] = [name |-> j, result |-> Recorded(j)]
    BY <2>3, <1>3
  <2>5. ASSUME NEW i \in Kept'
        PROVE  results'[Cardinality({k \in Kept' : k <= i})]
                 = [name |-> received'[i], result |-> Recorded(received[i])']
    <3>1. CASE i = n + 1
      <4>1. ASSUME NEW k \in Kept' PROVE k <= i
        <5>1. CASE k \in Kept
          <6>1. k \in 1 .. n
            BY <5>1, <1>5
          <6> QED
            BY <6>1, <3>1, <1>2
        <5>2. CASE k = n + 1
          BY <5>2, <3>1, <1>2
        <5> QED
          BY <5>1, <5>2, <2>1
      <4>2. {k \in Kept' : k <= i} = Kept'
        BY <4>1
      <4> QED
        BY <4>2, <3>1, <2>2, <2>4, <1>2, <1>4, <1>6
    <3>2. CASE i \in Kept
      <4>1. {k \in Kept' : k <= i} = {k \in Kept : k <= i}
        BY <2>1, <3>2, <1>2, <1>5
      <4>2. Cardinality({k \in Kept : k <= i}) \in 1 .. Cardinality(Kept)
        BY <3>2, RankInRange DEF IInv
      <4>3. received'[i] = received[i]
        BY <3>2, <1>2, <1>5
      <4> QED
        BY <4>1, <4>2, <4>3, <3>2, <2>4, <1>4, <1>6 DEF ResultsMatch
    <3> QED
      BY <2>1, <3>1, <3>2
  <2> QED
    BY <2>2, <2>4, <2>5, <1>6 DEF ResultsMatch
<1>8. CASE ~HasEntry(j)
  <2>1. Kept' = Kept
    BY <1>2, <1>3, <1>4, <1>8 DEF Kept
  <2>2. results' = results
    BY <1>1, <1>8 DEF CollectBreak, CollectSkip, CollectRun, CollectRaises, Record, HasEntry,
       Handled,
       WritesNothing, ReadsXml
  <2>3. \A i \in Kept : received'[i] = received[i]
    BY <1>2, <1>5
  <2> QED
    BY <2>1, <2>2, <2>3, <1>4 DEF ResultsMatch
<1> QED
  BY <1>7, <1>8
----------------------------------------------------------------------------
(* The invariant.                                                          *)

\* In the initial states.
LEMMA InitBookInv == Init => BookInv
<1> SUFFICES ASSUME Init PROVE BookInv
  OBVIOUS
<1>1. IInv
  BY InitIInv
<1>2. LeaveInv
  <2>1. Leavers = {}
    BY DEF Init, Leavers, Ids
  <2>2. Taken = 0
    <3>1. next = 1 /\ Len(inq) = 0
      BY DEF Init
    <3> QED
      BY <3>1 DEF Taken
  <2>3. Len(plan) \in Nat
    BY <1>1, JobFacts DEF IInv
  <2> QED
    BY <2>1, <2>2, <2>3, FS_EmptySet DEF LeaveInv
<1>3. EndInv /\ ListInv /\ StopInv /\ EntryInv
  BY JobFacts, <1>1 DEF Init, EndInv, ListInv, StopInv, EntryInv, IInv
<1>4. ResultsMatch
  <2>1. Kept = {}
    BY DEF Init, Kept
  <2> QED
    BY <2>1, FS_EmptySet DEF Init, ResultsMatch
<1> QED
  BY <1>1, <1>2, <1>3, <1>4 DEF BookInv

\* In every step.
LEMMA NextBookInv == BookInv /\ [Next]_vars => BookInv'
BY NextIInv, LeaveStep, EndStep, ListStep, StopStep, EntryStep, ResultsFrame, ResultsCollect
   DEF BookInv

\* The books of a run agree with what happened, in every reachable state.
THEOREM BookInvInvariant == Spec => []BookInv
BY InitBookInv, NextBookInv, PTL DEF Spec

\* The results file has one piece per job that came back and left something to
\* write, in the order of arrival, each with what that job left: nothing for a job
\* given back or with an empty XML file, a fragment for a torn one.
THEOREM ResultsComplete == Spec => []ResultsMatch
<1>1. BookInv => ResultsMatch
  BY DEF BookInv
<1> QED
  BY BookInvInvariant, <1>1, PTL
\* When the file is closed nothing is in flight: no worker died, because it would
\* still hold a test, and all the break jobs were taken.
THEOREM NothingInFlight == Spec => []ClosedLast
<1>1. BookInv => ClosedLast
  <2> SUFFICES ASSUME BookInv, closed
               PROVE  /\ \A w \in Workers : wpc[w] = "returned"
                      /\ inq = <<>> /\ outq = <<>>
    BY DEF ClosedLast
  <2>1. IInv /\ LeaveInv /\ \A w \in Workers : Gone(w)
    BY DEF BookInv, EndInv
  <2> DEFINE n == Len(plan)
  <2>2. /\ Len(received) = n /\ n \in Nat /\ Jobs = 1 .. n
        /\ \A j \in Jobs : \E i \in 1 .. n : received[i] = j
    BY <2>1, AllReceived
  <2>3. \A w \in Workers : wpc[w] = "returned"
    <3>1. ASSUME NEW w \in Workers, wpc[w] = "died" PROVE FALSE
      <4>1. wjob[w] \in Jobs
        BY <2>1, <3>1 DEF IInv, HandInv
      <4>2. PICK i \in 1 .. n : received[i] = wjob[w]
        BY <2>2, <4>1
      <4> QED
        BY <2>1, <2>2, <4>2 DEF IInv, OutInv
    <3> QED
      BY <2>1, <3>1 DEF Gone
  <2>4. Taken \in Int /\ Len(inq) \in Nat /\ Taken = LastId - Len(inq) /\ Taken >= n
    <3>1. next = LastId + 1 /\ LastId \in Nat /\ LastId >= n /\ Len(inq) \in Nat /\ Len(inq) < next
      BY <2>1, JobFacts DEF IInv, PhaseInv, FifoInv
    <3>2. n \in Jobs => n <= Taken
      BY <2>1, <2>2 DEF IInv, OutInv
    <3>3. Taken = LastId - Len(inq) /\ Taken \in Nat
      BY <3>1 DEF Taken
    <3> QED
      BY <2>2, <3>1, <3>2, <3>3
  <2>5. inq = <<>>
    <3>1. Leavers = Workers
      BY <2>3 DEF Leavers
    <3>2. Taken = n + Cardinality(Workers)
      BY <2>1, <2>2, <2>4, <3>1, WorkerCount DEF LeaveInv
    <3>3. Len(inq) = 0
      BY <2>2, <2>4, <3>2, WorkerCount DEF LastId
    <3> QED
      BY <3>3, <2>1, EmptySeq DEF IInv, TypeOK
  <2>6. outq = <<>>
    <3>1. \A i \in 1 .. Len(outq) : outq[i] \in Jobs
      BY <2>1, ElementOfSeq DEF IInv, TypeOK
    <3>2. ASSUME NEW i \in 1 .. Len(outq) PROVE FALSE
      <4>1. PICK k \in 1 .. n : received[k] = outq[i]
        BY <2>2, <3>1
      <4> QED
        BY <2>1, <2>2, <4>1 DEF IInv, OutInv
    <3>3. Len(outq) = 0
      BY <2>1, <3>2, JobFacts DEF IInv
    <3> QED
      BY <3>3, <2>1, EmptySeq DEF IInv, TypeOK
  <2> QED
    BY <2>3, <2>5, <2>6
<1> QED
  BY BookInvInvariant, <1>1, PTL

\* --verbose-failed reports all the failures, and only failures.
THEOREM FailuresReported == Spec => []FailedJobsComplete
<1>1. BookInv => FailedJobsComplete
  <2> DEFINE Listed(j) == \E k \in 1 .. Len(failed_jobs) : failed_jobs[k] = j
  <2> SUFFICES ASSUME BookInv, NEW i \in 1 .. Len(received), NEW j \in Jobs, j = received[i],
                      ~isBreak[j]
               PROVE  /\ Status(j) \in {"FAIL", "CRASH", "VALGR"} => Listed(j)
                      /\ Status(j) \in {"PASS", "SKIP"} /\ Recorded(j) \in {"PASS", "SKIP"} => ~Listed(j)
    <3>1. DOMAIN received = 1 .. Len(received) /\ DOMAIN failed_jobs = 1 .. Len(failed_jobs)
      BY LenProperties DEF BookInv, IInv, TypeOK
    <3> QED
      BY <3>1, ReceivedAreJobs DEF FailedJobsComplete, BookInv, IInv
  <2>1. Listed(j) <=> ~plan[j].skip /\ Fails(j)
    BY DEF BookInv, ListInv
  <2>2. plan[j].kind \in {"suite", "example"}
    BY JobFacts DEF BookInv, IInv, JobType
  <2> QED
    BY <2>1, <2>2 DEF Fails, Status, StatusOf, Recorded, ReadsXml
<1> QED
  BY BookInvInvariant, <1>1, PTL
----------------------------------------------------------------------------
(* The refinement: threads and queues keep the promise of TestRun.         *)

\* The variables of TestRun, as TestRunner computes them.
verdictBar == [j \in Jobs |-> Verdict(j)]
phaseBar   == CASE mpc = "returned" -> "ended"
                [] mpc = "raised"   -> "aborted"
                [] mpc = "report"   -> "closed"
                [] OTHER            -> "open"

\* A step that collects nothing decides nothing.
LEMMA VerdictFrame ==
  ASSUME IInv, [Next]_vars, ~Collect
  PROVE  verdictBar' = verdictBar
<1>1. UNCHANGED <<plan, received>> /\ DOMAIN received = 1 .. Len(received)
  BY BookFrame, ReceivedAreJobs DEF IInv
<1>2. ASSUME NEW j \in Jobs, NEW i \in 1 .. Len(received), received[i] = j
      PROVE  Verdict(j)' = Verdict(j)
  <2>1. isBreak'[j] = isBreak[j] /\ outcome'[j] = outcome[j]
    BY <1>2, BookFrame
  <2> QED
    BY <1>1, <2>1, SameJob DEF Verdict
<1>3. ASSUME NEW j \in Jobs, ~\E i \in 1 .. Len(received) : received[i] = j
      PROVE  Verdict(j)' = Verdict(j)
  BY <1>1, <1>3 DEF Verdict
<1>4. Jobs' = Jobs
  BY <1>1 DEF Jobs
<1> QED
  BY <1>2, <1>3, <1>4 DEF verdictBar

\* Collecting job j decides j alone, from "pending" to what its state says.
LEMMA VerdictCollect ==
  ASSUME IInv, NEW j \in Jobs,
         CollectBreak(j) \/ CollectSkip(j) \/ CollectRun(j) \/ CollectRaises(j)
  PROVE  /\ Verdict(j) = "pending"
         /\ verdictBar' = [verdictBar EXCEPT ![j] = IF isBreak[j] THEN "dropped"
                                                   ELSE IF Handled(j) THEN Status(j)
                                                   ELSE "pending"]
<1>1. /\ UNCHANGED <<plan, isBreak, outcome>> /\ Len(received) \in Nat
      /\ Len(received') = Len(received) + 1 /\ received'[Len(received) + 1] = j
      /\ \A i \in 1 .. Len(received) : received'[i] = received[i] /\ received[i] # j
  BY CollectFrame
<1>2. DOMAIN received = 1 .. Len(received) /\ DOMAIN received' = 1 .. Len(received) + 1
  <2>1. TypeOK /\ TypeOK'
    BY CollectStep DEF Collect, IInv
  <2> QED
    BY <2>1, <1>1, LenProperties DEF TypeOK
<1>3. \A k : (Handled(k)' <=> Handled(k)) /\ Status(k)' = Status(k)
  BY <1>1 DEF Handled, ReadsXml, Status, StatusOf
<1>4. Verdict(j) = "pending"
  BY <1>1, <1>2 DEF Verdict
<1>5. \A k \in Jobs : Verdict(k)' = IF k # j THEN Verdict(k)
                                    ELSE IF isBreak[j] THEN "dropped"
                                    ELSE IF Handled(j) THEN Status(j) ELSE "pending"
  BY <1>1, <1>2, <1>3 DEF Verdict
<1>6. Jobs' = Jobs
  BY <1>1 DEF Jobs
<1> QED
  BY <1>4, <1>5, <1>6 DEF verdictBar

\* Past the collecting loop nothing is pending, and a test is good exactly when its
\* verdict is.
LEMMA VerdictsGiven ==
  ASSUME IInv, EntryInv, mpc \in {"join", "close", "report", "returned"} \/ closed, NEW j \in Jobs
  PROVE  /\ Verdict(j) # "pending"
         /\ Verdict(j) \in {"PASS", "SKIP"} <=> ~isBreak[j] /\ Status(j) \in {"PASS", "SKIP"}
<1>1. PICK i \in 1 .. Len(received) : received[i] = j
  BY AllReceived
<1>2. isBreak[j] \/ Handled(j)
  BY <1>1 DEF EntryInv
<1>3. DOMAIN received = 1 .. Len(received)
  BY ReceivedAreJobs DEF IInv
<1>4. Status(j) \in Statuses
  BY DEF Status, StatusOf, Statuses
<1> QED
  BY <1>1, <1>2, <1>3, <1>4 DEF Verdict, Statuses

\* The initial states are initial states of TestRun.
LEMMA InitRefines == Init => Abstract!Init
<1> SUFFICES ASSUME Init PROVE Abstract!Init
  OBVIOUS
<1>1. Len(plan) \in Nat
  BY PlansAssumption DEF Init
<1>2. \A j \in Jobs : Verdict(j) = "pending"
  BY DEF Init, Verdict
<1>3. verdictBar \in Seq({"pending"})
  BY <1>1, <1>2 DEF verdictBar, Jobs
<1>4. phaseBar = "open"
  BY DEF Init, phaseBar
<1> QED
  BY <1>3, <1>4 DEF Init, Abstract!Init, verdictBar, phaseBar

\* Collecting a job decides it, or aborts.
LEMMA CollectRefines ==
  ASSUME BookInv, NEW j \in Jobs,
         CollectBreak(j) \/ CollectSkip(j) \/ CollectRun(j) \/ CollectRaises(j)
  PROVE  Abstract!Decide(j) \/ Abstract!Abort
<1>1. /\ UNCHANGED <<thread_exit, closed>> /\ mpc = "collect" /\ phaseBar = "open"
  BY CollectFrame DEF BookInv, EndInv, phaseBar
<1>2. /\ Verdict(j) = "pending" /\ DOMAIN verdictBar = Jobs /\ verdictBar[j] = "pending"
      /\ verdictBar' = [verdictBar EXCEPT ![j] = IF isBreak[j] THEN "dropped"
                                                ELSE IF Handled(j) THEN Status(j)
                                                ELSE "pending"]
  BY VerdictCollect DEF BookInv, verdictBar
<1>3. CASE CollectRaises(j)
  <2>1. ~Handled(j) /\ ~isBreak[j] /\ mpc' = "raised" /\ exitCode' = 1
    BY <1>3 DEF CollectRaises, Handled
  <2>2. verdictBar' = verdictBar
    <3>1. [verdictBar EXCEPT ![j] = "pending"] = verdictBar
      BY <1>2 DEF verdictBar
    <3> QED
      BY <2>1, <3>1, <1>2
  <2>3. phaseBar' = "aborted"
    BY <2>1, <1>1 DEF phaseBar
  <2> QED
    BY <2>1, <2>2, <2>3, <1>1 DEF Abstract!Abort, verdictBar, phaseBar
<1>4. CASE CollectBreak(j) \/ CollectSkip(j) \/ CollectRun(j)
  <2> DEFINE v == IF isBreak[j] THEN "dropped" ELSE Status(j)
  <2>1. (isBreak[j] \/ Handled(j)) /\ UNCHANGED <<mpc, exitCode>>
    BY <1>4 DEF CollectBreak, CollectSkip, CollectRun, Handled, ReadsXml
  <2>2. verdictBar' = [verdictBar EXCEPT ![j] = v]
    BY <2>1, <1>2
  <2>3. v \in Abstract!Verdicts /\ (v = "dropped" => thread_exit)
    BY DEF Abstract!Verdicts, Abstract!Good, Status, StatusOf, BookInv, StopInv
  <2>4. phaseBar' = phaseBar
    BY <2>1, <1>1 DEF phaseBar
  <2> QED
    BY <2>1, <2>2, <2>3, <2>4, <1>1, <1>2 DEF Abstract!Decide, verdictBar, phaseBar
<1> QED
  BY <1>3, <1>4

\* Closing the results file closes the run, with no verdict pending.
LEMMA CloseRefines ==
  ASSUME BookInv, Close
  PROVE  Abstract!Close
<1>1. /\ mpc = "close" /\ mpc' = "report" /\ UNCHANGED <<thread_exit, exitCode>>
  BY DEF Close
<1>2. phaseBar = "open" /\ phaseBar' = "closed"
  BY <1>1 DEF phaseBar
<1>3. verdictBar' = verdictBar
  <2>1. ~Collect
    BY <1>1 DEF Collect, CollectBreak, CollectSkip, CollectRun, CollectRaises, Receive
  <2> QED
    BY <2>1, VerdictFrame DEF BookInv, Next, Main
<1>4. \A j \in Jobs : verdictBar[j] # "pending"
  BY <1>1, VerdictsGiven DEF BookInv, verdictBar
<1>5. DOMAIN verdictBar = Jobs
  BY DEF verdictBar
<1> QED
  BY <1>1, <1>2, <1>3, <1>4, <1>5 DEF Abstract!Close, verdictBar, phaseBar

\* Returning ends the run, with the exit code its verdicts call for.
LEMMA ReturnRefines ==
  ASSUME BookInv, Return
  PROVE  Abstract!End
<1>1. /\ mpc = "report" /\ mpc' = "returned" /\ UNCHANGED thread_exit
      /\ exitCode' = IF count["PASS"] + count["SKIP"] = Len(plan) THEN 0 ELSE 1
  BY DEF Return
<1>2. phaseBar = "closed" /\ phaseBar' = "ended"
  BY <1>1 DEF phaseBar
<1>3. verdictBar' = verdictBar
  <2>1. ~Collect
    BY <1>1 DEF Collect, CollectBreak, CollectSkip, CollectRun, CollectRaises, Receive
  <2> QED
    BY <2>1, VerdictFrame DEF BookInv, Next, Main
<1>4. count["PASS"] + count["SKIP"] = Len(plan)
        <=> \A j \in Jobs : verdictBar[j] \in {"PASS", "SKIP"}
  BY <1>1, VerdictsGiven, TallyComplete DEF BookInv, verdictBar
<1>5. DOMAIN verdictBar = Jobs
  BY DEF verdictBar
<1> QED
  BY <1>1, <1>2, <1>3, <1>4, <1>5 DEF Abstract!End, Abstract!Good, verdictBar, phaseBar

\* Every step of the runner is a step of TestRun or leaves its variables alone.
LEMMA NextRefines == BookInv /\ [Next]_vars => [Abstract!Next]_(Abstract!vars)
<1> SUFFICES ASSUME BookInv, [Next]_vars
             PROVE  Abstract!Next \/ UNCHANGED Abstract!vars
  OBVIOUS
<1>1. CASE Collect
  <2>1. PICK j \in Jobs : CollectBreak(j) \/ CollectSkip(j) \/ CollectRun(j) \/ CollectRaises(j)
    BY <1>1 DEF Collect
  <2>2. j \in DOMAIN verdictBar
    BY DEF verdictBar
  <2> QED
    BY <2>1, <2>2, CollectRefines DEF Abstract!Next, verdictBar
<1>2. CASE Close \/ Return
  BY <1>2, CloseRefines, ReturnRefines DEF Abstract!Next
<1>3. CASE ~Collect /\ ~Close /\ ~Return
  <2>1. verdictBar' = verdictBar
    BY <1>3, VerdictFrame DEF BookInv
  <2>2. CASE DispatchRaises \/ ReportRaises
    <3>1. /\ mpc \in {"dispatch", "report"} /\ mpc' = "raised" /\ exitCode' = 1
          /\ UNCHANGED thread_exit
      BY <2>2 DEF DispatchRaises, ReportRaises
    <3>2. phaseBar \in {"open", "closed"} /\ phaseBar' = "aborted"
      BY <3>1 DEF phaseBar
    <3> QED
      BY <2>1, <3>1, <3>2 DEF Abstract!Next, Abstract!Abort, verdictBar, phaseBar
  <2>3. CASE Sigint
    <3>1. thread_exit' = TRUE /\ UNCHANGED <<mpc, closed, exitCode>>
      BY <2>3 DEF Sigint, endVars
    <3>2. phaseBar' = phaseBar
      BY <3>1 DEF phaseBar
    <3> QED
      BY <2>1, <3>1, <3>2 DEF Abstract!Next, Abstract!Interrupt, verdictBar, phaseBar
  <2>4. CASE ~DispatchRaises /\ ~ReportRaises /\ ~Sigint
    <3>1. /\ UNCHANGED <<thread_exit, exitCode>>
          /\ mpc' = mpc \/ mpc \notin {"report", "returned", "raised"}
          /\ mpc' = mpc \/ mpc' \notin {"report", "returned", "raised"}
      BY <1>3, <2>4 DEF Next, Main, DispatchJob, DispatchBreak, DispatchDone, CollectDone, Join,
         Worker, WorkerGet, WorkerReturn, WorkerGiveBack, WorkerSkip, WorkerLaunch, WorkerStart,
         WorkerFinish,
         WorkerDies, PutBack, Terminated, vars, endVars
    <3>2. phaseBar' = phaseBar
      BY <3>1 DEF phaseBar
    <3> QED
      BY <2>1, <3>1, <3>2 DEF Abstract!vars, verdictBar, phaseBar
  <2> QED
    BY <2>2, <2>3, <2>4
<1> QED
  BY <1>1, <1>2, <1>3

\* The runner implements TestRun.
THEOREM RunImplementsTestRun == Spec => ImplementsTestRun
<1>1. BookInv /\ [Next]_vars => [Abstract!Next]_(Abstract!vars)
  BY NextRefines
<1> QED
  BY InitRefines, <1>1, BookInvInvariant, PTL DEF Spec, ImplementsTestRun, Abstract!Spec
=============================================================================
