------------------------------- MODULE TestRun -------------------------------
(***************************************************************************)
(* What a run of test.py promises, without threads or queues: every        *)
(* selected test gets at most one verdict and keeps it; the results file   *)
(* is closed only once no test is pending; a run that ends has exit code 0 *)
(* exactly when every test passed or was skipped; a test is dropped only   *)
(* after SIGINT. A run may instead abort, with exit code 1, before or      *)
(* after the file was closed.                                              *)
(***************************************************************************)
EXTENDS Integers, Sequences

VARIABLES
  verdict,   \* the verdict of each selected test, in dispatch order
  stopping,  \* whether SIGINT was received
  phase,     \* "open", "closed" (results file complete), "ended" or "aborted"
  exitCode   \* -1 until the run has ended or aborted

vars == <<verdict, stopping, phase, exitCode>>

Good     == {"PASS", "SKIP"}
Verdicts == Good \cup {"FAIL", "VALGR", "CRASH", "dropped"}

Init ==
  /\ verdict \in Seq({"pending"})
  /\ stopping = FALSE
  /\ phase = "open"
  /\ exitCode = -1

Interrupt ==
  /\ stopping' = TRUE
  /\ UNCHANGED <<verdict, phase, exitCode>>

Decide(j) ==
  /\ phase = "open" /\ verdict[j] = "pending"
  /\ \E v \in Verdicts :
       /\ v = "dropped" => stopping
       /\ verdict' = [verdict EXCEPT ![j] = v]
  /\ UNCHANGED <<stopping, phase, exitCode>>

Close ==
  /\ phase = "open"
  /\ \A j \in DOMAIN verdict : verdict[j] # "pending"
  /\ phase' = "closed"
  /\ UNCHANGED <<verdict, stopping, exitCode>>

End ==
  /\ phase = "closed"
  /\ phase' = "ended"
  /\ exitCode' = IF \A j \in DOMAIN verdict : verdict[j] \in Good THEN 0 ELSE 1
  /\ UNCHANGED <<verdict, stopping>>

Abort ==
  /\ phase \in {"open", "closed"}
  /\ phase' = "aborted" /\ exitCode' = 1
  /\ UNCHANGED <<verdict, stopping>>

Next == Interrupt \/ Close \/ End \/ Abort \/ \E j \in DOMAIN verdict : Decide(j)

Spec == Init /\ [][Next]_vars
=============================================================================
