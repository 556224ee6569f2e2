---------------------------- MODULE MCTestRunner ----------------------------
(* Small instances of TestRunner for TLC. *)
EXTENDS TestRunner

Job(k, s) == [kind |-> k, skip |-> s]
Suite    == Job("suite", FALSE)
Example  == Job("example", FALSE)
Skipped  == Job("suite", TRUE)
SkippedX == Job("example", TRUE)

Outcome(c, x) == [code |-> c, xml |-> x]

\* A suite that passes, one that fails, a valgrind error after a pass, a crash,
\* a sanitizer error after the XML was written, before the file was there, before
\* its first line and amid it.
MCSuiteOutcomes ==
  {Outcome(0, "PASS"), Outcome(1, "FAIL"), Outcome(2, "PASS"), Outcome(139, "absent"),
   Outcome(1, "PASS"), Outcome(1, "absent"), Outcome(0, "empty"), Outcome(2, "torn")}
MCExampleCodes == {0, 1, 2, 139}

\* More jobs than workers, every kind of job, and the empty list.
MCPlans ==
  {<<>>, <<Suite, Suite>>, <<Suite, Example, Skipped>>, <<Suite, SkippedX, Example>>}

\* For the counterexamples short lists suffice.
MCLivePlans == {<<>>, <<Suite>>, <<Suite, Example>>, <<Skipped, Suite>>}
=============================================================================
