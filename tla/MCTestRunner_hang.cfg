\* A worker may be killed by an exception of run_job_synchronously.
SPECIFICATION FairSpec
CONSTANTS
  Workers = {w1, w2}
  Plans <- MCLivePlans
  SuiteOutcomes <- MCSuiteOutcomes
  ExampleCodes <- MCExampleCodes
  Faults = {"launch"}
\* Deadlock is the point: the main thread waits for ever.
CHECK_DEADLOCK FALSE
PROPERTY EveryRunEnds
