\* Three workers, up to three jobs, every fault.
SPECIFICATION FairSpec
CONSTANTS
  Workers = {w1, w2, w3}
  Plans <- MCPlans
  SuiteOutcomes <- MCSuiteOutcomes
  ExampleCodes <- MCExampleCodes
  Faults = {"launch", "dispatch", "report"}
\* A worker killed by an exception leaves the main thread waiting for ever;
\* that this is the only reason to wait is Termination.
CHECK_DEADLOCK FALSE
INVARIANTS
  TypeOK
  JobConservation
  NoJobStranded
  
  ExitCodeSound
  ClosedLast
  FailedJobsComplete
  BookInv
PROPERTIES
  InterruptBoundsLaunches
  Termination
  ImplementsTestRun
