\* Every way to name what to run, every reason to skip, up to three processors.
SPECIFICATION Spec
CONSTANTS
  Words <- MCWords
  Cases <- MCCases
  Reconfigured <- MCReconfigured
  Suites <- MCSuites
  KindOf <- MCKindOf
  Matching <- MCMatching
  ExampleFiles <- MCExampleFiles
  Built = {"udp", "brite", "tcp"}
  Present = {"a.py", "b.py"}
  Processors = 2
  core_valgrind_skip_tests = {"click"}
  Inside <- MCInside
  Files <- MCFiles
  RcFiles <- MCRcFiles
\* A run ends, and a negative --jobs leaves jobs without a worker.
CHECK_DEADLOCK FALSE
INVARIANTS
  SelectionInv
  PerformanceOnRequest
  SelectionAsDocumented
  JobsAreRunnable
  NobodyWaits
  ReadersAgree
