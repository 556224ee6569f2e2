\* Three runs in a row of a suite and a Python example.
SPECIFICATION Spec
CONSTANTS
  Procs = {p1}
  Tests = {suite, py}
  Suites = {suite}
  PyTests = {py}
  MaxClock = 3
  SameSecond = FALSE
\* The clock is bounded: after the last second no run may begin.
CHECK_DEADLOCK FALSE
INVARIANTS
  SoloInv
  RerunHidesNoFailure
  GreenIsEarned
  GreenLeavesFile
