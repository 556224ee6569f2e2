\* A suite fails by its return code although its own XML says PASS; then --rerun-failed.
SPECIFICATION Spec
CONSTANTS
  Procs = {p1}
  Tests = {suite}
  Suites = {suite}
  PyTests = {}
  MaxClock = 2
  SameSecond = FALSE
CHECK_DEADLOCK FALSE
INVARIANT RerunRepeatsFailures
