\* Overlapping runs, some of them begun within the same second.
SPECIFICATION Spec
CONSTANTS
  Procs = {p1, p2}
  Tests = {suite}
  Suites = {suite}
  PyTests = {}
  MaxClock = 2
  SameSecond = TRUE
SYMMETRY MCSymmetry
\* The clock is bounded: after the last second no run may begin.
CHECK_DEADLOCK FALSE
PROPERTIES
  CompleteFilesKept
