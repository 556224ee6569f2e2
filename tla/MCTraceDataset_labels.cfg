\* One trace file with packets of the two ports the mappings disagree on.
SPECIFICATION Spec
CONSTANTS
  Files = {client}
  Packets <- MCLabelled
  MaxLength = 1
  MaxRuns = 1
CHECK_DEADLOCK FALSE
INVARIANT LabelsNameApplications
