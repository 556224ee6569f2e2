\* The deployment of the program, and any two packets of its sources, if it
\* has a duration.
SPECIFICATION Spec
CONSTANTS
  N_EQUIPMENTS = 32
  Counts <- MCHome
  Options <- MCOptions
  Spans = {300}
  MaxSent = 2
\* The program ends after the metrics.
CHECK_DEADLOCK FALSE
INVARIANTS
  HomeInv
  SourcesReachSinks
  DeployedAsPlanned
  CountedOnce
  ReceiversAgreeWithFlows
  LossInRange
  ThroughputsOrdered
  BarsNameApplications
