\* One worker, one suite that may end before it wrote its XML.
SPECIFICATION Spec
CONSTANTS
  Workers = {w1}
  Plans <- MCLivePlans
  SuiteOutcomes <- MCSuiteOutcomes
  ExampleCodes <- MCExampleCodes
  Faults = {}
INVARIANT MissingXmlHandled
