\* Two files, up to two processes, one file named twice; check and fix mode.
SPECIFICATION Spec
CONSTANTS
  Tree <- MCTree
  Texts <- MCTexts
  Options <- MCOptions
  BufferLines = 2
INVARIANTS
  StyleInv
  TextKept
  GuardsRespected
  VerdictExact
