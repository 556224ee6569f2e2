\* Two runs over one tree, every fault.
SPECIFICATION Spec
CONSTANTS
  Procs = {"p1", "p2"}
  Names <- MCNames
  CommandLines <- MCCommandLines
  Trees <- MCTrees
  InvalidParts = {"*", "."}
  Faults = {"mkdir", "open", "write", "rmtree", "kill"}
\* The runs end.
CHECK_DEADLOCK FALSE
INVARIANTS
  MakeInv
  UserFilesKept
  AllOrNothing
PROPERTIES
  ImplementsModuleStore
