SPECIFICATION Spec
CONSTANTS
  Programs <- SoundBodies
  Nodes <- SoundNodes
  Simple <- SimpleNodes
  MaxCalls = 4
INVARIANTS
  OneTerminator
  PhiMatchesPredecessors
  EveryPathReturns
PROPERTIES
  ImplementsTree
CHECK_DEADLOCK FALSE
