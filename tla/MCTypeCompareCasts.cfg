SPECIFICATION Spec
CONSTANTS
  Graphs <- MCGraphs
  MaxCalls = 2
INVARIANT
  CastsLeftOutChangeNothing
CHECK_DEADLOCK FALSE
