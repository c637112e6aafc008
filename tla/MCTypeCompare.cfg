SPECIFICATION Spec
CONSTANTS
  Graphs <- MCGraphs
  MaxCalls = 2
INVARIANTS
  EqualTypesAreAlike
  AlikeTypesAreEqual
  SizedTypesAreFinite
PROPERTIES
  ComparisonsEnd
CHECK_DEADLOCK FALSE
