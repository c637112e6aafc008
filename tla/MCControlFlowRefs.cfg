SPECIFICATION Spec
CONSTANTS
  MaxNodes = 4
  MaxDepth = 5
INVARIANTS
  ReturnsFromEnclosingFunction
  BreaksEnclosingLoop
