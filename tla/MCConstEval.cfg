SPECIFICATION Spec
CONSTANTS
  N = 3
  Length = 2
  Total = 3
  Kinds = {"illegal", "mismatch", "unhandled", "outside"}
  Programs <- MCPrograms
INVARIANTS
  CyclesMeetAMark
  ValuesAreRight
  RecursionIsReal
  DefinedMeansValued
  AcceptedMeansValued
PROPERTIES
  Terminates
CHECK_DEADLOCK FALSE
