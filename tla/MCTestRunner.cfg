SPECIFICATION Spec
CONSTANTS
  NumTests = 3
  Jobs = 2
  Endings <- MCEndings
INVARIANTS
  TypeOK
  ReportIsRight
  NoTestLeftBehind
PROPERTIES
  ReportsUnlessEarly
CHECK_DEADLOCK FALSE
