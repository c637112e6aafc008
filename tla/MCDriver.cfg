SPECIFICATION Spec
CONSTANTS
  Inputs <- MCInputs
  Limits = {0, 1, 3}
  MaxReports = 2
INVARIANTS
  TypeOK
  ExitTellsErrors
  MessagesInOrder
  OutputOnlyForValidPrograms
  BinaryOnlyIfClean
CHECK_DEADLOCK FALSE
