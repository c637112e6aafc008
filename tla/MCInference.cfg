SPECIFICATION Spec
CONSTANTS
  Programs <- MCPrograms
  Universe <- MCUniverse
INVARIANTS
  AcceptedIsWellTyped
  TheOnlyTypingIsFound
CHECK_DEADLOCK FALSE
