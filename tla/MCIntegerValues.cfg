SPECIFICATION Spec
CONSTANTS
  WordSize = 2
  SplitAt = 2
  Literals <- MCLiterals
  Reals <- MCReals
  RealWords = 1
  Types <- MCTypes
  Operands <- MCOperands
  Shifts <- MCShifts
  MaxWords = 3
  Pointer = 4
INVARIANTS
  WordsFit
  ValuesAreRight
  AnswersAreRight
CHECK_DEADLOCK FALSE
