CONSTANTS
  Key = {k1, k2, k3, k4}
  Value = {d1, d2}
  NULL = NULL
  InitialCapacity = 4
  HashValue = {0, 3, 5}
  MaxSymbols = 5
SPECIFICATION Spec
SYMMETRY Symmetry
INVARIANTS TypeOK SearchesEnd EntriesReachable NewestWins
PROPERTY ImplementsScopeMap
CHECK_DEADLOCK FALSE
