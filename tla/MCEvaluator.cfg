SPECIFICATION HistorySpec
CONSTANTS
  Nodes <- MCNodes
  Programs <- MCPrograms
  Builtins <- BuiltinNames
  MaxInt = 7
  MaxDepth = 4
INVARIANTS
  TypeOK
  ReturnsUnwrapped
  ErrorsEndPrograms
  NilsExplained
