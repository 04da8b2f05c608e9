SPECIFICATION HistorySpec
CONSTANTS
  a = a
  b = b
  len = len
  Names <- MCNames
  Builtins <- MCBuiltins
  Byte = 2
  Nodes <- MCNodes
  Programs <- MCPrograms
INVARIANT
  LocalsFit
