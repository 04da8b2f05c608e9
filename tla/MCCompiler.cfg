SPECIFICATION HistorySpec
CONSTANTS
  a = a
  b = b
  len = len
  Names <- MCNames
  Builtins <- MCBuiltins
  Byte = 256
  Nodes <- MCNodes
  Programs <- MCPrograms
INVARIANTS
  TypeOK
  LastInstructionTracked
  ControlStays
  ClosuresMatch
  CodeVerified
PROPERTIES
  ImplementsScoping
