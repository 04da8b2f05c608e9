SPECIFICATION HistorySpec
CONSTANTS
  Names <- MCNames
  Builtins <- MCBuiltins
  Byte = 256
  MaxInt = 7
  StackSize = 8
  MaxFrames = 3
  Nodes <- MCNodes
  Programs <- MCPrograms
  MaxLines = 3
INVARIANTS
  NamesHaveValues
PROPERTIES
  PoolGrows
