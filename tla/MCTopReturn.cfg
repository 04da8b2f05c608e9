SPECIFICATION HistorySpec
CONSTANTS
  Names <- MCNames
  Builtins <- MCBuiltins
  Byte = 256
  MaxInt = 7
  StackSize = 10
  MaxFrames = 4
  Nodes <- MCNodes
  Programs <- MCPrograms
  MaxLines = 1
INVARIANT
  TopReturnAnswered
