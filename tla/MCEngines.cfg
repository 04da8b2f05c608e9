SPECIFICATION EnginesSpec
CONSTANTS
  Names <- MCNames
  Builtins <- MCBuiltins
  Byte = 256
  MaxInt = 7
  StackSize = 13
  MaxFrames = 4
  MaxDepth = 4
  Nodes <- MCNodes
  Programs <- MCPrograms
  MaxLines = 1
INVARIANTS
  EnginesAgree
  NothingUnset
  CrashesExplained
PROPERTIES
  EnginesEnd
