SPECIFICATION Spec
CONSTANTS
  Bytecodes <- MCBytecodes
  Builtins <- MCBuiltins
  Byte = 256
  MaxInt = 7
  StackSize = 6
  MaxFrames = 3
INVARIANTS
  TypeOK
  FramesNest
  StackEmptied
  ControlAtInstruction
  IndicesInRange
