SPECIFICATION Spec
CONSTANTS
  x = x
  len = len
  Names <- MCNames
  Builtins <- MCBuiltins
  Levels <- MCLevels
  Slots <- MCSlots
INVARIANTS
  TypeOK
  WellScoped
  FreeMatchesOuter
  SlotsDistinct
PROPERTIES
  EmittedIndicesStable
  ResolvePreservesEntries
  LexicalScoping
