SPECIFICATION GrammarSpec
CONSTANTS
  Sources <- TokenSources
  Trees <- Programs
  MaxStatements = 3
INVARIANTS
  RoundTrip
  WholeTree
  NothingDropped
PROPERTIES
  ParsingEnds
