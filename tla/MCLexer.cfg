SPECIFICATION Spec
CONSTANTS
  Inputs <- MCInputs
  Letters <- MCLetters
  Digits <- MCDigits
  Blanks <- MCBlanks
  Symbols <- MCSymbols
  Keywords <- MCKeywords
INVARIANTS
  TypeOK
  LongestLexemes
  NothingSkipped
  EndIsFinal
PROPERTIES
  NextTokenReturns
