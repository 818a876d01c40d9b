CONSTANTS
  Size = 4
  NestedSize = 6
  Sources <- MCSources
  Letters <- MCLetters
  Keywords <- MCKeywords
  MaxNumber = 99
SPECIFICATION Spec
INVARIANTS ParserTypeOK AcceptsWellFormed TreeSpellsSource
PROPERTIES FrontEndEnds
CHECK_DEADLOCK FALSE
