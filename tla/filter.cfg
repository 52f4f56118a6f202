SPECIFICATION FSpec
CONSTANTS
  WordBits = 2
  Widths <- MCWidths
  IntBits = 5
  Elements <- MCElements
  Aliases <- MCAliases
  Mappings <- MCMappings
  Expressions <- MCExpressions
  Records <- MCRecords
  ListLength = 2
  Operators = {"and", "or"}
INVARIANTS
  ParsedAsWritten
  RefusedIffSenseless
  MatchesReference
  EndsOnlyWhen
  TriesFind
CHECK_DEADLOCK FALSE
