SPECIFICATION FSpec
CONSTANTS
  WordBits = 2
  Widths <- MCWidths
  IntBits = 5
  Elements <- MCElements
  Aliases <- MCAliases
  Mappings <- MCMappings
  Expressions <- MCExpressions
  Records <- MCRecords
  ListLength = 0
  Operators = {"and", "or"}
INVARIANTS
  AssertsHold
CHECK_DEADLOCK FALSE
