SPECIFICATION XSpec
CONSTANTS
  NoTable = NoTable
  NoName = NoName
  Null = Null
  Malformed = Malformed
  Tables <- MCTables
  Documents <- MCDocuments
  Numerals <- MCNumerals
  Truths <- MCTruths
  Width = 8
CHECK_DEADLOCK FALSE
INVARIANTS AcceptsAsDescribed WalkShowsDocument
