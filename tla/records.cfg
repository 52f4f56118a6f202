SPECIFICATION JSpec
CONSTANTS
  NoElem = NoElem
  NoMgr = NoMgr
  NoTmplt = NoTmplt
  SwapPairs <- MCSwapPairs
  OptsRules <- MCOptsRules
  Managers <- MCManagers
  Keys <- MCKeys
  Raws <- MCRaws
  Contents <- MCContents
  IterFlags <- MCIterFlags
  NoIter = NoIter
  NoMatch = NoMatch
  MaxSteps = 3
  Typed <- MCTyped
  TypedManagers <- MCTypedManagers
  Snapshot <- MCSnapshot
  Values <- MCValues
  FlagSets <- MCFlagSets
  Sizes <- MCSizes
  NoDoc = NoDoc
  NoValue = NoValue
  BufferBase = 40
  MaxConversion = 2
CHECK_DEADLOCK FALSE
INVARIANTS DefineForgets ViewsMirror IteratorInStep JsonReadsBack ValuesReadBack TextFits
