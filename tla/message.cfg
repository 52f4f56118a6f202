SPECIFICATION MSpec
CONSTANTS
  NoElem = NoElem
  NoMgr = NoMgr
  NoTmplt = NoTmplt
  NoIter = NoIter
  Damaged = Damaged
  SwapPairs = {}
  OptsRules <- MCOptsRules
  Messages <- MCMessages
  MaxChunks = 2
  Values = {0, 1, 2, 3, 5, 128, 254, 255}
CHECK_DEADLOCK FALSE
INVARIANTS DefinitionsParse FieldsFillRecord ReadsWhatWasSent
PROPERTY LoopsEnd
