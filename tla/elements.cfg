SPECIFICATION ESpec
CONSTANTS
  Null = Null
  NoName = NoName
  NoType = NoType
  NoId = NoId
  NoBiflow = NoBiflow
  NoFile = NoFile
  IdLimit = 15
  Iana = 100
  Dirs <- MCDirs
  Files <- MCFiles
  Added <- MCAdded
  AddedTo = {30, 50}
  Reversed <- MCReversed
  MaxCalls = 3
CHECK_DEADLOCK FALSE
INVARIANTS LoadedBothWays MappingsFound
PROPERTIES VectorsAgree AddsButToSplit RemovedIsGone CopyFinds
