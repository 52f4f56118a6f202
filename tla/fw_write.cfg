SPECIFICATION WriterSpec
CONSTANTS
  HeaderLen = 1
  BlockHdr = 2
  SessionLen = 7
  TmpltHdr = 3
  DataHdr = 3
  MsgHdr = 1
  SetHdr = 1
  MsgMax = 4
  Capacity = 10
  RecMax = 2
  SidMax = 1
  short = short
  medium = medium
  long = long
  Defs = {short, medium, long}
  RecLen <- MCRecLen
  TIDs = {1}
  Dscs = {1, 2}
  ODIDs = {1}
  ETimes = {0, 1}
  Ios = {"async", "sync"}
  Modes = {"write", "append"}
  Handles = {h1, h2}
  Torn = {0, 2}
  NoDef = NoDef
  NoHandle = NoHandle
  NoCtx = NoCtx
  NoTmplt = NoTmplt
  Malformed = Malformed
  NoBlock = NoBlock
  NoSid = NoSid
  NoOdid = NoOdid
  MaxFilter = 0
  MaxRecs = 2
  MaxOpens = 2
  MaxFaults = 1
VIEW MCView
INVARIANTS FTypeOK Accounted ClosedComplete
PROPERTIES BlocksAreKept
CHECK_DEADLOCK FALSE
