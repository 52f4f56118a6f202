SPECIFICATION SSpec
CONSTANTS
  HeaderLen = 1
  BlockHdr = 2
  SessionLen = 7
  TmpltHdr = 3
  DataHdr = 3
  MsgHdr = 1
  SetHdr = 1
  MsgMax = 4
  Capacity = 10
  RecMax = 2
  SidMax = 1
  short = short
  medium = medium
  long = long
  Defs = {short}
  RecLen <- MCRecLen
  TIDs = {1}
  Dscs = {1}
  ODIDs = {1, 2}
  ETimes = {0}
  Ios = {"sync"}
  Modes = {"write"}
  Handles = {h1}
  Torn = {0, 2}
  NoDef = NoDef
  NoHandle = NoHandle
  NoCtx = NoCtx
  NoTmplt = NoTmplt
  Malformed = Malformed
  NoBlock = NoBlock
  NoSid = NoSid
  NoOdid = NoOdid
  MaxFilter = 2
  MaxRecs = 2
  MaxOpens = 1
  MaxFaults = 1
VIEW MCView
PROPERTIES LogSpec
CHECK_DEADLOCK FALSE
