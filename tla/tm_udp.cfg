SPECIFICATION Spec
VIEW ListAndHistory
CONSTANTS
  IDs = {1}
  NoTmplt = 0
  Defs = {a, b}
  OptsDefs = {}
  Keys = {0}
  LongKeys = {}
  IesSet = {0}
  Times = {14, 15, 0, 1}
  TimeMod = 16
  Sessions = {"UDP"}
  Ops <- UdpOps
  Lifetimes = {1}
  SnapLifetimes = {2}
  MaxSnaps = 4
  Addrs <- TenAddrs
  MaxHanded = 1
CHECK_DEADLOCK FALSE
INVARIANTS SequencedByExportTime CurrentIsValid
