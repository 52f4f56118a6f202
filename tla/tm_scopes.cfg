SPECIFICATION Spec
VIEW ListAndGarbage
CONSTANTS
  IDs = {1}
  NoTmplt = 0
  Defs = {a, b}
  OptsDefs = {b}
  Keys = {0, 1, 2}
  LongKeys = {2}
  IesSet = {0, 1}
  Times = {0, 1}
  TimeMod = 16
  Sessions = {"TCP", "SCTP", "FILE", "UDP"}
  Ops <- ScopeOps
  Lifetimes = {1}
  SnapLifetimes = {2}
  MaxSnaps = 3
  Addrs = {1, 2, 3}
  MaxHanded = 1
CHECK_DEADLOCK FALSE
INVARIANTS SingleOwner OtherAssertsHold PastIsFrozen IesCurrent
PROPERTIES FrozenStays
