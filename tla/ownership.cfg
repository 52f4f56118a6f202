SPECIFICATION Spec
CONSTANTS
  IDs = {x}
  NoTmplt = none
  Addrs = {t1, t2, t3}
  MaxSnaps = 3
  MaxHanded = 1
INVARIANTS OwnershipInv
CHECK_DEADLOCK FALSE
