SPECIFICATION Spec
CONSTANTS
  r1 = r1
  r2 = r2
  w1 = w1
  w2 = w2
  Request = {r1, r2}
  Worker = {w1, w2}
  MaxCrashes = 2
  MaxFaults = 2
CHECK_DEADLOCK FALSE
INVARIANTS StoreIsSound RecoveryIsExact
PROPERTIES DecidedIsFinal CrashedCloses
