SPECIFICATION Spec
CONSTANTS
  Dests = {w, p}
  w = w
  p = p
  Worker = w
  Sup = sup
  V0 = v0
  v1 = v1
  v2 = v2
  Versions = {v1, v2}
  WorkerOnly = {}
  Unversioned = {}
  BadWorkers = {v2}
  BadSupervisors = {}
  None = None
  Torn = Torn
  Patient = TRUE
  CrashAt <- Anywhere
  TornCopies = TRUE
  MaxFetches = 1
  MaxCrashes = 2
  MaxFaults = 0
INVARIANT TypeOK
INVARIANT SwappedHasBackup
PROPERTY OldDroppedOnlyWhenConfirmed
CHECK_DEADLOCK FALSE
