SPECIFICATION Spec
CONSTANTS
  Dests = {w, p}
  w = w
  p = p
  Worker = w
  Sup = sup
  V0 = v0
  v1 = v1
  v2 = v2
  Versions = {v1, v2}
  WorkerOnly = {}
  Unversioned = {}
  BadWorkers = {v2}
  BadSupervisors = {}
  None = None
  Torn = Torn
  Patient = FALSE
  CrashAt <- Anywhere
  TornCopies = FALSE
  MaxFetches = 1
  MaxCrashes = 1
  MaxFaults = 0
INVARIANT NoMixedRun
CHECK_DEADLOCK FALSE
