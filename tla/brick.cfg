SPECIFICATION Spec
CONSTANTS
  Dests = {w, p}
  w = w
  p = p
  Worker = w
  Sup = sup
  V0 = v0
  v1 = v1
  v2 = v2
  v3 = v3
  Versions = {v1, v2, v3}
  WorkerOnly = {v2}
  Unversioned = {}
  BadWorkers = {v2, v3}
  BadSupervisors = {v3}
  None = None
  Torn = Torn
  Patient = TRUE
  CrashAt <- InRun
  TornCopies = FALSE
  MaxFetches = 2
  MaxCrashes = 1
  MaxFaults = 1
INVARIANT Bootable
INVARIANT NoOrphanPending
INVARIANT RollbackDoneMeansRestored
PROPERTY SwapMatchesWorker
