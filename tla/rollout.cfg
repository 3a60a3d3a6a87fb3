SPECIFICATION FairSpec
CONSTANTS
  Dests = {w, p}
  w = w
  p = p
  Worker = w
  Sup = sup
  V0 = v0
  v1 = v1
  v2 = v2
  Versions = {v1, v2}
  WorkerOnly = {}
  Unversioned = {}
  BadWorkers = {v2}
  BadSupervisors = {}
  None = None
  Torn = Torn
  Patient = TRUE
  CrashAt <- InRun
  TornCopies = FALSE
  MaxFetches = 3
  MaxCrashes = 1
  MaxFaults = 0
INVARIANT NoMixedRun
INVARIANT LastGoodRecoverable
INVARIANT ConfirmedIsInstalled
INVARIANT RolledBackTogether
PROPERTY OldNotOverwritten
PROPERTY ImplementsContract
PROPERTY BadWorkerRolledBack
PROPERTY WatchEnds
PROPERTY VersionsSettle
