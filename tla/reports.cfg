SPECIFICATION FairSpec
CONSTANTS
  Incidents = {i, j}
  Users = {u}
  MaxConcurrent = 1
  Rows = {1, 2, 3}
  MaxForces = 1
  MaxCrashes = 1
\* Nothing is left to do once every incident has its report.
CHECK_DEADLOCK FALSE
INVARIANTS SlotsAreHeld ProgressHasRun
PROPERTIES OwnVerdict EveryIncidentReported
