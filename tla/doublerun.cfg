SPECIFICATION Spec
CONSTANTS
  Incidents = {i}
  Users = {u}
  MaxConcurrent = 2
  Rows = {1, 2, 3}
  MaxForces = 1
  MaxCrashes = 0
CHECK_DEADLOCK FALSE
PROPERTY ForceStopsWorker
