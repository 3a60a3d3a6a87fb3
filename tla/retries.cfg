SPECIFICATION Spec
CONSTANTS
  Edges = {1, 2}
  Jobs = {1}
  Users = {ua, ub}
  Old = v1
  Target = v2
  None = none
  Forces = {FALSE}
  BatchSize = 1
  Concurrency = 1
  Expirable = {1}
  MayDrop = {}
  MaxRegs = 1
  MaxRetries = 2
  MaxStops = 0
  MaxFaults = 1
  v1 = v1
  v2 = v2
  none = none
  ua = ua
  ub = ub
\* Nothing is left to do once the bounds are used up.
CHECK_DEADLOCK FALSE
INVARIANTS TerminalMeansDone
PROPERTIES SucceededStays
