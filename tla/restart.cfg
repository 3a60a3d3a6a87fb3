SPECIFICATION FairSpec
CONSTANTS
  Edges = {1, 2}
  Jobs = {1}
  Users = {ua}
  Old = v1
  Target = v2
  None = none
  Forces = {FALSE}
  BatchSize = 1
  Concurrency = 2
  Expirable = {}
  MayDrop = {2}
  MaxRegs = 2
  MaxRetries = 0
  MaxStops = 1
  MaxFaults = 0
  v1 = v1
  v2 = v2
  none = none
  ua = ua
  ub = ub
\* Nothing is left to do once the bounds are used up.
CHECK_DEADLOCK FALSE
INVARIANTS TypeOK BatchBarrier BatchBounded SuccessIsReported
PROPERTIES FailedBySession JobsEnd
