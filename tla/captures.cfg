SPECIFICATION Spec
CONSTANTS
  Captures = {1, 2}
  StartAt <- InOrder
  MaxLive = 2
  Coordinator = coordinator
  Callers = {u}
  Requests = {"refresh", "cancelOperation"}
  MaxRequests = 1
  MaxLost = 0
  MaxFaults = 1
  MaxStops = 1
  MaxRestarts = 1
  MaxEvents = 2
  coordinator = coordinator
  u = u
\* Nothing is left to do once the chat has been told.
CHECK_DEADLOCK FALSE
INVARIANTS OneCaptureAtATime OneParser ArtifactKept ToldOnce
PROPERTIES NeverRevived OperationStays
