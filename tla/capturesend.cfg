SPECIFICATION FairSpec
CONSTANTS
  Captures = {1, 2}
  StartAt <- InOrder
  MaxLive = 2
  Coordinator = coordinator
  Callers = {u}
  Requests = {"stop"}
  MaxRequests = 1
  MaxLost = 1
  MaxFaults = 0
  MaxStops = 0
  MaxRestarts = 0
  MaxEvents = 1
  coordinator = coordinator
  u = u
\* Nothing is left to do once the chat has been told.
CHECK_DEADLOCK FALSE

PROPERTIES ChatIsTold
