CONSTANTS
  MaxLanes = 2
  MaxConns = 2
  MaxDocs = 2
  MaxAsks = 3
  MaxSignals = 1
SPECIFICATION Spec
INVARIANTS
  OneGeneration
  PageFollowsGateway
CHECK_DEADLOCK FALSE
