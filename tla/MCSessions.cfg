SPECIFICATION FairSpec
CONSTANTS
  Name = {n1, n2}
  MaxLaunches = 2
  LivenessLimit = 2
  MaxFaults = 2
INVARIANTS
  NoContainerLost
PROPERTIES
  ForgottenWhenGone
  DeadAndExpiredGo
CHECK_DEADLOCK FALSE
