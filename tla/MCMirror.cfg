SPECIFICATION FairSpec
CONSTANTS
  Base <- MCEvents
  Delta <- MCEvents
  NoBase = 0
  Viewer = {v1, v2}
  StallLen = 1
  ResumeLen = 1
  MaxSeq = 3
  MaxChurn = 2
INVARIANTS
  ReplicaContiguous
  NoGapReachesMirror
  QuietMeansInStep
PROPERTIES
  EpochNeverGoesBack
  EventuallyMirrored
CHECK_DEADLOCK FALSE
