SPECIFICATION FairSpec
CONSTANTS
  Viewer = {v1, v2}
  NoViewer = NoViewer
  DriverInvite = {v1}
  Size = {s1, s2}
  NoSize = NoSize
  Native = s1
  Window <- MCWindow
  MaxEpoch = 2
  Budgets <- MCBudgets
INVARIANTS
  InputMatchesGeometry
  SomebodyDrives
  LockIsPursued
PROPERTIES
  UnlocksAtFinalGeometry
  DriverEventuallyUnlocked
CHECK_DEADLOCK FALSE
