SPECIFICATION Spec
CONSTANTS
  Call = {1, 2}
  Snapshot = {1}
  Recent = 2
  Reuse = TRUE
  MaxDocs = 2
  MaxEvents = 1
  MaxOdd = 1
INVARIANTS
  StreamFaithful
  AnswersMatch
  SnapshotBeforeAnswer
  NoCommandForgotten
  FollowsPage
CHECK_DEADLOCK FALSE
