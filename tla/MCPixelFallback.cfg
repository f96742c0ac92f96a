SPECIFICATION FairSpec
CONSTANTS
  Window = 3
  MaxResyncs = 2
  BackoffBase = 1
  BackoffMax = 1
  Budgets <- MCBudgets
INVARIANTS
  RateLimited
  FrozenIsPursued
PROPERTIES
  ShownAsAnnounced
CHECK_DEADLOCK FALSE
