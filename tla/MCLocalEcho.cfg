CONSTANTS
  Value = {0, 1, 2}
  Place = {0, 1, 2}
  None = None
  MaxUser = 3
  MaxPage = 2
  MaxShots = 1
  MaxAll = 5
  Budgets <- MCBudgets
SPECIFICATION Spec
INVARIANTS
  FieldReconciled
  ScrollReconciled
CHECK_DEADLOCK FALSE
