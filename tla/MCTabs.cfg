SPECIFICATION Spec
CONSTANTS
  MaxTabs = 3
  Budgets <- MCBudgets
INVARIANTS
  TabAlwaysComing
  OneIsActive
  
CHECK_DEADLOCK FALSE
