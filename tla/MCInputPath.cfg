SPECIFICATION Spec
CONSTANTS
  Viewer = {1, 2}
  MaxMade = 2
  MaxChurn = 3
INVARIANTS
  InputInOrder
  ValuesInOrder
  OneStraggler
CHECK_DEADLOCK FALSE
