CONSTANTS
  Viewer = {v1, v2}
  Tab = {t1, t2}
  NoTab = NoTab
  MaxKeys = 2
  MaxSels = 2
  MaxFiles = 2
  MaxUpsets = 1
SPECIFICATION Spec
SYMMETRY Symmetry
INVARIANTS
  WholePicks
  ChooserEnds
  NothingLeft
CHECK_DEADLOCK FALSE
