SPECIFICATION Spec
CONSTANTS
  a = a  b = b  c = c  d = d
  Ids = {a, b, c, d}
  None = None
  NRows = 5
  RowId <- HeadedIds
  NoSel = {1, 4}
  Edge <- Edges
  ViewHeight = 3
  MaxRedraws = 1
INVARIANT TypeOK
INVARIANT SelectionAgrees
PROPERTY KeysShowSelection
CHECK_DEADLOCK FALSE
