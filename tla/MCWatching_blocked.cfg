SPECIFICATION FairSpec
CONSTANTS
  file = file  list = list  field = field  panel = panel
  Controls = {list}
  Late = {}
  Rows = {row}
  Table = Table
  watch <- Watches
  Slots = {}
  Interval = 1
  MaxChanges = 1
  MaxEvents = 1
  BlockAllowed = TRUE
  RequestsFail = FALSE
PROPERTY MessageRefreshes
CHECK_DEADLOCK FALSE
