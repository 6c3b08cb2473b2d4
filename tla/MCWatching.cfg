SPECIFICATION FairSpec
CONSTANTS
  file = file  list = list  field = field  panel = panel
  Controls = {list, field, panel}
  Late = {panel}
  Rows = {row}
  Table = Table
  watch <- Watches
  Slots = {file}
  Interval = 2
  MaxChanges = 2
  MaxEvents = 1
  BlockAllowed = TRUE
  RequestsFail = TRUE
PROPERTY KeepsFollowing
PROPERTY RunsAreSpaced
PROPERTY RefreshesUnlessLost
CHECK_DEADLOCK FALSE
