SPECIFICATION FairSpec
CONSTANTS
  click = click  key = key  save = save
  Events = {click, key, save}
  None = None
  Delay <- Delays
  Causes <- ClickSaves
  Last = {save}
  DrainDelay = 1
  MaxEvents = 4
  Throwing = {click}
INVARIANT TypeOK
INVARIANT RunInOrder
INVARIANT EachHasOneFate
INVARIANT LastRunsLast
PROPERTY ActionsRun
CHECK_DEADLOCK FALSE
