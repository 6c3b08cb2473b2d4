SPECIFICATION Spec
CONSTANTS
  Circle = TRUE
  MaxAsks = 3
  MaxFrames = 3
  MaxSets = 2
  MaxRedraws = 1
INVARIANT CameraFollowsView
INVARIANT CanvasShowsData
CHECK_DEADLOCK FALSE
