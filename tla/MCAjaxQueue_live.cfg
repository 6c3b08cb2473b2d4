SPECIFICATION FairSpec
CONSTANTS
  q1 = q1
  q2 = q2
  q3 = q3
  q4 = q4
  ca = ca
  cb = cb
  Requests = {q1, q2, q3}
  Controls = {}
  MaxEdits = 0
  MaxFinals = 1
  AsyncAllowed = TRUE
  BlockAllowed = TRUE
  FilesAllowed = TRUE
  Failures = {"lost", "error", "throw"}
INVARIANT NoneLeftBehind
PROPERTY ServesInTurn
PROPERTY QueueDrains
PROPERTY BlockEndsIfAnswered
CHECK_DEADLOCK FALSE
