SPECIFICATION PostSpec
CONSTANTS
  q1 = q1  q2 = q2  q3 = q3  fs = fs
  Requests = {q1, q2, q3}
  Controls = {fs}
  FileSelect = fs
  MaxEdits = 2
  MaxFinals = 0
  AsyncAllowed = TRUE
  BlockAllowed = TRUE
  FilesAllowed = TRUE
  Failures = {"lost", "throw"}
INVARIANT InPostedOrder
INVARIANT OnlyFailuresForget
INVARIANT AnsweredInOrder
INVARIANT FilesArrive
SYMMETRY Symmetric
CHECK_DEADLOCK FALSE
