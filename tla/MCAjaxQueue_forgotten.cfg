SPECIFICATION Spec
CONSTANTS
  q1 = q1
  q2 = q2
  q3 = q3
  q4 = q4
  ca = ca
  cb = cb
  Requests = {q1, q2}
  Controls = {ca}
  MaxEdits = 1
  MaxFinals = 0
  AsyncAllowed = FALSE
  BlockAllowed = FALSE
  FilesAllowed = FALSE
  Failures = {"lost"}
INVARIANT ChangesReachServer
SYMMETRY Symmetric
CHECK_DEADLOCK FALSE
