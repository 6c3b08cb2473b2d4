SPECIFICATION Spec
CONSTANTS
  q1 = q1  q2 = q2  q3 = q3  b1 = b1  b2 = b2  b3 = b3
  None = None
  Requests = {q1}
  Kinds = {"app"}
  Buffers = {b1}
  Codes = {404}
  Ops = {"Write", "Reset"}
  MaxOps = 3
  MaxBufferSize = 9
INVARIANT ResetReturnsOutput
CHECK_DEADLOCK FALSE
