SPECIFICATION Spec
CONSTANTS
  q1 = q1  q2 = q2  q3 = q3  b1 = b1  b2 = b2  b3 = b3
  None = None
  Requests = {q1, q2}
  Kinds = {"bad", "static", "app"}
  Buffers = {b1, b2}
  Codes = {200, 404}
  Ops = {"Write", "WriteHeader", "Header", "Disable", "Reset"}
  MaxOps = 2
  MaxBufferSize = 2
INVARIANT TypeOK
INVARIANT BuffersAreExclusive
INVARIANT OwnOutput
INVARIANT AllOrError
SYMMETRY Symmetric
CHECK_DEADLOCK FALSE
