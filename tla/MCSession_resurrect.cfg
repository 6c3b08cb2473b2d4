SPECIFICATION Spec
CONSTANTS
  b1 = b1  b2 = b2  r1 = r1  r2 = r2  r3 = r3
  t1 = t1  t2 = t2  t3 = t3  t4 = t4  ka = ka  kb = kb
  None = None
  Browsers = {b1}
  Requests = {r1, r2, r3}
  Keys = {ka}
  Tokens = {t1, t2, t3}
  Ops = {"Set", "Remove", "Reset"}
  MaxOps = 1
  MaxActive = 2
SYMMETRY Symmetric
INVARIANTS ResetRetires
CHECK_DEADLOCK FALSE
