SPECIFICATION Spec
CONSTANTS
  a = a  b = b  c1 = c1  c2 = c2  c3 = c3
  None = None
  Conns = {c1, c2}
  Ids = {i1, i2}
  Channels = {a, b}
  Senders = {s1}
  BufCap = 1
  MaxSend = 2
  MaxRead = 1
  Requests <- TwoChannels
  ClientSends = {a}
  PeersFail = TRUE
SYMMETRY Symmetric
INVARIANT Tables
PROPERTY DeliversInOrder
CHECK_DEADLOCK FALSE
