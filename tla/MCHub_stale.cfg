SPECIFICATION Spec
CONSTANTS
  a = a  b = b  c1 = c1  c2 = c2  c3 = c3
  None = None
  Conns = {c1, c2}
  Ids = {i1}
  Channels = {a}
  Senders = {s1}
  BufCap = 1
  MaxSend = 1
  MaxRead = 1
  Requests <- OneChannel
  ClientSends = {}
  PeersFail = TRUE
INVARIANT LiveIsRegistered
CHECK_DEADLOCK FALSE
