SPECIFICATION FairSpec
CONSTANTS
  a = a  b = b  c1 = c1  c2 = c2  c3 = c3
  None = None
  Conns = {c1, c2}
  Ids = {i1, i2}
  Channels = {a}
  Senders = {s1}
  BufCap = 1
  MaxSend = 2
  MaxRead = 1
  Requests <- OneChannel
  ClientSends = {}
  PeersFail = TRUE
PROPERTIES StallsOnlyOnDead DeliversUnlessStalled
CHECK_DEADLOCK FALSE
