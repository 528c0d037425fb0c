SPECIFICATION FairSpec
CONSTANTS
  h1 = h1
  h2 = h2
  q1 = q1
  q2 = q2
  w1 = w1
  Hosts = {h1, h2}
  Queries = {q1, q2}
  Waiters = {w1}
  Handshake = Handshake
  NoSend = NoSend
  ApiLists <- MCApiLists
  MaxReported = 2
  MaxHosts = 2
  MaxFail = 0
  SendsFail = FALSE
PROPERTY OnlineFlushes
