SPECIFICATION FairSpec
CONSTANTS
  c1 = c1
  r1 = r1
  r2 = r2
  p1 = p1
  k1 = k1
  k2 = k2
  Callers = {c1}
  Readers = {r1, r2}
  Peers = {p1}
  Server = Server
  Keys = {k1, k2}
  NoKey = NoKey
  Empty = Empty
  MaxVersion = 2
  MaxUpdates = 1
  MaxCache = 1
INVARIANT NoLeak
INVARIANT Answerable
INVARIANT AtMostOneAnswer
PROPERTY QueryReturns
PROPERTY HealsAfterRotation
