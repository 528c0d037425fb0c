SPECIFICATION FairSpec
CONSTANTS
  m1 = m1
  m2 = m2
  m3 = m3
  c1 = c1
  c2 = c2
  Msgs = {m1, m2, m3}
  NoMsg = NoMsg
  Conns = {c1, c2}
  ShutdownHandle = {c1}
  MaxBreaks = 2
INVARIANT FirstTriesInOrder
PROPERTY ImplementsOutbox
PROPERTY Delivered
PROPERTY CloseEnds
