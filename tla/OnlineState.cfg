SPECIFICATION EventsSpec
CONSTANTS
  w1 = w1
  w2 = w2
  Waiters = {w1, w2}
  u1 = u1
  u2 = u2
  Subs = {u1, u2}
  NoHolder = NoHolder
  MaxOnline = 2
INVARIANT OnlineTypeOK
INVARIANT NoMissedThreshold
INVARIANT PresenceReported
INVARIANT SubscriberAgrees
PROPERTY WaitReturns
