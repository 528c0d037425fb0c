SPECIFICATION OnlineSpec
CONSTANTS
  w1 = w1
  Waiters = {w1}
  NoHolder = NoHolder
  MaxOnline = 1
INVARIANT CloseWakesWaiters
