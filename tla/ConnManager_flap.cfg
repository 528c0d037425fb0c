SPECIFICATION FairSpec
CONSTANTS
  h1 = h1
  t1 = t1
  Waiters = {}
  NoHolder = NoHolder
  MaxOnline = 1
  Hosts = {h1}
  NoHost = NoHost
  Threads = {t1}
  ApiLists <- MCApiLists
  MaxList = 1
  MaxReported = 1
  MaxHosts = 1
  MaxFail = 1
  HealthyAfter = 1
  TickPeriod = 2
PROPERTY FlappersGiveUp
